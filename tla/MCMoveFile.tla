----------------------------- MODULE MCMoveFile -----------------------------
EXTENDS MoveFile, TLC

At(scheme, config, path) == [scheme |-> scheme, config |-> config, path |-> path]

\* Two objects of one server and one of another service: moves between them are
\* renames and copies.
Reached ==
  {At("webdav", "first", "a"), At("webdav", "first", "b"), At("gcs", "first", "a")}

\* The same object paths on two servers of one service, and another service.
OnServers ==
  {At("webdav", config, path) : config \in {"first", "second"}, path \in {"a", "b"}}
    \cup {At("gcs", "first", "a")}

ReachedItself == [l \in Reached |-> l]
OnServersItself == [l \in OnServers |-> l]

\* A write that is cut short may leave any content.
AnyPart == [content \in Contents |-> Contents]

Symmetry == Permutations(Moves) \cup Permutations(Contents)
=============================================================================
