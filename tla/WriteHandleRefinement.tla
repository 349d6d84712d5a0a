----------------------- MODULE WriteHandleRefinement -----------------------
(***************************************************************************)
(* WriteHandle implements PublishedFile: an open handle is a session whose *)
(* draft is what the caller was told had been written.                     *)
(***************************************************************************)
EXTENDS WriteHandle

CONSTANT NoSession

ASSUME NoSessionAssumption ==
  NoSession \notin [object : Objects \cup {NoPath}, draft : Seq(Byte),
                    tainted : BOOLEAN]

SessionOf(h) ==
  IF IsOpen(h)
  THEN [object |-> handle[h].path, draft |-> handle[h].intact,
        tainted |-> handle[h].failed]
  ELSE NoSession

Published == INSTANCE PublishedFile WITH
  files <- store,
  session <- [h \in Handles |-> SessionOf(h)],
  Offsets <- 0 .. MaxSize

\* Seen from the callers and the readers of the store, write handles are
\* private drafts that are published whole: the interleaved opens, failing
\* calls, second closes and process deaths of WriteHandle make no other change
\* visible.
ImplementsPublishedFile == Published!Spec
=============================================================================
