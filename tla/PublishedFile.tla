--------------------------- MODULE PublishedFile ---------------------------
(***************************************************************************)
(* What a caller of the extension is promised about writing an object,     *)
(* whatever backend holds it.  A session is a private draft, written at    *)
(* the positions DuckDB's FileSystem::Write names.  The visible content of *)
(* an object changes only when an opener empties it, when it is removed,   *)
(* and when a session's draft is published.  A session that met a failing  *)
(* write is tainted: only what it was told had been written before the     *)
(* failure is still promised.  WriteHandle implements this specification   *)
(* (WriteHandleRefinement).                                                *)
(***************************************************************************)
EXTENDS Contents

CONSTANTS
  Objects,    \* paths of the store
  Handles,    \* identities of sessions
  Byte,       \* what an object is made of
  Chunks,     \* the buffers a caller may write
  Offsets,    \* the offsets a caller may name
  NoObject,   \* the content of a path at which nothing exists
  NoSession   \* the session of a handle that is not writing

VARIABLES
  files,      \* the visible content of each path
  session     \* the draft of each handle

vars == <<files, session>>

\* The contents that may become visible for a session.
Promised(s, content) ==
  IF s.tainted THEN Extends(content, s.draft) ELSE content = s.draft

Init ==
  /\ files \in [Objects -> Seq(Byte) \cup {NoObject}]
  /\ session = [h \in Handles |-> NoSession]

Clear(o) ==
  /\ files' = [files EXCEPT ![o] = <<>>]
  /\ UNCHANGED session

Remove(o) ==
  /\ files' = [files EXCEPT ![o] = NoObject]
  /\ UNCHANGED session

Begin(h, o) ==
  /\ session[h] = NoSession
  /\ session' = [session EXCEPT
                   ![h] = [object |-> o, draft |-> <<>>, tainted |-> FALSE]]
  /\ UNCHANGED files

Put(h, offset, data) ==
  /\ session[h] # NoSession
  /\ ~session[h].tainted
  /\ session' = [session EXCEPT ![h].draft = Overlay(@, offset, data)]
  /\ UNCHANGED files

Taint(h) ==
  /\ session[h] # NoSession
  /\ session' = [session EXCEPT ![h].tainted = TRUE]
  /\ UNCHANGED files

\* The draft of h becomes the content of its object, and of no other.
Publishes(h) ==
  /\ session[h] # NoSession
  /\ LET o == session[h].object IN
       /\ files'[o] # NoObject
       /\ Promised(session[h], files'[o])
       /\ files' = [files EXCEPT ![o] = files'[o]]

Publish(h) == Publishes(h) /\ UNCHANGED session

\* A session ends by publishing, never by silently dropping its draft ...
Finish(h) ==
  /\ Publishes(h)
  /\ session' = [session EXCEPT ![h] = NoSession]

\* ... unless the process dies, perhaps while publishing one draft, and every
\* session with it.
Die ==
  /\ session' = [h \in Handles |-> NoSession]
  /\ UNCHANGED files \/ \E h \in Handles : Publishes(h)

Next ==
  \/ \E o \in Objects : Clear(o) \/ Remove(o)
  \/ \E h \in Handles :
       \/ \E o \in Objects : Begin(h, o)
       \/ \E offset \in Offsets, data \in Chunks : Put(h, offset, data)
       \/ Taint(h)
       \/ Publish(h)
       \/ Finish(h)
  \/ Die

Spec == Init /\ [][Next]_vars
=============================================================================
