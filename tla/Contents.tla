------------------------------ MODULE Contents ------------------------------
(***************************************************************************)
(* The contents of objects as byte sequences, and the two relations the    *)
(* specifications of writing are stated with.                              *)
(***************************************************************************)
EXTENDS Naturals, Sequences

CONSTANT Hole  \* what a write past the end of a file leaves before it

\* A positional write: data placed at offset, over or after what was there.
Overlay(content, offset, data) ==
  LET end == offset + Len(data) IN
  [i \in 1 .. (IF Len(content) > end THEN Len(content) ELSE end) |->
     IF i > offset /\ i <= end THEN data[i - offset]
     ELSE IF i <= Len(content) THEN content[i]
     ELSE Hole]

\* content begins with draft.
Extends(content, draft) ==
  /\ Len(draft) <= Len(content)
  /\ \A i \in 1 .. Len(draft) : content[i] = draft[i]
=============================================================================
