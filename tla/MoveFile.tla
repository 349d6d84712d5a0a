------------------------------ MODULE MoveFile ------------------------------
(***************************************************************************)
(* OpenDALFileSystem::MoveFile (opendal_file_system.cpp): a rename by the  *)
(* source's operator when both URIs have the same scheme, and otherwise a  *)
(* read, a write and a remove, between which other calls run, and after    *)
(* each of which the next may throw or the process may die.                *)
(*                                                                         *)
(* A call that throws may have been applied, its answer lost; a write, in  *)
(* part: some services write in place.                                     *)
(***************************************************************************)
EXTENDS Naturals

CONSTANTS
  Moves,     \* calls of MoveFile
  Uris,      \* what DuckDB passes
  Located,   \* scheme, config and path: what an operator of its own is asked for
  Locate,    \* Uris -> Located: TryParse and CreateOperatorConfig
  Objects,   \* the objects of all services
  ObjectOf,  \* Located -> Objects: what a service finds at a path
  Contents,  \* what objects may hold
  Parts,     \* Contents -> what a write of one may leave when it is cut short
  NoObject   \* content where there is no object

ASSUME MoveAssumption ==
  /\ Locate \in [Uris -> Located]
  /\ ObjectOf \in [Located -> Objects]
  /\ \A s, t \in Located : s.scheme = t.scheme => [s EXCEPT !.path = t.path] \in Located
  /\ NoObject \notin Contents
  /\ Parts \in [Contents -> SUBSET Contents]

VARIABLES
  objects,  \* the content of every object
  move      \* how far each call has come

vars == <<objects, move>>

(***************************************************************************)
(* A call: what it does next; its arguments; the bytes it holds; and two   *)
(* history fields: original, what its source held when it began, and       *)
(* alone, whether nobody else has changed its source or target since.      *)
(***************************************************************************)
Arguments == [source : Uris, target : Uris]

MoveState ==
  [phase : {"idle", "rename", "read", "write", "remove", "returned", "threw"},
   uris : Arguments, data : Contents \cup {NoObject},
   original : Contents \cup {NoObject}, alone : BOOLEAN]

TypeOK ==
  /\ objects \in [Objects -> Contents \cup {NoObject}]
  /\ move \in [Moves -> MoveState]
  /\ \A m \in Moves : move[m].phase \in {"write", "remove"} => move[m].data \in Contents

Init ==
  /\ objects \in [Objects -> Contents \cup {NoObject}]
  /\ move \in [Moves -> {[phase |-> "idle", uris |-> a, data |-> NoObject,
                          original |-> NoObject, alone |-> TRUE] : a \in Arguments}]

-----------------------------------------------------------------------------
Source(m) == Locate[move[m].uris.source]
Target(m) == Locate[move[m].uris.target]

\* What the source's operator, and the target's own, find at their paths.
From(m) == ObjectOf[Source(m)]
To(m) == ObjectOf[Target(m)]

\* What the source's operator finds at the target's path: where Rename puts it.
RenamedTo(m) == ObjectOf[[Source(m) EXCEPT !.path = Target(m).path]]

\* The calls after a step, by somebody else, that leaves new: one whose source or
\* target changed is no longer alone with it.
Disturbed(new) ==
  [n \in Moves |->
     [move[n] EXCEPT !.alone =
        @ /\ \A o \in {From(n), To(n)} : new[o] = objects[o]]]

\* m goes on to phase, and the service to new.
Goes(m, phase, new) ==
  /\ objects' = new
  /\ move' = [Disturbed(new) EXCEPT ![m] = [move[m] EXCEPT !.phase = phase]]

With(o, content) == [objects EXCEPT ![o] = content]

-----------------------------------------------------------------------------
\* The checks of MoveFile, and the choice between its two ways.
Start(m) ==
  /\ move[m].phase = "idle"
  /\ move' = [move EXCEPT
       ![m].phase = IF Source(m).scheme = Target(m).scheme THEN "rename" ELSE "read",
       ![m].original = objects[From(m)],
       ![m].alone = TRUE]
  /\ UNCHANGED objects

Renamed(m) ==
  [objects EXCEPT ![RenamedTo(m)] = objects[From(m)], ![From(m)] = NoObject]

\* There is an object to rename, and another place for it.
CanRename(m) ==
  /\ move[m].phase = "rename"
  /\ objects[From(m)] # NoObject
  /\ RenamedTo(m) # From(m)

\* source_op->Rename
Rename(m) == CanRename(m) /\ Goes(m, "returned", Renamed(m))

RenameThrows(m) ==
  /\ move[m].phase = "rename"
  /\ \/ Goes(m, "threw", objects)
     \/ CanRename(m) /\ Goes(m, "threw", Renamed(m))

\* Faulty variants of Read: a source that is not there is read as empty; the
\* source is removed as soon as it was read.
ReadMissing(m) ==
  /\ move[m].phase = "read"
  /\ move' = [move EXCEPT ![m].phase = "write", ![m].data = objects[From(m)]]
  /\ UNCHANGED objects

ReadAndRemove(m) ==
  /\ move[m].phase = "read"
  /\ objects[From(m)] # NoObject
  /\ objects' = With(From(m), NoObject)
  /\ move' = [Disturbed(objects') EXCEPT
                ![m] = [move[m] EXCEPT !.phase = "write", !.data = objects[From(m)]]]

\* source_op->Read
Read(m) ==
  /\ move[m].phase = "read"
  /\ objects[From(m)] # NoObject
  /\ move' = [move EXCEPT ![m].phase = "write", ![m].data = objects[From(m)]]
  /\ UNCHANGED objects

ReadThrows(m) == move[m].phase = "read" /\ Goes(m, "threw", objects)

\* target_op->Write
Write(m) ==
  move[m].phase = "write" /\ Goes(m, "remove", With(To(m), move[m].data))

\* What a write may leave that throws: nothing new, all of it, or a part.
WriteLeaves(m) ==
  {objects} \cup {With(To(m), content) : content \in {move[m].data} \cup Parts[move[m].data]}

\* Faulty variant of WriteThrows: the error is dropped and the source removed.
WriteThrowsUnnoticed(m) ==
  move[m].phase = "write" /\ \E new \in WriteLeaves(m) : Goes(m, "remove", new)

WriteThrows(m) ==
  move[m].phase = "write" /\ \E new \in WriteLeaves(m) : Goes(m, "threw", new)

\* Faulty variant of Remove: the copy is removed, and the source stays.
RemoveCopy(m) ==
  move[m].phase = "remove" /\ Goes(m, "returned", With(To(m), NoObject))

\* source_op->Remove
Remove(m) ==
  move[m].phase = "remove" /\ Goes(m, "returned", With(From(m), NoObject))

RemoveThrows(m) ==
  /\ move[m].phase = "remove"
  /\ \E new \in {objects, With(From(m), NoObject)} : Goes(m, "threw", new)

\* The process dies with every call in it.
Kill ==
  /\ move' = [m \in Moves |->
       IF move[m].phase \in {"idle", "returned"} THEN move[m]
       ELSE [move[m] EXCEPT !.phase = "threw"]]
  /\ UNCHANGED objects

\* Another client writes or removes an object.
Replace(o, content) ==
  /\ objects' = With(o, content)
  /\ move' = Disturbed(objects')

Next ==
  \/ \E m \in Moves :
       \/ Start(m)
       \/ Rename(m) \/ RenameThrows(m)
       \/ Read(m) \/ ReadThrows(m)
       \/ Write(m) \/ WriteThrows(m)
       \/ Remove(m) \/ RemoveThrows(m)
  \/ Kill
  \/ \E o \in Objects, content \in Contents \cup {NoObject} : Replace(o, content)

Spec == Init /\ [][Next]_vars

-----------------------------------------------------------------------------
\* The target is another object than the source, and one the source's operator
\* reaches if Rename is to put it there.
Ordinary(m) ==
  /\ From(m) # To(m)
  /\ Source(m).scheme = Target(m).scheme => RenamedTo(m) = To(m)

\* The object m was to move is at its source or at its target.
Kept(m) == move[m].original \in {objects[From(m)], objects[To(m)]}

\* However a move ends, by returning, by throwing at any of its calls, by one that
\* threw although it was applied, or by the death of the process, the object is
\* still there: no prefix of read, write and remove loses it.
NothingLost ==
  \A m \in Moves :
    (move[m].phase # "idle" /\ move[m].alone /\ Ordinary(m)) => Kept(m)

\* The object is at its target, and no longer at its source, when m returns.
Lands(m) ==
  (move[m].phase # "returned" /\ move'[m].phase = "returned" /\ move[m].alone) =>
    /\ objects'[To(m)] = move[m].original
    /\ objects'[From(m)] = NoObject

\* A move that returns has put the object where the target URI names it.
OrdinaryMoveLands == [][\A m \in Moves : Ordinary(m) => Lands(m)]_vars

\* The same of every move of an object to another: an object path is relative to
\* the operator its own URI configures (opendal_uri.hpp, OpenDALUri::Apply).
MoveLands == [][\A m \in Moves : From(m) # To(m) => Lands(m)]_vars
=============================================================================
