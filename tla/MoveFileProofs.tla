--------------------------- MODULE MoveFileProofs ---------------------------
(***************************************************************************)
(* Proofs about MoveFile, for any URIs, services, contents and numbers of  *)
(* moves.                                                                  *)
(***************************************************************************)
EXTENDS MoveFile, TLAPS

-----------------------------------------------------------------------------
(* The inductive invariant: where the object of each move is, at every step. *)

\* What a move that is alone with its objects knows.
OnItsWay(m) ==
  LET s == move[m] IN
  /\ s.phase \in {"rename", "read", "write", "remove"} =>
       objects[From(m)] = s.original
  /\ s.phase \in {"write", "remove"} => s.data = s.original
  /\ s.phase \in {"remove", "returned"} => objects[To(m)] = s.original
  /\ s.phase = "threw" => Kept(m)

Tracked(m) ==
  (move[m].phase # "idle" /\ move[m].alone = TRUE /\ Ordinary(m)) => OnItsWay(m)

Sound(m) ==
  /\ move[m].phase \in {"write", "remove"} => move[m].data \in Contents
  /\ move[m].phase = "rename" => Source(m).scheme = Target(m).scheme
  /\ Tracked(m)

Typed ==
  /\ objects \in [Objects -> Contents \cup {NoObject}]
  /\ move \in [Moves -> MoveState]

IInv ==
  /\ Typed
  /\ \A m \in Moves : Sound(m)

-----------------------------------------------------------------------------
(* Lemmas about steps. *)

\* The places a move concerns are objects.
LEMMA Places ==
  ASSUME Typed, NEW m \in Moves
  PROVE  /\ move[m] \in MoveState
         /\ Source(m) \in Located /\ Target(m) \in Located
         /\ From(m) \in Objects /\ To(m) \in Objects
         /\ Source(m).scheme = Target(m).scheme => RenamedTo(m) \in Objects
<1>1. move[m] \in MoveState
  BY DEF Typed
<1>2. move[m].uris.source \in Uris /\ move[m].uris.target \in Uris
  BY <1>1 DEF MoveState, Arguments
<1>3. Source(m) \in Located /\ Target(m) \in Located
  BY <1>2, MoveAssumption DEF Source, Target
<1>4. Source(m).scheme = Target(m).scheme
        => [Source(m) EXCEPT !.path = Target(m).path] \in Located
  BY <1>3, MoveAssumption
<1> QED BY <1>1, <1>3, <1>4, MoveAssumption DEF From, To, RenamedTo

\* What a step in which n takes no part does to it: its call may die, and if it is
\* still alone with its objects, they are as they were.
Bystander(n) ==
  /\ move'[n] \in MoveState
  /\ move'[n].uris = move[n].uris
  /\ move'[n].data = move[n].data
  /\ move'[n].original = move[n].original
  /\ \/ move'[n].phase = move[n].phase
     \/ move[n].phase \notin {"idle", "returned"} /\ move'[n].phase = "threw"
  /\ move'[n].alone = TRUE =>
       /\ move[n].alone = TRUE
       /\ objects'[From(n)] = objects[From(n)]
       /\ objects'[To(n)] = objects[To(n)]

\* A move keeps its arguments, and so its places.
LEMMA SamePlaces ==
  ASSUME NEW m \in Moves, move'[m].uris = move[m].uris
  PROVE  /\ Source(m)' = Source(m) /\ Target(m)' = Target(m)
         /\ From(m)' = From(m) /\ To(m)' = To(m)
         /\ RenamedTo(m)' = RenamedTo(m)
         /\ Ordinary(m)' <=> Ordinary(m)
<1>1. Source(m)' = Source(m) /\ Target(m)' = Target(m)
  BY DEF Source, Target
<1> QED BY <1>1 DEF From, To, RenamedTo, Ordinary

\* Nothing a bystander sees takes its object from where it was.
LEMMA BystanderSound ==
  ASSUME NEW n \in Moves, move[n] \in MoveState, Sound(n), Bystander(n)
  PROVE  Sound(n)'
<1>1. /\ Source(n)' = Source(n) /\ Target(n)' = Target(n)
      /\ From(n)' = From(n) /\ To(n)' = To(n)
      /\ Ordinary(n)' <=> Ordinary(n)
  BY SamePlaces DEF Bystander
<1>2. /\ move'[n].phase \in {"write", "remove"} => move'[n].data \in Contents
      /\ move'[n].phase = "rename" => Source(n)'.scheme = Target(n)'.scheme
  BY <1>1 DEF Sound, Bystander
<1>3. ASSUME move'[n].phase # "idle", move'[n].alone = TRUE, Ordinary(n)
      PROVE  OnItsWay(n)'
  <2>1. /\ move[n].alone = TRUE
        /\ move[n].phase # "idle"
        /\ objects'[From(n)] = objects[From(n)]
        /\ objects'[To(n)] = objects[To(n)]
    BY <1>3 DEF Bystander
  <2>2. OnItsWay(n)
    BY <1>3, <2>1 DEF Sound, Tracked
  <2>3. Kept(n) => Kept(n)'
    BY <1>1, <2>1 DEF Kept, Bystander
  <2>4. CASE move'[n].phase = move[n].phase
    BY <1>1, <2>1, <2>2, <2>3, <2>4 DEF OnItsWay, Bystander
  <2>5. CASE move[n].phase \notin {"idle", "returned"} /\ move'[n].phase = "threw"
    <3>1. move[n].phase \in {"rename", "read", "write", "remove", "threw"}
      BY <2>5 DEF MoveState
    <3>2. Kept(n)
      BY <2>2, <3>1 DEF OnItsWay, Kept
    <3> QED BY <2>3, <2>5, <3>2 DEF OnItsWay
  <2> QED BY <2>4, <2>5 DEF Bystander
<1> QED BY <1>1, <1>2, <1>3 DEF Sound, Tracked, Bystander

\* What the objects may become.
Service == [Objects -> Contents \cup {NoObject}]

\* The calls that a step of somebody else leaves.
LEMMA DisturbedMoves ==
  ASSUME Typed, NEW new \in Service, NEW n \in Moves
  PROVE  LET d == Disturbed(new)[n] IN
         /\ d \in MoveState
         /\ d.uris = move[n].uris /\ d.data = move[n].data
         /\ d.original = move[n].original /\ d.phase = move[n].phase
         /\ d.alone = TRUE =>
              /\ move[n].alone = TRUE
              /\ new[From(n)] = objects[From(n)]
              /\ new[To(n)] = objects[To(n)]
<1> DEFINE still == \A o \in {From(n), To(n)} : new[o] = objects[o]
           alone == move[n].alone /\ still
           d == [move[n] EXCEPT !.alone = alone]
<1>1. Disturbed(new)[n] = d
  BY DEF Disturbed
<1>2. move[n] \in MoveState
  BY DEF Typed
<1>3. still \in BOOLEAN /\ (still = TRUE => new[From(n)] = objects[From(n)]
                                              /\ new[To(n)] = objects[To(n)])
  OBVIOUS
<1>4. move[n].alone \in BOOLEAN
  BY <1>2 DEF MoveState
<1>5. /\ alone \in BOOLEAN
      /\ alone = TRUE => move[n].alone = TRUE /\ still = TRUE
  <2> HIDE DEF still
  <2> QED BY <1>3, <1>4, Zenon
<1> HIDE DEF alone
<1>6. /\ d \in MoveState
      /\ d.uris = move[n].uris /\ d.data = move[n].data
      /\ d.original = move[n].original /\ d.phase = move[n].phase
      /\ d.alone = alone
  BY <1>2, <1>5 DEF MoveState
<1> QED BY <1>1, <1>3, <1>5, <1>6

\* A step by m itself that leaves it as entry: the others stand by.
LEMMA StepEffect ==
  ASSUME Typed, NEW m \in Moves, NEW new \in Service, NEW entry \in MoveState,
         objects' = new, move' = [Disturbed(new) EXCEPT ![m] = entry]
  PROVE  /\ Typed'
         /\ move'[m] = entry
         /\ \A n \in Moves \ {m} : Bystander(n)
<1>1. DOMAIN Disturbed(new) = Moves /\ Disturbed(new) = [n \in Moves |-> Disturbed(new)[n]]
  BY DEF Disturbed
<1> DEFINE d == Disturbed(new)
<1>2. \A n \in Moves : d[n] \in MoveState
  BY DisturbedMoves
<1> HIDE DEF d
<1>3. move' = [n \in Moves |-> IF n = m THEN entry ELSE d[n]]
  BY <1>1 DEF d
<1>4. Typed'
  BY <1>2, <1>3 DEF Typed, Service
<1>5. ASSUME NEW n \in Moves \ {m} PROVE Bystander(n)
  <2>1. move'[n] = d[n]
    BY <1>3
  <2>2. /\ d[n] \in MoveState
        /\ d[n].uris = move[n].uris /\ d[n].data = move[n].data
        /\ d[n].original = move[n].original /\ d[n].phase = move[n].phase
        /\ d[n].alone = TRUE =>
             /\ move[n].alone = TRUE
             /\ new[From(n)] = objects[From(n)]
             /\ new[To(n)] = objects[To(n)]
    BY DisturbedMoves DEF d
  <2> QED BY <2>1, <2>2 DEF Bystander
<1> QED BY <1>3, <1>4, <1>5

\* The same for a call that goes on to its next phase.
LEMMA GoesEffect ==
  ASSUME Typed, NEW m \in Moves, NEW new \in Service,
         NEW phase \in {"remove", "returned", "threw"}, Goes(m, phase, new)
  PROVE  /\ Typed'
         /\ objects' = new
         /\ move'[m].phase = phase
         /\ move'[m].uris = move[m].uris
         /\ move'[m].data = move[m].data
         /\ move'[m].original = move[m].original
         /\ move'[m].alone = move[m].alone
         /\ \A n \in Moves \ {m} : Bystander(n)
<1> DEFINE entry == [move[m] EXCEPT !.phase = phase]
<1>1. move[m] \in MoveState
  BY DEF Typed
<1>2. /\ entry \in MoveState
      /\ entry.phase = phase
      /\ entry.uris = move[m].uris
      /\ entry.data = move[m].data
      /\ entry.original = move[m].original
      /\ entry.alone = move[m].alone
  BY <1>1 DEF MoveState
<1>3. objects' = new /\ move' = [Disturbed(new) EXCEPT ![m] = entry]
  BY DEF Goes
<1> HIDE DEF entry
<1> QED BY <1>2, <1>3, StepEffect

\* A call that throws knows that its object is kept; what it was about to do next
\* no longer matters.
LEMMA ThrewSound ==
  ASSUME NEW m \in Moves, move'[m].uris = move[m].uris, move'[m].phase = "threw",
         (move'[m].alone = TRUE /\ Ordinary(m)) => Kept(m)'
  PROVE  Sound(m)'
BY SamePlaces DEF Sound, Tracked, OnItsWay

\* What With leaves: one object changed.
LEMMA WithObject ==
  ASSUME Typed, NEW o \in Objects, NEW content \in Contents \cup {NoObject}
  PROVE  /\ With(o, content) \in Service
         /\ With(o, content)[o] = content
         /\ \A p \in Objects \ {o} : With(o, content)[p] = objects[p]
BY DEF Typed, With, Service

\* A bystander of a step by m, or by another client, stays sound.
LEMMA OthersSound ==
  ASSUME IInv, NEW m, \A n \in Moves \ {m} : Bystander(n)
  PROVE  \A n \in Moves \ {m} : Sound(n)'
BY BystanderSound DEF IInv, Typed

-----------------------------------------------------------------------------
(* Every step preserves the invariant. *)

LEMMA StartSound ==
  ASSUME IInv, NEW m \in Moves, Start(m)
  PROVE  IInv'
<1> DEFINE phase == IF Source(m).scheme = Target(m).scheme THEN "rename" ELSE "read"
           entry == [move[m] EXCEPT !.phase = phase, !.original = objects[From(m)],
                                    !.alone = TRUE]
<1>1. Typed /\ move[m] \in MoveState /\ From(m) \in Objects
  BY Places DEF IInv
<1>2. objects[From(m)] \in Contents \cup {NoObject}
  BY <1>1 DEF Typed
<1>3. phase \in {"rename", "read"} /\ (phase = "rename" => Source(m).scheme = Target(m).scheme)
  OBVIOUS
<1>4. move' = [move EXCEPT ![m] = entry] /\ objects' = objects
  BY DEF Start
<1> HIDE DEF phase
<1>5. /\ entry \in MoveState
      /\ entry.uris = move[m].uris
      /\ entry.phase = phase
      /\ entry.original = objects[From(m)]
  BY <1>1, <1>2, <1>3 DEF MoveState
<1> HIDE DEF entry
<1>6. Typed'
  BY <1>1, <1>4, <1>5 DEF Typed
<1>7. move'[m] = entry
  BY <1>1, <1>4 DEF Typed
<1>8. Sound(m)'
  <2>1. /\ Source(m)' = Source(m) /\ Target(m)' = Target(m)
        /\ From(m)' = From(m) /\ (Ordinary(m)' <=> Ordinary(m))
    BY <1>5, <1>7, SamePlaces
  <2> QED BY <1>3, <1>4, <1>5, <1>7, <2>1 DEF Sound, Tracked, OnItsWay
<1>9. \A n \in Moves \ {m} : Bystander(n)
  BY <1>1, <1>4 DEF Bystander, Typed
<1> QED BY <1>6, <1>8, <1>9, OthersSound DEF IInv

\* Rename puts the object where the source's operator finds the target's path: the
\* target, when the move is ordinary.
LEMMA RenamedObjects ==
  ASSUME IInv, NEW m \in Moves, CanRename(m)
  PROVE  /\ Renamed(m) \in Service
         /\ Renamed(m)[From(m)] = NoObject
         /\ Ordinary(m) => Renamed(m)[To(m)] = objects[From(m)]
<1>1. /\ Typed /\ From(m) \in Objects /\ RenamedTo(m) \in Objects
      /\ Source(m).scheme = Target(m).scheme
  BY Places DEF IInv, Sound, CanRename
<1>2. objects[From(m)] \in Contents \cup {NoObject}
  BY <1>1 DEF Typed
<1>3. Ordinary(m) => RenamedTo(m) = To(m)
  BY <1>1 DEF Ordinary
<1> QED BY <1>1, <1>2, <1>3 DEF Renamed, Service, Typed, CanRename

LEMMA RenameSound ==
  ASSUME IInv, NEW m \in Moves, Rename(m) \/ RenameThrows(m)
  PROVE  IInv'
<1>1. PICK phase \in {"returned", "threw"}, new \in {objects, Renamed(m)} :
        /\ Goes(m, phase, new)
        /\ \/ CanRename(m) /\ new = Renamed(m)
           \/ phase = "threw" /\ new = objects
  BY DEF Rename, RenameThrows
<1>2. Typed /\ move[m].phase = "rename" /\ objects \in Service
  BY DEF IInv, Rename, RenameThrows, CanRename, Typed, Service
<1>3. new \in Service
  BY <1>1, <1>2, RenamedObjects
<1>4. /\ Typed' /\ objects' = new /\ move'[m].phase = phase
      /\ move'[m].uris = move[m].uris
      /\ move'[m].original = move[m].original /\ move'[m].alone = move[m].alone
      /\ \A n \in Moves \ {m} : Bystander(n)
  BY <1>1, <1>2, <1>3, GoesEffect
<1>5. From(m)' = From(m) /\ To(m)' = To(m) /\ (Ordinary(m)' <=> Ordinary(m))
  BY <1>4, SamePlaces
<1>6. ASSUME move'[m].alone = TRUE, Ordinary(m)
      PROVE  /\ Kept(m)'
             /\ phase = "returned" => objects'[To(m)] = move[m].original
  <2>1. objects[From(m)] = move[m].original
    BY <1>2, <1>4, <1>6 DEF IInv, Sound, Tracked, OnItsWay
  <2>2. CASE CanRename(m) /\ new = Renamed(m)
    BY <1>4, <1>5, <1>6, <2>1, <2>2, RenamedObjects DEF Kept
  <2>3. CASE phase = "threw" /\ new = objects
    BY <1>4, <1>5, <2>1, <2>3 DEF Kept
  <2> QED BY <1>1, <2>2, <2>3
<1>7. Sound(m)'
  BY <1>4, <1>5, <1>6 DEF Sound, Tracked, OnItsWay
<1> QED BY <1>4, <1>7, OthersSound DEF IInv

LEMMA ReadSound ==
  ASSUME IInv, NEW m \in Moves, Read(m) \/ ReadThrows(m)
  PROVE  IInv'
<1>1. /\ Typed /\ move[m] \in MoveState /\ From(m) \in Objects
      /\ objects \in Service /\ move[m].phase = "read"
  BY Places DEF IInv, Typed, Service, Read, ReadThrows
<1>2. (move[m].alone = TRUE /\ Ordinary(m)) => objects[From(m)] = move[m].original
  BY <1>1 DEF IInv, Sound, Tracked, OnItsWay
<1>3. CASE Read(m)
  <2> DEFINE entry == [move[m] EXCEPT !.phase = "write", !.data = objects[From(m)]]
  <2>1. objects[From(m)] \in Contents
    BY <1>1, <1>3 DEF Read, Service
  <2>2. move' = [move EXCEPT ![m] = entry] /\ objects' = objects
    BY <1>3 DEF Read
  <2>3. /\ entry \in MoveState
        /\ entry.uris = move[m].uris /\ entry.phase = "write"
        /\ entry.data = objects[From(m)] /\ entry.original = move[m].original
        /\ entry.alone = move[m].alone
    BY <1>1, <2>1 DEF MoveState
  <2> HIDE DEF entry
  <2>4. Typed' /\ move'[m] = entry
    BY <1>1, <2>2, <2>3 DEF Typed
  <2>5. From(m)' = From(m) /\ (Ordinary(m)' <=> Ordinary(m))
    BY <2>3, <2>4, SamePlaces
  <2>6. Sound(m)'
    BY <1>2, <2>1, <2>2, <2>3, <2>4, <2>5 DEF Sound, Tracked, OnItsWay
  <2>7. \A n \in Moves \ {m} : Bystander(n)
    BY <1>1, <2>2 DEF Bystander, Typed
  <2> QED BY <2>4, <2>6, <2>7, OthersSound DEF IInv
<1>4. CASE ReadThrows(m)
  <2>1. /\ Typed' /\ objects' = objects /\ move'[m].phase = "threw"
        /\ move'[m].uris = move[m].uris
        /\ move'[m].original = move[m].original /\ move'[m].alone = move[m].alone
        /\ \A n \in Moves \ {m} : Bystander(n)
    BY <1>1, <1>4, GoesEffect DEF ReadThrows
  <2>2. From(m)' = From(m) /\ To(m)' = To(m)
    BY <2>1, SamePlaces
  <2>3. Sound(m)'
    BY <1>2, <2>1, <2>2, ThrewSound DEF Kept
  <2> QED BY <2>1, <2>3, OthersSound DEF IInv
<1> QED BY <1>3, <1>4

\* Write leaves the source, where the object still is; if it is applied, the
\* object is at the target too.
LEMMA WriteSound ==
  ASSUME IInv, NEW m \in Moves, Write(m) \/ WriteThrows(m)
  PROVE  IInv'
<1> DEFINE data == move[m].data
<1>1. PICK phase \in {"remove", "threw"}, new \in WriteLeaves(m) :
        /\ Goes(m, phase, new)
        /\ phase = "remove" => new = With(To(m), data)
  BY DEF Write, WriteThrows, WriteLeaves
<1>2. /\ Typed /\ From(m) \in Objects /\ To(m) \in Objects
      /\ objects \in Service /\ move[m].phase = "write" /\ data \in Contents
  BY Places DEF IInv, Sound, Typed, Service, Write, WriteThrows
<1>3. /\ new \in Service
      /\ \A o \in Objects \ {To(m)} : new[o] = objects[o]
      /\ phase = "remove" => new[To(m)] = data
  <2>1. {data} \cup Parts[data] \subseteq Contents
    BY <1>2, MoveAssumption
  <2>2. CASE new = objects
    BY <1>1, <1>2, <2>2, WithObject
  <2>3. CASE new # objects
    <3>1. PICK content \in {data} \cup Parts[data] : new = With(To(m), content)
      BY <1>1, <2>3 DEF WriteLeaves
    <3> QED BY <1>1, <1>2, <2>1, <3>1, WithObject
  <2> QED BY <2>2, <2>3
<1>4. /\ Typed' /\ objects' = new /\ move'[m].phase = phase
      /\ move'[m].uris = move[m].uris /\ move'[m].data = data
      /\ move'[m].original = move[m].original /\ move'[m].alone = move[m].alone
      /\ \A n \in Moves \ {m} : Bystander(n)
  BY <1>1, <1>2, <1>3, GoesEffect
<1>5. From(m)' = From(m) /\ To(m)' = To(m) /\ (Ordinary(m)' <=> Ordinary(m))
  BY <1>4, SamePlaces
<1>6. ASSUME move'[m].alone = TRUE, Ordinary(m)
      PROVE  /\ objects'[From(m)] = move[m].original
             /\ data = move[m].original
  <2>1. objects[From(m)] = move[m].original /\ data = move[m].original
    BY <1>2, <1>4, <1>6 DEF IInv, Sound, Tracked, OnItsWay
  <2>2. From(m) # To(m)
    BY <1>6 DEF Ordinary
  <2> QED BY <1>2, <1>3, <1>4, <2>1, <2>2
<1> HIDE DEF data
<1>7. Sound(m)'
  BY <1>2, <1>3, <1>4, <1>5, <1>6 DEF Sound, Tracked, OnItsWay, Kept
<1> QED BY <1>4, <1>7, OthersSound DEF IInv

\* Remove leaves the target, where the object is already.
LEMMA RemoveSound ==
  ASSUME IInv, NEW m \in Moves, Remove(m) \/ RemoveThrows(m)
  PROVE  IInv'
<1>1. PICK phase \in {"returned", "threw"}, new \in {objects, With(From(m), NoObject)} :
        Goes(m, phase, new)
  BY DEF Remove, RemoveThrows
<1>2. /\ Typed /\ From(m) \in Objects /\ To(m) \in Objects
      /\ objects \in Service /\ move[m].phase = "remove"
  BY Places DEF IInv, Typed, Service, Remove, RemoveThrows
<1>3. /\ new \in Service
      /\ \A o \in Objects \ {From(m)} : new[o] = objects[o]
  BY <1>1, <1>2, WithObject
<1>4. /\ Typed' /\ objects' = new /\ move'[m].phase = phase
      /\ move'[m].uris = move[m].uris
      /\ move'[m].original = move[m].original /\ move'[m].alone = move[m].alone
      /\ \A n \in Moves \ {m} : Bystander(n)
  BY <1>1, <1>2, <1>3, GoesEffect
<1>5. From(m)' = From(m) /\ To(m)' = To(m) /\ (Ordinary(m)' <=> Ordinary(m))
  BY <1>4, SamePlaces
<1>6. ASSUME move'[m].alone = TRUE, Ordinary(m)
      PROVE  objects'[To(m)] = move[m].original
  <2>1. objects[To(m)] = move[m].original
    BY <1>2, <1>4, <1>6 DEF IInv, Sound, Tracked, OnItsWay
  <2>2. From(m) # To(m)
    BY <1>6 DEF Ordinary
  <2> QED BY <1>2, <1>3, <1>4, <2>1, <2>2
<1>7. Sound(m)'
  BY <1>4, <1>5, <1>6 DEF Sound, Tracked, OnItsWay, Kept
<1> QED BY <1>4, <1>7, OthersSound DEF IInv

\* Nobody is moved by a death or by another client.
LEMMA AllSound ==
  ASSUME IInv, Typed', \A n \in Moves : Bystander(n)
  PROVE  IInv'
BY BystanderSound DEF IInv, Typed

LEMMA KillSound ==
  ASSUME IInv, Kill
  PROVE  IInv'
<1>1. Typed
  BY DEF IInv
<1>2. ASSUME NEW n \in Moves
      PROVE  /\ move'[n] \in MoveState
             /\ Bystander(n)
  <2> DEFINE entry == [move[n] EXCEPT !.phase = "threw"]
  <2>1. move[n] \in MoveState
    BY <1>1 DEF Typed
  <2>2. /\ entry \in MoveState
        /\ entry.uris = move[n].uris /\ entry.data = move[n].data
        /\ entry.original = move[n].original /\ entry.alone = move[n].alone
        /\ entry.phase = "threw"
    BY <2>1 DEF MoveState
  <2>3. /\ move'[n] = IF move[n].phase \in {"idle", "returned"} THEN move[n] ELSE entry
        /\ objects' = objects
    BY DEF Kill
  <2> HIDE DEF entry
  <2> QED BY <2>1, <2>2, <2>3 DEF Bystander
<1>3. Typed'
  BY <1>1, <1>2 DEF Kill, Typed
<1> QED BY <1>2, <1>3, AllSound

LEMMA ReplaceSound ==
  ASSUME IInv, NEW o \in Objects, NEW content \in Contents \cup {NoObject},
         Replace(o, content)
  PROVE  IInv'
<1> DEFINE new == With(o, content)
<1>1. Typed /\ new \in Service
  BY WithObject DEF IInv
<1>2. objects' = new /\ move' = Disturbed(new)
  BY DEF Replace
<1> HIDE DEF new
<1>3. ASSUME NEW n \in Moves
      PROVE  /\ move'[n] \in MoveState
             /\ Bystander(n)
  <2> DEFINE d == Disturbed(new)
  <2>1. /\ d[n] \in MoveState
        /\ d[n].uris = move[n].uris /\ d[n].data = move[n].data
        /\ d[n].original = move[n].original /\ d[n].phase = move[n].phase
        /\ d[n].alone = TRUE =>
             /\ move[n].alone = TRUE
             /\ new[From(n)] = objects[From(n)]
             /\ new[To(n)] = objects[To(n)]
    BY <1>1, DisturbedMoves
  <2> HIDE DEF d
  <2> QED BY <1>2, <2>1 DEF Bystander, d
<1>4. Typed'
  <2>1. move' = [n \in Moves |-> move'[n]]
    BY <1>2 DEF Disturbed
  <2> QED BY <1>1, <1>2, <1>3, <2>1 DEF Typed, Service
<1> QED BY <1>3, <1>4, AllSound

LEMMA InitSound == Init => IInv
<1> SUFFICES ASSUME Init PROVE IInv
  OBVIOUS
<1>1. ASSUME NEW m \in Moves
      PROVE  move[m] \in MoveState /\ move[m].phase = "idle"
  <2>1. move[m] \in {[phase |-> "idle", uris |-> a, data |-> NoObject,
                      original |-> NoObject, alone |-> TRUE] : a \in Arguments}
    BY DEF Init
  <2>2. PICK a \in Arguments :
          move[m] = [phase |-> "idle", uris |-> a, data |-> NoObject,
                     original |-> NoObject, alone |-> TRUE]
    BY <2>1
  <2> QED BY <2>2 DEF MoveState
<1>2. Typed
  BY <1>1 DEF Init, Typed
<1>3. \A m \in Moves : Sound(m)
  BY <1>1 DEF Sound, Tracked
<1> QED BY <1>2, <1>3 DEF IInv

LEMMA StepSound == IInv /\ [Next]_vars => IInv'
<1> SUFFICES ASSUME IInv, [Next]_vars PROVE IInv'
  OBVIOUS
<1>1. CASE \E m \in Moves :
             \/ Start(m)
             \/ Rename(m) \/ RenameThrows(m)
             \/ Read(m) \/ ReadThrows(m)
             \/ Write(m) \/ WriteThrows(m)
             \/ Remove(m) \/ RemoveThrows(m)
  BY <1>1, StartSound, RenameSound, ReadSound, WriteSound, RemoveSound
<1>2. CASE Kill
  BY <1>2, KillSound
<1>3. CASE \E o \in Objects, content \in Contents \cup {NoObject} : Replace(o, content)
  BY <1>3, ReplaceSound
<1>4. CASE UNCHANGED vars
  <2>1. \A n \in Moves : Bystander(n)
    BY <1>4 DEF vars, Bystander, IInv, Typed
  <2>2. Typed'
    BY <1>4 DEF vars, IInv, Typed
  <2> QED BY <2>1, <2>2, AllSound
<1> QED BY <1>1, <1>2, <1>3, <1>4 DEF Next

LEMMA Invariance == Spec => []IInv
BY InitSound, StepSound, PTL DEF Spec

-----------------------------------------------------------------------------
(* Theorems. *)

\* Every reachable state is typed: what a move writes to its target is a content,
\* and never the answer of a read that found nothing.
THEOREM TypeCorrect == Spec => []TypeOK
<1>1. IInv => TypeOK
  BY DEF IInv, Typed, Sound, TypeOK
<1> QED BY <1>1, Invariance, PTL

\* However its calls end, an ordinary move does not lose the object it moves.
THEOREM NeverLost == Spec => []NothingLost
<1>1. IInv => NothingLost
  <2> SUFFICES ASSUME IInv, NEW m \in Moves,
                      move[m].phase # "idle", move[m].alone, Ordinary(m)
               PROVE  Kept(m)
    BY DEF NothingLost
  <2>1. move[m] \in MoveState
    BY DEF IInv, Typed
  <2>2. move[m].alone \in BOOLEAN
    BY <2>1 DEF MoveState
  <2>3. move[m].alone = TRUE
    BY <2>2, Zenon
  <2>4. OnItsWay(m)
    BY <2>3 DEF IInv, Sound, Tracked
  <2>5. move[m].phase \in {"rename", "read", "write", "remove", "returned", "threw"}
    BY <2>1 DEF MoveState
  <2> QED BY <2>4, <2>5 DEF OnItsWay, Kept
<1> QED BY <1>1, Invariance, PTL

\* A move returns by its own Rename or Remove.
LEMMA ReturnsItself ==
  ASSUME Typed, Next, NEW m \in Moves,
         move[m].phase # "returned", move'[m].phase = "returned"
  PROVE  Rename(m) \/ Remove(m)
<1>1. move[m] \in MoveState
  BY DEF Typed
<1>2. \A new : Disturbed(new)[m].phase = move[m].phase
  BY <1>1 DEF Disturbed, MoveState
<1>3. \A n \in Moves : \A phase, new :
        Goes(n, phase, new) =>
          move'[m].phase = IF n = m THEN phase ELSE move[m].phase
  <2> SUFFICES ASSUME NEW n \in Moves, NEW phase, NEW new, Goes(n, phase, new)
               PROVE  move'[m].phase = IF n = m THEN phase ELSE move[m].phase
    OBVIOUS
  <2>1. DOMAIN Disturbed(new) = Moves
    BY DEF Disturbed
  <2> QED BY <1>1, <1>2, <2>1 DEF Goes, MoveState
<1>4. ASSUME NEW n \in Moves, Start(n) PROVE FALSE
  BY <1>1, <1>4 DEF Start, Typed, MoveState
<1>5. ASSUME NEW n \in Moves, Read(n) PROVE FALSE
  BY <1>1, <1>5 DEF Read, Typed, MoveState
<1>6. ASSUME NEW n \in Moves,
             RenameThrows(n) \/ ReadThrows(n) \/ Write(n) \/ WriteThrows(n) \/ RemoveThrows(n)
      PROVE  FALSE
  BY <1>3, <1>6 DEF RenameThrows, ReadThrows, Write, WriteThrows, RemoveThrows
<1>7. ASSUME NEW n \in Moves, Rename(n) \/ Remove(n) PROVE n = m
  BY <1>3, <1>7 DEF Rename, Remove
<1>8. ~ Kill
  BY <1>1 DEF Kill, MoveState
<1>9. ASSUME NEW o, NEW content, Replace(o, content) PROVE FALSE
  BY <1>2, <1>9 DEF Replace
<1> QED BY <1>4, <1>5, <1>6, <1>7, <1>8, <1>9 DEF Next

\* An ordinary move that returns, by either of its two ways, left the object at
\* its target and nothing at its source.
THEOREM Landing == Spec => OrdinaryMoveLands
<1>1. IInv /\ [Next]_vars => [\A m \in Moves : Ordinary(m) => Lands(m)]_vars
  <2> SUFFICES ASSUME IInv, Next, NEW m \in Moves, Ordinary(m),
                      move[m].phase # "returned", move'[m].phase = "returned",
                      move[m].alone
               PROVE  /\ objects'[To(m)] = move[m].original
                      /\ objects'[From(m)] = NoObject
    BY DEF Lands
  <2>1. /\ Typed /\ move[m] \in MoveState
        /\ From(m) \in Objects /\ To(m) \in Objects /\ From(m) # To(m)
    BY Places DEF IInv, Ordinary
  <2>2. move[m].alone \in BOOLEAN
    BY <2>1 DEF MoveState
  <2>3. move[m].alone = TRUE
    BY <2>2, Zenon
  <2>4. Tracked(m)
    BY DEF IInv, Sound
  <2>5. CASE Rename(m)
    <3>1. CanRename(m) /\ objects' = Renamed(m)
      BY <2>5 DEF Rename, Goes
    <3>2. objects[From(m)] = move[m].original
      BY <2>3, <2>4, <3>1 DEF Tracked, OnItsWay, CanRename
    <3> QED BY <3>1, <3>2, RenamedObjects
  <2>6. CASE Remove(m)
    <3>1. objects' = With(From(m), NoObject)
      BY <2>6 DEF Remove, Goes
    <3>2. objects[To(m)] = move[m].original
      BY <2>3, <2>4, <2>6 DEF Tracked, OnItsWay, Remove
    <3> QED BY <2>1, <3>1, <3>2, WithObject
  <2> QED BY <2>1, <2>5, <2>6, ReturnsItself
<1> QED BY <1>1, Invariance, PTL DEF Spec, OrdinaryMoveLands
=============================================================================
