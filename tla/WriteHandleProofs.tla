------------------------- MODULE WriteHandleProofs -------------------------
(***************************************************************************)
(* Proofs about WriteHandle, for any objects, handles, buffers and bounds, *)
(* the last of them that it implements PublishedFile.                      *)
(***************************************************************************)
EXTENDS WriteHandleRefinement, SequenceTheorems, TLAPS

-----------------------------------------------------------------------------
(* Lemmas about contents. *)

\* A positional write at the end of a content appends to it: this is why the
\* append-only writer can stand for DuckDB's positional Write.
LEMMA OverlayAtEnd ==
  ASSUME NEW S, NEW s \in Seq(S), NEW d \in Seq(S)
  PROVE  Overlay(s, Len(s), d) = s \o d
<1> DEFINE n == Len(s) + Len(d)
           o == Overlay(s, Len(s), d)
<1>1. Len(s) \in Nat /\ Len(d) \in Nat /\ s \in [1 .. Len(s) -> S]
      /\ d \in [1 .. Len(d) -> S]
  BY LenProperties
<1>2. o = [i \in 1 .. n |-> IF i > Len(s) THEN d[i - Len(s)] ELSE s[i]]
  BY <1>1 DEF Overlay
<1>3. /\ s \o d \in Seq(S)
      /\ Len(s \o d) = n
      /\ \A i \in 1 .. n : (s \o d)[i] = IF i <= Len(s) THEN s[i] ELSE d[i - Len(s)]
  BY ConcatProperties
<1>4. s \o d \in [1 .. n -> S]
  BY <1>3, LenProperties
<1>5. \A i \in 1 .. n : o[i] = (s \o d)[i]
  BY <1>1, <1>2, <1>3
<1> QED BY <1>2, <1>4, <1>5

\* What begins with a draft still does when bytes are appended.
LEMMA ExtendsAppended ==
  ASSUME NEW S, NEW s \in Seq(S), NEW t \in Seq(S), NEW d \in Seq(S),
         Extends(s, t)
  PROVE  Extends(s \o d, t)
<1>1. Len(s) \in Nat /\ Len(d) \in Nat /\ Len(t) \in Nat
  BY LenProperties
<1>2. /\ Len(s \o d) = Len(s) + Len(d)
      /\ \A i \in 1 .. Len(s) + Len(d) :
           (s \o d)[i] = IF i <= Len(s) THEN s[i] ELSE d[i - Len(s)]
  BY ConcatProperties
<1> QED BY <1>1, <1>2 DEF Extends

LEMMA ExtendsItself ==
  ASSUME NEW S, NEW s \in Seq(S) PROVE Extends(s, s)
BY LenProperties DEF Extends

-----------------------------------------------------------------------------
(* The inductive invariant: what is true of each handle at every step. *)

\* A handle that OpenFile is still building has nothing to account for; an open
\* one satisfies DraftIntact and ReportedSizeSound, of which neither is
\* inductive alone: that a Write appends is DraftIntact, that it appends where
\* its caller said is ReportedSizeSound.
Sound(s) ==
  /\ s.phase # "none" => s.path \in Objects
  /\ s.phase # "open" => /\ s.position = 0
                         /\ s.intact = <<>>
                         /\ s.failed = FALSE
                         /\ s.closed = FALSE
  /\ (s.phase = "open" /\ s.closed = FALSE) =>
       /\ s.writer \in Seq(Byte)
       /\ Extends(s.writer, s.intact)
       /\ Len(s.intact) <= s.position
       /\ s.position <= Len(s.writer)
       /\ s.failed = FALSE => /\ s.writer = s.intact
                              /\ s.position = Len(s.writer)

IInv == TypeOK /\ \A h \in Handles : Sound(handle[h])

\* A step that replaces one handle keeps the invariant if the new handle is
\* sound.
LEMMA OneHandle ==
  ASSUME IInv,
         store' \in [Objects -> Seq(Byte) \cup {NoObject}],
         process' \in {"running", "killed", "aborted"},
         NEW h \in Handles, NEW s \in HandleState, Sound(s),
         handle' = [handle EXCEPT ![h] = s]
  PROVE  IInv'
BY DEF IInv, TypeOK, Sound

\* So does a step that keeps or loses every handle.
LEMMA NoHandleSound == NoHandle \in HandleState /\ Sound(NoHandle)
<1>1. <<>> \in Seq(Byte) /\ Len(<<>>) = 0
  BY EmptySeq
<1> QED BY <1>1 DEF NoHandle, HandleState, Phases, Sound

LEMMA StoredTyped ==
  ASSUME TypeOK, NEW o, NEW content \in Seq(Byte) \cup {NoObject}
  PROVE  /\ Stored(o, content) \in [Objects -> Seq(Byte) \cup {NoObject}]
         /\ \A s \in MaybeStored(o, content) :
              s \in [Objects -> Seq(Byte) \cup {NoObject}]
BY DEF TypeOK, Stored, MaybeStored

LEMMA InvInit == Init => IInv
<1> SUFFICES ASSUME Init PROVE IInv
  OBVIOUS
<1>1. store \in [Objects -> Seq(Byte) \cup {NoObject}]
  BY ContentAssumption DEF Init
<1> QED BY <1>1, NoHandleSound DEF Init, IInv, TypeOK

LEMMA InvNext == IInv /\ [Next]_vars => IInv'
<1> SUFFICES ASSUME IInv, [Next]_vars PROVE IInv'
  OBVIOUS
<1> USE DEF IInv
<1>e. <<>> \in Seq(Byte) /\ Len(<<>>) = 0
  BY EmptySeq
<1>t. /\ store \in [Objects -> Seq(Byte) \cup {NoObject}]
      /\ process \in {"running", "killed", "aborted"}
      /\ handle \in [Handles -> HandleState]
  BY DEF TypeOK
<1>1. ASSUME NEW h \in Handles, NEW o \in Objects, NEW flags \in SUBSET FileFlags,
             OpenFile(h, o, flags)
      PROVE  IInv'
  <2> DEFINE p == IF OpenDecision(flags, store[o] # NoObject) = "init"
                  THEN "clearing" ELSE "opening"
             s == [NoHandle EXCEPT !.phase = p, !.path = o]
  <2>1. s \in HandleState /\ Sound(s)
    BY NoHandleSound DEF NoHandle, HandleState, Phases, Sound
  <2>2. handle' = [handle EXCEPT ![h] = s]
    BY <1>1 DEF OpenFile
  <2> QED BY <1>1, <1>t, <2>1, <2>2, OneHandle DEF OpenFile
<1>2. ASSUME NEW h \in Handles, InitializeEmpty(h)
      PROVE  IInv'
  <2> DEFINE s == [handle[h] EXCEPT !.phase = "opening"]
  <2>1. s \in HandleState /\ Sound(s)
    BY <1>2, <1>t DEF InitializeEmpty, HandleState, Phases, Sound
  <2>2. store' \in [Objects -> Seq(Byte) \cup {NoObject}]
    BY <1>2, <1>e, StoredTyped DEF InitializeEmpty
  <2> QED BY <1>2, <1>t, <2>1, <2>2, OneHandle DEF InitializeEmpty
<1>3. ASSUME NEW h \in Handles, GetWriter(h)
      PROVE  IInv'
  <2> DEFINE s == [handle[h] EXCEPT !.phase = "open", !.writer = <<>>]
  <2>1. s \in HandleState
    BY <1>3, <1>t, <1>e DEF GetWriter, HandleState, Phases
  <2>2. Sound(s)
    BY <1>3, <1>t, <1>e, ExtendsItself DEF GetWriter, HandleState, Phases, Sound
  <2> QED BY <1>3, <1>t, <2>1, <2>2, OneHandle DEF GetWriter
<1>4. ASSUME NEW h \in Handles, OpenThrows(h)
      PROVE  IInv'
  <2>1. store' \in [Objects -> Seq(Byte) \cup {NoObject}]
    BY <1>4, <1>e, <1>t, StoredTyped DEF OpenThrows
  <2> QED BY <1>4, <1>t, <2>1, NoHandleSound, OneHandle DEF OpenThrows
<1>5. ASSUME NEW h \in Handles, NEW data \in Chunks, NEW offset \in 0 .. MaxSize,
             Write(h, data, offset)
      PROVE  IInv'
  <2> DEFINE r == handle[h]
             i == IF r.failed THEN r.intact ELSE Overlay(r.intact, offset, data)
             s == [r EXCEPT !.writer = r.writer \o data,
                            !.position = r.position + Len(data),
                            !.intact = i]
  <2>1. /\ data \in Seq(Byte) /\ Len(data) \in Nat
        /\ r \in HandleState /\ r.intact \in Seq(Byte) /\ r.position \in Nat
        /\ Len(r.intact) \in Nat /\ r.failed \in BOOLEAN
    BY <1>t, ContentAssumption, LenProperties DEF HandleState
  <2>2. /\ r.phase = "open" /\ r.closed = FALSE /\ offset = r.position
        /\ r.writer \in Seq(Byte) /\ Len(r.writer) \in Nat /\ r.path \in Objects
        /\ Extends(r.writer, r.intact)
        /\ Len(r.intact) <= r.position /\ r.position <= Len(r.writer)
        /\ r.failed = FALSE => r.writer = r.intact /\ r.position = Len(r.writer)
    BY <1>5, <1>t, <2>1, LenProperties
       DEF Write, IsOpen, IsSequential, Sound, HandleState
  <2>3. /\ r.writer \o data \in Seq(Byte)
        /\ Len(r.writer \o data) = Len(r.writer) + Len(data)
    BY <2>1, <2>2, ConcatProperties
  <2>4. r.failed = FALSE => i = r.writer \o data
    BY <2>1, <2>2, OverlayAtEnd
  <2>5. i \in Seq(Byte) /\ Extends(r.writer \o data, i)
    BY <2>1, <2>2, <2>3, <2>4, ExtendsAppended, ExtendsItself
  <2>6. Len(i) <= r.position + Len(data)
    BY <2>1, <2>2, <2>3, <2>4
  <2>7. s \in HandleState
    <3>1. r.position + Len(data) \in Nat
      BY <2>1
    <3> HIDE DEF i, r
    <3> QED BY <2>1, <2>3, <2>5, <3>1 DEF HandleState
  <2>8. Sound(s)
    <3>1. /\ s.phase = "open" /\ s.closed = FALSE /\ s.path = r.path
          /\ s.failed = r.failed /\ s.writer = r.writer \o data
          /\ s.position = r.position + Len(data) /\ s.intact = i
      BY <2>1, <2>2 DEF HandleState
    <3> HIDE DEF i, s
    <3> QED BY <2>1, <2>2, <2>3, <2>4, <2>5, <2>6, <3>1 DEF Sound
  <2>9. handle' = [handle EXCEPT ![h] = s]
    BY <1>5, <1>t, <2>1 DEF Write, HandleState
  <2> QED BY <1>5, <1>t, <2>7, <2>8, <2>9, OneHandle DEF Write
<1>6. ASSUME NEW h \in Handles, NEW data \in Chunks, NEW offset \in 0 .. MaxSize,
             WriteThrows(h, data, offset)
      PROVE  IInv'
  <2>1. PICK n \in 0 .. Len(data) :
          handle' = [handle EXCEPT ![h].writer = @ \o SubSeq(data, 1, n),
                                   ![h].failed = TRUE]
    BY <1>6 DEF WriteThrows
  <2> DEFINE r == handle[h]
             part == SubSeq(data, 1, n)
             s == [r EXCEPT !.writer = r.writer \o part, !.failed = TRUE]
  <2>2. /\ r \in HandleState /\ r.intact \in Seq(Byte) /\ r.position \in Nat
        /\ Len(r.intact) \in Nat
    BY <1>t, LenProperties DEF HandleState
  <2>3. part \in Seq(Byte) /\ Len(part) \in Nat
    <3>1. data \in Seq(Byte) /\ \A i \in 1 .. n : data[i] \in Byte
      BY ContentAssumption, ElementOfSeq, LenProperties
    <3>2. part \in Seq(Byte)
      BY <3>1, SubSeqProperties
    <3> QED BY <3>2, LenProperties
  <2>4. /\ r.phase = "open" /\ r.closed = FALSE /\ r.path \in Objects
        /\ r.writer \in Seq(Byte) /\ Len(r.writer) \in Nat
        /\ Extends(r.writer, r.intact)
        /\ Len(r.intact) <= r.position /\ r.position <= Len(r.writer)
    BY <1>6, <1>t, <2>2, LenProperties DEF WriteThrows, IsOpen, Sound, HandleState
  <2>5. /\ r.writer \o part \in Seq(Byte)
        /\ Len(r.writer \o part) = Len(r.writer) + Len(part)
        /\ Extends(r.writer \o part, r.intact)
    BY <2>2, <2>3, <2>4, ConcatProperties, ExtendsAppended
  <2>6. s \in HandleState
    <3> HIDE DEF part, r
    <3> QED BY <2>2, <2>5 DEF HandleState
  <2>7. Sound(s)
    <3>1. /\ s.phase = "open" /\ s.closed = FALSE /\ s.path = r.path
          /\ s.failed = TRUE /\ s.writer = r.writer \o part
          /\ s.position = r.position /\ s.intact = r.intact
      BY <2>2, <2>4 DEF HandleState
    <3> HIDE DEF part, s, r
    <3> QED BY <2>2, <2>3, <2>4, <2>5, <3>1 DEF Sound
  <2>8. handle' = [handle EXCEPT ![h] = s]
    BY <2>1, <2>2, <1>t DEF HandleState
  <2> QED BY <1>6, <1>t, <2>6, <2>7, <2>8, OneHandle DEF WriteThrows
<1>w. ASSUME NEW h \in Handles, IsOpen(h)
      PROVE  handle[h].writer \in Seq(Byte)
  BY <1>w, <1>t DEF IsOpen, Sound, HandleState
<1>7. ASSUME NEW h \in Handles, Flush(h)
      PROVE  IInv'
  <2>1. store' \in [Objects -> Seq(Byte) \cup {NoObject}]
    BY <1>7, <1>w, StoredTyped DEF Flush
  <2> QED BY <1>7, <1>t, <2>1 DEF Flush, TypeOK
<1>8. ASSUME NEW h \in Handles, Close(h)
      PROVE  IInv'
  <2> DEFINE s == [handle[h] EXCEPT !.writer = NoWriter, !.closed = TRUE]
  <2>1. s \in HandleState
    BY <1>t DEF HandleState
  <2>2. Sound(s)
    BY <1>8, <1>t DEF Close, IsOpen, Sound, HandleState
  <2>3. store' \in [Objects -> Seq(Byte) \cup {NoObject}]
    BY <1>8, <1>w, StoredTyped DEF Close
  <2>4. handle' = [handle EXCEPT ![h] = s]
    BY <1>8, <1>t DEF Close
  <2> QED BY <1>8, <1>t, <2>1, <2>2, <2>3, <2>4, OneHandle DEF Close
<1>9. ASSUME NEW h \in Handles, CloseThrows(h)
      PROVE  IInv'
  <2>1. store' \in [Objects -> Seq(Byte) \cup {NoObject}]
    BY <1>9, <1>w, StoredTyped DEF CloseThrows
  <2> QED BY <1>9, <1>t, <2>1 DEF CloseThrows, TypeOK
<1>10. ASSUME NEW h \in Handles, Destroy(h)
       PROVE  IInv'
  <2>1. store' \in [Objects -> Seq(Byte) \cup {NoObject}]
    <3>1. handle[h].closed = FALSE => IsOpen(h)
      BY <1>10 DEF Destroy, IsOpen
    <3> QED BY <1>10, <1>t, <1>w, <3>1, StoredTyped DEF Destroy, HandleState
  <2> QED BY <1>10, <1>t, <2>1, NoHandleSound, OneHandle DEF Destroy
<1>11. ASSUME NEW h \in Handles, DestroyThrows(h)
       PROVE  IInv'
  <2>1. store' \in [Objects -> Seq(Byte) \cup {NoObject}]
    BY <1>11, <1>w, StoredTyped DEF DestroyThrows
  <2> QED BY <1>11, <2>1, NoHandleSound DEF DestroyThrows, TypeOK
<1>12. ASSUME NEW o \in Objects, Remove(o)
       PROVE  IInv'
  <2>1. store' \in [Objects -> Seq(Byte) \cup {NoObject}]
    BY <1>12, StoredTyped DEF Remove
  <2> QED BY <1>12, <1>t, <2>1 DEF Remove, TypeOK
<1>13. CASE Kill
  BY <1>13, <1>t, NoHandleSound DEF Kill, TypeOK
<1>14. CASE Restart
  BY <1>14, <1>t DEF Restart, TypeOK
<1>15. CASE UNCHANGED vars
  BY <1>15, <1>t DEF vars, TypeOK
<1> QED
  BY <1>1, <1>2, <1>3, <1>4, <1>5, <1>6, <1>7, <1>8, <1>9, <1>10, <1>11, <1>12,
     <1>13, <1>14, <1>15 DEF Next, HandleStep

LEMMA Invariant == Spec => []IInv
BY InvInit, InvNext, PTL DEF Spec

-----------------------------------------------------------------------------
(* The theorems. *)

\* Every reachable state is typed: in particular no reset writer and no missing
\* object is ever written to the store as contents, however the destructor,
\* second closes and throwing calls interleave.
THEOREM TypeCorrect == Spec => []TypeOK
BY Invariant, PTL DEF IInv

\* The writer holds what callers were told was written, where they said.
THEOREM WritesAccountedFor == Spec => []DraftIntact
<1>1. IInv => DraftIntact
  BY SentinelAssumption DEF IInv, TypeOK, HandleState, Sound, IsOpen, DraftIntact
<1> QED BY <1>1, Invariant, PTL

\* GetFileSize of a write handle neither invents nor forgets a byte.
THEOREM SizeAccountedFor == Spec => []ReportedSizeSound
<1>1. IInv => ReportedSizeSound
  BY DEF IInv, TypeOK, HandleState, Sound, IsOpen, ReportedSizeSound
<1> QED BY <1>1, Invariant, PTL

\* Of the steps of a process that goes on running, only a Close that returns and
\* a destructor whose Close returns end an open handle.
LEMMA OnlyReturnedClosesEnd ==
  ASSUME IInv, [Next]_vars, NEW h \in Handles,
         IsOpen(h), ~IsOpen(h)', process' = "running"
  PROVE  Close(h) \/ Destroy(h)
<1> USE DEF IsOpen
<1>1. handle \in [Handles -> HandleState]
  BY DEF IInv, TypeOK
<1>2. handle'[h] # handle[h]
  OBVIOUS
<1>3. CASE \E g \in Handles : HandleStep(g)
  <2>1. PICK g \in Handles : HandleStep(g)
    BY <1>3
  <2>2. g = h
    BY <1>1, <1>2, <2>1
       DEF HandleStep, OpenFile, InitializeEmpty, GetWriter, OpenThrows, Write,
           WriteThrows, Flush, Close, CloseThrows, Destroy, DestroyThrows
  <2>3. ~ \E data \in Chunks, offset \in 0 .. MaxSize :
             Write(h, data, offset) \/ WriteThrows(h, data, offset)
    <3> SUFFICES ASSUME NEW data \in Chunks, NEW offset \in 0 .. MaxSize,
                        Write(h, data, offset) \/ WriteThrows(h, data, offset)
                 PROVE  FALSE
      OBVIOUS
    <3>1. ASSUME Write(h, data, offset)
          PROVE  /\ handle'[h].phase = handle[h].phase
                 /\ handle'[h].closed = handle[h].closed
      BY <1>1, <3>1 DEF Write, HandleState
    <3>2. ASSUME WriteThrows(h, data, offset)
          PROVE  /\ handle'[h].phase = handle[h].phase
                 /\ handle'[h].closed = handle[h].closed
      <4>1. PICK n : handle' = [handle EXCEPT ![h].writer = @ \o SubSeq(data, 1, n),
                                              ![h].failed = TRUE]
        BY <3>2 DEF WriteThrows
      <4>2. handle[h] \in HandleState
        BY <1>1
      <4>3. handle'[h] = [handle[h] EXCEPT !.writer = @ \o SubSeq(data, 1, n),
                                           !.failed = TRUE]
        BY <1>1, <4>1
      <4> QED BY <4>2, <4>3 DEF HandleState
    <3> QED BY <3>1, <3>2
  <2> QED
    BY <1>1, <1>2, <2>1, <2>2, <2>3
       DEF HandleStep, OpenFile, InitializeEmpty, GetWriter, OpenThrows, Flush,
           CloseThrows, DestroyThrows
<1>4. CASE \/ \E o \in Objects : Remove(o)
           \/ Kill \/ Restart \/ UNCHANGED vars
  BY <1>2, <1>4 DEF Remove, Kill, Restart, vars
<1> QED BY <1>3, <1>4 DEF Next

\* Either of them has stored the writer's bytes.
LEMMA EndingStores ==
  ASSUME IInv, NEW h \in Handles, IsOpen(h), Close(h) \/ Destroy(h)
  PROVE  /\ handle[h].path \in Objects
         /\ store'[handle[h].path] = handle[h].writer
<1>1. handle[h].path \in Objects /\ handle[h].closed \in BOOLEAN
  BY DEF IInv, TypeOK, HandleState, Sound, IsOpen
<1> QED BY <1>1 DEF Close, Destroy, IsOpen, Stored, IInv, TypeOK

\* A Close that returned has published what was acknowledged, whatever else
\* happened to the handle, to the other handles and to the object.
THEOREM CloseDurable == Spec => ReturnedCloseIsDurable
<1>1. ASSUME IInv, [Next]_vars, NEW h \in Handles PROVE DurableOnceClosed(h)
  <2> SUFFICES ASSUME IsOpen(h), ~IsOpen(h)', process' = "running"
               PROVE  /\ Extends(store'[handle[h].path], handle[h].intact)
                      /\ Len(store'[handle[h].path]) >= handle[h].position
                      /\ ~handle[h].failed =>
                           store'[handle[h].path] = handle[h].intact
    BY DEF DurableOnceClosed
  <2>1. Close(h) \/ Destroy(h)
    BY <1>1, OnlyReturnedClosesEnd
  <2>2. store'[handle[h].path] = handle[h].writer
    BY <1>1, <2>1, EndingStores
  <2>3. handle[h] \in HandleState /\ Sound(handle[h])
    BY <1>1 DEF IInv, TypeOK
  <2>4. handle[h].writer \in Seq(Byte) /\ handle[h].position \in Nat
    BY <2>3 DEF HandleState, Sound, IsOpen
  <2> QED BY <2>2, <2>3, <2>4, LenProperties DEF Sound, IsOpen, HandleState
<1>2. IInv /\ [Next]_vars => [\A h \in Handles : DurableOnceClosed(h)]_vars
  BY <1>1
<1> QED BY <1>2, Invariant, PTL DEF Spec, ReturnedCloseIsDurable

-----------------------------------------------------------------------------
(* How the sessions of PublishedFile follow the handles. *)

sessions == [h \in Handles |-> SessionOf(h)]

\* A step that changes one handle changes one session.
LEMMA OneSession ==
  ASSUME NEW h \in Handles, \A g \in Handles : g # h => handle'[g] = handle[g]
  PROVE  sessions' = [sessions EXCEPT ![h] = SessionOf(h)']
BY DEF sessions, SessionOf, IsOpen

LEMMA OpenSession ==
  ASSUME IInv, NEW h \in Handles, IsOpen(h)
  PROVE  /\ SessionOf(h) = [object |-> handle[h].path, draft |-> handle[h].intact,
                            tainted |-> handle[h].failed]
         /\ SessionOf(h) # NoSession
<1>1. SessionOf(h) = [object |-> handle[h].path, draft |-> handle[h].intact,
                      tainted |-> handle[h].failed]
  BY DEF SessionOf
<1>2. handle[h] \in HandleState
  BY DEF IInv, TypeOK
<1>3. SessionOf(h) \in [object : Objects \cup {NoPath}, draft : Seq(Byte),
                        tainted : BOOLEAN]
  BY <1>1, <1>2 DEF HandleState
<1> QED BY <1>1, <1>3, NoSessionAssumption

LEMMA SessionUpdates ==
  ASSUME NEW o, NEW d, NEW t, NEW v
  PROVE  LET s == [object |-> o, draft |-> d, tainted |-> t] IN
         /\ [s EXCEPT !.draft = v] = [object |-> o, draft |-> v, tainted |-> t]
         /\ [s EXCEPT !.tainted = v] = [object |-> o, draft |-> d, tainted |-> v]
OBVIOUS

LEMMA LostSessions ==
  ASSUME handle' = [g \in Handles |-> NoHandle]
  PROVE  sessions' = [g \in Handles |-> NoSession]
BY DEF sessions, SessionOf, IsOpen, NoHandle

\* What an open handle's writer holds may become visible, as PublishedFile
\* promises of its session.
LEMMA WriterPublishes ==
  ASSUME IInv, NEW h \in Handles, IsOpen(h),
         store' = Stored(handle[h].path, handle[h].writer)
  PROVE  Published!Publishes(h)
<1> DEFINE s == handle[h]
<1>1. s \in HandleState /\ Sound(s) /\ s.phase = "open" /\ s.closed = FALSE
  BY DEF IInv, TypeOK, IsOpen, HandleState
<1>2. /\ s.writer \in Seq(Byte) /\ s.path \in Objects
      /\ Extends(s.writer, s.intact) /\ s.failed \in BOOLEAN
      /\ s.failed = FALSE => s.writer = s.intact
  BY <1>1 DEF Sound, HandleState
<1>3. sessions[h] = [object |-> s.path, draft |-> s.intact, tainted |-> s.failed]
      /\ sessions[h] # NoSession
  BY OpenSession DEF sessions
<1>4. store'[s.path] = s.writer /\ s.writer # NoObject
      /\ store' = [store EXCEPT ![s.path] = store'[s.path]]
  BY <1>2, SentinelAssumption DEF Stored, IInv, TypeOK
<1>5. Published!Promised(sessions[h], s.writer)
  BY <1>2, <1>3 DEF Published!Promised, Published!Extends, Extends
<1>6. sessions[h].object = s.path
  BY <1>3
<1>7. /\ sessions[h] # NoSession
      /\ store'[sessions[h].object] # NoObject
      /\ Published!Promised(sessions[h], store'[sessions[h].object])
      /\ store' = [store EXCEPT ![sessions[h].object] = store'[sessions[h].object]]
  <2> HIDE DEF sessions
  <2> QED BY <1>3, <1>4, <1>5, <1>6
<1> QED BY <1>7 DEF Published!Publishes, sessions

-----------------------------------------------------------------------------
(* The step simulation. *)

LEMMA RefineInit == Init => Published!Init
<1> SUFFICES ASSUME Init PROVE Published!Init
  OBVIOUS
<1>1. store \in [Objects -> Seq(Byte) \cup {NoObject}]
  BY ContentAssumption DEF Init
<1>2. sessions = [h \in Handles |-> NoSession]
  BY DEF Init, sessions, SessionOf, IsOpen, NoHandle
<1> QED BY <1>1, <1>2 DEF Published!Init, sessions

LEMMA RefineNext ==
  ASSUME IInv, [Next]_vars
  PROVE  [Published!Next]_(Published!vars)
<1> USE DEF sessions
<1>t. handle \in [Handles -> HandleState] /\ \A h \in Handles : Sound(handle[h])
  BY DEF IInv, TypeOK
<1>s. ASSUME sessions' = sessions, store' = store
      PROVE  UNCHANGED Published!vars
  BY <1>s DEF Published!vars
<1>1. ASSUME NEW h \in Handles, NEW o \in Objects, NEW flags \in SUBSET FileFlags,
             OpenFile(h, o, flags)
      PROVE  [Published!Next]_(Published!vars)
  <2>1. sessions' = sessions
    BY <1>1, <1>t DEF OpenFile, SessionOf, IsOpen, NoHandle, HandleState
  <2> QED BY <1>1, <2>1, <1>s DEF OpenFile
<1>2. ASSUME NEW h \in Handles, InitializeEmpty(h)
      PROVE  [Published!Next]_(Published!vars)
  <2>1. sessions' = sessions
    BY <1>2, <1>t DEF InitializeEmpty, SessionOf, IsOpen, HandleState
  <2>2. handle[h].path \in Objects
    BY <1>2, <1>t DEF InitializeEmpty, Sound
  <2>3. Published!Clear(handle[h].path)
    BY <1>2, <2>1 DEF InitializeEmpty, Stored, Published!Clear
  <2> QED BY <2>2, <2>3 DEF Published!Next
<1>3. ASSUME NEW h \in Handles, GetWriter(h)
      PROVE  [Published!Next]_(Published!vars)
  <2>1. /\ handle[h].path \in Objects /\ handle[h].intact = <<>>
        /\ handle[h].failed = FALSE /\ handle[h].closed = FALSE
        /\ ~IsOpen(h)
    BY <1>3, <1>t DEF GetWriter, Sound, IsOpen
  <2>2. sessions[h] = NoSession
    BY <2>1 DEF SessionOf
  <2>3. /\ handle'[h].phase = "open" /\ handle'[h].closed = FALSE
        /\ handle'[h].path = handle[h].path /\ handle'[h].intact = <<>>
        /\ handle'[h].failed = FALSE
    BY <1>3, <1>t, <2>1 DEF GetWriter, HandleState
  <2>4. SessionOf(h)' = [object |-> handle[h].path, draft |-> <<>>, tainted |-> FALSE]
    BY <2>3 DEF SessionOf, IsOpen
  <2>5. \A g \in Handles : g # h => handle'[g] = handle[g]
    BY <1>3, <1>t DEF GetWriter
  <2>6. Published!Begin(h, handle[h].path)
    BY <1>3, <2>2, <2>4, <2>5, OneSession DEF GetWriter, Published!Begin
  <2> QED BY <2>1, <2>6 DEF Published!Next
<1>4. ASSUME NEW h \in Handles, OpenThrows(h)
      PROVE  [Published!Next]_(Published!vars)
  <2>1. sessions' = sessions
    BY <1>4, <1>t DEF OpenThrows, SessionOf, IsOpen, NoHandle, HandleState
  <2>2. handle[h].path \in Objects
    BY <1>4, <1>t DEF OpenThrows, Sound
  <2>3. store' = store \/ Published!Clear(handle[h].path)
    BY <1>4, <2>1 DEF OpenThrows, MaybeStored, Stored, Published!Clear
  <2> QED BY <2>1, <2>2, <2>3, <1>s DEF Published!Next
<1>5. ASSUME NEW h \in Handles, NEW data \in Chunks, NEW offset \in 0 .. MaxSize,
             Write(h, data, offset)
      PROVE  [Published!Next]_(Published!vars)
  <2>1. /\ IsOpen(h) /\ handle[h].failed \in BOOLEAN
        /\ store' = store
    BY <1>5, <1>t DEF Write, HandleState
  <2> DEFINE i == IF handle[h].failed THEN handle[h].intact
                  ELSE Overlay(handle[h].intact, offset, data)
  <2>2. /\ handle'[h].phase = handle[h].phase /\ handle'[h].closed = handle[h].closed
        /\ handle'[h].path = handle[h].path
        /\ handle'[h].failed = handle[h].failed
        /\ handle'[h].intact = i
    BY <1>5, <1>t DEF Write, HandleState
  <2>3. \A g \in Handles : g # h => handle'[g] = handle[g]
    BY <1>5, <1>t DEF Write
  <2>4. sessions' = [sessions EXCEPT ![h] = SessionOf(h)']
    BY <2>3, OneSession
  <2>5. SessionOf(h)' = [object |-> handle[h].path, draft |-> i,
                         tainted |-> handle[h].failed]
    BY <2>1, <2>2 DEF SessionOf, IsOpen
  <2>6. sessions[h] = [object |-> handle[h].path, draft |-> handle[h].intact,
                       tainted |-> handle[h].failed] /\ sessions[h] # NoSession
    BY <2>1, OpenSession
  <2>7. CASE handle[h].failed
    <3>1. sessions' = sessions
      BY <2>4, <2>5, <2>6, <2>7
    <3> QED BY <2>1, <3>1, <1>s
  <2>8. CASE ~handle[h].failed
    <3>1. SessionOf(h)' = [sessions[h] EXCEPT
                             !.draft = Published!Overlay(sessions[h].draft, offset, data)]
      <4> HIDE DEF sessions
      <4>1. i = Published!Overlay(sessions[h].draft, offset, data)
        BY <2>6, <2>8 DEF Published!Overlay, Overlay
      <4> QED BY <2>5, <2>6, <4>1, SessionUpdates
    <3>2. Published!Put(h, offset, data)
      BY <2>1, <2>4, <2>6, <2>8, <3>1 DEF Published!Put
    <3> QED BY <3>2 DEF Published!Next
  <2> QED BY <2>7, <2>8
<1>6. ASSUME NEW h \in Handles, NEW data \in Chunks, NEW offset \in 0 .. MaxSize,
             WriteThrows(h, data, offset)
      PROVE  [Published!Next]_(Published!vars)
  <2>1. IsOpen(h) /\ store' = store
    BY <1>6 DEF WriteThrows
  <2>2. PICK n \in 0 .. Len(data) :
          handle' = [handle EXCEPT ![h].writer = @ \o SubSeq(data, 1, n),
                                   ![h].failed = TRUE]
    BY <1>6 DEF WriteThrows
  <2>3. /\ handle'[h].phase = handle[h].phase /\ handle'[h].closed = handle[h].closed
        /\ handle'[h].path = handle[h].path
        /\ handle'[h].failed = TRUE
        /\ handle'[h].intact = handle[h].intact
    BY <1>t, <2>2 DEF HandleState
  <2>4. sessions' = [sessions EXCEPT ![h] = SessionOf(h)']
    BY <1>t, <2>2, OneSession
  <2>5. SessionOf(h)' = [object |-> handle[h].path, draft |-> handle[h].intact,
                         tainted |-> TRUE]
    BY <2>1, <2>3 DEF SessionOf, IsOpen
  <2>6. sessions[h] = [object |-> handle[h].path, draft |-> handle[h].intact,
                       tainted |-> handle[h].failed] /\ sessions[h] # NoSession
    BY <2>1, OpenSession
  <2>7. SessionOf(h)' = [sessions[h] EXCEPT !.tainted = TRUE]
    <3> DEFINE s == [object |-> handle[h].path, draft |-> handle[h].intact,
                     tainted |-> handle[h].failed]
    <3>1. \A v : [s EXCEPT !.tainted = v]
                = [object |-> handle[h].path, draft |-> handle[h].intact,
                   tainted |-> v]
      BY SessionUpdates
    <3>2. sessions[h] = s
      BY <2>6
    <3> HIDE DEF sessions, s
    <3> QED BY <2>5, <3>1, <3>2, Zenon
  <2>8. Published!Taint(h)
    BY <2>1, <2>4, <2>6, <2>7 DEF Published!Taint
  <2> QED BY <2>8 DEF Published!Next
<1>7. ASSUME NEW h \in Handles, Flush(h)
      PROVE  [Published!Next]_(Published!vars)
  <2>1. Published!Publishes(h)
    BY <1>7, WriterPublishes DEF Flush
  <2>2. sessions' = sessions
    BY <1>7 DEF Flush, SessionOf, IsOpen
  <2> QED BY <2>1, <2>2 DEF Published!Publish, Published!Next
<1>8. ASSUME NEW h \in Handles, Close(h)
      PROVE  [Published!Next]_(Published!vars)
  <2>1. Published!Publishes(h)
    BY <1>8, WriterPublishes DEF Close
  <2>2. sessions' = [sessions EXCEPT ![h] = NoSession]
    <3>1. handle' = [handle EXCEPT ![h].writer = NoWriter, ![h].closed = TRUE]
      BY <1>8 DEF Close
    <3>2. \A g \in Handles \ {h} : handle'[g] = handle[g]
      BY <1>t, <3>1
    <3>3. handle'[h].closed
      <4>1. handle[h] \in HandleState
        BY <1>t
      <4>2. handle'[h] = [handle[h] EXCEPT !.writer = NoWriter, !.closed = TRUE]
        BY <1>t, <3>1
      <4> QED BY <4>1, <4>2 DEF HandleState
    <3>4. \A g \in Handles \ {h} : SessionOf(g)' = SessionOf(g)
      BY <3>2 DEF SessionOf, IsOpen
    <3>5. SessionOf(h)' = NoSession
      BY <3>3 DEF SessionOf, IsOpen
    <3> QED BY <3>4, <3>5
  <2> QED BY <2>1, <2>2 DEF Published!Finish, Published!Next
<1>9. ASSUME NEW h \in Handles, CloseThrows(h)
      PROVE  [Published!Next]_(Published!vars)
  <2>1. store' = store \/ Published!Publishes(h)
    BY <1>9, WriterPublishes DEF CloseThrows, MaybeStored
  <2>2. sessions' = sessions
    BY <1>9 DEF CloseThrows, SessionOf, IsOpen
  <2> QED BY <2>1, <2>2, <1>s DEF Published!Publish, Published!Next
<1>10. ASSUME NEW h \in Handles, Destroy(h)
       PROVE  [Published!Next]_(Published!vars)
  <2>1. sessions' = [sessions EXCEPT ![h] = NoSession]
    BY <1>10, <1>t DEF Destroy, SessionOf, IsOpen, NoHandle
  <2>2. CASE handle[h].closed
    <3>1. sessions[h] = NoSession
      BY <2>2 DEF SessionOf, IsOpen
    <3> QED BY <1>10, <2>1, <2>2, <3>1, <1>s DEF Destroy
  <2>3. CASE ~handle[h].closed
    <3>1. Published!Publishes(h)
      BY <1>10, <2>3, WriterPublishes DEF Destroy, IsOpen
    <3> QED BY <2>1, <3>1 DEF Published!Finish, Published!Next
  <2> QED BY <2>2, <2>3
<1>11. ASSUME NEW h \in Handles, DestroyThrows(h)
       PROVE  [Published!Next]_(Published!vars)
  <2>1. store' = store \/ Published!Publishes(h)
    BY <1>11, WriterPublishes DEF DestroyThrows, MaybeStored
  <2>2. sessions' = [g \in Handles |-> NoSession]
    BY <1>11, LostSessions DEF DestroyThrows
  <2> QED BY <2>1, <2>2 DEF Published!Die, Published!Next
<1>12. ASSUME NEW o \in Objects, Remove(o)
       PROVE  [Published!Next]_(Published!vars)
  <2>1. sessions' = sessions
    BY <1>12 DEF Remove, SessionOf, IsOpen
  <2> QED BY <1>12, <2>1 DEF Remove, Stored, Published!Remove, Published!Next
<1>13. CASE Kill
  <2>1. sessions' = [g \in Handles |-> NoSession]
    BY <1>13, LostSessions DEF Kill
  <2> QED BY <1>13, <2>1 DEF Kill, Published!Die, Published!Next
<1>14. CASE Restart \/ UNCHANGED vars
  <2>1. sessions' = sessions /\ store' = store
    BY <1>14 DEF Restart, vars, SessionOf, IsOpen
  <2> QED BY <2>1, <1>s
<1> QED
  BY <1>1, <1>2, <1>3, <1>4, <1>5, <1>6, <1>7, <1>8, <1>9, <1>10, <1>11, <1>12,
     <1>13, <1>14 DEF Next, HandleStep

\* Write handles, with their interleaved opens, partial writes, second closes,
\* destructors and process deaths, are private drafts that become visible whole,
\* and never become visible otherwise.
THEOREM Refinement == Spec => ImplementsPublishedFile
<1>1. IInv /\ [Next]_vars => [Published!Next]_(Published!vars)
  BY RefineNext
<1> QED
  BY <1>1, RefineInit, Invariant, PTL DEF Spec, ImplementsPublishedFile, Published!Spec
=============================================================================
