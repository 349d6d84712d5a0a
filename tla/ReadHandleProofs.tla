-------------------------- MODULE ReadHandleProofs --------------------------
(***************************************************************************)
(* Proofs about ReadHandle, for any objects, contents, handles, threads    *)
(* and ranges of the integers.                                             *)
(***************************************************************************)
EXTENDS ReadHandle, SequenceTheorems, TLAPS

-----------------------------------------------------------------------------
(* The inductive invariant: what is true of each handle and each call. *)

\* A handle: its reader is never behind its position, and until a read throws it
\* is where the stream since the last Seek ends.
HandleSound(s) ==
  /\ s.phase # "none" => s.path \in Objects
  /\ s.phase \in {"none", "statting"} <=> s.seen = {}
  /\ s.seen = {} => s.stream = <<>>
  /\ \A content \in Contents : s.seen = {content} => s.size = Len(content)
  /\ s.position <= s.cursor
  /\ s.faulted = FALSE =>
       /\ s.cursor = s.origin + Len(s.stream)
       /\ \A content \in Contents :
            s.seen = {content} => IsAt(s.stream, content, s.origin)

\* What a sequential read c that runs on a handle s has taken from its reader.
StreamSound(c, s) ==
  /\ s.cursor = c.offset + Len(c.buffer)
  /\ s.position + Len(c.buffer) <= s.cursor
  /\ s.faulted = FALSE => s.position + Len(c.buffer) = s.cursor

EndsShort(c) ==
  c.status = "short" \/ (c.kind = "read" /\ c.status = "returned" /\ Len(c.buffer) < c.size)

\* What a call c holds of the object of its handle s.
CallSound(c, s) ==
  /\ s.phase = "open"
  /\ c.status \in {"running", "short"} => Len(c.buffer) < c.size
  /\ c.kind = "readAt" /\ c.status = "returned" => Len(c.buffer) = c.size
  /\ \A content \in Contents : s.seen = {content} =>
       /\ c.kind = "readAt" => IsAt(c.buffer, content, c.offset)
       /\ EndsShort(c) => Len(content) <= c.offset + Len(c.buffer)
  /\ c.kind = "read" /\ c.status = "running" => StreamSound(c, s)

CallsSound ==
  \A t \in Threads :
    IF call[t].kind = "none" THEN call[t] = NoCall
    ELSE call[t].handle \in Handles /\ CallSound(call[t], handle[call[t].handle])

\* Sequential reads of a handle do not run at once.
Alone ==
  \A t, u \in Threads, h \in Handles : Streams(t, h) /\ Streams(u, h) => t = u

\* Between two reads, and until one throws, position is the reader's cursor.
Idle(h) ==
  (\A t \in Threads : ~Streams(t, h)) /\ handle[h].faulted = FALSE =>
    handle[h].position = handle[h].cursor

IInv ==
  /\ TypeOK
  /\ \A h \in Handles : HandleSound(handle[h]) /\ Idle(h)
  /\ CallsSound
  /\ Alone

-----------------------------------------------------------------------------
(* Lemmas about what a reader answers. *)

\* Where a round that adds d bytes leaves a position p behind a reader at q.
LEMMA Advance ==
  ASSUME NEW p \in Nat, NEW b \in Nat, NEW d \in Nat, NEW q \in Nat, p + b <= q
  PROVE  /\ p + (b + d) \in Nat /\ p + (b + d) <= q + d
         /\ p <= q + d
         /\ p + b = q => p + (b + d) = q + d
OBVIOUS

\* An answer is of the bytes at its offset; an empty one means that there are none.
LEMMA AnswerIsAt ==
  ASSUME NEW content \in Contents, NEW offset \in Nat, NEW room \in Nat \ {0},
         NEW data \in Answers(content, offset, room)
  PROVE  /\ data \in Seq(Byte)
         /\ Len(data) \in 0 .. room
         /\ data = <<>> => Len(content) <= offset
         /\ data # <<>> => offset + Len(data) <= Len(content)
         /\ \A i \in 1 .. Len(data) : data[i] = content[offset + i]
<1> DEFINE left == IF Len(content) > offset THEN Len(content) - offset ELSE 0
           most == IF left < room THEN left ELSE room
<1>1. content \in Seq(Byte) /\ Len(content) \in Nat
  BY ReadAssumption, LenProperties
<1>2. PICK n \in (IF most = 0 THEN {0} ELSE 1 .. most) :
        data = SubSeq(content, offset + 1, offset + n)
  BY DEF Answers
<1>3. n \in Nat /\ n <= room /\ (n > 0 => offset + n <= Len(content))
      /\ (n = 0 => Len(content) <= offset)
  BY <1>1, <1>2
<1>4. \A i \in offset + 1 .. offset + n : content[i] \in Byte
  BY <1>1, <1>3, ElementOfSeq
<1>5. /\ data \in Seq(Byte)
      /\ Len(data) = IF offset + 1 <= offset + n THEN offset + n - (offset + 1) + 1 ELSE 0
      /\ \A i \in 1 .. offset + n - (offset + 1) + 1 : data[i] = content[offset + 1 + i - 1]
  BY <1>1, <1>2, <1>3, <1>4, SubSeqProperties
<1>6. Len(data) = n
  BY <1>3, <1>5
<1>7. \A i \in 1 .. n : data[i] = content[offset + i]
  BY <1>1, <1>3, <1>5
<1>8. data = <<>> <=> n = 0
  BY <1>5, <1>6, EmptySeq
<1> QED BY <1>3, <1>5, <1>6, <1>7, <1>8

LEMMA NothingIsAt == ASSUME NEW content, NEW offset PROVE IsAt(<<>>, content, offset)
BY DEF IsAt

\* Bytes at an offset, and then the answer for where they end, are bytes at it.
LEMMA AppendIsAt ==
  ASSUME NEW content \in Contents, NEW offset \in Nat, NEW room \in Nat \ {0},
         NEW b \in Seq(Byte), IsAt(b, content, offset),
         NEW data \in Answers(content, offset + Len(b), room)
  PROVE  IsAt(b \o data, content, offset)
<1>1. Len(b) \in Nat /\ offset + Len(b) \in Nat /\ content \in Seq(Byte)
      /\ Len(content) \in Nat
  BY ReadAssumption, LenProperties
<1>2. /\ data \in Seq(Byte) /\ Len(data) \in Nat
      /\ data # <<>> => offset + Len(b) + Len(data) <= Len(content)
      /\ \A i \in 1 .. Len(data) : data[i] = content[offset + Len(b) + i]
  BY <1>1, AnswerIsAt
<1>3. /\ Len(b \o data) = Len(b) + Len(data)
      /\ \A i \in 1 .. Len(b) + Len(data) :
           (b \o data)[i] = IF i <= Len(b) THEN b[i] ELSE data[i - Len(b)]
  BY <1>2, ConcatProperties
<1>4. CASE data = <<>>
  <2>1. b \o data = b
    BY <1>4, ConcatEmptySeq
  <2> QED BY <2>1
<1>5. CASE data # <<>>
  <2>1. offset + Len(b \o data) <= Len(content)
    BY <1>1, <1>2, <1>3, <1>5
  <2>2. \A i \in 1 .. Len(b \o data) : (b \o data)[i] = content[offset + i]
    <3>1. SUFFICES ASSUME NEW i \in 1 .. Len(b) + Len(data)
                   PROVE (b \o data)[i] = content[offset + i]
      BY <1>3
    <3>2. CASE i <= Len(b)
      BY <1>1, <1>3, <3>2 DEF IsAt
    <3>3. CASE ~(i <= Len(b))
      <4>1. i - Len(b) \in 1 .. Len(data)
        BY <1>1, <1>2, <3>3
      <4>2. offset + Len(b) + (i - Len(b)) = offset + i
        BY <1>1
      <4> QED BY <1>2, <1>3, <3>3, <4>1, <4>2
    <3> QED BY <3>2, <3>3
  <2> QED BY <2>1, <2>2 DEF IsAt
<1> QED BY <1>4, <1>5

-----------------------------------------------------------------------------
(* Lemmas about a step that changes a handle or a call. *)

\* What a call holds stays true when its handle's object is seen with more
\* contents, and, unless it is a sequential read that runs, when the handle's
\* reader moves.
LEMMA Bystander ==
  ASSUME NEW c, NEW s, NEW new, CallSound(c, s), new.phase = "open",
         \A content \in Contents : new.seen = {content} => s.seen = {content},
         c.kind = "read" /\ c.status = "running" =>
           new.cursor = s.cursor /\ new.position = s.position /\ new.faulted = s.faulted
  PROVE  CallSound(c, new)
<1>1. c.kind = "read" /\ c.status = "running" => StreamSound(c, new)
  BY DEF CallSound, StreamSound
<1> QED BY <1>1 DEF CallSound

\* A step of one handle that no call is disturbed by.
LEMMA HandleChanges ==
  ASSUME IInv, TypeOK', NEW h \in Handles, call' = call,
         \A g \in Handles \ {h} : handle'[g] = handle[g],
         HandleSound(handle'[h]), Idle(h)',
         \A t \in Threads : call[t].kind # "none" /\ call[t].handle = h =>
           CallSound(call[t], handle'[h])
  PROVE  IInv'
<1>1. \A g \in Handles : HandleSound(handle'[g]) /\ Idle(g)'
  <2>1. SUFFICES ASSUME NEW g \in Handles \ {h} PROVE HandleSound(handle'[g]) /\ Idle(g)'
    OBVIOUS
  <2>2. HandleSound(handle'[g])
    BY DEF IInv
  <2>3. Idle(g)'
    BY DEF IInv, Idle, Streams, Uses, Running
  <2> QED BY <2>2, <2>3
<1>2. CallsSound'
  BY DEF IInv, CallsSound
<1>3. Alone'
  BY DEF IInv, Alone, Streams, Uses, Running
<1> QED BY <1>1, <1>2, <1>3 DEF IInv

\* A step of one call that is not a sequential read in progress.
LEMMA CallChanges ==
  ASSUME IInv, TypeOK', NEW t \in Threads, handle' = handle,
         \A u \in Threads \ {t} : call'[u] = call[u],
         IF call'[t].kind = "none" THEN call'[t] = NoCall
         ELSE call'[t].handle \in Handles /\ CallSound(call'[t], handle[call'[t].handle]),
         \A h \in Handles : ~Streams(t, h),
         \A u \in Threads \ {t}, h \in Handles : ~(Streams(t, h)' /\ Streams(u, h))
  PROVE  IInv'
<1>1. \A u \in Threads \ {t}, h \in Handles : Streams(u, h)' <=> Streams(u, h)
  BY DEF Streams, Uses, Running
<1>2. \A h \in Handles : HandleSound(handle'[h]) /\ Idle(h)'
  <2>1. SUFFICES ASSUME NEW h \in Handles PROVE Idle(h)'
    BY DEF IInv
  <2> QED BY <1>1 DEF IInv, Idle
<1>3. CallsSound'
  BY DEF IInv, CallsSound
<1>4. Alone'
  BY <1>1 DEF IInv, Alone
<1> QED BY <1>2, <1>3, <1>4 DEF IInv

\* A handle that is not open has no call.
LEMMA ClosedUncalled ==
  ASSUME IInv, NEW h \in Handles, handle[h].phase # "open",
         NEW t \in Threads, call[t].kind # "none"
  PROVE  call[t].handle # h
BY DEF IInv, CallsSound, CallSound

-----------------------------------------------------------------------------
(* Each step keeps the invariant. *)

LEMMA InitSound == ASSUME Init PROVE IInv
<1>1. Index \subseteq Nat /\ 0 \in Index
  BY ReadAssumption DEF Index
<1>2. Unopened \in HandleState /\ NoCall \in CallState
  BY <1>1 DEF Unopened, HandleState, NoCall, CallState
<1>3. TypeOK
  BY <1>2 DEF Init, TypeOK
<1>4. HandleSound(Unopened)
  BY <1>1, NothingIsAt DEF HandleSound, Unopened
<1>5. CallsSound /\ Alone /\ \A h \in Handles : Idle(h)
  BY DEF Init, CallsSound, Alone, Idle, NoCall, Unopened, Streams, Uses, Running
<1> QED BY <1>3, <1>4, <1>5 DEF Init, IInv

LEMMA OpenFileSound ==
  ASSUME IInv, NEW h \in Handles, NEW o \in Objects, NEW flags \in SUBSET FileFlags,
         OpenFile(h, o, flags)
  PROVE  IInv'
<1> DEFINE new == [handle[h] EXCEPT !.phase = "statting", !.path = o]
<1>1. handle[h] \in HandleState /\ handle' = [handle EXCEPT ![h] = new] /\ call' = call
  BY DEF IInv, TypeOK, OpenFile, HandleState
<1>2. new \in HandleState /\ handle'[h] = new
  BY <1>1 DEF HandleState, IInv, TypeOK
<1>3. TypeOK'
  BY <1>1, <1>2 DEF IInv, TypeOK, OpenFile
<1>4. HandleSound(new)
  BY <1>1 DEF IInv, HandleSound, HandleState, OpenFile
<1>5. Idle(h)'
  BY <1>1, <1>2 DEF IInv, Idle, Streams, Uses, Running, HandleState
<1> QED BY <1>1, <1>2, <1>3, <1>4, <1>5, ClosedUncalled, HandleChanges DEF OpenFile, IInv, TypeOK

LEMMA StatSound ==
  ASSUME IInv, NEW h \in Handles, Stat(h)
  PROVE  IInv'
<1> DEFINE content == store[handle[h].path]
           new == [handle[h] EXCEPT !.phase = "opening", !.size = Len(content),
                                    !.seen = {content}]
<1>1. handle[h] \in HandleState /\ handle' = [handle EXCEPT ![h] = new] /\ call' = call
  BY DEF IInv, TypeOK, Stat, HandleState
<1>2. content \in Contents
  <2>1. handle[h].path \in Objects
    BY DEF Stat, IInv, HandleSound
  <2> QED BY <2>1 DEF Stat, IInv, TypeOK
<1>3. Len(content) \in Index
  BY <1>2, ReadAssumption, LenProperties DEF Index
<1>4. new \in HandleState /\ handle'[h] = new
  BY <1>1, <1>2, <1>3 DEF HandleState, IInv, TypeOK
<1>5. TypeOK'
  BY <1>1, <1>4 DEF IInv, TypeOK, Stat
<1>6. HandleSound(new)
  <2>1. HandleSound(handle[h]) /\ handle[h].stream = <<>> /\ handle[h].path \in Objects
    BY DEF IInv, HandleSound, Stat
  <2>2. /\ new.phase = "opening" /\ new.path = handle[h].path /\ new.seen = {content}
        /\ new.size = Len(content) /\ new.position = handle[h].position
        /\ new.cursor = handle[h].cursor /\ new.origin = handle[h].origin
        /\ new.stream = <<>> /\ new.faulted = handle[h].faulted
    BY <1>1, <2>1 DEF HandleState
  <2>3. \A other \in Contents : {content} = {other} => other = content
    OBVIOUS
  <2> HIDE DEF content, new
  <2> QED BY <2>1, <2>2, <2>3, NothingIsAt DEF HandleSound
<1>7. Idle(h)'
  BY <1>1, <1>4 DEF IInv, Idle, Streams, Uses, Running, HandleState
<1> QED BY <1>1, <1>4, <1>5, <1>6, <1>7, ClosedUncalled, HandleChanges DEF Stat, IInv, TypeOK

LEMMA GetReaderSound ==
  ASSUME IInv, NEW h \in Handles, GetReader(h)
  PROVE  IInv'
<1> DEFINE new == [handle[h] EXCEPT !.phase = "open"]
<1>1. handle[h] \in HandleState /\ handle' = [handle EXCEPT ![h] = new] /\ call' = call
  BY DEF IInv, TypeOK, GetReader, HandleState
<1>2. new \in HandleState /\ handle'[h] = new
  BY <1>1 DEF HandleState, IInv, TypeOK
<1>3. TypeOK'
  BY <1>1, <1>2 DEF IInv, TypeOK, GetReader
<1>4. HandleSound(new)
  BY <1>1 DEF IInv, HandleSound, HandleState, GetReader
<1>5. Idle(h)'
  BY <1>1, <1>2 DEF IInv, Idle, Streams, Uses, Running, HandleState
<1> QED BY <1>1, <1>2, <1>3, <1>4, <1>5, ClosedUncalled, HandleChanges DEF GetReader, IInv, TypeOK

LEMMA UnopenedSound ==
  Unopened \in HandleState /\ NoCall \in CallState /\ HandleSound(Unopened)
<1>1. Index \subseteq Nat /\ 0 \in Index
  BY ReadAssumption DEF Index
<1> QED BY <1>1, NothingIsAt
    DEF Unopened, HandleState, NoCall, CallState, HandleSound

LEMMA OpenThrowsSound ==
  ASSUME IInv, NEW h \in Handles, OpenThrows(h)
  PROVE  IInv'
<1>1. handle' = [handle EXCEPT ![h] = Unopened] /\ handle'[h] = Unopened /\ call' = call
  BY DEF IInv, TypeOK, OpenThrows
<1>2. TypeOK'
  BY <1>1, UnopenedSound DEF IInv, TypeOK, OpenThrows
<1>3. Idle(h)'
  BY <1>1 DEF Idle, Unopened
<1> QED BY <1>1, <1>2, <1>3, UnopenedSound, ClosedUncalled, HandleChanges DEF OpenThrows, IInv, TypeOK

LEMMA SeekSound ==
  ASSUME IInv, NEW h \in Handles, NEW offset \in 0 .. MaxIndex, Seek(h, offset)
  PROVE  IInv'
<1> DEFINE new == [handle[h] EXCEPT !.cursor = offset, !.position = offset,
                     !.origin = offset, !.stream = <<>>, !.faulted = FALSE]
<1>1. handle[h] \in HandleState /\ handle' = [handle EXCEPT ![h] = new] /\ call' = call
  BY DEF IInv, TypeOK, Seek, HandleState
<1>2. new \in HandleState /\ handle'[h] = new
  <2>1. new \in HandleState
    BY <1>1, EmptySeq DEF HandleState, Index
  <2> QED BY <1>1, <2>1 DEF IInv, TypeOK
<1>3. TypeOK'
  BY <1>1, <1>2 DEF IInv, TypeOK, Seek
<1>4. HandleSound(new)
  BY <1>1, NothingIsAt, ReadAssumption DEF IInv, HandleSound, HandleState
<1>5. Idle(h)'
  <2>1. new.position = new.cursor
    BY <1>1 DEF HandleState
  <2> HIDE DEF new
  <2> QED BY <1>1, <1>2, <2>1 DEF Idle
<1>6. \A t \in Threads : call[t].kind # "none" /\ call[t].handle = h => CallSound(call[t], new)
  <2>1. SUFFICES ASSUME NEW t \in Threads, call[t].kind # "none", call[t].handle = h
                 PROVE CallSound(call[t], new)
    OBVIOUS
  <2>2. CallSound(call[t], handle[h])
    BY <2>1 DEF IInv, CallsSound
  <2>3. ~(call[t].kind = "read" /\ call[t].status = "running")
    BY <2>1 DEF Seek, Streams, Uses, Running
  <2>4. new.phase = "open" /\ new.seen = handle[h].seen
    BY <1>1 DEF Seek, IsOpen, HandleState
  <2> HIDE DEF new
  <2> QED BY <2>2, <2>3, <2>4, Bystander
<1> QED BY <1>1, <1>2, <1>3, <1>4, <1>5, <1>6, HandleChanges DEF IInv, TypeOK

LEMMA CloseSound ==
  ASSUME IInv, NEW h \in Handles, Close(h)
  PROVE  IInv'
<1> DEFINE new == [handle[h] EXCEPT !.closed = TRUE]
<1>1. handle[h] \in HandleState /\ handle' = [handle EXCEPT ![h] = new] /\ call' = call
  BY DEF IInv, TypeOK, Close, HandleState
<1>2. new \in HandleState /\ handle'[h] = new
  <2>1. new \in HandleState
    BY <1>1 DEF HandleState
  <2> QED BY <1>1, <2>1 DEF IInv, TypeOK
<1>3. TypeOK'
  BY <1>1, <1>2 DEF IInv, TypeOK, Close
<1>4. HandleSound(new)
  BY <1>1 DEF IInv, HandleSound, HandleState
<1>5. Idle(h)'
  <2>1. new.faulted = handle[h].faulted /\ new.position = handle[h].position
        /\ new.cursor = handle[h].cursor
    BY <1>1 DEF HandleState
  <2> HIDE DEF new
  <2> QED BY <1>1, <1>2, <2>1 DEF IInv, Idle, Streams, Uses, Running
<1>6. \A t \in Threads : call[t].kind # "none" /\ call[t].handle = h => CallSound(call[t], new)
  <2>1. SUFFICES ASSUME NEW t \in Threads, call[t].kind # "none", call[t].handle = h
                 PROVE CallSound(call[t], new)
    OBVIOUS
  <2>2. CallSound(call[t], handle[h])
    BY <2>1 DEF IInv, CallsSound
  <2>3. new.faulted = handle[h].faulted /\ new.position = handle[h].position
        /\ new.cursor = handle[h].cursor /\ new.phase = handle[h].phase
        /\ new.seen = handle[h].seen
    BY <1>1 DEF HandleState
  <2>4. new.phase = "open"
    BY <2>2, <2>3 DEF CallSound
  <2> HIDE DEF new
  <2> QED BY <2>2, <2>3, <2>4, Bystander
<1> QED BY <1>1, <1>2, <1>3, <1>4, <1>5, <1>6, HandleChanges DEF IInv, TypeOK

LEMMA StartReadSound ==
  ASSUME IInv, NEW t \in Threads, NEW h \in Handles, NEW size \in 1 .. MaxStream,
         StartRead(t, h, size)
  PROVE  IInv'
<1> DEFINE c == [kind |-> "read", handle |-> h, status |-> "running",
                 offset |-> handle[h].cursor, size |-> size, buffer |-> <<>>]
<1>1. call' = [call EXCEPT ![t] = c] /\ call'[t] = c /\ handle' = handle /\ store' = store
  BY DEF IInv, TypeOK, StartRead
<1>2. handle[h] \in HandleState /\ size \in Index /\ Index \subseteq Nat
  BY ReadAssumption DEF IInv, TypeOK, Index
<1>3. c \in CallState
  BY <1>2, EmptySeq DEF CallState, HandleState
<1>4. TypeOK'
  BY <1>1, <1>3 DEF IInv, TypeOK
<1>5. CallSound(c, handle[h])
  <2>1. HandleSound(handle[h]) /\ Idle(h)
    BY DEF IInv
  <2>2. handle[h].phase = "open" /\ \A u \in Threads : ~Streams(u, h)
    BY DEF StartRead, IsOpen, Streams, Uses, Running
  <2>3. StreamSound(c, handle[h])
    <3>1. c.offset = handle[h].cursor /\ Len(c.buffer) = 0
      BY EmptySeq
    <3>2. handle[h].cursor \in Nat /\ handle[h].position \in Nat
      BY <1>2 DEF HandleState
    <3>3. handle[h].position <= handle[h].cursor
      BY <2>1 DEF HandleSound
    <3>4. handle[h].faulted = FALSE => handle[h].position = handle[h].cursor
      BY <2>1, <2>2 DEF Idle
    <3> HIDE DEF c
    <3> QED BY <3>1, <3>2, <3>3, <3>4 DEF StreamSound
  <2> QED BY <1>2, <2>2, <2>3, EmptySeq DEF CallSound, EndsShort
<1>6. \A u \in Threads \ {t}, g \in Handles : ~(Streams(t, g)' /\ Streams(u, g))
  BY <1>1 DEF Streams, Uses, StartRead
<1>7. \A g \in Handles : ~Streams(t, g)
  BY DEF StartRead, Streams, Uses
<1>8. \A u \in Threads \ {t} : call'[u] = call[u]
  BY <1>1 DEF IInv, TypeOK
<1> QED BY <1>1, <1>4, <1>5, <1>6, <1>7, <1>8, CallChanges

LEMMA StartReadAtSound ==
  ASSUME IInv, NEW t \in Threads, NEW h \in Handles, NEW size \in 1 .. MaxStream,
         NEW offset \in 0 .. MaxIndex, StartReadAt(t, h, size, offset)
  PROVE  IInv'
<1> DEFINE c == [kind |-> "readAt", handle |-> h, status |-> "running",
                 offset |-> offset, size |-> size, buffer |-> <<>>]
<1>1. call' = [call EXCEPT ![t] = c] /\ call'[t] = c /\ handle' = handle /\ store' = store
  BY DEF IInv, TypeOK, StartReadAt
<1>2. size \in Index /\ offset \in Index /\ Index \subseteq Nat
  BY ReadAssumption DEF Index
<1>3. c \in CallState
  BY <1>2, EmptySeq DEF CallState
<1>4. TypeOK'
  BY <1>1, <1>3 DEF IInv, TypeOK
<1>5. CallSound(c, handle[h])
  BY <1>2, EmptySeq, NothingIsAt DEF CallSound, EndsShort, StartReadAt, IsOpen
<1>6. \A g \in Handles : ~Streams(t, g) /\ ~Streams(t, g)'
  BY <1>1 DEF StartReadAt, Streams, Uses
<1>7. \A u \in Threads \ {t} : call'[u] = call[u]
  BY <1>1 DEF IInv, TypeOK
<1> QED BY <1>1, <1>4, <1>5, <1>6, <1>7, CallChanges

\* A call that runs is of an open handle, and has room left.
LEMMA RunningSound ==
  ASSUME IInv, NEW t \in Threads, Running(t)
  PROVE  /\ call[t] \in CallState /\ call[t].kind # "none"
         /\ call[t].handle \in Handles
         /\ handle[call[t].handle] \in HandleState
         /\ CallSound(call[t], handle[call[t].handle])
         /\ Len(call[t].buffer) \in Nat
         /\ call[t].size - Len(call[t].buffer) \in Nat \ {0}
<1>1. call[t] \in CallState /\ call[t].kind # "none"
  BY DEF IInv, TypeOK, Running, CallsSound, NoCall
<1>2. call[t].handle \in Handles /\ CallSound(call[t], handle[call[t].handle])
  BY <1>1 DEF IInv, CallsSound
<1>3. Len(call[t].buffer) \in Nat /\ call[t].size \in Nat
  BY <1>1, ReadAssumption, LenProperties DEF CallState, Index
<1>4. Len(call[t].buffer) < call[t].size
  BY <1>2 DEF CallSound, Running
<1> QED BY <1>1, <1>2, <1>3, <1>4 DEF IInv, TypeOK

LEMMA ReadAtThrowsSound ==
  ASSUME IInv, NEW t \in Threads, ReadAtThrows(t)
  PROVE  IInv'
<1>1. call' = [call EXCEPT ![t] = NoCall] /\ call'[t] = NoCall /\ handle' = handle
  BY DEF IInv, TypeOK, ReadAtThrows
<1>2. TypeOK'
  BY <1>1, UnopenedSound DEF IInv, TypeOK, ReadAtThrows
<1>3. \A g \in Handles : ~Streams(t, g) /\ ~Streams(t, g)'
  BY <1>1 DEF ReadAtThrows, Streams, Uses, Running, NoCall
<1>4. \A u \in Threads \ {t} : call'[u] = call[u]
  BY <1>1 DEF IInv, TypeOK
<1>5. NoCall.kind = "none"
  BY DEF NoCall
<1> QED BY <1>1, <1>2, <1>3, <1>4, <1>5, CallChanges

LEMMA ReadAtStepSound ==
  ASSUME IInv, NEW t \in Threads, ReadAtStep(t)
  PROVE  IInv'
<1> DEFINE c == call[t]
           h == c.handle
           room == c.size - Len(c.buffer)
           next == c.offset + Len(c.buffer)
<1>1. Running(t) /\ c.kind = "readAt" /\ store' = store /\ handle' = handle
  BY DEF ReadAtStep, Uses
<1>2. /\ c \in CallState /\ h \in Handles /\ handle[h] \in HandleState
      /\ CallSound(c, handle[h])
      /\ Len(c.buffer) \in Nat /\ room \in Nat \ {0}
  BY <1>1, RunningSound
<1>3. c.offset \in Nat /\ c.size \in Nat /\ c.buffer \in Seq(Byte) /\ next \in Nat
  BY <1>2, ReadAssumption DEF CallState, Index
<1> DEFINE ends(data) == IF ~LoopEnds(t, data) THEN c.status
                         ELSE IF TotalRead(t, data) = c.size THEN "returned" ELSE "short"
<1>a. PICK content \in handle[h].seen :
        \E data \in Answers(content, next, room) :
          call' = [call EXCEPT ![t].buffer = c.buffer \o data, ![t].status = ends(data)]
  BY DEF ReadAtStep, NextOffset
<1>4. PICK data \in Answers(content, next, room) :
        call' = [call EXCEPT ![t].buffer = c.buffer \o data, ![t].status = ends(data)]
  BY <1>a
<1> DEFINE status == ends(data)
           new == [c EXCEPT !.buffer = c.buffer \o data, !.status = status]
<1>5. content \in Contents
  BY <1>2 DEF HandleState
<1>6. /\ data \in Seq(Byte) /\ Len(data) \in 0 .. room
      /\ data = <<>> => Len(content) <= next
      /\ data # <<>> => next + Len(data) <= Len(content)
  BY <1>2, <1>3, <1>4, <1>5, AnswerIsAt
<1>7. c.buffer \o data \in Seq(Byte) /\ Len(c.buffer \o data) = Len(c.buffer) + Len(data)
  BY <1>3, <1>6, ConcatProperties
<1>8. status \in {"running", "returned", "short"}
  BY <1>2 DEF CallState
<1>9. /\ call' = [call EXCEPT ![t] = new] /\ call'[t] = new
      /\ new \in CallState /\ new.kind = "readAt" /\ new.handle = h
      /\ new.offset = c.offset /\ new.size = c.size /\ new.status = status
      /\ new.buffer = c.buffer \o data
  <2> HIDE DEF status
  <2>1. /\ new \in CallState /\ new.kind = "readAt" /\ new.handle = h
        /\ new.offset = c.offset /\ new.size = c.size /\ new.status = status
        /\ new.buffer = c.buffer \o data
    BY <1>1, <1>2, <1>7, <1>8 DEF CallState
  <2>2. call' = [call EXCEPT ![t] = new]
    BY <1>2, <1>4 DEF IInv, TypeOK, CallState, status
  <2> QED BY <2>1, <2>2 DEF IInv, TypeOK
<1>10. TypeOK'
  BY <1>1, <1>9 DEF IInv, TypeOK
<1>11. CallSound(new, handle[h])
  <2> HIDE DEF new
  <2>1. c.status = "running"
    BY <1>1 DEF Running
  <2>2. status \in {"running", "short"} => Len(new.buffer) < new.size
    <3>0. Len(data) \in Nat /\ Len(data) <= room
      BY <1>2, <1>6
    <3>1. Len(c.buffer) + Len(data) <= c.size
      <4> HIDE DEF c
      <4> QED BY <1>2, <1>3, <3>0
    <3>2. status \in {"running", "short"} => Len(c.buffer) + Len(data) # c.size
      BY <1>2, <2>1 DEF LoopEnds, TotalRead
    <3> HIDE DEF status
    <3>3. Len(c.buffer) + Len(data) \in Nat /\ c.size \in Nat
      BY <1>2, <1>3, <3>0
    <3> HIDE DEF c, new
    <3> QED BY <1>7, <1>9, <3>1, <3>2, <3>3
  <2>3. status = "returned" => Len(new.buffer) = new.size
    BY <1>2, <1>3, <1>6, <1>7, <1>9, <2>1 DEF LoopEnds, TotalRead
  <2>4. ASSUME NEW other \in Contents, handle[h].seen = {other}
        PROVE  /\ IsAt(new.buffer, other, new.offset)
               /\ EndsShort(new) => Len(other) <= new.offset + Len(new.buffer)
    <3>1. other = content
      BY <2>4
    <3>2. IsAt(c.buffer, content, c.offset)
      BY <1>1, <1>2, <2>4, <3>1 DEF CallSound
    <3>3. IsAt(c.buffer \o data, content, c.offset)
      BY <1>2, <1>3, <1>4, <1>5, <3>2, AppendIsAt
    <3>4. EndsShort(new) => data = <<>>
      BY <1>9, <2>1 DEF EndsShort, LoopEnds, TotalRead
    <3>5. data = <<>> => Len(content) <= c.offset + Len(c.buffer \o data)
      BY <1>3, <1>6, <1>7, EmptySeq
    <3> QED BY <1>9, <3>1, <3>3, <3>4, <3>5
  <2> QED BY <1>2, <1>9, <2>2, <2>3, <2>4 DEF CallSound
<1>12. \A g \in Handles : ~Streams(t, g) /\ ~Streams(t, g)'
  <2> HIDE DEF new
  <2> QED BY <1>1, <1>9 DEF Streams, Uses
<1>13. \A u \in Threads \ {t} : call'[u] = call[u]
  BY <1>9 DEF IInv, TypeOK
<1> HIDE DEF new
<1> QED BY <1>1, <1>2, <1>9, <1>10, <1>11, <1>12, <1>13, CallChanges

\* A step that leaves t's sequential read of h, and takes nothing else up.
LEMMA StreamChanges ==
  ASSUME IInv, TypeOK', NEW t \in Threads, NEW h \in Handles, Streams(t, h),
         \A g \in Handles \ {h} : handle'[g] = handle[g],
         \A u \in Threads \ {t} : call'[u] = call[u],
         handle'[h].phase = handle[h].phase, handle'[h].seen = handle[h].seen,
         HandleSound(handle'[h]), Idle(h)',
         call'[t] = NoCall \/ (/\ call'[t].kind = "read" /\ call'[t].handle = h
                               /\ CallSound(call'[t], handle'[h]))
  PROVE  IInv'
<1>1. \A u \in Threads \ {t}, g \in Handles : Streams(u, g)' <=> Streams(u, g)
  BY DEF Streams, Uses, Running
<1>2. \A g \in Handles : HandleSound(handle'[g]) /\ Idle(g)'
  <2>1. SUFFICES ASSUME NEW g \in Handles \ {h} PROVE HandleSound(handle'[g]) /\ Idle(g)'
    OBVIOUS
  <2>2. ~Streams(t, g)
    BY DEF Streams, Uses
  <2>3. Idle(g)'
    BY <1>1, <2>2 DEF IInv, Idle
  <2> QED BY <2>3 DEF IInv
<1>3. CallsSound'
  <2>1. SUFFICES ASSUME NEW u \in Threads \ {t}, call[u].kind # "none"
                 PROVE  call[u].handle \in Handles /\ CallSound(call[u], handle'[call[u].handle])
    BY DEF IInv, CallsSound, NoCall
  <2>2. call[u].handle \in Handles /\ CallSound(call[u], handle[call[u].handle])
    BY <2>1 DEF IInv, CallsSound
  <2>3. CASE call[u].handle = h
    <3>1. ~(call[u].kind = "read" /\ call[u].status = "running")
      BY <2>3 DEF IInv, Alone, Streams, Uses, Running
    <3>2. handle'[h].phase = "open"
      BY <2>2, <2>3 DEF CallSound
    <3> QED BY <2>2, <2>3, <3>1, <3>2, Bystander
  <2> QED BY <2>2, <2>3
<1>4. Alone'
  <2>1. \A g \in Handles : Streams(t, g)' => g = h
    BY DEF Streams, Uses, Running, NoCall
  <2> QED BY <1>1, <2>1 DEF IInv, Alone
<1> QED BY <1>2, <1>3, <1>4 DEF IInv

LEMMA ReadThrowsSound ==
  ASSUME IInv, NEW t \in Threads, ReadThrows(t)
  PROVE  IInv'
<1>1. PICK h \in Handles : /\ h = call[t].handle /\ Streams(t, h)
                           /\ handle[h] \in HandleState /\ CallSound(call[t], handle[h])
  BY RunningSound DEF ReadThrows, Streams, Uses
<1> DEFINE new == [handle[h] EXCEPT !.faulted = TRUE, !.stream = <<>>]
<1>2. /\ handle' = [handle EXCEPT ![h] = new] /\ handle'[h] = new
      /\ call' = [call EXCEPT ![t] = NoCall] /\ call'[t] = NoCall
  BY <1>1 DEF IInv, TypeOK, ReadThrows, HandleState
<1>3. new \in HandleState
  BY <1>1, EmptySeq DEF HandleState
<1>4. TypeOK'
  BY <1>1, <1>2, <1>3, UnopenedSound DEF IInv, TypeOK, ReadThrows
<1>5. /\ new.phase = handle[h].phase /\ new.path = handle[h].path
      /\ new.seen = handle[h].seen /\ new.size = handle[h].size
      /\ new.position = handle[h].position /\ new.cursor = handle[h].cursor
      /\ new.stream = <<>> /\ new.faulted = TRUE
  BY <1>1 DEF HandleState
<1> HIDE DEF new
<1>6. HandleSound(new)
  BY <1>1, <1>5 DEF IInv, HandleSound
<1>7. Idle(h)'
  BY <1>2, <1>5 DEF Idle
<1>8. /\ \A g \in Handles \ {h} : handle'[g] = handle[g]
      /\ \A u \in Threads \ {t} : call'[u] = call[u]
  BY <1>2 DEF IInv, TypeOK
<1> QED BY <1>1, <1>2, <1>4, <1>5, <1>6, <1>7, <1>8, StreamChanges

LEMMA DestroySound ==
  ASSUME IInv, NEW h \in Handles, Destroy(h)
  PROVE  IInv'
<1>1. /\ handle' = [handle EXCEPT ![h] = Unopened] /\ handle'[h] = Unopened
      /\ \A g \in Handles \ {h} : handle'[g] = handle[g]
  BY DEF IInv, TypeOK, Destroy
<1>2. \A t \in Threads : call'[t] = IF call[t].handle = h THEN NoCall ELSE call[t]
  BY DEF Destroy
<1>3. TypeOK'
  BY <1>1, UnopenedSound DEF IInv, TypeOK, Destroy
<1>4. \A t \in Threads, g \in Handles : Streams(t, g)' <=> Streams(t, g)
  BY <1>2 DEF Destroy, Streams, Uses, Running, NoCall
<1>5. \A g \in Handles : HandleSound(handle'[g]) /\ Idle(g)'
  <2>1. HandleSound(handle'[h]) /\ Idle(h)'
    BY <1>1, UnopenedSound DEF Idle, Unopened
  <2>2. \A g \in Handles \ {h} : HandleSound(handle'[g]) /\ Idle(g)'
    BY <1>1, <1>4 DEF IInv, Idle
  <2> QED BY <2>1, <2>2
<1>6. CallsSound'
  BY <1>1, <1>2 DEF IInv, CallsSound, NoCall
<1>7. Alone'
  BY <1>4 DEF IInv, Alone
<1> QED BY <1>3, <1>5, <1>6, <1>7 DEF IInv

LEMMA ReplaceSound ==
  ASSUME IInv, NEW o \in Objects, NEW content \in Contents \cup {NoObject},
         Replace(o, content)
  PROVE  IInv'
<1> DEFINE more(s) == [s EXCEPT !.seen = s.seen \cup ({content} \ {NoObject})]
<1>1. /\ store' = [store EXCEPT ![o] = content] /\ call' = call
      /\ \A h \in Handles :
           handle'[h] = IF handle[h].path = o /\ handle[h].phase \in {"opening", "open"}
                        THEN more(handle[h]) ELSE handle[h]
  BY DEF Replace
<1>2. \A h \in Handles :
        LET s == handle[h] IN
        /\ s \in HandleState
        /\ more(s) \in HandleState
        /\ more(s).phase = s.phase /\ more(s).path = s.path /\ more(s).size = s.size
        /\ more(s).position = s.position /\ more(s).cursor = s.cursor
        /\ more(s).origin = s.origin /\ more(s).stream = s.stream
        /\ more(s).faulted = s.faulted
        /\ more(s).seen = s.seen \cup ({content} \ {NoObject})
  <2>1. SUFFICES ASSUME NEW s \in HandleState
        PROVE  /\ more(s) \in HandleState
               /\ more(s).phase = s.phase /\ more(s).path = s.path /\ more(s).size = s.size
               /\ more(s).position = s.position /\ more(s).cursor = s.cursor
               /\ more(s).origin = s.origin /\ more(s).stream = s.stream
               /\ more(s).faulted = s.faulted
               /\ more(s).seen = s.seen \cup ({content} \ {NoObject})
    BY DEF IInv, TypeOK
  <2>2. s.seen \cup ({content} \ {NoObject}) \in SUBSET Contents
    BY DEF HandleState
  <2> QED BY <2>2 DEF HandleState
<1>3. TypeOK'
  <2>1. handle' \in [Handles -> HandleState]
    BY <1>2 DEF Replace
  <2> QED BY <1>1, <2>1 DEF IInv, TypeOK
<1> HIDE DEF more
<1>4. ASSUME NEW h \in Handles
      PROVE  /\ handle'[h].phase = handle[h].phase /\ handle'[h].path = handle[h].path
             /\ handle'[h].size = handle[h].size /\ handle'[h].position = handle[h].position
             /\ handle'[h].cursor = handle[h].cursor /\ handle'[h].origin = handle[h].origin
             /\ handle'[h].stream = handle[h].stream
             /\ handle'[h].faulted = handle[h].faulted
             /\ handle[h].seen \subseteq handle'[h].seen
             /\ handle[h].phase \in {"none", "statting"} => handle'[h].seen = handle[h].seen
  BY <1>1, <1>2
<1>5. ASSUME NEW h \in Handles
      PROVE  HandleSound(handle'[h]) /\ Idle(h)'
  <2>1. HandleSound(handle[h]) /\ Idle(h)
    BY DEF IInv
  <2>2. \A other \in Contents : handle'[h].seen = {other} => handle[h].seen \in {{}, {other}}
    BY <1>4
  <2>3. \A other \in Contents : handle'[h].seen = {other} => handle[h].seen = {other}
    BY <1>4, <2>1, <2>2 DEF HandleSound
  <2>4. HandleSound(handle'[h])
    BY <1>4, <2>1, <2>3 DEF HandleSound
  <2>5. Idle(h)'
    BY <1>1, <1>4, <2>1 DEF Idle, Streams, Uses, Running
  <2> QED BY <2>4, <2>5
<1>6. CallsSound'
  <2>1. SUFFICES ASSUME NEW t \in Threads, call[t].kind # "none"
                 PROVE  call[t].handle \in Handles /\ CallSound(call[t], handle'[call[t].handle])
    BY <1>1 DEF IInv, CallsSound
  <2> DEFINE h == call[t].handle
  <2>2. h \in Handles /\ CallSound(call[t], handle[h]) /\ handle[h].phase = "open"
    BY <2>1 DEF IInv, CallsSound, CallSound
  <2>3. handle[h].seen # {}
    BY <2>2 DEF IInv, HandleSound
  <2>4. \A other \in Contents : handle'[h].seen = {other} => handle[h].seen = {other}
    BY <1>4, <2>2, <2>3
  <2> QED BY <1>4, <2>2, <2>4, Bystander
<1>7. Alone'
  BY <1>1 DEF IInv, Alone, Streams, Uses, Running
<1> QED BY <1>3, <1>5, <1>6, <1>7 DEF IInv

LEMMA ReadStepSound ==
  ASSUME IInv, NEW t \in Threads, ReadStep(t)
  PROVE  IInv'
<1> DEFINE c == call[t]
           room == c.size - Len(c.buffer)
<1>1. PICK h \in Handles : /\ h = c.handle /\ Streams(t, h) /\ c \in CallState
                           /\ c.kind = "read" /\ c.status = "running"
                           /\ handle[h] \in HandleState /\ CallSound(c, handle[h])
                           /\ Len(c.buffer) \in Nat /\ room \in Nat \ {0}
  BY RunningSound DEF ReadStep, Streams, Uses, Running
<1> DEFINE s == handle[h]
<1>2. /\ c.offset \in Nat /\ c.size \in Nat /\ c.buffer \in Seq(Byte)
      /\ s.cursor \in Nat /\ s.position \in Nat /\ s.origin \in Nat
      /\ s.stream \in Seq(Byte) /\ Len(s.stream) \in Nat
  <2>1. Index \subseteq Nat
    BY ReadAssumption DEF Index
  <2>2. c.offset \in Nat /\ c.size \in Nat /\ c.buffer \in Seq(Byte)
    BY <1>1, <2>1 DEF CallState
  <2>3. s.cursor \in Nat /\ s.position \in Nat /\ s.origin \in Nat /\ s.stream \in Seq(Byte)
    BY <1>1, <2>1 DEF HandleState
  <2> QED BY <2>2, <2>3, LenProperties
<1>3. HandleSound(s) /\ s.phase = "open" /\ StreamSound(c, s)
  BY <1>1 DEF IInv, CallSound
<1> DEFINE status(data) == IF LoopEnds(t, data) THEN "returned" ELSE c.status
           stream(data) == IF s.faulted THEN <<>> ELSE s.stream \o data
           position(data) ==
             IF LoopEnds(t, data) THEN s.position + TotalRead(t, data) ELSE s.position
<1>4. PICK content \in s.seen :
        \E data \in Answers(content, s.cursor, room) :
          /\ call' = [call EXCEPT ![t].buffer = c.buffer \o data, ![t].status = status(data)]
          /\ handle' = [handle EXCEPT ![h].cursor = s.cursor + Len(data),
                                      ![h].stream = stream(data),
                                      ![h].position = position(data)]
  BY <1>1 DEF ReadStep
<1>5. PICK data \in Answers(content, s.cursor, room) :
        /\ call' = [call EXCEPT ![t].buffer = c.buffer \o data, ![t].status = status(data)]
        /\ handle' = [handle EXCEPT ![h].cursor = s.cursor + Len(data),
                                    ![h].stream = stream(data),
                                    ![h].position = position(data)]
  BY <1>4
<1>6. content \in Contents /\ Len(content) \in Nat /\ Len(content) <= MaxIndex
  BY <1>1, ReadAssumption, LenProperties DEF HandleState
<1>7. /\ data \in Seq(Byte) /\ Len(data) \in Nat /\ Len(data) <= room
      /\ data = <<>> => Len(content) <= s.cursor
      /\ data # <<>> => s.cursor + Len(data) <= Len(content)
  <2>1. room \in Nat \ {0} /\ s.cursor \in Nat
    BY <1>1, <1>2
  <2> HIDE DEF c, room, s
  <2> QED BY <2>1, <1>5, <1>6, AnswerIsAt
<1>8. /\ c.buffer \o data \in Seq(Byte) /\ Len(c.buffer \o data) = Len(c.buffer) + Len(data)
      /\ s.stream \o data \in Seq(Byte) /\ Len(s.stream \o data) = Len(s.stream) + Len(data)
  BY <1>2, <1>7, ConcatProperties
<1> DEFINE call2 == [c EXCEPT !.buffer = c.buffer \o data, !.status = status(data)]
           new == [s EXCEPT !.cursor = s.cursor + Len(data), !.stream = stream(data),
                            !.position = position(data)]
<1>9. /\ call' = [call EXCEPT ![t] = call2] /\ handle' = [handle EXCEPT ![h] = new]
  BY <1>1, <1>5 DEF IInv, TypeOK, CallState, HandleState
<1>10. /\ call'[t] = call2 /\ handle'[h] = new
       /\ \A g \in Handles \ {h} : handle'[g] = handle[g]
       /\ \A u \in Threads \ {t} : call'[u] = call[u]
  <2> HIDE DEF call2, new
  <2> QED BY <1>9 DEF IInv, TypeOK
<1>11. /\ call2.kind = "read" /\ call2.handle = h /\ call2.offset = c.offset
       /\ call2.size = c.size /\ call2.buffer = c.buffer \o data
       /\ call2.status = status(data)
  BY <1>1 DEF CallState
<1>12. /\ new.phase = s.phase /\ new.path = s.path /\ new.seen = s.seen
       /\ new.size = s.size /\ new.cursor = s.cursor + Len(data)
       /\ new.stream = stream(data) /\ new.position = position(data)
       /\ new.origin = s.origin /\ new.faulted = s.faulted
  BY <1>1 DEF HandleState
\* The reader stays in the range of idx_t, and ahead of the position.
<1>13. s.cursor + Len(data) \in Index
  <2>1. s.cursor \in Index
    BY <1>1 DEF HandleState
  <2>2. CASE data = <<>>
    BY <1>2, <2>1, <2>2, EmptySeq
  <2>3. CASE data # <<>>
    BY <1>2, <1>6, <1>7, <2>3, ReadAssumption DEF Index
  <2> QED BY <2>2, <2>3
<1>14. /\ position(data) \in Nat /\ position(data) <= s.cursor + Len(data)
       /\ s.faulted = FALSE /\ LoopEnds(t, data) => position(data) = s.cursor + Len(data)
  <2>1. TotalRead(t, data) = Len(c.buffer) + Len(data)
    BY DEF TotalRead
  <2>2. s.position + Len(c.buffer) <= s.cursor
        /\ (s.faulted = FALSE => s.position + Len(c.buffer) = s.cursor)
    BY <1>3 DEF StreamSound
  <2>3. position(data) = IF LoopEnds(t, data) THEN s.position + (Len(c.buffer) + Len(data))
                         ELSE s.position
    BY <2>1
  <2>4. Len(c.buffer) \in Nat
    BY <1>1
  <2>5. CASE LoopEnds(t, data)
    <3>1. position(data) = s.position + (Len(c.buffer) + Len(data))
      BY <2>3, <2>5
    <3> HIDE DEF c, s, position
    <3>2. s.position \in Nat /\ s.cursor \in Nat /\ Len(data) \in Nat
      BY <1>2, <1>7
    <3>3. /\ s.position + (Len(c.buffer) + Len(data)) \in Nat
          /\ s.position + (Len(c.buffer) + Len(data)) <= s.cursor + Len(data)
          /\ s.position + Len(c.buffer) = s.cursor =>
               s.position + (Len(c.buffer) + Len(data)) = s.cursor + Len(data)
      BY <2>2, <2>4, <3>2, Advance
    <3>4. s.faulted = FALSE => position(data) = s.cursor + Len(data)
      BY <2>2, <3>1, <3>3
    <3> QED BY <3>1, <3>3, <3>4
  <2>6. CASE ~LoopEnds(t, data)
    <3>1. position(data) = s.position
      BY <2>3, <2>6
    <3>2. s.position <= s.cursor + Len(data)
      <4> HIDE DEF c, s
      <4> QED BY <1>2, <1>7, <2>2, <2>4, Advance
    <3> HIDE DEF c, s, position
    <3> QED BY <1>2, <2>6, <3>1, <3>2
  <2> QED BY <2>5, <2>6
<1>15. position(data) \in Index
  <2> HIDE DEF position
  <2> QED BY <1>2, <1>7, <1>13, <1>14, ReadAssumption DEF Index
<1>16. stream(data) \in Seq(Byte) /\ status(data) \in {"running", "returned", "short"}
  BY <1>1, <1>8, EmptySeq DEF CallState
<1>17. call2 \in CallState
  <2> HIDE DEF status
  <2> QED BY <1>1, <1>8, <1>16 DEF CallState
<1>18. new \in HandleState
  <2> HIDE DEF stream, position
  <2> QED BY <1>1, <1>13, <1>15, <1>16 DEF HandleState
<1>19. TypeOK'
  <2> HIDE DEF call2, new
  <2> QED BY <1>9, <1>17, <1>18 DEF IInv, TypeOK, ReadStep
<1> HIDE DEF call2, new
<1>20. HandleSound(new)
  <2>1. ASSUME s.faulted = FALSE
        PROVE  /\ stream(data) = s.stream \o data
               /\ new.cursor = new.origin + Len(new.stream)
    <3>1. stream(data) = s.stream \o data
      BY <2>1
    <3>2. s.cursor = s.origin + Len(s.stream)
      BY <1>3, <2>1 DEF HandleSound
    <3>3. Len(new.stream) = Len(s.stream) + Len(data)
      BY <1>8, <1>12, <3>1
    <3>4. new.cursor = s.cursor + Len(data) /\ new.origin = s.origin
      BY <1>12
    <3> HIDE DEF s, stream
    <3> QED BY <1>2, <1>7, <3>1, <3>2, <3>3, <3>4
  <2>2. ASSUME s.faulted = FALSE, NEW other \in Contents, s.seen = {other}
        PROVE  IsAt(new.stream, other, new.origin)
    <3>1. other = content
      BY <2>2
    <3>2. IsAt(s.stream, content, s.origin) /\ s.cursor = s.origin + Len(s.stream)
      BY <1>3, <2>2, <3>1 DEF HandleSound
    <3>3. IsAt(s.stream \o data, content, s.origin)
      BY <1>1, <1>2, <1>5, <1>6, <3>2, AppendIsAt
    <3> QED BY <1>12, <2>1, <2>2, <3>1, <3>3
  <2>3. new.position <= new.cursor
    <3> HIDE DEF position
    <3> QED BY <1>12, <1>14
  <2>4. s.seen # {}
    BY <1>5
  <2> QED BY <1>3, <1>12, <2>1, <2>2, <2>3, <2>4 DEF HandleSound
<1>21. Idle(h)'
  <2>1. SUFFICES ASSUME ~Streams(t, h)', new.faulted = FALSE PROVE new.position = new.cursor
    BY <1>10 DEF Idle
  <2>2. LoopEnds(t, data)
    BY <1>1, <1>10, <1>11, <2>1 DEF Streams, Uses, Running
  <2> HIDE DEF position
  <2> QED BY <1>12, <1>14, <2>1, <2>2
<1>22. CallSound(call2, new)
  <2>1. Len(c.buffer) + Len(data) <= c.size
    <3> HIDE DEF c
    <3> QED BY <1>1, <1>2, <1>7
  <2>2. /\ status(data) \in {"running", "returned"}
        /\ LoopEnds(t, data) <=> status(data) = "returned"
    BY <1>1
  <2>3. status(data) = "running" => Len(call2.buffer) < call2.size /\ data # <<>>
    <3>1. ~LoopEnds(t, data) => Len(c.buffer) + Len(data) # c.size /\ data # <<>>
      BY DEF LoopEnds
    <3>2. Len(c.buffer) + Len(data) \in Nat /\ c.size \in Nat
      BY <1>1, <1>2, <1>7
    <3>3. Len(call2.buffer) = Len(c.buffer) + Len(data) /\ call2.size = c.size
      BY <1>8, <1>11
    <3> HIDE DEF status, c
    <3>4. Len(c.buffer) + Len(data) # c.size => Len(c.buffer) + Len(data) < c.size
      BY <2>1, <3>2
    <3>5. status(data) = "running" => ~LoopEnds(t, data)
      BY <2>2
    <3> QED BY <3>1, <3>3, <3>4, <3>5
  <2>4. ASSUME NEW other \in Contents, new.seen = {other}, EndsShort(call2)
        PROVE  Len(other) <= call2.offset + Len(call2.buffer)
    <3>1. other = content
      BY <1>12, <2>4
    <3>2. LoopEnds(t, data) /\ Len(c.buffer) + Len(data) < c.size
      BY <1>8, <1>11, <2>2, <2>4 DEF EndsShort
    <3>3. data = <<>>
      BY <1>1, <1>2, <1>7, <3>2 DEF LoopEnds
    <3>4. Len(content) <= s.cursor /\ s.cursor = c.offset + Len(c.buffer)
      BY <1>3, <1>7, <3>3 DEF StreamSound
    <3> QED BY <1>2, <1>8, <1>11, <3>1, <3>3, <3>4, EmptySeq
  <2>5. status(data) = "running" => StreamSound(call2, new)
    <3>1. status(data) = "running" => new.position = s.position
      BY <1>12, <2>2
    <3>2. StreamSound(c, s)
      BY <1>3
    <3>3. Len(c.buffer) \in Nat
      BY <1>1
    <3>4. Len(call2.buffer) = Len(c.buffer) + Len(data) /\ call2.offset = c.offset
      BY <1>8, <1>11
    <3>5. new.cursor = s.cursor + Len(data) /\ new.faulted = s.faulted
      BY <1>12
    <3> HIDE DEF status, position, c, s
    <3>6. /\ c.offset \in Nat /\ s.position \in Nat /\ s.cursor \in Nat /\ Len(data) \in Nat
      BY <1>2, <1>7
    <3>7. new.cursor = call2.offset + Len(call2.buffer)
      BY <3>2, <3>3, <3>4, <3>5, <3>6 DEF StreamSound
    <3>8. s.position + Len(call2.buffer) <= new.cursor
      BY <3>2, <3>3, <3>4, <3>5, <3>6 DEF StreamSound
    <3>9. new.faulted = FALSE => s.position + Len(call2.buffer) = new.cursor
      BY <3>2, <3>3, <3>4, <3>5, <3>6 DEF StreamSound
    <3> QED BY <3>1, <3>7, <3>8, <3>9 DEF StreamSound
  <2> HIDE DEF status
  <2> QED BY <1>3, <1>11, <1>12, <2>2, <2>3, <2>4, <2>5 DEF CallSound
<1> HIDE DEF s, c
<1> QED BY <1>1, <1>10, <1>11, <1>12, <1>19, <1>20, <1>21, <1>22, StreamChanges DEF s

-----------------------------------------------------------------------------
LEMMA NextSound ==
  ASSUME IInv, [Next]_vars
  PROVE  IInv'
<1>1. CASE UNCHANGED vars
  BY <1>1 DEF vars, IInv, TypeOK, Idle, CallsSound, Alone, Streams, Uses, Running
<1>2. ASSUME NEW h \in Handles, NEW o \in Objects, NEW flags \in SUBSET FileFlags,
             OpenFile(h, o, flags)
      PROVE  IInv'
  BY <1>2, OpenFileSound
<1>3. ASSUME NEW h \in Handles, Stat(h) PROVE IInv'
  BY <1>3, StatSound
<1>4. ASSUME NEW h \in Handles, GetReader(h) PROVE IInv'
  BY <1>4, GetReaderSound
<1>5. ASSUME NEW h \in Handles, OpenThrows(h) PROVE IInv'
  BY <1>5, OpenThrowsSound
<1>6. ASSUME NEW h \in Handles, NEW offset \in 0 .. MaxIndex, Seek(h, offset) PROVE IInv'
  BY <1>6, SeekSound
<1>7. ASSUME NEW h \in Handles, Close(h) PROVE IInv'
  BY <1>7, CloseSound
<1>8. ASSUME NEW h \in Handles, Destroy(h) PROVE IInv'
  BY <1>8, DestroySound
<1>9. ASSUME NEW t \in Threads, NEW h \in Handles, NEW size \in 1 .. MaxStream,
             StartRead(t, h, size)
      PROVE  IInv'
  BY <1>9, StartReadSound
<1>10. ASSUME NEW t \in Threads, NEW h \in Handles, NEW size \in 1 .. MaxStream,
              NEW offset \in 0 .. MaxIndex, StartReadAt(t, h, size, offset)
       PROVE  IInv'
  BY <1>10, StartReadAtSound
<1>11. ASSUME NEW t \in Threads, ReadAnswers(t) PROVE IInv'
  BY <1>11, ReadStepSound, ReadAtStepSound DEF ReadAnswers
<1>12. ASSUME NEW t \in Threads, ReadFails(t) PROVE IInv'
  BY <1>12, ReadThrowsSound, ReadAtThrowsSound DEF ReadFails
<1>13. ASSUME NEW o \in Objects, NEW content \in Contents \cup {NoObject}, Replace(o, content)
       PROVE  IInv'
  BY <1>13, ReplaceSound
<1> QED BY <1>1, <1>2, <1>3, <1>4, <1>5, <1>6, <1>7, <1>8, <1>9, <1>10, <1>11, <1>12, <1>13
    DEF Next

THEOREM Invariant == Spec => []IInv
<1>1. Init => IInv
  BY InitSound
<1>2. IInv /\ [Next]_vars => IInv'
  BY NextSound
<1> QED BY <1>1, <1>2, PTL DEF Spec

-----------------------------------------------------------------------------
(* What the invariant says to the callers of Read. *)

\* Read, Seek and OpenFile keep every field in its type: in particular position
\* and the reader's cursor never pass NumericLimits<idx_t>::Maximum().
THEOREM TypeCorrect == Spec => []TypeOK
<1>1. IInv => TypeOK
  BY DEF IInv
<1> QED BY <1>1, Invariant, PTL

\* A positional Read of an object that nobody replaced returns the bytes at its
\* offset, all of them or none, and fails only at the object's end, for any
\* number of threads and handles.
THEOREM PositionalReadsExact == Spec => []PositionalReadExact
<1>1. IInv => PositionalReadExact
  <2>1. SUFFICES ASSUME IInv, NEW t \in Threads, NEW content \in Contents,
                        call[t].kind = "readAt", handle[call[t].handle].seen = {content}
                 PROVE  /\ call[t].status = "returned" => Len(call[t].buffer) = call[t].size
                        /\ IsAt(call[t].buffer, content, call[t].offset)
                        /\ call[t].status = "short" =>
                             call[t].offset + call[t].size > handle[call[t].handle].size
    BY DEF PositionalReadExact
  <2> DEFINE c == call[t]
             s == handle[c.handle]
  <2>2. c.handle \in Handles /\ CallSound(c, s) /\ c \in CallState /\ HandleSound(s)
    BY <2>1 DEF IInv, CallsSound, TypeOK
  <2>3. c.offset \in Nat /\ c.size \in Nat /\ Len(c.buffer) \in Nat
    BY <2>2, ReadAssumption, LenProperties DEF CallState, Index
  <2>4. s.size = Len(content)
    BY <2>1, <2>2 DEF HandleSound
  <2>5. /\ c.status = "returned" => Len(c.buffer) = c.size
        /\ IsAt(c.buffer, content, c.offset)
        /\ c.status = "short" => Len(content) <= c.offset + Len(c.buffer)
                                 /\ Len(c.buffer) < c.size
    BY <2>1, <2>2 DEF CallSound, EndsShort
  <2>6. Len(content) \in Nat
    BY ReadAssumption, LenProperties
  <2> HIDE DEF c, s
  <2>7. c.status = "short" => c.offset + c.size > s.size
    BY <2>3, <2>4, <2>5, <2>6
  <2> QED BY <2>5, <2>7 DEF c, s
<1> QED BY <1>1, Invariant, PTL

\* Sequential Reads and Seeks of a handle deliver its object as one stream, whose
\* end is where SeekPosition says, until the reader throws.
THEOREM StreamsContinuous == Spec => []StreamContinuous
<1>1. IInv => StreamContinuous
  <2>1. SUFFICES ASSUME IInv, NEW h \in Handles, handle[h].faulted = FALSE
                 PROVE  /\ \A content \in Contents : handle[h].seen = {content} =>
                             IsAt(handle[h].stream, content, handle[h].origin)
                        /\ (\A t \in Threads : ~Streams(t, h)) =>
                             handle[h].position = handle[h].origin + Len(handle[h].stream)
    <3>1. IInv => \A h \in Handles : handle[h].faulted \in BOOLEAN
      BY DEF IInv, TypeOK, HandleState
    <3> QED BY <3>1 DEF StreamContinuous
  <2>2. HandleSound(handle[h]) /\ Idle(h)
    BY <2>1 DEF IInv
  <2> QED BY <2>1, <2>2 DEF HandleSound, Idle
<1> QED BY <1>1, Invariant, PTL

\* A sequential Read that returns fewer bytes than asked is at the object's end.
THEOREM ShortReadsEnd == Spec => []ShortReadIsEnd
<1>1. IInv => ShortReadIsEnd
  BY DEF IInv, CallsSound, NoCall, CallSound, EndsShort, ShortReadIsEnd
<1> QED BY <1>1, Invariant, PTL
=============================================================================
