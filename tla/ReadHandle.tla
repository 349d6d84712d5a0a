----------------------------- MODULE ReadHandle -----------------------------
(***************************************************************************)
(* OpenDALReadHandle and the reading half of OpenDALFileSystem::OpenFile   *)
(* (opendal_file_system.cpp): threads that share handles, each with one    *)
(* call in progress, while the objects they read are replaced by others.   *)
(*                                                                         *)
(* A step is one call to the OpenDAL binding.  OpenFile is op->Exists,     *)
(* op->Stat and op->GetReader; Read is a loop of reader.Read calls at the  *)
(* reader's own cursor, and positional Read a loop of reader.ReadAt calls. *)
(* A call to the reader answers some bytes, none at the end of the object, *)
(* or throws.  The bytes are those of any content the object has had since *)
(* Stat: the binding may hold what it fetched earlier, and asks the        *)
(* service for no particular version.                                      *)
(*                                                                         *)
(* DuckDB's contract: positional reads of one handle run in parallel, its  *)
(* sequential Read and Seek do not, and a handle is closed by its owner    *)
(* when no call is using it.                                               *)
(***************************************************************************)
EXTENDS OpenOptions, Naturals, Sequences, FiniteSets

CONSTANTS
  Objects,    \* object paths
  Handles,    \* identities of OpenDALReadHandle objects
  Threads,    \* callers
  Contents,   \* what objects may hold
  MaxIndex,   \* NumericLimits<idx_t>::Maximum()
  MaxStream,  \* NumericLimits<std::streamoff>::Maximum()
  NoObject,   \* content of a path with no object
  NoPath,     \* path of a handle that does not exist
  NoHandle    \* the handle of a thread that has made no call yet

Index == 0 .. MaxIndex  \* idx_t
Byte == UNION {{c[i] : i \in 1 .. Len(c)} : c \in Contents}

ASSUME ReadAssumption ==
  /\ MaxIndex \in Nat /\ MaxStream \in 1 .. MaxIndex
  /\ \A c \in Contents : c \in Seq(Byte) /\ Len(c) <= MaxIndex
  /\ NoObject \notin Contents
  /\ NoHandle \notin Handles

VARIABLES
  store,    \* the service: the content of each object
  handle,   \* the OpenDALReadHandle objects
  call      \* each thread's latest read

vars == <<store, handle, call>>

(***************************************************************************)
(* A handle: how far OpenFile got; the members path, metadata (its file    *)
(* size), position and closed; the reader's cursor; and history fields:    *)
(* seen, the contents its object has had since Stat; origin, where the     *)
(* last Seek went, stream, what sequential reads have delivered since, and *)
(* faulted, whether one of them threw.                                     *)
(***************************************************************************)
HandleState ==
  [phase : {"none", "statting", "opening", "open"}, path : Objects \cup {NoPath},
   size : Index, position : Index, cursor : Index, closed : BOOLEAN,
   seen : SUBSET Contents, origin : Index, stream : Seq(Byte),
   faulted : BOOLEAN]

Unopened ==
  [phase |-> "none", path |-> NoPath, size |-> 0, position |-> 0, cursor |-> 0,
   closed |-> FALSE, seen |-> {}, origin |-> 0, stream |-> <<>>,
   faulted |-> FALSE]

(***************************************************************************)
(* A call of Read: sequential ("read") or positional ("readAt"), the       *)
(* offset it names or where the reader's cursor was, the bytes buffered so *)
(* far, and how it ended.  A positional read that ends short throws        *)
(* (FileSystem::Read with a location), a sequential one returns; a call    *)
(* that threw for another reason leaves no result.                         *)
(***************************************************************************)
CallState ==
  [kind : {"none", "read", "readAt"}, handle : Handles \cup {NoHandle},
   status : {"running", "returned", "short"},
   offset : Index, size : Index, buffer : Seq(Byte)]

NoCall ==
  [kind |-> "none", handle |-> NoHandle, status |-> "returned", offset |-> 0,
   size |-> 0, buffer |-> <<>>]

\* In particular position and cursor never leave the range of idx_t.
TypeOK ==
  /\ store \in [Objects -> Contents \cup {NoObject}]
  /\ handle \in [Handles -> HandleState]
  /\ call \in [Threads -> CallState]

Init ==
  /\ store \in [Objects -> Contents \cup {NoObject}]
  /\ handle = [h \in Handles |-> Unopened]
  /\ call = [t \in Threads |-> NoCall]

-----------------------------------------------------------------------------
IsOpen(h) == handle[h].phase = "open" /\ ~handle[h].closed
Running(t) == call[t].status = "running"
Uses(t, h) == Running(t) /\ call[t].handle = h
Streams(t, h) == Uses(t, h) /\ call[t].kind = "read"

\* What one call of the reader may answer at offset when room bytes are wanted:
\* at least one byte, unless the content ends there.
Answers(content, offset, room) ==
  LET left == IF Len(content) > offset THEN Len(content) - offset ELSE 0
      most == IF left < room THEN left ELSE room
  IN  {SubSeq(content, offset + 1, offset + n) :
         n \in IF most = 0 THEN {0} ELSE 1 .. most}

\* Faulty variants of the loops: reads are made at the call's offset, not past
\* what was read; what was asked for is counted, not what was read; the first
\* answer ends the loop; an empty one does not.
SameOffset(t) == call[t].offset
TotalAsked(t, data) == call[t].size
EndsAtOnce(t, data) == TRUE
EndsWhenFull(t, data) == Len(call[t].buffer) + Len(data) = call[t].size

\* Where ReadAtFromOpenDAL asks next, what either loop has read once the reader
\* answers data, and whether it ends there.
NextOffset(t) == call[t].offset + Len(call[t].buffer)
TotalRead(t, data) == Len(call[t].buffer) + Len(data)
LoopEnds(t, data) ==
  data = <<>> \/ Len(call[t].buffer) + Len(data) = call[t].size

-----------------------------------------------------------------------------
(* OpenFile *)

\* op->Exists answers, and the options allow reading.
OpenFile(h, o, flags) ==
  /\ handle[h].phase = "none"
  /\ OpenDecision(flags, store[o] # NoObject) = "read"
  /\ handle' = [handle EXCEPT ![h].phase = "statting", ![h].path = o]
  /\ UNCHANGED <<store, call>>

\* op->Stat answers, and its metadata is kept for the handle's lifetime.
Stat(h) ==
  /\ handle[h].phase = "statting"
  /\ LET content == store[handle[h].path] IN
       /\ content # NoObject
       /\ handle' = [handle EXCEPT ![h].phase = "opening",
                                   ![h].size = Len(content),
                                   ![h].seen = {content}]
  /\ UNCHANGED <<store, call>>

\* op->GetReader: a reader whose cursor is at the start.
GetReader(h) ==
  /\ handle[h].phase = "opening"
  /\ handle' = [handle EXCEPT ![h].phase = "open"]
  /\ UNCHANGED <<store, call>>

\* Either call throws, Stat also because the object has gone since Exists.
OpenThrows(h) ==
  /\ handle[h].phase \in {"statting", "opening"}
  /\ handle' = [handle EXCEPT ![h] = Unopened]
  /\ UNCHANGED <<store, call>>

-----------------------------------------------------------------------------
(* Read(buffer, size): sequential *)

\* The checks of Read before its loop.
StartRead(t, h, size) ==
  /\ IsOpen(h) /\ ~Running(t)
  /\ \A other \in Threads : ~Streams(other, h)
  /\ handle[h].position <= MaxStream
  /\ size \in 1 .. MaxStream
  /\ call' = [call EXCEPT ![t] = [kind |-> "read", handle |-> h,
                                  status |-> "running",
                                  offset |-> handle[h].cursor,
                                  size |-> size, buffer |-> <<>>]]
  /\ UNCHANGED <<store, handle>>

\* One round of ReadFromOpenDAL: reader.Read answers; the loop ends when the
\* buffer is full or the answer is empty, and Read then advances position.
ReadStep(t) ==
  LET h == call[t].handle
      room == call[t].size - Len(call[t].buffer)
  IN
  /\ Streams(t, h)
  /\ \E content \in handle[h].seen :
     \E data \in Answers(content, handle[h].cursor, room) :
       /\ call' = [call EXCEPT
            ![t].buffer = @ \o data,
            ![t].status = IF LoopEnds(t, data) THEN "returned" ELSE @]
       /\ handle' = [handle EXCEPT
            ![h].cursor = @ + Len(data),
            ![h].stream = IF handle[h].faulted THEN <<>> ELSE @ \o data,
            ![h].position = IF LoopEnds(t, data) THEN @ + TotalRead(t, data) ELSE @]
  /\ UNCHANGED store

\* reader.Read throws out of the loop: what earlier rounds took is lost, and
\* position stays where the call began.
ReadThrows(t) ==
  /\ Streams(t, call[t].handle)
  /\ call' = [call EXCEPT ![t] = NoCall]
  /\ handle' = [handle EXCEPT ![call[t].handle].faulted = TRUE,
                              ![call[t].handle].stream = <<>>]
  /\ UNCHANGED store

\* Seek, and Reset which seeks to 0.
Seek(h, offset) ==
  /\ IsOpen(h)
  /\ \A t \in Threads : ~Streams(t, h)
  /\ offset <= MaxStream
  /\ handle' = [handle EXCEPT ![h].cursor = offset, ![h].position = offset,
                              ![h].origin = offset, ![h].stream = <<>>,
                              ![h].faulted = FALSE]
  /\ UNCHANGED <<store, call>>

-----------------------------------------------------------------------------
(* Read(buffer, size, offset): positional *)

StartReadAt(t, h, size, offset) ==
  /\ IsOpen(h) /\ ~Running(t)
  /\ size \in 1 .. MaxStream
  /\ call' = [call EXCEPT ![t] = [kind |-> "readAt", handle |-> h,
                                  status |-> "running", offset |-> offset,
                                  size |-> size, buffer |-> <<>>]]
  /\ UNCHANGED <<store, handle>>

\* One round of ReadAtFromOpenDAL, whose offset must not wrap: reader.ReadAt
\* answers, and a loop that ends with a short buffer makes FileSystem::Read throw.
ReadAtStep(t) ==
  LET h == call[t].handle
      room == call[t].size - Len(call[t].buffer)
  IN
  /\ Uses(t, h) /\ call[t].kind = "readAt"
  /\ call[t].offset <= MaxIndex - Len(call[t].buffer)
  /\ \E content \in handle[h].seen :
     \E data \in Answers(content, NextOffset(t), room) :
       call' = [call EXCEPT
         ![t].buffer = @ \o data,
         ![t].status = IF ~LoopEnds(t, data) THEN @
                       ELSE IF TotalRead(t, data) = call[t].size THEN "returned"
                       ELSE "short"]
  /\ UNCHANGED <<store, handle>>

\* reader.ReadAt throws, or the check of the offset does.
ReadAtThrows(t) ==
  /\ Running(t) /\ call[t].kind = "readAt"
  /\ call' = [call EXCEPT ![t] = NoCall]
  /\ UNCHANGED <<store, handle>>

-----------------------------------------------------------------------------
\* Close of a handle no call is using.
Close(h) ==
  /\ IsOpen(h)
  /\ \A t \in Threads : ~Uses(t, h)
  /\ handle' = [handle EXCEPT ![h].closed = TRUE]
  /\ UNCHANGED <<store, call>>

\* The destructor; its thread's results are forgotten with it.
Destroy(h) ==
  /\ handle[h].phase = "open"
  /\ \A t \in Threads : ~Uses(t, h)
  /\ handle' = [handle EXCEPT ![h] = Unopened]
  /\ call' = [t \in Threads |-> IF call[t].handle = h THEN NoCall ELSE call[t]]
  /\ UNCHANGED store

\* Another handle, process or client replaces the object, or removes it.
Replace(o, content) ==
  /\ store' = [store EXCEPT ![o] = content]
  /\ handle' = [h \in Handles |->
       IF handle[h].path = o /\ handle[h].phase \in {"opening", "open"}
       THEN [handle[h] EXCEPT !.seen = @ \cup ({content} \ {NoObject})]
       ELSE handle[h]]
  /\ UNCHANGED call

\* The reader answers the round of its loop that t is in, or throws.
ReadAnswers(t) == ReadStep(t) \/ ReadAtStep(t)
ReadFails(t) == ReadThrows(t) \/ ReadAtThrows(t)

Next ==
  \/ \E h \in Handles :
       \/ \E o \in Objects, flags \in SUBSET FileFlags : OpenFile(h, o, flags)
       \/ Stat(h)
       \/ GetReader(h)
       \/ OpenThrows(h)
       \/ \E offset \in 0 .. MaxIndex : Seek(h, offset)
       \/ Close(h)
       \/ Destroy(h)
  \/ \E t \in Threads, h \in Handles, size \in 1 .. MaxStream :
       \/ StartRead(t, h, size)
       \/ \E offset \in 0 .. MaxIndex : StartReadAt(t, h, size, offset)
  \/ \E t \in Threads : ReadAnswers(t) \/ ReadFails(t)
  \/ \E o \in Objects, content \in Contents \cup {NoObject} : Replace(o, content)

Spec == Init /\ [][Next]_vars

\* A call of the reader answers in the end, unless it throws: the timeout layer
\* bounds each attempt and the retry layer bounds the attempts.  No call has to
\* throw: a loop that the reader's answers do not end goes on.
FairSpec == Spec /\ \A t \in Threads : WF_vars(ReadAnswers(t))

-----------------------------------------------------------------------------
(* What the reader of an object that nobody replaced relies on. *)

\* data are the bytes of content at offset.
IsAt(data, content, offset) ==
  /\ offset + Len(data) <= Len(content) \/ data = <<>>
  /\ \A i \in 1 .. Len(data) : data[i] = content[offset + i]

\* A positional read returns all the bytes asked for, the bytes at its offset,
\* however reads and seeks of other threads interleave with its rounds; and it
\* fails for want of bytes only when the object, whose size the handle
\* reported, ends before them.
PositionalReadExact ==
  \A t \in Threads, content \in Contents :
    (call[t].kind = "readAt" /\ handle[call[t].handle].seen = {content}) =>
      LET c == call[t] IN
      /\ c.status = "returned" => Len(c.buffer) = c.size
      /\ IsAt(c.buffer, content, c.offset)
      /\ c.status = "short" => c.offset + c.size > handle[c.handle].size

\* Sequential reads deliver the object from the last Seek on, each byte once and
\* in order, and SeekPosition is the place of the next byte between two reads;
\* until one throws, which leaves position behind the reader's cursor.
StreamContinuous ==
  \A h \in Handles : (IsOpen(h) /\ ~handle[h].faulted) =>
    LET s == handle[h] IN
    /\ \A content \in Contents : s.seen = {content} =>
         IsAt(s.stream, content, s.origin)
    /\ (\A t \in Threads : ~Streams(t, h)) =>
         s.position = s.origin + Len(s.stream)

\* A sequential read that returns fewer bytes than asked has come to the end of
\* the object: DuckDB takes a short count for the end of the file.
ShortReadIsEnd ==
  \A t \in Threads, content \in Contents :
    (/\ call[t].kind = "read" /\ call[t].status = "returned"
     /\ Len(call[t].buffer) < call[t].size
     /\ handle[call[t].handle].seen = {content}) =>
      Len(content) <= call[t].offset + Len(call[t].buffer)

\* Every read comes to an end, the ones at or past the end of the object too.
EveryReadEnds == \A t \in Threads : Running(t) ~> ~Running(t)
=============================================================================
