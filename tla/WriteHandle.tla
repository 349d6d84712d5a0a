---------------------------- MODULE WriteHandle ----------------------------
(***************************************************************************)
(* OpenDALWriteHandle and the writing half of OpenDALFileSystem::OpenFile  *)
(* (opendal_file_system.cpp), for any number of handles on the objects of  *)
(* one backend.                                                            *)
(*                                                                         *)
(* Every call to the OpenDAL binding is one step, so that the calls of     *)
(* different threads interleave: OpenFile is op->Exists, then op->Write of *)
(* an empty object if the constructor is told to, then op->GetWriter.  A   *)
(* call returns or throws; one that throws may still have been applied by  *)
(* the service (its answer was lost or came after the timeout).  A call    *)
(* that throws before it reaches the service changes nothing and is not a  *)
(* step.                                                                   *)
(***************************************************************************)
EXTENDS Contents, OpenOptions

CONSTANTS
  Objects,          \* object paths
  Handles,          \* identities of OpenDALWriteHandle objects
  Byte,             \* what buffers and objects are made of
  Chunks,           \* the buffers callers write
  InitialContents,  \* what objects may hold before anything is opened
  StreamedObjects,  \* objects whose backend may show bytes before Close
  MaxSize,          \* bound: bytes one writer takes
  NoObject,         \* content of a path with no object
  NoPath,           \* path of a handle that does not exist
  NoWriter          \* writer of a handle before GetWriter and after reset()

ASSUME ContentAssumption ==
  /\ Chunks \subseteq Seq(Byte)
  /\ \A c \in Chunks : c # <<>>
  /\ InitialContents \subseteq Seq(Byte)
  /\ MaxSize \in Nat
  /\ StreamedObjects \subseteq Objects

ASSUME SentinelAssumption ==
  /\ NoObject \notin Seq(Byte)
  /\ NoWriter \notin Seq(Byte)

VARIABLES
  store,     \* the service: the visible content of each object
  process,   \* "running", "killed", or "aborted" by std::terminate
  handle     \* the OpenDALWriteHandle objects

vars == <<store, process, handle>>

Phases == {"none", "clearing", "opening", "open"}

(***************************************************************************)
(* A handle: how far OpenFile got; the members path, writer (the bytes the *)
(* OpenDAL writer took), position and closed; and two history fields:      *)
(* intact, the bytes acknowledged before any Write threw, each placed at   *)
(* the offset its caller named, and failed, whether a Write threw.         *)
(***************************************************************************)
HandleState ==
  [phase : Phases, path : Objects \cup {NoPath},
   writer : Seq(Byte) \cup {NoWriter}, position : Nat, closed : BOOLEAN,
   intact : Seq(Byte), failed : BOOLEAN]

NoHandle ==
  [phase |-> "none", path |-> NoPath, writer |-> NoWriter, position |-> 0,
   closed |-> FALSE, intact |-> <<>>, failed |-> FALSE]

TypeOK ==
  /\ store \in [Objects -> Seq(Byte) \cup {NoObject}]
  /\ process \in {"running", "killed", "aborted"}
  /\ handle \in [Handles -> HandleState]

Init ==
  /\ store \in [Objects -> InitialContents \cup {NoObject}]
  /\ process = "running"
  /\ handle = [h \in Handles |-> NoHandle]

-----------------------------------------------------------------------------
\* The store once content was written to o, and what it may be when the call
\* that writes it throws.
Stored(o, content) == [store EXCEPT ![o] = content]
MaybeStored(o, content) == {store, Stored(o, content)}

\* EnsureOpen, for a handle that was constructed.
IsOpen(h) == handle[h].phase = "open" /\ ~handle[h].closed

\* OpenFile up to the constructor: op->Exists answers, and the decision to
\* construct a write handle, clearing the object first or not, is taken on it.
OpenFile(h, o, flags) ==
  LET decision == OpenDecision(flags, store[o] # NoObject) IN
  /\ handle[h].phase = "none"
  /\ decision \in {"init", "keep"}
  /\ handle' = [handle EXCEPT
       ![h] = [NoHandle EXCEPT
                 !.phase = IF decision = "init" THEN "clearing" ELSE "opening",
                 !.path = o]]
  /\ UNCHANGED <<store, process>>

\* The constructor's op->Write(path, ""), when initialize_empty_p.
InitializeEmpty(h) ==
  /\ handle[h].phase = "clearing"
  /\ store' = Stored(handle[h].path, <<>>)
  /\ handle' = [handle EXCEPT ![h].phase = "opening"]
  /\ UNCHANGED process

\* The constructor's op->GetWriter(path).
GetWriter(h) ==
  /\ handle[h].phase = "opening"
  /\ handle' = [handle EXCEPT ![h].phase = "open", ![h].writer = <<>>]
  /\ UNCHANGED <<store, process>>

\* Either call of the constructor throws: OpenFile throws, and there is no
\* handle.
OpenThrows(h) ==
  /\ handle[h].phase \in {"clearing", "opening"}
  /\ IF handle[h].phase = "clearing"
     THEN store' \in MaybeStored(handle[h].path, <<>>)
     ELSE UNCHANGED store
  /\ handle' = [handle EXCEPT ![h] = NoHandle]
  /\ UNCHANGED process

\* Faulty variant of IsSequential: any offset is let through.
AnyOffset(h, offset) == TRUE

\* The test of Write(buffer, size, offset) that lets a write through.
IsSequential(h, offset) == offset = handle[h].position

\* Write returns: the writer took the whole buffer.
Write(h, data, offset) ==
  /\ IsOpen(h)
  /\ IsSequential(h, offset)
  /\ Len(handle[h].writer) + Len(data) <= MaxSize
  /\ handle' = [handle EXCEPT
       ![h].writer = @ \o data,
       ![h].position = @ + Len(data),
       ![h].intact = IF handle[h].failed THEN @ ELSE Overlay(@, offset, data)]
  /\ UNCHANGED <<store, process>>

\* Faulty variant of WriteThrows: position is advanced before the call.
AdvanceThenWriteThrows(h, data, offset) ==
  /\ IsOpen(h)
  /\ IsSequential(h, offset)
  /\ Len(handle[h].writer) + Len(data) <= MaxSize
  /\ \E n \in 0 .. Len(data) :
       handle' = [handle EXCEPT ![h].writer = @ \o SubSeq(data, 1, n),
                                ![h].position = @ + Len(data),
                                ![h].failed = TRUE]
  /\ UNCHANGED <<store, process>>

\* writer->Write throws, having taken some part of the buffer; position is
\* not advanced.
WriteThrows(h, data, offset) ==
  /\ IsOpen(h)
  /\ IsSequential(h, offset)
  /\ Len(handle[h].writer) + Len(data) <= MaxSize
  /\ \E n \in 0 .. Len(data) :
       handle' = [handle EXCEPT ![h].writer = @ \o SubSeq(data, 1, n),
                                ![h].failed = TRUE]
  /\ UNCHANGED <<store, process>>

\* Flush, returning or throwing, and what a backend that writes in place does on
\* its own: the bytes taken so far may become visible.  With other backends
\* Flush changes nothing.
Flush(h) ==
  /\ IsOpen(h)
  /\ handle[h].path \in StreamedObjects
  /\ store' = Stored(handle[h].path, handle[h].writer)
  /\ UNCHANGED <<process, handle>>

\* Close on a handle that is not closed, when writer->Close() returns.
Close(h) ==
  /\ IsOpen(h)
  /\ store' = Stored(handle[h].path, handle[h].writer)
  /\ handle' = [handle EXCEPT ![h].writer = NoWriter, ![h].closed = TRUE]
  /\ UNCHANGED process

\* Faulty variant of CloseThrows: the handle is marked closed, and its writer
\* reset, before writer->Close() is known to return.
ResetThenCloseThrows(h) ==
  /\ IsOpen(h)
  /\ store' \in MaybeStored(handle[h].path, handle[h].writer)
  /\ handle' = [handle EXCEPT ![h].writer = NoWriter, ![h].closed = TRUE]
  /\ UNCHANGED process

\* writer->Close() throws: the handle stays open, with its writer.
CloseThrows(h) ==
  /\ IsOpen(h)
  /\ store' \in MaybeStored(handle[h].path, handle[h].writer)
  /\ UNCHANGED <<process, handle>>

\* Faulty variants of Destroy: without a destructor of its own the base class's
\* Close runs, which leaves the writer alone; and without the test of closed
\* the writer is closed again after reset().
BaseDestroy(h) ==
  /\ handle[h].phase = "open"
  /\ handle' = [handle EXCEPT ![h] = NoHandle]
  /\ UNCHANGED <<store, process>>

CloseAgainDestroy(h) ==
  /\ handle[h].phase = "open"
  /\ store' = Stored(handle[h].path, handle[h].writer)
  /\ handle' = [handle EXCEPT ![h] = NoHandle]
  /\ UNCHANGED process

\* The destructor, whose Close does nothing or returns.
Destroy(h) ==
  /\ handle[h].phase = "open"
  /\ store' = IF handle[h].closed THEN store
              ELSE Stored(handle[h].path, handle[h].writer)
  /\ handle' = [handle EXCEPT ![h] = NoHandle]
  /\ UNCHANGED process

\* The destructor is noexcept: when its Close throws, std::terminate ends the
\* process, and every handle in it.
DestroyThrows(h) ==
  /\ IsOpen(h)
  /\ store' \in MaybeStored(handle[h].path, handle[h].writer)
  /\ process' = "aborted"
  /\ handle' = [g \in Handles |-> NoHandle]

\* RemoveFile, RemoveDirectory or TryRemoveFile on the path, by any thread.
Remove(o) ==
  /\ store' = Stored(o, NoObject)
  /\ UNCHANGED <<process, handle>>

\* The process is killed and its handles are lost with it.
Kill ==
  /\ process' = "killed"
  /\ handle' = [g \in Handles |-> NoHandle]
  /\ UNCHANGED store

Restart ==
  /\ process # "running"
  /\ process' = "running"
  /\ UNCHANGED <<store, handle>>

HandleStep(h) ==
  \/ \E o \in Objects, flags \in SUBSET FileFlags : OpenFile(h, o, flags)
  \/ InitializeEmpty(h)
  \/ GetWriter(h)
  \/ OpenThrows(h)
  \/ \E data \in Chunks, offset \in 0 .. MaxSize :
       Write(h, data, offset) \/ WriteThrows(h, data, offset)
  \/ Flush(h)
  \/ Close(h)
  \/ CloseThrows(h)
  \/ Destroy(h)
  \/ DestroyThrows(h)

Next ==
  \/ /\ process = "running"
     /\ \/ \E h \in Handles : HandleStep(h)
        \/ \E o \in Objects : Remove(o)
        \/ Kill
  \/ Restart

Spec == Init /\ [][Next]_vars

-----------------------------------------------------------------------------
(* What a handle owes its caller. *)

\* Until a Write has thrown, the writer holds exactly what the caller was told
\* was written, every byte at the offset the caller named; after that, those
\* bytes are still there, in front of what failing writes left behind.
\* (The append-only writer behind DuckDB's positional Write.)
DraftIntact ==
  \A h \in Handles : IsOpen(h) =>
    LET s == handle[h] IN
    /\ s.writer # NoWriter
    /\ Extends(s.writer, s.intact)
    /\ ~s.failed => s.writer = s.intact

\* GetFileSize and SeekPosition of a write handle answer position without
\* asking the service: it never counts a byte the writer does not hold, nor
\* omits one that was acknowledged.
ReportedSizeSound ==
  \A h \in Handles : IsOpen(h) =>
    LET s == handle[h] IN
    /\ Len(s.intact) <= s.position /\ s.position <= Len(s.writer)
    /\ ~s.failed => s.position = Len(s.writer)

\* A Close that returns, explicit or in the destructor, has made visible every
\* byte acknowledged on the handle, and nothing else unless a Write threw:
\* the object is as long as GetFileSize said.
DurableOnceClosed(h) ==
  (IsOpen(h) /\ ~IsOpen(h)' /\ process' = "running") =>
    LET s == handle[h] IN
    /\ Extends(store'[s.path], s.intact)
    /\ Len(store'[s.path]) >= s.position
    /\ ~s.failed => store'[s.path] = s.intact

ReturnedCloseIsDurable == [][\A h \in Handles : DurableOnceClosed(h)]_vars

\* An error of the service ends a query, never the process (CONTRIBUTING.md,
\* "Use exceptions for errors that terminate a query"): no handle's noexcept
\* destructor lets the exception of its Close escape.
NeverAborts == process # "aborted"
=============================================================================
