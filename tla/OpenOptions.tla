---------------------------- MODULE OpenOptions ----------------------------
(***************************************************************************)
(* What OpenDALFileSystem::OpenFile makes of the flags DuckDB passes:      *)
(* OpenDALOpenOptions (opendal_open_options.cpp) and the decision taken    *)
(* once op->Exists has answered.  Pure operators, no state.                *)
(***************************************************************************)

\* The flags of DuckDB's FileOpenFlags that the extension looks at.
FileFlags == {"READ", "WRITE", "FILE_CREATE", "FILE_CREATE_NEW", "APPEND",
              "NULL_IF_NOT_EXISTS"}

\* The constructor OpenDALOpenOptions(FileOpenFlags).
OptionsOf(flags) ==
  [read     |-> "READ" \in flags,
   write    |-> "WRITE" \in flags,
   create   |-> "FILE_CREATE" \in flags \/ "FILE_CREATE_NEW" \in flags,
   truncate |-> "FILE_CREATE_NEW" \in flags,
   append   |-> "APPEND" \in flags]

\* OpenDALOpenOptions::IsValid: one access mode, and nothing that changes the
\* object unless it is opened for writing; appending is not supported.
IsValid(options) ==
  /\ options.read \/ options.write
  /\ ~(options.read /\ options.write)
  /\ (options.create \/ options.truncate \/ options.append) => options.write
  /\ ~options.append

\* What OpenFile does with the answer of op->Exists: throw on the options,
\* return a null handle, throw on the missing object, build a read handle, or
\* build a write handle that first writes an empty object ("init") or that
\* keeps what is there until it is closed ("keep").
OpenDecision(flags, exists) ==
  LET options == OptionsOf(flags) IN
  CASE ~IsValid(options) -> "invalid"
    [] IsValid(options) /\ ~exists /\ ~options.create ->
         IF "NULL_IF_NOT_EXISTS" \in flags THEN "null" ELSE "missing"
    [] IsValid(options) /\ (exists \/ options.create) /\ options.read -> "read"
    [] IsValid(options) /\ (exists \/ options.create) /\ ~options.read ->
         IF ~exists \/ options.truncate THEN "init" ELSE "keep"
=============================================================================
