# A TLA+ model of duckdb-opendal-filesystem

`duckdb_opendalfs` is a DuckDB extension that makes the storage services of Apache OpenDAL a DuckDB
file system. This directory holds TLA+ modules that model it, TLC configurations that check them on
small instances, and theorems that TLAPS proves for every instance. Paths below are relative to the
repository; C++ files are in `src/`.

Contents: [the system](#the-system) · [what is hard](#what-is-hard) · [modules](#modules) ·
[runs](#runs) · [fairness](#fairness) · [proofs](#proofs) · [findings](#findings) ·
[not modelled](#not-modelled) · [plan](#plan)

## The system

DuckDB calls a `FileSystem` from many threads. The extension answers by building, for every path, an
OpenDAL *operator* (a service, its options, the layers around it) and by wrapping OpenDAL's readers and
writers in file handles. It keeps little state; nearly all of it is in the handles, in the settings,
and in the services, which other clients change too.

| component | state | operations | it is correct if |
|---|---|---|---|
| open options (`opendal_open_options.cpp`, `OpenFile`) | none | flags and the answer of `Exists` to: error, null, read handle, write handle, cleared or not | an object is never changed by an open that may not write |
| write handle (`OpenDALWriteHandle`) | `writer`, `position`, `closed` | construct (empty write, `GetWriter`), `Write` at the position or at an offset, `Flush`, `Close`, destructor | what was acknowledged is published, whole, when `Close` returns, and nothing else is |
| read handle (`OpenDALReadHandle`) | `reader` with its cursor, `position`, `metadata`, `closed` | construct (`Stat`, `GetReader`), sequential and positional `Read`, `Seek`, `Close` | the bytes are the object's, and a short read is its end |
| removal of many (`RemoveFiles`, `opendal_remove_utils.cpp`) | groups of paths, one per operator | group, then `RemoveAll` group by group | only what was named goes, by its own operator, after all was validated |
| move (`MoveFile`) | the bytes in flight | rename, or read, write and remove | the object is never lost and lands where the target names |
| settings (`duckdb_opendalfs_extension.cpp`, `opendal_layer_options.cpp`) | the settings in force, kept by DuckDB | checks of `SET`, `FromSettings` | no operator is built from values that make no sense, or that nobody set |
| layers (`ToOperatorOptions`) | OpenDAL's timers and counters | one call through timeout and retry | a call makes its attempts in bounded time and ends |
| URIs (`opendal_uri.cpp`, `opendal_path.cpp`) and secret types and scopes (`opendal_path.hpp`, `opendal_path.cpp`, `opendal_secret.cpp`) | none | `TryParse`, `Parse`, `Apply`, `OpenDALSecretTypeName`, `DefaultScopes` | two URIs are one object only if their decoded texts spell the same, and secrets are found |
| operator options (`CreateOperatorConfig`, `CreateOpenDALSecret`) | DuckDB's secrets, which a transaction sees as they were when it began | merge of the file system's options, the URI's and the secret's | a URI reaches one object throughout a transaction, and another URI's only if a secret made for one of them says so |
| queries and directories (`FileExists`, `DirectoryExists`, `CreateDirectory`, `ListFiles`, `Stats`, ...) | none, but a listing while its callbacks run | one call of the service each | the answers agree with what the caller has found and done; a listing tells of each entry once |

How they interact: every operation parses its URI, looks up a secret, reads the settings and builds an
operator of its own (`CreateOperator`, `opendal_file_system.cpp:100`); a handle keeps its operator, so
later settings and secrets do not reach it. `ListFiles` calls back into
DuckDB for every entry, which may then do anything with the directory. `RemoveFiles` looks secrets up once per path and reads the
settings once per group. Handles share nothing with each other but the service. There are no locks in
the extension: what serialises calls on one handle is DuckDB's contract.

## What is hard

`PROJECT.json` lists every hazard at its line. In short:

* *Interleaving.* `Exists`, the empty write and `GetWriter` are three calls; so are `Exists`, `Stat` and
  `GetReader`. A read is a loop of calls. Settings are read one at a time under `SET GLOBAL`.
* *Failure.* Every call of the service may throw, before it is applied, after it, or half way. `Close` is
  called again by a `noexcept` destructor. A move and a removal of many are made of steps that fail alone.
* *Death.* The process may be killed between any two calls; what is on the service stays.
* *Time.* The timeout is per attempt, the retry around it, and the service may never answer.
* *Staleness.* Secrets come and go between two operations on one path, and redirect it; a handle outlives
  the transaction, and the secret, it was opened with; a listing outlives the directory it was made of.
* *Data.* Keys that decide which operator deletes a path; URIs in some forty dialects; four lists of services,
  prefixes and names that must agree.

Some hazards are in the model, happen there, and are still caught by no property, since the code has no answer
to them and promises none: an open empties the object before its new content is there; a `Write` or `Read` that
throws leaves the position apart from the writer or the cursor; a read may meet two contents; a destructor
publishes what nobody finished; the delays may disagree. `PROJECT.json` lists them without properties, with
the reason, and the properties next to them say in their comments for which calls they hold.

## Modules

| module | of | state and actions |
|---|---|---|
| `OpenOptions` | `OpenDALOpenOptions`, the decision in `OpenFile` | operators only; used by both handle models |
| `Contents` | byte sequences | `Overlay` is DuckDB's positional write |
| `PublishedFile` | the promise to whoever writes | visible files, private drafts; sessions begin, put, publish, finish, die |
| `WriteHandle` | `OpenDALWriteHandle`, the writing half of `OpenFile`, `RemoveFile` | `store` (service), `process`, `handle`; one action for each call of the binding, and one for each way it throws |
| `WriteHandleRefinement` | the same | the mapping of `WriteHandle` to `PublishedFile` |
| `ReadHandle` | `OpenDALReadHandle`, the reading half of `OpenFile`, both read loops | `store`, `handle`, `call` (one per thread); a round of a loop is an action |
| `RemoveFiles` | `RemoveFiles`, `GroupOpenDALRemovePaths` | `objects`, `request`; a path grouped, or a group removed, is an action |
| `RemoveGroupKey` | `CreateRemoveGroupKey` | strings as sequences of characters, and every order a sort may leave; `RemoveFiles` then takes the key as one-to-one (`GroupKeyStandsForKey`) |
| `MoveFile` | `MoveFile` | `objects`, `move`; each call of the binding is an action; a write that throws may leave nothing, all or a part (`Parts`) |
| `LayerSettings` | `SET`, `FromSettings` | `setting`, `call`; each setting read is an action |
| `LayeredCall` | `ToOperatorOptions`, and OpenDAL's layers as external | `options`, `call` with its clocks |
| `ObjectUri` | `TryParse`, `Parse`, `Apply`; secret types, their names, and scopes | `uri` grows by tokens; what is checked are operators of it. The prefix table, the enumeration, the names by position, the registered services and the default scopes are separate lists, as in the code |
| `OperatorConfig` | `CreateOperator`, `CreateOperatorConfig`; DuckDB's lookup of secrets as external | operators only |
| `FileSystem` | every operation of `OpenDALFileSystem` that takes one path, and handles from open to close | `objects` (services), `secrets`, `sees` (of a transaction), `handle`, `listing`; `known` is a history variable: what the operations that returned have promised, whatever their effect was; an operation is an action, a listing one for each callback |

Conventions. A variable is named for the object it models and its record fields for the members; a field
the code does not have is called a history field where it is declared. A call that throws may have been
applied. An action that only throws and changes nothing is left out where no caller could tell. An
operator whose comment begins "Faulty variant of" is used by no specification: it is the mistake for which
the property it is listed with exists (`mutants` in `PROJECT.json`).

Composition. `WriteHandle` and `ReadHandle` extend `OpenOptions`. `RemoveFiles` uses the result of
`RemoveGroupKey` (keys are equal exactly for equal operators). `LayeredCall` takes as `Options` what
`LayerSettings` shows to be built (`BuiltIsUsable`), and gives `ReadHandle` its fairness (`CallEnds`).
`RemoveFiles` and `MoveFile` take `TryParse` and `CreateOperatorConfig` as a function `Locate`, of which
`ObjectUri` is the part that depends on the URI. `FileSystem` extends `OperatorConfig` and `OpenOptions`;
it takes what `TryParse` finds as the function `Parsed`, and `MCFileSystem` states, for TLC to evaluate, that
the `Parsed` of its instance is what `ObjectUri!TryParse` finds. That a transaction reaches one object by a
URI, whatever secrets come and go (`KnownAnswers`), is why `Locate` may be constant in `RemoveFiles` and
`MoveFile`. `FileSystem` makes one step of an operation, which `WriteHandle`, `ReadHandle`, `RemoveFiles` and
`MoveFile` take apart. `...Proofs` modules extend the module they are about: `WriteHandleProofs` also
`WriteHandleRefinement`, and `RemoveFilesProofs` also `RemoveGroupKey`, whose specification is `KeySpec` for
that reason.

## Runs

| run | instance | properties |
|---|---|---|
| `write_handle` | 2 handles, 2 objects of which one backend shows bytes before `Close`, buffers of 1 and 2 bytes, writers of at most 2 | `TypeOK`; `DraftIntact`, `ReportedSizeSound`: the writer, the position and what callers were told agree; `ReturnedCloseIsDurable`; `ImplementsPublishedFile` |
| `write_abort` | the same | `NeverAborts` is violated |
| `read_handle` | 2 threads on 1 handle, contents of 2 and 1 bytes, offsets and sizes to 2, fairness | `TypeOK`; `PositionalReadExact`; `StreamContinuous`; `ShortReadIsEnd`; `EveryReadEnds` |
| `remove_files` | 1 request of at most 4 URIs: three operators, a URI that names no object, one with no service | `TypeOK`; `OnlyNamedRemoved`; `ValidatedBeforeRemoval`; `ReturnedRemovesAll`; `GroupsPartitionPaths`; `PrefixRemoved` |
| `remove_key` | the strings "", "1", "1:", "1:1" as schemes, names and values, at most 2 options, in every order | `KeyTellsApart`; `KeyIgnoresOrder` |
| `move_file` | 2 moves among 2 objects of one server and one of another service, 2 contents, either of which a write that is cut short may leave | `TypeOK`; `NothingLost`; `OrdinaryMoveLands` |
| `move_servers` | 1 move, the same paths on 2 servers | `MoveLands` is violated |
| `layer_settings` | 1 call under any `SET`s, words to 5, 2 nanoseconds to the millisecond | `TypeOK`; `BuiltIsUsable`; `QuietCallExact`; `SteadyCallSucceeds` |
| `layered_call` | timeouts to 3 ticks, 1 or 2 retries, delays to 2, either layer on or off | `TypeOK`; `GivesUpLast`; `ElapsedBounded`; `CallEnds` |
| `file_system` | 1 connection, 1 handle, a directory with its file and an entry no URI names, a file of that path in another bucket, a secret of the whole service and one that moves the file there; a URI that names no object, one of no service | `TypeOK`; `KnownAnswers`; `ListingComplete`; `UrisStayApart` |
| `missing_directory` | the same | `MissingDirectoryAnswered` is violated |
| `object_uri` | every registered prefix, and 4 more tokens of 9 kinds: words, separators, escapes of a slash, a question mark and an at sign, and an escape of an escape; repositories and GitHub pages, with a port and without, already begun | `TypeOK`; `SpelledBack`; `GitHubPage`; `SecretFound` |

Why the bounds are enough. Handles meet only at the store: two of them on one object show every conflict
of an open, a close and a death, and the second object shows that nothing else changes. A writer of two
bytes holds an acknowledged byte, a torn buffer and a retried one. A content of two bytes read
in rounds of one makes a loop of two rounds that starts inside the object, and a buffer of two one that ends
past it; a shorter content that replaces it makes a torn read. Four URIs make two groups of two, interleaved. The four strings of
`remove_key` make every confusion of lengths, colons and digits that a component can cause with its
neighbour. Two moves can be each other's source and target. One call of `FromSettings` is enough, since
calls share only the settings, which the `SET`s change at will; words to 5 with 2 nanoseconds to the
millisecond leave one millisecond value that is refused because of its nanoseconds only. One connection of `file_system` is
enough for what connections do to each other: they share only the services and the secrets, which `Others`,
`CreateSecret` and `DropSecret` change at will; two secrets compete for one URI, and an entry of the directory
that no URI names is told of like the one that has a URI. Four tokens after
an authority make two segments of a root, its query, and an encoded separator in any of them. Each of the
escapes decodes to a character that is searched for afterwards, or to the beginning of another escape, which
must not be decoded again; an escape of any other character is one more text of a word.

The bounds, by name: `MaxSize` (bytes a writer takes), `MaxIndex` and `MaxStream` (the largest `idx_t` and
`streamoff`; offsets and sizes), `MaxUris`, `MaxOptions`, `MaxWord` (the largest `uint64_t`), `Horizon`
(ticks counted; every call of the instance ends before it when its timeout layer is on), `MaxTokens`.
Deadlock is not checked in `layered_call`, where a call that ended has no next step and a call without a
timeout layer waits at the horizon, nor in `object_uri`, where a URI grows to its bound.

## Fairness

Only `layered_call` and `read_handle` need any. `LayeredCall!FairSpec` is fair to `Tick`, `Expire` and `Retry`: time passes and
timers fire. It is not fair to the service, which may never answer; `CallEnds` is therefore about calls
with the timeout layer on, the default. `ReadHandle!FairSpec` is fair to the answers of each thread's call
of the reader: it answers in the end, unless it throws, which it never has to. That is what `CallEnds` shows
of every call under the timeout layer; with `opendal_timeout_layer_enabled = false` it is an assumption about
the service. Neither is fair to opens, seeks, closes or to other clients.

## Proofs

TLAPS proves, for every value of the constants under the named assumptions:

* `WriteHandleProofs`: `TypeCorrect`, `WritesAccountedFor` (`DraftIntact`), `SizeAccountedFor`
  (`ReportedSizeSound`) and `CloseDurable` (`ReturnedCloseIsDurable`). The inductive invariant is `TypeOK`
  with a statement `Sound` of each handle. `DraftIntact` alone is not inductive: that a write at `position`
  appends needs the writer to be exactly `position` long while no write has failed, which is
  `ReportedSizeSound`; and that in turn needs the writer to be there and to hold what was acknowledged. The
  lemma `OverlayAtEnd` carries the step: a positional write at the end of a content is an append.
  The same module proves `Refinement`, that `WriteHandle` implements `PublishedFile`. Every action
  is mapped to one of the specification's or to a stutter, with the same invariant; a failing `Close` that
  was applied is a `Publish`, and the destructor's a `Finish` or, when it throws, a `Die`.
* `ReadHandleProofs`: `TypeCorrect`, `PositionalReadsExact` (`PositionalReadExact`), `StreamsContinuous`
  (`StreamContinuous`) and `ShortReadsEnd` (`ShortReadIsEnd`). The invariant (`IInv`) follows the reader's
  cursor, which the properties do not mention: at most one sequential read runs on a handle; while it does,
  the cursor is as far past where it began as its buffer is filled, and until a read throws the cursor between
  reads is `position`. Positional reads neither use nor move it, which is why any number of them may run
  beside.
* `LayerSettingsProofs`: `TypeCorrect`, `Usability` (`BuiltIsUsable`), `SteadySuccess`
  (`SteadyCallSucceeds`) and `QuietExact` (`QuietCallExact`). The invariant says, besides the types, what a call in progress knows: every
  millisecond value it holds is one a `SET` may store, and, while the call is steady, that the least delay
  it has read is not above the greatest delay *in force*. The last part is why reading the least delay first
  matters, and it is lost if the two reads change places. `QuietExact` has an invariant of its own (`QInv`):
  the result of a call no `SET` came between is what is in force for the settings it has read and the default
  for the others (`SoFar`); that a skipped number keeps its default needs the switch of its layer to be read
  before it (`Places`).
* `LayeredCallProofs`: `TypeCorrect`, `GivesUpAfterAll` (`GivesUpLast`) and `TimeBounded` (`ElapsedBounded`).
  `LayersAre` says which layer is around which; an expiring timeout is then one of an attempt (`ExpireInv`).
  The bound on the whole is not inductive: the invariant (`TimeCounted`) bounds the time by the attempts and
  delays there have been (`Budget`), and the clock of the present one by its own limit.
* `RemoveFilesProofs`: `TypeCorrect`, `Validated` (`ValidatedBeforeRemoval`), `RemovesAll`
  (`ReturnedRemovesAll`), `LeavesPrefix` (`PrefixRemoved`) and `OnlyNamed` (`OnlyNamedRemoved`). The
  invariant says of each request that its groups have different operators and name exactly the objects of
  the URIs grouped so far, all of them valid (`GroupingSound`), and that it removes nothing before the
  grouping has ended, and then no group past the one it is at (`RemovalSound`). `LeavesPrefix` needs the
  first part, too: groups with different operators share no object, so that a later group cannot have
  lost one to an earlier.
  `GroupsAreClasses` (`GroupsPartitionPaths`) says where each URI is: the k-th URI of the i-th operator, in
  the order the list first names them, is the k-th path of the i-th group. It needs `IInv`, which gives the
  group that a URI finds to be its operator's; `PartitionGrows` is one round of the loop, with a case for a
  path that founds a group and one for a path that joins one.
* The same module, about `RemoveGroupKey`: `TellsApart` (`KeyTellsApart`) and `IgnoresOrder`
  (`KeyIgnoresOrder`), for strings of any characters and any number of options. `ReadsBack` is the step of the
  first: digits end at the colon, which is none, the number they write is the length of what follows
  (`DecimalTellsApart`), and so one component and the rest can be read off the text. `ReadAlike` reads two
  equal keys from the left, entry by entry. The second is that entries have one ascending arrangement:
  `Before` orders strings strictly and totally (`BeforeAsymmetric`, `BeforeTotal`, `BeforeTransitive`), so
  some arrangement ascends (`CanBeSorted`) and no other does (`SortedOneWay`). `GroupKeyStandsForKey` puts the
  two together: the pair that `RemoveFiles` takes for a key compares as the string does.
* `ObjectUriProofs`: `LocationSound` (`TypeOK`), `SpellsItsUri` (`SpelledBack`), `PageIsFile` (`GitHubPage`)
  and `SecretsReachPrefixes` (`SecretFound`), for any text after any registered prefix. `SpelledBack` compares
  decoded texts up to the query: "%2F" and "/" in a root name one object, and a query names none. Four kinds of
  services do not keep the authority (dropbox, gdrive, vercel-blob, yandex-disk: one drive for each secret), nor
  does a Hugging Face repository of an unknown kind; there the location spells the rest. It says nothing of
  onedrive, which drops a segment; of raw pages of github.com (`GitHubPage`); and of memory, fs and
  vercel-artifacts with a query, where the slash at the end is looked up in the query. `SecretFound` compares
  four lists the code keeps apart: the prefixes of a type, its name by position, the registered services, and
  the default scopes, with the underscores of a name made dashes. The URI is any text,
  so the inductive invariant is no more than that (`Typed`); the work is in the operators. `CutFound` and
  `CutMissing` say what `find` and `substr` return; for each kind of service, one lemma (`By...`) says what
  `Apply` leaves of the URI, and one (`SpellsBy...`) that this spells it again.
  `PageIsFile` needs the first "/blob/" of the root to be the one after the repository: an earlier one would
  begin in the owner, which holds no slash, or make the repository "blob", which the property excludes.
* `MoveFileProofs`: `TypeCorrect`, `NeverLost` (`NothingLost`) and `Landing` (`OrdinaryMoveLands`).
  `NothingLost` is not inductive: that removing the source is safe needs the object to be at the target by
  then, and that writing the target makes it so needs the bytes read to be the object. The invariant
  (`OnItsWay`) says where the object is in each phase. A step of anybody else either changes neither the
  source nor the target of a move or ends its being alone (`Bystander`).
* `FileSystemProofs`: `TypeCorrect`, `AnswersKnown` (`KnownAnswers`), `ListingsComplete` (`ListingComplete`)
  and `UrisApart` (`UrisStayApart`). What a transaction or a handle knows is true of the objects its own
  operator reaches (`KnownTrue`, `HandlesTrue`), which holds over every step because no secret that is created
  or dropped changes what the transaction sees; and a listing is split into what it has told and what it has
  left (`ListingSound`). What an operation promises it also does (`OperationSound`): an object that was
  removed is gone, one that was written, made or opened is there (`ToldTruth`). `UrisApart` has a hypothesis, `FixedElsewhere`: the options the file system was
  constructed with (none, in the extension) name no place that a URI leaves open.

The assumptions are those stated in the modules, and TLC evaluates each of them: buffers are not empty and
the sentinels are no contents (`WriteHandle`); the defaults agree and fit the word (`LayerSettings`); a
service finds an object at whatever an operator of its own is asked for, and part of a content is a content
(`MoveFile`); `Locate` names a
target or says that there is none (`RemoveFiles`); the colon is no digit (`RemoveGroupKey`); URIs begin with a
registered prefix (`ObjectUri`; `CanHandleFile` leaves no others); layers have options that agree (`LayeredCall`), which
`LayerSettings` proves of what it builds; scopes cover URIs (`OperatorConfig`), directories hold files only,
and the table of what operators reach is what it is a table of (`FileSystem`).

What a recursive definition computes is proved without the library's induction theorems, which take an
operator as a parameter: a statement about all naturals is a statement about the *set* of those it holds
for, and a set of naturals that is not all of them leaves out a least one (`LeastOf`, `AllNaturals`, from
`WFMin`). That `Decimal` and the key's loop are defined at all is proved in the same way (`DecimalDefined`,
`KeyBuilt`).

Every safety property of every run is a theorem. Only model-checked: liveness under fairness (`EveryReadEnds`,
`CallEnds`), which is beyond this prover, as `ENABLED` is; and that the tables of `MCFileSystem` agree with
`ObjectUri!TryParse`, which are about the instance.

## Findings

* `write_abort`: `~OpenDALWriteHandle` is `noexcept` and calls `Close`, which calls `writer->Close()`, which
  may throw. A service that refuses the last part while a query is being unwound ends the DuckDB process,
  where `CONTRIBUTING.md:60` wants errors to end a query. The rest of `WriteHandle` treats that as the death
  of the process, so that every promise is about what survives it.
* `move_servers`: `MoveFile` takes equal schemes for one operator (`opendal_file_system.cpp:276`) and gives
  the target's path to the source's. `opendal_uri.hpp:16-18` says that a path is relative to the root its own
  URI configures. Between two servers, buckets or accounts of one service the object lands inside the
  source's. `OrdinaryMoveLands` shows that this is the only way a returning move goes wrong.
* `missing_directory`: `DirectoryExists` asks the service for the metadata of the path
  (`opendal_file_system.cpp:245`), which throws when there is nothing, so that the answer "no" to a well-formed
  path only ever means a file. `CONTRIBUTING.md:60` wants no exceptions for expected control flow, and
  `FileExists`, in the same position, asks `Exists` and answers.

## Not modelled

* `Glob`, `CanHandleFile`, `CanSeek`, `OnDiskFile` and the like answer from their argument alone.
* `ListFiles` passes paths that are relative to the operator to its callback; the model has the objects.
* Directories in directories: a listing has one level, and the models of one level are all alike.
* `CREATE SECRET` inside an explicit transaction, which that transaction then sees: DuckDB's, not this code's.
* `retry_factor` and `retry_jitter`: `LayeredCall` lets a delay be any between the least and the greatest,
  plus jitter, so no property depends on them.
* `memory://`: every operator has a store of its own, so that nothing written is ever read back; the models
  speak of services that outlive their operators.
* A request that timed out and is applied later, after a retry: the repository does not say what OpenDAL
  guarantees of a cancelled request. A call that throws may have been applied by the time it throws.
* Registration of the extension, which parameters of a secret are hidden, build files, scripts and tests.

## Plan

Order: the handles first, since everything a user reads or writes goes through them; then the operations
that destroy data (removal, moving); then settings, layers and URIs, on which all of them depend; then the
options that secrets give, and the file system as connections use it. All of these are done, and the safety of
all of them is proved.

Left:

1. Consequences of `PublishedFile` as theorems of its own: what a reader of a file may conclude from a `Close`
   that returned.
2. That what `LayerSettings` builds meets the assumption of `LayeredCall` (`BuiltIsUsable`) as one theorem of
   both modules.
3. A recursive walk of directories by DuckDB's `Glob`, should the extension come to support one.
