----------------------------- MODULE FileSystem -----------------------------
(***************************************************************************)
(* The operations of OpenDALFileSystem that take a path                    *)
(* (opendal_file_system.cpp), called by connections in transactions, while *)
(* secrets come and go and others change the services.  Each builds an     *)
(* operator of its own from the secrets it can see then (OperatorConfig);  *)
(* a handle keeps the one it was opened with.                              *)
(*                                                                         *)
(* A call is one step: what may come between the calls of one operation is *)
(* in WriteHandle, ReadHandle, RemoveFiles and MoveFile.  A listing is not *)
(* one step: it runs code of its caller for every entry.  A call that      *)
(* throws although the service applied it is a step of Others.             *)
(***************************************************************************)
EXTENDS OperatorConfig, OpenOptions, TLC

CONSTANTS
  Connections,
  Handles,        \* identities of OpenDALFileHandle objects
  FlagSets,       \* the flags DuckDB opens files with
  Children,       \* path of a directory -> the paths of the files in it
  NoTransaction,  \* what a connection sees outside of a transaction
  NoListing       \* listing of a connection that is not inside ListFiles

\* Bound: directories hold files only.
ASSUME TreeAssumption ==
  \A path \in DOMAIN Children : Children[path] \cap DOMAIN Children = {}

VARIABLES
  objects,  \* the services: the objects there are, directory markers among them
  secrets,  \* the secrets that are committed
  sees,     \* of a connection: the secrets its transaction sees
  known,    \* of a connection: what its transaction knows of each URI (history)
  handle,   \* the OpenDALFileHandle objects
  listing   \* of a connection: its call of ListFiles, inside the callback

vars == <<objects, secrets, sees, known, handle, listing>>

NamedUris == {uri \in Uris : Names(uri)}

IsDir(o) == o.path \in DOMAIN Children

\* The objects in a directory, whether a URI names them or not.
In(o) == {[o EXCEPT !.path = path] : path \in Children[o.path]}

\* ObjectAt for every URI and the secrets that may be visible.  (TLC tabulates what
\* is merged with the empty function.)
Found ==
  [asked \in NamedUris \X SUBSET Secrets |-> ObjectAt(asked[1], asked[2])] @@ <<>>

\* The merge changes nothing.  (The prover has no definition of it.)
ASSUME FoundAssumption ==
  \A uri \in NamedUris, visible \in SUBSET Secrets :
    Found[uri, visible] = ObjectAt(uri, visible)

\* Every object there may be.
Objects ==
  LET found == {Found[asked] : asked \in NamedUris \X SUBSET Secrets}
  IN found \cup UNION {In(o) : o \in {f \in found : IsDir(f)}}

\* op->Exists: a directory is there if its marker is, or anything in it.
Present(os, o) == o \in os \/ (IsDir(o) /\ In(o) \cap os # {})

NoHandle == [mode |-> "none"]

NothingKnown == [uri \in NamedUris |-> "unknown"]

InTransaction(c) == sees[c] # NoTransaction

TypeOK ==
  /\ objects \subseteq Objects
  /\ secrets \subseteq Secrets
  /\ \A c \in Connections :
       /\ known[c] \in [NamedUris -> {"unknown", "present", "absent"}]
       /\ IF InTransaction(c) THEN sees[c] \subseteq Secrets
          ELSE listing[c] = NoListing /\ known[c] = NothingKnown
       /\ listing[c] # NoListing =>
            listing[c].todo \cup listing[c].reported \cup listing[c].stayed \subseteq Objects
  /\ \A h \in Handles :
       handle[h] = NoHandle
       \/ handle[h] \in [mode : {"read", "write"}, owner : Connections, object : Objects,
                         known : {"unknown", "present", "absent"}]

Init ==
  /\ objects \in SUBSET {o \in Objects : ~IsDir(o)}
  /\ secrets = {}
  /\ sees = [c \in Connections |-> NoTransaction]
  /\ known = [c \in Connections |-> NothingKnown]
  /\ handle = [h \in Handles |-> NoHandle]
  /\ listing = [c \in Connections |-> NoListing]

-----------------------------------------------------------------------------
(* What an operation reaches *)

\* Faulty variant of Visible: the secrets looked up are the latest, whatever the
\* transaction.
LatestSecrets(c) == secrets

\* The secrets CreateOperatorConfig looks up: those the opener's transaction sees.
Visible(c) == sees[c]

Reached(c, uri) == Found[uri, Visible(c)]

-----------------------------------------------------------------------------
(* What is known, and still there, once the objects are os.  The connections  *)
(* in by, at most one, are told k of the object o; of all else that changes   *)
(* nothing is known any more.                                                 *)

StillKnown(o, before, os) == IF Present(os, o) = Present(objects, o) THEN before ELSE "unknown"

KnownAfter(os, by, o, k) ==
  [c \in Connections |->
     IF InTransaction(c)
     THEN [uri \in NamedUris |->
             IF c \in by /\ Reached(c, uri) = o THEN k
             ELSE StillKnown(Reached(c, uri), known[c][uri], os)]
     ELSE NothingKnown]

HandlesAfter(os, by, o, k) ==
  [h \in Handles |->
     IF handle[h].mode # "write" THEN handle[h]
     ELSE [handle[h] EXCEPT
             !.known = IF handle[h].owner \in by /\ handle[h].object = o THEN k
                       ELSE StillKnown(handle[h].object, @, os)]]

ListingAfter(os) ==
  [c \in Connections |->
     IF listing[c] = NoListing THEN NoListing
     ELSE [listing[c] EXCEPT !.stayed = @ \cap os]]

\* The objects become os by an operation that tells the connections in by k of o.
Change(os, by, o, k) ==
  /\ objects' = os
  /\ known' = KnownAfter(os, by, o, k)
  /\ listing' = ListingAfter(os)
  /\ UNCHANGED <<secrets, sees>>

\* An operation of c on the object o that returns: it promises k, whatever its effect.
Operation(c, os, o, k) == Change(os, {c}, o, k) /\ handle' = HandlesAfter(os, {c}, o, k)

-----------------------------------------------------------------------------
(* DuckDB's transactions and secrets *)

\* A transaction sees the secrets committed before it; operations without an
\* opener see none.
Begin(c, visible) ==
  /\ ~InTransaction(c)
  /\ visible \in {secrets, {}}
  /\ sees' = [sees EXCEPT ![c] = visible]
  /\ UNCHANGED <<objects, secrets, known, handle, listing>>

Commit(c) ==
  /\ InTransaction(c)
  /\ listing[c] = NoListing
  /\ sees' = [sees EXCEPT ![c] = NoTransaction]
  /\ known' = [known EXCEPT ![c] = NothingKnown]
  /\ UNCHANGED <<objects, secrets, handle, listing>>

\* CREATE SECRET by anybody, in a transaction of its own.
CreateSecret(s) ==
  /\ \A t \in secrets : t.name # s.name
  /\ secrets' = secrets \cup {s}
  /\ UNCHANGED <<objects, sees, known, handle, listing>>

\* DROP SECRET by anybody, in a transaction of its own.
DropSecret(s) ==
  /\ s \in secrets
  /\ secrets' = secrets \ {s}
  /\ UNCHANGED <<objects, sees, known, handle, listing>>

-----------------------------------------------------------------------------
(* Files and their handles *)

\* What a call on a path needs before it reaches the service.
Operates(c, uri) == InTransaction(c) /\ uri \in NamedUris

\* OpenFile: an error, or a null handle, when there is no object and none is made.
OpenNothing(c, uri, flags) ==
  /\ Operates(c, uri)
  /\ OpenDecision(flags, Present(objects, Reached(c, uri))) \in {"null", "missing"}
  /\ Operation(c, objects, Reached(c, uri), "absent")

\* OpenFile: a handle that keeps the operator; its object may first be created or
\* emptied.
OpenFile(c, h, uri, flags) ==
  LET o == Reached(c, uri)
      decision == OpenDecision(flags, Present(objects, o))
      os == IF decision = "init" THEN objects \cup {o} ELSE objects
      opened == [mode |-> IF decision = "read" THEN "read" ELSE "write",
                 owner |-> c, object |-> o, known |-> "present"]
  IN /\ Operates(c, uri)
     /\ handle[h] = NoHandle
     /\ ~IsDir(o)
     /\ decision \in {"read", "init", "keep"}
     /\ Change(os, {c}, o, "present")
     /\ handle' = [HandlesAfter(os, {c}, o, "present") EXCEPT ![h] = opened]

\* GetLastModifiedTime, and what else asks Stats: what a read handle was told at open,
\* or op->Stat by the operator of a write handle.
StatsAnswer(h) ==
  IF handle[h].mode = "read" \/ Present(objects, handle[h].object) THEN "yes" ELSE "throws"

Stats(h) ==
  /\ handle[h] # NoHandle
  /\ handle' = [handle EXCEPT
       ![h].known = IF StatsAnswer(h) = "yes" THEN "present" ELSE "absent"]
  /\ UNCHANGED <<objects, secrets, sees, known, listing>>

\* Close: a write handle publishes what was written where it was opened.
CloseHandle(h) ==
  LET o == handle[h].object
      writes == handle[h].mode = "write"
      os == IF writes THEN objects \cup {o} ELSE objects
      by == IF writes THEN {handle[h].owner} ELSE {}
  IN /\ handle[h] # NoHandle
     /\ Change(os, by, o, "present")
     /\ handle' = [HandlesAfter(os, by, o, "present") EXCEPT ![h] = NoHandle]

\* No operator is built for a URI that names nothing.
FileExistsAnswer(c, uri) ==
  IF uri \in NamedUris /\ Present(objects, Reached(c, uri)) THEN "yes" ELSE "no"

FileExists(c, uri) ==
  /\ Operates(c, uri)
  /\ Operation(c, objects, Reached(c, uri),
               IF FileExistsAnswer(c, uri) = "yes" THEN "present" ELSE "absent")

\* What is promised of an object that was removed: a directory with something in it
\* may stay.
RemovalTells(o) == IF IsDir(o) /\ In(o) \cap objects # {} THEN "unknown" ELSE "absent"

\* Faulty variant of RemoveFile: a file that a handle is open on is left alone.
RemoveUnopened(c, uri) ==
  LET o == Reached(c, uri)
      opened == {handle[h].object : h \in {g \in Handles : handle[g] # NoHandle}}
  IN Operates(c, uri) /\ Operation(c, objects \ ({o} \ opened), o, RemovalTells(o))

\* RemoveFile, RemoveDirectory, TryRemoveFile: no object, no error.
RemoveFile(c, uri) ==
  LET o == Reached(c, uri)
  IN Operates(c, uri) /\ Operation(c, objects \ {o}, o, RemovalTells(o))

-----------------------------------------------------------------------------
(* Directories *)

\* op->Stat throws when there is nothing; a file is no directory.
DirectoryExistsAnswer(c, uri) ==
  CASE uri \notin NamedUris -> "no"
    [] uri \in NamedUris /\ ~Present(objects, Reached(c, uri)) -> "throws"
    [] uri \in NamedUris /\ Present(objects, Reached(c, uri)) ->
         IF IsDir(Reached(c, uri)) THEN "yes" ELSE "no"

DirectoryExists(c, uri) ==
  /\ Operates(c, uri)
  /\ Operation(c, objects, Reached(c, uri),
               IF DirectoryExistsAnswer(c, uri) = "throws" THEN "absent" ELSE "present")

\* Faulty variant of CreateDirectory: the bucket itself is made a directory, too.
CreateWithRoot(c, uri) ==
  LET o == Reached(c, uri) IN
  /\ Operates(c, uri)
  /\ IsDir(o)
  /\ Operation(c, objects \cup {o, [o EXCEPT !.path = EmptyPath]}, o, "present")

\* CreateDirectory and CreateDirectoriesRecursive.
CreateDirectory(c, uri) ==
  LET o == Reached(c, uri)
  IN Operates(c, uri) /\ IsDir(o) /\ Operation(c, objects \cup {o}, o, "present")

\* op->List: all entries, before the first callback.
ListFiles(c, uri) ==
  LET dir == Reached(c, uri) IN
  /\ Operates(c, uri)
  /\ IsDir(dir)
  /\ listing[c] = NoListing
  /\ listing' = [listing EXCEPT
       ![c] = [dir |-> dir, todo |-> In(dir) \cap objects, reported |-> {},
               first |-> In(dir) \cap objects, stayed |-> In(dir) \cap objects]]
  /\ UNCHANGED <<objects, secrets, sees, known, handle>>

\* Faulty variant of Untold: the directory is read again for every entry.
UntoldNow(c) == (In(listing[c].dir) \cap objects) \ listing[c].reported

\* The entries no callback was made for.
Untold(c) == listing[c].todo

\* One callback, which returns; its caller may then do anything.
Callback(c) ==
  /\ listing[c] # NoListing
  /\ \E o \in Untold(c) :
       listing' = [listing EXCEPT ![c].reported = @ \cup {o}, ![c].todo = Untold(c) \ {o}]
  /\ UNCHANGED <<objects, secrets, sees, known, handle>>

\* ListFiles returns after the last entry, or throws because the callback did.
EndListing(c) ==
  /\ listing[c] # NoListing
  /\ listing' = [listing EXCEPT ![c] = NoListing]
  /\ UNCHANGED <<objects, secrets, sees, known, handle>>

-----------------------------------------------------------------------------
\* Other clients put or remove an object.
Others(o) ==
  LET os == IF o \in objects THEN objects \ {o} ELSE objects \cup {o}
  IN Change(os, {}, o, "unknown") /\ handle' = HandlesAfter(os, {}, o, "unknown")

PathStep(c, uri) ==
  \/ \E flags \in FlagSets :
       \/ OpenNothing(c, uri, flags)
       \/ \E h \in Handles : OpenFile(c, h, uri, flags)
  \/ FileExists(c, uri)
  \/ RemoveFile(c, uri)
  \/ DirectoryExists(c, uri)
  \/ CreateDirectory(c, uri)
  \/ ListFiles(c, uri)

Next ==
  \/ \E c \in Connections :
       \/ \E visible \in {secrets, {}} : Begin(c, visible)
       \/ Commit(c)
       \/ \E uri \in Uris : PathStep(c, uri)
       \/ Callback(c)
       \/ EndListing(c)
  \/ \E s \in Secrets : CreateSecret(s) \/ DropSecret(s)
  \/ \E h \in Handles : Stats(h) \/ CloseHandle(h)
  \/ \E o \in Objects : Others(o)

Spec == Init /\ [][Next]_vars

-----------------------------------------------------------------------------
\* What a connection has found, made, written or removed in its transaction is what
\* it is told of, under every URI of the object, as long as nobody else puts or
\* removes it, whatever secrets are created and dropped meanwhile; and what a handle
\* has opened is what the handle is told of, in later transactions, too.
KnownAnswers ==
  /\ \A c \in Connections, uri \in NamedUris :
       /\ known[c][uri] = "present" =>
            /\ FileExistsAnswer(c, uri) = "yes"
            /\ DirectoryExistsAnswer(c, uri) # "throws"
       /\ known[c][uri] = "absent" =>
            FileExistsAnswer(c, uri) = "no" /\ DirectoryExistsAnswer(c, uri) # "yes"
  /\ \A h \in Handles : handle[h] # NoHandle =>
       /\ handle[h].known = "present" => StatsAnswer(h) = "yes"
       /\ handle[h].known = "absent" => StatsAnswer(h) = "throws"

\* ListFiles tells of each entry once, only of entries that were there when it was
\* called, and, when it is through, of all that stayed there, although its callback
\* and others change the directory meanwhile.
ListingComplete ==
  \A c \in Connections : listing[c] # NoListing =>
    /\ listing[c].reported \subseteq listing[c].first
    /\ listing[c].todo \cap listing[c].reported = {}
    /\ listing[c].todo = {} => listing[c].stayed \subseteq listing[c].reported

\* The object a URI spells.
Spelled(uri) ==
  [scheme |-> Parsed[uri].scheme, at |-> Located(Parsed[uri].config),
   path |-> Parsed[uri].path]

\* The secrets made for a URI that may name another place.
Moving(uri) ==
  {s \in Secrets : /\ s.type = Parsed[uri].secret_type
                   /\ \E scope \in s.scopes : uri \in Covers[scope]
                   /\ DOMAIN SecretOptions(s) \cap Locating # {}}

\* Two URIs reach one object only if they spell its service, place and path alike,
\* or a secret made for one of them, that the transaction sees, names another place:
\* never by the options of the file system, or by a secret of another scope or type.
UrisStayApart ==
  \A c \in Connections, u \in NamedUris : \A v \in NamedUris \ {u} :
    InTransaction(c) /\ Reached(c, u) = Reached(c, v) =>
      Spelled(u) = Spelled(v) \/ sees[c] \cap (Moving(u) \cup Moving(v)) # {}

\* What CONTRIBUTING.md:60 asks, that exceptions are not for expected control flow:
\* DirectoryExists answers for a directory that is missing.
MissingDirectoryAnswered ==
  \A c \in Connections, uri \in Uris :
    InTransaction(c) => DirectoryExistsAnswer(c, uri) # "throws"
=============================================================================
