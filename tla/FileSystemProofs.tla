-------------------------- MODULE FileSystemProofs --------------------------
(***************************************************************************)
(* Proofs about FileSystem, for any URIs, secrets, connections, handles,   *)
(* directories and options.                                                *)
(***************************************************************************)
EXTENDS FileSystem, TLAPS

-----------------------------------------------------------------------------
(* The inductive invariant *)

Knowledge == {"unknown", "present", "absent"}

HandleRecord ==
  [mode : {"read", "write"}, owner : Connections, object : Objects, known : Knowledge]

ListingRecord ==
  [dir : Objects, todo : SUBSET Objects, reported : SUBSET Objects,
   first : SUBSET Objects, stayed : SUBSET Objects]

\* Knowledge k of whether there is something, when there is or is not.
True(k, there) == (k = "present" => there) /\ (k = "absent" => ~there)

Seen ==
  /\ objects \in SUBSET Objects
  /\ secrets \in SUBSET Secrets
  /\ sees \in [Connections -> {NoTransaction} \cup SUBSET Secrets]

\* What connections know, when the objects are os.
KnownTrue(ks, os) ==
  /\ ks \in [Connections -> [NamedUris -> Knowledge]]
  /\ \A c \in Connections :
       /\ ~InTransaction(c) => ks[c] = NothingKnown
       /\ \A uri \in NamedUris : True(ks[c][uri], Present(os, Reached(c, uri)))

\* What a handle was told, and all of them.
HandleTrue(s, os) == True(s.known, s.mode = "read" \/ Present(os, s.object))

HandlesTrue(hs, os) ==
  /\ hs \in [Handles -> {NoHandle} \cup HandleRecord]
  /\ \A h \in Handles : hs[h] # NoHandle => HandleTrue(hs[h], os)

\* A listing: what it began with is split between what it told and what is left.
ListingSound(l) ==
  /\ l \in ListingRecord
  /\ l.todo \cup l.reported = l.first
  /\ l.todo \cap l.reported = {}
  /\ l.stayed \subseteq l.first

ListingsSound(ls) ==
  /\ ls = [c \in Connections |-> ls[c]]
  /\ \A c \in Connections :
       /\ ls[c] # NoListing => ListingSound(ls[c])
       /\ ~InTransaction(c) => ls[c] = NoListing

IInv ==
  /\ Seen
  /\ KnownTrue(known, objects)
  /\ HandlesTrue(handle, objects)
  /\ ListingsSound(listing)

-----------------------------------------------------------------------------
(* Lemmas about what is known after a change *)

\* What a transaction reaches is an object there may be.
LEMMA ReachedIsObject ==
  ASSUME Seen, NEW c \in Connections, InTransaction(c), NEW uri \in NamedUris
  PROVE  /\ Reached(c, uri) \in Objects
         /\ IsDir(Reached(c, uri)) => In(Reached(c, uri)) \subseteq Objects
<1> DEFINE found == {Found[asked] : asked \in NamedUris \X SUBSET Secrets}
<1>1. sees[c] \in SUBSET Secrets
  BY DEF Seen, InTransaction
<1>2. Reached(c, uri) \in found
  <2>1. Reached(c, uri) = Found[<<uri, sees[c]>>]
    BY DEF Reached, Visible
  <2>2. <<uri, sees[c]>> \in NamedUris \X SUBSET Secrets
    BY <1>1
  <2> QED BY <2>1, <2>2
<1>3. Objects = found \cup UNION {In(o) : o \in {f \in found : IsDir(f)}}
  BY DEF Objects
<1> HIDE DEF found
<1> QED BY <1>2, <1>3

LEMMA StillKnownTrue ==
  ASSUME NEW o, NEW before \in Knowledge, NEW os,
         True(before, Present(objects, o))
  PROVE  /\ StillKnown(o, before, os) \in Knowledge
         /\ True(StillKnown(o, before, os), Present(os, o))
<1>1. CASE Present(os, o) = Present(objects, o)
  <2>1. StillKnown(o, before, os) = before
    BY <1>1 DEF StillKnown
  <2>2. Present(os, o) <=> Present(objects, o)
    BY <1>1 DEF Present
  <2> QED BY <2>1, <2>2 DEF True
<1>2. CASE Present(os, o) # Present(objects, o)
  BY <1>2 DEF StillKnown, Knowledge, True
<1> QED BY <1>1, <1>2

\* What the connections in by are told of an object is so.
ToldTruth(os, by, o, k) == k \in Knowledge /\ (by = {} \/ True(k, Present(os, o)))

LEMMA KnownAfterTrue ==
  ASSUME IInv, NEW os, NEW by, NEW o, NEW k, ToldTruth(os, by, o, k)
  PROVE  KnownTrue(KnownAfter(os, by, o, k), os)
<1> DEFINE after == KnownAfter(os, by, o, k)
<1>1. ASSUME NEW c \in Connections
      PROVE  /\ after[c] \in [NamedUris -> Knowledge]
             /\ ~InTransaction(c) => after[c] = NothingKnown
             /\ \A uri \in NamedUris : True(after[c][uri], Present(os, Reached(c, uri)))
  <2>1. CASE ~InTransaction(c)
    BY <2>1 DEF KnownAfter, NothingKnown, Knowledge, True
  <2>2. CASE InTransaction(c)
    <3> DEFINE told(uri) == IF c \in by /\ Reached(c, uri) = o THEN k
                            ELSE StillKnown(Reached(c, uri), known[c][uri], os)
    <3>1. after[c] = [uri \in NamedUris |-> told(uri)]
      BY <2>2 DEF KnownAfter
    <3>2. ASSUME NEW uri \in NamedUris
          PROVE  told(uri) \in Knowledge /\ True(told(uri), Present(os, Reached(c, uri)))
      <4>1. CASE c \in by /\ Reached(c, uri) = o
        BY <4>1 DEF ToldTruth
      <4>2. CASE ~(c \in by /\ Reached(c, uri) = o)
        <5>1. told(uri) = StillKnown(Reached(c, uri), known[c][uri], os)
          BY <4>2
        <5>2. known[c][uri] \in Knowledge /\ True(known[c][uri], Present(objects, Reached(c, uri)))
          BY DEF IInv, KnownTrue
        <5> HIDE DEF told
        <5> QED BY <5>1, <5>2, StillKnownTrue
      <4> QED BY <4>1, <4>2
    <3> HIDE DEF told, after
    <3> QED BY <2>2, <3>1, <3>2
  <2> QED BY <2>1, <2>2
<1>2. after = [c \in Connections |-> after[c]]
  BY DEF KnownAfter
<1> QED BY <1>1, <1>2 DEF KnownTrue

LEMMA HandlesAfterTrue ==
  ASSUME IInv, NEW os, NEW by, NEW o, NEW k, ToldTruth(os, by, o, k)
  PROVE  HandlesTrue(HandlesAfter(os, by, o, k), os)
<1> DEFINE after == HandlesAfter(os, by, o, k)
<1>1. ASSUME NEW h \in Handles
      PROVE  after[h] \in {NoHandle} \cup HandleRecord
             /\ (after[h] # NoHandle => HandleTrue(after[h], os))
  <2> DEFINE s == handle[h]
             told == IF s.owner \in by /\ s.object = o THEN k
                     ELSE StillKnown(s.object, s.known, os)
  <2>1. CASE s.mode # "write"
    <3>1. after[h] = s
      BY <2>1 DEF HandlesAfter
    <3>2. s # NoHandle => s.mode = "read" /\ s.known \in Knowledge
      BY <2>1 DEF IInv, HandlesTrue, HandleRecord
    <3>3. s # NoHandle => HandleTrue(s, os)
      BY <3>2 DEF IInv, HandlesTrue, HandleTrue, True
    <3> QED BY <3>1, <3>3 DEF IInv, HandlesTrue
  <2>2. CASE s.mode = "write"
    <3>1. after[h] = [s EXCEPT !.known = told]
      BY <2>2 DEF HandlesAfter
    <3>2. s \in HandleRecord /\ s # NoHandle
      BY <2>2 DEF IInv, HandlesTrue, NoHandle
    <3>3. True(s.known, Present(objects, s.object)) /\ s.known \in Knowledge
      BY <2>2, <3>2 DEF IInv, HandlesTrue, HandleTrue, True, HandleRecord
    <3>4. told \in Knowledge /\ True(told, Present(os, s.object))
      BY <3>3, StillKnownTrue DEF ToldTruth
    <3> HIDE DEF told
    <3>5. [s EXCEPT !.known = told] \in HandleRecord
      BY <3>2, <3>4 DEF HandleRecord
    <3>6. HandleTrue([s EXCEPT !.known = told], os)
      BY <2>2, <3>2, <3>4 DEF HandleTrue, HandleRecord, True
    <3> QED BY <3>1, <3>5, <3>6
  <2> QED BY <2>1, <2>2
<1>2. after = [h \in Handles |-> after[h]]
  BY DEF HandlesAfter
<1> QED BY <1>1, <1>2 DEF HandlesTrue

LEMMA ListingAfterSound ==
  ASSUME IInv, NEW os
  PROVE  ListingsSound(ListingAfter(os))
<1>1. ASSUME NEW c \in Connections
      PROVE  /\ listing[c] = NoListing => ListingAfter(os)[c] = NoListing
             /\ ListingAfter(os)[c] # NoListing => ListingSound(ListingAfter(os)[c])
  <2>1. CASE listing[c] = NoListing
    BY <2>1 DEF ListingAfter
  <2>2. CASE listing[c] # NoListing
    <3> DEFINE l == listing[c]
               new == [l EXCEPT !.stayed = l.stayed \cap os]
    <3>1. ListingSound(l)
      BY <2>2 DEF IInv, ListingsSound
    <3>2. ListingAfter(os)[c] = new
      BY <2>2 DEF ListingAfter
    <3>3. new \in ListingRecord
      BY <3>1 DEF ListingRecord, ListingSound
    <3>4. ListingSound(new)
      BY <3>1, <3>3 DEF ListingRecord, ListingSound
    <3> QED BY <2>2, <3>2, <3>4
  <2> QED BY <2>1, <2>2
<1>2. ListingAfter(os) = [c \in Connections |-> ListingAfter(os)[c]]
  BY DEF ListingAfter
<1> QED BY <1>1, <1>2 DEF ListingsSound, IInv

-----------------------------------------------------------------------------
(* Each step keeps the invariant. *)

\* A step after which transactions see what they saw.
LEMMA StepSound ==
  ASSUME IInv, sees' = sees, objects' \in SUBSET Objects, secrets' \in SUBSET Secrets,
         KnownTrue(known', objects'), HandlesTrue(handle', objects'), ListingsSound(listing')
  PROVE  IInv'
<1>1. Seen'
  BY DEF IInv, Seen
<1>2. \A c \in Connections : InTransaction(c)' <=> InTransaction(c)
  BY DEF InTransaction
<1>3. \A c \in Connections, uri \in NamedUris : Reached(c, uri)' = Reached(c, uri)
  BY DEF Reached, Visible
<1>4. KnownTrue(known, objects)'
  BY <1>2, <1>3 DEF KnownTrue
<1>5. ListingsSound(listing)'
  BY <1>2 DEF ListingsSound
<1>6. HandlesTrue(handle, objects)'
  BY DEF HandlesTrue
<1> QED BY <1>1, <1>4, <1>5, <1>6 DEF IInv

\* A step that changes the objects, tells some connections of one of them, and does
\* with the handles what it likes.
LEMMA ChangeSound ==
  ASSUME IInv, NEW os \in SUBSET Objects, NEW by, NEW o, NEW k,
         ToldTruth(os, by, o, k), Change(os, by, o, k), HandlesTrue(handle', os)
  PROVE  IInv'
<1>1. KnownTrue(known', objects') /\ ListingsSound(listing')
  BY KnownAfterTrue, ListingAfterSound DEF Change
<1> QED BY <1>1, StepSound DEF Change, IInv, Seen

LEMMA OperationSound ==
  ASSUME IInv, NEW c, NEW os \in SUBSET Objects, NEW o, NEW k \in Knowledge,
         True(k, Present(os, o)), Operation(c, os, o, k)
  PROVE  IInv'
<1>1. ToldTruth(os, {c}, o, k)
  BY DEF ToldTruth
<1> QED BY <1>1, HandlesAfterTrue, ChangeSound DEF Operation

LEMMA BeginSound ==
  ASSUME IInv, NEW c \in Connections, NEW visible \in {secrets, {}}, Begin(c, visible)
  PROVE  IInv'
<1>1. /\ sees' = [sees EXCEPT ![c] = visible] /\ visible \in SUBSET Secrets
      /\ \A d \in Connections \ {c} : sees'[d] = sees[d]
  BY DEF Begin, IInv, Seen
<1>2. Seen'
  BY <1>1 DEF Begin, IInv, Seen
<1>3. \A d \in Connections \ {c} :
        /\ InTransaction(d)' <=> InTransaction(d)
        /\ \A uri \in NamedUris : Reached(d, uri)' = Reached(d, uri)
  BY <1>1 DEF InTransaction, Reached, Visible
<1>4. known[c] = NothingKnown /\ listing[c] = NoListing
  BY DEF Begin, IInv, KnownTrue, ListingsSound
<1>5. \A uri \in NamedUris : known[c][uri] = "unknown"
  BY <1>4 DEF NothingKnown
<1>6. KnownTrue(known, objects)'
  BY <1>3, <1>4, <1>5 DEF Begin, IInv, KnownTrue, True
<1>7. ListingsSound(listing)' /\ HandlesTrue(handle, objects)'
  BY <1>3, <1>4 DEF Begin, IInv, ListingsSound, HandlesTrue
<1> QED BY <1>2, <1>6, <1>7 DEF IInv

LEMMA CommitSound ==
  ASSUME IInv, NEW c \in Connections, Commit(c)
  PROVE  IInv'
<1>1. /\ sees' = [sees EXCEPT ![c] = NoTransaction]
      /\ \A d \in Connections \ {c} : sees'[d] = sees[d]
  BY DEF Commit, IInv, Seen
<1>2. Seen'
  BY <1>1 DEF Commit, IInv, Seen
<1>3. \A d \in Connections \ {c} :
        /\ InTransaction(d)' <=> InTransaction(d)
        /\ \A uri \in NamedUris : Reached(d, uri)' = Reached(d, uri)
  BY <1>1 DEF InTransaction, Reached, Visible
<1>4. /\ known' = [known EXCEPT ![c] = NothingKnown] /\ known'[c] = NothingKnown
      /\ \A d \in Connections \ {c} : known'[d] = known[d]
      /\ NothingKnown \in [NamedUris -> Knowledge]
      /\ \A uri \in NamedUris : NothingKnown[uri] = "unknown"
  BY DEF Commit, IInv, KnownTrue, NothingKnown, Knowledge
<1>5. known' \in [Connections -> [NamedUris -> Knowledge]]
  BY <1>4 DEF IInv, KnownTrue
<1>6. KnownTrue(known, objects)'
  BY <1>3, <1>4, <1>5 DEF Commit, IInv, KnownTrue, True
<1>7. ListingsSound(listing)' /\ HandlesTrue(handle, objects)'
  BY <1>3 DEF Commit, IInv, ListingsSound, HandlesTrue
<1> QED BY <1>2, <1>6, <1>7 DEF IInv

LEMMA SecretsSound ==
  ASSUME IInv, NEW s \in Secrets, CreateSecret(s) \/ DropSecret(s)
  PROVE  IInv'
<1>1. secrets' \in SUBSET Secrets
  BY DEF IInv, Seen, CreateSecret, DropSecret
<1> QED BY <1>1, StepSound DEF CreateSecret, DropSecret, IInv, Seen

\* A read handle, and a write handle that keeps what is there, need an object.
LEMMA DecisionNeedsObject ==
  ASSUME NEW flags, NEW os, NEW o, OpenDecision(flags, Present(os, o)) \in {"read", "keep"}
  PROVE  Present(os, o)
<1>1. ASSUME ~Present(os, o), IsValid(OptionsOf(flags)), OptionsOf(flags).create
      PROVE  ~OptionsOf(flags).read
  BY <1>1 DEF IsValid, OptionsOf
<1> QED BY <1>1 DEF OpenDecision

LEMMA OpenFileSound ==
  ASSUME IInv, NEW c \in Connections, NEW h \in Handles, NEW uri \in Uris, NEW flags,
         OpenFile(c, h, uri, flags)
  PROVE  IInv'
<1> DEFINE o == Reached(c, uri)
           decision == OpenDecision(flags, Present(objects, o))
           os == IF decision = "init" THEN objects \cup {o} ELSE objects
           opened == [mode |-> IF decision = "read" THEN "read" ELSE "write",
                      owner |-> c, object |-> o, known |-> "present"]
<1>1. /\ InTransaction(c) /\ uri \in NamedUris
      /\ decision \in {"read", "init", "keep"}
      /\ Change(os, {c}, o, "present")
      /\ handle' = [HandlesAfter(os, {c}, o, "present") EXCEPT ![h] = opened]
  BY DEF OpenFile, Operates
<1>2. o \in Objects
  BY <1>1, ReachedIsObject DEF IInv
<1>3. os \in SUBSET Objects
  BY <1>2 DEF IInv, Seen
<1>4. Present(os, o)
  <2>1. CASE decision = "init"
    BY <2>1 DEF Present
  <2>2. CASE decision # "init"
    BY <1>1, <2>2, DecisionNeedsObject
  <2> QED BY <2>1, <2>2
<1>5. opened \in HandleRecord /\ HandleTrue(opened, os)
  BY <1>2, <1>4 DEF HandleRecord, Knowledge, HandleTrue, True
<1> HIDE DEF os, opened, decision
<1>6. ToldTruth(os, {c}, o, "present")
  BY <1>4 DEF ToldTruth, Knowledge, True
<1>7. HandlesTrue(HandlesAfter(os, {c}, o, "present"), os)
  BY <1>6, HandlesAfterTrue
<1>8. HandlesTrue([HandlesAfter(os, {c}, o, "present") EXCEPT ![h] = opened], os)
  BY <1>5, <1>7 DEF HandlesTrue
<1> QED BY <1>1, <1>3, <1>6, <1>8, ChangeSound

LEMMA StatsSound ==
  ASSUME IInv, NEW h \in Handles, Stats(h)
  PROVE  IInv'
<1> DEFINE s == handle[h]
           k == IF StatsAnswer(h) = "yes" THEN "present" ELSE "absent"
           new == [s EXCEPT !.known = k]
<1>1. s \in HandleRecord /\ k \in Knowledge
  BY DEF Stats, IInv, HandlesTrue, Knowledge
<1>2. handle' = [handle EXCEPT ![h] = new]
  BY <1>1 DEF Stats, IInv, HandlesTrue, HandleRecord
<1>3. True(k, s.mode = "read" \/ Present(objects, s.object))
  BY DEF StatsAnswer, True
<1> HIDE DEF k
<1>4. /\ new \in HandleRecord
      /\ new.known = k /\ new.mode = s.mode /\ new.object = s.object
  BY <1>1 DEF HandleRecord
<1> HIDE DEF new
<1>5. HandleTrue(new, objects)
  BY <1>3, <1>4 DEF HandleTrue
<1>6. HandlesTrue(handle', objects)
  BY <1>2, <1>4, <1>5 DEF IInv, HandlesTrue
<1> QED BY <1>6, StepSound DEF Stats, IInv, Seen

LEMMA CloseHandleSound ==
  ASSUME IInv, NEW h \in Handles, CloseHandle(h)
  PROVE  IInv'
<1> DEFINE o == handle[h].object
           writes == handle[h].mode = "write"
           os == IF writes THEN objects \cup {o} ELSE objects
           by == IF writes THEN {handle[h].owner} ELSE {}
<1>1. handle[h] \in HandleRecord
  BY DEF CloseHandle, IInv, HandlesTrue
<1>2. os \in SUBSET Objects
  BY <1>1 DEF IInv, Seen, HandleRecord
<1>3. ToldTruth(os, by, o, "present")
  BY DEF ToldTruth, Knowledge, True, Present
<1>4. /\ Change(os, by, o, "present")
      /\ handle' = [HandlesAfter(os, by, o, "present") EXCEPT ![h] = NoHandle]
  BY DEF CloseHandle
<1> HIDE DEF os, by, o
<1>5. HandlesTrue(HandlesAfter(os, by, o, "present"), os)
  BY <1>3, HandlesAfterTrue
<1>6. HandlesTrue([HandlesAfter(os, by, o, "present") EXCEPT ![h] = NoHandle], os)
  BY <1>5 DEF HandlesTrue
<1> QED BY <1>2, <1>3, <1>4, <1>6, ChangeSound

LEMMA OthersSound ==
  ASSUME IInv, NEW o \in Objects, Others(o)
  PROVE  IInv'
<1> DEFINE os == IF o \in objects THEN objects \ {o} ELSE objects \cup {o}
<1>1. os \in SUBSET Objects
  BY DEF IInv, Seen
<1>2. Change(os, {}, o, "unknown") /\ handle' = HandlesAfter(os, {}, o, "unknown")
  BY DEF Others
<1>3. ToldTruth(os, {}, o, "unknown")
  BY DEF ToldTruth, Knowledge
<1> HIDE DEF os
<1> QED BY <1>1, <1>2, <1>3, HandlesAfterTrue, ChangeSound

\* A step that changes one connection's listing.
LEMMA ListingStepSound ==
  ASSUME IInv, NEW c \in Connections, NEW l,
         listing' = [listing EXCEPT ![c] = l],
         l # NoListing => InTransaction(c) /\ ListingSound(l),
         UNCHANGED <<objects, secrets, sees, known, handle>>
  PROVE  IInv'
<1>1. ListingsSound(listing')
  <2>1. \A d \in Connections : listing'[d] = IF d = c THEN l ELSE listing[d]
    BY DEF IInv, ListingsSound
  <2>2. listing' = [d \in Connections |-> listing'[d]]
    BY DEF IInv, ListingsSound
  <2> QED BY <2>1, <2>2 DEF IInv, ListingsSound
<1> QED BY <1>1, StepSound DEF IInv, Seen

LEMMA ListFilesSound ==
  ASSUME IInv, NEW c \in Connections, NEW uri \in Uris, ListFiles(c, uri)
  PROVE  IInv'
<1> DEFINE dir == Reached(c, uri)
           entries == In(dir) \cap objects
           l == [dir |-> dir, todo |-> entries, reported |-> {}, first |-> entries,
                 stayed |-> entries]
<1>1. /\ InTransaction(c) /\ uri \in NamedUris
      /\ listing' = [listing EXCEPT ![c] = l]
      /\ UNCHANGED <<objects, secrets, sees, known, handle>>
  BY DEF ListFiles, Operates
<1>2. dir \in Objects /\ entries \in SUBSET Objects
  BY <1>1, ReachedIsObject DEF IInv, Seen
<1> HIDE DEF entries, dir
<1>3. ListingSound(l)
  BY <1>2 DEF ListingSound, ListingRecord
<1> HIDE DEF l
<1> QED BY <1>1, <1>3, ListingStepSound

LEMMA CallbackSound ==
  ASSUME IInv, NEW c \in Connections, Callback(c)
  PROVE  IInv'
<1> DEFINE l == listing[c]
<1>1. ListingSound(l) /\ InTransaction(c)
  BY DEF Callback, IInv, ListingsSound
<1>2. PICK o \in l.todo :
        listing' = [listing EXCEPT ![c].reported = l.reported \cup {o},
                                   ![c].todo = l.todo \ {o}]
  BY DEF Callback, Untold
<1> DEFINE new == [l EXCEPT !.reported = l.reported \cup {o}, !.todo = l.todo \ {o}]
<1>3. l \in ListingRecord
  BY <1>1 DEF ListingSound
<1>4. listing' = [listing EXCEPT ![c] = new]
  BY <1>2, <1>3 DEF ListingRecord, IInv, ListingsSound
<1>5. /\ new \in ListingRecord
      /\ new.reported = l.reported \cup {o} /\ new.todo = l.todo \ {o}
      /\ new.first = l.first /\ new.stayed = l.stayed
  BY <1>3 DEF ListingRecord
<1> HIDE DEF new
<1>6. ListingSound(new)
  BY <1>1, <1>2, <1>5 DEF ListingSound
<1> QED BY <1>1, <1>4, <1>6, ListingStepSound DEF Callback

LEMMA EndListingSound ==
  ASSUME IInv, NEW c \in Connections, EndListing(c)
  PROVE  IInv'
BY ListingStepSound DEF EndListing

LEMMA PathStepSound ==
  ASSUME IInv, NEW c \in Connections, NEW uri \in Uris, PathStep(c, uri)
  PROVE  IInv'
<1> DEFINE o == Reached(c, uri)
<1>1. objects \in SUBSET Objects /\ {"present", "absent", "unknown"} \subseteq Knowledge
  BY DEF IInv, Seen, Knowledge
<1>2. ASSUME NEW flags \in FlagSets, OpenNothing(c, uri, flags) PROVE IInv'
  <2>1. ~Present(objects, o)
    BY <1>2 DEF OpenNothing, OpenDecision
  <2>2. True("absent", Present(objects, o))
    BY <2>1 DEF True
  <2> QED BY <1>2, <1>1, <2>2, OperationSound DEF OpenNothing
<1>3. ASSUME NEW flags \in FlagSets, NEW h \in Handles, OpenFile(c, h, uri, flags) PROVE IInv'
  BY <1>3, OpenFileSound
<1>4. CASE FileExists(c, uri)
  <2> DEFINE k == IF FileExistsAnswer(c, uri) = "yes" THEN "present" ELSE "absent"
  <2>1. k \in Knowledge /\ True(k, Present(objects, o)) /\ Operation(c, objects, o, k)
    BY <1>4 DEF FileExists, FileExistsAnswer, Operates, True, Knowledge
  <2> HIDE DEF k
  <2> QED BY <1>1, <2>1, OperationSound
<1>5. CASE RemoveFile(c, uri)
  <2> DEFINE os == objects \ {o}
             k == RemovalTells(o)
  <2>1. os \in SUBSET Objects /\ Operation(c, os, o, k)
    BY <1>5, <1>1 DEF RemoveFile
  <2>2. k \in Knowledge /\ True(k, Present(os, o))
    BY DEF RemovalTells, Knowledge, True, Present
  <2> HIDE DEF os, k
  <2> QED BY <2>1, <2>2, OperationSound
<1>6. CASE DirectoryExists(c, uri)
  <2> DEFINE k == IF DirectoryExistsAnswer(c, uri) = "throws" THEN "absent" ELSE "present"
  <2>1. uri \in NamedUris /\ Operation(c, objects, o, k)
    BY <1>6 DEF DirectoryExists, Operates
  <2>2. Present(objects, o) <=> DirectoryExistsAnswer(c, uri) # "throws"
    BY <2>1 DEF DirectoryExistsAnswer
  <2>3. k \in Knowledge /\ True(k, Present(objects, o))
    BY <2>2 DEF True, Knowledge
  <2> HIDE DEF k
  <2> QED BY <1>1, <2>1, <2>3, OperationSound
<1>7. CASE CreateDirectory(c, uri)
  <2> DEFINE os == objects \cup {o}
  <2>1. os \in SUBSET Objects
    BY <1>7, <1>1, ReachedIsObject DEF CreateDirectory, Operates, IInv
  <2>2. True("present", Present(os, o)) /\ Operation(c, os, o, "present")
    BY <1>7 DEF True, Present, CreateDirectory
  <2> HIDE DEF os
  <2> QED BY <1>1, <2>1, <2>2, OperationSound
<1>8. CASE ListFiles(c, uri)
  BY <1>8, ListFilesSound
<1> QED BY <1>2, <1>3, <1>4, <1>5, <1>6, <1>7, <1>8 DEF PathStep

LEMMA InitSound == ASSUME Init PROVE IInv
<1>1. Seen
  BY DEF Init, Seen
<1>2. KnownTrue(known, objects)
  BY DEF Init, KnownTrue, NothingKnown, Knowledge, True
<1>3. HandlesTrue(handle, objects) /\ ListingsSound(listing)
  BY DEF Init, HandlesTrue, ListingsSound
<1> QED BY <1>1, <1>2, <1>3 DEF IInv

LEMMA NextSound ==
  ASSUME IInv, [Next]_vars
  PROVE  IInv'
<1>1. CASE UNCHANGED vars
  BY <1>1, StepSound DEF vars, IInv, Seen
<1>2. ASSUME NEW c \in Connections, NEW visible \in {secrets, {}}, Begin(c, visible)
      PROVE  IInv'
  BY <1>2, BeginSound
<1>3. ASSUME NEW c \in Connections, Commit(c) PROVE IInv'
  BY <1>3, CommitSound
<1>4. ASSUME NEW c \in Connections, NEW uri \in Uris, PathStep(c, uri) PROVE IInv'
  BY <1>4, PathStepSound
<1>5. ASSUME NEW c \in Connections, Callback(c) PROVE IInv'
  BY <1>5, CallbackSound
<1>6. ASSUME NEW c \in Connections, EndListing(c) PROVE IInv'
  BY <1>6, EndListingSound
<1>7. ASSUME NEW s \in Secrets, CreateSecret(s) \/ DropSecret(s) PROVE IInv'
  BY <1>7, SecretsSound
<1>8. ASSUME NEW h \in Handles, Stats(h) PROVE IInv'
  BY <1>8, StatsSound
<1>9. ASSUME NEW h \in Handles, CloseHandle(h) PROVE IInv'
  BY <1>9, CloseHandleSound
<1>10. ASSUME NEW o \in Objects, Others(o) PROVE IInv'
  BY <1>10, OthersSound
<1> QED BY <1>1, <1>2, <1>3, <1>4, <1>5, <1>6, <1>7, <1>8, <1>9, <1>10 DEF Next

THEOREM Invariant == Spec => []IInv
<1>1. Init => IInv
  BY InitSound
<1>2. IInv /\ [Next]_vars => IInv'
  BY NextSound
<1> QED BY <1>1, <1>2, PTL DEF Spec

-----------------------------------------------------------------------------
\* Whatever connections do, a handle and a listing name objects the operators of
\* some URI can reach, and nothing is known outside of a transaction.
THEOREM TypeCorrect == Spec => []TypeOK
<1>1. IInv => TypeOK
  <2>1. SUFFICES ASSUME IInv PROVE TypeOK
    OBVIOUS
  <2>2. objects \subseteq Objects /\ secrets \subseteq Secrets
    BY <2>1 DEF IInv, Seen
  <2>3. ASSUME NEW c \in Connections
        PROVE  /\ known[c] \in [NamedUris -> {"unknown", "present", "absent"}]
               /\ IF InTransaction(c) THEN sees[c] \subseteq Secrets
                  ELSE listing[c] = NoListing /\ known[c] = NothingKnown
               /\ listing[c] # NoListing =>
                    listing[c].todo \cup listing[c].reported \cup listing[c].stayed
                      \subseteq Objects
    <3>1. known[c] \in [NamedUris -> {"unknown", "present", "absent"}]
      BY <2>1 DEF IInv, KnownTrue, Knowledge
    <3>2. InTransaction(c) => sees[c] \subseteq Secrets
      BY <2>1 DEF IInv, Seen, InTransaction
    <3>3. ~InTransaction(c) => listing[c] = NoListing /\ known[c] = NothingKnown
      BY <2>1 DEF IInv, KnownTrue, ListingsSound
    <3>4. listing[c] # NoListing => listing[c] \in ListingRecord
      BY <2>1 DEF IInv, ListingsSound, ListingSound
    <3>5. listing[c] # NoListing =>
            listing[c].todo \cup listing[c].reported \cup listing[c].stayed \subseteq Objects
      BY <3>4 DEF ListingRecord
    <3> QED BY <3>1, <3>2, <3>3, <3>5
  <2>4. \A h \in Handles :
          handle[h] = NoHandle
          \/ handle[h] \in [mode : {"read", "write"}, owner : Connections, object : Objects,
                            known : {"unknown", "present", "absent"}]
    BY <2>1 DEF IInv, HandlesTrue, HandleRecord, Knowledge
  <2> QED BY <2>2, <2>3, <2>4 DEF TypeOK
<1> QED BY <1>1, Invariant, PTL

\* With any number of connections, transactions and secrets, FileExists,
\* DirectoryExists and Stats agree with what the caller has found or done before,
\* unless somebody else has put or removed the object.
THEOREM AnswersKnown == Spec => []KnownAnswers
<1>1. IInv => KnownAnswers
  <2>1. SUFFICES ASSUME IInv PROVE KnownAnswers
    OBVIOUS
  <2>2. ASSUME NEW c \in Connections, NEW uri \in NamedUris
        PROVE  /\ known[c][uri] = "present" =>
                    /\ FileExistsAnswer(c, uri) = "yes"
                    /\ DirectoryExistsAnswer(c, uri) # "throws"
               /\ known[c][uri] = "absent" =>
                    FileExistsAnswer(c, uri) = "no" /\ DirectoryExistsAnswer(c, uri) # "yes"
    <3>1. True(known[c][uri], Present(objects, Reached(c, uri)))
      BY <2>1 DEF IInv, KnownTrue
    <3>2. CASE Present(objects, Reached(c, uri))
      BY <3>1, <3>2 DEF True, FileExistsAnswer, DirectoryExistsAnswer
    <3>3. CASE ~Present(objects, Reached(c, uri))
      BY <3>1, <3>3 DEF True, FileExistsAnswer, DirectoryExistsAnswer
    <3> QED BY <3>2, <3>3
  <2>3. ASSUME NEW h \in Handles, handle[h] # NoHandle
        PROVE  /\ handle[h].known = "present" => StatsAnswer(h) = "yes"
               /\ handle[h].known = "absent" => StatsAnswer(h) = "throws"
    BY <2>1, <2>3 DEF IInv, HandlesTrue, HandleTrue, True, StatsAnswer
  <2> QED BY <2>2, <2>3 DEF KnownAnswers
<1> QED BY <1>1, Invariant, PTL

\* However many entries a directory has, and whatever its callbacks and others do,
\* ListFiles tells of each entry once, and of all that stayed.
THEOREM ListingsComplete == Spec => []ListingComplete
<1>1. IInv => ListingComplete
  BY DEF IInv, ListingsSound, ListingSound, ListingComplete
<1> QED BY <1>1, Invariant, PTL

-----------------------------------------------------------------------------
(* What an operator reaches, whatever its secret. *)

\* Of two merged options, the later place wins if it names all the earlier does, and
\* the earlier if the later names none.
LEMMA MergeLocated ==
  ASSUME NEW f, NEW g
  PROVE  /\ DOMAIN g \cap Locating = {} => Located(Merge(f, g)) = Located(f)
         /\ DOMAIN f \cap Locating \subseteq DOMAIN g => Located(Merge(f, g)) = Located(g)
BY DEF Merge, Located

\* DuckDB finds a secret only among those of the URI's type whose scope it has.
LEMMA MatchCovers ==
  ASSUME NEW visible, NEW uri, NEW type, NEW s \in LookupSecret(visible, uri, type)
  PROVE  s \in visible /\ s.type = type /\ \E scope \in s.scopes : uri \in Covers[scope]
BY DEF LookupSecret

\* The options the file system was constructed with name no place but one that every
\* URI names itself.
FixedElsewhere ==
  \A uri \in NamedUris : DOMAIN FixedConfig \cap Locating \subseteq DOMAIN Parsed[uri].config

\* A URI reaches the object it spells, unless a secret made for it moves it.
LEMMA ReachesSpelled ==
  ASSUME FixedElsewhere, NEW uri \in NamedUris, NEW visible \in SUBSET Secrets,
         visible \cap Moving(uri) = {}
  PROVE  ObjectAt(uri, visible) = Spelled(uri)
<1> DEFINE config == Merge(FixedConfig, Parsed[uri].config)
           match == LookupSecret(visible, uri, Parsed[uri].secret_type)
           s == CHOOSE m \in match : TRUE
<1>1. Located(config) = Located(Parsed[uri].config)
  BY MergeLocated DEF FixedElsewhere
<1>2. CASE Parsed[uri].secret_type = NoSecretType \/ match = {}
  BY <1>1, <1>2 DEF ObjectAt, CreateOperatorConfig, Spelled
<1>3. CASE ~(Parsed[uri].secret_type = NoSecretType \/ match = {})
  <2>1. s \in match
    BY <1>3
  <2>2. s \in visible /\ s \notin Moving(uri)
    BY <2>1, MatchCovers
  <2>3. DOMAIN SecretOptions(s) \cap Locating = {}
    BY <2>1, <2>2, MatchCovers DEF Moving
  <2>4. Located(Merge(config, SecretOptions(s))) = Located(config)
    BY <2>3, MergeLocated
  <2>5. CreateOperatorConfig(uri, visible) = Merge(config, SecretOptions(s))
    BY <1>3 DEF CreateOperatorConfig
  <2> QED BY <1>1, <2>4, <2>5 DEF ObjectAt, Spelled
<1> QED BY <1>2, <1>3

\* For any options, secrets and scopes, two URIs that spell different objects reach
\* different ones, unless a secret made for one of them, that the transaction sees,
\* names another place: the merge and the lookup confuse no two objects by themselves.
THEOREM UrisApart == FixedElsewhere => (Spec => []UrisStayApart)
<1> SUFFICES ASSUME FixedElsewhere PROVE Spec => []UrisStayApart
  OBVIOUS
<1>1. IInv => UrisStayApart
  <2>1. SUFFICES ASSUME IInv, NEW c \in Connections,
                        NEW u \in NamedUris, NEW v \in NamedUris \ {u},
                        InTransaction(c), Reached(c, u) = Reached(c, v),
                        sees[c] \cap (Moving(u) \cup Moving(v)) = {}
                 PROVE  Spelled(u) = Spelled(v)
    BY DEF UrisStayApart
  <2>2. sees[c] \in SUBSET Secrets
    BY <2>1 DEF IInv, Seen, InTransaction
  <2>3. Reached(c, u) = ObjectAt(u, sees[c]) /\ Reached(c, v) = ObjectAt(v, sees[c])
    BY <2>2, FoundAssumption DEF Reached, Visible
  <2>4. ObjectAt(u, sees[c]) = Spelled(u) /\ ObjectAt(v, sees[c]) = Spelled(v)
    BY <2>1, <2>2, ReachesSpelled
  <2> QED BY <2>1, <2>3, <2>4
<1> QED BY <1>1, Invariant, PTL
=============================================================================
