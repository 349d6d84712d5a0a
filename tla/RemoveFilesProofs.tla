------------------------- MODULE RemoveFilesProofs -------------------------
(***************************************************************************)
(* Proofs about RemoveFiles, for any URIs, operators, paths and numbers of *)
(* requests, and about the keys it groups them by (RemoveGroupKey), for    *)
(* any strings and numbers of options.                                     *)
(***************************************************************************)
EXTENDS RemoveFiles, RemoveGroupKey, SequenceTheorems, FiniteSetTheorems,
        WellFoundedInduction, TLAPS

-----------------------------------------------------------------------------
(* Lemmas about groups. *)

\* The objects that groups name.
Reach(groups) == UNION {ObjectsOf(groups[i]) : i \in DOMAIN groups}

\* No two groups have one operator.
Apart(groups) ==
  \A i, j \in DOMAIN groups :
    (groups[i].scheme = groups[j].scheme /\ groups[i].config = groups[j].config) => i = j

\* A new group names the one object of the path that founded it.
LEMMA FoundedObject ==
  ASSUME NEW t \in Target, t.path \in Paths
  PROVE  NewGroup(t) \in Group /\ ObjectsOf(NewGroup(t)) = {t}
<1>1. /\ <<t.path>> \in Seq(Paths)
      /\ DOMAIN <<t.path>> = 1 .. 1
      /\ <<t.path>>[1] = t.path
  OBVIOUS
<1>2. t = [scheme |-> t.scheme, config |-> t.config, path |-> t.path]
  BY DEF Target
<1> QED BY <1>1, <1>2 DEF NewGroup, Group, Target, ObjectsOf

\* A path that joins the group of its operator adds its own object, and no other.
LEMMA JoinedObjects ==
  ASSUME NEW g \in Group, NEW t \in Target, t.path \in Paths,
         g.scheme = t.scheme, g.config = t.config
  PROVE  /\ [g EXCEPT !.paths = Append(@, t.path)] \in Group
         /\ ObjectsOf([g EXCEPT !.paths = Append(@, t.path)]) = ObjectsOf(g) \cup {t}
<1> DEFINE n == Len(g.paths)
           p == Append(g.paths, t.path)
<1>1. g.paths \in Seq(Paths)
  BY DEF Group
<1>2. n \in Nat /\ DOMAIN g.paths = 1 .. n
  BY <1>1, LenProperties
<1>3. /\ p \in Seq(Paths)
      /\ Len(p) = n + 1
      /\ \A i \in 1 .. n : p[i] = g.paths[i]
      /\ p[n + 1] = t.path
  BY <1>1, AppendProperties
<1>4. DOMAIN p = 1 .. n + 1
  BY <1>3, LenProperties
<1>5. t = [scheme |-> g.scheme, config |-> g.config, path |-> p[n + 1]]
  BY <1>3 DEF Target
<1>6. [g EXCEPT !.paths = p] \in Group
  BY <1>3 DEF Group
<1>7. ObjectsOf([g EXCEPT !.paths = p])
        = {[scheme |-> g.scheme, config |-> g.config, path |-> p[i]] : i \in 1 .. n + 1}
  BY <1>4 DEF ObjectsOf, Group
<1>8. ObjectsOf(g)
        = {[scheme |-> g.scheme, config |-> g.config, path |-> p[i]] : i \in 1 .. n}
  BY <1>2, <1>3 DEF ObjectsOf
<1>9. 1 .. n + 1 = 1 .. n \cup {n + 1}
  BY <1>2
<1> QED BY <1>5, <1>6, <1>7, <1>8, <1>9

\* One round of the grouping keeps the groups apart, and adds the object of its
\* own path to those the groups name.
LEMMA AddPathSound ==
  ASSUME NEW groups \in Seq(Group), Apart(groups),
         NEW t \in Target, t.path \in Paths
  PROVE  /\ AddPath(groups, t) \in Seq(Group)
         /\ Apart(AddPath(groups, t))
         /\ Reach(AddPath(groups, t)) = Reach(groups) \cup {t}
<1> DEFINE n == Len(groups)
           new == AddPath(groups, t)
<1>1. n \in Nat /\ DOMAIN groups = 1 .. n /\ \A i \in 1 .. n : groups[i] \in Group
  BY LenProperties, ElementOfSeq
<1>2. \A i \in 1 .. n :
        i \in Matching(groups, t)
          <=> groups[i].scheme = t.scheme /\ groups[i].config = t.config
  BY <1>1 DEF Matching, GroupKey
<1>3. Matching(groups, t) \subseteq 1 .. n
  BY <1>1 DEF Matching
<1>4. CASE Matching(groups, t) = {}
  <2>1. new = Append(groups, NewGroup(t))
    BY <1>4 DEF AddPath
  <2>2. NewGroup(t) \in Group /\ ObjectsOf(NewGroup(t)) = {t}
    BY FoundedObject
  <2>3. NewGroup(t).scheme = t.scheme /\ NewGroup(t).config = t.config
    BY DEF NewGroup
  <2> HIDE DEF new
  <2>4. /\ new \in Seq(Group)
        /\ Len(new) = n + 1
        /\ \A i \in 1 .. n : new[i] = groups[i]
        /\ new[n + 1] = NewGroup(t)
    BY <2>1, <2>2, AppendProperties
  <2>5. DOMAIN new = 1 .. n + 1
    BY <2>4, LenProperties
  <2>6. Apart(new)
    BY <1>1, <1>2, <1>4, <2>3, <2>4, <2>5 DEF Apart
  <2>7. ASSUME NEW o PROVE o \in Reach(new) <=> o \in Reach(groups) \cup {t}
    <3>1. o \in Reach(new) <=> \E i \in 1 .. n + 1 : o \in ObjectsOf(new[i])
      BY <2>5 DEF Reach
    <3>2. o \in Reach(groups) <=> \E i \in 1 .. n : o \in ObjectsOf(groups[i])
      BY <1>1 DEF Reach
    <3>3. o \in ObjectsOf(new[n + 1]) <=> o = t
      BY <2>2, <2>4
    <3>4. \A i \in 1 .. n : o \in ObjectsOf(new[i]) <=> o \in ObjectsOf(groups[i])
      BY <2>4
    <3>5. 1 .. n + 1 = 1 .. n \cup {n + 1}
      BY <1>1
    <3> QED BY <3>1, <3>2, <3>3, <3>4, <3>5
  <2> QED BY <2>4, <2>6, <2>7 DEF new
<1>5. CASE Matching(groups, t) # {}
  <2> DEFINE joined(g) == [g EXCEPT !.paths = Append(@, t.path)]
  <2>1. new = [i \in 1 .. n |-> IF i \in Matching(groups, t)
                                THEN joined(groups[i]) ELSE groups[i]]
    BY <1>1, <1>5 DEF AddPath
  <2>2. \A i \in Matching(groups, t) :
          /\ joined(groups[i]) \in Group
          /\ ObjectsOf(joined(groups[i])) = ObjectsOf(groups[i]) \cup {t}
          /\ joined(groups[i]).scheme = groups[i].scheme
          /\ joined(groups[i]).config = groups[i].config
    <3> TAKE i \in Matching(groups, t)
    <3>1. groups[i] \in Group /\ groups[i].scheme = t.scheme
          /\ groups[i].config = t.config
      BY <1>1, <1>2, <1>3
    <3>2. /\ joined(groups[i]) \in Group
          /\ ObjectsOf(joined(groups[i])) = ObjectsOf(groups[i]) \cup {t}
      BY <3>1, JoinedObjects
    <3>3. /\ joined(groups[i]).scheme = groups[i].scheme
          /\ joined(groups[i]).config = groups[i].config
      BY <3>1 DEF Group
    <3> QED BY <3>2, <3>3
  <2> HIDE DEF new, joined
  <2>3. /\ new \in [1 .. n -> Group]
        /\ \A i \in 1 .. n : /\ new[i].scheme = groups[i].scheme
                             /\ new[i].config = groups[i].config
    BY <1>1, <2>1, <2>2
  <2>4. new \in Seq(Group) /\ DOMAIN new = 1 .. n
    BY <1>1, <2>3, SeqDef
  <2>5. Apart(new)
    BY <1>1, <2>3, <2>4 DEF Apart
  <2>6. PICK k \in 1 .. n : k \in Matching(groups, t)
    BY <1>3, <1>5
  <2>7. ASSUME NEW o PROVE o \in Reach(new) <=> o \in Reach(groups) \cup {t}
    <3>1. o \in Reach(new) <=> \E i \in 1 .. n : o \in ObjectsOf(new[i])
      BY <2>4 DEF Reach
    <3>2. o \in Reach(groups) <=> \E i \in 1 .. n : o \in ObjectsOf(groups[i])
      BY <1>1 DEF Reach
    <3>3. \A i \in 1 .. n :
            o \in ObjectsOf(new[i])
              <=> o \in ObjectsOf(groups[i]) \/ (i \in Matching(groups, t) /\ o = t)
      BY <2>1, <2>2
    <3> QED BY <2>6, <3>1, <3>2, <3>3
  <2> QED BY <2>4, <2>5, <2>7 DEF new
<1> QED BY <1>4, <1>5

-----------------------------------------------------------------------------
(* The inductive invariant: what is true of each request at every step. *)

\* The grouping so far: the URIs it has passed are valid, and its groups, no two
\* of them of one operator, name exactly their objects.
GroupingSound(s) ==
  /\ s.grouped <= Len(s.uris)
  /\ \A i \in 1 .. s.grouped : Valid(s.uris[i])
  /\ Apart(s.groups)
  /\ Reach(s.groups) = Named(s.uris, s.grouped)

\* The removal so far: it begins when the grouping has ended, and has deleted the
\* groups it has passed and nothing past the one that threw.
RemovalSound(s) ==
  /\ s.removed <= Len(s.groups)
  /\ s.grouped < Len(s.uris) => s.removed = 0 /\ s.deleted = {}
  /\ s.phase = "returned" => s.grouped = Len(s.uris) /\ s.removed = Len(s.groups)
  /\ \A i \in 1 .. s.removed : ObjectsOf(s.groups[i]) \subseteq s.deleted
  /\ \A o \in s.deleted : \E i \in 1 .. Len(s.groups) :
       /\ o \in ObjectsOf(s.groups[i])
       /\ i <= s.removed + 1
       /\ i = s.removed + 1 => s.phase = "threw"

IInv ==
  /\ TypeOK
  /\ \A r \in Requests : GroupingSound(request[r]) /\ RemovalSound(request[r])

\* A step that replaces one request keeps the invariant if the new one is sound.
LEMMA OneRequest ==
  ASSUME IInv, objects' \subseteq Object,
         NEW r \in Requests, NEW s \in RequestState,
         GroupingSound(s), RemovalSound(s),
         request' = [request EXCEPT ![r] = s]
  PROVE  IInv'
BY DEF IInv, TypeOK

\* A call that has grouped and removed nothing is sound, whatever it was asked for.
LEMMA BlankSound ==
  ASSUME NEW s \in RequestState, s.phase \in {"idle", "running"}, s.grouped = 0,
         s.groups = <<>>, s.removed = 0, s.deleted = {}
  PROVE  GroupingSound(s) /\ RemovalSound(s)
<1>1. s.groups \in Seq(Group) /\ Len(s.groups) = 0 /\ Len(s.uris) \in Nat
  BY EmptySeq, LenProperties DEF RequestState
<1>2. DOMAIN s.groups = {}
  BY <1>1, LenProperties
<1>3. Apart(s.groups) /\ Reach(s.groups) = {} /\ Named(s.uris, 0) = {}
  BY <1>2 DEF Apart, Reach, Named
<1>4. GroupingSound(s)
  <2>1. s.grouped <= Len(s.uris) /\ 1 .. s.grouped = {}
    BY <1>1
  <2> QED BY <1>3, <2>1 DEF GroupingSound
<1>5. RemovalSound(s)
  BY <1>1 DEF RemovalSound
<1> QED BY <1>4, <1>5

LEMMA IdleTyped == Idle \in RequestState
<1>1. <<>> \in Seq(Uris) /\ <<>> \in Seq(Group)
  BY EmptySeq
<1> QED BY <1>1 DEF Idle, RequestState

\* The operator of a group reaches objects only.
LEMMA GroupReaches == \A g \in Group : ObjectsOf(g) \subseteq Object
<1> SUFFICES ASSUME NEW g \in Group, NEW i \in DOMAIN g.paths PROVE g.paths[i] \in Paths
  BY DEF ObjectsOf, Object, Group
<1>1. g.paths \in Seq(Paths)
  BY DEF Group
<1> QED BY <1>1, LenProperties

\* What a call in progress knows of its own state.
LEMMA RequestTyped ==
  ASSUME IInv, NEW r \in Requests
  PROVE  LET s == request[r] IN
         /\ s \in RequestState
         /\ s.uris \in Seq(Uris) /\ Len(s.uris) \in Nat
         /\ \A i \in 1 .. Len(s.uris) : s.uris[i] \in Uris
         /\ s.groups \in Seq(Group) /\ Len(s.groups) \in Nat
         /\ \A i \in 1 .. Len(s.groups) : s.groups[i] \in Group
         /\ DOMAIN s.groups = 1 .. Len(s.groups)
         /\ s.grouped \in Nat /\ s.removed \in Nat /\ s.deleted \subseteq Object
         /\ GroupingSound(s) /\ RemovalSound(s)
<1>1. request[r] \in RequestState /\ GroupingSound(request[r]) /\ RemovalSound(request[r])
  BY DEF IInv, TypeOK
<1>2. /\ request[r].uris \in Seq(Uris) /\ request[r].groups \in Seq(Group)
      /\ request[r].grouped \in Nat /\ request[r].removed \in Nat
      /\ request[r].deleted \subseteq Object
  BY <1>1 DEF RequestState
<1>3. /\ Len(request[r].uris) \in Nat
      /\ \A i \in 1 .. Len(request[r].uris) : request[r].uris[i] \in Uris
  BY <1>2, LenProperties, ElementOfSeq
<1>4. /\ Len(request[r].groups) \in Nat
      /\ \A i \in 1 .. Len(request[r].groups) : request[r].groups[i] \in Group
      /\ DOMAIN request[r].groups = 1 .. Len(request[r].groups)
  BY <1>2, LenProperties, ElementOfSeq
<1> QED BY <1>1, <1>2, <1>3, <1>4

LEMMA InvInit == Init => IInv
<1> SUFFICES ASSUME Init PROVE IInv
  OBVIOUS
<1>1. /\ Idle.phase = "idle" /\ Idle.grouped = 0 /\ Idle.groups = <<>>
      /\ Idle.removed = 0 /\ Idle.deleted = {}
  BY DEF Idle
<1>2. GroupingSound(Idle) /\ RemovalSound(Idle)
  BY <1>1, IdleTyped, BlankSound
<1> QED BY <1>2, IdleTyped DEF Init, IInv, TypeOK

LEMMA StartInv ==
  ASSUME IInv, NEW r \in Requests, NEW n \in 0 .. MaxUris, NEW uris \in [1 .. n -> Uris],
         Start(r, uris)
  PROVE  IInv'
<1> DEFINE s == [Idle EXCEPT !.phase = "running", !.uris = uris]
<1>1. uris \in Seq(Uris)
  BY RemoveAssumption, SeqDef
<1>2. s \in RequestState
  BY <1>1, IdleTyped DEF RequestState
<1>4. /\ s.phase = "running" /\ s.grouped = 0 /\ s.groups = <<>>
      /\ s.removed = 0 /\ s.deleted = {}
  BY DEF Idle
<1>5. GroupingSound(s) /\ RemovalSound(s)
  BY <1>2, <1>4, BlankSound
<1>3. request' = [request EXCEPT ![r] = s] /\ objects' \subseteq Object
  BY DEF Start, IInv, TypeOK
<1> QED BY <1>2, <1>3, <1>5, OneRequest

\* One more URI is grouped.
LEMMA GroupPathInv ==
  ASSUME IInv, NEW r \in Requests, GroupPath(r)
  PROVE  IInv'
<1> DEFINE q == request[r]
           uri == q.uris[q.grouped + 1]
           s == [q EXCEPT !.grouped = @ + 1, !.groups = AddPath(@, Locate[uri])]
<1>1. /\ q \in RequestState
      /\ q.uris \in Seq(Uris) /\ Len(q.uris) \in Nat
      /\ \A i \in 1 .. Len(q.uris) : q.uris[i] \in Uris
      /\ q.groups \in Seq(Group)
      /\ q.grouped \in Nat
      /\ GroupingSound(q) /\ RemovalSound(q)
  BY RequestTyped
<1>2. q.phase = "running" /\ q.grouped < Len(q.uris) /\ Valid(uri)
  BY DEF GroupPath, Ungrouped
<1>3. q.grouped + 1 \in 1 .. Len(q.uris) /\ uri \in Uris
  BY <1>1, <1>2
<1>4. Locate[uri] \in Target /\ Locate[uri].path \in Paths
  BY <1>2, <1>3, RemoveAssumption DEF Valid, Target
<1> HIDE DEF uri
<1>5. /\ AddPath(q.groups, Locate[uri]) \in Seq(Group)
      /\ Apart(AddPath(q.groups, Locate[uri]))
      /\ Reach(AddPath(q.groups, Locate[uri])) = Reach(q.groups) \cup {Locate[uri]}
  BY <1>1, <1>4, AddPathSound DEF GroupingSound
<1>6. 1 .. q.grouped + 1 = 1 .. q.grouped \cup {q.grouped + 1}
  BY <1>1
<1>7. Named(q.uris, q.grouped + 1) = Named(q.uris, q.grouped) \cup {Locate[uri]}
  BY <1>6 DEF Named, uri
<1>8. /\ s \in RequestState
      /\ s.phase = "running" /\ s.uris = q.uris /\ s.grouped = q.grouped + 1
      /\ s.groups = AddPath(q.groups, Locate[uri])
      /\ s.removed = q.removed /\ s.deleted = q.deleted
  <2> DEFINE new == AddPath(q.groups, Locate[uri])
  <2>1. q \in RequestState /\ q.grouped + 1 \in Nat /\ new \in Seq(Group)
        /\ q.phase = "running"
    BY <1>1, <1>2, <1>5
  <2> HIDE DEF new, q
  <2>2. [q EXCEPT !.grouped = q.grouped + 1, !.groups = new] \in RequestState
    BY <2>1 DEF RequestState
  <2>3. LET e == [q EXCEPT !.grouped = q.grouped + 1, !.groups = new] IN
        /\ e.phase = "running" /\ e.uris = q.uris /\ e.grouped = q.grouped + 1
        /\ e.groups = new /\ e.removed = q.removed /\ e.deleted = q.deleted
    BY <2>1 DEF RequestState
  <2> QED BY <2>2, <2>3 DEF new
<1>9. \A i \in 1 .. q.grouped + 1 : Valid(q.uris[i])
  BY <1>1, <1>2, <1>6 DEF GroupingSound, uri
<1> HIDE DEF q, s
<1>10. GroupingSound(s)
  <2>1. s.grouped <= Len(s.uris)
    BY <1>1, <1>3, <1>8
  <2>2. \A i \in 1 .. s.grouped : Valid(s.uris[i])
    BY <1>8, <1>9
  <2>3. Reach(q.groups) = Named(q.uris, q.grouped)
    BY <1>1 DEF GroupingSound
  <2>4. Apart(s.groups) /\ Reach(s.groups) = Named(s.uris, s.grouped)
    BY <1>5, <1>7, <1>8, <2>3
  <2> QED BY <2>1, <2>2, <2>4 DEF GroupingSound
<1>11. q.removed = 0 /\ q.deleted = {}
  BY <1>1, <1>2 DEF RemovalSound
<1>12. Len(s.groups) \in Nat
  BY <1>5, <1>8, LenProperties
<1>13. RemovalSound(s)
  BY <1>8, <1>11, <1>12 DEF RemovalSound
<1>14. request' = [request EXCEPT ![r] = s] /\ objects' \subseteq Object
  BY DEF GroupPath, IInv, TypeOK, s, q, uri
<1> QED BY <1>8, <1>10, <1>13, <1>14, OneRequest

\* A call that ends changes nothing but its phase.
LEMMA EndInv ==
  ASSUME IInv, NEW r \in Requests, GroupPathThrows(r) \/ Return(r)
  PROVE  IInv'
<1> DEFINE q == request[r]
<1>1. /\ q \in RequestState
      /\ Len(q.uris) \in Nat /\ q.grouped \in Nat
      /\ q.removed \in Nat /\ Len(q.groups) \in Nat
      /\ GroupingSound(q) /\ RemovalSound(q)
  BY RequestTyped
<1>2. q.phase = "running" /\ objects' \subseteq Object
  BY DEF GroupPathThrows, Ungrouped, Return, IInv, TypeOK
<1>3. PICK p \in {"threw", "returned"} :
        /\ request' = [request EXCEPT ![r] = [q EXCEPT !.phase = p]]
        /\ p = "returned" => q.grouped = Len(q.uris) /\ q.removed = Len(q.groups)
  <2>1. CASE GroupPathThrows(r)
    <3>1. request' = [request EXCEPT ![r] = [q EXCEPT !.phase = "threw"]]
      BY <2>1 DEF GroupPathThrows
    <3> QED BY <3>1
  <2>2. CASE Return(r)
    <3>1. request' = [request EXCEPT ![r] = [q EXCEPT !.phase = "returned"]]
      BY <2>2 DEF Return
    <3> QED BY <2>2, <3>1 DEF Return
  <2> QED BY <2>1, <2>2
<1> DEFINE s == [q EXCEPT !.phase = p]
<1> HIDE DEF q
<1>4. /\ s \in RequestState
      /\ s.phase = p /\ s.uris = q.uris /\ s.grouped = q.grouped
      /\ s.groups = q.groups /\ s.removed = q.removed /\ s.deleted = q.deleted
  BY <1>1 DEF RequestState
<1>5. request' = [request EXCEPT ![r] = s]
  BY <1>3
<1> HIDE DEF s
<1>6. GroupingSound(s)
  BY <1>1, <1>4 DEF GroupingSound
<1>7. RemovalSound(s)
  BY <1>1, <1>2, <1>3, <1>4 DEF RemovalSound
<1> QED BY <1>2, <1>4, <1>5, <1>6, <1>7, OneRequest

\* A group is removed, or a part of it before RemoveAll throws.
LEMMA RemovalInv ==
  ASSUME IInv, NEW r \in Requests, RemoveGroup(r) \/ RemoveGroupThrows(r)
  PROVE  IInv'
<1> DEFINE q == request[r]
           group == q.groups[q.removed + 1]
<1>1. /\ q \in RequestState
      /\ Len(q.uris) \in Nat /\ q.grouped \in Nat /\ q.deleted \subseteq Object
      /\ q.removed \in Nat /\ Len(q.groups) \in Nat
      /\ \A i \in 1 .. Len(q.groups) : q.groups[i] \in Group
      /\ GroupingSound(q) /\ RemovalSound(q)
  BY RequestTyped
<1>2. /\ q.phase = "running" /\ q.grouped = Len(q.uris)
      /\ q.removed < Len(q.groups)
  BY DEF RemoveGroup, RemoveGroupThrows, Unremoved
<1>3. q.removed + 1 \in 1 .. Len(q.groups) /\ ObjectsOf(group) \subseteq Object
  BY <1>1, <1>2, GroupReaches
<1>4. objects \subseteq Object
  BY DEF IInv, TypeOK
<1>5. CASE RemoveGroup(r)
  <2> DEFINE d == q.deleted \cup ObjectsOf(group)
             s == [q EXCEPT !.removed = q.removed + 1, !.deleted = d]
  <2>1. request' = [request EXCEPT ![r] = s] /\ objects' \subseteq Object
    BY <1>4, <1>5 DEF RemoveGroup
  <2>2. q.removed + 1 \in Nat /\ d \subseteq Object
    BY <1>1, <1>3
  <2> HIDE DEF q, d
  <2>3. /\ s \in RequestState
        /\ s.phase = q.phase /\ s.uris = q.uris /\ s.grouped = q.grouped
        /\ s.groups = q.groups /\ s.removed = q.removed + 1 /\ s.deleted = d
    BY <1>1, <2>2 DEF RequestState
  <2> HIDE DEF s
  <2>4. GroupingSound(s)
    BY <1>1, <2>3 DEF GroupingSound
  <2>5. \A i \in 1 .. q.removed + 1 : ObjectsOf(q.groups[i]) \subseteq d
    BY <1>1 DEF RemovalSound, d
  <2>6. \A o \in d : \E i \in 1 .. Len(q.groups) :
          o \in ObjectsOf(q.groups[i]) /\ i <= q.removed + 1
    BY <1>1, <1>3 DEF RemovalSound, d
  <2>7. RemovalSound(s)
    <3>1. /\ s.removed <= Len(s.groups)
          /\ ~(s.grouped < Len(s.uris)) /\ s.phase # "returned"
      BY <1>1, <1>2, <2>3
    <3>2. \A o \in s.deleted : \E i \in 1 .. Len(s.groups) :
            o \in ObjectsOf(s.groups[i]) /\ i <= s.removed /\ i <= s.removed + 1
            /\ i # s.removed + 1
      BY <1>1, <2>3, <2>6
    <3>3. \A i \in 1 .. s.removed : ObjectsOf(s.groups[i]) \subseteq s.deleted
      BY <2>3, <2>5
    <3> QED BY <3>1, <3>2, <3>3 DEF RemovalSound
  <2> QED BY <2>1, <2>3, <2>4, <2>7, OneRequest
<1>6. CASE RemoveGroupThrows(r)
  <2>1. PICK gone \in SUBSET ObjectsOf(group) :
          /\ objects' = objects \ gone
          /\ request' = [request EXCEPT ![r].phase = "threw",
                                        ![r].deleted = @ \cup gone]
    BY <1>6 DEF RemoveGroupThrows
  <2> DEFINE d == q.deleted \cup gone
             s == [q EXCEPT !.phase = "threw", !.deleted = d]
  <2>2. request' = [request EXCEPT ![r] = s] /\ objects' \subseteq Object
    BY <1>4, <2>1
  <2>3. d \subseteq Object
    BY <1>1, <1>3
  <2> HIDE DEF q, d
  <2>4. /\ s \in RequestState
        /\ s.phase = "threw" /\ s.uris = q.uris /\ s.grouped = q.grouped
        /\ s.groups = q.groups /\ s.removed = q.removed /\ s.deleted = d
    BY <1>1, <2>3 DEF RequestState
  <2> HIDE DEF s
  <2>5. GroupingSound(s)
    BY <1>1, <2>4 DEF GroupingSound
  <2>6. \A o \in d : \E i \in 1 .. Len(q.groups) :
          o \in ObjectsOf(q.groups[i]) /\ i <= q.removed + 1
    BY <1>1, <1>3 DEF RemovalSound, d
  <2>7. RemovalSound(s)
    <3>1. /\ s.removed <= Len(s.groups)
          /\ ~(s.grouped < Len(s.uris))
      BY <1>1, <1>2, <2>4
    <3>2. \A i \in 1 .. s.removed : ObjectsOf(s.groups[i]) \subseteq s.deleted
      BY <1>1, <2>4 DEF RemovalSound, d
    <3> QED BY <2>4, <2>6, <3>1, <3>2 DEF RemovalSound
  <2> QED BY <2>2, <2>4, <2>5, <2>7, OneRequest
<1> QED BY <1>5, <1>6

LEMMA InvNext == IInv /\ [Next]_vars => IInv'
<1> SUFFICES ASSUME IInv, [Next]_vars PROVE IInv'
  OBVIOUS
<1>1. CASE \E o \in Object : Create(o)
  BY <1>1 DEF Create, IInv, TypeOK
<1>2. CASE UNCHANGED vars
  BY <1>2 DEF vars, IInv, TypeOK
<1> QED BY <1>1, <1>2, StartInv, GroupPathInv, EndInv, RemovalInv DEF Next

LEMMA Invariant == Spec => []IInv
BY InvInit, InvNext, PTL DEF Spec

-----------------------------------------------------------------------------
(* The classes of a request's URIs. *)

\* A set of naturals has a least element.
LEMMA LeastOf ==
  ASSUME NEW T, T \subseteq Nat, T # {}
  PROVE  \E m \in T : \A n \in T : m <= n
<1> DEFINE R == OpToRel(<, Nat)
<1>1. IsWellFoundedOn(R, Nat)
  BY NatLessThanWellFounded
<1>2. \A a, b \in Nat : <<a, b>> \in R <=> a < b
  BY DEF OpToRel
<1> HIDE DEF R
<1>3. PICK m \in T : \A n \in T : ~(<<n, m>> \in R)
  BY <1>1, WFMin
<1>4. ASSUME NEW n \in T PROVE m <= n
  <2>1. n \in Nat /\ m \in Nat
    OBVIOUS
  <2>2. ~(n < m)
    BY <1>2, <1>3, <2>1
  <2> QED BY <2>1, <2>2
<1> QED BY <1>4

\* The ranks of a finite set of positions are those up to its size.
LEMMA Ranks ==
  ASSUME NEW n \in Nat, NEW S, S \subseteq 1 .. n
  PROVE  /\ IsFiniteSet(S) /\ Cardinality(S) \in Nat
         /\ \A i \in S : Rank(i, S) \in 1 .. Cardinality(S)
<1>1. IsFiniteSet(1 .. n)
  BY FS_Interval
<1>2. IsFiniteSet(S) /\ Cardinality(S) \in Nat
  BY <1>1, FS_Subset, FS_CardinalityType
<1>3. ASSUME NEW i \in S PROVE Rank(i, S) \in 1 .. Cardinality(S)
  <2> DEFINE T == {k \in S : k <= i}
  <2>1. T \subseteq S /\ i \in T
    OBVIOUS
  <2> HIDE DEF T
  <2>2. IsFiniteSet(T) /\ Cardinality(T) \in Nat /\ Cardinality(T) <= Cardinality(S)
    BY <1>2, <2>1, FS_Subset, FS_CardinalityType
  <2>3. Cardinality(T) # 0
    BY <2>1, <2>2, FS_EmptySet
  <2> QED BY <1>2, <2>2, <2>3 DEF T, Rank
<1> QED BY <1>2, <1>3

\* The next position comes last, and moves no other.
LEMMA NextRank ==
  ASSUME NEW n \in Nat, NEW S, S \subseteq 1 .. n
  PROVE  LET more == S \cup {n + 1} IN
         /\ Cardinality(more) = Cardinality(S) + 1
         /\ Rank(n + 1, more) = Cardinality(S) + 1
         /\ \A i \in 1 .. n : Rank(i, more) = Rank(i, S)
<1> DEFINE more == S \cup {n + 1}
<1>1. \A k \in S : k \in Nat /\ k <= n
  OBVIOUS
<1>2. Cardinality(more) = Cardinality(S) + 1
  <2>1. IsFiniteSet(S)
    BY Ranks
  <2>2. n + 1 \notin S
    BY <1>1
  <2> QED BY <2>1, <2>2, FS_AddElement
<1>3. {k \in more : k <= n + 1} = more
  <2>1. \A k \in more : k <= n + 1
    BY <1>1
  <2> QED BY <2>1
<1>4. \A i \in 1 .. n : {k \in more : k <= i} = {k \in S : k <= i}
  BY <1>1
<1> QED BY <1>2, <1>3, <1>4 DEF Rank

\* Of every class the first is a founder.
LEMMA HasFounder ==
  ASSUME NEW uris, NEW n \in Nat, NEW i \in 1 .. n
  PROVE  \E f \in Founders(uris, n) : SameOperator(uris, f, i)
<1> DEFINE T == {j \in 1 .. n : SameOperator(uris, j, i)}
<1>1. T \subseteq Nat /\ i \in T
  BY DEF SameOperator
<1>2. PICK f \in T : \A j \in T : f <= j
  BY <1>1, LeastOf
<1>3. f \in 1 .. n /\ SameOperator(uris, f, i)
  OBVIOUS
<1>4. ASSUME NEW j \in 1 .. f - 1, SameOperator(uris, j, f) PROVE FALSE
  <2>1. j \in 1 .. n /\ SameOperator(uris, j, i)
    BY <1>3, <1>4 DEF SameOperator
  <2>2. f <= j
    BY <1>2, <2>1
  <2> QED BY <1>3, <2>2
<1> QED BY <1>3, <1>4 DEF Founders

\* The next URI joins the members of its own class, and no others.
LEMMA NextMember ==
  ASSUME NEW uris, NEW n \in Nat, NEW i
  PROVE  Members(uris, n + 1, i) = IF SameOperator(uris, n + 1, i)
                                   THEN Members(uris, n, i) \cup {n + 1}
                                   ELSE Members(uris, n, i)
<1>1. 1 .. n + 1 = 1 .. n \cup {n + 1}
  OBVIOUS
<1> QED BY <1>1 DEF Members

\* It founds a class if none of the others is of its operator.
LEMMA NextFounder ==
  ASSUME NEW uris, NEW n \in Nat
  PROVE  Founders(uris, n + 1) = IF \A j \in 1 .. n : ~SameOperator(uris, j, n + 1)
                                 THEN Founders(uris, n) \cup {n + 1}
                                 ELSE Founders(uris, n)
<1>1. 1 .. n + 1 = 1 .. n \cup {n + 1} /\ 1 .. (n + 1) - 1 = 1 .. n
  OBVIOUS
<1> QED BY <1>1 DEF Founders

\* Every group holds a path.
Filled(groups) == \A g \in DOMAIN groups : Len(groups[g].paths) >= 1

\* One round of the grouping refines the classes of n URIs to those of n + 1.
LEMMA PartitionGrows ==
  ASSUME NEW s, NEW e, NEW n \in Nat, NEW t \in Target, t.path \in Paths,
         s.grouped = n, e.grouped = n + 1, e.uris = s.uris, t = Locate[s.uris[n + 1]],
         \A i \in 1 .. n : Locate[s.uris[i]] \in Target,
         s.groups \in Seq(Group), e.groups = AddPath(s.groups, t),
         Apart(s.groups), Filled(s.groups), Reach(s.groups) = Named(s.uris, n),
         Partition(s)
  PROVE  Partition(e) /\ Filled(e.groups)
<1> DEFINE groups == s.groups
           new == e.groups
           m == Len(groups)
           uris == s.uris
           founders == Founders(uris, n)
           Same(i, j) == SameOperator(uris, i, j)
<1>1. m \in Nat /\ DOMAIN groups = 1 .. m /\ \A g \in 1 .. m : groups[g] \in Group
  BY LenProperties, ElementOfSeq
<1>2. \A g \in 1 .. m :
        g \in Matching(groups, t)
          <=> groups[g].scheme = t.scheme /\ groups[g].config = t.config
  BY <1>1 DEF Matching, GroupKey
<1>3. Matching(groups, t) \subseteq 1 .. m
  BY <1>1 DEF Matching
<1>4. founders \subseteq 1 .. n /\ \A i : Members(uris, n, i) \subseteq 1 .. n
  BY DEF Founders, Members
<1>5. /\ m = Cardinality(founders)
      /\ \A i \in founders :
           /\ Rank(i, founders) \in 1 .. m
           /\ groups[Rank(i, founders)].scheme = Locate[uris[i]].scheme
           /\ groups[Rank(i, founders)].config = Locate[uris[i]].config
           /\ Len(groups[Rank(i, founders)].paths) = Cardinality(Members(uris, n, i))
           /\ \A j \in Members(uris, n, i) :
                groups[Rank(i, founders)].paths[Rank(j, Members(uris, n, i))]
                  = Locate[uris[j]].path
  BY <1>4, Ranks DEF Partition
\* A group of the operator of the next URI is that of the class the URI is in.
<1>6. ASSUME NEW g \in Matching(groups, t) PROVE \E i \in 1 .. n : Same(i, n + 1)
  <2>1. g \in 1 .. m /\ groups[g].scheme = t.scheme /\ groups[g].config = t.config
    BY <1>2, <1>3
  <2>2. groups[g].paths \in Seq(Paths) /\ Len(groups[g].paths) >= 1
    BY <1>1, <2>1 DEF Filled, Group
  <2>3. 1 \in DOMAIN groups[g].paths
    BY <2>2, LenProperties
  <2> DEFINE o == [scheme |-> groups[g].scheme, config |-> groups[g].config,
                   path |-> groups[g].paths[1]]
  <2>4. o \in Reach(groups)
    <3>1. o \in ObjectsOf(groups[g])
      BY <2>3 DEF ObjectsOf
    <3> HIDE DEF o
    <3> QED BY <1>1, <2>1, <3>1 DEF Reach
  <2>5. PICK i \in 1 .. n : o = Locate[uris[i]]
    BY <2>4 DEF Named
  <2>6. Locate[uris[i]].scheme = t.scheme /\ Locate[uris[i]].config = t.config
    BY <2>1, <2>5
  <2> QED BY <2>6 DEF SameOperator
<1>7. ASSUME NEW i \in 1 .. n, Same(i, n + 1)
      PROVE  \E f \in founders : Rank(f, founders) \in Matching(groups, t) /\ Same(f, n + 1)
  <2>1. PICK f \in founders : Same(f, i)
    BY HasFounder
  <2>2. Same(f, n + 1)
    BY <1>7, <2>1 DEF SameOperator
  <2> QED BY <1>2, <1>5, <2>2 DEF SameOperator
<1>8. ASSUME NEW i, NEW j, Same(i, j) PROVE Same(j, i)
  BY <1>8 DEF SameOperator
<1>0. \A g \in 1 .. m : Len(groups[g].paths) >= 1
  BY <1>1 DEF Filled
<1> HIDE DEF groups, new, m, uris, founders, Same
<1>9. CASE Matching(groups, t) = {}
  <2>1. new = Append(groups, NewGroup(t))
    BY <1>9 DEF AddPath, new, groups
  <2>2. /\ NewGroup(t).scheme = t.scheme /\ NewGroup(t).config = t.config
        /\ NewGroup(t).paths = <<t.path>> /\ NewGroup(t) \in Group
    BY FoundedObject DEF NewGroup
  <2>3. /\ Len(new) = m + 1 /\ DOMAIN new = 1 .. m + 1
        /\ \A g \in 1 .. m : new[g] = groups[g]
        /\ new[m + 1] = NewGroup(t)
    BY <2>1, <2>2, AppendProperties, LenProperties DEF groups, m
  <2>4. \A i \in 1 .. n : ~Same(i, n + 1) /\ ~Same(n + 1, i)
    BY <1>7, <1>8, <1>9
  <2>5. Founders(uris, n + 1) = founders \cup {n + 1}
    BY <2>4, NextFounder DEF founders, Same
  <2>6. \A i \in 1 .. n : Members(uris, n + 1, i) = Members(uris, n, i)
    BY <2>4, NextMember DEF Same
  <2>7. Members(uris, n, n + 1) = {}
    BY <2>4 DEF Members, Same
  <2>8. Members(uris, n + 1, n + 1) = {n + 1}
    <3>1. SameOperator(uris, n + 1, n + 1)
      BY DEF SameOperator
    <3>2. Members(uris, n + 1, n + 1) = Members(uris, n, n + 1) \cup {n + 1}
      BY <3>1, NextMember
    <3> QED BY <2>7, <3>2
  <2>9. /\ Cardinality(founders \cup {n + 1}) = m + 1
        /\ Rank(n + 1, founders \cup {n + 1}) = m + 1
        /\ \A i \in founders : Rank(i, founders \cup {n + 1}) = Rank(i, founders)
    <3>1. /\ Cardinality(founders \cup {n + 1}) = Cardinality(founders) + 1
          /\ Rank(n + 1, founders \cup {n + 1}) = Cardinality(founders) + 1
          /\ \A i \in 1 .. n : Rank(i, founders \cup {n + 1}) = Rank(i, founders)
      BY <1>4, NextRank
    <3>2. m = Cardinality(founders)
      BY <1>5
    <3> QED BY <1>4, <3>1, <3>2
  <2>10. Cardinality({n + 1}) = 1 /\ Rank(n + 1, {n + 1}) = 1
    <3>1. Cardinality({n + 1}) = 1
      BY FS_Singleton
    <3>2. {k \in {n + 1} : k <= n + 1} = {n + 1}
      OBVIOUS
    <3> QED BY <3>1, <3>2 DEF Rank
  <2>11. Filled(new)
    <3>1. Len(NewGroup(t).paths) = 1
      BY <2>2
    <3>3. ASSUME NEW g \in 1 .. m + 1 PROVE Len(new[g].paths) >= 1
      <4>1. CASE g \in 1 .. m
        <5>1. new[g] = groups[g]
          BY <2>3, <4>1
        <5> QED BY <1>0, <4>1, <5>1
      <4>2. CASE g = m + 1
        <5>1. new[g] = NewGroup(t)
          BY <2>3, <4>2
        <5>2. Len(new[g].paths) = 1
          BY <3>1, <5>1
        <5> QED BY <5>2
      <4>3. g \in 1 .. m \/ g = m + 1
        BY <1>1, <3>3
      <4> QED BY <4>1, <4>2, <4>3
    <3> QED BY <2>3, <3>3 DEF Filled
  <2>12. ASSUME NEW i \in Founders(uris, n + 1)
         PROVE  LET members == Members(uris, n + 1, i)
                    group == new[Rank(i, Founders(uris, n + 1))]
                IN /\ group.scheme = Locate[uris[i]].scheme
                   /\ group.config = Locate[uris[i]].config
                   /\ Len(group.paths) = Cardinality(members)
                   /\ \A j \in members : group.paths[Rank(j, members)] = Locate[uris[j]].path
    <3>1. CASE i \in founders
      <4>1. new[Rank(i, Founders(uris, n + 1))] = groups[Rank(i, founders)]
        <5>1. Rank(i, Founders(uris, n + 1)) = Rank(i, founders)
          BY <2>5, <2>9, <3>1
        <5>2. Rank(i, founders) \in 1 .. m
          BY <1>5, <3>1
        <5> QED BY <2>3, <5>1, <5>2
      <4>2. Members(uris, n + 1, i) = Members(uris, n, i)
        BY <1>4, <2>6, <3>1
      <4> DEFINE members == Members(uris, n, i)
                 group == groups[Rank(i, founders)]
      <4>3. /\ group.scheme = Locate[uris[i]].scheme
            /\ group.config = Locate[uris[i]].config
            /\ Len(group.paths) = Cardinality(members)
            /\ \A j \in members : group.paths[Rank(j, members)] = Locate[uris[j]].path
        BY <1>5, <3>1
      <4> HIDE DEF members, group
      <4>4. /\ new[Rank(i, Founders(uris, n + 1))] = group
            /\ Members(uris, n + 1, i) = members
        BY <4>1, <4>2 DEF members, group
      <4> QED BY <4>3, <4>4
    <3>2. CASE i = n + 1
      <4>1. new[Rank(i, Founders(uris, n + 1))] = NewGroup(t)
        BY <2>3, <2>5, <2>9, <3>2
      <4>2. Len(<<t.path>>) = 1 /\ <<t.path>>[1] = t.path
        OBVIOUS
      <4>3. t = Locate[uris[n + 1]]
        BY DEF uris
      <4> DEFINE members == Members(uris, n + 1, i)
                 group == new[Rank(i, Founders(uris, n + 1))]
      <4>4. members = {n + 1}
        BY <2>8, <3>2
      <4>5. group.scheme = Locate[uris[i]].scheme /\ group.config = Locate[uris[i]].config
        BY <2>2, <3>2, <4>1, <4>3
      <4>6. group.paths = <<t.path>>
        BY <2>2, <4>1
      <4> HIDE DEF members, group
      <4>7. Len(group.paths) = Cardinality(members)
        BY <2>10, <4>2, <4>4, <4>6
      <4>8. ASSUME NEW j \in members
            PROVE  group.paths[Rank(j, members)] = Locate[uris[j]].path
        <5>1. j = n + 1
          BY <4>4, <4>8
        <5>2. Rank(j, members) = 1
          BY <2>10, <4>4, <5>1
        <5> QED BY <4>2, <4>3, <4>6, <5>1, <5>2
      <4> QED BY <4>5, <4>7, <4>8 DEF members, group
    <3> QED BY <2>5, <3>1, <3>2
  <2>13. Len(new) = Cardinality(Founders(uris, n + 1))
    BY <2>3, <2>5, <2>9
  <2>14. e.uris = uris /\ e.grouped = n + 1 /\ e.groups = new
    BY DEF new, uris
  <2>15. Partition(e)
    BY <2>12, <2>13, <2>14 DEF Partition
  <2> QED BY <2>11, <2>14, <2>15
<1>10. CASE Matching(groups, t) # {}
  <2>1. PICK g \in Matching(groups, t), f \in founders :
          g = Rank(f, founders) /\ Same(f, n + 1)
    <3>1. PICK i \in 1 .. n : Same(i, n + 1)
      BY <1>6, <1>10
    <3> QED BY <1>7, <3>1
  <2>2. g \in 1 .. m /\ groups[g].scheme = t.scheme /\ groups[g].config = t.config
    BY <1>2, <1>3
  <2>3. Matching(groups, t) = {g}
    BY <1>1, <1>2, <1>3, <2>2 DEF Apart, groups
  <2> DEFINE joined == [groups[g] EXCEPT !.paths = Append(@, t.path)]
             paths == groups[g].paths
  <2>4. new = [i \in 1 .. m |-> IF i = g THEN joined ELSE groups[i]]
    BY <1>1, <1>10, <2>3 DEF AddPath, new, groups
  <2>5. /\ DOMAIN new = 1 .. m /\ Len(new) = m
        /\ new[g] = joined /\ \A i \in 1 .. m \ {g} : new[i] = groups[i]
    BY <1>1, <2>2, <2>4
  <2>6. paths \in Seq(Paths) /\ Len(paths) \in Nat
    BY <1>1, <2>2, LenProperties DEF Group
  <2>7. /\ joined.scheme = t.scheme /\ joined.config = t.config
        /\ joined.paths = Append(paths, t.path)
    BY <1>1, <2>2 DEF Group
  <2>8. /\ Len(joined.paths) = Len(paths) + 1
        /\ \A i \in 1 .. Len(paths) : joined.paths[i] = paths[i]
        /\ joined.paths[Len(paths) + 1] = t.path
    BY <2>6, <2>7, AppendProperties
  <2> HIDE DEF joined, paths
  <2>9. Founders(uris, n + 1) = founders
    <3>1. f \in 1 .. n
      BY <1>4
    <3> QED BY <2>1, <3>1, NextFounder DEF founders, Same
  <2>10. Filled(new)
    <3>1. Len(joined.paths) >= 1
      BY <2>6, <2>8
    <3> QED BY <1>0, <2>5, <3>1 DEF Filled
  <2>11. ASSUME NEW i \in founders
         PROVE  LET members == Members(uris, n + 1, i)
                    group == new[Rank(i, founders)]
                IN /\ group.scheme = Locate[uris[i]].scheme
                   /\ group.config = Locate[uris[i]].config
                   /\ Len(group.paths) = Cardinality(members)
                   /\ \A j \in members : group.paths[Rank(j, members)] = Locate[uris[j]].path
    <3>1. i \in 1 .. n
      BY <1>4
    <3>2. CASE Same(n + 1, i)
      <4>1. Rank(i, founders) \in Matching(groups, t)
        BY <1>2, <1>5, <3>2 DEF Same, SameOperator, uris
      <4>2. Rank(i, founders) = g
        BY <2>3, <4>1
      <4> DEFINE some == Members(uris, n, i)
      <4>3. Members(uris, n + 1, i) = some \cup {n + 1}
        BY <3>2, NextMember DEF Same
      <4>4. some \subseteq 1 .. n
        BY <1>4
      <4>5. /\ Len(paths) = Cardinality(some)
            /\ \A j \in some : paths[Rank(j, some)] = Locate[uris[j]].path
        BY <1>5, <4>2 DEF paths
      <4> HIDE DEF some
      <4>6. /\ Cardinality(some \cup {n + 1}) = Cardinality(some) + 1
            /\ Rank(n + 1, some \cup {n + 1}) = Cardinality(some) + 1
            /\ \A j \in some : Rank(j, some \cup {n + 1}) = Rank(j, some)
                               /\ Rank(j, some) \in 1 .. Cardinality(some)
        <5>1. /\ Cardinality(some \cup {n + 1}) = Cardinality(some) + 1
              /\ Rank(n + 1, some \cup {n + 1}) = Cardinality(some) + 1
              /\ \A j \in 1 .. n : Rank(j, some \cup {n + 1}) = Rank(j, some)
          BY <4>4, NextRank
        <5>2. \A j \in some : Rank(j, some) \in 1 .. Cardinality(some)
          BY <4>4, Ranks
        <5> QED BY <4>4, <5>1, <5>2
      <4>7. t = Locate[uris[n + 1]]
        BY DEF uris
      <4>8. \A j \in some \cup {n + 1} :
              joined.paths[Rank(j, some \cup {n + 1})] = Locate[uris[j]].path
        <5>1. ASSUME NEW j \in some
              PROVE  joined.paths[Rank(j, some \cup {n + 1})] = Locate[uris[j]].path
          <6>1. /\ Rank(j, some \cup {n + 1}) = Rank(j, some)
                /\ Rank(j, some) \in 1 .. Len(paths)
                /\ paths[Rank(j, some)] = Locate[uris[j]].path
            BY <4>5, <4>6
          <6> QED BY <2>8, <6>1
        <5>2. joined.paths[Rank(n + 1, some \cup {n + 1})] = Locate[uris[n + 1]].path
          BY <2>8, <4>5, <4>6, <4>7
        <5> QED BY <5>1, <5>2
      <4>9. joined.scheme = Locate[uris[i]].scheme /\ joined.config = Locate[uris[i]].config
        BY <2>7, <3>2, <4>7 DEF Same, SameOperator
      <4>10. Len(joined.paths) = Cardinality(some \cup {n + 1})
        BY <2>8, <4>5, <4>6
      <4>11. new[Rank(i, founders)] = joined
        BY <2>5, <4>2
      <4> QED BY <4>3, <4>8, <4>9, <4>10, <4>11
    <3>3. CASE ~Same(n + 1, i)
      <4>1. Rank(i, founders) \in 1 .. m /\ Rank(i, founders) # g
        BY <1>2, <1>5, <2>2, <3>3 DEF Same, SameOperator, uris
      <4>2. new[Rank(i, founders)] = groups[Rank(i, founders)]
        BY <2>5, <4>1
      <4>3. Members(uris, n + 1, i) = Members(uris, n, i)
        BY <3>3, NextMember DEF Same
      <4> DEFINE members == Members(uris, n, i)
                 group == groups[Rank(i, founders)]
      <4>4. /\ group.scheme = Locate[uris[i]].scheme
            /\ group.config = Locate[uris[i]].config
            /\ Len(group.paths) = Cardinality(members)
            /\ \A j \in members : group.paths[Rank(j, members)] = Locate[uris[j]].path
        BY <1>5
      <4> HIDE DEF members, group
      <4>5. new[Rank(i, founders)] = group /\ Members(uris, n + 1, i) = members
        BY <4>2, <4>3 DEF members, group
      <4> QED BY <4>4, <4>5
    <3> QED BY <3>2, <3>3
  <2>12. Len(new) = Cardinality(Founders(uris, n + 1))
    BY <1>5, <2>5, <2>9
  <2>13. e.uris = uris /\ e.grouped = n + 1 /\ e.groups = new
    BY DEF new, uris
  <2>14. Partition(e)
    BY <2>9, <2>11, <2>12, <2>13, SMTT(30) DEF Partition
  <2> QED BY <2>10, <2>13, <2>14
<1> QED BY <1>9, <1>10

-----------------------------------------------------------------------------
(* What the caller relies on. *)

\* Every reachable state is typed: no group holds a path that was moved from.
THEOREM TypeCorrect == Spec => []TypeOK
<1>1. IInv => TypeOK
  BY DEF IInv
<1> QED BY <1>1, Invariant, PTL

\* A request with one URI that is not valid removes nothing: removal begins when
\* the grouping, which passes valid URIs only, has passed all.
THEOREM Validated == Spec => []ValidatedBeforeRemoval
<1>1. IInv => ValidatedBeforeRemoval
  <2> SUFFICES ASSUME IInv, NEW r \in Requests, request[r].deleted # {},
                      NEW i \in DOMAIN request[r].uris
               PROVE  Valid(request[r].uris[i])
    BY DEF ValidatedBeforeRemoval
  <2>1. /\ request[r].uris \in Seq(Uris) /\ Len(request[r].uris) \in Nat
        /\ request[r].grouped \in Nat
        /\ GroupingSound(request[r]) /\ RemovalSound(request[r])
    BY RequestTyped
  <2>2. i \in 1 .. Len(request[r].uris)
    BY <2>1, LenProperties
  <2> QED BY <2>1, <2>2 DEF GroupingSound, RemovalSound
<1> QED BY <1>1, Invariant, PTL

\* A call that returns has removed what it was given, and that only.
THEOREM RemovesAll == Spec => []ReturnedRemovesAll
<1>1. IInv => ReturnedRemovesAll
  <2> SUFFICES ASSUME IInv, NEW r \in Requests, request[r].phase = "returned"
               PROVE  request[r].deleted = Named(request[r].uris, Len(request[r].uris))
    BY DEF ReturnedRemovesAll
  <2> DEFINE q == request[r]
  <2>1. /\ Len(q.groups) \in Nat /\ DOMAIN q.groups = 1 .. Len(q.groups)
        /\ GroupingSound(q) /\ RemovalSound(q)
    BY RequestTyped
  <2> HIDE DEF q
  <2>2. q.phase = "returned"
    BY DEF q
  <2>3. q.deleted = Reach(q.groups)
    BY <2>1, <2>2 DEF RemovalSound, Reach
  <2>4. q.deleted = Named(q.uris, Len(q.uris))
    BY <2>1, <2>2, <2>3 DEF GroupingSound, RemovalSound
  <2> QED BY <2>4 DEF q
<1> QED BY <1>1, Invariant, PTL

\* A call that fails leaves a prefix of its groups removed: groups have no object
\* in common, so that none after the failing one was touched.
THEOREM LeavesPrefix == Spec => []PrefixRemoved
<1>1. IInv => PrefixRemoved
  <2> SUFFICES ASSUME IInv, NEW r \in Requests, NEW i \in DOMAIN request[r].groups
               PROVE  LET group == ObjectsOf(request[r].groups[i]) IN
                      /\ i <= request[r].removed => group \subseteq request[r].deleted
                      /\ i > request[r].removed + 1
                           => group \cap request[r].deleted = {}
    BY DEF PrefixRemoved
  <2> DEFINE q == request[r]
  <2>1. /\ Len(q.groups) \in Nat /\ DOMAIN q.groups = 1 .. Len(q.groups)
        /\ q.removed \in Nat
        /\ GroupingSound(q) /\ RemovalSound(q)
    BY RequestTyped
  <2> HIDE DEF q
  <2>2. i \in 1 .. Len(q.groups)
    BY <2>1 DEF q
  <2>3. i <= q.removed => ObjectsOf(q.groups[i]) \subseteq q.deleted
    BY <2>1, <2>2 DEF RemovalSound
  <2>4. ASSUME i > q.removed + 1, NEW o \in ObjectsOf(q.groups[i]), o \in q.deleted
        PROVE  FALSE
    <3>1. PICK j \in 1 .. Len(q.groups) : o \in ObjectsOf(q.groups[j]) /\ j <= q.removed + 1
      BY <2>1, <2>4 DEF RemovalSound
    <3>2. /\ o.scheme = q.groups[i].scheme /\ o.config = q.groups[i].config
          /\ o.scheme = q.groups[j].scheme /\ o.config = q.groups[j].config
      BY <2>4, <3>1 DEF ObjectsOf
    <3>3. i = j
      BY <2>1, <2>2, <3>2 DEF GroupingSound, Apart
    <3> QED BY <2>1, <2>4, <3>1, <3>3
  <2> QED BY <2>3, <2>4 DEF q
<1> QED BY <1>1, Invariant, PTL

\* Nothing goes but what a running request named, by the operator of its own URI.
THEOREM OnlyNamed == Spec => OnlyNamedRemoved
<1> DEFINE Step == \A o \in objects \ objects' :
             \E r \in Requests :
               /\ request[r].phase = "running"
               /\ o \in Named(request[r].uris, Len(request[r].uris))
<1>1. IInv /\ [Next]_vars => [Step]_vars
  <2> SUFFICES ASSUME IInv, Next, NEW o \in objects \ objects'
               PROVE  \E r \in Requests :
                        /\ request[r].phase = "running"
                        /\ o \in Named(request[r].uris, Len(request[r].uris))
    OBVIOUS
  <2>1. PICK r \in Requests : RemoveGroup(r) \/ RemoveGroupThrows(r)
    BY DEF Next, Start, GroupPath, GroupPathThrows, Return, Create
  <2> DEFINE q == request[r]
  <2>2. /\ q.phase = "running" /\ q.grouped = Len(q.uris)
        /\ q.removed < Len(q.groups)
    BY <2>1 DEF RemoveGroup, RemoveGroupThrows, Unremoved
  <2>3. o \in ObjectsOf(q.groups[q.removed + 1])
    BY <2>1 DEF RemoveGroup, RemoveGroupThrows
  <2>4. /\ Len(q.groups) \in Nat /\ DOMAIN q.groups = 1 .. Len(q.groups)
        /\ q.removed \in Nat
        /\ GroupingSound(q)
    BY RequestTyped
  <2> HIDE DEF q
  <2>5. o \in Reach(q.groups)
    BY <2>2, <2>3, <2>4 DEF Reach
  <2>6. o \in Named(q.uris, Len(q.uris))
    BY <2>2, <2>4, <2>5 DEF GroupingSound
  <2> QED BY <2>2, <2>6 DEF q
<1> QED BY <1>1, Invariant, PTL DEF Spec, OnlyNamedRemoved

\* What every step keeps, besides IInv.
ClassInv == \A r \in Requests : Partition(request[r]) /\ Filled(request[r].groups)

\* A request whose groups, and what it has grouped, stay as they are keeps its
\* classes.
LEMMA ClassesStay ==
  ASSUME NEW s, NEW e, e.uris = s.uris, e.grouped = s.grouped, e.groups = s.groups,
         Partition(s), Filled(s.groups)
  PROVE  Partition(e) /\ Filled(e.groups)
BY DEF Partition

LEMMA BlankClasses ==
  ASSUME NEW s, s.grouped = 0, s.groups = <<>>
  PROVE  Partition(s) /\ Filled(s.groups)
<1>1. DOMAIN s.groups = {} /\ Len(s.groups) = 0
  OBVIOUS
<1>2. Founders(s.uris, s.grouped) = {}
  BY DEF Founders
<1> QED BY <1>1, <1>2, FS_EmptySet DEF Partition, Filled

LEMMA ClassStep ==
  ASSUME IInv, ClassInv, [Next]_vars
  PROVE  ClassInv'
<1> SUFFICES ASSUME NEW r \in Requests
             PROVE  Partition(request'[r]) /\ Filled(request'[r].groups)
  BY DEF ClassInv, Partition, Founders, Members, SameOperator, Filled
<1> DEFINE s == request[r]
           e == request'[r]
<1>1. /\ s \in RequestState /\ s.grouped \in Nat /\ s.groups \in Seq(Group)
      /\ \A i \in 1 .. Len(s.uris) : s.uris[i] \in Uris
      /\ Len(s.uris) \in Nat
      /\ GroupingSound(s)
  BY RequestTyped
<1>2. Partition(s) /\ Filled(s.groups)
  BY DEF ClassInv
<1>3. CASE e.uris = s.uris /\ e.grouped = s.grouped /\ e.groups = s.groups
  BY <1>2, <1>3, ClassesStay
<1>4. ASSUME NEW n \in 0 .. MaxUris, NEW uris \in [1 .. n -> Uris], Start(r, uris)
      PROVE  Partition(e) /\ Filled(e.groups)
  <2>1. e.grouped = 0 /\ e.groups = <<>>
    BY <1>4 DEF Start, Idle, IInv, TypeOK
  <2> QED BY <2>1, BlankClasses
<1>5. CASE GroupPath(r)
  <2> DEFINE n == s.grouped
             t == Locate[s.uris[n + 1]]
  <2>1. n < Len(s.uris) /\ Valid(s.uris[n + 1])
    BY <1>5 DEF GroupPath, Ungrouped
  <2>2. n + 1 \in 1 .. Len(s.uris)
    BY <1>1, <2>1
  <2>3. t \in Target /\ t.path \in Paths
    BY <1>1, <2>1, <2>2, RemoveAssumption DEF Valid, Target
  <2>4. \A i \in 1 .. n : Locate[s.uris[i]] \in Target
    <3> SUFFICES ASSUME NEW i \in 1 .. n PROVE Locate[s.uris[i]] \in Target
      OBVIOUS
    <3>1. i \in 1 .. Len(s.uris)
      BY <1>1, <2>1
    <3>2. s.uris[i] \in Uris /\ Valid(s.uris[i])
      BY <1>1, <3>1 DEF GroupingSound
    <3> QED BY <3>2, RemoveAssumption DEF Valid
  <2>5. e.uris = s.uris /\ e.grouped = n + 1 /\ e.groups = AddPath(s.groups, t)
    BY <1>1, <1>5 DEF GroupPath, IInv, TypeOK, RequestState
  <2> HIDE DEF t, n
  <2>6. s.grouped = n /\ n \in Nat /\ t = Locate[s.uris[n + 1]]
    BY <1>1 DEF n, t
  <2>7. Apart(s.groups) /\ Reach(s.groups) = Named(s.uris, n) /\ s.groups \in Seq(Group)
    BY <1>1, <2>6 DEF GroupingSound
  <2> QED BY <1>2, <2>3, <2>4, <2>5, <2>6, <2>7, PartitionGrows
\* The other steps of a request, and those of others, leave its groups alone.
<1>6. CASE UNCHANGED vars
  BY <1>3, <1>6 DEF vars
<1>7. ASSUME NEW o \in Object, Create(o) PROVE Partition(e) /\ Filled(e.groups)
  BY <1>3, <1>7 DEF Create
<1>8. ASSUME NEW q \in Requests, q # r,
             \/ \E n \in 0 .. MaxUris : \E uris \in [1 .. n -> Uris] : Start(q, uris)
             \/ GroupPath(q) \/ GroupPathThrows(q)
             \/ RemoveGroup(q) \/ RemoveGroupThrows(q) \/ Return(q)
      PROVE  Partition(e) /\ Filled(e.groups)
  <2>1. e = s
    BY <1>8 DEF Start, GroupPath, GroupPathThrows, RemoveGroup, RemoveGroupThrows,
                Return, IInv, TypeOK
  <2> QED BY <1>3, <2>1
<1>9. CASE GroupPathThrows(r) \/ RemoveGroup(r) \/ RemoveGroupThrows(r) \/ Return(r)
  <2>1. e.uris = s.uris /\ e.grouped = s.grouped /\ e.groups = s.groups
    BY <1>1, <1>9 DEF GroupPathThrows, RemoveGroup, RemoveGroupThrows, Return,
                      IInv, TypeOK, RequestState
  <2> QED BY <1>3, <2>1
<1>10. CASE Next
  <2>1. CASE \E o \in Object : Create(o)
    BY <1>7, <2>1
  <2>2. ASSUME NEW q \in Requests,
               \/ \E n \in 0 .. MaxUris : \E uris \in [1 .. n -> Uris] : Start(q, uris)
               \/ GroupPath(q) \/ GroupPathThrows(q)
               \/ RemoveGroup(q) \/ RemoveGroupThrows(q) \/ Return(q)
        PROVE  Partition(e) /\ Filled(e.groups)
    <3>1. CASE q = r
      BY <1>4, <1>5, <1>9, <2>2, <3>1
    <3>2. CASE q # r
      BY <1>8, <2>2, <3>2
    <3> QED BY <3>1, <3>2
  <2> QED BY <1>10, <2>1, <2>2 DEF Next
<1> QED BY <1>6, <1>10

\* The groups are the classes of the paths grouped so far, in the order of their
\* first URIs, and each has its paths in the order given: a class grows at its end,
\* and a new one is the last.
THEOREM GroupsAreClasses == Spec => []GroupsPartitionPaths
<1>1. Init => ClassInv
  <2> SUFFICES ASSUME Init, NEW r \in Requests
               PROVE  Partition(request[r]) /\ Filled(request[r].groups)
    BY DEF ClassInv
  <2>1. request[r].grouped = 0 /\ request[r].groups = <<>>
    BY DEF Init, Idle
  <2> QED BY <2>1, BlankClasses
<1>2. IInv /\ ClassInv /\ [Next]_vars => ClassInv'
  BY ClassStep
<1>3. ClassInv => GroupsPartitionPaths
  BY DEF ClassInv, GroupsPartitionPaths
<1> QED BY <1>1, <1>2, <1>3, Invariant, PTL DEF Spec

-----------------------------------------------------------------------------
(* Decimal numbers. *)

\* A set that holds 0, and n + 1 with n, holds all naturals.
LEMMA AllNaturals ==
  ASSUME NEW T, 0 \in T, \A n \in Nat : n \in T => n + 1 \in T
  PROVE  Nat \subseteq T
<1> DEFINE rest == Nat \ T
<1> SUFFICES ASSUME rest # {} PROVE FALSE
  OBVIOUS
<1>1. PICK m \in rest : \A n \in rest : m <= n
  BY LeastOf
<1>2. m # 0 /\ m - 1 \in Nat /\ m - 1 \notin rest
  BY <1>1
<1> QED BY <1>2

Digit == 0 .. 9
Digits == Seq(0 .. 9)

\* What Decimal[n] is, if f holds it for the lesser numbers.
DecimalStep(f, n) == IF n < 10 THEN <<n>> ELSE Append(f[n \div 10], n % 10)

Writes(f, n) == f \in [0 .. n -> Digits] /\ \A k \in 0 .. n : f[k] = DecimalStep(f, k)

LEMMA Shorter ==
  ASSUME NEW n \in Nat, n >= 10
  PROVE  n \div 10 \in Nat /\ n \div 10 < n /\ n % 10 \in 0 .. 9 /\ n = 10 * (n \div 10) + (n % 10)
OBVIOUS

LEMMA OneDigit ==
  ASSUME NEW n \in Nat, n < 10
  PROVE  <<n>> \in Digits /\ Len(<<n>>) = 1
BY DEF Digits

\* Decimal is defined, and is what it says.
LEMMA DecimalDefined ==
  \A n \in Nat : Decimal[n] \in Digits /\ Decimal[n] = DecimalStep(Decimal, n)
<1>1. ASSUME NEW m \in Nat, NEW n \in Nat, NEW g, NEW h, Writes(g, m), Writes(h, n)
      PROVE  \A k \in Nat : k <= m /\ k <= n => g[k] = h[k]
  <2> DEFINE differ == {k \in Nat : k <= m /\ k <= n /\ g[k] # h[k]}
  <2> SUFFICES ASSUME differ # {} PROVE FALSE
    OBVIOUS
  <2>1. PICK k \in differ : \A i \in differ : k <= i
    BY LeastOf
  <2>2. g[k] = DecimalStep(g, k) /\ h[k] = DecimalStep(h, k)
    BY <1>1 DEF Writes
  <2>3. k >= 10 => g[k \div 10] = h[k \div 10]
    <3> SUFFICES ASSUME k >= 10 PROVE g[k \div 10] = h[k \div 10]
      OBVIOUS
    <3>1. k \div 10 \in Nat /\ k \div 10 < k
      BY Shorter
    <3> HIDE DEF DecimalStep
    <3> QED BY <2>1, <3>1
  <2> QED BY <2>2, <2>3 DEF DecimalStep
<1>2. \A n \in Nat : \E g : Writes(g, n)
  <2> DEFINE T == {n \in Nat : \E g : Writes(g, n)}
  <2>1. 0 \in T
    <3> DEFINE g == [k \in 0 .. 0 |-> <<k>>]
    <3>1. Writes(g, 0)
      BY OneDigit DEF Writes, DecimalStep
    <3> QED BY <3>1
  <2>2. ASSUME NEW n \in Nat, n \in T PROVE n + 1 \in T
    <3>1. PICK g : Writes(g, n)
      BY <2>2
    <3> DEFINE h == [k \in 0 .. n + 1 |-> IF k = n + 1 THEN DecimalStep(g, k) ELSE g[k]]
    <3>2. \A k \in 0 .. n : h[k] = g[k]
      OBVIOUS
    <3>3. h[n + 1] = DecimalStep(g, n + 1)
      OBVIOUS
    <3>4. \A k \in 0 .. n + 1 : DecimalStep(h, k) = DecimalStep(g, k)
      <4> TAKE k \in 0 .. n + 1
      <4> HIDE DEF h
      <4>1. CASE k < 10
        BY <4>1 DEF DecimalStep
      <4>2. CASE k >= 10
        <5>1. k \div 10 \in 0 .. n
          BY <4>2, Shorter
        <5> QED BY <3>2, <5>1 DEF DecimalStep
      <4> QED BY <4>1, <4>2
    <3>5. DecimalStep(g, n + 1) \in Digits
      <4>1. CASE n + 1 < 10
        BY <4>1, OneDigit DEF DecimalStep
      <4>2. CASE n + 1 >= 10
        <5>1. (n + 1) \div 10 \in 0 .. n /\ (n + 1) % 10 \in 0 .. 9
          BY <4>2, Shorter
        <5>2. g[(n + 1) \div 10] \in Seq(0 .. 9)
          BY <3>1, <5>1 DEF Writes, Digits
        <5>3. Append(g[(n + 1) \div 10], (n + 1) % 10) \in Seq(0 .. 9)
          BY <5>1, <5>2, AppendProperties
        <5> QED BY <4>2, <5>3 DEF DecimalStep, Digits
      <4> QED BY <4>1, <4>2
    <3>6. h \in [0 .. n + 1 -> Digits]
      <4>1. \A k \in 0 .. n : g[k] \in Digits
        BY <3>1 DEF Writes
      <4> HIDE DEF DecimalStep
      <4>2. \A k \in 0 .. n + 1 : k = n + 1 \/ k \in 0 .. n
        OBVIOUS
      <4> QED BY <3>5, <4>1, <4>2
    <3>7. \A k \in 0 .. n + 1 : h[k] = DecimalStep(g, k)
      <4>1. \A k \in 0 .. n : g[k] = DecimalStep(g, k)
        BY <3>1 DEF Writes
      <4>2. \A k \in 0 .. n + 1 : k = n + 1 \/ k \in 0 .. n
        OBVIOUS
      <4> HIDE DEF h
      <4> QED BY <3>2, <3>3, <4>1, <4>2
    <3> HIDE DEF h
    <3>8. Writes(h, n + 1)
      BY <3>4, <3>6, <3>7 DEF Writes
    <3> QED BY <3>8
  <2> HIDE DEF T
  <2>3. Nat \subseteq T
    BY <2>1, <2>2, AllNaturals
  <2> QED BY <2>3 DEF T
<1> DEFINE g(n) == CHOOSE g : Writes(g, n)
           f == [n \in Nat |-> g(n)[n]]
<1>3. \A n \in Nat : Writes(g(n), n)
  BY <1>2
<1> HIDE DEF g
<1>4. \A n \in Nat : f[n] \in Digits /\ f[n] = DecimalStep(f, n)
  <2> TAKE n \in Nat
  <2>1. f[n] = g(n)[n]
    OBVIOUS
  <2>2. g(n)[n] \in Digits /\ g(n)[n] = DecimalStep(g(n), n)
    BY <1>3 DEF Writes
  <2>3. n >= 10 => f[n \div 10] = g(n)[n \div 10]
    <3> SUFFICES ASSUME n >= 10 PROVE f[n \div 10] = g(n)[n \div 10]
      OBVIOUS
    <3> DEFINE k == n \div 10
    <3>1. k \in Nat /\ k < n
      BY Shorter
    <3> HIDE DEF k
    <3>2. g(k)[k] = g(n)[k]
      BY <1>1, <1>3, <3>1
    <3>3. f[k] = g(k)[k]
      BY <3>1
    <3> QED BY <3>2, <3>3 DEF k
  <2> HIDE DEF f
  <2> QED BY <2>1, <2>2, <2>3 DEF DecimalStep
<1>5. f = [n \in Nat |-> IF n < 10 THEN <<n>> ELSE Append(f[n \div 10], n % 10)]
  <2>1. f = [n \in Nat |-> f[n]]
    OBVIOUS
  <2> HIDE DEF f
  <2> QED BY <1>4, <2>1 DEF DecimalStep
<1> HIDE DEF f
<1>6. Decimal = [n \in Nat |-> IF n < 10 THEN <<n>> ELSE Append(Decimal[n \div 10], n % 10)]
  BY <1>5 DEF Decimal
<1>7. \A n \in Nat : Decimal[n] = DecimalStep(Decimal, n)
  <2> DEFINE F(n) == IF n < 10 THEN <<n>> ELSE Append(Decimal[n \div 10], n % 10)
  <2>1. Decimal = [n \in Nat |-> F(n)]
    BY <1>6
  <2> HIDE DEF F
  <2>2. \A n \in Nat : Decimal[n] = F(n)
    BY <2>1
  <2> QED BY <2>2 DEF F, DecimalStep
<1>8. \A n \in Nat : Decimal[n] \in Digits
  <2> DEFINE wrong == {n \in Nat : Decimal[n] \notin Digits}
  <2> SUFFICES ASSUME wrong # {} PROVE FALSE
    OBVIOUS
  <2>1. PICK n \in wrong : \A i \in wrong : n <= i
    BY LeastOf
  <2>2. CASE n < 10
    BY <1>7, <2>1, <2>2, OneDigit DEF DecimalStep
  <2>3. CASE n >= 10
    <3>1. n \div 10 \in Nat /\ n \div 10 < n /\ n % 10 \in 0 .. 9
      BY <2>3, Shorter
    <3>2. Decimal[n \div 10] \in Seq(0 .. 9)
      BY <2>1, <3>1 DEF Digits
    <3>3. Append(Decimal[n \div 10], n % 10) \in Seq(0 .. 9)
      BY <3>1, <3>2, AppendProperties
    <3>4. DecimalStep(Decimal, n) = Append(Decimal[n \div 10], n % 10)
      <4>1. ~(n < 10)
        BY <2>1, <2>3
      <4> QED BY <4>1, Zenon DEF DecimalStep
    <3>5. Decimal[n] = DecimalStep(Decimal, n)
      BY <1>7, <2>1
    <3> QED BY <2>1, <3>3, <3>4, <3>5 DEF Digits
  <2> QED BY <2>1, <2>2, <2>3
<1> QED BY <1>7, <1>8

LEMMA SameLast ==
  ASSUME NEW s \in Digits, NEW t \in Digits, NEW a \in Digit, NEW b \in Digit,
         Append(s, a) = Append(t, b)
  PROVE  s = t /\ a = b
BY AppendInjective DEF Digit, Digits

\* A number of several digits is the lesser number, and one digit more.
LEMMA LongDecimal ==
  ASSUME NEW n \in Nat, n >= 10
  PROVE  /\ Decimal[n] = Append(Decimal[n \div 10], n % 10)
         /\ Decimal[n \div 10] \in Digits
         /\ Len(Decimal[n]) = Len(Decimal[n \div 10]) + 1
         /\ Len(Decimal[n \div 10]) \in Nat
<1>1. n \div 10 \in Nat /\ n % 10 \in 0 .. 9
  BY Shorter
<1>2. Decimal[n \div 10] \in Seq(0 .. 9)
  BY <1>1, DecimalDefined DEF Digits
<1>3. Decimal[n] = Append(Decimal[n \div 10], n % 10)
  <2>1. ~(n < 10)
    OBVIOUS
  <2>2. Decimal[n] = DecimalStep(Decimal, n)
    BY DecimalDefined
  <2> QED BY <2>1, <2>2, Zenon DEF DecimalStep
<1>4. /\ Len(Append(Decimal[n \div 10], n % 10)) = Len(Decimal[n \div 10]) + 1
      /\ Len(Decimal[n \div 10]) \in Nat
  BY <1>1, <1>2, AppendProperties, LenProperties
<1> QED BY <1>2, <1>3, <1>4 DEF Digits

LEMMA ShortDecimal ==
  ASSUME NEW n \in Nat, n < 10
  PROVE  Decimal[n] = <<n>> /\ Len(Decimal[n]) = 1
BY DecimalDefined, OneDigit DEF DecimalStep

LEMMA SomeDigit ==
  ASSUME NEW n \in Nat
  PROVE  Len(Decimal[n]) \in Nat /\ Len(Decimal[n]) >= 1
<1>1. CASE n < 10
  <2>1. Len(Decimal[n]) = 1
    BY <1>1, ShortDecimal, Zenon
  <2> QED BY <2>1
<1>2. CASE n >= 10
  BY <1>2, LongDecimal
<1> QED BY <1>1, <1>2

\* A number can be read off its digits.
LEMMA DecimalTellsApart ==
  ASSUME NEW m \in Nat, NEW n \in Nat, Decimal[m] = Decimal[n]
  PROVE  m = n
<1> DEFINE shared == {i \in Nat : \E j \in Nat : i # j /\ Decimal[i] = Decimal[j]}
<1> SUFFICES ASSUME shared # {} PROVE FALSE
  OBVIOUS
<1>1. PICK i \in shared : \A k \in shared : i <= k
  BY LeastOf
<1>2. PICK j \in Nat : i # j /\ Decimal[i] = Decimal[j]
  OBVIOUS
<1>3. i \in Nat /\ j \in shared
  BY <1>2
<1> HIDE DEF shared
<1>4. CASE i < 10 /\ j < 10
  <2>1. <<i>> = <<j>>
    BY <1>2, <1>3, <1>4, ShortDecimal
  <2> QED BY <1>2, <2>1
<1>5. ASSUME NEW k \in Nat, k >= 10 PROVE Len(Decimal[k]) >= 2
  <2>1. k \div 10 \in Nat
    BY <1>5, Shorter
  <2> QED BY <1>5, <2>1, LongDecimal, SomeDigit
<1>6. CASE i < 10 /\ j >= 10
  <2>1. Len(Decimal[i]) = 1 /\ Len(Decimal[j]) >= 2
    BY <1>2, <1>3, <1>5, <1>6, ShortDecimal
  <2> QED BY <1>2, <2>1
<1>7. CASE i >= 10 /\ j < 10
  <2>1. Len(Decimal[j]) = 1 /\ Len(Decimal[i]) >= 2
    BY <1>2, <1>3, <1>5, <1>7, ShortDecimal
  <2> QED BY <1>2, <2>1
<1>8. CASE i >= 10 /\ j >= 10
  <2> DEFINE d == i \div 10
             e == j \div 10
             a == i % 10
             b == j % 10
  <2>1. /\ d \in Nat /\ d < i /\ i = 10 * d + a /\ a \in 0 .. 9
        /\ e \in Nat /\ j = 10 * e + b /\ b \in 0 .. 9
    BY <1>2, <1>3, <1>8, Shorter
  <2>2. /\ Decimal[i] = Append(Decimal[d], a) /\ Decimal[d] \in Digits
        /\ Decimal[j] = Append(Decimal[e], b) /\ Decimal[e] \in Digits
    BY <1>2, <1>3, <1>8, LongDecimal
  <2> HIDE DEF d, e, a, b
  <2>3. Decimal[d] = Decimal[e] /\ a = b
    <3>1. Append(Decimal[d], a) = Append(Decimal[e], b)
      BY <1>2, <2>2
    <3>2. Decimal[d] \in Digits /\ Decimal[e] \in Digits /\ a \in Digit /\ b \in Digit
      BY <2>1, <2>2 DEF Digit
    <3> QED BY <3>1, <3>2, SameLast, SMTT(30)
  <2>4. d \in shared
    BY <1>2, <2>1, <2>3 DEF shared
  <2> QED BY <1>1, <1>3, <2>1, <2>4
<1> QED BY <1>2, <1>3, <1>4, <1>6, <1>7, <1>8

-----------------------------------------------------------------------------
(* Keys. *)

String == Seq(Nat)

\* What AppendKeyComponent adds.
Encoded(component) == Decimal[Len(component)] \o <<Colon>> \o component

Joins(s, t) == s \o t

LEMMA JoinsString ==
  ASSUME NEW s \in String, NEW t \in String
  PROVE  Joins(s, t) \in String /\ Len(Joins(s, t)) = Len(s) + Len(t)
BY ConcatProperties DEF Joins, String

LEMMA JoinsAssociative ==
  ASSUME NEW s \in String, NEW t \in String, NEW u \in String
  PROVE  Joins(Joins(s, t), u) = Joins(s, Joins(t, u))
BY ConcatAssociative, SMTT(30) DEF Joins, String

LEMMA JoinsCancel ==
  ASSUME NEW s \in String, NEW t \in String, NEW u \in String, Joins(s, t) = Joins(s, u)
  PROVE  t = u
BY ConcatSimplifications DEF Joins, String

LEMMA JoinsElements ==
  ASSUME NEW s \in String, NEW t \in String
  PROVE  /\ \A i \in 1 .. Len(s) : Joins(s, t)[i] = s[i]
         /\ \A i \in 1 .. Len(t) : Joins(s, t)[Len(s) + i] = t[i]
<1>1. /\ Len(s) \in Nat /\ Len(t) \in Nat
      /\ \A i \in 1 .. Len(s) + Len(t) :
           Joins(s, t)[i] = IF i <= Len(s) THEN s[i] ELSE t[i - Len(s)]
  BY ConcatProperties, LenProperties DEF Joins, String
<1>2. ASSUME NEW i \in 1 .. Len(t) PROVE Joins(s, t)[Len(s) + i] = t[i]
  <2>1. Len(s) + i \in 1 .. Len(s) + Len(t) /\ ~(Len(s) + i <= Len(s)) /\ Len(s) + i - Len(s) = i
    BY <1>1
  <2> QED BY <1>1, <2>1
<1> QED BY <1>1, <1>2

LEMMA StringLength == \A s \in String : Len(s) \in Nat
BY LenProperties DEF String

LEMMA SameString ==
  ASSUME NEW s \in String, NEW t \in String, Len(s) = Len(t),
         \A i \in 1 .. Len(s) : s[i] = t[i]
  PROVE  s = t
BY SeqEqual DEF String

LEMMA DecimalString ==
  ASSUME NEW n \in Nat
  PROVE  /\ Decimal[n] \in String
         /\ \A i \in 1 .. Len(Decimal[n]) : Decimal[n][i] \in 0 .. 9
<1>1. Decimal[n] \in Seq(0 .. 9)
  BY DecimalDefined DEF Digits
<1>2. 0 .. 9 \subseteq Nat
  OBVIOUS
<1> QED BY <1>1, <1>2, SeqMonotonic, ElementOfSeq DEF String

LEMMA ColonString ==
  /\ <<Colon>> \in String /\ Len(<<Colon>>) = 1 /\ <<Colon>>[1] = Colon
  /\ Colon \notin 0 .. 9
BY KeyAssumption DEF String

LEMMA EncodedString ==
  ASSUME NEW x \in String
  PROVE  /\ Encoded(x) \in String
         /\ Encoded(x) = Joins(Joins(Decimal[Len(x)], <<Colon>>), x)
         /\ Len(Encoded(x)) \in Nat /\ Len(Encoded(x)) >= 1
<1>1. Encoded(x) = Joins(Joins(Decimal[Len(x)], <<Colon>>), x)
  BY DEF Encoded, Joins
<1>2. Len(x) \in Nat
  BY StringLength
<1>3. Decimal[Len(x)] \in String /\ Len(Decimal[Len(x)]) \in Nat
  BY <1>2, DecimalString, StringLength
<1>4. /\ Joins(Decimal[Len(x)], <<Colon>>) \in String
      /\ Len(Joins(Decimal[Len(x)], <<Colon>>)) = Len(Decimal[Len(x)]) + 1
  BY <1>3, ColonString, JoinsString
<1>5. /\ Joins(Joins(Decimal[Len(x)], <<Colon>>), x) \in String
      /\ Len(Joins(Joins(Decimal[Len(x)], <<Colon>>), x))
           = Len(Joins(Decimal[Len(x)], <<Colon>>)) + Len(x)
  BY <1>4, JoinsString
<1> QED BY <1>1, <1>2, <1>3, <1>4, <1>5

\* The length in front of a component tells where it ends, whatever follows it.
LEMMA ReadsBack ==
  ASSUME NEW x \in String, NEW y \in String, NEW r \in String, NEW s \in String,
         Joins(Encoded(x), r) = Joins(Encoded(y), s)
  PROVE  x = y /\ r = s
<1>1. ASSUME NEW c \in String, NEW u \in String
      PROVE  LET d == Decimal[Len(c)]
                 rest == Joins(c, u)
             IN
             /\ d \in String /\ Len(d) \in Nat /\ Len(c) \in Nat
             /\ rest \in String /\ Joins(<<Colon>>, rest) \in String
             /\ Joins(Encoded(c), u) = Joins(d, Joins(<<Colon>>, rest))
             /\ \A i \in 1 .. Len(d) : Joins(Encoded(c), u)[i] = d[i] /\ d[i] \in 0 .. 9
             /\ Joins(Encoded(c), u)[Len(d) + 1] = Colon
  <2> DEFINE d == Decimal[Len(c)]
             rest == Joins(c, u)
             k == <<Colon>>
  <2>1. Len(c) \in Nat /\ k \in String /\ Len(k) = 1 /\ k[1] = Colon
    BY StringLength, ColonString
  <2>2. d \in String /\ Len(d) \in Nat /\ \A i \in 1 .. Len(d) : d[i] \in 0 .. 9
    BY <2>1, DecimalString, StringLength
  <2>3. Encoded(c) = Joins(Joins(d, k), c)
    BY EncodedString
  <2> HIDE DEF d, k
  <2>4. rest \in String /\ Joins(d, k) \in String
    BY <2>1, <2>2, JoinsString
  <2>5. Joins(Encoded(c), u) = Joins(Joins(d, k), rest)
    BY <2>3, <2>4, JoinsAssociative
  <2> HIDE DEF rest
  <2>6. Joins(Joins(d, k), rest) = Joins(d, Joins(k, rest))
    BY <2>1, <2>2, <2>4, JoinsAssociative
  <2>7. Joins(k, rest) \in String
    BY <2>1, <2>4, JoinsString
  <2>8. Len(Joins(k, rest)) = 1 + Len(rest) /\ Len(rest) \in Nat
    <3>1. Len(Joins(k, rest)) = Len(k) + Len(rest)
      BY <2>1, <2>4, JoinsString
    <3>2. Len(rest) \in Nat
      BY <2>4, StringLength
    <3> QED BY <2>1, <3>1, <3>2
  <2>9. Joins(k, rest)[1] = Colon
    <3>1. \A i \in 1 .. Len(k) : Joins(k, rest)[i] = k[i]
      BY <2>1, <2>4, JoinsElements
    <3> QED BY <2>1, <3>1
  <2>10. /\ \A i \in 1 .. Len(d) : Joins(d, Joins(k, rest))[i] = d[i]
         /\ \A i \in 1 .. Len(Joins(k, rest)) :
              Joins(d, Joins(k, rest))[Len(d) + i] = Joins(k, rest)[i]
    BY <2>2, <2>7, JoinsElements
  <2>11. Joins(d, Joins(k, rest))[Len(d) + 1] = Colon
    BY <2>8, <2>9, <2>10
  <2>12. Joins(Encoded(c), u) = Joins(d, Joins(k, rest))
    BY <2>5, <2>6
  <2> QED BY <2>1, <2>2, <2>4, <2>7, <2>10, <2>11, <2>12 DEF d, k, rest
<1> DEFINE d == Decimal[Len(x)]
           e == Decimal[Len(y)]
           t == Joins(Encoded(x), r)
           a == Joins(x, r)
           b == Joins(y, s)
           k == <<Colon>>
<1>2. /\ d \in String /\ Len(d) \in Nat /\ Len(x) \in Nat
      /\ a \in String /\ Joins(k, a) \in String /\ t = Joins(d, Joins(k, a))
      /\ \A i \in 1 .. Len(d) : t[i] = d[i] /\ d[i] \in 0 .. 9
      /\ t[Len(d) + 1] = Colon
  BY <1>1
<1>3. /\ e \in String /\ Len(e) \in Nat /\ Len(y) \in Nat
      /\ b \in String /\ Joins(k, b) \in String /\ t = Joins(e, Joins(k, b))
      /\ \A i \in 1 .. Len(e) : t[i] = e[i] /\ e[i] \in 0 .. 9
      /\ t[Len(e) + 1] = Colon
  <2> DEFINE u == Joins(Encoded(y), s)
  <2>1. t = u
    OBVIOUS
  <2>2. /\ e \in String /\ Len(e) \in Nat /\ Len(y) \in Nat
        /\ b \in String /\ Joins(k, b) \in String /\ u = Joins(e, Joins(k, b))
        /\ \A i \in 1 .. Len(e) : u[i] = e[i] /\ e[i] \in 0 .. 9
        /\ u[Len(e) + 1] = Colon
    BY <1>1
  <2> HIDE DEF t, u, e, b, k
  <2> QED BY <2>1, <2>2
<1>4. k \in String /\ Colon \notin 0 .. 9
  BY ColonString
<1> HIDE DEF d, e, t, a, b, k
<1>5. Len(d) = Len(e)
  <2>1. CASE Len(d) < Len(e)
    <3>1. Len(d) + 1 \in 1 .. Len(e)
      BY <1>2, <1>3, <2>1
    <3> QED BY <1>2, <1>3, <1>4, <3>1
  <2>2. CASE Len(e) < Len(d)
    <3>1. Len(e) + 1 \in 1 .. Len(d)
      BY <1>2, <1>3, <2>2
    <3> QED BY <1>2, <1>3, <1>4, <3>1
  <2> QED BY <1>2, <1>3, <2>1, <2>2
<1>6. d = e
  BY <1>2, <1>3, <1>5, SameString
<1>7. Len(x) = Len(y)
  BY <1>2, <1>3, <1>6, DecimalTellsApart DEF d, e
<1>8. a = b
  <2>1. Joins(k, a) = Joins(k, b)
    BY <1>2, <1>3, <1>6, JoinsCancel
  <2> QED BY <1>2, <1>3, <1>4, <2>1, JoinsCancel
<1>9. x = y
  <2>1. \A i \in 1 .. Len(x) : a[i] = x[i] /\ b[i] = y[i]
    BY <1>7, JoinsElements DEF a, b
  <2> QED BY <1>7, <1>8, <2>1, SameString
<1> QED BY <1>8, <1>9, JoinsCancel DEF a, b

\* A name and a value.
Pair == String \X String

LEMMA Appends ==
  ASSUME NEW key \in String, NEW c \in String
  PROVE  /\ AppendKeyComponent(key, c) = Joins(key, Encoded(c))
         /\ AppendKeyComponent(key, c) \in String
<1> DEFINE d == Decimal[Len(c)]
           k == <<Colon>>
<1>1. d \in String /\ k \in String /\ Encoded(c) \in String
  BY ColonString, DecimalString, StringLength, EncodedString
<1>2. AppendKeyComponent(key, c) = Joins(Joins(Joins(key, d), k), c)
  BY DEF AppendKeyComponent, Joins
<1>3. Encoded(c) = Joins(Joins(d, k), c)
  BY EncodedString
<1> HIDE DEF d, k
<1>4. Joins(Joins(Joins(key, d), k), c) = Joins(key, Joins(Joins(d, k), c))
  <2>1. Joins(d, k) \in String
    BY <1>1, JoinsString
  <2>2. Joins(Joins(key, d), k) = Joins(key, Joins(d, k))
    BY <1>1, JoinsAssociative
  <2>3. Joins(Joins(key, Joins(d, k)), c) = Joins(key, Joins(Joins(d, k), c))
    BY <2>1, JoinsAssociative
  <2> QED BY <2>2, <2>3
<1>5. Joins(key, Encoded(c)) \in String
  BY <1>1, JoinsString
<1> QED BY <1>2, <1>3, <1>4, <1>5

\* The key when n entries are appended, if f holds it for fewer.
KeyStep(f, scheme, sorted, n) ==
  IF n = 0 THEN AppendKeyComponent(<<>>, scheme)
  ELSE AppendKeyComponent(AppendKeyComponent(f[n - 1], sorted[n][1]), sorted[n][2])

Builds(f, scheme, sorted, n) ==
  f \in [0 .. n -> String] /\ \A k \in 0 .. n : f[k] = KeyStep(f, scheme, sorted, k)

LEMMA KeyBuilt ==
  ASSUME NEW scheme \in String, NEW sorted \in Seq(Pair)
  PROVE  \E f : /\ Builds(f, scheme, sorted, Len(sorted))
                /\ CreateRemoveGroupKey(scheme, sorted) = f[Len(sorted)]
<1> DEFINE N == Len(sorted)
<1>1. N \in Nat /\ \A n \in 1 .. N : sorted[n][1] \in String /\ sorted[n][2] \in String
  BY LenProperties, ElementOfSeq DEF Pair
<1> HIDE DEF N
<1> DEFINE T == {n \in Nat : n <= N => \E f : Builds(f, scheme, sorted, n)}
<1>2. 0 \in T
  <2> DEFINE f == [k \in 0 .. 0 |-> AppendKeyComponent(<<>>, scheme)]
  <2>1. <<>> \in String
    BY EmptySeq DEF String
  <2>2. AppendKeyComponent(<<>>, scheme) \in String
    BY <2>1, Appends
  <2>3. Builds(f, scheme, sorted, 0)
    BY <2>2 DEF Builds, KeyStep
  <2> QED BY <2>3
<1>3. ASSUME NEW n \in Nat, n \in T PROVE n + 1 \in T
  <2> SUFFICES ASSUME n + 1 <= N PROVE \E f : Builds(f, scheme, sorted, n + 1)
    OBVIOUS
  <2>1. PICK f : Builds(f, scheme, sorted, n)
    BY <1>1, <1>3
  <2> DEFINE last == KeyStep(f, scheme, sorted, n + 1)
             h == [k \in 0 .. n + 1 |-> IF k = n + 1 THEN last ELSE f[k]]
  <2>2. last \in String
    <3>1. f[n] \in String /\ sorted[n + 1][1] \in String /\ sorted[n + 1][2] \in String
      BY <1>1, <2>1 DEF Builds
    <3>2. last = AppendKeyComponent(AppendKeyComponent(f[n], sorted[n + 1][1]), sorted[n + 1][2])
      BY DEF KeyStep
    <3> HIDE DEF last
    <3> QED BY <3>1, <3>2, Appends
  <2>3. \A k \in 0 .. n : f[k] \in String /\ f[k] = KeyStep(f, scheme, sorted, k)
    BY <2>1 DEF Builds
  <2>4. \A k \in 0 .. n + 1 : k = n + 1 \/ k \in 0 .. n
    OBVIOUS
  <2> HIDE DEF last
  <2>5. h \in [0 .. n + 1 -> String]
    BY <2>2, <2>3, <2>4
  <2>6. h[n + 1] = last /\ \A k \in 0 .. n : h[k] = f[k]
    OBVIOUS
  <2> HIDE DEF h
  <2>7. \A k \in 0 .. n + 1 : KeyStep(h, scheme, sorted, k) = KeyStep(f, scheme, sorted, k)
    <3> TAKE k \in 0 .. n + 1
    <3>1. CASE k = 0
      BY <3>1 DEF KeyStep
    <3>2. CASE k # 0
      <4>1. k - 1 \in 0 .. n
        BY <3>2
      <4>2. h[k - 1] = f[k - 1]
        BY <2>6, <4>1
      <4> QED BY <4>2, Zenon DEF KeyStep
    <3> QED BY <3>1, <3>2
  <2>8. \A k \in 0 .. n + 1 : h[k] = KeyStep(h, scheme, sorted, k)
    <3> TAKE k \in 0 .. n + 1
    <3>1. CASE k = n + 1
      BY <2>6, <2>7, <3>1 DEF last
    <3>2. CASE k \in 0 .. n
      BY <2>3, <2>6, <2>7, <3>2
    <3> QED BY <2>4, <3>1, <3>2
  <2> QED BY <2>5, <2>8 DEF Builds
<1> HIDE DEF T
<1>4. Nat \subseteq T
  BY <1>2, <1>3, AllNaturals
<1>5. PICK f : Builds(f, scheme, sorted, N)
  BY <1>1, <1>4 DEF T
<1>6. f = [n \in 0 .. N |->
             IF n = 0 THEN AppendKeyComponent(<<>>, scheme)
             ELSE AppendKeyComponent(AppendKeyComponent(f[n - 1], sorted[n][1]), sorted[n][2])]
  <2>1. f = [n \in 0 .. N |-> f[n]]
    BY <1>5 DEF Builds
  <2>2. \A n \in 0 .. N : f[n] = KeyStep(f, scheme, sorted, n)
    BY <1>5 DEF Builds
  <2> QED BY <2>1, <2>2 DEF KeyStep
<1> DEFINE Builder(g) ==
      g = [n \in 0 .. N |->
             IF n = 0 THEN AppendKeyComponent(<<>>, scheme)
             ELSE AppendKeyComponent(AppendKeyComponent(g[n - 1], sorted[n][1]), sorted[n][2])]
    key == CHOOSE g : Builder(g)
<1>7. Builder(key)
  BY <1>6
<1>8. CreateRemoveGroupKey(scheme, sorted) = key[N]
  BY DEF CreateRemoveGroupKey, N
<1> HIDE DEF key
<1>9. Builds(key, scheme, sorted, N)
  <2>1. \A n \in 0 .. N : key[n] = KeyStep(key, scheme, sorted, n)
    BY <1>7 DEF KeyStep
  <2> DEFINE wrong == {n \in 0 .. N : key[n] # f[n]}
  <2>2. wrong = {}
    <3> SUFFICES ASSUME wrong # {} PROVE FALSE
      OBVIOUS
    <3>0. wrong \subseteq Nat
      BY <1>1
    <3>1. PICK n \in wrong : \A i \in wrong : n <= i
      BY <3>0, LeastOf
    <3>2. /\ n \in 0 .. N /\ f[n] = KeyStep(f, scheme, sorted, n)
          /\ key[n] = KeyStep(key, scheme, sorted, n)
      BY <1>5, <2>1 DEF Builds
    <3>3. CASE n = 0
      BY <3>1, <3>2, <3>3 DEF KeyStep
    <3>4. CASE n # 0
      <4>1. n - 1 \in 0 .. N /\ ~(n <= n - 1)
        BY <1>1, <3>2, <3>4
      <4>2. n - 1 \notin wrong
        BY <3>1, <4>1
      <4>3. key[n - 1] = f[n - 1]
        BY <4>1, <4>2
      <4>4. KeyStep(f, scheme, sorted, n) = KeyStep(key, scheme, sorted, n)
        BY <4>3, Zenon DEF KeyStep
      <4> QED BY <3>1, <3>2, <4>4
    <3> QED BY <3>3, <3>4
  <2>3. DOMAIN key = 0 .. N /\ key = [n \in 0 .. N |-> key[n]]
    BY <1>7
  <2>4. key \in [0 .. N -> String]
    <3>1. \A n \in 0 .. N : key[n] \in String
      BY <1>5, <2>2 DEF Builds
    <3> QED BY <2>3, <3>1
  <2> QED BY <2>1, <2>4 DEF Builds
<1> QED BY <1>8, <1>9 DEF N

\* What the key holds at each entry.
LEMMA KeySpread ==
  ASSUME NEW scheme \in String, NEW sorted \in Seq(Pair), NEW f,
         Builds(f, scheme, sorted, Len(sorted))
  PROVE  /\ f[0] = Encoded(scheme)
         /\ \A n \in 0 .. Len(sorted) :
              /\ f[n] \in String
              /\ \E r \in String : f[Len(sorted)] = Joins(f[n], r)
         /\ \A n \in 1 .. Len(sorted) :
              /\ sorted[n] = <<sorted[n][1], sorted[n][2]>>
              /\ sorted[n][1] \in String /\ sorted[n][2] \in String
              /\ \E r \in String :
                   f[Len(sorted)]
                     = Joins(f[n - 1], Joins(Encoded(sorted[n][1]), Joins(Encoded(sorted[n][2]), r)))
<1> DEFINE N == Len(sorted)
           A(n) == Encoded(sorted[n][1])
           B(n) == Encoded(sorted[n][2])
<1>1. /\ N \in Nat
      /\ \A n \in 1 .. N : /\ sorted[n] \in Pair /\ sorted[n] = <<sorted[n][1], sorted[n][2]>>
                           /\ sorted[n][1] \in String /\ sorted[n][2] \in String
  BY LenProperties, ElementOfSeq DEF Pair
<1>2. \A n \in 0 .. N : f[n] \in String /\ f[n] = KeyStep(f, scheme, sorted, n)
  BY DEF Builds
<1> HIDE DEF N
<1>3. f[0] = Encoded(scheme)
  <2>1. <<>> \in String
    BY EmptySeq DEF String
  <2>2. f[0] = Joins(<<>>, Encoded(scheme))
    BY <1>1, <1>2, <2>1, Appends DEF KeyStep
  <2>3. Encoded(scheme) \in Seq(Nat)
    BY EncodedString DEF String
  <2> QED BY <2>2, <2>3, ConcatEmptySeq DEF Joins
<1>4. \A n \in 1 .. N : A(n) \in String /\ B(n) \in String
  BY <1>1, EncodedString
<1>5. \A n \in 1 .. N : f[n] = Joins(Joins(f[n - 1], A(n)), B(n)) /\ f[n - 1] \in String
  <2> TAKE n \in 1 .. N
  <2>1. f[n - 1] \in String /\ n # 0 /\ n \in 0 .. N
    BY <1>1, <1>2
  <2>2. f[n] = AppendKeyComponent(AppendKeyComponent(f[n - 1], sorted[n][1]), sorted[n][2])
    BY <1>2, <2>1 DEF KeyStep
  <2>3. /\ AppendKeyComponent(f[n - 1], sorted[n][1]) = Joins(f[n - 1], A(n))
        /\ AppendKeyComponent(f[n - 1], sorted[n][1]) \in String
    BY <1>1, <2>1, Appends
  <2>4. f[n] = Joins(AppendKeyComponent(f[n - 1], sorted[n][1]), B(n))
    BY <1>1, <2>2, <2>3, Appends
  <2> QED BY <2>1, <2>3, <2>4
<1> HIDE DEF A, B
<1>6. ASSUME NEW n \in 1 .. N, NEW r \in String
      PROVE  /\ Joins(f[n], r) = Joins(f[n - 1], Joins(A(n), Joins(B(n), r)))
             /\ Joins(A(n), Joins(B(n), r)) \in String
  <2>1. f[n - 1] \in String /\ A(n) \in String /\ B(n) \in String
    BY <1>4, <1>5
  <2>2. Joins(f[n - 1], A(n)) \in String /\ Joins(B(n), r) \in String
    BY <2>1, JoinsString
  <2>3. Joins(Joins(Joins(f[n - 1], A(n)), B(n)), r) = Joins(Joins(f[n - 1], A(n)), Joins(B(n), r))
    BY <2>1, <2>2, JoinsAssociative
  <2>4. Joins(Joins(f[n - 1], A(n)), Joins(B(n), r)) = Joins(f[n - 1], Joins(A(n), Joins(B(n), r)))
    BY <2>1, <2>2, JoinsAssociative
  <2>5. Joins(A(n), Joins(B(n), r)) \in String
    BY <2>1, <2>2, JoinsString
  <2> QED BY <1>5, <2>3, <2>4, <2>5
<1>7. \A n \in 0 .. N : \E r \in String : f[N] = Joins(f[n], r)
  <2> DEFINE T == {j \in Nat : j <= N => \E r \in String : f[N] = Joins(f[N - j], r)}
  <2>1. 0 \in T
    <3>1. f[N] \in Seq(Nat) /\ N - 0 = N
      BY <1>1, <1>2 DEF String
    <3>2. f[N] = Joins(f[N], <<>>) /\ <<>> \in String
      BY <3>1, ConcatEmptySeq, EmptySeq DEF Joins, String
    <3> QED BY <3>1, <3>2
  <2>2. ASSUME NEW j \in Nat, j \in T PROVE j + 1 \in T
    <3> SUFFICES ASSUME j + 1 <= N PROVE \E r \in String : f[N] = Joins(f[N - (j + 1)], r)
      OBVIOUS
    <3>1. PICK r \in String : f[N] = Joins(f[N - j], r)
      BY <1>1, <2>2
    <3>2. N - j \in 1 .. N /\ N - j - 1 = N - (j + 1)
      BY <1>1
    <3> DEFINE n == N - j
    <3> HIDE DEF n
    <3>3. /\ f[N] = Joins(f[n - 1], Joins(A(n), Joins(B(n), r)))
          /\ Joins(A(n), Joins(B(n), r)) \in String
      BY <1>6, <3>1, <3>2 DEF n
    <3> QED BY <3>2, <3>3 DEF n
  <2> HIDE DEF T
  <2>3. Nat \subseteq T
    BY <2>1, <2>2, AllNaturals
  <2> TAKE n \in 0 .. N
  <2>4. N - n \in T /\ N - n <= N /\ N - (N - n) = n
    BY <1>1, <2>3
  <2> QED BY <2>4 DEF T
<1>8. \A n \in 1 .. N : \E r \in String : f[N] = Joins(f[n - 1], Joins(A(n), Joins(B(n), r)))
  BY <1>1, <1>6, <1>7
<1> QED BY <1>1, <1>2, <1>3, <1>7, <1>8 DEF N, A, B

\* Two equal keys are read alike, from the first component on.
LEMMA ReadAlike ==
  ASSUME NEW scheme \in String, NEW other \in String,
         NEW c \in Seq(Pair), NEW d \in Seq(Pair), NEW f, NEW g,
         Builds(f, scheme, c, Len(c)), Builds(g, other, d, Len(d)), f[Len(c)] = g[Len(d)]
  PROVE  /\ scheme = other
         /\ \A n \in Nat :
              n <= Len(c) => n <= Len(d) /\ f[n] = g[n] /\ (n > 0 => c[n] = d[n])
<1> DEFINE M == Len(c)
           N == Len(d)
           T == {n \in Nat : n <= M => n <= N /\ f[n] = g[n] /\ (n > 0 => c[n] = d[n])}
<1>1. M \in Nat /\ N \in Nat /\ f[M] = g[N]
  BY LenProperties
<1>2. /\ f[0] = Encoded(scheme)
      /\ \A n \in 0 .. M : f[n] \in String /\ \E r \in String : f[M] = Joins(f[n], r)
      /\ \A n \in 1 .. M :
           /\ c[n] = <<c[n][1], c[n][2]>> /\ c[n][1] \in String /\ c[n][2] \in String
           /\ \E r \in String :
                f[M] = Joins(f[n - 1], Joins(Encoded(c[n][1]), Joins(Encoded(c[n][2]), r)))
  BY KeySpread
<1>3. /\ g[0] = Encoded(other)
      /\ \A n \in 0 .. N : g[n] \in String /\ \E r \in String : g[N] = Joins(g[n], r)
      /\ \A n \in 1 .. N :
           /\ d[n] = <<d[n][1], d[n][2]>> /\ d[n][1] \in String /\ d[n][2] \in String
           /\ \E r \in String :
                g[N] = Joins(g[n - 1], Joins(Encoded(d[n][1]), Joins(Encoded(d[n][2]), r)))
  BY KeySpread
<1> HIDE DEF M, N
<1>4. scheme = other
  <2>1. 0 \in 0 .. M /\ 0 \in 0 .. N
    BY <1>1
  <2>2. PICK r \in String : f[M] = Joins(Encoded(scheme), r)
    BY <1>2, <2>1
  <2>3. PICK s \in String : g[N] = Joins(Encoded(other), s)
    BY <1>3, <2>1
  <2>4. Joins(Encoded(scheme), r) = Joins(Encoded(other), s)
    BY <1>1, <2>2, <2>3
  <2> QED BY <2>4, ReadsBack
<1>5. 0 \in T
  BY <1>1, <1>2, <1>3, <1>4
<1>6. ASSUME NEW n \in Nat, n \in T PROVE n + 1 \in T
  <2> SUFFICES ASSUME n + 1 <= M
               PROVE  n + 1 <= N /\ f[n + 1] = g[n + 1] /\ c[n + 1] = d[n + 1]
    OBVIOUS
  <2>1. n <= N /\ f[n] = g[n]
    BY <1>1, <1>6
  <2>2. n + 1 \in 1 .. M /\ n + 1 - 1 = n /\ n \in 0 .. M
    BY <1>1
  <2> DEFINE a1 == c[n + 1][1]
             a2 == c[n + 1][2]
             b1 == d[n + 1][1]
             b2 == d[n + 1][2]
  <2>3. /\ c[n + 1] = <<a1, a2>> /\ a1 \in String /\ a2 \in String
        /\ \E r \in String : f[M] = Joins(f[n + 1 - 1], Joins(Encoded(a1), Joins(Encoded(a2), r)))
    BY <1>2, <2>2
  <2> HIDE DEF a1, a2, b1, b2
  <2>4. PICK r \in String : f[M] = Joins(f[n], Joins(Encoded(a1), Joins(Encoded(a2), r)))
    BY <2>2, <2>3
  <2>5. f[n] \in String /\ Encoded(a1) \in String /\ Encoded(a2) \in String
    BY <1>2, <2>2, <2>3, EncodedString
  <2>6. Joins(Encoded(a2), r) \in String /\ Joins(Encoded(a1), Joins(Encoded(a2), r)) \in String
    BY <2>5, JoinsString
  <2>7. n + 1 <= N
    <3> SUFFICES ASSUME n = N PROVE FALSE
      BY <1>1, <2>1
    <3>1. f[n] = Joins(f[n], Joins(Encoded(a1), Joins(Encoded(a2), r)))
      BY <1>1, <2>1, <2>4
    <3>2. Len(f[n]) = Len(f[n]) + Len(Joins(Encoded(a1), Joins(Encoded(a2), r)))
      <4> DEFINE tail == Joins(Encoded(a1), Joins(Encoded(a2), r))
      <4>1. f[n] \in String /\ tail \in String
        BY <2>5, <2>6
      <4>2. f[n] = Joins(f[n], tail)
        BY <3>1
      <4> HIDE DEF tail
      <4>3. Len(Joins(f[n], tail)) = Len(f[n]) + Len(tail)
        BY <4>1, JoinsString
      <4>4. Len(f[n]) = Len(Joins(f[n], tail))
        BY <4>2
      <4> QED BY <4>3, <4>4 DEF tail
    <3>3. /\ Len(Joins(Encoded(a1), Joins(Encoded(a2), r)))
               = Len(Encoded(a1)) + Len(Joins(Encoded(a2), r))
          /\ Len(Joins(Encoded(a2), r)) \in Nat /\ Len(f[n]) \in Nat
      BY <2>5, <2>6, JoinsString, StringLength
    <3>4. Len(Encoded(a1)) >= 1 /\ Len(Encoded(a1)) \in Nat
      BY <2>3, EncodedString
    <3> DEFINE x == Len(f[n])
               y == Len(Encoded(a1))
               z == Len(Joins(Encoded(a2), r))
    <3>5. x = x + (y + z) /\ x \in Nat /\ y \in Nat /\ y >= 1 /\ z \in Nat
      BY <3>2, <3>3, <3>4
    <3> HIDE DEF x, y, z
    <3> QED BY <3>5
  <2>8. n + 1 \in 1 .. N /\ n \in 0 .. N
    BY <1>1, <2>1, <2>7
  <2>9. /\ d[n + 1] = <<b1, b2>> /\ b1 \in String /\ b2 \in String
        /\ \E s \in String : g[N] = Joins(g[n + 1 - 1], Joins(Encoded(b1), Joins(Encoded(b2), s)))
    BY <1>3, <2>8 DEF b1, b2
  <2>10. PICK s \in String : g[N] = Joins(g[n], Joins(Encoded(b1), Joins(Encoded(b2), s)))
    BY <2>2, <2>9
  <2>11. /\ Joins(Encoded(b2), s) \in String /\ Joins(Encoded(b1), Joins(Encoded(b2), s)) \in String
    BY <2>9, EncodedString, JoinsString
  <2>12. Joins(Encoded(a1), Joins(Encoded(a2), r)) = Joins(Encoded(b1), Joins(Encoded(b2), s))
    <3>1. Joins(f[n], Joins(Encoded(a1), Joins(Encoded(a2), r)))
            = Joins(f[n], Joins(Encoded(b1), Joins(Encoded(b2), s)))
      BY <1>1, <2>1, <2>4, <2>10
    <3> QED BY <2>5, <2>6, <2>11, <3>1, JoinsCancel
  <2>13. a1 = b1 /\ Joins(Encoded(a2), r) = Joins(Encoded(b2), s)
    BY <2>3, <2>6, <2>9, <2>11, <2>12, ReadsBack
  <2>14. a2 = b2
    BY <2>3, <2>9, <2>13, ReadsBack
  <2>15. c[n + 1] = d[n + 1]
    BY <2>3, <2>9, <2>13, <2>14
  <2>16. f[n + 1] = g[n + 1]
    <3>1. /\ f[n + 1] = KeyStep(f, scheme, c, n + 1)
          /\ g[n + 1] = KeyStep(g, other, d, n + 1)
      BY <1>1, <2>2, <2>8 DEF Builds, M, N
    <3>2. n + 1 # 0
      OBVIOUS
    <3>3. /\ f[n + 1] = AppendKeyComponent(AppendKeyComponent(f[n], c[n + 1][1]), c[n + 1][2])
          /\ g[n + 1] = AppendKeyComponent(AppendKeyComponent(g[n], d[n + 1][1]), d[n + 1][2])
      BY <2>2, <3>1, <3>2 DEF KeyStep
    <3> QED BY <2>1, <2>15, <3>3
  <2> QED BY <2>7, <2>15, <2>16
<1> HIDE DEF T
<1>7. Nat \subseteq T
  BY <1>5, <1>6, AllNaturals
<1> QED BY <1>4, <1>7 DEF T, M, N

\* A scheme and sorted entries can be read off their key.
LEMMA KeyReadsBack ==
  ASSUME NEW scheme \in String, NEW other \in String, NEW c \in Seq(Pair), NEW d \in Seq(Pair),
         CreateRemoveGroupKey(scheme, c) = CreateRemoveGroupKey(other, d)
  PROVE  scheme = other /\ c = d
<1>1. PICK f : /\ Builds(f, scheme, c, Len(c))
               /\ CreateRemoveGroupKey(scheme, c) = f[Len(c)]
  BY KeyBuilt
<1>2. PICK g : /\ Builds(g, other, d, Len(d))
               /\ CreateRemoveGroupKey(other, d) = g[Len(d)]
  BY KeyBuilt
<1>3. f[Len(c)] = g[Len(d)]
  BY <1>1, <1>2
<1>4. Len(c) \in Nat /\ Len(d) \in Nat
  BY LenProperties
<1>5. /\ scheme = other
      /\ \A n \in Nat : n <= Len(c) => n <= Len(d) /\ (n > 0 => c[n] = d[n])
  BY <1>1, <1>2, <1>3, ReadAlike
<1>6. \A n \in Nat : n <= Len(d) => n <= Len(c)
  BY <1>1, <1>2, <1>3, ReadAlike
<1>7. Len(c) = Len(d) /\ \A i \in 1 .. Len(c) : c[i] = d[i]
  BY <1>4, <1>5, <1>6
<1> QED BY <1>5, <1>7, SeqEqual

-----------------------------------------------------------------------------
(* The order of strings, and of entries. *)

\* t comes after s, and they first differ at k.
Splits(s, t, k) ==
  /\ k \in Nat /\ 1 <= k /\ k <= Len(t) /\ k <= Len(s) + 1
  /\ \A i \in Nat : 1 <= i /\ i < k => s[i] = t[i]
  /\ k <= Len(s) => s[k] < t[k]

LEMMA BeforeSplits ==
  ASSUME NEW s \in String, NEW t \in String
  PROVE  Before(s, t) <=> \E k \in Nat : Splits(s, t, k)
<1>1. Len(s) \in Nat /\ Len(t) \in Nat
  BY StringLength
<1>2. ASSUME NEW k \in 1 .. Len(t), k <= Len(s) + 1, \A i \in 1 .. k - 1 : s[i] = t[i],
             k <= Len(s) => s[k] < t[k]
      PROVE  Splits(s, t, k)
  <2>1. \A i \in Nat : 1 <= i /\ i < k => i \in 1 .. k - 1
    BY <1>1
  <2> QED BY <1>1, <1>2, <2>1 DEF Splits
<1>3. ASSUME NEW k \in Nat, Splits(s, t, k) PROVE Before(s, t)
  <2>1. k \in 1 .. Len(t) /\ \A i \in 1 .. k - 1 : s[i] = t[i]
    BY <1>1, <1>3 DEF Splits
  <2> QED BY <1>3, <2>1 DEF Splits, Before
<1>4. Before(s, t) => \E k \in Nat : Splits(s, t, k)
  BY <1>1, <1>2 DEF Before
<1> QED BY <1>3, <1>4

LEMMA BeforeAsymmetric ==
  ASSUME NEW s \in String, NEW t \in String, Before(s, t), Before(t, s)
  PROVE  FALSE
<1>1. PICK k \in Nat : Splits(s, t, k)
  BY BeforeSplits
<1>2. PICK l \in Nat : Splits(t, s, l)
  BY BeforeSplits
<1>3. Len(s) \in Nat /\ Len(t) \in Nat
  BY StringLength
<1>4. /\ 1 <= k /\ k <= Len(t) /\ k <= Len(s) + 1
      /\ (\A i \in Nat : 1 <= i /\ i < k => s[i] = t[i])
      /\ k <= Len(s) => s[k] < t[k]
  BY <1>1 DEF Splits
<1>5. /\ 1 <= l /\ l <= Len(s) /\ l <= Len(t) + 1
      /\ (\A i \in Nat : 1 <= i /\ i < l => t[i] = s[i])
      /\ l <= Len(t) => t[l] < s[l]
  BY <1>2 DEF Splits
<1>6. /\ k <= Len(s) => s[k] \in Nat /\ t[k] \in Nat
      /\ l <= Len(t) => s[l] \in Nat /\ t[l] \in Nat
  <2>1. /\ \A i \in 1 .. Len(s) : s[i] \in Nat
        /\ \A i \in 1 .. Len(t) : t[i] \in Nat
    BY ElementOfSeq DEF String
  <2> QED BY <1>3, <1>4, <1>5, <2>1
<1>7. CASE k < l
  <2>1. k <= Len(s) /\ t[k] = s[k]
    BY <1>3, <1>4, <1>5, <1>7
  <2> QED BY <1>4, <1>6, <2>1
<1>8. CASE l < k
  <2>1. l <= Len(t) /\ t[l] = s[l]
    BY <1>3, <1>4, <1>5, <1>8
  <2> QED BY <1>5, <1>6, <2>1
<1>9. CASE k = l
  BY <1>4, <1>5, <1>6, <1>9
<1> QED BY <1>7, <1>8, <1>9

LEMMA BeforeTotal ==
  ASSUME NEW s \in String, NEW t \in String, s # t
  PROVE  Before(s, t) \/ Before(t, s)
<1>1. Len(s) \in Nat /\ Len(t) \in Nat
  BY StringLength
<1> DEFINE differ == {i \in Nat : 1 <= i /\ i <= Len(s) /\ i <= Len(t) /\ s[i] # t[i]}
<1>2. CASE differ # {}
  <2>1. PICK k \in differ : \A i \in differ : k <= i
    BY <1>2, LeastOf
  <2>2. \A i \in Nat : 1 <= i /\ i < k => s[i] = t[i]
    BY <1>1, <2>1
  <2>3. k \in 1 .. Len(s) /\ k \in 1 .. Len(t) /\ s[k] # t[k]
    BY <1>1
  <2>4. s[k] \in Nat /\ t[k] \in Nat
    BY <2>3, ElementOfSeq DEF String
  <2> HIDE DEF differ
  <2>5. CASE s[k] < t[k]
    <3>1. Splits(s, t, k)
      BY <1>1, <2>2, <2>3, <2>5 DEF Splits
    <3> QED BY <2>3, <3>1, BeforeSplits
  <2>6. CASE t[k] < s[k]
    <3>1. Splits(t, s, k)
      BY <1>1, <2>2, <2>3, <2>6 DEF Splits
    <3> QED BY <2>3, <3>1, BeforeSplits
  <2> QED BY <2>3, <2>4, <2>5, <2>6
<1>3. CASE differ = {}
  <2>1. \A i \in Nat : 1 <= i /\ i <= Len(s) /\ i <= Len(t) => s[i] = t[i]
    BY <1>3
  <2>2. CASE Len(s) < Len(t)
    <3>1. Splits(s, t, Len(s) + 1)
      BY <1>1, <2>1, <2>2 DEF Splits
    <3> QED BY <1>1, <3>1, BeforeSplits
  <2>3. CASE Len(t) < Len(s)
    <3>1. Splits(t, s, Len(t) + 1)
      BY <1>1, <2>1, <2>3 DEF Splits
    <3> QED BY <1>1, <3>1, BeforeSplits
  <2>4. CASE Len(s) = Len(t)
    BY <1>1, <2>1, <2>4, SameString
  <2> QED BY <1>1, <2>2, <2>3, <2>4
<1> QED BY <1>2, <1>3

LEMMA BeforeTransitive ==
  ASSUME NEW s \in String, NEW t \in String, NEW u \in String, Before(s, t), Before(t, u)
  PROVE  Before(s, u)
<1>1. PICK k \in Nat : Splits(s, t, k)
  BY BeforeSplits
<1>2. PICK l \in Nat : Splits(t, u, l)
  BY BeforeSplits
<1>3. Len(s) \in Nat /\ Len(t) \in Nat /\ Len(u) \in Nat
  BY StringLength
<1>4. /\ 1 <= k /\ k <= Len(t) /\ k <= Len(s) + 1
      /\ (\A i \in Nat : 1 <= i /\ i < k => s[i] = t[i])
      /\ k <= Len(s) => s[k] < t[k]
  BY <1>1 DEF Splits
<1>5. /\ 1 <= l /\ l <= Len(u) /\ l <= Len(t) + 1
      /\ (\A i \in Nat : 1 <= i /\ i < l => t[i] = u[i])
      /\ l <= Len(t) => t[l] < u[l]
  BY <1>2 DEF Splits
<1>6. \A i \in Nat : 1 <= i =>
        /\ i <= Len(s) => s[i] \in Nat
        /\ i <= Len(t) => t[i] \in Nat
        /\ i <= Len(u) => u[i] \in Nat
  BY <1>3, ElementOfSeq DEF String
<1>7. CASE k < l
  <2>1. k <= Len(u) /\ t[k] = u[k]
    BY <1>3, <1>4, <1>5, <1>7
  <2>2. \A i \in Nat : 1 <= i /\ i < k => s[i] = u[i]
    BY <1>4, <1>5, <1>7
  <2>3. Splits(s, u, k)
    BY <1>3, <1>4, <2>1, <2>2 DEF Splits
  <2> QED BY <2>3, BeforeSplits
<1>8. CASE l < k
  <2>1. l <= Len(s) /\ l <= Len(t) /\ s[l] = t[l]
    BY <1>3, <1>4, <1>5, <1>8
  <2>2. \A i \in Nat : 1 <= i /\ i < l => s[i] = u[i]
    BY <1>4, <1>5, <1>8
  <2>3. Splits(s, u, l)
    BY <1>3, <1>5, <2>1, <2>2 DEF Splits
  <2> QED BY <2>3, BeforeSplits
<1>9. CASE k = l
  <2>1. \A i \in Nat : 1 <= i /\ i < k => s[i] = u[i]
    BY <1>4, <1>5, <1>9
  <2>2. k <= Len(s) => s[k] < u[k]
    <3> SUFFICES ASSUME k <= Len(s) PROVE s[k] < u[k]
      OBVIOUS
    <3>1. s[k] < t[k] /\ t[k] < u[k]
      BY <1>4, <1>5, <1>9
    <3>2. s[k] \in Nat /\ t[k] \in Nat /\ u[k] \in Nat
      BY <1>4, <1>5, <1>6, <1>9
    <3> QED BY <3>1, <3>2
  <2>3. Splits(s, u, k)
    BY <1>3, <1>4, <1>5, <1>9, <2>1, <2>2 DEF Splits
  <2> QED BY <2>3, BeforeSplits
<1> QED BY <1>7, <1>8, <1>9

\* Entries are strictly and totally ordered.
LEMMA EntryOrder ==
  ASSUME NEW e \in Pair, NEW f \in Pair
  PROVE  /\ ~(EntryBefore(e, f) /\ EntryBefore(f, e))
         /\ e # f => EntryBefore(e, f) \/ EntryBefore(f, e)
<1>1. /\ e[1] \in String /\ e[2] \in String /\ f[1] \in String /\ f[2] \in String
      /\ e = <<e[1], e[2]>> /\ f = <<f[1], f[2]>>
  BY DEF Pair
<1>2. ~(EntryBefore(e, f) /\ EntryBefore(f, e))
  BY <1>1, BeforeAsymmetric DEF EntryBefore
<1>3. ASSUME e # f PROVE EntryBefore(e, f) \/ EntryBefore(f, e)
  <2>1. CASE e[1] # f[1]
    BY <1>1, <2>1, BeforeTotal DEF EntryBefore
  <2>2. CASE e[1] = f[1]
    <3>1. e[2] # f[2]
      BY <1>1, <1>3, <2>2
    <3> QED BY <1>1, <2>2, <3>1, BeforeTotal DEF EntryBefore
  <2> QED BY <2>1, <2>2
<1> QED BY <1>2, <1>3

LEMMA EntryTransitive ==
  ASSUME NEW e \in Pair, NEW f \in Pair, NEW g \in Pair, EntryBefore(e, f), EntryBefore(f, g)
  PROVE  EntryBefore(e, g)
<1>1. /\ e[1] \in String /\ e[2] \in String /\ f[1] \in String /\ f[2] \in String
      /\ g[1] \in String /\ g[2] \in String
  BY DEF Pair
<1>2. CASE Before(e[1], f[1]) /\ Before(f[1], g[1])
  BY <1>1, <1>2, BeforeTransitive DEF EntryBefore
<1>3. CASE e[1] = f[1] \/ f[1] = g[1]
  BY <1>1, <1>3, BeforeTransitive, BeforeAsymmetric DEF EntryBefore
<1> QED BY <1>2, <1>3 DEF EntryBefore

-----------------------------------------------------------------------------
(* Sorted entries. *)

Arranges(e, n, S) ==
  /\ e \in [1 .. n -> S]
  /\ \A i, j \in 1 .. n : e[i] = e[j] => i = j
  /\ \A x \in S : \E i \in 1 .. n : e[i] = x

Ascends(e, n) == \A i, j \in 1 .. n : i < j => EntryBefore(e[i], e[j])

LEMMA Bijections ==
  ASSUME NEW e, NEW n \in Nat, NEW S
  PROVE  e \in Bijection(1 .. n, S) <=> Arranges(e, n, S)
BY DEF Bijection, Injection, Surjection, IsInjective, Arranges

LEMMA ArrangedSize ==
  ASSUME NEW e, NEW n \in Nat, NEW S, Arranges(e, n, S)
  PROVE  IsFiniteSet(S) /\ Cardinality(S) = n
<1>1. ExistsBijection(1 .. n, S)
  BY Bijections DEF ExistsBijection
<1> QED BY <1>1, FS_CountingElements, FS_NatBijection

\* Of some entries one is the greatest.
LEMMA Greatest ==
  ASSUME NEW n \in Nat, NEW S, S \subseteq Pair, IsFiniteSet(S), Cardinality(S) = n + 1
  PROVE  \E x \in S : \A y \in S : y # x => EntryBefore(y, x)
<1> DEFINE Has(R) == \E x \in R : \A y \in R : y # x => EntryBefore(y, x)
           T == {k \in Nat : \A R \in SUBSET Pair :
                    IsFiniteSet(R) /\ Cardinality(R) = k + 1 => Has(R)}
<1>1. 0 \in T
  <2> SUFFICES ASSUME NEW R \in SUBSET Pair, IsFiniteSet(R), Cardinality(R) = 0 + 1
               PROVE  Has(R)
    OBVIOUS
  <2>1. R # {}
    BY FS_EmptySet
  <2>2. PICK x \in R : TRUE
    BY <2>1
  <2>3. IsFiniteSet(R \ {x}) /\ Cardinality(R \ {x}) = 0
    BY FS_RemoveElement
  <2>4. R \ {x} = {}
    BY <2>3, FS_EmptySet
  <2> QED BY <2>2, <2>4
<1>2. ASSUME NEW k \in Nat, k \in T PROVE k + 1 \in T
  <2> SUFFICES ASSUME NEW R \in SUBSET Pair, IsFiniteSet(R), Cardinality(R) = k + 1 + 1
               PROVE  Has(R)
    OBVIOUS
  <2>1. R # {}
    BY FS_EmptySet
  <2>2. PICK x \in R : TRUE
    BY <2>1
  <2> DEFINE Q == R \ {x}
  <2>3. IsFiniteSet(Q) /\ Cardinality(Q) = k + 1
    BY FS_RemoveElement
  <2>4. Has(Q)
    BY <1>2, <2>3
  <2>5. PICK m \in Q : \A y \in Q : y # m => EntryBefore(y, m)
    BY <2>4
  <2>6. m \in Pair /\ x \in Pair /\ m # x /\ m \in R /\ \A y \in R : y \in Pair /\ (y = x \/ y \in Q)
    OBVIOUS
  <2>7. CASE EntryBefore(x, m)
    <3>1. \A y \in R : y # m => EntryBefore(y, m)
      BY <2>5, <2>6, <2>7
    <3> QED BY <2>6, <3>1
  <2>8. CASE EntryBefore(m, x)
    <3>1. \A y \in R : y # x => EntryBefore(y, x)
      BY <2>5, <2>6, <2>8, EntryTransitive
    <3> QED BY <2>2, <3>1
  <2> QED BY <2>6, <2>7, <2>8, EntryOrder
<1> HIDE DEF T
<1>3. n \in T
  BY <1>1, <1>2, AllNaturals
<1> QED BY <1>3 DEF T

\* Any entries can be sorted.
LEMMA CanBeSorted ==
  ASSUME NEW n \in Nat, NEW S, S \subseteq Pair, IsFiniteSet(S), Cardinality(S) = n
  PROVE  \E e : Arranges(e, n, S) /\ Ascends(e, n)
<1> DEFINE T == {k \in Nat : \A R \in SUBSET Pair :
                    IsFiniteSet(R) /\ Cardinality(R) = k =>
                      \E e : Arranges(e, k, R) /\ Ascends(e, k)}
<1>1. 0 \in T
  <2> SUFFICES ASSUME NEW R \in SUBSET Pair, IsFiniteSet(R), Cardinality(R) = 0
               PROVE  \E e : Arranges(e, 0, R) /\ Ascends(e, 0)
    OBVIOUS
  <2>1. R = {}
    BY FS_EmptySet
  <2> DEFINE e == [i \in 1 .. 0 |-> i]
  <2>2. 1 .. 0 = {}
    OBVIOUS
  <2>3. e \in [1 .. 0 -> R]
    BY <2>2
  <2>4. Arranges(e, 0, R) /\ Ascends(e, 0)
    BY <2>1, <2>2, <2>3 DEF Arranges, Ascends
  <2> QED BY <2>4
<1>2. ASSUME NEW k \in Nat, k \in T PROVE k + 1 \in T
  <2> SUFFICES ASSUME NEW R \in SUBSET Pair, IsFiniteSet(R), Cardinality(R) = k + 1
               PROVE  \E e : Arranges(e, k + 1, R) /\ Ascends(e, k + 1)
    OBVIOUS
  <2>1. PICK x \in R : \A y \in R : y # x => EntryBefore(y, x)
    BY Greatest
  <2> DEFINE Q == R \ {x}
  <2>2. IsFiniteSet(Q) /\ Cardinality(Q) = k
    <3>1. IsFiniteSet(Q) /\ Cardinality(Q) = Cardinality(R) - 1
      BY <2>1, FS_RemoveElement
    <3> QED BY <3>1
  <2>3. PICK d : Arranges(d, k, Q) /\ Ascends(d, k)
    BY <1>2, <2>2
  <2> DEFINE e == [i \in 1 .. k + 1 |-> IF i = k + 1 THEN x ELSE d[i]]
  <2>4. e[k + 1] = x /\ \A i \in 1 .. k : e[i] = d[i] /\ d[i] \in R /\ d[i] # x
    BY <2>3 DEF Arranges
  <2>5. \A i \in 1 .. k + 1 : i = k + 1 \/ i \in 1 .. k
    OBVIOUS
  <2>6. e \in [1 .. k + 1 -> R]
    <3>1. \A i \in 1 .. k + 1 : e[i] \in R
      BY <2>4, <2>5
    <3> QED BY <3>1
  <2> HIDE DEF e
  <2>7. \A i, j \in 1 .. k + 1 : e[i] = e[j] => i = j
    <3>1. \A i, j \in 1 .. k : d[i] = d[j] => i = j
      BY <2>3 DEF Arranges
    <3> QED BY <2>4, <2>5, <3>1
  <2>8. \A y \in R : \E i \in 1 .. k + 1 : e[i] = y
    <3> TAKE y \in R
    <3>1. CASE y = x
      <4>1. k + 1 \in 1 .. k + 1
        OBVIOUS
      <4> QED BY <2>4, <3>1, <4>1
    <3>2. CASE y # x
      <4>1. PICK i \in 1 .. k : d[i] = y
        BY <2>3, <3>2 DEF Arranges
      <4>2. i \in 1 .. k + 1
        OBVIOUS
      <4> QED BY <2>4, <4>1, <4>2
    <3> QED BY <3>1, <3>2
  <2>9. \A i, j \in 1 .. k + 1 : i < j => EntryBefore(e[i], e[j])
    <3> SUFFICES ASSUME NEW i \in 1 .. k + 1, NEW j \in 1 .. k + 1, i < j
                 PROVE  EntryBefore(e[i], e[j])
      OBVIOUS
    <3>1. i \in 1 .. k
      OBVIOUS
    <3>2. CASE j = k + 1
      BY <2>1, <2>4, <3>1, <3>2
    <3>3. CASE j \in 1 .. k
      <4>1. EntryBefore(d[i], d[j])
        BY <2>3, <3>1, <3>3 DEF Ascends
      <4> QED BY <2>4, <3>1, <3>3, <4>1
    <3> QED BY <2>5, <3>2, <3>3
  <2> QED BY <2>6, <2>7, <2>8, <2>9 DEF Arranges, Ascends
<1> HIDE DEF T
<1>3. n \in T
  BY <1>1, <1>2, AllNaturals
<1> QED BY <1>3 DEF T

\* In one way.
LEMMA SortedOneWay ==
  ASSUME NEW n \in Nat, NEW S, S \subseteq Pair, NEW d, NEW e,
         Arranges(d, n, S), Arranges(e, n, S), Ascends(d, n), Ascends(e, n)
  PROVE  d = e
<1> DEFINE differ == {i \in Nat : i \in 1 .. n /\ d[i] # e[i]}
<1>1. /\ d \in [1 .. n -> S] /\ e \in [1 .. n -> S]
      /\ \A i \in 1 .. n : d[i] \in Pair /\ e[i] \in Pair
  BY DEF Arranges
<1> SUFFICES ASSUME differ # {} PROVE FALSE
  BY <1>1
<1>2. PICK i \in differ : \A j \in differ : i <= j
  BY LeastOf
<1>3. i \in 1 .. n /\ d[i] # e[i] /\ d[i] \in S /\ e[i] \in S
  BY <1>1
<1>4. \A j \in 1 .. n : j < i => d[j] = e[j]
  BY <1>2
<1> HIDE DEF differ
<1>5. PICK j \in 1 .. n : d[j] = e[i]
  BY <1>3 DEF Arranges
<1>6. PICK k \in 1 .. n : e[k] = d[i]
  BY <1>3 DEF Arranges
<1>7. i < j
  <2>1. j # i
    BY <1>3, <1>5
  <2>2. ~(j < i)
    BY <1>3, <1>4, <1>5 DEF Arranges
  <2> QED BY <1>3, <2>1, <2>2
<1>8. i < k
  <2>1. k # i
    BY <1>3, <1>6
  <2>2. ~(k < i)
    BY <1>3, <1>4, <1>6 DEF Arranges
  <2> QED BY <1>3, <2>1, <2>2
<1>9. EntryBefore(d[i], e[i]) /\ EntryBefore(e[i], d[i])
  BY <1>3, <1>5, <1>6, <1>7, <1>8 DEF Ascends
<1> QED BY <1>1, <1>3, <1>9, EntryOrder

\* The entries of an operator, sorted.
LEMMA SortedEntries ==
  ASSUME NEW o \in Operators
  PROVE  LET S == ToSet(o.entries)
             n == Len(o.entries)
         IN
         /\ n \in Nat /\ S \subseteq Pair /\ IsFiniteSet(S) /\ Cardinality(S) = n
         /\ o.scheme \in String
         /\ \A e : e \in Sorted(o.entries) <=> Arranges(e, n, S) /\ Ascends(e, n)
<1> DEFINE c == o.entries
           S == ToSet(c)
           n == Len(c)
<1>0. Options \subseteq Pair /\ Components \subseteq String
  BY KeyAssumption DEF Options, Pair, String
<1>1. /\ o.scheme \in Components
      /\ c \in UNION {[1 .. m -> Options] : m \in 0 .. MaxOptions}
      /\ \A i, j \in DOMAIN c : c[i][1] = c[j][1] => i = j
  BY DEF Operators
<1>2. PICK m \in 0 .. MaxOptions : c \in [1 .. m -> Options]
  BY <1>1
<1>3. m \in Nat
  BY KeyAssumption
<1>4. DOMAIN c = 1 .. m /\ c \in Seq(Options) /\ n = m
  BY <1>2, <1>3
<1>5. Arranges(c, n, S)
  <2>1. c \in [1 .. n -> S]
    BY <1>2, <1>4 DEF ToSet
  <2>2. \A i, j \in 1 .. n : c[i] = c[j] => i = j
    BY <1>1, <1>4
  <2>3. \A x \in S : \E i \in 1 .. n : c[i] = x
    BY <1>4 DEF ToSet
  <2> QED BY <2>1, <2>2, <2>3 DEF Arranges
<1>6. S \subseteq Pair
  BY <1>0, <1>2, <1>4 DEF ToSet
<1>7. n \in Nat /\ DOMAIN c = 1 .. n
  BY <1>3, <1>4
<1>8. IsFiniteSet(S) /\ Cardinality(S) = n
  BY <1>5, <1>7, ArrangedSize
<1> HIDE DEF c, S, n
<1>9. ASSUME NEW e PROVE e \in Sorted(c) <=> Arranges(e, n, S) /\ Ascends(e, n)
  <2>1. e \in Sorted(c) <=> /\ e \in Bijection(1 .. n, S)
                            /\ \A i, j \in DOMAIN e : i < j => ~EntryBefore(e[j], e[i])
    BY <1>7 DEF Sorted, S
  <2>2. ASSUME Arranges(e, n, S)
        PROVE  (\A i, j \in DOMAIN e : i < j => ~EntryBefore(e[j], e[i])) <=> Ascends(e, n)
    <3>1. DOMAIN e = 1 .. n /\ \A i \in 1 .. n : e[i] \in Pair
      BY <1>6, <2>2 DEF Arranges
    <3>2. \A i, j \in 1 .. n : i < j => e[i] # e[j]
      BY <1>7, <2>2 DEF Arranges
    <3> QED BY <3>1, <3>2, EntryOrder DEF Ascends
  <2> QED BY <1>7, <2>1, <2>2, Bijections
<1> QED BY <1>0, <1>1, <1>6, <1>7, <1>8, <1>9 DEF c, S, n

LEMMA KeysApart ==
  ASSUME NEW o \in Operators, NEW p \in Operators, Keys[p] \cap Keys[o] # {}
  PROVE  p.scheme = o.scheme /\ SameOptions(p, o)
<1>1. PICK key \in Keys[p] : key \in Keys[o]
  OBVIOUS
<1>2. PICK d \in Sorted(p.entries) : key = CreateRemoveGroupKey(p.scheme, d)
  BY <1>1 DEF Keys
<1>3. PICK e \in Sorted(o.entries) : key = CreateRemoveGroupKey(o.scheme, e)
  BY <1>1 DEF Keys
<1>4. ASSUME NEW q \in Operators, NEW s \in Sorted(q.entries)
      PROVE  /\ s \in Seq(Pair) /\ {s[i] : i \in DOMAIN s} = ToSet(q.entries)
             /\ q.scheme \in String
  <2> DEFINE S == ToSet(q.entries)
             n == Len(q.entries)
  <2>1. n \in Nat /\ S \subseteq Pair /\ q.scheme \in String /\ Arranges(s, n, S)
    BY <1>4, SortedEntries
  <2> HIDE DEF S, n
  <2>2. s \in [1 .. n -> Pair] /\ DOMAIN s = 1 .. n
    BY <2>1 DEF Arranges
  <2>3. s \in Seq(Pair)
    BY <2>1, <2>2
  <2>4. {s[i] : i \in DOMAIN s} = S
    BY <2>1, <2>2 DEF Arranges
  <2> QED BY <2>1, <2>3, <2>4 DEF S
<1>5. p.scheme = o.scheme /\ d = e
  <2>1. p.scheme \in String /\ o.scheme \in String /\ d \in Seq(Pair) /\ e \in Seq(Pair)
    BY <1>4
  <2>2. CreateRemoveGroupKey(p.scheme, d) = CreateRemoveGroupKey(o.scheme, e)
    BY <1>2, <1>3
  <2> QED BY <2>1, <2>2, KeyReadsBack, SMTT(30)
<1> QED BY <1>4, <1>5 DEF SameOptions

LEMMA OneKey ==
  ASSUME NEW o \in Operators, NEW p \in Operators, p.scheme = o.scheme, SameOptions(p, o)
  PROVE  \E key \in Keys[o] : Keys[o] = {key} /\ Keys[p] = {key}
<1> DEFINE S == ToSet(o.entries)
           n == Len(o.entries)
<1>1. /\ n \in Nat /\ S \subseteq Pair /\ IsFiniteSet(S) /\ Cardinality(S) = n
      /\ \A e : e \in Sorted(o.entries) <=> Arranges(e, n, S) /\ Ascends(e, n)
  BY SortedEntries
<1>2. /\ S = ToSet(p.entries) /\ Cardinality(S) = Len(p.entries)
      /\ \A e : e \in Sorted(p.entries) <=> Arranges(e, Len(p.entries), ToSet(p.entries))
                                              /\ Ascends(e, Len(p.entries))
  BY SortedEntries DEF SameOptions
<1>3. \A e : e \in Sorted(p.entries) <=> Arranges(e, n, S) /\ Ascends(e, n)
  BY <1>1, <1>2
<1> HIDE DEF S, n
<1>4. PICK e : Arranges(e, n, S) /\ Ascends(e, n)
  BY <1>1, CanBeSorted
<1>5. \A d : Arranges(d, n, S) /\ Ascends(d, n) => d = e
  BY <1>1, <1>4, SortedOneWay
<1>6. Sorted(o.entries) = {e} /\ Sorted(p.entries) = {e}
  BY <1>1, <1>3, <1>4, <1>5
<1> DEFINE key == CreateRemoveGroupKey(o.scheme, e)
<1>7. Keys[o] = {key} /\ Keys[p] = {key}
  BY <1>6 DEF Keys
<1> QED BY <1>7

LEMMA AnOperator == KeySpec => []AnyOperator
<1>1. AnyOperator /\ [NextOperator]_operator => AnyOperator'
  BY DEF AnyOperator, NextOperator
<1> QED BY <1>1, PTL DEF KeySpec

\* Operators whose schemes or options differ never share a key, whatever characters
\* their strings hold and however many options they have.
THEOREM TellsApart == KeySpec => []KeyTellsApart
<1>1. AnyOperator => KeyTellsApart
  BY KeysApart DEF AnyOperator, KeyTellsApart
<1> QED BY <1>1, AnOperator, PTL

\* An operator has one key, in whatever order its options are listed and sorted.
THEOREM IgnoresOrder == KeySpec => []KeyIgnoresOrder
<1>1. AnyOperator => KeyIgnoresOrder
  BY OneKey DEF AnyOperator, KeyIgnoresOrder
<1> QED BY <1>1, AnOperator, PTL

\* Two operators get one key exactly if GroupKey, by which RemoveFiles compares them,
\* is one: the pair it makes of scheme and options stands for the string.
THEOREM GroupKeyStandsForKey ==
  \A o, p \in Operators :
    Keys[o] = Keys[p]
      <=> GroupKey(o.scheme, ToSet(o.entries)) = GroupKey(p.scheme, ToSet(p.entries))
<1> TAKE o \in Operators, p \in Operators
<1>1. GroupKey(o.scheme, ToSet(o.entries)) = GroupKey(p.scheme, ToSet(p.entries))
        <=> p.scheme = o.scheme /\ SameOptions(p, o)
  BY DEF GroupKey, SameOptions
<1>2. ASSUME p.scheme = o.scheme, SameOptions(p, o) PROVE Keys[o] = Keys[p]
  BY <1>2, OneKey
<1>3. ASSUME Keys[o] = Keys[p] PROVE p.scheme = o.scheme /\ SameOptions(p, o)
  <2>1. Keys[o] # {}
    <3>1. \E key \in Keys[o] : Keys[o] = {key}
      BY OneKey DEF SameOptions
    <3> QED BY <3>1
  <2> QED BY <1>3, <2>1, KeysApart
<1> QED BY <1>1, <1>2, <1>3
=============================================================================
