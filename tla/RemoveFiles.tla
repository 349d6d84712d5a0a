---------------------------- MODULE RemoveFiles ----------------------------
(***************************************************************************)
(* OpenDALFileSystem::RemoveFiles (opendal_file_system.cpp) and the        *)
(* grouping it starts with, GroupOpenDALRemovePaths                        *)
(* (opendal_remove_utils.cpp).                                             *)
(*                                                                         *)
(* A request is grouped path by path, then its groups are removed one      *)
(* after the other, each by an operator of its own that is built from the  *)
(* settings of that moment.  A group's RemoveAll returns, or throws having *)
(* removed some of the group's objects.  Two rounds of the grouping, or of *)
(* the removal, are two steps: others create objects in between.           *)
(***************************************************************************)
EXTENDS Naturals, Sequences, FiniteSets

CONSTANTS
  Requests,     \* calls of RemoveFiles
  Uris,         \* what DuckDB passes
  Schemes,      \* OpenDAL services
  Configs,      \* operator configurations, secrets included
  Paths,        \* object paths
  Locate,       \* Uris -> what TryParse and CreateOperatorConfig find
  EmptyPath,    \* the object path of a URI that names no object
  Unsupported,  \* what TryParse finds for a URI with no registered prefix
  MaxUris       \* bound: URIs of one request

Target == [scheme : Schemes, config : Configs, path : Paths \cup {EmptyPath}]
Object == [scheme : Schemes, config : Configs, path : Paths]

ASSUME RemoveAssumption ==
  /\ Locate \in [Uris -> Target \cup {Unsupported}]
  /\ EmptyPath \notin Paths
  /\ Unsupported \notin Target
  /\ MaxUris \in Nat

VARIABLES
  objects,  \* the services: the objects that exist
  request   \* how far each call has come

vars == <<objects, request>>

\* OpenDALRemoveGroup.
Group == [scheme : Schemes, config : Configs, paths : Seq(Paths)]

(***************************************************************************)
(* A call: the paths_p it was given, how many it has grouped, groups, how  *)
(* many groups it has removed, and the history field deleted: the objects  *)
(* its operators have deleted, or would have, had they existed.            *)
(***************************************************************************)
RequestState ==
  [phase : {"idle", "running", "returned", "threw"}, uris : Seq(Uris),
   grouped : Nat, groups : Seq(Group), removed : Nat, deleted : SUBSET Object]

Idle ==
  [phase |-> "idle", uris |-> <<>>, grouped |-> 0, groups |-> <<>>,
   removed |-> 0, deleted |-> {}]

TypeOK ==
  /\ objects \subseteq Object
  /\ request \in [Requests -> RequestState]

Init ==
  /\ objects = Object
  /\ request = [r \in Requests |-> Idle]

-----------------------------------------------------------------------------
\* GroupOpenDALRemovePaths keeps a URI that TryParse knows and that names an
\* object.
Valid(uri) == Locate[uri] # Unsupported /\ Locate[uri].path # EmptyPath

\* Faulty variant of GroupKey: the configuration is left out.
KeyOfScheme(scheme, config) == <<scheme>>

\* CreateRemoveGroupKey, which RemoveGroupKey shows to be one-to-one.
GroupKey(scheme, config) == <<scheme, config>>

Matching(groups, target) ==
  {i \in DOMAIN groups :
     GroupKey(groups[i].scheme, groups[i].config)
       = GroupKey(target.scheme, target.config)}

NewGroup(target) ==
  [scheme |-> target.scheme, config |-> target.config, paths |-> <<target.path>>]

\* Faulty variants of AddPath: only the latest group is looked at; the first
\* path of a group is read after it was moved from.
AddToLast(groups, target) ==
  IF Len(groups) \in Matching(groups, target)
  THEN [groups EXCEPT ![Len(groups)].paths = Append(@, target.path)]
  ELSE Append(groups, NewGroup(target))

AddMovedFrom(groups, target) ==
  IF Matching(groups, target) = {}
  THEN Append(groups, [NewGroup(target) EXCEPT !.paths = <<EmptyPath>>])
  ELSE [i \in DOMAIN groups |->
          IF i \in Matching(groups, target)
          THEN [groups[i] EXCEPT !.paths = Append(@, target.path)]
          ELSE groups[i]]

\* One path joins the group of its operator, or founds it after the others.
AddPath(groups, target) ==
  IF Matching(groups, target) = {}
  THEN Append(groups, NewGroup(target))
  ELSE [i \in DOMAIN groups |->
          IF i \in Matching(groups, target)
          THEN [groups[i] EXCEPT !.paths = Append(@, target.path)]
          ELSE groups[i]]

\* The objects group.paths name to the operator of the group.
ObjectsOf(group) ==
  {[scheme |-> group.scheme, config |-> group.config, path |-> group.paths[i]] :
     i \in DOMAIN group.paths}

-----------------------------------------------------------------------------
\* The call, with any paths.
Start(r, uris) ==
  /\ request[r].phase = "idle"
  /\ request' = [request EXCEPT ![r] = [Idle EXCEPT !.phase = "running",
                                                    !.uris = uris]]
  /\ UNCHANGED objects

\* The next path to be grouped, if there is one.
Ungrouped(r) ==
  /\ request[r].phase = "running"
  /\ request[r].grouped < Len(request[r].uris)

\* One round of the loop of GroupOpenDALRemovePaths.
GroupPath(r) ==
  LET uri == request[r].uris[request[r].grouped + 1] IN
  /\ Ungrouped(r)
  /\ Valid(uri)
  /\ request' = [request EXCEPT ![r].grouped = @ + 1,
                                ![r].groups = AddPath(@, Locate[uri])]
  /\ UNCHANGED objects

\* The path is not valid, or its secret cannot be looked up.
GroupPathThrows(r) ==
  /\ Ungrouped(r)
  /\ request' = [request EXCEPT ![r].phase = "threw"]
  /\ UNCHANGED objects

\* Faulty variant of Unremoved: groups are removed while paths are still grouped.
UnremovedSoFar(r) ==
  /\ request[r].phase = "running"
  /\ request[r].removed < Len(request[r].groups)

\* Every path is grouped, and there is a group to be removed.
Unremoved(r) ==
  /\ request[r].phase = "running"
  /\ request[r].grouped = Len(request[r].uris)
  /\ request[r].removed < Len(request[r].groups)

\* One round of the loop of RemoveFiles: the operator is built and RemoveAll
\* returns.
RemoveGroup(r) ==
  LET gone == ObjectsOf(request[r].groups[request[r].removed + 1]) IN
  /\ Unremoved(r)
  /\ objects' = objects \ gone
  /\ request' = [request EXCEPT ![r].removed = @ + 1,
                                ![r].deleted = @ \cup gone]

\* Faulty variant of RemoveGroupThrows: the error is dropped and the next group
\* is removed.
RemoveGroupGoesOn(r) ==
  /\ Unremoved(r)
  /\ \E gone \in SUBSET ObjectsOf(request[r].groups[request[r].removed + 1]) :
       /\ objects' = objects \ gone
       /\ request' = [request EXCEPT ![r].removed = @ + 1,
                                     ![r].deleted = @ \cup gone]

\* The settings, the operator or RemoveAll throws, the last of these after any
\* part of the group was removed.
RemoveGroupThrows(r) ==
  /\ Unremoved(r)
  /\ \E gone \in SUBSET ObjectsOf(request[r].groups[request[r].removed + 1]) :
       /\ objects' = objects \ gone
       /\ request' = [request EXCEPT ![r].phase = "threw",
                                     ![r].deleted = @ \cup gone]

\* Faulty variant of Return: the loop stops one group early.
ReturnEarly(r) ==
  /\ request[r].phase = "running"
  /\ request[r].grouped = Len(request[r].uris)
  /\ request[r].removed + 1 >= Len(request[r].groups)
  /\ request' = [request EXCEPT ![r].phase = "returned"]
  /\ UNCHANGED objects

Return(r) ==
  /\ request[r].phase = "running"
  /\ request[r].grouped = Len(request[r].uris)
  /\ request[r].removed = Len(request[r].groups)
  /\ request' = [request EXCEPT ![r].phase = "returned"]
  /\ UNCHANGED objects

\* Somebody else writes an object.
Create(o) ==
  /\ objects' = objects \cup {o}
  /\ UNCHANGED request

Next ==
  \/ \E r \in Requests :
       \/ \E n \in 0 .. MaxUris : \E uris \in [1 .. n -> Uris] : Start(r, uris)
       \/ GroupPath(r)
       \/ GroupPathThrows(r)
       \/ RemoveGroup(r)
       \/ RemoveGroupThrows(r)
       \/ Return(r)
  \/ \E o \in Object : Create(o)

Spec == Init /\ [][Next]_vars

-----------------------------------------------------------------------------
(* What the caller relies on. *)

\* The objects the first n URIs of a request name, each to the operator of its
\* own URI.
Named(uris, n) == {Locate[uris[i]] : i \in 1 .. n}

\* Nothing goes but what a running request named: a path is only ever removed
\* by the operator of the bucket, and with the secret, of its own URI.
OnlyNamedRemoved ==
  [][\A o \in objects \ objects' :
       \E r \in Requests :
         /\ request[r].phase = "running"
         /\ o \in Named(request[r].uris, Len(request[r].uris))]_vars

\* A request with one URI that is not valid removes nothing, wherever in the
\* request it is: all of them are looked at before the first object goes.
ValidatedBeforeRemoval ==
  \A r \in Requests :
    request[r].deleted # {} =>
      \A i \in DOMAIN request[r].uris : Valid(request[r].uris[i])

\* A call that returns has removed every object it was given, through however
\* many operators.
ReturnedRemovesAll ==
  \A r \in Requests :
    request[r].phase = "returned" =>
      LET s == request[r] IN s.deleted = Named(s.uris, Len(s.uris))

SameOperator(uris, i, j) ==
  /\ Locate[uris[i]].scheme = Locate[uris[j]].scheme
  /\ Locate[uris[i]].config = Locate[uris[j]].config

\* Of the first n URIs: those of the operator of the i-th, and those that are the
\* first of their operator.
Members(uris, n, i) == {j \in 1 .. n : SameOperator(uris, j, i)}
Founders(uris, n) == {i \in 1 .. n : \A j \in 1 .. i - 1 : ~SameOperator(uris, j, i)}

\* i is the Rank(i, within)-th of the numbers within.
Rank(i, within) == Cardinality({k \in within : k <= i})

Partition(s) ==
  LET founders == Founders(s.uris, s.grouped) IN
  /\ Len(s.groups) = Cardinality(founders)
  /\ \A i \in founders :
       LET members == Members(s.uris, s.grouped, i)
           group == s.groups[Rank(i, founders)]
       IN
       /\ group.scheme = Locate[s.uris[i]].scheme
       /\ group.config = Locate[s.uris[i]].config
       /\ Len(group.paths) = Cardinality(members)
       /\ \A j \in members : group.paths[Rank(j, members)] = Locate[s.uris[j]].path

\* The groups are the classes of the paths grouped so far: one for each operator,
\* whose paths are those of its URIs in the order given, the first URI of a group
\* coming before that of the next.
GroupsPartitionPaths == \A r \in Requests : Partition(request[r])

\* A call that fails leaves a prefix: all groups before the failing one are gone,
\* and none after it was touched.
PrefixRemoved ==
  \A r \in Requests : \A i \in DOMAIN request[r].groups :
    LET group == ObjectsOf(request[r].groups[i]) IN
    /\ i <= request[r].removed => group \subseteq request[r].deleted
    /\ i > request[r].removed + 1 => group \cap request[r].deleted = {}
=============================================================================
