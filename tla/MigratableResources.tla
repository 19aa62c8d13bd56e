------------------------ MODULE MigratableResources -------------------------
(***************************************************************************)
(* How the initializer finds the resources to migrate                      *)
(* (pkg/initializer/discover.go): three calls to the API server, one after *)
(* the other, and a computation on their answers.                          *)
(*                                                                         *)
(* Groups come and go between the calls.  The discovery document is one    *)
(* list of resources per group version, in the order of GroupVersions; a   *)
(* list maps the names of its resources to their verbs.  Verbs other than  *)
(* list and update are left out.                                           *)
(*                                                                         *)
(* A definition X_Bug is X with a bug in it.  No behaviour uses it: it is  *)
(* there to show which property notices the bug.                           *)
(***************************************************************************)
EXTENDS Naturals, Sequences

CONSTANTS
  GroupVersions,     \* sequence of [group, version, valid], valid: ParseGroupVersion accepts it
  Builtin, Custom, Aggregated,  \* the groups of each kind
  Names,             \* names of resources
  Subresources,      \* those that contain a slash
  ResourceLists      \* the lists a group version may serve

blackListResources == {"events"}

ASSUME GroupVersionsAssumption ==
  GroupVersions \in
    Seq([group : Builtin \cup Custom \cup Aggregated, version : STRING, valid : BOOLEAN])
ASSUME KindsAssumption == Builtin \cap (Custom \cup Aggregated) = {}

VARIABLES
  crds,         \* the groups that have a CustomResourceDefinition
  apiservices,  \* the APIServices: [group, service], service: it is served by an aggregated server
  served,       \* the list of resources of each group version
  pc,           \* the next call: "crds", "apiservices", "discovery", or "done", "error"
  customGroups, aggregatedGroups,
  ret           \* the resources found: [gv, resource]

world == <<crds, apiservices, served>>
vars == <<world, pc, customGroups, aggregatedGroups, ret>>

Indices == DOMAIN GroupVersions
Local == {[group |-> g, service |-> FALSE] : g \in Builtin \cup Custom}
Remote == {[group |-> g, service |-> TRUE] : g \in Aggregated}

\* The types of the variables; no group of the API server itself is taken for a custom or
\* an aggregated one.
TypeOK ==
  /\ crds \in SUBSET Custom
  /\ apiservices \in SUBSET (Local \cup Remote)
  /\ served \in [Indices -> ResourceLists]
  /\ pc \in {"crds", "apiservices", "discovery", "done", "error"}
  /\ customGroups \in SUBSET Custom /\ aggregatedGroups \in SUBSET Aggregated
  /\ \A r \in ret : r.gv \in {GroupVersions[i] : i \in Indices} /\ r.resource \in Names

Init ==
  /\ crds \in SUBSET Custom
  /\ \E S \in SUBSET Remote : apiservices = {a \in Local : a.group \in Builtin \cup crds} \cup S
  /\ served \in [Indices -> ResourceLists]
  /\ pc = "crds"
  /\ customGroups = {} /\ aggregatedGroups = {} /\ ret = {}

Fail == pc' = "error" /\ UNCHANGED <<customGroups, aggregatedGroups, ret>>

findCustomGroups ==
  /\ pc = "crds"
  /\ \/ customGroups' = crds /\ pc' = "apiservices" /\ UNCHANGED <<aggregatedGroups, ret>>
     \/ Fail
  /\ UNCHANGED world

findAggregatedGroups_AnyService ==
  /\ pc = "apiservices"
  /\ \/ /\ aggregatedGroups' = {a.group : a \in apiservices}
        /\ pc' = "discovery" /\ UNCHANGED <<customGroups, ret>>
     \/ Fail
  /\ UNCHANGED world

\* Every group has an APIService; it belongs to an aggregated server if it names
\* a service.
findAggregatedGroups ==
  /\ pc = "apiservices"
  /\ \/ /\ aggregatedGroups' = {a.group : a \in {b \in apiservices : b.service}}
        /\ pc' = "discovery" /\ UNCHANGED <<customGroups, ret>>
     \/ Fail
  /\ UNCHANGED world

\* The group versions in the discovery document.
Served == {i \in Indices : GroupVersions[i].group \in {a.group : a \in apiservices}}

\* The group version i counts for the resource n.
Migratable(i, n) == n \in DOMAIN served[i] /\ {"list", "update"} \subseteq served[i][n]
Counts_VerbsIgnored(i, n) ==
  /\ GroupVersions[i].valid
  /\ GroupVersions[i].group \notin customGroups \cup aggregatedGroups
  /\ n \in DOMAIN served[i] /\ n \notin Subresources \cup blackListResources
Counts(i, n) ==
  /\ GroupVersions[i].valid
  /\ GroupVersions[i].group \notin customGroups \cup aggregatedGroups
  /\ n \notin Subresources \cup blackListResources
  /\ Migratable(i, n)

\* resourceToGroupVersions, as indices of GroupVersions, whose order is that of the
\* document; and groupVersions[0].
groupVersions(n) == {i \in Served : Counts(i, n)}
First(S) == CHOOSE i \in S : \A j \in S : i <= j

\* The resources with more than one group version, each in its first.
Found ==
  {[gv |-> GroupVersions[First(groupVersions(n))], resource |-> n] :
     n \in {k \in Names : \E i, j \in groupVersions(k) : i # j}}

FindMigratableResources ==
  /\ pc = "discovery"
  /\ \/ /\ ret' = Found
        /\ pc' = "done" /\ UNCHANGED <<customGroups, aggregatedGroups>>
     \/ Fail
  /\ UNCHANGED world

\* Between the calls a CustomResourceDefinition or an aggregated server is added to
\* the cluster or removed, and its APIService with it.
Busy == pc \in {"crds", "apiservices", "discovery"}
addGroup(g) ==
  /\ Busy
  /\ \/ /\ g \in Custom \ crds
        /\ crds' = crds \cup {g}
        /\ apiservices' = apiservices \cup {[group |-> g, service |-> FALSE]}
     \/ /\ g \in Aggregated
        /\ apiservices' = apiservices \cup {[group |-> g, service |-> TRUE]}
        /\ UNCHANGED crds
  /\ UNCHANGED <<served, pc, customGroups, aggregatedGroups, ret>>
removeGroup(g) ==
  /\ Busy
  /\ \/ /\ g \in crds
        /\ crds' = crds \ {g}
        /\ apiservices' = apiservices \ {[group |-> g, service |-> FALSE]}
     \/ /\ g \in Aggregated
        /\ apiservices' = apiservices \ {[group |-> g, service |-> TRUE]}
        /\ UNCHANGED crds
  /\ UNCHANGED <<served, pc, customGroups, aggregatedGroups, ret>>

Done == pc \in {"done", "error"} /\ UNCHANGED vars

Next ==
  \/ findCustomGroups \/ findAggregatedGroups \/ FindMigratableResources
  \/ (\E g \in Custom \cup Aggregated : addGroup(g) \/ removeGroup(g)) \/ Done

Spec == Init /\ [][Next]_vars

-----------------------------------------------------------------------------
BuiltinServes(i, n) ==
  GroupVersions[i].group \in Builtin /\ GroupVersions[i].valid /\ n \in DOMAIN served[i]
BuiltinVersions(n) == {i \in Indices : BuiltinServes(i, n)}

\* No group was added after the call that looked for groups of its kind.
GroupsKnown ==
  /\ crds \subseteq customGroups
  /\ {a.group : a \in {b \in apiservices : b.service}} \subseteq aggregatedGroups

\* A resource that the API server itself serves in two versions through which it
\* can be migrated is found, whatever happens between the calls.  Each is found
\* once.  As long as no group is added meanwhile, what is found is served by the API
\* server itself in two versions, and can be migrated through the one it is found in.
FindsMigratable ==
  pc = "done" =>
    /\ \A n \in Names \ (Subresources \cup blackListResources) :
         (\E i, j \in BuiltinVersions(n) : i # j /\ Migratable(i, n) /\ Migratable(j, n)) =>
           \E r \in ret : r.resource = n
    /\ \A r, s \in ret : s.resource = r.resource => s = r
    /\ GroupsKnown =>
         \A r \in ret :
           /\ r.resource \notin Subresources \cup blackListResources
           /\ \E i, j \in BuiltinVersions(r.resource) :
                i # j /\ GroupVersions[i] = r.gv /\ Migratable(i, r.resource)
=============================================================================
