---------------------- MODULE MigratableResourcesProofs ----------------------
(***************************************************************************)
(* Proofs about MigratableResources, for any discovery document, any groups*)
(* and any resources.                                                      *)
(***************************************************************************)
EXTENDS MigratableResources, WellFoundedInduction, TLAPS

\* Every group of the API server itself has an APIService, and so has every group
\* with a CustomResourceDefinition; no other is served locally.
LocalServices ==
  /\ \A g \in Builtin : [group |-> g, service |-> FALSE] \in apiservices
  /\ \A a \in apiservices : ~a.service => a.group \in Builtin \cup crds

\* The answer is about the world as it still is: nobody adds a group afterwards.
AnswerCurrent == pc = "done" => ret = Found

IInv == TypeOK /\ LocalServices /\ AnswerCurrent

-----------------------------------------------------------------------------
(***************************************************************************)
(* The computation on the answers.                                         *)
(***************************************************************************)
\* A nonempty set of indices has a first member.
LEMMA FirstMember ==
  ASSUME NEW S, S \subseteq Nat, S # {}
  PROVE  First(S) \in S
<1>1. PICK i \in S : \A j \in S : <<j, i>> \notin OpToRel(<, Nat)
  BY WFMin, NatLessThanWellFounded, Zenon
<1>2. \A j \in S : ~(j < i)
  BY <1>1, Zenon DEF OpToRel
<1>3. \A j \in S : i <= j
  BY <1>2
<1> QED
  BY <1>3, Zenon DEF First

\* The positions in the document, and the groups they stand for.
LEMMA Document ==
  /\ Indices \subseteq Nat
  /\ \A i \in Indices : GroupVersions[i].group \in Builtin \cup Custom \cup Aggregated
<1> DEFINE T == [group : Builtin \cup Custom \cup Aggregated, version : STRING, valid : BOOLEAN]
<1>1. \A t \in T : t.group \in Builtin \cup Custom \cup Aggregated
  OBVIOUS
<1>2. GroupVersions \in Seq(T)
  BY GroupVersionsAssumption
<1> HIDE DEF T
<1>3. Indices = 1..Len(GroupVersions) /\ Len(GroupVersions) \in Nat
  BY <1>2 DEF Indices
<1>4. \A i \in Indices : GroupVersions[i] \in T
  BY <1>2, <1>3
<1> QED
  BY <1>1, <1>3, <1>4

\* What is found: every resource once, in the first of several group versions.
LEMMA FoundMembers ==
  /\ \A r \in Found :
       /\ r.resource \in Names
       /\ \E i, j \in groupVersions(r.resource) : i # j /\ r.gv = GroupVersions[i]
  /\ \A r, s \in Found : s.resource = r.resource => s = r
  /\ \A n \in Names : (\E i, j \in groupVersions(n) : i # j) => \E r \in Found : r.resource = n
<1>1. ASSUME NEW n \in Names, \E i, j \in groupVersions(n) : i # j
      PROVE  /\ First(groupVersions(n)) \in groupVersions(n)
             /\ \E j \in groupVersions(n) : First(groupVersions(n)) # j
  <2>1. groupVersions(n) \subseteq Nat /\ groupVersions(n) # {}
    BY <1>1, Document DEF groupVersions, Served
  <2>2. First(groupVersions(n)) \in groupVersions(n)
    BY <2>1, FirstMember
  <2> QED
    BY <1>1, <2>2
<1>2. ASSUME NEW r \in Found
      PROVE  /\ r.resource \in Names
             /\ r = [gv |-> GroupVersions[First(groupVersions(r.resource))], resource |-> r.resource]
             /\ \E i, j \in groupVersions(r.resource) : i # j /\ r.gv = GroupVersions[i]
  <2>1. PICK n \in Names :
          /\ \E i, j \in groupVersions(n) : i # j
          /\ r = [gv |-> GroupVersions[First(groupVersions(n))], resource |-> n]
    BY DEF Found
  <2>2. r.resource = n /\ r.gv = GroupVersions[First(groupVersions(n))]
    BY <2>1
  <2> QED
    BY <1>1, <2>1, <2>2
<1>3. ASSUME NEW n \in Names, \E i, j \in groupVersions(n) : i # j
      PROVE  \E r \in Found : r.resource = n
  <2>1. [gv |-> GroupVersions[First(groupVersions(n))], resource |-> n] \in Found
    BY <1>3 DEF Found
  <2> QED
    BY <2>1
<1>4. ASSUME NEW r \in Found, NEW s \in Found, s.resource = r.resource PROVE s = r
  BY <1>2, <1>4
<1> QED
  BY <1>2, <1>3, <1>4

\* A group version that counts although all custom and aggregated groups are known is
\* one of the API server itself; and such a one always counts if it has the verbs.
LEMMA CountsBuiltin ==
  ASSUME IInv, NEW i \in Indices, NEW n \in Names
  PROVE  /\ GroupsKnown /\ i \in groupVersions(n) =>
              /\ n \notin Subresources \cup blackListResources
              /\ i \in BuiltinVersions(n) /\ Migratable(i, n)
         /\ /\ n \notin Subresources \cup blackListResources
            /\ i \in BuiltinVersions(n) /\ Migratable(i, n)
            => i \in groupVersions(n)
<1> DEFINE g == GroupVersions[i].group
<1>1. ASSUME GroupsKnown, i \in groupVersions(n)
      PROVE  /\ n \notin Subresources \cup blackListResources
             /\ i \in BuiltinVersions(n) /\ Migratable(i, n)
  <2>1. i \in Served /\ Counts(i, n)
    BY <1>1 DEF groupVersions
  <2>2. PICK a \in apiservices : a.group = g
    BY <2>1 DEF Served
  <2>3. ~a.service
    BY <1>1, <2>1, <2>2 DEF GroupsKnown, Counts
  <2>4. g \in Builtin
    BY <1>1, <2>1, <2>2, <2>3 DEF IInv, LocalServices, GroupsKnown, Counts
  <2> QED
    BY <2>1, <2>4 DEF Counts, BuiltinVersions, BuiltinServes, Migratable
<1>2. ASSUME n \notin Subresources \cup blackListResources, i \in BuiltinVersions(n),
             Migratable(i, n)
      PROVE  i \in groupVersions(n)
  <2>1. g \in Builtin /\ GroupVersions[i].valid /\ Migratable(i, n)
    BY <1>2 DEF BuiltinVersions, BuiltinServes
  <2>2. g \notin customGroups \cup aggregatedGroups
    BY <2>1, KindsAssumption DEF IInv, TypeOK
  <2>3. i \in Served
    <3>1. [group |-> g, service |-> FALSE] \in apiservices
      BY <2>1 DEF IInv, LocalServices
    <3>2. g \in {a.group : a \in apiservices}
      BY <3>1
    <3> QED
      BY <3>2 DEF Served
  <2> QED
    BY <1>2, <2>1, <2>2, <2>3 DEF groupVersions, Counts
<1> QED
  BY <1>1, <1>2

-----------------------------------------------------------------------------
(***************************************************************************)
(* The invariant.                                                          *)
(***************************************************************************)
\* IInv holds initially ...
LEMMA InitInv == Init => IInv
<1> SUFFICES ASSUME Init PROVE IInv
  OBVIOUS
<1>1. TypeOK
  BY DEF Init, TypeOK, Local, Remote
<1>2. PICK S \in SUBSET Remote : apiservices = {a \in Local : a.group \in Builtin \cup crds} \cup S
  BY DEF Init
<1>3. LocalServices
  <2>1. \A g \in Builtin : [group |-> g, service |-> FALSE] \in {a \in Local : a.group \in Builtin \cup crds}
    BY DEF Local
  <2>2. \A a \in S : a.service
    BY DEF Remote
  <2> QED
    BY <1>2, <2>1, <2>2 DEF LocalServices
<1> QED
  BY <1>1, <1>3 DEF Init, IInv, AnswerCurrent

\* ... and every step keeps it.
LEMMA NextInv == IInv /\ [Next]_vars => IInv'
<1> SUFFICES ASSUME IInv, [Next]_vars PROVE IInv'
  OBVIOUS
<1>0. TypeOK /\ LocalServices /\ AnswerCurrent
  BY DEF IInv
<1>1. CASE findCustomGroups
  BY <1>0, <1>1 DEF findCustomGroups, Fail, world, IInv, TypeOK, LocalServices, AnswerCurrent
<1>2. CASE findAggregatedGroups
  <2>1. {a.group : a \in {b \in apiservices : b.service}} \subseteq Aggregated
    BY <1>0 DEF TypeOK, Local, Remote
  <2> QED
    BY <1>0, <1>2, <2>1 DEF findAggregatedGroups, Fail, world, IInv, TypeOK, LocalServices, AnswerCurrent
<1>3. CASE FindMigratableResources
  <2>1. \A r \in Found : r.gv \in {GroupVersions[i] : i \in Indices} /\ r.resource \in Names
    BY FoundMembers DEF groupVersions, Served
  <2>2. UNCHANGED <<world, customGroups, aggregatedGroups>>
    BY <1>3 DEF FindMigratableResources, Fail
  <2>3. Found' = Found
    BY <2>2 DEF Found, First, groupVersions, Served, Counts, Migratable, world
  <2>4. (pc' = "done" /\ ret' = Found) \/ (pc' = "error" /\ ret' = ret)
    BY <1>3 DEF FindMigratableResources, Fail
  <2>5. TypeOK'
    BY <1>0, <2>1, <2>2, <2>4 DEF world, TypeOK
  <2> QED
    BY <1>0, <2>2, <2>3, <2>4, <2>5 DEF world, IInv, LocalServices, AnswerCurrent
<1>4. ASSUME NEW g \in Custom \cup Aggregated, addGroup(g) PROVE IInv'
  <2>1. apiservices \subseteq apiservices' /\ crds \subseteq crds' /\ crds' \in SUBSET Custom
    BY <1>0, <1>4 DEF addGroup, TypeOK
  <2>2. \A a \in apiservices' : a \in apiservices \/ a = [group |-> g, service |-> TRUE]
                                \/ (a = [group |-> g, service |-> FALSE] /\ g \in crds')
    BY <1>4 DEF addGroup
  <2>3. apiservices' \in SUBSET (Local \cup Remote)
    BY <1>0, <1>4 DEF addGroup, TypeOK, Local, Remote
  <2>4. LocalServices'
    BY <1>0, <2>1, <2>2 DEF LocalServices
  <2> QED
    BY <1>0, <1>4, <2>1, <2>3, <2>4 DEF addGroup, Busy, IInv, TypeOK, AnswerCurrent
<1>5. ASSUME NEW g \in Custom \cup Aggregated, removeGroup(g) PROVE IInv'
  <2>1. apiservices' \subseteq apiservices /\ crds' \in SUBSET Custom
    BY <1>0, <1>5 DEF removeGroup, TypeOK
  <2>2. \A h \in Builtin : [group |-> h, service |-> FALSE] \in apiservices'
    <3>1. \A h \in Builtin : [group |-> h, service |-> FALSE] \in apiservices /\ h \notin crds
      BY <1>0, KindsAssumption DEF LocalServices, TypeOK
    <3>2. \A h \in Builtin : [group |-> h, service |-> FALSE] # [group |-> g, service |-> TRUE]
      OBVIOUS
    <3>3. g \in crds => \A h \in Builtin : [group |-> h, service |-> FALSE] # [group |-> g, service |-> FALSE]
      BY <3>1
    <3> QED
      BY <1>5, <3>1, <3>2, <3>3 DEF removeGroup
  <2>3. \A a \in apiservices' : ~a.service => a.group \in Builtin \cup crds'
    <3>1. CASE crds' = crds
      BY <1>0, <2>1, <3>1 DEF LocalServices
    <3>2. CASE crds' = crds \ {g} /\ apiservices' = apiservices \ {[group |-> g, service |-> FALSE]}
      <4>1. \A a \in apiservices : ~a.service /\ a.group = g => a = [group |-> g, service |-> FALSE]
        BY <1>0 DEF TypeOK, Local, Remote
      <4> QED
        BY <1>0, <3>2, <4>1 DEF LocalServices
    <3> QED
      BY <1>5, <3>1, <3>2 DEF removeGroup
  <2>4. LocalServices'
    BY <2>2, <2>3 DEF LocalServices
  <2> QED
    BY <1>0, <1>5, <2>1, <2>4 DEF removeGroup, Busy, IInv, TypeOK, AnswerCurrent
<1>6. CASE UNCHANGED vars
  <2>1. Found' = Found
    BY <1>6 DEF vars, world, Found, First, groupVersions, Served, Counts, Migratable
  <2> QED
    BY <1>0, <1>6, <2>1 DEF vars, world, IInv, TypeOK, LocalServices, AnswerCurrent
<1> QED
  BY <1>1, <1>2, <1>3, <1>4, <1>5, <1>6 DEF Next, Done

-----------------------------------------------------------------------------
(***************************************************************************)
(* The theorems.                                                           *)
(***************************************************************************)
\* No group of the API server itself is ever taken for a custom or an aggregated one,
\* and what is found are resources in group versions of the document.
THEOREM TypeCorrect == Spec => []TypeOK
<1>1. IInv => TypeOK
  BY DEF IInv
<1> QED
  BY <1>1, InitInv, NextInv, PTL DEF Spec

\* For any discovery document and whatever groups come and go: no resource that the API
\* server serves in two migratable versions is missed, none is found twice, and unless a
\* group was added during the calls, none is found that the API server does not serve in
\* two versions or that cannot be migrated through the version it is found in.
THEOREM MigratableAreFound == Spec => []FindsMigratable
<1>1. IInv => FindsMigratable
  <2> SUFFICES ASSUME IInv, pc = "done"
               PROVE  /\ \A n \in Names \ (Subresources \cup blackListResources) :
                           (\E i, j \in BuiltinVersions(n) :
                              i # j /\ Migratable(i, n) /\ Migratable(j, n)) =>
                             \E r \in ret : r.resource = n
                      /\ \A r, s \in ret : s.resource = r.resource => s = r
                      /\ GroupsKnown =>
                           \A r \in ret :
                             /\ r.resource \notin Subresources \cup blackListResources
                             /\ \E i, j \in BuiltinVersions(r.resource) :
                                  i # j /\ GroupVersions[i] = r.gv /\ Migratable(i, r.resource)
    BY DEF FindsMigratable
  <2>1. /\ ret = Found
        /\ \A n \in Names : groupVersions(n) \subseteq Indices /\ BuiltinVersions(n) \subseteq Indices
    BY DEF IInv, AnswerCurrent, groupVersions, Served, BuiltinVersions
  <2>2. ASSUME NEW n \in Names \ (Subresources \cup blackListResources),
               \E i, j \in BuiltinVersions(n) : i # j /\ Migratable(i, n) /\ Migratable(j, n)
        PROVE  \E r \in ret : r.resource = n
    <3>1. \E i, j \in groupVersions(n) : i # j
      BY <2>1, <2>2, CountsBuiltin
    <3> QED
      BY <2>1, <3>1, FoundMembers
  <2>3. \A r, s \in ret : s.resource = r.resource => s = r
    BY <2>1, FoundMembers
  <2>4. ASSUME GroupsKnown, NEW r \in ret
        PROVE  /\ r.resource \notin Subresources \cup blackListResources
               /\ \E i, j \in BuiltinVersions(r.resource) :
                    i # j /\ GroupVersions[i] = r.gv /\ Migratable(i, r.resource)
    <3>1. r.resource \in Names
      BY <2>1, FoundMembers
    <3>2. PICK i, j \in groupVersions(r.resource) : i # j /\ r.gv = GroupVersions[i]
      BY <2>1, FoundMembers
    <3> QED
      BY <2>1, <2>4, <3>1, <3>2, CountsBuiltin
  <2> QED
    BY <2>2, <2>3, <2>4
<1> QED
  BY <1>1, InitInv, NextInv, PTL DEF Spec
=============================================================================
