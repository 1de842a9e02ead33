--------------------------- MODULE CatalogProofs ---------------------------
(***************************************************************************)
(* Proofs about the catalogue for any directory, any IDs and any number of *)
(* requests.                                                               *)
(***************************************************************************)
EXTENDS Catalog, TLAPS

-----------------------------------------------------------------------------
(***************************************************************************)
(* Type correctness.                                                       *)
(***************************************************************************)
LEMMA FilesFact ==
  ASSUME TypeOK
  PROVE  /\ Len(dir) \in Nat /\ DOMAIN dir = 1..Len(dir) /\ next \in Nat /\ next >= 1
         /\ \A i \in DOMAIN dir : dir[i].kind \in FileKinds /\ dir[i].service.id \in Ids
  BY CatalogAssumption DEF TypeOK

LEMMA ParseFileType ==
  ASSUME TypeOK, ParseFile
  PROVE  TypeOK'
<1>1. /\ dir' = dir /\ next' \in 1..(Len(dir) + 1) /\ next \in DOMAIN dir
  BY FilesFact DEF TypeOK, ParseFile
<1>2. dir[next].service \in Defined /\ dir[next].service.id \in Ids
  BY <1>1, FilesFact DEF Defined
<1>3. services' \in [Ids -> Defined \cup {None}]
  BY <1>2 DEF TypeOK, ParseFile
<1>4. outcome' \in {"walking", "failed", "serving"}
  BY DEF TypeOK, ParseFile
<1> QED
  BY <1>1, <1>3, <1>4 DEF TypeOK, ParseFile, Defined

\* What is found is defined by a file.
LEMMA KnownDefined ==
  ASSUME TypeOK
  PROVE  Known \subseteq Defined
  BY DEF TypeOK, Known

LEMMA PlansFoundDefined ==
  ASSUME TypeOK, NEW sid, NEW pid, NEW p \in PlansFound(sid, pid)
  PROVE  p \in UNION {{s.plans[i] : i \in DOMAIN s.plans} : s \in Defined}
<1>1. PICK s \in Known : \E i \in DOMAIN s.plans : p = s.plans[i]
  BY DEF PlansFound
<1> QED
  BY <1>1, KnownDefined

LEMMA RequestType ==
  ASSUME TypeOK, NEW r \in Requests, Receive(r) \/ GetService(r) \/ GetServicePlan(r)
  PROVE  TypeOK'
<1>1. pc' \in [Requests -> {"idle", "service", "plan", "done"}]
  BY DEF TypeOK, Receive, GetService, GetServicePlan
<1>2. dir' = dir /\ next' = next /\ services' = services /\ outcome' = outcome
  BY DEF Receive, GetService, GetServicePlan
<1>3. asked' \in [Requests -> {Nothing} \cup [service : Ids, plan : Ids]]
  BY DEF TypeOK, Receive, GetService, GetServicePlan
<1>4. service' \in [Requests -> Defined \cup {None}]
  BY KnownDefined DEF TypeOK, Receive, GetService, GetServicePlan
<1>5. plan' \in [Requests -> {None} \cup UNION {{s.plans[i] : i \in DOMAIN s.plans} : s \in Defined}]
  <2>1. CASE plan' = plan
    BY <2>1 DEF TypeOK
  <2>2. CASE \E p \in PlansFound(asked[r].service, asked[r].plan) : plan' = [plan EXCEPT ![r] = p]
    BY <2>2, PlansFoundDefined DEF TypeOK
  <2> QED
    BY <2>1, <2>2 DEF Receive, GetService, GetServicePlan
<1> QED
  BY <1>1, <1>2, <1>3, <1>4, <1>5 DEF TypeOK, Defined

LEMMA TypeInit == Init => TypeOK
<1> SUFFICES ASSUME Init PROVE TypeOK
  OBVIOUS
<1>1. Len(dir) \in Nat
  BY CatalogAssumption DEF Init
<1> QED
  BY <1>1 DEF Init, TypeOK

LEMMA TypeNext == TypeOK /\ [Next]_vars => TypeOK'
<1> SUFFICES ASSUME TypeOK, [Next]_vars PROVE TypeOK'
  OBVIOUS
<1>1. CASE ParseFile
  BY <1>1, ParseFileType
<1>2. CASE ParsedDir
  BY <1>2 DEF ParsedDir, TypeOK, Defined
<1>3. ASSUME NEW r \in Requests, Receive(r) \/ GetService(r) \/ GetServicePlan(r)
      PROVE  TypeOK'
  BY <1>3, RequestType
<1>4. CASE Finished \/ UNCHANGED vars
  BY <1>4 DEF Finished, vars, TypeOK, Defined
<1> QED
  BY <1>1, <1>2, <1>3, <1>4 DEF Next

\* The catalogue, the walk over its files and the lookups of each request are
\* well typed, whatever the directory holds (ParseDir, GetService,
\* GetServicePlan).
THEOREM CatalogTypes == Spec => []TypeOK
  BY TypeInit, TypeNext, PTL DEF Spec

-----------------------------------------------------------------------------
(***************************************************************************)
(* The directory is taken whole.  The walk is followed file by file: of    *)
(* those read so far each service is in the map, but for one whose ID was  *)
(* taken since.                                                            *)
(***************************************************************************)
ReadSoFar ==
  outcome # "failed" =>
    /\ outcome = "serving" => next > Len(dir)
    /\ \A i \in DOMAIN dir : i < next => dir[i].kind \notin {"unread", "broken"}
    /\ \A i \in Yaml : i < next =>
         \/ services[dir[i].service.id] = dir[i].service
         \/ \E j \in Yaml : i < j /\ j < next /\ dir[j].service.id = dir[i].service.id

LEMMA ReadInit == Init /\ TypeOK => ReadSoFar
  BY FilesFact DEF Init, ReadSoFar, Yaml

LEMMA ReadParseFile ==
  ASSUME TypeOK, ReadSoFar, ParseFile
  PROVE  ReadSoFar'
<1> SUFFICES ASSUME outcome' # "failed" PROVE ReadSoFar'
  BY DEF ReadSoFar
<1>1. /\ next \in DOMAIN dir /\ next \in Nat /\ next' = next + 1 /\ dir' = dir
      /\ outcome = "walking" /\ outcome' = "walking" /\ Yaml' = Yaml
      /\ DOMAIN dir = 1..Len(dir) /\ Len(dir) \in Nat
  BY FilesFact DEF ParseFile, Yaml
<1>2. dir[next].kind \notin {"unread", "broken"}
  BY <1>1 DEF ParseFile
<1>3. ASSUME NEW i \in DOMAIN dir, i < next + 1
      PROVE  dir[i].kind \notin {"unread", "broken"}
  BY <1>1, <1>2, <1>3 DEF ReadSoFar
<1>4. ASSUME NEW i \in Yaml, i < next + 1
      PROVE  \/ services'[dir[i].service.id] = dir[i].service
             \/ \E j \in Yaml : i < j /\ j < next + 1 /\ dir[j].service.id = dir[i].service.id
  <2>0. i \in 1..Len(dir) /\ dir[i].kind = "yaml" /\ dir[i].service.id \in Ids
    BY <1>1, FilesFact DEF Yaml
  <2>1. CASE i = next
    BY <2>0, <2>1 DEF ParseFile, TypeOK
  <2>2. CASE i < next /\ dir[next].kind # "yaml"
    <3>1. services' = services
      BY <2>2 DEF ParseFile
    <3>2. CASE services[dir[i].service.id] = dir[i].service
      BY <3>1, <3>2
    <3>3. CASE \E j \in Yaml : i < j /\ j < next /\ dir[j].service.id = dir[i].service.id
      <4>1. PICK j \in Yaml : i < j /\ j < next /\ dir[j].service.id = dir[i].service.id
        BY <3>3
      <4>2. j < next + 1
        BY <4>1, <1>1 DEF Yaml
      <4> QED
        BY <4>1, <4>2
    <3> QED
      BY <2>2, <3>2, <3>3, <1>1 DEF ReadSoFar
  <2>3. CASE i < next /\ dir[next].kind = "yaml"
    <3>1. services' = [services EXCEPT ![dir[next].service.id] = dir[next].service]
      BY <2>3 DEF ParseFile
    <3>2. next \in Yaml /\ next < next + 1
      BY <1>1, <2>3 DEF Yaml
    <3>3. CASE dir[next].service.id = dir[i].service.id
      BY <3>2, <3>3, <2>3
    <3>4. CASE dir[next].service.id # dir[i].service.id
      <4>1. services'[dir[i].service.id] = services[dir[i].service.id]
        BY <3>1, <3>4, <2>0 DEF TypeOK
      <4>2. CASE services[dir[i].service.id] = dir[i].service
        BY <4>1, <4>2
      <4>3. CASE \E j \in Yaml : i < j /\ j < next /\ dir[j].service.id = dir[i].service.id
        <5>1. PICK j \in Yaml : i < j /\ j < next /\ dir[j].service.id = dir[i].service.id
          BY <4>3
        <5>2. j < next + 1
          BY <5>1, <1>1 DEF Yaml
        <5> QED
          BY <5>1, <5>2
      <4> QED
        BY <2>3, <4>2, <4>3, <1>1 DEF ReadSoFar
    <3> QED
      BY <3>3, <3>4
  <2> QED
    BY <2>0, <2>1, <2>2, <2>3, <1>1, <1>4
<1> QED
  BY <1>1, <1>3, <1>4 DEF ReadSoFar

LEMMA ReadNext == TypeOK /\ ReadSoFar /\ [Next]_vars => ReadSoFar'
<1> SUFFICES ASSUME TypeOK, ReadSoFar, [Next]_vars PROVE ReadSoFar'
  OBVIOUS
<1>1. CASE ParseFile
  BY <1>1, ReadParseFile
<1>2. CASE ParsedDir
  BY <1>2 DEF ParsedDir, ReadSoFar, Yaml
<1>3. ASSUME NEW r \in Requests, Receive(r) \/ GetService(r) \/ GetServicePlan(r)
      PROVE  ReadSoFar'
  BY <1>3 DEF Receive, GetService, GetServicePlan, ReadSoFar, Yaml
<1>4. CASE Finished \/ UNCHANGED vars
  BY <1>4 DEF Finished, vars, ReadSoFar, Yaml
<1> QED
  BY <1>1, <1>2, <1>3, <1>4 DEF Next

LEMMA ReadWhole ==
  ASSUME TypeOK, ReadSoFar
  PROVE  WholeDirectory
<1> SUFFICES ASSUME outcome = "serving" PROVE WholeDirectory
  BY DEF WholeDirectory
<1>1. \A i \in DOMAIN dir : i \in Nat /\ i < next
  BY FilesFact DEF ReadSoFar
<1> QED
  BY <1>1 DEF ReadSoFar, WholeDirectory, Yaml

\* A broker that serves has taken the whole directory: the service of every
\* file, but for one whose ID a later file takes, and of no directory with a
\* file that cannot be read or parsed (ParseDir).
THEOREM DirectoryWhole == Spec => []WholeDirectory
<1>1. Init => TypeOK /\ ReadSoFar
  BY TypeInit, ReadInit
<1>2. TypeOK /\ ReadSoFar /\ [Next]_vars => (TypeOK /\ ReadSoFar)'
  BY TypeNext, ReadNext
<1>3. TypeOK /\ ReadSoFar => WholeDirectory
  BY ReadWhole
<1> QED
  BY <1>1, <1>2, <1>3, PTL DEF Spec

-----------------------------------------------------------------------------
(***************************************************************************)
(* The two lookups agree.  The catalogue no longer changes when requests   *)
(* come, so what the first lookup found is still there at the second.      *)
(***************************************************************************)
AskedInService ==
  \A r \in Requests : pc[r] # "idle" =>
    outcome = "serving" /\ asked[r] \in [service : Ids, plan : Ids]

Good(r) == OwnIds /\ Published(asked[r].service, asked[r].plan)

ServiceFound(r) == service[r] \in Known /\ Matches(service[r].id, asked[r].service)

PlanFound(r) ==
  \E i \in DOMAIN service[r].plans : /\ plan[r] = service[r].plans[i]
                                     /\ Matches(plan[r].id, asked[r].plan)

FoundAsAsked ==
  \A r \in Requests : Good(r) =>
    /\ pc[r] \in {"plan", "done"} => ServiceFound(r)
    /\ pc[r] = "done" => PlanFound(r)

\* A published service is known, and has the plan it is published with.
LEMMA PublishedKnown ==
  ASSUME NEW sid, NEW pid, Published(sid, pid)
  PROVE  \E s \in Known : /\ Matches(s.id, sid)
                          /\ \E i \in DOMAIN s.plans : Matches(s.plans[i].id, pid)
<1>1. PICK offer \in Services : Matches(offer[1], sid) /\ Matches(offer[2], pid)
  BY DEF Published
<1>2. PICK s \in Known : offer \in {<<s.id, s.plans[i].id>> : i \in DOMAIN s.plans}
  BY <1>1 DEF Services
<1>3. PICK i \in DOMAIN s.plans : offer = <<s.id, s.plans[i].id>>
  BY <1>2
<1> QED
  BY <1>1, <1>2, <1>3

\* With IDs of its own a published plan is found, and only in the service that
\* matches: nothing before it has its ID, and no other service is looked at.
LEMMA PlansFoundOwn ==
  ASSUME TypeOK, OwnIds, NEW sid, NEW pid, Published(sid, pid),
         NEW s \in Known, Matches(s.id, sid)
  PROVE  /\ PlansFound(sid, pid) # {}
         /\ \A p \in PlansFound(sid, pid) :
              \E i \in DOMAIN s.plans : p = s.plans[i] /\ Matches(p.id, pid)
<1>1. \A t \in Known : Matches(t.id, sid) => t = s
  BY DEF OwnIds, Matches
<1>2. PICK i \in DOMAIN s.plans : Matches(s.plans[i].id, pid)
  BY <1>1, PublishedKnown
<1>3. Len(s.plans) \in Nat /\ DOMAIN s.plans = 1..Len(s.plans)
  BY KnownDefined, CatalogAssumption DEF Defined, TypeOK
<1>4. ASSUME NEW k \in 1..(i - 1)
      PROVE  ~Matches(s.plans[k].id, pid)
  <2>1. k \in DOMAIN s.plans /\ k # i
    BY <1>3, <1>4
  <2> QED
    BY <2>1, <1>2 DEF OwnIds, Matches
<1>5. s.plans[i] \in PlansFound(sid, pid)
  BY <1>2, <1>4 DEF PlansFound
<1>6. ASSUME NEW p \in PlansFound(sid, pid)
      PROVE  \E j \in DOMAIN s.plans : p = s.plans[j] /\ Matches(p.id, pid)
  <2>1. PICK t \in Known : Matches(t.id, sid)
          /\ \E j \in DOMAIN t.plans : p = t.plans[j] /\ Matches(t.plans[j].id, pid)
    BY DEF PlansFound
  <2> QED
    BY <2>1, <1>1
<1> QED
  BY <1>5, <1>6

LEMMA FoundInit == Init => AskedInService /\ FoundAsAsked
  BY DEF Init, AskedInService, FoundAsAsked

\* While the directory is read no request is there.
LEMMA FoundReading ==
  ASSUME AskedInService, FoundAsAsked, ParseFile \/ ParsedDir
  PROVE  AskedInService' /\ FoundAsAsked'
<1>1. outcome # "serving" /\ pc' = pc
  BY DEF ParseFile, ParsedDir
<1>2. \A r \in Requests : pc[r] = "idle"
  BY <1>1 DEF AskedInService
<1> QED
  BY <1>1, <1>2 DEF AskedInService, FoundAsAsked

LEMMA FoundRequest ==
  ASSUME TypeOK, AskedInService, FoundAsAsked,
         NEW r \in Requests, Receive(r) \/ GetService(r) \/ GetServicePlan(r)
  PROVE  AskedInService' /\ FoundAsAsked'
<1>1. /\ Known' = Known /\ outcome' = outcome /\ OwnIds' = OwnIds
      /\ \A sid, pid : Published(sid, pid)' = Published(sid, pid)
  BY DEF Receive, GetService, GetServicePlan, Known, OwnIds, Published, Services, Matches
<1>2. \A q \in Requests \ {r} : /\ pc'[q] = pc[q] /\ asked'[q] = asked[q]
                                /\ service'[q] = service[q] /\ plan'[q] = plan[q]
  BY DEF TypeOK, Receive, GetService, GetServicePlan
<1>3. AskedInService'
  BY <1>1 DEF TypeOK, AskedInService, Receive, GetService, GetServicePlan
<1>4. ASSUME NEW q \in Requests \ {r}, Good(q)'
      PROVE  /\ pc'[q] \in {"plan", "done"} => ServiceFound(q)'
             /\ pc'[q] = "done" => PlanFound(q)'
  BY <1>1, <1>2, <1>4 DEF FoundAsAsked, Good, ServiceFound, PlanFound, Matches
<1>5. ASSUME Good(r)'
      PROVE  /\ pc'[r] \in {"plan", "done"} => ServiceFound(r)'
             /\ pc'[r] = "done" => PlanFound(r)'
  <2>1. CASE Receive(r)
    BY <2>1 DEF Receive, TypeOK
  <2>2. CASE GetService(r)
    <3>1. pc'[r] = "plan" /\ asked' = asked
      BY <2>2 DEF GetService, TypeOK
    <3>2. \E s \in Known : Matches(s.id, asked[r].service)
      BY <1>1, <1>5, <3>1, PublishedKnown DEF Good
    <3>3. ServiceFound(r)'
      BY <1>1, <2>2, <3>1, <3>2 DEF GetService, TypeOK, ServiceFound, Matches
    <3> QED
      BY <3>1, <3>3
  <2>3. CASE GetServicePlan(r)
    <3>1. pc[r] = "plan" /\ asked' = asked /\ service' = service
      BY <2>3 DEF GetServicePlan
    <3>2. Good(r)
      BY <1>1, <1>5, <3>1 DEF Good
    <3>3. ServiceFound(r)
      BY <3>1, <3>2 DEF FoundAsAsked
    <3>4. /\ PlansFound(asked[r].service, asked[r].plan) # {}
          /\ \A p \in PlansFound(asked[r].service, asked[r].plan) :
               \E i \in DOMAIN service[r].plans :
                 p = service[r].plans[i] /\ Matches(p.id, asked[r].plan)
      BY <3>2, <3>3, PlansFoundOwn DEF Good, ServiceFound
    <3>5. PICK p \in PlansFound(asked[r].service, asked[r].plan) : plan' = [plan EXCEPT ![r] = p]
      BY <2>3, <3>4 DEF GetServicePlan
    <3>6. plan'[r] = p
      BY <3>5 DEF TypeOK
    <3>7. PlanFound(r)'
      BY <3>1, <3>4, <3>5, <3>6 DEF PlanFound, Matches
    <3>8. ServiceFound(r)'
      BY <1>1, <3>1, <3>3 DEF ServiceFound, Matches
    <3> QED
      BY <3>7, <3>8
  <2> QED
    BY <2>1, <2>2, <2>3
<1>6. FoundAsAsked'
  BY <1>4, <1>5 DEF FoundAsAsked
<1> QED
  BY <1>3, <1>6

LEMMA FoundNext ==
  TypeOK /\ AskedInService /\ FoundAsAsked /\ [Next]_vars => AskedInService' /\ FoundAsAsked'
<1> SUFFICES ASSUME TypeOK, AskedInService, FoundAsAsked, [Next]_vars
             PROVE  AskedInService' /\ FoundAsAsked'
  OBVIOUS
<1>1. CASE ParseFile \/ ParsedDir
  BY <1>1, FoundReading
<1>2. ASSUME NEW r \in Requests, Receive(r) \/ GetService(r) \/ GetServicePlan(r)
      PROVE  AskedInService' /\ FoundAsAsked'
  BY <1>2, FoundRequest
<1>3. CASE Finished \/ UNCHANGED vars
  BY <1>3 DEF Finished, vars, AskedInService, FoundAsAsked, Good, ServiceFound, PlanFound,
              OwnIds, Published, Services, Known, Matches
<1> QED
  BY <1>1, <1>2, <1>3 DEF Next

LEMMA FoundTogether ==
  ASSUME FoundAsAsked
  PROVE  LookedUpTogether
<1> SUFFICES ASSUME NEW r \in Requests, pc[r] = "done", Good(r)
             PROVE  /\ service[r] # None /\ Matches(service[r].id, asked[r].service)
                    /\ PlanFound(r)
  BY DEF LookedUpTogether, Good, PlanFound
<1>1. ServiceFound(r) /\ PlanFound(r)
  BY DEF FoundAsAsked
<1> QED
  BY <1>1 DEF ServiceFound, Known

\* A request for a published service and plan works with that very service
\* and a plan of it, although GetService and GetServicePlan look them up apart,
\* each ranging over the map, provided no two IDs differ in case alone.
THEOREM TogetherFound == Spec => []LookedUpTogether
<1>1. Init => TypeOK /\ AskedInService /\ FoundAsAsked
  BY TypeInit, FoundInit
<1>2. TypeOK /\ AskedInService /\ FoundAsAsked /\ [Next]_vars
        => (TypeOK /\ AskedInService /\ FoundAsAsked)'
  BY TypeNext, FoundNext
<1>3. AskedInService /\ FoundAsAsked => LookedUpTogether
  BY FoundTogether
<1> QED
  BY <1>1, <1>2, <1>3, PTL DEF Spec
=============================================================================
