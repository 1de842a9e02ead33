------------------------------ MODULE Catalog ------------------------------
(***************************************************************************)
(* The catalogue (pkg/catalog): the files of a directory are read once, at *)
(* start-up, into a map from service ID to service; requests look services *)
(* and plans up in it, by IDs that may differ in case, ranging over the    *)
(* map in an order of Go's choice.                                         *)
(***************************************************************************)
EXTENDS Integers, Sequences

CONSTANTS Ids,          \* service and plan IDs
          Folded,       \* what strings.EqualFold compares of an ID
          Directories,  \* the files of a directory, in the order of filepath.Walk
          Requests,     \* requests that look a plan up
          None          \* no service, no plan, no chart

\* "unlisted": Walk cannot stat it; "unread": it cannot be read; "other": no
\* .yaml; "broken": not three documents, or one of them does not parse.
FileKinds == {"yaml", "unlisted", "unread", "other", "broken"}

ASSUME CatalogAssumption ==
  /\ DOMAIN Folded = Ids /\ None \notin Ids
  /\ \A d \in Directories :
       /\ Len(d) \in Nat /\ DOMAIN d = 1..Len(d)
       /\ \A i \in DOMAIN d :
            /\ d[i].kind \in FileKinds /\ d[i].service.id \in Ids
            /\ Len(d[i].service.plans) \in Nat
            /\ DOMAIN d[i].service.plans = 1..Len(d[i].service.plans)

VARIABLES dir,       \* the catalogue directory
          next,      \* the file Walk is at
          services,  \* the map: services by ID, None where there is none
          outcome,   \* "walking", "failed" or "serving"
          asked,     \* the IDs a request names
          service,   \* what GetService gave it
          plan,      \* what GetServicePlan gave it
          pc

vars == <<dir, next, services, outcome, asked, service, plan, pc>>

Nothing == [service |-> None, plan |-> None]

\* The services the files define.
Defined == {dir[i].service : i \in DOMAIN dir}

TypeOK ==
  /\ dir \in Directories /\ next \in 1..(Len(dir) + 1)
  /\ services \in [Ids -> Defined \cup {None}]
  /\ outcome \in {"walking", "failed", "serving"}
  /\ asked \in [Requests -> {Nothing} \cup [service : Ids, plan : Ids]]
  /\ service \in [Requests -> Defined \cup {None}]
  /\ plan \in [Requests -> {None} \cup UNION {{s.plans[i] : i \in DOMAIN s.plans} : s \in Defined}]
  /\ pc \in [Requests -> {"idle", "service", "plan", "done"}]

Init ==
  /\ dir \in Directories /\ next = 1
  /\ services = [id \in Ids |-> None]
  /\ outcome = "walking"
  /\ asked = [r \in Requests |-> Nothing]
  /\ service = [r \in Requests |-> None] /\ plan = [r \in Requests |-> None]
  /\ pc = [r \in Requests |-> "idle"]

-----------------------------------------------------------------------------
\* The services in the map.
Known == {services[id] : id \in Ids} \ {None}

\* Mutant of ParseFile: a file that does not parse is skipped.
ParseFileSkipping ==
  /\ outcome = "walking" /\ next <= Len(dir)
  /\ next' = next + 1
  /\ IF dir[next].kind = "yaml"
     THEN services' = [services EXCEPT ![dir[next].service.id] = dir[next].service]
     ELSE UNCHANGED services
  /\ UNCHANGED <<dir, outcome, asked, service, plan, pc>>

\* Mutant of ParseFile: the file after a service is passed over.
ParseFileAhead ==
  /\ outcome = "walking" /\ next <= Len(dir)
  /\ next' = next + 2
  /\ services' = [services EXCEPT ![dir[next].service.id] = dir[next].service]
  /\ UNCHANGED <<dir, outcome, asked, service, plan, pc>>

\* One call of Walk's function.  What cannot be listed is logged and skipped,
\* what cannot be read or parsed ends the walk.
ParseFile ==
  /\ outcome = "walking" /\ next <= Len(dir)
  /\ next' = next + 1
  /\ \/ /\ dir[next].kind \in {"unlisted", "other"}
        /\ UNCHANGED <<services, outcome>>
     \/ /\ dir[next].kind \in {"unread", "broken"}
        /\ outcome' = "failed" /\ UNCHANGED services
     \/ /\ dir[next].kind = "yaml"
        /\ services' = [services EXCEPT ![dir[next].service.id] = dir[next].service]
        /\ UNCHANGED outcome
  /\ UNCHANGED <<dir, asked, service, plan, pc>>

\* The broker serves when there is a service at all.
ParsedDir ==
  /\ outcome = "walking" /\ next > Len(dir)
  /\ outcome' = IF Known = {} THEN "failed" ELSE "serving"
  /\ UNCHANGED <<dir, next, services, asked, service, plan, pc>>

\* A platform may ask for what no file has: instances outlive catalogues.
Receive(r) ==
  /\ outcome = "serving" /\ pc[r] = "idle"
  /\ \E sid, pid \in Ids : asked' = [asked EXCEPT ![r] = [service |-> sid, plan |-> pid]]
  /\ pc' = [pc EXCEPT ![r] = "service"]
  /\ UNCHANGED <<dir, next, services, outcome, service, plan>>

\* HelmBroker.Services: the catalogue the platform is given, here its IDs.
Services == UNION {{<<s.id, s.plans[i].id>> : i \in DOMAIN s.plans} : s \in Known}

Matches(id, other) == Folded[id] = Folded[other]

\* Mutant of GetService: the map is asked for the ID as it is.
GetServiceExact(r) ==
  /\ pc[r] = "service"
  /\ service' = [service EXCEPT ![r] = services[asked[r].service]]
  /\ pc' = [pc EXCEPT ![r] = "plan"]
  /\ UNCHANGED <<dir, next, services, outcome, asked, plan>>

\* Nothing found is no error, but an empty service.
GetService(r) ==
  /\ pc[r] = "service"
  /\ \/ \E s \in Known : /\ Matches(s.id, asked[r].service)
                         /\ service' = [service EXCEPT ![r] = s]
     \/ /\ \A s \in Known : ~Matches(s.id, asked[r].service)
        /\ UNCHANGED service
  /\ pc' = [pc EXCEPT ![r] = "plan"]
  /\ UNCHANGED <<dir, next, services, outcome, asked, plan>>

\* Mutant of PlansFound: a plan of whatever service.
PlansOfAny(sid, pid) ==
  UNION {{s.plans[i] : i \in {j \in DOMAIN s.plans : Matches(s.plans[j].id, pid)}} : s \in Known}

\* The plans GetServicePlan may find: the first match of each service whose ID
\* matches, and another service when that one has none.
PlansFound(sid, pid) ==
  UNION {{s.plans[i] : i \in {j \in DOMAIN s.plans :
                                /\ Matches(s.plans[j].id, pid)
                                /\ \A k \in 1..(j - 1) : ~Matches(s.plans[k].id, pid)}} :
           s \in {t \in Known : Matches(t.id, sid)}}

\* Looks the service up again, apart from GetService.
GetServicePlan(r) ==
  /\ pc[r] = "plan"
  /\ \/ \E p \in PlansFound(asked[r].service, asked[r].plan) : plan' = [plan EXCEPT ![r] = p]
     \/ PlansFound(asked[r].service, asked[r].plan) = {} /\ UNCHANGED plan
  /\ pc' = [pc EXCEPT ![r] = "done"]
  /\ UNCHANGED <<dir, next, services, outcome, asked, service>>

Finished == (outcome = "failed" \/ \A r \in Requests : pc[r] = "done") /\ UNCHANGED vars

Next ==
  \/ ParseFile \/ ParsedDir \/ Finished
  \/ \E r \in Requests : Receive(r) \/ GetService(r) \/ GetServicePlan(r)

Spec == Init /\ [][Next]_vars

-----------------------------------------------------------------------------
Yaml == {i \in DOMAIN dir : dir[i].kind = "yaml"}

\* Start-up takes the whole directory or none of it: a broker that serves has
\* the service of every file it could list, but for one whose ID a later file
\* takes, and no service of a directory with a file that does not parse.
WholeDirectory ==
  outcome = "serving" =>
    /\ \A i \in Yaml : \/ services[dir[i].service.id] = dir[i].service
                       \/ \E j \in Yaml : j > i /\ dir[j].service.id = dir[i].service.id
    /\ \A i \in DOMAIN dir : dir[i].kind \notin {"unread", "broken"}

\* No two services, and no two plans of one, have the same ID but for its case.
OwnIds ==
  /\ \A s, t \in Known : Matches(s.id, t.id) => s = t
  /\ \A s \in Known : \A i, j \in DOMAIN s.plans : Matches(s.plans[i].id, s.plans[j].id) => i = j

\* Some service and plan in the catalogue the platform has been given.
Published(sid, pid) == \E offer \in Services : Matches(offer[1], sid) /\ Matches(offer[2], pid)

\* A request works with the very service and plan it names, and the plan is
\* one of that service, although the two are looked up apart.
LookedUpTogether ==
  \A r \in Requests :
    pc[r] = "done" /\ OwnIds /\ Published(asked[r].service, asked[r].plan) =>
      /\ service[r] # None /\ Matches(service[r].id, asked[r].service)
      /\ \E i \in DOMAIN service[r].plans : /\ plan[r] = service[r].plans[i]
                                            /\ Matches(plan[r].id, asked[r].plan)
=============================================================================
