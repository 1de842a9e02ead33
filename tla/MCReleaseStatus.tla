-------------------------- MODULE MCReleaseStatus --------------------------
(***************************************************************************)
(* Small releases for TLC: MaxGroups groups of one or two objects, and one *)
(* group more when each has one object.                                    *)
(***************************************************************************)
EXTENDS ReleaseStatus, SequencesExt

CONSTANTS MaxGroups

Workload(d, c, a) == [desired |-> d, current |-> c, available |-> a]

\* Not needed, starting, not ready, ready, one too many.
Sizes == {Workload(0, 0, 0), Workload(1, 0, 0), Workload(1, 1, 0), Workload(1, 1, 1),
          Workload(1, 2, 2)}

Service(t, a, ps) == [type |-> t, address |-> a, ports |-> ps]

\* Two host names of load balancers that differ behind the cut.
CutAddresses == [a |-> "cut", b |-> "cut"]

Pair(port, node) == [port |-> port, node |-> node]

ServiceObjects ==
  {Service("ClusterIP", "", <<Pair(80, 0)>>), Service("ExternalName", "name", <<>>),
   Service("NodePort", "", <<Pair(80, 30080), Pair(443, 30443)>>),
   Service("NodePort", "", <<Pair(53, 30053), Pair(80, 30080), Pair(53, 30054)>>)}
  \cup {Service("LoadBalancer", a, <<Pair(80, 30080)>>) : a \in {"", "a", "b", "10.0.0.1"}}

IngressObjects ==
  {[host |-> "host", address |-> ""], [host |-> "host", address |-> "10.0.0.1"]}

Some(S) == {<<x>> : x \in S} \cup {<<x, y>> : x, y \in S}

Of(kind, objects) == {[kind |-> kind, objects |-> os] : os \in objects}

Group ==
  Of("Deployment", Some(Sizes)) \cup Of("StatefulSet", Some({Workload(1, 1, 0), Workload(1, 1, 1)}))
  \cup Of("Service", Some(ServiceObjects)) \cup Of("Ingress", Some(IngressObjects))
  \cup Of("Job", {<<0>>}) \cup Of("Other", {<<0>>, <<0, 0>>})

\* Services and ingresses have one API version.
Single(kind, r) == \A i, j \in DOMAIN r : r[i].kind = kind /\ r[j].kind = kind => i = j

SmallReleases ==
  {r \in BoundedSeq(Group, MaxGroups) \cup BoundedSeq({g \in Group : Len(g.objects) = 1}, MaxGroups + 1) :
     Single("Service", r) /\ Single("Ingress", r)}
=============================================================================
