---------------------------- MODULE Credentials ----------------------------
(***************************************************************************)
(* The endpoints a binding hands out (release.GetCredentials, catalog      *)
(* UserCredentials, kubectl.GetNodes): where the services of a release can *)
(* be reached, seen through a status, which is a printed table, and a list *)
(* of nodes, read one after the other while the cluster goes on changing.  *)
(*                                                                         *)
(* Go ranges over a map in any order: which port comes first, or last, is  *)
(* a choice.                                                               *)
(***************************************************************************)
EXTENDS Integers, Sequences, FiniteSetsExt

CONSTANTS Bindings,    \* binds of one instance
          Releases,    \* the services a release may have, in the order Tiller prints them
          NodeLists,   \* the nodes a cluster may have: per node its typed addresses
          Discovered,  \* service names that contain internal-discovery-name
          Composed,    \* the name made of the release and internal-discovery-name
          Arguments,   \* arguments the credentials template gives to Port, or None
          Balancers,   \* the addresses a load balancer may get in the end
          Cut,         \* those that are too wide for the printed table, and what
                       \* it has of each (see ReleaseStatus)
          None,        \* no address, no port, no argument
          Domains      \* what the environment variable DOMAIN may hold, or None

Types == {"ClusterIP", "NodePort", "LoadBalancer", "ExternalName"}

AddressTypes == {"Hostname", "InternalIP", "ExternalIP"}

IsSequence(s) == s \in Seq({s[i] : i \in DOMAIN s})

\* A service with ports, of which Kubernetes exposes all on the nodes when it is
\* a NodePort, none when it is a ClusterIP.
IsService(s) ==
  /\ DOMAIN s = {"name", "type", "ports", "node", "externalIP"}
  /\ s.type \in Types
  /\ s.ports \subseteq Nat /\ None \notin s.ports
  /\ s.node \in [s.ports -> Nat \cup {None}]
  /\ s.type = "NodePort" => \A p \in s.ports : s.node[p] # None
  /\ s.type = "ClusterIP" => \A p \in s.ports : s.node[p] = None

IsRelease(release) == IsSequence(release) /\ \A i \in DOMAIN release : IsService(release[i])

IsNodeList(list) ==
  /\ IsSequence(list)
  /\ \A i \in DOMAIN list :
       /\ IsSequence(list[i])
       /\ \A j \in DOMAIN list[i] :
            list[i][j].type \in AddressTypes /\ list[i][j].address # None

ASSUME CredentialsAssumption ==
  /\ \A release \in Releases :
       IsRelease(release) /\ \A i \in DOMAIN release : release[i].externalIP \in Balancers \cup {None}
  /\ \A list \in NodeLists : IsNodeList(list)
  /\ Composed \in Discovered
  /\ Arguments \subseteq Nat \cup {None}
  /\ None \notin Balancers /\ "<pending>" \notin Balancers
  /\ \A a \in DOMAIN Cut : Cut[a] \notin Balancers

VARIABLES services,  \* the services of the release in the cluster
          nodes,     \* the nodes of the cluster
          domain,    \* the environment variable DOMAIN
          dns,       \* whether CLUSTER_DNS is set
          pc,        \* where a bind is
          status,    \* the services it read
          items,     \* the nodes it read
          arg,       \* the argument its template gives to Port
          creds      \* what it answered

clusterVars == <<services, nodes, domain, dns>>

vars == <<services, nodes, domain, dns, pc, status, items, arg, creds>>

NoCredentials == [address |-> None, port |-> None, ha |-> <<>>, hostname |-> None]

\* The addresses of a kind in a list of nodes.
AddressesOf(list, type) ==
  UNION {{list[i][j].address : j \in {k \in DOMAIN list[i] : list[i][k].type = type}} :
           i \in DOMAIN list}

NodeAddresses == UNION {AddressesOf(list, t) : list \in NodeLists, t \in {"InternalIP", "ExternalIP"}}

ServiceAddresses == Balancers \cup {Cut[a] : a \in DOMAIN Cut} \cup {"<pending>", None}

TypeOK ==
  /\ \A i \in DOMAIN services : services[i].type \in Types
  /\ nodes \in NodeLists /\ domain \in Domains /\ dns \in BOOLEAN
  /\ pc \in [Bindings -> {"status", "nodes", "render", "done"}]
  /\ \A b \in Bindings : items[b] \in NodeLists \cup {<<>>}
  /\ arg \in [Bindings -> Arguments]
  /\ \A b \in Bindings :
       /\ creds[b].address \in NodeAddresses \cup ServiceAddresses \cup {Composed, domain, None}
       /\ creds[b].port \in Nat \cup {None}

Init ==
  /\ services \in Releases /\ nodes \in NodeLists /\ domain \in Domains /\ dns \in BOOLEAN
  /\ pc = [b \in Bindings |-> "status"]
  /\ status = [b \in Bindings |-> <<>>]
  /\ items = [b \in Bindings |-> <<>>]
  /\ arg \in [Bindings -> Arguments]
  /\ creds = [b \in Bindings |-> NoCredentials]

-----------------------------------------------------------------------------
(***************************************************************************)
(* kubectl.GetNodes                                                        *)
(***************************************************************************)
\* Of several addresses of a type the last one counts.
AddressOf(item, type) ==
  LET those == {j \in DOMAIN item : item[j].type = type} IN
  IF those = {} THEN None ELSE item[Max(those)].address

GetNodes(list) ==
  [i \in DOMAIN list |-> [hostname |-> AddressOf(list[i], "Hostname"),
                          internal |-> AddressOf(list[i], "InternalIP"),
                          external |-> AddressOf(list[i], "ExternalIP")]]

\* The nodes with a value in this field; the value of the first, and of the last.
Given(ns, field) == {i \in DOMAIN ns : ns[i][field] # None}

FirstGiven(ns, field) == IF Given(ns, field) = {} THEN None ELSE ns[Min(Given(ns, field))][field]

LastGiven(ns, field) == IF Given(ns, field) = {} THEN None ELSE ns[Max(Given(ns, field))][field]

(***************************************************************************)
(* UserCredentials                                                         *)
(***************************************************************************)
\* The two maps of a StatusService: a port to itself, a port to its node port.
ClusterPorts(s) == {<<p, p>> : p \in s.ports}

NodePorts(s) == {<<p, s.node[p]>> : p \in {q \in s.ports : s.node[q] # None}}

Targets(pairs, a) == {p[2] : p \in {q \in pairs : a \in {None, q[1]}}}

\* The targets of the first of the two maps that has any.
TargetsIn(first, second, a) ==
  IF Targets(first, a) # {} THEN Targets(first, a)
  ELSE IF Targets(second, a) # {} THEN Targets(second, a)
  ELSE {a}

\* Mutant of Port: the node port of a load balancer.
PortOfNode(release, a) ==
  IF release = <<>> THEN {None}
  ELSE TargetsIn(NodePorts(release[1]), ClusterPorts(release[1]), a)

\* Mutant of Port: the argument is ignored.
PortAny(release, a) ==
  IF release = <<>> THEN {None}
  ELSE IF release[1].type = "LoadBalancer"
       THEN TargetsIn(ClusterPorts(release[1]), NodePorts(release[1]), None)
       ELSE TargetsIn(NodePorts(release[1]), ClusterPorts(release[1]), None)

\* clusterVars.Port: always of the first service.
Port(release, a) ==
  IF release = <<>> THEN {None}
  ELSE IF release[1].type = "LoadBalancer"
       THEN TargetsIn(ClusterPorts(release[1]), NodePorts(release[1]), a)
       ELSE TargetsIn(NodePorts(release[1]), ClusterPorts(release[1]), a)

\* Mutant of extractAddress: a node that has no address is named by its host name.
extractAddressHost(ns, release) ==
  IF release # <<>> /\ release[1].type = "NodePort" /\ FirstGiven(ns, "external") = None
  THEN FirstGiven(ns, "hostname") ELSE None

DiscoveredIn(release) == {i \in DOMAIN release : release[i].name \in Discovered}

\* Of the last service discovered.
extractAddress(ns, release) ==
  IF domain # None THEN domain
  ELSE IF DiscoveredIn(release) = {} THEN None
  ELSE LET s == release[Max(DiscoveredIn(release))] IN
       CASE s.type = "ClusterIP"    -> IF dns THEN Composed ELSE None
         [] s.type = "NodePort"     -> IF FirstGiven(ns, "external") # None
                                       THEN FirstGiven(ns, "external")
                                       ELSE FirstGiven(ns, "internal")
         [] s.type = "LoadBalancer" -> s.externalIP
         [] s.type = "ExternalName" -> None

LastOf(pairs) == IF pairs = {} THEN {None} ELSE {p[2] : p \in pairs}

\* Mutant of HaEndpoints: the cluster's port of a node port.
HaClusterPorts(ns, s) ==
  CASE s.type = "ClusterIP"    -> {<<s.name, p>> : p \in LastOf(ClusterPorts(s))}
    [] s.type = "NodePort"     -> {<<LastGiven(ns, "internal"), p>> : p \in LastOf(ClusterPorts(s))}
    [] s.type = "LoadBalancer" -> {<<s.externalIP, p>> : p \in LastOf(ClusterPorts(s))}

\* One entry of extractHAAddress: the last internal address wins over external ones.
HaEndpoints(ns, s) ==
  CASE s.type = "ClusterIP"    -> {<<s.name, p>> : p \in LastOf(ClusterPorts(s))}
    [] s.type = "NodePort"     ->
         {<<IF LastGiven(ns, "internal") # None THEN LastGiven(ns, "internal")
            ELSE LastGiven(ns, "external"), p>> : p \in LastOf(NodePorts(s))}
    [] s.type = "LoadBalancer" -> {<<s.externalIP, p>> : p \in LastOf(ClusterPorts(s))}

\* The services with an entry: all but external names.
HaServices(release) == {i \in DOMAIN release : release[i].type # "ExternalName"}

NeedsDns(release) == \E i \in DOMAIN release : release[i].type = "ClusterIP"

\* Without CLUSTER_DNS one ClusterIP service takes the addresses of all away.
extractHAAddress(ns, release) ==
  IF NeedsDns(release) /\ ~dns THEN {<<>>}
  ELSE LET those == HaServices(release) IN
       {ha \in [those -> UNION {HaEndpoints(ns, release[i]) : i \in those}] :
          \A i \in those : ha[i] \in HaEndpoints(ns, release[i])}

-----------------------------------------------------------------------------
Proceed(b, step) == pc' = [pc EXCEPT ![b] = step]

\* The status has the addresses as they are printed; only those of load balancers
\* are used.
Printed(s) ==
  CASE s.type = "LoadBalancer" /\ s.externalIP = None -> "<pending>"
    [] s.type = "LoadBalancer" /\ s.externalIP \in DOMAIN Cut -> Cut[s.externalIP]
    [] OTHER -> s.externalIP

ReadStatus(b) ==
  /\ pc[b] = "status"
  /\ status' = [status EXCEPT ![b] = [i \in DOMAIN services |->
                  [services[i] EXCEPT !.externalIP = Printed(services[i])]]]
  /\ Proceed(b, "nodes")
  /\ UNCHANGED <<clusterVars, items, arg, creds>>

ReadNodes(b) ==
  /\ pc[b] = "nodes"
  /\ items' = [items EXCEPT ![b] = nodes]
  /\ Proceed(b, "render")
  /\ UNCHANGED <<clusterVars, status, arg, creds>>

UserCredentials(b) ==
  LET ns == GetNodes(items[b]) IN
  /\ pc[b] = "render"
  /\ \E port \in Port(status[b], arg[b]), ha \in extractHAAddress(ns, status[b]) :
       creds' = [creds EXCEPT ![b] = [address  |-> extractAddress(ns, status[b]),
                                      port     |-> port,
                                      ha       |-> ha,
                                      hostname |-> FirstGiven(ns, "hostname")]]
  /\ Proceed(b, "done")
  /\ UNCHANGED <<clusterVars, status, items, arg>>

\* The cluster: a load balancer gets its address, nodes come and go.
Balance ==
  /\ \E i \in DOMAIN services, a \in Balancers :
       /\ services[i].type = "LoadBalancer" /\ services[i].externalIP = None
       /\ services' = [services EXCEPT ![i].externalIP = a]
  /\ UNCHANGED <<nodes, domain, dns, pc, status, items, arg, creds>>

ReplaceNodes ==
  /\ \E list \in NodeLists : list # nodes /\ nodes' = list
  /\ UNCHANGED <<services, domain, dns, pc, status, items, arg, creds>>

Finished == (\A b \in Bindings : pc[b] = "done") /\ UNCHANGED vars

Next ==
  \/ \E b \in Bindings : ReadStatus(b) \/ ReadNodes(b) \/ UserCredentials(b)
  \/ Balance \/ ReplaceNodes \/ Finished

Spec == Init /\ [][Next]_vars

-----------------------------------------------------------------------------
Done(b) == pc[b] = "done"

\* The addresses of the nodes that have one.
AddressesIn(ns) == (UNION {{ns[i].internal, ns[i].external} : i \in DOMAIN ns}) \ {None}

\* Where a service can be reached on port p of it.
Endpoints(s, ns, p) ==
  CASE s.type = "ClusterIP" -> {<<s.name, p>>}
    [] s.type = "LoadBalancer" -> {<<s.externalIP, p>>}
    [] s.type = "NodePort" -> {<<ip, s.node[p]>> : ip \in AddressesIn(ns)}
    [] OTHER -> {}

\* Every service has a name of its own and a port; the last one discovered is
\* the first of all, and is named as extractAddress takes for granted.
FirstDiscovered(release) ==
  /\ release # <<>> /\ release[1].name = Composed
  /\ DiscoveredIn(release) = {1}

HasAddress(ns) == \E i \in DOMAIN ns : ns[i].internal # None \/ ns[i].external # None

\* A load balancer had its address when the status was read, and one that is
\* printed whole.
Legible(s) == s.type = "LoadBalancer" => s.externalIP \in Balancers

\* Address and port of a binding belong together: they are an endpoint that the
\* discovered service has in the cluster, on the port the template asks for and
\* on a node that the bind has read; DOMAIN stands for the address only.
EndpointServed ==
  \A b \in Bindings :
    LET ns == GetNodes(items[b])
        s == services[1] IN
    /\ Done(b) /\ FirstDiscovered(services) /\ HasAddress(ns)
    /\ s.type # "ExternalName" /\ (s.type = "ClusterIP" => dns) /\ Legible(status[b][1])
    /\ arg[b] \in s.ports \cup {None} /\ s.ports # {}
    => \E p \in s.ports : \E end \in Endpoints(s, ns, p) :
         /\ arg[b] \in {None, p}
         /\ creds[b].port = end[2]
         /\ creds[b].address = IF domain = None THEN end[1] ELSE domain

\* Where no DOMAIN is to replace addresses, the high-availability address names
\* one endpoint of every service of the release in the cluster, provided that
\* there is a DNS name for those that need one.
HaComplete ==
  \A b \in Bindings :
    LET ns == GetNodes(items[b])
        those == HaServices(services) IN
    Done(b) /\ domain = None /\ HasAddress(ns) /\ (NeedsDns(services) => dns) =>
      /\ DOMAIN creds[b].ha = those
      /\ \A i \in those : services[i].ports # {} /\ Legible(status[b][i]) =>
           \E p \in services[i].ports : creds[b].ha[i] \in Endpoints(services[i], ns, p)

\* Two bindings that read the same services and nodes agree on address and
\* port, when the template names the port or the first service has one only.
BindingsAgree ==
  \A b, c \in Bindings :
    /\ Done(b) /\ Done(c) /\ status[b] = status[c] /\ items[b] = items[c] /\ arg[b] = arg[c]
    /\ arg[b] # None \/ \A i \in DOMAIN status[b] : \A p, q \in status[b][i].ports : p = q
    => creds[b].address = creds[c].address /\ creds[b].port = creds[c].port
=============================================================================
