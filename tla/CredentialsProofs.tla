-------------------------- MODULE CredentialsProofs -------------------------
(***************************************************************************)
(* What a binding answers is computed once, from a status and a list of    *)
(* nodes that no longer change (Rendered): what remains are the functions  *)
(* of the credentials, for every release, every list of nodes, every order *)
(* of Go's maps.                                                           *)
(***************************************************************************)
EXTENDS Credentials, SequenceTheorems, WellFoundedInduction, TLAPS

-----------------------------------------------------------------------------
(***************************************************************************)
(* First and last element of a set of indexes.                             *)
(***************************************************************************)
\* Every set of naturals that is not empty has a least element.
LEMMA MinOf ==
  ASSUME NEW S, S \subseteq Nat, S # {}
  PROVE  Min(S) \in S /\ \A y \in S : Min(S) <= y
<1>1. PICK x \in S : \A y \in S : ~(<<y, x>> \in OpToRel(<, Nat))
  BY NatLessThanWellFounded, WFMin
<1>2. \A y \in S : ~(y < x)
  <2> SUFFICES ASSUME NEW y \in S, y < x PROVE FALSE
    OBVIOUS
  <2>1. <<y, x>> \in Nat \X Nat
    OBVIOUS
  <2>2. <<y, x>> \in OpToRel(<, Nat)
    BY <2>1, Zenon DEF OpToRel
  <2> QED
    BY <1>1, <2>2
<1>3. \A y \in S : x <= y
  BY <1>2
<1> QED
  BY <1>3, Zenon DEF Min

\* Every set of indexes of a sequence that is not empty has a last element.
LEMMA MaxOf ==
  ASSUME NEW n \in Nat, NEW S, S \subseteq 1..n, S # {}
  PROVE  Max(S) \in S /\ \A y \in S : Max(S) >= y
<1> DEFINE T == {n - i : i \in S}
<1>1. T \subseteq Nat /\ T # {}
  <2>1. PICK i \in S : TRUE
    OBVIOUS
  <2>2. \A j \in S : n - j \in Nat
    OBVIOUS
  <2>3. n - i \in T
    OBVIOUS
  <2> QED
    BY <2>2, <2>3
<1>2. Min(T) \in T /\ \A y \in T : Min(T) <= y
  <2> HIDE DEF T
  <2> QED
    BY <1>1, MinOf
<1>3. PICK x \in S : Min(T) = n - x
  BY <1>2
<1>4. \A y \in S : x >= y
  <2> SUFFICES ASSUME NEW y \in S PROVE x >= y
    OBVIOUS
  <2>1. n - y \in T
    OBVIOUS
  <2>2. n - x <= n - y
    BY <1>2, <1>3, <2>1
  <2> QED
    BY <2>2
<1> QED
  BY <1>4 DEF Max

\* What IsSequence says of a value, without its set of elements.
LEMMA SequenceDomain ==
  ASSUME NEW s, IsSequence(s)
  PROVE  /\ \E n \in Nat : DOMAIN s = 1..n
         /\ s # <<>> => 1 \in DOMAIN s
<1> DEFINE S == {s[i] : i \in DOMAIN s}
<1>1. s \in Seq(S)
  BY DEF IsSequence
<1> HIDE DEF S
<1>2. Len(s) \in Nat /\ DOMAIN s = 1..Len(s)
  BY <1>1, LenProperties
<1>3. s # <<>> => Len(s) \in Nat \ {0}
  BY <1>1, EmptySeq
<1>4. s # <<>> => 1 \in 1..Len(s)
  BY <1>3
<1> QED
  BY <1>2, <1>4

\* A sequence keeps its length when its elements change.
LEMMA SequenceMapped ==
  ASSUME NEW s, NEW t, IsSequence(s), DOMAIN t = DOMAIN s, t = [i \in DOMAIN t |-> t[i]]
  PROVE  IsSequence(t)
<1> DEFINE T == {t[i] : i \in DOMAIN t}
<1>1. PICK n \in Nat : DOMAIN s = 1..n
  BY SequenceDomain
<1>2. t \in [1..n -> T]
  BY <1>1
<1>3. t \in Seq(T)
  <2> HIDE DEF T
  <2> QED
    BY <1>2, SeqDef
<1> QED
  BY <1>3 DEF IsSequence

-----------------------------------------------------------------------------
(***************************************************************************)
(* kubectl.GetNodes and the searches for a node.                           *)
(***************************************************************************)
\* The value found first is that of a node, if any node has one.
LEMMA FirstOfNodes ==
  ASSUME NEW ns, NEW n \in Nat, DOMAIN ns = 1..n, NEW field
  PROVE  IF Given(ns, field) = {} THEN FirstGiven(ns, field) = None
         ELSE \E i \in DOMAIN ns : FirstGiven(ns, field) = ns[i][field] /\ ns[i][field] # None
<1>1. Given(ns, field) \subseteq Nat
  BY DEF Given
<1>2. CASE Given(ns, field) = {}
  BY <1>2 DEF FirstGiven
<1>3. CASE Given(ns, field) # {}
  <2>1. Min(Given(ns, field)) \in Given(ns, field)
    BY <1>1, <1>3, MinOf
  <2>2. /\ Min(Given(ns, field)) \in DOMAIN ns
        /\ ns[Min(Given(ns, field))][field] # None
    BY <2>1, Zenon DEF Given
  <2> QED
    BY <1>3, <2>2, Zenon DEF FirstGiven
<1> QED
  BY <1>2, <1>3

\* The value found last is that of a node, if any node has one.
LEMMA LastOfNodes ==
  ASSUME NEW ns, NEW n \in Nat, DOMAIN ns = 1..n, NEW field
  PROVE  IF Given(ns, field) = {} THEN LastGiven(ns, field) = None
         ELSE \E i \in DOMAIN ns : LastGiven(ns, field) = ns[i][field] /\ ns[i][field] # None
<1>1. Given(ns, field) \subseteq 1..n
  BY DEF Given
<1>2. CASE Given(ns, field) = {}
  BY <1>2 DEF LastGiven
<1>3. CASE Given(ns, field) # {}
  <2>1. Max(Given(ns, field)) \in Given(ns, field)
    BY <1>1, <1>3, MaxOf
  <2>2. /\ Max(Given(ns, field)) \in DOMAIN ns
        /\ ns[Max(Given(ns, field))][field] # None
    BY <2>1, Zenon DEF Given
  <2> QED
    BY <1>3, <2>2, Zenon DEF LastGiven
<1> QED
  BY <1>2, <1>3

\* The address of a kind that is kept for a node is one it has.
LEMMA AddressKept ==
  ASSUME NEW list, IsNodeList(list), NEW i \in DOMAIN list, NEW type
  PROVE  AddressOf(list[i], type) \in AddressesOf(list, type) \cup {None}
<1> DEFINE those == {j \in DOMAIN list[i] : list[i][j].type = type}
<1>1. PICK n \in Nat : DOMAIN list[i] = 1..n
  BY SequenceDomain DEF IsNodeList
<1>2. CASE those = {}
  BY <1>2 DEF AddressOf
<1>3. CASE those # {}
  <2>1. those \subseteq 1..n
    BY <1>1
  <2>2. Max(those) \in those
    <3> HIDE DEF those
    <3> QED
      BY <1>3, <2>1, MaxOf
  <2>3. AddressOf(list[i], type) = list[i][Max(those)].address
    BY <1>3 DEF AddressOf
  <2>4. list[i][Max(those)].address \in {list[i][j].address : j \in those}
    BY <2>2
  <2> QED
    BY <2>3, <2>4 DEF AddressesOf
<1> QED
  BY <1>2, <1>3

\* The nodes of a list that was read, or of none.
LEMMA NodesRead ==
  ASSUME NEW list \in NodeLists \cup {<<>>}
  PROVE  /\ \E n \in Nat : DOMAIN GetNodes(list) = 1..n
         /\ \A i \in DOMAIN GetNodes(list) :
              /\ GetNodes(list)[i].external \in NodeAddresses \cup {None}
              /\ GetNodes(list)[i].internal \in NodeAddresses \cup {None}
<1>1. DOMAIN GetNodes(list) = DOMAIN list
  BY DEF GetNodes
<1>2. CASE list = <<>>
  <2>1. DOMAIN list = 1..0
    BY <1>2
  <2> QED
    BY <1>1, <2>1
<1>3. CASE list \in NodeLists
  <2>1. IsNodeList(list)
    BY <1>3, CredentialsAssumption
  <2>2. \E n \in Nat : DOMAIN list = 1..n
    BY <2>1, SequenceDomain DEF IsNodeList
  <2>3. ASSUME NEW i \in DOMAIN list
        PROVE  /\ GetNodes(list)[i].external \in NodeAddresses \cup {None}
               /\ GetNodes(list)[i].internal \in NodeAddresses \cup {None}
    <3>1. /\ GetNodes(list)[i].external = AddressOf(list[i], "ExternalIP")
          /\ GetNodes(list)[i].internal = AddressOf(list[i], "InternalIP")
      BY DEF GetNodes
    <3>2. /\ AddressOf(list[i], "ExternalIP") \in AddressesOf(list, "ExternalIP") \cup {None}
          /\ AddressOf(list[i], "InternalIP") \in AddressesOf(list, "InternalIP") \cup {None}
      BY <2>1, AddressKept
    <3>3. /\ AddressesOf(list, "ExternalIP") \subseteq NodeAddresses
          /\ AddressesOf(list, "InternalIP") \subseteq NodeAddresses
      BY <1>3 DEF NodeAddresses
    <3> QED
      BY <3>1, <3>2, <3>3
  <2> QED
    BY <1>1, <2>2, <2>3
<1> QED
  BY <1>2, <1>3

\* The address found on the nodes is one of theirs.
LEMMA FoundOnNodes ==
  ASSUME NEW list \in NodeLists \cup {<<>>}, NEW field \in {"internal", "external"}
  PROVE  FirstGiven(GetNodes(list), field) \in NodeAddresses \cup {None}
<1> DEFINE ns == GetNodes(list)
<1>1. PICK n \in Nat : DOMAIN ns = 1..n
  BY NodesRead
<1>2. \A i \in DOMAIN ns : ns[i][field] \in NodeAddresses \cup {None}
  BY NodesRead
<1> HIDE DEF ns
<1>3. FirstGiven(ns, field) = None \/ \E i \in DOMAIN ns : FirstGiven(ns, field) = ns[i][field]
  BY <1>1, FirstOfNodes
<1>4. FirstGiven(ns, field) \in NodeAddresses \cup {None}
  BY <1>2, <1>3
<1> QED
  BY <1>4 DEF ns

-----------------------------------------------------------------------------
(***************************************************************************)
(* The invariant.                                                          *)
(***************************************************************************)
Shaped(release) ==
  IsRelease(release) /\ \A i \in DOMAIN release : release[i].externalIP \in ServiceAddresses

Environment ==
  /\ nodes \in NodeLists /\ domain \in Domains /\ dns \in BOOLEAN
  /\ pc \in [Bindings -> {"status", "nodes", "render", "done"}]
  /\ arg \in [Bindings -> Arguments]

\* A status still holds, but for the addresses it has not whole: a load balancer
\* keeps the address it has got.
Holds(release) ==
  /\ DOMAIN release = DOMAIN services
  /\ \A i \in DOMAIN services :
       /\ release[i].name = services[i].name /\ release[i].type = services[i].type
       /\ release[i].ports = services[i].ports /\ release[i].node = services[i].node
       /\ release[i].externalIP \in Balancers => release[i].externalIP = services[i].externalIP

\* What the binds have read is what the cluster once was.
Reads ==
  /\ Shaped(services)
  /\ DOMAIN status = Bindings /\ \A b \in Bindings : Shaped(status[b])
  /\ \A b \in Bindings : pc[b] # "status" => Holds(status[b])
  /\ items \in [Bindings -> NodeLists \cup {<<>>}]

\* The answer of a bind is the functions of the credentials on what it read.
Rendered(b) ==
  LET ns == GetNodes(items[b]) IN
  IF pc[b] = "done"
  THEN /\ creds[b].address = extractAddress(ns, status[b])
       /\ creds[b].port \in Port(status[b], arg[b])
       /\ creds[b].ha \in extractHAAddress(ns, status[b])
  ELSE creds[b] = NoCredentials

IInv ==
  /\ Environment /\ Reads
  /\ DOMAIN creds = Bindings /\ \A b \in Bindings : Rendered(b)

LEMMA CredentialsInit == Init => IInv
<1> SUFFICES ASSUME Init PROVE IInv
  OBVIOUS
<1>1. Environment
  BY DEF Init, Environment
<1>2. Shaped(services)
  <2>1. services \in Releases
    BY DEF Init
  <2>2. \A i \in DOMAIN services : services[i].externalIP \in ServiceAddresses
    BY <2>1, CredentialsAssumption DEF ServiceAddresses
  <2> QED
    BY <2>1, <2>2, CredentialsAssumption DEF Shaped
<1>3. Shaped(<<>>)
  <2>1. IsSequence(<<>>)
    BY EmptySeq DEF IsSequence
  <2> QED
    BY <2>1 DEF Shaped, IsRelease
<1>4. Reads
  BY <1>2, <1>3 DEF Init, Reads
<1>5. DOMAIN creds = Bindings /\ \A b \in Bindings : Rendered(b)
  BY DEF Init, Rendered
<1> QED
  BY <1>1, <1>4, <1>5 DEF IInv

\* Another address leaves a service what it is otherwise.
LEMMA Readdressed ==
  ASSUME NEW s, IsService(s), NEW address \in ServiceAddresses, NEW t,
         t = [s EXCEPT !.externalIP = address]
  PROVE  /\ IsService(t) /\ t.externalIP = address
         /\ t.name = s.name /\ t.type = s.type /\ t.ports = s.ports /\ t.node = s.node
<1>1. DOMAIN s = {"name", "type", "ports", "node", "externalIP"}
  BY DEF IsService
<1>2. /\ DOMAIN t = DOMAIN s /\ t.externalIP = address
      /\ t.name = s.name /\ t.type = s.type /\ t.ports = s.ports /\ t.node = s.node
  BY <1>1
<1> QED
  BY <1>2 DEF IsService

\* So does a change of the addresses of all services of a release.
LEMMA ReaddressedShape ==
  ASSUME NEW old, Shaped(old), NEW address \in [DOMAIN old -> ServiceAddresses], NEW new,
         new = [i \in DOMAIN old |-> [old[i] EXCEPT !.externalIP = address[i]]]
  PROVE  /\ Shaped(new)
         /\ \A i \in DOMAIN old :
              /\ new[i].externalIP = address[i]
              /\ new[i].name = old[i].name /\ new[i].type = old[i].type
              /\ new[i].ports = old[i].ports /\ new[i].node = old[i].node
<1>1. IsSequence(new)
  BY SequenceMapped DEF Shaped, IsRelease
<1>2. ASSUME NEW i \in DOMAIN old
      PROVE  /\ IsService(new[i]) /\ new[i].externalIP = address[i]
             /\ new[i].name = old[i].name /\ new[i].type = old[i].type
             /\ new[i].ports = old[i].ports /\ new[i].node = old[i].node
  <2> DEFINE t == new[i]
  <2>1. t = [old[i] EXCEPT !.externalIP = address[i]] /\ address[i] \in ServiceAddresses
    OBVIOUS
  <2>2. IsService(old[i])
    BY DEF Shaped, IsRelease
  <2> HIDE DEF t
  <2>3. /\ IsService(t) /\ t.externalIP = address[i]
        /\ t.name = old[i].name /\ t.type = old[i].type
        /\ t.ports = old[i].ports /\ t.node = old[i].node
    BY <2>1, <2>2, Readdressed
  <2> QED
    BY <2>3 DEF t
<1> QED
  BY <1>1, <1>2 DEF Shaped, IsRelease

\* The status of a bind is the services of the cluster, but for some addresses.
LEMMA StatusRead ==
  ASSUME Shaped(services), NEW release,
         release = [i \in DOMAIN services |-> [services[i] EXCEPT !.externalIP = Printed(services[i])]]
  PROVE  Shaped(release) /\ Holds(release)
<1> DEFINE address == [i \in DOMAIN services |-> Printed(services[i])]
<1>1. ASSUME NEW i \in DOMAIN services
      PROVE  /\ Printed(services[i]) \in ServiceAddresses
             /\ Printed(services[i]) \in Balancers => Printed(services[i]) = services[i].externalIP
  <2>1. services[i].externalIP \in ServiceAddresses
    BY DEF Shaped
  <2> QED
    BY <2>1, CredentialsAssumption DEF Printed, ServiceAddresses
<1>2. /\ address \in [DOMAIN services -> ServiceAddresses]
      /\ release = [i \in DOMAIN services |-> [services[i] EXCEPT !.externalIP = address[i]]]
      /\ \A i \in DOMAIN services : address[i] \in Balancers => address[i] = services[i].externalIP
  BY <1>1
<1> HIDE DEF address
<1>3. /\ Shaped(release)
      /\ \A i \in DOMAIN services :
           /\ release[i].externalIP = address[i]
           /\ release[i].name = services[i].name /\ release[i].type = services[i].type
           /\ release[i].ports = services[i].ports /\ release[i].node = services[i].node
  BY <1>2, ReaddressedShape
<1> QED
  BY <1>2, <1>3 DEF Holds

\* A load balancer that gets its address had none, and a status that holds keeps
\* holding.
LEMMA Balanced ==
  ASSUME Shaped(services), Balance
  PROVE  /\ Shaped(services')
         /\ \A b \in Bindings : Holds(status[b]) => Holds(status[b])'
<1>1. PICK k \in DOMAIN services, a \in Balancers :
        /\ services[k].externalIP = None
        /\ services' = [services EXCEPT ![k].externalIP = a]
  BY DEF Balance
<1> DEFINE t == services'[k]
<1>2. /\ t = [services[k] EXCEPT !.externalIP = a]
      /\ DOMAIN services' = DOMAIN services
      /\ \A i \in DOMAIN services : i # k => services'[i] = services[i]
      /\ status' = status
  BY <1>1 DEF Balance
<1>3. IsSequence(services')
  <2>1. services' = [i \in DOMAIN services' |-> services'[i]]
    BY <1>1
  <2> QED
    BY <1>2, <2>1, SequenceMapped DEF Shaped, IsRelease
<1>4. IsService(services[k]) /\ a \in ServiceAddresses
  BY DEF Shaped, IsRelease, ServiceAddresses
<1> HIDE DEF t
<1>5. /\ IsService(t) /\ t.externalIP = a
      /\ t.name = services[k].name /\ t.type = services[k].type
      /\ t.ports = services[k].ports /\ t.node = services[k].node
  BY <1>2, <1>4, Readdressed
<1>6. Shaped(services')
  BY <1>2, <1>3, <1>4, <1>5 DEF Shaped, IsRelease, t
<1>7. ASSUME NEW b \in Bindings, Holds(status[b])
      PROVE  Holds(status[b])'
  <2>1. ~(status[b][k].externalIP \in Balancers)
    BY <1>1, <1>7, CredentialsAssumption DEF Holds
  <2>2. DOMAIN status[b] = DOMAIN services'
    BY <1>2, <1>7 DEF Holds
  <2>3. ASSUME NEW i \in DOMAIN services
        PROVE  /\ status[b][i].name = services'[i].name /\ status[b][i].type = services'[i].type
               /\ status[b][i].ports = services'[i].ports /\ status[b][i].node = services'[i].node
               /\ status[b][i].externalIP \in Balancers => status[b][i].externalIP = services'[i].externalIP
    <3>1. CASE i = k
      BY <1>5, <1>7, <2>1, <3>1 DEF Holds, t
    <3>2. CASE i # k
      BY <1>2, <1>7, <3>2 DEF Holds
    <3> QED
      BY <3>1, <3>2
  <2>4. status'[b] = status[b]
    BY <1>2
  <2> QED
    BY <1>2, <2>2, <2>3, <2>4 DEF Holds
<1> QED
  BY <1>6, <1>7

\* What was answered stays, as long as what the bind read and the environment
\* of the broker stay.
LEMMA RenderedStays ==
  ASSUME NEW b \in Bindings, Rendered(b),
         UNCHANGED <<domain, dns>>, creds'[b] = creds[b], arg'[b] = arg[b],
         \/ pc'[b] = pc[b] /\ status'[b] = status[b] /\ items'[b] = items[b]
         \/ pc[b] # "done" /\ pc'[b] # "done"
  PROVE  Rendered(b)'
<1>1. CASE pc[b] # "done" /\ pc'[b] # "done"
  BY <1>1 DEF Rendered
<1>2. CASE pc'[b] = pc[b] /\ status'[b] = status[b] /\ items'[b] = items[b]
  BY <1>2, Zenon DEF Rendered, extractAddress, extractHAAddress
<1> QED
  BY <1>1, <1>2

\* A bind answers what the functions of the credentials make of what it read.
LEMMA RenderedNow ==
  ASSUME NEW b \in Bindings, pc'[b] = "done",
         UNCHANGED <<domain, dns, status, items, arg>>,
         creds'[b].address = extractAddress(GetNodes(items[b]), status[b]),
         creds'[b].port \in Port(status[b], arg[b]),
         creds'[b].ha \in extractHAAddress(GetNodes(items[b]), status[b])
  PROVE  Rendered(b)'
<1>1. domain' = domain /\ dns' = dns /\ status' = status /\ items' = items /\ arg' = arg
  OBVIOUS
<1> DEFINE ns == GetNodes(items[b])
<1>2. extractAddress(ns, status[b])' = extractAddress(ns, status[b])
  BY <1>1 DEF extractAddress
<1>3. extractHAAddress(ns, status[b])' = extractHAAddress(ns, status[b])
  BY <1>1 DEF extractHAAddress
<1>4. Port(status[b], arg[b])' = Port(status[b], arg[b])
  BY <1>1, Zenon
<1>5. /\ (creds[b].address = extractAddress(ns, status[b]))'
      /\ (creds[b].port \in Port(status[b], arg[b]))'
      /\ (creds[b].ha \in extractHAAddress(ns, status[b]))'
  BY <1>2, <1>3, <1>4, Zenon
<1> QED
  BY <1>5, Zenon DEF Rendered

LEMMA CredentialsStep == IInv /\ [Next]_vars => IInv'
<1> SUFFICES ASSUME IInv, [Next]_vars PROVE IInv'
  OBVIOUS
<1> USE DEF Environment, Reads, IInv
<1>1. ASSUME NEW b \in Bindings, ReadStatus(b)
      PROVE  IInv'
  <2> USE <1>1 DEF ReadStatus, Proceed, clusterVars
  <2>1. Environment'
    OBVIOUS
  <2> DEFINE seen == [i \in DOMAIN services |-> [services[i] EXCEPT !.externalIP = Printed(services[i])]]
  <2>2. Reads'
    <3>1. Shaped(seen) /\ Holds(seen)
      BY StatusRead
    <3>2. DOMAIN status' = Bindings /\ \A c \in Bindings : status'[c] = IF c = b THEN seen ELSE status[c]
      OBVIOUS
    <3> HIDE DEF seen
    <3>3. \A c \in Bindings : Shaped(status'[c])
      BY <3>1, <3>2
    <3>4. \A c \in Bindings : pc'[c] # "status" => Holds(status'[c])
      BY <3>1, <3>2
    <3>5. services' = services /\ items' = items
      OBVIOUS
    <3>6. Shaped(services)' /\ \A c \in Bindings : Shaped(status[c])'
      BY <3>3, <3>5 DEF Shaped
    <3>7. \A c \in Bindings : pc'[c] # "status" => Holds(status[c])'
      BY <3>4, <3>5 DEF Holds
    <3> QED
      BY <3>2, <3>5, <3>6, <3>7
  <2>3. \A c \in Bindings : Rendered(c)'
    <3> SUFFICES ASSUME NEW c \in Bindings PROVE Rendered(c)'
      OBVIOUS
    <3>1. c = b => pc[c] # "done" /\ pc'[c] # "done"
      OBVIOUS
    <3>2. c # b => pc'[c] = pc[c] /\ status'[c] = status[c]
      OBVIOUS
    <3> QED
      BY <3>1, <3>2, RenderedStays
  <2> QED
    BY <2>1, <2>2, <2>3
<1>2. ASSUME NEW b \in Bindings, ReadNodes(b)
      PROVE  IInv'
  <2> USE <1>2 DEF ReadNodes, Proceed, clusterVars
  <2>1. Environment'
    OBVIOUS
  <2>2. Reads'
    BY DEF Shaped, Holds
  <2>3. \A c \in Bindings : Rendered(c)'
    <3> SUFFICES ASSUME NEW c \in Bindings PROVE Rendered(c)'
      OBVIOUS
    <3>1. c = b => pc[c] # "done" /\ pc'[c] # "done"
      OBVIOUS
    <3>2. c # b => pc'[c] = pc[c] /\ items'[c] = items[c]
      OBVIOUS
    <3> QED
      BY <3>1, <3>2, RenderedStays
  <2> QED
    BY <2>1, <2>2, <2>3
<1>3. ASSUME NEW b \in Bindings, UserCredentials(b)
      PROVE  IInv'
  <2> USE <1>3 DEF UserCredentials, Proceed, clusterVars
  <2>1. Environment'
    OBVIOUS
  <2>2. Reads'
    BY DEF Shaped, Holds
  <2>3. \A c \in Bindings : Rendered(c)'
    <3> SUFFICES ASSUME NEW c \in Bindings PROVE Rendered(c)'
      OBVIOUS
    <3>1. CASE c # b
      <4>1. pc'[c] = pc[c] /\ creds'[c] = creds[c]
        BY <3>1
      <4> QED
        BY <4>1, RenderedStays
    <3>2. CASE c = b
      <4> DEFINE ns == GetNodes(items[b])
      <4>1. PICK port \in Port(status[b], arg[b]), ha \in extractHAAddress(ns, status[b]) :
              creds'[b] = [address  |-> extractAddress(ns, status[b]),
                           port     |-> port,
                           ha       |-> ha,
                           hostname |-> FirstGiven(ns, "hostname")]
        OBVIOUS
      <4>2. /\ creds'[b].address = extractAddress(ns, status[b])
            /\ creds'[b].port \in Port(status[b], arg[b])
            /\ creds'[b].ha \in extractHAAddress(ns, status[b])
        BY <4>1
      <4>3. pc'[b] = "done"
        OBVIOUS
      <4>4. UNCHANGED <<domain, dns, status, items, arg>>
        OBVIOUS
      <4> QED
        BY <3>2, <4>2, <4>3, <4>4, RenderedNow
    <3> QED
      BY <3>1, <3>2
  <2> QED
    BY <2>1, <2>2, <2>3
<1>4. CASE Balance
  <2>1. Environment' /\ Reads'
    <3>1. Shaped(services') /\ \A b \in Bindings : Holds(status[b]) => Holds(status[b])'
      BY <1>4, Balanced
    <3> QED
      BY <1>4, <3>1 DEF Balance, Shaped
  <2>2. \A c \in Bindings : Rendered(c)'
    BY <1>4, RenderedStays DEF Balance
  <2> QED
    BY <1>4, <2>1, <2>2 DEF Balance
<1>5. CASE ReplaceNodes
  <2>1. Environment' /\ Reads'
    BY <1>5 DEF ReplaceNodes, Shaped, Holds
  <2>2. \A c \in Bindings : Rendered(c)'
    BY <1>5, RenderedStays DEF ReplaceNodes
  <2> QED
    BY <1>5, <2>1, <2>2 DEF ReplaceNodes
<1>6. CASE Finished \/ UNCHANGED vars
  <2>1. UNCHANGED vars
    BY <1>6 DEF Finished
  <2>2. \A c \in Bindings : Rendered(c)'
    BY <2>1, RenderedStays DEF vars
  <2> QED
    BY <2>1, <2>2 DEF vars, Shaped, Holds
<1> QED
  BY <1>1, <1>2, <1>3, <1>4, <1>5, <1>6 DEF Next

LEMMA CredentialsInvariant == Spec => []IInv
<1> QED
  BY CredentialsInit, CredentialsStep, PTL DEF Spec

-----------------------------------------------------------------------------
(***************************************************************************)
(* The functions of the credentials.                                       *)
(***************************************************************************)
\* What the two maps of a service hold for an argument of Port.
LEMMA MapsOfService ==
  ASSUME NEW s, IsService(s), NEW a
  PROVE  /\ Targets(ClusterPorts(s), a) = {p \in s.ports : a \in {None, p}}
         /\ Targets(NodePorts(s), a) =
              {s.node[p] : p \in {q \in s.ports : s.node[q] # None /\ a \in {None, q}}}
<1>1. \A x : x \in Targets(ClusterPorts(s), a) <=> x \in s.ports /\ a \in {None, x}
  <2> SUFFICES ASSUME NEW x
               PROVE  x \in Targets(ClusterPorts(s), a) <=> x \in s.ports /\ a \in {None, x}
    OBVIOUS
  <2>1. x \in Targets(ClusterPorts(s), a) <=>
          \E q \in ClusterPorts(s) : a \in {None, q[1]} /\ x = q[2]
    BY DEF Targets
  <2>2. \A q : q \in ClusterPorts(s) <=> \E p \in s.ports : q = <<p, p>>
    BY DEF ClusterPorts
  <2>3. ASSUME x \in Targets(ClusterPorts(s), a)
        PROVE  x \in s.ports /\ a \in {None, x}
    <3>1. PICK q \in ClusterPorts(s) : a \in {None, q[1]} /\ x = q[2]
      BY <2>1, <2>3
    <3>2. PICK p \in s.ports : q = <<p, p>>
      BY <2>2, <3>1
    <3>3. q[1] = p /\ q[2] = p
      BY <3>2
    <3> QED
      BY <3>1, <3>3
  <2>4. ASSUME x \in s.ports, a \in {None, x}
        PROVE  x \in Targets(ClusterPorts(s), a)
    <3>1. <<x, x>> \in ClusterPorts(s) /\ <<x, x>>[1] = x /\ <<x, x>>[2] = x
      BY <2>2, <2>4
    <3> QED
      BY <2>1, <2>4, <3>1
  <2> QED
    BY <2>3, <2>4
<1>2. \A x : x \in Targets(NodePorts(s), a) <=>
               \E p \in s.ports : s.node[p] # None /\ a \in {None, p} /\ x = s.node[p]
  <2> SUFFICES ASSUME NEW x
               PROVE  x \in Targets(NodePorts(s), a) <=>
                        \E p \in s.ports : s.node[p] # None /\ a \in {None, p} /\ x = s.node[p]
    OBVIOUS
  <2>1. x \in Targets(NodePorts(s), a) <=>
          \E q \in NodePorts(s) : a \in {None, q[1]} /\ x = q[2]
    BY DEF Targets
  <2>2. \A q : q \in NodePorts(s) <=> \E p \in s.ports : s.node[p] # None /\ q = <<p, s.node[p]>>
    BY DEF NodePorts
  <2>3. ASSUME x \in Targets(NodePorts(s), a)
        PROVE  \E p \in s.ports : s.node[p] # None /\ a \in {None, p} /\ x = s.node[p]
    <3>1. PICK q \in NodePorts(s) : a \in {None, q[1]} /\ x = q[2]
      BY <2>1, <2>3
    <3>2. PICK p \in s.ports : s.node[p] # None /\ q = <<p, s.node[p]>>
      BY <2>2, <3>1
    <3>3. q[1] = p /\ q[2] = s.node[p]
      BY <3>2
    <3> QED
      BY <3>1, <3>2, <3>3
  <2>4. ASSUME NEW p \in s.ports, s.node[p] # None, a \in {None, p}, x = s.node[p]
        PROVE  x \in Targets(NodePorts(s), a)
    <3> DEFINE q == <<p, s.node[p]>>
    <3>1. q \in NodePorts(s) /\ q[1] = p /\ q[2] = s.node[p]
      BY <2>2, <2>4
    <3> HIDE DEF q
    <3> QED
      BY <2>1, <2>4, <3>1
  <2> QED
    BY <2>3, <2>4
<1> QED
  BY <1>1, <1>2

\* The port of a service is one of the ports it has, or the one that was asked
\* for.
LEMMA PortTyped ==
  ASSUME NEW release, IsRelease(release), NEW a \in Nat \cup {None}, NEW port \in Port(release, a)
  PROVE  port \in Nat \cup {None}
<1>1. CASE release = <<>>
  BY <1>1 DEF Port
<1>2. CASE release # <<>>
  <2> DEFINE s == release[1]
  <2>1. IsService(s)
    BY <1>2, SequenceDomain DEF IsRelease
  <2> HIDE DEF s
  <2>2. Targets(ClusterPorts(s), a) \subseteq Nat /\ Targets(NodePorts(s), a) \subseteq Nat \cup {None}
    BY <2>1, MapsOfService DEF IsService
  <2>3. \/ port \in TargetsIn(ClusterPorts(s), NodePorts(s), a)
        \/ port \in TargetsIn(NodePorts(s), ClusterPorts(s), a)
    BY <1>2 DEF Port, s
  <2> QED
    BY <2>2, <2>3 DEF TargetsIn
<1> QED
  BY <1>1, <1>2

\* The last service discovered is one of the release.
LEMMA LastDiscovered ==
  ASSUME NEW release, IsRelease(release), DiscoveredIn(release) # {}
  PROVE  Max(DiscoveredIn(release)) \in DiscoveredIn(release)
<1>1. PICK n \in Nat : DOMAIN release = 1..n
  BY SequenceDomain DEF IsRelease
<1>2. DiscoveredIn(release) \subseteq 1..n
  BY <1>1 DEF DiscoveredIn
<1> QED
  BY <1>1, <1>2, MaxOf

\* The address is one of the cluster, or one of those made of names.
LEMMA AddressTyped ==
  ASSUME NEW list \in NodeLists \cup {<<>>}, NEW release, Shaped(release)
  PROVE  extractAddress(GetNodes(list), release)
           \in NodeAddresses \cup ServiceAddresses \cup {Composed, domain, None}
<1> DEFINE ns == GetNodes(list)
           i == Max(DiscoveredIn(release))
           Found == NodeAddresses \cup ServiceAddresses \cup {Composed, domain, None}
<1>1. CASE domain # None \/ DiscoveredIn(release) = {}
  BY <1>1 DEF extractAddress
<1>2. CASE domain = None /\ DiscoveredIn(release) # {}
  <2>1. i \in DOMAIN release
    BY <1>2, LastDiscovered DEF Shaped, DiscoveredIn
  <2>2. /\ release[i].type \in Types
        /\ release[i].externalIP \in ServiceAddresses
    BY <2>1 DEF Shaped, IsRelease, IsService
  <2>3. /\ FirstGiven(ns, "external") \in NodeAddresses \cup {None}
        /\ FirstGiven(ns, "internal") \in NodeAddresses \cup {None}
    BY FoundOnNodes
  <2> HIDE DEF ns, i
  <2>4. extractAddress(ns, release) =
          CASE release[i].type = "ClusterIP"    -> IF dns THEN Composed ELSE None
            [] release[i].type = "NodePort"     -> IF FirstGiven(ns, "external") # None
                                                   THEN FirstGiven(ns, "external")
                                                   ELSE FirstGiven(ns, "internal")
            [] release[i].type = "LoadBalancer" -> release[i].externalIP
            [] release[i].type = "ExternalName" -> None
    BY <1>2 DEF extractAddress, i
  <2>5. extractAddress(ns, release) \in Found
    BY <2>2, <2>3, <2>4 DEF Types
  <2> QED
    BY <2>5 DEF ns
<1> QED
  BY <1>1, <1>2

\* Every state of the binds is well typed: an address is one of the nodes, of
\* the services, or made of names, a port is a number.
THEOREM CredentialsTypes == Spec => []TypeOK
<1>1. IInv => TypeOK
  <2> SUFFICES ASSUME IInv PROVE TypeOK
    OBVIOUS
  <2>1. \A i \in DOMAIN services : services[i].type \in Types
    BY DEF IInv, Reads, Shaped, IsRelease, IsService
  <2>2. ASSUME NEW b \in Bindings
        PROVE  /\ creds[b].address \in NodeAddresses \cup ServiceAddresses \cup {Composed, domain, None}
               /\ creds[b].port \in Nat \cup {None}
    <3>1. Rendered(b) /\ Shaped(status[b]) /\ items[b] \in NodeLists \cup {<<>>}
      BY DEF IInv, Reads
    <3>2. arg[b] \in Nat \cup {None}
      BY CredentialsAssumption DEF IInv, Environment
    <3>3. CASE pc[b] = "done"
      <4>1. /\ creds[b].address = extractAddress(GetNodes(items[b]), status[b])
            /\ creds[b].port \in Port(status[b], arg[b])
        BY <3>1, <3>3 DEF Rendered
      <4>2. extractAddress(GetNodes(items[b]), status[b])
              \in NodeAddresses \cup ServiceAddresses \cup {Composed, domain, None}
        BY <3>1, AddressTyped
      <4>3. creds[b].port \in Nat \cup {None}
        BY <3>1, <3>2, <4>1, PortTyped DEF Shaped
      <4> QED
        BY <4>1, <4>2, <4>3
    <3>4. CASE pc[b] # "done"
      BY <3>1, <3>4 DEF Rendered, NoCredentials
    <3> QED
      BY <3>3, <3>4
  <2> QED
    BY <2>1, <2>2 DEF IInv, Environment, Reads, TypeOK
<1> QED
  BY <1>1, CredentialsInvariant, PTL

-----------------------------------------------------------------------------
(***************************************************************************)
(* Endpoints.                                                              *)
(***************************************************************************)
\* Where a node has an address, both searches find one.
LEMMA NodeFound ==
  ASSUME NEW ns, NEW n \in Nat, DOMAIN ns = 1..n, HasAddress(ns)
  PROVE  /\ (IF FirstGiven(ns, "external") # None THEN FirstGiven(ns, "external")
             ELSE FirstGiven(ns, "internal")) \in AddressesIn(ns)
         /\ (IF LastGiven(ns, "internal") # None THEN LastGiven(ns, "internal")
             ELSE LastGiven(ns, "external")) \in AddressesIn(ns)
<1>1. Given(ns, "internal") # {} \/ Given(ns, "external") # {}
  BY DEF HasAddress, Given
<1>2. \A field \in {"internal", "external"} : \A i \in DOMAIN ns :
        ns[i][field] # None => ns[i][field] \in AddressesIn(ns)
  <2>1. ASSUME NEW i \in DOMAIN ns, NEW x \in {ns[i].internal, ns[i].external}, x # None
        PROVE  x \in AddressesIn(ns)
    BY <2>1 DEF AddressesIn
  <2>2. \A i \in DOMAIN ns : /\ ns[i]["internal"] \in {ns[i].internal, ns[i].external}
                            /\ ns[i]["external"] \in {ns[i].internal, ns[i].external}
    OBVIOUS
  <2> QED
    BY <2>1, <2>2
<1>3. ASSUME NEW field \in {"internal", "external"}
      PROVE  /\ Given(ns, field) # {} <=> FirstGiven(ns, field) # None
             /\ FirstGiven(ns, field) # None => FirstGiven(ns, field) \in AddressesIn(ns)
  BY <1>2, FirstOfNodes
<1>4. ASSUME NEW field \in {"internal", "external"}
      PROVE  /\ Given(ns, field) # {} <=> LastGiven(ns, field) # None
             /\ LastGiven(ns, field) # None => LastGiven(ns, field) \in AddressesIn(ns)
  BY <1>2, LastOfNodes
<1> QED
  BY <1>1, <1>3, <1>4

\* Where a service is reached on a port of it: the port itself, or its node port.
Served(s, p) == IF s.type = "NodePort" THEN s.node[p] ELSE p

\* Port answers with the port asked for, or any, as it is served.
LEMMA PortServed ==
  ASSUME NEW release, IsRelease(release), release # <<>>, release[1].type # "ExternalName",
         NEW a \in release[1].ports \cup {None}, release[1].ports # {},
         NEW port \in Port(release, a)
  PROVE  \E p \in release[1].ports : a \in {None, p} /\ port = Served(release[1], p)
<1> DEFINE s == release[1]
<1>1. IsService(s)
  BY SequenceDomain DEF IsRelease
<1>2. /\ s.type = "LoadBalancer" => port \in TargetsIn(ClusterPorts(s), NodePorts(s), a)
      /\ s.type # "LoadBalancer" => port \in TargetsIn(NodePorts(s), ClusterPorts(s), a)
  BY DEF Port
<1>3. a \in s.ports \cup {None} /\ s.ports # {} /\ s.type # "ExternalName"
  OBVIOUS
<1> HIDE DEF s
<1> DEFINE Cluster == Targets(ClusterPorts(s), a)
           Node == Targets(NodePorts(s), a)
<1>4. /\ Cluster = {p \in s.ports : a \in {None, p}}
      /\ Node = {s.node[p] : p \in {q \in s.ports : s.node[q] # None /\ a \in {None, q}}}
  BY <1>1, MapsOfService
<1>5. PICK q \in s.ports : a \in {None, q}
  BY <1>3
<1>6. s.type \in {"ClusterIP", "NodePort", "LoadBalancer"}
  BY <1>1, <1>3 DEF IsService, Types
<1>7. CASE s.type = "LoadBalancer"
  <2>1. q \in Cluster
    BY <1>4, <1>5
  <2>2. port \in Cluster
    BY <1>2, <1>7, <2>1 DEF TargetsIn
  <2> QED
    BY <1>4, <1>7, <2>2 DEF Served, s
<1>8. CASE s.type = "ClusterIP"
  <2>1. Node = {}
    BY <1>1, <1>4, <1>8 DEF IsService
  <2>2. q \in Cluster
    BY <1>4, <1>5
  <2>3. port \in Cluster
    BY <1>2, <1>8, <2>1, <2>2 DEF TargetsIn
  <2> QED
    BY <1>4, <1>8, <2>3 DEF Served, s
<1>9. CASE s.type = "NodePort"
  <2>1. \A p \in s.ports : s.node[p] # None
    BY <1>1, <1>9 DEF IsService
  <2>2. s.node[q] \in Node
    BY <1>4, <1>5, <2>1
  <2>3. port \in Node
    BY <1>2, <1>9, <2>2 DEF TargetsIn
  <2> QED
    BY <1>4, <1>9, <2>3 DEF Served, s
<1> QED
  BY <1>6, <1>7, <1>8, <1>9

\* The address of a release whose first service is the discovered one is where
\* that service is reached.
LEMMA AddressServed ==
  ASSUME NEW ns, NEW n \in Nat, DOMAIN ns = 1..n, HasAddress(ns), domain = None,
         NEW release, IsRelease(release), FirstDiscovered(release),
         release[1].type # "ExternalName", release[1].type = "ClusterIP" => dns,
         NEW p \in release[1].ports
  PROVE  <<extractAddress(ns, release), Served(release[1], p)>> \in Endpoints(release[1], ns, p)
<1> DEFINE s == release[1]
           ip == IF FirstGiven(ns, "external") # None THEN FirstGiven(ns, "external")
                 ELSE FirstGiven(ns, "internal")
<1>1. Max(DiscoveredIn(release)) = 1
  BY LastDiscovered DEF FirstDiscovered
<1>2. s.type \in {"ClusterIP", "NodePort", "LoadBalancer"} /\ s.name = Composed
  BY SequenceDomain DEF FirstDiscovered, IsRelease, IsService, Types
<1>3. /\ s.type = "ClusterIP" => extractAddress(ns, release) = Composed
      /\ s.type = "NodePort" => extractAddress(ns, release) = ip
      /\ s.type = "LoadBalancer" => extractAddress(ns, release) = s.externalIP
  BY <1>1 DEF extractAddress, FirstDiscovered
<1>4. ip \in AddressesIn(ns)
  BY NodeFound
<1> HIDE DEF ip, s
<1>5. CASE s.type = "ClusterIP"
  BY <1>2, <1>3, <1>5 DEF Served, Endpoints, s
<1>6. CASE s.type = "NodePort"
  <2>1. Endpoints(s, ns, p) = {<<x, s.node[p]>> : x \in AddressesIn(ns)}
    BY <1>6, Zenon DEF Endpoints, AddressesIn
  <2>2. <<ip, s.node[p]>> \in Endpoints(s, ns, p)
    BY <1>4, <2>1
  <2>3. extractAddress(ns, release) = ip /\ Served(s, p) = s.node[p]
    BY <1>3, <1>6 DEF Served
  <2> QED
    BY <2>2, <2>3 DEF s
<1>7. CASE s.type = "LoadBalancer"
  BY <1>3, <1>7 DEF Served, Endpoints, s
<1> QED
  BY <1>2, <1>5, <1>6, <1>7

\* On every port a service is reached somewhere, as Port answers it.
LEMMA EndpointOf ==
  ASSUME NEW ns, NEW n \in Nat, DOMAIN ns = 1..n, HasAddress(ns),
         NEW s, s.type \in Types, s.type # "ExternalName", NEW p
  PROVE  \E end \in Endpoints(s, ns, p) : end[2] = Served(s, p)
<1>1. PICK ip \in AddressesIn(ns) : TRUE
  BY NodeFound
<1>2. CASE s.type = "NodePort"
  <2>1. Endpoints(s, ns, p) = {<<x, s.node[p]>> : x \in AddressesIn(ns)}
    BY <1>2 DEF Endpoints
  <2>2. <<ip, s.node[p]>> \in Endpoints(s, ns, p) /\ <<ip, s.node[p]>>[2] = Served(s, p)
    BY <1>1, <1>2, <2>1 DEF Served
  <2> QED
    BY <2>2
<1>3. CASE s.type = "ClusterIP"
  <2>1. <<s.name, p>> \in Endpoints(s, ns, p) /\ <<s.name, p>>[2] = Served(s, p)
    BY <1>3 DEF Endpoints, Served
  <2> QED
    BY <2>1
<1>4. CASE s.type = "LoadBalancer"
  <2>1. <<s.externalIP, p>> \in Endpoints(s, ns, p) /\ <<s.externalIP, p>>[2] = Served(s, p)
    BY <1>4 DEF Endpoints, Served
  <2> QED
    BY <2>1
<1> QED
  BY <1>2, <1>3, <1>4 DEF Types

\* An entry of the high-availability address is an endpoint of its service, if
\* that has a port.
LEMMA HaEndpoint ==
  ASSUME NEW ns, NEW n \in Nat, DOMAIN ns = 1..n, HasAddress(ns),
         NEW s, IsService(s), s.type # "ExternalName", s.ports # {},
         NEW entry \in HaEndpoints(ns, s)
  PROVE  \E p \in s.ports : entry \in Endpoints(s, ns, p)
<1> DEFINE ip == IF LastGiven(ns, "internal") # None THEN LastGiven(ns, "internal")
                 ELSE LastGiven(ns, "external")
<1>1. s.type \in {"ClusterIP", "NodePort", "LoadBalancer"}
  BY DEF IsService, Types
<1>2. ip \in AddressesIn(ns)
  BY NodeFound
<1>3. PICK p \in s.ports : TRUE
  OBVIOUS
<1>4. ASSUME s.type # "NodePort"
      PROVE  \A port \in LastOf(ClusterPorts(s)) : port \in s.ports
  <2>1. <<p, p>> \in ClusterPorts(s)
    BY DEF ClusterPorts
  <2>2. LastOf(ClusterPorts(s)) = {q[2] : q \in ClusterPorts(s)}
    BY <2>1 DEF LastOf
  <2>3. \A q \in ClusterPorts(s) : q[2] \in s.ports
    BY DEF ClusterPorts
  <2> QED
    BY <2>2, <2>3
<1>5. ASSUME s.type = "NodePort", NEW port \in LastOf(NodePorts(s))
      PROVE  \E q \in s.ports : port = s.node[q]
  <2>1. s.node[p] # None
    BY <1>5 DEF IsService
  <2>2. <<p, s.node[p]>> \in NodePorts(s)
    BY <2>1 DEF NodePorts
  <2>3. LastOf(NodePorts(s)) = {q[2] : q \in NodePorts(s)}
    BY <2>2 DEF LastOf
  <2>4. PICK q \in NodePorts(s) : port = q[2]
    BY <2>3
  <2>5. PICK x \in s.ports : q = <<x, s.node[x]>>
    BY DEF NodePorts
  <2> QED
    BY <2>4, <2>5
<1>6. CASE s.type = "ClusterIP"
  <2>1. PICK port \in LastOf(ClusterPorts(s)) : entry = <<s.name, port>>
    BY <1>6 DEF HaEndpoints
  <2> QED
    BY <1>4, <1>6, <2>1 DEF Endpoints
<1>7. CASE s.type = "LoadBalancer"
  <2>1. PICK port \in LastOf(ClusterPorts(s)) : entry = <<s.externalIP, port>>
    BY <1>7 DEF HaEndpoints
  <2> QED
    BY <1>4, <1>7, <2>1 DEF Endpoints
<1>8. CASE s.type = "NodePort"
  <2>1. PICK port \in LastOf(NodePorts(s)) : entry = <<ip, port>>
    BY <1>8 DEF HaEndpoints
  <2>2. PICK q \in s.ports : port = s.node[q]
    BY <1>5, <1>8
  <2> HIDE DEF ip
  <2>3. entry \in Endpoints(s, ns, q)
    BY <1>2, <1>8, <2>1, <2>2 DEF Endpoints
  <2> QED
    BY <2>3
<1> QED
  BY <1>1, <1>6, <1>7, <1>8

\* For a port that is named, or the only one, Port has one answer.
LEMMA PortAgreed ==
  ASSUME NEW release, IsRelease(release), NEW a,
         a # None \/ \A i \in DOMAIN release : \A p, q \in release[i].ports : p = q,
         NEW x \in Port(release, a), NEW y \in Port(release, a)
  PROVE  x = y
<1>1. CASE release = <<>>
  BY <1>1 DEF Port
<1>2. CASE release # <<>>
  <2> DEFINE s == release[1]
  <2>1. IsService(s) /\ (a # None \/ \A p, q \in s.ports : p = q)
    BY <1>2, SequenceDomain DEF IsRelease
  <2> HIDE DEF s
  <2>2. ASSUME NEW u \in Targets(ClusterPorts(s), a), NEW v \in Targets(ClusterPorts(s), a)
        PROVE  u = v
    BY <2>1, MapsOfService
  <2>3. ASSUME NEW u \in Targets(NodePorts(s), a), NEW v \in Targets(NodePorts(s), a)
        PROVE  u = v
    <3>1. PICK p \in s.ports : a \in {None, p} /\ u = s.node[p]
      BY <2>1, MapsOfService
    <3>2. PICK q \in s.ports : a \in {None, q} /\ v = s.node[q]
      BY <2>1, MapsOfService
    <3> QED
      BY <2>1, <3>1, <3>2
  <2>4. \/ x \in TargetsIn(ClusterPorts(s), NodePorts(s), a) /\ y \in TargetsIn(ClusterPorts(s), NodePorts(s), a)
        \/ x \in TargetsIn(NodePorts(s), ClusterPorts(s), a) /\ y \in TargetsIn(NodePorts(s), ClusterPorts(s), a)
    BY <1>2 DEF Port, s
  <2> QED
    BY <2>2, <2>3, <2>4 DEF TargetsIn
<1> QED
  BY <1>1, <1>2

-----------------------------------------------------------------------------
(***************************************************************************)
(* The properties.                                                         *)
(***************************************************************************)
\* What the invariant says of a bind that has answered.
LEMMA Answered ==
  ASSUME IInv, NEW b \in Bindings, Done(b)
  PROVE  /\ IsRelease(status[b]) /\ Holds(status[b])
         /\ creds[b].address = extractAddress(GetNodes(items[b]), status[b])
         /\ creds[b].port \in Port(status[b], arg[b])
         /\ creds[b].ha \in extractHAAddress(GetNodes(items[b]), status[b])
         /\ \E n \in Nat : DOMAIN GetNodes(items[b]) = 1..n
<1>1. pc[b] = "done"
  BY DEF Done
<1>2. /\ Rendered(b) /\ Shaped(status[b]) /\ Holds(status[b])
      /\ items[b] \in NodeLists \cup {<<>>}
  BY <1>1 DEF IInv, Reads
<1> QED
  BY <1>1, <1>2, NodesRead, Zenon DEF Rendered, Shaped

\* What a bind needs to know of the services it still finds in a status that
\* holds; the endpoints of a service, if the status has its address whole.
LEMMA StillServed ==
  ASSUME NEW release, IsRelease(release), Holds(release)
  PROVE  /\ FirstDiscovered(services) => FirstDiscovered(release)
         /\ HaServices(release) = HaServices(services)
         /\ NeedsDns(release) <=> NeedsDns(services)
         /\ \A i \in DOMAIN services :
              /\ IsService(release[i])
              /\ \A ns, p : Legible(release[i]) =>
                   Endpoints(release[i], ns, p) = Endpoints(services[i], ns, p)
<1>1. FirstDiscovered(services) => FirstDiscovered(release)
  <2> SUFFICES ASSUME FirstDiscovered(services) PROVE FirstDiscovered(release)
    OBVIOUS
  <2>1. DiscoveredIn(release) = DiscoveredIn(services)
    BY DEF Holds, DiscoveredIn
  <2>2. 1 \in DOMAIN services /\ DiscoveredIn(release) = {1}
    BY <2>1 DEF FirstDiscovered, DiscoveredIn
  <2>3. release[1].name = Composed
    BY <2>2 DEF Holds, FirstDiscovered
  <2>4. release # <<>>
    BY <2>2 DEF Holds
  <2> QED
    BY <2>2, <2>3, <2>4 DEF FirstDiscovered
<1>2. HaServices(release) = HaServices(services)
  BY DEF Holds, HaServices
<1>3. NeedsDns(release) <=> NeedsDns(services)
  BY DEF Holds, NeedsDns
<1>4. ASSUME NEW i \in DOMAIN services, NEW ns, NEW p, Legible(release[i])
      PROVE  Endpoints(release[i], ns, p) = Endpoints(services[i], ns, p)
  <2>1. /\ release[i].name = services[i].name /\ release[i].type = services[i].type
        /\ release[i].node = services[i].node
    BY DEF Holds
  <2>2. release[i].type = "LoadBalancer" => release[i].externalIP = services[i].externalIP
    BY <1>4 DEF Holds, Legible
  <2> QED
    BY <2>1, <2>2 DEF Endpoints
<1>5. \A i \in DOMAIN services : IsService(release[i])
  BY DEF Holds, IsRelease
<1> QED
  BY <1>1, <1>2, <1>3, <1>4, <1>5

\* Address and port of a binding are one endpoint that the discovered service has
\* in the cluster, on the port the template asks for, unless its status had the
\* address of a load balancer not yet, or not whole.
THEOREM EndpointsServed == Spec => []EndpointServed
<1>1. IInv => EndpointServed
  <2> SUFFICES ASSUME IInv,
                      NEW b \in Bindings,
                      NEW ns, ns = GetNodes(items[b]),
                      NEW s, s = services[1],
                      NEW seen, seen = status[b][1],
                      Done(b), FirstDiscovered(services), HasAddress(ns),
                      s.type # "ExternalName", s.type = "ClusterIP" => dns, Legible(seen),
                      arg[b] \in s.ports \cup {None}, s.ports # {}
               PROVE  \E p \in s.ports : \E end \in Endpoints(s, ns, p) :
                        /\ arg[b] \in {None, p}
                        /\ creds[b].port = end[2]
                        /\ creds[b].address = IF domain = None THEN end[1] ELSE domain
    BY DEF EndpointServed
  <2>1. /\ IsRelease(status[b]) /\ Holds(status[b])
        /\ creds[b].address = extractAddress(ns, status[b])
        /\ creds[b].port \in Port(status[b], arg[b])
    BY Answered
  <2>2. PICK n \in Nat : DOMAIN ns = 1..n
    BY Answered
  <2>3. FirstDiscovered(status[b]) /\ status[b] # <<>>
    BY <2>1, StillServed DEF FirstDiscovered
  <2>s. 1 \in DOMAIN services
    BY DEF FirstDiscovered, DiscoveredIn
  <2>t. /\ seen.type = s.type /\ seen.ports = s.ports
        /\ \A p : Endpoints(seen, ns, p) = Endpoints(s, ns, p)
    BY <2>1, <2>s, StillServed DEF Holds
  <2>4. PICK p \in seen.ports : arg[b] \in {None, p} /\ creds[b].port = Served(seen, p)
    BY <2>1, <2>3, <2>t, PortServed
  <2>5. CASE domain = None
    <3> DEFINE end == <<extractAddress(ns, status[b]), Served(seen, p)>>
    <3>1. end \in Endpoints(seen, ns, p)
      BY <2>1, <2>2, <2>3, <2>5, <2>t, AddressServed
    <3>2. end[1] = creds[b].address /\ end[2] = creds[b].port
      BY <2>1, <2>4
    <3> HIDE DEF end
    <3> QED
      BY <2>4, <2>5, <2>t, <3>1, <3>2
  <2>6. CASE domain # None
    <3>1. creds[b].address = domain
      BY <2>1, <2>6 DEF extractAddress
    <3>2. seen.type \in Types
      BY <2>1, <2>3, SequenceDomain DEF IsRelease, IsService
    <3>3. PICK end \in Endpoints(seen, ns, p) : end[2] = Served(seen, p)
      BY <2>2, <2>t, <3>2, EndpointOf
    <3> QED
      BY <2>4, <2>6, <2>t, <3>1, <3>3
  <2> QED
    BY <2>5, <2>6
<1> QED
  BY <1>1, CredentialsInvariant, PTL

\* Without a DOMAIN the high-availability address has one endpoint that is in
\* the cluster of every service whose address the status had whole.
THEOREM HaCompleted == Spec => []HaComplete
<1>1. IInv => HaComplete
  <2> SUFFICES ASSUME IInv,
                      NEW b \in Bindings,
                      NEW ns, ns = GetNodes(items[b]),
                      NEW those, those = HaServices(services),
                      Done(b), HasAddress(ns), NeedsDns(services) => dns
               PROVE  /\ DOMAIN creds[b].ha = those
                      /\ \A i \in those : services[i].ports # {} /\ Legible(status[b][i]) =>
                           \E p \in services[i].ports :
                             creds[b].ha[i] \in Endpoints(services[i], ns, p)
    BY DEF HaComplete
  <2>1. IsRelease(status[b]) /\ Holds(status[b]) /\ creds[b].ha \in extractHAAddress(ns, status[b])
    BY Answered
  <2>2. PICK n \in Nat : DOMAIN ns = 1..n
    BY Answered
  <2>3. /\ DOMAIN creds[b].ha = those
        /\ \A i \in those : creds[b].ha[i] \in HaEndpoints(ns, status[b][i])
    <3>1. those = HaServices(status[b]) /\ (NeedsDns(status[b]) => dns)
      BY <2>1, StillServed
    <3> QED
      BY <2>1, <3>1, Zenon DEF extractHAAddress
  <2>4. ASSUME NEW i \in those, services[i].ports # {}, Legible(status[b][i])
        PROVE  \E p \in services[i].ports : creds[b].ha[i] \in Endpoints(services[i], ns, p)
    <3>1. i \in DOMAIN services /\ services[i].type # "ExternalName"
      BY DEF HaServices
    <3>2. /\ IsService(status[b][i]) /\ status[b][i].type # "ExternalName"
          /\ status[b][i].ports = services[i].ports
          /\ \A p : Endpoints(status[b][i], ns, p) = Endpoints(services[i], ns, p)
      BY <2>1, <2>4, <3>1, StillServed DEF Holds
    <3>3. PICK p \in status[b][i].ports : creds[b].ha[i] \in Endpoints(status[b][i], ns, p)
      BY <2>2, <2>3, <2>4, <3>2, HaEndpoint
    <3> QED
      BY <3>2, <3>3
  <2> QED
    BY <2>3, <2>4
<1> QED
  BY <1>1, CredentialsInvariant, PTL

\* Two bindings that read the same agree, when the template names the port or
\* there is one only.
THEOREM BindingsAgreed == Spec => []BindingsAgree
<1>1. IInv => BindingsAgree
  <2> SUFFICES ASSUME IInv, NEW b \in Bindings, NEW c \in Bindings, Done(b), Done(c),
                      status[b] = status[c], items[b] = items[c], arg[b] = arg[c],
                      \/ arg[b] # None
                      \/ \A i \in DOMAIN status[b] : \A p, q \in status[b][i].ports : p = q
               PROVE  creds[b].address = creds[c].address /\ creds[b].port = creds[c].port
    BY DEF BindingsAgree
  <2>1. creds[b].address = creds[c].address
    BY Answered
  <2>2. /\ IsRelease(status[b])
        /\ creds[b].port \in Port(status[b], arg[b]) /\ creds[c].port \in Port(status[b], arg[b])
    BY Answered
  <2>3. creds[b].port = creds[c].port
    BY <2>2, PortAgreed
  <2> QED
    BY <2>1, <2>3
<1> QED
  BY <1>1, CredentialsInvariant, PTL
=============================================================================
