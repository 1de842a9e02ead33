--------------------------- MODULE ReleaseStatus ---------------------------
(***************************************************************************)
(* How the broker learns whether a release runs, and where: Tiller prints  *)
(* the resources of the release as tables (kube.Client.Get), helmi aligns  *)
(* their columns (formatResources) and reads them back, line by line, into *)
(* a Status (convertByteToStatus).                                         *)
(*                                                                         *)
(* Columns are aligned, so an offset in a line is the number of a cell.    *)
(* An empty cell leaves only spaces, which formatResources takes for one   *)
(* separator: the cells behind it move one column to the left.             *)
(***************************************************************************)
EXTENDS Integers, Sequences, FiniteSetsExt

CONSTANTS Releases, \* the resources a release may have: sequences of groups, in
                    \* the order in which Tiller happens to print them
          Cut       \* the addresses that are wider than loadBalancerWidth, and what
                    \* the printer makes of each: its start and "..."

\* A group has the objects of one API version and kind; "Other" is any kind
\* whose table has none of the columns helmi looks for, and the list of missing
\* objects.  (Of those columns, a daemon set's table has what a deployment's
\* has, a replica set's what a stateful set's has.)
Kinds == {"Deployment", "StatefulSet", "Job", "Service", "Ingress", "Other"}

Workloads == {"Deployment", "StatefulSet"}

IsSequence(s) == s \in Seq({s[i] : i \in DOMAIN s})

\* Replicas that are available are there.
IsWorkload(o) ==
  /\ o.desired \in Nat /\ o.current \in Nat /\ o.available \in Nat
  /\ o.available <= o.current

IsService(o) ==
  /\ IsSequence(o.ports)
  /\ \A j \in DOMAIN o.ports : o.ports[j].port \in Nat /\ o.ports[j].node \in Nat

IsGroup(g) ==
  /\ g.kind \in Kinds
  /\ IsSequence(g.objects) /\ g.objects # <<>>
  /\ \A j \in DOMAIN g.objects :
       /\ g.kind \in Workloads => IsWorkload(g.objects[j])
       /\ g.kind = "Service" => IsService(g.objects[j])

ASSUME ReleasesAssumption ==
  \A release \in Releases :
    IsSequence(release) /\ \A i \in DOMAIN release : IsGroup(release[i])

-----------------------------------------------------------------------------
(***************************************************************************)
(* What Tiller prints.                                                     *)
(***************************************************************************)
Columns ==
  [Deployment  |-> <<"NAME", "DESIRED", "CURRENT", "UP-TO-DATE", "AVAILABLE", "AGE">>,
   StatefulSet |-> <<"NAME", "DESIRED", "CURRENT", "AGE">>,
   Job         |-> <<"NAME", "DESIRED", "SUCCESSFUL", "AGE">>,
   Service     |-> <<"NAME", "TYPE", "CLUSTER-IP", "EXTERNAL-IP", "PORT(S)", "AGE">>,
   Ingress     |-> <<"NAME", "HOSTS", "ADDRESS", "PORTS", "AGE">>,
   Other       |-> <<"NAME", "DATA", "AGE">>]

Num(n) == [kind |-> "num", val |-> n]
Text(s) == [kind |-> "text", val |-> s]
Ports(ps) == [kind |-> "ports", val |-> ps]

\* The EXTERNAL-IP of a service: a load balancer has an address once the cloud
\* gave it one, and Tiller does not ask for the wide table that would print it
\* whole; an external name is printed as it is.  (spec.externalIPs is left out.)
ExternalIP(o) ==
  CASE o.type = "ExternalName" -> o.address
    [] o.type = "LoadBalancer" /\ o.address = "" -> "<pending>"
    [] o.type = "LoadBalancer" /\ o.address \in DOMAIN Cut -> Cut[o.address]
    [] o.type = "LoadBalancer" /\ o.address \notin DOMAIN Cut \cup {""} -> o.address
    [] OTHER -> "<none>"

\* An ingress prints up to three hosts, "80" or "80, 443", and an address that is
\* empty until it has one.
Cells(kind, o) ==
  CASE kind = "Deployment" ->
         <<Text("name"), Num(o.desired), Num(o.current), Num(o.current), Num(o.available), Text("1m")>>
    [] kind = "StatefulSet" -> <<Text("name"), Num(o.desired), Num(o.current), Text("1m")>>
    [] kind = "Job" -> <<Text("name"), Num(1), Num(0), Text("1m")>>
    [] kind = "Service" ->
         <<Text("name"), Text(o.type), Text("ip"), Text(ExternalIP(o)), Ports(o.ports), Text("1m")>>
    [] kind = "Ingress" ->
         IF o.address = "" THEN <<Text("name"), Text(o.host), Num(80), Text("1m")>>
         ELSE <<Text("name"), Text(o.host), Text(o.address), Num(80), Text("1m")>>
    [] kind = "Other" -> <<Text("name"), Num(1), Text("1m")>>

Line(labels, cells) == [labels |-> labels, cells |-> cells]

BlankLine == Line(<<>>, <<>>)

\* The printer prints a header when the kind is not that of the object before,
\* in whatever group that was.
HasHeader(release, i) == i = 1 \/ release[i - 1].kind # release[i].kind

\* The lines of a group by row: -1 is the title, 0 the header, then every
\* object has a row, and behind them is a blank line.
LineAt(release, i, j) ==
  CASE j = -1 -> Line(<<>>, <<Text("==>")>>)
    [] j = 0  -> Line(Columns[release[i].kind], <<>>)
    [] j \in DOMAIN release[i].objects -> Line(<<>>, Cells(release[i].kind, release[i].objects[j]))
    [] OTHER -> BlankLine

RowAfter(release, i, j) == IF j = -1 /\ ~HasHeader(release, i) THEN 1 ELSE j + 1

-----------------------------------------------------------------------------
VARIABLES release,  \* the resources
          group,    \* the group and the row of the line the scanner reads next
          row,
          col,      \* column of a label, 0 when not known
          status,   \* the Status so far
          outcome   \* "scanning", "done" or "panic"

vars == <<release, group, row, col, status, outcome>>

\* Helm's status of the release, as far as the switch tells them apart.
Codes == {"DEPLOYED", "FAILED", "DELETED", "DELETING", "PENDING_INSTALL"}

\* The tables helmi looks for, by the columns in which it recognises them.
Table ==
  [replicas  |-> {"DESIRED", "CURRENT"},
   ingresses |-> {"NAME", "HOSTS", "ADDRESS", "PORTS", "AGE"},
   services  |-> {"NAME", "TYPE", "CLUSTER-IP", "EXTERNAL-IP", "PORT(S)", "AGE"}]

Tables == {"replicas", "ingresses", "services"}

Labels == Table.replicas \cup Table.ingresses \cup Table.services \cup {"AVAILABLE"}

NoColumns == [l \in Labels |-> 0]

InitStatus == [desired |-> 0, available |-> 0, services |-> <<>>, ingresses |-> <<>>,
               flags |-> {}]

TypeOK ==
  /\ release \in Releases
  /\ group \in 1..Len(release) + 1 /\ row \in Int
  /\ col \in [Labels -> 0..6]
  /\ status.desired \in Nat /\ status.available \in Nat
  /\ \A i \in DOMAIN status.ingresses : status.ingresses[i].port \in Nat
  /\ status.flags \subseteq {"failed", "deployed", "deleted", "deleting"}
  /\ outcome \in {"scanning", "done", "panic"}

Init ==
  /\ release \in Releases
  /\ group = 1 /\ row = -1
  /\ col = NoColumns /\ status = InitStatus /\ outcome = "scanning"

LabelsOf(line) == {line.labels[i] : i \in DOMAIN line.labels}

ColumnOf(line, l) == CHOOSE i \in DOMAIN line.labels : line.labels[i] = l

Heads(line, t) == Table[t] \subseteq LabelsOf(line)

\* A line that is not the header of a table whose columns are known is taken
\* for a row of it.
IsRow(line, t) == ~Heads(line, t) /\ \A l \in Table[t] : col[l] > 0

\* The AVAILABLE column is optional.
Learns(t) == IF t = "replicas" THEN Table[t] \cup {"AVAILABLE"} ELSE Table[t]

Learned(line) ==
  [l \in Labels |->
     IF l \in LabelsOf(line) /\ \E t \in Tables : Heads(line, t) /\ l \in Learns(t)
     THEN ColumnOf(line, l) ELSE col[l]]

\* The cells of a row that are read; a service is cut out of its line up to AGE.
Reads(t) == IF t = "ingresses" THEN {"NAME", "HOSTS", "ADDRESS"} ELSE Learns(t)

\* Reading behind the end of a line panics.
Short(line) == \E t \in Tables : IsRow(line, t) /\ \E l \in Reads(t) : col[l] > Len(line.cells)

Cell(line, l) == line.cells[col[l]]

\* Mutant of Atoi: -1 for what is not a number.
AtoiMinus(cell) == IF cell.kind = "num" THEN cell.val ELSE -1

\* strconv.Atoi; what is not a number leaves the 0 that was there.
Atoi(cell) == IF cell.kind = "num" THEN cell.val ELSE 0

\* Mutant of AvailableIn: the replicas there are, available or not.
CurrentIn(line) == Atoi(Cell(line, "CURRENT"))

AvailableIn(line) == Atoi(Cell(line, IF col["AVAILABLE"] > 0 THEN "AVAILABLE" ELSE "CURRENT"))

\* "80/TCP" is a port, "80:30080/TCP" a port and the node port it maps to.
Exposed(ps) == {i \in DOMAIN ps : ps[i].node > 0}

ClusterPortsIn(ps) == {ps[i].port : i \in DOMAIN ps}

\* Mutant of NodePortsIn: node port and port of a pair swapped.
NodePortsSwapped(ps) ==
  [n \in {ps[i].node : i \in Exposed(ps)} |-> ps[Max({i \in Exposed(ps) : ps[i].node = n})].port]

\* Of several node ports of a port the last one stays.
NodePortsIn(ps) ==
  [p \in {ps[i].port : i \in Exposed(ps)} |-> ps[Max({i \in Exposed(ps) : ps[i].port = p})].node]

ServiceIn(line) ==
  [type |-> Cell(line, "TYPE").val, externalIP |-> Cell(line, "EXTERNAL-IP").val,
   clusterPorts |-> ClusterPortsIn(Cell(line, "PORT(S)").val),
   nodePorts |-> NodePortsIn(Cell(line, "PORT(S)").val)]

\* Mutant of IngressIn: the port is read under PORTS.
IngressInPorts(line) ==
  [host |-> Cell(line, "HOSTS").val, port |-> Atoi(Cell(line, "PORTS"))]

\* The port is read under ADDRESS, where it is as long as there is no address.
IngressIn(line) ==
  [host |-> Cell(line, "HOSTS").val, port |-> Atoi(Cell(line, "ADDRESS"))]

Counted(line) ==
  [status EXCEPT
     !.desired = IF IsRow(line, "replicas") THEN @ + Atoi(Cell(line, "DESIRED")) ELSE @,
     !.available = IF IsRow(line, "replicas") THEN @ + AvailableIn(line) ELSE @,
     !.ingresses = IF IsRow(line, "ingresses") THEN Append(@, IngressIn(line)) ELSE @,
     !.services = IF IsRow(line, "services") THEN Append(@, ServiceIn(line)) ELSE @]

CurrentLine == LineAt(release, group, row)

Scanning == outcome = "scanning" /\ group <= Len(release)

\* Mutant of ScanBlank: the columns of the table before are kept.
ScanBlankKeeping ==
  /\ Scanning /\ CurrentLine = BlankLine
  /\ group' = group + 1 /\ row' = -1
  /\ UNCHANGED <<release, col, status, outcome>>

\* A blank line ends a table: no column is known behind it.
ScanBlank ==
  /\ Scanning /\ CurrentLine = BlankLine
  /\ group' = group + 1 /\ row' = -1
  /\ col' = NoColumns
  /\ UNCHANGED <<release, status, outcome>>

\* Title, header or row.  No printed line is the header of one table and a row
\* of another, so the three tests of the loop do not see each other's columns.
ScanLine ==
  /\ Scanning /\ CurrentLine # BlankLine
  /\ row' = RowAfter(release, group, row)
  /\ col' = Learned(CurrentLine)
  /\ IF Short(CurrentLine) THEN outcome' = "panic" /\ UNCHANGED status
     ELSE status' = Counted(CurrentLine) /\ UNCHANGED outcome
  /\ UNCHANGED <<release, group>>

\* Mutant of Late: a release that needs no replica is late as well.
LateUnlessMore == status.available <= status.desired

\* The deadline (TIMEOUT after the last deployment) may have passed or not.
Late == status.available < status.desired

Flags(code, late) ==
  (IF late \/ code \notin {"DEPLOYED", "DELETED", "DELETING"} THEN {"failed"} ELSE {})
  \cup (IF code = "DEPLOYED" THEN {"deployed"} ELSE {})
  \cup (IF code = "DELETED" THEN {"deleted"} ELSE {})
  \cup (IF code = "DELETING" THEN {"deleting"} ELSE {})

Finish ==
  /\ outcome = "scanning" /\ group > Len(release)
  /\ \E code \in Codes, passed \in BOOLEAN :
       status' = [status EXCEPT !.flags = Flags(code, passed /\ Late)]
  /\ outcome' = "done"
  /\ UNCHANGED <<release, group, row, col>>

Done == outcome = "done"

Returned == Done /\ UNCHANGED vars

Next == ScanBlank \/ ScanLine \/ Finish \/ Returned

Spec == Init /\ [][Next]_vars

-----------------------------------------------------------------------------
Groups(kinds) == {i \in DOMAIN release : release[i].kind \in kinds}

\* At most one API version of each of these kinds, so that each has its header.
OneVersion(kinds) == \A i, j \in Groups(kinds) : release[i].kind = release[j].kind => i = j

\* Every workload has the replicas it needs; none has more than that.
AllAvailable ==
  \A i \in Groups(Workloads) : \A j \in DOMAIN release[i].objects :
    release[i].objects[j].available >= release[i].objects[j].desired

NoSurplus ==
  \A i \in Groups(Workloads) : \A j \in DOMAIN release[i].objects :
    release[i].objects[j].available <= release[i].objects[j].desired

\* Whatever a release is made of, and in whatever order Tiller prints it, no
\* line is read behind its end: no request dies of a status.
NeverPanics == outcome # "panic"

\* A workload without its replicas shows in the totals, provided that every
\* workload is of a kind that reports available replicas, that no kind is there
\* in two versions, and that none has more replicas than it needs (the totals
\* are over the release, so a surplus of one hides what another lacks).
UnavailableIsSeen ==
  /\ Done /\ Groups({"StatefulSet"}) = {} /\ OneVersion(Workloads)
  /\ NoSurplus /\ ~AllAvailable
  => status.available < status.desired

\* A deployed release with all its replicas is never called failed, however
\* late and whatever else it contains.
AvailableNeverFails ==
  Done /\ "deployed" \in status.flags /\ AllAvailable
  => "failed" \notin status.flags /\ status.available >= status.desired

\* The address of a service that is printed whole.
PrintedWhole(o) == \/ o.type = "ExternalName"
                   \/ o.type = "LoadBalancer" /\ o.address \notin DOMAIN Cut \cup {""}

\* A service as it was read, and as it is: its address where that is printed
\* whole, its ports, and the node port of every port that has one.
SameService(read, o) ==
  /\ read.type = o.type /\ (PrintedWhole(o) => read.externalIP = o.address)
  /\ read.clusterPorts = {o.ports[j].port : j \in DOMAIN o.ports}
  /\ \A p \in read.clusterPorts :
       p \in DOMAIN read.nodePorts <=> \E j \in DOMAIN o.ports : o.ports[j].port = p /\ o.ports[j].node > 0
  /\ \A j \in DOMAIN o.ports :
       /\ o.ports[j].node > 0
       /\ \A k \in DOMAIN o.ports : o.ports[k].port = o.ports[j].port => k = j
       => read.nodePorts[o.ports[j].port] = o.ports[j].node

\* Credentials see every service of the release, in order, with its type and
\* ports, and no other line of the tables as a service; and with its address,
\* unless that is one of a load balancer too wide for the table.
ServicesKept ==
  Done /\ OneVersion({"Service"}) =>
    /\ Groups({"Service"}) = {} => status.services = <<>>
    /\ \A i \in Groups({"Service"}) :
         /\ Len(status.services) = Len(release[i].objects)
         /\ \A j \in DOMAIN release[i].objects :
              SameService(status.services[j], release[i].objects[j])

\* An ingress as it was read, and as it is: its host, and its port as long as it
\* has no address (once it has one the port is lost, for it moves out of the
\* column it is read from).
SameIngress(read, o) == read.host = o.host /\ (o.address = "" => read.port = 80)

\* Credentials see every ingress of the release, in order, and no other line.
IngressesKept ==
  Done /\ OneVersion({"Ingress"}) =>
    /\ Groups({"Ingress"}) = {} => status.ingresses = <<>>
    /\ \A i \in Groups({"Ingress"}) :
         /\ Len(status.ingresses) = Len(release[i].objects)
         /\ \A j \in DOMAIN release[i].objects :
              SameIngress(status.ingresses[j], release[i].objects[j])
=============================================================================
