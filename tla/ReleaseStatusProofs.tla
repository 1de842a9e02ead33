------------------------ MODULE ReleaseStatusProofs ------------------------
(***************************************************************************)
(* The reading of a status for every release: any number of groups, in any *)
(* order, with any objects.  The invariant says which columns are known at *)
(* which line, so that every line is read as what it is; the properties    *)
(* then follow object by object, without the totals.                       *)
(***************************************************************************)
EXTENDS ReleaseStatus, SequenceTheorems, TLAPS

-----------------------------------------------------------------------------
(***************************************************************************)
(* Columns.                                                                *)
(***************************************************************************)
\* Where the columns of a kind's table are that are looked for.
Place(kind, l) ==
  CASE kind \in Workloads /\ l = "DESIRED" -> 2
    [] kind \in Workloads /\ l = "CURRENT" -> 3
    [] kind = "Deployment" /\ l = "AVAILABLE" -> 5
    [] kind = "Service" /\ l = "NAME" -> 1
    [] kind = "Service" /\ l = "TYPE" -> 2
    [] kind = "Service" /\ l = "CLUSTER-IP" -> 3
    [] kind = "Service" /\ l = "EXTERNAL-IP" -> 4
    [] kind = "Service" /\ l = "PORT(S)" -> 5
    [] kind = "Service" /\ l = "AGE" -> 6
    [] kind = "Ingress" /\ l = "NAME" -> 1
    [] kind = "Ingress" /\ l = "HOSTS" -> 2
    [] kind = "Ingress" /\ l = "ADDRESS" -> 3
    [] kind = "Ingress" /\ l = "PORTS" -> 4
    [] kind = "Ingress" /\ l = "AGE" -> 5
    [] OTHER -> 0

HeaderColumns(kind) == [l \in Labels |-> Place(kind, l)]

\* The table that a kind's header is taken for.
TableOf(kind) ==
  CASE kind \in Workloads -> {"replicas"}
    [] kind = "Service" -> {"services"}
    [] kind = "Ingress" -> {"ingresses"}
    [] OTHER -> {}

\* The labels of the headers.
LEMMA HeaderLabels ==
  /\ LabelsOf(Line(Columns["Deployment"], <<>>)) =
       {"NAME", "DESIRED", "CURRENT", "UP-TO-DATE", "AVAILABLE", "AGE"}
  /\ LabelsOf(Line(Columns["StatefulSet"], <<>>)) = {"NAME", "DESIRED", "CURRENT", "AGE"}
  /\ LabelsOf(Line(Columns["Job"], <<>>)) = {"NAME", "DESIRED", "SUCCESSFUL", "AGE"}
  /\ LabelsOf(Line(Columns["Service"], <<>>)) =
       {"NAME", "TYPE", "CLUSTER-IP", "EXTERNAL-IP", "PORT(S)", "AGE"}
  /\ LabelsOf(Line(Columns["Ingress"], <<>>)) = {"NAME", "HOSTS", "ADDRESS", "PORTS", "AGE"}
  /\ LabelsOf(Line(Columns["Other"], <<>>)) = {"NAME", "DATA", "AGE"}
<1>1. LabelsOf(Line(Columns["Deployment"], <<>>)) =
        {"NAME", "DESIRED", "CURRENT", "UP-TO-DATE", "AVAILABLE", "AGE"}
  BY DEF LabelsOf, Line, Columns
<1>2. LabelsOf(Line(Columns["StatefulSet"], <<>>)) = {"NAME", "DESIRED", "CURRENT", "AGE"}
  BY DEF LabelsOf, Line, Columns
<1>3. LabelsOf(Line(Columns["Job"], <<>>)) = {"NAME", "DESIRED", "SUCCESSFUL", "AGE"}
  BY DEF LabelsOf, Line, Columns
<1>4. LabelsOf(Line(Columns["Service"], <<>>)) =
        {"NAME", "TYPE", "CLUSTER-IP", "EXTERNAL-IP", "PORT(S)", "AGE"}
  BY DEF LabelsOf, Line, Columns
<1>5. LabelsOf(Line(Columns["Ingress"], <<>>)) = {"NAME", "HOSTS", "ADDRESS", "PORTS", "AGE"}
  BY DEF LabelsOf, Line, Columns
<1>6. LabelsOf(Line(Columns["Other"], <<>>)) = {"NAME", "DATA", "AGE"}
  BY DEF LabelsOf, Line, Columns
<1> QED
  BY <1>1, <1>2, <1>3, <1>4, <1>5, <1>6

\* A header is taken for that of its own table only.
LEMMA HeadsOwnTable ==
  ASSUME NEW kind \in Kinds, NEW t \in Tables
  PROVE  Heads(Line(Columns[kind], <<>>), t) <=> t \in TableOf(kind)
<1> DEFINE labels == LabelsOf(Line(Columns[kind], <<>>))
<1>1. CASE t = "replicas"
  <2>1. Heads(Line(Columns[kind], <<>>), t) <=> "DESIRED" \in labels /\ "CURRENT" \in labels
    BY <1>1 DEF Heads, Table
  <2>2. "DESIRED" \in labels /\ "CURRENT" \in labels <=> kind \in Workloads
    BY HeaderLabels DEF Kinds, Workloads
  <2> QED
    BY <1>1, <2>1, <2>2 DEF TableOf, Workloads
<1>2. CASE t = "services"
  <2>1. Heads(Line(Columns[kind], <<>>), t) <=>
          {"NAME", "TYPE", "CLUSTER-IP", "EXTERNAL-IP", "PORT(S)", "AGE"} \subseteq labels
    BY <1>2 DEF Heads, Table
  <2>2. {"NAME", "TYPE", "CLUSTER-IP", "EXTERNAL-IP", "PORT(S)", "AGE"} \subseteq labels <=> kind = "Service"
    BY HeaderLabels DEF Kinds
  <2> QED
    BY <1>2, <2>1, <2>2 DEF TableOf, Workloads
<1>3. CASE t = "ingresses"
  <2>1. Heads(Line(Columns[kind], <<>>), t) <=>
          {"NAME", "HOSTS", "ADDRESS", "PORTS", "AGE"} \subseteq labels
    BY <1>3 DEF Heads, Table
  <2>2. {"NAME", "HOSTS", "ADDRESS", "PORTS", "AGE"} \subseteq labels <=> kind = "Ingress"
    BY HeaderLabels DEF Kinds
  <2> QED
    BY <1>3, <2>1, <2>2 DEF TableOf, Workloads
<1> QED
  BY <1>1, <1>2, <1>3 DEF Tables

LEMMA ColumnIs ==
  ASSUME NEW line, NEW l, NEW k \in DOMAIN line.labels, line.labels[k] = l,
         \A j \in DOMAIN line.labels : line.labels[j] = l => j = k
  PROVE  ColumnOf(line, l) = k
BY DEF ColumnOf

\* The columns of the labels that are looked for.
LEMMA HeaderPlaces ==
  ASSUME NEW kind \in Kinds, NEW l \in LabelsOf(Line(Columns[kind], <<>>)),
         NEW t \in TableOf(kind), l \in Learns(t)
  PROVE  ColumnOf(Line(Columns[kind], <<>>), l) = Place(kind, l)
<1> DEFINE line == Line(Columns[kind], <<>>)
<1>1. CASE kind = "Deployment"
  <2>1. line.labels = <<"NAME", "DESIRED", "CURRENT", "UP-TO-DATE", "AVAILABLE", "AGE">>
    BY <1>1 DEF Line, Columns
  <2>2. l \in {"DESIRED", "CURRENT", "AVAILABLE"}
    BY <1>1 DEF TableOf, Workloads, Learns, Table
  <2> HIDE DEF line
  <2>3. l = "DESIRED" => ColumnOf(line, l) = 2
    BY <2>1, ColumnIs
  <2>4. l = "CURRENT" => ColumnOf(line, l) = 3
    BY <2>1, ColumnIs
  <2>5. l = "AVAILABLE" => ColumnOf(line, l) = 5
    BY <2>1, ColumnIs
  <2> QED
    BY <1>1, <2>2, <2>3, <2>4, <2>5 DEF line, Place, Workloads
<1>2. CASE kind = "StatefulSet"
  <2>1. line.labels = <<"NAME", "DESIRED", "CURRENT", "AGE">>
    BY <1>2 DEF Line, Columns
  <2>2. l \in {"DESIRED", "CURRENT"}
    BY <1>2, HeaderLabels DEF TableOf, Workloads, Learns, Table
  <2> HIDE DEF line
  <2>3. l = "DESIRED" => ColumnOf(line, l) = 2
    BY <2>1, ColumnIs
  <2>4. l = "CURRENT" => ColumnOf(line, l) = 3
    BY <2>1, ColumnIs
  <2> QED
    BY <1>2, <2>2, <2>3, <2>4 DEF line, Place, Workloads
<1>3. CASE kind = "Service"
  <2>1. line.labels = <<"NAME", "TYPE", "CLUSTER-IP", "EXTERNAL-IP", "PORT(S)", "AGE">>
    BY <1>3 DEF Line, Columns
  <2>2. l \in {"NAME", "TYPE", "CLUSTER-IP", "EXTERNAL-IP", "PORT(S)", "AGE"}
    BY <1>3, HeaderLabels
  <2> HIDE DEF line
  <2>3. l = "NAME" => ColumnOf(line, l) = 1
    BY <2>1, ColumnIs
  <2>4. l = "TYPE" => ColumnOf(line, l) = 2
    BY <2>1, ColumnIs
  <2>5. l = "CLUSTER-IP" => ColumnOf(line, l) = 3
    BY <2>1, ColumnIs
  <2>6. l = "EXTERNAL-IP" => ColumnOf(line, l) = 4
    BY <2>1, ColumnIs
  <2>7. l = "PORT(S)" => ColumnOf(line, l) = 5
    BY <2>1, ColumnIs
  <2>8. l = "AGE" => ColumnOf(line, l) = 6
    BY <2>1, ColumnIs
  <2> QED
    BY <1>3, <2>2, <2>3, <2>4, <2>5, <2>6, <2>7, <2>8 DEF line, Place, Workloads
<1>4. CASE kind = "Ingress"
  <2>1. line.labels = <<"NAME", "HOSTS", "ADDRESS", "PORTS", "AGE">>
    BY <1>4 DEF Line, Columns
  <2>2. l \in {"NAME", "HOSTS", "ADDRESS", "PORTS", "AGE"}
    BY <1>4, HeaderLabels
  <2> HIDE DEF line
  <2>3. l = "NAME" => ColumnOf(line, l) = 1
    BY <2>1, ColumnIs
  <2>4. l = "HOSTS" => ColumnOf(line, l) = 2
    BY <2>1, ColumnIs
  <2>5. l = "ADDRESS" => ColumnOf(line, l) = 3
    BY <2>1, ColumnIs
  <2>6. l = "PORTS" => ColumnOf(line, l) = 4
    BY <2>1, ColumnIs
  <2>7. l = "AGE" => ColumnOf(line, l) = 5
    BY <2>1, ColumnIs
  <2> QED
    BY <1>4, <2>2, <2>3, <2>4, <2>5, <2>6, <2>7 DEF line, Place, Workloads
<1>5. CASE kind \in {"Job", "Other"}
  BY <1>5 DEF TableOf, Workloads
<1> QED
  BY <1>1, <1>2, <1>3, <1>4, <1>5 DEF Kinds

\* A label of a header that is not looked for, or not there, has no place.
LEMMA NoPlace ==
  ASSUME NEW kind \in Kinds, NEW l \in Labels,
         ~(l \in LabelsOf(Line(Columns[kind], <<>>)) /\ \E t \in TableOf(kind) : l \in Learns(t))
  PROVE  Place(kind, l) = 0
<1>1. CASE kind = "Deployment"
  BY <1>1, HeaderLabels DEF TableOf, Workloads, Learns, Table, Place
<1>2. CASE kind = "StatefulSet"
  BY <1>2, HeaderLabels DEF TableOf, Workloads, Learns, Table, Place
<1>3. CASE kind = "Service"
  BY <1>3, HeaderLabels DEF TableOf, Workloads, Learns, Table, Place
<1>4. CASE kind = "Ingress"
  BY <1>4, HeaderLabels DEF TableOf, Workloads, Learns, Table, Place
<1>5. CASE kind \in {"Job", "Other"}
  BY <1>5 DEF Workloads, Place
<1> QED
  BY <1>1, <1>2, <1>3, <1>4, <1>5 DEF Kinds

\* From no columns, a header gives those of its table.
LEMMA HeaderLearned ==
  ASSUME NEW kind \in Kinds, col = NoColumns
  PROVE  Learned(Line(Columns[kind], <<>>)) = HeaderColumns(kind)
<1> DEFINE line == Line(Columns[kind], <<>>)
<1>1. TableOf(kind) \subseteq Tables
  BY DEF TableOf, Tables
<1>2. ASSUME NEW l \in Labels
      PROVE  (IF l \in LabelsOf(line) /\ \E t \in Tables : Heads(line, t) /\ l \in Learns(t)
              THEN ColumnOf(line, l) ELSE col[l]) = Place(kind, l)
  <2>1. (\E t \in Tables : Heads(line, t) /\ l \in Learns(t)) <=> \E t \in TableOf(kind) : l \in Learns(t)
    BY <1>1, HeadsOwnTable
  <2>2. CASE l \in LabelsOf(line) /\ \E t \in TableOf(kind) : l \in Learns(t)
    BY <2>1, <2>2, HeaderPlaces
  <2>3. CASE ~(l \in LabelsOf(line) /\ \E t \in TableOf(kind) : l \in Learns(t))
    <3>1. Place(kind, l) = 0 /\ col[l] = 0
      BY <2>3, NoPlace DEF NoColumns
    <3> QED
      BY <2>1, <2>3, <3>1
  <2> QED
    BY <2>2, <2>3
<1> QED
  BY <1>2, Zenon DEF Learned, HeaderColumns

-----------------------------------------------------------------------------
(***************************************************************************)
(* Lines.                                                                  *)
(***************************************************************************)
\* A line without labels is the header of no table.
LEMMA NoHeader ==
  ASSUME NEW line, LabelsOf(line) = {}, NEW t \in Tables
  PROVE  ~Heads(line, t)
<1>1. "NAME" \in Table[t] \/ "DESIRED" \in Table[t]
  BY DEF Table, Tables
<1> QED
  BY <1>1 DEF Heads

\* It leaves the columns.
LEMMA ColumnsKept ==
  ASSUME NEW line, LabelsOf(line) = {}, col = [l \in Labels |-> col[l]]
  PROVE  Learned(line) = col
<1>1. Learned(line) = [l \in Labels |-> col[l]]
  BY DEF Learned
<1> QED
  BY <1>1

\* Without columns no line is a row.
LEMMA NoRow ==
  ASSUME NEW line, col = NoColumns, NEW t \in Tables
  PROVE  ~IsRow(line, t)
<1>1. \E l \in Table[t] : l \in Labels
  BY DEF Table, Tables, Labels
<1> QED
  BY <1>1 DEF IsRow, NoColumns

\* Below a header, a line without labels is a row of the header's table.
LEMMA RowOfTable ==
  ASSUME NEW kind \in Kinds, col = HeaderColumns(kind),
         NEW line, LabelsOf(line) = {}, NEW t \in Tables
  PROVE  IsRow(line, t) <=> t \in TableOf(kind)
<1>1. IsRow(line, t) <=> \A l \in Table[t] : col[l] > 0
  BY NoHeader DEF IsRow
<1>2. \A l \in Table[t] : l \in Labels
  BY DEF Table, Tables, Labels
<1>3. \A l \in Table[t] : col[l] = Place(kind, l)
  BY <1>2 DEF HeaderColumns
<1>4. CASE t = "replicas"
  <2>1. IsRow(line, t) <=> Place(kind, "DESIRED") > 0 /\ Place(kind, "CURRENT") > 0
    BY <1>1, <1>3, <1>4 DEF Table
  <2> QED
    BY <1>4, <2>1 DEF Place, TableOf, Workloads, Kinds
<1>5. CASE t = "services"
  <2>1. IsRow(line, t) => Place(kind, "TYPE") > 0
    BY <1>1, <1>3, <1>5 DEF Table
  <2>2. kind = "Service" => \A l \in Table[t] : Place(kind, l) > 0
    BY <1>5 DEF Table, Place, Workloads
  <2>3. Place(kind, "TYPE") > 0 => kind = "Service"
    BY DEF Place, Workloads, Kinds
  <2> QED
    BY <1>1, <1>3, <1>5, <2>1, <2>2, <2>3 DEF TableOf, Workloads
<1>6. CASE t = "ingresses"
  <2>1. IsRow(line, t) => Place(kind, "HOSTS") > 0
    BY <1>1, <1>3, <1>6 DEF Table
  <2>2. kind = "Ingress" => \A l \in Table[t] : Place(kind, l) > 0
    BY <1>6 DEF Table, Place, Workloads
  <2>3. Place(kind, "HOSTS") > 0 => kind = "Ingress"
    BY DEF Place, Workloads, Kinds
  <2> QED
    BY <1>1, <1>3, <1>6, <2>1, <2>2, <2>3 DEF TableOf, Workloads
<1> QED
  BY <1>4, <1>5, <1>6 DEF Tables

\* A line that is no row is not too short, and adds nothing.
LEMMA NothingRead ==
  ASSUME NEW line, \A t \in Tables : ~IsRow(line, t),
         DOMAIN status = {"desired", "available", "services", "ingresses", "flags"},
         status = [f \in DOMAIN status |-> status[f]]
  PROVE  ~Short(line) /\ Counted(line) = status
<1>1. ~Short(line)
  BY DEF Short
<1>2. ~IsRow(line, "replicas") /\ ~IsRow(line, "ingresses") /\ ~IsRow(line, "services")
  BY DEF Tables
<1>3. Counted(line) = status
  BY <1>2 DEF Counted
<1> QED
  BY <1>1, <1>3

\* What a row adds to the status, field by field.
LEMMA CountedFields ==
  ASSUME NEW line,
         DOMAIN status = {"desired", "available", "services", "ingresses", "flags"}
  PROVE  /\ DOMAIN Counted(line) = DOMAIN status
         /\ Counted(line) = [f \in DOMAIN Counted(line) |-> Counted(line)[f]]
         /\ Counted(line).flags = status.flags
         /\ Counted(line).desired =
              IF IsRow(line, "replicas") THEN status.desired + Atoi(Cell(line, "DESIRED")) ELSE status.desired
         /\ Counted(line).available =
              IF IsRow(line, "replicas") THEN status.available + AvailableIn(line) ELSE status.available
         /\ Counted(line).services =
              IF IsRow(line, "services") THEN Append(status.services, ServiceIn(line)) ELSE status.services
         /\ Counted(line).ingresses =
              IF IsRow(line, "ingresses") THEN Append(status.ingresses, IngressIn(line)) ELSE status.ingresses
BY DEF Counted

-----------------------------------------------------------------------------
(***************************************************************************)
(* Rows.                                                                   *)
(***************************************************************************)
RowOf(kind, o) == Line(<<>>, Cells(kind, o))

LEMMA RowHasNoLabels ==
  ASSUME NEW cells
  PROVE  LabelsOf(Line(<<>>, cells)) = {}
BY DEF LabelsOf, Line

\* No row of a table is shorter than its columns.
LEMMA RowNotShort ==
  ASSUME NEW kind \in Kinds, col = HeaderColumns(kind), NEW o
  PROVE  ~Short(RowOf(kind, o))
<1> DEFINE line == RowOf(kind, o)
<1> SUFFICES ASSUME NEW t \in TableOf(kind), NEW l \in Reads(t)
             PROVE  ~(col[l] > Len(line.cells))
  <2>1. \A t \in Tables : IsRow(line, t) <=> t \in TableOf(kind)
    BY RowOfTable, RowHasNoLabels DEF RowOf
  <2> QED
    BY <2>1 DEF Short
<1>1. line.cells = Cells(kind, o)
  BY DEF RowOf, Line
<1>2. col[l] = Place(kind, l)
  BY DEF TableOf, Reads, Learns, Table, Labels, HeaderColumns
<1> HIDE DEF line
<1>3. CASE kind = "Deployment"
  <2>1. Len(Cells(kind, o)) = 6
    BY <1>3 DEF Cells
  <2>2. l \in {"DESIRED", "CURRENT", "AVAILABLE"}
    BY <1>3 DEF TableOf, Workloads, Reads, Learns, Table
  <2>3. Place(kind, l) \in 0..5
    BY <1>3, <2>2 DEF Place, Workloads
  <2> QED
    BY <1>1, <1>2, <2>1, <2>3
<1>4. CASE kind = "StatefulSet"
  <2>1. Len(Cells(kind, o)) = 4
    BY <1>4 DEF Cells
  <2>2. l \in {"DESIRED", "CURRENT", "AVAILABLE"}
    BY <1>4 DEF TableOf, Workloads, Reads, Learns, Table
  <2>3. Place(kind, l) \in 0..3
    BY <1>4, <2>2 DEF Place, Workloads
  <2> QED
    BY <1>1, <1>2, <2>1, <2>3
<1>5. CASE kind = "Service"
  <2>1. Len(Cells(kind, o)) = 6
    BY <1>5 DEF Cells
  <2>2. l \in {"NAME", "TYPE", "CLUSTER-IP", "EXTERNAL-IP", "PORT(S)", "AGE"}
    BY <1>5 DEF TableOf, Workloads, Reads, Learns, Table
  <2>3. Place(kind, l) \in 0..6
    BY <1>5, <2>2 DEF Place, Workloads
  <2> QED
    BY <1>1, <1>2, <2>1, <2>3
<1>6. CASE kind = "Ingress"
  <2>1. Len(Cells(kind, o)) = 4 \/ Len(Cells(kind, o)) = 5
    BY <1>6 DEF Cells
  <2>2. l \in {"NAME", "HOSTS", "ADDRESS"}
    BY <1>6 DEF TableOf, Workloads, Reads, Learns, Table
  <2>3. Place(kind, l) \in 0..3
    BY <1>6, <2>2 DEF Place, Workloads
  <2>4. CASE Len(Cells(kind, o)) = 4
    BY <1>1, <1>2, <2>3, <2>4
  <2>5. CASE Len(Cells(kind, o)) = 5
    BY <1>1, <1>2, <2>3, <2>5
  <2> QED
    BY <2>1, <2>4, <2>5
<1>7. CASE kind \in {"Job", "Other"}
  BY <1>7 DEF TableOf, Workloads
<1> QED
  BY <1>3, <1>4, <1>5, <1>6, <1>7 DEF Kinds

\* No row is empty.
LEMMA CellsThere ==
  ASSUME NEW kind \in Kinds, NEW o
  PROVE  Len(Cells(kind, o)) \in 1..6
<1>1. CASE kind = "Ingress"
  <2>1. CASE o.address = ""
    <3>1. Cells(kind, o) = <<Text("name"), Text(o.host), Num(80), Text("1m")>>
      BY <1>1, <2>1 DEF Cells
    <3>2. Len(Cells(kind, o)) = 4
      BY <3>1
    <3> QED
      BY <3>2
  <2>2. CASE o.address # ""
    <3>1. Cells(kind, o) = <<Text("name"), Text(o.host), Text(o.address), Num(80), Text("1m")>>
      BY <1>1, <2>2 DEF Cells
    <3>2. Len(Cells(kind, o)) = 5
      BY <3>1
    <3> QED
      BY <3>2
  <2> QED
    BY <2>1, <2>2
<1>2. CASE kind \in {"Deployment", "Service"}
  BY <1>2 DEF Cells
<1>3. CASE kind \in {"StatefulSet", "Job", "Other"}
  BY <1>3 DEF Cells
<1> QED
  BY <1>1, <1>2, <1>3 DEF Kinds

\* The cell under a label.
LEMMA CellAt ==
  ASSUME NEW kind \in Kinds, col = HeaderColumns(kind), NEW o, NEW l \in Labels
  PROVE  Cell(RowOf(kind, o), l) = Cells(kind, o)[Place(kind, l)]
BY DEF Cell, RowOf, Line, HeaderColumns

\* A workload's row tells its replicas; without a column for it, those that are
\* there pass for available.
LEMMA WorkloadRow ==
  ASSUME NEW kind \in Workloads, col = HeaderColumns(kind), NEW o
  PROVE  /\ Atoi(Cell(RowOf(kind, o), "DESIRED")) = o.desired
         /\ AvailableIn(RowOf(kind, o)) = IF kind = "Deployment" THEN o.available ELSE o.current
<1> DEFINE line == RowOf(kind, o)
<1>1. kind \in Kinds /\ {"DESIRED", "CURRENT", "AVAILABLE"} \subseteq Labels
  BY DEF Kinds, Workloads, Labels, Table
<1>2. Cell(line, "DESIRED") = Num(o.desired)
  <2>1. Cell(line, "DESIRED") = Cells(kind, o)[2]
    BY <1>1, CellAt DEF Place
  <2> QED
    BY <2>1 DEF Cells, Workloads
<1>3. kind = "StatefulSet" => Cell(line, "CURRENT") = Num(o.current)
  <2>1. Cell(line, "CURRENT") = Cells(kind, o)[3]
    BY <1>1, CellAt DEF Place
  <2> QED
    BY <2>1 DEF Cells
<1>4. kind = "Deployment" => Cell(line, "AVAILABLE") = Num(o.available)
  <2>1. kind = "Deployment" => Cell(line, "AVAILABLE") = Cells(kind, o)[5]
    BY <1>1, CellAt DEF Place, Workloads
  <2> QED
    BY <2>1 DEF Cells
<1>5. col["AVAILABLE"] = IF kind = "Deployment" THEN 5 ELSE 0
  BY <1>1 DEF HeaderColumns, Place, Workloads
<1> HIDE DEF line
<1>6. AvailableIn(line) = IF kind = "Deployment" THEN o.available ELSE o.current
  BY <1>3, <1>4, <1>5 DEF AvailableIn, Atoi, Num, Workloads
<1>7. Atoi(Cell(line, "DESIRED")) = o.desired
  BY <1>2 DEF Atoi, Num
<1> QED
  BY <1>6, <1>7 DEF line

\* What IsSequence says of a value, without its set of elements.
LEMMA SequenceDomain ==
  ASSUME NEW s, IsSequence(s)
  PROVE  \E n \in Nat : n = Len(s) /\ DOMAIN s = 1..n
<1> DEFINE S == {s[i] : i \in DOMAIN s}
<1>1. s \in Seq(S)
  BY DEF IsSequence
<1> HIDE DEF S
<1> QED
  BY <1>1, LenProperties

\* A sequence with one element more.
LEMMA SequenceExtended ==
  ASSUME NEW s, IsSequence(s), NEW x
  PROVE  /\ IsSequence(Append(s, x)) /\ Len(Append(s, x)) = Len(s) + 1
         /\ \A i \in DOMAIN Append(s, x) : i \in DOMAIN s \/ i = Len(s) + 1
         /\ \A i \in 1..Len(s) : i \in DOMAIN s /\ Append(s, x)[i] = s[i]
         /\ Append(s, x)[Len(s) + 1] = x
<1> DEFINE S == {s[i] : i \in DOMAIN s}
           T == S \cup {x}
           t == Append(s, x)
           U == {t[i] : i \in DOMAIN t}
<1>1. s \in Seq(S)
  BY DEF IsSequence
<1>2. s \in Seq(T) /\ x \in T
  <2> HIDE DEF S
  <2> QED
    BY <1>1, SeqMonotonic
<1> HIDE DEF S, T
<1>3. /\ t \in Seq(T) /\ Len(t) = Len(s) + 1
      /\ \A i \in 1..Len(s) : t[i] = s[i]
      /\ t[Len(s) + 1] = x
  BY <1>2, AppendProperties
<1>4. Len(s) \in Nat /\ DOMAIN s = 1..Len(s) /\ DOMAIN t = 1..Len(t)
  BY <1>2, <1>3, LenProperties
<1>5. t \in Seq(U)
  <2>1. t \in [1..Len(t) -> U]
    BY <1>3, <1>4, LenProperties
  <2> HIDE DEF U, t
  <2> QED
    BY <1>3, <1>4, <2>1, SeqDef
<1> QED
  BY <1>3, <1>4, <1>5 DEF IsSequence

\* A service's row tells what the service is.
LEMMA ServiceRow ==
  ASSUME col = HeaderColumns("Service"), NEW o, IsService(o)
  PROVE  SameService(ServiceIn(RowOf("Service", o)), o)
<1> DEFINE line == RowOf("Service", o)
           read == ServiceIn(line)
<1>1. {"TYPE", "EXTERNAL-IP", "PORT(S)"} \subseteq Labels
  BY DEF Labels, Table
<1>2. /\ Cell(line, "TYPE") = Cells("Service", o)[2]
      /\ Cell(line, "EXTERNAL-IP") = Cells("Service", o)[4]
      /\ Cell(line, "PORT(S)") = Cells("Service", o)[5]
  BY <1>1, CellAt DEF Place, Workloads, Kinds
<1>3. /\ Cell(line, "TYPE") = Text(o.type) /\ Cell(line, "EXTERNAL-IP") = Text(ExternalIP(o))
      /\ Cell(line, "PORT(S)") = Ports(o.ports)
  BY <1>2 DEF Cells
<1> HIDE DEF line
<1> DEFINE ps == o.ports
<1>4. /\ read.type = o.type /\ read.externalIP = ExternalIP(o)
      /\ read.clusterPorts = ClusterPortsIn(ps)
      /\ read.nodePorts = NodePortsIn(ps)
  BY <1>3 DEF ServiceIn, Text, Ports
<1>5. PrintedWhole(o) => read.externalIP = o.address
  BY <1>4 DEF PrintedWhole, ExternalIP
<1> HIDE DEF read
<1>6. ASSUME NEW p
      PROVE  p \in DOMAIN read.nodePorts <=> \E j \in DOMAIN ps : ps[j].port = p /\ ps[j].node > 0
  BY <1>4 DEF NodePortsIn, Exposed
<1>7. ASSUME NEW j \in DOMAIN ps, ps[j].node > 0,
             \A k \in DOMAIN ps : ps[k].port = ps[j].port => k = j
      PROVE  read.nodePorts[ps[j].port] = ps[j].node
  <2>1. {i \in Exposed(ps) : ps[i].port = ps[j].port} = {j}
    BY <1>7 DEF Exposed
  <2>2. Max({j}) = j
    <3>1. PICK n \in Nat : DOMAIN ps = 1..n
      BY SequenceDomain DEF IsService
    <3>2. j >= j
      BY <3>1
    <3> QED
      BY <3>2 DEF Max
  <2>3. ps[j].port \in {ps[i].port : i \in Exposed(ps)}
    BY <1>7 DEF Exposed
  <2>4. NodePortsIn(ps)[ps[j].port] = ps[Max({i \in Exposed(ps) : ps[i].port = ps[j].port})].node
    BY <2>3, Zenon DEF NodePortsIn
  <2> QED
    BY <1>4, <2>1, <2>2, <2>4
<1> QED
  BY <1>4, <1>5, <1>6, <1>7 DEF SameService, ClusterPortsIn, line, read

\* An ingress' row tells its host, and its port in place of the address.
LEMMA IngressRow ==
  ASSUME col = HeaderColumns("Ingress"), NEW o
  PROVE  /\ SameIngress(IngressIn(RowOf("Ingress", o)), o)
         /\ IngressIn(RowOf("Ingress", o)).port \in Nat
<1> DEFINE line == RowOf("Ingress", o)
<1>1. Cell(line, "HOSTS") = Cells("Ingress", o)[2] /\ Cell(line, "ADDRESS") = Cells("Ingress", o)[3]
  BY CellAt DEF Place, Workloads, Kinds, Labels, Table
<1> SUFFICES SameIngress(IngressIn(line), o) /\ IngressIn(line).port \in Nat
  OBVIOUS
<1> HIDE DEF line
<1>2. CASE o.address = ""
  <2>1. Cells("Ingress", o) = <<Text("name"), Text(o.host), Num(80), Text("1m")>>
    BY <1>2 DEF Cells, Workloads
  <2>2. Cell(line, "HOSTS") = Text(o.host) /\ Cell(line, "ADDRESS") = Num(80)
    BY <1>1, <2>1
  <2>3. IngressIn(line).host = o.host /\ IngressIn(line).port = 80
    BY <2>2 DEF IngressIn, Atoi, Text, Num
  <2> QED
    BY <2>3 DEF SameIngress
<1>3. CASE o.address # ""
  <2>1. Cells("Ingress", o) = <<Text("name"), Text(o.host), Text(o.address), Num(80), Text("1m")>>
    BY <1>3 DEF Cells, Workloads
  <2>2. Cell(line, "HOSTS") = Text(o.host) /\ Cell(line, "ADDRESS") = Text(o.address)
    BY <1>1, <2>1
  <2>3. IngressIn(line).host = o.host /\ IngressIn(line).port = 0
    BY <2>2 DEF IngressIn, Atoi, Text
  <2>4. SameIngress(IngressIn(line), o)
    BY <1>3, <2>3, Zenon DEF SameIngress
  <2>5. IngressIn(line).port \in Nat
    BY <2>3
  <2> QED
    BY <2>4, <2>5
<1> QED
  BY <1>2, <1>3

-----------------------------------------------------------------------------
(***************************************************************************)
(* The invariant.                                                          *)
(***************************************************************************)
\* The columns that are known at the next line.
Known ==
  IF group <= Len(release) /\ row >= 1 /\ HasHeader(release, group)
  THEN HeaderColumns(release[group].kind) ELSE NoColumns

Position ==
  /\ release \in Releases /\ group \in 1..Len(release) + 1
  /\ IF group <= Len(release)
     THEN row \in -1..Len(release[group].objects) + 1 /\ (row = 0 => HasHeader(release, group))
     ELSE row = -1
  /\ col = Known
  /\ outcome \in {"scanning", "done"}
  /\ outcome = "done" => group > Len(release)

Shape ==
  /\ DOMAIN status = {"desired", "available", "services", "ingresses", "flags"}
  /\ status = [f \in DOMAIN status |-> status[f]]
  /\ status.desired \in Nat /\ status.available \in Nat
  /\ IsSequence(status.services) /\ IsSequence(status.ingresses)
  /\ \A i \in DOMAIN status.ingresses : status.ingresses[i].port \in Nat
  /\ status.flags \subseteq {"failed", "deployed", "deleted", "deleting"}

\* How many objects of a group have been read.
Past(i) ==
  IF i < group THEN Len(release[i].objects) ELSE IF i = group /\ row > 0 THEN row - 1 ELSE 0

\* The totals so far against each other.
Balanced == AllAvailable => status.available >= status.desired

Measured ==
  Groups({"StatefulSet"}) = {} /\ OneVersion(Workloads) /\ NoSurplus =>
    /\ status.available <= status.desired
    /\ \A i \in Groups(Workloads) : \A j \in 1..Past(i) :
         release[i].objects[j].available < release[i].objects[j].desired
           => status.available < status.desired

\* The services and the ingresses read so far.
ServicesListed ==
  OneVersion({"Service"}) =>
    /\ Groups({"Service"}) = {} => status.services = <<>>
    /\ \A i \in Groups({"Service"}) :
         /\ Len(status.services) = Past(i)
         /\ \A j \in 1..Past(i) : SameService(status.services[j], release[i].objects[j])

IngressesListed ==
  OneVersion({"Ingress"}) =>
    /\ Groups({"Ingress"}) = {} => status.ingresses = <<>>
    /\ \A i \in Groups({"Ingress"}) :
         /\ Len(status.ingresses) = Past(i)
         /\ \A j \in 1..Past(i) : SameIngress(status.ingresses[j], release[i].objects[j])

\* A deployed release is called failed only for replicas it lacks.
Judged ==
  outcome = "done" /\ {"deployed", "failed"} \subseteq status.flags => status.available < status.desired

IInv == Position /\ Shape /\ Balanced /\ Measured /\ ServicesListed /\ IngressesListed /\ Judged

\* A release and its groups.
LEMMA GroupShape ==
  ASSUME Position
  PROVE  /\ Len(release) \in Nat /\ DOMAIN release = 1..Len(release)
         /\ \A i \in DOMAIN release :
              /\ release[i].kind \in Kinds
              /\ Len(release[i].objects) \in Nat \ {0}
              /\ DOMAIN release[i].objects = 1..Len(release[i].objects)
              /\ \A j \in DOMAIN release[i].objects :
                   /\ release[i].kind \in Workloads => IsWorkload(release[i].objects[j])
                   /\ release[i].kind = "Service" => IsService(release[i].objects[j])
<1>1. IsSequence(release) /\ \A i \in DOMAIN release : IsGroup(release[i])
  BY ReleasesAssumption DEF Position
<1>2. Len(release) \in Nat /\ DOMAIN release = 1..Len(release)
  BY <1>1, SequenceDomain
<1>3. ASSUME NEW i \in DOMAIN release
      PROVE  /\ Len(release[i].objects) \in Nat \ {0}
             /\ DOMAIN release[i].objects = 1..Len(release[i].objects)
  <2>1. IsSequence(release[i].objects) /\ release[i].objects # <<>>
    BY <1>1 DEF IsGroup
  <2>2. Len(release[i].objects) \in Nat /\ DOMAIN release[i].objects = 1..Len(release[i].objects)
    BY <2>1, SequenceDomain
  <2>3. Len(release[i].objects) # 0
    BY <2>1, EmptySeq DEF IsSequence
  <2> QED
    BY <2>2, <2>3
<1> QED
  BY <1>1, <1>2, <1>3 DEF IsGroup

LEMMA StatusInit == Init => IInv
<1> SUFFICES ASSUME Init PROVE IInv
  OBVIOUS
<1> USE DEF Init
<1>1. IsSequence(release)
  BY ReleasesAssumption
<1>2. Len(release) \in Nat /\ DOMAIN release = 1..Len(release)
  BY <1>1, SequenceDomain
<1>3. Position
  <2>1. group \in 1..Len(release) + 1
    BY <1>2
  <2>2. row \in -1..Len(release[group].objects) + 1 \/ group > Len(release)
    <3>1. ASSUME group <= Len(release)
          PROVE  Len(release[group].objects) \in Nat
      <4>1. group \in DOMAIN release
        BY <1>2, <3>1
      <4>2. IsSequence(release[group].objects)
        BY <4>1, ReleasesAssumption DEF IsGroup
      <4> QED
        BY <4>2, SequenceDomain
    <3> QED
      BY <1>2, <3>1
  <2>3. col = Known
    BY DEF Known
  <2> QED
    BY <1>2, <2>1, <2>2, <2>3 DEF Position
<1>4. Shape
  <2>1. IsSequence(<<>>)
    BY EmptySeq DEF IsSequence
  <2> QED
    BY <2>1 DEF Shape, InitStatus
<1>5. \A i \in DOMAIN release : Past(i) = 0
  BY <1>2 DEF Past
<1>6. Balanced /\ Measured /\ ServicesListed /\ IngressesListed /\ Judged
  BY <1>5 DEF InitStatus, Balanced, Measured, ServicesListed, IngressesListed, Judged, Groups
<1> QED
  BY <1>3, <1>4, <1>6 DEF IInv

-----------------------------------------------------------------------------
(***************************************************************************)
(* One line.                                                               *)
(***************************************************************************)
\* Which line is read at which position.
LEMMA LineRead ==
  ASSUME Position, group <= Len(release)
  PROVE  /\ group \in DOMAIN release
         /\ row = -1 => CurrentLine = Line(<<>>, <<Text("==>")>>)
         /\ row = 0 => CurrentLine = Line(Columns[release[group].kind], <<>>)
         /\ row \in DOMAIN release[group].objects =>
              CurrentLine = RowOf(release[group].kind, release[group].objects[row])
         /\ row = Len(release[group].objects) + 1 <=> CurrentLine = BlankLine
         /\ \/ row \in {-1, 0} \/ row \in DOMAIN release[group].objects
            \/ row = Len(release[group].objects) + 1
<1> DEFINE objects == release[group].objects
           kind == release[group].kind
<1>1. group \in DOMAIN release
  BY GroupShape DEF Position
<1>2. /\ kind \in Kinds /\ Len(objects) \in Nat \ {0} /\ DOMAIN objects = 1..Len(objects)
      /\ row \in -1..Len(objects) + 1
  BY <1>1, GroupShape DEF Position
<1> HIDE DEF objects, kind
<1>3. CurrentLine = CASE row = -1 -> Line(<<>>, <<Text("==>")>>)
                      [] row = 0  -> Line(Columns[kind], <<>>)
                      [] row \in DOMAIN objects -> Line(<<>>, Cells(kind, objects[row]))
                      [] OTHER -> BlankLine
  BY Zenon DEF CurrentLine, LineAt, objects, kind
<1>4. CASE row = -1
  <2>1. CurrentLine = Line(<<>>, <<Text("==>")>>)
    BY <1>2, <1>3, <1>4
  <2>2. CurrentLine # BlankLine
    BY <2>1 DEF BlankLine, Line
  <2> QED
    BY <1>1, <1>2, <1>4, <2>1, <2>2 DEF objects
<1>5. CASE row = 0
  <2>1. CurrentLine = Line(Columns[kind], <<>>)
    BY <1>2, <1>3, <1>5
  <2>2. CurrentLine # BlankLine
    <3>1. LabelsOf(CurrentLine) # {}
      BY <1>2, <2>1, HeaderLabels DEF Kinds
    <3>2. LabelsOf(BlankLine) = {}
      BY DEF LabelsOf, BlankLine, Line
    <3> QED
      BY <3>1, <3>2
  <2> QED
    BY <1>1, <1>2, <1>5, <2>1, <2>2 DEF objects, kind
<1>6. CASE row \in DOMAIN objects
  <2>1. CurrentLine = RowOf(kind, objects[row])
    BY <1>2, <1>3, <1>6 DEF RowOf
  <2>2. Len(Cells(kind, objects[row])) \in 1..6
    BY <1>2, CellsThere
  <2>3. CurrentLine # BlankLine
    <3>1. Len(CurrentLine.cells) \in 1..6
      <4>1. CurrentLine.cells = Cells(kind, objects[row])
        BY <2>1, Zenon DEF RowOf, Line
      <4> QED
        BY <2>2, <4>1
    <3>2. Len(BlankLine.cells) = 0
      BY DEF BlankLine, Line
    <3>3. CurrentLine = BlankLine => 0 \in 1..6
      BY <3>1, <3>2, Zenon
    <3> QED
      BY <3>3
  <2> QED
    BY <1>1, <1>2, <1>6, <2>1, <2>3 DEF objects, kind
<1>7. CASE row = Len(objects) + 1
  <2>1. CurrentLine = BlankLine
    BY <1>2, <1>3, <1>7
  <2> QED
    BY <1>1, <1>2, <1>7, <2>1 DEF objects
<1> QED
  BY <1>2, <1>4, <1>5, <1>6, <1>7

\* What a row adds to the status.
Adds(kind, o) ==
  /\ status'.desired = IF kind \in Workloads THEN status.desired + o.desired ELSE status.desired
  /\ status'.available =
       IF kind = "Deployment" THEN status.available + o.available
       ELSE IF kind = "StatefulSet" THEN status.available + o.current ELSE status.available
  /\ IF kind = "Service"
     THEN \E read : SameService(read, o) /\ status'.services = Append(status.services, read)
     ELSE status'.services = status.services
  /\ IF kind = "Ingress"
     THEN \E read : /\ SameIngress(read, o) /\ read.port \in Nat
                    /\ status'.ingresses = Append(status.ingresses, read)
     ELSE status'.ingresses = status.ingresses

LEMMA RowAdds ==
  ASSUME NEW kind \in Kinds, col = HeaderColumns(kind), NEW o, kind = "Service" => IsService(o),
         Shape, status' = Counted(RowOf(kind, o))
  PROVE  /\ DOMAIN status' = DOMAIN status /\ status' = [f \in DOMAIN status' |-> status'[f]]
         /\ status'.flags = status.flags
         /\ Adds(kind, o)
<1> DEFINE line == RowOf(kind, o)
<1>1. \A t \in Tables : IsRow(line, t) <=> t \in TableOf(kind)
  BY RowOfTable, RowHasNoLabels DEF RowOf
<1>2. /\ IsRow(line, "replicas") <=> kind \in Workloads
      /\ IsRow(line, "services") <=> kind = "Service"
      /\ IsRow(line, "ingresses") <=> kind = "Ingress"
  BY <1>1 DEF TableOf, Tables, Workloads, Kinds
<1> HIDE DEF line
<1>3. /\ DOMAIN status' = DOMAIN status /\ status' = [f \in DOMAIN status' |-> status'[f]]
      /\ status'.flags = status.flags
      /\ status'.desired =
           IF kind \in Workloads THEN status.desired + Atoi(Cell(line, "DESIRED")) ELSE status.desired
      /\ status'.available =
           IF kind \in Workloads THEN status.available + AvailableIn(line) ELSE status.available
      /\ status'.services =
           IF kind = "Service" THEN Append(status.services, ServiceIn(line)) ELSE status.services
      /\ status'.ingresses =
           IF kind = "Ingress" THEN Append(status.ingresses, IngressIn(line)) ELSE status.ingresses
  <2>1. status' = Counted(line)
    BY DEF line
  <2> QED
    BY <1>2, <2>1, CountedFields DEF Shape
<1>4. kind \in Workloads =>
        /\ Atoi(Cell(line, "DESIRED")) = o.desired
        /\ AvailableIn(line) = IF kind = "Deployment" THEN o.available ELSE o.current
  BY WorkloadRow DEF line
<1>5. kind = "Service" => SameService(ServiceIn(line), o)
  BY ServiceRow DEF line
<1>6. kind = "Ingress" => SameIngress(IngressIn(line), o) /\ IngressIn(line).port \in Nat
  BY IngressRow DEF line
<1>7. Adds(kind, o)
  BY <1>3, <1>4, <1>5, <1>6 DEF Adds, Workloads
<1> QED
  BY <1>3, <1>7

\* A row that counts: below a header.
RowCounts == row \in DOMAIN release[group].objects /\ HasHeader(release, group)

\* Every line is read as what it is: only rows below a header add to the status,
\* and no line is too short.
LEMMA LineScanned ==
  ASSUME Position, Shape, ScanLine
  PROVE  /\ group \in DOMAIN release /\ row # Len(release[group].objects) + 1
         /\ UNCHANGED <<release, group, outcome>> /\ row' = RowAfter(release, group, row)
         /\ col' = Known'
         /\ DOMAIN status' = DOMAIN status /\ status' = [f \in DOMAIN status' |-> status'[f]]
         /\ status'.flags = status.flags
         /\ IF RowCounts THEN Adds(release[group].kind, release[group].objects[row])
            ELSE status' = status
<1> DEFINE objects == release[group].objects
           kind == release[group].kind
           line == CurrentLine
<1>1. /\ group <= Len(release) /\ line # BlankLine
      /\ UNCHANGED <<release, group>> /\ row' = RowAfter(release, group, row)
      /\ col' = Learned(line)
      /\ ~Short(line) => status' = Counted(line) /\ outcome' = outcome
  BY DEF ScanLine, Scanning
<1>2. /\ group \in DOMAIN release
      /\ row = -1 => line = Line(<<>>, <<Text("==>")>>)
      /\ row = 0 => line = Line(Columns[kind], <<>>)
      /\ row \in DOMAIN objects => line = RowOf(kind, objects[row])
      /\ row # Len(objects) + 1
      /\ row \in {-1, 0} \/ row \in DOMAIN objects
  BY <1>1, LineRead
<1>3. /\ kind \in Kinds /\ Len(objects) \in Nat \ {0} /\ DOMAIN objects = 1..Len(objects)
      /\ kind = "Service" => \A j \in DOMAIN objects : IsService(objects[j])
  BY <1>2, GroupShape
<1>4. col = Known /\ (row = 0 => HasHeader(release, group))
  BY <1>1 DEF Position
<1>5. /\ HasHeader(release, group)' = HasHeader(release, group)
      /\ release'[group'].kind = kind
      /\ group' <= Len(release') <=> group <= Len(release)
  BY <1>1 DEF HasHeader
<1>6. Known' = IF row' >= 1 /\ HasHeader(release, group) THEN HeaderColumns(kind) ELSE NoColumns
  BY <1>1, <1>5, Zenon DEF Known
<1> HIDE DEF objects, kind, line
<1>7. Known = IF row >= 1 /\ HasHeader(release, group) THEN HeaderColumns(kind) ELSE NoColumns
  BY <1>1, Zenon DEF Known, kind
<1>8. NoColumns = [l \in Labels |-> NoColumns[l]] /\ HeaderColumns(kind) = [l \in Labels |-> HeaderColumns(kind)[l]]
  BY DEF NoColumns, HeaderColumns
<1>9. CASE row = -1
  <2>1. col = NoColumns
    BY <1>4, <1>7, <1>9
  <2>2. ~Short(line) /\ Counted(line) = status
    BY <2>1, NoRow, NothingRead DEF Shape
  <2>3. LabelsOf(line) = {}
    BY <1>2, <1>9, RowHasNoLabels
  <2>4. Learned(line) = NoColumns
    BY <1>8, <2>1, <2>3, ColumnsKept
  <2>5. row' = IF HasHeader(release, group) THEN 0 ELSE 1
    BY <1>1, <1>9 DEF RowAfter
  <2>6. ~RowCounts
    BY <1>3, <1>9 DEF RowCounts, objects
  <2> QED
    BY <1>1, <1>2, <1>6, <2>2, <2>4, <2>5, <2>6 DEF Shape, objects
<1>10. CASE row = 0
  <2>1. col = NoColumns
    BY <1>4, <1>7, <1>10
  <2>2. ~Short(line) /\ Counted(line) = status
    BY <2>1, NoRow, NothingRead DEF Shape
  <2>3. Learned(line) = HeaderColumns(kind)
    BY <1>2, <1>3, <1>10, <2>1, HeaderLearned
  <2>4. row' = 1
    BY <1>1, <1>10 DEF RowAfter
  <2>5. ~RowCounts
    BY <1>3, <1>10 DEF RowCounts, objects
  <2> QED
    BY <1>1, <1>2, <1>4, <1>6, <1>10, <2>2, <2>3, <2>4, <2>5 DEF Shape, objects
<1>11. CASE row \in DOMAIN objects
  <2>1. line = RowOf(kind, objects[row]) /\ LabelsOf(line) = {}
    BY <1>2, <1>11, RowHasNoLabels DEF RowOf
  <2>2. row >= 1 /\ row' = row + 1 /\ row' >= 1
    BY <1>1, <1>3, <1>11 DEF RowAfter
  <2>3. Learned(line) = col
    BY <1>4, <1>7, <1>8, <2>1, ColumnsKept
  <2>4. col' = Known'
    BY <1>1, <1>4, <1>6, <1>7, <2>2, <2>3
  <2>5. CASE HasHeader(release, group)
    <3>1. col = HeaderColumns(kind)
      BY <1>4, <1>7, <2>2, <2>5
    <3>2. ~Short(line)
      BY <1>3, <2>1, <3>1, RowNotShort
    <3>3. status' = Counted(RowOf(kind, objects[row])) /\ outcome' = outcome
      BY <1>1, <2>1, <3>2
    <3>4. kind = "Service" => IsService(objects[row])
      BY <1>3, <1>11
    <3>5. /\ DOMAIN status' = DOMAIN status /\ status' = [f \in DOMAIN status' |-> status'[f]]
          /\ status'.flags = status.flags
          /\ Adds(kind, objects[row])
      BY <1>3, <3>1, <3>3, <3>4, RowAdds
    <3>6. RowCounts
      BY <1>11, <2>5 DEF RowCounts, objects
    <3> QED
      BY <1>1, <1>2, <2>4, <3>3, <3>5, <3>6 DEF objects, kind
  <2>6. CASE ~HasHeader(release, group)
    <3>1. col = NoColumns
      BY <1>4, <1>7, <2>6
    <3>2. ~Short(line) /\ Counted(line) = status
      BY <3>1, NoRow, NothingRead DEF Shape
    <3>3. ~RowCounts
      BY <2>6 DEF RowCounts
    <3> QED
      BY <1>1, <1>2, <2>4, <3>2, <3>3 DEF Shape, objects
  <2> QED
    BY <2>5, <2>6
<1> QED
  BY <1>2, <1>9, <1>10, <1>11

-----------------------------------------------------------------------------
(***************************************************************************)
(* Steps.                                                                  *)
(***************************************************************************)
\* A blank line ends a group that was read to its end.
LEMMA BlankScanned ==
  ASSUME Position, ScanBlank
  PROVE  /\ group \in DOMAIN release /\ row = Len(release[group].objects) + 1
         /\ UNCHANGED <<release, status, outcome>>
         /\ group' = group + 1 /\ row' = -1 /\ col' = NoColumns
         /\ outcome = "scanning"
<1>1. group <= Len(release) /\ CurrentLine = BlankLine
  BY DEF ScanBlank, Scanning
<1> QED
  BY <1>1, LineRead DEF ScanBlank, Scanning

LEMMA PositionKept ==
  ASSUME Position, Shape, ScanBlank \/ ScanLine \/ Finish
  PROVE  Position'
<1> USE DEF Position
<1>1. CASE ScanBlank
  <2>1. /\ group \in DOMAIN release /\ row = Len(release[group].objects) + 1
        /\ UNCHANGED <<release, status, outcome>>
        /\ group' = group + 1 /\ row' = -1 /\ col' = NoColumns /\ outcome = "scanning"
    BY <1>1, BlankScanned
  <2>2. Len(release) \in Nat /\ DOMAIN release = 1..Len(release)
    BY GroupShape
  <2>3. group' \in 1..Len(release') + 1
    BY <2>1, <2>2
  <2>4. col' = Known'
    BY <2>1 DEF Known
  <2>5. ASSUME group' <= Len(release')
        PROVE  row' \in -1..Len(release'[group'].objects) + 1
    <3>1. group' \in DOMAIN release'
      BY <2>1, <2>2, <2>5
    <3>2. Len(release[group'].objects) \in Nat
      BY <2>1, <3>1, GroupShape
    <3> QED
      BY <2>1, <3>2
  <2> QED
    BY <2>1, <2>2, <2>3, <2>4, <2>5
<1>2. CASE ScanLine
  <2>1. /\ group \in DOMAIN release /\ row # Len(release[group].objects) + 1
        /\ UNCHANGED <<release, group, outcome>> /\ row' = RowAfter(release, group, row)
        /\ col' = Known'
    BY <1>2, LineScanned
  <2>2. /\ Len(release) \in Nat /\ DOMAIN release = 1..Len(release)
        /\ Len(release[group].objects) \in Nat \ {0}
    BY <2>1, GroupShape
  <2>3. group <= Len(release)
    BY <2>1, <2>2
  <2>4. /\ row' \in -1..Len(release[group].objects) + 1
        /\ row' = 0 => HasHeader(release, group)
    BY <2>1, <2>2, <2>3 DEF RowAfter
  <2>5. HasHeader(release, group)' = HasHeader(release, group)
    BY <2>1 DEF HasHeader
  <2> QED
    BY <2>1, <2>3, <2>4, <2>5
<1>3. CASE Finish
  <2>1. Known' = Known /\ HasHeader(release, group)' = HasHeader(release, group)
    BY <1>3 DEF Finish, Known, HasHeader
  <2> QED
    BY <1>3, <2>1 DEF Finish
<1> QED
  BY <1>1, <1>2, <1>3

LEMMA ShapeKept ==
  ASSUME Position, Shape, ScanBlank \/ ScanLine \/ Finish
  PROVE  Shape'
<1>1. CASE ScanBlank
  BY <1>1, BlankScanned DEF Shape
<1>2. CASE ScanLine
  <2> DEFINE kind == release[group].kind
             o == release[group].objects[row]
  <2>1. CASE ~RowCounts
    BY <1>2, <2>1, LineScanned DEF Shape
  <2>2. CASE RowCounts
    <3>1. /\ DOMAIN status' = DOMAIN status /\ status' = [f \in DOMAIN status' |-> status'[f]]
          /\ status'.flags = status.flags
          /\ Adds(kind, o) /\ group \in DOMAIN release
      BY <1>2, <2>2, LineScanned
    <3>2. kind \in Workloads => IsWorkload(o)
      BY <2>2, <3>1, GroupShape DEF RowCounts
    <3> HIDE DEF kind, o
    <3>3. status'.desired \in Nat /\ status'.available \in Nat
      BY <3>1, <3>2 DEF Adds, IsWorkload, Shape, Workloads
    <3>4. IsSequence(status'.services)
      <4>1. CASE status'.services = status.services
        BY <4>1 DEF Shape
      <4>2. CASE \E read : status'.services = Append(status.services, read)
        BY <4>2, SequenceExtended DEF Shape
      <4> QED
        BY <3>1, <4>1, <4>2 DEF Adds
    <3>5. IsSequence(status'.ingresses) /\ \A i \in DOMAIN status'.ingresses : status'.ingresses[i].port \in Nat
      <4>1. CASE status'.ingresses = status.ingresses
        BY <4>1 DEF Shape
      <4>2. CASE \E read : read.port \in Nat /\ status'.ingresses = Append(status.ingresses, read)
        <5>1. PICK read : read.port \in Nat /\ status'.ingresses = Append(status.ingresses, read)
          BY <4>2
        <5> QED
          BY <5>1, SequenceExtended DEF Shape
      <4> QED
        BY <3>1, <4>1, <4>2 DEF Adds
    <3> QED
      BY <3>1, <3>3, <3>4, <3>5 DEF Shape
  <2> QED
    BY <2>1, <2>2
<1>3. CASE Finish
  <2>1. PICK code \in Codes, passed \in BOOLEAN :
          status' = [status EXCEPT !.flags = Flags(code, passed /\ Late)]
    BY <1>3 DEF Finish
  <2>2. Flags(code, passed /\ Late) \subseteq {"failed", "deployed", "deleted", "deleting"}
    BY DEF Flags
  <2> HIDE DEF Flags
  <2>3. /\ DOMAIN status' = DOMAIN status /\ status' = [f \in DOMAIN status' |-> status'[f]]
        /\ status'.desired = status.desired /\ status'.available = status.available
        /\ status'.services = status.services /\ status'.ingresses = status.ingresses
        /\ status'.flags = Flags(code, passed /\ Late)
    BY <2>1 DEF Shape
  <2> QED
    BY <2>2, <2>3 DEF Shape
<1> QED
  BY <1>1, <1>2, <1>3

\* What a step leaves as it was: the release, and what is said of it.
LEMMA ReleaseStays ==
  ASSUME release' = release
  PROVE  /\ AllAvailable' <=> AllAvailable
         /\ NoSurplus' <=> NoSurplus
         /\ \A kinds : Groups(kinds)' = Groups(kinds) /\ (OneVersion(kinds)' <=> OneVersion(kinds))
<1>1. \A kinds : Groups(kinds)' = Groups(kinds)
  BY DEF Groups
<1>2. \A kinds : OneVersion(kinds)' <=> OneVersion(kinds)
  BY <1>1 DEF OneVersion
<1>3. (AllAvailable' <=> AllAvailable) /\ (NoSurplus' <=> NoSurplus)
  BY <1>1 DEF AllAvailable, NoSurplus
<1> QED
  BY <1>1, <1>2, <1>3

\* A kind in one version has its header.
LEMMA HeaderOfOne ==
  ASSUME Position, NEW kinds, OneVersion(kinds), NEW i \in Groups(kinds)
  PROVE  HasHeader(release, i)
<1> SUFFICES ASSUME i # 1, release[i - 1].kind = release[i].kind PROVE FALSE
  BY DEF HasHeader
<1>1. DOMAIN release = 1..Len(release) /\ Len(release) \in Nat
  BY GroupShape
<1>2. i \in 1..Len(release)
  BY <1>1 DEF Groups
<1>3. i - 1 \in DOMAIN release
  BY <1>1, <1>2
<1>4. i - 1 \in Groups(kinds)
  BY <1>3 DEF Groups
<1>5. i - 1 = i
  BY <1>4 DEF OneVersion
<1> QED
  BY <1>2, <1>5

\* The row that is read is the next of its group; a blank line ends it.
LEMMA PastRead ==
  ASSUME Position, Shape, ScanLine, NEW i, i \in DOMAIN release
  PROVE  /\ Past(i) \in Nat /\ Past(i) <= Len(release[i].objects)
         /\ IF i = group /\ row \in DOMAIN release[i].objects
            THEN row = Past(i) + 1 /\ Past(i)' = row ELSE Past(i)' = Past(i)
<1>1. /\ group \in DOMAIN release /\ row # Len(release[group].objects) + 1
      /\ release' = release /\ group' = group /\ row' = RowAfter(release, group, row)
  BY LineScanned
<1>2. /\ Len(release) \in Nat /\ DOMAIN release = 1..Len(release)
      /\ Len(release[i].objects) \in Nat /\ DOMAIN release[i].objects = 1..Len(release[i].objects)
      /\ row \in -1..Len(release[group].objects) + 1
      /\ Len(release[group].objects) \in Nat
  BY <1>1, GroupShape DEF Position
<1>3. i # group => Past(i)' = Past(i)
  BY <1>1 DEF Past
<1>4. CASE i = group
  BY <1>1, <1>2, <1>4 DEF Past, RowAfter
<1>5. CASE i # group
  BY <1>2, <1>3, <1>5 DEF Past
<1> QED
  BY <1>4, <1>5

LEMMA PastEnded ==
  ASSUME Position, ScanBlank, NEW i, i \in DOMAIN release
  PROVE  Past(i)' = Past(i)
<1>1. /\ group \in DOMAIN release /\ row = Len(release[group].objects) + 1
      /\ release' = release /\ group' = group + 1 /\ row' = -1
  BY BlankScanned
<1>2. /\ Len(release) \in Nat /\ DOMAIN release = 1..Len(release)
      /\ Len(release[i].objects) \in Nat /\ Len(release[group].objects) \in Nat
  BY <1>1, GroupShape
<1> QED
  BY <1>1, <1>2 DEF Past

\* Only flags change in the end, and after it nothing.
LEMMA FinishJudges ==
  ASSUME Position, Shape, Finish
  PROVE  /\ UNCHANGED <<release, group, row, col>> /\ outcome' = "done"
         /\ status'.desired = status.desired /\ status'.available = status.available
         /\ status'.services = status.services /\ status'.ingresses = status.ingresses
         /\ {"deployed", "failed"} \subseteq status'.flags => status.available < status.desired
<1>1. PICK code \in Codes, passed \in BOOLEAN :
        status' = [status EXCEPT !.flags = Flags(code, passed /\ Late)]
  BY DEF Finish
<1>2. {"deployed", "failed"} \subseteq Flags(code, passed /\ Late) => status.available < status.desired
  <2>1. "deployed" \in Flags(code, passed /\ Late) => code = "DEPLOYED"
    BY DEF Flags
  <2>2. code = "DEPLOYED" /\ "failed" \in Flags(code, passed /\ Late) => Late
    BY DEF Flags
  <2> QED
    BY <2>1, <2>2 DEF Late
<1> HIDE DEF Flags
<1> QED
  BY <1>1, <1>2 DEF Finish, Shape

LEMMA BalancedKept ==
  ASSUME Position, Shape, Balanced, ScanBlank \/ ScanLine \/ Finish
  PROVE  Balanced'
<1>1. CASE ScanBlank
  BY <1>1, BlankScanned, ReleaseStays DEF Balanced
<1>2. CASE ScanLine
  <2> DEFINE kind == release[group].kind
             o == release[group].objects[row]
  <2>1. CASE ~RowCounts
    BY <1>2, <2>1, LineScanned, ReleaseStays DEF Balanced
  <2>2. CASE RowCounts
    <3> SUFFICES ASSUME AllAvailable PROVE status'.available >= status'.desired
      BY <1>2, LineScanned, ReleaseStays DEF Balanced
    <3>1. Adds(kind, o) /\ group \in DOMAIN release
      BY <1>2, <2>2, LineScanned
    <3>2. kind \in Workloads => IsWorkload(o)
      BY <2>2, <3>1, GroupShape DEF RowCounts
    <3>3. kind \in Workloads => o.available >= o.desired
      BY <2>2, <3>1 DEF RowCounts, AllAvailable, Groups
    <3>4. status.desired \in Nat /\ status.available \in Nat /\ status.available >= status.desired
      BY DEF Balanced, Shape
    <3> HIDE DEF kind, o
    <3>5. /\ status'.desired = IF kind \in Workloads THEN status.desired + o.desired ELSE status.desired
          /\ status'.available =
               IF kind = "Deployment" THEN status.available + o.available
               ELSE IF kind = "StatefulSet" THEN status.available + o.current ELSE status.available
      BY <3>1 DEF Adds
    <3>6. CASE kind \in Workloads
      BY <3>2, <3>3, <3>4, <3>5, <3>6 DEF IsWorkload, Workloads
    <3>7. CASE kind \notin Workloads
      BY <3>4, <3>5, <3>7 DEF Workloads
    <3> QED
      BY <3>6, <3>7
  <2> QED
    BY <2>1, <2>2
<1>3. CASE Finish
  BY <1>3, FinishJudges, ReleaseStays DEF Balanced
<1> QED
  BY <1>1, <1>2, <1>3

\* What is read, or not, of the objects of a kind that is there in one version:
\* its rows count, and no other.
LEMMA OwnRow ==
  ASSUME Position, Shape, ScanLine, NEW kinds, OneVersion(kinds), NEW i \in Groups(kinds)
  PROVE  /\ i \in DOMAIN release
         /\ Past(i)' = Past(i) \/ (i = group /\ RowCounts /\ row = Past(i) + 1 /\ Past(i)' = row)
         /\ i = group /\ RowCounts => row = Past(i) + 1 /\ Past(i)' = row
<1>1. i \in DOMAIN release
  BY DEF Groups
<1>2. HasHeader(release, i)
  BY HeaderOfOne
<1> QED
  BY <1>1, <1>2, PastRead DEF RowCounts

\* A row of a workload that lacks replicas, among rows that have no surplus, is
\* never made up for.
LEMMA MeasuredKept ==
  ASSUME Position, Shape, Measured, ScanBlank \/ ScanLine \/ Finish
  PROVE  Measured'
<1> DEFINE Premise == Groups({"StatefulSet"}) = {} /\ OneVersion(Workloads) /\ NoSurplus
           Lacks(i, j) == release[i].objects[j].available < release[i].objects[j].desired
<1>1. release' = release
  BY BlankScanned, LineScanned, FinishJudges
<1> SUFFICES ASSUME Premise
             PROVE  /\ status'.available <= status'.desired
                    /\ \A i \in Groups(Workloads) : \A j \in 1..Past(i)' :
                         Lacks(i, j) => status'.available < status'.desired
  BY <1>1, ReleaseStays DEF Measured
<1>2. /\ status.available <= status.desired
      /\ \A i \in Groups(Workloads) : \A j \in 1..Past(i) :
           Lacks(i, j) => status.available < status.desired
  BY DEF Measured
<1>3. status.desired \in Nat /\ status.available \in Nat
  BY DEF Shape
<1>4. \A i \in Groups(Workloads) : i \in DOMAIN release
  BY DEF Groups
<1>5. CASE ScanBlank
  <2>1. status' = status /\ \A i \in Groups(Workloads) : Past(i)' = Past(i)
    BY <1>4, <1>5, BlankScanned, PastEnded
  <2> QED
    BY <1>2, <2>1
<1>6. CASE ScanLine
  <2> DEFINE kind == release[group].kind
             o == release[group].objects[row]
  <2>1. CASE ~RowCounts
    <3>1. status' = status
      BY <1>6, <2>1, LineScanned
    <3>2. \A i \in Groups(Workloads) : Past(i)' = Past(i)
      BY <1>6, <2>1, OwnRow
    <3> QED
      BY <1>2, <3>1, <3>2
  <2>2. CASE RowCounts
    <3>1. Adds(kind, o) /\ group \in DOMAIN release
      BY <1>6, <2>2, LineScanned
    <3>2. kind # "StatefulSet"
      BY <3>1 DEF Groups
    <3>3. kind \in Workloads => IsWorkload(o)
      BY <2>2, <3>1, GroupShape DEF RowCounts
    <3>4. kind \in Workloads => o.available <= o.desired
      BY <2>2, <3>1 DEF RowCounts, NoSurplus, Groups
    <3>5. ASSUME NEW i \in Groups(Workloads), NEW j \in 1..Past(i)', Lacks(i, j)
          PROVE  \/ status.available < status.desired
                 \/ kind \in Workloads /\ o.available < o.desired
      <4>1. Past(i) \in Nat
        BY <1>4, <1>6, PastRead
      <4>2. CASE Past(i)' = Past(i)
        BY <1>2, <3>5, <4>2
      <4>3. CASE i = group /\ row = Past(i) + 1 /\ Past(i)' = row
        <5>1. j \in 1..Past(i) \/ j = row
          BY <4>1, <4>3
        <5>2. kind \in Workloads
          BY <4>3 DEF Groups
        <5> QED
          BY <1>2, <3>5, <4>3, <5>1, <5>2
      <4> QED
        BY <1>6, <4>2, <4>3, OwnRow
    <3> HIDE DEF kind, o, Lacks
    <3>6. CASE kind \in Workloads
      <4>1. status'.desired = status.desired + o.desired /\ status'.available = status.available + o.available
        BY <3>1, <3>2, <3>6 DEF Adds, Workloads
      <4>2. o.desired \in Nat /\ o.available \in Nat
        BY <3>3, <3>6 DEF IsWorkload
      <4>3. status'.available <= status'.desired
        BY <1>2, <1>3, <3>4, <3>6, <4>1, <4>2
      <4>4. status.available < status.desired \/ o.available < o.desired => status'.available < status'.desired
        BY <1>2, <1>3, <3>4, <3>6, <4>1, <4>2
      <4> QED
        BY <3>5, <4>3, <4>4
    <3>7. CASE kind \notin Workloads
      <4>1. status'.desired = status.desired /\ status'.available = status.available
        BY <3>1, <3>7 DEF Adds, Workloads
      <4> QED
        BY <1>2, <3>5, <3>7, <4>1
    <3> QED
      BY <3>6, <3>7
  <2> QED
    BY <2>1, <2>2
<1>7. CASE Finish
  <2>1. status'.desired = status.desired /\ status'.available = status.available /\ UNCHANGED <<release, group, row>>
    BY <1>7, FinishJudges
  <2>2. \A i \in Groups(Workloads) : Past(i)' = Past(i)
    BY <2>1 DEF Past
  <2> QED
    BY <1>2, <2>1, <2>2
<1> QED
  BY <1>5, <1>6, <1>7

LEMMA ServicesListedKept ==
  ASSUME Position, Shape, ServicesListed, ScanBlank \/ ScanLine \/ Finish
  PROVE  ServicesListed'
<1> DEFINE K == Groups({"Service"})
<1>1. release' = release
  BY BlankScanned, LineScanned, FinishJudges
<1> SUFFICES ASSUME OneVersion({"Service"})
             PROVE  /\ K = {} => status'.services = <<>>
                    /\ \A i \in K :
                         /\ Len(status'.services) = Past(i)'
                         /\ \A j \in 1..Past(i)' : SameService(status'.services[j], release[i].objects[j])
  BY <1>1, ReleaseStays DEF ServicesListed
<1>2. /\ K = {} => status.services = <<>>
      /\ \A i \in K :
           /\ Len(status.services) = Past(i)
           /\ \A j \in 1..Past(i) : SameService(status.services[j], release[i].objects[j])
  BY DEF ServicesListed
<1>3. \A i \in K : i \in DOMAIN release
  BY DEF Groups
<1>4. CASE status'.services = status.services /\ \A i \in K : Past(i)' = Past(i)
  BY <1>2, <1>4
<1>5. CASE ScanBlank
  BY <1>3, <1>4, <1>5, BlankScanned, PastEnded
<1>6. CASE Finish
  <2>1. status'.services = status.services /\ UNCHANGED <<release, group, row>>
    BY <1>6, FinishJudges
  <2>2. \A i \in K : Past(i)' = Past(i)
    BY <2>1 DEF Past
  <2> QED
    BY <1>4, <2>1, <2>2
<1>7. CASE ScanLine
  <2> DEFINE kind == release[group].kind
             o == release[group].objects[row]
  <2>1. CASE ~RowCounts
    <3>1. status' = status /\ \A i \in K : Past(i)' = Past(i)
      BY <1>7, <2>1, LineScanned, OwnRow
    <3> QED
      BY <1>4, <3>1
  <2>2. CASE RowCounts /\ kind # "Service"
    <3>1. status'.services = status.services
      BY <1>7, <2>2, LineScanned DEF Adds
    <3>2. \A i \in K : Past(i)' = Past(i)
      <4>1. \A i \in K : i # group
        BY <2>2 DEF Groups
      <4> QED
        BY <1>7, <4>1, OwnRow
    <3> QED
      BY <1>4, <3>1, <3>2
  <2>3. CASE RowCounts /\ kind = "Service"
    <3>1. PICK read : SameService(read, o) /\ status'.services = Append(status.services, read)
      BY <1>7, <2>3, LineScanned DEF Adds
    <3>2. group \in K
      <4>1. group \in DOMAIN release
        BY <1>7, LineScanned
      <4> QED
        BY <2>3, <4>1 DEF Groups
    <3>3. \A i \in K : i = group
      BY <2>3, <3>2 DEF OneVersion, Groups
    <3>4. \A i \in K : row = Past(i) + 1 /\ Past(i)' = row /\ Past(i) \in Nat
      BY <1>3, <1>7, <2>3, <3>3, OwnRow, PastRead
    <3>5. /\ Len(status'.services) = Len(status.services) + 1
          /\ \A j \in 1..Len(status.services) : status'.services[j] = status.services[j]
          /\ status'.services[Len(status.services) + 1] = read
      BY <3>1, SequenceExtended DEF Shape
    <3>6. ASSUME NEW i \in K
          PROVE  /\ Len(status'.services) = Past(i)'
                 /\ \A j \in 1..Past(i)' : SameService(status'.services[j], release[i].objects[j])
      <4>1. Len(status'.services) = Past(i)'
        BY <1>2, <3>4, <3>5
      <4>2. ASSUME NEW j \in 1..Past(i), j \in 1..Len(status.services)
            PROVE  SameService(status'.services[j], release[i].objects[j])
        <5>1. SameService(status.services[j], release[i].objects[j])
          BY <1>2
        <5> QED
          BY <3>5, <4>2, <5>1
      <4>3. SameService(status'.services[row], release[i].objects[row])
        <5>1. status'.services[row] = read /\ release[i].objects[row] = o
          BY <1>2, <3>3, <3>4, <3>5
        <5> QED
          BY <3>1, <5>1
      <4> QED
        BY <1>2, <3>4, <4>1, <4>2, <4>3
    <3> QED
      BY <3>2, <3>6
  <2> QED
    BY <2>1, <2>2, <2>3
<1> QED
  BY <1>5, <1>6, <1>7

LEMMA IngressesListedKept ==
  ASSUME Position, Shape, IngressesListed, ScanBlank \/ ScanLine \/ Finish
  PROVE  IngressesListed'
<1> DEFINE K == Groups({"Ingress"})
<1>1. release' = release
  BY BlankScanned, LineScanned, FinishJudges
<1> SUFFICES ASSUME OneVersion({"Ingress"})
             PROVE  /\ K = {} => status'.ingresses = <<>>
                    /\ \A i \in K :
                         /\ Len(status'.ingresses) = Past(i)'
                         /\ \A j \in 1..Past(i)' : SameIngress(status'.ingresses[j], release[i].objects[j])
  BY <1>1, ReleaseStays DEF IngressesListed
<1>2. /\ K = {} => status.ingresses = <<>>
      /\ \A i \in K :
           /\ Len(status.ingresses) = Past(i)
           /\ \A j \in 1..Past(i) : SameIngress(status.ingresses[j], release[i].objects[j])
  BY DEF IngressesListed
<1>3. \A i \in K : i \in DOMAIN release
  BY DEF Groups
<1>4. CASE status'.ingresses = status.ingresses /\ \A i \in K : Past(i)' = Past(i)
  BY <1>2, <1>4
<1>5. CASE ScanBlank
  BY <1>3, <1>4, <1>5, BlankScanned, PastEnded
<1>6. CASE Finish
  <2>1. status'.ingresses = status.ingresses /\ UNCHANGED <<release, group, row>>
    BY <1>6, FinishJudges
  <2>2. \A i \in K : Past(i)' = Past(i)
    BY <2>1 DEF Past
  <2> QED
    BY <1>4, <2>1, <2>2
<1>7. CASE ScanLine
  <2> DEFINE kind == release[group].kind
             o == release[group].objects[row]
  <2>1. CASE ~RowCounts
    <3>1. status' = status /\ \A i \in K : Past(i)' = Past(i)
      BY <1>7, <2>1, LineScanned, OwnRow
    <3> QED
      BY <1>4, <3>1
  <2>2. CASE RowCounts /\ kind # "Ingress"
    <3>1. status'.ingresses = status.ingresses
      BY <1>7, <2>2, LineScanned DEF Adds
    <3>2. \A i \in K : Past(i)' = Past(i)
      <4>1. \A i \in K : i # group
        BY <2>2 DEF Groups
      <4> QED
        BY <1>7, <4>1, OwnRow
    <3> QED
      BY <1>4, <3>1, <3>2
  <2>3. CASE RowCounts /\ kind = "Ingress"
    <3>1. PICK read : SameIngress(read, o) /\ read.port \in Nat /\ status'.ingresses = Append(status.ingresses, read)
      BY <1>7, <2>3, LineScanned DEF Adds
    <3>2. group \in K
      <4>1. group \in DOMAIN release
        BY <1>7, LineScanned
      <4> QED
        BY <2>3, <4>1 DEF Groups
    <3>3. \A i \in K : i = group
      BY <2>3, <3>2 DEF OneVersion, Groups
    <3>4. \A i \in K : row = Past(i) + 1 /\ Past(i)' = row /\ Past(i) \in Nat
      BY <1>3, <1>7, <2>3, <3>3, OwnRow, PastRead
    <3>5. /\ Len(status'.ingresses) = Len(status.ingresses) + 1
          /\ \A j \in 1..Len(status.ingresses) : status'.ingresses[j] = status.ingresses[j]
          /\ status'.ingresses[Len(status.ingresses) + 1] = read
      BY <3>1, SequenceExtended DEF Shape
    <3>6. ASSUME NEW i \in K
          PROVE  /\ Len(status'.ingresses) = Past(i)'
                 /\ \A j \in 1..Past(i)' : SameIngress(status'.ingresses[j], release[i].objects[j])
      <4>1. Len(status'.ingresses) = Past(i)'
        BY <1>2, <3>4, <3>5
      <4>2. ASSUME NEW j \in 1..Past(i), j \in 1..Len(status.ingresses)
            PROVE  SameIngress(status'.ingresses[j], release[i].objects[j])
        <5>1. SameIngress(status.ingresses[j], release[i].objects[j])
          BY <1>2
        <5> QED
          BY <3>5, <4>2, <5>1
      <4>3. SameIngress(status'.ingresses[row], release[i].objects[row])
        <5>1. status'.ingresses[row] = read /\ release[i].objects[row] = o
          BY <1>2, <3>3, <3>4, <3>5
        <5> QED
          BY <3>1, <5>1
      <4> QED
        BY <1>2, <3>4, <4>1, <4>2, <4>3
    <3> QED
      BY <3>2, <3>6
  <2> QED
    BY <2>1, <2>2, <2>3
<1> QED
  BY <1>5, <1>6, <1>7

LEMMA JudgedKept ==
  ASSUME Position, Shape, Judged, ScanBlank \/ ScanLine \/ Finish
  PROVE  Judged'
<1>1. CASE ScanBlank
  BY <1>1, BlankScanned DEF Judged
<1>2. CASE ScanLine
  <2>1. outcome' = "scanning"
    BY <1>2, LineScanned DEF ScanLine, Scanning
  <2> QED
    BY <2>1 DEF Judged
<1>3. CASE Finish
  BY <1>3, FinishJudges DEF Judged
<1> QED
  BY <1>1, <1>2, <1>3

\* Nothing changes between the lines.
LEMMA StatusStutters ==
  ASSUME IInv, UNCHANGED vars
  PROVE  IInv'
<1> USE DEF vars
<1>1. HasHeader(release, group)' = HasHeader(release, group) /\ \A i : Past(i)' = Past(i)
  BY DEF HasHeader, Past
<1>2. Position'
  <2>1. Known' = Known
    BY <1>1 DEF Known
  <2> QED
    BY <1>1, <2>1 DEF IInv, Position
<1>3. Shape' /\ Judged'
  BY DEF IInv, Shape, Judged
<1>4. Balanced' /\ Measured'
  BY <1>1, ReleaseStays DEF IInv, Balanced, Measured
<1>5. ServicesListed' /\ IngressesListed'
  BY <1>1, ReleaseStays DEF IInv, ServicesListed, IngressesListed
<1> QED
  BY <1>2, <1>3, <1>4, <1>5 DEF IInv

LEMMA StatusInvariant == Spec => []IInv
<1>1. Init => IInv
  BY StatusInit
<1>2. IInv /\ [Next]_vars => IInv'
  <2> SUFFICES ASSUME IInv, [Next]_vars PROVE IInv'
    OBVIOUS
  <2>1. CASE ScanBlank \/ ScanLine \/ Finish
    BY <2>1, PositionKept, ShapeKept, BalancedKept, MeasuredKept, ServicesListedKept,
       IngressesListedKept, JudgedKept DEF IInv
  <2>2. CASE UNCHANGED vars
    BY <2>2, StatusStutters
  <2> QED
    BY <2>1, <2>2 DEF Next, Returned
<1> QED
  BY <1>1, <1>2, PTL DEF Spec

-----------------------------------------------------------------------------
(***************************************************************************)
(* The properties.                                                         *)
(***************************************************************************)
\* When a status is returned, every object has been read.
LEMMA AllRead ==
  ASSUME Position, Done, NEW i, i \in DOMAIN release
  PROVE  Past(i) = Len(release[i].objects) /\ DOMAIN release[i].objects = 1..Past(i)
<1>1. group > Len(release) /\ i < group
  BY GroupShape DEF Position, Done
<1>2. Past(i) = Len(release[i].objects)
  BY <1>1 DEF Past
<1> QED
  BY <1>2, GroupShape

\* The status and the position of the scanner keep their types: the totals are
\* natural numbers, and a known column is one of the table's.
THEOREM StatusTypes == Spec => []TypeOK
<1>1. IInv => TypeOK
  <2> SUFFICES ASSUME IInv PROVE TypeOK
    OBVIOUS
  <2> USE DEF IInv
  <2>1. row \in Int
    <3>1. CASE group <= Len(release)
      <4>1. group \in DOMAIN release
        BY <3>1, GroupShape DEF Position
      <4>2. Len(release[group].objects) \in Nat
        BY <4>1, GroupShape
      <4> QED
        BY <3>1, <4>2 DEF Position
    <3>2. CASE ~(group <= Len(release))
      BY <3>2 DEF Position
    <3> QED
      BY <3>1, <3>2
  <2>2. col \in [Labels -> 0..6]
    <3>1. \A kind, l : Place(kind, l) \in 0..6
      BY DEF Place
    <3>2. \A kind : HeaderColumns(kind) \in [Labels -> 0..6]
      BY <3>1 DEF HeaderColumns
    <3>3. NoColumns \in [Labels -> 0..6]
      BY DEF NoColumns
    <3> QED
      BY <3>2, <3>3 DEF Position, Known
  <2> QED
    BY <2>1, <2>2 DEF TypeOK, Position, Shape
<1> QED
  BY <1>1, StatusInvariant, PTL

\* convertByteToStatus slices no line behind its end, whatever the release is
\* made of and in whatever order Tiller prints it.
THEOREM StatusNeverPanics == Spec => []NeverPanics
<1>1. IInv => NeverPanics
  BY DEF IInv, Position, NeverPanics
<1> QED
  BY <1>1, StatusInvariant, PTL

\* A workload that lacks replicas shows in the totals that the last operation
\* is judged by.
THEOREM UnavailableSeen == Spec => []UnavailableIsSeen
<1>1. IInv => UnavailableIsSeen
  <2> SUFFICES ASSUME IInv, Done, Groups({"StatefulSet"}) = {}, OneVersion(Workloads), NoSurplus, ~AllAvailable
               PROVE  status.available < status.desired
    BY DEF UnavailableIsSeen
  <2>1. PICK i \in Groups(Workloads) : \E j \in DOMAIN release[i].objects :
          ~(release[i].objects[j].available >= release[i].objects[j].desired)
    BY DEF AllAvailable
  <2>2. PICK j \in DOMAIN release[i].objects : ~(release[i].objects[j].available >= release[i].objects[j].desired)
    BY <2>1
  <2>3. i \in DOMAIN release /\ release[i].kind \in Workloads
    BY DEF Groups
  <2>4. j \in 1..Past(i)
    BY <2>3, AllRead DEF IInv
  <2>5. IsWorkload(release[i].objects[j])
    BY <2>3, GroupShape DEF IInv
  <2>6. release[i].objects[j].available < release[i].objects[j].desired
    BY <2>2, <2>5 DEF IsWorkload
  <2> QED
    BY <2>4, <2>6 DEF IInv, Measured
<1> QED
  BY <1>1, StatusInvariant, PTL

\* A deployed release that has its replicas is not called failed, and its last
\* operation succeeds.
THEOREM AvailableNeverFailed == Spec => []AvailableNeverFails
<1>1. IInv => AvailableNeverFails
  <2> SUFFICES ASSUME IInv, Done, "deployed" \in status.flags, AllAvailable
               PROVE  "failed" \notin status.flags /\ status.available >= status.desired
    BY DEF AvailableNeverFails
  <2>1. status.available >= status.desired /\ status.available \in Nat /\ status.desired \in Nat
    BY DEF IInv, Balanced, Shape
  <2>2. "failed" \in status.flags => status.available < status.desired
    BY DEF IInv, Judged, Done
  <2> QED
    BY <2>1, <2>2
<1> QED
  BY <1>1, StatusInvariant, PTL

\* The services the credentials are made from are those of the release, in
\* order, with their ports, and with the addresses that are printed whole.
THEOREM ServicesRead == Spec => []ServicesKept
<1>1. IInv => ServicesKept
  <2> SUFFICES ASSUME IInv, Done, OneVersion({"Service"})
               PROVE  /\ Groups({"Service"}) = {} => status.services = <<>>
                      /\ \A i \in Groups({"Service"}) :
                           /\ Len(status.services) = Len(release[i].objects)
                           /\ \A j \in DOMAIN release[i].objects :
                                SameService(status.services[j], release[i].objects[j])
    BY DEF ServicesKept
  <2>1. ASSUME NEW i \in Groups({"Service"})
        PROVE  Past(i) = Len(release[i].objects) /\ DOMAIN release[i].objects = 1..Past(i)
    BY AllRead DEF IInv, Groups
  <2> QED
    BY <2>1 DEF IInv, ServicesListed
<1> QED
  BY <1>1, StatusInvariant, PTL

\* So are the ingresses, with their host and, while they have no address, port.
THEOREM IngressesRead == Spec => []IngressesKept
<1>1. IInv => IngressesKept
  <2> SUFFICES ASSUME IInv, Done, OneVersion({"Ingress"})
               PROVE  /\ Groups({"Ingress"}) = {} => status.ingresses = <<>>
                      /\ \A i \in Groups({"Ingress"}) :
                           /\ Len(status.ingresses) = Len(release[i].objects)
                           /\ \A j \in DOMAIN release[i].objects :
                                SameIngress(status.ingresses[j], release[i].objects[j])
    BY DEF IngressesKept
  <2>1. ASSUME NEW i \in Groups({"Ingress"})
        PROVE  Past(i) = Len(release[i].objects) /\ DOMAIN release[i].objects = 1..Past(i)
    BY AllRead DEF IInv, Groups
  <2> QED
    BY <2>1 DEF IInv, IngressesListed
<1> QED
  BY <1>1, StatusInvariant, PTL
=============================================================================
