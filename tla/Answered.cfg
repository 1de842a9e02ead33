\* Every kind of request, well formed or not, two at once, with every fault;
\* hooks may fail or never end.
SPECIFICATION FairSpec
CONSTANTS
  None = None
  i1 = i1
  i2 = i2
  n1 = n1
  n2 = n2
  p1 = p1
  p2 = p2
  u1 = u1
  Instances = {i1}
  Names = {n1}
  Callers = {r1, r2}
  Plans = {p1}
  Params = {u1}
  ChartPlans = {p1}
  MaxVersion = 2
  getName <- OwnNames
  AllowProvisionParams = TRUE
  AllowBindParams = FALSE
  Shapes <- EveryShape
  Serial = FALSE
  Faults = {"unreachable", "lost", "chart", "values", "nodes", "template", "tillerRestart", "brokerRestart"}
  KubeFaults = {"render", "create", "update", "delete", "hook"}
PROPERTIES AnsweredOrWaiting
