\* One instance, its requests one after the other; charts may be
\* missing, templates and the node list may fail, and so may rendering,
\* creating, updating and the hooks of a chart.
SPECIFICATION Spec
CONSTANTS
  None = None
  i1 = i1
  i2 = i2
  n1 = n1
  n2 = n2
  p1 = p1
  p2 = p2
  u1 = u1
  Instances = {i1}
  Names = {n1}
  Callers = {r1, r2, r3, r4}
  Plans = {p1}
  Params = {u1}
  ChartPlans = {p1}
  MaxVersion = 4
  getName <- OwnNames
  AllowProvisionParams = TRUE
  AllowBindParams = FALSE
  Shapes <- AllShapes
  Serial = TRUE
  Faults = {"chart", "values", "nodes"}
  KubeFaults = {"render", "create", "update", "hook"}
SYMMETRY Symmetric
INVARIANTS TypeOK LifecycleInv OneCreation NoOrphans SingleDeployed StaysUpgradable
PROPERTIES DeprovisionLeavesNothing SyncProvisionReady BindMatchesObjects PollIsTruthful
           ValuesKept ImplementsOSB
