\* As Serial, with charts that Tiller cannot render.
SPECIFICATION Spec
CONSTANTS
  None = None
  i1 = i1
  i2 = i2
  n1 = n1
  n2 = n2
  p1 = p1
  p2 = p2
  u1 = u1
  Instances = {i1}
  Names = {n1}
  Callers = {r1, r2}
  Plans = {p1}
  Params = {u1}
  ChartPlans = {p1}
  MaxVersion = 4
  getName <- OwnNames
  AllowProvisionParams = TRUE
  AllowBindParams = FALSE
  Shapes <- AllShapes
  Serial = TRUE
  Faults = {}
  KubeFaults = {"render"}
SYMMETRY Symmetric
PROPERTIES UpdateAckApplied
