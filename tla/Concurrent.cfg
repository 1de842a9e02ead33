\* One instance, its requests all at once; connections break before, during and
\* after a call, Tiller restarts, and updates and hooks may fail in the cluster.
SPECIFICATION Spec
CONSTANTS
  None = None
  i1 = i1
  i2 = i2
  n1 = n1
  n2 = n2
  p1 = p1
  p2 = p2
  u1 = u1
  Instances = {i1}
  Names = {n1}
  Callers = {r1, r2, r3}
  Plans = {p1}
  Params = {u1}
  ChartPlans = {p1}
  MaxVersion = 3
  getName <- OwnNames
  AllowProvisionParams = TRUE
  AllowBindParams = FALSE
  Shapes <- RaceShapes
  Serial = FALSE
  Faults = {"unreachable", "lost", "tillerRestart"}
  KubeFaults = {"update", "hook"}
SYMMETRY Symmetric
INVARIANTS IInv AckedProvisionHasRelease
PROPERTIES OnlyDeprovisionRemoves
