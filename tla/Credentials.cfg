\* Two binds of an instance with up to two services; load balancers get an
\* address, too wide for the printed table or not, and nodes are replaced while
\* they run.
SPECIFICATION Spec
CONSTANTS
  None = None
  master = master
  ha = ha
  slave = slave
  short = short
  long = long
  cut = cut
  h = h
  int1 = int1
  int2 = int2
  ext = ext
  host = host
  Bindings = {b1, b2}
  Releases <- SmallReleases
  NodeLists <- SmallClusters
  Discovered = {master, ha}
  Composed = master
  Arguments = {None, 443}
  Balancers = {short, long}
  Cut <- CutAddresses
  Domains = {None, host}
SYMMETRY Symmetric
INVARIANTS TypeOK EndpointServed HaComplete BindingsAgree
