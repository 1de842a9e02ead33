\* Three requests for every kind of chart at once, one repository with provenance
\* files; a repository may not answer, a write may fail, and start-up may be
\* refused.
SPECIFICATION Spec
CONSTANTS
  None = None
  a = a
  b = b
  redis = redis
  mysql = mysql
  tgz = tgz
  gone = gone
  Requests = {r1, r2, r3}
  Main = main
  Repos = {a, b}
  RepoOrder <- BothRepos
  Charts = {redis, mysql}
  Versions = {1, 2}
  Offers <- ApartCharts
  Signed = {b}
  Paths = {tgz, gone}
  Mentions <- PathNames
  Shipped = {tgz}
  Wants <- EveryWant
  ForceRemoteRepo = TRUE
  Faults = {"unreachable", "startup", "write"}
  MaxCrashes = 0
INVARIANTS IInv ServedAsAsked ForcedReposListed TornOnlyWhileWritten
PROPERTIES SettledStays FailsOnlyBesideWriter
SYMMETRY Symmetric
