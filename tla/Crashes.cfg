\* The broker crashes anywhere and is started again, while repositories may not
\* answer and writes may fail.
SPECIFICATION FairSpec
CONSTANTS
  None = None
  a = a
  b = b
  redis = redis
  mysql = mysql
  tgz = tgz
  gone = gone
  Requests = {r1, r2}
  Main = main
  Repos = {a, b}
  RepoOrder <- BothRepos
  Charts = {redis, mysql}
  Versions = {1, 2}
  Offers <- ApartCharts
  Signed = {}
  Paths = {tgz, gone}
  Mentions <- PathNames
  Shipped = {tgz}
  Wants <- PlainWants
  ForceRemoteRepo = FALSE
  Faults = {"unreachable", "write"}
  MaxCrashes = 2
INVARIANTS IInv
PROPERTIES StaysUp
