---------------------------- MODULE MCChartCache ----------------------------
(***************************************************************************)
(* Instances of the chart cache for TLC: repositories and what they offer. *)
(***************************************************************************)
EXTENDS ChartProperties, TLC

CONSTANTS a, b, redis, mysql, tgz, gone

Symmetric == Permutations(Requests)

Want(repo, name, ver, path) == [repo |-> repo, name |-> name, ver |-> ver, path |-> path]

File(name, ver) == [name |-> name, ver |-> ver]

\* Two repositories, listed in this order.
BothRepos == <<a, b>>

ApartCharts == [r \in Repos |-> IF r = a THEN {File(redis, 1), File(redis, 2)} ELSE {File(mysql, 1)}]

\* The paths of the catalogue are those of redis 1.
PathNames == [p \in Paths |-> File(redis, 1)]

\* With and without a version, with offline paths, one of which does not exist, of a chart its
\* repository does not offer, and without a repository.
EveryWant ==
  {Want(a, redis, None, None), Want(a, redis, 1, tgz), Want(a, redis, 2, tgz),
   Want(a, redis, 1, gone), Want(b, mysql, 1, None), Want(b, mysql, 2, None),
   Want(None, redis, 2, None)}

PlainWants == {Want(a, redis, 1, None), Want(b, mysql, 1, None)}
=============================================================================
