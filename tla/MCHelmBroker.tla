---------------------------- MODULE MCHelmBroker ----------------------------
(***************************************************************************)
(* Instances of the broker for TLC: the release names and the requests.    *)
(***************************************************************************)
EXTENDS Lifecycle, TLC

CONSTANTS i1, i2, n1, n2, p1, p2, u1

Symmetric == Permutations(Requests)

OwnNames == [i \in Instances |-> IF i = i1 THEN n1 ELSE n2]

Shape(kinds, asyncs, plans, params, bodies) ==
  [kind : kinds, inst : Instances, async : asyncs, plan : plans,
   params : params, body : bodies]

ReadShapes == Shape({"bind", "unbind", "lastop"}, {TRUE}, {p1}, {None}, {"ok"})

\* Every kind of request, waiting for the workloads or not, with and without
\* user parameters.
AllShapes ==
  Shape({"provision", "update", "deprovision"}, BOOLEAN, {p1}, {None}, {"ok"})
  \cup Shape({"update"}, {TRUE}, {p1}, {u1}, {"ok"})
  \cup ReadShapes

\* The requests that change releases.
RaceShapes ==
  Shape({"provision"}, BOOLEAN, {p1}, {None}, {"ok"})
  \cup Shape({"update"}, {TRUE}, {p1}, {u1}, {"ok"})
  \cup Shape({"deprovision"}, {TRUE}, {p1}, {None}, {"ok"})

\* Also bodies that do not parse and plans of another service.
OddShapes ==
  Shape({"provision", "update", "bind"}, {TRUE}, {p1}, {u1}, {"ok", "badParams", "badContext"})
  \cup Shape({"provision", "update"}, {TRUE}, {None}, {None}, {"ok"})

EveryShape == AllShapes \cup OddShapes

=============================================================================
