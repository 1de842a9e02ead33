----------------------------- MODULE MCCatalog -----------------------------
(***************************************************************************)
(* Small catalogue directories for TLC.                                    *)
(***************************************************************************)
EXTENDS Catalog, TLC, SequencesExt

CONSTANTS a, A, b, x, y

Symmetric == Permutations(Requests)

\* A is a in upper case.
FoldCase == [id \in Ids |-> IF id = A THEN a ELSE id]

Plan(id, chart) == [id |-> id, chart |-> chart]

\* The services differ in their plans' charts; two of them share a plan ID.
Offered ==
  {[id |-> i, plans |-> ps] : i \in {a, A, b},
     ps \in {<<Plan(a, x)>>, <<Plan(a, y), Plan(b, x)>>, <<Plan(A, y), Plan(a, x)>>}}

Some(kind) == {[kind |-> kind, service |-> s] : s \in {CHOOSE s \in Offered : s.id = a}}

SmallFiles == {[kind |-> "yaml", service |-> s] : s \in Offered}
              \cup Some("unlisted") \cup Some("unread") \cup Some("other") \cup Some("broken")

SmallDirectories == BoundedSeq(SmallFiles, 2)
=============================================================================
