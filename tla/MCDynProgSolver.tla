-------------------------- MODULE MCDynProgSolver ---------------------------
(* Both builds of solve() on all ordered binary trees over 1 .. N,         *)
(* numbered so that a parent comes before its children.                    *)
EXTENDS DynProgSolver

CONSTANT N

Nodes == 1 .. N

KidsOf(parent, v) == SetToSortSeq({w \in 2 .. N : parent[w] = v}, <)

Parenthoods ==
  {p \in [2 .. N -> 1 .. N] :
     \A w \in 2 .. N : p[w] < w /\ Cardinality({u \in 2 .. N : p[u] = p[w]}) <= 2}

Trees == {[v \in 1 .. N |-> KidsOf(parent, v)] : parent \in Parenthoods}
=============================================================================
