----------------------------- MODULE TreeDecomp -----------------------------
(***************************************************************************)
(* Tree decompositions as the solver holds them, and what they have to be. *)
(* A decomposition is a record: node, its vertices; kids, their out-edges  *)
(* (a set: boost's setS keeps no parallel edges); bag, their bags; root.   *)
(***************************************************************************)
EXTENDS Naturals, FiniteSets

Parents(T, v) == {u \in T.node : v \in T.kids[u]}

(* The nodes that are reached from S along the edges of a relation.        *)
ReachedFrom(S, nodes, Edge(_, _)) ==
  LET Close[P \in SUBSET (S \cup nodes)] ==
        LET next == {v \in nodes \ P : \E u \in P : Edge(u, v)}
        IN IF next = {} THEN P ELSE Close[P \cup next]
  IN Close[S]

Reached(T) == ReachedFrom({T.root}, T.node, LAMBDA u, v : v \in T.kids[u])

Holding(T, x) == {t \in T.node : x \in T.bag[t]}

-----------------------------------------------------------------------------
(***************************************************************************)
(* The definition from the literature: a rooted tree; each vertex and each *)
(* edge of the graph in a bag; and the nodes whose bag holds a vertex form *)
(* a subtree, that is, exactly one of them is not below another.           *)
(***************************************************************************)
IsRootedTree(T) ==
  /\ Parents(T, T.root) = {}
  /\ \A v \in T.node \ {T.root} : Cardinality(Parents(T, v)) = 1
  /\ Reached(T) = T.node

Covers(T, g) ==
  /\ g.vertex \subseteq UNION {T.bag[t] : t \in T.node}
  /\ \A e \in g.edge : \E t \in T.node : e \subseteq T.bag[t]

Topmost(T, x) == {t \in Holding(T, x) : Parents(T, t) \cap Holding(T, x) = {}}

IsTreeDecomposition(T, g) ==
  /\ IsRootedTree(T)
  /\ Covers(T, g)
  /\ \A x \in g.vertex : Cardinality(Topmost(T, x)) = 1

(* The nodes of a nice decomposition: leaf, introduce, forget and join.    *)
OneMore(A, B) == \E x \in A \ B : A = B \cup {x}

IsNiceNode(T, t) ==
  \/ T.kids[t] = {} /\ T.bag[t] = {}
  \/ \E c \in T.node : /\ T.kids[t] = {c}
                       /\ OneMore(T.bag[t], T.bag[c]) \/ OneMore(T.bag[c], T.bag[t])
  \/ \E c, d \in T.node : c # d /\ T.kids[t] = {c, d}
                          /\ T.bag[t] = T.bag[c] /\ T.bag[t] = T.bag[d]

IsNiceTreeDecomposition(T, g) ==
  IsTreeDecomposition(T, g) /\ \A t \in T.node : IsNiceNode(T, t)
=============================================================================
