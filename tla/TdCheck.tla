------------------------------ MODULE TdCheck -------------------------------
(***************************************************************************)
(* TreeDecompositionCheck, as check_treedecomposition() runs it: valid()   *)
(* tests the tree, the vertices, the edges and the connectivity, and then  *)
(* is_nice() tests every node; each test throws when it fails.  What it is *)
(* given is what make_nice() leaves: its root is a node without in-edges.  *)
(***************************************************************************)
EXTENDS TreeDecomp

CONSTANTS
  Inputs,    (* the pairs of a decomposition and a graph: [td, graph]       *)
  Limit      (* 5000: larger decompositions are not checked                 *)

VARIABLES
  td, graph,
  stage      (* the next test, or what came of it all                       *)

vars == <<td, graph, stage>>

Init ==
  /\ \E in \in Inputs : td = in.td /\ graph = in.graph
  /\ stage = "start"

Pass(next) == stage' = next /\ UNCHANGED <<td, graph>>
Throw == Pass("invalid")

Start ==
  /\ stage = "start"
  /\ Pass(IF Cardinality(td.node) > Limit THEN "unchecked" ELSE "tree")

(* is_tree(): a walk down from the root that throws at an edge to a node   *)
(* that it has marked.  It sees the nodes that are reached from the root.  *)
IsTree ==
  LET R == Reached(td) IN
  \A v \in R : Cardinality(Parents(td, v) \cap R) = IF v = td.root THEN 0 ELSE 1

TestTree == stage = "tree" /\ IF IsTree THEN Pass("vertices") ELSE Throw

AllVerticesContained == \A x \in graph.vertex : \E t \in td.node : x \in td.bag[t]

TestVertices ==
  stage = "vertices" /\ IF AllVerticesContained THEN Pass("edges") ELSE Throw

AllEdgesContained == \A e \in graph.edge : \E t \in td.node : e \subseteq td.bag[t]

TestEdges == stage = "edges" /\ IF AllEdgesContained THEN Pass("connected") ELSE Throw

(* Mutant of Connected: create_copy() adds only one direction of an edge.  *)
ConnectedOneWay(x) ==
  LET H == Holding(td, x)
      first == CHOOSE t \in H : \A u \in H : t <= u
  IN ReachedFrom({first}, H, LAMBDA u, v : v \in td.kids[u]) = H

(* create_copy() makes the edges between bags that hold x undirected; the  *)
(* search from the first of them must reach all of them.                   *)
Connected(x) ==
  LET H == Holding(td, x)
      first == CHOOSE t \in H : \A u \in H : t <= u
      adjacent(u, v) == v \in td.kids[u] \/ u \in td.kids[v]
  IN ReachedFrom({first}, H, adjacent) = H

TestConnected ==
  stage = "connected" /\ IF \A x \in graph.vertex : Connected(x) THEN Pass("nice") ELSE Throw

(* nice_at(): root, leaf, degree, introduce or forget, join                *)
NiceAt(t) ==
  /\ Parents(td, t) = {} => t = td.root
  /\ td.kids[t] = {} => td.bag[t] = {}
  /\ Cardinality(td.kids[t]) <= 2
  /\ \A c \in td.kids[t] :
       IF Cardinality(td.kids[t]) = 1
       THEN \/ td.bag[t] \subseteq td.bag[c]
               /\ Cardinality(td.bag[t]) + 1 = Cardinality(td.bag[c])
            \/ td.bag[c] \subseteq td.bag[t]
               /\ Cardinality(td.bag[c]) + 1 = Cardinality(td.bag[t])
       ELSE td.bag[t] = td.bag[c]

TestNice == stage = "nice" /\ IF \A t \in td.node : NiceAt(t) THEN Pass("ok") ELSE Throw

Finished == stage \in {"ok", "invalid", "unchecked"} /\ UNCHANGED vars

Next ==
  \/ Start \/ TestTree \/ TestVertices \/ TestEdges \/ TestConnected \/ TestNice
  \/ Finished

Spec == Init /\ [][Next]_vars

=============================================================================
