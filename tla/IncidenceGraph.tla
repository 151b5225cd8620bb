--------------------------- MODULE IncidenceGraph ---------------------------
(***************************************************************************)
(* Formulas that quantify over edges are played on the incidence graph:    *)
(* every edge becomes a vertex between its two ends.  The labels Vertex    *)
(* and Edge tell the two kinds apart, and the graph of a solution is       *)
(* turned back by them (incidence_graph.cpp).                              *)
(*                                                                         *)
(* A graph is a record [vertices, out, vlabel, elabel]: its vertices are   *)
(* 1 .. n, out their out-neighbours (a set: the graphs have no parallel    *)
(* edges, and list them by their targets); vlabel and elabel are pairs of  *)
(* a vertex or an edge and its label.                                      *)
(***************************************************************************)
EXTENDS Naturals, FiniteSets

IsGraph(g) ==
  /\ g = [vertices |-> g.vertices, out |-> g.out, vlabel |-> g.vlabel, elabel |-> g.elabel]
  /\ g.vertices \subseteq Nat /\ IsFiniteSet(g.vertices)
  /\ g.out \in [g.vertices -> SUBSET g.vertices]
  /\ \A v \in g.vertices : v \notin g.out[v]

Numbered(g) == g.vertices = 1 .. Cardinality(g.vertices)

Edges(g) == {e \in g.vertices \X g.vertices : e[2] \in g.out[e[1]]}

(* Vertex and Edge are predefined: no label of a graph that is given.      *)
LabelsFit(g) ==
  /\ \A p \in g.vlabel :
       p = <<p[1], p[2]>> /\ p[1] \in g.vertices /\ p[2] \notin {"Vertex", "Edge"}
  /\ \A p \in g.elabel :
       p = <<p[1], p[2]>> /\ p[1] \in Edges(g) /\ p[2] \notin {"Vertex", "Edge"}

(* The edges are met by their sources and then by their targets, and each  *)
(* adds the next vertex.                                                   *)
Before(e, f) == e[1] < f[1] \/ (e[1] = f[1] /\ e[2] <= f[2])

EdgeVertex(g, e) == Cardinality(g.vertices) + Cardinality({f \in Edges(g) : Before(f, e)})

IncidenceOf(g) ==
  LET vertexOf == [e \in Edges(g) |-> EdgeVertex(g, e)]
      new == {vertexOf[e] : e \in Edges(g)}
  IN [vertices |-> g.vertices \cup new,
      out |-> [v \in g.vertices \cup new |->
                 {vertexOf[e] : e \in {f \in Edges(g) : f[1] = v}}
                   \cup {e[2] : e \in {f \in Edges(g) : vertexOf[f] = v}}],
      vlabel |-> g.vlabel \cup {<<v, "Vertex">> : v \in g.vertices}
                   \cup {<<v, "Edge">> : v \in new}
                   \cup {<<vertexOf[p[1]], p[2]>> : p \in g.elabel},
      elabel |-> {}]

(***************************************************************************)
(* A decomposition of the graph is extended along: the edge vertex and its *)
(* ends form a bag of their own, below the first node whose bag has both   *)
(* ends.  There has to be one, says an assertion.                          *)
(***************************************************************************)
Hosts(T, e) == {t \in 1 .. T.n : {e[1], e[2]} \subseteq T.bag[t]}

Host(T, e) == CHOOSE t \in Hosts(T, e) : \A u \in Hosts(T, e) : t <= u

Extended(T, g) ==
  LET node(e) == T.n + EdgeVertex(g, e) - Cardinality(g.vertices)
      all == 1 .. T.n + Cardinality(Edges(g))
      below == [t \in all |-> {node(e) : e \in {f \in Edges(g) : Host(T, f) = t}}]
  IN [n    |-> T.n + Cardinality(Edges(g)),
      kids |-> [t \in all |-> IF t <= T.n THEN T.kids[t] \cup below[t] ELSE {}],
      bag  |-> [t \in all |->
                  IF t <= T.n THEN T.bag[t]
                  ELSE UNION {{e[1], e[2], EdgeVertex(g, e)} : e \in {f \in Edges(g) : node(f) = t}}]]

-----------------------------------------------------------------------------
Labelled(g, l) == {v \in g.vertices : <<v, l>> \in g.vlabel}

Ends(g, w) ==
  <<CHOOSE u \in g.vertices : w \in g.out[u], CHOOSE u \in g.vertices : u \in g.out[w]>>

(* Mutant of AdjacencyOf: the labels of the edges are not taken over.      *)
AdjacencyOfUnlabelled(g) ==
  LET V == Labelled(g, "Vertex")
      new(v) == Cardinality({u \in V : u <= v})
      edge == [w \in Labelled(g, "Edge") |-> <<new(Ends(g, w)[1]), new(Ends(g, w)[2])>>]
      own == {p \in g.vlabel : p[2] \notin {"Vertex", "Edge"}}
  IN [vertices |-> {new(v) : v \in V},
      out |-> [v \in {new(u) : u \in V} |->
                 {edge[w][2] : w \in {e \in DOMAIN edge : edge[e][1] = v}}],
      vlabel |-> {<<new(p[1]), p[2]>> : p \in {q \in own : q[1] \in V}},
      elabel |-> {}]

AdjacencyOf(g) ==
  LET V == Labelled(g, "Vertex")
      new(v) == Cardinality({u \in V : u <= v})
      edge == [w \in Labelled(g, "Edge") |-> <<new(Ends(g, w)[1]), new(Ends(g, w)[2])>>]
      own == {p \in g.vlabel : p[2] \notin {"Vertex", "Edge"}}
  IN [vertices |-> {new(v) : v \in V},
      out |-> [v \in {new(u) : u \in V} |->
                 {edge[w][2] : w \in {e \in DOMAIN edge : edge[e][1] = v}}],
      vlabel |-> {<<new(p[1]), p[2]>> : p \in {q \in own : q[1] \in V}},
      elabel |-> {<<edge[p[1]], p[2]>> : p \in {q \in own : q[1] \in DOMAIN edge}}]
=============================================================================
