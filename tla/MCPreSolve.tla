----------------------------- MODULE MCPreSolve -----------------------------
(***************************************************************************)
(* Generated: all directed graphs of three vertices, and the graphs of     *)
(* four whose edges lead from the smaller to the larger vertex; incidence  *)
(* graphs of all graphs of two vertices and of three with edges to larger  *)
(* vertices.  Loaded: all decompositions of two nodes over three vertices, *)
(* with and without an incidence graph, and of four nodes over two, in     *)
(* every numbering of the nodes, and all digraphs of three nodes with a    *)
(* node without in-edges, trees or not, for graphs that they decompose or  *)
(* not.  No loaded bag is repeated along an edge: make_nice() does not     *)
(* return for one that is.  Facades: all graphs of three vertices with     *)
(* edges to larger vertices and the empty graph, solved again after up to  *)
(* two additions.                                                          *)
(***************************************************************************)
EXTENDS PreSolve

(* Vertex 1 has a label of its own, and so have the edges to vertex 2.     *)
GraphOf(V, E) ==
  [vertices |-> V, out |-> [v \in V |-> {w \in V : <<v, w>> \in E}],
   vlabel |-> {<<1, "red">>}, elabel |-> {<<e, "red">> : e \in {f \in E : f[2] = 2}}]

GraphsOf(V, arcs) == {GraphOf(V, E) : E \in SUBSET arcs}

Upwards(k) == {a \in (1 .. k) \X (1 .. k) : a[1] < a[2]}

Reduced(in) == \A v \in 1 .. in.n : \A c \in in.kids[v] : in.bag[c] # in.bag[v]

(* All trees of N nodes that are rooted somewhere.                         *)
KidsOf(N, parent) == [v \in 1 .. N |-> {w \in DOMAIN parent : parent[w] = v}]

Trees(N) ==
  {k \in UNION {{KidsOf(N, parent) : parent \in [(1 .. N) \ {r} -> 1 .. N]} : r \in 1 .. N} :
     \E r \in 1 .. N : IsRootedTree([node |-> 1 .. N, kids |-> k, root |-> r])}

Digraphs(N) ==
  {k \in [1 .. N -> SUBSET (1 .. N)] : \E v \in 1 .. N : \A p \in 1 .. N : v \notin k[p]}

Over(N, shapes, Ids) ==
  {in \in [n : {N}, kids : shapes, bag : [1 .. N -> SUBSET Ids]] : Reduced(in)}

Path(k) == GraphOf(1 .. k, {a \in Upwards(k) : a[2] = a[1] + 1})
Both    == GraphOf(1 .. 3, {<<1, 2>>, <<2, 1>>, <<3, 2>>})

CasesOfSolver ==
  [graph : GraphsOf(1 .. 3, {a \in (1 .. 3) \X (1 .. 3) : a[1] # a[2]})
             \cup GraphsOf(1 .. 4, Upwards(4)),
   incidence : {FALSE}, td : {NoTd}, calls : {0}]
    \cup [graph : GraphsOf(1 .. 2, {<<1, 2>>, <<2, 1>>}) \cup GraphsOf(1 .. 3, Upwards(3)),
          incidence : {TRUE}, td : {NoTd}, calls : {0}]
    \cup [graph : {Path(3)}, incidence : BOOLEAN, td : Over(2, Trees(2), 1 .. 3), calls : {0}]
    \cup [graph : {Both}, incidence : {TRUE}, td : Over(2, Trees(2), 1 .. 3), calls : {0}]
    \cup [graph : {Path(2)}, incidence : {FALSE}, td : Over(4, Trees(4), 1 .. 2), calls : {0}]
    \cup [graph : {Path(1), Path(2)}, incidence : BOOLEAN, td : Over(3, Digraphs(3), 1 .. 2), calls : {0}]

(* The graph of a facade has no labels.                                    *)
CasesOfFacade ==
  [graph : {[g EXCEPT !.vlabel = {}, !.elabel = {}] :
              g \in GraphsOf(1 .. 3, Upwards(3)) \cup {GraphOf({}, {})}},
   incidence : {FALSE}, td : {NoTd}, calls : {2}]

TheCases == CasesOfSolver \cup CasesOfFacade
=============================================================================
