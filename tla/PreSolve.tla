------------------------------ MODULE PreSolve ------------------------------
(***************************************************************************)
(* How the solver comes to the graph and the decomposition that the        *)
(* dynamic programming walks.  setup_graph() makes the incidence graph,    *)
(* when it is asked for, and extends a decomposition that was loaded.      *)
(* Otherwise MinDegreeHeuristic makes one.  Either is turned into a nice   *)
(* one by make_nice(), and only then is it checked (pre_solve()).          *)
(* IncidenceGraph, MinDegree, MakeNice and TdCheck are the parts, on the   *)
(* same graph and decomposition.                                           *)
(*                                                                         *)
(* A facade has one solver for all its calls of solve(), and keeps the     *)
(* graph: when it has grown, the decomposition of the solve before is the  *)
(* one that is there.                                                      *)
(*                                                                         *)
(* While a decomposition is being generated n is 0: MakeNice has no node.  *)
(***************************************************************************)
EXTENDS MakeNice, IncidenceGraph, Sequences

CONSTANTS
  Cases,     (* [graph, incidence, td, calls]: a graph, whether its         *)
             (* incidence graph is asked for, the decomposition loaded, or  *)
             (* NoTd, and with a facade the bound on what is added to the   *)
             (* graph before it solves again                                *)
  Limit      (* 5000: larger decompositions are not checked                 *)

NoTd == [n |-> 0, kids |-> <<>>, bag |-> <<>>]

ASSUME PreSolveAssumption ==
  \A c \in Cases :
    /\ IsGraph(c.graph) /\ Numbered(c.graph) /\ LabelsFit(c.graph)
    /\ c.td = NoTd \/ IsGiven(c.td)
    /\ c.calls \in Nat /\ (c.incidence => c.calls = 0)

VARIABLES
  orig, incidence, given,     (* _orig_graph and the rest of the case       *)
  graph,
  out, bucket, minimum, order, neighbors, todo, pc,   (* compute()'s own    *)
  facade,    (* the graph of the facade, of which solve() makes a copy      *)
  calls,     (* add_vertex() and add_edge() that may come, 0 without facade *)
  stage      (* setup, generate, make_nice, or the stage of the check;      *)
             (* aborted, by an assertion                                    *)

niceVars == <<n, kids, bag, root, last, done, input>>
localVars == <<out, bucket, minimum, order, neighbors, todo, pc>>
caseVars == <<orig, incidence, given>>
facadeVars == <<facade, calls>>
preVars == <<niceVars, localVars, caseVars, facadeVars, graph, stage>>

NoGraph == [vertices |-> {}, out |-> <<>>, vlabel |-> {}, elabel |-> {}]

H == INSTANCE MinDegree WITH Inputs <- {}, input <- graph

Undirected(g) == [vertex |-> g.vertices, edge |-> {{e[1], e[2]} : e \in Edges(g)}]

C == INSTANCE TdCheck WITH
       Inputs <- {}, td <- Td(root), graph <- Undirected(graph)

PreInit ==
  /\ \E c \in Cases :
       /\ orig = c.graph /\ incidence = c.incidence /\ given = c.td
       /\ facade = c.graph /\ calls = c.calls
       /\ n = c.td.n /\ kids = c.td.kids /\ bag = c.td.bag /\ input = c.td
  /\ root = 0 /\ last = 1 /\ done = FALSE
  /\ graph = NoGraph /\ H!Unstarted
  /\ stage = "setup"

-----------------------------------------------------------------------------
(* setup_graph()                                                           *)
Setup == stage = "setup" /\ UNCHANGED <<localVars, caseVars, facadeVars, root, last, done>>

Proceed == stage' = IF given = NoTd THEN "generate" ELSE "make_nice"

KeepGraph ==
  /\ Setup /\ ~incidence
  /\ graph' = orig /\ Proceed
  /\ UNCHANGED niceVars

MakeIncidence ==
  /\ Setup /\ incidence /\ given = NoTd
  /\ graph' = IncidenceOf(orig) /\ Proceed
  /\ UNCHANGED niceVars

ExtendLoaded ==
  /\ Setup /\ incidence /\ given # NoTd
  /\ \A e \in Edges(orig) : Hosts(given, e) # {}
  /\ graph' = IncidenceOf(orig) /\ Proceed
  /\ input' = Extended(given, orig)
  /\ n' = input'.n /\ kids' = input'.kids /\ bag' = input'.bag

NoHost ==
  /\ Setup /\ incidence /\ given # NoTd
  /\ \E e \in Edges(orig) : Hosts(given, e) = {}
  /\ stage' = "aborted"
  /\ UNCHANGED <<niceVars, graph>>

Generating == stage = "generate" /\ UNCHANGED <<n, root, last, done, input, caseVars, facadeVars, stage>>

EmptyGraph == Generating /\ H!EmptyGraph
Begin      == Generating /\ H!Begin
Take       == Generating /\ H!Take
UpdateOut  == Generating /\ H!UpdateOut
OutDone    == Generating /\ H!OutDone
UpdateIn   == Generating /\ H!UpdateIn
Clear      == Generating /\ H!Clear
AddEdge    == Generating /\ H!AddEdge
Eliminated == Generating /\ H!Eliminated
AddNode    == Generating /\ H!AddNode

(* generate_treedecomposition() returns, and make_nice() begins.           *)
Generated ==
  /\ stage = "generate" /\ pc = "done"
  /\ n' = Len(bag)
  /\ input' = [n |-> n', kids |-> kids, bag |-> bag]
  /\ out' = <<>> /\ bucket' = <<>> /\ minimum' = 0 /\ order' = <<>>
  /\ neighbors' = <<>> /\ todo' = {}
  /\ stage' = "make_nice"
  /\ UNCHANGED <<caseVars, facadeVars, graph, kids, bag, root, last, done, pc>>

Repairing(A) == stage = "make_nice" /\ A /\ UNCHANGED <<localVars, caseVars, facadeVars, graph, stage>>

NiceLeaf    == Repairing(FixLeaf)
NiceBinary  == Repairing(FixBinary)
NiceJoins   == Repairing(FixJoins)
NiceBetween == Repairing(FixIntroduceForget)
NiceAdvance == Repairing(Advance)

MadeNice ==
  /\ stage = "make_nice" /\ done
  /\ stage' = "start"
  /\ UNCHANGED <<niceVars, localVars, caseVars, facadeVars, graph>>

Checking == UNCHANGED <<niceVars, localVars, caseVars, facadeVars, graph>>

CheckStart     == Checking /\ C!Start
CheckTree      == Checking /\ C!TestTree
CheckVertices  == Checking /\ C!TestVertices
CheckEdges     == Checking /\ C!TestEdges
CheckConnected == Checking /\ C!TestConnected
CheckNice      == Checking /\ C!TestNice

(***************************************************************************)
(* The facade, after a solve                                               *)
(***************************************************************************)
Ended == {"ok", "invalid", "unchecked", "aborted"}

Grows == /\ stage \in Ended /\ calls > 0 /\ calls' = calls - 1
         /\ UNCHANGED <<niceVars, localVars, caseVars, graph, stage>>

(* SequoiaSolverFacade::add_vertex()                                       *)
AddVertex ==
  LET v == Cardinality(facade.vertices) + 1 IN
  /\ Grows
  /\ facade' = [facade EXCEPT !.vertices = @ \cup {v},
                              !.out = [w \in DOMAIN @ \cup {v} |-> IF w = v THEN {} ELSE @[w]]]

(* SequoiaSolverFacade::add_edge(), which throws for a vertex there is not *)
AddArc ==
  /\ Grows
  /\ \E u, v \in facade.vertices :
       /\ v \notin facade.out[u] /\ u # v
       /\ facade' = [facade EXCEPT !.out[u] = @ \cup {v}]

(* Mutant of SolveAgain: what has been prepared is taken as it is.         *)
SolveAgainPrepared ==
  /\ stage \in {"ok", "unchecked"} /\ facade # orig
  /\ orig' = facade /\ graph' = facade
  /\ UNCHANGED <<niceVars, localVars, facadeVars, incidence, given, stage>>

(* SequoiaSolverFacade::solve(): the same solver, and the decomposition it *)
(* has, which the last make_nice() left, whether it was valid or not.      *)
(* (For the same graph it would be the last solve once more.)              *)
SolveAgain ==
  /\ stage \in {"ok", "invalid", "unchecked"} /\ facade # orig
  /\ orig' = facade
  /\ given' = [n |-> n, kids |-> kids, bag |-> bag]
  /\ input' = given'
  /\ last' = 1 /\ done' = FALSE
  /\ stage' = "setup"
  /\ UNCHANGED <<n, kids, bag, root, localVars, facadeVars, incidence, graph>>

Finished == stage \in Ended /\ UNCHANGED preVars

PreNext ==
  \/ KeepGraph \/ MakeIncidence \/ ExtendLoaded \/ NoHost
  \/ EmptyGraph \/ Begin \/ Take \/ UpdateOut \/ OutDone \/ UpdateIn
  \/ Clear \/ AddEdge \/ Eliminated \/ AddNode \/ Generated
  \/ NiceLeaf \/ NiceBinary \/ NiceJoins \/ NiceBetween \/ NiceAdvance
  \/ MadeNice
  \/ CheckStart \/ CheckTree \/ CheckVertices \/ CheckEdges
  \/ CheckConnected \/ CheckNice
  \/ AddVertex \/ AddArc \/ SolveAgain
  \/ Finished

PreSpec == PreInit /\ [][PreNext]_preVars /\ WF_preVars(PreNext)

-----------------------------------------------------------------------------
(***************************************************************************)
(* Every vertex that is left is in exactly the bucket of its degree, less  *)
(* the edges to the vertex being taken out that were counted off already:  *)
(* update_bucket() always finds it.                                        *)
(***************************************************************************)
BucketsExact == stage = "generate" => H!BucketsExact

Decomposes(T, g) ==
  \E r \in T.node : IsTreeDecomposition([T EXCEPT !.root = r], Undirected(g))

IsOneGiven ==
  given = NoTd
    \/ Decomposes([node |-> 1 .. given.n, kids |-> given.kids, bag |-> given.bag, root |-> 0], orig)

(***************************************************************************)
(* What MinDegreeHeuristic returns is a tree decomposition of the graph.   *)
(* Neither the extension for the incidence graph nor any repair of         *)
(* make_nice() spoils a tree decomposition or makes one of something that  *)
(* was none: what was loaded for the graph as it was given decides.        *)
(***************************************************************************)
KeepsValid ==
  stage \notin {"setup", "generate", "aborted"} => (IsOneGiven <=> Decomposes(Td(root), graph))

(***************************************************************************)
(* As a whole, the solver goes on with what it generated and with every    *)
(* loaded decomposition of the graph, which is a nice one by then, and     *)
(* throws, or aborts, for any other, in particular when a facade's graph   *)
(* has outgrown the decomposition of its last solve; all by the definition *)
(* of the literature, for decompositions with all nodes below the root.    *)
(***************************************************************************)
GivenDecides ==
  /\ stage = "aborted" => ~IsOneGiven
  /\ stage \in {"ok", "invalid"} /\ Reached(Td(root)) = Node =>
       IF stage = "ok"
       THEN IsOneGiven /\ IsNiceTreeDecomposition(Td(root), Undirected(graph))
       ELSE ~IsOneGiven

(***************************************************************************)
(* solution_graph(): a solution, a set of vertices of the graph that was   *)
(* played on, is shown on the graph that was given.  Its members label     *)
(* their vertex there, or the edge between the two ends of theirs, and     *)
(* every label that was there is back.                                     *)
(***************************************************************************)
SolutionGraph(S) ==
  LET result == [graph EXCEPT !.vlabel = @ \cup {<<v, "solution">> : v \in S}]
  IN IF incidence THEN AdjacencyOf(result) ELSE result

SolutionComesBack ==
  stage \in {"ok", "unchecked"} => \A S \in SUBSET graph.vertices :
    SolutionGraph(S) =
      [orig EXCEPT
         !.vlabel = @ \cup {<<v, "solution">> : v \in S \cap orig.vertices},
         !.elabel = @ \cup {<<e, "solution">> : e \in {f \in Edges(orig) :
                       \E w \in S : w \in graph.out[f[1]] /\ f[2] \in graph.out[w]
                                      /\ w \notin orig.vertices}}]

(* The preparation of every solve comes to its end.                        *)
PreSolveEnds == stage = "setup" ~> stage \in Ended
=============================================================================
