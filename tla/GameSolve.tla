----------------------------- MODULE GameSolve -----------------------------
(***************************************************************************)
(* The solver of GameTables with its games, those of module Game: a .cfg   *)
(* gives PlayLeaf .. PlayConvert the operations of Game that have the same *)
(* names, and the other parameters those below.  What the tables are worth *)
(* is said here: at the root they hold the solutions of the formula.       *)
(***************************************************************************)
EXTENDS GameTables, Game

CacheCutoff == 3

Cacheable(g) == ~IsDetermined(g) /\ Height(g.formula) >= CacheCutoff

(***************************************************************************)
(* The solutions of the graph by the semantics of the logic.               *)
(***************************************************************************)
Solutions ==
  {x \in [FreeVars -> SUBSET Vertices] :
     Holds(problem.formula, graph,
           [s \in LabelSyms \cup Width .. Width + 8 |->
              IF s \in LabelSyms THEN graph.labels[s]
              ELSE IF s \in FreeVars THEN x[s] ELSE {}])}

(***************************************************************************)
(* A game that was dropped or lost early (minimize, the FALSIFIER entries  *)
(* of an introduce and of a join) can not have been won on the whole       *)
(* graph: what a solution looks like below the node is still in the table. *)
(***************************************************************************)
NothingDropped ==
  LET Below(x) == [U \in FreeVars |-> x[U] \cap node.seen]
  IN \A x \in Solutions :
       \E k \in DOMAIN node.table : Below(x) \in node.table[k]

(***************************************************************************)
(* At the root every atom is decided, as the assertion in convert() wants  *)
(* it, and the solutions are exactly those of the formula.                 *)
(***************************************************************************)
SolutionExact ==
  /\ AtRoot => \A k \in DOMAIN node.table : Unconverted(k[2]) = {}
  /\ solution \notin {NULL, ABORTED} => solution = Solutions

(***************************************************************************)
(* The assertions of cache_join_lookup() and cache_join_store(): the games *)
(* that are joined are of the same formula.  The NULL formula of a         *)
(* determined game is not that of a game still open on the other side.     *)
(***************************************************************************)
JoinsTheSameFormula == solution # ABORTED
=============================================================================
