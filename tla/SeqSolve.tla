------------------------------ MODULE SeqSolve ------------------------------
(***************************************************************************)
(* DynProgSolver::solve() of the build without TBB, together with the      *)
(* do_leaf, do_introduce, do_forget, do_join and do_root it calls on       *)
(* SequoiaSolver: an explicit stack walks the tree in post-order; a node's *)
(* table is created empty before the walk, filled from its children's      *)
(* tables, and deleted by the parent that consumed it.                     *)
(***************************************************************************)
EXTENDS TdTree, FiniteSets

VARIABLES
  kids,      (* the tree decomposition                                      *)
  stack,     (* std::list<Vertex> stack, front first                        *)
  visited,   (* std::vector<bool> visited, as the set of its true indices   *)
  cur,       (* the node work_on() is busy with, in a set of at most one    *)
  live,      (* {t : _tables[t] != NULL}                                    *)
  table,     (* what _tables[t] accounts for, {} while it has no entry;     *)
             (* kept as a history once the table is deleted                 *)
  alphas,    (* {t : _alphas[t] != NULL}                                    *)
  answer     (* what _solution accounts for                                 *)

vars == <<kids, stack, visited, cur, live, table, alphas, answer>>

(* pre_solve() and the push of the root: an empty table for every node.    *)
Init ==
  /\ kids \in Shapes
  /\ stack = <<Root>>
  /\ visited = {}
  /\ cur = {}
  /\ live = Node
  /\ table = [v \in Node |-> {}]
  /\ alphas = {}
  /\ answer = {}

Top == Head(stack)

(* Mutant of Expand: the bit is set only where there are out-edges.        *)
ExpandMarksInner ==
  /\ cur = {} /\ stack # <<>>
  /\ Top \notin visited
  /\ stack' = Reverse(kids[Top]) \o stack
  /\ visited' = IF kids[Top] = <<>> THEN visited ELSE visited \cup {Top}
  /\ UNCHANGED <<kids, cur, live, table, alphas, answer>>

(* First visit: the children go in front of v, the last out-edge foremost. *)
Expand ==
  /\ cur = {} /\ stack # <<>>
  /\ Top \notin visited
  /\ stack' = Reverse(kids[Top]) \o stack
  /\ visited' = visited \cup {Top}
  /\ UNCHANGED <<kids, cur, live, table, alphas, answer>>

(* Second visit: stack.pop_front() and the entry into work_on(v).          *)
Pop ==
  /\ cur = {} /\ stack # <<>>
  /\ Top \in visited
  /\ stack' = Tail(stack)
  /\ cur' = {Top}
  /\ UNCHANGED <<kids, visited, live, table, alphas, answer>>

(* What a step finds in the table of c: a deleted table has nothing.       *)
Entries(c) == IF c \in live THEN table[c] ELSE {}

(* ApplyLeaf: alpha(t) and one table entry, made from nothing.             *)
DoLeaf(v) ==
  /\ kids[v] = <<>>
  /\ alphas' = alphas \cup {v}
  /\ table' = [table EXCEPT ![v] = {v}]
  /\ UNCHANGED live

(* ApplyIntroduce and ApplyForget: alpha(t) from the child's (which the    *)
(* code asserts is there), the entries from the child's entries; cleanup.  *)
DoIntroduceOrForget(v) ==
  /\ Len(kids[v]) = 1
  /\ LET c == kids[v][1] IN
       /\ alphas' = (alphas \cup {v}) \ {c}
       /\ table' = [table EXCEPT ![v] = IF Entries(c) = {} THEN {} ELSE Entries(c) \cup {v}]
       /\ live' = live \ {c}

(* Mutants of DoJoin: the right child is not cleaned up; the entries of    *)
(* the right child are left out of the product.                            *)
DoJoinKeepsRight(v) ==
  /\ Len(kids[v]) = 2
  /\ LET l == kids[v][1]
         r == kids[v][2]
     IN /\ alphas' = (alphas \cup {v}) \ {l}
        /\ table' = [table EXCEPT ![v] = Entries(l) \cup Entries(r) \cup {v}]
        /\ live' = live \ {l}

DoJoinLeftOnly(v) ==
  /\ Len(kids[v]) = 2
  /\ LET l == kids[v][1]
         r == kids[v][2]
     IN /\ alphas' = (alphas \cup {v}) \ {l, r}
        /\ table' = [table EXCEPT ![v] = Entries(l) \cup {v}]
        /\ live' = live \ {l, r}

(* ApplyJoin: pairs of entries of both children under equal assignments.   *)
DoJoin(v) ==
  /\ Len(kids[v]) = 2
  /\ LET l == kids[v][1]
         r == kids[v][2]
     IN /\ alphas' = (alphas \cup {v}) \ {l, r}
        /\ table' = [table EXCEPT ![v] = IF Entries(l) = {} \/ Entries(r) = {} THEN {}
                                         ELSE Entries(l) \cup Entries(r) \cup {v}]
        /\ live' = live \ {l, r}

(* work_on(t): the shape of the node picks the step.                       *)
WorkOn ==
  /\ \E v \in cur : DoLeaf(v) \/ DoIntroduceOrForget(v) \/ DoJoin(v)
  /\ cur' = {}
  /\ UNCHANGED <<kids, stack, visited, answer>>

(* do_root(): the solution is read off the root's table, which is deleted. *)
DoRoot ==
  /\ cur = {} /\ stack = <<>> /\ Root \in live
  /\ answer' = table[Root]
  /\ live' = live \ {Root}
  /\ alphas' = alphas \ {Root}
  /\ UNCHANGED <<kids, stack, visited, cur, table>>

Solved == cur = {} /\ stack = <<>> /\ Root \notin live

Terminated == Solved /\ UNCHANGED vars

Next == Expand \/ Pop \/ WorkOn \/ DoRoot \/ Terminated

(* One thread runs the loop and nothing blocks it.                         *)
Spec == Init /\ [][Next]_vars /\ WF_vars(Expand \/ Pop \/ WorkOn \/ DoRoot)

-----------------------------------------------------------------------------
TypeOK ==
  /\ kids \in Shapes
  /\ stack \in Seq(Node)
  /\ visited \subseteq Node
  /\ cur \in {{}} \cup {{v} : v \in Node}
  /\ live \subseteq Node
  /\ table \in [Node -> SUBSET Node]
  /\ alphas \subseteq Node
  /\ answer \subseteq Node

(***************************************************************************)
(* Whatever do_X() reads of its children is there when it starts: the      *)
(* assignment apply_dynstep.hpp asserts and ApplyJoin dereferences, and a  *)
(* table that has not been deleted and is complete.                        *)
(***************************************************************************)
ChildrenReady ==
  \A v \in cur : \A c \in KidSet(kids, v) :
     c \in alphas /\ c \in live /\ c \in table[c]

(***************************************************************************)
(* When solve() returns, the solution accounts for every node of the       *)
(* decomposition and no table or assignment of a node is left behind: the  *)
(* cleanup() calls of the do_X() handlers free each of them exactly once.  *)
(***************************************************************************)
SolvedCompletely == Solved => answer = Node /\ live = {} /\ alphas = {}

(***************************************************************************)
(* The walk implements the abstract schedule.  A table is ready once it is *)
(* filled, gone once it is deleted.                                        *)
(***************************************************************************)
PhaseOf(v) == CASE v \notin live -> "gone"
                [] v \in live /\ table[v] # {} -> "ready"
                [] v \in live /\ table[v] = {} /\ v \in cur -> "busy"
                [] OTHER -> "todo"

Schedule == INSTANCE DynProg WITH
  phase <- [v \in Node |-> PhaseOf(v)], cover <- table

ImplementsSchedule == Schedule!Spec
=============================================================================
