------------------------------ MODULE DynProg -------------------------------
(***************************************************************************)
(* What bottom-up dynamic programming promises, whoever schedules it: a    *)
(* node is worked on once, when the tables of all its children are         *)
(* complete and nobody else has consumed them; its children's tables are   *)
(* then given up; the answer is read off the root's table and accounts for *)
(* every node of the decomposition.                                        *)
(***************************************************************************)
EXTENDS TdTree

VARIABLES
  kids,      (* the tree being solved; chosen once                          *)
  phase,     (* what has become of each node's table                        *)
  cover,     (* the nodes whose bags the table of a node accounts for       *)
  answer     (* the nodes the solution accounts for, {} before it is known  *)

vars == <<kids, phase, cover, answer>>

Phases == {"todo", "busy", "ready", "gone"}

Init ==
  /\ kids \in Shapes
  /\ phase = [v \in Node |-> "todo"]
  /\ cover = [v \in Node |-> {}]
  /\ answer = {}

(* The tables of the children are complete when the work on v begins.      *)
Start(v) ==
  /\ phase[v] = "todo"
  /\ \A c \in KidSet(kids, v) : phase[c] = "ready"
  /\ phase' = [phase EXCEPT ![v] = "busy"]
  /\ UNCHANGED <<kids, cover, answer>>

(* The table of v takes the place of its children's.                       *)
Finish(v) ==
  /\ phase[v] = "busy"
  /\ phase' = [w \in Node |-> CASE w = v -> "ready"
                                [] w # v /\ w \in KidSet(kids, v) -> "gone"
                                [] OTHER -> phase[w]]
  /\ cover' = [cover EXCEPT ![v] =
                 {v} \cup UNION {cover[c] : c \in KidSet(kids, v)}]
  /\ UNCHANGED <<kids, answer>>

(* The solution is read off the root's table.                              *)
Answer ==
  /\ phase[Root] = "ready"
  /\ phase' = [phase EXCEPT ![Root] = "gone"]
  /\ answer' = cover[Root]
  /\ UNCHANGED <<kids, cover>>

Done == phase[Root] = "gone" /\ UNCHANGED vars

Next == (\E v \in Node : Start(v) \/ Finish(v)) \/ Answer \/ Done

Spec == Init /\ [][Next]_vars

-----------------------------------------------------------------------------
TypeOK ==
  /\ kids \in Shapes
  /\ phase \in [Node -> Phases]
  /\ cover \in [Node -> SUBSET Node]
  /\ answer \subseteq Node

(* The solution accounts for every node of the decomposition.              *)
AnswerComplete == answer # {} => answer = Node

(***************************************************************************)
(* No node is accounted for in two tables that are still to be consumed,   *)
(* so that no evaluation counts a vertex of the graph twice.               *)
(***************************************************************************)
NothingTwice ==
  \A v, w \in Node :
     v # w /\ phase[v] = "ready" /\ phase[w] = "ready" => cover[v] \cap cover[w] = {}
=============================================================================
