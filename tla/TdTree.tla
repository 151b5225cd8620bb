------------------------------- MODULE TdTree -------------------------------
(***************************************************************************)
(* The shape of a nice tree decomposition as the solver walks it: the      *)
(* children of a node in the order of tdc->out_edges(v).  What a bag holds *)
(* is the subject of MakeNice; the scheduling only sees the tree.          *)
(***************************************************************************)
EXTENDS Naturals, Sequences, SequencesExt

CONSTANTS
  Node,      (* the vertices of the tree decomposition                      *)
  Root,      (* tdc->root()                                                 *)
  Shapes     (* the trees considered: functions from Node to its children   *)

KidSet(kids, v) == {kids[v][i] : i \in 1 .. Len(kids[v])}

(***************************************************************************)
(* What make_nice() leaves and pre_solve() lets pass, restricted to what   *)
(* is reached from the root, which is all that the walk sees: at most two  *)
(* children per node and no second way to a node (modules MakeNice and     *)
(* TdCheck).  A decomposition of more than 5000 nodes is not checked; then *)
(* it is make_nice() alone that the schedules rely on.                     *)
(***************************************************************************)
Reaches(kids) ==
  \A S \in SUBSET Node :
     Root \in S /\ (\A v \in S : KidSet(kids, v) \subseteq S) => S = Node

IsNiceTree(kids) ==
  /\ kids \in [Node -> Seq(Node)]
  /\ \A v \in Node : Len(kids[v]) \in 0 .. 2
  /\ \A v \in Node : Len(kids[v]) = 2 => kids[v][1] # kids[v][2]
  /\ \A v \in Node : Root \notin KidSet(kids, v)
  /\ \A v, w \in Node : v # w => KidSet(kids, v) \cap KidSet(kids, w) = {}
  /\ Reaches(kids)

ASSUME TreeAssumption ==
  /\ Root \in Node
  /\ \A kids \in Shapes : IsNiceTree(kids)
=============================================================================
