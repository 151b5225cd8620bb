----------------------------- MODULE MinDegree -----------------------------
(***************************************************************************)
(* MinDegreeHeuristic::compute(): a tree decomposition from an elimination *)
(* order.  A vertex of least degree is taken out of the graph, its         *)
(* neighbours become a clique, until no vertex is left; the nodes of the   *)
(* decomposition are then added in the reverse order.  The vertices are    *)
(* kept in buckets by their degree.  The graph is directed, and an edge in *)
(* both directions counts twice in a degree.                               *)
(*                                                                         *)
(* The order in a bucket, a list, is left open: any of its vertices is     *)
(* taken.  So is the order in which the edges of the clique are added.     *)
(***************************************************************************)
EXTENDS TreeDecomp, Sequences

CONSTANT Inputs   (* the graphs given: [vertices, out], without loops      *)

VARIABLES
  input,
  out,         (* the out-neighbours in what is left of the graph           *)
  bucket,      (* the vertices by their degree                              *)
  minimum,     (* minimum_degree: no bucket below it holds a vertex         *)
  order,       (* the vertices in reverse order of their elimination        *)
  neighbors,   (* ... and the neighbours each had when it was taken out     *)
  todo,        (* neighbours whose bucket is still to be updated            *)
  pc,          (* start, take, out, in, clique, tree or done                *)
  kids, bag    (* the decomposition: a node for each vertex                 *)

vars == <<input, out, bucket, minimum, order, neighbors, todo, pc, kids, bag>>
graphVars == <<input, out, order, neighbors>>
treeVars == <<kids, bag>>

Nodes == input.vertices
In(v) == {u \in Nodes : v \in out[u]}
DegreeIn(o, v) == Cardinality(o[v]) + Cardinality({u \in Nodes : v \in o[u]})
Degree(v) == DegreeIn(out, v)
DegreeBound == 2 * Cardinality(Nodes)
Least(S) == CHOOSE x \in S : \A y \in S : x <= y

Unstarted ==
  /\ out = <<>> /\ bucket = <<>> /\ minimum = 0
  /\ order = <<>> /\ neighbors = <<>>
  /\ todo = {} /\ pc = "start"

Init == input \in Inputs /\ Unstarted /\ kids = <<>> /\ bag = <<>>

(* The decomposition of the empty graph has one node.                      *)
EmptyGraph ==
  /\ pc = "start" /\ Nodes = {}
  /\ kids' = <<{}>> /\ bag' = <<{}>>
  /\ pc' = "done"
  /\ UNCHANGED <<graphVars, bucket, minimum, todo>>

(* A copy of the graph is made, and every vertex is put into its bucket.   *)
Begin ==
  /\ pc = "start" /\ Nodes # {}
  /\ out' = input.out
  /\ bucket' = [d \in 0 .. DegreeBound - 1 |-> {v \in Nodes : DegreeIn(input.out, v) = d}]
  /\ pc' = "take"
  /\ UNCHANGED <<input, minimum, order, neighbors, todo, treeVars>>

(***************************************************************************)
(* update_bucket() for one vertex or, when an edge of the clique is added, *)
(* for two.  It does not return for a vertex that is not in its bucket.    *)
(***************************************************************************)
Moved(b, v, from, to) == [b EXCEPT ![from] = @ \ {v}, ![to] = @ \cup {v}]

UpdateBucket(v, from, to) ==
  /\ v \in bucket[from]
  /\ bucket' = Moved(bucket, v, from, to)
  /\ minimum' = Least({minimum, to})

(***************************************************************************)
(* The vertex to eliminate comes from the first bucket that has one.  The  *)
(* orders grow at their front, as current_order counts down.               *)
(***************************************************************************)
node == order[1]

FirstBucket == Least({d \in DOMAIN bucket : d >= minimum /\ bucket[d] # {}})

Take ==
  /\ pc = "take"
  /\ \E v \in bucket[FirstBucket] :
       /\ bucket' = [bucket EXCEPT ![FirstBucket] = @ \ {v}]
       /\ minimum' = FirstBucket
       /\ order' = <<v>> \o order
       /\ neighbors' = <<out[v]>> \o neighbors
       /\ todo' = out[v]
  /\ pc' = "out"
  /\ UNCHANGED <<input, out, treeVars>>

(***************************************************************************)
(* The degrees of its neighbours decrease, of those over an out-edge       *)
(* first.  A neighbour over both is already one bucket lower when its      *)
(* in-edge is reached.                                                     *)
(***************************************************************************)
UpdateOut ==
  /\ pc = "out" /\ todo # {}
  /\ \E n \in todo : UpdateBucket(n, Degree(n), Degree(n) - 1) /\ todo' = todo \ {n}
  /\ UNCHANGED <<graphVars, pc, treeVars>>

OutDone ==
  /\ pc = "out" /\ todo = {}
  /\ pc' = "in" /\ todo' = In(node)
  /\ UNCHANGED <<graphVars, bucket, minimum, treeVars>>

(* Mutant of Offset: the out-edge is not counted off.                      *)
OffsetNot(n) == 0

Offset(n) == IF n \in out[node] THEN 1 ELSE 0

(* Mutant of UpdateIn: the vertex is not noted as a neighbour.             *)
UpdateInUnnoted ==
  /\ pc = "in" /\ todo # {}
  /\ \E n \in todo :
       /\ UpdateBucket(n, Degree(n) - Offset(n), Degree(n) - Offset(n) - 1)
       /\ todo' = todo \ {n}
  /\ UNCHANGED <<graphVars, pc, treeVars>>

UpdateIn ==
  /\ pc = "in" /\ todo # {}
  /\ \E n \in todo :
       /\ neighbors' = [neighbors EXCEPT ![1] = @ \cup {n}]
       /\ UpdateBucket(n, Degree(n) - Offset(n), Degree(n) - Offset(n) - 1)
       /\ todo' = todo \ {n}
  /\ UNCHANGED <<input, out, order, pc, treeVars>>

(***************************************************************************)
(* The vertex is taken out of the graph, and make_clique() adds an edge    *)
(* between any two of its neighbours that have none in either direction.   *)
(***************************************************************************)
Clear ==
  /\ pc = "in" /\ todo = {}
  /\ out' = [v \in Nodes |-> IF v = node THEN {} ELSE out[v] \ {node}]
  /\ pc' = "clique"
  /\ UNCHANGED <<input, bucket, minimum, order, neighbors, todo, treeVars>>

Missing ==
  {e \in neighbors[1] \X neighbors[1] :
     e[1] < e[2] /\ e[2] \notin out[e[1]] /\ e[1] \notin out[e[2]]}

AddEdge ==
  /\ pc = "clique"
  /\ \E e \in Missing :
       LET d1 == Degree(e[1])  d2 == Degree(e[2])
       IN /\ e[1] \in bucket[d1] /\ e[2] \in bucket[d2]
          /\ out' = [out EXCEPT ![e[1]] = @ \cup {e[2]}]
          /\ bucket' = Moved(Moved(bucket, e[1], d1, d1 + 1), e[2], d2, d2 + 1)
          /\ minimum' = Least({minimum, d1 + 1, d2 + 1})
  /\ UNCHANGED <<input, order, neighbors, todo, pc, treeVars>>

Eliminated ==
  /\ pc = "clique" /\ Missing = {}
  /\ pc' = IF Len(order) = Cardinality(Nodes) THEN "tree" ELSE "take"
  /\ UNCHANGED <<graphVars, bucket, minimum, todo, treeVars>>

(***************************************************************************)
(* A node of the decomposition: it goes below the last node but the first  *)
(* whose bag holds the neighbours, or else below the first, and its vertex *)
(* is put into its bag.                                                    *)
(***************************************************************************)
Parent(i) ==
  LET found == {j \in 2 .. i - 1 : neighbors[i] \subseteq bag[j]}
  IN IF found = {} THEN 1 ELSE CHOOSE j \in found : \A k \in found : k <= j

AddNode ==
  /\ pc = "tree"
  /\ LET i == Len(bag) + 1
     IN /\ bag' = Append(bag, neighbors[i] \cup {order[i]})
        /\ kids' = [j \in 1 .. i |->
                      IF j = i THEN {}
                      ELSE kids[j] \cup IF j = Parent(i) THEN {i} ELSE {}]
        /\ pc' = IF i = Len(order) THEN "done" ELSE "tree"
  /\ UNCHANGED <<graphVars, bucket, minimum, todo>>

Next ==
  \/ EmptyGraph \/ Begin \/ Take \/ UpdateOut \/ OutDone \/ UpdateIn
  \/ Clear \/ AddEdge \/ Eliminated \/ AddNode

Spec == Init /\ [][Next]_vars /\ WF_vars(Next)

-----------------------------------------------------------------------------
Left == Nodes \ {order[i] : i \in DOMAIN order}

(***************************************************************************)
(* Every vertex that is left is in exactly the bucket of its degree, less  *)
(* the edges to the vertex being taken out that were counted off already:  *)
(* update_bucket() always finds it.                                        *)
(***************************************************************************)
CountedOff(v) ==
  CASE pc = "out" -> IF v \in out[node] \ todo THEN 1 ELSE 0
    [] pc = "in"  -> Offset(v) + (IF v \in In(node) \ todo THEN 1 ELSE 0)
    [] OTHER -> 0

BucketsExact ==
  pc \notin {"start", "tree", "done"} =>
    \A d \in DOMAIN bucket :
      bucket[d] = {v \in Left : Degree(v) - CountedOff(v) = d}

=============================================================================
