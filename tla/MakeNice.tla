------------------------------ MODULE MakeNice ------------------------------
(***************************************************************************)
(* TreeDecomposition::make_nice(): a loop that goes through the vertices   *)
(* of a decomposition by their ids and repairs each until it is the node   *)
(* of a nice decomposition.  A repair adds vertices, which get the next    *)
(* ids, and moves out-edges of the vertex it repairs.  One action is one   *)
(* call of fix_single_vertex().                                            *)
(***************************************************************************)
EXTENDS TreeDecomp

CONSTANT
  Inputs     (* the decompositions given: records [n, kids, bag]            *)

(* Vertices and, in the bags, those of the graph are numbers.              *)
IsGiven(in) ==
  /\ in.n \in Nat \ {0}
  /\ in.kids \in [1 .. in.n -> SUBSET (1 .. in.n)]
  /\ in.bag \in [1 .. in.n -> SUBSET Nat]
  /\ \A v \in 1 .. in.n : IsFiniteSet(in.bag[v])

ASSUME MakeNiceAssumption == \A in \in Inputs : IsGiven(in)

VARIABLES
  n,         (* num_vertices(); the vertices are 1 .. n                     *)
  kids, bag,
  root,      (* root(), 0 while it is null_vertex()                         *)
  last,      (* the vertex being repaired                                   *)
  done,      (* make_nice() has returned                                    *)
  input      (* the decomposition as it was given                           *)

vars == <<n, kids, bag, root, last, done, input>>

Init ==
  /\ input \in Inputs
  /\ n = input.n /\ kids = input.kids /\ bag = input.bag
  /\ root = 0
  /\ last = 1
  /\ done = FALSE

Node == 1 .. n
InDegreeZero(v) == \A u \in Node : v \notin kids[u]

(* fix_root_leafs() notes a root before anything else is tried.            *)
NoteRoot == root' = IF InDegreeZero(last) THEN last ELSE root

(* New vertices and what they change: k and b say what the vertices in     *)
(* their domains have from now on.                                         *)
Override(f, g) == [x \in DOMAIN f \cup DOMAIN g |-> IF x \in DOMAIN g THEN g[x] ELSE f[x]]

Repair(count, k, b) ==
  /\ n' = n + count
  /\ kids' = Override(kids, k)
  /\ bag' = Override(bag, b)
  /\ NoteRoot
  /\ UNCHANGED <<last, done, input>>

-----------------------------------------------------------------------------
(* fix_root_leafs(): a leaf with a bag gets a child without one.           *)
FixLeaf ==
  /\ ~done /\ kids[last] = {} /\ bag[last] # {}
  /\ Repair(1, [v \in {last, n + 1} |-> IF v = last THEN {n + 1} ELSE {}],
               [v \in {n + 1} |-> {}])

(* fix_binary(): the children of a vertex with more than two go, in turn,  *)
(* to two copies of its bag.                                               *)
Rank(S, c) == Cardinality({d \in S : d <= c})

(* Mutant of FixBinary: the edges that are copied are not removed.         *)
FixBinaryKeepsEdges ==
  LET K == kids[last]
      Half(r) == {c \in K : Rank(K, c) % 2 = r}
  IN
  /\ ~done /\ Cardinality(K) >= 3
  /\ Repair(2, [v \in {last, n + 1, n + 2} |-> CASE v = last -> K \cup {n + 1, n + 2}
                                                 [] v = n + 1 -> Half(1)
                                                 [] v = n + 2 -> Half(0)],
               [v \in {n + 1, n + 2} |-> bag[last]])

FixBinary ==
  LET K == kids[last]
      Half(r) == {c \in K : Rank(K, c) % 2 = r}
  IN
  /\ ~done /\ Cardinality(K) >= 3
  /\ Repair(2, [v \in {last, n + 1, n + 2} |-> CASE v = last -> {n + 1, n + 2}
                                                 [] v = n + 1 -> Half(1)
                                                 [] v = n + 2 -> Half(0)],
               [v \in {n + 1, n + 2} |-> bag[last]])

(* fix_joins(): a copy of the bag between a join and a child that differs. *)
FixJoins ==
  LET K == kids[last]
      D == {c \in K : bag[c] # bag[last]}
      New == n + 1 .. n + Cardinality(D)
  IN
  /\ ~done /\ Cardinality(K) = 2 /\ D # {}
  /\ Repair(Cardinality(D),
            [v \in {last} \cup New |->
               IF v = last THEN (K \ D) \cup New ELSE {c \in D : n + Rank(D, c) = v}],
            [v \in New |-> bag[last]])

(* fix_introduce_forget(): unless the bags differ by one vertex, a bag     *)
(* between them: what they share, and when one holds the other the first   *)
(* vertex that is in one only.                                             *)
Extra(A, B) ==
  LET small == IF Cardinality(A) > Cardinality(B) THEN B ELSE A
      large == IF Cardinality(A) > Cardinality(B) THEN A ELSE B
  IN IF small \subseteq large
     THEN {x \in large \ small : \A y \in large \ small : x <= y}
     ELSE {}

DifferByOne(A, B) ==
  \/ B \subseteq A /\ Cardinality(A) = Cardinality(B) + 1
  \/ A \subseteq B /\ Cardinality(A) + 1 = Cardinality(B)

(* Mutant of FixIntroduceForget: the union instead of the intersection.    *)
FixIntroduceForgetUnion ==
  /\ ~done
  /\ \E c \in Node :
       /\ kids[last] = {c} /\ ~DifferByOne(bag[last], bag[c])
       /\ Repair(1, [v \in {last, n + 1} |-> IF v = last THEN {n + 1} ELSE {c}],
                    [v \in {n + 1} |-> bag[last] \cup bag[c]])

FixIntroduceForget ==
  /\ ~done
  /\ \E c \in Node :
       /\ kids[last] = {c} /\ ~DifferByOne(bag[last], bag[c])
       /\ Repair(1, [v \in {last, n + 1} |-> IF v = last THEN {n + 1} ELSE {c}],
                    [v \in {n + 1} |-> (bag[last] \cap bag[c]) \cup Extra(bag[last], bag[c])])

(* Mutants of Advance: it passes by a join whose children differ; the      *)
(* flag of a change is never reset.                                        *)
AdvanceSkipsJoins ==
  LET K == kids[last] IN
  /\ ~done
  /\ K = {} => bag[last] = {}
  /\ Cardinality(K) < 3
  /\ \A c \in K : K = {c} => DifferByOne(bag[last], bag[c])
  /\ NoteRoot
  /\ last' = IF last < n THEN last + 1 ELSE last
  /\ done' = (last = n)
  /\ UNCHANGED <<n, kids, bag, input>>

AdvanceKeepsChanged ==
  LET K == kids[last] IN
  /\ ~done
  /\ K = {} => bag[last] = {}
  /\ Cardinality(K) < 3
  /\ Cardinality(K) = 2 => \A c \in K : bag[c] = bag[last]
  /\ \A c \in K : K = {c} => DifferByOne(bag[last], bag[c])
  /\ NoteRoot
  /\ last' = IF last < n THEN last + 1 ELSE last
  /\ UNCHANGED <<n, kids, bag, input, done>>

(* None of the repairs applies: the loop goes on to the next vertex, and   *)
(* ends after the last one.                                                *)
Advance ==
  LET K == kids[last] IN
  /\ ~done
  /\ K = {} => bag[last] = {}
  /\ Cardinality(K) < 3
  /\ Cardinality(K) = 2 => \A c \in K : bag[c] = bag[last]
  /\ \A c \in K : K = {c} => DifferByOne(bag[last], bag[c])
  /\ NoteRoot
  /\ last' = IF last < n THEN last + 1 ELSE last
  /\ done' = (last = n)
  /\ UNCHANGED <<n, kids, bag, input>>

Returned == done /\ UNCHANGED vars

Next == FixLeaf \/ FixBinary \/ FixJoins \/ FixIntroduceForget \/ Advance \/ Returned

Spec == Init /\ [][Next]_vars /\ WF_vars(Next)

-----------------------------------------------------------------------------
TypeOK ==
  /\ IsGiven(input)
  /\ n \in Nat \ {0}
  /\ kids \in [Node -> SUBSET Node]
  /\ bag \in [Node -> SUBSET Nat]
  /\ root \in Node \cup {0}
  /\ last \in Node
  /\ done \in BOOLEAN

(* The decomposition with a given root, and what was given.                *)
Td(r) == [node |-> Node, kids |-> kids, bag |-> bag, root |-> r]
Given == [node |-> 1 .. input.n, kids |-> input.kids, bag |-> input.bag, root |-> root]

(* No repair makes a bag larger than the largest that was given.           *)
WidthKept == \A v \in Node : \E t \in Given.node : Cardinality(bag[v]) <= Cardinality(input.bag[t])

(***************************************************************************)
(* The vertices that the loop has left behind are nodes of a nice          *)
(* decomposition, and remain so while later vertices are repaired.         *)
(***************************************************************************)
NiceBehind == \A v \in Node : v < last \/ done => IsNiceNode(Td(root), v)

=============================================================================
