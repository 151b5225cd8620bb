--------------------------- MODULE PreSolveProofs ---------------------------
(***************************************************************************)
(* The preparation of a solve, on every graph and decomposition.  First    *)
(* make_nice(), as its specification has it: the vertices that the loop    *)
(* has left behind are nodes of a nice decomposition, and no bag is larger *)
(* than the largest given.  Then the search of MinDegreeHeuristic, within  *)
(* the whole: the buckets are exact whenever a vertex is looked for, and   *)
(* it is found.  Then the graph of a solution: the graph that was given,   *)
(* also when an incidence graph was played on.  Last the decomposition     *)
(* from the heuristic or the file to the end of a solve: that it is one of *)
(* the graph, and that the checks decide it by its definition.             *)
(***************************************************************************)
EXTENDS PreSolve, FiniteSetTheorems, SequenceTheorems, WellFoundedInduction, TLAPS

(* Every bag is part of one that was given: what WidthKept rests on.       *)
BagsWithin == \A v \in Node : \E t \in 1 .. input.n : bag[v] \subseteq input.bag[t]

IInv == TypeOK /\ BagsWithin /\ NiceBehind

-----------------------------------------------------------------------------
(* What a set of one or two elements looks like.                           *)
LEMMA OneElement ==
  ASSUME NEW S, IsFiniteSet(S), Cardinality(S) = 1
  PROVE  \E c \in S : S = {c}
<1>1. S # {}
  BY FS_EmptySet
<1>2. PICK c \in S : TRUE
  BY <1>1
<1>3. IsFiniteSet(S \ {c}) /\ Cardinality(S \ {c}) = 0
  BY <1>2, FS_RemoveElement
<1>4. S \ {c} = {}
  BY <1>3, FS_EmptySet
<1> QED BY <1>2, <1>4

LEMMA TwoElements ==
  ASSUME NEW S, IsFiniteSet(S), Cardinality(S) = 2
  PROVE  \E c, d \in S : c # d /\ S = {c, d}
<1>1. S # {}
  BY FS_EmptySet
<1>2. PICK c \in S : TRUE
  BY <1>1
<1>3. IsFiniteSet(S \ {c}) /\ Cardinality(S \ {c}) = 1
  BY <1>2, FS_RemoveElement
<1>4. PICK d \in S \ {c} : S \ {c} = {d}
  BY <1>3, OneElement
<1>5. c # d /\ S = {c, d}
  BY <1>2, <1>4
<1> QED BY <1>2, <1>4, <1>5

(* Bags of which one holds the other and one vertex more.                  *)
LEMMA OneMoreFromCardinality ==
  ASSUME NEW A, NEW B, IsFiniteSet(A), B \subseteq A,
         Cardinality(A) = Cardinality(B) + 1
  PROVE  OneMore(A, B)
<1>1. IsFiniteSet(B) /\ Cardinality(B) \in Nat
  BY FS_Subset, FS_CardinalityType
<1>2. IsFiniteSet(A \ B) /\ Cardinality(A \ B) = Cardinality(A) - Cardinality(A \cap B)
  BY FS_Difference
<1>3. A \cap B = B
  OBVIOUS
<1>4. Cardinality(A \ B) = 1
  <2>1. Cardinality(A \ B) = (Cardinality(B) + 1) - Cardinality(B)
    BY <1>2, <1>3, Zenon
  <2> QED BY <1>1, <2>1
<1>5. PICK x \in A \ B : A \ B = {x}
  BY <1>2, <1>4, OneElement
<1>6. A = B \cup {x}
  BY <1>5
<1> QED BY <1>5, <1>6 DEF OneMore

-----------------------------------------------------------------------------
(* A repair adds the vertices after n and changes the edges of the vertex  *)
(* that is repaired; all other vertices stay as they are.                  *)
LEMMA RepairKeeps ==
  ASSUME TypeOK, BagsWithin, NiceBehind, ~done,
         NEW count \in Nat, NEW k, NEW b, Repair(count, k, b),
         DOMAIN k = {last} \cup (n + 1 .. n + count),
         DOMAIN b = n + 1 .. n + count,
         \A v \in DOMAIN k : k[v] \subseteq 1 .. n + count,
         \A v \in DOMAIN b : \E t \in 1 .. input.n : b[v] \subseteq input.bag[t]
  PROVE  IInv'
<1> USE DEF Node
<1>1. /\ n \in Nat \ {0} /\ last \in 1 .. n /\ root \in 0 .. n
      /\ kids \in [1 .. n -> SUBSET (1 .. n)] /\ bag \in [1 .. n -> SUBSET Nat]
      /\ IsGiven(input) /\ done = FALSE
  BY DEF TypeOK
<1>2. n' = n + count /\ last' = last /\ done' = done /\ input' = input /\ Node' = 1 .. n + count
  BY DEF Repair
<1>3. DOMAIN kids \cup DOMAIN k = 1 .. n + count /\ DOMAIN bag \cup DOMAIN b = 1 .. n + count
  BY <1>1
<1>4. /\ kids' = [x \in 1 .. n + count |-> IF x \in DOMAIN k THEN k[x] ELSE kids[x]]
      /\ bag' = [x \in 1 .. n + count |-> IF x \in DOMAIN b THEN b[x] ELSE bag[x]]
  BY <1>3 DEF Repair, Override
<1>5. /\ \A v \in 1 .. n : v # last => kids'[v] = kids[v]
      /\ \A v \in 1 .. n : bag'[v] = bag[v]
      /\ \A v \in n + 1 .. n + count : bag'[v] = b[v]
  BY <1>1, <1>4
<1>6. \A t \in 1 .. input.n : input.bag[t] \subseteq Nat
  BY <1>1 DEF IsGiven
<1>7. TypeOK'
  <2>1. kids' \in [1 .. n + count -> SUBSET (1 .. n + count)]
    <3>1. \A x \in 1 .. n + count : x \notin DOMAIN k => kids[x] \subseteq 1 .. n + count
      BY <1>1
    <3> QED BY <1>4, <3>1
  <2>2. bag' \in [1 .. n + count -> SUBSET Nat]
    <3>1. \A x \in DOMAIN b : b[x] \subseteq Nat
      BY <1>6
    <3>2. \A x \in 1 .. n + count : x \notin DOMAIN b => bag[x] \subseteq Nat
      BY <1>1
    <3> QED BY <1>4, <3>1, <3>2
  <2>3. root' \in (1 .. n + count) \cup {0}
    BY <1>1 DEF Repair, NoteRoot
  <2>4. n + count \in Nat \ {0} /\ last \in 1 .. n + count
    BY <1>1
  <2>5. done \in BOOLEAN
    BY DEF TypeOK
  <2> QED BY <1>1, <1>2, <2>1, <2>2, <2>3, <2>4, <2>5, Zenon DEF TypeOK
<1>8. BagsWithin'
  <2> SUFFICES ASSUME NEW v \in 1 .. n + count
               PROVE  \E t \in 1 .. input.n : bag'[v] \subseteq input.bag[t]
    BY <1>2 DEF BagsWithin
  <2>1. CASE v \in 1 .. n
    BY <2>1, <1>5 DEF BagsWithin
  <2>2. CASE v \in n + 1 .. n + count
    BY <2>2, <1>5
  <2> QED BY <1>1, <2>1, <2>2
<1>9. NiceBehind'
  <2> SUFFICES ASSUME NEW v \in 1 .. n + count, v < last
               PROVE  IsNiceNode(Td(root), v)'
    BY <1>1, <1>2 DEF NiceBehind
  <2>1. v \in 1 .. n /\ v # last
    BY <1>1
  <2>2. IsNiceNode(Td(root), v)
    BY <2>1 DEF NiceBehind
  <2>3. kids'[v] = kids[v] /\ kids[v] \subseteq 1 .. n /\ bag'[v] = bag[v]
    BY <1>1, <1>5, <2>1
  <2>4. \A c \in kids[v] : c \in 1 .. n + count /\ bag'[c] = bag[c]
    BY <1>1, <1>5, <2>3
  <2> QED BY <1>2, <2>2, <2>3, <2>4 DEF IsNiceNode, Td
<1> QED BY <1>7, <1>8, <1>9 DEF IInv

-----------------------------------------------------------------------------
LEMMA InitIInv == Init => IInv
<1> SUFFICES ASSUME Init PROVE IInv
  OBVIOUS
<1>1. IsGiven(input) /\ n = input.n /\ kids = input.kids /\ bag = input.bag /\ last = 1
  BY MakeNiceAssumption DEF Init
<1>2. /\ n \in Nat \ {0} /\ kids \in [1 .. n -> SUBSET (1 .. n)]
      /\ bag \in [1 .. n -> SUBSET Nat]
  BY <1>1 DEF IsGiven
<1>3. TypeOK
  <2>1. 1 \in 1 .. n
    BY <1>2
  <2>2. root = 0 /\ done = FALSE
    BY DEF Init
  <2> QED BY <1>1, <1>2, <2>1, <2>2 DEF TypeOK, Node
<1>4. BagsWithin
  BY <1>1 DEF BagsWithin, Node
<1>5. NiceBehind
  BY <1>1, <1>2 DEF Init, NiceBehind, Node
<1> QED BY <1>3, <1>4, <1>5 DEF IInv

(* What the steps need of the vertex that is repaired.                     *)
LEMMA AtLast ==
  ASSUME IInv
  PROVE  /\ n \in Nat \ {0} /\ last \in 1 .. n /\ IsGiven(input)
         /\ kids[last] \subseteq 1 .. n /\ IsFiniteSet(kids[last])
         /\ \A v \in 1 .. n : IsFiniteSet(bag[v])
<1>1. /\ n \in Nat \ {0} /\ last \in 1 .. n /\ IsGiven(input)
      /\ kids[last] \subseteq 1 .. n
  BY DEF IInv, TypeOK, Node
<1>2. IsFiniteSet(1 .. n)
  BY <1>1, FS_Interval
<1>3. IsFiniteSet(kids[last])
  BY <1>1, <1>2, FS_Subset
<1>4. ASSUME NEW v \in 1 .. n PROVE IsFiniteSet(bag[v])
  <2>1. PICK t \in 1 .. input.n : bag[v] \subseteq input.bag[t]
    BY DEF IInv, BagsWithin, Node
  <2>2. IsFiniteSet(input.bag[t])
    BY <1>1 DEF IsGiven
  <2> QED BY <2>1, <2>2, FS_Subset
<1> QED BY <1>1, <1>3, <1>4

LEMMA FixLeafIInv == IInv /\ FixLeaf => IInv'
<1> SUFFICES ASSUME IInv, FixLeaf PROVE IInv'
  OBVIOUS
<1> DEFINE k == [v \in {last, n + 1} |-> IF v = last THEN {n + 1} ELSE {}]
           b == [v \in {n + 1} |-> {}]
<1>1. n \in Nat \ {0} /\ last \in 1 .. n /\ IsGiven(input)
  BY AtLast
<1>2. n + 1 .. n + 1 = {n + 1}
  BY <1>1
<1>3. \A v \in DOMAIN k : k[v] \subseteq 1 .. n + 1
  BY <1>1
<1>4. \A v \in DOMAIN b : \E t \in 1 .. input.n : b[v] \subseteq input.bag[t]
  BY <1>1 DEF IsGiven
<1>5. DOMAIN k = {last} \cup (n + 1 .. n + 1) /\ DOMAIN b = n + 1 .. n + 1
  BY <1>2
<1>6. Repair(1, k, b) /\ ~done
  BY DEF FixLeaf
<1> HIDE DEF k, b
<1> QED BY <1>3, <1>4, <1>5, <1>6, RepairKeeps DEF IInv

LEMMA FixBinaryIInv == IInv /\ FixBinary => IInv'
<1> SUFFICES ASSUME IInv, FixBinary PROVE IInv'
  OBVIOUS
<1> DEFINE K == kids[last]
           Half(r) == {c \in K : Rank(K, c) % 2 = r}
           k == [v \in {last, n + 1, n + 2} |-> CASE v = last -> {n + 1, n + 2}
                                                  [] v = n + 1 -> Half(1)
                                                  [] v = n + 2 -> Half(0)]
           b == [v \in {n + 1, n + 2} |-> bag[last]]
<1>1. n \in Nat \ {0} /\ last \in 1 .. n /\ IsGiven(input) /\ K \subseteq 1 .. n
  BY AtLast
<1>2. n + 1 .. n + 2 = {n + 1, n + 2}
  BY <1>1
<1>3. \A v \in DOMAIN k : k[v] \subseteq 1 .. n + 2
  <2>1. Half(0) \subseteq 1 .. n + 2 /\ Half(1) \subseteq 1 .. n + 2
    BY <1>1
  <2>2. {n + 1, n + 2} \subseteq 1 .. n + 2
    BY <1>1
  <2>3. k[last] = {n + 1, n + 2} /\ k[n + 1] = Half(1) /\ k[n + 2] = Half(0)
    <3> HIDE DEF Half
    <3> QED BY <1>1
  <2>4. DOMAIN k = {last, n + 1, n + 2}
    OBVIOUS
  <2> HIDE DEF k, Half
  <2> QED BY <2>1, <2>2, <2>3, <2>4
<1>4. \A v \in DOMAIN b : \E t \in 1 .. input.n : b[v] \subseteq input.bag[t]
  BY <1>1 DEF IInv, BagsWithin, Node
<1>5. DOMAIN k = {last} \cup (n + 1 .. n + 2) /\ DOMAIN b = n + 1 .. n + 2
  BY <1>2
<1>6. Repair(2, k, b) /\ ~done
  BY DEF FixBinary
<1> HIDE DEF k, b
<1> QED BY <1>3, <1>4, <1>5, <1>6, RepairKeeps DEF IInv

LEMMA FixJoinsIInv == IInv /\ FixJoins => IInv'
<1> SUFFICES ASSUME IInv, FixJoins PROVE IInv'
  OBVIOUS
<1> DEFINE K == kids[last]
           D == {c \in K : bag[c] # bag[last]}
           New == n + 1 .. n + Cardinality(D)
           k == [v \in {last} \cup New |->
                   IF v = last THEN (K \ D) \cup New ELSE {c \in D : n + Rank(D, c) = v}]
           b == [v \in New |-> bag[last]]
<1>1. n \in Nat \ {0} /\ last \in 1 .. n /\ IsGiven(input) /\ K \subseteq 1 .. n
      /\ IsFiniteSet(K)
  BY AtLast
<1>2. Cardinality(D) \in Nat
  BY <1>1, FS_Subset, FS_CardinalityType
<1> DEFINE count == Cardinality(D)
<1>3. Repair(count, k, b) /\ ~done
  BY DEF FixJoins
<1>4. \A v \in DOMAIN k : k[v] \subseteq 1 .. n + count
  <2>1. New = n + 1 .. n + count /\ D \subseteq K
    OBVIOUS
  <2>2. K \subseteq 1 .. n + count /\ n + 1 .. n + count \subseteq 1 .. n + count
    <3>1. count \in Nat
      BY <1>2
    <3> HIDE DEF count
    <3> QED BY <1>1, <3>1
  <2> HIDE DEF K, D, New, count
  <2> QED BY <2>1, <2>2
<1>5. \A v \in DOMAIN b : \E t \in 1 .. input.n : b[v] \subseteq input.bag[t]
  BY <1>1 DEF IInv, BagsWithin, Node
<1>6. DOMAIN k = {last} \cup (n + 1 .. n + count) /\ DOMAIN b = n + 1 .. n + count
  OBVIOUS
<1> HIDE DEF k, b
<1>7. count \in Nat
  BY <1>2
<1> HIDE DEF count
<1> QED BY <1>3, <1>4, <1>5, <1>6, <1>7, RepairKeeps DEF IInv

(* The bag in between is part of the bag above or of the one below.        *)
LEMMA BetweenWithin ==
  ASSUME NEW A, NEW B
  PROVE  \/ (A \cap B) \cup Extra(A, B) \subseteq A
         \/ (A \cap B) \cup Extra(A, B) \subseteq B
<1> DEFINE small == IF Cardinality(A) > Cardinality(B) THEN B ELSE A
           large == IF Cardinality(A) > Cardinality(B) THEN A ELSE B
<1>1. CASE small \subseteq large
  <2>1. Extra(A, B) \subseteq large
    BY <1>1 DEF Extra
  <2>2. A \cap B \subseteq large
    OBVIOUS
  <2>3. (A \cap B) \cup Extra(A, B) \subseteq large
    BY <2>1, <2>2
  <2>4. large = A \/ large = B
    OBVIOUS
  <2> HIDE DEF large
  <2> QED BY <2>3, <2>4
<1>2. CASE ~(small \subseteq large)
  <2>1. Extra(A, B) = {}
    BY <1>2 DEF Extra
  <2> QED BY <2>1
<1> QED BY <1>1, <1>2

LEMMA FixIntroduceForgetIInv == IInv /\ FixIntroduceForget => IInv'
<1> SUFFICES ASSUME IInv, FixIntroduceForget PROVE IInv'
  OBVIOUS
<1>1. n \in Nat \ {0} /\ last \in 1 .. n /\ IsGiven(input) /\ kids[last] \subseteq 1 .. n
  BY AtLast
<1>2. PICK c \in Node :
        /\ kids[last] = {c}
        /\ Repair(1, [v \in {last, n + 1} |-> IF v = last THEN {n + 1} ELSE {c}],
                     [v \in {n + 1} |-> (bag[last] \cap bag[c]) \cup Extra(bag[last], bag[c])])
  BY DEF FixIntroduceForget
<1> DEFINE k == [v \in {last, n + 1} |-> IF v = last THEN {n + 1} ELSE {c}]
           between == (bag[last] \cap bag[c]) \cup Extra(bag[last], bag[c])
           b == [v \in {n + 1} |-> between]
<1>3. n + 1 .. n + 1 = {n + 1}
  BY <1>1
<1>4. \A v \in DOMAIN k : k[v] \subseteq 1 .. n + 1
  BY <1>1, <1>2 DEF Node
<1>5. \E t \in 1 .. input.n : between \subseteq input.bag[t]
  <2>1. between \subseteq bag[last] \/ between \subseteq bag[c]
    BY BetweenWithin
  <2> HIDE DEF between
  <2>2. last \in Node /\ c \in Node
    BY <1>1, <1>2 DEF Node
  <2>3. /\ \E t \in 1 .. input.n : bag[last] \subseteq input.bag[t]
        /\ \E t \in 1 .. input.n : bag[c] \subseteq input.bag[t]
    BY <2>2 DEF IInv, BagsWithin
  <2> QED BY <2>1, <2>3
<1>6. DOMAIN k = {last} \cup (n + 1 .. n + 1) /\ DOMAIN b = n + 1 .. n + 1
  BY <1>3
<1>7. \A v \in DOMAIN b : \E t \in 1 .. input.n : b[v] \subseteq input.bag[t]
  <2> HIDE DEF between
  <2> QED BY <1>5
<1>8. Repair(1, k, b) /\ ~done
  BY <1>2 DEF FixIntroduceForget
<1> HIDE DEF k, b
<1> QED BY <1>4, <1>6, <1>7, <1>8, RepairKeeps DEF IInv

(* A vertex that needs no repair is a node of a nice decomposition.        *)
LEMMA NoRepairIsNice == IInv /\ Advance => IsNiceNode(Td(root), last)
<1> SUFFICES ASSUME IInv, Advance PROVE IsNiceNode(Td(root), last)
  OBVIOUS
<1> DEFINE K == kids[last]
<1>1. /\ n \in Nat \ {0} /\ last \in 1 .. n /\ K \subseteq 1 .. n /\ IsFiniteSet(K)
      /\ \A v \in 1 .. n : IsFiniteSet(bag[v])
  BY AtLast
<1>2. Cardinality(K) \in Nat /\ Cardinality(K) < 3
  BY <1>1, FS_CardinalityType DEF Advance
<1>3. CASE Cardinality(K) = 0
  <2>1. K = {}
    BY <1>1, <1>3, FS_EmptySet
  <2> QED BY <2>1 DEF Advance, IsNiceNode, Td
<1>4. CASE Cardinality(K) = 1
  <2>1. PICK c \in K : K = {c}
    BY <1>1, <1>4, OneElement
  <2>2. DifferByOne(bag[last], bag[c])
    BY <2>1 DEF Advance
  <2>3. IsFiniteSet(bag[last]) /\ IsFiniteSet(bag[c]) /\ c \in Node
    BY <1>1 DEF Node
  <2>4. OneMore(bag[last], bag[c]) \/ OneMore(bag[c], bag[last])
    <3>1. CASE bag[c] \subseteq bag[last] /\ Cardinality(bag[last]) = Cardinality(bag[c]) + 1
      BY <2>3, <3>1, OneMoreFromCardinality
    <3>2. CASE bag[last] \subseteq bag[c] /\ Cardinality(bag[last]) + 1 = Cardinality(bag[c])
      BY <2>3, <3>2, OneMoreFromCardinality
    <3> QED BY <2>2, <3>1, <3>2 DEF DifferByOne
  <2> QED BY <2>1, <2>3, <2>4 DEF IsNiceNode, Td
<1>5. CASE Cardinality(K) = 2
  <2>1. PICK c, d \in K : c # d /\ K = {c, d}
    BY <1>1, <1>5, TwoElements
  <2>2. bag[c] = bag[last] /\ bag[d] = bag[last]
    BY <1>5, <2>1 DEF Advance
  <2>3. c \in Node /\ d \in Node
    BY <1>1 DEF Node
  <2> QED BY <2>1, <2>2, <2>3 DEF IsNiceNode, Td
<1> QED BY <1>2, <1>3, <1>4, <1>5

LEMMA AdvanceIInv == IInv /\ Advance => IInv'
<1> SUFFICES ASSUME IInv, Advance PROVE IInv'
  OBVIOUS
<1>1. n \in Nat \ {0} /\ last \in 1 .. n
  BY AtLast
<1>2. n' = n /\ kids' = kids /\ bag' = bag /\ input' = input /\ Node' = Node
  BY DEF Advance, Node
<1>3. TypeOK'
  BY <1>1, <1>2 DEF IInv, TypeOK, Advance, NoteRoot, Node
<1>4. BagsWithin'
  BY <1>2 DEF IInv, BagsWithin
<1>5. NiceBehind'
  <2> SUFFICES ASSUME NEW v \in Node, v < last' \/ done'
               PROVE  IsNiceNode(Td(root), v)'
    BY <1>2 DEF NiceBehind
  <2>1. v = last \/ v < last
    <3>1. last' = (IF last < n THEN last + 1 ELSE last) /\ (done' => last = n)
      BY Zenon DEF Advance
    <3> QED BY <1>1, <3>1 DEF Node
  <2>2. IsNiceNode(Td(root), v)
    BY <2>1, NoRepairIsNice DEF IInv, NiceBehind
  <2> QED BY <1>2, <2>2 DEF IsNiceNode, Td
<1> QED BY <1>3, <1>4, <1>5 DEF IInv

LEMMA StutterIInv == IInv /\ UNCHANGED vars => IInv'
<1> SUFFICES ASSUME IInv, UNCHANGED vars PROVE IInv'
  OBVIOUS
<1>1. /\ n' = n /\ kids' = kids /\ bag' = bag /\ root' = root /\ last' = last
      /\ done' = done /\ input' = input
  BY DEF vars
<1> QED BY <1>1 DEF IInv, TypeOK, BagsWithin, NiceBehind, Node, Td

LEMMA NextIInv == IInv /\ [Next]_vars => IInv'
BY FixLeafIInv, FixBinaryIInv, FixJoinsIInv, FixIntroduceForgetIInv, AdvanceIInv, StutterIInv
DEF Next, Returned

-----------------------------------------------------------------------------
(***************************************************************************)
(* The vertices left behind by the loop are leaf, introduce, forget or     *)
(* join nodes; so all are when make_nice() returns.                        *)
(***************************************************************************)
THEOREM MakeNiceNiceBehind == Spec => []NiceBehind
<1>1. IInv => NiceBehind
  BY DEF IInv
<1> QED BY <1>1, InitIInv, NextIInv, PTL DEF Spec

LEMMA WithinWidth == IInv => WidthKept
<1> SUFFICES ASSUME IInv, NEW v \in Node
             PROVE  \E t \in 1 .. input.n : Cardinality(bag[v]) <= Cardinality(input.bag[t])
  BY DEF WidthKept, Given
<1>1. PICK t \in 1 .. input.n : bag[v] \subseteq input.bag[t]
  BY DEF IInv, BagsWithin
<1>2. IsFiniteSet(input.bag[t])
  BY AtLast DEF IsGiven
<1> QED BY <1>1, <1>2, FS_Subset

(***************************************************************************)
(* make_nice() keeps the width: no bag is larger than the largest given.   *)
(***************************************************************************)
THEOREM MakeNiceWidthKept == Spec => []WidthKept
BY WithinWidth, InitIInv, NextIInv, PTL DEF Spec

(* The state variables keep their types.                                   *)
THEOREM MakeNiceTypeCorrect == Spec => []TypeOK
<1>1. IInv => TypeOK
  BY DEF IInv
<1> QED BY <1>1, InitIInv, NextIInv, PTL DEF Spec

-----------------------------------------------------------------------------
(* The search of the min-degree heuristic.                                 *)
V == graph.vertices
Searching == {"take", "out", "in", "clique"}

(* The bucket that a vertex is in, says BucketsExact.                      *)
Key(v) == H!Degree(v) - H!CountedOff(v)

SearchTypes ==
  /\ out \in [V -> SUBSET V] /\ \A v \in V : v \notin out[v]
  /\ order \in Seq(V) /\ neighbors \in Seq(SUBSET V)
  /\ bucket \in [0 .. H!DegreeBound - 1 -> SUBSET V]
  /\ minimum \in Nat

(* As many vertices are left as have not been taken: one, before each take. *)
Progress ==
  /\ Cardinality(H!Left) = Cardinality(V) - Len(order)
  /\ pc = "take" => H!Left # {}
  /\ pc # "take" => order # <<>> /\ neighbors # <<>>

MinimumLow == \A v \in H!Left : minimum <= Key(v)

(* What has been taken out of the graph has no edges any more.             *)
Isolated ==
  \A v \in V \ H!Left : (pc \in {"out", "in"} => v # H!node) =>
    \A u \in V : u \notin out[v] /\ v \notin out[u]

(* Only neighbours of the vertex that is being taken out, which are left,  *)
(* are looked for, and the clique is made of vertices that are left.       *)
TodoNeighbors ==
  /\ pc = "out" => todo \subseteq out[H!node]
  /\ pc = "in" => todo \subseteq H!In(H!node)
  /\ pc # "take" => neighbors[1] \subseteq H!Left

SearchInv ==
  SearchTypes /\ Progress /\ H!BucketsExact /\ MinimumLow /\ Isolated /\ TodoNeighbors

PreInv ==
  /\ IsGraph(orig) /\ Numbered(orig) /\ LabelsFit(orig)
  /\ IsGraph(facade) /\ Numbered(facade) /\ LabelsFit(facade)
  /\ stage # "generate" => H!Unstarted \/ pc = "done"
  /\ stage = "generate" =>
       /\ IsGraph(graph)
       /\ pc \in Searching \cup {"start", "tree", "done"}
       /\ pc = "start" => H!Unstarted
       /\ pc \in Searching => SearchInv

-----------------------------------------------------------------------------
LEMMA NatMin ==
  ASSUME NEW T, T \subseteq Nat, T # {}
  PROVE  \E x \in T : \A y \in T : x <= y
<1> DEFINE R == OpToRel(<, Nat)
<1>1. \E x \in T : \A y \in T : ~(<<y, x>> \in R)
  BY NatLessThanWellFounded, WFMin, Zenon
<1>2. \A x, y \in Nat : <<y, x>> \in R <=> y < x
  BY DEF OpToRel
<1> HIDE DEF R
<1>3. PICK x \in T : \A y \in T : <<y, x>> \notin R  BY <1>1, Zenon
<1>4. \A y \in T : ~(y < x)  BY <1>2, <1>3
<1> QED  BY <1>4

LEMMA LeastFound ==
  ASSUME NEW T, T \subseteq Nat, T # {}
  PROVE  H!Least(T) \in T /\ \A y \in T : H!Least(T) <= y
<1>1. \E x \in T : \A y \in T : x <= y  BY NatMin
<1> QED  BY <1>1, Zenon DEF H!Least

(* The cardinality that MinDegree speaks of is this one.                   *)
LEMMA SameCardinality == \A S : H!Cardinality(S) = Cardinality(S)
BY DEF H!Cardinality, Cardinality

-----------------------------------------------------------------------------
(* The degree of a vertex in a graph without loops: both parts of it, and  *)
(* their sum, which is the index of a bucket.                              *)
InOf(o, v) == {u \in V : v \in o[u]}

LEMMA DegreeRange ==
  ASSUME IsFiniteSet(V), NEW o \in [V -> SUBSET V], \A v \in V : v \notin o[v], NEW v \in V
  PROVE  /\ IsFiniteSet(o[v]) /\ IsFiniteSet(InOf(o, v))
         /\ Cardinality(o[v]) \in Nat /\ Cardinality(InOf(o, v)) \in Nat
         /\ H!DegreeIn(o, v) = Cardinality(o[v]) + Cardinality(InOf(o, v))
         /\ H!DegreeIn(o, v) \in 0 .. H!DegreeBound - 2
<1>1. IsFiniteSet(V \ {v}) /\ Cardinality(V \ {v}) = Cardinality(V) - 1
  BY FS_RemoveElement
<1>2. o[v] \in SUBSET (V \ {v}) /\ InOf(o, v) \in SUBSET (V \ {v})
  BY DEF InOf
<1>3. IsFiniteSet(o[v]) /\ Cardinality(o[v]) <= Cardinality(V) - 1
  BY <1>1, <1>2, FS_Subset
<1>4. IsFiniteSet(InOf(o, v)) /\ Cardinality(InOf(o, v)) <= Cardinality(V) - 1
  BY <1>1, <1>2, FS_Subset
<1>5. Cardinality(V) \in Nat /\ Cardinality(o[v]) \in Nat /\ Cardinality(InOf(o, v)) \in Nat
  BY <1>3, <1>4, FS_CardinalityType
<1>6. H!DegreeIn(o, v) = Cardinality(o[v]) + Cardinality(InOf(o, v))
  BY SameCardinality DEF H!DegreeIn, H!Nodes, InOf, V
<1>7. H!DegreeBound = 2 * Cardinality(V)
  BY SameCardinality DEF H!DegreeBound, H!Nodes, V
<1> QED  BY <1>3, <1>4, <1>5, <1>6, <1>7

(* An edge more between two vertices, and what it does to their degrees.   *)
LEMMA DegreeWithEdge ==
  ASSUME IsFiniteSet(V), NEW o \in [V -> SUBSET V], \A v \in V : v \notin o[v],
         NEW a \in V, NEW b \in V, a # b, b \notin o[a],
         NEW p \in [V -> SUBSET V], p[a] = o[a] \cup {b}, \A v \in V : v # a => p[v] = o[v]
  PROVE  /\ \A v \in V : v \notin p[v]
         /\ \A v \in V : H!DegreeIn(p, v) =
              IF v \in {a, b} THEN H!DegreeIn(o, v) + 1 ELSE H!DegreeIn(o, v)
<1>1. \A v \in V : v \notin p[v]
  OBVIOUS
<1>2. ASSUME NEW v \in V
      PROVE  H!DegreeIn(p, v) = IF v \in {a, b} THEN H!DegreeIn(o, v) + 1 ELSE H!DegreeIn(o, v)
  <2>1. /\ IsFiniteSet(o[v]) /\ IsFiniteSet(InOf(o, v))
        /\ Cardinality(o[v]) \in Nat /\ Cardinality(InOf(o, v)) \in Nat
        /\ H!DegreeIn(o, v) = Cardinality(o[v]) + Cardinality(InOf(o, v))
    BY DegreeRange
  <2>2. H!DegreeIn(p, v) = Cardinality(p[v]) + Cardinality(InOf(p, v))
    BY <1>1, DegreeRange
  <2>3. Cardinality(p[v]) = IF v = a THEN Cardinality(o[v]) + 1 ELSE Cardinality(o[v])
    <3>1. CASE v = a
      <4>1. p[v] = o[v] \cup {b} /\ b \notin o[v]  BY <3>1
      <4>2. Cardinality(o[v] \cup {b}) = IF b \in o[v] THEN Cardinality(o[v]) ELSE Cardinality(o[v]) + 1
        BY <2>1, FS_AddElement
      <4> QED  BY <4>1, <4>2, <3>1
    <3>2. CASE v # a
      BY <3>2
    <3> QED  BY <3>1, <3>2
  <2>4. Cardinality(InOf(p, v)) = IF v = b THEN Cardinality(InOf(o, v)) + 1 ELSE Cardinality(InOf(o, v))
    <3>1. CASE v = b
      <4>1. InOf(p, v) = InOf(o, v) \cup {a} /\ a \notin InOf(o, v)  BY <3>1 DEF InOf
      <4>2. Cardinality(InOf(o, v) \cup {a}) = IF a \in InOf(o, v) THEN Cardinality(InOf(o, v))
                                                             ELSE Cardinality(InOf(o, v)) + 1
        BY <2>1, FS_AddElement
      <4> QED  BY <4>1, <4>2, <3>1
    <3>2. CASE v # b
      <4>1. InOf(p, v) = InOf(o, v)  BY <3>2 DEF InOf
      <4> QED  BY <4>1, <3>2
    <3> QED  BY <3>1, <3>2
  <2> QED  BY <2>1, <2>2, <2>3, <2>4
<1> QED  BY <1>1, <1>2

(* A vertex less, and what its neighbours lose of their degrees.           *)
LEMMA DegreeWithout ==
  ASSUME IsFiniteSet(V), NEW o \in [V -> SUBSET V], \A v \in V : v \notin o[v], NEW x \in V,
         NEW p, p = [v \in V |-> IF v = x THEN {} ELSE o[v] \ {x}]
  PROVE  /\ p \in [V -> SUBSET V] /\ \A v \in V : v \notin p[v]
         /\ \A v \in V \ {x} : H!DegreeIn(p, v) =
              H!DegreeIn(o, v) - ((IF v \in o[x] THEN 1 ELSE 0) + (IF x \in o[v] THEN 1 ELSE 0))
<1>1. p \in [V -> SUBSET V] /\ \A v \in V : v \notin p[v]
  OBVIOUS
<1>2. ASSUME NEW v \in V \ {x}
      PROVE  H!DegreeIn(p, v) =
              H!DegreeIn(o, v) - ((IF v \in o[x] THEN 1 ELSE 0) + (IF x \in o[v] THEN 1 ELSE 0))
  <2>1. /\ IsFiniteSet(o[v]) /\ IsFiniteSet(InOf(o, v))
        /\ Cardinality(o[v]) \in Nat /\ Cardinality(InOf(o, v)) \in Nat
        /\ H!DegreeIn(o, v) = Cardinality(o[v]) + Cardinality(InOf(o, v))
    BY DegreeRange
  <2>2. H!DegreeIn(p, v) = Cardinality(p[v]) + Cardinality(InOf(p, v))
    BY <1>1, DegreeRange
  <2>3. p[v] = o[v] \ {x} /\ InOf(p, v) = InOf(o, v) \ {x}
    BY DEF InOf
  <2>4. x \in InOf(o, v) <=> v \in o[x]
    BY DEF InOf
  <2>5. Cardinality(p[v]) = IF x \in o[v] THEN Cardinality(o[v]) - 1 ELSE Cardinality(o[v])
    BY <2>1, <2>3, FS_RemoveElement
  <2>6. Cardinality(InOf(p, v)) = IF v \in o[x] THEN Cardinality(InOf(o, v)) - 1 ELSE Cardinality(InOf(o, v))
    <3>1. Cardinality(InOf(o, v) \ {x}) = IF x \in InOf(o, v) THEN Cardinality(InOf(o, v)) - 1
                                                            ELSE Cardinality(InOf(o, v))
      BY <2>1, FS_RemoveElement
    <3> QED  BY <3>1, <2>3, <2>4
  <2> QED  BY <2>1, <2>2, <2>5, <2>6
<1> QED  BY <1>1, <1>2

-----------------------------------------------------------------------------
(* A vertex that is moved to the bucket of its new key.                    *)
Sorted(b, L, f) == \A d \in DOMAIN b : b[d] = {v \in L : f[v] = d}

LEMMA MovedSorted ==
  ASSUME NEW b, NEW L, NEW f, NEW g, Sorted(b, L, f), b \in [DOMAIN b -> SUBSET V], L \subseteq V,
         NEW n0 \in L, f[n0] \in DOMAIN b, g[n0] \in DOMAIN b, f[n0] # g[n0],
         \A v \in L : v # n0 => g[v] = f[v]
  PROVE  /\ Sorted(H!Moved(b, n0, f[n0], g[n0]), L, g)
         /\ H!Moved(b, n0, f[n0], g[n0]) \in [DOMAIN b -> SUBSET V]
<1> DEFINE c == H!Moved(b, n0, f[n0], g[n0])
<1>1. c = [b EXCEPT ![f[n0]] = @ \ {n0}, ![g[n0]] = @ \cup {n0}]
  BY DEF H!Moved
<1>2. DOMAIN c = DOMAIN b
  BY <1>1
<1>3. \A d \in DOMAIN b : c[d] = IF d = f[n0] THEN b[d] \ {n0}
                               ELSE IF d = g[n0] THEN b[d] \cup {n0} ELSE b[d]
  BY <1>1
<1>4. c \in [DOMAIN b -> SUBSET V]
  BY <1>1, <1>3
<1> HIDE DEF c
<1>5. Sorted(c, L, g)
  BY <1>2, <1>3 DEF Sorted
<1> QED  BY <1>4, <1>5 DEF c

-----------------------------------------------------------------------------
(* The orders grow at their front.                                         *)
LEMMA Prepend ==
  ASSUME NEW S, NEW s \in Seq(S), NEW x \in S, NEW t, t = <<x>> \o s
  PROVE  /\ t \in Seq(S) /\ Len(t) = Len(s) + 1 /\ t # <<>> /\ t[1] = x
         /\ DOMAIN t = 1 .. Len(s) + 1 /\ DOMAIN s = 1 .. Len(s)
         /\ \A i \in DOMAIN s : t[i + 1] = s[i]
<1>1. t \in Seq(S) /\ Len(t) = Len(s) + 1 /\ t # <<>>
  OBVIOUS
<1>2. t[1] = x /\ \A i \in 1 .. Len(s) : t[i + 1] = s[i]
  OBVIOUS
<1>3. DOMAIN t = 1 .. Len(s) + 1 /\ DOMAIN s = 1 .. Len(s) /\ Len(s) \in Nat
  BY <1>1
<1> QED  BY <1>1, <1>2, <1>3

(* What the parts of the state say of the vertices that are left.          *)
LEMMA LeftFacts ==
  ASSUME IsGraph(graph), SearchInv
  PROVE  /\ IsFiniteSet(V) /\ H!Left \subseteq V /\ IsFiniteSet(H!Left)
         /\ DOMAIN bucket = 0 .. H!DegreeBound - 1
         /\ H!DegreeBound = 2 * Cardinality(V) /\ Cardinality(V) \in Nat
         /\ \A v \in V : H!Degree(v) \in 0 .. H!DegreeBound - 2
<1>1. IsFiniteSet(V) /\ H!Left \subseteq V
  BY DEF IsGraph, V, H!Left, H!Nodes
<1>2. IsFiniteSet(H!Left) /\ Cardinality(V) \in Nat
  BY <1>1, FS_Subset, FS_CardinalityType
<1>3. DOMAIN bucket = 0 .. H!DegreeBound - 1
  BY DEF SearchInv, SearchTypes
<1>4. H!DegreeBound = 2 * Cardinality(V)
  BY SameCardinality DEF H!DegreeBound, H!Nodes, V
<1>5. out \in [V -> SUBSET V] /\ \A v \in V : v \notin out[v]
  BY DEF SearchInv, SearchTypes
<1>6. ASSUME NEW v \in V PROVE H!Degree(v) \in 0 .. H!DegreeBound - 2
  BY <1>1, <1>5, DegreeRange DEF H!Degree
<1> QED  BY <1>1, <1>2, <1>3, <1>4, <1>6

Keys == [v \in V |-> Key(v)]

LEMMA SortedKeys ==
  ASSUME IsGraph(graph), SearchInv, pc \in Searching
  PROVE  Sorted(bucket, H!Left, Keys)
<1>1. H!Left \subseteq V
  BY LeftFacts
<1>2. pc \notin {"start", "tree", "done"}
  BY DEF Searching
<1>3. \A d \in DOMAIN bucket : bucket[d] = {v \in H!Left : H!Degree(v) - H!CountedOff(v) = d}
  BY <1>2 DEF SearchInv, H!BucketsExact
<1> QED  BY <1>1, <1>3 DEF Sorted, Keys, Key

(* To be exact again the buckets only have to be sorted by the new keys.   *)
LEMMA ExactAgain ==
  ASSUME H!Left' \subseteq V', NEW g, Sorted(bucket', H!Left', g), \A v \in H!Left' : g[v] = Key(v)'
  PROVE  H!BucketsExact'
BY DEF Sorted, H!BucketsExact, Key

-----------------------------------------------------------------------------
(* At the beginning every vertex is in the bucket of its degree.           *)
LEMMA BeginStep ==
  ASSUME IsGraph(graph), H!Unstarted, H!Begin
  PROVE  pc' \in Searching /\ SearchInv'
<1>1. /\ pc' = "take" /\ graph' = graph /\ out' = graph.out /\ V # {}
      /\ minimum' = 0 /\ order' = <<>> /\ neighbors' = <<>>
      /\ bucket' = [d \in 0 .. H!DegreeBound - 1 |-> {v \in V : H!DegreeIn(graph.out, v) = d}]
  BY DEF H!Begin, H!Unstarted, H!Nodes, V
<1>2. V' = V /\ H!DegreeBound' = H!DegreeBound /\ H!Left' = V
  BY <1>1 DEF V, H!DegreeBound, H!Nodes, H!Left
<1>3. out' \in [V -> SUBSET V] /\ (\A v \in V : v \notin out'[v]) /\ IsFiniteSet(V)
  BY <1>1 DEF IsGraph, V
<1>4. \A v \in V : Key(v)' = H!DegreeIn(graph.out, v)
  <2>1. ASSUME NEW v \in V PROVE Key(v)' = H!DegreeIn(graph.out, v)
    <3>1. H!Degree(v)' = H!DegreeIn(graph.out, v)
      BY <1>1 DEF H!Degree, H!DegreeIn, H!Nodes
    <3>2. H!CountedOff(v)' = 0
      BY <1>1 DEF H!CountedOff
    <3>3. H!DegreeIn(graph.out, v) \in 0 .. H!DegreeBound - 2
      BY <1>1, <1>3, DegreeRange
    <3> QED  BY <3>1, <3>2, <3>3 DEF Key
  <2> QED  BY <2>1
<1>5. SearchTypes'
  BY <1>1, <1>2, <1>3 DEF SearchTypes
<1>6. Progress'
  <2>1. Cardinality(V) \in Nat  BY <1>3, FS_CardinalityType
  <2> QED  BY <1>1, <1>2, <2>1 DEF Progress
<1>7. H!BucketsExact'
  BY <1>1, <1>2, <1>4 DEF H!BucketsExact, Key
<1>8. MinimumLow'
  <2>1. \A v \in V : H!DegreeIn(graph.out, v) \in 0 .. H!DegreeBound - 2
    BY <1>1, <1>3, DegreeRange
  <2>2. \A v \in V : 0 <= H!DegreeIn(graph.out, v)
    BY <2>1
  <2> QED  BY <1>1, <1>2, <1>4, <2>2 DEF MinimumLow
<1>9. Isolated' /\ TodoNeighbors'
  BY <1>1, <1>2 DEF Isolated, TodoNeighbors
<1> QED  BY <1>1, <1>5, <1>6, <1>7, <1>8, <1>9 DEF SearchInv, Searching

-----------------------------------------------------------------------------
(* The first bucket that has a vertex is one of the buckets.               *)
LEMMA FirstBucketFound ==
  ASSUME IsGraph(graph), SearchInv, pc = "take"
  PROVE  /\ H!FirstBucket \in DOMAIN bucket
         /\ \A v \in H!Left : H!FirstBucket <= Key(v)
<1> DEFINE T == {d \in DOMAIN bucket : d >= minimum /\ bucket[d] # {}}
<1>1. pc \in Searching /\ H!Left # {}
  BY DEF Searching, SearchInv, Progress
<1>2. ASSUME NEW v \in H!Left PROVE Key(v) \in T
  <2>1. v \in V /\ H!Degree(v) \in 0 .. H!DegreeBound - 2 /\ DOMAIN bucket = 0 .. H!DegreeBound - 1
        /\ H!DegreeBound \in Nat
    BY LeftFacts
  <2>2. Key(v) = H!Degree(v)
    BY <2>1 DEF Key, H!CountedOff
  <2>3. Key(v) \in DOMAIN bucket /\ Key(v) \in Nat
    BY <2>1, <2>2
  <2>4. v \in bucket[Key(v)]
    <3>1. Sorted(bucket, H!Left, Keys)  BY <1>1, SortedKeys
    <3>2. Keys[v] = Key(v)  BY <2>1 DEF Keys
    <3> QED  BY <2>3, <3>1, <3>2 DEF Sorted
  <2>5. minimum <= Key(v) /\ minimum \in Nat
    BY DEF SearchInv, MinimumLow, SearchTypes
  <2> QED  BY <2>3, <2>4, <2>5
<1>3. T # {}
  BY <1>1, <1>2
<1>4. T \subseteq Nat
  BY LeftFacts
<1>5. H!Least(T) \in T /\ \A y \in T : H!Least(T) <= y
  BY <1>3, <1>4, LeastFound
<1>6. H!FirstBucket = H!Least(T)
  BY DEF H!FirstBucket
<1> HIDE DEF T
<1>7. H!FirstBucket \in T /\ \A v \in H!Left : H!FirstBucket <= Key(v)
  BY <1>2, <1>5, <1>6
<1> QED  BY <1>7 DEF T

(* A vertex of least degree, which is left, is taken from its bucket.      *)
LEMMA Taken ==
  ASSUME IsGraph(graph), SearchInv, H!Take
  PROVE  /\ H!FirstBucket \in DOMAIN bucket
         /\ \E v \in H!Left :
              /\ bucket' = [bucket EXCEPT ![H!FirstBucket] = @ \ {v}]
              /\ minimum' = H!FirstBucket
              /\ order' = <<v>> \o order
              /\ neighbors' = <<out[v]>> \o neighbors
              /\ todo' = out[v]
              /\ v \in V /\ Keys[v] = H!FirstBucket
              /\ H!node' = v /\ H!Left' = H!Left \ {v}
<1>1. PICK v \in bucket[H!FirstBucket] :
        /\ bucket' = [bucket EXCEPT ![H!FirstBucket] = @ \ {v}]
        /\ minimum' = H!FirstBucket
        /\ order' = <<v>> \o order
        /\ neighbors' = <<out[v]>> \o neighbors
        /\ todo' = out[v]
  BY DEF H!Take
<1>2. pc = "take" /\ graph' = graph /\ pc \in Searching
  BY DEF H!Take, Searching
<1>3. H!FirstBucket \in DOMAIN bucket
  BY <1>2, FirstBucketFound
<1>4. v \in H!Left /\ v \in V /\ Keys[v] = H!FirstBucket
  <2>1. Sorted(bucket, H!Left, Keys)
    BY <1>2, SortedKeys
  <2> QED  BY <1>1, <1>3, <2>1, LeftFacts DEF Sorted
<1>5. order \in Seq(V)
  BY DEF SearchInv, SearchTypes
<1>6. /\ order'[1] = v
      /\ DOMAIN order' = 1 .. Len(order) + 1 /\ DOMAIN order = 1 .. Len(order)
      /\ \A i \in DOMAIN order : order'[i + 1] = order[i]
  BY <1>1, <1>4, <1>5, Prepend
<1>7. {order'[i] : i \in DOMAIN order'} = {order[i] : i \in DOMAIN order} \cup {v}
  <2>1. Len(order) \in Nat  BY <1>5
  <2>2. \A i \in DOMAIN order' : i = 1 \/ i - 1 \in DOMAIN order  BY <1>6, <2>1
  <2>3. \A i \in DOMAIN order' : order'[i] = v \/ order'[i] \in {order[j] : j \in DOMAIN order}
    BY <1>6, <2>1, <2>2
  <2>4. \A i \in DOMAIN order : i + 1 \in DOMAIN order' /\ order'[i + 1] = order[i]
    BY <1>6, <2>1
  <2>5. 1 \in DOMAIN order' /\ order'[1] = v
    BY <1>6, <2>1
  <2> QED  BY <2>3, <2>4, <2>5
<1>8. H!Left' = H!Left \ {v} /\ H!node' = v
  BY <1>2, <1>6, <1>7 DEF H!Nodes, H!Left, H!node
<1> QED  BY <1>1, <1>3, <1>4, <1>8

(* The others stay in their buckets.                                       *)
LEMMA TakeStep ==
  ASSUME IsGraph(graph), SearchInv, H!Take
  PROVE  pc' \in Searching /\ SearchInv'
<1>1. PICK v \in H!Left :
        /\ bucket' = [bucket EXCEPT ![H!FirstBucket] = @ \ {v}]
        /\ minimum' = H!FirstBucket
        /\ order' = <<v>> \o order
        /\ neighbors' = <<out[v]>> \o neighbors
        /\ todo' = out[v]
        /\ v \in V /\ Keys[v] = H!FirstBucket
        /\ H!node' = v /\ H!Left' = H!Left \ {v}
  BY Taken
<1>2. pc = "take" /\ pc' = "out" /\ graph' = graph /\ out' = out /\ pc \in Searching
  BY DEF H!Take, Searching
<1>3. /\ IsFiniteSet(V) /\ H!Left \subseteq V /\ IsFiniteSet(H!Left)
      /\ DOMAIN bucket = 0 .. H!DegreeBound - 1 /\ H!DegreeBound \in Nat
      /\ \A u \in V : H!Degree(u) \in 0 .. H!DegreeBound - 2
  BY LeftFacts
<1>4. H!FirstBucket \in DOMAIN bucket /\ \A u \in H!Left : H!FirstBucket <= Key(u)
  BY <1>2, FirstBucketFound
<1>5. Sorted(bucket, H!Left, Keys)
  BY <1>2, SortedKeys
<1>6. v \in H!Left /\ v \in V /\ Keys[v] = H!FirstBucket
  BY <1>1
<1>7. out[v] \subseteq V /\ v \notin out[v] /\ order \in Seq(V) /\ neighbors \in Seq(SUBSET V)
      /\ out \in [V -> SUBSET V] /\ bucket \in [0 .. H!DegreeBound - 1 -> SUBSET V] /\ minimum \in Nat
      /\ \A u \in V : u \notin out[u]
  BY <1>6 DEF SearchInv, SearchTypes
<1>8. order' \in Seq(V) /\ Len(order') = Len(order) + 1 /\ order' # <<>>
  BY <1>1, <1>6, <1>7, Prepend
<1>9. neighbors' \in Seq(SUBSET V) /\ neighbors' # <<>> /\ neighbors'[1] = out[v]
  BY <1>1, <1>7, Prepend
<1>10. V' = V /\ H!DegreeBound' = H!DegreeBound /\ H!Left' = H!Left \ {v} /\ H!node' = v
  BY <1>1, <1>2 DEF V, H!DegreeBound, H!Nodes
<1>11. \A u \in V : Key(u)' = Keys[u] /\ Keys[u] = Key(u)
  <2>1. ASSUME NEW u \in V PROVE Key(u)' = Key(u)
    <3>1. H!Degree(u)' = H!Degree(u)
      BY <1>2 DEF H!Degree, H!DegreeIn, H!Nodes
    <3>2. H!CountedOff(u) = 0 /\ H!CountedOff(u)' = 0
      BY <1>1, <1>2, <1>10 DEF H!CountedOff
    <3> QED  BY <3>1, <3>2 DEF Key
  <2> QED  BY <2>1 DEF Keys
<1>12. SearchTypes'
  <2>1. bucket' \in [0 .. H!DegreeBound - 1 -> SUBSET V]
    BY <1>1, <1>7
  <2>2. minimum' \in Nat
    BY <1>1, <1>3, <1>4
  <2> QED  BY <1>2, <1>7, <1>8, <1>9, <1>10, <2>1, <2>2 DEF SearchTypes
<1>13. Progress'
  <2>1. Cardinality(H!Left \ {v}) = Cardinality(H!Left) - 1
    BY <1>3, <1>6, FS_RemoveElement
  <2>2. Cardinality(H!Left) = Cardinality(V) - Len(order) /\ Cardinality(V) \in Nat /\ Len(order) \in Nat
    BY <1>3, <1>7, FS_CardinalityType DEF SearchInv, Progress
  <2>3. Cardinality(H!Left') = Cardinality(V') - Len(order')
    BY <1>8, <1>10, <2>1, <2>2
  <2> QED  BY <1>2, <1>8, <1>9, <2>3 DEF Progress
<1>14. H!BucketsExact'
  <2>1. Sorted(bucket', H!Left', Keys)
    BY <1>1, <1>4, <1>5, <1>6, <1>10 DEF Sorted
  <2> QED  BY <1>3, <1>10, <1>11, <2>1, ExactAgain
<1>15. MinimumLow'
  BY <1>1, <1>3, <1>4, <1>10, <1>11 DEF MinimumLow
<1>16. \A w \in V \ H!Left : \A u \in V : u \notin out[w] /\ w \notin out[u]
  BY <1>2 DEF SearchInv, Isolated
<1>17. Isolated'
  BY <1>2, <1>10, <1>16 DEF Isolated
<1>18. TodoNeighbors'
  <2>1. out[v] \subseteq H!Left \ {v}
    BY <1>6, <1>7, <1>16
  <2> QED  BY <1>1, <1>2, <1>9, <1>10, <2>1 DEF TodoNeighbors
<1> QED  BY <1>2, <1>12, <1>13, <1>14, <1>15, <1>17, <1>18 DEF SearchInv, Searching

-----------------------------------------------------------------------------
(* The neighbours of the vertex that is being taken out are left.          *)
LEMMA NeighborsLeft ==
  ASSUME IsGraph(graph), SearchInv, pc \in {"out", "in"}
  PROVE  /\ H!node \in V /\ H!node \notin H!Left
         /\ out[H!node] \subseteq H!Left /\ H!In(H!node) \subseteq H!Left
<1>1. order \in Seq(V) /\ order # <<>>
  BY DEF SearchInv, SearchTypes, Progress
<1>2. 1 \in DOMAIN order /\ order[1] \in V
  BY <1>1
<1>3. H!node \in V /\ H!node \notin H!Left
  BY <1>2 DEF H!node, H!Left
<1>4. \A w \in V \ H!Left : w # H!node => \A u \in V : u \notin out[w] /\ w \notin out[u]
  BY DEF SearchInv, Isolated
<1>5. out \in [V -> SUBSET V] /\ \A u \in V : u \notin out[u]
  BY DEF SearchInv, SearchTypes
<1>6. out[H!node] \subseteq H!Left
  BY <1>3, <1>4, <1>5
<1>7. H!In(H!node) \subseteq H!Left
  BY <1>3, <1>4, <1>5 DEF H!In, H!Nodes, V
<1> QED  BY <1>3, <1>6, <1>7

(* update_bucket() for a vertex that is in its bucket.                     *)
LEMMA BucketUpdated ==
  ASSUME IsGraph(graph), SearchInv, pc \in Searching, graph' = graph, order' = order,
         NEW v \in H!Left, NEW from \in DOMAIN bucket, NEW to \in DOMAIN bucket,
         Key(v) = from, from # to, H!UpdateBucket(v, from, to),
         \A u \in H!Left : Key(u)' = IF u = v THEN to ELSE Key(u)
  PROVE  /\ H!BucketsExact' /\ MinimumLow' /\ V' = V /\ H!Left' = H!Left /\ H!node' = H!node
         /\ H!DegreeBound' = H!DegreeBound
         /\ bucket' \in [0 .. H!DegreeBound - 1 -> SUBSET V] /\ minimum' \in Nat
<1> DEFINE g == [u \in V |-> IF u = v THEN to ELSE Key(u)]
<1>1. V' = V /\ H!Left' = H!Left /\ H!node' = H!node /\ H!DegreeBound' = H!DegreeBound
  BY DEF V, H!Left, H!node, H!Nodes, H!DegreeBound
<1>2. H!Left \subseteq V /\ DOMAIN bucket = 0 .. H!DegreeBound - 1 /\ H!DegreeBound \in Nat
  BY LeftFacts
<1>3. Sorted(bucket, H!Left, Keys) /\ \A u \in V : Keys[u] = Key(u)
  BY SortedKeys DEF Keys
<1>4. bucket \in [DOMAIN bucket -> SUBSET V] /\ minimum \in Nat
  BY <1>2 DEF SearchInv, SearchTypes
<1>5. bucket' = H!Moved(bucket, v, from, to) /\ minimum' = H!Least({minimum, to})
  BY DEF H!UpdateBucket
<1>6. Keys[v] = from /\ g[v] = to /\ v \in V /\ \A u \in H!Left : u # v => g[u] = Keys[u]
  BY <1>2, <1>3
<1> HIDE DEF g
<1>7. Sorted(bucket', H!Left, g) /\ bucket' \in [DOMAIN bucket -> SUBSET V]
  <2>1. Sorted(H!Moved(bucket, v, Keys[v], g[v]), H!Left, g)
        /\ H!Moved(bucket, v, Keys[v], g[v]) \in [DOMAIN bucket -> SUBSET V]
    <3>1. Keys[v] \in DOMAIN bucket /\ g[v] \in DOMAIN bucket /\ Keys[v] # g[v]
      BY <1>6
    <3>2. \A u \in H!Left : u # v => g[u] = Keys[u]
      BY <1>6
    <3> QED  BY <1>2, <1>3, <1>4, <3>1, <3>2, MovedSorted
  <2> QED  BY <1>5, <1>6, <2>1
<1>8. H!BucketsExact'
  <2>1. \A u \in H!Left' : g[u] = Key(u)'
    BY <1>1, <1>2 DEF g
  <2> QED  BY <1>1, <1>2, <1>7, <2>1, ExactAgain
<1>9. minimum' \in {minimum, to} /\ minimum' <= minimum /\ minimum' <= to /\ to \in Nat
  <2>1. to \in Nat  BY <1>2
  <2>2. {minimum, to} \subseteq Nat /\ {minimum, to} # {}
    BY <1>4, <2>1
  <2>3. H!Least({minimum, to}) \in {minimum, to}
        /\ \A y \in {minimum, to} : H!Least({minimum, to}) <= y
    BY <2>2, LeastFound
  <2> QED  BY <1>5, <2>1, <2>3
<1>10. MinimumLow'
  <2>1. \A u \in H!Left : Key(u) \in Int /\ minimum <= Key(u)
    <3>1. \A u \in H!Left : Key(u) \in Int
      BY <1>2, LeftFacts DEF Key, H!CountedOff, H!Offset
    <3> QED  BY <3>1 DEF SearchInv, MinimumLow
  <2> QED  BY <1>1, <1>4, <1>9, <2>1 DEF MinimumLow
<1> QED  BY <1>1, <1>2, <1>4, <1>7, <1>8, <1>9, <1>10

(* The neighbour over an out-edge loses one.                               *)
LEMMA UpdateOutStep ==
  ASSUME IsGraph(graph), SearchInv, H!UpdateOut
  PROVE  pc' \in Searching /\ SearchInv'
<1>1. PICK v \in todo : H!UpdateBucket(v, H!Degree(v), H!Degree(v) - 1) /\ todo' = todo \ {v}
  BY DEF H!UpdateOut
<1>2. /\ pc = "out" /\ pc' = "out" /\ graph' = graph /\ out' = out /\ order' = order
      /\ neighbors' = neighbors /\ pc \in Searching
  BY DEF H!UpdateOut, H!graphVars, Searching
<1>3. /\ H!Left \subseteq V /\ DOMAIN bucket = 0 .. H!DegreeBound - 1 /\ H!DegreeBound \in Nat
      /\ \A u \in V : H!Degree(u) \in 0 .. H!DegreeBound - 2
  BY LeftFacts
<1>4. H!node \in V /\ out[H!node] \subseteq H!Left /\ todo \subseteq out[H!node]
  BY <1>2, NeighborsLeft DEF SearchInv, TodoNeighbors
<1>5. v \in H!Left /\ v \in out[H!node] /\ v \in V
  BY <1>1, <1>3, <1>4
<1>6. Key(v) = H!Degree(v)
  BY <1>1, <1>2, <1>3, <1>5 DEF Key, H!CountedOff
<1>7. \A u \in H!Left : Key(u)' = IF u = v THEN H!Degree(v) - 1 ELSE Key(u)
  <2>1. ASSUME NEW u \in H!Left PROVE Key(u)' = IF u = v THEN H!Degree(v) - 1 ELSE Key(u)
    <3>1. H!Degree(u)' = H!Degree(u)
      BY <1>2 DEF H!Degree, H!DegreeIn, H!Nodes
    <3>2. H!CountedOff(u)' = IF u = v THEN 1 ELSE H!CountedOff(u)
      BY <1>1, <1>2, <1>5 DEF H!CountedOff, H!node
    <3> QED  BY <3>1, <3>2 DEF Key
  <2> QED  BY <2>1
<1>8. H!Degree(v) >= 1
  <2>1. H!node \in InOf(out, v)
    BY <1>4, <1>5 DEF InOf
  <2>2. /\ IsFiniteSet(InOf(out, v)) /\ Cardinality(InOf(out, v)) \in Nat /\ Cardinality(out[v]) \in Nat
        /\ H!Degree(v) = Cardinality(out[v]) + Cardinality(InOf(out, v))
    BY <1>5, LeftFacts, DegreeRange DEF SearchInv, SearchTypes, H!Degree
  <2>3. Cardinality(InOf(out, v)) # 0
    BY <2>1, <2>2, FS_EmptySet
  <2> QED  BY <2>2, <2>3
<1>9. H!Degree(v) \in DOMAIN bucket /\ H!Degree(v) - 1 \in DOMAIN bucket /\ H!Degree(v) # H!Degree(v) - 1
  BY <1>3, <1>5, <1>8
<1>10. /\ H!BucketsExact' /\ MinimumLow' /\ V' = V /\ H!Left' = H!Left /\ H!node' = H!node
       /\ H!DegreeBound' = H!DegreeBound
       /\ bucket' \in [0 .. H!DegreeBound - 1 -> SUBSET V] /\ minimum' \in Nat
  BY <1>1, <1>2, <1>5, <1>6, <1>7, <1>9, BucketUpdated
<1>11. SearchTypes' /\ Progress' /\ Isolated' /\ TodoNeighbors'
  BY <1>1, <1>2, <1>10 DEF SearchInv, SearchTypes, Progress, Isolated, TodoNeighbors
<1> QED  BY <1>2, <1>10, <1>11 DEF SearchInv

(* The edges to its out-neighbours are counted off: the others come next.  *)
LEMMA OutDoneStep ==
  ASSUME IsGraph(graph), SearchInv, H!OutDone
  PROVE  pc' \in Searching /\ SearchInv'
<1>1. /\ pc = "out" /\ pc' = "in" /\ todo = {} /\ todo' = H!In(H!node) /\ pc \in Searching
      /\ graph' = graph /\ out' = out /\ order' = order /\ neighbors' = neighbors
      /\ bucket' = bucket /\ minimum' = minimum
  BY DEF H!OutDone, H!graphVars, Searching
<1>2. /\ V' = V /\ H!Left' = H!Left /\ H!node' = H!node /\ H!DegreeBound' = H!DegreeBound
      /\ H!In(H!node)' = H!In(H!node)
  BY <1>1 DEF V, H!Left, H!node, H!Nodes, H!DegreeBound, H!In
<1>3. H!Left \subseteq V /\ \A u \in V : H!Degree(u) \in Int
  BY LeftFacts
<1>4. \A u \in V : Key(u)' = Key(u)
  <2>1. ASSUME NEW u \in V PROVE Key(u)' = Key(u)
    <3>1. H!Degree(u)' = H!Degree(u)
      BY <1>1 DEF H!Degree, H!DegreeIn, H!Nodes
    <3>2. H!CountedOff(u) = H!Offset(u)
      BY <1>1 DEF H!CountedOff, H!Offset
    <3>3. H!CountedOff(u)' = H!Offset(u) + 0
      BY <1>1, <1>2 DEF H!CountedOff, H!Offset
    <3>4. H!Offset(u) \in Int
      BY DEF H!Offset
    <3> QED  BY <3>1, <3>2, <3>3, <3>4 DEF Key
  <2> QED  BY <2>1
<1>5. H!BucketsExact'
  <2>1. Sorted(bucket', H!Left', Keys)
    BY <1>1, <1>2, SortedKeys
  <2> QED  BY <1>2, <1>3, <1>4, <2>1, ExactAgain DEF Keys
<1>6. SearchTypes' /\ Progress' /\ MinimumLow' /\ Isolated' /\ TodoNeighbors'
  BY <1>1, <1>2, <1>3, <1>4
     DEF SearchInv, SearchTypes, Progress, MinimumLow, Isolated, TodoNeighbors
<1> QED  BY <1>1, <1>5, <1>6 DEF SearchInv, Searching

(* The neighbour over an in-edge loses one, below what it lost before.     *)
LEMMA UpdateInStep ==
  ASSUME IsGraph(graph), SearchInv, H!UpdateIn
  PROVE  pc' \in Searching /\ SearchInv'
<1>1. PICK v \in todo :
        /\ neighbors' = [neighbors EXCEPT ![1] = @ \cup {v}]
        /\ H!UpdateBucket(v, H!Degree(v) - H!Offset(v), H!Degree(v) - H!Offset(v) - 1)
        /\ todo' = todo \ {v}
  BY DEF H!UpdateIn
<1>2. /\ pc = "in" /\ pc' = "in" /\ graph' = graph /\ out' = out /\ order' = order
      /\ pc \in Searching
  BY DEF H!UpdateIn, Searching
<1>3. /\ H!Left \subseteq V /\ DOMAIN bucket = 0 .. H!DegreeBound - 1 /\ H!DegreeBound \in Nat
      /\ \A u \in V : H!Degree(u) \in 0 .. H!DegreeBound - 2
  BY LeftFacts
<1>4. H!node \in V /\ H!In(H!node) \subseteq H!Left /\ todo \subseteq H!In(H!node)
  BY <1>2, NeighborsLeft DEF SearchInv, TodoNeighbors
<1>5. v \in H!Left /\ v \in V /\ v \in H!In(H!node) /\ H!node \in out[v]
  BY <1>1, <1>3, <1>4 DEF H!In
<1>6. H!Offset(v) \in {0, 1} /\ Key(v) = H!Degree(v) - H!Offset(v)
  BY <1>1, <1>2, <1>3, <1>5 DEF Key, H!CountedOff, H!Offset
<1>7. \A u \in H!Left : Key(u)' = IF u = v THEN H!Degree(v) - H!Offset(v) - 1 ELSE Key(u)
  <2>1. ASSUME NEW u \in H!Left PROVE Key(u)' = IF u = v THEN H!Degree(v) - H!Offset(v) - 1 ELSE Key(u)
    <3>1. H!Degree(u)' = H!Degree(u) /\ H!Offset(u)' = H!Offset(u) /\ H!In(H!node)' = H!In(H!node)
      BY <1>2 DEF H!Degree, H!DegreeIn, H!Nodes, H!Offset, H!node, H!In
    <3>2. H!CountedOff(u) = H!Offset(u) + IF u \in H!In(H!node) \ todo THEN 1 ELSE 0
      BY <1>2 DEF H!CountedOff
    <3>3. H!CountedOff(u)' = H!Offset(u) + IF u \in H!In(H!node) \ todo' THEN 1 ELSE 0
      BY <1>2, <3>1 DEF H!CountedOff
    <3>4. CASE u = v
      BY <1>1, <1>3, <1>5, <1>6, <3>1, <3>3, <3>4 DEF Key
    <3>5. CASE u # v
      <4>1. u \in H!In(H!node) \ todo' <=> u \in H!In(H!node) \ todo
        BY <1>1, <3>5
      <4> QED  BY <3>1, <3>2, <3>3, <3>5, <4>1 DEF Key
    <3> QED  BY <3>4, <3>5
  <2> QED  BY <2>1
<1>8. H!Degree(v) >= 1 + H!Offset(v)
  <2>1. /\ IsFiniteSet(InOf(out, v)) /\ Cardinality(InOf(out, v)) \in Nat
        /\ IsFiniteSet(out[v]) /\ Cardinality(out[v]) \in Nat
        /\ H!Degree(v) = Cardinality(out[v]) + Cardinality(InOf(out, v))
    BY <1>5, LeftFacts, DegreeRange DEF SearchInv, SearchTypes, H!Degree
  <2>2. Cardinality(out[v]) # 0
    BY <1>5, <2>1, FS_EmptySet
  <2>3. H!Offset(v) = 1 => Cardinality(InOf(out, v)) # 0
    <3>1. H!Offset(v) = 1 => H!node \in InOf(out, v)
      BY <1>4, <1>5 DEF H!Offset, InOf
    <3> QED  BY <2>1, <3>1, FS_EmptySet
  <2> QED  BY <1>6, <2>1, <2>2, <2>3
<1>9. /\ H!Degree(v) - H!Offset(v) \in DOMAIN bucket
      /\ H!Degree(v) - H!Offset(v) - 1 \in DOMAIN bucket
      /\ H!Degree(v) - H!Offset(v) # H!Degree(v) - H!Offset(v) - 1
  BY <1>3, <1>5, <1>6, <1>8
<1>10. /\ H!BucketsExact' /\ MinimumLow' /\ V' = V /\ H!Left' = H!Left /\ H!node' = H!node
       /\ H!DegreeBound' = H!DegreeBound
       /\ bucket' \in [0 .. H!DegreeBound - 1 -> SUBSET V] /\ minimum' \in Nat
  BY <1>1, <1>2, <1>5, <1>6, <1>7, <1>9, BucketUpdated
<1>11. neighbors' \in Seq(SUBSET V) /\ neighbors' # <<>> /\ neighbors'[1] = neighbors[1] \cup {v}
  <2>1. neighbors \in Seq(SUBSET V) /\ neighbors # <<>>
    BY <1>2 DEF SearchInv, SearchTypes, Progress
  <2>2. 1 \in DOMAIN neighbors /\ neighbors[1] \cup {v} \in SUBSET V
    BY <1>5, <2>1
  <2> QED  BY <1>1, <2>1, <2>2
<1>12. SearchTypes' /\ Progress' /\ Isolated'
  BY <1>2, <1>10, <1>11 DEF SearchInv, SearchTypes, Progress, Isolated
<1>13. TodoNeighbors'
  <2>1. H!In(H!node)' = H!In(H!node)
    BY <1>2, <1>10 DEF H!In, H!Nodes
  <2> QED  BY <1>1, <1>2, <1>4, <1>5, <1>10, <1>11, <2>1 DEF SearchInv, TodoNeighbors
<1> QED  BY <1>2, <1>10, <1>12, <1>13 DEF SearchInv

-----------------------------------------------------------------------------
(* What was counted off are the edges that go with the vertex.             *)
LEMMA ClearStep ==
  ASSUME IsGraph(graph), SearchInv, H!Clear
  PROVE  pc' \in Searching /\ SearchInv'
<1>1. /\ pc = "in" /\ pc' = "clique" /\ todo = {} /\ pc \in Searching
      /\ graph' = graph /\ order' = order /\ neighbors' = neighbors
      /\ bucket' = bucket /\ minimum' = minimum
      /\ out' = [v \in V |-> IF v = H!node THEN {} ELSE out[v] \ {H!node}]
  BY DEF H!Clear, Searching, H!Nodes, V
<1>2. V' = V /\ H!Left' = H!Left /\ H!node' = H!node /\ H!DegreeBound' = H!DegreeBound
  BY <1>1 DEF V, H!Left, H!node, H!Nodes, H!DegreeBound
<1>3. IsFiniteSet(V) /\ H!Left \subseteq V /\ \A u \in V : H!Degree(u) \in Int
  BY LeftFacts
<1>4. H!node \in V /\ H!node \notin H!Left
  BY <1>1, NeighborsLeft
<1>5. out \in [V -> SUBSET V] /\ \A v \in V : v \notin out[v]
  BY DEF SearchInv, SearchTypes
<1>6. /\ out' \in [V -> SUBSET V] /\ \A v \in V : v \notin out'[v]
      /\ \A v \in V \ {H!node} : H!DegreeIn(out', v) =
           H!DegreeIn(out, v) - ((IF v \in out[H!node] THEN 1 ELSE 0) + (IF H!node \in out[v] THEN 1 ELSE 0))
  BY <1>1, <1>3, <1>4, <1>5, DegreeWithout
<1>7. \A u \in H!Left : Key(u)' = Key(u)
  <2>1. ASSUME NEW u \in H!Left PROVE Key(u)' = Key(u)
    <3>1. u \in V \ {H!node}
      BY <1>3, <1>4
    <3>2. H!Degree(u)' = H!DegreeIn(out', u) /\ H!Degree(u) = H!DegreeIn(out, u)
      BY <1>1 DEF H!Degree, H!DegreeIn, H!Nodes
    <3>3. H!CountedOff(u)' = 0
      BY <1>1 DEF H!CountedOff
    <3>4. H!CountedOff(u) = (IF u \in out[H!node] THEN 1 ELSE 0) + (IF H!node \in out[u] THEN 1 ELSE 0)
      BY <1>1, <3>1 DEF H!CountedOff, H!Offset, H!In, H!Nodes, V
    <3> QED  BY <1>3, <1>6, <3>1, <3>2, <3>3, <3>4 DEF Key
  <2> QED  BY <2>1
<1>8. H!BucketsExact'
  <2>1. Sorted(bucket', H!Left', Keys)
    BY <1>1, <1>2, SortedKeys
  <2> QED  BY <1>2, <1>3, <1>7, <2>1, ExactAgain DEF Keys
<1>9. Isolated'
  <2>1. \A w \in V \ H!Left : w # H!node => \A u \in V : u \notin out[w] /\ w \notin out[u]
    BY <1>1 DEF SearchInv, Isolated
  <2>2. \A w \in V \ H!Left : \A u \in V : u \notin out'[w] /\ w \notin out'[u]
    BY <1>1, <2>1
  <2> QED  BY <1>2, <2>2 DEF Isolated
<1>10. SearchTypes' /\ Progress' /\ MinimumLow' /\ TodoNeighbors'
  BY <1>1, <1>2, <1>6, <1>7
     DEF SearchInv, SearchTypes, Progress, MinimumLow, TodoNeighbors
<1> QED  BY <1>1, <1>8, <1>9, <1>10 DEF SearchInv, Searching

(* An edge of the clique, and what it adds to the degrees of its ends.     *)
LEMMA AddEdgeStep ==
  ASSUME IsGraph(graph), SearchInv, H!AddEdge
  PROVE  pc' \in Searching /\ SearchInv'
<1>1. PICK e \in H!Missing :
        /\ out' = [out EXCEPT ![e[1]] = @ \cup {e[2]}]
        /\ bucket' = H!Moved(H!Moved(bucket, e[1], H!Degree(e[1]), H!Degree(e[1]) + 1),
                             e[2], H!Degree(e[2]), H!Degree(e[2]) + 1)
        /\ minimum' = H!Least({minimum, H!Degree(e[1]) + 1, H!Degree(e[2]) + 1})
  BY DEF H!AddEdge
<1>2. /\ pc = "clique" /\ pc' = "clique" /\ pc \in Searching
      /\ graph' = graph /\ order' = order /\ neighbors' = neighbors /\ todo' = todo
  BY DEF H!AddEdge, Searching
<1>3. V' = V /\ H!Left' = H!Left /\ H!node' = H!node /\ H!DegreeBound' = H!DegreeBound
  BY <1>2 DEF V, H!Left, H!node, H!Nodes, H!DegreeBound
<1>4. /\ IsFiniteSet(V) /\ H!Left \subseteq V
      /\ DOMAIN bucket = 0 .. H!DegreeBound - 1 /\ H!DegreeBound \in Nat
      /\ \A u \in V : H!Degree(u) \in 0 .. H!DegreeBound - 2
  BY LeftFacts
<1> DEFINE a == e[1]
           b == e[2]
<1>5. a \in H!Left /\ b \in H!Left /\ a < b /\ b \notin out[a]
  BY <1>2 DEF SearchInv, TodoNeighbors, H!Missing
<1>6. a \in V /\ b \in V /\ a # b
  BY <1>4, <1>5 DEF IsGraph, V
<1>7. out \in [V -> SUBSET V] /\ \A v \in V : v \notin out[v]
  BY DEF SearchInv, SearchTypes
<1>8. out' = [out EXCEPT ![a] = @ \cup {b}] /\ minimum' = H!Least({minimum, H!Degree(a) + 1, H!Degree(b) + 1})
      /\ bucket' = H!Moved(H!Moved(bucket, a, H!Degree(a), H!Degree(a) + 1), b, H!Degree(b), H!Degree(b) + 1)
  BY <1>1
<1> HIDE DEF a, b
<1>9. /\ out' \in [V -> SUBSET V] /\ \A v \in V : v \notin out'[v]
      /\ \A v \in V : H!DegreeIn(out', v) =
           IF v \in {a, b} THEN H!DegreeIn(out, v) + 1 ELSE H!DegreeIn(out, v)
  <2>1. IsFiniteSet(V) /\ a \in V /\ b \in V /\ a # b /\ b \notin out[a]
    BY <1>4, <1>5, <1>6
  <2>2. out' \in [V -> SUBSET V] /\ out'[a] = out[a] \cup {b} /\ \A v \in V : v # a => out'[v] = out[v]
    BY <1>6, <1>7, <1>8
  <2> QED  BY <1>7, <2>1, <2>2, DegreeWithEdge
<1>10. \A u \in V : /\ Key(u) = H!Degree(u)
                    /\ Key(u)' = IF u \in {a, b} THEN H!Degree(u) + 1 ELSE H!Degree(u)
                    /\ Key(u)' \in 0 .. H!DegreeBound - 2
  <2>1. ASSUME NEW u \in V
        PROVE  /\ Key(u) = H!Degree(u)
               /\ Key(u)' = IF u \in {a, b} THEN H!Degree(u) + 1 ELSE H!Degree(u)
               /\ Key(u)' \in 0 .. H!DegreeBound - 2
    <3>1. H!Degree(u)' = H!DegreeIn(out', u) /\ H!Degree(u) = H!DegreeIn(out, u)
      BY <1>2 DEF H!Degree, H!DegreeIn, H!Nodes
    <3>2. H!CountedOff(u)' = 0 /\ H!CountedOff(u) = 0
      BY <1>2 DEF H!CountedOff
    <3>3. H!DegreeIn(out', u) \in 0 .. H!DegreeBound - 2
      BY <1>4, <1>9, DegreeRange
    <3>4. Key(u) = H!Degree(u) /\ Key(u)' = H!DegreeIn(out', u)
      BY <1>4, <3>1, <3>2, <3>3 DEF Key
    <3> QED  BY <1>9, <3>1, <3>3, <3>4
  <2> QED  BY <2>1
<1>11. /\ H!Degree(a) \in DOMAIN bucket /\ H!Degree(a) + 1 \in DOMAIN bucket
       /\ H!Degree(b) \in DOMAIN bucket /\ H!Degree(b) + 1 \in DOMAIN bucket
       /\ H!Degree(a) \in Nat /\ H!Degree(b) \in Nat
  <2>1. H!Degree(a) + 1 \in 0 .. H!DegreeBound - 2 /\ H!Degree(b) + 1 \in 0 .. H!DegreeBound - 2
    BY <1>6, <1>10
  <2>2. H!Degree(a) \in Nat /\ H!Degree(b) \in Nat
    BY <1>4, <1>6
  <2> QED  BY <1>4, <2>1, <2>2
<1> DEFINE f == [u \in V |-> IF u = a THEN H!Degree(a) + 1 ELSE Key(u)]
           g == [u \in V |-> IF u \in {a, b} THEN H!Degree(u) + 1 ELSE Key(u)]
           c == H!Moved(bucket, a, H!Degree(a), H!Degree(a) + 1)
<1>12. Keys[a] = H!Degree(a) /\ f[a] = H!Degree(a) + 1 /\ f[b] = H!Degree(b) /\ g[b] = H!Degree(b) + 1
       /\ (\A u \in H!Left : u # a => f[u] = Keys[u]) /\ (\A u \in H!Left : u # b => g[u] = f[u])
  BY <1>4, <1>6, <1>10 DEF Keys
<1>13. \A u \in H!Left : g[u] = Key(u)'
  BY <1>4, <1>10
<1> HIDE DEF f, g
<1>14. Sorted(c, H!Left, f) /\ c \in [DOMAIN bucket -> SUBSET V]
  <2>1. Sorted(bucket, H!Left, Keys) /\ bucket \in [DOMAIN bucket -> SUBSET V]
    BY <1>2, <1>4, SortedKeys DEF SearchInv, SearchTypes
  <2>2. Keys[a] \in DOMAIN bucket /\ f[a] \in DOMAIN bucket /\ Keys[a] # f[a]
    BY <1>11, <1>12
  <2>3. Sorted(H!Moved(bucket, a, Keys[a], f[a]), H!Left, f)
        /\ H!Moved(bucket, a, Keys[a], f[a]) \in [DOMAIN bucket -> SUBSET V]
    BY <1>4, <1>5, <1>12, <2>1, <2>2, MovedSorted
  <2> QED  BY <1>12, <2>3
<1>15. bucket' = H!Moved(c, b, H!Degree(b), H!Degree(b) + 1) /\ DOMAIN c = DOMAIN bucket
  BY <1>8, <1>14
<1> HIDE DEF c
<1>16. Sorted(bucket', H!Left, g) /\ bucket' \in [DOMAIN bucket -> SUBSET V]
  <2>1. f[b] \in DOMAIN c /\ g[b] \in DOMAIN c /\ f[b] # g[b]
    BY <1>11, <1>12, <1>15
  <2>2. Sorted(H!Moved(c, b, f[b], g[b]), H!Left, g)
        /\ H!Moved(c, b, f[b], g[b]) \in [DOMAIN c -> SUBSET V]
    BY <1>4, <1>5, <1>12, <1>14, <1>15, <2>1, MovedSorted
  <2> QED  BY <1>12, <1>15, <2>2
<1>17. H!BucketsExact'
  BY <1>3, <1>4, <1>13, <1>16, ExactAgain
<1>18. minimum \in Nat /\ minimum' \in Nat /\ minimum' <= minimum
       /\ minimum' <= H!Degree(a) + 1 /\ minimum' <= H!Degree(b) + 1
  <2> DEFINE T == {minimum, H!Degree(a) + 1, H!Degree(b) + 1}
  <2>1. minimum \in Nat
    BY DEF SearchInv, SearchTypes
  <2>2. T \subseteq Nat /\ T # {}
    BY <1>11, <2>1
  <2>3. H!Least(T) \in T /\ \A y \in T : H!Least(T) <= y
    BY <2>2, LeastFound
  <2> QED  BY <1>8, <1>11, <2>1, <2>3
<1>19. MinimumLow'
  <2>1. \A u \in H!Left : minimum <= Key(u)
    BY DEF SearchInv, MinimumLow
  <2>2. \A u \in H!Left : minimum' <= Key(u)'
    BY <1>4, <1>10, <1>18, <2>1
  <2> QED  BY <1>3, <2>2 DEF MinimumLow
<1>20. SearchTypes' /\ Progress' /\ TodoNeighbors'
  BY <1>2, <1>3, <1>4, <1>9, <1>16, <1>18
     DEF SearchInv, SearchTypes, Progress, TodoNeighbors
<1>21. Isolated'
  <2>1. \A w \in V \ H!Left : \A u \in V : u \notin out[w] /\ w \notin out[u]
    BY <1>2 DEF SearchInv, Isolated
  <2>2. \A w \in V \ H!Left : \A u \in V : u \notin out'[w] /\ w \notin out'[u]
    BY <1>5, <1>6, <1>7, <1>8, <2>1
  <2> QED  BY <1>3, <2>2 DEF Isolated
<1> QED  BY <1>2, <1>17, <1>19, <1>20, <1>21 DEF SearchInv

(* The search goes on while there are vertices left.                       *)
LEMMA EliminatedStep ==
  ASSUME IsGraph(graph), SearchInv, H!Eliminated
  PROVE  pc' \in Searching \cup {"tree"} /\ (pc' \in Searching => SearchInv')
<1>1. /\ pc = "clique" /\ pc' = IF Len(order) = Cardinality(V) THEN "tree" ELSE "take"
      /\ graph' = graph /\ out' = out /\ order' = order /\ neighbors' = neighbors
      /\ bucket' = bucket /\ minimum' = minimum /\ todo' = todo
  BY SameCardinality DEF H!Eliminated, H!graphVars, H!Nodes, V
<1>2. pc' \in Searching \cup {"tree"}
  BY <1>1 DEF Searching
<1>3. ASSUME pc' \in Searching PROVE SearchInv'
  <2>1. pc' = "take" /\ Len(order) # Cardinality(V) /\ pc \in Searching
    BY <1>1, <1>3 DEF Searching
  <2>2. /\ V' = V /\ H!Left' = H!Left /\ H!node' = H!node /\ H!DegreeBound' = H!DegreeBound
    BY <1>1 DEF V, H!Left, H!node, H!Nodes, H!DegreeBound
  <2>3. H!Left \subseteq V /\ IsFiniteSet(H!Left) /\ Cardinality(V) \in Nat
    BY LeftFacts
  <2>4. \A u \in V : Key(u)' = Key(u)
    <3>1. ASSUME NEW u \in V PROVE Key(u)' = Key(u)
      <4>1. H!Degree(u)' = H!Degree(u)
        BY <1>1 DEF H!Degree, H!DegreeIn, H!Nodes
      <4>2. H!CountedOff(u)' = 0 /\ H!CountedOff(u) = 0
        BY <1>1, <2>1 DEF H!CountedOff
      <4> QED  BY <4>1, <4>2 DEF Key
    <3> QED  BY <3>1
  <2>5. H!BucketsExact'
    <3>1. Sorted(bucket', H!Left', Keys)
      BY <1>1, <2>1, <2>2, SortedKeys
    <3> QED  BY <2>2, <2>3, <2>4, <3>1, ExactAgain DEF Keys
  <2>6. Progress'
    <3>1. Cardinality(H!Left) = Cardinality(V) - Len(order) /\ Len(order) \in Nat
      BY DEF SearchInv, SearchTypes, Progress
    <3>2. Cardinality(H!Left) # 0
      BY <2>1, <2>3, <3>1
    <3>3. H!Left # {}
      BY <3>2, FS_EmptySet
    <3> QED  BY <1>1, <2>1, <2>2, <3>1, <3>3 DEF Progress
  <2>7. SearchTypes' /\ MinimumLow' /\ Isolated' /\ TodoNeighbors'
    BY <1>1, <2>1, <2>2, <2>3, <2>4
       DEF SearchInv, SearchTypes, MinimumLow, Isolated, TodoNeighbors
  <2> QED  BY <2>5, <2>6, <2>7 DEF SearchInv
<1> QED  BY <1>2, <1>3

-----------------------------------------------------------------------------
(* The vertices that stand for edges come after the vertices of the graph, *)
(* and no two edges share one.                                             *)
LEMMA EdgesFinite ==
  ASSUME NEW g, IsGraph(g)
  PROVE  IsFiniteSet(Edges(g)) /\ Cardinality(Edges(g)) \in Nat /\ Cardinality(g.vertices) \in Nat
<1>1. IsFiniteSet(g.vertices)
  BY DEF IsGraph
<1>2. IsFiniteSet(g.vertices \X g.vertices)
  BY <1>1, FS_Product
<1>3. Edges(g) \in SUBSET (g.vertices \X g.vertices)
  BY DEF Edges
<1>4. IsFiniteSet(Edges(g))
  BY <1>2, <1>3, FS_Subset
<1> QED  BY <1>1, <1>4, FS_CardinalityType

UpTo(g, e) == {f \in Edges(g) : Before(f, e)}

LEMMA UpToFinite ==
  ASSUME NEW g, IsGraph(g), NEW e
  PROVE  /\ IsFiniteSet(UpTo(g, e)) /\ Cardinality(UpTo(g, e)) \in Nat
         /\ Cardinality(UpTo(g, e)) <= Cardinality(Edges(g))
         /\ EdgeVertex(g, e) = Cardinality(g.vertices) + Cardinality(UpTo(g, e))
<1>1. UpTo(g, e) \in SUBSET Edges(g)
  BY DEF UpTo
<1>2. IsFiniteSet(UpTo(g, e)) /\ Cardinality(UpTo(g, e)) <= Cardinality(Edges(g))
  BY <1>1, EdgesFinite, FS_Subset
<1>3. Cardinality(UpTo(g, e)) \in Nat
  BY <1>2, FS_CardinalityType
<1> QED  BY <1>2, <1>3 DEF EdgeVertex, UpTo

LEMMA EdgeEnds ==
  ASSUME NEW g, IsGraph(g), NEW e \in Edges(g)
  PROVE  /\ e = <<e[1], e[2]>> /\ e[1] \in g.vertices /\ e[2] \in g.vertices
         /\ e[1] \in Nat /\ e[2] \in Nat /\ e[2] \in g.out[e[1]] /\ e[1] # e[2]
BY DEF IsGraph, Edges

LEMMA EdgeVertexRange ==
  ASSUME NEW g, IsGraph(g), NEW e \in Edges(g)
  PROVE  EdgeVertex(g, e) \in Cardinality(g.vertices) + 1 .. Cardinality(g.vertices) + Cardinality(Edges(g))
<1>1. e \in UpTo(g, e)
  BY EdgeEnds DEF UpTo, Before
<1>2. Cardinality(UpTo(g, e)) # 0
  BY <1>1, UpToFinite, FS_EmptySet
<1> QED  BY <1>2, UpToFinite, EdgesFinite

LEMMA EdgeVertexInjective ==
  ASSUME NEW g, IsGraph(g), NEW e \in Edges(g), NEW f \in Edges(g),
         EdgeVertex(g, e) = EdgeVertex(g, f)
  PROVE  e = f
<1>1. ASSUME NEW x \in Edges(g), NEW y \in Edges(g), Before(x, y), EdgeVertex(g, x) = EdgeVertex(g, y)
      PROVE  x = y
  <2>1. /\ x[1] \in Nat /\ x[2] \in Nat /\ y[1] \in Nat /\ y[2] \in Nat
        /\ x = <<x[1], x[2]>> /\ y = <<y[1], y[2]>>
    BY EdgeEnds
  <2>2. UpTo(g, x) \in SUBSET UpTo(g, y)
    <3>1. ASSUME NEW z \in UpTo(g, x) PROVE z \in UpTo(g, y)
      <4>1. z \in Edges(g) /\ Before(z, x)
        BY <3>1 DEF UpTo
      <4>2. z[1] \in Nat /\ z[2] \in Nat
        BY <4>1, EdgeEnds
      <4>3. Before(z, y)
        BY <1>1, <2>1, <4>1, <4>2 DEF Before
      <4> QED  BY <4>1, <4>3 DEF UpTo
    <3> QED  BY <3>1
  <2>3. Cardinality(UpTo(g, x)) = Cardinality(UpTo(g, y))
    <3>1. /\ EdgeVertex(g, x) = Cardinality(g.vertices) + Cardinality(UpTo(g, x))
          /\ EdgeVertex(g, y) = Cardinality(g.vertices) + Cardinality(UpTo(g, y))
          /\ Cardinality(UpTo(g, x)) \in Nat /\ Cardinality(UpTo(g, y)) \in Nat
      BY UpToFinite
    <3>2. Cardinality(g.vertices) \in Nat
      BY EdgesFinite
    <3>3. \A k, i, j \in Nat : k + i = k + j => i = j
      OBVIOUS
    <3> QED  BY <1>1, <3>1, <3>2, <3>3
  <2>4. UpTo(g, x) = UpTo(g, y)
    <3>1. IsFiniteSet(UpTo(g, y))
      BY UpToFinite
    <3>2. \A T \in SUBSET UpTo(g, y) :
            Cardinality(UpTo(g, y)) = Cardinality(T) => UpTo(g, y) = T
      BY <3>1, FS_Subset
    <3> QED  BY <2>2, <2>3, <3>2
  <2>5. Before(y, x)
    <3>1. y \in UpTo(g, y)
      BY <2>1 DEF UpTo, Before
    <3> QED  BY <2>4, <3>1 DEF UpTo
  <2>6. x[1] = y[1] /\ x[2] = y[2]
    BY <1>1, <2>1, <2>5 DEF Before
  <2> QED  BY <2>1, <2>6
<1>2. Before(e, f) \/ Before(f, e)
  <2>1. e[1] \in Nat /\ e[2] \in Nat /\ f[1] \in Nat /\ f[2] \in Nat
    BY EdgeEnds
  <2> QED  BY <2>1 DEF Before
<1> QED  BY <1>1, <1>2

(* The incidence graph, with the vertices of edges apart.                  *)
EdgeVertices(g) == {EdgeVertex(g, e) : e \in Edges(g)}

LEMMA IncidenceParts ==
  ASSUME NEW g, IsGraph(g), Numbered(g), NEW i, i = IncidenceOf(g)
  PROVE  /\ i = [vertices |-> i.vertices, out |-> i.out, vlabel |-> i.vlabel, elabel |-> i.elabel]
         /\ i.vertices = g.vertices \cup EdgeVertices(g)
         /\ g.vertices \cap EdgeVertices(g) = {}
         /\ EdgeVertices(g) \subseteq Nat /\ IsFiniteSet(EdgeVertices(g))
         /\ i.out = [v \in i.vertices |->
                       {EdgeVertex(g, e) : e \in {f \in Edges(g) : f[1] = v}}
                         \cup {e[2] : e \in {f \in Edges(g) : EdgeVertex(g, f) = v}}]
         /\ i.vlabel = g.vlabel \cup {<<v, "Vertex">> : v \in g.vertices}
                         \cup {<<v, "Edge">> : v \in EdgeVertices(g)}
                         \cup {<<[e \in Edges(g) |-> EdgeVertex(g, e)][p[1]], p[2]>> : p \in g.elabel}
<1> DEFINE K == Cardinality(g.vertices)
           m == Cardinality(Edges(g))
<1>1. K \in Nat /\ m \in Nat /\ g.vertices = 1 .. K
  BY EdgesFinite DEF Numbered
<1>2. EdgeVertices(g) \in SUBSET (K + 1 .. K + m)
  BY EdgeVertexRange DEF EdgeVertices
<1>3. IsFiniteSet(K + 1 .. K + m)
  BY <1>1, FS_Interval
<1>4. IsFiniteSet(EdgeVertices(g)) /\ EdgeVertices(g) \subseteq Nat
  BY <1>1, <1>2, <1>3, FS_Subset
<1>5. g.vertices \cap EdgeVertices(g) = {}
  BY <1>1, <1>2
<1> DEFINE vertexOf == [e \in Edges(g) |-> EdgeVertex(g, e)]
           new == {vertexOf[e] : e \in Edges(g)}
<1>6. new = EdgeVertices(g)
  BY DEF EdgeVertices
<1>7. i = [vertices |-> g.vertices \cup new,
           out |-> [v \in g.vertices \cup new |->
                      {vertexOf[e] : e \in {f \in Edges(g) : f[1] = v}}
                        \cup {e[2] : e \in {f \in Edges(g) : vertexOf[f] = v}}],
           vlabel |-> g.vlabel \cup {<<v, "Vertex">> : v \in g.vertices}
                        \cup {<<v, "Edge">> : v \in new}
                        \cup {<<vertexOf[p[1]], p[2]>> : p \in g.elabel},
           elabel |-> {}]
  BY DEF IncidenceOf
<1>8. \A v : {vertexOf[e] : e \in {f \in Edges(g) : f[1] = v}}
               = {EdgeVertex(g, e) : e \in {f \in Edges(g) : f[1] = v}}
  OBVIOUS
<1>9. \A v : {e[2] : e \in {f \in Edges(g) : vertexOf[f] = v}}
               = {e[2] : e \in {f \in Edges(g) : EdgeVertex(g, f) = v}}
  OBVIOUS
<1>10. i.out = [v \in i.vertices |->
                  {vertexOf[e] : e \in {f \in Edges(g) : f[1] = v}}
                    \cup {e[2] : e \in {f \in Edges(g) : vertexOf[f] = v}}]
  BY <1>7
<1>11. i.vlabel = g.vlabel \cup {<<v, "Vertex">> : v \in g.vertices}
                    \cup {<<v, "Edge">> : v \in new}
                    \cup {<<vertexOf[p[1]], p[2]>> : p \in g.elabel}
  BY <1>7
<1>12. /\ i = [vertices |-> i.vertices, out |-> i.out, vlabel |-> i.vlabel, elabel |-> i.elabel]
       /\ i.vertices = g.vertices \cup new
  BY <1>7
<1>13. i.out = [v \in i.vertices |->
                  {EdgeVertex(g, e) : e \in {f \in Edges(g) : f[1] = v}}
                    \cup {e[2] : e \in {f \in Edges(g) : EdgeVertex(g, f) = v}}]
  <2> DEFINE A(v) == {vertexOf[e] : e \in {f \in Edges(g) : f[1] = v}}
                       \cup {e[2] : e \in {f \in Edges(g) : vertexOf[f] = v}}
             B(v) == {EdgeVertex(g, e) : e \in {f \in Edges(g) : f[1] = v}}
                       \cup {e[2] : e \in {f \in Edges(g) : EdgeVertex(g, f) = v}}
  <2>1. \A v : A(v) = B(v)
    BY <1>8, <1>9, Zenon
  <2>2. i.out = [v \in i.vertices |-> A(v)]
    BY <1>10, Zenon
  <2> HIDE DEF A, B
  <2>3. i.out = [v \in i.vertices |-> B(v)]
    BY <2>1, <2>2
  <2> QED  BY <2>3, Zenon DEF B
<1> QED  BY <1>4, <1>5, <1>6, <1>11, <1>12, <1>13

LEMMA IncidenceIsGraph ==
  ASSUME NEW g, IsGraph(g), Numbered(g)
  PROVE  IsGraph(IncidenceOf(g))
<1> DEFINE i == IncidenceOf(g)
<1>1. /\ i = [vertices |-> i.vertices, out |-> i.out, vlabel |-> i.vlabel, elabel |-> i.elabel]
      /\ i.vertices = g.vertices \cup EdgeVertices(g)
      /\ g.vertices \cap EdgeVertices(g) = {}
      /\ EdgeVertices(g) \subseteq Nat /\ IsFiniteSet(EdgeVertices(g))
      /\ i.out = [v \in i.vertices |->
                    {EdgeVertex(g, e) : e \in {f \in Edges(g) : f[1] = v}}
                      \cup {e[2] : e \in {f \in Edges(g) : EdgeVertex(g, f) = v}}]
  BY IncidenceParts
<1> HIDE DEF i
<1>2. i.vertices \subseteq Nat /\ IsFiniteSet(i.vertices)
  <2>1. g.vertices \subseteq Nat /\ IsFiniteSet(g.vertices)
    BY DEF IsGraph
  <2>2. IsFiniteSet(g.vertices \cup EdgeVertices(g))
    BY <1>1, <2>1, FS_Union
  <2> QED  BY <1>1, <2>1, <2>2
<1>3. \A e \in Edges(g) : EdgeVertex(g, e) \in EdgeVertices(g) /\ e[1] \in g.vertices /\ e[2] \in g.vertices
  BY EdgeEnds DEF EdgeVertices
<1>4. i.out \in [i.vertices -> SUBSET i.vertices]
  BY <1>1, <1>3
<1>5. \A v \in i.vertices : v \notin i.out[v]
  <2>1. ASSUME NEW v \in i.vertices, v \in i.out[v] PROVE FALSE
    <3>1. CASE \E e \in Edges(g) : e[1] = v /\ v = EdgeVertex(g, e)
      BY <1>1, <1>3, <3>1
    <3>2. CASE \E e \in Edges(g) : EdgeVertex(g, e) = v /\ v = e[2]
      BY <1>1, <1>3, <3>2
    <3> QED  BY <1>1, <2>1, <3>1, <3>2
  <2> QED  BY <2>1
<1>6. IsGraph(i)
  BY <1>1, <1>2, <1>4, <1>5 DEF IsGraph
<1> QED  BY <1>6 DEF i

-----------------------------------------------------------------------------
(* Init and the steps outside the search.                                  *)
LEMMA InitPreInv == PreInit => PreInv
<1> SUFFICES ASSUME PreInit PROVE PreInv
  OBVIOUS
<1>1. PICK c \in Cases : orig = c.graph /\ facade = c.graph
  BY DEF PreInit
<1>2. IsGraph(c.graph) /\ Numbered(c.graph) /\ LabelsFit(c.graph)
  BY PreSolveAssumption
<1> QED  BY <1>1, <1>2 DEF PreInit, PreInv

(* What is neither part of the search nor begins it.                       *)
LEMMA OutsideSearch ==
  ASSUME PreInv, UNCHANGED <<localVars, caseVars, facadeVars>>,
         stage # "generate", stage' # "generate"
  PROVE  PreInv'
BY DEF PreInv, localVars, caseVars, facadeVars, H!Unstarted

LEMMA SetupStep ==
  ASSUME PreInv, KeepGraph \/ MakeIncidence \/ ExtendLoaded \/ NoHost
  PROVE  PreInv'
<1>1. stage = "setup" /\ UNCHANGED <<localVars, caseVars, facadeVars>>
  BY DEF KeepGraph, MakeIncidence, ExtendLoaded, NoHost, Setup
<1>2. CASE stage' = "generate"
  <2>1. graph' = orig \/ graph' = IncidenceOf(orig)
    BY <1>2 DEF KeepGraph, MakeIncidence, ExtendLoaded, NoHost
  <2>2. IsGraph(graph')
    BY <2>1, IncidenceIsGraph DEF PreInv
  <2>3. H!Unstarted' \/ pc' = "done"
    BY <1>1 DEF PreInv, localVars, H!Unstarted
  <2>4. pc' \in {"start", "done"} /\ (pc' = "start" => H!Unstarted')
    BY <2>3 DEF H!Unstarted
  <2>5. IsGraph(graph)'
    BY <2>2
  <2>6. PreInv'
    BY <1>1, <1>2, <2>4, <2>5 DEF PreInv, caseVars, facadeVars, Searching
  <2> QED  BY <2>6
<1>3. CASE stage' # "generate"
  BY <1>1, <1>3, OutsideSearch
<1> QED  BY <1>2, <1>3

(* Every step of the search.                                               *)
LEMMA SearchStep ==
  ASSUME PreInv,
         \/ EmptyGraph \/ Begin \/ Take \/ UpdateOut \/ OutDone \/ UpdateIn
         \/ Clear \/ AddEdge \/ Eliminated \/ AddNode
  PROVE  PreInv'
<1>1. /\ stage = "generate" /\ stage' = "generate" /\ orig' = orig /\ facade' = facade
  BY DEF Generating, caseVars, facadeVars,
         EmptyGraph, Begin, Take, UpdateOut, OutDone, UpdateIn, Clear, AddEdge, Eliminated, AddNode
<1>2. /\ IsGraph(graph) /\ pc \in Searching \cup {"start", "tree", "done"}
      /\ pc = "start" => H!Unstarted
      /\ pc \in Searching => SearchInv
  BY <1>1 DEF PreInv
<1>3. graph' = graph
  BY DEF EmptyGraph, Begin, Take, UpdateOut, OutDone, UpdateIn, Clear, AddEdge, Eliminated, AddNode,
         H!EmptyGraph, H!Begin, H!Take, H!UpdateOut, H!OutDone, H!UpdateIn, H!Clear, H!AddEdge,
         H!Eliminated, H!AddNode, H!graphVars
<1>4. SUFFICES /\ pc' \in Searching \cup {"tree", "done"}
               /\ pc' \in Searching => SearchInv'
  <2>1. IsGraph(graph)'
    BY <1>2, <1>3
  <2> QED  BY <1>1, <1>4, <2>1 DEF PreInv, Searching
<1>5. CASE EmptyGraph
  BY <1>5 DEF EmptyGraph, H!EmptyGraph, Searching
<1>6. CASE Begin
  <2>1. H!Begin /\ pc = "start"
    BY <1>6 DEF Begin, H!Begin
  <2> QED  BY <1>2, <2>1, BeginStep
<1>7. CASE Take
  <2>1. H!Take /\ pc \in Searching
    BY <1>7 DEF Take, H!Take, Searching
  <2> QED  BY <1>2, <2>1, TakeStep
<1>8. CASE UpdateOut
  <2>1. H!UpdateOut /\ pc \in Searching
    BY <1>8 DEF UpdateOut, H!UpdateOut, Searching
  <2> QED  BY <1>2, <2>1, UpdateOutStep
<1>9. CASE OutDone
  <2>1. H!OutDone /\ pc \in Searching
    BY <1>9 DEF OutDone, H!OutDone, Searching
  <2> QED  BY <1>2, <2>1, OutDoneStep
<1>10. CASE UpdateIn
  <2>1. H!UpdateIn /\ pc \in Searching
    BY <1>10 DEF UpdateIn, H!UpdateIn, Searching
  <2> QED  BY <1>2, <2>1, UpdateInStep
<1>11. CASE Clear
  <2>1. H!Clear /\ pc \in Searching
    BY <1>11 DEF Clear, H!Clear, Searching
  <2> QED  BY <1>2, <2>1, ClearStep
<1>12. CASE AddEdge
  <2>1. H!AddEdge /\ pc \in Searching
    BY <1>12 DEF AddEdge, H!AddEdge, Searching
  <2> QED  BY <1>2, <2>1, AddEdgeStep
<1>13. CASE Eliminated
  <2>1. H!Eliminated /\ pc \in Searching
    BY <1>13 DEF Eliminated, H!Eliminated, Searching
  <2> QED  BY <1>2, <2>1, EliminatedStep
<1>14. CASE AddNode
  BY <1>14 DEF AddNode, H!AddNode, Searching
<1> QED  BY <1>5, <1>6, <1>7, <1>8, <1>9, <1>10, <1>11, <1>12, <1>13, <1>14

(* The facade's graph stays one, with its vertices numbered.               *)
LEMMA FacadeStep ==
  ASSUME PreInv, AddVertex \/ AddArc
  PROVE  PreInv'
<1>1. IsGraph(facade) /\ Numbered(facade) /\ LabelsFit(facade) /\ IsFiniteSet(facade.vertices)
  BY DEF PreInv, IsGraph
<1>2. stage \in Ended /\ UNCHANGED <<localVars, caseVars, stage>>
  BY DEF AddVertex, AddArc, Grows
<1>3. IsGraph(facade') /\ Numbered(facade') /\ LabelsFit(facade')
  <2>1. CASE AddVertex
    <3> DEFINE K == Cardinality(facade.vertices)
               v == K + 1
    <3>1. K \in Nat /\ facade.vertices = 1 .. K
      BY <1>1, FS_CardinalityType DEF Numbered
    <3>2. facade' = [facade EXCEPT !.vertices = @ \cup {v},
                                   !.out = [w \in DOMAIN @ \cup {v} |-> IF w = v THEN {} ELSE @[w]]]
      BY <2>1 DEF AddVertex
    <3>3. /\ facade = [vertices |-> facade.vertices, out |-> facade.out,
                       vlabel |-> facade.vlabel, elabel |-> facade.elabel]
          /\ facade.out \in [1 .. K -> SUBSET (1 .. K)] /\ \A w \in 1 .. K : w \notin facade.out[w]
      BY <1>1, <3>1 DEF IsGraph
    <3>4. facade' = [vertices |-> facade.vertices \cup {v},
                     out |-> [w \in DOMAIN facade.out \cup {v} |-> IF w = v THEN {} ELSE facade.out[w]],
                     vlabel |-> facade.vlabel, elabel |-> facade.elabel]
      BY <3>2, <3>3
    <3>5. v \notin 1 .. K /\ (1 .. K) \cup {v} = 1 .. K + 1
      BY <3>1
    <3>6. facade'.vertices = 1 .. K + 1
          /\ facade'.out = [w \in 1 .. K + 1 |-> IF w = v THEN {} ELSE facade.out[w]]
      BY <3>1, <3>3, <3>4, <3>5
    <3>7. IsFiniteSet(1 .. K + 1) /\ Cardinality(1 .. K + 1) = K + 1
      BY <3>1, FS_Interval
    <3>8. Numbered(facade')
      BY <3>6, <3>7 DEF Numbered
    <3>9. facade'.out \in [1 .. K + 1 -> SUBSET (1 .. K + 1)] /\ \A w \in 1 .. K + 1 : w \notin facade'.out[w]
      BY <3>1, <3>3, <3>5, <3>6
    <3>10. facade' = [vertices |-> facade'.vertices, out |-> facade'.out,
                      vlabel |-> facade'.vlabel, elabel |-> facade'.elabel]
      BY <3>4
    <3>11. IsGraph(facade')
      BY <3>1, <3>6, <3>7, <3>9, <3>10 DEF IsGraph
    <3>12. Edges(facade) \subseteq Edges(facade')
      <4>1. \A w \in facade.vertices : w \in facade'.vertices /\ facade'.out[w] = facade.out[w]
        BY <3>1, <3>5, <3>6
      <4> QED  BY <4>1 DEF Edges
    <3>13. LabelsFit(facade')
      <4>1. facade'.vlabel = facade.vlabel /\ facade'.elabel = facade.elabel
            /\ facade.vertices \subseteq facade'.vertices
        BY <3>4
      <4> QED  BY <1>1, <3>12, <4>1 DEF LabelsFit
    <3> QED  BY <3>8, <3>11, <3>13
  <2>2. CASE AddArc
    <3>1. PICK u, v \in facade.vertices :
            /\ v \notin facade.out[u] /\ u # v
            /\ facade' = [facade EXCEPT !.out[u] = @ \cup {v}]
      BY <2>2 DEF AddArc
    <3>2. /\ facade = [vertices |-> facade.vertices, out |-> facade.out,
                       vlabel |-> facade.vlabel, elabel |-> facade.elabel]
          /\ facade.out \in [facade.vertices -> SUBSET facade.vertices]
          /\ \A w \in facade.vertices : w \notin facade.out[w]
          /\ facade.vertices \subseteq Nat
      BY <1>1 DEF IsGraph
    <3>3. facade' = [vertices |-> facade.vertices, out |-> [facade.out EXCEPT ![u] = @ \cup {v}],
                     vlabel |-> facade.vlabel, elabel |-> facade.elabel]
      BY <3>1, <3>2
    <3>4. /\ facade'.vertices = facade.vertices /\ facade'.out = [facade.out EXCEPT ![u] = @ \cup {v}]
          /\ facade' = [vertices |-> facade'.vertices, out |-> facade'.out,
                        vlabel |-> facade'.vlabel, elabel |-> facade'.elabel]
      BY <3>3
    <3>5. /\ facade'.out \in [facade.vertices -> SUBSET facade.vertices]
          /\ \A w \in facade.vertices : w \notin facade'.out[w]
      BY <3>1, <3>2, <3>4
    <3>6. IsGraph(facade')
      BY <1>1, <3>2, <3>4, <3>5 DEF IsGraph
    <3>7. Numbered(facade')
      BY <1>1, <3>4 DEF Numbered
    <3>8. Edges(facade) \subseteq Edges(facade')
      <4>1. \A w \in facade.vertices : facade.out[w] \subseteq facade'.out[w]
        BY <3>1, <3>2, <3>4
      <4> QED  BY <3>4, <4>1 DEF Edges
    <3>9. LabelsFit(facade')
      <4>1. facade'.vlabel = facade.vlabel /\ facade'.elabel = facade.elabel
            /\ facade.vertices = facade'.vertices
        BY <3>3
      <4> QED  BY <1>1, <3>8, <4>1 DEF LabelsFit
    <3> QED  BY <3>6, <3>7, <3>9
  <2> QED  BY <2>1, <2>2
<1>4. stage # "generate" /\ stage' # "generate"
  BY <1>2 DEF Ended
<1> QED  BY <1>2, <1>3, <1>4 DEF PreInv, localVars, caseVars, H!Unstarted

-----------------------------------------------------------------------------
LEMMA PreInvStep == PreInv /\ [PreNext]_preVars => PreInv'
<1> SUFFICES ASSUME PreInv, [PreNext]_preVars PROVE PreInv'
  OBVIOUS
<1>1. CASE KeepGraph \/ MakeIncidence \/ ExtendLoaded \/ NoHost
  BY <1>1, SetupStep
<1>2. CASE \/ EmptyGraph \/ Begin \/ Take \/ UpdateOut \/ OutDone \/ UpdateIn
           \/ Clear \/ AddEdge \/ Eliminated \/ AddNode
  BY <1>2, SearchStep
<1>3. CASE Generated
  <2>1. H!Unstarted' \/ pc' = "done"
    BY <1>3 DEF Generated
  <2> QED  BY <1>3, <2>1 DEF Generated, PreInv, caseVars, facadeVars
<1>4. CASE \/ NiceLeaf \/ NiceBinary \/ NiceJoins \/ NiceBetween \/ NiceAdvance
  <2>1. stage = "make_nice" /\ UNCHANGED <<localVars, caseVars, facadeVars, stage>>
    BY <1>4 DEF NiceLeaf, NiceBinary, NiceJoins, NiceBetween, NiceAdvance, Repairing
  <2> QED  BY <2>1, OutsideSearch
<1>5. CASE MadeNice
  <2>1. stage = "make_nice" /\ stage' = "start" /\ UNCHANGED <<localVars, caseVars, facadeVars>>
    BY <1>5 DEF MadeNice
  <2> QED  BY <2>1, OutsideSearch
<1>6. CASE \/ CheckStart \/ CheckTree \/ CheckVertices \/ CheckEdges
           \/ CheckConnected \/ CheckNice
  <2>1. UNCHANGED <<localVars, caseVars, facadeVars>>
    BY <1>6 DEF Checking, CheckStart, CheckTree, CheckVertices, CheckEdges, CheckConnected, CheckNice
  <2>2. stage # "generate" /\ stage' # "generate"
    BY <1>6 DEF CheckStart, CheckTree, CheckVertices, CheckEdges, CheckConnected, CheckNice,
                C!Start, C!TestTree, C!TestVertices, C!TestEdges, C!TestConnected, C!TestNice,
                C!Pass, C!Throw
  <2> QED  BY <2>1, <2>2, OutsideSearch
<1>7. CASE AddVertex \/ AddArc
  BY <1>7, FacadeStep
<1>8. CASE SolveAgain
  BY <1>8 DEF SolveAgain, PreInv, localVars, facadeVars, H!Unstarted, Ended
<1>9. CASE Finished \/ UNCHANGED preVars
  <2>1. UNCHANGED <<out, bucket, minimum, order, neighbors, todo, pc>>
        /\ UNCHANGED <<orig, facade, graph, stage>>
    BY <1>9 DEF Finished, preVars, localVars, caseVars, facadeVars
  <2>2. CASE stage # "generate"
    BY <2>1, <2>2 DEF PreInv, H!Unstarted
  <2>3. CASE stage = "generate"
    <3>1. /\ V' = V /\ H!Left' = H!Left /\ H!node' = H!node /\ H!DegreeBound' = H!DegreeBound
          /\ H!In(H!node)' = H!In(H!node)
      BY <2>1 DEF V, H!Left, H!node, H!Nodes, H!DegreeBound, H!In
    <3>2. \A u : H!Degree(u)' = H!Degree(u) /\ H!CountedOff(u)' = H!CountedOff(u)
      <4>1. \A u : H!Degree(u)' = H!Degree(u)
        BY <2>1 DEF H!Degree, H!DegreeIn, H!Nodes
      <4>2. \A u : H!CountedOff(u)' = H!CountedOff(u)
        BY <2>1, <3>1 DEF H!CountedOff, H!Offset
      <4> QED  BY <4>1, <4>2
    <3>3. ASSUME SearchInv PROVE SearchInv'
      <4>1. SearchTypes' /\ Progress' /\ Isolated' /\ TodoNeighbors'
        BY <2>1, <3>1, <3>3 DEF SearchInv, SearchTypes, Progress, Isolated, TodoNeighbors
      <4>2. MinimumLow'
        BY <2>1, <3>1, <3>2, <3>3 DEF SearchInv, MinimumLow, Key
      <4>3. H!BucketsExact'
        BY <2>1, <3>1, <3>2, <3>3 DEF SearchInv, H!BucketsExact
      <4> QED  BY <4>1, <4>2, <4>3 DEF SearchInv
    <3> QED  BY <2>1, <2>3, <3>3 DEF PreInv, H!Unstarted
  <2> QED  BY <2>2, <2>3
<1> QED  BY <1>1, <1>2, <1>3, <1>4, <1>5, <1>6, <1>7, <1>8, <1>9 DEF PreNext

LEMMA PreInvHolds == PreSpec => []PreInv
<1>1. PreInit => PreInv
  BY InitPreInv
<1>2. PreInv /\ [PreNext]_preVars => PreInv'
  BY PreInvStep
<1> QED  BY <1>1, <1>2, PTL DEF PreSpec

(* The buckets of the min-degree search hold every vertex that is left in  *)
(* exactly the bucket of its degree, on every graph without loops.         *)
THEOREM PreSolveBucketsExact == PreSpec => []BucketsExact
<1>1. PreInv => BucketsExact
  BY DEF PreInv, BucketsExact, SearchInv, H!BucketsExact, Searching
<1> QED  BY <1>1, PreInvHolds, PTL

-----------------------------------------------------------------------------
(* A vertex whose bucket is updated is in the bucket that is looked at,    *)
(* and the one that it goes to exists.                                     *)
InBucket(v, from, to) == from \in DOMAIN bucket /\ to \in DOMAIN bucket /\ v \in bucket[from]

VerticesFound ==
  stage = "generate" =>
    /\ pc = "out" => \A v \in todo : InBucket(v, H!Degree(v), H!Degree(v) - 1)
    /\ pc = "in" => \A v \in todo :
         InBucket(v, H!Degree(v) - H!Offset(v), H!Degree(v) - H!Offset(v) - 1)
    /\ pc = "clique" => \A e \in H!Missing : \A v \in {e[1], e[2]} :
         InBucket(v, H!Degree(v), H!Degree(v) + 1)

LEMMA KeyFound ==
  ASSUME IsGraph(graph), SearchInv, pc \in Searching, NEW v \in H!Left, Key(v) \in DOMAIN bucket
  PROVE  v \in bucket[Key(v)]
<1>1. Sorted(bucket, H!Left, Keys)  BY SortedKeys
<1>2. Keys[v] = Key(v)  BY LeftFacts DEF Keys
<1> QED  BY <1>1, <1>2 DEF Sorted

LEMMA FoundInSearch == PreInv => VerticesFound
<1> SUFFICES ASSUME PreInv, stage = "generate", pc \in {"out", "in", "clique"} PROVE VerticesFound
  BY DEF VerticesFound
<1>1. IsGraph(graph) /\ SearchInv /\ pc \in Searching
  BY DEF PreInv, Searching
<1>2. /\ IsFiniteSet(V) /\ H!Left \subseteq V
      /\ DOMAIN bucket = 0 .. H!DegreeBound - 1 /\ H!DegreeBound \in Nat
      /\ \A u \in V : H!Degree(u) \in 0 .. H!DegreeBound - 2
  BY <1>1, LeftFacts
<1>3. out \in [V -> SUBSET V] /\ \A v \in V : v \notin out[v]
  BY <1>1 DEF SearchInv, SearchTypes
<1>4. ASSUME NEW v \in V
      PROVE  /\ IsFiniteSet(InOf(out, v)) /\ Cardinality(InOf(out, v)) \in Nat
             /\ IsFiniteSet(out[v]) /\ Cardinality(out[v]) \in Nat
             /\ H!Degree(v) = Cardinality(out[v]) + Cardinality(InOf(out, v))
  BY <1>2, <1>3, DegreeRange DEF H!Degree
<1>5. ASSUME pc = "out", NEW v \in todo PROVE InBucket(v, H!Degree(v), H!Degree(v) - 1)
  <2>1. H!node \in V /\ out[H!node] \subseteq H!Left /\ todo \subseteq out[H!node]
    BY <1>1, <1>5, NeighborsLeft DEF SearchInv, TodoNeighbors
  <2>2. v \in H!Left /\ v \in out[H!node] /\ v \in V
    BY <1>2, <1>5, <2>1
  <2>3. Key(v) = H!Degree(v)
    BY <1>2, <1>5, <2>2 DEF Key, H!CountedOff
  <2>4. H!node \in InOf(out, v)
    BY <2>1, <2>2 DEF InOf
  <2>5. Cardinality(InOf(out, v)) # 0
    BY <1>4, <2>2, <2>4, FS_EmptySet
  <2>6. H!Degree(v) \in DOMAIN bucket /\ H!Degree(v) - 1 \in DOMAIN bucket
    BY <1>2, <1>4, <2>2, <2>5
  <2> QED  BY <1>1, <2>2, <2>3, <2>6, KeyFound DEF InBucket
<1>6. ASSUME pc = "in", NEW v \in todo
      PROVE  InBucket(v, H!Degree(v) - H!Offset(v), H!Degree(v) - H!Offset(v) - 1)
  <2>1. H!node \in V /\ H!In(H!node) \subseteq H!Left /\ todo \subseteq H!In(H!node)
    BY <1>1, <1>6, NeighborsLeft DEF SearchInv, TodoNeighbors
  <2>2. v \in H!Left /\ v \in V /\ H!node \in out[v]
    BY <1>2, <1>6, <2>1 DEF H!In
  <2>3. H!Offset(v) \in {0, 1} /\ Key(v) = H!Degree(v) - H!Offset(v)
    BY <1>2, <1>6, <2>1, <2>2 DEF Key, H!CountedOff, H!Offset
  <2>4. Cardinality(out[v]) # 0
    BY <1>4, <2>2, FS_EmptySet
  <2>5. H!Offset(v) = 1 => H!node \in InOf(out, v)
    BY <2>1, <2>2 DEF H!Offset, InOf
  <2>6. H!Offset(v) = 1 => Cardinality(InOf(out, v)) # 0
    BY <1>4, <2>2, <2>5, FS_EmptySet
  <2>7. H!Degree(v) >= 1 + H!Offset(v)
    BY <1>4, <2>2, <2>3, <2>4, <2>6
  <2>8. H!Degree(v) - H!Offset(v) \in DOMAIN bucket /\ H!Degree(v) - H!Offset(v) - 1 \in DOMAIN bucket
    BY <1>2, <2>2, <2>3, <2>7
  <2> QED  BY <1>1, <2>2, <2>3, <2>8, KeyFound DEF InBucket
<1>7. ASSUME pc = "clique", NEW e \in H!Missing, NEW v \in {e[1], e[2]}
      PROVE  InBucket(v, H!Degree(v), H!Degree(v) + 1)
  <2>1. v \in H!Left /\ v \in V
    BY <1>1, <1>2, <1>7 DEF SearchInv, TodoNeighbors, H!Missing
  <2>2. Key(v) = H!Degree(v)
    BY <1>2, <1>7, <2>1 DEF Key, H!CountedOff
  <2>3. H!Degree(v) \in DOMAIN bucket /\ H!Degree(v) + 1 \in DOMAIN bucket
    BY <1>2, <2>1
  <2> QED  BY <1>1, <2>1, <2>2, <2>3, KeyFound DEF InBucket
<1> QED  BY <1>5, <1>6, <1>7 DEF VerticesFound

(* update_bucket() finds the vertex that it is called for, and a bucket to *)
(* move it to, at each of its calls: it always returns.                    *)
THEOREM PreSolveVerticesFound == PreSpec => []VerticesFound
BY PreInvHolds, FoundInSearch, PTL

-----------------------------------------------------------------------------
(* The graph of a solution: from the incidence graph and back.             *)
Chosen(g, S) == [g EXCEPT !.vlabel = @ \cup {<<v, "solution">> : v \in S}]

(* The vertices and edges of the graph are told apart by their labels.     *)
LEMMA KindsTold ==
  ASSUME NEW g, IsGraph(g), Numbered(g), LabelsFit(g), NEW i, i = IncidenceOf(g),
         NEW S, S \subseteq i.vertices,
         NEW r, r = Chosen(i, S)
  PROVE  /\ r.vertices = i.vertices /\ r.out = i.out
         /\ Labelled(r, "Vertex") = g.vertices /\ Labelled(r, "Edge") = EdgeVertices(g)
         /\ \A p : p \in r.vlabel /\ p[2] \notin {"Vertex", "Edge"} <=>
              \/ p \in g.vlabel
              \/ \E q \in g.elabel : p = <<EdgeVertex(g, q[1]), q[2]>>
              \/ \E v \in S : p = <<v, "solution">>
<1>1. /\ i = [vertices |-> i.vertices, out |-> i.out, vlabel |-> i.vlabel, elabel |-> i.elabel]
      /\ i.vertices = g.vertices \cup EdgeVertices(g)
      /\ g.vertices \cap EdgeVertices(g) = {}
      /\ i.vlabel = g.vlabel \cup {<<v, "Vertex">> : v \in g.vertices}
                      \cup {<<v, "Edge">> : v \in EdgeVertices(g)}
                      \cup {<<[e \in Edges(g) |-> EdgeVertex(g, e)][p[1]], p[2]>> : p \in g.elabel}
  BY IncidenceParts
<1>2. r.vertices = i.vertices /\ r.out = i.out /\ r.vlabel = i.vlabel \cup {<<v, "solution">> : v \in S}
  BY <1>1 DEF Chosen
<1>3. /\ \A p \in g.vlabel : p = <<p[1], p[2]>> /\ p[2] \notin {"Vertex", "Edge"}
      /\ \A p \in g.elabel : p[1] \in Edges(g) /\ p[2] \notin {"Vertex", "Edge"}
  BY DEF LabelsFit
<1>4. \A p : p \in {<<[e \in Edges(g) |-> EdgeVertex(g, e)][q[1]], q[2]>> : q \in g.elabel}
               <=> \E q \in g.elabel : p = <<EdgeVertex(g, q[1]), q[2]>>
  BY <1>3
<1>5. \A p : p \in r.vlabel <=>
        \/ p \in g.vlabel
        \/ \E v \in g.vertices : p = <<v, "Vertex">>
        \/ \E v \in EdgeVertices(g) : p = <<v, "Edge">>
        \/ \E q \in g.elabel : p = <<EdgeVertex(g, q[1]), q[2]>>
        \/ \E v \in S : p = <<v, "solution">>
  BY <1>1, <1>2, <1>4
<1>6. \A p : p \in r.vlabel /\ p[2] \notin {"Vertex", "Edge"} <=>
        \/ p \in g.vlabel
        \/ \E q \in g.elabel : p = <<EdgeVertex(g, q[1]), q[2]>>
        \/ \E v \in S : p = <<v, "solution">>
  BY <1>3, <1>5
<1>7. \A v : <<v, "Vertex">> \in r.vlabel <=> v \in g.vertices
  BY <1>3, <1>5
<1>8. \A v : <<v, "Edge">> \in r.vlabel <=> v \in EdgeVertices(g)
  BY <1>3, <1>5
<1>9. Labelled(r, "Vertex") = g.vertices /\ Labelled(r, "Edge") = EdgeVertices(g)
  BY <1>1, <1>2, <1>7, <1>8 DEF Labelled
<1> QED  BY <1>2, <1>6, <1>9

(* The ends of the vertex of an edge are the ends of the edge.             *)
LEMMA EndsFound ==
  ASSUME NEW g, IsGraph(g), Numbered(g), NEW r, r.vertices = IncidenceOf(g).vertices,
         r.out = IncidenceOf(g).out, NEW e \in Edges(g)
  PROVE  /\ Ends(r, EdgeVertex(g, e)) = e
         /\ \A u \in r.vertices : EdgeVertex(g, e) \in r.out[u] <=> u = e[1]
         /\ \A u \in r.vertices : u \in r.out[EdgeVertex(g, e)] <=> u = e[2]
<1> DEFINE w == EdgeVertex(g, e)
           i == IncidenceOf(g)
<1>1. /\ i.vertices = g.vertices \cup EdgeVertices(g)
      /\ g.vertices \cap EdgeVertices(g) = {}
      /\ i.out = [v \in i.vertices |->
                    {EdgeVertex(g, f) : f \in {h \in Edges(g) : h[1] = v}}
                      \cup {f[2] : f \in {h \in Edges(g) : EdgeVertex(g, h) = v}}]
  BY IncidenceParts
<1>2. r.vertices = i.vertices /\ r.out = i.out
  OBVIOUS
<1> HIDE DEF i
<1>3. w \in EdgeVertices(g) /\ w \in r.vertices /\ w \notin g.vertices
  BY <1>1, <1>2 DEF EdgeVertices
<1>4. \A f \in Edges(g) : /\ f = <<f[1], f[2]>> /\ f[1] \in g.vertices /\ f[2] \in g.vertices
                          /\ EdgeVertex(g, f) = w => f = e
  BY EdgeEnds, EdgeVertexInjective
<1>5. \A u \in r.vertices : w \in r.out[u] <=> u = e[1]
  BY <1>1, <1>2, <1>3, <1>4
<1>6. \A u \in r.vertices : u \in r.out[w] <=> u = e[2]
  BY <1>1, <1>2, <1>3, <1>4
<1>7. e[1] \in r.vertices /\ e[2] \in r.vertices
  BY <1>1, <1>2, <1>4
<1>8. (CHOOSE u \in r.vertices : w \in r.out[u]) = e[1]
  BY <1>5, <1>7
<1>9. (CHOOSE u \in r.vertices : u \in r.out[w]) = e[2]
  BY <1>6, <1>7
<1>10. Ends(r, w) = e
  BY <1>4, <1>8, <1>9 DEF Ends
<1> QED  BY <1>5, <1>6, <1>10

(* The vertices get their numbers again.                                   *)
LEMMA NumbersAgain ==
  ASSUME NEW g, IsGraph(g), Numbered(g), NEW v \in g.vertices
  PROVE  Cardinality({u \in g.vertices : u <= v}) = v
<1>1. g.vertices = 1 .. Cardinality(g.vertices) /\ Cardinality(g.vertices) \in Nat
  BY FS_CardinalityType DEF IsGraph, Numbered
<1>2. {u \in g.vertices : u <= v} = 1 .. v /\ v \in Nat \ {0}
  BY <1>1
<1>3. Cardinality(1 .. v) = v
  BY <1>2, FS_Interval
<1> QED  BY <1>2, <1>3

WithSolution(g, S) ==
  [g EXCEPT
     !.vlabel = @ \cup {<<v, "solution">> : v \in S \cap g.vertices},
     !.elabel = @ \cup {<<e, "solution">> : e \in {f \in Edges(g) :
                   \E w \in S : w \in IncidenceOf(g).out[f[1]] /\ f[2] \in IncidenceOf(g).out[w]
                                  /\ w \notin g.vertices}}]

LEMMA ThereAndBack ==
  ASSUME NEW g, IsGraph(g), Numbered(g), LabelsFit(g), NEW i, i = IncidenceOf(g),
         NEW S, S \subseteq i.vertices,
         NEW r, r = Chosen(i, S)
  PROVE  AdjacencyOf(r) = WithSolution(g, S)
<1>1. /\ i.vertices = g.vertices \cup EdgeVertices(g)
      /\ g.vertices \cap EdgeVertices(g) = {}
  BY IncidenceParts
<1>2. /\ r.vertices = i.vertices /\ r.out = i.out
      /\ Labelled(r, "Vertex") = g.vertices /\ Labelled(r, "Edge") = EdgeVertices(g)
      /\ \A p : p \in r.vlabel /\ p[2] \notin {"Vertex", "Edge"} <=>
           \/ p \in g.vlabel
           \/ \E q \in g.elabel : p = <<EdgeVertex(g, q[1]), q[2]>>
           \/ \E v \in S : p = <<v, "solution">>
  BY KindsTold
<1>3. ASSUME NEW e \in Edges(g)
      PROVE  /\ Ends(r, EdgeVertex(g, e)) = e
             /\ \A u \in r.vertices : EdgeVertex(g, e) \in r.out[u] <=> u = e[1]
             /\ \A u \in r.vertices : u \in r.out[EdgeVertex(g, e)] <=> u = e[2]
  <2>1. r.vertices = IncidenceOf(g).vertices /\ r.out = IncidenceOf(g).out
    BY <1>2
  <2> QED  BY <2>1, EndsFound
<1>4. \A e \in Edges(g) : /\ e = <<e[1], e[2]>> /\ e[1] \in g.vertices /\ e[2] \in g.vertices
                          /\ EdgeVertex(g, e) \in EdgeVertices(g)
  <2>1. ASSUME NEW e \in Edges(g)
        PROVE  e = <<e[1], e[2]>> /\ e[1] \in g.vertices /\ e[2] \in g.vertices
    BY EdgeEnds
  <2> QED  BY <2>1 DEF EdgeVertices
<1> DEFINE W == Labelled(r, "Vertex")
           new(v) == Cardinality({u \in W : u <= v})
           edge == [w \in Labelled(r, "Edge") |-> <<new(Ends(r, w)[1]), new(Ends(r, w)[2])>>]
           own == {p \in r.vlabel : p[2] \notin {"Vertex", "Edge"}}
           vs == {new(v) : v \in W}
           os == [v \in {new(u) : u \in W} |-> {edge[w][2] : w \in {e \in DOMAIN edge : edge[e][1] = v}}]
           vl == {<<new(p[1]), p[2]>> : p \in {q \in own : q[1] \in W}}
           el == {<<edge[p[1]], p[2]>> : p \in {q \in own : q[1] \in DOMAIN edge}}
<1>5. AdjacencyOf(r) = [vertices |-> vs, out |-> os, vlabel |-> vl, elabel |-> el]
  BY DEF AdjacencyOf
<1>6. W = g.vertices /\ \A v \in g.vertices : new(v) = v
  BY <1>2, NumbersAgain
<1>7. DOMAIN edge = EdgeVertices(g)
  BY <1>2
<1>8. \A e \in Edges(g) : edge[EdgeVertex(g, e)] = e
  <2>1. ASSUME NEW e \in Edges(g) PROVE edge[EdgeVertex(g, e)] = e
    <3> DEFINE w == EdgeVertex(g, e)
    <3>1. edge[w] = <<new(Ends(r, w)[1]), new(Ends(r, w)[2])>>
      BY <1>2, <1>4
    <3>2. Ends(r, w) = e /\ new(e[1]) = e[1] /\ new(e[2]) = e[2] /\ e = <<e[1], e[2]>>
      BY <1>3, <1>4, <1>6
    <3> HIDE DEF edge, new
    <3> QED  BY <3>1, <3>2
  <2> QED  BY <2>1
<1>9. \A p : p \in own <=> \/ p \in g.vlabel
                           \/ \E q \in g.elabel : p = <<EdgeVertex(g, q[1]), q[2]>>
                           \/ \E v \in S : p = <<v, "solution">>
  BY <1>2
<1> HIDE DEF W, new, edge, own
<1>10. vs = g.vertices
  BY <1>6
<1>11. \A w : w \in EdgeVertices(g) <=> \E e \in Edges(g) : w = EdgeVertex(g, e)
  BY DEF EdgeVertices
<1>12. os = g.out
  <2>1. g.out = [v \in g.vertices |-> g.out[v]] /\ \A v \in g.vertices : g.out[v] \subseteq g.vertices
    BY DEF IsGraph
  <2>2. ASSUME NEW v \in g.vertices
        PROVE  {edge[w][2] : w \in {e \in DOMAIN edge : edge[e][1] = v}} = g.out[v]
    <3>1. ASSUME NEW w \in DOMAIN edge, edge[w][1] = v PROVE edge[w][2] \in g.out[v]
      <4>1. PICK e \in Edges(g) : w = EdgeVertex(g, e)
        BY <1>7, <1>11, <3>1
      <4>2. edge[w] = e
        BY <1>8, <4>1
      <4> QED  BY <3>1, <4>2 DEF Edges
    <3>2. ASSUME NEW x \in g.out[v] PROVE \E w \in DOMAIN edge : edge[w][1] = v /\ edge[w][2] = x
      <4>1. <<v, x>> \in Edges(g)
        BY <2>1 DEF Edges
      <4>2. EdgeVertex(g, <<v, x>>) \in DOMAIN edge /\ edge[EdgeVertex(g, <<v, x>>)] = <<v, x>>
        BY <1>4, <1>7, <1>8, <4>1
      <4> QED  BY <4>2
    <3> QED  BY <3>1, <3>2
  <2>3. vs = {new(u) : u \in W}
    OBVIOUS
  <2> QED  BY <1>10, <2>1, <2>2, <2>3
<1>13. \A p \in g.vlabel : p = <<p[1], p[2]>> /\ p[1] \in g.vertices
  BY DEF LabelsFit
<1>14. \A p \in g.elabel : p = <<p[1], p[2]>> /\ p[1] \in Edges(g)
  BY DEF LabelsFit
<1>15. vl = g.vlabel \cup {<<v, "solution">> : v \in S \cap g.vertices}
  <2>1. \A p : p \in vl <=> \E q \in own : q[1] \in g.vertices /\ p = <<q[1], q[2]>>
    BY <1>6
  <2>2. ASSUME NEW q \in own, q[1] \in g.vertices
        PROVE  <<q[1], q[2]>> \in g.vlabel \cup {<<v, "solution">> : v \in S \cap g.vertices}
    <3>1. CASE q \in g.vlabel
      BY <1>13, <3>1
    <3>2. CASE \E p \in g.elabel : q = <<EdgeVertex(g, p[1]), p[2]>>
      BY <1>1, <1>4, <1>14, <2>2, <3>2
    <3>3. CASE \E v \in S : q = <<v, "solution">>
      BY <2>2, <3>3
    <3> QED  BY <1>9, <3>1, <3>2, <3>3
  <2>3. ASSUME NEW p \in g.vlabel PROVE p \in vl
    BY <1>9, <1>13, <2>1
  <2>4. ASSUME NEW v \in S \cap g.vertices PROVE <<v, "solution">> \in vl
    <3>1. <<v, "solution">> \in own
      BY <1>9
    <3> QED  BY <2>1, <3>1
  <2> HIDE DEF vl
  <2> QED  BY <2>1, <2>2, <2>3, <2>4
<1>16. ASSUME NEW e \in Edges(g)
       PROVE  EdgeVertex(g, e) \in S <=>
                \E w \in S : w \in i.out[e[1]] /\ e[2] \in i.out[w] /\ w \notin g.vertices
  <2>1. ASSUME EdgeVertex(g, e) \in S
        PROVE  \E w \in S : w \in i.out[e[1]] /\ e[2] \in i.out[w] /\ w \notin g.vertices
    <3>1. EdgeVertex(g, e) \notin g.vertices /\ e[1] \in r.vertices /\ e[2] \in r.vertices
      BY <1>1, <1>2, <1>4
    <3>2. EdgeVertex(g, e) \in r.out[e[1]] /\ e[2] \in r.out[EdgeVertex(g, e)]
      BY <1>3, <3>1
    <3> QED  BY <1>2, <2>1, <3>1, <3>2
  <2>2. ASSUME NEW w \in S, w \in i.out[e[1]], e[2] \in i.out[w], w \notin g.vertices
        PROVE  EdgeVertex(g, e) \in S
    <3>1. w \in EdgeVertices(g)
      BY <1>1, <2>2
    <3>2. PICK f \in Edges(g) : w = EdgeVertex(g, f)
      BY <1>11, <3>1
    <3>3. e[1] \in r.vertices /\ e[2] \in r.vertices
      BY <1>1, <1>2, <1>4
    <3>4. e[1] = f[1] /\ e[2] = f[2]
      BY <1>2, <1>3, <2>2, <3>2, <3>3
    <3>5. e = f
      BY <1>4, <3>4
    <3> QED  BY <2>2, <3>2, <3>5
  <2> QED  BY <2>1, <2>2
<1> DEFINE chosen == {f \in Edges(g) : \E w \in S : w \in i.out[f[1]] /\ f[2] \in i.out[w]
                                                      /\ w \notin g.vertices}
<1>17. chosen = {f \in Edges(g) : EdgeVertex(g, f) \in S}
  BY <1>16
<1> HIDE DEF chosen
<1>18. el = g.elabel \cup {<<e, "solution">> : e \in chosen}
  <2>1. \A p : p \in el <=> \E q \in own : q[1] \in EdgeVertices(g) /\ p = <<edge[q[1]], q[2]>>
    BY <1>7
  <2>2. ASSUME NEW q \in own, q[1] \in EdgeVertices(g)
        PROVE  <<edge[q[1]], q[2]>> \in g.elabel \cup {<<e, "solution">> : e \in chosen}
    <3>1. CASE q \in g.vlabel
      BY <1>1, <1>13, <2>2, <3>1
    <3>2. CASE \E p \in g.elabel : q = <<EdgeVertex(g, p[1]), p[2]>>
      <4>1. PICK p \in g.elabel : q = <<EdgeVertex(g, p[1]), p[2]>>
        BY <3>2
      <4>2. edge[q[1]] = p[1] /\ q[2] = p[2] /\ p = <<p[1], p[2]>>
        BY <1>8, <1>14, <4>1
      <4> QED  BY <4>1, <4>2
    <3>3. CASE \E v \in S : q = <<v, "solution">>
      <4>1. PICK e \in Edges(g) : q[1] = EdgeVertex(g, e)
        BY <1>11, <2>2
      <4>2. q[1] \in S /\ q[2] = "solution"
        BY <3>3
      <4>3. e \in chosen /\ edge[q[1]] = e
        BY <1>8, <1>17, <4>1, <4>2
      <4> QED  BY <4>2, <4>3
    <3> QED  BY <1>9, <3>1, <3>2, <3>3
  <2>3. ASSUME NEW p \in g.elabel PROVE p \in el
    <3>1. <<EdgeVertex(g, p[1]), p[2]>> \in own
      BY <1>9
    <3>2. EdgeVertex(g, p[1]) \in EdgeVertices(g) /\ edge[EdgeVertex(g, p[1])] = p[1]
      BY <1>4, <1>8, <1>14
    <3>3. p = <<p[1], p[2]>>
      BY <1>14
    <3> HIDE DEF el
    <3> QED  BY <2>1, <3>1, <3>2, <3>3
  <2>4. ASSUME NEW e \in chosen PROVE <<e, "solution">> \in el
    <3>1. e \in Edges(g) /\ EdgeVertex(g, e) \in S
      BY <1>17
    <3>2. <<EdgeVertex(g, e), "solution">> \in own
      BY <1>9, <3>1
    <3>3. EdgeVertex(g, e) \in EdgeVertices(g) /\ edge[EdgeVertex(g, e)] = e
      BY <1>4, <1>8, <3>1
    <3> HIDE DEF el
    <3> QED  BY <2>1, <3>2, <3>3
  <2> HIDE DEF el
  <2> QED  BY <2>1, <2>2, <2>3, <2>4
<1>19. WithSolution(g, S) =
         [vertices |-> g.vertices, out |-> g.out,
          vlabel |-> g.vlabel \cup {<<v, "solution">> : v \in S \cap g.vertices},
          elabel |-> g.elabel \cup {<<e, "solution">> : e \in chosen}]
  <2>1. g = [vertices |-> g.vertices, out |-> g.out, vlabel |-> g.vlabel, elabel |-> g.elabel]
    BY DEF IsGraph
  <2>2. WithSolution(g, S) =
          [g EXCEPT !.vlabel = @ \cup {<<v, "solution">> : v \in S \cap g.vertices},
                    !.elabel = @ \cup {<<e, "solution">> : e \in chosen}]
    BY Zenon DEF WithSolution, chosen
  <2> QED  BY <2>1, <2>2
<1> HIDE DEF vs, os, vl, el
<1> QED  BY <1>5, <1>10, <1>12, <1>15, <1>18, <1>19, Zenon

-----------------------------------------------------------------------------
(* Once it is set up, the graph that is played on is the one given or its  *)
(* incidence graph, until the facade's solver is given another one.        *)
GraphPrepared ==
  stage \notin {"setup", "aborted"} => graph = IF incidence THEN IncidenceOf(orig) ELSE orig

LEMMA GraphPreparedStep == GraphPrepared /\ [PreNext]_preVars => GraphPrepared'
<1> SUFFICES ASSUME GraphPrepared, [PreNext]_preVars PROVE GraphPrepared'
  OBVIOUS
<1>1. CASE KeepGraph \/ MakeIncidence \/ ExtendLoaded \/ NoHost
  BY <1>1 DEF GraphPrepared, KeepGraph, MakeIncidence, ExtendLoaded, NoHost, Setup, caseVars
<1>2. CASE \/ EmptyGraph \/ Begin \/ Take \/ UpdateOut \/ OutDone \/ UpdateIn
           \/ Clear \/ AddEdge \/ Eliminated \/ AddNode
  <2>1. UNCHANGED <<orig, incidence, stage>>
    BY <1>2 DEF Generating, caseVars,
           EmptyGraph, Begin, Take, UpdateOut, OutDone, UpdateIn, Clear, AddEdge, Eliminated, AddNode
  <2>2. graph' = graph
    BY <1>2 DEF EmptyGraph, Begin, Take, UpdateOut, OutDone, UpdateIn, Clear, AddEdge, Eliminated, AddNode,
         H!EmptyGraph, H!Begin, H!Take, H!UpdateOut, H!OutDone, H!UpdateIn, H!Clear, H!AddEdge,
         H!Eliminated, H!AddNode, H!graphVars
  <2> QED  BY <2>1, <2>2 DEF GraphPrepared
<1>3. CASE Generated \/ MadeNice
  BY <1>3 DEF Generated, MadeNice, GraphPrepared, caseVars
<1>4. CASE \/ NiceLeaf \/ NiceBinary \/ NiceJoins \/ NiceBetween \/ NiceAdvance
  BY <1>4 DEF NiceLeaf, NiceBinary, NiceJoins, NiceBetween, NiceAdvance, Repairing, caseVars, GraphPrepared
<1>5. CASE \/ CheckStart \/ CheckTree \/ CheckVertices \/ CheckEdges
           \/ CheckConnected \/ CheckNice
  <2>1. UNCHANGED <<orig, incidence, graph>>
    BY <1>5 DEF Checking, caseVars,
                CheckStart, CheckTree, CheckVertices, CheckEdges, CheckConnected, CheckNice
  <2>2. stage \notin {"setup", "aborted"}
    BY <1>5 DEF CheckStart, CheckTree, CheckVertices, CheckEdges, CheckConnected, CheckNice,
                C!Start, C!TestTree, C!TestVertices, C!TestEdges, C!TestConnected, C!TestNice
  <2> QED  BY <2>1, <2>2 DEF GraphPrepared
<1>6. CASE AddVertex \/ AddArc
  BY <1>6 DEF AddVertex, AddArc, Grows, caseVars, GraphPrepared
<1>7. CASE SolveAgain
  BY <1>7 DEF SolveAgain, GraphPrepared
<1>8. CASE Finished \/ UNCHANGED preVars
  BY <1>8 DEF Finished, preVars, caseVars, GraphPrepared
<1> QED  BY <1>1, <1>2, <1>3, <1>4, <1>5, <1>6, <1>7, <1>8 DEF PreNext

LEMMA GraphPreparedHolds == PreSpec => []GraphPrepared
<1>1. PreInit => GraphPrepared
  BY DEF PreInit, GraphPrepared
<1> QED  BY <1>1, GraphPreparedStep, PTL DEF PreSpec

LEMMA ComesBack == PreInv /\ GraphPrepared => SolutionComesBack
<1> SUFFICES ASSUME PreInv, GraphPrepared, stage \in {"ok", "unchecked"},
                    NEW S \in SUBSET graph.vertices
             PROVE  SolutionGraph(S) =
                      [orig EXCEPT
                         !.vlabel = @ \cup {<<v, "solution">> : v \in S \cap orig.vertices},
                         !.elabel = @ \cup {<<e, "solution">> : e \in {f \in Edges(orig) :
                                       \E w \in S : w \in graph.out[f[1]] /\ f[2] \in graph.out[w]
                                                      /\ w \notin orig.vertices}}]
  BY Zenon DEF SolutionComesBack
<1>1. IsGraph(orig) /\ Numbered(orig) /\ LabelsFit(orig)
  BY DEF PreInv
<1>2. graph = IF incidence THEN IncidenceOf(orig) ELSE orig
  BY DEF GraphPrepared
<1>3. CASE incidence
  <2>1. graph = IncidenceOf(orig)
    BY <1>2, <1>3
  <2>2. AdjacencyOf(Chosen(graph, S)) = WithSolution(orig, S)
    BY <1>1, <2>1, ThereAndBack
  <2>3. SolutionGraph(S) = AdjacencyOf(Chosen(graph, S))
    BY <1>3, Zenon DEF SolutionGraph, Chosen
  <2> QED  BY <2>1, <2>2, <2>3, Zenon DEF WithSolution
<1>4. CASE ~incidence
  <2>1. graph = orig
    BY <1>2, <1>4
  <2>2. SolutionGraph(S) = [orig EXCEPT !.vlabel = @ \cup {<<v, "solution">> : v \in S}]
    BY <1>4, <2>1, Zenon DEF SolutionGraph
  <2>3. S \cap orig.vertices = S
    BY <2>1
  <2> DEFINE none == {f \in Edges(orig) :
                        \E w \in S : w \in graph.out[f[1]] /\ f[2] \in graph.out[w] /\ w \notin orig.vertices}
  <2>4. none = {}
    BY <2>1
  <2> HIDE DEF none
  <2>5. orig.elabel \cup {<<e, "solution">> : e \in none} = orig.elabel
    BY <2>4
  <2>6. orig = [vertices |-> orig.vertices, out |-> orig.out, vlabel |-> orig.vlabel, elabel |-> orig.elabel]
    BY <1>1 DEF IsGraph
  <2>7. [orig EXCEPT !.vlabel = @ \cup {<<v, "solution">> : v \in S}] =
          [orig EXCEPT !.vlabel = @ \cup {<<v, "solution">> : v \in S \cap orig.vertices},
                       !.elabel = @ \cup {<<e, "solution">> : e \in none}]
    BY <2>3, <2>5, <2>6
  <2> QED  BY <2>2, <2>7, Zenon DEF none
<1> QED  BY <1>3, <1>4

(* Whatever a solver chooses of the graph it played on, its solution graph *)
(* is the graph given with the chosen vertices and edges labelled, and all *)
(* other labels back: for every graph, with or without an incidence graph. *)
THEOREM PreSolveSolutionComesBack == PreSpec => []SolutionComesBack
BY PreInvHolds, GraphPreparedHolds, ComesBack, PTL

-----------------------------------------------------------------------------
(***************************************************************************)
(* That the solver works on a tree decomposition of its graph: what is     *)
(* generated is one, and neither the incidence graph nor make_nice() spoil *)
(* one that was given, or make one of something that is none.              *)
(***************************************************************************)
(* The nodes reached from the root are the smallest closed set that holds  *)
(* it.  (It need not be a node: it is 0 as long as none is found.)         *)
ClosedIn(T, P) == \A u \in P : \A v \in T.node : v \in T.kids[u] => v \in P

(* The edges that leave a set.                                             *)
NextOf(T, P) == {v \in T.node \ P : \E u \in P : v \in T.kids[u]}

(* The recursive function of ReachedFrom, which follows them to the end.   *)
IsClosing(T, Close) ==
  Close = [P \in SUBSET ({T.root} \cup T.node) |->
             IF NextOf(T, P) = {} THEN P ELSE Close[P \cup NextOf(T, P)]]

LEMMA ClosingExists == ASSUME NEW T PROVE \E Close : IsClosing(T, Close)
<1> DEFINE N == {T.root} \cup T.node
           next(P) == {v \in T.node \ P : \E u \in P : v \in T.kids[u]}
           F(f) == [P \in SUBSET N |-> IF next(P) = {} THEN P ELSE f[P \cup next(P)]]
           Hull(P) == {v \in N : \A Q \in SUBSET N : P \subseteq Q /\ next(Q) = {} => v \in Q}
           g == [P \in SUBSET N |-> Hull(P)]
<1>1. ASSUME NEW P \in SUBSET N PROVE P \cup next(P) \in SUBSET N
  OBVIOUS
<1>2. ASSUME NEW P \in SUBSET N, next(P) = {} PROVE Hull(P) = P
  BY <1>2
<1>3. ASSUME NEW P \in SUBSET N PROVE Hull(P) = Hull(P \cup next(P))
  <2>1. ASSUME NEW Q \in SUBSET N, P \subseteq Q, next(Q) = {} PROVE next(P) \subseteq Q
    BY <2>1
  <2> HIDE DEF next
  <2> QED  BY <2>1
<1>4. g = F(g)
  <2>1. ASSUME NEW P \in SUBSET N PROVE g[P] = F(g)[P]
    <3>1. CASE next(P) = {}
      <4> HIDE DEF next, Hull
      <4> QED BY <1>2, <3>1
    <3>2. CASE next(P) # {}
      <4> HIDE DEF next, Hull
      <4> QED BY <1>1, <1>3, <3>2
    <3> QED BY <3>1, <3>2
  <2> HIDE DEF next, Hull
  <2> QED BY <2>1
<1> HIDE DEF g
<1>5. \E f : f = F(f)
  BY <1>4
<1> QED BY <1>5 DEF IsClosing, NextOf

LEMMA ReachedIs ==
  ASSUME NEW T
  PROVE  \E Close : IsClosing(T, Close) /\ Reached(T) = Close[{T.root}]
<1> DEFINE next(P) == {v \in T.node \ P : \E u \in P : v \in T.kids[u]}
           F(f) == [P \in SUBSET ({T.root} \cup T.node) |->
                      IF next(P) = {} THEN P ELSE f[P \cup next(P)]]
           Close == CHOOSE f : f = F(f)
<1>1. \E f : f = F(f)
  BY ClosingExists DEF IsClosing, NextOf
<1>2. Close = F(Close)
  <2> HIDE DEF F
  <2> QED BY <1>1
<1>3. Reached(T) = Close[{T.root}]
  BY DEF Reached, ReachedFrom
<1> HIDE DEF Close
<1> QED BY <1>2, <1>3 DEF IsClosing, NextOf

LEMMA CloseIsLeast ==
  ASSUME NEW T, IsFiniteSet(T.node), NEW Close,
         IsClosing(T, Close)
  PROVE  \A P \in SUBSET ({T.root} \cup T.node) :
           /\ Close[P] \in SUBSET ({T.root} \cup T.node)
           /\ P \subseteq Close[P] /\ NextOf(T, Close[P]) = {}
           /\ \A Q \in SUBSET ({T.root} \cup T.node) :
                P \subseteq Q /\ NextOf(T, Q) = {} => Close[P] \subseteq Q
<1> DEFINE N == {T.root} \cup T.node
           Good(P) == /\ Close[P] \in SUBSET N /\ P \subseteq Close[P] /\ NextOf(T, Close[P]) = {}
                      /\ \A Q \in SUBSET N : P \subseteq Q /\ NextOf(T, Q) = {} => Close[P] \subseteq Q
           Bad == {P \in SUBSET N : ~Good(P)}
           Sizes == {Cardinality(N \ P) : P \in Bad}
<1>0. SUFFICES ASSUME Bad # {} PROVE FALSE
  <2>1. Bad = {}
    OBVIOUS
  <2>2. \A P \in SUBSET N : Good(P)
    <3> HIDE DEF Good
    <3> QED BY <2>1
  <2> QED BY <2>2
<1>7. IsFiniteSet(N)
  <2>1. IsFiniteSet({T.root})
    BY FS_Singleton
  <2> QED BY <2>1, FS_Union
<1>1. Sizes \subseteq Nat /\ Sizes # {}
  <2> HIDE DEF N
  <2>1. \A P \in SUBSET N : Cardinality(N \ P) \in Nat
    <3>1. \A P \in SUBSET N : IsFiniteSet(N \ P)
      BY <1>7, FS_Difference
    <3> QED BY <3>1, FS_CardinalityType
  <2>2. \A P \in Bad : P \in SUBSET N
    OBVIOUS
  <2> HIDE DEF Bad
  <2> QED BY <1>0, <2>1, <2>2
<1>2. PICK k \in Sizes : \A j \in Sizes : k <= j
  <2> HIDE DEF Sizes
  <2> QED BY <1>1, NatMin
<1>3. PICK P \in Bad : k = Cardinality(N \ P)
  OBVIOUS
<1>4. P \in SUBSET N /\ Close[P] = IF NextOf(T, P) = {} THEN P ELSE Close[P \cup NextOf(T, P)]
  BY DEF IsClosing
<1>5. CASE NextOf(T, P) = {}
  BY <1>3, <1>4, <1>5
<1>6. CASE NextOf(T, P) # {}
  <2> DEFINE R == P \cup NextOf(T, P)
  <2>1. R \in SUBSET N /\ P \subseteq R
    BY <1>4 DEF NextOf
  <2>2. \A Q \in SUBSET N : P \subseteq Q /\ NextOf(T, Q) = {} => R \subseteq Q
    BY DEF NextOf
  <2>3. Cardinality(N \ R) < Cardinality(N \ P)
    <3>1. PICK v \in NextOf(T, P) : TRUE
      BY <1>6
    <3>2. v \in N \ P /\ v \notin N \ R
      BY <3>1 DEF NextOf
    <3>3. N \ R \subseteq N \ P /\ N \ R # N \ P
      BY <2>1, <3>2
    <3>4. IsFiniteSet(N \ P)
      <4> HIDE DEF N
      <4> QED BY <1>7, FS_Difference
    <3>5. N \ R \in SUBSET (N \ P)
      BY <3>3
    <3>6. /\ Cardinality(N \ R) <= Cardinality(N \ P)
          /\ Cardinality(N \ P) = Cardinality(N \ R) => N \ P = N \ R
          /\ IsFiniteSet(N \ R)
      BY <3>4, <3>5, FS_Subset
    <3>7. Cardinality(N \ R) \in Nat /\ Cardinality(N \ P) \in Nat
      BY <3>4, <3>6, FS_CardinalityType
    <3> QED BY <3>3, <3>6, <3>7
  <2>4. R \notin Bad
    <3> SUFFICES ASSUME R \in Bad PROVE FALSE
      OBVIOUS
    <3>1. Cardinality(N \ R) \in Sizes
      <4> HIDE DEF Bad, R
      <4> QED OBVIOUS
    <3>2. Cardinality(N \ P) <= Cardinality(N \ R)
      <4> HIDE DEF Sizes
      <4> QED BY <1>2, <1>3, <3>1
    <3>3. Cardinality(N \ P) \in Nat /\ Cardinality(N \ R) \in Nat
      <4> HIDE DEF N
      <4> QED BY <1>7, FS_Difference, FS_CardinalityType
    <3> QED BY <2>3, <3>2, <3>3
  <2>5. Good(R)
    BY <2>1, <2>4
  <2>6. Close[P] = Close[R]
    BY <1>4, <1>6
  <2>7. Good(P)
    <3> HIDE DEF R
    <3> QED BY <2>1, <2>2, <2>5, <2>6
  <2> QED BY <1>3, <2>7
<1> QED BY <1>5, <1>6

LEMMA ReachedAll ==
  ASSUME NEW T, IsFiniteSet(T.node), T.root \in T.node
  PROVE  Reached(T) = T.node
           <=> \A P \in SUBSET T.node : T.root \in P /\ ClosedIn(T, P) => P = T.node
<1>2. PICK Close : IsClosing(T, Close) /\ Reached(T) = Close[{T.root}]
  BY ReachedIs
<1>3. {T.root} \in SUBSET T.node /\ {T.root} \cup T.node = T.node
  OBVIOUS
<1>6. \A P \in SUBSET T.node :
        /\ Close[P] \in SUBSET T.node /\ P \subseteq Close[P] /\ NextOf(T, Close[P]) = {}
        /\ \A Q \in SUBSET T.node : P \subseteq Q /\ NextOf(T, Q) = {} => Close[P] \subseteq Q
  BY <1>2, <1>3, CloseIsLeast
<1>7. /\ Close[{T.root}] \in SUBSET T.node /\ {T.root} \subseteq Close[{T.root}]
      /\ NextOf(T, Close[{T.root}]) = {}
      /\ \A Q \in SUBSET T.node : {T.root} \subseteq Q /\ NextOf(T, Q) = {} => Close[{T.root}] \subseteq Q
  BY <1>3, <1>6, Zenon
<1>4. /\ Reached(T) \in SUBSET T.node /\ {T.root} \subseteq Reached(T)
      /\ NextOf(T, Reached(T)) = {}
      /\ \A Q \in SUBSET T.node : {T.root} \subseteq Q /\ NextOf(T, Q) = {} => Reached(T) \subseteq Q
  BY <1>2, <1>7, Zenon
<1>5. \A Q \in SUBSET T.node : NextOf(T, Q) = {} <=> ClosedIn(T, Q)
  BY DEF NextOf, ClosedIn
<1> QED BY <1>4, <1>5

LEMMA RootReached ==
  ASSUME NEW T, IsFiniteSet(T.node)
  PROVE  T.root \in Reached(T)
<1>2. PICK Close : IsClosing(T, Close) /\ Reached(T) = Close[{T.root}]
  BY ReachedIs
<1>3. {T.root} \subseteq Close[{T.root}]
  BY <1>2, CloseIsLeast
<1> QED BY <1>2, <1>3

-----------------------------------------------------------------------------
(* Tree decompositions without cardinalities and recursion.                *)
Rooted(T) ==
  /\ Parents(T, T.root) = {}
  /\ \A v \in T.node \ {T.root} : \E p : Parents(T, v) = {p}
  /\ \A P \in SUBSET T.node : T.root \in P /\ ClosedIn(T, P) => P = T.node

OneTop(T, x) == \E t : Topmost(T, x) = {t}

Decomp(T, g) == Rooted(T) /\ Covers(T, g) /\ \A x \in g.vertex : OneTop(T, x)

LEMMA SingleSet ==
  ASSUME NEW S, IsFiniteSet(S)
  PROVE  Cardinality(S) = 1 <=> \E x : S = {x}
BY FS_Singleton

LEMMA DecompIs ==
  ASSUME NEW T, IsFiniteSet(T.node), T.root \in T.node, NEW g
  PROVE  IsTreeDecomposition(T, g) <=> Decomp(T, g)
<1>1. ASSUME NEW v PROVE Cardinality(Parents(T, v)) = 1 <=> \E p : Parents(T, v) = {p}
  <2>1. Parents(T, v) \in SUBSET T.node
    BY DEF Parents
  <2>2. IsFiniteSet(Parents(T, v))
    BY <2>1, FS_Subset
  <2> QED BY <2>2, SingleSet
<1>2. ASSUME NEW x PROVE Cardinality(Topmost(T, x)) = 1 <=> OneTop(T, x)
  <2>1. Topmost(T, x) \in SUBSET T.node
    BY DEF Topmost, Holding
  <2>2. IsFiniteSet(Topmost(T, x))
    BY <2>1, FS_Subset
  <2> QED BY <2>2, SingleSet DEF OneTop
<1>3. IsRootedTree(T) <=> Rooted(T)
  BY <1>1, ReachedAll DEF IsRootedTree, Rooted
<1> QED BY <1>2, <1>3 DEF IsTreeDecomposition, Decomp

-----------------------------------------------------------------------------
(***************************************************************************)
(* What every repair does: new nodes are put between a node w and some of  *)
(* its children, D, each of which goes below one of them; a new bag lies   *)
(* within that of w or of its only child, and holds what w shares with a   *)
(* child of it.                                                            *)
(***************************************************************************)
Subdivides(T, U, w, D, New) ==
  /\ U.node = T.node \cup New /\ T.node \cap New = {} /\ U.root = T.root
  /\ w \in T.node /\ D \subseteq T.kids[w]
  /\ \A v \in T.node : T.kids[v] \subseteq T.node
  /\ \A v \in T.node : v # w => U.kids[v] = T.kids[v]
  /\ U.kids[w] = (T.kids[w] \ D) \cup New
  /\ \A m \in New : U.kids[m] \subseteq D
  /\ \A d \in D : \E m \in New : d \in U.kids[m]
  /\ \A l, m \in New : \A d \in D : d \in U.kids[l] /\ d \in U.kids[m] => l = m
  /\ \A v \in T.node : U.bag[v] = T.bag[v]
  /\ \A m \in New : \/ U.bag[m] \subseteq T.bag[w]
                    \/ \E d \in D : U.kids[m] = {d} /\ U.bag[m] \subseteq T.bag[d]
  /\ \A m \in New : \A d \in U.kids[m] : T.bag[w] \cap T.bag[d] \subseteq U.bag[m]

LEMMA SubdividedParents ==
  ASSUME NEW T, NEW U, NEW w, NEW D, NEW New, Subdivides(T, U, w, D, New)
  PROVE  /\ \A v \in T.node : v \notin D => Parents(U, v) = Parents(T, v)
         /\ \A m \in New : Parents(U, m) = {w}
         /\ \A d \in D : /\ w \in Parents(T, d)
                         /\ \E m \in New : d \in U.kids[m] /\ Parents(U, d) = (Parents(T, d) \ {w}) \cup {m}
<1> USE DEF Subdivides, Parents
<1>1. ASSUME NEW v \in T.node, v \notin D PROVE Parents(U, v) = Parents(T, v)
  BY <1>1
<1>2. ASSUME NEW m \in New PROVE Parents(U, m) = {w}
  BY <1>2
<1>3. ASSUME NEW d \in D
      PROVE  /\ w \in Parents(T, d)
             /\ \E m \in New : d \in U.kids[m] /\ Parents(U, d) = (Parents(T, d) \ {w}) \cup {m}
  <2>1. d \in T.kids[w] /\ d \in T.node
    BY <1>3
  <2>2. PICK m \in New : d \in U.kids[m]
    BY <1>3
  <2>3. ASSUME NEW u \in Parents(U, d) PROVE u \in (Parents(T, d) \ {w}) \cup {m}
    BY <2>1, <2>2
  <2>4. ASSUME NEW u \in (Parents(T, d) \ {w}) \cup {m} PROVE u \in Parents(U, d)
    BY <2>1, <2>2
  <2> QED BY <2>1, <2>2, <2>3, <2>4
<1> QED BY <1>1, <1>2, <1>3

LEMMA SubdividedRooted ==
  ASSUME NEW T, NEW U, NEW w, NEW D, NEW New, Subdivides(T, U, w, D, New), T.root \in T.node
  PROVE  Rooted(T) <=> Rooted(U)
<1>1. Parents(T, T.root) = {} <=> Parents(U, U.root) = {}
  <2>1. U.root = T.root
    BY DEF Subdivides
  <2> QED BY <2>1, SubdividedParents
<1>2. (\A v \in T.node \ {T.root} : \E p : Parents(T, v) = {p})
        <=> (\A v \in U.node \ {U.root} : \E p : Parents(U, v) = {p})
  <2>0. U.root = T.root /\ U.node = T.node \cup New /\ T.node \cap New = {} /\ D \subseteq T.node
        /\ w \in T.node
    BY DEF Subdivides
  <2>1. ASSUME NEW d \in D
        PROVE  (\E p : Parents(T, d) = {p}) <=> \E p : Parents(U, d) = {p}
    <3>1. PICK m \in New : Parents(U, d) = (Parents(T, d) \ {w}) \cup {m}
      BY SubdividedParents
    <3>2. w \in Parents(T, d) /\ m \notin Parents(T, d)
      BY <2>0, SubdividedParents DEF Parents
    <3> QED BY <3>1, <3>2
  <2>2. ASSUME NEW v \in T.node, v \notin D PROVE Parents(U, v) = Parents(T, v)
    BY <2>2, SubdividedParents
  <2>3. ASSUME NEW m \in New PROVE \E p : Parents(U, m) = {p}
    BY SubdividedParents
  <2> DEFINE One(X, v) == \E p : Parents(X, v) = {p}
  <2>4. \A v \in T.node : One(T, v) <=> One(U, v)
    BY <2>1, <2>2
  <2>5. \A m \in New : One(U, m)
    BY <2>3
  <2> HIDE DEF One
  <2>6. (\A v \in T.node \ {T.root} : One(T, v)) <=> (\A v \in U.node \ {U.root} : One(U, v))
    BY <2>0, <2>4, <2>5
  <2> QED BY <2>6 DEF One
<1>3. (\A P \in SUBSET T.node : T.root \in P /\ ClosedIn(T, P) => P = T.node)
        <=> (\A P \in SUBSET U.node : U.root \in P /\ ClosedIn(U, P) => P = U.node)
  <2>1. ASSUME \A P \in SUBSET U.node : U.root \in P /\ ClosedIn(U, P) => P = U.node,
               NEW P \in SUBSET T.node, T.root \in P, ClosedIn(T, P)
        PROVE  P = T.node
    <3> DEFINE Q == P \cup (IF w \in P THEN New ELSE {})
    <3>1. Q \in SUBSET U.node /\ U.root \in Q
      BY <2>1 DEF Subdivides
    <3>2. ClosedIn(U, Q)
      BY <2>1 DEF ClosedIn, Subdivides
    <3>3. Q = U.node
      BY <2>1, <3>1, <3>2
    <3> QED BY <3>3 DEF Subdivides
  <2>2. ASSUME \A P \in SUBSET T.node : T.root \in P /\ ClosedIn(T, P) => P = T.node,
               NEW Q \in SUBSET U.node, U.root \in Q, ClosedIn(U, Q)
        PROVE  Q = U.node
    <3> DEFINE P == Q \cap T.node
    <3>1. P \in SUBSET T.node /\ T.root \in P
      BY <2>2 DEF Subdivides
    <3>2. ClosedIn(T, P)
      BY <2>2 DEF ClosedIn, Subdivides
    <3>3. P = T.node
      BY <2>2, <3>1, <3>2
    <3> QED BY <2>2, <3>3 DEF Subdivides, ClosedIn
  <2> QED BY <2>1, <2>2
<1> QED BY <1>1, <1>2, <1>3 DEF Rooted

LEMMA SubdividedCovers ==
  ASSUME NEW T, NEW U, NEW w, NEW D, NEW New, Subdivides(T, U, w, D, New), NEW g
  PROVE  Covers(T, g) <=> Covers(U, g)
<1>1. \A t \in T.node : t \in U.node /\ U.bag[t] = T.bag[t]
  BY DEF Subdivides
<1>2. ASSUME NEW t \in U.node PROVE \E u \in T.node : U.bag[t] \subseteq T.bag[u]
  BY DEF Subdivides
<1>3. UNION {T.bag[t] : t \in T.node} = UNION {U.bag[t] : t \in U.node}
  <2>1. ASSUME NEW t \in T.node PROVE T.bag[t] \subseteq UNION {U.bag[u] : u \in U.node}
    BY <1>1
  <2>2. ASSUME NEW t \in U.node PROVE U.bag[t] \subseteq UNION {T.bag[u] : u \in T.node}
    BY <1>2
  <2> QED BY <2>1, <2>2
<1>4. ASSUME NEW e PROVE (\E t \in T.node : e \subseteq T.bag[t]) <=> \E t \in U.node : e \subseteq U.bag[t]
  BY <1>1, <1>2
<1> QED BY <1>3, <1>4 DEF Covers

(* The topmost node with x in its bag stays, or is the new one above it.   *)
LEMMA SubdividedTop ==
  ASSUME NEW T, NEW U, NEW w, NEW D, NEW New, Subdivides(T, U, w, D, New), T.root \in T.node,
         Rooted(T), NEW x
  PROVE  OneTop(T, x) <=> OneTop(U, x)
<1> DEFINE Top(t) == t \in Topmost(T, x)
           Above(t, u) == u = t \/ (u \in New /\ U.kids[u] = {t} /\ x \in U.bag[u])
<1>0. /\ U.node = T.node \cup New /\ T.node \cap New = {} /\ w \in T.node /\ D \subseteq T.node
      /\ \A v \in T.node : U.bag[v] = T.bag[v]
      /\ \A m \in New : U.kids[m] \subseteq D
      /\ \A m \in New : \/ U.bag[m] \subseteq T.bag[w]
                        \/ \E d \in D : U.kids[m] = {d} /\ U.bag[m] \subseteq T.bag[d]
      /\ \A m \in New : \A d \in U.kids[m] : T.bag[w] \cap T.bag[d] \subseteq U.bag[m]
      /\ \A l, m \in New : \A d \in D : d \in U.kids[l] /\ d \in U.kids[m] => l = m
  BY DEF Subdivides
<1>1. /\ \A v \in T.node : v \notin D => Parents(U, v) = Parents(T, v)
      /\ \A v \in T.node : Parents(T, v) \subseteq T.node
      /\ \A m \in New : Parents(U, m) = {w}
      /\ \A d \in D : \E m \in New : d \in U.kids[m] /\ Parents(U, d) = {m} /\ Parents(T, d) = {w}
  <2>1. ASSUME NEW d \in D
        PROVE  \E m \in New : d \in U.kids[m] /\ Parents(U, d) = {m} /\ Parents(T, d) = {w}
    <3>1. PICK m \in New : d \in U.kids[m] /\ Parents(U, d) = (Parents(T, d) \ {w}) \cup {m}
      BY SubdividedParents
    <3>2. w \in Parents(T, d)
      BY SubdividedParents
    <3>3. d \in T.node \ {T.root}
      BY <1>0, <3>2 DEF Rooted
    <3>4. Parents(T, d) = {w}
      BY <3>2, <3>3 DEF Rooted
    <3> QED BY <3>1, <3>4
  <2>2. /\ \A v \in T.node : v \notin D => Parents(U, v) = Parents(T, v)
        /\ \A m \in New : Parents(U, m) = {w}
    BY SubdividedParents
  <2>3. \A v \in T.node : Parents(T, v) \subseteq T.node
    BY DEF Parents
  <2> QED BY <2>1, <2>2, <2>3
<1>2. \A X, t : t \in Topmost(X, x) <=> t \in X.node /\ x \in X.bag[t] /\ \A p \in Parents(X, t) : x \notin X.bag[p]
  BY DEF Topmost, Holding, Parents
<1>3. ASSUME NEW t \in Topmost(T, x) PROVE \E u \in Topmost(U, x) : u = t \/ (u \in New /\ U.kids[u] = {t})
  <2>1. t \in T.node /\ x \in T.bag[t] /\ \A p \in Parents(T, t) : x \notin T.bag[p]
    BY <1>2
  <2>2. CASE t \notin D
    <3>1. t \in Topmost(U, x)
      BY <1>0, <1>1, <1>2, <2>1, <2>2
    <3> QED BY <3>1
  <2>3. CASE t \in D
    <3>1. PICK m \in New : t \in U.kids[m] /\ Parents(U, t) = {m} /\ Parents(T, t) = {w}
      BY <1>1, <2>3
    <3>2. x \notin T.bag[w]
      BY <2>1, <3>1
    <3>3. CASE x \in U.bag[m]
      <4>1. U.kids[m] = {t}
        BY <1>0, <3>1, <3>2, <3>3
      <4>2. m \in Topmost(U, x)
        BY <1>0, <1>1, <1>2, <3>2, <3>3
      <4> QED BY <4>1, <4>2
    <3>4. CASE x \notin U.bag[m]
      <4>1. t \in Topmost(U, x)
        BY <1>0, <1>2, <2>1, <3>1, <3>4
      <4> QED BY <4>1
    <3> QED BY <3>3, <3>4
  <2> QED BY <2>2, <2>3
<1>4. ASSUME NEW u \in Topmost(U, x) PROVE \E t \in Topmost(T, x) : u = t \/ (u \in New /\ U.kids[u] = {t})
  <2>1. u \in U.node /\ x \in U.bag[u] /\ \A p \in Parents(U, u) : x \notin U.bag[p]
    BY <1>2
  <2>2. CASE u \in T.node /\ u \notin D
    <3>1. u \in Topmost(T, x)
      BY <1>0, <1>1, <1>2, <2>1, <2>2
    <3> QED BY <3>1
  <2>3. CASE u \in D
    <3>1. PICK m \in New : u \in U.kids[m] /\ Parents(U, u) = {m} /\ Parents(T, u) = {w}
      BY <1>1, <2>3
    <3>2. x \notin T.bag[w]
      BY <1>0, <2>1, <2>3, <3>1
    <3>3. u \in Topmost(T, x)
      BY <1>0, <1>2, <2>1, <2>3, <3>1, <3>2
    <3> QED BY <3>3
  <2>4. CASE u \in New
    <3>1. x \notin T.bag[w]
      BY <1>0, <1>1, <2>1, <2>4
    <3>2. PICK d \in D : U.kids[u] = {d} /\ U.bag[u] \subseteq T.bag[d]
      BY <1>0, <2>1, <2>4, <3>1
    <3>3. Parents(T, d) = {w}
      BY <1>1
    <3>4. d \in Topmost(T, x)
      BY <1>0, <1>2, <2>1, <3>1, <3>2, <3>3
    <3> QED BY <2>4, <3>2, <3>4
  <2> QED BY <1>0, <2>1, <2>2, <2>3, <2>4
<1>5. ASSUME NEW t \in Topmost(T, x), NEW u \in Topmost(U, x), NEW v \in Topmost(U, x),
             u = t \/ (u \in New /\ U.kids[u] = {t}), v = t \/ (v \in New /\ U.kids[v] = {t})
      PROVE  u = v
  <2>1. ASSUME NEW p \in New, p \in Topmost(U, x), U.kids[p] = {t}, t \in Topmost(U, x) PROVE FALSE
    <3>1. x \in U.bag[p] /\ t \in D
      BY <1>0, <1>2, <2>1
    <3>2. PICK m \in New : t \in U.kids[m] /\ Parents(U, t) = {m}
      BY <1>1, <3>1
    <3>3. m = p
      BY <1>0, <2>1, <3>1, <3>2
    <3> QED BY <1>2, <2>1, <3>1, <3>2, <3>3
  <2>2. ASSUME NEW p \in New, NEW q \in New, U.kids[p] = {t}, U.kids[q] = {t} PROVE p = q
    BY <1>0, <2>2
  <2> QED BY <1>5, <2>1, <2>2
<1>6. ASSUME NEW s \in Topmost(T, x), NEW t \in Topmost(T, x), NEW u \in Topmost(U, x),
             u = t \/ (u \in New /\ U.kids[u] = {t}), u = s \/ (u \in New /\ U.kids[u] = {s})
      PROVE  s = t
  <2>1. s \in T.node /\ t \in T.node
    BY <1>2
  <2> QED BY <1>0, <1>6, <2>1
<1>7. ASSUME NEW t, Topmost(T, x) = {t} PROVE OneTop(U, x)
  <2>1. PICK u \in Topmost(U, x) : u = t \/ (u \in New /\ U.kids[u] = {t})
    BY <1>3, <1>7
  <2>2. \A v \in Topmost(U, x) : v = u
    BY <1>4, <1>5, <1>7, <2>1
  <2>3. Topmost(U, x) = {u}
    BY <2>1, <2>2
  <2> QED BY <2>3 DEF OneTop
<1>8. ASSUME NEW u, Topmost(U, x) = {u} PROVE OneTop(T, x)
  <2>1. PICK t \in Topmost(T, x) : u = t \/ (u \in New /\ U.kids[u] = {t})
    BY <1>4, <1>8
  <2>2. \A s \in Topmost(T, x) : s = t
    BY <1>3, <1>6, <1>8, <2>1
  <2>3. Topmost(T, x) = {t}
    BY <2>1, <2>2
  <2> QED BY <2>3 DEF OneTop
<1> QED BY <1>7, <1>8 DEF OneTop

LEMMA SubdividedDecomp ==
  ASSUME NEW T, NEW U, NEW w, NEW D, NEW New, Subdivides(T, U, w, D, New), T.root \in T.node, NEW g
  PROVE  Decomp(T, g) <=> Decomp(U, g)
<1>1. Rooted(T) <=> Rooted(U)
  BY SubdividedRooted
<1>2. Covers(T, g) <=> Covers(U, g)
  BY SubdividedCovers
<1>3. ASSUME Rooted(T), NEW x PROVE OneTop(T, x) <=> OneTop(U, x)
  BY <1>3, SubdividedTop
<1> QED BY <1>1, <1>2, <1>3 DEF Decomp

-----------------------------------------------------------------------------
(* The repairs of make_nice().                                             *)
LEMMA RepairSubdivides ==
  ASSUME IInv, NEW count \in Nat, NEW k, NEW b, Repair(count, k, b),
         DOMAIN k = {last} \cup (n + 1 .. n + count), DOMAIN b = n + 1 .. n + count,
         NEW D, D \subseteq kids[last], k[last] = (kids[last] \ D) \cup (n + 1 .. n + count),
         \A m \in n + 1 .. n + count : k[m] \subseteq D,
         \A d \in D : \E m \in n + 1 .. n + count : d \in k[m],
         \A l, m \in n + 1 .. n + count : \A d \in D : d \in k[l] /\ d \in k[m] => l = m,
         \A m \in n + 1 .. n + count :
           \/ b[m] \subseteq bag[last]
           \/ \E d \in D : k[m] = {d} /\ b[m] \subseteq bag[d],
         \A m \in n + 1 .. n + count : \A d \in k[m] : bag[last] \cap bag[d] \subseteq b[m],
         NEW r
  PROVE  Subdivides(Td(r), Td(r)', last, D, n + 1 .. n + count)
<1> DEFINE New == n + 1 .. n + count
<1>1. /\ n \in Nat \ {0} /\ last \in 1 .. n /\ New \cap (1 .. n) = {} /\ 1 .. n + count = (1 .. n) \cup New
      /\ kids \in [1 .. n -> SUBSET (1 .. n)] /\ bag \in [1 .. n -> SUBSET Nat]
  BY DEF IInv, TypeOK, Node
<1>2. DOMAIN kids \cup DOMAIN k = 1 .. n + count /\ DOMAIN bag \cup DOMAIN b = 1 .. n + count
  BY <1>1
<1>3. /\ n' = n + count
      /\ kids' = [x \in 1 .. n + count |-> IF x \in DOMAIN k THEN k[x] ELSE kids[x]]
      /\ bag' = [x \in 1 .. n + count |-> IF x \in DOMAIN b THEN b[x] ELSE bag[x]]
  BY <1>2 DEF Repair, Override
<1> HIDE DEF New
<1>4. /\ \A v \in 1 .. n : v # last => kids'[v] = kids[v]
      /\ \A v \in 1 .. n : bag'[v] = bag[v]
      /\ \A v \in New : bag'[v] = b[v] /\ kids'[v] = k[v]
      /\ kids'[last] = k[last]
  BY <1>1, <1>3 DEF New
<1>5. /\ Td(r).node = 1 .. n /\ Td(r).kids = kids /\ Td(r).bag = bag /\ Td(r).root = r
      /\ Td(r)'.node = (1 .. n) \cup New /\ Td(r)'.kids = kids' /\ Td(r)'.bag = bag' /\ Td(r)'.root = r
  BY <1>1, <1>3 DEF Td, Node
<1>6. \A v \in 1 .. n : kids[v] \subseteq 1 .. n
  BY <1>1
<1>7. D \subseteq 1 .. n
  BY <1>1, <1>6
<1>8. \A m \in New : k[m] \subseteq D
  BY DEF New
<1>9. /\ \A d \in D : \E m \in New : d \in k[m]
      /\ \A l, m \in New : \A d \in D : d \in k[l] /\ d \in k[m] => l = m
      /\ \A m \in New : b[m] \subseteq bag[last] \/ \E d \in D : k[m] = {d} /\ b[m] \subseteq bag[d]
      /\ \A m \in New : \A d \in k[m] : bag[last] \cap bag[d] \subseteq b[m]
      /\ k[last] = (kids[last] \ D) \cup New
  BY DEF New
<1> DEFINE T == Td(r)
           U == Td(r)'
<1>10. /\ T.node = 1 .. n /\ U.node = T.node \cup New /\ T.node \cap New = {} /\ U.root = T.root
       /\ last \in T.node /\ D \subseteq T.kids[last]
       /\ \A v \in T.node : T.kids[v] \subseteq T.node
       /\ \A v \in T.node : v # last => U.kids[v] = T.kids[v]
       /\ U.kids[last] = (T.kids[last] \ D) \cup New
       /\ \A m \in New : U.kids[m] = k[m]
  BY <1>1, <1>4, <1>5, <1>6, <1>9
<1>11. /\ \A v \in T.node : U.bag[v] = T.bag[v]
       /\ \A m \in New : U.bag[m] = b[m]
       /\ T.bag = bag
  BY <1>1, <1>4, <1>5
<1> HIDE DEF T, U
<1>12. Subdivides(T, U, last, D, New)
  BY <1>8, <1>9, <1>10, <1>11 DEF Subdivides
<1> QED BY <1>12 DEF New, T, U

LEMMA FixLeafSubdivides ==
  ASSUME IInv, FixLeaf, NEW r PROVE \E D, New : Subdivides(Td(r), Td(r)', last, D, New)
<1> DEFINE k == [v \in {last, n + 1} |-> IF v = last THEN {n + 1} ELSE {}]
           b == [v \in {n + 1} |-> {}]
<1>1. n \in Nat \ {0} /\ last \in 1 .. n
  BY AtLast
<1>2. n + 1 .. n + 1 = {n + 1}
  BY <1>1
<1>3. DOMAIN k = {last} \cup (n + 1 .. n + 1) /\ DOMAIN b = n + 1 .. n + 1
  BY <1>2
<1>4. Repair(1, k, b) /\ kids[last] = {}
  BY DEF FixLeaf
<1>5. k[last] = {n + 1} /\ k[n + 1] = {} /\ b[n + 1] = {}
  BY <1>1
<1> HIDE DEF k, b
<1>6. Subdivides(Td(r), Td(r)', last, {}, n + 1 .. n + 1)
  BY <1>2, <1>3, <1>4, <1>5, RepairSubdivides
<1> QED BY <1>6

(* The number of a child among the children.                               *)
LEMMA RankRange ==
  ASSUME NEW S, IsFiniteSet(S), S \subseteq Nat, NEW c \in S
  PROVE  Rank(S, c) \in 1 .. Cardinality(S)
<1> DEFINE U == {d \in S : d <= c}
<1>1. U \in SUBSET S /\ c \in U
  OBVIOUS
<1>2. IsFiniteSet(U) /\ Cardinality(U) <= Cardinality(S)
  BY <1>1, FS_Subset
<1>3. Cardinality(U) # 0
  BY <1>1, <1>2, FS_EmptySet
<1>4. Cardinality(U) \in Nat /\ Cardinality(S) \in Nat
  BY <1>2, FS_CardinalityType
<1>5. Rank(S, c) = Cardinality(U)
  BY DEF Rank
<1> HIDE DEF U
<1> QED BY <1>2, <1>3, <1>4, <1>5

LEMMA FixBinarySubdivides ==
  ASSUME IInv, FixBinary, NEW r PROVE \E D, New : Subdivides(Td(r), Td(r)', last, D, New)
<1> DEFINE K == kids[last]
           Half(q) == {c \in K : Rank(K, c) % 2 = q}
           k == [v \in {last, n + 1, n + 2} |-> CASE v = last -> {n + 1, n + 2}
                                                  [] v = n + 1 -> Half(1)
                                                  [] v = n + 2 -> Half(0)]
           b == [v \in {n + 1, n + 2} |-> bag[last]]
<1>1. n \in Nat \ {0} /\ last \in 1 .. n /\ K \subseteq 1 .. n /\ IsFiniteSet(K)
  BY AtLast
<1>2. n + 1 .. n + 2 = {n + 1, n + 2}
  BY <1>1
<1>3. DOMAIN k = {last} \cup (n + 1 .. n + 2) /\ DOMAIN b = n + 1 .. n + 2
  BY <1>2
<1>4. Repair(2, k, b)
  BY DEF FixBinary
<1>5. /\ k[last] = {n + 1, n + 2} /\ k[n + 1] = Half(1) /\ k[n + 2] = Half(0)
      /\ b[n + 1] = bag[last] /\ b[n + 2] = bag[last]
  <2> HIDE DEF Half
  <2> QED BY <1>1
<1>6. \A c \in K : Rank(K, c) % 2 \in {0, 1}
  <2>1. \A c \in K : Rank(K, c) \in Nat
    BY <1>1, RankRange
  <2> QED BY <2>1
<1>7. /\ Half(0) \subseteq K /\ Half(1) \subseteq K /\ Half(0) \cap Half(1) = {}
      /\ \A c \in K : c \in Half(0) \/ c \in Half(1)
  BY <1>6
<1> HIDE DEF k, b, Half
<1>8. Subdivides(Td(r), Td(r)', last, K, n + 1 .. n + 2)
  <2>1. \A m \in n + 1 .. n + 2 : k[m] \subseteq K /\ b[m] = bag[last]
    BY <1>2, <1>5, <1>7
  <2>2. \A d \in K : \E m \in n + 1 .. n + 2 : d \in k[m]
    BY <1>2, <1>5, <1>7
  <2>3. \A l, m \in n + 1 .. n + 2 : \A d \in K : d \in k[l] /\ d \in k[m] => l = m
    BY <1>2, <1>5, <1>7
  <2>4. k[last] = (kids[last] \ K) \cup (n + 1 .. n + 2)
    BY <1>2, <1>5
  <2>5. /\ \A m \in n + 1 .. n + 2 : k[m] \subseteq K
        /\ \A m \in n + 1 .. n + 2 : b[m] \subseteq bag[last] \/ \E d \in K : k[m] = {d} /\ b[m] \subseteq bag[d]
        /\ \A m \in n + 1 .. n + 2 : \A d \in k[m] : bag[last] \cap bag[d] \subseteq b[m]
    BY <2>1
  <2>6. 2 \in Nat /\ K \subseteq kids[last]
    OBVIOUS
  <2> HIDE DEF K
  <2> QED BY <1>3, <1>4, <2>2, <2>3, <2>4, <2>5, <2>6, RepairSubdivides
<1> QED BY <1>8

LEMMA FixJoinsSubdivides ==
  ASSUME IInv, FixJoins, NEW r PROVE \E D, New : Subdivides(Td(r), Td(r)', last, D, New)
<1> DEFINE K == kids[last]
           D == {c \in K : bag[c] # bag[last]}
           count == Cardinality(D)
           New == n + 1 .. n + count
           k == [v \in {last} \cup New |->
                   IF v = last THEN (K \ D) \cup New ELSE {c \in D : n + Rank(D, c) = v}]
           b == [v \in New |-> bag[last]]
<1>1. n \in Nat \ {0} /\ last \in 1 .. n /\ K \subseteq 1 .. n /\ IsFiniteSet(K)
  BY AtLast
<1>2. IsFiniteSet(D) /\ D \subseteq K /\ D \subseteq Nat
  BY <1>1, FS_Subset
<1>3. Repair(count, k, b)
  BY DEF FixJoins
<1>4. count \in Nat
  BY <1>2, FS_CardinalityType
<1>5. \A c \in D : Rank(D, c) \in 1 .. count
  <2> HIDE DEF D
  <2> QED BY <1>2, RankRange
<1> HIDE DEF count, D
<1>6. DOMAIN k = {last} \cup New /\ DOMAIN b = New
  OBVIOUS
<1>7. last \notin New
  BY <1>1, <1>4
<1>8. /\ k[last] = (K \ D) \cup New
      /\ \A m \in New : k[m] = {c \in D : n + Rank(D, c) = m} /\ b[m] = bag[last]
  BY <1>7
<1>9. \A d \in D : n + Rank(D, d) \in New
  BY <1>1, <1>4, <1>5
<1> HIDE DEF k, b
<1>10. Subdivides(Td(r), Td(r)', last, D, New)
  <2>1. \A m \in New : k[m] \subseteq D /\ b[m] = bag[last]
    BY <1>8
  <2>2. \A d \in D : \E m \in New : d \in k[m]
    BY <1>8, <1>9
  <2>3. \A l, m \in New : \A d \in D : d \in k[l] /\ d \in k[m] => l = m
    BY <1>8
  <2>4. /\ \A m \in New : k[m] \subseteq D
        /\ \A m \in New : b[m] \subseteq bag[last] \/ \E d \in D : k[m] = {d} /\ b[m] \subseteq bag[d]
        /\ \A m \in New : \A d \in k[m] : bag[last] \cap bag[d] \subseteq b[m]
        /\ D \subseteq kids[last] /\ k[last] = (kids[last] \ D) \cup New
    BY <1>2, <1>8, <2>1
  <2> HIDE DEF K
  <2> QED BY <1>3, <1>4, <1>6, <2>2, <2>3, <2>4, RepairSubdivides
<1> QED BY <1>10

LEMMA FixIntroduceForgetSubdivides ==
  ASSUME IInv, FixIntroduceForget, NEW r PROVE \E D, New : Subdivides(Td(r), Td(r)', last, D, New)
<1>1. n \in Nat \ {0} /\ last \in 1 .. n
  BY AtLast
<1>2. PICK c \in Node :
        /\ kids[last] = {c}
        /\ Repair(1, [v \in {last, n + 1} |-> IF v = last THEN {n + 1} ELSE {c}],
                     [v \in {n + 1} |-> (bag[last] \cap bag[c]) \cup Extra(bag[last], bag[c])])
  BY DEF FixIntroduceForget
<1> DEFINE k == [v \in {last, n + 1} |-> IF v = last THEN {n + 1} ELSE {c}]
           between == (bag[last] \cap bag[c]) \cup Extra(bag[last], bag[c])
           b == [v \in {n + 1} |-> between]
<1>3. n + 1 .. n + 1 = {n + 1}
  BY <1>1
<1>4. DOMAIN k = {last} \cup (n + 1 .. n + 1) /\ DOMAIN b = n + 1 .. n + 1
  BY <1>3
<1>5. Repair(1, k, b)
  BY <1>2
<1>6. k[last] = {n + 1} /\ k[n + 1] = {c} /\ b[n + 1] = between
  BY <1>1
<1>7. (between \subseteq bag[last] \/ between \subseteq bag[c]) /\ bag[last] \cap bag[c] \subseteq between
  BY BetweenWithin
<1> HIDE DEF k, b, between
<1>8. Subdivides(Td(r), Td(r)', last, {c}, n + 1 .. n + 1)
  <2>1. {c} \subseteq kids[last] /\ k[last] = (kids[last] \ {c}) \cup (n + 1 .. n + 1)
    BY <1>2, <1>3, <1>6
  <2>2. \A m \in n + 1 .. n + 1 : k[m] \subseteq {c}
    BY <1>3, <1>6
  <2>3. \A d \in {c} : \E m \in n + 1 .. n + 1 : d \in k[m]
    BY <1>3, <1>6
  <2>4. \A l, m \in n + 1 .. n + 1 : \A d \in {c} : d \in k[l] /\ d \in k[m] => l = m
    BY <1>3
  <2>5. \A m \in n + 1 .. n + 1 :
          b[m] \subseteq bag[last] \/ \E d \in {c} : k[m] = {d} /\ b[m] \subseteq bag[d]
    BY <1>3, <1>6, <1>7
  <2>6. \A m \in n + 1 .. n + 1 : \A d \in k[m] : bag[last] \cap bag[d] \subseteq b[m]
    BY <1>3, <1>6, <1>7
  <2>7. 1 \in Nat
    OBVIOUS
  <2> DEFINE D == {c}
  <2>8. D = {c}
    OBVIOUS
  <2> HIDE DEF D
  <2>9. Subdivides(Td(r), Td(r)', last, D, n + 1 .. n + 1)
    BY <1>4, <1>5, <2>1, <2>2, <2>3, <2>4, <2>5, <2>6, <2>7, <2>8, RepairSubdivides
  <2> QED BY <2>8, <2>9
<1> QED BY <1>8

-----------------------------------------------------------------------------
(***************************************************************************)
(* What extends a decomposition to the incidence graph: leaves, each below *)
(* one of the nodes, whose bags hold something of the bag above and one    *)
(* new vertex, which no other bag holds.                                   *)
(***************************************************************************)
Hangs(T, U, L, host, own) ==
  /\ U.node = T.node \cup L /\ T.node \cap L = {} /\ U.root = T.root
  /\ \A v \in T.node : T.kids[v] \subseteq T.node
  /\ \A l \in L : host[l] \in T.node
  /\ \A v \in T.node : U.kids[v] = T.kids[v] \cup {l \in L : host[l] = v}
  /\ \A l \in L : U.kids[l] = {}
  /\ \A v \in T.node : U.bag[v] = T.bag[v]
  /\ \A l \in L : own[l] \in U.bag[l] /\ U.bag[l] \ {own[l]} \subseteq T.bag[host[l]]
  /\ \A l \in L : \A v \in T.node : own[l] \notin T.bag[v]
  /\ \A l, m \in L : own[l] \in U.bag[m] => l = m

LEMMA HungParents ==
  ASSUME NEW T, NEW U, NEW L, NEW host, NEW own, Hangs(T, U, L, host, own)
  PROVE  /\ \A v \in T.node : Parents(U, v) = Parents(T, v)
         /\ \A l \in L : Parents(U, l) = {host[l]}
BY DEF Hangs, Parents

LEMMA HungRooted ==
  ASSUME NEW T, NEW U, NEW L, NEW host, NEW own, Hangs(T, U, L, host, own), T.root \in T.node
  PROVE  Rooted(T) <=> Rooted(U)
<1>0. /\ U.root = T.root /\ U.node = T.node \cup L /\ T.node \cap L = {}
      /\ \A l \in L : host[l] \in T.node
  BY DEF Hangs
<1>1. Parents(T, T.root) = {} <=> Parents(U, U.root) = {}
  BY <1>0, HungParents
<1>2. (\A v \in T.node \ {T.root} : \E p : Parents(T, v) = {p})
        <=> (\A v \in U.node \ {U.root} : \E p : Parents(U, v) = {p})
  <2> DEFINE One(X, v) == \E p : Parents(X, v) = {p}
  <2>0. /\ \A v \in T.node : Parents(U, v) = Parents(T, v)
        /\ \A l \in L : Parents(U, l) = {host[l]}
    BY HungParents
  <2>1. \A v \in T.node : One(T, v) <=> One(U, v)
    BY <2>0
  <2>2. \A l \in L : One(U, l)
    BY <2>0
  <2> HIDE DEF One
  <2>3. (\A v \in T.node \ {T.root} : One(T, v)) <=> (\A v \in U.node \ {U.root} : One(U, v))
    BY <1>0, <2>1, <2>2
  <2> QED BY <2>3 DEF One
<1>3. (\A P \in SUBSET T.node : T.root \in P /\ ClosedIn(T, P) => P = T.node)
        <=> (\A P \in SUBSET U.node : U.root \in P /\ ClosedIn(U, P) => P = U.node)
  <2>1. ASSUME \A P \in SUBSET U.node : U.root \in P /\ ClosedIn(U, P) => P = U.node,
               NEW P \in SUBSET T.node, T.root \in P, ClosedIn(T, P)
        PROVE  P = T.node
    <3> DEFINE Q == P \cup L
    <3>1. Q \in SUBSET U.node /\ U.root \in Q
      BY <1>0, <2>1
    <3>2. ClosedIn(U, Q)
      BY <2>1 DEF ClosedIn, Hangs
    <3>3. Q = U.node
      BY <2>1, <3>1, <3>2
    <3> QED BY <1>0, <3>3
  <2>2. ASSUME \A P \in SUBSET T.node : T.root \in P /\ ClosedIn(T, P) => P = T.node,
               NEW Q \in SUBSET U.node, U.root \in Q, ClosedIn(U, Q)
        PROVE  Q = U.node
    <3> DEFINE P == Q \cap T.node
    <3>1. P \in SUBSET T.node /\ T.root \in P
      BY <1>0, <2>2
    <3>2. ClosedIn(T, P)
      BY <2>2 DEF ClosedIn, Hangs
    <3>3. P = T.node
      BY <2>2, <3>1, <3>2
    <3> QED BY <2>2, <3>3 DEF Hangs, ClosedIn
  <2> QED BY <2>1, <2>2
<1> QED BY <1>1, <1>2, <1>3 DEF Rooted

LEMMA HungTops ==
  ASSUME NEW T, NEW U, NEW L, NEW host, NEW own, Hangs(T, U, L, host, own)
  PROVE  /\ \A l \in L : Topmost(U, own[l]) = {l}
         /\ \A x : (\A l \in L : x # own[l]) => Topmost(U, x) = Topmost(T, x)
<1>1. \A X, t, x : t \in Topmost(X, x) <=> t \in X.node /\ x \in X.bag[t] /\ \A p \in Parents(X, t) : x \notin X.bag[p]
  BY DEF Topmost, Holding, Parents
<1>2. /\ U.node = T.node \cup L /\ T.node \cap L = {}
      /\ \A v \in T.node : U.bag[v] = T.bag[v] /\ Parents(T, v) \subseteq T.node
      /\ \A l \in L : host[l] \in T.node
      /\ \A l \in L : own[l] \in U.bag[l] /\ U.bag[l] \ {own[l]} \subseteq T.bag[host[l]]
      /\ \A l \in L : \A v \in T.node : own[l] \notin T.bag[v]
      /\ \A l, m \in L : own[l] \in U.bag[m] => l = m
  BY DEF Hangs, Parents
<1>3. /\ \A v \in T.node : Parents(U, v) = Parents(T, v)
      /\ \A l \in L : Parents(U, l) = {host[l]}
  BY HungParents
<1>4. ASSUME NEW l \in L PROVE Topmost(U, own[l]) = {l}
  <2>1. l \in Topmost(U, own[l])
    BY <1>1, <1>2, <1>3
  <2>2. ASSUME NEW t \in Topmost(U, own[l]) PROVE t = l
    BY <1>1, <1>2
  <2> QED BY <2>1, <2>2
<1>5. ASSUME NEW x, \A l \in L : x # own[l] PROVE Topmost(U, x) = Topmost(T, x)
  <2>1. ASSUME NEW t \in Topmost(U, x) PROVE t \in Topmost(T, x)
    <3>1. t \in T.node
      BY <1>1, <1>2, <1>3, <1>5
    <3> QED BY <1>1, <1>2, <1>3, <3>1
  <2>2. ASSUME NEW t \in Topmost(T, x) PROVE t \in Topmost(U, x)
    BY <1>1, <1>2, <1>3
  <2> QED BY <2>1, <2>2
<1> QED BY <1>4, <1>5

-----------------------------------------------------------------------------
(* A decomposition as it is given, with a root.                            *)
TdOf(in, r) == [node |-> 1 .. in.n, kids |-> in.kids, bag |-> in.bag, root |-> r]

IsOne(in, g) == \E r \in 1 .. in.n : Decomp(TdOf(in, r), Undirected(g))

(* Every number after the vertices is that of an edge.                     *)
LEMMA EdgeVertexOnto ==
  ASSUME NEW g, IsGraph(g), NEW K, K = Cardinality(g.vertices), NEW m, m = Cardinality(Edges(g)),
         NEW i \in K + 1 .. K + m
  PROVE  \E e \in Edges(g) : EdgeVertex(g, e) = i
<1> DEFINE S == Edges(g)
           T == K + 1 .. K + m
           f == [e \in S |-> EdgeVertex(g, e)]
<1>1. IsFiniteSet(S) /\ m \in Nat /\ K \in Nat
  BY EdgesFinite
<1>2. f \in Injection(S, T)
  <2>1. f \in [S -> T]
    BY EdgeVertexRange
  <2>2. \A x, y \in S : f[x] = f[y] => x = y
    BY EdgeVertexInjective
  <2> QED BY <2>1, <2>2 DEF Injection, IsInjective
<1>3. IsFiniteSet(T) /\ Cardinality(T) = m
  <2>1. K + 1 \in Int /\ K + m \in Int /\ ((K + 1 > K + m) => m = 0) /\ (K + m) - (K + 1) + 1 = m
    BY <1>1
  <2> QED BY <1>1, <2>1, FS_Interval
<1> HIDE DEF f
<1>4. f \in Surjection(S, T)
  BY <1>2, <1>3, FS_Injection
<1>5. \E e \in S : f[e] = i
  BY <1>4 DEF Surjection
<1> QED BY <1>5 DEF f

(* The leaf of an edge, the bag above it and the vertex of the edge.       *)
EdgeAt(T, g, l) == CHOOSE e \in Edges(g) : EdgeVertex(g, e) = (l - T.n) + Cardinality(g.vertices)
Leaves(T, g) == T.n + 1 .. T.n + Cardinality(Edges(g))

LEMMA EdgeAtIs ==
  ASSUME NEW T, T.n \in Nat, NEW g, IsGraph(g)
  PROVE  /\ \A l \in Leaves(T, g) :
              /\ EdgeAt(T, g, l) \in Edges(g)
              /\ EdgeVertex(g, EdgeAt(T, g, l)) = (l - T.n) + Cardinality(g.vertices)
              /\ T.n + (EdgeVertex(g, EdgeAt(T, g, l)) - Cardinality(g.vertices)) = l
         /\ \A e \in Edges(g) :
              /\ T.n + (EdgeVertex(g, e) - Cardinality(g.vertices)) \in Leaves(T, g)
              /\ EdgeAt(T, g, T.n + (EdgeVertex(g, e) - Cardinality(g.vertices))) = e
<1> DEFINE K == Cardinality(g.vertices)
           m == Cardinality(Edges(g))
<1>1. K \in Nat /\ m \in Nat
  BY EdgesFinite
<1>2. ASSUME NEW l \in Leaves(T, g)
      PROVE  /\ EdgeAt(T, g, l) \in Edges(g)
             /\ EdgeVertex(g, EdgeAt(T, g, l)) = (l - T.n) + K
             /\ T.n + (EdgeVertex(g, EdgeAt(T, g, l)) - K) = l
  <2>1. (l - T.n) + K \in K + 1 .. K + m /\ l \in Int
    <3> HIDE DEF K, m
    <3>1. l \in T.n + 1 .. T.n + m
      BY DEF Leaves, m
    <3> QED BY <1>1, <3>1
  <2>2. \E e \in Edges(g) : EdgeVertex(g, e) = (l - T.n) + K
    BY <2>1, EdgeVertexOnto
  <2>3. EdgeAt(T, g, l) \in Edges(g) /\ EdgeVertex(g, EdgeAt(T, g, l)) = (l - T.n) + K
    BY <2>2 DEF EdgeAt
  <2>4. T.n + (((l - T.n) + K) - K) = l
    <3> HIDE DEF K
    <3> QED BY <1>1, <2>1
  <2> QED BY <2>3, <2>4
<1>3. ASSUME NEW e \in Edges(g)
      PROVE  /\ T.n + (EdgeVertex(g, e) - K) \in Leaves(T, g)
             /\ EdgeAt(T, g, T.n + (EdgeVertex(g, e) - K)) = e
  <2> DEFINE i == EdgeVertex(g, e)
             l == T.n + (i - K)
  <2>1. i \in K + 1 .. K + m
    BY EdgeVertexRange
  <2>2. l \in T.n + 1 .. T.n + m /\ (l - T.n) + K = i
    <3> HIDE DEF K, m, i
    <3> QED BY <1>1, <2>1
  <2>3. l \in Leaves(T, g)
    BY <2>2 DEF Leaves
  <2> HIDE DEF l
  <2>4. EdgeVertex(g, EdgeAt(T, g, l)) = i /\ EdgeAt(T, g, l) \in Edges(g)
    BY <1>2, <2>2, <2>3
  <2>5. EdgeAt(T, g, l) = e
    BY <2>4, EdgeVertexInjective
  <2> QED BY <2>3, <2>5 DEF l
<1> QED BY <1>2, <1>3

LEMMA HostFound ==
  ASSUME NEW T, T.n \in Nat, NEW e, Hosts(T, e) # {}
  PROVE  Host(T, e) \in 1 .. T.n /\ e[1] \in T.bag[Host(T, e)] /\ e[2] \in T.bag[Host(T, e)]
<1>1. Hosts(T, e) \subseteq Nat /\ Hosts(T, e) # {}
  BY DEF Hosts
<1>2. \E t \in Hosts(T, e) : \A u \in Hosts(T, e) : t <= u
  BY <1>1, NatMin
<1>3. Host(T, e) \in Hosts(T, e)
  BY <1>2 DEF Host
<1> QED BY <1>3 DEF Hosts

LEMMA ExtendedHangs ==
  ASSUME NEW T, IsGiven(T), NEW g, IsGraph(g), Numbered(g),
         \A v \in 1 .. T.n : T.bag[v] \cap EdgeVertices(g) = {},
         \A e \in Edges(g) : Hosts(T, e) # {}, NEW r
  PROVE  /\ Hangs(TdOf(T, r), TdOf(Extended(T, g), r), Leaves(T, g),
                  [l \in Leaves(T, g) |-> Host(T, EdgeAt(T, g, l))],
                  [l \in Leaves(T, g) |-> EdgeVertex(g, EdgeAt(T, g, l))])
         /\ \A e \in Edges(g) : \E l \in Leaves(T, g) :
              Extended(T, g).bag[l] = {e[1], e[2], EdgeVertex(g, e)}
         /\ \A l \in Leaves(T, g) : EdgeVertex(g, EdgeAt(T, g, l)) \in EdgeVertices(g)
         /\ \A e \in Edges(g) : \E l \in Leaves(T, g) : EdgeVertex(g, EdgeAt(T, g, l)) = EdgeVertex(g, e)
<1> DEFINE L == Leaves(T, g)
           K == Cardinality(g.vertices)
           m == Cardinality(Edges(g))
           U == Extended(T, g)
           node(e) == T.n + (EdgeVertex(g, e) - K)
           all == 1 .. T.n + m
           below(t) == {node(e) : e \in {f \in Edges(g) : Host(T, f) = t}}
           host == [l \in L |-> Host(T, EdgeAt(T, g, l))]
           own == [l \in L |-> EdgeVertex(g, EdgeAt(T, g, l))]
<1>1. /\ K \in Nat /\ m \in Nat /\ T.n \in Nat \ {0} /\ g.vertices = 1 .. K
      /\ T.kids \in [1 .. T.n -> SUBSET (1 .. T.n)]
  BY EdgesFinite DEF IsGiven, Numbered
<1>2. L = T.n + 1 .. T.n + m /\ all = (1 .. T.n) \cup L /\ (1 .. T.n) \cap L = {}
  <2> HIDE DEF K, m
  <2>1. L = T.n + 1 .. T.n + m
    BY DEF Leaves, m
  <2> QED BY <1>1, <2>1
<1>3. /\ U.n = T.n + m
      /\ U.kids = [t \in all |-> IF t <= T.n THEN T.kids[t] \cup [u \in all |-> below(u)][t] ELSE {}]
      /\ U.bag = [t \in all |->
                    IF t <= T.n THEN T.bag[t]
                    ELSE UNION {{e[1], e[2], EdgeVertex(g, e)} : e \in {f \in Edges(g) : node(f) = t}}]
  BY DEF Extended
<1>4. /\ \A l \in L : EdgeAt(T, g, l) \in Edges(g) /\ node(EdgeAt(T, g, l)) = l
      /\ \A e \in Edges(g) : node(e) \in L /\ EdgeAt(T, g, node(e)) = e
  BY <1>1, EdgeAtIs
<1> HIDE DEF L, K, m, U, all, node
<1>5. \A t \in 1 .. T.n : U.kids[t] = T.kids[t] \cup below(t) /\ U.bag[t] = T.bag[t]
  BY <1>1, <1>2, <1>3
<1>6. \A l \in L : l \in all /\ ~(l <= T.n)
  BY <1>1, <1>2
<1>7. \A l \in L : /\ U.kids[l] = {}
                   /\ U.bag[l] = UNION {{e[1], e[2], EdgeVertex(g, e)} : e \in {f \in Edges(g) : node(f) = l}}
  BY <1>3, <1>6
<1>8. ASSUME NEW l \in L
      PROVE  LET e == EdgeAt(T, g, l) IN U.bag[l] = {e[1], e[2], EdgeVertex(g, e)}
  <2>1. {f \in Edges(g) : node(f) = l} = {EdgeAt(T, g, l)}
    BY <1>4
  <2> QED BY <1>7, <2>1
<1>9. \A t \in 1 .. T.n : below(t) = {l \in L : host[l] = t}
  <2>1. ASSUME NEW t \in 1 .. T.n, NEW l \in below(t) PROVE l \in L /\ host[l] = t
    <3>1. PICK e \in Edges(g) : Host(T, e) = t /\ l = node(e)
      OBVIOUS
    <3> QED BY <1>4, <3>1
  <2>2. ASSUME NEW t \in 1 .. T.n, NEW l \in L, host[l] = t PROVE l \in below(t)
    BY <1>4, <2>2
  <2> QED BY <2>1, <2>2
<1>10. \A e \in Edges(g) : /\ Host(T, e) \in 1 .. T.n
                           /\ e[1] \in T.bag[Host(T, e)] /\ e[2] \in T.bag[Host(T, e)]
  BY <1>1, HostFound
<1>11. \A e \in Edges(g) : EdgeVertex(g, e) \notin g.vertices
  <2>1. \A e \in Edges(g) : EdgeVertex(g, e) \in K + 1 .. K + m
    BY EdgeVertexRange DEF K, m
  <2> QED BY <1>1, <2>1
<1>12. \A l, k \in L : own[l] = own[k] => l = k
  BY <1>4, EdgeVertexInjective
<1>13. /\ \A l \in L : host[l] \in 1 .. T.n
       /\ \A l \in L : own[l] \in U.bag[l] /\ U.bag[l] \ {own[l]} \subseteq T.bag[host[l]]
  BY <1>4, <1>8, <1>10
<1>14. \A l \in L : own[l] \notin g.vertices /\ own[l] \in EdgeVertices(g)
  BY <1>4, <1>11 DEF EdgeVertices
<1>15. \A l, k \in L : own[l] \in U.bag[k] => l = k
  <2> SUFFICES ASSUME NEW l \in L, NEW k \in L, own[l] \in U.bag[k] PROVE own[l] = own[k]
    BY <1>12
  <2>1. EdgeAt(T, g, k)[1] \in g.vertices /\ EdgeAt(T, g, k)[2] \in g.vertices
    BY <1>4, EdgeEnds
  <2>2. U.bag[k] = {EdgeAt(T, g, k)[1], EdgeAt(T, g, k)[2], own[k]}
    BY <1>8
  <2> QED BY <1>14, <2>1, <2>2
<1> HIDE DEF host, own
<1> DEFINE A == TdOf(T, r)
           B == TdOf(U, r)
<1>16. /\ A.node = 1 .. T.n /\ A.kids = T.kids /\ A.bag = T.bag /\ A.root = r
       /\ B.node = all /\ B.kids = U.kids /\ B.bag = U.bag /\ B.root = r
  BY <1>3 DEF TdOf, all
<1> HIDE DEF A, B
<1>17. \A t \in 1 .. T.n : U.kids[t] = T.kids[t] \cup {l \in L : host[l] = t}
  <2> HIDE DEF below
  <2> QED BY <1>5, <1>9
<1>18. \A v \in 1 .. T.n : T.kids[v] \subseteq 1 .. T.n
  BY <1>1
<1>19. Hangs(A, B, L, host, own)
  <2>1. /\ B.node = A.node \cup L /\ A.node \cap L = {} /\ B.root = A.root
        /\ \A v \in A.node : A.kids[v] \subseteq A.node
        /\ \A l \in L : host[l] \in A.node
    BY <1>2, <1>13, <1>16, <1>18
  <2>2. /\ \A v \in A.node : B.kids[v] = A.kids[v] \cup {l \in L : host[l] = v}
        /\ \A l \in L : B.kids[l] = {}
        /\ \A v \in A.node : B.bag[v] = A.bag[v]
    BY <1>5, <1>7, <1>16, <1>17
  <2>3. /\ \A l \in L : own[l] \in B.bag[l] /\ B.bag[l] \ {own[l]} \subseteq A.bag[host[l]]
        /\ \A l \in L : \A v \in A.node : own[l] \notin A.bag[v]
        /\ \A l, k \in L : own[l] \in B.bag[k] => l = k
    BY <1>13, <1>14, <1>15, <1>16
  <2> QED BY <2>1, <2>2, <2>3 DEF Hangs
<1>20. \A e \in Edges(g) : \E l \in L : U.bag[l] = {e[1], e[2], EdgeVertex(g, e)}
  BY <1>4, <1>8 DEF own
<1>21. /\ \A l \in L : EdgeVertex(g, EdgeAt(T, g, l)) \in EdgeVertices(g)
       /\ \A e \in Edges(g) : \E l \in L : EdgeVertex(g, EdgeAt(T, g, l)) = EdgeVertex(g, e)
  BY <1>4 DEF EdgeVertices
<1> QED BY <1>19, <1>20, <1>21 DEF A, B, L, U, host, own

LEMMA IncidenceEdges ==
  ASSUME NEW g, IsGraph(g), Numbered(g)
  PROVE  /\ Undirected(IncidenceOf(g)).vertex = g.vertices \cup EdgeVertices(g)
         /\ \A e \in Undirected(IncidenceOf(g)).edge : \E f \in Edges(g) :
              e = {f[1], EdgeVertex(g, f)} \/ e = {EdgeVertex(g, f), f[2]}
<1> DEFINE i == IncidenceOf(g)
<1>1. /\ i.vertices = g.vertices \cup EdgeVertices(g)
      /\ i.out = [v \in i.vertices |->
                    {EdgeVertex(g, e) : e \in {f \in Edges(g) : f[1] = v}}
                      \cup {e[2] : e \in {f \in Edges(g) : EdgeVertex(g, f) = v}}]
  BY IncidenceParts
<1> HIDE DEF i
<1>2. ASSUME NEW e \in Edges(i)
      PROVE  \E f \in Edges(g) : {e[1], e[2]} = {f[1], EdgeVertex(g, f)} \/ {e[1], e[2]} = {EdgeVertex(g, f), f[2]}
  <2>1. e[1] \in i.vertices /\ e[2] \in i.out[e[1]]
    BY DEF Edges
  <2>2. CASE \E f \in Edges(g) : f[1] = e[1] /\ e[2] = EdgeVertex(g, f)
    BY <2>2
  <2>3. CASE \E f \in Edges(g) : EdgeVertex(g, f) = e[1] /\ e[2] = f[2]
    BY <2>3
  <2>4. (\E f \in Edges(g) : f[1] = e[1] /\ e[2] = EdgeVertex(g, f))
          \/ \E f \in Edges(g) : EdgeVertex(g, f) = e[1] /\ e[2] = f[2]
    BY <1>1, <2>1
  <2> QED BY <2>2, <2>3, <2>4
<1>3. /\ Undirected(i).vertex = i.vertices
      /\ \A e \in Undirected(i).edge : \E f \in Edges(i) : e = {f[1], f[2]}
  BY DEF Undirected
<1>4. \A e \in Undirected(i).edge : \E f \in Edges(g) :
         e = {f[1], EdgeVertex(g, f)} \/ e = {EdgeVertex(g, f), f[2]}
  <2> SUFFICES ASSUME NEW e \in Undirected(i).edge
               PROVE  \E f \in Edges(g) : e = {f[1], EdgeVertex(g, f)} \/ e = {EdgeVertex(g, f), f[2]}
    OBVIOUS
  <2>1. PICK h \in Edges(i) : e = {h[1], h[2]}
    BY <1>3
  <2>2. PICK f \in Edges(g) : {h[1], h[2]} = {f[1], EdgeVertex(g, f)} \/ {h[1], h[2]} = {EdgeVertex(g, f), f[2]}
    BY <1>2
  <2> QED BY <2>1, <2>2
<1> QED BY <1>1, <1>3, <1>4 DEF i

(* The extension for the incidence graph.                                  *)
LEMMA ExtendedIsOne ==
  ASSUME NEW T, IsGiven(T), NEW g, IsGraph(g), Numbered(g),
         \A v \in 1 .. T.n : T.bag[v] \cap EdgeVertices(g) = {},
         \A e \in Edges(g) : Hosts(T, e) # {}
  PROVE  IsOne(T, g) <=> IsOne(Extended(T, g), IncidenceOf(g))
<1> DEFINE U == Extended(T, g)
           I == IncidenceOf(g)
           L == Leaves(T, g)
           host == [l \in L |-> Host(T, EdgeAt(T, g, l))]
           own == [l \in L |-> EdgeVertex(g, EdgeAt(T, g, l))]
<1>1. \A r : Hangs(TdOf(T, r), TdOf(U, r), L, host, own)
  BY ExtendedHangs
<1>2. /\ \A e \in Edges(g) : \E l \in L : U.bag[l] = {e[1], e[2], EdgeVertex(g, e)}
      /\ \A l \in L : own[l] \in EdgeVertices(g)
      /\ \A e \in Edges(g) : \E l \in L : own[l] = EdgeVertex(g, e)
  <2> DEFINE Facts ==
               /\ \A e \in Edges(g) : \E l \in L : U.bag[l] = {e[1], e[2], EdgeVertex(g, e)}
               /\ \A l \in L : EdgeVertex(g, EdgeAt(T, g, l)) \in EdgeVertices(g)
               /\ \A e \in Edges(g) : \E l \in L : EdgeVertex(g, EdgeAt(T, g, l)) = EdgeVertex(g, e)
  <2>3. \A r : Hangs(TdOf(T, r), TdOf(U, r), L, host, own) /\ Facts
    BY ExtendedHangs
  <2>1. Facts
    <3> HIDE DEF Facts
    <3> QED BY <2>3
  <2>2. \A l \in L : own[l] = EdgeVertex(g, EdgeAt(T, g, l))
    OBVIOUS
  <2> HIDE DEF own, U, L
  <2> QED BY <2>1, <2>2
<1>3. /\ Undirected(I).vertex = g.vertices \cup EdgeVertices(g)
      /\ \A e \in Undirected(I).edge : \E f \in Edges(g) :
           e = {f[1], EdgeVertex(g, f)} \/ e = {EdgeVertex(g, f), f[2]}
      /\ g.vertices \cap EdgeVertices(g) = {}
  BY IncidenceEdges, IncidenceParts
<1>4. /\ Undirected(g).vertex = g.vertices
      /\ \A e \in Undirected(g).edge : \E f \in Edges(g) : e = {f[1], f[2]}
  BY DEF Undirected
<1>5. \A f \in Edges(g) : \E t \in 1 .. T.n : f[1] \in T.bag[t] /\ f[2] \in T.bag[t]
  BY DEF Hosts
<1> HIDE DEF U, I, host, own
<1>6. ASSUME NEW r
      PROVE  /\ \A t \in 1 .. T.n : t \in TdOf(U, r).node /\ TdOf(U, r).bag[t] = T.bag[t]
             /\ \A l \in L : l \in TdOf(U, r).node /\ TdOf(U, r).bag[l] = U.bag[l]
             /\ \A u \in TdOf(U, r).node : u \in L \/ u \in 1 .. T.n
             /\ \A l \in L : host[l] \in 1 .. T.n /\ own[l] \in U.bag[l] /\ U.bag[l] \ {own[l]} \subseteq T.bag[host[l]]
             /\ TdOf(T, r).node = 1 .. T.n /\ TdOf(T, r).bag = T.bag
             /\ TdOf(T, r).root = r /\ TdOf(U, r).root = r
             /\ TdOf(U, r).node = 1 .. U.n
  <2>1. Hangs(TdOf(T, r), TdOf(U, r), L, host, own)
    BY <1>1
  <2>2. /\ TdOf(T, r).node = 1 .. T.n /\ TdOf(T, r).bag = T.bag /\ TdOf(U, r).bag = U.bag
        /\ TdOf(T, r).root = r /\ TdOf(U, r).root = r /\ TdOf(U, r).node = 1 .. U.n
    BY DEF TdOf
  <2> HIDE DEF L
  <2>3. TdOf(U, r).node = TdOf(T, r).node \cup L
    BY <2>1 DEF Hangs
  <2> QED BY <2>1, <2>2, <2>3 DEF Hangs
<1> HIDE DEF L
<1>7. ASSUME NEW r PROVE Covers(TdOf(T, r), Undirected(g)) <=> Covers(TdOf(U, r), Undirected(I))
  <2> DEFINE A == TdOf(T, r)
             B == TdOf(U, r)
  <2> HIDE DEF A, B
  <2>0. /\ \A t \in 1 .. T.n : t \in B.node /\ B.bag[t] = T.bag[t]
        /\ \A l \in L : l \in B.node /\ B.bag[l] = U.bag[l]
        /\ \A u \in B.node : u \in L \/ u \in 1 .. T.n
        /\ \A l \in L : host[l] \in 1 .. T.n /\ own[l] \in U.bag[l] /\ U.bag[l] \ {own[l]} \subseteq T.bag[host[l]]
        /\ A.node = 1 .. T.n /\ A.bag = T.bag
    BY <1>6 DEF A, B
  <2>1. \A e \in Undirected(g).edge : \E t \in A.node : e \subseteq A.bag[t]
    <3> SUFFICES ASSUME NEW e \in Undirected(g).edge PROVE \E t \in A.node : e \subseteq A.bag[t]
      OBVIOUS
    <3>1. PICK f \in Edges(g) : e = {f[1], f[2]}
      BY <1>4
    <3>2. PICK t \in 1 .. T.n : f[1] \in T.bag[t] /\ f[2] \in T.bag[t]
      BY <1>5
    <3> QED BY <2>0, <3>1, <3>2
  <2>2. \A e \in Undirected(I).edge : \E t \in B.node : e \subseteq B.bag[t]
    <3> SUFFICES ASSUME NEW e \in Undirected(I).edge PROVE \E t \in B.node : e \subseteq B.bag[t]
      OBVIOUS
    <3>1. PICK f \in Edges(g) : e = {f[1], EdgeVertex(g, f)} \/ e = {EdgeVertex(g, f), f[2]}
      BY <1>3
    <3>2. PICK l \in L : U.bag[l] = {f[1], f[2], EdgeVertex(g, f)}
      BY <1>2
    <3> QED BY <2>0, <3>1, <3>2
  <2>3. ASSUME NEW x \in g.vertices
        PROVE  (\E t \in A.node : x \in A.bag[t]) <=> \E t \in B.node : x \in B.bag[t]
    BY <1>2, <1>3, <2>0
  <2>4. ASSUME NEW x \in EdgeVertices(g) PROVE \E t \in B.node : x \in B.bag[t]
    <3>1. PICK f \in Edges(g) : x = EdgeVertex(g, f)
      BY DEF EdgeVertices
    <3> QED BY <1>2, <2>0, <3>1
  <2>5. (g.vertices \subseteq UNION {A.bag[t] : t \in A.node})
          <=> (Undirected(I).vertex \subseteq UNION {B.bag[t] : t \in B.node})
    BY <1>3, <2>3, <2>4
  <2>6. Covers(A, Undirected(g)) <=> Covers(B, Undirected(I))
    BY <1>4, <2>1, <2>2, <2>5 DEF Covers
  <2> QED BY <2>6 DEF A, B
<1>8. ASSUME NEW r
      PROVE  (\A x \in Undirected(g).vertex : OneTop(TdOf(T, r), x))
               <=> (\A x \in Undirected(I).vertex : OneTop(TdOf(U, r), x))
  <2> DEFINE A == TdOf(T, r)
             B == TdOf(U, r)
  <2>0. Hangs(A, B, L, host, own)
    BY <1>1
  <2> HIDE DEF A, B
  <2>1. /\ \A l \in L : Topmost(B, own[l]) = {l}
        /\ \A x : (\A l \in L : x # own[l]) => Topmost(B, x) = Topmost(A, x)
    BY <2>0, HungTops
  <2>2. \A x \in g.vertices : Topmost(B, x) = Topmost(A, x)
    BY <1>2, <1>3, <2>1
  <2>3. ASSUME NEW x \in EdgeVertices(g) PROVE OneTop(B, x)
    <3>1. PICK f \in Edges(g) : x = EdgeVertex(g, f)
      BY DEF EdgeVertices
    <3>2. PICK l \in L : own[l] = x
      BY <1>2, <3>1
    <3> QED BY <2>1, <3>2 DEF OneTop
  <2>5. \A x \in g.vertices : OneTop(A, x) <=> OneTop(B, x)
    BY <2>2 DEF OneTop
  <2>4. (\A x \in Undirected(g).vertex : OneTop(A, x)) <=> \A x \in Undirected(I).vertex : OneTop(B, x)
    BY <1>3, <1>4, <2>3, <2>5
  <2> QED BY <2>4 DEF A, B
<1>9. ASSUME NEW r \in 1 .. T.n
      PROVE  Decomp(TdOf(T, r), Undirected(g)) <=> Decomp(TdOf(U, r), Undirected(I))
  <2>1. TdOf(T, r).root \in TdOf(T, r).node
    BY <1>6
  <2>2. Rooted(TdOf(T, r)) <=> Rooted(TdOf(U, r))
    BY <1>1, <2>1, HungRooted
  <2> QED BY <1>7, <1>8, <2>2 DEF Decomp
<1>10. ASSUME NEW r \in 1 .. U.n, Decomp(TdOf(U, r), Undirected(I)) PROVE r \in 1 .. T.n
  <2> SUFFICES ASSUME r \in L PROVE FALSE
    BY <1>6
  <2>1. Parents(TdOf(U, r), r) = {host[r]}
    BY <1>1, HungParents
  <2>2. Parents(TdOf(U, r), r) = {}
    <3>1. TdOf(U, r).root = r
      BY <1>6
    <3> QED BY <1>10, <3>1 DEF Decomp, Rooted
  <2> QED BY <2>1, <2>2
<1>11. 1 .. T.n \subseteq 1 .. U.n
  BY <1>6
<1> QED BY <1>9, <1>10, <1>11 DEF IsOne, U, I

-----------------------------------------------------------------------------
(***************************************************************************)
(* The elimination order, when every vertex has been taken out: what a     *)
(* vertex has noted was taken out after it, and comes before it in order;  *)
(* of the two ends of an edge, and of any two that were noted together,    *)
(* one has noted the other.                                                *)
(***************************************************************************)
Noted(ord, nbs, u, w) ==
  \E i \in DOMAIN ord : \/ ord[i] = u /\ w \in nbs[i]
                        \/ ord[i] = w /\ u \in nbs[i]

Eliminates(ord, nbs, g) ==
  /\ ord \in Seq(g.vertices) /\ nbs \in Seq(SUBSET g.vertices) /\ Len(nbs) = Len(ord) /\ ord # <<>>
  /\ \A v \in g.vertices : \E i \in DOMAIN ord : ord[i] = v
  /\ \A i, j \in DOMAIN ord : ord[i] = ord[j] => i = j
  /\ \A i \in DOMAIN ord : \A w \in nbs[i] : \E j \in DOMAIN ord : j < i /\ ord[j] = w
  /\ \A e \in Edges(g) : Noted(ord, nbs, e[1], e[2])
  /\ \A i \in DOMAIN ord : \A u, w \in nbs[i] : u # w => Noted(ord, nbs, u, w)

(* The nodes that have been added: each is below one before it, whose bag  *)
(* has what its vertex noted.                                              *)
Built(ord, nbs, k, b) ==
  /\ k \in [1 .. Len(b) -> SUBSET (1 .. Len(b))]
  /\ \A i \in 1 .. Len(b) : b[i] = nbs[i] \cup {ord[i]}
  /\ \A q \in 1 .. Len(b) : 1 \notin k[q]
  /\ \A i \in 2 .. Len(b) : \E p \in 1 .. i - 1 :
       /\ nbs[i] \subseteq b[p]
       /\ \A q \in 1 .. Len(b) : i \in k[q] <=> q = p

LEMMA NatMax ==
  ASSUME NEW K \in Nat, NEW S \in SUBSET (1 .. K), S # {}
  PROVE  \E x \in S : \A y \in S : y <= x
<1> DEFINE R == {K - y : y \in S}
<1>1. R \subseteq Nat /\ R # {}
  <2>1. \A y \in S : y \in 1 .. K
    OBVIOUS
  <2>2. \A y \in S : K - y \in Nat
    BY <2>1
  <2> QED BY <2>2
<1>2. PICK r \in R : \A q \in R : r <= q
  BY <1>1, NatMin
<1>3. PICK x \in S : r = K - x
  OBVIOUS
<1>4. \A y \in S : K - x <= K - y
  BY <1>2, <1>3
<1> QED BY <1>4

LEMMA BuiltDecomp ==
  ASSUME NEW ord, NEW nbs, NEW k, NEW b, NEW g, Eliminates(ord, nbs, g), Built(ord, nbs, k, b),
         Len(b) = Len(ord), IsGraph(g)
  PROVE  Decomp(TdOf([n |-> Len(b), kids |-> k, bag |-> b], 1), Undirected(g))
<1> DEFINE m == Len(b)
           N == 1 .. m
           T == TdOf([n |-> Len(b), kids |-> k, bag |-> b], 1)
<1>1. m \in Nat /\ m >= 1 /\ DOMAIN ord = N /\ 1 \in N
  BY DEF Eliminates
<1>2. T.node = N /\ T.kids = k /\ T.bag = b /\ T.root = 1
  BY DEF TdOf
<1>3. /\ \A i \in N : b[i] = nbs[i] \cup {ord[i]}
      /\ \A q \in N : k[q] \subseteq N /\ 1 \notin k[q]
      /\ \A i \in 2 .. m : \E p \in 1 .. i - 1 :
           nbs[i] \subseteq b[p] /\ \A q \in N : i \in k[q] <=> q = p
  <2>1. k \in [N -> SUBSET N] /\ \A q \in N : 1 \notin k[q]
    BY DEF Built
  <2>2. \A q \in N : k[q] \subseteq N
    BY <2>1
  <2>3. /\ \A i \in N : b[i] = nbs[i] \cup {ord[i]}
        /\ \A i \in 2 .. m : \E p \in 1 .. i - 1 :
             nbs[i] \subseteq b[p] /\ \A q \in N : i \in k[q] <=> q = p
    BY Zenon DEF Built
  <2> HIDE DEF N, m
  <2> QED BY <2>1, <2>2, <2>3
<1>4. /\ \A v \in g.vertices : \E i \in N : ord[i] = v
      /\ \A i, j \in N : ord[i] = ord[j] => i = j
      /\ \A i \in N : \A w \in nbs[i] : \E j \in N : j < i /\ ord[j] = w
      /\ \A e \in Edges(g) : \E i \in N : \/ ord[i] = e[1] /\ e[2] \in nbs[i]
                                          \/ ord[i] = e[2] /\ e[1] \in nbs[i]
  <2> HIDE DEF N, m
  <2>1. /\ \A v \in g.vertices : \E i \in N : ord[i] = v
        /\ \A i, j \in N : ord[i] = ord[j] => i = j
        /\ \A i \in N : \A w \in nbs[i] : \E j \in N : j < i /\ ord[j] = w
        /\ \A e \in Edges(g) : Noted(ord, nbs, e[1], e[2])
    BY <1>1, Zenon DEF Eliminates
  <2>2. \A e \in Edges(g) : \E i \in N : \/ ord[i] = e[1] /\ e[2] \in nbs[i]
                                         \/ ord[i] = e[2] /\ e[1] \in nbs[i]
    BY <1>1, <2>1, Zenon DEF Noted
  <2> QED BY <2>1, <2>2, Zenon
<1> HIDE DEF T, m
<1>5. Parents(T, 1) = {}
  BY <1>2, <1>3 DEF Parents
<1>6. ASSUME NEW i \in N, i # 1
      PROVE  \E p \in N : p < i /\ Parents(T, i) = {p} /\ nbs[i] \subseteq b[p]
  <2>1. i \in 2 .. m
    BY <1>1, <1>6
  <2>2. PICK p \in 1 .. i - 1 : nbs[i] \subseteq b[p] /\ \A q \in N : i \in k[q] <=> q = p
    BY <1>3, <2>1
  <2>3. p \in N /\ p < i
    BY <1>1, <2>1
  <2> HIDE DEF N
  <2>4. Parents(T, i) = {p}
    BY <1>2, <2>2, <2>3 DEF Parents
  <2> QED BY <2>2, <2>3, <2>4
<1>7. ASSUME NEW P \in SUBSET N, 1 \in P, ClosedIn(T, P) PROVE P = N
  <2> SUFFICES ASSUME N \ P # {} PROVE FALSE
    OBVIOUS
  <2>1. N \ P \subseteq Nat
    OBVIOUS
  <2>2. PICK i \in N \ P : \A j \in N \ P : i <= j
    BY <2>1, NatMin
  <2>3. PICK p \in N : p < i /\ Parents(T, i) = {p}
    BY <1>6, <1>7
  <2>4. p \in P
    BY <1>1, <2>2, <2>3
  <2>5. i \in T.kids[p] /\ i \in T.node
    BY <1>2, <2>3 DEF Parents
  <2> QED BY <1>7, <2>4, <2>5 DEF ClosedIn
<1>8. Rooted(T)
  <2> HIDE DEF N
  <2> QED BY <1>2, <1>5, <1>6, <1>7 DEF Rooted
<1>9. Covers(T, Undirected(g))
  <2>1. /\ Undirected(g).vertex = g.vertices
        /\ \A e \in Undirected(g).edge : \E f \in Edges(g) : e = {f[1], f[2]}
    BY DEF Undirected
  <2> HIDE DEF N
  <2>2. \A v \in g.vertices : \E t \in T.node : v \in T.bag[t]
    BY <1>2, <1>3, <1>4
  <2>3. \A e \in Undirected(g).edge : \E t \in T.node : e \subseteq T.bag[t]
    <3> SUFFICES ASSUME NEW f \in Edges(g) PROVE \E t \in T.node : {f[1], f[2]} \subseteq T.bag[t]
      BY <2>1
    <3>1. PICK i \in N : (ord[i] = f[1] /\ f[2] \in nbs[i]) \/ (ord[i] = f[2] /\ f[1] \in nbs[i])
      BY <1>4
    <3>2. b[i] = nbs[i] \cup {ord[i]}
      BY <1>3
    <3> QED BY <1>2, <3>1, <3>2
  <2> QED BY <2>1, <2>2, <2>3 DEF Covers
<1>10. ASSUME NEW x \in g.vertices PROVE OneTop(T, x)
  <2>1. PICK j \in N : ord[j] = x
    BY <1>4
  <2>2. \A t : t \in Topmost(T, x) <=> t \in N /\ x \in b[t] /\ \A p \in Parents(T, t) : x \notin b[p]
    BY <1>2 DEF Topmost, Holding, Parents
  <2>3. \A t \in N : x \in b[t] => t = j \/ x \in nbs[t]
    BY <1>3, <1>4, <2>1
  <2>4. \A t \in N : x \in nbs[t] => j < t
    BY <1>4, <2>1
  <2>5. x \in b[j]
    BY <1>3, <2>1
  <2>6. j \in Topmost(T, x)
    <3> SUFFICES ASSUME NEW p \in Parents(T, j), x \in b[p] PROVE FALSE
      BY <2>2, <2>5
    <3>1. p \in N /\ p < j
      BY <1>5, <1>6
    <3>2. j < p
      BY <2>3, <2>4, <3>1
    <3> QED BY <3>1, <3>2
  <2>7. ASSUME NEW t \in Topmost(T, x), t # j PROVE FALSE
    <3>1. t \in N /\ x \in nbs[t] /\ j < t
      BY <2>2, <2>3, <2>4, <2>7
    <3>2. t # 1
      BY <3>1
    <3>3. PICK p \in N : Parents(T, t) = {p} /\ nbs[t] \subseteq b[p]
      BY <1>6, <3>1, <3>2
    <3> QED BY <2>2, <3>1, <3>3
  <2>8. Topmost(T, x) = {j}
    BY <2>6, <2>7
  <2> QED BY <2>8 DEF OneTop
<1>11. Undirected(g).vertex = g.vertices
  BY DEF Undirected
<1>12. Decomp(T, Undirected(g))
  BY <1>8, <1>9, <1>10, <1>11 DEF Decomp
<1> QED BY <1>12 DEF T

(* The node that the next is put below has what its vertex noted.          *)
LEMMA ParentFits ==
  ASSUME Eliminates(order, neighbors, graph), Built(order, neighbors, kids, bag),
         Len(bag) \in Nat, Len(bag) < Len(order), Len(bag) # 0, NEW i, i = Len(bag) + 1
  PROVE  H!Parent(i) \in 1 .. i - 1 /\ neighbors[i] \subseteq bag[H!Parent(i)]
<1> DEFINE found == {j \in 2 .. i - 1 : neighbors[i] \subseteq bag[j]}
           D == DOMAIN order
           B == 1 .. i - 1
<1>1. /\ i \in Nat /\ 1 < i /\ Len(order) \in Nat /\ D = 1 .. Len(order) /\ i \in D
      /\ B \subseteq D /\ 1 \in B /\ \A j \in D : j \in Nat /\ (j < i => j \in B)
  BY DEF Eliminates
<1>2. \A j \in B : bag[j] = neighbors[j] \cup {order[j]}
  <2>1. B = 1 .. Len(bag)
    OBVIOUS
  <2> HIDE DEF B
  <2> QED BY <2>1 DEF Built
<1>3. /\ \A j, k \in D : order[j] = order[k] => j = k
      /\ \A j \in D : \A w \in neighbors[j] : \E k \in D : k < j /\ order[k] = w
      /\ \A j \in D : \A u, w \in neighbors[j] : u # w => Noted(order, neighbors, u, w)
  BY Zenon DEF Eliminates
<1>4. H!Parent(i) = IF found = {} THEN 1 ELSE CHOOSE j \in found : \A k \in found : k <= j
  BY DEF H!Parent
<1>5. CASE found # {}
  <2>1. found \in SUBSET (1 .. i)
    BY <1>1
  <2>2. \E j \in found : \A k \in found : k <= j
    <3> HIDE DEF found
    <3> QED BY <1>1, <1>5, <2>1, NatMax
  <2>3. H!Parent(i) \in found
    <3> HIDE DEF found
    <3> QED BY <1>4, <1>5, <2>2
  <2> QED BY <1>1, <2>3
<1>6. CASE found = {}
  <2> DEFINE J == {j \in B : order[j] \in neighbors[i]}
  <2>1. \A w \in neighbors[i] : \E j \in J : order[j] = w
    <3> HIDE DEF D, B
    <3> QED BY <1>1, <1>3
  <2>2. CASE J = {}
    <3>1. neighbors[i] = {}
      <4> HIDE DEF J
      <4> QED BY <2>1, <2>2
    <3> QED BY <1>1, <1>4, <1>6, <3>1
  <2>3. CASE J # {}
    <3>1. J \in SUBSET (1 .. i)
      BY <1>1
    <3>2. PICK l \in J : \A j \in J : j <= l
      <4> HIDE DEF J
      <4> QED BY <1>1, <2>3, <3>1, NatMax
    <3>3. l \in B /\ l \in D /\ order[l] \in neighbors[i] /\ order[l] \in bag[l]
      <4> HIDE DEF B, D
      <4> QED BY <1>1, <1>2
    <3>4. ASSUME NEW w \in neighbors[i] PROVE w \in bag[l]
      <4>1. PICK k \in J : order[k] = w
        BY <2>1
      <4>2. k \in D /\ k \in B /\ k <= l
        <5> HIDE DEF B, D
        <5> QED BY <1>1, <3>2
      <4>3. CASE w = order[l]
        BY <3>3, <4>3
      <4>4. CASE w # order[l]
        <5> HIDE DEF B, D, J, found
        <5>1. Noted(order, neighbors, order[l], w)
          BY <1>1, <1>3, <3>3, <4>4
        <5>2. PICK j \in D : (order[j] = order[l] /\ w \in neighbors[j]) \/ (order[j] = w /\ order[l] \in neighbors[j])
          BY <5>1 DEF Noted, D
        <5>3. CASE order[j] = order[l] /\ w \in neighbors[j]
          BY <1>2, <1>3, <3>3, <5>3
        <5>4. CASE order[j] = w /\ order[l] \in neighbors[j]
          <6>1. j = k
            BY <1>3, <4>1, <4>2, <5>4
          <6>2. PICK q \in D : q < k /\ order[q] = order[l]
            BY <1>3, <5>4, <6>1
          <6>3. q = l
            BY <1>3, <3>3, <6>2
          <6> QED BY <1>1, <4>2, <6>2, <6>3
        <5> QED BY <5>2, <5>3, <5>4
      <4> QED BY <4>3, <4>4
    <3>5. neighbors[i] \subseteq bag[l]
      BY <3>4
    <3>6. l \notin 2 .. i - 1
      BY <1>6, <3>5
    <3>7. l = 1
      BY <1>1, <3>3, <3>6
    <3> HIDE DEF found, B
    <3> QED BY <1>1, <1>4, <1>6, <3>5, <3>7
  <2> QED BY <2>2, <2>3
<1> QED BY <1>5, <1>6

LEMMA AddNodeBuilds ==
  ASSUME Eliminates(order, neighbors, graph), Built(order, neighbors, kids, bag),
         bag \in Seq(SUBSET V), Len(bag) < Len(order), H!AddNode
  PROVE  /\ bag' \in Seq(SUBSET V) /\ Len(bag') = Len(bag) + 1
         /\ Built(order, neighbors, kids', bag')
<1> DEFINE i == Len(bag) + 1
<1>1. /\ bag' = Append(bag, neighbors[i] \cup {order[i]})
      /\ kids' = [j \in 1 .. i |-> IF j = i THEN {} ELSE kids[j] \cup IF j = H!Parent(i) THEN {i} ELSE {}]
  BY DEF H!AddNode
<1>2. Len(bag) \in Nat /\ i \in Nat /\ i \in 1 .. Len(order) /\ i \in DOMAIN order
  BY DEF Eliminates
<1>3. neighbors[i] \cup {order[i]} \in SUBSET V
  BY <1>2 DEF Eliminates, V
<1>4. /\ bag' \in Seq(SUBSET V) /\ Len(bag') = i
      /\ bag'[i] = neighbors[i] \cup {order[i]} /\ \A j \in 1 .. Len(bag) : bag'[j] = bag[j]
  <2> DEFINE x == neighbors[i] \cup {order[i]}
  <2>1. x \in SUBSET V /\ bag' = Append(bag, x)
    BY <1>1, <1>3
  <2> HIDE DEF x
  <2>2. bag' \in Seq(SUBSET V) /\ Len(bag') = i /\ bag'[i] = x /\ \A j \in 1 .. Len(bag) : bag'[j] = bag[j]
    BY <2>1
  <2> QED BY <2>2 DEF x
<1>5. /\ kids \in [1 .. Len(bag) -> SUBSET (1 .. Len(bag))]
      /\ \A j \in 1 .. Len(bag) : bag[j] = neighbors[j] \cup {order[j]}
      /\ \A q \in 1 .. Len(bag) : 1 \notin kids[q]
      /\ \A j \in 2 .. Len(bag) : \E p \in 1 .. j - 1 :
           neighbors[j] \subseteq bag[p] /\ \A q \in 1 .. Len(bag) : j \in kids[q] <=> q = p
  BY Zenon DEF Built
<1>6. i # 1 => H!Parent(i) \in 1 .. i - 1 /\ neighbors[i] \subseteq bag[H!Parent(i)]
  <2>1. i # 1 => Len(bag) # 0
    BY <1>2
  <2> QED BY <1>2, <2>1, ParentFits
<1> DEFINE K == 1 .. Len(bag)
           P == H!Parent(i)
<1>7. 1 .. i = K \cup {i} /\ i \notin K /\ 1 .. i - 1 = K
  BY <1>2
<1>8. /\ kids'[i] = {} /\ \A j \in K : kids'[j] = kids[j] \cup IF j = P THEN {i} ELSE {}
  <2> HIDE DEF K, i
  <2> QED BY <1>1, <1>7
<1>9. \A j \in K : kids[j] \subseteq K
  BY <1>5
<1> HIDE DEF P
<1>10. kids' \in [1 .. i -> SUBSET (1 .. i)]
  <2> HIDE DEF K, i
  <2>1. \A j \in 1 .. i : kids'[j] \in SUBSET (1 .. i)
    BY <1>7, <1>8, <1>9
  <2>2. \E f : kids' = [j \in 1 .. i |-> f[j]]
    <3>1. kids' = [j \in 1 .. i |-> kids'[j]]
      BY <1>1
    <3> QED BY <3>1
  <2> QED BY <2>1, <2>2
<1>11. \A j \in 1 .. i : bag'[j] = neighbors[j] \cup {order[j]}
  BY <1>4, <1>5, <1>7
<1>12. \A q \in 1 .. i : 1 \notin kids'[q]
  <2>1. i = 1 => K = {}
    OBVIOUS
  <2>2. \A q \in K : 1 \notin kids[q]
    BY <1>5
  <2> HIDE DEF K
  <2> QED BY <1>7, <1>8, <2>1, <2>2
<1>13. ASSUME NEW j \in 2 .. i
       PROVE  \E p \in 1 .. j - 1 : neighbors[j] \subseteq bag'[p] /\ \A q \in 1 .. i : j \in kids'[q] <=> q = p
  <2>1. CASE j = i
    <3>1. P \in 1 .. i - 1 /\ neighbors[i] \subseteq bag[P] /\ P \in K
      BY <1>6, <1>7, <2>1 DEF P
    <3>2. bag'[P] = bag[P]
      BY <1>4, <3>1
    <3>3. \A q \in K : i \notin kids[q]
      BY <1>7, <1>9
    <3> HIDE DEF K
    <3>4. \A q \in 1 .. i : i \in kids'[q] <=> q = P
      BY <1>7, <1>8, <3>1, <3>3
    <3> QED BY <2>1, <3>1, <3>2, <3>4
  <2>2. CASE j # i
    <3>1. j \in 2 .. Len(bag) /\ j \in K
      BY <1>2, <2>2
    <3>2. PICK p \in 1 .. j - 1 : neighbors[j] \subseteq bag[p] /\ \A q \in K : j \in kids[q] <=> q = p
      BY <1>5, <3>1
    <3>3. p \in K /\ bag'[p] = bag[p]
      BY <1>4, <3>1
    <3>4. \A q \in 1 .. i : j \in kids'[q] <=> q = p
      <4> HIDE DEF K
      <4> QED BY <1>7, <1>8, <2>2, <3>1, <3>2, <3>3
    <3> QED BY <3>2, <3>3, <3>4
  <2> QED BY <2>1, <2>2
<1> HIDE DEF i
<1>14. Built(order, neighbors, kids', bag')
  <2> DEFINE l == Len(bag')
  <2>1. l = i
    BY <1>4
  <2> HIDE DEF l
  <2>2. /\ kids' \in [1 .. l -> SUBSET (1 .. l)]
        /\ \A j \in 1 .. l : bag'[j] = neighbors[j] \cup {order[j]}
        /\ \A q \in 1 .. l : 1 \notin kids'[q]
    BY <1>10, <1>11, <1>12, <2>1
  <2>3. \A j \in 2 .. l : \E p \in 1 .. j - 1 :
          neighbors[j] \subseteq bag'[p] /\ \A q \in 1 .. l : j \in kids'[q] <=> q = p
    BY <1>13, <2>1, Zenon
  <2> QED BY <2>2, <2>3, Zenon DEF Built, l
<1> QED BY <1>4, <1>14 DEF i

-----------------------------------------------------------------------------
(***************************************************************************)
(* While vertices are taken out: what was noted of a vertex is left or was *)
(* taken out later; an edge of the graph, or of a clique that was made, is *)
(* an edge of what is left, or one end has noted the other.                *)
(***************************************************************************)
Joined(u, w) == w \in out[u] \/ u \in out[w]

Kept(u, w) == Joined(u, w) \/ Noted(order, neighbors, u, w)

NotesLater ==
  \A i \in DOMAIN order : \A w \in neighbors[i] :
    w \in H!Left \/ \E j \in DOMAIN order : j < i /\ order[j] = w

CliquesKept ==
  \A i \in DOMAIN order : (i # 1 \/ pc = "take") =>
    \A u, w \in neighbors[i] : u # w => Kept(u, w)

ElimInv ==
  /\ Len(neighbors) = Len(order)
  /\ \A i, j \in DOMAIN order : order[i] = order[j] => i = j
  /\ NotesLater /\ CliquesKept
  /\ \A e \in Edges(graph) : Kept(e[1], e[2])
  /\ pc = "out" => neighbors[1] = out[H!node]
  /\ pc = "in" => neighbors[1] = out[H!node] \cup (H!In(H!node) \ todo)

(* A step that takes no vertex out.                                        *)
LEMMA SameOrder ==
  ASSUME ElimInv, IsGraph(graph), neighbors \in Seq(SUBSET V), order \in Seq(V), order # <<>>,
         order' = order, graph' = graph, neighbors' \in Seq(SUBSET V), Len(neighbors') = Len(neighbors),
         \A i \in DOMAIN order : i # 1 => neighbors'[i] = neighbors[i],
         neighbors[1] \subseteq neighbors'[1], neighbors'[1] \subseteq neighbors[1] \cup H!Left,
         \A u, w \in V : Joined(u, w) => Kept(u, w)',
         pc' = "take" => \A u, w \in neighbors'[1] : u # w => Kept(u, w)',
         pc' = "out" => (neighbors[1] = out[H!node])',
         pc' = "in" => (neighbors[1] = out[H!node] \cup (H!In(H!node) \ todo))'
  PROVE  ElimInv'
<1>1. H!Left' = H!Left /\ V' = V
  BY DEF H!Left, H!Nodes, V
<1>2. \A i \in DOMAIN order : neighbors[i] \subseteq neighbors'[i]
  BY Zenon
<1>3. \A u, w : Noted(order, neighbors, u, w) => Noted(order, neighbors, u, w)'
  BY <1>2 DEF Noted
<1>4. \A u, w \in V : Kept(u, w) => Kept(u, w)'
  BY <1>3 DEF Kept
<1>5. \A i \in DOMAIN order : neighbors[i] \subseteq V
  BY DEF ElimInv
<1>6. CliquesKept'
  <2> SUFFICES ASSUME NEW i \in DOMAIN order, i # 1 \/ pc' = "take",
                      NEW u \in neighbors'[i], NEW w \in neighbors'[i], u # w
               PROVE  Kept(u, w)'
    BY DEF CliquesKept
  <2>1. CASE i = 1
    BY <2>1
  <2>2. CASE i # 1
    <3>1. u \in neighbors[i] /\ w \in neighbors[i]
      BY <2>2
    <3>2. Kept(u, w)
      BY <2>2, <3>1 DEF ElimInv, CliquesKept
    <3> QED BY <1>4, <1>5, <3>1, <3>2
  <2> QED BY <2>1, <2>2
<1>7. NotesLater'
  <2> SUFFICES ASSUME NEW i \in DOMAIN order, NEW w \in neighbors'[i]
               PROVE  w \in H!Left \/ \E j \in DOMAIN order : j < i /\ order[j] = w
    BY <1>1 DEF NotesLater
  <2>1. w \in neighbors[i] \/ w \in H!Left
    BY Zenon
  <2> QED BY <2>1 DEF ElimInv, NotesLater
<1>8. \A e \in Edges(graph)' : Kept(e[1], e[2])'
  <2>1. Edges(graph)' = Edges(graph)
    BY DEF Edges
  <2>2. \A e \in Edges(graph) : e[1] \in V /\ e[2] \in V
    BY EdgeEnds DEF V
  <2> QED BY <1>4, <2>1, <2>2 DEF ElimInv
<1>9. Len(neighbors') = Len(order') /\ \A i, j \in DOMAIN order' : order'[i] = order'[j] => i = j
  BY DEF ElimInv
<1> QED BY <1>6, <1>7, <1>8, <1>9 DEF ElimInv

LEMMA BeginElim ==
  ASSUME IsGraph(graph), H!Unstarted, H!Begin
  PROVE  ElimInv'
<1>1. /\ pc' = "take" /\ graph' = graph /\ out' = graph.out /\ order' = <<>> /\ neighbors' = <<>>
  BY DEF H!Begin, H!Unstarted
<1>2. Edges(graph)' = Edges(graph) /\ \A e \in Edges(graph) : Joined(e[1], e[2])'
  BY <1>1 DEF Edges, Joined
<1>3. DOMAIN order' = {} /\ Len(neighbors') = Len(order')
  BY <1>1
<1> QED BY <1>1, <1>2, <1>3 DEF ElimInv, CliquesKept, NotesLater, Kept

LEMMA TakeElim ==
  ASSUME IsGraph(graph), SearchInv, ElimInv, H!Take
  PROVE  ElimInv'
<1>1. PICK v \in H!Left :
        /\ order' = <<v>> \o order /\ neighbors' = <<out[v]>> \o neighbors
        /\ H!node' = v /\ H!Left' = H!Left \ {v}
  BY Taken
<1>2. pc = "take" /\ pc' = "out" /\ out' = out /\ graph' = graph
  BY DEF H!Take
<1>3. order \in Seq(V) /\ neighbors \in Seq(SUBSET V) /\ v \in V /\ out[v] \in SUBSET V
  BY DEF SearchInv, SearchTypes, H!Left, H!Nodes, V
<1>4. /\ order' # <<>> /\ Len(order') = Len(order) + 1 /\ order'[1] = v
      /\ DOMAIN order' = 1 .. Len(order) + 1 /\ DOMAIN order = 1 .. Len(order)
      /\ \A i \in DOMAIN order : order'[i + 1] = order[i]
  BY <1>1, <1>3, Prepend
<1>5. /\ Len(neighbors') = Len(neighbors) + 1 /\ neighbors'[1] = out[v]
      /\ DOMAIN neighbors = 1 .. Len(neighbors)
      /\ \A i \in DOMAIN neighbors : neighbors'[i + 1] = neighbors[i]
  BY <1>1, <1>3, Prepend
<1>6. Len(neighbors) = Len(order) /\ Len(order) \in Nat
  BY <1>3 DEF ElimInv
<1> DEFINE D == DOMAIN order
           E == DOMAIN order'
<1>7. /\ \A i \in D : i \in Nat /\ i + 1 \in E /\ i + 1 # 1 /\ order'[i + 1] = order[i] /\ neighbors'[i + 1] = neighbors[i]
      /\ \A k \in E : k = 1 \/ \E i \in D : k = i + 1
      /\ 1 \in E /\ \A k \in E : k \in Nat
  <2>1. \A k \in E : k = 1 \/ (k - 1 \in D /\ k = (k - 1) + 1)
    BY <1>4, <1>6
  <2>2. \A i \in D : i \in Nat /\ i + 1 \in E /\ i + 1 # 1
    BY <1>4, <1>6
  <2>3. \A i \in D : neighbors'[i + 1] = neighbors[i]
    BY <1>4, <1>5, <1>6
  <2>4. 1 \in E /\ \A k \in E : k \in Nat
    BY <1>4, <1>6
  <2>5. \A k \in E : k = 1 \/ \E i \in D : k = i + 1
    <3> HIDE DEF D, E
    <3> QED BY <2>1
  <2> QED BY <1>4, <2>2, <2>3, <2>4, <2>5
<1> HIDE DEF D, E
<1>8. \A i \in D : order[i] \notin H!Left
  BY DEF H!Left, D
<1>9. \A i, j \in E : order'[i] = order'[j] => i = j
  <2>1. \A i, j \in D : order[i] = order[j] => i = j
    BY DEF ElimInv, D
  <2> QED BY <1>4, <1>7, <1>8, <2>1
<1>10. NotesLater'
  <2>1. ASSUME NEW w \in neighbors'[1] PROVE w \in H!Left'
    <3>1. SearchInv'
      BY TakeStep
    <3> QED BY <1>2, <2>1, <3>1 DEF SearchInv, TodoNeighbors
  <2>2. ASSUME NEW i \in D, NEW w \in neighbors[i]
        PROVE  w \in H!Left' \/ \E j \in E : j < i + 1 /\ order'[j] = w
    <3>1. w \in H!Left \/ \E j \in D : j < i /\ order[j] = w
      BY DEF ElimInv, NotesLater, D
    <3>2. CASE w \in H!Left
      <4>1. w = v => 1 \in E /\ 1 < i + 1 /\ order'[1] = w
        <5>1. i \in Nat /\ i # 0
          BY <1>4, <1>6 DEF D
        <5> QED BY <1>4, <1>7, <5>1
      <4> QED BY <1>1, <3>2, <4>1
    <3>3. CASE \E j \in D : j < i /\ order[j] = w
      <4>1. PICK j \in D : j < i /\ order[j] = w
        BY <3>3
      <4>2. j + 1 \in E /\ j + 1 < i + 1 /\ order'[j + 1] = w
        BY <1>7, <4>1
      <4> QED BY <4>2
    <3> QED BY <3>1, <3>2, <3>3
  <2>3. \A k \in E : \A w \in neighbors'[k] : w \in H!Left' \/ \E j \in E : j < k /\ order'[j] = w
    BY <1>7, <2>1, <2>2
  <2> QED BY <2>3 DEF NotesLater, E
<1>11. \A u, w : Kept(u, w) => Kept(u, w)'
  <2>1. \A u, w : Noted(order, neighbors, u, w) => Noted(order', neighbors', u, w)
    BY <1>7 DEF Noted, D, E
  <2> QED BY <1>2, <2>1 DEF Kept, Joined
<1>12. CliquesKept'
  <2> SUFFICES ASSUME NEW k \in E, k # 1 \/ pc' = "take",
                      NEW u \in neighbors'[k], NEW w \in neighbors'[k], u # w
               PROVE  Kept(u, w)'
    BY DEF CliquesKept, E
  <2>1. PICK i \in D : k = i + 1
    BY <1>2, <1>7
  <2>2. Kept(u, w)
    BY <1>2, <1>7, <2>1 DEF ElimInv, CliquesKept, D
  <2> QED BY <1>11, <2>2
<1>13. \A e \in Edges(graph)' : Kept(e[1], e[2])'
  <2>1. Edges(graph)' = Edges(graph)
    BY <1>2 DEF Edges
  <2> QED BY <1>11, <2>1 DEF ElimInv
<1>14. Len(neighbors') = Len(order')
  BY <1>4, <1>5, <1>6
<1> QED BY <1>1, <1>2, <1>5, <1>9, <1>10, <1>12, <1>13, <1>14 DEF ElimInv, E

(* What every step of the search that takes no vertex out has in common.   *)
LEMMA InSearch ==
  ASSUME SearchInv, ElimInv, pc \in Searching, pc # "take"
  PROVE  /\ neighbors \in Seq(SUBSET V) /\ order \in Seq(V) /\ order # <<>>
         /\ 1 \in DOMAIN order /\ 1 \in DOMAIN neighbors /\ Len(neighbors) = Len(order)
         /\ order[1] \in V /\ neighbors[1] \subseteq H!Left /\ H!Left \subseteq V
         /\ out \in [V -> SUBSET V]
<1>1. neighbors \in Seq(SUBSET V) /\ order \in Seq(V) /\ out \in [V -> SUBSET V]
  BY DEF SearchInv, SearchTypes
<1>2. order # <<>> /\ neighbors # <<>> /\ neighbors[1] \subseteq H!Left
  BY DEF SearchInv, Progress, TodoNeighbors
<1>3. 1 \in DOMAIN order /\ 1 \in DOMAIN neighbors /\ order[1] \in V
  BY <1>1, <1>2
<1> QED BY <1>1, <1>2, <1>3 DEF ElimInv, H!Left, H!Nodes, V

LEMMA UpdateOutElim ==
  ASSUME IsGraph(graph), SearchInv, ElimInv, H!UpdateOut
  PROVE  ElimInv'
<1>1. /\ pc = "out" /\ pc' = pc /\ graph' = graph /\ out' = out
      /\ order' = order /\ neighbors' = neighbors
  BY DEF H!UpdateOut, H!graphVars
<1>2. neighbors \in Seq(SUBSET V) /\ order \in Seq(V) /\ order # <<>> /\ neighbors[1] = out[H!node]
  BY <1>1, InSearch DEF Searching, ElimInv
<1>3. (neighbors[1] = out[H!node])'
  BY <1>1, <1>2 DEF H!node
<1>4. \A u, w \in V : Joined(u, w) => Kept(u, w)'
  BY <1>1 DEF Joined, Kept
<1>5. neighbors[1] \subseteq neighbors'[1] /\ neighbors'[1] \subseteq neighbors[1] \cup H!Left
  BY <1>1
<1> QED BY <1>1, <1>2, <1>3, <1>4, <1>5, SameOrder

LEMMA OutDoneElim ==
  ASSUME IsGraph(graph), SearchInv, ElimInv, H!OutDone
  PROVE  ElimInv'
<1>1. /\ pc = "out" /\ pc' = "in" /\ todo' = H!In(H!node) /\ graph' = graph /\ out' = out
      /\ order' = order /\ neighbors' = neighbors
  BY DEF H!OutDone, H!graphVars
<1>2. neighbors \in Seq(SUBSET V) /\ order \in Seq(V) /\ order # <<>> /\ neighbors[1] = out[H!node]
  BY <1>1, InSearch DEF Searching, ElimInv
<1>3. (neighbors[1] = out[H!node] \cup (H!In(H!node) \ todo))'
  BY <1>1, <1>2 DEF H!node, H!In, H!Nodes
<1>4. \A u, w \in V : Joined(u, w) => Kept(u, w)'
  BY <1>1 DEF Joined, Kept
<1>5. neighbors[1] \subseteq neighbors'[1] /\ neighbors'[1] \subseteq neighbors[1] \cup H!Left
  BY <1>1
<1> QED BY <1>1, <1>2, <1>3, <1>4, <1>5, SameOrder

LEMMA UpdateInElim ==
  ASSUME IsGraph(graph), SearchInv, ElimInv, H!UpdateIn
  PROVE  ElimInv'
<1>1. /\ pc = "in" /\ pc' = pc /\ graph' = graph /\ out' = out /\ order' = order
      /\ \E v \in todo : neighbors' = [neighbors EXCEPT ![1] = @ \cup {v}] /\ todo' = todo \ {v}
  BY DEF H!UpdateIn
<1>2. PICK v \in todo : neighbors' = [neighbors EXCEPT ![1] = @ \cup {v}] /\ todo' = todo \ {v}
  BY <1>1
<1>3. /\ neighbors \in Seq(SUBSET V) /\ order \in Seq(V) /\ order # <<>>
      /\ 1 \in DOMAIN order /\ 1 \in DOMAIN neighbors /\ Len(neighbors) = Len(order)
      /\ H!Left \subseteq V /\ neighbors[1] = out[H!node] \cup (H!In(H!node) \ todo)
  BY <1>1, InSearch DEF Searching, ElimInv
<1>4. SearchInv'
  BY UpdateInStep
<1>5. neighbors'[1] = neighbors[1] \cup {v} /\ \A i \in DOMAIN order : i # 1 => neighbors'[i] = neighbors[i]
  BY <1>2, <1>3
<1>6. H!Left' = H!Left
  BY <1>1 DEF H!Left, H!Nodes
<1>7. neighbors'[1] \subseteq H!Left
  BY <1>1, <1>4, <1>6 DEF SearchInv, TodoNeighbors
<1>8. v \in H!In(H!node)
  BY <1>1, <1>2 DEF SearchInv, TodoNeighbors
<1>9. H!node' = H!node /\ H!In(H!node)' = H!In(H!node)
  BY <1>1 DEF H!node, H!In, H!Nodes
<1>10. (neighbors[1] = out[H!node] \cup (H!In(H!node) \ todo))'
  BY <1>1, <1>2, <1>3, <1>5, <1>8, <1>9
<1>11. \A u, w : Noted(order, neighbors, u, w) => Noted(order, neighbors, u, w)'
  BY <1>1, <1>5 DEF Noted
<1>12. \A u, w \in V : Joined(u, w) => Kept(u, w)'
  BY <1>1 DEF Joined, Kept
<1>13. neighbors' \in Seq(SUBSET V) /\ Len(neighbors') = Len(neighbors)
  <2>1. neighbors' \in Seq(SUBSET V')
    BY <1>4 DEF SearchInv, SearchTypes
  <2>2. V' = V
    BY <1>1 DEF V
  <2> QED BY <1>2, <1>3, <2>1, <2>2
<1>14. neighbors[1] \subseteq neighbors'[1] /\ neighbors'[1] \subseteq neighbors[1] \cup H!Left
  BY <1>5, <1>7
<1> QED BY <1>1, <1>3, <1>5, <1>10, <1>12, <1>13, <1>14, SameOrder

(* The edges of the vertex that is cleared are noted: with it.             *)
LEMMA ClearElim ==
  ASSUME IsGraph(graph), SearchInv, ElimInv, H!Clear
  PROVE  ElimInv'
<1>1. /\ pc = "in" /\ pc' = "clique" /\ todo = {} /\ graph' = graph /\ order' = order /\ neighbors' = neighbors
      /\ out' = [v \in V |-> IF v = H!node THEN {} ELSE out[v] \ {H!node}]
  BY DEF H!Clear, H!Nodes, V
<1>2. /\ neighbors \in Seq(SUBSET V) /\ order \in Seq(V) /\ order # <<>>
      /\ 1 \in DOMAIN order /\ neighbors[1] = out[H!node] \cup H!In(H!node)
  BY <1>1, InSearch DEF Searching, ElimInv
<1>3. ASSUME NEW u \in V, NEW w \in V, Joined(u, w) PROVE Kept(u, w)'
  <2>1. CASE u # H!node /\ w # H!node
    BY <1>1, <1>3, <2>1 DEF Joined, Kept
  <2>2. CASE u = H!node
    <3>1. w \in neighbors[1]
      BY <1>2, <1>3, <2>2 DEF Joined, H!In, H!Nodes, V
    <3>2. order[1] = u
      BY <2>2 DEF H!node
    <3> QED BY <1>1, <1>2, <3>1, <3>2 DEF Kept, Noted
  <2>3. CASE w = H!node
    <3>1. u \in neighbors[1]
      BY <1>2, <1>3, <2>3 DEF Joined, H!In, H!Nodes, V
    <3>2. order[1] = w
      BY <2>3 DEF H!node
    <3> QED BY <1>1, <1>2, <3>1, <3>2 DEF Kept, Noted
  <2> QED BY <2>1, <2>2, <2>3
<1>4. neighbors[1] \subseteq neighbors'[1] /\ neighbors'[1] \subseteq neighbors[1] \cup H!Left
  BY <1>1
<1> QED BY <1>1, <1>2, <1>3, <1>4, SameOrder

LEMMA AddEdgeElim ==
  ASSUME IsGraph(graph), SearchInv, ElimInv, H!AddEdge
  PROVE  ElimInv'
<1>1. /\ pc = "clique" /\ pc' = pc /\ graph' = graph /\ order' = order /\ neighbors' = neighbors
      /\ \E e \in H!Missing : out' = [out EXCEPT ![e[1]] = @ \cup {e[2]}]
  BY DEF H!AddEdge
<1>2. neighbors \in Seq(SUBSET V) /\ order \in Seq(V) /\ order # <<>> /\ out \in [V -> SUBSET V]
  BY <1>1, InSearch DEF Searching
<1>3. \A u \in V : out[u] \subseteq out'[u]
  BY <1>1, <1>2
<1>4. \A u, w \in V : Joined(u, w) => Kept(u, w)'
  BY <1>3 DEF Joined, Kept
<1>5. neighbors[1] \subseteq neighbors'[1] /\ neighbors'[1] \subseteq neighbors[1] \cup H!Left
  BY <1>1
<1> QED BY <1>1, <1>2, <1>4, <1>5, SameOrder

(* No edge of the clique is missing any more.                              *)
LEMMA CliqueMade ==
  ASSUME IsGraph(graph), SearchInv, ElimInv, pc = "clique", H!Missing = {},
         NEW u \in neighbors[1], NEW w \in neighbors[1], u # w
  PROVE  Joined(u, w)
<1>1. u \in V /\ w \in V
  BY InSearch DEF Searching
<1>2. V \subseteq Nat
  BY DEF IsGraph, V
<1>3. u < w \/ w < u
  BY <1>1, <1>2
<1>4. CASE u < w
  <2>1. <<u, w>> \in neighbors[1] \X neighbors[1] /\ <<u, w>> \notin H!Missing
    OBVIOUS
  <2> QED BY <1>4, <2>1 DEF H!Missing, Joined
<1>5. CASE w < u
  <2>1. <<w, u>> \in neighbors[1] \X neighbors[1] /\ <<w, u>> \notin H!Missing
    OBVIOUS
  <2> QED BY <1>5, <2>1 DEF H!Missing, Joined
<1> QED BY <1>3, <1>4, <1>5

LEMMA EliminatedElim ==
  ASSUME IsGraph(graph), SearchInv, ElimInv, H!Eliminated, pc' = "take"
  PROVE  ElimInv'
<1>1. /\ pc = "clique" /\ H!Missing = {} /\ graph' = graph /\ out' = out
      /\ order' = order /\ neighbors' = neighbors
  BY DEF H!Eliminated, H!graphVars
<1>2. neighbors \in Seq(SUBSET V) /\ order \in Seq(V) /\ order # <<>>
  BY <1>1, InSearch DEF Searching
<1>3. \A u, w \in neighbors[1] : u # w => Joined(u, w)
  BY <1>1, CliqueMade
<1>4. \A u, w \in neighbors'[1] : u # w => Kept(u, w)'
  BY <1>1, <1>3 DEF Joined, Kept
<1>5. \A u, w \in V : Joined(u, w) => Kept(u, w)'
  BY <1>1 DEF Joined, Kept
<1>6. neighbors[1] \subseteq neighbors'[1] /\ neighbors'[1] \subseteq neighbors[1] \cup H!Left
  BY <1>1
<1> QED BY <1>1, <1>2, <1>4, <1>5, <1>6, SameOrder

(* When every vertex has been taken out, no edge is left but the noted.    *)
LEMMA EliminatedAll ==
  ASSUME IsGraph(graph), SearchInv, ElimInv, H!Eliminated, pc' = "tree"
  PROVE  Eliminates(order, neighbors, graph)
<1>1. pc = "clique" /\ H!Missing = {} /\ Len(order) = Cardinality(V)
  BY SameCardinality DEF H!Eliminated, H!Nodes, V
<1>2. /\ neighbors \in Seq(SUBSET V) /\ order \in Seq(V) /\ order # <<>>
      /\ Len(neighbors) = Len(order) /\ 1 \in DOMAIN order
  BY <1>1, InSearch DEF Searching
<1>3. H!Left = {}
  <2>1. IsFiniteSet(V)
    BY DEF IsGraph, V
  <2>2. IsFiniteSet(H!Left) /\ H!Left \subseteq V
    BY <2>1, FS_Subset DEF H!Left, H!Nodes, V
  <2>3. Cardinality(H!Left) = Cardinality(V) - Len(order)
    BY DEF SearchInv, Progress
  <2>4. Cardinality(V) \in Nat
    BY <2>1, FS_CardinalityType
  <2> QED BY <1>1, <2>2, <2>3, <2>4, FS_EmptySet
<1>4. \A u, w \in V : ~Joined(u, w)
  BY <1>1, <1>3 DEF SearchInv, Isolated, Joined
<1>5. \A u, w \in V : Kept(u, w) => Noted(order, neighbors, u, w)
  BY <1>4 DEF Kept
<1>6. \A e \in Edges(graph) : Noted(order, neighbors, e[1], e[2])
  <2>1. \A e \in Edges(graph) : e[1] \in V /\ e[2] \in V
    BY EdgeEnds DEF V
  <2> QED BY <1>5, <2>1 DEF ElimInv
<1>7. \A i \in DOMAIN order : order[i] \in V /\ neighbors[i] \subseteq V
  BY <1>2
<1>8. \A i \in DOMAIN order : \A u, w \in neighbors[i] : u # w => Noted(order, neighbors, u, w)
  <2> SUFFICES ASSUME NEW i \in DOMAIN order, NEW u \in neighbors[i], NEW w \in neighbors[i], u # w
               PROVE  Noted(order, neighbors, u, w)
    OBVIOUS
  <2>1. u \in V /\ w \in V
    BY <1>7
  <2>2. CASE i = 1
    BY <1>1, <1>4, <2>1, <2>2, CliqueMade
  <2>3. CASE i # 1
    BY <1>5, <2>1, <2>3 DEF ElimInv, CliquesKept
  <2> QED BY <2>2, <2>3
<1>9. \A v \in V : \E i \in DOMAIN order : order[i] = v
  BY <1>3 DEF H!Left, H!Nodes, V
<1>10. \A i \in DOMAIN order : \A w \in neighbors[i] : \E j \in DOMAIN order : j < i /\ order[j] = w
  BY <1>3 DEF ElimInv, NotesLater
<1>11. \A i, j \in DOMAIN order : order[i] = order[j] => i = j
  BY DEF ElimInv
<1> QED BY <1>2, <1>6, <1>7, <1>8, <1>9, <1>10, <1>11, Zenon DEF Eliminates, V

-----------------------------------------------------------------------------
(***************************************************************************)
(* The decomposition while it is generated, and when it is.                *)
(***************************************************************************)
Made == [n |-> Len(bag), kids |-> kids, bag |-> bag]

GenerateInv ==
  /\ pc \in {"start"} \cup Searching => kids = <<>> /\ bag = <<>>
  /\ pc \in Searching => ElimInv
  /\ pc = "tree" => /\ Eliminates(order, neighbors, graph)
                    /\ Built(order, neighbors, kids, bag)
                    /\ bag \in Seq(SUBSET V) /\ Len(bag) < Len(order)
  /\ pc = "done" => IsGiven(Made) /\ Decomp(TdOf(Made, 1), Undirected(graph))

LEMMA EmptyGenerates ==
  ASSUME IsGraph(graph), H!EmptyGraph
  PROVE  GenerateInv'
<1>1. /\ V = {} /\ kids' = <<{}>> /\ bag' = <<{}>> /\ pc' = "done" /\ graph' = graph
  BY DEF H!EmptyGraph, H!graphVars, H!Nodes, V
<1> DEFINE T == TdOf(Made, 1)'
           g == Undirected(graph)'
<1>2. Made' = [n |-> 1, kids |-> <<{}>>, bag |-> <<{}>>]
  BY <1>1 DEF Made
<1>3. IsGiven(Made')
  <2>1. Made'.n = 1 /\ Made'.kids = <<{}>> /\ Made'.bag = <<{}>> /\ 1 .. 1 = {1}
    BY <1>2
  <2>2. Made'.kids \in [1 .. 1 -> SUBSET (1 .. 1)] /\ Made'.bag \in [1 .. 1 -> SUBSET Nat]
        /\ Made'.bag[1] = {}
    BY <2>1
  <2>3. IsFiniteSet({})
    BY FS_EmptySet
  <2> QED BY <2>1, <2>2, <2>3 DEF IsGiven
<1>4. T.node = {1} /\ T.root = 1 /\ T.kids[1] = {} /\ T.bag[1] = {}
  BY <1>2 DEF TdOf
<1>5. g.vertex = {} /\ g.edge = {}
  <2>1. Edges(graph') = {}
    BY <1>1 DEF Edges, V
  <2> QED BY <1>1, <2>1 DEF Undirected, V
<1> HIDE DEF T, g
<1>6. Rooted(T)
  BY <1>4 DEF Rooted, Parents
<1>7. Covers(T, g)
  BY <1>5 DEF Covers
<1>8. Decomp(T, g)
  BY <1>5, <1>6, <1>7 DEF Decomp
<1> QED BY <1>1, <1>3, <1>8 DEF GenerateInv, T, g, Searching

(* The first node is still to be added.                                    *)
LEMMA NothingBuilt ==
  ASSUME Eliminates(order, neighbors, graph), kids = <<>>, bag = <<>>
  PROVE  Built(order, neighbors, kids, bag) /\ bag \in Seq(SUBSET V) /\ Len(bag) < Len(order)
<1>1. Len(bag) = 0 /\ bag \in Seq(SUBSET V)
  OBVIOUS
<1>2. Len(order) \in Nat /\ Len(order) # 0
  BY DEF Eliminates
<1>3. kids \in [1 .. 0 -> SUBSET (1 .. 0)] /\ 1 .. 0 = {} /\ 2 .. 0 = {}
  OBVIOUS
<1> QED BY <1>1, <1>2, <1>3 DEF Built

LEMMA AddNodeGenerates ==
  ASSUME IsGraph(graph), GenerateInv, H!AddNode
  PROVE  GenerateInv'
<1>1. /\ pc = "tree" /\ pc' = (IF Len(bag) + 1 = Len(order) THEN "done" ELSE "tree")
      /\ order' = order /\ neighbors' = neighbors /\ graph' = graph
  BY DEF H!AddNode, H!graphVars
<1>2. /\ Eliminates(order, neighbors, graph) /\ Built(order, neighbors, kids, bag)
      /\ bag \in Seq(SUBSET V) /\ Len(bag) < Len(order)
  BY <1>1 DEF GenerateInv
<1>3. bag' \in Seq(SUBSET V) /\ Len(bag') = Len(bag) + 1 /\ Built(order, neighbors, kids', bag')
  BY <1>2, AddNodeBuilds
<1>4. Len(bag) \in Nat /\ Len(bag') \in Nat /\ Len(order) \in Nat
  BY <1>2, <1>3 DEF Eliminates
<1>5. CASE pc' = "tree"
  <2>1. Len(bag') < Len(order)
    BY <1>1, <1>2, <1>3, <1>4, <1>5
  <2> QED BY <1>1, <1>2, <1>3, <1>5, <2>1 DEF GenerateInv, Searching, V
<1>6. CASE pc' = "done"
  <2>1. Len(bag') = Len(order)
    BY <1>1, <1>3, <1>6
  <2>2. Decomp(TdOf([n |-> Len(bag'), kids |-> kids', bag |-> bag'], 1), Undirected(graph))
    BY <1>2, <1>3, <2>1, BuiltDecomp
  <2>3. Decomp(TdOf(Made, 1), Undirected(graph))'
    BY <1>1, <2>2 DEF Made
  <2>4. IsGiven(Made')
    <3>1. Made'.n = Len(bag') /\ Made'.kids = kids' /\ Made'.bag = bag'
      BY DEF Made
    <3>2. kids' \in [1 .. Len(bag') -> SUBSET (1 .. Len(bag'))]
      BY <1>3 DEF Built
    <3>3. V \subseteq Nat /\ IsFiniteSet(V)
      BY DEF IsGraph, V
    <3>4. bag' \in [1 .. Len(bag') -> SUBSET V]
      BY <1>3
    <3>5. bag' \in [1 .. Len(bag') -> SUBSET Nat]
      BY <3>3, <3>4
    <3>6. \A v \in 1 .. Len(bag') : IsFiniteSet(bag'[v])
      BY <3>3, <3>4, FS_Subset
    <3>7. Len(bag') \in Nat \ {0}
      BY <1>3, <1>4
    <3> QED BY <3>1, <3>2, <3>5, <3>6, <3>7 DEF IsGiven
  <2> QED BY <1>6, <2>3, <2>4 DEF GenerateInv, Searching
<1> QED BY <1>1, <1>5, <1>6

LEMMA SearchGenerates ==
  ASSUME PreInv, stage = "generate", GenerateInv,
         \/ H!EmptyGraph \/ H!Begin \/ H!Take \/ H!UpdateOut \/ H!OutDone \/ H!UpdateIn
         \/ H!Clear \/ H!AddEdge \/ H!Eliminated \/ H!AddNode
  PROVE  GenerateInv'
<1>1. /\ IsGraph(graph) /\ (pc = "start" => H!Unstarted) /\ (pc \in Searching => SearchInv)
      /\ pc \in {"start"} \cup Searching => kids = <<>> /\ bag = <<>>
      /\ pc \in Searching => ElimInv
  BY DEF PreInv, GenerateInv
<1>2. ASSUME pc \in {"start"} \cup Searching, kids' = kids, bag' = bag, pc' \in Searching, ElimInv'
      PROVE  GenerateInv'
  BY <1>1, <1>2 DEF GenerateInv, Searching
<1>3. CASE H!EmptyGraph
  BY <1>1, <1>3, EmptyGenerates
<1>4. CASE H!Begin
  <2>1. pc = "start" /\ pc' = "take" /\ kids' = kids /\ bag' = bag
    BY <1>4 DEF H!Begin, H!treeVars
  <2>2. ElimInv'
    BY <1>1, <1>4, <2>1, BeginElim
  <2> QED BY <1>2, <2>1, <2>2 DEF Searching
<1>5. CASE H!Take
  <2>1. pc = "take" /\ pc' = "out" /\ kids' = kids /\ bag' = bag
    BY <1>5 DEF H!Take, H!treeVars
  <2>2. ElimInv'
    BY <1>1, <1>5, <2>1, TakeElim DEF Searching
  <2> QED BY <1>2, <2>1, <2>2 DEF Searching
<1>6. CASE H!UpdateOut
  <2>1. pc = "out" /\ pc' = "out" /\ kids' = kids /\ bag' = bag
    BY <1>6 DEF H!UpdateOut, H!treeVars
  <2>2. ElimInv'
    BY <1>1, <1>6, <2>1, UpdateOutElim DEF Searching
  <2> QED BY <1>2, <2>1, <2>2 DEF Searching
<1>7. CASE H!OutDone
  <2>1. pc = "out" /\ pc' = "in" /\ kids' = kids /\ bag' = bag
    BY <1>7 DEF H!OutDone, H!treeVars
  <2>2. ElimInv'
    BY <1>1, <1>7, <2>1, OutDoneElim DEF Searching
  <2> QED BY <1>2, <2>1, <2>2 DEF Searching
<1>8. CASE H!UpdateIn
  <2>1. pc = "in" /\ pc' = "in" /\ kids' = kids /\ bag' = bag
    BY <1>8 DEF H!UpdateIn, H!treeVars
  <2>2. ElimInv'
    BY <1>1, <1>8, <2>1, UpdateInElim DEF Searching
  <2> QED BY <1>2, <2>1, <2>2 DEF Searching
<1>9. CASE H!Clear
  <2>1. pc = "in" /\ pc' = "clique" /\ kids' = kids /\ bag' = bag
    BY <1>9 DEF H!Clear, H!treeVars
  <2>2. ElimInv'
    BY <1>1, <1>9, <2>1, ClearElim DEF Searching
  <2> QED BY <1>2, <2>1, <2>2 DEF Searching
<1>10. CASE H!AddEdge
  <2>1. pc = "clique" /\ pc' = "clique" /\ kids' = kids /\ bag' = bag
    BY <1>10 DEF H!AddEdge, H!treeVars
  <2>2. ElimInv'
    BY <1>1, <1>10, <2>1, AddEdgeElim DEF Searching
  <2> QED BY <1>2, <2>1, <2>2 DEF Searching
<1>11. CASE H!Eliminated
  <2>1. /\ pc = "clique" /\ pc' \in {"take", "tree"} /\ kids' = kids /\ bag' = bag
        /\ order' = order /\ neighbors' = neighbors /\ graph' = graph
    BY <1>11 DEF H!Eliminated, H!treeVars, H!graphVars
  <2>2. CASE pc' = "take"
    <3>1. ElimInv'
      BY <1>1, <1>11, <2>1, <2>2, EliminatedElim DEF Searching
    <3> QED BY <1>2, <2>1, <2>2, <3>1 DEF Searching
  <2>3. CASE pc' = "tree"
    <3>1. Eliminates(order, neighbors, graph)
      BY <1>1, <1>11, <2>1, <2>3, EliminatedAll DEF Searching
    <3>2. Built(order, neighbors, kids, bag) /\ bag \in Seq(SUBSET V) /\ Len(bag) < Len(order)
      BY <1>1, <2>1, <3>1, NothingBuilt DEF Searching
    <3> QED BY <2>1, <2>3, <3>1, <3>2 DEF GenerateInv, Searching, V
  <2> QED BY <2>1, <2>2, <2>3
<1>12. CASE H!AddNode
  BY <1>1, <1>12, AddNodeGenerates
<1> QED BY <1>3, <1>4, <1>5, <1>6, <1>7, <1>8, <1>9, <1>10, <1>11, <1>12

(* The decomposition with the leaves of the edges is one as they are given. *)
LEMMA ExtendedGiven ==
  ASSUME NEW T, IsGiven(T), NEW g, IsGraph(g), Numbered(g)
  PROVE  IsGiven(Extended(T, g)) /\ T.n <= Extended(T, g).n
<1> DEFINE m == Cardinality(Edges(g))
           all == 1 .. T.n + m
           node(e) == T.n + EdgeVertex(g, e) - Cardinality(g.vertices)
           below == [t \in all |-> {node(e) : e \in {f \in Edges(g) : Host(T, f) = t}}]
           new == [t \in all |-> UNION {{e[1], e[2], EdgeVertex(g, e)} : e \in {f \in Edges(g) : node(f) = t}}]
           U == Extended(T, g)
           W == g.vertices \cup EdgeVertices(g)
<1>1. /\ U.n = T.n + m
      /\ U.kids = [t \in all |-> IF t <= T.n THEN T.kids[t] \cup below[t] ELSE {}]
      /\ U.bag = [t \in all |-> IF t <= T.n THEN T.bag[t] ELSE new[t]]
  BY DEF Extended
<1>2. /\ T.n \in Nat \ {0} /\ m \in Nat /\ T.kids \in [1 .. T.n -> SUBSET (1 .. T.n)]
      /\ T.bag \in [1 .. T.n -> SUBSET Nat] /\ \A v \in 1 .. T.n : IsFiniteSet(T.bag[v])
  BY EdgesFinite DEF IsGiven
<1>3. W \subseteq Nat /\ IsFiniteSet(W)
  <2>1. IncidenceOf(g).vertices = W /\ IsGraph(IncidenceOf(g))
    BY IncidenceParts, IncidenceIsGraph
  <2> QED BY <2>1 DEF IsGraph
<1>4. \A t \in all : below[t] \subseteq all
  <2>1. \A e \in Edges(g) : node(e) \in all
    <3> SUFFICES ASSUME NEW e \in Edges(g) PROVE node(e) \in all
      OBVIOUS
    <3>1. EdgeVertex(g, e) \in Cardinality(g.vertices) + 1 .. Cardinality(g.vertices) + m
      BY EdgeVertexRange
    <3>2. Cardinality(g.vertices) \in Nat
      BY EdgesFinite
    <3> QED BY <1>2, <3>1, <3>2
  <2> HIDE DEF node, all
  <2> QED BY <2>1
<1>5. \A t \in all : new[t] \subseteq W
  <2>1. \A e \in Edges(g) : {e[1], e[2], EdgeVertex(g, e)} \subseteq W
    BY EdgeEnds DEF EdgeVertices
  <2> HIDE DEF node, all, W
  <2> QED BY <2>1
<1> HIDE DEF below, new, W, m, U
<1>6. U.n \in Nat \ {0} /\ T.n <= U.n
  BY <1>1, <1>2
<1>7. U.kids \in [all -> SUBSET all]
  <2>1. \A t \in all : t <= T.n => T.kids[t] \subseteq all
    BY <1>2
  <2> HIDE DEF all
  <2> QED BY <1>1, <1>4, <2>1
<1>8. /\ U.bag \in [all -> SUBSET Nat]
      /\ \A t \in all : IsFiniteSet(U.bag[t])
  <2>1. \A t \in all : t <= T.n => t \in 1 .. T.n
    BY <1>2
  <2>2. \A t \in all : t <= T.n => T.bag[t] \subseteq Nat /\ IsFiniteSet(T.bag[t])
    BY <1>2, <2>1
  <2>3. \A t \in all : new[t] \subseteq Nat /\ IsFiniteSet(new[t])
    BY <1>3, <1>5, FS_Subset
  <2> HIDE DEF all
  <2> QED BY <1>1, <2>2, <2>3
<1>9. 1 .. U.n = all
  BY <1>1
<1> QED BY <1>6, <1>7, <1>8, <1>9 DEF IsGiven, U

(***************************************************************************)
(* The nodes there are: none while a decomposition is generated, those of  *)
(* the one given before make_nice(), and from then on those of IInv.       *)
(***************************************************************************)
Preparing == {"setup", "generate"}

NoneYet ==
  /\ n = 0 /\ root = 0
  /\ stage = "setup" => H!Unstarted /\ kids = <<>> /\ bag = <<>>

AsGiven ==
  /\ IsGiven(given) /\ input = given
  /\ n = given.n /\ kids = given.kids /\ bag = given.bag
  /\ root \in 0 .. n

NodesInv ==
  /\ stage = "generate" => given = NoTd /\ GenerateInv
  /\ stage \in Preparing => last = 1 /\ done = FALSE
  /\ stage \in Preparing /\ given = NoTd => NoneYet
  /\ stage = "setup" /\ given # NoTd => AsGiven
  /\ stage \notin Preparing => IInv

(* A decomposition that make_nice() has not begun to repair.               *)
Fresh ==
  /\ IsGiven(input) /\ n = input.n /\ kids = input.kids /\ bag = input.bag
  /\ root \in 0 .. n /\ last = 1 /\ done = FALSE

LEMMA FreshIInv == Fresh => IInv
<1> SUFFICES ASSUME Fresh PROVE IInv
  OBVIOUS
<1>1. /\ n \in Nat \ {0} /\ kids \in [1 .. n -> SUBSET (1 .. n)]
      /\ bag \in [1 .. n -> SUBSET Nat]
  BY DEF Fresh, IsGiven
<1>2. IsGiven(input) /\ root \in 0 .. n /\ last = 1 /\ done \in BOOLEAN
  BY DEF Fresh
<1>3. root \in 1 .. n \cup {0} /\ last \in 1 .. n
  BY <1>1, <1>2
<1>4. TypeOK
  BY <1>1, <1>2, <1>3, Zenon DEF TypeOK, Node
<1>5. BagsWithin
  BY <1>1 DEF Fresh, BagsWithin, Node
<1>6. NiceBehind
  BY <1>1 DEF Fresh, NiceBehind, Node
<1> QED BY <1>4, <1>5, <1>6 DEF IInv

LEMMA FreshNext == Fresh' => IInv'
BY FreshIInv, PTL

LEMMA InitNodes == PreInit => NodesInv
<1> SUFFICES ASSUME PreInit PROVE NodesInv
  OBVIOUS
<1>1. PICK c \in Cases : given = c.td /\ n = c.td.n /\ kids = c.td.kids /\ bag = c.td.bag /\ input = c.td
  BY DEF PreInit
<1>2. root = 0 /\ last = 1 /\ done = FALSE /\ stage = "setup" /\ H!Unstarted
  BY DEF PreInit
<1>3. given = NoTd \/ IsGiven(given)
  BY <1>1, PreSolveAssumption
<1>4. CASE given = NoTd
  BY <1>1, <1>2, <1>4 DEF NodesInv, NoneYet, NoTd, Preparing
<1>5. CASE given # NoTd
  <2>1. given.n \in Nat
    BY <1>3, <1>5 DEF IsGiven
  <2>2. AsGiven
    BY <1>1, <1>2, <1>3, <1>5, <2>1 DEF AsGiven
  <2> QED BY <1>2, <1>5, <2>2 DEF NodesInv, Preparing
<1> QED BY <1>4, <1>5

LEMMA SetupNodes ==
  ASSUME PreInv, NodesInv, KeepGraph \/ MakeIncidence \/ ExtendLoaded \/ NoHost
  PROVE  NodesInv'
<1>1. /\ stage = "setup" /\ UNCHANGED <<localVars, caseVars, root, last, done>>
  BY DEF KeepGraph, MakeIncidence, ExtendLoaded, NoHost, Setup
<1>2. given' = given /\ last' = last /\ done' = done /\ root' = root /\ last = 1 /\ done = FALSE
  BY <1>1 DEF caseVars, NodesInv, Preparing
<1>3. CASE given = NoTd
  <2>1. stage' = "generate" /\ UNCHANGED niceVars
    BY <1>3 DEF KeepGraph, MakeIncidence, ExtendLoaded, NoHost, Proceed
  <2>2. NoneYet /\ H!Unstarted /\ kids = <<>> /\ bag = <<>>
    BY <1>1, <1>3 DEF NodesInv, NoneYet, Preparing
  <2>3. n' = n /\ kids' = kids /\ bag' = bag /\ pc' = pc
    BY <1>1, <2>1 DEF niceVars, localVars
  <2>4. NoneYet'
    BY <1>2, <2>1, <2>2, <2>3 DEF NoneYet
  <2>5. GenerateInv'
    BY <2>2, <2>3 DEF GenerateInv, H!Unstarted, Searching
  <2> QED BY <1>2, <1>3, <2>1, <2>4, <2>5 DEF NodesInv, Preparing
<1>4. CASE given # NoTd
  <2>1. stage' \in {"make_nice", "aborted"}
    BY <1>4 DEF KeepGraph, MakeIncidence, ExtendLoaded, NoHost, Proceed
  <2>2. /\ IsGiven(given) /\ input = given /\ n = given.n /\ kids = given.kids
        /\ bag = given.bag /\ root \in 0 .. n
    BY <1>1, <1>4 DEF NodesInv, AsGiven
  <2>3. IInv'
    <3>1. CASE ExtendLoaded
      <4>1. /\ input' = Extended(given, orig)
            /\ n' = input'.n /\ kids' = input'.kids /\ bag' = input'.bag
        BY <3>1 DEF ExtendLoaded
      <4>2. IsGiven(Extended(given, orig)) /\ given.n <= Extended(given, orig).n
        BY <2>2, ExtendedGiven DEF PreInv
      <4>3. given.n \in Nat /\ Extended(given, orig).n \in Nat
        BY <2>2, <4>2 DEF IsGiven
      <4>4. root' \in 0 .. n'
        BY <1>2, <2>2, <4>1, <4>2, <4>3
      <4>5. IsGiven(input)'
        BY <4>1, <4>2
      <4>6. (last = 1 /\ done = FALSE)'
        BY <1>2
      <4> QED BY <4>1, <4>4, <4>5, <4>6, FreshNext DEF Fresh
    <3>2. CASE UNCHANGED niceVars
      <4>1. IInv
        BY <1>2, <2>2, FreshIInv DEF Fresh
      <4> QED BY <3>2, <4>1, StutterIInv DEF niceVars, vars
    <3> QED BY <3>1, <3>2, <1>4 DEF KeepGraph, MakeIncidence, NoHost
  <2> QED BY <2>1, <2>3 DEF NodesInv, Preparing
<1> QED BY <1>3, <1>4

(* A step after the setup that leaves the nodes alone.                     *)
LEMMA SameNodes ==
  ASSUME NodesInv, stage \notin Preparing, stage' \notin Preparing, UNCHANGED niceVars
  PROVE  NodesInv'
<1>1. IInv'
  BY StutterIInv DEF NodesInv, niceVars, vars
<1> QED BY <1>1 DEF NodesInv, Preparing

LEMMA SearchNodes ==
  ASSUME PreInv, NodesInv,
         \/ EmptyGraph \/ Begin \/ Take \/ UpdateOut \/ OutDone \/ UpdateIn
         \/ Clear \/ AddEdge \/ Eliminated \/ AddNode
  PROVE  NodesInv'
<1>1. Generating
  BY DEF EmptyGraph, Begin, Take, UpdateOut, OutDone, UpdateIn, Clear, AddEdge, Eliminated, AddNode
<1>2. /\ stage = "generate" /\ stage' = "generate" /\ given' = given
      /\ n' = n /\ root' = root /\ last' = last /\ done' = done
  BY <1>1 DEF Generating, caseVars
<1>3. given = NoTd /\ GenerateInv /\ last = 1 /\ done = FALSE /\ n = 0 /\ root = 0
  BY <1>2 DEF NodesInv, NoneYet, Preparing
<1>4. \/ H!EmptyGraph \/ H!Begin \/ H!Take \/ H!UpdateOut \/ H!OutDone \/ H!UpdateIn
      \/ H!Clear \/ H!AddEdge \/ H!Eliminated \/ H!AddNode
  BY DEF EmptyGraph, Begin, Take, UpdateOut, OutDone, UpdateIn, Clear, AddEdge, Eliminated, AddNode
<1>5. GenerateInv'
  BY <1>2, <1>3, <1>4, SearchGenerates
<1> QED BY <1>2, <1>3, <1>5 DEF NodesInv, NoneYet, Preparing

LEMMA GeneratedNodes ==
  ASSUME NodesInv, Generated
  PROVE  NodesInv'
<1>1. /\ stage = "generate" /\ pc = "done" /\ stage' = "make_nice"
      /\ n' = Len(bag) /\ input' = [n |-> n', kids |-> kids, bag |-> bag]
      /\ kids' = kids /\ bag' = bag /\ root' = root /\ last' = last /\ done' = done
  BY DEF Generated
<1>2. /\ IsGiven(Made) /\ last = 1 /\ done = FALSE /\ root = 0
  BY <1>1 DEF NodesInv, GenerateInv, NoneYet, Preparing
<1>3. input' = Made
  BY <1>1 DEF Made
<1>4. /\ IsGiven(input)' /\ (n = input.n /\ kids = input.kids /\ bag = input.bag)'
      /\ (last = 1 /\ done = FALSE)'
  BY <1>1, <1>2, <1>3
<1>5. Made.n \in Nat
  BY <1>2 DEF IsGiven
<1>6. (root \in 0 .. n)'
  BY <1>1, <1>2, <1>5 DEF Made
<1>7. IInv'
  BY <1>4, <1>6, FreshNext DEF Fresh
<1> QED BY <1>1, <1>7 DEF NodesInv, Preparing

LEMMA AgainNodes ==
  ASSUME NodesInv, SolveAgain
  PROVE  NodesInv'
<1>1. /\ stage \notin Preparing /\ stage' = "setup" /\ given' = [n |-> n, kids |-> kids, bag |-> bag]
      /\ input' = given' /\ last' = 1 /\ done' = FALSE
      /\ n' = n /\ kids' = kids /\ bag' = bag /\ root' = root
  BY DEF SolveAgain, Preparing
<1>2. IInv
  BY <1>1 DEF NodesInv
<1>3. /\ n \in Nat \ {0} /\ kids \in [1 .. n -> SUBSET (1 .. n)] /\ bag \in [1 .. n -> SUBSET Nat]
      /\ root \in 0 .. n /\ \A v \in 1 .. n : IsFiniteSet(bag[v])
  BY <1>2, AtLast DEF IInv, TypeOK, Node
<1>4. given'.n = n /\ given'.kids = kids /\ given'.bag = bag
  BY <1>1
<1>5. IsGiven(given') /\ given'.n # NoTd.n
  BY <1>3, <1>4 DEF IsGiven, NoTd
<1>6. AsGiven'
  BY <1>1, <1>3, <1>4, <1>5 DEF AsGiven
<1> QED BY <1>1, <1>5, <1>6 DEF NodesInv, Preparing

LEMMA StutterNodes ==
  ASSUME NodesInv, UNCHANGED preVars
  PROVE  NodesInv'
<1>1. /\ UNCHANGED <<n, kids, bag, root, last, done, input>>
      /\ UNCHANGED <<out, bucket, minimum, order, neighbors, todo, pc>>
      /\ UNCHANGED <<given, graph, stage>>
  BY DEF preVars, niceVars, localVars, caseVars
<1>2. V' = V /\ H!Left' = H!Left /\ H!node' = H!node /\ H!In(H!node)' = H!In(H!node)
  BY <1>1 DEF V, H!Left, H!node, H!In, H!Nodes
<1>3. \A u, w : Kept(u, w)' <=> Kept(u, w)
  BY <1>1 DEF Kept, Joined, Noted
<1>4. ElimInv => ElimInv'
  BY <1>1, <1>2, <1>3 DEF ElimInv, NotesLater, CliquesKept
<1>5. Made' = Made
  BY <1>1 DEF Made
<1>6. GenerateInv => GenerateInv'
  BY <1>1, <1>2, <1>4, <1>5 DEF GenerateInv
<1>7. IInv => IInv'
  BY <1>1, StutterIInv DEF vars
<1>8. (NoneYet => NoneYet') /\ (AsGiven => AsGiven')
  BY <1>1 DEF NoneYet, AsGiven, H!Unstarted
<1> QED BY <1>1, <1>6, <1>7, <1>8 DEF NodesInv

LEMMA NodesStep == PreInv /\ NodesInv /\ [PreNext]_preVars => NodesInv'
<1> SUFFICES ASSUME PreInv, NodesInv, [PreNext]_preVars PROVE NodesInv'
  OBVIOUS
<1>1. CASE KeepGraph \/ MakeIncidence \/ ExtendLoaded \/ NoHost
  BY <1>1, SetupNodes
<1>2. CASE \/ EmptyGraph \/ Begin \/ Take \/ UpdateOut \/ OutDone \/ UpdateIn
           \/ Clear \/ AddEdge \/ Eliminated \/ AddNode
  BY <1>2, SearchNodes
<1>3. CASE Generated
  BY <1>3, GeneratedNodes
<1>4. CASE \/ NiceLeaf \/ NiceBinary \/ NiceJoins \/ NiceBetween \/ NiceAdvance
  <2>1. stage = "make_nice" /\ stage' = "make_nice"
    BY <1>4 DEF NiceLeaf, NiceBinary, NiceJoins, NiceBetween, NiceAdvance, Repairing
  <2>2. IInv
    BY <2>1 DEF NodesInv, Preparing
  <2>3. FixLeaf \/ FixBinary \/ FixJoins \/ FixIntroduceForget \/ Advance
    BY <1>4 DEF NiceLeaf, NiceBinary, NiceJoins, NiceBetween, NiceAdvance, Repairing
  <2>4. IInv'
    BY <2>2, <2>3, NextIInv DEF Next
  <2> QED BY <2>1, <2>4 DEF NodesInv, Preparing
<1>5. CASE MadeNice
  <2>1. stage = "make_nice" /\ stage' = "start" /\ UNCHANGED niceVars
    BY <1>5 DEF MadeNice
  <2> QED BY <2>1, SameNodes DEF Preparing
<1>6. CASE \/ CheckStart \/ CheckTree \/ CheckVertices \/ CheckEdges
           \/ CheckConnected \/ CheckNice
  <2>1. UNCHANGED niceVars
    BY <1>6 DEF Checking, CheckStart, CheckTree, CheckVertices, CheckEdges, CheckConnected, CheckNice
  <2>2. stage \notin Preparing /\ stage' \notin Preparing
    BY <1>6 DEF CheckStart, CheckTree, CheckVertices, CheckEdges, CheckConnected, CheckNice,
                C!Start, C!TestTree, C!TestVertices, C!TestEdges, C!TestConnected, C!TestNice,
                C!Pass, C!Throw, Preparing
  <2> QED BY <2>1, <2>2, SameNodes
<1>7. CASE AddVertex \/ AddArc
  <2>1. stage \in Ended /\ stage' = stage /\ UNCHANGED niceVars
    BY <1>7 DEF AddVertex, AddArc, Grows
  <2> QED BY <2>1, SameNodes DEF Preparing, Ended
<1>8. CASE SolveAgain
  BY <1>8, AgainNodes
<1>9. CASE Finished \/ UNCHANGED preVars
  BY <1>9, StutterNodes DEF Finished
<1> QED BY <1>1, <1>2, <1>3, <1>4, <1>5, <1>6, <1>7, <1>8, <1>9 DEF PreNext

LEMMA NodesHold == PreSpec => [](PreInv /\ NodesInv)
<1>1. PreInit => PreInv /\ NodesInv
  BY InitPreInv, InitNodes
<1>2. PreInv /\ NodesInv /\ [PreNext]_preVars => PreInv' /\ NodesInv'
  BY PreInvStep, NodesStep
<1> QED BY <1>1, <1>2, PTL DEF PreSpec

(* Before make_nice() begins, no node is behind it.                        *)
LEMMA BehindFromNodes == NodesInv => NiceBehind
<1> SUFFICES ASSUME NodesInv PROVE NiceBehind
  OBVIOUS
<1>1. CASE stage \notin Preparing
  BY <1>1 DEF NodesInv, IInv
<1>2. CASE stage \in Preparing
  <2>1. last = 1 /\ done = FALSE
    BY <1>2 DEF NodesInv
  <2> QED BY <2>1 DEF NiceBehind, Node
<1> QED BY <1>1, <1>2

LEMMA WidthFromNodes == NodesInv => WidthKept
<1> SUFFICES ASSUME NodesInv PROVE WidthKept
  OBVIOUS
<1>1. CASE stage \notin Preparing
  BY <1>1, WithinWidth DEF NodesInv
<1>2. CASE stage \in Preparing /\ given = NoTd
  <2>1. Node = {}
    BY <1>2 DEF NodesInv, NoneYet, Node
  <2> QED BY <2>1 DEF WidthKept
<1>3. CASE stage \in Preparing /\ given # NoTd
  <2>1. stage = "setup" /\ AsGiven /\ last = 1 /\ done = FALSE
    BY <1>3 DEF NodesInv, Preparing
  <2>2. IInv
    BY <2>1, FreshIInv DEF AsGiven, Fresh
  <2> QED BY <2>2, WithinWidth
<1> QED BY <1>1, <1>2, <1>3

(***************************************************************************)
(* As part of the solver, too: whatever decomposition is generated, loaded *)
(* or left over from the last solve, the vertices make_nice() has left     *)
(* behind are nodes of a nice one.                                         *)
(***************************************************************************)
THEOREM PreSolveNiceBehind == PreSpec => []NiceBehind
BY NodesHold, BehindFromNodes, PTL

(***************************************************************************)
(* And no bag is larger than the largest that make_nice() was given.       *)
(***************************************************************************)
THEOREM PreSolveWidthKept == PreSpec => []WidthKept
BY NodesHold, WidthFromNodes, PTL

-----------------------------------------------------------------------------
(***************************************************************************)
(* The numbers that follow those of the vertices are those of the edges,   *)
(* in the incidence graph: a bag that is loaded for it with one of them    *)
(* would hold the vertex of an edge.  A file is taken as it is: nothing in *)
(* the code rules this out.  (A facade never makes an incidence graph.)    *)
(***************************************************************************)
LoadedFits ==
  \A c \in Cases : c.incidence => \A v \in 1 .. c.td.n : c.td.bag[v] \cap EdgeVertices(c.graph) = {}

Decomposed == \E r \in Node : Decomp(Td(r), Undirected(graph))

KeptInv ==
  /\ incidence => calls = 0 /\ facade = orig
  /\ incidence => \A v \in 1 .. given.n : given.bag[v] \cap EdgeVertices(orig) = {}
  /\ stage \notin Preparing \cup {"aborted"} => (IsOneGiven <=> Decomposed)

LEMMA GivenIs ==
  ASSUME given # NoTd, given.n \in Nat
  PROVE  IsOneGiven <=> IsOne(given, orig)
<1> DEFINE N == 1 .. given.n
           T == [node |-> N, kids |-> given.kids, bag |-> given.bag, root |-> 0]
           g == Undirected(orig)
<1>1. ASSUME NEW r \in N
      PROVE  IsTreeDecomposition([T EXCEPT !.root = r], g) <=> Decomp(TdOf(given, r), g)
  <2>1. [T EXCEPT !.root = r] = TdOf(given, r)
    BY DEF TdOf
  <2>2. TdOf(given, r).node = N /\ TdOf(given, r).root = r
    BY DEF TdOf
  <2>3. IsFiniteSet(N)
    BY FS_Interval
  <2> HIDE DEF g
  <2>4. IsTreeDecomposition(TdOf(given, r), g) <=> Decomp(TdOf(given, r), g)
    BY <2>2, <2>3, DecompIs
  <2> QED BY <2>1, <2>4
<1>2. T.node = N
  OBVIOUS
<1>3. IsOneGiven <=> \E r \in N : IsTreeDecomposition([T EXCEPT !.root = r], g)
  BY <1>2 DEF IsOneGiven, Decomposes
<1> QED BY <1>1, <1>3 DEF IsOne

LEMMA TdIs ==
  ASSUME n \in Nat
  PROVE  Decomposes(Td(root), graph) <=> Decomposed
<1> DEFINE g == Undirected(graph)
<1>1. ASSUME NEW r \in Node
      PROVE  IsTreeDecomposition([Td(root) EXCEPT !.root = r], g) <=> Decomp(Td(r), g)
  <2>1. [Td(root) EXCEPT !.root = r] = Td(r)
    BY DEF Td
  <2>2. Td(r).node = Node /\ Td(r).root = r
    BY DEF Td
  <2>3. IsFiniteSet(Node)
    BY FS_Interval DEF Node
  <2> HIDE DEF g
  <2>4. IsTreeDecomposition(Td(r), g) <=> Decomp(Td(r), g)
    BY <2>2, <2>3, DecompIs
  <2> QED BY <2>1, <2>4
<1>2. Td(root).node = Node
  BY DEF Td
<1> QED BY <1>1, <1>2 DEF Decomposes, Decomposed

(* What is there decomposes the graph if what was given decomposes it.     *)
LEMMA DecomposedAs ==
  ASSUME NEW T, n = T.n, kids = T.kids, bag = T.bag
  PROVE  Decomposed <=> IsOne(T, graph)
<1>1. \A r : Td(r) = TdOf(T, r)
  BY DEF Td, TdOf, Node
<1> QED BY <1>1 DEF Decomposed, IsOne, Node

(***************************************************************************)
(* No repair changes whether there is a root from which the nodes are a    *)
(* tree decomposition: a node that a repair has added is no root.          *)
(***************************************************************************)
LEMMA SubdivisionDecomposes ==
  ASSUME NodesInv, stage \notin Preparing, FixLeaf \/ FixBinary \/ FixJoins \/ FixIntroduceForget, graph' = graph
  PROVE  Decomposed <=> Decomposed'
<1> DEFINE g == Undirected(graph)
<1>1. IInv
  BY DEF NodesInv
<1>2. \A r : \E D, New : Subdivides(Td(r), Td(r)', last, D, New)
  BY <1>1, FixLeafSubdivides, FixBinarySubdivides, FixJoinsSubdivides, FixIntroduceForgetSubdivides
<1>3. \A r : Td(r).node = Node /\ Td(r).root = r /\ Td(r)'.node = Node' /\ Td(r)'.root = r
  BY DEF Td
<1> DEFINE T(r) == Td(r)
           U(r) == Td(r)'
<1>4. /\ \A r : \E D, New : Subdivides(T(r), U(r), last, D, New)
      /\ \A r : T(r).node = Node /\ T(r).root = r /\ U(r).node = Node' /\ U(r).root = r
  BY <1>2, <1>3
<1> HIDE DEF T, U, g
<1>5. ASSUME NEW r \in Node PROVE r \in Node' /\ (Decomp(T(r), g) <=> Decomp(U(r), g))
  <2>1. PICK D, New : Subdivides(T(r), U(r), last, D, New)
    BY <1>4
  <2>2. T(r).root \in T(r).node
    BY <1>4
  <2>3. Node' = Node \cup New
    BY <1>4, <2>1 DEF Subdivides
  <2> QED BY <2>1, <2>2, <2>3, SubdividedDecomp
<1>6. ASSUME NEW r \in Node', Decomp(U(r), g) PROVE r \in Node
  <2>1. PICK D, New : Subdivides(T(r), U(r), last, D, New)
    BY <1>4
  <2>2. Parents(U(r), r) = {}
    BY <1>4, <1>6 DEF Decomp, Rooted
  <2>3. \A m \in New : Parents(U(r), m) = {last}
    BY <2>1, SubdividedParents
  <2>4. r \notin New
    BY <2>2, <2>3
  <2> QED BY <1>4, <2>1, <2>4 DEF Subdivides
<1>7. (\E r \in Node : Decomp(T(r), g)) <=> \E r \in Node' : Decomp(U(r), g)
  BY <1>5, <1>6
<1> QED BY <1>7 DEF Decomposed, T, U, g

LEMMA SameDecomposed ==
  ASSUME UNCHANGED <<n, kids, bag, graph>>
  PROVE  Decomposed' <=> Decomposed
BY DEF Decomposed, Td, Node

LEMMA SameGiven ==
  ASSUME UNCHANGED <<given, orig>>
  PROVE  IsOneGiven' <=> IsOneGiven
BY DEF IsOneGiven

LEMMA InitKept == LoadedFits /\ PreInit => KeptInv
<1> SUFFICES ASSUME LoadedFits, PreInit PROVE KeptInv
  OBVIOUS
<1>1. PICK c \in Cases : /\ orig = c.graph /\ incidence = c.incidence /\ given = c.td
                         /\ facade = c.graph /\ calls = c.calls
  BY DEF PreInit
<1>2. c.incidence => c.calls = 0
  BY PreSolveAssumption
<1>3. c.incidence => \A v \in 1 .. c.td.n : c.td.bag[v] \cap EdgeVertices(c.graph) = {}
  BY DEF LoadedFits
<1>4. stage = "setup"
  BY DEF PreInit
<1> QED BY <1>1, <1>2, <1>3, <1>4 DEF KeptInv, Preparing

(* A step of a solve, which keeps the graph that was given.                *)
LEMMA SameCase ==
  ASSUME KeptInv, UNCHANGED <<caseVars, facadeVars>>,
         stage' \notin Preparing \cup {"aborted"} => (IsOneGiven' <=> Decomposed')
  PROVE  KeptInv'
BY DEF KeptInv, caseVars, facadeVars

LEMMA SetupKept ==
  ASSUME PreInv, NodesInv, KeptInv, KeepGraph \/ MakeIncidence \/ ExtendLoaded \/ NoHost
  PROVE  KeptInv'
<1>1. /\ stage = "setup" /\ UNCHANGED <<caseVars, facadeVars>> /\ UNCHANGED <<given, orig>>
      /\ given' = given
  BY DEF KeepGraph, MakeIncidence, ExtendLoaded, NoHost, Setup, caseVars
<1>2. CASE given = NoTd \/ NoHost
  <2>1. stage' \in {"generate", "aborted"}
    BY <1>2 DEF KeepGraph, MakeIncidence, ExtendLoaded, NoHost, Proceed
  <2> QED BY <1>1, <2>1, SameCase DEF Preparing
<1>3. CASE given # NoTd /\ KeepGraph
  <2>1. AsGiven
    BY <1>1, <1>3 DEF NodesInv
  <2>2. graph' = orig /\ n' = given.n /\ kids' = given.kids /\ bag' = given.bag
    BY <1>3, <2>1 DEF KeepGraph, niceVars, AsGiven
  <2>3. Decomposed' <=> IsOne(given, orig)
    <3>1. \A r : Td(r)' = TdOf(given, r)
      BY <2>2 DEF Td, TdOf, Node
    <3> QED BY <2>2, <3>1 DEF Decomposed, IsOne, Node
  <2>4. IsOneGiven <=> IsOne(given, orig)
    BY <1>3, <2>1, GivenIs DEF AsGiven, IsGiven
  <2>5. IsOneGiven' <=> IsOneGiven
    BY <1>1, SameGiven
  <2> QED BY <1>1, <2>3, <2>4, <2>5, SameCase
<1>4. CASE given # NoTd /\ ExtendLoaded
  <2>1. AsGiven
    BY <1>1, <1>4 DEF NodesInv
  <2> DEFINE U == Extended(given, orig)
             I == IncidenceOf(orig)
  <2>2. /\ graph' = I /\ n' = U.n /\ kids' = U.kids /\ bag' = U.bag
        /\ incidence /\ \A e \in Edges(orig) : Hosts(given, e) # {}
    BY <1>4 DEF ExtendLoaded
  <2> HIDE DEF U, I
  <2>3. Decomposed' <=> IsOne(U, I)
    <3>1. \A r : Td(r)' = TdOf(U, r)
      BY <2>2 DEF Td, TdOf, Node
    <3> QED BY <2>2, <3>1 DEF Decomposed, IsOne, Node
  <2>4. IsOneGiven <=> IsOne(given, orig)
    BY <1>4, <2>1, GivenIs DEF AsGiven, IsGiven
  <2>5. \A v \in 1 .. given.n : given.bag[v] \cap EdgeVertices(orig) = {}
    BY <2>2 DEF KeptInv
  <2>6. IsGiven(given) /\ IsGraph(orig) /\ Numbered(orig)
    BY <2>1 DEF AsGiven, PreInv
  <2>7. IsOne(given, orig) <=> IsOne(U, I)
    BY <2>2, <2>5, <2>6, ExtendedIsOne DEF U, I
  <2>8. IsOneGiven' <=> IsOneGiven
    BY <1>1, SameGiven
  <2> QED BY <1>1, <2>3, <2>4, <2>7, <2>8, SameCase
<1> QED BY <1>2, <1>3, <1>4 DEF MakeIncidence

LEMMA GeneratedKept ==
  ASSUME NodesInv, KeptInv, Generated
  PROVE  KeptInv'
<1>1. /\ stage = "generate" /\ pc = "done" /\ UNCHANGED <<caseVars, facadeVars>>
      /\ n' = Len(bag) /\ kids' = kids /\ bag' = bag /\ graph' = graph /\ given' = given
  BY DEF Generated, caseVars
<1>2. IsGiven(Made) /\ Decomp(TdOf(Made, 1), Undirected(graph)) /\ given = NoTd
  BY <1>1 DEF NodesInv, GenerateInv
<1>3. Td(1)' = TdOf(Made, 1) /\ Node' = 1 .. Made.n
  BY <1>1 DEF Td, TdOf, Node, Made
<1>4. 1 \in Node'
  BY <1>2, <1>3 DEF IsGiven
<1>5. Decomp(Td(1), Undirected(graph))'
  BY <1>1, <1>2, <1>3
<1>6. Decomposed'
  BY <1>4, <1>5 DEF Decomposed
<1>7. IsOneGiven'
  BY <1>1, <1>2 DEF IsOneGiven
<1> QED BY <1>1, <1>6, <1>7, SameCase

LEMMA NiceKept ==
  ASSUME NodesInv, KeptInv, NiceLeaf \/ NiceBinary \/ NiceJoins \/ NiceBetween \/ NiceAdvance
  PROVE  KeptInv'
<1>1. /\ stage = "make_nice" /\ UNCHANGED <<caseVars, facadeVars>> /\ graph' = graph
      /\ UNCHANGED <<given, orig>>
      /\ FixLeaf \/ FixBinary \/ FixJoins \/ FixIntroduceForget \/ Advance
  BY DEF NiceLeaf, NiceBinary, NiceJoins, NiceBetween, NiceAdvance, Repairing, caseVars
<1>2. Decomposed' <=> Decomposed
  <2>1. CASE FixLeaf \/ FixBinary \/ FixJoins \/ FixIntroduceForget
    BY <1>1, <2>1, SubdivisionDecomposes DEF Preparing
  <2>2. CASE Advance
    BY <1>1, <2>2, SameDecomposed DEF Advance
  <2> QED BY <1>1, <2>1, <2>2
<1>3. IsOneGiven' <=> IsOneGiven
  BY <1>1, SameGiven
<1>4. IsOneGiven <=> Decomposed
  BY <1>1 DEF KeptInv, Preparing
<1> QED BY <1>1, <1>2, <1>3, <1>4, SameCase

(* A step that leaves the nodes and the graphs alone.                      *)
LEMMA NothingMoved ==
  ASSUME KeptInv, UNCHANGED <<niceVars, caseVars, graph>>,
         UNCHANGED facadeVars \/ ~incidence,
         stage' \notin Preparing \cup {"aborted"} => stage \notin Preparing \cup {"aborted"}
  PROVE  KeptInv'
<1>1. UNCHANGED <<n, kids, bag, graph>> /\ UNCHANGED <<given, orig>> /\ incidence' = incidence
  BY DEF niceVars, caseVars
<1>2. (Decomposed' <=> Decomposed) /\ (IsOneGiven' <=> IsOneGiven)
  BY <1>1, SameDecomposed, SameGiven
<1> QED BY <1>1, <1>2 DEF KeptInv, facadeVars

LEMMA KeptStep == PreInv /\ NodesInv /\ KeptInv /\ [PreNext]_preVars => KeptInv'
<1> SUFFICES ASSUME PreInv, NodesInv, KeptInv, [PreNext]_preVars PROVE KeptInv'
  OBVIOUS
<1>1. CASE KeepGraph \/ MakeIncidence \/ ExtendLoaded \/ NoHost
  BY <1>1, SetupKept
<1>2. CASE \/ EmptyGraph \/ Begin \/ Take \/ UpdateOut \/ OutDone \/ UpdateIn
           \/ Clear \/ AddEdge \/ Eliminated \/ AddNode
  <2>1. Generating
    BY <1>2 DEF EmptyGraph, Begin, Take, UpdateOut, OutDone, UpdateIn, Clear, AddEdge, Eliminated, AddNode
  <2> QED BY <2>1, SameCase DEF Generating, Preparing
<1>3. CASE Generated
  BY <1>3, GeneratedKept
<1>4. CASE \/ NiceLeaf \/ NiceBinary \/ NiceJoins \/ NiceBetween \/ NiceAdvance
  BY <1>4, NiceKept
<1>5. CASE MadeNice
  <2>1. stage = "make_nice" /\ UNCHANGED <<niceVars, caseVars, graph>> /\ UNCHANGED facadeVars
    BY <1>5 DEF MadeNice
  <2> QED BY <2>1, NothingMoved DEF Preparing
<1>6. CASE \/ CheckStart \/ CheckTree \/ CheckVertices \/ CheckEdges
           \/ CheckConnected \/ CheckNice
  <2>1. UNCHANGED <<niceVars, caseVars, graph>> /\ UNCHANGED facadeVars
    BY <1>6 DEF Checking, CheckStart, CheckTree, CheckVertices, CheckEdges, CheckConnected, CheckNice
  <2>2. stage \notin Preparing \cup {"aborted"}
    BY <1>6 DEF CheckStart, CheckTree, CheckVertices, CheckEdges, CheckConnected, CheckNice,
                C!Start, C!TestTree, C!TestVertices, C!TestEdges, C!TestConnected, C!TestNice, Preparing
  <2> QED BY <2>1, <2>2, NothingMoved
<1>7. CASE AddVertex \/ AddArc
  <2>1. UNCHANGED <<niceVars, caseVars, graph>> /\ stage' = stage /\ calls > 0
    BY <1>7 DEF AddVertex, AddArc, Grows
  <2>2. ~incidence
    BY <2>1 DEF KeptInv
  <2> QED BY <2>1, <2>2, NothingMoved
<1>8. CASE SolveAgain
  <2>1. facade # orig /\ stage' = "setup" /\ incidence' = incidence
    BY <1>8 DEF SolveAgain
  <2>2. ~incidence
    BY <2>1 DEF KeptInv
  <2> QED BY <2>1, <2>2 DEF KeptInv, Preparing
<1>9. CASE Finished \/ UNCHANGED preVars
  <2>1. UNCHANGED <<niceVars, caseVars, graph>> /\ UNCHANGED facadeVars /\ stage' = stage
    BY <1>9 DEF Finished, preVars
  <2> QED BY <2>1, NothingMoved
<1> QED BY <1>1, <1>2, <1>3, <1>4, <1>5, <1>6, <1>7, <1>8, <1>9 DEF PreNext

LEMMA KeptFromInv == NodesInv /\ KeptInv => KeepsValid
<1> SUFFICES ASSUME NodesInv, KeptInv, stage \notin Preparing \cup {"aborted"}
             PROVE  IsOneGiven <=> Decomposes(Td(root), graph)
  BY DEF KeepsValid, Preparing
<1>1. n \in Nat
  BY DEF NodesInv, IInv, TypeOK
<1> QED BY <1>1, TdIs DEF KeptInv

(***************************************************************************)
(* What the dynamic programming walks is a tree decomposition of the graph *)
(* that is played on, by the definition of the literature, exactly if none *)
(* was loaded or the one that was loaded is one of the graph as given.     *)
(***************************************************************************)
THEOREM PreSolveKeepsValid ==
  ASSUME LoadedFits
  PROVE  PreSpec => []KeepsValid
<1>1. PreInit => PreInv /\ NodesInv /\ KeptInv
  BY InitPreInv, InitNodes, InitKept
<1>2. PreInv /\ NodesInv /\ KeptInv /\ [PreNext]_preVars => (PreInv /\ NodesInv /\ KeptInv)'
  BY PreInvStep, NodesStep, KeptStep
<1> QED BY <1>1, <1>2, KeptFromInv, PTL DEF PreSpec

-----------------------------------------------------------------------------
(***************************************************************************)
(* What the checks compute.  In a rooted tree the nodes that hold a vertex *)
(* are connected exactly if one of them is the topmost.                    *)
(***************************************************************************)
(* The copy that create_copy() makes of them, with a node to start from.   *)
Sided(T, x, f) ==
  [node |-> Holding(T, x), root |-> f,
   kids |-> [u \in Holding(T, x) |-> {v \in Holding(T, x) : v \in T.kids[u] \/ u \in T.kids[v]}]]

Linked(T, x, f) ==
  \A P \in SUBSET Holding(T, x) : f \in P /\ ClosedIn(Sided(T, x, f), P) => P = Holding(T, x)

LEMMA TopMember ==
  ASSUME NEW T, Rooted(T), T.root \in T.node, NEW S \in SUBSET T.node, S # {}
  PROVE  \E t \in S : Parents(T, t) \cap S = {}
<1> SUFFICES ASSUME \A t \in S : Parents(T, t) \cap S # {} PROVE FALSE
  OBVIOUS
<1>1. T.root \in T.node \ S
  BY DEF Rooted
<1>2. ASSUME NEW u \in T.node \ S, NEW v \in T.node, v \in T.kids[u] PROVE v \notin S
  <2> SUFFICES ASSUME v \in S PROVE FALSE
    OBVIOUS
  <2>1. u \in Parents(T, v)
    BY <1>2 DEF Parents
  <2>2. PICK w \in S : w \in Parents(T, v)
    OBVIOUS
  <2>3. v # T.root
    BY <1>1
  <2> QED BY <2>1, <2>2, <2>3 DEF Rooted
<1>3. ClosedIn(T, T.node \ S)
  BY <1>2 DEF ClosedIn
<1>4. T.node \ S \in SUBSET T.node
  OBVIOUS
<1>5. T.node \ S = T.node
  BY <1>1, <1>3, <1>4 DEF Rooted
<1> QED BY <1>5

(* What is below the topmost node has no way out but through it.           *)
LEMMA LinkedTop ==
  ASSUME NEW T, Rooted(T), T.root \in T.node, NEW x, NEW f \in Holding(T, x)
  PROVE  Linked(T, x, f) <=> OneTop(T, x)
<1> DEFINE W == Holding(T, x)
           G == Sided(T, x, f)
<1>0. W \in SUBSET T.node
  BY DEF Holding
<1>1. ASSUME NEW P \in SUBSET W
      PROVE  ClosedIn(G, P)
               <=> \A u \in P : \A v \in W : v \in T.kids[u] \/ u \in T.kids[v] => v \in P
  BY DEF ClosedIn, Sided
<1>2. \A v \in W : \A u, w \in W : v \in T.kids[u] /\ v \in T.kids[w] => u = w
  <2> SUFFICES ASSUME NEW v \in W, NEW u \in W, NEW w \in W, v \in T.kids[u], v \in T.kids[w]
               PROVE  u = w
    OBVIOUS
  <2>1. u \in Parents(T, v) /\ w \in Parents(T, v)
    BY <1>0 DEF Parents
  <2>2. v # T.root
    BY <2>1 DEF Rooted
  <2> QED BY <1>0, <2>1, <2>2 DEF Rooted
<1>3. \A t : t \in Topmost(T, x) <=> t \in W /\ \A u \in W : t \notin T.kids[u]
  BY <1>0 DEF Topmost, Parents
<1> HIDE DEF W, G
<1>4. ASSUME Linked(T, x, f) PROVE OneTop(T, x)
  <2>1. PICK p \in W : Parents(T, p) \cap W = {}
    BY <1>0, TopMember DEF W
  <2>2. p \in Topmost(T, x)
    BY <2>1 DEF Topmost, W
  <2> DEFINE Below(P) == p \in P /\ \A u \in P : \A v \in W : v \in T.kids[u] => v \in P
             D == {v \in W : \A P \in SUBSET W : Below(P) => v \in P}
  <2>3. \A u \in D : \A v \in W : v \in T.kids[u] => v \in D
    OBVIOUS
  <2>4. ASSUME NEW u \in D, NEW w \in W, u \in T.kids[w] PROVE w \in D
    <3> SUFFICES ASSUME NEW P \in SUBSET W, Below(P), w \notin P PROVE FALSE
      OBVIOUS
    <3>1. u # p
      BY <1>3, <2>2, <2>4
    <3>2. P \ {u} \in SUBSET W /\ p \in P \ {u}
      BY <3>1
    <3>3. \A y \in P \ {u} : \A v \in W : v \in T.kids[y] => v \in P \ {u}
      <4> SUFFICES ASSUME NEW y \in P \ {u}, NEW v \in W, v \in T.kids[y] PROVE v \in P \ {u}
        OBVIOUS
      <4>1. v \in P
        OBVIOUS
      <4>2. v # u
        <5> SUFFICES ASSUME v = u PROVE FALSE
          OBVIOUS
        <5>1. y \in W /\ u \in W
          OBVIOUS
        <5>2. y = w
          BY <1>2, <2>4, <5>1
        <5> QED BY <5>2
      <4> QED BY <4>1, <4>2
    <3>4. Below(P \ {u})
      BY <3>2, <3>3
    <3>5. u \in P \ {u}
      <4> HIDE DEF Below
      <4> QED BY <3>2, <3>4
    <3> QED BY <3>5
  <2>5. D \in SUBSET W /\ p \in D
    BY <2>1
  <2>6. ASSUME NEW q \in D, q # p PROVE q \notin Topmost(T, x)
    <3> SUFFICES ASSUME q \in Topmost(T, x) PROVE FALSE
      OBVIOUS
    <3>1. \A u \in W : q \notin T.kids[u]
      BY <1>3
    <3>2. W \ {q} \in SUBSET W /\ Below(W \ {q})
      BY <2>1, <2>6, <3>1
    <3>3. q \in W \ {q}
      <4> HIDE DEF Below
      <4> QED BY <3>2
    <3> QED BY <3>3
  <2> HIDE DEF D
  <2>7. D = W
    <3>1. CASE f \in D
      <4>1. ClosedIn(G, D)
        BY <1>1, <2>3, <2>4, <2>5
      <4> QED BY <1>4, <2>5, <3>1, <4>1 DEF Linked, G, W
    <3>2. CASE f \notin D
      <4>1. W \ D \in SUBSET W /\ f \in W \ D
        BY <3>2 DEF W
      <4>2. ClosedIn(G, W \ D)
        <5>1. \A u \in W \ D : \A v \in W : v \in T.kids[u] \/ u \in T.kids[v] => v \in W \ D
          BY <2>3, <2>4
        <5> QED BY <1>1, <4>1, <5>1
      <4>3. W \ D = W
        BY <1>4, <4>1, <4>2 DEF Linked, G, W
      <4> QED BY <2>5, <4>3
    <3> QED BY <3>1, <3>2
  <2>8. Topmost(T, x) = {p}
    <3>1. Topmost(T, x) \subseteq W
      BY <1>3
    <3> QED BY <2>2, <2>6, <2>7, <3>1
  <2> QED BY <2>8 DEF OneTop
<1>5. ASSUME OneTop(T, x) PROVE Linked(T, x, f)
  <2>1. PICK t : Topmost(T, x) = {t}
    BY <1>5 DEF OneTop
  <2> SUFFICES ASSUME NEW P \in SUBSET W, f \in P, ClosedIn(G, P), P # W PROVE FALSE
    BY DEF Linked, G, W
  <2>2. \A u \in P : \A v \in W : v \in T.kids[u] \/ u \in T.kids[v] => v \in P
    BY <1>1
  <2>3. PICK a \in P : Parents(T, a) \cap P = {}
    BY <1>0, TopMember
  <2>4. PICK b \in W \ P : Parents(T, b) \cap (W \ P) = {}
    <3>1. W \ P \in SUBSET T.node /\ W \ P # {}
      BY <1>0
    <3> QED BY <3>1, TopMember
  <2>5. a \in Topmost(T, x)
    <3>1. ASSUME NEW u \in W PROVE a \notin T.kids[u]
      BY <1>0, <2>2, <2>3 DEF Parents
    <3> QED BY <1>3, <3>1
  <2>6. b \in Topmost(T, x)
    <3>1. ASSUME NEW u \in W PROVE b \notin T.kids[u]
      BY <1>0, <2>2, <2>4 DEF Parents
    <3> QED BY <1>3, <3>1
  <2> QED BY <2>1, <2>5, <2>6
<1> QED BY <1>4, <1>5

(* The search of has_connectivity() from the first of these nodes.         *)
LEMMA ConnectedIs ==
  ASSUME NEW x, n \in Nat, Holding(Td(root), x) # {}
  PROVE  \E f \in Holding(Td(root), x) : C!Connected(x) <=> Linked(Td(root), x, f)
<1> DEFINE T == Td(root)
           W == Holding(T, x)
           f == CHOOSE t \in W : \A u \in W : t <= u
<1>0. W \subseteq Nat /\ IsFiniteSet(W)
  <2>1. W \subseteq 1 .. n
    BY DEF Holding, Td, Node
  <2>2. IsFiniteSet(1 .. n)
    BY FS_Interval
  <2> QED BY <2>1, <2>2, FS_Subset
<1>1. f \in W
  <2>1. \E t \in W : \A u \in W : t <= u
    <3> HIDE DEF W
    <3> QED BY <1>0, NatMin DEF W
  <2> QED BY <2>1
<1>2. C!Holding(T, x) = W
  BY DEF C!Holding, Holding
<1> DEFINE Adj(u, v) == v \in T.kids[u] \/ u \in T.kids[v]
           next(P) == {v \in W \ P : \E u \in P : Adj(u, v)}
           F(c) == [P \in SUBSET ({f} \cup W) |-> IF next(P) = {} THEN P ELSE c[P \cup next(P)]]
           Close == CHOOSE c : c = F(c)
<1>3. C!Connected(x) <=> Close[{f}] = W
  BY <1>2 DEF C!Connected, C!ReachedFrom
<1> DEFINE G == Sided(T, x, f)
<1>4. G.node = W /\ G.root = f
  BY DEF Sided
<1> HIDE DEF f
<1>5. \A P \in SUBSET W : next(P) = NextOf(G, P)
  BY DEF Sided, NextOf
<1> HIDE DEF W, G, next
<1>6. \A c : c = F(c) <=> IsClosing(G, c)
  <2> SUFFICES ASSUME NEW c
               PROVE  F(c) = [P \in SUBSET ({f} \cup W) |->
                                IF NextOf(G, P) = {} THEN P ELSE c[P \cup NextOf(G, P)]]
    BY <1>4 DEF IsClosing
  <2>1. {f} \cup W = W
    BY <1>1
  <2> QED BY <1>5, <2>1
<1> HIDE DEF F
<1>7. \E c : c = F(c)
  BY <1>6, ClosingExists
<1>8. IsClosing(G, Close)
  <2>1. Close = F(Close)
    BY <1>7
  <2> HIDE DEF Close
  <2> QED BY <1>6, <2>1
<1> HIDE DEF Close
<1>9. /\ Close[{f}] \in SUBSET W /\ f \in Close[{f}] /\ NextOf(G, Close[{f}]) = {}
      /\ \A Q \in SUBSET W : f \in Q /\ NextOf(G, Q) = {} => Close[{f}] \subseteq Q
  <2>1. {G.root} \cup G.node = W /\ {f} \in SUBSET W
    BY <1>1, <1>4
  <2>2. \A P \in SUBSET W :
          /\ Close[P] \in SUBSET W /\ P \subseteq Close[P] /\ NextOf(G, Close[P]) = {}
          /\ \A Q \in SUBSET W : P \subseteq Q /\ NextOf(G, Q) = {} => Close[P] \subseteq Q
    <3>1. IsFiniteSet(G.node)
      BY <1>0, <1>4
    <3>2. \A P \in SUBSET ({G.root} \cup G.node) :
            /\ Close[P] \in SUBSET ({G.root} \cup G.node)
            /\ P \subseteq Close[P] /\ NextOf(G, Close[P]) = {}
            /\ \A Q \in SUBSET ({G.root} \cup G.node) :
                 P \subseteq Q /\ NextOf(G, Q) = {} => Close[P] \subseteq Q
      BY <1>8, <3>1, CloseIsLeast
    <3> QED BY <2>1, <3>2, Zenon
  <2>3. /\ Close[{f}] \in SUBSET W /\ {f} \subseteq Close[{f}] /\ NextOf(G, Close[{f}]) = {}
        /\ \A Q \in SUBSET W : {f} \subseteq Q /\ NextOf(G, Q) = {} => Close[{f}] \subseteq Q
    BY <2>1, <2>2, Zenon
  <2> QED BY <2>3
<1>10. \A Q \in SUBSET W : NextOf(G, Q) = {} <=> ClosedIn(G, Q)
  BY <1>4 DEF NextOf, ClosedIn
<1>11. Close[{f}] = W <=> Linked(T, x, f)
  BY <1>9, <1>10 DEF Linked, G, W
<1> QED BY <1>1, <1>3, <1>11 DEF W

(* The tests of valid(), for a decomposition whose nodes are all below the *)
(* root, and those of is_nice(), which follow from what make_nice() does.  *)
Valid ==
  /\ C!IsTree /\ C!AllVerticesContained /\ C!AllEdgesContained
  /\ \A x \in Undirected(graph).vertex : C!Connected(x)

Nice == \A t \in Td(root).node : C!NiceAt(t)

LEMMA SameCount == \A S : C!Cardinality(S) = Cardinality(S)
BY DEF C!Cardinality, Cardinality

LEMMA TreeIs ==
  ASSUME n \in Nat, root \in Node, Reached(Td(root)) = Node
  PROVE  C!IsTree <=> Rooted(Td(root))
<1> DEFINE T == Td(root)
<1>1. T.node = Node /\ T.root = root /\ IsFiniteSet(Node)
  BY FS_Interval DEF Td, Node
<1>2. \A v : C!Parents(T, v) = Parents(T, v)
  BY DEF C!Parents, Parents
<1>3. C!Reached(T) = Reached(T)
  BY DEF C!Reached, Reached, C!ReachedFrom, ReachedFrom
<1>4. ASSUME NEW v PROVE /\ Parents(T, v) \cap Node = Parents(T, v)
                         /\ Cardinality(Parents(T, v)) = 0 <=> Parents(T, v) = {}
                         /\ Cardinality(Parents(T, v)) = 1 <=> \E p : Parents(T, v) = {p}
  <2>1. Parents(T, v) \in SUBSET Node
    BY <1>1 DEF Parents
  <2>2. IsFiniteSet(Parents(T, v))
    BY <1>1, <2>1, FS_Subset
  <2> QED BY <2>1, <2>2, SingleSet, FS_EmptySet
<1>5. \A P \in SUBSET T.node : T.root \in P /\ ClosedIn(T, P) => P = T.node
  <2>1. Reached(T) = T.node /\ T.root \in T.node /\ IsFiniteSet(T.node)
    BY <1>1
  <2> HIDE DEF T
  <2> QED BY <2>1, ReachedAll
<1>6. C!IsTree <=> \A v \in Node : Cardinality(Parents(T, v)) = IF v = root THEN 0 ELSE 1
  <2>1. C!IsTree <=> \A v \in Node : Cardinality(Parents(T, v) \cap Node) = IF v = T.root THEN 0 ELSE 1
    <3>1. \A v : C!Parents(T, v) \cap C!Reached(T) = Parents(T, v) \cap Node
      BY <1>2, <1>3
    <3>2. C!Reached(T) = Node
      BY <1>3
    <3> QED BY <3>1, <3>2, SameCount DEF C!IsTree
  <2> HIDE DEF T
  <2> QED BY <1>1, <1>4, <2>1
<1> HIDE DEF T
<1>7. ASSUME C!IsTree PROVE Rooted(T)
  <2>1. Parents(T, T.root) = {}
    BY <1>1, <1>4, <1>6, <1>7
  <2>2. \A v \in T.node \ {T.root} : \E p : Parents(T, v) = {p}
    BY <1>1, <1>4, <1>6, <1>7
  <2> QED BY <1>5, <2>1, <2>2 DEF Rooted
<1>8. ASSUME Rooted(T) PROVE C!IsTree
  BY <1>1, <1>4, <1>6, <1>8 DEF Rooted
<1> QED BY <1>7, <1>8 DEF T

LEMMA ValidIs ==
  ASSUME n \in Nat, root \in Node, Reached(Td(root)) = Node
  PROVE  Valid <=> Decomp(Td(root), Undirected(graph))
<1> DEFINE T == Td(root)
           g == Undirected(graph)
<1>1. T.node = Node /\ T.root = root
  BY DEF Td
<1>2. C!IsTree <=> Rooted(T)
  BY TreeIs
<1>3. Covers(T, g) <=> C!AllVerticesContained /\ C!AllEdgesContained
  BY DEF Covers, C!AllVerticesContained, C!AllEdgesContained
<1>4. ASSUME Rooted(T), Covers(T, g), NEW x \in g.vertex
      PROVE  C!Connected(x) <=> OneTop(T, x)
  <2>1. Holding(T, x) # {}
    BY <1>4 DEF Covers, Holding
  <2>2. PICK f \in Holding(T, x) : C!Connected(x) <=> Linked(T, x, f)
    BY <2>1, ConnectedIs
  <2>3. T.root \in T.node
    BY <1>1
  <2> HIDE DEF T
  <2>4. Linked(T, x, f) <=> OneTop(T, x)
    BY <1>4, <2>3, LinkedTop
  <2> QED BY <2>2, <2>4
<1> HIDE DEF T, g
<1>5. Valid <=> Rooted(T) /\ Covers(T, g) /\ \A x \in g.vertex : C!Connected(x)
  BY <1>2, <1>3 DEF Valid, g
<1>6. Valid <=> Decomp(T, g)
  BY <1>4, <1>5 DEF Decomp
<1> QED BY <1>6 DEF T, g

LEMMA NiceIs ==
  ASSUME IInv, done, Rooted(Td(root))
  PROVE  Nice
<1> SUFFICES ASSUME NEW t \in Node PROVE C!NiceAt(t)
  BY DEF Nice, Td
<1> DEFINE T == Td(root)
<1>1. T.node = Node /\ T.root = root /\ T.kids = kids /\ T.bag = bag
  BY DEF Td
<1>2. IsNiceNode(T, t)
  BY DEF IInv, NiceBehind
<1>3. Parents(T, t) = {} => t = root
  BY <1>1 DEF Rooted
<1>4. \A v \in Node : IsFiniteSet(bag[v]) /\ Cardinality(bag[v]) \in Nat
  BY AtLast, FS_CardinalityType DEF Node
<1>5. ASSUME NEW A, NEW B, IsFiniteSet(B), OneMore(A, B)
      PROVE  B \subseteq A /\ Cardinality(B) + 1 = Cardinality(A)
  <2>1. PICK x \in A \ B : A = B \cup {x}
    BY <1>5 DEF OneMore
  <2>2. Cardinality(B \cup {x}) = Cardinality(B) + 1
    BY <1>5, <2>1, FS_AddElement
  <2> QED BY <2>1, <2>2
<1>6. C!NiceAt(t) <=>
        /\ Parents(T, t) = {} => t = root
        /\ kids[t] = {} => bag[t] = {}
        /\ Cardinality(kids[t]) <= 2
        /\ \A c \in kids[t] :
             IF Cardinality(kids[t]) = 1
             THEN \/ bag[t] \subseteq bag[c] /\ Cardinality(bag[t]) + 1 = Cardinality(bag[c])
                  \/ bag[c] \subseteq bag[t] /\ Cardinality(bag[c]) + 1 = Cardinality(bag[t])
             ELSE bag[t] = bag[c]
  <2>1. C!Parents(T, t) = Parents(T, t)
    BY DEF C!Parents, Parents
  <2> QED BY <1>1, <2>1, SameCount DEF C!NiceAt
<1> HIDE DEF T
<1>7. CASE kids[t] = {} /\ bag[t] = {}
  <2>1. Cardinality(kids[t]) = 0
    BY <1>7, FS_EmptySet
  <2> QED BY <1>3, <1>6, <1>7, <2>1
<1>8. CASE \E c \in Node : kids[t] = {c} /\ (OneMore(bag[t], bag[c]) \/ OneMore(bag[c], bag[t]))
  <2>1. PICK c \in Node : kids[t] = {c} /\ (OneMore(bag[t], bag[c]) \/ OneMore(bag[c], bag[t]))
    BY <1>8
  <2>2. Cardinality(kids[t]) = 1
    BY <2>1, FS_Singleton
  <2>3. \/ bag[t] \subseteq bag[c] /\ Cardinality(bag[t]) + 1 = Cardinality(bag[c])
        \/ bag[c] \subseteq bag[t] /\ Cardinality(bag[c]) + 1 = Cardinality(bag[t])
    BY <1>4, <1>5, <2>1
  <2> QED BY <1>3, <1>6, <2>1, <2>2, <2>3
<1>9. CASE \E c, d \in Node : c # d /\ kids[t] = {c, d} /\ bag[t] = bag[c] /\ bag[t] = bag[d]
  <2>1. PICK c, d \in Node : c # d /\ kids[t] = {c, d} /\ bag[t] = bag[c] /\ bag[t] = bag[d]
    BY <1>9
  <2>2. IsFiniteSet({c}) /\ Cardinality({c}) = 1 /\ d \notin {c} /\ {c, d} = {c} \cup {d}
    BY <2>1, FS_Singleton
  <2>3. Cardinality(kids[t]) = 2
    BY <2>1, <2>2, FS_AddElement
  <2>4. \A e \in kids[t] : bag[t] = bag[e]
    BY <2>1
  <2>5. kids[t] # {} /\ Cardinality(kids[t]) <= 2 /\ Cardinality(kids[t]) # 1
    BY <2>1, <2>3
  <2> QED BY <1>3, <1>6, <2>4, <2>5
<1> QED BY <1>1, <1>2, <1>7, <1>8, <1>9 DEF IsNiceNode

(* The root that is noted is the only node that can be one.                *)
LEMMA RootIs ==
  ASSUME n \in Nat, Reached(Td(root)) = Node
  PROVE  /\ root \in Node
         /\ \A r \in Node : Rooted(Td(r)) => r = root
<1> DEFINE T == Td(root)
<1>1. T.node = Node /\ T.root = root /\ IsFiniteSet(Node)
  BY FS_Interval DEF Td, Node
<1>2. root \in Node
  <2>1. T.root \in Reached(T)
    BY <1>1, RootReached
  <2> QED BY <1>1, <2>1
<1>3. \A P \in SUBSET T.node : T.root \in P /\ ClosedIn(T, P) => P = T.node
  <2>1. Reached(T) = T.node /\ T.root \in T.node /\ IsFiniteSet(T.node)
    BY <1>1, <1>2
  <2> HIDE DEF T
  <2> QED BY <2>1, ReachedAll
<1>4. ASSUME NEW r \in Node, Rooted(Td(r)), r # root PROVE FALSE
  <2>1. \A u \in Node : r \notin kids[u]
    BY <1>4 DEF Rooted, Parents, Td
  <2>2. ClosedIn(T, Node \ {r})
    BY <2>1 DEF ClosedIn, Td
  <2>3. root \in Node \ {r} /\ Node \ {r} \in SUBSET Node
    BY <1>2, <1>4
  <2>4. Node \ {r} = Node
    BY <1>1, <1>3, <2>2, <2>3
  <2> QED BY <2>4
<1> QED BY <1>2, <1>4

(***************************************************************************)
(* Which tests a decomposition has passed, or that it has failed one; and  *)
(* that the assertion only fails for what is no decomposition.             *)
(***************************************************************************)
CheckInv ==
  /\ stage = "aborted" => ~IsOneGiven
  /\ stage \in {"start", "tree", "vertices", "edges", "connected", "nice"} \cup {"ok", "invalid", "unchecked"} =>
       done
  /\ stage \in {"vertices", "edges", "connected", "nice", "ok"} => C!IsTree
  /\ stage \in {"edges", "connected", "nice", "ok"} => C!AllVerticesContained
  /\ stage \in {"connected", "nice", "ok"} => C!AllEdgesContained
  /\ stage \in {"nice", "ok"} => \A x \in Undirected(graph).vertex : C!Connected(x)
  /\ stage = "invalid" => ~(Valid /\ Nice)

LEMMA SameTests ==
  ASSUME UNCHANGED <<n, kids, bag, root, graph>>
  PROVE  /\ C!IsTree' <=> C!IsTree
         /\ C!AllVerticesContained' <=> C!AllVerticesContained
         /\ C!AllEdgesContained' <=> C!AllEdgesContained
         /\ (\A x \in Undirected(graph).vertex : C!Connected(x))'
              <=> \A x \in Undirected(graph).vertex : C!Connected(x)
         /\ Nice' <=> Nice
         /\ Valid' <=> Valid
<1>1. Td(root)' = Td(root) /\ Undirected(graph)' = Undirected(graph)
  BY DEF Td, Node, Undirected
<1>2. C!IsTree' <=> C!IsTree
  BY <1>1 DEF C!IsTree
<1>3. C!AllVerticesContained' <=> C!AllVerticesContained
  BY <1>1 DEF C!AllVerticesContained
<1>4. C!AllEdgesContained' <=> C!AllEdgesContained
  BY <1>1 DEF C!AllEdgesContained
<1>5. \A x : C!Connected(x)' <=> C!Connected(x)
  BY <1>1 DEF C!Connected, C!ReachedFrom, C!Holding
<1>6. \A t : C!NiceAt(t)' <=> C!NiceAt(t)
  BY <1>1 DEF C!NiceAt
<1> QED BY <1>1, <1>2, <1>3, <1>4, <1>5, <1>6 DEF Valid, Nice

LEMMA InitChecks == PreInit => CheckInv
BY DEF PreInit, CheckInv

(* What has an edge in no bag is no decomposition of the graph.            *)
LEMMA NoHostIsNone ==
  ASSUME NodesInv, NoHost
  PROVE  ~IsOneGiven
<1>1. stage = "setup" /\ given # NoTd
  BY DEF NoHost, Setup
<1>2. PICK e \in Edges(orig) : Hosts(given, e) = {}
  BY DEF NoHost
<1>3. given.n \in Nat
  BY <1>1 DEF NodesInv, AsGiven, IsGiven
<1> SUFFICES ASSUME NEW r, Decomp(TdOf(given, r), Undirected(orig)) PROVE FALSE
  BY <1>1, <1>3, GivenIs DEF IsOne
<1>4. {e[1], e[2]} \in Undirected(orig).edge
  BY DEF Undirected
<1>5. PICK t \in TdOf(given, r).node : {e[1], e[2]} \subseteq TdOf(given, r).bag[t]
  BY <1>4 DEF Decomp, Covers
<1>6. t \in Hosts(given, e)
  BY <1>5 DEF TdOf, Hosts
<1> QED BY <1>2, <1>6

(* A test keeps what is tested.                                            *)
LEMMA TestChecks ==
  ASSUME CheckInv, CheckStart \/ CheckTree \/ CheckVertices \/ CheckEdges \/ CheckConnected \/ CheckNice
  PROVE  CheckInv'
<1>1. UNCHANGED <<niceVars, localVars, caseVars, facadeVars, graph>>
  BY DEF Checking, CheckStart, CheckTree, CheckVertices, CheckEdges, CheckConnected, CheckNice
<1>2. UNCHANGED <<n, kids, bag, root, graph>> /\ UNCHANGED <<given, orig>> /\ done' = done
  BY <1>1 DEF niceVars, caseVars
<1>3. /\ C!IsTree' <=> C!IsTree
      /\ C!AllVerticesContained' <=> C!AllVerticesContained
      /\ C!AllEdgesContained' <=> C!AllEdgesContained
      /\ (\A x \in Undirected(graph).vertex : C!Connected(x))'
           <=> \A x \in Undirected(graph).vertex : C!Connected(x)
      /\ Nice' <=> Nice
      /\ Valid' <=> Valid
  BY <1>2, SameTests
<1>4. done /\ stage' # "aborted"
  BY DEF CheckInv, CheckStart, CheckTree, CheckVertices, CheckEdges, CheckConnected, CheckNice,
         C!Start, C!TestTree, C!TestVertices, C!TestEdges, C!TestConnected, C!TestNice, C!Pass, C!Throw
<1>5. CASE CheckStart
  <2>1. stage' \in {"unchecked", "tree"}
    BY <1>5 DEF CheckStart, C!Start, C!Pass
  <2> QED BY <1>2, <1>4, <2>1 DEF CheckInv
<1>6. CASE CheckTree
  <2>1. stage' = IF C!IsTree THEN "vertices" ELSE "invalid"
    BY <1>6 DEF CheckTree, C!TestTree, C!Pass, C!Throw
  <2> QED BY <1>2, <1>3, <1>4, <2>1 DEF CheckInv, Valid
<1>7. CASE CheckVertices
  <2>1. stage = "vertices" /\ stage' = IF C!AllVerticesContained THEN "edges" ELSE "invalid"
    BY <1>7 DEF CheckVertices, C!TestVertices, C!Pass, C!Throw
  <2> QED BY <1>2, <1>3, <1>4, <2>1 DEF CheckInv, Valid
<1>8. CASE CheckEdges
  <2>1. stage = "edges" /\ stage' = IF C!AllEdgesContained THEN "connected" ELSE "invalid"
    BY <1>8 DEF CheckEdges, C!TestEdges, C!Pass, C!Throw
  <2> QED BY <1>2, <1>3, <1>4, <2>1 DEF CheckInv, Valid
<1>9. CASE CheckConnected
  <2>1. /\ stage = "connected"
        /\ stage' = IF \A x \in Undirected(graph).vertex : C!Connected(x) THEN "nice" ELSE "invalid"
    BY <1>9 DEF CheckConnected, C!TestConnected, C!Pass, C!Throw
  <2> QED BY <1>2, <1>3, <1>4, <2>1 DEF CheckInv, Valid
<1>10. CASE CheckNice
  <2>1. stage = "nice" /\ stage' = IF Nice THEN "ok" ELSE "invalid"
    BY <1>10 DEF CheckNice, C!TestNice, C!Pass, C!Throw, Nice
  <2> QED BY <1>2, <1>3, <1>4, <2>1 DEF CheckInv, Valid
<1> QED BY <1>5, <1>6, <1>7, <1>8, <1>9, <1>10

LEMMA CheckStep == NodesInv /\ CheckInv /\ [PreNext]_preVars => CheckInv'
<1> SUFFICES ASSUME NodesInv, CheckInv, [PreNext]_preVars PROVE CheckInv'
  OBVIOUS
<1>1. CASE KeepGraph \/ MakeIncidence \/ ExtendLoaded \/ Generated \/ SolveAgain
  <2>1. stage' \in {"setup", "generate", "make_nice"}
    BY <1>1 DEF KeepGraph, MakeIncidence, ExtendLoaded, Generated, SolveAgain, Proceed
  <2> QED BY <2>1 DEF CheckInv
<1>2. CASE NoHost
  <2>1. stage' = "aborted" /\ UNCHANGED <<given, orig>>
    BY <1>2 DEF NoHost, Setup, caseVars
  <2>2. ~IsOneGiven'
    BY <1>2, <2>1, NoHostIsNone, SameGiven
  <2> QED BY <2>1, <2>2 DEF CheckInv
<1>3. CASE \/ EmptyGraph \/ Begin \/ Take \/ UpdateOut \/ OutDone \/ UpdateIn
           \/ Clear \/ AddEdge \/ Eliminated \/ AddNode
  <2>1. stage' = "generate"
    BY <1>3 DEF EmptyGraph, Begin, Take, UpdateOut, OutDone, UpdateIn, Clear, AddEdge, Eliminated,
                AddNode, Generating
  <2> QED BY <2>1 DEF CheckInv
<1>4. CASE \/ NiceLeaf \/ NiceBinary \/ NiceJoins \/ NiceBetween \/ NiceAdvance
  <2>1. stage' = "make_nice"
    BY <1>4 DEF NiceLeaf, NiceBinary, NiceJoins, NiceBetween, NiceAdvance, Repairing
  <2> QED BY <2>1 DEF CheckInv
<1>5. CASE MadeNice
  <2>1. stage' = "start" /\ done'
    BY <1>5 DEF MadeNice, niceVars
  <2> QED BY <2>1 DEF CheckInv
<1>6. CASE \/ CheckStart \/ CheckTree \/ CheckVertices \/ CheckEdges
           \/ CheckConnected \/ CheckNice
  BY <1>6, TestChecks
<1>7. CASE AddVertex \/ AddArc \/ Finished \/ UNCHANGED preVars
  <2>1. UNCHANGED <<n, kids, bag, root, graph>> /\ UNCHANGED <<given, orig>> /\ UNCHANGED <<done, stage>>
    BY <1>7 DEF AddVertex, AddArc, Grows, Finished, preVars, niceVars, caseVars
  <2>2. IsOneGiven' <=> IsOneGiven
    BY <2>1, SameGiven
  <2>3. /\ C!IsTree' <=> C!IsTree
        /\ C!AllVerticesContained' <=> C!AllVerticesContained
        /\ C!AllEdgesContained' <=> C!AllEdgesContained
        /\ (\A x \in Undirected(graph).vertex : C!Connected(x))'
             <=> \A x \in Undirected(graph).vertex : C!Connected(x)
        /\ Nice' <=> Nice
        /\ Valid' <=> Valid
    BY <2>1, SameTests
  <2> QED BY <2>1, <2>2, <2>3 DEF CheckInv
<1> QED BY <1>1, <1>2, <1>3, <1>4, <1>5, <1>6, <1>7 DEF PreNext

LEMMA DecidesFromInv == NodesInv /\ KeptInv /\ CheckInv => GivenDecides
<1> SUFFICES ASSUME NodesInv, KeptInv, CheckInv, stage \in {"ok", "invalid"}, Reached(Td(root)) = Node
             PROVE  IF stage = "ok"
                    THEN IsOneGiven /\ IsNiceTreeDecomposition(Td(root), Undirected(graph))
                    ELSE ~IsOneGiven
  BY DEF GivenDecides, CheckInv
<1> DEFINE g == Undirected(graph)
<1>1. IInv /\ done /\ n \in Nat
  BY DEF NodesInv, CheckInv, Preparing, IInv, TypeOK
<1>2. IsOneGiven <=> \E r \in Node : Decomp(Td(r), g)
  BY DEF KeptInv, Preparing, Decomposed
<1>3. root \in Node /\ \A r \in Node : Rooted(Td(r)) => r = root
  BY <1>1, RootIs
<1>4. Valid <=> Decomp(Td(root), g)
  BY <1>1, <1>3, ValidIs
<1>5. CASE stage = "ok"
  <2>1. Decomp(Td(root), g)
    BY <1>4, <1>5 DEF CheckInv, Valid
  <2>2. Td(root).node = Node /\ Td(root).root = root /\ IsFiniteSet(Node)
    BY <1>1, FS_Interval DEF Td, Node
  <2> HIDE DEF g
  <2>3. IsTreeDecomposition(Td(root), g)
    BY <1>3, <2>1, <2>2, DecompIs
  <2>4. \A t \in Td(root).node : IsNiceNode(Td(root), t)
    BY <1>1, <2>2 DEF IInv, NiceBehind
  <2> QED BY <1>2, <1>3, <1>5, <2>1, <2>3, <2>4 DEF IsNiceTreeDecomposition, g
<1>6. CASE stage = "invalid"
  <2> SUFFICES ASSUME NEW r \in Node, Decomp(Td(r), g) PROVE FALSE
    BY <1>2, <1>6
  <2> HIDE DEF g
  <2>1. r = root /\ Rooted(Td(root)) /\ Decomp(Td(root), g)
    BY <1>3 DEF Decomp
  <2>2. Valid /\ Nice
    BY <1>1, <1>4, <2>1, NiceIs
  <2> QED BY <1>6, <2>2 DEF CheckInv
<1> QED BY <1>5, <1>6

(***************************************************************************)
(* The checks decide by the definition of the literature: the solver goes  *)
(* on with a decomposition, all nodes of which are below the root, exactly *)
(* if none was loaded or the loaded one is one of the graph, and it is a   *)
(* nice one then; and the assertion on the hosts of edges fails only for a *)
(* decomposition that is none of the graph.                                *)
(***************************************************************************)
THEOREM PreSolveGivenDecides ==
  ASSUME LoadedFits
  PROVE  PreSpec => []GivenDecides
<1>1. PreInit => PreInv /\ NodesInv /\ KeptInv /\ CheckInv
  BY InitPreInv, InitNodes, InitKept, InitChecks
<1>2. PreInv /\ NodesInv /\ KeptInv /\ CheckInv /\ [PreNext]_preVars
        => (PreInv /\ NodesInv /\ KeptInv /\ CheckInv)'
  BY PreInvStep, NodesStep, KeptStep, CheckStep
<1> QED BY <1>1, <1>2, DecidesFromInv, PTL DEF PreSpec

=============================================================================
