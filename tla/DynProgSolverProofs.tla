------------------------ MODULE DynProgSolverProofs -------------------------
(***************************************************************************)
(* Proofs about solve(), for every nice tree decomposition: the walk of    *)
(* the build without TBB (SeqSolve), then the tasks of the build with TBB  *)
(* (TbbSolve) on any number of workers, then both.  What a do_X() reads is *)
(* there, the solution that comes out accounts for every node, nothing is  *)
(* left behind, and either build implements the schedule DynProg.  Last    *)
(* what the schedule promises.                                             *)
(*                                                                         *)
(* The theorems about both builds are about tasks in any order             *)
(* (AnyOrderSpec).  They hold without TBB and with one worker; with more   *)
(* workers they assume what the code does not guarantee, that no child is  *)
(* completed between its spawn() and its parent's set_ref_count()          *)
(* (Unhurried).                                                            *)
(***************************************************************************)
EXTENDS DynProgSolver, TLAPS

InStack(v) == \E i \in 1 .. Len(stack) : stack[i] = v

(* v has been worked on.                                                   *)
Handled(v) == v \in visited /\ ~InStack(v) /\ v \notin cur

(* The stack holds no node twice.                                          *)
StackDistinct ==
  \A i, j \in 1 .. Len(stack) : stack[i] = stack[j] => i = j

(* Nothing below a node that was not expanded has been touched.            *)
FreshBelow ==
  \A v \in Node \ visited : \A c \in KidSet(kids, v) : c \notin visited /\ ~InStack(c)

(* A child of an expanded node that waits in the stack is handled, is      *)
(* being worked on, or lies above it.                                      *)
KidsAbove ==
  \A j \in 1 .. Len(stack) : stack[j] \in visited =>
    \A c \in KidSet(kids, stack[j]) :
      Handled(c) \/ c \in cur \/ \E i \in 1 .. j - 1 : stack[i] = c

(* The node being worked on was visited, and its children are handled.     *)
CurReady ==
  \A v \in cur : /\ v \in visited /\ ~InStack(v)
                 /\ \A c \in KidSet(kids, v) : Handled(c)

(* The root is on its way or handled.                                      *)
RootKnown == InStack(Root) \/ Root \in cur \/ Handled(Root)

(* What a handled node left: its own entry, its children's entries, and    *)
(* no table of a child.                                                    *)
HandledData ==
  \A v \in Node : Handled(v) =>
    /\ v \in table[v]
    /\ v \in live => v \in alphas
    /\ \A c \in KidSet(kids, v) :
         Handled(c) /\ c \notin live /\ table[c] \subseteq table[v]

(* A table is missing because its parent consumed it, or it was the root's.*)
Consumed ==
  \A v \in Node \ live :
    \/ v = Root /\ stack = <<>> /\ cur = {} /\ answer = table[Root]
    \/ \E p \in Node : v \in KidSet(kids, p) /\ Handled(p)

(* A node that is not handled has an empty table.                          *)
Unfilled == \A v \in Node : ~Handled(v) => table[v] = {}

AlphasLive == alphas \subseteq live

IInv ==
  /\ TypeOK /\ StackDistinct /\ FreshBelow /\ KidsAbove /\ CurReady
  /\ RootKnown /\ HandledData /\ Consumed /\ Unfilled /\ AlphasLive
-----------------------------------------------------------------------------
(* The facts about a tree that the proofs use.                             *)
LEMMA TreeFacts ==
  ASSUME NEW ks \in Shapes
  PROVE  /\ ks \in [Node -> Seq(Node)]
         /\ \A v \in Node : Len(ks[v]) \in 0 .. 2
         /\ \A v \in Node : Len(ks[v]) = 2 => ks[v][1] # ks[v][2]
         /\ \A v \in Node : KidSet(ks, v) \subseteq Node
         /\ \A v \in Node : Root \notin KidSet(ks, v)
         /\ \A v, w \in Node : v # w => KidSet(ks, v) \cap KidSet(ks, w) = {}
         /\ Reaches(ks)
         /\ Root \in Node
<1>1. IsNiceTree(ks) /\ Root \in Node
  BY TreeAssumption
<1>2. ASSUME NEW v \in Node PROVE KidSet(ks, v) \subseteq Node
  <2>1. ks[v] \in Seq(Node)
    BY <1>1 DEF IsNiceTree
  <2>2. QED
    BY <2>1 DEF KidSet
<1>3. QED
  BY <1>1, <1>2 DEF IsNiceTree

(* The children of a node, by the number of them.                          *)
LEMMA KidSetCases ==
  ASSUME NEW ks \in Shapes, NEW v \in Node
  PROVE  /\ Len(ks[v]) = 0 <=> KidSet(ks, v) = {}
         /\ Len(ks[v]) = 1 => KidSet(ks, v) = {ks[v][1]}
         /\ Len(ks[v]) = 2 => KidSet(ks, v) = {ks[v][1], ks[v][2]}
         /\ ks[v] = <<>> <=> Len(ks[v]) = 0
<1>1. ks[v] \in Seq(Node) /\ Len(ks[v]) \in 0 .. 2
  BY TreeFacts
<1>2. Len(ks[v]) = 0 <=> KidSet(ks, v) = {}
  <2>1. ASSUME Len(ks[v]) = 0 PROVE KidSet(ks, v) = {}
    <3>1. 1 .. Len(ks[v]) = {}
      BY <2>1
    <3>2. QED
      BY <3>1 DEF KidSet
  <2>2. ASSUME Len(ks[v]) # 0 PROVE KidSet(ks, v) # {}
    <3>1. 1 \in 1 .. Len(ks[v])
      BY <1>1, <2>2
    <3>2. QED
      BY <3>1 DEF KidSet
  <2>3. QED
    BY <2>1, <2>2
<1>3. ASSUME Len(ks[v]) = 1 PROVE KidSet(ks, v) = {ks[v][1]}
  BY <1>1, <1>3 DEF KidSet
<1>4. ASSUME Len(ks[v]) = 2 PROVE KidSet(ks, v) = {ks[v][1], ks[v][2]}
  <2>1. 1 .. Len(ks[v]) = {1, 2}
    BY <1>4
  <2>2. QED
    BY <2>1 DEF KidSet
<1>5. ks[v] = <<>> <=> Len(ks[v]) = 0
  BY <1>1
<1>6. QED
  BY <1>2, <1>3, <1>4, <1>5

(* What Expand puts on the stack.                                          *)
LEMMA PushKids ==
  ASSUME NEW ks \in Shapes, NEW v \in Node, NEW st \in Seq(Node)
  PROVE  /\ Reverse(ks[v]) \o st \in Seq(Node)
         /\ Len(Reverse(ks[v]) \o st) = Len(ks[v]) + Len(st)
         /\ \A i \in 1 .. Len(ks[v]) :
              (Reverse(ks[v]) \o st)[i] = ks[v][Len(ks[v]) - i + 1]
         /\ \A i \in Len(ks[v]) + 1 .. Len(ks[v]) + Len(st) :
              (Reverse(ks[v]) \o st)[i] = st[i - Len(ks[v])]
<1> DEFINE r == Reverse(ks[v])
<1>1. ks[v] \in Seq(Node) /\ Len(ks[v]) \in Nat
  BY TreeFacts
<1>2. r \in Seq(Node) /\ Len(r) = Len(ks[v])
  BY <1>1 DEF Reverse
<1>3. \A i \in 1 .. Len(ks[v]) : r[i] = ks[v][Len(ks[v]) - i + 1]
  BY <1>1 DEF Reverse
<1>. HIDE DEF r
<1>4. /\ r \o st \in Seq(Node)
      /\ Len(r \o st) = Len(r) + Len(st)
      /\ \A i \in 1 .. Len(r) : (r \o st)[i] = r[i]
      /\ \A i \in Len(r) + 1 .. Len(r) + Len(st) : (r \o st)[i] = st[i - Len(r)]
  BY <1>2
<1>5. QED
  BY <1>2, <1>3, <1>4 DEF r

-----------------------------------------------------------------------------
(* The walk starts with the root on the stack and nothing touched.         *)
LEMMA InitIInv == Init => IInv
<1> SUFFICES ASSUME Init PROVE IInv
  OBVIOUS
<1>1. Root \in Node
  BY TreeFacts, TreeAssumption
<1>2. stack = <<Root>> /\ Len(stack) = 1 /\ stack[1] = Root
  BY DEF Init
<1>3. TypeOK
  BY <1>1, <1>2 DEF Init, TypeOK
<1>4. StackDistinct
  BY <1>2 DEF StackDistinct
<1>5. FreshBelow
  <2>1. ASSUME NEW v \in Node, NEW c \in KidSet(kids, v), InStack(c) PROVE FALSE
    BY <2>1, <1>2, <1>1, TreeFacts DEF InStack, Init
  <2>2. QED
    BY <2>1 DEF FreshBelow, Init
<1>6. KidsAbove /\ CurReady /\ HandledData /\ Consumed /\ Unfilled /\ AlphasLive
  BY DEF Init, KidsAbove, CurReady, HandledData, Consumed, Unfilled, AlphasLive, Handled
<1>7. RootKnown
  BY <1>2 DEF RootKnown, InStack
<1>8. QED
  BY <1>3, <1>4, <1>5, <1>6, <1>7 DEF IInv

-----------------------------------------------------------------------------
(* Expanding a node pushes its children, which are fresh.                  *)
LEMMA ExpandIInv ==
  ASSUME IInv, Expand
  PROVE  IInv'
<1> DEFINE v == Head(stack)
           n == Len(kids[v])
<1> USE DEF Top
<1>1. /\ kids \in Shapes /\ kids' = kids /\ stack \in Seq(Node) /\ Len(stack) \in Nat \ {0}
      /\ v \in Node /\ v = stack[1] /\ v \notin visited /\ visited' = visited \cup {v}
      /\ cur = {} /\ cur' = {} /\ visited \subseteq Node
  BY DEF Expand, IInv, TypeOK
<1>2. /\ live' = live /\ table' = table /\ alphas' = alphas /\ answer' = answer
  BY DEF Expand
<1>3. /\ stack' \in Seq(Node)
      /\ Len(stack') = n + Len(stack)
      /\ \A i \in 1 .. n : stack'[i] = kids[v][n - i + 1]
      /\ \A i \in n + 1 .. n + Len(stack) : stack'[i] = stack[i - n]
  <2>1. stack' = Reverse(kids[v]) \o stack
    BY DEF Expand
  <2>. HIDE DEF v
  <2>2. /\ Reverse(kids[v]) \o stack \in Seq(Node)
        /\ Len(Reverse(kids[v]) \o stack) = Len(kids[v]) + Len(stack)
        /\ \A i \in 1 .. Len(kids[v]) :
             (Reverse(kids[v]) \o stack)[i] = kids[v][Len(kids[v]) - i + 1]
        /\ \A i \in Len(kids[v]) + 1 .. Len(kids[v]) + Len(stack) :
             (Reverse(kids[v]) \o stack)[i] = stack[i - Len(kids[v])]
    BY <1>1, PushKids, Zenon
  <2>3. QED
    BY <2>1, <2>2, Zenon
<1>4. n \in 0 .. 2 /\ (n = 2 => kids[v][1] # kids[v][2])
  BY <1>1, TreeFacts
<1>. HIDE DEF v, n
<1>5. \A c \in KidSet(kids, v) : c \notin visited /\ ~InStack(c) /\ c # v
  BY <1>1 DEF IInv, FreshBelow, InStack
<1>6. \A i \in 1 .. n : stack'[i] \in KidSet(kids, v)
  <2>1. ASSUME NEW i \in 1 .. n PROVE n - i + 1 \in 1 .. n
    BY <1>4
  <2>2. QED
    BY <2>1, <1>3 DEF KidSet, n
<1>7. \A c \in KidSet(kids, v) : \E i \in 1 .. n : stack'[i] = c
  <2>1. SUFFICES ASSUME NEW k \in 1 .. n PROVE \E i \in 1 .. n : stack'[i] = kids[v][k]
    BY DEF KidSet, n
  <2>2. n - k + 1 \in 1 .. n /\ n - (n - k + 1) + 1 = k
    BY <1>4
  <2>3. QED
    BY <2>2, <1>3
<1>8. \A w : InStack(w)' <=> InStack(w) \/ w \in KidSet(kids, v)
  <2>1. ASSUME NEW w, InStack(w)' PROVE InStack(w) \/ w \in KidSet(kids, v)
    <3>1. PICK i \in 1 .. n + Len(stack) : stack'[i] = w
      BY <2>1, <1>3 DEF InStack
    <3>2. CASE i \in 1 .. n
      BY <3>1, <3>2, <1>6
    <3>3. CASE i \in n + 1 .. n + Len(stack)
      <4>1. i - n \in 1 .. Len(stack)
        <5>1. n \in Nat /\ Len(stack) \in Nat
          BY <1>1, <1>4
        <5>2. QED
          BY <5>1, <3>3
      <4>2. QED
        BY <4>1, <3>1, <3>3, <1>3 DEF InStack
    <3>4. QED
      BY <3>2, <3>3, <1>1, <1>4
  <2>2. ASSUME NEW w, InStack(w) PROVE InStack(w)'
    <3>1. PICK i \in 1 .. Len(stack) : stack[i] = w
      BY <2>2 DEF InStack
    <3>2. i + n \in n + 1 .. n + Len(stack) /\ (i + n) - n = i
      BY <1>1, <1>4
    <3>3. i + n \in 1 .. n + Len(stack)
      BY <1>1, <1>4
    <3>4. QED
      BY <3>1, <3>2, <3>3, <1>3 DEF InStack
  <2>3. ASSUME NEW w \in KidSet(kids, v) PROVE InStack(w)'
    <3>1. PICK i \in 1 .. n : stack'[i] = w
      BY <1>7
    <3>2. i \in 1 .. n + Len(stack)
      BY <1>1, <1>4
    <3>3. QED
      BY <3>1, <3>2, <1>3 DEF InStack
  <2>4. QED
    BY <2>1, <2>2, <2>3
<1>9. InStack(v)
  BY <1>1 DEF InStack
<1>10. \A w : Handled(w)' <=> Handled(w)
  BY <1>1, <1>5, <1>8, <1>9 DEF Handled
<1>11. TypeOK'
  BY <1>1, <1>2, <1>3 DEF IInv, TypeOK
<1>12. StackDistinct'
  <2>1. SUFFICES ASSUME NEW i \in 1 .. n + Len(stack), NEW j \in 1 .. n + Len(stack),
                        stack'[i] = stack'[j], i <= j
                 PROVE  i = j
    BY <1>3, <1>1, <1>4 DEF StackDistinct
  <2>2. CASE j \in 1 .. n
    <3>1. i \in 1 .. n
      BY <2>1, <2>2, <1>4, <1>1
    <3>2. kids[v][n - i + 1] = kids[v][n - j + 1]
      BY <2>1, <2>2, <3>1, <1>3
    <3>3. QED
      BY <3>1, <3>2, <2>2, <1>4
  <2>3. CASE i \in 1 .. n /\ j \in n + 1 .. n + Len(stack)
    <3>1. j - n \in 1 .. Len(stack)
      BY <2>3, <1>1, <1>4
    <3>2. InStack(stack'[j])
      BY <3>1, <2>3, <1>3 DEF InStack
    <3>3. QED
      BY <3>2, <2>1, <2>3, <1>5, <1>6
  <2>4. CASE i \in n + 1 .. n + Len(stack) /\ j \in n + 1 .. n + Len(stack)
    <3>1. i - n \in 1 .. Len(stack) /\ j - n \in 1 .. Len(stack)
      BY <2>4, <1>1, <1>4
    <3>2. i - n = j - n
      BY <3>1, <2>1, <2>4, <1>3 DEF IInv, StackDistinct
    <3>3. QED
      BY <3>2, <1>4, <1>1
  <2>5. QED
    BY <2>1, <2>2, <2>3, <2>4, <1>1, <1>4
<1>13. FreshBelow'
  <2>1. SUFFICES ASSUME NEW w \in Node, w \notin visited, w # v, NEW c \in KidSet(kids, w)
                 PROVE  c \notin visited /\ c # v /\ ~InStack(c)'
    BY <1>1 DEF FreshBelow
  <2>2. c \notin visited /\ ~InStack(c)
    BY <2>1 DEF IInv, FreshBelow
  <2>3. c \notin KidSet(kids, v)
    BY <2>1, <1>1, TreeFacts
  <2>4. QED
    BY <2>2, <2>3, <1>8, <1>9
<1>14. KidsAbove'
  <2>1. SUFFICES ASSUME NEW j \in 1 .. n + Len(stack), stack'[j] \in visited \cup {v},
                        NEW c \in KidSet(kids, stack'[j])
                 PROVE  Handled(c) \/ \E i \in 1 .. j - 1 : stack'[i] = c
    BY <1>1, <1>3, <1>10 DEF KidsAbove
  <2>2. CASE j \in 1 .. n
    BY <2>1, <2>2, <1>5, <1>6
  <2>3. CASE j \in n + 1 .. n + Len(stack)
    <3>1. j - n \in 1 .. Len(stack) /\ stack'[j] = stack[j - n]
      BY <2>3, <1>1, <1>3, <1>4
    <3>2. CASE stack'[j] = v
      <4>1. PICK i \in 1 .. n : stack'[i] = c
        BY <3>2, <2>1, <1>7
      <4>2. i \in 1 .. j - 1
        BY <2>3, <1>1, <1>4
      <4>3. QED
        BY <4>1, <4>2
    <3>3. CASE stack[j - n] \in visited
      <4>1. Handled(c) \/ \E i \in 1 .. (j - n) - 1 : stack[i] = c
        BY <3>1, <3>3, <2>1, <1>1 DEF IInv, KidsAbove
      <4>2. ASSUME NEW i \in 1 .. (j - n) - 1, stack[i] = c
            PROVE  \E k \in 1 .. j - 1 : stack'[k] = c
        <5>1. i + n \in 1 .. j - 1 /\ i + n \in n + 1 .. n + Len(stack) /\ (i + n) - n = i
          BY <4>2, <3>1, <1>1, <1>4
        <5>2. QED
          BY <5>1, <4>2, <1>3
      <4>3. QED
        BY <4>1, <4>2
    <3>4. QED
      BY <3>1, <3>2, <3>3, <2>1
  <2>4. QED
    BY <2>1, <2>2, <2>3, <1>1, <1>4
<1>15. CurReady' /\ AlphasLive'
  BY <1>1, <1>2 DEF CurReady, AlphasLive, IInv
<1>16. RootKnown'
  BY <1>1, <1>8, <1>10 DEF RootKnown, IInv
<1>17. HandledData' /\ Unfilled'
  BY <1>1, <1>2, <1>10 DEF HandledData, Unfilled, IInv
<1>18. Consumed'
  <2>1. stack # <<>>
    BY <1>1
  <2>2. QED
    BY <2>1, <1>1, <1>2, <1>10 DEF Consumed, IInv
<1>19. QED
  BY <1>11, <1>12, <1>13, <1>14, <1>15, <1>16, <1>17, <1>18 DEF IInv

(* A node is popped once its children have been worked on.                 *)
LEMMA PopIInv ==
  ASSUME IInv, Pop
  PROVE  IInv'
<1>0. PICK v \in Node : v = Head(stack) /\ v \in visited
  BY DEF Pop, Top, IInv, TypeOK
<1>1. /\ kids \in Shapes /\ kids' = kids /\ stack \in Seq(Node) /\ Len(stack) \in Nat \ {0}
      /\ v \in Node /\ v = stack[1] /\ v \in visited /\ visited' = visited
      /\ cur = {} /\ cur' = {v} /\ visited \subseteq Node /\ stack' = Tail(stack)
  BY <1>0 DEF Pop, Top, IInv, TypeOK
<1>2. /\ live' = live /\ table' = table /\ alphas' = alphas /\ answer' = answer
  BY DEF Pop
<1>3. /\ stack' \in Seq(Node) /\ Len(stack') = Len(stack) - 1
      /\ \A i \in 1 .. Len(stack) - 1 : stack'[i] = stack[i + 1]
  BY <1>1
<1>4. \A w : InStack(w) <=> w = v \/ InStack(w)'
  <2>1. ASSUME NEW w, InStack(w) PROVE w = v \/ InStack(w)'
    <3>1. PICK i \in 1 .. Len(stack) : stack[i] = w
      BY <2>1 DEF InStack
    <3>2. CASE i = 1
      BY <3>1, <3>2, <1>1
    <3>3. CASE i # 1
      <4>1. i - 1 \in 1 .. Len(stack) - 1 /\ (i - 1) + 1 = i
        BY <3>3, <1>1
      <4>2. QED
        BY <4>1, <3>1, <1>3 DEF InStack
    <3>4. QED
      BY <3>2, <3>3
  <2>2. ASSUME NEW w, InStack(w)' PROVE InStack(w)
    <3>1. PICK i \in 1 .. Len(stack) - 1 : stack'[i] = w
      BY <2>2, <1>3 DEF InStack
    <3>2. i + 1 \in 1 .. Len(stack)
      BY <1>1
    <3>3. QED
      BY <3>1, <3>2, <1>3 DEF InStack
  <2>3. InStack(v)
    BY <1>1 DEF InStack
  <2>4. QED
    BY <2>1, <2>2, <2>3
<1>5. ~InStack(v)'
  <2>1. SUFFICES ASSUME NEW i \in 1 .. Len(stack) - 1, stack[i + 1] = v PROVE FALSE
    BY <1>3 DEF InStack
  <2>2. i + 1 \in 1 .. Len(stack) /\ 1 \in 1 .. Len(stack) /\ i + 1 # 1
    BY <1>1
  <2>3. stack[i + 1] = stack[1] => i + 1 = 1
    BY <2>2, Zenon DEF IInv, StackDistinct
  <2>4. QED
    BY <2>1, <2>2, <2>3, <1>1
<1>6. \A w : Handled(w)' <=> Handled(w)
  BY <1>1, <1>4, <1>5 DEF Handled
<1>7. TypeOK'
  BY <1>1, <1>2, <1>3 DEF IInv, TypeOK
<1>8. StackDistinct'
  <2>1. SUFFICES ASSUME NEW i \in 1 .. Len(stack) - 1, NEW j \in 1 .. Len(stack) - 1,
                        stack[i + 1] = stack[j + 1]
                 PROVE  i = j
    BY <1>3 DEF StackDistinct
  <2>2. i + 1 \in 1 .. Len(stack) /\ j + 1 \in 1 .. Len(stack)
    BY <1>1
  <2>3. i + 1 = j + 1
    BY <2>1, <2>2 DEF IInv, StackDistinct
  <2>4. QED
    BY <2>3
<1>9. FreshBelow'
  BY <1>1, <1>4 DEF IInv, FreshBelow
<1>10. KidsAbove'
  <2>0. SUFFICES ASSUME NEW j \in 1 .. Len(stack'), stack'[j] \in visited',
                        NEW c \in KidSet(kids', stack'[j]), ~Handled(c)', c \notin cur'
                 PROVE  \E i \in 1 .. j - 1 : stack'[i] = c
    BY DEF KidsAbove
  <2>1. /\ j \in 1 .. Len(stack) - 1 /\ stack[j + 1] \in visited
        /\ c \in KidSet(kids, stack[j + 1]) /\ ~Handled(c) /\ c # v
    BY <2>0, <1>1, <1>3, <1>6
  <2>2. j + 1 \in 1 .. Len(stack)
    BY <1>1
  <2>3. PICK i \in 1 .. (j + 1) - 1 : stack[i] = c
    BY <2>1, <2>2, <1>1 DEF IInv, KidsAbove
  <2>4. i # 1
    BY <2>1, <2>3, <1>1
  <2>5. i - 1 \in 1 .. j - 1 /\ i - 1 \in 1 .. Len(stack) - 1 /\ (i - 1) + 1 = i
    BY <2>2, <2>3, <2>4, <1>1
  <2>6. stack'[i - 1] = c
    BY <2>3, <2>5, <1>3
  <2>7. QED
    BY <2>5, <2>6
<1>11. CurReady'
  <2>1. \A c \in KidSet(kids, v) : Handled(c)
    <3>1. 1 \in 1 .. Len(stack)
      BY <1>1
    <3>2. ASSUME NEW c \in KidSet(kids, v)
          PROVE  Handled(c) \/ c \in cur \/ \E i \in 1 .. 1 - 1 : stack[i] = c
      BY <3>1, <3>2, <1>1 DEF IInv, KidsAbove
    <3>3. QED
      BY <3>2, <1>1
  <2>2. ASSUME NEW c \in KidSet(kids, v) PROVE Handled(c)'
    BY <2>1, <2>2, <1>6
  <2>3. QED
    BY <2>2, <1>1, <1>5 DEF CurReady
<1>12. RootKnown' /\ AlphasLive'
  BY <1>1, <1>2, <1>4, <1>6 DEF RootKnown, AlphasLive, IInv
<1>13. HandledData' /\ Unfilled'
  BY <1>1, <1>2, <1>6 DEF HandledData, Unfilled, IInv
<1>14. Consumed'
  <2>1. stack # <<>>
    BY <1>1
  <2>2. QED
    BY <2>1, <1>1, <1>2, <1>6 DEF Consumed, IInv
<1>15. QED
  BY <1>7, <1>8, <1>9, <1>10, <1>11, <1>12, <1>13, <1>14 DEF IInv

-----------------------------------------------------------------------------
(* A handled child keeps what it has while its parent is not handled.      *)
LEMMA WaitingKid ==
  ASSUME IInv, NEW v \in Node, ~Handled(v), NEW c \in KidSet(kids, v), Handled(c)
  PROVE  c \in alphas /\ c \in live /\ c \in table[c] /\ c \in Node
<1>1. kids \in Shapes /\ c \in Node
  BY TreeFacts DEF IInv, TypeOK
<1>2. c \in table[c] /\ (c \in live => c \in alphas)
  BY <1>1 DEF IInv, HandledData
<1>3. ASSUME c \notin live PROVE FALSE
  <2>1. c # Root
    BY <1>1, TreeFacts
  <2>2. PICK p \in Node : c \in KidSet(kids, p) /\ Handled(p)
    BY <1>1, <1>3, <2>1 DEF IInv, Consumed
  <2>3. p = v
    BY <2>2, <1>1, TreeFacts
  <2>4. QED
    BY <2>2, <2>3
<1>4. QED
  BY <1>1, <1>2, <1>3

(* The children of the node at hand are complete and not given up.         *)
LEMMA CurKidsReady ==
  ASSUME IInv, NEW v \in cur, NEW c \in KidSet(kids, v)
  PROVE  c \in alphas /\ c \in live /\ c \in table[c]
<1>1. v \in Node /\ ~Handled(v) /\ Handled(c)
  BY DEF IInv, TypeOK, CurReady, Handled
<1>2. QED
  BY <1>1, WaitingKid

(* The three kinds of step of work_on(v) do the same to the tables.        *)
LEMMA WorkOnEffect ==
  ASSUME IInv, WorkOn
  PROVE  \E v \in Node :
           /\ cur = {v} /\ cur' = {}
           /\ kids' = kids /\ stack' = stack /\ visited' = visited /\ answer' = answer
           /\ live' = live \ KidSet(kids, v)
           /\ alphas' = (alphas \cup {v}) \ KidSet(kids, v)
           /\ table' = [table EXCEPT ![v] =
                          {v} \cup UNION {table[c] : c \in KidSet(kids, v)}]
<1>1. PICK v \in cur : DoLeaf(v) \/ DoIntroduceOrForget(v) \/ DoJoin(v)
  BY DEF WorkOn
<1>2. /\ cur = {v} /\ cur' = {} /\ v \in Node /\ kids \in Shapes
      /\ kids' = kids /\ stack' = stack /\ visited' = visited /\ answer' = answer
  BY <1>1 DEF WorkOn, IInv, TypeOK
<1>3. \A c \in KidSet(kids, v) : Entries(c) = table[c] /\ table[c] # {}
  BY CurKidsReady DEF Entries
<1>4. CASE DoLeaf(v)
  <2>1. KidSet(kids, v) = {}
    BY <1>2, <1>4, KidSetCases DEF DoLeaf
  <2>2. QED
    BY <2>1, <1>2, <1>4 DEF DoLeaf
<1>5. CASE DoIntroduceOrForget(v)
  <2>1. KidSet(kids, v) = {kids[v][1]}
    BY <1>2, <1>5, KidSetCases DEF DoIntroduceOrForget
  <2>2. {v} \cup UNION {table[c] : c \in KidSet(kids, v)} = table[kids[v][1]] \cup {v}
    BY <2>1
  <2>3. Entries(kids[v][1]) = table[kids[v][1]] /\ table[kids[v][1]] # {}
    BY <2>1, <1>3
  <2>4. QED
    BY <2>1, <2>2, <2>3, <1>2, <1>5 DEF DoIntroduceOrForget
<1>6. CASE DoJoin(v)
  <2> DEFINE l == kids[v][1]
             r == kids[v][2]
  <2>1. KidSet(kids, v) = {l, r}
    BY <1>2, <1>6, KidSetCases DEF DoJoin
  <2>2. {v} \cup UNION {table[c] : c \in KidSet(kids, v)} = table[l] \cup table[r] \cup {v}
    BY <2>1
  <2>3. /\ Entries(l) = table[l] /\ table[l] # {}
        /\ Entries(r) = table[r] /\ table[r] # {}
    BY <2>1, <1>3
  <2>4. /\ alphas' = (alphas \cup {v}) \ {l, r}
        /\ live' = live \ {l, r}
        /\ table' = [table EXCEPT ![v] = table[l] \cup table[r] \cup {v}]
    BY <1>6, <2>3 DEF DoJoin
  <2>5. QED
    BY <2>1, <2>2, <2>4, <1>2
<1>7. QED
  BY <1>1, <1>4, <1>5, <1>6

(* Working on a node consumes the tables of its children.                  *)
LEMMA WorkOnIInv ==
  ASSUME IInv, WorkOn
  PROVE  IInv'
<1>1. PICK v \in Node :
           /\ cur = {v} /\ cur' = {}
           /\ kids' = kids /\ stack' = stack /\ visited' = visited /\ answer' = answer
           /\ live' = live \ KidSet(kids, v)
           /\ alphas' = (alphas \cup {v}) \ KidSet(kids, v)
           /\ table' = [table EXCEPT ![v] =
                          {v} \cup UNION {table[c] : c \in KidSet(kids, v)}]
  BY WorkOnEffect
<1>2. kids \in Shapes /\ table \in [Node -> SUBSET Node] /\ KidSet(kids, v) \subseteq Node
  BY <1>1, TreeFacts DEF IInv, TypeOK
<1>3. /\ v \in visited /\ ~InStack(v) /\ ~Handled(v)
      /\ \A c \in KidSet(kids, v) : Handled(c) /\ c # v
  BY <1>1 DEF IInv, CurReady, Handled
<1>4. \A w : InStack(w)' <=> InStack(w)
  BY <1>1 DEF InStack
<1>5. \A w : Handled(w)' <=> Handled(w) \/ w = v
  BY <1>1, <1>3, <1>4 DEF Handled
<1>6. /\ table'[v] = {v} \cup UNION {table[c] : c \in KidSet(kids, v)}
      /\ \A w \in Node : w # v => table'[w] = table[w]
      /\ table' \in [Node -> SUBSET Node]
  BY <1>1, <1>2
<1>7. v \in live
  <2>1. ASSUME v \notin live PROVE FALSE
    <3>1. cur # {}
      BY <1>1
    <3>2. PICK p \in Node : v \in KidSet(kids, p) /\ Handled(p)
      BY <2>1, <3>1 DEF IInv, Consumed
    <3>3. QED
      BY <3>2, <1>3 DEF IInv, HandledData
  <2>2. QED
    BY <2>1
<1>8. TypeOK'
  BY <1>1, <1>2, <1>6 DEF IInv, TypeOK
<1>9. StackDistinct' /\ FreshBelow'
  BY <1>1, <1>4 DEF IInv, StackDistinct, FreshBelow
<1>10. KidsAbove'
  BY <1>1, <1>5 DEF IInv, KidsAbove
<1>11. CurReady' /\ RootKnown'
  BY <1>1, <1>3, <1>4, <1>5 DEF IInv, CurReady, RootKnown
<1>12. HandledData'
  <2>1. SUFFICES ASSUME NEW w \in Node, Handled(w) \/ w = v
                 PROVE  /\ w \in table'[w]
                        /\ w \in live' => w \in alphas'
                        /\ \A c \in KidSet(kids, w) :
                             Handled(c)' /\ c \notin live' /\ table'[c] \subseteq table'[w]
    BY <1>1, <1>5 DEF HandledData
  <2>2. CASE w = v
    <3>1. ASSUME NEW c \in KidSet(kids, v)
          PROVE  Handled(c)' /\ c \notin live' /\ table'[c] \subseteq table'[v]
      BY <1>1, <1>2, <1>3, <1>5, <1>6
    <3>2. v \in table'[v] /\ v \in alphas'
      BY <1>1, <1>3, <1>6
    <3>3. QED
      BY <2>2, <3>1, <3>2
  <2>3. CASE w # v
    <3>1. Handled(w)
      BY <2>1, <2>3
    <3>2. w \in table'[w] /\ (w \in live' => w \in alphas')
      BY <2>3, <3>1, <1>1, <1>6 DEF IInv, HandledData
    <3>3. ASSUME NEW c \in KidSet(kids, w)
          PROVE  Handled(c)' /\ c \notin live' /\ table'[c] \subseteq table'[w]
      <4>1. Handled(c) /\ c \notin live /\ table[c] \subseteq table[w]
        BY <3>1 DEF IInv, HandledData
      <4>2. c # v /\ c \in Node
        BY <4>1, <1>2, <1>3, TreeFacts
      <4>3. QED
        BY <4>1, <4>2, <2>3, <1>1, <1>5, <1>6
    <3>4. QED
      BY <3>2, <3>3
  <2>4. QED
    BY <2>2, <2>3
<1>13. Consumed'
  <2>1. SUFFICES ASSUME NEW w \in Node, w \notin live'
                 PROVE  \E p \in Node : w \in KidSet(kids, p) /\ Handled(p)'
    BY <1>1 DEF Consumed
  <2>2. CASE w \in KidSet(kids, v)
    BY <2>2, <1>5
  <2>3. CASE w \notin live
    BY <2>3, <1>1, <1>5 DEF IInv, Consumed
  <2>4. QED
    BY <2>1, <2>2, <2>3, <1>1
<1>14. AlphasLive' /\ Unfilled'
  BY <1>1, <1>5, <1>6, <1>7 DEF IInv, AlphasLive, Unfilled
<1>15. QED
  BY <1>8, <1>9, <1>10, <1>11, <1>12, <1>13, <1>14 DEF IInv

(* do_root() gives up the last table.                                      *)
LEMMA DoRootIInv ==
  ASSUME IInv, DoRoot
  PROVE  IInv'
<1>1. /\ stack = <<>> /\ cur = {} /\ Root \in Node
      /\ kids' = kids /\ stack' = stack /\ visited' = visited /\ cur' = cur
      /\ table' = table /\ answer' = table[Root]
      /\ live' = live \ {Root} /\ alphas' = alphas \ {Root}
  BY TreeAssumption DEF DoRoot
<1>2. \A w : (InStack(w)' <=> InStack(w)) /\ (Handled(w)' <=> Handled(w))
  BY <1>1 DEF InStack, Handled
<1>3. TypeOK'
  BY <1>1 DEF IInv, TypeOK
<1>4. StackDistinct' /\ FreshBelow' /\ KidsAbove' /\ CurReady' /\ RootKnown' /\ AlphasLive'
  BY <1>1, <1>2 DEF IInv, StackDistinct, FreshBelow, KidsAbove, CurReady, RootKnown, AlphasLive
<1>5. HandledData' /\ Unfilled'
  BY <1>1, <1>2 DEF IInv, HandledData, Unfilled
<1>6. Consumed'
  BY <1>1, <1>2 DEF IInv, Consumed
<1>7. QED
  BY <1>3, <1>4, <1>5, <1>6 DEF IInv

(* Every step of the walk keeps the invariant.                             *)
LEMMA IInvInductive == IInv /\ [Next]_vars => IInv'
<1> SUFFICES ASSUME IInv, [Next]_vars PROVE IInv'
  OBVIOUS
<1>1. CASE UNCHANGED vars
  BY <1>1 DEF vars, IInv, TypeOK, StackDistinct, FreshBelow, KidsAbove, CurReady, RootKnown,
     HandledData, Consumed, Unfilled, AlphasLive, Handled, InStack
<1>2. CASE Terminated
  BY <1>1, <1>2 DEF Terminated
<1>3. QED
  BY <1>1, <1>2, ExpandIInv, PopIInv, WorkOnIInv, DoRootIInv DEF Next

(***************************************************************************)
(* Type correctness of the walk, for every tree.                           *)
(***************************************************************************)
THEOREM SeqTypeCorrect == Spec => []TypeOK
<1>1. IInv => TypeOK
  BY DEF IInv
<1>2. QED
  BY <1>1, InitIInv, IInvInductive, PTL DEF Spec

(***************************************************************************)
(* For every tree, do_leaf(), do_introduce(), do_forget() and do_join()    *)
(* find the assignment and the complete table of each child.               *)
(***************************************************************************)
THEOREM SeqChildrenReady == Spec => []ChildrenReady
<1>1. IInv => ChildrenReady
  BY CurKidsReady DEF ChildrenReady
<1>2. QED
  BY <1>1, InitIInv, IInvInductive, PTL DEF Spec

(* With an empty stack the handled nodes contain the root and are closed   *)
(* under children, so they are all the nodes; each table then contains its *)
(* children's, so all of them are contained in the root's.                 *)
LEMMA InvSolved == IInv => SolvedCompletely
<1> SUFFICES ASSUME IInv, Solved PROVE answer = Node /\ live = {} /\ alphas = {}
  BY DEF SolvedCompletely
<1>1. /\ kids \in Shapes /\ stack = <<>> /\ cur = {} /\ Root \notin live /\ Root \in Node
      /\ table \in [Node -> SUBSET Node] /\ live \subseteq Node /\ visited \subseteq Node
  BY TreeAssumption DEF IInv, TypeOK, Solved
<1>2. Reaches(kids) /\ \A v \in Node : KidSet(kids, v) \subseteq Node
  BY <1>1, TreeFacts
<1>3. Handled(Root)
  BY <1>1 DEF IInv, RootKnown, InStack
<1>4. \A v \in Node : Handled(v)
  <2> DEFINE S == {v \in Node : Handled(v)}
  <2>1. S \in SUBSET Node /\ Root \in S
    BY <1>1, <1>3
  <2>2. \A v \in S : KidSet(kids, v) \subseteq S
    BY <1>2 DEF IInv, HandledData
  <2>3. S = Node
    BY <2>1, <2>2, <1>2 DEF Reaches
  <2>4. QED
    BY <2>3
<1>5. \A v \in Node : v # Root => \E p \in Node : v \in KidSet(kids, p)
  <2> DEFINE S == {v \in Node : v = Root \/ \E p \in Node : v \in KidSet(kids, p)}
  <2>1. S \in SUBSET Node /\ Root \in S
    BY <1>1
  <2>2. \A v \in S : KidSet(kids, v) \subseteq S
    BY <1>2
  <2>3. S = Node
    BY <2>1, <2>2, <1>2 DEF Reaches
  <2>4. QED
    BY <2>3
<1>6. \A v \in Node : v \in table[v] /\ \A c \in KidSet(kids, v) : table[c] \subseteq table[v]
  BY <1>4 DEF IInv, HandledData
<1>7. \A v \in Node : table[v] \subseteq table[Root]
  <2> DEFINE S == {v \in Node : table[v] \subseteq table[Root]}
  <2>1. S \in SUBSET Node /\ Root \in S
    BY <1>1
  <2>2. \A v \in S : KidSet(kids, v) \subseteq S
    BY <1>2, <1>6
  <2>3. S = Node
    BY <2>1, <2>2, <1>2 DEF Reaches
  <2>4. QED
    BY <2>3
<1>8. table[Root] = Node
  BY <1>1, <1>6, <1>7
<1>9. answer = table[Root]
  BY <1>1, TreeFacts DEF IInv, Consumed
<1>10. live = {}
  BY <1>1, <1>4, <1>5 DEF IInv, HandledData
<1>11. alphas = {}
  BY <1>10 DEF IInv, AlphasLive
<1>12. QED
  BY <1>8, <1>9, <1>10, <1>11

(***************************************************************************)
(* For every tree, when solve() returns the solution accounts for all of   *)
(* the nodes and every table and assignment has been freed.                *)
(***************************************************************************)
THEOREM SeqSolvedCompletely == Spec => []SolvedCompletely
BY InvSolved, InitIInv, IInvInductive, PTL DEF Spec

-----------------------------------------------------------------------------
(* The refinement                                                          *)
LEMMA PhaseCases ==
  ASSUME NEW v \in Node
  PROVE  /\ v \notin live => PhaseOf(v) = "gone"
         /\ v \in live /\ table[v] # {} => PhaseOf(v) = "ready"
         /\ v \in live /\ table[v] = {} /\ v \in cur => PhaseOf(v) = "busy"
         /\ v \in live /\ table[v] = {} /\ v \notin cur => PhaseOf(v) = "todo"
BY DEF PhaseOf

(* A node that is not handled has not been given up.                       *)
LEMMA UnhandledLive ==
  ASSUME IInv, NEW v \in Node, ~Handled(v)
  PROVE  v \in live
<1>1. ASSUME v \notin live, v = Root, stack = <<>>, cur = {} PROVE FALSE
  BY <1>1 DEF IInv, RootKnown, InStack
<1>2. ASSUME NEW p \in Node, v \in KidSet(kids, p), Handled(p) PROVE FALSE
  BY <1>2 DEF IInv, HandledData
<1>3. QED
  BY <1>1, <1>2 DEF IInv, Consumed

(* The walk starts where the schedule starts.                              *)
LEMMA ScheduleInit == Init => Schedule!Init
<1> SUFFICES ASSUME Init PROVE Schedule!Init
  OBVIOUS
<1>1. \A v \in Node : PhaseOf(v) = "todo"
  BY PhaseCases DEF Init
<1>2. QED
  BY <1>1 DEF Init, Schedule!Init

(* Each step of the walk is a step of the schedule or none.                *)
LEMMA ScheduleStep == IInv /\ [Next]_vars => [Schedule!Next]_(Schedule!vars)
<1> DEFINE ph == [v \in Node |-> PhaseOf(v)]
<1> SUFFICES ASSUME IInv, [Next]_vars PROVE [Schedule!Next]_(Schedule!vars)
  OBVIOUS
<1>1. ASSUME UNCHANGED <<kids, cur, live, table, answer>> PROVE UNCHANGED Schedule!vars
  <2>1. ph' = ph
    BY <1>1 DEF PhaseOf
  <2>2. QED
    BY <1>1, <2>1 DEF Schedule!vars
<1>2. CASE Expand \/ UNCHANGED vars \/ Terminated
  BY <1>1, <1>2 DEF Expand, vars, Terminated
<1>3. CASE Pop
  <2>1. PICK v \in Node : v = Head(stack) /\ v \in visited
    BY <1>3 DEF Pop, Top, IInv, TypeOK
  <2>2. /\ cur = {} /\ cur' = {v} /\ stack \in Seq(Node) /\ stack # <<>>
        /\ kids' = kids /\ live' = live /\ table' = table /\ answer' = answer
    BY <1>3, <2>1 DEF Pop, Top, IInv, TypeOK
  <2>3. 1 \in 1 .. Len(stack) /\ stack[1] = v /\ ~Handled(v)
    BY <2>1, <2>2 DEF Handled, InStack
  <2>4. v \in live /\ table[v] = {}
    BY <2>3, UnhandledLive DEF IInv, Unfilled
  <2>5. PhaseOf(v) = "todo" /\ PhaseOf(v)' = "busy"
    BY <2>2, <2>4 DEF PhaseOf
  <2>6. \A w \in Node : w # v => PhaseOf(w)' = PhaseOf(w)
    BY <2>2 DEF PhaseOf
  <2>7. ph' = [ph EXCEPT ![v] = "busy"]
    BY <2>5, <2>6
  <2>8. \A c \in KidSet(kids, v) : c \in Node /\ ph[c] = "ready"
    <3>1. ASSUME NEW c \in KidSet(kids, v) PROVE Handled(c)
      <4>1. Handled(c) \/ c \in cur \/ \E i \in 1 .. 1 - 1 : stack[i] = c
        BY <2>1, <2>3 DEF IInv, KidsAbove
      <4>2. QED
        BY <4>1, <2>2
    <3>2. ASSUME NEW c \in KidSet(kids, v) PROVE c \in live /\ table[c] # {} /\ c \in Node
      BY <3>1, <2>3, WaitingKid
    <3>3. QED
      BY <3>2, PhaseCases
  <2>9. Schedule!Start(v)
    BY <2>2, <2>5, <2>7, <2>8 DEF Schedule!Start, Schedule!KidSet, KidSet
  <2>10. QED
    BY <2>9 DEF Schedule!Next
<1>4. CASE WorkOn
  <2> DEFINE K(v) == KidSet(kids, v)
  <2>1. PICK v \in Node :
         /\ cur = {v} /\ cur' = {}
         /\ kids' = kids /\ answer' = answer
         /\ live' = live \ K(v)
         /\ table' = [table EXCEPT ![v] = {v} \cup UNION {table[c] : c \in K(v)}]
    BY <1>4, WorkOnEffect
  <2>2. table \in [Node -> SUBSET Node] /\ ~Handled(v)
    BY <2>1 DEF IInv, TypeOK, Handled
  <2>3. v \in live /\ table[v] = {} /\ v \notin K(v)
    BY <2>1, <2>2, UnhandledLive DEF IInv, Unfilled, CurReady
  <2>4. PhaseOf(v) = "busy" /\ PhaseOf(v)' = "ready"
    BY <2>1, <2>2, <2>3 DEF PhaseOf
  <2>5. \A w \in K(v) : PhaseOf(w)' = "gone"
    BY <2>1 DEF PhaseOf
  <2>6. \A w \in Node : w # v /\ w \notin K(v) => PhaseOf(w)' = PhaseOf(w)
    BY <2>1, <2>2 DEF PhaseOf
  <2>7. ph' = [w \in Node |-> CASE w = v -> "ready"
                                [] w # v /\ w \in K(v) -> "gone"
                                [] OTHER -> ph[w]]
    BY <2>3, <2>4, <2>5, <2>6
  <2>8. Schedule!Finish(v)
    BY <2>1, <2>4, <2>7 DEF Schedule!Finish, Schedule!KidSet, KidSet
  <2>9. QED
    BY <2>8 DEF Schedule!Next
<1>5. CASE DoRoot
  <2>1. /\ stack = <<>> /\ cur = {} /\ Root \in Node /\ Root \in live
        /\ kids' = kids /\ cur' = cur /\ table' = table /\ answer' = table[Root]
        /\ live' = live \ {Root}
    BY <1>5, TreeAssumption DEF DoRoot
  <2>2. Root \in table[Root]
    BY <2>1 DEF IInv, RootKnown, InStack, HandledData
  <2>3. PhaseOf(Root) = "ready" /\ PhaseOf(Root)' = "gone"
    BY <2>1, <2>2 DEF PhaseOf
  <2>4. \A w \in Node : w # Root => PhaseOf(w)' = PhaseOf(w)
    BY <2>1 DEF PhaseOf
  <2>5. ph' = [ph EXCEPT ![Root] = "gone"] /\ ph[Root] = "ready"
    BY <2>1, <2>3, <2>4
  <2>6. Schedule!Answer
    BY <2>1, <2>5 DEF Schedule!Answer
  <2>7. QED
    BY <2>6 DEF Schedule!Next
<1>6. QED
  BY <1>2, <1>3, <1>4, <1>5 DEF Next

(***************************************************************************)
(* For every tree, each step of the walk is a step of the abstract         *)
(* schedule or leaves it unchanged: nodes are worked on once, bottom-up.   *)
(***************************************************************************)
THEOREM SeqImplementsSchedule == Spec => ImplementsSchedule
BY ScheduleInit, ScheduleStep, InitIInv, IInvInductive, PTL
   DEF Spec, ImplementsSchedule, Schedule!Spec

-----------------------------------------------------------------------------
(* Without TBB a step of solve() is a step of the walk.                    *)
LEMMA SolverStep ==
  ASSUME ~tbb, [SolverNext]_solverVars
  PROVE  ~tbb' /\ [Next]_vars
<1>1. CASE WalkStep
  BY <1>1 DEF WalkStep, Next
<1>2. CASE UNCHANGED solverVars
  BY <1>2 DEF solverVars, walkVars, vars
<1>3. QED
  BY <1>1, <1>2 DEF SolverNext, TaskStep, TaskRoot

(* What the mapping of the two builds comes to without TBB ...             *)
LEMMA WalkMapping ==
  ASSUME IInv, ~tbb
  PROVE  Phase = [v \in Node |-> PhaseOf(v)] /\ Cover = table
<1>1. table = [v \in Node |-> table[v]]
  BY DEF IInv, TypeOK
<1>2. QED
  BY <1>1 DEF Phase, Cover

(* ... also in the next state.                                             *)
LEMMA WalkMappingPrimed ==
  ASSUME IInv', ~tbb'
  PROVE  Phase' = [v \in Node |-> PhaseOf(v)]' /\ Cover' = table'
<1>1. table' = [v \in Node |-> table'[v]]
  BY DEF IInv, TypeOK
<1>2. QED
  BY <1>1 DEF Phase, Cover

(* The states solve() starts in are those of the schedule, without TBB.    *)
LEMMA WalkInitMaps == SolverInit /\ ~tbb => SolverSchedule!Init
<1> SUFFICES ASSUME SolverInit, ~tbb PROVE SolverSchedule!Init
  OBVIOUS
<1>1. Schedule!Init /\ IInv
  BY ScheduleInit, InitIInv DEF SolverInit
<1>2. Phase = [v \in Node |-> PhaseOf(v)] /\ Cover = table
  BY <1>1, WalkMapping
<1>3. QED
  BY <1>1, <1>2 DEF Schedule!Init, SolverSchedule!Init

(* Without TBB every step of solve() is a step of the schedule or none.    *)
LEMMA WalkStepMaps ==
  ASSUME IInv, ~tbb, [SolverNext]_solverVars
  PROVE  [SolverSchedule!Next]_(SolverSchedule!vars)
<1>1. [Schedule!Next]_(Schedule!vars) /\ IInv' /\ ~tbb'
  BY SolverStep, IInvInductive, ScheduleStep
<1>2. Phase = [v \in Node |-> PhaseOf(v)] /\ Cover = table
  BY WalkMapping
<1>3. Phase' = [v \in Node |-> PhaseOf(v)]' /\ Cover' = table'
  BY <1>1, WalkMappingPrimed
<1>4. ASSUME UNCHANGED Schedule!vars PROVE UNCHANGED SolverSchedule!vars
  BY <1>2, <1>3, <1>4 DEF Schedule!vars, SolverSchedule!vars
<1>5. ASSUME NEW v \in Node, Schedule!Start(v) PROVE SolverSchedule!Start(v)
  BY <1>2, <1>3, <1>5 DEF Schedule!Start, SolverSchedule!Start, Schedule!KidSet, SolverSchedule!KidSet
<1>6. ASSUME NEW v \in Node, Schedule!Finish(v) PROVE SolverSchedule!Finish(v)
  BY <1>2, <1>3, <1>6 DEF Schedule!Finish, SolverSchedule!Finish, Schedule!KidSet, SolverSchedule!KidSet
<1>7. ASSUME Schedule!Answer PROVE SolverSchedule!Answer
  BY <1>2, <1>3, <1>7 DEF Schedule!Answer, SolverSchedule!Answer
<1>8. ASSUME Schedule!Done PROVE UNCHANGED SolverSchedule!vars
  BY <1>4, <1>8 DEF Schedule!Done
<1>9. QED
  BY <1>1, <1>4, <1>5, <1>6, <1>7, <1>8 DEF Schedule!Next, SolverSchedule!Next

-----------------------------------------------------------------------------
(***************************************************************************)
(* The build with TBB.  Its inductive invariant gives every vertex a stage *)
(* and ties to it the task, the continuation, the count, the table and the *)
(* assignment of the vertex, and the stages of its children.               *)
(***************************************************************************)
(* What has become of a vertex: nobody knows of its task, its task has     *)
(* been spawned, a worker is at it (at one of WorkLabels), it waits for    *)
(* its children, or it is done.                                            *)
WorkLabels == {"sched", "spawn", "setref", "init", "apply", "cleanup", "complete"}
Stages == WorkLabels \cup {"todo", "spawned", "waiting", "done"}
Untouched == {"todo", "spawned", "sched", "spawn"}
Stepping == {"init", "apply", "cleanup", "complete", "done"}
Filled == {"cleanup", "complete", "done"}

TaskTypes(st) ==
  /\ kids \in Shapes /\ st \in [Node -> Stages]
  /\ pc \in [Worker -> Tasks!Labels] /\ at \in [Worker -> Node]
  /\ spawned \subseteq Node /\ cont \in [Node -> {"none", "waiting", "freed"}]
  /\ ref \in [Node -> Int] /\ table \in [Node -> SUBSET Node]
  /\ live \subseteq Node /\ alphas \subseteq Node /\ answer \subseteq Node
  /\ returned \in BOOLEAN

(* Each vertex that is being worked on has one worker.                     *)
OneWorker(st) ==
  /\ \A t \in Worker : pc[t] # "idle" => st[at[t]] = pc[t]
  /\ \A t, u \in Worker : pc[t] # "idle" /\ pc[u] # "idle" /\ at[t] = at[u] => t = u
  /\ \A v \in Node : st[v] \in WorkLabels => \E t \in Worker : at[t] = v /\ pc[t] = st[v]

ContOf(st, v) ==
  IF kids[v] = <<>> \/ st[v] \in {"todo", "spawned", "sched"} THEN "none"
  ELSE IF st[v] = "done" THEN "freed" ELSE "waiting"

(* The tasks there are.                                                    *)
TasksThere(st) ==
  /\ spawned = {v \in Node : st[v] = "spawned"}
  /\ \A v \in Node : cont[v] = ContOf(st, v)
  /\ returned <=> st[Root] = "done"
  /\ st[Root] # "todo"
  /\ ~crashed

(* How far the children of a vertex may be while it is at its own stage.   *)
RefOf(st, v) ==
  IF \E c, d \in KidSet(kids, v) : c # d /\ st[c] # "done" /\ st[d] # "done" THEN 2 ELSE 1

KidsFit(st, v) ==
  /\ st[v] \in Untouched => \A c \in KidSet(kids, v) : st[c] = "todo"
  /\ st[v] = "spawn" => Len(kids[v]) = 2
  /\ st[v] = "setref" =>
       /\ kids[v] # <<>> /\ st[kids[v][1]] = "todo"
       /\ \A c \in KidSet(kids, v) \ {kids[v][1]} : st[c] \notin {"todo", "done"}
  /\ st[v] = "waiting" =>
       /\ \A c \in KidSet(kids, v) : st[c] # "todo"
       /\ \E c \in KidSet(kids, v) : st[c] # "done"
       /\ ref[v] = RefOf(st, v)
  /\ st[v] \in Stepping => \A c \in KidSet(kids, v) : st[c] = "done"

(* What the tables hold.                                                   *)
TablesFit(st) ==
  /\ \A v \in Node : st[v] \in Filled =>
       table[v] = {v} \cup UNION {table[c] : c \in KidSet(kids, v)}
  /\ \A v \in Node : st[v] \notin Filled => table[v] = {}
  /\ \A p \in Node : \A c \in KidSet(kids, p) : c \in live <=> st[p] \notin {"complete", "done"}
  /\ Root \notin live => st[Root] = "done" /\ answer = table[Root]
  /\ \A v \in Node : v \in alphas <=> v \in live /\ st[v] \in {"apply"} \cup Filled

TaskInv(st) ==
  /\ TaskTypes(st) /\ OneWorker(st) /\ TasksThere(st)
  /\ \A v \in Node : KidsFit(st, v)
  /\ TablesFit(st)

-----------------------------------------------------------------------------
(* What a step is for the abstract schedule: nothing, the start or the end *)
(* of the work on v.                                                       *)
Kind(stage) ==
  IF stage \in {"init", "apply", "cleanup"} THEN "busy"
  ELSE IF stage \in {"complete", "done"} THEN "ready" ELSE "todo"

Stutters(st, nst) ==
  /\ UNCHANGED <<kids, live, answer>>
  /\ \A w \in Node : /\ Kind(nst[w]) = Kind(st[w])
                     /\ Kind(st[w]) # "busy" => table'[w] = table[w]

Starts(st, nst, v) ==
  /\ UNCHANGED <<kids, live, answer, table>>
  /\ Kind(st[v]) = "todo" /\ Kind(nst[v]) = "busy"
  /\ \A w \in Node : w # v => Kind(nst[w]) = Kind(st[w])
  /\ \A c \in KidSet(kids, v) : Kind(st[c]) = "ready"

Finishes(st, nst, v) ==
  /\ UNCHANGED <<kids, answer, table>> /\ live' = live \ KidSet(kids, v)
  /\ st[v] = "cleanup" /\ nst[v] = "complete"
  /\ \A w \in Node : w # v => nst[w] = st[w]

-----------------------------------------------------------------------------
(* No vertex is below itself.                                              *)
LEMMA NotOwnKid ==
  ASSUME NEW ks \in Shapes, NEW v \in Node
  PROVE  v \notin KidSet(ks, v)
<1> SUFFICES ASSUME v \in KidSet(ks, v) PROVE FALSE
  OBVIOUS
<1> DEFINE S == Node \ {v}
<1>1. S \in SUBSET Node /\ Root \in S /\ v # Root
  BY TreeFacts
<1>2. \A w \in S : KidSet(ks, w) \subseteq S
  BY TreeFacts
<1>3. S = Node
  BY <1>1, <1>2, TreeFacts DEF Reaches
<1>4. QED
  BY <1>3

(* Every vertex but the root is the child of some vertex.                  *)
LEMMA HasParent ==
  ASSUME NEW ks \in Shapes, NEW v \in Node, v # Root
  PROVE  \E p \in Node : v \in KidSet(ks, p)
<1> DEFINE S == {w \in Node : w = Root \/ \E p \in Node : w \in KidSet(ks, p)}
<1>1. S \in SUBSET Node /\ Root \in S
  BY TreeFacts
<1>2. \A w \in S : KidSet(ks, w) \subseteq S
  BY TreeFacts
<1>3. S = Node
  BY <1>1, <1>2, TreeFacts DEF Reaches
<1>4. QED
  BY <1>3

(* Both builds speak of the same children.                                 *)
LEMMA TaskKidSet == \A ks, v : Tasks!KidSet(ks, v) = KidSet(ks, v)
BY DEF Tasks!KidSet, KidSet

(* A child of p has p for its parent: no other vertex lists it.            *)
LEMMA ParentOfKid ==
  ASSUME kids \in Shapes, NEW p \in Node, NEW c \in KidSet(kids, p)
  PROVE  Tasks!Parent(c) = p
<1>1. \A q \in Node : c \in KidSet(kids, q) => q = p
  BY TreeFacts
<1>2. QED
  BY <1>1, TaskKidSet DEF Tasks!Parent

-----------------------------------------------------------------------------
(* At first the task of the root has been spawned, and nobody knows of the *)
(* others.                                                                 *)
LEMMA TaskInitInv == Tasks!Init => TaskInv([v \in Node |-> IF v = Root THEN "spawned" ELSE "todo"])
<1> SUFFICES ASSUME Tasks!Init
             PROVE  TaskInv([v \in Node |-> IF v = Root THEN "spawned" ELSE "todo"])
  OBVIOUS
<1> DEFINE s == [v \in Node |-> IF v = Root THEN "spawned" ELSE "todo"]
<1>1. /\ kids \in Shapes /\ Root \in Node
      /\ \A v \in Node : Root \notin KidSet(kids, v)
      /\ \A v \in Node : KidSet(kids, v) \subseteq Node
  BY TreeFacts, TreeAssumption DEF Tasks!Init
<1>2. TaskTypes(s)
  <2>1. s \in [Node -> Stages]
    BY DEF Stages
  <2>2. 0 \in Int
    OBVIOUS
  <2>3. QED
    BY <1>1, <2>1, <2>2 DEF Tasks!Init, TaskTypes, Tasks!Labels
<1>3. OneWorker(s)
  BY DEF Tasks!Init, OneWorker, WorkLabels
<1>4. TasksThere(s)
  BY <1>1 DEF Tasks!Init, TasksThere, ContOf
<1>5. \A v \in Node : KidsFit(s, v)
  BY <1>1 DEF KidsFit, Stepping
<1>6. TablesFit(s)
  BY <1>1 DEF Tasks!Init, TablesFit, Filled
<1>7. QED
  BY <1>2, <1>3, <1>4, <1>5, <1>6 DEF TaskInv

-----------------------------------------------------------------------------
(* A vertex still fits its children while each of them stays where it is   *)
(* or is between being known and being done.                               *)
LEMMA KidsFitFrame ==
  ASSUME NEW st, NEW nst, NEW v \in Node, KidsFit(st, v),
         kids' = kids, ref'[v] = ref[v], nst[v] = st[v], kids \in Shapes,
         \A c \in KidSet(kids, v) :
            nst[c] = st[c] \/ {nst[c], st[c]} \cap {"todo", "done"} = {}
  PROVE  KidsFit(nst, v)'
<1>1. kids[v] # <<>> => kids[v][1] \in KidSet(kids, v)
  <2>1. kids[v] # <<>> => 1 \in 1 .. Len(kids[v])
    BY TreeFacts
  <2>2. QED
    BY <2>1 DEF KidSet
<1>2. \A c \in KidSet(kids, v) : (nst[c] = "done" <=> st[c] = "done") /\ (nst[c] = "todo" <=> st[c] = "todo")
  OBVIOUS
<1>3. RefOf(nst, v)' = RefOf(st, v)
  BY <1>2 DEF RefOf
<1>4. QED
  BY <1>1, <1>2, <1>3 DEF KidsFit

(* What a worker t does that goes on with its vertex v to b.               *)
GoesOn(st, nst, t, v, b) ==
  /\ v \in Node /\ st[v] = pc[t] /\ kids \in Shapes
  /\ nst \in [Node -> Stages] /\ pc' \in [Worker -> Tasks!Labels]
  /\ OneWorker(nst)'
  /\ nst[v] = b /\ \A w \in Node : w # v => nst[w] = st[w]

(* A worker that goes on with its vertex: one worker is at it, and nothing *)
(* changes for the other vertices.                                         *)
LEMMA GoOn ==
  ASSUME NEW st, TaskInv(st), NEW t \in Worker, NEW v, v = at[t], pc[t] # "idle",
         NEW b \in WorkLabels, Tasks!Goto(t, b), at' = at, kids' = kids, ref' = ref,
         NEW nst, nst = [st EXCEPT ![v] = b]
  PROVE  GoesOn(st, nst, t, v, b)
<1>1. /\ pc \in [Worker -> Tasks!Labels] /\ at \in [Worker -> Node] /\ st \in [Node -> Stages]
      /\ OneWorker(st) /\ kids \in Shapes
  BY DEF TaskInv, TaskTypes
<1>2. v \in Node /\ st[v] = pc[t] /\ st[v] \in WorkLabels
  BY <1>1 DEF OneWorker, Tasks!Labels, WorkLabels
<1>3. pc' = [pc EXCEPT ![t] = b] /\ b # "idle"
  BY DEF Tasks!Goto, WorkLabels
<1>4. nst \in [Node -> Stages] /\ pc' \in [Worker -> Tasks!Labels]
  BY <1>1, <1>2, <1>3 DEF Stages, WorkLabels, Tasks!Labels
<1>5. OneWorker(nst)'
  BY <1>1, <1>2, <1>3 DEF OneWorker
<1>6. nst[v] = b /\ \A w \in Node : w # v => nst[w] = st[w]
  BY <1>1, <1>2
<1>7. QED
  BY <1>1, <1>2, <1>4, <1>5, <1>6 DEF GoesOn

(* The others of a vertex at which a worker goes on.                       *)
LEMMA OthersFit ==
  ASSUME NEW st, TaskInv(st), NEW nst, NEW v \in Node, NEW w \in Node, w # v,
         kids' = kids, ref'[w] = ref[w],
         \A u \in Node : u # v => nst[u] = st[u],
         {nst[v], st[v]} \cap {"todo", "done"} = {}
  PROVE  KidsFit(nst, w)'
<1>1. \A c \in KidSet(kids, w) : nst[c] = st[c] \/ {nst[c], st[c]} \cap {"todo", "done"} = {}
  BY TreeFacts DEF TaskInv, TaskTypes
<1>2. KidsFit(st, w) /\ nst[w] = st[w] /\ kids \in Shapes
  BY DEF TaskInv, TaskTypes
<1>3. QED
  BY <1>1, <1>2, KidsFitFrame

(* The tasks and their counts, when one vertex changes its stage.          *)
LEMMA OneVertexTasks ==
  ASSUME NEW st, TaskInv(st), NEW v \in Node, NEW nst, nst \in [Node -> Stages],
         \A w \in Node : w # v => nst[w] = st[w],
         kids' = kids, spawned' = spawned, returned' = returned, crashed' = crashed,
         {st[v], nst[v]} \cap {"spawned", "todo", "done"} = {},
         cont' = [cont EXCEPT ![v] = ContOf(nst, v)]
  PROVE  TasksThere(nst)'
<1>1. \A w \in Node : cont'[w] = ContOf(nst, w)'
  BY DEF TaskInv, TaskTypes, TasksThere, ContOf
<1>2. spawned' = {w \in Node : nst[w] = "spawned"}
  BY DEF TaskInv, TasksThere
<1>3. QED
  BY <1>1, <1>2, TreeAssumption DEF TaskInv, TasksThere

(* A worker takes a task that was spawned.                                 *)
LEMMA TakeInv ==
  ASSUME NEW st, TaskInv(st), NEW t \in Worker, Tasks!Take(t)
  PROVE  \E nst : TaskInv(nst)' /\ Stutters(st, nst)
<1>1. PICK v \in spawned : /\ pc' = [pc EXCEPT ![t] = "sched"] /\ at' = [at EXCEPT ![t] = v]
                           /\ spawned' = spawned \ {v} /\ pc[t] = "idle"
  BY DEF Tasks!Take, Tasks!Move, Tasks!Goto
<1>2. /\ kids' = kids /\ answer' = answer /\ live' = live /\ table' = table /\ alphas' = alphas
      /\ cont' = cont /\ ref' = ref /\ returned' = returned /\ crashed' = crashed
  BY DEF Tasks!Take, Tasks!main, Tasks!data
<1>3. v \in Node /\ st[v] = "spawned" /\ st \in [Node -> Stages] /\ kids \in Shapes
  BY <1>1 DEF TaskInv, TasksThere, TaskTypes
<1>4. PICK nst : nst = [st EXCEPT ![v] = "sched"]
  OBVIOUS
<1>5. nst[v] = "sched" /\ \A w \in Node : w # v => nst[w] = st[w]
  BY <1>3, <1>4
<1>6. TaskTypes(nst)'
  <2>1. nst \in [Node -> Stages]
    BY <1>3, <1>4 DEF Stages, WorkLabels
  <2>2. pc' \in [Worker -> Tasks!Labels] /\ at' \in [Worker -> Node]
    BY <1>1, <1>3 DEF TaskInv, TaskTypes, Tasks!Labels
  <2>3. QED
    BY <2>1, <2>2, <1>1, <1>2 DEF TaskInv, TaskTypes
<1>7. OneWorker(nst)'
  <2>1. /\ pc' = [pc EXCEPT ![t] = "sched"] /\ at' = [at EXCEPT ![t] = v] /\ pc[t] = "idle"
        /\ pc \in [Worker -> Tasks!Labels] /\ at \in [Worker -> Node]
    BY <1>1 DEF TaskInv, TaskTypes
  <2>2. \A u \in Worker : pc[u] # "idle" => st[at[u]] = pc[u] /\ at[u] # v
    BY <1>3 DEF TaskInv, OneWorker, TaskTypes, Tasks!Labels
  <2>3. \A u \in Worker : pc'[u] # "idle" => nst[at'[u]] = pc'[u]
    BY <2>1, <2>2, <1>5
  <2>4. \A u, x \in Worker : pc'[u] # "idle" /\ pc'[x] # "idle" /\ at'[u] = at'[x] => u = x
    BY <2>1, <2>2 DEF TaskInv, OneWorker
  <2>5. \A w \in Node : nst[w] \in WorkLabels => \E u \in Worker : at'[u] = w /\ pc'[u] = nst[w]
    BY <2>1, <1>5 DEF TaskInv, OneWorker, WorkLabels
  <2>6. QED
    BY <2>3, <2>4, <2>5 DEF OneWorker
<1>8. TasksThere(nst)'
  <2>1. \A w \in Node : ContOf(nst, w)' = ContOf(st, w)
    BY <1>2, <1>3, <1>5 DEF ContOf
  <2>2. spawned' = {w \in Node : nst[w] = "spawned"}
    BY <1>1, <1>3, <1>5 DEF TaskInv, TasksThere
  <2>3. QED
    BY <2>1, <2>2, <1>2, <1>3, <1>5, TreeAssumption DEF TaskInv, TasksThere
<1>9. ASSUME NEW w \in Node PROVE KidsFit(nst, w)'
  <2>1. CASE w = v
    BY <2>1, <1>2, <1>3, <1>5, NotOwnKid, TreeFacts DEF TaskInv, KidsFit, Untouched, Stepping
  <2>2. CASE w # v
    <3>1. \A c \in KidSet(kids, w) : nst[c] = st[c] \/ {nst[c], st[c]} \cap {"todo", "done"} = {}
      BY <1>3, <1>5, TreeFacts
    <3>2. QED
      BY <2>2, <3>1, <1>2, <1>3, <1>5, KidsFitFrame DEF TaskInv
  <2>3. QED
    BY <2>1, <2>2
<1>10. TablesFit(nst)'
  BY <1>2, <1>3, <1>5, TreeAssumption DEF TaskInv, TablesFit, Filled
<1>11. Stutters(st, nst)
  BY <1>2, <1>3, <1>5 DEF Stutters, Kind
<1>12. QED
  BY <1>6, <1>7, <1>8, <1>9, <1>10, <1>11 DEF TaskInv

(* A leaf has no children to wait for.                                     *)
LEMMA SchedLeafInv ==
  ASSUME NEW st, TaskInv(st), NEW t \in Worker, Tasks!SchedLeaf(t)
  PROVE  \E nst : \E v \in Node : TaskInv(nst)' /\ Starts(st, nst, v)
<1>1. PICK v, nst : v = at[t] /\ nst = [st EXCEPT ![v] = "init"]
  OBVIOUS
<1>2. /\ pc[t] = "sched" /\ kids[v] = <<>> /\ Tasks!Goto(t, "init") /\ at' = at /\ spawned' = spawned
      /\ kids' = kids /\ answer' = answer /\ live' = live /\ table' = table /\ alphas' = alphas
      /\ cont' = cont /\ ref' = ref /\ returned' = returned /\ crashed' = crashed
  BY <1>1 DEF Tasks!SchedLeaf, Tasks!main, Tasks!data
<1>3. /\ v \in Node /\ st[v] = "sched" /\ kids \in Shapes
      /\ nst \in [Node -> Stages] /\ pc' \in [Worker -> Tasks!Labels] /\ OneWorker(nst)'
      /\ nst[v] = "init" /\ \A w \in Node : w # v => nst[w] = st[w]
  <2>1. pc[t] # "idle" /\ pc[t] = "sched" /\ "init" \in WorkLabels
    BY <1>2 DEF WorkLabels
  <2>2. GoesOn(st, nst, t, v, "init")
    BY <2>1, <1>1, <1>2, GoOn
  <2>3. QED
    BY <2>1, <2>2 DEF GoesOn
<1>4. TaskTypes(nst)'
  BY <1>2, <1>3 DEF TaskInv, TaskTypes
<1>5. TasksThere(nst)'
  <2>1. cont' = [cont EXCEPT ![v] = ContOf(nst, v)]
    BY <1>2, <1>3 DEF TaskInv, TaskTypes, TasksThere, ContOf
  <2>2. QED
    BY <2>1, <1>2, <1>3, OneVertexTasks
<1>6. ASSUME NEW w \in Node PROVE KidsFit(nst, w)'
  <2>1. CASE w = v
    BY <2>1, <1>2, <1>3, KidSetCases DEF KidsFit, Untouched
  <2>2. CASE w # v
    BY <2>2, <1>2, <1>3, OthersFit
  <2>3. QED
    BY <2>1, <2>2
<1>7. TablesFit(nst)'
  BY <1>2, <1>3, TreeAssumption DEF TaskInv, TablesFit, Filled
<1>8. Starts(st, nst, v)
  <2>1. KidSet(kids, v) = {}
    BY <1>2, <1>3, KidSetCases
  <2>2. QED
    BY <2>1, <1>2, <1>3 DEF Starts, Kind
<1>9. QED
  BY <1>3, <1>4, <1>5, <1>6, <1>7, <1>8 DEF TaskInv

(* The continuation is allocated before the children are known to anybody. *)
LEMMA AllocateInv ==
  ASSUME NEW st, TaskInv(st), NEW t \in Worker, Tasks!AllocateContinuation(t)
  PROVE  \E nst : TaskInv(nst)' /\ Stutters(st, nst)
<1>1. PICK v, b, nst : /\ v = at[t] /\ b = IF Len(kids[v]) = 2 THEN "spawn" ELSE "setref"
                       /\ nst = [st EXCEPT ![v] = b]
  OBVIOUS
<1>2. /\ pc[t] = "sched" /\ kids[v] # <<>> /\ Tasks!Goto(t, b) /\ at' = at /\ spawned' = spawned
      /\ kids' = kids /\ answer' = answer /\ live' = live /\ table' = table /\ alphas' = alphas
      /\ cont' = [cont EXCEPT ![v] = "waiting"] /\ ref' = ref /\ returned' = returned
      /\ crashed' = crashed
  BY <1>1 DEF Tasks!AllocateContinuation, Tasks!main, Tasks!data
<1>3. /\ v \in Node /\ st[v] = "sched" /\ kids \in Shapes
      /\ nst \in [Node -> Stages] /\ pc' \in [Worker -> Tasks!Labels] /\ OneWorker(nst)'
      /\ nst[v] = b /\ \A w \in Node : w # v => nst[w] = st[w]
  <2>1. pc[t] # "idle" /\ pc[t] = "sched" /\ b \in WorkLabels
    BY <1>1, <1>2 DEF WorkLabels
  <2>2. GoesOn(st, nst, t, v, b)
    BY <2>1, <1>1, <1>2, GoOn
  <2>3. QED
    BY <2>1, <2>2 DEF GoesOn
<1>4. TaskTypes(nst)'
  BY <1>2, <1>3 DEF TaskInv, TaskTypes
<1>5. TasksThere(nst)'
  <2>1. cont' = [cont EXCEPT ![v] = ContOf(nst, v)]
    BY <1>1, <1>2, <1>3 DEF ContOf
  <2>2. {st[v], nst[v]} \cap {"spawned", "todo", "done"} = {}
    BY <1>1, <1>3
  <2>3. QED
    BY <2>1, <2>2, <1>2, <1>3, OneVertexTasks
<1>6. ASSUME NEW w \in Node PROVE KidsFit(nst, w)'
  <2>1. \A c \in KidSet(kids, v) : c # v /\ c \in Node /\ st[c] = "todo"
    BY <1>3, NotOwnKid, TreeFacts DEF TaskInv, KidsFit, Untouched
  <2>2. Len(kids[v]) # 2 => KidSet(kids, v) = {kids[v][1]}
    BY <1>2, <1>3, KidSetCases, TreeFacts
  <2>3. CASE w = v
    BY <2>1, <2>2, <2>3, <1>1, <1>2, <1>3 DEF KidsFit, Untouched, Stepping
  <2>4. CASE w # v
    <3>1. {nst[v], st[v]} \cap {"todo", "done"} = {}
      BY <1>1, <1>3
    <3>2. QED
      BY <2>4, <3>1, <1>2, <1>3, OthersFit
  <2>5. QED
    BY <2>3, <2>4
<1>7. TablesFit(nst)'
  BY <1>1, <1>2, <1>3, TreeAssumption DEF TaskInv, TablesFit, Filled
<1>8. Stutters(st, nst)
  BY <1>1, <1>2, <1>3 DEF Stutters, Kind
<1>9. QED
  BY <1>3, <1>4, <1>5, <1>6, <1>7, <1>8 DEF TaskInv

(* A change between stages at which nobody works on c.                     *)
LEMMA NoWorkerAt ==
  ASSUME NEW mid, OneWorker(mid)', NEW c, NEW b, b \notin WorkLabels, mid[c] \notin WorkLabels,
         mid \in [Node -> Stages], NEW nst, nst = [mid EXCEPT ![c] = b],
         pc' \in [Worker -> Tasks!Labels], at' \in [Worker -> Node]
  PROVE  OneWorker(nst)'
<1>1. \A u \in Worker : pc'[u] # "idle" => at'[u] # c
  BY DEF OneWorker, Tasks!Labels, WorkLabels
<1>2. \A w \in Node : w # c => nst[w] = mid[w]
  OBVIOUS
<1>3. nst[c] \notin WorkLabels \/ c \notin Node
  OBVIOUS
<1>4. QED
  BY <1>1, <1>2, <1>3 DEF OneWorker

(* The second child is known from its spawn() on.                          *)
LEMMA SpawnSecondInv ==
  ASSUME NEW st, TaskInv(st), NEW t \in Worker, Tasks!SpawnSecond(t)
  PROVE  \E nst : TaskInv(nst)' /\ Stutters(st, nst)
<1>1. PICK v, c, mid, nst : /\ v = at[t] /\ c = kids[v][2] /\ mid = [st EXCEPT ![v] = "setref"]
                            /\ nst = [mid EXCEPT ![c] = "spawned"]
  OBVIOUS
<1>2. /\ pc[t] = "spawn" /\ Tasks!Goto(t, "setref") /\ at' = at /\ spawned' = spawned \cup {c}
      /\ kids' = kids /\ answer' = answer /\ live' = live /\ table' = table /\ alphas' = alphas
      /\ cont' = cont /\ ref' = ref /\ returned' = returned /\ crashed' = crashed
  BY <1>1 DEF Tasks!SpawnSecond, Tasks!main, Tasks!data
<1>3. /\ v \in Node /\ st[v] = "spawn" /\ kids \in Shapes
      /\ mid \in [Node -> Stages] /\ pc' \in [Worker -> Tasks!Labels] /\ OneWorker(mid)'
      /\ mid[v] = "setref" /\ \A w \in Node : w # v => mid[w] = st[w]
  <2>1. pc[t] # "idle" /\ pc[t] = "spawn" /\ "setref" \in WorkLabels
    BY <1>2 DEF WorkLabels
  <2>2. GoesOn(st, mid, t, v, "setref")
    BY <2>1, <1>1, <1>2, GoOn
  <2>3. QED
    BY <2>1, <2>2 DEF GoesOn
<1>4. /\ Len(kids[v]) = 2 /\ kids[v] # <<>> /\ KidSet(kids, v) = {kids[v][1], c} /\ kids[v][1] # c
      /\ \A k \in KidSet(kids, v) : k \in Node /\ k # v /\ st[k] = "todo"
      /\ c \in Node /\ c # v /\ st[c] = "todo" /\ c # Root
  <2>1. Len(kids[v]) = 2 /\ \A k \in KidSet(kids, v) : st[k] = "todo"
    BY <1>3 DEF TaskInv, KidsFit, Untouched
  <2>2. /\ KidSet(kids, v) = {kids[v][1], c} /\ kids[v][1] # c
        /\ kids[v] # <<>> /\ v \notin KidSet(kids, v)
        /\ KidSet(kids, v) \subseteq Node /\ Root \notin KidSet(kids, v)
    BY <2>1, <1>1, <1>3, KidSetCases, NotOwnKid, TreeFacts
  <2>3. QED
    BY <2>1, <2>2
<1>5. /\ nst \in [Node -> Stages] /\ nst[v] = "setref" /\ nst[c] = "spawned"
      /\ \A w \in Node : w # v /\ w # c => nst[w] = st[w]
  BY <1>1, <1>3, <1>4 DEF Stages
<1>6. TaskTypes(nst)' /\ OneWorker(nst)'
  <2>1. OneWorker(nst)'
    <3>1. mid[c] \notin WorkLabels /\ "spawned" \notin WorkLabels
      BY <1>3, <1>4 DEF WorkLabels
    <3>2. at' \in [Worker -> Node]
      BY <1>2 DEF TaskInv, TaskTypes
    <3>3. QED
      BY <3>1, <3>2, <1>1, <1>3, NoWorkerAt
  <2>2. QED
    BY <2>1, <1>2, <1>3, <1>4, <1>5 DEF TaskInv, TaskTypes
<1>7. TasksThere(nst)'
  <2>1. \A w \in Node : cont'[w] = ContOf(nst, w)'
    BY <1>2, <1>3, <1>4, <1>5 DEF TaskInv, TasksThere, ContOf
  <2>2. spawned' = {w \in Node : nst[w] = "spawned"}
    BY <1>2, <1>3, <1>4, <1>5 DEF TaskInv, TasksThere
  <2>3. QED
    BY <2>1, <2>2, <1>2, <1>3, <1>4, <1>5, TreeAssumption DEF TaskInv, TasksThere
<1>8. ASSUME NEW w \in Node PROVE KidsFit(nst, w)'
  <2>1. CASE w = v
    BY <2>1, <1>2, <1>4, <1>5 DEF KidsFit, Untouched, Stepping
  <2>2. CASE w = c
    <3>1. \A k \in KidSet(kids, c) : k \in Node /\ k # c /\ st[k] = "todo"
      BY <1>3, <1>4, TreeFacts, NotOwnKid DEF TaskInv, KidsFit, Untouched
    <3>2. \A k \in KidSet(kids, c) : nst[k] = "todo"
      BY <3>1, <1>3, <1>5
    <3>3. QED
      BY <2>2, <3>2, <1>2, <1>5 DEF KidsFit, Stepping
  <2>3. CASE w # v /\ w # c
    <3>1. \A k \in KidSet(kids, w) : k \in Node /\ k # c
      BY <2>3, <1>3, <1>4, TreeFacts
    <3>2. \A k \in KidSet(kids, w) : nst[k] = st[k] \/ {nst[k], st[k]} \cap {"todo", "done"} = {}
      BY <3>1, <1>3, <1>5
    <3>3. KidsFit(st, w) /\ ref'[w] = ref[w] /\ nst[w] = st[w]
      BY <2>3, <1>2, <1>5 DEF TaskInv
    <3>4. QED
      BY <3>2, <3>3, <1>2, <1>3, KidsFitFrame
  <2>4. QED
    BY <2>1, <2>2, <2>3
<1>9. TablesFit(nst)'
  BY <1>2, <1>3, <1>4, <1>5, TreeAssumption DEF TaskInv, TablesFit, Filled
<1>10. Stutters(st, nst)
  BY <1>2, <1>3, <1>4, <1>5 DEF Stutters, Kind
<1>11. QED
  BY <1>6, <1>7, <1>8, <1>9, <1>10 DEF TaskInv

(* The worker goes on with the first child; the continuation waits for as  *)
(* many children as there are.                                             *)
LEMMA SetRefCountInv ==
  ASSUME NEW st, TaskInv(st), NEW t \in Worker, Tasks!SetRefCount(t)
  PROVE  \E nst : TaskInv(nst)' /\ Stutters(st, nst)
<1>1. PICK v, c, nst : /\ v = at[t] /\ c = kids[v][1]
                       /\ nst = [st EXCEPT ![v] = "waiting", ![c] = "sched"]
  OBVIOUS
<1>2. /\ pc[t] = "setref" /\ v \in Node /\ st[v] = "setref" /\ kids \in Shapes
      /\ kids[v] # <<>> /\ cont[v] = "waiting" /\ st[c] = "todo"
  <2>1. pc[t] = "setref" /\ v \in Node /\ st[v] = "setref" /\ kids \in Shapes
    BY <1>1 DEF Tasks!SetRefCount, TaskInv, TaskTypes, OneWorker
  <2>2. kids[v] # <<>> /\ st[c] = "todo"
    BY <2>1, <1>1 DEF TaskInv, KidsFit
  <2>3. QED
    BY <2>1, <2>2 DEF TaskInv, TasksThere, ContOf
<1>3. /\ pc' = [pc EXCEPT ![t] = "sched"] /\ at' = [at EXCEPT ![t] = c] /\ spawned' = spawned
      /\ kids' = kids /\ answer' = answer /\ live' = live /\ table' = table /\ alphas' = alphas
      /\ cont' = cont /\ ref' = [ref EXCEPT ![v] = Len(kids[v])]
      /\ returned' = returned /\ crashed' = crashed
  BY <1>1, <1>2 DEF Tasks!SetRefCount, Tasks!Move, Tasks!Goto, Tasks!main, Tasks!data
<1>4. /\ c \in KidSet(kids, v) /\ c \in Node /\ c # v /\ c # Root
      /\ Len(kids[v]) = 1 => KidSet(kids, v) = {c}
      /\ Len(kids[v]) = 2 => KidSet(kids, v) = {c, kids[v][2]} /\ c # kids[v][2]
      /\ Len(kids[v]) \in {1, 2} /\ v \notin KidSet(kids, v)
  <2>1. Len(kids[v]) \in {1, 2}
    BY <1>2, KidSetCases, TreeFacts
  <2>2. /\ Len(kids[v]) = 1 => KidSet(kids, v) = {c}
        /\ Len(kids[v]) = 2 => KidSet(kids, v) = {c, kids[v][2]} /\ c # kids[v][2]
    BY <1>1, <1>2, KidSetCases, TreeFacts
  <2>3. v \notin KidSet(kids, v) /\ KidSet(kids, v) \subseteq Node /\ Root \notin KidSet(kids, v)
    BY <1>2, NotOwnKid, TreeFacts
  <2>4. QED
    BY <2>1, <2>2, <2>3
<1>5. /\ nst \in [Node -> Stages] /\ nst[v] = "waiting" /\ nst[c] = "sched"
      /\ \A w \in Node : w # v /\ w # c => nst[w] = st[w]
  <2>1. "waiting" \in Stages /\ "sched" \in Stages /\ st \in [Node -> Stages]
    BY DEF TaskInv, TaskTypes, Stages, WorkLabels
  <2>2. QED
    BY <2>1, <1>1, <1>2, <1>4
<1>6. TaskTypes(nst)'
  <2>1. pc' \in [Worker -> Tasks!Labels] /\ at' \in [Worker -> Node]
    BY <1>3, <1>4 DEF TaskInv, TaskTypes, Tasks!Labels
  <2>2. ref' \in [Node -> Int]
    <3>1. Len(kids[v]) \in Int /\ ref \in [Node -> Int]
      BY <1>4 DEF TaskInv, TaskTypes
    <3>2. QED
      BY <3>1, <1>3
  <2>3. QED
    BY <2>1, <2>2, <1>3, <1>5 DEF TaskInv, TaskTypes
<1>7. OneWorker(nst)'
  <2>1. \A u \in Worker : pc[u] # "idle" => at[u] # c /\ (at[u] = v => u = t)
    <3>1. "todo" \notin Tasks!Labels /\ pc \in [Worker -> Tasks!Labels] /\ pc[t] # "idle"
      BY <1>2 DEF TaskInv, TaskTypes, Tasks!Labels
    <3>2. QED
      BY <3>1, <1>1, <1>2 DEF TaskInv, OneWorker
  <2>2. pc \in [Worker -> Tasks!Labels] /\ at \in [Worker -> Node]
    BY DEF TaskInv, TaskTypes
  <2>3. \A u \in Worker : pc'[u] # "idle" => nst[at'[u]] = pc'[u]
    BY <2>1, <2>2, <1>3, <1>5 DEF TaskInv, OneWorker
  <2>4. \A u, x \in Worker : pc'[u] # "idle" /\ pc'[x] # "idle" /\ at'[u] = at'[x] => u = x
    BY <2>1, <2>2, <1>2, <1>3 DEF TaskInv, OneWorker
  <2>5. \A w \in Node : nst[w] \in WorkLabels => \E u \in Worker : at'[u] = w /\ pc'[u] = nst[w]
    BY <2>2, <1>1, <1>3, <1>5 DEF TaskInv, OneWorker, WorkLabels
  <2>6. QED
    BY <2>3, <2>4, <2>5 DEF OneWorker
<1>8. TasksThere(nst)'
  <2>1. \A w \in Node : cont'[w] = ContOf(nst, w)'
    BY <1>2, <1>3, <1>4, <1>5 DEF TaskInv, TasksThere, ContOf
  <2>2. spawned' = {w \in Node : nst[w] = "spawned"}
    BY <1>2, <1>3, <1>4, <1>5 DEF TaskInv, TasksThere
  <2>3. QED
    BY <2>1, <2>2, <1>2, <1>3, <1>4, <1>5, TreeAssumption DEF TaskInv, TasksThere
<1>9. ASSUME NEW w \in Node PROVE KidsFit(nst, w)'
  <2>1. CASE w = v
    <3>1. \A k \in KidSet(kids, v) : k # c => nst[k] = st[k] /\ st[k] \notin {"todo", "done"}
      <4>1. \A k \in KidSet(kids, v) : k # c => st[k] \notin {"todo", "done"}
        BY <1>1, <1>2 DEF TaskInv, KidsFit
      <4>2. QED
        BY <4>1, <1>2, <1>4, <1>5, TreeFacts
    <3>2. ref'[v] = Len(kids[v])
      BY <1>2, <1>3 DEF TaskInv, TaskTypes
    <3>3. RefOf(nst, v)' = Len(kids[v])
      BY <3>1, <1>3, <1>4, <1>5 DEF RefOf
    <3>4. QED
      BY <2>1, <3>1, <3>2, <3>3, <1>3, <1>4, <1>5 DEF KidsFit, Untouched, Stepping
  <2>2. CASE w = c
    <3>1. \A k \in KidSet(kids, c) : k \in Node /\ k # c /\ st[k] = "todo"
      BY <1>2, <1>4, TreeFacts, NotOwnKid DEF TaskInv, KidsFit, Untouched
    <3>2. \A k \in KidSet(kids, c) : nst[k] = "todo"
      BY <3>1, <1>2, <1>5
    <3>3. QED
      BY <2>2, <3>2, <1>3, <1>5 DEF KidsFit, Stepping
  <2>3. CASE w # v /\ w # c
    <3>1. \A k \in KidSet(kids, w) : k \in Node /\ k # c
      BY <2>3, <1>2, <1>4, TreeFacts
    <3>2. \A k \in KidSet(kids, w) : nst[k] = st[k] \/ {nst[k], st[k]} \cap {"todo", "done"} = {}
      BY <3>1, <1>2, <1>5
    <3>3. KidsFit(st, w) /\ ref'[w] = ref[w] /\ nst[w] = st[w]
      BY <2>3, <1>3, <1>5 DEF TaskInv, TaskTypes
    <3>4. QED
      BY <3>2, <3>3, <1>2, <1>3, KidsFitFrame
  <2>4. QED
    BY <2>1, <2>2, <2>3
<1>10. TablesFit(nst)'
  BY <1>2, <1>3, <1>4, <1>5, TreeAssumption DEF TaskInv, TablesFit, Filled
<1>11. Stutters(st, nst)
  BY <1>2, <1>3, <1>5 DEF Stutters, Kind
<1>12. QED
  BY <1>6, <1>7, <1>8, <1>9, <1>10, <1>11 DEF TaskInv

-----------------------------------------------------------------------------
(* A table is there until its parent's step has consumed it.               *)
LEMMA LiveUntilDone ==
  ASSUME NEW st, TaskInv(st), NEW v \in Node, st[v] # "done"
  PROVE  v \in live
<1>1. CASE v = Root
  BY <1>1 DEF TaskInv, TablesFit
<1>2. CASE v # Root
  <2>1. PICK p \in Node : v \in KidSet(kids, p)
    BY <1>2, HasParent DEF TaskInv, TaskTypes
  <2>2. st[p] \notin {"complete", "done"}
    BY <2>1 DEF TaskInv, KidsFit, Stepping
  <2>3. QED
    BY <2>1, <2>2 DEF TaskInv, TablesFit
<1>3. QED
  BY <1>1, <1>2

(* What a step finds of the children: all of it.                           *)
LEMMA StepKids ==
  ASSUME NEW st, TaskInv(st), NEW v \in Node, st[v] \in {"init", "apply", "cleanup"},
         NEW c \in KidSet(kids, v)
  PROVE  /\ c \in Node /\ st[c] = "done" /\ c # v /\ c # Root
         /\ c \in live /\ c \in alphas /\ c \in table[c]
         /\ kids \in Shapes
<1>1. c \in Node /\ st[c] = "done" /\ c # v /\ c # Root /\ kids \in Shapes
  BY TreeFacts DEF TaskInv, TaskTypes, KidsFit, Stepping
<1>2. c \in live
  BY DEF TaskInv, TablesFit
<1>3. c \in alphas /\ c \in table[c]
  BY <1>1, <1>2 DEF TaskInv, TablesFit, Filled
<1>4. QED
  BY <1>1, <1>2, <1>3

(* alpha(v) is made from the first child's, which is there.                *)
LEMMA InitStepInv ==
  ASSUME NEW st, TaskInv(st), NEW t \in Worker, Tasks!InitStep(t)
  PROVE  \E nst : TaskInv(nst)' /\ Stutters(st, nst)
<1>1. PICK v, nst : v = at[t] /\ nst = [st EXCEPT ![v] = "apply"]
  OBVIOUS
<1>2. /\ pc[t] = "init" /\ v \in Node /\ st[v] = "init" /\ kids \in Shapes
  BY <1>1 DEF Tasks!InitStep, TaskInv, TaskTypes, OneWorker
<1>3. kids[v] # <<>> => kids[v][1] \in alphas
  <2>1. kids[v] # <<>> => kids[v][1] \in KidSet(kids, v)
    <3>1. kids[v] # <<>> => 1 \in 1 .. Len(kids[v])
      BY <1>2, TreeFacts
    <3>2. QED
      BY <3>1 DEF KidSet
  <2>2. QED
    BY <2>1, <1>2, StepKids
<1>4. /\ Tasks!Goto(t, "apply") /\ at' = at /\ spawned' = spawned
      /\ kids' = kids /\ answer' = answer /\ live' = live /\ table' = table
      /\ alphas' = alphas \cup {v}
      /\ cont' = cont /\ ref' = ref /\ returned' = returned /\ crashed' = crashed
  BY <1>1, <1>3 DEF Tasks!InitStep, Tasks!main
<1>5. /\ nst \in [Node -> Stages] /\ pc' \in [Worker -> Tasks!Labels] /\ OneWorker(nst)'
      /\ nst[v] = "apply" /\ \A w \in Node : w # v => nst[w] = st[w]
  <2>1. pc[t] # "idle" /\ "apply" \in WorkLabels
    BY <1>2 DEF WorkLabels
  <2>2. GoesOn(st, nst, t, v, "apply")
    BY <2>1, <1>1, <1>4, GoOn
  <2>3. QED
    BY <2>2 DEF GoesOn
<1>6. TaskTypes(nst)'
  BY <1>2, <1>4, <1>5 DEF TaskInv, TaskTypes
<1>7. TasksThere(nst)'
  <2>1. cont' = [cont EXCEPT ![v] = ContOf(nst, v)]
    BY <1>2, <1>4, <1>5 DEF TaskInv, TaskTypes, TasksThere, ContOf
  <2>2. QED
    BY <2>1, <1>2, <1>4, <1>5, OneVertexTasks
<1>8. ASSUME NEW w \in Node PROVE KidsFit(nst, w)'
  <2>1. CASE w = v
    <3>1. \A c \in KidSet(kids, v) : nst[c] = "done"
      BY <1>2, <1>5, StepKids
    <3>2. QED
      BY <2>1, <3>1, <1>4, <1>5 DEF KidsFit, Untouched
  <2>2. CASE w # v
    BY <2>2, <1>2, <1>4, <1>5, OthersFit
  <2>3. QED
    BY <2>1, <2>2
<1>9. TablesFit(nst)'
  <2>1. v \in live
    BY <1>2, LiveUntilDone
  <2>2. QED
    BY <2>1, <1>2, <1>4, <1>5, TreeAssumption DEF TaskInv, TablesFit, Filled
<1>10. Stutters(st, nst)
  BY <1>2, <1>4, <1>5 DEF Stutters, Kind
<1>11. QED
  BY <1>5, <1>6, <1>7, <1>8, <1>9, <1>10 DEF TaskInv

(* The entries of v are made from all of those of its children.            *)
LEMMA ApplyStepInv ==
  ASSUME NEW st, TaskInv(st), NEW t \in Worker, Tasks!ApplyStep(t)
  PROVE  \E nst : TaskInv(nst)' /\ Stutters(st, nst)
<1>1. PICK v, nst : v = at[t] /\ nst = [st EXCEPT ![v] = "cleanup"]
  OBVIOUS
<1>2. pc[t] = "apply" /\ v \in Node /\ st[v] = "apply" /\ kids \in Shapes
  BY <1>1 DEF Tasks!ApplyStep, TaskInv, TaskTypes, OneWorker
<1>3. \A c \in KidSet(kids, v) : Tasks!Entries(c) = table[c] /\ table[c] # {} /\ c # v
  BY <1>2, StepKids DEF Tasks!Entries
<1>4. /\ Tasks!Goto(t, "cleanup") /\ at' = at /\ spawned' = spawned
      /\ kids' = kids /\ answer' = answer /\ live' = live /\ alphas' = alphas
      /\ table' = [table EXCEPT ![v] = {v} \cup UNION {table[c] : c \in KidSet(kids, v)}]
      /\ cont' = cont /\ ref' = ref /\ returned' = returned /\ crashed' = crashed
  <2>1. Tasks!KidSet(kids, v) = KidSet(kids, v)
    BY TaskKidSet
  <2>2. ~\E c \in KidSet(kids, v) : Tasks!Entries(c) = {}
    BY <1>3
  <2>3. UNION {Tasks!Entries(c) : c \in KidSet(kids, v)} = UNION {table[c] : c \in KidSet(kids, v)}
    BY <1>3
  <2>4. QED
    BY <2>1, <2>2, <2>3, <1>1 DEF Tasks!ApplyStep, Tasks!main
<1>5. /\ nst \in [Node -> Stages] /\ pc' \in [Worker -> Tasks!Labels] /\ OneWorker(nst)'
      /\ nst[v] = "cleanup" /\ \A w \in Node : w # v => nst[w] = st[w]
  <2>1. pc[t] # "idle" /\ "cleanup" \in WorkLabels
    BY <1>2 DEF WorkLabels
  <2>2. GoesOn(st, nst, t, v, "cleanup")
    BY <2>1, <1>1, <1>4, GoOn
  <2>3. QED
    BY <2>2 DEF GoesOn
<1>6. /\ table' \in [Node -> SUBSET Node]
      /\ table'[v] = {v} \cup UNION {table[c] : c \in KidSet(kids, v)}
      /\ \A w \in Node : w # v => table'[w] = table[w]
  <2>1. table \in [Node -> SUBSET Node] /\ KidSet(kids, v) \subseteq Node
    BY <1>2, TreeFacts DEF TaskInv, TaskTypes
  <2>2. UNION {table[c] : c \in KidSet(kids, v)} \in SUBSET Node
    BY <2>1
  <2>3. QED
    BY <2>1, <2>2, <1>2, <1>4
<1>7. TaskTypes(nst)'
  BY <1>2, <1>4, <1>5, <1>6 DEF TaskInv, TaskTypes
<1>8. TasksThere(nst)'
  <2>1. cont' = [cont EXCEPT ![v] = ContOf(nst, v)]
    BY <1>2, <1>4, <1>5 DEF TaskInv, TaskTypes, TasksThere, ContOf
  <2>2. QED
    BY <2>1, <1>2, <1>4, <1>5, OneVertexTasks
<1>9. ASSUME NEW w \in Node PROVE KidsFit(nst, w)'
  <2>1. CASE w = v
    <3>1. \A c \in KidSet(kids, v) : nst[c] = "done"
      BY <1>2, <1>5, StepKids
    <3>2. QED
      BY <2>1, <3>1, <1>4, <1>5 DEF KidsFit, Untouched
  <2>2. CASE w # v
    BY <2>2, <1>2, <1>4, <1>5, OthersFit
  <2>3. QED
    BY <2>1, <2>2
<1>10. TablesFit(nst)'
  <2>1. \A w \in Node : nst[w] \in Filled =>
           table'[w] = {w} \cup UNION {table'[c] : c \in KidSet(kids, w)}
    <3>1. ASSUME NEW w \in Node, nst[w] \in Filled
          PROVE  \A c \in KidSet(kids, w) : c # v /\ c \in Node
      <4>1. \A c \in KidSet(kids, w) : nst[c] = "done"
        BY <3>1, <1>9, <1>4 DEF KidsFit, Stepping, Filled
      <4>2. QED
        BY <4>1, <1>2, <1>5, TreeFacts
    <3>2. ASSUME NEW w \in Node, nst[w] \in Filled
          PROVE  UNION {table'[c] : c \in KidSet(kids, w)} = UNION {table[c] : c \in KidSet(kids, w)}
      BY <3>1, <3>2, <1>6
    <3>3. \A w \in Node : w # v /\ nst[w] \in Filled =>
             table'[w] = {w} \cup UNION {table[c] : c \in KidSet(kids, w)}
      BY <1>5, <1>6 DEF TaskInv, TablesFit
    <3>4. QED
      BY <3>2, <3>3, <1>2, <1>5, <1>6
  <2>2. \A w \in Node : nst[w] \notin Filled => table'[w] = {}
    BY <1>5, <1>6 DEF TaskInv, TablesFit, Filled
  <2>3. QED
    BY <2>1, <2>2, <1>2, <1>4, <1>5, <1>6, TreeAssumption DEF TaskInv, TablesFit, Filled
<1>11. Stutters(st, nst)
  BY <1>2, <1>4, <1>5, <1>6 DEF Stutters, Kind
<1>12. QED
  BY <1>5, <1>7, <1>8, <1>9, <1>10, <1>11 DEF TaskInv

(* The tables and the assignments of the children are deleted.             *)
LEMMA CleanupStepInv ==
  ASSUME NEW st, TaskInv(st), NEW t \in Worker, Tasks!CleanupStep(t)
  PROVE  \E nst : \E v \in Node : TaskInv(nst)' /\ Finishes(st, nst, v)
<1>1. PICK v, nst : v = at[t] /\ nst = [st EXCEPT ![v] = "complete"]
  OBVIOUS
<1>2. pc[t] = "cleanup" /\ v \in Node /\ st[v] = "cleanup" /\ kids \in Shapes
  BY <1>1 DEF Tasks!CleanupStep, TaskInv, TaskTypes, OneWorker
<1>3. /\ Tasks!Goto(t, "complete") /\ at' = at /\ spawned' = spawned
      /\ kids' = kids /\ answer' = answer /\ table' = table
      /\ live' = live \ KidSet(kids, v) /\ alphas' = alphas \ KidSet(kids, v)
      /\ cont' = cont /\ ref' = ref /\ returned' = returned /\ crashed' = crashed
  <2>1. Tasks!KidSet(kids, v) = KidSet(kids, v)
    BY TaskKidSet
  <2>2. QED
    BY <2>1, <1>1 DEF Tasks!CleanupStep, Tasks!main
<1>4. /\ nst \in [Node -> Stages] /\ pc' \in [Worker -> Tasks!Labels] /\ OneWorker(nst)'
      /\ nst[v] = "complete" /\ \A w \in Node : w # v => nst[w] = st[w]
  <2>1. pc[t] # "idle" /\ "complete" \in WorkLabels
    BY <1>2 DEF WorkLabels
  <2>2. GoesOn(st, nst, t, v, "complete")
    BY <2>1, <1>1, <1>3, GoOn
  <2>3. QED
    BY <2>2 DEF GoesOn
<1>5. TaskTypes(nst)'
  BY <1>2, <1>3, <1>4 DEF TaskInv, TaskTypes
<1>6. TasksThere(nst)'
  <2>1. cont' = [cont EXCEPT ![v] = ContOf(nst, v)]
    BY <1>2, <1>3, <1>4 DEF TaskInv, TaskTypes, TasksThere, ContOf
  <2>2. QED
    BY <2>1, <1>2, <1>3, <1>4, OneVertexTasks
<1>7. ASSUME NEW w \in Node PROVE KidsFit(nst, w)'
  <2>1. CASE w = v
    <3>1. \A c \in KidSet(kids, v) : nst[c] = "done"
      BY <1>2, <1>4, StepKids
    <3>2. QED
      BY <2>1, <3>1, <1>3, <1>4 DEF KidsFit, Untouched
  <2>2. CASE w # v
    BY <2>2, <1>2, <1>3, <1>4, OthersFit
  <2>3. QED
    BY <2>1, <2>2
<1>8. TablesFit(nst)'
  <2>1. Root \notin KidSet(kids, v) /\ \A c \in KidSet(kids, v) : c \in live
    BY <1>2, StepKids, TreeFacts
  <2>2. \A p \in Node : \A c \in KidSet(kids, p) : c \in live' <=> nst[p] \notin {"complete", "done"}
    <3>1. ASSUME NEW p \in Node, p # v, NEW c \in KidSet(kids, p) PROVE c \notin KidSet(kids, v)
      BY <3>1, <1>2, TreeFacts
    <3>2. QED
      BY <3>1, <1>2, <1>3, <1>4 DEF TaskInv, TablesFit
  <2>3. \A w \in Node : w \in alphas' <=> w \in live' /\ nst[w] \in {"apply"} \cup Filled
    BY <1>2, <1>3, <1>4 DEF TaskInv, TablesFit, Filled
  <2>4. QED
    BY <2>1, <2>2, <2>3, <1>2, <1>3, <1>4, TreeAssumption DEF TaskInv, TablesFit, Filled
<1>9. Finishes(st, nst, v)
  BY <1>2, <1>3, <1>4 DEF Finishes
<1>10. QED
  BY <1>2, <1>4, <1>5, <1>6, <1>7, <1>8, <1>9 DEF TaskInv

(* The worker of a completed task is idle.                                 *)
LEMMA GoesIdle ==
  ASSUME NEW st, TaskInv(st), NEW t \in Worker, NEW v, v = at[t], pc[t] # "idle",
         Tasks!Goto(t, "idle"), at' = at,
         NEW nst, nst = [st EXCEPT ![v] = "done"]
  PROVE  OneWorker(nst)'
<1>1. /\ pc \in [Worker -> Tasks!Labels] /\ at \in [Worker -> Node] /\ st \in [Node -> Stages]
      /\ OneWorker(st) /\ v \in Node
  BY DEF TaskInv, TaskTypes
<1>2. pc' = [pc EXCEPT ![t] = "idle"] /\ "done" \notin WorkLabels
  BY DEF Tasks!Goto, WorkLabels
<1>3. \A u \in Worker : pc'[u] # "idle" => pc[u] = pc'[u] /\ at[u] # v
  BY <1>1, <1>2 DEF OneWorker
<1>4. \A w \in Node : w # v => nst[w] = st[w]
  BY <1>1
<1>5. \A w \in Node : nst[w] \in WorkLabels => \E u \in Worker : at'[u] = w /\ pc'[u] = nst[w]
  <2>1. ASSUME NEW w \in Node, nst[w] \in WorkLabels PROVE \E u \in Worker : at'[u] = w /\ pc'[u] = nst[w]
    <3>1. w # v /\ st[w] = nst[w]
      BY <2>1, <1>1, <1>2, <1>4
    <3>2. PICK u \in Worker : at[u] = w /\ pc[u] = st[w]
      BY <2>1, <3>1, <1>1 DEF OneWorker
    <3>3. u # t
      BY <3>1, <3>2
    <3>4. QED
      BY <3>1, <3>2, <3>3, <1>1, <1>2
  <2>2. QED
    BY <2>1
<1>6. QED
  BY <1>1, <1>3, <1>4, <1>5 DEF OneWorker

(* The root task is done, and spawn_root_and_wait() may return.            *)
LEMMA CompleteRootInv ==
  ASSUME NEW st, TaskInv(st), NEW t \in Worker, Tasks!CompleteRoot(t)
  PROVE  \E nst : TaskInv(nst)' /\ Stutters(st, nst)
<1>1. PICK v, nst : v = at[t] /\ nst = [st EXCEPT ![v] = "done"]
  OBVIOUS
<1>2. pc[t] = "complete" /\ v = Root /\ v \in Node /\ st[v] = "complete" /\ kids \in Shapes
  BY <1>1 DEF Tasks!CompleteRoot, TaskInv, TaskTypes, OneWorker
<1>3. /\ Tasks!Goto(t, "idle") /\ at' = at /\ spawned' = spawned
      /\ kids' = kids /\ answer' = answer /\ table' = table /\ live' = live /\ alphas' = alphas
      /\ cont' = [cont EXCEPT ![v] = IF kids[v] = <<>> THEN @ ELSE "freed"]
      /\ ref' = ref /\ returned' = TRUE /\ crashed' = crashed
  BY <1>1, <1>2 DEF Tasks!CompleteRoot, Tasks!main, Tasks!data, Tasks!FreeIfContinuation
<1>4. /\ nst \in [Node -> Stages] /\ nst[v] = "done" /\ \A w \in Node : w # v => nst[w] = st[w]
  <2>1. st \in [Node -> Stages] /\ "done" \in Stages
    BY DEF TaskInv, TaskTypes, Stages
  <2>2. QED
    BY <2>1, <1>1, <1>2
<1>5. OneWorker(nst)'
  BY <1>1, <1>2, <1>3, GoesIdle
<1>6. TaskTypes(nst)'
  <2>1. pc' \in [Worker -> Tasks!Labels]
    BY <1>3 DEF TaskInv, TaskTypes, Tasks!Goto, Tasks!Labels
  <2>2. QED
    BY <2>1, <1>2, <1>3, <1>4 DEF TaskInv, TaskTypes
<1>7. TasksThere(nst)'
  <2>1. \A w \in Node : cont'[w] = ContOf(nst, w)'
    BY <1>2, <1>3, <1>4 DEF TaskInv, TaskTypes, TasksThere, ContOf
  <2>2. spawned' = {w \in Node : nst[w] = "spawned"}
    BY <1>2, <1>3, <1>4 DEF TaskInv, TasksThere
  <2>3. QED
    BY <2>1, <2>2, <1>2, <1>3, <1>4 DEF TaskInv, TasksThere
<1>8. ASSUME NEW w \in Node PROVE KidsFit(nst, w)'
  <2>1. CASE w = v
    <3>1. \A c \in KidSet(kids, v) : st[c] = "done" /\ nst[c] = "done"
      BY <1>2, <1>4, TreeFacts DEF TaskInv, KidsFit, Stepping
    <3>2. QED
      BY <2>1, <3>1, <1>3, <1>4 DEF KidsFit, Untouched
  <2>2. CASE w # v
    <3>1. \A k \in KidSet(kids, w) : nst[k] = st[k]
      BY <1>2, <1>4, TreeFacts
    <3>2. KidsFit(st, w) /\ ref'[w] = ref[w] /\ nst[w] = st[w]
      BY <2>2, <1>3, <1>4 DEF TaskInv
    <3>3. QED
      BY <3>1, <3>2, <1>2, <1>3, KidsFitFrame
  <2>3. QED
    BY <2>1, <2>2
<1>9. TablesFit(nst)'
  BY <1>2, <1>3, <1>4 DEF TaskInv, TablesFit, Filled
<1>10. Stutters(st, nst)
  BY <1>2, <1>3, <1>4 DEF Stutters, Kind
<1>11. QED
  BY <1>5, <1>6, <1>7, <1>8, <1>9, <1>10 DEF TaskInv

(* do_root() deletes the last table.                                       *)
LEMMA TaskRootInv ==
  ASSUME NEW st, TaskInv(st), Tasks!DoRoot
  PROVE  TaskInv(st)'
<1>1. /\ returned /\ Root \in live /\ answer' = table[Root]
      /\ live' = live \ {Root} /\ alphas' = alphas \ {Root}
      /\ kids' = kids /\ spawned' = spawned /\ pc' = pc /\ at' = at /\ cont' = cont
      /\ ref' = ref /\ table' = table /\ returned' = returned /\ crashed' = crashed
  BY DEF Tasks!DoRoot
<1>2. st[Root] = "done" /\ Root \in Node /\ \A p \in Node : Root \notin KidSet(kids, p)
  BY <1>1, TreeFacts, TreeAssumption DEF TaskInv, TaskTypes, TasksThere
<1>3. TaskTypes(st)' /\ OneWorker(st)' /\ TasksThere(st)'
  BY <1>1, <1>2 DEF TaskInv, TaskTypes, OneWorker, TasksThere, ContOf
<1>4. ASSUME NEW w \in Node PROVE KidsFit(st, w)'
  <2>1. KidsFit(st, w) /\ ref'[w] = ref[w] /\ kids \in Shapes
    BY <1>1 DEF TaskInv, TaskTypes
  <2>2. QED
    BY <2>1, <1>1, KidsFitFrame
<1>5. TablesFit(st)'
  BY <1>1, <1>2 DEF TaskInv, TablesFit, Filled
<1>6. QED
  BY <1>3, <1>4, <1>5 DEF TaskInv

(* A task that no spawn() overtakes is completed while its parent waits.   *)
LEMMA ParentWaits ==
  ASSUME NEW st, TaskInv(st), NEW t \in Worker, pc[t] = "complete", at[t] # Root,
         ~Tasks!Overtakes(t)
  PROVE  \E p \in Node :
           /\ p = Tasks!Parent(at[t]) /\ at[t] \in KidSet(kids, p) /\ p # at[t]
           /\ at[t] \in Node /\ st[at[t]] = "complete" /\ st[p] = "waiting"
           /\ kids[p] # <<>> /\ cont[p] = "waiting" /\ ref[p] = RefOf(st, p)
<1>1. at[t] \in Node /\ st[at[t]] = "complete" /\ kids \in Shapes
  BY DEF TaskInv, TaskTypes, OneWorker
<1>2. PICK p \in Node : at[t] \in KidSet(kids, p)
  BY <1>1, HasParent
<1>3. p = Tasks!Parent(at[t]) /\ p # at[t]
  BY <1>1, <1>2, ParentOfKid, NotOwnKid
<1>4. st[p] # "setref"
  BY <1>3 DEF Tasks!Overtakes, TaskInv, OneWorker, WorkLabels
<1>5. st[p] \notin Untouched /\ st[p] \notin Stepping
  BY <1>1, <1>2 DEF TaskInv, KidsFit
<1>6. st[p] = "waiting"
  BY <1>4, <1>5 DEF TaskInv, TaskTypes, Stages, WorkLabels, Untouched, Stepping
<1>7. kids[p] # <<>>
  BY <1>1, <1>2, KidSetCases
<1>8. cont[p] = "waiting" /\ ref[p] = RefOf(st, p)
  BY <1>6, <1>7 DEF TaskInv, TasksThere, ContOf, KidsFit
<1>9. QED
  BY <1>1, <1>2, <1>3, <1>6, <1>7, <1>8

(* A sibling is not done: the worker leaves the parent to it.              *)
LEMMA CompleteFirstInv ==
  ASSUME NEW st, TaskInv(st), NEW t \in Worker, Tasks!Complete(t), ~Tasks!Overtakes(t),
         ref[Tasks!Parent(at[t])] > 1
  PROVE  \E nst : TaskInv(nst)' /\ Stutters(st, nst)
<1>1. PICK v, p, nst : v = at[t] /\ p = Tasks!Parent(at[t]) /\ nst = [st EXCEPT ![v] = "done"]
  OBVIOUS
<1>2. /\ pc[t] = "complete" /\ v # Root /\ v \in Node /\ st[v] = "complete" /\ kids \in Shapes
      /\ p \in Node /\ v \in KidSet(kids, p) /\ p # v /\ st[p] = "waiting" /\ kids[p] # <<>>
      /\ cont[p] = "waiting" /\ ref[p] = RefOf(st, p)
  <2>1. pc[t] = "complete" /\ v # Root
    BY <1>1 DEF Tasks!Complete
  <2>2. PICK q \in Node :
          /\ q = Tasks!Parent(at[t]) /\ at[t] \in KidSet(kids, q) /\ q # at[t]
          /\ at[t] \in Node /\ st[at[t]] = "complete" /\ st[q] = "waiting"
          /\ kids[q] # <<>> /\ cont[q] = "waiting" /\ ref[q] = RefOf(st, q)
    BY <2>1, <1>1, ParentWaits
  <2>3. q = p /\ kids \in Shapes
    BY <2>2, <1>1 DEF TaskInv, TaskTypes
  <2>4. QED
    BY <2>1, <2>2, <2>3, <1>1
<1>3. /\ Tasks!Goto(t, "idle") /\ at' = at /\ spawned' = spawned
      /\ kids' = kids /\ answer' = answer /\ table' = table /\ live' = live /\ alphas' = alphas
      /\ cont' = [cont EXCEPT ![v] = IF kids[v] = <<>> THEN @ ELSE "freed"]
      /\ ref' = [ref EXCEPT ![p] = @ - 1] /\ returned' = returned /\ crashed' = crashed
  BY <1>1, <1>2 DEF Tasks!Complete, Tasks!main, Tasks!data, Tasks!FreeIfContinuation
<1>4. /\ nst \in [Node -> Stages] /\ nst[v] = "done" /\ \A w \in Node : w # v => nst[w] = st[w]
  <2>1. st \in [Node -> Stages] /\ "done" \in Stages
    BY DEF TaskInv, TaskTypes, Stages
  <2>2. QED
    BY <2>1, <1>1, <1>2
<1>5. OneWorker(nst)'
  BY <1>1, <1>2, <1>3, GoesIdle
<1>6. TaskTypes(nst)'
  <2>1. pc' \in [Worker -> Tasks!Labels]
    BY <1>3 DEF TaskInv, TaskTypes, Tasks!Goto, Tasks!Labels
  <2>2. ref' \in [Node -> Int]
    <3>1. ref \in [Node -> Int] /\ ref[p] - 1 \in Int
      BY <1>2 DEF TaskInv, TaskTypes
    <3>2. QED
      BY <3>1, <1>3
  <2>3. QED
    BY <2>1, <2>2, <1>2, <1>3, <1>4 DEF TaskInv, TaskTypes
<1>7. TasksThere(nst)'
  <2>1. \A w \in Node : cont'[w] = ContOf(nst, w)'
    BY <1>2, <1>3, <1>4 DEF TaskInv, TaskTypes, TasksThere, ContOf
  <2>2. spawned' = {w \in Node : nst[w] = "spawned"}
    BY <1>2, <1>3, <1>4 DEF TaskInv, TasksThere
  <2>3. QED
    BY <2>1, <2>2, <1>2, <1>3, <1>4, TreeAssumption DEF TaskInv, TasksThere
<1>8. PICK d \in KidSet(kids, p) : d # v /\ st[d] # "done" /\ KidSet(kids, p) = {v, d} /\ d \in Node
  <2>1. \E c, e \in KidSet(kids, p) : c # e /\ st[c] # "done" /\ st[e] # "done"
    BY <1>1, <1>2 DEF RefOf
  <2>2. \E x, y \in Node : KidSet(kids, p) = {x, y}
    <3>1. Len(kids[p]) \in {1, 2} /\ KidSet(kids, p) \subseteq Node
      BY <1>2, KidSetCases, TreeFacts
    <3>2. QED
      BY <3>1, <1>2, KidSetCases
  <2>3. QED
    BY <2>1, <2>2, <1>2
<1>9. ASSUME NEW w \in Node PROVE KidsFit(nst, w)'
  <2>1. CASE w = v
    <3>1. \A c \in KidSet(kids, v) : st[c] = "done" /\ nst[c] = "done"
      BY <1>2, <1>4, TreeFacts DEF TaskInv, KidsFit, Stepping
    <3>2. QED
      BY <2>1, <3>1, <1>3, <1>4 DEF KidsFit, Untouched
  <2>2. CASE w = p
    <3>1. nst[d] = st[d] /\ st[d] # "todo" /\ nst[p] = "waiting"
      BY <1>2, <1>4, <1>8 DEF TaskInv, KidsFit
    <3>2. RefOf(nst, p)' = 1
      BY <3>1, <1>3, <1>4, <1>8 DEF RefOf
    <3>3. ref'[p] = 1
      <4>1. RefOf(st, p) = 2
        BY <1>2, <1>8 DEF RefOf
      <4>2. QED
        BY <4>1, <1>2, <1>3 DEF TaskInv, TaskTypes
    <3>4. QED
      BY <2>2, <3>1, <3>2, <3>3, <1>3, <1>4, <1>8 DEF KidsFit, Untouched, Stepping
  <2>3. CASE w # v /\ w # p
    <3>1. \A k \in KidSet(kids, w) : nst[k] = st[k]
      BY <2>3, <1>2, <1>4, TreeFacts
    <3>2. KidsFit(st, w) /\ ref'[w] = ref[w] /\ nst[w] = st[w]
      BY <2>3, <1>3, <1>4 DEF TaskInv, TaskTypes
    <3>3. QED
      BY <3>1, <3>2, <1>2, <1>3, KidsFitFrame
  <2>4. QED
    BY <2>1, <2>2, <2>3
<1>10. TablesFit(nst)'
  BY <1>2, <1>3, <1>4, TreeAssumption DEF TaskInv, TablesFit, Filled
<1>11. Stutters(st, nst)
  BY <1>2, <1>3, <1>4 DEF Stutters, Kind
<1>12. QED
  BY <1>5, <1>6, <1>7, <1>9, <1>10, <1>11 DEF TaskInv

(* All other children are done: the worker goes on with the parent.        *)
LEMMA CompleteLastInv ==
  ASSUME NEW st, TaskInv(st), NEW t \in Worker, Tasks!Complete(t), ~Tasks!Overtakes(t),
         ~(ref[Tasks!Parent(at[t])] > 1)
  PROVE  \E nst : \E v \in Node : TaskInv(nst)' /\ Starts(st, nst, v)
<1>1. PICK v, p, nst : /\ v = at[t] /\ p = Tasks!Parent(at[t])
                       /\ nst = [st EXCEPT ![v] = "done", ![p] = "init"]
  OBVIOUS
<1>2. /\ pc[t] = "complete" /\ v # Root /\ v \in Node /\ st[v] = "complete" /\ kids \in Shapes
      /\ p \in Node /\ v \in KidSet(kids, p) /\ p # v /\ st[p] = "waiting" /\ kids[p] # <<>>
      /\ cont[p] = "waiting" /\ ref[p] = RefOf(st, p)
  <2>1. pc[t] = "complete" /\ v # Root
    BY <1>1 DEF Tasks!Complete
  <2>2. PICK q \in Node :
          /\ q = Tasks!Parent(at[t]) /\ at[t] \in KidSet(kids, q) /\ q # at[t]
          /\ at[t] \in Node /\ st[at[t]] = "complete" /\ st[q] = "waiting"
          /\ kids[q] # <<>> /\ cont[q] = "waiting" /\ ref[q] = RefOf(st, q)
    BY <2>1, <1>1, ParentWaits
  <2>3. q = p /\ kids \in Shapes
    BY <2>2, <1>1 DEF TaskInv, TaskTypes
  <2>4. QED
    BY <2>1, <2>2, <2>3, <1>1
<1>3. /\ pc' = [pc EXCEPT ![t] = "init"] /\ at' = [at EXCEPT ![t] = p] /\ spawned' = spawned
      /\ kids' = kids /\ answer' = answer /\ table' = table /\ live' = live /\ alphas' = alphas
      /\ cont' = [cont EXCEPT ![v] = IF kids[v] = <<>> THEN @ ELSE "freed"]
      /\ ref' = [ref EXCEPT ![p] = @ - 1] /\ returned' = returned /\ crashed' = crashed
  BY <1>1, <1>2 DEF Tasks!Complete, Tasks!Move, Tasks!Goto, Tasks!main, Tasks!data, Tasks!FreeIfContinuation
<1>4. /\ nst \in [Node -> Stages] /\ nst[v] = "done" /\ nst[p] = "init"
      /\ \A w \in Node : w # v /\ w # p => nst[w] = st[w]
  <2>1. st \in [Node -> Stages] /\ "done" \in Stages /\ "init" \in Stages
    BY DEF TaskInv, TaskTypes, Stages, WorkLabels
  <2>2. QED
    BY <2>1, <1>1, <1>2
<1>5. OneWorker(nst)'
  <2>1. \A u \in Worker : pc[u] # "idle" => at[u] # p /\ (at[u] = v => u = t)
    <3>1. "waiting" \notin Tasks!Labels /\ pc \in [Worker -> Tasks!Labels] /\ pc[t] # "idle"
      BY <1>2 DEF TaskInv, TaskTypes, Tasks!Labels
    <3>2. QED
      BY <3>1, <1>1, <1>2 DEF TaskInv, OneWorker
  <2>2. pc \in [Worker -> Tasks!Labels] /\ at \in [Worker -> Node]
    BY DEF TaskInv, TaskTypes
  <2>3. \A u \in Worker : pc'[u] # "idle" => nst[at'[u]] = pc'[u]
    BY <2>1, <2>2, <1>3, <1>4 DEF TaskInv, OneWorker
  <2>4. \A u, x \in Worker : pc'[u] # "idle" /\ pc'[x] # "idle" /\ at'[u] = at'[x] => u = x
    BY <2>1, <2>2, <1>2, <1>3 DEF TaskInv, OneWorker
  <2>5. \A w \in Node : nst[w] \in WorkLabels => \E u \in Worker : at'[u] = w /\ pc'[u] = nst[w]
    BY <2>2, <1>1, <1>3, <1>4 DEF TaskInv, OneWorker, WorkLabels
  <2>6. QED
    BY <2>3, <2>4, <2>5 DEF OneWorker
<1>6. TaskTypes(nst)'
  <2>1. pc' \in [Worker -> Tasks!Labels] /\ at' \in [Worker -> Node]
    BY <1>2, <1>3 DEF TaskInv, TaskTypes, Tasks!Labels
  <2>2. ref' \in [Node -> Int]
    <3>1. ref \in [Node -> Int] /\ ref[p] - 1 \in Int
      BY <1>2 DEF TaskInv, TaskTypes
    <3>2. QED
      BY <3>1, <1>3
  <2>3. QED
    BY <2>1, <2>2, <1>2, <1>3, <1>4 DEF TaskInv, TaskTypes
<1>7. TasksThere(nst)'
  <2>1. \A w \in Node : cont'[w] = ContOf(nst, w)'
    BY <1>2, <1>3, <1>4 DEF TaskInv, TaskTypes, TasksThere, ContOf
  <2>2. spawned' = {w \in Node : nst[w] = "spawned"}
    BY <1>2, <1>3, <1>4 DEF TaskInv, TasksThere
  <2>3. QED
    BY <2>1, <2>2, <1>2, <1>3, <1>4, TreeAssumption DEF TaskInv, TasksThere
<1>8. \A c \in KidSet(kids, p) : nst[c] = "done"
  <2>1. \A c \in KidSet(kids, p) : c # v => st[c] = "done"
    BY <1>1, <1>2 DEF RefOf
  <2>2. QED
    BY <2>1, <1>2, <1>4, TreeFacts, NotOwnKid
<1>9. ASSUME NEW w \in Node PROVE KidsFit(nst, w)'
  <2>1. CASE w = v
    <3>1. \A c \in KidSet(kids, v) : st[c] = "done" /\ c \in Node
      BY <1>2, TreeFacts DEF TaskInv, KidsFit, Stepping
    <3>2. \A c \in KidSet(kids, v) : nst[c] = "done"
      BY <3>1, <1>2, <1>4
    <3>3. QED
      BY <2>1, <3>2, <1>3, <1>4 DEF KidsFit, Untouched
  <2>2. CASE w = p
    BY <2>2, <1>3, <1>4, <1>8 DEF KidsFit, Untouched
  <2>3. CASE w # v /\ w # p
    <3>1. \A k \in KidSet(kids, w) : k \in Node /\ k # v
      BY <2>3, <1>2, TreeFacts
    <3>2. \A k \in KidSet(kids, w) : nst[k] = st[k] \/ {nst[k], st[k]} \cap {"todo", "done"} = {}
      BY <3>1, <1>2, <1>4
    <3>3. KidsFit(st, w) /\ ref'[w] = ref[w] /\ nst[w] = st[w]
      BY <2>3, <1>3, <1>4 DEF TaskInv, TaskTypes
    <3>4. QED
      BY <3>2, <3>3, <1>2, <1>3, KidsFitFrame
  <2>4. QED
    BY <2>1, <2>2, <2>3
<1>10. TablesFit(nst)'
  BY <1>2, <1>3, <1>4, TreeAssumption DEF TaskInv, TablesFit, Filled
<1>11. Starts(st, nst, p)
  <2>1. \A c \in KidSet(kids, p) : c \in Node /\ c # p /\ (c # v => st[c] = "done")
    BY <1>2, <1>4, <1>8, TreeFacts, NotOwnKid
  <2>2. QED
    BY <2>1, <1>2, <1>3, <1>4 DEF Starts, Kind
<1>12. QED
  BY <1>2, <1>5, <1>6, <1>7, <1>9, <1>10, <1>11 DEF TaskInv

(* Every step keeps the invariant.                                         *)
LEMMA TaskStepInv ==
  ASSUME NEW st, TaskInv(st), NEW t \in Worker, Tasks!PatientStep(t)
  PROVE  \E nst : /\ TaskInv(nst)'
                  /\ \/ Stutters(st, nst)
                     \/ \E v \in Node : Starts(st, nst, v) \/ Finishes(st, nst, v)
<1>1. CASE Tasks!Take(t)
  BY <1>1, TakeInv
<1>2. CASE Tasks!SchedLeaf(t)
  BY <1>2, SchedLeafInv
<1>3. CASE Tasks!AllocateContinuation(t)
  BY <1>3, AllocateInv
<1>4. CASE Tasks!SpawnSecond(t)
  BY <1>4, SpawnSecondInv
<1>5. CASE Tasks!SetRefCount(t)
  BY <1>5, SetRefCountInv
<1>6. CASE Tasks!InitStep(t)
  BY <1>6, InitStepInv
<1>7. CASE Tasks!ApplyStep(t)
  BY <1>7, ApplyStepInv
<1>8. CASE Tasks!CleanupStep(t)
  BY <1>8, CleanupStepInv
<1>9. CASE Tasks!CompleteRoot(t)
  BY <1>9, CompleteRootInv
<1>10. CASE Tasks!Complete(t)
  <2>1. ~Tasks!Overtakes(t)
    BY DEF Tasks!PatientStep
  <2>2. CASE ref[Tasks!Parent(at[t])] > 1
    BY <2>1, <2>2, <1>10, CompleteFirstInv
  <2>3. CASE ~(ref[Tasks!Parent(at[t])] > 1)
    BY <2>1, <2>3, <1>10, CompleteLastInv
  <2>4. QED
    BY <2>2, <2>3
<1>11. QED
  BY <1>1, <1>2, <1>3, <1>4, <1>5, <1>6, <1>7, <1>8, <1>9, <1>10
     DEF Tasks!PatientStep, Tasks!Step

-----------------------------------------------------------------------------
(* A step reads children that are done, and nobody is at them.             *)
LEMMA TaskInvChildren ==
  ASSUME NEW st, TaskInv(st)
  PROVE  Tasks!ChildrenReady
<1> SUFFICES ASSUME NEW t \in Worker, pc[t] \in {"init", "apply"},
                    NEW c \in KidSet(kids, at[t])
             PROVE  /\ c \in alphas /\ c \in live /\ c \in table[c]
                    /\ \A u \in Worker : ~Tasks!Working(u, c)
  BY TaskKidSet DEF Tasks!ChildrenReady
<1>1. at[t] \in Node /\ st[at[t]] \in {"init", "apply", "cleanup"}
  BY DEF TaskInv, TaskTypes, OneWorker
<1>2. c \in alphas /\ c \in live /\ c \in table[c] /\ st[c] = "done"
  BY <1>1, StepKids
<1>3. \A u \in Worker : ~Tasks!Working(u, c)
  BY <1>2 DEF Tasks!Working, TaskInv, OneWorker
<1>4. QED
  BY <1>2, <1>3

(* The root is done, so every node is, and each table is contained in its  *)
(* parent's.                                                               *)
LEMMA TaskInvSolved ==
  ASSUME NEW st, TaskInv(st), Tasks!Solved
  PROVE  answer = Node /\ live = {} /\ alphas = {}
<1>1. /\ kids \in Shapes /\ st[Root] = "done" /\ Root \in Node /\ Root \notin live
      /\ answer = table[Root] /\ table \in [Node -> SUBSET Node]
      /\ live \subseteq Node /\ alphas \subseteq Node
  BY TreeAssumption DEF Tasks!Solved, TaskInv, TaskTypes, TasksThere, TablesFit
<1>2. Reaches(kids) /\ \A v \in Node : KidSet(kids, v) \subseteq Node
  BY <1>1, TreeFacts
<1>3. \A v \in Node : st[v] = "done"
  <2> DEFINE S == {v \in Node : st[v] = "done"}
  <2>1. S \in SUBSET Node /\ Root \in S
    BY <1>1
  <2>2. \A v \in S : KidSet(kids, v) \subseteq S
    BY <1>2 DEF TaskInv, KidsFit, Stepping
  <2>3. S = Node
    BY <2>1, <2>2, <1>2 DEF Reaches
  <2>4. QED
    BY <2>3
<1>4. \A v \in Node : table[v] = {v} \cup UNION {table[c] : c \in KidSet(kids, v)}
  BY <1>3 DEF TaskInv, TablesFit, Filled
<1>5. \A v \in Node : table[v] \subseteq table[Root]
  <2> DEFINE S == {v \in Node : table[v] \subseteq table[Root]}
  <2>1. S \in SUBSET Node /\ Root \in S
    BY <1>1
  <2>2. \A v \in S : KidSet(kids, v) \subseteq S
    BY <1>2, <1>4
  <2>3. S = Node
    BY <2>1, <2>2, <1>2 DEF Reaches
  <2>4. QED
    BY <2>3
<1>6. answer = Node
  BY <1>1, <1>4, <1>5
<1>7. live = {}
  <2>1. ASSUME NEW v \in live PROVE FALSE
    <3>1. PICK p \in Node : v \in KidSet(kids, p)
      BY <1>1, HasParent
    <3>2. QED
      BY <3>1, <1>3 DEF TaskInv, TablesFit
  <2>2. QED
    BY <2>1
<1>8. alphas = {}
  BY <1>1, <1>7 DEF TaskInv, TablesFit
<1>9. QED
  BY <1>6, <1>7, <1>8

-----------------------------------------------------------------------------
(* Both builds.                                                            *)
SolverInv == IF tbb THEN \E st : TaskInv(st) ELSE IInv

(* The invariant reads nothing but these variables.                        *)
LEMMA TaskUnchanged ==
  ASSUME NEW st, TaskInv(st), UNCHANGED <<kids, live, table, alphas, answer, taskVars>>
  PROVE  TaskInv(st)'
<1>1. TaskTypes(st)' /\ OneWorker(st)' /\ TasksThere(st)' /\ TablesFit(st)'
  BY DEF TaskInv, TaskTypes, OneWorker, TasksThere, ContOf, TablesFit, taskVars
<1>2. ASSUME NEW w \in Node PROVE KidsFit(st, w)'
  <2>1. KidsFit(st, w) /\ ref'[w] = ref[w] /\ kids \in Shapes
    BY DEF TaskInv, TaskTypes, taskVars
  <2>2. QED
    BY <2>1, KidsFitFrame
<1>3. QED
  BY <1>1, <1>2 DEF TaskInv

(* With TBB a step of solve() is one of a worker, do_root() or none.       *)
LEMMA SolverTaskStep ==
  ASSUME NEW st, TaskInv(st), tbb, [SolverNext]_solverVars
  PROVE  /\ tbb'
         /\ \E nst : /\ TaskInv(nst)'
                     /\ \/ Stutters(st, nst)
                        \/ \E v \in Node : Starts(st, nst, v) \/ Finishes(st, nst, v)
                        \/ nst = st /\ Tasks!DoRoot
<1>1. CASE \E t \in Worker : TaskStep(t)
  BY <1>1, TaskStepInv DEF TaskStep
<1>2. CASE TaskRoot
  BY <1>2, TaskRootInv DEF TaskRoot
<1>3. CASE UNCHANGED solverVars
  <2>1. UNCHANGED <<kids, live, table, alphas, answer, taskVars>> /\ tbb'
    BY <1>3 DEF solverVars
  <2>2. TaskInv(st)'
    BY <2>1, TaskUnchanged
  <2>3. Stutters(st, st)
    BY <2>1 DEF Stutters
  <2>4. QED
    BY <2>1, <2>2, <2>3
<1>4. QED
  BY <1>1, <1>2, <1>3 DEF SolverNext, WalkStep

(* Every step keeps the invariant, and no step changes the build.          *)
LEMMA SolverInvInductive == SolverInv /\ [SolverNext]_solverVars => SolverInv' /\ tbb' = tbb
<1> SUFFICES ASSUME SolverInv, [SolverNext]_solverVars PROVE SolverInv' /\ tbb' = tbb
  OBVIOUS
<1>1. tbb' = tbb
  BY DEF SolverNext, WalkStep, TaskStep, TaskRoot, solverVars
<1>2. CASE tbb
  <2>1. PICK st : TaskInv(st)
    BY <1>2 DEF SolverInv
  <2>2. \E nst : TaskInv(nst)'
    BY <2>1, <1>2, SolverTaskStep
  <2>3. QED
    BY <2>2, <1>1, <1>2 DEF SolverInv
<1>3. CASE ~tbb
  <2>1. IInv' /\ ~tbb'
    BY <1>3, SolverStep, IInvInductive DEF SolverInv
  <2>2. QED
    BY <2>1, <1>1 DEF SolverInv
<1>4. QED
  BY <1>2, <1>3

(* solve() starts with it.                                                 *)
LEMMA SolverInvInit == SolverInit => SolverInv
<1> SUFFICES ASSUME SolverInit PROVE SolverInv
  OBVIOUS
<1>1. CASE tbb
  BY <1>1, TaskInitInv DEF SolverInit, SolverInv
<1>2. CASE ~tbb
  BY <1>2, InitIInv DEF SolverInit, SolverInv
<1>3. QED
  BY <1>1, <1>2

-----------------------------------------------------------------------------
(* A step of a worker changes the label of no other worker, and completing *)
(* a task changes its own.                                                 *)
LEMMA StepLabels ==
  ASSUME NEW st, TaskInv(st), NEW u \in Worker, Tasks!Step(u)
  PROVE  /\ \A t \in Worker : t # u => pc'[t] = pc[t]
         /\ pc[u] = "complete" => pc'[u] # "complete"
<1> USE DEF Tasks!Goto, Tasks!Move, Tasks!Crash
<1>1. DOMAIN pc = Worker
  BY DEF TaskInv, TaskTypes
<1>2. ASSUME NEW label, Tasks!Goto(u, label)
      PROVE  pc'[u] = label /\ \A t \in Worker : t # u => pc'[t] = pc[t]
  BY <1>1, <1>2
<1>3. CASE Tasks!Take(u) \/ Tasks!SchedLeaf(u) \/ Tasks!AllocateContinuation(u)
  BY <1>2, <1>3 DEF Tasks!Take, Tasks!SchedLeaf, Tasks!AllocateContinuation
<1>4. CASE Tasks!SpawnSecond(u) \/ Tasks!SetRefCount(u)
  BY <1>2, <1>4 DEF Tasks!SpawnSecond, Tasks!SetRefCount
<1>5. CASE Tasks!InitStep(u) \/ Tasks!ApplyStep(u) \/ Tasks!CleanupStep(u)
  BY <1>2, <1>5 DEF Tasks!InitStep, Tasks!ApplyStep, Tasks!CleanupStep
<1>6. CASE Tasks!CompleteRoot(u) \/ Tasks!Complete(u)
  BY <1>2, <1>6 DEF Tasks!CompleteRoot, Tasks!Complete
<1>7. QED
  BY <1>3, <1>4, <1>5, <1>6 DEF Tasks!Step

(* A worker that is between the two calls completes no task.               *)
LEMMA AloneNoneOvertakes ==
  ASSUME \A t, u \in Worker : t = u
  PROVE  \A t \in Worker : ~Tasks!Overtakes(t)
BY DEF Tasks!Overtakes

(* A step that overtakes nothing is a step of SolverNext.                  *)
LEMMA UnhurriedStep ==
  ASSUME SolverInv, [AnyOrderNext]_solverVars,
         ~tbb \/ (\A t, u \in Worker : t = u) \/ [NoneOvertakes]_solverVars
  PROVE  [SolverNext]_solverVars
<1>1. CASE WalkStep \/ (Returned /\ UNCHANGED solverVars) \/ UNCHANGED solverVars
  BY <1>1 DEF SolverNext
<1>2. CASE tbb /\ Tasks!Halted /\ UNCHANGED <<tbb, walkVars>>
  BY <1>2 DEF Tasks!Halted, Tasks!vars, solverVars, taskVars
<1>3. CASE tbb /\ Tasks!DoRoot /\ UNCHANGED <<tbb, walkVars>>
  BY <1>3 DEF SolverNext, TaskRoot
<1>4. ASSUME NEW t \in Worker, tbb, Tasks!Step(t), UNCHANGED <<tbb, walkVars>>
      PROVE  [SolverNext]_solverVars
  <2>1. PICK st : TaskInv(st)
    BY <1>4 DEF SolverInv
  <2>2. ~Tasks!Overtakes(t) \/ UNCHANGED solverVars
    <3>1. CASE \A u, w \in Worker : u = w
      BY <3>1, AloneNoneOvertakes
    <3>2. CASE NoneOvertakes
      <4>1. Tasks!Overtakes(t) => pc[t] = "complete" /\ pc'[t] = pc[t]
        BY <3>2 DEF NoneOvertakes, Tasks!Overtakes
      <4>2. QED
        BY <4>1, <2>1, <1>4, StepLabels
    <3>3. QED
      BY <3>1, <3>2, <1>4
  <2>3. QED
    BY <2>2, <1>4 DEF SolverNext, TaskStep, Tasks!PatientStep
<1>5. QED
  BY <1>1, <1>2, <1>3, <1>4 DEF AnyOrderNext, Tasks!Next

(* Such steps keep the invariant ...                                       *)
LEMMA UnhurriedBehaviour ==
  AnyOrderSpec /\ Unhurried => []SolverInv /\ [][SolverNext]_solverVars
<1>1. AnyOrderSpec /\ ~tbb => []SolverInv /\ [][SolverNext]_solverVars
  <2>1. SolverInv /\ ~tbb /\ [AnyOrderNext]_solverVars
          => SolverInv' /\ ~tbb' /\ [SolverNext]_solverVars
    BY UnhurriedStep, SolverInvInductive
  <2>2. QED
    BY <2>1, SolverInvInit, PTL DEF AnyOrderSpec
<1>2. ASSUME \A t, u \in Worker : t = u
      PROVE  AnyOrderSpec => []SolverInv /\ [][SolverNext]_solverVars
  <2>1. SolverInv /\ [AnyOrderNext]_solverVars => SolverInv' /\ [SolverNext]_solverVars
    BY <1>2, UnhurriedStep, SolverInvInductive
  <2>2. QED
    BY <2>1, SolverInvInit, PTL DEF AnyOrderSpec
<1>3. AnyOrderSpec /\ [][NoneOvertakes]_solverVars => []SolverInv /\ [][SolverNext]_solverVars
  <2>1. SolverInv /\ [AnyOrderNext]_solverVars /\ [NoneOvertakes]_solverVars
          => SolverInv' /\ [SolverNext]_solverVars
    BY UnhurriedStep, SolverInvInductive
  <2>2. QED
    BY <2>1, SolverInvInit, PTL DEF AnyOrderSpec
<1>4. QED
  BY <1>1, <1>2, <1>3 DEF Unhurried

(* ... and the behaviours of SolverSpec are of that kind.                  *)
LEMMA PatientIsUnhurried == SolverSpec => AnyOrderSpec /\ Unhurried
<1>1. SolverInv /\ [SolverNext]_solverVars
        => [AnyOrderNext]_solverVars /\ [NoneOvertakes]_solverVars
  <2> SUFFICES ASSUME SolverInv, [SolverNext]_solverVars
               PROVE  [AnyOrderNext]_solverVars /\ [NoneOvertakes]_solverVars
    OBVIOUS
  <2>1. CASE WalkStep
    BY <2>1 DEF WalkStep, AnyOrderNext, NoneOvertakes, taskVars
  <2>2. ASSUME NEW u \in Worker, TaskStep(u)
        PROVE  AnyOrderNext /\ NoneOvertakes
    <3>1. PICK st : TaskInv(st)
      BY <2>2 DEF TaskStep, SolverInv
    <3>2. ~crashed
      BY <3>1 DEF TaskInv, TasksThere
    <3>3. \A t \in Worker : t # u => pc'[t] = pc[t]
      BY <3>1, <2>2, StepLabels DEF TaskStep, Tasks!PatientStep
    <3>4. QED
      BY <3>2, <3>3, <2>2 DEF TaskStep, Tasks!PatientStep, AnyOrderNext, Tasks!Next, NoneOvertakes
  <2>3. CASE TaskRoot
    <3>1. PICK st : TaskInv(st)
      BY <2>3 DEF TaskRoot, SolverInv
    <3>2. ~crashed
      BY <3>1 DEF TaskInv, TasksThere
    <3>3. pc' = pc
      BY <2>3 DEF TaskRoot, Tasks!DoRoot
    <3>4. QED
      BY <3>2, <3>3, <2>3 DEF TaskRoot, AnyOrderNext, Tasks!Next, NoneOvertakes
  <2>4. CASE (Returned /\ UNCHANGED solverVars) \/ UNCHANGED solverVars
    BY <2>4 DEF AnyOrderNext
  <2>5. QED
    BY <2>1, <2>2, <2>3, <2>4 DEF SolverNext
<1>2. QED
  BY <1>1, SolverInvInit, SolverInvInductive, PTL DEF SolverSpec, AnyOrderSpec, Unhurried

(***************************************************************************)
(* solve(), tasks in any order: what do_X() reads of its children is there *)
(* and complete when it starts, and no other worker is still filling it.   *)
(* So it is without TBB and with one worker; with more, only if no child   *)
(* is completed between its spawn() and its parent's set_ref_count().      *)
(***************************************************************************)
THEOREM SolverChildrenComplete == AnyOrderSpec /\ Unhurried => []ChildrenComplete
<1>1. SolverInv => ChildrenComplete
  <2> SUFFICES ASSUME SolverInv PROVE ChildrenComplete
    OBVIOUS
  <2>1. CASE tbb
    BY <2>1, TaskInvChildren DEF SolverInv, ChildrenComplete
  <2>2. CASE ~tbb
    BY <2>2, CurKidsReady DEF SolverInv, ChildrenComplete, ChildrenReady
  <2>3. QED
    BY <2>1, <2>2
<1>2. QED
  BY <1>1, UnhurriedBehaviour, PTL

(***************************************************************************)
(* solve(), tasks in any order: when it returns, the solution accounts for *)
(* every node and nothing is left behind, without TBB and with one worker; *)
(* with more, if no child is completed between its spawn() and its         *)
(* parent's set_ref_count().                                               *)
(***************************************************************************)
THEOREM SolverNodesAccounted == AnyOrderSpec /\ Unhurried => []NodesAccounted
<1>1. SolverInv => NodesAccounted
  <2> SUFFICES ASSUME SolverInv PROVE NodesAccounted
    OBVIOUS
  <2>1. CASE tbb
    BY <2>1, TaskInvSolved DEF SolverInv, NodesAccounted, Returned
  <2>2. CASE ~tbb
    BY <2>2, InvSolved DEF SolverInv, NodesAccounted, Returned, SolvedCompletely
  <2>3. QED
    BY <2>1, <2>2
<1>2. QED
  BY <1>1, UnhurriedBehaviour, PTL

-----------------------------------------------------------------------------
(* The refinement of the build with TBB.  What the mapping makes of a      *)
(* stage:                                                                  *)
TaskPhase(st, v) == IF v \notin live THEN "gone" ELSE Kind(st[v])
TaskCover(st, v) == IF Kind(st[v]) = "busy" THEN {} ELSE table[v]

(* A worker is at do_X() of a vertex exactly when its stage is busy.       *)
LEMMA WorkingIsBusy ==
  ASSUME NEW st, TaskInv(st), NEW v \in Node
  PROVE  (\E t \in Worker : Tasks!Working(t, v)) <=> Kind(st[v]) = "busy"
<1>1. ASSUME NEW t \in Worker, Tasks!Working(t, v) PROVE Kind(st[v]) = "busy"
  BY <1>1 DEF Tasks!Working, Kind, TaskInv, OneWorker
<1>2. ASSUME Kind(st[v]) = "busy" PROVE \E t \in Worker : Tasks!Working(t, v)
  <2>1. st[v] \in {"init", "apply", "cleanup"}
    BY <1>2 DEF Kind
  <2>2. PICK t \in Worker : at[t] = v /\ pc[t] = st[v]
    BY <2>1 DEF TaskInv, OneWorker, WorkLabels
  <2>3. QED
    BY <2>1, <2>2 DEF Tasks!Working
<1>3. QED
  BY <1>1, <1>2

(* The phase of a vertex can be read off its stage.                        *)
LEMMA TaskPhaseOf ==
  ASSUME NEW st, TaskInv(st), NEW v \in Node
  PROVE  Tasks!PhaseOf(v) = TaskPhase(st, v)
<1> DEFINE busy == \E t \in Worker : Tasks!Working(t, v)
<1>1. busy <=> Kind(st[v]) = "busy"
  BY WorkingIsBusy
<1>2. v \notin live => Kind(st[v]) = "ready"
  BY LiveUntilDone DEF Kind
<1>3. v \in live /\ Kind(st[v]) = "ready" => v \in table[v]
  BY DEF TaskInv, TablesFit, Kind, Filled
<1>4. Kind(st[v]) = "todo" => v \notin table[v]
  BY DEF TaskInv, TablesFit, Kind, Filled
<1>5. Kind(st[v]) \in {"todo", "busy", "ready"}
  BY DEF Kind
<1>6. Tasks!PhaseOf(v) = CASE v \notin live -> "gone"
                           [] busy -> "busy"
                           [] v \in live /\ v \in table[v] /\ ~busy -> "ready"
                           [] OTHER -> "todo"
  BY DEF Tasks!PhaseOf
<1>. HIDE DEF busy
<1>7. QED
  BY <1>1, <1>2, <1>3, <1>4, <1>5, <1>6 DEF TaskPhase

(* The mapping, as a state predicate that holds of this state and the next.*)
Mapped ==
  \A st : TaskInv(st) /\ tbb =>
    /\ Phase = [v \in Node |-> TaskPhase(st, v)]
    /\ Cover = [v \in Node |-> TaskCover(st, v)]

(* The mapping of this state ...                                           *)
LEMMA TaskMapping == Mapped
BY TaskPhaseOf, WorkingIsBusy DEF Mapped, Phase, Cover, TaskCover

(* ... and of the next.                                                    *)
LEMMA TaskMappingPrimed == Mapped'
BY TaskMapping, PTL

(* Spawning, counting and waiting are nothing to the schedule.             *)
LEMMA StuttersMaps ==
  ASSUME NEW st, TaskInv(st), NEW nst, TaskInv(nst)', tbb, tbb', Stutters(st, nst)
  PROVE  UNCHANGED SolverSchedule!vars
<1>1. /\ Phase = [v \in Node |-> TaskPhase(st, v)] /\ Cover = [v \in Node |-> TaskCover(st, v)]
      /\ Phase' = [v \in Node |-> TaskPhase(nst, v)'] /\ Cover' = [v \in Node |-> TaskCover(nst, v)']
  BY TaskMapping, TaskMappingPrimed DEF Mapped
<1>2. \A v \in Node : TaskPhase(nst, v)' = TaskPhase(st, v) /\ TaskCover(nst, v)' = TaskCover(st, v)
  BY DEF Stutters, TaskPhase, TaskCover
<1>3. QED
  BY <1>1, <1>2 DEF SolverSchedule!vars, Stutters

(* do_X() of v starts.                                                     *)
LEMMA StartsMaps ==
  ASSUME NEW st, TaskInv(st), NEW nst, TaskInv(nst)', tbb, tbb',
         NEW v \in Node, Starts(st, nst, v)
  PROVE  SolverSchedule!Start(v)
<1>1. /\ Phase = [w \in Node |-> TaskPhase(st, w)] /\ Cover = [w \in Node |-> TaskCover(st, w)]
      /\ Phase' = [w \in Node |-> TaskPhase(nst, w)'] /\ Cover' = [w \in Node |-> TaskCover(nst, w)']
  BY TaskMapping, TaskMappingPrimed DEF Mapped
<1>2. v \in live /\ table[v] = {} /\ \A c \in KidSet(kids, v) : c \in live /\ c \in Node
  <2>1. st[v] \notin {"complete", "done"} /\ st[v] \notin Filled
    BY DEF Starts, Kind, Filled
  <2>2. \A c \in KidSet(kids, v) : c \in live
    BY <2>1 DEF TaskInv, TablesFit
  <2>3. QED
    BY <2>1, <2>2, LiveUntilDone, TreeFacts DEF TaskInv, TaskTypes, TablesFit
<1>3. TaskPhase(st, v) = "todo" /\ TaskPhase(nst, v)' = "busy"
  BY <1>2 DEF TaskPhase, Starts
<1>4. \A w \in Node : w # v => TaskPhase(nst, w)' = TaskPhase(st, w)
  BY DEF TaskPhase, Starts
<1>5. \A w \in Node : TaskCover(nst, w)' = TaskCover(st, w)
  BY <1>2 DEF TaskCover, Starts
<1>6. Phase' = [Phase EXCEPT ![v] = "busy"] /\ Phase[v] = "todo" /\ Cover' = Cover
  BY <1>1, <1>3, <1>4, <1>5
<1>7. \A c \in KidSet(kids, v) : Phase[c] = "ready"
  BY <1>1, <1>2 DEF TaskPhase, Starts
<1>8. QED
  BY <1>6, <1>7 DEF SolverSchedule!Start, SolverSchedule!KidSet, KidSet, Starts

(* The table of v is complete and those of its children are given up.      *)
LEMMA FinishesMaps ==
  ASSUME NEW st, TaskInv(st), NEW nst, TaskInv(nst)', tbb, tbb',
         NEW v \in Node, Finishes(st, nst, v)
  PROVE  SolverSchedule!Finish(v)
<1> DEFINE K == KidSet(kids, v)
<1>1. /\ Phase = [w \in Node |-> TaskPhase(st, w)] /\ Cover = [w \in Node |-> TaskCover(st, w)]
      /\ Phase' = [w \in Node |-> TaskPhase(nst, w)'] /\ Cover' = [w \in Node |-> TaskCover(nst, w)']
  BY TaskMapping, TaskMappingPrimed DEF Mapped
<1>2. /\ v \in live /\ v \notin K /\ K \subseteq Node
      /\ \A c \in K : st[c] = "done"
      /\ table[v] = {v} \cup UNION {table[c] : c \in K}
  <2>1. st[v] = "cleanup" /\ kids \in Shapes
    BY DEF Finishes, TaskInv, TaskTypes
  <2>2. v \in live /\ v \notin K /\ K \subseteq Node
    BY <2>1, LiveUntilDone, NotOwnKid, TreeFacts
  <2>3. \A c \in K : st[c] = "done"
    BY <2>1, StepKids
  <2>4. table[v] = {v} \cup UNION {table[c] : c \in K}
    BY <2>1 DEF TaskInv, TablesFit, Filled
  <2>5. QED
    BY <2>2, <2>3, <2>4
<1>3. TaskPhase(st, v) = "busy" /\ TaskPhase(nst, v)' = "ready"
  BY <1>2 DEF TaskPhase, Finishes, Kind
<1>4. \A w \in K : TaskPhase(nst, w)' = "gone"
  BY DEF TaskPhase, Finishes
<1>5. \A w \in Node : w # v /\ w \notin K => TaskPhase(nst, w)' = TaskPhase(st, w)
  BY DEF TaskPhase, Finishes
<1>6. \A w \in Node : w # v => TaskCover(nst, w)' = TaskCover(st, w)
  BY DEF TaskCover, Finishes
<1>7. TaskCover(nst, v)' = {v} \cup UNION {TaskCover(st, c) : c \in K}
  BY <1>2 DEF TaskCover, Finishes, Kind
<1>8. Phase' = [w \in Node |-> CASE w = v -> "ready"
                                 [] w # v /\ w \in K -> "gone"
                                 [] OTHER -> Phase[w]]
  BY <1>1, <1>3, <1>4, <1>5
<1>9. Cover' = [Cover EXCEPT ![v] = {v} \cup UNION {Cover[c] : c \in K}]
  <2>1. UNION {Cover[c] : c \in K} = UNION {TaskCover(st, c) : c \in K}
    BY <1>1, <1>2
  <2>2. QED
    BY <2>1, <1>1, <1>6, <1>7
<1>10. Phase[v] = "busy" /\ kids' = kids /\ answer' = answer
  BY <1>1, <1>3 DEF Finishes
<1>11. SolverSchedule!KidSet(kids, v) = K
  BY DEF SolverSchedule!KidSet, KidSet
<1>. HIDE DEF K
<1>12. QED
  BY <1>8, <1>9, <1>10, <1>11 DEF SolverSchedule!Finish

(* do_root() gives the answer.                                             *)
LEMMA TaskRootMaps ==
  ASSUME NEW st, TaskInv(st), TaskInv(st)', tbb, tbb', Tasks!DoRoot
  PROVE  SolverSchedule!Answer
<1>1. /\ Phase = [w \in Node |-> TaskPhase(st, w)] /\ Cover = [w \in Node |-> TaskCover(st, w)]
      /\ Phase' = [w \in Node |-> TaskPhase(st, w)'] /\ Cover' = [w \in Node |-> TaskCover(st, w)']
  BY TaskMapping, TaskMappingPrimed DEF Mapped
<1>2. /\ st[Root] = "done" /\ Root \in Node /\ Root \in live
      /\ kids' = kids /\ table' = table /\ live' = live \ {Root} /\ answer' = table[Root]
  BY TreeAssumption DEF Tasks!DoRoot, TaskInv, TasksThere
<1>3. TaskPhase(st, Root) = "ready" /\ TaskPhase(st, Root)' = "gone" /\ TaskCover(st, Root) = table[Root]
  BY <1>2 DEF TaskPhase, TaskCover, Kind
<1>4. \A w \in Node : w # Root => TaskPhase(st, w)' = TaskPhase(st, w)
  BY <1>2 DEF TaskPhase
<1>5. \A w \in Node : TaskCover(st, w)' = TaskCover(st, w)
  BY <1>2 DEF TaskCover
<1>6. Phase' = [Phase EXCEPT ![Root] = "gone"] /\ Phase[Root] = "ready"
  BY <1>1, <1>2, <1>3, <1>4
<1>7. Cover' = Cover /\ Cover[Root] = table[Root]
  BY <1>1, <1>2, <1>3, <1>5
<1>8. QED
  BY <1>2, <1>6, <1>7 DEF SolverSchedule!Answer

(* The states solve() starts in are those of the schedule, with TBB.       *)
LEMMA TaskInitMaps == SolverInit /\ tbb => SolverSchedule!Init
<1> SUFFICES ASSUME SolverInit, tbb PROVE SolverSchedule!Init
  OBVIOUS
<1>1. PICK st : st = [v \in Node |-> IF v = Root THEN "spawned" ELSE "todo"] /\ TaskInv(st)
  BY TaskInitInv DEF SolverInit
<1>2. /\ Phase = [v \in Node |-> TaskPhase(st, v)] /\ Cover = [v \in Node |-> TaskCover(st, v)]
  BY <1>1, TaskMapping DEF Mapped
<1>3. kids \in Shapes /\ answer = {} /\ live = Node /\ table = [v \in Node |-> {}]
  BY DEF SolverInit, Init
<1>4. \A v \in Node : TaskPhase(st, v) = "todo" /\ TaskCover(st, v) = {}
  BY <1>1, <1>3 DEF TaskPhase, TaskCover, Kind
<1>5. QED
  BY <1>2, <1>3, <1>4 DEF SolverSchedule!Init

(***************************************************************************)
(* solve(), tasks in any order, implements the abstract schedule: nodes    *)
(* are worked on once, bottom-up, and every table is consumed by one step. *)
(* So it is without TBB and with one worker; with more, if no child is     *)
(* completed between its spawn() and its parent's set_ref_count().         *)
(***************************************************************************)
THEOREM SolverFollowsSchedule == AnyOrderSpec /\ Unhurried => FollowsSchedule
<1>1. SolverInit => SolverSchedule!Init
  BY TaskInitMaps, WalkInitMaps
<1>2. SolverInv /\ [SolverNext]_solverVars => [SolverSchedule!Next]_(SolverSchedule!vars)
  <2> SUFFICES ASSUME SolverInv, [SolverNext]_solverVars
               PROVE  [SolverSchedule!Next]_(SolverSchedule!vars)
    OBVIOUS
  <2>1. CASE tbb
    <3>1. PICK st : TaskInv(st)
      BY <2>1 DEF SolverInv
    <3>2. tbb'
      BY <3>1, <2>1, SolverTaskStep
    <3>3. PICK nst : /\ TaskInv(nst)'
                     /\ \/ Stutters(st, nst)
                        \/ \E v \in Node : Starts(st, nst, v) \/ Finishes(st, nst, v)
                        \/ nst = st /\ Tasks!DoRoot
      BY <3>1, <2>1, SolverTaskStep
    <3>4. CASE Stutters(st, nst)
      BY <3>1, <3>2, <3>3, <3>4, <2>1, StuttersMaps
    <3>5. ASSUME NEW v \in Node, Starts(st, nst, v) PROVE SolverSchedule!Start(v)
      BY <3>1, <3>2, <3>3, <3>5, <2>1, StartsMaps
    <3>6. ASSUME NEW v \in Node, Finishes(st, nst, v) PROVE SolverSchedule!Finish(v)
      BY <3>1, <3>2, <3>3, <3>6, <2>1, FinishesMaps
    <3>7. ASSUME nst = st, Tasks!DoRoot PROVE SolverSchedule!Answer
      <4>1. TaskInv(st)'
        BY <3>3, <3>7
      <4>2. QED
        BY <4>1, <3>1, <3>2, <3>7, <2>1, TaskRootMaps
    <3>8. QED
      BY <3>3, <3>4, <3>5, <3>6, <3>7 DEF SolverSchedule!Next
  <2>2. CASE ~tbb
    BY <2>2, WalkStepMaps DEF SolverInv
  <2>3. QED
    BY <2>1, <2>2
<1>3. QED
  BY <1>1, <1>2, UnhurriedBehaviour, PTL
     DEF AnyOrderSpec, FollowsSchedule, SolverSchedule!Spec

-----------------------------------------------------------------------------
(***************************************************************************)
(* What the schedule itself promises, whatever the tree and the order of   *)
(* the steps: the answer accounts for every node and no node is in two     *)
(* tables.                                                                 *)
(***************************************************************************)
VARIABLES phase, cover

Plan == INSTANCE DynProg

Worked(v) == phase[v] \in {"ready", "gone"}

(* A finished table accounts for its node, and with a node for the         *)
(* children of the node; everything it accounts for was worked on.         *)
OwnNode == \A v \in Node : Worked(v) => v \in cover[v]
Closed == \A v \in Node : \A x \in cover[v] : Plan!KidSet(kids, x) \subseteq cover[v]
OnlyWorked == \A v \in Node : \A x \in cover[v] : Worked(x)

(* Nobody takes the tables of the children away from a node being worked   *)
(* on: its children have no other parent.                                  *)
BusyKids ==
  \A v \in Node : phase[v] = "busy" => \A c \in Plan!KidSet(kids, v) : phase[c] = "ready"

PlanInv ==
  /\ Plan!TypeOK /\ OwnNode /\ Closed /\ OnlyWorked /\ BusyKids
  /\ Plan!NothingTwice /\ Plan!AnswerComplete
LEMMA PlanTree ==
  ASSUME NEW t \in Shapes
  PROVE  /\ \A v \in Node : Plan!KidSet(t, v) \subseteq Node
         /\ \A v \in Node : Root \notin Plan!KidSet(t, v)
         /\ \A v, w \in Node : v # w => Plan!KidSet(t, v) \cap Plan!KidSet(t, w) = {}
         /\ Plan!Reaches(t)
BY TreeFacts DEF Reaches, KidSet, Plan!Reaches, Plan!KidSet

LEMMA InitPlanInv == Plan!Init => PlanInv
BY TreeAssumption
DEF Plan!Init, PlanInv, Plan!TypeOK, Plan!Phases, OwnNode, Closed, OnlyWorked, BusyKids, Worked,
    Plan!NothingTwice, Plan!AnswerComplete

LEMMA StartPlanInv == ASSUME NEW v \in Node, PlanInv, Plan!Start(v) PROVE PlanInv'
<1> USE DEF Plan!Start
<1>1. Plan!TypeOK'  BY DEF PlanInv, Plan!TypeOK, Plan!Phases
<1>2. OwnNode' /\ OnlyWorked' /\ Plan!NothingTwice'
  BY DEF PlanInv, Plan!TypeOK, OwnNode, OnlyWorked, Worked, Plan!NothingTwice
<1>3. Closed' /\ Plan!AnswerComplete'  BY DEF PlanInv, Closed, Plan!AnswerComplete, Plan!KidSet
<1>4. BusyKids'
  <2> SUFFICES ASSUME NEW w \in Node, phase'[w] = "busy", NEW c \in Plan!KidSet(kids, w)
               PROVE  phase'[c] = "ready"
    BY DEF BusyKids, Plan!KidSet
  <2>1. phase[c] = "ready"  BY DEF PlanInv, Plan!TypeOK, BusyKids
  <2>2. c # v  BY <2>1
  <2> QED  BY <2>1, <2>2, PlanTree DEF PlanInv, Plan!TypeOK
<1> QED  BY <1>1, <1>2, <1>3, <1>4 DEF PlanInv

LEMMA FinishPlanInv == ASSUME NEW v \in Node, PlanInv, Plan!Finish(v) PROVE PlanInv'
<1> DEFINE K == Plan!KidSet(kids, v)
<1>0. /\ K \subseteq Node
      /\ v \notin K
  <2>1. K \subseteq Node  BY PlanTree DEF PlanInv, Plan!TypeOK
  <2>2. \A c \in K : phase[c] = "ready"  BY DEF Plan!Finish, PlanInv, BusyKids
  <2> QED  BY <2>1, <2>2 DEF Plan!Finish
<1>1. /\ phase[v] = "busy" /\ phase'[v] = "ready"
      /\ \A c \in K : phase[c] = "ready" /\ phase'[c] = "gone"
      /\ \A w \in Node : w # v /\ w \notin K => phase'[w] = phase[w]
  BY <1>0 DEF Plan!Finish, PlanInv, BusyKids
<1>2. /\ kids' = kids /\ answer' = answer
      /\ cover'[v] = {v} \cup UNION {cover[c] : c \in K}
      /\ \A w \in Node : w # v => cover'[w] = cover[w]
  BY DEF Plan!Finish, PlanInv, Plan!TypeOK
<1>3. Plan!TypeOK'
  <2>1. phase' \in [Node -> Plan!Phases]  BY DEF Plan!Finish, PlanInv, Plan!TypeOK, Plan!Phases
  <2>2. cover' \in [Node -> SUBSET Node]  BY <1>0 DEF Plan!Finish, PlanInv, Plan!TypeOK
  <2> QED  BY <2>1, <2>2, <1>2 DEF PlanInv, Plan!TypeOK
<1>4. \A w \in Node : Worked(w)' <=> Worked(w) \/ w = v
  BY <1>1 DEF Worked
<1>5. OwnNode'  BY <1>2, <1>4 DEF PlanInv, OwnNode
<1>6. OnlyWorked'
  <2> SUFFICES ASSUME NEW w \in Node, NEW x \in cover'[w] PROVE Worked(x)'
    BY DEF OnlyWorked
  <2>1. x \in Node  BY <1>3 DEF Plan!TypeOK
  <2>2. x = v \/ \E u \in Node : x \in cover[u]  BY <1>0, <1>2
  <2> QED  BY <2>1, <2>2, <1>4 DEF PlanInv, OnlyWorked
<1>7. Closed'
  <2> SUFFICES ASSUME NEW w \in Node, NEW x \in cover'[w], NEW y \in Plan!KidSet(kids, x)
               PROVE  y \in cover'[w]
    BY <1>2 DEF Closed, Plan!KidSet
  <2>1. CASE w # v  BY <2>1, <1>2 DEF PlanInv, Closed
  <2>2. CASE w = v /\ x = v
    <3>1. y \in K  BY <2>2
    <3>2. y \in cover[y]  BY <3>1, <1>0, <1>1 DEF PlanInv, OwnNode, Worked
    <3> QED  BY <3>1, <3>2, <2>2, <1>2
  <2>3. CASE w = v /\ x # v
    <3>1. PICK c \in K : x \in cover[c]  BY <2>3, <1>2
    <3>2. y \in cover[c]  BY <3>1, <1>0 DEF PlanInv, Closed
    <3> QED  BY <3>1, <3>2, <2>3, <1>2
  <2> QED  BY <2>1, <2>2, <2>3
<1>8. BusyKids'
  <2> SUFFICES ASSUME NEW w \in Node, phase'[w] = "busy", NEW c \in Plan!KidSet(kids, w)
               PROVE  phase'[c] = "ready"
    BY <1>2 DEF BusyKids, Plan!KidSet
  <2>1. w # v /\ w \notin K /\ phase[w] = "busy"  BY <1>0, <1>1
  <2>2. c \in Node /\ c \notin K  BY <2>1, PlanTree DEF PlanInv, Plan!TypeOK
  <2>3. phase[c] = "ready"  BY <2>1 DEF PlanInv, BusyKids
  <2> QED  BY <2>2, <2>3, <1>1
<1>9. Plan!NothingTwice'
  <2>1. ASSUME NEW w \in Node, w # v, phase'[w] = "ready"
        PROVE  cover'[v] \cap cover'[w] = {}
    <3>1. w \notin K /\ phase[w] = "ready"  BY <2>1, <1>1
    <3>2. v \notin cover[w]  BY <1>1 DEF PlanInv, OnlyWorked, Worked
    <3>3. \A c \in K : cover[c] \cap cover[w] = {}
      BY <3>1, <1>0, <1>1 DEF PlanInv, Plan!NothingTwice
    <3> QED  BY <3>2, <3>3, <2>1, <1>2
  <2>2. ASSUME NEW w \in Node, NEW u \in Node, w # u, w # v, u # v,
               phase'[w] = "ready", phase'[u] = "ready"
        PROVE  cover'[w] \cap cover'[u] = {}
    <3>1. phase[w] = "ready" /\ phase[u] = "ready"  BY <2>2, <1>1
    <3> QED  BY <3>1, <2>2, <1>2 DEF PlanInv, Plan!NothingTwice
  <2> QED  BY <2>1, <2>2 DEF Plan!NothingTwice
<1>10. Plan!AnswerComplete'  BY <1>2 DEF PlanInv, Plan!AnswerComplete
<1> QED  BY <1>3, <1>5, <1>6, <1>7, <1>8, <1>9, <1>10 DEF PlanInv

LEMMA AnswerPlanInv == ASSUME PlanInv, Plan!Answer PROVE PlanInv'
<1>0. Root \in Node  BY TreeAssumption
<1>1. Plan!TypeOK'  BY <1>0 DEF Plan!Answer, PlanInv, Plan!TypeOK, Plan!Phases
<1>2. OwnNode' /\ OnlyWorked' /\ Plan!NothingTwice'
  BY <1>0 DEF Plan!Answer, PlanInv, Plan!TypeOK, OwnNode, OnlyWorked, Worked, Plan!NothingTwice
<1>3. Closed'  BY DEF Plan!Answer, PlanInv, Closed, Plan!KidSet
<1>4. BusyKids'
  <2> SUFFICES ASSUME NEW w \in Node, phase'[w] = "busy", NEW c \in Plan!KidSet(kids, w)
               PROVE  phase'[c] = "ready"
    BY DEF Plan!Answer, BusyKids, Plan!KidSet
  <2>1. phase[w] = "busy"  BY <1>0 DEF Plan!Answer, PlanInv, Plan!TypeOK
  <2>2. c # Root /\ c \in Node  BY PlanTree DEF PlanInv, Plan!TypeOK
  <2> QED  BY <2>1, <2>2 DEF Plan!Answer, PlanInv, Plan!TypeOK, BusyKids
<1>5. Plan!AnswerComplete'
  <2>1. Root \in cover[Root]  BY <1>0 DEF Plan!Answer, PlanInv, OwnNode, Worked
  <2>2. \A v \in cover[Root] : Plan!KidSet(kids, v) \subseteq cover[Root]
    BY <1>0 DEF PlanInv, Closed
  <2>3. cover[Root] \in SUBSET Node /\ Plan!Reaches(kids)
    BY <1>0, PlanTree DEF PlanInv, Plan!TypeOK
  <2>4. cover[Root] = Node  BY <2>1, <2>2, <2>3 DEF Plan!Reaches
  <2> QED  BY <2>4 DEF Plan!Answer, Plan!AnswerComplete
<1> QED  BY <1>1, <1>2, <1>3, <1>4, <1>5 DEF PlanInv

LEMMA PlanInvHolds == Plan!Spec => []PlanInv
<1>1. PlanInv /\ [Plan!Next]_(Plan!vars) => PlanInv'
  <2> SUFFICES ASSUME PlanInv, [Plan!Next]_(Plan!vars) PROVE PlanInv'
    OBVIOUS
  <2>1. ASSUME NEW v \in Node, Plan!Start(v) PROVE PlanInv'  BY <2>1, StartPlanInv
  <2>2. ASSUME NEW v \in Node, Plan!Finish(v) PROVE PlanInv'  BY <2>2, FinishPlanInv
  <2>3. CASE Plan!Answer  BY <2>3, AnswerPlanInv
  <2>4. CASE UNCHANGED Plan!vars
    BY <2>4 DEF Plan!vars, PlanInv, Plan!TypeOK, OwnNode, Closed, OnlyWorked, Worked, BusyKids,
                Plan!NothingTwice, Plan!AnswerComplete, Plan!KidSet
  <2> QED  BY <2>1, <2>2, <2>3, <2>4 DEF Plan!Next, Plan!Done
<1> QED  BY InitPlanInv, <1>1, PTL DEF Plan!Spec

(* The answer accounts for every node of the tree, for every tree.         *)
THEOREM DynProgAnswer == Plan!Spec => []Plan!AnswerComplete
<1>1. PlanInv => Plan!AnswerComplete  BY DEF PlanInv
<1> QED  BY PlanInvHolds, <1>1, PTL

(* Tables that are still to be consumed never share a node.                *)
THEOREM DynProgNothingTwice == Plan!Spec => []Plan!NothingTwice
<1>1. PlanInv => Plan!NothingTwice  BY DEF PlanInv
<1> QED  BY PlanInvHolds, <1>1, PTL
=============================================================================
