---------------------------- MODULE Evaluations ----------------------------
(***************************************************************************)
(* The evaluations of SequoiaSolver (sequoia_eval_*.h) and the way the     *)
(* dynamic program uses them.  An evaluation maps a set of solutions to a  *)
(* value - their number, the numbers of every size, the extremal size, a   *)
(* solution of that size, any solution - without ever seeing the set: the  *)
(* solver only calls elem() for the part of a solution in a bag, mult()    *)
(* for the union of two parts and add() for the union of two sets.         *)
(*                                                                         *)
(* An entry of a table carries the set of the solutions it stands for      *)
(* beside its values; no action but the choice of a game reads it.  A game *)
(* is what GameSolve shows of it: the partial solutions that the same rest *)
(* of a graph completes.  Which sets are solutions of the whole graph is   *)
(* left open.  There is one free set variable, the only one that these     *)
(* evaluations look at (WitnessEvaluation looks at all of them in the same *)
(* way).                                                                   *)
(***************************************************************************)
EXTENDS Naturals, FiniteSets, Functions, FiniteSetsExt

CONSTANTS
  Vertices,
  Width,     \* the number of vertices that fit into a bag
  Bits,      \* the width of unsigned long
  NULL

VARIABLES
  accepted,  \* the sets of vertices that are solutions
  node,      \* the subtree being built: [bag, seen, table]
  left,      \* the left child of the join to come, or NULL
  answer     \* has_solution and the solution at the root

evalVars == <<accepted, node, left, answer>>

(* An unsigned long has a bit, so that it tells 0 from 1.                 *)
ASSUME EvaluationsAssumption ==
  /\ IsFiniteSet(Vertices)
  /\ Width \in Nat
  /\ 2 ^ Bits \in Nat /\ 2 ^ Bits > 1

Modulo(n) == n % (2 ^ Bits)

-----------------------------------------------------------------------------
(***************************************************************************)
(* elem(): the value of the one solution that is the members in the bag.   *)
(* The vector of CardCountingEvaluation ends with the size of the members. *)
(***************************************************************************)
Elem(members) ==
  LET size == Cardinality(members)
  IN [count   |-> 1,
      sizes   |-> [n \in 0 .. size |-> IF n = size THEN 1 ELSE 0],
      least   |-> size,
      most    |-> size,
      smallest |-> [size |-> size, set |-> members],
      largest |-> [size |-> size, set |-> members],
      witness |-> members]

(***************************************************************************)
(* mult(): the intersection e is counted by both factors.  The size of the *)
(* intersection is the first index of its vector that is not zero.         *)
(***************************************************************************)
(* Mutant of SizesMult: the intersection is left in. *)
SizesMultTwice(x, y, e) ==
  LET Products(n) == [i \in {j \in DOMAIN x : n >= j /\ n - j \in DOMAIN y} |->
                        x[i] * y[n - i]]
  IN [n \in 0 .. Cardinality(DOMAIN x) + Cardinality(DOMAIN y) - 2 |->
        Modulo(SumFunction(Products(n)))]

SizesMult(x, y, e) ==
  LET common == CHOOSE n \in DOMAIN e : e[n] > 0 /\ \A m \in DOMAIN e : e[m] > 0 => n <= m
      length == Cardinality(DOMAIN x) + Cardinality(DOMAIN y) - common - 1
      Products(n) == [i \in {j \in DOMAIN x : /\ j >= common /\ n >= j
                                              /\ n + common - j \in DOMAIN y} |->
                        x[i] * y[n + common - i]]
  IN [n \in 0 .. length - 1 |-> Modulo(SumFunction(Products(n)))]

SetMult(x, y, e) == [size |-> x.size + y.size - e.size, set |-> x.set \cup y.set]

(* Mutant of WitnessMult: only the first part is kept. *)
WitnessMultFirst(x, y) == x

WitnessMult(x, y) == x \cup y

(* Mutant of CountMult: the sum for the product. *)
CountMultSum(x, y) == Modulo(x + y)

CountMult(x, y) == Modulo(x * y)

Mult(x, y, e) ==
  [count    |-> CountMult(x.count, y.count),
   sizes    |-> SizesMult(x.sizes, y.sizes, e.sizes),
   least    |-> x.least + y.least - e.least,
   most     |-> x.most + y.most - e.most,
   smallest |-> SetMult(x.smallest, y.smallest, e.smallest),
   largest  |-> SetMult(x.largest, y.largest, e.largest),
   witness  |-> WitnessMult(x.witness, y.witness)]

(***************************************************************************)
(* add(): MinMaxCard and MinMaxCardSet keep one of the two by the size,    *)
(* WitnessEvaluation the first.                                            *)
(***************************************************************************)
SizesAdd(x, y) ==
  LET At(s, n) == IF n \in DOMAIN s THEN s[n] ELSE 0
  IN [n \in DOMAIN x \cup DOMAIN y |-> Modulo(At(x, n) + At(y, n))]

(* Mutant of Add: the second set is kept whatever its size. *)
AddSecond(x, y) ==
  [count    |-> Modulo(x.count + y.count),
   sizes    |-> SizesAdd(x.sizes, y.sizes),
   least    |-> y.least,
   most     |-> y.most,
   smallest |-> y.smallest,
   largest  |-> y.largest,
   witness  |-> x.witness]

Add(x, y) ==
  [count    |-> Modulo(x.count + y.count),
   sizes    |-> SizesAdd(x.sizes, y.sizes),
   least    |-> IF x.least < y.least THEN x.least ELSE y.least,
   most     |-> IF x.most > y.most THEN x.most ELSE y.most,
   smallest |-> IF x.smallest.size < y.smallest.size THEN x.smallest ELSE y.smallest,
   largest  |-> IF x.largest.size > y.largest.size THEN x.largest ELSE y.largest,
   witness  |-> x.witness]

-----------------------------------------------------------------------------
(***************************************************************************)
(* The completions of a partial solution: equal for equal games.           *)
(***************************************************************************)
Completions(x, seen) == {y \in SUBSET (Vertices \ seen) : x \cup y \in accepted}
AnyOf(entry) == CHOOSE x \in entry.sols : TRUE

(***************************************************************************)
(* update_value for a set of results [alpha, sols, val]: those with equal  *)
(* assignments and equal games are added up, a game that the falsifier has *)
(* won is dropped.                                                         *)
(***************************************************************************)
AddEntry(r, v) == Add(v, r.val)

SumOf(entries) ==
  LET first == CHOOSE r \in entries : TRUE
  IN [sols |-> UNION {r.sols : r \in entries},
      val  |-> FoldSet(AddEntry, first.val, entries \ {first})]

Table(results, seen) ==
  LET Key(r)    == <<r.alpha, Completions(AnyOf(r), seen)>>
      kept      == {r \in results : Completions(AnyOf(r), seen) # {}}
  IN [k \in {Key(r) : r \in kept} |-> SumOf({r \in kept : Key(r) = k})]

LeafNode ==
  [bag |-> {}, seen |-> {},
   table |-> Table({[alpha |-> {}, sols |-> {{}}, val |-> Elem({})]}, {})]

EvalInit ==
  /\ accepted \in SUBSET SUBSET Vertices
  /\ node = LeafNode
  /\ left = NULL
  /\ answer = NULL

(***************************************************************************)
(* save_value of an introduce: the value of the new members is multiplied  *)
(* in; the intersection is that of the members without the new vertex.     *)
(***************************************************************************)
DoIntroduce(v) ==
  /\ answer = NULL
  /\ v \notin node.seen
  /\ Cardinality(node.bag) < Width
  /\ LET Result(k, new) ==
           LET alpha == k[1] \cup new
           IN [alpha |-> alpha,
               sols  |-> {x \cup new : x \in node.table[k].sols},
               val   |-> Mult(node.table[k].val, Elem(alpha), Elem(alpha \ {v}))]
         seen == node.seen \cup {v}
     IN node' = [bag |-> node.bag \cup {v}, seen |-> seen,
                 table |-> Table({Result(k, new) : k \in DOMAIN node.table, new \in {{}, {v}}},
                                 seen)]
  /\ UNCHANGED <<accepted, left, answer>>

(***************************************************************************)
(* A forget keeps the value; entries that differed in the vertex meet.     *)
(***************************************************************************)
DoForget(v) ==
  /\ answer = NULL
  /\ v \in node.bag
  /\ LET Result(k) == [alpha |-> k[1] \ {v}, sols |-> node.table[k].sols,
                       val |-> node.table[k].val]
     IN node' = [bag |-> node.bag \ {v}, seen |-> node.seen,
                 table |-> Table({Result(k) : k \in DOMAIN node.table}, node.seen)]
  /\ UNCHANGED <<accepted, left, answer>>

DoLeaf ==
  /\ answer = NULL
  /\ left = NULL
  /\ node.seen # {}
  /\ left' = node
  /\ node' = LeafNode
  /\ UNCHANGED <<accepted, answer>>

(***************************************************************************)
(* save_value of a join: both values contain the members in the bag.       *)
(***************************************************************************)
DoJoin ==
  /\ left # NULL
  /\ left.bag = node.bag
  /\ left.seen \cap node.seen = node.bag
  /\ LET Result(l, r) ==
           [alpha |-> l[1],
            sols  |-> {x \cup y : x \in left.table[l].sols, y \in node.table[r].sols},
            val   |-> Mult(left.table[l].val, node.table[r].val, Elem(l[1]))]
         Pairs == {p \in (DOMAIN left.table) \X (DOMAIN node.table) : p[1][1] = p[2][1]}
         seen  == left.seen \cup node.seen
     IN node' = [bag |-> node.bag, seen |-> seen,
                 table |-> Table({Result(p[1], p[2]) : p \in Pairs}, seen)]
  /\ left' = NULL
  /\ UNCHANGED <<accepted, answer>>

(***************************************************************************)
(* ApplyGameRoot: the values of the games the verifier wins are added up.  *)
(***************************************************************************)
DoRoot ==
  /\ answer = NULL
  /\ left = NULL /\ node.bag = {} /\ node.seen = Vertices
  /\ LET won == {node.table[k] : k \in DOMAIN node.table}
     IN answer' = [has_solution |-> won # {},
                   solution     |-> IF won = {} THEN NULL ELSE SumOf(won).val]
  /\ UNCHANGED <<accepted, node, left>>

EvalNext ==
  \/ \E v \in Vertices : DoIntroduce(v) \/ DoForget(v)
  \/ DoLeaf
  \/ DoJoin
  \/ DoRoot

EvalSpec == EvalInit /\ [][EvalNext]_evalVars

-----------------------------------------------------------------------------
(***************************************************************************)
(* What the values are to be: functions of the set of solutions.           *)
(***************************************************************************)
IsLeast(n, sols) == (\A x \in sols : n <= Cardinality(x)) /\ \E x \in sols : n = Cardinality(x)
IsMost(n, sols)  == (\A x \in sols : n >= Cardinality(x)) /\ \E x \in sols : n = Cardinality(x)

(***************************************************************************)
(* CountingEvaluation: the number of the solutions, as far as an unsigned  *)
(* long holds it - no solution is added twice or multiplied with itself -, *)
(* and at the root that of all there are, told apart from there being none *)
(* by has_solution: a number that has wrapped around may be NULL.          *)
(* CardCountingEvaluation: the number of those of every size; none is      *)
(* larger than the vector.                                                 *)
(***************************************************************************)
CountsSolutions ==
  /\ \A k \in DOMAIN node.table :
       LET e == node.table[k]
           OfSize(n) == {x \in e.sols : Cardinality(x) = n}
       IN /\ e.val.count = Modulo(Cardinality(e.sols))
          /\ \A n \in DOMAIN e.val.sizes : e.val.sizes[n] = Modulo(Cardinality(OfSize(n)))
          /\ \A x \in e.sols : Cardinality(x) \in DOMAIN e.val.sizes
  /\ answer # NULL =>
       IF answer.has_solution
       THEN answer.solution.count = Modulo(Cardinality(accepted)) /\ accepted # {}
       ELSE accepted = {}

(***************************************************************************)
(* MinMaxCardEvaluation: the least and the largest size of a solution.     *)
(***************************************************************************)
ExtremalSizes ==
  \A k \in DOMAIN node.table :
    LET e == node.table[k] IN IsLeast(e.val.least, e.sols) /\ IsMost(e.val.most, e.sols)

(***************************************************************************)
(* MinMaxCardSetEvaluation and WitnessEvaluation: the parts that a value   *)
(* is composed of, chosen each on their own at different nodes, are one    *)
(* solution together, of the size that is stored beside it.                *)
(***************************************************************************)
ComposedIsSolution ==
  \A k \in DOMAIN node.table :
    LET e == node.table[k]
        Composed(c) == c.set \in e.sols /\ c.size = Cardinality(c.set)
    IN /\ e.val.witness \in e.sols
       /\ Composed(e.val.smallest) /\ IsLeast(e.val.smallest.size, e.sols)
       /\ Composed(e.val.largest) /\ IsMost(e.val.largest.size, e.sols)

=============================================================================
