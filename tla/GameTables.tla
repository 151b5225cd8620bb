----------------------------- MODULE GameTables -----------------------------
(***************************************************************************)
(* The dynamic programming of SequoiaSolver over a nice tree decomposition *)
(* with its assignments and values: do_leaf, do_introduce, do_forget,      *)
(* do_join and do_root.  A game is whatever the operations make of it: the *)
(* solver asks for its outcome and uses it as a key, nothing else (module  *)
(* GameSolve has the games themselves).                                    *)
(*                                                                         *)
(* Every decomposition of the graph is walked in which one child of a join *)
(* has no join below it: node is the subtree that is being built, left one *)
(* that waits for the other child of its join.  A node is the record of    *)
(* its bag, the vertices seen below it (no part of the solver keeps them,  *)
(* they say which subtrees fit together), its terminal moves alpha and its *)
(* table.  The table gives the value of every assignment of the free set   *)
(* variables together with a game.                                         *)
(*                                                                         *)
(* The values are those of the most precise evaluation there is: the set   *)
(* of all solutions so far, whose product joins the sets of two solutions  *)
(* and whose sum is the union.  The evaluations of the library, number and *)
(* extremal size of the solutions, are images of it.                       *)
(***************************************************************************)
EXTENDS Moves, FiniteSets, TLC

CONSTANTS
  PlayLeaf(_, _),           \* the game of a formula on a leaf
  PlayIntroduce(_, _, _),   \* a game after the terminal t was introduced
  PlayForget(_, _, _, _),   \* a game after it was forgotten
  PlayJoin(_, _, _),        \* two games joined
  PlayConvert(_),           \* what is left of a game at the root
  JoinPasses(_, _, _),      \* two games can be joined without a failed
  JoinFails(_, _),          \* assertion, and with one
  HighEnough(_),            \* a game is worth caching
  ABORTED,
  Vertices,   \* the vertices 1 .. n
  Problems,   \* what is solved: [formula, labels, free, asserts], labels and
              \* free the numbers of labels of the graph and of free set
              \* variables, asserts whether the build has the assertions
  Cached      \* the results of an introduce are cached

VARIABLES
  problem,   \* the one of Problems that is solved
  graph,     \* the input: [vertices, edges, labels]
  node,      \* the subtree being built
  left,      \* the left child of the join to come, or NULL
  solution   \* the value at the root, NULL before do_root, ABORTED if an
             \* assertion has ended the program

vars == <<problem, graph, node, left, solution>>
input == <<problem, graph>>

FreeVars  == Width .. Width + problem.free - 1
LabelSyms == (-problem.labels) .. (-1)
Terminals == 0 .. Width - 1

ASSUME GameTablesAssumption ==
  /\ Vertices \subseteq Nat /\ IsFiniteSet(Vertices)
  /\ \A p \in Problems : p.labels \in Nat /\ p.free \in Nat
  /\ NULL \notin [depth : Int, edges : SUBSET Int, labels : SUBSET Int]

(***************************************************************************)
(* A bag is sorted: the terminal t_i is its i-th vertex.                   *)
(***************************************************************************)
Position(v, bag) == Cardinality({u \in bag : u < v})
At(bag, i) == CHOOSE v \in bag : Position(v, bag) = i
Adjacent(u, v) == {u, v} \in graph.edges
LabelsOf(v) == {l \in LabelSyms : v \in graph.labels[l]}

(***************************************************************************)
(* The evaluation and update_value for a number of results.                *)
(***************************************************************************)
(* Mutant: the members in the bag are left out *)
ElemOfNothing(bag, free) == {[U \in FreeVars |-> {}]}

Elem(bag, free) ==
  {[U \in FreeVars |-> {v \in bag : Position(v, bag) \in free[U].members}]}
Mult(e1, e2) == {[U \in FreeVars |-> x[U] \cup y[U]] : x \in e1, y \in e2}

(* A game that the falsifier has won is refused, whatever the step.        *)
Kept(results) == {r \in results : r.game.outcome # "falsifier"}

Table(results) ==
  [k \in {<<r.free, r.game>> : r \in Kept(results)} |->
     UNION {r.value : r \in {x \in results : x.free = k[1] /\ x.game = k[2]}}]

-----------------------------------------------------------------------------
LeafNode ==
  LET alpha == [s \in LabelSyms \cup Terminals |->
                  IF s \in LabelSyms THEN SetMove(s, {}) ELSE NULL]
      free  == [U \in FreeVars |-> SetMove(U, {})]
  IN [bag |-> {}, seen |-> {}, alpha |-> alpha,
      table |-> Table({[free |-> free, game |-> PlayLeaf(problem.formula, free @@ alpha),
                        value |-> Elem({}, free)]})]

Init ==
  /\ problem \in Problems
  /\ graph \in [vertices : {Vertices},
                edges    : SUBSET {e \in SUBSET Vertices : Cardinality(e) = 2},
                labels   : [LabelSyms -> SUBSET Vertices]]
  /\ node = LeafNode
  /\ left = NULL
  /\ solution = NULL

(***************************************************************************)
(* The new alpha: the terminal moves behind the new one are renamed.       *)
(***************************************************************************)
AlphaIntroduced(v, bag, t) ==
  [s \in DOMAIN node.alpha |->
     IF s < t THEN node.alpha[s]
     ELSE IF s = t
     THEN PointMove(t, {i \in 0 .. t - 1 : Adjacent(v, At(bag, i))}, LabelsOf(v))
     ELSE IF node.alpha[s - 1] = NULL THEN NULL
     ELSE RenameIntroduce(node.alpha[s - 1], t, Adjacent(v, At(bag, s)))]

(***************************************************************************)
(* The results of an old game: one for every choice of the sets that the   *)
(* new vertex is a member of.  With the cache, a game that several         *)
(* assignments have in common is played for the first of them only.        *)
(***************************************************************************)
FreeIntroduced(free, t, sets) ==
  [U \in FreeVars |-> SetIntroduce(free[U], t, U \in sets)]

Results(free, game, t, alpha) ==
  {[free |-> FreeIntroduced(free, t, sets),
    game |-> PlayIntroduce(game, t, FreeIntroduced(free, t, sets) @@ alpha)] :
      sets \in SUBSET FreeVars}

CachedGames == {g \in {k[2] : k \in DOMAIN node.table} : Cached /\ HighEnough(g)}

(* Every entry saved for the entry k, whose results are those of from.     *)
Introduced(k, from, t, bag, alpha) ==
  {[free |-> r.free, game |-> r.game, value |-> Mult(node.table[k], Elem(bag, r.free))] :
     r \in Results(from, k[2], t, alpha)}

DoIntroduce(v) ==
  /\ solution = NULL
  /\ v \notin node.seen
  /\ Cardinality(node.bag) < Width
  /\ \E first \in [CachedGames -> {k[1] : k \in DOMAIN node.table}] :
       /\ \A g \in CachedGames : <<first[g], g>> \in DOMAIN node.table
       /\ LET bag   == node.bag \cup {v}
              t     == Position(v, bag)
              alpha == AlphaIntroduced(v, bag, t)
              From(k) == IF k[2] \in CachedGames THEN first[k[2]] ELSE k[1]
              saved == UNION {Introduced(k, From(k), t, bag, alpha) : k \in DOMAIN node.table}
          IN node' = [bag |-> bag, seen |-> node.seen \cup {v}, alpha |-> alpha,
                      table |-> Table(saved)]
  /\ UNCHANGED <<input, left, solution>>

(***************************************************************************)
(* A vertex is forgotten when all its edges have been seen.                *)
(***************************************************************************)
AlphaForgotten(t) ==
  [s \in DOMAIN node.alpha |->
     IF s < t THEN node.alpha[s]
     ELSE IF s = Width - 1 \/ node.alpha[s + 1] = NULL THEN NULL
     ELSE RenameForget(node.alpha[s + 1], t)]

Replacement(v, t, free) ==
  PointMove(Width + problem.free,
            {i \in 0 .. t - 1 : TestEdge(node.alpha[i], i)}
              \cup {i - 1 : i \in {j \in t + 1 .. Cardinality(node.bag) - 1 :
                                     TestEdge(node.alpha[j], j)}},
            LabelsOf(v) \cup {U \in FreeVars : t \in free[U].members})

Forgotten(k, v, t, alpha) ==
  LET free == [U \in FreeVars |-> SetForget(k[1][U], t)]
  IN [free |-> free, value |-> node.table[k],
      game |-> PlayForget(k[2], t, Replacement(v, t, k[1]), free @@ alpha)]

DoForget(v) ==
  /\ solution = NULL
  /\ v \in node.bag
  /\ \A u \in Vertices : Adjacent(u, v) => u \in node.seen
  /\ LET t     == Position(v, node.bag)
         alpha == AlphaForgotten(t)
     IN node' = [bag |-> node.bag \ {v}, seen |-> node.seen, alpha |-> alpha,
                 table |-> Table({Forgotten(k, v, t, alpha) : k \in DOMAIN node.table})]
  /\ UNCHANGED <<input, left, solution>>

(***************************************************************************)
(* The other child of a join is begun at a leaf of its own, and the two    *)
(* are joined on the same bag.                                             *)
(***************************************************************************)
DoLeaf ==
  /\ solution = NULL
  /\ left = NULL
  /\ node.seen # {}
  /\ left' = node
  /\ node' = LeafNode
  /\ UNCHANGED <<input, solution>>

SameSets ==
  {p \in (DOMAIN left.table) \X (DOMAIN node.table) : p[1][1] = p[2][1]}

Joined(l, r) ==
  [free |-> l[1], game |-> PlayJoin(l[2], r[2], l[1] @@ left.alpha),
   value |-> Mult(left.table[l], node.table[r])]

Joinable ==
  /\ solution = NULL
  /\ left # NULL
  /\ left.bag = node.bag
  /\ left.seen \cap node.seen = node.bag

DoJoin ==
  /\ Joinable
  /\ problem.asserts =>
       \A p \in SameSets : JoinPasses(p[1][2], p[2][2], p[1][1] @@ left.alpha)
  /\ node' = [bag |-> node.bag, seen |-> left.seen \cup node.seen, alpha |-> left.alpha,
              table |-> Table({Joined(p[1], p[2]) : p \in SameSets})]
  /\ left' = NULL
  /\ UNCHANGED <<input, solution>>

(* The assertion of the join cache, cache_join_lookup(), fails.            *)
AbortJoin ==
  /\ Joinable
  /\ problem.asserts
  /\ \E p \in SameSets : JoinFails(p[1][2], p[2][2])
  /\ solution' = ABORTED
  /\ UNCHANGED <<input, node, left>>

(***************************************************************************)
(* The root: a game that the verifier wins contributes its value.          *)
(***************************************************************************)
AtRoot == left = NULL /\ node.bag = {} /\ node.seen = Vertices

Won == {k \in DOMAIN node.table : PlayConvert(k[2]).outcome # "falsifier"}

DoRoot ==
  /\ solution = NULL
  /\ AtRoot
  /\ solution' = UNION {node.table[k] : k \in Won}
  /\ UNCHANGED <<input, node, left>>

Next ==
  \/ \E v \in Vertices : DoIntroduce(v) \/ DoForget(v)
  \/ DoLeaf
  \/ DoJoin
  \/ AbortJoin
  \/ DoRoot

Spec == Init /\ [][Next]_vars

-----------------------------------------------------------------------------
(***************************************************************************)
(* However the vertices of the bag were renumbered on the way, the         *)
(* terminal moves say which of them are adjacent and how they are labelled *)
(* (update_pointmove_impl, rename_introduce, rename_forget).               *)
(***************************************************************************)
AlphaIsTheBag ==
  \A i \in Terminals :
    node.alpha[i] =
      IF i < Cardinality(node.bag)
      THEN PointMove(i, {j \in 0 .. i - 1 : Adjacent(At(node.bag, j), At(node.bag, i))},
                     LabelsOf(At(node.bag, i)))
      ELSE NULL

(***************************************************************************)
(* The solutions of an entry are those its assignment speaks of: they      *)
(* agree with it on the bag.  mult() relies on it, whose third argument is *)
(* computed from the assignment.                                           *)
(***************************************************************************)
ValuesMatchAssignment ==
  \A k \in DOMAIN node.table : \A x \in node.table[k] : \A U \in FreeVars :
    /\ x[U] \subseteq node.seen
    /\ {Position(v, node.bag) : v \in x[U] \cap node.bag} = k[1][U].members

(***************************************************************************)
(* No solution is in two entries: a sum over the entries, as the counting  *)
(* evaluation computes it, counts it once.                                 *)
(***************************************************************************)
EntriesDisjoint ==
  \A k1, k2 \in DOMAIN node.table :
    k1 # k2 => node.table[k1] \cap node.table[k2] = {}
=============================================================================
