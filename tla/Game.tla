-------------------------------- MODULE Game --------------------------------
(***************************************************************************)
(* The model checking games of the solver (game_*.hpp, leaf_game_factory,  *)
(* atomar_game_factory).  The game of a formula on the part of the graph   *)
(* below a node of the tree decomposition is either determined - one of    *)
(* the players wins whatever the rest of the graph is - or it keeps the    *)
(* subgames that are not yet lost for the player whose turn it is.  A      *)
(* variable for a vertex may be left open: its move is NULL, the vertex    *)
(* is one of the rest of the graph.                                        *)
(*                                                                         *)
(* subgames is the set of pairs of an index - the subformula of a          *)
(* Boolean combination, the move of a quantifier - and a game.             *)
(***************************************************************************)
EXTENDS Formula, Moves

Determined(player) == [outcome |-> player]
Undetermined(f, subgames) ==
  [outcome |-> "undetermined", formula |-> f, subgames |-> subgames]

IsDetermined(g) == g.outcome # "undetermined"

Opponent(player) == IF player = "verifier" THEN "falsifier" ELSE "verifier"
PlayerOf(f) == IF f.op \in {"ex", "exset", "or"} THEN "verifier" ELSE "falsifier"

(***************************************************************************)
(* add_subgame for every subgame and then minimize: a subgame that the     *)
(* player wins wins the game, if it is one of deciding; those that the     *)
(* player loses are left out; with none left the game is lost.             *)
(***************************************************************************)
Minimized(f, subgames, deciding) ==
  LET player == PlayerOf(f)
      kept   == {s \in subgames : s[2].outcome # Opponent(player)}
  IN CASE \E s \in deciding : s[2].outcome = player -> Determined(player)
       [] kept = {} -> Determined(Opponent(player))
       [] OTHER -> Undetermined(f, kept)

MinimizeBoolComb(f, subgames) == Minimized(f, subgames, subgames)

(* Mutant: a NULL move may win the game *)
MinimizeQWithNull(f, subgames) == Minimized(f, subgames, subgames)

(***************************************************************************)
(* The NULL move does not win the game: whether there is a vertex left to  *)
(* take is not known yet, so that subgame is kept.                         *)
(***************************************************************************)
MinimizeQ(f, subgames) == Minimized(f, subgames, {s \in subgames : s[1] # NULL})

-----------------------------------------------------------------------------
(***************************************************************************)
(* The outcome of an atom under the assignment alpha of moves to symbols.  *)
(* A vertex and a set are compared by the move that was made later; a      *)
(* vertex that is no terminal has no edge to a vertex still to come,       *)
(* because the bag separates them.                                         *)
(***************************************************************************)
MemberOutcome(pmove, smove) ==
  IF pmove = NULL THEN "undetermined"
  ELSE IF IF pmove.depth > smove.depth THEN TestLabel(pmove, smove.depth)
                                       ELSE pmove.depth \in smove.members
       THEN "verifier" ELSE "falsifier"

AdjOutcome(xmove, ymove) ==
  LET set == {xmove, ymove} \ {NULL}
  IN IF NULL \notin {xmove, ymove}
     THEN IF IF xmove.depth > ymove.depth THEN TestEdge(xmove, ymove.depth)
                                          ELSE TestEdge(ymove, xmove.depth)
          THEN "verifier" ELSE "falsifier"
     ELSE IF \E m \in set : ~IsTerminal(m) THEN "falsifier"
     ELSE "undetermined"

(* Mutant: a vertex still to come may be the other one *)
EqualsOutcomeLate(xmove, ymove) ==
  IF xmove # NULL /\ xmove = ymove THEN "verifier" ELSE "undetermined"

EqualsOutcome(xmove, ymove) ==
  IF xmove # NULL /\ xmove = ymove THEN "verifier"
  ELSE IF (xmove = NULL) # (ymove = NULL) THEN "falsifier"
  ELSE "undetermined"

RECURSIVE AtomarOutcome(_, _)
AtomarOutcome(f, alpha) ==
  CASE f.op = "member" -> MemberOutcome(alpha[f.x], alpha[f.set])
    [] f.op = "adj"    -> AdjOutcome(alpha[f.x], alpha[f.y])
    [] f.op = "equals" -> EqualsOutcome(alpha[f.x], alpha[f.y])
    [] f.op = "not"    -> LET sub == AtomarOutcome(f.sub, alpha)
                          IN IF sub = "undetermined" THEN sub ELSE Opponent(sub)

AtomarGame(f, alpha) ==
  LET outcome == AtomarOutcome(f, alpha)
  IN IF outcome = "undetermined" THEN Undetermined(f, {}) ELSE Determined(outcome)

Assign(alpha, s, move) == (s :> move) @@ alpha

-----------------------------------------------------------------------------
(***************************************************************************)
(* The game on a leaf of the decomposition, whose bag is empty.            *)
(***************************************************************************)
LeafIndex(f) == IF SetQ(f) THEN SetMove(f.var, {}) ELSE NULL

RECURSIVE LeafGame(_, _)
LeafGameOf(f, alpha) ==
  IF BoolComb(f)
  THEN MinimizeBoolComb(f, {<<s, LeafGame(s, alpha)>> : s \in f.subs})
  ELSE MinimizeQ(f, {<<LeafIndex(f), LeafGame(f.sub, Assign(alpha, f.var, LeafIndex(f)))>>})

LeafGame(f, alpha) == IF Atomar(f) THEN AtomarGame(f, alpha) ELSE LeafGameOf(f, alpha)

(***************************************************************************)
(* The terminal t is introduced.  A set move is continued twice, without   *)
(* and with the new vertex, and a NULL move is repeated as the move onto   *)
(* it.  A move onto another terminal is looked up again: alpha has it      *)
(* under its new number.                                                   *)
(***************************************************************************)
MoveIntroduced(move, t, f, alpha) ==
  IF move = NULL THEN NULL
  ELSE IF move.depth < f.var
  THEN alpha[IF IsTerminal(move) /\ move.depth >= t THEN move.depth + 1 ELSE move.depth]
  ELSE PointIntroduce(move, t)

(* Mutant: a NULL move is not repeated *)
RepeatedMovesNot(move, t, alpha) == {}

RepeatedMoves(move, t, alpha) == IF move = NULL THEN {alpha[t]} ELSE {}

SetMovesIntroduced(move, t) == {SetIntroduce(move, t, setbit) : setbit \in BOOLEAN}

MovesIntroduced(move, t, f, alpha) ==
  IF SetQ(f) THEN SetMovesIntroduced(move, t)
  ELSE {MoveIntroduced(move, t, f, alpha)} \cup RepeatedMoves(move, t, alpha)

RECURSIVE Introduce(_, _, _)
IntroduceBoolComb(g, t, alpha) ==
  MinimizeBoolComb(g.formula, {<<s[1], Introduce(s[2], t, alpha)>> : s \in g.subgames})

IntroduceQ(g, t, alpha) ==
  LET f == g.formula
  IN MinimizeQ(f, UNION {{<<m, Introduce(s[2], t, Assign(alpha, f.var, m))>> :
                            m \in MovesIntroduced(s[1], t, f, alpha)} : s \in g.subgames})

Introduce(g, t, alpha) ==
  IF IsDetermined(g) THEN g
  ELSE CASE Atomar(g.formula)   -> AtomarGame(g.formula, alpha)
         [] BoolComb(g.formula) -> IntroduceBoolComb(g, t, alpha)
         [] OTHER               -> IntroduceQ(g, t, alpha)

(***************************************************************************)
(* The terminal t is forgotten.  replacement is the forgotten vertex as an *)
(* anonymous move; a move onto t becomes that move, under the variable.    *)
(***************************************************************************)
MoveForgotten(move, t, replacement, f, alpha) ==
  IF move = NULL THEN NULL
  ELSE IF move.depth = t
  THEN IF replacement.depth < f.var THEN replacement
       ELSE [replacement EXCEPT !.depth = f.var]
  ELSE IF move.depth < f.var
  THEN alpha[IF IsTerminal(move) /\ move.depth >= t THEN move.depth - 1 ELSE move.depth]
  ELSE PointForget(move, t)

ReplacementBelow(move, t, replacement, f) ==
  IF replacement.depth < f.var THEN replacement
  ELSE IF SetQ(f) THEN RenameIntroduceSet(replacement, f.var, t \in move.members)
  ELSE RenameIntroduce(replacement, f.var,
         move # NULL /\ move.depth = replacement.depth /\ TestEdge(move, t))

ModifiedMove(move, t, replacement, f, alpha) ==
  IF SetQ(f) THEN SetForget(move, t) ELSE MoveForgotten(move, t, replacement, f, alpha)

RECURSIVE Forget(_, _, _, _)
ForgetBoolComb(g, t, replacement, alpha) ==
  MinimizeBoolComb(g.formula,
    {<<s[1], Forget(s[2], t, replacement, alpha)>> : s \in g.subgames})

Continued(s, t, replacement, f, alpha) ==
  LET move == ModifiedMove(s[1], t, replacement, f, alpha)
  IN <<move, Forget(s[2], t, ReplacementBelow(s[1], t, replacement, f),
                    Assign(alpha, f.var, move))>>

ForgetQ(g, t, replacement, alpha) ==
  MinimizeQ(g.formula,
    {Continued(s, t, replacement, g.formula, alpha) : s \in g.subgames})

Forget(g, t, replacement, alpha) ==
  IF IsDetermined(g) THEN g
  ELSE CASE Atomar(g.formula)   -> AtomarGame(g.formula, alpha)
         [] BoolComb(g.formula) -> ForgetBoolComb(g, t, replacement, alpha)
         [] OTHER               -> ForgetQ(g, t, replacement, alpha)

(***************************************************************************)
(* Two games on the same bag are joined.  The same subformula, set move or *)
(* move onto a terminal is required on both sides; a vertex of one side    *)
(* that is no terminal is a NULL move on the other side.                   *)
(***************************************************************************)
Found(g, index) == {s \in g.subgames : s[1] = index}

PairsFor(g, h, Lookup(_)) ==
  UNION {{<<s[1], s[2], o[2]>> : o \in Found(h, Lookup(s[1]))} : s \in g.subgames}

Same(index) == index

Partner(move) == IF move # NULL /\ IsTerminal(move) THEN move ELSE NULL

JoinedMoves(f, left, right) ==
  IF SetQ(f) THEN PairsFor(left, right, Same)
  ELSE PairsFor(left, right, Partner)
         \cup {p \in PairsFor(right, left, Partner) : Partner(p[1]) # p[1]}

RECURSIVE Join(_, _, _)
JoinBoolComb(g, h, alpha) ==
  IF IsDetermined(h) THEN h
  ELSE MinimizeBoolComb(g.formula,
         {<<p[1], Join(p[2], p[3], alpha)>> : p \in PairsFor(g, h, Same)})

JoinQ(g, h, alpha) ==
  IF IsDetermined(h) THEN h
  ELSE LET f == g.formula
       IN MinimizeQ(f, {<<p[1], Join(p[2], p[3], Assign(alpha, f.var, p[1]))>> :
                          p \in JoinedMoves(f, g, h)})

Join(g, h, alpha) ==
  IF IsDetermined(g) THEN g
  ELSE CASE Atomar(g.formula)   -> AtomarGame(g.formula, alpha)
         [] BoolComb(g.formula) -> JoinBoolComb(g, h, alpha)
         [] OTHER               -> JoinQ(g, h, alpha)

(***************************************************************************)
(* Before two games are joined the join cache is asked for the result. It  *)
(* asserts that both are of one formula; a determined game has none.  The  *)
(* order of the pairs, that of hash tables, is left open: a pair that      *)
(* decides the game may come before one that fails the assertion.          *)
(***************************************************************************)
FormulaOf(g) == IF IsDetermined(g) THEN NULL ELSE g.formula

InnerPairs(g, h) ==
  IF IsDetermined(g) \/ IsDetermined(h) \/ Atomar(g.formula) THEN {}
  ELSE IF BoolComb(g.formula) THEN PairsFor(g, h, Same)
  ELSE JoinedMoves(g.formula, g, h)

RECURSIVE JoinAborts(_, _)
JoinAborts(g, h) ==
  \/ FormulaOf(g) # FormulaOf(h)
  \/ \E p \in InnerPairs(g, h) : JoinAborts(p[2], p[3])

RECURSIVE JoinReturns(_, _, _)
JoinReturns(g, h, alpha) ==
  /\ FormulaOf(g) = FormulaOf(h)
  /\ LET f == g.formula
         Below(p) == IF BoolComb(f) THEN alpha ELSE Assign(alpha, f.var, p[1])
         Decides(p) == /\ p[1] # NULL
                       /\ Join(p[2], p[3], Below(p)).outcome = PlayerOf(f)
         Returns(p) == JoinReturns(p[2], p[3], Below(p))
     IN \/ \A p \in InnerPairs(g, h) : Returns(p)
        \/ \E p \in InnerPairs(g, h) : Decides(p) /\ Returns(p)

(***************************************************************************)
(* At the root no vertex is left: the NULL moves are cut.  convert() is    *)
(* not defined for an atom; Unconverted are the atoms it is called for.    *)
(***************************************************************************)
Concrete(g) == {s \in g.subgames : s[1] # NULL}

RECURSIVE Convert(_)
ConvertBoolComb(g) == MinimizeBoolComb(g.formula, {<<s[1], Convert(s[2])>> : s \in g.subgames})
ConvertQ(g) == MinimizeQ(g.formula, {<<s[1], Convert(s[2])>> : s \in Concrete(g)})

Convert(g) ==
  IF IsDetermined(g) \/ Atomar(g.formula) THEN g
  ELSE IF BoolComb(g.formula) THEN ConvertBoolComb(g) ELSE ConvertQ(g)

RECURSIVE Unconverted(_)
Unconverted(g) ==
  IF IsDetermined(g) THEN {}
  ELSE IF Atomar(g.formula) THEN {g.formula}
  ELSE UNION {Unconverted(s[2]) : s \in Concrete(g)}
=============================================================================
