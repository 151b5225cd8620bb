----------------------------- MODULE Normalize -----------------------------
(***************************************************************************)
(* From the tree the grammar builds to the formula the solver plays on     *)
(* (parseformula.cpp).  convert() flattens the calls of functions that     *)
(* were defined before, moves the negations to the atoms and builds the    *)
(* formula over the vocabulary of the solver.  An operator that can not be *)
(* handled throws, on which the program is to report that the formula can  *)
(* not be parsed.                                                          *)
(*                                                                         *)
(* Variables and sets are named by their ids, which the grammar hands out  *)
(* once each.  Meaning is not code: it says what a tree means.             *)
(***************************************************************************)
EXTENDS Formula, ParseTrees, FiniteSets, Sequences

CONSTANTS
  Width,     \* the number of terminal symbols of the vocabulary
  Inputs     \* [args, label, body]: the last function, its arguments and
             \* which of its sets has the name of a label of the graph

VARIABLES
  input,
  tree,      \* the syntax tree of the body
  formula,   \* the result
  outcome    \* parsed, flat, normal; converted, refused or crash

vars == <<input, tree, formula, outcome>>

-----------------------------------------------------------------------------
(***************************************************************************)
(* insert_arguments() into the body of a called function: all arguments at *)
(* once.  In a call inside the body only the arguments passed are          *)
(* replaced, not those of the function called.                             *)
(***************************************************************************)
Replaced(m, id) == IF id \in DOMAIN m THEN m[id] ELSE id

RECURSIVE InsertArguments(_, _)
InsertArguments(f, m) ==
  CASE f.op \in {"in", "notin"} ->
         [f EXCEPT !.x = Replaced(m, @), !.set = Replaced(m, @)]
    [] f.op \in {"eq", "neq", "adj"} ->
         [f EXCEPT !.x = Replaced(m, @), !.y = Replaced(m, @)]
    [] f.op \in PBinary ->
         [f EXCEPT !.left = InsertArguments(@, m), !.right = InsertArguments(@, m)]
    [] f.op \in PQuantifier ->
         [f EXCEPT !.var = Replaced(m, @), !.sub = InsertArguments(@, m)]
    [] f.op = "neg" -> [f EXCEPT !.sub = InsertArguments(@, m)]
    [] f.op = "call" ->
         [f EXCEPT !.passed = [i \in DOMAIN @ |-> Replaced(m, @[i])]]

Arguments(f) ==
  [id \in {f.formal[i] : i \in DOMAIN f.formal} |->
     f.passed[CHOOSE i \in DOMAIN f.formal : f.formal[i] = id]]

RECURSIVE Flatten(_)
Flatten(f) ==
  CASE f.op \in PAtoms -> f
    [] f.op \in PBinary -> [f EXCEPT !.left = Flatten(@), !.right = Flatten(@)]
    [] f.op \in PQuantifier \cup {"neg"} -> [f EXCEPT !.sub = Flatten(@)]
    [] f.op = "call" -> Flatten(InsertArguments(f.sub, Arguments(f)))

(***************************************************************************)
(* negate_pformula(): a formula that is true where f is not.  It gives     *)
(* back the formula below a negation as it is, with the negations that     *)
(* formula holds.                                                          *)
(***************************************************************************)
(* Mutant of Negate: a quantifier keeps its kind. *)
RECURSIVE NegateBelow(_)
NegateBelow(f) ==
  CASE f.op = "neg" -> f.sub
    [] f.op \in {"and", "or"} ->
         PBin(Dual[f.op], NegateBelow(f.left), NegateBelow(f.right))
    [] f.op \in {"implies", "equiv"} -> Thrown
    [] f.op \in PQuantifier -> PQuant(f.op, f.var, NegateBelow(f.sub))
    [] f.op = "notin" -> [f EXCEPT !.op = "in"]
    [] OTHER -> PNeg(f)

RECURSIVE Negate(_)
Negate(f) ==
  CASE f.op = "neg" -> f.sub
    [] f.op \in {"and", "or"} -> PBin(Dual[f.op], Negate(f.left), Negate(f.right))
    [] f.op \in {"implies", "equiv"} -> Thrown
    [] f.op \in PQuantifier -> PQuant(Dual[f.op], f.var, Negate(f.sub))
    [] f.op = "notin" -> [f EXCEPT !.op = "in"]
    [] OTHER -> PNeg(f)

IsAtomar(f) ==
  \/ f.op \in PAtoms
  \/ f.op = "neg" /\ f.sub.op \in PAtoms

(***************************************************************************)
(* only_atomar_negations_(): an inequality becomes a negated equation only *)
(* where this function meets it itself, not below a negation.              *)
(***************************************************************************)
(* Mutant of OnlyAtomarNegations: what a quantifier binds is not visited. *)
RECURSIVE OnlyAtomarNegationsAbove(_)
OnlyAtomarNegationsAbove(f) ==
  CASE f.op = "neg" ->
         LET negated == Negate(f.sub)
         IN IF negated = Thrown \/ IsAtomar(negated) THEN negated
            ELSE OnlyAtomarNegationsAbove(negated)
    [] f.op \in PBinary ->
         PBin(f.op, OnlyAtomarNegationsAbove(f.left), OnlyAtomarNegationsAbove(f.right))
    [] f.op = "notin" -> PNeg([f EXCEPT !.op = "in"])
    [] f.op = "neq" -> PNeg([f EXCEPT !.op = "eq"])
    [] OTHER -> f

RECURSIVE OnlyAtomarNegations(_)
OnlyAtomarNegations(f) ==
  CASE f.op = "neg" ->
         LET negated == Negate(f.sub)
         IN IF negated = Thrown \/ IsAtomar(negated) THEN negated
            ELSE OnlyAtomarNegations(negated)
    [] f.op \in PBinary ->
         PBin(f.op, OnlyAtomarNegations(f.left), OnlyAtomarNegations(f.right))
    [] f.op \in PQuantifier -> PQuant(f.op, f.var, OnlyAtomarNegations(f.sub))
    [] f.op = "notin" -> PNeg([f EXCEPT !.op = "in"])
    [] f.op = "neq" -> PNeg([f EXCEPT !.op = "eq"])
    [] OTHER -> f

-----------------------------------------------------------------------------
(***************************************************************************)
(* convert(): sym gives the symbols of the variables and sets in scope,    *)
(* depth is the size of the vocabulary.  The parts of a conjunction inside *)
(* a conjunction become its own (merge_logical_operator).                  *)
(***************************************************************************)
Quantified(op, depth, f) ==
  CASE op = "exv"  -> Exist(depth, f)
    [] op = "allv" -> Univ(depth, f)
    [] op = "exs"  -> ExistSet(depth, f)
    [] op = "alls" -> UnivSet(depth, f)

Parts(op, f) == IF f.op = op THEN f.subs ELSE {f}

RECURSIVE Convert(_, _, _)
Convert(f, sym, depth) ==
  LET Below == Convert(f.sub, (f.var :> depth) @@ sym, depth + 1)
      Left  == Convert(f.left, sym, depth)
      Right == Convert(f.right, sym, depth)
  IN CASE f.op = "in"    -> Member(sym[f.x], sym[f.set])
       [] f.op = "notin" -> Negated(Member(sym[f.x], sym[f.set]))
       [] f.op = "adj"   -> Adj(sym[f.x], sym[f.y])
       [] f.op = "eq"    -> Equals(sym[f.x], sym[f.y])
       [] f.op = "neg"   -> LET g == Convert(f.sub, sym, depth)
                            IN IF g = Thrown THEN Thrown ELSE Negated(g)
       [] f.op \in PQuantifier ->
            IF Below = Thrown THEN Thrown
            ELSE Quantified(f.op, depth, Below)
       [] f.op \in {"and", "or"} ->
            IF Thrown \in {Left, Right} THEN Thrown
            ELSE LET subs == Parts(f.op, Left) \cup Parts(f.op, Right)
                 IN IF f.op = "and" THEN Conj(subs) ELSE Disj(subs)
       [] f.op \in {"neq", "implies", "equiv"} -> Thrown

(***************************************************************************)
(* The free symbols: an argument that has the name of a label is that      *)
(* label, any other extends the vocabulary.                                *)
(***************************************************************************)
FreeDepth(args, i) == Width + Cardinality({j \in 1 .. i - 1 : args[j] \notin DOMAIN input.label})

FreeSymbols(args) ==
  [id \in {args[i] : i \in DOMAIN args} |->
     IF id \in DOMAIN input.label THEN input.label[id]
     ELSE FreeDepth(args, CHOOSE i \in DOMAIN args : args[i] = id)]

Init ==
  /\ input \in Inputs
  /\ tree = input.body
  /\ formula = Thrown
  /\ outcome = "parsed"

DoFlatten ==
  /\ outcome = "parsed"
  /\ tree' = Flatten(tree)
  /\ outcome' = "flat"
  /\ UNCHANGED <<input, formula>>

(***************************************************************************)
(* What is thrown here is caught in only_atomar_negations(), which returns *)
(* NULL: convert() then reads the type of a tree that is not there.        *)
(***************************************************************************)
DoOnlyAtomarNegations ==
  /\ outcome = "flat"
  /\ tree' = OnlyAtomarNegations(tree)
  /\ outcome' = IF tree' = Thrown THEN "crash" ELSE "normal"
  /\ UNCHANGED <<input, formula>>

DoConvert ==
  /\ outcome = "normal"
  /\ formula' = Convert(tree, FreeSymbols(input.args), FreeDepth(input.args, Len(input.args) + 1))
  /\ outcome' = IF formula' = Thrown THEN "refused" ELSE "converted"
  /\ UNCHANGED <<input, tree>>

Next == DoFlatten \/ DoOnlyAtomarNegations \/ DoConvert

Spec == Init /\ [][Next]_vars

-----------------------------------------------------------------------------
RECURSIVE Meaning(_, _, _)
Meaning(f, G, val) ==
  CASE f.op = "in"      -> val[f.x] \in val[f.set]
    [] f.op = "notin"   -> val[f.x] \notin val[f.set]
    [] f.op = "eq"      -> val[f.x] = val[f.y]
    [] f.op = "neq"     -> val[f.x] # val[f.y]
    [] f.op = "adj"     -> {val[f.x], val[f.y]} \in G.edges
    [] f.op = "and"     -> Meaning(f.left, G, val) /\ Meaning(f.right, G, val)
    [] f.op = "or"      -> Meaning(f.left, G, val) \/ Meaning(f.right, G, val)
    [] f.op = "implies" -> Meaning(f.left, G, val) => Meaning(f.right, G, val)
    [] f.op = "equiv"   -> Meaning(f.left, G, val) <=> Meaning(f.right, G, val)
    [] f.op = "neg"     -> ~Meaning(f.sub, G, val)
    [] f.op = "exv"     -> \E v \in G.vertices : Meaning(f.sub, G, (f.var :> v) @@ val)
    [] f.op = "allv"    -> \A v \in G.vertices : Meaning(f.sub, G, (f.var :> v) @@ val)
    [] f.op = "exs"     -> \E S \in SUBSET G.vertices : Meaning(f.sub, G, (f.var :> S) @@ val)
    [] f.op = "alls"    -> \A S \in SUBSET G.vertices : Meaning(f.sub, G, (f.var :> S) @@ val)
    [] f.op = "call"    -> Meaning(f.sub, G, [id \in DOMAIN Arguments(f) |-> val[Arguments(f)[id]]])

(***************************************************************************)
(* What is refused, or ends the program, has an implication, an            *)
(* equivalence or, below a negation, an inequality.                        *)
(***************************************************************************)
RECURSIVE Plain(_, _)
Plain(f, belowNegation) ==
  CASE f.op \in {"implies", "equiv"} -> FALSE
    [] f.op = "neq" -> ~belowNegation
    [] f.op \in {"and", "or"} -> Plain(f.left, belowNegation) /\ Plain(f.right, belowNegation)
    [] f.op = "neg" -> Plain(f.sub, TRUE)
    [] f.op \in PQuantifier \cup {"call"} -> Plain(f.sub, belowNegation)
    [] OTHER -> TRUE

(***************************************************************************)
(* The games are built for formulas whose negations are in front of atoms, *)
(* and a Boolean combination has none of its own kind as a part.  A        *)
(* negated "notin" may keep two negations: the atomar games evaluate both. *)
(***************************************************************************)
RECURSIVE NormalForm(_)
NormalForm(f) ==
  CASE f.op = "not" -> \/ f.sub.op \in {"member", "adj", "equals"}
                       \/ f.sub.op = "not" /\ NormalForm(f.sub)
    [] BoolComb(f) -> \A g \in f.subs : g.op # f.op /\ NormalForm(g)
    [] SetQ(f) \/ ObjQ(f) -> NormalForm(f.sub)
    [] OTHER -> TRUE

(* On G, the formula to be solved holds for the same sets as the tree f.   *)
SameMeaning(f, G) ==
  \A free \in [{input.args[i] : i \in DOMAIN input.args} -> SUBSET G.vertices] :
    LET symbols == FreeSymbols(input.args)
        val == [s \in -1 .. Width + 8 |->
                  IF \E id \in DOMAIN free : symbols[id] = s
                  THEN free[CHOOSE id \in DOMAIN free : symbols[id] = s] ELSE {}]
    IN Meaning(f, G, free) <=> Holds(formula, G, val)
=============================================================================
