----------------------------- MODULE ParseTrees -----------------------------
(***************************************************************************)
(* The trees that the grammar builds (parse_formula_structure.h), before   *)
(* they are converted to formulas.  Thrown stands for a tree whose         *)
(* conversion has thrown an exception.                                     *)
(***************************************************************************)
EXTENDS TLC

Thrown == [op |-> "thrown"]

PAtoms      == {"in", "notin", "eq", "neq", "adj"}
PBinary     == {"and", "or", "implies", "equiv"}
PQuantifier == {"exv", "allv", "exs", "alls"}
Dual == ("and" :> "or") @@ ("or" :> "and") @@ ("exv" :> "allv") @@ ("allv" :> "exv")
          @@ ("exs" :> "alls") @@ ("alls" :> "exs")

PSetAtom(op, x, set)   == [op |-> op, x |-> x, set |-> set]
PVarAtom(op, x, y)     == [op |-> op, x |-> x, y |-> y]
PNeg(f)                == [op |-> "neg", sub |-> f]
PBin(op, f, g)         == IF Thrown \in {f, g} THEN Thrown ELSE [op |-> op, left |-> f, right |-> g]
PQuant(op, x, f)       == IF f = Thrown THEN Thrown ELSE [op |-> op, var |-> x, sub |-> f]
PCall(formal, passed, f) == [op |-> "call", formal |-> formal, passed |-> passed, sub |-> f]
=============================================================================
