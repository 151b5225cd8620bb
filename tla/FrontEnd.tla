------------------------------ MODULE FrontEnd ------------------------------
(***************************************************************************)
(* parse_string() and parse_file(): the parser reads a text, and when it   *)
(* has accepted it convert() makes the formula of the last function.       *)
(*                                                                         *)
(* The actions of the grammar do two things: they keep the tables of names *)
(* (ParserScopes, for any input) and build trees (Reader, for the texts    *)
(* given, in which a name stands for one variable).  A behaviour follows   *)
(* the one or the other.  Normalize is the conversion of a tree.  Parser,  *)
(* scanner and tables stay for the next text.                              *)
(***************************************************************************)
EXTENDS ParserScopes, Reader

CONSTANTS
  LaterTexts,           \* the Texts that are read after another text
  Width, Graphs

ASSUME LaterAssumption == LaterTexts \subseteq Texts

VARIABLES
  follows,      \* names, trees
  input, tree, formula,
  converting    \* none, and what has become of the conversion

N == INSTANCE Normalize WITH outcome <- converting, Inputs <- {}

treeVars  == <<input, tree, formula, converting>>
frontVars == <<vars, allReaderVars, treeVars, follows>>

Nothing == [op |-> "none"]

FrontInit ==
  /\ follows \in {"names", "trees"}
  /\ Init
  /\ ReaderInit
  /\ input = Nothing /\ tree = Nothing /\ formula = Nothing /\ converting = "none"

KeepTables ==
  /\ follows = "names"
  /\ Next
  /\ UNCHANGED <<allReaderVars, treeVars, follows>>

(* A text is read when the one before it has been given up or converted.   *)
Parsing ==
  /\ follows = "trees" /\ reading # "reading"
  /\ reading = "accepted" => converting \in {"converted", "refused"}
  /\ reading # "idle" => parses < MaxParses
  /\ parses' = IF reading = "idle" THEN parses ELSE parses + 1
  /\ \E t \in IF reading = "idle" THEN Texts ELSE LaterTexts :
       ParseString(t) \/ ParseFile(t)
  /\ input' = Nothing /\ tree' = Nothing /\ formula' = Nothing /\ converting' = "none"
  /\ UNCHANGED <<tables, formulas, stack, outcome, follows>>

Reading == Read /\ UNCHANGED <<vars, treeVars, follows>>

(* rawFormula is not NULL: convert() is called for the last function.      *)
HandOver ==
  /\ reading = "accepted" /\ converting = "none" /\ parsed # <<>>
  /\ tree' = Last(parsed).formula
  /\ input' = [args |-> NamesIn(Last(parsed).arguments), label |-> text.label,
               body |-> Last(parsed).formula]
  /\ formula' = Thrown
  /\ converting' = "parsed"
  /\ UNCHANGED <<vars, allReaderVars, follows>>

Flatten             == N!DoFlatten /\ UNCHANGED <<vars, allReaderVars, follows>>
OnlyAtomarNegations == N!DoOnlyAtomarNegations /\ UNCHANGED <<vars, allReaderVars, follows>>
Convert             == N!DoConvert /\ UNCHANGED <<vars, allReaderVars, follows>>

FrontNext ==
  \/ KeepTables
  \/ Parsing
  \/ Reading
  \/ HandOver
  \/ Flatten
  \/ OnlyAtomarNegations
  \/ Convert

FrontSpec == FrontInit /\ [][FrontNext]_frontVars

-----------------------------------------------------------------------------
(***************************************************************************)
(* What of a function is left in its tree: the quantifiers of vertices     *)
(* that are used.  One is not if its name occurs neither in what it stands *)
(* in front of nor further to the front of the function, where it is the   *)
(* name of another.                                                        *)
(***************************************************************************)
RECURSIVE Refers(_), Cleaned(_, _)
Refers(f) ==
  CASE f.op \in {"in", "notin"}      -> {f.x}
    [] f.op \in {"eq", "neq", "adj"} -> {f.x, f.y}
    [] f.op \in PBinary              -> Refers(f.left) \cup Refers(f.right)
    [] f.op = "call"                 -> ToSet(f.passed)
    [] OTHER                         -> Refers(f.sub)

Cleaned(f, before) ==
  CASE f.op \in PBinary ->
         PBin(f.op, Cleaned(f.left, before), Cleaned(f.right, before \cup Refers(f.left)))
    [] f.op \in {"exv", "allv"} /\ f.var \notin before \cup Refers(f.sub) ->
         Cleaned(f.sub, before)
    [] f.op = "call" -> [f EXCEPT !.sub = Cleaned(@, {})]
    [] f.op \in PAtoms -> f
    [] OTHER -> [f EXCEPT !.sub = Cleaned(@, before)]

(***************************************************************************)
(* The tree is the formula that was written, a negation before "and"       *)
(* before "or" before "<=>" before "=>", each to the left first, and in a  *)
(* call each argument is the one for which it was written.  Of its         *)
(* quantifiers exactly those are left out that nothing refers to.  A text  *)
(* that is no formula is not accepted.                                     *)
(***************************************************************************)
RECURSIVE Same(_, _)
Same(f, g) ==
  /\ f.op = g.op
  /\ CASE f.op \in PBinary -> Same(f.left, g.left) /\ Same(f.right, g.right)
       [] f.op = "neg" -> Same(f.sub, g.sub)
       [] f.op \in PQuantifier -> f.var = g.var /\ Same(f.sub, g.sub)
       [] f.op = "call" ->
            /\ {<<f.formal[i], f.passed[i]>> : i \in DOMAIN f.formal}
                 = {<<g.formal[i], g.passed[i]>> : i \in DOMAIN g.formal}
            /\ Same(f.sub, g.sub)
       [] OTHER -> f = g

TreeAsWritten ==
  reading = "accepted" =>
    /\ Len(parsed) = Len(text.functions)
    /\ \A i \in DOMAIN parsed :
         /\ parsed[i].name = text.functions[i].name
         /\ ToSet(NamesIn(parsed[i].arguments)) = ToSet(text.functions[i].arguments)
         /\ Same(parsed[i].formula, Cleaned(text.functions[i].formula, {}))

(***************************************************************************)
(* The formula that is solved holds on a graph exactly if what was written *)
(* does, and it has the form that the games are built for; every plain     *)
(* formula is converted.  A graph without vertices tells a quantifier that *)
(* was taken out: there it is as if that had not been written.             *)
(***************************************************************************)
MeansTheSame ==
  LET written == Last(text.functions).formula
  IN CASE converting = "converted" ->
            /\ N!NormalForm(formula)
            /\ \A G \in Graphs :
                 N!SameMeaning(IF G.vertices = {} THEN Cleaned(written, {}) ELSE written, G)
       [] converting \in {"refused", "crash"} -> ~N!Plain(written, FALSE)
       [] OTHER -> TRUE
=============================================================================
