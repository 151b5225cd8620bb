----------------------------- MODULE MCFrontEnd -----------------------------
(***************************************************************************)
(* Names: two inputs with two variables, a set and two functions.          *)
(* Trees: texts with formulas over a free set X, a label and vertices x    *)
(* and y, two operators over the atoms below quantifiers and negations,    *)
(* and calls of functions in functions; texts that are laid out in all     *)
(* ways, and texts that are no formulas.                                   *)
(***************************************************************************)
EXTENDS FrontEnd

CONSTANTS v1, v2, s1, f1, f2

TheVariables == {v1, v2}
TheSets      == {s1}
TheFunctions == {f1, f2}

-----------------------------------------------------------------------------
(***************************************************************************)
(* How formulas are written.  A function is [name, arguments, formula],    *)
(* with names as sequences of characters.                                  *)
(***************************************************************************)
CapitalLetters == {"A", "E", "P", "U", "X", "Y", "Z"}

Tok(t)  == [tok |-> t, text |-> <<>>]
Name(n) == [tok |-> IF Head(n) \in CapitalLetters THEN "SET" ELSE "VARIABLE", text |-> n]

OpToken == [in |-> "IN", notin |-> "NOT_IN", eq |-> "EQ", neq |-> "NEQ",
            and |-> "AND", or |-> "OR", implies |-> "IMPLIES", equiv |-> "EQUIV",
            exv |-> "EX", exs |-> "EX", allv |-> "ALL", alls |-> "ALL"]

(* How tightly an operator binds *)
Strength(f) ==
  CASE f.op = "implies" -> 1 [] f.op = "equiv" -> 2 [] f.op = "or" -> 3 [] f.op = "and" -> 4
    [] OTHER -> 5

ListWords(names) ==
  FoldLeft(LAMBDA ws, n : (IF ws = <<>> THEN ws ELSE Append(ws, Tok("COMMA"))) \o <<Name(n)>>,
           <<>>, names)

(* With no more parentheses than are needed; fs are the functions to call. *)
RECURSIVE FormulaWords(_, _), Bound(_, _)
Operand(f, strength, fs) ==
  IF Strength(f) >= strength THEN FormulaWords(f, fs)
  ELSE <<Tok("OPEN_PAREN")>> \o FormulaWords(f, fs) \o <<Tok("CLOSE_PAREN")>>

FormulaWords(f, fs) ==
  CASE f.op \in {"in", "notin"} -> <<Name(f.x), Tok(OpToken[f.op]), Name(f.set)>>
    [] f.op \in {"eq", "neq"}   -> <<Name(f.x), Tok(OpToken[f.op]), Name(f.y)>>
    [] f.op = "adj" -> <<Tok("ADJACENT"), Tok("OPEN_PAREN"), Name(f.x), Tok("COMMA"), Name(f.y),
                         Tok("CLOSE_PAREN")>>
    [] f.op \in PBinary -> Operand(f.left, Strength(f), fs) \o <<Tok(OpToken[f.op])>>
                             \o Operand(f.right, Strength(f) + 1, fs)
    [] f.op = "neg" -> <<Tok("NEG")>> \o Operand(f.sub, 5, fs)
    [] f.op = "call" ->
         <<Name((CHOOSE g \in fs : g.arguments = f.formal /\ g.formula = f.sub).name),
           Tok("OPEN_PAREN")>> \o ListWords(f.passed) \o <<Tok("CLOSE_PAREN")>>
    [] f.op \in PQuantifier -> Bound(f, fs)

Bound(f, fs) ==
  CASE f.op \in PQuantifier -> <<Tok(OpToken[f.op]), Name(f.var)>> \o Bound(f.sub, fs)
    [] f.op = "neg"         -> <<Tok("NEG")>> \o Bound(f.sub, fs)
    [] OTHER -> <<Tok("OPEN_PAREN")>> \o FormulaWords(f, fs) \o <<Tok("CLOSE_PAREN")>>

FunctionWords(f, fs) ==
  <<Name(f.name)>>
    \o (IF f.arguments = <<>> THEN <<>>
        ELSE <<Tok("OPEN_PAREN")>> \o ListWords(f.arguments) \o <<Tok("CLOSE_PAREN")>>)
    \o <<Tok("DEFINE")>> \o FormulaWords(f.formula, fs) \o <<Tok("SEMI_COLON")>>

TextWords(all) ==
  FoldLeft(LAMBDA ws, f : ws \o FunctionWords(f, ToSet(all)), <<>>, all)
    \o <<[tok |-> "eof"]>>

(* The characters of the words: a blank where two would run together.      *)
Spelling ==
  ("OPEN_PAREN" :> "(") @@ ("CLOSE_PAREN" :> ")") @@ ("COMMA" :> ",")
    @@ ("SEMI_COLON" :> ";") @@ ("DEFINE" :> ":=") @@ ("AND" :> "and")
    @@ ("OR" :> "|") @@ ("NEG" :> "~") @@ ("EQUIV" :> "<=>")
    @@ ("IMPLIES" :> "=>") @@ ("EQ" :> "=") @@ ("NEQ" :> "!=")
    @@ ("ALL" :> "All") @@ ("EX" :> "Ex") @@ ("ADJACENT" :> "adj")
    @@ ("IN" :> "in") @@ ("NOT_IN" :> "notin")

Letters == [t \in DOMAIN Spelling |->
              [i \in 1 .. Len(Spelling[t]) |-> SubSeq(Spelling[t], i, i)]]

Symbols == {"(", ")", ",", ";", ":", "=", "|", "~", "<", ">", "!"}

Spelled(ws) ==
  FoldLeft(LAMBDA chars, w :
             LET letters == CASE w.tok = "eof" -> <<>>
                              [] w.tok \in {"SET", "VARIABLE"} -> w.text
                              [] OTHER -> Letters[w.tok]
             IN IF chars = <<>> \/ letters = <<>> THEN chars \o letters
                ELSE IF Last(chars) \in Symbols \/ Head(letters) \in Symbols THEN chars \o letters
                ELSE chars \o <<" ">> \o letters,
           <<>>, ws)

Written(all, label) ==
  [chars |-> Spelled(TextWords(all)), words |-> TextWords(all),
   functions |-> all, label |-> label]

-----------------------------------------------------------------------------
x == <<"x">>
y == <<"y">>
u == <<"u">>
v == <<"v">>
w == <<"w">>
p == <<"p">>
X == <<"X">>
Y == <<"Y">>
Z == <<"Z">>
U == <<"U">>
P == <<"P">>
f == <<"f">>
g == <<"g">>
h == <<"h">>

Function(name, arguments, body) == [name |-> name, arguments |-> arguments, formula |-> body]

Atoms(a, b, S) ==
  {PSetAtom("in", a, S), PSetAtom("notin", b, S), PVarAtom("eq", a, b),
   PVarAtom("neq", a, b), PVarAtom("adj", a, b)}

Literals(a, b, S) ==
  LET A == Atoms(a, b, S)
  IN A \cup {PNeg(l) : l \in A} \cup {PNeg(PNeg(l)) : l \in {PSetAtom("notin", b, S), PVarAtom("neq", a, b)}}

Bodies ==
  LET L == Literals(x, y, X)
      B == {PBin(op, l, m) : op \in {"and", "or", "implies"}, l \in L,
              m \in {PSetAtom("in", x, X), PVarAtom("neq", x, y), PVarAtom("adj", x, y)}}
      C == {PBin(op, l, PBin(inner, PSetAtom("in", x, X), PNeg(m))) :
              op \in {"and", "or"}, inner \in {"and", "or"},
              l \in {PSetAtom("in", x, X), PSetAtom("notin", y, X), PVarAtom("neq", x, y)},
              m \in {PVarAtom("adj", x, y), PSetAtom("notin", y, X)}}
  IN L \cup B \cup C

(* Every two operators, the one inside the other on either side            *)
Nested ==
  LET A == PSetAtom("in", x, X)
      B == PVarAtom("adj", x, y)
      C == PVarAtom("eq", x, y)
  IN {PBin(op, PBin(inner, A, B), C) : op \in PBinary, inner \in PBinary}
       \cup {PBin(op, A, PBin(inner, B, C)) : op \in PBinary, inner \in PBinary}
       \cup {PNeg(PBin(op, A, PNeg(PBin(inner, B, C)))) : op \in PBinary, inner \in PBinary}

(* h(X) := Ex x All y (b);  h(X) := All x ~Ex y (~b);  and so on           *)
Closed ==
  {PQuant("exv", x, PQuant(q, y, b)) : q \in {"exv", "allv"}, b \in Bodies}
    \cup {PQuant("allv", x, PNeg(PQuant(q, y, PNeg(b)))) : q \in {"exv", "allv"}, b \in Bodies}
    \cup {PQuant("exv", x, PQuant("exv", y, b)) : b \in Nested}
    \cup {PNeg(PQuant("exv", x, PQuant("allv", y, b))) : b \in Literals(x, y, X)}

SetQuantified ==
  {PNeg(PQuant("exs", X, PQuant("allv", x, PQuant("exv", y, b)))) : b \in Literals(x, y, X)}
    \cup {PQuant("alls", X, PQuant("exv", x, PNeg(PQuant("exv", y,
            PBin("or", b, PSetAtom("notin", y, X)))))) : b \in Literals(x, y, X)}

(* f(u, v, U) := body;  g(p, P) := Ex w (f(p, w, P) and f(w, p, P));       *)
(* h(X) := All x (g(x, X));  f with a vertex twice;  g(u, v, w)            *)
Called ==
  LET F(body)    == Function(f, <<u, v, U>>, body)
      CallF(body, a, b, S) == PCall(<<u, v, U>>, <<a, b, S>>, body)
      G(body)    == PQuant("exv", w, PBin("and", CallF(body, p, w, P), CallF(body, w, p, P)))
  IN {<<F(body), Function(g, <<p, P>>, G(body)),
        Function(h, <<X>>, PQuant("allv", x, PCall(<<p, P>>, <<x, X>>, G(body))))>> :
        body \in Literals(u, v, U)}
       \cup {<<F(body), Function(h, <<X>>, PNeg(PQuant("exv", x, CallF(body, x, x, X))))>> :
               body \in Literals(u, v, U)}
       \cup {<<Function(g, <<u, v, w>>, body),
               Function(h, <<>>, PQuant("exv", x, PQuant("allv", y, PQuant("exv", p,
                 PCall(<<u, v, w>>, <<x, y, p>>, body)))))>> :
               body \in {PBin(op, PVarAtom("adj", u, v), PVarAtom("eq", v, w)) : op \in {"and", "or"}}}

(* Quantifiers of what is not used, also by a function that is called; a   *)
(* name that is used only behind or only before the parentheses; a set     *)
Superfluous ==
  LET A == PSetAtom("in", x, X)
      E(S) == PQuant("exv", y, PSetAtom("notin", y, S))
      F(body) == Function(f, <<u, U>>, body)
      CallF(body, a) == PCall(<<u, U>>, <<a, X>>, body)
      B == PQuant("exv", v, PQuant("allv", w, PSetAtom("in", u, U)))
      C == PQuant("exv", v, PNeg(PQuant("exv", w,
             PBin("or", PSetAtom("in", v, U), PSetAtom("notin", u, U)))))
  IN {<<Function(h, <<X>>, b)>> :
        b \in {PBin(op, PQuant("allv", x, l), PQuant("exv", x, m)) :
                 op \in {"and", "or"}, l \in {A, E(X)}, m \in {A, E(X)}}
              \cup {PQuant("allv", x, PBin("or", PQuant("exv", y, A), E(X))),
                    PQuant("allv", x, PBin("or", E(X), PQuant("exv", y, A))),
                    PQuant("exs", Y, PQuant("allv", w, PNeg(PQuant("alls", Z, E(X))))),
                    PNeg(PQuant("exv", w, PNeg(PQuant("allv", u, PNeg(PQuant("exv", v, E(X)))))))}}
       \cup {<<F(body), Function(h, <<X>>, PQuant(q, x, PQuant("exv", y, CallF(body, y))))>> :
               q \in {"exv", "allv"}, body \in {B, C}}
       \cup {<<F(C), Function(h, <<X>>, PQuant("exv", y,
                 PBin("and", CallF(C, y), PQuant("allv", x, PSetAtom("in", y, X)))))>>,
             <<Function(f, <<u, U>>, PQuant("exv", v, PBin("and", PSetAtom("in", v, U), PSetAtom("in", u, U)))),
               Function(h, <<X>>, PQuant("allv", v, PQuant("exv", y,
                 PCall(<<u, U>>, <<y, X>>,
                   PQuant("exv", v, PBin("and", PSetAtom("in", v, U), PSetAtom("in", u, U)))))))>>}

Labelled ==
  Function(h, <<Y, X, Z>>,
           PQuant("exv", x, PBin("and", PSetAtom("in", x, Z),
             PBin("or", PSetAtom("notin", x, X), PSetAtom("in", x, Y)))))

(* Written by hand: chars as they are, and what they define                *)
ByHand(s, fs) == [chars |-> Chars(s), words |-> WordsOf(Chars(s)), functions |-> fs, label |-> <<>>]

LaidOut ==
  LET TheFunction == <<Function(h, <<X>>, PQuant("exv", x, PBin("and", PSetAtom("in", x, X), PNeg(
                        PBin("or", PSetAtom("notin", x, X), PVarAtom("adj", x, x))))))>>
  IN {ByHand(s, TheFunction) :
        s \in {"h(X):=Ex x(x in X & !(x notin X|adj(x,x)));",
               "--h\nh ( X ) :=\t\tEx x\n (x in X and\r\n ~(x notin X or adj(x, x)) ) ;\n--end",
               "h(X):=$Ex x((((x in X&(~(x notin X|adj(x,x)))))));"}}

Unaccepted ==
  {ByHand(s, <<>>) :
     s \in {"h(X):= All x (x in X", "h(X):= Ex x (x <= X)", "h := ", "h(X) *ab_ h", "h() := ()",
            "h(X):= Ex x (adj(x, x, x));", "h(X):=1;", "h(X,", "h:=notina <=><=>",
            "h(X):=Ex x(x in X) h", "f(X):=Ex x(x in X);h(Y):=Ex y(f(y));",
            "h(X):=Ex x(x in X);h(Y):=Ex y(y in Y);", "h(Y):=Ex y(g(Y));",
            "h(X):=Ex x((((((((((((((x in X))))))))))))));"}}

Alone(b, free) == <<Function(h, free, b)>>

TheTexts ==
  {Written(Alone(b, <<X>>), <<>>) : b \in Closed}
    \cup {Written(Alone(b, <<>>), <<>>) : b \in SetQuantified}
    \cup {Written(fs, <<>>) : fs \in Called \cup Superfluous}
    \cup {Written(<<Labelled>>, X :> -1)}
    \cup LaidOut \cup Unaccepted

TheLaterTexts == LaidOut

TheGraphs ==
  {[vertices |-> 1 .. 2, edges |-> E] : E \in {{}, {{1, 2}}}}
    \cup {[vertices |-> {1}, edges |-> {}], [vertices |-> {}, edges |-> {}]}
=============================================================================
