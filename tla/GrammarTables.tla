--------------------------- MODULE GrammarTables ---------------------------
(***************************************************************************)
(* The tables of the LALR(1) automaton in ms2grammar.cpp, which bison has  *)
(* made from ms2grammar.ypp and which the build compiles as they are.  The *)
(* arrays begin at 0, so that At(t, i) is t[i].                            *)
(***************************************************************************)
EXTENDS Integers, Sequences

At(t, i) == t[i + 1]

YYFINAL     == 3
YYLAST      == 110
YYNTOKENS   == 28
YYPACT_NINF == -49
YYTABLE_NINF == -10
YYTERROR    == 1

(* The right-hand side of each rule, from the first on.                     *)
yyrhs == <<
  <<29, 0>>, <<>>, <<30, 32>>, <<>>, <<29, 31, 32>>, <<32, 10>>, <<>>,
  <<35, 33, 4, 51>>, <<18>>, <<17>>, <<34>>, <<34, 7, 8>>, <<34, 7, 36, 8>>,
  <<38>>, <<39>>, <<38, 37>>, <<39, 37>>, <<9, 38>>, <<9, 39>>,
  <<37, 9, 38>>, <<37, 9, 39>>, <<18>>, <<17>>, <<5>>, <<6>>, <<18>>,
  <<17>>, <<44, 7>>, <<>>, <<46, 44>>, <<46, 45, 44>>, <<27>>, <<27, 45>>,
  <<11, 18>>, <<12, 18>>, <<11, 17>>, <<12, 17>>, <<>>, <<49, 48>>,
  <<50, 48>>, <<>>, <<48, 9, 49>>, <<48, 9, 50>>, <<18>>, <<17>>, <<40>>,
  <<>>, <<34, 52, 7, 47, 8>>, <<13, 7, 41, 9, 41, 8>>, <<14, 18, 18>>,
  <<41, 15, 42>>, <<41, 16, 42>>, <<41, 20, 41>>, <<41, 19, 41>>,
  <<17, 20, 17>>, <<17, 19, 17>>, <<17, 21, 17>>, <<17, 22, 17>>,
  <<51, 26, 51>>, <<51, 25, 51>>, <<51, 23, 51>>, <<51, 24, 51>>,
  <<27, 51>>, <<43, 51, 8>>, <<43, 8>>>>

yyr1 == <<
  0, 28, 30, 29, 31, 29, 32, 33, 32, 34, 34, 35, 35, 35, 36, 36, 36, 36, 37,
  37, 37, 37, 38, 39, 40, 40, 41, 42, 43, 44, 44, 44, 45, 45, 46, 46, 46,
  46, 47, 47, 47, 48, 48, 48, 49, 50, 51, 52, 51, 51, 51, 51, 51, 51, 51,
  51, 51, 51, 51, 51, 51, 51, 51, 51, 51, 51>>

yyr2 == <<
  0, 2, 0, 2, 0, 3, 2, 0, 4, 1, 1, 1, 3, 4, 1, 1, 2, 2, 2, 2, 3, 3, 1, 1, 1,
  1, 1, 1, 2, 0, 2, 3, 1, 2, 2, 2, 2, 2, 0, 2, 2, 0, 3, 3, 1, 1, 1, 0, 5, 6,
  3, 3, 3, 3, 3, 3, 3, 3, 3, 3, 3, 3, 3, 2, 3, 2>>

yydefact == <<
  2, 4, 0, 1, 0, 10, 9, 3, 11, 7, 5, 6, 0, 0, 12, 23, 22, 0, 14, 15, 29, 13,
  0, 16, 17, 24, 25, 0, 0, 0, 0, 10, 26, 29, 47, 46, 0, 29, 0, 29, 8, 18,
  19, 0, 36, 34, 37, 35, 0, 0, 0, 0, 0, 0, 63, 0, 0, 0, 0, 0, 65, 0, 28, 32,
  30, 29, 29, 29, 29, 29, 20, 21, 26, 0, 50, 56, 55, 57, 58, 38, 27, 51, 52,
  54, 53, 64, 33, 31, 61, 62, 60, 59, 0, 45, 44, 0, 41, 41, 0, 48, 39, 40,
  49, 0, 42, 43>>

yydefgoto == <<
  -1, 1, 2, 4, 7, 13, 34, 9, 17, 23, 18, 19, 35, 36, 81, 37, 38, 65, 39, 95,
  100, 96, 97, 40, 55>>

yypact == <<
  -49, 21, 33, -49, 33, -49, -49, 28, 49, -49, 28, -49, 14, 57, -49, -49,
  -49, 71, 73, 73, 35, -49, 37, 74, 74, -49, -49, 56, 58, 77, 67, -6, 79,
  35, -49, -49, 48, 12, 80, -8, 46, -49, -49, 37, -49, -49, -49, -49, 70,
  72, 75, 76, 78, 81, -49, 82, 83, 83, 70, 70, -49, 34, -49, 64, -49, 54,
  35, 35, 35, 35, -49, -49, -49, 85, -49, -49, -49, -49, -49, 60, -49, -49,
  -49, -49, -49, -49, -49, -49, -17, 55, 84, -49, 70, -49, -49, 88, -49,
  -49, 89, -49, 90, 90, -49, 60, -49, -49>>

yypgoto == <<
  -49, -49, -49, -49, 97, -49, 41, -49, -49, 86, -16, -10, -49, -48, 45,
  -49, -37, 40, -49, -49, 7, 3, 4, -32, -49>>

yytable == <<
  73, 54, 64, 27, 28, 61, 41, 67, 68, 69, 83, 84, 42, 50, 51, 52, 53, 25,
  26, 63, 60, 3, 14, 27, 28, 29, 30, 70, 87, 31, 32, 15, 16, 71, 88, 89, 90,
  91, 11, 33, 25, 26, 85, 8, 98, 8, 27, 28, 29, 30, 5, 6, 31, 32, 15, 16,
  12, 66, 67, 68, 69, 20, 33, 56, 57, 27, 28, 58, 59, 66, 67, 68, 69, 44,
  45, 46, 47, 93, 94, 21, 68, 69, 22, 43, 48, 49, -9, 62, 72, 79, 74, 63,
  75, 76, 92, 77, 99, 102, 78, 103, 80, 10, 82, 86, 101, 24, 104, 105, 0, 0,
  69>>

yycheck == <<
  48, 33, 39, 11, 12, 37, 22, 24, 25, 26, 58, 59, 22, 19, 20, 21, 22, 5, 6,
  27, 8, 0, 8, 11, 12, 13, 14, 43, 65, 17, 18, 17, 18, 43, 66, 67, 68, 69,
  10, 27, 5, 6, 8, 2, 92, 4, 11, 12, 13, 14, 17, 18, 17, 18, 17, 18, 7, 23,
  24, 25, 26, 4, 27, 15, 16, 11, 12, 19, 20, 23, 24, 25, 26, 17, 18, 17, 18,
  17, 18, 8, 25, 26, 9, 9, 7, 18, 7, 7, 18, 7, 18, 27, 17, 17, 9, 17, 8, 8,
  17, 9, 17, 4, 57, 63, 97, 19, 103, 103, -1, -1, 26>>

yystos == <<
  0, 29, 30, 0, 31, 17, 18, 32, 34, 35, 32, 10, 7, 33, 8, 17, 18, 36, 38,
  39, 4, 8, 9, 37, 37, 5, 6, 11, 12, 13, 14, 17, 18, 27, 34, 40, 41, 43, 44,
  46, 51, 38, 39, 9, 17, 18, 17, 18, 7, 18, 19, 20, 21, 22, 51, 52, 15, 16,
  19, 20, 8, 51, 7, 27, 44, 45, 23, 24, 25, 26, 38, 39, 18, 41, 18, 17, 17,
  17, 17, 7, 17, 42, 42, 41, 41, 8, 45, 44, 51, 51, 51, 51, 9, 17, 18, 47,
  49, 50, 41, 8, 48, 48, 8, 9, 49, 50>>

(* yytname[] and YYTRANSLATE: the internal numbers of the tokens, from 0 on. *)
yytname == <<
  "eof", "error", "undef", "ERROR", "DEFINE", "ZERO", "ONE", "OPEN_PAREN",
  "CLOSE_PAREN", "COMMA", "SEMI_COLON", "EX", "ALL", "ADJACENT", "RELATION",
  "IN", "NOT_IN", "SET", "VARIABLE", "NEQ", "EQ", "SUB", "RSUB", "IMPLIES",
  "EQUIV", "OR", "AND", "NEG">>

YYTRANSLATE == [name \in {yytname[i] : i \in DOMAIN yytname} |->
                  CHOOSE n \in 0 .. YYNTOKENS - 1 : At(yytname, n) = name]

-----------------------------------------------------------------------------
(* What the automaton does in a state: without a look-ahead token if it    *)
(* has one action only.                                                    *)
Fail           == [do |-> "error"]
ReduceBy(r)    == IF r = 0 THEN Fail ELSE [do |-> "reduce", rule |-> r]
Default(state) == ReduceBy(At(yydefact, state))
Consults(state) == At(yypact, state) # YYPACT_NINF

(* yybackup                                                                *)
Decide(state, token) ==
  LET i == At(yypact, state) + token
      n == At(yytable, i)
  IN IF i < 0 \/ YYLAST < i \/ At(yycheck, i) # token THEN Default(state)
     ELSE IF n = 0 \/ n = YYTABLE_NINF THEN Fail
     ELSE IF n < 0 THEN ReduceBy(-n)
     ELSE IF n = YYFINAL THEN [do |-> "accept"]
     ELSE [do |-> "shift", state |-> n]

(* Where to go with a symbol when state is what is left below it.          *)
Goto(state, symbol) ==
  LET i == At(yypgoto, symbol - YYNTOKENS) + state
  IN IF i \in 0 .. YYLAST /\ At(yycheck, i) = state THEN At(yytable, i)
     ELSE At(yydefgoto, symbol - YYNTOKENS)

(* yyerrlab1 looks for a state in which an error can be shifted.           *)
ShiftsError(state) ==
  LET i == At(yypact, state) + YYTERROR
  IN /\ At(yypact, state) # YYPACT_NINF
     /\ i \in 0 .. YYLAST /\ At(yycheck, i) = YYTERROR /\ At(yytable, i) > 0

-----------------------------------------------------------------------------
(***************************************************************************)
(* Not code: that the tables fit together.  Edges are the pairs of states  *)
(* that may be next to each other on a stack: those that a shift puts      *)
(* there, and those that Goto does wherever a rule has been taken off.     *)
(***************************************************************************)
States    == 0 .. Len(yypact) - 1
Terminals == 0 .. YYNTOKENS - 1

Decisions(q) ==
  IF Consults(q) THEN {Decide(q, token) : token \in Terminals} ELSE {Default(q)}
Reductions(q) == {d.rule : d \in {e \in Decisions(q) : e.do = "reduce"}}
Shifts(q)     == {<<q, d.state>> : d \in {e \in Decisions(q) : e.do = "shift"}}

Below1(E, S) == {s \in States : \E t \in S : <<s, t>> \in E}

(* Where the top of the stack is q: the states that may be at each of its  *)
(* last places, from the top on; no rule is longer than six symbols.       *)
Behind(E, q) ==
  LET b2 == Below1(E, {q})
      b3 == Below1(E, b2)
      b4 == Below1(E, b3)
      b5 == Below1(E, b4)
      b6 == Below1(E, b5)
  IN <<{q}, b2, b3, b4, b5, b6, Below1(E, b6)>>

Follow(E) ==
  E \cup UNION {UNION {{<<s, Goto(s, At(yyr1, r))>> : s \in Behind(E, q)[At(yyr2, r) + 1]} :
                        r \in Reductions(q)} : q \in States}

Edges ==
  LET E[n \in 0 .. 20] == IF n = 0 THEN UNION {Shifts(q) : q \in States} ELSE Follow(E[n - 1])
  IN E[20]

FindsHandle(q, r) ==
  LET n == At(yyr2, r)
      B == Behind(Edges, q)
  IN /\ n \in 0 .. 6 /\ yyrhs[r] = [i \in 1 .. n |-> yyrhs[r][i]]
     /\ \A k \in 1 .. n : \A s \in B[k] : s # 0 /\ At(yystos, s) = yyrhs[r][n - k + 1]
     /\ \A s \in B[n + 1] : LET to == Goto(s, At(yyr1, r))
                            IN to \in States \ {0} /\ <<s, to>> \in Edges /\ At(yystos, to) = At(yyr1, r)

Fits(q, token) ==
  LET d == Decide(q, token)
  IN d.do = "shift" => /\ token # 0
                       /\ d.state \in States \ {0}
                       /\ <<q, d.state>> \in Edges /\ At(yystos, d.state) = token

ASSUME TablesFit ==
  /\ 0 \in States
  /\ \A q \in States : Consults(q) => \A token \in Terminals : Fits(q, token)
  /\ \A q \in States : \A r \in Reductions(q) : FindsHandle(q, r)
=============================================================================
