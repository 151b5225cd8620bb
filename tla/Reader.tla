------------------------------- MODULE Reader -------------------------------
(***************************************************************************)
(* yyparse() of ms2grammar.cpp over the tables that bison has made, with   *)
(* the actions of the grammar that build trees; the words come from the    *)
(* scanner.  Which names are declared is left open here: the actions that  *)
(* ask may find them declared or not, ParserScopes says when.              *)
(***************************************************************************)
EXTENDS Scanner, GrammarTables, ParseTrees

CONSTANTS
  Texts,        \* [chars, words, functions, label]: a text, the words in it, the
                \* functions it defines, none when it is not to be accepted, and
                \* which of its sets have the name of a label of the graph
  YYINITDEPTH, YYMAXDEPTH

ASSUME DepthAssumption ==
  YYINITDEPTH \in Nat /\ YYMAXDEPTH \in Nat /\ 1 < YYINITDEPTH /\ YYINITDEPTH <= YYMAXDEPTH

ASSUME TextsAssumption ==
  \A t \in Texts : t.chars \in Seq(STRING) /\ t.words = WordsOf(t.chars)

(* The parser knows the tokens of the scanner; 0 is the end of the text.   *)
ASSUME TokensKnown ==
  /\ \A t \in {Named[w] : w \in Words} \cup {"RELATION", "SET", "VARIABLE", "ERROR", "eof"} :
       YYTRANSLATE[t] \in Terminals
  /\ YYTRANSLATE["eof"] = 0

VARIABLES
  text,         \* history: the text that is read
  yyss,         \* the stacks: [state, val], and history: the symbol sym that
                \* val has been made for, which says the member of YYSTYPE
  yystacksize,
  usedVariables, \* the names of vertices that the function so far refers to
  functions,    \* formulas: the functions of this text
  parsed,       \* parsingResult: their names in the order of the text
  reading       \* idle, reading; accepted, failed

readerVars == <<text, yyss, yystacksize, usedVariables, functions, parsed, reading>>
allReaderVars == <<scannerVars, readerVars>>

None == <<>>

ReaderInit ==
  /\ ScannerInit
  /\ text = None /\ yyss = <<>> /\ yystacksize = 0
  /\ usedVariables = {} /\ functions = <<>> /\ parsed = <<>> /\ reading = "idle"

-----------------------------------------------------------------------------
(* What the automaton does next.                                           *)

State    == Last(yyss).state
Token    == YYTRANSLATE[yychar.tok]
Decision == IF Consults(State) THEN Decide(State, Token) ELSE Default(State)
Ready    == reading = "reading" /\ (Consults(State) => yychar # Empty)

(* The end of yyparse() and finalize_parser().                             *)
Finish(result) ==
  /\ reading' = result
  /\ yyss' = <<>> /\ yystacksize' = 0 /\ usedVariables' = {}
  /\ DestroyScanner /\ yychar' = Empty
  /\ UNCHANGED text

Abort == Finish("failed") /\ functions' = <<>> /\ parsed' = <<>>

(* yynewstate: the stacks are full and can not grow any more.              *)
Exhausted(stack) ==
  LET n == Len(stack) + 1
  IN n >= yystacksize /\ (yystacksize >= YYMAXDEPTH \/ n >= Min({2 * yystacksize, YYMAXDEPTH}))

(* yynewstate: full stacks become twice as large.                          *)
Push(stack, entry) ==
  /\ yyss' = Append(stack, entry)
  /\ yystacksize' = IF Len(stack) + 1 < yystacksize THEN yystacksize
                    ELSE Min({2 * yystacksize, YYMAXDEPTH})
  /\ UNCHANGED <<text, reading>>

-----------------------------------------------------------------------------
(* The actions of the grammar.  v are the values of the right-hand side.   *)

Variable(name) == [kind |-> "variable", name |-> name]
Set(name)      == [kind |-> "set", name |-> name]
NamesIn(arguments) == [i \in DOMAIN arguments |-> arguments[i].name]
KindsIn(arguments) == [i \in DOMAIN arguments |-> arguments[i].kind]

(***************************************************************************)
(* Declarations of functions, arguments of calls: lists grow at the front, *)
(* those that the grammar reads from the left too, so that all arguments   *)
(* but the first are in the reverse order.                                 *)
(***************************************************************************)
(* Mutant of Listed: what follows the first argument is put at the end.    *)
ListedAsRead(r, v) ==
  CASE r \in {14, 15, 18, 19} -> <<Last(v)>>
    [] r \in {16, 17}         -> <<v[1]>> \o v[2]
    [] r \in {39, 40}         -> <<v[1]>> \o v[2]
    [] r \in {20, 21}         -> <<v[3]>> \o v[1]
    [] r \in {42, 43}         -> v[1] \o <<v[3]>>
    [] r \in {38, 41}         -> <<>>

Listed(r, v) ==
  CASE r \in {14, 15, 18, 19}         -> <<Last(v)>>
    [] r \in {16, 17, 39, 40}         -> <<v[1]>> \o v[2]
    [] r \in {20, 21, 42, 43}         -> <<v[3]>> \o v[1]
    [] r \in {38, 41}                 -> <<>>

Declared(r, v) ==
  CASE r \in {9, 10}      -> v[1]
    [] r \in {11, 12}     -> [name |-> v[1], arguments |-> <<>>]
    [] r = 13             -> [name |-> v[1], arguments |-> v[3]]
    [] r \in {22, 44, 26} -> Variable(v[1])
    [] r \in {23, 45, 27} -> Set(v[1])

(* Quantifiers and negations in front of parentheses                       *)
Quantifiers(r, v) ==
  CASE r = 28 -> v[1]
    [] r = 29 -> <<>>
    [] r = 30 -> <<v[1]>> \o v[2]
    [] r = 31 -> <<v[1]>> \o v[2] \o v[3]
    [] r = 32 -> <<[op |-> "neg"]>>
    [] r = 33 -> <<[op |-> "neg"]>> \o v[2]
    [] r = 34 -> [op |-> "exv", name |-> v[2]]
    [] r = 35 -> [op |-> "allv", name |-> v[2]]
    [] r = 36 -> [op |-> "exs", name |-> v[2]]
    [] r = 37 -> [op |-> "alls", name |-> v[2]]

(***************************************************************************)
(* erase_irrelevants(): the quantifiers of vertices that the function has  *)
(* not referred to when their parentheses are closed are taken out.  That  *)
(* of a set is not: erase_current_level() only warns of it.                *)
(***************************************************************************)
IsIrrelevant(q) == q.op \in {"exv", "allv"} /\ q.name \notin usedVariables

(* Mutant of Relevant: nothing is taken out behind the first quantifier or *)
(* negation that stays.                                                    *)
RelevantBehind(quantifiers) ==
  LET stays == {i \in DOMAIN quantifiers : ~IsIrrelevant(quantifiers[i])} IN
  IF stays = {} THEN <<>>
  ELSE SubSeq(quantifiers, CHOOSE i \in stays : \A j \in stays : i <= j, Len(quantifiers))

Relevant(quantifiers) == SelectSeq(quantifiers, LAMBDA q : ~IsIrrelevant(q))

Under(q, f) == IF q.op = "neg" THEN PNeg(f) ELSE PQuant(q.op, q.name, f)

Formula(r, v) ==
  CASE r = 46 -> v[1]
    [] r = 48 -> PCall(NamesIn(functions[v[1]].arguments), NamesIn(v[4]), functions[v[1]].formula)
    [] r = 49 -> PVarAtom("adj", v[3].name, v[5].name)
    [] r = 51 -> PSetAtom("in", v[1].name, v[3].name)
    [] r = 52 -> PSetAtom("notin", v[1].name, v[3].name)
    [] r = 53 -> PVarAtom("eq", v[1].name, v[3].name)
    [] r = 54 -> PVarAtom("neq", v[1].name, v[3].name)
    [] r = 59 -> PBin("and", v[1], v[3])
    [] r = 60 -> PBin("or", v[1], v[3])
    [] r = 61 -> PBin("implies", v[1], v[3])
    [] r = 62 -> PBin("equiv", v[1], v[3])
    [] r = 63 -> PNeg(v[2])
    [] r = 64 -> FoldRight(Under, Relevant(v[1]), v[2])

Value(r, v) ==
  CASE r \in 9 .. 13 \cup {22, 23, 26, 27, 44, 45} -> Declared(r, v)
    [] r \in 14 .. 21 \cup 38 .. 43                -> Listed(r, v)
    [] r \in 28 .. 37                              -> Quantifiers(r, v)
    [] r \in {46, 48, 49} \cup 51 .. 54 \cup 59 .. 64 -> Formula(r, v)
    [] OTHER -> None

(* YYERROR: a function that is defined twice, not yet, or called with      *)
(* other arguments than it has; what the grammar has but does not accept.  *)
Refuses(r, v) ==
  \/ r = 7 /\ Last(yyss).val.name \in DOMAIN functions
  \/ r = 47 /\ Last(yyss).val \notin DOMAIN functions
  \/ r = 48 /\ KindsIn(v[4]) # KindsIn(functions[v[1]].arguments)
  \/ r \in {24, 25, 50, 55, 56, 57, 58, 65}

(* YYERROR as well, when a name is declared twice or not at all            *)
AsksForName == {22, 23, 26, 27, 34, 35, 36, 37, 44, 45}

-----------------------------------------------------------------------------
Start(t) ==
  /\ reading # "reading"
  /\ reading' = "reading" /\ text' = t
  /\ yyss' = <<[state |-> 0, sym |-> -1, val |-> None]>> /\ yystacksize' = YYINITDEPTH
  /\ usedVariables' = {} /\ functions' = <<>> /\ parsed' = <<>>

ParseString(t) == Start(t) /\ ScanString(t.chars)
ParseFile(t)   == Start(t) /\ OpenFile(t.chars)

(* YYLEX                                                                   *)
ReadToken ==
  /\ reading = "reading" /\ Consults(State) /\ yychar = Empty
  /\ yylex
  /\ UNCHANGED readerVars

Shift ==
  /\ Ready /\ Decision.do = "shift"
  /\ IF Exhausted(yyss) THEN Abort
     ELSE /\ Push(yyss, [state |-> Decision.state, sym |-> Token, val |-> yychar.text])
          /\ yychar' = Empty
          /\ UNCHANGED <<usedVariables, functions, parsed, buffer, pos, unread, words>>

(* No state of the stack can shift an error: all of it is popped.          *)
GiveUp(stack) ==
  /\ \A i \in DOMAIN stack : ~ShiftsError(stack[i].state)
  /\ Abort

(* Mutant of Reduce: an empty rule pops the symbol before it.              *)
ReducePopping ==
  /\ Ready /\ Decision.do = "reduce"
  /\ LET r     == Decision.rule
         n     == IF At(yyr2, r) = 0 /\ Len(yyss) > 1 THEN 1 ELSE At(yyr2, r)
         v     == [i \in 1 .. n |-> yyss[Len(yyss) - n + i].val]
         below == SubSeq(yyss, 1, Len(yyss) - n)
         to    == Goto(Last(below).state, At(yyr1, r))
     IN \/ /\ Refuses(r, v) \/ r \in AsksForName
           /\ GiveUp(below)
        \/ /\ ~Refuses(r, v)
           /\ IF Exhausted(below) THEN Abort
              ELSE /\ Push(below, [state |-> to, sym |-> At(yyr1, r), val |-> Value(r, v)])
                   /\ UNCHANGED <<scannerVars, usedVariables, functions, parsed>>

(***************************************************************************)
(* yyreduce: the action takes the values of the right-hand side off the    *)
(* stacks, and the automaton goes on from the state below them.  The end   *)
(* of a function makes it known to those that follow, and forgets which    *)
(* names it has used (reset_mappings()).  get_variable() notes a name that *)
(* is free as well, in a set of its own; no quantifier can have that name. *)
(***************************************************************************)
Reduce ==
  /\ Ready /\ Decision.do = "reduce"
  /\ LET r     == Decision.rule
         n     == At(yyr2, r)
         v     == [i \in 1 .. n |-> yyss[Len(yyss) - n + i].val]
         below == SubSeq(yyss, 1, Len(yyss) - n)
         to    == Goto(Last(below).state, At(yyr1, r))
         f     == [name |-> v[1].name, arguments |-> v[1].arguments, formula |-> v[4]]
     IN \/ /\ Refuses(r, v) \/ r \in AsksForName
           /\ GiveUp(below)
        \/ /\ ~Refuses(r, v)
           /\ IF Exhausted(below) THEN Abort
              ELSE /\ Push(below, [state |-> to, sym |-> At(yyr1, r), val |-> Value(r, v)])
                   /\ usedVariables' = CASE r \in {26, 44} -> usedVariables \cup {v[1]}
                                         [] r = 8 -> {}
                                         [] OTHER -> usedVariables
                   /\ IF r = 8 THEN /\ functions' = (f.name :> f) @@ functions
                                    /\ parsed' = Append(parsed, f)
                      ELSE UNCHANGED <<functions, parsed>>
                   /\ UNCHANGED scannerVars

SyntaxError == Ready /\ Decision.do = "error" /\ GiveUp(yyss)

Accept ==
  /\ Ready /\ Decision.do = "accept"
  /\ Finish("accepted")
  /\ functions' = <<>>
  /\ UNCHANGED parsed

Read == ReadToken \/ Shift \/ Reduce \/ SyntaxError \/ Accept

ReaderNext == Read \/ \E t \in Texts : ParseString(t) \/ ParseFile(t)

ReaderSpec == ReaderInit /\ [][ReaderNext]_allReaderVars

-----------------------------------------------------------------------------
(***************************************************************************)
(* The parser gets the words of its text, each whole, in their order and   *)
(* none of another text: wherever the pieces end that the buffer is filled *)
(* with, and whatever was left of the text before when that was given up.  *)
(***************************************************************************)
WordsAsWritten == text # None => IsPrefix(words, text.words)

(***************************************************************************)
(* An action takes what it was written for: the symbols on the stack are   *)
(* those of its rule, in their order, so that it reads the members of      *)
(* YYSTYPE that have been set, and none of the tables is left.             *)
(***************************************************************************)
ReducesHandles ==
  /\ \A i \in 2 .. Len(yyss) : At(yystos, yyss[i].state) = yyss[i].sym
  /\ Ready /\ Decision.do = "reduce" =>
       LET r == Decision.rule
           n == At(yyr2, r)
       IN /\ n < Len(yyss)
          /\ yyrhs[r] = [i \in 1 .. n |-> yyss[Len(yyss) - n + i].sym]
          /\ Goto(yyss[Len(yyss) - n].state, At(yyr1, r)) \in States \ {0}
=============================================================================
