------------------------------- MODULE Tokens -------------------------------
(***************************************************************************)
(* The rules of ms2scanner.lpp: the language of each token.  flex has made *)
(* compressed tables of them, from which ms2scanner.cpp finds the longest  *)
(* word at the front of a text; here it is defined.                        *)
(***************************************************************************)
EXTENDS Naturals, Sequences, SequencesExt, FiniteSetsExt

(* The rules: the words of each token, of which the longest is taken.      *)

Lower == {"a", "d", "e", "f", "g", "h", "i", "j", "l", "n", "o", "p", "r", "s", "t", "u",
          "v", "w", "x", "y"}
Upper == {"A", "E", "P", "U", "X", "Y", "Z"}
Word  == Lower \cup Upper \cup {"_"}        \* [A-z]
Digit == {"0", "1", "2"}
Blank == {" ", "\r"}

Chars(s) == [i \in 1 .. Len(s) |-> SubSeq(s, i, i)]

Keyword ==
  {<<"(", "OPEN_PAREN">>, <<")", "CLOSE_PAREN">>, <<",", "COMMA">>, <<";", "SEMI_COLON">>,
   <<":=", "DEFINE">>, <<"0", "ZERO">>, <<"false", "ZERO">>, <<"1", "ONE">>, <<"true", "ONE">>,
   <<"and", "AND">>, <<"&", "AND">>, <<"or", "OR">>, <<"|", "OR">>, <<"~", "NEG">>, <<"!", "NEG">>,
   <<"<=>", "EQUIV">>, <<"=>", "IMPLIES">>, <<"=", "EQ">>, <<"~=", "NEQ">>, <<"!=", "NEQ">>,
   <<"All", "ALL">>, <<"Ex", "EX">>, <<"adj", "ADJACENT">>, <<"in", "IN">>, <<"notin", "NOT_IN">>,
   <<"<", "RSUB">>, <<"<=", "SUB">>}

Named == [w \in {Chars(k[1]) : k \in Keyword} |->
            (CHOOSE k \in Keyword : Chars(k[1]) = w)[2]]
Words == DOMAIN Named

ASSUME WordsAreSequences == Words \subseteq Seq(STRING)

All(w, from, S) == \A i \in from .. Len(w) : w[i] \in S

Begins(w, S)  == w # <<>> /\ w[1] \in S
IsRelation(w) == Begins(w, {"*"}) /\ Len(w) > 1 /\ All(w, 2, Word)
IsName(w)     == Begins(w, Upper \cup Lower) /\ All(w, 2, Word \cup Digit)
IsComment(w)  == /\ Len(w) >= 2 /\ w[1] = "-" /\ w[2] = "-"
                 /\ \A i \in 3 .. Len(w) - 1 : w[i] # "\n"
IsSkipped(w)  == \/ w = <<"\n">> \/ w = <<"\r", "\n">>
                 \/ All(w, 1, {"\t"}) \/ All(w, 1, Blank) \/ IsComment(w)
IsUnknown(w)  == Len(w) = 1 /\ w # <<"\n">>

Accepts(w) == w # <<>> /\ (\/ w \in Words \/ IsRelation(w) \/ IsName(w)
                           \/ IsSkipped(w) \/ IsUnknown(w))

(* the first of the rules for a word: keywords before names                *)
TokenOf(w) ==
  IF w \in Words THEN Named[w]
  ELSE CASE IsRelation(w) -> "RELATION"
         [] IsName(w)     -> IF Begins(w, Upper) THEN "SET" ELSE "VARIABLE"
         [] IsSkipped(w)  -> "skip"
         [] OTHER -> "ERROR"

(* Some longer word begins with w: the automaton is not yet at its end.    *)
Extends(w) ==
  \/ w = <<>>
  \/ \E k \in Words : Len(w) < Len(k) /\ IsPrefix(w, k)
  \/ Begins(w, {"*"}) /\ All(w, 2, Word)
  \/ IsName(w)
  \/ All(w, 1, {"\t"}) \/ All(w, 1, Blank)
  \/ w = <<"-">> \/ (IsComment(w) /\ Last(w) # "\n")

Alive(w) == Accepts(w) \/ Extends(w)

(* How far the automaton gets in s, and the word it then takes.            *)
Run(s)    == CHOOSE k \in 0 .. Len(s) :
               /\ k > 0 => Alive(SubSeq(s, 1, k))
               /\ k < Len(s) => ~Alive(SubSeq(s, 1, k + 1))
HitsEnd(s) == Run(s) = Len(s) /\ Extends(s)
Lexeme(s) == SubSeq(s, 1, Max({k \in 1 .. Run(s) : Accepts(SubSeq(s, 1, k))}))

-----------------------------------------------------------------------------
(* The rule for w is done: some tokens carry their word, a relation        *)
(* without its star.                                                       *)
Returned(w) ==
  [tok |-> TokenOf(w),
   text |-> CASE TokenOf(w) \in {"SET", "VARIABLE"} -> w
              [] TokenOf(w) = "RELATION" -> Tail(w)
              [] OTHER -> <<>>]

Eof == [tok |-> "eof"]

(***************************************************************************)
(* Not code: the words of a text, each the longest that a rule accepts     *)
(* where the one before it ends, whatever the buffer holds of them;        *)
(* WordsFrom(s)[i] are those from the ith character on.                    *)
(***************************************************************************)
Longest(s, i) == SubSeq(s, i, Max({k \in i .. Len(s) : Accepts(SubSeq(s, i, k))}))

WordsFrom(s) ==
  LET From[i \in 1 .. Len(s) + 1] ==
        IF i > Len(s) THEN <<Eof>>
        ELSE (IF TokenOf(Longest(s, i)) = "skip" THEN <<>> ELSE <<Returned(Longest(s, i))>>)
               \o From[i + Len(Longest(s, i))]
  IN From

WordsOf(s) == WordsFrom(s)[1]
=============================================================================
