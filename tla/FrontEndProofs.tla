--------------------------- MODULE FrontEndProofs ---------------------------
(***************************************************************************)
(* The tables of names of the parser, for any names, functions and nesting *)
(* and any number of inputs, also after inputs that failed; then what the  *)
(* parser reads: its stacks, and the words that it gets of the scanner,    *)
(* for any texts and any sizes of the buffer and of the stacks.            *)
(***************************************************************************)
EXTENDS ParserScopes, Reader, SequenceTheorems, WellFoundedInduction, TLAPS

Quantifier == [id : Nat, name : Names]
BoundName  == [id : Nat, name : Names, bound : BOOLEAN]
ScopeType  == [quants : Seq(Quantifier), refs : SUBSET Nat, kept : SUBSET BoundName]
Function   == [args : Seq(Quantifier), refs : SUBSET Nat, kept : SUBSET BoundName]

TypeOK ==
  /\ level \in Nat /\ counter \in Nat /\ parses \in Nat
  /\ DOMAIN levelNames \subseteq Nat
  /\ \A l \in DOMAIN levelNames : levelNames[l] \subseteq Names
  /\ DOMAIN mapping \subseteq Names /\ \A n \in DOMAIN mapping : mapping[n] \in Nat
  /\ DOMAIN freeMapping \subseteq Names /\ \A n \in DOMAIN freeMapping : freeMapping[n] \in Nat
  /\ used \subseteq Names
  /\ DOMAIN formulas \subseteq Functions /\ \A f \in DOMAIN formulas : formulas[f] \in Function
  /\ fname \in Functions
  /\ args \in Seq(Quantifier) /\ pending \in Seq(Quantifier) /\ scopes \in Seq(ScopeType)
  /\ expects \in {"operand", "first", "operator"}
  /\ outcome \in {"ready", "arguments", "body", "parsed", "failed", "crash"}

(***************************************************************************)
(* What is open: at depth k, counted from 1 at the body of the function,   *)
(* the quantifiers in front of the next parenthesis, or those just read.   *)
(* The body is at level 0, unless the level was left over by an error.     *)
(***************************************************************************)
Depths  == 1 .. Len(scopes)
Base    == level + 1 - Len(scopes)
Nest(k) == IF k < Len(scopes) THEN scopes[k + 1].quants ELSE pending

Stages ==
  /\ outcome = "body" => scopes # <<>>
  /\ outcome \in {"ready", "arguments", "parsed", "failed"} =>
       scopes = <<>> /\ pending = <<>> /\ DOMAIN mapping = {}
  /\ outcome \in {"ready", "parsed", "failed"} =>
       args = <<>> /\ DOMAIN freeMapping = {} /\ DOMAIN levelNames = {}
  /\ outcome = "arguments" => DOMAIN levelNames = {0} /\ levelNames[0] = {}
  /\ expects = "operator" => pending = <<>>
  /\ expects = "first" => Len(scopes) > 1

(* A level that is missing is that of the body, and nothing is quantified  *)
(* there: reading it is the crash.                                         *)
Levels ==
  scopes # <<>> =>
    /\ Base >= 0
    /\ DOMAIN levelNames = {0} \cup (Base + 1 .. level)
    /\ Base > 0 => levelNames[0] = {} /\ Nest(1) = <<>>
    /\ \A k \in Depths : Base + k - 1 \in DOMAIN levelNames =>
         levelNames[Base + k - 1] = NamesOf(Nest(k))

Nesting ==
  scopes # <<>> =>
    /\ DOMAIN mapping = UNION {NamesOf(Nest(k)) : k \in Depths}
    /\ \A k \in Depths : \A q \in ToSet(Nest(k)) : mapping[q.name] = q.id
    /\ \A j, k \in Depths : j # k => NamesOf(Nest(j)) \cap NamesOf(Nest(k)) = {}
    /\ scopes[1].quants = <<>>

Mappings ==
  /\ DOMAIN mapping \cap DOMAIN freeMapping = {}
  /\ \A m, n \in DOMAIN mapping : mapping[m] = mapping[n] => m = n
  /\ \A m \in DOMAIN mapping, n \in DOMAIN freeMapping : mapping[m] # freeMapping[n]
  /\ \A n \in DOMAIN freeMapping : freeMapping[n] \in Ids(args)

(* A quantified name that something refers to counts as used.              *)
RefsUsed ==
  \A i \in DOMAIN scopes : \A n \in DOMAIN mapping : mapping[n] \in scopes[i].refs => n \in used

Below(S) == S \subseteq 0 .. counter - 1

IdsBelow ==
  /\ Below({mapping[n] : n \in DOMAIN mapping}) /\ Below({freeMapping[n] : n \in DOMAIN freeMapping})
  /\ Below(Ids(args)) /\ Below(Ids(pending))
  /\ \A i \in DOMAIN scopes :
       Below(Ids(scopes[i].quants)) /\ Below(IdsOf(scopes[i].kept)) /\ Below(scopes[i].refs)
  /\ \A f \in DOMAIN formulas : Below(Ids(formulas[f].args)) /\ Below(IdsOf(formulas[f].kept))

(* As long as nothing is read after an error the body is at level 0.       *)
BodyAtZero ==
  ~RetriesFailed =>
    /\ outcome \in {"ready", "arguments", "parsed"} => level = 0
    /\ scopes # <<>> => Base = 0

-----------------------------------------------------------------------------
(* Functions with one more value, and sequences as sets.                   *)
LEMMA PutIs ==
  ASSUME NEW f, NEW x, NEW y
  PROVE  /\ DOMAIN Put(f, x, y) = DOMAIN f \cup {x}
         /\ Put(f, x, y)[x] = y
         /\ \A z \in DOMAIN f \ {x} : Put(f, x, y)[z] = f[z]
BY DEF Put

LEMMA ToSetOfEmpty == ToSet(<<>>) = {} /\ Ids(<<>>) = {} /\ NamesOf(<<>>) = {}
<1>1. DOMAIN <<>> = {}
  OBVIOUS
<1> QED BY <1>1 DEF ToSet, Ids, IdsOf, NamesOf

LEMMA ToSetOfAppend ==
  ASSUME NEW s \in Seq(Quantifier), NEW q \in Quantifier
  PROVE  /\ ToSet(Append(s, q)) = ToSet(s) \cup {q}
         /\ Ids(Append(s, q)) = Ids(s) \cup {q.id}
         /\ NamesOf(Append(s, q)) = NamesOf(s) \cup {q.name}
<1> DEFINE t == Append(s, q)
<1>1. /\ DOMAIN s = 1 .. Len(s) /\ DOMAIN t = 1 .. Len(s) + 1 /\ Len(s) \in Nat
      /\ t[Len(s) + 1] = q
      /\ \A i \in 1 .. Len(s) : t[i] = s[i]
  OBVIOUS
<1> HIDE DEF t
<1>2. ToSet(t) = ToSet(s) \cup {q}
  <2>1. \A x \in ToSet(t) : x \in ToSet(s) \cup {q}
    <3>1. ASSUME NEW i \in 1 .. Len(s) + 1 PROVE t[i] \in ToSet(s) \cup {q}
      <4>1. CASE i = Len(s) + 1  BY <4>1, <1>1
      <4>2. CASE i \in 1 .. Len(s)  BY <4>2, <1>1 DEF ToSet
      <4> QED BY <4>1, <4>2, <1>1
    <3> QED BY <3>1, <1>1 DEF ToSet
  <2>2. ASSUME NEW i \in 1 .. Len(s) PROVE s[i] \in ToSet(t)
    <3>1. i \in 1 .. Len(s) + 1 /\ t[i] = s[i]
      BY <1>1
    <3> QED BY <3>1, <1>1 DEF ToSet
  <2>3. q \in ToSet(t)
    <3>1. Len(s) + 1 \in 1 .. Len(s) + 1
      BY <1>1
    <3> QED BY <3>1, <1>1 DEF ToSet
  <2> QED BY <2>1, <2>2, <2>3, <1>1 DEF ToSet
<1> QED BY <1>2 DEF t, Ids, IdsOf, NamesOf

LEMMA ToSetTypes ==
  ASSUME NEW s \in Seq(Quantifier)
  PROVE  ToSet(s) \subseteq Quantifier /\ Ids(s) \subseteq Nat /\ NamesOf(s) \subseteq Names
<1>1. \A i \in DOMAIN s : s[i] \in Quantifier
  OBVIOUS
<1> QED BY <1>1 DEF ToSet, Ids, IdsOf, NamesOf, Quantifier

-----------------------------------------------------------------------------
(* What the actions do to the open parentheses.                            *)
LEMMA ScopesAre ==
  ASSUME TypeOK
  PROVE  /\ Len(scopes) \in Nat /\ DOMAIN scopes = 1 .. Len(scopes)
         /\ \A i \in DOMAIN scopes : scopes[i] \in ScopeType
         /\ scopes # <<>> => Len(scopes) \in Nat \ {0}
         /\ Len(scopes) # 0 => scopes # <<>>
BY EmptySeq DEF TypeOK

LEMMA ReferScopes ==
  ASSUME TypeOK, scopes # <<>>, NEW names, Refer(names)
  PROVE  /\ scopes' \in Seq(ScopeType) /\ Len(scopes') = Len(scopes)
         /\ \A i \in 1 .. Len(scopes) :
              /\ scopes'[i].quants = scopes[i].quants
              /\ scopes'[i].kept = scopes[i].kept
              /\ i # Len(scopes) => scopes'[i].refs = scopes[i].refs
         /\ scopes'[Len(scopes)].refs = scopes[Len(scopes)].refs \cup {Id(n) : n \in names}
<1> DEFINE L == Len(scopes)
           last == [scopes[L] EXCEPT !.refs = @ \cup {Id(n) : n \in names}]
<1>1. L \in 1 .. L /\ L \in Nat /\ scopes[L] \in ScopeType
  BY ScopesAre
<1>2. {Id(n) : n \in names} \subseteq Nat
  BY DEF Refer, Known, Id, TypeOK
<1>3. /\ last \in ScopeType /\ last.quants = scopes[L].quants /\ last.kept = scopes[L].kept
      /\ last.refs = scopes[L].refs \cup {Id(n) : n \in names}
  BY <1>1, <1>2 DEF ScopeType
<1>4. scopes' = [scopes EXCEPT ![L] = last]
  BY DEF Refer
<1> HIDE DEF last
<1>5. scopes \in Seq(ScopeType)
  BY DEF TypeOK
<1>6. /\ scopes' \in Seq(ScopeType) /\ Len(scopes') = L
      /\ \A i \in 1 .. L : scopes'[i] = IF i = L THEN last ELSE scopes[i]
  BY <1>1, <1>3, <1>4, <1>5, ExceptSeq
<1> QED BY <1>1, <1>3, <1>6

LEMMA OpenScopes ==
  ASSUME TypeOK, Open
  PROVE  /\ scopes' \in Seq(ScopeType) /\ Len(scopes') = Len(scopes) + 1
         /\ \A i \in 1 .. Len(scopes) : scopes'[i] = scopes[i]
         /\ scopes'[Len(scopes) + 1] = [quants |-> pending, refs |-> {}, kept |-> {}]
<1>1. Scope(pending) \in ScopeType
  BY DEF Scope, ScopeType, TypeOK
<1>2. scopes' = Append(scopes, Scope(pending)) /\ scopes \in Seq(ScopeType)
  BY DEF Open, TypeOK
<1>3. Scope(pending) = [quants |-> pending, refs |-> {}, kept |-> {}]
  BY DEF Scope
<1> QED BY <1>1, <1>2, <1>3, AppendProperties

(* The quantifiers that a closing parenthesis keeps                        *)
Kept == EraseIrrelevants(Last(scopes).quants, Unused(levelNames[level - 1]))

LEMMA CloseScopes ==
  ASSUME TypeOK, Close, level - 1 \in DOMAIN levelNames
  PROVE  LET L     == Len(scopes)
             inner == scopes[L]
             outer == scopes[L - 1]
         IN /\ scopes' \in Seq(ScopeType) /\ Len(scopes') = L - 1 /\ L - 1 \in Nat \ {0}
            /\ \A i \in 1 .. L - 1 :
                 /\ scopes'[i].quants = scopes[i].quants
                 /\ i # L - 1 => scopes'[i] = scopes[i]
            /\ scopes'[L - 1].refs = outer.refs \cup (inner.refs \ IdsOf(Kept))
            /\ IdsOf(scopes'[L - 1].kept) = IdsOf(outer.kept) \cup IdsOf(inner.kept) \cup IdsOf(Kept)
            /\ Kept \subseteq ToSet(inner.quants)
<1> DEFINE L     == Len(scopes)
           inner == scopes[L]
           outer == scopes[L - 1]
           more  == {[id |-> q.id, name |-> q.name, bound |-> q.id \in inner.refs] : q \in Kept}
           last  == [outer EXCEPT !.refs = @ \cup (inner.refs \ IdsOf(Kept)),
                                  !.kept = @ \cup inner.kept \cup more]
<1>1. L \in Nat /\ L > 1 /\ L - 1 \in 1 .. L - 1 /\ L - 1 \in Nat \ {0}
  <2>1. L > 1
    BY DEF Close
  <2>2. L \in Nat
    BY ScopesAre
  <2>3. \A n \in Nat : n > 1 => n - 1 \in 1 .. n - 1 /\ n - 1 \in Nat \ {0}
    OBVIOUS
  <2> QED BY <2>1, <2>2, <2>3
<1>2. scopes \in Seq(ScopeType)
  BY DEF TypeOK
<1>3. inner \in ScopeType /\ outer \in ScopeType
  BY <1>1, ScopesAre
<1>4. /\ Front(scopes) \in Seq(ScopeType) /\ Len(Front(scopes)) = L - 1
      /\ \A i \in 1 .. L - 1 : Front(scopes)[i] = scopes[i]
  <2>1. \A i \in 1 .. L - 1 : scopes[i] \in ScopeType
    BY <1>1, ScopesAre
  <2>2. /\ SubSeq(scopes, 1, L - 1) \in Seq(ScopeType)
        /\ Len(SubSeq(scopes, 1, L - 1)) = L - 1
        /\ \A i \in 1 .. L - 1 : SubSeq(scopes, 1, L - 1)[i] = scopes[i]
    BY <1>1, <1>2
  <2> QED BY <2>2 DEF Front
<1>5. Kept \subseteq ToSet(inner.quants) /\ Kept \subseteq Quantifier
  <2>1. ToSet(inner.quants) \subseteq Quantifier
    BY <1>3, ToSetTypes DEF ScopeType
  <2> QED BY <2>1 DEF Kept, EraseIrrelevants, Last
<1>6. more \subseteq BoundName /\ IdsOf(more) = IdsOf(Kept)
  <2> DEFINE bound(q) == [id |-> q.id, name |-> q.name, bound |-> q.id \in inner.refs]
  <2>1. \A q \in Kept : bound(q) \in BoundName /\ bound(q).id = q.id
    BY <1>5 DEF BoundName, Quantifier
  <2>2. more = {bound(q) : q \in Kept}
    OBVIOUS
  <2> HIDE DEF bound, more
  <2> QED BY <2>1, <2>2 DEF IdsOf
<1>7. /\ last \in ScopeType /\ last.quants = outer.quants
      /\ last.refs = outer.refs \cup (inner.refs \ IdsOf(Kept))
      /\ last.kept = outer.kept \cup inner.kept \cup more
  BY <1>3, <1>6 DEF ScopeType
<1>8. scopes' = [Front(scopes) EXCEPT ![L - 1] = last]
  <2>1. Front(scopes)[L - 1] = outer
    BY <1>1, <1>4
  <2>2. scopes' = [Front(scopes) EXCEPT
          ![L - 1].refs = @ \cup (inner.refs \ IdsOf(Kept)),
          ![L - 1].kept = @ \cup inner.kept \cup more]
    BY DEF Close, Kept, Last
  <2> QED BY <2>1, <2>2, <1>1, <1>3, <1>4 DEF ScopeType
<1> HIDE DEF last, more
<1>9. /\ scopes' \in Seq(ScopeType) /\ Len(scopes') = L - 1
      /\ \A i \in 1 .. L - 1 : scopes'[i] = IF i = L - 1 THEN last ELSE Front(scopes)[i]
  BY <1>1, <1>4, <1>7, <1>8, ExceptSeq
<1>10. IdsOf(last.kept) = IdsOf(outer.kept) \cup IdsOf(inner.kept) \cup IdsOf(Kept)
  BY <1>6, <1>7 DEF IdsOf
<1> QED BY <1>1, <1>4, <1>5, <1>7, <1>9, <1>10

-----------------------------------------------------------------------------
(* The ids that a function binds, and those of the one being read          *)
BoundBy(f) == Ids(formulas[f].args) \cup IdsOf(formulas[f].kept)
Current ==
  Ids(args) \cup Ids(pending)
    \cup UNION {Ids(scopes[i].quants) \cup IdsOf(scopes[i].kept) : i \in DOMAIN scopes}

OnceBound ==
  /\ \A f, g \in DOMAIN formulas : f # g => BoundBy(f) \cap BoundBy(g) = {}
  /\ \A f \in DOMAIN formulas : BoundBy(f) \cap Current = {}

Visible(id, i) == id \in Ids(args) \/ \E j \in 1 .. i : id \in Ids(scopes[j].quants)

RefsVisible ==
  /\ \A i \in DOMAIN scopes : \A id \in scopes[i].refs : Visible(id, i)
  /\ \A f \in DOMAIN formulas : formulas[f].refs \subseteq Ids(formulas[f].args)

Agree == Levels /\ Nesting /\ Mappings /\ RefsUsed /\ IdsBelow /\ RefsVisible /\ OnceBound
IInv  == TypeOK /\ Stages /\ BodyAtZero /\ Agree

LEMMA AgreeImplies ==
  ASSUME Agree
  PROVE  RefsBound /\ IdsOnce
<1>1. RefsBound
  <2>1. \A i \in DOMAIN scopes :
          scopes[i].refs \subseteq Ids(args) \cup UNION {Ids(scopes[j].quants) : j \in 1 .. i}
    BY DEF Agree, RefsVisible, Visible
  <2> QED BY <2>1 DEF Agree, RefsVisible, RefsBound
<1>2. IdsOnce
  BY DEF Agree, OnceBound, BoundBy, Current, IdsOnce
<1> QED BY <1>1, <1>2

(* A step that leaves the tables and the parse stack as they are           *)
LEMMA Quiet ==
  ASSUME Agree,
         UNCHANGED <<level, levelNames, mapping, freeMapping, used, counter, formulas, args,
                     scopes, pending>>
  PROVE  Agree'
<1>1. Levels' /\ Nesting' /\ Mappings'
  <2>1. Depths' = Depths /\ Base' = Base /\ \A k : Nest(k)' = Nest(k)
    BY DEF Depths, Base, Nest
  <2>2. Levels'
    BY <2>1 DEF Agree, Levels
  <2>3. Nesting'
    BY <2>1 DEF Agree, Nesting
  <2>4. Mappings'
    BY DEF Agree, Mappings
  <2> QED BY <2>2, <2>3, <2>4
<1>2. RefsUsed' /\ IdsBelow'
  BY DEF Agree, RefsUsed, IdsBelow, Below
<1>3. RefsVisible' /\ OnceBound'
  BY DEF Agree, RefsVisible, Visible, OnceBound, BoundBy, Current
<1> QED BY <1>1, <1>2, <1>3 DEF Agree

(* A step after which nothing is being read any more                       *)
LEMMA Emptied ==
  ASSUME scopes' = <<>>, pending' = <<>>, args' = <<>>,
         DOMAIN mapping' = {}, DOMAIN freeMapping' = {}
  PROVE  /\ (Levels /\ Nesting /\ Mappings /\ RefsUsed)'
         /\ Current' = {}
<1>1. DOMAIN scopes' = {}
  OBVIOUS
<1>2. Levels' /\ Nesting' /\ Mappings' /\ RefsUsed'
  BY <1>1 DEF Levels, Nesting, Mappings, RefsUsed
<1>3. Current' = {}
  BY <1>1, ToSetOfEmpty DEF Current
<1> QED BY <1>2, <1>3

LEMMA AllEmptied ==
  ASSUME scopes' = <<>>, pending' = <<>>, args' = <<>>,
         mapping' = <<>>, freeMapping' = <<>>, formulas' = <<>>
  PROVE  Agree'
<1>1. DOMAIN mapping' = {} /\ DOMAIN freeMapping' = {} /\ DOMAIN formulas' = {} /\ DOMAIN scopes' = {}
  OBVIOUS
<1>2. IdsBelow'
  BY <1>1, ToSetOfEmpty DEF IdsBelow, Below
<1>3. RefsVisible' /\ OnceBound'
  BY <1>1 DEF RefsVisible, OnceBound
<1> QED BY <1>1, <1>2, <1>3, Emptied DEF Agree

-----------------------------------------------------------------------------
(* The first state, and the actions that read no names                     *)
LEMMA InitIInv == Init => IInv
<1> SUFFICES ASSUME Init PROVE IInv
  OBVIOUS
<1>1. /\ DOMAIN levelNames = {} /\ DOMAIN mapping = {} /\ DOMAIN freeMapping = {}
      /\ DOMAIN formulas = {} /\ DOMAIN scopes = {}
  BY DEF Init
<1>2. TypeOK
  BY <1>1 DEF Init, TypeOK
<1>3. Stages /\ BodyAtZero
  BY <1>1 DEF Init, Stages, BodyAtZero
<1>4. Levels /\ Nesting /\ Mappings /\ RefsUsed
  BY <1>1 DEF Init, Levels, Nesting, Mappings, RefsUsed
<1>5. IdsBelow
  BY <1>1, ToSetOfEmpty DEF Init, IdsBelow, Below
<1>6. RefsVisible /\ OnceBound
  BY <1>1 DEF RefsVisible, OnceBound
<1> QED BY <1>2, <1>3, <1>4, <1>5, <1>6 DEF IInv, Agree

LEMMA BeginIInv ==
  ASSUME IInv, NEW f \in Functions, Begin(f)
  PROVE  IInv'
<1>1. /\ DOMAIN levelNames = {} /\ scopes = <<>> /\ DOMAIN mapping = {} /\ outcome = "ready"
      /\ DOMAIN freeMapping = {} /\ pending = <<>> /\ args = <<>> /\ DOMAIN scopes = {}
  BY DEF Begin, IInv, Stages
<1>2. DOMAIN levelNames' = {0} /\ levelNames'[0] = {}
  <2>1. levelNames' = Put(levelNames, 0, {})
    BY DEF Begin
  <2>2. /\ DOMAIN Put(levelNames, 0, {}) = DOMAIN levelNames \cup {0}
        /\ Put(levelNames, 0, {})[0] = {}
    BY DEF Put
  <2> QED BY <1>1, <2>1, <2>2
<1>3. TypeOK'
  BY <1>2 DEF Begin, IInv, TypeOK
<1>4. Stages' /\ BodyAtZero'
  BY <1>1, <1>2 DEF Begin, IInv, Stages, BodyAtZero
<1>5. (Levels /\ Nesting /\ Mappings /\ RefsUsed)'
  BY <1>1, Emptied DEF Begin
<1>6. IdsBelow' /\ RefsVisible' /\ OnceBound'
  <2>1. UNCHANGED <<mapping, freeMapping, counter, formulas, args, scopes, pending>>
    BY DEF Begin
  <2>2. IdsBelow'
    BY <2>1 DEF IInv, Agree, IdsBelow, Below
  <2>3. RefsVisible'
    BY <2>1 DEF IInv, Agree, RefsVisible, Visible
  <2>4. OnceBound'
    BY <2>1 DEF IInv, Agree, OnceBound, BoundBy, Current
  <2> QED BY <2>2, <2>3, <2>4
<1> QED BY <1>3, <1>4, <1>5, <1>6 DEF IInv, Agree

LEMMA DefineIInv ==
  ASSUME IInv, Define
  PROVE  IInv'
<1>1. /\ scopes = <<>> /\ pending = <<>> /\ DOMAIN mapping = {} /\ DOMAIN scopes = {}
      /\ DOMAIN levelNames = {0} /\ levelNames[0] = {}
  BY DEF Define, tables, IInv, Stages
<1> DEFINE body == [quants |-> <<>>, refs |-> {}, kept |-> {}]
<1>2. scopes' = <<body>>
  BY DEF Define, tables, Scope
<1>3. body \in ScopeType
  BY DEF ScopeType
<1> HIDE DEF body
<1>4. /\ scopes' \in Seq(ScopeType) /\ Len(scopes') = 1 /\ DOMAIN scopes' = {1}
      /\ scopes'[1] = body /\ scopes' # <<>>
  BY <1>2, <1>3
<1>5. body.quants = <<>> /\ body.refs = {} /\ body.kept = {} /\ Ids(body.quants) = {}
  BY ToSetOfEmpty DEF body
<1>6. TypeOK'
  BY <1>4 DEF Define, tables, IInv, TypeOK
<1>7. Stages'
  BY <1>4, <1>1 DEF Define, tables, Stages
<1>8. level \in Nat /\ Base' = level /\ Depths' = {1} /\ Nest(1)' = <<>> /\ level' = level
  BY <1>1, <1>4 DEF Define, tables, IInv, TypeOK, Base, Depths, Nest
<1>9. BodyAtZero'
  BY <1>8 DEF Define, tables, IInv, BodyAtZero
<1>10. Levels'
  <2>1. DOMAIN levelNames' = {0} /\ levelNames'[0] = {}
    BY <1>1 DEF Define, tables
  <2>2. Base' + 1 .. level' = {} /\ Base' + 1 - 1 = level /\ Base' >= 0
    BY <1>8
  <2> QED BY <1>8, <2>1, <2>2, ToSetOfEmpty DEF Levels
<1>11. Nesting'
  BY <1>1, <1>4, <1>5, <1>8, ToSetOfEmpty DEF Define, tables, Nesting
<1>12. Mappings'
  BY DEF Define, tables, IInv, Agree, Mappings
<1>13. RefsUsed'
  BY <1>4, <1>5 DEF RefsUsed
<1>14. IdsBelow'
  <2>1. IdsOf({}) = {}
    BY DEF IdsOf
  <2> QED BY <2>1, <1>4, <1>5 DEF Define, tables, IInv, Agree, IdsBelow, Below
<1>15. RefsVisible'
  BY <1>4, <1>5 DEF Define, tables, IInv, Agree, RefsVisible
<1>16. OnceBound'
  <2>1. Current' = Ids(args) \cup Ids(pending)
    BY <1>4, <1>5 DEF Define, tables, Current, IdsOf
  <2> QED BY <2>1 DEF Define, tables, IInv, Agree, OnceBound, BoundBy, Current
<1> QED BY <1>6, <1>7, <1>9, <1>10, <1>11, <1>12, <1>13, <1>14, <1>15, <1>16 DEF IInv, Agree

LEMMA ConnectiveIInv ==
  ASSUME IInv, Connective
  PROVE  IInv'
<1>1. TypeOK'
  BY DEF Connective, tables, IInv, TypeOK
<1>2. Stages' /\ BodyAtZero'
  BY DEF Connective, tables, IInv, Stages, BodyAtZero, Base
<1>3. Agree'
  BY Quiet DEF Connective, tables, IInv
<1> QED BY <1>1, <1>2, <1>3 DEF IInv

LEMMA ParseIInv ==
  ASSUME IInv, Parse
  PROVE  IInv'
<1>1. TypeOK'
  BY DEF Parse, tables, stack, IInv, TypeOK
<1>2. Stages' /\ BodyAtZero'
  BY DEF Parse, tables, stack, IInv, Stages, BodyAtZero, Base
<1>3. Agree'
  BY Quiet DEF Parse, tables, stack, IInv
<1> QED BY <1>1, <1>2, <1>3 DEF IInv

LEMMA CrashIInv ==
  ASSUME IInv, Crash
  PROVE  IInv'
<1>1. TypeOK'
  BY DEF Crash, tables, stack, IInv, TypeOK
<1>2. Stages' /\ BodyAtZero'
  BY DEF Crash, tables, stack, IInv, Stages, BodyAtZero, Base
<1>3. Agree'
  BY Quiet DEF Crash, tables, stack, IInv
<1> QED BY <1>1, <1>2, <1>3 DEF IInv

-----------------------------------------------------------------------------
(* The actions that end a function or an input                             *)
LEMMA FinalizeIInv ==
  ASSUME IInv, NEW result \in {"parsed", "failed"}, Finalize(result),
         outcome = "ready" \/ result = "failed"
  PROVE  IInv'
<1>1. /\ scopes' = <<>> /\ pending' = <<>> /\ args' = <<>> /\ mapping' = <<>>
      /\ freeMapping' = <<>> /\ formulas' = <<>> /\ levelNames' = <<>> /\ used' = {}
      /\ counter' = 0 /\ expects' = "operand" /\ outcome' = result
      /\ level' = level /\ fname' = fname /\ parses' = parses
  BY DEF Finalize, ResetMappings
<1>2. /\ DOMAIN levelNames' = {} /\ DOMAIN mapping' = {} /\ DOMAIN freeMapping' = {}
      /\ DOMAIN formulas' = {}
  BY <1>1
<1>3. TypeOK'
  BY <1>1, <1>2 DEF IInv, TypeOK
<1>4. Stages'
  BY <1>1, <1>2 DEF Stages
<1>5. BodyAtZero'
  BY <1>1 DEF IInv, BodyAtZero
<1>6. Agree'
  BY <1>1, AllEmptied
<1> QED BY <1>3, <1>4, <1>5, <1>6 DEF IInv

LEMMA CloseEmptyIInv ==
  ASSUME IInv, CloseEmpty
  PROVE  IInv'
<1>1. CASE level - 1 \notin DOMAIN levelNames
  <2>1. Crash
    BY <1>1 DEF CloseEmpty
  <2> QED BY <2>1, CrashIInv
<1>2. CASE level - 1 \in DOMAIN levelNames
  <2>1. /\ scopes' = <<>> /\ pending' = <<>> /\ args' = <<>> /\ mapping' = <<>>
        /\ freeMapping' = <<>> /\ formulas' = <<>> /\ levelNames' = <<>> /\ used' = {}
        /\ counter' = 0 /\ expects' = "operand" /\ outcome' = "failed"
        /\ level' = level - 1 /\ fname' = fname /\ parses' = parses
    BY <1>2 DEF CloseEmpty
  <2>2. /\ DOMAIN levelNames' = {} /\ DOMAIN mapping' = {} /\ DOMAIN freeMapping' = {}
        /\ DOMAIN formulas' = {}
    BY <2>1
  <2>3. TypeOK'
    BY <1>2, <2>1, <2>2 DEF IInv, TypeOK
  <2>4. Stages' /\ BodyAtZero'
    BY <2>1, <2>2 DEF Stages, BodyAtZero
  <2>5. Agree'
    BY <2>1, AllEmptied
  <2> QED BY <2>3, <2>4, <2>5 DEF IInv
<1> QED BY <1>1, <1>2

LEMMA EndFunctionIInv ==
  ASSUME IInv, EndFunction
  PROVE  IInv'
<1> DEFINE body == scopes[1]
           function == [args |-> args, refs |-> body.refs, kept |-> body.kept]
<1>1. /\ outcome = "body" /\ Len(scopes) = 1 /\ scopes # <<>> /\ pending = <<>>
      /\ body \in ScopeType /\ body.quants = <<>> /\ DOMAIN scopes = {1}
  <2>1. outcome = "body" /\ Len(scopes) = 1 /\ expects = "operator"
    BY DEF EndFunction
  <2>2. scopes # <<>> /\ pending = <<>>
    BY <2>1 DEF IInv, Stages
  <2>3. DOMAIN scopes = {1} /\ scopes[1] \in ScopeType
    BY <2>1, ScopesAre DEF IInv
  <2>4. body.quants = <<>>
    BY <2>2 DEF IInv, Agree, Nesting
  <2> QED BY <2>1, <2>2, <2>3, <2>4
<1>2. function \in Function
  BY <1>1 DEF IInv, TypeOK, ScopeType, Function
<1>3. /\ DOMAIN formulas' = DOMAIN formulas \cup {fname} /\ formulas'[fname] = function
      /\ \A f \in DOMAIN formulas \ {fname} : formulas'[f] = formulas[f]
  BY DEF EndFunction, Put
<1>4. /\ function.args = args /\ function.refs = body.refs /\ function.kept = body.kept
  OBVIOUS
<1> HIDE DEF function
<1>5. /\ scopes' = <<>> /\ pending' = <<>> /\ args' = <<>> /\ mapping' = <<>>
      /\ freeMapping' = <<>> /\ levelNames' = <<>> /\ used' = {} /\ counter' = counter
      /\ expects' = "operand" /\ outcome' = "ready" /\ level' = level /\ fname' = fname
      /\ parses' = parses
  BY <1>1 DEF EndFunction, ResetMappings
<1>6. /\ DOMAIN levelNames' = {} /\ DOMAIN mapping' = {} /\ DOMAIN freeMapping' = {}
      /\ DOMAIN scopes' = {}
  BY <1>5
<1>7. TypeOK'
  BY <1>2, <1>3, <1>5, <1>6 DEF IInv, TypeOK
<1>8. Stages'
  BY <1>5, <1>6 DEF Stages
<1>9. BodyAtZero'
  BY <1>1, <1>5 DEF IInv, TypeOK, BodyAtZero, Base
<1>10. (Levels /\ Nesting /\ Mappings /\ RefsUsed)' /\ Current' = {}
  BY <1>5, <1>6, Emptied
<1>11. Ids(args) \cup IdsOf(body.kept) \subseteq 0 .. counter - 1
  BY <1>1 DEF IInv, Agree, IdsBelow, Below
<1>12. IdsBelow'
  <2>1. \A f \in DOMAIN formulas' :
          Ids(formulas'[f].args) \subseteq 0 .. counter - 1 /\ IdsOf(formulas'[f].kept) \subseteq 0 .. counter - 1
    BY <1>3, <1>4, <1>11 DEF IInv, Agree, IdsBelow, Below
  <2> QED BY <2>1, <1>5, <1>6, ToSetOfEmpty DEF IdsBelow, Below
<1>13. RefsVisible'
  <2>1. body.refs \subseteq Ids(args)
    <3>1. ASSUME NEW id \in body.refs PROVE id \in Ids(args)
      <4>1. Visible(id, 1)
        BY <1>1 DEF IInv, Agree, RefsVisible
      <4> QED BY <4>1, <1>1, ToSetOfEmpty DEF Visible
    <3> QED BY <3>1
  <2>2. \A f \in DOMAIN formulas' : formulas'[f].refs \subseteq Ids(formulas'[f].args)
    BY <2>1, <1>3, <1>4 DEF IInv, Agree, RefsVisible
  <2> QED BY <2>2, <1>6 DEF RefsVisible
<1>14. OnceBound'
  <2>1. BoundBy(fname)' \subseteq Current
    BY <1>1, <1>3, <1>4, <1>5 DEF BoundBy, Current
  <2>2. \A f \in DOMAIN formulas \ {fname} : BoundBy(f)' = BoundBy(f)
    BY <1>3 DEF BoundBy
  <2>3. \A f \in DOMAIN formulas \ {fname} : BoundBy(f)' \cap BoundBy(fname)' = {}
    BY <2>1, <2>2 DEF IInv, Agree, OnceBound
  <2>4. ASSUME NEW f \in DOMAIN formulas', NEW g \in DOMAIN formulas', f # g
        PROVE  BoundBy(f)' \cap BoundBy(g)' = {}
    <3>1. CASE f = fname  BY <3>1, <2>3, <2>4, <1>3, <1>5
    <3>2. CASE g = fname  BY <3>2, <2>3, <2>4, <1>3, <1>5
    <3>3. CASE f # fname /\ g # fname
      BY <3>3, <2>2, <2>4, <1>3 DEF IInv, Agree, OnceBound
    <3> QED BY <3>1, <3>2, <3>3
  <2> QED BY <2>4, <1>10 DEF OnceBound
<1> QED BY <1>7, <1>8, <1>9, <1>10, <1>12, <1>13, <1>14 DEF IInv, Agree

-----------------------------------------------------------------------------
(* A new id: the argument of a function                                    *)
LEMMA NewFreeIInv ==
  ASSUME IInv, NEW n \in Names, NewFree(n)
  PROVE  IInv'
<1> DEFINE arg == [id |-> counter, name |-> n]
<1>1. arg \in Quantifier /\ arg.id = counter /\ arg.name = n /\ counter \in Nat
  BY DEF IInv, TypeOK, Quantifier
<1>2. /\ outcome = "arguments" /\ args' = Append(args, arg) /\ counter' = counter + 1
      /\ freeMapping' = Put(freeMapping, n, counter)
      /\ UNCHANGED <<level, levelNames, mapping, used, formulas, fname, scopes, pending,
                     expects, outcome, parses>>
  BY DEF NewFree, PName
<1> HIDE DEF arg
<1>3. args' \in Seq(Quantifier) /\ Ids(args') = Ids(args) \cup {counter}
  BY <1>1, <1>2, ToSetOfAppend DEF IInv, TypeOK
<1>4. /\ DOMAIN freeMapping' = DOMAIN freeMapping \cup {n} /\ freeMapping'[n] = counter
      /\ \A m \in DOMAIN freeMapping \ {n} : freeMapping'[m] = freeMapping[m]
  BY <1>2 DEF Put
<1>5. /\ scopes = <<>> /\ pending = <<>> /\ DOMAIN mapping = {} /\ DOMAIN scopes = {}
      /\ DOMAIN levelNames = {0} /\ levelNames[0] = {}
  BY <1>2 DEF IInv, Stages
<1>6. TypeOK'
  BY <1>1, <1>2, <1>3, <1>4 DEF IInv, TypeOK
<1>7. Stages' /\ BodyAtZero'
  BY <1>2, <1>5 DEF IInv, Stages, BodyAtZero
<1>8. (Levels /\ Nesting /\ RefsUsed)'
  BY <1>2, <1>5 DEF Levels, Nesting, RefsUsed
<1>9. Mappings'
  BY <1>2, <1>3, <1>4, <1>5 DEF IInv, Agree, Mappings
<1>10. 0 .. counter - 1 \subseteq 0 .. counter' - 1 /\ counter \in 0 .. counter' - 1
  BY <1>1, <1>2
<1>11. IdsBelow'
  <2>1. {freeMapping'[m] : m \in DOMAIN freeMapping'} \subseteq 0 .. counter' - 1
    BY <1>4, <1>10 DEF IInv, Agree, IdsBelow, Below
  <2>2. Ids(args') \subseteq 0 .. counter' - 1
    BY <1>3, <1>10 DEF IInv, Agree, IdsBelow, Below
  <2>3. \A f \in DOMAIN formulas :
          /\ Ids(formulas[f].args) \subseteq 0 .. counter' - 1
          /\ IdsOf(formulas[f].kept) \subseteq 0 .. counter' - 1
    BY <1>10 DEF IInv, Agree, IdsBelow, Below
  <2> QED BY <2>1, <2>2, <2>3, <1>2, <1>5, ToSetOfEmpty DEF IdsBelow, Below
<1>12. RefsVisible'
  BY <1>2, <1>5 DEF IInv, Agree, RefsVisible
<1>13. OnceBound'
  <2>1. Current' = Current \cup {counter}
    BY <1>2, <1>3 DEF Current
  <2>2. \A f \in DOMAIN formulas : counter \notin BoundBy(f)
    BY <1>1 DEF IInv, Agree, IdsBelow, Below, BoundBy
  <2> QED BY <2>1, <2>2, <1>2 DEF IInv, Agree, OnceBound, BoundBy
<1> QED BY <1>6, <1>7, <1>8, <1>9, <1>11, <1>12, <1>13 DEF IInv, Agree

-----------------------------------------------------------------------------
(* A new id: a quantifier                                                  *)
LEMMA NewQuantifiedIInv ==
  ASSUME IInv, NEW n \in Names, NewQuantified(n)
  PROVE  IInv'
<1>1. CASE level \notin DOMAIN levelNames
  <2>1. Crash
    BY <1>1 DEF NewQuantified, PName
  <2> QED BY <2>1, CrashIInv
<1>2. CASE level \in DOMAIN levelNames
  <2> DEFINE L == Len(scopes)
             quantifier == [id |-> counter, name |-> n]
  <2>1. /\ quantifier \in Quantifier /\ quantifier.id = counter /\ quantifier.name = n
        /\ counter \in Nat /\ level \in Nat
    BY DEF IInv, TypeOK, Quantifier
  <2>2. /\ outcome = "body" /\ expects # "operator"
        /\ n \notin DOMAIN mapping /\ n \notin DOMAIN freeMapping
        /\ levelNames' = [levelNames EXCEPT ![level] = @ \cup {n}]
        /\ mapping' = Put(mapping, n, counter) /\ counter' = counter + 1
        /\ pending' = Append(pending, quantifier)
        /\ UNCHANGED <<level, freeMapping, used, formulas, fname, args, scopes, expects,
                       outcome, parses>>
    BY <1>2 DEF NewQuantified, PName
  <2> HIDE DEF quantifier
  <2>3. /\ pending' \in Seq(Quantifier) /\ ToSet(pending') = ToSet(pending) \cup {quantifier}
        /\ Ids(pending') = Ids(pending) \cup {counter}
        /\ NamesOf(pending') = NamesOf(pending) \cup {n}
    BY <2>1, <2>2, ToSetOfAppend DEF IInv, TypeOK
  <2>4. /\ DOMAIN mapping' = DOMAIN mapping \cup {n} /\ mapping'[n] = counter
        /\ \A m \in DOMAIN mapping : mapping'[m] = mapping[m]
    BY <2>2 DEF Put
  <2>5. /\ DOMAIN levelNames' = DOMAIN levelNames /\ levelNames'[level] = levelNames[level] \cup {n}
        /\ \A l \in DOMAIN levelNames \ {level} : levelNames'[l] = levelNames[l]
    BY <1>2, <2>2
  <2>6. scopes # <<>> /\ L \in Nat \ {0} /\ DOMAIN scopes = 1 .. L
    BY <2>2, ScopesAre DEF IInv, Stages
  <2>7. TypeOK'
    BY <2>1, <2>2, <2>3, <2>4, <2>5 DEF IInv, TypeOK
  <2>8. Stages' /\ BodyAtZero'
    BY <2>2, <2>6 DEF IInv, Stages, BodyAtZero, Base
  <2>9. /\ Depths' = Depths /\ Base' = Base /\ Depths = 1 .. L /\ L \in Depths
        /\ Base \in Int /\ Base >= 0 /\ level = Base + L - 1
    BY <2>1, <2>2, <2>6 DEF IInv, Agree, Levels, Depths, Base
  <2>10. \A k \in Depths : /\ k = L => Nest(k) = pending /\ Nest(k)' = pending'
                           /\ k # L => Nest(k)' = Nest(k)
    <3>1. \A k : Nest(k)' = IF k < L THEN scopes[k + 1].quants ELSE pending'
      BY <2>2 DEF Nest
    <3>2. \A k \in Depths : k \in Nat /\ (k = L \/ k < L)
      <4>1. \A m \in Nat : \A k \in 1 .. m : k \in Nat /\ (k = m \/ k < m)
        OBVIOUS
      <4>2. L \in Nat
        BY <2>6
      <4> QED BY <4>1, <4>2 DEF Depths
    <3> QED BY <3>1, <3>2, <2>6 DEF Nest
  <2>11. Levels'
    <3>1. ASSUME Base > 0 PROVE levelNames'[0] = {} /\ Nest(1)' = <<>>
      <4>1. level # 0 /\ 0 \in DOMAIN levelNames /\ levelNames[0] = {} /\ Nest(1) = <<>>
        BY <3>1, <2>6, <2>9 DEF IInv, Agree, Levels
      <4>2. L # 1
        BY <1>2, <3>1, <2>6, <2>9 DEF IInv, Agree, Levels
      <4>3. levelNames'[0] = {}
        BY <4>1, <2>1, <2>5
      <4>4. 1 \in Depths
        BY <2>6, <2>9
      <4> QED BY <4>1, <4>2, <4>3, <4>4, <2>10
    <3>2. ASSUME NEW k \in Depths, Base + k - 1 \in DOMAIN levelNames
          PROVE  levelNames'[Base + k - 1] = NamesOf(Nest(k)')
      <4>1. levelNames[Base + k - 1] = NamesOf(Nest(k))
        BY <3>2, <2>6 DEF IInv, Agree, Levels
      <4>2. CASE k = L
        <5>1. Base + k - 1 = level
          BY <4>2, <2>9
        <5> QED BY <4>1, <4>2, <5>1, <2>3, <2>5, <2>10
      <4>3. CASE k # L
        <5>1. Base + k - 1 # level
          <6>1. k \in Int /\ L \in Int /\ Base \in Int
            BY <2>6, <2>9
          <6>2. Base + k - 1 # Base + L - 1
            BY <6>1, <4>3
          <6> QED BY <6>2, <2>9
        <5> QED BY <4>1, <4>3, <5>1, <3>2, <2>5, <2>10
      <4> QED BY <4>2, <4>3
    <3>3. DOMAIN levelNames' = {0} \cup (Base + 1 .. level)
      BY <2>5, <2>6 DEF IInv, Agree, Levels
    <3> QED BY <3>1, <3>2, <3>3, <2>2, <2>5, <2>9 DEF Levels
  <2>12. Nesting'
    <3>1. /\ DOMAIN mapping = UNION {NamesOf(Nest(k)) : k \in Depths}
          /\ \A k \in Depths : \A q \in ToSet(Nest(k)) : mapping[q.name] = q.id
          /\ \A j, k \in Depths : j # k => NamesOf(Nest(j)) \cap NamesOf(Nest(k)) = {}
          /\ scopes[1].quants = <<>>
      BY <2>6 DEF IInv, Agree, Nesting
    <3>2. \A k \in Depths : NamesOf(Nest(k)') = IF k = L THEN NamesOf(Nest(k)) \cup {n} ELSE NamesOf(Nest(k))
      BY <2>3, <2>10
    <3>3. DOMAIN mapping' = UNION {NamesOf(Nest(k)') : k \in Depths}
      BY <3>1, <3>2, <2>4, <2>9
    <3>4. ASSUME NEW k \in Depths, NEW q \in ToSet(Nest(k)') PROVE mapping'[q.name] = q.id
      <4>1. CASE q = quantifier
        BY <4>1, <2>1, <2>4
      <4>2. CASE q # quantifier
        <5>1. q \in ToSet(Nest(k))
          BY <4>2, <3>4, <2>3, <2>10
        <5>2. q.name \in NamesOf(Nest(k))
          BY <5>1 DEF NamesOf
        <5> QED BY <5>1, <5>2, <3>1, <2>4
      <4> QED BY <4>1, <4>2
    <3>5. \A j, k \in Depths : j # k => NamesOf(Nest(j)') \cap NamesOf(Nest(k)') = {}
      <4>1. \A k \in Depths : n \notin NamesOf(Nest(k))
        BY <3>1, <2>2
      <4> QED BY <4>1, <3>1, <3>2
    <3> QED BY <3>1, <3>3, <3>4, <3>5, <2>2, <2>9 DEF Nesting
  <2>13. Mappings'
    <3>1. /\ \A m \in DOMAIN mapping : mapping[m] \in 0 .. counter - 1
          /\ \A m \in DOMAIN freeMapping : freeMapping[m] \in 0 .. counter - 1
      BY DEF IInv, Agree, IdsBelow, Below
    <3>2. /\ \A m \in DOMAIN mapping : mapping[m] # counter
          /\ \A m \in DOMAIN freeMapping : freeMapping[m] # counter
      BY <3>1, <2>1
    <3> QED BY <3>2, <2>2, <2>4 DEF IInv, Agree, Mappings
  <2>14. RefsUsed'
    <3>1. \A i \in DOMAIN scopes : counter \notin scopes[i].refs
      BY <2>1 DEF IInv, Agree, IdsBelow, Below
    <3> QED BY <3>1, <2>2, <2>4 DEF IInv, Agree, RefsUsed
  <2>15. 0 .. counter - 1 \subseteq 0 .. counter' - 1 /\ counter \in 0 .. counter' - 1
    BY <2>1, <2>2
  <2>16. IdsBelow'
    <3>1. {mapping'[m] : m \in DOMAIN mapping'} \subseteq 0 .. counter' - 1
      BY <2>4, <2>15 DEF IInv, Agree, IdsBelow, Below
    <3>2. Ids(pending') \subseteq 0 .. counter' - 1
      BY <2>3, <2>15 DEF IInv, Agree, IdsBelow, Below
    <3>3. /\ {freeMapping[m] : m \in DOMAIN freeMapping} \subseteq 0 .. counter' - 1
          /\ Ids(args) \subseteq 0 .. counter' - 1
      BY <2>15 DEF IInv, Agree, IdsBelow, Below
    <3>4. \A i \in DOMAIN scopes :
            /\ Ids(scopes[i].quants) \subseteq 0 .. counter' - 1
            /\ IdsOf(scopes[i].kept) \subseteq 0 .. counter' - 1
            /\ scopes[i].refs \subseteq 0 .. counter' - 1
      BY <2>15 DEF IInv, Agree, IdsBelow, Below
    <3>5. \A f \in DOMAIN formulas :
            /\ Ids(formulas[f].args) \subseteq 0 .. counter' - 1
            /\ IdsOf(formulas[f].kept) \subseteq 0 .. counter' - 1
      BY <2>15 DEF IInv, Agree, IdsBelow, Below
    <3> QED BY <3>1, <3>2, <3>3, <3>4, <3>5, <2>2 DEF IdsBelow, Below
  <2>17. RefsVisible'
    BY <2>2 DEF IInv, Agree, RefsVisible, Visible
  <2>18. OnceBound'
    <3>1. Current' = Current \cup {counter}
      BY <2>2, <2>3 DEF Current
    <3>2. \A f \in DOMAIN formulas : counter \notin BoundBy(f)
      BY <2>1 DEF IInv, Agree, IdsBelow, Below, BoundBy
    <3> QED BY <3>1, <3>2, <2>2 DEF IInv, Agree, OnceBound, BoundBy
  <2> QED BY <2>7, <2>8, <2>11, <2>12, <2>13, <2>14, <2>16, <2>17, <2>18 DEF IInv, Agree
<1> QED BY <1>1, <1>2

-----------------------------------------------------------------------------
LEMMA UpTo == \A m \in Nat : \A k \in 1 .. m : k \in Nat /\ (k = m \/ k < m)
OBVIOUS

(* An opening parenthesis                                                  *)
LEMMA OpenIInv ==
  ASSUME IInv, Open
  PROVE  IInv'
<1> DEFINE L == Len(scopes)
<1>1. /\ outcome = "body" /\ level' = level + 1 /\ levelNames' = Put(levelNames, level + 1, {})
      /\ pending' = <<>> /\ expects' = "first"
      /\ UNCHANGED <<mapping, freeMapping, used, counter, formulas, fname, args, outcome, parses>>
  BY DEF Open
<1>2. /\ scopes # <<>> /\ L \in Nat /\ L \in Nat \ {0} /\ DOMAIN scopes = 1 .. L /\ level \in Nat
      /\ Depths = 1 .. L
  BY <1>1, ScopesAre DEF IInv, Stages, TypeOK, Depths
<1>3. /\ scopes' \in Seq(ScopeType) /\ Len(scopes') = L + 1
      /\ \A i \in 1 .. L : scopes'[i] = scopes[i]
      /\ scopes'[L + 1] = [quants |-> pending, refs |-> {}, kept |-> {}]
  BY OpenScopes DEF IInv
<1>4. /\ scopes'[L + 1].quants = pending /\ scopes'[L + 1].refs = {} /\ scopes'[L + 1].kept = {}
      /\ DOMAIN scopes' = 1 .. L + 1 /\ scopes' # <<>>
  BY <1>2, <1>3
<1>5. /\ DOMAIN levelNames' = DOMAIN levelNames \cup {level + 1}
      /\ levelNames'[level + 1] = {}
      /\ \A l \in DOMAIN levelNames \ {level + 1} : levelNames'[l] = levelNames[l]
  BY <1>1 DEF Put
<1>6. TypeOK'
  <2>1. level' \in Nat /\ DOMAIN levelNames' \subseteq Nat
    BY <1>1, <1>2, <1>5 DEF IInv, TypeOK
  <2>2. \A l \in DOMAIN levelNames' : levelNames'[l] \subseteq Names
    BY <1>5 DEF IInv, TypeOK
  <2>3. pending' \in Seq(Quantifier)
    BY <1>1
  <2> QED BY <2>1, <2>2, <2>3, <1>1, <1>3 DEF IInv, TypeOK
<1>7. /\ Base' = Base /\ Base \in Int /\ Base >= 0 /\ level = Base + L - 1
      /\ level' = Base + L
  <2>1. Base >= 0
    BY <1>2 DEF IInv, Agree, Levels
  <2>2. Base' = level' + 1 - Len(scopes') /\ Base = level + 1 - L
    BY DEF Base
  <2> QED BY <2>1, <2>2, <1>1, <1>2, <1>3
<1>8. Stages' /\ BodyAtZero'
  <2>1. Len(scopes') > 1
    BY <1>2, <1>3
  <2>2. Stages'
    BY <2>1, <1>1, <1>4 DEF IInv, Stages
  <2>3. BodyAtZero'
    BY <1>1, <1>2, <1>7 DEF IInv, BodyAtZero
  <2> QED BY <2>2, <2>3
<1>9. \A k \in Depths' : /\ k = L + 1 => Nest(k)' = <<>>
                         /\ k # L + 1 => k \in Depths /\ Nest(k)' = Nest(k)
  <2>1. Depths' = 1 .. L + 1
    BY <1>3 DEF Depths
  <2>2. ASSUME NEW k \in 1 .. L + 1
        PROVE  /\ k = L + 1 => Nest(k)' = <<>>
               /\ k # L + 1 => k \in 1 .. L /\ Nest(k)' = Nest(k)
    <3>1. Nest(k)' = IF k < L + 1 THEN scopes'[k + 1].quants ELSE <<>>
      BY <1>1, <1>3 DEF Nest
    <3>2. CASE k = L + 1
      BY <3>1, <3>2, <1>2
    <3>3. CASE k = L
      <4>1. k < L + 1 /\ k \in 1 .. L /\ ~(k < L) /\ k # L + 1
        BY <3>3, <1>2
      <4> QED BY <4>1, <3>1, <3>3, <1>4 DEF Nest
    <3>4. CASE k < L
      <4>1. k < L + 1 /\ k \in 1 .. L /\ k + 1 \in 1 .. L /\ k # L + 1
        BY <3>4, <1>2
      <4>2. scopes'[k + 1] = scopes[k + 1]
        BY <4>1, <1>3
      <4>3. Nest(k)' = scopes'[k + 1].quants
        BY <4>1, <3>1
      <4>4. Nest(k) = scopes[k + 1].quants
        BY <3>4 DEF Nest
      <4> QED BY <4>1, <4>2, <4>3, <4>4
    <3>5. k = L + 1 \/ k = L \/ k < L
      <4>1. \A m \in Nat : \A j \in 1 .. m + 1 : j = m + 1 \/ j = m \/ j < m
        OBVIOUS
      <4> QED BY <4>1, <1>2
    <3> QED BY <3>2, <3>3, <3>4, <3>5
  <2> QED BY <2>1, <2>2, <1>2
<1>10. Depths' = Depths \cup {L + 1} /\ 1 \in Depths /\ Depths \subseteq Nat
  BY <1>2, <1>3 DEF Depths
<1>11. NamesOf(<<>>) = {} /\ ToSet(<<>>) = {}
  BY ToSetOfEmpty
<1>12. Levels'
  <2>1. /\ DOMAIN levelNames = {0} \cup (Base + 1 .. level)
        /\ Base > 0 => levelNames[0] = {} /\ Nest(1) = <<>>
        /\ \A k \in Depths : Base + k - 1 \in DOMAIN levelNames =>
             levelNames[Base + k - 1] = NamesOf(Nest(k))
    BY <1>2 DEF IInv, Agree, Levels
  <2>2. DOMAIN levelNames' = {0} \cup (Base + 1 .. level')
    <3>1. (Base + 1 .. level) \cup {level + 1} = Base + 1 .. level + 1
      BY <1>2, <1>7
    <3> QED BY <3>1, <2>1, <1>1, <1>5
  <2>3. ASSUME Base > 0 PROVE levelNames'[0] = {} /\ Nest(1)' = <<>>
    <3>1. 0 # level + 1 /\ 1 # L + 1
      BY <1>2
    <3> QED BY <3>1, <2>1, <2>3, <1>5, <1>9, <1>10
  <2>4. ASSUME NEW k \in Depths', Base + k - 1 \in DOMAIN levelNames'
        PROVE  levelNames'[Base + k - 1] = NamesOf(Nest(k)')
    <3>1. CASE k = L + 1
      <4>1. Base + k - 1 = level + 1
        BY <3>1, <1>7, <1>2
      <4> QED BY <4>1, <3>1, <1>5, <1>9, <1>11
    <3>2. CASE k # L + 1
      <4>1. k \in Depths /\ Nest(k)' = Nest(k) /\ k \in 1 .. L
        BY <3>2, <1>9, <1>2
      <4>2. Base + k - 1 # level + 1
        BY <4>1, <1>2, <1>7
      <4> QED BY <4>1, <4>2, <2>1, <2>4, <1>5
    <3> QED BY <3>1, <3>2
  <2> QED BY <2>2, <2>3, <2>4, <1>7 DEF Levels
<1>13. Nesting'
  <2>1. /\ DOMAIN mapping = UNION {NamesOf(Nest(k)) : k \in Depths}
        /\ \A k \in Depths : \A q \in ToSet(Nest(k)) : mapping[q.name] = q.id
        /\ \A j, k \in Depths : j # k => NamesOf(Nest(j)) \cap NamesOf(Nest(k)) = {}
        /\ scopes[1].quants = <<>>
    BY <1>2 DEF IInv, Agree, Nesting
  <2>2. \A k \in Depths' :
          /\ NamesOf(Nest(k)') = IF k \in Depths THEN NamesOf(Nest(k)) ELSE {}
          /\ ToSet(Nest(k)') = IF k \in Depths THEN ToSet(Nest(k)) ELSE {}
    <3>1. L + 1 \notin Depths
      BY <1>2
    <3> QED BY <3>1, <1>9, <1>10, <1>11
  <2>3. UNION {NamesOf(Nest(k)') : k \in Depths'} = UNION {NamesOf(Nest(k)) : k \in Depths}
    BY <2>2, <1>10
  <2>4. scopes'[1].quants = <<>>
    BY <2>1, <1>2, <1>3
  <2> QED BY <2>1, <2>2, <2>3, <2>4, <1>1 DEF Nesting
<1>14. Mappings'
  BY <1>1 DEF IInv, Agree, Mappings
<1>15. \A i \in DOMAIN scopes' :
         \/ i \in DOMAIN scopes /\ scopes'[i] = scopes[i]
         \/ i = L + 1 /\ scopes'[i].refs = {} /\ scopes'[i].quants = pending /\ scopes'[i].kept = {}
  BY <1>2, <1>3, <1>4
<1>16. RefsUsed'
  BY <1>1, <1>15 DEF IInv, Agree, RefsUsed
<1>17. Ids(<<>>) = {} /\ IdsOf({}) = {}
  BY ToSetOfEmpty DEF IdsOf
<1>18. IdsBelow'
  <2>1. \A i \in DOMAIN scopes' :
          /\ Ids(scopes'[i].quants) \subseteq 0 .. counter - 1
          /\ IdsOf(scopes'[i].kept) \subseteq 0 .. counter - 1
          /\ scopes'[i].refs \subseteq 0 .. counter - 1
    BY <1>15, <1>17 DEF IInv, Agree, IdsBelow, Below
  <2> QED BY <2>1, <1>1, <1>17 DEF IInv, Agree, IdsBelow, Below
<1>19. RefsVisible'
  <2>1. ASSUME NEW i \in DOMAIN scopes', NEW id \in scopes'[i].refs PROVE Visible(id, i)'
    <3>1. i \in 1 .. L /\ scopes'[i] = scopes[i]
      BY <2>1, <1>2, <1>15
    <3>2. Visible(id, i)
      BY <3>1, <2>1, <1>2 DEF IInv, Agree, RefsVisible
    <3>3. \A j \in 1 .. i : scopes'[j] = scopes[j]
      BY <3>1, <1>2, <1>3
    <3> QED BY <3>2, <3>3, <1>1 DEF Visible
  <2> QED BY <2>1, <1>1 DEF IInv, Agree, RefsVisible
<1>20. OnceBound'
  <2>1. Current' \subseteq Current
    BY <1>1, <1>15, <1>17 DEF Current
  <2> QED BY <2>1, <1>1 DEF IInv, Agree, OnceBound, BoundBy
<1> QED BY <1>6, <1>8, <1>12, <1>13, <1>14, <1>16, <1>18, <1>19, <1>20 DEF IInv, Agree

-----------------------------------------------------------------------------
(* A name is referred to                                                   *)
LEMMA ReferIInv ==
  ASSUME IInv, NEW names, Refer(names)
  PROVE  IInv'
<1> DEFINE L == Len(scopes)
<1>1. /\ outcome = "body" /\ pending = <<>> /\ names \subseteq Known
      /\ used' = used \cup (names \cap DOMAIN mapping) /\ expects' = "operator"
      /\ UNCHANGED <<level, levelNames, mapping, freeMapping, counter, formulas, fname, args,
                     pending, outcome, parses>>
  BY DEF Refer
<1>2. /\ scopes # <<>> /\ L \in Nat /\ L \in Nat \ {0} /\ DOMAIN scopes = 1 .. L
      /\ Depths = 1 .. L
  BY <1>1, ScopesAre DEF IInv, Stages, TypeOK, Depths
<1>3. /\ scopes' \in Seq(ScopeType) /\ Len(scopes') = L
      /\ \A i \in 1 .. L :
           /\ scopes'[i].quants = scopes[i].quants
           /\ scopes'[i].kept = scopes[i].kept
           /\ i # L => scopes'[i].refs = scopes[i].refs
      /\ scopes'[L].refs = scopes[L].refs \cup {Id(n) : n \in names}
  BY <1>2, ReferScopes DEF IInv
<1>4. DOMAIN scopes' = 1 .. L /\ scopes' # <<>> /\ 1 \in 1 .. L /\ L \in 1 .. L
  <2>1. DOMAIN scopes' = 1 .. L
    BY <1>3
  <2>2. 1 \in 1 .. L /\ L \in 1 .. L
    BY <1>2
  <2> QED BY <2>1, <2>2
<1>5. TypeOK'
  <2>1. DOMAIN mapping \subseteq Names
    BY DEF IInv, TypeOK
  <2> QED BY <2>1, <1>1, <1>3 DEF IInv, TypeOK
<1>6. Stages' /\ BodyAtZero'
  BY <1>1, <1>2, <1>3, <1>4 DEF IInv, Stages, BodyAtZero, Base
<1>7. Depths' = Depths /\ Base' = Base /\ \A k \in Depths : Nest(k)' = Nest(k)
  <2>1. \A k \in 1 .. L : k < L => k + 1 \in 1 .. L
    BY <1>2
  <2> QED BY <2>1, <1>1, <1>2, <1>3 DEF Depths, Base, Nest
<1>8. Levels'
  <2>1. 1 \in Depths
    BY <1>2
  <2> QED BY <2>1, <1>1, <1>2, <1>7 DEF IInv, Agree, Levels
<1>9. Nesting'
  <2>1. scopes'[1].quants = scopes[1].quants
    BY <1>3, <1>4
  <2> QED BY <2>1, <1>1, <1>2, <1>7 DEF IInv, Agree, Nesting
<1>10. Mappings'
  BY <1>1 DEF IInv, Agree, Mappings
<1>11. \A n \in names : Id(n) \in Nat /\ (n \in DOMAIN mapping \/ (n \in DOMAIN freeMapping /\ n \notin DOMAIN mapping))
  BY <1>1 DEF IInv, TypeOK, Known, Id
<1>12. RefsUsed'
  <2>1. ASSUME NEW i \in 1 .. L, NEW n \in DOMAIN mapping, mapping[n] \in scopes'[i].refs
        PROVE  n \in used'
    <3>1. CASE mapping[n] \in scopes[i].refs
      BY <3>1, <1>1, <1>2 DEF IInv, Agree, RefsUsed
    <3>2. CASE mapping[n] \notin scopes[i].refs
      <4>1. PICK m \in names : mapping[n] = Id(m)
        BY <3>2, <2>1, <1>3
      <4>2. m \in DOMAIN mapping /\ m = n
        BY <4>1, <1>11 DEF IInv, Agree, Mappings, Id
      <4> QED BY <4>2, <1>1
    <3> QED BY <3>1, <3>2
  <2> QED BY <2>1, <1>1, <1>4 DEF RefsUsed
<1>13. ASSUME NEW n \in names PROVE Id(n) \in 0 .. counter - 1 /\ Visible(Id(n), L)
  <2>1. CASE n \in DOMAIN mapping
    <3>1. PICK k \in Depths : n \in NamesOf(Nest(k))
      BY <2>1, <1>2 DEF IInv, Agree, Nesting
    <3>2. PICK q \in ToSet(Nest(k)) : q.name = n
      BY <3>1 DEF NamesOf
    <3>3. q.id = mapping[n] /\ mapping[n] = Id(n)
      BY <3>2, <2>1, <1>2 DEF IInv, Agree, Nesting, Id
    <3>4. k < L
      <4>1. CASE k = L
        BY <4>1, <3>1, <1>1, <1>2, ToSetOfEmpty DEF Nest
      <4> QED BY <4>1, <1>2, UpTo
    <3>5. k + 1 \in 1 .. L /\ Nest(k) = scopes[k + 1].quants
      BY <3>4, <1>2 DEF Nest
    <3>6. Id(n) \in Ids(scopes[k + 1].quants)
      BY <3>2, <3>3, <3>5 DEF Ids, IdsOf
    <3>7. Id(n) \in 0 .. counter - 1
      BY <3>3, <2>1 DEF IInv, Agree, IdsBelow, Below
    <3> QED BY <3>5, <3>6, <3>7 DEF Visible
  <2>2. CASE n \notin DOMAIN mapping
    <3>1. n \in DOMAIN freeMapping /\ Id(n) = freeMapping[n]
      BY <2>2, <1>11 DEF Id
    <3> QED BY <3>1 DEF IInv, Agree, Mappings, IdsBelow, Below, Visible
  <2> QED BY <2>1, <2>2
<1>14. IdsBelow'
  <2>1. \A i \in 1 .. L : scopes'[i].refs \subseteq 0 .. counter - 1
    <3>1. \A i \in 1 .. L : scopes[i].refs \subseteq 0 .. counter - 1
      BY <1>2 DEF IInv, Agree, IdsBelow, Below
    <3>2. {Id(n) : n \in names} \subseteq 0 .. counter - 1
      BY <1>13
    <3>3. scopes'[L].refs \subseteq 0 .. counter - 1
      BY <1>3, <1>4, <3>1, <3>2
    <3> QED BY <1>3, <3>1, <3>3
  <2> QED BY <2>1, <1>1, <1>2, <1>3, <1>4 DEF IInv, Agree, IdsBelow, Below
<1>15. RefsVisible'
  <2>1. \A id : \A i \in 1 .. L : Visible(id, i)' <=> Visible(id, i)
    <3>1. \A i \in 1 .. L : \A j \in 1 .. i : j \in 1 .. L
      BY <1>2
    <3> QED BY <3>1, <1>1, <1>3 DEF Visible
  <2>2. ASSUME NEW i \in 1 .. L, NEW id \in scopes'[i].refs PROVE Visible(id, i)
    <3>1. CASE id \in scopes[i].refs
      BY <3>1, <1>2 DEF IInv, Agree, RefsVisible
    <3>2. CASE id \notin scopes[i].refs
      <4>1. i = L
        BY <3>2, <2>2, <1>3
      <4>2. PICK n \in names : id = Id(n)
        BY <4>1, <3>2, <2>2, <1>3
      <4> QED BY <4>1, <4>2, <1>13
    <3> QED BY <3>1, <3>2
  <2> QED BY <2>1, <2>2, <1>1, <1>4 DEF IInv, Agree, RefsVisible
<1>16. OnceBound'
  <2>1. Current' = Current
    BY <1>1, <1>2, <1>3, <1>4 DEF Current
  <2> QED BY <2>1, <1>1 DEF IInv, Agree, OnceBound, BoundBy
<1> QED BY <1>5, <1>6, <1>8, <1>9, <1>10, <1>12, <1>14, <1>15, <1>16 DEF IInv, Agree

-----------------------------------------------------------------------------
(* A closing parenthesis: no quantifier that something refers to is        *)
(* dropped, as its name is used; and the names that are forgotten are just *)
(* those of its own level.                                                 *)
LEMMA KeptVisible ==
  ASSUME IInv, scopes # <<>>, Len(scopes) > 1, level - 1 \in DOMAIN levelNames,
         levelNames[level - 1] = NamesOf(Nest(Len(scopes) - 1)), Len(scopes) - 1 \in Depths,
         Kept = EraseIrrelevants(scopes[Len(scopes)].quants, Unused(levelNames[level - 1])),
         NEW id \in scopes[Len(scopes)].refs, id \notin IdsOf(Kept)
  PROVE  id \notin Ids(scopes[Len(scopes)].quants)
<1> SUFFICES ASSUME id \in Ids(scopes[Len(scopes)].quants) PROVE FALSE
  OBVIOUS
<1>1. PICK q \in ToSet(scopes[Len(scopes)].quants) : q.id = id
  BY DEF Ids, IdsOf
<1>2. q \notin Kept
  BY <1>1 DEF IdsOf
<1>3. id \in Unused(levelNames[level - 1])
  BY <1>1, <1>2 DEF EraseIrrelevants
<1>4. PICK n \in levelNames[level - 1] : n \notin used /\ id = mapping[n]
  BY <1>3 DEF Unused
<1>5. n \in DOMAIN mapping
  BY <1>4 DEF IInv, Agree, Nesting
<1>6. Len(scopes) \in DOMAIN scopes
  BY ScopesAre DEF IInv
<1> QED BY <1>4, <1>5, <1>6 DEF IInv, Agree, RefsUsed

LEMMA BelowLast ==
  \A m \in Nat :
    /\ \A k \in 1 .. m : k # m => k \in 1 .. m - 1
    /\ \A k \in 1 .. m - 1 : k \in Int /\ (k < m - 1 <=> k # m - 1)
OBVIOUS

LEMMA CloseIInv ==
  ASSUME IInv, Close
  PROVE  IInv'
<1>1. CASE level - 1 \notin DOMAIN levelNames
  <2>1. Crash
    BY <1>1 DEF Close
  <2> QED BY <2>1, CrashIInv
<1>2. CASE level - 1 \in DOMAIN levelNames
  <2> DEFINE L == Len(scopes)
  <2>1. /\ outcome = "body" /\ expects = "operator" /\ L > 1
        /\ level' = level - 1
        /\ levelNames' = Put(Restrict(levelNames, DOMAIN levelNames \ {level}), level - 1, {})
        /\ mapping' = Restrict(mapping, DOMAIN mapping \ levelNames[level - 1])
        /\ UNCHANGED <<freeMapping, used, counter, formulas, fname, args, pending, expects,
                       outcome, parses>>
    BY <1>2 DEF Close, EraseCurrentLevel
  <2>2. /\ scopes # <<>> /\ pending = <<>> /\ L \in Nat /\ L - 1 \in Nat \ {0}
        /\ DOMAIN scopes = 1 .. L /\ level \in Nat /\ Depths = 1 .. L
    <3>1. scopes # <<>> /\ pending = <<>>
      BY <2>1 DEF IInv, Stages
    <3>2. L \in Nat /\ DOMAIN scopes = 1 .. L
      BY ScopesAre DEF IInv
    <3>3. L - 1 \in Nat \ {0}
      BY <2>1, <3>2
    <3> QED BY <3>1, <3>2, <3>3 DEF Depths, IInv, TypeOK
  <2>3. /\ scopes' \in Seq(ScopeType) /\ Len(scopes') = L - 1
        /\ \A i \in 1 .. L - 1 :
             /\ scopes'[i].quants = scopes[i].quants
             /\ i # L - 1 => scopes'[i] = scopes[i]
        /\ scopes'[L - 1].refs = scopes[L - 1].refs \cup (scopes[L].refs \ IdsOf(Kept))
        /\ IdsOf(scopes'[L - 1].kept) =
             IdsOf(scopes[L - 1].kept) \cup IdsOf(scopes[L].kept) \cup IdsOf(Kept)
        /\ Kept \subseteq ToSet(scopes[L].quants)
    BY <1>2, CloseScopes DEF IInv
  <2>4. /\ DOMAIN scopes' = 1 .. L - 1 /\ Depths' = 1 .. L - 1
        /\ 1 \in 1 .. L - 1 /\ L - 1 \in 1 .. L - 1 /\ L - 1 \in 1 .. L /\ L \in 1 .. L
        /\ 1 .. L - 1 \subseteq 1 .. L /\ 1 \in 1 .. L
    <3>1. DOMAIN scopes' = 1 .. L - 1 /\ Depths' = 1 .. L - 1
      BY <2>3 DEF Depths
    <3>2. \A m \in Nat : m - 1 \in Nat \ {0} =>
            /\ 1 \in 1 .. m - 1 /\ m - 1 \in 1 .. m - 1 /\ m - 1 \in 1 .. m /\ m \in 1 .. m
            /\ 1 .. m - 1 \subseteq 1 .. m /\ 1 \in 1 .. m
      OBVIOUS
    <3> QED BY <3>1, <3>2, <2>2
  <2>5. /\ Base' = Base /\ Base \in Int /\ Base >= 0 /\ level = Base + L - 1
        /\ level' = Base + L - 2 /\ L \in Int /\ L > 1
    <3>1. Base' = (level - 1) + 1 - (L - 1) /\ Base = level + 1 - L /\ level' = level - 1
      BY <2>1, <2>3 DEF Base
    <3>2. L \in Int /\ L > 1 /\ level \in Int
      BY <2>1, <2>2
    <3>3. Base >= 0
      BY <2>2 DEF IInv, Agree, Levels
    <3> QED BY <3>1, <3>2, <3>3
  <2>6. /\ DOMAIN levelNames = {0} \cup (Base + 1 .. level)
        /\ Base > 0 => levelNames[0] = {} /\ Nest(1) = <<>>
        /\ \A k \in Depths : Base + k - 1 \in DOMAIN levelNames =>
             levelNames[Base + k - 1] = NamesOf(Nest(k))
    BY <2>2 DEF IInv, Agree, Levels
  <2>7. /\ DOMAIN mapping = UNION {NamesOf(Nest(k)) : k \in Depths}
        /\ \A k \in Depths : \A q \in ToSet(Nest(k)) : mapping[q.name] = q.id
        /\ \A j, k \in Depths : j # k => NamesOf(Nest(j)) \cap NamesOf(Nest(k)) = {}
        /\ scopes[1].quants = <<>>
    BY <2>2 DEF IInv, Agree, Nesting
  <2>8. levelNames[level - 1] = NamesOf(Nest(L - 1))
    <3>1. Base + (L - 1) - 1 = level - 1
      BY <2>5
    <3> QED BY <3>1, <2>6, <2>2, <2>4, <1>2
  <2>9. /\ DOMAIN levelNames' = (DOMAIN levelNames \ {level}) \cup {level - 1}
        /\ levelNames'[level - 1] = {}
        /\ \A l \in DOMAIN levelNames \ {level, level - 1} : levelNames'[l] = levelNames[l]
    BY <2>1, <2>2 DEF Put, Restrict
  <2>10. /\ DOMAIN mapping' = DOMAIN mapping \ NamesOf(Nest(L - 1))
         /\ \A n \in DOMAIN mapping' : n \in DOMAIN mapping /\ mapping'[n] = mapping[n]
    BY <2>1, <2>8 DEF Restrict
  <2>11. TypeOK'
    <3>1. level' \in Nat /\ DOMAIN levelNames' \subseteq Nat
      BY <1>2, <2>1, <2>9 DEF IInv, TypeOK
    <3>2. \A l \in DOMAIN levelNames' : levelNames'[l] \subseteq Names
      BY <2>9 DEF IInv, TypeOK
    <3>3. DOMAIN mapping' \subseteq Names /\ \A n \in DOMAIN mapping' : mapping'[n] \in Nat
      BY <2>10 DEF IInv, TypeOK
    <3> QED BY <3>1, <3>2, <3>3, <2>1, <2>3 DEF IInv, TypeOK
  <2>12. scopes' # <<>>
    BY <2>2, <2>3
  <2>13. Stages' /\ BodyAtZero'
    BY <2>1, <2>2, <2>5, <2>12 DEF IInv, Stages, BodyAtZero
  <2>14. \A k \in 1 .. L - 1 : /\ k = L - 1 => Nest(k)' = <<>>
                               /\ k # L - 1 => Nest(k)' = Nest(k)
    <3>1. ASSUME NEW k \in 1 .. L - 1
          PROVE  /\ k = L - 1 => Nest(k)' = <<>>
                 /\ k # L - 1 => Nest(k)' = Nest(k)
      <4>1. Nest(k)' = IF k < L - 1 THEN scopes'[k + 1].quants ELSE <<>>
        BY <2>1, <2>2, <2>3 DEF Nest
      <4>2. CASE k = L - 1
        BY <4>1, <4>2, <2>2
      <4>3. CASE k < L - 1
        <5>1. k + 1 \in 1 .. L - 1 /\ k < L
          BY <4>3, <2>2
        <5>2. scopes'[k + 1].quants = scopes[k + 1].quants
          BY <5>1, <2>3
        <5>3. Nest(k)' = scopes'[k + 1].quants
          BY <4>1, <4>3
        <5>4. Nest(k) = scopes[k + 1].quants
          BY <5>1 DEF Nest
        <5>5. k # L - 1
          <6>1. L \in Nat
            BY <2>2
          <6> QED BY <6>1, <4>3, BelowLast
        <5> QED BY <5>2, <5>3, <5>4, <5>5
      <4>4. k = L - 1 \/ k < L - 1
        BY <2>2, UpTo
      <4> QED BY <4>2, <4>3, <4>4
    <3> QED BY <3>1
  <2>15. NamesOf(<<>>) = {} /\ ToSet(<<>>) = {} /\ NamesOf(Nest(L)) = {}
    BY <2>2, ToSetOfEmpty DEF Nest
  <2>16. Levels'
    <3>1. DOMAIN levelNames' = {0} \cup (Base + 1 .. level - 1)
      <4>1. level # 0 /\ Base + 1 <= level
        BY <2>5
      <4>2. (Base + 1 .. level) \ {level} = Base + 1 .. level - 1
        BY <2>2, <2>5
      <4>3. level - 1 \in {0} \cup (Base + 1 .. level - 1)
        <5>1. level - 1 # level
          BY <2>2
        <5> QED BY <5>1, <4>2, <2>6, <1>2
      <4> QED BY <4>1, <4>2, <4>3, <2>6, <2>9
    <3>2. ASSUME Base > 0 PROVE levelNames'[0] = {} /\ Nest(1)' = <<>>
      <4>1. 0 # level /\ 0 # level - 1
        BY <3>2, <2>5
      <4> QED BY <4>1, <3>2, <2>4, <2>6, <2>9, <2>14
    <3>3. ASSUME NEW k \in 1 .. L - 1, Base + k - 1 \in DOMAIN levelNames'
          PROVE  levelNames'[Base + k - 1] = NamesOf(Nest(k)')
      <4>1. CASE k = L - 1
        <5>1. Base + k - 1 = level - 1
          BY <4>1, <2>5
        <5> QED BY <5>1, <4>1, <2>9, <2>14, <2>15
      <4>2. CASE k # L - 1
        <5>1. k \in Int /\ k < L - 1
          <6>1. L \in Nat
            BY <2>2
          <6> QED BY <6>1, <4>2, BelowLast
        <5>2. Base + k - 1 # level /\ Base + k - 1 # level - 1
          BY <5>1, <2>5
        <5> QED BY <5>2, <4>2, <3>3, <2>2, <2>4, <2>6, <2>9, <2>14
      <4> QED BY <4>1, <4>2
    <3> QED BY <3>1, <3>2, <3>3, <2>1, <2>4, <2>5 DEF Levels
  <2>17. Nesting'
    <3>1. \A k \in 1 .. L - 1 :
            /\ NamesOf(Nest(k)') = IF k = L - 1 THEN {} ELSE NamesOf(Nest(k))
            /\ ToSet(Nest(k)') = IF k = L - 1 THEN {} ELSE ToSet(Nest(k))
      BY <2>14, <2>15
    <3>2. DOMAIN mapping' = UNION {NamesOf(Nest(k)') : k \in 1 .. L - 1}
      <4>1. ASSUME NEW n \in DOMAIN mapping' PROVE \E k \in 1 .. L - 1 : n \in NamesOf(Nest(k)')
        <5>1. PICK k \in 1 .. L : n \in NamesOf(Nest(k))
          BY <4>1, <2>2, <2>7, <2>10
        <5>2. k # L - 1
          BY <5>1, <4>1, <2>10
        <5>3. k # L
          BY <5>1, <2>15
        <5>4. k \in 1 .. L - 1
          <6>1. L \in Nat
            BY <2>2
          <6> QED BY <6>1, <5>3, BelowLast
        <5> QED BY <5>1, <5>2, <5>4, <3>1
      <4>2. ASSUME NEW k \in 1 .. L - 1, NEW n \in NamesOf(Nest(k)') PROVE n \in DOMAIN mapping'
        <5>1. k # L - 1 /\ n \in NamesOf(Nest(k))
          BY <4>2, <3>1
        <5>2. n \notin NamesOf(Nest(L - 1))
          BY <5>1, <2>2, <2>4, <2>7
        <5> QED BY <5>1, <5>2, <2>2, <2>4, <2>7, <2>10
      <4> QED BY <4>1, <4>2
    <3>3. ASSUME NEW k \in 1 .. L - 1, NEW q \in ToSet(Nest(k)') PROVE mapping'[q.name] = q.id
      <4>1. k # L - 1 /\ q \in ToSet(Nest(k))
        BY <3>3, <3>1
      <4>2. q.name \in NamesOf(Nest(k)')
        BY <3>3 DEF NamesOf
      <4>3. q.name \in DOMAIN mapping'
        BY <4>2, <3>2
      <4> QED BY <4>1, <4>3, <2>2, <2>4, <2>7, <2>10
    <3>4. \A j, k \in 1 .. L - 1 : j # k => NamesOf(Nest(j)') \cap NamesOf(Nest(k)') = {}
      BY <3>1, <2>2, <2>4, <2>7
    <3>5. scopes'[1].quants = <<>>
      BY <2>3, <2>4, <2>7
    <3> QED BY <3>2, <3>3, <3>4, <3>5, <2>4 DEF Nesting
  <2>18. Mappings'
    BY <2>1, <2>10 DEF IInv, Agree, Mappings
  <2>19. /\ \A i \in 1 .. L - 1 : i # L - 1 => scopes'[i] = scopes[i]
         /\ scopes'[L - 1].refs \subseteq scopes[L - 1].refs \cup scopes[L].refs
         /\ IdsOf(Kept) \subseteq Ids(scopes[L].quants)
    BY <2>3 DEF IdsOf, Ids
  <2>20. RefsUsed'
    <3>1. ASSUME NEW i \in 1 .. L - 1, NEW n \in DOMAIN mapping', mapping'[n] \in scopes'[i].refs
          PROVE  n \in used
      <4>1. n \in DOMAIN mapping /\ mapping[n] \in scopes'[i].refs
        BY <3>1, <2>10
      <4>2. mapping[n] \in scopes[i].refs \/ mapping[n] \in scopes[L].refs
        BY <4>1, <2>19
      <4> QED BY <4>1, <4>2, <2>2, <2>4 DEF IInv, Agree, RefsUsed
    <3> QED BY <3>1, <2>1, <2>4 DEF RefsUsed
  <2>21. IdsBelow'
    <3>1. /\ {mapping'[n] : n \in DOMAIN mapping'} \subseteq 0 .. counter - 1
          /\ {freeMapping[n] : n \in DOMAIN freeMapping} \subseteq 0 .. counter - 1
      BY <2>10 DEF IInv, Agree, IdsBelow, Below
    <3>2. \A i \in 1 .. L :
            /\ Ids(scopes[i].quants) \subseteq 0 .. counter - 1
            /\ IdsOf(scopes[i].kept) \subseteq 0 .. counter - 1
            /\ scopes[i].refs \subseteq 0 .. counter - 1
      BY <2>2 DEF IInv, Agree, IdsBelow, Below
    <3>3. ASSUME NEW i \in 1 .. L - 1
          PROVE  /\ Ids(scopes'[i].quants) \subseteq 0 .. counter - 1
                 /\ IdsOf(scopes'[i].kept) \subseteq 0 .. counter - 1
                 /\ scopes'[i].refs \subseteq 0 .. counter - 1
      <4>1. i \in 1 .. L
        BY <2>4
      <4>2. Ids(scopes'[i].quants) \subseteq 0 .. counter - 1
        BY <4>1, <3>2, <2>3
      <4>3. scopes'[i].refs \subseteq 0 .. counter - 1
        BY <4>1, <3>2, <2>4, <2>19
      <4>4. IdsOf(scopes'[i].kept) \subseteq 0 .. counter - 1
        BY <4>1, <3>2, <2>3, <2>4, <2>19
      <4> QED BY <4>2, <4>3, <4>4
    <3> QED BY <3>1, <3>3, <2>1, <2>4 DEF IInv, Agree, IdsBelow, Below
  <2>22. RefsVisible'
    <3>1. ASSUME NEW i \in 1 .. L - 1, NEW id, Visible(id, i) PROVE Visible(id, i)'
      <4>1. \A j \in 1 .. i : j \in 1 .. L - 1
        BY <2>2
      <4> QED BY <4>1, <3>1, <2>1, <2>3 DEF Visible
    <3>2. ASSUME NEW i \in 1 .. L - 1, NEW id \in scopes'[i].refs PROVE Visible(id, i)
      <4>1. CASE id \in scopes[i].refs
        BY <4>1, <2>2, <2>4 DEF IInv, Agree, RefsVisible
      <4>2. CASE id \notin scopes[i].refs
        <5>1. i = L - 1 /\ id \in scopes[L].refs /\ id \notin IdsOf(Kept)
          BY <4>2, <3>2, <2>3
        <5>2. id \notin Ids(scopes[L].quants)
          BY <5>1, <1>2, <2>1, <2>2, <2>4, <2>8, KeptVisible DEF Kept, Last
        <5>3. Visible(id, L)
          BY <5>1, <2>2, <2>4 DEF IInv, Agree, RefsVisible
        <5>4. \A j \in 1 .. L : j # L => j \in 1 .. L - 1
          <6>1. L \in Nat
            BY <2>2
          <6> QED BY <6>1, BelowLast
        <5> QED BY <5>1, <5>2, <5>3, <5>4 DEF Visible
      <4> QED BY <4>1, <4>2
    <3> QED BY <3>1, <3>2, <2>1, <2>4 DEF IInv, Agree, RefsVisible
  <2>23. OnceBound'
    <3>1. ASSUME NEW i \in 1 .. L - 1
          PROVE  Ids(scopes'[i].quants) \cup IdsOf(scopes'[i].kept) \subseteq Current
      <4>1. \A k \in 1 .. L : Ids(scopes[k].quants) \cup IdsOf(scopes[k].kept) \subseteq Current
        BY <2>2 DEF Current
      <4>2. i \in 1 .. L /\ Ids(scopes'[i].quants) = Ids(scopes[i].quants)
        BY <2>3, <2>4
      <4>3. CASE i = L - 1
        BY <4>1, <4>2, <4>3, <2>3, <2>4, <2>19
      <4>4. CASE i # L - 1
        BY <4>1, <4>2, <4>4, <2>19
      <4> QED BY <4>3, <4>4
    <3>2. Current' \subseteq Current
      <4>1. Ids(args) \cup Ids(pending) \subseteq Current
        BY DEF Current
      <4>2. Current' = Ids(args) \cup Ids(pending)
              \cup UNION {Ids(scopes'[i].quants) \cup IdsOf(scopes'[i].kept) : i \in 1 .. L - 1}
        BY <2>1, <2>4 DEF Current
      <4> QED BY <3>1, <4>1, <4>2
    <3> QED BY <3>2, <2>1 DEF IInv, Agree, OnceBound, BoundBy
  <2> QED BY <2>11, <2>13, <2>16, <2>17, <2>18, <2>20, <2>21, <2>22, <2>23 DEF IInv, Agree
<1> QED BY <1>1, <1>2

-----------------------------------------------------------------------------
LEMMA StepIInv == IInv /\ [Next]_vars => IInv'
<1> SUFFICES ASSUME IInv, [Next]_vars PROVE IInv'
  OBVIOUS
<1>1. CASE \E f \in Functions : Begin(f)  BY <1>1, BeginIInv
<1>2. CASE \E n \in Names : NewFree(n)  BY <1>2, NewFreeIInv
<1>3. CASE Define  BY <1>3, DefineIInv
<1>4. CASE \E n \in Names : NewQuantified(n)  BY <1>4, NewQuantifiedIInv
<1>5. CASE Open  BY <1>5, OpenIInv
<1>6. CASE \E x \in Variables, n \in Names : Refer({x, n})  BY <1>6, ReferIInv
<1>7. CASE \E f \in Functions, passed \in BoundedSeq(Names, MaxArgs) : Call(f, passed)
  <2>1. PICK f \in Functions, passed \in BoundedSeq(Names, MaxArgs) : Call(f, passed)
    BY <1>7
  <2>2. Refer({passed[i] : i \in DOMAIN passed})
    BY <2>1 DEF Call
  <2> QED BY <2>2, ReferIInv
<1>8. CASE Connective  BY <1>8, ConnectiveIInv
<1>9. CASE Close  BY <1>9, CloseIInv
<1>10. CASE EndFunction  BY <1>10, EndFunctionIInv
<1>11. CASE EndInput
  BY <1>11, FinalizeIInv DEF EndInput
<1>12. CASE Error
  BY <1>12, FinalizeIInv DEF Error
<1>13. CASE CloseEmpty  BY <1>13, CloseEmptyIInv
<1>14. CASE Parse  BY <1>14, ParseIInv
<1>15. CASE UNCHANGED vars
  <2>1. Agree'
    BY <1>15, Quiet DEF vars, tables, stack, IInv
  <2>2. TypeOK' /\ Stages' /\ BodyAtZero'
    BY <1>15 DEF vars, tables, stack, IInv, TypeOK, Stages, BodyAtZero, Base
  <2> QED BY <2>1, <2>2 DEF IInv
<1> QED BY <1>1, <1>2, <1>3, <1>4, <1>5, <1>6, <1>7, <1>8, <1>9, <1>10, <1>11, <1>12, <1>13,
           <1>14, <1>15 DEF Next

LEMMA IInvHolds == Spec => []IInv
BY InitIInv, StepIInv, PTL DEF Spec

-----------------------------------------------------------------------------
(* Every reference is bound by a quantifier that is still open or by an    *)
(* argument: no quantifier is dropped that something refers to, also not   *)
(* after an input that failed.                                             *)
THEOREM ScopesRefsBound == Spec => []RefsBound
<1>1. IInv => RefsBound
  BY AgreeImplies DEF IInv
<1> QED BY <1>1, IInvHolds, PTL

(* An id is handed out once in an input, for any number of functions.      *)
THEOREM ScopesIdsOnce == Spec => []IdsOnce
<1>1. IInv => IdsOnce
  BY AgreeImplies DEF IInv
<1> QED BY <1>1, IInvHolds, PTL

(***************************************************************************)
(* While no input is read after one that failed, the level counts the open *)
(* parentheses, and the tables hold exactly the names quantified in front  *)
(* of them.                                                                *)
(***************************************************************************)
LEMMA TablesFollow ==
  ASSUME IInv, ~RetriesFailed
  PROVE  TablesFollowNesting
<1> SUFFICES ASSUME outcome = "body" PROVE TablesFollowNesting
  BY DEF TablesFollowNesting
<1> DEFINE Open_(l) == IF l < level THEN scopes[l + 2].quants ELSE pending
<1>1. /\ scopes # <<>> /\ Len(scopes) \in Nat /\ level \in Nat /\ Base = 0
  BY ScopesAre DEF IInv, Stages, BodyAtZero, TypeOK
<1>2. Len(scopes) = level + 1 /\ Depths = 1 .. level + 1
  BY <1>1 DEF Base, Depths
<1>3. \A l \in 0 .. level : l + 1 \in Depths /\ Open_(l) = Nest(l + 1)
  <2>1. \A l \in 0 .. level : l + 1 \in 1 .. level + 1 /\ (l < level <=> l + 1 < level + 1)
                              /\ (l + 1) + 1 = l + 2
    BY <1>1
  <2> QED BY <2>1, <1>2 DEF Nest
<1>4. DOMAIN levelNames = 0 .. level
  <2>1. DOMAIN levelNames = {0} \cup (0 + 1 .. level)
    BY <1>1 DEF IInv, Agree, Levels
  <2>2. {0} \cup (0 + 1 .. level) = 0 .. level
    BY <1>1
  <2> QED BY <2>1, <2>2
<1>5. \A l \in 0 .. level : levelNames[l] = NamesOf(Open_(l))
  <2>1. ASSUME NEW l \in 0 .. level PROVE levelNames[l] = NamesOf(Nest(l + 1))
    <3>1. 0 + (l + 1) - 1 = l
      BY <1>1
    <3>2. l + 1 \in Depths
      BY <1>3
    <3> QED BY <3>1, <3>2, <1>1, <1>4 DEF IInv, Agree, Levels
  <2> QED BY <2>1, <1>3
<1>6. DOMAIN mapping = UNION {levelNames[l] : l \in 0 .. level}
  <2>1. \A k \in Depths : k - 1 \in 0 .. level /\ (k - 1) + 1 = k
    BY <1>1, <1>2
  <2>2. \A k \in Depths : \E l \in 0 .. level : levelNames[l] = NamesOf(Nest(k))
    BY <2>1, <1>3, <1>5
  <2>3. \A l \in 0 .. level : \E k \in Depths : levelNames[l] = NamesOf(Nest(k))
    BY <1>3, <1>5
  <2>4. DOMAIN mapping = UNION {NamesOf(Nest(k)) : k \in Depths}
    BY <1>1 DEF IInv, Agree, Nesting
  <2> QED BY <2>2, <2>3, <2>4
<1>7. \A l \in 0 .. level : \A i \in DOMAIN Open_(l) : mapping[Open_(l)[i].name] = Open_(l)[i].id
  <2>1. ASSUME NEW k \in Depths, NEW i \in DOMAIN Nest(k)
        PROVE  mapping[Nest(k)[i].name] = Nest(k)[i].id
    <3>1. Nest(k)[i] \in ToSet(Nest(k))
      BY DEF ToSet
    <3> QED BY <3>1, <1>1 DEF IInv, Agree, Nesting
  <2> QED BY <2>1, <1>3
<1>8. DOMAIN mapping \cap DOMAIN freeMapping = {}
  BY DEF IInv, Agree, Mappings
<1> QED BY <1>2, <1>4, <1>5, <1>6, <1>7, <1>8 DEF TablesFollowNesting

(* As long as no input is read after one that failed, the tables hold      *)
(* exactly the names that are in scope, each under its own id.             *)
THEOREM ScopesTablesFollowNesting == ~RetriesFailed => (Spec => []TablesFollowNesting)
<1> SUFFICES ASSUME ~RetriesFailed PROVE Spec => []TablesFollowNesting
  OBVIOUS
<1>1. IInv => TablesFollowNesting
  BY TablesFollow
<1> QED BY <1>1, IInvHolds, PTL

-----------------------------------------------------------------------------
(* No table is looked up that is not there: NULL is never dereferenced.    *)
NoCrash == outcome # "crash"

LEMMA LevelThere ==
  ASSUME IInv, ~RetriesFailed, outcome = "body"
  PROVE  level \in DOMAIN levelNames /\ (Len(scopes) > 1 => level - 1 \in DOMAIN levelNames)
<1>1. TablesFollowNesting
  BY TablesFollow
<1>2. DOMAIN levelNames = 0 .. level /\ Len(scopes) = level + 1
  BY <1>1 DEF TablesFollowNesting
<1>3. level \in Nat
  BY DEF IInv, TypeOK
<1> QED BY <1>2, <1>3

LEMMA StepNoCrash ==
  ASSUME IInv, NoCrash, ~RetriesFailed, [Next]_vars
  PROVE  NoCrash'
<1>1. CASE \E n \in Names : NewQuantified(n)
  BY <1>1, LevelThere DEF NewQuantified, NoCrash
<1>2. CASE Close
  <2>1. outcome = "body" /\ Len(scopes) > 1
    BY <1>2 DEF Close
  <2>2. level - 1 \in DOMAIN levelNames
    BY <2>1, LevelThere
  <2>3. outcome' = outcome
    BY <1>2, <2>2 DEF Close
  <2> QED BY <2>3 DEF NoCrash
<1>3. CASE CloseEmpty
  <2>1. outcome = "body" /\ Len(scopes) > 1
    BY <1>3 DEF CloseEmpty, IInv, Stages
  <2>2. level - 1 \in DOMAIN levelNames
    BY <2>1, LevelThere
  <2>3. outcome' = "failed"
    BY <1>3, <2>2 DEF CloseEmpty
  <2> QED BY <2>3 DEF NoCrash
<1>4. CASE \/ \E f \in Functions : Begin(f)
           \/ \E n \in Names : NewFree(n)
           \/ Define \/ Open \/ Connective \/ EndFunction \/ EndInput \/ Error \/ Parse
  BY <1>4 DEF Begin, NewFree, Define, Open, Connective, EndFunction, EndInput, Error, Finalize,
              Parse, NoCrash
<1>5. CASE \/ \E x \in Variables, n \in Names : Refer({x, n})
           \/ \E f \in Functions, passed \in BoundedSeq(Names, MaxArgs) : Call(f, passed)
  <2>1. outcome' = outcome
    BY <1>5 DEF Call, Refer
  <2> QED BY <2>1 DEF NoCrash
<1>6. CASE UNCHANGED vars
  BY <1>6 DEF vars, NoCrash
<1> QED BY <1>1, <1>2, <1>3, <1>4, <1>5, <1>6 DEF Next

(* As long as no input is read after one that failed, the parser never     *)
(* dereferences the table of a level that has none.                        *)
THEOREM ScopesNoCrash == ~RetriesFailed => (Spec => []NoCrash)
<1> SUFFICES ASSUME ~RetriesFailed PROVE Spec => []NoCrash
  OBVIOUS
<1>1. Init => NoCrash
  BY DEF Init, NoCrash
<1>2. IInv /\ NoCrash /\ [Next]_vars => NoCrash'
  BY StepNoCrash
<1> QED BY <1>1, <1>2, IInvHolds, PTL DEF Spec

-----------------------------------------------------------------------------
(***************************************************************************)
(* The stacks of the parser.  Each state has been reached from the one     *)
(* below it by an edge of the automaton, and is that of its symbol.        *)
(***************************************************************************)
StackOK(s) ==
  /\ \E S : s \in Seq(S)
  /\ s # <<>> => s[1].state = 0
  /\ \A i \in 1 .. Len(s) : s[i].state \in States
  /\ \A i \in 2 .. Len(s) :
       <<s[i - 1].state, s[i].state>> \in Edges /\ At(yystos, s[i].state) = s[i].sym

TokenNames == {Named[w] : w \in Words} \cup {"RELATION", "SET", "VARIABLE", "ERROR", "eof"}
TokenOK(c) == c = Empty \/ c.tok \in TokenNames

StackInv ==
  /\ StackOK(yyss)
  /\ reading = "reading" => yyss # <<>>
  /\ TokenOK(yychar)

(* What a reduction finds: ReducesHandles for a stack s and a rule r.      *)
Finds(s, r) ==
  LET n == At(yyr2, r)
      q == s[Len(s) - n].state
      to == Goto(q, At(yyr1, r))
  IN /\ n \in 0 .. Len(s) - 1
     /\ yyrhs[r] = [i \in 1 .. n |-> s[Len(s) - n + i].sym]
     /\ to \in States \ {0} /\ <<q, to>> \in Edges /\ At(yystos, to) = At(yyr1, r)

LEMMA BehindSteps ==
  ASSUME NEW E, NEW q, NEW k \in 1 .. 6
  PROVE  Behind(E, q)[1] = {q} /\ Behind(E, q)[k + 1] = Below1(E, Behind(E, q)[k])
<1>1. k = 1 \/ k = 2 \/ k = 3 \/ k = 4 \/ k = 5 \/ k = 6  OBVIOUS
<1> QED  BY <1>1, SMT DEF Behind

(* kth from the top, a stack has one of the states behind its top.         *)
Place(s, k) ==
  Len(s) - k + 1 \in 1 .. Len(s) /\ s[Len(s) - k + 1].state \in Behind(Edges, Last(s).state)[k]

LEMMA PlaceBelow ==
  ASSUME NEW s, StackOK(s), s # <<>>, NEW k \in 1 .. 6, Place(s, k), s[Len(s) - k + 1].state # 0
  PROVE  Place(s, k + 1)
<1> DEFINE j == Len(s) - k + 1
<1> DEFINE q == Last(s).state
<1>1. Len(s) \in Nat /\ j \in 1 .. Len(s)
  <2>1. PICK S : s \in Seq(S)  BY DEF StackOK
  <2> QED  BY <2>1 DEF Place
<1>2. j # 1 /\ s[1].state = 0  BY DEF StackOK
<1>3. j \in 2 .. Len(s) /\ j - 1 \in 1 .. Len(s)
  <2> HIDE DEF j
  <2> QED  BY <1>1, <1>2
<1>4. <<s[j - 1].state, s[j].state>> \in Edges /\ s[j - 1].state \in States
  BY <1>3 DEF StackOK
<1>5. s[j].state \in Behind(Edges, q)[k]  BY DEF Place
<1>6. s[j - 1].state \in Below1(Edges, Behind(Edges, q)[k])  BY <1>4, <1>5 DEF Below1
<1>7. s[j - 1].state \in Behind(Edges, q)[k + 1]  BY <1>6, BehindSteps
<1>8. Len(s) - (k + 1) + 1 = j - 1  BY <1>1
<1> QED  BY <1>3, <1>7, <1>8 DEF Place

LEMMA FindsTheHandle ==
  ASSUME NEW s, StackOK(s), s # <<>>, NEW r \in Reductions(Last(s).state)
  PROVE  Finds(s, r)
<1> DEFINE n == At(yyr2, r)
<1> DEFINE q == Last(s).state
<1> DEFINE B == Behind(Edges, q)
<1>1. Len(s) \in Nat \ {0} /\ q \in States
  <2>1. PICK S : s \in Seq(S)  BY DEF StackOK
  <2>2. Len(s) \in Nat /\ Len(s) # 0  BY <2>1
  <2>3. Last(s) = s[Len(s)]  BY DEF Last
  <2> QED  BY <2>2, <2>3 DEF StackOK
<1>2. FindsHandle(q, r)  BY <1>1, TablesFit
<1>3. n \in 0 .. 6 /\ yyrhs[r] = [i \in 1 .. n |-> yyrhs[r][i]]  BY <1>2 DEF FindsHandle
<1>4. \A k \in 1 .. n : \A t \in B[k] : t # 0 /\ At(yystos, t) = yyrhs[r][n - k + 1]
  BY <1>2 DEF FindsHandle
<1>5. \A t \in B[n + 1] :
        LET to == Goto(t, At(yyr1, r))
        IN to \in States \ {0} /\ <<t, to>> \in Edges /\ At(yystos, to) = At(yyr1, r)
  BY <1>2 DEF FindsHandle
<1>6. \A k \in 1 .. 6 : k <= n /\ Place(s, k) => Place(s, k + 1)
  <2> SUFFICES ASSUME NEW k \in 1 .. 6, k <= n, Place(s, k)  PROVE Place(s, k + 1)
    OBVIOUS
  <2>1. k \in 1 .. n  BY <1>3
  <2>2. s[Len(s) - k + 1].state # 0  BY <2>1, <1>4 DEF Place
  <2> QED  BY <2>2, PlaceBelow
<1>7. Place(s, 1)
  <2>1. s[Len(s) - 1 + 1] = Last(s)  BY <1>1 DEF Last
  <2>2. B[1] = {q}  BY BehindSteps, 1 \in 1 .. 6
  <2> QED  BY <1>1, <2>1, <2>2 DEF Place
<1>8. \A k \in 1 .. 7 : k <= n + 1 => Place(s, k)
  <2> DEFINE P(k) == k <= n + 1 => Place(s, k)
  <2>1. \A k \in 1 .. 6 : P(k) => P(k + 1)  BY <1>3, <1>6
  <2>2. P(1)  BY <1>7
  <2> HIDE DEF P
  <2>3. P(2)  BY <2>1, <2>2
  <2>4. P(3)  BY <2>1, <2>3
  <2>5. P(4)  BY <2>1, <2>4
  <2>6. P(5)  BY <2>1, <2>5
  <2>7. P(6)  BY <2>1, <2>6
  <2>8. P(7)  BY <2>1, <2>7
  <2>9. \A k \in 1 .. 7 : P(k)  BY <2>2, <2>3, <2>4, <2>5, <2>6, <2>7, <2>8
  <2> QED  BY <2>9 DEF P
<1>9. Place(s, n + 1)  BY <1>3, <1>8
<1>10. Len(s) - (n + 1) + 1 = Len(s) - n  BY <1>1, <1>3
<1>11. n \in 0 .. Len(s) - 1 /\ s[Len(s) - n].state \in B[n + 1]
  BY <1>1, <1>3, <1>9, <1>10 DEF Place
<1>12. \A i \in 1 .. n : yyrhs[r][i] = s[Len(s) - n + i].sym
  <2> SUFFICES ASSUME NEW i \in 1 .. n  PROVE yyrhs[r][i] = s[Len(s) - n + i].sym
    OBVIOUS
  <2> DEFINE k == n - i + 1
  <2>1. k \in 1 .. n /\ k \in 1 .. 7 /\ k <= n + 1 /\ n - k + 1 = i  BY <1>3
  <2>2. Len(s) - k + 1 = Len(s) - n + i  BY <1>1, <1>3
  <2>3. Place(s, k)  BY <1>8, <2>1
  <2>4. s[Len(s) - n + i].state \in B[k] /\ Len(s) - n + i \in 1 .. Len(s)
    BY <2>2, <2>3 DEF Place
  <2>5. s[Len(s) - n + i].state # 0 /\ At(yystos, s[Len(s) - n + i].state) = yyrhs[r][i]
    BY <1>4, <2>1, <2>4
  <2>6. Len(s) - n + i \in 2 .. Len(s)  BY <1>1, <1>3, <1>11, <2>4, <2>5
  <2> QED  BY <2>5, <2>6 DEF StackOK
<1>13. yyrhs[r] = [i \in 1 .. n |-> s[Len(s) - n + i].sym]  BY <1>3, <1>12
<1> QED  BY <1>5, <1>11, <1>13 DEF Finds

LEMMA StackPush ==
  ASSUME NEW s, StackOK(s), s # <<>>, NEW e, e.state \in States,
         <<Last(s).state, e.state>> \in Edges, At(yystos, e.state) = e.sym
  PROVE  StackOK(Append(s, e)) /\ Append(s, e) # <<>>
<1> DEFINE a == Append(s, e)
<1>1. PICK S : s \in Seq(S)  BY DEF StackOK
<1> DEFINE T == S \cup {e}
<1>2. s \in Seq(T) /\ e \in T  BY <1>1, SeqMonotonic
<1>3. a \in Seq(T) /\ Len(a) = Len(s) + 1 /\ Len(s) \in Nat \ {0}  BY <1>1, <1>2
<1>4. a[Len(s) + 1] = e /\ \A i \in 1 .. Len(s) : a[i] = s[i]  BY <1>2
<1>5. a[1].state = 0  BY <1>3, <1>4 DEF StackOK
<1>6. \A i \in 1 .. Len(a) : a[i].state \in States
  <2> SUFFICES ASSUME NEW i \in 1 .. Len(a)  PROVE a[i].state \in States
    OBVIOUS
  <2>1. i \in 1 .. Len(s) \/ i = Len(s) + 1  BY <1>3
  <2> QED  BY <2>1, <1>4 DEF StackOK
<1>7. \A i \in 2 .. Len(a) :
        <<a[i - 1].state, a[i].state>> \in Edges /\ At(yystos, a[i].state) = a[i].sym
  <2> SUFFICES ASSUME NEW i \in 2 .. Len(a)
               PROVE  <<a[i - 1].state, a[i].state>> \in Edges /\ At(yystos, a[i].state) = a[i].sym
    OBVIOUS
  <2>1. CASE i = Len(s) + 1
    <3>1. a[i] = e /\ a[i - 1] = Last(s)  BY <1>3, <1>4, <2>1 DEF Last
    <3> QED  BY <3>1
  <2>2. CASE i \in 2 .. Len(s)
    <3>1. a[i] = s[i] /\ a[i - 1] = s[i - 1]  BY <1>3, <1>4, <2>2
    <3> QED  BY <3>1, <2>2 DEF StackOK
  <2> QED  BY <1>3, <2>1, <2>2
<1>8. \E U : a \in Seq(U)  BY <1>3
<1>9. a # <<>>  BY <1>3
<1> QED  BY <1>5, <1>6, <1>7, <1>8, <1>9 DEF StackOK

LEMMA StackPop ==
  ASSUME NEW s, StackOK(s), s # <<>>, NEW n \in 0 .. Len(s) - 1
  PROVE  LET b == SubSeq(s, 1, Len(s) - n)
         IN StackOK(b) /\ b # <<>> /\ Last(b) = s[Len(s) - n]
<1> DEFINE b == SubSeq(s, 1, Len(s) - n)
<1>1. PICK S : s \in Seq(S)  BY DEF StackOK
<1>2. Len(s) \in Nat /\ Len(s) - n \in 1 .. Len(s)  BY <1>1
<1>3. b \in Seq(S) /\ Len(b) = Len(s) - n /\ \A i \in 1 .. Len(s) - n : b[i] = s[i]
  BY <1>1, <1>2
<1>4. b # <<>>
  <2> HIDE DEF b
  <2>1. Len(b) # 0  BY <1>2, <1>3
  <2> QED  BY <2>1
<1>5. Last(b) = s[Len(s) - n]  BY <1>2, <1>3 DEF Last
<1>6. b[1].state = 0  BY <1>2, <1>3 DEF StackOK
<1>7. \A i \in 1 .. Len(b) : b[i].state \in States  BY <1>2, <1>3 DEF StackOK
<1>8. \A i \in 2 .. Len(b) :
        <<b[i - 1].state, b[i].state>> \in Edges /\ At(yystos, b[i].state) = b[i].sym
  <2> SUFFICES ASSUME NEW i \in 2 .. Len(b)
               PROVE  <<b[i - 1].state, b[i].state>> \in Edges /\ At(yystos, b[i].state) = b[i].sym
    OBVIOUS
  <2>1. b[i] = s[i] /\ b[i - 1] = s[i - 1] /\ i \in 2 .. Len(s)  BY <1>2, <1>3
  <2> QED  BY <2>1 DEF StackOK
<1>9. \E U : b \in Seq(U)  BY <1>3
<1> QED  BY <1>4, <1>5, <1>6, <1>7, <1>8, <1>9 DEF StackOK

LEMMA EmptyStack ==
  StackOK(<<>>)
<1>1. <<>> \in Seq({}) /\ Len(<<>>) = 0  OBVIOUS
<1>2. \E S : <<>> \in Seq(S)  BY <1>1
<1>3. 1 .. Len(<<>>) = {} /\ 2 .. Len(<<>>) = {}  BY <1>1
<1> QED  BY <1>2, <1>3 DEF StackOK

LEMMA NewStack ==
  StackOK(<<[state |-> 0, sym |-> -1, val |-> None]>>)
<1> DEFINE e == [state |-> 0, sym |-> -1, val |-> None]
<1> DEFINE s == <<e>>
<1>1. s \in Seq({e}) /\ Len(s) = 1 /\ s[1] = e  OBVIOUS
<1>2. e.state = 0  OBVIOUS
<1>3. 0 \in States  BY TablesFit
<1>4. \E S : s \in Seq(S)  BY <1>1
<1>5. \A i \in 1 .. Len(s) : i = 1  BY <1>1
<1>6. 2 .. Len(s) = {}  BY <1>1
<1> HIDE DEF s, e
<1>7. StackOK(s)  BY <1>1, <1>2, <1>3, <1>4, <1>5, <1>6 DEF StackOK
<1> QED  BY <1>7 DEF s, e

-----------------------------------------------------------------------------
(* The tokens that the scanner returns.                                    *)

LEMMA NamesOfTokens ==
  ASSUME NEW w, TokenOf(w) # "skip"
  PROVE  TokenOf(w) \in TokenNames
<1>1. CASE w \in Words
  <2>1. TokenOf(w) = Named[w]  BY <1>1 DEF TokenOf
  <2> QED  BY <1>1, <2>1 DEF TokenNames
<1>2. CASE w \notin Words
  <2>1. TokenOf(w) \in {"RELATION", "SET", "VARIABLE", "ERROR", "skip"}  BY <1>2 DEF TokenOf
  <2> QED  BY <2>1 DEF TokenNames
<1> QED  BY <1>1, <1>2

LEMMA TakesToken ==
  ASSUME NEW w, Take(w), TokenOK(yychar)
  PROVE  TokenOK(yychar')
<1>1. CASE TokenOf(w) = "skip"  BY <1>1 DEF Take, TokenOK
<1>2. CASE TokenOf(w) # "skip"
  <2>1. yychar' = Returned(w)  BY <1>2 DEF Take, Return
  <2>2. Returned(w).tok = TokenOf(w)  BY DEF Returned
  <2> QED  BY <2>1, <2>2, <1>2, NamesOfTokens DEF TokenOK
<1> QED  BY <1>1, <1>2

LEMMA LexesToken ==
  ASSUME yylex, TokenOK(yychar)
  PROVE  TokenOK(yychar')
<1>1. TokenOK(Eof)  BY DEF TokenOK, Eof, TokenNames
<1>2. CASE CreateBuffer  BY <1>2 DEF CreateBuffer, TokenOK
<1>3. CASE Scan  BY <1>3, TakesToken DEF Scan
<1>4. CASE EndOfString
  <2>1. Return(Eof) \/ Take(Lexeme(Rest))  BY <1>4 DEF EndOfString
  <2> QED  BY <2>1, <1>1, TakesToken DEF Return
<1>5. CASE Refill
  <2>1. Return(Eof) \/ Take(Lexeme(Rest)) \/ UNCHANGED yychar  BY <1>5 DEF Refill
  <2> QED  BY <2>1, <1>1, TakesToken DEF Return, TokenOK
<1> QED  BY <1>2, <1>3, <1>4, <1>5 DEF yylex

LEMMA TokenOfYychar ==
  ASSUME TokenOK(yychar), yychar # Empty
  PROVE  Token \in Terminals
BY TokensKnown DEF TokenOK, TokenNames, Token

LEMMA Decides ==
  ASSUME TokenOK(yychar), Ready
  PROVE  Decision \in Decisions(State)
<1>1. CASE Consults(State)
  <2>1. Token \in Terminals  BY <1>1, TokenOfYychar DEF Ready
  <2> QED  BY <1>1, <2>1 DEF Decision, Decisions
<1>2. CASE ~Consults(State)  BY <1>2 DEF Decision, Decisions
<1> QED  BY <1>1, <1>2

LEMMA DefaultNoShift ==
  ASSUME NEW q  PROVE Default(q).do # "shift"
BY DEF Default, ReduceBy, Fail

-----------------------------------------------------------------------------
(* The steps of the parser keep StackInv.                                  *)

LEMMA AbortKeepsStack ==
  ASSUME Abort  PROVE StackInv'
<1>1. yyss' = <<>> /\ reading' = "failed" /\ yychar' = Empty  BY DEF Abort, Finish
<1>2. StackOK(yyss')  BY <1>1, EmptyStack
<1> QED  BY <1>1, <1>2 DEF StackInv, TokenOK

LEMMA PushKeepsStack ==
  ASSUME NEW s, StackOK(s), s # <<>>, NEW e, e.state \in States,
         <<Last(s).state, e.state>> \in Edges, At(yystos, e.state) = e.sym,
         Push(s, e), TokenOK(yychar')
  PROVE  StackInv'
<1>1. yyss' = Append(s, e)  BY DEF Push
<1>2. StackOK(yyss') /\ yyss' # <<>>  BY <1>1, StackPush
<1> QED  BY <1>2 DEF StackInv

LEMMA ShiftKeepsStack ==
  ASSUME StackInv, Shift  PROVE StackInv'
<1> DEFINE e == [state |-> Decision.state, sym |-> Token, val |-> yychar.text]
<1>1. Ready /\ Decision.do = "shift"  BY DEF Shift
<1>2. CASE Exhausted(yyss)  BY <1>2, AbortKeepsStack DEF Shift
<1>3. CASE ~Exhausted(yyss)
  <2>1. Push(yyss, e) /\ yychar' = Empty  BY <1>3 DEF Shift
  <2>2. yyss # <<>> /\ State \in States
    <3>1. yyss # <<>>  BY <1>1 DEF Ready, StackInv
    <3>2. PICK S : yyss \in Seq(S)  BY DEF StackInv, StackOK
    <3>3. Len(yyss) \in 1 .. Len(yyss)  BY <3>1, <3>2
    <3> QED  BY <3>1, <3>3 DEF StackInv, StackOK, State, Last
  <2>3. Consults(State) /\ Decision = Decide(State, Token)
    BY <1>1, DefaultNoShift DEF Decision
  <2>4. Token \in Terminals  BY <1>1, <2>3, TokenOfYychar DEF Ready, StackInv
  <2>5. Fits(State, Token)  BY <2>2, <2>3, <2>4, TablesFit
  <2>6. /\ Decision.state \in States /\ <<State, Decision.state>> \in Edges
        /\ At(yystos, Decision.state) = Token
    BY <1>1, <2>3, <2>5 DEF Fits
  <2>7. e.state = Decision.state /\ e.sym = Token  OBVIOUS
  <2>8. TokenOK(yychar')  BY <2>1 DEF TokenOK
  <2> HIDE DEF e
  <2> QED  BY <2>1, <2>2, <2>6, <2>7, <2>8, PushKeepsStack DEF StackInv, State
<1> QED  BY <1>2, <1>3

LEMMA StackReduces ==
  ASSUME StackInv, Ready, Decision.do = "reduce"
  PROVE  Finds(yyss, Decision.rule)
<1>1. Decision \in Decisions(State)  BY Decides DEF StackInv
<1>2. Decision.rule \in Reductions(State)  BY <1>1 DEF Reductions
<1>3. yyss # <<>>  BY DEF Ready, StackInv
<1> QED  BY <1>2, <1>3, FindsTheHandle DEF StackInv, State

LEMMA ReduceKeepsStack ==
  ASSUME StackInv, Reduce  PROVE StackInv'
<1> DEFINE r == Decision.rule
<1> DEFINE n == At(yyr2, r)
<1> DEFINE v == [i \in 1 .. n |-> yyss[Len(yyss) - n + i].val]
<1> DEFINE below == SubSeq(yyss, 1, Len(yyss) - n)
<1> DEFINE to == Goto(Last(below).state, At(yyr1, r))
<1> DEFINE e == [state |-> to, sym |-> At(yyr1, r), val |-> Value(r, v)]
<1>1. Ready /\ Decision.do = "reduce"  BY DEF Reduce
<1>2. Abort \/ (Push(below, e) /\ UNCHANGED yychar)
  BY DEF Reduce, GiveUp, scannerVars
<1>3. CASE Abort  BY <1>3, AbortKeepsStack
<1>4. CASE Push(below, e) /\ UNCHANGED yychar
  <2>1. Finds(yyss, r)  BY <1>1, StackReduces
  <2>2. n \in 0 .. Len(yyss) - 1  BY <2>1 DEF Finds
  <2>3. yyss # <<>> /\ StackOK(yyss)  BY <1>1 DEF Ready, StackInv
  <2>4. StackOK(below) /\ below # <<>> /\ Last(below) = yyss[Len(yyss) - n]
    BY <2>2, <2>3, StackPop
  <2>5. to \in States /\ <<Last(below).state, to>> \in Edges /\ At(yystos, to) = At(yyr1, r)
    BY <2>1, <2>4 DEF Finds
  <2>6. e.state = to /\ e.sym = At(yyr1, r)  OBVIOUS
  <2>7. TokenOK(yychar')  BY <1>4 DEF StackInv, TokenOK
  <2> HIDE DEF e, to, below
  <2> QED  BY <1>4, <2>4, <2>5, <2>6, <2>7, PushKeepsStack
<1> QED  BY <1>2, <1>3, <1>4

LEMMA ReadKeepsStack ==
  ASSUME StackInv, Read  PROVE StackInv'
<1>1. CASE ReadToken
  <2>1. yylex /\ UNCHANGED <<yyss, reading>>  BY <1>1 DEF ReadToken, readerVars
  <2>2. TokenOK(yychar')  BY <2>1, LexesToken DEF StackInv
  <2> QED  BY <2>1, <2>2 DEF StackInv
<1>2. CASE Shift  BY <1>2, ShiftKeepsStack
<1>3. CASE Reduce  BY <1>3, ReduceKeepsStack
<1>4. CASE SyntaxError  BY <1>4, AbortKeepsStack DEF SyntaxError, GiveUp
<1>5. CASE Accept
  <2>1. yyss' = <<>> /\ reading' = "accepted" /\ yychar' = Empty  BY <1>5 DEF Accept, Finish
  <2>2. StackOK(yyss')  BY <2>1, EmptyStack
  <2> QED  BY <2>1, <2>2 DEF StackInv, TokenOK
<1> QED  BY <1>1, <1>2, <1>3, <1>4, <1>5 DEF Read

LEMMA StartKeepsStack ==
  ASSUME NEW t, ParseString(t) \/ ParseFile(t)  PROVE StackInv'
<1>1. yyss' = <<[state |-> 0, sym |-> -1, val |-> None]>> /\ yychar' = Empty
  BY DEF ParseString, ParseFile, Start, ScanString, OpenFile
<1>2. yyss' # <<>>  BY <1>1
<1>3. StackOK(yyss')  BY <1>1, NewStack
<1> QED  BY <1>1, <1>2, <1>3 DEF StackInv, TokenOK

LEMMA StackInvariant ==
  ReaderSpec => []StackInv
<1>1. ReaderInit => StackInv
  BY EmptyStack DEF ReaderInit, ScannerInit, StackInv, TokenOK
<1>2. StackInv /\ [ReaderNext]_allReaderVars => StackInv'
  <2> SUFFICES ASSUME StackInv, [ReaderNext]_allReaderVars  PROVE StackInv'
    OBVIOUS
  <2>1. CASE Read  BY <2>1, ReadKeepsStack
  <2>2. CASE \E t \in Texts : ParseString(t) \/ ParseFile(t)  BY <2>2, StartKeepsStack
  <2>3. CASE UNCHANGED allReaderVars
    BY <2>3 DEF allReaderVars, scannerVars, readerVars, StackInv
  <2> QED  BY <2>1, <2>2, <2>3 DEF ReaderNext
<1> QED  BY <1>1, <1>2, PTL DEF ReaderSpec

(***************************************************************************)
(* Whatever is read, an action of the grammar finds on the stacks the      *)
(* symbols it was written for.                                             *)
(***************************************************************************)
THEOREM ReaderReducesHandles == ReaderSpec => []ReducesHandles
<1>1. StackInv => ReducesHandles
  <2> SUFFICES ASSUME StackInv  PROVE ReducesHandles
    OBVIOUS
  <2>1. \A i \in 2 .. Len(yyss) : At(yystos, yyss[i].state) = yyss[i].sym
    BY DEF StackInv, StackOK
  <2>2. ASSUME Ready, Decision.do = "reduce"
        PROVE  LET r == Decision.rule
                   n == At(yyr2, r)
               IN /\ n < Len(yyss)
                  /\ yyrhs[r] = [i \in 1 .. n |-> yyss[Len(yyss) - n + i].sym]
                  /\ Goto(yyss[Len(yyss) - n].state, At(yyr1, r)) \in States \ {0}
    <3>1. Finds(yyss, Decision.rule)  BY <2>2, StackReduces
    <3>2. Len(yyss) \in Nat
      <4>1. PICK S : yyss \in Seq(S)  BY DEF StackInv, StackOK
      <4> QED  BY <4>1
    <3>3. At(yyr2, Decision.rule) < Len(yyss)  BY <3>1, <3>2 DEF Finds
    <3> QED  BY <3>1, <3>3 DEF Finds
  <2> QED  BY <2>1, <2>2 DEF ReducesHandles
<1> QED  BY <1>1, StackInvariant, PTL

-----------------------------------------------------------------------------
(* Numbers.                                                                *)

LEMMA LeastNumber ==
  ASSUME NEW S \in SUBSET Nat, S # {}
  PROVE  \E n \in S : \A m \in S : n <= m
<1> DEFINE R == OpToRel(<, Nat)
<1>1. \E n \in S : \A m \in S : ~(<<m, n>> \in R)
  BY NatLessThanWellFounded, WFMin, Zenon
<1>2. \A m, n \in Nat : <<m, n>> \in R <=> m < n
  BY DEF OpToRel
<1> HIDE DEF R
<1>3. PICK n \in S : \A m \in S : <<m, n>> \notin R  BY <1>1, Zenon
<1>4. \A m \in S : ~(m < n)  BY <1>2, <1>3
<1> QED  BY <1>4

LEMMA MinIs ==
  ASSUME NEW S \in SUBSET Nat, S # {}
  PROVE  Min(S) \in S /\ \A m \in S : Min(S) <= m
BY LeastNumber DEF Min

LEMMA MaxIs ==
  ASSUME NEW S \in SUBSET Nat, S # {}, NEW b \in Nat, \A m \in S : m <= b
  PROVE  Max(S) \in S /\ \A m \in S : m <= Max(S)
<1> DEFINE T == {n \in Nat : \A m \in S : m <= n}
<1>1. PICK n \in T : \A m \in T : n <= m
  <2>1. b \in T  OBVIOUS
  <2> QED  BY <2>1, LeastNumber
<1>2. n \in S
  <2> SUFFICES ASSUME n \notin S  PROVE FALSE
    OBVIOUS
  <2>1. \A m \in S : m <= n /\ m # n /\ m \in Nat  OBVIOUS
  <2>2. n # 0 /\ n \in Nat
    <3>1. PICK m \in S : TRUE  OBVIOUS
    <3> QED  BY <2>1, <3>1
  <2>3. n - 1 \in Nat /\ \A m \in S : m <= n - 1  BY <2>1, <2>2
  <2> QED  BY <1>1, <2>2, <2>3
<1>3. \E x \in S : \A y \in S : x >= y  BY <1>1, <1>2
<1>4. Max(S) \in S /\ \A y \in S : Max(S) >= y  BY <1>3 DEF Max
<1> QED  BY <1>4

LEMMA MaxAt ==
  ASSUME NEW S \in SUBSET Nat, NEW n \in S, \A m \in S : m <= n
  PROVE  Max(S) = n
<1>1. n \in Nat /\ S # {}  OBVIOUS
<1>2. Max(S) \in S /\ n <= Max(S)  BY <1>1, MaxIs
<1>3. Max(S) \in Nat /\ Max(S) <= n  BY <1>2
<1> QED  BY <1>1, <1>2, <1>3

LEMMA MinOfTwo ==
  ASSUME NEW a \in Nat, NEW b \in Nat
  PROVE  Min({a, b}) \in {a, b} /\ Min({a, b}) <= a /\ Min({a, b}) <= b
<1> DEFINE S == {a, b}
<1>1. S \in SUBSET Nat /\ S # {}  OBVIOUS
<1>2. a \in S /\ b \in S  OBVIOUS
<1> HIDE DEF S
<1>3. Min(S) \in S /\ \A m \in S : Min(S) <= m  BY <1>1, MinIs
<1>4. Min(S) \in S /\ Min(S) <= a /\ Min(S) <= b  BY <1>2, <1>3
<1> QED  BY <1>4 DEF S

-----------------------------------------------------------------------------
(* The rules of the scanner: the longest word is found when no longer text *)
(* can make it longer.                                                     *)

Char == STRING

LEMMA PrefixIs ==
  ASSUME NEW S, NEW s \in Seq(S), NEW k \in 0 .. Len(s)
  PROVE  /\ SubSeq(s, 1, k) \in Seq(S) /\ Len(SubSeq(s, 1, k)) = k
         /\ \A i \in 1 .. k : SubSeq(s, 1, k)[i] = s[i]
OBVIOUS

LEMMA AllOfPrefix ==
  ASSUME NEW s \in Seq(Char), NEW k \in 1 .. Len(s), NEW C, NEW from \in Nat \ {0}, All(s, from, C)
  PROVE  All(SubSeq(s, 1, k), from, C)
BY PrefixIs DEF All

LEMMA BeginsPrefix ==
  ASSUME NEW s \in Seq(Char), NEW k \in 1 .. Len(s), NEW C
  PROVE  Begins(SubSeq(s, 1, k), C) <=> Begins(s, C)
<1>1. s # <<>> /\ SubSeq(s, 1, k) # <<>>
  <2>1. Len(SubSeq(s, 1, k)) # 0 /\ Len(s) # 0  BY PrefixIs
  <2> QED  BY <2>1
<1>2. SubSeq(s, 1, k)[1] = s[1]  BY PrefixIs
<1> QED  BY <1>1, <1>2 DEF Begins

LEMMA PrefixOfPrefix ==
  ASSUME NEW s \in Seq(Char), NEW j \in 0 .. Len(s), NEW t \in Seq(Char),
         IsPrefix(s, t)
  PROVE  IsPrefix(SubSeq(s, 1, j), t)
<1> DEFINE p == SubSeq(s, 1, j)
<1>1. Len(s) <= Len(t) /\ SubSeq(s, 1, Len(s)) = SubSeq(t, 1, Len(s))  BY DEF IsPrefix
<1>2. \A i \in 1 .. Len(s) : s[i] = t[i]
  <2> SUFFICES ASSUME NEW i \in 1 .. Len(s)  PROVE s[i] = t[i]
    OBVIOUS
  <2>1. Len(s) \in Nat /\ Len(t) \in Nat  OBVIOUS
  <2>2. SubSeq(s, 1, Len(s))[i] = s[i] /\ SubSeq(t, 1, Len(s))[i] = t[i]  BY <1>1, <2>1, PrefixIs
  <2> QED  BY <1>1, <2>2
<1>3. p \in Seq(Char) /\ Len(p) = j /\ j <= Len(t)  BY <1>1, PrefixIs
<1>4. \A i \in 1 .. j : p[i] = t[i]  BY <1>2, PrefixIs
<1>5. SubSeq(p, 1, j) = SubSeq(t, 1, j)
  <2>1. j \in 0 .. Len(t) /\ j \in 0 .. Len(p)  BY <1>3
  <2>2. /\ SubSeq(p, 1, j) \in Seq(Char) /\ Len(SubSeq(p, 1, j)) = j
        /\ SubSeq(t, 1, j) \in Seq(Char) /\ Len(SubSeq(t, 1, j)) = j
        /\ \A i \in 1 .. j : SubSeq(p, 1, j)[i] = SubSeq(t, 1, j)[i]
    <3> HIDE DEF p
    <3> QED  BY <1>3, <1>4, <2>1, PrefixIs
  <2> QED  BY <2>2, SeqEqual
<1> QED  BY <1>3, <1>5 DEF IsPrefix

LEMMA LongWord ==
  ASSUME NEW w, Len(w) \in Nat, NEW j \in Nat, 1 <= j, j < Len(w)
  PROVE  ~(w = <<"\n">> \/ Len(w) = 1 \/ w = <<"-">>)
<1>1. Len(w) # 1  OBVIOUS
<1>2. w # <<"\n">>  BY <1>1
<1>3. w # <<"-">>  BY <1>1
<1> QED  BY <1>1, <1>2, <1>3

(* A word that is alive has been so from its first letter on.              *)
LEMMA AliveExtends ==
  ASSUME NEW w \in Seq(Char), Alive(w), NEW j \in 1 .. Len(w) - 1
  PROVE  Extends(SubSeq(w, 1, j))
<1> DEFINE p == SubSeq(w, 1, j)
<1>0. Len(w) \in Nat /\ j \in Nat /\ 1 <= j /\ j < Len(w)  OBVIOUS
<1>1. j \in 1 .. Len(w) /\ j < Len(w) /\ w # <<>>  OBVIOUS
<1>2. p \in Seq(Char) /\ Len(p) = j /\ \A i \in 1 .. j : p[i] = w[i]  BY <1>1, PrefixIs
<1>3. ASSUME NEW k \in Words, Len(w) <= Len(k), IsPrefix(w, k)
      PROVE  Extends(p)
  <2>1. k \in Seq(Char)  BY WordsAreSequences DEF Char
  <2>2. IsPrefix(p, k)  BY <1>1, <1>3, <2>1, PrefixOfPrefix
  <2>3. Len(p) < Len(k)  BY <1>1, <1>2, <1>3, <2>1
  <2> QED  BY <2>2, <2>3 DEF Extends
<1>4. CASE w \in Words
  <2>1. IsPrefix(w, w) /\ Len(w) <= Len(w)  BY DEF IsPrefix
  <2> QED  BY <1>3, <1>4, <2>1
<1>5. CASE \E k \in Words : Len(w) < Len(k) /\ IsPrefix(w, k)
  <2>1. PICK k \in Words : Len(w) < Len(k) /\ IsPrefix(w, k)  BY <1>5
  <2>2. k \in Seq(Char)  BY WordsAreSequences DEF Char
  <2>3. Len(w) <= Len(k)  BY <2>1, <2>2
  <2> QED  BY <1>3, <2>1, <2>3
<1>6. CASE Begins(w, {"*"}) /\ All(w, 2, Word)
  BY <1>1, <1>6, BeginsPrefix, AllOfPrefix DEF Extends
<1>7. CASE IsName(w)
  <2>1. IsName(p)  BY <1>1, <1>7, BeginsPrefix, AllOfPrefix DEF IsName
  <2> QED  BY <2>1 DEF Extends
<1>8. CASE All(w, 1, {"\t"}) \/ All(w, 1, Blank)
  BY <1>1, <1>8, AllOfPrefix DEF Extends
<1>9. CASE IsComment(w)
  <2>1. Len(w) >= 2 /\ w[1] = "-" /\ w[2] = "-" /\ \A i \in 3 .. Len(w) - 1 : w[i] # "\n"
    BY <1>9 DEF IsComment
  <2>2. CASE j = 1
    <3>1. p = <<"-">>
      <4> HIDE DEF p
      <4>1. Len(p) = 1 /\ p[1] = "-"  BY <1>2, <2>1, <2>2
      <4>2. p = <<p[1]>>  BY <1>2, <4>1
      <4> QED  BY <4>1, <4>2
    <3> QED  BY <3>1 DEF Extends
  <2>3. CASE j >= 2
    <3>1. p[1] = "-" /\ p[2] = "-" /\ \A i \in 3 .. j : p[i] # "\n"  BY <1>2, <2>1, <2>3
    <3>2. p[j] # "\n"  BY <1>2, <2>3, <3>1
    <3>3. IsComment(p) /\ Last(p) # "\n"  BY <1>2, <2>3, <3>1, <3>2 DEF IsComment, Last
    <3> QED  BY <3>3 DEF Extends
  <2> QED  BY <2>2, <2>3
<1>10. CASE w = <<"\r", "\n">>
  <2>1. j = 1 /\ w[1] = "\r"  BY <1>1, <1>10
  <2>2. Len(p) = 1 /\ p[1] = "\r" /\ "\r" \in Blank  BY <1>2, <2>1 DEF Blank
  <2> HIDE DEF p
  <2>3. \A i \in 1 .. Len(p) : p[i] \in Blank  BY <2>2
  <2>4. All(p, 1, Blank)  BY <2>3 DEF All
  <2> QED  BY <2>4 DEF Extends, p
<1>11. ~(w = <<"\n">> \/ Len(w) = 1 \/ w = <<"-">>)  BY <1>0, LongWord
<1> QED  BY <1>1, <1>4, <1>5, <1>6, <1>7, <1>8, <1>9, <1>10, <1>11
       DEF Alive, Accepts, Extends, IsRelation, IsSkipped, IsUnknown

LEMMA LetterAccepted ==
  ASSUME NEW w \in Seq(Char), Len(w) = 1
  PROVE  Accepts(w)
<1>1. w # <<>>  OBVIOUS
<1>2. CASE w = <<"\n">>  BY <1>1, <1>2 DEF Accepts, IsSkipped
<1>3. CASE w # <<"\n">>  BY <1>1, <1>3 DEF Accepts, IsUnknown
<1> QED  BY <1>2, <1>3

(* L is the length of the first word of s.                                 *)
IsLongest(s, L) ==
  /\ L \in 1 .. Len(s) /\ Accepts(SubSeq(s, 1, L))
  /\ \A k \in 1 .. Len(s) : Accepts(SubSeq(s, 1, k)) => k <= L

LEMMA LongestExists ==
  ASSUME NEW s \in Seq(Char), s # <<>>
  PROVE  \E L \in 1 .. Len(s) : IsLongest(s, L)
<1> DEFINE S == {k \in 1 .. Len(s) : Accepts(SubSeq(s, 1, k))}
<1>1. Len(s) \in Nat /\ 1 \in 1 .. Len(s)  OBVIOUS
<1>2. SubSeq(s, 1, 1) \in Seq(Char) /\ Len(SubSeq(s, 1, 1)) = 1  BY <1>1, PrefixIs
<1>3. 1 \in S  BY <1>1, <1>2, LetterAccepted
<1>4. S \in SUBSET Nat /\ S # {} /\ \A m \in S : m <= Len(s)  BY <1>1, <1>3
<1>5. Max(S) \in S /\ \A m \in S : m <= Max(S)
  <2> HIDE DEF S
  <2> QED  BY <1>1, <1>4, MaxIs
<1> QED  BY <1>5 DEF IsLongest

LEMMA AlivePrefix ==
  ASSUME NEW s \in Seq(Char), NEW k \in 1 .. Len(s), Alive(SubSeq(s, 1, k)),
         NEW j \in 1 .. k
  PROVE  /\ Alive(SubSeq(s, 1, j))
         /\ j < k => Extends(SubSeq(s, 1, j))
<1> DEFINE w == SubSeq(s, 1, k)
<1>1. w \in Seq(Char) /\ Len(w) = k  BY PrefixIs
<1>2. CASE j = k  BY <1>2
<1>3. CASE j < k
  <2>1. SubSeq(w, 1, j) = SubSeq(s, 1, j)
    <3>1. j \in 0 .. Len(w) /\ j \in 0 .. Len(s) /\ k \in 0 .. Len(s)  BY <1>1, <1>3
    <3>2. /\ SubSeq(w, 1, j) \in Seq(Char) /\ Len(SubSeq(w, 1, j)) = j
          /\ \A i \in 1 .. j : SubSeq(w, 1, j)[i] = w[i]
      <4> HIDE DEF w
      <4> QED  BY <1>1, <3>1, PrefixIs
    <3>3. /\ SubSeq(s, 1, j) \in Seq(Char) /\ Len(SubSeq(s, 1, j)) = j
          /\ \A i \in 1 .. j : SubSeq(s, 1, j)[i] = s[i]
      BY <3>1, PrefixIs
    <3>4. \A i \in 1 .. j : w[i] = s[i]  BY <1>3, <3>1, PrefixIs
    <3> HIDE DEF w
    <3> QED  BY <3>2, <3>3, <3>4, SeqEqual
  <2>2. j \in 1 .. Len(w) - 1  BY <1>1, <1>3
  <2>3. Extends(SubSeq(w, 1, j))
    <3> HIDE DEF w
    <3>1. Alive(w)  BY DEF w
    <3> QED  BY <1>1, <2>2, <3>1, AliveExtends
  <2> QED  BY <2>1, <2>3 DEF Alive
<1> QED  BY <1>2, <1>3

(* How far the automaton gets.                                             *)
LEMMA RunIs ==
  ASSUME NEW s \in Seq(Char)
  PROVE  /\ Run(s) \in 0 .. Len(s)
         /\ Run(s) > 0 => Alive(SubSeq(s, 1, Run(s)))
         /\ \A k \in 1 .. Len(s) : Alive(SubSeq(s, 1, k)) => k <= Run(s)
<1> DEFINE P(k) == /\ k > 0 => Alive(SubSeq(s, 1, k))
                   /\ k < Len(s) => ~Alive(SubSeq(s, 1, k + 1))
<1> DEFINE S == {k \in 1 .. Len(s) : Alive(SubSeq(s, 1, k))}
<1>0. Len(s) \in Nat  OBVIOUS
<1>1. \E k \in 0 .. Len(s) : P(k)
  <2>1. CASE S = {}
    <3>1. P(0)
      <4>1. 0 < Len(s) => 1 \in 1 .. Len(s)  BY <1>0
      <4> QED  BY <2>1, <4>1
    <3> QED  BY <3>1, <1>0
  <2>2. CASE S # {}
    <3>1. S \in SUBSET Nat /\ \A m \in S : m <= Len(s)  BY <1>0
    <3>2. Max(S) \in S /\ \A m \in S : m <= Max(S)
      <4> HIDE DEF S
      <4> QED  BY <1>0, <2>2, <3>1, MaxIs
    <3>3. Max(S) \in 1 .. Len(s) /\ Alive(SubSeq(s, 1, Max(S)))  BY <3>2
    <3>4. Max(S) < Len(s) => Max(S) + 1 \in 1 .. Len(s) /\ Max(S) + 1 \notin S
      <4> HIDE DEF S
      <4> QED  BY <1>0, <3>2, <3>3
    <3>5. P(Max(S))  BY <3>3, <3>4
    <3>6. Max(S) \in 0 .. Len(s)
      <4> HIDE DEF S
      <4> QED  BY <1>0, <3>3
    <3> QED  BY <3>5, <3>6
  <2> QED  BY <2>1, <2>2
<1>2. Run(s) \in 0 .. Len(s) /\ P(Run(s))
  <2>1. Run(s) = CHOOSE k \in 0 .. Len(s) : P(k)  BY DEF Run
  <2> HIDE DEF P
  <2> QED  BY <1>1, <2>1
<1>3. ASSUME NEW k \in 1 .. Len(s), Alive(SubSeq(s, 1, k))
      PROVE  k <= Run(s)
  <2> SUFFICES ASSUME Run(s) < k  PROVE FALSE
    BY <1>0, <1>2
  <2>1. Run(s) + 1 \in 1 .. k /\ Run(s) < Len(s)  BY <1>0, <1>2
  <2>2. Alive(SubSeq(s, 1, Run(s) + 1))  BY <1>3, <2>1, AlivePrefix
  <2> QED  BY <1>2, <2>1, <2>2
<1> QED  BY <1>2, <1>3

LEMMA LexemeIs ==
  ASSUME NEW s \in Seq(Char), NEW L \in 1 .. Len(s), IsLongest(s, L)
  PROVE  Lexeme(s) = SubSeq(s, 1, L)
<1> DEFINE S == {k \in 1 .. Run(s) : Accepts(SubSeq(s, 1, k))}
<1>1. Len(s) \in Nat /\ Run(s) \in 0 .. Len(s)  BY RunIs
<1>2. L <= Run(s)
  <2>1. Alive(SubSeq(s, 1, L))  BY DEF IsLongest, Alive
  <2> QED  BY <2>1, RunIs
<1>3. L \in S  BY <1>1, <1>2 DEF IsLongest
<1>4. \A m \in S : m <= L  BY <1>1 DEF IsLongest
<1>5. S \in SUBSET Nat  BY <1>1
<1>6. Max(S) = L
  <2> HIDE DEF S
  <2> QED  BY <1>3, <1>4, <1>5, MaxAt
<1> QED  BY <1>6 DEF Lexeme

(* Maximal munch: unless the automaton has come to the end of the buffer   *)
(* and could go on, what follows does not change the first word.           *)
LEMMA MunchIsMaximal ==
  ASSUME NEW s \in Seq(Char), NEW more \in Seq(Char), ~HitsEnd(s),
         NEW L \in 1 .. Len(s), IsLongest(s, L)
  PROVE  IsLongest(s \o more, L)
<1> DEFINE t == s \o more
<1>1. t \in Seq(Char) /\ Len(t) = Len(s) + Len(more) /\ Len(s) \in Nat /\ Len(more) \in Nat
  OBVIOUS
<1>2. \A i \in 1 .. Len(s) : t[i] = s[i]  OBVIOUS
<1>3. \A k \in 1 .. Len(s) : SubSeq(t, 1, k) = SubSeq(s, 1, k)
  <2> SUFFICES ASSUME NEW k \in 1 .. Len(s)  PROVE SubSeq(t, 1, k) = SubSeq(s, 1, k)
    OBVIOUS
  <2>1. k \in 0 .. Len(t) /\ k \in 0 .. Len(s)  BY <1>1
  <2>2. \A i \in 1 .. k : t[i] = s[i]  BY <1>1, <1>2
  <2> HIDE DEF t
  <2>3. /\ SubSeq(t, 1, k) \in Seq(Char) /\ Len(SubSeq(t, 1, k)) = k
        /\ SubSeq(s, 1, k) \in Seq(Char) /\ Len(SubSeq(s, 1, k)) = k
        /\ \A i \in 1 .. k : SubSeq(t, 1, k)[i] = t[i] /\ SubSeq(s, 1, k)[i] = s[i]
    BY <1>1, <2>1, PrefixIs
  <2> QED  BY <2>2, <2>3, SeqEqual
<1>4. L \in 1 .. Len(t) /\ Accepts(SubSeq(t, 1, L))
  <2>1. L \in 1 .. Len(t)  BY <1>1
  <2> QED  BY <2>1, <1>3 DEF IsLongest
<1>5. ASSUME NEW k \in 1 .. Len(t), Accepts(SubSeq(t, 1, k))
      PROVE  k <= L
  <2>1. CASE k <= Len(s)
    <3>1. k \in 1 .. Len(s)  BY <1>1, <2>1
    <3>2. Accepts(SubSeq(s, 1, k))  BY <1>3, <1>5, <3>1
    <3> QED  BY <3>1, <3>2 DEF IsLongest
  <2>2. CASE Len(s) < k
    <3>1. Len(s) \in 1 .. k /\ Len(s) \in 1 .. Len(s)  BY <1>1, <2>2
    <3>2. Alive(SubSeq(t, 1, k))  BY <1>5 DEF Alive
    <3>3. Alive(SubSeq(t, 1, Len(s))) /\ Extends(SubSeq(t, 1, Len(s)))
      <4> HIDE DEF t
      <4> QED  BY <1>1, <2>2, <3>1, <3>2, AlivePrefix
    <3>4. SubSeq(t, 1, Len(s)) = s
      <4>1. SubSeq(s, 1, Len(s)) = s  OBVIOUS
      <4> QED  BY <1>3, <3>1, <4>1
    <3>5. Run(s) = Len(s)
      <4>1. Alive(SubSeq(s, 1, Len(s)))  BY <1>3, <3>1, <3>3
      <4>2. Len(s) <= Run(s) /\ Run(s) \in 0 .. Len(s)  BY <3>1, <4>1, RunIs
      <4> QED  BY <1>1, <4>2
    <3> QED  BY <3>3, <3>4, <3>5 DEF HitsEnd
  <2> QED  BY <1>1, <2>1, <2>2
<1> HIDE DEF t
<1>6. IsLongest(t, L)  BY <1>4, <1>5 DEF IsLongest
<1> QED  BY <1>6 DEF t

LEMMA EmptyHitsEnd ==
  HitsEnd(<<>>)
<1>1. <<>> \in Seq(Char) /\ Len(<<>>) = 0  OBVIOUS
<1>2. Run(<<>>) \in 0 .. Len(<<>>)  BY <1>1, RunIs
<1>3. 0 .. Len(<<>>) = {0}  BY <1>1
<1>4. Run(<<>>) = 0  BY <1>2, <1>3
<1> QED  BY <1>1, <1>4 DEF HitsEnd, Extends

-----------------------------------------------------------------------------
(***************************************************************************)
(* The words of a text.  WordsFrom is a recursive function: that there is  *)
(* one follows from the induction below, over the number of places from    *)
(* the end of the text at which it is what it should be.                   *)
(***************************************************************************)
LEMMA CountingUp ==
  ASSUME NEW T, 0 \in T, \A n \in Nat : n \in T => n + 1 \in T
  PROVE  Nat \subseteq T
<1> SUFFICES ASSUME Nat \ T # {}  PROVE FALSE
  OBVIOUS
<1>1. PICK n \in Nat \ T : \A m \in Nat \ T : n <= m  BY LeastNumber
<1>2. n # 0 /\ n - 1 \in Nat /\ n - 1 + 1 = n  BY <1>1
<1>3. n - 1 \in T  BY <1>1, <1>2
<1> QED  BY <1>1, <1>2, <1>3

IsChain(F, N, e, hd, nx) ==
  \A i \in 1 .. N + 1 : F[i] = IF i > N THEN e ELSE hd[i] \o F[nx[i]]

LEMMA WordsExist ==
  ASSUME NEW N \in Nat, NEW S, NEW e \in Seq(S), NEW hd \in [1 .. N -> Seq(S)],
         NEW nx, \A i \in 1 .. N : nx[i] \in i + 1 .. N + 1
  PROVE  \E F \in [1 .. N + 1 -> Seq(S)] : IsChain(F, N, e, hd, nx)
<1> DEFINE Good(F, m) ==
      \A i \in 1 .. N + 1 : i + m > N => F[i] = IF i > N THEN e ELSE hd[i] \o F[nx[i]]
<1> DEFINE T == {m \in Nat : m > N \/ \E F \in [1 .. N + 1 -> Seq(S)] : Good(F, m)}
<1>1. 0 \in T
  <2> DEFINE F == [i \in 1 .. N + 1 |-> e]
  <2>1. F \in [1 .. N + 1 -> Seq(S)]  OBVIOUS
  <2>2. Good(F, 0)  OBVIOUS
  <2> HIDE DEF Good, F
  <2> QED  BY <2>1, <2>2
<1>2. \A m \in Nat : m \in T => m + 1 \in T
  <2> SUFFICES ASSUME NEW m \in Nat, m \in T  PROVE m + 1 \in T
    <3> HIDE DEF T
    <3> QED  OBVIOUS
  <2> SUFFICES ASSUME ~(m + 1 > N)  PROVE \E F \in [1 .. N + 1 -> Seq(S)] : Good(F, m + 1)
    <3> HIDE DEF Good
    <3> QED  OBVIOUS
  <2>0. ~(m > N)  OBVIOUS
  <2>1. PICK F \in [1 .. N + 1 -> Seq(S)] : Good(F, m)
    <3> HIDE DEF Good
    <3> QED  BY <2>0
  <2> DEFINE j == N - m
  <2> DEFINE G == [F EXCEPT ![j] = hd[j] \o F[nx[j]]]
  <2>2. j \in 1 .. N /\ j \in 1 .. N + 1 /\ nx[j] \in j + 1 .. N + 1 /\ nx[j] \in 1 .. N + 1 /\ nx[j] # j
    <3>1. j \in 1 .. N  BY <2>0
    <3>2. nx[j] \in j + 1 .. N + 1  BY <3>1
    <3> DEFINE y == nx[j]
    <3>3. y \in j + 1 .. N + 1  BY <3>2
    <3> HIDE DEF j, y
    <3>4. j \in 1 .. N + 1 /\ y \in 1 .. N + 1 /\ y # j  BY <3>1, <3>3
    <3> QED  BY <3>1, <3>2, <3>4 DEF y
  <2>3. hd[j] \in Seq(S) /\ F[nx[j]] \in Seq(S)  BY <2>2
  <2>4. hd[j] \o F[nx[j]] \in Seq(S)  BY <2>3, ConcatProperties
  <2>5. G \in [1 .. N + 1 -> Seq(S)]  BY <2>2, <2>4
  <2>6. \A i \in 1 .. N + 1 : G[i] = IF i = j THEN hd[j] \o F[nx[j]] ELSE F[i]
    BY <2>2
  <2>7. Good(G, m + 1)
    <3> SUFFICES ASSUME NEW i \in 1 .. N + 1, i + (m + 1) > N
                 PROVE  G[i] = IF i > N THEN e ELSE hd[i] \o G[nx[i]]
      OBVIOUS
    <3>1. CASE i = j
      <4>1. G[nx[j]] = F[nx[j]] /\ G[j] = hd[j] \o F[nx[j]]
        <5> HIDE DEF G, j
        <5> QED  BY <2>2, <2>6
      <4>2. ~(i > N)  BY <3>1, <2>2
      <4> QED  BY <3>1, <4>1, <4>2
    <3>2. CASE i # j
      <4>1. i + m > N /\ i > j  BY <3>2
      <4>2. F[i] = IF i > N THEN e ELSE hd[i] \o F[nx[i]]  BY <2>1, <4>1
      <4>3. G[i] = F[i]
        <5> HIDE DEF G, j
        <5> QED  BY <2>6, <3>2
      <4>4. CASE i > N  BY <4>2, <4>3, <4>4
      <4>5. CASE ~(i > N)
        <5>1. nx[i] \in i + 1 .. N + 1  BY <4>5
        <5>2. nx[i] \in 1 .. N + 1 /\ nx[i] # j
          <6> DEFINE y == nx[i]
          <6>1. y \in i + 1 .. N + 1  BY <5>1
          <6>2. j \in Nat /\ i > j  BY <2>2, <4>1
          <6> HIDE DEF j, y
          <6>3. y \in 1 .. N + 1 /\ y # j  BY <6>1, <6>2
          <6> QED  BY <6>3 DEF y
        <5>3. G[nx[i]] = F[nx[i]]
          <6> HIDE DEF G, j
          <6> QED  BY <2>6, <5>2
        <5> QED  BY <4>2, <4>3, <4>5, <5>3
      <4> QED  BY <4>4, <4>5
    <3> QED  BY <3>1, <3>2
  <2> HIDE DEF Good, G
  <2> QED  BY <2>5, <2>7
<1>3. N \in T
  <2> HIDE DEF T
  <2> QED  BY <1>1, <1>2, CountingUp
<1>4. PICK F \in [1 .. N + 1 -> Seq(S)] : Good(F, N)
  <2> HIDE DEF Good
  <2> QED  BY <1>3
<1>5. \A i \in 1 .. N + 1 : i + N > N  OBVIOUS
<1>6. IsChain(F, N, e, hd, nx)  BY <1>4, <1>5 DEF IsChain
<1> QED  BY <1>6

Returns == {Returned(w) : w \in Seq(Char)} \cup {Eof}

LEMMA LongestIs ==
  ASSUME NEW s \in Seq(Char), NEW i \in 1 .. Len(s), NEW L,
         IsLongest(SubSeq(s, i, Len(s)), L)
  PROVE  /\ Longest(s, i) = SubSeq(SubSeq(s, i, Len(s)), 1, L)
         /\ Len(Longest(s, i)) = L /\ Longest(s, i) \in Seq(Char)
         /\ L \in 1 .. Len(s) - i + 1
<1> DEFINE t == SubSeq(s, i, Len(s))
<1> DEFINE S == {k \in i .. Len(s) : Accepts(SubSeq(s, i, k))}
<1>1. /\ t \in Seq(Char) /\ Len(t) = Len(s) - i + 1 /\ Len(s) \in Nat /\ i \in Nat
      /\ \A k \in 1 .. Len(s) - i + 1 : t[k] = s[i + k - 1]
  OBVIOUS
<1>2. L \in 1 .. Len(s) - i + 1  BY <1>1 DEF IsLongest
<1>3. ASSUME NEW k \in i .. Len(s)
      PROVE  SubSeq(s, i, k) = SubSeq(t, 1, k - i + 1)
  <2>1. /\ SubSeq(s, i, k) \in Seq(Char) /\ Len(SubSeq(s, i, k)) = k - i + 1
        /\ \A n \in 1 .. k - i + 1 : SubSeq(s, i, k)[n] = s[i + n - 1]
    OBVIOUS
  <2>2. k - i + 1 \in 0 .. Len(t) /\ k - i + 1 \in 1 .. Len(s) - i + 1  BY <1>1
  <2>3. \A n \in 1 .. k - i + 1 : t[n] = s[i + n - 1]  BY <1>1, <2>2
  <2> HIDE DEF t
  <2>4. /\ SubSeq(t, 1, k - i + 1) \in Seq(Char) /\ Len(SubSeq(t, 1, k - i + 1)) = k - i + 1
        /\ \A n \in 1 .. k - i + 1 : SubSeq(t, 1, k - i + 1)[n] = t[n]
    BY <1>1, <2>2, PrefixIs
  <2> QED  BY <2>1, <2>3, <2>4, SeqEqual
<1> DEFINE m == i + L - 1
<1>4. m \in i .. Len(s) /\ m - i + 1 = L  BY <1>1, <1>2
<1>5. Accepts(SubSeq(t, 1, L)) /\ \A k \in 1 .. Len(t) : Accepts(SubSeq(t, 1, k)) => k <= L
  BY DEF IsLongest
<1>6. m \in S
  <2> HIDE DEF t, m
  <2> QED  BY <1>3, <1>4, <1>5
<1>7. \A k \in S : k <= m
  <2> SUFFICES ASSUME NEW k \in i .. Len(s), Accepts(SubSeq(s, i, k))  PROVE k <= m
    OBVIOUS
  <2>1. k - i + 1 \in 1 .. Len(t)  BY <1>1
  <2>2. Accepts(SubSeq(t, 1, k - i + 1))  BY <1>3
  <2>3. k - i + 1 <= L  BY <1>5, <2>1, <2>2
  <2> QED  BY <1>1, <1>2, <2>3
<1>8. S \in SUBSET Nat  BY <1>1
<1>9. Max(S) = m
  <2> HIDE DEF S, m
  <2> QED  BY <1>6, <1>7, <1>8, MaxAt
<1>10. Longest(s, i) = SubSeq(s, i, m)  BY <1>9 DEF Longest
<1>11. Longest(s, i) = SubSeq(t, 1, L)
  <2> HIDE DEF t, m
  <2> QED  BY <1>3, <1>4, <1>10
<1>12. L \in 0 .. Len(t)  BY <1>1, <1>2
<1>13. SubSeq(t, 1, L) \in Seq(Char) /\ Len(SubSeq(t, 1, L)) = L
  <2> HIDE DEF t
  <2> QED  BY <1>1, <1>12, PrefixIs
<1> QED  BY <1>2, <1>11, <1>13

LEMMA LongestWord ==
  ASSUME NEW s \in Seq(Char), NEW i \in 1 .. Len(s)
  PROVE  Longest(s, i) \in Seq(Char) /\ i + Len(Longest(s, i)) \in i + 1 .. Len(s) + 1
<1> DEFINE t == SubSeq(s, i, Len(s))
<1>1. t \in Seq(Char) /\ t # <<>> /\ Len(s) \in Nat
  <2>1. t \in Seq(Char) /\ Len(t) = Len(s) - i + 1 /\ Len(s) \in Nat  OBVIOUS
  <2>2. Len(t) # 0  BY <2>1
  <2> HIDE DEF t
  <2> QED  BY <2>1, <2>2
<1>2. PICK L \in 1 .. Len(t) : IsLongest(t, L)
  <2> HIDE DEF t
  <2> QED  BY <1>1, LongestExists
<1>3. /\ Longest(s, i) \in Seq(Char) /\ Len(Longest(s, i)) = L /\ L \in 1 .. Len(s) - i + 1
  BY <1>2, LongestIs
<1> QED  BY <1>1, <1>3

LEMMA WordsAre ==
  ASSUME NEW s \in Seq(Char)
  PROVE  \A i \in 1 .. Len(s) + 1 :
           /\ WordsFrom(s)[i] \in Seq(Returns)
           /\ WordsFrom(s)[i] =
                IF i > Len(s) THEN <<Eof>>
                ELSE (IF TokenOf(Longest(s, i)) = "skip" THEN <<>> ELSE <<Returned(Longest(s, i))>>)
                       \o WordsFrom(s)[i + Len(Longest(s, i))]
<1> DEFINE Hd(i) == IF TokenOf(Longest(s, i)) = "skip" THEN <<>> ELSE <<Returned(Longest(s, i))>>
<1> DEFINE Nx(i) == i + Len(Longest(s, i))
<1> DEFINE N == Len(s)
<1> DEFINE hd == [i \in 1 .. N |-> Hd(i)]
<1> DEFINE nx == [i \in 1 .. N |-> Nx(i)]
<1> DEFINE Eq(F) == F = [i \in 1 .. N + 1 |-> IF i > N THEN <<Eof>> ELSE Hd(i) \o F[Nx(i)]]
<1>1. N \in Nat /\ <<Eof>> \in Seq(Returns)
  <2>1. Eof \in Returns  BY DEF Returns
  <2> QED  BY <2>1
<1>2. hd \in [1 .. N -> Seq(Returns)]
  <2> SUFFICES ASSUME NEW i \in 1 .. N  PROVE Hd(i) \in Seq(Returns)
    OBVIOUS
  <2>1. Returned(Longest(s, i)) \in Returns  BY LongestWord DEF Returns
  <2> QED  BY <2>1
<1>3. \A i \in 1 .. N : nx[i] \in i + 1 .. N + 1  BY LongestWord
<1> HIDE DEF Hd, Nx
<1>4. \A i \in 1 .. N : hd[i] = Hd(i) /\ nx[i] = Nx(i)  OBVIOUS
<1> HIDE DEF hd, nx, N
<1> DEFINE e == <<Eof>>
<1>0. e \in Seq(Returns)  BY <1>1
<1> HIDE DEF e
<1>5. PICK F \in [1 .. N + 1 -> Seq(Returns)] : IsChain(F, N, e, hd, nx)
  BY <1>0, <1>1, <1>2, <1>3, WordsExist
<1>6. \A i \in 1 .. N + 1 : ~(i > N) => i \in 1 .. N  BY <1>1
<1>7. Eq(F)
  <2>1. \A i \in 1 .. N + 1 : F[i] = IF i > N THEN <<Eof>> ELSE Hd(i) \o F[Nx(i)]
    BY <1>4, <1>5, <1>6 DEF IsChain, e
  <2> QED  BY <2>1
<1>8. WordsFrom(s) = CHOOSE G : Eq(G)  BY Zenon DEF WordsFrom, Hd, Nx, N
<1> HIDE DEF Eq
<1>9. Eq(WordsFrom(s))  BY <1>7, <1>8, Zenon
<1> DEFINE W == WordsFrom(s)
<1> HIDE DEF W
<1>10. W = [i \in 1 .. N + 1 |-> IF i > N THEN <<Eof>> ELSE Hd(i) \o W[Nx(i)]]
  BY <1>9, Zenon DEF Eq, W
<1>11. \A i \in 1 .. N + 1 : W[i] = IF i > N THEN <<Eof>> ELSE Hd(i) \o W[Nx(i)]
  BY <1>10
<1> DEFINE T == {m \in Nat : \A i \in 1 .. N + 1 : i + m > N => W[i] \in Seq(Returns)}
<1>12. 0 \in T
  <2> SUFFICES ASSUME NEW i \in 1 .. N + 1, i + 0 > N  PROVE W[i] \in Seq(Returns)
    OBVIOUS
  <2>1. i > N  BY <1>1
  <2> QED  BY <1>1, <1>11, <2>1
<1>13. \A m \in Nat : m \in T => m + 1 \in T
  <2> SUFFICES ASSUME NEW m \in Nat, m \in T  PROVE m + 1 \in T
    <3> HIDE DEF T
    <3> QED  OBVIOUS
  <2> SUFFICES ASSUME NEW i \in 1 .. N + 1, i + (m + 1) > N  PROVE W[i] \in Seq(Returns)
    OBVIOUS
  <2>1. CASE i > N  BY <1>1, <1>11, <2>1
  <2>2. CASE ~(i > N)
    <3>1. i \in 1 .. N  BY <1>6, <2>2
    <3>2. Nx(i) \in i + 1 .. N + 1 /\ Hd(i) \in Seq(Returns)  BY <1>2, <1>3, <1>4, <3>1
    <3>3. Nx(i) \in 1 .. N + 1 /\ Nx(i) + m > N  BY <1>1, <3>2
    <3>4. W[Nx(i)] \in Seq(Returns)  BY <3>3
    <3>5. W[i] = Hd(i) \o W[Nx(i)]  BY <1>11, <2>2
    <3> QED  BY <3>2, <3>4, <3>5, ConcatProperties
  <2> QED  BY <2>1, <2>2
<1>14. N \in T
  <2> HIDE DEF T
  <2> QED  BY <1>1, <1>12, <1>13, CountingUp
<1>15. \A i \in 1 .. N + 1 : i + N > N  BY <1>1
<1>16. \A i \in 1 .. N + 1 : W[i] \in Seq(Returns)  BY <1>14, <1>15
<1> QED  BY <1>11, <1>16 DEF W, Hd, Nx, N

-----------------------------------------------------------------------------
(* The buffer has room for another character once it has grown.            *)
LEMMA GrowthExists ==
  ASSUME NEW M \in Nat
  PROVE  \E F \in [Nat -> Nat] : \A n \in Nat : F[n] = IF n > M THEN n ELSE F[2 * n]
<1> DEFINE Good(F, k) ==
      \A n \in Nat : n = 0 \/ n + k > M => F[n] = IF n > M THEN n ELSE F[2 * n]
<1> DEFINE T == {k \in Nat : k > M \/ \E F \in [Nat -> Nat] : Good(F, k)}
<1>1. 0 \in T
  <2> DEFINE F == [n \in Nat |-> n]
  <2>1. F \in [Nat -> Nat] /\ Good(F, 0)  OBVIOUS
  <2> HIDE DEF Good, F
  <2> QED  BY <2>1
<1>2. \A k \in Nat : k \in T => k + 1 \in T
  <2> SUFFICES ASSUME NEW k \in Nat, k \in T  PROVE k + 1 \in T
    <3> HIDE DEF T
    <3> QED  OBVIOUS
  <2> SUFFICES ASSUME ~(k + 1 > M)  PROVE \E F \in [Nat -> Nat] : Good(F, k + 1)
    <3> HIDE DEF Good
    <3> QED  OBVIOUS
  <2>0. ~(k > M)  OBVIOUS
  <2>1. PICK F \in [Nat -> Nat] : Good(F, k)
    <3> HIDE DEF Good
    <3> QED  BY <2>0
  <2> DEFINE j == M - k
  <2> DEFINE G == [F EXCEPT ![j] = F[2 * j]]
  <2>2. j \in Nat /\ j >= 1 /\ 2 * j \in Nat /\ 2 * j # j  BY <2>0
  <2>3. F[2 * j] \in Nat  BY <2>2
  <2>4. G \in [Nat -> Nat]  BY <2>2, <2>3
  <2>5. \A n \in Nat : G[n] = IF n = j THEN F[2 * j] ELSE F[n]  BY <2>2
  <2>6. Good(G, k + 1)
    <3> SUFFICES ASSUME NEW n \in Nat, n = 0 \/ n + (k + 1) > M
                 PROVE  G[n] = IF n > M THEN n ELSE G[2 * n]
      OBVIOUS
    <3>1. CASE n = j
      <4>1. ~(n > M)  BY <2>0, <3>1
      <4> HIDE DEF G, j
      <4>2. G[j] = F[2 * j] /\ G[2 * j] = F[2 * j]  BY <2>2, <2>5
      <4> QED  BY <3>1, <4>1, <4>2
    <3>2. CASE n # j
      <4>1. n = 0 \/ n + k > M  BY <3>2, <2>0
      <4>2. F[n] = IF n > M THEN n ELSE F[2 * n]  BY <2>1, <4>1
      <4>3. n = 0 \/ 2 * n # j  BY <4>1, <2>0
      <4> HIDE DEF G, j
      <4>4. G[n] = F[n] /\ (2 * n # j => G[2 * n] = F[2 * n])  BY <2>5, <3>2
      <4>5. CASE n = 0
        <5>1. 2 * n = n  BY <4>5
        <5> QED  BY <4>5, <5>1
      <4>6. CASE 2 * n # j  BY <4>2, <4>4, <4>6
      <4> QED  BY <4>3, <4>5, <4>6
    <3> QED  BY <3>1, <3>2
  <2> HIDE DEF Good, G
  <2> QED  BY <2>4, <2>6
<1>3. M \in T
  <2> HIDE DEF T
  <2> QED  BY <1>1, <1>2, CountingUp
<1>4. PICK F \in [Nat -> Nat] : Good(F, M)
  <2> HIDE DEF Good
  <2> QED  BY <1>3
<1>5. \A n \in Nat : n = 0 \/ n + M > M  OBVIOUS
<1> QED  BY <1>4, <1>5

LEMMA GrownIs ==
  ASSUME NEW size \in Nat \ {0}, NEW moved \in Nat
  PROVE  Grown(size, moved) \in Nat /\ Grown(size, moved) > moved + 1
<1> DEFINE M == moved + 1
<1> DEFINE Eq(F) == F = [n \in Nat |-> IF n > moved + 1 THEN n ELSE F[2 * n]]
<1>1. M \in Nat  OBVIOUS
<1>2. PICK F \in [Nat -> Nat] : \A n \in Nat : F[n] = IF n > M THEN n ELSE F[2 * n]
  <2> HIDE DEF M
  <2> QED  BY <1>1, GrowthExists
<1>3. Eq(F)  BY <1>2
<1> DEFINE W == CHOOSE G : Eq(G)
<1>4. Grown(size, moved) = W[size]  BY Zenon DEF Grown
<1>5. Eq(W)
  <2> HIDE DEF Eq
  <2> QED  BY <1>3, Zenon
<1> HIDE DEF W
<1>6. \A n \in Nat : W[n] = IF n > M THEN n ELSE W[2 * n]
  <2>1. W = [n \in Nat |-> IF n > moved + 1 THEN n ELSE W[2 * n]]  BY <1>5
  <2> QED  BY <2>1
<1> DEFINE T == {k \in Nat : \A n \in Nat : n >= 1 /\ n + k > M => W[n] \in Nat /\ W[n] > M}
<1>7. 0 \in T  BY <1>6
<1>8. \A k \in Nat : k \in T => k + 1 \in T
  <2> SUFFICES ASSUME NEW k \in Nat, k \in T  PROVE k + 1 \in T
    <3> HIDE DEF T
    <3> QED  OBVIOUS
  <2> SUFFICES ASSUME NEW n \in Nat, n >= 1, n + (k + 1) > M  PROVE W[n] \in Nat /\ W[n] > M
    OBVIOUS
  <2>1. CASE n > M  BY <1>6, <2>1
  <2>2. CASE ~(n > M)
    <3>1. 2 * n \in Nat /\ 2 * n >= 1 /\ 2 * n + k > M  OBVIOUS
    <3>2. W[2 * n] \in Nat /\ W[2 * n] > M  BY <3>1
    <3> QED  BY <1>6, <2>2, <3>2
  <2> QED  BY <2>1, <2>2
<1>9. M \in T
  <2> HIDE DEF T
  <2> QED  BY <1>1, <1>7, <1>8, CountingUp
<1>10. size \in Nat /\ size >= 1 /\ size + M > M  OBVIOUS
<1> QED  BY <1>4, <1>9, <1>10

(* Something is read unless nothing is left.                               *)
LEMMA InputIs ==
  ASSUME unread \in Seq(Char), NEW n \in Nat \ {0}
  PROVE  Input(n) \in 0 .. Len(unread) /\ (Input(n) = 0 => unread = <<>>)
<1> DEFINE k == Min({n, Len(unread)})
<1> DEFINE ends == {i \in 1 .. k : unread[i] = "\n"}
<1>1. Len(unread) \in Nat  OBVIOUS
<1>2. k \in {n, Len(unread)} /\ k <= Len(unread)  BY <1>1, MinOfTwo
<1>3. k \in 0 .. Len(unread) /\ (k = 0 => Len(unread) = 0)  BY <1>1, <1>2
<1>4. k \in Nat  BY <1>1, <1>2
<1> HIDE DEF k
<1>5. ends # {} => Min(ends) \in 1 .. k
  <2>1. ends \in SUBSET Nat /\ ends \subseteq 1 .. k  BY <1>4
  <2> HIDE DEF ends
  <2> QED  BY <2>1, MinIs
<1>6. Input(n) = IF buffer.tty /\ ends # {} THEN Min(ends) ELSE k  BY DEF Input, k
<1> HIDE DEF ends
<1>7. Len(unread) = 0 => unread = <<>>  OBVIOUS
<1>8. CASE buffer.tty /\ ends # {}
  <2>1. Input(n) \in 1 .. k  BY <1>5, <1>6, <1>8
  <2> QED  BY <2>1, <1>1, <1>3
<1>9. CASE ~(buffer.tty /\ ends # {})  BY <1>3, <1>6, <1>7, <1>9
<1> QED  BY <1>8, <1>9

-----------------------------------------------------------------------------
(* A text s, of which r and then u have not been scanned yet.              *)

LEMMA TakenWord ==
  ASSUME NEW s \in Seq(Char), NEW i \in 1 .. Len(s) + 1, NEW r \in Seq(Char), r # <<>>,
         NEW u \in Seq(Char), r \o u = SubSeq(s, i, Len(s)), ~HitsEnd(r) \/ u = <<>>
  PROVE  /\ Lexeme(r) \in Seq(Char) /\ Len(Lexeme(r)) \in 1 .. Len(r)
         /\ i \in 1 .. Len(s) /\ Longest(s, i) = Lexeme(r)
<1>1. PICK L \in 1 .. Len(r) : IsLongest(r, L)  BY LongestExists
<1>2. IsLongest(r \o u, L)
  <2>1. CASE ~HitsEnd(r)  BY <1>1, <2>1, MunchIsMaximal
  <2>2. CASE u = <<>>
    <3>1. r \o u = r  BY <2>2, ConcatEmptySeq
    <3> QED  BY <1>1, <3>1
  <2> QED  BY <2>1, <2>2
<1>3. Lexeme(r) = SubSeq(r, 1, L)  BY <1>1, LexemeIs
<1>4. L \in 0 .. Len(r) /\ Len(r) \in Nat /\ Len(u) \in Nat /\ Len(s) \in Nat  OBVIOUS
<1>5. SubSeq(r, 1, L) \in Seq(Char) /\ Len(SubSeq(r, 1, L)) = L  BY <1>4, PrefixIs
<1>6. r \o u # <<>>
  <2>1. Len(r \o u) = Len(r) + Len(u)  BY ConcatProperties, Zenon
  <2>5. Len(r) >= 1  BY <1>1
  <2>2. Len(r \o u) # 0  BY <1>4, <2>1, <2>5
  <2>3. Len(<<>>) = 0  OBVIOUS
  <2> QED  BY <2>2, <2>3, Zenon
<1>7. i # Len(s) + 1
  <2> SUFFICES ASSUME i = Len(s) + 1  PROVE FALSE
    OBVIOUS
  <2>1. SubSeq(s, i, Len(s)) = <<>>  BY <1>4, SubSeqEmpty
  <2> QED  BY <1>6, <2>1
<1>8. i \in 1 .. Len(s)  BY <1>4, <1>7
<1>9. Longest(s, i) = SubSeq(r \o u, 1, L)
  <2>1. IsLongest(SubSeq(s, i, Len(s)), L)  BY <1>2, Zenon
  <2>2. Longest(s, i) = SubSeq(SubSeq(s, i, Len(s)), 1, L)  BY <1>8, <2>1, LongestIs
  <2> QED  BY <2>2, Zenon
<1>10. SubSeq(r \o u, 1, L) = SubSeq(r, 1, L)
  <2>1. 1 \in 1 .. Len(r) /\ L \in 1 .. Len(r)  BY <1>4
  <2> QED  BY <2>1, SubSeqOfConcat1
<1> QED  BY <1>1, <1>3, <1>5, <1>8, <1>9, <1>10

LEMMA AheadAfter ==
  ASSUME NEW s \in Seq(Char), NEW i \in 1 .. Len(s) + 1, NEW r \in Seq(Char),
         NEW u \in Seq(Char), r \o u = SubSeq(s, i, Len(s)), NEW L \in 0 .. Len(r)
  PROVE  /\ i + L \in 1 .. Len(s) + 1
         /\ SubSeq(r, L + 1, Len(r)) \o u = SubSeq(s, i + L, Len(s))
<1> DEFINE t == SubSeq(s, i, Len(s))
<1> DEFINE x == SubSeq(r, L + 1, Len(r))
<1> DEFINE y == SubSeq(s, i + L, Len(s))
<1>1. Len(s) \in Nat /\ Len(r) \in Nat /\ Len(u) \in Nat  OBVIOUS
<1>2. t \in Seq(Char) /\ Len(t) = Len(s) - i + 1 /\ \A k \in 1 .. Len(t) : t[k] = s[i + k - 1]
  OBVIOUS
<1>3. Len(t) = Len(r) + Len(u) /\ \A k \in 1 .. Len(r) + Len(u) :
        t[k] = IF k <= Len(r) THEN r[k] ELSE u[k - Len(r)]
  BY ConcatProperties
<1> HIDE DEF t
<1>4. i + L \in 1 .. Len(s) + 1 /\ L \in Nat /\ L <= Len(r)  BY <1>1, <1>2, <1>3
<1>5. x \in Seq(Char) /\ Len(x) = Len(r) - L /\ \A k \in 1 .. Len(r) - L : x[k] = r[L + k]
  BY <1>1, <1>4
<1>6. y \in Seq(Char) /\ Len(y) = Len(s) - i - L + 1
      /\ \A k \in 1 .. Len(y) : y[k] = s[i + L + k - 1]
  <2>1. i + L \in Nat /\ i + L >= 1 /\ i + L <= Len(s) + 1  BY <1>1, <1>4
  <2> DEFINE m == i + L
  <2> HIDE DEF m
  <2>2. m \in 1 .. Len(s) + 1  BY <1>1, <2>1 DEF m
  <2>3. /\ SubSeq(s, m, Len(s)) \in Seq(Char) /\ Len(SubSeq(s, m, Len(s))) = Len(s) - m + 1
        /\ \A k \in 1 .. Len(s) - m + 1 : SubSeq(s, m, Len(s))[k] = s[m + k - 1]
    BY <1>1, <2>2
  <2>4. y = SubSeq(s, m, Len(s)) /\ Len(s) - m + 1 = Len(s) - i - L + 1
    BY <1>1, <1>4 DEF m
  <2> HIDE DEF y
  <2>5. \A k \in 1 .. Len(s) - m + 1 : m + k - 1 = i + L + k - 1  BY <1>1, <1>4 DEF m
  <2> QED  BY <2>3, <2>4, <2>5
<1> HIDE DEF x, y
<1>7. /\ x \o u \in Seq(Char) /\ Len(x \o u) = Len(r) - L + Len(u)
      /\ \A k \in 1 .. Len(r) - L + Len(u) :
           (x \o u)[k] = IF k <= Len(r) - L THEN x[k] ELSE u[k - (Len(r) - L)]
  <2>1. /\ x \o u \in Seq(Char) /\ Len(x \o u) = Len(x) + Len(u)
        /\ \A k \in 1 .. Len(x) + Len(u) :
             (x \o u)[k] = IF k <= Len(x) THEN x[k] ELSE u[k - Len(x)]
    BY <1>5, ConcatProperties
  <2> QED  BY <1>5, <2>1, Zenon
<1>8. Len(y) = Len(x \o u)  BY <1>1, <1>2, <1>3, <1>4, <1>6, <1>7
<1>9. ASSUME NEW k \in 1 .. Len(x \o u)  PROVE (x \o u)[k] = y[k]
  <2>1. k \in 1 .. Len(r) - L + Len(u) /\ k + L \in 1 .. Len(r) + Len(u)  BY <1>1, <1>4, <1>7
  <2>2. y[k] = t[k + L]
    <3>1. k \in 1 .. Len(y)  BY <1>8
    <3>2. y[k] = s[i + L + k - 1]  BY <3>1, <1>6
    <3>3. t[k + L] = s[i + (k + L) - 1]  BY <2>1, <1>2, <1>3
    <3>4. i + L + k - 1 = i + (k + L) - 1  BY <1>1, <1>4
    <3> QED  BY <3>2, <3>3, <3>4
  <2>3. CASE k <= Len(r) - L
    <3>1. (x \o u)[k] = r[L + k]  BY <1>1, <1>4, <1>5, <1>7, <2>1, <2>3
    <3>2. t[k + L] = r[k + L]  BY <1>1, <1>3, <1>4, <2>1, <2>3
    <3> QED  BY <2>2, <3>1, <3>2, <1>4
  <2>4. CASE ~(k <= Len(r) - L)
    <3>1. (x \o u)[k] = u[k - (Len(r) - L)]  BY <1>7, <2>1, <2>4
    <3>2. t[k + L] = u[k + L - Len(r)]  BY <1>1, <1>3, <1>4, <2>1, <2>4
    <3>3. k + L - Len(r) = k - (Len(r) - L)  BY <1>1, <1>4
    <3> QED  BY <2>2, <3>1, <3>2, <3>3
  <2> QED  BY <2>3, <2>4
<1>10. x \o u = y  BY <1>6, <1>7, <1>8, <1>9, SeqEqual
<1> QED  BY <1>4, <1>10 DEF x, y

LEMMA PrefixOfConcat ==
  ASSUME NEW S, NEW s \in Seq(S), NEW t \in Seq(S)
  PROVE  IsPrefix(s, s \o t)
<1>1. Len(s) \in Nat /\ Len(t) \in Nat /\ Len(s \o t) = Len(s) + Len(t)  OBVIOUS
<1>2. SubSeq(s \o t, 1, Len(s)) = SubSeq(s, 1, Len(s))
  <2>1. CASE Len(s) = 0
    <3>1. SubSeq(s \o t, 1, Len(s)) = <<>> /\ SubSeq(s, 1, Len(s)) = <<>>  BY <2>1, SubSeqEmpty
    <3> QED  BY <3>1
  <2>2. CASE Len(s) # 0
    <3>1. 1 \in 1 .. Len(s) /\ Len(s) \in 1 .. Len(s)  BY <1>1, <2>2
    <3> QED  BY <3>1, SubSeqOfConcat1
  <2> QED  BY <2>1, <2>2
<1> QED  BY <1>1, <1>2 DEF IsPrefix

(* What has been returned for a word                                       *)
WordOf(w) == IF TokenOf(w) = "skip" THEN <<>> ELSE <<Returned(w)>>

(* ws are the words of s before the rest a of its characters.              *)
ReadUpTo(s, a, ws) ==
  \E i \in 1 .. Len(s) + 1 : a = SubSeq(s, i, Len(s)) /\ ws \o WordsFrom(s)[i] = WordsOf(s)

LEMMA ConcatReturns ==
  \A a, b, c \in Seq(Returns) : (a \o b) \o c = a \o (b \o c)
<1> DEFINE S == Returns
<1> HIDE DEF S
<1>1. \A a, b, c \in Seq(S) : (a \o b) \o c = a \o (b \o c)  OBVIOUS
<1> QED  BY <1>1 DEF S

LEMMA WordRead ==
  ASSUME NEW s \in Seq(Char), NEW r \in Seq(Char), r # <<>>, NEW u \in Seq(Char),
         ~HitsEnd(r) \/ u = <<>>, NEW ws \in Seq(Returns), ReadUpTo(s, r \o u, ws)
  PROVE  /\ Lexeme(r) \in Seq(Char) /\ Len(Lexeme(r)) \in 1 .. Len(r)
         /\ ReadUpTo(s, SubSeq(r, Len(Lexeme(r)) + 1, Len(r)) \o u, ws \o WordOf(Lexeme(r)))
<1> DEFINE w == Lexeme(r)
<1>1. PICK i \in 1 .. Len(s) + 1 :
        r \o u = SubSeq(s, i, Len(s)) /\ ws \o WordsFrom(s)[i] = WordsOf(s)
  BY DEF ReadUpTo
<1>2. w \in Seq(Char) /\ Len(w) \in 1 .. Len(r) /\ i \in 1 .. Len(s) /\ Longest(s, i) = w
  BY <1>1, TakenWord
<1> HIDE DEF w
<1>3. Len(s) \in Nat /\ Len(r) \in Nat /\ Len(w) \in 0 .. Len(r)  BY <1>2
<1>4. i + Len(w) \in 1 .. Len(s) + 1 /\ SubSeq(r, Len(w) + 1, Len(r)) \o u = SubSeq(s, i + Len(w), Len(s))
  BY <1>1, <1>3, AheadAfter
<1>5. ~(i > Len(s))  BY <1>2, <1>3
<1>6. WordsFrom(s)[i] = WordOf(w) \o WordsFrom(s)[i + Len(w)]
  BY <1>2, <1>5, WordsAre DEF WordOf
<1>7. WordsFrom(s)[i + Len(w)] \in Seq(Returns)  BY <1>4, WordsAre
<1>8. WordOf(w) \in Seq(Returns)
  <2>1. Returned(w) \in Returns  BY <1>2 DEF Returns
  <2> QED  BY <2>1 DEF WordOf
<1>9. (ws \o WordOf(w)) \o WordsFrom(s)[i + Len(w)] = WordsOf(s)
  <2> DEFINE V == WordOf(w)
  <2> DEFINE W == WordsFrom(s)[i + Len(w)]
  <2>1. V \in Seq(Returns) /\ W \in Seq(Returns) /\ ws \o (V \o W) = WordsOf(s)
    BY <1>1, <1>6, <1>7, <1>8
  <2> HIDE DEF V, W
  <2>2. \A a, b, c \in Seq(Returns) : (a \o b) \o c = a \o (b \o c)  BY ConcatReturns
  <2>4. ws \in Seq(Returns)  OBVIOUS
  <2>3. (ws \o V) \o W = WordsOf(s)  BY <2>1, <2>2, <2>4, Zenon
  <2> QED  BY <2>3 DEF V, W
<1>10. ReadUpTo(s, SubSeq(r, Len(w) + 1, Len(r)) \o u, ws \o WordOf(w))
  BY <1>4, <1>9 DEF ReadUpTo
<1> QED  BY <1>2, <1>10 DEF w

LEMMA EndRead ==
  ASSUME NEW s \in Seq(Char), NEW ws \in Seq(Returns), ReadUpTo(s, <<>>, ws)
  PROVE  Append(ws, Eof) = WordsOf(s)
<1>1. PICK i \in 1 .. Len(s) + 1 :
        <<>> = SubSeq(s, i, Len(s)) /\ ws \o WordsFrom(s)[i] = WordsOf(s)
  BY DEF ReadUpTo
<1>2. Len(s) \in Nat  OBVIOUS
<1>3. i > Len(s)
  <2> SUFFICES ASSUME i \in 1 .. Len(s)  PROVE FALSE
    BY <1>2
  <2>1. Len(SubSeq(s, i, Len(s))) = Len(s) - i + 1  BY <1>2
  <2>2. Len(<<>>) = 0  OBVIOUS
  <2>3. Len(SubSeq(s, i, Len(s))) = 0  BY <1>1, <2>2, Zenon
  <2> DEFINE n == Len(SubSeq(s, i, Len(s)))
  <2>4. n = 0 /\ n = Len(s) - i + 1  BY <2>1, <2>3
  <2> HIDE DEF n
  <2> QED  BY <1>2, <2>4
<1>4. WordsFrom(s)[i] = <<Eof>>  BY <1>3, WordsAre
<1>5. Eof \in Returns  BY DEF Returns
<1> QED  BY <1>1, <1>4, <1>5, AppendIsConcat

LEMMA NothingRead ==
  ASSUME NEW s \in Seq(Char)
  PROVE  ReadUpTo(s, s, <<>>)
<1>1. Len(s) \in Nat /\ 1 \in 1 .. Len(s) + 1  OBVIOUS
<1>2. WordsFrom(s)[1] \in Seq(Returns)  BY <1>1, WordsAre
<1>3. <<>> \o WordsFrom(s)[1] = WordsOf(s)  BY <1>2, ConcatEmptySeq DEF WordsOf
<1>4. s = SubSeq(s, 1, Len(s))  BY SubSeqFull
<1> QED  BY <1>1, <1>3, <1>4 DEF ReadUpTo

LEMMA ReadIsPrefix ==
  ASSUME NEW s \in Seq(Char), NEW ws \in Seq(Returns), NEW a, ReadUpTo(s, a, ws)
  PROVE  IsPrefix(ws, WordsOf(s))
<1>1. PICK i \in 1 .. Len(s) + 1 : ws \o WordsFrom(s)[i] = WordsOf(s)  BY DEF ReadUpTo
<1>2. WordsFrom(s)[i] \in Seq(Returns)  BY WordsAre
<1>3. IsPrefix(ws, ws \o WordsFrom(s)[i])  BY <1>2, PrefixOfConcat
<1> QED  BY <1>1, <1>3

-----------------------------------------------------------------------------
(***************************************************************************)
(* Where the scanner is in its text: what the buffer holds behind pos and  *)
(* what is unread are the end of the text, and the words before it have    *)
(* been returned.                                                          *)
(***************************************************************************)
BufferState == [chars : Seq(Char), size : Nat, fill : BOOLEAN, tty : BOOLEAN,
                status : {"new", "normal", "eof pending"}]

BufferOK(b, p, u) ==
  /\ b \in BufferState /\ p \in 0 .. Len(b.chars)
  /\ b.fill => b.size # 0
  /\ ~b.fill \/ b.status = "eof pending" => u = <<>>

RestOf(b, p) == SubSeq(b.chars, p + 1, Len(b.chars))
Ahead(b, p, u) == IF b = NoBuffer THEN u ELSE RestOf(b, p) \o u

ReadSoFar(c, s, a, ws) == IF c = Eof THEN ws = WordsOf(s) ELSE ReadUpTo(s, a, ws)

ScanInv ==
  /\ unread \in Seq(Char) /\ words \in Seq(Returns)
  /\ (buffer = NoBuffer /\ pos = 0) \/ BufferOK(buffer, pos, unread)
  /\ reading = "reading" =>
       text \in Texts /\ ReadSoFar(yychar, text.chars, Ahead(buffer, pos, unread), words)
  /\ reading # "reading" => buffer = NoBuffer /\ pos = 0 /\ WordsAsWritten

LEMMA NoBufferState ==
  NoBuffer \notin BufferState
<1> SUFFICES ASSUME NoBuffer \in BufferState  PROVE FALSE
  OBVIOUS
<1>1. NoBuffer.status \in {"new", "normal", "eof pending"}  BY Zenon DEF BufferState
<1>2. NoBuffer.status = "none"  BY DEF NoBuffer
<1> QED  BY <1>1, <1>2

LEMMA RestIs ==
  ASSUME NEW b \in BufferState, NEW p \in 0 .. Len(b.chars)
  PROVE  RestOf(b, p) \in Seq(Char) /\ Len(RestOf(b, p)) = Len(b.chars) - p
<1>1. b.chars \in Seq(Char)  BY DEF BufferState
<1> DEFINE s == b.chars
<1>2. s \in Seq(Char)  BY <1>1
<1>3. p \in 0 .. Len(s)  OBVIOUS
<1> HIDE DEF s
<1>4. SubSeq(s, p + 1, Len(s)) \in Seq(Char) /\ Len(SubSeq(s, p + 1, Len(s))) = Len(s) - p
  BY <1>2, <1>3
<1> QED  BY <1>4 DEF RestOf, s

LEMMA TextIs ==
  ASSUME NEW t \in Texts
  PROVE  t.chars \in Seq(Char) /\ t.words = WordsOf(t.chars)
BY TextsAssumption DEF Char

LEMMA ReturnedIsNotEof ==
  ASSUME NEW w  PROVE Returned(w) # Eof
<1> SUFFICES ASSUME Returned(w) = Eof  PROVE FALSE
  OBVIOUS
<1>1. DOMAIN Returned(w) = {"tok", "text"}  BY DEF Returned
<1>2. DOMAIN Eof = {"tok"}  BY DEF Eof
<1>3. "text" \in DOMAIN Eof  BY <1>1, Zenon
<1> QED  BY <1>2, <1>3

LEMMA WordsPrefix ==
  ASSUME ScanInv  PROVE WordsAsWritten
<1>1. CASE reading # "reading"  BY <1>1 DEF ScanInv
<1>2. CASE reading = "reading"
  <2>1. text \in Texts /\ ReadSoFar(yychar, text.chars, Ahead(buffer, pos, unread), words)
        /\ words \in Seq(Returns)
    BY <1>2 DEF ScanInv
  <2>2. text.chars \in Seq(Char) /\ text.words = WordsOf(text.chars)  BY <2>1, TextIs
  <2>3. CASE yychar = Eof
    <3>1. words = text.words  BY <2>1, <2>2, <2>3 DEF ReadSoFar
    <3>2. IsPrefix(words, words)
      <4>1. Len(words) \in Nat  BY <2>1
      <4> QED  BY <4>1 DEF IsPrefix
    <3> QED  BY <3>1, <3>2 DEF WordsAsWritten
  <2>4. CASE yychar # Eof
    <3>1. ReadUpTo(text.chars, Ahead(buffer, pos, unread), words)  BY <2>1, <2>4 DEF ReadSoFar
    <3>2. IsPrefix(words, WordsOf(text.chars))  BY <2>1, <2>2, <3>1, ReadIsPrefix
    <3> QED  BY <2>2, <3>2 DEF WordsAsWritten
  <2> QED  BY <2>3, <2>4
<1> QED  BY <1>1, <1>2

(* A word is taken: the first of what is ahead.                            *)
LEMMA TakeReads ==
  ASSUME ScanInv, reading = "reading", yychar # Eof, UNCHANGED <<text, reading>>,
         buffer # NoBuffer, Rest # <<>>, ~HitsEnd(Rest) \/ unread = <<>>, Take(Lexeme(Rest))
  PROVE  /\ words' \in Seq(Returns)
         /\ Lexeme(Rest) \in Seq(Char) /\ Len(Lexeme(Rest)) \in 1 .. Len(Rest)
         /\ yychar' # Eof
         /\ ReadUpTo(text.chars, SubSeq(Rest, Len(Lexeme(Rest)) + 1, Len(Rest)) \o unread, words')
<1> DEFINE w == Lexeme(Rest)
<1>1. BufferOK(buffer, pos, unread) /\ unread \in Seq(Char) /\ words \in Seq(Returns)
  BY DEF ScanInv
<1>2. Rest = RestOf(buffer, pos)  BY DEF Rest, RestOf
<1>3. Rest \in Seq(Char)  BY <1>1, <1>2, RestIs DEF BufferOK
<1>4. text \in Texts /\ ReadUpTo(text.chars, Rest \o unread, words)
  BY <1>2 DEF ScanInv, ReadSoFar, Ahead
<1>5. text.chars \in Seq(Char)  BY <1>4, TextIs
<1>6. /\ w \in Seq(Char) /\ Len(w) \in 1 .. Len(Rest)
      /\ ReadUpTo(text.chars, SubSeq(Rest, Len(w) + 1, Len(Rest)) \o unread, words \o WordOf(w))
  BY <1>1, <1>3, <1>4, <1>5, WordRead
<1> HIDE DEF w
<1>7. Take(w)  BY DEF w
<1>8. Returned(w) \in Returns  BY <1>6 DEF Returns
<1>9. words' = words \o WordOf(w) /\ words' \in Seq(Returns) /\ yychar' # Eof
  <2>1. CASE TokenOf(w) = "skip"
    <3>1. words' = words /\ yychar' = yychar  BY <1>7, <2>1 DEF Take
    <3>2. words \o <<>> = words  BY <1>1, ConcatEmptySeq
    <3> QED  BY <1>1, <2>1, <3>1, <3>2 DEF WordOf
  <2>2. CASE TokenOf(w) # "skip"
    <3>1. words' = Append(words, Returned(w)) /\ yychar' = Returned(w)
      BY <1>7, <2>2 DEF Take, Return
    <3>2. Append(words, Returned(w)) = words \o <<Returned(w)>>  BY <1>1, <1>8, AppendIsConcat
    <3>3. words' \in Seq(Returns)  BY <1>1, <1>8, <3>1, AppendProperties
    <3>4. yychar' # Eof  BY <3>1, ReturnedIsNotEof
    <3> QED  BY <2>2, <3>1, <3>2, <3>3, <3>4 DEF WordOf
  <2> QED  BY <2>1, <2>2
<1> QED  BY <1>6, <1>9 DEF w

LEMMA RestAfter ==
  ASSUME NEW b \in BufferState, NEW p \in 0 .. Len(b.chars), NEW L \in 0 .. Len(b.chars) - p
  PROVE  p + L \in 0 .. Len(b.chars) /\ RestOf(b, p + L) = SubSeq(RestOf(b, p), L + 1, Len(RestOf(b, p)))
<1> DEFINE s == b.chars
<1>1. s \in Seq(Char)  BY DEF BufferState
<1>2. p \in 0 .. Len(s) /\ L \in 0 .. Len(s) - p  OBVIOUS
<1> HIDE DEF s
<1>3. Len(s) \in Nat  BY <1>1
<1>4. p + L \in 0 .. Len(s)  BY <1>2, <1>3
<1> DEFINE r == SubSeq(s, p + 1, Len(s))
<1>5. r \in Seq(Char) /\ Len(r) = Len(s) - p /\ \A k \in 1 .. Len(s) - p : r[k] = s[p + k]
  BY <1>1, <1>2, <1>3
<1> HIDE DEF r
<1> DEFINE x == SubSeq(r, L + 1, Len(r))
<1>6. x \in Seq(Char) /\ Len(x) = Len(s) - p - L /\ \A k \in 1 .. Len(s) - p - L : x[k] = r[L + k]
  BY <1>2, <1>3, <1>5
<1> HIDE DEF x
<1> DEFINE q == p + L
<1>7. q \in 0 .. Len(s)  BY <1>4
<1> DEFINE y == SubSeq(s, q + 1, Len(s))
<1>8. y \in Seq(Char) /\ Len(y) = Len(s) - q /\ \A k \in 1 .. Len(s) - q : y[k] = s[q + k]
  <2> HIDE DEF q
  <2> QED  BY <1>1, <1>3, <1>7
<1> HIDE DEF y
<1>9. Len(x) = Len(y) /\ Len(s) - p - L = Len(s) - q  BY <1>2, <1>3, <1>6, <1>8
<1>10. ASSUME NEW k \in 1 .. Len(x)  PROVE x[k] = y[k]
  <2>1. k \in 1 .. Len(s) - p - L /\ k \in 1 .. Len(s) - q /\ L + k \in 1 .. Len(s) - p /\ q + k = p + (L + k)
    BY <1>2, <1>3, <1>6
  <2>2. x[k] = r[L + k] /\ y[k] = s[q + k]  BY <2>1, <1>6, <1>8
  <2>3. r[L + k] = s[p + (L + k)]  BY <2>1, <1>5
  <2> HIDE DEF q
  <2> QED  BY <2>1, <2>2, <2>3
<1>11. x = y  BY <1>6, <1>8, <1>9, <1>10, SeqEqual
<1> QED  BY <1>4, <1>11 DEF RestOf, s, r, x, y

(* yylex() is called when there is no token.                               *)
Lexing ==
  ScanInv /\ reading = "reading" /\ yychar = Empty /\ UNCHANGED <<text, reading>>

LEMMA LexingText ==
  ASSUME Lexing
  PROVE  /\ yychar # Eof /\ unread \in Seq(Char) /\ words \in Seq(Returns)
         /\ text \in Texts /\ text.chars \in Seq(Char)
         /\ ReadUpTo(text.chars, Ahead(buffer, pos, unread), words)
         /\ (buffer = NoBuffer /\ pos = 0) \/ BufferOK(buffer, pos, unread)
<1>1. Empty # Eof
  <2>1. Empty.tok = "empty" /\ Eof.tok = "eof"  BY DEF Empty, Eof
  <2> QED  BY <2>1
<1>2. yychar # Eof  BY <1>1 DEF Lexing
<1> QED  BY <1>2, TextIs DEF Lexing, ScanInv, ReadSoFar

LEMMA StillLexing ==
  ASSUME Lexing, unread' \in Seq(Char), words' \in Seq(Returns),
         BufferOK(buffer', pos', unread'), yychar' # Eof,
         ReadUpTo(text.chars, Ahead(buffer', pos', unread'), words')
  PROVE  ScanInv'
<1>1. text' = text /\ reading' = reading /\ reading = "reading" /\ text \in Texts
  BY LexingText DEF Lexing
<1> QED  BY <1>1 DEF ScanInv, ReadSoFar

LEMMA LexedAll ==
  ASSUME Lexing, unread' \in Seq(Char), BufferOK(buffer', pos', unread'),
         ReadUpTo(text.chars, <<>>, words), Return(Eof)
  PROVE  ScanInv'
<1>1. text' = text /\ reading' = reading /\ reading = "reading" /\ text \in Texts
      /\ words \in Seq(Returns) /\ text.chars \in Seq(Char)
  BY LexingText DEF Lexing
<1>2. words' = Append(words, Eof) /\ yychar' = Eof  BY DEF Return
<1>3. words' = WordsOf(text.chars)  BY <1>1, <1>2, EndRead
<1>4. words' \in Seq(Returns)
  <2>1. Eof \in Returns  BY DEF Returns
  <2> QED  BY <1>1, <1>2, <2>1, AppendProperties
<1> QED  BY <1>1, <1>2, <1>3, <1>4 DEF ScanInv, ReadSoFar

LEMMA CreateLexes ==
  ASSUME Lexing, CreateBuffer  PROVE ScanInv'
<1>1. PICK tty \in BOOLEAN : buffer' = NewBuffer(<<>>, BufSize, TRUE, tty)  BY DEF CreateBuffer
<1>2. buffer = NoBuffer /\ pos' = 0 /\ unread' = unread /\ yychar' = yychar /\ words' = words
  BY DEF CreateBuffer
<1>3. <<>> \in Seq(Char) /\ Len(<<>>) = 0  OBVIOUS
<1>4. /\ buffer' \in BufferState /\ buffer'.chars = <<>> /\ buffer'.fill /\ buffer'.size # 0
      /\ buffer'.status = "new"
  BY <1>1, <1>3, BufferAssumption DEF NewBuffer, BufferState
<1>5. pos' \in 0 .. Len(buffer'.chars)  BY <1>2, <1>3, <1>4
<1>6. BufferOK(buffer', pos', unread')  BY <1>4, <1>5 DEF BufferOK
<1>7. Ahead(buffer', pos', unread') = Ahead(buffer, pos, unread)
  <2>1. Ahead(buffer, pos, unread) = unread  BY <1>2 DEF Ahead
  <2>2. buffer' # NoBuffer  BY <1>4, NoBufferState
  <2>3. RestOf(buffer', pos') = <<>>
    <3>1. RestOf(buffer', pos') = SubSeq(<<>>, 1, 0)  BY <1>2, <1>3, <1>4 DEF RestOf
    <3>2. SubSeq(<<>>, 1, 0) = <<>>  BY SubSeqEmpty
    <3> QED  BY <3>1, <3>2
  <2>4. <<>> \o unread = unread  BY LexingText, ConcatEmptySeq
  <2> QED  BY <1>2, <2>1, <2>2, <2>3, <2>4 DEF Ahead
<1> QED  BY <1>2, <1>6, <1>7, LexingText, StillLexing

LEMMA ScanLexes ==
  ASSUME Lexing, Scan  PROVE ScanInv'
<1> DEFINE L == Len(Lexeme(Rest))
<1>1. /\ buffer # NoBuffer /\ ~HitsEnd(Rest) /\ Take(Lexeme(Rest))
      /\ pos' = pos + L /\ buffer' = buffer /\ unread' = unread
  BY DEF Scan
<1>2. Rest # <<>>  BY <1>1, EmptyHitsEnd
<1>3. BufferOK(buffer, pos, unread) /\ unread \in Seq(Char) /\ yychar # Eof  BY <1>1, LexingText
<1>4. /\ words' \in Seq(Returns) /\ L \in 1 .. Len(Rest) /\ yychar' # Eof
      /\ ReadUpTo(text.chars, SubSeq(Rest, L + 1, Len(Rest)) \o unread, words')
  BY <1>1, <1>2, <1>3, TakeReads DEF Lexing
<1> HIDE DEF L
<1>5. Rest = RestOf(buffer, pos)  BY DEF Rest, RestOf
<1>6. L \in 0 .. Len(buffer.chars) - pos
  <2>1. Len(Rest) = Len(buffer.chars) - pos  BY <1>3, <1>5, RestIs DEF BufferOK
  <2> QED  BY <1>4, <2>1
<1>7. pos' \in 0 .. Len(buffer.chars) /\ RestOf(buffer', pos') = SubSeq(Rest, L + 1, Len(Rest))
  BY <1>1, <1>3, <1>5, <1>6, RestAfter DEF BufferOK
<1>8. BufferOK(buffer', pos', unread')  BY <1>1, <1>3, <1>7 DEF BufferOK
<1>9. Ahead(buffer', pos', unread') = SubSeq(Rest, L + 1, Len(Rest)) \o unread
  BY <1>1, <1>7 DEF Ahead
<1> QED  BY <1>1, <1>3, <1>4, <1>8, <1>9, StillLexing

LEMMA EndOfStringLexes ==
  ASSUME Lexing, EndOfString  PROVE ScanInv'
<1> DEFINE L == Len(Lexeme(Rest))
<1>1. /\ buffer # NoBuffer /\ ~buffer.fill
      /\ buffer' = [buffer EXCEPT !.status = "normal"] /\ unread' = unread
      /\ Rest = <<>> => Return(Eof) /\ pos' = pos
      /\ Rest # <<>> => Take(Lexeme(Rest)) /\ pos' = pos + L
  BY DEF EndOfString
<1>2. BufferOK(buffer, pos, unread) /\ unread = <<>> /\ unread \in Seq(Char) /\ yychar # Eof
  BY <1>1, LexingText DEF BufferOK
<1>3. buffer' \in BufferState /\ buffer'.chars = buffer.chars /\ buffer'.fill = buffer.fill
  BY <1>1, <1>2 DEF BufferOK, BufferState
<1>4. buffer' # NoBuffer  BY <1>3, NoBufferState
<1>5. Rest = RestOf(buffer, pos) /\ \A p : RestOf(buffer', p) = RestOf(buffer, p)
  BY <1>3 DEF Rest, RestOf
<1>6. Rest \in Seq(Char) /\ Len(Rest) = Len(buffer.chars) - pos
  BY <1>2, <1>5, RestIs DEF BufferOK
<1>7. CASE Rest = <<>>
  <2>1. BufferOK(buffer', pos', unread')  BY <1>1, <1>2, <1>3, <1>7 DEF BufferOK
  <2>2. Ahead(buffer, pos, unread) = <<>>
    <3>1. <<>> \o <<>> = <<>>  OBVIOUS
    <3> QED  BY <1>1, <1>2, <1>5, <1>7, <3>1 DEF Ahead
  <2>3. ReadUpTo(text.chars, <<>>, words)  BY <2>2, LexingText
  <2> QED  BY <1>1, <1>2, <1>7, <2>1, <2>3, LexedAll
<1>8. CASE Rest # <<>>
  <2>1. /\ words' \in Seq(Returns) /\ L \in 1 .. Len(Rest) /\ yychar' # Eof
        /\ ReadUpTo(text.chars, SubSeq(Rest, L + 1, Len(Rest)) \o unread, words')
    BY <1>1, <1>2, <1>8, TakeReads DEF Lexing
  <2>2. pos' = pos + L  BY <1>1, <1>8
  <2> HIDE DEF L
  <2>3. L \in 0 .. Len(buffer.chars) - pos  BY <1>6, <2>1
  <2>4. pos' \in 0 .. Len(buffer.chars) /\ RestOf(buffer, pos') = SubSeq(Rest, L + 1, Len(Rest))
    BY <1>2, <1>5, <2>2, <2>3, RestAfter DEF BufferOK
  <2>5. BufferOK(buffer', pos', unread')  BY <1>1, <1>2, <1>3, <2>4 DEF BufferOK
  <2>6. Ahead(buffer', pos', unread') = SubSeq(Rest, L + 1, Len(Rest)) \o unread
    BY <1>1, <1>4, <1>5, <2>4 DEF Ahead
  <2> QED  BY <1>1, <1>2, <2>1, <2>5, <2>6, StillLexing
<1> QED  BY <1>7, <1>8

LEMMA RefillLexes ==
  ASSUME Lexing, Refill  PROVE ScanInv'
<1> DEFINE atEof == buffer.status = "eof pending"
<1> DEFINE size == IF atEof THEN buffer.size ELSE Grown(buffer.size, Len(Rest))
<1> DEFINE n == IF atEof THEN 0 ELSE Input(Min({size - Len(Rest) - 1, ReadSize}))
<1> DEFINE Filled(status) == [buffer EXCEPT !.chars = Rest \o SubSeq(unread, 1, n),
                                            !.size = size, !.status = status]
<1> DEFINE L == Len(Lexeme(Rest))
<1>1. /\ buffer # NoBuffer /\ buffer.fill /\ HitsEnd(Rest)
      /\ unread' = SubSeq(unread, n + 1, Len(unread))
      /\ \/ n > 0 /\ buffer' = Filled("normal") /\ pos' = 0 /\ UNCHANGED <<yychar, words>>
         \/ n = 0 /\ Rest = <<>> /\ buffer' = Filled("new") /\ pos' = 0 /\ Return(Eof)
         \/ n = 0 /\ Rest # <<>> /\ buffer' = Filled("eof pending") /\ pos' = L /\ Take(Lexeme(Rest))
  BY DEF Refill
<1>2. BufferOK(buffer, pos, unread) /\ unread \in Seq(Char) /\ words \in Seq(Returns) /\ yychar # Eof
  BY <1>1, LexingText
<1>3. buffer \in BufferState /\ buffer.size \in Nat \ {0} /\ (atEof => unread = <<>>)
  BY <1>1, <1>2 DEF BufferOK, BufferState
<1>4. Rest = RestOf(buffer, pos) /\ Rest \in Seq(Char) /\ Len(Rest) \in Nat
  <2>1. Rest = RestOf(buffer, pos)  BY DEF Rest, RestOf
  <2>2. Rest \in Seq(Char)  BY <1>2, <2>1, RestIs DEF BufferOK
  <2> QED  BY <2>1, <2>2
<1>5. size \in Nat \ {0} /\ n \in 0 .. Len(unread) /\ (n = 0 => unread = <<>>)
  <2>1. CASE atEof
    <3>1. Len(unread) \in Nat  BY <1>2
    <3>2. size = buffer.size /\ n = 0 /\ unread = <<>>  BY <1>3, <2>1
    <3> HIDE DEF size, n
    <3> QED  BY <1>3, <3>1, <3>2
  <2>2. CASE ~atEof
    <3> DEFINE g == Grown(buffer.size, Len(Rest))
    <3>1. g \in Nat /\ g > Len(Rest) + 1  BY <1>3, <1>4, GrownIs
    <3> HIDE DEF g
    <3> DEFINE a == g - Len(Rest) - 1
    <3>2. a \in Nat \ {0} /\ ReadSize \in Nat \ {0} /\ g \in Nat \ {0}
      BY <1>4, <3>1, BufferAssumption
    <3> HIDE DEF a
    <3>3. Min({a, ReadSize}) \in Nat \ {0}  BY <3>2, MinOfTwo
    <3>4. Input(Min({a, ReadSize})) \in 0 .. Len(unread)
          /\ (Input(Min({a, ReadSize})) = 0 => unread = <<>>)
      BY <1>2, <3>3, InputIs
    <3>5. size = g /\ n = Input(Min({a, ReadSize}))  BY <2>2 DEF g, a
    <3> QED  BY <3>2, <3>4, <3>5
  <2> QED  BY <2>1, <2>2
<1> HIDE DEF size, n
<1> DEFINE chars == Rest \o SubSeq(unread, 1, n)
<1>6. SubSeq(unread, 1, n) \in Seq(Char)  BY <1>2, <1>5, PrefixIs
<1>7. chars \in Seq(Char)  BY <1>4, <1>6, ConcatProperties
<1>8. unread' \in Seq(Char) /\ SubSeq(unread, 1, n) \o unread' = unread
  <2>1. Len(unread) \in Nat /\ 1 \in 1 .. Len(unread) + 1 /\ n \in 1 - 1 .. Len(unread)
        /\ Len(unread) \in n .. Len(unread)
    BY <1>2, <1>5
  <2>2. SubSeq(unread, 1, n) \o SubSeq(unread, n + 1, Len(unread)) = SubSeq(unread, 1, Len(unread))
    BY <1>2, <2>1, ConcatAdjacentSubSeq
  <2>3. SubSeq(unread, 1, Len(unread)) = unread  BY <1>2, SubSeqFull
  <2>4. SubSeq(unread, n + 1, Len(unread)) \in Seq(Char)  BY <1>2, <2>1
  <2> QED  BY <1>1, <2>2, <2>3, <2>4
<1> HIDE DEF chars
<1>9. ASSUME NEW status \in {"new", "normal", "eof pending"}, buffer' = Filled(status)
      PROVE  /\ buffer' \in BufferState /\ buffer'.chars = chars /\ buffer'.fill
             /\ buffer'.size # 0 /\ buffer'.status = status /\ buffer' # NoBuffer
  <2>1. /\ buffer' \in BufferState /\ buffer'.chars = chars /\ buffer'.fill
        /\ buffer'.size # 0 /\ buffer'.status = status
    BY <1>1, <1>3, <1>5, <1>7, <1>9 DEF BufferState, chars
  <2> QED  BY <2>1, NoBufferState
<1> HIDE DEF L
<1>10. n = 0 => unread = <<>> /\ unread' = <<>> /\ chars = Rest
  <2> SUFFICES ASSUME n = 0  PROVE unread = <<>> /\ unread' = <<>> /\ chars = Rest
    OBVIOUS
  <2>1. unread = <<>>  BY <1>5
  <2>2. SubSeq(unread, 1, n) = <<>>  BY SubSeqEmpty
  <2>3. unread' = <<>>  BY <1>8, <2>1, <2>2, ConcatEmptySeq
  <2>4. Rest \o <<>> = Rest  BY <1>4, ConcatEmptySeq
  <2> QED  BY <2>1, <2>2, <2>3, <2>4 DEF chars
<1>11. CASE n > 0 /\ buffer' = Filled("normal") /\ pos' = 0 /\ UNCHANGED <<yychar, words>>
  <2>1. /\ buffer' \in BufferState /\ buffer'.chars = chars /\ buffer'.fill
        /\ buffer'.size # 0 /\ buffer'.status = "normal" /\ buffer' # NoBuffer
    BY <1>9, <1>11
  <2>2. pos' \in 0 .. Len(buffer'.chars)
    <3>1. 0 \in 0 .. Len(chars)  BY <1>7
    <3> QED  BY <1>11, <2>1, <3>1, Zenon
  <2>3. BufferOK(buffer', pos', unread')  BY <2>1, <2>2 DEF BufferOK
  <2>4. RestOf(buffer', pos') = chars
    <3>0. pos' + 1 = 1  BY <1>11
    <3>1. RestOf(buffer', pos') = SubSeq(chars, 1, Len(chars))  BY <2>1, <3>0, Zenon DEF RestOf
    <3> QED  BY <1>7, <3>1, SubSeqFull
  <2>5. chars \o unread' = Rest \o unread
    <3>1. chars \o unread' = Rest \o (SubSeq(unread, 1, n) \o unread')
      BY <1>4, <1>6, <1>8, ConcatAssociative DEF chars
    <3> QED  BY <1>8, <3>1
  <2>6. Ahead(buffer', pos', unread') = Ahead(buffer, pos, unread)
    BY <1>1, <1>4, <2>1, <2>4, <2>5 DEF Ahead
  <2> QED  BY <1>2, <1>8, <1>11, <2>3, <2>6, LexingText, StillLexing
<1>12. CASE n = 0 /\ Rest = <<>> /\ buffer' = Filled("new") /\ pos' = 0 /\ Return(Eof)
  <2>1. /\ buffer' \in BufferState /\ buffer'.chars = chars /\ buffer'.fill
        /\ buffer'.size # 0 /\ buffer'.status = "new"
    BY <1>9, <1>12
  <2>2. pos' \in 0 .. Len(buffer'.chars)
    <3>1. Len(chars) \in Nat  BY <1>7
    <3> QED  BY <1>12, <2>1, <3>1
  <2>3. BufferOK(buffer', pos', unread')  BY <2>1, <2>2 DEF BufferOK
  <2>4. Ahead(buffer, pos, unread) = <<>>
    <3>1. <<>> \o <<>> = <<>>  OBVIOUS
    <3> QED  BY <1>1, <1>4, <1>10, <1>12, <3>1 DEF Ahead
  <2>5. ReadUpTo(text.chars, <<>>, words)  BY <2>4, LexingText
  <2> QED  BY <1>8, <1>12, <2>3, <2>5, LexedAll
<1>13. CASE n = 0 /\ Rest # <<>> /\ buffer' = Filled("eof pending") /\ pos' = L /\ Take(Lexeme(Rest))
  <2>1. /\ buffer' \in BufferState /\ buffer'.chars = chars /\ buffer'.fill
        /\ buffer'.size # 0 /\ buffer'.status = "eof pending" /\ buffer' # NoBuffer
    BY <1>9, <1>13
  <2>2. /\ words' \in Seq(Returns) /\ L \in 1 .. Len(Rest) /\ yychar' # Eof
        /\ ReadUpTo(text.chars, SubSeq(Rest, L + 1, Len(Rest)) \o unread, words')
    BY <1>1, <1>2, <1>10, <1>13, TakeReads DEF Lexing, L
  <2>3. buffer'.chars = Rest /\ pos' \in 0 .. Len(buffer'.chars)
    BY <1>4, <1>10, <1>13, <2>1, <2>2
  <2>4. BufferOK(buffer', pos', unread')  BY <1>10, <1>13, <2>1, <2>3 DEF BufferOK
  <2>5. RestOf(buffer', pos') = SubSeq(Rest, L + 1, Len(Rest))  BY <1>13, <2>3 DEF RestOf
  <2>6. Ahead(buffer', pos', unread') = SubSeq(Rest, L + 1, Len(Rest)) \o unread
    BY <1>10, <1>13, <2>1, <2>5 DEF Ahead
  <2> QED  BY <1>8, <2>2, <2>4, <2>6, StillLexing
<1> QED  BY <1>1, <1>11, <1>12, <1>13

LEMMA LexKeepsText ==
  ASSUME Lexing, yylex  PROVE ScanInv'
BY CreateLexes, ScanLexes, EndOfStringLexes, RefillLexes DEF yylex

-----------------------------------------------------------------------------
(* The steps of the parser keep ScanInv.                                   *)

LEMMA FinishKeepsText ==
  ASSUME ScanInv, NEW result, result # "reading", Finish(result)  PROVE ScanInv'
<1>1. /\ reading' = result /\ buffer' = NoBuffer /\ pos' = 0
      /\ unread' = unread /\ words' = words /\ text' = text
  BY DEF Finish, DestroyScanner
<1>2. WordsAsWritten  BY WordsPrefix
<1>3. WordsAsWritten'  BY <1>1, <1>2 DEF WordsAsWritten
<1> QED  BY <1>1, <1>3 DEF ScanInv

LEMMA AbortKeepsText ==
  ASSUME ScanInv, Abort  PROVE ScanInv'
<1>1. Finish("failed") /\ "failed" # "reading"  BY DEF Abort
<1> QED  BY <1>1, FinishKeepsText

(* The end of the text is never shifted.                                   *)
LEMMA ShiftsNoEnd ==
  ASSUME StackInv, Ready, Decision.do = "shift"
  PROVE  yychar # Eof
<1>1. Consults(State) /\ Decision = Decide(State, Token)  BY DefaultNoShift DEF Decision
<1>2. yyss # <<>> /\ State \in States
  <2>1. yyss # <<>>  BY DEF Ready, StackInv
  <2>2. PICK S : yyss \in Seq(S)  BY DEF StackInv, StackOK
  <2>3. Len(yyss) \in 1 .. Len(yyss)  BY <2>1, <2>2
  <2> QED  BY <2>1, <2>3 DEF StackInv, StackOK, State, Last
<1>3. Token \in Terminals  BY <1>1, TokenOfYychar DEF Ready, StackInv
<1>4. Fits(State, Token)  BY <1>1, <1>2, <1>3, TablesFit
<1>5. Token # 0  BY <1>1, <1>4 DEF Fits
<1>6. Eof.tok = "eof"  BY DEF Eof
<1> QED  BY <1>5, <1>6, TokensKnown DEF Token

LEMMA ShiftKeepsText ==
  ASSUME StackInv, ScanInv, Shift  PROVE ScanInv'
<1>1. CASE Abort  BY <1>1, AbortKeepsText
<1>2. CASE ~Abort
  <2>1. /\ reading = "reading" /\ yychar # Eof /\ yychar' = Empty
        /\ UNCHANGED <<text, reading, buffer, pos, unread, words>>
    BY <1>2, ShiftsNoEnd DEF Shift, Push, Ready
  <2>2. Empty # Eof
    <3>1. Empty.tok = "empty" /\ Eof.tok = "eof"  BY DEF Empty, Eof
    <3> QED  BY <3>1
  <2> QED  BY <2>1, <2>2 DEF ScanInv, ReadSoFar
<1> QED  BY <1>1, <1>2

LEMMA ReduceKeepsText ==
  ASSUME ScanInv, Reduce  PROVE ScanInv'
<1>1. CASE Abort  BY <1>1, AbortKeepsText
<1>2. CASE ~Abort
  <2>1. UNCHANGED <<text, reading, scannerVars>>  BY <1>2 DEF Reduce, GiveUp, Push
  <2> QED  BY <2>1 DEF ScanInv, scannerVars, WordsAsWritten
<1> QED  BY <1>1, <1>2

LEMMA ReadKeepsText ==
  ASSUME StackInv, ScanInv, Read  PROVE ScanInv'
<1>1. CASE ReadToken
  <2>1. Lexing /\ yylex  BY <1>1 DEF ReadToken, readerVars, Lexing
  <2> QED  BY <2>1, LexKeepsText
<1>2. CASE Shift  BY <1>2, ShiftKeepsText
<1>3. CASE Reduce  BY <1>3, ReduceKeepsText
<1>4. CASE SyntaxError  BY <1>4, AbortKeepsText DEF SyntaxError, GiveUp
<1>5. CASE Accept
  <2>1. Finish("accepted") /\ "accepted" # "reading"  BY <1>5 DEF Accept
  <2> QED  BY <2>1, FinishKeepsText
<1> QED  BY <1>1, <1>2, <1>3, <1>4, <1>5 DEF Read

LEMMA StartKeepsText ==
  ASSUME ScanInv, NEW t \in Texts, ParseString(t) \/ ParseFile(t)  PROVE ScanInv'
<1> DEFINE s == t.chars
<1>1. s \in Seq(Char) /\ Len(s) \in Nat  BY TextIs
<1>2. reading # "reading" /\ reading' = "reading" /\ text' = t /\ yychar' = Empty /\ words' = <<>>
  BY DEF ParseString, ParseFile, Start, ScanString, OpenFile
<1>3. yychar' # Eof /\ <<>> \in Seq(Returns) /\ <<>> \in Seq(Char)
  <2>1. Empty.tok = "empty" /\ Eof.tok = "eof"  BY DEF Empty, Eof
  <2> QED  BY <1>2, <2>1
<1>4. CASE ParseString(t)
  <2>1. buffer' = NewBuffer(s, Len(s), FALSE, FALSE) /\ pos' = 0 /\ unread' = <<>>
    BY <1>4 DEF ParseString, ScanString
  <2>2. buffer' \in BufferState /\ buffer'.chars = s /\ ~buffer'.fill
    BY <1>1, <2>1 DEF NewBuffer, BufferState
  <2>3. BufferOK(buffer', pos', unread')
    <3> HIDE DEF s
    <3>1. 0 \in 0 .. Len(s)  BY <1>1
    <3>2. pos' \in 0 .. Len(buffer'.chars)  BY <2>1, <2>2, <3>1, Zenon
    <3> QED  BY <2>1, <2>2, <3>2 DEF BufferOK
  <2>4. Ahead(buffer', pos', unread') = s
    <3> HIDE DEF s
    <3>0. pos' + 1 = 1  BY <2>1
    <3>1. RestOf(buffer', pos') = SubSeq(s, 1, Len(s))  BY <2>2, <3>0, Zenon DEF RestOf
    <3>2. RestOf(buffer', pos') = s  BY <1>1, <3>1, SubSeqFull
    <3>3. s \o <<>> = s  BY <1>1, ConcatEmptySeq
    <3>4. buffer' # NoBuffer  BY <2>2, NoBufferState
    <3> QED  BY <2>1, <3>2, <3>3, <3>4 DEF Ahead
  <2>5. ReadUpTo(s, Ahead(buffer', pos', unread'), words')  BY <1>1, <1>2, <2>4, NothingRead
  <2> QED  BY <1>2, <1>3, <2>1, <2>3, <2>5 DEF ScanInv, ReadSoFar
<1>5. CASE ParseFile(t)
  <2>1. unread' = s /\ buffer' = NoBuffer /\ pos' = 0
    BY <1>2, <1>5 DEF ParseFile, OpenFile, ScanInv
  <2>2. Ahead(buffer', pos', unread') = s  BY <2>1 DEF Ahead
  <2>3. ReadUpTo(s, Ahead(buffer', pos', unread'), words')  BY <1>1, <1>2, <2>2, NothingRead
  <2> QED  BY <1>1, <1>2, <1>3, <2>1, <2>3 DEF ScanInv, ReadSoFar
<1> QED  BY <1>4, <1>5

LEMMA TextInvariant ==
  ReaderSpec => [](StackInv /\ ScanInv)
<1>1. ReaderInit => ScanInv
  <2> SUFFICES ASSUME ReaderInit  PROVE ScanInv
    OBVIOUS
  <2>1. /\ unread = <<>> /\ words = <<>> /\ buffer = NoBuffer /\ pos = 0
        /\ reading = "idle" /\ text = None
    BY DEF ReaderInit, ScannerInit
  <2>2. <<>> \in Seq(Char) /\ <<>> \in Seq(Returns)  OBVIOUS
  <2> QED  BY <2>1, <2>2 DEF ScanInv, WordsAsWritten
<1>2. StackInv /\ ScanInv /\ [ReaderNext]_allReaderVars => ScanInv'
  <2> SUFFICES ASSUME StackInv, ScanInv, [ReaderNext]_allReaderVars  PROVE ScanInv'
    OBVIOUS
  <2>1. CASE Read  BY <2>1, ReadKeepsText
  <2>2. CASE \E t \in Texts : ParseString(t) \/ ParseFile(t)  BY <2>2, StartKeepsText
  <2>3. CASE UNCHANGED allReaderVars
    BY <2>3 DEF allReaderVars, scannerVars, readerVars, ScanInv, WordsAsWritten
  <2> QED  BY <2>1, <2>2, <2>3 DEF ReaderNext
<1> QED  BY <1>1, <1>2, StackInvariant, PTL DEF ReaderSpec

(***************************************************************************)
(* Whatever the sizes of buffer and pieces, the parser gets the words of   *)
(* its text, each whole and in their order.                                *)
(***************************************************************************)
THEOREM ReaderWordsAsWritten == ReaderSpec => []WordsAsWritten
BY TextInvariant, WordsPrefix, PTL

-----------------------------------------------------------------------------
(***************************************************************************)
(* The stacks have room for what is on them, and for one entry more, and   *)
(* never more than YYMAXDEPTH.                                             *)
(***************************************************************************)
StackFits == reading = "reading" => Len(yyss) < yystacksize /\ yystacksize <= YYMAXDEPTH
SizeInv   == yystacksize \in Nat /\ StackFits

LEMMA PushFits ==
  ASSUME SizeInv, reading = "reading", NEW s, StackOK(s), NEW e, Push(s, e), ~Exhausted(s)
  PROVE  SizeInv'
<1>1. PICK S : s \in Seq(S)  BY DEF StackOK
<1> DEFINE n == Len(s) + 1
<1>2. n \in Nat /\ yystacksize \in Nat /\ YYMAXDEPTH \in Nat /\ yystacksize <= YYMAXDEPTH
  BY <1>1, DepthAssumption DEF SizeInv, StackFits
<1>3. Len(yyss') = n
  <2>1. yyss' = Append(s, e)  BY DEF Push
  <2>2. s \in Seq(S \cup {e})  BY <1>1, SeqMonotonic
  <2> QED  BY <2>1, <2>2
<1> DEFINE m == Min({2 * yystacksize, YYMAXDEPTH})
<1>4. m \in Nat /\ m <= YYMAXDEPTH
  <2> DEFINE d == 2 * yystacksize
  <2>1. d \in Nat  BY <1>2
  <2> HIDE DEF d
  <2>2. Min({d, YYMAXDEPTH}) \in {d, YYMAXDEPTH} /\ Min({d, YYMAXDEPTH}) <= YYMAXDEPTH
    BY <1>2, <2>1, MinOfTwo
  <2> QED  BY <1>2, <2>1, <2>2 DEF d
<1>5. ~(n >= yystacksize /\ (yystacksize >= YYMAXDEPTH \/ n >= m))  BY DEF Exhausted
<1>6. yystacksize' = IF n < yystacksize THEN yystacksize ELSE m  BY DEF Push
<1> HIDE DEF n, m
<1>7. yystacksize' \in Nat /\ n < yystacksize' /\ yystacksize' <= YYMAXDEPTH
  <2>1. CASE n < yystacksize  BY <1>2, <1>6, <2>1
  <2>2. CASE ~(n < yystacksize)
    <3>1. n >= yystacksize  BY <1>2, <2>2
    <3>2. ~(n >= m)  BY <1>5, <3>1
    <3>3. n < m  BY <1>2, <1>4, <3>2
    <3> QED  BY <1>2, <1>4, <1>6, <2>2, <3>3
  <2> QED  BY <2>1, <2>2
<1> QED  BY <1>3, <1>7 DEF SizeInv, StackFits

LEMMA FinishFits ==
  ASSUME NEW result, result # "reading", Finish(result)  PROVE SizeInv'
BY DEF Finish, SizeInv, StackFits

LEMMA ReadFits ==
  ASSUME StackInv, SizeInv, Read  PROVE SizeInv'
<1>1. Abort => SizeInv'
  <2>1. "failed" # "reading"  OBVIOUS
  <2> QED  BY <2>1, FinishFits DEF Abort
<1>2. StackOK(yyss) /\ (reading = "reading" => yyss # <<>>)  BY DEF StackInv
<1>3. CASE ReadToken  BY <1>3 DEF ReadToken, readerVars, SizeInv, StackFits
<1>4. CASE Shift
  <2> DEFINE e == [state |-> Decision.state, sym |-> Token, val |-> yychar.text]
  <2>1. Abort \/ (~Exhausted(yyss) /\ Push(yyss, e))  BY <1>4 DEF Shift
  <2>2. reading = "reading"  BY <1>4 DEF Shift, Ready
  <2> HIDE DEF e
  <2> QED  BY <1>1, <1>2, <2>1, <2>2, PushFits
<1>5. CASE Reduce
  <2> DEFINE r == Decision.rule
  <2> DEFINE n == At(yyr2, r)
  <2> DEFINE v == [i \in 1 .. n |-> yyss[Len(yyss) - n + i].val]
  <2> DEFINE below == SubSeq(yyss, 1, Len(yyss) - n)
  <2> DEFINE to == Goto(Last(below).state, At(yyr1, r))
  <2> DEFINE e == [state |-> to, sym |-> At(yyr1, r), val |-> Value(r, v)]
  <2>1. reading = "reading" /\ Ready /\ Decision.do = "reduce"  BY <1>5 DEF Reduce, Ready
  <2>2. Abort \/ (~Exhausted(below) /\ Push(below, e))  BY <1>5 DEF Reduce, GiveUp
  <2>3. n \in 0 .. Len(yyss) - 1  BY <2>1, StackReduces DEF Finds
  <2>4. StackOK(below)  BY <1>2, <2>1, <2>3, StackPop
  <2> HIDE DEF e, to, below
  <2> QED  BY <1>1, <2>1, <2>2, <2>4, PushFits
<1>6. CASE SyntaxError  BY <1>1, <1>6 DEF SyntaxError, GiveUp
<1>7. CASE Accept
  <2>1. "accepted" # "reading"  OBVIOUS
  <2> QED  BY <1>7, <2>1, FinishFits DEF Accept
<1> QED  BY <1>3, <1>4, <1>5, <1>6, <1>7 DEF Read

(* However deep the formula, the stacks never outgrow their arrays, which  *)
(* yynewstate has made larger in time or else has given the text up.       *)
THEOREM ReaderStackFits == ReaderSpec => []StackFits
<1>1. ReaderInit => SizeInv  BY DEF ReaderInit, SizeInv, StackFits
<1>2. StackInv /\ SizeInv /\ [ReaderNext]_allReaderVars => SizeInv'
  <2> SUFFICES ASSUME StackInv, SizeInv, [ReaderNext]_allReaderVars  PROVE SizeInv'
    OBVIOUS
  <2>1. CASE Read  BY <2>1, ReadFits
  <2>2. CASE \E t \in Texts : ParseString(t) \/ ParseFile(t)
    <3>1. yyss' = <<[state |-> 0, sym |-> -1, val |-> None]>> /\ yystacksize' = YYINITDEPTH
      BY <2>2 DEF ParseString, ParseFile, Start
    <3>2. Len(yyss') = 1  BY <3>1
    <3> QED  BY <3>1, <3>2, DepthAssumption DEF SizeInv, StackFits
  <2>3. CASE UNCHANGED allReaderVars
    BY <2>3 DEF allReaderVars, readerVars, SizeInv, StackFits
  <2> QED  BY <2>1, <2>2, <2>3 DEF ReaderNext
<1>3. SizeInv => StackFits  BY DEF SizeInv
<1> QED  BY <1>1, <1>2, <1>3, StackInvariant, PTL DEF ReaderSpec
=============================================================================
