---------------------------- MODULE ParserScopes ----------------------------
(***************************************************************************)
(* What the actions of the grammar (ms2grammar.ypp) do with the names of a *)
(* formula: which variable a name stands for, where it is known, and which *)
(* quantifiers are dropped because nothing uses them.                      *)
(*                                                                         *)
(* The tables of the parser are global and live as long as the process;    *)
(* scopes and pending are the parse stack of one call of yyparse().        *)
(* Variables and sets have tables of their own which are handled alike,    *)
(* so that one table and one counter stand for both.  Connectives,         *)
(* negations and the wording of errors are left out.                       *)
(***************************************************************************)
EXTENDS Naturals, FiniteSets, Sequences, SequencesExt

CONSTANTS
  Variables, Sets, Functions,   \* the names an input may use
  MaxId,           \* bound: ids handed out in one input
  MaxLevel,        \* bound: parentheses inside parentheses
  MaxArgs,         \* bound: arguments of a function
  MaxParses,       \* bound: calls of the parser in a process
  RetriesFailed    \* whether the parser is called again after a failure

Names == Variables \cup Sets

VARIABLES
  level, levelNames,   \* levelVariableMapping and levelSetMapping
  mapping,             \* variableMapping and setMapping: name -> id
  freeMapping,         \* freeVariableMapping and freeSetMapping
  used,                \* usedVariables and usedSets
  counter,             \* variableCounter and setCounter
  formulas,            \* the functions of this input
  fname, args,         \* the function being defined
  scopes, pending,     \* open parentheses with their quantifiers, and the
                       \* quantifiers read before the next one
  expects,             \* operand, first (just after a parenthesis), operator
  outcome,             \* ready, arguments, body; parsed, failed or crash
  parses

tables == <<level, levelNames, mapping, freeMapping, used, counter>>
stack  == <<fname, args, scopes, pending, expects>>
vars   == <<tables, formulas, stack, outcome, parses>>

(* PVariable(), PSet(); what quantifies it and where it stands are left out *)
PName(id, name) == [id |-> id, name |-> name]

Scope(quants) == [quants |-> quants, refs |-> {}, kept |-> {}]
IdsOf(S)        == {q.id : q \in S}
Ids(quants)     == IdsOf(ToSet(quants))
NamesOf(quants) == {q.name : q \in ToSet(quants)}

(* f with y at x, which may be new to it *)
Put(f, x, y) == [z \in DOMAIN f \cup {x} |-> IF z = x THEN y ELSE f[z]]

Init ==
  /\ level = 0
  /\ levelNames = <<>> /\ mapping = <<>> /\ freeMapping = <<>>
  /\ used = {} /\ counter = 0 /\ formulas = <<>>
  /\ fname \in Functions /\ args = <<>> /\ scopes = <<>> /\ pending = <<>>
  /\ expects = "operand" /\ outcome = "ready" /\ parses = 1

-----------------------------------------------------------------------------
(* reset_mappings(), which leaves the level as it is *)
ResetMappings ==
  /\ levelNames' = <<>> /\ mapping' = <<>> /\ freeMapping' = <<>> /\ used' = {}
  /\ UNCHANGED level

Finalize(result) ==
  /\ ResetMappings
  /\ counter' = 0 /\ formulas' = <<>>
  /\ scopes' = <<>> /\ pending' = <<>> /\ args' = <<>> /\ expects' = "operand"
  /\ outcome' = result
  /\ UNCHANGED <<fname, parses>>

(* A table that is missing for a level is read as a NULL pointer. *)
Crash ==
  /\ outcome' = "crash"
  /\ UNCHANGED <<tables, formulas, stack, parses>>

(* initialize_parser() *)
Begin(f) ==
  /\ outcome = "ready"
  /\ levelNames' = Put(levelNames, 0, {})
  /\ fname' = f /\ outcome' = "arguments"
  /\ UNCHANGED <<level, mapping, freeMapping, used, counter, formulas, args, scopes,
                 pending, expects, parses>>

NewFree(n) ==
  /\ outcome = "arguments" /\ Len(args) < MaxArgs /\ counter < MaxId
  /\ n \notin DOMAIN mapping \cup DOMAIN freeMapping
  /\ freeMapping' = Put(freeMapping, n, counter)
  /\ args' = Append(args, PName(counter, n))
  /\ counter' = counter + 1
  /\ UNCHANGED <<level, levelNames, mapping, used, formulas, fname, scopes, pending,
                 expects, outcome, parses>>

Define ==
  /\ outcome = "arguments" /\ fname \notin DOMAIN formulas
  /\ scopes' = <<Scope(<<>>)>> /\ expects' = "operand" /\ outcome' = "body"
  /\ UNCHANGED <<tables, formulas, fname, args, pending, parses>>

(* new_variable(), new_set() *)
NewQuantified(n) ==
  /\ outcome = "body" /\ expects # "operator" /\ counter < MaxId
  /\ n \notin DOMAIN mapping \cup DOMAIN freeMapping
  /\ IF level \notin DOMAIN levelNames THEN Crash
     ELSE /\ levelNames' = [levelNames EXCEPT ![level] = @ \cup {n}]
          /\ mapping' = Put(mapping, n, counter)
          /\ counter' = counter + 1
          /\ pending' = Append(pending, PName(counter, n))
          /\ UNCHANGED <<level, freeMapping, used, formulas, fname, args, scopes, expects,
                         outcome, parses>>

(* add_level() *)
Open ==
  /\ outcome = "body" /\ expects # "operator" /\ level < MaxLevel
  /\ level' = level + 1
  /\ levelNames' = Put(levelNames, level + 1, {})
  /\ scopes' = Append(scopes, Scope(pending))
  /\ pending' = <<>> /\ expects' = "first"
  /\ UNCHANGED <<mapping, freeMapping, used, counter, formulas, fname, args, outcome, parses>>

(* get_variable(), get_set(): a quantified name before a free one *)
Known == DOMAIN mapping \cup DOMAIN freeMapping
Id(n) == IF n \in DOMAIN mapping THEN mapping[n] ELSE freeMapping[n]

Refer(names) ==
  /\ outcome = "body" /\ expects # "operator" /\ pending = <<>>
  /\ names \subseteq Known
  /\ scopes' = [scopes EXCEPT ![Len(scopes)].refs = @ \cup {Id(n) : n \in names}]
  /\ used' = used \cup (names \cap DOMAIN mapping)
  /\ expects' = "operator"
  /\ UNCHANGED <<level, levelNames, mapping, freeMapping, counter, formulas, fname, args,
                 pending, outcome, parses>>

Call(f, passed) ==
  /\ f \in DOMAIN formulas
  /\ Len(passed) = Len(formulas[f].args)
  /\ \A i \in DOMAIN passed : passed[i] \in Sets <=> formulas[f].args[i].name \in Sets
  /\ Refer({passed[i] : i \in DOMAIN passed})

Connective ==
  /\ outcome = "body" /\ expects = "operator"
  /\ expects' = "operand"
  /\ UNCHANGED <<tables, formulas, fname, args, scopes, pending, outcome, parses>>

(***************************************************************************)
(* A closing parenthesis: erase_current_level() forgets the names that     *)
(* were quantified before the opening one and says which of the variables  *)
(* are unused (sets never are), erase_irrelevants() drops their            *)
(* quantifiers.  Whether a name is used is a question to the function so   *)
(* far, not to the parentheses.                                            *)
(***************************************************************************)
Unused(names) == {mapping[n] : n \in (names \cap Variables) \ used}

(* Mutant of EraseIrrelevants: what follows an unused one goes as well. *)
EraseFollowing(quants, unused) ==
  {q \in ToSet(quants) : \A id \in unused \cap Ids(quants) : q.id < id}

EraseIrrelevants(quants, unused) == {q \in ToSet(quants) : q.id \notin unused}

(* Mutant of EraseCurrentLevel: the names of the deeper level are erased. *)
EraseDeeperNames ==
  LET names == levelNames[level]
  IN /\ level' = level - 1
     /\ levelNames' = Put(Restrict(levelNames, DOMAIN levelNames \ {level}), level - 1, {})
     /\ mapping' = Restrict(mapping, DOMAIN mapping \ names)

EraseCurrentLevel ==
  LET names == levelNames[level - 1]
  IN /\ level' = level - 1
     /\ levelNames' = Put(Restrict(levelNames, DOMAIN levelNames \ {level}), level - 1, {})
     /\ mapping' = Restrict(mapping, DOMAIN mapping \ names)

Close ==
  /\ outcome = "body" /\ expects = "operator" /\ Len(scopes) > 1
  /\ IF level - 1 \notin DOMAIN levelNames THEN Crash
     ELSE LET inner == Last(scopes)
              kept  == EraseIrrelevants(inner.quants, Unused(levelNames[level - 1]))
          IN /\ EraseCurrentLevel
             /\ scopes' = [Front(scopes) EXCEPT
                  ![Len(scopes) - 1].refs = @ \cup (inner.refs \ IdsOf(kept)),
                  ![Len(scopes) - 1].kept = @ \cup inner.kept
                     \cup {[id |-> q.id, name |-> q.name, bound |-> q.id \in inner.refs] :
                             q \in kept}]
             /\ UNCHANGED <<freeMapping, used, counter, formulas, fname, args, pending,
                            expects, outcome, parses>>

(* Mutant of EndFunction: the ids start again with every function. *)
EndFunctionAndIds ==
  /\ outcome = "body" /\ expects = "operator" /\ Len(scopes) = 1
  /\ ResetMappings
  /\ counter' = 0
  /\ formulas' = Put(formulas, fname,
                   [args |-> args, refs |-> scopes[1].refs, kept |-> scopes[1].kept])
  /\ scopes' = <<>> /\ args' = <<>> /\ expects' = "operand" /\ outcome' = "ready"
  /\ UNCHANGED <<fname, pending, parses>>

(* clear_parser() at the end of a definition *)
EndFunction ==
  /\ outcome = "body" /\ expects = "operator" /\ Len(scopes) = 1
  /\ ResetMappings
  /\ formulas' = Put(formulas, fname,
                   [args |-> args, refs |-> scopes[1].refs, kept |-> scopes[1].kept])
  /\ scopes' = <<>> /\ args' = <<>> /\ expects' = "operand" /\ outcome' = "ready"
  /\ UNCHANGED <<counter, fname, pending, parses>>

(* The end of the input after a function: finalize_parser(). *)
EndInput ==
  /\ outcome = "ready" /\ DOMAIN formulas # {}
  /\ Finalize("parsed")

(***************************************************************************)
(* An error, of the syntax or of an action (a name declared twice or not   *)
(* at all, a function defined twice, wrong arguments): yyparse() returns   *)
(* at once, and the tables are finalized.  Empty parentheses are left      *)
(* before they are found to be an error.                                   *)
(***************************************************************************)
Error ==
  /\ outcome \in {"ready", "arguments", "body"}
  /\ Finalize("failed")

CloseEmpty ==
  /\ outcome = "body" /\ expects = "first" /\ pending = <<>>
  /\ IF level - 1 \notin DOMAIN levelNames THEN Crash
     ELSE /\ level' = level - 1
          /\ levelNames' = <<>> /\ mapping' = <<>> /\ freeMapping' = <<>> /\ used' = {}
          /\ counter' = 0 /\ formulas' = <<>>
          /\ scopes' = <<>> /\ args' = <<>> /\ expects' = "operand"
          /\ outcome' = "failed"
          /\ UNCHANGED <<fname, pending, parses>>

Parse ==
  /\ outcome = "parsed" \/ (outcome = "failed" /\ RetriesFailed)
  /\ parses < MaxParses
  /\ outcome' = "ready" /\ parses' = parses + 1
  /\ UNCHANGED <<tables, formulas, stack>>

Next ==
  \/ \E f \in Functions : Begin(f)
  \/ \E n \in Names : NewFree(n)
  \/ Define
  \/ \E n \in Names : NewQuantified(n)
  \/ Open
  \/ \E x \in Variables, n \in Names : Refer({x, n})
  \/ \E f \in Functions, passed \in BoundedSeq(Names, MaxArgs) : Call(f, passed)
  \/ Connective
  \/ Close
  \/ EndFunction
  \/ EndInput
  \/ Error
  \/ CloseEmpty
  \/ Parse

Spec == Init /\ [][Next]_vars

-----------------------------------------------------------------------------
(***************************************************************************)
(* The tables and the parse stack agree: exactly the names quantified in   *)
(* front of an open parenthesis, and those read last, are known, each      *)
(* under its own id and recorded at its own level, and none is free too.   *)
(***************************************************************************)
TablesFollowNesting ==
  outcome = "body" =>
    LET Open_(l) == IF l < level THEN scopes[l + 2].quants ELSE pending
    IN /\ DOMAIN levelNames = 0 .. level /\ Len(scopes) = level + 1
       /\ \A l \in 0 .. level : levelNames[l] = NamesOf(Open_(l))
       /\ DOMAIN mapping = UNION {levelNames[l] : l \in 0 .. level}
       /\ \A l \in 0 .. level : \A i \in DOMAIN Open_(l) :
            mapping[Open_(l)[i].name] = Open_(l)[i].id
       /\ DOMAIN mapping \cap DOMAIN freeMapping = {}

(***************************************************************************)
(* Every reference is bound, by a quantifier that is still open or by an   *)
(* argument of the function it is in: no quantifier is dropped that        *)
(* something refers to, and no name outlives its parentheses.              *)
(***************************************************************************)
RefsBound ==
  /\ \A i \in DOMAIN scopes :
       scopes[i].refs \subseteq Ids(args) \cup UNION {Ids(scopes[j].quants) : j \in 1 .. i}
  /\ \A f \in DOMAIN formulas : formulas[f].refs \subseteq Ids(formulas[f].args)

(***************************************************************************)
(* An id is handed out once in an input, so that a function can be put     *)
(* into another one by its ids alone.                                      *)
(***************************************************************************)
IdsOnce ==
  LET bound(f) == Ids(formulas[f].args) \cup IdsOf(formulas[f].kept)
      current  == Ids(args) \cup Ids(pending)
                    \cup UNION {Ids(scopes[i].quants) \cup IdsOf(scopes[i].kept) : i \in DOMAIN scopes}
  IN /\ \A f, g \in DOMAIN formulas : f # g => bound(f) \cap bound(g) = {}
     /\ \A f \in DOMAIN formulas : bound(f) \cap current = {}

=============================================================================
