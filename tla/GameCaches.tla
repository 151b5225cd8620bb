----------------------------- MODULE GameCaches -----------------------------
(***************************************************************************)
(* The caches of the game operations, cache_introduce, cache_forget and    *)
(* cache_join, over the life of several solvers.  They are globals.  Their *)
(* keys compare addresses: a formula's, which the key does not own, and    *)
(* those of flyweights (an assignment, a game, two games), of which the    *)
(* key keeps handles.  A hit is right only if what was at these addresses  *)
(* when the result was stored is there still.                              *)
(*                                                                         *)
(* What is cached depends on the objects, not on their addresses: Value is *)
(* made of the problem (a formula, and the graph of the solver it was      *)
(* parsed for) and the objects the operation was applied to.               *)
(***************************************************************************)
EXTENDS LruCache, Integers

CONSTANTS
  Problem,
  Object,        (* assignments and games                                   *)
  FormulaAt,     (* addresses of formulas: bounds the number of solves      *)
  ObjectAt,      (* addresses of flyweights, which std::less compares       *)
  None,          (* nothing there, or NULL                                  *)
  Height(_),     (* of the formula of a problem                             *)
  CACHE_CUTOFF

(* What an operation is applied to: an assignment and a game in this       *)
(* order, or two games in either.                                          *)
Ordered(x, y) == {<<x, y>>}
Unordered(x, y) == {<<x, y>>, <<y, x>>}

Operands == {Ordered(x, y) : x, y \in Object} \cup {Unordered(x, y) : x, y \in Object}

ASSUME GameCachesAssumption ==
  /\ ObjectAt \subseteq Nat
  /\ None \notin Problem /\ None \notin Object /\ None \notin FormulaAt
  /\ Key = [formula : FormulaAt, of : ObjectAt \X ObjectAt]
  /\ Value = [problem : Problem, of : Operands]
  /\ \A p \in Problem : Height(p) \in Nat
  /\ CACHE_CUTOFF \in Nat

VARIABLES
  kind,          (* of the cache: "apply" (introduce and forget) or "join"  *)
  formula,       (* what is at each address of a formula                    *)
  solving,       (* _formula of the solver that runs                        *)
  object,        (* what is at each address of a flyweight                  *)
  due            (* what the last lookup should answer if it answers        *)

memory == <<kind, formula, solving, object>>
allVars == <<vars, kind, formula, solving, object, due>>

InitCaches ==
  /\ Init
  /\ kind \in {"apply", "join"}
  /\ formula = [a \in FormulaAt |-> None]
  /\ solving = None
  /\ object = [a \in ObjectAt |-> None]
  /\ due = NoValue

-----------------------------------------------------------------------------
(* CacheApplyGameKey: an assignment and a game (the symbol is left out).   *)
ApplyKey(f, x, y) == [formula |-> f, of |-> <<x, y>>]

(* Mutant of JoinKey: only the game at the greater address counts.         *)
JoinKeyOfGreater(f, x, y) == [formula |-> f, of |-> IF x < y THEN <<x, y>> ELSE <<x, x>>]

(* CacheJoin: the two games come in the order of their addresses (and the  *)
(* assignment, of which the key has a handle too, is left out).            *)
JoinKey(f, x, y) == [formula |-> f, of |-> IF x < y THEN <<x, y>> ELSE <<y, x>>]

KeyOf(f, x, y) == IF kind = "apply" THEN ApplyKey(f, x, y) ELSE JoinKey(f, x, y)

(* What introduce() and forget() of a game under an assignment, or join()  *)
(* of two games, returns: a join does not depend on the order.             *)
ResultOf(f, x, y) ==
  [problem |-> formula[f],
   of |-> IF kind = "apply" THEN Ordered(object[x], object[y])
                            ELSE Unordered(object[x], object[y])]

There(f, x, y) == f = solving /\ object[x] # None /\ object[y] # None

(* formula->height() < CACHE_CUTOFF: a lookup returns NULL and a store     *)
(* returns, as both do for a determined game, which has no formula.        *)
CutOff(f) == Height(formula[f]) < CACHE_CUTOFF

(* cache_introduce_lookup(), cache_forget_lookup(), cache_join_lookup()    *)
CacheLookup(f, x, y) ==
  /\ There(f, x, y) /\ ~CutOff(f)
  /\ Lookup(KeyOf(f, x, y))
  /\ due' = ResultOf(f, x, y)
  /\ UNCHANGED memory

(* cache_introduce_store(), cache_forget_store(), cache_join_store()       *)
CacheStore(f, x, y) ==
  /\ There(f, x, y) /\ ~CutOff(f)
  /\ Store(KeyOf(f, x, y), ResultOf(f, x, y))
  /\ UNCHANGED <<memory, due>>

-----------------------------------------------------------------------------
(* load_formula(), of this solver or a new one: the parser allocates a     *)
(* formula, and the one there was is left behind.                          *)
ParseFormula(p) ==
  /\ \E a \in FormulaAt :
       /\ formula[a] = None
       /\ formula' = [formula EXCEPT ![a] = p]
       /\ solving' = a
  /\ UNCHANGED <<vars, kind, object, due>>

(* Mutant of FormulasAfter: the destructor deletes what the solver parsed. *)
FormulasAfterDelete == [formula EXCEPT ![solving] = None]

(* ~SequoiaSolver() deletes tables, evaluation and graphs, not _formula.   *)
FormulasAfter == formula

DestroySolver ==
  /\ solving # None
  /\ formula' = FormulasAfter
  /\ solving' = None
  /\ UNCHANGED <<vars, kind, object, due>>

(* Flyweight(entry): an object that is in the pool already is not new.     *)
Intern(x, o) ==
  /\ object[x] = None
  /\ \A y \in ObjectAt : object[y] # o
  /\ object' = [object EXCEPT ![x] = o]
  /\ UNCHANGED <<vars, kind, formula, solving, due>>

(* Mutant of HeldByKeys: a key keeps pointers in place of handles.         *)
HeldByNone == {}

(* The flyweights of which the keys of the entries have handles.           *)
HeldByKeys == UNION {{item[c].key.of[1], item[c].key.of[2]} : c \in used}

(* The last handle is destroyed, and the object with it: the tables and    *)
(* games that had the others may go at any time.                           *)
Release(x) ==
  /\ object[x] # None
  /\ x \notin HeldByKeys
  /\ object' = [object EXCEPT ![x] = None]
  /\ UNCHANGED <<vars, kind, formula, solving, due>>

(* cache_resize(), which does not look at what is stored                   *)
CacheResize(n) == Resize(n) /\ UNCHANGED <<memory, due>>

PurgeOne == Purge /\ UNCHANGED <<memory, due>>

CachesNext ==
  \/ \E f \in FormulaAt, x \in ObjectAt, y \in ObjectAt :
       CacheLookup(f, x, y) \/ CacheStore(f, x, y)
  \/ PurgeOne
  \/ \E n \in Limits : CacheResize(n)
  \/ \E p \in Problem : ParseFormula(p)
  \/ DestroySolver
  \/ \E x \in ObjectAt : Release(x) \/ \E o \in Object : Intern(x, o)

CachesSpec == InitCaches /\ [][CachesNext]_allVars

-----------------------------------------------------------------------------
(* The types of what is added to the cache.                                *)
MemoryTypeOK ==
  /\ kind \in {"apply", "join"}
  /\ formula \in [FormulaAt -> Problem \cup {None}]
  /\ solving \in FormulaAt \cup {None}
  /\ object \in [ObjectAt -> Object \cup {None}]
  /\ due \in Value \cup {NoValue}

(***************************************************************************)
(* A hit is the result of the formula and the objects that are at the      *)
(* addresses of the key now, though the entry may be of an earlier solver  *)
(* and the addresses may have been used again: no solver is answered with  *)
(* what was computed for another formula, graph, assignment or game.       *)
(***************************************************************************)
HitsAreFresh == answer # NoValue => answer = due
=============================================================================
