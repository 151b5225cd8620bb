------------------------------ MODULE Formula ------------------------------
(***************************************************************************)
(* Formulas of monadic second-order logic over graphs, as the parser hands *)
(* them to the solver: in negation normal form, a negation only in front   *)
(* of an atom.  A symbol is its nesting depth, counted from the first      *)
(* terminal symbol t0 of the vocabulary: t0 .. have the depths             *)
(* 0 .. Width - 1, the free variables and then the quantified ones the     *)
(* depths from Width on, and the labels of the graph the depths -1, -2 ... *)
(*                                                                         *)
(* Holds is not code of the solver: it is the textbook semantics the games *)
(* are compared with.                                                      *)
(***************************************************************************)
EXTENDS Integers, TLC

ExistSet(U, f) == [op |-> "exset", var |-> U, sub |-> f]
UnivSet(U, f)  == [op |-> "allset", var |-> U, sub |-> f]
Exist(x, f)    == [op |-> "ex", var |-> x, sub |-> f]
Univ(x, f)     == [op |-> "all", var |-> x, sub |-> f]
Conj(fs)       == [op |-> "and", subs |-> fs]
Disj(fs)       == [op |-> "or", subs |-> fs]
Member(x, U)   == [op |-> "member", x |-> x, set |-> U]
Adj(x, y)      == [op |-> "adj", x |-> x, y |-> y]
Equals(x, y)   == [op |-> "equals", x |-> x, y |-> y]
Negated(f)     == [op |-> "not", sub |-> f]

SetQ(f)     == f.op \in {"exset", "allset"}
ObjQ(f)     == f.op \in {"ex", "all"}
BoolComb(f) == f.op \in {"and", "or"}
Atomar(f)   == f.op \in {"member", "adj", "equals", "not"}

(***************************************************************************)
(* The number of nested operators, which decides whether the results of a  *)
(* formula are cached.                                                     *)
(***************************************************************************)
RECURSIVE Height(_)
Height(f) ==
  IF BoolComb(f)
  THEN 1 + (CHOOSE h \in {Height(s) : s \in f.subs} :
              \A s \in f.subs : Height(s) <= h)
  ELSE IF SetQ(f) \/ ObjQ(f) \/ f.op = "not" THEN 1 + Height(f.sub) ELSE 1

(***************************************************************************)
(* The graph G is [vertices, edges], its edges sets of two vertices; val   *)
(* gives every free symbol of f a vertex or a set of vertices.             *)
(***************************************************************************)
RECURSIVE Holds(_, _, _)
Holds(f, G, val) ==
  CASE f.op = "exset"  -> \E S \in SUBSET G.vertices :
                            Holds(f.sub, G, [val EXCEPT ![f.var] = S])
    [] f.op = "allset" -> \A S \in SUBSET G.vertices :
                            Holds(f.sub, G, [val EXCEPT ![f.var] = S])
    [] f.op = "ex"     -> \E v \in G.vertices :
                            Holds(f.sub, G, [val EXCEPT ![f.var] = v])
    [] f.op = "all"    -> \A v \in G.vertices :
                            Holds(f.sub, G, [val EXCEPT ![f.var] = v])
    [] f.op = "and"    -> \A s \in f.subs : Holds(s, G, val)
    [] f.op = "or"     -> \E s \in f.subs : Holds(s, G, val)
    [] f.op = "member" -> val[f.x] \in val[f.set]
    [] f.op = "adj"    -> {val[f.x], val[f.y]} \in G.edges
    [] f.op = "equals" -> val[f.x] = val[f.y]
    [] f.op = "not"    -> ~Holds(f.sub, G, val)

=============================================================================
