---------------------------- MODULE MCGameSolve ----------------------------
(***************************************************************************)
(* Formulas for the model checking of GameSolve, most of them from the     *)
(* examples of the repository.  Symbol(r) is the r-th symbol behind the    *)
(* terminals, the free variables come first.                               *)
(***************************************************************************)
EXTENDS GameSolve

Symbol(r) == Width + r - 1
Label == -1

(***************************************************************************)
(* U is a dominating set.                                                  *)
(***************************************************************************)
DominatingSet ==
  LET U == Symbol(1)  x == Symbol(2)  y == Symbol(3)
  IN Univ(x, Disj({Member(x, U), Exist(y, Conj({Adj(x, y), Member(y, U)}))}))

(***************************************************************************)
(* The vertices without the label can be coloured with two colours.        *)
(***************************************************************************)
TwoColoured ==
  LET X == Symbol(1)  x == Symbol(2)  y == Symbol(3)
      Differ(a, b) == Conj({Member(a, X), Negated(Member(b, X))})
  IN ExistSet(X, Univ(x, Disj({Member(x, Label),
       Univ(y, Disj({Negated(Adj(x, y)), Differ(x, y), Differ(y, x)}))})))

(***************************************************************************)
(* Every vertex without the label has another one it is not adjacent to.   *)
(***************************************************************************)
HasNonNeighbour ==
  LET x == Symbol(1)  y == Symbol(2)
  IN Univ(x, Disj({Member(x, Label),
                   Exist(y, Conj({Negated(Equals(x, y)), Negated(Adj(x, y))}))}))

(***************************************************************************)
(* Every vertex in X has a neighbour.                                      *)
(***************************************************************************)
NotIsolated ==
  LET X == Symbol(1)  x == Symbol(2)  y == Symbol(3)
  IN Univ(x, Disj({Negated(Member(x, X)), Exist(y, Adj(x, y))}))
(***************************************************************************)
(* The graph is complete.                                                  *)
(***************************************************************************)
Complete ==
  LET x == Symbol(1)  y == Symbol(2) IN Univ(x, Univ(y, Disj({Equals(x, y), Adj(x, y)})))

Problem(formula, labels, free, asserts) ==
  [formula |-> formula, labels |-> labels, free |-> free, asserts |-> asserts]

Solved ==
  {Problem(DominatingSet, 0, 1, TRUE), Problem(TwoColoured, 1, 0, TRUE),
   Problem(HasNonNeighbour, 1, 0, TRUE), Problem(HasNonNeighbour, 1, 0, FALSE)}

SolvedWrongly == {Problem(NotIsolated, 0, 1, FALSE)}

Aborted == {Problem(Complete, 0, 0, TRUE)}
=============================================================================
