---------------------------- MODULE MCGameCaches ----------------------------
(* Nodes of the list are only compared for equality.                       *)
EXTENDS GameCaches, TLC

CONSTANTS phi, psi, atom   (* phi and psi are high enough to be cached      *)

Heights(p) == IF p = atom THEN 2 ELSE 3

Keys == [formula : FormulaAt, of : ObjectAt \X ObjectAt]

Values == [problem : Problem, of : Operands]

Symmetry == Permutations(Cell)
=============================================================================
