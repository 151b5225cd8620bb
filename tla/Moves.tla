------------------------------- MODULE Moves -------------------------------
(***************************************************************************)
(* The moves of the model checking game (logic/moves.h) and what happens   *)
(* to them when the terminals of a bag are renumbered.                     *)
(*                                                                         *)
(* A move interprets the symbol with its nesting depth: a SetMove by the   *)
(* depths of the terminals that are members of the set, a PointMove by the *)
(* depths of the symbols that the vertex is adjacent to and of the sets    *)
(* that contain it.  The terminals of a bag are numbered in the order of   *)
(* the vertices, so that a vertex that is introduced at position t moves   *)
(* all terminals from t on up by one, and a forgotten one moves those      *)
(* behind it down.                                                         *)
(***************************************************************************)
EXTENDS Integers

CONSTANTS
  NULL,   \* the point move of a variable whose vertex is not chosen yet
  Width   \* n_terminals(): the size of the largest bag

ASSUME WidthAssumption == Width \in Nat \ {0}

SetMove(U, members) == [depth |-> U, members |-> members]
PointMove(s, edges, labels) == [depth |-> s, edges |-> edges, labels |-> labels]

IsTerminal(move) == move.depth < Width
TestEdge(move, s) == s \in move.edges
TestLabel(move, U) == U \in move.labels

(***************************************************************************)
(* rename_obj_up and rename_obj_down: the bits from .. to move by one.     *)
(***************************************************************************)
(* Mutant: the bit of the new terminal itself stays *)
RenameUpBehind(bits, from, to) ==
  {IF i \in from + 1 .. to THEN i + 1 ELSE i : i \in bits}

RenameUp(bits, from, to) == {IF i \in from .. to THEN i + 1 ELSE i : i \in bits}
RenameDown(bits, from, to) == {IF i \in from .. to THEN i - 1 ELSE i : i \in bits}

SignatureDepth == Width - 1

SetIntroduce(move, t, setbit) ==
  [move EXCEPT !.members = RenameUp(@, t, SignatureDepth - 1)
                             \cup (IF setbit THEN {t} ELSE {})]

(* Mutant: the bits behind t are not renamed *)
SetForgetInPlace(move, t) == [move EXCEPT !.members = @ \ {t}]

SetForget(move, t) ==
  [move EXCEPT !.members = RenameDown(@ \ {t}, t + 1, SignatureDepth)]

PointIntroduce(move, t) ==
  [move EXCEPT !.edges = RenameUp(@, t, SignatureDepth - 1)]

PointForget(move, t) ==
  [move EXCEPT !.edges = RenameDown(@ \ {t}, t + 1, SignatureDepth)]

(***************************************************************************)
(* rename_introduce and rename_forget: the move gets the next or previous  *)
(* symbol, because a symbol s before it was introduced or forgotten.       *)
(***************************************************************************)
RenamedBehind(move, s) ==
  [move EXCEPT !.depth = @ + 1, !.edges = RenameUp(@, s, move.depth - 1)]

RenameIntroduce(move, s, adjacent) ==
  [RenamedBehind(move, s) EXCEPT !.edges = @ \cup (IF adjacent THEN {s} ELSE {})]

RenameIntroduceSet(move, U, member) ==
  [RenamedBehind(move, U) EXCEPT !.labels = @ \cup (IF member THEN {U} ELSE {})]

RenameForget(move, s) ==
  [move EXCEPT !.depth = @ - 1,
               !.edges = RenameDown(@ \ {s}, s + 1, move.depth - 1)]

=============================================================================
