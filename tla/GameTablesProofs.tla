-------------------------- MODULE GameTablesProofs --------------------------
(***************************************************************************)
(* What the tables of the solver hold, for every graph, width and problem  *)
(* and whatever the games do: the terminal moves of a node are those of    *)
(* its bag, the solutions of an entry agree with its assignment, and no    *)
(* solution is in two entries.  Before that the moves themselves: the      *)
(* renaming of the terminals of a bag loses nothing.                       *)
(***************************************************************************)
EXTENDS GameTables, FiniteSetTheorems, TLAPS

-----------------------------------------------------------------------------
(***************************************************************************)
(* Moves: what a move says of the other terminals is the same before a     *)
(* terminal is introduced and after it is forgotten again.                 *)
(***************************************************************************)

(***************************************************************************)
(* Moving the bits from t on up frees the bit t, and moving the bits       *)
(* behind it down again restores them (rename_obj_up, rename_obj_down).    *)
(***************************************************************************)
LEMMA RenameRoundTrip ==
  ASSUME NEW t \in Nat, NEW d \in Nat, NEW bits \in SUBSET (0 .. d - 1)
  PROVE  /\ t \notin RenameUp(bits, t, d - 1)
         /\ RenameUp(bits, t, d - 1) \subseteq 0 .. d
         /\ RenameDown(RenameUp(bits, t, d - 1), t + 1, d) = bits
<1> DEFINE up(i) == IF i \in t .. d - 1 THEN i + 1 ELSE i
           down(i) == IF i \in t + 1 .. d THEN i - 1 ELSE i
<1>1. \A i \in bits : up(i) # t /\ up(i) \in 0 .. d /\ down(up(i)) = i
  OBVIOUS
<1>2. RenameUp(bits, t, d - 1) = {up(i) : i \in bits}
  BY DEF RenameUp
<1> HIDE DEF up
<1>3. RenameDown({up(i) : i \in bits}, t + 1, d) = {down(j) : j \in {up(i) : i \in bits}}
  BY DEF RenameDown
<1> HIDE DEF down
<1>4. {down(j) : j \in {up(i) : i \in bits}} = bits
  BY <1>1
<1> QED BY <1>1, <1>2, <1>3, <1>4

(***************************************************************************)
(* Forgetting the terminal that was just introduced gives the set move     *)
(* back, whether or not the new vertex was put into the set                *)
(* (SetMove::introduce, SetMove::forget).  The bag has a place left for    *)
(* the terminal: no member has the last depth.                             *)
(***************************************************************************)
THEOREM SetForgetUndoesIntroduce ==
  ASSUME NEW U, NEW t \in 0 .. Width - 1, NEW setbit \in BOOLEAN,
         NEW members \in SUBSET (0 .. SignatureDepth - 1)
  PROVE  SetForget(SetIntroduce(SetMove(U, members), t, setbit), t) = SetMove(U, members)
<1> DEFINE up == RenameUp(members, t, SignatureDepth - 1)
<1>1. SignatureDepth \in Nat /\ t \in Nat
  BY WidthAssumption DEF SignatureDepth
<1>2. t \notin up /\ RenameDown(up, t + 1, SignatureDepth) = members
  BY <1>1, RenameRoundTrip
<1> HIDE DEF up
<1> DEFINE all == up \cup (IF setbit THEN {t} ELSE {})
<1>3. all \ {t} = up
  BY <1>2
<1>4. SetIntroduce(SetMove(U, members), t, setbit) = SetMove(U, all)
  <2> HIDE DEF all
  <2>1. all = RenameUp(members, t, SignatureDepth - 1) \cup (IF setbit THEN {t} ELSE {})
    BY DEF all, up
  <2>2. SetMove(U, members).members = members
    BY DEF SetMove
  <2>3. SetIntroduce(SetMove(U, members), t, setbit)
          = [SetMove(U, members) EXCEPT !.members = all]
    BY <2>1, <2>2 DEF SetIntroduce
  <2> QED BY <2>3 DEF SetMove
<1> HIDE DEF all
<1>5. SetForget(SetMove(U, all), t) = SetMove(U, RenameDown(up, t + 1, SignatureDepth))
  <2>1. SetMove(U, all).members \ {t} = up
    BY <1>3 DEF SetMove
  <2>2. SetForget(SetMove(U, all), t)
          = [SetMove(U, all) EXCEPT !.members = RenameDown(up, t + 1, SignatureDepth)]
    BY <2>1 DEF SetForget
  <2> QED BY <2>2 DEF SetMove
<1> QED BY <1>2, <1>4, <1>5

(***************************************************************************)
(* The same for the edges of a point move onto a vertex that is no         *)
(* terminal (PointMove::introduce, PointMove::forget).                     *)
(***************************************************************************)
THEOREM PointForgetUndoesIntroduce ==
  ASSUME NEW s, NEW labels, NEW t \in 0 .. Width - 1,
         NEW edges \in SUBSET (0 .. SignatureDepth - 1)
  PROVE  PointForget(PointIntroduce(PointMove(s, edges, labels), t), t)
           = PointMove(s, edges, labels)
<1> DEFINE up == RenameUp(edges, t, SignatureDepth - 1)
<1>1. SignatureDepth \in Nat /\ t \in Nat
  BY WidthAssumption DEF SignatureDepth
<1>2. t \notin up /\ RenameDown(up, t + 1, SignatureDepth) = edges
  BY <1>1, RenameRoundTrip
<1> HIDE DEF up
<1>3. PointIntroduce(PointMove(s, edges, labels), t) = PointMove(s, up, labels)
  BY DEF PointIntroduce, PointMove, up
<1>4. PointForget(PointMove(s, up, labels), t)
        = PointMove(s, RenameDown(up, t + 1, SignatureDepth), labels)
  BY <1>2 DEF PointForget, PointMove
<1> QED BY <1>2, <1>3, <1>4

(***************************************************************************)
(* A terminal move that is renamed because a terminal s is introduced      *)
(* before it, and renamed back when s is forgotten, is the move it was,    *)
(* whether or not the two vertices are adjacent (rename_introduce,         *)
(* rename_forget).  Its edges are to earlier symbols only.                 *)
(***************************************************************************)
THEOREM RenameForgetUndoesIntroduce ==
  ASSUME NEW labels, NEW i \in Nat, NEW s \in 0 .. i, NEW adjacent \in BOOLEAN,
         NEW edges \in SUBSET (0 .. i - 1)
  PROVE  RenameForget(RenameIntroduce(PointMove(i, edges, labels), s, adjacent), s)
           = PointMove(i, edges, labels)
<1> DEFINE up == RenameUp(edges, s, i - 1)
<1>1. s \notin up /\ RenameDown(up, s + 1, i) = edges
  BY RenameRoundTrip
<1> HIDE DEF up
<1> DEFINE all == up \cup (IF adjacent THEN {s} ELSE {})
<1>2. all \ {s} = up
  BY <1>1
<1>3. RenameIntroduce(PointMove(i, edges, labels), s, adjacent) = PointMove(i + 1, all, labels)
  <2>1. RenamedBehind(PointMove(i, edges, labels), s) = PointMove(i + 1, up, labels)
    <3> DEFINE move == PointMove(i, edges, labels)
    <3>1. move.depth = i /\ move.edges = edges
      BY DEF PointMove
    <3>2. RenamedBehind(move, s) = [move EXCEPT !.depth = i + 1, !.edges = up]
      BY <3>1 DEF RenamedBehind, up
    <3> QED BY <3>2 DEF PointMove
  <2>2. PointMove(i + 1, up, labels).edges \cup (IF adjacent THEN {s} ELSE {}) = all
    BY DEF PointMove
  <2> HIDE DEF all
  <2>3. RenameIntroduce(PointMove(i, edges, labels), s, adjacent)
          = [PointMove(i + 1, up, labels) EXCEPT !.edges = all]
    BY <2>1, <2>2 DEF RenameIntroduce
  <2> QED BY <2>3 DEF PointMove
<1> HIDE DEF all
<1>4. RenameForget(PointMove(i + 1, all, labels), s)
        = PointMove(i, RenameDown(up, s + 1, i), labels)
  <2> DEFINE move == PointMove(i + 1, all, labels)
  <2>1. move.depth - 1 = i /\ move.edges \ {s} = up
    BY <1>2 DEF PointMove
  <2>2. RenameForget(move, s)
          = [move EXCEPT !.depth = i, !.edges = RenameDown(up, s + 1, i)]
    <3> HIDE DEF move
    <3> QED BY <2>1 DEF RenameForget
  <2> QED BY <2>2 DEF PointMove
<1> QED BY <1>1, <1>3, <1>4

-----------------------------------------------------------------------------
(***************************************************************************)
(* The positions of the vertices in a bag: they are its vertices counted   *)
(* from 0 in their order, each once.                                       *)
(***************************************************************************)
LEMMA BelowFinite ==
  ASSUME NEW bag \in SUBSET Nat, IsFiniteSet(bag), NEW v
  PROVE  IsFiniteSet({u \in bag : u < v}) /\ Position(v, bag) \in Nat
BY FS_Subset, FS_CardinalityType DEF Position

LEMMA PositionMonotone ==
  ASSUME NEW bag \in SUBSET Nat, IsFiniteSet(bag), NEW u \in bag, NEW v \in Nat, u < v
  PROVE  Position(u, bag) < Position(v, bag)
<1> DEFINE below(x) == {w \in bag : w < x}
<1>1. below(u) \cup {u} \in SUBSET below(v) /\ u \notin below(u)
  <2>1. \A w \in bag : w < u => w < v
    BY SMT
  <2>2. ~(u < u)
    BY SMT
  <2> QED BY <2>1, <2>2
<1>2. IsFiniteSet(below(u)) /\ IsFiniteSet(below(v))
  BY BelowFinite
<1> HIDE DEF below
<1>3. Cardinality(below(u) \cup {u}) = Cardinality(below(u)) + 1
  BY <1>1, <1>2, FS_AddElement
<1>4. Cardinality(below(u) \cup {u}) <= Cardinality(below(v))
  BY <1>1, <1>2, FS_Subset
<1>5. Position(u, bag) = Cardinality(below(u)) /\ Position(v, bag) = Cardinality(below(v))
  BY DEF Position, below
<1>6. Cardinality(below(u)) \in Nat /\ Cardinality(below(v)) \in Nat
  BY <1>2, FS_CardinalityType
<1> QED BY <1>3, <1>4, <1>5, <1>6

LEMMA PositionOnce ==
  ASSUME NEW bag \in SUBSET Nat, IsFiniteSet(bag), NEW u \in bag, NEW v \in bag,
         Position(u, bag) = Position(v, bag)
  PROVE  u = v
<1>1. u < v \/ v < u \/ u = v
  BY SMT
<1>2. Position(u, bag) \in Nat /\ Position(v, bag) \in Nat
  BY BelowFinite
<1> QED BY <1>1, <1>2, PositionMonotone

LEMMA PositionRange ==
  ASSUME NEW bag \in SUBSET Nat, IsFiniteSet(bag), NEW v \in bag
  PROVE  Position(v, bag) \in 0 .. Cardinality(bag) - 1
<1>1. {u \in bag : u < v} \in SUBSET (bag \ {v})
  OBVIOUS
<1>2. IsFiniteSet(bag \ {v}) /\ Cardinality(bag \ {v}) = Cardinality(bag) - 1
  BY FS_RemoveElement
<1>3. Position(v, bag) <= Cardinality(bag \ {v})
  BY <1>1, <1>2, FS_Subset DEF Position
<1>4. Position(v, bag) \in Nat /\ Cardinality(bag) \in Nat
  BY BelowFinite, FS_CardinalityType
<1> QED BY <1>2, <1>3, <1>4

LEMMA AtPosition ==
  ASSUME NEW bag \in SUBSET Nat, IsFiniteSet(bag), NEW v \in bag
  PROVE  At(bag, Position(v, bag)) = v
<1> DEFINE i == Position(v, bag)
<1>1. \E w \in bag : Position(w, bag) = i
  OBVIOUS
<1> HIDE DEF i
<1>2. At(bag, i) \in bag /\ Position(At(bag, i), bag) = i
  BY <1>1 DEF At
<1>3. Position(v, bag) = i
  BY DEF i
<1>4. At(bag, i) = v
  BY <1>2, <1>3, PositionOnce
<1> QED BY <1>3, <1>4

LEMMA PositionAt ==
  ASSUME NEW bag \in SUBSET Nat, IsFiniteSet(bag), NEW i \in 0 .. Cardinality(bag) - 1
  PROVE  At(bag, i) \in bag /\ Position(At(bag, i), bag) = i
<1> DEFINE I == 0 .. Cardinality(bag) - 1
           f == [v \in bag |-> Position(v, bag)]
<1>1. f \in Injection(bag, I)
  BY PositionRange, PositionOnce DEF Injection, IsInjective
<1>2. IsFiniteSet(I) /\ Cardinality(I) = Cardinality(bag)
  BY FS_CardinalityType, FS_Interval
<1> HIDE DEF I
<1>3. f \in Surjection(bag, I)
  BY <1>1, <1>2, FS_Injection
<1>4. PICK v \in bag : f[v] = i
  BY <1>3 DEF Surjection, I
<1>5. \E w \in bag : Position(w, bag) = i
  BY <1>4
<1> QED BY <1>5 DEF At

(***************************************************************************)
(* A new vertex moves those behind it up by one position.                  *)
(***************************************************************************)
Up(i, t) == IF i < t THEN i ELSE i + 1

LEMMA PositionAdded ==
  ASSUME NEW bag \in SUBSET Nat, IsFiniteSet(bag), NEW v \in Nat \ bag, NEW u \in bag
  PROVE  Position(u, bag \cup {v}) = Up(Position(u, bag), Position(v, bag \cup {v}))
<1> DEFINE new == bag \cup {v}
           below == {w \in bag : w < u}
<1>1. IsFiniteSet(new) /\ new \in SUBSET Nat
  BY FS_AddElement
<1>2. IsFiniteSet(below) /\ v \notin below
  BY BelowFinite
<1>3. CASE u < v
  <2>1. {w \in new : w < u} = below
    BY <1>3
  <2>2. Position(u, new) = Position(u, bag)
    BY <2>1 DEF Position
  <2>3. Position(u, new) < Position(v, new)
    BY <1>1, <1>3, PositionMonotone
  <2> QED BY <2>2, <2>3 DEF Up
<1>4. CASE v < u
  <2>1. {w \in new : w < u} = below \cup {v}
    BY <1>4
  <2>2. Position(u, new) = Position(u, bag) + 1
    BY <1>2, <2>1, FS_AddElement DEF Position
  <2>3. Position(v, new) < Position(u, new)
    BY <1>1, <1>4, PositionMonotone
  <2>4. Position(v, new) \in Nat /\ Position(u, bag) \in Nat
    BY <1>1, BelowFinite
  <2> QED BY <2>2, <2>3, <2>4 DEF Up
<1> QED BY <1>3, <1>4

LEMMA AtAdded ==
  ASSUME NEW bag \in SUBSET Nat, IsFiniteSet(bag), NEW v \in Nat \ bag
  PROVE  LET t == Position(v, bag \cup {v})
         IN /\ t \in 0 .. Cardinality(bag)
            /\ At(bag \cup {v}, t) = v
            /\ \A i \in 0 .. Cardinality(bag) - 1 :
                 At(bag \cup {v}, Up(i, t)) = At(bag, i)
<1> DEFINE new == bag \cup {v}
           t == Position(v, new)
<1>1. IsFiniteSet(new) /\ new \in SUBSET Nat /\ Cardinality(new) = Cardinality(bag) + 1
  BY FS_AddElement
<1>2. t \in 0 .. Cardinality(bag)
  BY <1>1, PositionRange, FS_CardinalityType
<1>3. At(new, t) = v
  BY <1>1, AtPosition
<1>4. ASSUME NEW i \in 0 .. Cardinality(bag) - 1
      PROVE  At(new, Up(i, t)) = At(bag, i)
  <2>1. At(bag, i) \in bag /\ Position(At(bag, i), bag) = i
    BY PositionAt
  <2>2. Position(At(bag, i), new) = Up(i, t)
    BY <2>1, PositionAdded
  <2>3. At(bag, i) \in new
    BY <2>1
  <2> HIDE DEF new
  <2>4. At(new, Position(At(bag, i), new)) = At(bag, i)
    BY <1>1, <2>3, AtPosition
  <2> QED BY <2>2, <2>4 DEF new
<1> QED BY <1>2, <1>3, <1>4

-----------------------------------------------------------------------------
(***************************************************************************)
(* The terminal moves that belong to a bag.                                *)
(***************************************************************************)
BagMove(bag, i) ==
  PointMove(i, {j \in 0 .. i - 1 : Adjacent(At(bag, j), At(bag, i))}, LabelsOf(At(bag, i)))

AlphaFor(alpha, bag) ==
  /\ DOMAIN alpha = LabelSyms \cup Terminals
  /\ \A i \in Terminals :
       alpha[i] = IF i < Cardinality(bag) THEN BagMove(bag, i) ELSE NULL

LEMMA UpCovers ==
  ASSUME NEW n \in Nat, NEW t \in 0 .. n, NEW k \in 0 .. n
  PROVE  k = t \/ \E j \in 0 .. n - 1 : k = Up(j, t)
<1>1. k < t => k \in 0 .. n - 1 /\ k = Up(k, t)
  BY DEF Up
<1>2. k > t => k - 1 \in 0 .. n - 1 /\ k = Up(k - 1, t)
  BY DEF Up
<1> QED BY <1>1, <1>2

(***************************************************************************)
(* What introducing v makes of the moves: those before it stay, its own is *)
(* new, and those behind it are renamed (update_pointmove_impl of          *)
(* ApplyIntroduce).                                                        *)
(***************************************************************************)
LEMMA MoveBefore ==
  ASSUME NEW bag \in SUBSET Nat, IsFiniteSet(bag), NEW v \in Nat \ bag,
         NEW i \in 0 .. Cardinality(bag) - 1, i < Position(v, bag \cup {v})
  PROVE  BagMove(bag \cup {v}, i) = BagMove(bag, i)
<1> DEFINE t == Position(v, bag \cup {v})
<1>1. Cardinality(bag) \in Nat
  BY FS_CardinalityType
<1>2. \A j \in 0 .. Cardinality(bag) - 1 : At(bag \cup {v}, Up(j, t)) = At(bag, j)
  BY AtAdded
<1>3. \A j \in 0 .. i : At(bag \cup {v}, j) = At(bag, j)
  <2> SUFFICES ASSUME NEW j \in 0 .. i PROVE At(bag \cup {v}, j) = At(bag, j)
    OBVIOUS
  <2>1. t \in Nat
    BY AtAdded, <1>1
  <2>2. Up(j, t) = j
    BY <2>1 DEF Up
  <2>3. j \in 0 .. Cardinality(bag) - 1
    BY <1>1
  <2> QED BY <1>2, <2>2, <2>3
<1>4. \A j \in 0 .. i - 1 : j \in 0 .. i
  OBVIOUS
<1>5. i \in 0 .. i
  OBVIOUS
<1> QED BY <1>3, <1>4, <1>5 DEF BagMove

LEMMA MoveOfNew ==
  ASSUME NEW bag \in SUBSET Nat, IsFiniteSet(bag), NEW v \in Nat \ bag
  PROVE  LET t == Position(v, bag \cup {v})
         IN BagMove(bag \cup {v}, t)
              = PointMove(t, {i \in 0 .. t - 1 : Adjacent(v, At(bag \cup {v}, i))}, LabelsOf(v))
<1>1. At(bag \cup {v}, Position(v, bag \cup {v})) = v
  BY AtAdded
<1>2. \A u : Adjacent(u, v) = Adjacent(v, u)
  <2> SUFFICES ASSUME NEW u PROVE Adjacent(u, v) = Adjacent(v, u)
    OBVIOUS
  <2>1. {u, v} = {v, u}
    OBVIOUS
  <2> QED BY <2>1 DEF Adjacent
<1> QED BY <1>1, <1>2 DEF BagMove

LEMMA MoveBehind ==
  ASSUME NEW bag \in SUBSET Nat, IsFiniteSet(bag), NEW v \in Nat \ bag,
         NEW i \in 0 .. Cardinality(bag) - 1, Position(v, bag \cup {v}) <= i
  PROVE  LET t == Position(v, bag \cup {v})
         IN RenameIntroduce(BagMove(bag, i), t, Adjacent(v, At(bag \cup {v}, i + 1)))
              = BagMove(bag \cup {v}, i + 1)
<1> DEFINE new == bag \cup {v}
           t == Position(v, new)
           E == {j \in 0 .. i - 1 : Adjacent(At(bag, j), At(bag, i))}
           F == {j \in 0 .. i : Adjacent(At(new, j), At(new, i + 1))}
           adjacent == Adjacent(v, At(new, i + 1))
<1>1. Cardinality(bag) \in Nat
  BY FS_CardinalityType
<1>2. /\ t \in Nat /\ At(new, t) = v
      /\ \A j \in 0 .. Cardinality(bag) - 1 : At(new, Up(j, t)) = At(bag, j)
  BY AtAdded, <1>1
<1>3. At(new, i + 1) = At(bag, i)
  BY <1>2 DEF Up
<1>4. \A j \in 0 .. i - 1 : At(new, Up(j, t)) = At(bag, j) /\ Up(j, t) \in 0 .. i /\ Up(j, t) # t
  <2> SUFFICES ASSUME NEW j \in 0 .. i - 1
               PROVE  At(new, Up(j, t)) = At(bag, j) /\ Up(j, t) \in 0 .. i /\ Up(j, t) # t
    OBVIOUS
  <2>1. j \in 0 .. Cardinality(bag) - 1
    BY <1>1
  <2>2. Up(j, t) \in 0 .. i /\ Up(j, t) # t
    BY <1>2 DEF Up
  <2> QED BY <1>2, <2>1, <2>2
<1> HIDE DEF new, t
<1>5. RenameUp(E, t, i - 1) = {Up(j, t) : j \in E}
  <2>1. \A j \in E : (IF j \in t .. i - 1 THEN j + 1 ELSE j) = Up(j, t)
    BY <1>2 DEF Up
  <2> HIDE DEF E
  <2> QED BY <2>1 DEF RenameUp
<1>6. F = {Up(j, t) : j \in E} \cup (IF adjacent THEN {t} ELSE {})
  <2>1. ASSUME NEW k \in F PROVE k \in {Up(j, t) : j \in E} \cup (IF adjacent THEN {t} ELSE {})
    <3>1. t \in 0 .. i
      BY <1>2 DEF t, new
    <3>2. CASE k = t
      BY <1>2, <3>2
    <3>3. CASE k # t
      <4>1. PICK j \in 0 .. i - 1 : k = Up(j, t)
        BY <3>1, <3>3, UpCovers
      <4>2. Adjacent(At(bag, j), At(bag, i))
        BY <1>3, <1>4, <4>1
      <4> QED BY <4>1, <4>2
    <3> QED BY <3>2, <3>3
  <2>2. ASSUME NEW j \in E PROVE Up(j, t) \in F
    BY <1>3, <1>4
  <2>3. adjacent => t \in F
    <3>1. t \in 0 .. i
      BY <1>2 DEF t, new
    <3> QED BY <1>2, <3>1
  <2> HIDE DEF E, F, adjacent
  <2> QED BY <2>1, <2>2, <2>3
<1> HIDE DEF E, F, adjacent
<1> DEFINE labels == LabelsOf(At(bag, i))
           up == RenameUp(E, t, i - 1)
<1>7. RenameIntroduce(PointMove(i, E, labels), t, adjacent) = PointMove(i + 1, F, labels)
  <2>1. RenamedBehind(PointMove(i, E, labels), t) = PointMove(i + 1, up, labels)
    <3> DEFINE move == PointMove(i, E, labels)
    <3>1. move.depth = i /\ move.edges = E
      BY DEF PointMove
    <3>2. RenamedBehind(move, t) = [move EXCEPT !.depth = i + 1, !.edges = up]
      BY <3>1 DEF RenamedBehind, up
    <3> QED BY <3>2 DEF PointMove
  <2>2. PointMove(i + 1, up, labels).edges \cup (IF adjacent THEN {t} ELSE {}) = F
    BY <1>5, <1>6 DEF PointMove
  <2> HIDE DEF up, labels
  <2>3. RenameIntroduce(PointMove(i, E, labels), t, adjacent)
          = [PointMove(i + 1, up, labels) EXCEPT !.edges = F]
    BY <2>1, <2>2 DEF RenameIntroduce
  <2> QED BY <2>3 DEF PointMove
<1>8. BagMove(bag, i) = PointMove(i, E, labels)
  BY DEF BagMove, E
<1>9. BagMove(new, i + 1) = PointMove(i + 1, F, labels)
  <2>1. (i + 1) - 1 = i
    OBVIOUS
  <2> QED BY <1>3, <2>1 DEF BagMove, F
<1> QED BY <1>7, <1>8, <1>9 DEF new, t, adjacent

LEMMA MoveIsNoNull ==
  ASSUME problem \in Problems, NEW bag, NEW i \in Int
  PROVE  BagMove(bag, i) # NULL
<1>1. LabelSyms \subseteq Int
  BY GameTablesAssumption DEF LabelSyms
<1>2. LabelsOf(At(bag, i)) \in SUBSET Int
  BY <1>1 DEF LabelsOf
<1>3. {j \in 0 .. i - 1 : Adjacent(At(bag, j), At(bag, i))} \in SUBSET Int
  OBVIOUS
<1>4. BagMove(bag, i) \in [depth : Int, edges : SUBSET Int, labels : SUBSET Int]
  BY <1>2, <1>3 DEF BagMove, PointMove
<1> QED BY <1>4, GameTablesAssumption

(***************************************************************************)
(* A node of the decomposition with its terminal moves.                    *)
(***************************************************************************)
NodeOK(n) ==
  /\ n.seen \subseteq Vertices /\ n.bag \subseteq n.seen
  /\ Cardinality(n.bag) <= Width
  /\ AlphaFor(n.alpha, n.bag)

LEMMA BagFinite ==
  ASSUME NEW bag \in SUBSET Vertices
  PROVE  bag \in SUBSET Nat /\ IsFiniteSet(bag) /\ Cardinality(bag) \in Nat
BY GameTablesAssumption, FS_Subset, FS_CardinalityType

LEMMA IntroducedAlpha ==
  ASSUME problem \in Problems, NodeOK(node), Cardinality(node.bag) < Width,
         NEW v \in Vertices, v \notin node.seen
  PROVE  LET bag == node.bag \cup {v}
         IN AlphaFor(AlphaIntroduced(v, bag, Position(v, bag)), bag)
<1> DEFINE old == node.bag
           bag == old \cup {v}
           t == Position(v, bag)
           alpha == AlphaIntroduced(v, bag, t)
<1>1. /\ old \in SUBSET Nat /\ IsFiniteSet(old) /\ Cardinality(old) \in Nat
      /\ v \in Nat \ old /\ Cardinality(bag) = Cardinality(old) + 1
  BY BagFinite, GameTablesAssumption, FS_AddElement DEF NodeOK
<1>2. t \in 0 .. Cardinality(old)
  BY <1>1, AtAdded
<1>3. Width \in Nat \ {0} /\ Terminals = 0 .. Width - 1
  BY WidthAssumption DEF Terminals
<1>4. DOMAIN node.alpha = LabelSyms \cup Terminals
  BY DEF NodeOK, AlphaFor
<1>5. \A i \in Terminals :
        node.alpha[i] = IF i < Cardinality(old) THEN BagMove(old, i) ELSE NULL
  BY DEF NodeOK, AlphaFor
<1>6. ASSUME NEW i \in Terminals
      PROVE  alpha[i] = IF i < Cardinality(bag) THEN BagMove(bag, i) ELSE NULL
  <2>1. alpha[i] = IF i < t THEN node.alpha[i]
                   ELSE IF i = t
                   THEN PointMove(t, {j \in 0 .. t - 1 : Adjacent(v, At(bag, j))}, LabelsOf(v))
                   ELSE IF node.alpha[i - 1] = NULL THEN NULL
                   ELSE RenameIntroduce(node.alpha[i - 1], t, Adjacent(v, At(bag, i)))
    BY <1>4 DEF AlphaIntroduced
  <2> HIDE DEF alpha
  <2>2. CASE i < t
    <3>1. i \in 0 .. Cardinality(old) - 1 /\ i < Cardinality(bag)
      BY <1>1, <1>2, <1>3, <2>2
    <3>2. BagMove(bag, i) = BagMove(old, i)
      BY <1>1, <2>2, <3>1, MoveBefore
    <3>3. node.alpha[i] = BagMove(old, i)
      BY <1>1, <1>5, <3>1
    <3> QED BY <2>1, <2>2, <3>1, <3>2, <3>3
  <2>3. CASE i = t
    <3>1. t < Cardinality(bag) /\ ~(t < t)
      BY <1>1, <1>2
    <3>2. BagMove(bag, t)
            = PointMove(t, {j \in 0 .. t - 1 : Adjacent(v, At(bag, j))}, LabelsOf(v))
      BY <1>1, MoveOfNew
    <3> HIDE DEF bag, t
    <3> QED BY <2>1, <2>3, <3>1, <3>2
  <2>4. CASE i > t
    <3>1. i - 1 \in Terminals /\ i - 1 \in Int /\ ~(i < t) /\ i # t /\ t <= i - 1 /\ (i - 1) + 1 = i
      BY <1>1, <1>2, <1>3, <2>4
    <3>2. CASE i < Cardinality(bag)
      <4>1. i - 1 \in 0 .. Cardinality(old) - 1 /\ i - 1 < Cardinality(old)
        BY <1>1, <1>2, <1>3, <2>4, <3>2
      <4>2. node.alpha[i - 1] = BagMove(old, i - 1)
        BY <1>5, <3>1, <4>1
      <4>3. BagMove(old, i - 1) # NULL
        BY <3>1, MoveIsNoNull
      <4>4. RenameIntroduce(BagMove(old, i - 1), t, Adjacent(v, At(bag, (i - 1) + 1)))
              = BagMove(bag, (i - 1) + 1)
        BY <1>1, <3>1, <4>1, MoveBehind
      <4> HIDE DEF bag, t, old
      <4> QED BY <2>1, <3>1, <3>2, <4>2, <4>3, <4>4
    <3>3. CASE ~(i < Cardinality(bag))
      <4>1. ~(i - 1 < Cardinality(old))
        BY <1>1, <1>3, <3>3
      <4>2. node.alpha[i - 1] = NULL
        BY <1>5, <3>1, <4>1
      <4> HIDE DEF bag, t, old
      <4> QED BY <2>1, <3>1, <3>3, <4>2
    <3> QED BY <3>2, <3>3
  <2>5. i < t \/ i = t \/ i > t
    BY <1>2, <1>3
  <2> QED BY <2>2, <2>3, <2>4, <2>5
<1>7. DOMAIN alpha = LabelSyms \cup Terminals
  BY <1>4 DEF AlphaIntroduced
<1> HIDE DEF alpha
<1>8. AlphaFor(alpha, bag)
  BY <1>6, <1>7 DEF AlphaFor
<1> QED BY <1>8 DEF alpha

LEMMA ForgottenMove ==
  ASSUME NEW bag \in SUBSET Nat, IsFiniteSet(bag), NEW v \in Nat \ bag,
         NEW i \in 0 .. Cardinality(bag) - 1, Position(v, bag \cup {v}) <= i
  PROVE  RenameForget(BagMove(bag \cup {v}, i + 1), Position(v, bag \cup {v})) = BagMove(bag, i)
<1> DEFINE t == Position(v, bag \cup {v})
           E == {j \in 0 .. i - 1 : Adjacent(At(bag, j), At(bag, i))}
           adjacent == Adjacent(v, At(bag \cup {v}, i + 1))
<1>1. BagMove(bag \cup {v}, i + 1) = RenameIntroduce(BagMove(bag, i), t, adjacent)
  BY MoveBehind
<1>2. t \in 0 .. i /\ i \in Nat
  BY AtAdded, FS_CardinalityType
<1>3. E \in SUBSET (0 .. i - 1)
  OBVIOUS
<1>4. adjacent \in BOOLEAN
  BY DEF Adjacent
<1>5. BagMove(bag, i) = PointMove(i, E, LabelsOf(At(bag, i)))
  BY DEF BagMove
<1> HIDE DEF t, E, adjacent
<1>6. RenameForget(RenameIntroduce(PointMove(i, E, LabelsOf(At(bag, i))), t, adjacent), t)
        = PointMove(i, E, LabelsOf(At(bag, i)))
  BY <1>2, <1>3, <1>4, RenameForgetUndoesIntroduce
<1> QED BY <1>1, <1>5, <1>6 DEF t

LEMMA ForgottenAlpha ==
  ASSUME problem \in Problems, NodeOK(node), NEW v \in node.bag
  PROVE  AlphaFor(AlphaForgotten(Position(v, node.bag)), node.bag \ {v})
<1> DEFINE bag == node.bag
           old == bag \ {v}
           t == Position(v, bag)
           alpha == AlphaForgotten(t)
<1>1. /\ old \in SUBSET Nat /\ IsFiniteSet(old) /\ Cardinality(old) \in Nat
      /\ v \in Nat \ old /\ Cardinality(bag) = Cardinality(old) + 1
      /\ bag = old \cup {v}
  <2>1. bag \in SUBSET Vertices
    BY DEF NodeOK
  <2>2. bag \in SUBSET Nat /\ IsFiniteSet(bag) /\ Cardinality(bag) \in Nat
    BY <2>1, BagFinite
  <2>3. IsFiniteSet(old) /\ Cardinality(old) = Cardinality(bag) - 1
    BY <2>2, FS_RemoveElement
  <2>4. Cardinality(old) \in Nat
    BY <2>3, FS_CardinalityType
  <2> QED BY <2>2, <2>3, <2>4
<1>2. t \in 0 .. Cardinality(old)
  BY <1>1, AtAdded
<1>3. Width \in Nat \ {0} /\ Terminals = 0 .. Width - 1 /\ Cardinality(bag) <= Width
  BY WidthAssumption DEF Terminals, NodeOK
<1>4. DOMAIN node.alpha = LabelSyms \cup Terminals
  BY DEF NodeOK, AlphaFor
<1>5. \A i \in Terminals :
        node.alpha[i] = IF i < Cardinality(bag) THEN BagMove(bag, i) ELSE NULL
  BY DEF NodeOK, AlphaFor
<1>6. ASSUME NEW i \in Terminals
      PROVE  alpha[i] = IF i < Cardinality(old) THEN BagMove(old, i) ELSE NULL
  <2>1. alpha[i] = IF i < t THEN node.alpha[i]
                   ELSE IF i = Width - 1 \/ node.alpha[i + 1] = NULL THEN NULL
                   ELSE RenameForget(node.alpha[i + 1], t)
    BY <1>4 DEF AlphaForgotten
  <2> HIDE DEF alpha
  <2>2. CASE i < t
    <3>1. i \in 0 .. Cardinality(old) - 1 /\ i < Cardinality(bag) /\ i < Cardinality(old)
      BY <1>1, <1>2, <1>3, <2>2
    <3>2. BagMove(bag, i) = BagMove(old, i)
      BY <1>1, <2>2, <3>1, MoveBefore
    <3>3. node.alpha[i] = BagMove(bag, i)
      BY <1>5, <3>1
    <3> HIDE DEF bag, t, old
    <3> QED BY <2>1, <2>2, <3>1, <3>2, <3>3
  <2>3. CASE ~(i < t) /\ i < Cardinality(old)
    <3>1. /\ i \in 0 .. Cardinality(old) - 1 /\ t <= i /\ i # Width - 1
          /\ i + 1 \in Terminals /\ i + 1 < Cardinality(bag) /\ i + 1 \in Int
      BY <1>1, <1>2, <1>3, <2>3
    <3>2. node.alpha[i + 1] = BagMove(bag, i + 1)
      BY <1>5, <3>1
    <3>3. BagMove(bag, i + 1) # NULL
      BY <3>1, MoveIsNoNull
    <3>4. RenameForget(BagMove(bag, i + 1), t) = BagMove(old, i)
      <4>1. t = Position(v, old \cup {v})
        BY <1>1
      <4> HIDE DEF bag, t, old
      <4> QED BY <1>1, <3>1, <4>1, ForgottenMove
    <3> HIDE DEF bag, t, old
    <3> QED BY <2>1, <2>3, <3>1, <3>2, <3>3, <3>4
  <2>4. CASE ~(i < t) /\ ~(i < Cardinality(old))
    <3>1. i = Width - 1 \/ (i + 1 \in Terminals /\ ~(i + 1 < Cardinality(bag)))
      BY <1>1, <1>3, <2>4
    <3>2. i = Width - 1 \/ node.alpha[i + 1] = NULL
      BY <1>5, <3>1
    <3> HIDE DEF bag, t, old
    <3> QED BY <2>1, <2>4, <3>2
  <2> QED BY <2>2, <2>3, <2>4
<1>7. DOMAIN alpha = LabelSyms \cup Terminals
  BY <1>4 DEF AlphaForgotten
<1> HIDE DEF alpha
<1>8. AlphaFor(alpha, old)
  BY <1>6, <1>7 DEF AlphaFor
<1> QED BY <1>8 DEF alpha

-----------------------------------------------------------------------------
NodesInv ==
  /\ problem \in Problems
  /\ NodeOK(node)
  /\ left = NULL \/ NodeOK(left)

LEMMA LeafOK == NodeOK(LeafNode)
<1>1. Cardinality({}) = 0 /\ Width \in Nat
  BY FS_EmptySet, WidthAssumption
<1>2. ASSUME NEW i \in Terminals PROVE ~(i < 0) /\ i \notin LabelSyms
  BY <1>2 DEF Terminals, LabelSyms
<1>3. LeafNode.alpha = [s \in LabelSyms \cup Terminals |->
                          IF s \in LabelSyms THEN SetMove(s, {}) ELSE NULL]
  BY DEF LeafNode
<1>4. AlphaFor(LeafNode.alpha, {})
  BY <1>1, <1>2, <1>3 DEF AlphaFor
<1>5. LeafNode.bag = {} /\ LeafNode.seen = {}
  BY DEF LeafNode
<1> QED BY <1>1, <1>4, <1>5 DEF NodeOK

(* The new node of an introduce, forget or join: what becomes of its bag.  *)
LEMMA NodesNext == NodesInv /\ [Next]_vars => NodesInv'
<1> SUFFICES ASSUME NodesInv, [Next]_vars PROVE NodesInv'
  OBVIOUS
<1> USE DEF NodesInv
<1>1. ASSUME NEW v \in Vertices, DoIntroduce(v) PROVE NodesInv'
  <2> DEFINE bag == node.bag \cup {v}
             t == Position(v, bag)
  <2>1. /\ node'.bag = bag /\ node'.seen = node.seen \cup {v}
        /\ node'.alpha = AlphaIntroduced(v, bag, t)
        /\ v \notin node.seen /\ Cardinality(node.bag) < Width
        /\ UNCHANGED <<problem, graph, left>>
    BY <1>1 DEF DoIntroduce, input
  <2>2. AlphaFor(AlphaIntroduced(v, bag, t), bag)
    BY <2>1, IntroducedAlpha
  <2>3. Cardinality(bag) <= Width
    <3>1. node.bag \in SUBSET Vertices
      BY DEF NodeOK
    <3>2. IsFiniteSet(node.bag) /\ Cardinality(node.bag) \in Nat /\ v \notin node.bag
      BY <2>1, <3>1, BagFinite DEF NodeOK
    <3>3. Cardinality(bag) = Cardinality(node.bag) + 1
      BY <3>2, FS_AddElement
    <3> QED BY <2>1, <3>2, <3>3, WidthAssumption
  <2>4. bag \subseteq node.seen \cup {v} /\ node.seen \cup {v} \subseteq Vertices
    BY DEF NodeOK
  <2> HIDE DEF bag, t
  <2>5. AlphaFor(node.alpha, node.bag)'
    BY <2>1, <2>2 DEF AlphaFor, BagMove, LabelSyms, Terminals, Adjacent, LabelsOf, At, Position
  <2>6. NodeOK(left)' = NodeOK(left)
    BY <2>1 DEF NodeOK, AlphaFor, BagMove, LabelSyms, Terminals, Adjacent, LabelsOf, At, Position
  <2> QED BY <2>1, <2>3, <2>4, <2>5, <2>6 DEF NodeOK
<1>2. ASSUME NEW v \in Vertices, DoForget(v) PROVE NodesInv'
  <2> DEFINE bag == node.bag \ {v}
             t == Position(v, node.bag)
  <2>1. /\ node'.bag = bag /\ node'.seen = node.seen
        /\ node'.alpha = AlphaForgotten(t)
        /\ v \in node.bag
        /\ UNCHANGED <<problem, graph, left>>
    BY <1>2 DEF DoForget, input
  <2>2. AlphaFor(AlphaForgotten(t), bag)
    BY <2>1, ForgottenAlpha
  <2>3. Cardinality(bag) <= Width
    <3>1. node.bag \in SUBSET Vertices /\ bag \in SUBSET node.bag
      BY DEF NodeOK
    <3>2. IsFiniteSet(node.bag) /\ Cardinality(node.bag) \in Nat
      BY <3>1, BagFinite
    <3>3. Cardinality(bag) <= Cardinality(node.bag) /\ IsFiniteSet(bag)
      BY <3>1, <3>2, FS_Subset
    <3>4. Cardinality(bag) \in Nat
      BY <3>3, FS_CardinalityType
    <3> QED BY <3>2, <3>3, <3>4, WidthAssumption DEF NodeOK
  <2>4. bag \subseteq node.seen /\ node.seen \subseteq Vertices
    BY DEF NodeOK
  <2> HIDE DEF bag, t
  <2>5. AlphaFor(node.alpha, node.bag)'
    BY <2>1, <2>2 DEF AlphaFor, BagMove, LabelSyms, Terminals, Adjacent, LabelsOf, At, Position
  <2>6. NodeOK(left)' = NodeOK(left)
    BY <2>1 DEF NodeOK, AlphaFor, BagMove, LabelSyms, Terminals, Adjacent, LabelsOf, At, Position
  <2> QED BY <2>1, <2>3, <2>4, <2>5, <2>6 DEF NodeOK
<1>3. CASE DoLeaf
  <2>1. left' = node /\ node' = LeafNode /\ UNCHANGED <<problem, graph>>
    BY <1>3 DEF DoLeaf, input
  <2>2. NodeOK(left)'
    BY <2>1 DEF NodeOK, AlphaFor, BagMove, LabelSyms, Terminals, Adjacent, LabelsOf, At, Position
  <2>3. NodeOK(node)'
    BY <2>1, LeafOK DEF NodeOK, AlphaFor, BagMove, LabelSyms, Terminals, Adjacent, LabelsOf, At, Position
  <2> QED BY <2>1, <2>2, <2>3
<1>4. CASE DoJoin
  <2>1. /\ node'.bag = node.bag /\ node'.seen = left.seen \cup node.seen
        /\ node'.alpha = left.alpha
        /\ left # NULL /\ left.bag = node.bag
        /\ left' = NULL /\ UNCHANGED <<problem, graph>>
    BY <1>4 DEF DoJoin, Joinable, input
  <2>2. AlphaFor(left.alpha, node.bag)
    BY <2>1 DEF NodeOK
  <2>3. AlphaFor(node.alpha, node.bag)'
    BY <2>1, <2>2 DEF AlphaFor, BagMove, LabelSyms, Terminals, Adjacent, LabelsOf, At, Position
  <2> QED BY <2>1, <2>3 DEF NodeOK
<1>5. CASE AbortJoin \/ DoRoot \/ UNCHANGED vars
  <2>1. UNCHANGED <<problem, graph, node, left>>
    BY <1>5 DEF AbortJoin, DoRoot, vars, input
  <2> QED BY <2>1 DEF NodeOK, AlphaFor, BagMove, LabelSyms, Terminals, Adjacent, LabelsOf, At, Position
<1> QED BY <1>1, <1>2, <1>3, <1>4, <1>5 DEF Next

LEMMA NodesHold == Spec => []NodesInv
<1>1. Init => NodesInv
  BY LeafOK DEF Init, NodesInv
<1> QED BY <1>1, NodesNext, PTL DEF Spec

(***************************************************************************)
(* However the vertices of a bag were renumbered on the way, the terminal  *)
(* moves say which of them are adjacent and how they are labelled          *)
(* (update_pointmove_impl, rename_introduce, rename_forget): for every     *)
(* graph, decomposition and width.                                         *)
(***************************************************************************)
THEOREM GameTablesAlpha == Spec => []AlphaIsTheBag
<1>1. NodesInv => AlphaIsTheBag
  BY DEF NodesInv, NodeOK, AlphaFor, AlphaIsTheBag, BagMove
<1> QED BY <1>1, NodesHold, PTL

-----------------------------------------------------------------------------
(***************************************************************************)
(* One variable of a solution: X is its set, M the members of its move.    *)
(***************************************************************************)
PositionsIn(X, bag) == {Position(u, bag) : u \in X \cap bag}

LEMMA PositionsDecide ==
  ASSUME NEW bag \in SUBSET Nat, IsFiniteSet(bag), NEW X, NEW u \in bag
  PROVE  Position(u, bag) \in PositionsIn(X, bag) <=> u \in X
BY PositionOnce DEF PositionsIn

LEMMA SamePositions ==
  ASSUME NEW bag \in SUBSET Nat, IsFiniteSet(bag), NEW X, NEW Y,
         PositionsIn(X, bag) = PositionsIn(Y, bag)
  PROVE  X \cap bag = Y \cap bag
BY PositionsDecide

(* An introduce adds the new vertex to the members of the variables sets.  *)
NewMembers(M, t, U, sets) == {Up(m, t) : m \in M} \cup (IF U \in sets THEN {t} ELSE {})
NewVertex(v, U, sets) == IF U \in sets THEN {v} ELSE {}
InBag(bag, M) == {w \in bag : Position(w, bag) \in M}

LEMMA MembersIntroduced ==
  ASSUME NEW d, NEW M \in SUBSET (0 .. SignatureDepth - 1), NEW t \in Nat, NEW U, NEW sets
  PROVE  SetIntroduce([depth |-> d, members |-> M], t, U \in sets)
           = [depth |-> d, members |-> NewMembers(M, t, U, sets)]
<1> DEFINE D == SignatureDepth - 1
           new == NewMembers(M, t, U, sets)
<1>1. D \in Int
  BY WidthAssumption DEF SignatureDepth
<1>2. RenameUp(M, t, D) = {Up(m, t) : m \in M}
  <2>1. \A m \in M : (IF m \in t .. D THEN m + 1 ELSE m) = Up(m, t)
    BY <1>1 DEF Up
  <2> HIDE DEF D
  <2> QED BY <2>1 DEF RenameUp
<1>3. SetIntroduce([depth |-> d, members |-> M], t, U \in sets)
        = [[depth |-> d, members |-> M] EXCEPT !.members = new]
  BY <1>2 DEF SetIntroduce, NewMembers
<1> HIDE DEF new
<1>4. [[depth |-> d, members |-> M] EXCEPT !.members = new] = [depth |-> d, members |-> new]
  OBVIOUS
<1> QED BY <1>3, <1>4 DEF new

ExtendsSet(X, bag, v, U, sets) ==
  LET new == bag \cup {v}
      M   == NewMembers(PositionsIn(X, bag), Position(v, new), U, sets)
  IN /\ X \cup InBag(new, M) = X \cup NewVertex(v, U, sets)
     /\ PositionsIn(X \cup InBag(new, M), new) = M

LEMMA SetIntroduced ==
  ASSUME NEW bag \in SUBSET Nat, IsFiniteSet(bag), NEW v \in Nat, NEW seen, bag \subseteq seen,
         v \notin seen, NEW X \in SUBSET seen, NEW U, NEW sets
  PROVE  ExtendsSet(X, bag, v, U, sets)
<1> DEFINE new == bag \cup {v}
           t == Position(v, new)
           M == NewMembers(PositionsIn(X, bag), t, U, sets)
           Y == (X \cap bag) \cup NewVertex(v, U, sets)
<1>1. new \in SUBSET Nat /\ IsFiniteSet(new) /\ v \in new /\ v \in Nat \ bag
  BY FS_AddElement
<1>2. \A u \in bag : Position(u, new) = Up(Position(u, bag), t)
  BY <1>1, PositionAdded
<1>3. M = PositionsIn(Y, new)
  <2>1. {Up(m, t) : m \in PositionsIn(X, bag)} = {Position(u, new) : u \in X \cap bag}
    BY <1>2 DEF PositionsIn
  <2>2. Y \cap new = Y
    BY DEF NewVertex
  <2>3. CASE U \in sets
    <3>1. Y = (X \cap bag) \cup {v} /\ M = {Position(u, new) : u \in X \cap bag} \cup {t}
      BY <2>1, <2>3 DEF NewVertex, NewMembers
    <3> HIDE DEF Y, M, new
    <3> QED BY <2>2, <3>1 DEF PositionsIn, t
  <2>4. CASE U \notin sets
    <3>1. Y = X \cap bag /\ M = {Position(u, new) : u \in X \cap bag}
      BY <2>1, <2>4 DEF NewVertex, NewMembers
    <3> HIDE DEF Y, M, new
    <3> QED BY <2>2, <3>1 DEF PositionsIn
  <2> QED BY <2>3, <2>4
<1>4. InBag(new, M) = Y
  <2>1. \A w \in new : Position(w, new) \in PositionsIn(Y, new) <=> w \in Y
    BY <1>1, PositionsDecide
  <2>2. Y \subseteq new
    BY DEF NewVertex
  <2> HIDE DEF Y, M, new
  <2> QED BY <1>3, <2>1, <2>2 DEF InBag
<1> DEFINE Z == X \cup InBag(new, M)
<1>5. Z = X \cup NewVertex(v, U, sets)
  BY <1>4
<1>6. Z \cap new = Y \cap new
  <2>1. X \cap new \subseteq X \cap bag
    OBVIOUS
  <2> HIDE DEF M, new
  <2> QED BY <1>4, <2>1
<1>7. PositionsIn(Z, new) = M
  <2> HIDE DEF Z, Y, M, new
  <2> QED BY <1>3, <1>6 DEF PositionsIn
<1> QED BY <1>5, <1>7 DEF ExtendsSet

(* A forget takes the vertex out of the members.                           *)
LEMMA MembersForgotten ==
  ASSUME NEW bag \in SUBSET Nat, IsFiniteSet(bag), Cardinality(bag) < Width,
         NEW v \in Nat \ bag, NEW X, NEW d
  PROVE  LET new == bag \cup {v}
         IN SetForget([depth |-> d, members |-> PositionsIn(X, new)], Position(v, new))
              = [depth |-> d, members |-> PositionsIn(X, bag)]
<1> DEFINE new == bag \cup {v}
           t == Position(v, new)
           M == PositionsIn(X, new)
           down(i) == IF i \in t + 1 .. SignatureDepth THEN i - 1 ELSE i
<1>1. new \in SUBSET Nat /\ IsFiniteSet(new) /\ v \in new /\ Cardinality(bag) \in Nat
  BY FS_AddElement, FS_CardinalityType
<1>2. t \in Nat /\ SignatureDepth = Width - 1 /\ Width \in Nat
  BY <1>1, AtAdded, WidthAssumption DEF SignatureDepth
<1>3. \A u \in bag : Position(u, new) = Up(Position(u, bag), t) /\ Position(u, bag) \in 0 .. Width - 2
  <2> SUFFICES ASSUME NEW u \in bag
               PROVE  /\ Position(u, new) = Up(Position(u, bag), t)
                      /\ Position(u, bag) \in 0 .. Width - 2
    OBVIOUS
  <2>1. Position(u, bag) \in 0 .. Cardinality(bag) - 1
    BY PositionRange
  <2> QED BY <1>1, <1>2, <2>1, PositionAdded
<1>4. \A u \in bag : Position(u, new) # t /\ down(Position(u, new)) = Position(u, bag)
  <2> SUFFICES ASSUME NEW u \in bag
               PROVE  Position(u, new) # t /\ down(Position(u, new)) = Position(u, bag)
    OBVIOUS
  <2> DEFINE p == Position(u, bag)
  <2>1. p \in 0 .. Width - 2 /\ Position(u, new) = Up(p, t)
    BY <1>3
  <2> HIDE DEF p, t, new
  <2>2. Up(p, t) # t /\ down(Up(p, t)) = p
    BY <1>2, <2>1 DEF Up
  <2> QED BY <2>1, <2>2 DEF p
<1>5. M \ {t} = {Position(u, new) : u \in X \cap bag}
  BY <1>4 DEF PositionsIn
<1>6. RenameDown(M \ {t}, t + 1, SignatureDepth) = PositionsIn(X, bag)
  <2>1. RenameDown(M \ {t}, t + 1, SignatureDepth)
          = {down(i) : i \in {Position(u, new) : u \in X \cap bag}}
    BY <1>5 DEF RenameDown
  <2> HIDE DEF down, new, t
  <2>2. {down(i) : i \in {Position(u, new) : u \in X \cap bag}} = {Position(u, bag) : u \in X \cap bag}
    BY <1>4
  <2> QED BY <2>1, <2>2 DEF PositionsIn
<1> DEFINE N == RenameDown(M \ {t}, t + 1, SignatureDepth)
<1>7. SetForget([depth |-> d, members |-> M], t)
        = [[depth |-> d, members |-> M] EXCEPT !.members = N]
  BY DEF SetForget
<1> HIDE DEF N, M, t
<1>8. [[depth |-> d, members |-> M] EXCEPT !.members = N] = [depth |-> d, members |-> N]
  OBVIOUS
<1> QED BY <1>6, <1>7, <1>8 DEF N, M, t

-----------------------------------------------------------------------------
(***************************************************************************)
(* A solution x matches the assignment free of its entry.                  *)
(***************************************************************************)
IsFree(free) == free \in [FreeVars -> [depth : Int, members : SUBSET Int]]

Match(free, x, bag, seen) ==
  /\ x \in [FreeVars -> SUBSET seen]
  /\ \A U \in FreeVars : PositionsIn(x[U], bag) = free[U].members

TableFor(table, bag, seen) ==
  /\ \A k \in DOMAIN table : /\ k = <<k[1], k[2]>> /\ IsFree(k[1])
                             /\ \A x \in table[k] : Match(k[1], x, bag, seen)
  /\ \A k1, k2 \in DOMAIN table : \A x : x \in table[k1] /\ x \in table[k2] => k1 = k2

(* The same of results that are still to be entered.                       *)
ResultsFor(results, bag, seen) ==
  /\ \A r \in results : IsFree(r.free) /\ \A x \in r.value : Match(r.free, x, bag, seen)
  /\ \A r1, r2 \in results : \A x :
       x \in r1.value /\ x \in r2.value => r1.free = r2.free /\ r1.game = r2.game

LEMMA TableOfResults ==
  ASSUME NEW results, NEW bag, NEW seen, ResultsFor(results, bag, seen)
  PROVE  TableFor(Table(results), bag, seen)
<1> DEFINE table == Table(results)
           from(k) == {r \in results : r.free = k[1] /\ r.game = k[2]}
<1>1. DOMAIN table = {<<r.free, r.game>> : r \in Kept(results)}
  BY DEF Table
<1>2. \A k \in DOMAIN table : table[k] = UNION {r.value : r \in from(k)}
  BY DEF Table
<1>3. ASSUME NEW k \in DOMAIN table
      PROVE  k = <<k[1], k[2]>> /\ \E r \in results : k = <<r.free, r.game>>
  <2>1. PICK r \in Kept(results) : k = <<r.free, r.game>>
    BY <1>1
  <2>2. r \in results
    BY DEF Kept
  <2>3. k[1] = r.free /\ k[2] = r.game
    BY <2>1
  <2> QED BY <2>1, <2>2, <2>3
<1>4. ASSUME NEW k \in DOMAIN table, NEW x \in table[k]
      PROVE  \E r \in results : r.free = k[1] /\ r.game = k[2] /\ x \in r.value
  BY <1>2
<1> HIDE DEF table
<1>5. ASSUME NEW k \in DOMAIN table PROVE IsFree(k[1])
  <2>1. PICK r \in results : k = <<r.free, r.game>>
    BY <1>3
  <2>2. k[1] = r.free
    BY <2>1
  <2> QED BY <2>2 DEF ResultsFor
<1>6. ASSUME NEW k \in DOMAIN table, NEW x \in table[k] PROVE Match(k[1], x, bag, seen)
  BY <1>4 DEF ResultsFor
<1>7. ASSUME NEW k1 \in DOMAIN table, NEW k2 \in DOMAIN table, NEW x,
             x \in table[k1], x \in table[k2]
      PROVE  k1 = k2
  <2>1. PICK r1 \in results : r1.free = k1[1] /\ r1.game = k1[2] /\ x \in r1.value
    BY <1>4, <1>7
  <2>2. PICK r2 \in results : r2.free = k2[1] /\ r2.game = k2[2] /\ x \in r2.value
    BY <1>4, <1>7
  <2>3. k1[1] = k2[1] /\ k1[2] = k2[2]
    BY <2>1, <2>2 DEF ResultsFor
  <2>4. k1 = <<k1[1], k1[2]>> /\ k2 = <<k2[1], k2[2]>>
    BY <1>3
  <2> QED BY <2>3, <2>4
<1> QED BY <1>3, <1>5, <1>6, <1>7 DEF TableFor, table

(***************************************************************************)
(* Introducing v: the solution says for every variable whether v is in it. *)
(***************************************************************************)
LEMMA FreeOfMove ==
  ASSUME NEW m \in [depth : Int, members : SUBSET Int]
  PROVE  m = [depth |-> m.depth, members |-> m.members]
OBVIOUS

Joint(x, y) == [U \in FreeVars |-> x[U] \cup y[U]]
Extended(x, bag, free) == [U \in FreeVars |-> x[U] \cup InBag(bag, free[U].members)]

ExtendedBy(y, x, v, sets) == \A U \in FreeVars : y[U] = x[U] \cup NewVertex(v, U, sets)

AllExtended(S, bag, free) == {Extended(x, bag, free) : x \in S}

LEMMA MultElem ==
  ASSUME NEW S, NEW bag, NEW free
  PROVE  Mult(S, Elem(bag, free)) = AllExtended(S, bag, free)
<1> DEFINE e == [U \in FreeVars |-> {w \in bag : Position(w, bag) \in free[U].members}]
<1>1. Elem(bag, free) = {e}
  BY DEF Elem
<1>2. \A x : Joint(x, e) = Extended(x, bag, free)
  BY DEF Joint, Extended, InBag
<1> HIDE DEF e
<1>3. ASSUME NEW z PROVE z \in Mult(S, Elem(bag, free)) <=> \E x \in S : z = Joint(x, e)
  BY <1>1 DEF Mult, Joint
<1>4. ASSUME NEW z
      PROVE  z \in AllExtended(S, bag, free) <=> \E x \in S : z = Extended(x, bag, free)
  BY DEF AllExtended
<1>5. \A z : z \in Mult(S, Elem(bag, free)) <=> z \in AllExtended(S, bag, free)
  BY <1>2, <1>3, <1>4
<1> QED BY <1>5

LEMMA OneIntroduced ==
  ASSUME NodeOK(node), Cardinality(node.bag) < Width,
         NEW v \in Vertices, v \notin node.seen,
         NEW free, IsFree(free), NEW x, Match(free, x, node.bag, node.seen),
         NEW sets \in SUBSET FreeVars
  PROVE  LET bag == node.bag \cup {v}
             new == FreeIntroduced(free, Position(v, bag), sets)
         IN /\ Match(new, Extended(x, bag, new), bag, node.seen \cup {v})
            /\ ExtendedBy(Extended(x, bag, new), x, v, sets)
<1> DEFINE bag == node.bag \cup {v}
           t == Position(v, bag)
           new == FreeIntroduced(free, t, sets)
           z == Extended(x, bag, new)
<1>1. /\ node.bag \in SUBSET Nat /\ IsFiniteSet(node.bag) /\ Cardinality(node.bag) \in Nat
      /\ v \in Nat /\ node.bag \subseteq node.seen
  BY BagFinite, GameTablesAssumption DEF NodeOK
<1>2. t \in Nat
  BY <1>1, AtAdded
<1>3. ASSUME NEW U \in FreeVars
      PROVE  /\ z[U] = x[U] \cup NewVertex(v, U, sets)
             /\ PositionsIn(z[U], bag) = new[U].members
  <2> DEFINE M == PositionsIn(x[U], node.bag)
             M1 == NewMembers(M, t, U, sets)
  <2>1. free[U] = [depth |-> free[U].depth, members |-> M]
    BY FreeOfMove DEF IsFree, Match
  <2>2. M \in SUBSET (0 .. SignatureDepth - 1)
    <3>1. \A u \in x[U] \cap node.bag : Position(u, node.bag) \in 0 .. Cardinality(node.bag) - 1
      BY <1>1, PositionRange
    <3>2. Cardinality(node.bag) - 1 <= SignatureDepth - 1 /\ SignatureDepth \in Int
      BY <1>1, WidthAssumption DEF SignatureDepth
    <3>3. \A i \in 0 .. Cardinality(node.bag) - 1 : i \in 0 .. SignatureDepth - 1
      BY <1>1, <3>2
    <3> QED BY <3>1, <3>3 DEF PositionsIn
  <2>3. new[U] = SetIntroduce(free[U], t, U \in sets)
    BY DEF FreeIntroduced
  <2>4. new[U].members = M1
    <3>1. SetIntroduce([depth |-> free[U].depth, members |-> M], t, U \in sets)
            = [depth |-> free[U].depth, members |-> M1]
      BY <1>2, <2>2, MembersIntroduced
    <3> HIDE DEF M1, M, new
    <3> QED BY <2>1, <2>3, <3>1
  <2>5. x[U] \in SUBSET node.seen
    BY DEF Match
  <2> DEFINE Z == x[U] \cup InBag(bag, M1)
  <2>6. Z = x[U] \cup NewVertex(v, U, sets) /\ PositionsIn(Z, bag) = M1
    <3>1. ExtendsSet(x[U], node.bag, v, U, sets)
      BY <1>1, <2>5, SetIntroduced
    <3> QED BY <3>1 DEF ExtendsSet
  <2> HIDE DEF M1, M, new
  <2>7. z[U] = Z
    BY <2>4 DEF Extended
  <2> QED BY <2>4, <2>6, <2>7
<1>4. z \in [FreeVars -> SUBSET (node.seen \cup {v})]
  <2>1. \A U \in FreeVars : x[U] \in SUBSET node.seen
    BY DEF Match
  <2>2. \A U \in FreeVars : z[U] \in SUBSET (node.seen \cup {v})
    BY <1>3, <2>1 DEF NewVertex
  <2>3. z = [U \in FreeVars |-> z[U]]
    BY DEF Extended
  <2> HIDE DEF z
  <2> QED BY <2>2, <2>3
<1> HIDE DEF z, new
<1> QED BY <1>3, <1>4 DEF Match, ExtendedBy, z, new

LEMMA FreeIntroducedType ==
  ASSUME NEW free, IsFree(free), NEW t \in Int, NEW sets
  PROVE  IsFree(FreeIntroduced(free, t, sets))
<1>1. ASSUME NEW U \in FreeVars
      PROVE  SetIntroduce(free[U], t, U \in sets) \in [depth : Int, members : SUBSET Int]
  <2> DEFINE M == RenameUp(free[U].members, t, SignatureDepth - 1)
                    \cup (IF U \in sets THEN {t} ELSE {})
  <2>1. free[U] \in [depth : Int, members : SUBSET Int]
    BY DEF IsFree
  <2>2. M \in SUBSET Int
    <3>1. free[U].members \in SUBSET Int
      BY <2>1
    <3> QED BY <3>1 DEF RenameUp
  <2>3. SetIntroduce(free[U], t, U \in sets) = [free[U] EXCEPT !.members = M]
    BY DEF SetIntroduce
  <2> HIDE DEF M
  <2> QED BY <2>1, <2>2, <2>3
<1> QED BY <1>1 DEF FreeIntroduced, IsFree

LEMMA IntroducedResults ==
  ASSUME NodeOK(node), TableFor(node.table, node.bag, node.seen),
         Cardinality(node.bag) < Width, NEW v \in Vertices, v \notin node.seen, NEW alpha
  PROVE  LET bag == node.bag \cup {v}
             t   == Position(v, bag)
         IN ResultsFor(UNION {Introduced(k, k[1], t, bag, alpha) : k \in DOMAIN node.table},
                       bag, node.seen \cup {v})
<1> DEFINE bag == node.bag \cup {v}
           t == Position(v, bag)
           table == node.table
           saved == UNION {Introduced(k, k[1], t, bag, alpha) : k \in DOMAIN table}
<1>1. ASSUME NEW r \in saved
      PROVE  \E k \in DOMAIN table, sets \in SUBSET FreeVars :
               /\ r.free = FreeIntroduced(k[1], t, sets)
               /\ r.game = PlayIntroduce(k[2], t, r.free @@ alpha)
               /\ r.value = {Extended(x, bag, r.free) : x \in table[k]}
  <2>1. PICK k \in DOMAIN table : r \in Introduced(k, k[1], t, bag, alpha)
    OBVIOUS
  <2>2. PICK q \in Results(k[1], k[2], t, alpha) :
          r = [free |-> q.free, game |-> q.game, value |-> Mult(table[k], Elem(bag, q.free))]
    BY <2>1 DEF Introduced
  <2>3. PICK sets \in SUBSET FreeVars :
          q = [free |-> FreeIntroduced(k[1], t, sets),
               game |-> PlayIntroduce(k[2], t, FreeIntroduced(k[1], t, sets) @@ alpha)]
    BY <2>2 DEF Results
  <2>4. r.free = q.free /\ r.game = q.game /\ r.value = Mult(table[k], Elem(bag, r.free))
    BY <2>2
  <2>5. q.free = FreeIntroduced(k[1], t, sets) /\ q.game = PlayIntroduce(k[2], t, q.free @@ alpha)
    BY <2>3
  <2>6. Mult(table[k], Elem(bag, r.free)) = {Extended(x, bag, r.free) : x \in table[k]}
    <3>1. Mult(table[k], Elem(bag, r.free)) = AllExtended(table[k], bag, r.free)
      BY MultElem
    <3> QED BY <3>1 DEF AllExtended
  <2> QED BY <2>4, <2>5, <2>6
<1>2. t \in Int
  BY AtAdded, BagFinite, GameTablesAssumption DEF NodeOK
<1>3. \A k \in DOMAIN table : IsFree(k[1]) /\ \A x \in table[k] : Match(k[1], x, node.bag, node.seen)
  BY DEF TableFor
<1>4. ASSUME NEW k \in DOMAIN table, NEW sets \in SUBSET FreeVars, NEW x \in table[k]
      PROVE  LET new == FreeIntroduced(k[1], t, sets)
             IN /\ Match(new, Extended(x, bag, new), bag, node.seen \cup {v})
                /\ ExtendedBy(Extended(x, bag, new), x, v, sets)
  BY <1>3, OneIntroduced
<1> HIDE DEF bag, t, saved, table
<1>5. ASSUME NEW r \in saved
      PROVE  IsFree(r.free) /\ \A x \in r.value : Match(r.free, x, bag, node.seen \cup {v})
  <2>1. PICK k \in DOMAIN table, sets \in SUBSET FreeVars :
          /\ r.free = FreeIntroduced(k[1], t, sets)
          /\ r.value = {Extended(x, bag, r.free) : x \in table[k]}
    BY <1>1
  <2>2. IsFree(r.free)
    BY <1>2, <1>3, <2>1, FreeIntroducedType
  <2>3. ASSUME NEW y \in r.value PROVE Match(r.free, y, bag, node.seen \cup {v})
    <3>1. PICK x \in table[k] : y = Extended(x, bag, r.free)
      BY <2>1
    <3> QED BY <1>4, <2>1, <3>1
  <2> QED BY <2>2, <2>3
<1>6. ASSUME NEW r1 \in saved, NEW r2 \in saved, NEW y, y \in r1.value, y \in r2.value
      PROVE  r1.free = r2.free /\ r1.game = r2.game
  <2>1. PICK k1 \in DOMAIN table, s1 \in SUBSET FreeVars :
          /\ r1.free = FreeIntroduced(k1[1], t, s1)
          /\ r1.game = PlayIntroduce(k1[2], t, r1.free @@ alpha)
          /\ r1.value = {Extended(x, bag, r1.free) : x \in table[k1]}
    BY <1>1
  <2>2. PICK k2 \in DOMAIN table, s2 \in SUBSET FreeVars :
          /\ r2.free = FreeIntroduced(k2[1], t, s2)
          /\ r2.game = PlayIntroduce(k2[2], t, r2.free @@ alpha)
          /\ r2.value = {Extended(x, bag, r2.free) : x \in table[k2]}
    BY <1>1
  <2>3. PICK x1 \in table[k1] : y = Extended(x1, bag, r1.free)
    BY <1>6, <2>1
  <2>4. PICK x2 \in table[k2] : y = Extended(x2, bag, r2.free)
    BY <1>6, <2>2
  <2>5. /\ \A U \in FreeVars : y[U] = x1[U] \cup NewVertex(v, U, s1)
        /\ \A U \in FreeVars : y[U] = x2[U] \cup NewVertex(v, U, s2)
    <3>1. /\ y = Extended(x1, bag, FreeIntroduced(k1[1], t, s1))
          /\ y = Extended(x2, bag, FreeIntroduced(k2[1], t, s2))
      BY <2>1, <2>2, <2>3, <2>4
    <3>2. ExtendedBy(y, x1, v, s1) /\ ExtendedBy(y, x2, v, s2)
      BY <1>4, <3>1
    <3> QED BY <3>2 DEF ExtendedBy
  <2>6. /\ x1 \in [FreeVars -> SUBSET node.seen] /\ x2 \in [FreeVars -> SUBSET node.seen]
    BY <1>3 DEF Match
  <2>7. \A U \in FreeVars : x1[U] = x2[U] /\ (U \in s1 <=> U \in s2)
    <3> SUFFICES ASSUME NEW U \in FreeVars PROVE x1[U] = x2[U] /\ (U \in s1 <=> U \in s2)
      OBVIOUS
    <3>1. v \notin x1[U] /\ v \notin x2[U]
      BY <2>6
    <3>2. x1[U] = y[U] \ {v} /\ x2[U] = y[U] \ {v}
      BY <2>5, <3>1 DEF NewVertex
    <3>3. (U \in s1 <=> v \in y[U]) /\ (U \in s2 <=> v \in y[U])
      BY <2>5, <3>1 DEF NewVertex
    <3> QED BY <3>2, <3>3
  <2>8. x1 = x2
    BY <2>6, <2>7
  <2>9. s1 = s2
    BY <2>7
  <2>10. k1 = k2
    BY <2>8 DEF TableFor, table
  <2> QED BY <2>1, <2>2, <2>9, <2>10
<1>7. ResultsFor(saved, bag, node.seen \cup {v})
  BY <1>5, <1>6 DEF ResultsFor
<1> QED BY <1>7 DEF saved, bag, t, table

(***************************************************************************)
(* Forgetting v: the solutions stay, and their positions are those without *)
(* v (SetMove::forget).                                                    *)
(***************************************************************************)
LEMMA OneForgotten ==
  ASSUME NodeOK(node), NEW v \in node.bag, NEW free, IsFree(free)
  PROVE  LET new == [U \in FreeVars |-> SetForget(free[U], Position(v, node.bag))]
         IN /\ IsFree(new)
            /\ \A x : Match(free, x, node.bag, node.seen)
                        => Match(new, x, node.bag \ {v}, node.seen)
<1> DEFINE bag == node.bag
           old == bag \ {v}
           t == Position(v, bag)
           new == [U \in FreeVars |-> SetForget(free[U], t)]
<1>1. /\ old \in SUBSET Nat /\ IsFiniteSet(old) /\ Cardinality(old) < Width
      /\ v \in Nat \ old /\ bag = old \cup {v} /\ t \in Int
  <2>1. bag \in SUBSET Vertices /\ Cardinality(bag) <= Width
    BY DEF NodeOK
  <2>2. bag \in SUBSET Nat /\ IsFiniteSet(bag) /\ Cardinality(bag) \in Nat
    BY <2>1, BagFinite
  <2>3. IsFiniteSet(old) /\ Cardinality(old) = Cardinality(bag) - 1
    BY <2>2, FS_RemoveElement
  <2>4. Cardinality(old) < Width
    BY <2>1, <2>2, <2>3, WidthAssumption
  <2>5. t \in Int
    BY <2>2, PositionRange
  <2> QED BY <2>2, <2>3, <2>4, <2>5
<1>2. ASSUME NEW U \in FreeVars
      PROVE  new[U] \in [depth : Int, members : SUBSET Int]
  <2> DEFINE M == RenameDown(free[U].members \ {t}, t + 1, SignatureDepth)
  <2>1. free[U] \in [depth : Int, members : SUBSET Int]
    BY DEF IsFree
  <2>2. M \in SUBSET Int
    <3>1. free[U].members \in SUBSET Int
      BY <2>1
    <3> QED BY <3>1 DEF RenameDown
  <2>3. new[U] = [free[U] EXCEPT !.members = M]
    BY DEF SetForget
  <2> HIDE DEF M, new
  <2> QED BY <2>1, <2>2, <2>3
<1>3. IsFree(new)
  <2>1. new = [U \in FreeVars |-> new[U]]
    OBVIOUS
  <2> HIDE DEF new
  <2> QED BY <1>2, <2>1 DEF IsFree
<1>4. ASSUME NEW x, Match(free, x, bag, node.seen), NEW U \in FreeVars
      PROVE  PositionsIn(x[U], old) = new[U].members
  <2> DEFINE M == PositionsIn(x[U], bag)
  <2>1. free[U] = [depth |-> free[U].depth, members |-> M]
    BY <1>4, FreeOfMove DEF IsFree, Match
  <2>2. SetForget([depth |-> free[U].depth, members |-> M], t)
          = [depth |-> free[U].depth, members |-> PositionsIn(x[U], old)]
    <3>1. SetForget([depth |-> free[U].depth, members |-> PositionsIn(x[U], old \cup {v})],
                    Position(v, old \cup {v}))
            = [depth |-> free[U].depth, members |-> PositionsIn(x[U], old)]
      BY <1>1, MembersForgotten
    <3> QED BY <1>1, <3>1
  <2>3. new[U] = SetForget(free[U], t)
    OBVIOUS
  <2> HIDE DEF M, new, t, old
  <2> QED BY <2>1, <2>2, <2>3
<1> HIDE DEF new, old
<1>5. \A x : Match(free, x, bag, node.seen) => Match(new, x, old, node.seen)
  BY <1>4 DEF Match
<1> QED BY <1>3, <1>5 DEF new, old

LEMMA ForgottenResults ==
  ASSUME NodeOK(node), TableFor(node.table, node.bag, node.seen), NEW v \in node.bag, NEW alpha
  PROVE  ResultsFor({Forgotten(k, v, Position(v, node.bag), alpha) : k \in DOMAIN node.table},
                    node.bag \ {v}, node.seen)
<1> DEFINE t == Position(v, node.bag)
           saved == {Forgotten(k, v, t, alpha) : k \in DOMAIN node.table}
<1>1. ASSUME NEW r \in saved
      PROVE  \E k \in DOMAIN node.table :
               /\ r = Forgotten(k, v, t, alpha)
               /\ r.free = [U \in FreeVars |-> SetForget(k[1][U], t)]
               /\ r.value = node.table[k]
  <2>1. PICK k \in DOMAIN node.table : r = Forgotten(k, v, t, alpha)
    OBVIOUS
  <2>2. /\ Forgotten(k, v, t, alpha).free = [U \in FreeVars |-> SetForget(k[1][U], t)]
        /\ Forgotten(k, v, t, alpha).value = node.table[k]
    BY DEF Forgotten
  <2> QED BY <2>1, <2>2
<1> HIDE DEF saved
<1>2. ASSUME NEW r \in saved
      PROVE  IsFree(r.free) /\ \A x \in r.value : Match(r.free, x, node.bag \ {v}, node.seen)
  <2>1. PICK k \in DOMAIN node.table :
          /\ r.free = [U \in FreeVars |-> SetForget(k[1][U], t)]
          /\ r.value = node.table[k]
    BY <1>1
  <2>2. IsFree(k[1]) /\ \A x \in node.table[k] : Match(k[1], x, node.bag, node.seen)
    BY DEF TableFor
  <2> QED BY <2>1, <2>2, OneForgotten
<1>3. ASSUME NEW r1 \in saved, NEW r2 \in saved, NEW x, x \in r1.value, x \in r2.value
      PROVE  r1.free = r2.free /\ r1.game = r2.game
  <2>1. PICK k1 \in DOMAIN node.table : r1 = Forgotten(k1, v, t, alpha) /\ r1.value = node.table[k1]
    BY <1>1
  <2>2. PICK k2 \in DOMAIN node.table : r2 = Forgotten(k2, v, t, alpha) /\ r2.value = node.table[k2]
    BY <1>1
  <2>3. k1 = k2
    BY <1>3, <2>1, <2>2 DEF TableFor
  <2> QED BY <2>1, <2>2, <2>3
<1>4. ResultsFor(saved, node.bag \ {v}, node.seen)
  BY <1>2, <1>3 DEF ResultsFor
<1> QED BY <1>4 DEF saved

(***************************************************************************)
(* Joining: what the two subtrees have in common is the bag, and there the *)
(* assignment says the same of both solutions, so that either can be read  *)
(* off their union.                                                        *)
(***************************************************************************)
Joins(free, x, y, bag, seen1, seen2) ==
  /\ Match(free, Joint(x, y), bag, seen1 \cup seen2)
  /\ \A U \in FreeVars : /\ x[U] = Joint(x, y)[U] \cap seen1
                         /\ y[U] = Joint(x, y)[U] \cap seen2

LEMMA OneJoined ==
  ASSUME NEW bag \in SUBSET Nat, IsFiniteSet(bag), NEW seen1, NEW seen2, seen1 \cap seen2 = bag,
         NEW free, NEW x, NEW y, Match(free, x, bag, seen1), Match(free, y, bag, seen2)
  PROVE  Joins(free, x, y, bag, seen1, seen2)
<1> DEFINE z == Joint(x, y)
<1>1. ASSUME NEW U \in FreeVars
      PROVE  /\ z[U] = x[U] \cup y[U] /\ x[U] \subseteq seen1 /\ y[U] \subseteq seen2
             /\ x[U] \cap bag = y[U] \cap bag /\ PositionsIn(x[U], bag) = free[U].members
  <2>1. z[U] = x[U] \cup y[U]
    BY DEF Joint
  <2>2. x[U] \in SUBSET seen1 /\ y[U] \in SUBSET seen2
    BY DEF Match
  <2>3. PositionsIn(x[U], bag) = free[U].members /\ PositionsIn(y[U], bag) = free[U].members
    BY DEF Match
  <2>4. x[U] \cap bag = y[U] \cap bag
    BY <2>3, SamePositions
  <2> QED BY <2>1, <2>2, <2>3, <2>4
<1>2. z = [U \in FreeVars |-> z[U]]
  BY DEF Joint
<1> HIDE DEF z
<1>3. z \in [FreeVars -> SUBSET (seen1 \cup seen2)]
  <2>1. \A U \in FreeVars : z[U] \in SUBSET (seen1 \cup seen2)
    BY <1>1
  <2> QED BY <1>2, <2>1
<1>4. \A U \in FreeVars : PositionsIn(z[U], bag) = free[U].members
  <2> SUFFICES ASSUME NEW U \in FreeVars PROVE PositionsIn(z[U], bag) = free[U].members
    OBVIOUS
  <2>1. z[U] \cap bag = x[U] \cap bag
    BY <1>1
  <2> QED BY <1>1, <2>1 DEF PositionsIn
<1>5. ASSUME NEW U \in FreeVars
      PROVE  x[U] = z[U] \cap seen1 /\ y[U] = z[U] \cap seen2
  BY <1>1
<1>6. Match(free, z, bag, seen1 \cup seen2)
  BY <1>3, <1>4 DEF Match
<1> QED BY <1>5, <1>6 DEF z, Joins

LEMMA JoinedResults ==
  ASSUME NodeOK(node), left.bag = node.bag, left.seen \cap node.seen = node.bag,
         TableFor(node.table, node.bag, node.seen), TableFor(left.table, left.bag, left.seen)
  PROVE  ResultsFor({Joined(p[1], p[2]) : p \in SameSets}, node.bag, left.seen \cup node.seen)
<1> DEFINE saved == {Joined(p[1], p[2]) : p \in SameSets}
           seen == left.seen \cup node.seen
<1>1. node.bag \in SUBSET Nat /\ IsFiniteSet(node.bag)
  BY BagFinite DEF NodeOK
<1>2. ASSUME NEW r \in saved
      PROVE  \E l \in DOMAIN left.table, k \in DOMAIN node.table :
               /\ l[1] = k[1]
               /\ r = Joined(l, k)
               /\ r.free = l[1]
               /\ \A z \in r.value : \E x \in left.table[l], y \in node.table[k] : z = Joint(x, y)
  <2>1. PICK p \in SameSets : r = Joined(p[1], p[2])
    OBVIOUS
  <2> DEFINE l == p[1]
             k == p[2]
  <2>2. l \in DOMAIN left.table /\ k \in DOMAIN node.table /\ l[1] = k[1]
    BY DEF SameSets
  <2> HIDE DEF l, k
  <2>3. r = Joined(l, k)
    BY <2>1 DEF l, k
  <2>4. r.free = l[1] /\ r.value = Mult(left.table[l], node.table[k])
    BY <2>3 DEF Joined
  <2>5. \A z \in r.value : \E x \in left.table[l], y \in node.table[k] : z = Joint(x, y)
    BY <2>4 DEF Mult, Joint
  <2> QED BY <2>2, <2>3, <2>4, <2>5
<1>3. ASSUME NEW l \in DOMAIN left.table, NEW k \in DOMAIN node.table, l[1] = k[1],
             NEW x \in left.table[l], NEW y \in node.table[k]
      PROVE  /\ Match(l[1], Joint(x, y), node.bag, seen)
             /\ \A U \in FreeVars : /\ x[U] = Joint(x, y)[U] \cap left.seen
                                    /\ y[U] = Joint(x, y)[U] \cap node.seen
  <2>1. Match(l[1], x, node.bag, left.seen) /\ Match(l[1], y, node.bag, node.seen)
    BY <1>3 DEF TableFor
  <2>2. Joins(l[1], x, y, node.bag, left.seen, node.seen)
    BY <1>1, <2>1, OneJoined
  <2> QED BY <2>2 DEF Joins
<1>4. \A l \in DOMAIN left.table : IsFree(l[1]) /\ \A x \in left.table[l] : DOMAIN x = FreeVars
  BY DEF TableFor, Match
<1>5. \A k \in DOMAIN node.table : \A y \in node.table[k] : DOMAIN y = FreeVars
  BY DEF TableFor, Match
<1> HIDE DEF saved, seen
<1>6. ASSUME NEW r \in saved
      PROVE  IsFree(r.free) /\ \A z \in r.value : Match(r.free, z, node.bag, seen)
  BY <1>2, <1>3, <1>4
<1>7. ASSUME NEW r1 \in saved, NEW r2 \in saved, NEW z, z \in r1.value, z \in r2.value
      PROVE  r1.free = r2.free /\ r1.game = r2.game
  <2>1. PICK l1 \in DOMAIN left.table, k1 \in DOMAIN node.table :
          /\ l1[1] = k1[1] /\ r1 = Joined(l1, k1)
          /\ \E x \in left.table[l1], y \in node.table[k1] : z = Joint(x, y)
    BY <1>2, <1>7
  <2>2. PICK l2 \in DOMAIN left.table, k2 \in DOMAIN node.table :
          /\ l2[1] = k2[1] /\ r2 = Joined(l2, k2)
          /\ \E x \in left.table[l2], y \in node.table[k2] : z = Joint(x, y)
    BY <1>2, <1>7
  <2>3. PICK x1 \in left.table[l1], y1 \in node.table[k1] : z = Joint(x1, y1)
    BY <2>1
  <2>4. PICK x2 \in left.table[l2], y2 \in node.table[k2] : z = Joint(x2, y2)
    BY <2>2
  <2>5. x1 = x2 /\ y1 = y2
    <3>1. \A U \in FreeVars : x1[U] = z[U] \cap left.seen /\ y1[U] = z[U] \cap node.seen
      BY <1>3, <2>1, <2>3
    <3>2. \A U \in FreeVars : x2[U] = z[U] \cap left.seen /\ y2[U] = z[U] \cap node.seen
      BY <1>3, <2>2, <2>4
    <3>3. /\ x1 \in [FreeVars -> SUBSET left.seen] /\ x2 \in [FreeVars -> SUBSET left.seen]
          /\ y1 \in [FreeVars -> SUBSET node.seen] /\ y2 \in [FreeVars -> SUBSET node.seen]
      BY DEF TableFor, Match
    <3>4. \A U \in FreeVars : x1[U] = x2[U] /\ y1[U] = y2[U]
      BY <3>1, <3>2
    <3> QED BY <3>3, <3>4
  <2>6. l1 = l2 /\ k1 = k2
    BY <2>5 DEF TableFor
  <2> QED BY <2>1, <2>2, <2>6
<1>8. ResultsFor(saved, node.bag, seen)
  BY <1>6, <1>7 DEF ResultsFor
<1> QED BY <1>8 DEF saved, seen

-----------------------------------------------------------------------------
(***************************************************************************)
(* The tables are right as long as an introduce plays every entry for      *)
(* itself: without its cache, and with it if no assignment is possible but *)
(* the empty one.  Otherwise the results of one assignment are used for    *)
(* another.                                                                *)
(***************************************************************************)
CacheHarmless == Cached => \A p \in Problems : p.free = 0

TablesInv ==
  /\ NodesInv
  /\ TableFor(node.table, node.bag, node.seen)
  /\ left = NULL \/ TableFor(left.table, left.bag, left.seen)

LEMMA LeafTable == TableFor(LeafNode.table, LeafNode.bag, LeafNode.seen)
<1> DEFINE alpha == [s \in LabelSyms \cup Terminals |->
                       IF s \in LabelSyms THEN SetMove(s, {}) ELSE NULL]
           free  == [U \in FreeVars |-> SetMove(U, {})]
           r == [free |-> free, game |-> PlayLeaf(problem.formula, free @@ alpha),
                 value |-> Elem({}, free)]
<1>1. LeafNode.table = Table({r}) /\ LeafNode.bag = {} /\ LeafNode.seen = {}
  BY DEF LeafNode
<1>2. IsFree(free)
  <2>1. \A U \in FreeVars : SetMove(U, {}) \in [depth : Int, members : SUBSET Int]
    BY DEF FreeVars, SetMove
  <2> QED BY <2>1 DEF IsFree
<1>3. ASSUME NEW x \in Elem({}, free) PROVE Match(free, x, {}, {})
  <2>1. x = [U \in FreeVars |-> {}]
    BY DEF Elem
  <2>2. \A U \in FreeVars : free[U].members = {}
    BY DEF SetMove
  <2> HIDE DEF free
  <2> QED BY <2>1, <2>2 DEF Match, PositionsIn
<1>4. r.free = free /\ r.value = Elem({}, free)
  OBVIOUS
<1> HIDE DEF r, free
<1>5. ResultsFor({r}, {}, {})
  BY <1>2, <1>3, <1>4 DEF ResultsFor
<1>6. TableFor(Table({r}), {}, {})
  BY <1>5, TableOfResults
<1> QED BY <1>1, <1>6

(* The entry whose results k gets is k itself, or says the same.           *)
PlayedFor(k, first) == IF k[2] \in CachedGames THEN first[k[2]] ELSE k[1]

AllPlayed(first, t, bag, alpha) ==
  UNION {Introduced(k, PlayedFor(k, first), t, bag, alpha) : k \in DOMAIN node.table}

AllOwn(t, bag, alpha) == UNION {Introduced(k, k[1], t, bag, alpha) : k \in DOMAIN node.table}

LEMMA PlayedForItself ==
  ASSUME CacheHarmless, TablesInv, NEW first, NEW t, NEW bag, NEW alpha,
         first \in [CachedGames -> {k[1] : k \in DOMAIN node.table}]
  PROVE  AllPlayed(first, t, bag, alpha) = AllOwn(t, bag, alpha)
<1>1. ASSUME NEW k \in DOMAIN node.table PROVE PlayedFor(k, first) = k[1]
  <2>1. CASE k[2] \notin CachedGames
    BY <2>1 DEF PlayedFor
  <2>2. CASE k[2] \in CachedGames
    <3>1. PICK j \in DOMAIN node.table : first[k[2]] = j[1]
      BY <2>2
    <3>2. Cached
      BY <2>2 DEF CachedGames
    <3>3. problem.free = 0
      BY <3>2 DEF CacheHarmless, TablesInv, NodesInv
    <3>4. FreeVars = {}
      BY <3>3, WidthAssumption DEF FreeVars
    <3>5. IsFree(j[1]) /\ IsFree(k[1])
      BY DEF TablesInv, TableFor
    <3>6. j[1] = k[1]
      BY <3>4, <3>5 DEF IsFree
    <3> QED BY <2>2, <3>1, <3>6 DEF PlayedFor
  <2> QED BY <2>1, <2>2
<1>2. {Introduced(k, PlayedFor(k, first), t, bag, alpha) : k \in DOMAIN node.table}
        = {Introduced(k, k[1], t, bag, alpha) : k \in DOMAIN node.table}
  BY <1>1
<1> QED BY <1>2 DEF AllPlayed, AllOwn

(* A table is right for the bag it has, whatever node it is the table of.  *)
LEMMA ProblemStays ==
  ASSUME UNCHANGED problem
  PROVE  /\ TableFor(node'.table, node'.bag, node'.seen)
              => TableFor(node.table, node.bag, node.seen)'
         /\ TableFor(left'.table, left'.bag, left'.seen)
              => TableFor(left.table, left.bag, left.seen)'
<1>1. FreeVars' = FreeVars
  BY DEF FreeVars
<1>2. TableFor(node'.table, node'.bag, node'.seen)
        => TableFor(node.table, node.bag, node.seen)'
  BY <1>1 DEF TableFor, IsFree, Match
<1>3. TableFor(left'.table, left'.bag, left'.seen)
        => TableFor(left.table, left.bag, left.seen)'
  BY <1>1 DEF TableFor, IsFree, Match
<1> QED BY <1>2, <1>3

LEMMA TablesNext ==
  ASSUME CacheHarmless
  PROVE  TablesInv /\ [Next]_vars => TablesInv'
<1> SUFFICES ASSUME TablesInv, [Next]_vars PROVE TablesInv'
  OBVIOUS
<1>1. NodesInv' /\ NodesInv
  BY NodesNext DEF TablesInv
<1>2. NodeOK(node) /\ TableFor(node.table, node.bag, node.seen)
  BY DEF TablesInv, NodesInv
<1>3. ASSUME NEW v \in Vertices, DoIntroduce(v) PROVE TablesInv'
  <2> DEFINE bag == node.bag \cup {v}
             t == Position(v, bag)
             alpha == AlphaIntroduced(v, bag, t)
             saved == UNION {Introduced(k, k[1], t, bag, alpha) : k \in DOMAIN node.table}
  <2>1. /\ v \notin node.seen /\ Cardinality(node.bag) < Width
        /\ UNCHANGED <<problem, graph, left>>
    BY <1>3 DEF DoIntroduce, input
  <2>2. node' = [bag |-> bag, seen |-> node.seen \cup {v}, alpha |-> alpha,
                 table |-> Table(saved)]
    <3>1. PICK first \in [CachedGames -> {k[1] : k \in DOMAIN node.table}] :
            node' = [bag |-> bag, seen |-> node.seen \cup {v}, alpha |-> alpha,
                     table |-> Table(AllPlayed(first, t, bag, alpha))]
      BY <1>3 DEF DoIntroduce, AllPlayed, PlayedFor
    <3> HIDE DEF bag, t, alpha
    <3>2. AllPlayed(first, t, bag, alpha) = AllOwn(t, bag, alpha)
      BY PlayedForItself
    <3>3. saved = AllOwn(t, bag, alpha)
      BY DEF AllOwn
    <3> HIDE DEF saved
    <3> QED BY <3>1, <3>2, <3>3
  <2>3. ResultsFor(saved, bag, node.seen \cup {v})
    BY <1>2, <2>1, IntroducedResults
  <2> HIDE DEF saved, bag, alpha, t
  <2>4. TableFor(Table(saved), bag, node.seen \cup {v})
    BY <2>3, TableOfResults
  <2>5. node'.table = Table(saved) /\ node'.bag = bag /\ node'.seen = node.seen \cup {v}
    BY <2>2
  <2>6. TableFor(node'.table, node'.bag, node'.seen)
    BY <2>4, <2>5
  <2> QED BY <1>1, <2>1, <2>6, ProblemStays DEF TablesInv
<1>4. ASSUME NEW v \in Vertices, DoForget(v) PROVE TablesInv'
  <2> DEFINE t == Position(v, node.bag)
             alpha == AlphaForgotten(t)
             saved == {Forgotten(k, v, t, alpha) : k \in DOMAIN node.table}
  <2>1. /\ v \in node.bag /\ UNCHANGED <<problem, graph, left>>
        /\ node' = [bag |-> node.bag \ {v}, seen |-> node.seen, alpha |-> alpha,
                    table |-> Table(saved)]
    BY <1>4 DEF DoForget, input
  <2>2. ResultsFor(saved, node.bag \ {v}, node.seen)
    BY <1>2, <2>1, ForgottenResults
  <2> HIDE DEF saved, alpha
  <2>3. TableFor(Table(saved), node.bag \ {v}, node.seen)
    BY <2>2, TableOfResults
  <2>4. node'.table = Table(saved) /\ node'.bag = node.bag \ {v} /\ node'.seen = node.seen
    BY <2>1
  <2>5. TableFor(node'.table, node'.bag, node'.seen)
    BY <2>3, <2>4
  <2> QED BY <1>1, <2>1, <2>5, ProblemStays DEF TablesInv
<1>5. CASE DoLeaf
  <2>1. left' = node /\ node' = LeafNode /\ UNCHANGED <<problem, graph>>
    BY <1>5 DEF DoLeaf, input
  <2>2. TableFor(node'.table, node'.bag, node'.seen)
    BY <2>1, LeafTable
  <2>3. TableFor(left'.table, left'.bag, left'.seen)
    BY <1>2, <2>1
  <2> QED BY <1>1, <2>1, <2>2, <2>3, ProblemStays DEF TablesInv
<1>6. CASE DoJoin
  <2> DEFINE saved == {Joined(p[1], p[2]) : p \in SameSets}
  <2>1. /\ left # NULL /\ left.bag = node.bag /\ left.seen \cap node.seen = node.bag
        /\ node' = [bag |-> node.bag, seen |-> left.seen \cup node.seen, alpha |-> left.alpha,
                    table |-> Table(saved)]
        /\ left' = NULL /\ UNCHANGED <<problem, graph>>
    BY <1>6 DEF DoJoin, Joinable, input
  <2>2. TableFor(left.table, left.bag, left.seen)
    BY <2>1 DEF TablesInv
  <2>3. ResultsFor(saved, node.bag, left.seen \cup node.seen)
    BY <1>2, <2>1, <2>2, JoinedResults
  <2> HIDE DEF saved
  <2>4. TableFor(Table(saved), node.bag, left.seen \cup node.seen)
    BY <2>3, TableOfResults
  <2>5. /\ node'.table = Table(saved) /\ node'.bag = node.bag
        /\ node'.seen = left.seen \cup node.seen
    BY <2>1
  <2>6. TableFor(node'.table, node'.bag, node'.seen)
    BY <2>4, <2>5
  <2> QED BY <1>1, <2>1, <2>6, ProblemStays DEF TablesInv
<1>7. CASE AbortJoin \/ DoRoot \/ UNCHANGED vars
  <2>1. UNCHANGED <<problem, graph, node, left>>
    BY <1>7 DEF AbortJoin, DoRoot, vars, input
  <2> QED BY <1>1, <2>1, ProblemStays DEF TablesInv
<1> QED BY <1>3, <1>4, <1>5, <1>6, <1>7 DEF Next

LEMMA TablesHold ==
  ASSUME CacheHarmless
  PROVE  Spec => []TablesInv
<1>1. Init => TablesInv
  BY LeafOK, LeafTable DEF Init, TablesInv, NodesInv
<1>2. TablesInv /\ [Next]_vars => TablesInv'
  BY TablesNext
<1> QED BY <1>1, <1>2, PTL DEF Spec

(***************************************************************************)
(* The solutions of an entry agree with its assignment on the bag, and     *)
(* have no vertex that was not seen: mult() can compute its third argument *)
(* from the assignment, at every node of every decomposition.              *)
(***************************************************************************)
THEOREM GameTablesValues ==
  ASSUME CacheHarmless
  PROVE  Spec => []ValuesMatchAssignment
<1>1. TablesInv => ValuesMatchAssignment
  <2> SUFFICES ASSUME TablesInv, NEW k \in DOMAIN node.table, NEW x \in node.table[k],
                      NEW U \in FreeVars
               PROVE  /\ x[U] \subseteq node.seen
                      /\ {Position(v, node.bag) : v \in x[U] \cap node.bag} = k[1][U].members
    BY DEF ValuesMatchAssignment
  <2>1. Match(k[1], x, node.bag, node.seen)
    BY DEF TablesInv, TableFor
  <2>2. x[U] \in SUBSET node.seen
    BY <2>1 DEF Match
  <2>3. PositionsIn(x[U], node.bag) = k[1][U].members
    BY <2>1 DEF Match
  <2> QED BY <2>2, <2>3 DEF PositionsIn
<1>2. Spec => []TablesInv
  BY TablesHold
<1> QED BY <1>1, <1>2, PTL

(***************************************************************************)
(* No solution is in two entries of a table, so that a sum over the        *)
(* entries counts none twice (the counting evaluation of update_value).       *)
(***************************************************************************)
THEOREM GameTablesDisjoint ==
  ASSUME CacheHarmless
  PROVE  Spec => []EntriesDisjoint
<1>1. TablesInv => EntriesDisjoint
  BY DEF TablesInv, TableFor, EntriesDisjoint
<1>2. Spec => []TablesInv
  BY TablesHold
<1> QED BY <1>1, <1>2, PTL
=============================================================================
