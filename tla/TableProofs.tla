---------------------------- MODULE TableProofs -----------------------------
(***************************************************************************)
(* The values in the tables, in two parts.                                 *)
(*                                                                         *)
(* TableUpdate: the table of a node under any number of concurrent         *)
(* update_value() calls for any games and assignments.  Nothing is lost,   *)
(* nothing counted twice, no game or map is deleted twice, leaked or used  *)
(* after its deletion.                                                     *)
(*                                                                         *)
(* Evaluations: what the sums are that these calls make.  Over any graph,  *)
(* decomposition, property and width of unsigned long, the value of an     *)
(* entry is that of the set of all partial solutions the entry stands for. *)
(***************************************************************************)
EXTENDS TableUpdate, Evaluations, FiniteSetTheorems, WellFoundedInduction, TLAPS

-----------------------------------------------------------------------------
(***************************************************************************)
(* Concurrent calls of update_value().                                     *)
(***************************************************************************)
Working == {"insert", "read", "swap"}

(* What a call owns and refers to, by where it is.                         *)
CallOK(c) ==
  /\ pc[c] = "start" => c \notin maps
  /\ pc[c] \in {"start", "intern"} => map[c] = None /\ \A a \in Assignment : table[a] # c
  /\ pc[c] = "intern" => c \in maps
  /\ pc[c] \in Working => map[c] # None
  /\ map[c] # None => map[c] = table[arg[c].alpha]
  /\ pc[c] \in {"read", "swap"} => key[map[c]][arg[c].game] # None /\ c \notin games
  /\ pc[c] \in {"start", "intern", "insert"} => c \in games

(* The table maps assignments to different maps.                           *)
TableOK ==
  \A a \in Assignment : table[a] # None =>
    table[a] \in maps /\ arg[table[a]].alpha = a

(* A key was passed to a call that has returned, for the game and the      *)
(* assignment of its entry; a map that is not in the table is empty.       *)
KeysOK ==
  /\ \A a \in Assignment, g \in Game :
       table[a] # None /\ key[table[a]][g] # None =>
         LET c == key[table[a]][g] IN
         pc[c] = "done" /\ arg[c] = [alpha |-> a, game |-> g] /\ c \in games
  /\ \A m \in Call : (\A a \in Assignment : table[a] # m) =>
       \A g \in Game : key[m][g] = None /\ value[m][g] = Zero

IInv ==
  TypeOK /\ NothingLost /\ GamesOwned /\ MapsOwned /\ TableOK /\ KeysOK
  /\ \A c \in Call : CallOK(c)

LEMMA InitIInv == Init => IInv
<1> SUFFICES ASSUME Init PROVE IInv
  OBVIOUS
<1> USE DEF Init
<1>0. Zero \in [Call -> Nat]
  BY DEF Zero
<1>1. TypeOK
  BY <1>0 DEF TypeOK, Labels
<1>2. NothingLost /\ GamesOwned /\ MapsOwned /\ TableOK /\ KeysOK
  BY TableAssumption DEF NothingLost, GamesOwned, MapsOwned, IsKey, TableOK, KeysOK
<1>3. ASSUME NEW c \in Call PROVE CallOK(c)
  <2>1. pc[c] = "start" /\ c \notin maps /\ map[c] = None /\ c \in games
    OBVIOUS
  <2>2. \A a \in Assignment : table[a] # c
    BY TableAssumption
  <2> QED BY <2>1, <2>2 DEF CallOK, Working
<1> QED BY <1>1, <1>2, <1>3 DEF IInv

LEMMA RefuseIInv ==
  ASSUME IInv, NEW c \in Call, Refuse(c) PROVE IInv'
<1> USE TableAssumption DEF IInv, Refuse, Goto
<1>1. TypeOK'
  BY DEF TypeOK, Labels
<1>2. NothingLost'
  BY DEF NothingLost, TypeOK
<1>3. GamesOwned'
  <2>1. ASSUME NEW d \in Call, IsKey(d) PROVE d # c
    <3>1. PICK a \in Assignment, g \in Game : table[a] # None /\ key[table[a]][g] = d
      BY <2>1 DEF IsKey
    <3>2. pc[d] = "done"
      BY <3>1 DEF KeysOK
    <3> QED BY <3>2
  <2>2. \A d \in Call : IsKey(d)' <=> IsKey(d)
    BY DEF IsKey
  <2>3. \A d \in Call : pc'[d] = "done" /\ d \in games' => pc[d] = "done"
    BY DEF TypeOK
  <2> QED BY <2>1, <2>2, <2>3 DEF GamesOwned
<1>4. MapsOwned' /\ TableOK'
  BY DEF MapsOwned, TableOK, TypeOK, CallOK
<1>5. KeysOK'
  BY DEF KeysOK, TypeOK
<1>6. \A d \in Call : CallOK(d)'
  BY DEF CallOK, Working, TypeOK
<1> QED BY <1>1, <1>2, <1>3, <1>4, <1>5, <1>6

LEMMA NewMapIInv ==
  ASSUME IInv, NEW c \in Call, NewMap(c) PROVE IInv'
<1> USE TableAssumption DEF IInv, NewMap, Goto
<1>1. TypeOK'
  BY DEF TypeOK, Labels
<1>2. NothingLost'
  BY DEF NothingLost, TypeOK
<1>3. GamesOwned'
  BY DEF GamesOwned, IsKey, TypeOK
<1>4. MapsOwned' /\ TableOK'
  BY DEF MapsOwned, TableOK, TypeOK, CallOK
<1>5. KeysOK'
  BY DEF KeysOK, TypeOK
<1>6. \A d \in Call : CallOK(d)'
  BY DEF CallOK, Working, TypeOK
<1> QED BY <1>1, <1>2, <1>3, <1>4, <1>5, <1>6

LEMMA InternNewIInv ==
  ASSUME IInv, NEW c \in Call, InternNew(c) PROVE IInv'
<1> USE TableAssumption DEF IInv, InternNew, Goto
<1> DEFINE a == arg[c].alpha
<1>0. /\ a \in Assignment /\ table[a] = None /\ c # None /\ pc[c] = "intern"
      /\ table' = [table EXCEPT ![a] = c] /\ table \in [Assignment -> Call \cup {None}]
      /\ table'[a] = c /\ \A b \in Assignment : b # a => table'[b] = table[b]
      /\ pc' = [pc EXCEPT ![c] = "insert"] /\ pc \in [Call -> Labels]
      /\ map' = [map EXCEPT ![c] = c] /\ map \in [Call -> Call \cup {None}]
      /\ \A b \in Assignment : table[b] # c
      /\ c \in maps /\ c \in games
  BY DEF TypeOK, CallOK
<1> HIDE DEF a
<1>1. TypeOK'
  BY <1>0 DEF TypeOK, Labels
<1>2. NothingLost'
  <2>1. \A g \in Game, d \in Call : value[c][g][d] = 0
    BY <1>0 DEF KeysOK, Zero
  <2>2. \A d \in Call : pc'[d] = "done" => pc[d] = "done" /\ (arg[d].game # Falsifier => arg[d].alpha # a)
    BY <1>0 DEF NothingLost
  <2> QED BY <1>0, <2>1, <2>2 DEF NothingLost, TypeOK
<1>3. GamesOwned'
  <2>1. \A g \in Game : key[c][g] = None
    BY <1>0 DEF KeysOK
  <2>2. \A d \in Call : IsKey(d)' <=> IsKey(d)
    BY <1>0, <2>1 DEF IsKey
  <2> QED BY <1>0, <2>2 DEF GamesOwned
<1>4. MapsOwned'
  <2>1. \A d \in Call : map'[d] # None => map'[d] \in maps
    BY <1>0 DEF MapsOwned
  <2>2. ASSUME NEW m \in maps, pc'[m] # "intern" PROVE \E b \in Assignment : table'[b] = m
    <3>1. CASE m = c
      BY <1>0, <3>1
    <3>2. CASE m # c
      <4>1. m \in Call
        BY DEF TypeOK
      <4>2. PICK b \in Assignment : table[b] = m
        BY <1>0, <2>2, <3>2, <4>1 DEF MapsOwned
      <4>3. m # None
        BY <4>1
      <4> QED BY <1>0, <4>2, <4>3
    <3> QED BY <3>1, <3>2
  <2> QED BY <2>1, <2>2 DEF MapsOwned
<1>5. TableOK'
  BY <1>0 DEF TableOK, a
<1>6. KeysOK'
  <2>1. \A g \in Game : key[c][g] = None
    BY <1>0 DEF KeysOK
  <2>2. \A b \in Assignment, g \in Game :
          table'[b] # None /\ key[table'[b]][g] # None => b # a /\ table'[b] = table[b]
    BY <1>0, <2>1
  <2>3. \A m \in Call : (\A b \in Assignment : table'[b] # m) => \A b \in Assignment : table[b] # m
    BY <1>0
  <2>4. \A b \in Assignment, g \in Game :
          table'[b] # None /\ key[table'[b]][g] # None =>
            pc[key[table'[b]][g]] = "done" /\ key[table'[b]][g] \in games
            /\ arg[key[table'[b]][g]] = [alpha |-> b, game |-> g]
            /\ key[table'[b]][g] # c
    BY <1>0, <2>2 DEF KeysOK
  <2>5. \A b \in Assignment, g \in Game :
          table'[b] # None /\ key[table'[b]][g] # None => key[table'[b]][g] \in Call
    BY <1>0 DEF TypeOK
  <2> QED BY <1>0, <2>3, <2>4, <2>5 DEF KeysOK
<1>7. \A d \in Call : CallOK(d)'
  BY <1>0 DEF CallOK, Working, a, TypeOK
<1> QED BY <1>1, <1>2, <1>3, <1>4, <1>5, <1>6, <1>7

LEMMA InternExistingIInv ==
  ASSUME IInv, NEW c \in Call, InternExisting(c) PROVE IInv'
<1> USE TableAssumption DEF IInv, InternExisting, Goto
<1>0. /\ arg[c].alpha \in Assignment /\ table[arg[c].alpha] # None /\ pc[c] = "intern"
      /\ pc' = [pc EXCEPT ![c] = "insert"] /\ pc \in [Call -> Labels]
      /\ \A b \in Assignment : table[b] # c
      /\ table[arg[c].alpha] \in maps
  BY DEF TypeOK, CallOK, TableOK
<1>1. TypeOK'
  BY <1>0 DEF TypeOK, Labels
<1>2. NothingLost'
  BY DEF NothingLost, TypeOK
<1>3. GamesOwned'
  BY DEF GamesOwned, IsKey, TypeOK
<1>4. MapsOwned'
  <2>1. ASSUME NEW d \in Call, map'[d] # None PROVE map'[d] \in maps'
    <3>1. CASE d = c
      BY <1>0, <3>1 DEF TypeOK
    <3>2. CASE d # c
      <4>1. map'[d] = map[d] /\ map[d] \in maps
        BY <2>1, <3>2 DEF MapsOwned, TypeOK
      <4>3. map[d] # c
        <5>1. map[d] = table[arg[d].alpha] /\ arg[d].alpha \in Assignment
          BY <4>1, <2>1, <3>2 DEF CallOK, TypeOK
        <5> QED BY <1>0, <5>1
      <4> QED BY <4>1, <4>3
    <3> QED BY <3>1, <3>2
  <2>2. ASSUME NEW m \in maps', pc'[m] # "intern" PROVE \E b \in Assignment : table'[b] = m
    BY <1>0, <2>2 DEF MapsOwned, TypeOK
  <2> QED BY <2>1, <2>2 DEF MapsOwned
<1>5. TableOK'
  BY <1>0 DEF TableOK
<1>6. KeysOK'
  BY <1>0 DEF KeysOK, TypeOK
<1>7. \A d \in Call : CallOK(d)'
  BY <1>0 DEF CallOK, Working, TypeOK
<1> QED BY <1>1, <1>2, <1>3, <1>4, <1>5, <1>6, <1>7

LEMMA InsertNewIInv ==
  ASSUME IInv, NEW c \in Call, InsertNew(c) PROVE IInv'
<1> USE TableAssumption DEF IInv, InsertNew, Goto
<1> DEFINE a == arg[c].alpha
           g == arg[c].game
           m == map[c]
<1>0. /\ a \in Assignment /\ g \in Game /\ m \in Call /\ table[a] = m /\ m # None
      /\ c # None /\ arg[c] = [alpha |-> a, game |-> g]
      /\ pc[c] = "insert" /\ key[m][g] = None /\ c \in games
      /\ \A b \in Assignment : table[b] = m => b = a
  BY DEF TypeOK, CallOK, Working, TableOK
<1>1. /\ pc \in [Call -> Labels] /\ key \in [Call -> [Game -> Call \cup {None}]]
      /\ value \in [Call -> [Game -> [Call -> Nat]]]
      /\ table \in [Assignment -> Call \cup {None}]
  BY DEF TypeOK
<1>2. One(c) \in [Call -> Nat] /\ \A d \in Call : One(c)[d] = IF d = c THEN 1 ELSE 0
  BY DEF One, Zero
<1>3. /\ pc' = [pc EXCEPT ![c] = "done"]
      /\ key' = [key EXCEPT ![m][g] = c]
      /\ value' = [value EXCEPT ![m][g] = One(c)]
      /\ UNCHANGED <<arg, table, maps, games, map, old>>
  OBVIOUS
<1>4. \A k \in Call, h \in Game :
        /\ key'[k][h] = IF k = m /\ h = g THEN c ELSE key[k][h]
        /\ value'[k][h] = IF k = m /\ h = g THEN One(c) ELSE value[k][h]
  BY <1>0, <1>1, <1>3
<1>5. \A d \in Call : pc'[d] = IF d = c THEN "done" ELSE pc[d]
  BY <1>1, <1>3
<1>6. \A d \in Call : pc[d] = "done" => arg[d] # [alpha |-> a, game |-> g]
  <2>1. ASSUME NEW d \in Call, pc[d] = "done", arg[d] = [alpha |-> a, game |-> g] PROVE FALSE
    <3>1. arg[d].alpha = a /\ arg[d].game = g
      BY <2>1
    <3> QED BY <1>0, <2>1, <3>1 DEF NothingLost
  <2> QED BY <2>1
<1>7. TypeOK'
  <2>1. key' \in [Call -> [Game -> Call \cup {None}]] /\ value' \in [Call -> [Game -> [Call -> Nat]]]
    BY <1>0, <1>1, <1>2, <1>3
  <2> HIDE DEF a, g, m
  <2> QED BY <2>1, <1>1, <1>3 DEF TypeOK, Labels
<1> HIDE DEF a, g, m
<1>8. NothingLost'
  <2>1. ASSUME NEW d \in Call, pc'[d] = "done", arg[d].game # Falsifier
        PROVE  table[arg[d].alpha] # None /\ key'[table[arg[d].alpha]][arg[d].game] # None
    <3>1. CASE d = c
      BY <1>0, <1>4, <3>1
    <3>2. CASE d # c
      <4>1. table[arg[d].alpha] # None /\ key[table[arg[d].alpha]][arg[d].game] # None
        BY <2>1, <1>5, <3>2 DEF NothingLost
      <4>2. arg[d].alpha \in Assignment /\ arg[d].game \in Game
        BY <2>1 DEF TypeOK
      <4> QED BY <4>1, <4>2, <1>0, <1>1, <1>4
    <3> QED BY <3>1, <3>2
  <2>2. ASSUME NEW b \in Assignment, NEW h \in Game, NEW d \in Call, table[b] # None
        PROVE  value'[table[b]][h][d] =
                 IF pc'[d] = "done" /\ arg[d] = [alpha |-> b, game |-> h] THEN 1 ELSE 0
    <3>1. CASE b = a /\ h = g
      <4>1. value'[table[b]][h][d] = IF d = c THEN 1 ELSE 0
        BY <1>0, <1>2, <1>4, <3>1
      <4> QED BY <1>0, <1>5, <1>6, <3>1, <4>1
    <3>2. CASE ~(b = a /\ h = g)
      <4>1. table[b] # m \/ h # g
        BY <1>0, <3>2
      <4>2. value'[table[b]][h] = value[table[b]][h]
        BY <1>1, <1>4, <2>2, <4>1
      <4>3. d = c => arg[d] # [alpha |-> b, game |-> h]
        BY <1>0, <3>2
      <4> QED BY <1>0, <1>5, <2>2, <4>2, <4>3 DEF NothingLost
    <3> QED BY <3>1, <3>2
  <2> QED BY <1>3, <2>1, <2>2 DEF NothingLost
<1>9. GamesOwned'
  <2>1. ASSUME NEW d \in Call, d # c PROVE IsKey(d)' <=> IsKey(d)
    <3>1. \A b \in Assignment, h \in Game : table[b] # None =>
            (key'[table[b]][h] = d <=> key[table[b]][h] = d)
      BY <1>0, <1>1, <1>4, <2>1
    <3> QED BY <1>3, <3>1 DEF IsKey
  <2>2. IsKey(c)'
    BY <1>0, <1>3, <1>4 DEF IsKey
  <2> QED BY <2>1, <2>2, <1>0, <1>3, <1>5 DEF GamesOwned
<1>10. MapsOwned' /\ TableOK'
  <2>1. TableOK'
    BY <1>3 DEF TableOK
  <2>2. MapsOwned'
    BY <1>3, <1>5 DEF MapsOwned, TypeOK
  <2> QED BY <2>1, <2>2
<1>11. KeysOK'
  <2>1. ASSUME NEW b \in Assignment, NEW h \in Game, table[b] # None, key'[table[b]][h] # None
        PROVE  /\ pc'[key'[table[b]][h]] = "done" /\ key'[table[b]][h] \in games
               /\ arg[key'[table[b]][h]] = [alpha |-> b, game |-> h]
    <3>1. CASE b = a /\ h = g
      BY <1>0, <1>4, <1>5, <3>1
    <3>2. CASE ~(b = a /\ h = g)
      <4>1. key'[table[b]][h] = key[table[b]][h] /\ key[table[b]][h] \in Call
        BY <1>0, <1>1, <1>4, <2>1, <3>2
      <4> QED BY <4>1, <1>5, <2>1 DEF KeysOK
    <3> QED BY <3>1, <3>2
  <2>2. ASSUME NEW k \in Call, \A b \in Assignment : table[b] # k, NEW h \in Game
        PROVE  key'[k][h] = None /\ value'[k][h] = Zero
    <3>1. k # m
      BY <1>0, <2>2
    <3> QED BY <3>1, <1>4, <2>2 DEF KeysOK
  <2> QED BY <1>3, <2>1, <2>2 DEF KeysOK, Zero
<1>12. ASSUME NEW d \in Call PROVE CallOK(d)'
  <2>1. CASE d = c
    BY <2>1, <1>0, <1>3, <1>5 DEF CallOK, Working
  <2>2. CASE d # c
    <3>1. pc[d] \in {"read", "swap"} => arg[d].game \in Game /\ map[d] \in Call
      BY DEF TypeOK, CallOK, Working
    <3>2. pc[d] \in {"read", "swap"} => key'[map[d]][arg[d].game] # None
      BY <3>1, <1>0, <1>4, <2>2 DEF CallOK
    <3> QED BY <2>2, <3>2, <1>3, <1>5 DEF CallOK, Working
  <2> QED BY <2>1, <2>2
<1> QED BY <1>7, <1>8, <1>9, <1>10, <1>11, <1>12

LEMMA InsertExistingIInv ==
  ASSUME IInv, NEW c \in Call, InsertExisting(c) PROVE IInv'
<1> USE TableAssumption DEF IInv, InsertExisting, Goto
<1>1. TypeOK'
  BY DEF TypeOK, Labels
<1>2. NothingLost'
  BY DEF NothingLost, TypeOK
<1>3. \A a \in Assignment, g \in Game :
        table[a] # None /\ key[table[a]][g] # None => key[table[a]][g] # c
  BY DEF KeysOK
<1>4. GamesOwned'
  <2>1. \A d \in Call : IsKey(d)' <=> IsKey(d)
    BY DEF IsKey
  <2>2. ~IsKey(c)
    BY <1>3 DEF IsKey
  <2>3. \A d \in Call : pc'[d] = "done" => pc[d] = "done"
    BY DEF TypeOK
  <2> QED BY <2>1, <2>2, <2>3 DEF GamesOwned
<1>5. MapsOwned' /\ TableOK'
  BY DEF MapsOwned, TableOK, TypeOK, CallOK
<1>6. KeysOK'
  BY <1>3 DEF KeysOK, TypeOK
<1>7. \A d \in Call : CallOK(d)'
  BY DEF CallOK, Working, TypeOK
<1> QED BY <1>1, <1>2, <1>4, <1>5, <1>6, <1>7

(* Read and SwapFails change nothing but where the call is and what it     *)
(* remembers.                                                              *)
LEMMA RereadIInv ==
  ASSUME IInv, NEW c \in Call, Read(c) \/ SwapFails(c) PROVE IInv'
<1> USE TableAssumption DEF IInv, Goto
<1>0. /\ pc[c] \in {"read", "swap"} /\ UNCHANGED <<arg, table, maps, key, value, games, map>>
      /\ \A d \in Call : d # c => pc'[d] = pc[d]
      /\ pc'[c] \in {"read", "swap"}
  BY DEF Read, SwapFails, TypeOK
<1>1. TypeOK'
  <2>1. pc' \in [Call -> Labels]
    BY DEF TypeOK, Labels, Read, SwapFails
  <2>2. old' \in [Call -> [Call -> Nat]]
    <3>1. map[c] \in Call /\ arg[c].game \in Game
      BY <1>0 DEF TypeOK, CallOK, Working
    <3>2. value[map[c]][arg[c].game] \in [Call -> Nat]
      BY <3>1 DEF TypeOK
    <3>3. CASE Read(c)
      BY <3>2, <3>3 DEF TypeOK, Read
    <3>4. CASE SwapFails(c)
      BY <3>4 DEF TypeOK, SwapFails
    <3> QED BY <3>3, <3>4
  <2> QED BY <1>0, <2>1, <2>2 DEF TypeOK
<1>2. NothingLost'
  BY <1>0 DEF NothingLost
<1>3. GamesOwned'
  BY <1>0 DEF GamesOwned, IsKey
<1>4. MapsOwned' /\ TableOK'
  BY <1>0 DEF MapsOwned, TableOK, TypeOK
<1>5. KeysOK'
  <2>1. \A b \in Assignment, h \in Game :
          table[b] # None /\ key[table[b]][h] # None => key[table[b]][h] # c
    BY <1>0 DEF KeysOK
  <2>2. \A b \in Assignment, h \in Game :
          table[b] # None /\ key[table[b]][h] # None => key[table[b]][h] \in Call
    BY DEF TypeOK
  <2> QED BY <1>0, <2>1, <2>2 DEF KeysOK, Zero
<1>6. \A d \in Call : CallOK(d)'
  BY <1>0 DEF CallOK, Working
<1> QED BY <1>1, <1>2, <1>3, <1>4, <1>5, <1>6

LEMMA SwapIInv ==
  ASSUME IInv, NEW c \in Call, Swap(c) PROVE IInv'
<1> USE TableAssumption DEF IInv, Swap, Goto
<1> DEFINE a == arg[c].alpha
           g == arg[c].game
           m == map[c]
<1>0. /\ a \in Assignment /\ g \in Game /\ m \in Call /\ table[a] = m /\ m # None
      /\ arg[c] = [alpha |-> a, game |-> g]
      /\ pc[c] = "swap" /\ key[m][g] # None /\ c \notin games
      /\ \A b \in Assignment : table[b] = m => b = a
  BY DEF TypeOK, CallOK, Working, TableOK
<1>1. /\ pc \in [Call -> Labels] /\ value \in [Call -> [Game -> [Call -> Nat]]]
      /\ table \in [Assignment -> Call \cup {None}]
  BY DEF TypeOK
<1>3. /\ pc' = [pc EXCEPT ![c] = "done"]
      /\ value' = [value EXCEPT ![m][g] = Plus(value[m][g], c)]
      /\ UNCHANGED <<arg, table, maps, key, games, map, old>>
  OBVIOUS
<1>2. /\ Plus(value[m][g], c) \in [Call -> Nat]
      /\ \A d \in Call : Plus(value[m][g], c)[d] = IF d = c THEN value[m][g][c] + 1 ELSE value[m][g][d]
  BY <1>0, <1>1 DEF Plus
<1>4. \A k \in Call, h \in Game :
        value'[k][h] = IF k = m /\ h = g THEN Plus(value[m][g], c) ELSE value[k][h]
  BY <1>0, <1>1, <1>3
<1>5. \A d \in Call : pc'[d] = IF d = c THEN "done" ELSE pc[d]
  BY <1>1, <1>3
<1>6. value[m][g][c] = 0
  BY <1>0 DEF NothingLost
<1>7. TypeOK'
  <2>1. value' \in [Call -> [Game -> [Call -> Nat]]]
    BY <1>0, <1>1, <1>2, <1>3
  <2> HIDE DEF a, g, m
  <2> QED BY <2>1, <1>1, <1>3 DEF TypeOK, Labels
<1> HIDE DEF a, g, m
<1>8. NothingLost'
  <2>1. ASSUME NEW d \in Call, pc'[d] = "done", arg[d].game # Falsifier
        PROVE  table[arg[d].alpha] # None /\ key[table[arg[d].alpha]][arg[d].game] # None
    <3>1. CASE d = c
      BY <1>0, <3>1
    <3>2. CASE d # c
      BY <2>1, <1>5, <3>2 DEF NothingLost
    <3> QED BY <3>1, <3>2
  <2>2. ASSUME NEW b \in Assignment, NEW h \in Game, NEW d \in Call, table[b] # None
        PROVE  value'[table[b]][h][d] =
                 IF pc'[d] = "done" /\ arg[d] = [alpha |-> b, game |-> h] THEN 1 ELSE 0
    <3>1. CASE b = a /\ h = g
      <4>1. value'[table[b]][h][d] = IF d = c THEN 1 ELSE value[m][g][d]
        BY <1>0, <1>2, <1>4, <1>6, <3>1
      <4>2. value[m][g][d] = IF pc[d] = "done" /\ arg[d] = [alpha |-> a, game |-> g] THEN 1 ELSE 0
        BY <1>0 DEF NothingLost
      <4> QED BY <1>0, <1>5, <3>1, <4>1, <4>2
    <3>2. CASE ~(b = a /\ h = g)
      <4>1. value'[table[b]][h] = value[table[b]][h]
        BY <1>0, <1>1, <1>4, <2>2, <3>2
      <4>2. d = c => arg[d] # [alpha |-> b, game |-> h]
        BY <1>0, <3>2
      <4> QED BY <1>0, <1>5, <2>2, <4>1, <4>2 DEF NothingLost
    <3> QED BY <3>1, <3>2
  <2> QED BY <1>3, <2>1, <2>2 DEF NothingLost
<1>9. GamesOwned'
  <2>1. \A d \in Call : IsKey(d)' <=> IsKey(d)
    BY <1>3 DEF IsKey
  <2> QED BY <2>1, <1>0, <1>3, <1>5 DEF GamesOwned
<1>10. MapsOwned' /\ TableOK'
  BY <1>3, <1>5 DEF MapsOwned, TableOK, TypeOK
<1>11. KeysOK'
  <2>1. \A b \in Assignment, h \in Game :
          table[b] # None /\ key[table[b]][h] # None => key[table[b]][h] \in Call
    BY DEF TypeOK
  <2>2. \A k \in Call : (\A b \in Assignment : table[b] # k) =>
          \A h \in Game : value'[k][h] = Zero
    BY <1>0, <1>4 DEF KeysOK
  <2> QED BY <1>3, <1>5, <2>1, <2>2 DEF KeysOK, Zero
<1>12. \A d \in Call : CallOK(d)'
  BY <1>3, <1>5 DEF CallOK, Working
<1> QED BY <1>7, <1>8, <1>9, <1>10, <1>11, <1>12

LEMMA IInvInductive == Spec => []IInv
<1>1. IInv /\ [Next]_vars => IInv'
  <2> SUFFICES ASSUME IInv, [Next]_vars PROVE IInv'
    OBVIOUS
  <2>1. ASSUME NEW c \in Call, Step(c) PROVE IInv'
    BY <2>1, RefuseIInv, NewMapIInv, InternNewIInv, InternExistingIInv, InsertNewIInv,
       InsertExistingIInv, RereadIInv, SwapIInv DEF Step
  <2>2. CASE UNCHANGED vars
    <3>1. UNCHANGED <<arg, pc, table, maps, key, value, games, map, old>>
      BY <2>2 DEF vars
    <3>2. TypeOK' /\ NothingLost'
      BY <3>1 DEF IInv, TypeOK, NothingLost
    <3>3. GamesOwned' /\ MapsOwned'
      BY <3>1 DEF IInv, GamesOwned, IsKey, MapsOwned
    <3>4. TableOK' /\ KeysOK'
      BY <3>1 DEF IInv, TableOK, KeysOK, Zero
    <3>5. \A c \in Call : CallOK(c)'
      BY <3>1 DEF IInv, CallOK
    <3> QED BY <3>2, <3>3, <3>4, <3>5 DEF IInv
  <2> QED BY <2>1, <2>2 DEF Next, Finished
<1> QED BY InitIInv, <1>1, PTL DEF Spec

-----------------------------------------------------------------------------
(* Every value is the sum of what was entered for it, whatever the order.  *)
THEOREM TableNothingLost == Spec => []NothingLost
<1>1. IInv => NothingLost
  BY DEF IInv
<1> QED BY IInvInductive, <1>1, PTL

(* A game that was passed in is deleted or kept as a key, never both.      *)
THEOREM TableGamesOwned == Spec => []GamesOwned
<1>1. IInv => GamesOwned
  BY DEF IInv
<1> QED BY IInvInductive, <1>1, PTL

(* No call uses a map that was deleted.                                    *)
THEOREM TableMapsOwned == Spec => []MapsOwned
<1>1. IInv => MapsOwned
  BY DEF IInv
<1> QED BY IInvInductive, <1>1, PTL

-----------------------------------------------------------------------------
(***************************************************************************)
(* The evaluations.  First natural numbers.                                *)
(***************************************************************************)
(* A set of natural numbers has a least element.                           *)
LEMMA LeastNat ==
  ASSUME NEW T, T \subseteq Nat, T # {}
  PROVE  \E x \in T : \A y \in T : x <= y
<1> DEFINE R == OpToRel(<, Nat)
<1>1. \E x \in T : \A y \in T : ~(<<y, x>> \in R)
  BY NatLessThanWellFounded, WFMin, Zenon
<1>2. \A x, y \in Nat : <<y, x>> \in R <=> y < x
  BY DEF OpToRel
<1> HIDE DEF R
<1>3. PICK x \in T : \A y \in T : <<y, x>> \notin R
  BY <1>1, Zenon
<1>4. \A y \in T : ~(y < x)
  BY <1>2, <1>3
<1> QED BY <1>3, <1>4

-----------------------------------------------------------------------------
(***************************************************************************)
(* The arithmetic of unsigned long.                                        *)
(***************************************************************************)
(* Numbers that differ by a multiple have the same remainder.              *)
LEMMA SameRest ==
  ASSUME NEW m \in Nat, m > 0, NEW a \in Nat, NEW q \in Int, a + q * m \in Nat
  PROVE  (a + q * m) % m = a % m
<1> DEFINE b == a + q * m
<1>1. a = m * (a \div m) + (a % m) /\ a \div m \in Int /\ a % m \in 0 .. m - 1
  BY SMT
<1>2. b = m * (b \div m) + (b % m) /\ b \div m \in Int /\ b % m \in 0 .. m - 1
  BY SMT
<1> DEFINE d == (b \div m) - (a \div m) - q
<1>3. d \in Int /\ (a % m) - (b % m) = m * d
  <2>1. b = a + q * m
    OBVIOUS
  <2> DEFINE x == a \div m
             y == b \div m
             r == a % m
             t == b % m
  <2>2. a = m * x + r /\ b = m * y + t /\ x \in Int /\ y \in Int /\ r \in Int /\ t \in Int
    BY <1>1, <1>2
  <2> HIDE DEF b, x, y, r, t
  <2>3. r - t = m * (y - x - q) /\ y - x - q \in Int
    BY <2>1, <2>2
  <2> QED BY <2>3 DEF x, y, r, t
<1> HIDE DEF b, d
<1>4. d = 0
  <2>1. d >= 1 => m * d >= m
    BY <1>3
  <2>2. d <= -1 => m * d <= -m
    BY <1>3
  <2>3. (a % m) - (b % m) < m /\ (a % m) - (b % m) > -m
    BY <1>1, <1>2
  <2> QED BY <1>3, <2>1, <2>2, <2>3
<1>5. a % m = b % m
  <2>1. m * d = 0
    BY <1>4
  <2>2. (a % m) - (b % m) = 0 /\ a % m \in Int /\ b % m \in Int
    BY <1>1, <1>2, <1>3, <2>1
  <2> QED BY <2>2
<1> QED BY <1>5 DEF b

Long == 2 ^ Bits

(* A value fits, and differs from the number by a multiple.                *)
LEMMA ModuloOf ==
  ASSUME NEW a \in Nat
  PROVE  /\ Modulo(a) \in Nat
         /\ \E q \in Int : Modulo(a) = a + q * Long
         /\ Long \in Nat /\ Long > 1
<1>1. Long \in Nat /\ Long > 1
  BY EvaluationsAssumption DEF Long
<1>2. Modulo(a) = a % Long
  BY DEF Modulo, Long
<1> DEFINE M == Long
<1>3. a = M * (a \div M) + (a % M) /\ a \div M \in Int /\ a % M \in 0 .. M - 1
  BY <1>1, SMT
<1>4. a % M \in Nat
  BY <1>1, <1>3
<1>5. \E q \in Int : a % M = a + q * M
  <2> DEFINE x == a \div M
  <2>1. x \in Int /\ a = M * x + (a % M) /\ M \in Int /\ a % M \in Int
    BY <1>1, <1>3
  <2> HIDE DEF x, M
  <2> DEFINE y == -x
  <2>2. y \in Int /\ a % M = a + y * M
    BY <2>1
  <2> HIDE DEF y
  <2> QED BY <2>2
<1> QED BY <1>1, <1>2, <1>4, <1>5

LEMMA ModuloOne == Modulo(1) = 1 /\ Modulo(0) = 0
<1>1. Long \in Nat /\ Long > 1
  BY EvaluationsAssumption DEF Long
<1> DEFINE M == Long
<1>2. 1 % M = 1 /\ 0 % M = 0
  BY <1>1, SMT
<1> QED BY <1>2 DEF Modulo, Long

(* What differs by a multiple is the same value.                           *)
LEMMA ModuloSame ==
  ASSUME NEW a \in Nat, NEW b \in Nat, NEW q \in Int, b = a + q * Long
  PROVE  Modulo(b) = Modulo(a)
<1>1. Long \in Nat /\ Long > 1
  BY EvaluationsAssumption DEF Long
<1>2. (a + q * Long) % Long = a % Long
  <2> DEFINE M == Long
  <2>1. M \in Nat /\ M > 0 /\ a + q * M \in Nat
    BY <1>1
  <2> HIDE DEF M
  <2>2. (a + q * M) % M = a % M
    BY <2>1, SameRest
  <2> QED BY <2>2 DEF M
<1> QED BY <1>2 DEF Modulo, Long

(* Values may be added instead of the numbers,                             *)
LEMMA ModuloPlus ==
  ASSUME NEW a \in Nat, NEW b \in Nat
  PROVE  /\ Modulo(Modulo(a) + Modulo(b)) = Modulo(a + b)
         /\ Modulo(a + Modulo(b)) = Modulo(a + b)
<1>1. PICK p \in Int : Modulo(a) = a + p * Long
  BY ModuloOf
<1>2. PICK q \in Int : Modulo(b) = b + q * Long
  BY ModuloOf
<1>3. Long \in Nat /\ Modulo(a) \in Nat /\ Modulo(b) \in Nat
  BY ModuloOf
<1>4. Modulo(a) + Modulo(b) = (a + b) + (p + q) * Long /\ p + q \in Int
  BY <1>1, <1>2, <1>3
<1>5. a + Modulo(b) = (a + b) + q * Long
  BY <1>2, <1>3
<1>6. Modulo(a) + Modulo(b) \in Nat /\ a + b \in Nat /\ a + Modulo(b) \in Nat
  BY <1>3
<1>7. Modulo(Modulo(a) + Modulo(b)) = Modulo(a + b)
  BY <1>4, <1>6, ModuloSame
<1>8. Modulo(a + Modulo(b)) = Modulo(a + b)
  BY <1>5, <1>6, ModuloSame
<1> QED BY <1>7, <1>8

(* and multiplied.                                                         *)
LEMMA ModuloTimes ==
  ASSUME NEW a \in Nat, NEW b \in Nat
  PROVE  Modulo(Modulo(a) * Modulo(b)) = Modulo(a * b)
<1>1. PICK p \in Int : Modulo(a) = a + p * Long
  BY ModuloOf
<1>2. PICK q \in Int : Modulo(b) = b + q * Long
  BY ModuloOf
<1>3. Long \in Nat /\ Modulo(a) \in Nat /\ Modulo(b) \in Nat
  BY ModuloOf
<1> DEFINE t == a * q + b * p + (p * q) * Long
<1>4. t \in Int
  BY <1>3
<1>5. (a + p * Long) * (b + q * Long) = (a * b) + t * Long
  <2> DEFINE L == Long
  <2>1. L \in Int
    BY <1>3
  <2> HIDE DEF L
  <2>2. (a + p * L) * (b + q * L) = (a * b) + (a * q + b * p + (p * q) * L) * L
    BY <2>1
  <2> QED BY <2>2 DEF L
<1> HIDE DEF t
<1>6. a * b \in Nat /\ Modulo(a) * Modulo(b) \in Nat
  BY <1>3
<1> QED BY <1>1, <1>2, <1>4, <1>5, <1>6, ModuloSame

-----------------------------------------------------------------------------
(***************************************************************************)
(* Folds over finite sets.  Pick(s) is the element that a fold takes next. *)
(***************************************************************************)
Pick(s) == CHOOSE x \in s : TRUE

LEMMA PickIs ==
  ASSUME NEW s, s # {}, IsFiniteSet(s)
  PROVE  /\ Pick(s) \in s
         /\ IsFiniteSet(s \ {Pick(s)})
         /\ Cardinality(s) \in Nat
         /\ Cardinality(s \ {Pick(s)}) = Cardinality(s) - 1
<1>1. Pick(s) \in s
  BY DEF Pick
<1> QED BY <1>1, FS_RemoveElement, FS_CardinalityType

(* What holds of the empty set and comes back with every element picked.   *)
LEMMA SubsetInduction ==
  ASSUME NEW S, IsFiniteSet(S), NEW Good, {} \in Good,
         \A s \in SUBSET S : s # {} /\ s \ {Pick(s)} \in Good => s \in Good
  PROVE  S \in Good
<1> DEFINE Bad == {n \in Nat : \E s \in SUBSET S : Cardinality(s) = n /\ s \notin Good}
<1>1. ASSUME NEW n \in Bad, \A m \in Bad : n <= m PROVE FALSE
  <2>1. PICK s \in SUBSET S : Cardinality(s) = n /\ s \notin Good
    OBVIOUS
  <2>2. s # {} /\ IsFiniteSet(s)
    BY <2>1, FS_Subset
  <2>3. /\ s \ {Pick(s)} \in SUBSET S /\ Cardinality(s \ {Pick(s)}) = n - 1
        /\ Cardinality(s \ {Pick(s)}) \in Nat
    BY <2>1, <2>2, PickIs, FS_CardinalityType
  <2>4. s \ {Pick(s)} \notin Good
    BY <2>1, <2>2
  <2>5. n - 1 \in Bad
    BY <2>3, <2>4
  <2>6. n \in Nat
    OBVIOUS
  <2> HIDE DEF Bad
  <2>7. n <= n - 1
    BY <1>1, <2>5
  <2> QED BY <2>6, <2>7
<1>2. Bad = {}
  <2>1. Bad \subseteq Nat
    OBVIOUS
  <2> HIDE DEF Bad
  <2> QED BY <1>1, <2>1, LeastNat
<1>3. Cardinality(S) \in Nat /\ S \in SUBSET S
  BY FS_CardinalityType
<1> QED BY <1>2, <1>3

UpTo(S, n) == {s \in SUBSET S : Cardinality(s) <= n}

LEMMA UpToIs ==
  ASSUME NEW S, IsFiniteSet(S), NEW n \in Nat
  PROVE  /\ \A s \in UpTo(S, n) : s # {} => s \ {Pick(s)} \in UpTo(S, n)
         /\ n > 0 => \A s \in UpTo(S, n) : s # {} => s \ {Pick(s)} \in UpTo(S, n - 1)
         /\ n > 0 => UpTo(S, n - 1) \subseteq UpTo(S, n)
         /\ \A s \in UpTo(S, 0) : s = {}
         /\ UpTo(S, Cardinality(S)) = SUBSET S
<1>1. \A s \in SUBSET S : /\ IsFiniteSet(s) /\ Cardinality(s) \in Nat
                          /\ Cardinality(s) <= Cardinality(S)
  BY FS_Subset, FS_CardinalityType
<1>2. \A s \in SUBSET S : s # {} => /\ s \ {Pick(s)} \in SUBSET S
                                    /\ Cardinality(s \ {Pick(s)}) = Cardinality(s) - 1
  BY <1>1, PickIs
<1>3. \A s \in SUBSET S : Cardinality(s) <= 0 => s = {}
  BY <1>1, FS_EmptySet
<1> QED BY <1>1, <1>2, <1>3 DEF UpTo

-----------------------------------------------------------------------------
(***************************************************************************)
(* The sum of a function.                                                  *)
(***************************************************************************)
SumIs(f, iter, S) ==
  iter = [s \in SUBSET S |-> IF s = {} THEN 0 ELSE f[Pick(s)] + iter[s \ {Pick(s)}]]

LEMMA SumExists ==
  ASSUME NEW S, IsFiniteSet(S), NEW f
  PROVE  \E iter : SumIs(f, iter, S)
<1> DEFINE Partly(h, n) ==
             h = [s \in UpTo(S, n) |-> IF s = {} THEN 0 ELSE f[Pick(s)] + h[s \ {Pick(s)}]]
           Bad == {n \in Nat : ~\E h : Partly(h, n)}
<1>1. Partly([s \in UpTo(S, 0) |-> 0], 0)
  BY UpToIs
<1>2. ASSUME NEW n \in Nat, n > 0, NEW g, Partly(g, n - 1) PROVE \E h : Partly(h, n)
  <2> DEFINE h == [s \in UpTo(S, n) |-> IF s = {} THEN 0 ELSE f[Pick(s)] + g[s \ {Pick(s)}]]
  <2>1. ASSUME NEW s \in UpTo(S, n - 1) PROVE h[s] = g[s]
    <3>1. s \in UpTo(S, n)
      BY <1>2, UpToIs
    <3>2. g[s] = IF s = {} THEN 0 ELSE f[Pick(s)] + g[s \ {Pick(s)}]
      BY <1>2
    <3> QED BY <3>1, <3>2
  <2>2. \A s \in UpTo(S, n) :
          h[s] = IF s = {} THEN 0 ELSE f[Pick(s)] + g[s \ {Pick(s)}]
    OBVIOUS
  <2>3. h = [s \in UpTo(S, n) |-> h[s]]
    OBVIOUS
  <2> HIDE DEF h
  <2>4. \A s \in UpTo(S, n) : s # {} => g[s \ {Pick(s)}] = h[s \ {Pick(s)}]
    BY <1>2, <2>1, UpToIs
  <2>5. \A s \in UpTo(S, n) :
          h[s] = IF s = {} THEN 0 ELSE f[Pick(s)] + h[s \ {Pick(s)}]
    BY <2>2, <2>4
  <2>6. Partly(h, n)
    BY <2>3, <2>5
  <2> QED BY <2>6
<1>3. Bad = {}
  <2> SUFFICES ASSUME Bad # {} PROVE FALSE
    OBVIOUS
  <2>1. Bad \subseteq Nat
    OBVIOUS
  <2>2. PICK n \in Bad : \A m \in Bad : n <= m
    <3> HIDE DEF Bad
    <3> QED BY <2>1, LeastNat
  <2>3. n \in Nat /\ n # 0 /\ ~\E h : Partly(h, n)
    BY <1>1
  <2>4. n - 1 \in Nat /\ ~(n <= n - 1) /\ n > 0
    BY <2>3
  <2>5. n - 1 \notin Bad
    BY <2>2, <2>4
  <2>6. \E g : Partly(g, n - 1)
    BY <2>4, <2>5
  <2> HIDE DEF Partly, Bad
  <2> QED BY <1>2, <2>3, <2>4, <2>6
<1>4. Cardinality(S) \in Nat
  BY FS_CardinalityType
<1>5. PICK h : Partly(h, Cardinality(S))
  BY <1>3, <1>4
<1>6. UpTo(S, Cardinality(S)) = SUBSET S
  BY <1>4, UpToIs
<1> QED BY <1>5, <1>6 DEF SumIs

(* The sum that the library computes is one of these.                      *)
LEMMA SumFunctionIs ==
  ASSUME NEW f, NEW S, DOMAIN f = S, IsFiniteSet(S)
  PROVE  \E iter : SumIs(f, iter, S) /\ SumFunction(f) = iter[S]
<1> DEFINE iter == CHOOSE g : SumIs(f, g, S)
<1>1. SumIs(f, iter, S)
  BY SumExists, Zenon
<1>2. SumFunction(f) = (CHOOSE g : SumIs(f, g, DOMAIN f))[DOMAIN f]
  BY Zenon DEF SumFunction, SumFunctionOnSet, FoldFunctionOnSet, MapThenFoldSet, SumIs, Pick
<1> HIDE DEF iter
<1>3. SumFunction(f) = iter[S]
  BY <1>2, Zenon DEF iter
<1> QED BY <1>1, <1>3

(* The elements of Z whose index is in s.                                  *)
Over(Z, index, s) == {z \in Z : index[z] \in s}

(* The things with the index x are counted apart from the others.          *)
LEMMA OverSplits ==
  ASSUME NEW Z, IsFiniteSet(Z), NEW index, NEW s, NEW x \in s
  PROVE  /\ Cardinality(Over(Z, index, s \ {x})) \in Nat
         /\ Cardinality(Over(Z, index, {x})) \in Nat
         /\ Cardinality(Over(Z, index, s))
              = Cardinality(Over(Z, index, {x})) + Cardinality(Over(Z, index, s \ {x}))
<1> DEFINE A == Over(Z, index, {x})
           B == Over(Z, index, s \ {x})
<1>1. A \in SUBSET Z /\ B \in SUBSET Z
  BY DEF Over
<1>2. A \cup B = Over(Z, index, s) /\ A \cap B = {}
  BY DEF Over
<1>3. IsFiniteSet(A) /\ IsFiniteSet(B)
  BY <1>1, FS_Subset
<1> HIDE DEF A, B
<1>4. Cardinality(A \cup B) = Cardinality(A) + Cardinality(B) - Cardinality(A \cap B)
  BY <1>3, FS_Union
<1>5. Cardinality(A) \in Nat /\ Cardinality(B) \in Nat /\ Cardinality({}) = 0
  BY <1>3, FS_CardinalityType, FS_EmptySet
<1>6. Cardinality(Over(Z, index, s)) = Cardinality(A) + Cardinality(B)
  <2>1. Cardinality(Over(Z, index, s)) = Cardinality(A \cup B) /\ Cardinality(A \cap B) = 0
    BY <1>2, <1>5, Zenon
  <2> QED BY <1>4, <1>5, <2>1
<1> QED BY <1>5, <1>6 DEF A, B

(***************************************************************************)
(* A sum of numbers of things by their index is the number of all things.  *)
(***************************************************************************)
LEMMA SumCounts ==
  ASSUME NEW S, IsFiniteSet(S), NEW f \in [S -> Nat], NEW Z, IsFiniteSet(Z), NEW index,
         \A i \in S : Modulo(f[i]) = Modulo(Cardinality(Over(Z, index, {i})))
  PROVE  Modulo(SumFunction(f)) = Modulo(Cardinality(Over(Z, index, S)))
<1>1. PICK iter : SumIs(f, iter, S) /\ SumFunction(f) = iter[S]
  BY SumFunctionIs
<1> DEFINE Good == {s \in SUBSET S : /\ iter[s] \in Nat
                                     /\ Modulo(iter[s]) = Modulo(Cardinality(Over(Z, index, s)))}
<1>2. \A s \in SUBSET S : iter[s] = IF s = {} THEN 0 ELSE f[Pick(s)] + iter[s \ {Pick(s)}]
  BY <1>1 DEF SumIs
<1>3. {} \in Good
  <2>1. iter[{}] = 0
    BY <1>2
  <2>2. Over(Z, index, {}) = {}
    BY DEF Over
  <2>3. Cardinality({}) = 0
    BY FS_EmptySet
  <2> QED BY <2>1, <2>2, <2>3
<1>4. ASSUME NEW s \in SUBSET S, s # {}, s \ {Pick(s)} \in Good PROVE s \in Good
  <2> DEFINE x == Pick(s)
             a == Cardinality(Over(Z, index, {x}))
             b == Cardinality(Over(Z, index, s \ {x}))
  <2>1. x \in s /\ x \in S /\ f[x] \in Nat
    BY <1>4 DEF Pick
  <2>2. iter[s] = f[x] + iter[s \ {x}] /\ iter[s \ {x}] \in Nat
    BY <1>2, <1>4
  <2>3. Modulo(iter[s \ {x}]) = Modulo(b) /\ Modulo(f[x]) = Modulo(a)
    BY <1>4, <2>1
  <2>4. a \in Nat /\ b \in Nat /\ Cardinality(Over(Z, index, s)) = a + b
    BY <2>1, OverSplits
  <2> HIDE DEF x, a, b, Good
  <2>5. Modulo(f[x] + iter[s \ {x}]) = Modulo(Modulo(a) + Modulo(b))
    BY <2>1, <2>2, <2>3, ModuloPlus
  <2>6. Modulo(Modulo(a) + Modulo(b)) = Modulo(a + b)
    BY <2>4, ModuloPlus
  <2>7. iter[s] \in Nat
    BY <2>1, <2>2
  <2> QED BY <2>2, <2>4, <2>5, <2>6, <2>7 DEF Good
<1>5. S \in Good
  <2> HIDE DEF Good
  <2> QED BY <1>3, <1>4, SubsetInduction
<1> QED BY <1>1, <1>5

-----------------------------------------------------------------------------
(***************************************************************************)
(* Sets of solutions: S, T and U have sets of vertices in them.            *)
(***************************************************************************)
OfSize(S, n) == {x \in S : Cardinality(x) = n}
Unions(S, T) == {x \cup y : x \in S, y \in T}

(* The two parts can be read off their union: one lies in A, one in B, and *)
(* what they have in common is E.                                          *)
Apart(S, T, A, B, E) ==
  \A x \in S, y \in T : x = (x \cup y) \cap A /\ y = (x \cup y) \cap B /\ x \cap y = E

LEMMA SetsFinite ==
  ASSUME NEW S \in SUBSET SUBSET Vertices
  PROVE  /\ IsFiniteSet(S) /\ Cardinality(S) \in Nat
         /\ \A x \in S : IsFiniteSet(x) /\ Cardinality(x) \in Nat
<1>1. IsFiniteSet(Vertices)
  BY EvaluationsAssumption
<1>2. IsFiniteSet(SUBSET Vertices)
  BY <1>1, FS_SUBSET
<1>3. IsFiniteSet(S)
  BY <1>2, FS_Subset
<1>4. \A x \in S : IsFiniteSet(x)
  BY <1>1, FS_Subset
<1> QED BY <1>3, <1>4, FS_CardinalityType

LEMMA UnionSize ==
  ASSUME NEW x \in SUBSET Vertices, NEW y \in SUBSET Vertices
  PROVE  /\ Cardinality(x \cup y) = Cardinality(x) + Cardinality(y) - Cardinality(x \cap y)
         /\ Cardinality(x) \in Nat /\ Cardinality(y) \in Nat
         /\ Cardinality(x \cap y) \in Nat
         /\ Cardinality(x \cap y) <= Cardinality(x) /\ Cardinality(x \cap y) <= Cardinality(y)
<1>1. IsFiniteSet(x) /\ IsFiniteSet(y)
  BY EvaluationsAssumption, FS_Subset
<1>2. IsFiniteSet(x \cap y)
  BY <1>1, FS_Intersection
<1> QED BY <1>1, <1>2, FS_Union, FS_Intersection, FS_CardinalityType

LEMMA DisjointSum ==
  ASSUME NEW S \in SUBSET SUBSET Vertices, NEW T \in SUBSET SUBSET Vertices, S \cap T = {}
  PROVE  Cardinality(S \cup T) = Cardinality(S) + Cardinality(T)
<1>1. IsFiniteSet(S) /\ IsFiniteSet(T) /\ Cardinality(S) \in Nat /\ Cardinality(T) \in Nat
  BY SetsFinite
<1>2. Cardinality(S \cup T) = Cardinality(S) + Cardinality(T) - Cardinality(S \cap T)
  BY <1>1, FS_Union
<1>3. Cardinality(S \cap T) = 0
  BY FS_EmptySet, Zenon
<1> QED BY <1>1, <1>2, <1>3

(* Parts that can be told apart make a union each.                         *)
LEMMA UnionsCount ==
  ASSUME NEW S \in SUBSET SUBSET Vertices, NEW T \in SUBSET SUBSET Vertices,
         NEW A, NEW B, NEW E, Apart(S, T, A, B, E)
  PROVE  Cardinality(Unions(S, T)) = Cardinality(S) * Cardinality(T)
<1> DEFINE P == S \X T
           U == Unions(S, T)
           f == [p \in P |-> p[1] \cup p[2]]
<1>1. \A p \in P : p[1] \in S /\ p[2] \in T /\ p = <<p[1], p[2]>>
  OBVIOUS
<1>2. f \in [P -> U]
  BY <1>1 DEF Unions
<1>3. \A p \in P : p[1] = f[p] \cap A /\ p[2] = f[p] \cap B
  BY <1>1 DEF Apart
<1>4. \A p, q \in P : f[p] = f[q] => p = q
  <2> SUFFICES ASSUME NEW p \in P, NEW q \in P, f[p] = f[q] PROVE p = q
    OBVIOUS
  <2> HIDE DEF f, P
  <2>1. p[1] = q[1] /\ p[2] = q[2]
    BY <1>3
  <2> QED BY <1>1, <2>1
<1>5. \A u \in U : \E p \in P : f[p] = u
  <2> SUFFICES ASSUME NEW u \in U PROVE \E p \in P : f[p] = u
    OBVIOUS
  <2>1. PICK x \in S, y \in T : u = x \cup y
    BY DEF Unions
  <2>2. <<x, y>> \in P /\ f[<<x, y>>] = u
    BY <2>1
  <2> QED BY <2>2
<1> HIDE DEF f, P, U
<1>6. f \in Bijection(P, U)
  BY <1>2, <1>4, <1>5 DEF Bijection, Injection, Surjection, IsInjective
<1>7. IsFiniteSet(S) /\ IsFiniteSet(T)
  BY SetsFinite
<1>8. IsFiniteSet(P) /\ Cardinality(P) = Cardinality(S) * Cardinality(T)
  BY <1>7, FS_Product DEF P
<1>9. Cardinality(U) = Cardinality(P)
  BY <1>6, <1>8, FS_Bijection DEF ExistsBijection
<1> QED BY <1>8, <1>9 DEF U

-----------------------------------------------------------------------------
(***************************************************************************)
(* The value of a set of solutions, evaluation by evaluation.              *)
(***************************************************************************)
SizesOK(sizes, S) ==
  /\ \E top \in Nat : DOMAIN sizes = 0 .. top
  /\ \A n \in DOMAIN sizes : sizes[n] = Modulo(Cardinality(OfSize(S, n)))
  /\ \A x \in S : Cardinality(x) \in DOMAIN sizes

Composed(c, S) == c.set \in S /\ c.size = Cardinality(c.set)

Value(v, S) ==
  /\ v.count = Modulo(Cardinality(S))
  /\ SizesOK(v.sizes, S)
  /\ IsLeast(v.least, S) /\ IsMost(v.most, S)
  /\ Composed(v.smallest, S) /\ IsLeast(v.smallest.size, S)
  /\ Composed(v.largest, S) /\ IsMost(v.largest.size, S)
  /\ v.witness \in S

LEMMA OfSizeType ==
  ASSUME NEW S \in SUBSET SUBSET Vertices, NEW n
  PROVE  OfSize(S, n) \in SUBSET SUBSET Vertices /\ Cardinality(OfSize(S, n)) \in Nat
<1>1. OfSize(S, n) \in SUBSET SUBSET Vertices
  BY DEF OfSize
<1> QED BY <1>1, SetsFinite

(***************************************************************************)
(* elem(): one solution.                                                   *)
(***************************************************************************)
LEMMA ElemSizes ==
  ASSUME NEW E \in SUBSET Vertices
  PROVE  SizesOK(Elem(E).sizes, {E})
<1> DEFINE size == Cardinality(E)
           sizes == [n \in 0 .. size |-> IF n = size THEN 1 ELSE 0]
<1>1. size \in Nat
  BY UnionSize
<1>2. Elem(E).sizes = sizes
  BY DEF Elem
<1>3. Cardinality(OfSize({E}, size)) = 1
  <2>1. OfSize({E}, size) = {E}
    BY DEF OfSize
  <2> QED BY <2>1, FS_Singleton, Zenon
<1>4. \A n : n # size => Cardinality(OfSize({E}, n)) = 0
  <2>1. \A n : n # size => OfSize({E}, n) = {}
    BY DEF OfSize
  <2> QED BY <2>1, FS_EmptySet, Zenon
<1> HIDE DEF size
<1>5. \A n \in 0 .. size : sizes[n] = Modulo(Cardinality(OfSize({E}, n)))
  <2> SUFFICES ASSUME NEW n \in 0 .. size
               PROVE  sizes[n] = Modulo(Cardinality(OfSize({E}, n)))
    OBVIOUS
  <2>1. CASE n = size
    BY <1>3, <2>1, ModuloOne
  <2>2. CASE n # size
    BY <1>4, <2>2, ModuloOne
  <2> QED BY <2>1, <2>2
<1>6. DOMAIN sizes = 0 .. size /\ size \in 0 .. size
  BY <1>1
<1> HIDE DEF sizes
<1>7. SizesOK(sizes, {E})
  BY <1>1, <1>5, <1>6 DEF SizesOK, size
<1> QED BY <1>2, <1>7

LEMMA ElemValue ==
  ASSUME NEW E \in SUBSET Vertices
  PROVE  Value(Elem(E), {E})
<1>1. Cardinality(E) \in Nat
  BY UnionSize
<1>2. Cardinality({E}) = 1
  BY FS_Singleton
<1>3. Elem(E).count = Modulo(Cardinality({E}))
  BY <1>2, ModuloOne DEF Elem
<1>4. /\ Elem(E).least = Cardinality(E) /\ Elem(E).most = Cardinality(E)
      /\ Elem(E).smallest = [size |-> Cardinality(E), set |-> E]
      /\ Elem(E).largest = [size |-> Cardinality(E), set |-> E]
      /\ Elem(E).witness = E
  BY DEF Elem
<1>5. /\ Elem(E).smallest.set = E /\ Elem(E).smallest.size = Cardinality(E)
      /\ Elem(E).largest.set = E /\ Elem(E).largest.size = Cardinality(E)
  BY <1>4
<1>6. IsLeast(Cardinality(E), {E}) /\ IsMost(Cardinality(E), {E})
  BY <1>1 DEF IsLeast, IsMost
<1> QED BY <1>3, <1>4, <1>5, <1>6, ElemSizes DEF Value, Composed

(***************************************************************************)
(* add(): solutions of the one set or the other, none in both.             *)
(***************************************************************************)
LEMMA SizeAt ==
  ASSUME NEW S, NEW s, SizesOK(s, S), NEW n
  PROVE  (IF n \in DOMAIN s THEN s[n] ELSE 0) = Modulo(Cardinality(OfSize(S, n)))
<1>1. CASE n \in DOMAIN s
  BY <1>1 DEF SizesOK
<1>2. CASE n \notin DOMAIN s
  <2>1. OfSize(S, n) = {}
    BY <1>2 DEF SizesOK, OfSize
  <2>2. Cardinality(OfSize(S, n)) = 0
    BY <2>1, FS_EmptySet, Zenon
  <2> QED BY <1>2, <2>2, ModuloOne
<1> QED BY <1>1, <1>2

LEMMA AddSizes ==
  ASSUME NEW S \in SUBSET SUBSET Vertices, NEW T \in SUBSET SUBSET Vertices, S \cap T = {},
         NEW x, SizesOK(x, S), NEW y, SizesOK(y, T)
  PROVE  SizesOK(SizesAdd(x, y), S \cup T)
<1> DEFINE At(s, n) == IF n \in DOMAIN s THEN s[n] ELSE 0
           z == [n \in DOMAIN x \cup DOMAIN y |-> Modulo(At(x, n) + At(y, n))]
<1>1. z = SizesAdd(x, y)
  BY DEF SizesAdd
<1>2. PICK a \in Nat : DOMAIN x = 0 .. a
  BY DEF SizesOK
<1>3. PICK b \in Nat : DOMAIN y = 0 .. b
  BY DEF SizesOK
<1>4. \E top \in Nat : DOMAIN z = 0 .. top
  <2>1. CASE a <= b
    <3>1. DOMAIN z = 0 .. b
      BY <1>2, <1>3, <2>1
    <3> QED BY <3>1
  <2>2. CASE b <= a
    <3>1. DOMAIN z = 0 .. a
      BY <1>2, <1>3, <2>2
    <3> QED BY <3>1
  <2> QED BY <2>1, <2>2
<1>5. ASSUME NEW n
      PROVE  /\ At(x, n) = Modulo(Cardinality(OfSize(S, n)))
             /\ At(y, n) = Modulo(Cardinality(OfSize(T, n)))
  BY SizeAt
<1>6. ASSUME NEW n \in DOMAIN z PROVE z[n] = Modulo(Cardinality(OfSize(S \cup T, n)))
  <2> DEFINE p == Cardinality(OfSize(S, n))
             q == Cardinality(OfSize(T, n))
  <2>1. p \in Nat /\ q \in Nat
    BY OfSizeType
  <2>2. z[n] = Modulo(Modulo(p) + Modulo(q))
    BY <1>5
  <2>3. OfSize(S \cup T, n) = OfSize(S, n) \cup OfSize(T, n) /\ OfSize(S, n) \cap OfSize(T, n) = {}
    BY DEF OfSize
  <2>4. Cardinality(OfSize(S, n) \cup OfSize(T, n)) = p + q
    BY <2>3, OfSizeType, DisjointSum
  <2>5. Cardinality(OfSize(S \cup T, n)) = p + q
    BY <2>3, <2>4, Zenon
  <2> HIDE DEF p, q, z
  <2> QED BY <2>1, <2>2, <2>5, ModuloPlus
<1>7. \A u \in S \cup T : Cardinality(u) \in DOMAIN z
  BY DEF SizesOK
<1> HIDE DEF z
<1>8. SizesOK(z, S \cup T)
  BY <1>4, <1>6, <1>7 DEF SizesOK
<1> QED BY <1>1, <1>8

(* The value of the sets together is the sum, evaluation by evaluation.    *)
LEMMA AddValue ==
  ASSUME NEW S \in SUBSET SUBSET Vertices, NEW T \in SUBSET SUBSET Vertices, S \cap T = {},
         NEW v, Value(v, S), NEW w, Value(w, T)
  PROVE  Value(Add(v, w), S \cup T)
<1> DEFINE z == Add(v, w)
           U == S \cup T
<1>1. /\ z.count = Modulo(v.count + w.count)
      /\ z.sizes = SizesAdd(v.sizes, w.sizes)
      /\ z.least = IF v.least < w.least THEN v.least ELSE w.least
      /\ z.most = IF v.most > w.most THEN v.most ELSE w.most
      /\ z.smallest = IF v.smallest.size < w.smallest.size THEN v.smallest ELSE w.smallest
      /\ z.largest = IF v.largest.size > w.largest.size THEN v.largest ELSE w.largest
      /\ z.witness = v.witness
  BY DEF Add
<1> HIDE DEF z
<1>2. z.count = Modulo(Cardinality(U))
  <2>1. Cardinality(S) \in Nat /\ Cardinality(T) \in Nat
    BY SetsFinite
  <2>2. Cardinality(U) = Cardinality(S) + Cardinality(T)
    BY DisjointSum
  <2>3. v.count = Modulo(Cardinality(S)) /\ w.count = Modulo(Cardinality(T))
    BY DEF Value
  <2> HIDE DEF U
  <2> QED BY <1>1, <2>1, <2>2, <2>3, ModuloPlus
<1>3. SizesOK(z.sizes, U)
  BY <1>1, AddSizes DEF Value
<1>4. /\ \A x \in S : Cardinality(x) \in Nat
      /\ \A x \in T : Cardinality(x) \in Nat
  BY SetsFinite
<1>5. ASSUME NEW m, IsLeast(m, S), NEW n, IsLeast(n, T)
      PROVE  IsLeast(IF m < n THEN m ELSE n, U) /\ m \in Nat /\ n \in Nat
  BY <1>4, <1>5 DEF IsLeast
<1>6. ASSUME NEW m, IsMost(m, S), NEW n, IsMost(n, T)
      PROVE  IsMost(IF m > n THEN m ELSE n, U) /\ m \in Nat /\ n \in Nat
  BY <1>4, <1>6 DEF IsMost
<1>7. IsLeast(z.least, U) /\ IsMost(z.most, U)
  BY <1>1, <1>5, <1>6 DEF Value
<1>8. z.smallest.size = IF v.smallest.size < w.smallest.size
                        THEN v.smallest.size ELSE w.smallest.size
  BY <1>1
<1>9. z.largest.size = IF v.largest.size > w.largest.size
                       THEN v.largest.size ELSE w.largest.size
  BY <1>1
<1>10. IsLeast(z.smallest.size, U) /\ IsMost(z.largest.size, U)
  BY <1>5, <1>6, <1>8, <1>9 DEF Value
<1>11. Composed(z.smallest, U) /\ Composed(z.largest, U) /\ z.witness \in U
  BY <1>1 DEF Value, Composed
<1>12. Value(z, U)
  BY <1>2, <1>3, <1>7, <1>10, <1>11 DEF Value
<1> QED BY <1>12 DEF z

(***************************************************************************)
(* mult(): the unions of two parts that have E in common.                  *)
(***************************************************************************)
UnionsFit(S, T, E) ==
  \A x \in S, y \in T :
    /\ Cardinality(x \cup y) = Cardinality(x) + Cardinality(y) - Cardinality(E)
    /\ Cardinality(x) \in Nat /\ Cardinality(y) \in Nat /\ Cardinality(E) \in Nat
    /\ Cardinality(E) <= Cardinality(x) /\ Cardinality(E) <= Cardinality(y)

LEMMA UnionsOf ==
  ASSUME NEW S \in SUBSET SUBSET Vertices, NEW T \in SUBSET SUBSET Vertices,
         NEW A, NEW B, NEW E \in SUBSET Vertices, Apart(S, T, A, B, E)
  PROVE  Unions(S, T) \in SUBSET SUBSET Vertices /\ UnionsFit(S, T, E)
<1>1. Unions(S, T) \in SUBSET SUBSET Vertices
  BY DEF Unions
<1>2. ASSUME NEW x \in S, NEW y \in T
      PROVE  /\ Cardinality(x \cup y) = Cardinality(x) + Cardinality(y) - Cardinality(E)
             /\ Cardinality(x) \in Nat /\ Cardinality(y) \in Nat /\ Cardinality(E) \in Nat
             /\ Cardinality(E) <= Cardinality(x) /\ Cardinality(E) <= Cardinality(y)
  <2>1. x \cap y = E
    BY DEF Apart
  <2>2. Cardinality(x \cap y) = Cardinality(E)
    BY <2>1, Zenon
  <2>3. x \in SUBSET Vertices /\ y \in SUBSET Vertices
    OBVIOUS
  <2>4. /\ Cardinality(x \cup y) = Cardinality(x) + Cardinality(y) - Cardinality(x \cap y)
        /\ Cardinality(x) \in Nat /\ Cardinality(y) \in Nat
        /\ Cardinality(x \cap y) \in Nat
        /\ Cardinality(x \cap y) <= Cardinality(x) /\ Cardinality(x \cap y) <= Cardinality(y)
    BY <2>3, UnionSize, Zenon
  <2> QED BY <2>2, <2>4
<1> QED BY <1>1, <1>2, Zenon DEF UnionsFit

LEMMA FirstOfElem ==
  ASSUME NEW E \in SUBSET Vertices
  PROVE  Cardinality(E)
           = CHOOSE n \in DOMAIN Elem(E).sizes :
               /\ Elem(E).sizes[n] > 0
               /\ \A m \in DOMAIN Elem(E).sizes : Elem(E).sizes[m] > 0 => n <= m
<1> DEFINE c == Cardinality(E)
           e == [n \in 0 .. c |-> IF n = c THEN 1 ELSE 0]
<1>1. c \in Nat
  BY UnionSize
<1>2. Elem(E).sizes = e
  BY DEF Elem
<1> HIDE DEF c
<1>3. /\ c \in DOMAIN e /\ e[c] > 0
      /\ \A n \in DOMAIN e : e[n] > 0 => n = c
  BY <1>1
<1> HIDE DEF e
<1>4. c = CHOOSE n \in DOMAIN e : e[n] > 0 /\ \A m \in DOMAIN e : e[m] > 0 => n <= m
  <2>1. \A m \in DOMAIN e : e[m] > 0 => c <= m
    BY <1>1, <1>3
  <2> QED BY <1>3, <2>1
<1> QED BY <1>2, <1>4 DEF c

(* The vector of a product: c is the size of what the parts share, a and b *)
(* are the last indices of their vectors.                                  *)
SizesOfMult(x, y, c, a, b) ==
  [n \in 0 .. a + b - c |->
     Modulo(SumFunction([i \in {j \in 0 .. a : j >= c /\ n >= j /\ n + c - j \in 0 .. b} |->
                           x[i] * y[n + c - i]]))]

(* The model's product of two vectors is this one.                         *)
LEMMA SizesMultOf ==
  ASSUME NEW x, NEW y, NEW E \in SUBSET Vertices, NEW a \in Nat, NEW b \in Nat,
         DOMAIN x = 0 .. a, DOMAIN y = 0 .. b
  PROVE  SizesMult(x, y, Elem(E).sizes) = SizesOfMult(x, y, Cardinality(E), a, b)
<1> DEFINE c == Cardinality(E)
           e == Elem(E).sizes
           first == CHOOSE n \in DOMAIN e : /\ e[n] > 0
                                            /\ \A m \in DOMAIN e : e[m] > 0 => n <= m
           H(d, top, X, Y) ==
             [n \in 0 .. top |->
                Modulo(SumFunction([i \in {j \in X : j >= d /\ n >= j /\ n + d - j \in Y} |->
                                      x[i] * y[n + d - i]]))]
           length(k, l, d) == k + l - d - 1
<1>1. SizesMult(x, y, e) = H(first, length(Cardinality(DOMAIN x), Cardinality(DOMAIN y), first) - 1,
                             DOMAIN x, DOMAIN y)
  BY DEF SizesMult
<1>2. c = first
  BY FirstOfElem, Zenon
<1>3. Cardinality(0 .. a) = a + 1 /\ Cardinality(0 .. b) = b + 1
  <2>1. 0 \in Int /\ a \in Int /\ b \in Int /\ ~(0 > a) /\ ~(0 > b)
    OBVIOUS
  <2> QED BY <2>1, FS_Interval
<1>4. Cardinality(DOMAIN x) = a + 1 /\ Cardinality(DOMAIN y) = b + 1
  BY <1>3, Zenon
<1>5. c \in Nat
  BY UnionSize
<1>6. length(a + 1, b + 1, c) - 1 = a + b - c
  <2> HIDE DEF c
  <2> QED BY <1>5
<1>7. H(c, a + b - c, 0 .. a, 0 .. b) = SizesOfMult(x, y, c, a, b)
  BY DEF SizesOfMult
<1> HIDE DEF c, e, first, H, length
<1>8. SizesMult(x, y, e) = SizesOfMult(x, y, c, a, b)
  BY <1>1, <1>2, <1>4, <1>6, <1>7, Zenon
<1> QED BY <1>8 DEF c, e

(* The unions of every size are counted: each has one pair of parts.       *)
LEMMA MultSizes ==
  ASSUME NEW S \in SUBSET SUBSET Vertices, NEW T \in SUBSET SUBSET Vertices,
         NEW A, NEW B, NEW E \in SUBSET Vertices, Apart(S, T, A, B, E),
         S # {}, T # {}, NEW x, SizesOK(x, S), NEW y, SizesOK(y, T)
  PROVE  SizesOK(SizesMult(x, y, Elem(E).sizes), Unions(S, T))
<1> DEFINE c == Cardinality(E)
           U == Unions(S, T)
<1>1. PICK a \in Nat : DOMAIN x = 0 .. a
  BY DEF SizesOK
<1>2. PICK b \in Nat : DOMAIN y = 0 .. b
  BY DEF SizesOK
<1> DEFINE I(n) == {j \in 0 .. a : j >= c /\ n >= j /\ n + c - j \in 0 .. b}
           f(n) == [i \in I(n) |-> x[i] * y[n + c - i]]
           z == [n \in 0 .. a + b - c |-> Modulo(SumFunction(f(n)))]
<1>3. z = SizesMult(x, y, Elem(E).sizes)
  <2>1. z = SizesOfMult(x, y, c, a, b)
    BY DEF SizesOfMult
  <2>2. SizesMult(x, y, Elem(E).sizes) = SizesOfMult(x, y, c, a, b)
    BY <1>1, <1>2, SizesMultOf
  <2> QED BY <2>1, <2>2, Zenon
<1>4. U \in SUBSET SUBSET Vertices
  BY UnionsOf
<1>5. /\ c \in Nat
      /\ \A p \in S, q \in T :
           /\ Cardinality(p \cup q) = Cardinality(p) + Cardinality(q) - c
           /\ Cardinality(p) \in 0 .. a /\ Cardinality(q) \in 0 .. b
           /\ c <= Cardinality(p) /\ c <= Cardinality(q)
  <2>1. \A p \in S, q \in T :
           /\ Cardinality(p \cup q) = Cardinality(p) + Cardinality(q) - c
           /\ c <= Cardinality(p) /\ c <= Cardinality(q)
    <3>1. UnionsFit(S, T, E)
      BY UnionsOf
    <3> QED BY <3>1, Zenon DEF UnionsFit
  <2>2. \A p \in S, q \in T : Cardinality(p) \in 0 .. a /\ Cardinality(q) \in 0 .. b
    BY <1>1, <1>2 DEF SizesOK
  <2> QED BY <2>1, <2>2, UnionSize
<1>6. ASSUME NEW n \in 0 .. a + b - c
      PROVE  z[n] = Modulo(Cardinality(OfSize(U, n)))
  <2> DEFINE Z == OfSize(U, n)
             index == [u \in Z |-> Cardinality(u \cap A)]
  <2>1. n \in Nat /\ z[n] = Modulo(SumFunction(f(n)))
    BY <1>5
  <2>2. Z \in SUBSET SUBSET Vertices /\ IsFiniteSet(Z)
    BY <1>4, OfSizeType, SetsFinite
  <2>3. ASSUME NEW i \in I(n)
        PROVE  /\ f(n)[i] \in Nat
               /\ Modulo(f(n)[i]) = Modulo(Cardinality(Over(Z, index, {i})))
    <3> DEFINE j == n + c - i
               P == OfSize(S, i)
               Q == OfSize(T, j)
    <3>1. i \in 0 .. a /\ j \in 0 .. b /\ f(n)[i] = x[i] * y[j]
      OBVIOUS
    <3>2. x[i] = Modulo(Cardinality(P)) /\ y[j] = Modulo(Cardinality(Q))
      BY <1>1, <1>2, <3>1 DEF SizesOK
    <3>3. /\ P \in SUBSET SUBSET Vertices /\ Q \in SUBSET SUBSET Vertices
          /\ Cardinality(P) \in Nat /\ Cardinality(Q) \in Nat
      BY OfSizeType
    <3>4. Apart(P, Q, A, B, E)
      BY DEF Apart, OfSize
    <3>5. Cardinality(Unions(P, Q)) = Cardinality(P) * Cardinality(Q)
      BY <3>3, <3>4, UnionsCount
    <3>6. Over(Z, index, {i}) = Unions(P, Q)
      <4>1. ASSUME NEW u \in Over(Z, index, {i}) PROVE u \in Unions(P, Q)
        <5>1. u \in U /\ Cardinality(u) = n /\ Cardinality(u \cap A) = i
          BY DEF Over, OfSize
        <5>2. PICK p \in S, q \in T : u = p \cup q
          BY <5>1 DEF Unions
        <5>3. p = u \cap A
          BY <5>2 DEF Apart
        <5>4. Cardinality(p) = i
          BY <5>1, <5>3, Zenon
        <5>5. n = Cardinality(p) + Cardinality(q) - c /\ Cardinality(q) \in Nat
          BY <1>5, <5>1, <5>2
        <5>6. Cardinality(q) = j
          <6>1. i \in Nat
            BY <3>1
          <6> HIDE DEF c
          <6> QED BY <1>5, <2>1, <5>4, <5>5, <6>1
        <5>7. p \in P /\ q \in Q
          BY <5>4, <5>6 DEF OfSize
        <5> QED BY <5>2, <5>7 DEF Unions
      <4>2. ASSUME NEW u \in Unions(P, Q) PROVE u \in Over(Z, index, {i})
        <5>1. PICK p \in P, q \in Q : u = p \cup q
          BY DEF Unions
        <5>2. p \in S /\ q \in T /\ Cardinality(p) = i /\ Cardinality(q) = j
          BY DEF OfSize
        <5>3. u \in U /\ p = u \cap A
          BY <5>1, <5>2 DEF Unions, Apart
        <5>4. Cardinality(u) = n
          <6>1. Cardinality(u) = i + j - c
            BY <1>5, <5>1, <5>2
          <6>2. i \in Nat
            BY <3>1
          <6> HIDE DEF c
          <6> QED BY <1>5, <2>1, <6>1, <6>2
        <5>5. Cardinality(u \cap A) = i
          BY <5>2, <5>3, Zenon
        <5>6. u \in Z
          BY <5>3, <5>4 DEF OfSize
        <5>7. index[u] = i
          BY <5>5, <5>6
        <5> QED BY <5>6, <5>7 DEF Over
      <4> QED BY <4>1, <4>2
    <3>7. Cardinality(Over(Z, index, {i})) = Cardinality(P) * Cardinality(Q)
      BY <3>5, <3>6, Zenon
    <3>8. Modulo(Cardinality(P)) \in Nat /\ Modulo(Cardinality(Q)) \in Nat
      BY <3>3, ModuloOf
    <3> HIDE DEF P, Q, j, Z, index, f
    <3>9. f(n)[i] = Modulo(Cardinality(P)) * Modulo(Cardinality(Q))
      BY <3>1, <3>2
    <3> QED BY <3>3, <3>7, <3>8, <3>9, ModuloTimes
  <2>4. Over(Z, index, I(n)) = Z
    <3> SUFFICES ASSUME NEW u \in Z PROVE Cardinality(u \cap A) \in I(n)
      BY DEF Over
    <3>1. u \in U /\ Cardinality(u) = n
      BY DEF OfSize
    <3>2. PICK p \in S, q \in T : u = p \cup q
      BY <3>1 DEF Unions
    <3>3. p = u \cap A
      BY <3>2 DEF Apart
    <3>4. /\ n = Cardinality(p) + Cardinality(q) - c
          /\ Cardinality(p) \in 0 .. a /\ Cardinality(q) \in 0 .. b
          /\ c <= Cardinality(p) /\ c <= Cardinality(q)
      BY <1>5, <3>1, <3>2
    <3>5. Cardinality(p) \in I(n)
      <4> HIDE DEF c
      <4> QED BY <1>5, <2>1, <3>4
    <3>6. Cardinality(p) = Cardinality(u \cap A)
      BY <3>3, Zenon
    <3> HIDE DEF I, c
    <3> QED BY <3>5, <3>6
  <2>5. IsFiniteSet(I(n)) /\ f(n) \in [I(n) -> Nat]
    <3>1. I(n) \in SUBSET (0 .. a)
      OBVIOUS
    <3>2. IsFiniteSet(0 .. a)
      BY FS_Interval
    <3>3. IsFiniteSet(I(n))
      <4> HIDE DEF I
      <4> QED BY <3>1, <3>2, FS_Subset
    <3> QED BY <2>3, <3>3
  <2> HIDE DEF f, I, Z, index, z
  <2>6. Modulo(SumFunction(f(n))) = Modulo(Cardinality(Over(Z, index, I(n))))
    BY <2>2, <2>3, <2>5, SumCounts
  <2> QED BY <2>1, <2>4, <2>6 DEF Z
<1>7. ASSUME NEW u \in U PROVE Cardinality(u) \in DOMAIN z
  <2>1. PICK p \in S, q \in T : u = p \cup q
    BY DEF Unions
  <2>2. /\ Cardinality(u) = Cardinality(p) + Cardinality(q) - c
        /\ Cardinality(p) \in 0 .. a /\ Cardinality(q) \in 0 .. b
        /\ c <= Cardinality(p) /\ c <= Cardinality(q)
    BY <1>5, <2>1
  <2>3. DOMAIN z = 0 .. a + b - c
    OBVIOUS
  <2> HIDE DEF z, c
  <2> QED BY <1>5, <2>2, <2>3
<1>8. \E top \in Nat : DOMAIN z = 0 .. top
  <2>1. PICK p \in S, q \in T : TRUE
    OBVIOUS
  <2>2. c <= a /\ c <= b
    <3>1. /\ c <= Cardinality(p) /\ Cardinality(p) \in 0 .. a
          /\ c <= Cardinality(q) /\ Cardinality(q) \in 0 .. b
      BY <1>5, Zenon
    <3> HIDE DEF c
    <3> QED BY <1>5, <3>1
  <2>3. DOMAIN z = 0 .. a + b - c
    OBVIOUS
  <2> HIDE DEF z, c
  <2> QED BY <1>5, <2>2, <2>3
<1>9. \A n \in DOMAIN z : z[n] = Modulo(Cardinality(OfSize(U, n)))
  <2>1. DOMAIN z = 0 .. a + b - c
    OBVIOUS
  <2> HIDE DEF z, c
  <2> QED BY <1>6, <2>1
<1> HIDE DEF z, U
<1>10. SizesOK(z, U)
  BY <1>7, <1>8, <1>9 DEF SizesOK
<1> QED BY <1>3, <1>10 DEF U

(* The value of the unions is the product, evaluation by evaluation.       *)
LEMMA MultValue ==
  ASSUME NEW S \in SUBSET SUBSET Vertices, NEW T \in SUBSET SUBSET Vertices,
         NEW A, NEW B, NEW E \in SUBSET Vertices, Apart(S, T, A, B, E),
         NEW v, Value(v, S), NEW w, Value(w, T)
  PROVE  Value(Mult(v, w, Elem(E)), Unions(S, T))
<1> DEFINE z == Mult(v, w, Elem(E))
           U == Unions(S, T)
           c == Cardinality(E)
<1>1. /\ Elem(E).least = c /\ Elem(E).most = c
      /\ Elem(E).smallest.size = c /\ Elem(E).largest.size = c
  BY DEF Elem
<1>2. /\ z.count = Modulo(v.count * w.count)
      /\ z.sizes = SizesMult(v.sizes, w.sizes, Elem(E).sizes)
      /\ z.least = v.least + w.least - c
      /\ z.most = v.most + w.most - c
      /\ z.smallest = SetMult(v.smallest, w.smallest, Elem(E).smallest)
      /\ z.largest = SetMult(v.largest, w.largest, Elem(E).largest)
      /\ z.witness = v.witness \cup w.witness
  BY <1>1 DEF Mult, CountMult, WitnessMult
<1>3. /\ z.smallest.size = v.smallest.size + w.smallest.size - c
      /\ z.smallest.set = v.smallest.set \cup w.smallest.set
      /\ z.largest.size = v.largest.size + w.largest.size - c
      /\ z.largest.set = v.largest.set \cup w.largest.set
  BY <1>1, <1>2 DEF SetMult
<1> HIDE DEF z
<1>4. UnionsFit(S, T, E)
  BY UnionsOf
<1>5. z.count = Modulo(Cardinality(U))
  <2>1. Cardinality(S) \in Nat /\ Cardinality(T) \in Nat
    BY SetsFinite
  <2>2. Cardinality(U) = Cardinality(S) * Cardinality(T)
    BY UnionsCount
  <2>3. v.count = Modulo(Cardinality(S)) /\ w.count = Modulo(Cardinality(T))
    BY DEF Value
  <2> HIDE DEF U
  <2>4. z.count = Modulo(Modulo(Cardinality(S)) * Modulo(Cardinality(T)))
    BY <1>2, <2>3, Zenon
  <2>5. Modulo(Modulo(Cardinality(S)) * Modulo(Cardinality(T)))
          = Modulo(Cardinality(S) * Cardinality(T))
    BY <2>1, ModuloTimes
  <2> QED BY <2>2, <2>4, <2>5, Zenon
<1>6. SizesOK(z.sizes, U)
  <2>1. SizesOK(v.sizes, S) /\ SizesOK(w.sizes, T) /\ S # {} /\ T # {}
    BY DEF Value
  <2> QED BY <1>2, <2>1, MultSizes
<1>7. ASSUME NEW m, IsLeast(m, S), NEW n, IsLeast(n, T)
      PROVE  IsLeast(m + n - c, U)
  <2>1. PICK x \in S : m = Cardinality(x)
    BY <1>7 DEF IsLeast
  <2>2. PICK y \in T : n = Cardinality(y)
    BY <1>7 DEF IsLeast
  <2>3. x \cup y \in U /\ Cardinality(x \cup y) = m + n - c
    BY <1>4, <2>1, <2>2 DEF Unions, UnionsFit
  <2>4. ASSUME NEW u \in U PROVE m + n - c <= Cardinality(u)
    <3>1. PICK p \in S, q \in T : u = p \cup q
      BY DEF Unions
    <3>2. m <= Cardinality(p) /\ n <= Cardinality(q)
      BY <1>7 DEF IsLeast
    <3>3. /\ Cardinality(u) = Cardinality(p) + Cardinality(q) - c
          /\ Cardinality(p) \in Nat /\ Cardinality(q) \in Nat /\ c \in Nat
      BY <1>4, <3>1 DEF UnionsFit
    <3>4. m \in Nat /\ n \in Nat
      BY <1>4, <2>1, <2>2 DEF UnionsFit
    <3> HIDE DEF c
    <3> QED BY <3>2, <3>3, <3>4
  <2> HIDE DEF U, c
  <2> QED BY <2>3, <2>4 DEF IsLeast
<1>8. ASSUME NEW m, IsMost(m, S), NEW n, IsMost(n, T)
      PROVE  IsMost(m + n - c, U)
  <2>1. PICK x \in S : m = Cardinality(x)
    BY <1>8 DEF IsMost
  <2>2. PICK y \in T : n = Cardinality(y)
    BY <1>8 DEF IsMost
  <2>3. x \cup y \in U /\ Cardinality(x \cup y) = m + n - c
    BY <1>4, <2>1, <2>2 DEF Unions, UnionsFit
  <2>4. ASSUME NEW u \in U PROVE m + n - c >= Cardinality(u)
    <3>1. PICK p \in S, q \in T : u = p \cup q
      BY DEF Unions
    <3>2. m >= Cardinality(p) /\ n >= Cardinality(q)
      BY <1>8 DEF IsMost
    <3>3. /\ Cardinality(u) = Cardinality(p) + Cardinality(q) - c
          /\ Cardinality(p) \in Nat /\ Cardinality(q) \in Nat /\ c \in Nat
      BY <1>4, <3>1 DEF UnionsFit
    <3>4. m \in Nat /\ n \in Nat
      BY <1>4, <2>1, <2>2 DEF UnionsFit
    <3> HIDE DEF c
    <3> QED BY <3>2, <3>3, <3>4
  <2> HIDE DEF U, c
  <2> QED BY <2>3, <2>4 DEF IsMost
<1>9. /\ IsLeast(z.least, U) /\ IsMost(z.most, U)
      /\ IsLeast(z.smallest.size, U) /\ IsMost(z.largest.size, U)
  <2>1. /\ IsLeast(v.least, S) /\ IsLeast(w.least, T)
        /\ IsMost(v.most, S) /\ IsMost(w.most, T)
        /\ IsLeast(v.smallest.size, S) /\ IsLeast(w.smallest.size, T)
        /\ IsMost(v.largest.size, S) /\ IsMost(w.largest.size, T)
    BY DEF Value
  <2>2. /\ IsLeast(v.least + w.least - c, U) /\ IsMost(v.most + w.most - c, U)
        /\ IsLeast(v.smallest.size + w.smallest.size - c, U)
        /\ IsMost(v.largest.size + w.largest.size - c, U)
    <3> HIDE DEF U, c
    <3> QED BY <1>7, <1>8, <2>1
  <2> QED BY <1>2, <1>3, <2>2, Zenon
<1>10. Composed(z.smallest, U) /\ Composed(z.largest, U) /\ z.witness \in U
  <2>1. /\ v.smallest.set \in S /\ v.smallest.size = Cardinality(v.smallest.set)
        /\ w.smallest.set \in T /\ w.smallest.size = Cardinality(w.smallest.set)
        /\ v.largest.set \in S /\ v.largest.size = Cardinality(v.largest.set)
        /\ w.largest.set \in T /\ w.largest.size = Cardinality(w.largest.set)
        /\ v.witness \in S /\ w.witness \in T
    BY DEF Value, Composed
  <2>2. \A x \in S, y \in T : x \cup y \in U
    BY DEF Unions
  <2>3. \A x \in S, y \in T : Cardinality(x \cup y) = Cardinality(x) + Cardinality(y) - c
    BY <1>4, Zenon DEF UnionsFit
  <2> HIDE DEF U, c
  <2>4. z.smallest.set \in U /\ z.largest.set \in U /\ z.witness \in U
    BY <1>2, <1>3, <2>1, <2>2
  <2>5. /\ z.smallest.size = Cardinality(z.smallest.set)
        /\ z.largest.size = Cardinality(z.largest.set)
    BY <1>3, <2>1, <2>3
  <2> QED BY <2>4, <2>5 DEF Composed
<1> HIDE DEF U
<1>11. Value(z, U)
  BY <1>5, <1>6, <1>9, <1>10 DEF Value
<1> QED BY <1>11 DEF z, U

-----------------------------------------------------------------------------
(***************************************************************************)
(* The values that update_value adds up.                                   *)
(***************************************************************************)
AddsIs(base, iter, S) ==
  iter = [s \in SUBSET S |->
            IF s = {} THEN base ELSE Add(iter[s \ {Pick(s)}], Pick(s).val)]

(* The fold of update_value is defined,                                    *)
LEMMA AddsExist ==
  ASSUME NEW S, IsFiniteSet(S), NEW base
  PROVE  \E iter : AddsIs(base, iter, S)
<1> DEFINE Partly(h, n) ==
             h = [s \in UpTo(S, n) |->
                    IF s = {} THEN base ELSE Add(h[s \ {Pick(s)}], Pick(s).val)]
           Bad == {n \in Nat : ~\E h : Partly(h, n)}
<1>1. Partly([s \in UpTo(S, 0) |-> base], 0)
  BY UpToIs
<1>2. ASSUME NEW n \in Nat, n > 0, NEW g, Partly(g, n - 1) PROVE \E h : Partly(h, n)
  <2> DEFINE h == [s \in UpTo(S, n) |->
                     IF s = {} THEN base ELSE Add(g[s \ {Pick(s)}], Pick(s).val)]
  <2>1. ASSUME NEW s \in UpTo(S, n - 1) PROVE h[s] = g[s]
    <3>1. s \in UpTo(S, n)
      BY <1>2, UpToIs
    <3>2. g[s] = IF s = {} THEN base ELSE Add(g[s \ {Pick(s)}], Pick(s).val)
      BY <1>2
    <3> QED BY <3>1, <3>2
  <2>2. \A s \in UpTo(S, n) :
          h[s] = IF s = {} THEN base ELSE Add(g[s \ {Pick(s)}], Pick(s).val)
    OBVIOUS
  <2>3. h = [s \in UpTo(S, n) |-> h[s]]
    OBVIOUS
  <2> HIDE DEF h
  <2>4. \A s \in UpTo(S, n) : s # {} => g[s \ {Pick(s)}] = h[s \ {Pick(s)}]
    BY <1>2, <2>1, UpToIs
  <2>5. \A s \in UpTo(S, n) :
          h[s] = IF s = {} THEN base ELSE Add(h[s \ {Pick(s)}], Pick(s).val)
    BY <2>2, <2>4
  <2>6. Partly(h, n)
    BY <2>3, <2>5
  <2> QED BY <2>6
<1>3. Bad = {}
  <2> SUFFICES ASSUME Bad # {} PROVE FALSE
    OBVIOUS
  <2>1. Bad \subseteq Nat
    OBVIOUS
  <2>2. PICK n \in Bad : \A m \in Bad : n <= m
    <3> HIDE DEF Bad
    <3> QED BY <2>1, LeastNat
  <2>3. n \in Nat /\ n # 0 /\ ~\E h : Partly(h, n)
    BY <1>1
  <2>4. n - 1 \in Nat /\ ~(n <= n - 1) /\ n > 0
    BY <2>3
  <2>5. n - 1 \notin Bad
    BY <2>2, <2>4
  <2>6. \E g : Partly(g, n - 1)
    BY <2>4, <2>5
  <2> HIDE DEF Partly, Bad
  <2> QED BY <1>2, <2>3, <2>4, <2>6
<1>4. Cardinality(S) \in Nat
  BY FS_CardinalityType
<1>5. PICK h : Partly(h, Cardinality(S))
  BY <1>3, <1>4
<1>6. UpTo(S, Cardinality(S)) = SUBSET S
  BY <1>4, UpToIs
<1> QED BY <1>5, <1>6 DEF AddsIs

(* and it is what an entry gets.                                           *)
LEMMA SumOfIs ==
  ASSUME NEW entries, IsFiniteSet(entries), entries # {}
  PROVE  \E iter : /\ AddsIs(Pick(entries).val, iter, entries \ {Pick(entries)})
                   /\ SumOf(entries).val = iter[entries \ {Pick(entries)}]
<1> DEFINE S == entries \ {Pick(entries)}
           base == Pick(entries).val
           iter == CHOOSE g : AddsIs(base, g, S)
<1>1. IsFiniteSet(S)
  BY PickIs
<1>2. AddsIs(base, iter, S)
  <2> HIDE DEF S, base
  <2> QED BY <1>1, AddsExist, Zenon
<1>3. SumOf(entries).val = FoldSet(AddEntry, base, S)
  BY DEF SumOf, Pick
<1>4. FoldSet(AddEntry, base, S) = (CHOOSE g : AddsIs(base, g, S))[S]
  <2> HIDE DEF S, base
  <2> QED BY Zenon DEF FoldSet, MapThenFoldSet, AddEntry, AddsIs, Pick
<1> QED BY <1>2, <1>3, <1>4, Zenon

(* Entries that have no solution in common.                                *)
Distinct(entries) == \A r, t \in entries : r # t => r.sols \cap t.sols = {}
AllSols(entries)  == UNION {r.sols : r \in entries}
Valued(entries)   == \A r \in entries : r.sols \in SUBSET SUBSET Vertices /\ Value(r.val, r.sols)

(* The sum of the entries' values is the value of all their solutions.     *)
LEMMA SumOfValue ==
  ASSUME NEW entries, IsFiniteSet(entries), entries # {}, Distinct(entries), Valued(entries)
  PROVE  Value(SumOf(entries).val, AllSols(entries))
<1> DEFINE first == Pick(entries)
           S == entries \ {first}
           Part(s) == first.sols \cup AllSols(s)
<1>1. PICK iter : AddsIs(first.val, iter, S) /\ SumOf(entries).val = iter[S]
  BY SumOfIs
<1> DEFINE Good == {s \in SUBSET S : Value(iter[s], Part(s))}
<1>2. first \in entries /\ IsFiniteSet(S)
  BY PickIs
<1>3. \A s \in SUBSET S :
        iter[s] = IF s = {} THEN first.val ELSE Add(iter[s \ {Pick(s)}], Pick(s).val)
  BY <1>1 DEF AddsIs
<1>4. \A s \in SUBSET S : Part(s) \in SUBSET SUBSET Vertices
  BY <1>2 DEF Valued, AllSols
<1>5. {} \in Good
  <2>1. Part({}) = first.sols
    BY DEF AllSols
  <2>2. iter[{}] = first.val
    BY <1>3
  <2>3. Value(first.val, first.sols)
    BY <1>2 DEF Valued
  <2> HIDE DEF Part, first
  <2> QED BY <2>1, <2>2, <2>3
<1>6. ASSUME NEW s \in SUBSET S, s # {}, s \ {Pick(s)} \in Good PROVE s \in Good
  <2> DEFINE x == Pick(s)
             t == s \ {x}
  <2>1. x \in s /\ x \in entries /\ x # first
    BY <1>6 DEF Pick
  <2>2. iter[s] = Add(iter[t], x.val)
    BY <1>3, <1>6
  <2>3. Value(iter[t], Part(t)) /\ t \in SUBSET S
    BY <1>6
  <2>4. Value(x.val, x.sols) /\ x.sols \in SUBSET SUBSET Vertices
    BY <2>1 DEF Valued
  <2>5. Part(s) = Part(t) \cup x.sols
    BY <2>1 DEF AllSols
  <2>6. Part(t) \cap x.sols = {}
    <3>1. first.sols \cap x.sols = {}
      BY <1>2, <2>1 DEF Distinct
    <3>2. \A r \in t : r.sols \cap x.sols = {}
      BY <2>1, <2>3 DEF Distinct
    <3> HIDE DEF t, x, first
    <3> QED BY <3>1, <3>2 DEF AllSols
  <2>7. Part(t) \in SUBSET SUBSET Vertices
    BY <1>4, <2>3
  <2> HIDE DEF Part, t, x, Good
  <2>8. Value(Add(iter[t], x.val), Part(t) \cup x.sols)
    BY <2>3, <2>4, <2>6, <2>7, AddValue
  <2> QED BY <2>2, <2>5, <2>8 DEF Good
<1>7. S \in Good
  <2> HIDE DEF Good, S
  <2> QED BY <1>2, <1>5, <1>6, SubsetInduction
<1>8. Part(S) = AllSols(entries)
  BY <1>2 DEF AllSols
<1> HIDE DEF Part
<1> QED BY <1>1, <1>7, <1>8

-----------------------------------------------------------------------------
(***************************************************************************)
(* Tables.  An entry has all the partial solutions with its members in the *)
(* bag and its game, and their value; every partial solution that can be   *)
(* completed is in an entry.                                               *)
(***************************************************************************)
Played(k, bag, seen) == {x \in SUBSET seen : x \cap bag = k[1] /\ Completions(x, seen) = k[2]}

EntryOK(e, k, bag, seen) ==
  /\ k = <<k[1], k[2]>> /\ k[1] \in SUBSET bag /\ k[2] # {}
  /\ k[2] \in SUBSET SUBSET Vertices
  /\ e.sols = Played(k, bag, seen)
  /\ Value(e.val, e.sols)

TableHolds(tab, bag, seen) ==
  /\ IsFiniteSet(DOMAIN tab)
  /\ \A k \in DOMAIN tab : EntryOK(tab[k], k, bag, seen)
  /\ \A x \in SUBSET seen :
       Completions(x, seen) # {} => <<x \cap bag, Completions(x, seen)>> \in DOMAIN tab

(* What a step hands to update_value.                                      *)
ResultOK(r, bag, seen) ==
  /\ r.sols \in SUBSET SUBSET seen
  /\ Value(r.val, r.sols)
  /\ \A x \in r.sols : x \cap bag = r.alpha
  /\ \A x, y \in r.sols : Completions(x, seen) = Completions(y, seen)

ResultsOK(results, bag, seen) ==
  /\ IsFiniteSet(results)
  /\ Distinct(results)
  /\ \A r \in results : ResultOK(r, bag, seen)
  /\ \A x \in SUBSET seen : Completions(x, seen) # {} => \E r \in results : x \in r.sols

KeyOf(r, seen) == <<r.alpha, Completions(AnyOf(r), seen)>>
Kept(results, seen) == {r \in results : Completions(AnyOf(r), seen) # {}}
Group(results, seen, k) == {r \in Kept(results, seen) : KeyOf(r, seen) = k}

LEMMA TableIs ==
  ASSUME NEW results, NEW seen
  PROVE  Table(results, seen) = [k \in {KeyOf(r, seen) : r \in Kept(results, seen)} |->
                                   SumOf(Group(results, seen, k))]
BY DEF Table, KeyOf, Kept, Group

LEMMA SumOfSols ==
  ASSUME NEW entries
  PROVE  SumOf(entries).sols = AllSols(entries)
BY DEF SumOf, AllSols

LEMMA ImageFinite ==
  ASSUME NEW f, IsFiniteSet(DOMAIN f)
  PROVE  IsFiniteSet({f[x] : x \in DOMAIN f})
<1> DEFINE D == DOMAIN f
           T == {f[x] : x \in D}
           g == [x \in D |-> f[x]]
<1>1. g \in Surjection(D, T)
  BY DEF Surjection
<1>2. IsFiniteSet(D)
  OBVIOUS
<1> HIDE DEF D, T, g
<1>3. IsFiniteSet(T)
  BY <1>1, <1>2, FS_Surjection
<1> QED BY <1>3 DEF T, D

(* The entries of a table made of good results are good.                   *)
LEMMA TableOfResults ==
  ASSUME NEW bag, NEW seen \in SUBSET Vertices, NEW results, ResultsOK(results, bag, seen)
  PROVE  TableHolds(Table(results, seen), bag, seen)
<1> DEFINE kept == Kept(results, seen)
           keys == {KeyOf(r, seen) : r \in kept}
           tab == Table(results, seen)
<1>1. DOMAIN tab = keys /\ \A k \in keys : tab[k] = SumOf(Group(results, seen, k))
  BY TableIs
<1>2. ASSUME NEW r \in results
      PROVE  /\ AnyOf(r) \in r.sols /\ ResultOK(r, bag, seen)
             /\ \A x \in r.sols : Completions(x, seen) = Completions(AnyOf(r), seen)
  <2>1. ResultOK(r, bag, seen)
    BY DEF ResultsOK
  <2>2. r.sols # {}
    BY <2>1 DEF ResultOK, Value
  <2>3. AnyOf(r) \in r.sols
    BY <2>2 DEF AnyOf
  <2> QED BY <2>1, <2>3 DEF ResultOK
<1>3. ASSUME NEW r \in kept
      PROVE  /\ r \in results
             /\ KeyOf(r, seen)[1] = r.alpha
             /\ KeyOf(r, seen)[2] = Completions(AnyOf(r), seen)
             /\ KeyOf(r, seen) = <<KeyOf(r, seen)[1], KeyOf(r, seen)[2]>>
             /\ KeyOf(r, seen)[1] \in SUBSET bag
             /\ KeyOf(r, seen)[2] # {}
             /\ KeyOf(r, seen)[2] \in SUBSET SUBSET Vertices
  <2>1. r \in results /\ Completions(AnyOf(r), seen) # {}
    BY DEF Kept
  <2>2. r.alpha = AnyOf(r) \cap bag
    BY <1>2, <2>1 DEF ResultOK
  <2>3. Completions(AnyOf(r), seen) \in SUBSET SUBSET Vertices
    BY DEF Completions
  <2> QED BY <2>1, <2>2, <2>3 DEF KeyOf
<1>4. IsFiniteSet(keys)
  <2>1. IsFiniteSet(results)
    BY DEF ResultsOK
  <2>2. kept \in SUBSET results
    BY DEF Kept
  <2>3. IsFiniteSet(kept)
    BY <2>1, <2>2, FS_Subset
  <2> DEFINE f == [r \in kept |-> KeyOf(r, seen)]
  <2>4. DOMAIN f = kept /\ keys = {f[r] : r \in DOMAIN f}
    OBVIOUS
  <2> HIDE DEF f, kept, keys
  <2> QED BY <2>3, <2>4, ImageFinite
<1>5. ASSUME NEW k \in keys PROVE EntryOK(tab[k], k, bag, seen)
  <2> DEFINE group == Group(results, seen, k)
             played == Played(k, bag, seen)
  <2>1. PICK r0 \in kept : k = KeyOf(r0, seen)
    OBVIOUS
  <2>2. k = <<k[1], k[2]>> /\ k[1] \in SUBSET bag /\ k[2] # {} /\ k[2] \in SUBSET SUBSET Vertices
    BY <1>3, <2>1, Zenon
  <2>3. \A r \in group : r \in kept /\ r \in results /\ r.alpha = k[1] /\ Completions(AnyOf(r), seen) = k[2]
    BY <1>3 DEF Group
  <2>4. group # {} /\ group \in SUBSET results
    BY <2>1, <2>3 DEF Group
  <2>5. IsFiniteSet(group)
    BY <2>4, FS_Subset DEF ResultsOK
  <2>6. Distinct(group)
    BY <2>4 DEF Distinct, ResultsOK
  <2>7. Valued(group)
    BY <1>2, <2>4 DEF Valued, ResultOK
  <2>8. AllSols(group) = played
    <3>1. ASSUME NEW x \in AllSols(group) PROVE x \in played
      <4>1. PICK r \in group : x \in r.sols
        BY DEF AllSols
      <4>2. ResultOK(r, bag, seen) /\ Completions(x, seen) = Completions(AnyOf(r), seen)
        BY <1>2, <2>3, <4>1
      <4>3. x \in SUBSET seen /\ x \cap bag = r.alpha
        BY <4>1, <4>2 DEF ResultOK
      <4> HIDE DEF group
      <4> QED BY <2>3, <4>2, <4>3 DEF Played
    <3>2. ASSUME NEW x \in played PROVE x \in AllSols(group)
      <4>1. x \in SUBSET seen /\ x \cap bag = k[1] /\ Completions(x, seen) = k[2]
        BY DEF Played
      <4>2. PICK r \in results : x \in r.sols
        BY <2>2, <4>1 DEF ResultsOK
      <4>3. ResultOK(r, bag, seen) /\ Completions(x, seen) = Completions(AnyOf(r), seen)
        BY <1>2, <4>2
      <4>4. r.alpha = k[1] /\ Completions(AnyOf(r), seen) = k[2]
        BY <4>1, <4>2, <4>3 DEF ResultOK
      <4>5. r \in kept
        BY <2>2, <4>4 DEF Kept
      <4>6. KeyOf(r, seen) = k
        BY <2>2, <4>4 DEF KeyOf
      <4>7. r \in group
        BY <4>5, <4>6 DEF Group
      <4> QED BY <4>2, <4>7 DEF AllSols
    <3> QED BY <3>1, <3>2
  <2>9. tab[k] = SumOf(group)
    BY <1>1
  <2> HIDE DEF group, played, tab
  <2>10. Value(tab[k].val, AllSols(group)) /\ tab[k].sols = AllSols(group)
    BY <2>4, <2>5, <2>6, <2>7, <2>9, SumOfValue, SumOfSols
  <2>11. Value(tab[k].val, tab[k].sols) /\ tab[k].sols = Played(k, bag, seen)
    BY <2>8, <2>10, Zenon DEF played
  <2> QED BY <2>2, <2>11, Zenon DEF EntryOK
<1>6. ASSUME NEW x \in SUBSET seen, Completions(x, seen) # {}
      PROVE  <<x \cap bag, Completions(x, seen)>> \in keys
  <2>1. PICK r \in results : x \in r.sols
    BY <1>6 DEF ResultsOK
  <2>2. ResultOK(r, bag, seen) /\ Completions(x, seen) = Completions(AnyOf(r), seen)
    BY <1>2, <2>1
  <2>3. x \cap bag = r.alpha
    BY <2>1, <2>2 DEF ResultOK
  <2>4. r \in kept
    BY <1>6, <2>2 DEF Kept
  <2>5. KeyOf(r, seen) = <<x \cap bag, Completions(x, seen)>>
    BY <2>2, <2>3 DEF KeyOf
  <2> QED BY <2>4, <2>5
<1> HIDE DEF tab, keys
<1>7. TableHolds(tab, bag, seen)
  BY <1>1, <1>4, <1>5, <1>6 DEF TableHolds
<1> QED BY <1>7 DEF tab

NodeOK(n) ==
  /\ n.bag \in SUBSET n.seen /\ n.seen \in SUBSET Vertices
  /\ TableHolds(n.table, n.bag, n.seen)

LEMMA CompletionsStay ==
  ASSUME accepted' = accepted, NEW x, NEW seen
  PROVE  Completions(x, seen)' = Completions(x, seen)
BY DEF Completions

LEMMA PlayedStay ==
  ASSUME accepted' = accepted, NEW k, NEW bag, NEW seen
  PROVE  Played(k, bag, seen)' = Played(k, bag, seen)
BY CompletionsStay DEF Played

LEMMA NodeStays ==
  ASSUME accepted' = accepted, NEW n, NodeOK(n), node' = n
  PROVE  NodeOK(node)'
<1>1. ASSUME NEW k, EntryOK(n.table[k], k, n.bag, n.seen)
      PROVE  EntryOK(node.table[k], k, node.bag, node.seen)'
  BY <1>1, PlayedStay DEF EntryOK
<1>2. TableHolds(node.table, node.bag, node.seen)'
  BY <1>1, CompletionsStay DEF TableHolds, NodeOK
<1> QED BY <1>2 DEF NodeOK

(***************************************************************************)
(* The steps of the dynamic program.                                       *)
(***************************************************************************)
LEMMA LeafOK == NodeOK(LeafNode)
<1> DEFINE r == [alpha |-> {}, sols |-> {{}}, val |-> Elem({})]
<1>1. r.alpha = {} /\ r.sols = {{}} /\ r.val = Elem({})
  OBVIOUS
<1> HIDE DEF r
<1>2. Value(r.val, r.sols)
  BY <1>1, ElemValue
<1>3. ResultOK(r, {}, {})
  BY <1>1, <1>2 DEF ResultOK
<1>4. IsFiniteSet({r})
  BY FS_Singleton
<1>5. ResultsOK({r}, {}, {})
  BY <1>1, <1>3, <1>4 DEF ResultsOK, Distinct
<1>6. TableHolds(Table({r}, {}), {}, {})
  BY <1>5, TableOfResults
<1>7. LeafNode.bag = {} /\ LeafNode.seen = {} /\ LeafNode.table = Table({r}, {})
  BY DEF LeafNode, r
<1> QED BY <1>6, <1>7 DEF NodeOK

(* What an entry says.                                                     *)
EntryIs(n, k) ==
  /\ k = <<k[1], k[2]>> /\ k[1] \in SUBSET n.bag /\ k[1] \in SUBSET Vertices /\ k[2] # {}
  /\ n.table[k].sols \in SUBSET SUBSET Vertices
  /\ Value(n.table[k].val, n.table[k].sols)
  /\ \A x : x \in n.table[k].sols <=> /\ x \in SUBSET n.seen /\ x \cap n.bag = k[1]
                                      /\ Completions(x, n.seen) = k[2]

LEMMA EntryFacts ==
  ASSUME NEW n, NodeOK(n), NEW k \in DOMAIN n.table
  PROVE  EntryIs(n, k)
<1>1. EntryOK(n.table[k], k, n.bag, n.seen)
  BY DEF NodeOK, TableHolds
<1>2. n.table[k].sols = Played(k, n.bag, n.seen)
  BY <1>1 DEF EntryOK
<1>3. \A x : x \in n.table[k].sols <=> /\ x \in SUBSET n.seen /\ x \cap n.bag = k[1]
                                       /\ Completions(x, n.seen) = k[2]
  BY <1>2 DEF Played
<1>4. n.bag \in SUBSET Vertices /\ n.seen \in SUBSET Vertices
  BY DEF NodeOK
<1>5. n.table[k].sols \in SUBSET SUBSET Vertices
  BY <1>3, <1>4
<1> QED BY <1>1, <1>3, <1>4, <1>5 DEF EntryOK, EntryIs

(* A partial solution that can be completed is in an entry.                *)
LEMMA KeyOfSolution ==
  ASSUME NEW n, NodeOK(n), NEW x \in SUBSET n.seen, Completions(x, n.seen) # {}
  PROVE  \E k \in DOMAIN n.table : x \in n.table[k].sols
<1> DEFINE k == <<x \cap n.bag, Completions(x, n.seen)>>
<1>1. k \in DOMAIN n.table
  BY DEF NodeOK, TableHolds
<1>2. k[1] = x \cap n.bag /\ k[2] = Completions(x, n.seen)
  OBVIOUS
<1> HIDE DEF k
<1>3. x \in n.table[k].sols
  BY <1>1, <1>2, EntryFacts DEF EntryIs
<1> QED BY <1>1, <1>3

(* Adding the same vertices to two parts that the same sets complete.      *)
Same(x, y, seen) == Completions(x, seen) = Completions(y, seen)

LEMMA CompletionsAdd ==
  ASSUME NEW seen \in SUBSET Vertices, NEW v \in Vertices \ seen, NEW new, new \in {{}, {v}},
         NEW x, NEW y, Same(x, y, seen)
  PROVE  Same(x \cup new, y \cup new, seen \cup {v})
<1>1. ASSUME NEW p, NEW q, Completions(p, seen) = Completions(q, seen),
             NEW z \in Completions(p \cup new, seen \cup {v})
      PROVE  z \in Completions(q \cup new, seen \cup {v})
  <2>1. z \in SUBSET (Vertices \ (seen \cup {v})) /\ (p \cup new) \cup z \in accepted
    BY DEF Completions
  <2>2. new \cup z \in SUBSET (Vertices \ seen) /\ p \cup (new \cup z) = (p \cup new) \cup z
    BY <2>1
  <2>3. new \cup z \in Completions(p, seen)
    BY <2>1, <2>2 DEF Completions
  <2>4. new \cup z \in Completions(q, seen)
    BY <1>1, <2>3
  <2>5. q \cup (new \cup z) \in accepted
    BY <2>4 DEF Completions
  <2>6. q \cup (new \cup z) = (q \cup new) \cup z
    OBVIOUS
  <2>7. (q \cup new) \cup z \in accepted
    BY <2>5, <2>6, Zenon
  <2> QED BY <2>1, <2>7 DEF Completions
<1>2. Completions(x \cup new, seen \cup {v}) \subseteq Completions(y \cup new, seen \cup {v})
  BY <1>1 DEF Same
<1>3. Completions(y \cup new, seen \cup {v}) \subseteq Completions(x \cup new, seen \cup {v})
  BY <1>1 DEF Same
<1> QED BY <1>2, <1>3, Zenon DEF Same

IntroduceResult(n, v, k, new) ==
  [alpha |-> k[1] \cup new,
   sols  |-> {x \cup new : x \in n.table[k].sols},
   val   |-> Mult(n.table[k].val, Elem(k[1] \cup new), Elem((k[1] \cup new) \ {v}))]

IntroduceResults(n, v) ==
  {IntroduceResult(n, v, k, new) : k \in DOMAIN n.table, new \in {{}, {v}}}

(* The value that save_value of an introduce computes is right.            *)
LEMMA IntroduceValue ==
  ASSUME NEW n, NodeOK(n), NEW v \in Vertices \ n.seen,
         NEW k \in DOMAIN n.table, NEW new \in {{}, {v}}
  PROVE  ResultOK(IntroduceResult(n, v, k, new), n.bag \cup {v}, n.seen \cup {v})
<1> DEFINE r == IntroduceResult(n, v, k, new)
           S == n.table[k].sols
           alpha == k[1] \cup new
<1>1. /\ k[1] \in SUBSET n.bag /\ k[1] \in SUBSET Vertices
      /\ S \in SUBSET SUBSET Vertices /\ Value(n.table[k].val, S)
      /\ \A x \in S : /\ x \in SUBSET n.seen /\ x \cap n.bag = k[1]
                      /\ Completions(x, n.seen) = k[2]
  BY EntryFacts DEF EntryIs
<1>2. n.bag \in SUBSET n.seen /\ n.seen \in SUBSET Vertices /\ v \notin n.seen
  BY DEF NodeOK
<1>3. /\ r.alpha = alpha /\ r.sols = {x \cup new : x \in S}
      /\ r.val = Mult(n.table[k].val, Elem(alpha), Elem(alpha \ {v}))
  BY DEF IntroduceResult
<1> HIDE DEF S, r
<1>4. r.sols = Unions(S, {alpha})
  <2>1. \A x \in S : x \cup new = x \cup alpha
    BY <1>1
  <2> QED BY <1>3, <2>1 DEF Unions
<1> DEFINE common == alpha \ {v}
           A == n.seen
           B == n.bag \cup {v}
<1>5. Apart(S, {alpha}, A, B, common)
  BY <1>1, <1>2 DEF Apart
<1>6. alpha \in SUBSET Vertices /\ common \in SUBSET Vertices
  BY <1>1
<1>7. r.val = Mult(n.table[k].val, Elem(alpha), Elem(common))
  BY <1>3
<1> HIDE DEF alpha, common, A, B
<1>8. Value(Elem(alpha), {alpha}) /\ {alpha} \in SUBSET SUBSET Vertices
  BY <1>6, ElemValue
<1>9. Value(Mult(n.table[k].val, Elem(alpha), Elem(common)), Unions(S, {alpha}))
  BY <1>1, <1>5, <1>6, <1>8, MultValue
<1>10. Value(r.val, r.sols)
  BY <1>4, <1>9, <1>7, Zenon
<1>11. /\ r.sols \in SUBSET SUBSET (n.seen \cup {v})
      /\ \A x \in r.sols : x \cap (n.bag \cup {v}) = r.alpha
  BY <1>1, <1>2, <1>3 DEF alpha
<1>12. ASSUME NEW x \in r.sols, NEW y \in r.sols
       PROVE  Completions(x, n.seen \cup {v}) = Completions(y, n.seen \cup {v})
  <2>1. PICK p \in S, q \in S : x = p \cup new /\ y = q \cup new
    BY <1>3
  <2>2. Completions(p, n.seen) = Completions(q, n.seen)
    BY <1>1
  <2>3. Completions(p \cup new, n.seen \cup {v}) = Completions(q \cup new, n.seen \cup {v})
    <3> DEFINE seen == n.seen
    <3>1. seen \in SUBSET Vertices /\ v \in Vertices \ seen
      BY <1>2
    <3>2. Same(p, q, seen)
      BY <2>2 DEF Same
    <3> HIDE DEF seen
    <3>3. Same(p \cup new, q \cup new, seen \cup {v})
      BY <3>1, <3>2, CompletionsAdd
    <3> QED BY <3>3 DEF seen, Same
  <2> QED BY <2>1, <2>3, Zenon
<1>13. ResultOK(r, n.bag \cup {v}, n.seen \cup {v})
  BY <1>10, <1>11, <1>12 DEF ResultOK
<1> QED BY <1>13 DEF r

LEMMA PairFinite ==
  ASSUME NEW a, NEW b
  PROVE  IsFiniteSet({a, b})
<1>1. IsFiniteSet({a} \cup {b})
  BY FS_Singleton, FS_Union
<1>2. {a} \cup {b} = {a, b}
  OBVIOUS
<1> QED BY <1>1, <1>2, Zenon

LEMMA IntroduceOK ==
  ASSUME NEW n, NodeOK(n), NEW v \in Vertices \ n.seen
  PROVE  NodeOK([bag |-> n.bag \cup {v}, seen |-> n.seen \cup {v},
                 table |-> Table(IntroduceResults(n, v), n.seen \cup {v})])
<1> DEFINE results == IntroduceResults(n, v)
           bag == n.bag \cup {v}
           seen == n.seen \cup {v}
<1>1. n.bag \in SUBSET n.seen /\ n.seen \in SUBSET Vertices /\ v \notin n.seen
  BY DEF NodeOK
<1>2. IsFiniteSet(results)
  <2> DEFINE P == (DOMAIN n.table) \X {{}, {v}}
             f == [p \in P |-> IntroduceResult(n, v, p[1], p[2])]
  <2>1. IsFiniteSet(DOMAIN n.table) /\ IsFiniteSet({{}, {v}})
    <3>1. IsFiniteSet(DOMAIN n.table)
      BY DEF NodeOK, TableHolds
    <3>2. IsFiniteSet({{}, {v}})
      BY PairFinite, Zenon
    <3> QED BY <3>1, <3>2
  <2>2. IsFiniteSet(P)
    BY <2>1, FS_Product
  <2>3. DOMAIN f = P /\ results = {f[p] : p \in DOMAIN f}
    <3>1. \A k \in DOMAIN n.table, new \in {{}, {v}} :
            <<k, new>> \in P /\ f[<<k, new>>] = IntroduceResult(n, v, k, new)
      OBVIOUS
    <3>2. \A p \in P : /\ p[1] \in DOMAIN n.table /\ p[2] \in {{}, {v}}
                       /\ f[p] = IntroduceResult(n, v, p[1], p[2])
      OBVIOUS
    <3>3. DOMAIN f = P
      OBVIOUS
    <3> HIDE DEF f, P
    <3>4. ASSUME NEW r \in results PROVE \E p \in P : r = f[p]
      <4>1. PICK k \in DOMAIN n.table, new \in {{}, {v}} : r = IntroduceResult(n, v, k, new)
        BY DEF IntroduceResults
      <4>2. <<k, new>> \in P /\ r = f[<<k, new>>]
        BY <3>1, <4>1
      <4> QED BY <4>2
    <3>5. ASSUME NEW p \in P PROVE f[p] \in results
      <4>1. p[1] \in DOMAIN n.table /\ p[2] \in {{}, {v}} /\ f[p] = IntroduceResult(n, v, p[1], p[2])
        BY <3>2, Zenon
      <4>2. \A k \in DOMAIN n.table, new \in {{}, {v}} : IntroduceResult(n, v, k, new) \in results
        BY DEF IntroduceResults
      <4> HIDE DEF results
      <4> QED BY <4>1, <4>2
    <3> HIDE DEF results
    <3> QED BY <3>3, <3>4, <3>5
  <2> HIDE DEF f, P, results
  <2> QED BY <2>2, <2>3, ImageFinite
<1>3. Distinct(results)
  <2> SUFFICES ASSUME NEW r \in results, NEW t \in results, NEW x, x \in r.sols, x \in t.sols
               PROVE  r = t
    BY DEF Distinct
  <2>1. PICK k \in DOMAIN n.table, new \in {{}, {v}} : r = IntroduceResult(n, v, k, new)
    BY DEF IntroduceResults
  <2>2. PICK l \in DOMAIN n.table, other \in {{}, {v}} : t = IntroduceResult(n, v, l, other)
    BY DEF IntroduceResults
  <2>3. PICK p \in n.table[k].sols : x = p \cup new
    BY <2>1 DEF IntroduceResult
  <2>4. PICK q \in n.table[l].sols : x = q \cup other
    BY <2>2 DEF IntroduceResult
  <2>5. /\ p \in SUBSET n.seen /\ p \cap n.bag = k[1] /\ Completions(p, n.seen) = k[2]
        /\ q \in SUBSET n.seen /\ q \cap n.bag = l[1] /\ Completions(q, n.seen) = l[2]
        /\ k = <<k[1], k[2]>> /\ l = <<l[1], l[2]>>
    BY EntryFacts DEF EntryIs
  <2>6. new = other /\ p = q
    BY <1>1, <2>3, <2>4, <2>5
  <2>7. k = l
    BY <2>5, <2>6
  <2> QED BY <2>1, <2>6, <2>7, <2>2
<1>4. \A r \in results : ResultOK(r, bag, seen)
  <2> SUFFICES ASSUME NEW r \in results PROVE ResultOK(r, bag, seen)
    OBVIOUS
  <2>1. PICK k \in DOMAIN n.table, new \in {{}, {v}} : r = IntroduceResult(n, v, k, new)
    BY DEF IntroduceResults
  <2>2. ResultOK(IntroduceResult(n, v, k, new), bag, seen)
    BY IntroduceValue, Zenon
  <2> QED BY <2>1, <2>2
<1>5. ASSUME NEW x \in SUBSET seen, Completions(x, seen) # {}
      PROVE  \E r \in results : x \in r.sols
  <2> DEFINE new == x \cap {v}
             p == x \ {v}
  <2>1. PICK z : z \in Completions(x, seen)
    BY <1>5
  <2>2. z \in SUBSET (Vertices \ seen) /\ x \cup z \in accepted
    BY <2>1 DEF Completions
  <2>3. new \cup z \in SUBSET (Vertices \ n.seen) /\ p \cup (new \cup z) = x \cup z
    BY <1>1, <2>2
  <2>4. new \cup z \in Completions(p, n.seen)
    BY <2>2, <2>3 DEF Completions
  <2>5. p \in SUBSET n.seen /\ new \in {{}, {v}} /\ x = p \cup new
    OBVIOUS
  <2> HIDE DEF new, p
  <2>6. PICK k \in DOMAIN n.table : p \in n.table[k].sols
    BY <2>4, <2>5, KeyOfSolution
  <2>7. x \in IntroduceResult(n, v, k, new).sols
    BY <2>5, <2>6 DEF IntroduceResult
  <2>8. IntroduceResult(n, v, k, new) \in results
    BY <2>5, <2>6 DEF IntroduceResults
  <2> QED BY <2>7, <2>8
<1>6. seen \in SUBSET Vertices /\ bag \in SUBSET seen
  BY <1>1
<1> HIDE DEF results, bag, seen
<1>7. ResultsOK(results, bag, seen)
  BY <1>2, <1>3, <1>4, <1>5 DEF ResultsOK
<1>8. TableHolds(Table(results, seen), bag, seen)
  BY <1>6, <1>7, TableOfResults
<1>9. NodeOK([bag |-> bag, seen |-> seen, table |-> Table(results, seen)])
  BY <1>6, <1>8 DEF NodeOK
<1> QED BY <1>9 DEF results, bag, seen

ForgetResult(n, v, k) ==
  [alpha |-> k[1] \ {v}, sols |-> n.table[k].sols, val |-> n.table[k].val]

ForgetResults(n, v) == {ForgetResult(n, v, k) : k \in DOMAIN n.table}

LEMMA ForgetOK ==
  ASSUME NEW n, NodeOK(n), NEW v \in n.bag
  PROVE  NodeOK([bag |-> n.bag \ {v}, seen |-> n.seen,
                 table |-> Table(ForgetResults(n, v), n.seen)])
<1> DEFINE results == ForgetResults(n, v)
           bag == n.bag \ {v}
<1>1. n.bag \in SUBSET n.seen /\ n.seen \in SUBSET Vertices
  BY DEF NodeOK
<1>2. IsFiniteSet(results)
  <2> DEFINE f == [k \in DOMAIN n.table |-> ForgetResult(n, v, k)]
  <2>1. IsFiniteSet(DOMAIN n.table)
    BY DEF NodeOK, TableHolds
  <2>2. DOMAIN f = DOMAIN n.table /\ results = {f[k] : k \in DOMAIN f}
    BY DEF ForgetResults
  <2> HIDE DEF f, results
  <2> QED BY <2>1, <2>2, ImageFinite
<1>3. Distinct(results)
  <2> SUFFICES ASSUME NEW r \in results, NEW t \in results, NEW x, x \in r.sols, x \in t.sols
               PROVE  r = t
    BY DEF Distinct
  <2>1. PICK k \in DOMAIN n.table : r = ForgetResult(n, v, k)
    BY DEF ForgetResults
  <2>2. PICK l \in DOMAIN n.table : t = ForgetResult(n, v, l)
    BY DEF ForgetResults
  <2>3. x \in n.table[k].sols /\ x \in n.table[l].sols
    BY <2>1, <2>2 DEF ForgetResult
  <2>4. /\ x \cap n.bag = k[1] /\ Completions(x, n.seen) = k[2]
        /\ x \cap n.bag = l[1] /\ Completions(x, n.seen) = l[2]
        /\ k = <<k[1], k[2]>> /\ l = <<l[1], l[2]>>
    <3>1. EntryIs(n, k) /\ EntryIs(n, l)
      BY EntryFacts
    <3> QED BY <2>3, <3>1 DEF EntryIs
  <2>5. k = l
    BY <2>4
  <2> QED BY <2>1, <2>2, <2>5
<1>4. ASSUME NEW r \in results PROVE ResultOK(r, bag, n.seen)
  <2>1. PICK k \in DOMAIN n.table : r = ForgetResult(n, v, k)
    BY DEF ForgetResults
  <2>2. r.alpha = k[1] \ {v} /\ r.sols = n.table[k].sols /\ r.val = n.table[k].val
    BY <2>1 DEF ForgetResult
  <2>3. /\ Value(n.table[k].val, n.table[k].sols)
        /\ \A x \in n.table[k].sols : /\ x \in SUBSET n.seen /\ x \cap n.bag = k[1]
                                      /\ Completions(x, n.seen) = k[2]
    <3>1. EntryIs(n, k)
      BY EntryFacts
    <3> QED BY <3>1 DEF EntryIs
  <2>4. \A x \in r.sols : x \cap bag = r.alpha
    BY <2>2, <2>3
  <2> HIDE DEF bag
  <2> QED BY <2>2, <2>3, <2>4 DEF ResultOK
<1>5. ASSUME NEW x \in SUBSET n.seen, Completions(x, n.seen) # {}
      PROVE  \E r \in results : x \in r.sols
  <2>1. PICK k \in DOMAIN n.table : x \in n.table[k].sols
    BY <1>5, KeyOfSolution
  <2>2. x \in ForgetResult(n, v, k).sols /\ ForgetResult(n, v, k) \in results
    BY <2>1 DEF ForgetResult, ForgetResults
  <2> QED BY <2>2
<1>6. bag \in SUBSET n.seen
  BY <1>1
<1> HIDE DEF results, bag
<1>7. ResultsOK(results, bag, n.seen)
  BY <1>2, <1>3, <1>4, <1>5 DEF ResultsOK
<1>8. TableHolds(Table(results, n.seen), bag, n.seen)
  BY <1>1, <1>7, TableOfResults
<1>9. NodeOK([bag |-> bag, seen |-> n.seen, table |-> Table(results, n.seen)])
  BY <1>1, <1>6, <1>8 DEF NodeOK
<1> QED BY <1>9 DEF results, bag

(***************************************************************************)
(* The two children of a join share no vertex but those of the bag, so the *)
(* part of either is completed by the other part.                          *)
(***************************************************************************)
Meeting(l, n) == l.bag = n.bag /\ l.seen \cap n.seen = n.bag

LEMMA CompletionsJoin ==
  ASSUME NEW l, NodeOK(l), NEW n, NodeOK(n), Meeting(l, n),
         NEW x \in SUBSET l.seen, NEW y \in SUBSET n.seen, x \cap n.bag = y \cap n.bag,
         NEW z
  PROVE  /\ z \in Completions(x \cup y, l.seen \cup n.seen)
              => (y \ n.bag) \cup z \in Completions(x, l.seen)
         /\ z \in Completions(x \cup y, l.seen \cup n.seen)
              => (x \ n.bag) \cup z \in Completions(y, n.seen)
         /\ z \in SUBSET (Vertices \ (l.seen \cup n.seen))
              => /\ (y \ n.bag) \cup z \in Completions(x, l.seen)
                      => z \in Completions(x \cup y, l.seen \cup n.seen)
                 /\ (x \ n.bag) \cup z \in Completions(y, n.seen)
                      => z \in Completions(x \cup y, l.seen \cup n.seen)
<1> DEFINE D == SUBSET (Vertices \ (l.seen \cup n.seen))
<1>1. /\ n.bag \in SUBSET n.seen /\ n.seen \in SUBSET Vertices
      /\ l.seen \in SUBSET Vertices /\ l.seen \cap n.seen = n.bag
  BY DEF NodeOK, Meeting
<1>2. x \cup ((y \ n.bag) \cup z) = (x \cup y) \cup z /\ y \cup ((x \ n.bag) \cup z) = (x \cup y) \cup z
  OBVIOUS
<1>3. z \in D => /\ (y \ n.bag) \cup z \in SUBSET (Vertices \ l.seen)
                 /\ (x \ n.bag) \cup z \in SUBSET (Vertices \ n.seen)
  BY <1>1
<1>4. z \in Completions(x \cup y, l.seen \cup n.seen)
        <=> z \in D /\ (x \cup y) \cup z \in accepted
  BY DEF Completions
<1>5. (y \ n.bag) \cup z \in Completions(x, l.seen)
        <=> /\ (y \ n.bag) \cup z \in SUBSET (Vertices \ l.seen)
            /\ (x \cup y) \cup z \in accepted
  BY <1>2, Zenon DEF Completions
<1>6. (x \ n.bag) \cup z \in Completions(y, n.seen)
        <=> /\ (x \ n.bag) \cup z \in SUBSET (Vertices \ n.seen)
            /\ (x \cup y) \cup z \in accepted
  BY <1>2, Zenon DEF Completions
<1> QED BY <1>3, <1>4, <1>5, <1>6, Zenon

JoinResult(l, n, j, k) ==
  [alpha |-> j[1],
   sols  |-> {x \cup y : x \in l.table[j].sols, y \in n.table[k].sols},
   val   |-> Mult(l.table[j].val, n.table[k].val, Elem(j[1]))]

JoinPairs(l, n) == {p \in (DOMAIN l.table) \X (DOMAIN n.table) : p[1][1] = p[2][1]}

JoinResults(l, n) == {JoinResult(l, n, p[1], p[2]) : p \in JoinPairs(l, n)}

(* The value that save_value of a join computes is right.                  *)
LEMMA JoinValue ==
  ASSUME NEW l, NodeOK(l), NEW n, NodeOK(n), Meeting(l, n),
         NEW j \in DOMAIN l.table, NEW k \in DOMAIN n.table, j[1] = k[1]
  PROVE  ResultOK(JoinResult(l, n, j, k), n.bag, l.seen \cup n.seen)
<1> DEFINE r == JoinResult(l, n, j, k)
           S == l.table[j].sols
           T == n.table[k].sols
           A == l.seen
           B == n.seen
           alpha == j[1]
<1>1. /\ l.bag = n.bag /\ A \cap B = n.bag
      /\ n.bag \in SUBSET B /\ A \in SUBSET Vertices /\ B \in SUBSET Vertices
  BY DEF NodeOK, Meeting
<1>2. /\ alpha \in SUBSET n.bag /\ alpha \in SUBSET Vertices
      /\ S \in SUBSET SUBSET Vertices /\ Value(l.table[j].val, S)
      /\ \A x \in S : x \in SUBSET A /\ x \cap n.bag = alpha /\ Completions(x, A) = j[2]
  <2>1. EntryIs(l, j)
    BY EntryFacts
  <2> QED BY <1>1, <2>1 DEF EntryIs
<1>3. /\ T \in SUBSET SUBSET Vertices /\ Value(n.table[k].val, T)
      /\ \A y \in T : y \in SUBSET B /\ y \cap n.bag = alpha /\ Completions(y, B) = k[2]
  <2>1. EntryIs(n, k)
    BY EntryFacts
  <2> QED BY <2>1 DEF EntryIs
<1>4. /\ r.alpha = alpha /\ r.sols = Unions(S, T)
      /\ r.val = Mult(l.table[j].val, n.table[k].val, Elem(alpha))
  BY DEF JoinResult, Unions
<1> HIDE DEF S, T, r, alpha, A, B
<1>5. Apart(S, T, A, B, alpha)
  BY <1>1, <1>2, <1>3 DEF Apart
<1>6. Value(r.val, r.sols)
  <2>1. Value(Mult(l.table[j].val, n.table[k].val, Elem(alpha)), Unions(S, T))
    BY <1>2, <1>3, <1>5, MultValue
  <2> QED BY <1>4, <2>1, Zenon
<1>7. /\ r.sols \in SUBSET SUBSET (A \cup B)
      /\ \A x \in r.sols : x \cap n.bag = r.alpha
  BY <1>2, <1>3, <1>4 DEF Unions
<1>8. ASSUME NEW x \in r.sols, NEW y \in r.sols
      PROVE  Completions(x, A \cup B) \subseteq Completions(y, A \cup B)
  <2>1. PICK p \in S, q \in T : x = p \cup q
    BY <1>4 DEF Unions
  <2>2. PICK s \in S, t \in T : y = s \cup t
    BY <1>4 DEF Unions
  <2>3. ASSUME NEW z \in Completions(x, A \cup B) PROVE z \in Completions(y, A \cup B)
    <3>1. z \in SUBSET (Vertices \ (A \cup B))
      BY DEF Completions
    <3>2. /\ p \in SUBSET A /\ s \in SUBSET A /\ q \in SUBSET B /\ t \in SUBSET B
          /\ p \cap n.bag = q \cap n.bag /\ s \cap n.bag = q \cap n.bag
          /\ s \cap n.bag = t \cap n.bag
          /\ Completions(p, A) = Completions(s, A) /\ Completions(q, B) = Completions(t, B)
      BY <1>2, <1>3
    <3>3. (q \ n.bag) \cup z \in Completions(p, A)
      BY <2>1, <3>2, CompletionsJoin DEF A, B
    <3>4. z \in Completions(s \cup q, A \cup B)
      BY <3>1, <3>2, <3>3, CompletionsJoin DEF A, B
    <3>5. (s \ n.bag) \cup z \in Completions(q, B)
      BY <3>2, <3>4, CompletionsJoin DEF A, B
    <3>6. z \in Completions(s \cup t, A \cup B)
      BY <3>1, <3>2, <3>5, CompletionsJoin DEF A, B
    <3> QED BY <2>2, <3>6
  <2> QED BY <2>3
<1>9. ASSUME NEW x \in r.sols, NEW y \in r.sols
      PROVE  Completions(x, A \cup B) = Completions(y, A \cup B)
  BY <1>8, Zenon
<1>10. ResultOK(r, n.bag, A \cup B)
  BY <1>6, <1>7, <1>9 DEF ResultOK
<1> QED BY <1>10 DEF r, A, B

LEMMA JoinOK ==
  ASSUME NEW l, NodeOK(l), NEW n, NodeOK(n), Meeting(l, n)
  PROVE  NodeOK([bag |-> n.bag, seen |-> l.seen \cup n.seen,
                 table |-> Table(JoinResults(l, n), l.seen \cup n.seen)])
<1> DEFINE results == JoinResults(l, n)
           seen == l.seen \cup n.seen
<1>1. /\ l.bag = n.bag /\ l.seen \cap n.seen = n.bag
      /\ n.bag \in SUBSET n.seen /\ l.seen \in SUBSET Vertices /\ n.seen \in SUBSET Vertices
  BY DEF NodeOK, Meeting
<1>2. \A p \in JoinPairs(l, n) : /\ p = <<p[1], p[2]>> /\ p[1][1] = p[2][1]
                                 /\ p[1] \in DOMAIN l.table /\ p[2] \in DOMAIN n.table
  BY DEF JoinPairs
<1>3. IsFiniteSet(results)
  <2> DEFINE P == JoinPairs(l, n)
             f == [p \in P |-> JoinResult(l, n, p[1], p[2])]
  <2>1. IsFiniteSet(DOMAIN l.table) /\ IsFiniteSet(DOMAIN n.table)
    BY DEF NodeOK, TableHolds
  <2>2. IsFiniteSet((DOMAIN l.table) \X (DOMAIN n.table))
    BY <2>1, FS_Product
  <2>3. P \in SUBSET ((DOMAIN l.table) \X (DOMAIN n.table))
    BY DEF JoinPairs
  <2>4. DOMAIN f = P /\ results = {f[p] : p \in DOMAIN f}
    BY DEF JoinResults
  <2> HIDE DEF P, f, results
  <2>5. IsFiniteSet(P)
    BY <2>2, <2>3, FS_Subset
  <2> QED BY <2>4, <2>5, ImageFinite
<1>4. Distinct(results)
  <2> SUFFICES ASSUME NEW r \in results, NEW t \in results, NEW x, x \in r.sols, x \in t.sols
               PROVE  r = t
    BY DEF Distinct
  <2>1. PICK p \in JoinPairs(l, n) : r = JoinResult(l, n, p[1], p[2])
    BY DEF JoinResults
  <2>2. PICK q \in JoinPairs(l, n) : t = JoinResult(l, n, q[1], q[2])
    BY DEF JoinResults
  <2>3. ASSUME NEW o \in JoinPairs(l, n), x \in JoinResult(l, n, o[1], o[2]).sols
        PROVE  /\ x \cap l.seen \in l.table[o[1]].sols /\ x \cap n.seen \in n.table[o[2]].sols
               /\ o = <<o[1], o[2]>>
               /\ o[1] = <<(x \cap l.seen) \cap n.bag, Completions(x \cap l.seen, l.seen)>>
               /\ o[2] = <<(x \cap n.seen) \cap n.bag, Completions(x \cap n.seen, n.seen)>>
    <3> DEFINE j == o[1]
               k == o[2]
    <3>1. o = <<j, k>> /\ j[1] = k[1] /\ j \in DOMAIN l.table /\ k \in DOMAIN n.table
      BY <1>2
    <3> HIDE DEF j, k
    <3>2. PICK a \in l.table[j].sols, b \in n.table[k].sols : x = a \cup b
      BY <2>3 DEF JoinResult, j, k
    <3>3. EntryIs(l, j) /\ EntryIs(n, k)
      BY <3>1, EntryFacts
    <3>4. /\ a \in SUBSET l.seen /\ a \cap n.bag = j[1] /\ Completions(a, l.seen) = j[2]
          /\ b \in SUBSET n.seen /\ b \cap n.bag = k[1] /\ Completions(b, n.seen) = k[2]
          /\ j = <<j[1], j[2]>> /\ k = <<k[1], k[2]>>
      BY <1>1, <3>2, <3>3 DEF EntryIs
    <3>5. a = x \cap l.seen /\ b = x \cap n.seen
      BY <1>1, <3>1, <3>2, <3>4
    <3>6. /\ x \cap l.seen \in l.table[j].sols /\ x \cap n.seen \in n.table[k].sols
          /\ j = <<(x \cap l.seen) \cap n.bag, Completions(x \cap l.seen, l.seen)>>
          /\ k = <<(x \cap n.seen) \cap n.bag, Completions(x \cap n.seen, n.seen)>>
      BY <3>2, <3>4, <3>5, Zenon
    <3> QED BY <3>1, <3>6 DEF j, k
  <2>4. p = q
    BY <2>1, <2>2, <2>3, Zenon
  <2> QED BY <2>1, <2>2, <2>4
<1>5. ASSUME NEW r \in results PROVE ResultOK(r, n.bag, seen)
  <2>1. PICK p \in JoinPairs(l, n) : r = JoinResult(l, n, p[1], p[2])
    BY DEF JoinResults
  <2>2. ResultOK(JoinResult(l, n, p[1], p[2]), n.bag, l.seen \cup n.seen)
    BY <1>2, JoinValue, Zenon
  <2> QED BY <2>1, <2>2
<1>6. ASSUME NEW x \in SUBSET seen, Completions(x, seen) # {}
      PROVE  \E r \in results : x \in r.sols
  <2> DEFINE a == x \cap l.seen
             b == x \cap n.seen
  <2>1. /\ x = a \cup b /\ a \in SUBSET l.seen /\ b \in SUBSET n.seen
        /\ a \cap n.bag = b \cap n.bag
    BY <1>1
  <2> HIDE DEF a, b
  <2>2. PICK z : z \in Completions(a \cup b, l.seen \cup n.seen)
    BY <1>6, <2>1
  <2>3. Completions(a, l.seen) # {} /\ Completions(b, n.seen) # {}
    BY <2>1, <2>2, CompletionsJoin
  <2>4. PICK j \in DOMAIN l.table : a \in l.table[j].sols
    BY <2>1, <2>3, KeyOfSolution
  <2>5. PICK k \in DOMAIN n.table : b \in n.table[k].sols
    BY <2>1, <2>3, KeyOfSolution
  <2>6. EntryIs(l, j) /\ EntryIs(n, k)
    BY EntryFacts
  <2>7. j[1] = k[1]
    BY <1>1, <2>1, <2>4, <2>5, <2>6 DEF EntryIs
  <2>8. <<j, k>> \in JoinPairs(l, n)
    BY <2>7 DEF JoinPairs
  <2>9. x \in JoinResult(l, n, j, k).sols
    BY <2>1, <2>4, <2>5 DEF JoinResult
  <2>10. JoinResult(l, n, j, k) \in results
    BY <2>8 DEF JoinResults
  <2> QED BY <2>9, <2>10
<1>7. seen \in SUBSET Vertices /\ n.bag \in SUBSET seen
  BY <1>1
<1> HIDE DEF results, seen
<1>8. ResultsOK(results, n.bag, seen)
  BY <1>3, <1>4, <1>5, <1>6 DEF ResultsOK
<1>9. TableHolds(Table(results, seen), n.bag, seen)
  BY <1>7, <1>8, TableOfResults
<1>10. NodeOK([bag |-> n.bag, seen |-> seen, table |-> Table(results, seen)])
  BY <1>7, <1>9 DEF NodeOK
<1> QED BY <1>10 DEF results, seen

(***************************************************************************)
(* At the root every graph is complete: a set is a solution or not.        *)
(***************************************************************************)
LEMMA RootOK ==
  ASSUME NEW n, NodeOK(n), n.bag = {}, n.seen = Vertices, accepted \in SUBSET SUBSET Vertices,
         NEW won, won = {n.table[k] : k \in DOMAIN n.table}
  PROVE  /\ won # {} <=> accepted # {}
         /\ won # {} => Value(SumOf(won).val, accepted)
<1>1. ASSUME NEW x \in SUBSET Vertices PROVE x \in accepted <=> Completions(x, Vertices) # {}
  <2>1. x \cup {} = x /\ Vertices \ Vertices = {}
    OBVIOUS
  <2>2. Completions(x, Vertices) = {y \in {{}} : x \cup y \in accepted}
    BY <2>1 DEF Completions
  <2>3. {} \in Completions(x, Vertices) <=> x \in accepted
    BY <2>1, <2>2
  <2>4. \A y \in Completions(x, Vertices) : y = {}
    BY <2>2
  <2> QED BY <2>3, <2>4
<1>2. IsFiniteSet(won)
  <2>1. IsFiniteSet(DOMAIN n.table)
    BY DEF NodeOK, TableHolds
  <2> DEFINE f == n.table
  <2>2. won = {f[k] : k \in DOMAIN f} /\ IsFiniteSet(DOMAIN f)
    BY <2>1
  <2> HIDE DEF f
  <2> QED BY <2>2, ImageFinite
<1>3. \A k \in DOMAIN n.table : EntryIs(n, k)
  BY EntryFacts
<1>4. Valued(won)
  BY <1>3 DEF EntryIs, Valued
<1>5. Distinct(won)
  <2> SUFFICES ASSUME NEW k \in DOMAIN n.table, NEW l \in DOMAIN n.table, NEW x,
                      x \in n.table[k].sols, x \in n.table[l].sols
               PROVE  k = l
    BY DEF Distinct
  <2>1. EntryIs(n, k) /\ EntryIs(n, l)
    BY <1>3
  <2>2. /\ k = <<k[1], k[2]>> /\ x \cap n.bag = k[1] /\ Completions(x, n.seen) = k[2]
        /\ l = <<l[1], l[2]>> /\ x \cap n.bag = l[1] /\ Completions(x, n.seen) = l[2]
    BY <2>1 DEF EntryIs
  <2>3. k[1] = l[1] /\ k[2] = l[2]
    BY <2>2, Zenon
  <2> QED BY <2>2, <2>3, Zenon
<1>6. AllSols(won) = accepted
  <2>1. ASSUME NEW x \in AllSols(won) PROVE x \in accepted
    <3>1. PICK k \in DOMAIN n.table : x \in n.table[k].sols
      BY DEF AllSols
    <3>2. x \in SUBSET Vertices /\ Completions(x, Vertices) # {}
      BY <1>3, <3>1 DEF EntryIs
    <3> QED BY <1>1, <3>2
  <2>2. ASSUME NEW x \in accepted PROVE x \in AllSols(won)
    <3>1. x \in SUBSET n.seen /\ Completions(x, n.seen) # {}
      BY <1>1
    <3>2. PICK k \in DOMAIN n.table : x \in n.table[k].sols
      BY <3>1, KeyOfSolution
    <3> QED BY <3>2 DEF AllSols
  <2> QED BY <2>1, <2>2
<1>7. \A e \in won : e.sols # {}
  BY <1>4 DEF Valued, Value
<1>8. won # {} <=> accepted # {}
  <2>1. ASSUME won # {} PROVE accepted # {}
    <3>1. PICK e \in won : e.sols # {}
      BY <1>7, <2>1
    <3>2. PICK x \in e.sols : TRUE
      BY <3>1
    <3>3. x \in AllSols(won)
      BY DEF AllSols
    <3> QED BY <1>6, <3>3
  <2>2. ASSUME won = {} PROVE accepted = {}
    <3>1. AllSols({}) = {}
      BY DEF AllSols
    <3> QED BY <1>6, <2>2, <3>1
  <2> QED BY <2>1, <2>2
<1>9. won # {} => Value(SumOf(won).val, AllSols(won))
  BY <1>2, <1>4, <1>5, SumOfValue
<1> QED BY <1>6, <1>8, <1>9

-----------------------------------------------------------------------------
AnswerOK ==
  answer # NULL =>
    /\ answer.has_solution = (accepted # {})
    /\ accepted # {} => Value(answer.solution, accepted)

(***************************************************************************)
(* The invariant: both subtrees have, for every key, all the partial       *)
(* solutions and their value; a join relies on it for the left child.      *)
(***************************************************************************)
EvalInv ==
  /\ accepted \in SUBSET SUBSET Vertices
  /\ NodeOK(node)
  /\ left # NULL => NodeOK(left)
  /\ AnswerOK

(* Nothing changes for a child that is kept.                               *)
LEMMA LeftStays ==
  ASSUME accepted' = accepted, NEW n, NodeOK(n), left' = n
  PROVE  NodeOK(left)'
<1>1. ASSUME NEW k, EntryOK(n.table[k], k, n.bag, n.seen)
      PROVE  EntryOK(left.table[k], k, left.bag, left.seen)'
  BY <1>1, PlayedStay DEF EntryOK
<1>2. TableHolds(left.table, left.bag, left.seen)'
  BY <1>1, CompletionsStay DEF TableHolds, NodeOK
<1> QED BY <1>2 DEF NodeOK

LEMMA AnswerStays ==
  ASSUME UNCHANGED <<accepted, answer>>, AnswerOK
  PROVE  AnswerOK'
BY DEF AnswerOK

LEMMA EvalInitOK ==
  ASSUME EvalInit
  PROVE  EvalInv
BY LeafOK DEF EvalInit, EvalInv, AnswerOK

LEMMA EvalStepOK ==
  ASSUME EvalInv, [EvalNext]_evalVars
  PROVE  EvalInv'
<1>1. ASSUME NEW v \in Vertices, DoIntroduce(v) PROVE EvalInv'
  <2>1. /\ v \in Vertices \ node.seen /\ NodeOK(node)
        /\ UNCHANGED <<accepted, left, answer>>
    BY <1>1 DEF DoIntroduce, EvalInv
  <2> DEFINE n == [bag |-> node.bag \cup {v}, seen |-> node.seen \cup {v},
                   table |-> Table(IntroduceResults(node, v), node.seen \cup {v})]
  <2>2. node' = n
    BY <1>1 DEF DoIntroduce, IntroduceResults, IntroduceResult
  <2>3. NodeOK(n)
    BY <2>1, IntroduceOK
  <2> HIDE DEF n
  <2>4. NodeOK(node)'
    BY <2>1, <2>2, <2>3, NodeStays
  <2>5. (left # NULL => NodeOK(left))'
    BY <2>1, LeftStays DEF EvalInv
  <2>6. AnswerOK'
    BY <2>1, AnswerStays DEF EvalInv
  <2> QED BY <2>1, <2>4, <2>5, <2>6 DEF EvalInv
<1>2. ASSUME NEW v \in Vertices, DoForget(v) PROVE EvalInv'
  <2>1. /\ v \in node.bag /\ NodeOK(node)
        /\ UNCHANGED <<accepted, left, answer>>
    BY <1>2 DEF DoForget, EvalInv
  <2> DEFINE n == [bag |-> node.bag \ {v}, seen |-> node.seen,
                   table |-> Table(ForgetResults(node, v), node.seen)]
  <2>2. node' = n
    BY <1>2, Zenon DEF DoForget, ForgetResults, ForgetResult
  <2>3. NodeOK(n)
    BY <2>1, ForgetOK
  <2> HIDE DEF n
  <2>4. NodeOK(node)'
    BY <2>1, <2>2, <2>3, NodeStays
  <2>5. (left # NULL => NodeOK(left))'
    BY <2>1, LeftStays DEF EvalInv
  <2>6. AnswerOK'
    BY <2>1, AnswerStays DEF EvalInv
  <2> QED BY <2>1, <2>4, <2>5, <2>6 DEF EvalInv
<1>3. ASSUME DoLeaf PROVE EvalInv'
  <2>1. /\ left' = node /\ node' = LeafNode /\ UNCHANGED <<accepted, answer>>
        /\ NodeOK(node)
    BY <1>3 DEF DoLeaf, EvalInv
  <2>2. NodeOK(node)'
    BY <2>1, LeafOK, NodeStays
  <2>3. NodeOK(left)'
    BY <2>1, LeftStays
  <2>4. AnswerOK'
    BY <2>1, AnswerStays DEF EvalInv
  <2> QED BY <2>1, <2>2, <2>3, <2>4 DEF EvalInv
<1>4. ASSUME DoJoin PROVE EvalInv'
  <2>1. /\ NodeOK(left) /\ NodeOK(node) /\ Meeting(left, node)
        /\ left' = NULL /\ UNCHANGED <<accepted, answer>>
    BY <1>4 DEF DoJoin, EvalInv, Meeting
  <2> DEFINE n == [bag |-> node.bag, seen |-> left.seen \cup node.seen,
                   table |-> Table(JoinResults(left, node), left.seen \cup node.seen)]
  <2>2. node' = n
    BY <1>4 DEF DoJoin, JoinResults, JoinPairs, JoinResult
  <2>3. NodeOK(n)
    BY <2>1, JoinOK
  <2> HIDE DEF n
  <2>4. NodeOK(node)'
    BY <2>1, <2>2, <2>3, NodeStays
  <2>5. AnswerOK'
    BY <2>1, AnswerStays DEF EvalInv
  <2> QED BY <2>1, <2>4, <2>5 DEF EvalInv
<1>5. ASSUME DoRoot PROVE EvalInv'
  <2> DEFINE won == {node.table[k] : k \in DOMAIN node.table}
             sum == SumOf(won).val
  <2>1. /\ node.bag = {} /\ node.seen = Vertices /\ UNCHANGED <<accepted, node, left>>
        /\ NodeOK(node) /\ accepted \in SUBSET SUBSET Vertices
    BY <1>5 DEF DoRoot, EvalInv
  <2>2. answer' = [has_solution |-> won # {}, solution |-> IF won = {} THEN NULL ELSE sum]
    BY <1>5 DEF DoRoot
  <2>3. (won # {} <=> accepted # {}) /\ (won # {} => Value(sum, accepted))
    BY <2>1, RootOK
  <2> HIDE DEF won, sum
  <2>4. /\ answer'.has_solution = (accepted # {})
        /\ accepted # {} => answer'.solution = sum
    BY <2>2, <2>3
  <2>5. AnswerOK'
    BY <2>1, <2>3, <2>4 DEF AnswerOK
  <2>6. NodeOK(node)'
    BY <2>1, NodeStays
  <2>7. (left # NULL => NodeOK(left))'
    BY <2>1, LeftStays DEF EvalInv
  <2> QED BY <2>1, <2>5, <2>6, <2>7 DEF EvalInv
<1>6. ASSUME UNCHANGED evalVars PROVE EvalInv'
  <2>1. UNCHANGED <<accepted, node, left, answer>>
    BY <1>6 DEF evalVars
  <2>2. NodeOK(node)'
    BY <2>1, NodeStays DEF EvalInv
  <2>3. (left # NULL => NodeOK(left))'
    BY <2>1, LeftStays DEF EvalInv
  <2>4. AnswerOK'
    BY <2>1, AnswerStays DEF EvalInv
  <2> QED BY <2>1, <2>2, <2>3, <2>4 DEF EvalInv
<1> QED BY <1>1, <1>2, <1>3, <1>4, <1>5, <1>6 DEF EvalNext

LEMMA EvalAlways == EvalSpec => []EvalInv
<1>1. EvalInit => EvalInv
  BY EvalInitOK
<1>2. EvalInv /\ [EvalNext]_evalVars => EvalInv'
  BY EvalStepOK
<1> QED BY <1>1, <1>2, PTL DEF EvalSpec

(* The values of the entries of a table are those of their solutions.      *)
LEMMA EntryValues ==
  ASSUME EvalInv, NEW k \in DOMAIN node.table
  PROVE  Value(node.table[k].val, node.table[k].sols)
<1>1. EntryIs(node, k)
  BY EntryFacts DEF EvalInv
<1> QED BY <1>1 DEF EntryIs

THEOREM EvalCounts == EvalSpec => []CountsSolutions
<1>1. EvalInv => CountsSolutions
  <2> SUFFICES ASSUME EvalInv PROVE CountsSolutions
    OBVIOUS
  <2>1. ASSUME NEW k \in DOMAIN node.table
        PROVE  LET e == node.table[k]
                   Count(n) == {x \in e.sols : Cardinality(x) = n}
               IN /\ e.val.count = Modulo(Cardinality(e.sols))
                  /\ \A n \in DOMAIN e.val.sizes : e.val.sizes[n] = Modulo(Cardinality(Count(n)))
                  /\ \A x \in e.sols : Cardinality(x) \in DOMAIN e.val.sizes
    BY EntryValues DEF Value, SizesOK, OfSize
  <2>2. answer # NULL =>
          IF answer.has_solution
          THEN answer.solution.count = Modulo(Cardinality(accepted)) /\ accepted # {}
          ELSE accepted = {}
    BY DEF EvalInv, AnswerOK, Value
  <2> QED BY <2>1, <2>2 DEF CountsSolutions
<1> QED BY <1>1, EvalAlways, PTL

THEOREM EvalExtremes == EvalSpec => []ExtremalSizes
<1>1. EvalInv => ExtremalSizes
  BY EntryValues DEF ExtremalSizes, Value
<1> QED BY <1>1, EvalAlways, PTL

THEOREM EvalComposed == EvalSpec => []ComposedIsSolution
<1>1. EvalInv => ComposedIsSolution
  BY EntryValues DEF ComposedIsSolution, Value, Composed
<1> QED BY <1>1, EvalAlways, PTL
=============================================================================
