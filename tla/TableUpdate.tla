---------------------------- MODULE TableUpdate -----------------------------
(***************************************************************************)
(* SequoiaTable::update_value() and GameVoidPtrMap::update_value() of the  *)
(* build with TBB: the threads of a parallel_do enter the games they have  *)
(* computed into the table of one node.  The table maps an assignment to a *)
(* GameVoidPtrMap, which maps a game to the value of an evaluation; the    *)
(* values of equal games are added, in a loop that swaps the sum in if the *)
(* value is still the one that was read.                                   *)
(*                                                                         *)
(* A value is modelled by how often the value of each call was added to    *)
(* it: what holds of this sum holds of every evaluation whose add() is     *)
(* associative and commutative.  Values that compare equal are equal       *)
(* numbers, or pointers to values that add() never frees, so a swap that   *)
(* succeeds replaces the value that was read.                              *)
(***************************************************************************)
EXTENDS Naturals

CONSTANTS
  Call,        (* the calls of update_value() on one table                  *)
  Assignment, Game,
  Falsifier,   (* the game that is decided for the falsifier                *)
  None

ASSUME TableAssumption == Falsifier \notin Game /\ None \notin Call

VARIABLES
  arg,       (* the assignment and the game each call is given              *)
  pc,
  table,     (* _container of the table: assignment to map object           *)
  maps,      (* the GameVoidPtrMaps allocated, named by the call that did   *)
  key,       (* the game object that is the key of a game in a map, or None *)
  value,     (* and its value                                               *)
  games,     (* the game objects allocated, named by the call they were     *)
             (* passed to                                                   *)
  map,       (* the map a call works on                                     *)
  old        (* the value a call has read                                   *)

vars == <<arg, pc, table, maps, key, value, games, map, old>>

Zero == [c \in Call |-> 0]
One(c) == [Zero EXCEPT ![c] = 1]
Plus(f, c) == [f EXCEPT ![c] = @ + 1]

Init ==
  /\ arg \in [Call -> [alpha : Assignment, game : Game \cup {Falsifier}]]
  /\ pc = [c \in Call |-> "start"]
  /\ table = [a \in Assignment |-> None]
  /\ maps = {}
  /\ key = [m \in Call |-> [g \in Game |-> None]]
  /\ value = [m \in Call |-> [g \in Game |-> Zero]]
  /\ games = Call
  /\ map = [c \in Call |-> None]
  /\ old = [c \in Call |-> Zero]

Goto(c, label) == pc' = [pc EXCEPT ![c] = label]

-----------------------------------------------------------------------------
(* SequoiaTable::update_value()                                            *)

Refuse(c) ==
  /\ pc[c] = "start" /\ arg[c].game = Falsifier
  /\ games' = games \ {c}
  /\ Goto(c, "done")
  /\ UNCHANGED <<arg, table, maps, key, value, map, old>>

NewMap(c) ==
  /\ pc[c] = "start" /\ arg[c].game # Falsifier
  /\ maps' = maps \cup {c}
  /\ Goto(c, "intern")
  /\ UNCHANGED <<arg, table, key, value, games, map, old>>

InternNew(c) ==
  /\ pc[c] = "intern" /\ table[arg[c].alpha] = None
  /\ table' = [table EXCEPT ![arg[c].alpha] = c]
  /\ map' = [map EXCEPT ![c] = c]
  /\ Goto(c, "insert")
  /\ UNCHANGED <<arg, maps, key, value, games, old>>

(* Mutant of InternExisting: the map is taken before the insertion tells   *)
(* that there is one already.                                              *)
InternExistingOwnMap(c) ==
  /\ pc[c] = "intern" /\ table[arg[c].alpha] # None
  /\ maps' = maps \ {c}
  /\ map' = [map EXCEPT ![c] = c]
  /\ Goto(c, "insert")
  /\ UNCHANGED <<arg, table, key, value, games, old>>

InternExisting(c) ==
  /\ pc[c] = "intern" /\ table[arg[c].alpha] # None
  /\ maps' = maps \ {c}
  /\ map' = [map EXCEPT ![c] = table[arg[c].alpha]]
  /\ Goto(c, "insert")
  /\ UNCHANGED <<arg, table, key, value, games, old>>

-----------------------------------------------------------------------------
(* GameVoidPtrMap::update_value()                                          *)

InsertNew(c) ==
  LET g == arg[c].game IN
  /\ pc[c] = "insert" /\ key[map[c]][g] = None
  /\ key' = [key EXCEPT ![map[c]][g] = c]
  /\ value' = [value EXCEPT ![map[c]][g] = One(c)]
  /\ Goto(c, "done")
  /\ UNCHANGED <<arg, table, maps, games, map, old>>

(* Mutant of InsertExisting: the game that is not needed is kept.          *)
InsertExistingKeepsGame(c) ==
  /\ pc[c] = "insert" /\ key[map[c]][arg[c].game] # None
  /\ Goto(c, "read")
  /\ UNCHANGED <<arg, table, maps, key, value, games, map, old>>

InsertExisting(c) ==
  /\ pc[c] = "insert" /\ key[map[c]][arg[c].game] # None
  /\ games' = games \ {c}
  /\ Goto(c, "read")
  /\ UNCHANGED <<arg, table, maps, key, value, map, old>>

Read(c) ==
  /\ pc[c] = "read"
  /\ old' = [old EXCEPT ![c] = value[map[c]][arg[c].game]]
  /\ Goto(c, "swap")
  /\ UNCHANGED <<arg, table, maps, key, value, games, map>>

(* Mutant of Swap: the sum is stored whatever is there now.                *)
SwapBlindly(c) ==
  /\ pc[c] = "swap"
  /\ value' = [value EXCEPT ![map[c]][arg[c].game] = Plus(old[c], c)]
  /\ Goto(c, "done")
  /\ UNCHANGED <<arg, table, maps, key, games, map, old>>

Swap(c) ==
  /\ pc[c] = "swap" /\ value[map[c]][arg[c].game] = old[c]
  /\ value' = [value EXCEPT ![map[c]][arg[c].game] = Plus(old[c], c)]
  /\ Goto(c, "done")
  /\ UNCHANGED <<arg, table, maps, key, games, map, old>>

SwapFails(c) ==
  /\ pc[c] = "swap" /\ value[map[c]][arg[c].game] # old[c]
  /\ Goto(c, "read")
  /\ UNCHANGED <<arg, table, maps, key, value, games, map, old>>

Step(c) ==
  \/ Refuse(c) \/ NewMap(c) \/ InternNew(c) \/ InternExisting(c)
  \/ InsertNew(c) \/ InsertExisting(c) \/ Read(c) \/ Swap(c) \/ SwapFails(c)

AllDone == \A c \in Call : pc[c] = "done"

Finished == AllDone /\ UNCHANGED vars

Next == (\E c \in Call : Step(c)) \/ Finished

(* The calls do not block; each runs on a thread that is scheduled.        *)
Spec == Init /\ [][Next]_vars /\ \A c \in Call : WF_vars(Step(c))

-----------------------------------------------------------------------------
Labels == {"start", "intern", "insert", "read", "swap", "done"}

TypeOK ==
  /\ arg \in [Call -> [alpha : Assignment, game : Game \cup {Falsifier}]]
  /\ pc \in [Call -> Labels]
  /\ table \in [Assignment -> Call \cup {None}]
  /\ maps \subseteq Call
  /\ key \in [Call -> [Game -> Call \cup {None}]]
  /\ value \in [Call -> [Game -> [Call -> Nat]]]
  /\ games \subseteq Call
  /\ map \in [Call -> Call \cup {None}]
  /\ old \in [Call -> [Call -> Nat]]
  /\ \A c \in Call : pc[c] \notin {"start", "done"} => arg[c].game # Falsifier

(***************************************************************************)
(* No update is lost and none is counted twice: a call that has returned   *)
(* has left an entry for its game, and the value of an entry is the sum of *)
(* the values of the calls that have returned for it.                      *)
(***************************************************************************)
NothingLost ==
  /\ \A c \in Call :
       pc[c] = "done" /\ arg[c].game # Falsifier =>
         table[arg[c].alpha] # None /\ key[table[arg[c].alpha]][arg[c].game] # None
  /\ \A a \in Assignment, g \in Game, d \in Call :
       table[a] # None =>
         value[table[a]][g][d] =
           IF pc[d] = "done" /\ arg[d] = [alpha |-> a, game |-> g] THEN 1 ELSE 0

(***************************************************************************)
(* "Takes care of deleting the game, do not delete elsewhere!": once a     *)
(* call has returned, its game is deleted, or it is the key of an entry of *)
(* the table and will be deleted with it.                                  *)
(***************************************************************************)
IsKey(c) ==
  \E a \in Assignment, g \in Game : table[a] # None /\ key[table[a]][g] = c

GamesOwned ==
  /\ \A c \in Call : IsKey(c) => c \in games
  /\ \A c \in Call : pc[c] = "done" /\ c \in games => IsKey(c)

(***************************************************************************)
(* A call never works on a map that was deleted, and the maps that remain  *)
(* are those of the table.                                                 *)
(***************************************************************************)
MapsOwned ==
  /\ \A c \in Call : map[c] # None => map[c] \in maps
  /\ \A m \in maps : pc[m] # "intern" => \E a \in Assignment : table[a] = m

=============================================================================
