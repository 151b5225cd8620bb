------------------------------ MODULE LruCache ------------------------------
(***************************************************************************)
(* CacheImpl of cache.h on the List of list.h: a ring of cells around a    *)
(* sentinel, in the order of their last use, and a hash map from keys to   *)
(* cells.  One thread uses an instance: with TBB every thread has its own. *)
(***************************************************************************)
EXTENDS Naturals, FiniteSets, Sequences

CONSTANTS
  Key, Value, Limits, DefaultLimit, NoValue,
  Cell,      (* addresses of list nodes                                     *)
  Sentinel   (* the node List::List() allocates                             *)

ASSUME LruCacheAssumption ==
  /\ Limits \subseteq Nat /\ DefaultLimit \in Limits
  /\ NoValue \notin Value
  /\ Sentinel \notin Cell

VARIABLES
  pred, succ, (* the links of every node, the sentinel among them           *)
  item,      (* the key and value that the entry of each used node points to*)
  used,      (* the nodes that are allocated                                *)
  index,     (* _cache: the node of each key                                *)
  size,      (* _size                                                       *)
  max,       (* *_max_size                                                  *)
  topurge,   (* what is left of topurge in maybe_purge(), 0 outside         *)
  answer     (* what the last lookup() returned                             *)

vars == <<pred, succ, item, used, index, size, max, topurge, answer>>

Node == Cell \cup {Sentinel}
Item == [key : Key, value : Value]

Init ==
  /\ pred = [n \in Node |-> Sentinel]
  /\ succ = [n \in Node |-> Sentinel]
  /\ item = [c \in {} |-> Sentinel]
  /\ used = {}
  /\ index = [k \in {} |-> Sentinel]
  /\ size = 0
  /\ max = DefaultLimit
  /\ topurge = 0
  /\ answer = NoValue

-----------------------------------------------------------------------------
(* List: the links before and after each operation, [p |-> ., s |-> .]     *)

Links == [p |-> pred, s |-> succ]

(* remove_without_free(): node->pred->succ, then node->succ->pred          *)
Removed(l, n) ==
  LET s1 == [l.s EXCEPT ![l.p[n]] = l.s[n]]
      p1 == [l.p EXCEPT ![s1[n]] = l.p[n]]
  IN [p |-> p1, s |-> s1]

(* Mutant of PushedBack: the existing nodes are adjusted first.            *)
PushedBackLate(l, n) ==
  LET s1 == [l.s EXCEPT ![l.p[Sentinel]] = n]
      p1 == [l.p EXCEPT ![Sentinel] = n]
  IN [p |-> [p1 EXCEPT ![n] = p1[Sentinel]], s |-> [s1 EXCEPT ![n] = Sentinel]]

(* insert_before(_sentinel, node), the four assignments in their order     *)
PushedBack(l, n) ==
  LET p1 == [l.p EXCEPT ![n] = l.p[Sentinel]]
      s1 == [l.s EXCEPT ![n] = Sentinel]
      s2 == [s1 EXCEPT ![p1[n]] = n]
      p2 == [p1 EXCEPT ![s2[n]] = n]
  IN [p |-> p2, s |-> s2]

(* erase(): the links of a node that is not allocated are of no account.   *)
Erased(l, n) ==
  LET r == Removed(l, n)
  IN [p |-> [r.p EXCEPT ![n] = Sentinel], s |-> [r.s EXCEPT ![n] = Sentinel]]

MovedBack(l, n) == PushedBack(Removed(l, n), n)

SetLinks(l) == pred' = l.p /\ succ' = l.s

-----------------------------------------------------------------------------
(* Mutant of Lookup: a hit does not move the node.                         *)
LookupInPlace(k) ==
  /\ topurge = 0
  /\ answer' = IF k \in DOMAIN index THEN item[index[k]].value ELSE NoValue
  /\ UNCHANGED <<pred, succ, item, used, index, size, max, topurge>>

(* lookup(): a hit moves the node to the back and clones the value.        *)
Lookup(k) ==
  /\ topurge = 0
  /\ IF k \in DOMAIN index
     THEN /\ SetLinks(MovedBack(Links, index[k]))
          /\ answer' = item[index[k]].value
     ELSE /\ answer' = NoValue
          /\ UNCHANGED <<pred, succ>>
  /\ UNCHANGED <<item, used, index, size, max, topurge>>

(* _max_size is 0: the key and the value are deleted.                      *)
StoreRefused(k, v) ==
  /\ topurge = 0 /\ max = 0
  /\ UNCHANGED vars

(* maybe_purge(): how many entries go when there are n.                    *)
ToPurge(n) == IF n <= max THEN 0 ELSE n - max

(* The node is pushed back before the map says that the key is new.        *)
StoreNew(k, v) ==
  /\ topurge = 0 /\ max # 0
  /\ k \notin DOMAIN index
  /\ \E c \in Cell \ used :
       /\ SetLinks(PushedBack(Links, c))
       /\ item' = [d \in used \cup {c} |->
                      IF d = c THEN [key |-> k, value |-> v] ELSE item[d]]
       /\ used' = used \cup {c}
       /\ index' = [j \in DOMAIN index \cup {k} |-> IF j = k THEN c ELSE index[j]]
  /\ size' = size + 1
  /\ topurge' = ToPurge(size')
  /\ UNCHANGED <<max, answer>>

(* The key was there: its node stays where it is, the new one is erased.   *)
StoreDuplicate(k, v) ==
  /\ topurge = 0 /\ max # 0
  /\ k \in DOMAIN index
  /\ \E c \in Cell \ used : SetLinks(Erased(PushedBack(Links, c), c))
  /\ topurge' = ToPurge(size)
  /\ UNCHANGED <<item, used, index, size, max, answer>>

(* One round of the loop in maybe_purge().                                 *)
Purge ==
  LET c == succ[Sentinel] IN
  /\ topurge > 0
  /\ SetLinks(Erased(Links, c))
  /\ used' = used \ {c}
  /\ item' = [d \in used' |-> item[d]]
  /\ index' = [j \in DOMAIN index \ {item[c].key} |-> index[j]]
  /\ size' = size - 1
  /\ topurge' = topurge - 1
  /\ UNCHANGED <<max, answer>>

(* Cache::resize(): only the limit changes.                                *)
Resize(n) ==
  /\ topurge = 0
  /\ max' = n
  /\ UNCHANGED <<pred, succ, item, used, index, size, topurge, answer>>

Store(k, v) == StoreRefused(k, v) \/ StoreNew(k, v) \/ StoreDuplicate(k, v)

Next ==
  \/ \E k \in Key : Lookup(k) \/ \E v \in Value : Store(k, v)
  \/ Purge
  \/ \E n \in Limits : Resize(n)

Spec == Init /\ [][Next]_vars

-----------------------------------------------------------------------------
TypeOK ==
  /\ pred \in [Node -> Node] /\ succ \in [Node -> Node]
  /\ used \subseteq Cell
  /\ item \in [used -> Item]
  /\ DOMAIN index \subseteq Key /\ \A k \in DOMAIN index : index[k] \in Cell
  /\ size \in Nat /\ max \in Nat /\ topurge \in Nat
  /\ answer \in Value \cup {NoValue}

(***************************************************************************)
(* The nodes in use and the sentinel form one doubly linked ring: links    *)
(* lead to allocated nodes and back, and every node is reached from the    *)
(* sentinel.                                                               *)
(***************************************************************************)
IsRing(l, L) ==
  /\ Sentinel \in L
  /\ \A n \in L : /\ l.s[n] \in L /\ l.p[l.s[n]] = n
                  /\ l.p[n] \in L /\ l.s[l.p[n]] = n
  /\ \A S \in SUBSET L : Sentinel \in S /\ (\A n \in S : l.s[n] \in S) => S = L

RingOK == IsRing(Links, used \cup {Sentinel})

(***************************************************************************)
(* A handle in the map never dangles: the map leads from each key to the   *)
(* node with an entry for that key, every node is in the map, and _size    *)
(* counts them.                                                            *)
(***************************************************************************)
IndexOK ==
  /\ \A k \in DOMAIN index : index[k] \in used /\ item[index[k]].key = k
  /\ \A c \in used : item[c].key \in DOMAIN index /\ index[item[c].key] = c
  /\ size = Cardinality(used)

(* The assertion at the end of maybe_purge(): _size <= *_max_size.         *)
PurgedEnough == topurge > 0 => size = max + topurge

(* The i-th node from the sentinel on.                                     *)
Nth[i \in Nat] == IF i = 0 THEN Sentinel ELSE succ[Nth[i - 1]]

Abstract == INSTANCE Lru WITH
  queue <- [i \in 1 .. size |-> item[Nth[i]]],
  limit <- max, storing <- topurge > 0

(***************************************************************************)
(* The cells read off the ring from the sentinel on are the entries of an  *)
(* LRU cache in the order of their last use.                               *)
(***************************************************************************)
ImplementsLru == Abstract!Spec
=============================================================================
