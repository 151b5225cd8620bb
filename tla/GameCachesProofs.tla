-------------------------- MODULE GameCachesProofs --------------------------
(***************************************************************************)
(* Proofs about the result caches.  LruCache: for any number of keys and   *)
(* any limits, the list stays one ring, the map and the ring hold the same *)
(* entries, and a purge ends at the limit; read as a sequence, the ring is *)
(* the queue of Lru.  GameCaches: whatever solvers come and go, the caches *)
(* take only the steps of LruCache, and every entry is the result of what  *)
(* is at the addresses of its key.                                         *)
(***************************************************************************)
EXTENDS GameCaches, FiniteSetTheorems, WellFoundedInduction, TLAPS

LinksType == [p : [Node -> Node], s : [Node -> Node]]

IInv == TypeOK /\ RingOK /\ IndexOK /\ PurgedEnough /\ IsFiniteSet(used)
-----------------------------------------------------------------------------
(* remove_without_free() leaves a ring without the node.                   *)
LEMMA RemovedRing ==
  ASSUME NEW L \in SUBSET Node, NEW l \in LinksType, IsRing(l, L),
         NEW n \in L, n # Sentinel
  PROVE  Removed(l, n) \in LinksType /\ IsRing(Removed(l, n), L \ {n})
<1> DEFINE r == Removed(l, n)
           a == l.p[n]
           b == l.s[n]
<1>1. /\ a \in L /\ b \in L /\ l.s[a] = n /\ l.p[b] = n
      /\ a # n /\ b # n
  <2>1. a \in L /\ b \in L /\ l.s[a] = n /\ l.p[b] = n  BY DEF IsRing
  <2>2. ASSUME a = n \/ b = n PROVE FALSE
    <3>1. l.s[n] = n  BY <2>1, <2>2
    <3>2. \A m \in L \ {n} : l.s[m] \in L \ {n}  BY <3>1 DEF IsRing
    <3>3. L \ {n} \in SUBSET L /\ Sentinel \in L \ {n}  BY DEF IsRing
    <3>4. L \ {n} = L  BY <3>2, <3>3 DEF IsRing
    <3> QED  BY <3>4
  <2> QED  BY <2>1, <2>2
<1>2. r.s = [l.s EXCEPT ![a] = b] /\ r.p = [l.p EXCEPT ![b] = a]
  BY <1>1 DEF Removed, LinksType
<1>3. r \in LinksType  BY <1>1 DEF Removed, LinksType
<1>4. \A m \in L \ {n} : /\ r.s[m] = IF m = a THEN b ELSE l.s[m]
                         /\ r.p[m] = IF m = b THEN a ELSE l.p[m]
  BY <1>2 DEF LinksType
<1>5. \A m \in L \ {n} : /\ r.s[m] \in L \ {n} /\ r.p[r.s[m]] = m
                         /\ r.p[m] \in L \ {n} /\ r.s[r.p[m]] = m
  BY <1>1, <1>4 DEF IsRing
<1>6. ASSUME NEW S \in SUBSET (L \ {n}), Sentinel \in S, \A m \in S : r.s[m] \in S
      PROVE  S = L \ {n}
  <2>1. CASE a \in S
    <3>1. b \in S  BY <2>1, <1>1, <1>4, <1>6
    <3>2. \A m \in S \cup {n} : l.s[m] \in S \cup {n}  BY <3>1, <1>1, <1>4, <1>6
    <3>3. S \cup {n} \in SUBSET L  OBVIOUS
    <3>4. S \cup {n} = L  BY <3>2, <3>3, <1>6 DEF IsRing
    <3> QED  BY <3>4
  <2>2. CASE a \notin S
    <3>1. \A m \in S : l.s[m] \in S  BY <2>2, <1>4, <1>6
    <3>2. S = L  BY <3>1, <1>6 DEF IsRing
    <3> QED  BY <3>2
  <2> QED  BY <2>1, <2>2
<1>7. Sentinel \in L \ {n}  BY DEF IsRing
<1> HIDE DEF r
<1>8. IsRing(r, L \ {n})  BY <1>5, <1>6, <1>7 DEF IsRing
<1> QED  BY <1>3, <1>8 DEF r

(* push_back() leaves a ring with the node.                                *)
LEMMA PushedBackRing ==
  ASSUME NEW L \in SUBSET Node, NEW l \in LinksType, IsRing(l, L),
         NEW n \in Node \ L
  PROVE  PushedBack(l, n) \in LinksType /\ IsRing(PushedBack(l, n), L \cup {n})
<1> DEFINE r == PushedBack(l, n)
           a == l.p[Sentinel]
<1>1. Sentinel \in L /\ a \in L /\ l.s[a] = Sentinel /\ a # n /\ n # Sentinel
  BY DEF IsRing
<1>2. /\ r.s = [[l.s EXCEPT ![n] = Sentinel] EXCEPT ![a] = n]
      /\ r.p = [[l.p EXCEPT ![n] = a] EXCEPT ![Sentinel] = n]
  BY <1>1 DEF PushedBack, LinksType
<1>3. r \in LinksType
  BY <1>1 DEF PushedBack, LinksType
<1>4. \A m \in L : /\ r.s[m] = IF m = a THEN n ELSE l.s[m]
                   /\ r.p[m] = IF m = Sentinel THEN n ELSE l.p[m]
  BY <1>1, <1>2 DEF LinksType
<1>5. r.s[n] = Sentinel /\ r.p[n] = a  BY <1>1, <1>2 DEF LinksType
<1>6. \A m \in L \cup {n} : /\ r.s[m] \in L \cup {n} /\ r.p[r.s[m]] = m
                            /\ r.p[m] \in L \cup {n} /\ r.s[r.p[m]] = m
  BY <1>1, <1>4, <1>5 DEF IsRing
<1>7. ASSUME NEW S \in SUBSET (L \cup {n}), Sentinel \in S, \A m \in S : r.s[m] \in S
      PROVE  S = L \cup {n}
  <2>1. \A m \in S \ {n} : l.s[m] \in S \ {n}
    BY <1>1, <1>4, <1>7 DEF IsRing
  <2>2. S \ {n} = L  BY <2>1, <1>1, <1>7 DEF IsRing
  <2>3. n \in S  BY <2>2, <1>1, <1>4, <1>7
  <2> QED  BY <2>2, <2>3
<1> HIDE DEF r
<1>8. IsRing(r, L \cup {n})  BY <1>1, <1>6, <1>7 DEF IsRing
<1> QED  BY <1>3, <1>8 DEF r

(* erase() leaves a ring without the node; its own links do not matter.    *)
LEMMA ErasedRing ==
  ASSUME NEW L \in SUBSET Node, NEW l \in LinksType, IsRing(l, L),
         NEW n \in L, n # Sentinel
  PROVE  Erased(l, n) \in LinksType /\ IsRing(Erased(l, n), L \ {n})
<1> DEFINE q == Removed(l, n)
           r == Erased(l, n)
<1>1. q \in LinksType /\ IsRing(q, L \ {n})  BY RemovedRing
<1>2. r = [p |-> [q.p EXCEPT ![n] = Sentinel], s |-> [q.s EXCEPT ![n] = Sentinel]]
  BY DEF Erased
<1> HIDE DEF q, r
<1>3. r \in LinksType  BY <1>1, <1>2 DEF LinksType, Node
<1>4. \A m \in L \ {n} : r.s[m] = q.s[m] /\ r.p[m] = q.p[m]
  BY <1>1, <1>2 DEF LinksType
<1>5. IsRing(r, L \ {n})
  <2>1. \A m \in L \ {n} : /\ r.s[m] \in L \ {n} /\ r.p[r.s[m]] = m
                           /\ r.p[m] \in L \ {n} /\ r.s[r.p[m]] = m
    BY <1>1, <1>4 DEF IsRing
  <2>2. ASSUME NEW S \in SUBSET (L \ {n}), Sentinel \in S, \A m \in S : r.s[m] \in S
        PROVE  S = L \ {n}
    <3>1. \A m \in S : q.s[m] \in S  BY <1>4, <2>2
    <3> QED  BY <3>1, <1>1, <2>2 DEF IsRing
  <2> QED  BY <2>1, <2>2, <1>1 DEF IsRing
<1> QED  BY <1>3, <1>5 DEF r

(* The links in a state that satisfies the invariant.                      *)
LEMMA LinksRing ==
  ASSUME IInv
  PROVE  /\ Links \in LinksType
         /\ used \cup {Sentinel} \in SUBSET Node
         /\ IsRing(Links, used \cup {Sentinel})
BY DEF IInv, TypeOK, RingOK, Links, LinksType, Node

(* New links that form a ring around what is in use are a good next state. *)
LEMMA NextRing ==
  ASSUME NEW l \in LinksType, SetLinks(l), IsRing(l, used' \cup {Sentinel})
  PROVE  RingOK' /\ pred' \in [Node -> Node] /\ succ' \in [Node -> Node]
<1>1. l = [p |-> pred', s |-> succ']  BY DEF SetLinks, LinksType
<1>2. l = Links'  BY <1>1 DEF Links
<1>3. IsRing(Links', used' \cup {Sentinel}) = IsRing(Links, used \cup {Sentinel})'
  BY DEF IsRing
<1> QED  BY <1>1, <1>2, <1>3 DEF RingOK, LinksType
-----------------------------------------------------------------------------
LEMMA InitIInv == Init => IInv
<1> SUFFICES ASSUME Init PROVE IInv
  OBVIOUS
<1> USE DEF Init
<1>1. IsFiniteSet(used) /\ Cardinality(used) = 0  BY FS_EmptySet
<1>2. TypeOK  BY LruCacheAssumption DEF TypeOK, Node
<1>3. RingOK  BY DEF RingOK, IsRing, Links, Node
<1>4. IndexOK /\ PurgedEnough  BY <1>1 DEF IndexOK, PurgedEnough
<1> QED  BY <1>1, <1>2, <1>3, <1>4 DEF IInv

LEMMA LookupIInv == ASSUME NEW k \in Key, IInv, Lookup(k) PROVE IInv'
<1>1. UNCHANGED <<item, used, index, size, max, topurge>>  BY DEF Lookup
<1>2. IndexOK' /\ PurgedEnough' /\ IsFiniteSet(used)'
  BY <1>1 DEF IInv, IndexOK, PurgedEnough
<1>3. CASE k \in DOMAIN index
  <2>1. PICK n \in used : n = index[k]  BY <1>3 DEF IInv, IndexOK
  <2>2. n # Sentinel /\ n \in Node
    BY <2>1, LruCacheAssumption DEF IInv, TypeOK, Node
  <2> DEFINE L == used \cup {Sentinel}
             q == Removed(Links, n)
             r == PushedBack(q, n)
  <2>3. q \in LinksType /\ IsRing(q, L \ {n})  BY <2>2, LinksRing, RemovedRing
  <2>4. L \ {n} \in SUBSET Node /\ n \in Node \ (L \ {n})  BY <2>2, LinksRing
  <2>5. r \in LinksType /\ IsRing(r, (L \ {n}) \cup {n})
    <3> HIDE DEF q, L
    <3> QED  BY <2>3, <2>4, PushedBackRing
  <2>6. (L \ {n}) \cup {n} = used' \cup {Sentinel}  BY <1>1, <2>1
  <2>7. SetLinks(r)  BY <1>3, <2>1 DEF Lookup, MovedBack
  <2>8. RingOK' /\ pred' \in [Node -> Node] /\ succ' \in [Node -> Node]
    <3> HIDE DEF r, L
    <3> QED  BY <2>5, <2>6, <2>7, NextRing
  <2>9. answer' \in Value
    BY <1>3, <2>1 DEF Lookup, IInv, TypeOK, Item
  <2> QED  BY <1>1, <1>2, <2>8, <2>9 DEF IInv, TypeOK
<1>4. CASE k \notin DOMAIN index
  BY <1>1, <1>2, <1>4 DEF Lookup, IInv, TypeOK, RingOK, Links, IsRing
<1> QED  BY <1>3, <1>4

LEMMA ToPurgeType ==
  ASSUME IInv, NEW n \in Nat
  PROVE  ToPurge(n) \in Nat /\ (ToPurge(n) > 0 => n = max + ToPurge(n))
BY DEF IInv, TypeOK, ToPurge

LEMMA StoreNewIInv ==
  ASSUME NEW k \in Key, NEW v \in Value, IInv, StoreNew(k, v) PROVE IInv'
<1>1. PICK c \in Cell \ used :
       /\ SetLinks(PushedBack(Links, c))
       /\ item' = [d \in used \cup {c} |->
                      IF d = c THEN [key |-> k, value |-> v] ELSE item[d]]
       /\ used' = used \cup {c}
       /\ index' = [j \in DOMAIN index \cup {k} |-> IF j = k THEN c ELSE index[j]]
  BY DEF StoreNew
<1>2. /\ k \notin DOMAIN index /\ size' = size + 1 /\ topurge' = ToPurge(size')
      /\ UNCHANGED <<max, answer>>
  BY DEF StoreNew
<1>3. RingOK' /\ pred' \in [Node -> Node] /\ succ' \in [Node -> Node]
  <2> DEFINE L == used \cup {Sentinel}
             r == PushedBack(Links, c)
  <2>1. c \in Node \ L  BY LruCacheAssumption DEF Node
  <2>2. r \in LinksType /\ IsRing(r, L \cup {c})
    <3> HIDE DEF L
    <3> QED  BY <2>1, LinksRing, PushedBackRing DEF L
  <2>3. L \cup {c} = used' \cup {Sentinel}  BY <1>1
  <2> HIDE DEF r, L
  <2> QED  BY <1>1, <2>2, <2>3, NextRing DEF r
<1>4. IsFiniteSet(used') /\ Cardinality(used') = Cardinality(used) + 1
  BY <1>1, FS_AddElement DEF IInv
<1>5. topurge' \in Nat /\ PurgedEnough'
  BY <1>2, ToPurgeType DEF IInv, TypeOK, PurgedEnough
<1>6. TypeOK'
  <2>1. item' \in [used' -> Item]  BY <1>1 DEF IInv, TypeOK, Item
  <2> QED  BY <1>1, <1>2, <1>3, <1>5, <2>1 DEF IInv, TypeOK
<1>7. IndexOK'
  <2>1. \A j \in DOMAIN index' : index'[j] \in used' /\ item'[index'[j]].key = j
    BY <1>1, <1>2 DEF IInv, IndexOK
  <2>2. \A d \in used' : item'[d].key \in DOMAIN index' /\ index'[item'[d].key] = d
    BY <1>1, <1>2 DEF IInv, IndexOK
  <2> QED  BY <2>1, <2>2, <1>2, <1>4 DEF IInv, IndexOK
<1> QED  BY <1>3, <1>4, <1>5, <1>6, <1>7 DEF IInv

LEMMA StoreDuplicateIInv ==
  ASSUME NEW k \in Key, NEW v \in Value, IInv, StoreDuplicate(k, v) PROVE IInv'
<1>1. PICK c \in Cell \ used : SetLinks(Erased(PushedBack(Links, c), c))
  BY DEF StoreDuplicate
<1>2. /\ topurge' = ToPurge(size)
      /\ UNCHANGED <<item, used, index, size, max, answer>>
  BY DEF StoreDuplicate
<1>3. RingOK' /\ pred' \in [Node -> Node] /\ succ' \in [Node -> Node]
  <2> DEFINE L == used \cup {Sentinel}
             q == PushedBack(Links, c)
             r == Erased(q, c)
  <2>1. c \in Node \ L /\ c # Sentinel  BY LruCacheAssumption DEF Node
  <2>2. q \in LinksType /\ IsRing(q, L \cup {c})
    <3> HIDE DEF L
    <3> QED  BY <2>1, LinksRing, PushedBackRing DEF L
  <2>3. L \cup {c} \in SUBSET Node  BY <2>1, LinksRing
  <2>4. r \in LinksType /\ IsRing(r, (L \cup {c}) \ {c})
    <3> HIDE DEF q, L
    <3> QED  BY <2>1, <2>2, <2>3, ErasedRing
  <2>5. (L \cup {c}) \ {c} = used' \cup {Sentinel}  BY <1>2, <2>1
  <2>6. SetLinks(r)  BY <1>1
  <2> HIDE DEF r, L
  <2> QED  BY <2>4, <2>5, <2>6, NextRing
<1>4. topurge' \in Nat /\ PurgedEnough'
  BY <1>2, ToPurgeType DEF IInv, TypeOK, PurgedEnough
<1> QED  BY <1>2, <1>3, <1>4 DEF IInv, TypeOK, IndexOK

LEMMA PurgeIInv == ASSUME IInv, Purge PROVE IInv'
<1>1. PICK c \in Node : c = succ[Sentinel]  BY DEF IInv, TypeOK, Node
<1>2. /\ topurge > 0
      /\ SetLinks(Erased(Links, c))
      /\ used' = used \ {c}
      /\ item' = [d \in used' |-> item[d]]
      /\ index' = [j \in DOMAIN index \ {item[c].key} |-> index[j]]
      /\ size' = size - 1 /\ topurge' = topurge - 1
      /\ UNCHANGED <<max, answer>>
  BY <1>1 DEF Purge
<1>3. c \in used
  <2>1. size > 0  BY <1>2 DEF IInv, TypeOK, PurgedEnough
  <2>2. used # {}  BY <2>1, FS_EmptySet DEF IInv, IndexOK
  <2>3. ASSUME c = Sentinel PROVE FALSE
    <3>1. \A n \in {Sentinel} : Links.s[n] \in {Sentinel}  BY <1>1, <2>3 DEF Links
    <3>2. {Sentinel} = used \cup {Sentinel}  BY <3>1, LinksRing DEF IsRing
    <3> QED  BY <3>2, <2>2, LruCacheAssumption DEF IInv, TypeOK
  <2>4. c \in used \cup {Sentinel}  BY <1>1, LinksRing DEF IsRing, Links
  <2> QED  BY <2>3, <2>4
<1>4. RingOK' /\ pred' \in [Node -> Node] /\ succ' \in [Node -> Node]
  <2> DEFINE L == used \cup {Sentinel}
             r == Erased(Links, c)
  <2>1. c \in L /\ c # Sentinel  BY <1>3, LruCacheAssumption DEF IInv, TypeOK
  <2>2. r \in LinksType /\ IsRing(r, L \ {c})
    <3> HIDE DEF L
    <3> QED  BY <2>1, LinksRing, ErasedRing DEF L
  <2>3. L \ {c} = used' \cup {Sentinel}  BY <1>2, <2>1
  <2>4. SetLinks(r)  BY <1>2
  <2> HIDE DEF r, L
  <2> QED  BY <2>2, <2>3, <2>4, NextRing
<1>5. IsFiniteSet(used') /\ Cardinality(used') = Cardinality(used) - 1
  BY <1>2, <1>3, FS_RemoveElement DEF IInv
<1>6. topurge' \in Nat /\ size' \in Nat /\ PurgedEnough'
  BY <1>2 DEF IInv, TypeOK, PurgedEnough
<1>7. TypeOK'
  BY <1>2, <1>4, <1>6 DEF IInv, TypeOK
<1>8. IndexOK'
  <2>1. item[c].key \in DOMAIN index /\ index[item[c].key] = c
    BY <1>3 DEF IInv, IndexOK
  <2>2. \A j \in DOMAIN index' : index'[j] \in used' /\ item'[index'[j]].key = j
    BY <1>2, <2>1 DEF IInv, IndexOK
  <2>3. \A d \in used' : item'[d].key \in DOMAIN index' /\ index'[item'[d].key] = d
    BY <1>2, <2>1 DEF IInv, IndexOK
  <2> QED  BY <2>2, <2>3, <1>2, <1>5 DEF IInv, IndexOK
<1> QED  BY <1>4, <1>5, <1>6, <1>7, <1>8 DEF IInv

LEMMA UnchangedIInv == ASSUME IInv, UNCHANGED vars PROVE IInv'
BY DEF vars, IInv, TypeOK, RingOK, IsRing, Links, IndexOK, PurgedEnough

LEMMA ResizeIInv == ASSUME NEW n \in Limits, IInv, Resize(n) PROVE IInv'
BY LruCacheAssumption DEF Resize, IInv, TypeOK, RingOK, IsRing, Links, IndexOK, PurgedEnough

LEMMA IInvInductive == Spec => []IInv
<1>1. IInv /\ [Next]_vars => IInv'
  <2> SUFFICES ASSUME IInv, [Next]_vars PROVE IInv'
    OBVIOUS
  <2>1. CASE UNCHANGED vars  BY <2>1, UnchangedIInv
  <2>2. ASSUME NEW k \in Key, Lookup(k) PROVE IInv'  BY <2>2, LookupIInv
  <2>3. ASSUME NEW k \in Key, NEW v \in Value, Store(k, v) PROVE IInv'
    BY <2>3, UnchangedIInv, StoreNewIInv, StoreDuplicateIInv DEF Store, StoreRefused
  <2>4. CASE Purge  BY <2>4, PurgeIInv
  <2>5. ASSUME NEW n \in Limits, Resize(n) PROVE IInv'  BY <2>5, ResizeIInv
  <2> QED  BY <2>1, <2>2, <2>3, <2>4, <2>5 DEF Next
<1> QED  BY InitIInv, <1>1, PTL DEF Spec

(* The nodes in use and the sentinel always form one ring.                 *)
THEOREM LruRing == Spec => []RingOK
<1>1. IInv => RingOK  BY DEF IInv
<1> QED  BY IInvInductive, <1>1, PTL

(* The map and the list hold the same entries, and _size counts them.      *)
THEOREM LruIndex == Spec => []IndexOK
<1>1. IInv => IndexOK  BY DEF IInv
<1> QED  BY IInvInductive, <1>1, PTL

(* maybe_purge() removes what is over the limit: its assertion holds.      *)
THEOREM LruPurged == Spec => []PurgedEnough
<1>1. IInv => PurgedEnough  BY DEF IInv
<1> QED  BY IInvInductive, <1>1, PTL

-----------------------------------------------------------------------------
(***************************************************************************)
(* The list as a sequence.  A walk goes from the sentinel through all      *)
(* nodes of a ring and is back after the last; it is the only one there    *)
(* is, and each operation of the list changes it in one place.             *)
(***************************************************************************)
(* A set of natural numbers has a least element.                           *)
LEMMA LeastNat ==
  ASSUME NEW T, T \subseteq Nat, T # {}
  PROVE  \E x \in T : \A y \in T : x <= y
<1> DEFINE R == OpToRel(<, Nat)
<1>1. \E x \in T : \A y \in T : ~(<<y, x>> \in R)
  BY NatLessThanWellFounded, WFMin, Zenon
<1>2. \A x, y \in Nat : <<y, x>> \in R <=> y < x
  BY DEF OpToRel
<1> HIDE DEF R
<1>3. PICK x \in T : \A y \in T : <<y, x>> \notin R  BY <1>1, Zenon
<1>4. \A y \in T : ~(y < x)  BY <1>2, <1>3
<1> QED  BY <1>3, <1>4

Iterates(f, z, s) == f = [i \in Nat |-> IF i = 0 THEN z ELSE s[f[i - 1]]]

LEMMA IteratesExist == ASSUME NEW z, NEW s PROVE \E f : Iterates(f, z, s)
<1> DEFINE Upto(f, m) == f = [i \in 0 .. m |-> IF i = 0 THEN z ELSE s[f[i - 1]]]
           Bad == {m \in Nat : ~\E f : Upto(f, m)}
<1>1. Bad = {}
  <2> SUFFICES ASSUME Bad # {} PROVE FALSE
    OBVIOUS
  <2>1. Bad \subseteq Nat
    OBVIOUS
  <2>2. PICK m \in Bad : \A k \in Bad : m <= k
    <3> HIDE DEF Bad
    <3> QED BY <2>1, LeastNat
  <2>3. CASE m = 0
    <3> DEFINE f == [i \in 0 .. 0 |-> z]
    <3>1. Upto(f, 0)
      OBVIOUS
    <3> QED BY <2>3, <3>1
  <2>4. CASE m # 0
    <3>1. m - 1 \in Nat /\ m - 1 \notin Bad
      BY <2>2, <2>4
    <3>2. PICK f : Upto(f, m - 1)
      BY <3>1
    <3> DEFINE g == [i \in 0 .. m |-> IF i = m THEN s[f[m - 1]] ELSE f[i]]
    <3>3. \A i \in 0 .. m - 1 : g[i] = f[i]
      OBVIOUS
    <3>4. ASSUME NEW i \in 0 .. m PROVE g[i] = IF i = 0 THEN z ELSE s[g[i - 1]]
      <4>1. CASE i = m
        BY <2>4, <3>3, <4>1
      <4>2. CASE i # m
        <5>1. i \in 0 .. m - 1
          BY <4>2
        <5>2. f[i] = IF i = 0 THEN z ELSE s[f[i - 1]]
          BY <3>2, <5>1
        <5>3. i # 0 => i - 1 \in 0 .. m - 1
          BY <5>1
        <5> HIDE DEF g
        <5> QED BY <3>3, <5>1, <5>2, <5>3
      <4> QED BY <4>1, <4>2
    <3>5. Upto(g, m)
      <4>1. g = [i \in 0 .. m |-> g[i]]
        OBVIOUS
      <4> HIDE DEF g
      <4> QED BY <3>4, <4>1
    <3> HIDE DEF Upto, g
    <3> QED BY <3>5
  <2> QED BY <2>3, <2>4
<1>2. \A m \in Nat : \E f : Upto(f, m)
  BY <1>1
<1> DEFINE F(m) == CHOOSE f : Upto(f, m)
           h == [i \in Nat |-> F(i)[i]]
<1>3. \A m \in Nat : Upto(F(m), m)
  <2> HIDE DEF Upto
  <2> QED BY <1>2
<1> HIDE DEF F
<1>4. \A m \in Nat : \A i \in 0 .. m : F(m)[i] = IF i = 0 THEN z ELSE s[F(m)[i - 1]]
  BY <1>3
<1>5. ASSUME NEW m \in Nat, NEW k \in Nat, m <= k PROVE F(k)[m] = F(m)[m]
  <2> DEFINE Other == {i \in 0 .. m : F(k)[i] # F(m)[i]}
  <2> SUFFICES ASSUME Other # {} PROVE FALSE
    OBVIOUS
  <2>1. Other \subseteq Nat
    OBVIOUS
  <2>2. PICK i \in Other : \A j \in Other : i <= j
    <3> HIDE DEF Other
    <3> QED BY <2>1, LeastNat
  <2>3. i \in 0 .. m /\ i \in 0 .. k /\ F(k)[i] # F(m)[i]
    BY <1>5
  <2>4. /\ F(k)[i] = IF i = 0 THEN z ELSE s[F(k)[i - 1]]
        /\ F(m)[i] = IF i = 0 THEN z ELSE s[F(m)[i - 1]]
    BY <1>4, <2>3
  <2>5. i # 0 => i - 1 \in 0 .. m /\ ~(i <= i - 1)
    BY <2>3
  <2>6. i # 0 => F(k)[i - 1] = F(m)[i - 1]
    BY <2>2, <2>5
  <2> QED BY <2>3, <2>4, <2>6
<1>6. ASSUME NEW i \in Nat PROVE h[i] = IF i = 0 THEN z ELSE s[h[i - 1]]
  <2>1. F(i)[i] = IF i = 0 THEN z ELSE s[F(i)[i - 1]]
    BY <1>4
  <2>2. i # 0 => i - 1 \in Nat /\ i - 1 <= i
    OBVIOUS
  <2>3. i # 0 => F(i)[i - 1] = F(i - 1)[i - 1]
    BY <1>5, <2>2
  <2>4. h[i] = F(i)[i] /\ (i # 0 => h[i - 1] = F(i - 1)[i - 1])
    BY <2>2
  <2> HIDE DEF h
  <2> QED BY <2>1, <2>3, <2>4
<1>7. Iterates(h, z, s)
  <2>1. h = [i \in Nat |-> h[i]]
    OBVIOUS
  <2> HIDE DEF h
  <2> QED BY <1>6, <2>1 DEF Iterates
<1> QED BY <1>7

Walk(l, L, q, m) ==
  /\ m \in Nat /\ q \in [0 .. m -> L] /\ q[0] = Sentinel
  /\ \A i \in 0 .. m - 1 : l.s[q[i]] = q[i + 1]
  /\ l.s[q[m]] = Sentinel
  /\ \A i, j \in 0 .. m : q[i] = q[j] => i = j
  /\ \A c \in L : \E i \in 0 .. m : q[i] = c

(* Who follows the links walks.                                            *)
LEMMA WalkIs ==
  ASSUME NEW l, NEW L, NEW q, NEW m, Walk(l, L, q, m),
         NEW f, Iterates(f, Sentinel, l.s)
  PROVE  \A i \in 0 .. m : f[i] = q[i]
<1> DEFINE Other == {i \in 0 .. m : f[i] # q[i]}
<1> SUFFICES ASSUME Other # {} PROVE FALSE
  OBVIOUS
<1>1. m \in Nat /\ Other \subseteq Nat
  BY DEF Walk
<1>2. PICK i \in Other : \A j \in Other : i <= j
  <2> HIDE DEF Other
  <2> QED BY <1>1, LeastNat
<1>3. i \in 0 .. m /\ f[i] # q[i] /\ i \in Nat
  BY <1>1
<1>4. f[i] = IF i = 0 THEN Sentinel ELSE l.s[f[i - 1]]
  BY <1>3 DEF Iterates
<1>5. i # 0
  BY <1>3, <1>4 DEF Walk
<1>6. i - 1 \in 0 .. m - 1 /\ i - 1 \in 0 .. m /\ ~(i <= i - 1) /\ (i - 1) + 1 = i
  BY <1>1, <1>3, <1>5
<1>7. f[i - 1] = q[i - 1]
  BY <1>2, <1>6
<1>8. l.s[q[i - 1]] = q[i]
  BY <1>6 DEF Walk
<1> QED BY <1>3, <1>4, <1>5, <1>7, <1>8

(* Every ring has a walk: back at the sentinel for the first time, one has *)
(* come by all its nodes.                                                  *)
LEMMA RingWalk ==
  ASSUME NEW l, NEW L, IsRing(l, L), IsFiniteSet(L)
  PROVE  \E q, m : Walk(l, L, q, m) /\ Cardinality(L) = m + 1
<1>1. PICK f : Iterates(f, Sentinel, l.s)
  BY IteratesExist
<1>2. f[0] = Sentinel /\ \A i \in Nat : f[i + 1] = l.s[f[i]]
  <2>1. f[0] = Sentinel
    BY <1>1 DEF Iterates
  <2>2. ASSUME NEW i \in Nat PROVE f[i + 1] = l.s[f[i]]
    <3>1. i + 1 \in Nat /\ i + 1 # 0 /\ (i + 1) - 1 = i
      OBVIOUS
    <3> QED BY <1>1, <3>1 DEF Iterates
  <2> QED BY <2>1, <2>2
<1>3. \A i \in Nat : f[i] \in L
  <2> DEFINE Out == {i \in Nat : f[i] \notin L}
  <2> SUFFICES ASSUME Out # {} PROVE FALSE
    OBVIOUS
  <2>1. PICK i \in Out : \A j \in Out : i <= j
    <3>1. Out \subseteq Nat
      OBVIOUS
    <3> HIDE DEF Out
    <3> QED BY <3>1, LeastNat
  <2>2. i # 0
    BY <1>2 DEF IsRing
  <2>3. i - 1 \in Nat /\ ~(i <= i - 1) /\ (i - 1) + 1 = i
    BY <2>2
  <2>4. f[i - 1] \in L
    BY <2>1, <2>3
  <2> QED BY <1>2, <2>3, <2>4 DEF IsRing
(* Two times at one node: as long before, two times at the one before it.  *)
<1>4. ASSUME NEW i \in Nat, NEW d \in Nat, f[i + d] = f[i] PROVE f[d] = Sentinel
  <2> DEFINE Same == {j \in Nat : f[j + d] = f[j]}
  <2>1. PICK j \in Same : \A k \in Same : j <= k
    <3>1. Same \subseteq Nat /\ i \in Same
      BY <1>4
    <3> HIDE DEF Same
    <3> QED BY <3>1, LeastNat
  <2>2. CASE j = 0
    BY <1>2, <2>1, <2>2
  <2>3. CASE j # 0
    <3>1. j - 1 \in Nat /\ ~(j <= j - 1) /\ (j - 1) + 1 = j /\ ((j - 1) + d) + 1 = j + d
          /\ (j - 1) + d \in Nat
      BY <2>3
    <3>2. f[j] = l.s[f[j - 1]] /\ f[j + d] = l.s[f[(j - 1) + d]]
      BY <1>2, <3>1
    <3>3. f[j - 1] = l.p[f[j]] /\ f[(j - 1) + d] = l.p[f[j + d]]
      BY <1>3, <3>1, <3>2 DEF IsRing
    <3>4. j - 1 \in Same
      BY <2>1, <3>1, <3>3
    <3> QED BY <2>1, <3>1, <3>4
  <2> QED BY <2>2, <2>3
<1> DEFINE Back == {i \in Nat : f[i + 1] = Sentinel}
<1>5. Back # {}
  <2> DEFINE c == Cardinality(L)
             g == [i \in 0 .. c |-> f[i]]
  <2>1. c \in Nat
    BY FS_CardinalityType
  <2>2. IsFiniteSet(0 .. c) /\ Cardinality(0 .. c) = c + 1
    BY <2>1, FS_Interval
  <2>3. g \in [0 .. c -> L]
    BY <1>3, <2>1
  <2>4. \E i, j \in 0 .. c : i # j /\ g[i] = g[j]
    <3> HIDE DEF c, g
    <3> QED BY <2>1, <2>2, <2>3, FS_PigeonHole DEF c
  <2>5. PICK i, j \in 0 .. c : i # j /\ f[i] = f[j]
    BY <2>4
  <2> HIDE DEF c
  <2>6. \E a, b \in Nat : a < b /\ f[a] = f[b]
    BY <2>1, <2>5
  <2>7. PICK a, b \in Nat : a < b /\ f[a] = f[b]
    BY <2>6
  <2>8. (b - a) - 1 \in Nat /\ ((b - a) - 1) + 1 = b - a /\ b - a \in Nat /\ a + (b - a) = b
    BY <2>7
  <2>9. f[b - a] = Sentinel
    BY <1>4, <2>7, <2>8
  <2>10. (b - a) - 1 \in Back
    BY <2>8, <2>9
  <2> QED BY <2>10
<1>6. PICK m \in Back : \A k \in Back : m <= k
  <2>1. Back \subseteq Nat
    OBVIOUS
  <2> HIDE DEF Back
  <2> QED BY <1>5, <2>1, LeastNat
<1>7. m \in Nat /\ f[m + 1] = Sentinel
  OBVIOUS
<1> DEFINE q == [i \in 0 .. m |-> f[i]]
<1>8. ASSUME NEW i \in 0 .. m, NEW j \in 0 .. m, i < j PROVE f[i] # f[j]
  <2> SUFFICES ASSUME f[i] = f[j] PROVE FALSE
    OBVIOUS
  <2>1. j - i \in Nat /\ (j - i) - 1 \in Nat /\ ((j - i) - 1) + 1 = j - i /\ i + (j - i) = j
        /\ i \in Nat /\ ~(m <= (j - i) - 1)
    BY <1>7, <1>8
  <2>2. f[j - i] = Sentinel
    BY <1>4, <2>1
  <2>3. (j - i) - 1 \in Back
    BY <2>1, <2>2
  <2> QED BY <1>6, <2>1, <2>3
<1>9. \A i, j \in 0 .. m : q[i] = q[j] => i = j
  <2> SUFFICES ASSUME NEW i \in 0 .. m, NEW j \in 0 .. m, f[i] = f[j], i # j PROVE FALSE
    OBVIOUS
  <2>1. i < j \/ j < i
    BY <1>7
  <2> QED BY <1>8, <2>1
<1>10. \A c \in L : \E i \in 0 .. m : q[i] = c
  <2> DEFINE S == {f[i] : i \in 0 .. m}
  <2>1. S \in SUBSET L /\ Sentinel \in S
    <3>1. 0 \in 0 .. m /\ \A i \in 0 .. m : i \in Nat
      BY <1>7
    <3> QED BY <1>2, <1>3, <3>1
  <2>2. ASSUME NEW i \in 0 .. m PROVE l.s[f[i]] \in S
    <3>1. i \in Nat
      BY <1>7
    <3>2. l.s[f[i]] = f[i + 1]
      BY <1>2, <3>1
    <3>3. CASE i = m
      BY <1>7, <2>1, <3>2, <3>3
    <3>4. CASE i # m
      <4>1. i + 1 \in 0 .. m
        BY <1>7, <3>4
      <4> QED BY <3>2, <4>1
    <3> QED BY <3>3, <3>4
  <2>3. S = L
    <3>1. \A c \in S : l.s[c] \in S
      BY <2>2
    <3> HIDE DEF S
    <3> QED BY <2>1, <3>1 DEF IsRing
  <2> QED BY <2>3
<1>11. q \in [0 .. m -> L] /\ q[0] = Sentinel
  <2>1. 0 \in 0 .. m /\ \A i \in 0 .. m : i \in Nat
    BY <1>7
  <2> QED BY <1>2, <1>3, <2>1
<1>12. /\ \A i \in 0 .. m - 1 : l.s[q[i]] = q[i + 1]
       /\ l.s[q[m]] = Sentinel
  <2>1. \A i \in 0 .. m - 1 : i \in Nat /\ i \in 0 .. m /\ i + 1 \in 0 .. m
    BY <1>7
  <2>2. m \in 0 .. m
    BY <1>7
  <2> QED BY <1>2, <1>7, <2>1, <2>2
<1> HIDE DEF q
<1>13. Walk(l, L, q, m)
  BY <1>7, <1>9, <1>10, <1>11, <1>12 DEF Walk
<1>14. Cardinality(L) = m + 1
  <2>1. IsFiniteSet(0 .. m) /\ Cardinality(0 .. m) = m + 1
    BY <1>7, FS_Interval
  <2>2. q \in Bijection(0 .. m, L)
    BY <1>9, <1>10, <1>11 DEF Bijection, Injection, Surjection, IsInjective
  <2>3. ExistsBijection(0 .. m, L)
    BY <2>2 DEF ExistsBijection
  <2> QED BY <2>1, <2>3, FS_Bijection
<1> QED BY <1>13, <1>14

(* A node that is pushed back comes last.                                  *)
LEMMA PushedBackWalk ==
  ASSUME NEW L \in SUBSET Node, NEW l \in LinksType, IsRing(l, L), NEW n \in Node \ L,
         NEW q, NEW m, Walk(l, L, q, m)
  PROVE  Walk(PushedBack(l, n), L \cup {n}, [i \in 0 .. m + 1 |-> IF i <= m THEN q[i] ELSE n], m + 1)
<1> DEFINE r == PushedBack(l, n)
           a == l.p[Sentinel]
           w == [i \in 0 .. m + 1 |-> IF i <= m THEN q[i] ELSE n]
<1>1. m \in Nat /\ q \in [0 .. m -> L] /\ m \in 0 .. m
  BY DEF Walk
<1>2. a = q[m] /\ a \in L /\ a # n /\ n # Sentinel /\ Sentinel \in L
  BY <1>1 DEF Walk, IsRing
<1>3. r.s = [[l.s EXCEPT ![n] = Sentinel] EXCEPT ![a] = n]
  BY <1>2 DEF PushedBack, LinksType
<1>4. /\ \A x \in L : r.s[x] = IF x = a THEN n ELSE l.s[x]
      /\ r.s[n] = Sentinel
  BY <1>2, <1>3 DEF LinksType
<1> HIDE DEF r, a
<1>5. (\A i \in 0 .. m : w[i] = q[i] /\ w[i] \in L) /\ w[m + 1] = n /\ m + 1 \in Nat
  BY <1>1
<1>6. w \in [0 .. m + 1 -> L \cup {n}]
  BY <1>1
<1> HIDE DEF w
<1>7. \A i \in 0 .. m + 1 : i \in 0 .. m \/ i = m + 1
  BY <1>1
<1>8. \A i \in 0 .. (m + 1) - 1 : r.s[w[i]] = w[i + 1]
  <2> SUFFICES ASSUME NEW i \in 0 .. m PROVE r.s[w[i]] = w[i + 1]
    BY <1>1
  <2>1. CASE i = m
    BY <1>1, <1>2, <1>4, <1>5, <2>1
  <2>2. CASE i # m
    <3>1. i \in 0 .. m - 1 /\ i + 1 \in 0 .. m
      BY <1>1, <2>2
    <3>2. q[i] # a /\ l.s[q[i]] = q[i + 1]
      BY <1>1, <1>2, <2>2, <3>1 DEF Walk
    <3> QED BY <1>4, <1>5, <3>1, <3>2
  <2> QED BY <2>1, <2>2
<1>9. \A i, j \in 0 .. m + 1 : w[i] = w[j] => i = j
  BY <1>5, <1>7 DEF Walk
<1>10. \A c \in L \cup {n} : \E i \in 0 .. m + 1 : w[i] = c
  <2>1. \A i \in 0 .. m : i \in 0 .. m + 1
    BY <1>1
  <2>2. m + 1 \in 0 .. m + 1
    BY <1>1
  <2> QED BY <1>5, <2>1, <2>2 DEF Walk
<1>11. w[0] = Sentinel
  BY <1>1, <1>5 DEF Walk
<1> QED BY <1>4, <1>5, <1>6, <1>8, <1>9, <1>10, <1>11 DEF Walk, r, w

(* A node that is removed is left out.                                     *)
LEMMA RemovedWalk ==
  ASSUME NEW L \in SUBSET Node, NEW l \in LinksType, IsRing(l, L),
         NEW q, NEW m, Walk(l, L, q, m), NEW k \in 1 .. m
  PROVE  Walk(Removed(l, q[k]), L \ {q[k]}, [i \in 0 .. m - 1 |-> IF i < k THEN q[i] ELSE q[i + 1]], m - 1)
<1> DEFINE n == q[k]
           r == Removed(l, n)
           a == l.p[n]
           b == l.s[n]
           w == [i \in 0 .. m - 1 |-> IF i < k THEN q[i] ELSE q[i + 1]]
           at(i) == IF i < k THEN i ELSE i + 1
<1>1. m \in Nat /\ q \in [0 .. m -> L] /\ k \in 0 .. m /\ k - 1 \in 0 .. m - 1 /\ k - 1 \in 0 .. m
      /\ (k - 1) + 1 = k /\ m - 1 \in Nat
  BY DEF Walk
<1>2. \A i, j \in 0 .. m : q[i] = q[j] => i = j
  BY DEF Walk
<1>3. l.s[q[k - 1]] = n
  BY <1>1 DEF Walk
<1>4. a = q[k - 1] /\ b = (IF k = m THEN Sentinel ELSE q[k + 1])
  <2>1. l.p[l.s[q[k - 1]]] = q[k - 1]
    BY <1>1 DEF IsRing
  <2>2. k # m => k \in 0 .. m - 1
    BY <1>1
  <2> QED BY <1>3, <2>1, <2>2 DEF Walk
<1>5. n \in L /\ a \in L /\ b \in L /\ n # a
  <2>1. k # k - 1
    BY <1>1
  <2> QED BY <1>1, <1>2, <1>4, <2>1 DEF IsRing
<1>6. \A x \in L \ {n} : r.s[x] = IF x = a THEN b ELSE l.s[x]
  BY <1>5 DEF Removed, LinksType
<1>7. \A i \in 0 .. m - 1 : w[i] = q[at(i)] /\ at(i) \in 0 .. m /\ at(i) # k
  BY <1>1
<1>8. \A i, j \in 0 .. m - 1 : at(i) = at(j) => i = j
  BY <1>1
<1>9. \A j \in 0 .. m : j # k => \E i \in 0 .. m - 1 : at(i) = j
  <2> SUFFICES ASSUME NEW j \in 0 .. m, j # k PROVE \E i \in 0 .. m - 1 : at(i) = j
    OBVIOUS
  <2>1. CASE j < k
    <3>1. j \in 0 .. m - 1 /\ at(j) = j
      BY <1>1, <2>1
    <3> QED BY <3>1
  <2>2. CASE j > k
    <3>1. j - 1 \in 0 .. m - 1 /\ at(j - 1) = j
      BY <1>1, <2>2
    <3> QED BY <3>1
  <2> QED BY <1>1, <2>1, <2>2
<1> HIDE DEF n, r, a, b
<1>10. w \in [0 .. m - 1 -> L \ {n}]
  <2>1. \A i \in 0 .. m - 1 : w[i] \in L \ {n}
    <3>1. \A j \in 0 .. m : j # k => q[j] \in L /\ q[j] # n
      BY <1>1, <1>2 DEF n
    <3> HIDE DEF w, at
    <3> QED BY <1>7, <3>1
  <2> QED BY <2>1
<1>11. w[0] = Sentinel
  <2>1. 0 \in 0 .. m - 1 /\ at(0) = 0
    BY <1>1
  <2> QED BY <1>1, <1>7, <2>1 DEF Walk
<1>12. ASSUME NEW i \in 0 .. (m - 1) - 1 PROVE r.s[w[i]] = w[i + 1]
  <2>1. i \in 0 .. m - 1 /\ i + 1 \in 0 .. m - 1
    BY <1>1
  <2>2. w[i] \in L \ {n}
    BY <1>10, <2>1
  <2>3. w[i] = q[at(i)] /\ w[i + 1] = q[at(i + 1)] /\ at(i) \in 0 .. m
    BY <1>7, <2>1
  <2>4. CASE i = k - 1
    <3>1. at(i) = k - 1 /\ at(i + 1) = k + 1 /\ k # m
      BY <1>1, <2>1, <2>4
    <3> QED BY <1>4, <1>6, <2>2, <2>3, <3>1
  <2>5. CASE i # k - 1
    <3>1. at(i) # k - 1 /\ at(i + 1) = at(i) + 1 /\ at(i) \in 0 .. m - 1
      BY <1>1, <2>1, <2>5
    <3>2. q[at(i)] # a
      BY <1>1, <1>2, <1>4, <2>3, <3>1
    <3>3. l.s[q[at(i)]] = q[at(i) + 1]
      BY <3>1 DEF Walk
    <3> HIDE DEF at, w
    <3> QED BY <1>6, <2>2, <2>3, <3>1, <3>2, <3>3
  <2> QED BY <2>4, <2>5
<1>13. r.s[w[m - 1]] = Sentinel
  <2>1. m - 1 \in 0 .. m - 1
    BY <1>1
  <2>2. w[m - 1] \in L \ {n} /\ w[m - 1] = q[at(m - 1)]
    BY <1>7, <1>10, <2>1
  <2>3. CASE k = m
    <3>1. at(m - 1) = k - 1
      BY <1>1, <2>3
    <3> QED BY <1>4, <1>6, <2>2, <2>3, <3>1
  <2>4. CASE k # m
    <3>1. at(m - 1) = m /\ m # k - 1 /\ m \in 0 .. m
      BY <1>1, <2>4
    <3>2. q[m] # a
      BY <1>1, <1>2, <1>4, <3>1
    <3> QED BY <1>6, <2>2, <3>1, <3>2 DEF Walk
  <2> QED BY <2>3, <2>4
<1>14. \A i, j \in 0 .. m - 1 : w[i] = w[j] => i = j
  <2> HIDE DEF w, at
  <2> QED BY <1>2, <1>7, <1>8
<1>15. \A c \in L \ {n} : \E i \in 0 .. m - 1 : w[i] = c
  <2> SUFFICES ASSUME NEW c \in L \ {n} PROVE \E i \in 0 .. m - 1 : w[i] = c
    OBVIOUS
  <2>1. PICK j \in 0 .. m : q[j] = c
    BY DEF Walk
  <2>2. j # k
    BY <2>1 DEF n
  <2>3. PICK i \in 0 .. m - 1 : at(i) = j
    BY <1>9, <2>2
  <2> HIDE DEF w, at
  <2> QED BY <1>7, <2>1, <2>3
<1> HIDE DEF w
<1> QED BY <1>1, <1>10, <1>11, <1>12, <1>13, <1>14, <1>15 DEF Walk, n, r, w

LEMMA ErasedWalk ==
  ASSUME NEW L \in SUBSET Node, NEW l \in LinksType, IsRing(l, L),
         NEW q, NEW m, Walk(l, L, q, m), NEW k \in 1 .. m
  PROVE  Walk(Erased(l, q[k]), L \ {q[k]}, [i \in 0 .. m - 1 |-> IF i < k THEN q[i] ELSE q[i + 1]], m - 1)
<1> DEFINE n == q[k]
           r == Removed(l, n)
           e == Erased(l, n)
           w == [i \in 0 .. m - 1 |-> IF i < k THEN q[i] ELSE q[i + 1]]
<1>1. Walk(r, L \ {n}, w, m - 1)
  BY RemovedWalk
<1>2. n \in L /\ n # Sentinel
  <2>1. m \in Nat /\ k \in 0 .. m /\ 0 \in 0 .. m /\ k # 0
    BY DEF Walk
  <2> QED BY <2>1 DEF Walk
<1>3. r \in LinksType
  BY <1>2, RemovedRing
<1>4. \A x \in L \ {n} : e.s[x] = r.s[x]
  BY <1>3 DEF Erased, LinksType
<1> HIDE DEF n, r, e, w
<1>5. m - 1 \in Nat /\ w \in [0 .. m - 1 -> L \ {n}]
  BY <1>1 DEF Walk
<1>6. /\ \A i \in 0 .. (m - 1) - 1 : i \in 0 .. m - 1
      /\ m - 1 \in 0 .. m - 1
  BY <1>5
<1>7. /\ \A i \in 0 .. (m - 1) - 1 : e.s[w[i]] = w[i + 1]
      /\ e.s[w[m - 1]] = Sentinel
  BY <1>1, <1>4, <1>5, <1>6 DEF Walk
<1>8. Walk(e, L \ {n}, w, m - 1)
  BY <1>1, <1>7 DEF Walk
<1> QED BY <1>8 DEF n, e, w

-----------------------------------------------------------------------------
(***************************************************************************)
(* What is cached, from the sentinel on, is a queue in the order of use.   *)
(***************************************************************************)
Queue == [i \in 1 .. size |-> item[Nth[i]]]

Path == [i \in 0 .. size |-> Nth[i]]

LEMMA NthIterates == Iterates(Nth, Sentinel, succ)
<1>1. \E f : Iterates(f, Sentinel, succ)
  BY IteratesExist
<1>2. \E f : f = [i \in Nat |-> IF i = 0 THEN Sentinel ELSE succ[f[i - 1]]]
  BY <1>1 DEF Iterates
<1> DEFINE F(f) == [i \in Nat |-> IF i = 0 THEN Sentinel ELSE succ[f[i - 1]]]
           g == CHOOSE f : f = F(f)
<1>3. Nth = g
  BY DEF Nth
<1>4. g = F(g)
  <2> HIDE DEF F
  <2>1. \E f : f = F(f)
    BY <1>2 DEF F
  <2> QED BY <2>1
<1> QED BY <1>3, <1>4 DEF Iterates

LEMMA NextIterates == Iterates(Nth, Sentinel, succ)'
BY NthIterates, PTL

LEMMA PathWalk ==
  ASSUME IInv
  PROVE  Walk(Links, used \cup {Sentinel}, Path, size)
<1> DEFINE L == used \cup {Sentinel}
<1>1. IsRing(Links, L)
  BY LinksRing
<1>2. IsFiniteSet(L) /\ Cardinality(L) = size + 1 /\ size \in Nat
  <2>1. Sentinel \notin used
    BY LruCacheAssumption DEF IInv, TypeOK
  <2> QED BY <2>1, FS_AddElement DEF IInv, TypeOK, IndexOK
<1> HIDE DEF L
<1>3. PICK q, m : Walk(Links, L, q, m) /\ Cardinality(L) = m + 1
  BY <1>1, <1>2, RingWalk
<1>4. m = size
  BY <1>2, <1>3 DEF Walk
<1>5. Links.s = succ
  BY DEF Links
<1>6. \A i \in 0 .. size : Nth[i] = q[i]
  BY <1>3, <1>4, <1>5, NthIterates, WalkIs
<1>7. q = Path
  BY <1>3, <1>4, <1>6 DEF Walk, Path
<1> QED BY <1>3, <1>4, <1>7 DEF L

LEMMA NextNth ==
  ASSUME NEW l, NEW L, NEW q, NEW m, Walk(l, L, q, m), SetLinks(l)
  PROVE  \A i \in 0 .. m : Nth'[i] = q[i]
<1>1. l.s = succ'
  BY DEF SetLinks
<1>2. Iterates(Nth', Sentinel, succ')
  BY NextIterates DEF Iterates
<1> QED BY <1>1, <1>2, WalkIs

LEMMA SameNth == ASSUME succ' = succ PROVE Nth' = Nth
BY DEF Nth

(* The entry of a cached key has one place in the queue.                   *)
LEMMA Places ==
  ASSUME IInv
  PROVE  /\ size \in Nat /\ Queue \in Seq(Item) /\ Len(Queue) = size
         /\ \A i \in 1 .. size : /\ Nth[i] \in used /\ Path[i] = Nth[i]
                                 /\ Queue[i] = item[Nth[i]]
                                 /\ Queue[i].key \in DOMAIN index /\ index[Queue[i].key] = Nth[i]
         /\ \A k \in DOMAIN index : \E i \in 1 .. size : Nth[i] = index[k] /\ Queue[i].key = k
<1>1. Walk(Links, used \cup {Sentinel}, Path, size) /\ size \in Nat /\ Sentinel \notin used
  BY PathWalk, LruCacheAssumption DEF IInv, TypeOK
<1>2. ASSUME NEW i \in 1 .. size PROVE Nth[i] \in used /\ Path[i] = Nth[i]
  <2>1. i \in 0 .. size /\ 0 \in 0 .. size /\ i # 0
    BY <1>1
  <2>2. Path[i] # Path[0] /\ Path[i] \in used \cup {Sentinel} /\ Path[0] = Sentinel
    BY <1>1, <2>1 DEF Walk
  <2>3. Path[i] = Nth[i]
    BY <2>1 DEF Path
  <2> QED BY <2>2, <2>3
<1>3. Queue \in [1 .. size -> Item] /\ \A i \in 1 .. size : Queue[i] = item[Nth[i]]
  BY <1>2 DEF Queue, IInv, TypeOK
<1>4. Queue \in Seq(Item) /\ Len(Queue) = size
  BY <1>1, <1>3
<1>5. ASSUME NEW k \in DOMAIN index
      PROVE  \E i \in 1 .. size : Nth[i] = index[k] /\ Queue[i].key = k
  <2>1. index[k] \in used /\ item[index[k]].key = k
    BY DEF IInv, IndexOK
  <2>2. PICK i \in 0 .. size : Path[i] = index[k]
    BY <1>1, <2>1 DEF Walk
  <2>3. i # 0
    BY <1>1, <2>1, <2>2 DEF Walk
  <2>4. i \in 1 .. size
    BY <1>1, <2>3
  <2> QED BY <1>2, <1>3, <2>1, <2>2, <2>4
<1> QED BY <1>1, <1>2, <1>3, <1>4, <1>5 DEF IInv, IndexOK

LEMMA SeqIs == ASSUME NEW S, NEW s \in Seq(S) PROVE s = [i \in 1 .. Len(s) |-> s[i]]
<1>1. s \in [1 .. Len(s) -> S]
  OBVIOUS
<1> QED BY <1>1

LEMMA UsedAgain ==
  ASSUME NEW S, NEW s \in Seq(S), NEW k \in 1 .. Len(s)
  PROVE  Append(Abstract!RemoveAt(s, k), s[k])
           = [i \in 1 .. Len(s) |-> IF i = Len(s) THEN s[k] ELSE IF i < k THEN s[i] ELSE s[i + 1]]
<1> DEFINE a == SubSeq(s, 1, k - 1)
           b == SubSeq(s, k + 1, Len(s))
           m == Len(s)
<1>1. m \in Nat
  OBVIOUS
<1>2. a \in Seq(S) /\ Len(a) = k - 1 /\ \A i \in 1 .. k - 1 : a[i] = s[i]
  OBVIOUS
<1>3. b \in Seq(S) /\ Len(b) = m - k /\ \A i \in 1 .. m - k : b[i] = s[k + i]
  OBVIOUS
<1>4. Abstract!RemoveAt(s, k) = a \o b
  BY DEF Abstract!RemoveAt
<1> HIDE DEF a, b
<1>5. /\ a \o b \in Seq(S) /\ Len(a \o b) = m - 1
      /\ \A i \in 1 .. m - 1 : (a \o b)[i] = IF i < k THEN s[i] ELSE s[i + 1]
  <2>1. a \o b \in Seq(S) /\ Len(a \o b) = m - 1
    <3>1. a \o b \in Seq(S) /\ Len(a \o b) = Len(a) + Len(b)
      <4>1. a \in Seq(S) /\ b \in Seq(S)
        BY <1>2, <1>3
      <4> QED BY <4>1
    <3>2. Len(a) = k - 1 /\ Len(b) = m - k
      BY <1>2, <1>3
    <3> HIDE DEF m
    <3> QED BY <1>1, <3>1, <3>2
  <2>2. ASSUME NEW i \in 1 .. m - 1 PROVE (a \o b)[i] = IF i < k THEN s[i] ELSE s[i + 1]
    <3>1. CASE i < k
      BY <1>2, <1>3, <3>1
    <3>2. CASE ~(i < k)
      <4>1. i - (k - 1) \in 1 .. m - k /\ k + (i - (k - 1)) = i + 1
        BY <3>2
      <4>2. (a \o b)[i] = b[i - (k - 1)]
        BY <1>2, <1>3, <3>2
      <4> QED BY <1>3, <3>2, <4>1, <4>2
    <3> QED BY <3>1, <3>2
  <2> QED BY <2>1, <2>2
<1> DEFINE c == a \o b
           d == Append(c, s[k])
<1>6. c \in Seq(S) /\ s[k] \in S
  BY <1>5
<1> HIDE DEF c
<1>7. d \in Seq(S) /\ Len(d) = Len(c) + 1 /\ d[Len(c) + 1] = s[k]
      /\ \A i \in 1 .. Len(c) : d[i] = c[i]
  BY <1>6
<1> HIDE DEF d
<1>8. d \in [1 .. m -> S] /\ d[m] = s[k] /\ \A i \in 1 .. m - 1 : d[i] = IF i < k THEN s[i] ELSE s[i + 1]
  <2>1. Len(c) = m - 1 /\ Len(c) + 1 = m
    BY <1>1, <1>5 DEF c
  <2>2. Len(d) = m /\ d \in [1 .. m -> S] /\ d[m] = s[k]
    BY <1>7, <2>1
  <2>3. \A i \in 1 .. m - 1 : d[i] = c[i] /\ c[i] = IF i < k THEN s[i] ELSE s[i + 1]
    BY <1>5, <1>7, <2>1 DEF c
  <2> QED BY <2>2, <2>3
<1>9. d = [i \in 1 .. m |-> IF i = m THEN s[k] ELSE IF i < k THEN s[i] ELSE s[i + 1]]
  <2>1. \A i \in 1 .. m : d[i] = IF i = m THEN s[k] ELSE IF i < k THEN s[i] ELSE s[i + 1]
    BY <1>1, <1>8
  <2> QED BY <1>8, <2>1
<1> QED BY <1>4, <1>9 DEF c, d

(* The actions of Lru, on the queue.                                       *)
LEMMA LruActions ==
  /\ \A k : Abstract!Hit(k) <=>
       /\ ~(topurge > 0)
       /\ \E i \in 1 .. Len(Queue) :
            /\ Queue[i].key = k
            /\ answer' = Queue[i].value
            /\ Queue' = Append(Abstract!RemoveAt(Queue, i), Queue[i])
       /\ max' = max /\ (topurge > 0)' = (topurge > 0)
  /\ \A k : Abstract!Miss(k) <=>
       /\ ~(topurge > 0) /\ ~\E i \in 1 .. Len(Queue) : Queue[i].key = k
       /\ answer' = NoValue
       /\ Queue' = Queue /\ max' = max /\ (topurge > 0)' = (topurge > 0)
  /\ \A k, v : Abstract!Store(k, v) <=>
       /\ ~(topurge > 0) /\ max # 0
       /\ Queue' = IF \E i \in 1 .. Len(Queue) : Queue[i].key = k
                   THEN Queue ELSE Append(Queue, [key |-> k, value |-> v])
       /\ (topurge > 0)' = (Len(Queue') > max)
       /\ max' = max /\ answer' = answer
  /\ Abstract!Evict <=>
       /\ topurge > 0
       /\ Queue' = Tail(Queue)
       /\ (topurge > 0)' = (Len(Queue') > max)
       /\ max' = max /\ answer' = answer
  /\ \A k : Abstract!Resize(k) <=>
       /\ ~(topurge > 0)
       /\ max' = k
       /\ Queue' = Queue /\ (topurge > 0)' = (topurge > 0) /\ answer' = answer
<1>1. \A k : Abstract!Cached(k) <=> \E i \in 1 .. Len(Queue) : Queue[i].key = k
  BY Zenon DEF Queue, Abstract!Cached
<1> QED BY <1>1, Zenon DEF Queue, Abstract!Hit, Abstract!Miss, Abstract!Store, Abstract!Evict, Abstract!Resize

LEMMA SameQueue ==
  ASSUME UNCHANGED <<succ, item, size>> PROVE Queue' = Queue
BY SameNth DEF Queue

LEMMA InitImplements == Init => Abstract!Init
<1> SUFFICES ASSUME Init PROVE Abstract!Init
  OBVIOUS
<1>1. Queue = <<>>
  <2>1. size = 0 /\ 1 .. 0 = {}
    BY DEF Init
  <2> QED BY <2>1 DEF Queue
<1>2. max = DefaultLimit /\ (topurge > 0) = FALSE /\ answer = NoValue
  BY DEF Init
<1> QED BY <1>1, <1>2 DEF Queue, Abstract!Init

(* A hit puts the entry at the end of the queue.                           *)
LEMMA LookupImplements ==
  ASSUME NEW k \in Key, IInv, Lookup(k)
  PROVE  Abstract!Hit(k) \/ Abstract!Miss(k)
<1>1. /\ topurge = 0
      /\ UNCHANGED <<item, used, index, size, max, topurge>>
  BY DEF Lookup
<1>2. ~(topurge > 0) /\ max' = max /\ (topurge > 0)' = (topurge > 0)
  BY <1>1
<1>3. CASE k \in DOMAIN index
  <2> DEFINE L == used \cup {Sentinel}
             n == index[k]
             r == Removed(Links, n)
             m == size - 1
  <2>1. PICK j \in 1 .. size : Nth[j] = n /\ Queue[j].key = k /\ Path[j] = n
    BY <1>3, Places
  <2>2. size \in Nat /\ m \in Nat /\ m + 1 = size
    BY <2>1, Places
  <2>3. n \in used /\ n # Sentinel /\ n \in L
    BY <1>3, LruCacheAssumption DEF IInv, TypeOK, IndexOK
  <2>4. Links \in LinksType /\ L \in SUBSET Node /\ IsRing(Links, L)
    BY LinksRing
  <2> DEFINE w1 == [i \in 0 .. m |-> IF i < j THEN Path[i] ELSE Path[i + 1]]
             w2 == [i \in 0 .. m + 1 |-> IF i <= m THEN w1[i] ELSE n]
  <2>5. Walk(r, L \ {n}, w1, m)
    <3>1. Walk(Removed(Links, Path[j]), L \ {Path[j]},
               [i \in 0 .. size - 1 |-> IF i < j THEN Path[i] ELSE Path[i + 1]], size - 1)
      <4>1. Walk(Links, L, Path, size)
        BY PathWalk
      <4> HIDE DEF L
      <4> QED BY <2>4, <4>1, RemovedWalk
    <3> QED BY <2>1, <3>1
  <2>6. r \in LinksType /\ IsRing(r, L \ {n})
    <3> HIDE DEF L, n
    <3> QED BY <2>3, <2>4, RemovedRing
  <2>7. Walk(PushedBack(r, n), (L \ {n}) \cup {n}, w2, m + 1)
    <3>1. L \ {n} \in SUBSET Node /\ n \in Node \ (L \ {n})
      BY <2>3, <2>4
    <3> HIDE DEF r, L, n, m, w1
    <3> QED BY <2>5, <2>6, <3>1, PushedBackWalk
  <2>8. SetLinks(PushedBack(r, n)) /\ answer' = item[n].value
    BY <1>3 DEF Lookup, MovedBack
  <2>9. \A i \in 0 .. m + 1 : Nth'[i] = w2[i]
    <3> HIDE DEF r, L, n, m, w2
    <3> QED BY <2>7, <2>8, NextNth
  <2>10. ASSUME NEW i \in 1 .. size
         PROVE  item[Nth'[i]] = IF i = size THEN Queue[j]
                                ELSE IF i < j THEN Queue[i] ELSE Queue[i + 1]
    <3>1. Nth'[i] = w2[i] /\ i \in 0 .. m + 1
      BY <2>2, <2>9
    <3>2. CASE i = size
      BY <2>1, <2>2, <3>1, <3>2, Places
    <3>3. CASE i # size
      <4>1. i \in 0 .. m /\ i <= m /\ i + 1 \in 1 .. size
        BY <2>2, <3>3
      <4>2. w2[i] = IF i < j THEN Path[i] ELSE Path[i + 1]
        BY <3>1, <4>1
      <4>3. i \in 1 .. size /\ Nth'[i] = IF i < j THEN Path[i] ELSE Path[i + 1]
        BY <3>1, <4>2
      <4>4. \A x \in 1 .. size : Queue[x] = item[Path[x]]
        BY Places
      <4> HIDE DEF w2, m, n
      <4> QED BY <3>3, <4>1, <4>3, <4>4
    <3> QED BY <3>2, <3>3
  <2>11. Queue' = [i \in 1 .. size |-> item[Nth'[i]]]
    BY <1>1 DEF Queue
  <2>12. Queue \in Seq(Item) /\ Len(Queue) = size /\ answer' = Queue[j].value
    BY <2>1, <2>8, Places
  <2>13. Queue' = Append(Abstract!RemoveAt(Queue, j), Queue[j])
    <3>1. Queue' = [i \in 1 .. size |-> IF i = size THEN Queue[j]
                                        ELSE IF i < j THEN Queue[i] ELSE Queue[i + 1]]
      BY <2>10, <2>11
    <3>2. Append(Abstract!RemoveAt(Queue, j), Queue[j])
            = [i \in 1 .. Len(Queue) |-> IF i = Len(Queue) THEN Queue[j]
                                         ELSE IF i < j THEN Queue[i] ELSE Queue[i + 1]]
      <4>1. j \in 1 .. Len(Queue) /\ Queue \in Seq(Item)
        BY <2>12
      <4> QED BY <4>1, UsedAgain
    <3> QED BY <2>12, <3>1, <3>2
  <2> QED BY <1>2, <2>1, <2>12, <2>13, LruActions
<1>4. CASE k \notin DOMAIN index
  <2>1. succ' = succ /\ answer' = NoValue
    BY <1>4 DEF Lookup
  <2>2. Queue' = Queue
    BY <1>1, <2>1, SameQueue
  <2>3. ~\E i \in 1 .. Len(Queue) : Queue[i].key = k
    BY <1>4, Places
  <2> QED BY <1>2, <2>1, <2>2, <2>3, LruActions
<1> QED BY <1>3, <1>4

(* A new key comes last.                                                   *)
LEMMA StoreNewImplements ==
  ASSUME NEW k \in Key, NEW v \in Value, IInv, StoreNew(k, v)
  PROVE  Abstract!Store(k, v)
<1> DEFINE L == used \cup {Sentinel}
           e == [key |-> k, value |-> v]
<1>1. PICK c \in Cell \ used :
       /\ SetLinks(PushedBack(Links, c))
       /\ item' = [d \in used \cup {c} |-> IF d = c THEN e ELSE item[d]]
  BY DEF StoreNew
<1>2. /\ topurge = 0 /\ max # 0 /\ k \notin DOMAIN index
      /\ size' = size + 1 /\ topurge' = ToPurge(size') /\ max' = max /\ answer' = answer
  BY DEF StoreNew
<1>3. size \in Nat /\ max \in Nat /\ size + 1 \in Nat
  BY DEF IInv, TypeOK
<1> DEFINE w == [i \in 0 .. size + 1 |-> IF i <= size THEN Path[i] ELSE c]
<1>4. Walk(PushedBack(Links, c), L \cup {c}, w, size + 1)
  <2>1. c \in Node \ L
    BY LruCacheAssumption DEF Node
  <2>2. Walk(Links, L, Path, size) /\ Links \in LinksType /\ L \in SUBSET Node /\ IsRing(Links, L)
    BY PathWalk, LinksRing
  <2> HIDE DEF L
  <2> QED BY <2>1, <2>2, PushedBackWalk
<1>5. \A i \in 0 .. size + 1 : Nth'[i] = w[i]
  <2> HIDE DEF L, w
  <2> QED BY <1>1, <1>4, NextNth
<1>6. ASSUME NEW i \in 1 .. size + 1
      PROVE  item'[Nth'[i]] = IF i = size + 1 THEN e ELSE Queue[i]
  <2>1. i \in 0 .. size + 1
    BY <1>3
  <2>2. CASE i = size + 1
    <3>1. w[i] = c
      BY <1>3, <2>1, <2>2
    <3> QED BY <1>1, <1>5, <2>1, <2>2, <3>1
  <2>3. CASE i # size + 1
    <3>1. i \in 1 .. size /\ i <= size
      BY <1>3, <2>3
    <3>2. w[i] = Nth[i] /\ Nth[i] \in used /\ Queue[i] = item[Nth[i]]
      BY <2>1, <3>1, Places
    <3> QED BY <1>1, <1>5, <2>1, <2>3, <3>2
  <2> QED BY <2>2, <2>3
<1>7. Queue' = [i \in 1 .. size + 1 |-> item'[Nth'[i]]]
  BY <1>2 DEF Queue
<1>8. Queue \in Seq(Item) /\ Len(Queue) = size /\ e \in Item
  BY Places DEF Item
<1>9. Queue' = Append(Queue, e) /\ Len(Queue') = size + 1
  <2>1. Queue' = [i \in 1 .. size + 1 |-> IF i = size + 1 THEN e ELSE Queue[i]]
    BY <1>6, <1>7
  <2> HIDE DEF e
  <2>2. Append(Queue, e) \in Seq(Item) /\ Len(Append(Queue, e)) = size + 1
    BY <1>8
  <2>3. \A i \in 1 .. size + 1 : Append(Queue, e)[i] = IF i = size + 1 THEN e ELSE Queue[i]
    BY <1>3, <1>8
  <2>4. Append(Queue, e) = [i \in 1 .. size + 1 |-> Append(Queue, e)[i]]
    BY <2>2, SeqIs
  <2> QED BY <2>1, <2>2, <2>3, <2>4
<1>10. ~\E i \in 1 .. Len(Queue) : Queue[i].key = k
  BY <1>2, Places
<1>11. (topurge > 0)' = (Len(Queue') > max)
  BY <1>2, <1>3, <1>9 DEF ToPurge
<1>12. ~(topurge > 0)
  BY <1>2
<1> QED BY <1>2, <1>9, <1>10, <1>11, <1>12, LruActions

(* A key that is there keeps its place.                                    *)
LEMMA StoreDuplicateImplements ==
  ASSUME NEW k \in Key, NEW v \in Value, IInv, StoreDuplicate(k, v)
  PROVE  Abstract!Store(k, v)
<1> DEFINE L == used \cup {Sentinel}
           m == size + 1
<1>1. PICK c \in Cell \ used : SetLinks(Erased(PushedBack(Links, c), c))
  BY DEF StoreDuplicate
<1>2. /\ topurge = 0 /\ max # 0 /\ k \in DOMAIN index
      /\ topurge' = ToPurge(size) /\ UNCHANGED <<item, used, index, size, max, answer>>
  BY DEF StoreDuplicate
<1>3. size \in Nat /\ max \in Nat /\ m \in Nat /\ m \in 1 .. m /\ m - 1 = size
  BY DEF IInv, TypeOK
<1> DEFINE l == PushedBack(Links, c)
           w == [i \in 0 .. m |-> IF i <= size THEN Path[i] ELSE c]
           u == [i \in 0 .. m - 1 |-> IF i < m THEN w[i] ELSE w[i + 1]]
<1>4. c \in Node \ L
  BY LruCacheAssumption DEF Node
<1>5. Walk(Links, L, Path, size) /\ Links \in LinksType /\ L \in SUBSET Node /\ IsRing(Links, L)
  BY PathWalk, LinksRing
<1>6. Walk(l, L \cup {c}, w, m)
  <2> HIDE DEF L
  <2> QED BY <1>4, <1>5, PushedBackWalk
<1>7. l \in LinksType /\ IsRing(l, L \cup {c}) /\ L \cup {c} \in SUBSET Node
  <2> HIDE DEF L
  <2> QED BY <1>4, <1>5, PushedBackRing
<1>8. w[m] = c
  BY <1>3
<1>9. Walk(Erased(l, c), (L \cup {c}) \ {c}, u, size)
  <2>1. Walk(Erased(l, w[m]), (L \cup {c}) \ {w[m]}, u, m - 1)
    <3> DEFINE M == L \cup {c}
    <3>1. Walk(l, M, w, m) /\ l \in LinksType /\ IsRing(l, M) /\ M \in SUBSET Node
      BY <1>6, <1>7
    <3> HIDE DEF l, w, m, M
    <3>2. Walk(Erased(l, w[m]), M \ {w[m]}, u, m - 1)
      BY <1>3, <3>1, ErasedWalk
    <3> QED BY <3>2 DEF M
  <2> HIDE DEF l, w, L, m, u
  <2> QED BY <1>3, <1>8, <2>1
<1>10. \A i \in 0 .. size : Nth'[i] = Path[i]
  <2>1. SetLinks(Erased(l, c))
    BY <1>1
  <2>2. \A i \in 0 .. size : Nth'[i] = u[i]
    <3> HIDE DEF l, L, u
    <3> QED BY <1>9, <2>1, NextNth
  <2>3. \A i \in 0 .. size : u[i] = Path[i]
    BY <1>3
  <2> HIDE DEF u
  <2> QED BY <2>2, <2>3
<1>11. Queue' = Queue
  <2>1. Queue' = [i \in 1 .. size |-> item[Nth'[i]]]
    BY <1>2 DEF Queue
  <2>2. \A i \in 1 .. size : Nth'[i] = Nth[i]
    <3>1. \A i \in 1 .. size : i \in 0 .. size
      BY <1>3
    <3> QED BY <1>10, <3>1, Places
  <2> QED BY <2>1, <2>2 DEF Queue
<1>12. \E i \in 1 .. Len(Queue) : Queue[i].key = k
  BY <1>2, Places
<1>13. (topurge > 0)' = (Len(Queue') > max)
  <2>1. Len(Queue') = size
    BY <1>11, Places
  <2> QED BY <1>2, <1>3, <2>1 DEF ToPurge
<1>14. ~(topurge > 0)
  BY <1>2
<1> QED BY <1>2, <1>11, <1>12, <1>13, <1>14, LruActions

(* Each round of maybe_purge() drops the entry used least recently.        *)
LEMMA PurgeImplements == ASSUME IInv, Purge PROVE Abstract!Evict
<1> DEFINE L == used \cup {Sentinel}
           c == Path[1]
           m == size - 1
           u == [i \in 0 .. m |-> IF i < 1 THEN Path[i] ELSE Path[i + 1]]
<1>1. topurge > 0 /\ size = max + topurge /\ size \in Nat /\ max \in Nat /\ topurge \in Nat
      /\ 1 \in 1 .. size /\ 1 \in 0 .. size /\ 0 \in 0 .. size - 1 /\ m \in Nat /\ m + 1 = size
  BY DEF Purge, IInv, TypeOK, PurgedEnough
<1>2. Walk(Links, L, Path, size) /\ Links \in LinksType /\ L \in SUBSET Node /\ IsRing(Links, L)
  BY PathWalk, LinksRing
<1>3. succ[Sentinel] = c
  <2>1. Links.s[Path[0]] = Path[0 + 1] /\ Path[0] = Sentinel
    BY <1>1, <1>2 DEF Walk
  <2> QED BY <2>1 DEF Links
<1>4. /\ SetLinks(Erased(Links, c))
      /\ used' = used \ {c} /\ item' = [d \in used' |-> item[d]]
      /\ size' = size - 1 /\ topurge' = topurge - 1 /\ max' = max /\ answer' = answer
  BY <1>3 DEF Purge
<1>5. Walk(Erased(Links, c), L \ {c}, u, m)
  <2> HIDE DEF L
  <2> QED BY <1>1, <1>2, ErasedWalk
<1>6. \A i \in 0 .. m : Nth'[i] = u[i]
  <2> HIDE DEF L, u, c, m
  <2> QED BY <1>4, <1>5, NextNth
<1>7. ASSUME NEW i \in 1 .. m PROVE item'[Nth'[i]] = Queue[i + 1]
  <2>1. i \in 0 .. m /\ ~(i < 1) /\ i + 1 \in 1 .. size /\ i + 1 \in 0 .. size /\ i + 1 # 1
    BY <1>1
  <2>2. u[i] = Path[i + 1]
    BY <2>1
  <2>3. Path[i + 1] # c
    BY <1>1, <1>2, <2>1 DEF Walk
  <2>4. Nth[i + 1] \in used' /\ Nth[i + 1] = Path[i + 1] /\ Queue[i + 1] = item[Nth[i + 1]]
    BY <1>4, <2>1, <2>3, Places
  <2> QED BY <1>4, <1>6, <2>1, <2>2, <2>4
<1>8. Queue' = [i \in 1 .. m |-> Queue[i + 1]]
  <2>1. Queue' = [i \in 1 .. m |-> item'[Nth'[i]]]
    BY <1>4 DEF Queue
  <2> QED BY <1>7, <2>1
<1>9. Queue' = Tail(Queue) /\ Len(Queue') = m
  <2>1. Queue \in Seq(Item) /\ Len(Queue) = size /\ Queue # <<>>
    BY <1>1, Places
  <2>2. Tail(Queue) \in Seq(Item) /\ Len(Tail(Queue)) = m
        /\ \A i \in 1 .. m : Tail(Queue)[i] = Queue[i + 1]
    BY <1>1, <2>1
  <2>3. Tail(Queue) = [i \in 1 .. m |-> Tail(Queue)[i]]
    BY <2>2, SeqIs
  <2> HIDE DEF m
  <2> QED BY <1>8, <2>2, <2>3
<1>10. (topurge > 0)' = (Len(Queue') > max)
  BY <1>1, <1>4, <1>9
<1> QED BY <1>1, <1>4, <1>9, <1>10, LruActions

LEMMA ResizeImplements == ASSUME NEW n \in Limits, Resize(n) PROVE Abstract!Resize(n)
<1>1. Queue' = Queue
  BY SameQueue DEF Resize
<1>2. ~(topurge > 0) /\ max' = n /\ (topurge > 0)' = (topurge > 0) /\ answer' = answer
  BY DEF Resize
<1> QED BY <1>1, <1>2, LruActions

LEMMA UnchangedImplements == ASSUME UNCHANGED vars PROVE UNCHANGED Abstract!vars
<1>1. Queue' = Queue
  BY SameQueue DEF vars
<1> QED BY <1>1 DEF vars, Queue, Abstract!vars

(* The list and the map together are a queue in the order of the last use, *)
(* from which maybe_purge() takes what was used least recently.            *)
THEOREM LruImplementsLru == Spec => ImplementsLru
<1>1. IInv /\ [Next]_vars => [Abstract!Next]_(Abstract!vars)
  <2> SUFFICES ASSUME IInv, [Next]_vars PROVE Abstract!Next \/ UNCHANGED Abstract!vars
    OBVIOUS
  <2>1. CASE UNCHANGED vars
    BY <2>1, UnchangedImplements
  <2>2. ASSUME NEW k \in Key, Lookup(k) PROVE Abstract!Next
    BY <2>2, LookupImplements DEF Abstract!Next
  <2>3. ASSUME NEW k \in Key, NEW v \in Value, Store(k, v)
        PROVE  Abstract!Next \/ UNCHANGED Abstract!vars
    <3>1. Abstract!Store(k, v) \/ UNCHANGED Abstract!vars
      BY <2>3, UnchangedImplements, StoreNewImplements, StoreDuplicateImplements
         DEF Store, StoreRefused
    <3> QED BY <3>1 DEF Abstract!Next
  <2>4. CASE Purge
    BY <2>4, PurgeImplements DEF Abstract!Next
  <2>5. ASSUME NEW n \in Limits, Resize(n) PROVE Abstract!Next
    BY <2>5, ResizeImplements DEF Abstract!Next
  <2> QED BY <2>1, <2>2, <2>3, <2>4, <2>5 DEF Next
<1> QED BY InitImplements, IInvInductive, <1>1, PTL DEF Spec, ImplementsLru, Abstract!Spec

-----------------------------------------------------------------------------
(* The caches of the game operations.                                      *)
(* The solver that runs has its formula.                                   *)
MemoryOK == MemoryTypeOK /\ (solving # None => formula[solving] # None)

(* Each entry, of this or an earlier solver, belongs to what is at the     *)
(* addresses of its key: this is what makes a hit right.                   *)
FreshEntry(e) ==
  LET f == e.key.formula
      x == e.key.of[1]
      y == e.key.of[2]
  IN /\ formula[f] # None /\ object[x] # None /\ object[y] # None
     /\ e.value = ResultOf(f, x, y)

EntriesFresh == \A c \in used : FreshEntry(item[c])

-----------------------------------------------------------------------------
(* What a key and a result are made of.                                    *)
LEMMA KeysAndResults ==
  ASSUME MemoryOK, NEW f \in FormulaAt, NEW x \in ObjectAt, NEW y \in ObjectAt,
         There(f, x, y)
  PROVE  KeyOf(f, x, y) \in Key /\ ResultOf(f, x, y) \in Value
<1>1. KeyOf(f, x, y) \in Key  BY GameCachesAssumption DEF KeyOf, ApplyKey, JoinKey
<1>2. formula[f] \in Problem /\ object[x] \in Object /\ object[y] \in Object
  BY GameCachesAssumption DEF MemoryOK, MemoryTypeOK, There
<1>3. /\ Ordered(object[x], object[y]) \in Operands
      /\ Unordered(object[x], object[y]) \in Operands
  BY <1>2 DEF Operands
<1>4. ResultOf(f, x, y) \in [problem : Problem, of : Operands]
  BY <1>2, <1>3 DEF ResultOf
<1> QED  BY <1>1, <1>4, GameCachesAssumption

(* The join cache sorts its games, and a join does not mind.               *)
LEMMA KeyGivesResult ==
  ASSUME NEW f, NEW x, NEW y, NEW k, k = KeyOf(f, x, y)
  PROVE  /\ k.formula = f /\ k.of[1] \in {x, y} /\ k.of[2] \in {x, y}
         /\ ResultOf(k.formula, k.of[1], k.of[2]) = ResultOf(f, x, y)
<1>1. CASE kind = "apply" \/ x < y  BY <1>1 DEF KeyOf, ApplyKey, JoinKey
<1>2. CASE ~(kind = "apply" \/ x < y)
  <2>1. k = [formula |-> f, of |-> <<y, x>>]  BY <1>2 DEF KeyOf, ApplyKey, JoinKey
  <2>2. Unordered(object[y], object[x]) = Unordered(object[x], object[y])
    BY DEF Unordered
  <2>3. ResultOf(f, y, x) = ResultOf(f, x, y)  BY <1>2, <2>2 DEF ResultOf
  <2> QED  BY <2>1, <2>3
<1> QED  BY <1>1, <1>2

(* A store, whichever of its three ways it goes.                           *)
LEMMA StoreKeepsAnswer ==
  ASSUME NEW k, NEW v, Store(k, v)
  PROVE  UNCHANGED answer
BY DEF Store, StoreRefused, StoreNew, StoreDuplicate, vars
-----------------------------------------------------------------------------
LEMMA MemoryOKInvariant == CachesSpec => []MemoryOK
<1>1. InitCaches => MemoryOK
  BY GameCachesAssumption DEF InitCaches, MemoryOK, MemoryTypeOK
<1>2. MemoryOK /\ [CachesNext]_allVars => MemoryOK'
  <2> SUFFICES ASSUME MemoryOK, [CachesNext]_allVars PROVE MemoryOK'
    OBVIOUS
  <2> USE DEF MemoryOK, MemoryTypeOK, memory
  <2>1. ASSUME NEW f \in FormulaAt, NEW x \in ObjectAt, NEW y \in ObjectAt,
               CacheLookup(f, x, y)
        PROVE  MemoryOK'
    <3>1. ResultOf(f, x, y) \in Value  BY <2>1, KeysAndResults DEF CacheLookup
    <3> QED  BY <2>1, <3>1 DEF CacheLookup
  <2>2. ASSUME NEW f \in FormulaAt, NEW x \in ObjectAt, NEW y \in ObjectAt,
               CacheStore(f, x, y)
        PROVE  MemoryOK'
    BY <2>2 DEF CacheStore
  <2>3. CASE PurgeOne  BY <2>3 DEF PurgeOne
  <2>4. ASSUME NEW n \in Limits, CacheResize(n) PROVE MemoryOK'
    BY <2>4 DEF CacheResize
  <2>5. ASSUME NEW p \in Problem, ParseFormula(p) PROVE MemoryOK'
    BY <2>5, GameCachesAssumption DEF ParseFormula
  <2>6. CASE DestroySolver  BY <2>6 DEF DestroySolver, FormulasAfter
  <2>7. ASSUME NEW x \in ObjectAt, Release(x) PROVE MemoryOK'
    BY <2>7 DEF Release
  <2>8. ASSUME NEW x \in ObjectAt, NEW o \in Object, Intern(x, o) PROVE MemoryOK'
    BY <2>8 DEF Intern
  <2>9. CASE UNCHANGED allVars  BY <2>9 DEF allVars
  <2> QED
    BY <2>1, <2>2, <2>3, <2>4, <2>5, <2>6, <2>7, <2>8, <2>9 DEF CachesNext
<1> QED  BY <1>1, <1>2, PTL DEF CachesSpec

(***************************************************************************)
(* The caches over the life of several solvers implement the cache of      *)
(* LruCache: whatever is proved of it holds of them.                       *)
(***************************************************************************)
THEOREM CachesImplementLruCache == CachesSpec => Spec
<1>1. InitCaches => Init  BY DEF InitCaches
<1>2. MemoryOK /\ [CachesNext]_allVars => [Next]_vars
  <2> SUFFICES ASSUME MemoryOK, [CachesNext]_allVars PROVE [Next]_vars
    OBVIOUS
  <2>1. ASSUME NEW f \in FormulaAt, NEW x \in ObjectAt, NEW y \in ObjectAt,
               CacheLookup(f, x, y)
        PROVE  Next
    <3>1. KeyOf(f, x, y) \in Key  BY <2>1, KeysAndResults DEF CacheLookup
    <3> QED  BY <2>1, <3>1 DEF CacheLookup, Next
  <2>2. ASSUME NEW f \in FormulaAt, NEW x \in ObjectAt, NEW y \in ObjectAt,
               CacheStore(f, x, y)
        PROVE  Next
    <3>1. KeyOf(f, x, y) \in Key /\ ResultOf(f, x, y) \in Value
      BY <2>2, KeysAndResults DEF CacheStore
    <3> QED  BY <2>2, <3>1 DEF CacheStore, Next
  <2>3. CASE PurgeOne  BY <2>3 DEF PurgeOne, Next
  <2>4. ASSUME NEW n \in Limits, CacheResize(n) PROVE Next
    BY <2>4 DEF CacheResize, Next
  <2>5. ASSUME NEW p \in Problem, ParseFormula(p) PROVE UNCHANGED vars
    BY <2>5 DEF ParseFormula
  <2>6. CASE DestroySolver  BY <2>6 DEF DestroySolver
  <2>7. ASSUME NEW x \in ObjectAt, Release(x) PROVE UNCHANGED vars
    BY <2>7 DEF Release
  <2>8. ASSUME NEW x \in ObjectAt, NEW o \in Object, Intern(x, o)
        PROVE  UNCHANGED vars
    BY <2>8 DEF Intern
  <2>9. CASE UNCHANGED allVars  BY <2>9 DEF allVars
  <2> QED
    BY <2>1, <2>2, <2>3, <2>4, <2>5, <2>6, <2>7, <2>8, <2>9 DEF CachesNext
<1> QED  BY <1>1, <1>2, MemoryOKInvariant, PTL DEF CachesSpec, Spec
-----------------------------------------------------------------------------
(* The memory at the addresses of a key stays as it is.                    *)
KeptFor(k) ==
  /\ formula'[k.formula] = formula[k.formula]
  /\ object'[k.of[1]] = object[k.of[1]]
  /\ object'[k.of[2]] = object[k.of[2]]

(* Entries stay right when the memory at their addresses does.             *)
LEMMA FreshKept ==
  ASSUME UNCHANGED kind,
         NEW S \in SUBSET used, EntriesFresh,
         \A d \in S : item'[d] = item[d] /\ KeptFor(item[d].key)
  PROVE  \A d \in S : FreshEntry(item[d])'
<1> SUFFICES ASSUME NEW d \in S PROVE FreshEntry(item[d])'
  OBVIOUS
<1>1. PICK e : e = item[d] /\ e = item'[d]  OBVIOUS
<1>2. FreshEntry(e) /\ KeptFor(e.key)  BY <1>1 DEF EntriesFresh
<1>3. FreshEntry(e)'  BY <1>2 DEF FreshEntry, KeptFor, ResultOf
<1> QED  BY <1>1, <1>3 DEF FreshEntry, ResultOf

LEMMA FreshStep ==
  ASSUME IInv, MemoryOK, EntriesFresh, [CachesNext]_allVars
  PROVE  EntriesFresh'
<1> USE DEF memory
<1>1. ASSUME UNCHANGED <<kind, formula, object>>,
             used' \subseteq used, \A d \in used' : item'[d] = item[d]
      PROVE  EntriesFresh'
  BY <1>1, FreshKept DEF EntriesFresh, KeptFor
<1>2. ASSUME UNCHANGED <<kind, used, item>>,
             \A d \in used : KeptFor(item[d].key)
      PROVE  EntriesFresh'
  BY <1>2, FreshKept DEF EntriesFresh
<1>3. ASSUME NEW f \in FormulaAt, NEW x \in ObjectAt, NEW y \in ObjectAt,
             CacheLookup(f, x, y)
      PROVE  EntriesFresh'
  BY <1>3, <1>1 DEF CacheLookup, Lookup
<1>4. ASSUME NEW f \in FormulaAt, NEW x \in ObjectAt, NEW y \in ObjectAt,
             CacheStore(f, x, y)
      PROVE  EntriesFresh'
  <2>1. PICK k, v : k = KeyOf(f, x, y) /\ v = ResultOf(f, x, y)  OBVIOUS
  <2>2. UNCHANGED <<kind, formula, object>> /\ Store(k, v)
    BY <1>4, <2>1 DEF CacheStore
  <2>3. CASE StoreNew(k, v)
    <3>1. PICK c \in Cell \ used :
            /\ item' = [d \in used \cup {c} |->
                          IF d = c THEN [key |-> k, value |-> v] ELSE item[d]]
            /\ used' = used \cup {c}
      BY <2>3 DEF StoreNew
    <3>2. item'[c] = [key |-> k, value |-> v]  BY <3>1
    <3>3. formula[f] # None /\ object[x] # None /\ object[y] # None
      BY <1>4, GameCachesAssumption DEF CacheStore, There, MemoryOK
    <3>4. /\ k.formula = f /\ k.of[1] \in {x, y} /\ k.of[2] \in {x, y}
          /\ ResultOf(k.formula, k.of[1], k.of[2]) = v
      BY <2>1, KeyGivesResult
    <3>5. ResultOf(k.formula, k.of[1], k.of[2])' = v
      BY <3>4, <2>2 DEF ResultOf
    <3>6. FreshEntry(item[c])'
      BY <3>2, <3>3, <3>4, <3>5, <2>2 DEF FreshEntry, ResultOf
    <3>7. \A d \in used : item'[d] = item[d] /\ KeptFor(item[d].key)
      BY <3>1, <2>2 DEF KeptFor
    <3>8. \A d \in used : FreshEntry(item[d])'  BY <3>7, <2>2, FreshKept
    <3> QED  BY <3>1, <3>6, <3>8 DEF EntriesFresh
  <2>4. CASE UNCHANGED <<used, item>>  BY <2>2, <2>4, <1>1
  <2> QED  BY <2>2, <2>3, <2>4 DEF Store, StoreRefused, StoreDuplicate, vars
<1>5. CASE PurgeOne  BY <1>5, <1>1 DEF PurgeOne, Purge
<1>6. ASSUME NEW n \in Limits, CacheResize(n) PROVE EntriesFresh'
  BY <1>6, <1>1 DEF CacheResize, Resize
<1>7. ASSUME NEW p \in Problem, ParseFormula(p) PROVE EntriesFresh'
  <2>1. PICK a \in FormulaAt :
          formula[a] = None /\ formula' = [formula EXCEPT ![a] = p]
    BY <1>7 DEF ParseFormula
  <2>2. \A d \in used : KeptFor(item[d].key)
    BY <1>7, <2>1
    DEF ParseFormula, KeptFor, EntriesFresh, FreshEntry, MemoryOK, MemoryTypeOK
  <2> QED  BY <1>7, <2>2, <1>2 DEF ParseFormula, vars
<1>8. CASE DestroySolver
  BY <1>8, <1>1 DEF DestroySolver, FormulasAfter, vars
<1>9. ASSUME NEW x \in ObjectAt, Release(x) PROVE EntriesFresh'
  <2>1. \A d \in used : x # item[d].key.of[1] /\ x # item[d].key.of[2]
    BY <1>9 DEF Release, HeldByKeys
  <2>2. \A d \in used : KeptFor(item[d].key)
    BY <1>9, <2>1 DEF Release, KeptFor, MemoryOK, MemoryTypeOK
  <2> QED  BY <1>9, <2>2, <1>2 DEF Release, vars
<1>10. ASSUME NEW x \in ObjectAt, NEW o \in Object, Intern(x, o)
       PROVE  EntriesFresh'
  <2>1. \A d \in used : KeptFor(item[d].key)
    BY <1>10
    DEF Intern, KeptFor, EntriesFresh, FreshEntry, MemoryOK, MemoryTypeOK
  <2> QED  BY <1>10, <2>1, <1>2 DEF Intern, vars
<1>11. CASE UNCHANGED allVars  BY <1>11, <1>1 DEF allVars, vars
<1> QED
  BY <1>3, <1>4, <1>5, <1>6, <1>7, <1>8, <1>9, <1>10, <1>11 DEF CachesNext

LEMMA HitsStep ==
  ASSUME IInv, EntriesFresh, HitsAreFresh, [CachesNext]_allVars
  PROVE  HitsAreFresh'
<1> USE DEF HitsAreFresh
<1>1. ASSUME NEW f \in FormulaAt, NEW x \in ObjectAt, NEW y \in ObjectAt,
             CacheLookup(f, x, y)
      PROVE  HitsAreFresh'
  <2> DEFINE k == KeyOf(f, x, y)
  <2>1. Lookup(k) /\ due' = ResultOf(f, x, y)  BY <1>1 DEF CacheLookup
  <2>2. CASE k \in DOMAIN index
    <3>1. index[k] \in used /\ item[index[k]].key = k
      BY <2>2 DEF IInv, IndexOK
    <3> HIDE DEF k
    <3>2. item[index[k]].value = ResultOf(k.formula, k.of[1], k.of[2])
      BY <3>1 DEF EntriesFresh, FreshEntry
    <3>3. ResultOf(k.formula, k.of[1], k.of[2]) = ResultOf(f, x, y)
      BY KeyGivesResult DEF k
    <3> QED  BY <2>1, <2>2, <3>2, <3>3 DEF Lookup
  <2>3. CASE k \notin DOMAIN index
    <3> HIDE DEF k
    <3> QED  BY <2>1, <2>3 DEF Lookup
  <2> QED  BY <2>2, <2>3
<1>2. ASSUME NEW f \in FormulaAt, NEW x \in ObjectAt, NEW y \in ObjectAt,
             CacheStore(f, x, y)
      PROVE  HitsAreFresh'
  BY <1>2, StoreKeepsAnswer DEF CacheStore
<1>3. CASE PurgeOne  BY <1>3 DEF PurgeOne, Purge
<1>4. ASSUME NEW n \in Limits, CacheResize(n) PROVE HitsAreFresh'
  BY <1>4 DEF CacheResize, Resize
<1>5. ASSUME NEW p \in Problem, ParseFormula(p) PROVE HitsAreFresh'
  BY <1>5 DEF ParseFormula, vars
<1>6. CASE DestroySolver  BY <1>6 DEF DestroySolver, vars
<1>7. ASSUME NEW x \in ObjectAt, Release(x) PROVE HitsAreFresh'
  BY <1>7 DEF Release, vars
<1>8. ASSUME NEW x \in ObjectAt, NEW o \in Object, Intern(x, o)
      PROVE  HitsAreFresh'
  BY <1>8 DEF Intern, vars
<1>9. CASE UNCHANGED allVars  BY <1>9 DEF allVars, vars
<1> QED
  BY <1>1, <1>2, <1>3, <1>4, <1>5, <1>6, <1>7, <1>8, <1>9 DEF CachesNext

(***************************************************************************)
(* No lookup is ever answered with a result for another formula, graph,    *)
(* assignment or game, for any number of solvers, objects and addresses    *)
(* and any limit: formulas stay where they are after their solver, and a   *)
(* key's handles keep its flyweights where they are.                       *)
(***************************************************************************)
THEOREM CachesHitsAreFresh == CachesSpec => []HitsAreFresh
<1>1. InitCaches => EntriesFresh /\ HitsAreFresh
  BY DEF InitCaches, Init, EntriesFresh, HitsAreFresh
<1>2. IInv /\ MemoryOK /\ EntriesFresh /\ HitsAreFresh /\ [CachesNext]_allVars
        => (EntriesFresh /\ HitsAreFresh)'
  BY FreshStep, HitsStep
<1>3. CachesSpec => []IInv  BY CachesImplementLruCache, IInvInductive, PTL
<1> QED  BY <1>1, <1>2, <1>3, MemoryOKInvariant, PTL DEF CachesSpec

(***************************************************************************)
(* Hence the caches, over the life of several solvers, drop what was used  *)
(* least recently, and nothing else is ever lost or replaced.              *)
(***************************************************************************)
THEOREM CachesImplementLru == CachesSpec => ImplementsLru
BY CachesImplementLruCache, LruImplementsLru, PTL
=============================================================================
