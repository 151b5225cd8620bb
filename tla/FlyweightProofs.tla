-------------------------- MODULE FlyweightProofs ---------------------------
(***************************************************************************)
(* Proofs about Flyweight: for any number of threads, objects and handles, *)
(* counters count handles, no handle dangles, nothing leaks, and pooled    *)
(* objects that are equal all the way down have the same address.          *)
(***************************************************************************)
EXTENDS Flyweight, FiniteSetTheorems, WellFoundedInduction, TLAPS

(* Inside the critical sections of the constructor and the destructor.     *)
HoldsLock ==
  \A t \in Thread : pc[t] \in {"insert", "inc", "dec", "test"} => lock = t

Constructs(t) == pc[t] \in {"lock", "insert", "inc"}
Destroys(t) == pc[t] \in {"wlock", "dec"}
Owns(t) == Constructs(t) \/ pc[t] = "delete"

(* An object that a thread adds or deletes is not in the pool.             *)
OwnedPrivate == \A t \in Thread : Owns(t) => obj[t] \in alloc /\ obj[t] \notin pool

(* A new object counts the handle that is being constructed.               *)
Constructed ==
  \A t \in Thread : Constructs(t) =>
    /\ hnd[t] \in Handle /\ target[hnd[t]] = None
    /\ count[obj[t]] = 1

Destroyed ==
  \A t \in Thread : Destroys(t) => hnd[t] \in Handle /\ target[hnd[t]] # None

(* What insert() found and what the destructor tests is in the pool.       *)
InPool ==
  \A t \in Thread : /\ pc[t] = "inc" => found[t] \in pool
                    /\ pc[t] = "test" => obj[t] \in pool

(* No two threads own the same object or work on the same handle.          *)
OwnDistinct == \A t, u \in Thread : Owns(t) /\ Owns(u) /\ obj[t] = obj[u] => t = u
HndDistinct == \A t, u \in Thread : hnd[t] = hnd[u] /\ hnd[t] # None => t = u

(* A handle inside an object refers to something, and nobody touches it.   *)
NestedLive ==
  \A h \in Handle : holder[h] # None =>
    target[h] # None /\ \A t \in Thread : hnd[t] # h /\ h \notin doomed[t]

(* So does one left by a deleted object, until its thread destroys it.     *)
DoomedLive ==
  \A t \in Thread : \A h \in doomed[t] :
    /\ target[h] # None
    /\ \A u \in Thread : u # t => h \notin doomed[u] /\ hnd[u] # h

IInv ==
  /\ TypeOK /\ HoldsLock /\ OwnedPrivate /\ Constructed /\ Destroyed /\ InPool
  /\ OwnDistinct /\ HndDistinct /\ NestedLive /\ DoomedLive
  /\ pool \subseteq alloc /\ NoDangling /\ CountsHandles
-----------------------------------------------------------------------------
LEMMA InitIInv == Init => IInv
BY FlyweightAssumption
DEF Init, IInv, TypeOK, Labels, HoldsLock, OwnedPrivate, Constructed, Destroyed, InPool,
    OwnDistinct, HndDistinct, NestedLive, DoomedLive, NoDangling, CountsHandles,
    Owns, Constructs, Destroys

(* The handles of an object are finitely many.                             *)
LEMMA RefsFinite == ASSUME NEW o PROVE IsFiniteSet(Refs(o))
BY FlyweightAssumption, FS_Subset DEF Refs

(* A handle set to o adds one to the handles of o, and to no others.       *)
LEMMA RefsGain ==
  ASSUME TypeOK, NEW h \in Handle, NEW o \in Obj, target[h] = None,
         target' = [target EXCEPT ![h] = o]
  PROVE  /\ Cardinality(Refs(o))' = Cardinality(Refs(o)) + 1
         /\ \A p \in Obj : p # o => Refs(p)' = Refs(p)
<1>0. o # None /\ None \notin Obj  BY FlyweightAssumption
<1>1. Refs(o)' = Refs(o) \cup {h}  BY DEF Refs, TypeOK
<1>2. h \notin Refs(o)  BY <1>0 DEF Refs
<1>3. IsFiniteSet(Refs(o))  BY RefsFinite
<1>4. Cardinality(Refs(o) \cup {h}) = Cardinality(Refs(o)) + 1
  BY <1>2, <1>3, FS_AddElement
<1>5. Cardinality(Refs(o))' = Cardinality(Refs(o)')  OBVIOUS
<1>6. ASSUME NEW p \in Obj, p # o PROVE Refs(p)' = Refs(p)
  BY <1>0, <1>6 DEF Refs, TypeOK
<1> QED  BY <1>1, <1>4, <1>5, <1>6

(* A handle that gives up o takes one away.                                *)
LEMMA RefsLoss ==
  ASSUME TypeOK, NEW h \in Handle, NEW o \in Obj, target[h] = o,
         target' = [target EXCEPT ![h] = None]
  PROVE  /\ Cardinality(Refs(o)) \in Nat \ {0}
         /\ Cardinality(Refs(o))' = Cardinality(Refs(o)) - 1
         /\ \A p \in Obj : p # o => Refs(p)' = Refs(p)
<1>0. o # None /\ None \notin Obj  BY FlyweightAssumption
<1>1. Refs(o)' = Refs(o) \ {h}  BY <1>0 DEF Refs, TypeOK
<1>2. h \in Refs(o)  BY DEF Refs
<1>3. IsFiniteSet(Refs(o))  BY RefsFinite
<1>4. Cardinality(Refs(o) \ {h}) = Cardinality(Refs(o)) - 1
  BY <1>2, <1>3, FS_RemoveElement
<1>5. Cardinality(Refs(o))' = Cardinality(Refs(o)')  OBVIOUS
<1>6. ASSUME NEW p \in Obj, p # o PROVE Refs(p)' = Refs(p)
  BY <1>0, <1>6 DEF Refs, TypeOK
<1>7. Cardinality(Refs(o)) \in Nat /\ Cardinality(Refs(o)) # 0
  BY <1>2, <1>3, FS_CardinalityType, FS_EmptySet
<1> QED  BY <1>1, <1>4, <1>5, <1>6, <1>7

LEMMA NewIInv == ASSUME NEW t \in Thread, IInv, New(t) PROVE IInv'
<1> USE DEF IInv
<1>1. PICK o \in Obj \ alloc, l \in Label, h \in Handle :
        \E S \in SUBSET {g \in Handle : Settled(g)} :
         /\ Unused(h)
         /\ alloc' = alloc \cup {o}
         /\ label' = [label EXCEPT ![o] = l]
         /\ count' = [count EXCEPT ![o] = 1]
         /\ holder' = [g \in Handle |-> IF g \in S THEN o ELSE holder[g]]
         /\ obj' = [obj EXCEPT ![t] = o]
         /\ hnd' = [hnd EXCEPT ![t] = h]
         /\ Goto(t, "lock")
  BY DEF New
<1>2. PICK S \in SUBSET {g \in Handle : Settled(g)} :
         /\ Unused(h)
         /\ alloc' = alloc \cup {o}
         /\ label' = [label EXCEPT ![o] = l]
         /\ count' = [count EXCEPT ![o] = 1]
         /\ holder' = [g \in Handle |-> IF g \in S THEN o ELSE holder[g]]
         /\ obj' = [obj EXCEPT ![t] = o]
         /\ hnd' = [hnd EXCEPT ![t] = h]
         /\ pc' = [pc EXCEPT ![t] = "lock"]
  BY <1>1 DEF Goto
<1>3. UNCHANGED <<pool, target, lock, found, doomed>> /\ Free(t)  BY DEF New
<1>4. TypeOK'  BY <1>2, <1>3 DEF TypeOK, Labels
<1>5. HoldsLock' /\ InPool'  BY <1>2, <1>3 DEF TypeOK, HoldsLock, InPool, Free
<1>6. OwnedPrivate' /\ OwnDistinct'
  BY <1>2, <1>3 DEF TypeOK, OwnedPrivate, OwnDistinct, Owns, Constructs
<1>7. Constructed'
  BY <1>2, <1>3 DEF TypeOK, Constructed, Constructs, OwnedPrivate, Owns, Unused
<1>8. Destroyed' /\ HndDistinct'
  BY <1>2, <1>3 DEF TypeOK, Destroyed, Destroys, HndDistinct, Unused
<1>9. NestedLive' /\ DoomedLive'
  BY <1>2, <1>3 DEF TypeOK, NestedLive, DoomedLive, Settled, Unused
<1>10. (pool \subseteq alloc)' /\ NoDangling' /\ CountsHandles'
  BY <1>2, <1>3 DEF TypeOK, NoDangling, CountsHandles, Refs
<1> QED  BY <1>4, <1>5, <1>6, <1>7, <1>8, <1>9, <1>10

LEMMA AcquireIInv == ASSUME NEW t \in Thread, IInv, Acquire(t) PROVE IInv'
<1> USE DEF IInv, Acquire, Lock, WriteLock, mem, Goto
<1>1. TypeOK'  BY DEF TypeOK, Labels
<1>2. HoldsLock' /\ InPool'
  BY FlyweightAssumption DEF TypeOK, HoldsLock, InPool
<1>3. OwnedPrivate' /\ OwnDistinct'
  BY DEF TypeOK, OwnedPrivate, OwnDistinct, Owns, Constructs
<1>4. Constructed' /\ Destroyed' /\ HndDistinct'
  BY DEF TypeOK, Constructed, Constructs, Destroyed, Destroys, HndDistinct
<1>5. NestedLive' /\ DoomedLive' /\ (pool \subseteq alloc)' /\ NoDangling' /\ CountsHandles'
  BY DEF TypeOK, NestedLive, DoomedLive, NoDangling, CountsHandles, Refs
<1> QED  BY <1>1, <1>2, <1>3, <1>4, <1>5

LEMMA InsertNewIInv == ASSUME NEW t \in Thread, IInv, InsertNew(t) PROVE IInv'
<1> USE DEF IInv, InsertNew, mem, Goto
<1>0. /\ lock = t /\ obj[t] \in alloc \ pool /\ obj[t] \in Obj /\ obj[t] # None
      /\ hnd[t] \in Handle /\ target[hnd[t]] = None /\ count[obj[t]] = 1
      /\ Owns(t) /\ Constructs(t)
  BY FlyweightAssumption
  DEF TypeOK, HoldsLock, OwnedPrivate, Constructed, Owns, Constructs
<1>1. TypeOK'  BY <1>0 DEF TypeOK, Labels
<1>2. HoldsLock' /\ InPool'  BY <1>0 DEF TypeOK, HoldsLock, InPool
<1>3. OwnedPrivate' /\ OwnDistinct'
  BY <1>0 DEF TypeOK, OwnedPrivate, OwnDistinct, Owns, Constructs
<1>4. Constructed' /\ Destroyed' /\ HndDistinct'
  BY <1>0, FlyweightAssumption
  DEF TypeOK, Constructed, Constructs, Destroyed, Destroys, HndDistinct
<1>5. NestedLive' /\ DoomedLive'
  BY <1>0, FlyweightAssumption DEF TypeOK, NestedLive, DoomedLive
<1>6. (pool \subseteq alloc)' /\ NoDangling'
  BY <1>0 DEF TypeOK, NoDangling
<1>7. CountsHandles'
  <2>1. ASSUME NEW o \in pool PROVE Refs(o)' = Refs(o)
    <3>1. o # None /\ o # obj[t]  BY <1>0, FlyweightAssumption DEF TypeOK
    <3> QED  BY <1>0, <3>1 DEF Refs, TypeOK
  <2>2. Refs(obj[t]) = {}  BY <1>0 DEF Refs, NoDangling
  <2>3. {g \in Handle : target'[g] = obj[t]} = {hnd[t]}
    BY <1>0, <2>2 DEF Refs, TypeOK
  <2>4. Cardinality({hnd[t]}) = 1  BY FS_Singleton
  <2> QED  BY <1>0, <2>1, <2>3, <2>4 DEF CountsHandles, Refs
<1> QED  BY <1>1, <1>2, <1>3, <1>4, <1>5, <1>6, <1>7

LEMMA InsertExistingIInv == ASSUME NEW t \in Thread, IInv, InsertExisting(t) PROVE IInv'
<1> USE DEF IInv, InsertExisting, mem, Goto
<1>1. TypeOK'  BY DEF TypeOK, Labels
<1>2. HoldsLock' /\ InPool'  BY DEF TypeOK, HoldsLock, InPool
<1>3. OwnedPrivate' /\ OwnDistinct'
  BY DEF TypeOK, OwnedPrivate, OwnDistinct, Owns, Constructs
<1>4. Constructed' /\ Destroyed' /\ HndDistinct'
  BY DEF TypeOK, Constructed, Constructs, Destroyed, Destroys, HndDistinct
<1>5. NestedLive' /\ DoomedLive' /\ (pool \subseteq alloc)' /\ NoDangling' /\ CountsHandles'
  BY DEF TypeOK, NestedLive, DoomedLive, NoDangling, CountsHandles, Refs
<1> QED  BY <1>1, <1>2, <1>3, <1>4, <1>5

LEMMA IncrementIInv == ASSUME NEW t \in Thread, IInv, Increment(t) PROVE IInv'
<1> USE DEF IInv, Increment, mem, Goto
<1>0. /\ lock = t /\ obj[t] \in alloc \ pool /\ obj[t] \in Obj
      /\ found[t] \in pool /\ found[t] \in Obj /\ found[t] # None
      /\ hnd[t] \in Handle /\ target[hnd[t]] = None
      /\ Owns(t) /\ Constructs(t)
  BY FlyweightAssumption
  DEF TypeOK, HoldsLock, OwnedPrivate, Constructed, InPool, Owns, Constructs
<1>1. TypeOK'  BY <1>0 DEF TypeOK, Labels
<1>2. HoldsLock' /\ InPool'  BY <1>0 DEF TypeOK, HoldsLock, InPool
<1>3. OwnedPrivate' /\ OwnDistinct'
  BY <1>0 DEF TypeOK, OwnedPrivate, OwnDistinct, Owns, Constructs
<1>4. Constructed'
  BY <1>0, FlyweightAssumption
  DEF TypeOK, Constructed, Constructs, HndDistinct, OwnedPrivate, Owns
<1>5. Destroyed' /\ HndDistinct'
  BY <1>0, FlyweightAssumption DEF TypeOK, Destroyed, Destroys, HndDistinct
<1>6. NestedLive' /\ DoomedLive'
  BY <1>0, FlyweightAssumption DEF TypeOK, NestedLive, DoomedLive
<1>7. (pool \subseteq alloc)' /\ NoDangling'  BY <1>0 DEF TypeOK, NoDangling
<1>8. CountsHandles'
  <2>1. PICK h \in Handle, o \in Obj : h = hnd[t] /\ o = found[t]  BY <1>0
  <2>2. /\ target' = [target EXCEPT ![h] = o] /\ target[h] = None
        /\ count' = [count EXCEPT ![o] = @ + 1] /\ pool' = pool /\ o \in pool
    BY <1>0, <2>1
  <2>3. /\ Cardinality(Refs(o))' = Cardinality(Refs(o)) + 1
        /\ \A p \in Obj : p # o => Refs(p)' = Refs(p)
    BY <2>2, RefsGain
  <2> QED  BY <2>2, <2>3 DEF CountsHandles, TypeOK
<1> QED  BY <1>1, <1>2, <1>3, <1>4, <1>5, <1>6, <1>7, <1>8

LEMMA DeleteIInv == ASSUME NEW t \in Thread, IInv, Delete(t) PROVE IInv'
<1> USE DEF IInv, Delete, Goto
<1>0. /\ obj[t] \in alloc \ pool /\ obj[t] \in Obj /\ obj[t] # None /\ Owns(t)
  BY FlyweightAssumption DEF TypeOK, OwnedPrivate, Owns
<1>1. TypeOK'  BY <1>0 DEF TypeOK, Labels, Nested
<1>2. HoldsLock' /\ InPool'  BY <1>0 DEF TypeOK, HoldsLock, InPool
<1>3. OwnedPrivate' /\ OwnDistinct'
  BY <1>0 DEF TypeOK, OwnedPrivate, OwnDistinct, Owns, Constructs
<1>4. Constructed' /\ Destroyed' /\ HndDistinct'
  BY <1>0 DEF TypeOK, Constructed, Constructs, Destroyed, Destroys, HndDistinct
<1>5. NestedLive' /\ DoomedLive'
  BY <1>0, FlyweightAssumption DEF TypeOK, NestedLive, DoomedLive, Nested
<1>6. (pool \subseteq alloc)' /\ NoDangling' /\ CountsHandles'
  BY <1>0 DEF TypeOK, NoDangling, CountsHandles, Refs
<1> QED  BY <1>1, <1>2, <1>3, <1>4, <1>5, <1>6

(* A handle that may be copied refers to an object.                        *)
LEMMA ReachableLive ==
  ASSUME IInv, NEW g \in Handle, Reachable(g) PROVE target[g] # None
BY DEF IInv, Reachable, Settled, NestedLive

LEMMA CopyIInv == ASSUME NEW t \in Thread, IInv, Copy(t) PROVE IInv'
<1> USE DEF IInv, mem, loc
<1>1. PICK g \in Handle, h \in Handle :
        /\ Reachable(g) /\ Unused(h)
        /\ target' = [target EXCEPT ![h] = target[g]]
        /\ count' = [count EXCEPT ![target[g]] = @ + 1]
  BY DEF Copy
<1>2. UNCHANGED <<mem, pool, lock, loc>>  BY DEF Copy
<1>3. PICK o \in Obj : o = target[g] /\ o \in pool /\ o # None
  BY <1>1, ReachableLive, FlyweightAssumption DEF TypeOK, NoDangling
<1>4. /\ target' = [target EXCEPT ![h] = o]
      /\ count' = [count EXCEPT ![o] = @ + 1]
      /\ target[h] = None /\ \A u \in Thread : hnd[u] # h
  BY <1>1, <1>3 DEF Unused
<1>5. TypeOK'  BY <1>2, <1>4 DEF TypeOK
<1>6. /\ HoldsLock' /\ InPool' /\ OwnedPrivate' /\ OwnDistinct' /\ HndDistinct'
      /\ (pool \subseteq alloc)'
  BY <1>2 DEF TypeOK, HoldsLock, InPool, OwnedPrivate, OwnDistinct, HndDistinct, Owns, Constructs
<1>7. Constructed' /\ Destroyed'
  BY <1>2, <1>3, <1>4
  DEF TypeOK, Constructed, Constructs, Destroyed, Destroys, OwnedPrivate, Owns
<1>8. NestedLive' /\ DoomedLive'
  BY <1>2, <1>3, <1>4 DEF TypeOK, NestedLive, DoomedLive
<1>9. NoDangling'  BY <1>2, <1>3, <1>4 DEF TypeOK, NoDangling
<1>10. CountsHandles'
  <2>1. /\ Cardinality(Refs(o))' = Cardinality(Refs(o)) + 1
        /\ \A p \in Obj : p # o => Refs(p)' = Refs(p)
    BY <1>4, RefsGain
  <2> QED  BY <1>2, <1>3, <1>4, <2>1 DEF CountsHandles, TypeOK
<1> QED  BY <1>5, <1>6, <1>7, <1>8, <1>9, <1>10

LEMMA DestroyIInv == ASSUME NEW t \in Thread, IInv, Destroy(t) PROVE IInv'
<1> USE DEF IInv, mem, Goto
<1>1. PICK h \in Handle :
        /\ IF doomed[t] = {} THEN Settled(h) ELSE h \in doomed[t]
        /\ hnd' = [hnd EXCEPT ![t] = h]
  BY DEF Destroy
<1>2. /\ pc[t] = "idle" /\ pc' = [pc EXCEPT ![t] = "wlock"]
      /\ UNCHANGED <<mem, pool, count, target, lock, obj, found, doomed>>
  BY DEF Destroy
<1>3. /\ target[h] # None /\ holder[h] = None
      /\ \A u \in Thread : u # t => hnd[u] # h /\ h \notin doomed[u]
  BY <1>1 DEF Settled, DoomedLive, NestedLive
<1>4. TypeOK'  BY <1>1, <1>2 DEF TypeOK, Labels
<1>5. HoldsLock' /\ InPool'  BY <1>2 DEF TypeOK, HoldsLock, InPool
<1>6. OwnedPrivate' /\ OwnDistinct'
  BY <1>2 DEF TypeOK, OwnedPrivate, OwnDistinct, Owns, Constructs
<1>7. Constructed' /\ Destroyed' /\ HndDistinct'
  BY <1>1, <1>2, <1>3
  DEF TypeOK, Constructed, Constructs, Destroyed, Destroys, HndDistinct
<1>8. NestedLive' /\ DoomedLive'
  BY <1>1, <1>2, <1>3 DEF TypeOK, NestedLive, DoomedLive
<1>9. (pool \subseteq alloc)' /\ NoDangling' /\ CountsHandles'
  BY <1>2 DEF NoDangling, CountsHandles, Refs
<1> QED  BY <1>4, <1>5, <1>6, <1>7, <1>8, <1>9

LEMMA DecrementIInv == ASSUME NEW t \in Thread, IInv, Decrement(t) PROVE IInv'
<1> USE DEF IInv, mem, Goto
<1>1. PICK h \in Handle, o \in Obj : h = hnd[t] /\ target[h] = o /\ o \in pool /\ h # None
  BY FlyweightAssumption DEF Decrement, Destroyed, Destroys, TypeOK, NoDangling
<1>2. /\ pc[t] = "dec" /\ pc' = [pc EXCEPT ![t] = "test"]
      /\ count' = [count EXCEPT ![o] = @ - 1]
      /\ target' = [target EXCEPT ![h] = None]
      /\ obj' = [obj EXCEPT ![t] = o]
      /\ doomed' = [doomed EXCEPT ![t] = @ \ {h}]
      /\ hnd' = [hnd EXCEPT ![t] = None]
      /\ UNCHANGED <<mem, pool, lock, found>>
  BY <1>1 DEF Decrement
<1>3. o # None /\ lock = t
  BY <1>2, FlyweightAssumption DEF HoldsLock
<1>4. /\ Cardinality(Refs(o)) \in Nat \ {0}
      /\ Cardinality(Refs(o))' = Cardinality(Refs(o)) - 1
      /\ \A p \in Obj : p # o => Refs(p)' = Refs(p)
  BY <1>1, <1>2, RefsLoss
<1>5. count[o] = Cardinality(Refs(o))  BY <1>1 DEF CountsHandles
<1>6. TypeOK'
  <2>1. count' \in [Obj -> Nat]  BY <1>2, <1>4, <1>5 DEF TypeOK
  <2> QED  BY <2>1, <1>1, <1>2 DEF TypeOK, Labels
<1>7. HoldsLock' /\ InPool'
  BY <1>1, <1>2, <1>3 DEF TypeOK, HoldsLock, InPool
<1>8. OwnedPrivate' /\ OwnDistinct'
  BY <1>2 DEF TypeOK, OwnedPrivate, OwnDistinct, Owns, Constructs
<1>9. Constructed' /\ Destroyed' /\ HndDistinct'
  BY <1>1, <1>2, FlyweightAssumption
  DEF TypeOK, Constructed, Constructs, Destroyed, Destroys, HndDistinct, OwnedPrivate, Owns
<1>10. NestedLive' /\ DoomedLive'
  BY <1>1, <1>2, FlyweightAssumption DEF TypeOK, NestedLive, DoomedLive
<1>11. (pool \subseteq alloc)' /\ NoDangling'
  BY <1>1, <1>2 DEF TypeOK, NoDangling
<1>12. CountsHandles'
  BY <1>2, <1>4, <1>5 DEF CountsHandles, TypeOK
<1> QED  BY <1>6, <1>7, <1>8, <1>9, <1>10, <1>11, <1>12

LEMMA EraseLastIInv == ASSUME NEW t \in Thread, IInv, EraseLast(t) PROVE IInv'
<1> USE DEF IInv, EraseLast, mem, Goto
<1>0. lock = t /\ obj[t] \in pool /\ obj[t] \in Obj /\ obj[t] \in alloc
  BY DEF HoldsLock, InPool, TypeOK
<1>1. TypeOK'  BY DEF TypeOK, Labels
<1>2. HoldsLock' /\ InPool'  BY <1>0 DEF TypeOK, HoldsLock, InPool
<1>3. OwnedPrivate' /\ OwnDistinct'
  BY <1>0 DEF TypeOK, OwnedPrivate, OwnDistinct, Owns, Constructs
<1>4. Constructed' /\ Destroyed' /\ HndDistinct'
  BY DEF TypeOK, Constructed, Constructs, Destroyed, Destroys, HndDistinct
<1>5. NestedLive' /\ DoomedLive' /\ (pool \subseteq alloc)' /\ CountsHandles'
  BY DEF TypeOK, NestedLive, DoomedLive, CountsHandles, Refs
<1>6. NoDangling'
  <2>1. Cardinality(Refs(obj[t])) = 0  BY <1>0 DEF CountsHandles
  <2>2. Refs(obj[t]) = {}  BY <2>1, RefsFinite, FS_EmptySet
  <2> QED  BY <2>2 DEF NoDangling, Refs
<1> QED  BY <1>1, <1>2, <1>3, <1>4, <1>5, <1>6

LEMMA KeepSharedIInv == ASSUME NEW t \in Thread, IInv, KeepShared(t) PROVE IInv'
<1> USE DEF IInv, KeepShared, mem, Goto
<1>0. lock = t  BY DEF HoldsLock
<1>1. TypeOK'  BY DEF TypeOK, Labels
<1>2. HoldsLock' /\ InPool'  BY <1>0 DEF TypeOK, HoldsLock, InPool
<1>3. OwnedPrivate' /\ OwnDistinct'
  BY DEF TypeOK, OwnedPrivate, OwnDistinct, Owns, Constructs
<1>4. Constructed' /\ Destroyed' /\ HndDistinct'
  BY DEF TypeOK, Constructed, Constructs, Destroyed, Destroys, HndDistinct
<1>5. NestedLive' /\ DoomedLive' /\ (pool \subseteq alloc)' /\ NoDangling' /\ CountsHandles'
  BY DEF TypeOK, NestedLive, DoomedLive, NoDangling, CountsHandles, Refs
<1> QED  BY <1>1, <1>2, <1>3, <1>4, <1>5

LEMMA IInvInductive == Spec => []IInv
<1>1. IInv /\ [Next]_vars => IInv'
  <2> SUFFICES ASSUME IInv, [Next]_vars PROVE IInv'
    OBVIOUS
  <2>1. CASE UNCHANGED vars
    BY <2>1
    DEF vars, IInv, TypeOK, Labels, HoldsLock, OwnedPrivate, Constructed, Destroyed, InPool,
        OwnDistinct, HndDistinct, NestedLive, DoomedLive, NoDangling, CountsHandles, Refs,
        Owns, Constructs, Destroys
  <2>2. ASSUME NEW t \in Thread, Call(t) \/ Acquire(t) \/ Run(t) PROVE IInv'
    BY <2>2, NewIInv, CopyIInv, DestroyIInv, AcquireIInv, InsertNewIInv, InsertExistingIInv,
       IncrementIInv, DeleteIInv, DecrementIInv, EraseLastIInv, KeepSharedIInv
    DEF Call, Run
  <2> QED  BY <2>1, <2>2 DEF Next
<1> QED  BY InitIInv, <1>1, PTL DEF Spec

(* Counters stay natural numbers: no destructor decrements below zero.     *)
THEOREM FlyweightTypeCorrect == Spec => []TypeOK
<1>1. IInv => TypeOK  BY DEF IInv
<1> QED  BY IInvInductive, <1>1, PTL

(* The copy constructor needs no lock: no handle refers to an object that  *)
(* was erased from the pool or deleted, with any number of threads.        *)
THEOREM FlyweightNoDangling == Spec => []NoDangling
<1>1. IInv => NoDangling  BY DEF IInv
<1> QED  BY IInvInductive, <1>1, PTL

(* The counter of a pooled object is the number of its handles.            *)
THEOREM FlyweightCountsHandles == Spec => []CountsHandles
<1>1. IInv => CountsHandles  BY DEF IInv
<1> QED  BY IInvInductive, <1>1, PTL

-----------------------------------------------------------------------------
(***************************************************************************)
(* What IInv does not say: who has an object that is not in the pool, that *)
(* pooled objects have handles and differ, and that nesting has no cycle.  *)
(***************************************************************************)
(* Every object is in the pool or somebody's.                              *)
AllocKnown == \A o \in alloc : o \in pool \/ \E t \in Thread : Owns(t) /\ obj[t] = o

(* A pooled object has a handle, but for the moment between the last       *)
(* decrement and its removal.                                              *)
Counted == \A o \in pool : count[o] # 0 \/ \E t \in Thread : pc[t] = "test" /\ obj[t] = o

(* A thread that has constructed or destroyed its handle has let go of it. *)
HandsFree == \A t \in Thread : pc[t] \in {"idle", "delete", "test"} => hnd[t] = None

(* A handle is nested in objects that exist.                               *)
HolderAlloc == \A h \in Handle : holder[h] # None => holder[h] \in alloc

(* No two pooled objects are equal.                                        *)
Canonical == \A o, p \in pool : Equal(o, p) => o = p

(* Objects refer to older ones: the nesting has no cycle.                  *)
Ranks(r) == \A h \in Handle : holder[h] # None => r[holder[h]] < r[target[h]]
Ranked == \E r \in [Obj -> Nat] : Ranks(r)

ShapeInv ==
  AllocKnown /\ Counted /\ HandsFree /\ HolderAlloc /\ Canonical /\ Ranked

-----------------------------------------------------------------------------
(* A set of natural numbers has a least element ...                        *)
LEMMA NatMin ==
  ASSUME NEW T, T \subseteq Nat, T # {}
  PROVE  \E x \in T : \A y \in T : x <= y
<1> DEFINE R == OpToRel(<, Nat)
<1>1. \E x \in T : \A y \in T : ~(<<y, x>> \in R)
  BY NatLessThanWellFounded, WFMin, Zenon
<1>2. \A x, y \in Nat : <<y, x>> \in R <=> y < x
  BY DEF OpToRel
<1> HIDE DEF R
<1>3. PICK x \in T : \A y \in T : <<y, x>> \notin R  BY <1>1, Zenon
<1>4. \A y \in T : ~(y < x)  BY <1>2, <1>3
<1> QED  BY <1>4

(* ... and one that holds 0 and with n also n + 1 holds them all.          *)
LEMMA NatInd ==
  ASSUME NEW T, T \subseteq Nat, 0 \in T, \A n \in Nat : n \in T => n + 1 \in T
  PROVE  T = Nat
<1> SUFFICES ASSUME Nat \ T # {} PROVE FALSE  OBVIOUS
<1>1. PICK x \in Nat \ T : \A y \in Nat \ T : x <= y  BY NatMin
<1>2. x # 0 /\ x - 1 \in Nat  BY <1>1
<1>3. x - 1 \in T  BY <1>1, <1>2
<1> QED  BY <1>1, <1>2, <1>3

-----------------------------------------------------------------------------
(* A nested handle lies between two objects.                               *)
LEMMA NestedEnds ==
  ASSUME IInv, NEW h \in Handle, holder[h] # None
  PROVE  holder[h] \in Obj /\ target[h] \in Obj
BY DEF IInv, TypeOK, NestedLive

(* What leaves the nested handles alone, or frees some, keeps the ranks.   *)
LEMMA RankedFrame ==
  ASSUME Ranked,
         \A h \in Handle : holder'[h] # None => holder'[h] = holder[h] /\ target'[h] = target[h]
  PROVE  Ranked'
<1>1. PICK r \in [Obj -> Nat] : Ranks(r)  BY DEF Ranked
<1>2. \A h \in Handle : holder'[h] # None => r[holder'[h]] < r[target'[h]]  BY <1>1 DEF Ranks
<1> QED  BY <1>1, <1>2 DEF Ranked, Ranks

(* What leaves the label of an object and the handles in it alone leaves   *)
(* what it is equal to.                                                    *)
LEMMA KidsFrame ==
  ASSUME NEW o, \A h \in Handle : holder'[h] = o <=> holder[h] = o,
         \A h \in Handle : holder[h] = o => target'[h] = target[h]
  PROVE  Kids(o)' = Kids(o)
BY DEF Kids, Nested

LEMMA CanonicalFrame ==
  ASSUME Canonical, pool' \subseteq pool,
         \A o \in pool' : label'[o] = label[o] /\ Kids(o)' = Kids(o)
  PROVE  Canonical'
<1>1. ASSUME NEW o \in pool', NEW p \in pool', Equal(o, p)' PROVE o = p
  <2>1. Equal(o, p)  BY <1>1 DEF Equal
  <2> QED  BY <2>1, <1>1 DEF Canonical
<1> QED  BY <1>1 DEF Canonical

LEMMA CanonicalUnchanged ==
  ASSUME Canonical, pool' \subseteq pool, UNCHANGED <<label, holder, target>>
  PROVE  Canonical'
<1>1. \A o : Kids(o)' = Kids(o)  BY DEF Kids, Nested
<1> QED  BY <1>1, CanonicalFrame

LEMMA InitShape == Init => ShapeInv
<1> SUFFICES ASSUME Init PROVE ShapeInv  OBVIOUS
<1>1. [o \in Obj |-> 0] \in [Obj -> Nat] /\ Ranks([o \in Obj |-> 0])  BY DEF Init, Ranks
<1> QED
  BY <1>1 DEF Init, ShapeInv, AllocKnown, Counted, HandsFree, HolderAlloc, Canonical, Ranked

LEMMA NewShape == ASSUME NEW t \in Thread, IInv, ShapeInv, New(t) PROVE ShapeInv'
<1> USE DEF IInv, ShapeInv
<1>1. PICK o \in Obj \ alloc, l \in Label, h \in Handle :
        \E S \in SUBSET {g \in Handle : Settled(g)} :
         /\ Unused(h)
         /\ alloc' = alloc \cup {o}
         /\ label' = [label EXCEPT ![o] = l]
         /\ count' = [count EXCEPT ![o] = 1]
         /\ holder' = [g \in Handle |-> IF g \in S THEN o ELSE holder[g]]
         /\ obj' = [obj EXCEPT ![t] = o]
         /\ hnd' = [hnd EXCEPT ![t] = h]
         /\ Goto(t, "lock")
  BY DEF New
<1>2. PICK S \in SUBSET {g \in Handle : Settled(g)} :
         /\ Unused(h)
         /\ alloc' = alloc \cup {o}
         /\ label' = [label EXCEPT ![o] = l]
         /\ count' = [count EXCEPT ![o] = 1]
         /\ holder' = [g \in Handle |-> IF g \in S THEN o ELSE holder[g]]
         /\ obj' = [obj EXCEPT ![t] = o]
         /\ hnd' = [hnd EXCEPT ![t] = h]
         /\ pc' = [pc EXCEPT ![t] = "lock"]
  BY <1>1 DEF Goto
<1>3. UNCHANGED <<pool, target, lock, found, doomed>> /\ Free(t)  BY DEF New
<1>4. AllocKnown'
  BY <1>2, <1>3 DEF TypeOK, AllocKnown, Owns, Constructs, Free
<1>5. Counted' /\ HandsFree'
  BY <1>2, <1>3 DEF TypeOK, Counted, HandsFree, Free
<1>6. HolderAlloc'  BY <1>2 DEF HolderAlloc
<1>7. Canonical'
  <2>1. \A p \in pool : p # o /\ p # None
    BY <1>1, FlyweightAssumption DEF TypeOK
  <2>2. \A g \in S : holder[g] = None
    BY <1>2 DEF Settled
  <2>3. ASSUME NEW p \in pool PROVE label'[p] = label[p] /\ Kids(p)' = Kids(p)
    <3>1. label'[p] = label[p]  BY <1>2, <2>1 DEF TypeOK
    <3>2. Kids(p)' = Kids(p)  BY <1>2, <1>3, <2>1, <2>2, KidsFrame
    <3> QED  BY <3>1, <3>2
  <2> QED  BY <2>3, <1>3, CanonicalFrame
<1>8. Ranked'
  <2>1. PICK r \in [Obj -> Nat] : Ranks(r)  BY DEF Ranked
  <2> DEFINE q == [p \in Obj |-> IF p = o THEN 0 ELSE r[p] + 1]
  <2>2. q \in [Obj -> Nat]  BY <2>1
  <2>3. ASSUME NEW g \in Handle, holder'[g] # None PROVE q[holder'[g]] < q[target'[g]]
    <3>1. CASE g \in S
      <4>1. target[g] \in Obj /\ target[g] # o /\ holder'[g] = o
        BY <3>1, <1>1, <1>2, FlyweightAssumption DEF Settled, NoDangling, TypeOK
      <4> QED  BY <4>1, <1>3, <2>1
    <3>2. CASE g \notin S
      <4>1. holder'[g] = holder[g] /\ holder[g] # None  BY <3>2, <2>3, <1>2
      <4>2. holder[g] # o /\ target[g] # o
        BY <4>1, <1>1 DEF HolderAlloc, NoDangling, NestedLive
      <4>3. holder[g] \in Obj /\ target[g] \in Obj  BY <4>1, NestedEnds
      <4>4. r[holder[g]] < r[target[g]]  BY <4>1, <2>1 DEF Ranks
      <4> QED  BY <4>1, <4>2, <4>3, <4>4, <1>3, <2>1
    <3> QED  BY <3>1, <3>2
  <2> HIDE DEF q
  <2> QED  BY <2>2, <2>3 DEF Ranked, Ranks
<1> QED  BY <1>4, <1>5, <1>6, <1>7, <1>8

LEMMA AcquireShape == ASSUME NEW t \in Thread, IInv, ShapeInv, Acquire(t) PROVE ShapeInv'
<1> USE DEF IInv, ShapeInv, Acquire, Lock, WriteLock, mem, Goto
<1>1. AllocKnown'  BY DEF TypeOK, AllocKnown, Owns, Constructs
<1>2. Counted' /\ HandsFree' /\ HolderAlloc'
  BY DEF TypeOK, Counted, HandsFree, HolderAlloc
<1>3. Canonical'  BY CanonicalUnchanged
<1>4. Ranked'  BY RankedFrame
<1> QED  BY <1>1, <1>2, <1>3, <1>4

LEMMA InsertNewShape == ASSUME NEW t \in Thread, IInv, ShapeInv, InsertNew(t) PROVE ShapeInv'
<1> USE DEF IInv, ShapeInv, InsertNew, mem, Goto
<1>0. /\ lock = t /\ obj[t] \in alloc \ pool /\ obj[t] \in Obj /\ obj[t] # None
      /\ hnd[t] \in Handle /\ hnd[t] # None /\ target[hnd[t]] = None /\ count[obj[t]] = 1
      /\ Owns(t) /\ Constructs(t)
  BY FlyweightAssumption
  DEF TypeOK, HoldsLock, OwnedPrivate, Constructed, Owns, Constructs
<1>1. AllocKnown'  BY <1>0 DEF TypeOK, AllocKnown, Owns, Constructs
<1>2. Counted' /\ HandsFree' /\ HolderAlloc'
  BY <1>0 DEF TypeOK, Counted, HandsFree, HolderAlloc
<1>3. \A h \in Handle : holder[h] # None => h # hnd[t]
  BY DEF NestedLive
<1>4. \A h \in Handle : holder[h] # None => target'[h] = target[h]
  BY <1>0, <1>3 DEF TypeOK
<1>5. Canonical'
  <2>1. ASSUME NEW o \in pool' PROVE label'[o] = label[o] /\ Kids(o)' = Kids(o)
    <3>1. o # None  BY <1>0, FlyweightAssumption DEF TypeOK
    <3> QED  BY <3>1, <1>4, KidsFrame
  <2>2. ASSUME NEW o \in pool', NEW p \in pool', Equal(o, p)' PROVE o = p
    <3>1. Equal(o, p) /\ Equal(p, o)  BY <2>1, <2>2 DEF Equal
    <3> QED  BY <3>1 DEF Canonical
  <2> QED  BY <2>2 DEF Canonical
<1>6. Ranked'  BY <1>4, RankedFrame
<1> QED  BY <1>1, <1>2, <1>5, <1>6

LEMMA InsertExistingShape ==
  ASSUME NEW t \in Thread, IInv, ShapeInv, InsertExisting(t) PROVE ShapeInv'
<1> USE DEF IInv, ShapeInv, InsertExisting, mem, Goto
<1>1. AllocKnown'  BY DEF TypeOK, AllocKnown, Owns, Constructs
<1>2. Counted' /\ HandsFree' /\ HolderAlloc'
  BY DEF TypeOK, Counted, HandsFree, HolderAlloc
<1>3. Canonical'  BY CanonicalUnchanged
<1>4. Ranked'  BY RankedFrame
<1> QED  BY <1>1, <1>2, <1>3, <1>4

LEMMA IncrementShape == ASSUME NEW t \in Thread, IInv, ShapeInv, Increment(t) PROVE ShapeInv'
<1> USE DEF IInv, ShapeInv, Increment, mem, Goto
<1>0. found[t] \in Obj /\ hnd[t] \in Handle
  BY DEF TypeOK, Constructed, Constructs, InPool
<1>1. AllocKnown'  BY DEF TypeOK, AllocKnown, Owns, Constructs
<1>2. Counted' /\ HandsFree' /\ HolderAlloc'
  BY <1>0 DEF TypeOK, Counted, HandsFree, HolderAlloc
<1>3. \A h \in Handle : holder[h] # None => target'[h] = target[h]
  BY <1>0 DEF TypeOK, NestedLive
<1>4. Canonical'
  <2>1. ASSUME NEW o \in pool' PROVE label'[o] = label[o] /\ Kids(o)' = Kids(o)
    <3>1. o # None  BY FlyweightAssumption DEF TypeOK
    <3> QED  BY <3>1, <1>3, KidsFrame
  <2> QED  BY <2>1, CanonicalFrame
<1>5. Ranked'  BY <1>3, RankedFrame
<1> QED  BY <1>1, <1>2, <1>4, <1>5

LEMMA DeleteShape == ASSUME NEW t \in Thread, IInv, ShapeInv, Delete(t) PROVE ShapeInv'
<1> USE DEF IInv, ShapeInv, Delete, Goto
<1>0. /\ obj[t] \in alloc \ pool /\ obj[t] \in Obj /\ obj[t] # None /\ Owns(t)
  BY FlyweightAssumption DEF TypeOK, OwnedPrivate, Owns
<1>1. AllocKnown'
  <2>1. ASSUME NEW o \in alloc', o \notin pool' PROVE (\E u \in Thread : Owns(u) /\ obj[u] = o)'
    <3>1. PICK u \in Thread : Owns(u) /\ obj[u] = o  BY <2>1 DEF AllocKnown
    <3>2. u # t  BY <2>1, <3>1
    <3> QED  BY <3>1, <3>2 DEF TypeOK, Owns, Constructs
  <2> QED  BY <2>1 DEF AllocKnown
<1>2. Counted' /\ HandsFree' /\ HolderAlloc'
  BY <1>0 DEF TypeOK, Counted, HandsFree, HolderAlloc
<1>3. Canonical'
  <2>1. ASSUME NEW o \in pool' PROVE label'[o] = label[o] /\ Kids(o)' = Kids(o)
    <3>1. o # None /\ o # obj[t]  BY <1>0, FlyweightAssumption DEF TypeOK
    <3> QED  BY <3>1, KidsFrame
  <2> QED  BY <2>1, CanonicalFrame
<1>4. Ranked'  BY RankedFrame
<1> QED  BY <1>1, <1>2, <1>3, <1>4

LEMMA CopyShape == ASSUME NEW t \in Thread, IInv, ShapeInv, Copy(t) PROVE ShapeInv'
<1> USE DEF IInv, ShapeInv, mem, loc
<1>1. PICK g \in Handle, h \in Handle :
        /\ Reachable(g) /\ Unused(h)
        /\ target' = [target EXCEPT ![h] = target[g]]
        /\ count' = [count EXCEPT ![target[g]] = @ + 1]
  BY DEF Copy
<1>2. UNCHANGED <<mem, pool, lock, loc>>  BY DEF Copy
<1>3. target[g] \in Obj
  BY <1>1, ReachableLive DEF TypeOK
<1>4. \A k \in Handle : holder[k] # None => target'[k] = target[k]
  BY <1>1 DEF Unused, NestedLive, TypeOK
<1>5. AllocKnown' /\ HandsFree' /\ HolderAlloc'
  BY <1>2 DEF AllocKnown, Owns, Constructs, HandsFree, HolderAlloc
<1>6. Counted'
  BY <1>1, <1>2, <1>3 DEF TypeOK, Counted
<1>7. Canonical'
  <2>1. ASSUME NEW o \in pool' PROVE label'[o] = label[o] /\ Kids(o)' = Kids(o)
    <3>1. o # None  BY <1>2, FlyweightAssumption DEF TypeOK
    <3> QED  BY <3>1, <1>2, <1>4, KidsFrame
  <2> QED  BY <1>2, <2>1, CanonicalFrame
<1>8. Ranked'  BY <1>2, <1>4, RankedFrame
<1> QED  BY <1>5, <1>6, <1>7, <1>8

LEMMA DestroyShape == ASSUME NEW t \in Thread, IInv, ShapeInv, Destroy(t) PROVE ShapeInv'
<1> USE DEF IInv, ShapeInv, Destroy, mem, Goto
<1>1. AllocKnown'  BY DEF TypeOK, AllocKnown, Owns, Constructs
<1>2. Counted' /\ HandsFree' /\ HolderAlloc'
  BY DEF TypeOK, Counted, HandsFree, HolderAlloc
<1>3. Canonical'  BY CanonicalUnchanged
<1>4. Ranked'  BY RankedFrame
<1> QED  BY <1>1, <1>2, <1>3, <1>4

LEMMA DecrementShape == ASSUME NEW t \in Thread, IInv, ShapeInv, Decrement(t) PROVE ShapeInv'
<1> USE DEF IInv, ShapeInv, mem, Goto
<1>1. PICK h \in Handle, o \in Obj : h = hnd[t] /\ target[h] = o /\ o \in pool /\ h # None
  BY FlyweightAssumption DEF Decrement, Destroyed, Destroys, TypeOK, NoDangling
<1>2. /\ pc[t] = "dec" /\ pc' = [pc EXCEPT ![t] = "test"]
      /\ count' = [count EXCEPT ![o] = @ - 1]
      /\ target' = [target EXCEPT ![h] = None]
      /\ obj' = [obj EXCEPT ![t] = o]
      /\ hnd' = [hnd EXCEPT ![t] = None]
      /\ UNCHANGED <<mem, pool, lock, found>>
  BY <1>1 DEF Decrement
<1>3. AllocKnown'  BY <1>2 DEF TypeOK, AllocKnown, Owns, Constructs
<1>4. Counted' /\ HandsFree' /\ HolderAlloc'
  BY <1>2 DEF TypeOK, Counted, HandsFree, HolderAlloc
<1>5. \A k \in Handle : holder[k] # None => target'[k] = target[k]
  BY <1>1, <1>2 DEF NestedLive, TypeOK
<1>6. Canonical'
  <2>1. ASSUME NEW p \in pool' PROVE label'[p] = label[p] /\ Kids(p)' = Kids(p)
    <3>1. p # None  BY <1>2, FlyweightAssumption DEF TypeOK
    <3> QED  BY <3>1, <1>2, <1>5, KidsFrame
  <2> QED  BY <1>2, <2>1, CanonicalFrame
<1>7. Ranked'  BY <1>2, <1>5, RankedFrame
<1> QED  BY <1>3, <1>4, <1>6, <1>7

LEMMA EraseLastShape == ASSUME NEW t \in Thread, IInv, ShapeInv, EraseLast(t) PROVE ShapeInv'
<1> USE DEF IInv, ShapeInv, EraseLast, mem, Goto
<1>1. AllocKnown'  BY DEF TypeOK, AllocKnown, Owns, Constructs
<1>2. Counted' /\ HandsFree' /\ HolderAlloc'
  BY DEF TypeOK, Counted, HandsFree, HolderAlloc
<1>3. Canonical'  BY CanonicalUnchanged
<1>4. Ranked'  BY RankedFrame
<1> QED  BY <1>1, <1>2, <1>3, <1>4

LEMMA KeepSharedShape == ASSUME NEW t \in Thread, IInv, ShapeInv, KeepShared(t) PROVE ShapeInv'
<1> USE DEF IInv, ShapeInv, KeepShared, mem, Goto
<1>1. AllocKnown'  BY DEF TypeOK, AllocKnown, Owns, Constructs
<1>2. Counted' /\ HandsFree' /\ HolderAlloc'
  BY DEF TypeOK, Counted, HandsFree, HolderAlloc
<1>3. Canonical'  BY CanonicalUnchanged
<1>4. Ranked'  BY RankedFrame
<1> QED  BY <1>1, <1>2, <1>3, <1>4

(* Any number of threads keep the pool in shape.                           *)
LEMMA ShapeInvariant == Spec => []ShapeInv
<1>1. IInv /\ ShapeInv /\ [Next]_vars => ShapeInv'
  <2> SUFFICES ASSUME IInv, ShapeInv, [Next]_vars PROVE ShapeInv'
    OBVIOUS
  <2>1. CASE UNCHANGED vars
    <3>1. Canonical' /\ Ranked'  BY <2>1, CanonicalUnchanged, RankedFrame DEF vars, ShapeInv
    <3> QED
      BY <2>1, <3>1
      DEF vars, ShapeInv, AllocKnown, Counted, HandsFree, HolderAlloc, Owns, Constructs
  <2>2. ASSUME NEW t \in Thread, Call(t) \/ Acquire(t) \/ Run(t) PROVE ShapeInv'
    BY <2>2, NewShape, CopyShape, DestroyShape, AcquireShape, InsertNewShape,
       InsertExistingShape, IncrementShape, DeleteShape, DecrementShape, EraseLastShape,
       KeepSharedShape
    DEF Call, Run
  <2> QED  BY <2>1, <2>2 DEF Next
<1> QED  BY IInvInductive, InitShape, <1>1, PTL DEF Spec

-----------------------------------------------------------------------------
(* Without a settled handle every object is nested in another one, and the *)
(* one with the least rank cannot be.                                      *)
LEMMA NothingLeft == IInv /\ ShapeInv => NoLeak
<1> SUFFICES ASSUME IInv, ShapeInv, \A t \in Thread : Free(t), \A h \in Handle : ~Settled(h),
                    alloc # {}
             PROVE  FALSE
  BY DEF NoLeak, IInv
<1> USE DEF IInv, ShapeInv
<1>1. \A t \in Thread : pc[t] = "idle" /\ hnd[t] = None /\ doomed[t] = {}
  BY DEF Free, HandsFree
<1>2. ASSUME NEW o \in alloc
      PROVE  \E h \in Handle : target[h] = o /\ holder[h] # None /\ holder[h] \in alloc
  <2>1. o \in pool /\ o # None
    BY <1>1, FlyweightAssumption DEF AllocKnown, Owns, Constructs, TypeOK
  <2>2. count[o] # 0  BY <2>1, <1>1 DEF Counted
  <2>3. Refs(o) # {}  BY <2>1, <2>2, FS_EmptySet DEF CountsHandles
  <2>4. PICK h \in Handle : target[h] = o  BY <2>3 DEF Refs
  <2>5. h # None  BY FlyweightAssumption
  <2>6. holder[h] # None  BY <2>1, <2>4, <2>5, <1>1 DEF Settled
  <2> QED  BY <2>4, <2>6 DEF HolderAlloc
<1>3. PICK r \in [Obj -> Nat] : Ranks(r)  BY DEF Ranked
<1> DEFINE T == {r[o] : o \in alloc}
<1>4. T \subseteq Nat /\ T # {}  BY <1>3 DEF TypeOK
<1> HIDE DEF T
<1>5. PICK x \in T : \A y \in T : x <= y  BY <1>4, NatMin
<1>6. PICK o \in alloc : x = r[o]  BY DEF T
<1>7. PICK h \in Handle : target[h] = o /\ holder[h] # None /\ holder[h] \in alloc  BY <1>2
<1>8. r[holder[h]] < r[o] /\ r[holder[h]] \in T  BY <1>3, <1>7 DEF Ranks, T
<1>9. r[holder[h]] \in Nat /\ r[o] \in Nat  BY <1>4, <1>8, <1>6
<1> QED  BY <1>5, <1>6, <1>8, <1>9

(* When the program has given up its handles nothing is left in the pool   *)
(* or in memory, with any number of threads: nested objects go, too.       *)
THEOREM FlyweightNoLeak == Spec => []NoLeak
BY IInvInductive, ShapeInvariant, NothingLeft, PTL

-----------------------------------------------------------------------------
(* The recursion of Value is well defined.                                 *)
LEMMA ValueDef ==
  Value = [n \in 0 .. Cardinality(Obj) |->
            [o \in Obj |-> IF n = 0 THEN <<label[o], {}>>
                           ELSE <<label[o], {Value[n - 1][k] : k \in Kids(o)}>>]]
<1> DEFINE D(f, n) == [o \in Obj |-> IF n = 0 THEN <<label[o], {}>>
                                     ELSE <<label[o], {f[n - 1][k] : k \in Kids(o)}>>]
           T == {m \in Nat : \E f : f = [n \in 0 .. m |-> D(f, n)]}
<1>1. 0 \in T
  <2> DEFINE g == [n \in 0 .. 0 |-> D(<<>>, n)]
  <2>1. \A n \in 0 .. 0 : D(g, n) = D(<<>>, n)  OBVIOUS
  <2> HIDE DEF D
  <2>2. g = [n \in 0 .. 0 |-> D(g, n)]  BY <2>1
  <2> HIDE DEF g
  <2> QED  BY <2>2
<1>2. ASSUME NEW m \in T PROVE m + 1 \in T
  <2>1. m \in Nat  OBVIOUS
  <2>2. PICK f : f = [n \in 0 .. m |-> D(f, n)]  BY Zenon
  <2> DEFINE g == [n \in 0 .. m + 1 |-> D(f, n)]
  <2>3. ASSUME NEW n \in 0 .. m + 1 PROVE D(f, n) = D(g, n)
    <3>1. CASE n = 0  BY <3>1
    <3>2. CASE n # 0
      <4>1. n - 1 \in 0 .. m /\ n - 1 \in 0 .. m + 1  BY <2>1, <3>2
      <4> HIDE DEF D
      <4>2. f[n - 1] = D(f, n - 1)  BY <2>2, <4>1
      <4>3. g[n - 1] = D(f, n - 1)  BY <4>1
      <4> HIDE DEF g
      <4>4. f[n - 1] = g[n - 1]  BY <4>2, <4>3
      <4> QED  BY <3>2, <4>4 DEF D
    <3> QED  BY <3>1, <3>2
  <2> HIDE DEF D
  <2>4. g = [n \in 0 .. m + 1 |-> D(g, n)]  BY <2>3
  <2> HIDE DEF g
  <2>5. \E h : h = [n \in 0 .. m + 1 |-> D(h, n)]  BY <2>4
  <2>6. m + 1 \in Nat  BY <2>1
  <2> QED  BY <2>5, <2>6
<1> HIDE DEF D
<1>3. T \subseteq Nat  OBVIOUS
<1> HIDE DEF T
<1>4. T = Nat  BY <1>1, <1>2, <1>3, NatInd
<1>5. Cardinality(Obj) \in Nat  BY FlyweightAssumption, FS_CardinalityType
<1>6. \E f : f = [n \in 0 .. Cardinality(Obj) |-> D(f, n)]  BY <1>4, <1>5 DEF T
<1> QED  BY <1>6, Zenon DEF Value, D

(* What the value of depth n + 1 says about label and children.            *)
LEMMA ValueStep ==
  ASSUME NEW n \in Nat, n + 1 <= Cardinality(Obj), NEW o \in Obj, NEW p \in Obj,
         Value[n + 1][o] = Value[n + 1][p]
  PROVE  /\ label[o] = label[p]
         /\ {Value[n][k] : k \in Kids(o)} = {Value[n][k] : k \in Kids(p)}
<1>0. Cardinality(Obj) \in Nat  BY FlyweightAssumption, FS_CardinalityType
<1>1. n + 1 \in 0 .. Cardinality(Obj) /\ n + 1 # 0 /\ (n + 1) - 1 = n  BY <1>0
<1>2. \A q \in Obj : Value[n + 1][q] = <<label[q], {Value[n][k] : k \in Kids(q)}>>
  <2> DEFINE W == [m \in 0 .. Cardinality(Obj) |->
                    [q \in Obj |-> IF m = 0 THEN <<label[q], {}>>
                                   ELSE <<label[q], {Value[m - 1][k] : k \in Kids(q)}>>]]
  <2>1. \A q \in Obj : W[n + 1][q] = <<label[q], {Value[n][k] : k \in Kids(q)}>>
    BY <1>1
  <2>2. Value = W  BY ValueDef
  <2> HIDE DEF W
  <2> QED  BY <2>1, <2>2
<1>3. <<label[o], {Value[n][k] : k \in Kids(o)}>> = <<label[p], {Value[n][k] : k \in Kids(p)}>>
  BY <1>2
<1> QED  BY <1>3

(* Pooled objects that differ but have the same value up to depth n have a *)
(* chain of n + 1 objects nested in each other below them.                 *)
TwinsDeep(r, n) ==
  \A o, p \in pool : o # p /\ Value[n][o] = Value[n][p] =>
    \E S \in SUBSET Obj : Cardinality(S) = n + 1 /\ \A s \in S : r[o] <= r[s]

(* The children of a pooled object are pooled and rank above it.           *)
LEMMA KidsAbove ==
  ASSUME IInv, NEW r \in [Obj -> Nat], Ranks(r), NEW o \in pool, NEW k \in Kids(o)
  PROVE  k \in pool /\ r[o] < r[k]
<1>1. PICK h \in Handle : holder[h] = o /\ target[h] = k  BY DEF Kids, Nested
<1>2. holder[h] # None /\ target[h] # None
  BY <1>1, FlyweightAssumption DEF IInv, TypeOK, NestedLive
<1> QED  BY <1>1, <1>2 DEF IInv, NoDangling, Ranks

LEMMA TwinsStep ==
  ASSUME IInv, Canonical, NEW r \in [Obj -> Nat], Ranks(r),
         NEW n \in Nat, n + 1 <= Cardinality(Obj), TwinsDeep(r, n)
  PROVE  TwinsDeep(r, n + 1)
<1> SUFFICES ASSUME NEW o \in pool, NEW p \in pool, o # p, Value[n + 1][o] = Value[n + 1][p]
             PROVE  \E S \in SUBSET Obj : Cardinality(S) = (n + 1) + 1 /\ \A s \in S : r[o] <= r[s]
  BY DEF TwinsDeep
<1>0. pool \subseteq Obj  BY DEF IInv, TypeOK
<1>1. label[o] = label[p] /\ {Value[n][k] : k \in Kids(o)} = {Value[n][k] : k \in Kids(p)}
  BY <1>0, ValueStep
<1>2. Kids(o) # Kids(p)  BY <1>1 DEF Canonical, Equal
<1>3. \E k \in Kids(o), l \in Kids(p) : k # l /\ Value[n][k] = Value[n][l]
  <2>1. CASE \E k \in Kids(o) : k \notin Kids(p)
    <3>1. PICK k \in Kids(o) : k \notin Kids(p)  BY <2>1
    <3>2. Value[n][k] \in {Value[n][l] : l \in Kids(p)}  BY <1>1
    <3> QED  BY <3>1, <3>2
  <2>2. CASE \E l \in Kids(p) : l \notin Kids(o)
    <3>1. PICK l \in Kids(p) : l \notin Kids(o)  BY <2>2
    <3>2. Value[n][l] \in {Value[n][k] : k \in Kids(o)}  BY <1>1
    <3> QED  BY <3>1, <3>2
  <2> QED  BY <1>2, <2>1, <2>2
<1>4. PICK k \in Kids(o), l \in Kids(p) : k # l /\ Value[n][k] = Value[n][l]  BY <1>3
<1>5. k \in pool /\ l \in pool /\ r[o] < r[k]  BY KidsAbove
<1>6. PICK S \in SUBSET Obj : Cardinality(S) = n + 1 /\ \A s \in S : r[k] <= r[s]
  BY <1>4, <1>5 DEF TwinsDeep
<1>7. \A s \in S \cup {o} : r[o] <= r[s]
  <2>1. \A s \in S : r[s] \in Nat /\ r[k] <= r[s]  BY <1>6
  <2>2. r[o] \in Nat /\ r[k] \in Nat  BY <1>0, <1>5
  <2> QED  BY <2>1, <2>2, <1>5
<1>8. o \notin S
  <2>1. r[o] \in Nat /\ r[k] \in Nat  BY <1>0, <1>5
  <2> QED  BY <2>1, <1>5, <1>6
<1>9. Cardinality(S \cup {o}) = (n + 1) + 1
  <2>1. IsFiniteSet(S)  BY FlyweightAssumption, FS_Subset
  <2> QED  BY <2>1, <1>6, <1>8, FS_AddElement
<1>10. S \cup {o} \in SUBSET Obj  BY <1>0
<1> QED  BY <1>7, <1>9, <1>10

LEMMA TwinsAlways ==
  ASSUME IInv, Canonical, NEW r \in [Obj -> Nat], Ranks(r)
  PROVE  \A n \in Nat : n <= Cardinality(Obj) => TwinsDeep(r, n)
<1> DEFINE T == {n \in Nat : n <= Cardinality(Obj) => TwinsDeep(r, n)}
<1>0. Cardinality(Obj) \in Nat  BY FlyweightAssumption, FS_CardinalityType
<1>1. 0 \in T
  <2>1. ASSUME NEW o \in pool
        PROVE  \E S \in SUBSET Obj : Cardinality(S) = 0 + 1 /\ \A s \in S : r[o] <= r[s]
    <3>1. o \in Obj /\ r[o] \in Nat  BY DEF IInv, TypeOK
    <3>2. Cardinality({o}) = 0 + 1  BY FS_Singleton
    <3>3. {o} \in SUBSET Obj /\ \A s \in {o} : r[o] <= r[s]  BY <3>1
    <3> QED  BY <3>2, <3>3
  <2> QED  BY <2>1 DEF TwinsDeep
<1>2. ASSUME NEW n \in Nat, n \in T PROVE n + 1 \in T
  <2>1. ASSUME n + 1 <= Cardinality(Obj) PROVE TwinsDeep(r, n + 1)
    <3>1. TwinsDeep(r, n)  BY <1>0, <1>2, <2>1
    <3> QED  BY <2>1, <3>1, TwinsStep
  <2> QED  BY <2>1
<1> HIDE DEF T
<1>3. T = Nat
  <2>1. T \subseteq Nat  BY DEF T
  <2> QED  BY <1>1, <1>2, <2>1, NatInd
<1> QED  BY <1>3 DEF T

(* There are not so many objects.                                          *)
LEMMA CanonicalIsDeep == IInv /\ ShapeInv => DeepCanonical
<1> SUFFICES ASSUME IInv, ShapeInv, NEW o \in pool, NEW p \in pool,
                    Value[Cardinality(Obj)][o] = Value[Cardinality(Obj)][p], o # p
             PROVE  FALSE
  BY DEF DeepCanonical
<1>0. Cardinality(Obj) \in Nat  BY FlyweightAssumption, FS_CardinalityType
<1>1. PICK r \in [Obj -> Nat] : Ranks(r)  BY DEF ShapeInv, Ranked
<1>2. TwinsDeep(r, Cardinality(Obj))
  BY <1>0, <1>1, TwinsAlways DEF ShapeInv
<1>3. PICK S \in SUBSET Obj : Cardinality(S) = Cardinality(Obj) + 1  BY <1>2 DEF TwinsDeep
<1>4. Cardinality(S) <= Cardinality(Obj)  BY FlyweightAssumption, FS_Subset
<1> QED  BY <1>0, <1>3, <1>4

(* Pooled objects that are equal all the way down have the same address,   *)
(* whatever threads are inserting or deleting in the meantime.             *)
THEOREM FlyweightDeepCanonical == Spec => []DeepCanonical
BY IInvInductive, ShapeInvariant, CanonicalIsDeep, PTL
=============================================================================
