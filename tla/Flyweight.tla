----------------------------- MODULE Flyweight ------------------------------
(***************************************************************************)
(* The pool of shared objects behind every game, assignment and move       *)
(* (flyweight.h): equal objects are stored once, each with a counter of    *)
(* the Flyweight handles that refer to it.  The last handle to go takes    *)
(* the object with it, and with the object the handles nested in it, whose *)
(* destructors use the same pool.  Threads interleave between the actions  *)
(* of the build with TBB; with one thread this is the build without.       *)
(*                                                                         *)
(* An object is a label (its class and plain members) and the set of       *)
(* objects its nested handles refer to; operator== compares both, the      *)
(* nested handles by the address of what they refer to.                    *)
(***************************************************************************)
EXTENDS Naturals, FiniteSets

CONSTANTS
  Thread,
  Obj,       (* addresses of heap objects                                   *)
  Handle,    (* Flyweight instances                                         *)
  Label,
  None       (* no object, no handle, nobody                                *)

ASSUME FlyweightAssumption ==
  /\ IsFiniteSet(Obj) /\ IsFiniteSet(Handle)
  /\ None \notin Thread /\ None \notin Obj /\ None \notin Handle

VARIABLES
  alloc,     (* objects that exist, each with its counter                   *)
  label,     (* their labels                                                *)
  pool,      (* objects in the pool                                         *)
  count,     (* the counter _handle->second points to                       *)
  target,    (* the object each handle refers to, None for an unused handle *)
  holder,    (* the object a handle is nested in, None: the program has it  *)
  lock,      (* the thread that holds the pool's mutex                      *)
  pc,        (* where each thread is                                        *)
  obj,       (* the object a thread is adding or removing                   *)
  found,     (* the equal object insert() came upon                         *)
  hnd,       (* the handle a thread is constructing or destroying           *)
  doomed     (* handles that were nested in an object the thread deleted    *)

mem == <<alloc, label, holder>>
loc == <<pc, obj, found, hnd, doomed>>
vars == <<alloc, label, pool, count, target, holder, lock, pc, obj, found, hnd, doomed>>

Refs(o) == {h \in Handle : target[h] = o}
Nested(o) == {h \in Handle : holder[h] = o}
Kids(o) == {target[h] : h \in Nested(o)}

(* Mutant of Equal: the counters are compared too.                         *)
EqualWithCounter(o, p) ==
  label[o] = label[p] /\ Kids(o) = Kids(p) /\ count[o] = count[p]

Equal(o, p) == label[o] = label[p] /\ Kids(o) = Kids(p)

Unused(h) == target[h] = None /\ \A t \in Thread : hnd[t] # h

(* A handle the program has, whose constructor has returned and whose      *)
(* destructor has not been called.                                         *)
Settled(h) ==
  /\ target[h] # None /\ holder[h] = None
  /\ \A t \in Thread : hnd[t] # h /\ h \notin doomed[t]

(* A handle that may be copied: one the program has, or one nested in an   *)
(* object the program has a handle for.                                    *)
Reachable(h) ==
  \/ Settled(h)
  \/ holder[h] # None /\ \E g \in Handle : Settled(g) /\ target[g] = holder[h]

Free(t) == pc[t] = "idle" /\ doomed[t] = {}

Init ==
  /\ alloc = {}
  /\ label \in [Obj -> Label]
  /\ pool = {}
  /\ count = [o \in Obj |-> 0]
  /\ target = [h \in Handle |-> None]
  /\ holder = [h \in Handle |-> None]
  /\ lock = None
  /\ pc = [t \in Thread |-> "idle"]
  /\ obj = [t \in Thread |-> None]
  /\ found = [t \in Thread |-> None]
  /\ hnd = [t \in Thread |-> None]
  /\ doomed = [t \in Thread |-> {}]

Goto(t, l) == pc' = [pc EXCEPT ![t] = l]

-----------------------------------------------------------------------------

(* Flyweight(const Type* entry): the program passes a new object, into     *)
(* which it has moved handles of its own.                                  *)
New(t) ==
  /\ Free(t)
  /\ \E o \in Obj \ alloc, l \in Label, h \in Handle :
       \E S \in SUBSET {g \in Handle : Settled(g)} :
         /\ Unused(h)
         /\ alloc' = alloc \cup {o}
         /\ label' = [label EXCEPT ![o] = l]
         /\ count' = [count EXCEPT ![o] = 1]
         /\ holder' = [g \in Handle |-> IF g \in S THEN o ELSE holder[g]]
         /\ obj' = [obj EXCEPT ![t] = o]
         /\ hnd' = [hnd EXCEPT ![t] = h]
         /\ Goto(t, "lock")
  /\ UNCHANGED <<pool, target, lock, found, doomed>>

(* Mutex::scoped_lock lock(mutex()): exclusive unless told otherwise.      *)
Lock(t) ==
  /\ pc[t] = "lock" /\ lock = None
  /\ lock' = t
  /\ Goto(t, "insert")
  /\ UNCHANGED <<mem, pool, count, target, obj, found, hnd, doomed>>

(* pool().insert(p) of an object that is new; the constructor returns.     *)
InsertNew(t) ==
  /\ pc[t] = "insert"
  /\ \A o \in pool : ~Equal(o, obj[t])
  /\ pool' = pool \cup {obj[t]}
  /\ target' = [target EXCEPT ![hnd[t]] = obj[t]]
  /\ lock' = None
  /\ hnd' = [hnd EXCEPT ![t] = None]
  /\ obj' = [obj EXCEPT ![t] = None]
  /\ Goto(t, "idle")
  /\ UNCHANGED <<mem, count, found, doomed>>

InsertExisting(t) ==
  /\ pc[t] = "insert"
  /\ \E o \in pool : Equal(o, obj[t]) /\ found' = [found EXCEPT ![t] = o]
  /\ Goto(t, "inc")
  /\ UNCHANGED <<mem, pool, count, target, lock, obj, hnd, doomed>>

(* Mutants of Increment: the counter is left alone; the lock is kept.      *)
IncrementNot(t) ==
  /\ pc[t] = "inc"
  /\ target' = [target EXCEPT ![hnd[t]] = found[t]]
  /\ lock' = None
  /\ hnd' = [hnd EXCEPT ![t] = None]
  /\ found' = [found EXCEPT ![t] = None]
  /\ Goto(t, "delete")
  /\ UNCHANGED <<mem, pool, count, obj, doomed>>

(* The counter of the object found goes up; lock.release().                *)
Increment(t) ==
  /\ pc[t] = "inc"
  /\ count' = [count EXCEPT ![found[t]] = @ + 1]
  /\ target' = [target EXCEPT ![hnd[t]] = found[t]]
  /\ lock' = None
  /\ hnd' = [hnd EXCEPT ![t] = None]
  /\ found' = [found EXCEPT ![t] = None]
  /\ Goto(t, "delete")
  /\ UNCHANGED <<mem, pool, obj, doomed>>

(* Mutant of Delete: the nested handles are not destroyed.                 *)
DeleteShallow(t) ==
  /\ pc[t] = "delete"
  /\ alloc' = alloc \ {obj[t]}
  /\ obj' = [obj EXCEPT ![t] = None]
  /\ Goto(t, "idle")
  /\ UNCHANGED <<label, pool, count, target, lock, found, hnd, doomed, holder>>

(* delete of an object and its counter: its nested handles are destroyed   *)
(* next, by this thread.                                                   *)
Delete(t) ==
  /\ pc[t] = "delete"
  /\ alloc' = alloc \ {obj[t]}
  /\ holder' = [h \in Handle |-> IF holder[h] = obj[t] THEN None ELSE holder[h]]
  /\ doomed' = [doomed EXCEPT ![t] = @ \cup Nested(obj[t])]
  /\ obj' = [obj EXCEPT ![t] = None]
  /\ Goto(t, "idle")
  /\ UNCHANGED <<label, pool, count, target, lock, found, hnd>>

-----------------------------------------------------------------------------
(* Flyweight(const Flyweight& other): takes no lock.                       *)
Copy(t) ==
  /\ Free(t)
  /\ \E g \in Handle, h \in Handle :
       /\ Reachable(g) /\ Unused(h)
       /\ target' = [target EXCEPT ![h] = target[g]]
       /\ count' = [count EXCEPT ![target[g]] = @ + 1]
  /\ UNCHANGED <<mem, pool, lock, loc>>

-----------------------------------------------------------------------------
(* ~Flyweight(), of a handle of the program's or one left by Delete.       *)
Destroy(t) ==
  /\ pc[t] = "idle"
  /\ \E h \in Handle :
       /\ IF doomed[t] = {} THEN Settled(h) ELSE h \in doomed[t]
       /\ hnd' = [hnd EXCEPT ![t] = h]
  /\ Goto(t, "wlock")
  /\ UNCHANGED <<mem, pool, count, target, lock, obj, found, doomed>>

WriteLock(t) ==
  /\ pc[t] = "wlock" /\ lock = None
  /\ lock' = t
  /\ Goto(t, "dec")
  /\ UNCHANGED <<mem, pool, count, target, obj, found, hnd, doomed>>

Decrement(t) ==
  LET o == target[hnd[t]] IN
  /\ pc[t] = "dec"
  /\ count' = [count EXCEPT ![o] = @ - 1]
  /\ target' = [target EXCEPT ![hnd[t]] = None]
  /\ obj' = [obj EXCEPT ![t] = o]
  /\ doomed' = [doomed EXCEPT ![t] = @ \ {hnd[t]}]
  /\ hnd' = [hnd EXCEPT ![t] = None]
  /\ Goto(t, "test")
  /\ UNCHANGED <<mem, pool, lock, found>>

(* Mutant of EraseLast: the last but one handle takes the object with it.  *)
EraseLastButOne(t) ==
  /\ pc[t] = "test" /\ count[obj[t]] <= 1
  /\ pool' = pool \ {obj[t]}
  /\ lock' = None
  /\ Goto(t, "delete")
  /\ UNCHANGED <<mem, count, target, obj, found, hnd, doomed>>

(* unsafe_erase() and lock.release(), before the object is deleted         *)
EraseLast(t) ==
  /\ pc[t] = "test" /\ count[obj[t]] = 0
  /\ pool' = pool \ {obj[t]}
  /\ lock' = None
  /\ Goto(t, "delete")
  /\ UNCHANGED <<mem, count, target, obj, found, hnd, doomed>>

KeepShared(t) ==
  /\ pc[t] = "test" /\ count[obj[t]] # 0
  /\ lock' = None
  /\ obj' = [obj EXCEPT ![t] = None]
  /\ Goto(t, "idle")
  /\ UNCHANGED <<mem, pool, count, target, found, hnd, doomed>>

-----------------------------------------------------------------------------
Acquire(t) == Lock(t) \/ WriteLock(t)

Run(t) ==
  \/ InsertNew(t) \/ InsertExisting(t) \/ Increment(t) \/ Delete(t)
  \/ Decrement(t) \/ EraseLast(t) \/ KeepShared(t)
  \/ (doomed[t] # {} /\ Destroy(t))

Call(t) == New(t) \/ Copy(t) \/ (doomed[t] = {} /\ Destroy(t))

Next == \E t \in Thread : Call(t) \/ Acquire(t) \/ Run(t)

(* A thread that is in a constructor or destructor keeps running, and      *)
(* tbb::queuing_rw_mutex serves those who wait in their order.  What the   *)
(* program calls next is its own business.                                 *)
Spec == Init /\ [][Next]_vars
             /\ \A t \in Thread : WF_vars(Run(t)) /\ SF_vars(Acquire(t))

-----------------------------------------------------------------------------
Labels == {"idle", "lock", "insert", "inc", "delete", "wlock", "dec", "test"}

TypeOK ==
  /\ alloc \subseteq Obj
  /\ label \in [Obj -> Label]
  /\ pool \subseteq Obj
  /\ count \in [Obj -> Nat]
  /\ target \in [Handle -> Obj \cup {None}]
  /\ holder \in [Handle -> Obj \cup {None}]
  /\ lock \in Thread \cup {None}
  /\ pc \in [Thread -> Labels]
  /\ obj \in [Thread -> Obj \cup {None}]
  /\ found \in [Thread -> Obj \cup {None}]
  /\ hnd \in [Thread -> Handle \cup {None}]
  /\ doomed \in [Thread -> SUBSET Handle]

(***************************************************************************)
(* No handle outlives its object, in the pool and in memory, in spite of   *)
(* copies that take no lock: the claim of the copy constructor's comment.  *)
(***************************************************************************)
NoDangling == \A h \in Handle : target[h] # None => target[h] \in pool \cap alloc

(* The counter is the number of handles.                                   *)
CountsHandles == \A o \in pool : count[o] = Cardinality(Refs(o))

(***************************************************************************)
(* The guarantee flyweight_inheritance.h relies on: objects in the pool    *)
(* that are equal all the way down have the same address.                  *)
(***************************************************************************)
Value[n \in 0 .. Cardinality(Obj)] ==
  [o \in Obj |-> IF n = 0 THEN <<label[o], {}>>
                 ELSE <<label[o], {Value[n - 1][k] : k \in Kids(o)}>>]

DeepCanonical ==
  \A o, p \in pool :
    Value[Cardinality(Obj)][o] = Value[Cardinality(Obj)][p] => o = p

(***************************************************************************)
(* When the program has given up its handles and no destructor is running, *)
(* nothing is left: nested objects are not leaked.                         *)
(***************************************************************************)
NoLeak ==
  (\A t \in Thread : Free(t)) /\ (\A h \in Handle : ~Settled(h))
     => pool = {} /\ alloc = {}

=============================================================================
