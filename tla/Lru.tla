-------------------------------- MODULE Lru ---------------------------------
(***************************************************************************)
(* What the caches of the game algorithms promise: a bounded map that      *)
(* drops what was used least recently.  A lookup is a use; storing a key   *)
(* that is there already is not, and does not replace its value.  A new    *)
(* limit takes effect at the next store, a limit of 0 stops all storing.   *)
(***************************************************************************)
EXTENDS Naturals, SequencesExt

CONSTANTS
  Key, Value,
  Limits,       (* the sizes resize() is called with                        *)
  DefaultLimit, (* CACHE_DEFAULT_SIZE                                       *)
  NoValue       (* the NULL a lookup returns when it finds nothing          *)

VARIABLES
  queue,     (* the entries, least recently used first                      *)
  limit,
  storing,   (* a store has entries to drop before it returns               *)
  answer     (* what the last lookup returned                               *)

vars == <<queue, limit, storing, answer>>

Init ==
  /\ queue = <<>>
  /\ limit = DefaultLimit
  /\ storing = FALSE
  /\ answer = NoValue

Cached(k) == \E i \in 1 .. Len(queue) : queue[i].key = k

Hit(k) ==
  /\ ~storing
  /\ \E i \in 1 .. Len(queue) :
       /\ queue[i].key = k
       /\ answer' = queue[i].value
       /\ queue' = Append(RemoveAt(queue, i), queue[i])
  /\ UNCHANGED <<limit, storing>>

Miss(k) ==
  /\ ~storing /\ ~Cached(k)
  /\ answer' = NoValue
  /\ UNCHANGED <<queue, limit, storing>>

Store(k, v) ==
  /\ ~storing /\ limit # 0
  /\ queue' = IF Cached(k) THEN queue ELSE Append(queue, [key |-> k, value |-> v])
  /\ storing' = (Len(queue') > limit)
  /\ UNCHANGED <<limit, answer>>

Evict ==
  /\ storing
  /\ queue' = Tail(queue)
  /\ storing' = (Len(queue') > limit)
  /\ UNCHANGED <<limit, answer>>

Resize(n) ==
  /\ ~storing
  /\ limit' = n
  /\ UNCHANGED <<queue, storing, answer>>

Next ==
  \/ \E k \in Key : Hit(k) \/ Miss(k) \/ \E v \in Value : Store(k, v)
  \/ Evict
  \/ \E n \in Limits : Resize(n)

Spec == Init /\ [][Next]_vars
=============================================================================
