----------------------------- MODULE SparseHash -----------------------------
(***************************************************************************)
(* sparse_hashtable, on which the hash sets and maps of unordered_defs.h   *)
(* are built (the games of a position, the labels of a graph, the symbols  *)
(* of a move): open addressing with quadratic probing in a number of       *)
(* buckets that is a power of two.  An erased element leaves a mark behind *)
(* that keeps the probe sequences whole; the next insertion that finds     *)
(* the table too full or, after erasures, too empty, moves what is left    *)
(* into a new table.  The sparsetable below it is an array of buckets,     *)
(* each empty or holding an entry.                                         *)
(***************************************************************************)
EXTENDS Integers, FiniteSets, SequencesExt

CONSTANTS
  Key, Value, DefaultValue,
  Hash,          (* the munged hash of each key                             *)
  MIN_BUCKETS, STARTING_BUCKETS,   (* HT_MIN_BUCKETS, HT_DEFAULT_STARTING_BUCKETS *)
  MaxRequest     (* bound: the largest argument of resize()                 *)

Pow2[i \in Nat] == IF i = 0 THEN 1 ELSE 2 * Pow2[i - 1]

ASSUME SparseHashAssumption ==
  /\ DefaultValue \in Value
  /\ Hash \in [Key -> Nat]
  /\ MIN_BUCKETS \in Nat /\ \E i \in 2 .. MIN_BUCKETS : MIN_BUCKETS = Pow2[i]
  /\ \E i \in 0 .. STARTING_BUCKETS : STARTING_BUCKETS = MIN_BUCKETS * Pow2[i]
  /\ MaxRequest \in Nat

VARIABLES
  ht,       (* the table, see Table below                                   *)
  it,       (* the bucket a loop over the table is at, NoLoop without a loop*)
  visited,  (* the keys the loop has come by                                *)
  due       (* the keys it has to come by                                   *)

vars == <<ht, it, visited, due>>

Sizes == {MIN_BUCKETS * Pow2[i] : i \in Nat}
Empty == [kind |-> "empty"]
Mark == [kind |-> "deleted"]         (* an entry whose key is the deleted key *)
Entry == [kind : {"entry"}, key : Key, value : Value]
EntryOf(k, v) == [kind |-> "entry", key |-> k, value |-> v]
NoLoop == -1

(***************************************************************************)
(* A table: its buckets, num_deleted, and of the settings use_deleted,     *)
(* consider_shrink and the two thresholds.                                 *)
(***************************************************************************)
IsTable(t) ==
  \E n \in Sizes :
    t \in [buckets : [0 .. n - 1 -> Entry \cup {Empty, Mark}],
          num_deleted : Nat, use_deleted : BOOLEAN, consider_shrink : BOOLEAN,
          enlarge_threshold : Nat, shrink_threshold : Nat]

BucketCount(t) == Cardinality(DOMAIN t.buckets)
Nonempty(t) == {i \in DOMAIN t.buckets : t.buckets[i] # Empty}
NumNonempty(t) == Cardinality(Nonempty(t))
Size(t) == NumNonempty(t) - t.num_deleted

TestDeleted(t, i) == t.num_deleted > 0 /\ t.buckets[i] = Mark

(* What the iterators stop at.                                             *)
Live(t) == {i \in Nonempty(t) : ~TestDeleted(t, i)}

(* HT_OCCUPANCY_PCT is 80, HT_EMPTY_PCT is 32.                             *)
EnlargeSize(n) == (n * 80) \div 100
ShrinkSize(n) == (n * 32) \div 100

(* reset_thresholds(bucket_count())                                        *)
WithThresholds(t) ==
  [t EXCEPT !.enlarge_threshold = EnlargeSize(BucketCount(t)),
            !.shrink_threshold = ShrinkSize(BucketCount(t)),
            !.consider_shrink = FALSE]

EmptyTable(n, useDeleted) ==
  WithThresholds([buckets |-> [i \in 0 .. n - 1 |-> Empty], num_deleted |-> 0,
                  use_deleted |-> useDeleted, consider_shrink |-> FALSE,
                  enlarge_threshold |-> 0, shrink_threshold |-> 0])

(* min_buckets(): the number of buckets is doubled while it is less than   *)
(* wanted or too crowded, elements + wanted times at most.                 *)
MinBuckets(elements, wanted) ==
  LET doubled(i) == MIN_BUCKETS * Pow2[i]
      enough(n) == n >= wanted /\ elements < EnlargeSize(n)
  IN doubled(CHOOSE i \in 0 .. elements + wanted :
               enough(doubled(i)) /\ \A j \in 0 .. i - 1 : ~enough(doubled(j)))

-----------------------------------------------------------------------------
(* Lookup                                                                  *)

(* Mutant of Probe: the step does not grow.                                *)
ProbeConstant(n, k, i) == (Hash[k] + 2 * i) % n

(* The i-th bucket of the probe sequence: the i-th step is i wide.         *)
Probe(n, k, i) == (Hash[k] + (i * (i + 1)) \div 2) % n

First(S) == CHOOSE i \in S : \A j \in S : i <= j

Holds(t, i, k) == ~TestDeleted(t, i) /\ t.buckets[i] # Empty /\ t.buckets[i].key = k

(* Where the search for k ends: at k or at an empty bucket.  With neither  *)
(* the assertion that the table is not full fails.                         *)
Stops(t, k) ==
  LET n == BucketCount(t)
  IN {i \in 0 .. n - 1 : \/ t.buckets[Probe(n, k, i)] = Empty
                         \/ Holds(t, Probe(n, k, i), k)}

(* find_position(): the bucket of k, or the one k would be put in, which   *)
(* is the first mark on the way if there is one.                           *)
FindPosition(t, k) ==
  LET n == BucketCount(t)
      last == First(Stops(t, k))
      marks == {i \in 0 .. last : TestDeleted(t, Probe(n, k, i))}
      at == Probe(n, k, last)
  IN IF Holds(t, at, k) THEN [found |-> TRUE, pos |-> at]
     ELSE [found |-> FALSE, pos |-> IF marks = {} THEN at ELSE Probe(n, k, First(marks))]

Found(t, k) == Size(t) # 0 /\ FindPosition(t, k).found

-----------------------------------------------------------------------------
(* Moving to another table                                                 *)

(* One round of the loops of copy_from() and move_from(): the first empty  *)
(* bucket on the way takes the entry.                                      *)
Placed(buckets, e) ==
  LET n == Cardinality(DOMAIN buckets)
      i == First({j \in 0 .. n - 1 : buckets[Probe(n, e.key, j)] = Empty})
  IN [buckets EXCEPT ![Probe(n, e.key, i)] = e]

(* copy_from() and move_from() into a cleared table of n buckets, followed *)
(* by swap(): what was marked stays behind.                                *)
Moved(t, n) ==
  LET into == EmptyTable(n, t.use_deleted)
      filled[i \in 0 .. BucketCount(t)] ==
        IF i = 0 THEN into.buckets
        ELSE IF i - 1 \in Live(t) THEN Placed(filled[i - 1], t.buckets[i - 1])
        ELSE filled[i - 1]
  IN [into EXCEPT !.buckets = filled[BucketCount(t)]]

Rehashed(t, wanted) == Moved(t, MinBuckets(Size(t), wanted))

(* squash_deleted()                                                        *)
Squashed(t) == IF t.num_deleted > 0 THEN Moved(t, BucketCount(t)) ELSE t

(* maybe_shrink(): halve while more than STARTING_BUCKETS would be left    *)
(* too empty.                                                              *)
ShouldShrink(t) ==
  /\ t.shrink_threshold > 0 /\ Size(t) < t.shrink_threshold
  /\ BucketCount(t) > STARTING_BUCKETS

ShrinkTo(t) ==
  LET halved(i) == BucketCount(t) \div Pow2[i]
      enough(n) == n <= STARTING_BUCKETS \/ Size(t) >= ShrinkSize(n)
  IN halved(CHOOSE i \in 1 .. BucketCount(t) :
              enough(halved(i)) /\ \A j \in 1 .. i - 1 : ~enough(halved(j)))

MaybeShrunk(t) ==
  [(IF ShouldShrink(t) THEN Rehashed(t, ShrinkTo(t)) ELSE t) EXCEPT !.consider_shrink = FALSE]

(* Mutant of TooFull: marks are not counted.                               *)
TooFullOfLive(t, delta) == Size(t) + delta > t.enlarge_threshold

TooFull(t, delta) == NumNonempty(t) + delta > t.enlarge_threshold

(* The size to move to: marks count when it is decided whether to move,    *)
(* but not for the size, which is doubled when that would not leave the    *)
(* table to be shrunk again.                                               *)
EnlargeTo(t, delta) ==
  LET n == MinBuckets(Size(t) + delta, BucketCount(t))
  IN IF n < MinBuckets(NumNonempty(t) + delta, 0) /\ Size(t) + delta >= ShrinkSize(2 * n)
     THEN 2 * n ELSE n

(* resize_delta(): room for delta more, and whether the entries have moved *)
WithRoom(t, delta) ==
  LET shrunk == t.consider_shrink /\ ShouldShrink(t)
      u == IF t.consider_shrink THEN MaybeShrunk(t) ELSE t
  IN IF TooFull(u, delta) /\ MinBuckets(NumNonempty(u) + delta, 0) > BucketCount(u)
     THEN [table |-> Rehashed(u, EnlargeTo(u, delta)), moved |-> TRUE]
     ELSE [table |-> u, moved |-> shrunk]

-----------------------------------------------------------------------------
(* Insertion                                                               *)

(* Mutant of InsertedAt: a mark that is written over is still counted.     *)
InsertedAtMark(t, e, pos) == [t EXCEPT !.buckets[pos] = e]

(* insert_at()                                                             *)
InsertedAt(t, e, pos) ==
  [t EXCEPT !.num_deleted = IF TestDeleted(t, pos) THEN @ - 1 ELSE @, !.buckets[pos] = e]

(* insert_noresize()                                                       *)
InsertedNoResize(t, e) ==
  LET p == FindPosition(t, e.key) IN IF p.found THEN t ELSE InsertedAt(t, e, p.pos)

Inserted(t, e) == InsertedNoResize(WithRoom(t, 1).table, e)

(* Mutant of FoundOrInserted: the position that was found before the move. *)
FoundOrInsertedStale(t, k) ==
  LET p == FindPosition(t, k)
      r == WithRoom(t, 1)
  IN IF p.found THEN t ELSE InsertedAt(r.table, EntryOf(k, DefaultValue), p.pos)

(* find_or_insert(), behind operator[]                                     *)
FoundOrInserted(t, k) ==
  LET p == FindPosition(t, k)
      r == WithRoom(t, 1)
  IN CASE p.found -> t
       [] ~p.found /\ r.moved -> InsertedNoResize(r.table, EntryOf(k, DefaultValue))
       [] OTHER -> InsertedAt(r.table, EntryOf(k, DefaultValue), p.pos)

(* A table into which the keys of a sequence are inserted one by one.      *)
WithAll(t, s) ==
  LET filled[i \in 0 .. Len(s)] ==
        IF i = 0 THEN t
        ELSE InsertedNoResize(filled[i - 1], EntryOf(s[i], DefaultValue))
  IN filled[Len(s)]

TableOf(s, useDeleted) ==
  LET filled[i \in 0 .. Len(s)] ==
        IF i = 0 THEN EmptyTable(STARTING_BUCKETS, useDeleted)
        ELSE Inserted(filled[i - 1], EntryOf(s[i], DefaultValue))
  IN filled[Len(s)]

-----------------------------------------------------------------------------
Init ==
  /\ ht = EmptyTable(STARTING_BUCKETS, FALSE)
  /\ it = NoLoop /\ visited = {} /\ due = {}

(* Insertions and changes of size invalidate the iterators: a program      *)
(* gives up its loop before them.                                          *)
NotInLoop == it = NoLoop /\ UNCHANGED <<it, visited, due>>

Insert(k, v) == NotInLoop /\ ht' = Inserted(ht, EntryOf(k, v))

(* insert() of a range whose length is known: room is made at once.        *)
InsertRange(s) ==
  /\ NotInLoop
  /\ ht' = WithAll(WithRoom(ht, Len(s)).table, s)

(* m[k] = v                                                                *)
Assign(k, v) ==
  /\ NotInLoop
  /\ LET t == FoundOrInserted(ht, k)
     IN ht' = [t EXCEPT !.buckets[FindPosition(t, k).pos].value = v]

(* set_deleted_key() and clear_deleted_key()                               *)
SetUseDeleted(b) ==
  /\ NotInLoop
  /\ ht.use_deleted # b
  /\ ht' = [Squashed(ht) EXCEPT !.use_deleted = b]

(* Mutants of Marked: the bucket is emptied; room is given back at once.   *)
MarkedEmpty(t, i) == [t EXCEPT !.buckets[i] = Empty, !.consider_shrink = TRUE]
MarkedAndShrunk(t, i) ==
  MaybeShrunk([t EXCEPT !.buckets[i] = Mark, !.num_deleted = @ + 1])

(* set_deleted() of an element that is not yet deleted                     *)
Marked(t, i) ==
  [t EXCEPT !.buckets[i] = Mark, !.num_deleted = @ + 1, !.consider_shrink = TRUE]

(* erase(key), which asserts that a deleted key is set                     *)
Erase(k) ==
  /\ ht.use_deleted /\ Found(ht, k)
  /\ ht' = Marked(ht, FindPosition(ht, k).pos)
  /\ due' = due \ {k}
  /\ UNCHANGED <<it, visited>>

(* erase(iterator) of the loop: nothing if the element is deleted already  *)
EraseVisited ==
  /\ it \in DOMAIN ht.buckets /\ ht.use_deleted
  /\ IF TestDeleted(ht, it)
     THEN UNCHANGED <<ht, due>>
     ELSE ht' = Marked(ht, it) /\ due' = due \ {ht.buckets[it].key}
  /\ UNCHANGED <<it, visited>>

(* clear() keeps the buckets.                                              *)
Clear == NotInLoop /\ ht' = EmptyTable(BucketCount(ht), ht.use_deleted)

(* resize(): a request for 0 elements shrinks.                             *)
Resize(n) ==
  /\ NotInLoop
  /\ LET t == IF ht.consider_shrink \/ n = 0 THEN MaybeShrunk(ht) ELSE ht
     IN ht' = IF n > NumNonempty(t) THEN WithRoom(t, n - NumNonempty(t)).table ELSE t

(* operator=: the settings of the other table; the buckets are not given   *)
(* back.                                                                   *)
Copy(s, useDeleted) ==
  /\ NotInLoop
  /\ LET u == TableOf(s, useDeleted)
         wanted == MinBuckets(Size(u), MIN_BUCKETS)
     IN ht' = Moved(u, IF wanted > BucketCount(ht) THEN wanted ELSE BucketCount(ht))

(* for (it = begin(); it != end(); ++it): begin() and ++it                 *)
Stop(from) == LET S == {i \in Live(ht) : i >= from}
              IN IF S = {} THEN BucketCount(ht) ELSE First(S)

Visit(i) ==
  /\ it' = i
  /\ visited' = visited \cup (IF i \in DOMAIN ht.buckets THEN {ht.buckets[i].key} ELSE {})

Begin ==
  /\ it = NoLoop
  /\ Visit(Stop(0))
  /\ due' = {ht.buckets[i].key : i \in Live(ht)}
  /\ UNCHANGED ht

Advance ==
  /\ it \in DOMAIN ht.buckets
  /\ Visit(Stop(it + 1))
  /\ UNCHANGED <<ht, due>>

(* at the end, or by a break                                               *)
LeaveLoop ==
  /\ it # NoLoop
  /\ it' = NoLoop /\ visited' = {} /\ due' = {}
  /\ UNCHANGED ht

(* The elements of another container, in some order.                       *)
Ranges == {SetToSeq(S) : S \in {T \in SUBSET Key : IsFiniteSet(T)}}

Next ==
  \/ \E k \in Key : Erase(k) \/ \E v \in Value : Insert(k, v) \/ Assign(k, v)
  \/ \E s \in Ranges : InsertRange(s) \/ \E b \in BOOLEAN : Copy(s, b)
  \/ \E b \in BOOLEAN : SetUseDeleted(b)
  \/ \E n \in 0 .. MaxRequest : Resize(n)
  \/ EraseVisited \/ Clear \/ Begin \/ Advance \/ LeaveLoop

Spec == Init /\ [][Next]_vars

-----------------------------------------------------------------------------
TypeOK ==
  /\ IsTable(ht)
  /\ it \in {NoLoop} \cup 0 .. BucketCount(ht)
  /\ visited \subseteq Key /\ due \subseteq Key

(***************************************************************************)
(* Every search ends, for keys that are in the table and for keys that are *)
(* not: every probe sequence passes by an empty bucket, so that the        *)
(* assertion "Hashtable is full" never fails.                              *)
(***************************************************************************)
SearchesEnd ==
  \A k \in Key : \E i \in 0 .. BucketCount(ht) - 1 :
     ht.buckets[Probe(BucketCount(ht), k, i)] = Empty

(***************************************************************************)
(* Every element is found where it is, whatever was erased on the way to   *)
(* it, and num_deleted counts the marks: otherwise marks pass for elements *)
(* or elements for marks.                                                  *)
(***************************************************************************)
ElementsFound ==
  /\ \A i \in Live(ht) : FindPosition(ht, ht.buckets[i].key) = [found |-> TRUE, pos |-> i]
  /\ ht.num_deleted = Cardinality({i \in DOMAIN ht.buckets : ht.buckets[i] = Mark})

(***************************************************************************)
(* erase() invalidates no iterator (sparse_hash_set:43-49): a loop that    *)
(* erases elements comes by every element that is not erased before it is  *)
(* reached.                                                                *)
(***************************************************************************)
LoopVisitsAll == it # NoLoop /\ it = BucketCount(ht) => due \subseteq visited

(* The table implements a map from keys to values.                         *)
Contents ==
  LET B == Live(ht)
  IN [k \in {ht.buckets[i].key : i \in B} |->
        ht.buckets[CHOOSE i \in B : ht.buckets[i].key = k].value]

Abstract == INSTANCE KeyedMap WITH contents <- Contents

ImplementsMap == Abstract!Spec
=============================================================================
