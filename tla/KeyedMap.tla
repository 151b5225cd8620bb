------------------------------ MODULE KeyedMap ------------------------------
(***************************************************************************)
(* What a hash map promises to its users: a finite function from keys to   *)
(* values, whatever the layout of the table behind it.                     *)
(***************************************************************************)
EXTENDS Naturals, Functions

CONSTANTS Key, Value, DefaultValue

VARIABLE contents

Put(f, k, v) == [j \in DOMAIN f \cup {k} |-> IF j = k THEN v ELSE f[j]]

Init == contents = [k \in {} |-> DefaultValue]

(* insert() leaves a key that is there alone.                              *)
Insert(k, v) ==
  contents' = IF k \in DOMAIN contents THEN contents ELSE Put(contents, k, v)

(* m[k] = v                                                                *)
Assign(k, v) == contents' = Put(contents, k, v)

Erase(k) == contents' = Restrict(contents, DOMAIN contents \ {k})

(* clear(), and m = other for a map that holds the keys of S               *)
Replace(S) == contents' = [k \in S |-> DefaultValue]

(* insert(first, last)                                                     *)
InsertAll(S) ==
  contents' = [k \in DOMAIN contents \cup S |->
                 IF k \in DOMAIN contents THEN contents[k] ELSE DefaultValue]

Next ==
  \/ \E k \in Key : Erase(k) \/ \E v \in Value : Insert(k, v) \/ Assign(k, v)
  \/ \E S \in SUBSET Key : Replace(S) \/ InsertAll(S)

Spec == Init /\ [][Next]_contents
=============================================================================
