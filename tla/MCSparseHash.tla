---------------------------- MODULE MCSparseHash ----------------------------
(* Four keys: the hashes of three of them collide in a table of 4 buckets, *)
(* those of two in one of 8.                                               *)
EXTENDS SparseHash

Keys == 0 .. 3
Hashes == [k \in Keys |-> CASE k = 0 -> 3 [] k = 1 -> 7 [] k = 2 -> 11 [] OTHER -> 4]
=============================================================================
