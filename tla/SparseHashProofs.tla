-------------------------- MODULE SparseHashProofs --------------------------
(***************************************************************************)
(* Proofs about the hash tables.  The steps of quadratic probing lead to   *)
(* every bucket of a table whose size is a power of two, so that a search  *)
(* ends as long as one bucket is empty.  What is inserted, marked and      *)
(* moved keeps every element where the search for its key comes by.        *)
(***************************************************************************)
EXTENDS SparseHash, FiniteSetTheorems, WellFoundedInduction, TLAPS

(***************************************************************************)
(* Numbers                                                                 *)
(***************************************************************************)
(* A set of natural numbers has a least element.                           *)
LEMMA LeastNat ==
  ASSUME NEW T, T \subseteq Nat, T # {}
  PROVE  \E x \in T : \A y \in T : x <= y
<1> DEFINE R == OpToRel(<, Nat)
<1>1. \E x \in T : \A y \in T : ~(<<y, x>> \in R)
  BY NatLessThanWellFounded, WFMin, Zenon
<1>2. \A x, y \in Nat : <<y, x>> \in R <=> y < x
  BY DEF OpToRel
<1> HIDE DEF R
<1>3. PICK x \in T : \A y \in T : <<y, x>> \notin R
  BY <1>1, Zenon
<1>4. \A y \in T : ~(y < x)
  BY <1>2, <1>3
<1> QED BY <1>3, <1>4

(* A function on the numbers may be defined by its value for the number    *)
(* before.                                                                 *)
Recursive(f, z, g) == f = [i \in Nat |-> IF i = 0 THEN z ELSE g[i][f[i - 1]]]

LEMMA RecursionExists == ASSUME NEW z, NEW g PROVE \E f : Recursive(f, z, g)
<1> DEFINE Upto(f, m) == f = [i \in 0 .. m |-> IF i = 0 THEN z ELSE g[i][f[i - 1]]]
           Bad == {m \in Nat : ~\E f : Upto(f, m)}
<1>1. Bad = {}
  <2> SUFFICES ASSUME Bad # {} PROVE FALSE
    OBVIOUS
  <2>1. Bad \subseteq Nat
    OBVIOUS
  <2>2. PICK m \in Bad : \A k \in Bad : m <= k
    <3> HIDE DEF Bad
    <3> QED BY <2>1, LeastNat
  <2>3. CASE m = 0
    <3> DEFINE f == [i \in 0 .. 0 |-> z]
    <3>1. Upto(f, 0)
      OBVIOUS
    <3> QED BY <2>3, <3>1
  <2>4. CASE m # 0
    <3>1. m - 1 \in Nat /\ m - 1 \notin Bad
      BY <2>2, <2>4
    <3>2. PICK f : Upto(f, m - 1)
      BY <3>1
    <3> DEFINE h == [i \in 0 .. m |-> IF i = m THEN g[m][f[m - 1]] ELSE f[i]]
    <3>3. \A i \in 0 .. m - 1 : h[i] = f[i]
      OBVIOUS
    <3>4. ASSUME NEW i \in 0 .. m PROVE h[i] = IF i = 0 THEN z ELSE g[i][h[i - 1]]
      <4>1. CASE i = m
        BY <2>4, <3>3, <4>1
      <4>2. CASE i # m
        <5>1. i \in 0 .. m - 1
          BY <4>2
        <5>2. f[i] = IF i = 0 THEN z ELSE g[i][f[i - 1]]
          BY <3>2, <5>1
        <5>3. i # 0 => i - 1 \in 0 .. m - 1
          BY <5>1
        <5> HIDE DEF h
        <5> QED BY <3>3, <5>1, <5>2, <5>3
      <4> QED BY <4>1, <4>2
    <3>5. Upto(h, m)
      <4>1. h = [i \in 0 .. m |-> h[i]]
        OBVIOUS
      <4> HIDE DEF h
      <4> QED BY <3>4, <4>1
    <3> HIDE DEF Upto, h
    <3> QED BY <3>5
  <2> QED BY <2>3, <2>4
<1>2. \A m \in Nat : \E f : Upto(f, m)
  BY <1>1
<1> DEFINE F(m) == CHOOSE f : Upto(f, m)
           h == [i \in Nat |-> F(i)[i]]
<1>3. \A m \in Nat : Upto(F(m), m)
  <2> HIDE DEF Upto
  <2> QED BY <1>2
<1> HIDE DEF F
<1>4. \A m \in Nat : \A i \in 0 .. m : F(m)[i] = IF i = 0 THEN z ELSE g[i][F(m)[i - 1]]
  BY <1>3
<1>5. ASSUME NEW m \in Nat, NEW k \in Nat, m <= k PROVE F(k)[m] = F(m)[m]
  <2> DEFINE Other == {i \in 0 .. m : F(k)[i] # F(m)[i]}
  <2> SUFFICES ASSUME Other # {} PROVE FALSE
    OBVIOUS
  <2>1. Other \subseteq Nat
    OBVIOUS
  <2>2. PICK i \in Other : \A j \in Other : i <= j
    <3> HIDE DEF Other
    <3> QED BY <2>1, LeastNat
  <2>3. i \in 0 .. m /\ i \in 0 .. k /\ F(k)[i] # F(m)[i]
    BY <1>5
  <2>4. /\ F(k)[i] = IF i = 0 THEN z ELSE g[i][F(k)[i - 1]]
        /\ F(m)[i] = IF i = 0 THEN z ELSE g[i][F(m)[i - 1]]
    BY <1>4, <2>3
  <2>5. i # 0 => i - 1 \in 0 .. m /\ ~(i <= i - 1)
    BY <2>3
  <2>6. i # 0 => F(k)[i - 1] = F(m)[i - 1]
    BY <2>2, <2>5
  <2> QED BY <2>3, <2>4, <2>6
<1>6. ASSUME NEW i \in Nat PROVE h[i] = IF i = 0 THEN z ELSE g[i][h[i - 1]]
  <2>1. F(i)[i] = IF i = 0 THEN z ELSE g[i][F(i)[i - 1]]
    BY <1>4
  <2>2. i # 0 => i - 1 \in Nat /\ i - 1 <= i
    OBVIOUS
  <2>3. i # 0 => F(i)[i - 1] = F(i - 1)[i - 1]
    BY <1>5, <2>2
  <2>4. h[i] = F(i)[i] /\ (i # 0 => h[i - 1] = F(i - 1)[i - 1])
    BY <2>2
  <2> HIDE DEF h
  <2> QED BY <2>1, <2>3, <2>4
<1>7. h = [i \in Nat |-> IF i = 0 THEN z ELSE g[i][h[i - 1]]]
  <2>1. h = [i \in Nat |-> h[i]]
    OBVIOUS
  <2> HIDE DEF h
  <2> QED BY <1>6, <2>1
<1> HIDE DEF h
<1> QED BY <1>7 DEF Recursive

(* Or as long as the sequence or the table is that it runs over.           *)
Folded(f, m, z, g) ==
  /\ f = [i \in 0 .. m |-> f[i]]
  /\ \A i \in 0 .. m : f[i] = IF i = 0 THEN z ELSE g[i][f[i - 1]]

LEMMA BoundedRecursionExists ==
  ASSUME NEW z, NEW g, NEW m \in Nat
  PROVE  \E f : Folded(f, m, z, g)
<1>1. PICK h : Recursive(h, z, g)
  BY RecursionExists
<1> DEFINE f == [i \in 0 .. m |-> h[i]]
<1>2. ASSUME NEW i \in 0 .. m PROVE f[i] = IF i = 0 THEN z ELSE g[i][f[i - 1]]
  <2>1. h[i] = IF i = 0 THEN z ELSE g[i][h[i - 1]]
    BY <1>1 DEF Recursive
  <2>2. f[i] = h[i] /\ (i # 0 => f[i - 1] = h[i - 1])
    OBVIOUS
  <2> HIDE DEF f
  <2> QED BY <2>1, <2>2
<1>3. f = [i \in 0 .. m |-> f[i]]
  OBVIOUS
<1> HIDE DEF f
<1> QED BY <1>2, <1>3 DEF Folded

(* Each value is among those that its number allows.                       *)
LEMMA FoldStays ==
  ASSUME NEW m \in Nat, NEW I, NEW f, f[0] \in I[0],
         \A i \in 1 .. m : f[i - 1] \in I[i - 1] => f[i] \in I[i]
  PROVE  \A i \in 0 .. m : f[i] \in I[i]
<1> DEFINE Bad == {i \in 0 .. m : f[i] \notin I[i]}
<1> SUFFICES ASSUME Bad # {} PROVE FALSE
  OBVIOUS
<1>1. PICK i \in Bad : \A j \in Bad : i <= j
  <2>1. Bad \subseteq Nat
    OBVIOUS
  <2> HIDE DEF Bad
  <2> QED BY <2>1, LeastNat
<1>2. i \in 1 .. m /\ i - 1 \in 0 .. m /\ ~(i <= i - 1)
  BY <1>1
<1>3. f[i - 1] \in I[i - 1]
  BY <1>1, <1>2
<1> QED BY <1>1, <1>2, <1>3

LEMMA FoldExists ==
  ASSUME NEW m \in Nat, NEW I, NEW z, z \in I[0], NEW g,
         \A i \in 1 .. m : \A x \in I[i - 1] : g[i][x] \in I[i]
  PROVE  \E f : Folded(f, m, z, g) /\ \A i \in 0 .. m : f[i] \in I[i]
<1>0. PICK f : Folded(f, m, z, g)
  BY BoundedRecursionExists
<1>1. \A i \in 0 .. m : f[i] = IF i = 0 THEN z ELSE g[i][f[i - 1]]
  BY <1>0 DEF Folded
<1>2. f[0] \in I[0]
  BY <1>1
<1>3. \A i \in 1 .. m : f[i - 1] \in I[i - 1] => f[i] \in I[i]
  <2>1. \A i \in 1 .. m : i \in 0 .. m /\ i # 0
    OBVIOUS
  <2> QED BY <1>1, <2>1
<1>4. \A i \in 0 .. m : f[i] \in I[i]
  BY <1>2, <1>3, FoldStays
<1> QED BY <1>0, <1>4

LEMMA Pow2Is ==
  /\ Pow2[0] = 1
  /\ \A i \in Nat : Pow2[i] \in Nat /\ Pow2[i + 1] = 2 * Pow2[i] /\ Pow2[i] > i
<1> DEFINE P(f) == [i \in Nat |-> IF i = 0 THEN 1 ELSE 2 * f[i - 1]]
           g == [i \in Nat |-> [x \in Nat |-> 2 * x]]
<1>1. PICK h : Recursive(h, 1, g)
  BY RecursionExists
<1>2. /\ h = [i \in Nat |-> h[i]]
      /\ \A i \in Nat : h[i] = IF i = 0 THEN 1 ELSE g[i][h[i - 1]]
  BY <1>1 DEF Recursive
<1>3. \A i, x \in Nat : g[i][x] = 2 * x /\ 2 * x \in Nat
  OBVIOUS
<1> HIDE DEF g
<1>9. \A i \in Nat : h[i] \in Nat
  <2> DEFINE Bad == {i \in Nat : h[i] \notin Nat}
  <2> SUFFICES ASSUME Bad # {} PROVE FALSE
    OBVIOUS
  <2>1. PICK i \in Bad : \A j \in Bad : i <= j
    <3>1. Bad \subseteq Nat
      OBVIOUS
    <3> HIDE DEF Bad
    <3> QED BY <3>1, LeastNat
  <2>2. i \in Nat /\ h[i] \notin Nat /\ i # 0
    BY <1>2
  <2>3. i - 1 \in Nat /\ ~(i <= i - 1)
    BY <2>2
  <2>4. h[i - 1] \in Nat
    BY <2>1, <2>3
  <2> QED BY <1>2, <1>3, <2>2, <2>4
<1>4. h = P(h)
  <2>1. \A i \in Nat : h[i] = IF i = 0 THEN 1 ELSE 2 * h[i - 1]
    <3>1. \A i \in Nat : i # 0 => i - 1 \in Nat
      OBVIOUS
    <3> QED BY <1>2, <1>3, <1>9, <3>1
  <2> QED BY <1>2, <2>1
<1>5. Pow2 = P(Pow2)
  <2>1. Pow2 = CHOOSE f : f = P(f)
    BY DEF Pow2
  <2> HIDE DEF P
  <2> QED BY <1>4, <2>1
<1>6. \A i \in Nat : Pow2[i] = IF i = 0 THEN 1 ELSE 2 * Pow2[i - 1]
  BY <1>5
<1>7. \A i \in Nat : Pow2[i] \in Nat /\ Pow2[i] > i
  <2> DEFINE Bad == {i \in Nat : ~(Pow2[i] \in Nat /\ Pow2[i] > i)}
  <2> SUFFICES ASSUME Bad # {} PROVE FALSE
    OBVIOUS
  <2>1. PICK i \in Bad : \A j \in Bad : i <= j
    <3>1. Bad \subseteq Nat
      OBVIOUS
    <3> HIDE DEF Bad
    <3> QED BY <3>1, LeastNat
  <2>2. i \in Nat /\ ~(Pow2[i] \in Nat /\ Pow2[i] > i) /\ i # 0
    BY <1>6
  <2>3. i - 1 \in Nat /\ ~(i <= i - 1)
    BY <2>2
  <2>4. Pow2[i - 1] \in Nat /\ Pow2[i - 1] > i - 1
    BY <2>1, <2>3
  <2> QED BY <1>6, <2>2, <2>4
<1>8. ASSUME NEW i \in Nat PROVE Pow2[i + 1] = 2 * Pow2[i]
  <2>1. i + 1 \in Nat /\ i + 1 # 0 /\ (i + 1) - 1 = i
    OBVIOUS
  <2> QED BY <1>6, <2>1
<1> QED BY <1>6, <1>7, <1>8

Odd(x) == \E d \in Int : x = 2 * d + 1
Divides(p, x) == \E c \in Int : x = p * c

(* A power of two that divides a product divides the other factor if one   *)
(* is odd.                                                                 *)
LEMMA OddFactor ==
  \A a \in Nat : \A x, y \in Int : Odd(x) /\ Divides(Pow2[a], x * y) => Divides(Pow2[a], y)
<1> DEFINE Holding(a) == \A x, y \in Int : Odd(x) /\ Divides(Pow2[a], x * y) => Divides(Pow2[a], y)
           Bad == {a \in Nat : ~Holding(a)}
<1> SUFFICES ASSUME Bad # {} PROVE FALSE
  OBVIOUS
<1>1. PICK b \in Bad : \A j \in Bad : b <= j
  <2>1. Bad \subseteq Nat
    OBVIOUS
  <2> HIDE DEF Bad
  <2> QED BY <2>1, LeastNat
<1>2. b # 0
  <2>1. Holding(0)
    BY Pow2Is DEF Divides
  <2> QED BY <2>1
<1> DEFINE a == b - 1
           p == Pow2[a]
<1>3. a \in Nat /\ ~(b <= a) /\ a + 1 = b
  BY <1>2
<1>4. Holding(a)
  BY <1>1, <1>3
<1>5. p \in Nat /\ Pow2[b] = 2 * p
  BY <1>3, Pow2Is
<1>6. ASSUME NEW x \in Int, NEW y \in Int, Odd(x), Divides(Pow2[b], x * y)
      PROVE  Divides(Pow2[b], y)
  <2> HIDE DEF a, p
  <2>10. PICK d \in Int : x = 2 * d + 1
    BY <1>6 DEF Odd
  <2>11. PICK c \in Int : x * y = Pow2[b] * c
    BY <1>6 DEF Divides
  <2> DEFINE w == p * c - d * y
  <2>1. p * c \in Int /\ d * y \in Int /\ w \in Int
    BY <1>5
  <2>2. x * y = 2 * (p * c)
    BY <1>5, <2>11
  <2>3. x * y = 2 * (d * y) + y
    BY <2>10
  <2>4. y = 2 * w
    <3> DEFINE A == p * c
               B == d * y
    <3>1. A \in Int /\ B \in Int /\ 2 * A = 2 * B + y
      BY <2>1, <2>2, <2>3
    <3> HIDE DEF A, B
    <3>2. y = 2 * (A - B)
      BY <1>6, <3>1
    <3> QED BY <3>2 DEF A, B
  <2> HIDE DEF w
  <2>5. x * y = 2 * (x * w)
    BY <2>1, <2>4
  <2>6. x * w \in Int
    BY <2>1
  <2>7. x * w = p * c
    BY <2>1, <2>2, <2>5, <2>6
  <2>12. Divides(p, w)
    <3>1. Divides(p, x * w)
      BY <2>7 DEF Divides
    <3> QED BY <1>4, <1>6, <2>1, <3>1 DEF p
  <2>8. PICK e \in Int : w = p * e
    BY <2>12 DEF Divides
  <2>9. y = (2 * p) * e
    BY <1>5, <2>4, <2>8
  <2> QED BY <1>5, <2>9 DEF Divides
<1> QED BY <1>6

(* The distance of the i-th bucket of a probe sequence from the first.     *)
Steps(i) == (i * (i + 1)) \div 2

LEMMA StepsIs == \A i \in Nat : Steps(i) \in Nat /\ 2 * Steps(i) = i * (i + 1)
<1> SUFFICES ASSUME NEW i \in Nat PROVE Steps(i) \in Nat /\ 2 * Steps(i) = i * (i + 1)
  OBVIOUS
<1>1. \E h \in Nat : i * (i + 1) = 2 * h
  <2>1. PICK m \in Nat : i = 2 * m \/ i = 2 * m + 1
    <3>1. i \div 2 \in Nat /\ (i = 2 * (i \div 2) \/ i = 2 * (i \div 2) + 1)
      OBVIOUS
    <3> QED BY <3>1
  <2>2. CASE i = 2 * m
    <3>1. i * (i + 1) = 2 * (m * (i + 1)) /\ m * (i + 1) \in Nat
      BY <2>2
    <3> QED BY <3>1
  <2>3. CASE i = 2 * m + 1
    <3>1. i + 1 = 2 * (m + 1)
      BY <2>3
    <3>2. i * (i + 1) = 2 * (i * (m + 1)) /\ i * (m + 1) \in Nat
      BY <3>1
    <3> QED BY <3>2
  <2> QED BY <2>1, <2>2, <2>3
<1>2. PICK h \in Nat : i * (i + 1) = 2 * h
  BY <1>1
<1>3. Steps(i) = h
  BY <1>2 DEF Steps
<1> QED BY <1>2, <1>3

LEMMA SameRemainder ==
  ASSUME NEW n \in Nat, n > 0, NEW x \in Nat, NEW y \in Nat, x % n = y % n
  PROVE  \E c \in Int : y - x = n * c
<1>1. x = n * (x \div n) + (x % n) /\ x \div n \in Int /\ x % n \in Int
  OBVIOUS
<1>2. y = n * (y \div n) + (y % n) /\ y \div n \in Int
  OBVIOUS
<1> DEFINE a == x \div n
           b == y \div n
<1>3. a \in Int /\ b \in Int /\ b - a \in Int /\ n * a \in Int /\ n * b \in Int
  BY <1>1, <1>2
<1>4. y - x = n * b - n * a
  BY <1>1, <1>2, <1>3
<1> HIDE DEF a, b
<1>5. n * b - n * a = n * (b - a)
  BY <1>3
<1> QED BY <1>3, <1>4, <1>5

(* In a table whose size is a power of two, no bucket is twice among as    *)
(* many steps as there are buckets.                                        *)
LEMMA StepsApart ==
  ASSUME NEW a \in Nat, NEW h \in Nat, NEW i \in Nat, NEW j \in Nat,
         i < j, j < Pow2[a], (h + Steps(i)) % Pow2[a] = (h + Steps(j)) % Pow2[a]
  PROVE  FALSE
<1> DEFINE n == Pow2[a]
           x == j - i
           y == j + i + 1
<1>1. n \in Nat /\ n > 0 /\ Pow2[a + 1] = 2 * n /\ a + 1 \in Nat
  BY Pow2Is
<1>2. Steps(i) \in Nat /\ 2 * Steps(i) = i * (i + 1) /\ Steps(j) \in Nat /\ 2 * Steps(j) = j * (j + 1)
  BY StepsIs
<1> HIDE DEF n
<1>3. PICK c \in Int : (h + Steps(j)) - (h + Steps(i)) = n * c
  <2>1. h + Steps(i) \in Nat /\ h + Steps(j) \in Nat
    BY <1>2
  <2> QED BY <1>1, <2>1, SameRemainder DEF n
<1>4. x * y = j * (j + 1) - i * (i + 1)
  OBVIOUS
<1>5. x * y = (2 * n) * c
  <2> DEFINE A == n * c
             I == i * (i + 1)
             J == j * (j + 1)
             p == Steps(i)
             q == Steps(j)
  <2>1. A \in Int /\ I \in Int /\ J \in Int /\ p \in Nat /\ q \in Nat
    BY <1>1, <1>2
  <2>2. 2 * p = I /\ 2 * q = J /\ (h + q) - (h + p) = A
    BY <1>2, <1>3
  <2> HIDE DEF A, I, J, p, q
  <2>3. J - I = 2 * A
    BY <2>1, <2>2
  <2> HIDE DEF x, y
  <2>4. (2 * n) * c = 2 * A
    BY <1>1 DEF A
  <2> QED BY <1>4, <2>3, <2>4 DEF I, J
<1>6. x \in Int /\ y \in Int /\ 0 < x /\ x < 2 * n /\ 0 < y /\ y < 2 * n
  BY <1>1 DEF n
<1>7. ASSUME NEW w \in Int, 0 < w, w < 2 * n, Divides(2 * n, w) PROVE FALSE
  <2>3. PICK e \in Int : w = (2 * n) * e
    BY <1>7 DEF Divides
  <2>1. CASE e <= 0
    <3>1. (2 * n) * e <= 0
      BY <1>1, <2>1
    <3> QED BY <1>7, <2>3, <3>1
  <2>2. CASE e >= 1
    <3>1. (2 * n) * e >= 2 * n
      BY <1>1, <2>2
    <3> QED BY <1>1, <1>7, <2>3, <3>1
  <2> QED BY <2>1, <2>2
<1>8. Odd(x) \/ Odd(y)
  <2>1. \E d \in Int : x = 2 * d \/ x = 2 * d + 1
    <3>1. x \div 2 \in Int /\ (x = 2 * (x \div 2) \/ x = 2 * (x \div 2) + 1)
      BY <1>6
    <3> QED BY <3>1
  <2>2. PICK d \in Int : x = 2 * d \/ x = 2 * d + 1
    BY <2>1
  <2>3. y = x + 2 * i + 1
    OBVIOUS
  <2> HIDE DEF x, y
  <2>4. x = 2 * d => y = 2 * (d + i) + 1 /\ d + i \in Int
    BY <2>3
  <2> QED BY <2>2, <2>4 DEF Odd
<1> HIDE DEF x, y
<1>9. Divides(Pow2[a + 1], x * y) /\ Divides(Pow2[a + 1], y * x)
  <2>1. x * y = Pow2[a + 1] * c /\ y * x = Pow2[a + 1] * c
    BY <1>1, <1>5, <1>6
  <2> QED BY <2>1 DEF Divides
<1>10. Divides(Pow2[a + 1], x) \/ Divides(Pow2[a + 1], y)
  BY <1>1, <1>6, <1>8, <1>9, OddFactor, Zenon
<1> QED BY <1>1, <1>6, <1>7, <1>10

(* Hence a search comes by every bucket.                                   *)
LEMMA ProbeCovers ==
  ASSUME NEW a \in Nat, NEW k \in Key, NEW b \in 0 .. Pow2[a] - 1
  PROVE  \E i \in 0 .. Pow2[a] - 1 : Probe(Pow2[a], k, i) = b
<1> DEFINE n == Pow2[a]
           B == 0 .. n - 1
           f == [i \in B |-> Probe(n, k, i)]
<1>1. n \in Nat /\ n > 0
  BY Pow2Is
<1>2. Hash[k] \in Nat
  BY SparseHashAssumption
<1>3. \A i \in B : /\ Probe(n, k, i) = (Hash[k] + Steps(i)) % n
                    /\ i \in Nat /\ Steps(i) \in Nat
  <2>1. \A i \in B : Probe(n, k, i) = (Hash[k] + Steps(i)) % n
    BY DEF Probe, Steps
  <2>2. \A i \in B : i \in Nat
    BY <1>1
  <2> QED BY <2>1, <2>2, StepsIs, Zenon
<1>4. f \in [B -> B]
  <2>1. \A i \in B : Hash[k] + Steps(i) \in Nat
    BY <1>2, <1>3
  <2>2. \A x \in Nat : x % n \in B
    BY <1>1
  <2> QED BY <1>3, <2>1, <2>2
<1>5. ASSUME NEW i \in B, NEW j \in B, i < j PROVE Probe(n, k, i) # Probe(n, k, j)
  <2>1. i \in Nat /\ j \in Nat /\ j < Pow2[a]
    BY <1>1
  <2>2. (Hash[k] + Steps(i)) % Pow2[a] # (Hash[k] + Steps(j)) % Pow2[a]
    BY <1>2, <1>5, <2>1, StepsApart, Zenon
  <2> QED BY <1>3, <2>2
<1>6. \A i, j \in B : f[i] = f[j] => i = j
  <2> HIDE DEF n
  <2>1. \A i, j \in B : i # j => i < j \/ j < i
    BY <1>1
  <2> QED BY <1>5, <2>1
<1>7. f \in Injection(B, B)
  <2> HIDE DEF f, B
  <2> QED BY <1>4, <1>6 DEF Injection, IsInjective
<1>8. IsFiniteSet(B)
  BY <1>1, FS_Interval
<1>9. f \in Surjection(B, B)
  <2> HIDE DEF f, B
  <2> QED BY <1>7, <1>8, FS_Injection
<1>10. \E i \in B : f[i] = b
  <2> HIDE DEF f
  <2> QED BY <1>9 DEF Surjection
<1> QED BY <1>10

-----------------------------------------------------------------------------
(***************************************************************************)
(* Sizes                                                                   *)
(***************************************************************************)
LEMMA Pow2Sum == \A a, b \in Nat : Pow2[a] * Pow2[b] = Pow2[a + b]
<1> SUFFICES ASSUME NEW a \in Nat PROVE \A b \in Nat : Pow2[a] * Pow2[b] = Pow2[a + b]
  OBVIOUS
<1> DEFINE Bad == {b \in Nat : Pow2[a] * Pow2[b] # Pow2[a + b]}
<1> SUFFICES ASSUME Bad # {} PROVE FALSE
  OBVIOUS
<1>1. PICK b \in Bad : \A j \in Bad : b <= j
  <2>1. Bad \subseteq Nat
    OBVIOUS
  <2> HIDE DEF Bad
  <2> QED BY <2>1, LeastNat
<1>2. b # 0
  <2>1. Pow2[a] * Pow2[0] = Pow2[a + 0]
    BY Pow2Is
  <2> QED BY <2>1
<1>3. b - 1 \in Nat /\ ~(b <= b - 1) /\ (b - 1) + 1 = b /\ a + (b - 1) \in Nat
      /\ (a + (b - 1)) + 1 = a + b
  BY <1>2
<1>4. Pow2[a] * Pow2[b - 1] = Pow2[a + (b - 1)]
  BY <1>1, <1>3
<1>5. Pow2[b] = 2 * Pow2[b - 1] /\ Pow2[a + b] = 2 * Pow2[a + (b - 1)]
  BY <1>3, Pow2Is
<1>6. Pow2[a] * (2 * Pow2[b - 1]) = 2 * (Pow2[a] * Pow2[b - 1])
  <2>1. Pow2[a] \in Nat /\ Pow2[b - 1] \in Nat
    BY <1>3, Pow2Is
  <2> QED BY <2>1
<1> QED BY <1>1, <1>4, <1>5, <1>6

LEMMA MinBucketsIs == MIN_BUCKETS \in Nat /\ MIN_BUCKETS >= 4
<1>1. PICK i \in 2 .. MIN_BUCKETS : MIN_BUCKETS = Pow2[i]
  BY SparseHashAssumption
<1>2. i \in Nat /\ i - 1 \in Nat /\ (i - 1) + 1 = i /\ i - 1 >= 1
  BY SparseHashAssumption
<1>3. Pow2[i] = 2 * Pow2[i - 1] /\ Pow2[i - 1] \in Nat /\ Pow2[i - 1] > i - 1
  BY <1>2, Pow2Is
<1> QED BY <1>1, <1>2, <1>3

LEMMA SizesAre ==
  ASSUME NEW n \in Sizes
  PROVE  /\ n \in Nat /\ n >= 4 /\ 2 * n \in Sizes
         /\ \E a \in Nat : n = Pow2[a]
<1>1. PICK i \in Nat : n = MIN_BUCKETS * Pow2[i]
  BY DEF Sizes
<1>2. MIN_BUCKETS \in Nat /\ MIN_BUCKETS >= 4 /\ Pow2[i] \in Nat /\ Pow2[i] >= 1
  BY Pow2Is, MinBucketsIs
<1>3. n \in Nat /\ n >= 4
  <2> DEFINE p == Pow2[i]
             m == MIN_BUCKETS
  <2>1. m \in Nat /\ m >= 4 /\ p \in Nat /\ p >= 1
    BY <1>2
  <2> HIDE DEF p, m
  <2>2. m * p \in Nat /\ m * p >= 4
    BY <2>1
  <2> QED BY <1>1, <2>2 DEF p, m
<1>4. 2 * n = MIN_BUCKETS * Pow2[i + 1] /\ i + 1 \in Nat
  BY <1>1, <1>2, Pow2Is
<1>5. PICK j \in 2 .. MIN_BUCKETS : MIN_BUCKETS = Pow2[j]
  BY SparseHashAssumption
<1>6. j \in Nat /\ j + i \in Nat /\ n = Pow2[j + i]
  BY <1>1, <1>2, <1>5, Pow2Sum
<1> QED BY <1>3, <1>4, <1>6 DEF Sizes

LEMMA StartingSize == STARTING_BUCKETS \in Sizes
<1>1. PICK i \in 0 .. STARTING_BUCKETS : STARTING_BUCKETS = MIN_BUCKETS * Pow2[i]
  BY SparseHashAssumption
<1>2. i \in Nat
  OBVIOUS
<1> QED BY <1>1, <1>2 DEF Sizes

LEMMA EnlargeSizeIs ==
  ASSUME NEW n \in Nat, n >= 4
  PROVE  /\ EnlargeSize(n) \in Nat /\ EnlargeSize(n) < n /\ ShrinkSize(n) \in Nat
         /\ \A m \in Nat : m >= n => EnlargeSize(m) >= EnlargeSize(n)
BY DEF EnlargeSize, ShrinkSize

(* min_buckets() returns a size that leaves room.                          *)
LEMMA MinBucketsFits ==
  ASSUME NEW e \in Nat, NEW w \in Nat
  PROVE  /\ MinBuckets(e, w) \in Sizes /\ MinBuckets(e, w) >= w
         /\ e < EnlargeSize(MinBuckets(e, w))
<1> DEFINE doubled(i) == MIN_BUCKETS * Pow2[i]
           enough(n) == n >= w /\ e < EnlargeSize(n)
           Fit == {i \in 0 .. e + w : enough(doubled(i))}
<1>1. e + w \in Fit
  <2>1. Pow2[e + w] \in Nat /\ Pow2[e + w] >= e + w + 1
    BY Pow2Is
  <2>2. doubled(e + w) >= 4 * (e + w + 1) /\ doubled(e + w) \in Nat
    <3> DEFINE p == Pow2[e + w]
               m == MIN_BUCKETS
    <3>1. m \in Nat /\ m >= 4 /\ p \in Nat /\ p >= e + w + 1
      BY <2>1, MinBucketsIs
    <3> HIDE DEF p, m
    <3>2. m * p >= 4 * p /\ m * p \in Nat
      BY <3>1
    <3>3. m * p >= 4 * (e + w + 1) /\ m * p \in Nat
      BY <3>1, <3>2
    <3> QED BY <3>3 DEF p, m
  <2> HIDE DEF doubled
  <2>3. enough(doubled(e + w))
    BY <2>2 DEF EnlargeSize
  <2> QED BY <2>3
<1>2. PICK i \in Fit : \A j \in Fit : i <= j
  <2>1. Fit \subseteq Nat
    OBVIOUS
  <2> HIDE DEF Fit
  <2> QED BY <1>1, <2>1, LeastNat
<1> HIDE DEF doubled, enough
<1>3. i \in 0 .. e + w /\ enough(doubled(i)) /\ \A j \in 0 .. i - 1 : ~enough(doubled(j))
  BY <1>2
<1> DEFINE c == CHOOSE h \in 0 .. e + w : enough(doubled(h)) /\ \A j \in 0 .. h - 1 : ~enough(doubled(j))
<1>4. c \in 0 .. e + w /\ enough(doubled(c))
  BY <1>3
<1>5. MinBuckets(e, w) = doubled(c)
  BY Zenon DEF MinBuckets, doubled, enough
<1> HIDE DEF c
<1> QED BY <1>4, <1>5 DEF doubled, enough, Sizes

LEMMA ShrinkToType ==
  ASSUME NEW t, BucketCount(t) \in Nat, BucketCount(t) > 0
  PROVE  ShrinkTo(t) \in Nat
<1> DEFINE n == BucketCount(t)
           halved(i) == n \div Pow2[i]
           enough(m) == m <= STARTING_BUCKETS \/ Size(t) >= ShrinkSize(m)
           Fit == {i \in 1 .. n : enough(halved(i))}
<1>1. \A i \in 1 .. n : halved(i) \in Nat
  <2>1. \A i \in 1 .. n : Pow2[i] \in Nat /\ Pow2[i] > 0
    BY Pow2Is
  <2> QED BY <2>1
<1>2. n \in Fit
  <2>1. Pow2[n] \in Nat /\ Pow2[n] > n /\ n \in 1 .. n
    BY Pow2Is
  <2>2. halved(n) = 0
    <3> DEFINE p == Pow2[n]
    <3>1. n \in Nat /\ p \in Nat /\ p > n
      BY <2>1
    <3> HIDE DEF p, n
    <3>2. n \div p = 0
      BY <3>1
    <3> QED BY <3>2 DEF p
  <2>3. 0 <= STARTING_BUCKETS
    BY StartingSize, SizesAre
  <2> HIDE DEF n
  <2> QED BY <2>1, <2>2, <2>3
<1>3. PICK i \in Fit : \A j \in Fit : i <= j
  <2>1. Fit \subseteq Nat
    OBVIOUS
  <2> HIDE DEF Fit
  <2> QED BY <1>2, <2>1, LeastNat
<1> HIDE DEF halved, enough
<1>4. i \in 1 .. n /\ enough(halved(i)) /\ \A j \in 1 .. i - 1 : ~enough(halved(j))
  BY <1>3
<1> DEFINE c == CHOOSE h \in 1 .. n : enough(halved(h)) /\ \A j \in 1 .. h - 1 : ~enough(halved(j))
<1>5. c \in 1 .. n
  BY <1>4
<1>6. ShrinkTo(t) = halved(c)
  BY Zenon DEF ShrinkTo, halved, enough
<1> HIDE DEF c
<1> QED BY <1>1, <1>5, <1>6

-----------------------------------------------------------------------------
(***************************************************************************)
(* Buckets.  An entry is in place if the search for its key comes by no    *)
(* empty bucket before it.                                                 *)
(***************************************************************************)
Slot == Entry \cup {Empty, Mark}

Taken(b) == {i \in DOMAIN b : b[i] \in Entry}
Marks(b) == {i \in DOMAIN b : b[i] = Mark}
Full(b) == {i \in DOMAIN b : b[i] # Empty}
Held(b) == {b[i] : i \in Taken(b)}

Put(b, pos, e) == [b EXCEPT ![pos] = e]

Way(b, n, k, j) == \A l \in 0 .. j - 1 : b[Probe(n, k, l)] # Empty

Reached(b, n, k, i) == \E j \in 0 .. n - 1 : Probe(n, k, j) = i /\ Way(b, n, k, j)

InPlace(b, n) ==
  /\ b \in [0 .. n - 1 -> Slot]
  /\ \A i, j \in Taken(b) : b[i].key = b[j].key => i = j
  /\ \A i \in Taken(b) : Reached(b, n, b[i].key, i)

LEMMA Slots ==
  /\ Empty # Mark /\ Empty \notin Entry /\ Mark \notin Entry
  /\ \A e \in Entry : e.key \in Key /\ e.value \in Value
  /\ \A k \in Key, v \in Value : EntryOf(k, v) \in Entry /\ EntryOf(k, v).key = k
                                 /\ EntryOf(k, v).value = v
BY DEF Empty, Mark, Entry, EntryOf

LEMMA ProbeType ==
  ASSUME NEW n \in Sizes, NEW k \in Key, NEW i \in Nat
  PROVE  Probe(n, k, i) \in 0 .. n - 1
<1>1. Hash[k] \in Nat /\ Steps(i) \in Nat
  BY SparseHashAssumption, StepsIs
<1>2. n \in Nat /\ n > 0
  BY SizesAre
<1>3. Probe(n, k, i) = (Hash[k] + Steps(i)) % n
  BY DEF Probe, Steps
<1>4. \A x \in Nat : x % n \in 0 .. n - 1
  BY <1>2
<1> QED BY <1>1, <1>3, <1>4

(* A bucket that stays full is passed by.                                  *)
LEMMA ReachedStays ==
  ASSUME NEW n \in Sizes, NEW k \in Key, NEW b, NEW c,
         \A i \in 0 .. n - 1 : b[i] # Empty => c[i] # Empty,
         NEW i, Reached(b, n, k, i)
  PROVE  Reached(c, n, k, i)
<1>1. PICK j \in 0 .. n - 1 : Probe(n, k, j) = i /\ Way(b, n, k, j)
  BY DEF Reached
<1>2. ASSUME NEW l \in 0 .. j - 1 PROVE c[Probe(n, k, l)] # Empty
  <2>1. l \in Nat
    OBVIOUS
  <2>2. Probe(n, k, l) \in 0 .. n - 1
    BY <2>1, ProbeType
  <2> QED BY <1>1, <2>2 DEF Way
<1> QED BY <1>1, <1>2 DEF Reached, Way

(* An entry that is written over an empty bucket or a mark that the search *)
(* for its key comes to.                                                   *)
LEMMA PutInPlace ==
  ASSUME NEW n \in Sizes, NEW b, InPlace(b, n), NEW e \in Entry,
         NEW pos \in 0 .. n - 1, pos \notin Taken(b), Reached(b, n, e.key, pos),
         \A i \in Taken(b) : b[i].key # e.key
  PROVE  LET c == Put(b, pos, e)
         IN /\ InPlace(c, n) /\ Taken(c) = Taken(b) \cup {pos} /\ Held(c) = Held(b) \cup {e}
            /\ Marks(c) = Marks(b) \ {pos} /\ Full(c) = Full(b) \cup {pos}
<1> DEFINE c == Put(b, pos, e)
<1>1. b \in [0 .. n - 1 -> Slot] /\ c \in [0 .. n - 1 -> Slot] /\ c[pos] = e
      /\ \A i \in 0 .. n - 1 : i # pos => c[i] = b[i]
  BY DEF InPlace, Slot, Put
<1>2. \A i \in 0 .. n - 1 : b[i] # Empty => c[i] # Empty
  BY <1>1, Slots
<1> HIDE DEF c
<1>3. Taken(c) = Taken(b) \cup {pos} /\ Marks(c) = Marks(b) \ {pos} /\ Full(c) = Full(b) \cup {pos}
  BY <1>1, Slots DEF Taken, Marks, Full
<1>4. Held(c) = Held(b) \cup {e}
  <2>1. \A i \in Taken(b) : i # pos /\ i \in 0 .. n - 1
    BY <1>1 DEF Taken
  <2>2. \A i \in Taken(b) : c[i] = b[i]
    BY <1>1, <2>1
  <2> QED BY <1>1, <1>3, <2>2 DEF Held
<1>5. \A i, j \in Taken(c) : c[i].key = c[j].key => i = j
  <2>1. \A i \in Taken(b) : c[i] = b[i]
    BY <1>1 DEF Taken
  <2> QED BY <1>1, <1>3, <2>1 DEF InPlace
<1>6. \A k \in Key : \A i \in 0 .. n - 1 : Reached(b, n, k, i) => Reached(c, n, k, i)
  BY <1>2, ReachedStays
<1>7. \A i \in Taken(c) : Reached(c, n, c[i].key, i)
  <2>1. \A i \in Taken(b) : c[i] = b[i] /\ i \in 0 .. n - 1 /\ b[i].key \in Key
    BY <1>1, Slots DEF Taken
  <2>2. \A i \in Taken(b) : Reached(b, n, b[i].key, i)
    BY DEF InPlace
  <2> QED BY <1>1, <1>3, <1>6, <2>1, <2>2, Slots
<1>8. InPlace(c, n)
  BY <1>1, <1>5, <1>7 DEF InPlace
<1> QED BY <1>3, <1>4, <1>8 DEF c

(* An entry that is marked as deleted.                                     *)
LEMMA MarkInPlace ==
  ASSUME NEW n \in Sizes, NEW b, InPlace(b, n), NEW pos \in Taken(b)
  PROVE  LET c == Put(b, pos, Mark)
         IN /\ InPlace(c, n) /\ Taken(c) = Taken(b) \ {pos} /\ Held(c) = Held(b) \ {b[pos]}
            /\ Marks(c) = Marks(b) \cup {pos} /\ Full(c) = Full(b)
            /\ pos \notin Marks(b)
<1> DEFINE c == Put(b, pos, Mark)
<1>1. b \in [0 .. n - 1 -> Slot] /\ c \in [0 .. n - 1 -> Slot] /\ c[pos] = Mark
      /\ (\A i \in 0 .. n - 1 : i # pos => c[i] = b[i]) /\ pos \in 0 .. n - 1
  BY DEF InPlace, Slot, Taken, Put
<1>2. \A i \in 0 .. n - 1 : b[i] # Empty => c[i] # Empty
  BY <1>1, Slots
<1> HIDE DEF c
<1>3. Taken(c) = Taken(b) \ {pos} /\ Marks(c) = Marks(b) \cup {pos} /\ Full(c) = Full(b)
      /\ pos \notin Marks(b)
  BY <1>1, Slots DEF Taken, Marks, Full
<1>4. \A i \in Taken(c) : c[i] = b[i] /\ i \in 0 .. n - 1 /\ b[i].key \in Key /\ i \in Taken(b)
  BY <1>1, <1>3, Slots DEF Taken
<1>5. Held(c) = Held(b) \ {b[pos]}
  <2>1. \A i \in Taken(c) : b[i] # b[pos]
    BY <1>3 DEF InPlace
  <2> QED BY <1>3, <1>4, <2>1 DEF Held
<1>6. \A k \in Key : \A i \in 0 .. n - 1 : Reached(b, n, k, i) => Reached(c, n, k, i)
  BY <1>2, ReachedStays
<1>7. \A i \in Taken(c) : Reached(c, n, c[i].key, i)
  BY <1>4, <1>6 DEF InPlace
<1>8. InPlace(c, n)
  BY <1>1, <1>3, <1>4, <1>7 DEF InPlace
<1> QED BY <1>3, <1>5, <1>8 DEF c

(* An entry that is given another value.                                   *)
LEMMA ValueInPlace ==
  ASSUME NEW n \in Sizes, NEW b, InPlace(b, n), NEW pos \in Taken(b), NEW v \in Value
  PROVE  LET c == Put(b, pos, EntryOf(b[pos].key, v))
         IN /\ InPlace(c, n) /\ Taken(c) = Taken(b) /\ Marks(c) = Marks(b) /\ Full(c) = Full(b)
            /\ Held(c) = (Held(b) \ {b[pos]}) \cup {EntryOf(b[pos].key, v)}
<1> DEFINE e == EntryOf(b[pos].key, v)
           c == Put(b, pos, e)
<1>0. b \in [0 .. n - 1 -> Slot] /\ pos \in 0 .. n - 1 /\ b[pos] \in Entry
  BY DEF InPlace, Taken
<1>1. e \in Entry /\ e.key = b[pos].key /\ e.value = v
  BY <1>0 DEF Entry, EntryOf
<1>2. c = Put(b, pos, e)
  OBVIOUS
<1> HIDE DEF c, e
<1>3. c \in [0 .. n - 1 -> Slot] /\ c[pos] = e /\ \A i \in 0 .. n - 1 : i # pos => c[i] = b[i]
  BY <1>0, <1>1, <1>2 DEF Slot, Put
<1>4. \A i \in 0 .. n - 1 : b[i] # Empty => c[i] # Empty
  BY <1>1, <1>3, Slots
<1>5. Taken(c) = Taken(b) /\ Marks(c) = Marks(b) /\ Full(c) = Full(b)
  BY <1>0, <1>1, <1>3, Slots DEF Taken, Marks, Full
<1>6. \A i \in Taken(b) : c[i].key = b[i].key /\ i \in 0 .. n - 1 /\ b[i].key \in Key
                          /\ (i # pos => c[i] = b[i])
  BY <1>0, <1>1, <1>3, Slots DEF Taken
<1>7. Held(c) = (Held(b) \ {b[pos]}) \cup {e}
  <2>1. \A i \in Taken(b) : i # pos => b[i] # b[pos]
    BY DEF InPlace
  <2> QED BY <1>3, <1>5, <1>6, <2>1 DEF Held
<1>8. \A k \in Key : \A i \in 0 .. n - 1 : Reached(b, n, k, i) => Reached(c, n, k, i)
  BY <1>4, ReachedStays
<1>9. InPlace(c, n)
  BY <1>3, <1>5, <1>6, <1>8 DEF InPlace
<1> QED BY <1>5, <1>7, <1>9 DEF c, e

LEMMA CountInterval ==
  ASSUME NEW n \in Nat
  PROVE  IsFiniteSet(0 .. n - 1) /\ Cardinality(0 .. n - 1) = n
<1>1. 0 \in Int /\ n - 1 \in Int /\ (0 > n - 1 => n = 0) /\ (n - 1) - 0 + 1 = n
  OBVIOUS
<1> QED BY <1>1, FS_Interval

(* A search that ends: it comes to an empty bucket, or to its key before.  *)
LEMMA EmptyOnTheWay ==
  ASSUME NEW n \in Sizes, NEW b \in [0 .. n - 1 -> Slot], NEW k \in Key,
         Cardinality(Full(b)) < n
  PROVE  \E j \in 0 .. n - 1 : b[Probe(n, k, j)] = Empty
<1>1. n \in Nat /\ \E a \in Nat : n = Pow2[a]
  BY SizesAre
<1>2. IsFiniteSet(0 .. n - 1) /\ Cardinality(0 .. n - 1) = n
  BY <1>1, CountInterval
<1>3. Full(b) # 0 .. n - 1
  BY <1>1, <1>2
<1>4. PICK i \in 0 .. n - 1 : b[i] = Empty
  BY <1>3 DEF Full
<1>5. PICK j \in 0 .. n - 1 : Probe(n, k, j) = i
  BY <1>1, ProbeCovers
<1> QED BY <1>4, <1>5

-----------------------------------------------------------------------------
(***************************************************************************)
(* Tables                                                                  *)
(***************************************************************************)
TableOfSize(n) ==
  [buckets : [0 .. n - 1 -> Slot], num_deleted : Nat, use_deleted : BOOLEAN,
   consider_shrink : BOOLEAN, enlarge_threshold : Nat, shrink_threshold : Nat]

(* What every operation leaves behind: the entries are in place, the marks *)
(* are counted, and there is room.                                         *)
GoodTable(t) ==
  LET n == BucketCount(t)
  IN /\ n \in Sizes /\ t \in TableOfSize(n)
     /\ InPlace(t.buckets, n)
     /\ t.num_deleted = Cardinality(Marks(t.buckets))
     /\ t.enlarge_threshold = EnlargeSize(n) /\ t.shrink_threshold = ShrinkSize(n)
     /\ Cardinality(Full(t.buckets)) <= EnlargeSize(n)

LEMMA CountBuckets ==
  ASSUME NEW n \in Nat, NEW t, DOMAIN t.buckets = 0 .. n - 1
  PROVE  BucketCount(t) = n
BY CountInterval DEF BucketCount

LEMMA CountKinds ==
  ASSUME NEW n \in Sizes, NEW b \in [0 .. n - 1 -> Slot]
  PROVE  /\ IsFiniteSet(Full(b)) /\ IsFiniteSet(Taken(b)) /\ IsFiniteSet(Marks(b))
         /\ Cardinality(Full(b)) \in Nat /\ Cardinality(Taken(b)) \in Nat /\ Cardinality(Marks(b)) \in Nat
         /\ Full(b) = Taken(b) \cup Marks(b) /\ Taken(b) \cap Marks(b) = {}
         /\ Cardinality(Full(b)) = Cardinality(Taken(b)) + Cardinality(Marks(b))
<1>1. IsFiniteSet(0 .. n - 1)
  BY SizesAre, FS_Interval
<1>2. Full(b) \subseteq 0 .. n - 1 /\ Taken(b) \subseteq 0 .. n - 1 /\ Marks(b) \subseteq 0 .. n - 1
  BY DEF Full, Taken, Marks
<1>3. IsFiniteSet(Full(b)) /\ IsFiniteSet(Taken(b)) /\ IsFiniteSet(Marks(b))
  BY <1>1, <1>2, FS_Subset
<1>4. Full(b) = Taken(b) \cup Marks(b) /\ Taken(b) \cap Marks(b) = {}
  BY Slots DEF Full, Taken, Marks, Slot
<1>5. /\ Cardinality(Full(b)) \in Nat /\ Cardinality(Taken(b)) \in Nat /\ Cardinality(Marks(b)) \in Nat
  BY <1>3, FS_CardinalityType
<1>6. Cardinality(Full(b)) = Cardinality(Taken(b)) + Cardinality(Marks(b))
  <2>1. Cardinality(Taken(b) \cup Marks(b))
          = Cardinality(Taken(b)) + Cardinality(Marks(b)) - Cardinality(Taken(b) \cap Marks(b))
    BY <1>3, FS_Union
  <2>2. Cardinality(Taken(b) \cap Marks(b)) = 0
    BY <1>4, FS_EmptySet
  <2> QED BY <1>4, <1>5, <2>1, <2>2
<1> QED BY <1>3, <1>4, <1>5, <1>6

(* What the queries of a table say of its buckets.                         *)
LEMMA GoodCounts ==
  ASSUME NEW t, GoodTable(t)
  PROVE  /\ BucketCount(t) \in Sizes /\ BucketCount(t) \in Nat /\ BucketCount(t) >= 4
         /\ DOMAIN t.buckets = 0 .. BucketCount(t) - 1
         /\ Nonempty(t) = Full(t.buckets) /\ Live(t) = Taken(t.buckets)
         /\ NumNonempty(t) = Cardinality(Full(t.buckets))
         /\ Size(t) = Cardinality(Taken(t.buckets))
         /\ Size(t) \in Nat /\ NumNonempty(t) \in Nat /\ NumNonempty(t) = Size(t) + t.num_deleted
         /\ NumNonempty(t) < BucketCount(t)
         /\ \A i \in 0 .. BucketCount(t) - 1 : TestDeleted(t, i) <=> i \in Marks(t.buckets)
<1> DEFINE n == BucketCount(t)
           b == t.buckets
<1>1. n \in Sizes /\ n \in Nat /\ n >= 4 /\ b \in [0 .. n - 1 -> Slot]
      /\ t.num_deleted = Cardinality(Marks(b)) /\ Cardinality(Full(b)) <= EnlargeSize(n)
  BY SizesAre DEF GoodTable, InPlace
<1> HIDE DEF n
<1>2. /\ IsFiniteSet(Full(b)) /\ IsFiniteSet(Taken(b)) /\ IsFiniteSet(Marks(b))
      /\ Cardinality(Full(b)) \in Nat /\ Cardinality(Taken(b)) \in Nat /\ Cardinality(Marks(b)) \in Nat
      /\ Full(b) = Taken(b) \cup Marks(b) /\ Taken(b) \cap Marks(b) = {}
      /\ Cardinality(Full(b)) = Cardinality(Taken(b)) + Cardinality(Marks(b))
  BY <1>1, CountKinds
<1>3. \A i \in 0 .. n - 1 : TestDeleted(t, i) <=> i \in Marks(b)
  <2> SUFFICES ASSUME NEW i \in 0 .. n - 1 PROVE TestDeleted(t, i) <=> i \in Marks(b)
    OBVIOUS
  <2>1. i \in Marks(b) <=> b[i] = Mark
    BY <1>1 DEF Marks
  <2>2. i \in Marks(b) => Cardinality(Marks(b)) > 0
    <3>1. i \in Marks(b) => Marks(b) # {}
      OBVIOUS
    <3> QED BY <1>2, <3>1, FS_EmptySet
  <2> QED BY <1>1, <2>1, <2>2 DEF TestDeleted
<1>4. Nonempty(t) = Full(b)
  BY DEF Nonempty, Full
<1>5. Live(t) = Taken(b)
  <2>1. Full(b) \subseteq 0 .. n - 1
    BY <1>1 DEF Full
  <2> QED BY <1>2, <1>3, <1>4, <2>1 DEF Live
<1>6. NumNonempty(t) = Cardinality(Full(b)) /\ Size(t) = Cardinality(Taken(b))
  BY <1>1, <1>2, <1>4 DEF NumNonempty, Size
<1>7. Cardinality(Full(b)) < n
  <2>1. EnlargeSize(n) < n /\ EnlargeSize(n) \in Nat
    BY <1>1, EnlargeSizeIs
  <2> QED BY <1>1, <1>2, <2>1
<1> QED BY <1>1, <1>2, <1>3, <1>4, <1>5, <1>6, <1>7 DEF n

-----------------------------------------------------------------------------
(***************************************************************************)
(* Searches                                                                *)
(***************************************************************************)
LEMMA FirstIs ==
  ASSUME NEW S, S \subseteq Nat, S # {}
  PROVE  First(S) \in S /\ \A j \in S : First(S) <= j
BY LeastNat DEF First

(* find_position() finds the entry of a key that is there, and for one     *)
(* that is not a bucket where it will be found.                            *)
LEMMA FindPositionIs ==
  ASSUME NEW t, GoodTable(t), NEW k \in Key
  PROVE  LET n == BucketCount(t)
             b == t.buckets
             p == FindPosition(t, k)
         IN /\ p = [found |-> p.found, pos |-> p.pos]
            /\ p.found \in BOOLEAN /\ p.pos \in 0 .. n - 1
            /\ p.found => p.pos \in Taken(b) /\ b[p.pos].key = k
            /\ ~p.found => /\ p.pos \notin Taken(b) /\ Reached(b, n, k, p.pos)
                           /\ \A i \in Taken(b) : b[i].key # k
<1> DEFINE n == BucketCount(t)
           b == t.buckets
           p == FindPosition(t, k)
           S == Stops(t, k)
           last == First(S)
           marks == {i \in 0 .. last : TestDeleted(t, Probe(n, k, i))}
           at == Probe(n, k, last)
<1>1. /\ n \in Sizes /\ n \in Nat /\ DOMAIN b = 0 .. n - 1 /\ b \in [0 .. n - 1 -> Slot]
      /\ InPlace(b, n) /\ Cardinality(Full(b)) < n
      /\ \A i \in 0 .. n - 1 : TestDeleted(t, i) <=> i \in Marks(b)
  BY GoodCounts DEF GoodTable, InPlace
<1>2. p = IF Holds(t, at, k) THEN [found |-> TRUE, pos |-> at]
          ELSE [found |-> FALSE, pos |-> IF marks = {} THEN at ELSE Probe(n, k, First(marks))]
  BY DEF FindPosition
<1>3. S = {i \in 0 .. n - 1 : b[Probe(n, k, i)] = Empty \/ Holds(t, Probe(n, k, i), k)}
  BY DEF Stops
<1> HIDE DEF n, b, p, S
<1>4. \A i \in Nat : Probe(n, k, i) \in 0 .. n - 1
  BY <1>1, ProbeType
<1>5. \A i \in 0 .. n - 1 : Holds(t, i, k) <=> i \in Taken(b) /\ b[i].key = k
  <2> SUFFICES ASSUME NEW i \in 0 .. n - 1 PROVE Holds(t, i, k) <=> i \in Taken(b) /\ b[i].key = k
    OBVIOUS
  <2>1. b[i] \in Slot
    BY <1>1
  <2>2. Holds(t, i, k) <=> b[i] # Mark /\ b[i] # Empty /\ b[i].key = k
    BY <1>1 DEF Holds, Marks, b
  <2>3. i \in Taken(b) <=> b[i] # Mark /\ b[i] # Empty
    BY <1>1, <2>1, Slots DEF Taken, Slot
  <2> QED BY <2>2, <2>3
<1>6. S # {} /\ S \subseteq Nat
  <2>1. \E j \in 0 .. n - 1 : b[Probe(n, k, j)] = Empty
    BY <1>1, EmptyOnTheWay
  <2>2. S # {}
    BY <1>3, <2>1
  <2> QED BY <1>1, <1>3, <2>2
<1>7. last \in S /\ \A j \in S : last <= j
  BY <1>6, FirstIs
<1> HIDE DEF last
<1>8. last \in 0 .. n - 1 /\ last \in Nat /\ at \in 0 .. n - 1
      /\ (b[at] = Empty \/ Holds(t, at, k))
      /\ \A l \in 0 .. last - 1 : b[Probe(n, k, l)] # Empty /\ ~Holds(t, Probe(n, k, l), k)
  <2>1. last \in 0 .. n - 1 /\ (b[at] = Empty \/ Holds(t, at, k))
    BY <1>3, <1>7
  <2>2. last \in Nat
    BY <1>1, <2>1
  <2>3. ASSUME NEW l \in 0 .. last - 1
        PROVE  b[Probe(n, k, l)] # Empty /\ ~Holds(t, Probe(n, k, l), k)
    <3>1. l \in 0 .. n - 1 /\ ~(last <= l)
      BY <1>1, <2>1
    <3> QED BY <1>3, <1>7, <3>1
  <2> QED BY <1>4, <2>1, <2>2, <2>3
<1>9. CASE Holds(t, at, k)
  <2>1. p = [found |-> TRUE, pos |-> at]
    BY <1>2, <1>9
  <2>2. at \in Taken(b) /\ b[at].key = k
    BY <1>5, <1>8, <1>9
  <2> HIDE DEF at
  <2> QED BY <1>8, <2>1, <2>2 DEF n, b, p
<1>10. CASE ~Holds(t, at, k)
  <2>1. b[at] = Empty
    BY <1>8, <1>10
  <2>2. \E j \in 0 .. last : p = [found |-> FALSE, pos |-> Probe(n, k, j)] /\ Probe(n, k, j) \notin Taken(b)
    <3>1. CASE marks = {}
      <4>1. p = [found |-> FALSE, pos |-> at]
        BY <1>2, <1>10, <3>1
      <4>2. at \notin Taken(b) /\ last \in 0 .. last
        BY <1>8, <2>1, Slots DEF Taken
      <4> QED BY <4>1, <4>2
    <3>2. CASE marks # {}
      <4>1. First(marks) \in marks
        <5>1. marks \subseteq Nat
          BY <1>8
        <5> HIDE DEF marks
        <5> QED BY <3>2, <5>1, FirstIs
      <4>2. p = [found |-> FALSE, pos |-> Probe(n, k, First(marks))]
        BY <1>2, <1>10, <3>2
      <4>3. First(marks) \in 0 .. last /\ TestDeleted(t, Probe(n, k, First(marks)))
        BY <4>1
      <4> HIDE DEF marks
      <4>4. Probe(n, k, First(marks)) \in Marks(b)
        BY <1>1, <1>4, <1>8, <4>3
      <4>5. Probe(n, k, First(marks)) \notin Taken(b)
        BY <4>4, Slots DEF Marks, Taken
      <4> QED BY <4>2, <4>3, <4>5
    <3> QED BY <3>1, <3>2
  <2>3. PICK j \in 0 .. last : p = [found |-> FALSE, pos |-> Probe(n, k, j)] /\ Probe(n, k, j) \notin Taken(b)
    BY <2>2
  <2>4. j \in 0 .. n - 1 /\ j \in Nat /\ \A l \in 0 .. j - 1 : l \in 0 .. last - 1
    BY <1>1, <1>8
  <2>5. Reached(b, n, k, Probe(n, k, j))
    BY <1>8, <2>4 DEF Reached, Way
  <2>6. ASSUME NEW i \in Taken(b), b[i].key = k PROVE FALSE
    <3>1. PICK m \in 0 .. n - 1 : Probe(n, k, m) = i /\ Way(b, n, k, m)
      BY <1>1, <2>6 DEF InPlace, Reached
    <3>2. i \in 0 .. n - 1 /\ Holds(t, i, k) /\ b[i] # Empty
      BY <1>1, <1>5, <2>6, Slots DEF Taken
    <3>3. CASE last < m
      <4>1. last \in 0 .. m - 1
        BY <1>1, <1>8, <3>3
      <4> QED BY <2>1, <3>1, <4>1 DEF Way
    <3>4. CASE last = m
      BY <2>1, <3>1, <3>2, <3>4
    <3>5. CASE m < last
      <4>1. m \in 0 .. last - 1
        BY <1>1, <1>8, <3>5
      <4> QED BY <1>8, <3>1, <3>2, <4>1
    <3> QED BY <1>1, <1>8, <3>3, <3>4, <3>5
  <2>7. p.found = FALSE /\ p.pos = Probe(n, k, j) /\ p.pos \in 0 .. n - 1
    BY <1>4, <2>3, <2>4
  <2> QED BY <2>3, <2>5, <2>6, <2>7 DEF n, b, p
<1> QED BY <1>9, <1>10

(* What copy_from() and move_from() do with an entry.                      *)
LEMMA PlacedInPlace ==
  ASSUME NEW n \in Sizes, NEW b, InPlace(b, n), Cardinality(Full(b)) < n,
         NEW e \in Entry, \A i \in Taken(b) : b[i].key # e.key
  PROVE  LET c == Placed(b, e)
         IN /\ InPlace(c, n) /\ Held(c) = Held(b) \cup {e} /\ Marks(c) = Marks(b)
            /\ Cardinality(Full(c)) = Cardinality(Full(b)) + 1
<1>1. b \in [0 .. n - 1 -> Slot] /\ n \in Nat /\ Cardinality(DOMAIN b) = n /\ e.key \in Key
  BY SizesAre, CountInterval, Slots DEF InPlace
<1> DEFINE k == e.key
           S == {j \in 0 .. n - 1 : b[Probe(n, k, j)] = Empty}
           f == First(S)
           pos == Probe(n, k, f)
<1>2. Placed(b, e) = Put(b, pos, e)
  BY <1>1 DEF Placed, Put
<1>3. S # {} /\ S \subseteq Nat
  BY <1>1, EmptyOnTheWay
<1>4. f \in S /\ \A j \in S : f <= j
  <2> HIDE DEF S
  <2> QED BY <1>3, FirstIs
<1> HIDE DEF f
<1>5. f \in 0 .. n - 1 /\ f \in Nat /\ b[pos] = Empty /\ pos \in 0 .. n - 1
  <2>1. f \in 0 .. n - 1 /\ b[pos] = Empty
    BY <1>4
  <2>2. f \in Nat
    BY <1>1, <2>1
  <2> QED BY <1>1, <2>1, <2>2, ProbeType
<1>6. Reached(b, n, k, pos)
  <2>1. ASSUME NEW l \in 0 .. f - 1 PROVE b[Probe(n, k, l)] # Empty
    <3>1. l \in 0 .. n - 1 /\ ~(f <= l)
      BY <1>1, <1>5
    <3> QED BY <1>4, <3>1
  <2> QED BY <1>5, <2>1 DEF Reached, Way
<1> HIDE DEF pos
<1>7. pos \notin Taken(b) /\ pos \notin Marks(b) /\ pos \notin Full(b)
  BY <1>5, Slots DEF Taken, Marks, Full
<1>8. LET c == Put(b, pos, e)
      IN /\ InPlace(c, n) /\ Taken(c) = Taken(b) \cup {pos} /\ Held(c) = Held(b) \cup {e}
         /\ Marks(c) = Marks(b) \ {pos} /\ Full(c) = Full(b) \cup {pos}
  <2>1. n \in Sizes /\ InPlace(b, n) /\ e \in Entry /\ \A i \in Taken(b) : b[i].key # e.key
    OBVIOUS
  <2>2. pos \in 0 .. n - 1 /\ pos \notin Taken(b) /\ Reached(b, n, e.key, pos)
    BY <1>5, <1>6, <1>7
  <2> QED BY <2>1, <2>2, PutInPlace
<1>9. Cardinality(Full(b) \cup {pos}) = Cardinality(Full(b)) + 1
  BY <1>1, <1>7, CountKinds, FS_AddElement
<1> QED BY <1>2, <1>7, <1>8, <1>9

-----------------------------------------------------------------------------
(***************************************************************************)
(* Moving to another table                                                 *)
(***************************************************************************)
LEMMA EmptyTableGood ==
  ASSUME NEW n \in Sizes, NEW d \in BOOLEAN
  PROVE  LET t == EmptyTable(n, d)
         IN /\ GoodTable(t) /\ BucketCount(t) = n
            /\ Full(t.buckets) = {} /\ Taken(t.buckets) = {} /\ Marks(t.buckets) = {}
            /\ Held(t.buckets) = {} /\ t.num_deleted = 0 /\ t.use_deleted = d
            /\ t = [buckets |-> t.buckets, num_deleted |-> 0, use_deleted |-> d, consider_shrink |-> FALSE,
                    enlarge_threshold |-> EnlargeSize(n), shrink_threshold |-> ShrinkSize(n)]
<1> DEFINE b == [i \in 0 .. n - 1 |-> Empty]
           r == [buckets |-> b, num_deleted |-> 0, use_deleted |-> d, consider_shrink |-> FALSE,
                 enlarge_threshold |-> 0, shrink_threshold |-> 0]
           t == EmptyTable(n, d)
<1>1. n \in Nat /\ n >= 4 /\ EnlargeSize(n) \in Nat /\ ShrinkSize(n) \in Nat
  BY SizesAre, EnlargeSizeIs
<1>2. b \in [0 .. n - 1 -> Slot] /\ DOMAIN b = 0 .. n - 1 /\ Full(b) = {} /\ Taken(b) = {} /\ Marks(b) = {}
  BY Slots DEF Slot, Full, Taken, Marks
<1> HIDE DEF b
<1>3. BucketCount(r) = n
  BY <1>1, <1>2, CountBuckets
<1>4. t = [buckets |-> b, num_deleted |-> 0, use_deleted |-> d, consider_shrink |-> FALSE,
           enlarge_threshold |-> EnlargeSize(n), shrink_threshold |-> ShrinkSize(n)]
  <2>1. t = WithThresholds(r)
    BY DEF EmptyTable, b
  <2> HIDE DEF t
  <2> QED BY <1>3, <2>1 DEF WithThresholds
<1> HIDE DEF t
<1>5. t.buckets = b /\ BucketCount(t) = n /\ t \in TableOfSize(n)
  BY <1>1, <1>2, <1>4, CountBuckets DEF TableOfSize
<1>6. Held(b) = {} /\ InPlace(b, n)
  BY <1>2 DEF Held, InPlace
<1>7. Cardinality(Full(b)) = 0 /\ Cardinality(Marks(b)) = 0
  BY <1>2, FS_EmptySet
<1>8. GoodTable(t)
  BY <1>1, <1>4, <1>5, <1>6, <1>7 DEF GoodTable
<1> QED BY <1>2, <1>4, <1>5, <1>6, <1>8 DEF t

(* Moving keeps what the table holds and leaves the marks behind.          *)
LEMMA MovedGood ==
  ASSUME NEW t, GoodTable(t), NEW n \in Sizes, Size(t) <= EnlargeSize(n)
  PROVE  LET u == Moved(t, n)
         IN /\ GoodTable(u) /\ BucketCount(u) = n /\ Held(u.buckets) = Held(t.buckets)
            /\ u.num_deleted = 0 /\ NumNonempty(u) = Size(t) /\ Size(u) = Size(t)
            /\ u.use_deleted = t.use_deleted
<1> DEFINE m == BucketCount(t)
           b == t.buckets
           into == EmptyTable(n, t.use_deleted)
           Before(i) == Taken(b) \cap (0 .. i - 1)
           Allowed(i) == {x \in [0 .. n - 1 -> Slot] :
                            /\ InPlace(x, n) /\ Marks(x) = {}
                            /\ Held(x) = {b[j] : j \in Before(i)}
                            /\ Cardinality(Full(x)) = Cardinality(Before(i))}
           I == [i \in 0 .. m |-> Allowed(i)]
           Step(i, x) == IF i - 1 \in Live(t) THEN Placed(x, b[i - 1]) ELSE x
           g == [i \in 1 .. m |-> [x \in I[i - 1] |-> Step(i, x)]]
<1>1. /\ m \in Sizes /\ m \in Nat /\ m >= 4 /\ b \in [0 .. m - 1 -> Slot] /\ InPlace(b, m)
      /\ Live(t) = Taken(b) /\ Size(t) = Cardinality(Taken(b)) /\ t.use_deleted \in BOOLEAN
      /\ n \in Nat /\ n >= 4 /\ EnlargeSize(n) < n /\ EnlargeSize(n) \in Nat
      /\ IsFiniteSet(Taken(b)) /\ Size(t) \in Nat
  <2>1. m \in Sizes /\ t \in TableOfSize(m) /\ InPlace(b, m)
    BY DEF GoodTable
  <2>2. b \in [0 .. m - 1 -> Slot] /\ t.use_deleted \in BOOLEAN
    BY <2>1 DEF InPlace, TableOfSize
  <2> HIDE DEF m, b
  <2>3. IsFiniteSet(Taken(b))
    BY <2>1, <2>2, CountKinds
  <2>4. n \in Nat /\ n >= 4 /\ m \in Nat /\ m >= 4
    BY <2>1, SizesAre
  <2>5. EnlargeSize(n) < n /\ EnlargeSize(n) \in Nat
    BY <2>4, EnlargeSizeIs
  <2>6. Live(t) = Taken(b) /\ Size(t) = Cardinality(Taken(b)) /\ Size(t) \in Nat
    BY GoodCounts DEF b
  <2> QED BY <2>1, <2>2, <2>3, <2>4, <2>5, <2>6
<1>2. /\ GoodTable(into) /\ BucketCount(into) = n /\ Full(into.buckets) = {}
      /\ Marks(into.buckets) = {} /\ Held(into.buckets) = {}
      /\ into = [buckets |-> into.buckets, num_deleted |-> 0, use_deleted |-> t.use_deleted,
                 consider_shrink |-> FALSE,
                 enlarge_threshold |-> EnlargeSize(n), shrink_threshold |-> ShrinkSize(n)]
  BY <1>1, EmptyTableGood
<1> HIDE DEF m, b, into
<1>3. \A i \in 0 .. m : Cardinality(Before(i)) \in Nat /\ Cardinality(Before(i)) <= Size(t)
  BY <1>1, FS_Subset, FS_CardinalityType
<1>4. into.buckets \in I[0]
  <2>1. Before(0) = {} /\ 0 \in 0 .. m
    BY <1>1
  <2>2. InPlace(into.buckets, n) /\ into.buckets \in [0 .. n - 1 -> Slot]
    BY <1>2 DEF GoodTable, InPlace
  <2>3. Cardinality(Full(into.buckets)) = Cardinality(Before(0))
    BY <1>2, <2>1
  <2>4. Held(into.buckets) = {b[j] : j \in Before(0)}
    BY <1>2, <2>1
  <2> HIDE DEF Before
  <2> QED BY <1>2, <2>1, <2>2, <2>3, <2>4
<1>5. ASSUME NEW i \in 1 .. m, NEW x \in I[i - 1] PROVE Step(i, x) \in I[i]
  <2>1. i - 1 \in 0 .. m /\ i \in 0 .. m
    BY <1>1
  <2>2. /\ x \in [0 .. n - 1 -> Slot] /\ InPlace(x, n) /\ Marks(x) = {}
        /\ Held(x) = {b[j] : j \in Before(i - 1)}
        /\ Cardinality(Full(x)) = Cardinality(Before(i - 1))
    <3> HIDE DEF Before
    <3> QED BY <2>1
  <2>3. CASE i - 1 \in Taken(b)
    <3>1. Before(i) = Before(i - 1) \cup {i - 1} /\ i - 1 \notin Before(i - 1)
      BY <1>1, <2>1, <2>3 DEF Taken
    <3>2. b[i - 1] \in Entry
      BY <2>3 DEF Taken
    <3>3. \A j \in Taken(x) : x[j].key # b[i - 1].key
      <4> SUFFICES ASSUME NEW j \in Taken(x), x[j].key = b[i - 1].key PROVE FALSE
        OBVIOUS
      <4>1. PICK h \in Before(i - 1) : x[j] = b[h]
        <5> HIDE DEF Before
        <5> QED BY <2>2 DEF Held
      <4>2. h \in Taken(b) /\ h # i - 1
        BY <3>1
      <4> HIDE DEF Before
      <4> QED BY <1>1, <2>3, <4>1, <4>2 DEF InPlace
    <3>4. Cardinality(Full(x)) < n
      <4> HIDE DEF Before
      <4>1. Cardinality(Full(x)) <= Size(t) /\ Cardinality(Full(x)) \in Nat
        BY <1>3, <2>1, <2>2
      <4> QED BY <1>1, <4>1
    <3> DEFINE c == Placed(x, b[i - 1])
    <3>5. /\ InPlace(c, n) /\ Held(c) = Held(x) \cup {b[i - 1]} /\ Marks(c) = Marks(x)
          /\ Cardinality(Full(c)) = Cardinality(Full(x)) + 1
      BY <2>2, <3>2, <3>3, <3>4, PlacedInPlace
    <3>6. Step(i, x) = c
      BY <1>1, <2>3
    <3> HIDE DEF c, Step
    <3>7. c \in [0 .. n - 1 -> Slot]
      BY <3>5 DEF InPlace
    <3>8. Cardinality(Before(i)) = Cardinality(Before(i - 1)) + 1
      <4>1. IsFiniteSet(Before(i - 1))
        BY <1>1, FS_Subset
      <4> HIDE DEF Before
      <4> QED BY <3>1, <4>1, FS_AddElement
    <3>9. Held(c) = {b[j] : j \in Before(i)}
      <4> HIDE DEF Before
      <4> QED BY <2>2, <3>1, <3>5
    <3> HIDE DEF Before
    <3> QED BY <2>1, <2>2, <3>5, <3>6, <3>7, <3>8, <3>9
  <2>4. CASE i - 1 \notin Taken(b)
    <3>1. Before(i) = Before(i - 1)
      BY <1>1, <2>1, <2>4
    <3>2. Step(i, x) = x
      BY <1>1, <2>4
    <3> HIDE DEF Before, Step
    <3> QED BY <2>1, <2>2, <3>1, <3>2
  <2> QED BY <2>3, <2>4
<1>6. \A i \in 1 .. m : \A x \in I[i - 1] : g[i][x] = Step(i, x)
  <2> HIDE DEF I, Step
  <2> QED OBVIOUS
<1> DEFINE Fill(f) == [i \in 0 .. m |-> IF i = 0 THEN into.buckets
                                        ELSE IF i - 1 \in Live(t) THEN Placed(f[i - 1], b[i - 1])
                                        ELSE f[i - 1]]
           filled == CHOOSE f : f = Fill(f)
<1>7. \E f : f = Fill(f)
  <2> HIDE DEF I, g
  <2>1. \A i \in 1 .. m : \A x \in I[i - 1] : g[i][x] \in I[i]
    BY <1>5, <1>6
  <2>0. PICK f : Folded(f, m, into.buckets, g) /\ \A i \in 0 .. m : f[i] \in I[i]
    BY <1>1, <1>4, <2>1, FoldExists
  <2>2. /\ f = [i \in 0 .. m |-> f[i]]
        /\ \A i \in 0 .. m : f[i] = IF i = 0 THEN into.buckets ELSE g[i][f[i - 1]]
        /\ \A i \in 0 .. m : f[i] \in I[i]
    BY <2>0 DEF Folded
  <2>3. ASSUME NEW i \in 0 .. m, i # 0 PROVE f[i] = Step(i, f[i - 1])
    <3>1. i \in 1 .. m /\ i - 1 \in 0 .. m
      BY <1>1, <2>3
    <3> HIDE DEF Step
    <3> QED BY <1>6, <2>2, <2>3, <3>1
  <2>4. \A i \in 0 .. m : f[i] = Fill(f)[i]
    BY <2>2, <2>3
  <2>5. Fill(f) = [i \in 0 .. m |-> Fill(f)[i]]
    OBVIOUS
  <2> HIDE DEF Fill
  <2> QED BY <2>2, <2>4, <2>5
<1>8. filled = Fill(filled)
  <2> HIDE DEF Fill
  <2> QED BY <1>7
<1>9. Moved(t, n) = [into EXCEPT !.buckets = filled[m]]
  BY DEF Moved, into, m, b
<1> HIDE DEF filled
<1>10. \A i \in 0 .. m : filled[i] = IF i = 0 THEN into.buckets ELSE Step(i, filled[i - 1])
  BY <1>8
<1> HIDE DEF Fill, Step, g
<1>11. filled[m] \in I[m]
  <2>1. filled[0] \in I[0]
    <3>1. 0 \in 0 .. m
      BY <1>1
    <3> HIDE DEF I
    <3> QED BY <1>4, <1>10, <3>1
  <2>2. \A i \in 1 .. m : filled[i - 1] \in I[i - 1] => filled[i] \in I[i]
    <3>1. \A i \in 1 .. m : i \in 0 .. m /\ i # 0
      OBVIOUS
    <3> HIDE DEF I
    <3> QED BY <1>5, <1>10, <3>1
  <2>3. m \in 0 .. m
    BY <1>1
  <2> HIDE DEF I
  <2> QED BY <1>1, <2>1, <2>2, <2>3, FoldStays
<1> DEFINE c == filled[m]
           u == Moved(t, n)
<1>12. /\ c \in [0 .. n - 1 -> Slot] /\ InPlace(c, n) /\ Marks(c) = {}
       /\ Held(c) = {b[j] : j \in Before(m)}
       /\ Cardinality(Full(c)) = Cardinality(Before(m))
  <2>1. m \in 0 .. m
    BY <1>1
  <2> HIDE DEF Before
  <2> QED BY <1>11, <2>1
<1>13. Before(m) = Taken(b)
  BY <1>1 DEF Taken
<1> HIDE DEF c, I, Before
<1>14. u = [buckets |-> c, num_deleted |-> 0, use_deleted |-> t.use_deleted, consider_shrink |-> FALSE,
            enlarge_threshold |-> EnlargeSize(n), shrink_threshold |-> ShrinkSize(n)]
  <2>1. u = [into EXCEPT !.buckets = c]
    BY <1>9 DEF c
  <2> HIDE DEF u
  <2>2. PICK e : into = [buckets |-> e, num_deleted |-> 0, use_deleted |-> t.use_deleted,
                         consider_shrink |-> FALSE, enlarge_threshold |-> EnlargeSize(n),
                         shrink_threshold |-> ShrinkSize(n)]
    BY <1>2
  <2> QED BY <2>1, <2>2
<1> HIDE DEF u
<1>15. u \in TableOfSize(n) /\ u.buckets = c /\ BucketCount(u) = n
  <2>1. EnlargeSize(n) \in Nat /\ ShrinkSize(n) \in Nat /\ c \in [0 .. n - 1 -> Slot] /\ t.use_deleted \in BOOLEAN
    BY <1>1, <1>12, EnlargeSizeIs
  <2>2. u \in TableOfSize(n) /\ u.buckets = c
    BY <1>14, <2>1 DEF TableOfSize
  <2> QED BY <1>1, <2>1, <2>2, CountBuckets
<1>16. GoodTable(u)
  <2>1. Cardinality(Marks(c)) = 0
    BY <1>12, FS_EmptySet
  <2>2. Cardinality(Full(c)) <= EnlargeSize(n)
    BY <1>1, <1>12, <1>13
  <2> QED BY <1>12, <1>14, <1>15, <2>1, <2>2 DEF GoodTable
<1>17. NumNonempty(u) = Size(t) /\ Size(u) = Size(t)
  <2>1. NumNonempty(u) = Cardinality(Full(c)) /\ NumNonempty(u) = Size(u) + u.num_deleted /\ Size(u) \in Nat
    BY <1>15, <1>16, GoodCounts
  <2> QED BY <1>1, <1>12, <1>13, <1>14, <2>1
<1>18. Held(c) = Held(b)
  BY <1>12, <1>13 DEF Held
<1> QED BY <1>14, <1>15, <1>16, <1>17, <1>18 DEF u, b

(* The settings say nothing of the buckets.                                *)
LEMMA SettingsGood ==
  ASSUME NEW t, GoodTable(t), NEW x \in BOOLEAN
  PROVE  /\ LET u == [t EXCEPT !.consider_shrink = x]
            IN /\ GoodTable(u) /\ u.buckets = t.buckets /\ u.num_deleted = t.num_deleted
               /\ u.use_deleted = t.use_deleted /\ NumNonempty(u) = NumNonempty(t)
               /\ BucketCount(u) = BucketCount(t)
         /\ LET u == [t EXCEPT !.use_deleted = x]
            IN GoodTable(u) /\ u.buckets = t.buckets
<1> DEFINE n == BucketCount(t)
           u == [t EXCEPT !.consider_shrink = x]
           w == [t EXCEPT !.use_deleted = x]
<1>1. n \in Sizes /\ t \in TableOfSize(n)
  BY DEF GoodTable
<1> HIDE DEF n
<1>2. /\ u \in TableOfSize(n) /\ u.buckets = t.buckets /\ u.num_deleted = t.num_deleted
      /\ u.use_deleted = t.use_deleted
      /\ u.enlarge_threshold = t.enlarge_threshold /\ u.shrink_threshold = t.shrink_threshold
      /\ w \in TableOfSize(n) /\ w.buckets = t.buckets /\ w.num_deleted = t.num_deleted
      /\ w.enlarge_threshold = t.enlarge_threshold /\ w.shrink_threshold = t.shrink_threshold
  BY <1>1 DEF TableOfSize
<1> HIDE DEF u, w
<1>3. BucketCount(u) = n /\ BucketCount(w) = n /\ NumNonempty(u) = NumNonempty(t)
  BY <1>2 DEF n, BucketCount, NumNonempty, Nonempty
<1>4. GoodTable(u)
  BY <1>2, <1>3 DEF GoodTable, n
<1>5. GoodTable(w)
  BY <1>2, <1>3 DEF GoodTable, n
<1> QED BY <1>2, <1>3, <1>4, <1>5 DEF u, w, n

LEMMA RehashedGood ==
  ASSUME NEW t, GoodTable(t), NEW wanted \in Nat
  PROVE  LET u == Rehashed(t, wanted)
         IN /\ GoodTable(u) /\ Held(u.buckets) = Held(t.buckets) /\ u.num_deleted = 0
            /\ NumNonempty(u) = Size(t) /\ Size(u) = Size(t) /\ u.use_deleted = t.use_deleted
            /\ BucketCount(u) \in Sizes /\ BucketCount(u) >= wanted
<1> DEFINE n == MinBuckets(Size(t), wanted)
<1>1. Size(t) \in Nat
  BY GoodCounts
<1>2. n \in Sizes /\ n >= wanted /\ Size(t) < EnlargeSize(n)
  BY <1>1, MinBucketsFits
<1>3. Size(t) <= EnlargeSize(n)
  <2>1. EnlargeSize(n) \in Nat
    BY <1>2, SizesAre, EnlargeSizeIs
  <2> QED BY <1>1, <1>2, <2>1
<1>4. Rehashed(t, wanted) = Moved(t, n)
  BY DEF Rehashed
<1> HIDE DEF n
<1> QED BY <1>2, <1>3, <1>4, MovedGood

(* squash_deleted()                                                        *)
LEMMA SquashedGood ==
  ASSUME NEW t, GoodTable(t)
  PROVE  LET u == Squashed(t)
         IN GoodTable(u) /\ Held(u.buckets) = Held(t.buckets) /\ u.num_deleted = 0
<1> DEFINE n == BucketCount(t)
<1>1. n \in Sizes /\ Size(t) \in Nat /\ NumNonempty(t) \in Nat /\ NumNonempty(t) = Size(t) + t.num_deleted
      /\ NumNonempty(t) = Cardinality(Full(t.buckets)) /\ t.num_deleted \in Nat
      /\ Cardinality(Full(t.buckets)) <= EnlargeSize(n)
  BY GoodCounts DEF GoodTable, TableOfSize
<1>2. EnlargeSize(n) \in Nat
  BY <1>1, SizesAre, EnlargeSizeIs
<1>3. Size(t) <= EnlargeSize(n)
  BY <1>1, <1>2
<1>4. CASE t.num_deleted > 0
  <2>1. Squashed(t) = Moved(t, n)
    BY <1>4 DEF Squashed
  <2> HIDE DEF n
  <2> QED BY <1>1, <1>3, <2>1, MovedGood
<1>5. CASE ~(t.num_deleted > 0)
  <2>1. Squashed(t) = t /\ t.num_deleted = 0
    BY <1>1, <1>5 DEF Squashed
  <2> QED BY <2>1
<1> QED BY <1>4, <1>5

(* maybe_shrink()                                                          *)
LEMMA MaybeShrunkGood ==
  ASSUME NEW t, GoodTable(t)
  PROVE  LET u == MaybeShrunk(t)
         IN /\ GoodTable(u) /\ Held(u.buckets) = Held(t.buckets)
            /\ u.use_deleted = t.use_deleted
            /\ ~ShouldShrink(t) => u.buckets = t.buckets /\ u.num_deleted = t.num_deleted
<1> DEFINE w == IF ShouldShrink(t) THEN Rehashed(t, ShrinkTo(t)) ELSE t
<1>1. BucketCount(t) \in Nat /\ BucketCount(t) > 0
  BY GoodCounts
<1>2. ShrinkTo(t) \in Nat
  BY <1>1, ShrinkToType
<1>3. GoodTable(w) /\ Held(w.buckets) = Held(t.buckets) /\ w.use_deleted = t.use_deleted
  BY <1>2, RehashedGood
<1>4. ~ShouldShrink(t) => w = t
  OBVIOUS
<1>5. MaybeShrunk(t) = [w EXCEPT !.consider_shrink = FALSE]
  BY DEF MaybeShrunk
<1> HIDE DEF w
<1> QED BY <1>3, <1>4, <1>5, SettingsGood

LEMMA EnlargeToFits ==
  ASSUME NEW t, GoodTable(t), NEW delta \in Nat
  PROVE  EnlargeTo(t, delta) \in Sizes /\ Size(t) + delta < EnlargeSize(EnlargeTo(t, delta))
<1> DEFINE n == MinBuckets(Size(t) + delta, BucketCount(t))
<1>1. Size(t) \in Nat /\ BucketCount(t) \in Nat /\ Size(t) + delta \in Nat
  BY GoodCounts
<1>2. n \in Sizes /\ Size(t) + delta < EnlargeSize(n)
  BY <1>1, MinBucketsFits
<1>3. EnlargeTo(t, delta) \in {n, 2 * n}
  BY DEF EnlargeTo
<1> HIDE DEF n
<1>4. 2 * n \in Sizes /\ n \in Nat /\ n >= 4 /\ 2 * n >= n /\ 2 * n \in Nat /\ 2 * n >= 4
  BY <1>2, SizesAre
<1>5. EnlargeSize(n) \in Nat /\ EnlargeSize(2 * n) \in Nat /\ EnlargeSize(2 * n) >= EnlargeSize(n)
  BY <1>4, EnlargeSizeIs
<1>6. Size(t) + delta < EnlargeSize(2 * n)
  BY <1>1, <1>2, <1>5
<1> QED BY <1>2, <1>3, <1>4, <1>6

(* resize_delta() keeps what the table holds and makes room.               *)
LEMMA WithRoomGood ==
  ASSUME NEW t, GoodTable(t), NEW delta \in Nat
  PROVE  LET r == WithRoom(t, delta)
             u == r.table
         IN /\ GoodTable(u) /\ Held(u.buckets) = Held(t.buckets)
            /\ NumNonempty(u) + delta <= EnlargeSize(BucketCount(u))
            /\ u.use_deleted = t.use_deleted
            /\ ~r.moved => u.buckets = t.buckets /\ u.num_deleted = t.num_deleted
<1> DEFINE shrunk == t.consider_shrink /\ ShouldShrink(t)
           w == IF t.consider_shrink THEN MaybeShrunk(t) ELSE t
           r == WithRoom(t, delta)
           enlarged == TooFull(w, delta) /\ MinBuckets(NumNonempty(w) + delta, 0) > BucketCount(w)
<1>1. /\ GoodTable(w) /\ Held(w.buckets) = Held(t.buckets) /\ w.use_deleted = t.use_deleted
      /\ ~shrunk => w.buckets = t.buckets /\ w.num_deleted = t.num_deleted
  BY MaybeShrunkGood
<1>2. /\ enlarged => r = [table |-> Rehashed(w, EnlargeTo(w, delta)), moved |-> TRUE]
      /\ ~enlarged => r = [table |-> w, moved |-> shrunk]
  BY DEF WithRoom
<1> HIDE DEF w, shrunk
<1>3. /\ Size(w) \in Nat /\ NumNonempty(w) \in Nat /\ NumNonempty(w) + delta \in Nat
      /\ BucketCount(w) \in Nat /\ BucketCount(w) >= 4
      /\ w.enlarge_threshold = EnlargeSize(BucketCount(w))
  <2>1. w.enlarge_threshold = EnlargeSize(BucketCount(w))
    BY <1>1 DEF GoodTable
  <2> QED BY <1>1, <2>1, GoodCounts
<1>4. CASE enlarged
  <2> DEFINE n == EnlargeTo(w, delta)
             u == Rehashed(w, n)
  <2>1. r = [table |-> u, moved |-> TRUE]
    BY <1>2, <1>4
  <2>2. n \in Sizes /\ Size(w) + delta < EnlargeSize(n)
    BY <1>1, EnlargeToFits
  <2>3. n \in Nat /\ n >= 4
    BY <2>2, SizesAre
  <2>4. /\ GoodTable(u) /\ Held(u.buckets) = Held(w.buckets) /\ NumNonempty(u) = Size(w)
        /\ BucketCount(u) \in Sizes /\ BucketCount(u) >= n /\ u.use_deleted = w.use_deleted
    BY <1>1, <2>3, RehashedGood
  <2> HIDE DEF u, n, r, enlarged
  <2>5. BucketCount(u) \in Nat /\ BucketCount(u) >= 4
    BY <2>4, SizesAre
  <2>6. EnlargeSize(n) \in Nat /\ EnlargeSize(BucketCount(u)) \in Nat
        /\ EnlargeSize(BucketCount(u)) >= EnlargeSize(n)
    BY <2>3, <2>4, <2>5, EnlargeSizeIs
  <2>7. NumNonempty(u) + delta <= EnlargeSize(BucketCount(u))
    BY <1>3, <2>2, <2>4, <2>6
  <2>8. r.table = u /\ r.moved = TRUE
    BY <2>1
  <2> QED BY <1>1, <2>4, <2>7, <2>8 DEF r
<1>5. CASE ~enlarged
  <2>1. r.table = w /\ r.moved = shrunk
    BY <1>2, <1>5
  <2>2. EnlargeSize(BucketCount(w)) \in Nat
    BY <1>3, EnlargeSizeIs
  <2>3. NumNonempty(w) + delta <= EnlargeSize(BucketCount(w))
    <3>1. CASE ~TooFull(w, delta)
      BY <1>3, <2>2, <3>1 DEF TooFull
    <3>2. CASE ~(MinBuckets(NumNonempty(w) + delta, 0) > BucketCount(w))
      <4> DEFINE m == MinBuckets(NumNonempty(w) + delta, 0)
      <4>1. m \in Sizes /\ NumNonempty(w) + delta < EnlargeSize(m)
        BY <1>3, MinBucketsFits
      <4> HIDE DEF m
      <4>2. m \in Nat /\ m >= 4
        BY <4>1, SizesAre
      <4>3. m <= BucketCount(w)
        BY <1>3, <3>2, <4>2 DEF m
      <4>4. EnlargeSize(m) \in Nat /\ EnlargeSize(m) <= EnlargeSize(BucketCount(w))
        BY <1>3, <4>2, <4>3, EnlargeSizeIs
      <4> QED BY <1>3, <2>2, <4>1, <4>4
    <3> QED BY <1>5, <3>1, <3>2
  <2> HIDE DEF r, enlarged
  <2> QED BY <1>1, <2>1, <2>3 DEF r
<1> QED BY <1>4, <1>5

-----------------------------------------------------------------------------
(***************************************************************************)
(* Insertion                                                               *)
(***************************************************************************)
HasKey(H, k) == \E e \in H : e.key = k

Added(H, e) == IF HasKey(H, e.key) THEN H ELSE H \cup {e}

(* insert_at() at a bucket that find_position() gives for a new key.       *)
LEMMA InsertedAtGood ==
  ASSUME NEW t, GoodTable(t), NEW e \in Entry, NEW pos \in 0 .. BucketCount(t) - 1,
         pos \notin Taken(t.buckets), Reached(t.buckets, BucketCount(t), e.key, pos),
         \A i \in Taken(t.buckets) : t.buckets[i].key # e.key,
         NumNonempty(t) + 1 <= EnlargeSize(BucketCount(t))
  PROVE  LET u == InsertedAt(t, e, pos)
         IN /\ GoodTable(u) /\ Held(u.buckets) = Held(t.buckets) \cup {e}
            /\ BucketCount(u) = BucketCount(t) /\ NumNonempty(u) <= NumNonempty(t) + 1
<1> DEFINE n == BucketCount(t)
           b == t.buckets
           c == Put(b, pos, e)
           u == InsertedAt(t, e, pos)
           d == IF TestDeleted(t, pos) THEN t.num_deleted - 1 ELSE t.num_deleted
<1>1. /\ n \in Sizes /\ n \in Nat /\ t \in TableOfSize(n) /\ InPlace(b, n) /\ b \in [0 .. n - 1 -> Slot]
      /\ t.num_deleted = Cardinality(Marks(b)) /\ t.enlarge_threshold = EnlargeSize(n)
      /\ t.shrink_threshold = ShrinkSize(n) /\ NumNonempty(t) = Cardinality(Full(b))
      /\ TestDeleted(t, pos) <=> pos \in Marks(b)
  BY GoodCounts DEF GoodTable, InPlace
<1>2. /\ InPlace(c, n) /\ Held(c) = Held(b) \cup {e}
      /\ Marks(c) = Marks(b) \ {pos} /\ Full(c) = Full(b) \cup {pos}
  <2>1. n \in Sizes /\ InPlace(b, n) /\ pos \in 0 .. n - 1 /\ pos \notin Taken(b) /\ Reached(b, n, e.key, pos)
        /\ \A i \in Taken(b) : b[i].key # e.key
    BY <1>1
  <2> HIDE DEF n, b
  <2> QED BY <2>1, PutInPlace
<1>3. IsFiniteSet(Marks(b)) /\ IsFiniteSet(Full(b)) /\ Cardinality(Marks(b)) \in Nat /\ Cardinality(Full(b)) \in Nat
  BY <1>1, CountKinds
<1>4. u = [t EXCEPT !.num_deleted = d, !.buckets = c]
  BY <1>1 DEF InsertedAt, Put, TableOfSize
<1> HIDE DEF n, b, c, u, d
<1>5. d = Cardinality(Marks(c)) /\ d \in Nat
  <2>1. CASE pos \in Marks(b)
    <3>1. Cardinality(Marks(c)) = Cardinality(Marks(b)) - 1
      BY <1>2, <1>3, <2>1, FS_RemoveElement
    <3>2. Cardinality(Marks(c)) \in Nat
      BY <1>2, <1>3, FS_Difference, FS_Subset, FS_CardinalityType
    <3> QED BY <1>1, <2>1, <3>1, <3>2 DEF d
  <2>2. CASE pos \notin Marks(b)
    <3>1. Marks(c) = Marks(b)
      BY <1>2, <2>2
    <3> QED BY <1>1, <1>3, <2>2, <3>1 DEF d
  <2> QED BY <2>1, <2>2
<1>6. Cardinality(Full(c)) \in Nat /\ Cardinality(Full(c)) <= Cardinality(Full(b)) + 1
  <2>1. CASE pos \in Full(b)
    <3>1. Full(c) = Full(b)
      BY <1>2, <2>1
    <3> QED BY <1>3, <3>1
  <2>2. CASE pos \notin Full(b)
    <3>1. Cardinality(Full(c)) = Cardinality(Full(b)) + 1
      BY <1>2, <1>3, <2>2, FS_AddElement
    <3> QED BY <1>3, <3>1
  <2> QED BY <2>1, <2>2
<1>7. c \in [0 .. n - 1 -> Slot]
  BY <1>2 DEF InPlace
<1>8. /\ u \in TableOfSize(n) /\ u.buckets = c /\ u.num_deleted = d
      /\ u.enlarge_threshold = t.enlarge_threshold /\ u.shrink_threshold = t.shrink_threshold
  BY <1>1, <1>4, <1>5, <1>7 DEF TableOfSize
<1>9. BucketCount(u) = n
  BY <1>1, <1>7, <1>8, CountBuckets
<1>10. NumNonempty(u) = Cardinality(Full(c))
  BY <1>8 DEF NumNonempty, Nonempty, Full
<1>11. Cardinality(Full(c)) <= EnlargeSize(n)
  <2>1. EnlargeSize(n) \in Nat
    BY <1>1, SizesAre, EnlargeSizeIs
  <2> QED BY <1>1, <1>3, <1>6, <2>1 DEF n
<1>12. GoodTable(u)
  BY <1>1, <1>2, <1>5, <1>8, <1>9, <1>11 DEF GoodTable
<1> QED BY <1>1, <1>2, <1>6, <1>8, <1>9, <1>10, <1>12 DEF n, b, u

(* An entry of the table by its key.                                       *)
LEMMA HasKeyIs ==
  ASSUME NEW b, NEW k
  PROVE  HasKey(Held(b), k) <=> \E i \in Taken(b) : b[i].key = k
BY DEF HasKey, Held

(* insert_noresize()                                                       *)
LEMMA InsertedNoResizeGood ==
  ASSUME NEW t, GoodTable(t), NEW e \in Entry, NumNonempty(t) + 1 <= EnlargeSize(BucketCount(t))
  PROVE  LET u == InsertedNoResize(t, e)
         IN /\ GoodTable(u) /\ Held(u.buckets) = Added(Held(t.buckets), e)
            /\ BucketCount(u) = BucketCount(t) /\ NumNonempty(u) <= NumNonempty(t) + 1
<1> DEFINE p == FindPosition(t, e.key)
           n == BucketCount(t)
           b == t.buckets
<1>1. e.key \in Key /\ NumNonempty(t) \in Nat
  BY Slots, GoodCounts
<1>2. /\ p.found \in BOOLEAN /\ p.pos \in 0 .. n - 1
      /\ p.found => p.pos \in Taken(b) /\ b[p.pos].key = e.key
      /\ ~p.found => /\ p.pos \notin Taken(b) /\ Reached(b, n, e.key, p.pos)
                     /\ \A i \in Taken(b) : b[i].key # e.key
  BY <1>1, FindPositionIs
<1>3. InsertedNoResize(t, e) = IF p.found THEN t ELSE InsertedAt(t, e, p.pos)
  BY DEF InsertedNoResize
<1> HIDE DEF p
<1>4. CASE p.found
  <2>1. Added(Held(b), e) = Held(b)
    BY <1>2, <1>4, HasKeyIs DEF Added
  <2>2. InsertedNoResize(t, e) = t
    BY <1>3, <1>4
  <2> QED BY <1>1, <2>1, <2>2
<1>5. CASE ~p.found
  <2>1. Added(Held(b), e) = Held(b) \cup {e}
    BY <1>2, <1>5, HasKeyIs DEF Added
  <2>2. InsertedNoResize(t, e) = InsertedAt(t, e, p.pos)
    BY <1>3, <1>5
  <2> QED BY <1>2, <1>5, <2>1, <2>2, InsertedAtGood
<1> QED BY <1>4, <1>5

(* insert()                                                                *)
LEMMA InsertedGood ==
  ASSUME NEW t, GoodTable(t), NEW e \in Entry
  PROVE  LET u == Inserted(t, e)
         IN GoodTable(u) /\ Held(u.buckets) = Added(Held(t.buckets), e)
<1> DEFINE w == WithRoom(t, 1).table
<1>1. GoodTable(w) /\ Held(w.buckets) = Held(t.buckets) /\ NumNonempty(w) + 1 <= EnlargeSize(BucketCount(w))
  BY WithRoomGood
<1>2. Inserted(t, e) = InsertedNoResize(w, e)
  BY DEF Inserted
<1> HIDE DEF w
<1> QED BY <1>1, <1>2, InsertedNoResizeGood

(* find_or_insert(): the position that was found before room was made is   *)
(* used only if nothing has moved.                                         *)
LEMMA FoundOrInsertedGood ==
  ASSUME NEW t, GoodTable(t), NEW k \in Key
  PROVE  LET u == FoundOrInserted(t, k)
         IN GoodTable(u) /\ Held(u.buckets) = Added(Held(t.buckets), EntryOf(k, DefaultValue))
<1> DEFINE p == FindPosition(t, k)
           r == WithRoom(t, 1)
           w == r.table
           e == EntryOf(k, DefaultValue)
           n == BucketCount(t)
           b == t.buckets
<1>1. e \in Entry /\ e.key = k
  BY Slots, SparseHashAssumption
<1>2. /\ p.found \in BOOLEAN /\ p.pos \in 0 .. n - 1
      /\ p.found => p.pos \in Taken(b) /\ b[p.pos].key = k
      /\ ~p.found => /\ p.pos \notin Taken(b) /\ Reached(b, n, k, p.pos)
                     /\ \A i \in Taken(b) : b[i].key # k
  BY FindPositionIs
<1>3. /\ GoodTable(w) /\ Held(w.buckets) = Held(b)
      /\ NumNonempty(w) + 1 <= EnlargeSize(BucketCount(w))
      /\ ~r.moved => w.buckets = b
  BY WithRoomGood
<1>4. FoundOrInserted(t, k) = CASE p.found -> t
                                [] ~p.found /\ r.moved -> InsertedNoResize(w, e)
                                [] OTHER -> InsertedAt(w, e, p.pos)
  BY DEF FoundOrInserted
<1> HIDE DEF p, r, e
<1>5. CASE p.found
  <2>1. Added(Held(b), e) = Held(b)
    BY <1>1, <1>2, <1>5, HasKeyIs DEF Added
  <2>2. FoundOrInserted(t, k) = t
    BY <1>4, <1>5
  <2> QED BY <2>1, <2>2 DEF e
<1>6. CASE ~p.found /\ r.moved
  <2>1. FoundOrInserted(t, k) = InsertedNoResize(w, e)
    BY <1>4, <1>6
  <2> HIDE DEF w
  <2> QED BY <1>1, <1>3, <2>1, InsertedNoResizeGood DEF e
<1>7. CASE ~p.found /\ ~r.moved
  <2>1. FoundOrInserted(t, k) = InsertedAt(w, e, p.pos)
    BY <1>4, <1>7
  <2>2. w.buckets = b /\ BucketCount(w) = n
    BY <1>3, <1>7 DEF BucketCount
  <2>3. Added(Held(b), e) = Held(b) \cup {e}
    BY <1>1, <1>2, <1>7, HasKeyIs DEF Added
  <2> HIDE DEF w
  <2>4. LET u == InsertedAt(w, e, p.pos) IN GoodTable(u) /\ Held(u.buckets) = Held(w.buckets) \cup {e}
    <3>1. p.pos \in 0 .. BucketCount(w) - 1 /\ p.pos \notin Taken(w.buckets)
          /\ Reached(w.buckets, BucketCount(w), e.key, p.pos)
          /\ \A i \in Taken(w.buckets) : w.buckets[i].key # e.key
      BY <1>1, <1>2, <1>7, <2>2
    <3> QED BY <1>1, <1>3, <3>1, InsertedAtGood
  <2> QED BY <2>1, <2>2, <2>3, <2>4 DEF e
<1> QED BY <1>2, <1>5, <1>6, <1>7

(* What m[k] = v writes to is the entry of k.                              *)
LEMMA AssignedGood ==
  ASSUME NEW t, GoodTable(t), NEW k \in Key, NEW v \in Value
  PROVE  LET u == FoundOrInserted(t, k)
             w == [u EXCEPT !.buckets[FindPosition(u, k).pos].value = v]
         IN /\ GoodTable(w)
            /\ Held(w.buckets) = {e \in Held(t.buckets) : e.key # k} \cup {EntryOf(k, v)}
<1> DEFINE u == FoundOrInserted(t, k)
           e == EntryOf(k, DefaultValue)
           p == FindPosition(u, k)
           n == BucketCount(u)
           b == u.buckets
           pos == p.pos
           w == [u EXCEPT !.buckets[pos].value = v]
           c == Put(b, pos, EntryOf(b[pos].key, v))
<1>1. GoodTable(u) /\ Held(b) = Added(Held(t.buckets), e)
  BY FoundOrInsertedGood
<1> HIDE DEF u
<1>2. e \in Entry /\ e.key = k /\ EntryOf(k, v) \in Entry /\ EntryOf(k, v).key = k
  BY Slots, SparseHashAssumption
<1>3. \E i \in Taken(b) : b[i].key = k
  <2>1. HasKey(Held(b), k)
    BY <1>1, <1>2 DEF Added, HasKey
  <2> QED BY <2>1, HasKeyIs
<1>4. pos \in Taken(b) /\ b[pos].key = k
  BY <1>1, <1>3, FindPositionIs
<1>5. /\ n \in Sizes /\ u \in TableOfSize(n) /\ InPlace(b, n) /\ b \in [0 .. n - 1 -> Slot]
      /\ pos \in 0 .. n - 1 /\ b[pos] \in Entry
  BY <1>1, <1>4 DEF GoodTable, InPlace, Taken
<1>6. /\ InPlace(c, n) /\ Taken(c) = Taken(b) /\ Marks(c) = Marks(b) /\ Full(c) = Full(b)
      /\ Held(c) = (Held(b) \ {b[pos]}) \cup {EntryOf(k, v)}
  <2> HIDE DEF b, n, pos
  <2>1. n \in Sizes /\ InPlace(b, n) /\ pos \in Taken(b)
    BY <1>4, <1>5
  <2>2. /\ InPlace(c, n) /\ Taken(c) = Taken(b) /\ Marks(c) = Marks(b) /\ Full(c) = Full(b)
        /\ Held(c) = (Held(b) \ {b[pos]}) \cup {EntryOf(b[pos].key, v)}
    BY <2>1, ValueInPlace
  <2> HIDE DEF c
  <2> QED BY <1>4, <2>2
<1>7. [b[pos] EXCEPT !.value = v] = EntryOf(k, v)
  BY <1>4, <1>5 DEF Entry, EntryOf
<1>8. w = [u EXCEPT !.buckets = c]
  <2>1. w = [u EXCEPT !.buckets = [b EXCEPT ![pos] = [b[pos] EXCEPT !.value = v]]]
    BY <1>5 DEF TableOfSize
  <2> QED BY <1>4, <1>7, <2>1 DEF Put
<1> HIDE DEF w, c, n
<1>9. c \in [0 .. n - 1 -> Slot]
  BY <1>6 DEF InPlace
<1>10. /\ w \in TableOfSize(n) /\ w.buckets = c /\ w.num_deleted = u.num_deleted
       /\ w.enlarge_threshold = u.enlarge_threshold /\ w.shrink_threshold = u.shrink_threshold
  BY <1>5, <1>8, <1>9 DEF TableOfSize
<1>11. BucketCount(w) = n
  BY <1>5, <1>9, <1>10, SizesAre, CountBuckets
<1>12. GoodTable(w)
  BY <1>1, <1>6, <1>10, <1>11 DEF GoodTable, n
<1>13. Held(b) \ {b[pos]} = {x \in Held(t.buckets) : x.key # k}
  <2>1. \A x \in Held(b) : x.key = k <=> x = b[pos]
    <3> SUFFICES ASSUME NEW i \in Taken(b) PROVE b[i].key = k <=> b[i] = b[pos]
      BY DEF Held
    <3> QED BY <1>4, <1>5 DEF InPlace
  <2>2. \A x : x \in Held(b) /\ x.key # k <=> x \in Held(t.buckets) /\ x.key # k
    BY <1>1, <1>2 DEF Added
  <2> HIDE DEF b
  <2> QED BY <2>1, <2>2
<1> QED BY <1>6, <1>10, <1>12, <1>13 DEF w, u

(* Several keys.                                                           *)
AddedAll(H, K) == H \cup {EntryOf(k, DefaultValue) : k \in {j \in K : ~HasKey(H, j)}}

KeysOf(s, i) == {s[j] : j \in 1 .. i}

LEMMA AddedOneMore ==
  ASSUME NEW H, NEW K \in SUBSET Key, NEW k \in Key
  PROVE  Added(AddedAll(H, K), EntryOf(k, DefaultValue)) = AddedAll(H, K \cup {k})
<1> DEFINE e(j) == EntryOf(j, DefaultValue)
           A == AddedAll(H, K)
<1>1. \A j \in Key : e(j).key = j
  BY Slots, SparseHashAssumption
<1>2. A = H \cup {e(j) : j \in {j \in K : ~HasKey(H, j)}}
  BY DEF AddedAll
<1>3. AddedAll(H, K \cup {k}) = H \cup {e(j) : j \in {j \in K \cup {k} : ~HasKey(H, j)}}
  BY DEF AddedAll
<1>4. HasKey(A, k) <=> HasKey(H, k) \/ k \in K
  <2> HIDE DEF e
  <2>1. HasKey(A, k) => HasKey(H, k) \/ k \in K
    <3> SUFFICES ASSUME NEW x \in A, x.key = k PROVE HasKey(H, k) \/ k \in K
      BY DEF HasKey
    <3>1. CASE x \in H
      BY <3>1 DEF HasKey
    <3>2. CASE x \notin H
      <4>1. PICK j \in K : x = e(j)
        BY <1>2, <3>2
      <4> QED BY <1>1, <4>1
    <3> QED BY <3>1, <3>2
  <2>2. HasKey(H, k) => HasKey(A, k)
    BY <1>2 DEF HasKey
  <2>3. ASSUME k \in K, ~HasKey(H, k) PROVE HasKey(A, k)
    <3>1. e(k) \in A
      BY <1>2, <2>3
    <3> QED BY <1>1, <3>1 DEF HasKey
  <2> QED BY <2>1, <2>2, <2>3
<1>5. Added(A, e(k)) = IF HasKey(A, k) THEN A ELSE A \cup {e(k)}
  BY <1>1 DEF Added
<1> HIDE DEF e, A
<1>6. CASE HasKey(A, k)
  BY <1>2, <1>3, <1>4, <1>5, <1>6 DEF A, e
<1>7. CASE ~HasKey(A, k)
  <2>1. ~HasKey(H, k) /\ k \notin K
    BY <1>4, <1>7
  <2>2. {j \in K \cup {k} : ~HasKey(H, j)} = {j \in K : ~HasKey(H, j)} \cup {k}
    BY <2>1
  <2>3. AddedAll(H, K \cup {k}) = A \cup {e(k)}
    BY <1>2, <1>3, <2>2
  <2> QED BY <1>5, <1>7, <2>3 DEF A, e
<1> QED BY <1>6, <1>7

LEMMA RangesAre ==
  ASSUME NEW s \in Ranges
  PROVE  Len(s) \in Nat /\ \A i \in 1 .. Len(s) : s[i] \in Key
<1>1. PICK S \in SUBSET Key : IsFiniteSet(S) /\ s = SetToSeq(S)
  BY DEF Ranges
<1> DEFINE m == Cardinality(S)
<1>2. m \in Nat /\ ExistsBijection(1 .. m, S)
  BY <1>1, FS_CardinalityType
<1>3. \E f \in [1 .. m -> S] : IsInjective(f)
  BY <1>2 DEF ExistsBijection, Bijection, Injection
<1>4. s \in [1 .. m -> S]
  BY <1>1, <1>3 DEF SetToSeq
<1> HIDE DEF m
<1>5. Len(s) = m
  BY <1>2, <1>4
<1> QED BY <1>2, <1>4, <1>5

(* insert() of a range into a table that has room for all of it.           *)
LEMMA WithAllGood ==
  ASSUME NEW t, GoodTable(t), NEW s \in Ranges,
         NumNonempty(t) + Len(s) <= EnlargeSize(BucketCount(t))
  PROVE  LET u == WithAll(t, s)
         IN GoodTable(u) /\ Held(u.buckets) = AddedAll(Held(t.buckets), KeysOf(s, Len(s)))
<1> DEFINE m == Len(s)
           n == BucketCount(t)
           e(i) == EntryOf(s[i], DefaultValue)
           Allowed(i) == {x \in TableOfSize(n) :
                            /\ GoodTable(x) /\ BucketCount(x) = n
                            /\ NumNonempty(x) + (m - i) <= EnlargeSize(n)
                            /\ Held(x.buckets) = AddedAll(Held(t.buckets), KeysOf(s, i))}
           I == [i \in 0 .. m |-> Allowed(i)]
           Step(i, x) == InsertedNoResize(x, e(i))
           g == [i \in 1 .. m |-> [x \in I[i - 1] |-> Step(i, x)]]
<1>1. /\ m \in Nat /\ n \in Sizes /\ n \in Nat /\ NumNonempty(t) \in Nat
      /\ EnlargeSize(n) \in Nat /\ t \in TableOfSize(n)
      /\ \A i \in 1 .. m : s[i] \in Key /\ e(i) \in Entry
  <2>1. m \in Nat /\ \A i \in 1 .. m : s[i] \in Key
    BY RangesAre
  <2>2. \A i \in 1 .. m : e(i) \in Entry
    BY <2>1, Slots, SparseHashAssumption
  <2>3. n \in Sizes /\ t \in TableOfSize(n)
    BY DEF GoodTable
  <2>4. NumNonempty(t) \in Nat
    BY GoodCounts
  <2> HIDE DEF m, n, e
  <2> QED BY <2>1, <2>2, <2>3, <2>4, SizesAre, EnlargeSizeIs
<1> HIDE DEF n, m
<1>2. t \in I[0]
  <2>1. 0 \in 0 .. m /\ KeysOf(s, 0) = {}
    BY <1>1 DEF KeysOf
  <2>2. AddedAll(Held(t.buckets), {}) = Held(t.buckets)
    BY DEF AddedAll
  <2>3. NumNonempty(t) + (m - 0) <= EnlargeSize(n)
    BY <1>1 DEF m, n
  <2>4. t \in Allowed(0)
    BY <1>1, <2>1, <2>2, <2>3 DEF n
  <2> HIDE DEF Allowed
  <2> QED BY <2>1, <2>4
<1>3. ASSUME NEW i \in 1 .. m, NEW x \in I[i - 1] PROVE Step(i, x) \in I[i]
  <2>1. i - 1 \in 0 .. m /\ i \in 0 .. m /\ i \in Int
    BY <1>1
  <2>2. x \in Allowed(i - 1)
    <3> HIDE DEF Allowed
    <3> QED BY <2>1
  <2>3. /\ GoodTable(x) /\ BucketCount(x) = n /\ NumNonempty(x) + (m - (i - 1)) <= EnlargeSize(n)
        /\ Held(x.buckets) = AddedAll(Held(t.buckets), KeysOf(s, i - 1))
    BY <2>2
  <2>4. NumNonempty(x) \in Nat
    BY <2>3, GoodCounts
  <2>5. NumNonempty(x) + 1 <= EnlargeSize(BucketCount(x))
    BY <1>1, <2>1, <2>3, <2>4
  <2> DEFINE y == InsertedNoResize(x, e(i))
  <2>6. /\ GoodTable(y) /\ Held(y.buckets) = Added(Held(x.buckets), e(i))
        /\ BucketCount(y) = n /\ NumNonempty(y) <= NumNonempty(x) + 1
    <3> HIDE DEF e
    <3> QED BY <1>1, <2>3, <2>5, InsertedNoResizeGood
  <2> HIDE DEF y
  <2>7. NumNonempty(y) \in Nat /\ y \in TableOfSize(n)
    BY <2>6, GoodCounts DEF GoodTable
  <2>8. NumNonempty(y) + (m - i) <= EnlargeSize(n)
    BY <1>1, <2>1, <2>3, <2>4, <2>6, <2>7
  <2>9. Held(y.buckets) = AddedAll(Held(t.buckets), KeysOf(s, i))
    <3>1. KeysOf(s, i) = KeysOf(s, i - 1) \cup {s[i]}
      BY <1>1 DEF KeysOf
    <3>2. KeysOf(s, i - 1) \in SUBSET Key /\ s[i] \in Key
      BY <1>1, <2>1 DEF KeysOf
    <3> QED BY <2>3, <2>6, <3>1, <3>2, AddedOneMore
  <2>10. y \in Allowed(i)
    BY <2>6, <2>7, <2>8, <2>9
  <2> HIDE DEF Allowed
  <2> QED BY <2>1, <2>10 DEF y
<1>4. \A i \in 1 .. m : \A x \in I[i - 1] : g[i][x] = Step(i, x)
  <2> HIDE DEF I, Step
  <2> QED OBVIOUS
<1> DEFINE Fill(f) == [i \in 0 .. m |-> IF i = 0 THEN t ELSE InsertedNoResize(f[i - 1], e(i))]
           filled == CHOOSE f : f = Fill(f)
<1> HIDE DEF I
<1>5. \E f : f = Fill(f)
  <2> HIDE DEF g
  <2>1. \A i \in 1 .. m : \A x \in I[i - 1] : g[i][x] \in I[i]
    BY <1>3, <1>4
  <2>2. PICK f : Folded(f, m, t, g) /\ \A i \in 0 .. m : f[i] \in I[i]
    BY <1>1, <1>2, <2>1, FoldExists
  <2>3. /\ f = [i \in 0 .. m |-> f[i]]
        /\ \A i \in 0 .. m : f[i] = IF i = 0 THEN t ELSE g[i][f[i - 1]]
    BY <2>2 DEF Folded
  <2>4. ASSUME NEW i \in 0 .. m, i # 0 PROVE f[i] = Step(i, f[i - 1])
    <3>1. i \in 1 .. m /\ i - 1 \in 0 .. m
      BY <1>1, <2>4
    <3> HIDE DEF Step
    <3> QED BY <1>4, <2>2, <2>3, <2>4, <3>1
  <2>5. \A i \in 0 .. m : f[i] = Fill(f)[i]
    BY <2>3, <2>4
  <2>6. Fill(f) = [i \in 0 .. m |-> Fill(f)[i]]
    OBVIOUS
  <2> HIDE DEF Fill
  <2> QED BY <2>3, <2>5, <2>6
<1>6. filled = Fill(filled)
  <2> HIDE DEF Fill
  <2> QED BY <1>5
<1>7. WithAll(t, s) = filled[m]
  BY DEF WithAll, m
<1> HIDE DEF filled
<1>8. \A i \in 0 .. m : filled[i] = IF i = 0 THEN t ELSE Step(i, filled[i - 1])
  BY <1>6
<1> HIDE DEF Fill, Step, g
<1>9. filled[m] \in I[m]
  <2>1. filled[0] \in I[0]
    BY <1>1, <1>2, <1>8
  <2>2. \A i \in 1 .. m : filled[i - 1] \in I[i - 1] => filled[i] \in I[i]
    <3>1. \A i \in 1 .. m : i \in 0 .. m /\ i # 0
      OBVIOUS
    <3> QED BY <1>3, <1>8, <3>1
  <2>3. \A i \in 0 .. m : filled[i] \in I[i]
    BY <1>1, <2>1, <2>2, FoldStays
  <2>4. m \in 0 .. m
    BY <1>1
  <2> QED BY <2>3, <2>4
<1>10. filled[m] \in Allowed(m)
  <2>1. m \in 0 .. m
    BY <1>1
  <2> HIDE DEF Allowed
  <2> QED BY <1>9, <2>1 DEF I
<1> QED BY <1>7, <1>10 DEF m

(* A table into which the keys are inserted one after the other.           *)
LEMMA TableOfGood ==
  ASSUME NEW s \in Ranges, NEW d \in BOOLEAN
  PROVE  LET u == TableOf(s, d)
         IN GoodTable(u) /\ Held(u.buckets) = AddedAll({}, KeysOf(s, Len(s)))
<1> DEFINE m == Len(s)
           t == EmptyTable(STARTING_BUCKETS, d)
           e(i) == EntryOf(s[i], DefaultValue)
           Allowed(i) == {x \in UNION {TableOfSize(n) : n \in Sizes} :
                            GoodTable(x) /\ Held(x.buckets) = AddedAll({}, KeysOf(s, i))}
           I == [i \in 0 .. m |-> Allowed(i)]
           Step(i, x) == Inserted(x, e(i))
           g == [i \in 1 .. m |-> [x \in I[i - 1] |-> Step(i, x)]]
<1>1. /\ m \in Nat
      /\ \A i \in 1 .. m : s[i] \in Key /\ e(i) \in Entry
  <2>1. m \in Nat /\ \A i \in 1 .. m : s[i] \in Key
    BY RangesAre
  <2>2. \A i \in 1 .. m : e(i) \in Entry
    BY <2>1, Slots, SparseHashAssumption
  <2> QED BY <2>1, <2>2
<1>2. GoodTable(t) /\ Held(t.buckets) = {}
  BY StartingSize, EmptyTableGood
<1>3. ASSUME NEW x, GoodTable(x) PROVE x \in UNION {TableOfSize(n) : n \in Sizes}
  BY <1>3 DEF GoodTable
<1> HIDE DEF m, t
<1>4. t \in I[0]
  <2>1. 0 \in 0 .. m /\ KeysOf(s, 0) = {}
    BY <1>1 DEF KeysOf
  <2>2. AddedAll({}, {}) = {}
    BY DEF AddedAll
  <2>3. t \in Allowed(0)
    BY <1>2, <1>3, <2>1, <2>2
  <2> HIDE DEF Allowed
  <2> QED BY <2>1, <2>3
<1>5. ASSUME NEW i \in 1 .. m, NEW x \in I[i - 1] PROVE Step(i, x) \in I[i]
  <2>1. i - 1 \in 0 .. m /\ i \in 0 .. m /\ i \in Int
    BY <1>1
  <2>2. x \in Allowed(i - 1)
    <3> HIDE DEF Allowed
    <3> QED BY <2>1
  <2>3. GoodTable(x) /\ Held(x.buckets) = AddedAll({}, KeysOf(s, i - 1))
    BY <2>2
  <2> DEFINE y == Inserted(x, e(i))
  <2>4. GoodTable(y) /\ Held(y.buckets) = Added(Held(x.buckets), e(i))
    <3> HIDE DEF e
    <3> QED BY <1>1, <2>3, InsertedGood
  <2> HIDE DEF y
  <2>5. Held(y.buckets) = AddedAll({}, KeysOf(s, i))
    <3>1. KeysOf(s, i) = KeysOf(s, i - 1) \cup {s[i]}
      BY <1>1 DEF KeysOf
    <3>2. KeysOf(s, i - 1) \in SUBSET Key /\ s[i] \in Key
      BY <1>1, <2>1 DEF KeysOf
    <3> QED BY <2>3, <2>4, <3>1, <3>2, AddedOneMore
  <2>6. y \in Allowed(i)
    BY <1>3, <2>4, <2>5
  <2> HIDE DEF Allowed
  <2> QED BY <2>1, <2>6 DEF y
<1>6. \A i \in 1 .. m : \A x \in I[i - 1] : g[i][x] = Step(i, x)
  <2> HIDE DEF I, Step
  <2> QED OBVIOUS
<1> DEFINE Fill(f) == [i \in 0 .. m |-> IF i = 0 THEN t ELSE Inserted(f[i - 1], e(i))]
           filled == CHOOSE f : f = Fill(f)
<1> HIDE DEF I
<1>7. \E f : f = Fill(f)
  <2> HIDE DEF g
  <2>1. \A i \in 1 .. m : \A x \in I[i - 1] : g[i][x] \in I[i]
    BY <1>5, <1>6
  <2>2. PICK f : Folded(f, m, t, g) /\ \A i \in 0 .. m : f[i] \in I[i]
    BY <1>1, <1>4, <2>1, FoldExists
  <2>3. /\ f = [i \in 0 .. m |-> f[i]]
        /\ \A i \in 0 .. m : f[i] = IF i = 0 THEN t ELSE g[i][f[i - 1]]
    BY <2>2 DEF Folded
  <2>4. ASSUME NEW i \in 0 .. m, i # 0 PROVE f[i] = Step(i, f[i - 1])
    <3>1. i \in 1 .. m /\ i - 1 \in 0 .. m
      BY <1>1, <2>4
    <3> HIDE DEF Step
    <3> QED BY <1>6, <2>2, <2>3, <2>4, <3>1
  <2>5. \A i \in 0 .. m : f[i] = Fill(f)[i]
    BY <2>3, <2>4
  <2>6. Fill(f) = [i \in 0 .. m |-> Fill(f)[i]]
    OBVIOUS
  <2> HIDE DEF Fill
  <2> QED BY <2>3, <2>5, <2>6
<1>8. filled = Fill(filled)
  <2> HIDE DEF Fill
  <2> QED BY <1>7
<1>9. TableOf(s, d) = filled[m]
  BY DEF TableOf, m, t
<1> HIDE DEF filled
<1>10. \A i \in 0 .. m : filled[i] = IF i = 0 THEN t ELSE Step(i, filled[i - 1])
  BY <1>8
<1> HIDE DEF Fill, Step, g
<1>11. filled[m] \in I[m]
  <2>1. filled[0] \in I[0]
    BY <1>1, <1>4, <1>10
  <2>2. \A i \in 1 .. m : filled[i - 1] \in I[i - 1] => filled[i] \in I[i]
    <3>1. \A i \in 1 .. m : i \in 0 .. m /\ i # 0
      OBVIOUS
    <3> QED BY <1>5, <1>10, <3>1
  <2>3. \A i \in 0 .. m : filled[i] \in I[i]
    BY <1>1, <2>1, <2>2, FoldStays
  <2>4. m \in 0 .. m
    BY <1>1
  <2> QED BY <2>3, <2>4
<1>12. filled[m] \in Allowed(m)
  <2>1. m \in 0 .. m
    BY <1>1
  <2> HIDE DEF Allowed
  <2> QED BY <1>11, <2>1 DEF I
<1> QED BY <1>9, <1>12 DEF m

(* set_deleted() of an element.                                            *)
LEMMA MarkedGood ==
  ASSUME NEW t, GoodTable(t), NEW pos \in Taken(t.buckets)
  PROVE  LET u == Marked(t, pos)
         IN /\ GoodTable(u) /\ BucketCount(u) = BucketCount(t)
            /\ Taken(u.buckets) = Taken(t.buckets) \ {pos}
            /\ Held(u.buckets) = Held(t.buckets) \ {t.buckets[pos]}
            /\ Full(u.buckets) = Full(t.buckets)
            /\ \A i \in Taken(u.buckets) : u.buckets[i] = t.buckets[i]
<1> DEFINE n == BucketCount(t)
           b == t.buckets
           c == Put(b, pos, Mark)
           u == Marked(t, pos)
<1>1. /\ n \in Sizes /\ n \in Nat /\ t \in TableOfSize(n) /\ InPlace(b, n) /\ b \in [0 .. n - 1 -> Slot]
      /\ t.num_deleted = Cardinality(Marks(b)) /\ Cardinality(Full(b)) <= EnlargeSize(n)
      /\ t.enlarge_threshold = EnlargeSize(n) /\ t.shrink_threshold = ShrinkSize(n)
      /\ t.num_deleted \in Nat
  BY GoodCounts DEF GoodTable, InPlace, TableOfSize
<1>2. /\ InPlace(c, n) /\ Taken(c) = Taken(b) \ {pos} /\ Held(c) = Held(b) \ {b[pos]}
      /\ Marks(c) = Marks(b) \cup {pos} /\ Full(c) = Full(b) /\ pos \notin Marks(b)
  <2> HIDE DEF n, b
  <2> QED BY <1>1, MarkInPlace DEF b
<1>3. u = [t EXCEPT !.buckets = c, !.num_deleted = t.num_deleted + 1, !.consider_shrink = TRUE]
  BY <1>1 DEF Marked, Put, TableOfSize
<1>4. \A i \in Taken(c) : c[i] = b[i]
  BY <1>1, <1>2 DEF Put, Taken
<1> HIDE DEF n, b, c, u
<1>5. c \in [0 .. n - 1 -> Slot]
  BY <1>2 DEF InPlace
<1>6. /\ u \in TableOfSize(n) /\ u.buckets = c /\ u.num_deleted = t.num_deleted + 1
      /\ u.enlarge_threshold = t.enlarge_threshold /\ u.shrink_threshold = t.shrink_threshold
  <2>1. t.num_deleted + 1 \in Nat
    BY <1>1
  <2> DEFINE d == t.num_deleted + 1
  <2>2. u = [t EXCEPT !.buckets = c, !.num_deleted = d, !.consider_shrink = TRUE] /\ d \in Nat
    BY <1>3, <2>1
  <2> HIDE DEF d
  <2>3. /\ u \in TableOfSize(n) /\ u.buckets = c /\ u.num_deleted = d
        /\ u.enlarge_threshold = t.enlarge_threshold /\ u.shrink_threshold = t.shrink_threshold
    BY <1>1, <1>5, <2>2 DEF TableOfSize
  <2> QED BY <2>3 DEF d
<1>7. BucketCount(u) = n
  BY <1>1, <1>5, <1>6, CountBuckets
<1>8. u.num_deleted = Cardinality(Marks(c))
  <2>1. IsFiniteSet(Marks(b))
    BY <1>1, CountKinds
  <2>2. Cardinality(Marks(b) \cup {pos}) = Cardinality(Marks(b)) + 1
    BY <1>2, <2>1, FS_AddElement
  <2> QED BY <1>1, <1>2, <1>6, <2>2
<1>9. GoodTable(u)
  BY <1>1, <1>2, <1>6, <1>7, <1>8 DEF GoodTable
<1> QED BY <1>2, <1>4, <1>6, <1>7, <1>9 DEF n, b, u

-----------------------------------------------------------------------------
(***************************************************************************)
(* The invariant                                                           *)
(***************************************************************************)
(* The keys of the elements that a loop has still to come by.              *)
Ahead(t, i) == {t.buckets[j].key : j \in {h \in Taken(t.buckets) : h > i}}

LoopInv ==
  /\ it \in {NoLoop} \cup 0 .. BucketCount(ht)
  /\ it \in 0 .. BucketCount(ht) - 1 => it \in Full(ht.buckets)
  /\ visited \subseteq Key /\ due \subseteq Key
  /\ it # NoLoop => due \subseteq visited \cup Ahead(ht, it)

HashInv == GoodTable(ht) /\ LoopInv

LEMMA HashInit == Init => HashInv
<1> SUFFICES ASSUME Init PROVE HashInv
  OBVIOUS
<1>1. GoodTable(ht)
  BY StartingSize, EmptyTableGood DEF Init
<1>2. LoopInv
  BY <1>1, GoodCounts DEF Init, LoopInv, NoLoop
<1> QED BY <1>1, <1>2 DEF HashInv

(* What is done outside of a loop has only to leave a table.               *)
LEMMA OutsideLoop == NotInLoop /\ GoodTable(ht') /\ LoopInv => HashInv'
<1> SUFFICES ASSUME NotInLoop, GoodTable(ht'), LoopInv PROVE HashInv'
  OBVIOUS
<1>1. it' = NoLoop /\ visited' \subseteq Key /\ due' \subseteq Key
  BY DEF NotInLoop, LoopInv
<1>2. BucketCount(ht') \in Nat
  BY GoodCounts
<1> QED BY <1>1, <1>2 DEF HashInv, LoopInv, NoLoop

(* Where ++it stops.                                                       *)
LEMMA StopIs ==
  ASSUME GoodTable(ht), NEW from \in Nat, from <= BucketCount(ht)
  PROVE  /\ Stop(from) \in from .. BucketCount(ht)
         /\ Stop(from) \in 0 .. BucketCount(ht) - 1 => Stop(from) \in Taken(ht.buckets)
         /\ \A i \in Taken(ht.buckets) : i >= from => i >= Stop(from)
<1> DEFINE n == BucketCount(ht)
           T == Taken(ht.buckets)
           S == {i \in T : i >= from}
<1>1. n \in Nat /\ Live(ht) = T /\ T \subseteq 0 .. n - 1
  BY GoodCounts DEF Taken
<1>2. Stop(from) = IF S = {} THEN n ELSE First(S)
  BY <1>1 DEF Stop
<1> HIDE DEF n, T
<1>3. S \subseteq Nat
  <2>1. 0 .. n - 1 \subseteq Nat
    OBVIOUS
  <2> QED BY <1>1, <2>1
<1>4. CASE S = {}
  <2>1. Stop(from) = n /\ \A i \in T : ~(i >= from)
    BY <1>2, <1>4
  <2> QED BY <1>1, <2>1 DEF n, T
<1>5. CASE S # {}
  <2>1. First(S) \in S /\ \A j \in S : First(S) <= j
    <3> HIDE DEF S
    <3> QED BY <1>3, <1>5, FirstIs
  <2> DEFINE f == First(S)
  <2>2. Stop(from) = f
    BY <1>2, <1>5
  <2> HIDE DEF f
  <2>3. f \in T /\ f >= from /\ f \in 0 .. n - 1 /\ \A i \in T : i >= from => i >= f
    <3>1. f \in T /\ f >= from
      BY <2>1 DEF f
    <3>2. ASSUME NEW i \in T, i >= from PROVE i >= f
      <4>1. i \in S /\ f <= i
        BY <2>1, <3>2 DEF f
      <4> QED BY <1>1, <3>1, <4>1
    <3> QED BY <1>1, <3>1, <3>2
  <2> QED BY <1>1, <2>2, <2>3 DEF n, T
<1> QED BY <1>4, <1>5

(* A loop that comes by nothing that it has not passed.                    *)
LEMMA VisitKeeps ==
  ASSUME GoodTable(ht), NEW from \in Nat, from <= BucketCount(ht), Visit(Stop(from)),
         UNCHANGED ht, visited \subseteq Key, due' \subseteq Key,
         due' \subseteq visited \cup {ht.buckets[i].key : i \in {j \in Taken(ht.buckets) : j >= from}}
  PROVE  HashInv'
<1> DEFINE n == BucketCount(ht)
           b == ht.buckets
           i == Stop(from)
<1>1. /\ n \in Nat /\ DOMAIN b = 0 .. n - 1 /\ Taken(b) \subseteq Full(b)
      /\ \A j \in Taken(b) : b[j].key \in Key /\ j \in 0 .. n - 1
  BY GoodCounts, Slots DEF Taken, Full
<1>2. /\ i \in from .. n /\ (i \in 0 .. n - 1 => i \in Taken(b))
      /\ \A j \in Taken(b) : j >= from => j >= i
  BY StopIs
<1>3. it' = i /\ visited' = visited \cup (IF i \in DOMAIN b THEN {b[i].key} ELSE {})
  BY DEF Visit
<1> HIDE DEF i
<1>4. it' \in {NoLoop} \cup 0 .. n /\ (it' \in 0 .. n - 1 => it' \in Full(b)) /\ visited' \subseteq Key
  BY <1>1, <1>2, <1>3
<1>5. due' \subseteq visited' \cup Ahead(ht, it')
  <2> SUFFICES ASSUME NEW k \in due', k \notin visited' PROVE k \in Ahead(ht, it')
    OBVIOUS
  <2>1. PICK j \in Taken(b) : j >= from /\ k = b[j].key
    BY <1>3
  <2>2. j >= i /\ j \in 0 .. n - 1 /\ j # i
    BY <1>1, <1>2, <1>3, <2>1
  <2>3. j > it'
    BY <1>1, <1>2, <1>3, <2>2
  <2> QED BY <2>1, <2>3 DEF Ahead
<1> QED BY <1>4, <1>5 DEF HashInv, LoopInv

(* An element that is marked is no longer due.                             *)
LEMMA MarkKeeps ==
  ASSUME HashInv, NEW pos \in Taken(ht.buckets), ht' = Marked(ht, pos),
         due' = due \ {ht.buckets[pos].key}, UNCHANGED <<it, visited>>
  PROVE  HashInv'
<1>1. /\ GoodTable(ht') /\ BucketCount(ht') = BucketCount(ht) /\ Full(ht'.buckets) = Full(ht.buckets)
      /\ Taken(ht'.buckets) = Taken(ht.buckets) \ {pos}
      /\ \A i \in Taken(ht'.buckets) : ht'.buckets[i] = ht.buckets[i]
  BY MarkedGood DEF HashInv
<1>2. ASSUME it # NoLoop PROVE due' \subseteq visited \cup Ahead(ht', it)
  <2> SUFFICES ASSUME NEW k \in due', k \notin visited PROVE k \in Ahead(ht', it)
    OBVIOUS
  <2>1. k \in Ahead(ht, it)
    BY <1>2 DEF HashInv, LoopInv
  <2>2. PICK j \in Taken(ht.buckets) : j > it /\ k = ht.buckets[j].key
    BY <2>1 DEF Ahead
  <2>3. j \in Taken(ht'.buckets) /\ ht'.buckets[j].key = k
    BY <1>1, <2>2
  <2> QED BY <2>2, <2>3 DEF Ahead
<1> QED BY <1>1, <1>2 DEF HashInv, LoopInv

(* find() of a key that is there.                                          *)
LEMMA FoundIs ==
  ASSUME NEW t, GoodTable(t), NEW k \in Key, Found(t, k)
  PROVE  LET p == FindPosition(t, k).pos
         IN p \in Taken(t.buckets) /\ t.buckets[p].key = k
BY FindPositionIs DEF Found

LEMMA EntriesAre ==
  /\ \A k \in Key, v \in Value : EntryOf(k, v) \in Entry /\ EntryOf(k, v).key = k
                                 /\ EntryOf(k, v).value = v
  /\ DefaultValue \in Value
BY Slots, SparseHashAssumption

(* What the operations leave in the table.                                 *)
LEMMA InsertRangeLeaves ==
  ASSUME NEW t, GoodTable(t), NEW s \in Ranges
  PROVE  LET u == WithAll(WithRoom(t, Len(s)).table, s)
         IN GoodTable(u) /\ Held(u.buckets) = AddedAll(Held(t.buckets), KeysOf(s, Len(s)))
<1> DEFINE w == WithRoom(t, Len(s)).table
<1>1. Len(s) \in Nat
  BY RangesAre
<1>2. GoodTable(w) /\ Held(w.buckets) = Held(t.buckets)
      /\ NumNonempty(w) + Len(s) <= EnlargeSize(BucketCount(w))
  BY <1>1, WithRoomGood
<1> HIDE DEF w
<1>3. LET u == WithAll(w, s)
      IN GoodTable(u) /\ Held(u.buckets) = AddedAll(Held(w.buckets), KeysOf(s, Len(s)))
  BY <1>2, WithAllGood
<1> QED BY <1>2, <1>3 DEF w

LEMMA ResizeLeaves ==
  ASSUME NEW t, GoodTable(t), NEW n \in Nat
  PROVE  LET w == IF t.consider_shrink \/ n = 0 THEN MaybeShrunk(t) ELSE t
             u == IF n > NumNonempty(w) THEN WithRoom(w, n - NumNonempty(w)).table ELSE w
         IN GoodTable(u) /\ Held(u.buckets) = Held(t.buckets)
<1> DEFINE w == IF t.consider_shrink \/ n = 0 THEN MaybeShrunk(t) ELSE t
<1>1. GoodTable(w) /\ Held(w.buckets) = Held(t.buckets)
  BY MaybeShrunkGood
<1> HIDE DEF w
<1>2. NumNonempty(w) \in Nat
  BY <1>1, GoodCounts
<1> DEFINE d == n - NumNonempty(w)
<1>3. n > NumNonempty(w) => d \in Nat
  BY <1>2
<1> HIDE DEF d
<1>4. n > NumNonempty(w) => LET u == WithRoom(w, d).table
                            IN GoodTable(u) /\ Held(u.buckets) = Held(w.buckets)
  BY <1>1, <1>3, WithRoomGood
<1> QED BY <1>1, <1>4 DEF w, d

LEMMA CopyLeaves ==
  ASSUME NEW t, GoodTable(t), NEW s \in Ranges, NEW d \in BOOLEAN
  PROVE  LET u == TableOf(s, d)
             wanted == MinBuckets(Size(u), MIN_BUCKETS)
             w == Moved(u, IF wanted > BucketCount(t) THEN wanted ELSE BucketCount(t))
         IN GoodTable(w) /\ Held(w.buckets) = AddedAll({}, KeysOf(s, Len(s)))
<1> DEFINE u == TableOf(s, d)
           wanted == MinBuckets(Size(u), MIN_BUCKETS)
           n == IF wanted > BucketCount(t) THEN wanted ELSE BucketCount(t)
<1>1. GoodTable(u) /\ Held(u.buckets) = AddedAll({}, KeysOf(s, Len(s)))
  BY TableOfGood
<1> HIDE DEF u
<1>2. Size(u) \in Nat /\ BucketCount(t) \in Sizes
  BY <1>1, GoodCounts
<1>3. wanted \in Sizes /\ Size(u) < EnlargeSize(wanted)
  BY <1>2, MinBucketsIs, MinBucketsFits
<1> HIDE DEF wanted
<1>4. n \in Sizes /\ n \in Nat /\ wanted \in Nat /\ wanted >= 4 /\ n >= wanted
  BY <1>2, <1>3, SizesAre
<1> HIDE DEF n
<1>5. Size(u) <= EnlargeSize(n)
  <2>1. EnlargeSize(wanted) \in Nat /\ EnlargeSize(n) \in Nat /\ EnlargeSize(n) >= EnlargeSize(wanted)
    <3>1. n >= 4
      BY <1>4
    <3> QED BY <1>4, <3>1, EnlargeSizeIs
  <2> QED BY <1>2, <1>3, <2>1
<1>6. LET w == Moved(u, n) IN GoodTable(w) /\ Held(w.buckets) = Held(u.buckets)
  BY <1>1, <1>4, <1>5, MovedGood
<1> QED BY <1>1, <1>6 DEF u, wanted, n

LEMMA SquashedLeaves ==
  ASSUME NEW t, GoodTable(t), NEW d \in BOOLEAN
  PROVE  LET u == [Squashed(t) EXCEPT !.use_deleted = d]
         IN GoodTable(u) /\ Held(u.buckets) = Held(t.buckets)
<1> DEFINE w == Squashed(t)
<1>1. GoodTable(w) /\ Held(w.buckets) = Held(t.buckets)
  BY SquashedGood
<1> HIDE DEF w
<1>2. LET u == [w EXCEPT !.use_deleted = d] IN GoodTable(u) /\ u.buckets = w.buckets
  BY <1>1, SettingsGood
<1> QED BY <1>1, <1>2 DEF w

LEMMA ClearLeaves ==
  ASSUME NEW t, GoodTable(t)
  PROVE  LET u == EmptyTable(BucketCount(t), t.use_deleted)
         IN GoodTable(u) /\ Held(u.buckets) = {}
<1>1. BucketCount(t) \in Sizes /\ t.use_deleted \in BOOLEAN
  BY DEF GoodTable, TableOfSize
<1> QED BY <1>1, EmptyTableGood

(* Every step keeps the invariant.                                         *)
LEMMA HashStep == HashInv /\ [Next]_vars => HashInv'
<1> SUFFICES ASSUME HashInv, [Next]_vars PROVE HashInv'
  OBVIOUS
<1> USE DEF HashInv
<1>0. GoodTable(ht) /\ LoopInv /\ BucketCount(ht) \in Nat /\ DOMAIN ht.buckets = 0 .. BucketCount(ht) - 1
  BY GoodCounts
<1>1. ASSUME NEW k \in Key, Erase(k) PROVE HashInv'
  <2> DEFINE pos == FindPosition(ht, k).pos
  <2>1. pos \in Taken(ht.buckets) /\ ht.buckets[pos].key = k
    BY <1>0, <1>1, FoundIs DEF Erase
  <2>2. ht' = Marked(ht, pos) /\ due' = due \ {k} /\ UNCHANGED <<it, visited>>
    BY <1>1 DEF Erase
  <2> HIDE DEF pos, HashInv
  <2> QED BY <2>1, <2>2, MarkKeeps
<1>2. ASSUME NEW k \in Key, NEW v \in Value, Insert(k, v) PROVE HashInv'
  <2>1. NotInLoop /\ ht' = Inserted(ht, EntryOf(k, v))
    BY <1>2 DEF Insert
  <2>2. GoodTable(ht')
    BY <1>0, <2>1, EntriesAre, InsertedGood
  <2> QED BY <1>0, <2>1, <2>2, OutsideLoop
<1>3. ASSUME NEW k \in Key, NEW v \in Value, Assign(k, v) PROVE HashInv'
  <2>1. NotInLoop /\ GoodTable(ht')
    BY <1>0, <1>3, AssignedGood DEF Assign
  <2> QED BY <1>0, <2>1, OutsideLoop
<1>4. ASSUME NEW s \in Ranges, InsertRange(s) PROVE HashInv'
  <2>1. NotInLoop /\ GoodTable(ht')
    BY <1>0, <1>4, InsertRangeLeaves DEF InsertRange
  <2> QED BY <1>0, <2>1, OutsideLoop
<1>5. ASSUME NEW s \in Ranges, NEW d \in BOOLEAN, Copy(s, d) PROVE HashInv'
  <2>1. NotInLoop /\ GoodTable(ht')
    BY <1>0, <1>5, CopyLeaves DEF Copy
  <2> QED BY <1>0, <2>1, OutsideLoop
<1>6. ASSUME NEW d \in BOOLEAN, SetUseDeleted(d) PROVE HashInv'
  <2>1. NotInLoop /\ GoodTable(ht')
    BY <1>0, <1>6, SquashedLeaves DEF SetUseDeleted
  <2> QED BY <1>0, <2>1, OutsideLoop
<1>7. ASSUME NEW n \in 0 .. MaxRequest, Resize(n) PROVE HashInv'
  <2>1. n \in Nat
    BY SparseHashAssumption
  <2>2. NotInLoop /\ GoodTable(ht')
    BY <1>0, <1>7, <2>1, ResizeLeaves DEF Resize
  <2> QED BY <1>0, <2>2, OutsideLoop
<1>8. CASE EraseVisited
  <2>1. CASE TestDeleted(ht, it)
    BY <1>0, <1>8, <2>1 DEF EraseVisited, LoopInv
  <2>2. CASE ~TestDeleted(ht, it)
    <3>1. ht' = Marked(ht, it) /\ due' = due \ {ht.buckets[it].key} /\ UNCHANGED <<it, visited>>
          /\ it \in 0 .. BucketCount(ht) - 1
      BY <1>0, <1>8, <2>2 DEF EraseVisited
    <3>2. it \in Full(ht.buckets)
      BY <1>0, <3>1 DEF LoopInv
    <3>3. it \in Taken(ht.buckets)
      <4>1. Nonempty(ht) = Full(ht.buckets) /\ Live(ht) = Taken(ht.buckets)
        BY <1>0, GoodCounts
      <4> QED BY <2>2, <3>2, <4>1 DEF Live
    <3> HIDE DEF HashInv
    <3> QED BY <3>1, <3>3, MarkKeeps
  <2> QED BY <2>1, <2>2
<1>9. CASE Clear
  <2>1. NotInLoop /\ GoodTable(ht')
    BY <1>0, <1>9, ClearLeaves DEF Clear
  <2> QED BY <1>0, <2>1, OutsideLoop
<1>10. CASE Begin
  <2>1. Visit(Stop(0)) /\ UNCHANGED ht /\ due' = {ht.buckets[i].key : i \in Live(ht)}
    BY <1>10 DEF Begin
  <2>2. Live(ht) = Taken(ht.buckets) /\ \A i \in Taken(ht.buckets) : i >= 0 /\ ht.buckets[i].key \in Key
    <3>1. Live(ht) = Taken(ht.buckets)
      BY <1>0, GoodCounts
    <3>2. \A i \in Taken(ht.buckets) : i >= 0 /\ ht.buckets[i].key \in Key
      BY <1>0, Slots DEF Taken
    <3> QED BY <3>1, <3>2
  <2>3. due' \subseteq Key
        /\ due' \subseteq visited \cup {ht.buckets[i].key : i \in {j \in Taken(ht.buckets) : j >= 0}}
    BY <2>1, <2>2
  <2>4. visited \subseteq Key /\ 0 <= BucketCount(ht)
    BY <1>0 DEF LoopInv
  <2> HIDE DEF HashInv
  <2> QED BY <1>0, <2>1, <2>3, <2>4, VisitKeeps
<1>11. CASE Advance
  <2>1. Visit(Stop(it + 1)) /\ UNCHANGED <<ht, due>> /\ it \in 0 .. BucketCount(ht) - 1
    BY <1>0, <1>11 DEF Advance
  <2>2. it + 1 \in Nat /\ it + 1 <= BucketCount(ht) /\ it # NoLoop
    BY <1>0, <2>1 DEF NoLoop
  <2>3. visited \subseteq Key /\ due' \subseteq Key /\ due' \subseteq visited \cup Ahead(ht, it)
    BY <1>0, <2>1, <2>2 DEF LoopInv
  <2>4. Ahead(ht, it) = {ht.buckets[i].key : i \in {j \in Taken(ht.buckets) : j >= it + 1}}
    <3>1. \A j \in Taken(ht.buckets) : j > it <=> j >= it + 1
      BY <1>0, <2>1 DEF Taken
    <3> QED BY <3>1 DEF Ahead
  <2> HIDE DEF HashInv
  <2> QED BY <1>0, <2>1, <2>2, <2>3, <2>4, VisitKeeps
<1>12. CASE LeaveLoop
  <2>1. GoodTable(ht') /\ BucketCount(ht') \in Nat /\ it' = -1 /\ visited' = {} /\ due' = {}
    BY <1>0, <1>12 DEF LeaveLoop, NoLoop
  <2> QED BY <2>1 DEF LoopInv, NoLoop
<1>13. CASE UNCHANGED vars
  BY <1>0, <1>13 DEF vars, LoopInv, Ahead
<1> QED
  <2>1. Next \/ UNCHANGED vars
    OBVIOUS
  <2> HIDE DEF HashInv
  <2> QED BY <1>1, <1>2, <1>3, <1>4, <1>5, <1>6, <1>7, <1>8, <1>9, <1>10, <1>11, <1>12, <1>13, <2>1
          DEF Next

(* The invariant of the hash tables: every table has as many buckets as    *)
(* the probing needs, with room left; every element is where the search    *)
(* for its key comes by, the marks are counted, and a loop has still to    *)
(* come by what it has not come by.                                        *)
THEOREM HashInvariant == Spec => []HashInv
BY HashInit, HashStep, PTL DEF Spec

(* The types, for every set of keys and every hash function.               *)
THEOREM HashTypeOK == Spec => []TypeOK
<1>1. HashInv => TypeOK
  BY DEF HashInv, GoodTable, LoopInv, TypeOK, IsTable, TableOfSize, Slot
<1> QED BY <1>1, HashInvariant, PTL

(* Quadratic probing comes by an empty bucket of every table: every search *)
(* ends, also one for a key that is not there.                             *)
THEOREM HashSearchesEnd == Spec => []SearchesEnd
<1>1. ASSUME HashInv PROVE SearchesEnd
  <2> DEFINE n == BucketCount(ht)
             b == ht.buckets
  <2>1. n \in Sizes /\ b \in [0 .. n - 1 -> Slot] /\ Cardinality(Full(b)) < n
    BY <1>1, GoodCounts DEF HashInv, GoodTable, InPlace
  <2> HIDE DEF n, b
  <2>2. \A k \in Key : \E i \in 0 .. n - 1 : b[Probe(n, k, i)] = Empty
    BY <2>1, EmptyOnTheWay
  <2> QED BY <2>2 DEF SearchesEnd, n, b
<1> QED BY <1>1, HashInvariant, PTL

(* Every element is found where it is, and num_deleted counts the marks,   *)
(* whatever was inserted, erased, moved and copied.                        *)
THEOREM HashElementsFound == Spec => []ElementsFound
<1>1. ASSUME HashInv PROVE ElementsFound
  <2>1. GoodTable(ht)
    BY <1>1 DEF HashInv
  <2>2. ASSUME NEW i \in Live(ht) PROVE FindPosition(ht, ht.buckets[i].key) = [found |-> TRUE, pos |-> i]
    <3> DEFINE k == ht.buckets[i].key
               p == FindPosition(ht, k)
    <3>1. i \in Taken(ht.buckets) /\ k \in Key
      BY <2>1, <2>2, GoodCounts, Slots DEF Taken
    <3>2. /\ p = [found |-> p.found, pos |-> p.pos] /\ p.found \in BOOLEAN
          /\ p.found => p.pos \in Taken(ht.buckets) /\ ht.buckets[p.pos].key = k
          /\ ~p.found => \A j \in Taken(ht.buckets) : ht.buckets[j].key # k
      BY <2>1, <3>1, FindPositionIs
    <3>3. p.found = TRUE
      BY <3>1, <3>2
    <3>4. p.pos = i
      <4>1. \A j, h \in Taken(ht.buckets) : ht.buckets[j].key = ht.buckets[h].key => j = h
        BY <2>1 DEF GoodTable, InPlace
      <4> HIDE DEF p
      <4> QED BY <3>1, <3>2, <3>3, <4>1
    <3> HIDE DEF p
    <3> QED BY <3>2, <3>3, <3>4 DEF p
  <2>3. ht.num_deleted = Cardinality({i \in DOMAIN ht.buckets : ht.buckets[i] = Mark})
    BY <2>1 DEF GoodTable, Marks
  <2> QED BY <2>2, <2>3 DEF ElementsFound
<1> QED BY <1>1, HashInvariant, PTL

(* A loop that erases elements comes by all that are not erased before.    *)
THEOREM HashLoopVisitsAll == Spec => []LoopVisitsAll
<1>1. ASSUME HashInv PROVE LoopVisitsAll
  <2> SUFFICES ASSUME it # NoLoop, it = BucketCount(ht) PROVE due \subseteq visited
    BY DEF LoopVisitsAll
  <2>1. due \subseteq visited \cup Ahead(ht, it)
    BY <1>1 DEF HashInv, LoopInv
  <2>2. Ahead(ht, it) = {}
    <3>1. BucketCount(ht) \in Nat /\ Taken(ht.buckets) \subseteq 0 .. BucketCount(ht) - 1
      BY <1>1, GoodCounts DEF HashInv, Taken
    <3>2. \A j \in Taken(ht.buckets) : ~(j > it)
      BY <3>1
    <3> QED BY <3>2 DEF Ahead
  <2> QED BY <2>1, <2>2
<1> QED BY <1>1, HashInvariant, PTL

-----------------------------------------------------------------------------
(***************************************************************************)
(* The table implements a map                                              *)
(***************************************************************************)
KeysIn(H) == {e.key : e \in H}

OneEach(H) == \A d, e \in H : d.key = e.key => d = e

MapOf(H) == [k \in KeysIn(H) |-> (CHOOSE e \in H : e.key = k).value]

LEMMA MapOfIs ==
  ASSUME NEW H, OneEach(H)
  PROVE  \A e \in H : e.key \in KeysIn(H) /\ MapOf(H)[e.key] = e.value
<1> SUFFICES ASSUME NEW e \in H PROVE e.key \in KeysIn(H) /\ MapOf(H)[e.key] = e.value
  OBVIOUS
<1>1. e.key \in KeysIn(H)
  BY DEF KeysIn
<1> DEFINE c == CHOOSE d \in H : d.key = e.key
<1>2. c \in H /\ c.key = e.key
  OBVIOUS
<1>3. MapOf(H)[e.key] = c.value
  BY <1>1 DEF MapOf
<1> HIDE DEF c
<1>4. c = e
  BY <1>2 DEF OneEach
<1> QED BY <1>1, <1>3, <1>4

LEMMA MapOfUnique ==
  ASSUME NEW H, OneEach(H), NEW f, f = [k \in KeysIn(H) |-> f[k]], \A e \in H : f[e.key] = e.value
  PROVE  f = MapOf(H)
<1>1. ASSUME NEW k \in KeysIn(H) PROVE f[k] = MapOf(H)[k]
  <2>1. PICK e \in H : k = e.key
    BY DEF KeysIn
  <2> QED BY <2>1, MapOfIs
<1>2. MapOf(H) = [k \in KeysIn(H) |-> MapOf(H)[k]]
  BY DEF MapOf
<1> QED BY <1>1, <1>2

LEMMA DomainOfMap == ASSUME NEW H PROVE DOMAIN MapOf(H) = KeysIn(H)
BY DEF MapOf

LEMMA HeldOnce ==
  ASSUME NEW t, GoodTable(t)
  PROVE  OneEach(Held(t.buckets)) /\ Held(t.buckets) \subseteq Entry
BY DEF GoodTable, InPlace, OneEach, Held, Taken

LEMMA HasKeyIn == ASSUME NEW H, NEW k PROVE HasKey(H, k) <=> k \in KeysIn(H)
BY DEF HasKey, KeysIn

LEMMA ContentsIs == GoodTable(ht) => Contents = MapOf(Held(ht.buckets))
<1> SUFFICES ASSUME GoodTable(ht) PROVE Contents = MapOf(Held(ht.buckets))
  OBVIOUS
<1> DEFINE b == ht.buckets
           B == Taken(b)
           H == Held(b)
           f == [k \in {b[i].key : i \in B} |-> b[CHOOSE i \in B : b[i].key = k].value]
<1>1. Live(ht) = B
  BY GoodCounts
<1>2. Contents = f
  BY <1>1 DEF Contents
<1>3. \A i, j \in B : b[i].key = b[j].key => i = j
  BY DEF GoodTable, InPlace
<1> HIDE DEF b, B
<1>4. KeysIn(H) = {b[i].key : i \in B}
  BY DEF KeysIn, Held, B
<1>5. f = [k \in KeysIn(H) |-> f[k]]
  BY <1>4
<1>6. ASSUME NEW e \in H PROVE f[e.key] = e.value
  <2>1. PICK i \in B : e = b[i]
    BY DEF Held, B
  <2> DEFINE c == CHOOSE j \in B : b[j].key = e.key
  <2>2. c \in B /\ b[c].key = e.key
    BY <2>1
  <2>3. f[e.key] = b[c].value
    BY <2>1
  <2> HIDE DEF c
  <2>4. c = i
    BY <1>3, <2>1, <2>2
  <2> QED BY <2>1, <2>3, <2>4
<1> HIDE DEF f
<1>7. OneEach(H)
  BY HeldOnce DEF b
<1> HIDE DEF H
<1>8. f = MapOf(H)
  BY <1>5, <1>6, <1>7, MapOfUnique
<1> QED BY <1>2, <1>8 DEF H, b

(* What the changes of the elements say of the map.                        *)
LEMMA MapAdded ==
  ASSUME NEW H, OneEach(H), NEW e \in Entry, OneEach(Added(H, e))
  PROVE  MapOf(Added(H, e)) = IF e.key \in DOMAIN MapOf(H) THEN MapOf(H)
                              ELSE Abstract!Put(MapOf(H), e.key, e.value)
<1>1. CASE HasKey(H, e.key)
  BY <1>1, HasKeyIn, DomainOfMap DEF Added
<1>2. CASE ~HasKey(H, e.key)
  <2> DEFINE G == Added(H, e)
             f == Abstract!Put(MapOf(H), e.key, e.value)
  <2>1. G = H \cup {e} /\ e.key \notin KeysIn(H)
    BY <1>2, HasKeyIn DEF Added
  <2>2. KeysIn(G) = KeysIn(H) \cup {e.key}
    BY <2>1 DEF KeysIn
  <2>3. f = [k \in KeysIn(G) |-> IF k = e.key THEN e.value ELSE MapOf(H)[k]]
    BY <2>2, DomainOfMap DEF Abstract!Put
  <2> HIDE DEF f
  <2>4. f = [k \in KeysIn(G) |-> f[k]]
    BY <2>3
  <2>5. ASSUME NEW d \in G PROVE f[d.key] = d.value
    <3>0. d.key \in KeysIn(G)
      BY DEF KeysIn
    <3>1. CASE d = e
      BY <2>3, <3>0, <3>1
    <3>2. CASE d # e
      <4>1. d \in H /\ d.key # e.key /\ MapOf(H)[d.key] = d.value
        BY <2>1, <3>2, MapOfIs DEF KeysIn
      <4> QED BY <2>3, <3>0, <4>1
    <3> QED BY <3>1, <3>2
  <2> HIDE DEF G
  <2>6. f = MapOf(G)
    BY <2>4, <2>5, MapOfUnique DEF G
  <2> QED BY <2>1, <2>6, DomainOfMap DEF f, G
<1> QED BY <1>1, <1>2

LEMMA MapAssigned ==
  ASSUME NEW H, OneEach(H), NEW k \in Key, NEW v \in Value
  PROVE  LET G == {e \in H : e.key # k} \cup {EntryOf(k, v)}
         IN MapOf(G) = Abstract!Put(MapOf(H), k, v)
<1> DEFINE G == {e \in H : e.key # k} \cup {EntryOf(k, v)}
           f == Abstract!Put(MapOf(H), k, v)
<1>0. EntryOf(k, v).key = k /\ EntryOf(k, v).value = v
  BY EntriesAre
<1>1. KeysIn(G) = KeysIn(H) \cup {k}
  BY <1>0 DEF KeysIn
<1>2. f = [j \in KeysIn(G) |-> IF j = k THEN v ELSE MapOf(H)[j]]
  BY <1>1, DomainOfMap DEF Abstract!Put
<1> HIDE DEF f
<1>3. f = [j \in KeysIn(G) |-> f[j]]
  BY <1>2
<1>4. ASSUME NEW d \in G PROVE f[d.key] = d.value
  <2>0. d.key \in KeysIn(G)
    BY DEF KeysIn
  <2>1. CASE d = EntryOf(k, v)
    BY <1>0, <1>2, <2>0, <2>1
  <2>2. CASE d # EntryOf(k, v)
    <3>1. d \in H /\ d.key # k /\ MapOf(H)[d.key] = d.value
      BY <2>2, MapOfIs
    <3> QED BY <1>2, <2>0, <3>1
  <2> QED BY <2>1, <2>2
<1>5. OneEach(G)
  BY <1>0 DEF OneEach
<1> HIDE DEF G
<1>6. f = MapOf(G)
  BY <1>3, <1>4, <1>5, MapOfUnique
<1> QED BY <1>6 DEF f, G

LEMMA MapErased ==
  ASSUME NEW H, OneEach(H), NEW x \in H
  PROVE  MapOf(H \ {x}) = Restrict(MapOf(H), DOMAIN MapOf(H) \ {x.key})
<1> DEFINE G == H \ {x}
           f == Restrict(MapOf(H), DOMAIN MapOf(H) \ {x.key})
<1>1. KeysIn(G) = KeysIn(H) \ {x.key}
  BY DEF KeysIn, OneEach
<1>2. f = [j \in KeysIn(G) |-> MapOf(H)[j]]
  BY <1>1, DomainOfMap DEF Restrict
<1> HIDE DEF f
<1>3. f = [j \in KeysIn(G) |-> f[j]]
  BY <1>2
<1>4. ASSUME NEW d \in G PROVE f[d.key] = d.value
  <2>1. d.key \in KeysIn(G) /\ MapOf(H)[d.key] = d.value
    BY MapOfIs DEF KeysIn
  <2> QED BY <1>2, <2>1
<1>5. OneEach(G)
  BY DEF OneEach
<1> HIDE DEF G
<1>6. f = MapOf(G)
  BY <1>3, <1>4, <1>5, MapOfUnique
<1> QED BY <1>6 DEF f, G

LEMMA MapAddedAll ==
  ASSUME NEW H, OneEach(H), NEW K \in SUBSET Key
  PROVE  MapOf(AddedAll(H, K)) = [k \in DOMAIN MapOf(H) \cup K |->
                                    IF k \in DOMAIN MapOf(H) THEN MapOf(H)[k] ELSE DefaultValue]
<1> DEFINE N == {j \in K : ~HasKey(H, j)}
           G == AddedAll(H, K)
           e(k) == EntryOf(k, DefaultValue)
           f == [k \in KeysIn(H) \cup K |-> IF k \in KeysIn(H) THEN MapOf(H)[k] ELSE DefaultValue]
<1>0. \A k \in N : e(k).key = k /\ e(k).value = DefaultValue /\ k \notin KeysIn(H) /\ k \in K
  BY EntriesAre, HasKeyIn
<1>1. G = H \cup {e(k) : k \in N}
  BY DEF AddedAll
<1>2. K \subseteq N \cup KeysIn(H)
  BY HasKeyIn
<1> HIDE DEF N, G, e
<1>3. KeysIn(G) = KeysIn(H) \cup K
  <2>1. KeysIn(G) = KeysIn(H) \cup N
    BY <1>0, <1>1 DEF KeysIn
  <2> QED BY <1>0, <1>2, <2>1
<1>4. f = [j \in KeysIn(G) |-> f[j]]
  BY <1>3
<1>5. ASSUME NEW d \in G PROVE f[d.key] = d.value
  <2>1. CASE d \in H
    <3>1. d.key \in KeysIn(H) /\ MapOf(H)[d.key] = d.value
      BY <2>1, MapOfIs
    <3> QED BY <3>1
  <2>2. CASE d \notin H
    <3>1. PICK k \in N : d = e(k)
      BY <1>1, <2>2
    <3> QED BY <1>0, <3>1
  <2> QED BY <2>1, <2>2
<1>6. OneEach(G)
  <2>1. \A x \in H : x.key \in KeysIn(H)
    BY DEF KeysIn
  <2> SUFFICES ASSUME NEW x \in G, NEW y \in G, x.key = y.key PROVE x = y
    BY DEF OneEach
  <2>2. CASE x \in H /\ y \in H
    BY <2>2 DEF OneEach
  <2>3. CASE x \notin H /\ y \notin H
    <3>1. PICK k \in N : x = e(k)
      BY <1>1, <2>3
    <3>2. PICK j \in N : y = e(j)
      BY <1>1, <2>3
    <3> QED BY <1>0, <3>1, <3>2
  <2>4. CASE x \in H /\ y \notin H
    <3>1. PICK j \in N : y = e(j)
      BY <1>1, <2>4
    <3> QED BY <1>0, <2>1, <2>4, <3>1
  <2>5. CASE x \notin H /\ y \in H
    <3>1. PICK j \in N : x = e(j)
      BY <1>1, <2>5
    <3> QED BY <1>0, <2>1, <2>5, <3>1
  <2> QED BY <2>2, <2>3, <2>4, <2>5
<1> HIDE DEF f
<1>7. f = MapOf(G)
  BY <1>4, <1>5, <1>6, MapOfUnique
<1> QED BY <1>7, DomainOfMap DEF f, G

LEMMA ContentsNext == HashInv' => Contents' = MapOf(Held(ht'.buckets))
<1>1. (GoodTable(ht) => Contents = MapOf(Held(ht.buckets)))'
  BY ContentsIs, PTL
<1> QED BY <1>1 DEF HashInv

(* Every step of the table is one of the map, or leaves the map alone.     *)
LEMMA HashImplementsStep == HashInv /\ HashInv' /\ [Next]_vars => [Abstract!Next]_Contents
<1> SUFFICES ASSUME HashInv, HashInv', [Next]_vars PROVE Abstract!Next \/ Contents' = Contents
  OBVIOUS
<1> DEFINE H == Held(ht.buckets)
           G == Held(ht'.buckets)
<1>0. GoodTable(ht) /\ Contents = MapOf(H) /\ OneEach(H) /\ H \subseteq Entry
  BY ContentsIs, HeldOnce DEF HashInv
<1>1. Contents' = MapOf(G)
  BY ContentsNext
<1>2. OneEach(G)
  <2>1. GoodTable(ht')
    BY DEF HashInv
  <2> QED BY <2>1, HeldOnce
<1> HIDE DEF H, G
<1>3. G = H => Contents' = Contents
  BY <1>0, <1>1
<1>4. ASSUME NEW x \in Taken(ht.buckets), ht' = Marked(ht, x) PROVE Abstract!Next
  <2> DEFINE e == ht.buckets[x]
  <2>1. G = H \ {e}
    BY <1>0, <1>4, MarkedGood DEF G, H
  <2>2. e \in H /\ e.key \in Key
    BY <1>0, Slots DEF H, Held
  <2> HIDE DEF e
  <2>3. MapOf(G) = Abstract!Restrict(MapOf(H), DOMAIN MapOf(H) \ {e.key})
    BY <1>0, <2>1, <2>2, MapErased DEF Restrict, Abstract!Restrict
  <2>4. Abstract!Erase(e.key)
    BY <1>0, <1>1, <2>3 DEF Abstract!Erase
  <2> QED BY <2>2, <2>4 DEF Abstract!Next
<1>5. ASSUME NEW k \in Key, Erase(k) PROVE Abstract!Next
  <2> DEFINE x == FindPosition(ht, k).pos
  <2>1. x \in Taken(ht.buckets) /\ ht' = Marked(ht, x)
    BY <1>0, <1>5, FoundIs DEF Erase
  <2> HIDE DEF x
  <2> QED BY <1>4, <2>1
<1>6. ASSUME NEW k \in Key, NEW v \in Value, Insert(k, v) PROVE Abstract!Next
  <2> DEFINE e == EntryOf(k, v)
  <2>1. e \in Entry /\ e.key = k /\ e.value = v
    BY EntriesAre
  <2>2. ht' = Inserted(ht, e)
    BY <1>6 DEF Insert
  <2> HIDE DEF e
  <2>3. G = Added(H, e)
    BY <1>0, <2>1, <2>2, InsertedGood DEF G, H
  <2>4. MapOf(G) = IF k \in DOMAIN MapOf(H) THEN MapOf(H) ELSE Abstract!Put(MapOf(H), k, v)
    BY <1>0, <1>2, <2>1, <2>3, MapAdded
  <2>5. Abstract!Insert(k, v)
    BY <1>0, <1>1, <2>4 DEF Abstract!Insert
  <2> QED BY <2>5 DEF Abstract!Next
<1>7. ASSUME NEW k \in Key, NEW v \in Value, Assign(k, v) PROVE Abstract!Next
  <2>1. G = {e \in H : e.key # k} \cup {EntryOf(k, v)}
    BY <1>0, <1>7, AssignedGood DEF Assign, G, H
  <2>2. MapOf(G) = Abstract!Put(MapOf(H), k, v)
    BY <1>0, <2>1, MapAssigned
  <2>3. Abstract!Assign(k, v)
    BY <1>0, <1>1, <2>2 DEF Abstract!Assign
  <2> QED BY <2>3 DEF Abstract!Next
<1>8. ASSUME NEW s \in Ranges PROVE KeysOf(s, Len(s)) \in SUBSET Key
  BY RangesAre DEF KeysOf
<1>9. ASSUME NEW s \in Ranges, InsertRange(s) PROVE Abstract!Next
  <2> DEFINE K == KeysOf(s, Len(s))
  <2>1. G = AddedAll(H, K)
    BY <1>0, <1>9, InsertRangeLeaves DEF InsertRange, G, H
  <2>2. K \in SUBSET Key
    BY <1>8
  <2> HIDE DEF K
  <2>3. Abstract!InsertAll(K)
    BY <1>0, <1>1, <2>1, <2>2, MapAddedAll DEF Abstract!InsertAll
  <2> QED BY <2>2, <2>3 DEF Abstract!Next
<1>10. DOMAIN MapOf({}) = {} /\ OneEach({}) /\ AddedAll({}, {}) = {}
  BY DEF MapOf, KeysIn, OneEach, AddedAll
<1>11. ASSUME NEW K \in SUBSET Key, G = AddedAll({}, K) PROVE Abstract!Next
  <2>1. MapOf(G) = [k \in DOMAIN MapOf({}) \cup K |->
                      IF k \in DOMAIN MapOf({}) THEN MapOf({})[k] ELSE DefaultValue]
    BY <1>10, <1>11, MapAddedAll
  <2>2. MapOf(G) = [k \in K |-> DefaultValue]
    BY <1>10, <2>1
  <2>3. Abstract!Replace(K)
    BY <1>1, <2>2 DEF Abstract!Replace
  <2> QED BY <2>3 DEF Abstract!Next
<1>12. ASSUME NEW s \in Ranges, NEW d \in BOOLEAN, Copy(s, d) PROVE Abstract!Next
  <2>1. G = AddedAll({}, KeysOf(s, Len(s)))
    BY <1>0, <1>12, CopyLeaves DEF Copy, G
  <2> QED BY <1>8, <1>11, <2>1
<1>13. CASE Clear
  <2>1. G = {}
    BY <1>0, <1>13, ClearLeaves DEF Clear, G
  <2> QED BY <1>10, <1>11, <2>1
<1>14. ASSUME NEW d \in BOOLEAN, SetUseDeleted(d) PROVE G = H
  BY <1>0, <1>14, SquashedLeaves DEF SetUseDeleted, G, H
<1>15. ASSUME NEW n \in 0 .. MaxRequest, Resize(n) PROVE G = H
  <2>1. n \in Nat
    BY SparseHashAssumption
  <2> QED BY <1>0, <1>15, <2>1, ResizeLeaves DEF Resize, G, H
<1>16. CASE EraseVisited
  <2>1. CASE TestDeleted(ht, it)
    <3>1. G = H
      BY <1>16, <2>1 DEF EraseVisited, G, H
    <3> QED BY <1>3, <3>1
  <2>2. CASE ~TestDeleted(ht, it)
    <3>1. ht' = Marked(ht, it) /\ it \in DOMAIN ht.buckets
      BY <1>16, <2>2 DEF EraseVisited
    <3>2. it \in Full(ht.buckets)
      BY <1>0, <3>1, GoodCounts DEF HashInv, LoopInv
    <3>3. it \in Taken(ht.buckets)
      <4>1. Nonempty(ht) = Full(ht.buckets) /\ Live(ht) = Taken(ht.buckets)
        BY <1>0, GoodCounts
      <4> QED BY <2>2, <3>2, <4>1 DEF Live
    <3> QED BY <1>4, <3>1, <3>3
  <2> QED BY <2>1, <2>2
<1>17. ASSUME Begin \/ Advance \/ LeaveLoop \/ UNCHANGED vars PROVE G = H
  <2>1. ht' = ht
    BY <1>17 DEF Begin, Advance, LeaveLoop, vars
  <2> QED BY <2>1 DEF G, H
<1> QED
  BY <1>3, <1>5, <1>6, <1>7, <1>9, <1>12, <1>13, <1>14, <1>15, <1>16, <1>17 DEF Next

(* The hash tables implement a map, whatever the layout of the table and   *)
(* however it has come about.                                              *)
THEOREM HashImplementsMap == Spec => ImplementsMap
<1>1. Init => Abstract!Init
  <2> SUFFICES ASSUME Init PROVE Abstract!Init
    OBVIOUS
  <2>1. GoodTable(ht) /\ Held(ht.buckets) = {}
    BY StartingSize, EmptyTableGood DEF Init
  <2>2. Contents = MapOf({})
    BY <2>1, ContentsIs
  <2>3. Contents = [k \in {} |-> DefaultValue]
    BY <2>2 DEF MapOf, KeysIn
  <2> QED BY <2>3 DEF Abstract!Init
<1> QED BY <1>1, HashInvariant, HashImplementsStep, PTL DEF Spec, ImplementsMap, Abstract!Spec
=============================================================================
