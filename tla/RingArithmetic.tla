--------------------------- MODULE RingArithmetic ---------------------------
(***************************************************************************)
(* Facts about indices modulo the length of a ring, for every length.      *)
(***************************************************************************)
EXTENDS Integers, TLAPS

\* A number is its quotient and its remainder.
LEMMA DivMod ==
    ASSUME NEW a \in Nat, NEW L \in Nat \ {0}
    PROVE  /\ a = L * (a \div L) + (a % L)
           /\ a \div L \in Nat
           /\ a % L \in 0 .. L - 1
  BY SMT

\* Quotient and remainder are determined by the number.
LEMMA RemainderUnique ==
    ASSUME NEW L \in Nat \ {0}, NEW k \in Int, NEW j \in Int,
           NEW m \in 0 .. L - 1, NEW n \in 0 .. L - 1,
           L * k + m = L * j + n
    PROVE  k = j /\ m = n
  <1>1. k = j
    <2>1. CASE k < j
      <3>1. L * (j - k) >= L
        BY <2>1
      <3>2. L * (j - k) = L * j - L * k
        OBVIOUS
      <3> QED BY <3>1, <3>2
    <2>2. CASE k > j
      <3>1. L * (k - j) >= L
        BY <2>2
      <3>2. L * (k - j) = L * k - L * j
        OBVIOUS
      <3> QED BY <3>1, <3>2
    <2> QED BY <2>1, <2>2
  <1> QED BY <1>1

\* A way to compute a remainder: exhibit it.
LEMMA RemainderIs ==
    ASSUME NEW a \in Nat, NEW L \in Nat \ {0}, NEW k \in Int,
           NEW m \in 0 .. L - 1, a = L * k + m
    PROVE  a % L = m
  <1> DEFINE q == a \div L
             r == a % L
  <1>1. a = L * q + r /\ q \in Int /\ r \in 0 .. L - 1
    BY DivMod
  <1> HIDE DEF q, r
  <1>2. r = m
    BY <1>1, RemainderUnique
  <1> QED BY <1>2 DEF r

\* An index that has not reached the end of the ring is its own slot.
LEMMA ModSmall ==
    ASSUME NEW a \in Nat, NEW L \in Nat \ {0}, a < L
    PROVE  a % L = a
  BY SMT

\* Every index falls on a slot of the ring.
LEMMA ModRange ==
    ASSUME NEW a \in Nat, NEW L \in Nat \ {0}
    PROVE  a % L \in 0 .. L - 1
  BY SMT

\* Adding to an index and wrapping is adding to the number and wrapping.
LEMMA ModAdd ==
    ASSUME NEW a \in Nat, NEW b \in Nat, NEW L \in Nat \ {0}
    PROVE  ((a % L) + b) % L = (a + b) % L
  <1> DEFINE q == a \div L
             r == a % L
             s == (r + b) \div L
             t == (r + b) % L
  <1>1. a = L * q + r /\ q \in Nat /\ r \in Nat
    BY DivMod
  <1>2. r + b \in Nat
    BY <1>1
  <1>3. r + b = L * s + t /\ s \in Nat /\ t \in 0 .. L - 1
    BY <1>2, DivMod
  <1> HIDE DEF q, r, s, t
  <1>4. L * (q + s) = L * q + L * s
    BY <1>1, <1>3
  <1>5. a + b = L * (q + s) + t /\ q + s \in Int /\ a + b \in Nat
    BY <1>1, <1>3, <1>4
  <1>6. (a + b) % L = t
    BY <1>3, <1>5, RemainderIs
  <1> QED BY <1>6 DEF r, t

\* Numbers less than a ring apart have different indices.
LEMMA ModDistinct ==
    ASSUME NEW a \in Nat, NEW b \in Nat, NEW L \in Nat \ {0},
           a < b, b < a + L
    PROVE  a % L # b % L
  <1> SUFFICES ASSUME a % L = b % L
               PROVE  FALSE
    OBVIOUS
  <1> DEFINE k == a \div L
             j == b \div L
             r == a % L
  <1>1. a = L * k + r /\ k \in Nat /\ r \in 0 .. L - 1
    BY DivMod
  <1>2. b = L * j + r /\ j \in Nat
    BY DivMod
  <1> HIDE DEF k, j, r
  <1>3. L * (j - k) = L * j - L * k
    BY <1>1, <1>2
  <1>4. L * (j - k) = b - a
    BY <1>1, <1>2, <1>3
  <1>5. j - k >= 1
    <2>1. CASE j - k <= 0
      <3>1. L * (j - k) <= 0
        BY <2>1, <1>1, <1>2
      <3> QED BY <3>1, <1>4
    <2> QED BY <2>1, <1>1, <1>2
  <1>6. L * (j - k) >= L
    BY <1>1, <1>2, <1>5
  <1> QED BY <1>4, <1>6

\* The index one ring length back has the same slot.
LEMMA ModOnceAround ==
    ASSUME NEW a \in Nat, NEW L \in Nat \ {0}, a >= L
    PROVE  (a - L) % L = a % L
  <1> DEFINE q == a \div L
             r == a % L
  <1>1. a = L * q + r /\ q \in Nat /\ r \in 0 .. L - 1
    BY DivMod
  <1> HIDE DEF q, r
  <1>2. L * (q - 1) = L * q - L
    BY <1>1
  <1>3. a - L = L * (q - 1) + r /\ a - L \in Nat /\ q - 1 \in Int
    BY <1>1, <1>2
  <1>4. (a - L) % L = r
    BY <1>1, <1>3, RemainderIs
  <1> QED BY <1>4 DEF r

\* The slot before a successor's slot.
LEMMA ModPrevious ==
    ASSUME NEW a \in Nat, NEW L \in Nat \ {0}
    PROVE  a % L = IF (a + 1) % L = 0 THEN L - 1 ELSE ((a + 1) % L) - 1
  <1> DEFINE r == a % L
  <1>1. r \in 0 .. L - 1
    BY ModRange
  <1>2. (a + 1) % L = (r + 1) % L
    BY ModAdd
  <1> HIDE DEF r
  <1>3. CASE r = L - 1
    <2>1. r + 1 = L * 1 + 0
      BY <1>3
    <2>2. (r + 1) % L = 0
      BY <1>1, <2>1, RemainderIs
    <2> QED BY <1>2, <1>3, <2>2 DEF r
  <1>4. CASE r # L - 1
    <2>1. (r + 1) % L = r + 1
      BY <1>1, <1>4, ModSmall
    <2> QED BY <1>1, <1>2, <2>1 DEF r
  <1> QED BY <1>3, <1>4
=============================================================================
