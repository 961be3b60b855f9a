--------------------------- MODULE NaturalNumbers ---------------------------
(***************************************************************************)
(* The least-number principle, induction over a set of natural numbers,    *)
(* and the sums that recursive functions add up.                           *)
(***************************************************************************)
EXTENDS Integers, WellFoundedInduction, TLAPS

\* Every non-empty set of natural numbers has a least element.
LEMMA LeastNatural ==
    ASSUME NEW T \in SUBSET Nat, T # {}
    PROVE  \E x \in T : \A y \in T : x <= y
  <1> DEFINE Less == OpToRel(<, Nat)
  <1>1. IsWellFoundedOn(Less, Nat)
    BY NatLessThanWellFounded
  <1>2. \A x, y \in Nat : y < x => <<y, x>> \in Less
    BY DEF OpToRel
  <1> HIDE DEF Less
  <1>3. PICK x \in T : \A y \in T : ~(<<y, x>> \in Less)
    BY <1>1, WFMin
  <1>4. ASSUME NEW y \in T PROVE x <= y
    <2>1. x \in Nat /\ y \in Nat
      OBVIOUS
    <2>2. ~(y < x)
      BY <1>2, <1>3, <2>1
    <2> QED BY <2>1, <2>2
  <1> QED BY <1>3, <1>4

\* A set that holds 0 and with every number the next one holds them all.
LEMMA Induction ==
    ASSUME NEW T, 0 \in T, \A n \in Nat : n \in T => n + 1 \in T
    PROVE  \A n \in Nat : n \in T
  <1> DEFINE rest == {n \in Nat : n \notin T}
  <1>1. SUFFICES ASSUME rest # {} PROVE FALSE
    OBVIOUS
  <1>2. PICK x \in rest : \A y \in rest : x <= y
    BY <1>1, LeastNatural
  <1>3. x - 1 \in Nat /\ x - 1 \in T
    BY <1>2
  <1> QED BY <1>2, <1>3

\* The functions that add up the first n steps.
SumsTo(step, n) ==
    {s \in [0 .. n -> Int] :
        s[0] = 0 /\ \A i \in 0 .. n - 1 : s[i + 1] = s[i] + step[i]}

\* However many steps, there is such a function.
LEMMA SumsToExist ==
    ASSUME NEW step \in [Nat -> Int]
    PROVE  \A n \in Nat : SumsTo(step, n) # {}
  <1> DEFINE T == {n \in Nat : SumsTo(step, n) # {}}
  <1>1. 0 \in T
    <2>1. [i \in 0 .. 0 |-> 0] \in SumsTo(step, 0)
      BY DEF SumsTo
    <2> QED BY <2>1
  <1>2. ASSUME NEW n \in Nat, n \in T PROVE n + 1 \in T
    <2>1. PICK s : s \in SumsTo(step, n)
      BY <1>2
    <2> DEFINE more == [i \in 0 .. n + 1 |->
                            IF i = n + 1 THEN s[n] + step[n] ELSE s[i]]
    <2>2. /\ s \in [0 .. n -> Int] /\ s[0] = 0
          /\ \A i \in 0 .. n - 1 : s[i + 1] = s[i] + step[i]
      BY <2>1 DEF SumsTo
    <2>3. more \in [0 .. n + 1 -> Int] /\ more[0] = 0
      BY <2>2
    <2>4. ASSUME NEW i \in 0 .. n + 1 - 1
          PROVE  more[i + 1] = more[i] + step[i]
      <3>1. CASE i = n
        BY <2>2, <3>1
      <3>2. CASE i # n
        BY <2>2, <3>2
      <3> QED BY <3>1, <3>2
    <2> HIDE DEF more
    <2>5. more \in SumsTo(step, n + 1)
      BY <2>3, <2>4 DEF SumsTo
    <2> QED BY <2>5
  <1> HIDE DEF T
  <1>3. \A n \in Nat : n \in T
    BY <1>1, <1>2, Induction
  <1> QED BY <1>3 DEF T

\* They agree as far as they go.
LEMMA SumsToAgree ==
    ASSUME NEW step \in [Nat -> Int], NEW n \in Nat, NEW m \in Nat,
           NEW s \in SumsTo(step, n), NEW t \in SumsTo(step, m)
    PROVE  \A i \in Nat : i <= n /\ i <= m => s[i] = t[i]
  <1> DEFINE T == {i \in Nat : i <= n /\ i <= m => s[i] = t[i]}
  <1>1. 0 \in T
    BY DEF SumsTo
  <1>2. ASSUME NEW i \in Nat, i \in T PROVE i + 1 \in T
    <2>1. SUFFICES ASSUME i + 1 <= n, i + 1 <= m PROVE s[i + 1] = t[i + 1]
      OBVIOUS
    <2>2. i \in 0 .. n - 1 /\ i \in 0 .. m - 1 /\ s[i] = t[i]
      BY <1>2, <2>1
    <2> QED BY <2>2 DEF SumsTo
  <1> HIDE DEF T
  <1>3. \A i \in Nat : i \in T
    BY <1>1, <1>2, Induction
  <1> QED BY <1>3 DEF T

\* All steps can be added up.
LEMMA SumsExist ==
    ASSUME NEW step \in [Nat -> Int]
    PROVE  \E s \in [Nat -> Int] :
                s[0] = 0 /\ \A n \in Nat : s[n + 1] = s[n] + step[n]
  <1> DEFINE part == [n \in Nat |-> CHOOSE t : t \in SumsTo(step, n)]
             s == [n \in Nat |-> part[n][n]]
  <1>1. ASSUME NEW n \in Nat PROVE part[n] \in SumsTo(step, n)
    BY SumsToExist
  <1> HIDE DEF part
  <1>2. \A n \in Nat : part[n][n] \in Int
    BY <1>1 DEF SumsTo
  <1>3. part[0][0] = 0
    BY <1>1 DEF SumsTo
  <1>4. ASSUME NEW n \in Nat
        PROVE  part[n + 1][n + 1] = part[n][n] + step[n]
    <2>1. part[n + 1] \in SumsTo(step, n + 1) /\ part[n] \in SumsTo(step, n)
      BY <1>1
    <2>2. part[n + 1][n] = part[n][n]
      BY <2>1, SumsToAgree
    <2>3. part[n + 1][n + 1] = part[n + 1][n] + step[n]
      BY <2>1 DEF SumsTo
    <2> QED BY <2>2, <2>3
  <1>5. s \in [Nat -> Int] /\ s[0] = 0
    BY <1>2, <1>3
  <1>6. \A n \in Nat : s[n + 1] = s[n] + step[n]
    BY <1>4
  <1> HIDE DEF s
  <1> QED BY <1>5, <1>6
=============================================================================
