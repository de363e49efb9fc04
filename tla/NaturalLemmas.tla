---------------------------- MODULE NaturalLemmas ----------------------------
(***************************************************************************)
(* Facts about numbers that the provers do not find by themselves:         *)
(* induction over the natural numbers, the remainder n % c of a position n *)
(* in a ring of c slots, and the powers of two.                            *)
(***************************************************************************)
EXTENDS PowersOfTwo, Integers, WellFoundedInduction, TLAPS

(***************************************************************************)
(* Induction, stated about sets: the library's theorems about predicates   *)
(* cannot be instantiated by the provers.                                  *)
(***************************************************************************)
\* Every set of natural numbers has a least element.
LEMMA LeastNatural ==
  ASSUME NEW T \in SUBSET Nat, T # {}
  PROVE  \E m \in T : \A n \in T : m <= n
<1>1. OpToRel(<, Nat) = {ss \in Nat \X Nat : ss[1] < ss[2]}
  BY DEF OpToRel
<1>2. PICK m \in T : \A n \in T : ~ (<<n, m>> \in OpToRel(<, Nat))
  BY NatLessThanWellFounded, WFMin
<1>3. \A n \in T : ~ (n < m)
  BY <1>1, <1>2
<1> QED BY <1>3

\* A set that has zero and with every number the next one has them all.
LEMMA NaturalInduction ==
  ASSUME NEW T \in SUBSET Nat, 0 \in T, \A n \in T : n + 1 \in T
  PROVE  T = Nat
<1> SUFFICES ASSUME Nat \ T # {} PROVE FALSE
  OBVIOUS
<1>1. PICK m \in Nat \ T : \A n \in Nat \ T : m <= n
  BY LeastNatural
<1>2. m - 1 \in Nat /\ m - 1 \in T
  BY <1>1
<1> QED BY <1>1, <1>2

(***************************************************************************)
(* Remainders.                                                             *)
(***************************************************************************)
\* A position falls on one of the c slots.
LEMMA RemainderRange ==
  ASSUME NEW c \in Nat \ {0}, NEW n \in Int
  PROVE  n % c \in 0 .. c - 1
OBVIOUS

\* The first c positions are the slots themselves.
LEMMA RemainderSelf ==
  ASSUME NEW c \in Nat \ {0}, NEW n \in 0 .. c - 1
  PROVE  n % c = n
OBVIOUS

\* Two different positions on one slot are at least one round apart.
LEMMA RemainderDistance ==
  ASSUME NEW c \in Nat \ {0}, NEW j \in Nat, NEW k \in Nat,
         j % c = k % c, j < k
  PROVE  k - j >= c
OBVIOUS

\* Quotient and remainder determine each other.
LEMMA RemainderUnique ==
  ASSUME NEW c \in Nat \ {0}, NEW a \in Nat, NEW b \in Nat,
         NEW r \in 0 .. c - 1, NEW s \in 0 .. c - 1,
         c * a + r = c * b + s
  PROVE  r = s
<1>1. CASE a = b
  BY <1>1
<1>2. CASE a >= b + 1
  <2>1. c * a >= c * b + c
    BY <1>2
  <2> QED BY <2>1
<1>3. CASE b >= a + 1
  <2>1. c * b >= c * a + c
    BY <1>3
  <2> QED BY <2>1
<1> QED BY <1>1, <1>2, <1>3

\* One round later the position falls on the same slot.
LEMMA RemainderNextRound ==
  ASSUME NEW c \in Nat \ {0}, NEW k \in Nat
  PROVE  (k + c) % c = k % c
<1> DEFINE j == k + c
<1>1. /\ k = c * (k \div c) + (k % c)
      /\ k % c \in 0 .. c - 1
      /\ k \div c \in Nat
  OBVIOUS
<1>2. /\ j = c * (j \div c) + (j % c)
      /\ j % c \in 0 .. c - 1
      /\ j \div c \in Nat
  OBVIOUS
<1>3. j = k + c
  OBVIOUS
<1> HIDE DEF j
<1>4. c * ((k \div c) + 1) + (k % c) = c * (j \div c) + (j % c)
  BY <1>1, <1>2, <1>3
<1>5. (k \div c) + 1 \in Nat
  BY <1>1
<1>6. k % c = j % c
  BY <1>1, <1>2, <1>4, <1>5, RemainderUnique
<1> QED BY <1>3, <1>6

\* A number that is r more than a multiple of c has the remainder r.
LEMMA RemainderOf ==
  ASSUME NEW c \in Nat \ {0}, NEW n \in Nat, NEW a \in Int, NEW r \in 0 .. c - 1,
         n = c * a + r
  PROVE  n % c = r
<1>1. /\ n = c * (n \div c) + (n % c)
      /\ n % c \in 0 .. c - 1
      /\ n \div c \in Nat
  OBVIOUS
<1>2. a \in Nat
  <2> SUFFICES ASSUME a <= -1 PROVE FALSE
    OBVIOUS
  <2>1. c * a <= -c
    OBVIOUS
  <2> QED BY <2>1
<1> QED BY <1>1, <1>2, RemainderUnique

\* Every number is its remainder and a multiple of c.
LEMMA RemainderSplit ==
  ASSUME NEW c \in Nat \ {0}, NEW n \in Nat
  PROVE  \E a \in Nat : n = c * a + (n % c) /\ n % c \in 0 .. c - 1
<1>1. /\ n = c * (n \div c) + (n % c)
      /\ n % c \in 0 .. c - 1
      /\ n \div c \in Nat
  OBVIOUS
<1> QED BY <1>1

\* Whole rounds more do not change the slot.
LEMMA RemainderRounds ==
  ASSUME NEW c \in Nat \ {0}, NEW k \in Nat, NEW n \in Nat
  PROVE  (k + c * n) % c = k % c
<1>1. PICK a \in Nat : k = c * a + (k % c) /\ k % c \in 0 .. c - 1
  BY RemainderSplit
<1> DEFINE r == k % c
           p == k + c * n
<1>2. p = c * (a + n) + r
  BY <1>1
<1>3. r \in 0 .. c - 1 /\ a + n \in Int /\ p \in Nat
  BY <1>1
<1> HIDE DEF r, p
<1>4. p % c = r
  BY <1>2, <1>3, RemainderOf
<1> QED BY <1>4 DEF r, p

(***************************************************************************)
(* The powers of two.  Pow2 is defined by recursion: that there is such a  *)
(* function is shown from its beginnings (Doubling), of which there is one *)
(* for every length.                                                       *)
(***************************************************************************)
Doubles(h, n) == h[0] = 1 /\ \A k \in 1 .. n : h[k] = 2 * h[k - 1]
Doubling(n) == CHOOSE h \in [0 .. n -> Nat \ {0}] : Doubles(h, n)

LEMMA DoublingExists ==
  ASSUME NEW n \in Nat
  PROVE  Doubling(n) \in [0 .. n -> Nat \ {0}] /\ Doubles(Doubling(n), n)
<1> DEFINE T == {m \in Nat : \E h \in [0 .. m -> Nat \ {0}] : Doubles(h, m)}
<1>1. 0 \in T
  <2>1. [k \in 0 .. 0 |-> 1] \in [0 .. 0 -> Nat \ {0}] /\ Doubles([k \in 0 .. 0 |-> 1], 0)
    BY DEF Doubles
  <2> QED BY <2>1
<1>2. ASSUME NEW m \in T PROVE m + 1 \in T
  <2>1. PICK h \in [0 .. m -> Nat \ {0}] : Doubles(h, m)
    OBVIOUS
  <2> DEFINE g == [k \in 0 .. m + 1 |-> IF k = m + 1 THEN 2 * h[m] ELSE h[k]]
  <2>2. g \in [0 .. m + 1 -> Nat \ {0}]
    OBVIOUS
  <2>3. ASSUME NEW k \in 1 .. m + 1 PROVE g[k] = 2 * g[k - 1]
    <3>1. CASE k = m + 1
      BY <3>1
    <3>2. CASE k \in 1 .. m
      BY <2>1, <3>2 DEF Doubles
    <3> QED BY <3>1, <3>2
  <2>4. g[0] = 1
    BY <2>1 DEF Doubles
  <2> HIDE DEF g
  <2>5. Doubles(g, m + 1)
    BY <2>3, <2>4 DEF Doubles
  <2>6. m + 1 \in Nat
    OBVIOUS
  <2> QED BY <2>2, <2>5, <2>6
<1> HIDE DEF T
<1>3. T = Nat
  BY <1>1, <1>2, NaturalInduction DEF T
<1>4. \E h \in [0 .. n -> Nat \ {0}] : Doubles(h, n)
  BY <1>3 DEF T
<1> QED BY <1>4 DEF Doubling

\* Two of them agree as far as both go.
LEMMA DoublingsAgree ==
  ASSUME NEW m \in Nat, NEW n \in Nat, NEW k \in Nat, k <= m, k <= n
  PROVE  Doubling(m)[k] = Doubling(n)[k]
<1> DEFINE T == {i \in Nat : i <= m /\ i <= n => Doubling(m)[i] = Doubling(n)[i]}
<1>1. Doubles(Doubling(m), m) /\ Doubles(Doubling(n), n)
  BY DoublingExists
<1>2. 0 \in T
  BY <1>1 DEF Doubles
<1>3. ASSUME NEW i \in T PROVE i + 1 \in T
  <2> SUFFICES ASSUME i + 1 <= m, i + 1 <= n
               PROVE  Doubling(m)[i + 1] = Doubling(n)[i + 1]
    OBVIOUS
  <2>1. Doubling(m)[i] = Doubling(n)[i]
    OBVIOUS
  <2>2. i + 1 \in 1 .. m /\ i + 1 \in 1 .. n /\ (i + 1) - 1 = i
    OBVIOUS
  <2> QED BY <1>1, <2>1, <2>2 DEF Doubles
<1> HIDE DEF T
<1>4. T = Nat
  BY <1>2, <1>3, NaturalInduction DEF T
<1> QED BY <1>4 DEF T

LEMMA Pow2Exists ==
  \E f : f = [k \in Nat |-> IF k = 0 THEN 1 ELSE 2 * f[k - 1]]
<1> DEFINE f == [n \in Nat |-> Doubling(n)[n]]
<1>1. ASSUME NEW k \in Nat
      PROVE  f[k] = IF k = 0 THEN 1 ELSE 2 * f[k - 1]
  <2>1. CASE k = 0
    BY <2>1, DoublingExists DEF Doubles
  <2>2. CASE k # 0
    <3>1. k - 1 \in Nat /\ k \in 1 .. k
      BY <2>2
    <3>2. Doubling(k)[k] = 2 * Doubling(k)[k - 1]
      BY <3>1, DoublingExists DEF Doubles
    <3>3. Doubling(k)[k - 1] = Doubling(k - 1)[k - 1]
      BY <3>1, DoublingsAgree
    <3> QED BY <2>2, <3>1, <3>2, <3>3
  <2> QED BY <2>1, <2>2
<1>2. f = [k \in Nat |-> f[k]]
  OBVIOUS
<1>3. [k \in Nat |-> f[k]] = [k \in Nat |-> IF k = 0 THEN 1 ELSE 2 * f[k - 1]]
  BY <1>1
<1> HIDE DEF f
<1> QED BY <1>2, <1>3

LEMMA Pow2Step ==
  /\ Pow2[0] = 1
  /\ \A k \in Nat : Pow2[k + 1] = 2 * Pow2[k]
<1>1. Pow2 = [k \in Nat |-> IF k = 0 THEN 1 ELSE 2 * Pow2[k - 1]]
  BY Pow2Exists DEF Pow2
<1>2. \A k \in Nat : Pow2[k] = IF k = 0 THEN 1 ELSE 2 * Pow2[k - 1]
  BY <1>1
<1>3. ASSUME NEW k \in Nat PROVE Pow2[k + 1] = 2 * Pow2[k]
  <2>1. k + 1 \in Nat /\ k + 1 # 0 /\ (k + 1) - 1 = k
    OBVIOUS
  <2> QED BY <1>2, <2>1
<1> QED BY <1>2, <1>3

LEMMA Pow2Type == \A k \in Nat : Pow2[k] \in Nat \ {0}
<1> DEFINE T == {k \in Nat : Pow2[k] \in Nat \ {0}}
<1>1. 0 \in T /\ \A k \in T : k + 1 \in T
  BY Pow2Step
<1> HIDE DEF T
<1>2. T = Nat
  BY <1>1, NaturalInduction DEF T
<1> QED BY <1>2 DEF T

\* A power of two divides the larger ones.
LEMMA Pow2Divides ==
  ASSUME NEW j \in Nat, NEW n \in Nat
  PROVE  Pow2[j + n] = Pow2[j] * Pow2[n]
<1> DEFINE T == {k \in Nat : Pow2[j + k] = Pow2[j] * Pow2[k]}
<1>1. 0 \in T
  BY Pow2Step, Pow2Type
<1>2. ASSUME NEW k \in T PROVE k + 1 \in T
  <2>1. Pow2[(j + k) + 1] = 2 * Pow2[j + k] /\ Pow2[k + 1] = 2 * Pow2[k]
    BY Pow2Step
  <2>2. Pow2[j] \in Nat /\ Pow2[k] \in Nat /\ (j + k) + 1 = j + (k + 1)
    BY Pow2Type
  <2>3. Pow2[j + k] = Pow2[j] * Pow2[k]
    OBVIOUS
  <2>4. 2 * (Pow2[j] * Pow2[k]) = Pow2[j] * (2 * Pow2[k])
    BY <2>2
  <2>5. Pow2[j + (k + 1)] = Pow2[j] * Pow2[k + 1]
    BY <2>1, <2>2, <2>3, <2>4
  <2> QED BY <2>5
<1> HIDE DEF T
<1>3. T = Nat
  BY <1>1, <1>2, NaturalInduction DEF T
<1> QED BY <1>3 DEF T

\* The powers of two grow.
LEMMA Pow2Grows ==
  ASSUME NEW j \in Nat, NEW n \in Nat
  PROVE  Pow2[j] <= Pow2[j + n]
<1> DEFINE T == {k \in Nat : Pow2[j] <= Pow2[j + k]}
<1>1. 0 \in T
  BY Pow2Type
<1>2. ASSUME NEW k \in T PROVE k + 1 \in T
  <2>1. Pow2[(j + k) + 1] = 2 * Pow2[j + k]
    BY Pow2Step
  <2>2. Pow2[j] \in Nat /\ Pow2[j + k] \in Nat /\ (j + k) + 1 = j + (k + 1)
    BY Pow2Type
  <2> QED BY <2>1, <2>2
<1> HIDE DEF T
<1>3. T = Nat
  BY <1>1, <1>2, NaturalInduction DEF T
<1> QED BY <1>3 DEF T

LEMMA Pow2Monotone ==
  ASSUME NEW j \in Nat, NEW k \in Nat, j <= k
  PROVE  Pow2[j] <= Pow2[k]
<1>1. k - j \in Nat /\ j + (k - j) = k
  OBVIOUS
<1> QED BY <1>1, Pow2Grows

\* Every number is below some power of two.
LEMMA Pow2Above == \A n \in Nat : n < Pow2[n]
<1> DEFINE T == {n \in Nat : n < Pow2[n]}
<1>1. 0 \in T
  BY Pow2Step
<1>2. ASSUME NEW n \in T PROVE n + 1 \in T
  BY Pow2Step, Pow2Type
<1> HIDE DEF T
<1>3. T = Nat
  BY <1>1, <1>2, NaturalInduction DEF T
<1> QED BY <1>3 DEF T
=============================================================================
