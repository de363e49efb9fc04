-------------------------- MODULE Allocators_proofs --------------------------
(***************************************************************************)
(* Proofs about the two allocators of util/, for all pools, sizes asked    *)
(* for and numbers of size classes: TLSF and MemoryPool keep their types,  *)
(* their blocks tile the memory, the free lists of TLSF agree with its     *)
(* bitmaps and its blocks, and both implement Allocator.                   *)
(***************************************************************************)
EXTENDS TLSF, MemoryPool, FiniteSetTheorems, SequenceTheorems, NaturalLemmas, TLAPS

(***************************************************************************)
(* Size classes.                                                           *)
(***************************************************************************)
\* Products of natural numbers.
LEMMA Product ==
  ASSUME NEW c \in Nat, NEW a \in Nat, NEW b \in Nat
  PROVE  /\ c * a \in Nat /\ c * (a + b) = c * a + c * b /\ c * a = a * c
         /\ a <= b => c * a <= c * b
<1>1. c * a \in Nat /\ c * (a + b) = c * a + c * b /\ c * a = a * c
  OBVIOUS
<1>2. ASSUME a <= b PROVE c * a <= c * b
  <2>1. PICK d \in Nat : b = a + d
    BY <1>2
  <2>2. c * d \in Nat /\ c * a \in Nat /\ c * b = c * a + c * d
    BY <2>1
  <2> QED BY <2>2
<1> QED BY <1>1, <1>2

\* The quotient of a division.
LEMMA Quotient ==
  ASSUME NEW c \in Nat \ {0}, NEW n \in Nat
  PROVE  n \div c \in Nat /\ c * (n \div c) <= n /\ n < c * (n \div c) + c
<1>1. /\ n = c * (n \div c) + (n % c) /\ n % c \in 0 .. c - 1 /\ n \div c \in Nat
  OBVIOUS
<1> DEFINE q == n \div c
           r == n % c
<1>2. q \in Nat /\ r \in 0 .. c - 1 /\ n = c * q + r /\ c * q \in Nat
  BY <1>1
<1> HIDE DEF q, r
<1>3. c * q <= n /\ n < c * q + c
  BY <1>2
<1> QED BY <1>2, <1>3 DEF q

\* The quotient is the number that fits.
LEMMA QuotientOf ==
  ASSUME NEW c \in Nat \ {0}, NEW a \in Nat
  PROVE  (c * a) \div c = a /\ (c * a) % c = 0
<1>1. c * a \in Nat /\ c * a = c * a + 0 /\ 0 \in 0 .. c - 1
  OBVIOUS
<1>2. (c * a) % c = 0
  BY <1>1, RemainderOf
<1> DEFINE n == c * a
           q == n \div c
<1>3. n = c * q + (n % c) /\ q \in Nat /\ n \in Nat
  BY <1>1
<1>4. c * q = c * a
  BY <1>2, <1>3
<1> HIDE DEF q, n
<1>5. ASSUME q < a PROVE FALSE
  <2>1. c * (q + 1) <= c * a
    BY <1>3, <1>5, Product
  <2>2. c * (q + 1) = c * q + c /\ c * q \in Nat
    BY <1>3, Product
  <2> QED BY <1>4, <2>1, <2>2
<1>6. ASSUME a < q PROVE FALSE
  <2>1. c * (a + 1) <= c * q
    BY <1>3, <1>6, Product
  <2>2. c * (a + 1) = c * a + c /\ c * a \in Nat
    BY <1>3, Product
  <2> QED BY <1>4, <2>1, <2>2
<1>7. q = a
  BY <1>3, <1>5, <1>6
<1> QED BY <1>2, <1>7 DEF q, n

\* Multiples of c.
LEMMA MultipleOf ==
  ASSUME NEW c \in Nat \ {0}, NEW n \in Nat, n % c = 0
  PROVE  n = c * (n \div c) /\ n \div c \in Nat
OBVIOUS

\* Sums and differences of multiples.
LEMMA MultiplesAdd ==
  ASSUME NEW c \in Nat \ {0}, NEW n \in Nat, NEW m \in Nat, n % c = 0, m % c = 0
  PROVE  /\ (n + m) % c = 0
         /\ n <= m => (m - n) % c = 0 /\ (n < m => m - n >= c)
<1> DEFINE i == n \div c
           j == m \div c
<1>1. n = c * i /\ i \in Nat /\ m = c * j /\ j \in Nat
  BY MultipleOf
<1> HIDE DEF i, j
<1>2. n + m = c * (i + j) /\ i + j \in Nat
  BY <1>1, Product
<1>3. ASSUME n <= m PROVE (m - n) % c = 0 /\ (n < m => m - n >= c)
  <2>1. i <= j
    <3> SUFFICES ASSUME j < i PROVE FALSE
      BY <1>1
    <3>1. c * (j + 1) <= c * i /\ c * (j + 1) = c * j + c /\ c * j \in Nat
      BY <1>1, Product
    <3> QED BY <1>1, <1>3, <3>1
  <2>2. PICK d \in Nat : j = i + d
    BY <1>1, <2>1
  <2>3. m - n = c * d /\ c * d \in Nat
    <3>1. c * j = c * i + c * d /\ c * i \in Nat /\ c * d \in Nat
      BY <1>1, <2>2, Product
    <3> QED BY <1>1, <3>1
  <2>4. (m - n) % c = 0
    BY <2>3, QuotientOf
  <2>5. ASSUME n < m PROVE m - n >= c
    <3>1. 1 <= d
      BY <1>1, <2>2, <2>3, <2>5
    <3>2. c * 1 <= c * d /\ c * 1 = c
      BY <3>1, Product
    <3> QED BY <2>3, <3>2
  <2> QED BY <2>4, <2>5
<1> QED BY <1>2, <1>3, QuotientOf

\* A positive multiple is at least the number itself.
LEMMA MultipleAtLeast ==
  ASSUME NEW c \in Nat \ {0}, NEW n \in Nat, n # 0, n % c = 0
  PROVE  n >= c
<1> SUFFICES ASSUME n < c PROVE FALSE
  OBVIOUS
<1>1. n \in 0 .. c - 1
  OBVIOUS
<1>2. n % c = n
  BY <1>1, RemainderSelf
<1> QED BY <1>2

\* The highest bit.
LEMMA FlsFacts ==
  ASSUME NEW n \in Nat \ {0}
  PROVE  Fls(n) \in Nat /\ Pow2[Fls(n)] <= n /\ n < 2 * Pow2[Fls(n)]
<1> DEFINE T == {k \in Nat : n < Pow2[k]}
<1>1. n \in T
  BY Pow2Above
<1>2. PICK m \in T : \A k \in T : m <= k
  BY <1>1, LeastNatural
<1>3. m # 0 /\ m \in Nat /\ m - 1 \in Nat /\ m <= n
  BY <1>1, <1>2, Pow2Step
<1>4. m - 1 \notin T /\ (m - 1) + 1 = m
  BY <1>2, <1>3
<1>5. m - 1 \in 0 .. n /\ Pow2[m - 1] <= n /\ n < Pow2[(m - 1) + 1]
  BY <1>2, <1>3, <1>4, Pow2Type
<1>6. Fls(n) \in 0 .. n /\ Pow2[Fls(n)] <= n /\ n < Pow2[Fls(n) + 1]
  BY <1>5 DEF Fls
<1> QED BY <1>6, Pow2Step

\* The constants of the code.
LEMMA ClassConstants ==
  /\ MinimiumAllocationSize \in Nat \ {0} /\ SLI \in Nat \ {0} /\ FLC \in Nat \ {0}
  /\ SLC \in Nat /\ SLC >= 2 /\ FLM \in Nat \ {0} /\ FLM = MinimiumAllocationSize * SLC
  /\ BasePowLevel \in Nat /\ BasePowLevel >= SLI
  /\ Pow2[BasePowLevel] = FLM /\ Pow2[BasePowLevel - SLI] = MinimiumAllocationSize
<1>1. /\ MinimiumAllocationSize \in Nat \ {0} /\ SLI \in Nat \ {0} /\ FLC \in Nat \ {0}
      /\ Pow2[BasePowLevel] = FLM
  BY SizesAssumption
<1>2. SLC \in Nat /\ SLC >= 2
  <2>1. SLI - 1 \in Nat /\ (SLI - 1) + 1 = SLI
    BY <1>1
  <2>2. Pow2[SLI] = 2 * Pow2[SLI - 1] /\ Pow2[SLI - 1] \in Nat \ {0}
    BY <2>1, Pow2Step, Pow2Type
  <2> QED BY <2>2 DEF SLC
<1>3. FLM \in Nat \ {0} /\ FLM >= SLC
  BY <1>1, <1>2 DEF FLM
<1>4. BasePowLevel \in Nat /\ FLM < 2 * Pow2[BasePowLevel]
  BY <1>3, FlsFacts DEF BasePowLevel
<1>5. BasePowLevel >= SLI
  <2> SUFFICES ASSUME BasePowLevel < SLI PROVE FALSE
    BY <1>1, <1>4
  <2>1. Pow2[BasePowLevel + 1] <= Pow2[SLI] /\ Pow2[BasePowLevel + 1] = 2 * Pow2[BasePowLevel]
    BY <1>1, <1>4, Pow2Monotone, Pow2Step
  <2> QED BY <1>1, <1>2, <1>3, <1>4, <2>1, Pow2Type DEF SLC
<1>6. Pow2[BasePowLevel - SLI] = MinimiumAllocationSize
  <2> DEFINE d == BasePowLevel - SLI
  <2>1. d \in Nat /\ SLI + d = BasePowLevel
    BY <1>1, <1>4, <1>5
  <2> HIDE DEF d
  <2>2. SLC * Pow2[d] = SLC * MinimiumAllocationSize /\ Pow2[d] \in Nat
    <3>1. Pow2[SLI + d] = SLC * Pow2[d] /\ Pow2[d] \in Nat
      BY <1>1, <2>1, Pow2Divides, Pow2Type DEF SLC
    <3>2. FLM = SLC * MinimiumAllocationSize
      BY <1>1, <1>2, Product DEF FLM
    <3> QED BY <1>1, <2>1, <3>1, <3>2
  <2>3. (SLC * Pow2[d]) \div SLC = Pow2[d]
    BY <1>2, <2>2, QuotientOf
  <2>4. (SLC * MinimiumAllocationSize) \div SLC = MinimiumAllocationSize
    BY <1>1, <1>2, QuotientOf
  <2> QED BY <2>2, <2>3, <2>4 DEF d
<1> QED BY <1>1, <1>2, <1>3, <1>4, <1>5, <1>6 DEF FLM

\* The distance of two classes of first level f.
Segment(f) == Pow2[f - SLI]

\* A first level has SLC segments.
LEMMA SegmentFacts ==
  ASSUME NEW f \in Nat, f >= SLI
  PROVE  /\ Segment(f) \in Nat \ {0} /\ Pow2[f] \in Nat \ {0}
         /\ Pow2[f] = Segment(f) * SLC /\ Pow2[f] \div SLC = Segment(f)
         /\ \A i \in 0 .. SLC : Segment(f) * i \in Nat /\ Segment(f) * i <= Pow2[f]
<1> DEFINE d == f - SLI
<1>1. d \in Nat /\ SLI + d = f /\ SLI \in Nat
  BY ClassConstants
<1> HIDE DEF d
<1>2. SLC \in Nat \ {0} /\ Pow2[d] \in Nat \ {0} /\ Pow2[f] \in Nat \ {0}
  BY <1>1, ClassConstants, Pow2Type
<1>3. Pow2[SLI + d] = SLC * Pow2[d]
  BY <1>1, Pow2Divides DEF SLC
<1>4. Pow2[f] = SLC * Pow2[d] /\ SLC * Pow2[d] = Pow2[d] * SLC
  BY <1>1, <1>2, <1>3, Product
<1>5. (SLC * Pow2[d]) \div SLC = Pow2[d]
  BY <1>2, QuotientOf
<1>6. ASSUME NEW i \in 0 .. SLC PROVE Pow2[d] * i \in Nat /\ Pow2[d] * i <= Pow2[d] * SLC
  BY <1>2, Product
<1> QED BY <1>2, <1>4, <1>5, <1>6 DEF Segment, d

\* The sizes of the classes, beyond the first levels of the tables too.
LEMMA LevelSizeFacts ==
  ASSUME NEW f \in Nat, NEW s \in 0 .. SLC - 1
  PROVE  /\ f = 0 => /\ LevelSize(Level(f, s)) = MinimiumAllocationSize * (s + 1)
                     /\ LevelSize(Level(f, s)) <= FLM
         /\ f > 0 => /\ f + BasePowLevel - 1 \in Nat /\ f + BasePowLevel - 1 >= SLI
                     /\ LevelSize(Level(f, s)) = Pow2[f + BasePowLevel - 1]
                                                   + Segment(f + BasePowLevel - 1) * (s + 1)
         /\ LevelSize(Level(f, s)) \in Nat \ {0} /\ LevelSize(Level(f, s)) <= Pow2[f + BasePowLevel]
         /\ LevelSize(Level(f, s)) % MinimiumAllocationSize = 0
<1> DEFINE U == MinimiumAllocationSize
           size == LevelSize(Level(f, s))
<1>1. /\ U \in Nat \ {0} /\ SLC \in Nat /\ s \in Nat /\ s + 1 \in 0 .. SLC /\ BasePowLevel \in Nat
      /\ SLI \in Nat /\ FLM = U * SLC /\ FLM \in Nat /\ BasePowLevel >= SLI
      /\ Pow2[BasePowLevel] = FLM
  BY ClassConstants
<1>2. CASE f = 0
  <2>1. size = U * (s + 1)
    <3>1. size = (s + 1) * U
      BY <1>2 DEF LevelSize, Level
    <3> QED BY <1>1, <3>1, Product
  <2>2. U * (s + 1) \in Nat /\ U * (s + 1) <= U * SLC /\ U * 1 <= U * (s + 1) /\ U * 1 = U
    BY <1>1, Product
  <2>3. (U * (s + 1)) % U = 0
    BY <1>1, QuotientOf
  <2>4. f + BasePowLevel = BasePowLevel
    BY <1>1, <1>2
  <2> HIDE DEF U, size
  <2>5. size \in Nat \ {0} /\ size <= FLM
    BY <1>1, <2>1, <2>2
  <2>6. size % U = 0
    BY <2>1, <2>3
  <2> QED BY <1>1, <1>2, <2>1, <2>4, <2>5, <2>6 DEF U, size
<1>3. CASE f > 0
  <2> DEFINE g == f + BasePowLevel - 1
             d == g - BasePowLevel
             b == BasePowLevel - SLI
  <2>1. /\ g \in Nat /\ g >= SLI /\ g + 1 = f + BasePowLevel /\ d \in Nat /\ b \in Nat
        /\ g - SLI = b + d
    BY <1>1, <1>3
  <2>2. size = Pow2[g] + Segment(g) * (s + 1)
    <3>1. size = Pow2[g] + (Pow2[g] \div SLC) * (s + 1)
      BY <1>3 DEF LevelSize, Level
    <3> QED BY <2>1, <3>1, SegmentFacts
  <2>3. Pow2[b] = U
    BY ClassConstants
  <2> HIDE DEF g, d, b, U, size
  <2>4. /\ Pow2[g] = Segment(g) * SLC /\ Segment(g) \in Nat \ {0} /\ Pow2[g] \in Nat \ {0}
        /\ Segment(g) * (s + 1) \in Nat /\ Segment(g) * (s + 1) <= Pow2[g]
        /\ Pow2[g + 1] = 2 * Pow2[g]
    BY <1>1, <2>1, SegmentFacts, Pow2Step
  <2>5. size \in Nat \ {0} /\ size <= Pow2[g + 1]
    BY <2>2, <2>4
  <2>6. size % U = 0
    <3>1. Segment(g) = U * Pow2[d] /\ Pow2[d] \in Nat
      BY <2>1, <2>3, Pow2Divides, Pow2Type DEF Segment
    <3> DEFINE e == SLC + (s + 1)
    <3>2. size = Segment(g) * e /\ e \in Nat
      BY <1>1, <2>2, <2>4, Product
    <3> HIDE DEF e
    <3>3. size = U * (Pow2[d] * e) /\ Pow2[d] * e \in Nat
      BY <1>1, <3>1, <3>2, Product
    <3> QED BY <1>1, <3>3, QuotientOf
  <2> QED BY <1>3, <2>1, <2>2, <2>5, <2>6 DEF U, size, g
<1> QED BY <1>2, <1>3

\* A level is its two numbers.
LEMMA LevelFacts ==
  /\ \A f \in 0 .. FLC - 1, s \in 0 .. SLC - 1 :
       Level(f, s) \in Levels /\ Level(f, s).first = f /\ Level(f, s).second = s
  /\ \A l \in Levels : /\ l.first \in 0 .. FLC - 1 /\ l.second \in 0 .. SLC - 1
                       /\ l = Level(l.first, l.second)
BY DEF Levels, Level

\* A later class has larger blocks.
LEMMA LaterIsLarger ==
  ASSUME NEW f \in Nat, NEW s \in 0 .. SLC - 1, NEW g \in Nat, NEW t \in 0 .. SLC - 1,
         f < g \/ (f = g /\ s < t)
  PROVE  LevelSize(Level(f, s)) <= LevelSize(Level(g, t))
<1>1. SLC \in Nat /\ BasePowLevel \in Nat /\ MinimiumAllocationSize \in Nat \ {0}
  BY ClassConstants
<1>2. CASE f = g /\ s < t
  <2>1. CASE f = 0
    <3>1. /\ LevelSize(Level(f, s)) = MinimiumAllocationSize * (s + 1)
          /\ LevelSize(Level(g, t)) = MinimiumAllocationSize * (t + 1)
      BY <1>2, <2>1, LevelSizeFacts
    <3> QED BY <1>1, <1>2, <3>1, Product
  <2>2. CASE f > 0
    <3> DEFINE e == f + BasePowLevel - 1
    <3>1. /\ e \in Nat /\ LevelSize(Level(f, s)) = Pow2[e] + Segment(e) * (s + 1)
          /\ LevelSize(Level(g, t)) = Pow2[e] + Segment(e) * (t + 1)
          /\ Pow2[e] \in Nat /\ Segment(e) \in Nat
      BY <1>2, <2>2, LevelSizeFacts, SegmentFacts
    <3> HIDE DEF e
    <3>2. /\ Segment(e) * (s + 1) \in Nat /\ Segment(e) * (t + 1) \in Nat
          /\ Segment(e) * (s + 1) <= Segment(e) * (t + 1)
      BY <1>1, <1>2, <3>1, Product
    <3> QED BY <3>1, <3>2
  <2> QED BY <2>1, <2>2
<1>3. CASE f < g
  <2> DEFINE d == f + BasePowLevel
             e == g + BasePowLevel - 1
  <2>1. d \in Nat /\ e \in Nat /\ d <= e /\ e >= SLI /\ g > 0
    <3>1. SLI \in Nat /\ BasePowLevel \in Nat /\ BasePowLevel >= SLI
      BY ClassConstants
    <3> QED BY <1>3, <3>1
  <2>2. LevelSize(Level(f, s)) \in Nat /\ LevelSize(Level(f, s)) <= Pow2[d]
    BY LevelSizeFacts
  <2>3. LevelSize(Level(g, t)) = Pow2[e] + Segment(e) * (t + 1)
    BY <2>1, LevelSizeFacts
  <2> HIDE DEF d, e
  <2>4. /\ Pow2[d] \in Nat /\ Pow2[d] <= Pow2[e] /\ Pow2[e] \in Nat
        /\ Segment(e) * (t + 1) \in Nat
    <3>1. t + 1 \in 0 .. SLC
      BY <1>1
    <3> QED BY <2>1, <3>1, Pow2Monotone, Pow2Type, SegmentFacts
  <2> QED BY <2>2, <2>3, <2>4
<1> QED BY <1>2, <1>3

\* Sizes above FLM.
LEMMA HighSizes ==
  ASSUME NEW n \in Nat, n > FLM, n < ClassesEnd
  PROVE  /\ Fls(n) \in Nat /\ Fls(n) >= BasePowLevel /\ Fls(n) - (BasePowLevel - 1) \in 1 .. FLC - 1
         /\ Pow2[Fls(n)] <= n /\ n < 2 * Pow2[Fls(n)] /\ Fls(n) >= SLI
         /\ Fls(n) = BasePowLevel => Pow2[Fls(n)] = FLM
<1> DEFINE f == Fls(n)
<1>1. f \in Nat /\ Pow2[f] <= n /\ n < 2 * Pow2[f]
  BY ClassConstants, FlsFacts
<1>2. /\ BasePowLevel \in Nat /\ FLC \in Nat \ {0} /\ FLM \in Nat /\ Pow2[BasePowLevel] = FLM
      /\ SLI \in Nat /\ BasePowLevel >= SLI
  BY ClassConstants
<1> HIDE DEF f
<1>3. f >= BasePowLevel
  <2> SUFFICES ASSUME f + 1 <= BasePowLevel PROVE FALSE
    BY <1>1, <1>2
  <2>1. Pow2[f + 1] <= FLM /\ Pow2[f + 1] = 2 * Pow2[f]
    BY <1>1, <1>2, Pow2Monotone, Pow2Step
  <2> QED BY <1>1, <1>2, <2>1, Pow2Type
<1>4. f < FLC + BasePowLevel - 1
  <2> DEFINE e == FLC + BasePowLevel - 1
  <2>1. e \in Nat /\ n < Pow2[e]
    BY <1>2 DEF ClassesEnd
  <2> HIDE DEF e
  <2> SUFFICES ASSUME e <= f PROVE FALSE
    BY <1>1, <2>1 DEF e
  <2>2. Pow2[e] <= Pow2[f]
    BY <1>1, <2>1, Pow2Monotone
  <2> QED BY <1>1, <2>1, <2>2, Pow2Type
<1>5. f - (BasePowLevel - 1) \in 1 .. FLC - 1
  BY <1>1, <1>2, <1>3, <1>4
<1> QED BY <1>1, <1>2, <1>3, <1>5 DEF f

\* A block of the class for n is large enough for n.
LEMMA AllocLevelFacts ==
  ASSUME NEW n \in Nat \ {0}, n < ClassesEnd
  PROVE  AllocLevel(n) \in Levels /\ n <= LevelSize(AllocLevel(n))
<1> DEFINE U == MinimiumAllocationSize
<1>0. /\ U \in Nat \ {0} /\ SLC \in Nat /\ SLC >= 2 /\ FLM \in Nat \ {0} /\ FLM = U * SLC
      /\ FLC \in Nat \ {0} /\ BasePowLevel \in Nat /\ Pow2[BasePowLevel] = FLM
  BY ClassConstants
<1>1. CASE n <= FLM
  <2> DEFINE k == n + U - 1
             q == k \div U
  <2>1. k \in Nat /\ q \in Nat /\ U * q <= k /\ k < U * q + U
    BY <1>0, Quotient
  <2>2. AllocLevel(n) = Level(0, q - 1)
    BY <1>1 DEF AllocLevel
  <2>3. k = n + U - 1 /\ U * q \in Nat
    BY <1>0, <2>1
  <2> HIDE DEF q, k, U
  <2>4. n <= U * q
    BY <1>0, <2>1, <2>3
  <2>5. q # 0
    BY <1>0, <2>4
  <2>6. q <= SLC
    <3> SUFFICES ASSUME SLC + 1 <= q PROVE FALSE
      BY <1>0, <2>1
    <3>1. U * (SLC + 1) <= U * q /\ U * (SLC + 1) = U * SLC + U /\ U * SLC \in Nat
      <4>1. U * (SLC + 1) = U * SLC + U * 1 /\ U * 1 = U /\ U * SLC \in Nat
        BY <1>0, Product
      <4> QED BY <1>0, <2>1, <4>1, Product
    <3> QED BY <1>0, <1>1, <2>1, <2>3, <3>1
  <2>7. q - 1 \in 0 .. SLC - 1 /\ (q - 1) + 1 = q
    BY <1>0, <2>1, <2>5, <2>6
  <2>8. LevelSize(Level(0, q - 1)) = U * q
    BY <2>7, LevelSizeFacts DEF U
  <2>9. Level(0, q - 1) \in Levels
    BY <1>0, <2>7 DEF Levels, Level
  <2> QED BY <2>2, <2>4, <2>8, <2>9
<1>2. CASE n > FLM
  <2> DEFINE f == Fls(n)
             seg == Segment(f)
             k == n + seg - 1 - Pow2[f]
             s == k \div seg
  <2>1. /\ f \in Nat /\ f >= BasePowLevel /\ f - (BasePowLevel - 1) \in 1 .. FLC - 1
        /\ Pow2[f] <= n /\ n < 2 * Pow2[f] /\ f >= SLI /\ (f = BasePowLevel => Pow2[f] = FLM)
    BY <1>2, HighSizes
  <2>2. AllocLevel(n) = IF s > 0 THEN Level(f - (BasePowLevel - 1), s - 1)
                        ELSE Level(f - 1 - (BasePowLevel - 1), SLC - 1)
    <3>1. ~ (n <= FLM)
      BY <1>0, <1>2
    <3> QED BY <3>1 DEF AllocLevel, Segment
  <2> HIDE DEF f, U
  <2>3. seg \in Nat \ {0} /\ Pow2[f] \in Nat \ {0} /\ Pow2[f] = seg * SLC
    BY <2>1, SegmentFacts
  <2>4. k \in Nat
    BY <2>1, <2>3
  <2>5. s \in Nat /\ seg * s <= k /\ k < seg * s + seg
    BY <2>3, <2>4, Quotient
  <2>6. k = n + seg - 1 - Pow2[f] /\ seg * s \in Nat
    BY <2>3, <2>5
  <2>. HIDE DEF s, k
  <2>7. n <= Pow2[f] + seg * s
    BY <2>1, <2>3, <2>5, <2>6
  <2>8. CASE s > 0
    <3>1. s <= SLC
      <4> SUFFICES ASSUME SLC + 1 <= s PROVE FALSE
        BY <1>0, <2>5
      <4>1. seg * (SLC + 1) <= seg * s /\ seg * (SLC + 1) = seg * SLC + seg
        <5>1. seg * (SLC + 1) = seg * SLC + seg * 1 /\ seg * 1 = seg
          BY <1>0, <2>3, Product
        <5> QED BY <1>0, <2>3, <2>5, <5>1, Product
      <4> HIDE DEF seg
      <4> QED BY <2>1, <2>3, <2>5, <2>6, <4>1
    <3>2. s - 1 \in 0 .. SLC - 1 /\ (s - 1) + 1 = s
      BY <1>0, <2>5, <2>8, <3>1
    <3> DEFINE g == f - (BasePowLevel - 1)
    <3>3. g \in Nat /\ g > 0 /\ g + BasePowLevel - 1 = f /\ g \in 0 .. FLC - 1
      BY <1>0, <2>1
    <3>4. AllocLevel(n) = Level(g, s - 1)
      BY <2>2, <2>8
    <3> HIDE DEF g, seg
    <3>5. LevelSize(Level(g, s - 1)) = Pow2[f] + seg * s
      BY <3>2, <3>3, LevelSizeFacts DEF seg
    <3>6. Level(g, s - 1) \in Levels
      BY <3>2, <3>3 DEF Levels, Level
    <3> QED BY <2>7, <3>4, <3>5, <3>6
  <2>9. CASE s = 0
    <3>1. n = Pow2[f]
      <4>1. seg * s = 0
        BY <2>3, <2>9
      <4> HIDE DEF seg
      <4> QED BY <2>1, <2>3, <2>7, <4>1
    <3>2. f > BasePowLevel
      BY <1>0, <1>2, <2>1, <3>1
    <3> DEFINE g == f - 1 - (BasePowLevel - 1)
               h == f - 1
    <3>3. /\ g \in Nat /\ g > 0 /\ g + BasePowLevel - 1 = h /\ g \in 0 .. FLC - 1 /\ h \in Nat
          /\ h + 1 = f /\ h >= SLI
      BY <1>0, <2>1, <3>2, ClassConstants
    <3>4. AllocLevel(n) = Level(g, SLC - 1) /\ SLC - 1 \in 0 .. SLC - 1 /\ (SLC - 1) + 1 = SLC
      BY <1>0, <2>2, <2>9
    <3> HIDE DEF g, h, seg
    <3>5. LevelSize(Level(g, SLC - 1)) = Pow2[h] + Segment(h) * SLC
      BY <3>3, <3>4, LevelSizeFacts
    <3>6. Pow2[f] = 2 * Pow2[h] /\ Segment(h) * SLC = Pow2[h] /\ Pow2[h] \in Nat
      BY <3>3, Pow2Step, SegmentFacts
    <3>7. Level(g, SLC - 1) \in Levels
      BY <3>3, <3>4 DEF Levels, Level
    <3> QED BY <3>1, <3>4, <3>5, <3>6, <3>7
  <2> QED BY <2>5, <2>8, <2>9
<1> QED BY <1>0, <1>1, <1>2

\* Blocks are kept in a class whose size they have.
LEMMA InsertLevelFacts ==
  ASSUME NEW n \in Nat, n >= MinimiumAllocationSize, n % MinimiumAllocationSize = 0,
         n < ClassesEnd
  PROVE  InsertLevel(n) \in Levels /\ LevelSize(InsertLevel(n)) <= n
<1> DEFINE U == MinimiumAllocationSize
<1>0. /\ U \in Nat \ {0} /\ SLC \in Nat /\ SLC >= 2 /\ FLM \in Nat \ {0} /\ FLM = U * SLC
      /\ FLC \in Nat \ {0} /\ BasePowLevel \in Nat /\ Pow2[BasePowLevel] = FLM
      /\ BasePowLevel >= SLI /\ SLI \in Nat
  BY ClassConstants
<1>1. CASE n <= FLM
  <2> DEFINE q == n \div U
  <2>1. q \in Nat /\ n = U * q
    BY <1>0, MultipleOf
  <2>2. InsertLevel(n) = Level(0, q - 1)
    BY <1>1 DEF InsertLevel
  <2> HIDE DEF q, U
  <2>3. q # 0
    BY <1>0, <2>1 DEF U
  <2>4. q <= SLC
    <3> SUFFICES ASSUME SLC + 1 <= q PROVE FALSE
      BY <1>0, <2>1
    <3>1. U * (SLC + 1) = U * SLC + U * 1 /\ U * 1 = U /\ U * SLC \in Nat
      BY <1>0, Product
    <3>2. U * (SLC + 1) <= U * q
      BY <1>0, <2>1, Product
    <3> QED BY <1>0, <1>1, <2>1, <3>1, <3>2
  <2>5. q - 1 \in 0 .. SLC - 1 /\ (q - 1) + 1 = q /\ 0 \in 0 .. FLC - 1
    BY <1>0, <2>1, <2>3, <2>4
  <2>6. LevelSize(Level(0, q - 1)) = n
    BY <2>1, <2>5, LevelSizeFacts DEF U
  <2> QED BY <2>2, <2>5, <2>6, LevelFacts
<1>2. CASE n > FLM
  <2> DEFINE f == Fls(n)
             seg == Segment(f)
             k == n - Pow2[f]
             s == k \div seg
  <2>1. /\ f \in Nat /\ f >= BasePowLevel /\ f - (BasePowLevel - 1) \in 1 .. FLC - 1
        /\ Pow2[f] <= n /\ n < 2 * Pow2[f] /\ f >= SLI
    BY <1>2, HighSizes
  <2>2. seg \in Nat \ {0} /\ Pow2[f] \in Nat \ {0} /\ Pow2[f] = seg * SLC
    BY <2>1, SegmentFacts
  <2>3. k \in Nat /\ s \in Nat /\ seg * s <= k /\ k < seg * s + seg
    <3>1. k \in Nat
      BY <2>1, <2>2
    <3> QED BY <2>2, <3>1, Quotient
  <2>4. s < SLC
    <3> HIDE DEF f, k, seg, s
    <3> SUFFICES ASSUME SLC <= s PROVE FALSE
      BY <1>0, <2>3
    <3>1. seg * SLC <= seg * s /\ seg * s \in Nat
      BY <1>0, <2>2, <2>3, Product
    <3> QED BY <2>1, <2>2, <2>3, <3>1 DEF k
  <2> DEFINE g == f - (BasePowLevel - 1)
  <2>5. InsertLevel(n) = IF s >= 2 THEN Level(g, s - 2)
                         ELSE IF s = 1 THEN Level(g - 1, SLC - 1) ELSE Level(g - 1, SLC - 2)
    <3>1. ~ (n <= FLM)
      BY <1>0, <1>2
    <3>2. InsertLevel(n) =
            LET back == IF s = 0 THEN Level(f - 1, SLC - 1) ELSE Level(f, s - 1)
                again == IF back.second = 0 THEN Level(back.first - 1, SLC - 1)
                         ELSE Level(back.first, back.second - 1)
            IN  Level(again.first - (BasePowLevel - 1), again.second)
      BY <3>1 DEF InsertLevel, Segment
    <3>3. \A x, y : Level(x, y).first = x /\ Level(x, y).second = y
      BY DEF Level
    <3> HIDE DEF f, s
    <3>4. CASE s = 0
      <4>1. InsertLevel(n) = Level(f - 1 - (BasePowLevel - 1), SLC - 1 - 1)
        BY <1>0, <3>2, <3>3, <3>4
      <4>2. f - 1 - (BasePowLevel - 1) = g - 1 /\ SLC - 1 - 1 = SLC - 2
        BY <1>0, <2>1
      <4> QED BY <3>4, <4>1, <4>2
    <3>5. CASE s = 1
      <4>1. InsertLevel(n) = Level(f - 1 - (BasePowLevel - 1), SLC - 1)
        BY <1>0, <3>2, <3>3, <3>5
      <4>2. f - 1 - (BasePowLevel - 1) = g - 1
        BY <1>0, <2>1
      <4> QED BY <3>5, <4>1, <4>2
    <3>6. CASE s >= 2
      <4>1. s # 0 /\ s # 1 /\ s - 1 # 0 /\ s - 1 - 1 = s - 2
        BY <2>3, <3>6
      <4> DEFINE b == Level(f, s - 1)
      <4>2. InsertLevel(n) =
              LET again == IF b.second = 0 THEN Level(b.first - 1, SLC - 1)
                           ELSE Level(b.first, b.second - 1)
              IN  Level(again.first - (BasePowLevel - 1), again.second)
        BY <3>2, <4>1
      <4>3. b.first = f /\ b.second = s - 1
        BY <3>3
      <4> HIDE DEF b
      <4>4. InsertLevel(n) = LET again == Level(f, s - 1 - 1)
                             IN  Level(again.first - (BasePowLevel - 1), again.second)
        BY <4>1, <4>2, <4>3
      <4>5. InsertLevel(n) = Level(f - (BasePowLevel - 1), s - 1 - 1)
        BY <3>3, <4>4
      <4> QED BY <3>6, <4>1, <4>5
    <3>7. s = 0 \/ s = 1 \/ s >= 2
      BY <2>3
    <3> HIDE DEF g
    <3> QED BY <3>4, <3>5, <3>6, <3>7
  <2> HIDE DEF f, s, U
  <2>6. CASE s >= 2
    <3>1. /\ g \in Nat /\ g > 0 /\ g + BasePowLevel - 1 = f /\ g \in 0 .. FLC - 1
          /\ s - 2 \in 0 .. SLC - 1 /\ (s - 2) + 1 = s - 1 /\ s - 1 \in Nat
      BY <1>0, <2>1, <2>3, <2>4, <2>6
    <3> HIDE DEF g, seg
    <3>2. LevelSize(Level(g, s - 2)) = Pow2[f] + seg * (s - 1)
      BY <3>1, LevelSizeFacts DEF seg
    <3>3. seg * (s - 1) <= seg * s /\ seg * s \in Nat /\ seg * (s - 1) \in Nat
      BY <2>2, <2>3, <3>1, Product
    <3>4. LevelSize(Level(g, s - 2)) <= n
      BY <2>1, <2>2, <2>3, <3>2, <3>3
    <3> QED BY <2>5, <2>6, <3>1, <3>4, LevelFacts
  <2>7. CASE s < 2
    <3> DEFINE t == IF s = 1 THEN SLC - 1 ELSE SLC - 2
               d == g - 1
    <3>1. InsertLevel(n) = Level(d, t) /\ d \in 0 .. FLC - 1 /\ t \in 0 .. SLC - 1
      BY <1>0, <2>1, <2>3, <2>5, <2>7
    <3>2. d \in Nat /\ d + BasePowLevel = f
      BY <1>0, <2>1
    <3> HIDE DEF d, t
    <3>3. LevelSize(Level(d, t)) \in Nat /\ LevelSize(Level(d, t)) <= Pow2[f]
      BY <3>1, <3>2, LevelSizeFacts
    <3>4. LevelSize(Level(d, t)) <= n
      BY <2>1, <2>2, <3>3
    <3> QED BY <3>1, <3>4, LevelFacts
  <2> QED BY <2>3, <2>6, <2>7
<1> QED BY <1>0, <1>1, <1>2

\* The type of a heap.
Heaps == [block : [Addr -> Header], head : [Levels -> Aligned \cup {nullptr}],
          firstBitmap : SUBSET (0 .. FLC - 1),
          secondBitmap : [0 .. FLC - 1 -> SUBSET (0 .. SLC - 1)]]
\* A heap with another header.
LEMMA WriteBlock ==
  ASSUME NEW h \in Heaps, NEW a \in Addr, NEW r \in Header
  PROVE  /\ [h EXCEPT !.block[a] = r] \in Heaps
         /\ \A x \in Addr : [h EXCEPT !.block[a] = r].block[x] = IF x = a THEN r ELSE h.block[x]
         /\ [h EXCEPT !.block[a] = r].head = h.head
         /\ [h EXCEPT !.block[a] = r].firstBitmap = h.firstBitmap
         /\ [h EXCEPT !.block[a] = r].secondBitmap = h.secondBitmap
<1> DEFINE B == [h.block EXCEPT ![a] = r]
<1>1. B \in [Addr -> Header] /\ \A x \in Addr : B[x] = IF x = a THEN r ELSE h.block[x]
  BY DEF Heaps
<1> HIDE DEF B
<1>2. [h EXCEPT !.block = B] \in Heaps
  BY <1>1 DEF Heaps
<1>3. /\ [h EXCEPT !.block = B].block = B /\ [h EXCEPT !.block = B].head = h.head
      /\ [h EXCEPT !.block = B].firstBitmap = h.firstBitmap
      /\ [h EXCEPT !.block = B].secondBitmap = h.secondBitmap
  BY DEF Heaps
<1> QED BY <1>1, <1>2, <1>3 DEF B

\* A heap with another head of a list.
LEMMA WriteHead ==
  ASSUME NEW h \in Heaps, NEW l \in Levels, NEW v \in Aligned \cup {nullptr}
  PROVE  /\ [h EXCEPT !.head[l] = v] \in Heaps
         /\ \A m \in Levels : [h EXCEPT !.head[l] = v].head[m] = IF m = l THEN v ELSE h.head[m]
         /\ [h EXCEPT !.head[l] = v].block = h.block
         /\ [h EXCEPT !.head[l] = v].firstBitmap = h.firstBitmap
         /\ [h EXCEPT !.head[l] = v].secondBitmap = h.secondBitmap
<1> DEFINE B == [h.head EXCEPT ![l] = v]
<1>1. /\ B \in [Levels -> Aligned \cup {nullptr}]
      /\ \A x \in Levels : B[x] = IF x = l THEN v ELSE h.head[x]
  BY DEF Heaps
<1> HIDE DEF B
<1>2. [h EXCEPT !.head = B] \in Heaps
  BY <1>1 DEF Heaps
<1>3. /\ [h EXCEPT !.head = B].head = B /\ [h EXCEPT !.head = B].block = h.block
      /\ [h EXCEPT !.head = B].firstBitmap = h.firstBitmap
      /\ [h EXCEPT !.head = B].secondBitmap = h.secondBitmap
  BY DEF Heaps
<1> QED BY <1>1, <1>2, <1>3 DEF B

\* The addresses with a header.
Heads(h) == {a \in Addr : h.block[a].size # 0}
FreeHeads(h) == {a \in Heads(h) : h.block[a].free}

\* g differs from h in its lists only.
SameRow(g, h) ==
  \A a \in Addr : /\ g.block[a].free = h.block[a].free /\ g.block[a].size = h.block[a].size
                  /\ g.block[a].prevPhy = h.block[a].prevPhy

\* g differs from h in the links of the blocks F only.
SameLinks(g, h, F) ==
  \A a \in Addr \ F : /\ g.block[a].prevFree = h.block[a].prevFree
                       /\ g.block[a].nextFree = h.block[a].nextFree

\* The bitmaps say which lists are not empty.
BitsAgree(h) ==
  /\ \A l \in Levels : l.second \in h.secondBitmap[l.first] <=> h.head[l] # nullptr
  /\ h.firstBitmap = {f \in 0 .. FLC - 1 : h.secondBitmap[f] # {}}

\* The lists hold the blocks F.
Linkage(h, F) ==
  /\ \A a \in F :
       /\ InsertLevel(h.block[a].size) \in Levels
       /\ IF h.block[a].prevFree = nullptr THEN h.head[InsertLevel(h.block[a].size)] = a
          ELSE h.block[a].prevFree \in F /\ h.block[h.block[a].prevFree].nextFree = a
       /\ h.block[a].nextFree # nullptr =>
            /\ h.block[a].nextFree \in F
            /\ h.block[h.block[a].nextFree].prevFree = a
            /\ InsertLevel(h.block[h.block[a].nextFree].size) = InsertLevel(h.block[a].size)
  /\ \A l \in Levels : h.head[l] # nullptr =>
       /\ h.head[l] \in F /\ h.block[h.head[l]].prevFree = nullptr
       /\ InsertLevel(h.block[h.head[l]].size) = l

\* F is what the lists hold, and the bitmaps agree.
Listed(h, F) == F \subseteq Heads(h) /\ Linkage(h, F) /\ BitsAgree(h)

\* What RemoveFree does.
LEMMA RemoveView ==
  ASSUME NEW h \in Heaps, NEW a \in Addr, NEW l \in Levels,
         NEW prev \in Addr \cup {nullptr}, prev = h.block[a].prevFree,
         NEW next \in Addr \cup {nullptr}, next = h.block[a].nextFree
  PROVE  \E g \in Heaps :
           /\ RemoveFree(h, a, l) = IF g.head[l] = nullptr THEN ClearBits(g, l) ELSE g
           /\ SameRow(g, h)
           /\ \A x \in Addr :
                /\ g.block[x].nextFree = IF x = prev THEN next ELSE h.block[x].nextFree
                /\ g.block[x].prevFree = IF x = next THEN prev ELSE h.block[x].prevFree
           /\ \A m \in Levels : g.head[m] = IF prev = nullptr /\ m = l THEN next ELSE h.head[m]
           /\ g.firstBitmap = h.firstBitmap /\ g.secondBitmap = h.secondBitmap
<1>0. /\ h.block \in [Addr -> Header] /\ h.head \in [Levels -> Aligned \cup {nullptr}]
      /\ nullptr \notin Addr /\ prev \in Aligned \cup {nullptr} /\ next \in Aligned \cup {nullptr}
  BY SizesAssumption, PoolsAssumption DEF Heaps, Header, Addr
<1> DEFINE h1 == IF prev # nullptr THEN [h EXCEPT !.block[prev].nextFree = next]
                 ELSE [h EXCEPT !.head[l] = next]
<1>1. /\ h1 \in Heaps /\ SameRow(h1, h)
      /\ \A x \in Addr :
           /\ h1.block[x].nextFree = IF x = prev THEN next ELSE h.block[x].nextFree
           /\ h1.block[x].prevFree = h.block[x].prevFree
      /\ \A m \in Levels : h1.head[m] = IF prev = nullptr /\ m = l THEN next ELSE h.head[m]
      /\ h1.firstBitmap = h.firstBitmap /\ h1.secondBitmap = h.secondBitmap
  <2>1. CASE prev # nullptr
    <3> DEFINE b == h.block[prev]
               r == [b EXCEPT !.nextFree = next]
    <3>1. prev \in Addr /\ h1 = [h EXCEPT !.block[prev] = r]
      BY <2>1
    <3>2. b \in Header
      BY <1>0, <3>1
    <3> HIDE DEF b
    <3>3. /\ r \in Header /\ r.nextFree = next /\ r.prevFree = b.prevFree
          /\ r.free = b.free /\ r.size = b.size /\ r.prevPhy = b.prevPhy
      BY <1>0, <3>2 DEF Header
    <3> HIDE DEF r, h1
    <3>4. /\ h1 \in Heaps
          /\ \A x \in Addr : h1.block[x] = IF x = prev THEN r ELSE h.block[x]
          /\ h1.head = h.head /\ h1.firstBitmap = h.firstBitmap
          /\ h1.secondBitmap = h.secondBitmap
      BY <3>1, <3>3, WriteBlock
    <3> QED BY <1>0, <2>1, <3>3, <3>4 DEF SameRow, b
  <2>2. CASE prev = nullptr
    <3>1. h1 = [h EXCEPT !.head[l] = next]
      BY <2>2
    <3> QED BY <1>0, <2>2, <3>1, WriteHead DEF SameRow
  <2> QED BY <2>1, <2>2
<1> HIDE DEF h1
<1> DEFINE h2 == IF next # nullptr THEN [h1 EXCEPT !.block[next].prevFree = prev] ELSE h1
<1>2. /\ h2 \in Heaps /\ SameRow(h2, h1)
      /\ \A x \in Addr :
           /\ h2.block[x].prevFree = IF x = next THEN prev ELSE h1.block[x].prevFree
           /\ h2.block[x].nextFree = h1.block[x].nextFree
      /\ h2.head = h1.head
      /\ h2.firstBitmap = h1.firstBitmap /\ h2.secondBitmap = h1.secondBitmap
  <2>1. CASE next # nullptr
    <3> DEFINE b == h1.block[next]
               r == [b EXCEPT !.prevFree = prev]
    <3>1. next \in Addr /\ h2 = [h1 EXCEPT !.block[next] = r]
      BY <2>1
    <3>2. b \in Header
      BY <1>1, <3>1 DEF Heaps
    <3> HIDE DEF b
    <3>3. /\ r \in Header /\ r.prevFree = prev /\ r.nextFree = b.nextFree
          /\ r.free = b.free /\ r.size = b.size /\ r.prevPhy = b.prevPhy
      BY <1>0, <3>2 DEF Header
    <3> HIDE DEF r, h2
    <3>4. /\ h2 \in Heaps
          /\ \A x \in Addr : h2.block[x] = IF x = next THEN r ELSE h1.block[x]
          /\ h2.head = h1.head /\ h2.firstBitmap = h1.firstBitmap
          /\ h2.secondBitmap = h1.secondBitmap
      BY <1>1, <3>1, <3>3, WriteBlock
    <3> QED BY <1>0, <2>1, <3>3, <3>4 DEF SameRow, b
  <2>2. CASE next = nullptr
    BY <1>0, <1>1, <2>2 DEF SameRow
  <2> QED BY <2>1, <2>2
<1>3. RemoveFree(h, a, l) = IF h2.head[l] = nullptr THEN ClearBits(h2, l) ELSE h2
  BY DEF RemoveFree, h1
<1> HIDE DEF h2
<1> QED BY <1>1, <1>2, <1>3 DEF SameRow

\* The bitmaps after a list became empty.
LEMMA ClearBitsView ==
  ASSUME NEW h \in Heaps, NEW l \in Levels
  PROVE  /\ ClearBits(h, l) \in Heaps
         /\ ClearBits(h, l).block = h.block /\ ClearBits(h, l).head = h.head
         /\ \A f \in 0 .. FLC - 1 : ClearBits(h, l).secondBitmap[f] =
              IF f = l.first THEN h.secondBitmap[f] \ {l.second} ELSE h.secondBitmap[f]
         /\ ClearBits(h, l).firstBitmap = IF h.secondBitmap[l.first] \subseteq {l.second}
                                          THEN h.firstBitmap \ {l.first} ELSE h.firstBitmap
<1> DEFINE S == [h.secondBitmap EXCEPT ![l.first] = @ \ {l.second}]
           T == IF h.secondBitmap[l.first] \subseteq {l.second}
                THEN h.firstBitmap \ {l.first} ELSE h.firstBitmap
<1>1. l.first \in 0 .. FLC - 1 /\ l.second \in 0 .. SLC - 1
  BY LevelFacts
<1>2. /\ S \in [0 .. FLC - 1 -> SUBSET (0 .. SLC - 1)]
      /\ \A f \in 0 .. FLC - 1 :
           S[f] = IF f = l.first THEN h.secondBitmap[f] \ {l.second} ELSE h.secondBitmap[f]
  BY <1>1 DEF Heaps
<1>3. T \in SUBSET (0 .. FLC - 1)
  BY DEF Heaps
<1>4. ClearBits(h, l) = [h EXCEPT !.secondBitmap = S, !.firstBitmap = T]
  BY DEF ClearBits, Heaps
<1> DEFINE g == [h EXCEPT !.secondBitmap = S, !.firstBitmap = T]
<1> HIDE DEF S, T
<1>5. /\ g \in Heaps /\ g.block = h.block /\ g.head = h.head
      /\ g.secondBitmap = S /\ g.firstBitmap = T
  BY <1>2, <1>3 DEF Heaps
<1> QED BY <1>2, <1>4, <1>5 DEF T

\* What SetBits does.
LEMMA SetBitsView ==
  ASSUME NEW h \in Heaps, NEW l \in Levels
  PROVE  /\ SetBits(h, l) \in Heaps
         /\ SetBits(h, l).block = h.block /\ SetBits(h, l).head = h.head
         /\ \A f \in 0 .. FLC - 1 : SetBits(h, l).secondBitmap[f] =
              IF f = l.first THEN h.secondBitmap[f] \cup {l.second} ELSE h.secondBitmap[f]
         /\ SetBits(h, l).firstBitmap = h.firstBitmap \cup {l.first}
<1> DEFINE S == [h.secondBitmap EXCEPT ![l.first] = @ \cup {l.second}]
           T == h.firstBitmap \cup {l.first}
<1>1. l.first \in 0 .. FLC - 1 /\ l.second \in 0 .. SLC - 1
  BY LevelFacts
<1>2. /\ S \in [0 .. FLC - 1 -> SUBSET (0 .. SLC - 1)]
      /\ \A f \in 0 .. FLC - 1 :
           S[f] = IF f = l.first THEN h.secondBitmap[f] \cup {l.second} ELSE h.secondBitmap[f]
  BY <1>1 DEF Heaps
<1>3. T \in SUBSET (0 .. FLC - 1)
  BY <1>1 DEF Heaps
<1>4. SetBits(h, l) = [h EXCEPT !.secondBitmap = S, !.firstBitmap = T]
  BY DEF SetBits, Heaps
<1> DEFINE g == [h EXCEPT !.secondBitmap = S, !.firstBitmap = T]
<1> HIDE DEF S, T
<1>5. /\ g \in Heaps /\ g.block = h.block /\ g.head = h.head
      /\ g.secondBitmap = S /\ g.firstBitmap = T
  BY <1>2, <1>3 DEF Heaps
<1> QED BY <1>2, <1>4, <1>5 DEF T

\* Two different levels differ in one of their numbers.
LEMMA LevelsDiffer ==
  ASSUME NEW l \in Levels, NEW m \in Levels, l.first = m.first, l.second = m.second
  PROVE  l = m
BY LevelFacts

\* The bitmaps agree again when the bits of an empty list are cleared.
LEMMA ClearBitsAgree ==
  ASSUME NEW h \in Heaps, NEW l \in Levels, h.head[l] = nullptr,
         \A m \in Levels \ {l} : m.second \in h.secondBitmap[m.first] <=> h.head[m] # nullptr,
         h.firstBitmap = {f \in 0 .. FLC - 1 : h.secondBitmap[f] # {}}
  PROVE  BitsAgree(ClearBits(h, l))
<1> DEFINE g == ClearBits(h, l)
<1>1. /\ g \in Heaps /\ g.head = h.head
      /\ \A f \in 0 .. FLC - 1 :
           g.secondBitmap[f] = IF f = l.first THEN h.secondBitmap[f] \ {l.second} ELSE h.secondBitmap[f]
      /\ g.firstBitmap = IF h.secondBitmap[l.first] \subseteq {l.second}
                         THEN h.firstBitmap \ {l.first} ELSE h.firstBitmap
  BY ClearBitsView
<1>2. l.first \in 0 .. FLC - 1 /\ \A m \in Levels : m.first \in 0 .. FLC - 1
  BY LevelFacts
<1> HIDE DEF g
<1>3. ASSUME NEW m \in Levels PROVE m.second \in g.secondBitmap[m.first] <=> g.head[m] # nullptr
  <2>1. CASE m = l
    BY <1>1, <1>2, <2>1
  <2>2. CASE m # l
    <3>1. ~ (m.first = l.first /\ m.second = l.second)
      BY <2>2, LevelsDiffer
    <3>2. m.second \in g.secondBitmap[m.first] <=> m.second \in h.secondBitmap[m.first]
      <4>1. CASE m.first = l.first
        BY <1>1, <1>2, <3>1, <4>1
      <4>2. CASE m.first # l.first
        BY <1>1, <1>2, <4>2
      <4> QED BY <4>1, <4>2
    <3> QED BY <1>1, <2>2, <3>2
  <2> QED BY <2>1, <2>2
<1>4. g.firstBitmap = {f \in 0 .. FLC - 1 : g.secondBitmap[f] # {}}
  <2>1. ASSUME NEW f \in 0 .. FLC - 1
        PROVE  f \in g.firstBitmap <=> g.secondBitmap[f] # {}
    <3>1. f \in h.firstBitmap <=> h.secondBitmap[f] # {}
      OBVIOUS
    <3>2. CASE f = l.first
      <4>1. g.secondBitmap[f] = h.secondBitmap[f] \ {l.second}
        BY <1>1, <3>2
      <4>2. f \in g.firstBitmap <=> f \in h.firstBitmap /\ ~(h.secondBitmap[f] \subseteq {l.second})
        BY <1>1, <3>2
      <4> QED BY <3>1, <4>1, <4>2
    <3>3. CASE f # l.first
      <4>1. g.secondBitmap[f] = h.secondBitmap[f]
        BY <1>1, <3>3
      <4>2. f \in g.firstBitmap <=> f \in h.firstBitmap
        BY <1>1, <3>3
      <4> QED BY <3>1, <4>1, <4>2
    <3> QED BY <3>2, <3>3
  <2>2. g.firstBitmap \subseteq 0 .. FLC - 1
    BY <1>1
  <2> QED BY <2>1, <2>2
<1> QED BY <1>3, <1>4 DEF BitsAgree, g

\* The bitmaps agree again when the bits of a list with a block are set.
LEMMA SetBitsAgree ==
  ASSUME NEW h \in Heaps, NEW l \in Levels, h.head[l] # nullptr,
         \A m \in Levels \ {l} : m.second \in h.secondBitmap[m.first] <=> h.head[m] # nullptr,
         h.firstBitmap = {f \in 0 .. FLC - 1 : h.secondBitmap[f] # {}}
  PROVE  BitsAgree(SetBits(h, l))
<1> DEFINE g == SetBits(h, l)
<1>1. /\ g \in Heaps /\ g.head = h.head
      /\ \A f \in 0 .. FLC - 1 :
           g.secondBitmap[f] = IF f = l.first THEN h.secondBitmap[f] \cup {l.second} ELSE h.secondBitmap[f]
      /\ g.firstBitmap = h.firstBitmap \cup {l.first}
  BY SetBitsView
<1>2. l.first \in 0 .. FLC - 1 /\ \A m \in Levels : m.first \in 0 .. FLC - 1
  BY LevelFacts
<1> HIDE DEF g
<1>3. ASSUME NEW m \in Levels PROVE m.second \in g.secondBitmap[m.first] <=> g.head[m] # nullptr
  <2>1. CASE m = l
    BY <1>1, <1>2, <2>1
  <2>2. CASE m # l
    <3>1. ~ (m.first = l.first /\ m.second = l.second)
      BY <2>2, LevelsDiffer
    <3>2. m.second \in g.secondBitmap[m.first] <=> m.second \in h.secondBitmap[m.first]
      <4>1. CASE m.first = l.first
        <5>1. m.second # l.second
          BY <3>1, <4>1
        <5>2. g.secondBitmap[m.first] = h.secondBitmap[m.first] \cup {l.second}
          BY <1>1, <1>2, <4>1
        <5> QED BY <5>1, <5>2
      <4>2. CASE m.first # l.first
        BY <1>1, <1>2, <4>2
      <4> QED BY <4>1, <4>2
    <3> QED BY <1>1, <2>2, <3>2
  <2> QED BY <2>1, <2>2
<1>4. g.firstBitmap = {f \in 0 .. FLC - 1 : g.secondBitmap[f] # {}}
  BY <1>1, <1>2
<1> QED BY <1>3, <1>4 DEF BitsAgree, g

\* What Listed says of one block and of one list.
LEMMA ListedFacts ==
  ASSUME NEW h \in Heaps, NEW F, Listed(h, F)
  PROVE  /\ nullptr \notin Addr /\ F \subseteq Addr
         /\ \A a \in F :
              /\ InsertLevel(h.block[a].size) \in Levels
              /\ h.block[a].prevFree = nullptr => h.head[InsertLevel(h.block[a].size)] = a
              /\ h.block[a].prevFree # nullptr =>
                   /\ h.block[a].prevFree \in F /\ h.block[h.block[a].prevFree].nextFree = a
                   /\ InsertLevel(h.block[h.block[a].prevFree].size) = InsertLevel(h.block[a].size)
              /\ h.block[a].nextFree # nullptr =>
                   /\ h.block[a].nextFree \in F
                   /\ h.block[h.block[a].nextFree].prevFree = a
                   /\ InsertLevel(h.block[h.block[a].nextFree].size) = InsertLevel(h.block[a].size)
         /\ \A l \in Levels :
              /\ h.head[l] # nullptr => /\ h.head[l] \in F /\ h.block[h.head[l]].prevFree = nullptr
                                        /\ InsertLevel(h.block[h.head[l]].size) = l
              /\ l.second \in h.secondBitmap[l.first] <=> h.head[l] # nullptr
         /\ h.firstBitmap = {f \in 0 .. FLC - 1 : h.secondBitmap[f] # {}}
<1>1. nullptr \notin Addr /\ F \subseteq Addr
  BY SizesAssumption, PoolsAssumption DEF Addr, Listed, Heads
<1> QED BY <1>1 DEF Listed, Linkage, BitsAgree

\* A block leaves its list.
LEMMA RemoveListed ==
  ASSUME NEW h \in Heaps, NEW F, Listed(h, F), NEW a \in F,
         NEW l, l = InsertLevel(h.block[a].size)
  PROVE  /\ RemoveFree(h, a, l) \in Heaps /\ SameRow(RemoveFree(h, a, l), h)
         /\ Listed(RemoveFree(h, a, l), F \ {a}) /\ SameLinks(RemoveFree(h, a, l), h, F)
<1> DEFINE next == h.block[a].nextFree
           prev == h.block[a].prevFree
<1>1. a \in Addr /\ l \in Levels /\ next \in F \cup {nullptr} /\ prev \in F \cup {nullptr}
  BY ListedFacts
<1>2. next \in Addr \cup {nullptr} /\ prev \in Addr \cup {nullptr}
  BY <1>1, ListedFacts
<1>10. /\ next # nullptr => h.block[next].prevFree = a /\ InsertLevel(h.block[next].size) = l
       /\ prev # nullptr => h.block[prev].nextFree = a /\ InsertLevel(h.block[prev].size) = l
  BY ListedFacts
<1> HIDE DEF next, prev
<1>3. PICK g \in Heaps :
           /\ RemoveFree(h, a, l) = IF g.head[l] = nullptr THEN ClearBits(g, l) ELSE g
           /\ SameRow(g, h)
           /\ \A x \in Addr :
                /\ g.block[x].nextFree = IF x = prev THEN next ELSE h.block[x].nextFree
                /\ g.block[x].prevFree = IF x = next THEN prev ELSE h.block[x].prevFree
           /\ \A m \in Levels : g.head[m] = IF prev = nullptr /\ m = l THEN next ELSE h.head[m]
           /\ g.firstBitmap = h.firstBitmap /\ g.secondBitmap = h.secondBitmap
  BY <1>1, <1>2, RemoveView DEF next, prev
<1> DEFINE G == F \ {a}
<1>4. G \subseteq Heads(g)
  BY <1>3 DEF Listed, Heads, SameRow
<1>5. Linkage(g, G)
  <2>1. ASSUME NEW b \in G
        PROVE  /\ InsertLevel(g.block[b].size) \in Levels
               /\ g.block[b].prevFree = nullptr => g.head[InsertLevel(g.block[b].size)] = b
               /\ g.block[b].prevFree # nullptr =>
                    g.block[b].prevFree \in G /\ g.block[g.block[b].prevFree].nextFree = b
               /\ g.block[b].nextFree # nullptr =>
                    /\ g.block[b].nextFree \in G
                    /\ g.block[g.block[b].nextFree].prevFree = b
                    /\ InsertLevel(g.block[g.block[b].nextFree].size) = InsertLevel(g.block[b].size)
    <3>1. b \in F /\ b \in Addr /\ b # a /\ nullptr \notin Addr /\ F \subseteq Addr
      BY ListedFacts
    <3>2. \A x \in F : g.block[x].size = h.block[x].size
      BY <1>3, <3>1 DEF SameRow
    <3>3. /\ InsertLevel(g.block[b].size) \in Levels
          /\ g.block[b].prevFree = nullptr => g.head[InsertLevel(g.block[b].size)] = b
      BY <1>1, <1>3, <3>1, <3>2, ListedFacts DEF prev, next
    <3>4. ASSUME g.block[b].prevFree # nullptr
          PROVE  g.block[b].prevFree \in G /\ g.block[g.block[b].prevFree].nextFree = b
      <4>1. CASE b = next
        <5>1. g.block[b].prevFree = prev /\ prev \in F
          BY <1>1, <1>3, <3>1, <3>4, <4>1
        <5>2. prev # a
          BY <1>10, <3>1, <4>1, <5>1 DEF next
        <5> QED BY <1>3, <3>1, <4>1, <5>1, <5>2
      <4>2. CASE b # next
        <5> DEFINE p == h.block[b].prevFree
        <5>1. g.block[b].prevFree = p /\ p \in F /\ h.block[p].nextFree = b
          BY <1>3, <3>1, <3>4, <4>2, ListedFacts
        <5>2. p # a /\ p # prev
          <6>1. p # a
            BY <4>2, <5>1 DEF next
          <6>2. prev # nullptr => h.block[prev].nextFree = a
            BY <3>1, ListedFacts DEF prev
          <6> QED BY <3>1, <5>1, <6>1, <6>2
        <5> QED BY <1>3, <3>1, <5>1, <5>2
      <4> QED BY <4>1, <4>2
    <3>5. ASSUME g.block[b].nextFree # nullptr
          PROVE  /\ g.block[b].nextFree \in G
                 /\ g.block[g.block[b].nextFree].prevFree = b
                 /\ InsertLevel(g.block[g.block[b].nextFree].size) = InsertLevel(g.block[b].size)
      <4>1. CASE b = prev
        <5>1. g.block[b].nextFree = next /\ next \in F
          BY <1>1, <1>3, <3>1, <3>5, <4>1
        <5>2. next # a
          BY <1>10, <3>1, <4>1, <5>1 DEF prev
        <5>3. InsertLevel(h.block[next].size) = l /\ InsertLevel(h.block[b].size) = l
          BY <1>10, <3>1, <4>1, <5>1
        <5> QED BY <1>3, <3>1, <3>2, <4>1, <5>1, <5>2, <5>3
      <4>2. CASE b # prev
        <5> DEFINE n == h.block[b].nextFree
        <5>1. /\ g.block[b].nextFree = n /\ n \in F /\ h.block[n].prevFree = b
              /\ InsertLevel(h.block[n].size) = InsertLevel(h.block[b].size)
          BY <1>3, <3>1, <3>5, <4>2, ListedFacts
        <5>2. n # a /\ n # next
          <6>1. n # a
            BY <4>2, <5>1 DEF prev
          <6>2. next # nullptr => h.block[next].prevFree = a
            BY <3>1, ListedFacts DEF next
          <6> QED BY <3>1, <5>1, <6>1, <6>2
        <5> QED BY <1>3, <3>1, <3>2, <5>1, <5>2
      <4> QED BY <4>1, <4>2
    <3> QED BY <3>3, <3>4, <3>5
  <2>2. ASSUME NEW m \in Levels, g.head[m] # nullptr
        PROVE  /\ g.head[m] \in G /\ g.block[g.head[m]].prevFree = nullptr
               /\ InsertLevel(g.block[g.head[m]].size) = m
    <3>1. F \subseteq Addr /\ nullptr \notin Addr /\ \A x \in F : g.block[x].size = h.block[x].size
      BY <1>3, ListedFacts DEF SameRow
    <3>2. CASE prev = nullptr /\ m = l
      <4>1. g.head[m] = next /\ next \in F
        BY <1>1, <1>3, <2>2, <3>2
      <4>2. next # a
        BY <3>1, <3>2, <4>1, ListedFacts DEF prev, next
      <4>3. InsertLevel(h.block[next].size) = l
        BY <3>1, <4>1, ListedFacts DEF next
      <4> QED BY <1>3, <3>1, <3>2, <4>1, <4>2, <4>3
    <3>3. CASE ~ (prev = nullptr /\ m = l)
      <4> DEFINE c == h.head[m]
      <4>1. /\ g.head[m] = c /\ c \in F /\ h.block[c].prevFree = nullptr
            /\ InsertLevel(h.block[c].size) = m
        BY <1>3, <2>2, <3>3, ListedFacts
      <4>2. c # a
        BY <3>3, <4>1 DEF prev
      <4>3. c # next
        <5>1. next # nullptr => h.block[next].prevFree = a
          BY ListedFacts DEF next
        <5> QED BY <3>1, <4>1, <5>1
      <4> QED BY <1>3, <3>1, <4>1, <4>2, <4>3
    <3> QED BY <3>2, <3>3
  <2> QED BY <2>1, <2>2 DEF Linkage
<1>6. \A m \in Levels \ {l} : m.second \in g.secondBitmap[m.first] <=> g.head[m] # nullptr
  BY <1>3, ListedFacts
<1>7. g.firstBitmap = {f \in 0 .. FLC - 1 : g.secondBitmap[f] # {}}
  BY <1>3, ListedFacts
<1>0. SameLinks(g, h, F)
  BY <1>1, <1>3, ListedFacts DEF SameLinks
<1>8. CASE g.head[l] = nullptr
  <2> DEFINE c == ClearBits(g, l)
  <2>1. c \in Heaps /\ c.block = g.block /\ c.head = g.head /\ BitsAgree(c)
    BY <1>1, <1>6, <1>7, <1>8, ClearBitsView, ClearBitsAgree
  <2> HIDE DEF c
  <2>2. Linkage(c, G) /\ G \subseteq Heads(c) /\ SameRow(c, h) /\ SameLinks(c, h, F)
    <3>1. Linkage(c, G)
      BY <1>5, <2>1 DEF Linkage
    <3>2. G \subseteq Heads(c)
      BY <1>4, <2>1 DEF Heads
    <3>3. SameRow(c, h)
      BY <1>3, <2>1 DEF SameRow
    <3>4. SameLinks(c, h, F)
      BY <1>0, <2>1 DEF SameLinks
    <3> QED BY <3>1, <3>2, <3>3, <3>4
  <2> QED BY <1>3, <1>8, <2>1, <2>2 DEF Listed, c
<1>9. CASE g.head[l] # nullptr
  <2>1. h.head[l] # nullptr
    BY <1>1, <1>3, <1>9, ListedFacts DEF prev, next
  <2>2. l.second \in g.secondBitmap[l.first]
    BY <1>1, <1>3, <2>1, ListedFacts
  <2>3. BitsAgree(g)
    BY <1>6, <1>7, <1>9, <2>2 DEF BitsAgree
  <2> QED BY <1>0, <1>3, <1>4, <1>5, <1>9, <2>3 DEF Listed
<1> QED BY <1>8, <1>9

\* The lists do not depend on the blocks outside.
LEMMA ListedFrame ==
  ASSUME NEW h \in Heaps, NEW g \in Heaps, NEW F, Listed(h, F),
         \A x \in F : /\ g.block[x].size = h.block[x].size
                      /\ g.block[x].prevFree = h.block[x].prevFree
                      /\ g.block[x].nextFree = h.block[x].nextFree,
         g.head = h.head, g.firstBitmap = h.firstBitmap, g.secondBitmap = h.secondBitmap
  PROVE  Listed(g, F)
<1>1. F \subseteq Heads(g)
  BY DEF Listed, Heads
<1>2. BitsAgree(g)
  BY DEF Listed, BitsAgree
<1>3. Linkage(g, F)
  <2>1. ASSUME NEW a \in F
        PROVE  /\ InsertLevel(g.block[a].size) \in Levels
               /\ IF g.block[a].prevFree = nullptr THEN g.head[InsertLevel(g.block[a].size)] = a
                  ELSE g.block[a].prevFree \in F /\ g.block[g.block[a].prevFree].nextFree = a
               /\ g.block[a].nextFree # nullptr =>
                    /\ g.block[a].nextFree \in F
                    /\ g.block[g.block[a].nextFree].prevFree = a
                    /\ InsertLevel(g.block[g.block[a].nextFree].size) = InsertLevel(g.block[a].size)
    <3> DEFINE v == h.block[a].prevFree
               n == h.block[a].nextFree
    <3>1. /\ g.block[a].size = h.block[a].size
          /\ g.block[a].prevFree = v /\ g.block[a].nextFree = n
      OBVIOUS
    <3>2. InsertLevel(h.block[a].size) \in Levels
      BY ListedFacts
    <3>3. IF v = nullptr THEN h.head[InsertLevel(h.block[a].size)] = a
          ELSE v \in F /\ h.block[v].nextFree = a
      BY ListedFacts
    <3>4. n # nullptr => /\ n \in F /\ h.block[n].prevFree = a
                         /\ InsertLevel(h.block[n].size) = InsertLevel(h.block[a].size)
      BY ListedFacts
    <3> HIDE DEF v, n
    <3> QED BY <3>1, <3>2, <3>3, <3>4
  <2>2. ASSUME NEW l \in Levels, g.head[l] # nullptr
        PROVE  /\ g.head[l] \in F /\ g.block[g.head[l]].prevFree = nullptr
               /\ InsertLevel(g.block[g.head[l]].size) = l
    BY <2>2, ListedFacts
  <2> QED BY <2>1, <2>2 DEF Linkage
<1> QED BY <1>1, <1>2, <1>3 DEF Listed

\* What Push does.
LEMMA PushView ==
  ASSUME NEW h \in Heaps, NEW a \in Addr, a \in Aligned,
         NEW l \in Levels, l = InsertLevel(h.block[a].size),
         NEW origin \in Addr \cup {nullptr}, origin = h.head[l], origin # a
  PROVE  \E g \in Heaps :
           /\ Push(h, a) = IF origin = nullptr THEN SetBits(g, l) ELSE g
           /\ SameRow(g, h)
           /\ \A x \in Addr :
                /\ g.block[x].nextFree = IF x = a THEN origin ELSE h.block[x].nextFree
                /\ g.block[x].prevFree = IF x = a THEN nullptr
                                         ELSE IF x = origin THEN a ELSE h.block[x].prevFree
           /\ \A m \in Levels : g.head[m] = IF m = l THEN a ELSE h.head[m]
           /\ g.firstBitmap = h.firstBitmap /\ g.secondBitmap = h.secondBitmap
<1>0. /\ h.block \in [Addr -> Header] /\ nullptr \notin Addr /\ origin \in Aligned \cup {nullptr}
  BY SizesAssumption, PoolsAssumption DEF Heaps, Addr
<1> DEFINE b == h.block[a]
           r == [b EXCEPT !.nextFree = origin, !.prevFree = nullptr]
           h0 == [h EXCEPT !.head[l] = a]
           h1 == [h0 EXCEPT !.block[a] = r]
           h2 == [h1 EXCEPT !.block[origin].prevFree = a]
<1>1. Push(h, a) = IF origin = nullptr THEN SetBits(h1, l) ELSE h2
  BY DEF Push, Heaps
<1>2. b \in Header
  BY <1>0
<1>3. /\ h0 \in Heaps /\ h0.block = h.block
      /\ \A m \in Levels : h0.head[m] = IF m = l THEN a ELSE h.head[m]
      /\ h0.firstBitmap = h.firstBitmap /\ h0.secondBitmap = h.secondBitmap
  BY WriteHead
<1> HIDE DEF b, h0
<1>4. /\ r \in Header /\ r.nextFree = origin /\ r.prevFree = nullptr
      /\ r.free = b.free /\ r.size = b.size /\ r.prevPhy = b.prevPhy
  BY <1>0, <1>2 DEF Header
<1> HIDE DEF r
<1>5. /\ h1 \in Heaps /\ \A x \in Addr : h1.block[x] = IF x = a THEN r ELSE h.block[x]
      /\ h1.head = h0.head /\ h1.firstBitmap = h.firstBitmap /\ h1.secondBitmap = h.secondBitmap
  BY <1>3, <1>4, WriteBlock
<1> HIDE DEF h1
<1>6. /\ SameRow(h1, h)
      /\ \A x \in Addr :
           /\ h1.block[x].nextFree = IF x = a THEN origin ELSE h.block[x].nextFree
           /\ h1.block[x].prevFree = IF x = a THEN nullptr ELSE h.block[x].prevFree
  BY <1>4, <1>5 DEF SameRow, b
<1>7. CASE origin = nullptr
  BY <1>0, <1>1, <1>3, <1>5, <1>6, <1>7
<1>8. CASE origin # nullptr
  <2> DEFINE c == h1.block[origin]
             q == [c EXCEPT !.prevFree = a]
  <2>1. origin \in Addr /\ h2 = [h1 EXCEPT !.block[origin] = q] /\ c \in Header
    BY <1>0, <1>5, <1>8 DEF Heaps
  <2> HIDE DEF c
  <2>0. a \in Aligned \cup {nullptr}
    OBVIOUS
  <2> HIDE DEF h2
  <2>2. /\ q \in Header /\ q.prevFree = a /\ q.nextFree = c.nextFree
        /\ q.free = c.free /\ q.size = c.size /\ q.prevPhy = c.prevPhy
    BY <2>0, <2>1 DEF Header
  <2> HIDE DEF q
  <2>3. /\ h2 \in Heaps /\ \A x \in Addr : h2.block[x] = IF x = origin THEN q ELSE h1.block[x]
        /\ h2.head = h1.head /\ h2.firstBitmap = h1.firstBitmap
        /\ h2.secondBitmap = h1.secondBitmap
    BY <1>5, <2>1, <2>2, WriteBlock
  <2>4. /\ SameRow(h2, h1)
        /\ \A x \in Addr :
             /\ h2.block[x].prevFree = IF x = origin THEN a ELSE h1.block[x].prevFree
             /\ h2.block[x].nextFree = h1.block[x].nextFree
    <3>1. ASSUME NEW x \in Addr
          PROVE  h2.block[x] = IF x = origin THEN q ELSE h1.block[x]
      BY <2>3
    <3>2. h1.block[origin] = c
      BY DEF c
    <3> HIDE DEF c
    <3>3. /\ q.prevFree = a /\ q.nextFree = c.nextFree
          /\ q.free = c.free /\ q.size = c.size /\ q.prevPhy = c.prevPhy
      BY <2>2
    <3>4. ASSUME NEW x \in Addr
          PROVE  /\ h2.block[x].free = h1.block[x].free /\ h2.block[x].size = h1.block[x].size
                 /\ h2.block[x].prevPhy = h1.block[x].prevPhy
                 /\ h2.block[x].prevFree = IF x = origin THEN a ELSE h1.block[x].prevFree
                 /\ h2.block[x].nextFree = h1.block[x].nextFree
      BY <3>1, <3>2, <3>3
    <3> QED BY <3>4 DEF SameRow
  <2>5. SameRow(h2, h)
    BY <1>6, <2>4 DEF SameRow
  <2>6. \A x \in Addr :
          /\ h2.block[x].nextFree = IF x = a THEN origin ELSE h.block[x].nextFree
          /\ h2.block[x].prevFree = IF x = a THEN nullptr
                                    ELSE IF x = origin THEN a ELSE h.block[x].prevFree
    BY <1>6, <2>4
  <2> QED BY <1>1, <1>3, <1>5, <1>8, <2>3, <2>5, <2>6
<1> QED BY <1>7, <1>8

\* A block becomes the head of its list.
LEMMA PushListed ==
  ASSUME NEW h \in Heaps, NEW F, Listed(h, F), NEW a \in Heads(h) \ F, a \in Aligned,
         InsertLevel(h.block[a].size) \in Levels
  PROVE  /\ Push(h, a) \in Heaps /\ SameRow(Push(h, a), h)
         /\ Listed(Push(h, a), F \cup {a}) /\ SameLinks(Push(h, a), h, F \cup {a})
<1> DEFINE l == InsertLevel(h.block[a].size)
           origin == h.head[l]
           G == F \cup {a}
<1>1. /\ a \in Addr /\ a \notin F /\ l \in Levels /\ F \subseteq Addr /\ nullptr \notin Addr
      /\ origin \in F \cup {nullptr}
  BY ListedFacts DEF Heads
<1>2. origin \in Addr \cup {nullptr} /\ origin # a
  BY <1>1
<1> HIDE DEF l, origin
<1>3. PICK g \in Heaps :
           /\ Push(h, a) = IF origin = nullptr THEN SetBits(g, l) ELSE g
           /\ SameRow(g, h)
           /\ \A x \in Addr :
                /\ g.block[x].nextFree = IF x = a THEN origin ELSE h.block[x].nextFree
                /\ g.block[x].prevFree = IF x = a THEN nullptr
                                         ELSE IF x = origin THEN a ELSE h.block[x].prevFree
           /\ \A m \in Levels : g.head[m] = IF m = l THEN a ELSE h.head[m]
           /\ g.firstBitmap = h.firstBitmap /\ g.secondBitmap = h.secondBitmap
  BY <1>1, <1>2, PushView DEF l, origin
<1>4. G \subseteq Heads(g)
  BY <1>3 DEF Listed, Heads, SameRow
<1>5. \A x \in G : g.block[x].size = h.block[x].size
  BY <1>1, <1>3 DEF SameRow
<1>6. origin # nullptr => /\ origin \in F /\ h.block[origin].prevFree = nullptr
                          /\ InsertLevel(h.block[origin].size) = l
  BY <1>1, ListedFacts DEF origin
<1>7. Linkage(g, G)
  <2>1. ASSUME NEW b \in G
        PROVE  /\ InsertLevel(g.block[b].size) \in Levels
               /\ g.block[b].prevFree = nullptr => g.head[InsertLevel(g.block[b].size)] = b
               /\ g.block[b].prevFree # nullptr =>
                    g.block[b].prevFree \in G /\ g.block[g.block[b].prevFree].nextFree = b
               /\ g.block[b].nextFree # nullptr =>
                    /\ g.block[b].nextFree \in G
                    /\ g.block[g.block[b].nextFree].prevFree = b
                    /\ InsertLevel(g.block[g.block[b].nextFree].size) = InsertLevel(g.block[b].size)
    <3>1. CASE b = a
      <4>1. /\ g.block[b].prevFree = nullptr /\ g.block[b].nextFree = origin
            /\ InsertLevel(g.block[b].size) = l /\ g.head[l] = a
        BY <1>1, <1>3, <1>5, <3>1 DEF l
      <4>2. origin # nullptr => g.block[origin].prevFree = a
        BY <1>1, <1>2, <1>3
      <4> QED BY <1>1, <1>5, <1>6, <3>1, <4>1, <4>2
    <3>2. CASE b \in F
      <4>0. b \in Addr /\ b # a
        BY <1>1, <3>2
      <4>1. /\ InsertLevel(g.block[b].size) \in Levels
            /\ g.block[b].nextFree = h.block[b].nextFree
            /\ InsertLevel(g.block[b].size) = InsertLevel(h.block[b].size)
        BY <1>3, <1>5, <3>2, <4>0, ListedFacts
      <4>2. ASSUME g.block[b].nextFree # nullptr
            PROVE  /\ g.block[b].nextFree \in G
                   /\ g.block[g.block[b].nextFree].prevFree = b
                   /\ InsertLevel(g.block[g.block[b].nextFree].size) = InsertLevel(g.block[b].size)
        <5> DEFINE n == h.block[b].nextFree
        <5>1. /\ n \in F /\ h.block[n].prevFree = b
              /\ InsertLevel(h.block[n].size) = InsertLevel(h.block[b].size)
          BY <3>2, <4>1, <4>2, ListedFacts
        <5>2. n # a /\ n # origin
          BY <1>1, <1>6, <4>0, <5>1
        <5> HIDE DEF n
        <5>3. g.block[n].prevFree = b
          BY <1>1, <1>3, <5>1, <5>2
        <5> QED BY <1>5, <4>1, <5>1, <5>3 DEF n
      <4>3. CASE b = origin
        <5>1. g.block[b].prevFree = a /\ g.block[a].nextFree = b
          BY <1>1, <1>3, <4>0, <4>3
        <5> QED BY <1>1, <4>0, <4>1, <4>2, <5>1
      <4>4. CASE b # origin
        <5>1. g.block[b].prevFree = h.block[b].prevFree
          BY <1>3, <4>0, <4>4
        <5>2. ASSUME h.block[b].prevFree = nullptr
              PROVE  g.head[InsertLevel(g.block[b].size)] = b
          <6>1. h.head[InsertLevel(h.block[b].size)] = b
            BY <3>2, <5>2, ListedFacts
          <6>2. InsertLevel(h.block[b].size) # l
            BY <4>4, <6>1 DEF origin
          <6> QED BY <1>3, <4>1, <6>1, <6>2
        <5>3. ASSUME h.block[b].prevFree # nullptr
              PROVE  h.block[b].prevFree \in G /\ g.block[h.block[b].prevFree].nextFree = b
          <6>1. h.block[b].prevFree \in F /\ h.block[h.block[b].prevFree].nextFree = b
            BY <3>2, <5>3, ListedFacts
          <6> QED BY <1>1, <1>3, <6>1
        <5> QED BY <4>1, <4>2, <5>1, <5>2, <5>3
      <4> QED BY <4>3, <4>4
    <3> QED BY <3>1, <3>2
  <2>2. ASSUME NEW m \in Levels, g.head[m] # nullptr
        PROVE  /\ g.head[m] \in G /\ g.block[g.head[m]].prevFree = nullptr
               /\ InsertLevel(g.block[g.head[m]].size) = m
    <3>1. CASE m = l
      BY <1>1, <1>3, <1>5, <3>1 DEF l
    <3>2. CASE m # l
      <4> DEFINE c == h.head[m]
      <4>1. /\ g.head[m] = c /\ c \in F /\ h.block[c].prevFree = nullptr
            /\ InsertLevel(h.block[c].size) = m
        BY <1>3, <2>2, <3>2, ListedFacts
      <4>2. c # a /\ c # origin
        BY <1>1, <1>6, <3>2, <4>1
      <4> HIDE DEF c
      <4> QED BY <1>1, <1>3, <1>5, <4>1, <4>2
    <3> QED BY <3>1, <3>2
  <2> QED BY <2>1, <2>2 DEF Linkage
<1>8. \A m \in Levels \ {l} : m.second \in g.secondBitmap[m.first] <=> g.head[m] # nullptr
  BY <1>3, ListedFacts
<1>9. g.firstBitmap = {f \in 0 .. FLC - 1 : g.secondBitmap[f] # {}}
  BY <1>3, ListedFacts
<1>10. g.head[l] # nullptr
  BY <1>1, <1>3
<1>0. SameLinks(g, h, G)
  BY <1>1, <1>3 DEF SameLinks
<1>11. CASE origin = nullptr
  <2> DEFINE c == SetBits(g, l)
  <2>1. c \in Heaps /\ c.block = g.block /\ c.head = g.head /\ BitsAgree(c)
    BY <1>1, <1>8, <1>9, <1>10, SetBitsView, SetBitsAgree
  <2> HIDE DEF c
  <2>2. Linkage(c, G) /\ G \subseteq Heads(c) /\ SameRow(c, h) /\ SameLinks(c, h, G)
    BY <1>0, <1>3, <1>4, <1>7, <2>1 DEF Linkage, Heads, SameRow, SameLinks
  <2> QED BY <1>3, <1>11, <2>1, <2>2 DEF Listed, c
<1>12. CASE origin # nullptr
  <2>1. l.second \in g.secondBitmap[l.first]
    BY <1>1, <1>3, <1>12, ListedFacts DEF origin
  <2>2. BitsAgree(g)
    BY <1>8, <1>9, <1>10, <2>1 DEF BitsAgree
  <2> QED BY <1>0, <1>3, <1>4, <1>7, <1>12, <2>2 DEF Listed
<1> QED BY <1>11, <1>12

\* Heaps with the same parts are the same.
LEMMA HeapsEqual ==
  ASSUME NEW g \in Heaps, NEW h \in Heaps, SameRow(g, h),
         \A x \in Addr : /\ g.block[x].nextFree = h.block[x].nextFree
                         /\ g.block[x].prevFree = h.block[x].prevFree,
         \A m \in Levels : g.head[m] = h.head[m],
         g.firstBitmap = h.firstBitmap,
         \A f \in 0 .. FLC - 1 : g.secondBitmap[f] = h.secondBitmap[f]
  PROVE  g = h
<1>1. ASSUME NEW x \in Addr PROVE g.block[x] = h.block[x]
  <2> DEFINE q == g.block[x]
             r == h.block[x]
  <2>1. /\ q \in Header /\ r \in Header
        /\ q.free = r.free /\ q.size = r.size /\ q.prevPhy = r.prevPhy
        /\ q.nextFree = r.nextFree /\ q.prevFree = r.prevFree
    BY DEF Heaps, SameRow
  <2> HIDE DEF q, r
  <2>2. q = r
    BY <2>1 DEF Header
  <2> QED BY <2>2 DEF q, r
<1>2. g.block = h.block
  BY <1>1 DEF Heaps
<1>3. g.head = h.head
  BY DEF Heaps
<1>4. g.secondBitmap = h.secondBitmap
  <2> DEFINE D == 0 .. FLC - 1
             R == SUBSET (0 .. SLC - 1)
             s == g.secondBitmap
             t == h.secondBitmap
  <2>1. s \in [D -> R] /\ t \in [D -> R] /\ \A f \in D : s[f] = t[f]
    BY DEF Heaps
  <2> HIDE DEF D, R, s, t
  <2>2. s = t
    BY <2>1
  <2> QED BY <2>2 DEF s, t
<1> QED BY <1>2, <1>3, <1>4 DEF Heaps

\* PopHead takes the head out of its list, and RemoveFree after it does nothing.
LEMMA PopTwice ==
  ASSUME NEW h \in Heaps, NEW F, Listed(h, F), NEW l \in Levels,
         NEW a, a = h.head[l], a # nullptr
  PROVE  PopHead(h, l) = RemoveFree(h, a, l) /\ RemoveFree(PopHead(h, l), a, l) = PopHead(h, l)
<1> DEFINE next == h.block[a].nextFree
           prev == h.block[a].prevFree
           g == RemoveFree(h, a, l)
<1>1. /\ a \in F /\ a \in Addr /\ prev = nullptr /\ InsertLevel(h.block[a].size) = l
      /\ next \in F \cup {nullptr} /\ nullptr \notin Addr /\ F \subseteq Addr
  BY ListedFacts
<1>2. next # a
  BY <1>1, ListedFacts
<1>3. PopHead(h, l) = g
  <2> DEFINE k == [h EXCEPT !.head[l] = next]
  <2>1. k.head[l] = next /\ k.block = h.block
    BY <1>1, WriteHead DEF Heaps
  <2>2. PopHead(h, l) = IF next # nullptr THEN [k EXCEPT !.block[next].prevFree = nullptr]
                        ELSE ClearBits(k, l)
    BY DEF PopHead
  <2>3. g = LET h2 == IF next # nullptr THEN [k EXCEPT !.block[next].prevFree = nullptr] ELSE k
            IN  IF h2.head[l] = nullptr THEN ClearBits(h2, l) ELSE h2
    BY <1>1 DEF RemoveFree
  <2> HIDE DEF k, g, next
  <2>4. CASE next = nullptr
    BY <2>1, <2>2, <2>3, <2>4
  <2>5. CASE next # nullptr
    <3>1. [k EXCEPT !.block[next].prevFree = nullptr].head = k.head
      OBVIOUS
    <3> QED BY <2>1, <2>2, <2>3, <2>5, <3>1
  <2> QED BY <2>4, <2>5
<1>4. g \in Heaps /\ Listed(g, F \ {a})
  BY <1>1, RemoveListed
<1>5. g.block[a].nextFree = next /\ g.block[a].prevFree = nullptr /\ g.head[l] = next
  <2>1. prev \in Addr \cup {nullptr} /\ next \in Addr \cup {nullptr}
    BY <1>1
  <2>2. PICK k \in Heaps :
           /\ g = IF k.head[l] = nullptr THEN ClearBits(k, l) ELSE k
           /\ SameRow(k, h)
           /\ \A x \in Addr :
                /\ k.block[x].nextFree = IF x = prev THEN next ELSE h.block[x].nextFree
                /\ k.block[x].prevFree = IF x = next THEN prev ELSE h.block[x].prevFree
           /\ \A m \in Levels : k.head[m] = IF prev = nullptr /\ m = l THEN next ELSE h.head[m]
           /\ k.firstBitmap = h.firstBitmap /\ k.secondBitmap = h.secondBitmap
    BY <1>1, <2>1, RemoveView
  <2> HIDE DEF g
  <2>3. g.block = k.block /\ g.head = k.head
    <3>1. ClearBits(k, l).block = k.block /\ ClearBits(k, l).head = k.head
      BY ClearBitsView
    <3>2. CASE k.head[l] = nullptr
      BY <2>2, <3>1, <3>2
    <3>3. CASE k.head[l] # nullptr
      BY <2>2, <3>3
    <3> QED BY <3>2, <3>3
  <2> QED BY <1>1, <1>2, <2>2, <2>3
<1> HIDE DEF g
<1>6. RemoveFree(g, a, l) = g
  <2> DEFINE next2 == g.block[a].nextFree
             prev2 == g.block[a].prevFree
  <2>0. next2 = next /\ prev2 = nullptr /\ next2 \in Addr \cup {nullptr}
    BY <1>1, <1>5
  <2> HIDE DEF next2, prev2
  <2>1. PICK k \in Heaps :
           /\ RemoveFree(g, a, l) = IF k.head[l] = nullptr THEN ClearBits(k, l) ELSE k
           /\ SameRow(k, g)
           /\ \A x \in Addr :
                /\ k.block[x].nextFree = IF x = prev2 THEN next2 ELSE g.block[x].nextFree
                /\ k.block[x].prevFree = IF x = next2 THEN prev2 ELSE g.block[x].prevFree
           /\ \A m \in Levels : k.head[m] = IF prev2 = nullptr /\ m = l THEN next2 ELSE g.head[m]
           /\ k.firstBitmap = g.firstBitmap /\ k.secondBitmap = g.secondBitmap
    <3>1. /\ g \in Heaps /\ a \in Addr
          /\ prev2 \in Addr \cup {nullptr} /\ next2 \in Addr \cup {nullptr}
      BY <1>1, <1>4, <2>0
    <3>2. prev2 = g.block[a].prevFree /\ next2 = g.block[a].nextFree
      BY DEF prev2, next2
    <3> QED BY <3>1, <3>2, RemoveView
  <2> HIDE DEF next
  <2>2. next # nullptr => g.block[next].prevFree = nullptr
    BY <1>4, <1>5, ListedFacts
  <2>3. /\ \A x \in Addr : /\ k.block[x].nextFree = g.block[x].nextFree
                           /\ k.block[x].prevFree = g.block[x].prevFree
        /\ \A m \in Levels : k.head[m] = g.head[m]
    BY <1>1, <1>5, <2>0, <2>1, <2>2
  <2>4. k = g
    BY <1>4, <2>1, <2>3, HeapsEqual
  <2>5. CASE g.head[l] # nullptr
    BY <2>1, <2>4, <2>5
  <2>6. CASE g.head[l] = nullptr
    <3> DEFINE c == ClearBits(g, l)
    <3>1. /\ c \in Heaps /\ c.block = g.block /\ c.head = g.head
          /\ \A f \in 0 .. FLC - 1 : c.secondBitmap[f] =
               IF f = l.first THEN g.secondBitmap[f] \ {l.second} ELSE g.secondBitmap[f]
          /\ c.firstBitmap = IF g.secondBitmap[l.first] \subseteq {l.second}
                             THEN g.firstBitmap \ {l.first} ELSE g.firstBitmap
      BY <1>4, ClearBitsView
    <3> HIDE DEF c
    <3>2. /\ l.second \notin g.secondBitmap[l.first] /\ l.first \in 0 .. FLC - 1
          /\ g.firstBitmap = {f \in 0 .. FLC - 1 : g.secondBitmap[f] # {}}
      BY <1>4, <2>6, ListedFacts, LevelFacts
    <3>3. ASSUME NEW f \in 0 .. FLC - 1 PROVE c.secondBitmap[f] = g.secondBitmap[f]
      <4>1. CASE f = l.first
        <5>1. c.secondBitmap[f] = g.secondBitmap[f] \ {l.second}
          BY <3>1, <4>1
        <5>2. l.second \notin g.secondBitmap[f]
          BY <3>2, <4>1
        <5> QED BY <5>1, <5>2
      <4>2. CASE f # l.first
        BY <3>1, <4>2
      <4> QED BY <4>1, <4>2
    <3>4. c.firstBitmap = g.firstBitmap
      BY <3>1, <3>2
    <3>5. c = g
      BY <1>4, <3>1, <3>3, <3>4, HeapsEqual DEF SameRow
    <3> QED BY <2>1, <2>4, <2>6, <3>5 DEF c
  <2> QED BY <2>5, <2>6
<1> QED BY <1>3, <1>6 DEF g

(***************************************************************************)
(* The rows of blocks.                                                     *)
(***************************************************************************)
InPool(p, a) == p.ptr <= a /\ Inside(p, a)
RowOf(h, p) == {a \in Heads(h) : InPool(p, a)}

\* The blocks of pool p follow one another; the one behind x need not know it.
Row(h, p, x) ==
  /\ p.ptr \in RowOf(h, p) /\ h.block[p.ptr].prevPhy = nullptr
  /\ \A a \in RowOf(h, p) :
       /\ NextPhy(h, a) # p.ptr + p.capacity =>
            /\ NextPhy(h, a) \in RowOf(h, p)
            /\ a # x => h.block[NextPhy(h, a)].prevPhy = a
       /\ a # p.ptr => \E c \in RowOf(h, p) : NextPhy(h, c) = a
       /\ \A b \in RowOf(h, p) : a < b => NextPhy(h, a) <= b

\* The constants as the steps below need them.
LEMMA AddrFacts ==
  /\ MaxAddress \in Nat /\ Addr \subseteq Nat /\ nullptr \notin Addr /\ nullptr \notin Nat
  /\ \A a \in Nat : a \in Addr <=> a < MaxAddress
  /\ Aligned \subseteq Addr /\ TrueSize \in Nat \ {0}
  /\ \A a \in Nat : a \in Aligned <=> a < MaxAddress /\ a % MinimiumAllocationSize = 0
BY SizesAssumption, PoolsAssumption DEF Addr, Aligned

\* A pool lies in the memory and is aligned.
LEMMA PoolFacts ==
  ASSUME NEW p \in Pools
  PROVE  /\ p.ptr \in Nat /\ p.capacity \in Nat /\ p.ptr + p.capacity <= MaxAddress
         /\ p.capacity - TrueSize < ClassesEnd
         /\ p.capacity >= TrueSize + MinimiumAllocationSize
         /\ p.ptr % MinimiumAllocationSize = 0 /\ p.capacity % MinimiumAllocationSize = 0
BY PoolsAssumption

\* Pools do not overlap.
LEMMA PoolsApart ==
  ASSUME NEW p \in Pools, NEW q \in Pools, NEW a \in Nat, InPool(p, a), InPool(q, a)
  PROVE  p = q
<1>1. p # q => p.ptr + p.capacity <= q.ptr \/ q.ptr + q.capacity <= p.ptr
  BY PoolsAssumption
<1> QED BY <1>1, PoolFacts DEF InPool, Inside

\* A header is at an aligned address and has an aligned size.
LEMMA HeadFacts ==
  ASSUME NEW h \in Heaps, NEW a \in Heads(h)
  PROVE  /\ a \in Nat /\ a \in Addr /\ h.block[a].size \in Nat \ {0}
         /\ h.block[a].size % MinimiumAllocationSize = 0
         /\ h.block[a].size >= MinimiumAllocationSize
         /\ NextPhy(h, a) \in Nat /\ NextPhy(h, a) > a + TrueSize
         /\ NextPhy(h, a) = a + TrueSize + h.block[a].size
<1>1. a \in Addr /\ a \in Nat /\ h.block[a].size # 0
  BY AddrFacts DEF Heads
<1>2. h.block[a] \in Header
  BY <1>1 DEF Heaps
<1>3. h.block[a].size \in Aligned
  BY <1>2 DEF Header
<1>4. h.block[a].size \in Nat /\ h.block[a].size % MinimiumAllocationSize = 0
  BY <1>3, AddrFacts DEF Aligned
<1>5. h.block[a].size >= MinimiumAllocationSize
  <2> DEFINE n == h.block[a].size
  <2>1. n \in Nat /\ n # 0 /\ n % MinimiumAllocationSize = 0
    BY <1>1, <1>4
  <2> HIDE DEF n
  <2>2. n >= MinimiumAllocationSize
    BY <2>1, ClassConstants, MultipleAtLeast
  <2> QED BY <2>2 DEF n
<1>6. TrueSize \in Nat
  BY AddrFacts
<1> QED BY <1>1, <1>4, <1>5, <1>6 DEF NextPhy

\* What Row says of one block.
LEMMA RowFacts ==
  ASSUME NEW h \in Heaps, NEW p \in Pools, NEW x, Row(h, p, x), NEW a \in RowOf(h, p)
  PROVE  /\ NextPhy(h, a) <= p.ptr + p.capacity
         /\ Inside(p, NextPhy(h, a)) =>
              /\ NextPhy(h, a) \in RowOf(h, p)
              /\ a # x => h.block[NextPhy(h, a)].prevPhy = a
         /\ \A c \in RowOf(h, p) : NextPhy(h, c) = NextPhy(h, a) => c = a
         /\ h.block[a].size + TrueSize <= p.capacity
         /\ InsertLevel(h.block[a].size) \in Levels
<1>1. /\ a \in Heads(h) /\ a \in Nat /\ p.ptr <= a /\ RowOf(h, p) \subseteq Heads(h)
      /\ p.ptr \in Nat /\ p.capacity \in Nat /\ TrueSize \in Nat
  BY HeadFacts, PoolFacts, AddrFacts DEF RowOf, InPool
<1>2. NextPhy(h, a) = p.ptr + p.capacity \/ NextPhy(h, a) \in RowOf(h, p)
  BY DEF Row
<1>3. \A c \in RowOf(h, p) : Inside(p, c)
  BY DEF RowOf, InPool
<1>4. NextPhy(h, a) \in Nat /\ NextPhy(h, a) <= p.ptr + p.capacity
  BY <1>1, <1>2, <1>3, HeadFacts DEF Inside
<1>5. ASSUME NEW c \in RowOf(h, p), NextPhy(h, c) = NextPhy(h, a) PROVE c = a
  <2>1. c \in Nat /\ NextPhy(h, c) \in Nat /\ NextPhy(h, c) > c + TrueSize
    BY <1>1, HeadFacts
  <2>2. NextPhy(h, a) > a + TrueSize
    BY <1>1, HeadFacts
  <2>3. (a < c => NextPhy(h, a) <= c) /\ (c < a => NextPhy(h, c) <= a)
    BY DEF Row
  <2> QED BY <1>1, <1>4, <1>5, <2>1, <2>2, <2>3
<1>6. h.block[a].size + TrueSize <= p.capacity /\ h.block[a].size \in Nat \ {0}
  BY <1>1, <1>4, HeadFacts
<1>7. InsertLevel(h.block[a].size) \in Levels
  <2> DEFINE n == h.block[a].size
  <2>0. n \in Nat \ {0} /\ n + TrueSize <= p.capacity /\ n >= MinimiumAllocationSize
    BY <1>1, <1>6, HeadFacts
  <2>1. n % MinimiumAllocationSize = 0
    BY <1>1, HeadFacts
  <2> HIDE DEF n
  <2>2. n < ClassesEnd
    <3>1. ClassesEnd \in Nat /\ p.capacity - TrueSize < ClassesEnd
      <4>1. FLC + BasePowLevel - 1 \in Nat
        BY ClassConstants
      <4> QED BY <4>1, Pow2Type, PoolFacts DEF ClassesEnd
    <3> QED BY <1>1, <2>0, <3>1
  <2>3. InsertLevel(n) \in Levels
    BY <2>0, <2>1, <2>2, InsertLevelFacts
  <2> QED BY <2>3 DEF n
<1>8. Inside(p, NextPhy(h, a)) => /\ NextPhy(h, a) \in RowOf(h, p)
                                  /\ a # x => h.block[NextPhy(h, a)].prevPhy = a
  <2> SUFFICES ASSUME Inside(p, NextPhy(h, a))
               PROVE  /\ NextPhy(h, a) \in RowOf(h, p)
                      /\ a # x => h.block[NextPhy(h, a)].prevPhy = a
    OBVIOUS
  <2>1. NextPhy(h, a) # p.ptr + p.capacity
    BY <1>1, <1>4 DEF Inside
  <2> QED BY <2>1 DEF Row
<1> QED BY <1>4, <1>5, <1>6, <1>7, <1>8

\* A row depends on its own blocks only.
LEMMA RowFrame ==
  ASSUME NEW h \in Heaps, NEW g \in Heaps, NEW p \in Pools, NEW x, NEW y, Row(h, p, x),
         \A a \in Addr : InPool(p, a) => /\ g.block[a].size = h.block[a].size
                                         /\ g.block[a].prevPhy = h.block[a].prevPhy,
         y # x => x \notin RowOf(h, p)
  PROVE  RowOf(g, p) = RowOf(h, p) /\ Row(g, p, y)
<1>1. RowOf(g, p) = RowOf(h, p)
  BY DEF RowOf, Heads
<1>2. \A a \in RowOf(h, p) : /\ g.block[a].size = h.block[a].size
                             /\ g.block[a].prevPhy = h.block[a].prevPhy
  BY DEF RowOf, Heads
<1>3. \A a \in RowOf(h, p) : NextPhy(g, a) = NextPhy(h, a)
  BY <1>2 DEF NextPhy
<1>4. Row(g, p, y)
  <2>1. p.ptr \in RowOf(g, p) /\ g.block[p.ptr].prevPhy = nullptr
    BY <1>1, <1>2 DEF Row
  <2>2. ASSUME NEW a \in RowOf(g, p)
        PROVE  /\ NextPhy(g, a) # p.ptr + p.capacity =>
                    /\ NextPhy(g, a) \in RowOf(g, p)
                    /\ a # y => g.block[NextPhy(g, a)].prevPhy = a
               /\ a # p.ptr => \E c \in RowOf(g, p) : NextPhy(g, c) = a
               /\ \A b \in RowOf(g, p) : a < b => NextPhy(g, a) <= b
    BY <1>1, <1>2, <1>3 DEF Row
  <2> QED BY <2>1, <2>2 DEF Row
<1> QED BY <1>1, <1>4

\* g has the list heads and the bitmaps of h.
SameLists(g, h) ==
  g.head = h.head /\ g.firstBitmap = h.firstBitmap /\ g.secondBitmap = h.secondBitmap

\* NoHeader is a header.
LEMMA NoHeaderFacts ==
  ASSUME NEW a \in Addr
  PROVE  /\ NoHeader \in Header /\ NoHeader.free = FALSE /\ NoHeader.size = 0
         /\ NoHeader.prevPhy = nullptr /\ NoHeader.prevFree = nullptr
         /\ NoHeader.nextFree = nullptr
<1>1. 0 \in Aligned
  <2>1. 0 < MaxAddress
    BY AddrFacts
  <2>2. 0 % MinimiumAllocationSize = 0
    BY ClassConstants, RemainderSelf
  <2> QED BY <2>1, <2>2, AddrFacts
<1> QED BY <1>1 DEF Header, NoHeader

\* What Absorb does.
LEMMA AbsorbView ==
  ASSUME NEW h \in Heaps, NEW a \in Addr, NEW b \in Addr, a # b,
         NEW n \in Aligned, n = h.block[a].size + h.block[b].size + TrueSize
  PROVE  /\ Absorb(h, a, b) \in Heaps /\ SameLists(Absorb(h, a, b), h)
         /\ Absorb(h, a, b).block[b] = NoHeader
         /\ \A x \in Addr \ {b} :
              /\ Absorb(h, a, b).block[x].free = h.block[x].free
              /\ Absorb(h, a, b).block[x].prevPhy = h.block[x].prevPhy
              /\ Absorb(h, a, b).block[x].prevFree = h.block[x].prevFree
              /\ Absorb(h, a, b).block[x].nextFree = h.block[x].nextFree
              /\ Absorb(h, a, b).block[x].size = IF x = a THEN n ELSE h.block[x].size
<1> DEFINE c == h.block[a]
           r == [c EXCEPT !.size = n]
           h1 == [h EXCEPT !.block[a] = r]
           g == [h1 EXCEPT !.block[b] = NoHeader]
<1>1. /\ c \in Header /\ NoHeader \in Header
  BY NoHeaderFacts DEF Heaps
<1>2. Absorb(h, a, b) = g
  BY DEF Absorb
<1> HIDE DEF c
<1>3. /\ r \in Header /\ r.size = n /\ r.free = c.free /\ r.prevPhy = c.prevPhy
      /\ r.prevFree = c.prevFree /\ r.nextFree = c.nextFree
  BY <1>1 DEF Header
<1> HIDE DEF r
<1>4. /\ h1 \in Heaps /\ \A x \in Addr : h1.block[x] = IF x = a THEN r ELSE h.block[x]
      /\ SameLists(h1, h)
  BY <1>3, WriteBlock DEF SameLists
<1> HIDE DEF h1
<1>5. /\ g \in Heaps /\ \A x \in Addr : g.block[x] = IF x = b THEN NoHeader ELSE h1.block[x]
      /\ SameLists(g, h1)
  BY <1>1, <1>4, WriteBlock DEF SameLists
<1> HIDE DEF g
<1>6. SameLists(g, h) /\ g.block[b] = NoHeader
  BY <1>4, <1>5 DEF SameLists
<1>7. ASSUME NEW x \in Addr \ {b}
      PROVE  /\ g.block[x].free = h.block[x].free /\ g.block[x].prevPhy = h.block[x].prevPhy
             /\ g.block[x].prevFree = h.block[x].prevFree
             /\ g.block[x].nextFree = h.block[x].nextFree
             /\ g.block[x].size = IF x = a THEN n ELSE h.block[x].size
  <2>1. CASE x = a
    <3>1. g.block[x] = r /\ h.block[x] = c
      BY <1>4, <1>5, <2>1 DEF c
    <3> QED BY <1>3, <2>1, <3>1
  <2>2. CASE x # a
    <3>1. g.block[x] = h.block[x]
      BY <1>4, <1>5, <2>2
    <3> QED BY <2>2, <3>1
  <2> QED BY <2>1, <2>2
<1> QED BY <1>2, <1>5, <1>6, <1>7

\* What Linked does.
LEMMA LinkedView ==
  ASSUME NEW h \in Heaps, NEW p, NEW n, Inside(p, n) => n \in Addr,
         NEW b \in Aligned \cup {nullptr}
  PROVE  /\ Linked(h, p, n, b) \in Heaps /\ SameLists(Linked(h, p, n, b), h)
         /\ \A x \in Addr :
              /\ Linked(h, p, n, b).block[x].free = h.block[x].free
              /\ Linked(h, p, n, b).block[x].size = h.block[x].size
              /\ Linked(h, p, n, b).block[x].prevFree = h.block[x].prevFree
              /\ Linked(h, p, n, b).block[x].nextFree = h.block[x].nextFree
              /\ Linked(h, p, n, b).block[x].prevPhy = IF Inside(p, n) /\ x = n THEN b
                                                       ELSE h.block[x].prevPhy
<1>1. CASE ~ Inside(p, n)
  <2>1. Linked(h, p, n, b) = h
    BY <1>1 DEF Linked
  <2> QED BY <1>1, <2>1 DEF SameLists
<1>2. CASE Inside(p, n)
  <2> DEFINE c == h.block[n]
             r == [c EXCEPT !.prevPhy = b]
             g == [h EXCEPT !.block[n] = r]
  <2>1. Linked(h, p, n, b) = g /\ n \in Addr /\ c \in Header
    BY <1>2 DEF Linked, Heaps
  <2> HIDE DEF c
  <2>2. /\ r \in Header /\ r.prevPhy = b /\ r.free = c.free /\ r.size = c.size
        /\ r.prevFree = c.prevFree /\ r.nextFree = c.nextFree
    BY <2>1 DEF Header
  <2> HIDE DEF r
  <2>3. /\ g \in Heaps /\ \A x \in Addr : g.block[x] = IF x = n THEN r ELSE h.block[x]
        /\ SameLists(g, h)
    BY <2>1, <2>2, WriteBlock DEF SameLists
  <2> HIDE DEF g
  <2>4. ASSUME NEW x \in Addr
        PROVE  /\ g.block[x].free = h.block[x].free /\ g.block[x].size = h.block[x].size
               /\ g.block[x].prevFree = h.block[x].prevFree
               /\ g.block[x].nextFree = h.block[x].nextFree
               /\ g.block[x].prevPhy = IF x = n THEN b ELSE h.block[x].prevPhy
    <3>1. CASE x = n
      <4>1. g.block[x] = r /\ h.block[x] = c
        BY <2>3, <3>1 DEF c
      <4> QED BY <2>2, <3>1, <4>1
    <3>2. CASE x # n
      BY <2>3, <3>2
    <3> QED BY <3>1, <3>2
  <2> QED BY <1>2, <2>1, <2>3, <2>4
<1> QED BY <1>1, <1>2

\* The block behind a becomes a part of a; who follows now need not know it.
LEMMA AbsorbRow ==
  ASSUME NEW h \in Heaps, NEW p \in Pools, NEW x, Row(h, p, x), NEW a \in RowOf(h, p),
         x = nullptr \/ x = a, NEW b, b = NextPhy(h, a), b \in RowOf(h, p)
  PROVE  /\ b # a /\ h.block[a].size + h.block[b].size + TrueSize \in Aligned
         /\ RowOf(Absorb(h, a, b), p) = RowOf(h, p) \ {b}
         /\ NextPhy(Absorb(h, a, b), a) = NextPhy(h, b)
         /\ Row(Absorb(h, a, b), p, a)
<1> DEFINE n == h.block[a].size + h.block[b].size + TrueSize
           g == Absorb(h, a, b)
<1>1. /\ a \in Heads(h) /\ b \in Heads(h) /\ a \in Addr /\ b \in Addr /\ a \in Nat /\ b \in Nat
      /\ h.block[a].size \in Nat \ {0} /\ h.block[b].size \in Nat \ {0}
      /\ h.block[a].size % MinimiumAllocationSize = 0
      /\ h.block[b].size % MinimiumAllocationSize = 0
      /\ b = a + TrueSize + h.block[a].size
      /\ NextPhy(h, b) = b + TrueSize + h.block[b].size /\ TrueSize \in Nat \ {0}
  BY HeadFacts, AddrFacts DEF RowOf
<1>2. /\ NextPhy(h, b) <= MaxAddress /\ MaxAddress \in Nat /\ NextPhy(h, b) \in Nat
      /\ p.ptr \in Nat /\ p.capacity \in Nat
  BY <1>1, RowFacts, PoolFacts, AddrFacts
<1>3. b # a /\ n \in Nat \ {0} /\ n < MaxAddress /\ NextPhy(h, b) = a + TrueSize + n
  BY <1>1, <1>2
<1>4. n \in Aligned
  <2>1. TrueSize % MinimiumAllocationSize = 0 /\ MinimiumAllocationSize \in Nat \ {0}
    BY SizesAssumption
  <2>2. (h.block[a].size + h.block[b].size) % MinimiumAllocationSize = 0
    BY <1>1, <2>1, MultiplesAdd
  <2>3. h.block[a].size + h.block[b].size \in Nat
    BY <1>1
  <2>4. n % MinimiumAllocationSize = 0
    BY <1>1, <2>1, <2>2, <2>3, MultiplesAdd
  <2> QED BY <1>3, <2>4, AddrFacts
<1> HIDE DEF n
<1>5. /\ g \in Heaps /\ g.block[b] = NoHeader
      /\ \A y \in Addr \ {b} :
           /\ g.block[y].prevPhy = h.block[y].prevPhy
           /\ g.block[y].size = IF y = a THEN n ELSE h.block[y].size
  <2>1. a \in Addr /\ b \in Addr /\ a # b /\ n \in Aligned
    BY <1>1, <1>3, <1>4
  <2>2. n = h.block[a].size + h.block[b].size + TrueSize
    BY DEF n
  <2> QED BY <2>1, <2>2, AbsorbView
<1> HIDE DEF g
<1>6. RowOf(g, p) = RowOf(h, p) \ {b}
  <2>1. g.block[b].size = 0
    BY <1>5 DEF NoHeader
  <2>2. \A y \in Addr \ {b} : g.block[y].size # 0 <=> h.block[y].size # 0
    BY <1>1, <1>3, <1>5
  <2> QED BY <1>1, <2>1, <2>2 DEF RowOf, Heads
<1>7. /\ NextPhy(g, a) = NextPhy(h, b)
      /\ \A y \in RowOf(h, p) \ {a, b} : NextPhy(g, y) = NextPhy(h, y)
  BY <1>1, <1>3, <1>5 DEF NextPhy, RowOf, Heads
<1>8. p.ptr \in RowOf(g, p) /\ g.block[p.ptr].prevPhy = nullptr
  <2>1. p.ptr # b
    BY <1>1, <1>2 DEF RowOf, InPool
  <2>2. p.ptr \in RowOf(h, p) /\ h.block[p.ptr].prevPhy = nullptr /\ p.ptr \in Addr
    BY DEF Row, RowOf, Heads
  <2> QED BY <1>5, <1>6, <2>1, <2>2
<1>9. ASSUME NEW c \in RowOf(g, p)
      PROVE  /\ NextPhy(g, c) # p.ptr + p.capacity =>
                  /\ NextPhy(g, c) \in RowOf(g, p)
                  /\ c # a => g.block[NextPhy(g, c)].prevPhy = c
             /\ c # p.ptr => \E d \in RowOf(g, p) : NextPhy(g, d) = c
             /\ \A d \in RowOf(g, p) : c < d => NextPhy(g, c) <= d
  <2>0. c \in RowOf(h, p) /\ c # b /\ c \in Nat /\ RowOf(h, p) \subseteq Nat
        /\ RowOf(h, p) \subseteq Addr
    BY <1>6, AddrFacts DEF RowOf, Heads
  <2>1. ASSUME NextPhy(g, c) # p.ptr + p.capacity
        PROVE  NextPhy(g, c) \in RowOf(g, p) /\ (c # a => g.block[NextPhy(g, c)].prevPhy = c)
    <3>1. CASE c = a
      <4>1. NextPhy(g, c) = NextPhy(h, b)
        BY <1>7, <3>1
      <4>2. NextPhy(h, b) \in RowOf(h, p) /\ NextPhy(h, b) # b
        BY <1>1, <2>1, <4>1 DEF Row
      <4> QED BY <1>6, <3>1, <4>1, <4>2
    <3>2. CASE c # a
      <4>1. NextPhy(g, c) = NextPhy(h, c)
        BY <1>7, <2>0, <3>2
      <4>2. NextPhy(h, c) # b
        BY <2>0, <3>2, RowFacts
      <4>3. c # x
        BY <2>0, <3>2, AddrFacts
      <4>4. NextPhy(h, c) \in RowOf(h, p) /\ h.block[NextPhy(h, c)].prevPhy = c
        BY <2>0, <2>1, <4>1, <4>3 DEF Row
      <4> QED BY <1>5, <1>6, <2>0, <4>1, <4>2, <4>4
    <3> QED BY <3>1, <3>2
  <2>2. ASSUME c # p.ptr PROVE \E d \in RowOf(g, p) : NextPhy(g, d) = c
    <3>1. PICK d \in RowOf(h, p) : NextPhy(h, d) = c
      BY <2>0, <2>2 DEF Row
    <3>2. d # a
      BY <2>0, <3>1
    <3>3. CASE d = b
      BY <1>3, <1>6, <1>7, <3>1, <3>3
    <3>4. CASE d # b
      BY <1>6, <1>7, <3>1, <3>2, <3>4
    <3> QED BY <3>3, <3>4
  <2>3. ASSUME NEW d \in RowOf(g, p), c < d PROVE NextPhy(g, c) <= d
    <3>0. d \in RowOf(h, p) /\ d # b /\ d \in Nat
      BY <1>6, <2>0
    <3>1. CASE c = a
      <4>1. b <= d
        BY <2>3, <3>0, <3>1 DEF Row
      <4>2. b < d
        BY <1>1, <3>0, <4>1
      <4>3. NextPhy(h, b) <= d
        BY <3>0, <4>2 DEF Row
      <4> QED BY <1>7, <3>1, <4>3
    <3>2. CASE c # a
      BY <1>7, <2>0, <2>3, <3>0, <3>2 DEF Row
    <3> QED BY <3>1, <3>2
  <2> QED BY <2>1, <2>2, <2>3
<1>10. Row(g, p, a)
  BY <1>8, <1>9 DEF Row
<1> QED BY <1>3, <1>4, <1>6, <1>7, <1>10 DEF g, n

\* The block behind x gets to know it.
LEMMA LinkedRow ==
  ASSUME NEW h \in Heaps, NEW p \in Pools, NEW x, Row(h, p, x), x \in RowOf(h, p), x \in Aligned,
         NEW n, n = NextPhy(h, x)
  PROVE  /\ Inside(p, n) => n \in Addr
         /\ RowOf(Linked(h, p, n, x), p) = RowOf(h, p) /\ Row(Linked(h, p, n, x), p, nullptr)
<1> DEFINE g == Linked(h, p, n, x)
<1>1. /\ Inside(p, n) => n \in RowOf(h, p) /\ n \in Addr
      /\ \A c \in RowOf(h, p) : NextPhy(h, c) = n => c = x
  BY RowFacts DEF RowOf, Heads
<1>2. /\ g \in Heaps
      /\ \A y \in Addr : /\ g.block[y].size = h.block[y].size
                         /\ g.block[y].prevPhy = IF Inside(p, n) /\ y = n THEN x
                                                 ELSE h.block[y].prevPhy
  BY <1>1, LinkedView
<1> HIDE DEF g
<1>3. RowOf(g, p) = RowOf(h, p) /\ RowOf(h, p) \subseteq Addr
  BY <1>2 DEF RowOf, Heads
<1>4. \A a \in RowOf(h, p) : NextPhy(g, a) = NextPhy(h, a)
  BY <1>2, <1>3 DEF NextPhy
<1>5. p.ptr \in RowOf(g, p) /\ g.block[p.ptr].prevPhy = nullptr
  <2>1. n # p.ptr
    <3>1. x \in Heads(h) /\ p.ptr <= x /\ p.ptr \in Nat
      BY PoolFacts DEF RowOf, InPool
    <3>2. n > x + TrueSize /\ x \in Nat /\ TrueSize \in Nat
      BY <3>1, HeadFacts, AddrFacts
    <3> QED BY <3>1, <3>2
  <2> QED BY <1>2, <1>3, <2>1 DEF Row
<1>6. ASSUME NEW a \in RowOf(g, p)
      PROVE  /\ NextPhy(g, a) # p.ptr + p.capacity =>
                  /\ NextPhy(g, a) \in RowOf(g, p)
                  /\ a # nullptr => g.block[NextPhy(g, a)].prevPhy = a
             /\ a # p.ptr => \E c \in RowOf(g, p) : NextPhy(g, c) = a
             /\ \A b \in RowOf(g, p) : a < b => NextPhy(g, a) <= b
  <2>1. ASSUME NextPhy(g, a) # p.ptr + p.capacity
        PROVE  NextPhy(g, a) \in RowOf(g, p) /\ g.block[NextPhy(g, a)].prevPhy = a
    <3>1. NextPhy(g, a) = NextPhy(h, a) /\ NextPhy(h, a) \in RowOf(h, p)
      BY <1>3, <1>4, <2>1 DEF Row
    <3>2. CASE a = x
      <4>1. Inside(p, n)
        BY <3>1, <3>2 DEF RowOf, InPool
      <4> QED BY <1>2, <1>3, <3>1, <3>2, <4>1
    <3>3. CASE a # x
      <4>1. h.block[NextPhy(h, a)].prevPhy = a /\ NextPhy(h, a) # n
        BY <1>1, <1>3, <2>1, <3>1, <3>3 DEF Row
      <4> QED BY <1>2, <1>3, <3>1, <4>1
    <3> QED BY <3>2, <3>3
  <2>2. /\ a # p.ptr => \E c \in RowOf(g, p) : NextPhy(g, c) = a
        /\ \A b \in RowOf(g, p) : a < b => NextPhy(g, a) <= b
    BY <1>3, <1>4 DEF Row
  <2> QED BY <2>1, <2>2
<1> QED BY <1>1, <1>3, <1>5, <1>6 DEF Row, g

\* A block is cut in two: the rest is free and knows the block before it.
CutAt(h, a, m, rest, k) ==
  [h EXCEPT !.block[a].size = m,
            !.block[rest] = [NoHeader EXCEPT !.size = k, !.free = TRUE, !.prevPhy = a]]
Cut(h, a, m) == CutAt(h, a, m, a + TrueSize + m, h.block[a].size - m - TrueSize)

\* g is h with a cut to m and a free block of size k at rest.
IsCut(g, h, a, m, rest, k) ==
  /\ SameLists(g, h)
  /\ g.block[rest].free = TRUE /\ g.block[rest].size = k /\ g.block[rest].prevPhy = a
  /\ \A x \in Addr \ {rest} :
       /\ g.block[x].free = h.block[x].free
       /\ g.block[x].prevPhy = h.block[x].prevPhy
       /\ g.block[x].prevFree = h.block[x].prevFree
       /\ g.block[x].nextFree = h.block[x].nextFree
       /\ g.block[x].size = IF x = a THEN m ELSE h.block[x].size

\* What cutting does, header by header.
LEMMA CutView ==
  ASSUME NEW h \in Heaps, NEW a \in Aligned, NEW m \in Aligned, NEW rest \in Addr, a # rest,
         NEW k \in Aligned
  PROVE  CutAt(h, a, m, rest, k) \in Heaps /\ IsCut(CutAt(h, a, m, rest, k), h, a, m, rest, k)
<1> DEFINE c == h.block[a]
           r == [c EXCEPT !.size = m]
           q1 == [NoHeader EXCEPT !.size = k]
           q2 == [q1 EXCEPT !.free = TRUE]
           q == [q2 EXCEPT !.prevPhy = a]
           h1 == [h EXCEPT !.block[a] = r]
           g == [h1 EXCEPT !.block[rest] = q]
<1>1. c \in Header /\ a \in Addr
  BY AddrFacts DEF Heaps
<1>2. CutAt(h, a, m, rest, k) = g
  BY DEF CutAt
<1> HIDE DEF g
<1>0. q \in Header /\ q.free = TRUE /\ q.size = k /\ q.prevPhy = a
  <2> DEFINE z == NoHeader
  <2>1. z \in Header /\ q1 = [z EXCEPT !.size = k]
    BY NoHeaderFacts
  <2> HIDE DEF z, q1
  <2>2. q1 \in Header /\ q1.size = k
    BY <2>1 DEF Header
  <2>3. q2 \in Header /\ q2.size = k /\ q2.free = TRUE
    BY <2>2 DEF Header
  <2> HIDE DEF q2
  <2>4. q \in Header /\ q.free = TRUE /\ q.size = k /\ q.prevPhy = a
    BY <2>3 DEF Header
  <2> QED BY <2>4
<1> USE DEF g
<1> HIDE DEF q
<1> HIDE DEF c
<1>3. /\ r \in Header /\ r.size = m /\ r.free = c.free /\ r.prevPhy = c.prevPhy
      /\ r.prevFree = c.prevFree /\ r.nextFree = c.nextFree
  BY <1>1 DEF Header
<1> HIDE DEF r
<1>4. /\ h1 \in Heaps /\ \A x \in Addr : h1.block[x] = IF x = a THEN r ELSE h.block[x]
      /\ SameLists(h1, h)
  BY <1>1, <1>3, WriteBlock DEF SameLists
<1> HIDE DEF h1
<1>5. /\ g \in Heaps /\ \A x \in Addr : g.block[x] = IF x = rest THEN q ELSE h1.block[x]
      /\ SameLists(g, h1)
  BY <1>0, <1>4, WriteBlock DEF SameLists
<1> HIDE DEF g
<1>6. SameLists(g, h) /\ g.block[rest] = q
  BY <1>4, <1>5 DEF SameLists
<1>7. ASSUME NEW x \in Addr \ {rest}
      PROVE  /\ g.block[x].free = h.block[x].free /\ g.block[x].prevPhy = h.block[x].prevPhy
             /\ g.block[x].prevFree = h.block[x].prevFree
             /\ g.block[x].nextFree = h.block[x].nextFree
             /\ g.block[x].size = IF x = a THEN m ELSE h.block[x].size
  <2>1. CASE x = a
    <3>1. g.block[x] = r /\ h.block[x] = c
      BY <1>4, <1>5, <2>1 DEF c
    <3> QED BY <1>3, <2>1, <3>1
  <2>2. CASE x # a
    <3>1. g.block[x] = h.block[x]
      BY <1>4, <1>5, <2>2
    <3> QED BY <2>2, <3>1
  <2> QED BY <2>1, <2>2
<1> QED BY <1>0, <1>1, <1>2, <1>5, <1>6, <1>7 DEF IsCut

\* The numbers of a block cut in two: a head of t words at x with s behind it,
\* of which m are kept; the rest has a head of its own, in a pool at q of c.
LEMMA CutNumbers ==
  ASSUME NEW x \in Nat, NEW s \in Nat, NEW t \in Nat, NEW u \in Nat \ {0}, NEW m \in Nat, m > 0,
         NEW q \in Nat, NEW c \in Nat, NEW M \in Nat,
         s >= m + t + u, q <= x, x + t + s <= q + c, q + c <= M
  PROVE  /\ s - m - t \in Nat /\ s - m - t >= u /\ x + t + m \in Nat /\ x < x + t + m
         /\ x + t + m < x + t + s /\ x + t + m < M
         /\ x + t + s = (x + t + m) + t + (s - m - t) /\ s - m - t < M /\ m < M
         /\ x + t + m < q + c /\ q <= x + t + m
OBVIOUS

\* A row with a block cut in two is a row but for the block behind the rest.
LEMMA CutRow ==
  ASSUME NEW h \in Heaps, NEW p \in Pools, Row(h, p, nullptr), NEW a \in RowOf(h, p), a \in Aligned,
         NEW m \in Nat \ {0}, m % MinimiumAllocationSize = 0,
         h.block[a].size >= m + TrueSize + MinimiumAllocationSize,
         NEW rest, rest = a + TrueSize + m
  PROVE  /\ rest \in Aligned /\ rest \notin Heads(h) /\ m \in Aligned
         /\ h.block[a].size - m - TrueSize \in Aligned
         /\ RowOf(Cut(h, a, m), p) = RowOf(h, p) \cup {rest}
         /\ NextPhy(Cut(h, a, m), a) = rest /\ NextPhy(Cut(h, a, m), rest) = NextPhy(h, a)
         /\ Row(Cut(h, a, m), p, rest)
<1> DEFINE k == h.block[a].size - m - TrueSize
           g == Cut(h, a, m)
           U == MinimiumAllocationSize
           next == NextPhy(h, a)
<1>1. /\ a \in Heads(h) /\ a \in Addr /\ a \in Nat /\ h.block[a].size \in Nat \ {0}
      /\ h.block[a].size % U = 0 /\ next = a + TrueSize + h.block[a].size
      /\ TrueSize \in Nat \ {0} /\ TrueSize % U = 0 /\ U \in Nat \ {0} /\ a % U = 0
      /\ p.ptr \in Nat /\ p.capacity \in Nat /\ p.ptr <= a
      /\ next <= p.ptr + p.capacity /\ p.ptr + p.capacity <= MaxAddress /\ MaxAddress \in Nat
  BY HeadFacts, AddrFacts, PoolFacts, RowFacts, SizesAssumption DEF RowOf, InPool
<1>2. /\ k \in Nat /\ k >= U /\ rest \in Nat /\ a < rest /\ rest < next /\ rest < MaxAddress
      /\ next = rest + TrueSize + k /\ k < MaxAddress /\ m < MaxAddress
      /\ Inside(p, rest) /\ p.ptr <= rest
  <2>1. /\ a \in Nat /\ h.block[a].size \in Nat /\ TrueSize \in Nat /\ U \in Nat \ {0}
        /\ p.ptr \in Nat /\ p.capacity \in Nat /\ MaxAddress \in Nat
        /\ h.block[a].size >= m + TrueSize + U /\ p.ptr <= a /\ m \in Nat /\ m > 0
        /\ a + TrueSize + h.block[a].size <= p.ptr + p.capacity
        /\ p.ptr + p.capacity <= MaxAddress
    BY <1>1
  <2>2. rest = a + TrueSize + m /\ next = a + TrueSize + h.block[a].size
    BY <1>1
  <2> HIDE DEF U, next
  <2> QED BY <2>1, <2>2, CutNumbers DEF Inside
<1>3. rest \in Aligned /\ m \in Aligned /\ k \in Aligned /\ rest \in Addr
  <2> DEFINE s == h.block[a].size
             j == TrueSize + m
  <2>1. /\ U \in Nat \ {0} /\ TrueSize \in Nat /\ m \in Nat /\ s \in Nat /\ a \in Nat /\ j \in Nat
        /\ s % U = 0 /\ TrueSize % U = 0 /\ m % U = 0 /\ a % U = 0
        /\ rest = a + j /\ k = s - j /\ j <= s
    BY <1>1
  <2> HIDE DEF k, s, U
  <2>2. j % U = 0
    BY <2>1, MultiplesAdd
  <2> HIDE DEF j
  <2>3. (a + j) % U = 0
    BY <2>1, <2>2, MultiplesAdd
  <2>4. (s - j) % U = 0
    BY <2>1, <2>2, MultiplesAdd
  <2>5. rest % U = 0 /\ k % U = 0
    BY <2>1, <2>3, <2>4
  <2>6. m % U = 0 /\ rest \in Nat /\ k \in Nat /\ rest < MaxAddress /\ k < MaxAddress /\ m < MaxAddress
    BY <1>2, <2>1
  <2> QED BY <2>5, <2>6, AddrFacts DEF U
<1>4. ASSUME NEW c \in RowOf(h, p)
      PROVE  /\ c \in Nat /\ c \in Addr /\ c \in Heads(h) /\ c # rest
             /\ NextPhy(h, c) \in Nat /\ NextPhy(h, c) > c
             /\ c > a => next <= c
             /\ c < a => NextPhy(h, c) <= a
             /\ NextPhy(h, c) # rest
  <2>1. /\ c \in Nat /\ c \in Addr /\ c \in Heads(h)
        /\ NextPhy(h, c) \in Nat /\ NextPhy(h, c) > c + TrueSize
    BY HeadFacts DEF RowOf
  <2>2. (c > a => next <= c) /\ (c < a => NextPhy(h, c) <= a)
    BY <1>1, <2>1 DEF Row
  <2>3. c # rest
    BY <1>1, <1>2, <2>1, <2>2
  <2>4. NextPhy(h, c) # rest
    BY <1>1, <1>2, <2>1, <2>2
  <2> QED BY <1>1, <2>1, <2>2, <2>3, <2>4
<1>5. rest \notin Heads(h)
  BY <1>2, <1>4 DEF RowOf, InPool
<1>12. g = CutAt(h, a, m, rest, k) /\ a # rest
  BY <1>2, <1>1 DEF Cut
<1> HIDE DEF k, next, U, g
<1>6. /\ g \in Heaps
      /\ g.block[rest].size = k /\ g.block[rest].prevPhy = a
      /\ \A x \in Addr \ {rest} :
           /\ g.block[x].prevPhy = h.block[x].prevPhy
           /\ g.block[x].size = IF x = a THEN m ELSE h.block[x].size
  <2>1. a \in Aligned /\ m \in Aligned /\ rest \in Addr /\ k \in Aligned
    BY <1>3
  <2>2. CutAt(h, a, m, rest, k) \in Heaps /\ IsCut(CutAt(h, a, m, rest, k), h, a, m, rest, k)
    BY <1>12, <2>1, CutView
  <2> QED BY <1>12, <2>2 DEF IsCut
<1> HIDE DEF g
<1>7. RowOf(g, p) = RowOf(h, p) \cup {rest}
  <2>1. k # 0 /\ m # 0 /\ h.block[a].size # 0
    BY <1>1, <1>2
  <2>2. InPool(p, rest)
    BY <1>2 DEF InPool
  <2>3. \A x \in Addr \ {rest} : g.block[x].size # 0 <=> h.block[x].size # 0
    BY <1>6, <2>1
  <2> QED BY <1>3, <1>5, <1>6, <2>1, <2>2, <2>3 DEF RowOf, Heads
<1>8. /\ NextPhy(g, a) = rest /\ NextPhy(g, rest) = next
      /\ \A c \in RowOf(h, p) \ {a} : NextPhy(g, c) = NextPhy(h, c)
  BY <1>1, <1>2, <1>4, <1>6 DEF NextPhy
<1>9. p.ptr \in RowOf(g, p) /\ g.block[p.ptr].prevPhy = nullptr
  BY <1>4, <1>6, <1>7 DEF Row
<1>10. ASSUME NEW c \in RowOf(g, p)
       PROVE  /\ NextPhy(g, c) # p.ptr + p.capacity =>
                   /\ NextPhy(g, c) \in RowOf(g, p)
                   /\ c # rest => g.block[NextPhy(g, c)].prevPhy = c
              /\ c # p.ptr => \E d \in RowOf(g, p) : NextPhy(g, d) = c
              /\ \A d \in RowOf(g, p) : c < d => NextPhy(g, c) <= d
  <2>0. nullptr \notin RowOf(h, p)
    BY AddrFacts DEF RowOf, Heads
  <2>1. ASSUME NextPhy(g, c) # p.ptr + p.capacity
        PROVE  NextPhy(g, c) \in RowOf(g, p) /\ (c # rest => g.block[NextPhy(g, c)].prevPhy = c)
    <3>1. CASE c = rest
      <4>1. next # p.ptr + p.capacity
        BY <1>8, <2>1, <3>1
      <4>2. next \in RowOf(h, p)
        BY <4>1 DEF Row, next
      <4> QED BY <1>7, <1>8, <3>1, <4>2
    <3>2. CASE c = a
      BY <1>6, <1>7, <1>8, <3>2
    <3>3. CASE c \in RowOf(h, p) \ {a}
      <4>1. NextPhy(g, c) = NextPhy(h, c)
        BY <1>8, <3>3
      <4>2. NextPhy(h, c) \in RowOf(h, p) /\ h.block[NextPhy(h, c)].prevPhy = c
        BY <2>0, <2>1, <3>3, <4>1 DEF Row
      <4>3. NextPhy(h, c) \in Addr \ {rest}
        BY <1>4, <4>2
      <4> QED BY <1>6, <1>7, <4>1, <4>2, <4>3
    <3> QED BY <1>7, <3>1, <3>2, <3>3
  <2>2. ASSUME c # p.ptr PROVE \E d \in RowOf(g, p) : NextPhy(g, d) = c
    <3>1. CASE c = rest
      BY <1>7, <1>8, <3>1
    <3>2. CASE c \in RowOf(h, p)
      <4>1. PICK d \in RowOf(h, p) : NextPhy(h, d) = c
        BY <2>2, <3>2 DEF Row
      <4>2. CASE d = a
        BY <1>7, <1>8, <4>1, <4>2 DEF next
      <4>3. CASE d # a
        BY <1>7, <1>8, <4>1, <4>3
      <4> QED BY <4>2, <4>3
    <3> QED BY <1>7, <3>1, <3>2
  <2>3. ASSUME NEW d \in RowOf(g, p), c < d PROVE NextPhy(g, c) <= d
    <3>0. MaxAddress \in Nat /\ next \in Nat
      BY <1>1, <1>2 DEF next
    <3>1. CASE c = rest
      <4>1. d \in RowOf(h, p) /\ d > a
        BY <1>1, <1>2, <1>4, <1>7, <2>3, <3>1
      <4> QED BY <1>4, <1>8, <3>1, <4>1
    <3>2. CASE c = a
      <4>1. CASE d = rest
        BY <1>2, <1>8, <3>2, <4>1
      <4>2. CASE d # rest
        <5>1. d \in RowOf(h, p) /\ d > a
          BY <1>1, <1>4, <1>7, <2>3, <3>2, <4>2
        <5>2. next <= d /\ d \in Nat
          BY <1>4, <5>1
        <5> QED BY <1>2, <1>8, <3>0, <3>2, <5>2
      <4> QED BY <4>1, <4>2
    <3>3. CASE c \in RowOf(h, p) \ {a}
      <4>1. NextPhy(g, c) = NextPhy(h, c) /\ c \in Nat /\ NextPhy(h, c) \in Nat
        BY <1>4, <1>8, <3>3
      <4>2. CASE d = rest
        <5>1. c < a
          BY <1>1, <1>2, <1>4, <2>3, <3>0, <3>3, <4>1, <4>2
        <5>2. NextPhy(h, c) <= a
          BY <1>4, <3>3, <5>1
        <5> QED BY <1>1, <1>2, <4>1, <4>2, <5>2
      <4>3. CASE d # rest
        BY <1>7, <2>3, <3>3, <4>1, <4>3 DEF Row
      <4> QED BY <4>2, <4>3
    <3> QED BY <1>7, <3>1, <3>2, <3>3
  <2> QED BY <2>1, <2>2, <2>3
<1>11. Row(g, p, rest)
  BY <1>9, <1>10 DEF Row
<1> QED BY <1>3, <1>5, <1>7, <1>8, <1>11 DEF g, k, next

\* A pool is added as one free block.
NewBlock(h, p) ==
  [h EXCEPT !.block[p.ptr] = [NoHeader EXCEPT !.size = p.capacity - TrueSize, !.free = TRUE]]

\* The one block of a new pool is its row.
LEMMA NewBlockRow ==
  ASSUME NEW h \in Heaps, NEW p \in Pools, RowOf(h, p) = {}
  PROVE  /\ p.ptr \in Aligned /\ p.capacity - TrueSize \in Aligned \ {0}
         /\ NewBlock(h, p) \in Heaps /\ SameLists(NewBlock(h, p), h)
         /\ NewBlock(h, p).block[p.ptr].free = TRUE
         /\ NewBlock(h, p).block[p.ptr].size = p.capacity - TrueSize
         /\ \A x \in Addr \ {p.ptr} : NewBlock(h, p).block[x] = h.block[x]
         /\ RowOf(NewBlock(h, p), p) = {p.ptr} /\ Row(NewBlock(h, p), p, nullptr)
<1> DEFINE n == p.capacity - TrueSize
           q1 == [NoHeader EXCEPT !.size = n]
           q == [q1 EXCEPT !.free = TRUE]
           g == [h EXCEPT !.block[p.ptr] = q]
           U == MinimiumAllocationSize
<1>1. /\ p.ptr \in Nat /\ p.capacity \in Nat /\ p.ptr + p.capacity <= MaxAddress
      /\ p.capacity >= TrueSize + U /\ p.ptr % U = 0 /\ p.capacity % U = 0
      /\ TrueSize \in Nat \ {0} /\ TrueSize % U = 0 /\ U \in Nat \ {0} /\ MaxAddress \in Nat
  BY PoolFacts, SizesAssumption, AddrFacts
<1>2. p.ptr \in Aligned /\ p.ptr \in Addr
  BY <1>1, AddrFacts
<1>3. n \in Aligned \ {0}
  <2>1. n % U = 0
    BY <1>1, MultiplesAdd
  <2>2. n \in Nat /\ n >= U /\ n < MaxAddress /\ U # 0
    BY <1>1
  <2> HIDE DEF n
  <2>3. n \in Aligned
    BY <2>1, <2>2, AddrFacts DEF U
  <2> QED BY <1>1, <2>2, <2>3
<1>4. NewBlock(h, p) = g
  BY DEF NewBlock
<1> HIDE DEF n, g
<1>5. q \in Header /\ q.free = TRUE /\ q.size = n /\ q.prevPhy = nullptr
  <2> DEFINE z == NoHeader
  <2>1. z \in Header /\ q1 = [z EXCEPT !.size = n] /\ z.prevPhy = nullptr
    BY <1>2, NoHeaderFacts
  <2> HIDE DEF z, q1
  <2>2. q1 \in Header /\ q1.size = n /\ q1.prevPhy = nullptr
    BY <1>3, <2>1 DEF Header
  <2> QED BY <2>2 DEF Header
<1> USE DEF n, g
<1> HIDE DEF q
<1>6. /\ g \in Heaps /\ \A x \in Addr : g.block[x] = IF x = p.ptr THEN q ELSE h.block[x]
      /\ SameLists(g, h)
  BY <1>2, <1>5, WriteBlock DEF SameLists
<1> HIDE DEF g
<1>7. RowOf(g, p) = {p.ptr}
  <2>1. p.ptr \in RowOf(g, p)
    BY <1>1, <1>2, <1>3, <1>5, <1>6 DEF RowOf, Heads, InPool, Inside
  <2>2. ASSUME NEW x \in RowOf(g, p), x # p.ptr PROVE FALSE
    <3>1. x \in RowOf(h, p)
      BY <1>6, <2>2 DEF RowOf, Heads
    <3> QED BY <3>1
  <2> QED BY <2>1, <2>2
<1>8. Row(g, p, nullptr)
  <2>1. NextPhy(g, p.ptr) = p.ptr + p.capacity
    BY <1>1, <1>2, <1>5, <1>6 DEF NextPhy
  <2>2. g.block[p.ptr].prevPhy = nullptr
    BY <1>2, <1>5, <1>6
  <2> QED BY <1>1, <1>7, <2>1, <2>2 DEF Row
<1>9. g.block[p.ptr].free = TRUE /\ g.block[p.ptr].size = n
  BY <1>2, <1>5, <1>6
<1>10. \A x \in Addr \ {p.ptr} : g.block[x] = h.block[x]
  BY <1>6
<1> QED BY <1>2, <1>3, <1>4, <1>6, <1>7, <1>8, <1>9, <1>10

(***************************************************************************)
(* A heap that belongs to the pools P, with the blocks F in its lists.     *)
(***************************************************************************)
Used(h) == Heads(h) \ FreeHeads(h)

\* What is not a header is none.
Clean(h) ==
  \A a \in Addr \ Heads(h) :
    /\ h.block[a].free = FALSE /\ h.block[a].prevPhy = nullptr
    /\ h.block[a].prevFree = nullptr /\ h.block[a].nextFree = nullptr

\* A heap of the pools P whose lists hold F, with every row linked but for the block behind x.
Sound(h, P, F, x) ==
  /\ h \in Heaps /\ Clean(h) /\ Listed(h, F)
  /\ \A a \in Heads(h) : a \in Aligned /\ \E p \in P : InPool(p, a)
  /\ \A p \in P : Row(h, p, x)

\* No two neighbours are free.
Merged(h, P) ==
  \A p \in P : \A a \in RowOf(h, p) :
    a \in FreeHeads(h) => NextPhy(h, a) \notin RowOf(h, p) \cap FreeHeads(h)

\* The blocks U have the sizes they had.
SameSizes(g, h, U) == \A c \in U : g.block[c].size = h.block[c].size

\* A change of the lists only.
LEMMA SameRowFacts ==
  ASSUME NEW g \in Heaps, NEW h \in Heaps, SameRow(g, h)
  PROVE  /\ Heads(g) = Heads(h) /\ FreeHeads(g) = FreeHeads(h)
         /\ \A a \in Addr : g.block[a].size = h.block[a].size /\ NextPhy(g, a) = NextPhy(h, a)
         /\ \A p \in Pools : RowOf(g, p) = RowOf(h, p)
<1>1. \A a \in Addr : g.block[a].size = h.block[a].size /\ NextPhy(g, a) = NextPhy(h, a)
  BY DEF SameRow, NextPhy
<1>2. Heads(g) = Heads(h)
  BY <1>1 DEF Heads
<1>3. FreeHeads(g) = FreeHeads(h)
  <2>1. \A a \in Heads(h) : g.block[a].free = h.block[a].free
    BY DEF SameRow, Heads
  <2> QED BY <1>2, <2>1 DEF FreeHeads
<1> QED BY <1>1, <1>2, <1>3 DEF RowOf

\* A heap stays sound when only its lists change and still hold F.
LEMMA SameRowSound ==
  ASSUME NEW g \in Heaps, NEW h, NEW P \in SUBSET Pools, NEW F, NEW x, Sound(h, P, F, x),
         SameRow(g, h), NEW G, G \subseteq Heads(h), SameLinks(g, h, G), NEW K, Listed(g, K)
  PROVE  Sound(g, P, K, x)
<1>1. h \in Heaps /\ Clean(h)
  BY DEF Sound
<1>2. /\ Heads(g) = Heads(h)
      /\ \A p \in Pools : RowOf(g, p) = RowOf(h, p)
  BY <1>1, SameRowFacts
<1>3. Clean(g)
  BY <1>1, <1>2 DEF Clean, SameRow, SameLinks
<1>4. ASSUME NEW p \in P PROVE Row(g, p, x)
  <2>1. Row(h, p, x) /\ p \in Pools
    BY DEF Sound
  <2>2. \A a \in Addr : /\ g.block[a].size = h.block[a].size
                        /\ g.block[a].prevPhy = h.block[a].prevPhy
    BY DEF SameRow
  <2> QED BY <1>1, <2>1, <2>2, RowFrame
<1> QED BY <1>2, <1>3, <1>4 DEF Sound

\* A block leaves the lists.
LEMMA RemoveSound ==
  ASSUME NEW h, NEW P \in SUBSET Pools, NEW F, NEW x, Sound(h, P, F, x), NEW a \in F
  PROVE  /\ RemoveBlock(h, a) \in Heaps /\ SameRow(RemoveBlock(h, a), h)
         /\ Sound(RemoveBlock(h, a), P, F \ {a}, x)
<1> DEFINE l == InsertLevel(h.block[a].size)
           g == RemoveFree(h, a, l)
<1>1. h \in Heaps /\ Listed(h, F) /\ F \subseteq Heads(h)
  BY DEF Sound, Listed
<1> HIDE DEF l
<1>2. g \in Heaps /\ SameRow(g, h) /\ Listed(g, F \ {a}) /\ SameLinks(g, h, F)
  BY <1>1, RemoveListed DEF l
<1> HIDE DEF g
<1>3. Sound(g, P, F \ {a}, x)
  BY <1>1, <1>2, SameRowSound
<1> QED BY <1>2, <1>3 DEF RemoveBlock, g, l

\* A block enters a list.
LEMMA PushSound ==
  ASSUME NEW h, NEW P \in SUBSET Pools, NEW F, NEW x, Sound(h, P, F, x), NEW a \in Heads(h) \ F
  PROVE  /\ Push(h, a) \in Heaps /\ SameRow(Push(h, a), h)
         /\ Sound(Push(h, a), P, F \cup {a}, x)
<1>1. h \in Heaps /\ Listed(h, F) /\ F \subseteq Heads(h) /\ a \in Aligned
  BY DEF Sound, Listed
<1>2. InsertLevel(h.block[a].size) \in Levels
  <2>1. PICK p \in P : InPool(p, a)
    BY DEF Sound
  <2>2. a \in RowOf(h, p) /\ Row(h, p, x) /\ p \in Pools
    BY <2>1 DEF RowOf, Sound
  <2> QED BY <1>1, <2>2, RowFacts
<1>3. /\ Push(h, a) \in Heaps /\ SameRow(Push(h, a), h)
      /\ Listed(Push(h, a), F \cup {a}) /\ SameLinks(Push(h, a), h, F \cup {a})
  BY <1>1, <1>2, PushListed
<1>4. F \cup {a} \subseteq Heads(h)
  BY <1>1
<1>5. Sound(Push(h, a), P, F \cup {a}, x)
  BY <1>3, <1>4, SameRowSound
<1> QED BY <1>3, <1>5

\* A change of the blocks of one pool leaves the others alone.
LEMMA RowElsewhere ==
  ASSUME NEW h \in Heaps, NEW g \in Heaps, NEW p \in Pools, NEW q \in Pools, p # q,
         NEW x, NEW y, Row(h, q, x), x \notin RowOf(h, p) => x = nullptr,
         \A c \in Addr : ~InPool(p, c) => /\ g.block[c].size = h.block[c].size
                                          /\ g.block[c].prevPhy = h.block[c].prevPhy
  PROVE  RowOf(g, q) = RowOf(h, q) /\ Row(g, q, y)
<1>1. \A c \in Addr : InPool(q, c) => ~InPool(p, c)
  BY AddrFacts, PoolsApart
<1>2. x \notin RowOf(h, q)
  BY <1>1, AddrFacts DEF RowOf, Heads
<1> QED BY <1>1, <1>2, RowFrame

\* A block takes in the one behind it.
IsAbsorbed(g, h, a, b) ==
  /\ Heads(g) = Heads(h) \ {b} /\ FreeHeads(g) = FreeHeads(h) \ {b}
  /\ NextPhy(g, a) = NextPhy(h, b) /\ SameSizes(g, h, Addr \ {a, b})

\* A heap stays sound when a block in no list is taken in by the one before it.
LEMMA AbsorbSound ==
  ASSUME NEW h, NEW P \in SUBSET Pools, NEW F, NEW x, Sound(h, P, F, x), NEW p \in P,
         NEW a \in RowOf(h, p), NEW b \in RowOf(h, p), b = NextPhy(h, a), x = nullptr \/ x = a,
         a \notin F, b \notin F
  PROVE  /\ Absorb(h, a, b) \in Heaps /\ a # b /\ IsAbsorbed(Absorb(h, a, b), h, a, b)
         /\ Sound(Absorb(h, a, b), P, F, a)
<1> DEFINE g == Absorb(h, a, b)
           n == h.block[a].size + h.block[b].size + TrueSize
<1>1. /\ h \in Heaps /\ Listed(h, F) /\ F \subseteq Heads(h) /\ Row(h, p, x) /\ p \in Pools
      /\ a \in Heads(h) /\ a \in Addr /\ b \in Heads(h) /\ b \in Addr /\ Clean(h)
      /\ InPool(p, a) /\ InPool(p, b)
  BY DEF Sound, Listed, RowOf, Heads
<1>2. /\ b # a /\ n \in Aligned /\ RowOf(g, p) = RowOf(h, p) \ {b}
      /\ NextPhy(g, a) = NextPhy(h, b) /\ Row(g, p, a)
  BY <1>1, AbsorbRow
<1> HIDE DEF n
<1>3. /\ g \in Heaps /\ SameLists(g, h) /\ g.block[b] = NoHeader
      /\ \A y \in Addr \ {b} :
              /\ g.block[y].free = h.block[y].free
              /\ g.block[y].prevPhy = h.block[y].prevPhy
              /\ g.block[y].prevFree = h.block[y].prevFree
              /\ g.block[y].nextFree = h.block[y].nextFree
              /\ g.block[y].size = IF y = a THEN n ELSE h.block[y].size
  BY <1>1, <1>2, AbsorbView DEF n
<1> HIDE DEF g
<1>4. Heads(g) = Heads(h) \ {b}
  <2>1. g.block[b].size = 0
    BY <1>3 DEF NoHeader
  <2>2. a \in Heads(g)
    BY <1>1, <1>2 DEF RowOf
  <2>3. \A y \in Addr \ {a, b} : g.block[y].size = h.block[y].size
    BY <1>3
  <2> QED BY <1>1, <2>1, <2>2, <2>3 DEF Heads
<1>5. FreeHeads(g) = FreeHeads(h) \ {b}
  <2>1. \A y \in Heads(g) : g.block[y].free = h.block[y].free
    BY <1>3, <1>4 DEF Heads
  <2> QED BY <1>4, <2>1 DEF FreeHeads
<1>6. Clean(g)
  <2>1. ASSUME NEW y \in Addr \ Heads(g)
        PROVE  /\ g.block[y].free = FALSE /\ g.block[y].prevPhy = nullptr
               /\ g.block[y].prevFree = nullptr /\ g.block[y].nextFree = nullptr
    <3>1. CASE y = b
      BY <1>3, <3>1 DEF NoHeader
    <3>2. CASE y # b
      BY <1>1, <1>3, <1>4, <3>2 DEF Clean
    <3> QED BY <3>1, <3>2
  <2> QED BY <2>1 DEF Clean
<1>7. Listed(g, F)
  <2>1. ASSUME NEW y \in F
        PROVE  /\ g.block[y].size = h.block[y].size
               /\ g.block[y].prevFree = h.block[y].prevFree
               /\ g.block[y].nextFree = h.block[y].nextFree
    BY <1>1, <1>3 DEF Heads
  <2> QED BY <1>1, <1>3, <2>1, ListedFrame DEF SameLists
<1>8. ASSUME NEW q \in P PROVE Row(g, q, a)
  <2>1. CASE q = p
    BY <1>2, <2>1
  <2>2. CASE q # p
    <3>1. Row(h, q, x) /\ q \in Pools
      BY DEF Sound
    <3>2. x \notin RowOf(h, p) => x = nullptr
      OBVIOUS
    <3>3. \A c \in Addr : ~InPool(p, c) => /\ g.block[c].size = h.block[c].size
                                           /\ g.block[c].prevPhy = h.block[c].prevPhy
      BY <1>1, <1>3
    <3> QED BY <1>1, <1>3, <2>2, <3>1, <3>2, <3>3, RowElsewhere
  <2> QED BY <2>1, <2>2
<1>9. Sound(g, P, F, a)
  BY <1>3, <1>4, <1>6, <1>7, <1>8 DEF Sound
<1>10. \A c \in Addr \ {a, b} : g.block[c].size = h.block[c].size
  BY <1>3
<1> QED BY <1>2, <1>3, <1>4, <1>5, <1>9, <1>10 DEF g, SameSizes, IsAbsorbed

\* The block behind x gets to know it.
LEMMA LinkedSound ==
  ASSUME NEW h, NEW P \in SUBSET Pools, NEW F, NEW x, Sound(h, P, F, x), NEW p \in P,
         x \in RowOf(h, p)
  PROVE  /\ Linked(h, p, NextPhy(h, x), x) \in Heaps
         /\ Heads(Linked(h, p, NextPhy(h, x), x)) = Heads(h)
         /\ FreeHeads(Linked(h, p, NextPhy(h, x), x)) = FreeHeads(h)
         /\ SameSizes(Linked(h, p, NextPhy(h, x), x), h, Addr)
         /\ Sound(Linked(h, p, NextPhy(h, x), x), P, F, nullptr)
<1> DEFINE n == NextPhy(h, x)
           g == Linked(h, p, n, x)
<1>1. /\ h \in Heaps /\ Listed(h, F) /\ F \subseteq Heads(h) /\ Row(h, p, x) /\ p \in Pools
      /\ x \in Heads(h) /\ x \in Addr /\ x \in Aligned /\ Clean(h) /\ InPool(p, x)
  BY DEF Sound, Listed, RowOf, Heads
<1>2. /\ Inside(p, n) => n \in Addr /\ InPool(p, n) /\ n \in Heads(h)
      /\ RowOf(g, p) = RowOf(h, p) /\ Row(g, p, nullptr)
  <2>1. Inside(p, n) => n \in RowOf(h, p)
    BY <1>1, RowFacts
  <2> QED BY <1>1, <2>1, LinkedRow DEF RowOf, Heads
<1> HIDE DEF n
<1>3. /\ g \in Heaps /\ SameLists(g, h)
      /\ \A y \in Addr :
              /\ g.block[y].free = h.block[y].free
              /\ g.block[y].size = h.block[y].size
              /\ g.block[y].prevFree = h.block[y].prevFree
              /\ g.block[y].nextFree = h.block[y].nextFree
              /\ g.block[y].prevPhy = IF Inside(p, n) /\ y = n THEN x ELSE h.block[y].prevPhy
  BY <1>1, <1>2, LinkedView
<1> HIDE DEF g
<1>4. Heads(g) = Heads(h)
  BY <1>3 DEF Heads
<1>5. FreeHeads(g) = FreeHeads(h)
  <2>1. \A y \in Heads(g) : g.block[y].free = h.block[y].free
    BY <1>3, <1>4 DEF Heads
  <2> QED BY <1>4, <2>1 DEF FreeHeads
<1>6. Clean(g)
  BY <1>1, <1>2, <1>3, <1>4 DEF Clean
<1>7. Listed(g, F)
  <2>1. F \subseteq Addr
    BY <1>1 DEF Heads
  <2>2. \A y \in F : /\ g.block[y].size = h.block[y].size
                     /\ g.block[y].prevFree = h.block[y].prevFree
                     /\ g.block[y].nextFree = h.block[y].nextFree
    BY <1>3, <2>1
  <2> QED BY <1>1, <1>3, <2>2, ListedFrame DEF SameLists
<1>8. ASSUME NEW q \in P PROVE Row(g, q, nullptr)
  <2>1. CASE q = p
    BY <1>2, <2>1
  <2>2. CASE q # p
    <3>1. Row(h, q, x) /\ q \in Pools
      BY DEF Sound
    <3>2. \A c \in Addr : ~InPool(p, c) => /\ g.block[c].size = h.block[c].size
                                           /\ g.block[c].prevPhy = h.block[c].prevPhy
      BY <1>2, <1>3
    <3> QED BY <1>1, <1>3, <2>2, <3>1, <3>2, RowElsewhere
  <2> QED BY <2>1, <2>2
<1>9. Sound(g, P, F, nullptr)
  BY <1>3, <1>4, <1>6, <1>7, <1>8 DEF Sound
<1> QED BY <1>3, <1>4, <1>5, <1>9 DEF g, n, SameSizes

\* The blocks lie where they lay.
SameTiles(g, h) ==
  \A c \in Addr : g.block[c].size = h.block[c].size /\ g.block[c].prevPhy = h.block[c].prevPhy

\* A block that is in no list gets another header of the same size.
Written(h, a, r) == [h EXCEPT !.block[a] = r]

\* A heap stays sound when a block in no list changes all but size and prevPhy.
LEMMA WriteSound ==
  ASSUME NEW h, NEW P \in SUBSET Pools, NEW F, NEW x, Sound(h, P, F, x), NEW a \in Heads(h) \ F,
         NEW r \in Header, r.size = h.block[a].size, r.prevPhy = h.block[a].prevPhy
  PROVE  /\ Written(h, a, r) \in Heaps /\ Heads(Written(h, a, r)) = Heads(h)
         /\ FreeHeads(Written(h, a, r))
              = IF r.free THEN FreeHeads(h) \cup {a} ELSE FreeHeads(h) \ {a}
         /\ SameTiles(Written(h, a, r), h)
         /\ Sound(Written(h, a, r), P, F, x)
<1> DEFINE g == Written(h, a, r)
<1>1. /\ h \in Heaps /\ Listed(h, F) /\ F \subseteq Heads(h) /\ F \subseteq Addr /\ a \in Addr /\ Clean(h)
  BY DEF Sound, Listed, Heads
<1>2. /\ g \in Heaps /\ \A y \in Addr : g.block[y] = IF y = a THEN r ELSE h.block[y]
      /\ SameLists(g, h)
  BY <1>1, WriteBlock DEF SameLists, Written
<1> HIDE DEF g
<1>3. \A y \in Addr : /\ g.block[y].size = h.block[y].size
                      /\ g.block[y].prevPhy = h.block[y].prevPhy
  BY <1>2
<1>4. Heads(g) = Heads(h)
  BY <1>3 DEF Heads
<1>5. FreeHeads(g) = IF r.free THEN FreeHeads(h) \cup {a} ELSE FreeHeads(h) \ {a}
  <2>1. \A y \in Heads(h) : y # a => g.block[y].free = h.block[y].free
    BY <1>2 DEF Heads
  <2>2. g.block[a].free = r.free /\ r.free \in BOOLEAN /\ a \in Heads(h)
    BY <1>1, <1>2 DEF Header
  <2> QED BY <1>4, <2>1, <2>2 DEF FreeHeads
<1>6. Clean(g)
  BY <1>1, <1>2, <1>4 DEF Clean
<1>7. Listed(g, F)
  <2>1. ASSUME NEW y \in F
        PROVE  /\ g.block[y].size = h.block[y].size
               /\ g.block[y].prevFree = h.block[y].prevFree
               /\ g.block[y].nextFree = h.block[y].nextFree
    BY <1>1, <1>2
  <2> QED BY <1>1, <1>2, <2>1, ListedFrame DEF SameLists
<1>8. ASSUME NEW q \in P PROVE Row(g, q, x)
  <2>1. Row(h, q, x) /\ q \in Pools
    BY DEF Sound
  <2> QED BY <1>1, <1>2, <1>3, <2>1, RowFrame
<1>9. Sound(g, P, F, x)
  BY <1>2, <1>4, <1>6, <1>7, <1>8 DEF Sound
<1> QED BY <1>2, <1>3, <1>4, <1>5, <1>9 DEF g, SameTiles

\* A block that is in no list is marked as free.
Marked(h, a) == [h EXCEPT !.block[a].free = TRUE]

\* A heap stays sound when a block in no list is marked as free.
LEMMA MarkSound ==
  ASSUME NEW h, NEW P \in SUBSET Pools, NEW F, NEW x, Sound(h, P, F, x), NEW a \in Heads(h) \ F
  PROVE  /\ Marked(h, a) \in Heaps /\ Heads(Marked(h, a)) = Heads(h)
         /\ FreeHeads(Marked(h, a)) = FreeHeads(h) \cup {a}
         /\ SameTiles(Marked(h, a), h)
         /\ Sound(Marked(h, a), P, F, x)
<1> DEFINE b == h.block[a]
           r == [b EXCEPT !.free = TRUE]
           g == Marked(h, a)
<1>1. b \in Header
  BY DEF Sound, Heaps, Heads
<1>2. g = Written(h, a, r)
  BY DEF Marked, Written
<1> HIDE DEF b, g
<1>3. r \in Header /\ r.size = b.size /\ r.prevPhy = b.prevPhy /\ r.free = TRUE
  BY <1>1 DEF Header
<1> HIDE DEF r
<1>4. r.size = h.block[a].size /\ r.prevPhy = h.block[a].prevPhy
  BY <1>3 DEF b
<1>5. /\ g \in Heaps /\ Heads(g) = Heads(h)
      /\ FreeHeads(g) = IF r.free THEN FreeHeads(h) \cup {a} ELSE FreeHeads(h) \ {a}
      /\ Sound(g, P, F, x)
  BY <1>2, <1>3, <1>4, WriteSound
<1>6. SameTiles(g, h)
  BY <1>2, <1>3, <1>4, WriteSound
<1> QED BY <1>3, <1>5, <1>6 DEF g

\* A block that is in no list is handed out.
Taken(h, a) ==
  [h EXCEPT !.block[a].free = FALSE, !.block[a].prevFree = nullptr, !.block[a].nextFree = nullptr]

\* A heap stays sound when a block in no list is handed out.
LEMMA TakenSound ==
  ASSUME NEW h, NEW P \in SUBSET Pools, NEW F, NEW x, Sound(h, P, F, x), NEW a \in Heads(h) \ F
  PROVE  /\ Taken(h, a) \in Heaps /\ Heads(Taken(h, a)) = Heads(h)
         /\ FreeHeads(Taken(h, a)) = FreeHeads(h) \ {a}
         /\ SameTiles(Taken(h, a), h)
         /\ Sound(Taken(h, a), P, F, x)
<1> DEFINE b == h.block[a]
           r1 == [b EXCEPT !.free = FALSE]
           r2 == [r1 EXCEPT !.prevFree = nullptr]
           r == [r2 EXCEPT !.nextFree = nullptr]
           g == Taken(h, a)
<1>1. b \in Header /\ h \in Heaps /\ a \in Addr
  BY DEF Sound, Heaps, Heads
<1>2. g = Written(h, a, r)
  BY <1>1 DEF Taken, Heaps, Written
<1> HIDE DEF b, g
<1>3. r1 \in Header /\ r1.size = b.size /\ r1.prevPhy = b.prevPhy /\ r1.free = FALSE
  BY <1>1 DEF Header
<1> HIDE DEF r1
<1>4. r2 \in Header /\ r2.size = b.size /\ r2.prevPhy = b.prevPhy /\ r2.free = FALSE
  BY <1>3 DEF Header
<1> HIDE DEF r2
<1>5. r \in Header /\ r.size = b.size /\ r.prevPhy = b.prevPhy /\ r.free = FALSE
  BY <1>4 DEF Header
<1> HIDE DEF r
<1>6. r.size = h.block[a].size /\ r.prevPhy = h.block[a].prevPhy
  BY <1>5 DEF b
<1>7. /\ g \in Heaps /\ Heads(g) = Heads(h)
      /\ FreeHeads(g) = IF r.free THEN FreeHeads(h) \cup {a} ELSE FreeHeads(h) \ {a}
      /\ SameTiles(g, h)
      /\ Sound(g, P, F, x)
  BY <1>2, <1>5, <1>6, WriteSound
<1> QED BY <1>5, <1>7 DEF g

\* Block a can be cut to m, and where the rest begins then.
Fits(h, a, m) ==
  /\ m \in Nat \ {0} /\ m % MinimiumAllocationSize = 0
  /\ h.block[a].size >= m + TrueSize + MinimiumAllocationSize
RestOf(a, m) == a + TrueSize + m

\* A block that is in no list is cut in two, and the rest is free.
LEMMA CutSound ==
  ASSUME NEW h, NEW P \in SUBSET Pools, NEW F, Sound(h, P, F, nullptr), NEW p \in P,
         NEW a \in RowOf(h, p), a \notin F, NEW m, Fits(h, a, m), NEW rest, rest = RestOf(a, m)
  PROVE  /\ Cut(h, a, m) \in Heaps /\ rest \in Aligned /\ rest \notin Heads(h)
         /\ Heads(Cut(h, a, m)) = Heads(h) \cup {rest} /\ rest \in RowOf(Cut(h, a, m), p)
         /\ FreeHeads(Cut(h, a, m)) = FreeHeads(h) \cup {rest}
         /\ NextPhy(Cut(h, a, m), a) = rest /\ NextPhy(Cut(h, a, m), rest) = NextPhy(h, a)
         /\ Cut(h, a, m).block[a].size = m
         /\ SameSizes(Cut(h, a, m), h, Addr \ {a, rest})
         /\ Sound(Cut(h, a, m), P, F, rest)
<1> DEFINE k == h.block[a].size - m - TrueSize
           g == Cut(h, a, m)
<1>1. /\ h \in Heaps /\ Listed(h, F) /\ F \subseteq Heads(h) /\ Row(h, p, nullptr) /\ p \in Pools
      /\ a \in Heads(h) /\ a \in Addr /\ a \in Aligned /\ Clean(h) /\ InPool(p, a)
      /\ Heads(h) \subseteq Addr
  BY DEF Sound, Listed, RowOf, Heads
<1>2. /\ rest \in Aligned /\ rest \notin Heads(h) /\ m \in Aligned /\ k \in Aligned
      /\ RowOf(g, p) = RowOf(h, p) \cup {rest}
      /\ NextPhy(g, a) = rest /\ NextPhy(g, rest) = NextPhy(h, a)
      /\ Row(g, p, rest)
  BY <1>1, CutRow DEF Fits, RestOf
<1>3. g = CutAt(h, a, m, rest, k) /\ a # rest /\ rest \in Addr
  BY <1>1, <1>2, AddrFacts DEF Cut, RestOf
<1> HIDE DEF k, g
<1>4. g \in Heaps /\ IsCut(g, h, a, m, rest, k)
  BY <1>1, <1>2, <1>3, CutView
<1>5. Heads(g) = Heads(h) \cup {rest}
  <2>1. rest \in Heads(g)
    BY <1>2 DEF RowOf
  <2>0. m # 0
    BY DEF Fits
  <2>2. a \in Heads(g) /\ g.block[a].size = m
    BY <1>1, <1>3, <1>4, <2>0 DEF Heads, IsCut
  <2>3. \A y \in Addr \ {a, rest} : g.block[y].size = h.block[y].size
    BY <1>4 DEF IsCut
  <2> QED BY <1>1, <1>2, <2>1, <2>2, <2>3 DEF Heads
<1>6. FreeHeads(g) = FreeHeads(h) \cup {rest}
  <2>1. \A y \in Heads(h) : g.block[y].free = h.block[y].free
    BY <1>1, <1>2, <1>4 DEF IsCut
  <2>2. g.block[rest].free = TRUE
    BY <1>4 DEF IsCut
  <2> QED BY <1>5, <2>1, <2>2 DEF FreeHeads
<1>7. Clean(g)
  BY <1>1, <1>4, <1>5 DEF Clean, IsCut
<1>8. Listed(g, F)
  <2>1. ASSUME NEW y \in F
        PROVE  /\ g.block[y].size = h.block[y].size
               /\ g.block[y].prevFree = h.block[y].prevFree
               /\ g.block[y].nextFree = h.block[y].nextFree
    <3>1. y \in Addr \ {rest} /\ y # a
      BY <1>1, <1>2
    <3> QED BY <1>4, <3>1 DEF IsCut
  <2> QED BY <1>1, <1>4, <2>1, ListedFrame DEF SameLists, IsCut
<1>9. InPool(p, rest) /\ rest \in RowOf(g, p)
  BY <1>2 DEF RowOf
<1>10. ASSUME NEW q \in P PROVE Row(g, q, rest)
  <2>1. CASE q = p
    BY <1>2, <2>1
  <2>2. CASE q # p
    <3>1. Row(h, q, nullptr) /\ q \in Pools
      BY DEF Sound
    <3>2. \A c \in Addr : ~InPool(p, c) => /\ g.block[c].size = h.block[c].size
                                           /\ g.block[c].prevPhy = h.block[c].prevPhy
      BY <1>1, <1>4, <1>9 DEF IsCut
    <3> QED BY <1>1, <1>4, <2>2, <3>1, <3>2, RowElsewhere
  <2> QED BY <2>1, <2>2
<1>11. Sound(g, P, F, rest)
  <2>1. \A y \in Heads(g) : y \in Aligned /\ \E q \in P : InPool(q, y)
    BY <1>2, <1>5, <1>9 DEF Sound
  <2> QED BY <1>4, <1>7, <1>8, <1>10, <2>1 DEF Sound
<1>12. g.block[a].size = m /\ \A c \in Addr \ {a, rest} : g.block[c].size = h.block[c].size
  BY <1>1, <1>3, <1>4 DEF IsCut
<1> QED BY <1>2, <1>4, <1>5, <1>6, <1>9, <1>11, <1>12 DEF g, SameSizes

\* A pool is added to the heap.
LEMMA NewBlockSound ==
  ASSUME NEW h, NEW P \in SUBSET Pools, NEW F, Sound(h, P, F, nullptr), NEW p \in Pools \ P
  PROVE  /\ NewBlock(h, p) \in Heaps /\ p.ptr \notin Heads(h)
         /\ Heads(NewBlock(h, p)) = Heads(h) \cup {p.ptr}
         /\ FreeHeads(NewBlock(h, p)) = FreeHeads(h) \cup {p.ptr}
         /\ SameSizes(NewBlock(h, p), h, Addr \ {p.ptr})
         /\ RowOf(NewBlock(h, p), p) = {p.ptr}
         /\ Sound(NewBlock(h, p), P \cup {p}, F, nullptr)
<1> DEFINE g == NewBlock(h, p)
<1>1. /\ h \in Heaps /\ Listed(h, F) /\ F \subseteq Heads(h) /\ Clean(h)
      /\ Heads(h) \subseteq Addr
  BY DEF Sound, Listed, Heads
<1>2. RowOf(h, p) = {}
  <2>1. ASSUME NEW a \in RowOf(h, p) PROVE FALSE
    <3>1. a \in Heads(h) /\ InPool(p, a) /\ a \in Nat
      BY <1>1, AddrFacts DEF RowOf
    <3>2. PICK q \in P : InPool(q, a)
      BY <3>1 DEF Sound
    <3> QED BY <3>1, <3>2, PoolsApart
  <2> QED BY <2>1
<1>3. /\ p.ptr \in Aligned /\ p.capacity - TrueSize \in Aligned \ {0}
      /\ g \in Heaps /\ SameLists(g, h)
      /\ g.block[p.ptr].free = TRUE
      /\ g.block[p.ptr].size = p.capacity - TrueSize
      /\ \A x \in Addr \ {p.ptr} : g.block[x] = h.block[x]
      /\ RowOf(g, p) = {p.ptr} /\ Row(g, p, nullptr)
  BY <1>1, <1>2, NewBlockRow
<1> HIDE DEF g
<1>4. p.ptr \in Addr /\ InPool(p, p.ptr) /\ p.ptr \notin Heads(h)
  BY <1>2, <1>3, AddrFacts DEF RowOf
<1>5. Heads(g) = Heads(h) \cup {p.ptr}
  BY <1>3, <1>4 DEF Heads
<1>6. FreeHeads(g) = FreeHeads(h) \cup {p.ptr}
  <2>1. \A y \in Heads(h) : g.block[y].free = h.block[y].free
    BY <1>1, <1>3, <1>4
  <2> QED BY <1>3, <1>5, <2>1 DEF FreeHeads
<1>7. Clean(g)
  BY <1>1, <1>3, <1>5 DEF Clean
<1>8. Listed(g, F)
  <2>1. ASSUME NEW y \in F
        PROVE  /\ g.block[y].size = h.block[y].size
               /\ g.block[y].prevFree = h.block[y].prevFree
               /\ g.block[y].nextFree = h.block[y].nextFree
    BY <1>1, <1>3, <1>4
  <2> QED BY <1>1, <1>3, <2>1, ListedFrame DEF SameLists
<1>9. ASSUME NEW q \in P \cup {p} PROVE Row(g, q, nullptr)
  <2>1. CASE q = p
    BY <1>3, <2>1
  <2>2. CASE q # p
    <3>1. Row(h, q, nullptr) /\ q \in Pools
      BY <2>2 DEF Sound
    <3>2. \A c \in Addr : ~InPool(p, c) => /\ g.block[c].size = h.block[c].size
                                           /\ g.block[c].prevPhy = h.block[c].prevPhy
      BY <1>3, <1>4
    <3> QED BY <1>1, <1>3, <2>2, <3>1, <3>2, RowElsewhere
  <2> QED BY <2>1, <2>2
<1>10. \A y \in Heads(g) : y \in Aligned /\ \E q \in P \cup {p} : InPool(q, y)
  BY <1>3, <1>4, <1>5 DEF Sound
<1>11. Sound(g, P \cup {p}, F, nullptr)
  BY <1>3, <1>7, <1>8, <1>9, <1>10 DEF Sound
<1>12. \A c \in Addr \ {p.ptr} : g.block[c].size = h.block[c].size
  BY <1>3
<1> QED BY <1>3, <1>4, <1>5, <1>6, <1>11, <1>12 DEF g, SameSizes

(***************************************************************************)
(* What the operations do to a heap.                                       *)
(***************************************************************************)
\* Only x may have a free block behind it when it is free itself.
MergedBut(h, P, x) ==
  \A p \in P : \A a \in RowOf(h, p) \ {x} :
    a \in FreeHeads(h) => NextPhy(h, a) \notin RowOf(h, p) \cap FreeHeads(h)

\* A heap between two calls: sound, with all free blocks in the lists, and merged.
Good(h, P) == Sound(h, P, FreeHeads(h), nullptr) /\ Merged(h, P)

\* Fewer blocks are free, or the same.
LEMMA MergedFrame ==
  ASSUME NEW g \in Heaps, NEW h \in Heaps, NEW P \in SUBSET Pools, NEW x, MergedBut(h, P, x),
         Heads(g) = Heads(h), FreeHeads(g) \subseteq FreeHeads(h), SameSizes(g, h, Addr)
  PROVE  MergedBut(g, P, x)
<1>1. \A p \in P : RowOf(g, p) = RowOf(h, p)
  BY DEF RowOf
<1>2. \A p \in P : \A a \in RowOf(h, p) : NextPhy(g, a) = NextPhy(h, a)
  BY DEF RowOf, Heads, NextPhy, SameSizes
<1> QED BY <1>1, <1>2 DEF MergedBut

\* nullptr is no block, so there is no exception.
LEMMA MergedAll ==
  ASSUME NEW h \in Heaps, NEW P
  PROVE  Merged(h, P) <=> MergedBut(h, P, nullptr)
<1>1. \A p \in P : nullptr \notin RowOf(h, p)
  BY AddrFacts DEF RowOf, Heads
<1> QED BY <1>1 DEF Merged, MergedBut

\* The block before another in its pool.
LEMMA PrevFacts ==
  ASSUME NEW h \in Heaps, NEW p \in Pools, Row(h, p, nullptr), NEW a \in RowOf(h, p)
  PROVE  /\ a = p.ptr <=> h.block[a].prevPhy = nullptr
         /\ a # p.ptr => /\ h.block[a].prevPhy \in RowOf(h, p)
                         /\ NextPhy(h, h.block[a].prevPhy) = a
         /\ \A c \in RowOf(h, p) : NextPhy(h, c) = a => h.block[a].prevPhy = c
<1>1. \A c \in RowOf(h, p) : c \in Addr /\ c # nullptr
  BY AddrFacts DEF RowOf, Heads
<1>2. a # p.ptr + p.capacity
  BY <1>1, AddrFacts, PoolFacts DEF RowOf, InPool, Inside
<1>3. \A c \in RowOf(h, p) : NextPhy(h, c) = a => h.block[a].prevPhy = c
  BY <1>1, <1>2 DEF Row
<1>4. a # p.ptr => /\ h.block[a].prevPhy \in RowOf(h, p)
                   /\ NextPhy(h, h.block[a].prevPhy) = a
  BY <1>3 DEF Row
<1>5. a = p.ptr => h.block[a].prevPhy = nullptr
  BY DEF Row
<1> QED BY <1>1, <1>3, <1>4, <1>5

\* The head of a list is taken from it.
LEMMA PopSound ==
  ASSUME NEW h, NEW P \in SUBSET Pools, NEW F, Sound(h, P, F, nullptr),
         NEW l \in Levels, NEW a, a = h.head[l], a # nullptr
  PROVE  /\ a \in F /\ InsertLevel(h.block[a].size) = l
         /\ PopHead(h, l) = RemoveBlock(h, a)
         /\ RemoveFree(PopHead(h, l), a, l) = RemoveBlock(h, a)
<1>1. h \in Heaps /\ Listed(h, F)
  BY DEF Sound
<1>2. a \in F /\ InsertLevel(h.block[a].size) = l
  BY <1>1, ListedFacts
<1>3. PopHead(h, l) = RemoveFree(h, a, l) /\ RemoveFree(PopHead(h, l), a, l) = PopHead(h, l)
  BY <1>1, PopTwice
<1> QED BY <1>2, <1>3 DEF RemoveBlock

\* Taking a listed block out and handing it out leaves a good heap.
LEMMA TakeGood ==
  ASSUME NEW h, NEW P \in SUBSET Pools, Good(h, P), NEW l \in Levels,
         NEW a, a = h.head[l], a # nullptr
  PROVE  /\ a \in FreeHeads(h) /\ InsertLevel(h.block[a].size) = l
         /\ Good(Taken(PopHead(h, l), a), P)
         /\ Used(Taken(PopHead(h, l), a)) = Used(h) \cup {a}
         /\ SameSizes(Taken(PopHead(h, l), a), h, Addr)
<1> DEFINE F == FreeHeads(h)
           g == RemoveBlock(h, a)
           t == Taken(g, a)
<1>1. /\ Sound(h, P, F, nullptr) /\ Merged(h, P) /\ h \in Heaps /\ a \in F /\ a \in Heads(h)
      /\ InsertLevel(h.block[a].size) = l /\ PopHead(h, l) = g
  <2>1. Sound(h, P, F, nullptr) /\ Merged(h, P) /\ h \in Heaps /\ F \subseteq Heads(h)
    BY DEF Good, FreeHeads, Sound
  <2> HIDE DEF F
  <2> QED BY <2>1, PopSound
<1>2. g \in Heaps /\ SameRow(g, h) /\ Sound(g, P, F \ {a}, nullptr)
  BY <1>1, RemoveSound
<1> HIDE DEF g, F
<1>3. Heads(g) = Heads(h) /\ FreeHeads(g) = F /\ SameSizes(g, h, Addr)
  BY <1>1, <1>2, SameRowFacts DEF SameSizes, F
<1>4. a \in Heads(g) \ (F \ {a})
  BY <1>1, <1>3
<1>5. /\ t \in Heaps /\ Heads(t) = Heads(g) /\ FreeHeads(t) = FreeHeads(g) \ {a}
      /\ SameTiles(t, g) /\ Sound(t, P, F \ {a}, nullptr)
  <2> DEFINE G == F \ {a}
  <2>1. Sound(g, P, G, nullptr) /\ a \in Heads(g) \ G
    BY <1>2, <1>4
  <2> HIDE DEF G
  <2>2. /\ t \in Heaps /\ Heads(t) = Heads(g) /\ FreeHeads(t) = FreeHeads(g) \ {a}
        /\ SameTiles(t, g) /\ Sound(t, P, G, nullptr)
    BY <2>1, TakenSound
  <2> QED BY <2>2 DEF G
<1> HIDE DEF t
<1>6. Heads(t) = Heads(h) /\ FreeHeads(t) = F \ {a} /\ SameSizes(t, h, Addr)
  BY <1>3, <1>5 DEF SameTiles, SameSizes
<1>7. Merged(t, P)
  BY <1>1, <1>5, <1>6, MergedFrame, MergedAll DEF F
<1>8. Used(t) = Used(h) \cup {a}
  BY <1>1, <1>6 DEF Used, F
<1>9. Good(t, P)
  BY <1>5, <1>6, <1>7 DEF Good
<1> QED BY <1>1, <1>6, <1>8, <1>9 DEF t, F

\* Adding a pool leaves a good heap.
LEMMA AddGood ==
  ASSUME NEW h, NEW P \in SUBSET Pools, Good(h, P), NEW p \in Pools \ P
  PROVE  /\ Good(Push(NewBlock(h, p), p.ptr), P \cup {p})
         /\ Used(Push(NewBlock(h, p), p.ptr)) = Used(h)
         /\ SameSizes(Push(NewBlock(h, p), p.ptr), h, Used(h))
<1> DEFINE F == FreeHeads(h)
           b == NewBlock(h, p)
           g == Push(b, p.ptr)
           Q == P \cup {p}
<1>1. /\ Sound(h, P, F, nullptr) /\ Merged(h, P) /\ h \in Heaps /\ Heads(h) \subseteq Addr
      /\ Q \in SUBSET Pools /\ F \subseteq Heads(h)
  BY DEF Good, Sound, FreeHeads, Heads
<1> HIDE DEF F
<1>2. /\ b \in Heaps /\ p.ptr \notin Heads(h)
      /\ Heads(b) = Heads(h) \cup {p.ptr} /\ FreeHeads(b) = F \cup {p.ptr}
      /\ SameSizes(b, h, Addr \ {p.ptr})
      /\ RowOf(b, p) = {p.ptr} /\ Sound(b, Q, F, nullptr)
  <2>1. /\ b \in Heaps /\ p.ptr \notin Heads(h) /\ Heads(b) = Heads(h) \cup {p.ptr}
        /\ FreeHeads(b) = FreeHeads(h) \cup {p.ptr} /\ RowOf(b, p) = {p.ptr}
        /\ SameSizes(b, h, Addr \ {p.ptr})
    BY <1>1, NewBlockSound
  <2>2. Sound(b, Q, F, nullptr)
    BY <1>1, NewBlockSound
  <2> QED BY <2>1, <2>2 DEF F
<1> HIDE DEF b, Q
<1>3. p.ptr \in Heads(b) \ F
  BY <1>1, <1>2
<1>4. g \in Heaps /\ SameRow(g, b) /\ Sound(g, Q, F \cup {p.ptr}, nullptr)
  BY <1>1, <1>2, <1>3, PushSound
<1> HIDE DEF g
<1>5. Heads(g) = Heads(b) /\ FreeHeads(g) = F \cup {p.ptr} /\ SameSizes(g, b, Addr)
  BY <1>2, <1>4, SameRowFacts DEF SameSizes
<1>6. ASSUME NEW q \in Q, NEW a \in RowOf(b, q) \ {nullptr}, a \in FreeHeads(b)
      PROVE  NextPhy(b, a) \notin RowOf(b, q) \cap FreeHeads(b)
  <2>1. CASE q = p
    <3>1. a = p.ptr /\ RowOf(b, q) = {p.ptr}
      BY <1>2, <2>1
    <3>2. a \in Heads(b)
      BY <1>3, <3>1
    <3>3. NextPhy(b, a) > a + TrueSize /\ a \in Nat /\ NextPhy(b, a) \in Nat
      BY <1>2, <3>2, HeadFacts
    <3> QED BY <3>1, <3>3, AddrFacts
  <2>2. CASE q # p
    <3>1. q \in P /\ p \in Pools /\ q \in Pools
      BY <2>2 DEF Q
    <3>2. \A c \in Addr : InPool(q, c) => c # p.ptr
      <4>1. p.ptr \in RowOf(b, p)
        BY <1>2
      <4>2. p.ptr \in Nat /\ InPool(p, p.ptr)
        BY <4>1, PoolFacts DEF RowOf
      <4> QED BY <2>2, <3>1, <4>2, PoolsApart, AddrFacts
    <3>3. RowOf(b, q) = RowOf(h, q) /\ RowOf(h, q) \subseteq Addr \ {p.ptr}
      <4>1. ~InPool(q, p.ptr)
        <5>1. p.ptr \in Addr
          BY <1>2 DEF RowOf, Heads
        <5> QED BY <3>2, <5>1
      <4> QED BY <1>1, <1>2, <4>1 DEF RowOf
    <3>4. NextPhy(b, a) = NextPhy(h, a) /\ a \in F /\ a \in RowOf(h, q)
      BY <1>2, <1>6, <3>3 DEF NextPhy, SameSizes
    <3>5. NextPhy(h, a) \notin RowOf(h, q) \cap F
      BY <1>1, <3>1, <3>4 DEF Merged, F
    <3> QED BY <1>2, <3>3, <3>4, <3>5
  <2> QED BY <2>1, <2>2
<1>7. Merged(g, Q)
  <2>1. MergedBut(b, Q, nullptr)
    BY <1>6 DEF MergedBut
  <2>2. FreeHeads(g) \subseteq FreeHeads(b) /\ Q \in SUBSET Pools
    BY <1>1, <1>2, <1>5
  <2> QED BY <1>2, <1>4, <1>5, <2>1, <2>2, MergedFrame, MergedAll
<1>8. Used(g) = Used(h)
  BY <1>1, <1>2, <1>5 DEF Used, F
<1>9. SameSizes(g, h, Used(h))
  BY <1>1, <1>2, <1>5 DEF Used, SameSizes
<1>10. Good(g, Q)
  BY <1>4, <1>5, <1>7 DEF Good
<1> QED BY <1>8, <1>9, <1>10 DEF g, b, Q

\* A block that is in no list is cut in two, and the rest is put into a list.
Carved(h, p, a, m) ==
  Push(Linked(Cut(h, a, m), p, NextPhy(h, a), RestOf(a, m)), RestOf(a, m))

\* g is h with the rest of a as another free block.
IsCarved(g, h, p, a, m) ==
  /\ RestOf(a, m) \notin Heads(h) /\ InPool(p, RestOf(a, m))
  /\ Heads(g) = Heads(h) \cup {RestOf(a, m)}
  /\ FreeHeads(g) = FreeHeads(h) \cup {RestOf(a, m)}
  /\ NextPhy(g, a) = RestOf(a, m) /\ NextPhy(g, RestOf(a, m)) = NextPhy(h, a)
  /\ g.block[a].size = m /\ SameSizes(g, h, Addr \ {a, RestOf(a, m)})

\* Cutting a block in two and listing the rest leaves a sound heap.
LEMMA CarveSound ==
  ASSUME NEW h, NEW P \in SUBSET Pools, NEW F, Sound(h, P, F, nullptr), NEW p \in P,
         NEW a \in RowOf(h, p), a \notin F, NEW m, Fits(h, a, m)
  PROVE  /\ Carved(h, p, a, m) \in Heaps /\ IsCarved(Carved(h, p, a, m), h, p, a, m)
         /\ Sound(Carved(h, p, a, m), P, F \cup {RestOf(a, m)}, nullptr)
<1> DEFINE rest == RestOf(a, m)
           c == Cut(h, a, m)
           d == Linked(c, p, NextPhy(h, a), rest)
           g == Push(d, rest)
<1>1. /\ c \in Heaps /\ rest \in Aligned /\ rest \notin Heads(h)
      /\ Heads(c) = Heads(h) \cup {rest} /\ rest \in RowOf(c, p)
      /\ FreeHeads(c) = FreeHeads(h) \cup {rest}
      /\ NextPhy(c, a) = rest /\ NextPhy(c, rest) = NextPhy(h, a)
      /\ c.block[a].size = m /\ SameSizes(c, h, Addr \ {a, rest}) /\ Sound(c, P, F, rest)
  BY CutSound
<1>2. Carved(h, p, a, m) = g
  BY DEF Carved
<1>3. d = Linked(c, p, NextPhy(c, rest), rest)
  BY <1>1
<1>4. rest \in Addr /\ a \in Addr /\ F \subseteq Heads(h)
  BY <1>1, AddrFacts DEF RowOf, Heads, Sound, Listed
<1> HIDE DEF c, d, rest
<1>5. /\ d \in Heaps /\ Heads(d) = Heads(c) /\ FreeHeads(d) = FreeHeads(c)
      /\ SameSizes(d, c, Addr) /\ Sound(d, P, F, nullptr)
  BY <1>1, <1>3, LinkedSound
<1>6. rest \in Heads(d) \ F
  BY <1>1, <1>4, <1>5
<1>7. g \in Heaps /\ SameRow(g, d) /\ Sound(g, P, F \cup {rest}, nullptr)
  BY <1>5, <1>6, PushSound
<1> HIDE DEF g
<1>8. /\ Heads(g) = Heads(d) /\ FreeHeads(g) = FreeHeads(d)
      /\ SameSizes(g, d, Addr)
  BY <1>5, <1>7, SameRowFacts DEF SameSizes
<1>9. SameSizes(g, c, Addr)
  BY <1>5, <1>8 DEF SameSizes
<1>10. /\ NextPhy(g, a) = rest /\ NextPhy(g, rest) = NextPhy(h, a)
       /\ g.block[a].size = m /\ SameSizes(g, h, Addr \ {a, rest})
  BY <1>1, <1>4, <1>9 DEF NextPhy, SameSizes
<1>11. IsCarved(g, h, p, a, m)
  BY <1>1, <1>5, <1>8, <1>10 DEF RowOf, IsCarved, rest
<1> QED BY <1>2, <1>7, <1>11 DEF g, d, c, rest

\* Block a has room for m.
HasRoom(h, a, m) ==
  m \in Nat \ {0} /\ m % MinimiumAllocationSize = 0 /\ m <= h.block[a].size

\* The head of a list is cut to size and taken.
LEMMA SplitGood ==
  ASSUME NEW h, NEW P \in SUBSET Pools, Good(h, P), NEW l \in Levels,
         NEW a, a = h.head[l], a # nullptr, NEW p \in P, InPool(p, a),
         NEW m, HasRoom(h, a, m)
  PROVE  /\ Good(Taken(Split(h, p, l, m), a), P)
         /\ Used(Taken(Split(h, p, l, m), a)) = Used(h) \cup {a}
         /\ SameSizes(Taken(Split(h, p, l, m), a), h, Used(h))
         /\ Taken(Split(h, p, l, m), a).block[a].size >= m
<1> DEFINE F == FreeHeads(h)
           h1 == RemoveBlock(h, a)
           s == Split(h, p, l, m)
           t == Taken(s, a)
           rest == RestOf(a, m)
           next == NextPhy(h1, a)
<1>1. /\ Sound(h, P, F, nullptr) /\ Merged(h, P) /\ h \in Heaps /\ F \subseteq Heads(h)
      /\ Heads(h) \subseteq Addr /\ Heads(h) \subseteq Nat
  BY AddrFacts DEF Good, FreeHeads, Sound, Heads
<1>2. /\ a \in F /\ a \in Heads(h) /\ a \in Addr /\ a \in Nat /\ a \in RowOf(h, p)
      /\ RemoveFree(PopHead(h, l), a, l) = h1 /\ PopHead(h, l) = h1
  <2> HIDE DEF F, h1
  <2>1. a \in F /\ RemoveFree(PopHead(h, l), a, l) = h1 /\ PopHead(h, l) = h1
    BY <1>1, PopSound DEF h1
  <2> QED BY <1>1, <2>1 DEF RowOf
<1>3. s = IF h1.block[a].size < m + TrueSize + MinimiumAllocationSize THEN h1
          ELSE Carved(h1, p, a, m)
  <2>1. s = LET g == RemoveFree(PopHead(h, l), a, l)
            IN  IF g.block[a].size < m + TrueSize + MinimiumAllocationSize THEN g
                ELSE Carved(g, p, a, m)
    BY DEF Split, Cut, CutAt, Carved, RestOf
  <2> QED BY <1>2, <2>1
<1> HIDE DEF s
<1>4. h1 \in Heaps /\ SameRow(h1, h) /\ Sound(h1, P, F \ {a}, nullptr)
  BY <1>1, <1>2, RemoveSound
<1> HIDE DEF h1, F
<1>5. /\ Heads(h1) = Heads(h) /\ FreeHeads(h1) = F /\ SameSizes(h1, h, Addr)
      /\ RowOf(h1, p) = RowOf(h, p) /\ next = NextPhy(h, a)
  BY <1>1, <1>2, <1>4, SameRowFacts DEF SameSizes, F
<1>6. CASE h1.block[a].size < m + TrueSize + MinimiumAllocationSize
  <2> HIDE DEF t
  <2>1. t = Taken(PopHead(h, l), a)
    BY <1>2, <1>3, <1>6 DEF t
  <2>2. /\ Good(t, P) /\ Used(t) = Used(h) \cup {a} /\ SameSizes(t, h, Addr)
    BY <2>1, TakeGood
  <2>3. SameSizes(t, h, Used(h)) /\ t.block[a].size >= m
    BY <1>1, <1>2, <2>2, HeadFacts DEF SameSizes, Used, HasRoom
  <2> QED BY <2>2, <2>3 DEF t, s
<1>7. CASE ~(h1.block[a].size < m + TrueSize + MinimiumAllocationSize)
  <2>1. /\ Fits(h1, a, m)
        /\ a \in RowOf(h1, p) /\ a \notin F \ {a} /\ s = Carved(h1, p, a, m)
    <3>1. /\ h1.block[a].size \in Nat /\ TrueSize \in Nat /\ MinimiumAllocationSize \in Nat
      BY <1>2, <1>4, <1>5, HeadFacts, AddrFacts, ClassConstants
    <3> QED BY <1>2, <1>3, <1>5, <1>7, <3>1 DEF Fits, HasRoom
  <2> DEFINE G == F \ {a}
  <2> HIDE DEF G, rest
  <2>2. /\ s \in Heaps /\ rest \notin Heads(h1) /\ InPool(p, rest)
        /\ Heads(s) = Heads(h1) \cup {rest} /\ FreeHeads(s) = FreeHeads(h1) \cup {rest}
        /\ NextPhy(s, a) = rest /\ NextPhy(s, rest) = next
        /\ s.block[a].size = m /\ SameSizes(s, h1, Addr \ {a, rest})
        /\ Sound(s, P, G \cup {rest}, nullptr)
    <3>1. Sound(h1, P, G, nullptr) /\ a \notin G
      BY <1>4, <2>1 DEF G
    <3>2. s \in Heaps /\ IsCarved(s, h1, p, a, m) /\ Sound(s, P, G \cup {RestOf(a, m)}, nullptr)
      BY <2>1, <3>1, CarveSound
    <3> QED BY <3>2 DEF IsCarved, rest
  <2>3. a \in Heads(s) \ (G \cup {rest})
    BY <1>2, <1>5, <2>2 DEF G
  <2>4. /\ t \in Heaps /\ Heads(t) = Heads(s) /\ FreeHeads(t) = FreeHeads(s) \ {a}
        /\ SameTiles(t, s) /\ Sound(t, P, G \cup {rest}, nullptr)
    <3> DEFINE K == G \cup {rest}
    <3>1. Sound(s, P, K, nullptr) /\ a \in Heads(s) \ K
      BY <2>2, <2>3
    <3> HIDE DEF K
    <3>2. /\ t \in Heaps /\ Heads(t) = Heads(s) /\ FreeHeads(t) = FreeHeads(s) \ {a}
          /\ SameTiles(t, s) /\ Sound(t, P, K, nullptr)
      BY <3>1, TakenSound
    <3> QED BY <3>2 DEF K
  <2> HIDE DEF t, next
  <2>5. /\ Heads(t) = Heads(h) \cup {rest} /\ FreeHeads(t) = G \cup {rest}
        /\ rest \notin Heads(h) /\ a # rest
    BY <1>2, <1>5, <2>2, <2>4 DEF G
  <2>6. /\ SameSizes(t, h, Addr \ {a, rest}) /\ t.block[a].size = m
        /\ NextPhy(t, a) = rest /\ NextPhy(t, rest) = NextPhy(h, a)
    <3>1. SameSizes(t, s, Addr) /\ SameSizes(s, h, Addr \ {a, rest})
      BY <1>5, <2>2, <2>4 DEF SameTiles, SameSizes
    <3>2. rest \in Addr
      BY <2>5 DEF Heads
    <3> QED BY <1>2, <1>5, <2>2, <3>1, <3>2 DEF SameSizes, NextPhy
  <2>7. ASSUME NEW q \in P, NEW c \in RowOf(t, q), c \in FreeHeads(t),
               NextPhy(t, c) \in RowOf(t, q) \cap FreeHeads(t)
        PROVE  FALSE
    <3>1. p \in Pools /\ q \in Pools
      OBVIOUS
    <3>2. CASE c = rest
      <4>1. NextPhy(h, a) \in RowOf(t, q) /\ NextPhy(h, a) \in FreeHeads(t)
        BY <2>6, <2>7, <3>2
      <4>2. NextPhy(h, a) # rest
        <5>1. NextPhy(t, rest) > rest + TrueSize /\ rest \in Nat
          BY <2>4, <2>5, HeadFacts
        <5> QED BY <2>6, <5>1, AddrFacts
      <4>3. NextPhy(h, a) \in F /\ NextPhy(h, a) \in RowOf(h, q)
        BY <2>5, <4>1, <4>2 DEF RowOf, G
      <4>4. a \in RowOf(h, q)
        <5>1. InPool(q, rest) /\ rest \in Nat
          BY <1>1, <2>5, <2>7, <3>2, AddrFacts DEF RowOf, Heads
        <5>2. p = q
          BY <2>2, <3>1, <5>1, PoolsApart
        <5> QED BY <1>2, <5>2
      <4> QED BY <1>1, <1>2, <4>3, <4>4 DEF Merged, F
    <3>3. CASE c # rest
      <4>1. c \in RowOf(h, q) /\ c \in F /\ c # a /\ c \in Addr
        BY <2>5, <2>7, <3>3 DEF RowOf, G, Heads
      <4>2. NextPhy(t, c) = NextPhy(h, c)
        BY <2>6, <3>3, <4>1 DEF NextPhy, SameSizes
      <4>3. CASE NextPhy(t, c) = rest
        <5>1. InPool(q, rest) /\ rest \in Nat
          BY <1>1, <2>5, <2>7, <4>3, AddrFacts DEF RowOf, Heads
        <5>2. p = q
          BY <2>2, <3>1, <5>1, PoolsApart
        <5>3. Row(t, p, nullptr) /\ a \in RowOf(t, p) /\ c \in RowOf(t, p)
          BY <1>2, <2>4, <2>5, <2>7, <5>2 DEF Sound, RowOf
        <5>4. NextPhy(t, c) = NextPhy(t, a) => c = a
          BY <2>4, <3>1, <5>3, RowFacts
        <5> QED BY <2>6, <4>1, <4>3, <5>4
      <4>4. CASE NextPhy(t, c) # rest
        <5>1. NextPhy(h, c) \in RowOf(h, q) \cap F
          BY <2>5, <2>7, <4>2, <4>4 DEF RowOf, G
        <5> QED BY <1>1, <4>1, <5>1 DEF Merged, F
      <4> QED BY <4>3, <4>4
    <3> QED BY <3>2, <3>3
  <2>8. Merged(t, P)
    BY <2>7 DEF Merged
  <2>9. Good(t, P)
    BY <2>4, <2>5, <2>8 DEF Good
  <2>10. Used(t) = Used(h) \cup {a} /\ SameSizes(t, h, Used(h)) /\ t.block[a].size >= m
    <3>1. Used(t) = Used(h) \cup {a}
      BY <1>2, <2>5 DEF Used, F, G, FreeHeads
    <3>2. Used(h) \subseteq Addr \ {a, rest}
      BY <1>1, <1>2, <2>5 DEF Used, F
    <3>3. m >= m
      BY DEF HasRoom
    <3> QED BY <2>6, <3>1, <3>2, <3>3 DEF SameSizes
  <2> QED BY <2>9, <2>10 DEF t, s
<1> QED BY <1>6, <1>7

\* Block a is free and in no list, and may have to be merged with the one behind it.
Loose(h, P, p, a) ==
  /\ Sound(h, P, FreeHeads(h) \ {a}, a) /\ MergedBut(h, P, a)
  /\ a \in RowOf(h, p) /\ a \in FreeHeads(h)

\* What holds of all blocks holds of all but x.
LEMMA Weaken ==
  ASSUME NEW h, NEW P \in SUBSET Pools, NEW F, Sound(h, P, F, nullptr), NEW x
  PROVE  Sound(h, P, F, x)
<1>1. ASSUME NEW p \in P PROVE Row(h, p, x)
  <2>1. Row(h, p, nullptr) /\ h \in Heaps /\ p \in Pools
    BY DEF Sound
  <2>2. nullptr \notin RowOf(h, p)
    BY AddrFacts DEF RowOf, Heads
  <2> QED BY <2>1, <2>2, RowFrame
<1> QED BY <1>1 DEF Sound

\* The beginning of InsertMerging: h1 and first.
First(h, a) ==
  IF h.block[a].prevPhy # nullptr /\ h.block[h.block[a].prevPhy].free
  THEN h.block[a].prevPhy ELSE a
Joined(h, a) ==
  IF h.block[a].prevPhy # nullptr /\ h.block[h.block[a].prevPhy].free
  THEN Absorb(RemoveBlock(h, h.block[a].prevPhy), h.block[a].prevPhy, a) ELSE h

\* Freeing a block and joining it with the one before makes one loose block.
LEMMA MarkedLoose ==
  ASSUME NEW h, NEW P \in SUBSET Pools, Good(h, P), NEW p \in P,
         NEW a \in RowOf(h, p), a \in Used(h)
  PROVE  /\ Loose(Joined(Marked(h, a), a), P, p, First(Marked(h, a), a))
         /\ Used(Joined(Marked(h, a), a)) = Used(h) \ {a}
         /\ SameSizes(Joined(Marked(h, a), a), h, Used(h) \ {a})
<1> DEFINE F == FreeHeads(h)
           h0 == Marked(h, a)
           prev == h0.block[a].prevPhy
<1>1. /\ Sound(h, P, F, nullptr) /\ Merged(h, P) /\ h \in Heaps /\ F \subseteq Heads(h)
      /\ Heads(h) \subseteq Addr /\ Row(h, p, nullptr) /\ p \in Pools
      /\ a \in Heads(h) \ F /\ a \in Addr /\ nullptr \notin Addr
  BY AddrFacts DEF Good, FreeHeads, Sound, Heads, Used
<1> HIDE DEF F
<1>2. /\ h0 \in Heaps /\ Heads(h0) = Heads(h) /\ FreeHeads(h0) = FreeHeads(h) \cup {a}
      /\ SameTiles(h0, h) /\ Sound(h0, P, F, nullptr)
  BY <1>1, MarkSound
<1> HIDE DEF h0
<1>3. \A q \in P : RowOf(h0, q) = RowOf(h, q)
  BY <1>2 DEF RowOf
<1>4. \A c \in Addr : NextPhy(h0, c) = NextPhy(h, c)
  BY <1>2 DEF SameTiles, NextPhy
<1>5. prev = h.block[a].prevPhy
  BY <1>1, <1>2 DEF SameTiles
<1>6. /\ prev # nullptr => prev \in RowOf(h, p) /\ NextPhy(h, prev) = a
      /\ \A c \in RowOf(h, p) : NextPhy(h, c) = a => prev = c
  BY <1>1, <1>5, PrevFacts
<1> HIDE DEF prev
<1>7. CASE prev # nullptr /\ h0.block[prev].free
  <2> DEFINE r == RemoveBlock(h0, prev)
             g == Absorb(r, prev, a)
  <2>1. First(h0, a) = prev /\ Joined(h0, a) = g
    BY <1>7 DEF First, Joined, prev
  <2>2. /\ prev \in RowOf(h, p) /\ prev \in Heads(h) /\ NextPhy(h, prev) = a /\ prev \in Addr
    BY <1>1, <1>6, <1>7 DEF RowOf
  <2>3. prev # a
    BY <1>1, <2>2, HeadFacts, AddrFacts
  <2>4. prev \in F
    <3>1. prev \in FreeHeads(h0)
      BY <1>2, <1>7, <2>2 DEF FreeHeads
    <3> QED BY <1>2, <2>3, <3>1 DEF F
  <2>5. r \in Heaps /\ SameRow(r, h0) /\ Sound(r, P, F \ {prev}, nullptr)
    BY <1>2, <2>4, RemoveSound
  <2> DEFINE G == F \ {prev}
  <2> HIDE DEF r, G
  <2>6. /\ Heads(r) = Heads(h0) /\ FreeHeads(r) = FreeHeads(h0) /\ SameSizes(r, h0, Addr)
        /\ RowOf(r, p) = RowOf(h, p) /\ a = NextPhy(r, prev)
    BY <1>1, <1>2, <1>3, <1>4, <2>2, <2>5, SameRowFacts DEF SameSizes
  <2>7. Sound(r, P, G, nullptr) /\ prev \in RowOf(r, p) /\ a \in RowOf(r, p) /\ prev \notin G /\ a \notin G
    BY <1>1, <2>2, <2>5, <2>6 DEF G
  <2>8. /\ g \in Heaps /\ Heads(g) = Heads(r) \ {a} /\ FreeHeads(g) = FreeHeads(r) \ {a}
        /\ SameSizes(g, r, Addr \ {prev, a}) /\ Sound(g, P, G, prev)
    <3>1. g \in Heaps /\ IsAbsorbed(g, r, prev, a) /\ Sound(g, P, G, prev)
      BY <2>6, <2>7, AbsorbSound
    <3> QED BY <3>1 DEF IsAbsorbed
  <2> HIDE DEF g
  <2>9. /\ Heads(g) = Heads(h) \ {a} /\ FreeHeads(g) = F
        /\ SameSizes(g, h, Addr \ {prev, a})
    BY <1>1, <1>2, <2>6, <2>8 DEF F, SameSizes, SameTiles
  <2>10. Sound(g, P, FreeHeads(g) \ {prev}, prev)
    BY <2>8, <2>9 DEF G
  <2>11. prev \in RowOf(g, p) /\ prev \in FreeHeads(g)
    BY <2>2, <2>3, <2>4, <2>9 DEF RowOf
  <2>12. ASSUME NEW q \in P, NEW c \in RowOf(g, q) \ {prev}, c \in FreeHeads(g),
                NextPhy(g, c) \in RowOf(g, q) \cap FreeHeads(g)
         PROVE  FALSE
    <3>1. c \in RowOf(h, q) /\ c \in F /\ c \in Addr \ {prev, a}
      BY <1>1, <2>9, <2>12 DEF RowOf
    <3>2. NextPhy(g, c) = NextPhy(h, c)
      BY <2>9, <3>1 DEF NextPhy, SameSizes
    <3>3. NextPhy(h, c) \in RowOf(h, q) \cap F
      BY <2>9, <2>12, <3>2 DEF RowOf
    <3> QED BY <1>1, <3>1, <3>3 DEF Merged, F
  <2>13. Loose(g, P, p, prev)
    BY <2>10, <2>11, <2>12 DEF Loose, MergedBut
  <2>14. Used(g) = Used(h) \ {a} /\ SameSizes(g, h, Used(h) \ {a})
    <3>1. Used(g) = Used(h) \ {a}
      BY <1>1, <2>9 DEF Used, F
    <3>2. Used(h) \ {a} \subseteq Addr \ {prev, a}
      BY <1>1, <2>4 DEF Used, F
    <3> QED BY <2>9, <3>1, <3>2 DEF SameSizes
  <2> QED BY <2>1, <2>13, <2>14 DEF h0
<1>8. CASE ~(prev # nullptr /\ h0.block[prev].free)
  <2>1. First(h0, a) = a /\ Joined(h0, a) = h0
    BY <1>8 DEF First, Joined, prev
  <2>2. FreeHeads(h0) \ {a} = F /\ FreeHeads(h0) = F \cup {a}
    BY <1>1, <1>2 DEF F
  <2>3. Sound(h0, P, FreeHeads(h0) \ {a}, a)
    BY <1>2, <2>2, Weaken
  <2>4. a \in RowOf(h0, p) /\ a \in FreeHeads(h0)
    BY <1>3, <2>2
  <2>5. ASSUME NEW q \in P, NEW c \in RowOf(h0, q) \ {a}, c \in FreeHeads(h0),
               NextPhy(h0, c) \in RowOf(h0, q) \cap FreeHeads(h0)
        PROVE  FALSE
    <3>1. c \in RowOf(h, q) /\ c \in F /\ c \in Addr /\ NextPhy(h0, c) = NextPhy(h, c)
          /\ NextPhy(h, c) \in RowOf(h, q) /\ NextPhy(h, c) \in F \cup {a} /\ q \in Pools
      BY <1>1, <1>3, <1>4, <2>2, <2>5
    <3>2. CASE NextPhy(h, c) = a
      <4>1. q = p
        BY <1>1, <3>1, <3>2, PoolsApart, AddrFacts DEF RowOf
      <4>2. prev = c
        BY <1>6, <3>1, <3>2, <4>1
      <4>3. c # nullptr /\ h0.block[c].free
        BY <1>1, <2>5, <3>1 DEF FreeHeads
      <4> QED BY <1>8, <4>2, <4>3
    <3>3. CASE NextPhy(h, c) # a
      BY <1>1, <3>1, <3>3 DEF Merged, F
    <3> QED BY <3>2, <3>3
  <2>6. Loose(h0, P, p, a)
    BY <2>3, <2>4, <2>5 DEF Loose, MergedBut
  <2>7. Used(h0) = Used(h) \ {a} /\ SameSizes(h0, h, Used(h) \ {a})
    BY <1>1, <1>2, <2>2 DEF Used, F, SameSizes, SameTiles
  <2> QED BY <2>1, <2>6, <2>7 DEF h0
<1> QED BY <1>7, <1>8

\* The block behind is merged into a.
LEMMA MergeLoose ==
  ASSUME NEW h, NEW P \in SUBSET Pools, NEW p \in P, NEW a, Loose(h, P, p, a)
  PROVE  /\ MergeNext(h, p, a) \in Heaps /\ a \in FreeHeads(MergeNext(h, p, a))
         /\ Sound(MergeNext(h, p, a), P, FreeHeads(MergeNext(h, p, a)) \ {a}, nullptr)
         /\ Merged(MergeNext(h, p, a), P)
         /\ Used(MergeNext(h, p, a)) = Used(h) /\ SameSizes(MergeNext(h, p, a), h, Used(h))
<1> DEFINE F == FreeHeads(h)
           G == F \ {a}
           next == NextPhy(h, a)
<1>1. /\ Sound(h, P, G, a) /\ MergedBut(h, P, a) /\ h \in Heaps /\ F \subseteq Heads(h)
      /\ Heads(h) \subseteq Addr /\ Row(h, p, a) /\ p \in Pools /\ a \in RowOf(h, p)
      /\ a \in Heads(h) /\ a \in F /\ a \in Addr /\ nullptr \notin Addr
  BY AddrFacts DEF Loose, FreeHeads, Sound, Heads
<1>2. Inside(p, next) => next \in RowOf(h, p)
  BY <1>1, RowFacts
<1>3. next # a
  BY <1>1, HeadFacts, AddrFacts
<1>4. CASE ~Inside(p, next) \/ ~h.block[next].free
  <2> DEFINE g == Linked(h, p, next, a)
  <2>1. MergeNext(h, p, a) = g
    BY <1>4 DEF MergeNext
  <2>2. /\ g \in Heaps /\ Heads(g) = Heads(h) /\ FreeHeads(g) = F
        /\ SameSizes(g, h, Addr) /\ Sound(g, P, G, nullptr)
    <3> HIDE DEF G
    <3> QED BY <1>1, LinkedSound
  <2> HIDE DEF g
  <2>3. next \notin RowOf(h, p) \cap F
    BY <1>4 DEF RowOf, InPool, FreeHeads
  <2>4. MergedBut(h, P, nullptr)
    <3>1. ASSUME NEW q \in P, NEW c \in RowOf(h, q), c \in F
          PROVE  NextPhy(h, c) \notin RowOf(h, q) \cap F
      <4>1. CASE c = a
        <5>1. q = p
          BY <1>1, <3>1, <4>1, PoolsApart, AddrFacts DEF RowOf
        <5> QED BY <2>3, <4>1, <5>1
      <4>2. CASE c # a
        BY <1>1, <3>1, <4>2 DEF MergedBut
      <4> QED BY <4>1, <4>2
    <3> QED BY <3>1 DEF MergedBut
  <2>5. Merged(g, P)
    BY <1>1, <2>2, <2>4, MergedFrame, MergedAll
  <2>6. Used(g) = Used(h) /\ SameSizes(g, h, Used(h))
    BY <1>1, <2>2 DEF Used, SameSizes
  <2> QED BY <1>1, <2>1, <2>2, <2>5, <2>6
<1>5. CASE ~(~Inside(p, next) \/ ~h.block[next].free)
  <2> DEFINE r == RemoveBlock(h, next)
             k == Absorb(r, a, next)
             g == Linked(k, p, NextPhy(h, next), a)
             K == G \ {next}
  <2>1. MergeNext(h, p, a) = g
    BY <1>5 DEF MergeNext
  <2>2. next \in RowOf(h, p) /\ next \in F /\ next \in G /\ next \in Addr
    BY <1>1, <1>2, <1>3, <1>5 DEF RowOf, FreeHeads
  <2>3. r \in Heaps /\ SameRow(r, h) /\ Sound(r, P, K, a)
    <3> HIDE DEF G, next
    <3> QED BY <1>1, <2>2, RemoveSound
  <2> HIDE DEF r
  <2>4. /\ Heads(r) = Heads(h) /\ FreeHeads(r) = F /\ SameSizes(r, h, Addr)
        /\ RowOf(r, p) = RowOf(h, p) /\ NextPhy(r, a) = next /\ NextPhy(r, next) = NextPhy(h, next)
    BY <1>1, <2>2, <2>3, SameRowFacts DEF SameSizes
  <2>5. a \in RowOf(r, p) /\ next \in RowOf(r, p) /\ a \notin K /\ next \notin K
    BY <1>1, <2>2, <2>4
  <2> HIDE DEF K, next
  <2>6. k \in Heaps /\ IsAbsorbed(k, r, a, next) /\ Sound(k, P, K, a)
    BY <2>3, <2>4, <2>5, AbsorbSound
  <2> HIDE DEF k
  <2>7. /\ Heads(k) = Heads(h) \ {next} /\ FreeHeads(k) = F \ {next}
        /\ NextPhy(k, a) = NextPhy(h, next) /\ SameSizes(k, h, Addr \ {a, next})
    BY <2>4, <2>6 DEF IsAbsorbed, SameSizes
  <2>8. a \in RowOf(k, p) /\ a \in FreeHeads(k)
    BY <1>1, <1>3, <2>7 DEF RowOf, next
  <2>9. g = Linked(k, p, NextPhy(k, a), a)
    BY <2>7
  <2> HIDE DEF g
  <2>10. /\ g \in Heaps /\ Heads(g) = Heads(k) /\ FreeHeads(g) = FreeHeads(k)
         /\ SameSizes(g, k, Addr) /\ Sound(g, P, K, nullptr)
    BY <2>6, <2>8, <2>9, LinkedSound
  <2>11. K = FreeHeads(g) \ {a} /\ a \in FreeHeads(g)
    BY <2>7, <2>8, <2>10 DEF K
  <2>12. ASSUME NEW q \in P, NEW c \in RowOf(k, q), c \in FreeHeads(k),
                NextPhy(k, c) \in RowOf(k, q) \cap FreeHeads(k)
         PROVE  FALSE
    <3>1. /\ c \in RowOf(h, q) /\ c \in F /\ c \in Addr /\ c # next /\ q \in Pools
          /\ NextPhy(k, c) \in RowOf(h, q) \cap F
      BY <1>1, <2>7, <2>12 DEF RowOf
    <3>2. CASE c = a
      <4>1. q = p
        BY <1>1, <3>1, <3>2, PoolsApart, AddrFacts DEF RowOf
      <4>2. next \in RowOf(h, p) \ {a} /\ NextPhy(h, next) \in RowOf(h, p) \cap F
        BY <1>3, <2>2, <2>7, <3>1, <3>2, <4>1 DEF next
      <4> QED BY <1>1, <2>2, <4>2 DEF MergedBut
    <3>3. CASE c # a
      <4>1. NextPhy(k, c) = NextPhy(h, c)
        BY <2>7, <3>1, <3>3 DEF NextPhy, SameSizes
      <4> QED BY <1>1, <3>1, <3>3, <4>1 DEF MergedBut
    <3> QED BY <3>2, <3>3
  <2>13. Merged(g, P)
    <3>1. MergedBut(k, P, nullptr)
      BY <2>12 DEF MergedBut
    <3> QED BY <2>6, <2>10, <3>1, MergedFrame, MergedAll
  <2>14. Used(g) = Used(h) /\ SameSizes(g, h, Used(h))
    <3>1. Used(g) = Used(h)
      BY <2>2, <2>7, <2>10 DEF Used
    <3>2. Used(h) \subseteq Addr \ {a, next}
      BY <1>1, <2>2 DEF Used
    <3> QED BY <2>7, <2>10, <3>1, <3>2 DEF SameSizes
  <2> QED BY <2>1, <2>10, <2>11, <2>13, <2>14
<1> QED BY <1>4, <1>5

\* A block is given back.
LEMMA FreeGood ==
  ASSUME NEW h, NEW P \in SUBSET Pools, Good(h, P), NEW p \in P,
         NEW a \in RowOf(h, p), a \in Used(h)
  PROVE  /\ Good(InsertMerging(Marked(h, a), p, a), P)
         /\ Used(InsertMerging(Marked(h, a), p, a)) = Used(h) \ {a}
         /\ SameSizes(InsertMerging(Marked(h, a), p, a), h, Used(h) \ {a})
<1> DEFINE f == First(Marked(h, a), a)
           j == Joined(Marked(h, a), a)
           k == MergeNext(j, p, f)
           g == Push(k, f)
<1>1. InsertMerging(Marked(h, a), p, a) = g
  BY DEF InsertMerging, First, Joined
<1>2. /\ Loose(j, P, p, f) /\ Used(j) = Used(h) \ {a} /\ SameSizes(j, h, Used(h) \ {a})
  BY MarkedLoose
<1> HIDE DEF f, j
<1>3. /\ k \in Heaps /\ f \in FreeHeads(k) /\ Sound(k, P, FreeHeads(k) \ {f}, nullptr)
      /\ Merged(k, P) /\ Used(k) = Used(j) /\ SameSizes(k, j, Used(j))
  <2>1. Loose(j, P, p, f)
    BY <1>2
  <2> HIDE DEF k
  <2>2. /\ MergeNext(j, p, f) \in Heaps /\ f \in FreeHeads(MergeNext(j, p, f))
        /\ Sound(MergeNext(j, p, f), P, FreeHeads(MergeNext(j, p, f)) \ {f}, nullptr)
        /\ Merged(MergeNext(j, p, f), P)
        /\ Used(MergeNext(j, p, f)) = Used(j) /\ SameSizes(MergeNext(j, p, f), j, Used(j))
    BY <2>1, MergeLoose, Zenon
  <2> QED BY <2>2, Zenon DEF k
<1> HIDE DEF k
<1>4. f \in Heads(k) \ (FreeHeads(k) \ {f}) /\ Heads(k) \subseteq Addr
  BY <1>3 DEF FreeHeads, Heads
<1> DEFINE K == FreeHeads(k) \ {f}
<1>5. Sound(k, P, K, nullptr) /\ f \in Heads(k) \ K /\ K \cup {f} = FreeHeads(k)
  BY <1>3, <1>4
<1> HIDE DEF K
<1>6. g \in Heaps /\ SameRow(g, k) /\ Sound(g, P, FreeHeads(k), nullptr)
  <2>1. g \in Heaps /\ SameRow(g, k) /\ Sound(g, P, K \cup {f}, nullptr)
    BY <1>5, PushSound
  <2> QED BY <1>5, <2>1
<1> HIDE DEF g
<1>7. Heads(g) = Heads(k) /\ FreeHeads(g) = FreeHeads(k) /\ SameSizes(g, k, Addr)
  BY <1>3, <1>6, SameRowFacts DEF SameSizes
<1>8. Merged(g, P)
  BY <1>3, <1>6, <1>7, MergedFrame, MergedAll
<1>9. Good(g, P)
  BY <1>6, <1>7, <1>8 DEF Good
<1>10. Used(g) = Used(h) \ {a}
  BY <1>2, <1>3, <1>7 DEF Used
<1>11. SameSizes(g, h, Used(h) \ {a})
  <2>1. Used(k) \subseteq Addr
    BY <1>4 DEF Used
  <2> QED BY <1>2, <1>3, <1>7, <2>1 DEF SameSizes
<1> QED BY <1>1, <1>9, <1>10, <1>11

\* The client has the blocks that are in use, each at least as large as it asked for.
LiveOK(h, f) ==
  /\ DOMAIN f = {a + TrueSize : a \in Used(h)}
  /\ \A a \in Used(h) : f[a + TrueSize] \in Nat \ {0} /\ f[a + TrueSize] <= h.block[a].size

\* The inductive invariant.
IInv == memoryPools \subseteq Pools /\ Good(heap, memoryPools) /\ LiveOK(heap, live)

\* The end of the classes is a number.
LEMMA ClassesEndNat == ClassesEnd \in Nat
<1>1. FLC + BasePowLevel - 1 \in Nat
  BY ClassConstants
<1> QED BY <1>1, Pow2Type DEF ClassesEnd

\* What a good heap says about two blocks.
LEMMA GoodFacts ==
  ASSUME NEW h, NEW P \in SUBSET Pools, Good(h, P)
  PROVE  /\ h \in Heaps /\ Heads(h) \subseteq Addr /\ Used(h) \subseteq Addr /\ Addr \subseteq Nat
         /\ FreeHeads(h) \subseteq Heads(h) /\ TrueSize \in Nat \ {0}
         /\ \A a \in Heads(h) :
              /\ h.block[a].size \in Nat \ {0} /\ NextPhy(h, a) <= MaxAddress
              /\ InsertLevel(h.block[a].size) \in Levels
              /\ LevelSize(InsertLevel(h.block[a].size)) \in Nat
              /\ LevelSize(InsertLevel(h.block[a].size)) <= h.block[a].size
              /\ \E p \in P : InPool(p, a)
         /\ \A a, b \in Heads(h) : a < b => NextPhy(h, a) <= b
<1>1. /\ h \in Heaps /\ Heads(h) \subseteq Addr /\ Used(h) \subseteq Addr /\ Addr \subseteq Nat
      /\ FreeHeads(h) \subseteq Heads(h) /\ TrueSize \in Nat \ {0}
      /\ \A p \in P : Row(h, p, nullptr)
      /\ \A a \in Heads(h) : \E p \in P : InPool(p, a)
  BY AddrFacts DEF Good, Sound, Heads, Used, FreeHeads
<1>2. ASSUME NEW a \in Heads(h)
      PROVE  /\ h.block[a].size \in Nat \ {0} /\ NextPhy(h, a) <= MaxAddress
             /\ InsertLevel(h.block[a].size) \in Levels
             /\ LevelSize(InsertLevel(h.block[a].size)) \in Nat
             /\ LevelSize(InsertLevel(h.block[a].size)) <= h.block[a].size
             /\ \A b \in Heads(h) : a < b => NextPhy(h, a) <= b
  <2>1. PICK p \in P : InPool(p, a)
    BY <1>1
  <2>2. Row(h, p, nullptr) /\ a \in RowOf(h, p) /\ p \in Pools
    BY <1>1, <2>1 DEF RowOf
  <2> DEFINE n == h.block[a].size
  <2>3. /\ n \in Nat \ {0} /\ n % MinimiumAllocationSize = 0 /\ n >= MinimiumAllocationSize
        /\ NextPhy(h, a) \in Nat /\ a \in Nat /\ NextPhy(h, a) > a
    BY <1>1, HeadFacts
  <2>4. NextPhy(h, a) <= p.ptr + p.capacity /\ n + TrueSize <= p.capacity
    BY <1>1, <2>2, RowFacts
  <2> HIDE DEF n
  <2>5. n < ClassesEnd /\ NextPhy(h, a) <= MaxAddress
    <3>1. p.capacity - TrueSize < ClassesEnd /\ p.capacity \in Nat /\ ClassesEnd \in Nat
          /\ p.ptr \in Nat /\ p.ptr + p.capacity <= MaxAddress /\ MaxAddress \in Nat
      BY <2>2, PoolFacts, AddrFacts, ClassesEndNat
    <3> QED BY <1>1, <2>3, <2>4, <3>1
  <2>6. InsertLevel(n) \in Levels /\ LevelSize(InsertLevel(n)) <= n
    BY <2>3, <2>5, InsertLevelFacts
  <2>7. LevelSize(InsertLevel(n)) \in Nat
    BY <2>6, LevelFacts, LevelSizeFacts
  <2>8. ASSUME NEW b \in Heads(h), a < b PROVE NextPhy(h, a) <= b
    <3>1. PICK q \in P : InPool(q, b)
      BY <1>1
    <3>2. CASE p = q
      <4>1. b \in RowOf(h, p)
        BY <3>1, <3>2 DEF RowOf
      <4> QED BY <2>2, <2>8, <4>1 DEF Row
    <3>3. CASE p # q
      <4>1. /\ q \in Pools /\ q.ptr \in Nat /\ q.capacity \in Nat /\ p.ptr \in Nat /\ p.capacity \in Nat
            /\ p.ptr + p.capacity <= q.ptr \/ q.ptr + q.capacity <= p.ptr
        BY <2>2, <3>3, PoolFacts, PoolsAssumption
      <4>2. q.ptr <= b /\ b < q.ptr + q.capacity /\ p.ptr <= a /\ b \in Nat
        BY <1>1, <2>1, <3>1 DEF InPool, Inside
      <4> QED BY <2>3, <2>4, <2>8, <4>1, <4>2
    <3> QED BY <3>2, <3>3
  <2> QED BY <2>3, <2>5, <2>6, <2>7, <2>8 DEF n
<1> QED BY <1>1, <1>2

\* A class with a free block has a head.
LEMMA HasFreeFacts ==
  ASSUME NEW h, NEW P \in SUBSET Pools, Good(h, P), NEW l \in Levels, HasFree(h, l)
  PROVE  h.head[l] # nullptr /\ h.head[l] \in FreeHeads(h)
         /\ InsertLevel(h.block[h.head[l]].size) = l
<1> DEFINE F == FreeHeads(h)
<1>1. h \in Heaps /\ Listed(h, F)
  BY DEF Good, Sound
<1> HIDE DEF F
<1>2. h.head[l] # nullptr
  BY <1>1, ListedFacts DEF HasFree
<1> QED BY <1>1, <1>2, ListedFacts DEF F

\* The classes that findLevelForSplit looks at are larger ones.
LEMMA SearchedFacts ==
  ASSUME NEW h, NEW k \in Levels, NEW l \in Searched(h, NextLevel(k))
  PROVE  l \in Levels /\ HasFree(h, l) /\ LevelSize(k) <= LevelSize(l)
<1>1. /\ l \in Levels /\ HasFree(h, l) /\ l.first >= NextLevel(k).first
      /\ \/ l.second >= NextLevel(k).second
         \/ \E f \in NextLevel(k).first .. l.first - 1 : f \notin h.firstBitmap
  BY DEF Searched
<1>2. /\ k.first \in Nat /\ k.second \in 0 .. SLC - 1 /\ k = Level(k.first, k.second)
      /\ l.first \in Nat /\ l.second \in 0 .. SLC - 1 /\ l = Level(l.first, l.second)
      /\ SLC \in Nat
  BY <1>1, LevelFacts, ClassConstants
<1>3. k.first < l.first \/ (k.first = l.first /\ k.second < l.second)
  <2>1. CASE k.second + 1 >= SLC
    <3>1. NextLevel(k).first = k.first + 1
      BY <2>1 DEF NextLevel, Level
    <3> QED BY <1>1, <1>2, <3>1
  <2>2. CASE ~(k.second + 1 >= SLC)
    <3>1. NextLevel(k).first = k.first /\ NextLevel(k).second = k.second + 1
      BY <2>2 DEF NextLevel, Level
    <3>2. CASE l.first = k.first
      <4>1. k.first .. l.first - 1 = {}
        BY <1>2, <3>2
      <4> QED BY <1>1, <1>2, <3>1, <3>2, <4>1
    <3> QED BY <1>1, <1>2, <3>1, <3>2
  <2> QED BY <2>1, <2>2
<1>4. LevelSize(Level(k.first, k.second)) <= LevelSize(Level(l.first, l.second))
  BY <1>2, <1>3, LaterIsLarger
<1> QED BY <1>1, <1>2, <1>4

\* A block is in the pool that LocatePool finds.
LEMMA LocatePoolFacts ==
  ASSUME NEW a, \E p \in memoryPools : InPool(p, a)
  PROVE  LocatePool(a) \in memoryPools /\ InPool(LocatePool(a), a)
BY DEF LocatePool, InPool

\* A block is handed out.
LEMMA LiveAdd ==
  ASSUME NEW h, NEW P \in SUBSET Pools, Good(h, P), NEW f, LiveOK(h, f),
         NEW g, NEW a \in FreeHeads(h), Used(g) = Used(h) \cup {a}, SameSizes(g, h, Used(h)),
         NEW n \in Nat \ {0}, n <= g.block[a].size
  PROVE  /\ a + TrueSize \notin DOMAIN f
         /\ LiveOK(g, [p \in DOMAIN f \cup {a + TrueSize} |-> IF p = a + TrueSize THEN n ELSE f[p]])
<1> DEFINE e == [p \in DOMAIN f \cup {a + TrueSize} |-> IF p = a + TrueSize THEN n ELSE f[p]]
<1>1. /\ a \in Nat /\ a \notin Used(h) /\ Used(h) \subseteq Nat /\ TrueSize \in Nat
  BY GoodFacts DEF Used
<1>2. \A b \in Used(h) : b + TrueSize # a + TrueSize
  BY <1>1
<1>3. a + TrueSize \notin DOMAIN f
  BY <1>2 DEF LiveOK
<1>4. DOMAIN e = {b + TrueSize : b \in Used(g)}
  BY DEF LiveOK
<1>5. ASSUME NEW b \in Used(g)
      PROVE  e[b + TrueSize] \in Nat \ {0} /\ e[b + TrueSize] <= g.block[b].size
  <2>1. CASE b = a
    <3>1. e[b + TrueSize] = n
      BY <2>1
    <3> QED BY <2>1, <3>1
  <2>2. CASE b # a
    <3>1. b \in Used(h) /\ g.block[b].size = h.block[b].size
      BY <2>2 DEF SameSizes
    <3>2. e[b + TrueSize] = f[b + TrueSize]
      BY <1>2, <3>1 DEF LiveOK
    <3> QED BY <3>1, <3>2 DEF LiveOK
  <2> QED BY <2>1, <2>2
<1> QED BY <1>3, <1>4, <1>5 DEF LiveOK

\* A block is given back.
LEMMA LiveRemove ==
  ASSUME NEW h, NEW P \in SUBSET Pools, Good(h, P), NEW f, LiveOK(h, f),
         NEW g, NEW a \in Used(h), Used(g) = Used(h) \ {a}, SameSizes(g, h, Used(h) \ {a})
  PROVE  LiveOK(g, Restrict(f, DOMAIN f \ {a + TrueSize}))
<1> DEFINE e == Restrict(f, DOMAIN f \ {a + TrueSize})
<1>1. e = [p \in DOMAIN f \ {a + TrueSize} |-> f[p]]
  BY DEF Restrict
<1> HIDE DEF e
<1>2. a \in Nat /\ Used(h) \subseteq Nat /\ TrueSize \in Nat
  BY GoodFacts
<1>3. \A b \in Used(h) : b # a => b + TrueSize # a + TrueSize
  BY <1>2
<1>4. DOMAIN e = {b + TrueSize : b \in Used(g)}
  BY <1>1, <1>3 DEF LiveOK
<1>5. ASSUME NEW b \in Used(g)
      PROVE  e[b + TrueSize] \in Nat \ {0} /\ e[b + TrueSize] <= g.block[b].size
  <2>1. b \in Used(h) /\ g.block[b].size = h.block[b].size
    BY DEF SameSizes
  <2>2. e[b + TrueSize] = f[b + TrueSize]
    BY <1>1, <1>3, <2>1 DEF LiveOK
  <2> QED BY <2>1, <2>2 DEF LiveOK
<1>6. LiveOK(g, e)
  BY <1>4, <1>5 DEF LiveOK
<1> QED BY <1>6 DEF e

\* Each action keeps the invariant; an allocation takes a block that was free.
LEMMA AddKeeps ==
  ASSUME IInv, NEW p \in Pools, Initialize(p)
  PROVE  IInv'
<1>1. /\ Good(heap, memoryPools) /\ memoryPools \in SUBSET Pools /\ LiveOK(heap, live)
      /\ p \in Pools \ memoryPools
  BY DEF IInv, Initialize
<1>2. /\ heap' = Push(NewBlock(heap, p), p.ptr) /\ memoryPools' = memoryPools \cup {p} /\ live' = live
  <2> DEFINE n == p.capacity - TrueSize
  <2>1. n \in 0 .. SizeEnd - 1 /\ SizeEnd \in Nat \ {0}
    BY PoolFacts, PoolsAssumption, SizesAssumption
  <2> HIDE DEF n
  <2>2. n % SizeEnd = n
    BY <2>1, RemainderSelf
  <2> QED BY <2>2 DEF n, Initialize, NewBlock
<1>3. /\ Good(heap', memoryPools') /\ Used(heap') = Used(heap) /\ SameSizes(heap', heap, Used(heap))
  BY <1>1, <1>2, AddGood
<1>4. LiveOK(heap', live')
  BY <1>1, <1>2, <1>3 DEF LiveOK, SameSizes
<1> QED BY <1>1, <1>2, <1>3, <1>4 DEF IInv

\* What an allocation of n does with block a.
Takes(a, n) ==
  /\ a \in FreeHeads(heap) /\ a \in Used(heap') /\ n \in Nat \ {0}
  /\ a + TrueSize \notin DOMAIN live
  /\ live' = [p \in DOMAIN live \cup {a + TrueSize} |-> IF p = a + TrueSize THEN n ELSE live[p]]

\* A request has a class, whose size is enough for it.
LEMMA SizeFacts ==
  ASSUME NEW n \in Sizes
  PROVE  /\ n \in Nat \ {0} /\ AllocLevel(n) \in Levels /\ n <= LevelSize(AllocLevel(n))
         /\ LevelSize(AllocLevel(n)) \in Nat \ {0}
         /\ LevelSize(AllocLevel(n)) % MinimiumAllocationSize = 0
<1>1. n \in Nat \ {0} /\ n < ClassesEnd
  BY SizesAssumption, ClassesEndNat
<1>2. AllocLevel(n) \in Levels /\ n <= LevelSize(AllocLevel(n))
  BY <1>1, AllocLevelFacts
<1> QED BY <1>1, <1>2, LevelFacts, LevelSizeFacts

\* An allocation of a whole block keeps the inductive invariant.
LEMMA ExactKeeps ==
  ASSUME IInv, NEW n \in Sizes, AllocExact(n)
  PROVE  IInv' /\ \E a : Takes(a, n)
<1> DEFINE l == AllocLevel(n)
           a == heap.head[l]
<1>1. /\ Good(heap, memoryPools) /\ memoryPools \in SUBSET Pools /\ LiveOK(heap, live)
      /\ HasFree(heap, l) /\ l \in Levels /\ n \in Nat \ {0} /\ n <= LevelSize(l)
      /\ LevelSize(l) \in Nat
  BY SizeFacts DEF IInv, AllocExact
<1>2. /\ heap' = Taken(PopHead(heap, l), a) /\ memoryPools' = memoryPools
      /\ live' = [p \in DOMAIN live \cup {a + TrueSize} |-> IF p = a + TrueSize THEN n ELSE live[p]]
  BY DEF AllocExact, HandOut, Taken
<1> HIDE DEF l
<1>3. a # nullptr /\ a \in FreeHeads(heap) /\ InsertLevel(heap.block[a].size) = l
  BY <1>1, HasFreeFacts
<1> HIDE DEF a
<1>4. /\ Good(heap', memoryPools') /\ Used(heap') = Used(heap) \cup {a}
      /\ SameSizes(heap', heap, Addr)
  BY <1>1, <1>2, <1>3, TakeGood DEF a
<1>5. /\ SameSizes(heap', heap, Used(heap)) /\ n <= heap'.block[a].size
  <2>1. /\ a \in Heads(heap) /\ a \in Addr /\ Used(heap) \subseteq Addr
        /\ heap.block[a].size \in Nat /\ l = InsertLevel(heap.block[a].size)
        /\ LevelSize(InsertLevel(heap.block[a].size)) <= heap.block[a].size
    BY <1>1, <1>3, GoodFacts DEF FreeHeads
  <2>2. SameSizes(heap', heap, Used(heap)) /\ heap'.block[a].size = heap.block[a].size
    BY <1>4, <2>1 DEF SameSizes
  <2> QED BY <1>1, <2>1, <2>2
<1>6. a + TrueSize \notin DOMAIN live /\ LiveOK(heap', live')
  BY <1>1, <1>2, <1>3, <1>4, <1>5, LiveAdd
<1>7. IInv'
  BY <1>1, <1>2, <1>4, <1>6 DEF IInv
<1>8. Takes(a, n)
  BY <1>1, <1>2, <1>3, <1>4, <1>6 DEF Takes
<1> QED BY <1>7, <1>8

\* An allocation that splits a block keeps the inductive invariant.
LEMMA SplitKeeps ==
  ASSUME IInv, NEW n \in Sizes, AllocSplit(n)
  PROVE  IInv' /\ \E a : Takes(a, n)
<1> DEFINE k == AllocLevel(n)
           m == LevelSize(k)
<1>1. /\ Good(heap, memoryPools) /\ memoryPools \in SUBSET Pools /\ LiveOK(heap, live)
      /\ k \in Levels /\ n \in Nat \ {0} /\ n <= m /\ m \in Nat \ {0}
      /\ m % MinimiumAllocationSize = 0
  BY SizeFacts DEF IInv
<1>2. PICK l \in Searched(heap, NextLevel(k)) :
        HandOut(Split(heap, LocatePool(heap.head[l]), l, m), heap.head[l], n)
  BY DEF AllocSplit
<1> HIDE DEF k
<1>3. l \in Levels /\ HasFree(heap, l) /\ m <= LevelSize(l)
  BY <1>1, SearchedFacts
<1> DEFINE a == heap.head[l]
           q == LocatePool(a)
<1> HIDE DEF m
<1>4. /\ heap' = Taken(Split(heap, q, l, m), a) /\ memoryPools' = memoryPools
      /\ live' = [p \in DOMAIN live \cup {a + TrueSize} |-> IF p = a + TrueSize THEN n ELSE live[p]]
  BY <1>2 DEF HandOut, Taken
<1>5. a # nullptr /\ a \in FreeHeads(heap) /\ InsertLevel(heap.block[a].size) = l
  BY <1>1, <1>3, HasFreeFacts
<1> HIDE DEF a, q
<1>6. /\ heap.block[a].size \in Nat /\ LevelSize(l) <= heap.block[a].size /\ LevelSize(l) \in Nat
      /\ \E p \in memoryPools : InPool(p, a)
  BY <1>1, <1>5, GoodFacts DEF FreeHeads
<1>7. q \in memoryPools /\ InPool(q, a)
  BY <1>6, LocatePoolFacts DEF q
<1>8. HasRoom(heap, a, m)
  BY <1>1, <1>3, <1>6 DEF HasRoom
<1>9. /\ Good(heap', memoryPools') /\ Used(heap') = Used(heap) \cup {a}
      /\ SameSizes(heap', heap, Used(heap)) /\ heap'.block[a].size >= m
  BY <1>1, <1>3, <1>4, <1>5, <1>7, <1>8, SplitGood DEF a
<1>10. n <= heap'.block[a].size
  <2>1. a \in Heads(heap') /\ memoryPools' \in SUBSET Pools
    BY <1>1, <1>4, <1>9 DEF Used
  <2>2. heap'.block[a].size \in Nat
    BY <1>9, <2>1, GoodFacts
  <2> QED BY <1>1, <1>9, <2>2
<1>11. a + TrueSize \notin DOMAIN live /\ LiveOK(heap', live')
  <2> DEFINE e == [p \in DOMAIN live \cup {a + TrueSize} |-> IF p = a + TrueSize THEN n ELSE live[p]]
  <2>1. /\ Good(heap, memoryPools) /\ memoryPools \in SUBSET Pools /\ LiveOK(heap, live)
        /\ n \in Nat \ {0}
    BY <1>1
  <2>2. a + TrueSize \notin DOMAIN live /\ LiveOK(heap', e)
    BY <2>1, <1>5, <1>9, <1>10, LiveAdd
  <2> QED BY <2>2, <1>4
<1>12. IInv'
  BY <1>1, <1>4, <1>9, <1>11 DEF IInv
<1>13. Takes(a, n)
  BY <1>1, <1>4, <1>5, <1>9, <1>11 DEF Takes
<1> QED BY <1>12, <1>13

\* Giving a block back keeps the inductive invariant.
LEMMA FreeKeeps ==
  ASSUME IInv, NEW ptr \in DOMAIN live, Free(ptr)
  PROVE  IInv'
<1> DEFINE a == ptr - TrueSize
           q == LocatePool(a)
<1>1. /\ Good(heap, memoryPools) /\ memoryPools \in SUBSET Pools /\ LiveOK(heap, live)
  BY DEF IInv
<1>2. PICK b \in Used(heap) : ptr = b + TrueSize
  BY <1>1 DEF LiveOK
<1>3. b \in Nat /\ b \in Heads(heap) /\ TrueSize \in Nat /\ \E p \in memoryPools : InPool(p, b)
  BY <1>1, GoodFacts DEF Used
<1>4. a = b
  BY <1>2, <1>3
<1>5. /\ heap' = InsertMerging(Marked(heap, a), q, a) /\ memoryPools' = memoryPools
      /\ live' = Restrict(live, DOMAIN live \ {ptr})
  BY DEF Free, Marked
<1>6. a \in Used(heap) /\ a \in Heads(heap) /\ \E p \in memoryPools : InPool(p, a)
  BY <1>3, <1>4
<1>7. ptr = a + TrueSize
  BY <1>2, <1>4
<1> HIDE DEF a, q
<1>8. q \in memoryPools /\ a \in RowOf(heap, q)
  BY <1>6, LocatePoolFacts DEF q, RowOf
<1>9. /\ Good(heap', memoryPools') /\ Used(heap') = Used(heap) \ {a}
      /\ SameSizes(heap', heap, Used(heap) \ {a})
  BY <1>1, <1>5, <1>6, <1>8, FreeGood
<1>10. LiveOK(heap', live')
  BY <1>1, <1>5, <1>6, <1>7, <1>9, LiveRemove
<1> QED BY <1>1, <1>5, <1>9, <1>10 DEF IInv

\* The inductive invariant holds at the beginning.
LEMMA InitInv ==
  ASSUME Init PROVE IInv
<1>1. heap \in Heaps /\ Heads(heap) = {} /\ FreeHeads(heap) = {} /\ Used(heap) = {}
  <2>1. ASSUME NEW a \in Addr
        PROVE  NoHeader \in Header /\ NoHeader.size = 0
    BY NoHeaderFacts
  <2>2. [a \in Addr |-> NoHeader] \in [Addr -> Header]
    BY <2>1
  <2>3. heap \in Heaps
    BY <2>2 DEF Init, Heaps
  <2>4. Heads(heap) = {}
    BY <2>1 DEF Init, Heads
  <2> QED BY <2>3, <2>4 DEF FreeHeads, Used
<1>2. Clean(heap)
  BY NoHeaderFacts DEF Init, Clean
<1>3. Listed(heap, {})
  <2>1. /\ \A l \in Levels : heap.head[l] = nullptr /\ heap.secondBitmap[l.first] = {}
        /\ heap.firstBitmap = {} /\ \A f \in 0 .. FLC - 1 : heap.secondBitmap[f] = {}
    BY LevelFacts DEF Init
  <2> QED BY <2>1 DEF Listed, Linkage, BitsAgree
<1>4. memoryPools = {} /\ live = << >>
  BY DEF Init
<1>5. Good(heap, memoryPools)
  BY <1>1, <1>2, <1>3, <1>4 DEF Good, Sound, Merged
<1>6. LiveOK(heap, live)
  BY <1>1, <1>4 DEF LiveOK
<1> QED BY <1>4, <1>5, <1>6 DEF IInv

\* Every step keeps the inductive invariant.
LEMMA NextInv ==
  ASSUME IInv, [Next]_vars PROVE IInv'
<1>1. CASE \E p \in Pools : Initialize(p)
  BY <1>1, AddKeeps
<1>2. CASE \E n \in Sizes : AllocExact(n) \/ AllocSplit(n)
  BY <1>2, ExactKeeps, SplitKeeps
<1>3. CASE \E ptr \in DOMAIN live : Free(ptr)
  BY <1>3, FreeKeeps
<1>4. CASE vars' = vars
  BY <1>4 DEF vars, IInv
<1> QED BY <1>1, <1>2, <1>3, <1>4 DEF Next, AllocFails

(***************************************************************************)
(* What follows from the inductive invariant.                              *)
(***************************************************************************)
LEMMA InvTypeOK ==
  ASSUME IInv PROVE TypeOK
BY DEF IInv, Good, Sound, Heaps, TypeOK

\* The headers are where the sizes are not zero.
LEMMA HeadersFacts ==
  ASSUME IInv PROVE Headers = Heads(heap) /\ FreeHeaders = FreeHeads(heap)
<1>1. heap \in Heaps /\ Clean(heap)
  BY DEF IInv, Good, Sound
<1>2. ASSUME NEW a \in Addr
      PROVE  block[a] # NoHeader <=> heap.block[a].size # 0
  <2>1. CASE heap.block[a].size # 0
    BY <2>1 DEF block, NoHeader
  <2>2. CASE heap.block[a].size = 0
    <3>1. a \in Addr \ Heads(heap)
      BY <2>2 DEF Heads
    <3>2. heap.block[a] \in Header
      BY <1>1 DEF Heaps
    <3>3. /\ heap.block[a].free = FALSE /\ heap.block[a].prevPhy = nullptr
          /\ heap.block[a].prevFree = nullptr /\ heap.block[a].nextFree = nullptr
      BY <1>1, <3>1 DEF Clean
    <3>4. heap.block[a] = NoHeader
      BY <2>2, <3>2, <3>3 DEF NoHeader, Header
    <3> QED BY <2>2, <3>4 DEF block
  <2> QED BY <2>1, <2>2
<1>3. Headers = Heads(heap)
  BY <1>2 DEF Headers, Heads
<1> QED BY <1>3 DEF FreeHeaders, FreeHeads, block

\* The blocks tile the pools.
LEMMA InvTiling ==
  ASSUME IInv PROVE Tiling
<1> SUFFICES ASSUME NEW p \in memoryPools
             PROVE  LET inPool == {a \in Headers : p.ptr <= a /\ Inside(p, a)}
                    IN  /\ p.ptr \in inPool /\ block[p.ptr].prevPhy = nullptr
                        /\ \A a \in inPool :
                             /\ block[a].size >= MinimiumAllocationSize
                             /\ \/ NextPhy(heap, a) = p.ptr + p.capacity
                                \/ /\ NextPhy(heap, a) \in inPool
                                   /\ block[NextPhy(heap, a)].prevPhy = a
                                   /\ ~(block[a].free /\ block[NextPhy(heap, a)].free)
                             /\ a # p.ptr => /\ block[a].prevPhy \in inPool
                                             /\ NextPhy(heap, block[a].prevPhy) = a
  BY InvTypeOK DEF Tiling
<1>1. {a \in Headers : p.ptr <= a /\ Inside(p, a)} = RowOf(heap, p)
  BY HeadersFacts DEF RowOf, InPool
<1>2. /\ heap \in Heaps /\ Row(heap, p, nullptr) /\ p \in Pools /\ Merged(heap, memoryPools)
      /\ memoryPools \subseteq Pools
  BY DEF IInv, Good, Sound
<1>3. p.ptr \in RowOf(heap, p) /\ block[p.ptr].prevPhy = nullptr
  BY <1>2 DEF Row, block
<1>4. ASSUME NEW a \in RowOf(heap, p)
      PROVE  /\ block[a].size >= MinimiumAllocationSize
             /\ \/ NextPhy(heap, a) = p.ptr + p.capacity
                \/ /\ NextPhy(heap, a) \in RowOf(heap, p)
                   /\ block[NextPhy(heap, a)].prevPhy = a
                   /\ ~(block[a].free /\ block[NextPhy(heap, a)].free)
             /\ a # p.ptr => /\ block[a].prevPhy \in RowOf(heap, p)
                             /\ NextPhy(heap, block[a].prevPhy) = a
  <2>1. a \in Heads(heap) /\ a # nullptr
    BY AddrFacts DEF RowOf, Heads
  <2>2. block[a].size >= MinimiumAllocationSize
    BY <1>2, <2>1, HeadFacts DEF block
  <2>3. NextPhy(heap, a) # p.ptr + p.capacity =>
          NextPhy(heap, a) \in RowOf(heap, p) /\ block[NextPhy(heap, a)].prevPhy = a
    BY <1>2, <2>1 DEF Row, block
  <2>4. NextPhy(heap, a) \in RowOf(heap, p) => ~(block[a].free /\ block[NextPhy(heap, a)].free)
    <3>1. \A c \in RowOf(heap, p) : block[c].free => c \in FreeHeads(heap)
      BY DEF block, FreeHeads, RowOf
    <3> QED BY <1>2, <3>1 DEF Merged
  <2>5. a # p.ptr => /\ block[a].prevPhy \in RowOf(heap, p)
                     /\ NextPhy(heap, block[a].prevPhy) = a
    BY <1>2, PrevFacts DEF block
  <2> QED BY <2>2, <2>3, <2>4, <2>5
<1> QED BY <1>1, <1>3, <1>4

\* A row in which everything is free and merged is one block.
LEMMA InvWholeAgain ==
  ASSUME IInv PROVE WholeAgain
<1> SUFFICES ASSUME DOMAIN live = {}, NEW p \in memoryPools
             PROVE  block[p.ptr].free /\ block[p.ptr].size = p.capacity - TrueSize
  BY DEF WholeAgain
<1>1. /\ heap \in Heaps /\ Row(heap, p, nullptr) /\ p \in Pools /\ Merged(heap, memoryPools)
      /\ LiveOK(heap, live)
  BY DEF IInv, Good, Sound
<1>2. Used(heap) = {}
  BY <1>1 DEF LiveOK
<1>3. RowOf(heap, p) \subseteq FreeHeads(heap)
  BY <1>2 DEF Used, RowOf
<1>4. p.ptr \in RowOf(heap, p) /\ p.ptr \in FreeHeads(heap) /\ p.ptr \in Heads(heap)
  BY <1>1, <1>3 DEF Row, FreeHeads
<1>5. NextPhy(heap, p.ptr) = p.ptr + p.capacity
  <2>1. NextPhy(heap, p.ptr) \notin RowOf(heap, p)
    BY <1>1, <1>3, <1>4 DEF Merged
  <2> QED BY <1>1, <1>4, <2>1 DEF Row
<1>6. /\ heap.block[p.ptr].size \in Nat /\ p.ptr \in Nat /\ p.capacity \in Nat /\ TrueSize \in Nat
  BY <1>1, <1>4, HeadFacts, PoolFacts, AddrFacts
<1>7. heap.block[p.ptr].size = p.capacity - TrueSize
  <2> DEFINE s == heap.block[p.ptr].size
             l == p.ptr
             c == p.capacity
  <2>1. l + TrueSize + s = l + c
    BY <1>5 DEF NextPhy
  <2>2. s \in Nat /\ l \in Nat /\ c \in Nat /\ TrueSize \in Nat
    BY <1>6
  <2> HIDE DEF s, l, c
  <2>3. s = c - TrueSize
    BY <2>1, <2>2
  <2> QED BY <2>3 DEF s, c
<1> QED BY <1>4, <1>7 DEF block, FreeHeads

\* The lists and the bitmaps agree.
LEMMA InvListsAgree ==
  ASSUME IInv PROVE ListsAgree
<1> DEFINE F == FreeHeads(heap)
<1>1. heap \in Heaps /\ Listed(heap, F) /\ FreeHeaders = F
  BY HeadersFacts DEF IInv, Good, Sound
<1> HIDE DEF F
<1> QED BY <1>1 DEF ListsAgree, Listed, Linkage, BitsAgree, block

\* Blocks that are in use do not overlap.
LEMMA UsedApart ==
  ASSUME NEW h, NEW P \in SUBSET Pools, Good(h, P), NEW f, LiveOK(h, f),
         NEW a \in Used(h), NEW p, p = a + TrueSize, NEW q \in DOMAIN f, q # p
  PROVE  /\ p \in Nat /\ q \in Nat /\ f[p] \in Nat /\ f[q] \in Nat /\ p + f[p] <= MaxAddress
         /\ p + f[p] <= q \/ q + f[q] <= p
<1>1. PICK b \in Used(h) : q = b + TrueSize
  BY DEF LiveOK
<1>2. /\ f[p] \in Nat /\ f[p] <= h.block[a].size /\ f[q] \in Nat /\ f[q] <= h.block[b].size
  BY <1>1 DEF LiveOK
<1>3. /\ a \in Heads(h) /\ b \in Heads(h) /\ a \in Nat /\ b \in Nat /\ TrueSize \in Nat
      /\ h.block[a].size \in Nat /\ h.block[b].size \in Nat
      /\ NextPhy(h, a) <= MaxAddress
      /\ a < b => NextPhy(h, a) <= b
      /\ b < a => NextPhy(h, b) <= a
  BY GoodFacts DEF Used
<1>4. NextPhy(h, a) = a + TrueSize + h.block[a].size /\ NextPhy(h, b) = b + TrueSize + h.block[b].size
  BY DEF NextPhy
<1>5. a # b /\ MaxAddress \in Nat
  BY <1>1, AddrFacts
<1> QED BY <1>1, <1>2, <1>3, <1>4, <1>5

\* A block that is in use lies in the memory.
LEMMA UsedInside ==
  ASSUME NEW h, NEW P \in SUBSET Pools, Good(h, P), NEW f, LiveOK(h, f), NEW a \in Used(h)
  PROVE  /\ a + TrueSize \in Nat /\ f[a + TrueSize] \in Nat
         /\ a + TrueSize + f[a + TrueSize] <= MaxAddress
<1>1. f[a + TrueSize] \in Nat /\ f[a + TrueSize] <= h.block[a].size
  BY DEF LiveOK
<1>2. /\ a \in Heads(h) /\ a \in Nat /\ TrueSize \in Nat /\ h.block[a].size \in Nat
      /\ NextPhy(h, a) <= MaxAddress /\ MaxAddress \in Nat
  BY GoodFacts, AddrFacts DEF Used
<1>3. NextPhy(h, a) = a + TrueSize + h.block[a].size
  BY DEF NextPhy
<1> QED BY <1>1, <1>2, <1>3

\* Handing a block out is what an Allocator does.
LEMMA TakeRefines ==
  ASSUME IInv, IInv', NEW n \in Sizes, NEW a, Takes(a, n)
  PROVE  Blocks!Alloc(n)
<1> DEFINE p == a + TrueSize
<1>1. /\ Good(heap', memoryPools') /\ memoryPools' \in SUBSET Pools /\ LiveOK(heap', live')
      /\ a \in Used(heap') /\ p \notin DOMAIN live /\ n \in Nat \ {0}
      /\ live' = [x \in DOMAIN live \cup {p} |-> IF x = p THEN n ELSE live[x]]
  BY DEF IInv, Takes
<1>2. live'[p] = n /\ DOMAIN live' = DOMAIN live \cup {p}
  BY <1>1
<1>3. p \in Nat /\ p + n <= MaxAddress
  BY <1>1, <1>2, UsedInside
<1>4. ASSUME NEW q \in DOMAIN live
      PROVE  p + n <= q \/ q + live[q] <= p
  <2>1. q \in DOMAIN live' /\ q # p /\ live'[q] = live[q]
    BY <1>1, <1>2
  <2>2. p + live'[p] <= q \/ q + live'[q] <= p
    BY <1>1, <2>1, UsedApart
  <2> QED BY <1>2, <2>1, <2>2
<1>5. p \in 0 .. MaxAddress - n
  BY <1>1, <1>3, AddrFacts
<1> HIDE DEF p
<1> QED BY <1>1, <1>4, <1>5 DEF Blocks!Alloc

\* The initial states and the steps of an Allocator.
LEMMA InitRefines ==
  ASSUME Init PROVE Blocks!Init
BY DEF Init, Blocks!Init

\* A step of TLSF is a step of an Allocator or changes nothing that it sees.
LEMMA NextRefines ==
  ASSUME IInv, IInv', [Next]_vars PROVE [Blocks!Next]_live
<1>1. CASE \E p \in Pools : Initialize(p)
  BY <1>1 DEF Initialize
<1>2. ASSUME NEW n \in Sizes, AllocExact(n) \/ AllocSplit(n)
      PROVE  Blocks!Next
  <2>1. PICK a : Takes(a, n)
    BY <1>2, ExactKeeps, SplitKeeps
  <2>2. Blocks!Alloc(n)
    BY <2>1, TakeRefines
  <2> QED BY <2>2 DEF Blocks!Next
<1>3. CASE \E n \in Sizes : AllocFails(n)
  BY <1>3 DEF AllocFails, vars
<1>4. CASE \E ptr \in DOMAIN live : Free(ptr)
  <2>1. PICK ptr \in DOMAIN live : Free(ptr)
    BY <1>4
  <2>2. live' = Restrict(live, DOMAIN live \ {ptr})
    BY <2>1 DEF Free
  <2>3. Blocks!Free(ptr)
    BY <2>2 DEF Blocks!Free, Restrict, Blocks!Restrict
  <2> QED BY <2>1, <2>3 DEF Blocks!Next
<1>5. CASE vars' = vars
  BY <1>5 DEF vars
<1> QED BY <1>1, <1>2, <1>3, <1>4, <1>5 DEF Next

(***************************************************************************)
(* The theorems about TLSF.                                                *)
(***************************************************************************)
\* The inductive invariant holds in every reachable state.
THEOREM Invariance == Spec => []IInv
<1>1. Init => IInv
  BY InitInv
<1>2. IInv /\ [Next]_vars => IInv'
  BY NextInv
<1> QED BY <1>1, <1>2, PTL DEF Spec

\* Addresses and sizes stay multiples of the smallest block, and the second levels
\* stay within their bitmaps, whatever is asked for (queryAlignedLevelSize).
THEOREM TypeCorrect == Spec => []TypeOK
BY Invariance, InvTypeOK, PTL

\* After any sequence of allocate and deallocate the blocks of each pool follow one
\* another without a gap, know their neighbours, and are merged (splitAllocation,
\* insertFreeAllocation).
THEOREM Tiled == Spec => []Tiling
BY Invariance, InvTiling, PTL

\* When the program has given back all it had, in any order and after any splits,
\* each pool is one free block again: nothing is lost and nothing stays in pieces
\* (insertFreeAllocation merges on both sides).
THEOREM Reassembled == Spec => []WholeAgain
BY Invariance, InvWholeAgain, PTL

\* The free lists hold the free blocks, each in its class, and the bitmaps tell which
\* are not empty, so the search never takes a block that is not there
\* (removeFreeAllocationAndUpdateBitmap, queryAllocationWithFreeLevel).
THEOREM ListsCorrect == Spec => []ListsAgree
BY Invariance, InvListsAgree, PTL

\* TLSF is an allocator: the block handed out is as large as was asked for, lies in
\* the pools, and shares no address with a block in use.
THEOREM Refinement == Spec => AllocatorSpec
<1>1. Init => Blocks!Init
  BY InitRefines
<1>2. IInv /\ IInv' /\ [Next]_vars => [Blocks!Next]_live
  BY NextRefines
<1>3. Blocks!Spec <=> AllocatorSpec
  BY DEF AllocatorSpec
<1> QED BY <1>1, <1>2, <1>3, Invariance, PTL DEF Spec, Blocks!Spec

-----------------------------------------------------------------------------
(* The memory pool.                                                        *)

(***************************************************************************)
(* Removing and inserting.                                                 *)
(***************************************************************************)
LEMMA RemoveAtIs ==
  ASSUME NEW S, NEW s \in Seq(S), NEW i \in 1 .. Len(s)
  PROVE  /\ RemoveAt(s, i) \in Seq(S) /\ Len(RemoveAt(s, i)) = Len(s) - 1
         /\ \A k \in 1 .. Len(s) - 1 :
              RemoveAt(s, i)[k] = IF k < i THEN s[k] ELSE s[k + 1]
<1> DEFINE a == SubSeq(s, 1, i - 1)
           b == SubSeq(s, i + 1, Len(s))
<1>1. a \in Seq(S) /\ Len(a) = i - 1 /\ \A k \in 1 .. i - 1 : a[k] = s[k]
  OBVIOUS
<1>2. b \in Seq(S) /\ Len(b) = Len(s) - i /\ \A k \in 1 .. Len(s) - i : b[k] = s[i + k]
  OBVIOUS
<1>3. RemoveAt(s, i) = a \o b
  BY DEF RemoveAt
<1> HIDE DEF a, b
<1>4. ASSUME NEW k \in 1 .. Len(s) - 1
      PROVE  (a \o b)[k] = IF k < i THEN s[k] ELSE s[k + 1]
  <2>1. CASE k < i
    BY <1>1, <1>2, <2>1
  <2>2. CASE ~ (k < i)
    <3>1. k - (i - 1) \in 1 .. Len(s) - i /\ i + (k - (i - 1)) = k + 1
      BY <2>2
    <3>2. (a \o b)[k] = b[k - (i - 1)]
      BY <1>1, <1>2, <2>2
    <3> QED BY <1>2, <2>2, <3>1, <3>2
  <2> QED BY <2>1, <2>2
<1>5. a \o b \in Seq(S) /\ Len(a \o b) = Len(s) - 1
  <2>1. a \o b \in Seq(S) /\ Len(a \o b) = Len(a) + Len(b)
    BY <1>1, <1>2, ConcatProperties
  <2> QED BY <1>1, <1>2, <2>1
<1> QED BY <1>3, <1>4, <1>5

\* InsertAt, index by index.
LEMMA InsertAtIs ==
  ASSUME NEW S, NEW s \in Seq(S), NEW m \in 1 .. Len(s) + 1, NEW e \in S
  PROVE  /\ InsertAt(s, m, e) \in Seq(S) /\ Len(InsertAt(s, m, e)) = Len(s) + 1
         /\ \A k \in 1 .. Len(s) + 1 :
              InsertAt(s, m, e)[k] = IF k < m THEN s[k] ELSE IF k = m THEN e ELSE s[k - 1]
<1> DEFINE a == SubSeq(s, 1, m - 1)
           b == SubSeq(s, m, Len(s))
           c == a \o <<e>>
<1>1. a \in Seq(S) /\ Len(a) = m - 1 /\ \A k \in 1 .. m - 1 : a[k] = s[k]
  OBVIOUS
<1>2. b \in Seq(S) /\ Len(b) = Len(s) - m + 1 /\ \A k \in 1 .. Len(s) - m + 1 : b[k] = s[m + k - 1]
  OBVIOUS
<1>3. InsertAt(s, m, e) = c \o b
  BY DEF InsertAt
<1> HIDE DEF a, b
<1>4. c \in Seq(S) /\ Len(c) = m /\ \A k \in 1 .. m : c[k] = IF k < m THEN s[k] ELSE e
  BY <1>1
<1> HIDE DEF c
<1>5. ASSUME NEW k \in 1 .. Len(s) + 1
      PROVE  (c \o b)[k] = IF k < m THEN s[k] ELSE IF k = m THEN e ELSE s[k - 1]
  <2>1. CASE k <= m
    BY <1>2, <1>4, <2>1
  <2>2. CASE ~ (k <= m)
    <3>1. k - m \in 1 .. Len(s) - m + 1 /\ m + (k - m) - 1 = k - 1
      BY <2>2
    <3>2. (c \o b)[k] = b[k - m]
      BY <1>2, <1>4, <2>2
    <3> QED BY <1>2, <2>2, <3>1, <3>2
  <2> QED BY <2>1, <2>2
<1>6. c \o b \in Seq(S) /\ Len(c \o b) = Len(s) + 1
  <2>1. c \o b \in Seq(S) /\ Len(c \o b) = Len(c) + Len(b)
    BY <1>2, <1>4, ConcatProperties
  <2> QED BY <1>2, <1>4, <2>1
<1> QED BY <1>3, <1>5, <1>6

\* The nodes of the free list.
FreeBlock == [size : Addresses, ptr : Addresses]
Sorted(list) == \A i, j \in DOMAIN list : i < j => list[i].size <= list[j].size

\* The place multimap::insert chooses in a sorted list.
LEMMA InsertIs ==
  ASSUME capacity \in Nat,
         NEW list \in Seq(FreeBlock), Sorted(list), NEW b \in FreeBlock
  PROVE  \E m \in 1 .. Len(list) + 1 :
           /\ Insert(list, b) = InsertAt(list, m, b)
           /\ \A k \in 1 .. Len(list) : IF k < m THEN list[k].size <= b.size ELSE b.size <= list[k].size
<1> DEFINE before == {i \in DOMAIN list : list[i].size <= b.size}
           T == {k \in 1 .. Len(list) + 1 : k \notin before}
<1>1. DOMAIN list = 1 .. Len(list) /\ Len(list) \in Nat
  OBVIOUS
<1>2. ASSUME NEW i \in 1 .. Len(list) PROVE list[i].size \in Nat
  <2>1. list[i] \in FreeBlock
    BY <1>1
  <2> QED BY <2>1 DEF FreeBlock, Addresses
<1>3. b.size \in Nat
  BY DEF FreeBlock, Addresses
<1>4. \A i, j \in 1 .. Len(list) : i < j => list[i].size <= list[j].size
  BY <1>1 DEF Sorted
<1>5. Len(list) + 1 \in T /\ T \in SUBSET Nat
  BY <1>1
<1>6. PICK m \in T : \A k \in T : m <= k
  <2> HIDE DEF T
  <2> QED BY <1>5, LeastNatural
<1>7. m \in 1 .. Len(list) + 1 /\ m \notin before /\ \A k \in 1 .. m - 1 : k \in before
  BY <1>1, <1>6
<1>8. ASSUME NEW k \in 1 .. Len(list)
      PROVE  IF k < m THEN list[k].size <= b.size ELSE b.size <= list[k].size /\ k \notin before
  <2>1. CASE k < m
    BY <1>7, <2>1
  <2>2. CASE k = m
    BY <1>1, <1>2, <1>3, <1>7, <2>2
  <2>3. CASE k > m
    <3>1. m \in 1 .. Len(list) /\ ~ (list[m].size <= b.size)
      BY <1>1, <1>7, <2>3
    <3>2. list[m].size <= list[k].size
      BY <1>4, <2>3, <3>1
    <3> QED BY <1>1, <1>2, <1>3, <2>3, <3>1, <3>2
  <2> QED BY <1>7, <2>1, <2>2, <2>3
<1>9. before = 1 .. m - 1
  BY <1>1, <1>7, <1>8
<1>10. Cardinality(before) + 1 = m
  <2>1. 1 \in Int /\ m - 1 \in Int /\ m >= 1
    BY <1>7
  <2>2. Cardinality(1 .. m - 1) = IF 1 > m - 1 THEN 0 ELSE (m - 1) - 1 + 1
    BY <2>1, FS_Interval
  <2> HIDE DEF before
  <2> QED BY <1>9, <2>1, <2>2
<1>11. Insert(list, b) = InsertAt(list, m, b)
  BY <1>10 DEF Insert
<1> QED BY <1>7, <1>8, <1>11

\* An insertion keeps the list sorted; an element of the new list is the new
\* block or, under another index, one of the old ones, and none is lost.
LEMMA InsertKeeps ==
  ASSUME capacity \in Nat,
         NEW list \in Seq(FreeBlock), Sorted(list), NEW b \in FreeBlock
  PROVE  /\ Insert(list, b) \in Seq(FreeBlock) /\ Sorted(Insert(list, b))
         /\ Len(Insert(list, b)) = Len(list) + 1
         /\ \E m \in 1 .. Len(list) + 1 :
              /\ Insert(list, b)[m] = b
              /\ \A k \in 1 .. Len(list) :
                   Insert(list, b)[IF k < m THEN k ELSE k + 1] = list[k]
              /\ \A k \in 1 .. Len(list) + 1 :
                   k # m => Insert(list, b)[k] = list[IF k < m THEN k ELSE k - 1]
<1>1. PICK m \in 1 .. Len(list) + 1 :
        /\ Insert(list, b) = InsertAt(list, m, b)
        /\ \A k \in 1 .. Len(list) : IF k < m THEN list[k].size <= b.size ELSE b.size <= list[k].size
  BY InsertIs
<1> DEFINE new == Insert(list, b)
<1> HIDE DEF new
<1>2. /\ new \in Seq(FreeBlock) /\ Len(new) = Len(list) + 1
      /\ \A k \in 1 .. Len(list) + 1 :
           new[k] = IF k < m THEN list[k] ELSE IF k = m THEN b ELSE list[k - 1]
  <2>1. new = InsertAt(list, m, b)
    BY <1>1 DEF new
  <2>2. /\ InsertAt(list, m, b) \in Seq(FreeBlock) /\ Len(InsertAt(list, m, b)) = Len(list) + 1
        /\ \A k \in 1 .. Len(list) + 1 :
             InsertAt(list, m, b)[k] = IF k < m THEN list[k] ELSE IF k = m THEN b ELSE list[k - 1]
    BY InsertAtIs
  <2> QED BY <2>1, <2>2
<1>3. \A i, j \in 1 .. Len(list) : i < j => list[i].size <= list[j].size
  BY DEF Sorted
<1>4. ASSUME NEW i \in 1 .. Len(list) + 1, NEW j \in 1 .. Len(list) + 1, i < j
      PROVE  new[i].size <= new[j].size
  <2>1. CASE j < m
    <3>1. i \in 1 .. Len(list) /\ j \in 1 .. Len(list) /\ i < m
      BY <1>4, <2>1
    <3>2. new[i] = list[i] /\ new[j] = list[j]
      BY <1>2, <2>1, <3>1
    <3> QED BY <1>3, <1>4, <3>1, <3>2
  <2>2. CASE j = m
    BY <1>1, <1>2, <1>4, <2>2
  <2>3. CASE j > m /\ i < m
    <3>1. i \in 1 .. Len(list) /\ j - 1 \in 1 .. Len(list) /\ i <= j - 1
      BY <1>4, <2>3
    <3>2. new[i] = list[i] /\ new[j] = list[j - 1]
      BY <1>2, <2>3
    <3>3. CASE i < j - 1
      BY <1>3, <3>1, <3>2, <3>3
    <3>4. CASE i = j - 1
      BY <2>3, <3>4
    <3> QED BY <3>1, <3>3, <3>4
  <2>4. CASE j > m /\ i = m
    <3>1. j - 1 \in 1 .. Len(list) /\ ~ (j - 1 < m)
      BY <2>4
    <3>2. new[i] = b /\ new[j] = list[j - 1]
      BY <1>2, <2>4
    <3> QED BY <1>1, <3>1, <3>2
  <2>5. CASE i > m
    <3>1. i - 1 \in 1 .. Len(list) /\ j - 1 \in 1 .. Len(list) /\ i - 1 < j - 1
      BY <1>4, <2>5
    <3>2. new[i] = list[i - 1] /\ new[j] = list[j - 1]
      BY <1>2, <1>4, <2>5
    <3> QED BY <1>3, <3>1, <3>2
  <2> QED BY <1>4, <2>1, <2>2, <2>3, <2>4, <2>5
<1>5. Sorted(new)
  <2>1. DOMAIN new = 1 .. Len(list) + 1
    BY <1>2
  <2> QED BY <1>4, <2>1 DEF Sorted
<1>6. new[m] = b
  BY <1>2
<1>7. \A k \in 1 .. Len(list) : new[IF k < m THEN k ELSE k + 1] = list[k]
  BY <1>2
<1>8. \A k \in 1 .. Len(list) + 1 : k # m => new[k] = list[IF k < m THEN k ELSE k - 1]
  BY <1>2
<1> QED BY <1>2, <1>5, <1>6, <1>7, <1>8 DEF new

\* A sorted list without one of its blocks is sorted.
LEMMA RemoveKeeps ==
  ASSUME NEW list \in Seq(FreeBlock), Sorted(list), NEW i \in 1 .. Len(list)
  PROVE  RemoveAt(list, i) \in Seq(FreeBlock) /\ Sorted(RemoveAt(list, i))
<1> DEFINE new == RemoveAt(list, i)
<1> HIDE DEF new
<1>1. /\ new \in Seq(FreeBlock) /\ Len(new) = Len(list) - 1
      /\ \A k \in 1 .. Len(list) - 1 : new[k] = IF k < i THEN list[k] ELSE list[k + 1]
  BY RemoveAtIs DEF new
<1>2. \A j, k \in 1 .. Len(list) : j < k => list[j].size <= list[k].size
  BY DEF Sorted
<1>3. ASSUME NEW j \in 1 .. Len(list) - 1, NEW k \in 1 .. Len(list) - 1, j < k
      PROVE  new[j].size <= new[k].size
  <2>1. PICK x \in 1 .. Len(list) : x = IF j < i THEN j ELSE j + 1
    OBVIOUS
  <2>2. PICK y \in 1 .. Len(list) : y = IF k < i THEN k ELSE k + 1
    OBVIOUS
  <2>3. x < y /\ new[j] = list[x] /\ new[k] = list[y]
    BY <1>1, <1>3, <2>1, <2>2
  <2> QED BY <1>2, <2>3
<1>4. DOMAIN new = 1 .. Len(list) - 1
  BY <1>1
<1> QED BY <1>1, <1>3, <1>4 DEF Sorted, new

\* In a list of n blocks the one at i becomes the one at m of the new list, and
\* the one at m is b; of any other k, g says where it was.
Replaced(list, new, n, i, b, m, g) ==
  /\ new[m] = b /\ g[m] = i
  /\ \A k \in 1 .. n : k # m => new[k] = list[g[k]] /\ g[k] # i
  /\ \A j, k \in 1 .. n : g[j] = g[k] => j = k
  /\ \A j \in 1 .. n : \E k \in 1 .. n : g[k] = j

\* alloc's two steps on the list: one block is replaced, the others only change
\* their places.
LEMMA ReplaceKeeps ==
  ASSUME capacity \in Nat,
         NEW list \in Seq(FreeBlock), Sorted(list), NEW i \in 1 .. Len(list), NEW b \in FreeBlock,
         NEW new, new = Insert(RemoveAt(list, i), b)
  PROVE  /\ new \in Seq(FreeBlock) /\ Sorted(new) /\ Len(new) = Len(list)
         /\ \E m \in 1 .. Len(list), g \in [1 .. Len(list) -> 1 .. Len(list)] :
              Replaced(list, new, Len(list), i, b, m, g)
<1> DEFINE r == RemoveAt(list, i)
           n == Len(list)
<1> HIDE DEF r
<1>1. /\ r \in Seq(FreeBlock) /\ Sorted(r) /\ Len(r) = n - 1 /\ n \in Nat \ {0}
      /\ \A k \in 1 .. n - 1 : r[k] = IF k < i THEN list[k] ELSE list[k + 1]
  BY RemoveAtIs, RemoveKeeps DEF r
<1>2. /\ new \in Seq(FreeBlock) /\ Sorted(new) /\ Len(new) = Len(r) + 1
      /\ \E m \in 1 .. Len(r) + 1 :
           /\ new[m] = b
           /\ \A k \in 1 .. Len(r) + 1 : k # m => new[k] = r[IF k < m THEN k ELSE k - 1]
  <2>1. new = Insert(r, b)
    BY DEF r
  <2>2. r \in Seq(FreeBlock) /\ Sorted(r)
    BY <1>1
  <2>3. /\ Insert(r, b) \in Seq(FreeBlock) /\ Sorted(Insert(r, b))
        /\ Len(Insert(r, b)) = Len(r) + 1
        /\ \E m \in 1 .. Len(r) + 1 :
             /\ Insert(r, b)[m] = b
             /\ \A k \in 1 .. Len(r) + 1 :
                  k # m => Insert(r, b)[k] = r[IF k < m THEN k ELSE k - 1]
    BY <2>2, InsertKeeps
  <2> QED BY <2>1, <2>3
<1> HIDE DEF n
<1>3. PICK m \in 1 .. n :
        /\ new[m] = b
        /\ \A k \in 1 .. n : k # m => new[k] = r[IF k < m THEN k ELSE k - 1]
  <2>1. Len(r) + 1 = n
    BY <1>1
  <2> QED BY <1>2, <2>1
<1> DEFINE place(k) == IF k < m THEN k ELSE k - 1
           old(k) == IF k = m THEN i ELSE IF place(k) < i THEN place(k) ELSE place(k) + 1
           g == [k \in 1 .. n |-> old(k)]
           back(j) == IF j = i THEN m
                      ELSE LET p == IF j < i THEN j ELSE j - 1 IN IF p < m THEN p ELSE p + 1
<1>4. i \in 1 .. n
  BY DEF n
<1>5. \A k \in 1 .. n : old(k) \in 1 .. n /\ (k # m => old(k) # i)
  BY <1>1, <1>4
<1>6. \A k \in 1 .. n : back(k) \in 1 .. n /\ old(back(k)) = k
  BY <1>1, <1>4
<1>7. \A j, k \in 1 .. n : old(j) = old(k) => j = k
  BY <1>1, <1>4
<1>8. ASSUME NEW k \in 1 .. n, k # m PROVE new[k] = list[old(k)]
  <2>1. place(k) \in 1 .. n - 1 /\ new[k] = r[place(k)]
    BY <1>1, <1>3, <1>8
  <2> QED BY <1>1, <1>8, <2>1
<1>9. g \in [1 .. n -> 1 .. n] /\ g[m] = i /\ \A k \in 1 .. n : g[k] = old(k)
  BY <1>5
<1> HIDE DEF old, back, g
<1>10. \A j \in 1 .. n : \E k \in 1 .. n : g[k] = j
  BY <1>6, <1>9
<1>11. \A j, k \in 1 .. n : g[j] = g[k] => j = k
  BY <1>7, <1>9
<1>12. \A k \in 1 .. n : k # m => new[k] = list[g[k]] /\ g[k] # i
  BY <1>5, <1>8, <1>9
<1>13. \E x \in 1 .. n, h \in [1 .. n -> 1 .. n] : Replaced(list, new, n, i, b, x, h)
  <2>1. PICK h \in [1 .. n -> 1 .. n] : h = g
    BY <1>9
  <2>2. \A k \in 1 .. n : k # m => new[k] = list[h[k]] /\ h[k] # i
    BY <1>12, <2>1
  <2>3. \A j, k \in 1 .. n : h[j] = h[k] => j = k
    BY <1>11, <2>1
  <2>4. \A j \in 1 .. n : \E k \in 1 .. n : h[k] = j
    BY <1>10, <2>1
  <2>5. new[m] = b /\ h[m] = i
    BY <1>3, <1>9, <2>1
  <2>6. Replaced(list, new, n, i, b, m, h)
    BY <2>2, <2>3, <2>4, <2>5 DEF Replaced
  <2> QED BY <2>1, <2>6
<1>14. new \in Seq(FreeBlock) /\ Sorted(new) /\ Len(new) = n
  <2>1. Len(r) + 1 = n
    BY <1>1
  <2> QED BY <1>2, <2>1
<1> QED BY <1>13, <1>14 DEF n

(***************************************************************************)
(* The inductive invariant.                                                *)
(***************************************************************************)
\* Only the null pointer has an entry of size zero.
UsedOK ==
  /\ used_list \in [DOMAIN used_list -> Nat]
  /\ null \in DOMAIN used_list => used_list[null] = 0

\* The blocks an address belongs to.
PoolFreeAt(a) == {i \in DOMAIN free_list : Covers(free_list[i].ptr, free_list[i].size, a)}
PoolUsedAt(a) == {p \in Pointers : Covers(p, used_list[p], a)}

\* Exactly one block, free or used, has address a.
OneBlock(a) ==
  \/ PoolUsedAt(a) = {} /\ \E i \in DOMAIN free_list : PoolFreeAt(a) = {i}
  \/ PoolFreeAt(a) = {} /\ \E p \in Pointers : PoolUsedAt(a) = {p}

\* Every address has one block.
OneBlockEach == \A a \in 0 .. capacity - 1 : OneBlock(a)

\* The inductive invariant of the pool.
PoolInv == PoolTypeOK /\ UsedOK /\ OneBlockEach

\* Exactly one block for each address is what PoolTiling counts.
LEMMA OneBlockTiles == PoolInv => PoolTiling
<1> SUFFICES ASSUME PoolInv, NEW a \in 0 .. capacity - 1
             PROVE  Cardinality(PoolFreeAt(a)) + Cardinality(PoolUsedAt(a)) = 1
  BY DEF PoolTiling, PoolInv, PoolFreeAt, PoolUsedAt
<1>1. OneBlock(a)
  BY DEF PoolInv, OneBlockEach
<1>2. /\ \A x : Cardinality({x}) = 1
      /\ Cardinality({}) = 0
  BY FS_Singleton, FS_EmptySet
<1>3. CASE PoolUsedAt(a) = {} /\ \E i \in DOMAIN free_list : PoolFreeAt(a) = {i}
  <2>1. Cardinality(PoolUsedAt(a)) = 0 /\ Cardinality(PoolFreeAt(a)) = 1
    BY <1>2, <1>3
  <2> QED BY <2>1
<1>4. CASE PoolFreeAt(a) = {} /\ \E p \in Pointers : PoolUsedAt(a) = {p}
  <2>1. Cardinality(PoolUsedAt(a)) = 1 /\ Cardinality(PoolFreeAt(a)) = 0
    BY <1>2, <1>4
  <2> QED BY <2>1
<1> QED BY <1>1, <1>3, <1>4 DEF OneBlock

\* The inductive invariant of the pool holds at the beginning.
LEMMA PoolInvInit == PoolInit => PoolInv
<1> SUFFICES ASSUME PoolInit PROVE PoolInv
  OBVIOUS
<1>1. /\ free_list = <<[size |-> capacity, ptr |-> 0]>>
      /\ capacity \in Nat \ {0} /\ DOMAIN free_list = {1}
      /\ free_list[1] = [size |-> capacity, ptr |-> 0]
  BY PoolAssumption DEF PoolInit, Block
<1>2. used_list = << >> /\ DOMAIN used_list = {} /\ Pointers = {}
  BY DEF PoolInit, Pointers
<1>3. PoolTypeOK
  <2>1. free_list \in Seq([size : Addresses, ptr : Addresses])
    BY <1>1 DEF Addresses
  <2> QED BY <1>1, <1>2, <2>1 DEF PoolTypeOK
<1>4. UsedOK
  BY <1>2 DEF UsedOK, PoolInit
<1>5. ASSUME NEW a \in 0 .. capacity - 1 PROVE OneBlock(a)
  <2>1. PoolFreeAt(a) = {1}
    BY <1>1 DEF PoolFreeAt, Covers
  <2>2. PoolUsedAt(a) = {}
    BY <1>2 DEF PoolUsedAt
  <2> QED BY <1>1, <2>1, <2>2 DEF OneBlock
<1> QED BY <1>3, <1>4, <1>5 DEF PoolInv, OneBlockEach

(***************************************************************************)
(* alloc.                                                                  *)
(***************************************************************************)
\* A step that uses a block and leaves the others.
LEMMA UseIs ==
  ASSUME NEW p, NEW n, Use(p, n)
  PROVE  /\ DOMAIN used_list' = DOMAIN used_list \cup {p}
         /\ used_list'[p] = n
         /\ \A q \in DOMAIN used_list : q # p => used_list'[q] = used_list[q]
BY DEF Use

\* The numbers of what is left of a block of s at x when n of it are used.
LEMMA RestNumbers ==
  ASSUME NEW x \in Nat, NEW s \in Nat, NEW n \in Nat, NEW c \in Nat, n <= s, x + s <= c
  PROVE  /\ s - n \in Nat /\ x + n \in Nat /\ x + n <= c /\ s - n <= c
         /\ (x + n) + (s - n) <= c
OBVIOUS

\* The list and the entry alloc changes.
LEMMA PoolAllocIs ==
  ASSUME PoolInv, NEW n \in PoolSizes, PoolAlloc(n)
  PROVE  \E i \in DOMAIN free_list :
           LET b == free_list[i]
               rest == Block(b.size - n, b.ptr + n)
           IN  /\ b \in FreeBlock /\ n \in Nat \ {0} /\ n <= b.size /\ b.ptr + b.size <= capacity
               /\ rest \in FreeBlock /\ rest.ptr + rest.size <= capacity
               /\ free_list' = Insert(RemoveAt(free_list, i), rest)
               /\ Use(b.ptr, n)
<1> DEFINE T == Fitting(n)
<1>1. /\ free_list \in Seq(FreeBlock) /\ n \in Nat \ {0} /\ capacity \in Nat
      /\ \A i \in DOMAIN free_list : free_list[i].ptr + free_list[i].size <= capacity
  BY PoolAssumption DEF PoolInv, PoolTypeOK, FreeBlock
<1>2. T \in SUBSET Nat /\ T # {} /\ T \subseteq DOMAIN free_list
  BY <1>1 DEF Fitting, PoolAlloc
<1>3. Min(T) \in T
  <2> HIDE DEF T
  <2>1. \E m \in T : \A j \in T : m <= j
    BY <1>2, LeastNatural
  <2> QED BY <2>1 DEF Min
<1>4. PICK i \in DOMAIN free_list : i = Min(T) /\ i \in T
  BY <1>2, <1>3
<1>5. free_list[i] \in FreeBlock /\ n <= free_list[i].size
  BY <1>1, <1>4 DEF Fitting
<1> DEFINE b == free_list[i]
           rest == Block(b.size - n, b.ptr + n)
<1>6. b.ptr \in Nat /\ b.size \in Nat /\ b.ptr + b.size <= capacity
  BY <1>1, <1>5 DEF FreeBlock, Addresses
<1>7. rest \in FreeBlock /\ rest.ptr + rest.size <= capacity
  <2>1. /\ b.size - n \in Nat /\ b.ptr + n \in Nat /\ b.ptr + n <= capacity
        /\ b.size - n <= capacity /\ (b.ptr + n) + (b.size - n) <= capacity
    BY <1>1, <1>5, <1>6, RestNumbers
  <2>2. b.size - n \in 0 .. capacity /\ b.ptr + n \in 0 .. capacity
    BY <1>1, <2>1
  <2> HIDE DEF b
  <2>3. rest.size = b.size - n /\ rest.ptr = b.ptr + n
    BY DEF Block
  <2>4. rest \in FreeBlock
    BY <2>2 DEF Block, FreeBlock, Addresses
  <2> HIDE DEF rest
  <2> QED BY <2>1, <2>3, <2>4
<1>8. free_list' = Insert(RemoveAt(free_list, i), rest) /\ Use(b.ptr, n)
  BY <1>4 DEF PoolAlloc
<1> QED BY <1>1, <1>4, <1>5, <1>6, <1>7, <1>8

\* What PoolInv says of the blocks, for use below.
LEMMA BlocksAre ==
  ASSUME PoolInv
  PROVE  /\ free_list \in Seq(FreeBlock) /\ Sorted(free_list)
         /\ capacity \in Nat \ {0} /\ null \notin Nat
         /\ \A i \in DOMAIN free_list :
              /\ free_list[i].ptr \in Nat /\ free_list[i].size \in Nat
              /\ free_list[i].ptr + free_list[i].size <= capacity
         /\ \A p \in Pointers :
              /\ p \in Nat /\ used_list[p] \in Nat \ {0} /\ p + used_list[p] <= capacity
<1>1. /\ free_list \in Seq(FreeBlock) /\ Sorted(free_list)
      /\ capacity \in Nat \ {0} /\ null \notin Nat
  BY PoolAssumption DEF PoolInv, PoolTypeOK, FreeBlock, Sorted
<1>2. ASSUME NEW i \in DOMAIN free_list
      PROVE  /\ free_list[i].ptr \in Nat /\ free_list[i].size \in Nat
             /\ free_list[i].ptr + free_list[i].size <= capacity
  <2>1. free_list[i] \in FreeBlock
    BY <1>1
  <2>2. free_list[i].ptr \in Nat /\ free_list[i].size \in Nat
    BY <1>1, <2>1 DEF FreeBlock, Addresses
  <2> QED BY <2>2 DEF PoolInv, PoolTypeOK
<1>3. ASSUME NEW p \in Pointers
      PROVE  /\ p \in Nat /\ used_list[p] \in Nat \ {0} /\ p + used_list[p] <= capacity
  <2>1. p \in Addresses /\ p + used_list[p] <= capacity
    BY DEF PoolInv, PoolTypeOK
  <2>2. p \in DOMAIN used_list /\ used_list[p] # 0 /\ used_list[p] \in Nat
    BY DEF Pointers, PoolInv, UsedOK
  <2> QED BY <1>1, <2>1, <2>2 DEF Addresses
<1> QED BY <1>1, <1>2, <1>3

\* A step that keeps the free list sorted and in the memory, and the entries the
\* same but for one it adds or changes.
LEMMA PoolUseKeeps ==
  ASSUME PoolInv, NEW p \in Nat, NEW n \in Nat \ {0}, p + n <= capacity, Use(p, n)
  PROVE  /\ UsedOK'
         /\ Pointers' = Pointers \cup {p}
         /\ \A q \in Pointers : q # p => used_list'[q] = used_list[q]
         /\ \A q \in Pointers' : q \in Addresses /\ q + used_list'[q] <= capacity
<1>1. /\ DOMAIN used_list' = DOMAIN used_list \cup {p}
      /\ used_list'[p] = n
      /\ \A q \in DOMAIN used_list : q # p => used_list'[q] = used_list[q]
  BY UseIs
<1>2. null \notin Nat /\ capacity \in Nat
  BY BlocksAre
<1>3. UsedOK
  BY DEF PoolInv
<1>4. used_list' \in [DOMAIN used_list' -> Nat]
  BY <1>1, <1>3 DEF Use, UsedOK
<1>5. null \in DOMAIN used_list' => used_list'[null] = 0
  BY <1>1, <1>2, <1>3 DEF UsedOK
<1>6. Pointers' = Pointers \cup {p}
  BY <1>1 DEF Pointers
<1>7. \A q \in Pointers : q # p => used_list'[q] = used_list[q]
  BY <1>1 DEF Pointers
<1>8. \A q \in Pointers : q \in Addresses /\ q + used_list[q] <= capacity
  BY DEF PoolInv, PoolTypeOK
<1>9. p \in Addresses
  BY <1>2 DEF Addresses
<1> QED BY <1>1, <1>4, <1>5, <1>6, <1>7, <1>8, <1>9 DEF UsedOK

\* Alloc keeps the tiling: of the addresses of the block it takes the first n go
\* to the block in use and the others to the rest.
LEMMA PoolAllocKeeps == ASSUME PoolInv, NEW n \in PoolSizes, PoolAlloc(n) PROVE PoolInv'
<1>1. PICK i \in DOMAIN free_list :
        LET b == free_list[i]
            rest == Block(b.size - n, b.ptr + n)
        IN  /\ b \in FreeBlock /\ n \in Nat \ {0} /\ n <= b.size /\ b.ptr + b.size <= capacity
            /\ rest \in FreeBlock /\ rest.ptr + rest.size <= capacity
            /\ free_list' = Insert(RemoveAt(free_list, i), rest)
            /\ Use(b.ptr, n)
  BY PoolAllocIs
<1> DEFINE b == free_list[i]
           rest == Block(b.size - n, b.ptr + n)
           N == Len(free_list)
<1>2. /\ b \in FreeBlock /\ n \in Nat \ {0} /\ n <= b.size /\ b.ptr + b.size <= capacity
      /\ rest \in FreeBlock /\ rest.ptr + rest.size <= capacity
      /\ free_list' = Insert(RemoveAt(free_list, i), rest)
      /\ Use(b.ptr, n)
  BY <1>1
<1>3. rest.size = b.size - n /\ rest.ptr = b.ptr + n
  BY DEF Block
<1>4. b.ptr \in Nat /\ b.size \in Nat /\ capacity \in Nat \ {0}
  BY BlocksAre
<1>5. free_list \in Seq(FreeBlock) /\ Sorted(free_list) /\ DOMAIN free_list = 1 .. N /\ N \in Nat
  BY BlocksAre
<1> HIDE DEF rest, N
<1>6. /\ free_list' \in Seq(FreeBlock) /\ Sorted(free_list') /\ Len(free_list') = N
      /\ \E m \in 1 .. N, g \in [1 .. N -> 1 .. N] : Replaced(free_list, free_list', N, i, rest, m, g)
  BY <1>2, <1>4, <1>5, ReplaceKeeps DEF N
<1>7. PICK m \in 1 .. N, g \in [1 .. N -> 1 .. N] : Replaced(free_list, free_list', N, i, rest, m, g)
  BY <1>6
<1>8. DOMAIN free_list' = 1 .. N
  BY <1>5, <1>6
<1>9. /\ UsedOK'
      /\ Pointers' = Pointers \cup {b.ptr}
      /\ \A q \in Pointers : q # b.ptr => used_list'[q] = used_list[q]
      /\ \A q \in Pointers' : q \in Addresses /\ q + used_list'[q] <= capacity
  <2>1. b.ptr + n <= capacity
    BY <1>2, <1>4
  <2> QED BY <1>2, <1>4, <2>1, PoolUseKeeps
<1>10. used_list'[b.ptr] = n
  BY <1>2, UseIs
<1>11. ASSUME NEW a \in 0 .. capacity - 1, i \in PoolFreeAt(a)
       PROVE  PoolFreeAt(a) = {i} /\ PoolUsedAt(a) = {}
  <2>1. OneBlock(a)
    BY DEF PoolInv, OneBlockEach
  <2> QED BY <1>11, <2>1 DEF OneBlock
<1>12. ASSUME NEW a \in Nat PROVE i \in PoolFreeAt(a) <=> b.ptr <= a /\ a < b.ptr + b.size
  BY <1>5 DEF PoolFreeAt, Covers
<1>13. b.ptr \notin Pointers
  <2>1. b.ptr \in 0 .. capacity - 1 /\ i \in PoolFreeAt(b.ptr)
    BY <1>2, <1>4, <1>12
  <2>2. PoolUsedAt(b.ptr) = {}
    BY <1>11, <2>1
  <2>3. b.ptr \in Pointers => b.ptr \in PoolUsedAt(b.ptr)
    BY <1>4, BlocksAre DEF PoolUsedAt, Covers
  <2> QED BY <2>2, <2>3
<1>14. PoolTypeOK'
  <2>1. ASSUME NEW k \in DOMAIN free_list' PROVE free_list'[k].ptr + free_list'[k].size <= capacity
    <3>1. k \in 1 .. N /\ g[k] \in DOMAIN free_list
      BY <1>5, <1>8
    <3>2. CASE k = m
      BY <1>2, <1>7, <3>2 DEF Replaced
    <3>3. CASE k # m
      <4>1. free_list'[k] = free_list[g[k]]
        BY <1>7, <3>1, <3>3 DEF Replaced
      <4> QED BY <3>1, <4>1, BlocksAre
    <3> QED BY <3>2, <3>3
  <2> QED BY <1>6, <1>9, <2>1 DEF PoolTypeOK, FreeBlock, Sorted, Addresses
<1>15. ASSUME NEW a \in 0 .. capacity - 1 PROVE OneBlock(a)'
  <2>1. PoolUsedAt(a)' = PoolUsedAt(a) \cup (IF Covers(b.ptr, n, a) THEN {b.ptr} ELSE {})
    BY <1>9, <1>10, <1>13 DEF PoolUsedAt
  <2>2. \A k \in 1 .. N : k # m => (k \in PoolFreeAt(a)' <=> g[k] \in PoolFreeAt(a))
    BY <1>5, <1>7, <1>8 DEF PoolFreeAt, Replaced
  <2>3. m \in PoolFreeAt(a)' <=> Covers(rest.ptr, rest.size, a)
    BY <1>7, <1>8 DEF PoolFreeAt, Replaced
  <2>4. PoolFreeAt(a)' \subseteq 1 .. N /\ PoolFreeAt(a) \subseteq 1 .. N
    BY <1>5, <1>8 DEF PoolFreeAt
  <2>5. \A k \in 1 .. N : k # m => g[k] # i
    BY <1>7 DEF Replaced
  <2>6. CASE Covers(b.ptr, n, a)
    <3>1. i \in PoolFreeAt(a) /\ ~ Covers(rest.ptr, rest.size, a)
      BY <1>2, <1>3, <1>4, <1>12, <2>6 DEF Covers
    <3>2. PoolFreeAt(a) = {i} /\ PoolUsedAt(a) = {}
      BY <1>11, <3>1
    <3>3. PoolFreeAt(a)' = {}
      BY <2>2, <2>3, <2>4, <2>5, <3>1, <3>2
    <3>4. PoolUsedAt(a)' = {b.ptr} /\ b.ptr \in Pointers'
      BY <1>9, <2>1, <2>6, <3>2
    <3> QED BY <3>3, <3>4 DEF OneBlock
  <2>7. CASE Covers(rest.ptr, rest.size, a)
    <3>1. i \in PoolFreeAt(a) /\ ~ Covers(b.ptr, n, a)
      <4>1. b.ptr + n <= a /\ a < (b.ptr + n) + (b.size - n)
        BY <1>3, <2>7 DEF Covers
      <4> QED BY <1>2, <1>4, <1>12, <4>1 DEF Covers
    <3>2. PoolFreeAt(a) = {i} /\ PoolUsedAt(a) = {}
      BY <1>11, <3>1
    <3>3. PoolFreeAt(a)' = {m} /\ m \in DOMAIN free_list'
      BY <1>8, <2>2, <2>3, <2>4, <2>5, <2>7, <3>2
    <3>4. PoolUsedAt(a)' = {}
      BY <2>1, <3>1, <3>2
    <3> QED BY <3>3, <3>4 DEF OneBlock
  <2>8. CASE ~ Covers(b.ptr, n, a) /\ ~ Covers(rest.ptr, rest.size, a)
    <3>1. i \notin PoolFreeAt(a)
      BY <1>2, <1>3, <1>4, <1>12, <2>8 DEF Covers
    <3>2. PoolUsedAt(a)' = PoolUsedAt(a) /\ m \notin PoolFreeAt(a)'
      BY <2>1, <2>3, <2>8
    <3>3. OneBlock(a)
      BY DEF PoolInv, OneBlockEach
    <3>4. CASE PoolUsedAt(a) = {} /\ \E j \in DOMAIN free_list : PoolFreeAt(a) = {j}
      <4>1. PICK j \in 1 .. N : PoolFreeAt(a) = {j}
        BY <1>5, <3>4
      <4>2. PICK k \in 1 .. N : g[k] = j
        BY <1>7 DEF Replaced
      <4>3. k # m
        BY <1>7, <3>1, <4>1, <4>2 DEF Replaced
      <4>4. \A x \in 1 .. N : g[x] = j => x = k
        BY <1>7, <4>2 DEF Replaced
      <4>5. PoolFreeAt(a)' = {k}
        BY <2>2, <2>4, <3>2, <4>1, <4>2, <4>3, <4>4
      <4> QED BY <1>8, <3>2, <3>4, <4>5 DEF OneBlock
    <3>5. CASE PoolFreeAt(a) = {} /\ \E p \in Pointers : PoolUsedAt(a) = {p}
      <4>1. PoolFreeAt(a)' = {}
        BY <2>2, <2>4, <3>2, <3>5
      <4> QED BY <1>9, <3>2, <3>5, <4>1 DEF OneBlock
    <3> QED BY <3>3, <3>4, <3>5 DEF OneBlock
  <2> QED BY <2>6, <2>7, <2>8
<1> QED BY <1>9, <1>14, <1>15 DEF PoolInv, OneBlockEach

(***************************************************************************)
(* free.                                                                   *)
(***************************************************************************)
\* Free keeps the tiling: the addresses of the block go from the blocks in use
\* to the free ones.
LEMMA PoolFreeKeeps == ASSUME PoolInv, NEW p \in DOMAIN used_list, PoolFree(p) PROVE PoolInv'
<1> DEFINE b == Block(used_list[p], p)
           N == Len(free_list)
<1>1. /\ free_list \in Seq(FreeBlock) /\ Sorted(free_list) /\ DOMAIN free_list = 1 .. N /\ N \in Nat
      /\ capacity \in Nat \ {0}
  BY BlocksAre
<1>2. p \in Pointers
  BY DEF PoolFree, Pointers
<1>3. p \in Nat /\ used_list[p] \in Nat \ {0} /\ p + used_list[p] <= capacity
  BY <1>2, BlocksAre
<1>4. b \in FreeBlock /\ b.ptr = p /\ b.size = used_list[p]
  BY <1>1, <1>3 DEF Block, FreeBlock, Addresses
<1>5. free_list' = Insert(free_list, b)
  BY DEF PoolFree
<1> HIDE DEF b, N
<1>6. /\ free_list' \in Seq(FreeBlock) /\ Sorted(free_list') /\ Len(free_list') = N + 1
      /\ \E m \in 1 .. N + 1 :
           /\ free_list'[m] = b
           /\ \A k \in 1 .. N : free_list'[IF k < m THEN k ELSE k + 1] = free_list[k]
           /\ \A k \in 1 .. N + 1 : k # m => free_list'[k] = free_list[IF k < m THEN k ELSE k - 1]
  <2> DEFINE new == Insert(free_list, b)
  <2>1. /\ new \in Seq(FreeBlock) /\ Sorted(new) /\ Len(new) = Len(free_list) + 1
        /\ \E m \in 1 .. Len(free_list) + 1 :
             /\ new[m] = b
             /\ \A k \in 1 .. Len(free_list) : new[IF k < m THEN k ELSE k + 1] = free_list[k]
             /\ \A k \in 1 .. Len(free_list) + 1 :
                  k # m => new[k] = free_list[IF k < m THEN k ELSE k - 1]
    BY <1>1, <1>4, InsertKeeps
  <2>2. free_list' = new
    BY <1>5
  <2> HIDE DEF new
  <2> QED BY <2>1, <2>2 DEF N
<1>7. PICK m \in 1 .. N + 1 :
        /\ free_list'[m] = b
        /\ \A k \in 1 .. N : free_list'[IF k < m THEN k ELSE k + 1] = free_list[k]
        /\ \A k \in 1 .. N + 1 : k # m => free_list'[k] = free_list[IF k < m THEN k ELSE k - 1]
  BY <1>6
<1>8. DOMAIN free_list' = 1 .. N + 1
  BY <1>1, <1>6
<1> DEFINE old(k) == IF k < m THEN k ELSE k - 1
           place(k) == IF k < m THEN k ELSE k + 1
<1>9. /\ \A k \in 1 .. N + 1 : k # m => old(k) \in 1 .. N /\ place(old(k)) = k
      /\ \A k \in 1 .. N : place(k) \in 1 .. N + 1 /\ place(k) # m /\ old(place(k)) = k
  BY <1>1
<1>10. \A k \in 1 .. N + 1 : k # m => free_list'[k] = free_list[old(k)]
  BY <1>7
<1> HIDE DEF old, place
<1>11. /\ DOMAIN used_list' = DOMAIN used_list \ {p}
       /\ \A q \in DOMAIN used_list' : used_list'[q] = used_list[q]
       /\ used_list' = [q \in DOMAIN used_list \ {p} |-> used_list[q]]
  BY DEF PoolFree, Restrict
<1>12. Pointers' = Pointers \ {p} /\ \A q \in Pointers' : used_list'[q] = used_list[q]
  BY <1>11 DEF Pointers
<1>13. UsedOK'
  <2>1. UsedOK
    BY DEF PoolInv
  <2>2. used_list' \in [DOMAIN used_list' -> Nat]
    BY <1>11, <2>1 DEF UsedOK
  <2>3. null \in DOMAIN used_list' => used_list'[null] = 0
    BY <1>11, <2>1 DEF UsedOK
  <2> QED BY <2>2, <2>3 DEF UsedOK
<1>14. PoolTypeOK'
  <2>1. ASSUME NEW k \in DOMAIN free_list' PROVE free_list'[k].ptr + free_list'[k].size <= capacity
    <3>1. CASE k = m
      BY <1>3, <1>4, <1>7, <3>1
    <3>2. CASE k # m
      <4>1. old(k) \in DOMAIN free_list /\ free_list'[k] = free_list[old(k)]
        BY <1>1, <1>8, <1>9, <1>10, <3>2
      <4> QED BY <4>1, BlocksAre
    <3> QED BY <3>1, <3>2
  <2>2. \A q \in Pointers' : q \in Addresses /\ q + used_list'[q] <= capacity
    BY <1>12 DEF PoolInv, PoolTypeOK
  <2> QED BY <1>6, <2>1, <2>2 DEF PoolTypeOK, FreeBlock, Sorted, Addresses
<1>15. ASSUME NEW a \in 0 .. capacity - 1 PROVE OneBlock(a)'
  <2>1. PoolUsedAt(a)' = PoolUsedAt(a) \ {p}
    BY <1>12 DEF PoolUsedAt
  <2>2. \A k \in 1 .. N + 1 : k # m => (k \in PoolFreeAt(a)' <=> old(k) \in PoolFreeAt(a))
    BY <1>1, <1>8, <1>9, <1>10 DEF PoolFreeAt
  <2>3. m \in PoolFreeAt(a)' <=> Covers(p, used_list[p], a)
    BY <1>4, <1>7, <1>8 DEF PoolFreeAt
  <2>4. p \in PoolUsedAt(a) <=> Covers(p, used_list[p], a)
    BY <1>2 DEF PoolUsedAt
  <2>5. PoolFreeAt(a)' \subseteq 1 .. N + 1 /\ PoolFreeAt(a) \subseteq 1 .. N
    BY <1>1, <1>8 DEF PoolFreeAt
  <2>6. OneBlock(a)
    BY DEF PoolInv, OneBlockEach
  <2>7. CASE p \in PoolUsedAt(a)
    <3>1. PoolFreeAt(a) = {} /\ PoolUsedAt(a) = {p}
      BY <2>6, <2>7 DEF OneBlock
    <3>2. PoolFreeAt(a)' = {m}
      BY <1>9, <2>2, <2>3, <2>4, <2>5, <2>7, <3>1
    <3>3. PoolUsedAt(a)' = {}
      BY <2>1, <3>1
    <3> QED BY <1>8, <3>2, <3>3 DEF OneBlock
  <2>8. CASE p \notin PoolUsedAt(a)
    <3>1. PoolUsedAt(a)' = PoolUsedAt(a) /\ m \notin PoolFreeAt(a)'
      BY <2>1, <2>3, <2>4, <2>8
    <3>2. CASE PoolUsedAt(a) = {} /\ \E j \in DOMAIN free_list : PoolFreeAt(a) = {j}
      <4>1. PICK j \in 1 .. N : PoolFreeAt(a) = {j}
        BY <1>1, <3>2
      <4>2. place(j) \in 1 .. N + 1 /\ place(j) # m /\ old(place(j)) = j
        BY <1>9
      <4>3. \A k \in 1 .. N + 1 : k # m /\ old(k) = j => k = place(j)
        BY <1>9
      <4>4. PoolFreeAt(a)' = {place(j)}
        BY <2>2, <2>5, <3>1, <4>1, <4>2, <4>3
      <4> QED BY <1>8, <3>1, <3>2, <4>2, <4>4 DEF OneBlock
    <3>3. CASE PoolFreeAt(a) = {} /\ \E q \in Pointers : PoolUsedAt(a) = {q}
      <4>1. PoolFreeAt(a)' = {}
        BY <1>9, <2>2, <2>5, <3>1, <3>3
      <4>2. PICK q \in Pointers : PoolUsedAt(a) = {q}
        BY <3>3
      <4>3. q \in Pointers'
        BY <1>12, <2>8, <4>2
      <4> QED BY <3>1, <4>1, <4>2, <4>3 DEF OneBlock
    <3> QED BY <2>6, <3>2, <3>3 DEF OneBlock
  <2> QED BY <2>7, <2>8
<1> QED BY <1>13, <1>14, <1>15 DEF PoolInv, OneBlockEach

\* The entry for the null pointer changes no block.
LEMMA PoolNullIs ==
  ASSUME PoolInv, PoolFreeNull
  PROVE  /\ UsedOK' /\ Pointers' = Pointers
         /\ \A q \in Pointers : used_list'[q] = used_list[q]
<1>1. Use(null, 0)
  BY DEF PoolFreeNull
<1>2. /\ DOMAIN used_list' = DOMAIN used_list \cup {null}
      /\ used_list'[null] = 0
      /\ \A q \in DOMAIN used_list : q # null => used_list'[q] = used_list[q]
  BY <1>1, UseIs
<1>3. UsedOK
  BY DEF PoolInv
<1>4. null \notin Pointers
  BY <1>3 DEF UsedOK, Pointers
<1>5. Pointers' = Pointers
  BY <1>2, <1>4 DEF Pointers
<1>6. \A q \in Pointers : used_list'[q] = used_list[q]
  BY <1>2, <1>4 DEF Pointers
<1>7. used_list' \in [DOMAIN used_list' -> Nat]
  BY <1>1, <1>2, <1>3 DEF Use, UsedOK
<1> QED BY <1>2, <1>5, <1>6, <1>7 DEF UsedOK

\* Giving back the null pointer keeps it.
LEMMA PoolFreeNullKeeps == ASSUME PoolInv, PoolFreeNull PROVE PoolInv'
<1>1. /\ UsedOK' /\ Pointers' = Pointers
      /\ \A q \in Pointers : used_list'[q] = used_list[q]
  BY PoolNullIs
<1>2. free_list' = free_list
  BY DEF PoolFreeNull
<1>3. PoolTypeOK'
  BY <1>1, <1>2 DEF PoolInv, PoolTypeOK
<1>4. \A a \in 0 .. capacity - 1 : PoolFreeAt(a)' = PoolFreeAt(a) /\ PoolUsedAt(a)' = PoolUsedAt(a)
  BY <1>1, <1>2 DEF PoolFreeAt, PoolUsedAt
<1>5. OneBlockEach'
  BY <1>1, <1>2, <1>4 DEF PoolInv, OneBlockEach, OneBlock
<1> QED BY <1>1, <1>3, <1>5 DEF PoolInv

(***************************************************************************)
(* The theorems.                                                           *)
(***************************************************************************)
LEMMA PoolInvNext == PoolInv /\ [PoolNext]_poolVars => PoolInv'
<1> SUFFICES ASSUME PoolInv, [PoolNext]_poolVars PROVE PoolInv'
  OBVIOUS
<1>1. CASE \E n \in PoolSizes : PoolAlloc(n)
  BY <1>1, PoolAllocKeeps
<1>2. CASE \E n \in PoolSizes : PoolAllocFails(n)
  BY <1>2 DEF PoolAllocFails, poolVars, PoolInv, PoolTypeOK, UsedOK, OneBlockEach, OneBlock,
              PoolFreeAt, PoolUsedAt, Pointers
<1>3. CASE \E p \in DOMAIN used_list : PoolFree(p)
  BY <1>3, PoolFreeKeeps
<1>4. CASE PoolFreeNull
  BY <1>4, PoolFreeNullKeeps
<1>5. CASE UNCHANGED poolVars
  BY <1>5 DEF poolVars, PoolInv, PoolTypeOK, UsedOK, OneBlockEach, OneBlock,
              PoolFreeAt, PoolUsedAt, Pointers
<1> QED BY <1>1, <1>2, <1>3, <1>4, <1>5 DEF PoolNext

\* The inductive invariant holds in every reachable state.
THEOREM PoolInductive == PoolSpec => []PoolInv
<1>1. PoolInit => PoolInv
  BY PoolInvInit
<1>2. PoolInv /\ [PoolNext]_poolVars => PoolInv'
  BY PoolInvNext
<1> QED BY <1>1, <1>2, PTL DEF PoolSpec

\* The free list of MemoryPool stays sorted, as alloc's search for the best fit relies on, and
\* every block lies in the memory.
THEOREM PoolTypeCorrect == PoolSpec => []PoolTypeOK
<1>1. PoolInv => PoolTypeOK
  BY DEF PoolInv
<1> QED BY <1>1, PoolInductive, PTL

\* Every address of the memory belongs to exactly one block, in use or free, after
\* any sequence of MemoryPool's alloc and free: nothing is handed out twice, nothing
\* is lost.
THEOREM PoolTiled == PoolSpec => []PoolTiling
BY OneBlockTiles, PoolInductive, PTL

(***************************************************************************)
(* The refinement.                                                         *)
(***************************************************************************)
\* What an Allocator sees of the pool.
poolLive == Restrict(used_list, Pointers)

\* poolLive as a function.
LEMMA PoolLiveIs ==
  /\ DOMAIN poolLive = Pointers
  /\ \A q \in Pointers : poolLive[q] = used_list[q]
  /\ poolLive = [q \in Pointers |-> used_list[q]]
BY DEF poolLive, Restrict

\* What is handed out is cut off a free block, so it shares no address with a block
\* in use: an address they shared would belong to two blocks.
LEMMA PoolAllocRefines == ASSUME PoolInv, NEW n \in PoolSizes, PoolAlloc(n) PROVE Live!Alloc(n)
<1>1. PICK i \in DOMAIN free_list :
        LET b == free_list[i]
            rest == Block(b.size - n, b.ptr + n)
        IN  /\ b \in FreeBlock /\ n \in Nat \ {0} /\ n <= b.size /\ b.ptr + b.size <= capacity
            /\ rest \in FreeBlock /\ rest.ptr + rest.size <= capacity
            /\ free_list' = Insert(RemoveAt(free_list, i), rest)
            /\ Use(b.ptr, n)
  BY PoolAllocIs
<1> DEFINE b == free_list[i]
           p == b.ptr
<1>2. n \in Nat \ {0} /\ n <= b.size /\ p + b.size <= capacity /\ Use(p, n)
  BY <1>1
<1>3. p \in Nat /\ b.size \in Nat /\ capacity \in Nat
  BY BlocksAre
<1>4. \A a \in 0 .. capacity - 1 : p <= a /\ a < p + b.size => PoolUsedAt(a) = {}
  <2>1. SUFFICES ASSUME NEW a \in 0 .. capacity - 1, p <= a, a < p + b.size PROVE PoolUsedAt(a) = {}
    OBVIOUS
  <2>2. i \in PoolFreeAt(a)
    BY <2>1 DEF PoolFreeAt, Covers
  <2>3. OneBlock(a)
    BY DEF PoolInv, OneBlockEach
  <2> QED BY <2>2, <2>3 DEF OneBlock
<1>5. ASSUME NEW q \in Pointers PROVE p + n <= q \/ q + used_list[q] <= p
  <2>1. q \in Nat /\ used_list[q] \in Nat \ {0} /\ q + used_list[q] <= capacity
    BY BlocksAre
  <2>2. SUFFICES ASSUME q < p + n, p < q + used_list[q] PROVE FALSE
    BY <1>2, <1>3, <2>1
  <2>3. PICK a \in 0 .. capacity - 1 : a = IF p <= q THEN q ELSE p
    BY <1>2, <1>3, <2>1
  <2>4. q \in PoolUsedAt(a)
    BY <1>3, <2>1, <2>2, <2>3 DEF PoolUsedAt, Covers
  <2>5. PoolUsedAt(a) = {}
    BY <1>2, <1>3, <1>4, <2>1, <2>2, <2>3
  <2> QED BY <2>4, <2>5
<1>6. p \notin Pointers
  <2>1. p + n <= capacity
    BY <1>2, <1>3
  <2>2. p \in Pointers => p + n <= p \/ p + used_list[p] <= p
    BY <1>5
  <2> QED BY <1>2, <1>3, <2>2, BlocksAre
<1>7. /\ Pointers' = Pointers \cup {p}
      /\ \A q \in Pointers : q # p => used_list'[q] = used_list[q]
      /\ used_list'[p] = n
  <2>1. p + n <= capacity
    BY <1>2, <1>3
  <2> QED BY <1>2, <1>3, <2>1, PoolUseKeeps, UseIs
<1>8. poolLive' = [a \in DOMAIN poolLive \cup {p} |-> IF a = p THEN n ELSE poolLive[a]]
  BY <1>6, <1>7, PoolLiveIs DEF poolLive, Restrict
<1>9. \A q \in DOMAIN poolLive : p + n <= q \/ q + poolLive[q] <= p
  BY <1>5, PoolLiveIs
<1>10. PICK x \in 0 .. capacity - n : x = p
  BY <1>2, <1>3
<1> HIDE DEF p
<1>11. \E x_ \in 0 .. capacity - n :
         /\ \A q \in DOMAIN poolLive : x_ + n <= q \/ q + poolLive[q] <= x_
         /\ poolLive' = [a \in DOMAIN poolLive \cup {x_} |-> IF a = x_ THEN n ELSE poolLive[a]]
  BY <1>8, <1>9, <1>10
<1> QED BY <1>11 DEF Live!Alloc, poolLive

\* Giving a block back is a step of an Allocator.
LEMMA PoolFreeRefines == ASSUME PoolInv, NEW p \in DOMAIN used_list, PoolFree(p) PROVE p \in DOMAIN poolLive /\ Live!Free(p)
<1>1. p \in Pointers
  BY DEF PoolFree, Pointers
<1>2. /\ DOMAIN used_list' = DOMAIN used_list \ {p}
      /\ \A q \in DOMAIN used_list' : used_list'[q] = used_list[q]
  BY DEF PoolFree, Restrict
<1>3. Pointers' = Pointers \ {p} /\ \A q \in Pointers' : used_list'[q] = used_list[q]
  BY <1>2 DEF Pointers
<1>4. poolLive' = [q \in DOMAIN poolLive \ {p} |-> poolLive[q]]
  BY <1>3, PoolLiveIs DEF poolLive, Restrict
<1> QED BY <1>1, <1>4, PoolLiveIs DEF Live!Free, Live!Restrict, poolLive

\* The initial states and the steps of an Allocator.
LEMMA PoolInitRefines == PoolInit => Live!Init
<1> SUFFICES ASSUME PoolInit PROVE poolLive = << >>
  BY DEF Live!Init, poolLive
<1>1. Pointers = {}
  BY DEF PoolInit, Pointers
<1>2. poolLive = [q \in {} |-> used_list[q]]
  BY <1>1, PoolLiveIs
<1> QED BY <1>2

\* A step of the pool is a step of an Allocator or changes nothing that it sees.
LEMMA PoolNextRefines == PoolInv /\ [PoolNext]_poolVars => [Live!Next]_poolLive
<1> SUFFICES ASSUME PoolInv, [PoolNext]_poolVars PROVE [Live!Next]_poolLive
  OBVIOUS
<1>1. CASE \E n \in PoolSizes : PoolAlloc(n)
  BY <1>1, PoolAllocRefines DEF Live!Next
<1>2. CASE \E n \in PoolSizes : PoolAllocFails(n)
  BY <1>2 DEF PoolAllocFails, poolVars, poolLive, Pointers
<1>3. CASE \E p \in DOMAIN used_list : PoolFree(p)
  BY <1>3, PoolFreeRefines DEF Live!Next, poolLive
<1>4. CASE PoolFreeNull
  BY <1>4, PoolNullIs, PoolLiveIs DEF poolLive, Restrict
<1>5. CASE UNCHANGED poolVars
  BY <1>5 DEF poolVars, poolLive, Pointers
<1> QED BY <1>1, <1>2, <1>3, <1>4, <1>5 DEF PoolNext

\* The pool is an allocator: what alloc hands out lies in the memory and shares no
\* address with what is in use, until free gives it back.
THEOREM PoolRefinement == PoolSpec => PoolAllocatorSpec
<1>1. PoolInit => Live!Init
  BY PoolInitRefines
<1>2. PoolInv /\ [PoolNext]_poolVars => [Live!Next]_poolLive
  BY PoolNextRefines
<1> QED BY <1>1, <1>2, PoolInductive, PTL DEF PoolSpec, PoolAllocatorSpec, Live!Spec, poolLive
=============================================================================
