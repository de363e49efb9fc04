-------------------------- MODULE RingBuffer_proofs --------------------------
(***************************************************************************)
(* Proofs about RingBuffer for every width of the positions, every         *)
(* capacity asked for and every batch: type correctness, and that the ring *)
(* implements ByteFifo.                                                    *)
(***************************************************************************)
EXTENDS RingBuffer, SequenceTheorems, NaturalLemmas

(***************************************************************************)
(* The capacity divides the word, with a factor of two at least.           *)
(***************************************************************************)
Capacities == {Pow2[k] : k \in 1 .. Width - 1}

LEMMA CapacityDivides ==
  ASSUME NEW c \in Capacities
  PROVE  /\ c \in Nat \ {0} /\ Word \in Nat \ {0} /\ 2 * c <= Word
         /\ \E m \in Nat : Word = c * m
<1>1. PICK k \in 1 .. Width - 1 : c = Pow2[k]
  BY DEF Capacities
<1>2. k \in Nat /\ Width - 1 - k \in Nat /\ Width - k \in Nat /\ Width \in Nat
  BY WidthAssumption
<1>3. Word = c * Pow2[Width - k]
  <2>1. k + (Width - k) = Width
    BY <1>2
  <2> QED BY <1>1, <1>2, <2>1, Pow2Divides DEF Word
<1>4. c \in Nat \ {0} /\ Pow2[Width - k] \in Nat \ {0} /\ Word \in Nat \ {0}
  BY <1>1, <1>2, Pow2Type DEF Word
<1>5. 2 * c <= Word
  <2>1. k + 1 \in Nat /\ (k + 1) + (Width - 1 - k) = Width
    BY <1>2
  <2>2. Pow2[k + 1] = 2 * c /\ Pow2[k + 1] <= Word
    BY <1>1, <1>2, <2>1, Pow2Step, Pow2Grows DEF Word
  <2> QED BY <2>2
<1> QED BY <1>3, <1>4, <1>5

\* A position is masked to the same slot before and after it wraps.
LEMMA CellOfWord ==
  ASSUME capacity \in Capacities, NEW a \in Nat, NEW b \in Nat
  PROVE  Cell((a % Word) + b) = Cell(a + b)
<1>1. capacity \in Nat \ {0} /\ Word \in Nat \ {0}
  BY CapacityDivides
<1>2. PICK m \in Nat : Word = capacity * m
  BY CapacityDivides
<1>3. PICK x \in Nat : a = Word * x + (a % Word) /\ a % Word \in 0 .. Word - 1
  BY <1>1, RemainderSplit
<1> DEFINE r == a % Word
           y == m * x
<1>4. r \in Nat /\ r + b \in Nat /\ y \in Nat
  BY <1>1, <1>3
<1>5. Word * x = capacity * y
  BY <1>1, <1>2
<1> HIDE DEF r, y
<1>6. a + b = (r + b) + capacity * y
  <2>1. a = capacity * y + r
    BY <1>3, <1>5 DEF r
  <2>2. capacity * y \in Int
    BY <1>1, <1>4
  <2> QED BY <1>4, <2>1, <2>2
<1>7. ((r + b) + capacity * y) % capacity = (r + b) % capacity
  BY <1>1, <1>4, RemainderRounds
<1> QED BY <1>6, <1>7 DEF Cell, r

LEMMA CellOfWordAlone ==
  ASSUME capacity \in Capacities, NEW a \in Nat
  PROVE  Cell(a % Word) = Cell(a) /\ Cell(a) \in 0 .. capacity - 1
<1>1. capacity \in Nat \ {0} /\ Word \in Nat \ {0}
  BY CapacityDivides
<1>2. a % Word \in Nat
  BY <1>1
<1>3. Cell((a % Word) + 0) = Cell(a + 0)
  BY CellOfWord
<1>4. (a % Word) + 0 = a % Word /\ a + 0 = a
  BY <1>2
<1>5. Cell(a) \in 0 .. capacity - 1
  BY <1>1 DEF Cell
<1> QED BY <1>3, <1>4, <1>5

\* The difference of two words, without the remainder.
LEMMA MinusIs ==
  ASSUME NEW a \in Counts, NEW b \in Counts, Word \in Nat \ {0}
  PROVE  /\ Minus(a, b) = IF b <= a THEN a - b ELSE a + Word - b
         /\ Minus(a, b) \in Counts
<1>1. CASE b <= a
  <2>1. a + Word - b = (a - b) + Word /\ a - b \in Nat /\ a - b \in 0 .. Word - 1
    BY <1>1 DEF Counts
  <2>2. ((a - b) + Word) % Word = (a - b) % Word
    BY <2>1, RemainderNextRound
  <2>3. (a - b) % Word = a - b
    BY <2>1, RemainderSelf
  <2> QED BY <1>1, <2>1, <2>2, <2>3 DEF Minus, Counts
<1>2. CASE ~ (b <= a)
  <2>1. a + Word - b \in 0 .. Word - 1
    BY <1>2 DEF Counts
  <2>2. (a + Word - b) % Word = a + Word - b
    BY <2>1, RemainderSelf
  <2> QED BY <1>2, <2>1, <2>2 DEF Minus, Counts
<1> QED BY <1>1, <1>2

\* The sum of two words, without the remainder.
LEMMA PlusIs ==
  ASSUME NEW a \in Counts, NEW b \in Counts, Word \in Nat \ {0}
  PROVE  /\ (a + b) % Word = IF a + b < Word THEN a + b ELSE a + b - Word
         /\ (a + b) % Word \in Counts
<1>1. CASE a + b < Word
  <2>1. a + b \in 0 .. Word - 1
    BY <1>1 DEF Counts
  <2> QED BY <1>1, <2>1, RemainderSelf DEF Counts
<1>2. CASE ~ (a + b < Word)
  <2> DEFINE d == a + b - Word
  <2>1. d \in 0 .. Word - 1 /\ d \in Nat /\ a + b = d + Word
    BY <1>2 DEF Counts
  <2> HIDE DEF d
  <2>2. (d + Word) % Word = d % Word /\ d % Word = d
    BY <2>1, RemainderNextRound, RemainderSelf
  <2> QED BY <1>2, <2>1, <2>2 DEF Counts, d
<1> QED BY <1>1, <1>2

\* The slot of q + d and the slot of q - d, counted from the slot of q on.
LEMMA CellAfter ==
  ASSUME capacity \in Nat \ {0}, NEW p \in Nat, NEW q \in Nat,
         NEW d \in 0 .. capacity - 1, p = q + d
  PROVE  (Cell(p) + capacity - Cell(q)) % capacity = d
<1>1. PICK a \in Nat : p = capacity * a + Cell(p) /\ Cell(p) \in 0 .. capacity - 1
  BY RemainderSplit DEF Cell
<1>2. PICK b \in Nat : q = capacity * b + Cell(q) /\ Cell(q) \in 0 .. capacity - 1
  BY RemainderSplit DEF Cell
<1> DEFINE n == Cell(p) + capacity - Cell(q)
           x == capacity * a
           y == capacity * b
<1>3. capacity * (b - a + 1) = y - x + capacity /\ x \in Int /\ y \in Int
  OBVIOUS
<1>4. n \in Nat /\ p = x + Cell(p) /\ q = y + Cell(q) /\ b - a + 1 \in Int
  BY <1>1, <1>2
<1> HIDE DEF x, y
<1>5. n = capacity * (b - a + 1) + d
  BY <1>1, <1>2, <1>3, <1>4
<1> HIDE DEF n
<1> QED BY <1>4, <1>5, RemainderOf DEF n

LEMMA CellBefore ==
  ASSUME capacity \in Nat \ {0}, NEW p \in Nat, NEW q \in Nat,
         NEW d \in 1 .. capacity, q = p + d
  PROVE  (Cell(p) + capacity - Cell(q)) % capacity = capacity - d
<1>1. PICK a \in Nat : p = capacity * a + Cell(p) /\ Cell(p) \in 0 .. capacity - 1
  BY RemainderSplit DEF Cell
<1>2. PICK b \in Nat : q = capacity * b + Cell(q) /\ Cell(q) \in 0 .. capacity - 1
  BY RemainderSplit DEF Cell
<1> DEFINE n == Cell(p) + capacity - Cell(q)
           x == capacity * a
           y == capacity * b
<1>3. capacity * (b - a) = y - x /\ x \in Int /\ y \in Int
  OBVIOUS
<1>4. n \in Nat /\ p = x + Cell(p) /\ q = y + Cell(q) /\ b - a \in Int
  BY <1>1, <1>2
<1> HIDE DEF x, y
<1>5. n = capacity * (b - a) + (capacity - d) /\ capacity - d \in 0 .. capacity - 1
  BY <1>1, <1>2, <1>3, <1>4
<1> HIDE DEF n
<1> QED BY <1>4, <1>5, RemainderOf DEF n

\* The capacity is a power of two, not less than what is asked for and not
\* more than twice as much.
LEMMA RoundedUp ==
  /\ RoundUpPowerOf2(Asked) \in Capacities
  /\ RoundUpPowerOf2(Asked) \in Asked .. 2 * (Asked + 1)
<1>1. Asked \in Nat /\ Asked <= Pow2[Width - 1] /\ Width - 1 \in Nat /\ 1 \in 1 .. Width - 1
  BY AskedAssumption, WidthAssumption, Pow2Type
<1>2. CASE Asked < 2
  <2>1. Pow2[0 + 1] = 2
    BY Pow2Step
  <2>2. 2 \in Capacities
    BY <1>1, <2>1 DEF Capacities
  <2> QED BY <1>1, <1>2, <2>2 DEF RoundUpPowerOf2
<1>3. CASE ~ (Asked < 2) /\ IsPowerOf2(Asked)
  BY <1>1, <1>3 DEF RoundUpPowerOf2, IsPowerOf2, Capacities
<1>4. CASE ~ (Asked < 2) /\ ~ IsPowerOf2(Asked)
  <2> DEFINE T == {k \in 0 .. Width : Asked < Pow2[k]}
  <2>1. Asked # Pow2[Width - 1] /\ Width - 1 \in 0 .. Width /\ Pow2[Width - 1] \in Nat
    <3>1. Width - 1 \in 1 .. Width - 1 /\ Width - 1 \in 0 .. Width
      BY WidthAssumption
    <3> QED BY <1>1, <1>4, <3>1, Pow2Type DEF IsPowerOf2
  <2>2. Width - 1 \in T
    BY <1>1, <2>1
  <2>3. \E k \in T : \A i \in T : k <= i
    <3>1. T \in SUBSET Nat /\ T # {}
      BY <2>2
    <3> HIDE DEF T
    <3> QED BY <3>1, LeastNatural
  <2>4. BitLength(Asked) = Min(T)
    BY DEF BitLength
  <2>5. Min(T) \in T /\ \A i \in T : Min(T) <= i
    <3> HIDE DEF T
    <3> QED BY <2>3 DEF Min
  <2> DEFINE b == BitLength(Asked)
  <2>6. b \in 0 .. Width /\ Asked < Pow2[b] /\ b <= Width - 1 /\ \A i \in T : b <= i
    BY <2>2, <2>4, <2>5
  <2>7. b # 0
    BY <1>1, <1>4, <2>6, Pow2Step
  <2>8. b - 1 \in 0 .. Width /\ b - 1 \notin T /\ b - 1 \in Nat
    <3> HIDE DEF b, T
    <3> QED BY <2>6, <2>7, WidthAssumption
  <2>9. Pow2[b - 1] <= Asked
    BY <1>1, <2>8, Pow2Type
  <2>10. Pow2[b] = 2 * Pow2[b - 1]
    <3>1. (b - 1) + 1 = b
      BY <2>6
    <3> QED BY <2>8, <3>1, Pow2Step
  <2>11. Pow2[b] \in Capacities
    BY <2>6, <2>7 DEF Capacities
  <2>12. RoundUpPowerOf2(Asked) = Pow2[b]
    BY <1>4 DEF RoundUpPowerOf2
  <2>13. Pow2[b] \in Nat /\ Pow2[b - 1] \in Nat
    BY <2>6, <2>8, Pow2Type
  <2> HIDE DEF b
  <2> QED BY <1>1, <2>6, <2>9, <2>10, <2>11, <2>12, <2>13
<1> QED BY <1>2, <1>3, <1>4

(***************************************************************************)
(* The inductive invariant.                                                *)
(***************************************************************************)
\* What lies between the positions has been written.
ItemsWritten == \A k \in 1 .. Size : buffer[Cell(read_pos + k - 1)] \in Val

\* The items of the last read are still in the ring, just behind the read
\* position, and there is room to have them back.
LastReadKept ==
  /\ Size + Len(out) <= capacity
  /\ \A k \in 1 .. Len(out) : buffer[Cell(Minus(read_pos, Len(out)) + k - 1)] = out[k]

IInv == TypeOK /\ ItemsWritten /\ LastReadKept

\* What the invariant says of the positions.
LEMMA Positions ==
  ASSUME IInv
  PROVE  /\ capacity \in Capacities /\ capacity \in Nat \ {0}
         /\ Word \in Nat \ {0} /\ 2 * capacity <= Word
         /\ read_pos \in Counts /\ write_pos \in Counts
         /\ Size \in 0 .. capacity
         /\ Remain = capacity - Size
         /\ write_pos = (read_pos + Size) % Word
<1>1. /\ capacity \in Capacities /\ read_pos \in Counts /\ write_pos \in Counts
      /\ Size <= capacity
  BY DEF IInv, TypeOK, Capacities
<1>2. capacity \in Nat \ {0} /\ Word \in Nat \ {0} /\ 2 * capacity <= Word
  BY <1>1, CapacityDivides
<1>3. Size = IF read_pos <= write_pos THEN write_pos - read_pos ELSE write_pos + Word - read_pos
  BY <1>1, <1>2, MinusIs DEF Size
<1>4. Size \in Counts /\ Size \in 0 .. capacity
  BY <1>1, <1>2, MinusIs DEF Size, Counts
<1>5. Remain = capacity - Size
  <2>1. capacity \in Counts
    BY <1>2 DEF Counts
  <2> QED BY <1>2, <1>4, <2>1, MinusIs DEF Remain
<1>6. write_pos = (read_pos + Size) % Word
  <2> DEFINE s == Size
  <2>1. s \in Counts /\ s = IF read_pos <= write_pos THEN write_pos - read_pos ELSE write_pos + Word - read_pos
    BY <1>3, <1>4
  <2> HIDE DEF s
  <2>2. (read_pos + s) % Word = IF read_pos + s < Word THEN read_pos + s ELSE read_pos + s - Word
    BY <1>1, <1>2, <2>1, PlusIs
  <2>3. write_pos = (read_pos + s) % Word
    BY <1>1, <1>2, <2>1, <2>2 DEF Counts
  <2> QED BY <2>3 DEF s
<1> QED BY <1>1, <1>2, <1>4, <1>5, <1>6

\* A distance between words is what has to be added.
LEMMA SizeFrom ==
  ASSUME Word \in Nat \ {0}, NEW r \in Counts, NEW n \in Counts
  PROVE  Minus((r + n) % Word, r) = n
<1>1. (r + n) % Word \in Counts
  BY PlusIs
<1>2. (r + n) % Word = IF r + n < Word THEN r + n ELSE r + n - Word
  BY PlusIs
<1> DEFINE w == (r + n) % Word
<1> HIDE DEF w
<1>3. Minus(w, r) = IF r <= w THEN w - r ELSE w + Word - r
  BY <1>1, MinusIs DEF w
<1>4. Minus(w, r) = n
  BY <1>1, <1>2, <1>3 DEF w, Counts
<1> QED BY <1>4 DEF w

\* The items between the positions, without the wrapping of the positions.
AreContents ==
  /\ Contents \in Seq(Val) /\ Len(Contents) = Size
  /\ \A k \in 1 .. Size : Contents[k] = buffer[Cell(read_pos + k - 1)]

LEMMA ContentsAre == IInv => AreContents
<1> SUFFICES ASSUME IInv PROVE AreContents
  OBVIOUS
<1>1. /\ capacity \in Capacities /\ Size \in Nat /\ Word \in Nat \ {0}
      /\ read_pos \in Nat
  BY Positions DEF Counts
<1>2. ASSUME NEW k \in 1 .. Size
      PROVE  Cell((read_pos + k - 1) % Word) = Cell(read_pos + k - 1)
  BY <1>1, CellOfWordAlone
<1>3. \A k \in 1 .. Size : buffer[Cell(read_pos + k - 1)] \in Val
  BY DEF IInv, ItemsWritten
<1>4. Contents = [k \in 1 .. Size |-> buffer[Cell(read_pos + k - 1)]]
  BY <1>2 DEF Contents
<1> QED BY <1>1, <1>3, <1>4 DEF AreContents

LEMMA ContentsWillBe == IInv' => AreContents'
BY ContentsAre, PTL

LEMMA IInvInit == Init => IInv
<1> SUFFICES ASSUME Init PROVE IInv
  OBVIOUS
<1>1. capacity \in Capacities /\ read_pos = 0 /\ write_pos = 0 /\ out = << >> /\ ret = 0
  BY RoundedUp DEF Init
<1>2. capacity \in Nat \ {0} /\ Word \in Nat \ {0}
  BY <1>1, CapacityDivides
<1>3. 0 \in Counts
  BY <1>2 DEF Counts
<1>4. Size = 0
  BY <1>1, <1>2, <1>3, MinusIs DEF Size
<1>5. buffer \in [0 .. capacity - 1 -> Val \cup {NoVal}]
  BY <1>2 DEF Init
<1>6. TypeOK
  BY <1>1, <1>2, <1>3, <1>4, <1>5 DEF TypeOK, Capacities
<1>7. Len(out) = 0
  BY <1>1
<1> QED BY <1>2, <1>4, <1>6, <1>7 DEF IInv, ItemsWritten, LastReadKept

(***************************************************************************)
(* When a sequence is the concatenation of two, or the end of one.         *)
(***************************************************************************)
LEMMA ConcatIs ==
  ASSUME NEW S, NEW a \in Seq(S), NEW b \in Seq(S), NEW d \in Seq(S),
         Len(d) = Len(a) + Len(b),
         \A k \in 1 .. Len(d) : d[k] = IF k <= Len(a) THEN a[k] ELSE b[k - Len(a)]
  PROVE  d = a \o b
<1>1. a \o b \in Seq(S) /\ Len(a \o b) = Len(d)
  OBVIOUS
<1>2. \A k \in 1 .. Len(d) : d[k] = (a \o b)[k]
  OBVIOUS
<1> QED BY <1>1, <1>2, SeqEqual

LEMMA EndIs ==
  ASSUME NEW S, NEW a \in Seq(S), NEW d \in Seq(S), NEW m \in 0 .. Len(a),
         Len(d) = Len(a) - m,
         \A k \in 1 .. Len(d) : d[k] = a[m + k]
  PROVE  d = SubSeq(a, m + 1, Len(a))
<1> DEFINE e == SubSeq(a, m + 1, Len(a))
<1>1. e \in Seq(S) /\ Len(e) = Len(a) - m
  OBVIOUS
<1>2. \A k \in 1 .. Len(e) : e[k] = a[m + k]
  OBVIOUS
<1> HIDE DEF e
<1>3. d = e
  BY <1>1, <1>2, SeqEqual
<1> QED BY <1>3 DEF e

(***************************************************************************)
(* Writen appends the batch.                                               *)
(***************************************************************************)
LEMMA WritenAppends ==
  ASSUME IInv, NEW batch \in Batches, Writen(batch)
  PROVE  IInv' /\ Contents' = Contents \o batch
<1> DEFINE n == Len(batch)
           s == Size
<1>1. batch \in Seq(Val) /\ n \in Nat
  BY WidthAssumption DEF Batches
<1>2. /\ capacity \in Capacities /\ capacity \in Nat \ {0} /\ capacity' = capacity
      /\ Word \in Nat \ {0} /\ 2 * capacity <= Word
      /\ read_pos \in Counts /\ read_pos \in Nat /\ write_pos \in Counts /\ read_pos' = read_pos
      /\ s \in 0 .. capacity /\ s + n <= capacity
      /\ write_pos = (read_pos + s) % Word
  <2>1. /\ capacity \in Capacities /\ capacity \in Nat \ {0}
        /\ Word \in Nat \ {0} /\ 2 * capacity <= Word
        /\ read_pos \in Counts /\ write_pos \in Counts
        /\ s \in 0 .. capacity /\ Remain = capacity - s
        /\ write_pos = (read_pos + s) % Word
    BY Positions
  <2>2. n <= Remain /\ capacity' = capacity /\ read_pos' = read_pos
    BY DEF Writen
  <2> HIDE DEF n, s
  <2>3. s + n <= capacity
    BY <1>1, <2>1, <2>2
  <2>4. read_pos \in Nat
    BY <2>1 DEF Counts
  <2> QED BY <2>1, <2>2, <2>3, <2>4
<1> HIDE DEF n, s
<1>3. write_pos' = (read_pos + (s + n)) % Word
  <2>1. write_pos' = (write_pos + n) % Word
    BY DEF Writen, n
  <2>2. write_pos = IF read_pos + s < Word THEN read_pos + s ELSE read_pos + s - Word
    BY <1>2, PlusIs DEF Counts
  <2>3. n \in Counts /\ s + n \in Counts
    BY <1>1, <1>2 DEF Counts
  <2>4. (write_pos + n) % Word = IF write_pos + n < Word THEN write_pos + n ELSE write_pos + n - Word
    BY <1>2, <2>3, PlusIs
  <2>5. (read_pos + (s + n)) % Word
          = IF read_pos + (s + n) < Word THEN read_pos + (s + n) ELSE read_pos + (s + n) - Word
    BY <1>2, <2>3, PlusIs
  <2> QED BY <1>1, <1>2, <2>1, <2>2, <2>4, <2>5 DEF Counts
<1>4. write_pos' \in Counts /\ Size' = s + n
  <2>1. s + n \in Counts
    BY <1>1, <1>2 DEF Counts
  <2>2. write_pos' \in Counts
    BY <1>2, <1>3, <2>1, PlusIs
  <2>3. Minus(write_pos', read_pos) = s + n
    BY <1>2, <1>3, <2>1, SizeFrom
  <2>4. Size' = Minus(write_pos', read_pos)
    BY <1>2 DEF Size, Minus
  <2> QED BY <2>2, <2>3, <2>4
<1>5. Cell(write_pos) = Cell(read_pos + s)
  BY <1>2, CellOfWordAlone
<1> DEFINE at(k) == Cell(read_pos + k - 1)
<1>6. ASSUME NEW k \in 1 .. s + n PROVE at(k) \in 0 .. capacity - 1
  <2>1. read_pos + k - 1 \in Nat
    BY <1>1, <1>2
  <2> QED BY <1>2, <2>1, CellOfWordAlone
<1>7. ASSUME NEW k \in 1 .. s
      PROVE  buffer'[at(k)] = buffer[at(k)]
  <2>1. read_pos + k - 1 \in Nat /\ read_pos + s \in Nat /\ s - k + 1 \in 1 .. capacity
    BY <1>2
  <2>2. read_pos + s = (read_pos + k - 1) + (s - k + 1)
    BY <1>2
  <2>3. (at(k) + capacity - Cell(read_pos + s)) % capacity = capacity - (s - k + 1)
    <3>1. \A p, q \in Nat, d \in 1 .. capacity :
            q = p + d => (Cell(p) + capacity - Cell(q)) % capacity = capacity - d
      BY <1>2, CellBefore
    <3> QED BY <2>1, <2>2, <3>1
  <2> HIDE DEF at
  <2>4. ~ (Offset(at(k)) < n)
    BY <1>1, <1>2, <1>5, <2>3 DEF Offset
  <2>5. k \in 1 .. s + n
    BY <1>1, <1>2
  <2>6. at(k) \in 0 .. capacity - 1
    BY <1>6, <2>5
  <2> QED BY <2>4, <2>6 DEF Writen, n
<1>8. ASSUME NEW j \in 1 .. n
      PROVE  buffer'[at(s + j)] = batch[j]
  <2>1. read_pos + (s + j) - 1 \in Nat /\ read_pos + s \in Nat /\ j - 1 \in 0 .. capacity - 1
    BY <1>1, <1>2
  <2>2. read_pos + (s + j) - 1 = (read_pos + s) + (j - 1)
    BY <1>1, <1>2
  <2>3. (at(s + j) + capacity - Cell(read_pos + s)) % capacity = j - 1
    BY <1>2, <2>1, <2>2, CellAfter
  <2> HIDE DEF at
  <2>4. Offset(at(s + j)) < n /\ Offset(at(s + j)) + 1 = j
    BY <1>1, <1>5, <2>3 DEF Offset
  <2>5. s + j \in 1 .. s + n
    BY <1>1, <1>2
  <2>6. at(s + j) \in 0 .. capacity - 1
    BY <1>6, <2>5
  <2> QED BY <2>4, <2>6 DEF Writen, n
<1>9. TypeOK'
  <2>1. buffer' \in [0 .. capacity - 1 -> Val \cup {NoVal}]
    <3>1. ASSUME NEW i \in 0 .. capacity - 1, Offset(i) < n
          PROVE  Offset(i) + 1 \in 1 .. n
      <4>1. write_pos % capacity \in 0 .. capacity - 1 /\ write_pos \in Nat
        BY <1>2 DEF Counts
      <4>2. i + capacity - Cell(write_pos) \in Nat
        BY <1>2, <4>1 DEF Cell
      <4>3. Offset(i) \in Nat
        BY <1>2, <4>2 DEF Offset
      <4> QED BY <1>1, <3>1, <4>3
    <3>2. ASSUME NEW i \in 0 .. capacity - 1
          PROVE  (IF Offset(i) < n THEN batch[Offset(i) + 1] ELSE buffer[i]) \in Val \cup {NoVal}
      <4>1. CASE Offset(i) < n
        BY <1>1, <3>1, <4>1 DEF n
      <4>2. CASE ~ (Offset(i) < n)
        BY <4>2 DEF IInv, TypeOK
      <4> QED BY <4>1, <4>2
    <3> QED BY <3>2 DEF Writen, n
  <2>2. out' \in Seq(Val) /\ ret' \in 0 .. capacity
    BY <1>1, <1>2 DEF Writen, n
  <2> QED BY <1>2, <1>4, <2>1, <2>2 DEF TypeOK, Capacities
<1>10. ASSUME NEW k \in 1 .. s + n
       PROVE  buffer'[at(k)] = IF k <= s THEN buffer[at(k)] ELSE batch[k - s]
  <2>1. CASE k <= s
    <3>1. k \in 1 .. s
      BY <1>2, <2>1
    <3> HIDE DEF at
    <3> QED BY <1>7, <2>1, <3>1
  <2>2. CASE ~ (k <= s)
    <3>1. k - s \in 1 .. n /\ s + (k - s) = k
      BY <1>1, <1>2, <2>2
    <3> HIDE DEF at
    <3> QED BY <1>8, <2>2, <3>1
  <2> QED BY <2>1, <2>2
<1>11. \A k \in 1 .. s + n : Cell(read_pos + k - 1)' = at(k)
  BY <1>2 DEF Cell
<1>12. ItemsWritten'
  <2> SUFFICES ASSUME NEW k \in 1 .. s + n
               PROVE  buffer'[at(k)] \in Val
    BY <1>4, <1>11 DEF ItemsWritten
  <2>1. CASE k <= s
    BY <1>10, <2>1 DEF IInv, ItemsWritten, s
  <2>2. CASE ~ (k <= s)
    <3>1. k - s \in 1 .. n
      BY <1>1, <1>2, <2>2
    <3>2. batch[k - s] \in Val
      BY <1>1, <3>1 DEF n
    <3> HIDE DEF at
    <3> QED BY <1>10, <2>2, <3>2
  <2> QED BY <2>1, <2>2
<1>13. LastReadKept'
  BY <1>1, <1>2, <1>4 DEF LastReadKept, Writen
<1>14. IInv'
  BY <1>9, <1>12, <1>13 DEF IInv
<1>15. /\ Contents' \in Seq(Val) /\ Len(Contents') = s + n
       /\ \A k \in 1 .. s + n : Contents'[k] = buffer'[at(k)]
  BY <1>4, <1>11, <1>14, ContentsWillBe DEF AreContents
<1>16. /\ Contents \in Seq(Val) /\ Len(Contents) = s
       /\ \A k \in 1 .. s : Contents[k] = buffer[at(k)]
  BY ContentsAre DEF AreContents, s
<1> DEFINE c == Contents
           d == Contents'
<1> HIDE DEF c, d
<1>17. /\ c \in Seq(Val) /\ d \in Seq(Val) /\ Len(c) = s /\ Len(d) = s + n
       /\ \A k \in 1 .. s + n : d[k] = IF k <= s THEN c[k] ELSE batch[k - s]
  <2> HIDE DEF at
  <2>1. c \in Seq(Val) /\ d \in Seq(Val) /\ Len(c) = s /\ Len(d) = s + n
    BY <1>15, <1>16 DEF c, d
  <2>2. ASSUME NEW k \in 1 .. s + n
        PROVE  d[k] = IF k <= s THEN c[k] ELSE batch[k - s]
    <3>1. d[k] = IF k <= s THEN buffer[at(k)] ELSE batch[k - s]
      BY <1>10, <1>15 DEF d
    <3>2. k <= s => c[k] = buffer[at(k)]
      BY <1>2, <1>16 DEF c
    <3> QED BY <3>1, <3>2
  <2> QED BY <2>1, <2>2
<1>18. d = c \o batch
  BY <1>1, <1>17, ConcatIs DEF n
<1> QED BY <1>14, <1>18 DEF c, d

(***************************************************************************)
(* A refused batch changes nothing.                                        *)
(***************************************************************************)
LEMMA RefusedKeeps ==
  ASSUME IInv, NEW n \in Counts, WritenRefused(n)
  PROVE  IInv' /\ Contents' = Contents
<1>1. /\ buffer' = buffer /\ read_pos' = read_pos /\ write_pos' = write_pos
      /\ capacity' = capacity /\ out' = << >> /\ ret' = 0
  BY DEF WritenRefused
<1>2. Size' = Size
  BY <1>1 DEF Size, Minus
<1>3. Contents' = Contents
  BY <1>1, <1>2 DEF Contents, Cell
<1>4. capacity \in Nat /\ Size \in 0 .. capacity
  BY Positions
<1>5. TypeOK'
  BY <1>1, <1>2, <1>4 DEF IInv, TypeOK
<1>6. ItemsWritten'
  BY <1>1, <1>2 DEF IInv, ItemsWritten, Cell
<1>7. LastReadKept'
  <2>1. Len(out') = 0
    BY <1>1
  <2> QED BY <1>1, <1>2, <1>4, <2>1 DEF LastReadKept
<1> QED BY <1>3, <1>5, <1>6, <1>7 DEF IInv

(***************************************************************************)
(* Readn takes items from the front.                                       *)
(***************************************************************************)
\* Moving the read position on by m leaves the rest.
LEMMA ReadPosMoves ==
  ASSUME IInv, NEW m \in 0 .. Size,
         read_pos' = (read_pos + m) % Word, write_pos' = write_pos
  PROVE  read_pos' \in Counts /\ Size' = Size - m
<1> DEFINE s == Size
<1>1. /\ Word \in Nat \ {0} /\ read_pos \in Counts /\ write_pos \in Counts
      /\ s \in 0 .. capacity /\ 2 * capacity <= Word /\ capacity \in Nat \ {0}
      /\ write_pos = (read_pos + s) % Word /\ m \in 0 .. s
  BY Positions
<1> HIDE DEF s
<1>2. m \in Counts /\ s \in Counts
  BY <1>1 DEF Counts
<1>3. read_pos' \in Counts
  BY <1>1, <1>2, PlusIs
<1>4. read_pos' = IF read_pos + m < Word THEN read_pos + m ELSE read_pos + m - Word
  BY <1>1, <1>2, PlusIs
<1>5. write_pos = IF read_pos + s < Word THEN read_pos + s ELSE read_pos + s - Word
  BY <1>1, <1>2, PlusIs
<1>6. Minus(write_pos, read_pos')
        = IF read_pos' <= write_pos THEN write_pos - read_pos' ELSE write_pos + Word - read_pos'
  BY <1>1, <1>3, MinusIs
<1>7. Minus(write_pos, read_pos') = s - m
  BY <1>1, <1>2, <1>3, <1>4, <1>5, <1>6 DEF Counts
<1>8. Size' = Minus(write_pos, read_pos')
  BY DEF Size, Minus
<1> QED BY <1>3, <1>7, <1>8 DEF s

\* How many items are read.
Taken(n) == IF n < Size THEN n ELSE Size

LEMMA TakenIs ==
  ASSUME IInv, NEW n \in Counts
  PROVE  /\ (IF IsEmpty THEN 0 ELSE Min({n, Size})) = Taken(n)
         /\ Taken(n) \in 0 .. Size
<1>1. /\ Size \in Nat /\ n \in Nat /\ Word \in Nat \ {0} /\ capacity \in Nat
      /\ read_pos \in Counts /\ write_pos \in Counts
  BY Positions DEF Counts
<1>2. CASE IsEmpty
  <2>1. Size = 0
    BY <1>1, <1>2, MinusIs DEF Size, IsEmpty, Counts
  <2> QED BY <1>1, <1>2, <2>1 DEF Taken
<1>3. CASE ~ IsEmpty
  <2>1. Min({n, Size}) = Taken(n)
    BY <1>1 DEF Min, Taken
  <2> QED BY <1>1, <1>3, <2>1 DEF Taken
<1> QED BY <1>2, <1>3

LEMMA ReadnTakes ==
  ASSUME IInv, NEW n \in Counts, Readn(n)
  PROVE  /\ IInv'
         /\ ret' = Taken(n)
         /\ out' = SubSeq(Contents, 1, Taken(n))
         /\ Contents' = SubSeq(Contents, Taken(n) + 1, Size)
<1> DEFINE m == Taken(n)
           s == Size
           c == Contents
           d == Contents'
           at(k) == Cell(read_pos + k - 1)
<1> HIDE DEF m, s, c, d
<1>1. /\ capacity \in Capacities /\ capacity \in Nat \ {0} /\ capacity' = capacity
      /\ Word \in Nat \ {0} /\ 2 * capacity <= Word
      /\ read_pos \in Counts /\ read_pos \in Nat
      /\ s \in 0 .. capacity /\ m \in 0 .. s
      /\ buffer' = buffer /\ write_pos' = write_pos
  <2>1. buffer' = buffer /\ write_pos' = write_pos /\ capacity' = capacity
    BY DEF Readn
  <2>2. m \in 0 .. s
    BY TakenIs DEF m, s
  <2> QED BY <2>1, <2>2, Positions DEF Counts, s
<1>2. /\ out' = [k \in 1 .. m |-> buffer[Cell((read_pos + k - 1) % Word)]]
      /\ read_pos' = (read_pos + m) % Word
      /\ ret' = m
  BY TakenIs DEF Readn, m
<1>3. read_pos' \in Counts /\ Size' = s - m
  BY <1>1, <1>2, ReadPosMoves DEF s
<1>4. /\ c \in Seq(Val) /\ Len(c) = s
      /\ \A k \in 1 .. s : c[k] = buffer[at(k)]
  BY ContentsAre DEF AreContents, c, s
<1>5. ASSUME NEW k \in 1 .. m
      PROVE  out'[k] = c[k]
  <2>1. read_pos + k - 1 \in Nat /\ k \in 1 .. s
    BY <1>1
  <2>2. Cell((read_pos + k - 1) % Word) = at(k)
    BY <1>1, <2>1, CellOfWordAlone
  <2> HIDE DEF at
  <2> QED BY <1>2, <1>4, <2>1, <2>2
<1>6. out' \in Seq(Val) /\ Len(out') = m
  <2>1. out' = [k \in 1 .. m |-> c[k]]
    BY <1>2, <1>5
  <2>2. \A k \in 1 .. m : c[k] \in Val
    BY <1>1, <1>4
  <2> QED BY <1>1, <2>1, <2>2
<1>7. ASSUME NEW k \in 1 .. s - m
      PROVE  Cell(read_pos' + k - 1) = at(m + k)
  <2>1. read_pos + m \in Nat /\ k - 1 \in Nat /\ read_pos' + (k - 1) = read_pos' + k - 1
        /\ (read_pos + m) + (k - 1) = read_pos + (m + k) - 1
    BY <1>1, <1>3 DEF Counts
  <2>2. Cell(((read_pos + m) % Word) + (k - 1)) = Cell((read_pos + m) + (k - 1))
    BY <1>1, <2>1, CellOfWord
  <2> QED BY <1>2, <2>1, <2>2
<1>8. TypeOK'
  BY <1>1, <1>2, <1>3, <1>6 DEF IInv, TypeOK, s
<1>9. ASSUME NEW k \in 1 .. s - m
      PROVE  buffer'[Cell(read_pos + k - 1)'] = c[m + k] /\ c[m + k] \in Val
  <2>1. Cell(read_pos + k - 1)' = Cell(read_pos' + k - 1)
    BY <1>1 DEF Cell
  <2>2. m + k \in 1 .. s
    BY <1>1
  <2> HIDE DEF at
  <2> QED BY <1>1, <1>4, <1>7, <2>1, <2>2
<1>10. ItemsWritten'
  BY <1>3, <1>9 DEF ItemsWritten
<1>11. LastReadKept'
  <2>1. m \in Counts
    BY <1>1 DEF Counts
  <2>2. Minus(read_pos', m) = read_pos
    <3>1. read_pos' = IF read_pos + m < Word THEN read_pos + m ELSE read_pos + m - Word
      BY <1>1, <1>2, <2>1, PlusIs
    <3>2. Minus(read_pos', m) = IF m <= read_pos' THEN read_pos' - m ELSE read_pos' + Word - m
      BY <1>1, <1>3, <2>1, MinusIs
    <3> QED BY <1>1, <1>3, <2>1, <3>1, <3>2 DEF Counts
  <2>3. Minus(read_pos, Len(out))' = read_pos
    BY <1>6, <2>2 DEF Minus
  <2>4. ASSUME NEW k \in 1 .. m
        PROVE  (buffer[Cell(Minus(read_pos, Len(out)) + k - 1)])' = out'[k]
    <3>1. Cell(Minus(read_pos, Len(out)) + k - 1)' = at(k)
      BY <1>1, <2>3 DEF Cell
    <3>2. k \in 1 .. s
      BY <1>1
    <3> HIDE DEF at
    <3> QED BY <1>1, <1>4, <1>5, <3>1, <3>2
  <2> QED BY <1>1, <1>3, <1>6, <2>4 DEF LastReadKept
<1>12. IInv'
  BY <1>8, <1>10, <1>11 DEF IInv
<1>13. /\ d \in Seq(Val) /\ Len(d) = s - m
       /\ \A k \in 1 .. s - m : d[k] = c[m + k]
  BY <1>3, <1>9, <1>12, ContentsWillBe DEF AreContents, d
<1>14. out' = SubSeq(c, 1, m)
  BY <1>1, <1>4, <1>5, <1>6
<1>15. d = SubSeq(c, m + 1, s)
  BY <1>1, <1>4, <1>13, EndIs
<1> QED BY <1>2, <1>12, <1>14, <1>15 DEF m, s, c, d

(***************************************************************************)
(* Retrive puts the items of the last read back.                           *)
(***************************************************************************)
LEMMA RetrivePutsBack ==
  ASSUME IInv, Retrive
  PROVE  IInv' /\ Contents' = out \o Contents
<1>n. PICK n \in Nat : n = Len(out)
  BY DEF IInv, TypeOK
<1>s. PICK s \in 0 .. capacity : s = Size
  BY Positions
<1> DEFINE c == Contents
           d == Contents'
           at(k) == Cell(read_pos' + k - 1)
<1> HIDE DEF c, d
<1>1. /\ capacity \in Capacities /\ capacity \in Nat \ {0} /\ capacity' = capacity
      /\ Word \in Nat \ {0} /\ 2 * capacity <= Word
      /\ read_pos \in Counts /\ write_pos \in Counts
      /\ s \in 0 .. capacity /\ n \in Nat /\ s + n <= capacity
      /\ buffer' = buffer /\ write_pos' = write_pos
      /\ read_pos' = Minus(read_pos, n) /\ out' = << >> /\ ret' = ret
      /\ write_pos = (read_pos + s) % Word
      /\ out \in Seq(Val)
  BY <1>n, <1>s, Positions DEF Retrive, IInv, TypeOK, LastReadKept
<1>2. n \in Counts /\ s \in Counts /\ s + n \in Counts
  BY <1>1 DEF Counts
<1>3. read_pos' \in Counts /\ read_pos = (read_pos' + n) % Word
  <2>1. /\ read_pos' = IF n <= read_pos THEN read_pos - n ELSE read_pos + Word - n
        /\ read_pos' \in Counts
    BY <1>1, <1>2, MinusIs
  <2>2. (read_pos' + n) % Word = IF read_pos' + n < Word THEN read_pos' + n ELSE read_pos' + n - Word
    BY <1>1, <1>2, <2>1, PlusIs
  <2> QED BY <1>1, <1>2, <2>1, <2>2 DEF Counts
<1>4. Size' = s + n
  <2>1. Size' = Minus(write_pos, read_pos')
    BY <1>1 DEF Size, Minus
  <2>2. Minus(write_pos, read_pos')
        = IF read_pos' <= write_pos THEN write_pos - read_pos' ELSE write_pos + Word - read_pos'
    BY <1>1, <1>3, MinusIs
  <2>3. write_pos = IF read_pos + s < Word THEN read_pos + s ELSE read_pos + s - Word
    BY <1>1, <1>2, PlusIs
  <2>4. read_pos = IF read_pos' + n < Word THEN read_pos' + n ELSE read_pos' + n - Word
    BY <1>1, <1>2, <1>3, PlusIs
  <2>5. /\ read_pos' \in 0 .. Word - 1 /\ s \in Nat /\ n \in Nat /\ s + n < Word
        /\ Word \in Nat \ {0}
    BY <1>1, <1>2, <1>3 DEF Counts
  <2>6. PICK r \in 0 .. Word - 1 : r = read_pos'
    BY <2>5
  <2>7. read_pos = IF r + n < Word THEN r + n ELSE r + n - Word
    BY <2>4, <2>6
  <2>8. write_pos = IF r + (s + n) < Word THEN r + (s + n) ELSE r + (s + n) - Word
    BY <2>3, <2>5, <2>7
  <2>9. (IF r <= write_pos THEN write_pos - r ELSE write_pos + Word - r) = s + n
    BY <2>5, <2>8
  <2> QED BY <2>1, <2>2, <2>6, <2>9
<1>5. /\ c \in Seq(Val) /\ Len(c) = s
      /\ \A k \in 1 .. s : c[k] = buffer[Cell(read_pos + k - 1)]
  BY <1>s, ContentsAre DEF AreContents, c
<1>6. ASSUME NEW k \in 1 .. n
      PROVE  buffer[at(k)] = out[k]
  BY <1>n, <1>1 DEF IInv, LastReadKept
<1>7. ASSUME NEW k \in 1 .. s
      PROVE  buffer[at(n + k)] = c[k]
  <2>1. read_pos' + n \in Nat /\ k - 1 \in Nat /\ read_pos + (k - 1) = read_pos + k - 1
        /\ (read_pos' + n) + (k - 1) = read_pos' + (n + k) - 1
    <3>1. PICK r \in Nat : r = read_pos'
      BY <1>1, <1>3 DEF Counts
    <3>2. read_pos \in Nat /\ k \in Nat \ {0}
      BY <1>1, <1>3 DEF Counts
    <3>3. r + n \in Nat /\ (r + n) + (k - 1) = r + (n + k) - 1
      BY <3>2
    <3>4. k - 1 \in Nat /\ read_pos + (k - 1) = read_pos + k - 1
      BY <3>2
    <3> QED BY <3>1, <3>3, <3>4
  <2>2. Cell(((read_pos' + n) % Word) + (k - 1)) = Cell((read_pos' + n) + (k - 1))
    BY <1>1, <2>1, CellOfWord
  <2>3. Cell(read_pos + k - 1) = at(n + k)
    BY <1>3, <2>1, <2>2
  <2> HIDE DEF at
  <2> QED BY <1>5, <2>3
<1>8. ASSUME NEW k \in 1 .. s + n
      PROVE  buffer[at(k)] = IF k <= n THEN out[k] ELSE c[k - n]
  <2> HIDE DEF at
  <2>1. CASE k <= n
    <3>1. k \in 1 .. n
      BY <1>1, <2>1
    <3> QED BY <1>6, <2>1, <3>1
  <2>2. CASE ~ (k <= n)
    <3>1. k - n \in 1 .. s /\ n + (k - n) = k
      BY <1>1, <2>2
    <3> QED BY <1>7, <2>2, <3>1
  <2> QED BY <2>1, <2>2
<1>9. ASSUME NEW k \in 1 .. s + n
      PROVE  buffer'[Cell(read_pos + k - 1)'] = IF k <= n THEN out[k] ELSE c[k - n]
  <2>1. Cell(read_pos + k - 1)' = at(k)
    BY <1>1 DEF Cell
  <2> HIDE DEF at
  <2> QED BY <1>1, <1>8, <2>1
<1>10. TypeOK'
  BY <1>1, <1>3, <1>4 DEF IInv, TypeOK
<1>11. ASSUME NEW k \in 1 .. s + n
       PROVE  (IF k <= n THEN out[k] ELSE c[k - n]) \in Val
  <2>1. CASE k <= n
    BY <1>n, <1>1, <2>1
  <2>2. CASE ~ (k <= n)
    <3>1. k - n \in 1 .. s
      BY <1>1, <2>2
    <3> QED BY <1>5, <2>2, <3>1
  <2> QED BY <2>1, <2>2
<1>12. ItemsWritten'
  BY <1>4, <1>9, <1>11 DEF ItemsWritten
<1>13. LastReadKept'
  <2>1. Len(out') = 0
    BY <1>1
  <2> QED BY <1>1, <1>4, <2>1 DEF LastReadKept
<1>14. IInv'
  BY <1>10, <1>12, <1>13 DEF IInv
<1>15. /\ d \in Seq(Val) /\ Len(d) = s + n
       /\ \A k \in 1 .. s + n : d[k] = IF k <= n THEN out[k] ELSE c[k - n]
  BY <1>4, <1>9, <1>14, ContentsWillBe DEF AreContents, d
<1>16. d = out \o c
  <2>1. Len(d) = Len(out) + Len(c)
    BY <1>n, <1>1, <1>5, <1>15
  <2>2. \A k \in 1 .. Len(d) : d[k] = IF k <= Len(out) THEN out[k] ELSE c[k - Len(out)]
    BY <1>n, <1>1, <1>15
  <2> QED BY <1>1, <1>5, <1>15, <2>1, <2>2, ConcatIs
<1> QED BY <1>14, <1>16 DEF c, d

(***************************************************************************)
(* The theorems.                                                           *)
(***************************************************************************)
LEMMA IInvStep == IInv /\ [Next]_vars => IInv'
<1> SUFFICES ASSUME IInv, [Next]_vars PROVE IInv'
  OBVIOUS
<1>1. ASSUME NEW batch \in Batches, Writen(batch) PROVE IInv'
  BY <1>1, WritenAppends
<1>2. ASSUME NEW n \in Counts, WritenRefused(n) \/ Readn(n) PROVE IInv'
  BY <1>2, RefusedKeeps, ReadnTakes
<1>3. CASE Retrive
  BY <1>3, RetrivePutsBack
<1>4. CASE UNCHANGED vars
  BY <1>4
  DEF vars, IInv, TypeOK, ItemsWritten, LastReadKept, Size, Minus, Cell
<1> QED BY <1>1, <1>2, <1>3, <1>4 DEF Next

THEOREM Inductive == Spec => []IInv
BY IInvInit, IInvStep, PTL DEF Spec

(* The positions stay words, the distance between them never exceeds the   *)
(* array, and only items that were written are read.                       *)
THEOREM TypeCorrect == Spec => []TypeOK
<1>1. IInv => TypeOK
  BY DEF IInv
<1> QED BY <1>1, Inductive, PTL

LEMMA RefinementInit == Init => Stream!Init
<1> SUFFICES ASSUME Init PROVE Stream!Init
  OBVIOUS
<1>1. capacity \in Asked .. 2 * (Asked + 1)
  BY RoundedUp DEF Init
<1>2. capacity \in Nat \ {0} /\ Word \in Nat \ {0} /\ read_pos = 0 /\ write_pos = 0
  BY RoundedUp, CapacityDivides DEF Init
<1>3. Size = 0
  BY <1>2, MinusIs DEF Size, Counts
<1>4. Contents = << >>
  BY <1>3 DEF Contents
<1> QED BY <1>1, <1>4 DEF Init, Stream!Init

LEMMA RefinementStep == IInv /\ [Next]_vars => [Stream!Next]_Stream!vars
<1> SUFFICES ASSUME IInv, [Next]_vars
             PROVE  Stream!Next \/ UNCHANGED Stream!vars
  OBVIOUS
<1>1. /\ Contents \in Seq(Val) /\ Len(Contents) = Size
      /\ Size \in 0 .. capacity /\ capacity \in Nat /\ Remain = capacity - Size
  BY Positions, ContentsAre DEF AreContents
<1>2. ASSUME NEW batch \in Batches, Writen(batch)
      PROVE  Stream!Next
  <2>1. Contents' = Contents \o batch
    BY <1>2, WritenAppends
  <2>2. Len(batch) \in Nat
    BY WidthAssumption DEF Batches
  <2>3. Len(Contents) + Len(batch) <= capacity
    BY <1>1, <1>2, <2>2 DEF Writen
  <2>4. capacity' = capacity /\ out' = << >> /\ ret' = Len(batch)
    BY <1>2 DEF Writen
  <2>5. Stream!Write(batch)
    BY <2>1, <2>3, <2>4 DEF Stream!Write
  <2>6. batch \in Stream!Batches
    BY DEF Batches, Stream!Batches
  <2> QED BY <2>5, <2>6 DEF Stream!Next
<1>3. ASSUME NEW n \in Counts, WritenRefused(n)
      PROVE  Stream!Next
  <2>1. Contents' = Contents
    BY <1>3, RefusedKeeps
  <2>2. n \in 0 .. Word - 1 /\ n \in Nat
    BY DEF Counts
  <2>3. Len(Contents) + n > capacity
    BY <1>1, <1>3, <2>2 DEF WritenRefused
  <2>4. capacity' = capacity /\ out' = << >> /\ ret' = 0
    BY <1>3 DEF WritenRefused
  <2>5. Stream!Refuse(n)
    BY <2>1, <2>3, <2>4 DEF Stream!Refuse
  <2> QED BY <2>2, <2>5 DEF Stream!Next
<1>4. ASSUME NEW n \in Counts, Readn(n)
      PROVE  Stream!Next
  <2>1. /\ ret' = Taken(n) /\ out' = SubSeq(Contents, 1, Taken(n))
        /\ Contents' = SubSeq(Contents, Taken(n) + 1, Size)
    BY <1>4, ReadnTakes
  <2>2. n \in 0 .. Word - 1 /\ capacity' = capacity
    BY <1>4 DEF Counts, Readn
  <2>3. Taken(n) = IF n < Len(Contents) THEN n ELSE Len(Contents)
    BY <1>1 DEF Taken
  <2>4. Stream!Read(n)
    BY <1>1, <2>1, <2>2, <2>3 DEF Stream!Read
  <2> QED BY <2>2, <2>4 DEF Stream!Next
<1>5. CASE Retrive
  <2>1. Contents' = out \o Contents
    BY <1>5, RetrivePutsBack
  <2> QED BY <1>5, <2>1 DEF Retrive, Stream!Next, Stream!PutBack
<1>6. CASE UNCHANGED vars
  <2>1. Contents' = Contents
    BY <1>6 DEF vars, Contents, Size, Minus, Cell
  <2> QED BY <1>6, <2>1 DEF vars, Stream!vars
<1> QED BY <1>2, <1>3, <1>4, <1>5, <1>6 DEF Next

(* Whatever the width of the positions and wherever they wrap, batches are *)
(* written whole or refused for want of room, and reads take the items in  *)
(* the order they were written: every behaviour of the ring is one of      *)
(* ByteFifo.                                                               *)
THEOREM Refinement == Spec => StreamSpec
BY RefinementInit, RefinementStep, Inductive, PTL DEF Spec, StreamSpec, Stream!Spec
=============================================================================
