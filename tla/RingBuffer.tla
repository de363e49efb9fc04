----------------------------- MODULE RingBuffer -----------------------------
(***************************************************************************)
(* yi::RingBuffer (util/RingBuffer.h): an array of a power of two items    *)
(* and two unsigned positions that only count up, wrapping at the width of *)
(* the machine word, and are masked when the array is accessed.  It has no *)
(* lock of its own; network/io/withBuffer/Buffer.h holds a mutex around it *)
(* so its operations are atomic here.                                      *)
(***************************************************************************)
EXTENDS PowersOfTwo, Sequences, FiniteSetsExt

CONSTANTS Val,       \* the items
          NoVal,     \* what new T[] leaves in the array
          Width,     \* the number of bits of a position (32 in the code)
          Asked,     \* the capacity the caller asks for
          MaxBatch   \* the longest batch written

ASSUME WidthAssumption == Width \in Nat \ {0, 1} /\ MaxBatch \in Nat

\* Beyond half the range of the word the shift of _Round_Up_Power_Of_2 is
\* undefined; the program only ever asks for 8 * 1024.
ASSUME AskedAssumption == Asked \in 0 .. Pow2[Width - 1]
ASSUME ValAssumption == NoVal \notin Val

VARIABLES buffer, read_pos, write_pos, capacity,
          out,       \* the items the last Readn copied out, << >> after another call
          ret        \* what the last call returned

vars == <<buffer, read_pos, write_pos, capacity, out, ret>>

Word == Pow2[Width]
Counts == 0 .. Word - 1

\* Unsigned subtraction of two words.
Minus(a, b) == (a + Word - b) % Word

\* How often n can be shifted right before it is zero.
BitLength(n) == Min({k \in 0 .. Width : n < Pow2[k]})

IsPowerOf2(n) == n \in {Pow2[k] : k \in 1 .. Width - 1}

RoundUpPowerOf2(n) ==
  IF n < 2 THEN 2 ELSE IF IsPowerOf2(n) THEN n ELSE Pow2[BitLength(n)]

Init ==
  /\ capacity = RoundUpPowerOf2(Asked)
  /\ buffer = [i \in 0 .. capacity - 1 |-> NoVal]
  /\ read_pos = 0 /\ write_pos = 0
  /\ out = << >> /\ ret = 0

IsEmpty == read_pos = write_pos
Size == Minus(write_pos, read_pos)
Remain == Minus(capacity, Size)

\* A position masked with capacity - 1.
Cell(pos) == pos % capacity

\* How far behind the write position the item at index i is to be written.
Offset(i) == (i + capacity - Cell(write_pos)) % capacity

\* Mutant: a comparison that lets one item too many in.
WritenOneTooMany(batch) ==
  /\ Len(batch) <= Remain + 1
  /\ buffer' = [i \in 0 .. capacity - 1 |->
                  IF Offset(i) < Len(batch) THEN batch[Offset(i) + 1] ELSE buffer[i]]
  /\ write_pos' = (write_pos + Len(batch)) % Word
  /\ ret' = Len(batch)
  /\ out' = << >>
  /\ UNCHANGED <<read_pos, capacity>>

\* The two loops, up to the end of the array and from its beginning, together.
Writen(batch) ==
  /\ Len(batch) <= Remain
  /\ buffer' = [i \in 0 .. capacity - 1 |->
                  IF Offset(i) < Len(batch) THEN batch[Offset(i) + 1] ELSE buffer[i]]
  /\ write_pos' = (write_pos + Len(batch)) % Word
  /\ ret' = Len(batch)
  /\ out' = << >>
  /\ UNCHANGED <<read_pos, capacity>>

\* Among the counts refused is the one a failed read() leads to: -1 as a word.
WritenRefused(n) ==
  /\ n > Remain
  /\ ret' = 0
  /\ out' = << >>
  /\ UNCHANGED <<buffer, read_pos, write_pos, capacity>>

Readn(n) ==
  LET real_read_nums == IF IsEmpty THEN 0 ELSE Min({n, Size})
  IN  /\ out' = [k \in 1 .. real_read_nums |-> buffer[Cell((read_pos + k - 1) % Word)]]
      /\ read_pos' = (read_pos + real_read_nums) % Word
      /\ ret' = real_read_nums
      /\ UNCHANGED <<buffer, write_pos, capacity>>

\* Mutant: the position goes the wrong way.
RetriveForward ==
  /\ out # << >>
  /\ read_pos' = (read_pos + Len(out)) % Word
  /\ out' = << >>
  /\ UNCHANGED <<buffer, write_pos, capacity, ret>>

\* Net.cpp calls it with what the Readn just before it returned.
Retrive ==
  /\ out # << >>
  /\ read_pos' = Minus(read_pos, Len(out))
  /\ out' = << >>
  /\ UNCHANGED <<buffer, write_pos, capacity, ret>>

Batches == UNION {[1 .. n -> Val] : n \in 1 .. MaxBatch}

Next ==
  \/ \E batch \in Batches : Writen(batch)
  \/ \E n \in Counts : WritenRefused(n) \/ Readn(n)
  \/ Retrive

Spec == Init /\ [][Next]_vars
-----------------------------------------------------------------------------
(* Correctness                                                             *)

\* The positions stay words, no call returns more than the array holds, and
\* the distance between the positions never exceeds the array.
TypeOK ==
  /\ capacity \in {Pow2[k] : k \in 1 .. Width - 1}
  /\ buffer \in [0 .. capacity - 1 -> Val \cup {NoVal}]
  /\ read_pos \in Counts /\ write_pos \in Counts
  /\ Size <= capacity
  /\ out \in Seq(Val) /\ ret \in 0 .. capacity

\* The items between the positions, oldest first.
Contents == [k \in 1 .. Size |-> buffer[Cell((read_pos + k - 1) % Word)]]

Stream == INSTANCE ByteFifo WITH q <- Contents, room <- capacity, MaxCount <- Word - 1

\* The ring of Writen, Readn and Retrive is a bounded first-in first-out
\* stream, also when its positions wrap around the machine word.
StreamSpec == Stream!Spec
=============================================================================
