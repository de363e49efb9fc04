------------------------------ MODULE ByteFifo ------------------------------
(***************************************************************************)
(* What yi::RingBuffer promises the one thread that uses it at a time: a   *)
(* first-in first-out stream of items with bounded room.  A batch is       *)
(* written whole or not at all, and it is refused only for want of room; a *)
(* read takes the oldest items, and the items of the last read can be put  *)
(* back as long as nothing else happened.                                  *)
(***************************************************************************)
EXTENDS Naturals, Sequences

CONSTANTS Val,       \* the items
          Asked,     \* the capacity the user asks for
          MaxBatch,  \* the longest batch written
          MaxCount   \* the largest item count a call may name

VARIABLES q,         \* the items, oldest first
          room,      \* how many items the stream can hold
          out,       \* the items of the last read, << >> once something else happened
          ret        \* what the last call returned

vars == <<q, room, out, ret>>

Batches == UNION {[1 .. n -> Val] : n \in 1 .. MaxBatch}

\* The room is what was asked for or more, but never more than twice that.
Init ==
  /\ room \in Asked .. 2 * (Asked + 1)
  /\ q = << >> /\ out = << >> /\ ret = 0

Write(batch) ==
  /\ Len(q) + Len(batch) <= room
  /\ q' = q \o batch
  /\ out' = << >> /\ ret' = Len(batch)
  /\ UNCHANGED room

Refuse(n) ==
  /\ Len(q) + n > room
  /\ out' = << >> /\ ret' = 0
  /\ UNCHANGED <<q, room>>

Read(n) ==
  LET m == IF n < Len(q) THEN n ELSE Len(q)
  IN  /\ out' = SubSeq(q, 1, m)
      /\ q' = SubSeq(q, m + 1, Len(q))
      /\ ret' = m
      /\ UNCHANGED room

PutBack ==
  /\ q' = out \o q
  /\ out' = << >>
  /\ UNCHANGED <<room, ret>>

Next ==
  \/ \E batch \in Batches : Write(batch)
  \/ \E n \in 0 .. MaxCount : Refuse(n) \/ Read(n)
  \/ PutBack

Spec == Init /\ [][Next]_vars
=============================================================================
