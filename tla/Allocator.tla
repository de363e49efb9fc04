------------------------------ MODULE Allocator ------------------------------
(***************************************************************************)
(* What a memory allocator promises: the block it hands out lies in its    *)
(* memory and shares no address with a block that is still in use, until   *)
(* the block is given back.  It may also say that it has no room.          *)
(***************************************************************************)
EXTENDS Naturals, Functions

CONSTANTS Bytes,   \* the size of the memory; its addresses are 0 .. Bytes - 1
          Sizes    \* the sizes asked for

VARIABLE live      \* live[p]: the size of the block in use at address p

Init == live = << >>

Alloc(n) ==
  \E p \in 0 .. Bytes - n :
    /\ \A q \in DOMAIN live : p + n <= q \/ q + live[q] <= p
    /\ live' = [a \in DOMAIN live \cup {p} |-> IF a = p THEN n ELSE live[a]]

Free(p) == live' = Restrict(live, DOMAIN live \ {p})

Next ==
  \/ \E n \in Sizes : Alloc(n)
  \/ \E p \in DOMAIN live : Free(p)

Spec == Init /\ [][Next]_live
=============================================================================
