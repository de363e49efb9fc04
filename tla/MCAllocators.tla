---------------------------- MODULE MCAllocators ----------------------------
(***************************************************************************)
(* The two allocators of util/ for TLC.  A program uses one of them, as    *)
(* test/simpletest.cpp does, and it is chosen at the beginning.            *)
(*                                                                         *)
(* TLSF has two pools next to each other: the first is large enough for    *)
(* three first levels of size classes, the second for one block of a few   *)
(* units, which must never be merged with the end of the first.  There are *)
(* four classes in a first level and as many first levels as the pools     *)
(* need; the sizes fall into three of the levels, and two of them are not  *)
(* rounded.                                                                *)
(***************************************************************************)
EXTENDS TLSF, MemoryPool

VARIABLE inUse    \* which of the allocators it is

MCPools == {[ptr |-> 0, capacity |-> 44], [ptr |-> 44, capacity |-> 12]}

MCInit == Init /\ PoolInit /\ inUse \in {"TLSF", "MemoryPool"}

MCNext ==
  \/ inUse = "TLSF" /\ Next /\ UNCHANGED <<inUse, poolVars>>
  \/ inUse = "MemoryPool" /\ PoolNext /\ UNCHANGED <<inUse, vars>>

MCSpec == MCInit /\ [][MCNext]_<<vars, poolVars, inUse>>
=============================================================================
