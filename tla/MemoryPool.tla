----------------------------- MODULE MemoryPool -----------------------------
(***************************************************************************)
(* yi::MemoryPool (util/MemoryPool.h): one piece of memory cut up by a     *)
(* best-fit search in _free_list, a multimap from sizes to addresses, and  *)
(* a hash map _used_list from the addresses handed out to their sizes.     *)
(* It has no lock and is used by one thread.  Addresses count from the     *)
(* beginning of the memory.                                                *)
(***************************************************************************)
EXTENDS Naturals, SequencesExt

CONSTANTS capacity,    \* the size of the memory
          PoolSizes,   \* the sizes asked for
          null,        \* what a failed alloc returns
          NodeBound    \* a bound on the length of _free_list, for TLC

\* A size of zero would make alloc hand out the same address twice.
ASSUME PoolAssumption ==
  /\ capacity \in Nat \ {0}
  /\ PoolSizes \subseteq Nat \ {0}
  /\ null \notin Nat /\ NodeBound \in Nat

VARIABLES free_list,   \* the free blocks, ordered by size and then by age
          used_list    \* used_list[p]: the size of the block at address p

poolVars == <<free_list, used_list>>

Block(size, ptr) == [size |-> size, ptr |-> ptr]

\* multimap::insert puts an element behind those of the same size.
Insert(list, b) ==
  LET before == {i \in DOMAIN list : list[i].size <= b.size}
  IN  InsertAt(list, Cardinality(before) + 1, b)

\* used_list[p] = size, where operator[] makes the entry if there is none.
Use(p, size) == used_list' = [a \in DOMAIN used_list \cup {p} |-> IF a = p THEN size ELSE used_list[a]]

PoolInit ==
  /\ free_list = <<Block(capacity, 0)>>
  /\ used_list = << >>

\* The free blocks that are large enough.
Fitting(size) == {i \in DOMAIN free_list : size <= free_list[i].size}

\* Mutant: the rest of the block begins where the block begins.
AllocShared(size) ==
  /\ Fitting(size) # {} /\ Len(free_list) <= NodeBound
  /\ LET i == Min(Fitting(size))
         best_fit == free_list[i]
     IN  /\ free_list' = Insert(RemoveAt(free_list, i), Block(best_fit.size - size, best_fit.ptr))
         /\ Use(best_fit.ptr, size)

\* The rest of the block is kept as a free block even if nothing is left.
PoolAlloc(size) ==
  /\ Fitting(size) # {} /\ Len(free_list) <= NodeBound
  /\ LET i == Min(Fitting(size))
         best_fit == free_list[i]
     IN  /\ free_list' = Insert(RemoveAt(free_list, i),
                                Block(best_fit.size - size, best_fit.ptr + size))
         /\ Use(best_fit.ptr, size)

PoolAllocFails(size) ==
  /\ Fitting(size) = {}
  /\ UNCHANGED poolVars

\* Mutant: the block becomes free but stays in use.
FreeKeeping(ptr) ==
  /\ used_list[ptr] # 0
  /\ free_list' = Insert(free_list, Block(used_list[ptr], ptr))
  /\ UNCHANGED used_list

\* The block goes back as it is.
PoolFree(ptr) ==
  /\ used_list[ptr] # 0
  /\ free_list' = Insert(free_list, Block(used_list[ptr], ptr))
  /\ used_list' = Restrict(used_list, DOMAIN used_list \ {ptr})

\* Giving back what a failed alloc returned: operator[] makes an entry.
PoolFreeNull ==
  /\ Use(null, 0)
  /\ UNCHANGED free_list

PoolNext ==
  \/ \E size \in PoolSizes : PoolAlloc(size) \/ PoolAllocFails(size)
  \/ \E ptr \in DOMAIN used_list : PoolFree(ptr)
  \/ PoolFreeNull

PoolSpec == PoolInit /\ [][PoolNext]_poolVars
-----------------------------------------------------------------------------
(* Correctness                                                             *)

Addresses == 0 .. capacity
Pointers == {p \in DOMAIN used_list : used_list[p] # 0}

\* The free list is sorted, as alloc's search relies on; every block lies in
\* the memory.
PoolTypeOK ==
  /\ free_list \in Seq([size : Addresses, ptr : Addresses])
  /\ \A i, j \in DOMAIN free_list : i < j => free_list[i].size <= free_list[j].size
  /\ \A p \in Pointers : p \in Addresses /\ p + used_list[p] <= capacity
  /\ \A i \in DOMAIN free_list : free_list[i].ptr + free_list[i].size <= capacity

Covers(p, size, a) == p <= a /\ a < p + size

\* Every address belongs to exactly one block, in use or free: nothing is handed
\* out twice and nothing is lost.  The blocks are sorted and lie in the memory.
PoolTiling ==
  /\ PoolTypeOK
  /\ \A a \in 0 .. capacity - 1 :
       LET free == {i \in DOMAIN free_list : Covers(free_list[i].ptr, free_list[i].size, a)}
           used == {p \in Pointers : Covers(p, used_list[p], a)}
       IN  Cardinality(free) + Cardinality(used) = 1

\* The pool is an allocator.
Live == INSTANCE Allocator WITH Bytes <- capacity, Sizes <- PoolSizes,
                               live <- Restrict(used_list, Pointers)
PoolAllocatorSpec == Live!Spec
=============================================================================
