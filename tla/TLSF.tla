-------------------------------- MODULE TLSF --------------------------------
(***************************************************************************)
(* ugi::TLSF (util/TLSF.hpp, TLSFUtility.h): a two-level segregated fit    *)
(* allocator.  A pool is a row of blocks, each behind a header that knows  *)
(* the block before it; free blocks are also in doubly linked lists, one   *)
(* for each size class, and two levels of bitmaps say which of the lists   *)
(* are not empty.  It has no lock and is used by one thread; realloc is    *)
(* left out.                                                               *)
(*                                                                         *)
(* Memory is the function block from addresses to headers, NoHeader where  *)
(* there is none (any more), so reading a stale header is an error.        *)
(***************************************************************************)
EXTENDS PowersOfTwo, FiniteSets, Functions

CONSTANTS MinimiumAllocationSize, TrueSize,   \* the smallest block, and a header
          SLI,                                \* 2^SLI classes in a first level
          FLC,                                \* the number of first levels
          SizeEnd,                            \* the sizes a header can hold are below
          MaxAddress,                         \* the end of the memory
          Pools,                              \* the pools to add: [ptr, capacity]
          Sizes,                              \* the sizes asked for
          nullptr

SLC == Pow2[SLI]
FLM == MinimiumAllocationSize * SLC
Addr == 0 .. MaxAddress - 1

\* tlsf_fls_sizet: the index of the highest bit that is set.
Fls(n) == CHOOSE k \in 0 .. n : Pow2[k] <= n /\ n < Pow2[k + 1]
BasePowLevel == Fls(FLM)

\* The size where the classes end (2^39 in the code).
ClassesEnd == Pow2[FLC + BasePowLevel - 1]

\* What the constants have to be.  A request of nothing makes the second level
\* wrap around.  Pools do not overlap, have room for a block, and are rounded up
\* as by createPool; the size of a pool's first block is one that a header can
\* hold (in 31 bits), so that a pool has at most 2 GiB.
ASSUME SizesAssumption ==
  /\ MinimiumAllocationSize \in Nat \ {0} /\ SLI \in Nat \ {0} /\ FLC \in Nat \ {0}
  /\ Pow2[BasePowLevel] = FLM
  /\ TrueSize \in Nat \ {0} /\ TrueSize % MinimiumAllocationSize = 0
  /\ Sizes \subseteq 1 .. ClassesEnd - 1 /\ nullptr \notin Nat
  /\ SizeEnd \in Nat \ {0}
ASSUME PoolsAssumption ==
  /\ MaxAddress \in Nat /\ Pools \subseteq [ptr : Nat, capacity : Nat]
  /\ \A p \in Pools : /\ p.ptr % MinimiumAllocationSize = 0
                      /\ p.capacity % MinimiumAllocationSize = 0
                      /\ p.capacity >= TrueSize + MinimiumAllocationSize
                      /\ p.capacity - TrueSize < SizeEnd /\ p.capacity - TrueSize < ClassesEnd
                      /\ p.ptr + p.capacity <= MaxAddress
  /\ \A p, q \in Pools : p # q => p.ptr + p.capacity <= q.ptr \/ q.ptr + q.capacity <= p.ptr

Levels == [first : 0 .. FLC - 1, second : 0 .. SLC - 1]
Level(f, s) == [first |-> f, second |-> s]
Before(l, m) == l.first < m.first \/ (l.first = m.first /\ l.second < m.second)

NoHeader == [free |-> FALSE, size |-> 0, prevPhy |-> nullptr, prevFree |-> nullptr,
             nextFree |-> nullptr]

VARIABLES heap,          \* block, the list heads, and the two bitmaps
          memoryPools,   \* the pools that were added
          live           \* live[p]: the size asked for at the address p in use

vars == <<heap, memoryPools, live>>
-----------------------------------------------------------------------------
(* Size classes                                                            *)

\* The class whose blocks are all large enough for n, n being rounded up.
AllocLevel(n) ==
  IF n <= FLM
  THEN Level(0, (n + MinimiumAllocationSize - 1) \div MinimiumAllocationSize - 1)
  ELSE LET f == Fls(n)
           segment == Pow2[f - SLI]
           s == (n + segment - 1 - Pow2[f]) \div segment
       IN  IF s > 0 THEN Level(f - (BasePowLevel - 1), s - 1)
           ELSE Level(f - 1 - (BasePowLevel - 1), SLC - 1)

\* Mutant: a block is kept one class higher than its size allows.
InsertLevelUp(n) ==
  IF n <= FLM THEN Level(0, n \div MinimiumAllocationSize - 1) ELSE AllocLevel(n + 1)

\* The class a block of size n is kept in: above FLM one lower than it could be,
\* as the second level is stepped back twice.
InsertLevel(n) ==
  IF n <= FLM THEN Level(0, n \div MinimiumAllocationSize - 1)
  ELSE LET f == Fls(n)
           s == (n - Pow2[f]) \div Pow2[f - SLI]
           back == IF s = 0 THEN Level(f - 1, SLC - 1) ELSE Level(f, s - 1)
           again == IF back.second = 0 THEN Level(back.first - 1, SLC - 1)
                    ELSE Level(back.first, back.second - 1)
       IN  Level(again.first - (BasePowLevel - 1), again.second)

LevelSize(l) ==
  IF l.first = 0 THEN (l.second + 1) * MinimiumAllocationSize
  ELSE LET m == Pow2[l.first + BasePowLevel - 1] IN m + (m \div SLC) * (l.second + 1)
-----------------------------------------------------------------------------
(* Free lists and bitmaps: each operator gives the heap that follows h.    *)

HasFree(h, l) == ~(h.firstBitmap = {} /\ l.first = 0) /\ l.second \in h.secondBitmap[l.first]

SetBits(h, l) ==
  [h EXCEPT !.secondBitmap[l.first] = @ \cup {l.second}, !.firstBitmap = @ \cup {l.first}]

\* Mutant: the first level is cleared with the first list that gets empty.
ClearBitsBoth(h, l) ==
  [h EXCEPT !.secondBitmap[l.first] = @ \ {l.second}, !.firstBitmap = @ \ {l.first}]

ClearBits(h, l) ==
  [h EXCEPT !.secondBitmap[l.first] = @ \ {l.second},
            !.firstBitmap = IF h.secondBitmap[l.first] \subseteq {l.second}
                            THEN @ \ {l.first} ELSE @]

\* queryAllocationWithFreeLevel
PopHead(h, l) ==
  LET next == h.block[h.head[l]].nextFree
      popped == [h EXCEPT !.head[l] = next]
  IN  IF next # nullptr THEN [popped EXCEPT !.block[next].prevFree = nullptr]
      ELSE ClearBits(popped, l)

\* removeFreeAllocationAndUpdateBitmap
RemoveFree(h, a, l) ==
  LET next == h.block[a].nextFree
      prev == h.block[a].prevFree
      h1 == IF prev # nullptr THEN [h EXCEPT !.block[prev].nextFree = next]
            ELSE [h EXCEPT !.head[l] = next]
      h2 == IF next # nullptr THEN [h1 EXCEPT !.block[next].prevFree = prev] ELSE h1
  IN  IF h2.head[l] = nullptr THEN ClearBits(h2, l) ELSE h2

RemoveBlock(h, a) == RemoveFree(h, a, InsertLevel(h.block[a].size))

\* The end of insertFreeAllocation: the block becomes the head of its list.
Push(h, a) ==
  LET l == InsertLevel(h.block[a].size)
      origin == h.head[l]
      h1 == [h EXCEPT !.head[l] = a,
                      !.block[a].nextFree = origin, !.block[a].prevFree = nullptr]
  IN  IF origin = nullptr THEN SetBits(h1, l) ELSE [h1 EXCEPT !.block[origin].prevFree = a]
-----------------------------------------------------------------------------
(* Neighbours in memory                                                    *)

NextPhy(h, a) == a + TrueSize + h.block[a].size

\* Mutant: only the end of the last pool counts.
InsideMemory(p, a) == a < MaxAddress

Inside(p, a) == a < p.ptr + p.capacity

LocatePool(a) == CHOOSE p \in memoryPools : p.ptr <= a /\ Inside(p, a)

Linked(h, p, a, before) == IF Inside(p, a) THEN [h EXCEPT !.block[a].prevPhy = before] ELSE h

\* Block a takes in its neighbour b, whose header is no more.
Absorb(h, a, b) ==
  [h EXCEPT !.block[a].size = @ + h.block[b].size + TrueSize, !.block[b] = NoHeader]

\* The block behind a is taken in if it is free; the one that follows then has
\* a before it.
MergeNext(h, p, a) ==
  LET next == NextPhy(h, a)
  IN  IF ~Inside(p, next) \/ ~h.block[next].free THEN Linked(h, p, next, a)
      ELSE Linked(Absorb(RemoveBlock(h, next), a, next), p, NextPhy(h, next), a)

\* Mutant: the block before is not looked at.
InsertMergingNext(h, p, a) == Push(MergeNext(h, p, a), a)

\* insertFreeAllocation with mergeCheck
InsertMerging(h, p, a) ==
  LET prev == h.block[a].prevPhy
      joins == prev # nullptr /\ h.block[prev].free
      first == IF joins THEN prev ELSE a
      h1 == MergeNext(IF joins THEN Absorb(RemoveBlock(h, prev), prev, a) ELSE h, p, first)
  IN  Push(h1, first)

\* splitAllocation: the head of list l is cut to n and the rest inserted, unless
\* the rest were too small to be a block.
Split(h, p, l, n) ==
  LET a == h.head[l]
      h1 == RemoveFree(PopHead(h, l), a, l)
      next == NextPhy(h1, a)
      rest == a + TrueSize + n
      header == [NoHeader EXCEPT !.size = h1.block[a].size - n - TrueSize, !.free = TRUE,
                                 !.prevPhy = a]
  IN  IF h1.block[a].size < n + TrueSize + MinimiumAllocationSize THEN h1
      ELSE Push(Linked([h1 EXCEPT !.block[a].size = n, !.block[rest] = header], p, next, rest),
                rest)

\* The class to search from when that of l has no free block.
NextLevel(l) ==
  IF l.second + 1 >= SLC THEN Level(l.first + 1, 0) ELSE Level(l.first, l.second + 1)

\* findLevelForSplit: the classes it looks at.  The second level it starts from
\* goes back to zero only when it passes a first level with no free block.
Searched(h, base) ==
  {l \in Levels :
    /\ l.first >= base.first /\ l.first \in h.firstBitmap /\ HasFree(h, l)
    /\ \/ l.second >= base.second
       \/ \E f \in base.first .. l.first - 1 : f \notin h.firstBitmap}
-----------------------------------------------------------------------------
Init ==
  /\ heap = [block |-> [a \in Addr |-> NoHeader], head |-> [l \in Levels |-> nullptr],
             firstBitmap |-> {}, secondBitmap |-> [f \in 0 .. FLC - 1 |-> {}]]
  /\ memoryPools = {}
  /\ live = << >>

\* The first block of a pool.  Its size is cut to the bits of a header; every
\* other size is that of a part of a pool.
Initialize(p) ==
  /\ p \in Pools \ memoryPools
  /\ heap' = Push([heap EXCEPT !.block[p.ptr] =
                     [NoHeader EXCEPT !.size = (p.capacity - TrueSize) % SizeEnd, !.free = TRUE]],
                   p.ptr)
  /\ memoryPools' = memoryPools \cup {p}
  /\ UNCHANGED live

\* The client gets the block behind the header, links included.
HandOut(h, a, n) ==
  /\ heap' = [h EXCEPT !.block[a].free = FALSE, !.block[a].prevFree = nullptr,
                       !.block[a].nextFree = nullptr]
  /\ live' = [p \in DOMAIN live \cup {a + TrueSize} |-> IF p = a + TrueSize THEN n ELSE live[p]]
  /\ UNCHANGED memoryPools

AllocExact(n) ==
  /\ HasFree(heap, AllocLevel(n))
  /\ HandOut(PopHead(heap, AllocLevel(n)), heap.head[AllocLevel(n)], n)

AllocSplit(n) ==
  LET found == Searched(heap, NextLevel(AllocLevel(n)))
  IN  /\ ~HasFree(heap, AllocLevel(n))
      /\ \E l \in found :
           /\ \A m \in found \ {l} : Before(l, m)
           /\ HandOut(Split(heap, LocatePool(heap.head[l]), l, LevelSize(AllocLevel(n))),
                      heap.head[l], n)

AllocFails(n) ==
  /\ ~HasFree(heap, AllocLevel(n))
  /\ Searched(heap, NextLevel(AllocLevel(n))) = {}
  /\ UNCHANGED vars

Free(ptr) ==
  /\ LET a == ptr - TrueSize
     IN  heap' = InsertMerging([heap EXCEPT !.block[a].free = TRUE], LocatePool(a), a)
  /\ live' = Restrict(live, DOMAIN live \ {ptr})
  /\ UNCHANGED memoryPools

Next ==
  \/ \E p \in Pools : Initialize(p)
  \/ \E n \in Sizes : AllocExact(n) \/ AllocSplit(n) \/ AllocFails(n)
  \/ \E ptr \in DOMAIN live : Free(ptr)

Spec == Init /\ [][Next]_vars
-----------------------------------------------------------------------------
(* Correctness                                                             *)

block == heap.block
Headers == {a \in Addr : block[a] # NoHeader}
FreeHeaders == {a \in Headers : block[a].free}

Aligned == {a \in Addr : a % MinimiumAllocationSize = 0}

\* Sizes and addresses are multiples of the smallest block.
Header == [free : BOOLEAN, size : Aligned, prevPhy : Aligned \cup {nullptr},
           prevFree : Aligned \cup {nullptr}, nextFree : Aligned \cup {nullptr}]

TypeOK ==
  /\ heap \in [block : [Addr -> Header], head : [Levels -> Aligned \cup {nullptr}],
               firstBitmap : SUBSET (0 .. FLC - 1),
               secondBitmap : [0 .. FLC - 1 -> SUBSET (0 .. SLC - 1)]]
  /\ memoryPools \subseteq Pools

\* The blocks of a pool follow one another without a gap from its beginning to
\* its end, each knows the one before it, and no two of them are free: freed
\* memory is always merged, never across the border of two pools.  All is aligned.
Tiling ==
  /\ TypeOK
  /\ \A p \in memoryPools :
       LET inPool == {a \in Headers : p.ptr <= a /\ Inside(p, a)}
       IN  /\ p.ptr \in inPool /\ block[p.ptr].prevPhy = nullptr
           /\ \A a \in inPool :
                /\ block[a].size >= MinimiumAllocationSize
                /\ \/ NextPhy(heap, a) = p.ptr + p.capacity
                   \/ /\ NextPhy(heap, a) \in inPool
                      /\ block[NextPhy(heap, a)].prevPhy = a
                      /\ ~(block[a].free /\ block[NextPhy(heap, a)].free)
                /\ a # p.ptr => /\ block[a].prevPhy \in inPool
                                /\ NextPhy(heap, block[a].prevPhy) = a

\* When all that was handed out is given back, whatever the order, each pool is the
\* one free block that it was at the beginning: no memory stays in pieces.
WholeAgain ==
  DOMAIN live = {} =>
    \A p \in memoryPools : block[p.ptr].free /\ block[p.ptr].size = p.capacity - TrueSize

\* The lists hold the free blocks, each in the class of its size and doubly
\* linked, and the bitmaps tell which lists are not empty.
ListsAgree ==
  /\ \A a \in FreeHeaders :
       LET l == InsertLevel(block[a].size)
       IN  /\ IF block[a].prevFree = nullptr THEN heap.head[l] = a
              ELSE block[a].prevFree \in FreeHeaders /\ block[block[a].prevFree].nextFree = a
           /\ block[a].nextFree # nullptr =>
                /\ block[a].nextFree \in FreeHeaders
                /\ block[block[a].nextFree].prevFree = a
                /\ InsertLevel(block[block[a].nextFree].size) = l
  /\ \A l \in Levels :
       /\ heap.head[l] # nullptr =>
            /\ heap.head[l] \in FreeHeaders /\ block[heap.head[l]].prevFree = nullptr
            /\ InsertLevel(block[heap.head[l]].size) = l
       /\ l.second \in heap.secondBitmap[l.first] <=> heap.head[l] # nullptr
  /\ heap.firstBitmap = {f \in 0 .. FLC - 1 : heap.secondBitmap[f] # {}}

\* TLSF is an allocator: the block handed out is as large as was asked for.
Blocks == INSTANCE Allocator WITH Bytes <- MaxAddress
AllocatorSpec == Blocks!Spec
=============================================================================
