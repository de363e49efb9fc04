# A verification project for Yi

Yi is a small C++17 RPC framework for Linux: a client calls functions by name
over TCP, a server runs them in a thread pool and sends the results back. This
directory holds TLA+ models of its concurrent and stateful parts, TLC runs on
small instances of them, models of its wire format and of the message classes
protoc generated for it, and TLAPS proofs about the queue, the thread pools, the
ring buffer, both memory allocators, the server and the client. Every definition is translated from
the source; `PROJECT.json` maps each one to its lines.

## 1. The system

| Component | State | Operations | What makes it hard | What makes it correct |
|---|---|---|---|---|
| `util/LockFreeQueue.h` | a ring of nodes with two tickets each (`readIndex`, `storeIndex`), `_head`, `_tail` | Push, Pop, Empty, Size, from any thread | every atomic access is a step; captured counters go stale; nodes are used again round after round | a bounded FIFO; two threads never in one node; no ticket lost; `Size` does not wrap |
| `thread/ThreadPool.h` | task queue, mutex, condition variable, `stop`, workers | enqueue, Join, destructor | wakeups lost between the look at the queue and the sleep; shutdown with tasks queued | every accepted task is started once, in order, and finished before the destructor returns |
| `thread/LockFreeThreadPool.{h,cpp}` | the same over a LockFreeQueue; the mutex only serves the condition variable | enqueue, join, destructor | enqueue notifies without the mutex; Push gives up when it is overtaken | the same |
| `util/RingBuffer.h` | an array, `_read_pos`, `_write_pos` (unsigned, wrapping) | Writen, Readn, Retrive, queries | positions wrap around the word; `Retrive` moves backwards | a bounded FIFO stream of items, batches whole or not at all |
| `network/io/withBuffer/Buffer.h` | a descriptor, a ring buffer, a mutex | ReadFromSocket, ... | blocks in `read()` with the mutex; takes 8 KiB at most; drops what does not fit | bytes are kept in order |
| `network/Net.cpp`, server | epoll set, `_connection_buffer_pool`, function map, task pool | Accept loop, `_ServerRead`, `_DoWriteFunctionCall`, `_DoDisconnect`, `_Write` | several tasks per connection, late tasks, descriptor numbers used again, edge-triggered events, TCP segmentation | each call is run at most once, in order, and its result reaches its caller; every call is answered; connections are released |
| `network/Net.cpp`, client and `test/rpcclient` | one connection, callback map | Connect, Start, Send, `_ClientRead`, CallFunction | as the server; the event loop occupies a worker | each answer runs its callback once |
| `serialization/Parser.h`, `proto/` | none | Serialize, Parse, MakeRequest, the macros that fill a call | two nested headers; a header of two bytes only below 128 | what arrives is what was sent, and the result fits the call |
| `serialization/*.pb.{h,cc}` | message objects: has bits, members, submessages kept for later, unknown fields | accessors, Clear, MergeFrom, CopyFrom, copying, IsInitialized, ByteSizeLong, serialising, parsing | fifteen classes of seven functions that each test has bits; cleared submessages are used again | an object is the message its operations mean; parsing undoes serialising |
| `util/MemoryPool.h` | `_free_list`, `_used_list` | alloc, free | splitting, no merging | live blocks are disjoint, nothing is lost |
| `util/TLSF.hpp` | block headers, two levels of free lists and bitmaps | initialize, alloc, realloc, free | rounding to size classes; lists, bitmaps and neighbours in memory must agree through splits and merges | as MemoryPool; freed neighbours are always merged |
| `util/Singleton.h`, `util/Random.h`, sockets, `network/io/noBuffer` | little or none | | | |

The RPC server's main thread runs `Net::Accept`; every readable connection
becomes a task of `ThreadPool`; a task reads the connection into its `Buffer`
(a `RingBuffer` and a mutex), cuts it into calls, runs them and writes the
answers. Requests and results are objects of the generated classes, written with
`Parser.h`. A client occupies one worker of its pool with `Net::Start` and sends
calls from others. `LockFreeThreadPool` is the alternative pool that the
benchmarks and tests use; `MemoryPool` and TLSF stand alone.

## 2. Modules

| Module | Models |
|---|---|
| `BoundedFifo` | what a queue promises: abstract specification |
| `LockFreeQueue` | the queue, one action per atomic access |
| `LockFreeQueue_proofs` | proofs about it |
| `TaskPool` | what a thread pool promises: abstract specification |
| `ThreadPool`, `ThreadPool_proofs` | the pool with a locked queue; proofs about it |
| `LockFreeThreadPool`, `LockFreeThreadPool_proofs` | the pool composed with `LockFreeQueue` (by `INSTANCE`); proofs about the two together |
| `ByteFifo` | what a ring buffer promises: abstract specification |
| `RingBuffer`, `RingBuffer_proofs` | the ring buffer on words of `Width` bits; proofs about it |
| `RpcService` | what the server promises its clients: abstract specification |
| `RpcServer`, `RpcServer_proofs` | server side of `Net` with `Buffer`, epoll, workers, clients; proofs about it |
| `RpcCalls` | what the client library promises the application: abstract specification |
| `RpcClient`, `RpcClient_proofs` | the client library over the client side of `Net`, with its pool, connection and server; proofs about it |
| `Allocator` | what an allocator promises: abstract specification |
| `TLSF` | the two-level segregated fit allocator |
| `MemoryPool` | the memory pool |
| `Allocators_proofs` | proofs about the two allocators |
| `MCAllocators` | the two allocators for TLC; a program uses one of them |
| `PowersOfTwo` | the shifts of one, used by `RingBuffer` and `TLSF` |
| `NaturalLemmas` | lemmas about `%`, sets of natural numbers and powers of two, for the proofs |
| `RequestClasses` | the generated classes as tables: members, bits, tags, what each function tests |
| `ProtoWire` | the protobuf library's varints and tags (external) |
| `ProtoMessage` | the generated functions, once for all classes |
| `MessageRecord` | what a message is, without bits and bytes: abstract definition of the operations |
| `Messages` | an object of any class under any sequence of operations |
| `WireFormat`, `MCWireFormat` | calls and results on their way, over `Messages`; values for TLC |

**LockFreeQueue.** `head`, `tail`, `readIndex`, `storeIndex`, `val` are the
members; `pc`, `capture`, `arg`, `out` the locals of the calls in progress. A
Push is `PushCall` (165-168), `PushLoad` (the load of `_tail`), `PushCheck`
(ticket against capture), `PushCasSucceed` or `PushCasFail` (the weak
compare-exchange, spurious failure included), `PushWrite` and `PushPublish`;
Pop is alike, and Empty and Size load one counter per step. The 64-bit
counters are natural numbers (they would wrap after centuries) and
`TicketBound` caps them. *Memory model:* the actions interleave sequentially
consistent accesses. The code loads its indices with relaxed ordering, which
is enough on x86-64, where loads are not reordered with loads and stores not
with stores; on a weaker machine the value of a node could be read before it is
written, and the model says nothing of it.

**ThreadPool and LockFreeThreadPool.** `pc` is where each worker stands in its
loop, `enq` the same for enqueue, `owner` for the destructor and Join/join.
The mutex is a variable; waiting gives it up and falls asleep in one step
(`WorkerSleep`), notification moves a sleeping worker to "woken", and
`SpuriousWakeup` may do so at any time. `Spawners` are workers whose tasks call
enqueue; `Endless` tasks never return (as the event loop of a client).
`LockFreeThreadPool::join` is modelled as it is written; declared `inline` in the
`.cpp`, it cannot be called from another file. In `LockFreeThreadPool` the test of
`tasks.Empty()` and the sleep are separate
steps of a worker that holds the mutex, and enqueue takes no mutex at all.

**RingBuffer.** The two copy loops of Readn and Writen (up to the end of the
array, then from its beginning) are one mapping from items to cells,
`Cell((pos + k) % Word)`. `Retrive` puts back what the last `Readn` took, as
its only caller, `Net.cpp:44-53`, does.

**RpcServer.** The main thread is `EpollWait`, `MainAccept`,
`MainAcceptFails`, `MainDispatch`; a worker goes through `TaskStart`, `Lookup`
(`_DoRead`), `ReadLock`, `ReadStore`, `ReadNothing` or `ReadNoRoom`
(`ReadFromSocket`),
`ServeLock` and the loop of `_DoWriteFunctionCall`: `ServeDone`,
`ServePostpone`, `ServeRun`, `ServeThrow`, `ServeWrite`; and `_DoDisconnect`:
`DropWatch`, `DropLookup`, `Erase`, `Close`. The stream of a client is numbered
units, `MsgSize` of them per call, and `arrived` and `taken` say how far it has
reached the server and has been read; `dropped` is a history variable, the
calls of which a full buffer refused some units. One `read()` takes what waits, but at most
`Capacity` units (`Incoming`): both its array and the ring have 8 KiB. So a batch can end
inside a call, and what is left waits in the socket until epoll reports more.
What is read as a header and a body is a call only if it is one call's units, none missing
(`IsHeader`, `Follows`), and otherwise a fragment. A descriptor is a number; `SocketAt`
says which connection it stands for at the moment, so late tasks find another
connection or none, as in the program. `read()` waits, with the mutex, until
the socket is readable. epoll reports an edge once and only if the socket is
still readable. Buffers are named after the client they were made for and hold
sequences: the promise `ByteFifo`, which `RingBuffer` is checked to keep.
`tasks` is the promise of `TaskPool`: first in, first out, one worker each.
Clients, TCP and epoll are not in the repository and are modelled from how
`Net.cpp` uses them (marked external in the map).
Assumed: single operations on `_connection_buffer_pool` are atomic, although
the code does not lock them (a data race, listed as a hazard); epoll and
`write` do not fail; a client's body is below 128 bytes, so headers have two and a call fits into an
empty buffer (`MsgSize <= Capacity`).

**RpcClient.** The application connects, starts the event loop and calls; `Start`
and `CallFunction` append to `tasks` (the promise of `TaskPool`). A worker runs
the loop (`LoopWatch`, `LoopWait`, `LoopDispatch`), sends a call (`Send`, one
`write`), or reads: `Lookup`, `ReadLock`, `ReadStore` / `ReadNoRoom` /
`ReadNothing`, `ServeLock` and the loop of `_DoWriteFunctionRet` (`ServeDone`,
`ServePostpone`, `ServeCall`, `CallbackReturns`, `ServeThrow`), and
`_DoDisconnect` as in the server. The server and TCP are external: calls are
answered in the order of the stream (what `RpcService` promises), and the server
may close the connection at any time; a write after that resets it and the next
one kills the process (`SIGPIPE`). *Assumed:* an answer is read as a whole, what
waits in the socket fits into one `read()`, and the application waits for the
callback before it calls again, except after a call without a callback or with
an answer that is too large (`Unawaited`). `dropped` remembers, for the
properties only, which answers were read and found no room (`ReadNoRoom`).

**MemoryPool.** `free_list` is the multimap as a sequence in its order,
`used_list` the hash map as a function; the entry that `operator[]` makes for a
pointer that is not in use is modelled (`PoolFreeNull`). As one program uses one of the
allocators, the two modules can be extended together; the names that both would
have begin with `Pool` here.

**TLSF.** `heap` is the memory as the allocator sees it: `block` maps an address
to the header there (`NoHeader` elsewhere, so that a stale header is noticed),
`head` is `_allocationLinkTable`, and the bitmaps are sets of the indices of
their bits. Each helper of the code (`RemoveFree`, `PopHead`, `Push`, `Split`,
`MergeNext`, ...) is an operator from a heap to the next, applied in the order of
the calls, and one call of alloc or free is one action, as the allocator is used
by one thread. `live` is a history variable, the sizes asked for, from which
`AllocatorSpec` judges what was handed out. The constants scale the code's 16
bytes for the smallest block and for a header, 32 classes and 31 levels down;
the level functions are the code's, for every such choice. `SizeEnd` stands for the
2^31 sizes a header can hold (`TLSFUtility.h:138`): `Initialize` keeps the size of
a pool's first block modulo it. `Inside` is the
pool's end; `LocatePool` is the search through `memoryPools`.

**RequestClasses, ProtoMessage.** protoc writes the same functions for every
class; they differ in the fields they name, the has bits they test and the tags
and numbers they read and write. `RequestClasses` has one table per class and
function with just that, taken from the functions' bodies (not from the
`.proto` files): `C_parse` from the `case` labels and tag comparisons,
`C_write`, `C_size`, `C_clear`, `C_merge`, `C_copy` from the masks, and so on.
`ProtoMessage` has each function's shape once, over the tables. An object is its
has bits, its members and the bytes of unknown fields; a submessage is null or
an object, and clearing a field or a message clears the submessage but keeps
it, as `clear_x` and `Clear` do. A parse stops at the first field it cannot read
and leaves what it has read. Its map entries name `FunctionCall`'s functions, or
those of the class that shows the case best. `VerifyUTF8`, arenas, swapping,
moving and reflection are left out.

**Messages.** `obj` is the object of an application and `record` what it should
be by `MessageRecord`, where a message is a function from the fields it has to
their contents. Each action is one operation on both. `ParseInto` parses what a
peer sent, with or without a field that this version does not know.

**WireFormat.** `CallFunction` queues a task that refers to the application's
object; `SendCall` is the task (`RpcClient.cpp:24-29`): copy, `Serialize`,
`_Write`. The server takes a package from its buffer (`ServeTake`: two bytes of
header, the announced number of bytes, `Parse`), runs the function of that name
(`ServeRun`, with `add_int_ret` and `player_move` of `server.cpp`; `ServeThrow`
if there is none) and writes the result; the client does the same for callbacks
(`ReceiveTake`, `CallBack`). Where a player gets to is one of `Outcomes`, the
arithmetic of `Player::move` being in doubles. *Assumed:* what is written at
once arrives at once, one worker at a time reads a connection (`RpcServer` has
the other cases), and a server that has lost its place is not followed. The
application changes its object only while nothing is on its way, which makes no
difference to bytes that have been written.

## 3. Runs

| Run | Bounds | Shows |
|---|---|---|
| `queue` | 2 threads that push and pop, one of them observing, 2 nodes, 4 tickets, 1 value | types, `NodeExclusive`, `NothingLost`, `SizeNeverNegative`, refinement of `BoundedFifo`, `LockFree` |
| `pool` | 2 workers, 1 client, 3 tasks, one endless | `NoLostWakeup`, refinement of `TaskPool`, every task runs, the destructor returns |
| `lockfree_pool` | 2 workers, 1 client, 2 tasks, 1 node | refinement of `TaskPool`, every task runs, the destructor returns |
| `lockfree_pool_lost_wakeup` | 1 worker, 1 task | **violated:** the task stays in the queue while the worker sleeps |
| `ring_buffer` | words of 3 bits, ring of 4, batches up to 4 | refinement of `ByteFifo`, across the wrap of the word |
| `server_turns` | 2 clients of 2 calls, one under way each, 2 descriptors, 3 workers | refinement of `RpcService`, `OwnBytes`, `NoNullBuffer`, every call is answered, connections are released |
| `server_window` | 1 client of 5 calls of 10 units, 4 under way, one unknown function, 3 workers, a buffer and a `read()` of 32 | refinement of `RpcService` under contention for one buffer, with calls cut by a `read()`, postponed and dropped |
| `server_pipelined` | 1 client, 2 calls under way | **violated:** every call is answered |
| `server_fragments` | 1 client, stream cut anywhere | **violated:** only whole calls are run |
| `client` | 4 workers (as `client.cpp`), 4 calls: two in turns, one without a callback, one with an answer above half the buffer | refinement of `RpcCalls`, `NoNullBuffer`, every awaited call has its callback run |
| `allocators` | TLSF: 2 adjacent pools of 44 and 12 units, smallest block and header of 2, headers that hold sizes below 64, 4 classes in each of 4 levels, 4 sizes; or MemoryPool: 5 units, sizes 1 to 3, free list up to 3 before an allocation | of TLSF `Tiling` (alignment included), `WholeAgain` (a pool is one block again when all is given back), `ListsAgree`, `AllocatorSpec`; of MemoryPool `PoolTiling`, `PoolAllocatorSpec` |
| `wire` | all 15 classes; objects empty, with all fields at defaults, with all fields different from them, or the calls of `client.cpp`; 2 changes, 2 calls; buffers of 200 bytes | `BehavesAsRecord`, `AbsentIsDefault`, `SizeAgrees`, `ParseInverts`, `EndToEnd` |

*Why the bounds are enough.* The queue's conflicts are between two threads in
one round of a node and between consecutive rounds; four tickets on two nodes
give both. One value makes the run small enough for its liveness property; that
values come out in the order they went in, for any number of threads and values,
is the theorem `Refinement` of section 5. Wherever section 5 has a theorem for a
safety property, the run only has to show that the property is not vacuous and
that the liveness that rests on it holds. Two workers and two to three tasks give a pool in which one worker
sleeps or is about to while the other one runs, spawns or ends. A three-bit word
wraps every second turn of a ring of four. In the server every hazard is between
two workers of one connection, or one late worker and a descriptor that is used
again; the runs have both, though not together (see section 6). In
`server_window` three calls fill the buffer but for two units, so the next size
read looks larger than the room and a fourth call does not fit; and four calls that
wait are more than one `read()` takes, so the fourth is cut behind its header. Of the passing runs
of the server only this one has calls postponed or dropped and unknown functions. In `allocators` TLSF's
pools are cut into up to ten blocks in three levels of classes, on both
sides of FLM and of powers of two, and every order of freeing them is explored;
the second pool begins where the first ends. In `client` the loop, a
sender, a reader and a worker in a callback are at work at once, and every end
of the connection falls between any two of their steps. In `wire` two changes to
objects that have all their fields reach what is hard here: a field or a message
cleared and used again, merged with another, taken away or put back as null,
at every depth; 200 bytes of buffer make the second of two calls of
`client.cpp` larger than the room that is left; one value of a number needs two
bytes, one ten, and `LongReq` a header of three. A call can be changed before,
while and after it is queued. Deadlock is not
checked where the system may stop: pools that have shut down, and a server whose
clients have nothing more to say, and an application that is done.

*What the violated runs mean.* Each is a disagreement between the code and a
comment, a note or a test of the repository; `PROJECT.json` quotes the line.
(1) With one worker, `LockFreeThreadPool` can lose its only wakeup, as enqueue
notifies without the mutex; with two, the worker that runs or returns picks the
task up. (2) Two tasks of one connection: one reads both calls, the other waits
in `read()` holding the mutex. (3) A call that arrives in pieces is parsed too
early.

*Known, without a run of its own.* (1) Push's `false` and Empty's `true` compare a
captured counter with a ticket loaded later, so besides "full" and "empty" (the
comments at lines 175 and 235 of the queue) they also mean "overtaken". (2)
Connections are watched edge-triggered but read once per event: if a client may
hang up before it is answered (`Patient = FALSE`), one edge reports data and
hangup, the only read takes the data, and `ConnectionsReleased` fails. (3)
`MemoryPool::free` never merges, so a pool with nothing in use may refuse a size
it served at the beginning. (4) A connection that overflows its buffer loses
calls, and calls it sends later may still be run before it is taken down:
`RpcService` allows a call to be skipped only when it was dropped so. If
a `read()` takes as much as the ring holds, the ring is full, its first call looks
larger than the room behind its header and is put off for ever (`Net.cpp:51`), and the next
batch finds no room and takes the connection down. With up to four calls under way
that is all that happens, and the calls run are still in order and run once. With five
(`Window = 5` and `MaxCalls = 6` in `RpcServerWindow.cfg`), a batch that is refused can end
inside a call: the buffer holds one call, four wait, and a `read()` of 32 finds no room;
before the connection is taken down, another worker stores the 8 units left of the
last call and parses them as a call, so `ServiceSpec` fails. That is the disagreement
of `server_fragments`, reached without TCP cutting anything.
(5) The client reads as the server does: with two calls under way one reader can
take both answers while the other waits in `read()` with the mutex, and the
callbacks wait for more data. Its `_ClientRead` lacks the server's test for a
null buffer, so two readers that both find the end of the connection crash it.
`NoNullBuffer` and `EveryCallBack` of `RpcClient` are therefore stated for an
application that waits. An answer above half the buffer is never delivered and
blocks those behind it. If the application calls on without waiting for such
answers, one may find no room and be dropped, and the next reader finds the
answers behind it, whose callbacks it runs: `RpcCalls` lets an answer be passed over for
this reason (`Drop`), but only if there is a call the application did not wait
for. (6) `TLSF::findLevelForSplit` starts in each first
level from the class it was given for the first one, unless the level before is empty. With a free block of
2 units in class 0 of level 0 and one of 14 in class 1 of level 1, the scaled
model refuses a request of 3 (class 1): the comment at `TLSF.hpp:173` takes that
for "no suitable block". `Searched` is that search. (7) `TLSF::realloc` grows a
block in place without linking the block behind, and when it moves, inserts the
old one without its free bit and copies nothing (401-425). (8) From 128 bytes on
a header has three bytes and the readers take two: the third is read as the
first byte of the message, and everything behind it is out of step. Two headers
before each message are harmless below that: the reader takes one off, and the
other is parsed as `call_type` of the request (kept as an unknown field if no
enum value fits) and overwritten by what follows. `EndToEnd` holds for shorter
messages (`~long`). (9) `CallFunction` returns before its task copies the
argument; a call that is changed in between is sent as it is then. `EndToEnd`
holds if the application does not do so (`quiet`), as `client.cpp` does not.
(10) `Parse` drops what `ParseFromString` returns, so a call that could not be
read is looked up by the name it has got so far, the empty one if none.

## 4. Fairness

Weak fairness for each thread: the operating system keeps running threads that
can run. Strong fairness is assumed where a thread competes again and again
for something that is free infinitely often: acquiring a mutex (in the pools),
and the success of a weak compare-exchange, which hardware does not fail
spuriously for ever. For `LockFree` only system-wide progress is claimed.
In `RpcServer` and `RpcClient` weak fairness also has the network deliver what
was sent, and the client's server answer; no client has to call, wait or hang up,
and no server to close.

## 5. What is proved

The proofs are in the modules `*_proofs`, one per component; each theorem holds
for every value of the constants that the component's `ASSUME`s admit. They have
one shape: an inductive invariant whose parts are named for what they say, a
lemma per action, the theorem that combines them, and the refinement as "initial
states map to initial states, every step maps to a step or a stutter".

| Theorem | Module | States, for all constants |
|---|---|---|
| `TypeCorrect`, `Exclusive`, `Complete`, `SizeCorrect`, `Refinement` | `LockFreeQueue_proofs` | `TypeOK`, `NodeExclusive`, `NothingLost`, `SizeNeverNegative`; the queue implements `BoundedFifo` |
| `TypeCorrect`, `WakeupsKept`, `AllLearnOfStop`, `Refinement` | `ThreadPool_proofs` | `TypeOK`, `NoLostWakeup`, nobody sleeps once the destructor waits; the pool implements `TaskPool` |
| `TypeCorrect`, `Refinement` | `LockFreeThreadPool_proofs` | `TypeOK`; the pool over the lock-free queue implements `TaskPool` |
| `TypeCorrect`, `Refinement` | `RingBuffer_proofs` | `TypeOK`; the ring implements `ByteFifo` |
| `Tiled`, `Reassembled`, `ListsCorrect`, `Refinement` | `Allocators_proofs` | `Tiling`, `WholeAgain`, `ListsAgree`; TLSF implements `Allocator` |
| `PoolTiled`, `PoolRefinement` | `Allocators_proofs` | `PoolTiling`; the memory pool implements `Allocator` |
| `TypeCorrect` | `RpcServer_proofs` | `TypeOK`, for all clients |
| `NullNeverUsed`, `BytesKeptApart`, `Refinement` | `RpcServer_proofs` | `NoNullBuffer`, `OwnBytes`, the server implements `RpcService`, for clients that await each answer |
| `TypeCorrect`, `Refinement` | `RpcClient_proofs` | `TypeOK`; the client implements `RpcCalls`, whether or not the application waits |
| `NullNeverUsed` | `RpcClient_proofs` | `NoNullBuffer`, which is about applications that wait for their answers |

**LockFreeQueue.** `NodeExclusive` is not inductive: that two threads are apart
depends on the tickets they claimed, and that on how the tickets of a node relate
to `_head` and `_tail`. `IInv` says so node by node. `NodeInv`: the `storeIndex` of a node
belongs to it and lies less than a round from both counters, its `readIndex`
is the same ticket (published) or that of the round before, and an outdated
ticket means that some thread is working on it. `ThreadInv` ties each thread's
`pc` to the ticket it captured, and `ClaimInv` keeps claims apart. The step
proof has a case per action; the nodes an action does not touch are handled
once, in `NodeInvFrame`. For the refinement, the abstract queue is the sequence
of values of the tickets from `_head` to `_tail`, taken from the node or, if
the pusher has not written yet, from its argument.

**ThreadPool.** `NoLostWakeup` compares the tasks in the queue with the workers
and notifications on their way. It survives a worker's return only because a
worker returns when the queue is empty and stop is set, and stop is set only when no
client is in enqueue (`Closing`); it survives the destructor's notification because then
nobody sleeps (`NobodySleepsOn`). The refinement also needs that a task is in
one place only: offered, queued or running (`OncePerTask`). `SizeAssumption`: the
threads are finitely many, and there is a worker, as a pool without one would be destroyed with
its queue full.

**LockFreeThreadPool.** The proof composes: every step of the pool is a step of its
queue or leaves it alone (`QueueSteps`), so the queue's invariant holds, and the
lemmas of `LockFreeQueue_proofs` turn each access to shared memory into a step of
`BoundedFifo` or a stutter (`PushInQueue`, `PopInQueue`, `LooksInQueue`). What is
left is about the pool: each of its steps offers a task, puts it into the queue,
takes it out, finishes it, or is `Invisible` (`ViewStep`), and a task is in one
place only (`OncePerTask`). That nothing is left when the last worker has
returned is the hard part, as a worker decides by what `Empty` answered, which
may no longer be so: after the last push `Empty` can answer "yes" only if
the head moved on or the oldest task is claimed but not published. In the first
case the worker that moved it is not leaving, and in the second the pusher is
itself a worker that runs a task, since clients are done before stop is set
(`StorerRuns`). `SomebodyStays` says so of every moment: while stop is set and
tasks are queued, some worker has not returned and has not seen what makes it
return. `Spawners` is arbitrary: tasks may enqueue tasks. `SizeAssumption` is as in
`ThreadPool`, with the queue's capacity.

**RingBuffer.** `TypeOK` bounds the size by the capacity, and is inductive only because
the capacity is a power of two no larger than half the word: then the
positions may wrap and their difference is still the size, and
the cells of two rounds agree. That `_Round_Up_Power_Of_2` returns such a number is
the lemma `RoundedUp`, with `Pow2` for `1U << k`. `IInv` adds that what lies
between the positions has been written (`ItemsWritten`), and that the items of the last
Readn are still behind the read position, with room to have them back
(`LastReadKept`): without it `Retrive` could not be shown to give back what was
read. `AskedAssumption` leaves out capacities for which the code's shift is undefined.

**TLSF.** What alloc and free rely on is spread over three structures: the row of
headers in memory, the doubly linked lists and the bitmaps. `Tiling`
and `ListsAgree` are inductive only together and with more: a merge writes into
headers that it reaches by an address it computes, so one has to know that no header
lies within another block (`Row`; `Tiling` implies it only by an induction along the
row), that every header lies in a pool that was added, and that no free bit or
link is left where no header is (`Clean`). These,
with the lists, are `Sound(h, P, F, x)`: heap `h` consists of the pools `P`, its
lists hold exactly the blocks `F`, and every block but the one behind `x`
knows who is before it. The two exceptions `F` and `x` are what a call needs on its way: a
block leaves its list before it is cut or merged, and is linked again later.
Each operator of the model has one lemma that says how it moves `F` and `x` (`RemoveSound`,
`AbsorbSound`, `LinkedSound`, `CutSound`, `PushSound`, ...), and a call is a chain of them
that ends in `Good`, where all free blocks are listed, all blocks linked, and no
two free neighbours are left (`Merged`). On the way through free one
block may have a free one behind it (`Loose`). `IInv` is `Good` and `LiveOK`: the
client has exactly the blocks in use, each at least as large as asked for. The
last part rests on the size classes, proved for every class width, number of levels
and smallest block: a block is kept in a class whose size it reaches
(`InsertLevelFacts`), a request is looked for in one whose size is enough for it
(`AllocLevelFacts`), and a later class is larger (`LaterIsLarger`); so a block from the
class of the request or from a later one has room for the size of that class. That blocks in use
are disjoint follows from `Row` (`UsedApart`), which is the refinement; that a pool is
one block again when nothing is in use follows from `Row` and `Merged`. *Assumed of the
constants* (`SizesAssumption`, `PoolsAssumption`): FLM is a power of two and a
header a multiple of the smallest block, as in the code; requests are positive and below the
largest class, 2^39 in the code; the
pools are rounded up as `createPool` does, have room for a block and do not overlap,
and the size of their first block, the largest a block can have, is below `SizeEnd`, as a
header has 31 bits for it. So the theorems are about pools up to 2 GiB, though
`TLSF.hpp:63` names 64 GB: of a larger pool `initialize` would manage only what is left
of its size in 31 bits. Nothing is assumed of the number of pools or of which of them touch.

**MemoryPool.** `PoolTiling` counts the blocks that cover an address. `PoolInv` has it
without counting, as "exactly one block, free or used" (`OneBlockEach`), with the
order of the free list and the entry of the null pointer (`UsedOK`). An allocation that
splits a block removes it and inserts the rest elsewhere in the sorted list:
`Replaced` relates the indices of the two lists.

**RpcServer.** `TypeCorrect` is unconditional; among the types are that the
mutex of a buffer is held by the worker that stands where the code holds it, and
that buffers keep within their room. The other three theorems have the
hypothesis `Synchronous` (`Window <= 1 /\ Patient /\ WholeSegments`): a client
sends a call when the one before is answered, hangs up when nothing is owed to it,
and its calls arrive in one piece. The hypothesis is what `server_turns` assumes, and it is needed:
without it the code breaks these properties or cannot promise them (the runs
`server_pipelined` and `server_fragments`, and section 6). Their number, the workers', the
descriptors' and the calls' is arbitrary, descriptors are used again, and late
tasks and closing connections are included.
The inductive invariant `SInv` follows one conversation: `Talk(c)` says how far sent,
arrived, taken, stored, run and answered may be apart; `Descriptors`, that a
descriptor, its entry in the map and its connection belong together until the
connection is being erased; `Edges`, that each connection has at most one edge
on its way (reported by epoll, in the list of events, or in a task) and only if there is something to
be read and nothing in the buffer (`Sound`); `Carriers`, that at most one worker has taken up
that edge; `Servers`, that one worker serves a buffer, and what another may do
meanwhile. As a call fits into an empty buffer, such a client never sees one cut or
dropped (`AlwaysRoom`, and `Talk` has `dropped` empty). `NoNullBuffer` follows because a second task for a connection that
is being closed cannot exist, `OwnBytes` because a buffer is read into only from its
own connection. *Assumed of the constants:* finitely many descriptors, calls that fit into an
empty buffer (`SizeAssumption`), and model values that are apart (`NobodyAssumption`, `BufferAssumption`).

**RpcClient.** `TypeCorrect` and `Refinement` have no hypothesis about the application:
workers, calls, sizes, the answers without a callback or too large, and when the
server closes are arbitrary. `IInv` says that a call is in one place only, a
task, a worker that sends it, or the stream (`SentOnce`), and that what was taken from
the socket is in the buffer in the order of the answers, called, dropped or passed over
(`InOrder`); so the first answer in the buffer is the next one that `RpcCalls`
may call back. That an answer is dropped only when some call was not awaited is
part of the refinement, and needs the other half of the invariant, `TameInv`,
which describes an application that has waited for everything so far: one call is
under way (`InTurn`), so nothing is ever without room (`NothingIsLost`). The same half gives
`NullNeverUsed`. `Reads` are the reads of the connection still to come, wherever they
are: an edge epoll has not reported, one the loop has taken, a task, a reader.
`Edges` says that while the connection is open there is at most one, and none
unless there is something to read; the server's close adds one more, so two in
all, of which the first to find nothing is the last to read (`Gone`). Hence one worker
only takes the connection down (`TakenDown`), and nobody looks for the buffer
after it is erased. `SizeOf` is a recursive function; that there is such a
function is `SizeDef`. *Assumed of the constants:* two small answers' bodies fit
into the buffer, and so does each answer with its header (`SizesAssumption`, as
with the 8 KiB of `Buffer` and the calls of `client.cpp`).

**Induction.** Where an induction over numbers is needed, `NaturalLemmas` has the
least element of a set of natural numbers and, from it, induction for sets;
the library's induction theorems take an operator and cannot be used. The recursive
definitions that are reasoned about are functions: `Pow2` and `SizeOf`.

**Only model-checked.** All liveness and what needs ENABLED (`LockFree`,
`EveryTaskRuns`, `DestructorReturns`, `EveryCallAnswered`,
`ConnectionsReleased`, `EveryCallBack`): out of the prover's reach.
`ProtoMessage`, `Messages` and `WireFormat` use recursive operators and are about what
recursive definitions compute for all messages, which the provers cannot handle: their
properties, those of the run `wire`, stay with TLC. Every other safety property of a
passing run is a theorem, `ServiceSpec` for clients that await each answer: that a
client which sends ahead sees its calls run and answered in order is checked by
`server_window` only, for up to four calls under way.

## 6. Not modelled

- `TLSF::realloc`, whose defects are described in section 3.
- Of the generated classes: arenas, swap and move, descriptors and reflection,
  `mutable_` of strings and list elements, groups (no message has one), and what
  a string holds whose size is beyond the end of its message.
- An application whose argument of `CallFunction` is gone, not only changed, when
  the task reads it (the read is undefined then); an `int` sum that overflows in
  `add_int_ret`; the arithmetic of `Player::move`.
- A server that has lost its place in the stream after a message of 128 bytes or
  more: the next bytes of the stream are not followed.
- In the runs of `LockFreeThreadPool`, tasks that enqueue (`Spawners` is empty
  there, arbitrary in the proofs): if the queue is full and all workers enqueue,
  they spin for ever.
- The threads of client and server together: each side is checked against what
  the other promises, and the bytes of both in `WireFormat`, where one worker on
  each side reads.
- The combination of clients that send ahead and descriptor numbers that are
  used again: there a late worker can read a new connection into an old
  buffer, and calls of one client are run out of order (`ServiceSpec` fails if
  `RpcServerWindow.cfg` is given a second client). No document of the
  repository promises that order, so there is no run for it.
- Data races whose outcome is undefined: `_connection_buffer_pool`, the copy of
  `RingBuffer` positions that `IsEmpty` reads in `_DoDisconnect`.
- Exceptions of copy constructors, memory exhaustion, failing system calls,
  `SIGPIPE` in the server when it writes to a connection that was reset.
- Sockets, `network/io/noBuffer`, `Singleton`, `Random`, benchmarks: wrappers of
  system calls, code that is not called, or no state of its own.

## 7. Plan

1. `QueueCapacity`: the mask loop of the queue's constructor.
2. `TLSF::realloc`, once its defects (section 3) are settled: that it keeps `Good`.

`ProtoMessage` and the modules over it use recursive operators, which the provers
cannot handle: they stay with TLC.
