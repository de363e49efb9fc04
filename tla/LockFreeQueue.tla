---------------------------- MODULE LockFreeQueue ----------------------------
(***************************************************************************)
(* yi::LockFreeQueue<T> (util/LockFreeQueue.h): a bounded multi-producer   *)
(* multi-consumer queue over an array of nodes.  _head and _tail count the *)
(* Pops and Pushes that have claimed a position ("ticket") since the queue *)
(* was built; ticket k lives in node k & _capacityMask.  A node's          *)
(* storeIndex is the ticket it may next be stored for, its readIndex the   *)
(* ticket it was last published for.                                       *)
(*                                                                         *)
(* Every action is one access to shared memory by one thread, so TLC       *)
(* interleaves the calls at the granularity of the atomics in the code.    *)
(* The atomics are sequentially consistent here, which is what the relaxed *)
(* loads, the locked compare-exchange and the release stores compile to on *)
(* x86-64 as far as this algorithm can tell (see README, "Memory model").  *)
(***************************************************************************)
EXTENDS Integers

CONSTANTS Pushers,      \* the threads that call Push
          Poppers,      \* the threads that call Pop
          Observers,    \* the threads that call Empty and Size
          Val,          \* the values of type T
          NoVal,        \* a node holding no object (raw or destroyed memory)
          Capacity,     \* _capacity, after the constructor has rounded it up
          TicketBound   \* bound on the exploration: callers stop calling Push
                        \* once this many tickets have been handed out

ASSUME CapacityAssumption == Capacity \in Nat \ {0}
ASSUME ValueAssumption == NoVal \notin Val

Threads == Pushers \cup Poppers \cup Observers

Slots == 0 .. Capacity - 1

\* ticket & _capacityMask; _capacity is a power of two and the mask is
\* _capacity - 1, so the mask takes the remainder.
Slot(k) == k % Capacity

\* ~0ULL, "a value that will never equal to '_head'": 64-bit counters do not
\* get that far, so it is a number no counter ever has.
InvalidPosition == -1

VARIABLES head, tail,             \* _head, _tail
          readIndex, storeIndex,  \* the two atomics of each node
          val,                    \* the T object in each node
          pc,                     \* where each thread stands in its call
          capture,                \* its local tailCapture / headCapture
          arg,                    \* the parameter of its Push
          out,                    \* the reference parameter of its Pop
          ret,                    \* what its last Push or Pop returned
          emptyRet,               \* what its last Empty returned
          sizeRet                 \* what its last Size returned

nodeVars == <<readIndex, storeIndex, val>>
vars == <<head, tail, nodeVars, pc, capture, arg, out, ret, emptyRet, sizeRet>>

PcLabels == {"idle",
             "push_load", "push_check", "push_cas", "push_write", "push_publish",
             "pop_load", "pop_check", "pop_cas", "pop_take", "pop_release",
             "empty_load", "empty_check",
             "size_head", "size_tail"}

Goto(t, label) == pc' = [pc EXCEPT ![t] = label]

Init ==
  /\ head = 0
  /\ tail = 0
  /\ readIndex = [s \in Slots |-> InvalidPosition]
  /\ storeIndex = [s \in Slots |-> s]
  /\ val = [s \in Slots |-> NoVal]
  /\ pc = [t \in Threads |-> "idle"]
  /\ capture = [t \in Threads |-> 0]
  /\ arg = [t \in Threads |-> NoVal]
  /\ out = [t \in Threads |-> NoVal]
  /\ ret = [t \in Threads |-> FALSE]
  /\ emptyRet = [t \in Threads |-> FALSE]
  /\ sizeRet = [t \in Threads |-> 0]
-----------------------------------------------------------------------------
(* bool Push(T val)                                                        *)

PushCall(t, v) ==
  /\ t \in Pushers
  /\ pc[t] = "idle"
  /\ tail < TicketBound
  /\ arg' = [arg EXCEPT ![t] = v]
  /\ Goto(t, "push_load")
  /\ UNCHANGED <<head, tail, nodeVars, capture, out, ret, emptyRet, sizeRet>>

PushLoad(t) ==
  /\ pc[t] = "push_load"
  /\ capture' = [capture EXCEPT ![t] = tail]
  /\ Goto(t, "push_check")
  /\ UNCHANGED <<head, tail, nodeVars, arg, out, ret, emptyRet, sizeRet>>

\* The captured ticket may be stale by now: the node is looked up with it all
\* the same, and any difference, in either direction, returns false.
PushCheck(t) ==
  /\ pc[t] = "push_check"
  /\ IF storeIndex[Slot(capture[t])] # capture[t]
     THEN Goto(t, "idle") /\ ret' = [ret EXCEPT ![t] = FALSE]
     ELSE Goto(t, "push_cas") /\ UNCHANGED ret
  /\ UNCHANGED <<head, tail, nodeVars, capture, arg, out, emptyRet, sizeRet>>

\* Mutant: the tail is advanced by a plain store, whoever moved it meanwhile.
PushStoreTail(t) ==
  /\ pc[t] = "push_cas"
  /\ tail' = capture[t] + 1
  /\ Goto(t, "push_write")
  /\ UNCHANGED <<head, nodeVars, capture, arg, out, ret, emptyRet, sizeRet>>

\* Mutant: the node is published with the claim, before the value is in it.
PushPublishEarly(t) ==
  /\ pc[t] = "push_cas"
  /\ tail = capture[t]
  /\ tail' = tail + 1
  /\ readIndex' = [readIndex EXCEPT ![Slot(tail)] = tail]
  /\ Goto(t, "push_write")
  /\ UNCHANGED <<head, storeIndex, val, capture, arg, out, ret, emptyRet, sizeRet>>

PushCasSucceed(t) ==
  /\ pc[t] = "push_cas"
  /\ tail = capture[t]
  /\ tail' = tail + 1
  /\ Goto(t, "push_write")
  /\ UNCHANGED <<head, nodeVars, capture, arg, out, ret, emptyRet, sizeRet>>

\* Mutant: a failed compare-exchange is retried with the old capture.
PushCasRetry(t) ==
  /\ pc[t] = "push_cas"
  /\ tail # capture[t]
  /\ UNCHANGED vars

\* compare_exchange_weak fails when another thread moved _tail, and may fail
\* spuriously; the loop starts again from the load.
PushCasFail(t) ==
  /\ pc[t] = "push_cas"
  /\ Goto(t, "push_load")
  /\ UNCHANGED <<head, tail, nodeVars, capture, arg, out, ret, emptyRet, sizeRet>>

PushWrite(t) ==
  /\ pc[t] = "push_write"
  /\ val' = [val EXCEPT ![Slot(capture[t])] = arg[t]]
  /\ Goto(t, "push_publish")
  /\ UNCHANGED <<head, tail, readIndex, storeIndex, capture, arg, out, ret,
                 emptyRet, sizeRet>>

PushPublish(t) ==
  /\ pc[t] = "push_publish"
  /\ readIndex' = [readIndex EXCEPT ![Slot(capture[t])] = capture[t]]
  /\ ret' = [ret EXCEPT ![t] = TRUE]
  /\ Goto(t, "idle")
  /\ UNCHANGED <<head, tail, storeIndex, val, capture, arg, out, emptyRet, sizeRet>>
-----------------------------------------------------------------------------
(* bool Pop(T &val)                                                        *)

PopCall(t) ==
  /\ t \in Poppers
  /\ pc[t] = "idle"
  /\ Goto(t, "pop_load")
  /\ UNCHANGED <<head, tail, nodeVars, capture, arg, out, ret, emptyRet, sizeRet>>

PopLoad(t) ==
  /\ pc[t] = "pop_load"
  /\ capture' = [capture EXCEPT ![t] = head]
  /\ Goto(t, "pop_check")
  /\ UNCHANGED <<head, tail, nodeVars, arg, out, ret, emptyRet, sizeRet>>

\* Mutant: the head is claimed without looking at the node's readIndex.
PopUnchecked(t) ==
  /\ pc[t] = "pop_check"
  /\ Goto(t, "pop_cas")
  /\ UNCHANGED <<head, tail, nodeVars, capture, arg, out, ret, emptyRet, sizeRet>>

PopCheck(t) ==
  /\ pc[t] = "pop_check"
  /\ IF readIndex[Slot(capture[t])] # capture[t]
     THEN Goto(t, "idle") /\ ret' = [ret EXCEPT ![t] = FALSE]
     ELSE Goto(t, "pop_cas") /\ UNCHANGED ret
  /\ UNCHANGED <<head, tail, nodeVars, capture, arg, out, emptyRet, sizeRet>>

PopCasSucceed(t) ==
  /\ pc[t] = "pop_cas"
  /\ head = capture[t]
  /\ head' = head + 1
  /\ Goto(t, "pop_take")
  /\ UNCHANGED <<tail, nodeVars, capture, arg, out, ret, emptyRet, sizeRet>>

PopCasFail(t) ==
  /\ pc[t] = "pop_cas"
  /\ Goto(t, "pop_load")
  /\ UNCHANGED <<head, tail, nodeVars, capture, arg, out, ret, emptyRet, sizeRet>>

\* The value is moved out and the object in the node destroyed.
PopTake(t) ==
  /\ pc[t] = "pop_take"
  /\ out' = [out EXCEPT ![t] = val[Slot(capture[t])]]
  /\ val' = [val EXCEPT ![Slot(capture[t])] = NoVal]
  /\ Goto(t, "pop_release")
  /\ UNCHANGED <<head, tail, readIndex, storeIndex, capture, arg, ret, emptyRet,
                 sizeRet>>

\* Mutant: the node is released for the ticket after this one, not for the
\* next round.
PopReleaseNextTicket(t) ==
  /\ pc[t] = "pop_release"
  /\ storeIndex' = [storeIndex EXCEPT ![Slot(capture[t])] = capture[t] + 1]
  /\ ret' = [ret EXCEPT ![t] = TRUE]
  /\ Goto(t, "idle")
  /\ UNCHANGED <<head, tail, readIndex, val, capture, arg, out, emptyRet, sizeRet>>

\* Mutant: the node is handed back to the round that has just ended.
PopReleaseLastRound(t) ==
  /\ pc[t] = "pop_release"
  /\ storeIndex' = [storeIndex EXCEPT ![Slot(capture[t])] = capture[t] - Capacity]
  /\ ret' = [ret EXCEPT ![t] = TRUE]
  /\ Goto(t, "idle")
  /\ UNCHANGED <<head, tail, readIndex, val, capture, arg, out, emptyRet, sizeRet>>

PopRelease(t) ==
  /\ pc[t] = "pop_release"
  /\ storeIndex' = [storeIndex EXCEPT ![Slot(capture[t])] = capture[t] + Capacity]
  /\ ret' = [ret EXCEPT ![t] = TRUE]
  /\ Goto(t, "idle")
  /\ UNCHANGED <<head, tail, readIndex, val, capture, arg, out, emptyRet, sizeRet>>
-----------------------------------------------------------------------------
(* bool Empty()                                                            *)

EmptyCall(t) ==
  /\ t \in Observers
  /\ pc[t] = "idle"
  /\ Goto(t, "empty_load")
  /\ UNCHANGED <<head, tail, nodeVars, capture, arg, out, ret, emptyRet, sizeRet>>

EmptyLoad(t) ==
  /\ pc[t] = "empty_load"
  /\ capture' = [capture EXCEPT ![t] = head]
  /\ Goto(t, "empty_check")
  /\ UNCHANGED <<head, tail, nodeVars, arg, out, ret, emptyRet, sizeRet>>

EmptyCheck(t) ==
  /\ pc[t] = "empty_check"
  /\ emptyRet' = [emptyRet EXCEPT ![t] = (readIndex[Slot(capture[t])] # capture[t])]
  /\ Goto(t, "idle")
  /\ UNCHANGED <<head, tail, nodeVars, capture, arg, out, ret, sizeRet>>

(* uint32_t Size()                                                         *)

SizeCall(t) ==
  /\ t \in Observers
  /\ pc[t] = "idle"
  /\ Goto(t, "size_head")
  /\ UNCHANGED <<head, tail, nodeVars, capture, arg, out, ret, emptyRet, sizeRet>>

SizeLoadHead(t) ==
  /\ pc[t] = "size_head"
  /\ capture' = [capture EXCEPT ![t] = head]
  /\ Goto(t, "size_tail")
  /\ UNCHANGED <<head, tail, nodeVars, arg, out, ret, emptyRet, sizeRet>>

SizeLoadTail(t) ==
  /\ pc[t] = "size_tail"
  /\ sizeRet' = [sizeRet EXCEPT ![t] = tail - capture[t]]
  /\ Goto(t, "idle")
  /\ UNCHANGED <<head, tail, nodeVars, capture, arg, out, ret, emptyRet>>
-----------------------------------------------------------------------------
PushStep(t) ==
  \/ PushLoad(t) \/ PushCheck(t) \/ PushCasSucceed(t) \/ PushCasFail(t)
  \/ PushWrite(t) \/ PushPublish(t)

PopStep(t) ==
  \/ PopLoad(t) \/ PopCheck(t) \/ PopCasSucceed(t) \/ PopCasFail(t)
  \/ PopTake(t) \/ PopRelease(t)

ObserverStep(t) ==
  \/ EmptyLoad(t) \/ EmptyCheck(t) \/ SizeLoadHead(t) \/ SizeLoadTail(t)

Call(t) ==
  \/ \E v \in Val : PushCall(t, v)
  \/ PopCall(t) \/ EmptyCall(t) \/ SizeCall(t)

Step(t) == PushStep(t) \/ PopStep(t) \/ ObserverStep(t)

Next == \E t \in Threads : Call(t) \/ Step(t)

Spec == Init /\ [][Next]_vars

\* Threads inside a call keep running (the scheduler), and a compare-exchange
\* that could succeed again and again does not fail spuriously for ever (the
\* C++ standard asks this of compare_exchange_weak).  Nobody has to make calls.
Fairness ==
  \A t \in Threads :
    /\ WF_vars(Step(t))
    /\ SF_vars(PushCasSucceed(t))
    /\ SF_vars(PopCasSucceed(t))

FairSpec == Spec /\ Fairness
-----------------------------------------------------------------------------
TypeOK ==
  /\ head \in Nat /\ tail \in Nat
  /\ readIndex \in [Slots -> Nat \cup {InvalidPosition}]
  /\ storeIndex \in [Slots -> Nat]
  /\ val \in [Slots -> Val \cup {NoVal}]
  /\ pc \in [Threads -> PcLabels]
  /\ capture \in [Threads -> Nat]
  /\ arg \in [Threads -> Val \cup {NoVal}]
  /\ out \in [Threads -> Val \cup {NoVal}]
  /\ ret \in [Threads -> BOOLEAN]
  /\ emptyRet \in [Threads -> BOOLEAN]
  /\ sizeRet \in [Threads -> Int]

\* Thread t has claimed ticket k for a Push (Pop) and not yet published
\* (released) its node.
Storing(t, k) == pc[t] \in {"push_write", "push_publish"} /\ capture[t] = k
Taking(t, k) == pc[t] \in {"pop_take", "pop_release"} /\ capture[t] = k

(* No two threads ever use the object in the same node at the same time:   *)
(* Push constructs it, Pop moves from it and destroys it, with no lock, so *)
(* two claims that fall on one node would race on node->val.               *)
NodeExclusive ==
  \A t, u \in Threads :
    /\ t # u
    /\ pc[t] \in {"push_write", "push_publish", "pop_take", "pop_release"}
    /\ pc[u] \in {"push_write", "push_publish", "pop_take", "pop_release"}
    => Slot(capture[t]) # Slot(capture[u])

(* No value and no slot is ever lost: every ticket between _head and _tail *)
(* is in a node that is published for it or is being stored by the thread  *)
(* that claimed it, and every other node is ready for a ticket to come or  *)
(* is being emptied by the thread that claimed it.                         *)
NothingLost ==
  /\ \A k \in head .. tail - 1 :
       \/ readIndex[Slot(k)] = k /\ val[Slot(k)] \in Val
       \/ \E t \in Threads : Storing(t, k)
  /\ \A k \in tail .. head + Capacity - 1 :
       \/ storeIndex[Slot(k)] = k
       \/ \E t \in Threads : Taking(t, k - Capacity)

(* Size reads _head before _tail, so its unsigned difference never wraps   *)
(* below zero, however many Pops overtake it between the two loads.        *)
SizeNeverNegative == \A t \in Threads : sizeRet[t] >= 0

(* Push and Pop are lock-free: while calls are in progress calls keep      *)
(* returning, because a compare-exchange that fails for good has lost to   *)
(* another call's.  (One given thread may lose for ever: no more is        *)
(* promised.)                                                              *)
LockFree ==
  \/ <>[](\A t \in Threads : pc[t] = "idle")
  \/ []<><<\E t \in Threads : pc[t] # "idle" /\ pc'[t] = "idle">>_vars
-----------------------------------------------------------------------------
(* The inductive invariant behind the properties above.                    *)

Storer(t) == pc[t] \in {"push_write", "push_publish"}
Taker(t) == pc[t] \in {"pop_take", "pop_release"}

\* A node that may be stored for ticket e is at most one round behind _tail
\* and at most one round ahead of _head; it was last published for e or for
\* the round before.  A ticket that _tail has passed is published or being
\* stored, one that _head has passed is being taken.
NodeOK(s) ==
  LET e == storeIndex[s] IN
    /\ Slot(e) = s
    /\ tail <= e + Capacity
    /\ e < head + Capacity
    /\ \/ readIndex[s] = e
       \/ e >= Capacity /\ readIndex[s] = e - Capacity
       \/ e < Capacity /\ readIndex[s] = InvalidPosition
    /\ readIndex[s] = e => e < tail
    /\ readIndex[s] = e /\ head <= e => val[s] \in Val
    /\ e < head => \E t \in Threads : Taking(t, e)
    /\ head <= e /\ e < tail /\ readIndex[s] # e => \E t \in Threads : Storing(t, e)

NodeInv == \A s \in Slots : NodeOK(s)

\* What a thread may rely on after each of its own steps, whatever the others
\* do: a capture never runs ahead of its counter, and as long as it is equal
\* to the counter the check that followed it still holds.
ThreadOK(t) ==
  LET k == capture[t]  s == Slot(capture[t]) IN
    /\ pc[t] \in {"push_load", "push_check", "push_cas", "push_write", "push_publish"}
         => arg[t] \in Val
    /\ pc[t] = "push_cas" => k <= tail /\ (k = tail => storeIndex[s] = k)
    /\ pc[t] = "push_check" => k <= tail
    /\ Storer(t) => /\ storeIndex[s] = k /\ readIndex[s] # k
                    /\ head <= k /\ k < tail
    /\ pc[t] = "push_publish" => val[s] = arg[t]
    /\ pc[t] = "pop_check" => k <= head
    /\ pc[t] = "pop_cas" => k <= head /\ (k = head => readIndex[s] = k)
    /\ Taker(t) => storeIndex[s] = k /\ readIndex[s] = k /\ k < head
    /\ pc[t] = "pop_take" => val[s] \in Val
    /\ pc[t] = "size_tail" => k <= head

ThreadInv == \A t \in Threads : ThreadOK(t)

\* A ticket is claimed by at most one Push and at most one Pop.
ClaimInv ==
  \A t, u \in Threads :
    /\ t # u
    /\ (Storer(t) /\ Storer(u)) \/ (Taker(t) /\ Taker(u))
    => capture[t] # capture[u]

IInv ==
  /\ TypeOK
  /\ head <= tail
  /\ NodeInv
  /\ ThreadInv
  /\ ClaimInv
  /\ SizeNeverNegative
-----------------------------------------------------------------------------
(* Refinement: the abstract queue holds the values of the tickets between  *)
(* _head and _tail; a Push takes effect when its compare-exchange moves    *)
(* _tail, a Pop when its compare-exchange moves _head.                     *)

Writers(k) == {t \in Threads : pc[t] = "push_write" /\ capture[t] = k}

Item(k) ==
  IF Writers(k) = {} THEN val[Slot(k)] ELSE arg[CHOOSE t \in Writers(k) : TRUE]

AbstractQueue == [i \in 1 .. tail - head |-> Item(head + i - 1)]

StageOf(label) ==
  IF label \in {"push_load", "push_check", "push_cas"} THEN "pushing"
  ELSE IF label \in {"push_write", "push_publish"} THEN "pushed"
  ELSE IF label \in {"pop_load", "pop_check", "pop_cas"} THEN "popping"
  ELSE IF label \in {"pop_take", "pop_release"} THEN "popped"
  ELSE "idle"

AbstractStage == [t \in Threads |-> StageOf(pc[t])]

AbstractOut ==
  [t \in Threads |->
    IF pc[t] = "pop_take" THEN val[Slot(capture[t])] ELSE out[t]]

Fifo == INSTANCE BoundedFifo
          WITH q <- AbstractQueue, stage <- AbstractStage, out <- AbstractOut

(* The queue implements the bounded FIFO: no value is lost, duplicated,    *)
(* invented or reordered, never more than Capacity are held, and Push and  *)
(* Pop return true exactly when they took effect.                          *)
FifoSpec == Fifo!Spec
=============================================================================
