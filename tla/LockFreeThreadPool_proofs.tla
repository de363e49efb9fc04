---------------------- MODULE LockFreeThreadPool_proofs ----------------------
(***************************************************************************)
(* Proofs about LockFreeThreadPool for every number of workers, clients,   *)
(* tasks and nodes of the queue, also if tasks enqueue tasks: type         *)
(* correctness, and that the pool implements TaskPool.  What the queue     *)
(* does is taken from LockFreeQueue_proofs: the pool is reasoned about     *)
(* with the steps of BoundedFifo.                                          *)
(***************************************************************************)
EXTENDS LockFreeThreadPool, SequenceTheorems, TLAPS

Q == INSTANCE LockFreeQueue_proofs
       WITH Pushers <- Enqueuers, Poppers <- Workers, Observers <- Workers,
            Val <- Task, NoVal <- NoTask, TicketBound <- Cardinality(Task),
            pc <- qpc

\* The instance whose theorems are used is the one the pool is built from.
LEMMA SameCalls ==
  /\ \A t, k : Queue!PushCall(t, k) <=> Q!PushCall(t, k)
  /\ \A t : Queue!PopCall(t) <=> Q!PopCall(t)
  /\ \A t : Queue!EmptyCall(t) <=> Q!EmptyCall(t)
BY DEF Queue!PushCall, Q!PushCall, Queue!PopCall, Q!PopCall, Queue!EmptyCall, Q!EmptyCall,
       Queue!Goto, Q!Goto, Queue!nodeVars, Q!nodeVars

LEMMA SameSteps ==
  /\ \A t : Queue!PushStep(t) <=> Q!PushStep(t)
  /\ \A t : Queue!PopStep(t) <=> Q!PopStep(t)
  /\ \A t : Queue!ObserverStep(t) <=> Q!ObserverStep(t)
<1> USE DEF Queue!Goto, Q!Goto, Queue!nodeVars, Q!nodeVars, Queue!Slot, Q!Slot
<1>1. \A t : Queue!PushStep(t) <=> Q!PushStep(t)
  BY DEF Queue!PushStep, Q!PushStep, Queue!PushLoad, Q!PushLoad, Queue!PushCheck, Q!PushCheck,
         Queue!PushCasSucceed, Q!PushCasSucceed, Queue!PushCasFail, Q!PushCasFail,
         Queue!PushWrite, Q!PushWrite, Queue!PushPublish, Q!PushPublish
<1>2. \A t : Queue!PopStep(t) <=> Q!PopStep(t)
  BY DEF Queue!PopStep, Q!PopStep, Queue!PopLoad, Q!PopLoad, Queue!PopCheck, Q!PopCheck,
         Queue!PopCasSucceed, Q!PopCasSucceed, Queue!PopCasFail, Q!PopCasFail,
         Queue!PopTake, Q!PopTake, Queue!PopRelease, Q!PopRelease
<1>3. \A t : Queue!ObserverStep(t) <=> Q!ObserverStep(t)
  BY DEF Queue!ObserverStep, Q!ObserverStep, Queue!EmptyLoad, Q!EmptyLoad,
         Queue!EmptyCheck, Q!EmptyCheck, Queue!SizeLoadHead, Q!SizeLoadHead,
         Queue!SizeLoadTail, Q!SizeLoadTail
<1> QED BY <1>1, <1>2, <1>3

LEMMA SameState ==
  /\ Queue!Init <=> Q!Init
  /\ Queue!TypeOK <=> Q!TypeOK
  /\ Queue!AbstractQueue = Q!AbstractQueue
  /\ Queue!AbstractOut = Q!AbstractOut
<1> USE DEF Queue!Slots, Q!Slots, Queue!Slot, Q!Slot, Queue!Threads, Q!Threads,
            Queue!InvalidPosition, Q!InvalidPosition
<1>1. Queue!Init <=> Q!Init
  BY DEF Queue!Init, Q!Init
<1>2. Queue!TypeOK <=> Q!TypeOK
  BY DEF Queue!TypeOK, Q!TypeOK, Queue!PcLabels, Q!PcLabels
<1>3. Queue!AbstractQueue = Q!AbstractQueue
  BY DEF Queue!AbstractQueue, Q!AbstractQueue, Queue!Item, Q!Item, Queue!Writers, Q!Writers
<1>4. Queue!AbstractOut = Q!AbstractOut
  BY DEF Queue!AbstractOut, Q!AbstractOut
<1> QED BY <1>1, <1>2, <1>3, <1>4

LEMMA SameStateNext == /\ Queue!TypeOK' <=> Q!TypeOK'
                       /\ Queue!AbstractOut' = Q!AbstractOut'
                       /\ Queue!AbstractQueue' = Q!AbstractQueue'
<1> USE DEF Queue!Slots, Q!Slots, Queue!Slot, Q!Slot, Queue!Threads, Q!Threads,
            Queue!InvalidPosition, Q!InvalidPosition
<1>1. Queue!TypeOK' <=> Q!TypeOK'
  BY DEF Queue!TypeOK, Q!TypeOK, Queue!PcLabels, Q!PcLabels
<1>2. Queue!AbstractQueue' = Q!AbstractQueue'
  BY DEF Queue!AbstractQueue, Q!AbstractQueue, Queue!Item, Q!Item, Queue!Writers, Q!Writers
<1>3. Queue!AbstractOut' = Q!AbstractOut'
  BY DEF Queue!AbstractOut, Q!AbstractOut
<1> QED BY <1>1, <1>2, <1>3

LEMMA QueueAssumptions ==
  /\ Capacity \in Nat \ {0} /\ NoTask \notin Task
  /\ Q!Threads = Threads /\ Enqueuers \subseteq Threads /\ Workers \subseteq Threads
  /\ Enqueuers \cap Workers = Spawners /\ Clients \cap Workers = {}
  /\ Enqueuers = Clients \cup Spawners /\ Spawners \subseteq Workers
BY SizeAssumption, TaskAssumption, ThreadsApart DEF Q!Threads, Threads, Enqueuers

(***************************************************************************)
(* The inductive invariant.                                                *)
(***************************************************************************)
\* The queue as its callers see it.
Backlog == Q!AbstractQueue
Stage == Q!AbstractStage
Taken == Q!AbstractOut

PushLabels == {"push_load", "push_check", "push_cas", "push_write", "push_publish"}
PopLabels == {"pop_load", "pop_check", "pop_cas", "pop_take", "pop_release"}
EmptyLabels == {"empty_load", "empty_check"}

\* A thread is inside a call of the queue only where the pool makes that call.
QueueCalls ==
  \A t \in Threads :
    \/ qpc[t] = "idle"
    \/ qpc[t] \in PushLabels /\ t \in Enqueuers /\ enq[t] = "pushing"
    \/ qpc[t] \in PopLabels /\ t \in Workers /\ pc[t] = "popping"
    \/ qpc[t] \in EmptyLabels /\ t \in Workers /\ pc[t] \in {"pred_empty", "exit_empty"}

\* What is pushed is the task that is enqueued; a worker enqueues from a task.
Enqueuing ==
  \A t \in Enqueuers : enq[t] = "pushing" =>
    arg[t] = item[t] /\ (t \in Workers => pc[t] = "run")

\* stop is never taken back; workers leave only when they have seen it, and
\* nobody but them enqueues meanwhile.
Closing ==
  /\ stop <=> owner \in {"stop_notify", "stop_wait", "destroyed", "join_wait", "joined"}
  /\ owner # "outside" => \A c \in Clients : enq[c] = "idle"
  /\ \A w \in Workers : pc[w] \in {"exit_empty", "returned"} => stop
  /\ owner \in {"destroyed", "joined"} => \A w \in Workers : pc[w] = "returned"

\* The threads whose task is not in the queue yet.
Offers ==
  {t \in Enqueuers :
     enq[t] = "pushing" /\ (Stage[t] = "pushing" \/ (Stage[t] = "idle" /\ ~ret[t]))}

\* The tasks each worker holds.
Busy == [w \in Workers |-> Holding(w)]

\* A task whose future waits is being offered, queued or held, in one place only.
OncePerTask ==
  /\ \A t \in Offers :
       /\ future[item[t]] = "pending"
       /\ \A i \in 1 .. Len(Backlog) : Backlog[i] # item[t]
       /\ \A w \in Workers : item[t] \notin Busy[w]
       /\ \A u \in Offers : u # t => item[u] # item[t]
  /\ Backlog \in Seq(Task)
  /\ \A i \in 1 .. Len(Backlog) :
       /\ future[Backlog[i]] = "pending"
       /\ \A j \in 1 .. Len(Backlog) : i # j => Backlog[i] # Backlog[j]
       /\ \A w \in Workers : Backlog[i] \notin Busy[w]
  /\ \A w \in Workers : \A k \in Busy[w] :
       /\ k \in Task /\ future[k] = "pending"
       /\ \A v \in Workers : v # w => k \notin Busy[v]

\* A worker that has returned, or is bound to by what it has seen of the queue.
Leaving(w) ==
  \/ pc[w] = "returned"
  \/ /\ pc[w] = "exit_empty"
     /\ \/ qpc[w] = "idle" /\ emptyRet[w]
        \/ qpc[w] = "empty_check" /\ readIndex[Q!Slot(capture[w])] # capture[w]

\* Not all workers leave while there are tasks in the queue.
SomebodyStays == stop /\ head # tail => \E w \in Workers : ~Leaving(w)

IInv ==
  /\ Q!IInv
  /\ TypeOK
  /\ QueueCalls
  /\ Enqueuing
  /\ Closing
  /\ OncePerTask
  /\ SomebodyStays

(***************************************************************************)
(* The queue's part: every step of the pool is one of the queue, or none.  *)
(***************************************************************************)
LEMMA QueueSteps ==
  ASSUME TypeOK, [Next]_vars
  PROVE  [Q!Next]_(Q!vars)
<1> USE QueueAssumptions, SameCalls, SameSteps DEF Q!Next, Q!Call, Q!Step
<1>1. ASSUME NEW w \in Workers, WorkerStep(w) \/ SpuriousWakeup(w) PROVE Q!Next \/ UNCHANGED queueVars
  <2>1. Q!Threads = Threads /\ w \in Q!Threads
    OBVIOUS
  <2>2. ASSUME WorkerPop(w) PROVE Q!Next
    BY <2>1, <2>2 DEF WorkerPop
  <2>3. ASSUME WorkerLooks(w) \/ WorkerLooksAgain(w) PROVE Q!Next
    BY <2>1, <2>3 DEF WorkerLooks, WorkerLooksAgain
  <2>4. ASSUME WorkerInQueue(w) PROVE Q!Next
    BY <2>1, <2>4 DEF WorkerInQueue
  <2>5. ASSUME ~ (WorkerPop(w) \/ WorkerLooks(w) \/ WorkerLooksAgain(w) \/ WorkerInQueue(w))
        PROVE  UNCHANGED queueVars
    BY <1>1, <2>5 DEF WorkerStep, WorkerStart, WorkerFinish, WorkerLock, WorkerSeesStop,
                      WorkerSleep, WorkerStays, WorkerBack, WorkerLeaves, SpuriousWakeup
  <2> QED BY <2>2, <2>3, <2>4, <2>5
<1>2. ASSUME NEW t \in Enqueuers, NEW k \in Task, EnqueueCall(t, k) PROVE Q!Next
  BY <1>2 DEF EnqueueCall
<1>3. ASSUME NEW t \in Enqueuers, EnqueueInQueue(t) PROVE Q!Next
  BY <1>3 DEF EnqueueInQueue
<1>4. ASSUME NEW t \in Enqueuers, EnqueueNotify(t) PROVE UNCHANGED queueVars
  BY <1>4 DEF EnqueueNotify
<1>5. ASSUME DestructorCall \/ JoinCall \/ OwnerStep PROVE UNCHANGED queueVars
  BY <1>5 DEF DestructorCall, JoinCall, OwnerStep, DestructorLock, DestructorStop,
              DestructorNotify, DestructorJoined, JoinReturn
<1>6. UNCHANGED queueVars => UNCHANGED Q!vars
  BY DEF queueVars, Q!vars, Q!nodeVars
<1>7. ASSUME UNCHANGED vars PROVE UNCHANGED queueVars
  BY <1>7 DEF vars
<1>8. ASSUME NEW t \in Enqueuers, EnqueueRetry(t) PROVE Q!Next
  BY <1>8 DEF EnqueueRetry, TypeOK
<1> QED
  BY <1>1, <1>2, <1>3, <1>4, <1>5, <1>6, <1>7, <1>8 DEF Next, EnqueueStep

\* A step inside a call, and the return from it.
LEMMA CallsMove ==
  ASSUME NEW t
  PROVE  /\ Q!PushStep(t) => /\ qpc[t] \in PushLabels
                             /\ \E l \in PushLabels \cup {"idle"} : qpc' = [qpc EXCEPT ![t] = l]
                             /\ UNCHANGED emptyRet
         /\ Q!PopStep(t) => /\ qpc[t] \in PopLabels
                            /\ \E l \in PopLabels \cup {"idle"} : qpc' = [qpc EXCEPT ![t] = l]
                            /\ UNCHANGED <<arg, emptyRet>>
         /\ Q!ObserverStep(t) =>
              /\ qpc[t] \in EmptyLabels \cup {"size_head", "size_tail"}
              /\ \E l \in {"empty_check", "size_tail", "idle"} : qpc' = [qpc EXCEPT ![t] = l]
              /\ UNCHANGED arg
         /\ Q!PushStep(t) => UNCHANGED arg
<1> USE DEF Q!Goto, PushLabels, PopLabels, EmptyLabels
<1>1. ASSUME Q!PushStep(t)
      PROVE  /\ qpc[t] \in PushLabels
             /\ \E l \in PushLabels \cup {"idle"} : qpc' = [qpc EXCEPT ![t] = l]
             /\ UNCHANGED <<arg, emptyRet>>
  BY <1>1 DEF Q!PushStep, Q!PushLoad, Q!PushCheck, Q!PushCasSucceed, Q!PushCasFail, Q!PushWrite,
              Q!PushPublish
<1>2. ASSUME Q!PopStep(t)
      PROVE  /\ qpc[t] \in PopLabels
             /\ \E l \in PopLabels \cup {"idle"} : qpc' = [qpc EXCEPT ![t] = l]
             /\ UNCHANGED <<arg, emptyRet>>
  BY <1>2 DEF Q!PopStep, Q!PopLoad, Q!PopCheck, Q!PopCasSucceed, Q!PopCasFail, Q!PopTake,
              Q!PopRelease
<1>3. ASSUME Q!ObserverStep(t)
      PROVE  /\ qpc[t] \in EmptyLabels \cup {"size_head", "size_tail"}
             /\ \E l \in {"empty_check", "size_tail", "idle"} : qpc' = [qpc EXCEPT ![t] = l]
             /\ UNCHANGED arg
  BY <1>3 DEF Q!ObserverStep, Q!EmptyLoad, Q!EmptyCheck, Q!SizeLoadHead, Q!SizeLoadTail
<1> QED BY <1>1, <1>2, <1>3

(***************************************************************************)
(* Types, calls and the end of the pool.                                   *)
(***************************************************************************)
\* What the notifications do to the workers.
LEMMA NotifyPc ==
  ASSUME TypeOK, NotifyOne \/ NotifyAll
  PROVE  /\ \A w \in Workers : pc'[w] = pc[w] \/ (pc[w] = "asleep" /\ pc'[w] = "woken")
         /\ pc' \in [Workers -> {"loop", "popping", "run", "pred", "pred_empty", "asleep",
                                 "woken", "exit", "exit_empty", "returned"}]
BY DEF TypeOK, NotifyOne, NotifyAll, Asleep, Goto

LEMMA TypesInit == Init => TypeOK
<1> SUFFICES ASSUME Init PROVE TypeOK
  OBVIOUS
<1>1. Queue!TypeOK
  BY QueueAssumptions, SameState, Q!TypeInit, SizeAssumption DEF Init
<1> QED BY <1>1 DEF Init, TypeOK, Threads

LEMMA TypesStep == Q!TypeOK' /\ TypeOK /\ [Next]_vars => TypeOK'
<1> SUFFICES ASSUME Q!TypeOK', TypeOK, [Next]_vars PROVE TypeOK'
  OBVIOUS
<1> DEFINE PoolTypes ==
             /\ mutex \in Threads \cup {Owner, Nobody}
             /\ stop \in BOOLEAN
             /\ pc \in [Workers -> {"loop", "popping", "run", "pred", "pred_empty", "asleep",
                                    "woken", "exit", "exit_empty", "returned"}]
             /\ enq \in [Enqueuers -> {"idle", "pushing"}]
             /\ item \in [Enqueuers -> Task \cup {NoTask}]
             /\ \A t \in Enqueuers : enq[t] = "pushing" => item[t] \in Task
             /\ future \in [Task -> {"none", "pending", "ready"}]
             /\ owner \in {"outside", "stop_lock", "stop_set", "stop_notify", "stop_wait",
                           "destroyed", "join_wait", "joined"}
<1>0. Queue!TypeOK'
  BY SameStateNext
<1>1. SUFFICES PoolTypes'
  BY <1>0 DEF TypeOK
<1>2. PoolTypes
  BY DEF TypeOK
<1> HIDE DEF PoolTypes
<1>3. ASSUME NEW w \in Workers, WorkerStep(w) \/ SpuriousWakeup(w) PROVE PoolTypes'
  <2> USE <1>2, <1>3 DEF PoolTypes, Goto, Acquire, Release, enqueueVars
  <2>1. ASSUME WorkerPop(w) PROVE PoolTypes'
    BY <2>1 DEF WorkerPop
  <2>2. ASSUME WorkerStart(w) PROVE PoolTypes'
    BY <2>2 DEF WorkerStart
  <2>3. ASSUME WorkerFinish(w) PROVE PoolTypes'
    BY <2>3 DEF WorkerFinish
  <2>4. ASSUME WorkerLock(w) PROVE PoolTypes'
    BY <2>4 DEF WorkerLock, Threads
  <2>5. ASSUME WorkerSeesStop(w) PROVE PoolTypes'
    BY <2>5 DEF WorkerSeesStop
  <2>6. ASSUME WorkerLooks(w) PROVE PoolTypes'
    BY <2>6 DEF WorkerLooks
  <2>7. ASSUME WorkerSleep(w) PROVE PoolTypes'
    BY <2>7 DEF WorkerSleep
  <2>8. ASSUME WorkerStays(w) PROVE PoolTypes'
    BY <2>8 DEF WorkerStays
  <2>9. ASSUME WorkerBack(w) PROVE PoolTypes'
    BY <2>9 DEF WorkerBack
  <2>10. ASSUME WorkerLooksAgain(w) PROVE PoolTypes'
    BY <2>10 DEF WorkerLooksAgain
  <2>11. ASSUME WorkerLeaves(w) PROVE PoolTypes'
    BY <2>11 DEF WorkerLeaves
  <2>12. ASSUME WorkerInQueue(w) PROVE PoolTypes'
    BY <2>12 DEF WorkerInQueue
  <2>13. ASSUME SpuriousWakeup(w) PROVE PoolTypes'
    BY <2>13 DEF SpuriousWakeup
  <2> QED BY <1>3, <2>1, <2>2, <2>3, <2>4, <2>5, <2>6, <2>7, <2>8, <2>9, <2>10, <2>11, <2>12, <2>13
             DEF WorkerStep
<1>4. ASSUME NEW t \in Enqueuers, NEW k \in Task, EnqueueCall(t, k) PROVE PoolTypes'
  BY <1>2, <1>4 DEF PoolTypes, EnqueueCall
<1>5. ASSUME NEW t \in Enqueuers, EnqueueInQueue(t) PROVE PoolTypes'
  BY <1>2, <1>5 DEF PoolTypes, EnqueueInQueue, enqueueVars
<1>6. ASSUME NEW t \in Enqueuers, EnqueueRetry(t) PROVE PoolTypes'
  BY <1>2, <1>6, NotifyPc DEF PoolTypes, EnqueueRetry, enqueueVars
<1>7. ASSUME NEW t \in Enqueuers, EnqueueNotify(t) PROVE PoolTypes'
  BY <1>2, <1>7, NotifyPc DEF PoolTypes, EnqueueNotify
<1>8. ASSUME DestructorCall \/ JoinCall \/ OwnerStep PROVE PoolTypes'
  BY <1>2, <1>8, NotifyPc DEF PoolTypes, DestructorCall, JoinCall, OwnerStep, DestructorLock,
     DestructorStop, DestructorNotify, DestructorJoined, JoinReturn, Acquire, Release, enqueueVars
<1>9. ASSUME UNCHANGED vars PROVE PoolTypes'
  BY <1>2, <1>9 DEF PoolTypes, vars, enqueueVars
<1> QED BY <1>3, <1>4, <1>5, <1>6, <1>7, <1>8, <1>9 DEF Next, EnqueueStep

LEMMA QueueCallsStep ==
  Q!TypeOK /\ TypeOK /\ QueueCalls /\ Enqueuing /\ [Next]_vars => QueueCalls'
<1> SUFFICES ASSUME Q!TypeOK, TypeOK, QueueCalls, Enqueuing, [Next]_vars PROVE QueueCalls'
  OBVIOUS
<1>0. /\ qpc \in [Threads -> Q!PcLabels] /\ enq \in [Enqueuers -> {"idle", "pushing"}]
      /\ pc \in [Workers -> {"loop", "popping", "run", "pred", "pred_empty", "asleep",
                             "woken", "exit", "exit_empty", "returned"}]
  BY QueueAssumptions DEF Q!TypeOK, TypeOK
<1> USE QueueAssumptions, <1>0 DEF QueueCalls, PushLabels, PopLabels, EmptyLabels, queueVars,
        enqueueVars, Goto
<1>1. ASSUME NEW w \in Workers, WorkerStep(w) \/ SpuriousWakeup(w) PROVE QueueCalls'
  <2>1. ASSUME WorkerPop(w) PROVE QueueCalls'
    BY <2>1, SameCalls DEF WorkerPop, Q!PopCall, Q!Goto
  <2>2. ASSUME WorkerLooks(w) PROVE QueueCalls'
    BY <2>2, SameCalls DEF WorkerLooks, Q!EmptyCall, Q!Goto
  <2>3. ASSUME WorkerLooksAgain(w) PROVE QueueCalls'
    BY <2>3, SameCalls DEF WorkerLooksAgain, Q!EmptyCall, Q!Goto
  <2>4. ASSUME WorkerInQueue(w) PROVE QueueCalls'
    <3>1. Q!PopStep(w) \/ Q!ObserverStep(w)
      BY <2>4, SameSteps DEF WorkerInQueue
    <3>2. UNCHANGED <<pc, enq>> /\ w \in Threads
      BY <2>4 DEF WorkerInQueue
    <3>3. CASE Q!PopStep(w)
      <4>1. qpc[w] \in PopLabels /\ pc[w] = "popping"
        BY <3>3, CallsMove
      <4>2. PICK l \in PopLabels \cup {"idle"} : qpc' = [qpc EXCEPT ![w] = l]
        BY <3>3, CallsMove
      <4> QED BY <3>2, <4>1, <4>2
    <3>4. CASE Q!ObserverStep(w)
      <4>1. qpc[w] \in EmptyLabels \cup {"size_head", "size_tail"}
        BY <3>4, CallsMove
      <4>2. qpc[w] \in EmptyLabels /\ pc[w] \in {"pred_empty", "exit_empty"}
        BY <3>2, <4>1
      <4>3. qpc' = [qpc EXCEPT ![w] = "empty_check"] \/ qpc' = [qpc EXCEPT ![w] = "idle"]
        BY <3>4, <4>2 DEF Q!ObserverStep, Q!EmptyLoad, Q!EmptyCheck, Q!SizeLoadHead,
                          Q!SizeLoadTail, Q!Goto
      <4> QED BY <3>2, <4>2, <4>3
    <3> QED BY <3>1, <3>3, <3>4
  <2>5. ASSUME WorkerStart(w) PROVE QueueCalls'
    BY <2>5 DEF WorkerStart, Returned
  <2>6. ASSUME WorkerFinish(w) PROVE QueueCalls'
    BY <2>6 DEF WorkerFinish
  <2>7. ASSUME WorkerLock(w) PROVE QueueCalls'
    BY <2>7 DEF WorkerLock, Returned
  <2>8. ASSUME WorkerSeesStop(w) \/ WorkerBack(w) \/ SpuriousWakeup(w) PROVE QueueCalls'
    BY <2>8 DEF WorkerSeesStop, WorkerBack, SpuriousWakeup
  <2>9. ASSUME WorkerSleep(w) \/ WorkerStays(w) \/ WorkerLeaves(w) PROVE QueueCalls'
    BY <2>9 DEF WorkerSleep, WorkerStays, WorkerLeaves, Returned
  <2> QED BY <1>1, <2>1, <2>2, <2>3, <2>4, <2>5, <2>6, <2>7, <2>8, <2>9 DEF WorkerStep
<1>2. ASSUME NEW t \in Enqueuers, NEW k \in Task, EnqueueCall(t, k) PROVE QueueCalls'
  BY <1>2, SameCalls DEF EnqueueCall, Q!PushCall, Q!Goto
<1>3. ASSUME NEW t \in Enqueuers, EnqueueInQueue(t) PROVE QueueCalls'
  BY <1>3, SameSteps, CallsMove DEF EnqueueInQueue
<1>4. ASSUME NEW t \in Enqueuers, EnqueueRetry(t) PROVE QueueCalls'
  BY <1>4, SameCalls, NotifyPc DEF EnqueueRetry, Q!PushCall, Q!Goto
<1>5. ASSUME NEW t \in Enqueuers, EnqueueNotify(t) PROVE QueueCalls'
  BY <1>5, NotifyPc DEF EnqueueNotify, Returned
<1>6. ASSUME DestructorNotify PROVE QueueCalls'
  BY <1>6, NotifyPc DEF DestructorNotify
<1>7. ASSUME \/ DestructorCall \/ JoinCall \/ DestructorLock \/ DestructorStop \/ DestructorJoined
             \/ JoinReturn
      PROVE  QueueCalls'
  BY <1>7 DEF DestructorCall, JoinCall, DestructorLock, DestructorStop, DestructorJoined, JoinReturn
<1>8. ASSUME UNCHANGED vars PROVE QueueCalls'
  BY <1>8 DEF vars
<1> QED BY <1>1, <1>2, <1>3, <1>4, <1>5, <1>6, <1>7, <1>8 DEF Next, EnqueueStep, OwnerStep

LEMMA EnqueuingStep ==
  Q!TypeOK /\ TypeOK /\ QueueCalls /\ Enqueuing /\ [Next]_vars => Enqueuing'
<1> SUFFICES ASSUME Q!TypeOK, TypeOK, QueueCalls, Enqueuing, [Next]_vars PROVE Enqueuing'
  OBVIOUS
<1>0. /\ arg \in [Threads -> Task \cup {NoTask}] /\ enq \in [Enqueuers -> {"idle", "pushing"}]
      /\ item \in [Enqueuers -> Task \cup {NoTask}]
      /\ pc \in [Workers -> {"loop", "popping", "run", "pred", "pred_empty", "asleep",
                             "woken", "exit", "exit_empty", "returned"}]
  BY QueueAssumptions DEF Q!TypeOK, TypeOK
<1> USE QueueAssumptions, <1>0 DEF Enqueuing, queueVars, enqueueVars, Goto
<1>1. ASSUME NEW w \in Workers, WorkerStep(w) \/ SpuriousWakeup(w) PROVE Enqueuing'
  <2>1. ASSUME WorkerPop(w) PROVE Enqueuing'
    BY <2>1, SameCalls DEF WorkerPop, Q!PopCall
  <2>2. ASSUME WorkerLooks(w) PROVE Enqueuing'
    BY <2>2, SameCalls DEF WorkerLooks, Q!EmptyCall
  <2>3. ASSUME WorkerLooksAgain(w) PROVE Enqueuing'
    BY <2>3, SameCalls DEF WorkerLooksAgain, Q!EmptyCall
  <2>4. ASSUME WorkerInQueue(w) PROVE Enqueuing'
    BY <2>4, SameSteps, CallsMove DEF WorkerInQueue
  <2>5. ASSUME WorkerStart(w) PROVE Enqueuing'
    BY <2>5 DEF WorkerStart
  <2>6. ASSUME WorkerFinish(w) PROVE Enqueuing'
    BY <2>6 DEF WorkerFinish
  <2>7. ASSUME WorkerLock(w) \/ WorkerSeesStop(w) \/ WorkerBack(w) \/ SpuriousWakeup(w) PROVE Enqueuing'
    BY <2>7 DEF WorkerLock, WorkerSeesStop, WorkerBack, SpuriousWakeup
  <2>8. ASSUME WorkerSleep(w) \/ WorkerStays(w) \/ WorkerLeaves(w) PROVE Enqueuing'
    BY <2>8 DEF WorkerSleep, WorkerStays, WorkerLeaves
  <2> QED BY <1>1, <2>1, <2>2, <2>3, <2>4, <2>5, <2>6, <2>7, <2>8 DEF WorkerStep
<1>2. ASSUME NEW t \in Enqueuers, NEW k \in Task, EnqueueCall(t, k) PROVE Enqueuing'
  BY <1>2, SameCalls DEF EnqueueCall, MayEnqueue, Q!PushCall
<1>3. ASSUME NEW t \in Enqueuers, EnqueueInQueue(t) PROVE Enqueuing'
  BY <1>3, SameSteps, CallsMove DEF EnqueueInQueue
<1>4. ASSUME NEW t \in Enqueuers, EnqueueRetry(t) PROVE Enqueuing'
  BY <1>4, SameCalls, NotifyPc DEF EnqueueRetry, Q!PushCall
<1>5. ASSUME NEW t \in Enqueuers, EnqueueNotify(t) PROVE Enqueuing'
  BY <1>5, NotifyPc DEF EnqueueNotify
<1>6. ASSUME DestructorNotify PROVE Enqueuing'
  BY <1>6, NotifyPc DEF DestructorNotify
<1>7. ASSUME \/ DestructorCall \/ JoinCall \/ DestructorLock \/ DestructorStop \/ DestructorJoined
             \/ JoinReturn
      PROVE  Enqueuing'
  BY <1>7 DEF DestructorCall, JoinCall, DestructorLock, DestructorStop, DestructorJoined, JoinReturn
<1>8. ASSUME UNCHANGED vars PROVE Enqueuing'
  BY <1>8 DEF vars
<1> QED BY <1>1, <1>2, <1>3, <1>4, <1>5, <1>6, <1>7, <1>8 DEF Next, EnqueueStep, OwnerStep

LEMMA ClosingStep ==
  TypeOK /\ Enqueuing /\ Closing /\ [Next]_vars => Closing'
<1> SUFFICES ASSUME TypeOK, Enqueuing, Closing, [Next]_vars PROVE Closing'
  OBVIOUS
<1>0. /\ enq \in [Enqueuers -> {"idle", "pushing"}] /\ stop \in BOOLEAN
      /\ pc \in [Workers -> {"loop", "popping", "run", "pred", "pred_empty", "asleep",
                             "woken", "exit", "exit_empty", "returned"}]
  BY DEF TypeOK
<1> USE QueueAssumptions, <1>0 DEF Closing, queueVars, enqueueVars, Goto, Acquire, Release
<1>1. ASSUME NEW w \in Workers, WorkerStep(w) \/ SpuriousWakeup(w) PROVE Closing'
  <2>1. ASSUME WorkerPop(w) \/ WorkerLooks(w) \/ WorkerLooksAgain(w) PROVE Closing'
    BY <2>1 DEF WorkerPop, WorkerLooks, WorkerLooksAgain
  <2>2. ASSUME WorkerInQueue(w) \/ WorkerStart(w) \/ WorkerFinish(w) PROVE Closing'
    BY <2>2 DEF WorkerInQueue, WorkerStart, WorkerFinish
  <2>3. ASSUME WorkerLock(w) \/ WorkerSeesStop(w) \/ WorkerBack(w) \/ SpuriousWakeup(w) PROVE Closing'
    BY <2>3 DEF WorkerLock, WorkerSeesStop, WorkerBack, SpuriousWakeup
  <2>4. ASSUME WorkerSleep(w) \/ WorkerStays(w) \/ WorkerLeaves(w) PROVE Closing'
    BY <2>4 DEF WorkerSleep, WorkerStays, WorkerLeaves
  <2> QED BY <1>1, <2>1, <2>2, <2>3, <2>4 DEF WorkerStep
<1>2. ASSUME NEW t \in Enqueuers, NEW k \in Task, EnqueueCall(t, k) PROVE Closing'
  BY <1>2 DEF EnqueueCall, MayEnqueue
<1>3. ASSUME NEW t \in Enqueuers, EnqueueInQueue(t) PROVE Closing'
  BY <1>3 DEF EnqueueInQueue
<1>4. ASSUME NEW t \in Enqueuers, EnqueueRetry(t) PROVE Closing'
  BY <1>4, NotifyPc DEF EnqueueRetry
<1>5. ASSUME NEW t \in Enqueuers, EnqueueNotify(t) PROVE Closing'
  BY <1>5, NotifyPc DEF EnqueueNotify
<1>6. ASSUME DestructorNotify PROVE Closing'
  BY <1>6, NotifyPc DEF DestructorNotify
<1>7. ASSUME \/ DestructorCall \/ JoinCall \/ DestructorLock \/ DestructorStop \/ DestructorJoined
             \/ JoinReturn
      PROVE  Closing'
  BY <1>7 DEF DestructorCall, JoinCall, DestructorLock, DestructorStop, DestructorJoined, JoinReturn
<1>8. ASSUME UNCHANGED vars PROVE Closing'
  BY <1>8 DEF vars
<1> QED BY <1>1, <1>2, <1>3, <1>4, <1>5, <1>6, <1>7, <1>8 DEF Next, EnqueueStep, OwnerStep

(***************************************************************************)
(* Somebody stays while there are tasks.                                   *)
(***************************************************************************)
\* Where the oldest task is not in its node yet, a running task is pushing it.
LEMMA StorerRuns ==
  ASSUME Q!IInv, QueueCalls, Enqueuing, Closing, stop, head < tail,
         readIndex[Q!Slot(head)] # head
  PROVE  \E u \in Workers : pc[u] = "run"
<1>1. PICK t \in Threads : Q!Storing(t, head)
  <2>1. head \in head .. tail - 1
    BY DEF Q!IInv, Q!TypeOK
  <2> QED BY <2>1, QueueAssumptions, Q!NothingLostInv DEF Q!NothingLost
<1>2. t \in Enqueuers /\ enq[t] = "pushing"
  BY <1>1 DEF Q!Storing, QueueCalls, PushLabels, PopLabels, EmptyLabels
<1>3. t \in Workers
  BY <1>2, QueueAssumptions DEF Closing
<1> QED BY <1>2, <1>3 DEF Enqueuing

LEMMA SomebodyStaysStep ==
  ASSUME Q!IInv, Q!IInv', TypeOK, QueueCalls, Enqueuing, Closing, SomebodyStays, [Next]_vars
  PROVE  SomebodyStays'
<1> SUFFICES ASSUME stop', head' # tail' PROVE (\E w \in Workers : ~Leaving(w))'
  BY DEF SomebodyStays
<1>0. /\ qpc \in [Threads -> Q!PcLabels] /\ enq \in [Enqueuers -> {"idle", "pushing"}]
      /\ stop \in BOOLEAN /\ head \in Nat /\ tail \in Nat /\ head <= tail
      /\ capture \in [Threads -> Nat] /\ emptyRet \in [Threads -> BOOLEAN]
      /\ pc \in [Workers -> {"loop", "popping", "run", "pred", "pred_empty", "asleep",
                             "woken", "exit", "exit_empty", "returned"}]
  BY QueueAssumptions DEF Q!TypeOK, Q!IInv, TypeOK
\* A worker that is elsewhere stays.
<1>1. ASSUME NEW w \in Workers, pc'[w] \notin {"exit_empty", "returned"}
      PROVE  (\E v \in Workers : ~Leaving(v))'
  BY <1>1 DEF Leaving
<1>2. CASE ~stop
  <2>1. PICK w \in Workers : TRUE
    BY SizeAssumption
  <2>2. pc[w] \notin {"exit_empty", "returned"}
    BY <1>2 DEF Closing
  <2>3. stop' # stop
    BY <1>2
  <2>4. DestructorStop \/ JoinCall
    BY <2>3 DEF Next, WorkerStep, WorkerPop, WorkerStart, WorkerFinish, WorkerLock, WorkerSeesStop,
       WorkerLooks, WorkerSleep, WorkerStays, WorkerBack, WorkerLooksAgain, WorkerLeaves,
       WorkerInQueue, SpuriousWakeup, EnqueueCall, EnqueueStep, EnqueueInQueue, EnqueueRetry,
       EnqueueNotify, DestructorCall, OwnerStep, DestructorLock, DestructorNotify,
       DestructorJoined, JoinReturn, vars
  <2>5. pc' = pc
    BY <2>4 DEF DestructorStop, JoinCall
  <2> QED BY <1>1, <2>2, <2>5
<1>3. CASE stop
  <2> USE QueueAssumptions, <1>0, <1>3
  \* The step leaves the queue and every worker that may leave alone.
  <2>1. ASSUME UNCHANGED <<queueVars, stop>>,
               \A v \in Workers : pc'[v] = pc[v] \/ pc'[v] \notin {"exit_empty", "returned"}
        PROVE  (\E v \in Workers : ~Leaving(v))'
    <3>1. PICK w \in Workers : ~Leaving(w)
      BY <2>1 DEF SomebodyStays, queueVars
    <3> QED BY <2>1, <3>1 DEF Leaving, queueVars, Q!Slot
  <2>2. ASSUME NEW w \in Workers, WorkerPop(w) \/ WorkerStart(w) \/ WorkerFinish(w) \/ WorkerLock(w)
                 \/ WorkerSeesStop(w) \/ WorkerLooks(w) \/ WorkerSleep(w) \/ WorkerStays(w)
                 \/ WorkerBack(w) \/ SpuriousWakeup(w)
        PROVE  (\E v \in Workers : ~Leaving(v))'
    <3>1. pc'[w] \notin {"exit_empty", "returned"}
      BY <2>2 DEF WorkerPop, WorkerStart, WorkerFinish, WorkerLock, WorkerSeesStop, WorkerLooks,
                  WorkerSleep, WorkerStays, WorkerBack, SpuriousWakeup, Goto
    <3> QED BY <1>1, <3>1
  <2>3. ASSUME NEW w \in Workers, WorkerLooksAgain(w) PROVE (\E v \in Workers : ~Leaving(v))'
    <3>1. pc'[w] = "exit_empty" /\ qpc'[w] = "empty_load"
      BY <2>3, SameCalls DEF WorkerLooksAgain, Q!EmptyCall, Goto, Q!Goto
    <3> QED BY <3>1 DEF Leaving
  <2>4. ASSUME NEW w \in Workers, WorkerLeaves(w) PROVE (\E v \in Workers : ~Leaving(v))'
    <3>1. UNCHANGED <<queueVars, stop>> /\ pc[w] = "exit_empty" /\ qpc[w] = "idle"
      BY <2>4 DEF WorkerLeaves, Returned
    <3>2. PICK v \in Workers : ~Leaving(v)
      BY <3>1 DEF SomebodyStays, queueVars
    <3>3. CASE v = w
      <4>1. pc'[w] = "loop"
        BY <2>4, <3>1, <3>2, <3>3 DEF WorkerLeaves, Leaving, Goto
      <4> QED BY <1>1, <4>1
    <3>4. CASE v # w
      <4>1. pc'[v] = pc[v]
        BY <2>4, <3>4 DEF WorkerLeaves, Goto
      <4> QED BY <3>1, <3>2, <4>1 DEF Leaving, queueVars, Q!Slot
    <3> QED BY <3>3, <3>4
  <2>5. ASSUME NEW w \in Workers, WorkerInQueue(w) PROVE (\E v \in Workers : ~Leaving(v))'
    <3>0. pc' = pc /\ (Q!PopStep(w) \/ Q!ObserverStep(w))
      BY <2>5, SameSteps DEF WorkerInQueue
    <3>1. CASE pc[w] # "exit_empty"
      <4>1. pc[w] # "returned"
        BY <3>0, <3>1, CallsMove DEF QueueCalls, PushLabels, PopLabels, EmptyLabels
      <4> QED BY <1>1, <3>0, <3>1, <4>1
    <3>2. CASE pc[w] = "exit_empty" /\ qpc[w] = "empty_load"
      <4>1. /\ capture' = [capture EXCEPT ![w] = head] /\ qpc' = [qpc EXCEPT ![w] = "empty_check"]
            /\ UNCHANGED <<head, tail, readIndex>>
        BY <3>0, <3>2, CallsMove DEF Q!ObserverStep, Q!EmptyLoad, Q!EmptyCheck, Q!SizeLoadHead,
           Q!SizeLoadTail, Q!Goto, Q!nodeVars, PopLabels
      <4>2. CASE readIndex[Q!Slot(head)] = head
        <5>1. pc'[w] = "exit_empty" /\ qpc'[w] = "empty_check" /\ capture'[w] = head
          BY <3>0, <3>2, <4>1
        <5> QED BY <4>1, <4>2, <5>1 DEF Leaving, Q!Slot
      <4>3. CASE readIndex[Q!Slot(head)] # head
        <5>1. head < tail
          BY <4>1
        <5>2. PICK u \in Workers : pc[u] = "run"
          BY <4>3, <5>1, StorerRuns
        <5> QED BY <1>1, <3>0, <5>2
      <4> QED BY <4>2, <4>3
    <3>3. CASE pc[w] = "exit_empty" /\ qpc[w] # "empty_load"
      <4>1. qpc[w] = "empty_check"
        BY <3>0, <3>3, CallsMove DEF QueueCalls, PushLabels, PopLabels, EmptyLabels
      <4>2. /\ emptyRet' = [emptyRet EXCEPT ![w] = (readIndex[Q!Slot(capture[w])] # capture[w])]
            /\ qpc' = [qpc EXCEPT ![w] = "idle"]
            /\ UNCHANGED <<head, tail, readIndex, capture>>
        BY <3>0, <4>1, CallsMove DEF Q!ObserverStep, Q!EmptyLoad, Q!EmptyCheck, Q!SizeLoadHead,
           Q!SizeLoadTail, Q!Goto, Q!nodeVars, PopLabels
      <4>3. PICK v \in Workers : ~Leaving(v)
        BY <4>2 DEF SomebodyStays
      <4>4. CASE v = w
        <5>1. readIndex[Q!Slot(capture[w])] = capture[w]
          BY <3>3, <4>1, <4>3, <4>4 DEF Leaving
        <5>2. ~emptyRet'[w] /\ qpc'[w] = "idle" /\ pc'[w] = "exit_empty"
          BY <3>0, <3>3, <4>2, <5>1
        <5> QED BY <5>2 DEF Leaving
      <4>5. CASE v # w
        <5>1. qpc'[v] = qpc[v] /\ emptyRet'[v] = emptyRet[v] /\ pc'[v] = pc[v]
          BY <3>0, <4>2, <4>5
        <5> QED BY <4>2, <4>3, <5>1 DEF Leaving, Q!Slot
      <4> QED BY <4>4, <4>5
    <3> QED BY <3>1, <3>2, <3>3
  <2>6. ASSUME NEW t \in Enqueuers,
               (\E k \in Task : EnqueueCall(t, k)) \/ EnqueueInQueue(t) \/ EnqueueRetry(t)
                 \/ EnqueueNotify(t)
        PROVE  (\E v \in Workers : ~Leaving(v))'
    <3>1. (\E k \in Task : EnqueueCall(t, k)) \/ enq[t] = "pushing"
      BY <2>6, SameSteps, CallsMove DEF EnqueueInQueue, EnqueueRetry, EnqueueNotify, QueueCalls,
         PushLabels, PopLabels, EmptyLabels
    <3>2. t \in Workers /\ pc[t] = "run"
      BY <3>1 DEF EnqueueCall, MayEnqueue, Closing, Enqueuing
    <3>3. pc'[t] = pc[t]
      BY <2>6, <3>2, NotifyPc DEF EnqueueCall, EnqueueInQueue, EnqueueRetry, EnqueueNotify
    <3> QED BY <1>1, <3>2, <3>3
  <2>7. ASSUME DestructorCall \/ JoinCall \/ OwnerStep \/ UNCHANGED vars
        PROVE  (\E v \in Workers : ~Leaving(v))'
    <3>1. /\ UNCHANGED queueVars
          /\ \A v \in Workers : pc'[v] = pc[v] \/ pc'[v] \notin {"exit_empty", "returned"}
      BY <2>7, NotifyPc DEF DestructorCall, JoinCall, OwnerStep, DestructorLock, DestructorStop,
         DestructorNotify, DestructorJoined, JoinReturn, vars
    <3> QED BY <2>1, <3>1
  <2> QED BY <2>2, <2>3, <2>4, <2>5, <2>6, <2>7 DEF Next, WorkerStep, EnqueueStep
<1> QED BY <1>2, <1>3

(***************************************************************************)
(* The pool as TaskPool sees it: each step offers a task, puts it into the *)
(* queue, takes it out, finishes it, or is invisible.                      *)
(***************************************************************************)
Offered(t, k) ==
  /\ t \notin Offers /\ future[k] = "none"
  /\ Offers' = Offers \cup {t} /\ item' = [item EXCEPT ![t] = k]
  /\ future' = [future EXCEPT ![k] = "pending"]
  /\ UNCHANGED <<Backlog, Busy>>

Pushed(t) ==
  /\ t \in Offers
  /\ Offers' = Offers \ {t} /\ Backlog' = Append(Backlog, item[t])
  /\ UNCHANGED <<Busy, item, future>>

Popped(w) ==
  /\ Backlog # << >> /\ Busy[w] = {}
  /\ Busy' = [Busy EXCEPT ![w] = {Head(Backlog)}] /\ Backlog' = Tail(Backlog)
  /\ UNCHANGED <<Offers, item, future>>

Finished(w, k) ==
  /\ Busy[w] = {k}
  /\ Busy' = [Busy EXCEPT ![w] = {}] /\ future' = [future EXCEPT ![k] = "ready"]
  /\ UNCHANGED <<Offers, Backlog, item>>

Invisible == UNCHANGED <<Offers, Backlog, Busy, item, future>>

\* What a step leaves alone when it leaves the queue alone.
LEMMA QueueFrame ==
  ASSUME UNCHANGED queueVars
  PROVE  UNCHANGED <<Backlog, Stage, Taken, ret, arg, qpc>>
<1> USE DEF queueVars
<1>1. UNCHANGED Backlog
  BY DEF Backlog, Q!AbstractQueue, Q!Item, Q!Writers, Q!Slot
<1>2. UNCHANGED Stage
  BY DEF Stage, Q!AbstractStage, Q!StageOf
<1>3. UNCHANGED Taken
  BY DEF Taken, Q!AbstractOut, Q!Slot
<1> QED BY <1>1, <1>2, <1>3

\* The stage of a thread's call, and what a worker holds, by its stage.
LEMMA StageIs ==
  ASSUME QueueCalls, NEW t \in Threads
  PROVE  /\ qpc[t] = "idle" => Stage[t] = "idle"
         /\ qpc[t] \in EmptyLabels => Stage[t] = "idle"
         /\ qpc[t] \in PushLabels => Stage[t] \in {"pushing", "pushed"}
         /\ qpc[t] \in {"pop_take", "pop_release"} => Stage[t] = "popped"
         /\ qpc[t] \in {"pop_load", "pop_check", "pop_cas"} => Stage[t] = "popping"
BY QueueAssumptions DEF Stage, Q!AbstractStage, Q!StageOf, PushLabels, EmptyLabels

Holds(w) ==
  IF Stage[w] = "popped" \/ (pc[w] = "popping" /\ Stage[w] = "idle" /\ ret[w]) \/ pc[w] = "run"
  THEN {Taken[w]} ELSE {}

LEMMA HoldingIs ==
  ASSUME QueueCalls, NEW w \in Workers
  PROVE  Busy[w] = Holds(w)
<1>1. Queue!AbstractOut = Taken
  BY SameState DEF Taken
<1>2. w \in Threads /\ Busy[w] = Holding(w)
  BY QueueAssumptions DEF Busy
<1>3. Stage[w] = "popped" <=> qpc[w] \in {"pop_take", "pop_release"}
  BY <1>2, StageIs DEF QueueCalls, PushLabels, PopLabels, EmptyLabels
<1>4. pc[w] = "popping" => (Stage[w] = "idle" <=> qpc[w] = "idle")
  BY <1>2, StageIs DEF QueueCalls, PushLabels, PopLabels, EmptyLabels
<1> QED BY <1>1, <1>2, <1>3, <1>4 DEF Holding, Holds, Returned

LEMMA HoldingWillBe ==
  ASSUME QueueCalls', NEW w \in Workers
  PROVE  Busy'[w] = Holds(w)'
<1>1. Queue!AbstractOut' = Taken'
  BY SameStateNext DEF Taken
<1>2. w \in Threads /\ Busy'[w] = Holding(w)'
  BY QueueAssumptions DEF Busy
<1>3. \/ qpc'[w] = "idle" /\ Stage'[w] = "idle"
      \/ qpc'[w] \in EmptyLabels /\ Stage'[w] = "idle"
      \/ qpc'[w] \in PushLabels /\ Stage'[w] \in {"pushing", "pushed"}
      \/ qpc'[w] \in {"pop_take", "pop_release"} /\ Stage'[w] = "popped"
      \/ qpc'[w] \in {"pop_load", "pop_check", "pop_cas"} /\ Stage'[w] = "popping"
  BY <1>2, QueueAssumptions DEF QueueCalls, Stage, Q!AbstractStage, Q!StageOf, PushLabels, PopLabels, EmptyLabels
<1>4. /\ Stage'[w] = "popped" <=> qpc'[w] \in {"pop_take", "pop_release"}
      /\ pc'[w] = "popping" => (Stage'[w] = "idle" <=> qpc'[w] = "idle")
  BY <1>2, <1>3 DEF QueueCalls, PushLabels, PopLabels, EmptyLabels
<1> QED BY <1>1, <1>2, <1>4 DEF Holding, Holds, Returned

LEMMA ViewTypes ==
  ASSUME Q!TypeOK
  PROVE  /\ Stage \in [Threads -> {"idle", "pushing", "pushed", "popping", "popped"}]
         /\ DOMAIN Taken = Threads /\ ret \in [Threads -> BOOLEAN]
<1>1. Stage \in [Threads -> {"idle", "pushing", "pushed", "popping", "popped"}]
  BY QueueAssumptions DEF Stage, Q!AbstractStage, Q!StageOf
<1>2. DOMAIN Taken = Threads
  BY QueueAssumptions DEF Taken, Q!AbstractOut
<1> QED BY <1>1, <1>2, QueueAssumptions DEF Q!TypeOK

LEMMA BusySame ==
  ASSUME QueueCalls, QueueCalls', \A v \in Workers : Holds(v)' = Holds(v)
  PROVE  Busy' = Busy
<1>1. \A v \in Workers : Busy'[v] = Busy[v]
  BY HoldingIs, HoldingWillBe
<1> QED BY <1>1 DEF Busy

LEMMA BusyOne ==
  ASSUME QueueCalls, QueueCalls', NEW w \in Workers,
         \A v \in Workers : v # w => Holds(v)' = Holds(v)
  PROVE  Busy' = [Busy EXCEPT ![w] = Holds(w)']
<1>1. \A v \in Workers : v # w => Busy'[v] = Busy[v]
  BY HoldingIs, HoldingWillBe
<1>2. Busy'[w] = Holds(w)'
  BY HoldingWillBe
<1> QED BY <1>1, <1>2 DEF Busy

\* A step of one thread t, in the queue or not.
OnlyMoves(t) ==
  /\ \A u \in Threads : u # t => Stage'[u] = Stage[u] /\ Taken'[u] = Taken[u] /\ ret'[u] = ret[u]
  /\ \A u \in Workers : u # t => \/ pc'[u] = pc[u]
                                 \/ pc[u] = "asleep" /\ pc'[u] = "woken"
  /\ \A u \in Enqueuers : u # t => enq'[u] = enq[u]

Offering(t) == enq[t] = "pushing" /\ (Stage[t] = "pushing" \/ (Stage[t] = "idle" /\ ~ret[t]))

LEMMA OffersOf ==
  ASSUME NEW t, OnlyMoves(t)
  PROVE  /\ t \in Enqueuers /\ Offering(t)' => Offers' = Offers \cup {t}
         /\ (t \in Enqueuers => ~Offering(t)') => Offers' = Offers \ {t}
         /\ (t \in Enqueuers => (Offering(t) <=> Offering(t)')) => Offers' = Offers
BY QueueAssumptions DEF OnlyMoves, Offers, Offering

LEMMA BusyOf ==
  ASSUME QueueCalls, QueueCalls', NEW t, OnlyMoves(t)
  PROVE  /\ t \in Workers => Busy' = [Busy EXCEPT ![t] = Holds(t)']
         /\ (t \in Workers => Holds(t)' = Holds(t)) => Busy' = Busy
<1>1. \A v \in Workers : v # t => Holds(v)' = Holds(v)
  BY QueueAssumptions DEF OnlyMoves, Holds
<1> QED BY <1>1, BusySame, BusyOne

\* The steps of a worker in the pool's own code.
LEMMA WorkerOwnView ==
  ASSUME Q!TypeOK, TypeOK, QueueCalls, QueueCalls', Enqueuing, NEW w \in Workers,
         UNCHANGED <<Backlog, Stage, Taken, ret, enq, item>>, Goto(w, pc'[w])
  PROVE  /\ OnlyMoves(w)
         /\ Offers' = Offers
         /\ (Holds(w)' = Holds(w)) /\ UNCHANGED future => Invisible
<1>1. OnlyMoves(w)
  BY DEF OnlyMoves, Goto, TypeOK
<1>2. Offers' = Offers
  BY DEF Offers
<1> QED BY <1>1, <1>2, BusyOf DEF Invisible

LEMMA WorkerView ==
  ASSUME Q!TypeOK, TypeOK, QueueCalls, QueueCalls', Enqueuing, NEW w \in Workers,
         \/ WorkerStart(w) \/ WorkerLock(w) \/ WorkerSeesStop(w) \/ WorkerSleep(w) \/ WorkerStays(w)
         \/ WorkerBack(w) \/ WorkerLeaves(w) \/ SpuriousWakeup(w)
  PROVE  Invisible
<1>1. UNCHANGED queueVars /\ UNCHANGED <<enq, item, future>> /\ Goto(w, pc'[w])
  BY DEF WorkerStart, WorkerLock, WorkerSeesStop, WorkerSleep, WorkerStays, WorkerBack, WorkerLeaves,
         SpuriousWakeup, Goto, TypeOK, enqueueVars
<1>2. UNCHANGED <<Backlog, Stage, Taken, ret>>
  BY <1>1, QueueFrame
<1>3. w \in Threads
  BY QueueAssumptions
<1>4. CASE WorkerStart(w)
  <2>1. pc[w] = "popping" /\ Stage[w] = "idle" /\ ret[w] /\ pc'[w] = "run"
    BY <1>3, <1>4, StageIs DEF WorkerStart, Returned, Goto, TypeOK
  <2>2. Holds(w)' = Holds(w)
    BY <1>2, <2>1 DEF Holds
  <2> QED BY <1>1, <1>2, <2>2, WorkerOwnView
<1>5. CASE \/ WorkerLock(w) \/ WorkerSeesStop(w) \/ WorkerSleep(w) \/ WorkerStays(w)
           \/ WorkerBack(w) \/ WorkerLeaves(w) \/ SpuriousWakeup(w)
  <2>1. /\ pc[w] # "run" /\ pc'[w] \notin {"run", "popping"} /\ (pc[w] = "popping" => ~ret[w])
    BY <1>5 DEF WorkerLock, WorkerSeesStop, WorkerSleep, WorkerStays, WorkerBack, WorkerLeaves,
         SpuriousWakeup, Goto, TypeOK
  <2>2. Holds(w)' = Holds(w)
    BY <1>2, <2>1 DEF Holds
  <2> QED BY <1>1, <1>2, <2>2, WorkerOwnView
<1> QED BY <1>4, <1>5

LEMMA FinishView ==
  ASSUME Q!TypeOK, TypeOK, QueueCalls, QueueCalls', Enqueuing, NEW w \in Workers, WorkerFinish(w)
  PROVE  Finished(w, out[w])
<1>1. /\ UNCHANGED queueVars /\ UNCHANGED <<enq, item>> /\ Goto(w, pc'[w])
      /\ pc[w] = "run" /\ pc'[w] = "loop"
  BY DEF WorkerFinish, Goto, TypeOK, enqueueVars
<1>2. UNCHANGED <<Backlog, Stage, Taken, ret>>
  BY <1>1, QueueFrame
<1>3. qpc[w] = "idle" /\ w \in Threads
  BY <1>1, QueueAssumptions DEF QueueCalls, WorkerFinish
<1>4. Taken[w] = out[w] /\ Stage[w] = "idle"
  BY <1>3, StageIs, QueueAssumptions DEF Taken, Q!AbstractOut
<1>5. Busy[w] = {out[w]}
  BY <1>1, <1>4, HoldingIs DEF Holds
<1>6. Holds(w)' = {}
  BY <1>1, <1>2, <1>4 DEF Holds
<1>7. OnlyMoves(w) /\ Offers' = Offers
  BY <1>1, <1>2, WorkerOwnView
<1>8. Busy' = [Busy EXCEPT ![w] = {}]
  BY <1>6, <1>7, BusyOf
<1> QED BY <1>2, <1>5, <1>7, <1>8, <1>1 DEF Finished, WorkerFinish

(***************************************************************************)
(* The steps of the queue, as BoundedFifo has them.                        *)
(***************************************************************************)
QueueView == <<Backlog, Stage, arg, Taken, ret>>

LEMMA PushInQueue ==
  ASSUME Q!IInv, NEW t \in Threads, Queue!PushStep(t)
  PROVE  \/ /\ Stage[t] = "pushing" /\ Stage' = [Stage EXCEPT ![t] = "pushed"]
            /\ Backlog' = Append(Backlog, arg[t])
            /\ UNCHANGED <<arg, Taken, ret>>
         \/ /\ Stage[t] \in {"pushing", "pushed"} /\ Stage' = [Stage EXCEPT ![t] = "idle"]
            /\ ret' = [ret EXCEPT ![t] = (Stage[t] = "pushed")]
            /\ UNCHANGED <<Backlog, arg, Taken>>
         \/ UNCHANGED QueueView
<1>1. Q!PushStep(t)
  BY SameSteps
<1>2. Q!Fifo!PushEffect(t) \/ Q!Fifo!PushReturn(t) \/ UNCHANGED Q!Fifo!vars
  BY <1>1, QueueAssumptions, Q!PushRefines
<1> QED
  BY <1>2 DEF Q!Fifo!PushEffect, Q!Fifo!PushReturn, Q!Fifo!vars, QueueView, Backlog, Stage, Taken

LEMMA PopInQueue ==
  ASSUME Q!IInv, NEW t \in Threads, Queue!PopStep(t)
  PROVE  \/ /\ Stage[t] = "popping" /\ Stage' = [Stage EXCEPT ![t] = "popped"]
            /\ Backlog # << >> /\ Backlog' = Tail(Backlog)
            /\ Taken' = [Taken EXCEPT ![t] = Head(Backlog)]
            /\ UNCHANGED <<arg, ret>>
         \/ /\ Stage[t] \in {"popping", "popped"} /\ Stage' = [Stage EXCEPT ![t] = "idle"]
            /\ ret' = [ret EXCEPT ![t] = (Stage[t] = "popped")]
            /\ UNCHANGED <<Backlog, arg, Taken>>
         \/ UNCHANGED QueueView
<1>1. Q!PopStep(t)
  BY SameSteps
<1>2. Q!Fifo!PopEffect(t) \/ Q!Fifo!PopReturn(t) \/ UNCHANGED Q!Fifo!vars
  BY <1>1, QueueAssumptions, Q!PopRefines
<1> QED
  BY <1>2 DEF Q!Fifo!PopEffect, Q!Fifo!PopReturn, Q!Fifo!vars, QueueView, Backlog, Stage, Taken

LEMMA LooksInQueue ==
  ASSUME Q!IInv, NEW t \in Threads, Queue!ObserverStep(t) \/ Queue!EmptyCall(t)
  PROVE  UNCHANGED QueueView
<1>1. Q!ObserverStep(t) \/ Q!EmptyCall(t)
  BY SameSteps, SameCalls
<1>2. UNCHANGED Q!Fifo!vars
  BY <1>1, QueueAssumptions, Q!ObserverRefines, Q!CallRefines
<1> QED BY <1>2 DEF Q!Fifo!vars, QueueView, Backlog, Stage, Taken

LEMMA CallsInQueue ==
  ASSUME Q!IInv, NEW t \in Threads
  PROVE  /\ Queue!PopCall(t) => /\ Stage[t] = "idle" /\ Stage' = [Stage EXCEPT ![t] = "popping"]
                                /\ UNCHANGED <<Backlog, arg, Taken, ret>>
         /\ \A k \in Task : Queue!PushCall(t, k) =>
              /\ Stage[t] = "idle" /\ Stage' = [Stage EXCEPT ![t] = "pushing"]
              /\ UNCHANGED <<Backlog, Taken, ret>>
<1>1. Queue!PopCall(t) => Q!Fifo!PopCall(t)
  BY QueueAssumptions, SameCalls, Q!CallRefines
<1>2. \A k \in Task : Queue!PushCall(t, k) => Q!Fifo!PushCall(t)
  BY QueueAssumptions, SameCalls, Q!CallRefines
<1> QED BY <1>1, <1>2 DEF Q!Fifo!PopCall, Q!Fifo!PushCall, Backlog, Stage, Taken

(***************************************************************************)
(* What those steps are to the pool.                                       *)
(***************************************************************************)
LEMMA WorkerPopView ==
  ASSUME Q!IInv, TypeOK, QueueCalls, QueueCalls', Enqueuing, NEW w \in Workers, WorkerPop(w)
  PROVE  Invisible
<1>0. Q!TypeOK /\ w \in Threads
  BY QueueAssumptions DEF Q!IInv
<1>1. /\ Stage[w] = "idle" /\ Stage' = [Stage EXCEPT ![w] = "popping"]
      /\ UNCHANGED <<Backlog, Taken, ret>>
  BY <1>0, CallsInQueue DEF WorkerPop
<1>2. /\ pc[w] = "loop" /\ pc' = [pc EXCEPT ![w] = "popping"] /\ UNCHANGED <<enq, item, future>>
  BY DEF WorkerPop, Goto, enqueueVars
<1>3. OnlyMoves(w)
  BY <1>0, <1>1, <1>2, ViewTypes DEF OnlyMoves, TypeOK
<1>4. w \in Enqueuers => ~Offering(w) /\ ~Offering(w)'
  BY <1>2, QueueAssumptions DEF Offering, Enqueuing
<1>5. Holds(w) = {} /\ Holds(w)' = {}
  BY <1>0, <1>1, <1>2, ViewTypes DEF Holds, TypeOK
<1> QED BY <1>1, <1>2, <1>3, <1>4, <1>5, OffersOf, BusyOf DEF Invisible

LEMMA WorkerLooksView ==
  ASSUME Q!IInv, TypeOK, QueueCalls, QueueCalls', Enqueuing, NEW w \in Workers,
         WorkerLooks(w) \/ WorkerLooksAgain(w)
  PROVE  Invisible
<1>0. Q!TypeOK /\ w \in Threads
  BY QueueAssumptions DEF Q!IInv
<1>1. UNCHANGED <<Backlog, Stage, Taken, ret>>
  BY <1>0, LooksInQueue DEF WorkerLooks, WorkerLooksAgain, QueueView
<1>2. /\ pc[w] \in {"pred", "exit"} /\ pc'[w] \in {"pred_empty", "exit_empty"}
      /\ Goto(w, pc'[w]) /\ UNCHANGED <<enq, item, future>>
  BY DEF WorkerLooks, WorkerLooksAgain, Goto, enqueueVars, TypeOK
<1>3. Holds(w)' = Holds(w)
  BY <1>1, <1>2 DEF Holds
<1> QED BY <1>0, <1>1, <1>2, <1>3, WorkerOwnView

LEMMA WorkerInQueueView ==
  ASSUME Q!IInv, TypeOK, QueueCalls, QueueCalls', Enqueuing, NEW w \in Workers, WorkerInQueue(w)
  PROVE  Popped(w) \/ Invisible
<1>0. Q!TypeOK /\ w \in Threads /\ UNCHANGED <<pc, enq, item, future>>
  BY QueueAssumptions DEF Q!IInv, WorkerInQueue, enqueueVars
<1>1. CASE UNCHANGED QueueView
  <2>1. UNCHANGED <<Backlog, Stage, Taken, ret>>
    BY <1>1 DEF QueueView
  <2>2. Goto(w, pc'[w]) /\ Holds(w)' = Holds(w)
    BY <1>0, <2>1 DEF Goto, Holds, TypeOK
  <2> QED BY <1>0, <2>1, <2>2, WorkerOwnView
<1>2. ASSUME Queue!PopStep(w), ~ UNCHANGED QueueView PROVE Popped(w) \/ Invisible
  <2>1. pc[w] = "popping"
    <3>1. qpc[w] \in PopLabels
      BY <1>2, CallsMove, SameSteps
    <3> QED BY <1>0, <3>1 DEF QueueCalls, PushLabels, PopLabels, EmptyLabels
  <2>2. w \in Enqueuers => ~Offering(w) /\ ~Offering(w)'
    BY <1>0, <2>1, QueueAssumptions DEF Offering, Enqueuing
  <2>3. CASE /\ Stage[w] = "popping" /\ Stage' = [Stage EXCEPT ![w] = "popped"]
             /\ Backlog # << >> /\ Backlog' = Tail(Backlog)
             /\ Taken' = [Taken EXCEPT ![w] = Head(Backlog)]
             /\ UNCHANGED <<arg, ret>>
    <3>1. OnlyMoves(w)
      BY <1>0, <2>3, ViewTypes DEF OnlyMoves
    <3>2. Holds(w) = {} /\ Holds(w)' = {Head(Backlog)}
      BY <1>0, <2>1, <2>3, ViewTypes DEF Holds
    <3>3. Busy[w] = {} /\ Busy' = [Busy EXCEPT ![w] = {Head(Backlog)}] /\ Offers' = Offers
      BY <2>2, <3>1, <3>2, BusyOf, HoldingIs, OffersOf
    <3> QED BY <1>0, <2>3, <3>3 DEF Popped
  <2>4. CASE /\ Stage[w] \in {"popping", "popped"} /\ Stage' = [Stage EXCEPT ![w] = "idle"]
             /\ ret' = [ret EXCEPT ![w] = (Stage[w] = "popped")]
             /\ UNCHANGED <<Backlog, arg, Taken>>
    <3>1. OnlyMoves(w)
      BY <1>0, <2>4, ViewTypes DEF OnlyMoves
    <3>2. Stage'[w] = "idle" /\ (ret'[w] <=> Stage[w] = "popped")
      BY <1>0, <2>4, ViewTypes
    <3>3. Holds(w)' = Holds(w)
      BY <1>0, <2>1, <2>4, <3>2 DEF Holds
    <3> QED BY <1>0, <2>2, <2>4, <3>1, <3>3, BusyOf, OffersOf DEF Invisible
  <2> QED BY <1>0, <1>2, <2>3, <2>4, PopInQueue
<1>3. ASSUME Queue!ObserverStep(w) PROVE UNCHANGED QueueView
  BY <1>0, <1>3, LooksInQueue
<1> QED BY <1>1, <1>2, <1>3 DEF WorkerInQueue

LEMMA EnqueueCallView ==
  ASSUME Q!IInv, TypeOK, QueueCalls, QueueCalls', Enqueuing, NEW t \in Enqueuers, NEW k \in Task,
         EnqueueCall(t, k)
  PROVE  Offered(t, k)
<1>0. Q!TypeOK /\ t \in Threads /\ UNCHANGED pc /\ enq[t] = "idle" /\ (t \in Workers => pc[t] = "run")
  BY QueueAssumptions DEF Q!IInv, EnqueueCall, MayEnqueue
<1>1. /\ Stage[t] = "idle" /\ Stage' = [Stage EXCEPT ![t] = "pushing"]
      /\ UNCHANGED <<Backlog, Taken, ret>>
  BY <1>0, CallsInQueue DEF EnqueueCall
<1>2. /\ enq' = [enq EXCEPT ![t] = "pushing"] /\ future[k] = "none"
      /\ item' = [item EXCEPT ![t] = k] /\ future' = [future EXCEPT ![k] = "pending"]
  BY DEF EnqueueCall
<1>3. OnlyMoves(t)
  BY <1>0, <1>1, <1>2, ViewTypes DEF OnlyMoves, TypeOK
<1>4. Offering(t)' /\ ~Offering(t)
  BY <1>0, <1>1, <1>2, ViewTypes DEF Offering, TypeOK
<1>5. t \in Workers => Holds(t)' = Holds(t)
  BY <1>0, <1>1 DEF Holds
<1>6. Offers' = Offers \cup {t} /\ t \notin Offers
  BY <1>3, <1>4, OffersOf DEF Offers, Offering
<1> QED BY <1>1, <1>2, <1>3, <1>5, <1>6, BusyOf DEF Offered

LEMMA EnqueueInQueueView ==
  ASSUME Q!IInv, TypeOK, QueueCalls, QueueCalls', Enqueuing, NEW t \in Enqueuers, EnqueueInQueue(t)
  PROVE  Pushed(t) \/ Invisible
<1>0. /\ Q!TypeOK /\ t \in Threads /\ UNCHANGED <<pc, enq, item, future>>
      /\ Queue!PushStep(t)
  BY QueueAssumptions DEF Q!IInv, EnqueueInQueue, enqueueVars
<1>1. enq[t] = "pushing" /\ arg[t] = item[t] /\ (t \in Workers => pc[t] = "run")
  <2>1. qpc[t] \in PushLabels
    BY <1>0, CallsMove, SameSteps
  <2> QED BY <1>0, <2>1 DEF QueueCalls, Enqueuing, PushLabels, PopLabels, EmptyLabels
<1>2. ASSUME OnlyMoves(t), UNCHANGED Taken PROVE Busy' = Busy
  <2>1. t \in Workers => Holds(t)' = Holds(t)
    BY <1>0, <1>1, <1>2 DEF Holds
  <2> QED BY <1>2, <2>1, BusyOf
<1>3. CASE /\ Stage[t] = "pushing" /\ Stage' = [Stage EXCEPT ![t] = "pushed"]
           /\ Backlog' = Append(Backlog, arg[t])
           /\ UNCHANGED <<arg, Taken, ret>>
  <2>1. OnlyMoves(t)
    BY <1>0, <1>3, ViewTypes DEF OnlyMoves
  <2>2. Offering(t) /\ ~Offering(t)'
    BY <1>0, <1>1, <1>3, ViewTypes DEF Offering
  <2>3. t \in Offers /\ Offers' = Offers \ {t}
    BY <2>1, <2>2, OffersOf DEF Offers, Offering
  <2> QED BY <1>0, <1>1, <1>2, <1>3, <2>1, <2>3 DEF Pushed
<1>4. CASE /\ Stage[t] \in {"pushing", "pushed"} /\ Stage' = [Stage EXCEPT ![t] = "idle"]
           /\ ret' = [ret EXCEPT ![t] = (Stage[t] = "pushed")]
           /\ UNCHANGED <<Backlog, arg, Taken>>
  <2>1. OnlyMoves(t)
    BY <1>0, <1>4, ViewTypes DEF OnlyMoves
  <2>2. Stage'[t] = "idle" /\ (ret'[t] <=> Stage[t] = "pushed")
    BY <1>0, <1>4, ViewTypes
  <2>3. Offering(t) <=> Offering(t)'
    BY <1>0, <1>1, <1>4, <2>2 DEF Offering
  <2> QED BY <1>0, <1>2, <1>4, <2>1, <2>3, OffersOf DEF Invisible
<1>5. CASE UNCHANGED QueueView
  <2>1. UNCHANGED <<Backlog, Stage, Taken, ret>>
    BY <1>5 DEF QueueView
  <2>2. OnlyMoves(t) /\ (Offering(t) <=> Offering(t)')
    BY <1>0, <2>1 DEF OnlyMoves, Offering
  <2> QED BY <1>0, <1>2, <2>1, <2>2, OffersOf DEF Invisible
<1> QED BY <1>0, <1>3, <1>4, <1>5, PushInQueue

LEMMA EnqueueRetryView ==
  ASSUME Q!IInv, TypeOK, QueueCalls, QueueCalls', Enqueuing, NEW t \in Enqueuers, EnqueueRetry(t)
  PROVE  Invisible
<1>0. /\ Q!TypeOK /\ t \in Threads /\ UNCHANGED <<enq, item, future>>
      /\ enq[t] = "pushing" /\ ~ret[t] /\ (t \in Workers => pc[t] = "run") /\ item[t] \in Task
  BY QueueAssumptions DEF Q!IInv, EnqueueRetry, enqueueVars, Enqueuing, TypeOK
<1>1. /\ Stage[t] = "idle" /\ Stage' = [Stage EXCEPT ![t] = "pushing"]
      /\ UNCHANGED <<Backlog, Taken, ret>>
  BY <1>0, CallsInQueue DEF EnqueueRetry
<1>2. \A w \in Workers : pc'[w] = pc[w] \/ (pc[w] = "asleep" /\ pc'[w] = "woken")
  BY NotifyPc DEF EnqueueRetry
<1>3. OnlyMoves(t)
  BY <1>0, <1>1, <1>2, ViewTypes DEF OnlyMoves
<1>4. Offering(t) <=> Offering(t)'
  BY <1>0, <1>1, ViewTypes DEF Offering
<1>5. t \in Workers => Holds(t)' = Holds(t)
  BY <1>0, <1>1, <1>2 DEF Holds
<1> QED BY <1>0, <1>1, <1>3, <1>4, <1>5, OffersOf, BusyOf DEF Invisible

LEMMA EnqueueNotifyView ==
  ASSUME Q!IInv, TypeOK, QueueCalls, QueueCalls', Enqueuing, NEW t \in Enqueuers, EnqueueNotify(t)
  PROVE  Invisible
<1>0. /\ Q!TypeOK /\ t \in Threads /\ UNCHANGED queueVars /\ UNCHANGED <<item, future>>
      /\ enq[t] = "pushing" /\ ret[t] /\ qpc[t] = "idle" /\ (t \in Workers => pc[t] = "run")
      /\ enq' = [enq EXCEPT ![t] = "idle"]
  BY QueueAssumptions DEF Q!IInv, EnqueueNotify, Enqueuing, Returned
<1>1. UNCHANGED <<Backlog, Stage, Taken, ret>> /\ Stage[t] = "idle"
  BY <1>0, QueueFrame, StageIs
<1>2. \A w \in Workers : pc'[w] = pc[w] \/ (pc[w] = "asleep" /\ pc'[w] = "woken")
  BY NotifyPc DEF EnqueueNotify
<1>3. OnlyMoves(t)
  BY <1>0, <1>1, <1>2 DEF OnlyMoves, TypeOK
<1>4. ~Offering(t) /\ ~Offering(t)'
  BY <1>0, <1>1 DEF Offering, TypeOK
<1>5. t \in Workers => Holds(t)' = Holds(t)
  BY <1>0, <1>1, <1>2 DEF Holds
<1> QED BY <1>0, <1>1, <1>3, <1>4, <1>5, OffersOf, BusyOf DEF Invisible

LEMMA OwnerView ==
  ASSUME TypeOK, QueueCalls, QueueCalls', DestructorCall \/ JoinCall \/ OwnerStep \/ UNCHANGED vars
  PROVE  Invisible
<1>0. UNCHANGED queueVars /\ UNCHANGED <<enq, item, future>>
  BY DEF DestructorCall, JoinCall, OwnerStep, DestructorLock, DestructorStop, DestructorNotify,
     DestructorJoined, JoinReturn, enqueueVars, vars
<1>1. UNCHANGED <<Backlog, Stage, Taken, ret>>
  BY <1>0, QueueFrame
<1>2. \A w \in Workers : pc'[w] = pc[w] \/ (pc[w] = "asleep" /\ pc'[w] = "woken")
  BY NotifyPc DEF DestructorCall, JoinCall, OwnerStep, DestructorLock, DestructorStop,
     DestructorNotify, DestructorJoined, JoinReturn, vars
<1>3. OnlyMoves(Owner) /\ Owner \notin Workers /\ Owner \notin Enqueuers
  BY <1>0, <1>1, <1>2, ThreadsApart DEF OnlyMoves, Enqueuers
<1> QED BY <1>0, <1>1, <1>3, OffersOf, BusyOf DEF Invisible

LEMMA ViewStep ==
  ASSUME Q!IInv, TypeOK, QueueCalls, QueueCalls', Enqueuing, [Next]_vars
  PROVE  \/ \E t \in Enqueuers : Pushed(t) \/ \E k \in Task : Offered(t, k)
         \/ \E w \in Workers : Popped(w) \/ (WorkerFinish(w) /\ Finished(w, out[w]))
         \/ Invisible
<1>1. ASSUME NEW w \in Workers, WorkerStep(w) \/ SpuriousWakeup(w)
      PROVE  Popped(w) \/ (WorkerFinish(w) /\ Finished(w, out[w])) \/ Invisible
  <2>1. Q!TypeOK
    BY DEF Q!IInv
  <2> QED BY <1>1, <2>1, WorkerPopView, WorkerLooksView, WorkerInQueueView, WorkerView, FinishView
             DEF WorkerStep
<1>2. ASSUME NEW t \in Enqueuers, (\E k \in Task : EnqueueCall(t, k)) \/ EnqueueStep(t)
      PROVE  Pushed(t) \/ (\E k \in Task : Offered(t, k)) \/ Invisible
  BY <1>2, EnqueueCallView, EnqueueInQueueView, EnqueueRetryView, EnqueueNotifyView
     DEF EnqueueStep
<1>3. ASSUME DestructorCall \/ JoinCall \/ OwnerStep \/ UNCHANGED vars PROVE Invisible
  BY <1>3, OwnerView
<1> QED BY <1>1, <1>2, <1>3 DEF Next

(***************************************************************************)
(* A task is in one place only.                                            *)
(***************************************************************************)
LEMMA OncePerTaskStep ==
  ASSUME Q!IInv, TypeOK, QueueCalls, QueueCalls', Enqueuing, OncePerTask, [Next]_vars
  PROVE  OncePerTask'
<1>0. /\ item \in [Enqueuers -> Task \cup {NoTask}] /\ future \in [Task -> {"none", "pending", "ready"}]
      /\ \A t \in Offers : t \in Enqueuers /\ item[t] \in Task
      /\ DOMAIN Busy = Workers
  BY DEF TypeOK, Offers, Busy
<1>1. ASSUME NEW t \in Enqueuers, NEW k \in Task, Offered(t, k) PROVE OncePerTask'
  <2>1. /\ Offers' = Offers \cup {t} /\ t \notin Offers
        /\ item'[t] = k /\ (\A u \in Offers : item'[u] = item[u])
        /\ Backlog' = Backlog /\ Busy' = Busy
    BY <1>0, <1>1 DEF Offered
  <2>2. \A j \in Task : future[j] = "pending" => j # k /\ future'[j] = "pending"
    BY <1>0, <1>1 DEF Offered
  <2>3. future'[k] = "pending"
    BY <1>0, <1>1 DEF Offered
  <2>4. \A u \in Offers : item[u] # k
    BY <1>0, <2>2 DEF OncePerTask
  <2>5. \A i \in 1 .. Len(Backlog) : Backlog[i] \in Task /\ Backlog[i] # k
    BY <2>2, ElementOfSeq DEF OncePerTask
  <2>6. \A w \in Workers : k \notin Busy[w]
    BY <2>2 DEF OncePerTask
  <2>7. \A u \in Offers' :
          /\ future'[item'[u]] = "pending"
          /\ \A i \in 1 .. Len(Backlog) : Backlog[i] # item'[u]
          /\ \A w \in Workers : item'[u] \notin Busy[w]
          /\ \A v \in Offers' : v # u => item'[v] # item'[u]
    BY <1>0, <2>1, <2>2, <2>3, <2>4, <2>5, <2>6 DEF OncePerTask
  <2>8. \A i \in 1 .. Len(Backlog) : future'[Backlog[i]] = "pending"
    BY <2>2, <2>5 DEF OncePerTask
  <2>9. \A w \in Workers : \A j \in Busy[w] : j \in Task /\ future'[j] = "pending"
    BY <2>2 DEF OncePerTask
  <2> QED BY <2>1, <2>7, <2>8, <2>9 DEF OncePerTask
<1>2. ASSUME NEW t \in Enqueuers, Pushed(t) PROVE OncePerTask'
  <2> DEFINE n == Len(Backlog)
  <2>1. /\ t \in Offers /\ item[t] \in Task /\ Backlog \in Seq(Task) /\ n \in Nat
        /\ Offers' = Offers \ {t} /\ item' = item /\ future' = future /\ Busy' = Busy
        /\ Backlog' = Append(Backlog, item[t])
    BY <1>0, <1>2, LenProperties DEF Pushed, OncePerTask
  <2>2. /\ Backlog' \in Seq(Task) /\ Len(Backlog') = n + 1
        /\ \A i \in 1 .. n : Backlog'[i] = Backlog[i]
        /\ Backlog'[n + 1] = item[t]
    BY <2>1, AppendProperties
  <2>3. \A i \in 1 .. n + 1 : i \in 1 .. n \/ i = n + 1
    BY <2>1
  <2> HIDE DEF n
  <2>4. \A u \in Offers' : \A i \in 1 .. n + 1 : Backlog'[i] # item[u]
    BY <1>0, <2>1, <2>2, <2>3 DEF OncePerTask, n
  <2>5. \A i \in 1 .. n + 1 :
          /\ future[Backlog'[i]] = "pending"
          /\ \A w \in Workers : Backlog'[i] \notin Busy[w]
    BY <2>1, <2>2, <2>3 DEF OncePerTask, n
  <2>6. \A i, j \in 1 .. n + 1 : i # j => Backlog'[i] # Backlog'[j]
    BY <2>1, <2>2, <2>3 DEF OncePerTask, n
  <2>7. \A u \in Offers' :
          /\ future[item[u]] = "pending"
          /\ \A w \in Workers : item[u] \notin Busy[w]
          /\ \A v \in Offers' : v # u => item[v] # item[u]
    BY <2>1 DEF OncePerTask
  <2>8. \A w \in Workers : \A k \in Busy[w] :
          /\ k \in Task /\ future[k] = "pending"
          /\ \A v \in Workers : v # w => k \notin Busy[v]
    BY DEF OncePerTask
  <2> QED BY <2>1, <2>2, <2>4, <2>5, <2>6, <2>7, <2>8 DEF OncePerTask
<1>3. ASSUME NEW w \in Workers, Popped(w) PROVE OncePerTask'
  <2> DEFINE n == Len(Backlog)
  <2>1. /\ Offers' = Offers /\ item' = item /\ future' = future
        /\ Backlog \in Seq(Task) /\ n \in Nat /\ Backlog # << >>
        /\ Backlog' = Tail(Backlog) /\ Busy[w] = {}
        /\ Busy' = [Busy EXCEPT ![w] = {Head(Backlog)}]
    BY <1>0, <1>3, LenProperties DEF Popped, OncePerTask
  <2>2. /\ n \in Nat \ {0} /\ Backlog' \in Seq(Task) /\ Len(Backlog') = n - 1
        /\ \A i \in 1 .. n - 1 : Backlog'[i] = Backlog[i + 1]
        /\ Head(Backlog) = Backlog[1]
    BY <2>1, HeadTailProperties, EmptySeq
  <2> DEFINE h == Head(Backlog)
  <2>3. h \in Task /\ future[h] = "pending"
    BY <2>1, <2>2, ElementOfSeq DEF OncePerTask
  <2>4. \A u \in Workers : Busy'[u] = IF u = w THEN {h} ELSE Busy[u]
    BY <1>0, <2>1
  <2>5. \A i \in 1 .. n - 1 : i + 1 \in 1 .. n /\ i + 1 # 1
    BY <2>2
  <2> HIDE DEF n
  <2>6. \A i \in 1 .. n - 1 :
          /\ future[Backlog'[i]] = "pending" /\ Backlog'[i] # h
          /\ \A u \in Workers : Backlog'[i] \notin Busy[u]
    BY <2>2, <2>5 DEF OncePerTask, n
  <2>7. \A i, j \in 1 .. n - 1 : i # j => Backlog'[i] # Backlog'[j]
    <3> SUFFICES ASSUME NEW i \in 1 .. n - 1, NEW j \in 1 .. n - 1, i # j
                 PROVE  Backlog[i + 1] # Backlog[j + 1]
      BY <2>2
    <3>1. i + 1 \in 1 .. n /\ j + 1 \in 1 .. n /\ i + 1 # j + 1
      BY <2>2
    <3> QED BY <3>1 DEF OncePerTask, n
  <2>8. \A t \in Offers :
          /\ \A i \in 1 .. n - 1 : Backlog'[i] # item[t]
          /\ h # item[t]
    <3>1. 1 \in 1 .. n
      BY <2>2
    <3> QED BY <2>2, <2>5, <3>1 DEF OncePerTask, n
  <2>9. \A u \in Workers : h \notin Busy[u]
    <3>1. 1 \in 1 .. n
      BY <2>2
    <3> QED BY <2>2, <3>1 DEF OncePerTask, n
  <2> HIDE DEF h
  <2>10. \A t \in Offers :
          /\ future[item[t]] = "pending"
          /\ \A u \in Workers : item[t] \notin Busy'[u]
          /\ \A u \in Offers : u # t => item[u] # item[t]
    BY <2>4, <2>8 DEF OncePerTask
  <2>11. \A i \in 1 .. n - 1 : \A u \in Workers : Backlog'[i] \notin Busy'[u]
    BY <2>4, <2>6
  <2>12. \A u \in Workers : \A k \in Busy'[u] :
          /\ k \in Task /\ future[k] = "pending"
          /\ \A v \in Workers : v # u => k \notin Busy'[v]
    BY <2>3, <2>4, <2>9 DEF OncePerTask
  <2> QED BY <2>1, <2>2, <2>6, <2>7, <2>8, <2>10, <2>11, <2>12 DEF OncePerTask
<1>4. ASSUME NEW w \in Workers, NEW k, Finished(w, k) PROVE OncePerTask'
  <2>1. /\ Offers' = Offers /\ item' = item /\ Backlog' = Backlog /\ Busy[w] = {k}
        /\ \A u \in Workers : Busy'[u] = IF u = w THEN {} ELSE Busy[u]
        /\ \A j \in Task : j # k => future'[j] = future[j]
    BY <1>0, <1>4 DEF Finished
  <2>2. \A t \in Offers : item[t] # k
    BY <2>1 DEF OncePerTask
  <2>3. \A i \in 1 .. Len(Backlog) : Backlog[i] \in Task /\ Backlog[i] # k
    BY <2>1, ElementOfSeq DEF OncePerTask
  <2>4. \A u \in Workers : u # w => k \notin Busy[u]
    BY <2>1 DEF OncePerTask
  <2>5. \A t \in Offers :
       /\ future'[item[t]] = "pending"
       /\ \A i \in 1 .. Len(Backlog) : Backlog[i] # item[t]
       /\ \A u \in Workers : item[t] \notin Busy'[u]
       /\ \A u \in Offers : u # t => item[u] # item[t]
    BY <1>0, <2>1, <2>2 DEF OncePerTask
  <2>6. \A i \in 1 .. Len(Backlog) :
          /\ future'[Backlog[i]] = "pending"
          /\ \A u \in Workers : Backlog[i] \notin Busy'[u]
    BY <2>1, <2>3 DEF OncePerTask
  <2>7. \A u \in Workers : \A j \in Busy'[u] :
          /\ j \in Task /\ future'[j] = "pending"
          /\ \A v \in Workers : v # u => j \notin Busy'[v]
    BY <2>1, <2>4 DEF OncePerTask
  <2> QED BY <2>1, <2>5, <2>6, <2>7 DEF OncePerTask
<1>5. ASSUME Invisible PROVE OncePerTask'
  BY <1>5 DEF Invisible, OncePerTask
<1> QED BY <1>1, <1>2, <1>3, <1>4, <1>5, ViewStep

(***************************************************************************)
(* The invariant is inductive.                                             *)
(***************************************************************************)
LEMMA ViewInit ==
  ASSUME Init
  PROVE  Offers = {} /\ Backlog = << >> /\ Busy = [w \in Workers |-> {}]
<1>1. Q!Init
  BY SameState DEF Init
<1>2. Q!Fifo!Init
  BY <1>1, QueueAssumptions, Q!RefinementInit
<1>3. Backlog = << >>
  BY <1>2 DEF Q!Fifo!Init, Backlog
<1>4. qpc = [t \in Threads |-> "idle"]
  BY <1>1, QueueAssumptions DEF Q!Init
<1>5. QueueCalls
  BY <1>4 DEF QueueCalls
<1>6. Offers = {}
  BY DEF Init, Offers
<1>7. \A w \in Workers : Holds(w) = {}
  BY <1>4, <1>5, StageIs, QueueAssumptions DEF Holds, Init
<1> QED BY <1>3, <1>5, <1>6, <1>7, HoldingIs DEF Busy

LEMMA IInvInit == Init => IInv
<1> SUFFICES ASSUME Init PROVE IInv
  OBVIOUS
<1>1. Q!Init
  BY SameState DEF Init
<1>2. Q!IInv
  BY <1>1, QueueAssumptions, Q!IInvInit
<1>3. TypeOK
  BY TypesInit
<1>4. QueueCalls
  BY <1>1, QueueAssumptions DEF QueueCalls, Q!Init
<1>5. Enqueuing /\ Closing
  BY QueueAssumptions DEF Init, Enqueuing, Closing
<1>6. OncePerTask
  BY ViewInit DEF OncePerTask
<1>7. SomebodyStays
  BY DEF Init, SomebodyStays
<1> QED BY <1>2, <1>3, <1>4, <1>5, <1>6, <1>7 DEF IInv

LEMMA IInvStep == IInv /\ [Next]_vars => IInv'
<1> SUFFICES ASSUME IInv, [Next]_vars PROVE IInv'
  OBVIOUS
<1>1. /\ Q!IInv /\ TypeOK /\ QueueCalls /\ Enqueuing /\ Closing /\ OncePerTask /\ SomebodyStays
      /\ Q!TypeOK
  BY DEF IInv, Q!IInv
<1>2. Q!IInv' /\ Q!TypeOK'
  BY <1>1, QueueSteps, QueueAssumptions, Q!IInvStep DEF Q!IInv
<1>3. TypeOK'
  BY <1>1, <1>2, TypesStep
<1>4. QueueCalls' /\ Enqueuing'
  BY <1>1, QueueCallsStep, EnqueuingStep
<1>5. Closing'
  BY <1>1, ClosingStep
<1>6. OncePerTask'
  BY <1>1, <1>4, OncePerTaskStep
<1>7. SomebodyStays'
  BY <1>1, <1>2, SomebodyStaysStep
<1> QED BY <1>2, <1>3, <1>4, <1>5, <1>6, <1>7 DEF IInv

THEOREM Inductive == Spec => []IInv
BY IInvInit, IInvStep, PTL DEF Spec

(* The variables keep their types: the pool is never at a label, in a call *)
(* of the queue or with a future that the code does not have.              *)
THEOREM TypeCorrect == Spec => []TypeOK
<1>1. IInv => TypeOK
  BY DEF IInv
<1> QED BY <1>1, Inductive, PTL

(***************************************************************************)
(* The pool implements TaskPool.                                           *)
(***************************************************************************)
Done == {k \in Task : future[k] = "ready"}
Phase ==
  IF owner \in {"destroyed", "joined"} THEN "closed" ELSE IF stop THEN "closing" ELSE "open"

\* The refinement mapping in the names used here.
LEMMA Mapping ==
  /\ Queue!AbstractQueue = Backlog
  /\ Queue!AbstractQueue' = Backlog'
BY SameState, SameStateNext DEF Backlog

LEMMA RefinementInit == Init => Pool!Init
BY ViewInit, Mapping DEF Init, Pool!Init, Busy

\* When all workers have returned nothing is queued and nothing held.
LEMMA AllReturned ==
  ASSUME IInv, stop, \A w \in Workers : pc[w] = "returned"
  PROVE  Backlog = << >> /\ \A w \in Workers : Busy[w] = {}
<1>1. head = tail
  BY SizeAssumption DEF IInv, SomebodyStays, Leaving
<1>2. Backlog = << >>
  <2>1. head \in Nat /\ tail \in Nat
    BY DEF IInv, Q!IInv, Q!TypeOK
  <2>2. 1 .. tail - head = {}
    BY <1>1, <2>1
  <2> QED BY <2>2 DEF Backlog, Q!AbstractQueue
<1>3. ASSUME NEW w \in Workers PROVE Busy[w] = {}
  <2>1. QueueCalls /\ w \in Threads
    BY QueueAssumptions DEF IInv
  <2>2. qpc[w] = "idle" \/ qpc[w] \in PushLabels
    BY <2>1 DEF QueueCalls
  <2>3. Stage[w] # "popped"
    BY <2>1, <2>2, StageIs
  <2> QED BY <2>1, <2>3, HoldingIs DEF Holds
<1> QED BY <1>2, <1>3

\* The phase moves on with stop, and when the last worker has returned.
LEMMA PhaseStep ==
  ASSUME IInv, QueueCalls', [Next]_vars
  PROVE  \/ Phase' = Phase
         \/ Invisible /\ Phase = "open" /\ Phase' = "closing"
         \/ /\ Invisible /\ Phase = "closing" /\ Phase' = "closed"
            /\ Backlog = << >> /\ \A w \in Workers : Busy[w] = {}
<1>0. TypeOK /\ QueueCalls /\ Closing
  BY DEF IInv
<1>1. ASSUME UNCHANGED <<owner, stop>> PROVE Phase' = Phase
  BY <1>1 DEF Phase
<1>2. ASSUME NEW w \in Workers, WorkerStep(w) \/ SpuriousWakeup(w) PROVE UNCHANGED <<owner, stop>>
  BY <1>2 DEF WorkerStep, WorkerPop, WorkerStart, WorkerFinish, WorkerLock, WorkerSeesStop,
     WorkerLooks, WorkerSleep, WorkerStays, WorkerBack, WorkerLooksAgain, WorkerLeaves,
     WorkerInQueue, SpuriousWakeup
<1>3. ASSUME NEW t \in Enqueuers, (\E k \in Task : EnqueueCall(t, k)) \/ EnqueueStep(t)
      PROVE  UNCHANGED <<owner, stop>>
  BY <1>3 DEF EnqueueCall, EnqueueStep, EnqueueInQueue, EnqueueRetry, EnqueueNotify
<1>4. ASSUME DestructorCall \/ DestructorLock \/ DestructorNotify \/ UNCHANGED vars
      PROVE  Phase' = Phase
  BY <1>4 DEF DestructorCall, DestructorLock, DestructorNotify, Phase, vars
<1>5. ASSUME DestructorStop \/ JoinCall
      PROVE  Invisible /\ Phase = "open" /\ Phase' = "closing"
  <2>1. Invisible
    BY <1>0, <1>5, OwnerView DEF OwnerStep
  <2>2. ~stop /\ stop' /\ owner \in {"outside", "stop_set"} /\ owner' \in {"stop_notify", "join_wait"}
    BY <1>0, <1>5 DEF DestructorStop, JoinCall, Closing
  <2> QED BY <2>1, <2>2 DEF Phase
<1>6. ASSUME DestructorJoined \/ JoinReturn
      PROVE  /\ Invisible /\ Phase = "closing" /\ Phase' = "closed"
             /\ Backlog = << >> /\ \A w \in Workers : Busy[w] = {}
  <2>1. Invisible
    BY <1>0, <1>6, OwnerView DEF OwnerStep
  <2>2. /\ stop /\ \A w \in Workers : pc[w] = "returned"
        /\ owner \in {"stop_wait", "join_wait"} /\ owner' \in {"destroyed", "joined"}
    BY <1>0, <1>6 DEF DestructorJoined, JoinReturn, Closing
  <2> QED BY <2>1, <2>2, AllReturned DEF Phase
<1> QED BY <1>1, <1>2, <1>3, <1>4, <1>5, <1>6 DEF Next, OwnerStep

LEMMA RefinementStep ==
  ASSUME IInv, IInv', [Next]_vars
  PROVE  [Pool!Next]_(Pool!vars)
<1> DEFINE NextBusy == [w \in Workers |-> Holding(w)]'
<1>0. /\ Q!IInv /\ TypeOK /\ QueueCalls /\ QueueCalls' /\ Enqueuing /\ Closing /\ OncePerTask
      /\ DOMAIN Busy = Workers /\ Busy = [w \in Workers |-> Holding(w)] /\ Busy' = NextBusy
      /\ future \in [Task -> {"none", "pending", "ready"}]
  BY DEF IInv, Busy, TypeOK
<1>1. ASSUME NEW t \in Enqueuers, Pushed(t) PROVE Pool!Accept(item[t]) /\ item[t] \in Task
  <2>1. /\ t \in Offers /\ enq[t] = "pushing" /\ item[t] \in Task
        /\ Backlog' = Append(Backlog, item[t]) /\ UNCHANGED <<Busy, future>>
    BY <1>0, <1>1 DEF Pushed, Offers, TypeOK
  <2>2. Phase # "closed"
    BY <1>0, <2>1, QueueAssumptions DEF Phase, Closing, Enqueuing
  <2>3. Backlog' # Backlog
    <3>1. Backlog \in Seq(Task)
      BY <1>0 DEF OncePerTask
    <3>2. Len(Backlog') = Len(Backlog) + 1 /\ Len(Backlog) \in Nat
      BY <2>1, <3>1, AppendProperties, LenProperties
    <3> QED BY <3>2
  <2>4. Phase' = Phase
    BY <1>0, <2>3, PhaseStep DEF Invisible
  <2>5. /\ item[t] \notin {Backlog[i] : i \in 1 .. Len(Backlog)}
        /\ item[t] \notin UNION {Busy[w] : w \in Workers}
        /\ item[t] \notin Done
    BY <1>0, <2>1 DEF OncePerTask, Done
  <2>6. item[t] \notin Pool!Accepted \cup {}
    BY <1>0, <2>5, Mapping DEF Pool!Accepted, Done
  <2>7. Done' = Done
    BY <2>1 DEF Done
  <2> QED BY <1>0, <2>1, <2>2, <2>4, <2>6, <2>7, Mapping DEF Pool!Accept, Done, Phase
<1>2. ASSUME NEW w \in Workers, Popped(w) PROVE Pool!Start(w)
  <2>1. /\ Backlog # << >> /\ Busy[w] = {} /\ Backlog' = Tail(Backlog)
        /\ Busy' = [Busy EXCEPT ![w] = {Head(Backlog)}] /\ UNCHANGED future
    BY <1>2 DEF Popped
  <2>2. Busy' # Busy
    BY <1>0, <2>1
  <2>3. Phase' = Phase
    BY <1>0, <2>2, PhaseStep DEF Invisible
  <2>4. Done' = Done
    BY <2>1 DEF Done
  <2> QED BY <1>0, <2>1, <2>3, <2>4, Mapping DEF Pool!Start, Done, Phase
<1>3. ASSUME NEW w \in Workers, NEW k, Finished(w, k) PROVE Pool!Finish(w)
  <2>1. /\ Busy[w] = {k} /\ Busy' = [Busy EXCEPT ![w] = {}] /\ Backlog' = Backlog
        /\ future' = [future EXCEPT ![k] = "ready"]
    BY <1>3 DEF Finished
  <2>2. k \in Task
    BY <1>0, <2>1 DEF OncePerTask
  <2>3. Done' = Done \cup {k}
    BY <1>0, <2>1, <2>2 DEF Done
  <2>4. Busy' # Busy
    BY <1>0, <2>1
  <2>5. Phase' = Phase
    BY <1>0, <2>4, PhaseStep DEF Invisible
  <2> QED BY <1>0, <2>1, <2>3, <2>5, Mapping DEF Pool!Finish, Done, Phase
<1>4. ASSUME Invisible PROVE Pool!Close \/ Pool!Closed \/ UNCHANGED Pool!vars
  <2>1. UNCHANGED <<Backlog, Busy, Done>>
    BY <1>4 DEF Invisible, Done
  <2>2. CASE Phase' = Phase
    BY <1>0, <2>1, <2>2, Mapping DEF Pool!vars, Done, Phase
  <2>3. CASE Phase = "open" /\ Phase' = "closing"
    BY <1>0, <2>1, <2>3, Mapping DEF Pool!Close, Done, Phase
  <2>4. CASE /\ Phase = "closing" /\ Phase' = "closed"
             /\ Backlog = << >> /\ \A w \in Workers : Busy[w] = {}
    BY <1>0, <2>1, <2>4, Mapping DEF Pool!Closed, Done, Phase
  <2> QED BY <1>0, <2>2, <2>3, <2>4, PhaseStep
<1>5. ASSUME NEW t \in Enqueuers, NEW k \in Task, Offered(t, k) PROVE UNCHANGED Pool!vars
  <2>1. UNCHANGED <<Backlog, Busy>> /\ Offers' # Offers
    BY <1>5 DEF Offered
  <2>2. Phase' = Phase
    BY <2>1, PhaseStep, <1>0 DEF Invisible
  <2>3. Done' = Done
    BY <1>0, <1>5 DEF Offered, Done
  <2> QED BY <1>0, <2>1, <2>2, <2>3, Mapping DEF Pool!vars, Done, Phase
<1> QED
  <2>1. CASE \E t \in Enqueuers : Pushed(t)
    BY <1>1, <2>1 DEF Pool!Next
  <2>2. CASE \E t \in Enqueuers, k \in Task : Offered(t, k)
    BY <1>5, <2>2
  <2>3. CASE \E w \in Workers : Popped(w)
    BY <1>2, <2>3 DEF Pool!Next
  <2>4. CASE \E w \in Workers : WorkerFinish(w) /\ Finished(w, out[w])
    BY <1>3, <2>4 DEF Pool!Next
  <2>5. CASE Invisible
    BY <1>4, <2>5 DEF Pool!Next
  <2> QED BY <1>0, <2>1, <2>2, <2>3, <2>4, <2>5, ViewStep

(* The pool implements TaskPool for every number of workers, clients,      *)
(* tasks and nodes: whatever races in the queue, an accepted task is       *)
(* started once and in the order of acceptance, and the destructor and     *)
(* join return only when every accepted task has finished, although        *)
(* enqueue never looks at stop and Empty may answer what is no longer so.  *)
THEOREM Refinement == Spec => PoolSpec
<1>1. IInv /\ IInv' /\ [Next]_vars => [Pool!Next]_(Pool!vars)
  BY RefinementStep
<1> QED BY <1>1, Inductive, RefinementInit, PTL DEF Spec, PoolSpec, Pool!Spec
=============================================================================
