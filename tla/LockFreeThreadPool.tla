-------------------------- MODULE LockFreeThreadPool --------------------------
(***************************************************************************)
(* yi::LockFreeThreadPool (thread/LockFreeThreadPool.h and .cpp): worker   *)
(* threads over a LockFreeQueue.  The mutex only serves the condition      *)
(* variable: enqueue never takes it, so a push and its notification may    *)
(* fall between a worker's look at the queue and its going to sleep.       *)
(*                                                                         *)
(* The queue is the module LockFreeQueue, one access to shared memory at a *)
(* time; the pool's own steps are those of ThreadPool.                     *)
(***************************************************************************)
EXTENDS Naturals, Sequences, FiniteSets

CONSTANTS Workers,   \* the pool's threads
          Clients,   \* the threads outside that call enqueue
          Spawners,  \* the workers whose tasks call enqueue
          Owner,     \* the thread that destroys the pool
          Task,      \* the tasks; each is enqueued at most once
          Endless,   \* the tasks that never return
          Capacity,  \* the queue's capacity
          Nobody,    \* no thread
          NoTask     \* no task

ASSUME ThreadsApart ==
  /\ Workers \cap Clients = {} /\ Spawners \subseteq Workers
  /\ Owner \notin Workers \cup Clients
  /\ Nobody \notin Workers \cup Clients \cup {Owner}
ASSUME TaskAssumption == NoTask \notin Task /\ Endless \subseteq Task
\* A pool of no threads would forget its queue when it is destroyed.
ASSUME SizeAssumption == Capacity \in Nat \ {0} /\ Workers # {}

Enqueuers == Clients \cup Spawners
Threads == Workers \cup Clients

VARIABLES head, tail, readIndex, storeIndex, val,        \* the queue
          qpc, capture, arg, out, ret, emptyRet, sizeRet, \* calls in progress in it
          mutex,     \* the holder of queue_mutex
          stop,
          pc,        \* where each worker stands in its loop
          enq,       \* whether each thread is inside enqueue
          item,      \* the task it is enqueueing
          future,    \* future[k]: the shared state of task k's future
          owner      \* where Owner stands in the destructor or join

queueVars == <<head, tail, readIndex, storeIndex, val, qpc, capture, arg, out, ret,
               emptyRet, sizeRet>>
enqueueVars == <<enq, item>>
vars == <<queueVars, mutex, stop, pc, enqueueVars, future, owner>>

Queue == INSTANCE LockFreeQueue
           WITH Pushers <- Enqueuers, Poppers <- Workers, Observers <- Workers,
                Val <- Task, NoVal <- NoTask, TicketBound <- Cardinality(Task),
                pc <- qpc

Init ==
  /\ Queue!Init
  /\ mutex = Nobody
  /\ stop = FALSE
  /\ pc = [w \in Workers |-> "loop"]
  /\ enq = [t \in Enqueuers |-> "idle"]
  /\ item = [t \in Enqueuers |-> NoTask]
  /\ future = [k \in Task |-> "none"]
  /\ owner = "outside"

Acquire(t) == mutex = Nobody /\ mutex' = t
Release(t) == mutex = t /\ mutex' = Nobody
Goto(w, label) == pc' = [pc EXCEPT ![w] = label]

\* A call of t into the queue has come back.
Returned(t) == qpc[t] = "idle"

Asleep == {w \in Workers : pc[w] = "asleep"}

NotifyOne ==
  \/ Asleep = {} /\ UNCHANGED pc
  \/ \E w \in Asleep : Goto(w, "woken")

NotifyAll == pc' = [w \in Workers |-> IF w \in Asleep THEN "woken" ELSE pc[w]]
-----------------------------------------------------------------------------
(* The worker's loop                                                       *)

WorkerPop(w) ==
  /\ pc[w] = "loop"
  /\ Queue!PopCall(w)
  /\ Goto(w, "popping")
  /\ UNCHANGED <<mutex, stop, enqueueVars, future, owner>>

WorkerStart(w) ==
  /\ pc[w] = "popping" /\ Returned(w) /\ ret[w]
  /\ Goto(w, "run")
  /\ UNCHANGED <<queueVars, mutex, stop, enqueueVars, future, owner>>

\* As in ThreadPool, what the task returns or throws ends up in its future.
WorkerFinish(w) ==
  /\ pc[w] = "run"
  /\ out[w] \notin Endless
  /\ w \in Spawners => enq[w] = "idle"
  /\ future' = [future EXCEPT ![out[w]] = "ready"]
  /\ Goto(w, "loop")
  /\ UNCHANGED <<queueVars, mutex, stop, enqueueVars, owner>>

WorkerLock(w) ==
  /\ \/ pc[w] = "popping" /\ Returned(w) /\ ~ret[w]
     \/ pc[w] = "woken"
  /\ Acquire(w)
  /\ Goto(w, "pred")
  /\ UNCHANGED <<queueVars, stop, enqueueVars, future, owner>>

\* The predicate of the wait: stop || !tasks.Empty()
\* Mutant: a worker that sees stop leaves without a look at the queue.
WorkerObeysStop(w) ==
  /\ pc[w] = "pred"
  /\ stop
  /\ Release(w)
  /\ Goto(w, "returned")
  /\ UNCHANGED <<queueVars, stop, enqueueVars, future, owner>>

WorkerSeesStop(w) ==
  /\ pc[w] = "pred"
  /\ stop
  /\ Goto(w, "exit")
  /\ UNCHANGED <<queueVars, mutex, stop, enqueueVars, future, owner>>

WorkerLooks(w) ==
  /\ pc[w] = "pred"
  /\ ~stop
  /\ Queue!EmptyCall(w)
  /\ Goto(w, "pred_empty")
  /\ UNCHANGED <<mutex, stop, enqueueVars, future, owner>>

WorkerSleep(w) ==
  /\ pc[w] = "pred_empty" /\ Returned(w) /\ emptyRet[w]
  /\ Release(w)
  /\ Goto(w, "asleep")
  /\ UNCHANGED <<queueVars, stop, enqueueVars, future, owner>>

WorkerStays(w) ==
  /\ pc[w] = "pred_empty" /\ Returned(w) /\ ~emptyRet[w]
  /\ Goto(w, "exit")
  /\ UNCHANGED <<queueVars, mutex, stop, enqueueVars, future, owner>>

SpuriousWakeup(w) ==
  /\ pc[w] = "asleep"
  /\ Goto(w, "woken")
  /\ UNCHANGED <<queueVars, mutex, stop, enqueueVars, future, owner>>

\* After the wait: if (stop && tasks.Empty()) return
WorkerBack(w) ==
  /\ pc[w] = "exit"
  /\ ~stop
  /\ Release(w)
  /\ Goto(w, "loop")
  /\ UNCHANGED <<queueVars, stop, enqueueVars, future, owner>>

WorkerLooksAgain(w) ==
  /\ pc[w] = "exit"
  /\ stop
  /\ Queue!EmptyCall(w)
  /\ Goto(w, "exit_empty")
  /\ UNCHANGED <<mutex, stop, enqueueVars, future, owner>>

WorkerLeaves(w) ==
  /\ pc[w] = "exit_empty" /\ Returned(w)
  /\ Release(w)
  /\ Goto(w, IF emptyRet[w] THEN "returned" ELSE "loop")
  /\ UNCHANGED <<queueVars, stop, enqueueVars, future, owner>>

WorkerInQueue(w) ==
  /\ Queue!PopStep(w) \/ Queue!ObserverStep(w)
  /\ UNCHANGED <<mutex, stop, pc, enqueueVars, future, owner>>
-----------------------------------------------------------------------------
(* enqueue: no mutex, and no look at stop                                  *)

MayEnqueue(t) == IF t \in Workers THEN pc[t] = "run" ELSE owner = "outside"

EnqueueCall(t, k) ==
  /\ enq[t] = "idle"
  /\ MayEnqueue(t)
  /\ future[k] = "none"
  /\ future' = [future EXCEPT ![k] = "pending"]
  /\ item' = [item EXCEPT ![t] = k]
  /\ enq' = [enq EXCEPT ![t] = "pushing"]
  /\ Queue!PushCall(t, k)
  /\ UNCHANGED <<mutex, stop, pc, owner>>

EnqueueInQueue(t) ==
  /\ Queue!PushStep(t)
  /\ UNCHANGED <<mutex, stop, pc, enqueueVars, future, owner>>

\* Push returned false: wake everybody and try again, without ever giving up.
\* Mutant: the first attempt has moved the task away.
EnqueueRetryMoved(t) ==
  /\ enq[t] = "pushing" /\ Returned(t) /\ ~ret[t]
  /\ NotifyAll
  /\ Queue!PushCall(t, item[t])
  /\ item' = [item EXCEPT ![t] = NoTask]
  /\ UNCHANGED <<mutex, stop, enq, future, owner>>

EnqueueRetry(t) ==
  /\ enq[t] = "pushing" /\ Returned(t) /\ ~ret[t]
  /\ NotifyAll
  /\ Queue!PushCall(t, item[t])
  /\ UNCHANGED <<mutex, stop, enqueueVars, future, owner>>

\* Mutant: the notification after a push is missing.
EnqueueSilent(t) ==
  /\ enq[t] = "pushing" /\ Returned(t) /\ ret[t]
  /\ enq' = [enq EXCEPT ![t] = "idle"]
  /\ UNCHANGED <<queueVars, mutex, stop, pc, item, future, owner>>

EnqueueNotify(t) ==
  /\ enq[t] = "pushing" /\ Returned(t) /\ ret[t]
  /\ NotifyOne
  /\ enq' = [enq EXCEPT ![t] = "idle"]
  /\ UNCHANGED <<queueVars, mutex, stop, item, future, owner>>
-----------------------------------------------------------------------------
(* ~LockFreeThreadPool and join                                            *)

DestructorCall ==
  /\ owner = "outside"
  /\ \A c \in Clients : enq[c] = "idle"
  /\ owner' = "stop_lock"
  /\ UNCHANGED <<queueVars, mutex, stop, pc, enqueueVars, future>>

DestructorLock ==
  /\ owner = "stop_lock"
  /\ Acquire(Owner)
  /\ owner' = "stop_set"
  /\ UNCHANGED <<queueVars, stop, pc, enqueueVars, future>>

DestructorStop ==
  /\ owner = "stop_set"
  /\ stop' = TRUE
  /\ Release(Owner)
  /\ owner' = "stop_notify"
  /\ UNCHANGED <<queueVars, pc, enqueueVars, future>>

\* Mutant: one worker is told of stop, not all of them.
DestructorNotifyOne ==
  /\ owner = "stop_notify"
  /\ NotifyOne
  /\ owner' = "stop_wait"
  /\ UNCHANGED <<queueVars, mutex, stop, enqueueVars, future>>

DestructorNotify ==
  /\ owner = "stop_notify"
  /\ NotifyAll
  /\ owner' = "stop_wait"
  /\ UNCHANGED <<queueVars, mutex, stop, enqueueVars, future>>

DestructorJoined ==
  /\ owner = "stop_wait"
  /\ \A w \in Workers : pc[w] = "returned"
  /\ owner' = "destroyed"
  /\ UNCHANGED <<queueVars, mutex, stop, pc, enqueueVars, future>>

\* join sets stop without the mutex and wakes nobody.  (Its definition is inline
\* in the .cpp, so only that file could call it; destroying a joined pool joins
\* the threads twice and ends the program, so nothing follows here.)
JoinCall ==
  /\ owner = "outside"
  /\ \A c \in Clients : enq[c] = "idle"
  /\ stop' = TRUE
  /\ owner' = "join_wait"
  /\ UNCHANGED <<queueVars, mutex, pc, enqueueVars, future>>

JoinReturn ==
  /\ owner = "join_wait"
  /\ \A w \in Workers : pc[w] = "returned"
  /\ owner' = "joined"
  /\ UNCHANGED <<queueVars, mutex, stop, pc, enqueueVars, future>>
-----------------------------------------------------------------------------
WorkerStep(w) ==
  \/ WorkerPop(w) \/ WorkerStart(w) \/ WorkerFinish(w) \/ WorkerLock(w)
  \/ WorkerSeesStop(w) \/ WorkerLooks(w) \/ WorkerSleep(w) \/ WorkerStays(w)
  \/ WorkerBack(w) \/ WorkerLooksAgain(w) \/ WorkerLeaves(w) \/ WorkerInQueue(w)

EnqueueStep(t) == EnqueueInQueue(t) \/ EnqueueRetry(t) \/ EnqueueNotify(t)

OwnerStep ==
  \/ DestructorLock \/ DestructorStop \/ DestructorNotify \/ DestructorJoined
  \/ JoinReturn

Next ==
  \/ \E w \in Workers : WorkerStep(w) \/ SpuriousWakeup(w)
  \/ \E t \in Enqueuers : (\E k \in Task : EnqueueCall(t, k)) \/ EnqueueStep(t)
  \/ DestructorCall \/ JoinCall \/ OwnerStep

Spec == Init /\ [][Next]_vars

\* As in ThreadPool and LockFreeQueue.
Fairness ==
  /\ \A w \in Workers :
       /\ WF_vars(WorkerStep(w)) /\ SF_vars(WorkerLock(w))
       /\ SF_vars(WorkerInQueue(w) /\ Queue!PopCasSucceed(w))
  /\ \A t \in Enqueuers :
       /\ WF_vars(EnqueueStep(t))
       /\ SF_vars(EnqueueInQueue(t) /\ Queue!PushCasSucceed(t))
  /\ WF_vars(OwnerStep) /\ SF_vars(DestructorLock)

FairSpec == Spec /\ Fairness
-----------------------------------------------------------------------------
TypeOK ==
  /\ Queue!TypeOK
  /\ mutex \in Threads \cup {Owner, Nobody}
  /\ stop \in BOOLEAN
  /\ pc \in [Workers -> {"loop", "popping", "run", "pred", "pred_empty", "asleep",
                         "woken", "exit", "exit_empty", "returned"}]
  /\ enq \in [Enqueuers -> {"idle", "pushing"}]
  /\ item \in [Enqueuers -> Task \cup {NoTask}]
  /\ \A t \in Enqueuers : enq[t] = "pushing" => item[t] \in Task
  /\ future \in [Task -> {"none", "pending", "ready"}]
  /\ owner \in {"outside", "stop_lock", "stop_set", "stop_notify", "stop_wait",
                "destroyed", "join_wait", "joined"}

(* Every accepted task is run to its end.                                  *)
EveryTaskRuns ==
  \A k \in Task \ Endless : future[k] = "pending" ~> future[k] # "pending"

(* The destructor returns, having drained the queue.                       *)
DestructorReturns == owner = "stop_lock" ~> owner = "destroyed"
-----------------------------------------------------------------------------
(* The pool implements TaskPool: a task is accepted, and started, when the *)
(* compare-exchange of Push, and of Pop, claims its ticket.                *)

Holding(w) ==
  IF \/ qpc[w] \in {"pop_take", "pop_release"}
     \/ pc[w] = "popping" /\ Returned(w) /\ ret[w]
     \/ pc[w] = "run"
  THEN {Queue!AbstractOut[w]}
  ELSE {}

Pool == INSTANCE TaskPool
          WITH backlog <- Queue!AbstractQueue,
               busy    <- [w \in Workers |-> Holding(w)],
               done    <- {k \in Task : future[k] = "ready"},
               refused <- {},
               phase   <- IF owner \in {"destroyed", "joined"} THEN "closed"
                          ELSE IF stop THEN "closing" ELSE "open"

(* Accepted tasks are started once and in order, also when several workers *)
(* and clients race in the queue, and the destructor ends only when all    *)
(* have finished.                                                          *)
PoolSpec == Pool!Spec
=============================================================================
