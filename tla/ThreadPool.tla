----------------------------- MODULE ThreadPool -----------------------------
(***************************************************************************)
(* thread::ThreadPool (thread/ThreadPool.h): worker threads that take      *)
(* tasks from a queue guarded by a mutex and sleep on a condition variable *)
(* while it is empty.                                                      *)
(*                                                                         *)
(* A step is a lock acquisition, a critical section up to the release of   *)
(* the mutex, a notification, or a task running to its end.  A condition   *)
(* variable releases the mutex and starts to wait in one step, and a       *)
(* waiting thread may wake up for no reason.                               *)
(***************************************************************************)
EXTENDS Naturals, Sequences, FiniteSets

CONSTANTS Workers,   \* the pool's threads
          Clients,   \* the other threads that call enqueue
          Owner,     \* the thread that destroys or joins the pool
          Task,      \* the tasks; each is enqueued at most once
          Endless,   \* the tasks that never return (RpcClient::Start's loop)
          Nobody,    \* no thread
          NoTask     \* no task

ASSUME ThreadsApart ==
  /\ Workers \cap Clients = {}
  /\ Owner \notin Workers \cup Clients
  /\ Nobody \notin Workers \cup Clients \cup {Owner}
ASSUME TaskAssumption == NoTask \notin Task /\ Endless \subseteq Task
\* A pool of no threads would forget its queue when it is destroyed; server.cpp
\* asks for four.
ASSUME SizeAssumption == IsFiniteSet(Workers \cup Clients) /\ Workers # {}

\* A task may itself call enqueue, so a worker can be in the middle of one.
Enqueuers == Workers \cup Clients

VARIABLES mutex,     \* the holder of queue_mutex
          tasks,     \* the queue
          stop,
          pc,        \* where each worker stands in its loop
          task,      \* its local std::function
          enq,       \* where each thread stands in enqueue
          arg,       \* the task it is enqueueing
          future,    \* future[k]: the shared state of task k's future
          owner      \* where Owner stands in ~ThreadPool or Join

workerVars == <<pc, task>>
enqueueVars == <<enq, arg>>
vars == <<mutex, tasks, stop, workerVars, enqueueVars, future, owner>>

Init ==
  /\ mutex = Nobody
  /\ tasks = << >>
  /\ stop = FALSE
  /\ pc = [w \in Workers |-> "lock"]
  /\ task = [w \in Workers |-> NoTask]
  /\ enq = [t \in Enqueuers |-> "idle"]
  /\ arg = [t \in Enqueuers |-> NoTask]
  /\ future = [k \in Task |-> "none"]
  /\ owner = "outside"

Acquire(t) == mutex = Nobody /\ mutex' = t
Release(t) == mutex = t /\ mutex' = Nobody

Asleep == {w \in Workers : pc[w] = "asleep"}

NotifyOne ==
  \/ Asleep = {} /\ UNCHANGED pc
  \/ \E w \in Asleep : pc' = [pc EXCEPT ![w] = "woken"]

NotifyAll == pc' = [w \in Workers |-> IF w \in Asleep THEN "woken" ELSE pc[w]]
-----------------------------------------------------------------------------
(* The worker's loop                                                       *)

WorkerLock(w) ==
  /\ pc[w] \in {"lock", "woken"}
  /\ Acquire(w)
  /\ pc' = [pc EXCEPT ![w] = "test"]
  /\ UNCHANGED <<tasks, stop, task, enqueueVars, future, owner>>

WorkerSleep(w) ==
  /\ pc[w] = "test"
  /\ ~stop /\ tasks = << >>
  /\ Release(w)
  /\ pc' = [pc EXCEPT ![w] = "asleep"]
  /\ UNCHANGED <<tasks, stop, task, enqueueVars, future, owner>>

SpuriousWakeup(w) ==
  /\ pc[w] = "asleep"
  /\ pc' = [pc EXCEPT ![w] = "woken"]
  /\ UNCHANGED <<mutex, tasks, stop, task, enqueueVars, future, owner>>

\* Mutant: the worker leaves as soon as it sees stop, whatever is queued.
WorkerReturnAtOnce(w) ==
  /\ pc[w] = "test"
  /\ stop
  /\ Release(w)
  /\ pc' = [pc EXCEPT ![w] = "returned"]
  /\ UNCHANGED <<tasks, stop, task, enqueueVars, future, owner>>

WorkerReturn(w) ==
  /\ pc[w] = "test"
  /\ stop /\ tasks = << >>
  /\ Release(w)
  /\ pc' = [pc EXCEPT ![w] = "returned"]
  /\ UNCHANGED <<tasks, stop, task, enqueueVars, future, owner>>

WorkerTake(w) ==
  /\ pc[w] = "test"
  /\ tasks # << >>
  /\ Release(w)
  /\ task' = [task EXCEPT ![w] = Head(tasks)]
  /\ tasks' = Tail(tasks)
  /\ pc' = [pc EXCEPT ![w] = "run"]
  /\ UNCHANGED <<stop, enqueueVars, future, owner>>

\* task() returns: the packaged_task has stored the result, or the exception,
\* in the future, so the catch clause of the loop is never entered.
WorkerFinish(w) ==
  /\ pc[w] = "run"
  /\ task[w] \notin Endless
  /\ enq[w] = "idle"
  /\ future' = [future EXCEPT ![task[w]] = "ready"]
  /\ task' = [task EXCEPT ![w] = NoTask]
  /\ pc' = [pc EXCEPT ![w] = "lock"]
  /\ UNCHANGED <<mutex, tasks, stop, enqueueVars, owner>>
-----------------------------------------------------------------------------
(* enqueue                                                                 *)

\* Outsiders may not touch the pool once its destructor has been called.
MayEnqueue(t) ==
  IF t \in Workers THEN pc[t] = "run" ELSE owner \in {"outside", "join_notify", "join_wait"}

EnqueueCall(t, k) ==
  /\ enq[t] = "idle"
  /\ MayEnqueue(t)
  /\ future[k] = "none"
  /\ future' = [future EXCEPT ![k] = "pending"]
  /\ arg' = [arg EXCEPT ![t] = k]
  /\ enq' = [enq EXCEPT ![t] = "lock"]
  /\ UNCHANGED <<mutex, tasks, stop, workerVars, owner>>

EnqueueLock(t) ==
  /\ enq[t] = "lock"
  /\ Acquire(t)
  /\ enq' = [enq EXCEPT ![t] = "push"]
  /\ UNCHANGED <<tasks, stop, workerVars, arg, future, owner>>

\* throw std::runtime_error: the future is lost with the stack frame.
EnqueueRefuse(t) ==
  /\ enq[t] = "push"
  /\ stop
  /\ Release(t)
  /\ future' = [future EXCEPT ![arg[t]] = "refused"]
  /\ enq' = [enq EXCEPT ![t] = "idle"]
  /\ UNCHANGED <<tasks, stop, workerVars, arg, owner>>

\* Mutant: the task was moved from before it is queued.
EnqueuePushMoved(t) ==
  /\ enq[t] = "push"
  /\ ~stop
  /\ Release(t)
  /\ tasks' = Append(tasks, NoTask)
  /\ enq' = [enq EXCEPT ![t] = "notify"]
  /\ UNCHANGED <<stop, workerVars, arg, future, owner>>

EnqueuePush(t) ==
  /\ enq[t] = "push"
  /\ ~stop
  /\ Release(t)
  /\ tasks' = Append(tasks, arg[t])
  /\ enq' = [enq EXCEPT ![t] = "notify"]
  /\ UNCHANGED <<stop, workerVars, arg, future, owner>>

\* Mutant: only the push into an empty queue notifies.
EnqueueNotifyFirst(t) ==
  /\ enq[t] = "notify"
  /\ IF Len(tasks) = 1 THEN NotifyOne ELSE UNCHANGED pc
  /\ enq' = [enq EXCEPT ![t] = "idle"]
  /\ UNCHANGED <<mutex, tasks, stop, task, arg, future, owner>>

EnqueueNotify(t) ==
  /\ enq[t] = "notify"
  /\ NotifyOne
  /\ enq' = [enq EXCEPT ![t] = "idle"]
  /\ UNCHANGED <<mutex, tasks, stop, task, arg, future, owner>>
-----------------------------------------------------------------------------
(* ~ThreadPool and Join                                                    *)

DestructorCall ==
  /\ owner = "outside"
  /\ \A c \in Clients : enq[c] = "idle"
  /\ owner' = "stop_lock"
  /\ UNCHANGED <<mutex, tasks, stop, workerVars, enqueueVars, future>>

DestructorLock ==
  /\ owner = "stop_lock"
  /\ Acquire(Owner)
  /\ owner' = "stop_set"
  /\ UNCHANGED <<tasks, stop, workerVars, enqueueVars, future>>

DestructorStop ==
  /\ owner = "stop_set"
  /\ stop' = TRUE
  /\ Release(Owner)
  /\ owner' = "stop_notify"
  /\ UNCHANGED <<tasks, workerVars, enqueueVars, future>>

\* Join does not set stop: that part of it is commented out.
JoinCall ==
  /\ owner = "outside"
  /\ owner' = "join_notify"
  /\ UNCHANGED <<mutex, tasks, stop, workerVars, enqueueVars, future>>

\* Mutant: one worker is told of stop, not all of them.
OwnerNotifyOne ==
  /\ owner \in {"stop_notify", "join_notify"}
  /\ NotifyOne
  /\ owner' = IF owner = "stop_notify" THEN "stop_wait" ELSE "join_wait"
  /\ UNCHANGED <<mutex, tasks, stop, task, enqueueVars, future>>

OwnerNotify ==
  /\ owner \in {"stop_notify", "join_notify"}
  /\ NotifyAll
  /\ owner' = IF owner = "stop_notify" THEN "stop_wait" ELSE "join_wait"
  /\ UNCHANGED <<mutex, tasks, stop, task, enqueueVars, future>>

OwnerJoined ==
  /\ owner \in {"stop_wait", "join_wait"}
  /\ \A w \in Workers : pc[w] = "returned"
  /\ owner' = IF owner = "stop_wait" THEN "destroyed" ELSE "outside"
  /\ UNCHANGED <<mutex, tasks, stop, workerVars, enqueueVars, future>>
-----------------------------------------------------------------------------
WorkerStep(w) ==
  WorkerLock(w) \/ WorkerSleep(w) \/ WorkerReturn(w) \/ WorkerTake(w) \/ WorkerFinish(w)

EnqueueStep(t) ==
  EnqueueLock(t) \/ EnqueueRefuse(t) \/ EnqueuePush(t) \/ EnqueueNotify(t)

OwnerStep == DestructorLock \/ DestructorStop \/ OwnerNotify \/ OwnerJoined

Next ==
  \/ \E w \in Workers : WorkerStep(w) \/ SpuriousWakeup(w)
  \/ \E t \in Enqueuers : (\E k \in Task : EnqueueCall(t, k)) \/ EnqueueStep(t)
  \/ DestructorCall \/ JoinCall \/ OwnerStep

Spec == Init /\ [][Next]_vars

\* Threads keep running and tasks outside Endless return; a thread that waits
\* for a mutex which is free again and again gets it in the end.  Nobody has to
\* call anything and nobody has to wake up for no reason.
Fairness ==
  /\ \A w \in Workers : WF_vars(WorkerStep(w)) /\ SF_vars(WorkerLock(w))
  /\ \A t \in Enqueuers : WF_vars(EnqueueStep(t)) /\ SF_vars(EnqueueLock(t))
  /\ WF_vars(OwnerStep) /\ SF_vars(DestructorLock)

FairSpec == Spec /\ Fairness
-----------------------------------------------------------------------------
TypeOK ==
  /\ mutex \in Enqueuers \cup {Owner, Nobody}
  /\ tasks \in Seq(Task)
  /\ stop \in BOOLEAN
  /\ pc \in [Workers -> {"lock", "test", "asleep", "woken", "run", "returned"}]
  /\ task \in [Workers -> Task \cup {NoTask}]
  /\ enq \in [Enqueuers -> {"idle", "lock", "push", "notify"}]
  /\ arg \in [Enqueuers -> Task \cup {NoTask}]
  /\ future \in [Task -> {"none", "pending", "ready", "refused"}]
  /\ owner \in {"outside", "stop_lock", "stop_set", "stop_notify", "stop_wait",
                "join_notify", "join_wait", "destroyed"}

(* No wakeup is lost: while a worker sleeps, every task in the queue has a *)
(* worker on its way to the queue, or a notification that is still to come.*)
NoLostWakeup ==
  Asleep # {} =>
    Len(tasks) <= Cardinality({w \in Workers : pc[w] \in {"lock", "woken", "test"}})
                    + Cardinality({t \in Enqueuers : enq[t] = "notify"})

(* Every accepted task is run to its end, also while other workers are     *)
(* held for ever by endless tasks, as long as one worker is not.           *)
EveryTaskRuns ==
  \A k \in Task \ Endless : future[k] = "pending" ~> future[k] # "pending"

(* The destructor returns unless an endless task holds a worker: every     *)
(* worker learns of stop, whether it sleeps, is about to sleep or is       *)
(* running when it is set.                                                 *)
DestructorReturns ==
  owner = "stop_lock" ~>
    owner = "destroyed" \/ \E w \in Workers : pc[w] = "run" /\ task[w] \in Endless
-----------------------------------------------------------------------------
(* The pool implements TaskPool: a task is accepted when it is pushed and  *)
(* started when it is taken from the queue.                                *)

Running(w) == IF pc[w] = "run" THEN {task[w]} ELSE {}

Pool == INSTANCE TaskPool
          WITH backlog <- tasks,
               busy    <- [w \in Workers |-> Running(w)],
               done    <- {k \in Task : future[k] = "ready"},
               refused <- {k \in Task : future[k] = "refused"},
               phase   <- IF owner = "destroyed" THEN "closed"
                          ELSE IF stop THEN "closing" ELSE "open"

(* Accepted tasks are started once and in order, a task is refused only    *)
(* after stop is set, and the destructor ends only when all have finished. *)
PoolSpec == Pool!Spec
=============================================================================
