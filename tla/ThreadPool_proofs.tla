-------------------------- MODULE ThreadPool_proofs --------------------------
(***************************************************************************)
(* Proofs about ThreadPool for every number of workers, clients and tasks: *)
(* type correctness, the absence of lost wakeups, and that the pool        *)
(* implements TaskPool.                                                    *)
(***************************************************************************)
EXTENDS ThreadPool, FiniteSetTheorems, TLAPS

(***************************************************************************)
(* The inductive invariant.                                                *)
(***************************************************************************)
\* A worker holds a task while it runs one, and calls enqueue only from there;
\* a thread in enqueue has a task in its hands.
TasksInHand ==
  /\ \A w \in Workers : IF pc[w] = "run" THEN task[w] \in Task ELSE enq[w] = "idle"
  /\ \A t \in Enqueuers : enq[t] # "idle" => arg[t] \in Task

\* stop is set by the destructor and never taken back; workers that return have
\* seen it, with nothing left in the queue; nobody else enqueues meanwhile.
Closing ==
  /\ stop <=> owner \in {"stop_notify", "stop_wait", "destroyed"}
  /\ owner \notin {"outside", "join_notify", "join_wait"} => \A c \in Clients : enq[c] = "idle"
  /\ \A w \in Workers : pc[w] = "returned" => stop /\ tasks = << >>
  /\ owner = "destroyed" => \A w \in Workers : pc[w] = "returned"

\* Thread t is in enqueue and its task is not in the queue yet.
Offering(t) == enq[t] \in {"lock", "push"}

\* A task whose future waits is being offered, queued or running, in one place
\* only.
OncePerTask ==
  /\ \A t \in Enqueuers : Offering(t) =>
       /\ future[arg[t]] = "pending"
       /\ \A i \in 1 .. Len(tasks) : tasks[i] # arg[t]
       /\ \A w \in Workers : pc[w] = "run" => task[w] # arg[t]
       /\ \A u \in Enqueuers : u # t /\ Offering(u) => arg[u] # arg[t]
  /\ \A i \in 1 .. Len(tasks) :
       /\ future[tasks[i]] = "pending"
       /\ \A j \in 1 .. Len(tasks) : i # j => tasks[i] # tasks[j]
       /\ \A w \in Workers : pc[w] = "run" => task[w] # tasks[i]
  /\ \A w \in Workers : pc[w] = "run" =>
       /\ future[task[w]] = "pending"
       /\ \A v \in Workers : v # w /\ pc[v] = "run" => task[v] # task[w]

\* Once the destructor has notified the workers, none of them sleeps.
NobodySleepsOn == owner \in {"stop_wait", "destroyed"} => Asleep = {}

IInv ==
  /\ TypeOK
  /\ TasksInHand
  /\ Closing
  /\ OncePerTask
  /\ NobodySleepsOn
  /\ NoLostWakeup

(***************************************************************************)
(* Type correctness.                                                       *)
(***************************************************************************)
\* What a notification does to the workers.
LEMMA NotifyOnePc ==
  ASSUME TypeOK, NotifyOne
  PROVE  \/ UNCHANGED pc /\ Asleep = {}
         \/ \E w \in Workers : pc[w] = "asleep" /\ pc' = [pc EXCEPT ![w] = "woken"]
BY DEF NotifyOne, Asleep

LEMMA TypeInit == Init => TypeOK
<1> SUFFICES ASSUME Init PROVE TypeOK
  OBVIOUS
<1>1. tasks \in Seq(Task)
  BY DEF Init
<1> QED BY <1>1 DEF Init, TypeOK

LEMMA TypeStep == TypeOK /\ TasksInHand /\ [Next]_vars => TypeOK'
<1> SUFFICES ASSUME TypeOK, TasksInHand, [Next]_vars PROVE TypeOK'
  OBVIOUS
<1> USE DEF TypeOK, Acquire, Release
<1>1. ASSUME NEW w \in Workers, WorkerLock(w) PROVE TypeOK'
  BY <1>1 DEF WorkerLock, enqueueVars, Enqueuers, TasksInHand
<1>2. ASSUME NEW w \in Workers, WorkerSleep(w) PROVE TypeOK'
  BY <1>2 DEF WorkerSleep, enqueueVars, Enqueuers, TasksInHand
<1>3. ASSUME NEW w \in Workers, WorkerReturn(w) PROVE TypeOK'
  BY <1>3 DEF WorkerReturn, enqueueVars, Enqueuers, TasksInHand
<1>4. ASSUME NEW w \in Workers, WorkerTake(w) PROVE TypeOK'
  BY <1>4 DEF WorkerTake, enqueueVars, Enqueuers, TasksInHand
<1>5. ASSUME NEW w \in Workers, WorkerFinish(w) PROVE TypeOK'
  BY <1>5 DEF WorkerFinish, enqueueVars, Enqueuers, TasksInHand
<1>6. ASSUME NEW w \in Workers, SpuriousWakeup(w) PROVE TypeOK'
  BY <1>6 DEF SpuriousWakeup, enqueueVars, Enqueuers, TasksInHand
<1>7. ASSUME NEW t \in Enqueuers, NEW k \in Task, EnqueueCall(t, k) PROVE TypeOK'
  BY <1>7 DEF EnqueueCall, workerVars
<1>8. ASSUME NEW t \in Enqueuers, EnqueueLock(t) PROVE TypeOK'
  BY <1>8 DEF EnqueueLock, workerVars, TasksInHand
<1>9. ASSUME NEW t \in Enqueuers, EnqueueRefuse(t) PROVE TypeOK'
  BY <1>9 DEF EnqueueRefuse, workerVars, TasksInHand
<1>10. ASSUME NEW t \in Enqueuers, EnqueuePush(t) PROVE TypeOK'
  BY <1>10 DEF EnqueuePush, workerVars, TasksInHand
<1>11. ASSUME NEW t \in Enqueuers, EnqueueNotify(t) PROVE TypeOK'
  BY <1>11, NotifyOnePc DEF EnqueueNotify
<1>12. CASE DestructorCall
  BY <1>12 DEF DestructorCall, workerVars, enqueueVars
<1>13. CASE JoinCall
  BY <1>13 DEF JoinCall, workerVars, enqueueVars
<1>14. CASE DestructorLock
  BY <1>14 DEF DestructorLock, workerVars, enqueueVars
<1>15. CASE DestructorStop
  BY <1>15 DEF DestructorStop, workerVars, enqueueVars
<1>16. CASE OwnerJoined
  BY <1>16 DEF OwnerJoined, workerVars, enqueueVars
<1>17. CASE OwnerNotify
  BY <1>17 DEF OwnerNotify, NotifyAll, enqueueVars
<1>18. CASE UNCHANGED vars
  BY <1>18 DEF vars, workerVars, enqueueVars
<1> QED
  BY <1>1, <1>2, <1>3, <1>4, <1>5, <1>6, <1>7, <1>8, <1>9, <1>10, <1>11, <1>12, <1>13, <1>14, <1>15, <1>16, <1>17, <1>18
  DEF Next, WorkerStep, EnqueueStep, OwnerStep

(***************************************************************************)
(* The invariant is kept, one part after the other.                        *)
(***************************************************************************)
LEMMA IInvInit == Init => IInv
<1> SUFFICES ASSUME Init PROVE IInv
  OBVIOUS
<1>1. TypeOK
  BY TypeInit
<1>2. TasksInHand /\ Closing /\ OncePerTask /\ NobodySleepsOn
  BY ThreadsApart DEF Init, TasksInHand, Closing, OncePerTask, Offering, NobodySleepsOn, Enqueuers
<1>3. NoLostWakeup
  BY DEF Init, NoLostWakeup, Asleep
<1> QED BY <1>1, <1>2, <1>3 DEF IInv

LEMMA TasksInHandStep == IInv /\ [Next]_vars => TasksInHand'
<1> SUFFICES ASSUME IInv, [Next]_vars PROVE TasksInHand'
  OBVIOUS
<1> USE ThreadsApart DEF IInv, TasksInHand, TypeOK, Acquire, Release, Enqueuers
<1>1. ASSUME NEW w \in Workers, WorkerLock(w) PROVE TasksInHand'
  BY <1>1 DEF WorkerLock, enqueueVars
<1>2. ASSUME NEW w \in Workers, WorkerSleep(w) PROVE TasksInHand'
  BY <1>2 DEF WorkerSleep, enqueueVars
<1>3. ASSUME NEW w \in Workers, WorkerReturn(w) PROVE TasksInHand'
  BY <1>3 DEF WorkerReturn, enqueueVars
<1>4. ASSUME NEW w \in Workers, WorkerTake(w) PROVE TasksInHand'
  BY <1>4 DEF WorkerTake, enqueueVars
<1>5. ASSUME NEW w \in Workers, WorkerFinish(w) PROVE TasksInHand'
  BY <1>5 DEF WorkerFinish, enqueueVars
<1>6. ASSUME NEW w \in Workers, SpuriousWakeup(w) PROVE TasksInHand'
  BY <1>6 DEF SpuriousWakeup, enqueueVars
<1>7. ASSUME NEW t \in Enqueuers, NEW k \in Task, EnqueueCall(t, k) PROVE TasksInHand'
  BY <1>7 DEF EnqueueCall, workerVars, MayEnqueue
<1>8. ASSUME NEW t \in Enqueuers, EnqueueLock(t) PROVE TasksInHand'
  BY <1>8 DEF EnqueueLock, workerVars
<1>9. ASSUME NEW t \in Enqueuers, EnqueueRefuse(t) PROVE TasksInHand'
  BY <1>9 DEF EnqueueRefuse, workerVars
<1>10. ASSUME NEW t \in Enqueuers, EnqueuePush(t) PROVE TasksInHand'
  BY <1>10 DEF EnqueuePush, workerVars
<1>11. ASSUME NEW t \in Enqueuers, EnqueueNotify(t) PROVE TasksInHand'
  BY <1>11, NotifyOnePc DEF EnqueueNotify, workerVars
<1>12. CASE DestructorCall
  BY <1>12 DEF DestructorCall, workerVars, enqueueVars
<1>13. CASE JoinCall
  BY <1>13 DEF JoinCall, workerVars, enqueueVars
<1>14. CASE DestructorLock
  BY <1>14 DEF DestructorLock, workerVars, enqueueVars
<1>15. CASE DestructorStop
  BY <1>15 DEF DestructorStop, workerVars, enqueueVars
<1>16. CASE OwnerNotify
  BY <1>16 DEF OwnerNotify, NotifyAll, Asleep, workerVars, enqueueVars
<1>17. CASE OwnerJoined
  BY <1>17 DEF OwnerJoined, workerVars, enqueueVars
<1>18. CASE UNCHANGED vars
  BY <1>18 DEF vars, workerVars, enqueueVars
<1> QED
  BY <1>1, <1>2, <1>3, <1>4, <1>5, <1>6, <1>7, <1>8, <1>9, <1>10, <1>11, <1>12, <1>13, <1>14, <1>15, <1>16, <1>17, <1>18
  DEF Next, WorkerStep, EnqueueStep, OwnerStep

LEMMA ClosingStep == IInv /\ [Next]_vars => Closing'
<1> SUFFICES ASSUME IInv, [Next]_vars PROVE Closing'
  OBVIOUS
<1> USE ThreadsApart DEF IInv, TasksInHand, Closing, TypeOK, Acquire, Release, Enqueuers
<1>1. ASSUME NEW w \in Workers, WorkerLock(w) PROVE Closing'
  BY <1>1 DEF WorkerLock, enqueueVars
<1>2. ASSUME NEW w \in Workers, WorkerSleep(w) PROVE Closing'
  BY <1>2 DEF WorkerSleep, enqueueVars
<1>3. ASSUME NEW w \in Workers, WorkerReturn(w) PROVE Closing'
  BY <1>3 DEF WorkerReturn, enqueueVars
<1>4. ASSUME NEW w \in Workers, WorkerTake(w) PROVE Closing'
  BY <1>4 DEF WorkerTake, enqueueVars
<1>5. ASSUME NEW w \in Workers, WorkerFinish(w) PROVE Closing'
  BY <1>5 DEF WorkerFinish, enqueueVars
<1>6. ASSUME NEW w \in Workers, SpuriousWakeup(w) PROVE Closing'
  BY <1>6 DEF SpuriousWakeup, enqueueVars
<1>7. ASSUME NEW t \in Enqueuers, NEW k \in Task, EnqueueCall(t, k) PROVE Closing'
  BY <1>7 DEF EnqueueCall, workerVars, MayEnqueue
<1>8. ASSUME NEW t \in Enqueuers, EnqueueLock(t) PROVE Closing'
  BY <1>8 DEF EnqueueLock, workerVars
<1>9. ASSUME NEW t \in Enqueuers, EnqueueRefuse(t) PROVE Closing'
  BY <1>9 DEF EnqueueRefuse, workerVars
<1>10. ASSUME NEW t \in Enqueuers, EnqueuePush(t) PROVE Closing'
  BY <1>10 DEF EnqueuePush, workerVars
<1>11. ASSUME NEW t \in Enqueuers, EnqueueNotify(t) PROVE Closing'
  BY <1>11, NotifyOnePc DEF EnqueueNotify, workerVars
<1>12. CASE DestructorCall
  BY <1>12 DEF DestructorCall, workerVars, enqueueVars
<1>13. CASE JoinCall
  BY <1>13 DEF JoinCall, workerVars, enqueueVars
<1>14. CASE DestructorLock
  BY <1>14 DEF DestructorLock, workerVars, enqueueVars
<1>15. CASE DestructorStop
  BY <1>15 DEF DestructorStop, workerVars, enqueueVars
<1>16. CASE OwnerNotify
  BY <1>16 DEF OwnerNotify, NotifyAll, Asleep, workerVars, enqueueVars
<1>17. CASE OwnerJoined
  BY <1>17 DEF OwnerJoined, workerVars, enqueueVars
<1>18. CASE UNCHANGED vars
  BY <1>18 DEF vars, workerVars, enqueueVars
<1> QED
  BY <1>1, <1>2, <1>3, <1>4, <1>5, <1>6, <1>7, <1>8, <1>9, <1>10, <1>11, <1>12, <1>13, <1>14, <1>15, <1>16, <1>17, <1>18
  DEF Next, WorkerStep, EnqueueStep, OwnerStep

LEMMA SleepStep == IInv /\ [Next]_vars => NobodySleepsOn'
<1> SUFFICES ASSUME IInv, [Next]_vars PROVE NobodySleepsOn'
  OBVIOUS
<1> USE ThreadsApart DEF IInv, NobodySleepsOn, Asleep, Closing, TypeOK, Acquire, Release, Enqueuers
<1>1. ASSUME NEW w \in Workers, WorkerLock(w) PROVE NobodySleepsOn'
  BY <1>1 DEF WorkerLock, enqueueVars
<1>2. ASSUME NEW w \in Workers, WorkerSleep(w) PROVE NobodySleepsOn'
  BY <1>2 DEF WorkerSleep, enqueueVars
<1>3. ASSUME NEW w \in Workers, WorkerReturn(w) PROVE NobodySleepsOn'
  BY <1>3 DEF WorkerReturn, enqueueVars
<1>4. ASSUME NEW w \in Workers, WorkerTake(w) PROVE NobodySleepsOn'
  BY <1>4 DEF WorkerTake, enqueueVars
<1>5. ASSUME NEW w \in Workers, WorkerFinish(w) PROVE NobodySleepsOn'
  BY <1>5 DEF WorkerFinish, enqueueVars
<1>6. ASSUME NEW w \in Workers, SpuriousWakeup(w) PROVE NobodySleepsOn'
  BY <1>6 DEF SpuriousWakeup, enqueueVars
<1>7. ASSUME NEW t \in Enqueuers, NEW k \in Task, EnqueueCall(t, k) PROVE NobodySleepsOn'
  BY <1>7 DEF EnqueueCall, workerVars, MayEnqueue
<1>8. ASSUME NEW t \in Enqueuers, EnqueueLock(t) PROVE NobodySleepsOn'
  BY <1>8 DEF EnqueueLock, workerVars
<1>9. ASSUME NEW t \in Enqueuers, EnqueueRefuse(t) PROVE NobodySleepsOn'
  BY <1>9 DEF EnqueueRefuse, workerVars
<1>10. ASSUME NEW t \in Enqueuers, EnqueuePush(t) PROVE NobodySleepsOn'
  BY <1>10 DEF EnqueuePush, workerVars
<1>11. ASSUME NEW t \in Enqueuers, EnqueueNotify(t) PROVE NobodySleepsOn'
  BY <1>11, NotifyOnePc DEF EnqueueNotify, workerVars
<1>12. CASE DestructorCall
  BY <1>12 DEF DestructorCall, workerVars, enqueueVars
<1>13. CASE JoinCall
  BY <1>13 DEF JoinCall, workerVars, enqueueVars
<1>14. CASE DestructorLock
  BY <1>14 DEF DestructorLock, workerVars, enqueueVars
<1>15. CASE DestructorStop
  BY <1>15 DEF DestructorStop, workerVars, enqueueVars
<1>16. CASE OwnerNotify
  BY <1>16 DEF OwnerNotify, NotifyAll, Asleep, workerVars, enqueueVars
<1>17. CASE OwnerJoined
  BY <1>17 DEF OwnerJoined, workerVars, enqueueVars
<1>18. CASE UNCHANGED vars
  BY <1>18 DEF vars, workerVars, enqueueVars
<1> QED
  BY <1>1, <1>2, <1>3, <1>4, <1>5, <1>6, <1>7, <1>8, <1>9, <1>10, <1>11, <1>12, <1>13, <1>14, <1>15, <1>16, <1>17, <1>18
  DEF Next, WorkerStep, EnqueueStep, OwnerStep

LEMMA OncePerTaskStep == IInv /\ [Next]_vars => OncePerTask'
<1> SUFFICES ASSUME IInv, [Next]_vars PROVE OncePerTask'
  OBVIOUS
<1> USE ThreadsApart DEF IInv, OncePerTask, Offering, TasksInHand, TypeOK, Acquire, Release, Enqueuers
<1>1. ASSUME NEW w \in Workers, WorkerLock(w) PROVE OncePerTask'
  BY <1>1 DEF WorkerLock, enqueueVars
<1>2. ASSUME NEW w \in Workers, WorkerSleep(w) PROVE OncePerTask'
  BY <1>2 DEF WorkerSleep, enqueueVars
<1>3. ASSUME NEW w \in Workers, WorkerReturn(w) PROVE OncePerTask'
  BY <1>3 DEF WorkerReturn, enqueueVars
<1>4. ASSUME NEW w \in Workers, WorkerTake(w) PROVE OncePerTask'
  BY <1>4 DEF WorkerTake, enqueueVars
<1>5. ASSUME NEW w \in Workers, WorkerFinish(w) PROVE OncePerTask'
  BY <1>5 DEF WorkerFinish, enqueueVars
<1>6. ASSUME NEW w \in Workers, SpuriousWakeup(w) PROVE OncePerTask'
  BY <1>6 DEF SpuriousWakeup, enqueueVars
<1>7. ASSUME NEW t \in Enqueuers, NEW k \in Task, EnqueueCall(t, k) PROVE OncePerTask'
  BY <1>7 DEF EnqueueCall, workerVars, MayEnqueue
<1>8. ASSUME NEW t \in Enqueuers, EnqueueLock(t) PROVE OncePerTask'
  BY <1>8 DEF EnqueueLock, workerVars
<1>9. ASSUME NEW t \in Enqueuers, EnqueueRefuse(t) PROVE OncePerTask'
  BY <1>9 DEF EnqueueRefuse, workerVars
<1>10. ASSUME NEW t \in Enqueuers, EnqueuePush(t) PROVE OncePerTask'
  BY <1>10 DEF EnqueuePush, workerVars
<1>11. ASSUME NEW t \in Enqueuers, EnqueueNotify(t) PROVE OncePerTask'
  BY <1>11, NotifyOnePc DEF EnqueueNotify, workerVars
<1>12. CASE DestructorCall
  BY <1>12 DEF DestructorCall, workerVars, enqueueVars
<1>13. CASE JoinCall
  BY <1>13 DEF JoinCall, workerVars, enqueueVars
<1>14. CASE DestructorLock
  BY <1>14 DEF DestructorLock, workerVars, enqueueVars
<1>15. CASE DestructorStop
  BY <1>15 DEF DestructorStop, workerVars, enqueueVars
<1>16. CASE OwnerNotify
  BY <1>16 DEF OwnerNotify, NotifyAll, Asleep, workerVars, enqueueVars
<1>17. CASE OwnerJoined
  BY <1>17 DEF OwnerJoined, workerVars, enqueueVars
<1>18. CASE UNCHANGED vars
  BY <1>18 DEF vars, workerVars, enqueueVars
<1> QED
  BY <1>1, <1>2, <1>3, <1>4, <1>5, <1>6, <1>7, <1>8, <1>9, <1>10, <1>11, <1>12, <1>13, <1>14, <1>15, <1>16, <1>17, <1>18
  DEF Next, WorkerStep, EnqueueStep, OwnerStep

(***************************************************************************)
(* No wakeup is lost.  A task in the queue is matched by a worker on its   *)
(* way or by a notification to come.                                       *)
(***************************************************************************)
Awake == {w \in Workers : pc[w] \in {"lock", "woken", "test"}}
Notifying == {t \in Enqueuers : enq[t] = "notify"}

LEMMA FiniteThreads ==
  /\ IsFiniteSet(Awake) /\ IsFiniteSet(Notifying)
  /\ Cardinality(Awake) \in Nat /\ Cardinality(Notifying) \in Nat
<1>1. IsFiniteSet(Awake) /\ IsFiniteSet(Notifying)
  BY SizeAssumption, FS_Subset DEF Awake, Notifying, Enqueuers
<1> QED BY <1>1, FS_CardinalityType

LEMMA WakeupStep == IInv /\ [Next]_vars => NoLostWakeup'
<1> SUFFICES ASSUME IInv, [Next]_vars, Asleep' # {}
             PROVE  Len(tasks)' <= Cardinality(Awake)' + Cardinality(Notifying)'
  BY DEF NoLostWakeup, Awake, Notifying
<1> USE ThreadsApart DEF IInv, TypeOK, Acquire, Release, Enqueuers
<1>1. Asleep # {} => Len(tasks) <= Cardinality(Awake) + Cardinality(Notifying)
  BY DEF NoLostWakeup, Awake, Notifying
<1>2. Len(tasks) \in Nat /\ Len(tasks)' \in Nat
  BY TypeStep
<1>3. /\ IsFiniteSet(Awake) /\ IsFiniteSet(Notifying)
      /\ Cardinality(Awake) \in Nat /\ Cardinality(Notifying) \in Nat
      /\ IsFiniteSet(Awake') /\ IsFiniteSet(Notifying')
      /\ Cardinality(Awake)' \in Nat /\ Cardinality(Notifying)' \in Nat
  <2>1. IsFiniteSet(Awake') /\ IsFiniteSet(Notifying')
    BY SizeAssumption, FS_Subset DEF Awake, Notifying
  <2> QED BY <2>1, FiniteThreads, FS_CardinalityType
\* One more or one less of each.
<1>4. \A w \in Workers : w \notin Awake => Cardinality(Awake \cup {w}) = Cardinality(Awake) + 1
  BY <1>3, FS_AddElement
<1>5. \A w \in Awake : Cardinality(Awake \ {w}) = Cardinality(Awake) - 1
  BY <1>3, FS_RemoveElement
<1>6. \A t \in Enqueuers : t \notin Notifying =>
        Cardinality(Notifying \cup {t}) = Cardinality(Notifying) + 1
  BY <1>3, FS_AddElement
<1>7. \A t \in Notifying : Cardinality(Notifying \ {t}) = Cardinality(Notifying) - 1
  BY <1>3, FS_RemoveElement
\* Steps that change none of the three.
<1>8. CASE Awake' = Awake /\ Notifying' = Notifying /\ tasks' = tasks /\ Asleep' = Asleep
  BY <1>1, <1>8
<1>9. ASSUME NEW w \in Workers, WorkerLock(w) PROVE Awake' = Awake /\ Asleep' = Asleep
  BY <1>9 DEF WorkerLock, Awake, Asleep
<1>10. ASSUME NEW w \in Workers, WorkerSleep(w) \/ WorkerReturn(w) PROVE Len(tasks)' = 0
  BY <1>10 DEF WorkerSleep, WorkerReturn
<1>11. ASSUME NEW w \in Workers, WorkerTake(w)
       PROVE  /\ w \in Awake /\ Awake' = Awake \ {w} /\ Asleep' = Asleep
              /\ Len(tasks)' = Len(tasks) - 1 /\ Notifying' = Notifying
  <2>1. Len(tasks)' = Len(tasks) - 1
    BY <1>11 DEF WorkerTake
  <2> QED BY <1>11, <2>1 DEF WorkerTake, Awake, Asleep, Notifying, enqueueVars
<1>12. ASSUME NEW w \in Workers, WorkerFinish(w) \/ SpuriousWakeup(w)
       PROVE  /\ w \notin Awake /\ Awake' = Awake \cup {w} /\ Asleep' \subseteq Asleep
              /\ tasks' = tasks /\ Notifying' = Notifying
  BY <1>12 DEF WorkerFinish, SpuriousWakeup, Awake, Asleep, Notifying, enqueueVars
<1>13. ASSUME NEW t \in Enqueuers,
              (\E k \in Task : EnqueueCall(t, k)) \/ EnqueueLock(t) \/ EnqueueRefuse(t)
       PROVE  Awake' = Awake /\ Asleep' = Asleep /\ tasks' = tasks /\ Notifying' = Notifying
  BY <1>13 DEF EnqueueCall, EnqueueLock, EnqueueRefuse, Awake, Asleep, Notifying, workerVars
<1>14. ASSUME NEW t \in Enqueuers, EnqueuePush(t)
       PROVE  /\ t \notin Notifying /\ Notifying' = Notifying \cup {t}
              /\ Len(tasks)' = Len(tasks) + 1 /\ Awake' = Awake /\ Asleep' = Asleep
  <2>1. Len(tasks)' = Len(tasks) + 1
    BY <1>14 DEF EnqueuePush, TasksInHand
  <2> QED BY <1>14, <2>1 DEF EnqueuePush, Awake, Asleep, Notifying, workerVars
<1>15. ASSUME NEW t \in Enqueuers, EnqueueNotify(t)
       PROVE  /\ t \in Notifying /\ Notifying' = Notifying \ {t} /\ tasks' = tasks
              /\ \E w \in Asleep : w \notin Awake /\ Awake' = Awake \cup {w}
  <2>1. t \in Notifying /\ Notifying' = Notifying \ {t} /\ tasks' = tasks
    BY <1>15 DEF EnqueueNotify, Notifying
  <2>2. ~(UNCHANGED pc /\ Asleep = {})
    BY DEF Asleep
  <2>3. PICK w \in Workers : pc[w] = "asleep" /\ pc' = [pc EXCEPT ![w] = "woken"]
    BY <1>15, <2>2, NotifyOnePc DEF EnqueueNotify
  <2> QED BY <2>1, <2>3 DEF Awake, Asleep
<1>16. ~OwnerNotify
  BY DEF OwnerNotify, NotifyAll, Asleep
<1>17. ASSUME \/ DestructorCall \/ JoinCall \/ DestructorLock \/ DestructorStop \/ OwnerJoined
              \/ UNCHANGED vars
       PROVE  Awake' = Awake /\ Asleep' = Asleep /\ tasks' = tasks /\ Notifying' = Notifying
  BY <1>17 DEF DestructorCall, JoinCall, DestructorLock, DestructorStop, OwnerJoined, vars,
               Awake, Asleep, Notifying, workerVars, enqueueVars
<1> HIDE DEF Awake, Notifying, Asleep
<1>18. ASSUME NEW w \in Workers, WorkerStep(w) \/ SpuriousWakeup(w)
       PROVE  Len(tasks)' <= Cardinality(Awake)' + Cardinality(Notifying)'
  <2>1. CASE WorkerLock(w)
    <3>1. tasks' = tasks /\ Notifying' = Notifying
      BY <2>1 DEF WorkerLock, Notifying, enqueueVars
    <3> QED BY <1>8, <1>9, <2>1, <3>1
  <2>2. CASE WorkerSleep(w) \/ WorkerReturn(w)
    BY <1>3, <1>10, <2>2
  <2>3. CASE WorkerTake(w)
    BY <1>1, <1>2, <1>3, <1>5, <1>11, <2>3
  <2>4. CASE WorkerFinish(w) \/ SpuriousWakeup(w)
    BY <1>1, <1>2, <1>3, <1>4, <1>12, <2>4
  <2> QED BY <1>18, <2>1, <2>2, <2>3, <2>4 DEF WorkerStep
<1>19. ASSUME NEW t \in Enqueuers, (\E k \in Task : EnqueueCall(t, k)) \/ EnqueueStep(t)
       PROVE  Len(tasks)' <= Cardinality(Awake)' + Cardinality(Notifying)'
  <2>1. CASE (\E k \in Task : EnqueueCall(t, k)) \/ EnqueueLock(t) \/ EnqueueRefuse(t)
    BY <1>8, <1>13, <2>1
  <2>2. CASE EnqueuePush(t)
    BY <1>1, <1>2, <1>3, <1>6, <1>14, <2>2
  <2>3. CASE EnqueueNotify(t)
    <3>1. PICK w \in Asleep : w \notin Awake /\ Awake' = Awake \cup {w}
      BY <1>15, <2>3
    <3>2. w \in Workers
      BY DEF Asleep
    <3> QED BY <1>1, <1>2, <1>3, <1>4, <1>7, <1>15, <2>3, <3>1, <3>2
  <2> QED BY <1>19, <2>1, <2>2, <2>3 DEF EnqueueStep
<1> QED BY <1>8, <1>16, <1>17, <1>18, <1>19 DEF Next, OwnerStep

LEMMA IInvStep == IInv /\ [Next]_vars => IInv'
<1> SUFFICES ASSUME IInv, [Next]_vars PROVE IInv'
  OBVIOUS
<1>1. TypeOK'
  BY TypeStep DEF IInv
<1> QED
  BY <1>1, TasksInHandStep, ClosingStep, SleepStep, OncePerTaskStep, WakeupStep DEF IInv

THEOREM Inductive == Spec => []IInv
BY IInvInit, IInvStep, PTL DEF Spec

(* Every variable keeps its type.                                          *)
THEOREM TypeCorrect == Spec => []TypeOK
<1>1. IInv => TypeOK
  BY DEF IInv
<1> QED BY <1>1, Inductive, PTL

(* However workers, enqueuers, spurious wakeups and the destructor         *)
(* interleave, while a worker sleeps there is for every task in the queue  *)
(* a worker on its way to the queue or a notification still to come.       *)
THEOREM WakeupsKept == Spec => []NoLostWakeup
<1>1. IInv => NoLostWakeup
  BY DEF IInv
<1> QED BY <1>1, Inductive, PTL

(* The destructor's notification reaches every worker: none sleeps, and    *)
(* none goes to sleep, once it waits for them.                             *)
THEOREM AllLearnOfStop == Spec => []NobodySleepsOn
<1>1. IInv => NobodySleepsOn
  BY DEF IInv
<1> QED BY <1>1, Inductive, PTL

(***************************************************************************)
(* The pool implements TaskPool.                                           *)
(***************************************************************************)
Busy == [w \in Workers |-> Running(w)]
Done == {k \in Task : future[k] = "ready"}
Refused == {k \in Task : future[k] = "refused"}
Phase == IF owner = "destroyed" THEN "closed" ELSE IF stop THEN "closing" ELSE "open"

LEMMA RefinementInit == Init => Pool!Init
BY DEF Init, Pool!Init, Running

\* A step that leaves all of these alone is none of TaskPool's.
LEMMA Stutter ==
  ASSUME tasks' = tasks, Busy' = Busy, Done' = Done, Refused' = Refused, Phase' = Phase
  PROVE  UNCHANGED Pool!vars
BY DEF Pool!vars, Busy, Done, Refused, Phase

\* A task that is being offered is new to TaskPool.
LEMMA OfferedIsNew ==
  ASSUME IInv, NEW t \in Enqueuers, Offering(t)
  PROVE  arg[t] \notin Pool!Accepted \cup Refused
<1> DEFINE Queued == {tasks[i] : i \in 1 .. Len(tasks)}
           Held == UNION {Busy[w] : w \in Workers}
<1>1. arg[t] \notin Queued
  BY DEF IInv, OncePerTask
<1>2. arg[t] \notin Held
  BY DEF Busy, Running, IInv, OncePerTask
<1>3. arg[t] \notin Done /\ arg[t] \notin Refused
  BY DEF Done, Refused, IInv, OncePerTask
<1>4. Pool!Accepted = Queued \cup Held \cup Done
  BY DEF Pool!Accepted, Busy, Done
<1> HIDE DEF Queued, Held
<1> QED BY <1>1, <1>2, <1>3, <1>4

LEMMA PushAccepts ==
  ASSUME IInv, NEW t \in Enqueuers, EnqueuePush(t)
  PROVE  Pool!Accept(arg[t])
<1> USE DEF IInv, TypeOK, EnqueuePush, Enqueuers, workerVars
<1>1. arg[t] \notin Pool!Accepted \cup Refused
  BY OfferedIsNew DEF Offering
<1>2. Phase = "open" /\ Phase' = Phase
  BY DEF Phase, Closing
<1>3. Busy' = Busy /\ Done' = Done /\ Refused' = Refused
  BY DEF Busy, Running, Done, Refused
<1> QED BY <1>1, <1>2, <1>3 DEF Pool!Accept, Busy, Done, Refused, Phase

LEMMA RefuseRefuses ==
  ASSUME IInv, NEW t \in Enqueuers, EnqueueRefuse(t), NEW k \in Task, k = arg[t]
  PROVE  Pool!Refuse(k)
<1> USE DEF IInv, TypeOK, EnqueueRefuse, Enqueuers, workerVars
<1>1. future[k] = "pending"
  BY DEF OncePerTask, Offering
<1>2. k \notin Pool!Accepted \cup Refused
  BY OfferedIsNew DEF Offering
<1>3. Phase = "closing" /\ Phase' = Phase
  <2>1. owner # "destroyed"
    BY DEF Closing, TasksInHand
  <2> QED BY <2>1 DEF Phase
<1>4. Busy' = Busy /\ Done' = Done /\ Refused' = Refused \cup {k}
  BY <1>1 DEF Busy, Running, Done, Refused
<1> QED BY <1>2, <1>3, <1>4 DEF Pool!Refuse, Busy, Done, Refused, Phase

LEMMA TakeStarts ==
  ASSUME IInv, NEW w \in Workers, WorkerTake(w)
  PROVE  Pool!Start(w)
<1> USE DEF IInv, TypeOK, WorkerTake, enqueueVars
<1>1. Busy[w] = {} /\ Busy' = [Busy EXCEPT ![w] = {Head(tasks)}]
  BY DEF Busy, Running
<1>2. Done' = Done /\ Refused' = Refused /\ Phase' = Phase
  BY DEF Done, Refused, Phase
<1> QED BY <1>1, <1>2 DEF Pool!Start, Busy, Done, Refused, Phase

LEMMA FinishFinishes ==
  ASSUME IInv, NEW w \in Workers, WorkerFinish(w)
  PROVE  Pool!Finish(w)
<1> USE DEF IInv, TypeOK, WorkerFinish, enqueueVars
<1>1. Busy[w] = {task[w]} /\ Busy' = [Busy EXCEPT ![w] = {}]
  BY DEF Busy, Running
<1>2. Done' = Done \cup Busy[w] /\ Phase' = Phase
  BY <1>1 DEF Done, Phase, TasksInHand
<1>3. Refused' = Refused
  BY DEF Refused, OncePerTask, TasksInHand
<1> QED BY <1>1, <1>2, <1>3 DEF Pool!Finish, Busy, Done, Refused, Phase

LEMMA JoinedCloses ==
  ASSUME IInv, OwnerJoined, owner = "stop_wait"
  PROVE  Pool!Closed
<1> USE DEF IInv, OwnerJoined, workerVars, enqueueVars
<1>1. Phase = "closing" /\ Phase' = "closed"
  BY DEF Phase, Closing
<1>2. tasks = << >>
  BY SizeAssumption DEF Closing
<1>3. \A w \in Workers : Busy[w] = {}
  BY DEF Busy, Running
<1>4. Busy' = Busy /\ Done' = Done /\ Refused' = Refused
  BY DEF Busy, Running, Done, Refused
<1> QED BY <1>1, <1>2, <1>3, <1>4 DEF Pool!Closed, Busy, Done, Refused, Phase

LEMMA StopCloses ==
  ASSUME IInv, DestructorStop
  PROVE  Pool!Close
<1> USE DEF IInv, DestructorStop, workerVars, enqueueVars
<1>1. Phase = "open" /\ Phase' = "closing"
  BY DEF Phase, Closing
<1>2. Busy' = Busy /\ Done' = Done /\ Refused' = Refused
  BY DEF Busy, Running, Done, Refused
<1> QED BY <1>1, <1>2 DEF Pool!Close, Busy, Done, Refused, Phase

LEMMA RefinementStep == IInv /\ [Next]_vars => [Pool!Next]_Pool!vars
<1> SUFFICES ASSUME IInv, [Next]_vars PROVE Pool!Next \/ UNCHANGED Pool!vars
  OBVIOUS
<1> USE DEF IInv, TypeOK
<1>1. ASSUME NEW w \in Workers, WorkerStep(w) \/ SpuriousWakeup(w)
      PROVE  Pool!Next \/ UNCHANGED Pool!vars
  <2>1. CASE WorkerTake(w)
    BY <2>1, TakeStarts DEF Pool!Next
  <2>2. CASE WorkerFinish(w)
    BY <2>2, FinishFinishes DEF Pool!Next
  <2>3. CASE WorkerLock(w) \/ WorkerSleep(w) \/ WorkerReturn(w) \/ SpuriousWakeup(w)
    <3>1. tasks' = tasks /\ future' = future /\ owner' = owner /\ stop' = stop
      BY <2>3 DEF WorkerLock, WorkerSleep, WorkerReturn, SpuriousWakeup
    <3>2. Busy' = Busy
      BY <2>3 DEF WorkerLock, WorkerSleep, WorkerReturn, SpuriousWakeup, Busy, Running
    <3> QED BY <3>1, <3>2, Stutter DEF Done, Refused, Phase
  <2> QED BY <1>1, <2>1, <2>2, <2>3, Zenon DEF WorkerStep
<1>2. ASSUME NEW t \in Enqueuers, NEW k \in Task, EnqueueCall(t, k)
      PROVE  UNCHANGED Pool!vars
  BY <1>2, Stutter DEF EnqueueCall, Busy, Running, Done, Refused, Phase, workerVars
<1>3. ASSUME NEW t \in Enqueuers, EnqueueStep(t)
      PROVE  Pool!Next \/ UNCHANGED Pool!vars
  <2>1. CASE EnqueuePush(t)
    <3>1. arg[t] \in Task
      BY <2>1 DEF TasksInHand, EnqueuePush
    <3> QED BY <2>1, <3>1, PushAccepts DEF Pool!Next
  <2>2. CASE EnqueueRefuse(t)
    <3>1. PICK k \in Task : k = arg[t]
      BY <2>2 DEF TasksInHand, EnqueueRefuse
    <3>2. Pool!Refuse(k)
      BY <2>2, <3>1, RefuseRefuses
    <3> QED BY <3>2 DEF Pool!Next
  <2>3. CASE EnqueueLock(t)
    BY <2>3, Stutter DEF EnqueueLock, Busy, Running, Done, Refused, Phase, workerVars
  <2>4. CASE EnqueueNotify(t)
    <3>1. Busy' = Busy
      BY <2>4, NotifyOnePc DEF EnqueueNotify, Busy, Running
    <3> QED BY <2>4, <3>1, Stutter DEF EnqueueNotify, Done, Refused, Phase
  <2> QED BY <1>3, <2>1, <2>2, <2>3, <2>4, Zenon DEF EnqueueStep
<1>4. CASE DestructorStop
  BY <1>4, StopCloses DEF Pool!Next
<1>5. CASE OwnerJoined
  <2>1. CASE owner = "stop_wait"
    BY <1>5, <2>1, JoinedCloses DEF Pool!Next
  <2>2. CASE owner = "join_wait"
    BY <1>5, <2>2, Stutter DEF OwnerJoined, Busy, Running, Done, Refused, Phase, workerVars
  <2> QED BY <1>5, <2>1, <2>2 DEF OwnerJoined
<1>6. CASE OwnerNotify
  <2>1. Busy' = Busy
    BY <1>6 DEF OwnerNotify, NotifyAll, Asleep, Busy, Running
  <2> QED BY <1>6, <2>1, Stutter DEF OwnerNotify, Done, Refused, Phase
<1>7. CASE DestructorCall \/ JoinCall \/ DestructorLock
  <2>1. tasks' = tasks /\ pc' = pc /\ task' = task /\ future' = future /\ stop' = stop
    BY <1>7 DEF DestructorCall, JoinCall, DestructorLock, workerVars
  <2>2. owner # "destroyed" /\ owner' # "destroyed"
    BY <1>7 DEF DestructorCall, JoinCall, DestructorLock
  <2>3. Busy' = Busy /\ Done' = Done /\ Refused' = Refused
    BY <2>1 DEF Busy, Running, Done, Refused
  <2>4. Phase' = Phase
    BY <2>1, <2>2 DEF Phase
  <2> QED BY <2>1, <2>3, <2>4, Stutter
<1>8. CASE UNCHANGED vars
  BY <1>8, Stutter DEF vars, Busy, Running, Done, Refused, Phase, workerVars
<1> QED BY <1>1, <1>2, <1>3, <1>4, <1>5, <1>6, <1>7, <1>8 DEF Next, OwnerStep

(* Accepted tasks are started once and in order, a task is refused only    *)
(* after stop is set, and the destructor ends only when all have finished: *)
(* every behaviour of the pool is one of TaskPool.                         *)
THEOREM Refinement == Spec => PoolSpec
BY RefinementInit, RefinementStep, Inductive, PTL DEF Spec, PoolSpec, Pool!Spec
=============================================================================
