------------------------------ MODULE TaskPool ------------------------------
(***************************************************************************)
(* What a thread pool promises those who hand it tasks: an accepted task   *)
(* is started once, in the order of acceptance, by a worker that has no    *)
(* other task; a task is refused only when the pool is being shut down,    *)
(* and the pool is gone only after every accepted task has finished.       *)
(***************************************************************************)
EXTENDS Naturals, Sequences

CONSTANTS Task,      \* the tasks
          Workers    \* the worker threads

VARIABLES backlog,   \* the accepted tasks that wait to be started, in order
          busy,      \* busy[w]: the tasks worker w is running, none or one
          done,      \* the tasks that have finished
          refused,   \* the tasks that were not accepted
          phase      \* "open", "closing" or "closed"

vars == <<backlog, busy, done, refused, phase>>

Accepted ==
  {backlog[i] : i \in 1 .. Len(backlog)} \cup (UNION {busy[w] : w \in Workers}) \cup done

Init ==
  /\ backlog = << >>
  /\ busy = [w \in Workers |-> {}]
  /\ done = {}
  /\ refused = {}
  /\ phase = "open"

Accept(k) ==
  /\ phase # "closed"
  /\ k \notin Accepted \cup refused
  /\ backlog' = Append(backlog, k)
  /\ UNCHANGED <<busy, done, refused, phase>>

Refuse(k) ==
  /\ phase = "closing"
  /\ k \notin Accepted \cup refused
  /\ refused' = refused \cup {k}
  /\ UNCHANGED <<backlog, busy, done, phase>>

Start(w) ==
  /\ backlog # << >>
  /\ busy[w] = {}
  /\ busy' = [busy EXCEPT ![w] = {Head(backlog)}]
  /\ backlog' = Tail(backlog)
  /\ UNCHANGED <<done, refused, phase>>

Finish(w) ==
  /\ busy[w] # {}
  /\ busy' = [busy EXCEPT ![w] = {}]
  /\ done' = done \cup busy[w]
  /\ UNCHANGED <<backlog, refused, phase>>

Close ==
  /\ phase = "open"
  /\ phase' = "closing"
  /\ UNCHANGED <<backlog, busy, done, refused>>

Closed ==
  /\ phase = "closing"
  /\ backlog = << >>
  /\ \A w \in Workers : busy[w] = {}
  /\ phase' = "closed"
  /\ UNCHANGED <<backlog, busy, done, refused>>

Next ==
  \/ \E k \in Task : Accept(k) \/ Refuse(k)
  \/ \E w \in Workers : Start(w) \/ Finish(w)
  \/ Close \/ Closed

Spec == Init /\ [][Next]_vars
=============================================================================
