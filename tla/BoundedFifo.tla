----------------------------- MODULE BoundedFifo -----------------------------
(***************************************************************************)
(* What yi::LockFreeQueue promises its callers: a first-in first-out queue *)
(* of at most Capacity values, shared by several threads.  A call to Push  *)
(* or Pop takes effect at most once, in one atomic step between its call   *)
(* and its return, and returns true exactly when it did take effect.       *)
(*                                                                         *)
(* A call may also return false without having taken effect, whatever the  *)
(* queue holds: the implementation gives up when another thread overtakes  *)
(* it, so "false" promises nothing about fullness or emptiness.            *)
(***************************************************************************)
EXTENDS Naturals, Sequences

CONSTANTS Threads,    \* the threads that share the queue
          Val,        \* the values they push
          NoVal,      \* "nothing received yet"
          Capacity    \* the number of slots

VARIABLES q,          \* the queued values, oldest first
          stage,      \* stage[t]: how far the call of thread t has come
          arg,        \* arg[t]: the value of t's current or last Push
          out,        \* out[t]: the value t's last successful Pop took
          ret         \* ret[t]: what t's last Push or Pop returned

vars == <<q, stage, arg, out, ret>>

Stages == {"idle", "pushing", "pushed", "popping", "popped"}

Init ==
  /\ q = << >>
  /\ stage = [t \in Threads |-> "idle"]
  /\ arg = [t \in Threads |-> NoVal]
  /\ out = [t \in Threads |-> NoVal]
  /\ ret = [t \in Threads |-> FALSE]

PushCall(t) ==
  /\ stage[t] = "idle"
  /\ stage' = [stage EXCEPT ![t] = "pushing"]
  /\ \E v \in Val : arg' = [arg EXCEPT ![t] = v]
  /\ UNCHANGED <<q, out, ret>>

PushEffect(t) ==
  /\ stage[t] = "pushing"
  /\ Len(q) < Capacity
  /\ q' = Append(q, arg[t])
  /\ stage' = [stage EXCEPT ![t] = "pushed"]
  /\ UNCHANGED <<arg, out, ret>>

PushReturn(t) ==
  /\ stage[t] \in {"pushing", "pushed"}
  /\ stage' = [stage EXCEPT ![t] = "idle"]
  /\ ret' = [ret EXCEPT ![t] = (stage[t] = "pushed")]
  /\ UNCHANGED <<q, arg, out>>

PopCall(t) ==
  /\ stage[t] = "idle"
  /\ stage' = [stage EXCEPT ![t] = "popping"]
  /\ UNCHANGED <<q, arg, out, ret>>

PopEffect(t) ==
  /\ stage[t] = "popping"
  /\ q # << >>
  /\ q' = Tail(q)
  /\ out' = [out EXCEPT ![t] = Head(q)]
  /\ stage' = [stage EXCEPT ![t] = "popped"]
  /\ UNCHANGED <<arg, ret>>

PopReturn(t) ==
  /\ stage[t] \in {"popping", "popped"}
  /\ stage' = [stage EXCEPT ![t] = "idle"]
  /\ ret' = [ret EXCEPT ![t] = (stage[t] = "popped")]
  /\ UNCHANGED <<q, arg, out>>

Next ==
  \E t \in Threads :
    \/ PushCall(t) \/ PushEffect(t) \/ PushReturn(t)
    \/ PopCall(t)  \/ PopEffect(t)  \/ PopReturn(t)

Spec == Init /\ [][Next]_vars
=============================================================================
