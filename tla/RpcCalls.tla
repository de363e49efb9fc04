------------------------------ MODULE RpcCalls -------------------------------
(***************************************************************************)
(* What the client library promises the application: each call goes out at *)
(* most once, and the callbacks are run one for each answer, in the order  *)
(* of the answers.  Only answers nobody set a callback for are passed over *)
(* and, if the application does not wait for its answers, those that found *)
(* no room.                                                                *)
(***************************************************************************)
EXTENDS Naturals, Sequences, Functions

CONSTANTS MaxCalls,     \* the application makes the calls 1, 2, ... MaxCalls
          NoCallback,   \* those of functions without a callback
          Unawaited     \* those it does not wait for

VARIABLES made,         \* how many calls it has made
          sent,         \* the calls that were sent, in the order of the stream
          answered,     \* those the server has answered, in its order
          dropped,      \* the answers there was no room for
          called        \* the answers whose callback was run, in order

vars == <<made, sent, answered, dropped, called>>

Init == made = 0 /\ sent = << >> /\ answered = << >> /\ dropped = {} /\ called = << >>

Make ==
  /\ made < MaxCalls
  /\ made' = made + 1
  /\ UNCHANGED <<sent, answered, dropped, called>>

Send ==
  /\ \E k \in (1 .. made) \ Range(sent) : sent' = Append(sent, k)
  /\ UNCHANGED <<made, answered, dropped, called>>

Answer ==
  /\ \E k \in Range(sent) \ Range(answered) : answered' = Append(answered, k)
  /\ UNCHANGED <<made, sent, dropped, called>>

Drop ==
  /\ (1 .. made) \cap Unawaited # {}
  /\ \E answers \in SUBSET (Range(answered) \ Range(called)) : dropped' = dropped \cup answers
  /\ UNCHANGED <<made, sent, answered, called>>

\* No callback is to be run for this answer, or not any more.
PassedOver(k) == k \in NoCallback \cup dropped \cup Range(called)

CallBack ==
  /\ \E i \in 1 .. Len(answered) :
       /\ ~PassedOver(answered[i])
       /\ \A j \in 1 .. i - 1 : PassedOver(answered[j])
       /\ called' = Append(called, answered[i])
  /\ UNCHANGED <<made, sent, answered, dropped>>

Next == Make \/ Send \/ Answer \/ Drop \/ CallBack

Spec == Init /\ [][Next]_vars
=============================================================================
