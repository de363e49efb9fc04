----------------------------- MODULE RpcService -----------------------------
(***************************************************************************)
(* What the server promises each of its clients: the calls of a connection *)
(* are run in the order they were sent, each at most once, and none is     *)
(* skipped but those of functions nobody registered and those dropped for  *)
(* want of room; each client gets the results of its own calls, in that    *)
(* order, and nothing else.                                                *)
(***************************************************************************)
EXTENDS Naturals, Sequences

CONSTANTS Clients,
          MaxCalls,   \* a client sends the calls 1, 2, ... MaxCalls
          Unknown     \* the calls of functions that are not registered

VARIABLES sent,       \* sent[c]: how many calls client c has sent
          dropped,    \* dropped[c]: the calls of c there was no room for
          ran,        \* ran[c]: the calls of c that were run, in order
          answers     \* answers[c]: the results c received: <<client, call>>

vars == <<sent, dropped, ran, answers>>

Init ==
  /\ sent = [c \in Clients |-> 0]
  /\ dropped = [c \in Clients |-> {}]
  /\ ran = [c \in Clients |-> << >>]
  /\ answers = [c \in Clients |-> << >>]

Send(c) ==
  /\ sent[c] < MaxCalls
  /\ sent' = [sent EXCEPT ![c] = @ + 1]
  /\ UNCHANGED <<dropped, ran, answers>>

LastRan(c) == IF ran[c] = << >> THEN 0 ELSE ran[c][Len(ran[c])]

Drop(c) ==
  /\ \E calls \in SUBSET (LastRan(c) + 1 .. sent[c]) :
       dropped' = [dropped EXCEPT ![c] = @ \cup calls]
  /\ UNCHANGED <<sent, ran, answers>>

Run(c) ==
  /\ \E k \in LastRan(c) + 1 .. sent[c] :
       /\ k \notin Unknown \cup dropped[c]
       /\ LastRan(c) + 1 .. k - 1 \subseteq Unknown \cup dropped[c]
       /\ ran' = [ran EXCEPT ![c] = Append(@, k)]
  /\ UNCHANGED <<sent, dropped, answers>>

Answer(c) ==
  /\ Len(answers[c]) < Len(ran[c])
  /\ answers' = [answers EXCEPT ![c] = Append(@, <<c, ran[c][Len(@) + 1]>>)]
  /\ UNCHANGED <<sent, dropped, ran>>

Next == \E c \in Clients : Send(c) \/ Drop(c) \/ Run(c) \/ Answer(c)

Spec == Init /\ [][Next]_vars
=============================================================================
