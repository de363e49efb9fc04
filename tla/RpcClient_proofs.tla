--------------------------- MODULE RpcClient_proofs ---------------------------
(***************************************************************************)
(* Proofs about RpcClient for every number of workers and calls, and all   *)
(* sizes: type correctness, that the library implements RpcCalls, and, for *)
(* an application that waits for its answers, that no null buffer is used. *)
(***************************************************************************)
EXTENDS RpcClient, SequenceTheorems, NaturalLemmas

(***************************************************************************)
(* The size of the answers in a buffer: the function that SizeOf chooses   *)
(* exists.                                                                 *)
(***************************************************************************)
Weight(k) == HeaderSize + Body(k)

LEMMA WeightNat == \A k : Weight(k) \in Nat
BY SizesAssumption DEF Weight, Body, HeaderSize

\* f[i] is the size of the last i answers of s.
Sums(s, f) ==
  /\ f \in [0 .. Len(s) -> Nat] /\ f[0] = 0
  /\ \A i \in 1 .. Len(s) : f[i] = f[i - 1] + Weight(s[Len(s) - i + 1])

LEMMA SumsTail ==
  ASSUME NEW s \in Seq(Calls), s # << >>, NEW f, Sums(s, f)
  PROVE  /\ Sums(Tail(s), [i \in 0 .. Len(s) - 1 |-> f[i]])
         /\ f[Len(s)] = Weight(Head(s)) + f[Len(s) - 1]
<1> DEFINE n == Len(s)
           t == Tail(s)
           g == [i \in 0 .. n - 1 |-> f[i]]
<1>1. /\ n \in Nat \ {0} /\ t \in Seq(Calls) /\ Len(t) = n - 1 /\ Head(s) = s[1]
      /\ \A i \in 1 .. n - 1 : t[i] = s[i + 1]
  BY HeadTailProperties, EmptySeq, LenProperties
<1>2. /\ f \in [0 .. n -> Nat] /\ f[0] = 0
      /\ \A i \in 1 .. n : f[i] = f[i - 1] + Weight(s[n - i + 1])
  BY DEF Sums
<1>3. f[n] = Weight(Head(s)) + f[n - 1]
  BY <1>1, <1>2, WeightNat
<1>4. g \in [0 .. Len(t) -> Nat] /\ g[0] = 0
  BY <1>1, <1>2
<1>5. ASSUME NEW i \in 1 .. Len(t) PROVE g[i] = g[i - 1] + Weight(t[Len(t) - i + 1])
  <2>1. i \in 1 .. n /\ g[i] = f[i] /\ g[i - 1] = f[i - 1]
    BY <1>1
  <2>2. Len(t) - i + 1 \in 1 .. n - 1 /\ (Len(t) - i + 1) + 1 = n - i + 1
    BY <1>1
  <2>3. t[Len(t) - i + 1] = s[n - i + 1]
    BY <1>1, <2>2
  <2> QED BY <1>2, <2>1, <2>3
<1> QED BY <1>3, <1>4, <1>5 DEF Sums

LEMMA SumsUnique ==
  ASSUME NEW s \in Seq(Calls), NEW f, NEW g, Sums(s, f), Sums(s, g)
  PROVE  f[Len(s)] = g[Len(s)]
<1> DEFINE T == {i \in Nat : i <= Len(s) => f[i] = g[i]}
<1>1. 0 \in T
  BY DEF Sums
<1>2. ASSUME NEW i \in T PROVE i + 1 \in T
  <2> SUFFICES ASSUME i + 1 <= Len(s) PROVE f[i + 1] = g[i + 1]
    BY <1>2
  <2>1. i + 1 \in 1 .. Len(s) /\ (i + 1) - 1 = i /\ f[i] = g[i]
    BY LenProperties
  <2> QED BY <2>1 DEF Sums
<1>3. T = Nat
  BY <1>1, <1>2, NaturalInduction
<1> QED BY <1>3, LenProperties

LEMMA SumsExist == \A s \in Seq(Calls) : \E f : Sums(s, f)
<1> DEFINE T == {n \in Nat : \A s \in Seq(Calls) : Len(s) = n => \E f : Sums(s, f)}
<1>1. 0 \in T
  <2> SUFFICES ASSUME NEW s \in Seq(Calls), Len(s) = 0 PROVE \E f : Sums(s, f)
    OBVIOUS
  <2>1. Sums(s, [i \in 0 .. 0 |-> 0])
    BY DEF Sums
  <2> QED BY <2>1
<1>2. ASSUME NEW n \in T PROVE n + 1 \in T
  <2> SUFFICES ASSUME NEW s \in Seq(Calls), Len(s) = n + 1 PROVE \E f : Sums(s, f)
    OBVIOUS
  <2> DEFINE t == Tail(s)
  <2>1. /\ n \in Nat /\ s # << >> /\ t \in Seq(Calls) /\ Len(t) = n
        /\ \A i \in 1 .. n : t[i] = s[i + 1]
    BY HeadTailProperties, EmptySeq
  <2>2. PICK g : Sums(t, g)
    BY <2>1
  <2> HIDE DEF t
  <2> DEFINE f == [i \in 0 .. n + 1 |-> IF i <= n THEN g[i] ELSE g[n] + Weight(s[1])]
  <2>3. /\ g \in [0 .. n -> Nat] /\ g[0] = 0
        /\ \A i \in 1 .. n : g[i] = g[i - 1] + Weight(t[n - i + 1])
    BY <2>1, <2>2 DEF Sums
  <2>4. f \in [0 .. Len(s) -> Nat] /\ f[0] = 0
    BY <2>1, <2>3, WeightNat
  <2>5. ASSUME NEW i \in 1 .. Len(s) PROVE f[i] = f[i - 1] + Weight(s[Len(s) - i + 1])
    <3>1. CASE i = n + 1
      BY <2>1, <3>1
    <3>2. CASE i \in 1 .. n
      <4>1. n - i + 1 \in 1 .. n /\ (n - i + 1) + 1 = Len(s) - i + 1
        BY <2>1, <3>2
      <4>2. t[n - i + 1] = s[Len(s) - i + 1]
        BY <2>1, <4>1
      <4>3. f[i] = g[i] /\ f[i - 1] = g[i - 1]
        BY <2>1, <3>2
      <4> QED BY <2>3, <3>2, <4>2, <4>3
    <3> QED BY <2>1, <3>1, <3>2
  <2>6. Sums(s, f)
    BY <2>4, <2>5 DEF Sums
  <2> QED BY <2>6
<1>3. T = Nat
  BY <1>1, <1>2, NaturalInduction
<1> QED BY <1>3, LenProperties

LEMMA SizeDef ==
  SizeOf = [answers \in Seq(Calls) |->
              IF answers = << >> THEN 0
              ELSE HeaderSize + Body(Head(answers)) + SizeOf[Tail(answers)]]
<1> DEFINE Sum(s) == CHOOSE f : Sums(s, f)
           G == [s \in Seq(Calls) |-> Sum(s)[Len(s)]]
           Eqn(h) == [answers \in Seq(Calls) |->
                        IF answers = << >> THEN 0
                        ELSE HeaderSize + Body(Head(answers)) + h[Tail(answers)]]
<1>1. \A s \in Seq(Calls) : Sums(s, Sum(s))
  BY SumsExist
<1> HIDE DEF Sum
<1>2. ASSUME NEW s \in Seq(Calls)
      PROVE  G[s] = IF s = << >> THEN 0 ELSE HeaderSize + Body(Head(s)) + G[Tail(s)]
  <2>1. CASE s = << >>
    BY <1>1, <2>1, EmptySeq DEF Sums
  <2>2. CASE s # << >>
    <3> DEFINE f == Sum(s)
               t == Tail(s)
               g == [i \in 0 .. Len(s) - 1 |-> f[i]]
    <3>1. /\ t \in Seq(Calls) /\ Len(t) = Len(s) - 1 /\ Len(s) \in Nat \ {0}
      BY <2>2, HeadTailProperties, EmptySeq, LenProperties
    <3>2. Sums(t, g) /\ f[Len(s)] = Weight(Head(s)) + f[Len(s) - 1]
      BY <1>1, <2>2, SumsTail
    <3>3. g[Len(t)] = G[t]
      BY <1>1, <3>1, <3>2, SumsUnique
    <3>4. g[Len(t)] = f[Len(s) - 1]
      BY <3>1
    <3> QED BY <2>2, <3>2, <3>3, <3>4 DEF Weight
  <2> QED BY <2>1, <2>2
<1>3. G = Eqn(G)
  BY <1>2
<1>4. SizeOf = CHOOSE h : h = Eqn(h)
  BY DEF SizeOf
<1> HIDE DEF G, Eqn
<1>5. SizeOf = Eqn(SizeOf)
  BY <1>3, <1>4
<1> QED BY <1>5 DEF Eqn

\* What the size of the buffer is.
LEMMA SizeFacts ==
  ASSUME NEW s \in Seq(Calls)
  PROVE  /\ SizeOf[s] \in Nat
         /\ s = << >> => SizeOf[s] = 0
         /\ s # << >> => SizeOf[s] = HeaderSize + Body(Head(s)) + SizeOf[Tail(s)]
<1> DEFINE T == {n \in Nat : \A r \in Seq(Calls) : Len(r) = n => SizeOf[r] \in Nat}
<1>1. \A r \in Seq(Calls) :
        SizeOf[r] = IF r = << >> THEN 0 ELSE Weight(Head(r)) + SizeOf[Tail(r)]
  BY SizeDef DEF Weight
<1>2. 0 \in T
  BY <1>1, EmptySeq
<1>3. ASSUME NEW n \in T PROVE n + 1 \in T
  <2> SUFFICES ASSUME NEW r \in Seq(Calls), Len(r) = n + 1 PROVE SizeOf[r] \in Nat
    OBVIOUS
  <2>1. r # << >> /\ Tail(r) \in Seq(Calls) /\ Len(Tail(r)) = n
    BY HeadTailProperties, EmptySeq
  <2>2. SizeOf[Tail(r)] \in Nat
    BY <2>1
  <2> QED BY <1>1, <2>1, <2>2, WeightNat
<1>4. T = Nat
  BY <1>2, <1>3, NaturalInduction
<1> QED BY <1>1, <1>4, LenProperties DEF Weight

(***************************************************************************)
(* The sequences of the model.                                             *)
(***************************************************************************)
Tasks == [kind : {"send"}, call : Calls] \cup [kind : {"loop", "read"}, call : {Nobody}]

\* What is waiting in the socket.
LEMMA UnreadFacts ==
  ASSUME TypeOK
  PROVE  /\ Unread \in Seq(Calls) /\ Len(Unread) = arrived - taken
         /\ \A b \in 1 .. arrived - taken : Unread[b] = answered[taken + b]
         /\ Unread = << >> <=> taken = arrived
<1>1. /\ answered \in Seq(Calls) /\ taken \in Int /\ arrived \in Int
      /\ taken \in 0 .. arrived /\ arrived \in 0 .. Len(answered) /\ Len(answered) \in Nat
  BY LenProperties DEF TypeOK
<1>2. \A i \in taken + 1 .. arrived : answered[i] \in Calls
  BY <1>1, ElementOfSeq
<1>3. /\ Unread \in Seq(Calls)
      /\ Len(Unread) = IF taken + 1 <= arrived THEN arrived - (taken + 1) + 1 ELSE 0
      /\ \A b \in 1 .. arrived - (taken + 1) + 1 : Unread[b] = answered[(taken + 1) + b - 1]
  BY <1>1, <1>2, SubSeqProperties DEF Unread
<1>4. Len(Unread) = arrived - taken
  BY <1>1, <1>3
<1>5. \A b \in 1 .. arrived - taken : Unread[b] = answered[taken + b]
  BY <1>1, <1>3
<1>6. Unread = << >> <=> Len(Unread) = 0
  BY <1>3, EmptySeq
<1> QED BY <1>1, <1>3, <1>4, <1>5, <1>6

\* The first task, and the tasks behind it.
LEMMA TaskFacts ==
  ASSUME TypeOK, tasks # << >>
  PROVE  /\ Len(tasks) \in Nat \ {0} /\ Head(tasks) = tasks[1]
         /\ \/ Head(tasks).kind = "send" /\ Head(tasks).call \in Calls
            \/ Head(tasks).kind \in {"loop", "read"} /\ Head(tasks).call = Nobody
         /\ Tail(tasks) \in Seq(Tasks) /\ Len(Tail(tasks)) = Len(tasks) - 1
         /\ \A i \in 1 .. Len(tasks) - 1 : Tail(tasks)[i] = tasks[i + 1]
<1>1. tasks \in Seq(Tasks)
  BY DEF TypeOK, Tasks
<1>2. /\ Len(tasks) \in Nat \ {0} /\ Head(tasks) \in Tasks
      /\ Tail(tasks) \in Seq(Tasks) /\ Len(Tail(tasks)) = Len(tasks) - 1
      /\ \A i \in 1 .. Len(Tail(tasks)) : Tail(tasks)[i] = tasks[i + 1]
  BY <1>1, HeadTailProperties, EmptySeq
<1>3. Head(tasks) = tasks[1]
  BY <1>1, <1>2
<1> QED BY <1>2, <1>3 DEF Tasks

\* No call and no worker is Nobody.
LEMMA NobodyFacts == Nobody \notin Calls /\ Nobody \notin Workers /\ Calls \subseteq Nat
BY NobodyAssumption, CallsAssumption DEF Calls

(***************************************************************************)
(* Types.                                                                  *)
(***************************************************************************)
LEMMA InitTypes == Init => TypeOK
<1> SUFFICES ASSUME Init PROVE TypeOK
  OBVIOUS
<1>1. << >> \in Seq(Calls) /\ << >> \in Seq(Tasks) /\ Len(<< >>) = 0
  BY EmptySeq
<1>2. SizeOf[<< >>] = 0
  BY <1>1, SizeFacts
<1>3. {sent, answered, called, buffer} \subseteq Seq(Calls) /\ tasks \in Seq(Tasks)
  BY <1>1 DEF Init
<1>4. SizeOf[buffer] <= Capacity /\ made \in 0 .. MaxCalls
  BY <1>2, CallsAssumption, SizesAssumption DEF Init
<1>5. taken \in 0 .. arrived /\ arrived \in 0 .. Len(answered) /\ Len(answered) <= Len(sent)
  BY <1>1 DEF Init
<1> QED BY <1>3, <1>4, <1>5, NobodyFacts DEF Init, TypeOK, Tasks, Labels

\* What TypeOK says of the workers.
WorkersOK ==
  /\ pc \in [Workers -> Labels] /\ item \in [Workers -> Calls \cup {Nobody}]
  /\ last \in [Workers -> BOOLEAN] /\ mutex \in Workers \cup {Nobody}
  /\ \A w \in Workers :
       /\ item[w] \in Calls <=> pc[w] \in {"send", "killed"}
       /\ mutex = w <=> pc[w] \in {"reading", "cut", "callback"}

LEMMA TypesStep == TypeOK /\ [Next]_vars => TypeOK'
<1> SUFFICES ASSUME TypeOK, [Next]_vars PROVE TypeOK'
  OBVIOUS
<1>0. WorkersOK
  BY DEF TypeOK, WorkersOK
<1> USE DEF appVars, serverVars, readVars, epollVars, bufferVars, workerVars
<1>1. CASE Connect
  BY <1>1 DEF Connect, TypeOK
<1>2. CASE ConnectFails
  BY <1>2 DEF ConnectFails, TypeOK
<1>3. CASE Start
  BY <1>3, AppendProperties DEF Start, TypeOK
<1>4. CASE CallFunction
  BY <1>4, AppendProperties, CallsAssumption DEF CallFunction, TypeOK, Calls
<1>5. CASE Answer
  BY <1>5, AppendProperties, ElementOfSeq DEF Answer, TypeOK
<1>6. CASE Arrive
  BY <1>6, LenProperties DEF Arrive, TypeOK
<1>7. CASE ServerCloses
  BY <1>7 DEF ServerCloses, TypeOK
<1>8. ASSUME NEW w \in Workers, TaskStart(w) PROVE TypeOK'
  BY <1>8, TaskFacts, NobodyFacts DEF TaskStart, TypeOK, Tasks, At, Goto, Labels
<1>9. ASSUME NEW w \in Workers, LoopWatch(w) PROVE TypeOK'
  BY <1>9, NobodyFacts DEF LoopWatch, TypeOK, At, Goto, Labels
<1>10. ASSUME NEW w \in Workers, LoopWait(w) PROVE TypeOK'
  BY <1>10, NobodyFacts DEF LoopWait, TypeOK, At, Goto, Labels
<1>11. ASSUME NEW w \in Workers, LoopDispatch(w) PROVE TypeOK'
  <2>1. tasks' \in Seq(Tasks)
    BY <1>11, AppendProperties DEF LoopDispatch, TypeOK, Tasks
  <2> QED BY <1>11, <2>1, NobodyFacts DEF LoopDispatch, TypeOK, At, Goto, Labels, Tasks
<1>12. ASSUME NEW w \in Workers, Send(w) PROVE TypeOK'
  <2>1. WorkersOK'
    <3>1. /\ pc[w] = "send" /\ mutex' = mutex
          /\ \/ /\ pc' = [pc EXCEPT ![w] = "idle"] /\ item' = [item EXCEPT ![w] = Nobody]
                /\ last' = [last EXCEPT ![w] = FALSE]
             \/ pc' = [pc EXCEPT ![w] = "killed"] /\ UNCHANGED <<item, last>>
      BY <1>12 DEF Send, Finish, At, Goto
    <3> QED BY <1>0, <3>1, NobodyFacts DEF WorkersOK, Labels
  <2>2. sent' \in Seq(Calls) /\ Len(sent) <= Len(sent')
    <3>1. item[w] \in Calls /\ sent \in Seq(Calls)
      BY <1>12 DEF Send, TypeOK, At
    <3>2. sent' = sent \/ sent' = Append(sent, item[w])
      BY <1>12 DEF Send
    <3> QED BY <3>1, <3>2, AppendProperties, LenProperties
  <2>3. /\ conn' \in {"none", "open", "closing", "reset", "closed"}
        /\ (conn' = "closed" => conn = "closed")
        /\ (ready' = ready \/ ready' = watched)
    BY <1>12 DEF Send, TypeOK
  <2>4. Len(sent) \in Nat /\ Len(sent') \in Nat /\ Len(answered) \in Nat
    BY <2>2, LenProperties DEF TypeOK
  <2>5. UNCHANGED <<app, made, tasks, answered, arrived, taken, dropped, watched, entry, buffer,
                    called>>
    BY <1>12 DEF Send
  <2> QED BY <2>1, <2>2, <2>3, <2>4, <2>5 DEF TypeOK, WorkersOK
<1>13. ASSUME NEW w \in Workers, Lookup(w) PROVE TypeOK'
  <2>1. WorkersOK'
    BY <1>0, <1>13, NobodyFacts DEF Lookup, WorkersOK, At, Goto, Labels
  <2> QED BY <1>13, <2>1 DEF Lookup, TypeOK, WorkersOK, At, Goto
<1>14. ASSUME NEW w \in Workers, ReadLock(w) PROVE TypeOK'
  <2>1. WorkersOK'
    BY <1>0, <1>14, NobodyFacts DEF ReadLock, Lock, WorkersOK, At, Goto, Labels
  <2> QED BY <1>14, <2>1 DEF ReadLock, Lock, TypeOK, WorkersOK, At, Goto
<1>15. ASSUME NEW w \in Workers, ReadStore(w) PROVE TypeOK'
  <2>1. WorkersOK'
    BY <1>0, <1>15, NobodyFacts DEF ReadStore, Unlock, WorkersOK, At, Goto, Labels
  <2> QED BY <1>15, <2>1, UnreadFacts, ConcatProperties
           DEF ReadStore, Unlock, TypeOK, WorkersOK, At, Goto
<1>16. ASSUME NEW w \in Workers, ReadNoRoom(w) PROVE TypeOK'
  <2>1. WorkersOK'
    BY <1>0, <1>16, NobodyFacts DEF ReadNoRoom, Unlock, WorkersOK, At, Goto, Labels
  <2> QED BY <1>16, <2>1, UnreadFacts, RangeOfSeq DEF ReadNoRoom, Unlock, TypeOK, WorkersOK, At, Goto
<1>17. ASSUME NEW w \in Workers, ReadNothing(w) PROVE TypeOK'
  <2>1. WorkersOK'
    BY <1>0, <1>17, NobodyFacts DEF ReadNothing, Unlock, WorkersOK, At, Goto, Labels
  <2> QED BY <1>17, <2>1 DEF ReadNothing, Unlock, TypeOK, WorkersOK, At, Goto
<1>18. ASSUME NEW w \in Workers, ServeLock(w) PROVE TypeOK'
  <2>1. WorkersOK'
    BY <1>0, <1>18, NobodyFacts DEF ServeLock, Lock, WorkersOK, At, Goto, Labels
  <2> QED BY <1>18, <2>1 DEF ServeLock, Lock, TypeOK, WorkersOK, At, Goto
<1>19. ASSUME NEW w \in Workers, CallbackReturns(w) PROVE TypeOK'
  <2>1. WorkersOK'
    BY <1>0, <1>19, NobodyFacts DEF CallbackReturns, WorkersOK, At, Goto, Labels
  <2> QED BY <1>19, <2>1 DEF CallbackReturns, TypeOK, WorkersOK, At, Goto
<1>20. ASSUME NEW w \in Workers, ServeDone(w) PROVE TypeOK'
  <2>1. WorkersOK'
    <3>1. CASE last[w]
      BY <1>0, <1>20, <3>1, NobodyFacts DEF ServeDone, Served, Unlock, WorkersOK, At, Goto, Labels
    <3>2. CASE ~last[w]
      <4>1. /\ pc[w] = "cut" /\ mutex' = Nobody /\ pc' = [pc EXCEPT ![w] = "idle"]
            /\ item' = [item EXCEPT ![w] = Nobody] /\ last' = [last EXCEPT ![w] = FALSE]
        BY <1>20, <3>2 DEF ServeDone, Served, Finish, Unlock, At, Goto
      <4> QED BY <1>0, <4>1, NobodyFacts DEF WorkersOK, Labels
    <3> QED BY <3>1, <3>2
  <2> QED BY <1>20, <2>1 DEF ServeDone, Served, Finish, Unlock, TypeOK, WorkersOK, At, Goto
<1>21. ASSUME NEW w \in Workers, ServePostpone(w) PROVE TypeOK'
  <2>1. WorkersOK'
    <3>1. CASE last[w]
      BY <1>0, <1>21, <3>1, NobodyFacts DEF ServePostpone, Served, Unlock, WorkersOK, At, Goto, Labels
    <3>2. CASE ~last[w]
      <4>1. /\ pc[w] = "cut" /\ mutex' = Nobody /\ pc' = [pc EXCEPT ![w] = "idle"]
            /\ item' = [item EXCEPT ![w] = Nobody] /\ last' = [last EXCEPT ![w] = FALSE]
        BY <1>21, <3>2 DEF ServePostpone, Served, Finish, Unlock, At, Goto
      <4> QED BY <1>0, <4>1, NobodyFacts DEF WorkersOK, Labels
    <3> QED BY <3>1, <3>2
  <2> QED BY <1>21, <2>1 DEF ServePostpone, Served, Finish, Unlock, TypeOK, WorkersOK, At, Goto
<1>22. ASSUME NEW w \in Workers, ServeCall(w) PROVE TypeOK'
  <2>1. WorkersOK'
    BY <1>0, <1>22, NobodyFacts DEF ServeCall, WorkersOK, At, Goto, Labels
  <2>2. /\ Head(buffer) \in Calls /\ Tail(buffer) \in Seq(Calls)
        /\ SizeOf[Tail(buffer)] <= Capacity
    <3>1. buffer \in Seq(Calls) /\ buffer # << >> /\ SizeOf[buffer] <= Capacity
      BY <1>22 DEF ServeCall, TypeOK
    <3>2. Head(buffer) \in Calls /\ Tail(buffer) \in Seq(Calls)
      BY <3>1, HeadTailProperties
    <3>3. /\ SizeOf[buffer] = Weight(Head(buffer)) + SizeOf[Tail(buffer)]
          /\ SizeOf[Tail(buffer)] \in Nat
      BY <3>1, <3>2, SizeFacts DEF Weight
    <3> QED BY <3>1, <3>2, <3>3, WeightNat, SizesAssumption
  <2> QED BY <1>22, <2>1, <2>2, AppendProperties DEF ServeCall, TypeOK, WorkersOK, At, Goto
<1>23. ASSUME NEW w \in Workers, ServeThrow(w) PROVE TypeOK'
  <2>1. WorkersOK'
    BY <1>0, <1>23, NobodyFacts DEF ServeThrow, Finish, Unlock, WorkersOK, At, Goto, Labels
  <2>2. /\ Head(buffer) \in Calls /\ Tail(buffer) \in Seq(Calls)
        /\ SizeOf[Tail(buffer)] <= Capacity
    <3>1. buffer \in Seq(Calls) /\ buffer # << >> /\ SizeOf[buffer] <= Capacity
      BY <1>23 DEF ServeThrow, TypeOK
    <3>2. Head(buffer) \in Calls /\ Tail(buffer) \in Seq(Calls)
      BY <3>1, HeadTailProperties
    <3>3. /\ SizeOf[buffer] = Weight(Head(buffer)) + SizeOf[Tail(buffer)]
          /\ SizeOf[Tail(buffer)] \in Nat
      BY <3>1, <3>2, SizeFacts DEF Weight
    <3> QED BY <3>1, <3>2, <3>3, WeightNat, SizesAssumption
  <2> QED BY <1>23, <2>1, <2>2, AppendProperties
           DEF ServeThrow, Finish, Unlock, TypeOK, WorkersOK, At, Goto
<1>24. ASSUME NEW w \in Workers, DropWatch(w) PROVE TypeOK'
  <2>1. WorkersOK'
    BY <1>0, <1>24, NobodyFacts DEF DropWatch, WorkersOK, At, Goto, Labels
  <2> QED BY <1>24, <2>1 DEF DropWatch, TypeOK, WorkersOK, At, Goto
<1>25. ASSUME NEW w \in Workers, DropLookup(w) PROVE TypeOK'
  <2>1. WorkersOK'
    BY <1>0, <1>25, NobodyFacts DEF DropLookup, WorkersOK, At, Goto, Labels
  <2> QED BY <1>25, <2>1 DEF DropLookup, TypeOK, WorkersOK, At, Goto
<1>26. ASSUME NEW w \in Workers, Erase(w) PROVE TypeOK'
  <2>1. WorkersOK'
    BY <1>0, <1>26, NobodyFacts DEF Erase, WorkersOK, At, Goto, Labels
  <2> QED BY <1>26, <2>1 DEF Erase, TypeOK, WorkersOK, At, Goto
<1>27. ASSUME NEW w \in Workers, Close(w) PROVE TypeOK'
  <2>1. WorkersOK'
    BY <1>0, <1>27, NobodyFacts DEF Close, Finish, WorkersOK, At, Goto, Labels
  <2> QED BY <1>27, <2>1 DEF Close, Finish, TypeOK, WorkersOK, At, Goto
<1>28. CASE UNCHANGED vars
  BY <1>28 DEF vars, TypeOK
<1> QED BY <1>1, <1>2, <1>3, <1>4, <1>5, <1>6, <1>7, <1>8, <1>9, <1>10, <1>11, <1>12, <1>13,
           <1>14, <1>15, <1>16, <1>17, <1>18, <1>19, <1>20, <1>21, <1>22, <1>23, <1>24, <1>25,
           <1>26, <1>27, <1>28
        DEF Next, Application, Network, Worker, Loop, Read, Serve, Disconnect

(***************************************************************************)
(* The inductive invariant.  First what holds of every application.        *)
(***************************************************************************)
\* Nothing happens before the application begins.
Beginning ==
  /\ app # "started" =>
       /\ made = 0 /\ tasks = << >> /\ ~watched /\ ~ready
       /\ \A w \in Workers : pc[w] = "idle"
  /\ app = "begin" => conn = "none"
  /\ conn = "none" => entry # "buffer" /\ sent = << >>

\* A call is to be sent, is being sent or was sent, and only once.
SendTask(i) == tasks[i].kind = "send"
Sends(w) == pc[w] = "send"
ToBeSent ==
  \A i \in 1 .. Len(tasks) : SendTask(i) =>
    /\ tasks[i].call \in 1 .. made /\ tasks[i].call \notin Range(sent)
    /\ \A j \in 1 .. Len(tasks) : j # i /\ SendTask(j) => tasks[j].call # tasks[i].call
    /\ \A w \in Workers : Sends(w) => item[w] # tasks[i].call
BeingSent ==
  \A w \in Workers : Sends(w) =>
    /\ item[w] \in 1 .. made /\ item[w] \notin Range(sent)
    /\ \A v \in Workers : v # w /\ Sends(v) => item[v] # item[w]
WasSent ==
  \A i \in 1 .. Len(sent) :
    /\ sent[i] \in 1 .. made
    /\ \A j \in 1 .. Len(sent) : j # i => sent[j] # sent[i]
SentOnce == ToBeSent /\ BeingSent /\ WasSent /\ \A i \in 1 .. Len(answered) : answered[i] = sent[i]

\* What was taken is in the buffer, in its order, or was called or passed over.
Taken(k, answers, n) == \E i \in 1 .. n : answers[i] = k
Before(k, l, answers, n) == \E i, j \in 1 .. n : i < j /\ answers[i] = k /\ answers[j] = l
InOrder ==
  /\ \A a \in 1 .. Len(buffer) :
       /\ Taken(buffer[a], answered, taken) /\ buffer[a] \notin dropped \cup Range(called)
       /\ \A b \in 1 .. Len(buffer) : a < b => Before(buffer[a], buffer[b], answered, taken)
  /\ \A k \in dropped \cup Range(called) : Taken(k, answered, taken)
  /\ \A i \in 1 .. taken :
       \/ answered[i] \in NoCallback \cup dropped \cup Range(called)
       \/ \E a \in 1 .. Len(buffer) : buffer[a] = answered[i]

\* The event loop, or the task that will be it.
AtMostOne(S) == \A x, y \in S : x = y
AtMostTwo(S) == \A x, y, z \in S : x = y \/ y = z \/ x = z
Loops ==
  {<<"task", i>> : i \in {j \in 1 .. Len(tasks) : tasks[j].kind = "loop"}}
    \cup {<<"worker", w>> : w \in {v \in Workers : pc[v] \in {"loop", "wait", "dispatch"}}}
Pending ==
  \/ app # "started"
  \/ \E i \in 1 .. Len(tasks) : tasks[i].kind = "loop"
  \/ \E w \in Workers : pc[w] = "loop"
OneLoop == AtMostOne(Loops) /\ (Pending => ~watched)

IInv == TypeOK /\ Beginning /\ SentOnce /\ InOrder /\ OneLoop

(***************************************************************************)
(* Then what holds as long as the application waits for its answers: one   *)
(* call is on its way, and one read of the connection.                     *)
(***************************************************************************)
InTurn ==
  /\ \A i \in 1 .. Len(sent) : sent[i] = i
  /\ \A i \in 1 .. Len(called) : called[i] = i
  /\ \A i \in 1 .. Len(buffer) : buffer[i] = Len(called) + i
  /\ Len(called) <= taken /\ made <= Len(called) + 1
  /\ Len(buffer) = taken - Len(called)
  /\ dropped = {}

\* The reads of the connection that are still to come.
Reads ==
  {<<"edge", Nobody>> : x \in IF ready /\ conn # "reset" THEN {0} ELSE {}}
    \cup {<<"loop", w>> : w \in {v \in Workers : pc[v] = "dispatch"}}
    \cup {<<"task", i>> : i \in {j \in 1 .. Len(tasks) : tasks[j].kind = "read"}}
    \cup {<<"reader", w>> : w \in {v \in Workers : pc[v] \in {"read", "lock", "reading"}}}

\* The worker takes the connection down, and nobody reads any more.
Drops(w) == pc[w] \in {"drop", "dropLookup", "eraseEmpty", "erase", "close"} \/ last[w]
Gone == conn = "closed" \/ \E w \in Workers : Drops(w)

Edges ==
  /\ Pending => Reads = {} /\ ~Gone
  /\ conn \in {"none", "open"} /\ taken = arrived => Reads = {}
  /\ conn \in {"none", "open"} \/ taken = arrived => AtMostOne(Reads)
  /\ AtMostTwo(Reads)
  /\ Gone => Reads = {} /\ taken = arrived /\ conn \in {"closing", "reset", "closed"}

\* One worker takes the connection down, and erases the buffer only then.
TakenDown ==
  /\ \A w, v \in Workers : Drops(w) /\ Drops(v) => w = v
  /\ conn = "closed" => \A w \in Workers : ~Drops(w)
  /\ \A w \in Workers : last[w] => pc[w] \in {"serve", "cut", "callback", "erase", "close"}
  /\ \/ entry = "buffer" \/ conn \in {"none", "closed"}
     \/ \E w \in Workers : pc[w] \in {"erase", "close"}
  /\ ~Crashed

TameInv == Tame(made) => InTurn /\ Edges /\ TakenDown

(***************************************************************************)
(* The actions of the workers, seen from outside.                          *)
(***************************************************************************)
\* Neither the buffer nor what was read and called changes.
Quiet == UNCHANGED <<made, sent, taken, dropped, buffer, called>>

Working(w) ==
  \/ TaskStart(w) \/ LoopWatch(w) \/ LoopWait(w) \/ LoopDispatch(w) \/ Send(w)
  \/ Lookup(w) \/ ReadLock(w) \/ ReadStore(w) \/ ReadNoRoom(w) \/ ReadNothing(w)
  \/ ServeLock(w) \/ ServeDone(w) \/ ServePostpone(w) \/ ServeCall(w) \/ CallbackReturns(w)
  \/ ServeThrow(w) \/ DropWatch(w) \/ DropLookup(w) \/ Erase(w) \/ Close(w)

LEMMA WorkerIsWorking == \A w \in Workers : Worker(w) => Working(w)
BY DEF Worker, Working, Loop, Read, Serve, Disconnect

(***************************************************************************)
(* The beginning.                                                          *)
(***************************************************************************)
LEMMA InitBeginning == Init => Beginning
BY DEF Init, Beginning

LEMMA BeginningStep == TypeOK /\ Beginning /\ [Next]_vars => Beginning'
<1> SUFFICES ASSUME TypeOK, Beginning, [Next]_vars PROVE Beginning'
  OBVIOUS
<1> USE DEF appVars, serverVars, readVars, epollVars, bufferVars, workerVars
<1>1. CASE Application
  BY <1>1 DEF Application, Connect, ConnectFails, Start, CallFunction, Beginning
<1>2. CASE Network \/ ServerCloses
  BY <1>2 DEF Network, Answer, Arrive, ServerCloses, Beginning
<1>3. ASSUME NEW w \in Workers, Worker(w) PROVE Beginning'
  <2>1. app = "started" /\ app' = app
    <3>1. tasks # << >> \/ pc[w] # "idle"
      BY <1>3, WorkerIsWorking
         DEF Working, TaskStart, LoopWatch, LoopWait, LoopDispatch, Send, Lookup, ReadLock, ReadStore,
             ReadNoRoom, ReadNothing, ServeLock, ServeDone, ServePostpone, ServeCall,
             CallbackReturns, ServeThrow, DropWatch, DropLookup, Erase, Close, At
    <3>2. app' = app
      BY <1>3, WorkerIsWorking
         DEF Working, TaskStart, LoopWatch, LoopWait, LoopDispatch, Send, Lookup, ReadLock, ReadStore,
             ReadNoRoom, ReadNothing, ServeLock, ServeDone, ServePostpone, ServeCall,
             CallbackReturns, ServeThrow, DropWatch, DropLookup, Erase, Close
    <3> QED BY <3>1, <3>2 DEF Beginning
  <2>2. conn' = "none" => conn = "none" /\ sent' = sent /\ (entry' = entry \/ entry' # "buffer")
    BY <1>3, WorkerIsWorking
       DEF Working, TaskStart, LoopWatch, LoopWait, LoopDispatch, Send, Lookup, ReadLock, ReadStore,
           ReadNoRoom, ReadNothing, ServeLock, ServeDone, ServePostpone, ServeCall,
           CallbackReturns, ServeThrow, DropWatch, DropLookup, Erase, Close
  <2> QED BY <2>1, <2>2 DEF Beginning
<1>4. CASE UNCHANGED vars
  BY <1>4 DEF vars, Beginning
<1> QED BY <1>1, <1>2, <1>3, <1>4 DEF Next

(***************************************************************************)
(* Each call goes out once.                                                *)
(***************************************************************************)
\* A worker that does not start or send anything.
LEMMA OtherWorker ==
  ASSUME TypeOK, NEW w \in Workers, Working(w), ~TaskStart(w), ~Send(w)
  PROVE  /\ made' = made /\ sent' = sent /\ answered' = answered
         /\ tasks' = tasks \/ tasks' = Append(tasks, [kind |-> "read", call |-> Nobody])
         /\ \A v \in Workers : pc'[v] = "send" => pc[v] = "send" /\ item'[v] = item[v]
<1> USE DEF appVars, serverVars, readVars, epollVars, bufferVars, workerVars
<1>1. made' = made /\ sent' = sent /\ answered' = answered
  BY DEF Working, LoopWatch, LoopWait, LoopDispatch, Lookup, ReadLock, ReadStore, ReadNoRoom,
         ReadNothing, ServeLock, ServeDone, ServePostpone, ServeCall, CallbackReturns, ServeThrow,
         DropWatch, DropLookup, Erase, Close
<1>2. tasks' = tasks \/ tasks' = Append(tasks, [kind |-> "read", call |-> Nobody])
  BY DEF Working, LoopWatch, LoopWait, LoopDispatch, Lookup, ReadLock, ReadStore, ReadNoRoom,
         ReadNothing, ServeLock, ServeDone, ServePostpone, ServeCall, CallbackReturns, ServeThrow,
         DropWatch, DropLookup, Erase, Close
<1>3. pc \in [Workers -> Labels] /\ item \in [Workers -> Calls \cup {Nobody}]
  BY DEF TypeOK
<1>4. CASE LoopWatch(w) \/ LoopWait(w) \/ LoopDispatch(w) \/ Lookup(w) \/ ReadLock(w)
           \/ ReadStore(w) \/ ReadNoRoom(w) \/ ReadNothing(w) \/ ServeLock(w) \/ ServeCall(w)
           \/ CallbackReturns(w) \/ DropWatch(w) \/ DropLookup(w) \/ Erase(w)
  <2>1. item' = item /\ \E l \in Labels \ {"send"} : pc' = [pc EXCEPT ![w] = l]
    BY <1>4 DEF LoopWatch, LoopWait, LoopDispatch, Lookup, ReadLock, ReadStore, ReadNoRoom,
         ReadNothing, ServeLock, ServeCall, CallbackReturns, DropWatch, DropLookup, Erase, Goto,
         Labels
  <2> QED BY <1>1, <1>2, <1>3, <2>1
<1>5. CASE ServeDone(w) \/ ServePostpone(w) \/ ServeThrow(w) \/ Close(w)
  <2>1. \/ item' = item /\ \E l \in Labels \ {"send"} : pc' = [pc EXCEPT ![w] = l]
        \/ item' = [item EXCEPT ![w] = Nobody] /\ pc' = [pc EXCEPT ![w] = "idle"]
    BY <1>5 DEF ServeDone, ServePostpone, ServeThrow, Close, Served, Finish, Goto, Labels
  <2> QED BY <1>1, <1>2, <1>3, <2>1
<1> QED BY <1>4, <1>5 DEF Working

LEMMA NoNewSend ==
  ASSUME TypeOK, SentOnce, made' = made, sent' = sent, answered' = answered,
         \/ tasks' = tasks
         \/ \E kind \in {"loop", "read"} : tasks' = Append(tasks, [kind |-> kind, call |-> Nobody]),
         \A v \in Workers : pc'[v] = "send" => pc[v] = "send" /\ item'[v] = item[v]
  PROVE  SentOnce'
<1> DEFINE OldSends ==
        /\ Len(tasks) \in Nat /\ Len(tasks') \in Nat
        /\ \A i \in 1 .. Len(tasks') : tasks'[i].kind = "send" =>
             i \in 1 .. Len(tasks) /\ tasks'[i] = tasks[i]
<1>1. OldSends
  <2>0. tasks \in Seq(Tasks)
    BY DEF TypeOK, Tasks
  <2>1. CASE tasks' = tasks
    BY <2>0, <2>1, LenProperties
  <2>2. ASSUME NEW kind \in {"loop", "read"}, tasks' = Append(tasks, [kind |-> kind, call |-> Nobody])
        PROVE  OldSends
    <3>1. [kind |-> kind, call |-> Nobody] \in Tasks
      BY DEF Tasks
    <3>2. /\ Len(tasks') = Len(tasks) + 1 /\ \A i \in 1 .. Len(tasks) : tasks'[i] = tasks[i]
          /\ tasks'[Len(tasks) + 1] = [kind |-> kind, call |-> Nobody]
      BY <2>0, <2>2, <3>1, AppendProperties
    <3> QED BY <2>0, <3>2, LenProperties
  <2> QED BY <2>1, <2>2
<1>2. ToBeSent'
  <2> SUFFICES ASSUME NEW i \in 1 .. Len(tasks'), tasks'[i].kind = "send"
               PROVE  /\ tasks'[i].call \in 1 .. made' /\ tasks'[i].call \notin Range(sent')
                      /\ \A j \in 1 .. Len(tasks') : j # i /\ tasks'[j].kind = "send" =>
                           tasks'[j].call # tasks'[i].call
                      /\ \A v \in Workers : pc'[v] = "send" => item'[v] # tasks'[i].call
    BY DEF ToBeSent, SendTask, Sends
  <2>1. i \in 1 .. Len(tasks) /\ tasks'[i] = tasks[i] /\ SendTask(i)
    BY <1>1 DEF SendTask
  <2> QED BY <1>1, <2>1 DEF SentOnce, ToBeSent, SendTask, Sends
<1>3. BeingSent'
  BY DEF SentOnce, BeingSent, Sends
<1> QED BY <1>2, <1>3 DEF SentOnce, WasSent

\* What an appended element adds to a sequence.
LEMMA AppendFacts ==
  ASSUME NEW S, NEW s \in Seq(S), NEW e \in S
  PROVE  /\ Len(s) \in Nat /\ Len(Append(s, e)) = Len(s) + 1 /\ Append(s, e) \in Seq(S)
         /\ \A i \in 1 .. Len(s) : Append(s, e)[i] = s[i]
         /\ Append(s, e)[Len(s) + 1] = e
         /\ Range(Append(s, e)) = Range(s) \cup {e}
<1>1. /\ Len(s) \in Nat /\ Len(Append(s, e)) = Len(s) + 1 /\ Append(s, e) \in Seq(S)
      /\ \A i \in 1 .. Len(s) : Append(s, e)[i] = s[i]
      /\ Append(s, e)[Len(s) + 1] = e
  BY AppendProperties, LenProperties
<1>2. Range(s) = {s[i] : i \in 1 .. Len(s)}
  BY RangeEquality
<1>3. Range(Append(s, e)) = {Append(s, e)[i] : i \in 1 .. Len(s) + 1}
  BY <1>1, RangeEquality
<1> QED BY <1>1, <1>2, <1>3

\* The elements of a sequence are in its range.
LEMMA InRange ==
  ASSUME NEW S, NEW s \in Seq(S)
  PROVE  /\ \A i \in 1 .. Len(s) : s[i] \in Range(s)
         /\ \A k \in Range(s) : \E i \in 1 .. Len(s) : s[i] = k
BY RangeEquality

LEMMA InitSentOnce == Init => SentOnce
BY EmptySeq DEF Init, SentOnce, ToBeSent, BeingSent, WasSent, Sends

LEMMA SentOnceStep == TypeOK /\ Beginning /\ SentOnce /\ [Next]_vars => SentOnce'
<1> SUFFICES ASSUME TypeOK, Beginning, SentOnce, [Next]_vars PROVE SentOnce'
  OBVIOUS
<1> USE DEF appVars, serverVars, readVars, epollVars, bufferVars, workerVars
<1>0. /\ tasks \in Seq(Tasks) /\ sent \in Seq(Calls) /\ answered \in Seq(Calls) /\ made \in Nat
      /\ Len(tasks) \in Nat /\ Len(sent) \in Nat /\ Len(answered) \in Nat
      /\ Len(answered) <= Len(sent) /\ pc \in [Workers -> Labels]
      /\ item \in [Workers -> Calls \cup {Nobody}]
  BY LenProperties, CallsAssumption DEF TypeOK, Tasks
<1>1. CASE Connect \/ ConnectFails \/ Start \/ Arrive \/ ServerCloses
  BY <1>1, NoNewSend DEF Connect, ConnectFails, Start, Arrive, ServerCloses
<1>2. CASE CallFunction
  <2> DEFINE n == made + 1
  <2>1. /\ made' = n /\ n \in Calls /\ tasks' = Append(tasks, [kind |-> "send", call |-> n])
        /\ UNCHANGED <<sent, answered, pc, item>>
    BY <1>0, <1>2, CallsAssumption DEF CallFunction, Calls
  <2>2. [kind |-> "send", call |-> n] \in Tasks
    BY <2>1 DEF Tasks
  <2>3. /\ Len(tasks') = Len(tasks) + 1 /\ \A i \in 1 .. Len(tasks) : tasks'[i] = tasks[i]
        /\ tasks'[Len(tasks) + 1] = [kind |-> "send", call |-> n]
    BY <1>0, <2>1, <2>2, AppendFacts
  <2>4. 1 .. made \subseteq 1 .. n /\ n \notin 1 .. made
    BY <1>0
  <2>5. n \notin Range(sent)
    BY <1>0, <2>4, InRange DEF SentOnce, WasSent
  <2>6. ToBeSent'
    <3> SUFFICES ASSUME NEW i \in 1 .. Len(tasks'), tasks'[i].kind = "send"
                 PROVE  /\ tasks'[i].call \in 1 .. made' /\ tasks'[i].call \notin Range(sent')
                        /\ \A j \in 1 .. Len(tasks') : j # i /\ tasks'[j].kind = "send" =>
                             tasks'[j].call # tasks'[i].call
                        /\ \A w \in Workers : pc'[w] = "send" => item'[w] # tasks'[i].call
      BY DEF ToBeSent, SendTask, Sends
    <3>1. CASE i \in 1 .. Len(tasks)
      <4>1. /\ tasks'[i] = tasks[i] /\ tasks[i].call \in 1 .. made /\ tasks[i].call # n
            /\ tasks[i].call \notin Range(sent)
            /\ \A w \in Workers : pc'[w] = "send" => item'[w] # tasks[i].call
        BY <2>1, <2>3, <2>4, <3>1 DEF SentOnce, ToBeSent, SendTask, Sends
      <4>2. ASSUME NEW j \in 1 .. Len(tasks'), j # i, tasks'[j].kind = "send"
            PROVE  tasks'[j].call # tasks[i].call
        <5>1. CASE j \in 1 .. Len(tasks)
          BY <2>3, <3>1, <4>2, <5>1 DEF SentOnce, ToBeSent, SendTask
        <5>2. CASE j = Len(tasks) + 1
          BY <2>3, <4>1, <5>2
        <5> QED BY <1>0, <2>3, <5>1, <5>2
      <4> QED BY <2>1, <2>4, <4>1, <4>2
    <3>2. CASE i = Len(tasks) + 1
      BY <1>0, <2>1, <2>3, <2>4, <2>5, <3>2 DEF SentOnce, ToBeSent, BeingSent, SendTask, Sends
    <3> QED BY <1>0, <2>3, <3>1, <3>2
  <2>7. BeingSent' /\ WasSent'
    BY <2>1, <2>4 DEF SentOnce, BeingSent, WasSent, Sends
  <2> QED BY <2>1, <2>6, <2>7 DEF SentOnce
<1>3. CASE Answer
  <2>1. /\ UNCHANGED <<made, sent, tasks, pc, item>>
        /\ Len(answered) + 1 \in 1 .. Len(sent)
        /\ answered' = Append(answered, sent[Len(answered) + 1])
    BY <1>0, <1>3 DEF Answer
  <2>2. sent[Len(answered) + 1] \in Calls
    BY <1>0, <2>1, ElementOfSeq
  <2>3. \A i \in 1 .. Len(answered') : answered'[i] = sent[i]
    BY <1>0, <2>1, <2>2, AppendFacts DEF SentOnce
  <2> QED BY <2>1, <2>3 DEF SentOnce, ToBeSent, BeingSent, WasSent, SendTask, Sends
<1>4. ASSUME NEW w \in Workers, TaskStart(w) PROVE SentOnce'
  <2>1. /\ UNCHANGED <<made, sent, answered>> /\ tasks # << >> /\ tasks' = Tail(tasks)
        /\ pc' = [pc EXCEPT ![w] = Head(tasks).kind] /\ item' = [item EXCEPT ![w] = Head(tasks).call]
    BY <1>4 DEF TaskStart, Goto
  <2>2. /\ Len(tasks) \in Nat \ {0} /\ Head(tasks) = tasks[1] /\ Len(tasks') = Len(tasks) - 1
        /\ \A i \in 1 .. Len(tasks') : tasks'[i] = tasks[i + 1]
    BY <2>1, TaskFacts
  <2>3. 1 \in 1 .. Len(tasks)
    BY <2>2
  <2>4. \A i \in 1 .. Len(tasks') : i + 1 \in 1 .. Len(tasks) /\ i + 1 # 1
    BY <2>2
  <2>5. \A v \in Workers :
          /\ v = w => pc'[v] = tasks[1].kind /\ item'[v] = tasks[1].call
          /\ v # w => pc'[v] = pc[v] /\ item'[v] = item[v]
    BY <1>0, <2>1, <2>2
  <2>6. ToBeSent'
    <3> SUFFICES ASSUME NEW i \in 1 .. Len(tasks'), tasks'[i].kind = "send"
                 PROVE  /\ tasks'[i].call \in 1 .. made' /\ tasks'[i].call \notin Range(sent')
                        /\ \A j \in 1 .. Len(tasks') : j # i /\ tasks'[j].kind = "send" =>
                             tasks'[j].call # tasks'[i].call
                        /\ \A v \in Workers : pc'[v] = "send" => item'[v] # tasks'[i].call
      BY DEF ToBeSent, SendTask, Sends
    <3>1. i + 1 \in 1 .. Len(tasks) /\ SendTask(i + 1) /\ tasks'[i] = tasks[i + 1] /\ 1 # i + 1
      BY <2>2, <2>4 DEF SendTask
    <3>2. \A j \in 1 .. Len(tasks') : j # i => j + 1 # i + 1
      BY <2>2
    <3> QED BY <2>1, <2>2, <2>3, <2>4, <2>5, <3>1, <3>2 DEF SentOnce, ToBeSent, SendTask, Sends
  <2>7. BeingSent'
    BY <2>1, <2>3, <2>5 DEF SentOnce, BeingSent, ToBeSent, SendTask, Sends
  <2> QED BY <2>1, <2>6, <2>7 DEF SentOnce, WasSent
<1>5. ASSUME NEW w \in Workers, Send(w) PROVE SentOnce'
  <2>1. /\ UNCHANGED <<made, answered, tasks>> /\ pc[w] = "send"
        /\ \E l \in {"idle", "killed"} : pc' = [pc EXCEPT ![w] = l]
        /\ sent' = sent \/ sent' = Append(sent, item[w])
    BY <1>5 DEF Send, At, Goto, Finish
  <2>2. \A v \in Workers : pc'[v] = "send" => v # w /\ pc[v] = "send"
    BY <1>0, <2>1
  <2>3. \A v \in Workers : v # w => item'[v] = item[v]
    BY <1>0, <1>5 DEF Send, Finish
  <2>4. CASE sent' = sent
    BY <2>1, <2>2, <2>3, <2>4, NoNewSend
  <2>5. CASE sent' = Append(sent, item[w])
    <3>1. item[w] \in Calls /\ item[w] \in 1 .. made /\ item[w] \notin Range(sent)
      BY <1>0, <2>1, NobodyFacts, CallsAssumption DEF SentOnce, BeingSent, Sends, TypeOK
    <3>2. /\ Len(sent') = Len(sent) + 1 /\ \A i \in 1 .. Len(sent) : sent'[i] = sent[i]
          /\ sent'[Len(sent) + 1] = item[w] /\ Range(sent') = Range(sent) \cup {item[w]}
      BY <1>0, <2>5, <3>1, AppendFacts
    <3>3. ToBeSent' /\ BeingSent'
      BY <2>1, <2>2, <2>3, <3>2 DEF SentOnce, ToBeSent, BeingSent, SendTask, Sends
    <3>4. WasSent'
      <4>1. \A i \in 1 .. Len(sent) : sent[i] # item[w]
        BY <1>0, <3>1, InRange
      <4>2. \A i \in 1 .. Len(sent') : i \in 1 .. Len(sent) \/ i = Len(sent) + 1
        BY <1>0, <3>2
      <4> QED BY <2>1, <3>1, <3>2, <4>1, <4>2 DEF SentOnce, WasSent
    <3>5. \A i \in 1 .. Len(answered') : answered'[i] = sent'[i]
      <4>1. \A i \in 1 .. Len(answered) : i \in 1 .. Len(sent)
        BY <1>0
      <4> QED BY <2>1, <3>2, <4>1 DEF SentOnce
    <3> QED BY <3>3, <3>4, <3>5 DEF SentOnce
  <2> QED BY <2>1, <2>4, <2>5
<1>6. ASSUME NEW w \in Workers, Worker(w), ~TaskStart(w), ~Send(w) PROVE SentOnce'
  BY <1>6, WorkerIsWorking, OtherWorker, NoNewSend
<1>7. CASE UNCHANGED vars
  BY <1>7 DEF vars, SentOnce, ToBeSent, BeingSent, WasSent, SendTask, Sends
<1> QED BY <1>1, <1>2, <1>3, <1>4, <1>5, <1>6, <1>7 DEF Next, Application, Network

(***************************************************************************)
(* The callbacks are run in the order of the answers.                      *)
(***************************************************************************)
\* No two answers are to one call.
LEMMA AnsweredOnce ==
  ASSUME TypeOK, SentOnce
  PROVE  /\ Len(answered) \in Nat /\ Len(sent) \in Nat /\ Len(answered) <= Len(sent)
         /\ \A i \in 1 .. Len(answered) : answered[i] = sent[i] /\ answered[i] \in 1 .. made
         /\ \A i, j \in 1 .. Len(answered) : answered[i] = answered[j] => i = j
<1>1. /\ Len(answered) \in Nat /\ Len(sent) \in Nat /\ Len(answered) <= Len(sent)
      /\ \A i \in 1 .. Len(answered) : i \in 1 .. Len(sent)
  BY LenProperties DEF TypeOK
<1> QED BY <1>1 DEF SentOnce, WasSent

\* The buffer and the answers do not change, but for more answers to come.
LEMMA NothingRead ==
  ASSUME TypeOK, InOrder, UNCHANGED <<taken, dropped, buffer, called>>,
         \A i \in 1 .. taken : answered'[i] = answered[i]
  PROVE  InOrder'
<1>1. \A k : Taken(k, answered, taken) => Taken(k, answered', taken')
  BY DEF Taken
<1>2. \A k, l : Before(k, l, answered, taken) => Before(k, l, answered', taken')
  BY DEF Before
<1> QED BY <1>1, <1>2 DEF InOrder

LEMMA InitInOrder == Init => InOrder
<1> SUFFICES ASSUME Init PROVE InOrder
  OBVIOUS
<1>1. << >> \in Seq(Calls) /\ Len(<< >>) = 0 /\ Range(<< >>) = {}
  <2>1. << >> \in Seq(Calls) /\ Len(<< >>) = 0
    BY EmptySeq
  <2>2. \A k \in Range(<< >>) : \E i \in 1 .. Len(<< >>) : << >>[i] = k
    BY <2>1, InRange
  <2> QED BY <2>1, <2>2
<1> QED BY <1>1 DEF Init, InOrder

\* What is in the socket goes to the end of the buffer.
LEMMA ReadStoreInOrder ==
  ASSUME TypeOK, SentOnce, InOrder, NEW w \in Workers, ReadStore(w)
  PROVE  InOrder'
<1> DEFINE n == Len(buffer)
           m == arrived - taken
<1>1. /\ buffer' = buffer \o Unread /\ taken' = arrived
      /\ UNCHANGED <<dropped, called, answered>>
  BY DEF ReadStore, serverVars
<1>2. /\ buffer \in Seq(Calls) /\ n \in Nat /\ taken \in Nat /\ arrived \in Nat
      /\ taken <= arrived /\ arrived <= Len(answered) /\ Len(answered) \in Nat /\ m \in Nat
  BY LenProperties DEF TypeOK
<1>3. /\ Len(buffer') = n + m
      /\ \A a \in 1 .. n : buffer'[a] = buffer[a]
      /\ \A a \in n + 1 .. n + m : buffer'[a] = answered[taken + (a - n)]
  <2>1. /\ Unread \in Seq(Calls) /\ Len(Unread) = m
        /\ \A b \in 1 .. m : Unread[b] = answered[taken + b]
    BY UnreadFacts
  <2>0. buffer \in Seq(Calls) /\ Unread \in Seq(Calls)
    BY <1>2, <2>1
  <2>2. /\ Len(buffer \o Unread) = Len(buffer) + Len(Unread)
        /\ \A a \in 1 .. Len(buffer) + Len(Unread) :
             (buffer \o Unread)[a] = IF a <= Len(buffer) THEN buffer[a]
                                     ELSE Unread[a - Len(buffer)]
    BY ONLY <2>0, ConcatProperties
  <2>3. \A a \in n + 1 .. n + m : a \in 1 .. n + m /\ ~(a <= n) /\ a - n \in 1 .. m
    BY <1>2
  <2>4. \A a \in 1 .. n : a \in 1 .. n + m /\ a <= n
    BY <1>2
  <2> HIDE DEF m
  <2> QED BY <1>1, <2>1, <2>2, <2>3, <2>4
<1>4. /\ 1 .. taken \subseteq 1 .. arrived /\ 1 .. arrived \subseteq 1 .. Len(answered)
      /\ \A a \in n + 1 .. n + m : taken + (a - n) \in (1 .. arrived) \ (1 .. taken)
      /\ \A a \in 1 .. n + m : a \in 1 .. n \/ a \in n + 1 .. n + m
  BY <1>2
<1>5. \A i, j \in 1 .. arrived : answered[i] = answered[j] => i = j
  BY <1>4, AnsweredOnce
<1>6. \A k : Taken(k, answered, taken) => Taken(k, answered', taken')
  BY <1>1, <1>4 DEF Taken
<1>7. \A k, l : Before(k, l, answered, taken) => Before(k, l, answered', taken')
  BY <1>1, <1>4 DEF Before
<1>8. ASSUME NEW i \in (1 .. arrived) \ (1 .. taken) PROVE ~Taken(answered[i], answered, taken)
  BY <1>4, <1>5 DEF Taken
<1>9. ASSUME NEW a \in 1 .. n + m
      PROVE  /\ Taken(buffer'[a], answered', taken') /\ buffer'[a] \notin dropped \cup Range(called)
             /\ \A b \in 1 .. n + m : a < b => Before(buffer'[a], buffer'[b], answered', taken')
  <2>1. CASE a \in 1 .. n
    <3>1. /\ buffer'[a] = buffer[a] /\ Taken(buffer[a], answered, taken)
          /\ buffer[a] \notin dropped \cup Range(called)
      BY <1>3, <2>1 DEF InOrder
    <3>2. ASSUME NEW b \in 1 .. n + m, a < b PROVE Before(buffer'[a], buffer'[b], answered', taken')
      <4>1. CASE b \in 1 .. n
        BY <1>3, <1>7, <2>1, <3>2, <4>1 DEF InOrder
      <4>2. CASE b \in n + 1 .. n + m
        <5>1. PICK i \in 1 .. taken : answered[i] = buffer[a]
          BY <3>1 DEF Taken
        <5>2. i \in 1 .. arrived /\ taken + (b - n) \in 1 .. arrived /\ i < taken + (b - n)
          BY <1>2, <4>2
        <5> QED BY <1>1, <1>3, <3>1, <4>2, <5>1, <5>2 DEF Before
      <4> QED BY <1>4, <4>1, <4>2
    <3> QED BY <1>6, <3>1, <3>2
  <2>2. CASE a \in n + 1 .. n + m
    <3>1. /\ buffer'[a] = answered[taken + (a - n)]
          /\ taken + (a - n) \in (1 .. arrived) \ (1 .. taken)
      BY <1>3, <1>4, <2>2
    <3>2. Taken(buffer'[a], answered', taken')
      BY <1>1, <3>1 DEF Taken
    <3>3. buffer'[a] \notin dropped \cup Range(called)
      BY <1>8, <3>1 DEF InOrder
    <3>4. ASSUME NEW b \in 1 .. n + m, a < b PROVE Before(buffer'[a], buffer'[b], answered', taken')
      <4>1. b \in n + 1 .. n + m
        BY <1>2, <2>2, <3>4
      <4>2. taken + (b - n) \in 1 .. arrived /\ taken + (a - n) < taken + (b - n)
        BY <1>2, <1>4, <2>2, <3>4, <4>1
      <4> QED BY <1>1, <1>3, <3>1, <4>1, <4>2 DEF Before
    <3> QED BY <3>2, <3>3, <3>4
  <2> QED BY <1>4, <2>1, <2>2
<1>10. ASSUME NEW i \in 1 .. arrived
       PROVE  \/ answered[i] \in NoCallback \cup dropped \cup Range(called)
              \/ \E a \in 1 .. n + m : buffer'[a] = answered[i]
  <2>1. CASE i \in 1 .. taken
    <3>1. 1 .. n \subseteq 1 .. n + m
      BY <1>2
    <3> QED BY <1>3, <2>1, <3>1 DEF InOrder
  <2>2. CASE i \notin 1 .. taken
    <3>1. n + (i - taken) \in n + 1 .. n + m /\ n + (i - taken) \in 1 .. n + m
      BY <1>2, <2>2
    <3>2. taken + ((n + (i - taken)) - n) = i
      BY <1>2
    <3> QED BY <1>3, <3>1, <3>2
  <2> QED BY <2>1, <2>2
<1>11. \A k \in dropped \cup Range(called) : Taken(k, answered', taken')
  BY <1>6 DEF InOrder
<1> QED BY <1>1, <1>3, <1>9, <1>10, <1>11 DEF InOrder

\* What there is no room for is dropped.
LEMMA ReadNoRoomInOrder ==
  ASSUME TypeOK, SentOnce, InOrder, NEW w \in Workers, ReadNoRoom(w)
  PROVE  InOrder'
<1>1. /\ taken' = arrived /\ dropped' = dropped \cup Range(Unread)
      /\ UNCHANGED <<buffer, called, answered>>
  BY DEF ReadNoRoom, serverVars
<1>2. /\ taken \in Nat /\ arrived \in Nat /\ taken <= arrived /\ arrived <= Len(answered)
      /\ Len(answered) \in Nat
  BY LenProperties DEF TypeOK
<1>3. /\ 1 .. taken \subseteq 1 .. arrived /\ 1 .. arrived \subseteq 1 .. Len(answered)
      /\ \A b \in 1 .. arrived - taken : taken + b \in (1 .. arrived) \ (1 .. taken)
      /\ \A i \in (1 .. arrived) \ (1 .. taken) :
           i - taken \in 1 .. arrived - taken /\ taken + (i - taken) = i
  BY <1>2
<1>4. \A k : k \in Range(Unread) <=> \E i \in (1 .. arrived) \ (1 .. taken) : answered[i] = k
  <2>1. /\ Unread \in Seq(Calls) /\ Len(Unread) = arrived - taken
        /\ \A b \in 1 .. arrived - taken : Unread[b] = answered[taken + b]
    BY UnreadFacts
  <2>2. Range(Unread) = {Unread[b] : b \in 1 .. arrived - taken}
    BY <2>1, RangeEquality
  <2> QED BY <1>3, <2>1, <2>2
<1>5. \A i, j \in 1 .. arrived : answered[i] = answered[j] => i = j
  BY <1>3, AnsweredOnce
<1>6. \A k : Taken(k, answered, taken) => Taken(k, answered', taken')
  BY <1>1, <1>3 DEF Taken
<1>7. \A k, l : Before(k, l, answered, taken) => Before(k, l, answered', taken')
  BY <1>1, <1>3 DEF Before
<1>8. \A k \in Range(Unread) : Taken(k, answered', taken') /\ ~Taken(k, answered, taken)
  BY <1>1, <1>3, <1>4, <1>5 DEF Taken
<1>9. \A i \in 1 .. arrived : i \notin 1 .. taken => answered[i] \in Range(Unread)
  BY <1>4
<1> QED BY <1>1, <1>6, <1>7, <1>8, <1>9 DEF InOrder

\* The first answer leaves the buffer, and its callback is run if there is one.
LEMMA ServeInOrder ==
  ASSUME TypeOK, SentOnce, InOrder, buffer # << >>, buffer' = Tail(buffer),
         UNCHANGED <<taken, dropped, answered>>,
         \/ called' = Append(called, Head(buffer))
         \/ called' = called /\ Head(buffer) \in NoCallback
  PROVE  InOrder'
<1> DEFINE n == Len(buffer)
<1>1. /\ buffer \in Seq(Calls) /\ called \in Seq(Calls) /\ n \in Nat \ {0}
      /\ Head(buffer) = buffer[1] /\ buffer[1] \in Calls
      /\ Len(buffer') = n - 1 /\ \A a \in 1 .. n - 1 : buffer'[a] = buffer[a + 1]
  BY HeadTailProperties, EmptySeq DEF TypeOK
<1>2. /\ 1 \in 1 .. n
      /\ \A a \in 1 .. n - 1 : a + 1 \in 1 .. n /\ 1 < a + 1
      /\ \A a, b \in 1 .. n - 1 : a < b => a + 1 < b + 1
      /\ \A a \in 1 .. n : a = 1 \/ (a - 1 \in 1 .. n - 1 /\ (a - 1) + 1 = a)
  BY <1>1
<1>3. Range(called') \in {Range(called), Range(called) \cup {buffer[1]}}
  <2>1. Range(Append(called, buffer[1])) = Range(called) \cup {buffer[1]}
    BY <1>1, AppendFacts
  <2> QED BY <1>1, <2>1
<1>4. /\ \A k : Taken(k, answered', taken') <=> Taken(k, answered, taken)
      /\ \A k, l : Before(k, l, answered', taken') <=> Before(k, l, answered, taken)
  BY DEF Taken, Before
<1>5. \A a \in 1 .. n - 1 : buffer[a + 1] # buffer[1]
  <2>1. /\ Len(answered) \in Nat /\ taken \in Nat /\ taken <= Len(answered)
        /\ \A i, j \in 1 .. Len(answered) : answered[i] = answered[j] => i = j
    BY AnsweredOnce DEF TypeOK
  <2>2. \A i, j \in 1 .. taken : i < j => answered[i] # answered[j]
    BY <2>1
  <2> QED BY <1>2, <2>2 DEF InOrder, Before
<1>6. /\ Taken(buffer[1], answered, taken)
      /\ called' # called => buffer[1] \in Range(called')
      /\ buffer[1] \in NoCallback \cup Range(called')
      /\ Range(called) \subseteq Range(called')
  <2>1. Range(Append(called, buffer[1])) = Range(called) \cup {buffer[1]}
    BY <1>1, AppendFacts
  <2>2. Taken(buffer[1], answered, taken)
    BY <1>2 DEF InOrder
  <2> QED BY <1>1, <2>1, <2>2
<1>7. ASSUME NEW a \in 1 .. n - 1
      PROVE  /\ Taken(buffer'[a], answered', taken') /\ buffer'[a] \notin dropped \cup Range(called')
             /\ \A b \in 1 .. n - 1 : a < b => Before(buffer'[a], buffer'[b], answered', taken')
  BY <1>1, <1>2, <1>3, <1>4, <1>5 DEF InOrder
<1>8. ASSUME NEW i \in 1 .. taken
      PROVE  \/ answered[i] \in NoCallback \cup dropped \cup Range(called')
             \/ \E a \in 1 .. n - 1 : buffer'[a] = answered[i]
  <2>1. CASE answered[i] \in NoCallback \cup dropped \cup Range(called)
    BY <1>6, <2>1
  <2>2. CASE \E a \in 1 .. n : buffer[a] = answered[i]
    BY <1>1, <1>2, <1>6, <2>2
  <2> QED BY <2>1, <2>2 DEF InOrder
<1>9. \A k \in dropped \cup Range(called') : Taken(k, answered', taken')
  BY <1>3, <1>4, <1>6 DEF InOrder
<1> QED BY <1>1, <1>7, <1>8, <1>9 DEF InOrder

LEMMA InOrderStep == TypeOK /\ SentOnce /\ InOrder /\ [Next]_vars => InOrder'
<1> SUFFICES ASSUME TypeOK, SentOnce, InOrder, [Next]_vars PROVE InOrder'
  OBVIOUS
<1> USE DEF appVars, serverVars, readVars, epollVars, bufferVars, workerVars
<1>1. CASE Application \/ Arrive \/ ServerCloses
  BY <1>1, NothingRead
     DEF Application, Connect, ConnectFails, Start, CallFunction, Arrive, ServerCloses
<1>2. CASE Answer
  <2>1. /\ answered \in Seq(Calls) /\ sent \in Seq(Calls) /\ Len(answered) \in Nat
        /\ taken \in Nat /\ taken <= Len(answered) /\ Len(sent) \in Nat
    BY LenProperties DEF TypeOK
  <2>2. /\ Len(answered) + 1 \in 1 .. Len(sent) /\ UNCHANGED <<taken, dropped, buffer, called>>
        /\ answered' = Append(answered, sent[Len(answered) + 1])
    BY <1>2, <2>1 DEF Answer
  <2>3. sent[Len(answered) + 1] \in Calls
    BY <2>1, <2>2, ElementOfSeq
  <2>4. \A i \in 1 .. taken : answered'[i] = answered[i]
    BY <2>1, <2>2, <2>3, AppendFacts
  <2> QED BY <2>2, <2>4, NothingRead
<1>3. ASSUME NEW w \in Workers, Worker(w) PROVE InOrder'
  <2>1. CASE ReadStore(w)
    BY <2>1, ReadStoreInOrder
  <2>2. CASE ReadNoRoom(w)
    BY <2>2, ReadNoRoomInOrder
  <2>3. CASE ServeCall(w) \/ ServeThrow(w)
    BY <2>3, ServeInOrder DEF ServeCall, ServeThrow
  <2>4. CASE ~ReadStore(w) /\ ~ReadNoRoom(w) /\ ~ServeCall(w) /\ ~ServeThrow(w)
    <3>1. UNCHANGED <<taken, dropped, buffer, called, answered>>
      BY <1>3, <2>4, WorkerIsWorking
         DEF Working, TaskStart, LoopWatch, LoopWait, LoopDispatch, Send, Lookup, ReadLock,
             ReadNothing, ServeLock, ServeDone, ServePostpone, CallbackReturns, DropWatch,
             DropLookup, Erase, Close
    <3> QED BY <3>1, NothingRead
  <2> QED BY <2>1, <2>2, <2>3, <2>4
<1>4. CASE UNCHANGED vars
  BY <1>4, NothingRead DEF vars
<1> QED BY <1>1, <1>2, <1>3, <1>4 DEF Next, Network

(***************************************************************************)
(* There is one event loop.                                                *)
(***************************************************************************)
\* A set that is mapped one to one into a small one is as small.
LEMMA NoMore ==
  ASSUME NEW S, NEW T, NEW f, \A x \in T : f[x] \in S, \A x, y \in T : f[x] = f[y] => x = y
  PROVE  /\ S = {} => T = {}
         /\ AtMostOne(S) => AtMostOne(T)
         /\ AtMostTwo(S) => AtMostTwo(T)
<1>1. S = {} => T = {}
  OBVIOUS
<1>2. AtMostOne(S) => AtMostOne(T)
  BY DEF AtMostOne
<1>3. ASSUME AtMostTwo(S) PROVE AtMostTwo(T)
  <2> SUFFICES ASSUME NEW x \in T, NEW y \in T, NEW z \in T PROVE x = y \/ y = z \/ x = z
    BY DEF AtMostTwo
  <2>1. f[x] \in S /\ f[y] \in S /\ f[z] \in S
    OBVIOUS
  <2>2. f[x] = f[y] \/ f[y] = f[z] \/ f[x] = f[z]
    BY <1>3, <2>1 DEF AtMostTwo
  <2> QED BY <2>2
<1> QED BY <1>1, <1>2, <1>3

\* So is a part of it, and one element more makes one more.
LEMMA NoMoreThan ==
  ASSUME NEW S, NEW T, NEW e
  PROVE  /\ T \subseteq S => /\ S = {} => T = {}
                             /\ AtMostOne(S) => AtMostOne(T)
                             /\ AtMostTwo(S) => AtMostTwo(T)
         /\ T \subseteq S \cup {e} => /\ S = {} => AtMostOne(T)
                                      /\ AtMostOne(S) => AtMostTwo(T)
BY DEF AtMostOne, AtMostTwo

\* One task more.
LEMMA OneTaskMore ==
  ASSUME TypeOK, NEW t \in Tasks, tasks' \in {tasks, Append(tasks, t)}
  PROVE  /\ Len(tasks) \in Nat /\ Len(tasks') \in Nat
         /\ \A i \in 1 .. Len(tasks) : i \in 1 .. Len(tasks') /\ tasks'[i] = tasks[i]
         /\ \A i \in 1 .. Len(tasks') :
              i \in 1 .. Len(tasks) \/ (i = Len(tasks) + 1 /\ tasks'[i] = t)
<1>1. tasks \in Seq(Tasks)
  BY DEF TypeOK, Tasks
<1>2. Len(tasks) \in Nat
  BY <1>1, LenProperties
<1>3. CASE tasks' = tasks
  BY <1>2, <1>3
<1>4. CASE tasks' = Append(tasks, t)
  <2>1. /\ Len(tasks') = Len(tasks) + 1 /\ \A i \in 1 .. Len(tasks) : tasks'[i] = tasks[i]
        /\ tasks'[Len(tasks) + 1] = t
    BY <1>1, <1>4, AppendFacts
  <2> QED BY <1>2, <2>1
<1> QED BY <1>3, <1>4

\* The first task goes to a worker, and the others move up.
LEMMA OneTaskLess ==
  ASSUME TypeOK, NEW w \in Workers, TaskStart(w)
  PROVE  /\ Len(tasks) \in Nat \ {0} /\ Len(tasks') = Len(tasks) - 1
         /\ \A i \in 1 .. Len(tasks') :
              i \in Nat /\ i + 1 \in 1 .. Len(tasks) /\ i + 1 # 1 /\ tasks'[i] = tasks[i + 1]
         /\ pc[w] = "idle" /\ pc' = [pc EXCEPT ![w] = tasks[1].kind]
         /\ tasks[1].kind \in {"send", "loop", "read"}
<1>1. /\ tasks # << >> /\ tasks' = Tail(tasks)
      /\ pc[w] = "idle" /\ pc' = [pc EXCEPT ![w] = Head(tasks).kind]
  BY DEF TaskStart, Goto, At
<1>2. /\ Len(tasks) \in Nat \ {0} /\ Head(tasks) = tasks[1] /\ Len(tasks') = Len(tasks) - 1
      /\ \A i \in 1 .. Len(tasks) - 1 : tasks'[i] = tasks[i + 1]
      /\ Head(tasks).kind \in {"send", "loop", "read"}
  BY <1>1, TaskFacts
<1>3. \A i \in 1 .. Len(tasks') :
        i \in Nat /\ i + 1 \in 1 .. Len(tasks) /\ i + 1 # 1 /\ i \in 1 .. Len(tasks) - 1
  BY <1>2
<1> QED BY <1>1, <1>2, <1>3

LoopLabels == {"loop", "wait", "dispatch"}

\* What the others do to the event loop: they may end it, but not begin it.
LEMMA OtherLoop ==
  ASSUME TypeOK, NEW w \in Workers, Working(w), ~TaskStart(w), ~LoopWatch(w)
  PROVE  /\ app' = app /\ (watched' => watched)
         /\ tasks' \in {tasks, Append(tasks, [kind |-> "read", call |-> Nobody])}
         /\ \A v \in Workers : /\ pc'[v] = "loop" => pc[v] = "loop"
                               /\ pc'[v] \in LoopLabels => pc[v] \in LoopLabels
<1> USE DEF appVars, serverVars, readVars, epollVars, bufferVars, workerVars
<1>1. /\ app' = app /\ (watched' => watched)
      /\ tasks' \in {tasks, Append(tasks, [kind |-> "read", call |-> Nobody])}
  BY DEF Working, LoopWait, LoopDispatch, Send, Lookup, ReadLock, ReadStore, ReadNoRoom,
         ReadNothing, ServeLock, ServeDone, ServePostpone, ServeCall, CallbackReturns, ServeThrow,
         DropWatch, DropLookup, Erase, Close
<1>2. pc \in [Workers -> Labels]
  BY DEF TypeOK
<1>3. CASE LoopWait(w) \/ LoopDispatch(w)
  <2>1. pc[w] \in LoopLabels /\ \E l \in {"wait", "dispatch"} : pc' = [pc EXCEPT ![w] = l]
    BY <1>3 DEF LoopWait, LoopDispatch, At, Goto, LoopLabels
  <2> QED BY <1>1, <1>2, <2>1 DEF LoopLabels
<1>4. CASE Send(w) \/ Lookup(w) \/ ReadLock(w) \/ ReadStore(w) \/ ReadNoRoom(w) \/ ReadNothing(w)
           \/ ServeLock(w) \/ ServeDone(w) \/ ServePostpone(w) \/ ServeCall(w)
           \/ CallbackReturns(w) \/ ServeThrow(w) \/ DropWatch(w) \/ DropLookup(w) \/ Erase(w)
           \/ Close(w)
  <2>1. \E l \in Labels \ {"loop", "wait", "dispatch"} : pc' = [pc EXCEPT ![w] = l]
    BY <1>4 DEF Send, Lookup, ReadLock, ReadStore, ReadNoRoom, ReadNothing, ServeLock, ServeDone,
                ServePostpone, ServeCall, CallbackReturns, ServeThrow, DropWatch, DropLookup, Erase,
                Close, Served, Finish, Goto, Labels
  <2> QED BY <1>1, <1>2, <2>1 DEF LoopLabels
<1> QED BY <1>3, <1>4 DEF Working

\* The tasks and the workers of the event loop do not get more.
LEMMA LoopsKept ==
  ASSUME TypeOK, NEW t \in Tasks, tasks' \in {tasks, Append(tasks, t)}, t.kind # "loop",
         \A v \in Workers : pc'[v] \in LoopLabels => pc[v] \in LoopLabels
  PROVE  /\ Loops' \subseteq Loops
         /\ (\E i \in 1 .. Len(tasks') : tasks'[i].kind = "loop") =>
              \E i \in 1 .. Len(tasks) : tasks[i].kind = "loop"
<1>1. \A i \in 1 .. Len(tasks') : tasks'[i].kind = "loop" =>
        i \in 1 .. Len(tasks) /\ tasks[i].kind = "loop"
  BY OneTaskMore
<1> QED BY <1>1 DEF Loops, LoopLabels

LEMMA InitOneLoop == Init => OneLoop
BY EmptySeq DEF Init, OneLoop, Loops, AtMostOne

LEMMA OneLoopStep == TypeOK /\ Beginning /\ OneLoop /\ [Next]_vars => OneLoop'
<1> SUFFICES ASSUME TypeOK, Beginning, OneLoop, [Next]_vars PROVE OneLoop'
  OBVIOUS
<1> USE DEF appVars, serverVars, readVars, epollVars, bufferVars, workerVars
<1>0. /\ pc \in [Workers -> Labels] /\ [kind |-> "read", call |-> Nobody] \in Tasks
      /\ [kind |-> "loop", call |-> Nobody] \in Tasks
  BY DEF TypeOK, Tasks
<1>1. CASE Connect \/ ConnectFails \/ Network \/ ServerCloses
  <2>1. /\ tasks' = tasks /\ pc' = pc /\ watched' = watched /\ (app' = app \/ app # "started")
    BY <1>1 DEF Connect, ConnectFails, Network, Answer, Arrive, ServerCloses
  <2> QED BY <2>1 DEF OneLoop, Pending, Loops
<1>2. CASE Start
  <2> DEFINE t == [kind |-> "loop", call |-> Nobody]
  <2>1. /\ ~watched' /\ tasks = << >> /\ tasks' = Append(tasks, t)
        /\ \A v \in Workers : pc'[v] = "idle"
    BY <1>2 DEF Start, Beginning
  <2>2. /\ Len(tasks) = 0
        /\ \A i \in 1 .. Len(tasks') : i \in 1 .. Len(tasks) \/ i = Len(tasks) + 1
    BY <1>0, <2>1, OneTaskMore, EmptySeq
  <2>3. \A x \in Loops' : x = <<"task", 1>>
    BY <2>1, <2>2 DEF Loops
  <2> QED BY <2>1, <2>3 DEF OneLoop, AtMostOne
<1>3. CASE CallFunction
  <2> DEFINE t == [kind |-> "send", call |-> made + 1]
  <2>1. /\ app' = app /\ app = "started" /\ watched' = watched /\ pc' = pc
        /\ tasks' = Append(tasks, t) /\ t \in Tasks /\ t.kind = "send"
    BY <1>3, CallsAssumption DEF CallFunction, Tasks, Calls, TypeOK
  <2> HIDE DEF t
  <2>2. /\ Loops' \subseteq Loops
        /\ (\E i \in 1 .. Len(tasks') : tasks'[i].kind = "loop") =>
             \E i \in 1 .. Len(tasks) : tasks[i].kind = "loop"
    BY <2>1, LoopsKept
  <2>3. Pending' => Pending
    BY <2>1, <2>2 DEF Pending
  <2> QED BY <2>1, <2>2, <2>3, NoMoreThan DEF OneLoop
<1>4. ASSUME NEW w \in Workers, TaskStart(w) PROVE OneLoop'
  <2>1. /\ Len(tasks) \in Nat \ {0} /\ Len(tasks') = Len(tasks) - 1
        /\ \A i \in 1 .. Len(tasks') :
             i \in Nat /\ i + 1 \in 1 .. Len(tasks) /\ i + 1 # 1 /\ tasks'[i] = tasks[i + 1]
        /\ pc[w] = "idle" /\ pc' = [pc EXCEPT ![w] = tasks[1].kind]
    BY <1>4, OneTaskLess
  <2>2. app' = app /\ watched' = watched
    BY <1>4 DEF TaskStart
  <2>3. 1 \in 1 .. Len(tasks)
    BY <2>1
  <2>4. Pending' => Pending
    BY <1>0, <2>1, <2>2, <2>3 DEF Pending
  <2>5. AtMostOne(Loops')
    <3> SUFFICES ASSUME NEW x \in Loops', NEW y \in Loops' PROVE x = y
      BY DEF AtMostOne
    <3>1. \A v \in Workers : pc'[v] \in LoopLabels =>
            (v # w /\ pc[v] \in LoopLabels) \/ (v = w /\ tasks[1].kind = "loop")
      BY <1>0, <2>1, OneTaskLess, <1>4 DEF LoopLabels
    <3> DEFINE Was(z, o) ==
                 \/ \E i \in 1 .. Len(tasks') : z = <<"task", i>> /\ o = <<"task", i + 1>>
                 \/ \E v \in Workers : z = <<"worker", v>> /\ v # w /\ o = z
                 \/ z = <<"worker", w>> /\ o = <<"task", 1>>
    <3>2. ASSUME NEW z \in Loops' PROVE \E o \in Loops : Was(z, o)
      <4>1. CASE \E i \in 1 .. Len(tasks') : z = <<"task", i>> /\ tasks'[i].kind = "loop"
        <5>1. PICK i \in 1 .. Len(tasks') : z = <<"task", i>> /\ tasks'[i].kind = "loop"
          BY <4>1
        <5>2. <<"task", i + 1>> \in Loops
          BY <2>1, <5>1 DEF Loops
        <5> QED BY <5>1, <5>2
      <4>2. CASE \E v \in Workers : z = <<"worker", v>> /\ pc'[v] \in LoopLabels
        <5>1. PICK v \in Workers : z = <<"worker", v>> /\ pc'[v] \in LoopLabels
          BY <4>2
        <5>2. CASE v # w
          <6>1. <<"worker", v>> \in Loops
            BY <3>1, <5>1, <5>2 DEF Loops, LoopLabels
          <6> QED BY <5>1, <5>2, <6>1
        <5>3. CASE v = w
          <6>1. <<"task", 1>> \in Loops
            BY <2>3, <3>1, <5>1, <5>3 DEF Loops
          <6> QED BY <5>1, <5>3, <6>1
        <5> QED BY <5>2, <5>3
      <4> QED BY <4>1, <4>2 DEF Loops, LoopLabels
    <3>3. PICK o \in Loops : Was(x, o)
      BY <3>2
    <3>4. PICK p \in Loops : Was(y, p)
      BY <3>2
    <3>5. o = p
      BY DEF OneLoop, AtMostOne
    <3>6. \A i \in 1 .. Len(tasks') : i \in Nat /\ i + 1 # 1
      BY <2>1
    <3>7. CASE \E i \in 1 .. Len(tasks') : x = <<"task", i>> /\ o = <<"task", i + 1>>
      <4>1. PICK i \in 1 .. Len(tasks') : x = <<"task", i>> /\ o = <<"task", i + 1>>
        BY <3>7
      <4>2. PICK j \in 1 .. Len(tasks') : y = <<"task", j>> /\ o = <<"task", j + 1>>
        BY <3>4, <3>5, <3>6, <4>1
      <4>3. i + 1 = j + 1 /\ i \in Nat /\ j \in Nat
        BY <3>6, <4>1, <4>2
      <4> QED BY <4>1, <4>2, <4>3
    <3>8. CASE \E v \in Workers : x = <<"worker", v>> /\ v # w /\ o = x
      BY <3>4, <3>5, <3>8
    <3>9. CASE x = <<"worker", w>> /\ o = <<"task", 1>>
      BY <3>4, <3>5, <3>6, <3>9
    <3> QED BY <3>3, <3>7, <3>8, <3>9
  <2> QED BY <2>2, <2>4, <2>5 DEF OneLoop
<1>5. ASSUME NEW w \in Workers, LoopWatch(w) PROVE OneLoop'
  <2>1. pc[w] = "loop" /\ pc' = [pc EXCEPT ![w] = "wait"] /\ tasks' = tasks /\ app' = app
    BY <1>5 DEF LoopWatch, At, Goto
  <2>2. Loops' \subseteq Loops /\ <<"worker", w>> \in Loops
    BY <1>0, <2>1 DEF Loops
  <2>3. \A z \in Loops : z = <<"worker", w>>
    BY <2>2 DEF OneLoop, AtMostOne
  <2>4. ~Pending'
    <3>1. app = "started"
      BY <2>1 DEF Beginning
    <3>2. \A i \in 1 .. Len(tasks) : tasks[i].kind # "loop"
      BY <2>3 DEF Loops
    <3>3. \A v \in Workers : pc'[v] # "loop"
      <4>1. \A v \in Workers : pc[v] = "loop" => <<"worker", v>> \in Loops
        BY DEF Loops
      <4>2. \A v \in Workers : pc[v] = "loop" => v = w
        BY <2>3, <4>1
      <4> QED BY <1>0, <2>1, <4>2
    <3> QED BY <2>1, <3>1, <3>2, <3>3 DEF Pending
  <2> QED BY <2>2, <2>4, NoMoreThan DEF OneLoop
<1>6. ASSUME NEW w \in Workers, Worker(w), ~TaskStart(w), ~LoopWatch(w) PROVE OneLoop'
  <2> DEFINE t == [kind |-> "read", call |-> Nobody]
  <2>1. /\ app' = app /\ (watched' => watched) /\ tasks' \in {tasks, Append(tasks, t)}
        /\ \A v \in Workers : /\ pc'[v] = "loop" => pc[v] = "loop"
                              /\ pc'[v] \in LoopLabels => pc[v] \in LoopLabels
    BY <1>6, WorkerIsWorking, OtherLoop
  <2>2. t \in Tasks /\ t.kind # "loop"
    BY <1>0
  <2> HIDE DEF t
  <2>3. /\ Loops' \subseteq Loops
        /\ (\E i \in 1 .. Len(tasks') : tasks'[i].kind = "loop") =>
             \E i \in 1 .. Len(tasks) : tasks[i].kind = "loop"
    BY <2>1, <2>2, LoopsKept
  <2>4. Pending' => Pending
    BY <2>1, <2>3 DEF Pending
  <2> QED BY <2>1, <2>3, <2>4, NoMoreThan DEF OneLoop
<1>7. CASE UNCHANGED vars
  BY <1>7 DEF vars, OneLoop, Loops, Pending
<1> QED BY <1>1, <1>2, <1>3, <1>4, <1>5, <1>6, <1>7 DEF Next, Application

(***************************************************************************)
(* The inductive invariant of every application, and type correctness.     *)
(***************************************************************************)
LEMMA IInvInductive == (Init => IInv) /\ (IInv /\ [Next]_vars => IInv')
BY InitTypes, InitBeginning, InitSentOnce, InitInOrder, InitOneLoop, TypesStep, BeginningStep,
   SentOnceStep, InOrderStep, OneLoopStep DEF IInv

\* The variables have their types: in particular the buffer keeps within its
\* room, epoll watches no closed descriptor, and the buffer's mutex is held by
\* the worker that stands where the code holds it, and by no other.
THEOREM TypeCorrect == Spec => []TypeOK
<1>1. Init => IInv
  BY IInvInductive
<1>2. IInv /\ [Next]_vars => IInv'
  BY IInvInductive
<1>3. IInv => TypeOK
  BY DEF IInv
<1> QED BY <1>1, <1>2, <1>3, PTL DEF Spec

(***************************************************************************)
(* An application that waits has one call on its way.                      *)
(***************************************************************************)
\* The counters of such an application are next to each other.
NextToEachOther ==
  /\ taken \in Nat /\ arrived \in Nat /\ made \in Nat /\ Len(answered) \in Nat
  /\ Len(sent) \in Nat /\ Len(called) \in Nat /\ Len(buffer) \in Nat
  /\ taken <= arrived /\ arrived <= Len(answered) /\ Len(answered) <= Len(sent)
  /\ Len(sent) <= made /\ made <= Len(called) + 1 /\ Len(called) <= taken
  /\ Len(buffer) = taken - Len(called)
  /\ \A i \in 1 .. Len(answered) : answered[i] = i

LEMMA TurnFacts ==
  ASSUME IInv, InTurn
  PROVE  NextToEachOther
<1>1. /\ taken \in Nat /\ arrived \in Nat /\ made \in Nat /\ Len(answered) \in Nat
      /\ Len(sent) \in Nat /\ Len(called) \in Nat /\ Len(buffer) \in Nat
      /\ taken <= arrived /\ arrived <= Len(answered) /\ Len(answered) <= Len(sent)
  BY LenProperties DEF IInv, TypeOK
<1>2. Len(sent) <= made
  <2>1. CASE Len(sent) = 0
    BY <1>1, <2>1
  <2>2. CASE Len(sent) # 0
    <3>1. Len(sent) \in 1 .. Len(sent)
      BY <1>1, <2>2
    <3>2. sent[Len(sent)] = Len(sent) /\ sent[Len(sent)] \in 1 .. made
      BY <3>1 DEF IInv, SentOnce, WasSent, InTurn
    <3> QED BY <1>1, <3>2
  <2> QED BY <2>1, <2>2
<1>3. \A i \in 1 .. Len(answered) : answered[i] = i
  <2>1. \A i \in 1 .. Len(answered) : i \in 1 .. Len(sent)
    BY <1>1
  <2> QED BY <2>1 DEF IInv, SentOnce, InTurn
<1> QED BY <1>1, <1>2, <1>3 DEF InTurn, NextToEachOther

\* Every answer fits, and every answer has its callback.
LEMMA NothingIsLost ==
  ASSUME IInv, InTurn, Tame(made), NEW w \in Workers
  PROVE  ~ReadNoRoom(w) /\ ~ServeThrow(w)
<1> NextToEachOther
  BY TurnFacts
<1> USE DEF NextToEachOther
<1>1. ASSUME ReadNoRoom(w) PROVE FALSE
  <2>1. TypeOK /\ buffer \in Seq(Calls) /\ Unread # << >> /\ SizeOf[buffer \o Unread] > Capacity
    BY <1>1 DEF ReadNoRoom, IInv, TypeOK
  <2>2. /\ Unread \in Seq(Calls) /\ Len(Unread) = arrived - taken /\ taken # arrived
        /\ \A b \in 1 .. arrived - taken : Unread[b] = answered[taken + b]
    BY <2>1, UnreadFacts
  <2>3. arrived - taken = 1 /\ taken + 1 = made /\ Len(buffer) = 0 /\ Len(Unread) = 1
    BY <2>2
  <2>4. buffer \o Unread = Unread
    <3>1. buffer = << >>
      BY <2>1, <2>3, EmptySeq
    <3> QED BY <2>2, <3>1, ConcatEmptySeq
  <2>5. Head(Unread) = made
    <3>1. Head(Unread) = Unread[1]
      BY <2>1, <2>2
    <3>2. Unread[1] = answered[taken + 1] /\ taken + 1 \in 1 .. Len(answered)
      BY <2>2, <2>3
    <3>3. answered[taken + 1] = taken + 1
      BY <3>2
    <3> QED BY <2>3, <3>1, <3>2, <3>3
  <2>6. Tail(Unread) = << >>
    <3>1. Tail(Unread) \in Seq(Calls) /\ Len(Tail(Unread)) = Len(Unread) - 1
      BY <2>1, <2>2, HeadTailProperties
    <3>2. Len(Tail(Unread)) = 0
      BY <2>3, <3>1
    <3> QED BY <3>1, <3>2, EmptySeq
  <2>7. SizeOf[Unread] = HeaderSize + Body(made) + SizeOf[<< >>]
    BY <2>1, <2>2, <2>5, <2>6, SizeFacts
  <2>8. SizeOf[<< >>] = 0
    BY EmptySeq, SizeFacts
  <2>9. made \notin Large
    <3>1. made \in 1 .. made
      BY <2>3
    <3> QED BY <3>1 DEF Tame, Unawaited
  <2>10. Body(made) = SmallBody /\ SmallBody \in Nat /\ Capacity \in Nat /\ SmallBody + 2 <= Capacity
    BY <2>9, SizesAssumption DEF Body
  <2>11. SizeOf[Unread] = 2 + SmallBody
    <3>1. SizeOf[Unread] = 2 + SmallBody + 0
      BY <2>7, <2>8, <2>10, Zenon DEF HeaderSize
    <3> QED BY <2>10, <3>1
  <2>12. 2 + SmallBody > Capacity
    BY <2>1, <2>4, <2>11
  <2> QED BY <2>10, <2>12
<1>2. ASSUME ServeThrow(w) PROVE FALSE
  <2>1. buffer \in Seq(Calls) /\ buffer # << >> /\ Head(buffer) \in NoCallback
    BY <1>2 DEF ServeThrow, IInv, TypeOK
  <2>2. Head(buffer) = buffer[1] /\ Len(buffer) \in Nat \ {0}
    BY <2>1, EmptySeq
  <2>3. buffer[1] = Len(called) + 1
    BY <2>2 DEF InTurn
  <2>4. Len(called) + 1 \in 1 .. made
    BY <2>2
  <2> QED BY <2>1, <2>2, <2>3, <2>4 DEF Tame, Unawaited
<1> QED BY <1>1, <1>2

LEMMA InTurnStep ==
  ASSUME IInv, InTurn, Tame(made), [Next]_vars
  PROVE  InTurn'
<1> USE DEF appVars, serverVars, readVars, epollVars, bufferVars, workerVars
<1>0. /\ sent \in Seq(Calls) /\ called \in Seq(Calls) /\ buffer \in Seq(Calls)
      /\ made \in Nat
  BY CallsAssumption DEF IInv, TypeOK
<1> NextToEachOther
  BY TurnFacts
<1> USE DEF NextToEachOther
<1>1. CASE CallFunction
  <2>1. /\ UNCHANGED <<sent, called, buffer, taken, dropped>> /\ made' = made + 1
        /\ 1 .. made \subseteq Range(called) \cup Unawaited
    BY <1>1 DEF CallFunction
  <2>2. made <= Len(called)
    <3>1. CASE made = 0
      BY <3>1
    <3>2. CASE made # 0
      <4>1. made \in 1 .. made
        BY <1>0, <3>2
      <4>2. made \in Range(called)
        BY <2>1, <4>1 DEF Tame
      <4>3. PICK i \in 1 .. Len(called) : called[i] = made
        BY <1>0, <4>2, InRange
      <4> QED BY <4>3 DEF InTurn
    <3> QED BY <3>1, <3>2
  <2> QED BY <2>1, <2>2 DEF InTurn
<1>2. ASSUME NEW w \in Workers, Send(w) PROVE InTurn'
  <2>1. UNCHANGED <<made, called, buffer, taken, dropped>> /\ sent' \in {sent, Append(sent, item[w])}
    BY <1>2 DEF Send
  <2>2. CASE sent' = Append(sent, item[w])
    <3>1. item[w] \in 1 .. made /\ item[w] \notin Range(sent) /\ item[w] \in Calls
      <4>1. Sends(w)
        BY <1>2 DEF Send, At, Sends
      <4>2. item[w] \in Calls
        BY <4>1 DEF IInv, TypeOK, Sends
      <4> QED BY <4>1, <4>2 DEF IInv, SentOnce, BeingSent
    <3>2. \A i \in 1 .. Len(sent) : i \in Range(sent)
      <4>1. \A i \in 1 .. Len(sent) : sent[i] = i
        BY DEF InTurn
      <4>2. \A i \in 1 .. Len(sent) : sent[i] \in Range(sent)
        BY <1>0, InRange, Zenon
      <4> QED BY <4>1, <4>2
    <3>3. item[w] = Len(sent) + 1
      BY <3>1, <3>2
    <3>4. /\ Len(sent') = Len(sent) + 1 /\ \A i \in 1 .. Len(sent) : sent'[i] = sent[i]
          /\ sent'[Len(sent) + 1] = item[w]
      BY <1>0, <2>2, <3>1, AppendFacts
    <3>5. \A i \in 1 .. Len(sent') : i \in 1 .. Len(sent) \/ i = Len(sent) + 1
      BY <3>4
    <3>6. \A i \in 1 .. Len(sent') : sent'[i] = i
      BY <3>3, <3>4, <3>5 DEF InTurn
    <3> QED BY <2>1, <3>6 DEF InTurn
  <2> QED BY <2>1, <2>2 DEF InTurn
<1>3. ASSUME NEW w \in Workers, ReadStore(w) PROVE InTurn'
  <2> DEFINE n == Len(buffer)
             m == arrived - taken
  <2>1. /\ buffer' = buffer \o Unread /\ taken' = arrived
        /\ UNCHANGED <<made, sent, called, dropped>>
    BY <1>3 DEF ReadStore
  <2>2. /\ Unread \in Seq(Calls) /\ Len(Unread) = m
        /\ \A b \in 1 .. m : Unread[b] = answered[taken + b]
    BY UnreadFacts DEF IInv
  <2>0. buffer \in Seq(Calls) /\ Unread \in Seq(Calls)
    BY <1>0, <2>2
  <2>3. /\ Len(buffer \o Unread) = Len(buffer) + Len(Unread)
        /\ \A a \in 1 .. Len(buffer) + Len(Unread) :
             (buffer \o Unread)[a] = IF a <= Len(buffer) THEN buffer[a]
                                     ELSE Unread[a - Len(buffer)]
    BY ONLY <2>0, ConcatProperties
  <2>4. m \in Nat /\ n \in Nat /\ n = taken - Len(called) /\ Len(called) \in Nat
    OBVIOUS
  <2>5. ASSUME NEW a \in 1 .. n + m PROVE buffer'[a] = Len(called) + a
    <3>1. CASE a <= n
      <4>1. a \in 1 .. n /\ a \in 1 .. n + Len(Unread)
        BY <2>2, <2>4, <3>1
      <4> QED BY <2>1, <2>3, <3>1, <4>1 DEF InTurn
    <3>2. CASE ~(a <= n)
      <4>1. a - n \in 1 .. m /\ a \in 1 .. n + Len(Unread) /\ taken + (a - n) \in 1 .. Len(answered)
        BY <2>2, <2>4, <3>2
      <4>2. buffer'[a] = answered[taken + (a - n)]
        BY <2>1, <2>2, <2>3, <3>2, <4>1
      <4>3. answered[taken + (a - n)] = taken + (a - n)
        BY <4>1
      <4> QED BY <2>4, <4>2, <4>3
    <3> QED BY <3>1, <3>2
  <2>6. Len(buffer') = taken' - Len(called') /\ Len(called') <= taken'
    BY <2>1, <2>2, <2>3, <2>4
  <2>7. Len(buffer') = n + m
    BY <2>1, <2>2, <2>3
  <2> QED BY <2>1, <2>5, <2>6, <2>7 DEF InTurn
<1>4. ASSUME NEW w \in Workers, ServeCall(w) PROVE InTurn'
  <2> DEFINE n == Len(buffer)
             c == Len(called)
  <2>1. /\ buffer # << >> /\ buffer' = Tail(buffer) /\ called' = Append(called, Head(buffer))
        /\ UNCHANGED <<made, sent, taken, dropped>>
    BY <1>4 DEF ServeCall
  <2>2. /\ n \in Nat \ {0} /\ Head(buffer) = buffer[1] /\ Head(buffer) \in Calls
        /\ Len(buffer') = n - 1 /\ \A a \in 1 .. n - 1 : buffer'[a] = buffer[a + 1]
    BY <1>0, <2>1, HeadTailProperties, EmptySeq
  <2>3. /\ Len(called') = c + 1 /\ \A i \in 1 .. c : called'[i] = called[i]
        /\ called'[c + 1] = Head(buffer)
    BY <1>0, <2>1, <2>2, AppendFacts
  <2>4. buffer[1] = c + 1
    BY <2>2 DEF InTurn
  <2>5. \A i \in 1 .. c + 1 : i \in 1 .. c \/ i = c + 1
    OBVIOUS
  <2>6. \A i \in 1 .. Len(called') : called'[i] = i
    BY <2>2, <2>3, <2>4, <2>5 DEF InTurn
  <2>7. ASSUME NEW a \in 1 .. n - 1 PROVE buffer'[a] = (c + 1) + a
    <3>1. a + 1 \in 1 .. n /\ c + (a + 1) = (c + 1) + a
      BY <2>2
    <3>2. buffer[a + 1] = c + (a + 1)
      BY <3>1 DEF InTurn
    <3> QED BY <2>2, <3>1, <3>2
  <2>8. c + 1 <= taken /\ made <= (c + 1) + 1 /\ n - 1 = taken - (c + 1)
    BY <2>2
  <2> QED BY <2>1, <2>2, <2>3, <2>6, <2>7, <2>8 DEF InTurn
<1>5. CASE UNCHANGED <<made, sent, taken, dropped, buffer, called>>
  BY <1>5 DEF InTurn
<1>6. CASE Connect \/ ConnectFails \/ Start \/ Network \/ ServerCloses \/ UNCHANGED vars
  BY <1>5, <1>6 DEF Connect, ConnectFails, Start, Network, Answer, Arrive, ServerCloses, vars
<1>7. ASSUME NEW w \in Workers, Worker(w), ~Send(w), ~ReadStore(w), ~ServeCall(w) PROVE InTurn'
  <2>1. ~ReadNoRoom(w) /\ ~ServeThrow(w)
    BY NothingIsLost
  <2>2. UNCHANGED <<made, sent, taken, dropped, buffer, called>>
    BY <1>7, <2>1, WorkerIsWorking
       DEF Working, TaskStart, LoopWatch, LoopWait, LoopDispatch, Lookup, ReadLock, ReadNothing,
           ServeLock, ServeDone, ServePostpone, CallbackReturns, DropWatch, DropLookup, Erase, Close
  <2> QED BY <1>5, <2>2
<1> QED BY <1>1, <1>2, <1>3, <1>4, <1>6, <1>7 DEF Next, Application

(***************************************************************************)
(* The taking down of the connection: one worker at a time, and none of    *)
(* the others finds a null buffer.                                         *)
(***************************************************************************)
ReadLabels == {"read", "lock", "reading"}
LastLabels == {"serve", "cut", "callback", "erase", "close"}
EraseLabels == {"erase", "close"}

\* The others stay where they are.
LEMMA OtherWorkers ==
  ASSUME TypeOK, NEW w \in Workers, Working(w), NEW v \in Workers, v # w
  PROVE  pc'[v] = pc[v] /\ last'[v] = last[v]
<1>1. pc \in [Workers -> Labels] /\ last \in [Workers -> BOOLEAN]
  BY DEF TypeOK
<1>2. \E l : pc' = [pc EXCEPT ![w] = l]
  BY DEF Working, TaskStart, LoopWatch, LoopWait, LoopDispatch, Send, Lookup, ReadLock, ReadStore,
         ReadNoRoom, ReadNothing, ServeLock, ServeDone, ServePostpone, ServeCall, CallbackReturns,
         ServeThrow, DropWatch, DropLookup, Erase, Close, Served, Finish, Goto
<1>3. last' = last \/ \E b : last' = [last EXCEPT ![w] = b]
  BY DEF Working, TaskStart, LoopWatch, LoopWait, LoopDispatch, Send, Lookup, ReadLock, ReadStore,
         ReadNoRoom, ReadNothing, ServeLock, ServeDone, ServePostpone, ServeCall, CallbackReturns,
         ServeThrow, DropWatch, DropLookup, Erase, Close, Served, Finish
<1> QED BY <1>1, <1>2, <1>3

\* A worker that looks the buffer up finds it.
LEMMA BufferIsThere ==
  ASSUME IInv, Edges, TakenDown, NEW w \in Workers, pc[w] \in {"read", "dropLookup"}
  PROVE  entry = "buffer"
<1>1. CASE pc[w] = "read"
  <2>1. <<"reader", w>> \in Reads
    BY <1>1 DEF Reads
  <2>2. ~Gone /\ ~(conn \in {"none", "open"} /\ taken = arrived)
    BY <2>1 DEF Edges
  <2>3. conn # "none"
    <3>1. ASSUME conn = "none" PROVE taken = arrived
      <4>1. sent = << >>
        BY <3>1 DEF IInv, Beginning
      <4>2. Len(answered) \in Nat /\ Len(answered) <= 0
        BY <4>1, EmptySeq, LenProperties DEF IInv, TypeOK
      <4> QED BY <4>2 DEF IInv, TypeOK
    <3> QED BY <2>2, <3>1
  <2>4. conn # "closed" /\ \A v \in Workers : pc[v] \notin {"erase", "close"}
    BY <2>2 DEF Gone, Drops
  <2> QED BY <2>3, <2>4 DEF TakenDown
<1>2. CASE pc[w] = "dropLookup"
  <2>1. Drops(w)
    BY <1>2 DEF Drops
  <2>2. conn # "closed" /\ conn # "none"
    BY <2>1 DEF TakenDown, Edges, Gone
  <2>3. \A v \in Workers : pc[v] \notin {"erase", "close"}
    BY <1>2, <2>1 DEF TakenDown, Drops
  <2> QED BY <2>2, <2>3 DEF TakenDown
<1> QED BY <1>1, <1>2

\* What a worker does that neither begins nor ends the taking down.
Staying(w) ==
  /\ \A v \in Workers : v # w => pc'[v] = pc[v] /\ last'[v] = last[v]
  /\ (pc'[w] \in {"drop", "dropLookup", "eraseEmpty", "erase", "close"} \/ last'[w]) <=> Drops(w)
  /\ last'[w] => pc'[w] \in LastLabels
  /\ entry' = entry \/ pc'[w] \in EraseLabels
  /\ pc[w] \in EraseLabels => pc'[w] \in EraseLabels
  /\ conn' = conn \/ (conn = "closing" /\ conn' = "reset")
  /\ pc'[w] # "crashed"

LEMMA WorkerStays ==
  ASSUME IInv, Edges, TakenDown, NEW w \in Workers, Working(w),
         ~ReadNoRoom(w), ~ServeThrow(w), ~ReadNothing(w), ~Close(w)
  PROVE  Staying(w)
<1> USE DEF appVars, serverVars, readVars, epollVars, bufferVars, workerVars
<1>0. /\ pc \in [Workers -> Labels] /\ last \in [Workers -> BOOLEAN]
      /\ (last[w] => pc[w] \in LastLabels)
  BY DEF IInv, TypeOK, TakenDown, LastLabels
<1>1. \A v \in Workers : v # w => pc'[v] = pc[v] /\ last'[v] = last[v]
  BY OtherWorkers DEF IInv
<1>2. CASE TaskStart(w)
  <2>1. pc[w] = "idle" /\ pc'[w] \in {"send", "loop", "read"}
    BY <1>0, <1>2, OneTaskLess DEF IInv
  <2>2. last' = last /\ entry' = entry /\ conn' = conn
    BY <1>2 DEF TaskStart
  <2> QED BY <1>0, <1>1, <2>1, <2>2 DEF Staying, Drops, LastLabels, EraseLabels
<1>3. CASE LoopWatch(w) \/ LoopWait(w) \/ LoopDispatch(w)
  <2>1. /\ pc[w] \in {"loop", "wait", "dispatch"} /\ pc'[w] \in {"wait", "dispatch"}
        /\ last' = last /\ entry' = entry /\ conn' = conn
    BY <1>0, <1>3 DEF LoopWatch, LoopWait, LoopDispatch, At, Goto
  <2> QED BY <1>0, <1>1, <2>1 DEF Staying, Drops, LastLabels, EraseLabels
<1>4. CASE Send(w)
  <2>1. /\ pc[w] = "send" /\ pc'[w] \in {"idle", "killed"} /\ entry' = entry
        /\ last' = last \/ last' = [last EXCEPT ![w] = FALSE]
        /\ conn' = conn \/ (conn = "closing" /\ conn' = "reset")
    BY <1>0, <1>4 DEF Send, Finish, At, Goto
  <2> QED BY <1>0, <1>1, <2>1 DEF Staying, Drops, LastLabels, EraseLabels
<1>5. CASE Lookup(w)
  <2>1. entry = "buffer"
    BY <1>5, BufferIsThere DEF Lookup, At
  <2>2. /\ pc[w] = "read" /\ pc'[w] = "lock" /\ last' = last /\ entry' = entry /\ conn' = conn
    BY <1>0, <1>5, <2>1 DEF Lookup, At, Goto
  <2> QED BY <1>0, <1>1, <2>2 DEF Staying, Drops, LastLabels, EraseLabels
<1>6. CASE ReadLock(w) \/ ReadStore(w)
  <2>1. /\ pc[w] \in {"lock", "reading"} /\ pc'[w] \in {"reading", "serve"}
        /\ last' = last /\ entry' = entry /\ conn' = conn
    BY <1>0, <1>6 DEF ReadLock, ReadStore, At, Goto
  <2> QED BY <1>0, <1>1, <2>1 DEF Staying, Drops, LastLabels, EraseLabels
<1>7. CASE ServeLock(w) \/ ServeCall(w) \/ CallbackReturns(w)
  <2>1. /\ pc[w] \in {"serve", "cut", "callback"} /\ pc'[w] \in {"cut", "callback"}
        /\ last' = last /\ entry' = entry /\ conn' = conn
    BY <1>0, <1>7 DEF ServeLock, ServeCall, CallbackReturns, At, Goto
  <2> QED BY <1>0, <1>1, <2>1 DEF Staying, Drops, LastLabels, EraseLabels
<1>8. CASE ServeDone(w) \/ ServePostpone(w)
  <2>1. /\ pc[w] = "cut" /\ entry' = entry /\ conn' = conn
        /\ \/ last[w] /\ pc' = [pc EXCEPT ![w] = "erase"] /\ last' = last
           \/ ~last[w] /\ pc' = [pc EXCEPT ![w] = "idle"] /\ last' = [last EXCEPT ![w] = FALSE]
    BY <1>8 DEF ServeDone, ServePostpone, Served, Finish, At, Goto
  <2>2. (last[w] /\ pc'[w] = "erase" /\ last'[w]) \/ (~last[w] /\ pc'[w] = "idle" /\ ~last'[w])
    BY <1>0, <2>1
  <2> QED BY <1>0, <1>1, <2>1, <2>2 DEF Staying, Drops, LastLabels, EraseLabels
<1>9. CASE DropWatch(w)
  <2>1. /\ pc[w] = "drop" /\ pc'[w] = "dropLookup" /\ last' = last /\ entry' = entry /\ conn' = conn
    BY <1>0, <1>9 DEF DropWatch, At, Goto
  <2> QED BY <1>0, <1>1, <2>1 DEF Staying, Drops, LastLabels, EraseLabels
<1>10. CASE DropLookup(w)
  <2>1. entry = "buffer"
    BY <1>10, BufferIsThere DEF DropLookup, At
  <2>2. /\ pc[w] = "dropLookup" /\ entry' = entry /\ conn' = conn
        /\ \/ pc'[w] = "serve" /\ last'[w]
           \/ pc'[w] = "eraseEmpty" /\ ~last'[w]
    BY <1>0, <1>10, <2>1 DEF DropLookup, At, Goto
  <2> QED BY <1>0, <1>1, <2>2 DEF Staying, Drops, LastLabels, EraseLabels
<1>11. CASE Erase(w)
  <2>1. /\ conn' = conn /\ last' = last
        /\ \/ pc[w] = "eraseEmpty" /\ pc'[w] = "erase"
           \/ pc[w] = "erase" /\ pc'[w] = "close"
    BY <1>0, <1>11 DEF Erase, At, Goto
  <2> QED BY <1>0, <1>1, <2>1 DEF Staying, Drops, LastLabels, EraseLabels
<1> QED BY <1>2, <1>3, <1>4, <1>5, <1>6, <1>7, <1>8, <1>9, <1>10, <1>11 DEF Working

LEMMA StayingFacts ==
  ASSUME TakenDown, NEW w \in Workers, Staying(w)
  PROVE  TakenDown' /\ \A v \in Workers : Drops(v)' <=> Drops(v)
<1>1. \A v \in Workers : Drops(v)' <=> Drops(v)
  BY DEF Staying, Drops
<1>2. \A v \in Workers : last'[v] => pc'[v] \in LastLabels
  BY DEF Staying, TakenDown, LastLabels
<1>3. ~Crashed'
  BY DEF Staying, TakenDown, Crashed
<1>4. \A v \in Workers : pc[v] \in EraseLabels => pc'[v] \in EraseLabels
  BY DEF Staying
<1>5. \/ entry' = "buffer" \/ conn' \in {"none", "closed"}
      \/ \E v \in Workers : pc'[v] \in EraseLabels
  BY <1>4 DEF Staying, TakenDown, EraseLabels
<1>6. conn' = "closed" => conn = "closed"
  BY DEF Staying
<1> QED BY <1>1, <1>2, <1>3, <1>5, <1>6 DEF TakenDown, LastLabels, EraseLabels

(***************************************************************************)
(* The reads of the connection: one for every edge, and at most one that   *)
(* finds nothing.                                                          *)
(***************************************************************************)
\* What is left of the reads when a step adds none.
NoMoreReads ==
  /\ Reads = {} => Reads' = {}
  /\ AtMostOne(Reads) => AtMostOne(Reads')
  /\ AtMostTwo(Reads) => AtMostTwo(Reads')

\* The tasks and the workers that read do not get more.
LEMMA ReadsKept ==
  ASSUME TypeOK, NEW t \in Tasks, tasks' \in {tasks, Append(tasks, t)}, t.kind # "read",
         \A v \in Workers : /\ pc'[v] = "dispatch" => pc[v] = "dispatch"
                            /\ pc'[v] \in ReadLabels => pc[v] \in ReadLabels
  PROVE  /\ Reads' \subseteq Reads \cup {<<"edge", Nobody>>}
         /\ (ready' /\ conn' # "reset" => ready /\ conn # "reset") => Reads' \subseteq Reads
         /\ ~ready' => Reads' \subseteq Reads
<1>1. \A i \in 1 .. Len(tasks') : tasks'[i].kind = "read" =>
        i \in 1 .. Len(tasks) /\ tasks[i].kind = "read"
  BY OneTaskMore
<1>2. ASSUME NEW x \in Reads', x \notin Reads
      PROVE  x = <<"edge", Nobody>> /\ ready' /\ conn' # "reset" /\ ~(ready /\ conn # "reset")
  <2>1. CASE x = <<"edge", Nobody>> /\ ready' /\ conn' # "reset"
    BY <1>2, <2>1 DEF Reads
  <2>2. CASE \E v \in Workers : x = <<"loop", v>> /\ pc'[v] = "dispatch"
    BY <1>2, <2>2 DEF Reads
  <2>3. CASE \E i \in 1 .. Len(tasks') : x = <<"task", i>> /\ tasks'[i].kind = "read"
    BY <1>1, <1>2, <2>3 DEF Reads
  <2>4. CASE \E v \in Workers : x = <<"reader", v>> /\ pc'[v] \in ReadLabels
    BY <1>2, <2>4 DEF Reads, ReadLabels
  <2> QED BY <2>1, <2>2, <2>3, <2>4 DEF Reads, ReadLabels
<1> QED BY <1>2

\* A task that starts to read is the same read.
LEMMA TaskStartReads ==
  ASSUME TypeOK, NEW w \in Workers, TaskStart(w)
  PROVE  NoMoreReads
<1>1. /\ Len(tasks) \in Nat \ {0} /\ Len(tasks') = Len(tasks) - 1
      /\ \A i \in 1 .. Len(tasks') :
           i \in Nat /\ i + 1 \in 1 .. Len(tasks) /\ i + 1 # 1 /\ tasks'[i] = tasks[i + 1]
      /\ pc[w] = "idle" /\ pc' = [pc EXCEPT ![w] = tasks[1].kind]
      /\ tasks[1].kind \in {"send", "loop", "read"}
  BY OneTaskLess
<1>2. ready' = ready /\ conn' = conn /\ pc \in [Workers -> Labels]
  BY DEF TaskStart, epollVars, TypeOK
<1>3. 1 \in 1 .. Len(tasks)
  BY <1>1
<1>4. \A v \in Workers :
        /\ v # w => pc'[v] = pc[v]
        /\ pc'[w] = tasks[1].kind
  BY <1>1, <1>2
<1> DEFINE Was(x, o) ==
             \/ x = <<"edge", Nobody>> /\ o = x
             \/ \E v \in Workers : x = <<"loop", v>> /\ o = x
             \/ \E i \in 1 .. Len(tasks') : x = <<"task", i>> /\ o = <<"task", i + 1>>
             \/ \E v \in Workers : x = <<"reader", v>> /\ v # w /\ o = x
             \/ x = <<"reader", w>> /\ o = <<"task", 1>>
<1>5. ASSUME NEW x \in Reads' PROVE \E o \in Reads : Was(x, o)
  <2>1. CASE x = <<"edge", Nobody>> /\ ready' /\ conn' # "reset"
    BY <1>2, <2>1 DEF Reads
  <2>2. CASE \E v \in Workers : x = <<"loop", v>> /\ pc'[v] = "dispatch"
    <3>1. PICK v \in Workers : x = <<"loop", v>> /\ pc'[v] = "dispatch"
      BY <2>2
    <3>2. pc[v] = "dispatch"
      BY <1>1, <1>4, <3>1
    <3>3. x \in Reads
      BY <3>1, <3>2 DEF Reads
    <3> QED BY <3>1, <3>3
  <2>3. CASE \E i \in 1 .. Len(tasks') : x = <<"task", i>> /\ tasks'[i].kind = "read"
    <3>1. PICK i \in 1 .. Len(tasks') : x = <<"task", i>> /\ tasks'[i].kind = "read"
      BY <2>3
    <3>2. i + 1 \in 1 .. Len(tasks) /\ tasks[i + 1].kind = "read"
      BY <1>1, <3>1
    <3>3. <<"task", i + 1>> \in Reads
      BY <3>2 DEF Reads
    <3> QED BY <3>1, <3>3
  <2>4. CASE \E v \in Workers : x = <<"reader", v>> /\ pc'[v] \in {"read", "lock", "reading"}
    <3>1. PICK v \in Workers : x = <<"reader", v>> /\ pc'[v] \in {"read", "lock", "reading"}
      BY <2>4
    <3>2. CASE v = w
      <4>1. tasks[1].kind = "read"
        BY <1>1, <1>4, <3>1, <3>2
      <4>2. <<"task", 1>> \in Reads
        BY <1>3, <4>1 DEF Reads
      <4> QED BY <3>1, <3>2, <4>2
    <3>3. CASE v # w
      <4>1. x \in Reads
        BY <1>4, <3>1, <3>3 DEF Reads
      <4> QED BY <3>1, <3>3, <4>1
    <3> QED BY <3>2, <3>3
  <2> QED BY <2>1, <2>2, <2>3, <2>4 DEF Reads
<1>6. ASSUME NEW x, NEW y, NEW o, Was(x, o), Was(y, o) PROVE x = y
  <2>1. \A i \in 1 .. Len(tasks') : i \in Nat /\ i + 1 # 1
    BY <1>1
  <2>2. CASE x = <<"edge", Nobody>> /\ o = x
    BY <1>6, <2>2
  <2>3. CASE \E v \in Workers : x = <<"loop", v>> /\ o = x
    BY <1>6, <2>3
  <2>4. CASE \E i \in 1 .. Len(tasks') : x = <<"task", i>> /\ o = <<"task", i + 1>>
    <3>1. PICK i \in 1 .. Len(tasks') : x = <<"task", i>> /\ o = <<"task", i + 1>>
      BY <2>4
    <3>2. PICK j \in 1 .. Len(tasks') : y = <<"task", j>> /\ o = <<"task", j + 1>>
      BY <1>6, <2>1, <3>1
    <3>3. i + 1 = j + 1 /\ i \in Nat /\ j \in Nat
      BY <2>1, <3>1, <3>2
    <3> QED BY <3>1, <3>2, <3>3
  <2>5. CASE \E v \in Workers : x = <<"reader", v>> /\ v # w /\ o = x
    BY <1>6, <2>5
  <2>6. CASE x = <<"reader", w>> /\ o = <<"task", 1>>
    BY <1>6, <2>1, <2>6
  <2> QED BY <1>6, <2>2, <2>3, <2>4, <2>5, <2>6
<1> HIDE DEF Was
<1> DEFINE f == [x \in Reads' |-> CHOOSE o \in Reads : Was(x, o)]
<1>7. \A x \in Reads' : f[x] \in Reads /\ Was(x, f[x])
  BY <1>5
<1> HIDE DEF f
<1>8. \A x, y \in Reads' : f[x] = f[y] => x = y
  BY <1>6, <1>7
<1> QED BY <1>7, <1>8, NoMore DEF NoMoreReads

\* One element of a small set is replaced, or goes.
LEMMA OneForOne ==
  ASSUME NEW S, NEW T, NEW new, NEW old \in S, old \notin T, \A x \in T : x = new \/ x \in S
  PROVE  /\ S = {} => T = {}
         /\ AtMostOne(S) => AtMostOne(T)
         /\ AtMostTwo(S) => AtMostTwo(T)
<1> DEFINE f == [x \in T |-> IF x \in S THEN x ELSE old]
<1>1. \A x \in T : f[x] \in S
  OBVIOUS
<1>2. \A x, y \in T : f[x] = f[y] => x = y
  OBVIOUS
<1> HIDE DEF f
<1> QED BY <1>1, <1>2, NoMore

LEMMA OneLess ==
  ASSUME NEW S, NEW T, NEW old \in S, old \notin T, T \subseteq S
  PROVE  /\ AtMostOne(S) => T = {}
         /\ AtMostTwo(S) => AtMostOne(T)
BY DEF AtMostOne, AtMostTwo

\* An edge becomes the loop's business, and that a task.
LEMMA LoopReads ==
  ASSUME TypeOK, NEW w \in Workers, LoopWait(w) \/ LoopDispatch(w)
  PROVE  NoMoreReads
<1>0. pc \in [Workers -> Labels] /\ [kind |-> "read", call |-> Nobody] \in Tasks
  BY DEF TypeOK, Tasks
<1>1. CASE LoopWait(w) /\ conn # "reset"
  <2>1. /\ ready /\ ~ready' /\ conn' = conn /\ tasks' = tasks
        /\ pc[w] = "wait" /\ pc' = [pc EXCEPT ![w] = "dispatch"]
    BY <1>1 DEF LoopWait, At, Goto
  <2>2. <<"edge", Nobody>> \in Reads /\ <<"edge", Nobody>> \notin Reads'
    BY <1>1, <2>1 DEF Reads
  <2>3. \A x \in Reads' : x = <<"loop", w>> \/ x \in Reads
    BY <1>0, <2>1 DEF Reads
  <2> QED BY <2>2, <2>3, OneForOne DEF NoMoreReads
<1>2. CASE LoopWait(w) /\ conn = "reset"
  <2>1. /\ conn' = conn /\ tasks' = tasks /\ pc[w] = "wait" /\ pc' = [pc EXCEPT ![w] = "wait"]
    BY <1>2 DEF LoopWait, At, Goto
  <2>2. Reads' \subseteq Reads
    BY <1>0, <1>2, <2>1 DEF Reads
  <2> QED BY <2>2, NoMoreThan DEF NoMoreReads
<1>3. CASE LoopDispatch(w)
  <2> DEFINE t == [kind |-> "read", call |-> Nobody]
  <2>1. /\ ready' = ready /\ conn' = conn /\ tasks' = Append(tasks, t)
        /\ pc[w] = "dispatch" /\ pc' = [pc EXCEPT ![w] = "wait"]
    BY <1>3 DEF LoopDispatch, At, Goto, epollVars
  <2> HIDE DEF t
  <2>2. <<"loop", w>> \in Reads /\ <<"loop", w>> \notin Reads'
    BY <1>0, <2>1 DEF Reads
  <2>3. /\ \A v \in Workers : pc'[v] = "dispatch" => pc[v] = "dispatch"
        /\ \A v \in Workers : pc'[v] \in ReadLabels => pc[v] \in ReadLabels
    BY <1>0, <2>1 DEF ReadLabels
  <2>4. \A i \in 1 .. Len(tasks') :
          (i \in 1 .. Len(tasks) /\ tasks'[i] = tasks[i]) \/ i = Len(tasks) + 1
    BY <1>0, <2>1, OneTaskMore DEF t
  <2>5. \A x \in Reads' : x = <<"task", Len(tasks) + 1>> \/ x \in Reads
    BY <2>1, <2>3, <2>4 DEF Reads, ReadLabels
  <2> QED BY <2>2, <2>5, OneForOne DEF NoMoreReads
<1> QED BY <1>1, <1>2, <1>3

\* A step that adds no read, and does not begin or end the taking down.
LEMMA EdgesKept ==
  ASSUME Edges, NoMoreReads, UNCHANGED <<taken, arrived>>,
         conn' = conn \/ (conn = "closing" /\ conn' = "reset"),
         Pending' => Pending, \A v \in Workers : Drops(v)' <=> Drops(v)
  PROVE  Edges'
<1>1. Gone' => Gone
  BY DEF Gone
<1> QED BY <1>1 DEF Edges, NoMoreReads

\* Only Start makes the event loop one that is still to begin.
LEMMA PendingKept ==
  ASSUME TypeOK, NEW w \in Workers, Working(w), ~LoopWatch(w)
  PROVE  Pending' => Pending
<1>0. pc \in [Workers -> Labels] /\ [kind |-> "read", call |-> Nobody] \in Tasks
  BY DEF TypeOK, Tasks
<1>1. CASE TaskStart(w)
  <2>1. /\ Len(tasks) \in Nat \ {0}
        /\ \A i \in 1 .. Len(tasks') : i + 1 \in 1 .. Len(tasks) /\ tasks'[i] = tasks[i + 1]
        /\ pc' = [pc EXCEPT ![w] = tasks[1].kind]
    BY <1>1, OneTaskLess
  <2>2. app' = app /\ 1 \in 1 .. Len(tasks)
    BY <1>1, <2>1 DEF TaskStart, appVars
  <2> QED BY <1>0, <2>1, <2>2 DEF Pending
<1>2. CASE ~TaskStart(w)
  <2> DEFINE t == [kind |-> "read", call |-> Nobody]
  <2>1. /\ app' = app /\ tasks' \in {tasks, Append(tasks, t)}
        /\ \A v \in Workers : /\ pc'[v] = "loop" => pc[v] = "loop"
                              /\ pc'[v] \in LoopLabels => pc[v] \in LoopLabels
    BY <1>2, OtherLoop
  <2>2. t \in Tasks /\ t.kind # "loop"
    BY <1>0
  <2> HIDE DEF t
  <2>3. (\E i \in 1 .. Len(tasks') : tasks'[i].kind = "loop") =>
             \E i \in 1 .. Len(tasks) : tasks[i].kind = "loop"
    BY <2>1, <2>2, LoopsKept
  <2> QED BY <2>1, <2>3 DEF Pending
<1> QED BY <1>1, <1>2

\* The steps of a worker that adds no read.
LEMMA QuietReads ==
  ASSUME IInv, Edges, TakenDown, NEW w \in Workers,
         \/ Send(w) \/ Lookup(w) \/ ReadLock(w) \/ ServeLock(w) \/ ServeDone(w) \/ ServePostpone(w)
         \/ ServeCall(w) \/ CallbackReturns(w) \/ DropWatch(w) \/ DropLookup(w) \/ Erase(w)
  PROVE  NoMoreReads /\ UNCHANGED <<taken, arrived>>
<1> USE DEF appVars, serverVars, readVars, epollVars, bufferVars, workerVars
<1>0. pc \in [Workers -> Labels] /\ TypeOK
  BY DEF IInv, TypeOK
<1>1. tasks' = tasks /\ UNCHANGED <<taken, arrived>>
  BY DEF Send, Lookup, ReadLock, ServeLock, ServeDone, ServePostpone, ServeCall, CallbackReturns,
         DropWatch, DropLookup, Erase
<1>2. ready' /\ conn' # "reset" => ready /\ conn # "reset"
  BY DEF Send, Lookup, ReadLock, ServeLock, ServeDone, ServePostpone, ServeCall, CallbackReturns,
         DropWatch, DropLookup, Erase
<1>3. \E l \in Labels \ {"dispatch"} :
        pc' = [pc EXCEPT ![w] = l] /\ (l \in ReadLabels => pc[w] \in ReadLabels)
  <2>1. CASE Send(w)
    BY <2>1 DEF Send, Finish, Goto, Labels, ReadLabels
  <2>2. CASE Lookup(w)
    BY <2>2 DEF Lookup, At, Goto, Labels, ReadLabels
  <2>3. CASE ReadLock(w)
    BY <2>3 DEF ReadLock, At, Goto, Labels, ReadLabels
  <2>4. CASE ServeLock(w) \/ ServeCall(w) \/ CallbackReturns(w)
    BY <2>4 DEF ServeLock, ServeCall, CallbackReturns, Goto, Labels, ReadLabels
  <2>5. CASE ServeDone(w) \/ ServePostpone(w)
    BY <2>5 DEF ServeDone, ServePostpone, Served, Finish, Goto, Labels, ReadLabels
  <2>6. CASE DropWatch(w) \/ DropLookup(w) \/ Erase(w)
    BY <2>6 DEF DropWatch, DropLookup, Erase, Goto, Labels, ReadLabels
  <2> QED BY <2>1, <2>2, <2>3, <2>4, <2>5, <2>6
<1>4. \A v \in Workers : /\ pc'[v] = "dispatch" => pc[v] = "dispatch"
                         /\ pc'[v] \in ReadLabels => pc[v] \in ReadLabels
  BY <1>0, <1>3
<1> DEFINE t == [kind |-> "loop", call |-> Nobody]
<1>5. t \in Tasks /\ t.kind # "read"
  BY DEF Tasks
<1> HIDE DEF t
<1>6. Reads' \subseteq Reads
  BY <1>0, <1>1, <1>2, <1>4, <1>5, ReadsKept
<1> QED BY <1>1, <1>6, NoMoreThan DEF NoMoreReads

\* The descriptor is added to epoll.
LEMMA LoopWatchEdges ==
  ASSUME IInv, IInv', Edges, TakenDown, NEW w \in Workers, LoopWatch(w)
  PROVE  Edges'
<1> USE DEF appVars, serverVars, readVars, epollVars, bufferVars, workerVars
<1>0. pc \in [Workers -> Labels] /\ TypeOK
  BY DEF IInv, TypeOK
<1>1. /\ pc[w] = "loop" /\ pc' = [pc EXCEPT ![w] = "wait"] /\ tasks' = tasks
      /\ ready' = (conn # "closed" /\ Readable)
      /\ UNCHANGED <<conn, taken, arrived, last>>
  BY DEF LoopWatch, At, Goto
<1>2. Reads = {} /\ ~Gone
  BY <1>1 DEF Edges, Pending
<1>3. \A v \in Workers : /\ pc'[v] = "dispatch" => pc[v] = "dispatch"
                         /\ pc'[v] \in ReadLabels => pc[v] \in ReadLabels
  BY <1>0, <1>1 DEF ReadLabels
<1> DEFINE t == [kind |-> "loop", call |-> Nobody]
<1>4. t \in Tasks /\ t.kind # "read"
  BY DEF Tasks
<1> HIDE DEF t
<1>5. Reads' \subseteq Reads \cup {<<"edge", Nobody>>} /\ (~ready' => Reads' \subseteq Reads)
  BY <1>0, <1>1, <1>3, <1>4, ReadsKept
<1>6. AtMostOne(Reads') /\ AtMostTwo(Reads') /\ (~ready' => Reads' = {})
  BY <1>2, <1>5 DEF AtMostOne, AtMostTwo
<1>7. ~Gone'
  BY <1>0, <1>1, <1>2 DEF Gone, Drops
<1>8. conn' \in {"none", "open"} /\ taken' = arrived' => ~ready'
  BY <1>0, <1>1, UnreadFacts DEF Readable
<1>9. Pending' => ~ready'
  BY DEF IInv, OneLoop, TypeOK
<1> QED BY <1>6, <1>7, <1>8, <1>9 DEF Edges

\* A read that stores something.
LEMMA ReadStoreEdges ==
  ASSUME IInv, Edges, TakenDown, NEW w \in Workers, ReadStore(w)
  PROVE  Edges'
<1> USE DEF appVars, serverVars, readVars, epollVars, bufferVars, workerVars
<1>0. pc \in [Workers -> Labels] /\ TypeOK
  BY DEF IInv, TypeOK
<1>1. /\ pc[w] = "reading" /\ pc' = [pc EXCEPT ![w] = "serve"] /\ tasks' = tasks
      /\ taken' = arrived /\ Unread # << >>
      /\ UNCHANGED <<app, conn, arrived, ready, last>>
  BY DEF ReadStore, At, Goto
<1>2. <<"reader", w>> \in Reads /\ <<"reader", w>> \notin Reads'
  BY <1>0, <1>1 DEF Reads
<1>3. Reads' \subseteq Reads
  BY <1>0, <1>1 DEF Reads
<1>4. /\ AtMostOne(Reads) => Reads' = {}
      /\ AtMostTwo(Reads) => AtMostOne(Reads')
      /\ AtMostOne(Reads') => AtMostTwo(Reads')
  BY <1>2, <1>3, OneLess DEF AtMostOne, AtMostTwo
<1>5. ~Pending /\ ~Gone
  BY <1>2 DEF Edges
<1>6. ~Pending' /\ ~Gone'
  <2>1. ~Pending'
    BY <1>0, <1>1, <1>5 DEF Pending
  <2>2. ~Gone'
    BY <1>0, <1>1, <1>5 DEF Gone, Drops
  <2> QED BY <2>1, <2>2
<1> QED BY <1>1, <1>4, <1>6 DEF Edges

\* A read that finds the end of the stream or an error.
LEMMA ReadNothingStep ==
  ASSUME IInv, Edges, TakenDown, NEW w \in Workers, ReadNothing(w)
  PROVE  Edges' /\ TakenDown'
<1> USE DEF appVars, serverVars, readVars, epollVars, bufferVars, workerVars
<1>0. pc \in [Workers -> Labels] /\ TypeOK
  BY DEF IInv, TypeOK
<1>1. /\ pc[w] = "reading" /\ pc' = [pc EXCEPT ![w] = "drop"] /\ tasks' = tasks
      /\ Unread = << >> /\ Readable
      /\ UNCHANGED <<app, conn, taken, arrived, ready, last, entry>>
  BY DEF ReadNothing, At, Goto
<1>2. <<"reader", w>> \in Reads /\ <<"reader", w>> \notin Reads'
  BY <1>0, <1>1 DEF Reads
<1>3. Reads' \subseteq Reads
  BY <1>0, <1>1 DEF Reads
<1>4. taken = arrived /\ conn \in {"closing", "reset", "closed"}
  BY <1>0, <1>1, UnreadFacts DEF Readable
<1>5. Reads' = {}
  BY <1>2, <1>3, <1>4, OneLess DEF Edges
<1>6. ~Pending /\ ~Gone
  BY <1>2 DEF Edges
<1>7. ~Pending'
  BY <1>0, <1>1, <1>6 DEF Pending
<1>8. Edges'
  BY <1>1, <1>4, <1>5, <1>7 DEF Edges, AtMostOne, AtMostTwo
<1>9. conn # "closed" /\ \A v \in Workers : ~Drops(v)
  BY <1>6 DEF Gone
<1>10. \A v \in Workers : Drops(v)' => v = w
  BY <1>0, <1>1, <1>9 DEF Drops
<1>11. \A v \in Workers : ~last[v]
  BY <1>9 DEF Drops
<1>12. ~Crashed'
  BY <1>0, <1>1 DEF TakenDown, Crashed
<1>13. entry' = "buffer" \/ conn' \in {"none", "closed"}
  BY <1>1, <1>9 DEF TakenDown, Drops
<1>14. TakenDown'
  BY <1>1, <1>9, <1>10, <1>11, <1>12, <1>13 DEF TakenDown
<1> QED BY <1>8, <1>14

\* The end of the taking down.
LEMMA CloseStep ==
  ASSUME IInv, Edges, TakenDown, NEW w \in Workers, Close(w)
  PROVE  Edges' /\ TakenDown'
<1> USE DEF appVars, serverVars, readVars, epollVars, bufferVars, workerVars
<1>0. pc \in [Workers -> Labels] /\ last \in [Workers -> BOOLEAN] /\ TypeOK
  BY DEF IInv, TypeOK
<1>1. /\ pc[w] = "close" /\ pc' = [pc EXCEPT ![w] = "idle"] /\ last' = [last EXCEPT ![w] = FALSE]
      /\ conn' = "closed" /\ ~ready' /\ tasks' = tasks
      /\ UNCHANGED <<app, taken, arrived, entry>>
  BY DEF Close, At, Goto, Finish
<1>2. Drops(w)
  BY <1>1 DEF Drops
<1>3. Reads = {} /\ taken = arrived /\ ~Pending
  BY <1>2 DEF Edges, Gone
<1>4. Reads' = {}
  BY <1>0, <1>1, <1>3 DEF Reads
<1>5. ~Pending'
  BY <1>0, <1>1, <1>3 DEF Pending
<1>6. Edges'
  BY <1>1, <1>3, <1>4, <1>5 DEF Edges, AtMostOne, AtMostTwo
<1>7. \A v \in Workers : v # w => ~Drops(v)
  BY <1>2 DEF TakenDown
<1>8. \A v \in Workers : ~Drops(v)'
  BY <1>0, <1>1, <1>7 DEF Drops
<1>9. ~Crashed'
  BY <1>0, <1>1 DEF TakenDown, Crashed
<1>10. \A v \in Workers : ~last'[v]
  BY <1>8 DEF Drops
<1>11. TakenDown'
  BY <1>1, <1>8, <1>9, <1>10 DEF TakenDown
<1> QED BY <1>6, <1>11

LEMMA WorkerTame ==
  ASSUME IInv, IInv', InTurn, Edges, TakenDown, Tame(made), NEW w \in Workers, Working(w)
  PROVE  Edges' /\ TakenDown'
<1> USE DEF appVars, serverVars, readVars, epollVars, bufferVars, workerVars
<1>1. CASE ReadNothing(w)
  BY <1>1, ReadNothingStep
<1>2. CASE Close(w)
  BY <1>2, CloseStep
<1>3. CASE ~ReadNothing(w) /\ ~Close(w)
  <2>1. ~ReadNoRoom(w) /\ ~ServeThrow(w)
    BY NothingIsLost
  <2>2. Staying(w)
    BY <1>3, <2>1, WorkerStays
  <2>3. TakenDown' /\ \A v \in Workers : Drops(v)' <=> Drops(v)
    BY <2>2, StayingFacts
  <2>4. CASE ReadStore(w)
    BY <2>3, <2>4, ReadStoreEdges
  <2>5. CASE LoopWatch(w)
    BY <2>3, <2>5, LoopWatchEdges
  <2>6. CASE ~ReadStore(w) /\ ~LoopWatch(w)
    <3>1. NoMoreReads /\ UNCHANGED <<taken, arrived>>
      <4>1. CASE TaskStart(w)
        BY <4>1, TaskStartReads DEF TaskStart, IInv
      <4>2. CASE LoopWait(w) \/ LoopDispatch(w)
        BY <4>2, LoopReads DEF LoopWait, LoopDispatch, IInv
      <4> QED BY <1>3, <2>1, <2>6, <4>1, <4>2, QuietReads DEF Working
    <3>2. Pending' => Pending
      BY <2>6, PendingKept DEF IInv
    <3>3. conn' = conn \/ (conn = "closing" /\ conn' = "reset")
      BY <2>2 DEF Staying
    <3>4. Edges'
      BY <2>3, <3>1, <3>2, <3>3, EdgesKept
    <3> QED BY <2>3, <3>4
  <2> QED BY <2>4, <2>5, <2>6
<1> QED BY <1>1, <1>2, <1>3

\* The application and the server.
LEMMA OthersTame ==
  ASSUME IInv, IInv', InTurn, Edges, TakenDown, Application \/ Network \/ ServerCloses
  PROVE  Edges' /\ TakenDown'
<1> USE DEF appVars, serverVars, readVars, epollVars, bufferVars, workerVars
<1>0. TypeOK /\ pc' = pc /\ last' = last /\ taken' = taken
  BY DEF IInv, Application, Connect, ConnectFails, Start, CallFunction, Network, Answer, Arrive,
         ServerCloses
<1>1. /\ \A v \in Workers : Drops(v)' <=> Drops(v)
      /\ (conn' = "closed" <=> conn = "closed") /\ (Gone' <=> Gone)
  <2>1. \A v \in Workers : Drops(v)' <=> Drops(v)
    BY <1>0 DEF Drops
  <2>2. conn' = "closed" <=> conn = "closed"
    BY DEF IInv, Beginning, Application, Connect, ConnectFails, Start, CallFunction, Network,
           Answer, Arrive, ServerCloses
  <2> QED BY <2>1, <2>2 DEF Gone
<1>2. TakenDown'
  <2>1. \/ entry' = "buffer" \/ conn' \in {"none", "closed"}
        \/ \E w \in Workers : pc'[w] \in {"erase", "close"}
    BY <1>0 DEF TakenDown, Application, Connect, ConnectFails, Start, CallFunction, Network, Answer,
                Arrive, ServerCloses
  <2>2. ~Crashed'
    BY <1>0 DEF TakenDown, Crashed
  <2> QED BY <1>0, <1>1, <2>1, <2>2 DEF TakenDown
<1>3. Pending' => ~ready'
  BY DEF IInv, OneLoop, TypeOK
<1> DEFINE KeptButEdge ==
        /\ Reads' \subseteq Reads \cup {<<"edge", Nobody>>}
        /\ (ready' /\ conn' # "reset" => ready /\ conn # "reset") => Reads' \subseteq Reads
        /\ ~ready' => Reads' \subseteq Reads
<1>4. KeptButEdge
  <2>1. \E t \in Tasks : t.kind # "read" /\ tasks' \in {tasks, Append(tasks, t)}
    <3> DEFINE t == [kind |-> "loop", call |-> Nobody]
               u == [kind |-> "send", call |-> made + 1]
    <3>1. t \in Tasks /\ t.kind # "read"
      BY DEF Tasks
    <3>2. CASE Start
      BY <3>1, <3>2 DEF Start
    <3>3. CASE CallFunction
      <4>1. u \in Tasks /\ u.kind # "read" /\ tasks' = Append(tasks, u)
        BY <1>0, <3>3, CallsAssumption DEF CallFunction, Tasks, Calls, TypeOK
      <4> HIDE DEF u
      <4> QED BY <4>1
    <3>4. CASE ~Start /\ ~CallFunction
      <4>1. tasks' = tasks
        BY <3>4 DEF Application, Connect, ConnectFails, Network, Answer, Arrive, ServerCloses
      <4> HIDE DEF t
      <4> QED BY <3>1, <4>1
    <3> QED BY <3>2, <3>3, <3>4
  <2>2. PICK t \in Tasks : t.kind # "read" /\ tasks' \in {tasks, Append(tasks, t)}
    BY <2>1
  <2> QED BY <1>0, <2>2, ReadsKept
<1> HIDE DEF KeptButEdge
<1>5. CASE Connect \/ ConnectFails \/ Start
  <2>1. Pending /\ ready' = ready /\ ~ready
    BY <1>5 DEF Connect, ConnectFails, Start, Pending, IInv, Beginning
  <2>2. Reads' = {} /\ ~Gone'
    BY <1>1, <1>4, <2>1 DEF Edges, KeptButEdge
  <2> QED BY <1>2, <2>2 DEF Edges, AtMostOne, AtMostTwo
<1>6. CASE CallFunction \/ Answer
  <2>1. ready' = ready /\ conn' = conn /\ UNCHANGED <<taken, arrived>>
    BY <1>6 DEF CallFunction, Answer
  <2>2. NoMoreReads
    BY <1>4, <2>1, NoMoreThan DEF NoMoreReads, KeptButEdge
  <2>3. Pending' => Pending
    <3>1. CASE Answer
      BY <1>0, <3>1 DEF Answer, Pending
    <3>2. CASE CallFunction
      <4> DEFINE u == [kind |-> "send", call |-> made + 1]
      <4>1. u \in Tasks /\ u.kind # "loop" /\ tasks' = Append(tasks, u)
        BY <1>0, <3>2, CallsAssumption DEF CallFunction, Tasks, Calls, TypeOK
      <4> HIDE DEF u
      <4>2. (\E i \in 1 .. Len(tasks') : tasks'[i].kind = "loop") =>
               \E i \in 1 .. Len(tasks) : tasks[i].kind = "loop"
        BY <1>0, <4>1, LoopsKept
      <4>3. app' = app
        BY <3>2 DEF CallFunction
      <4> QED BY <1>0, <4>2, <4>3 DEF Pending
    <3> QED BY <1>6, <3>1, <3>2
  <2> QED BY <1>1, <1>2, <2>1, <2>2, <2>3, EdgesKept
<1>7. CASE Arrive
  <2>1. /\ conn = "open" /\ conn' = conn /\ arrived' \in arrived + 1 .. Len(answered)
        /\ app' = app /\ tasks' = tasks
    BY <1>7 DEF Arrive
  <2>2. taken = arrived /\ taken # arrived'
    <3>1. NextToEachOther
      BY TurnFacts
    <3> QED BY <2>1, <3>1 DEF NextToEachOther
  <2>3. Reads = {}
    BY <2>1, <2>2 DEF Edges
  <2>4. AtMostOne(Reads') /\ AtMostTwo(Reads')
    BY <1>4, <2>3 DEF AtMostOne, AtMostTwo, KeptButEdge
  <2>5. ~Gone'
    BY <1>1, <2>1 DEF Edges
  <2>6. Pending' => Reads' = {}
    BY <1>3, <1>4, <2>3 DEF KeptButEdge
  <2> QED BY <1>0, <1>2, <2>2, <2>4, <2>5, <2>6 DEF Edges
<1>8. CASE ServerCloses
  <2>1. /\ conn = "open" /\ conn' = "closing" /\ arrived' = arrived /\ app' = app /\ tasks' = tasks
    BY <1>8 DEF ServerCloses
  <2>2. ~Gone'
    BY <1>1, <2>1 DEF Edges
  <2>3. AtMostOne(Reads) /\ (taken = arrived => Reads = {})
    BY <2>1 DEF Edges
  <2>4. AtMostTwo(Reads') /\ (taken = arrived => AtMostOne(Reads'))
    BY <1>4, <2>3, NoMoreThan DEF KeptButEdge
  <2>5. Pending' => Reads' = {}
    <3>1. Pending' => Pending
      BY <1>0, <2>1 DEF Pending
    <3> QED BY <1>3, <1>4, <3>1 DEF KeptButEdge, Edges
  <2> QED BY <1>0, <1>2, <2>1, <2>2, <2>4, <2>5 DEF Edges
<1> QED BY <1>5, <1>6, <1>7, <1>8 DEF Application, Network

LEMMA InitTame == Init => TameInv
<1> SUFFICES ASSUME Init PROVE InTurn /\ Edges /\ TakenDown
  BY DEF TameInv
<1>1. Len(<< >>) = 0
  BY EmptySeq
<1>2. InTurn
  <2>1. /\ Len(sent) = 0 /\ Len(called) = 0 /\ Len(buffer) = 0 /\ taken = 0 /\ made = 0
        /\ dropped = {}
    BY <1>1 DEF Init
  <2>2. 0 <= 0 /\ 0 <= 0 + 1 /\ 0 = 0 - 0 /\ 1 .. 0 = {}
    OBVIOUS
  <2> QED BY <2>1, <2>2 DEF InTurn
<1>3. Reads = {}
  BY <1>1 DEF Init, Reads
<1>4. ~Gone
  BY DEF Init, Gone, Drops
<1>5. Edges
  BY <1>3, <1>4 DEF Edges, AtMostOne, AtMostTwo
<1>6. TakenDown
  BY DEF Init, TakenDown, Drops, Crashed
<1> QED BY <1>2, <1>5, <1>6

LEMMA TameStep == IInv /\ TameInv /\ [Next]_vars => TameInv'
<1> SUFFICES ASSUME IInv, TameInv, [Next]_vars, Tame(made') PROVE (InTurn /\ Edges /\ TakenDown)'
  BY DEF TameInv
<1> USE DEF appVars, serverVars, readVars, epollVars, bufferVars, workerVars
<1>1. made \in Nat /\ made' \in {made, made + 1}
  <2>1. made \in Nat
    BY CallsAssumption DEF IInv, TypeOK
  <2>2. CASE Application \/ Network \/ ServerCloses
    BY <2>1, <2>2
       DEF Application, Connect, ConnectFails, Start, CallFunction, Network, Answer, Arrive,
           ServerCloses
  <2>3. ASSUME NEW w \in Workers, Worker(w) PROVE made' = made
    BY <2>3, WorkerIsWorking
       DEF Working, TaskStart, LoopWatch, LoopWait, LoopDispatch, Send, Lookup, ReadLock, ReadStore,
           ReadNoRoom, ReadNothing, ServeLock, ServeDone, ServePostpone, ServeCall, CallbackReturns,
           ServeThrow, DropWatch, DropLookup, Erase, Close
  <2>4. CASE UNCHANGED vars
    BY <2>1, <2>4 DEF vars
  <2> QED BY <2>1, <2>2, <2>3, <2>4 DEF Next
<1>2. Tame(made)
  BY <1>1 DEF Tame
<1>3. InTurn /\ Edges /\ TakenDown
  BY <1>2 DEF TameInv
<1>4. InTurn'
  BY <1>2, <1>3, InTurnStep
<1>5. IInv'
  BY IInvInductive
<1>6. CASE Application \/ Network \/ ServerCloses
  BY <1>3, <1>4, <1>5, <1>6, OthersTame
<1>7. ASSUME NEW w \in Workers, Worker(w) PROVE (InTurn /\ Edges /\ TakenDown)'
  BY <1>2, <1>3, <1>4, <1>5, <1>7, WorkerIsWorking, WorkerTame
<1>8. CASE UNCHANGED vars
  BY <1>3, <1>8 DEF vars, InTurn, Edges, TakenDown, Pending, Reads, Gone, Drops, Crashed
<1> QED BY <1>6, <1>7, <1>8 DEF Next

\* Line 26 of Net.cpp never uses the null pointer that operator[] has put into
\* the map, as long as the application waits for its answers, whenever the
\* server closes the connection and whichever workers read and serve: only the
\* one worker that takes the connection down erases the buffer, and nobody
\* reads any more when it does.
THEOREM NullNeverUsed == Spec => []NoNullBuffer
<1>1. Init => IInv /\ TameInv
  BY IInvInductive, InitTame
<1>2. (IInv /\ TameInv) /\ [Next]_vars => (IInv /\ TameInv)'
  BY IInvInductive, TameStep
<1>3. IInv /\ TameInv => NoNullBuffer
  BY DEF TameInv, TakenDown, NoNullBuffer
<1> QED BY <1>1, <1>2, <1>3, PTL DEF Spec

(***************************************************************************)
(* The client implements RpcCalls.                                         *)
(***************************************************************************)
\* The instance has its own name for the range of a sequence.
LEMMA SameRange ==
  /\ Promise!Range(sent) = Range(sent) /\ Promise!Range(answered) = Range(answered)
  /\ Promise!Range(called) = Range(called)
BY DEF Promise!Range, Range

LEMMA InitImplements == Init => Promise!Init
BY DEF Init, Promise!Init

LEMMA AnswerImplements == IInv /\ Answer => Promise!Answer
<1> SUFFICES ASSUME IInv, Answer PROVE Promise!Answer
  OBVIOUS
<1> DEFINE n == Len(answered) + 1
<1>1. sent \in Seq(Calls) /\ answered \in Seq(Calls) /\ Len(answered) \in Nat /\ Len(sent) \in Nat
  BY LenProperties DEF IInv, TypeOK
<1>2. /\ n \in 1 .. Len(sent) /\ n \notin 1 .. Len(answered) /\ answered' = Append(answered, sent[n])
      /\ UNCHANGED <<made, sent, dropped, called>>
      /\ \A i \in 1 .. Len(answered) : i \in 1 .. Len(sent) /\ i # n
  BY <1>1 DEF Answer, appVars, readVars, bufferVars
<1> HIDE DEF n
<1>3. sent[n] \in Range(sent)
  BY <1>1, <1>2, InRange
<1>4. sent[n] \notin Range(answered)
  <2>1. \A i \in 1 .. Len(answered) : answered[i] # sent[n]
    BY <1>2 DEF IInv, SentOnce, WasSent
  <2> QED BY <1>1, <2>1, InRange
<1> QED BY <1>2, <1>3, <1>4, SameRange DEF Promise!Answer

LEMMA SendImplements ==
  ASSUME IInv, NEW w \in Workers, Send(w)
  PROVE  Promise!Send \/ UNCHANGED Promise!vars
<1>1. /\ UNCHANGED <<made, answered, dropped, called>>
      /\ sent' = sent \/ sent' = Append(sent, item[w])
  BY DEF Send, appVars, readVars, bufferVars
<1>2. item[w] \in (1 .. made) \ Range(sent)
  BY DEF Send, At, IInv, SentOnce, BeingSent, Sends
<1> QED BY <1>1, <1>2, SameRange DEF Promise!Send, Promise!vars

\* An answer is dropped only if the application does not wait.
LEMMA DropImplements ==
  ASSUME IInv, TameInv, NEW w \in Workers, ReadNoRoom(w)
  PROVE  Promise!Drop
<1>1. (1 .. made) \cap Unawaited # {}
  <2>1. ~Tame(made)
    BY NothingIsLost DEF TameInv
  <2> QED BY <2>1 DEF Tame
<1>2. /\ dropped' = dropped \cup Range(Unread) /\ UNCHANGED <<made, sent, answered, called>>
  BY DEF ReadNoRoom, appVars, serverVars
<1>3. /\ answered \in Seq(Calls) /\ Len(answered) \in Nat /\ taken \in Nat /\ arrived \in Nat
      /\ taken <= arrived /\ arrived <= Len(answered)
      /\ Unread \in Seq(Calls) /\ Len(Unread) = arrived - taken
      /\ \A b \in 1 .. arrived - taken : Unread[b] = answered[taken + b]
  BY UnreadFacts, LenProperties DEF IInv, TypeOK
<1>4. ASSUME NEW k \in Range(Unread) PROVE k \in Range(answered) \ Range(called)
  <2>1. PICK b \in 1 .. Len(Unread) : Unread[b] = k
    BY <1>3, InRange
  <2>2. /\ k = answered[taken + b] /\ taken + b \in 1 .. Len(answered)
        /\ \A i \in 1 .. taken : i \in 1 .. Len(answered) /\ i # taken + b
    BY <1>3, <2>1
  <2>3. k \in Range(answered)
    BY <1>3, <2>2, InRange
  <2>4. \A i, j \in 1 .. Len(answered) : answered[i] = answered[j] => i = j
    BY AnsweredOnce DEF IInv
  <2>5. ~Taken(k, answered, taken)
    BY <2>2, <2>4 DEF Taken
  <2>6. k \notin Range(called)
    BY <2>5 DEF IInv, InOrder
  <2> QED BY <2>3, <2>6
<1>5. Range(Unread) \in SUBSET (Range(answered) \ Range(called))
  BY <1>4
<1> QED BY <1>1, <1>2, <1>5, SameRange DEF Promise!Drop

\* The first answer in the buffer is the next one that is not passed over.
LEMMA CallImplements ==
  ASSUME IInv, NEW w \in Workers, ServeCall(w)
  PROVE  Promise!CallBack
<1>1. /\ buffer # << >> /\ Head(buffer) \notin NoCallback
      /\ called' = Append(called, Head(buffer)) /\ UNCHANGED <<made, sent, answered, dropped>>
  BY DEF ServeCall, appVars, serverVars, readVars
<1>2. Head(buffer) = buffer[1] /\ 1 \in 1 .. Len(buffer) /\ Len(buffer) \in Nat
  BY <1>1, EmptySeq DEF IInv, TypeOK
<1>3. PICK i \in 1 .. taken : answered[i] = buffer[1]
  BY <1>2 DEF IInv, InOrder, Taken
<1>4. /\ taken \in Nat /\ Len(answered) \in Nat /\ taken <= Len(answered)
      /\ \A j, k \in 1 .. Len(answered) : answered[j] = answered[k] => j = k
  BY AnsweredOnce DEF IInv, TypeOK
<1>5. /\ i \in 1 .. Len(answered)
      /\ \A j \in 1 .. i - 1 : j \in 1 .. taken /\ j \in 1 .. Len(answered) /\ j < i /\ j # i
      /\ \A j \in 1 .. taken : j \in 1 .. Len(answered) /\ j \in Nat
  BY <1>4
<1>6. ~Promise!PassedOver(answered[i])
  BY <1>1, <1>2, <1>3, SameRange DEF IInv, InOrder, Promise!PassedOver
<1>7. ASSUME NEW j \in 1 .. i - 1 PROVE Promise!PassedOver(answered[j])
  <2> SUFFICES ASSUME ~Promise!PassedOver(answered[j]) PROVE FALSE
    OBVIOUS
  <2>1. PICK a \in 1 .. Len(buffer) : buffer[a] = answered[j]
    BY <1>5, SameRange DEF IInv, InOrder, Promise!PassedOver
  <2>2. a # 1
    BY <1>3, <1>4, <1>5, <2>1
  <2>3. 1 < a
    BY <1>2, <2>2
  <2>4. Before(buffer[1], buffer[a], answered, taken)
    BY <1>2, <2>3 DEF IInv, InOrder
  <2>5. PICK k, l \in 1 .. taken : k < l /\ answered[k] = buffer[1] /\ answered[l] = buffer[a]
    BY <2>4 DEF Before
  <2>6. k = i /\ l = j
    BY <1>3, <1>4, <1>5, <2>1, <2>5
  <2>7. i < j /\ j < i /\ i \in Nat /\ j \in Nat
    BY <1>5, <2>5, <2>6
  <2> QED BY <2>7
<1> QED BY <1>1, <1>2, <1>3, <1>5, <1>6, <1>7 DEF Promise!CallBack

LEMMA StepImplements == IInv /\ TameInv /\ [Next]_vars => [Promise!Next]_Promise!vars
<1> SUFFICES ASSUME IInv, TameInv, [Next]_vars PROVE Promise!Next \/ UNCHANGED Promise!vars
  OBVIOUS
<1> USE DEF appVars, serverVars, readVars, epollVars, bufferVars, workerVars
<1>1. CASE CallFunction
  BY <1>1 DEF CallFunction, Promise!Next, Promise!Make
<1>2. CASE Connect \/ ConnectFails \/ Start \/ Arrive \/ ServerCloses \/ UNCHANGED vars
  BY <1>2 DEF Connect, ConnectFails, Start, Arrive, ServerCloses, vars, Promise!vars
<1>3. CASE Answer
  BY <1>3, AnswerImplements DEF Promise!Next
<1>4. ASSUME NEW w \in Workers, Worker(w) PROVE Promise!Next \/ UNCHANGED Promise!vars
  <2>1. CASE Send(w)
    BY <2>1, SendImplements DEF Promise!Next
  <2>2. CASE ReadNoRoom(w)
    BY <2>2, DropImplements DEF Promise!Next
  <2>3. CASE ServeCall(w)
    BY <2>3, CallImplements DEF Promise!Next
  <2>4. CASE ~Send(w) /\ ~ReadNoRoom(w) /\ ~ServeCall(w)
    <3>1. UNCHANGED <<made, sent, answered, dropped, called>>
      BY <1>4, <2>4, WorkerIsWorking
         DEF Working, TaskStart, LoopWatch, LoopWait, LoopDispatch, Lookup, ReadLock, ReadStore,
             ReadNothing, ServeLock, ServeDone, ServePostpone, CallbackReturns, ServeThrow,
             DropWatch, DropLookup, Erase, Close
    <3> QED BY <3>1 DEF Promise!vars
  <2> QED BY <2>1, <2>2, <2>3, <2>4
<1> QED BY <1>1, <1>2, <1>3, <1>4 DEF Next, Application, Network

\* Each call goes out at most once, and the callbacks are run one for each
\* answer, in the order of the answers, whichever workers send, read and serve
\* and in whatever order; only answers without a callback and, if the
\* application does not wait for all of them, answers that found no room are
\* passed over.
THEOREM Refinement == Spec => CallbackSpec
<1>1. Init => IInv /\ TameInv /\ Promise!Init
  BY IInvInductive, InitTame, InitImplements
<1>2. (IInv /\ TameInv) /\ [Next]_vars => (IInv /\ TameInv)'
  BY IInvInductive, TameStep
<1>3. (IInv /\ TameInv) /\ [Next]_vars => [Promise!Next]_Promise!vars
  BY StepImplements
<1> QED BY <1>1, <1>2, <1>3, PTL DEF Spec, CallbackSpec, Promise!Spec
===============================================================================
