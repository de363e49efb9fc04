------------------------ MODULE LockFreeQueue_proofs ------------------------
(***************************************************************************)
(* Proofs about LockFreeQueue for every number of threads, every set of    *)
(* values and every capacity: type correctness, the inductive invariant    *)
(* IInv with the safety properties it implies, and the refinement of       *)
(* BoundedFifo.                                                            *)
(***************************************************************************)
EXTENDS LockFreeQueue, Sequences, NaturalLemmas

(***************************************************************************)
(* Where tickets live.                                                     *)
(***************************************************************************)
LEMMA SlotFacts ==
  /\ \A k \in Nat : Slot(k) \in Slots
  /\ \A s \in Slots : s \in Nat /\ s < Capacity /\ Slot(s) = s
<1>1. \A k \in Nat : Slot(k) \in Slots
  BY CapacityAssumption, RemainderRange DEF Slot, Slots
<1>2. \A s \in Slots : s \in Nat /\ s < Capacity /\ Slot(s) = s
  BY CapacityAssumption, RemainderSelf DEF Slot, Slots
<1> QED BY <1>1, <1>2

LEMMA SlotNextRound ==
  ASSUME NEW k \in Nat PROVE Slot(k + Capacity) = Slot(k)
BY CapacityAssumption, RemainderNextRound DEF Slot

LEMMA SlotDistance ==
  ASSUME NEW j \in Nat, NEW k \in Nat, Slot(j) = Slot(k), j < k
  PROVE  k >= j + Capacity
<1>1. k - j >= Capacity
  BY CapacityAssumption, RemainderDistance DEF Slot
<1> QED BY <1>1, CapacityAssumption

(***************************************************************************)
(* Type correctness.                                                       *)
(***************************************************************************)
LEMMA TypeInit == Init => TypeOK
BY CapacityAssumption, SlotFacts DEF Init, TypeOK, PcLabels, InvalidPosition

LEMMA TypeStep == TypeOK /\ [Next]_vars => TypeOK'
<1> SUFFICES ASSUME TypeOK, [Next]_vars PROVE TypeOK'
  OBVIOUS
<1> USE CapacityAssumption, SlotFacts DEF TypeOK, PcLabels, Goto, nodeVars
<1>1. ASSUME NEW t \in Threads, NEW v \in Val, PushCall(t, v) PROVE TypeOK'
  BY <1>1 DEF PushCall
<1>2. ASSUME NEW t \in Threads, PopCall(t) PROVE TypeOK'
  BY <1>2 DEF PopCall
<1>3. ASSUME NEW t \in Threads, EmptyCall(t) PROVE TypeOK'
  BY <1>3 DEF EmptyCall
<1>4. ASSUME NEW t \in Threads, SizeCall(t) PROVE TypeOK'
  BY <1>4 DEF SizeCall
<1>5. ASSUME NEW t \in Threads, PushLoad(t) PROVE TypeOK'
  BY <1>5 DEF PushLoad
<1>6. ASSUME NEW t \in Threads, PushCheck(t) PROVE TypeOK'
  BY <1>6 DEF PushCheck
<1>7. ASSUME NEW t \in Threads, PushCasSucceed(t) PROVE TypeOK'
  BY <1>7 DEF PushCasSucceed
<1>8. ASSUME NEW t \in Threads, PushCasFail(t) PROVE TypeOK'
  BY <1>8 DEF PushCasFail
<1>9. ASSUME NEW t \in Threads, PushWrite(t) PROVE TypeOK'
  BY <1>9 DEF PushWrite
<1>10. ASSUME NEW t \in Threads, PushPublish(t) PROVE TypeOK'
  BY <1>10 DEF PushPublish
<1>11. ASSUME NEW t \in Threads, PopLoad(t) PROVE TypeOK'
  BY <1>11 DEF PopLoad
<1>12. ASSUME NEW t \in Threads, PopCheck(t) PROVE TypeOK'
  BY <1>12 DEF PopCheck
<1>13. ASSUME NEW t \in Threads, PopCasSucceed(t) PROVE TypeOK'
  BY <1>13 DEF PopCasSucceed
<1>14. ASSUME NEW t \in Threads, PopCasFail(t) PROVE TypeOK'
  BY <1>14 DEF PopCasFail
<1>15. ASSUME NEW t \in Threads, PopTake(t) PROVE TypeOK'
  BY <1>15 DEF PopTake
<1>16. ASSUME NEW t \in Threads, PopRelease(t) PROVE TypeOK'
  BY <1>16 DEF PopRelease
<1>17. ASSUME NEW t \in Threads, EmptyLoad(t) PROVE TypeOK'
  BY <1>17 DEF EmptyLoad
<1>18. ASSUME NEW t \in Threads, EmptyCheck(t) PROVE TypeOK'
  BY <1>18 DEF EmptyCheck
<1>19. ASSUME NEW t \in Threads, SizeLoadHead(t) PROVE TypeOK'
  BY <1>19 DEF SizeLoadHead
<1>20. ASSUME NEW t \in Threads, SizeLoadTail(t) PROVE TypeOK'
  BY <1>20 DEF SizeLoadTail
<1>21. CASE UNCHANGED vars
  BY <1>21 DEF vars
<1> QED
  BY <1>1, <1>2, <1>3, <1>4, <1>5, <1>6, <1>7, <1>8, <1>9, <1>10, <1>11, <1>12, <1>13, <1>14, <1>15, <1>16, <1>17, <1>18, <1>19, <1>20, <1>21
  DEF Next, Call, Step, PushStep, PopStep, ObserverStep

(* Every variable keeps its type: in particular no counter, captured ticket *)
(* or node index is ever anything but a natural number or InvalidPosition.  *)
THEOREM TypeCorrect == Spec => []TypeOK
BY TypeInit, TypeStep, PTL DEF Spec

(***************************************************************************)
(* The inductive invariant.                                                *)
(***************************************************************************)
LEMMA IInvInit == Init => IInv
<1> SUFFICES ASSUME Init PROVE IInv
  OBVIOUS
<1> USE CapacityAssumption, SlotFacts DEF Init, InvalidPosition
<1>1. TypeOK
  BY TypeInit
<1>2. NodeInv
  BY DEF NodeInv, NodeOK, Slots
<1>3. ThreadInv /\ ClaimInv /\ SizeNeverNegative
  BY DEF ThreadInv, ThreadOK, ClaimInv, SizeNeverNegative, Storer, Taker
<1> QED BY <1>1, <1>2, <1>3 DEF IInv

\* Two claims never meet in one node: two Pushes (Pops) have different tickets
\* and both tickets are their node's storeIndex; a Push finds its ticket not
\* yet published, a Pop finds it published.
LEMMA ClaimsApart ==
  ASSUME IInv, NEW t \in Threads, NEW u \in Threads, t # u,
         Storer(t) \/ Taker(t), Storer(u) \/ Taker(u)
  PROVE  Slot(capture[t]) # Slot(capture[u])
BY DEF IInv, ThreadInv, ThreadOK, ClaimInv

\* The steps that leave the counters, the nodes and the claims alone keep what
\* is known of the nodes.
LEMMA NodeInvFrame ==
  ASSUME IInv, UNCHANGED <<head, tail, nodeVars>>,
         \A u \in Threads, k \in Nat :
           /\ Taking(u, k) => Taking(u, k)'
           /\ Storing(u, k) => Storing(u, k)'
  PROVE  NodeInv'
BY DEF IInv, TypeOK, NodeInv, NodeOK, nodeVars

LEMMA IInvStep == IInv /\ [Next]_vars => IInv'
<1> SUFFICES ASSUME IInv, [Next]_vars PROVE IInv'
  OBVIOUS
<1> TypeOK'
  BY TypeStep DEF IInv
<1> USE CapacityAssumption, SlotFacts, ValueAssumption DEF IInv, TypeOK, Goto, nodeVars
<1>1. ASSUME NEW t \in Threads, NEW v \in Val, PushCall(t, v) PROVE IInv'
  <2>1. NodeInv'
    BY <1>1, NodeInvFrame DEF PushCall, Taking, Storing
  <2>2. ThreadInv'
    BY <1>1 DEF PushCall, ThreadInv, ThreadOK, Storer, Taker
  <2>3. ClaimInv'
    BY <1>1 DEF PushCall, ClaimInv, Storer, Taker
  <2>4. (head <= tail)' /\ SizeNeverNegative'
    BY <1>1 DEF PushCall, SizeNeverNegative
  <2> QED BY <2>1, <2>2, <2>3, <2>4
<1>2. ASSUME NEW t \in Threads, PopCall(t) PROVE IInv'
  <2>1. NodeInv'
    BY <1>2, NodeInvFrame DEF PopCall, Taking, Storing
  <2>2. ThreadInv'
    BY <1>2 DEF PopCall, ThreadInv, ThreadOK, Storer, Taker
  <2>3. ClaimInv'
    BY <1>2 DEF PopCall, ClaimInv, Storer, Taker
  <2>4. (head <= tail)' /\ SizeNeverNegative'
    BY <1>2 DEF PopCall, SizeNeverNegative
  <2> QED BY <2>1, <2>2, <2>3, <2>4
<1>3. ASSUME NEW t \in Threads, EmptyCall(t) PROVE IInv'
  <2>1. NodeInv'
    BY <1>3, NodeInvFrame DEF EmptyCall, Taking, Storing
  <2>2. ThreadInv'
    BY <1>3 DEF EmptyCall, ThreadInv, ThreadOK, Storer, Taker
  <2>3. ClaimInv'
    BY <1>3 DEF EmptyCall, ClaimInv, Storer, Taker
  <2>4. (head <= tail)' /\ SizeNeverNegative'
    BY <1>3 DEF EmptyCall, SizeNeverNegative
  <2> QED BY <2>1, <2>2, <2>3, <2>4
<1>4. ASSUME NEW t \in Threads, SizeCall(t) PROVE IInv'
  <2>1. NodeInv'
    BY <1>4, NodeInvFrame DEF SizeCall, Taking, Storing
  <2>2. ThreadInv'
    BY <1>4 DEF SizeCall, ThreadInv, ThreadOK, Storer, Taker
  <2>3. ClaimInv'
    BY <1>4 DEF SizeCall, ClaimInv, Storer, Taker
  <2>4. (head <= tail)' /\ SizeNeverNegative'
    BY <1>4 DEF SizeCall, SizeNeverNegative
  <2> QED BY <2>1, <2>2, <2>3, <2>4
<1>5. ASSUME NEW t \in Threads, PushLoad(t) PROVE IInv'
  <2>1. NodeInv'
    BY <1>5, NodeInvFrame DEF PushLoad, Taking, Storing
  <2>2. ThreadInv'
    BY <1>5 DEF PushLoad, ThreadInv, ThreadOK, Storer, Taker
  <2>3. ClaimInv'
    BY <1>5 DEF PushLoad, ClaimInv, Storer, Taker
  <2>4. (head <= tail)' /\ SizeNeverNegative'
    BY <1>5 DEF PushLoad, SizeNeverNegative
  <2> QED BY <2>1, <2>2, <2>3, <2>4
<1>6. ASSUME NEW t \in Threads, PushCheck(t) PROVE IInv'
  <2>1. NodeInv'
    BY <1>6, NodeInvFrame DEF PushCheck, Taking, Storing
  <2>2. ThreadInv'
    BY <1>6 DEF PushCheck, ThreadInv, ThreadOK, Storer, Taker
  <2>3. ClaimInv'
    BY <1>6 DEF PushCheck, ClaimInv, Storer, Taker
  <2>4. (head <= tail)' /\ SizeNeverNegative'
    BY <1>6 DEF PushCheck, SizeNeverNegative
  <2> QED BY <2>1, <2>2, <2>3, <2>4
<1>7. ASSUME NEW t \in Threads, PushCasSucceed(t) PROVE IInv'
  <2>1. /\ capture[t] = tail /\ storeIndex[Slot(tail)] = tail
        /\ readIndex[Slot(tail)] # tail /\ arg[t] \in Val
    BY <1>7 DEF PushCasSucceed, ThreadInv, ThreadOK, NodeInv, NodeOK
  <2>2. ASSUME NEW s \in Slots PROVE NodeOK(s)'
    <3>1. storeIndex[s] + Capacity # tail
      <4> SUFFICES ASSUME storeIndex[s] + Capacity = tail PROVE FALSE
        OBVIOUS
      <4>1. Slot(tail) = Slot(storeIndex[s])
        BY SlotNextRound
      <4>2. Slot(storeIndex[s]) = s
        BY DEF NodeInv, NodeOK
      <4> QED BY <2>1, <4>1, <4>2
    <3>2. \A u \in Threads, k \in Nat :
            /\ Taking(u, k) => Taking(u, k)'
            /\ Storing(u, k) => Storing(u, k)'
      BY <1>7 DEF PushCasSucceed, Taking, Storing
    <3>3. Storing(t, capture[t])' /\ capture'[t] = tail
      BY <1>7, <2>1 DEF PushCasSucceed, Storing
    <3>4. /\ NodeOK(s)
          /\ storeIndex[s] \in Nat /\ head \in Nat /\ tail \in Nat /\ Capacity \in Nat
      BY DEF NodeInv
    <3>5. UNCHANGED <<head, readIndex, storeIndex, val>> /\ tail' = tail + 1
      BY <1>7 DEF PushCasSucceed
    <3>6. CASE storeIndex[s] = tail
      BY <2>1, <3>1, <3>3, <3>4, <3>5, <3>6 DEF NodeOK
    <3>7. CASE storeIndex[s] # tail
      BY ONLY <3>1, <3>2, <3>4, <3>5, <3>7 DEF NodeOK
    <3> QED BY <3>6, <3>7
  <2>3. ASSUME NEW u \in Threads PROVE ThreadOK(u)'
    BY <1>7, <2>1 DEF PushCasSucceed, ThreadInv, ThreadOK, Storer, Taker
  <2>4. ClaimInv'
    BY <1>7, <2>1 DEF PushCasSucceed, ThreadInv, ThreadOK, ClaimInv, Storer, Taker
  <2>5. (head <= tail)' /\ SizeNeverNegative'
    BY <1>7 DEF PushCasSucceed, SizeNeverNegative
  <2> QED BY <2>2, <2>3, <2>4, <2>5 DEF NodeInv, ThreadInv
<1>8. ASSUME NEW t \in Threads, PushCasFail(t) PROVE IInv'
  <2>1. NodeInv'
    BY <1>8, NodeInvFrame DEF PushCasFail, Taking, Storing
  <2>2. ThreadInv'
    BY <1>8 DEF PushCasFail, ThreadInv, ThreadOK, Storer, Taker
  <2>3. ClaimInv'
    BY <1>8 DEF PushCasFail, ClaimInv, Storer, Taker
  <2>4. (head <= tail)' /\ SizeNeverNegative'
    BY <1>8 DEF PushCasFail, SizeNeverNegative
  <2> QED BY <2>1, <2>2, <2>3, <2>4
<1>9. ASSUME NEW t \in Threads, PushWrite(t) PROVE IInv'
  <2>1. \A u \in Threads \ {t} : Storer(u) \/ Taker(u) =>
          Slot(capture[u]) # Slot(capture[t])
    BY <1>9, ClaimsApart DEF PushWrite, Storer
  <2>2. ASSUME NEW s \in Slots PROVE NodeOK(s)'
    <3>1. \A u \in Threads, k \in Nat :
            /\ Taking(u, k) => Taking(u, k)'
            /\ Storing(u, k) => Storing(u, k)'
      BY <1>9 DEF PushWrite, Taking, Storing
    <3>2. val'[s] \in Val \/ val'[s] = val[s]
      BY <1>9 DEF PushWrite, ThreadInv, ThreadOK
    <3> QED BY <1>9, <3>1, <3>2 DEF PushWrite, NodeInv, NodeOK
  <2>3. ASSUME NEW u \in Threads PROVE ThreadOK(u)'
    BY <1>9, <2>1 DEF PushWrite, ThreadInv, ThreadOK, Storer, Taker
  <2>4. ClaimInv'
    BY <1>9 DEF PushWrite, ClaimInv, Storer, Taker
  <2>5. (head <= tail)' /\ SizeNeverNegative'
    BY <1>9 DEF PushWrite, SizeNeverNegative
  <2> QED BY <2>2, <2>3, <2>4, <2>5 DEF NodeInv, ThreadInv
<1>10. ASSUME NEW t \in Threads, PushPublish(t) PROVE IInv'
  <2> DEFINE k == capture[t]
  <2>1. \A u \in Threads \ {t} : Storer(u) \/ Taker(u) => Slot(capture[u]) # Slot(k)
    BY <1>10, ClaimsApart DEF PushPublish, Storer
  <2>2. /\ storeIndex[Slot(k)] = k /\ readIndex[Slot(k)] # k
        /\ head <= k /\ k < tail /\ val[Slot(k)] \in Val
    BY <1>10 DEF PushPublish, ThreadInv, ThreadOK, Storer
  <2>3. ASSUME NEW s \in Slots PROVE NodeOK(s)'
    <3>1. CASE s = Slot(k)
      BY <1>10, <2>2, <3>1 DEF PushPublish, NodeInv, NodeOK
    <3>2. CASE s # Slot(k)
      <4>1. \A u \in Threads, j \in Nat :
              /\ Taking(u, j) => Taking(u, j)'
              /\ Storing(u, j) /\ j # k => Storing(u, j)'
        BY <1>10 DEF PushPublish, Taking, Storing
      <4>2. storeIndex[s] # k
        BY <3>2 DEF NodeInv, NodeOK
      <4> QED BY <1>10, <3>2, <4>1, <4>2 DEF PushPublish, NodeInv, NodeOK
    <3> QED BY <3>1, <3>2
  <2>4. ASSUME NEW u \in Threads PROVE ThreadOK(u)'
    <3>1. NodeOK(Slot(k)) /\ k \in Nat
      BY DEF NodeInv
    <3>2. readIndex[Slot(k)] # head
      BY <2>2, <3>1 DEF NodeOK, InvalidPosition
    <3> QED
      BY <1>10, <2>1, <3>2 DEF PushPublish, ThreadInv, ThreadOK, Storer, Taker
  <2>5. ClaimInv'
    BY <1>10 DEF PushPublish, ClaimInv, Storer, Taker
  <2>6. (head <= tail)' /\ SizeNeverNegative'
    BY <1>10 DEF PushPublish, SizeNeverNegative
  <2> QED BY <2>3, <2>4, <2>5, <2>6 DEF NodeInv, ThreadInv
<1>11. ASSUME NEW t \in Threads, PopLoad(t) PROVE IInv'
  <2>1. NodeInv'
    BY <1>11, NodeInvFrame DEF PopLoad, Taking, Storing
  <2>2. ThreadInv'
    BY <1>11 DEF PopLoad, ThreadInv, ThreadOK, Storer, Taker
  <2>3. ClaimInv'
    BY <1>11 DEF PopLoad, ClaimInv, Storer, Taker
  <2>4. (head <= tail)' /\ SizeNeverNegative'
    BY <1>11 DEF PopLoad, SizeNeverNegative
  <2> QED BY <2>1, <2>2, <2>3, <2>4
<1>12. ASSUME NEW t \in Threads, PopCheck(t) PROVE IInv'
  <2>1. NodeInv'
    BY <1>12, NodeInvFrame DEF PopCheck, Taking, Storing
  <2>2. ThreadInv'
    BY <1>12 DEF PopCheck, ThreadInv, ThreadOK, Storer, Taker
  <2>3. ClaimInv'
    BY <1>12 DEF PopCheck, ClaimInv, Storer, Taker
  <2>4. (head <= tail)' /\ SizeNeverNegative'
    BY <1>12 DEF PopCheck, SizeNeverNegative
  <2> QED BY <2>1, <2>2, <2>3, <2>4
<1>13. ASSUME NEW t \in Threads, PopCasSucceed(t) PROVE IInv'
  <2>1. capture[t] = head /\ readIndex[Slot(head)] = head
    BY <1>13 DEF PopCasSucceed, ThreadInv, ThreadOK
  <2>2. storeIndex[Slot(head)] = head /\ head < tail /\ val[Slot(head)] \in Val
    <3>1. NodeOK(Slot(head))
      BY DEF NodeInv
    <3> QED BY <2>1, <3>1 DEF NodeOK, InvalidPosition
  <2>3. ASSUME NEW s \in Slots PROVE NodeOK(s)'
    <3>1. \A u \in Threads, k \in Nat :
            /\ Taking(u, k) => Taking(u, k)'
            /\ Storing(u, k) => Storing(u, k)'
      BY <1>13 DEF PopCasSucceed, Taking, Storing
    <3>2. Taking(t, capture[t])' /\ capture'[t] = head
      BY <1>13, <2>1 DEF PopCasSucceed, Taking
    <3>3. /\ NodeOK(s)
          /\ storeIndex[s] \in Nat /\ head \in Nat /\ tail \in Nat /\ Capacity \in Nat
      BY DEF NodeInv
    <3>4. UNCHANGED <<tail, readIndex, storeIndex, val>> /\ head' = head + 1
      BY <1>13 DEF PopCasSucceed
    <3>5. CASE storeIndex[s] = head
      BY <2>2, <3>2, <3>3, <3>4, <3>5 DEF NodeOK
    <3>6. CASE storeIndex[s] # head
      BY ONLY <3>1, <3>3, <3>4, <3>6 DEF NodeOK
    <3> QED BY <3>5, <3>6
  <2>4. ASSUME NEW u \in Threads PROVE ThreadOK(u)'
    BY <1>13, <2>1, <2>2 DEF PopCasSucceed, ThreadInv, ThreadOK, Storer, Taker
  <2>5. ClaimInv'
    BY <1>13, <2>1 DEF PopCasSucceed, ThreadInv, ThreadOK, ClaimInv, Storer, Taker
  <2>6. (head <= tail)' /\ SizeNeverNegative'
    BY <1>13, <2>2 DEF PopCasSucceed, SizeNeverNegative
  <2> QED BY <2>3, <2>4, <2>5, <2>6 DEF NodeInv, ThreadInv
<1>14. ASSUME NEW t \in Threads, PopCasFail(t) PROVE IInv'
  <2>1. NodeInv'
    BY <1>14, NodeInvFrame DEF PopCasFail, Taking, Storing
  <2>2. ThreadInv'
    BY <1>14 DEF PopCasFail, ThreadInv, ThreadOK, Storer, Taker
  <2>3. ClaimInv'
    BY <1>14 DEF PopCasFail, ClaimInv, Storer, Taker
  <2>4. (head <= tail)' /\ SizeNeverNegative'
    BY <1>14 DEF PopCasFail, SizeNeverNegative
  <2> QED BY <2>1, <2>2, <2>3, <2>4
<1>15. ASSUME NEW t \in Threads, PopTake(t) PROVE IInv'
  <2>1. \A u \in Threads \ {t} : Storer(u) \/ Taker(u) =>
          Slot(capture[u]) # Slot(capture[t])
    BY <1>15, ClaimsApart DEF PopTake, Taker
  <2>2. ASSUME NEW s \in Slots PROVE NodeOK(s)'
    <3>1. \A u \in Threads, k \in Nat :
            /\ Taking(u, k) => Taking(u, k)'
            /\ Storing(u, k) => Storing(u, k)'
      BY <1>15 DEF PopTake, Taking, Storing
    <3>2. val'[s] = val[s] \/ storeIndex[s] < head
      BY <1>15 DEF PopTake, ThreadInv, ThreadOK, Taker
    <3> QED BY <1>15, <3>1, <3>2 DEF PopTake, NodeInv, NodeOK
  <2>3. ASSUME NEW u \in Threads PROVE ThreadOK(u)'
    BY <1>15, <2>1 DEF PopTake, ThreadInv, ThreadOK, Storer, Taker
  <2>4. ClaimInv'
    BY <1>15 DEF PopTake, ClaimInv, Storer, Taker
  <2>5. (head <= tail)' /\ SizeNeverNegative'
    BY <1>15 DEF PopTake, SizeNeverNegative
  <2> QED BY <2>2, <2>3, <2>4, <2>5 DEF NodeInv, ThreadInv
<1>16. ASSUME NEW t \in Threads, PopRelease(t) PROVE IInv'
  <2> DEFINE k == capture[t]
  <2>1. \A u \in Threads \ {t} : Storer(u) \/ Taker(u) => Slot(capture[u]) # Slot(k)
    BY <1>16, ClaimsApart DEF PopRelease, Taker
  <2>2. storeIndex[Slot(k)] = k /\ readIndex[Slot(k)] = k /\ k < head
    BY <1>16 DEF PopRelease, ThreadInv, ThreadOK, Taker
  <2>3. ASSUME NEW s \in Slots PROVE NodeOK(s)'
    <3>1. CASE s = Slot(k)
      BY SlotNextRound, <1>16, <2>2, <3>1 DEF PopRelease, NodeInv, NodeOK
    <3>2. CASE s # Slot(k)
      <4>1. \A u \in Threads, j \in Nat :
              /\ Taking(u, j) /\ j # k => Taking(u, j)'
              /\ Storing(u, j) => Storing(u, j)'
        BY <1>16 DEF PopRelease, Taking, Storing
      <4>2. storeIndex[s] # k
        BY <3>2 DEF NodeInv, NodeOK
      <4> QED BY <1>16, <3>2, <4>1, <4>2 DEF PopRelease, NodeInv, NodeOK
    <3> QED BY <3>1, <3>2
  <2>4. ASSUME NEW u \in Threads PROVE ThreadOK(u)'
    BY <1>16, <2>1, <2>2 DEF PopRelease, ThreadInv, ThreadOK, Storer, Taker
  <2>5. ClaimInv'
    BY <1>16 DEF PopRelease, ClaimInv, Storer, Taker
  <2>6. (head <= tail)' /\ SizeNeverNegative'
    BY <1>16 DEF PopRelease, SizeNeverNegative
  <2> QED BY <2>3, <2>4, <2>5, <2>6 DEF NodeInv, ThreadInv
<1>17. ASSUME NEW t \in Threads, EmptyLoad(t) PROVE IInv'
  <2>1. NodeInv'
    BY <1>17, NodeInvFrame DEF EmptyLoad, Taking, Storing
  <2>2. ThreadInv'
    BY <1>17 DEF EmptyLoad, ThreadInv, ThreadOK, Storer, Taker
  <2>3. ClaimInv'
    BY <1>17 DEF EmptyLoad, ClaimInv, Storer, Taker
  <2>4. (head <= tail)' /\ SizeNeverNegative'
    BY <1>17 DEF EmptyLoad, SizeNeverNegative
  <2> QED BY <2>1, <2>2, <2>3, <2>4
<1>18. ASSUME NEW t \in Threads, EmptyCheck(t) PROVE IInv'
  <2>1. NodeInv'
    BY <1>18, NodeInvFrame DEF EmptyCheck, Taking, Storing
  <2>2. ThreadInv'
    BY <1>18 DEF EmptyCheck, ThreadInv, ThreadOK, Storer, Taker
  <2>3. ClaimInv'
    BY <1>18 DEF EmptyCheck, ClaimInv, Storer, Taker
  <2>4. (head <= tail)' /\ SizeNeverNegative'
    BY <1>18 DEF EmptyCheck, SizeNeverNegative
  <2> QED BY <2>1, <2>2, <2>3, <2>4
<1>19. ASSUME NEW t \in Threads, SizeLoadHead(t) PROVE IInv'
  <2>1. NodeInv'
    BY <1>19, NodeInvFrame DEF SizeLoadHead, Taking, Storing
  <2>2. ThreadInv'
    BY <1>19 DEF SizeLoadHead, ThreadInv, ThreadOK, Storer, Taker
  <2>3. ClaimInv'
    BY <1>19 DEF SizeLoadHead, ClaimInv, Storer, Taker
  <2>4. (head <= tail)' /\ SizeNeverNegative'
    BY <1>19 DEF SizeLoadHead, SizeNeverNegative
  <2> QED BY <2>1, <2>2, <2>3, <2>4
<1>20. ASSUME NEW t \in Threads, SizeLoadTail(t) PROVE IInv'
  <2>1. NodeInv'
    BY <1>20, NodeInvFrame DEF SizeLoadTail, Taking, Storing
  <2>2. ThreadInv'
    BY <1>20 DEF SizeLoadTail, ThreadInv, ThreadOK, Storer, Taker
  <2>3. ClaimInv'
    BY <1>20 DEF SizeLoadTail, ClaimInv, Storer, Taker
  <2>4. (head <= tail)' /\ SizeNeverNegative'
    BY <1>20 DEF SizeLoadTail, SizeNeverNegative, ThreadInv, ThreadOK
  <2> QED BY <2>1, <2>2, <2>3, <2>4
<1>21. CASE UNCHANGED vars
  BY <1>21 DEF vars, NodeInv, NodeOK, ThreadInv, ThreadOK, ClaimInv, SizeNeverNegative,
      Storer, Taker, Storing, Taking
<1> QED
  BY <1>1, <1>2, <1>3, <1>4, <1>5, <1>6, <1>7, <1>8, <1>9, <1>10, <1>11, <1>12, <1>13, <1>14, <1>15, <1>16, <1>17, <1>18, <1>19, <1>20, <1>21
  DEF Next, Call, Step, PushStep, PopStep, ObserverStep

(* The strengthening that makes the safety properties inductive.            *)
THEOREM Inductive == Spec => []IInv
BY IInvInit, IInvStep, PTL DEF Spec

(***************************************************************************)
(* Safety.                                                                 *)
(***************************************************************************)

\* The node of a ticket between _head and _tail is kept for that ticket.
LEMMA Window ==
  ASSUME IInv, NEW k \in head .. tail - 1
  PROVE  k \in Nat /\ storeIndex[Slot(k)] = k
<1> DEFINE e == storeIndex[Slot(k)]
<1>1. /\ head \in Nat /\ tail \in Nat /\ Capacity \in Nat \ {0}
      /\ k \in Nat /\ Slot(k) \in Slots /\ e \in Nat
  BY CapacityAssumption, SlotFacts DEF IInv, TypeOK
<1>2. Slot(e) = Slot(k) /\ tail <= e + Capacity /\ e < head + Capacity
  BY <1>1 DEF IInv, NodeInv, NodeOK
<1> HIDE DEF e
<1>3. ~(e < k) /\ ~(k < e)
  BY <1>1, <1>2, SlotDistance
<1> QED BY <1>1, <1>3 DEF e

LEMMA ExclusiveInv == IInv => NodeExclusive
BY ClaimsApart DEF NodeExclusive, Storer, Taker

LEMMA NothingLostInv == IInv => NothingLost
<1> SUFFICES ASSUME IInv PROVE NothingLost
  OBVIOUS
<1>1. head \in Nat /\ tail \in Nat /\ head <= tail /\ Capacity \in Nat \ {0}
  BY CapacityAssumption DEF IInv, TypeOK
<1>2. ASSUME NEW k \in head .. tail - 1
      PROVE  \/ readIndex[Slot(k)] = k /\ val[Slot(k)] \in Val
             \/ \E t \in Threads : Storing(t, k)
  <2>1. k \in Nat /\ storeIndex[Slot(k)] = k
    BY Window
  <2>2. NodeOK(Slot(k))
    BY <2>1, SlotFacts DEF IInv, NodeInv
  <2> QED BY <1>1, <2>1, <2>2 DEF NodeOK
<1>3. ASSUME NEW k \in tail .. head + Capacity - 1
      PROVE  \/ storeIndex[Slot(k)] = k
             \/ \E t \in Threads : Taking(t, k - Capacity)
  <2> DEFINE e == storeIndex[Slot(k)]
  <2>1. k \in Nat /\ Slot(k) \in Slots /\ e \in Nat
    BY <1>1, SlotFacts DEF IInv, TypeOK
  <2>2. /\ Slot(e) = Slot(k) /\ tail <= e + Capacity /\ e < head + Capacity
        /\ e < head => \E t \in Threads : Taking(t, e)
    BY <2>1 DEF IInv, NodeInv, NodeOK
  <2> HIDE DEF e
  <2>3. ~(k < e)
    BY <1>1, <2>1, <2>2, SlotDistance
  <2>4. ~(e + Capacity < k)
    <3>1. Slot(e + Capacity) = Slot(k) /\ e + Capacity \in Nat
      BY <1>1, <2>1, <2>2, SlotNextRound
    <3> QED BY <1>1, <2>1, <2>2, <3>1, SlotDistance
  <2>5. e < k => e = k - Capacity /\ e < head
    BY <1>1, <2>1, <2>2, <2>4, SlotDistance
  <2> QED BY <2>1, <2>2, <2>3, <2>5 DEF e
<1> QED BY <1>2, <1>3 DEF NothingLost

(* No two threads use the object of one node at the same time: the value   *)
(* Push constructs and Pop destroys without a lock is never raced for.     *)
THEOREM Exclusive == Spec => []NodeExclusive
BY Inductive, ExclusiveInv, PTL

(* Every ticket handed to a Push is published or being published, and every *)
(* free node is ready or being made ready: nothing is lost or forgotten.    *)
THEOREM Complete == Spec => []NothingLost
BY Inductive, NothingLostInv, PTL

(* Size never returns a difference that has wrapped below zero.             *)
THEOREM SizeCorrect == Spec => []SizeNeverNegative
<1>1. IInv => SizeNeverNegative
  BY DEF IInv
<1> QED BY Inductive, <1>1, PTL

(***************************************************************************)
(* Refinement of BoundedFifo.                                              *)
(***************************************************************************)

LEMMA ItemFrame ==
  ASSUME NEW k \in Nat, Writers(k)' = Writers(k),
         \A u \in Writers(k) : arg'[u] = arg[u],
         val'[Slot(k)] = val[Slot(k)]
  PROVE  Item(k)' = Item(k)
<1>1. CASE Writers(k) = {}
  BY <1>1 DEF Item
<1>2. CASE Writers(k) # {}
  <2>1. (CHOOSE u \in Writers(k) : TRUE) \in Writers(k)
    BY <1>2
  <2> QED BY <1>2, <2>1 DEF Item
<1> QED BY <1>1, <1>2

\* A step that keeps the counters and the items keeps the abstract queue.
LEMMA QueueFrame ==
  ASSUME UNCHANGED <<head, tail>>, head \in Nat, tail \in Nat,
         \A k \in head .. tail - 1 : Item(k)' = Item(k)
  PROVE  AbstractQueue' = AbstractQueue
<1>1. \A i \in 1 .. tail - head : head + i - 1 \in head .. tail - 1
  OBVIOUS
<1>2. \A i \in 1 .. tail - head : Item(head + i - 1)' = Item(head + i - 1)
  BY <1>1
<1> QED BY <1>2 DEF AbstractQueue

LEMMA StageGoto ==
  ASSUME TypeOK, NEW t \in Threads, NEW label, Goto(t, label)
  PROVE  AbstractStage' = [AbstractStage EXCEPT ![t] = StageOf(label)]
BY DEF TypeOK, Goto, AbstractStage

\* The steps that leave the counters, the objects and the claims alone.
LEMMA LocalFrame ==
  ASSUME IInv, UNCHANGED <<head, tail, val, out>>,
         \A u \in Threads :
           pc[u] \in {"push_write", "pop_take"} \/ pc'[u] \in {"push_write", "pop_take"}
             => pc'[u] = pc[u] /\ capture'[u] = capture[u] /\ arg'[u] = arg[u]
  PROVE  AbstractQueue' = AbstractQueue /\ AbstractOut' = AbstractOut
<1>1. head \in Nat /\ tail \in Nat
  BY DEF IInv, TypeOK
<1>2. ASSUME NEW k \in head .. tail - 1 PROVE Item(k)' = Item(k)
  <2>1. k \in Nat
    BY <1>1
  <2>2. Writers(k)' = Writers(k) /\ \A u \in Writers(k) : arg'[u] = arg[u]
    BY DEF Writers
  <2> QED BY <2>1, <2>2, ItemFrame
<1>3. AbstractQueue' = AbstractQueue
  BY <1>1, <1>2, QueueFrame
<1>4. AbstractOut' = AbstractOut
  BY DEF AbstractOut
<1> QED BY <1>3, <1>4

LEMMA RefinementInit == Init => Fifo!Init
<1> SUFFICES ASSUME Init PROVE Fifo!Init
  OBVIOUS
<1>1. AbstractQueue = << >>
  BY DEF Init, AbstractQueue
<1>2. AbstractStage = [t \in Threads |-> "idle"]
  BY DEF Init, AbstractStage, StageOf
<1>3. AbstractOut = [t \in Threads |-> NoVal]
  BY DEF Init, AbstractOut
<1> QED BY <1>1, <1>2, <1>3 DEF Init, Fifo!Init

\* The two steps that move values between threads and nodes are invisible.
LEMMA WriteStutters ==
  ASSUME IInv, NEW t \in Threads, PushWrite(t)
  PROVE  UNCHANGED <<AbstractQueue, AbstractStage, AbstractOut, arg, ret>>
<1> USE CapacityAssumption
<1>1. head \in Nat /\ tail \in Nat /\ capture[t] \in Nat /\ Slot(capture[t]) \in Slots
  BY SlotFacts DEF IInv, TypeOK
<1>2. storeIndex[Slot(capture[t])] = capture[t]
  BY DEF PushWrite, IInv, ThreadInv, ThreadOK, Storer
<1>3. val'[Slot(capture[t])] = arg[t]
  BY <1>1 DEF PushWrite, IInv, TypeOK
<1>4. ASSUME NEW k \in head .. tail - 1 PROVE Item(k)' = Item(k)
  <2>1. k \in Nat /\ storeIndex[Slot(k)] = k
    BY Window
  <2>2. CASE k = capture[t]
    <3>1. Writers(k) = {t}
      BY <2>2 DEF PushWrite, Writers, Storer, IInv, ClaimInv
    <3>2. Writers(k)' = {}
      BY <3>1 DEF PushWrite, Writers, Goto, IInv, TypeOK
    <3>3. (CHOOSE u \in {t} : TRUE) = t
      OBVIOUS
    <3> QED BY <1>3, <2>2, <3>1, <3>2, <3>3 DEF Item
  <2>3. CASE k # capture[t]
    <3>1. Slot(k) # Slot(capture[t])
      BY <1>2, <2>1, <2>3
    <3>2. Writers(k)' = Writers(k)
      BY <2>3 DEF PushWrite, Writers, Goto, IInv, TypeOK
    <3>3. val'[Slot(k)] = val[Slot(k)] /\ arg' = arg
      BY <2>1, <3>1, SlotFacts DEF PushWrite, IInv, TypeOK
    <3> QED BY <2>1, <3>2, <3>3, ItemFrame
  <2> QED BY <2>2, <2>3
<1>5. AbstractQueue' = AbstractQueue
  BY <1>1, <1>4, QueueFrame DEF PushWrite
<1>6. AbstractStage' = AbstractStage
  BY DEF PushWrite, Goto, AbstractStage, StageOf, IInv, TypeOK
<1>7. AbstractOut' = AbstractOut
  <2>1. ASSUME NEW u \in Threads, pc[u] = "pop_take"
        PROVE  val'[Slot(capture[u])] = val[Slot(capture[u])]
    <3>1. Slot(capture[u]) # Slot(capture[t])
      BY <2>1, ClaimsApart DEF PushWrite, Storer, Taker
    <3>2. Slot(capture[u]) \in Slots
      BY SlotFacts DEF IInv, TypeOK
    <3> QED BY <3>1, <3>2 DEF PushWrite, IInv, TypeOK
  <2> QED BY <2>1 DEF PushWrite, Goto, AbstractOut, IInv, TypeOK
<1> QED BY <1>5, <1>6, <1>7 DEF PushWrite

LEMMA TakeStutters ==
  ASSUME IInv, NEW t \in Threads, PopTake(t)
  PROVE  UNCHANGED <<AbstractQueue, AbstractStage, AbstractOut, arg, ret>>
<1> USE CapacityAssumption
<1>1. head \in Nat /\ tail \in Nat /\ capture[t] \in Nat /\ Slot(capture[t]) \in Slots
  BY SlotFacts DEF IInv, TypeOK
<1>2. storeIndex[Slot(capture[t])] = capture[t] /\ capture[t] < head
  BY DEF PopTake, IInv, ThreadInv, ThreadOK, Taker
<1>3. ASSUME NEW k \in head .. tail - 1 PROVE Item(k)' = Item(k)
  <2>1. k \in Nat /\ storeIndex[Slot(k)] = k
    BY Window
  <2>2. Slot(k) # Slot(capture[t])
    BY <1>1, <1>2, <2>1
  <2>3. Writers(k)' = Writers(k)
    BY DEF PopTake, Writers, Goto, IInv, TypeOK
  <2>4. val'[Slot(k)] = val[Slot(k)] /\ arg' = arg
    BY <2>1, <2>2, SlotFacts DEF PopTake, IInv, TypeOK
  <2> QED BY <2>1, <2>3, <2>4, ItemFrame
<1>4. AbstractQueue' = AbstractQueue
  BY <1>1, <1>3, QueueFrame DEF PopTake
<1>5. AbstractStage' = AbstractStage
  BY DEF PopTake, Goto, AbstractStage, StageOf, IInv, TypeOK
<1>6. AbstractOut' = AbstractOut
  <2>1. ASSUME NEW u \in Threads, u # t, pc[u] = "pop_take"
        PROVE  val'[Slot(capture[u])] = val[Slot(capture[u])]
    <3>1. Slot(capture[u]) # Slot(capture[t])
      BY <2>1, ClaimsApart DEF PopTake, Taker
    <3>2. Slot(capture[u]) \in Slots
      BY SlotFacts DEF IInv, TypeOK
    <3> QED BY <3>1, <3>2 DEF PopTake, IInv, TypeOK
  <2> QED BY <2>1 DEF PopTake, Goto, AbstractOut, IInv, TypeOK
<1> QED BY <1>4, <1>5, <1>6 DEF PopTake

\* The successful compare-exchange of a Push appends its value.
LEMMA PushTakesEffect ==
  ASSUME IInv, NEW t \in Threads, PushCasSucceed(t)
  PROVE  Fifo!PushEffect(t)
<1>1. /\ head \in Nat /\ tail \in Nat /\ head <= tail /\ capture[t] = tail
      /\ tail' = tail + 1 /\ head' = head /\ Slot(tail) \in Slots
  BY SlotFacts DEF PushCasSucceed, IInv, TypeOK
<1>2. storeIndex[Slot(tail)] = tail
  BY <1>1 DEF PushCasSucceed, IInv, ThreadInv, ThreadOK
<1>3. tail < head + Capacity
  BY <1>1, <1>2 DEF IInv, NodeInv, NodeOK
<1>4. ASSUME NEW k \in head .. tail - 1 PROVE Item(k)' = Item(k)
  <2>1. k \in Nat /\ k # tail
    BY <1>1
  <2>2. Writers(k)' = Writers(k)
    BY <1>1, <2>1 DEF PushCasSucceed, Writers, Goto, IInv, TypeOK
  <2> QED BY <2>1, <2>2, ItemFrame DEF PushCasSucceed, nodeVars
<1>5. ASSUME NEW k, k = tail PROVE Item(k)' = arg[t]
  <2>1. Writers(k)' = {t}
    <3>1. \A u \in Threads : pc[u] = "push_write" => capture[u] # tail
      BY <1>1 DEF IInv, TypeOK, ThreadInv, ThreadOK, Storer
    <3> QED BY <1>1, <1>5, <3>1 DEF PushCasSucceed, Writers, Goto, IInv, TypeOK
  <2>2. (CHOOSE u \in {t} : TRUE) = t
    OBVIOUS
  <2> QED BY <2>1, <2>2 DEF Item, PushCasSucceed
<1>6. AbstractQueue' = Append(AbstractQueue, arg[t])
  <2>1. PICK n \in Nat : n = tail - head
    BY <1>1
  <2>2. AbstractQueue = [i \in 1 .. n |-> Item(head + i - 1)]
    BY <2>1 DEF AbstractQueue
  <2>3. AbstractQueue' = [i \in 1 .. n + 1 |-> Item(head + i - 1)']
    <3>1. tail' - head' = n + 1
      BY <1>1, <2>1
    <3> QED BY <3>1 DEF AbstractQueue
  <2>4. \A i \in 1 .. n : Item(head + i - 1)' = Item(head + i - 1)
    <3>1. \A i \in 1 .. n : head + i - 1 \in head .. tail - 1
      BY <1>1, <2>1
    <3> QED BY <1>1, <1>4, <3>1
  <2>5. \A i : i = n + 1 => Item(head + i - 1)' = arg[t]
    <3>1. \A i : i = n + 1 => head + i - 1 = tail
      BY <1>1, <2>1
    <3> QED BY <1>1, <1>5, <3>1
  <2> QED BY <2>2, <2>3, <2>4, <2>5
<1>7. Len(AbstractQueue) < Capacity
  BY <1>1, <1>3, CapacityAssumption DEF AbstractQueue
<1>8. /\ AbstractStage[t] = "pushing"
      /\ AbstractStage' = [AbstractStage EXCEPT ![t] = "pushed"]
  BY StageGoto DEF PushCasSucceed, AbstractStage, StageOf, IInv
<1>9. AbstractOut' = AbstractOut
  BY DEF PushCasSucceed, nodeVars, Goto, AbstractOut, IInv, TypeOK
<1> QED BY <1>6, <1>7, <1>8, <1>9 DEF Fifo!PushEffect, PushCasSucceed

\* The successful compare-exchange of a Pop takes the oldest value.
LEMMA PopTakesEffect ==
  ASSUME IInv, NEW t \in Threads, PopCasSucceed(t)
  PROVE  Fifo!PopEffect(t)
<1>1. /\ head \in Nat /\ tail \in Nat /\ capture[t] = head
      /\ tail' = tail /\ head' = head + 1 /\ Slot(head) \in Slots
  BY SlotFacts DEF PopCasSucceed, IInv, TypeOK
<1>2. readIndex[Slot(head)] = head
  BY <1>1 DEF PopCasSucceed, IInv, ThreadInv, ThreadOK
<1>3. head < tail
  <2>1. NodeOK(Slot(head)) /\ storeIndex[Slot(head)] \in Nat /\ Capacity \in Nat
    BY <1>1, CapacityAssumption DEF IInv, TypeOK, NodeInv
  <2> QED BY <1>1, <1>2, <2>1 DEF NodeOK, InvalidPosition
<1>4. Item(head) = val[Slot(head)]
  <2>1. Writers(head) = {}
    BY <1>2 DEF Writers, IInv, ThreadInv, ThreadOK, Storer
  <2> QED BY <2>1 DEF Item
<1>5. ASSUME NEW k \in head + 1 .. tail - 1 PROVE Item(k)' = Item(k)
  <2>1. k \in Nat
    BY <1>1
  <2>2. Writers(k)' = Writers(k)
    BY DEF PopCasSucceed, Writers, Goto, IInv, TypeOK
  <2> QED BY <2>1, <2>2, ItemFrame DEF PopCasSucceed, nodeVars
<1>6. AbstractQueue' = Tail(AbstractQueue)
  <2>1. PICK h \in Nat, n \in Nat : h = head /\ n + 1 = tail - head
    BY <1>1, <1>3
  <2>2. AbstractQueue = [i \in 1 .. n + 1 |-> Item(h + i - 1)]
    BY <2>1 DEF AbstractQueue
  <2>3. AbstractQueue' = [i \in 1 .. n |-> Item(h + i)']
    <3>1. tail' - head' = n /\ \A i \in 1 .. n : head' + i - 1 = h + i
      BY <1>1, <2>1
    <3> QED BY <3>1 DEF AbstractQueue
  <2>4. \A i \in 1 .. n : Item(h + i)' = Item(h + i)
    <3>1. \A i \in 1 .. n : h + i \in head + 1 .. tail - 1
      BY <1>1, <2>1
    <3> QED BY <1>5, <3>1
  <2> DEFINE s == [i \in 1 .. n + 1 |-> Item(h + i - 1)]
             r == [i \in 1 .. n |-> Item(h + i)]
  <2>5. r = Tail(s)
    <3>1. Len(s) = n + 1
      OBVIOUS
    <3>2. Tail(s) = [i \in 1 .. n |-> s[i + 1]]
      BY <3>1
    <3>3. \A i \in 1 .. n : s[i + 1] = r[i]
      <4>1. \A i \in 1 .. n : i + 1 \in 1 .. n + 1 /\ h + (i + 1) - 1 = h + i
        OBVIOUS
      <4> QED BY <4>1
    <3> QED BY <3>2, <3>3
  <2>6. AbstractQueue = s /\ AbstractQueue' = r
    BY <2>2, <2>3, <2>4
  <2> HIDE DEF s, r
  <2> QED BY <2>5, <2>6
<1>7. AbstractQueue # << >> /\ Head(AbstractQueue) = val[Slot(head)]
  <2>1. PICK n \in Nat : n + 1 = tail - head
    BY <1>1, <1>3
  <2>2. AbstractQueue = [i \in 1 .. n + 1 |-> Item(head + i - 1)]
    BY <2>1 DEF AbstractQueue
  <2>3. head + 1 - 1 = head
    BY <1>1
  <2> QED BY <1>4, <2>2, <2>3
<1>8. /\ AbstractStage[t] = "popping"
      /\ AbstractStage' = [AbstractStage EXCEPT ![t] = "popped"]
  BY StageGoto DEF PopCasSucceed, AbstractStage, StageOf, IInv
<1>9. AbstractOut' = [AbstractOut EXCEPT ![t] = val[Slot(head)]]
  BY <1>1 DEF PopCasSucceed, nodeVars, Goto, AbstractOut, IInv, TypeOK
<1> QED BY <1>6, <1>7, <1>8, <1>9 DEF Fifo!PopEffect, PopCasSucceed

\* Inside Push, one step takes effect, one returns, and the others are invisible.
LEMMA PushRefines ==
  ASSUME IInv, NEW t \in Threads, PushStep(t)
  PROVE  Fifo!PushEffect(t) \/ Fifo!PushReturn(t) \/ UNCHANGED Fifo!vars
<1> USE StageGoto, LocalFrame DEF nodeVars, IInv, TypeOK, Goto
<1>1. ASSUME PushLoad(t) PROVE UNCHANGED Fifo!vars
  <2>1. AbstractQueue' = AbstractQueue /\ AbstractOut' = AbstractOut
    BY <1>1 DEF PushLoad
  <2>2. AbstractStage' = AbstractStage
    BY <1>1 DEF PushLoad, AbstractStage, StageOf
  <2> QED BY <1>1, <2>1, <2>2 DEF PushLoad, Fifo!vars
<1>2. ASSUME PushCheck(t) PROVE Fifo!PushReturn(t) \/ UNCHANGED Fifo!vars
  <2>1. AbstractQueue' = AbstractQueue /\ AbstractOut' = AbstractOut
    BY <1>2 DEF PushCheck
  <2>2. CASE Goto(t, "idle")
    <3>1. AbstractStage[t] = "pushing" /\ AbstractStage' = [AbstractStage EXCEPT ![t] = "idle"]
      BY <1>2, <2>2 DEF PushCheck, AbstractStage, StageOf
    <3>2. ret' = [ret EXCEPT ![t] = FALSE]
      BY <1>2, <2>2 DEF PushCheck
    <3> QED BY <1>2, <2>1, <3>1, <3>2 DEF PushCheck, Fifo!PushReturn
  <2>3. CASE ~Goto(t, "idle")
    <3>1. AbstractStage' = AbstractStage
      BY <1>2, <2>3 DEF PushCheck, AbstractStage, StageOf
    <3> QED BY <1>2, <2>1, <2>3, <3>1 DEF PushCheck, Fifo!vars
  <2> QED BY <2>2, <2>3
<1>3. ASSUME PushCasSucceed(t) PROVE Fifo!PushEffect(t)
  BY <1>3, PushTakesEffect
<1>4. ASSUME PushCasFail(t) PROVE UNCHANGED Fifo!vars
  <2>1. AbstractQueue' = AbstractQueue /\ AbstractOut' = AbstractOut
    BY <1>4 DEF PushCasFail
  <2>2. AbstractStage' = AbstractStage
    BY <1>4 DEF PushCasFail, AbstractStage, StageOf
  <2> QED BY <1>4, <2>1, <2>2 DEF PushCasFail, Fifo!vars
<1>5. ASSUME PushWrite(t) PROVE UNCHANGED Fifo!vars
  BY <1>5, WriteStutters DEF Fifo!vars
<1>6. ASSUME PushPublish(t) PROVE Fifo!PushReturn(t)
  <2>1. AbstractQueue' = AbstractQueue /\ AbstractOut' = AbstractOut
    BY <1>6 DEF PushPublish
  <2>2. AbstractStage[t] = "pushed" /\ AbstractStage' = [AbstractStage EXCEPT ![t] = "idle"]
    BY <1>6 DEF PushPublish, AbstractStage, StageOf
  <2> QED BY <1>6, <2>1, <2>2 DEF PushPublish, Fifo!PushReturn
<1> QED BY <1>1, <1>2, <1>3, <1>4, <1>5, <1>6 DEF PushStep

\* The same inside Pop.
LEMMA PopRefines ==
  ASSUME IInv, NEW t \in Threads, PopStep(t)
  PROVE  Fifo!PopEffect(t) \/ Fifo!PopReturn(t) \/ UNCHANGED Fifo!vars
<1> USE StageGoto, LocalFrame DEF nodeVars, IInv, TypeOK, Goto
<1>1. ASSUME PopLoad(t) PROVE UNCHANGED Fifo!vars
  <2>1. AbstractQueue' = AbstractQueue /\ AbstractOut' = AbstractOut
    BY <1>1 DEF PopLoad
  <2>2. AbstractStage' = AbstractStage
    BY <1>1 DEF PopLoad, AbstractStage, StageOf
  <2> QED BY <1>1, <2>1, <2>2 DEF PopLoad, Fifo!vars
<1>2. ASSUME PopCheck(t) PROVE Fifo!PopReturn(t) \/ UNCHANGED Fifo!vars
  <2>1. AbstractQueue' = AbstractQueue /\ AbstractOut' = AbstractOut
    BY <1>2 DEF PopCheck
  <2>2. CASE Goto(t, "idle")
    <3>1. AbstractStage[t] = "popping" /\ AbstractStage' = [AbstractStage EXCEPT ![t] = "idle"]
      BY <1>2, <2>2 DEF PopCheck, AbstractStage, StageOf
    <3>2. ret' = [ret EXCEPT ![t] = FALSE]
      BY <1>2, <2>2 DEF PopCheck
    <3> QED BY <1>2, <2>1, <3>1, <3>2 DEF PopCheck, Fifo!PopReturn
  <2>3. CASE ~Goto(t, "idle")
    <3>1. AbstractStage' = AbstractStage
      BY <1>2, <2>3 DEF PopCheck, AbstractStage, StageOf
    <3> QED BY <1>2, <2>1, <2>3, <3>1 DEF PopCheck, Fifo!vars
  <2> QED BY <2>2, <2>3
<1>3. ASSUME PopCasSucceed(t) PROVE Fifo!PopEffect(t)
  BY <1>3, PopTakesEffect
<1>4. ASSUME PopCasFail(t) PROVE UNCHANGED Fifo!vars
  <2>1. AbstractQueue' = AbstractQueue /\ AbstractOut' = AbstractOut
    BY <1>4 DEF PopCasFail
  <2>2. AbstractStage' = AbstractStage
    BY <1>4 DEF PopCasFail, AbstractStage, StageOf
  <2> QED BY <1>4, <2>1, <2>2 DEF PopCasFail, Fifo!vars
<1>5. ASSUME PopTake(t) PROVE UNCHANGED Fifo!vars
  BY <1>5, TakeStutters DEF Fifo!vars
<1>6. ASSUME PopRelease(t) PROVE Fifo!PopReturn(t)
  <2>1. AbstractQueue' = AbstractQueue /\ AbstractOut' = AbstractOut
    BY <1>6 DEF PopRelease
  <2>2. AbstractStage[t] = "popped" /\ AbstractStage' = [AbstractStage EXCEPT ![t] = "idle"]
    BY <1>6 DEF PopRelease, AbstractStage, StageOf
  <2> QED BY <1>6, <2>1, <2>2 DEF PopRelease, Fifo!PopReturn
<1> QED BY <1>1, <1>2, <1>3, <1>4, <1>5, <1>6 DEF PopStep

\* Empty and Size are invisible.
LEMMA ObserverRefines ==
  ASSUME IInv, NEW t \in Threads, ObserverStep(t)
  PROVE  UNCHANGED Fifo!vars
<1> USE StageGoto, LocalFrame DEF nodeVars, IInv, TypeOK, Goto
<1>1. ASSUME EmptyLoad(t) PROVE UNCHANGED Fifo!vars
  <2>1. AbstractQueue' = AbstractQueue /\ AbstractOut' = AbstractOut
    BY <1>1 DEF EmptyLoad
  <2>2. AbstractStage' = AbstractStage
    BY <1>1 DEF EmptyLoad, AbstractStage, StageOf
  <2> QED BY <1>1, <2>1, <2>2 DEF EmptyLoad, Fifo!vars
<1>2. ASSUME EmptyCheck(t) PROVE UNCHANGED Fifo!vars
  <2>1. AbstractQueue' = AbstractQueue /\ AbstractOut' = AbstractOut
    BY <1>2 DEF EmptyCheck
  <2>2. AbstractStage' = AbstractStage
    BY <1>2 DEF EmptyCheck, AbstractStage, StageOf
  <2> QED BY <1>2, <2>1, <2>2 DEF EmptyCheck, Fifo!vars
<1>3. ASSUME SizeLoadHead(t) PROVE UNCHANGED Fifo!vars
  <2>1. AbstractQueue' = AbstractQueue /\ AbstractOut' = AbstractOut
    BY <1>3 DEF SizeLoadHead
  <2>2. AbstractStage' = AbstractStage
    BY <1>3 DEF SizeLoadHead, AbstractStage, StageOf
  <2> QED BY <1>3, <2>1, <2>2 DEF SizeLoadHead, Fifo!vars
<1>4. ASSUME SizeLoadTail(t) PROVE UNCHANGED Fifo!vars
  <2>1. AbstractQueue' = AbstractQueue /\ AbstractOut' = AbstractOut
    BY <1>4 DEF SizeLoadTail
  <2>2. AbstractStage' = AbstractStage
    BY <1>4 DEF SizeLoadTail, AbstractStage, StageOf
  <2> QED BY <1>4, <2>1, <2>2 DEF SizeLoadTail, Fifo!vars
<1> QED BY <1>1, <1>2, <1>3, <1>4 DEF ObserverStep

\* The beginnings of calls.
LEMMA CallRefines ==
  ASSUME IInv, NEW t \in Threads
  PROVE  /\ \A v \in Val : PushCall(t, v) => Fifo!PushCall(t)
         /\ PopCall(t) => Fifo!PopCall(t)
         /\ EmptyCall(t) \/ SizeCall(t) => UNCHANGED Fifo!vars
<1> USE StageGoto, LocalFrame DEF nodeVars, IInv, TypeOK, Goto
<1>1. ASSUME NEW v \in Val, PushCall(t, v) PROVE Fifo!PushCall(t)
  <2>1. AbstractQueue' = AbstractQueue /\ AbstractOut' = AbstractOut
    BY <1>1 DEF PushCall
  <2>2. AbstractStage[t] = "idle" /\ AbstractStage' = [AbstractStage EXCEPT ![t] = "pushing"]
    BY <1>1 DEF PushCall, AbstractStage, StageOf
  <2> QED BY <1>1, <2>1, <2>2 DEF PushCall, Fifo!PushCall
<1>2. ASSUME PopCall(t) PROVE Fifo!PopCall(t)
  <2>1. AbstractQueue' = AbstractQueue /\ AbstractOut' = AbstractOut
    BY <1>2 DEF PopCall
  <2>2. AbstractStage[t] = "idle" /\ AbstractStage' = [AbstractStage EXCEPT ![t] = "popping"]
    BY <1>2 DEF PopCall, AbstractStage, StageOf
  <2> QED BY <1>2, <2>1, <2>2 DEF PopCall, Fifo!PopCall
<1>3. ASSUME EmptyCall(t) PROVE UNCHANGED Fifo!vars
  <2>1. AbstractQueue' = AbstractQueue /\ AbstractOut' = AbstractOut
    BY <1>3 DEF EmptyCall
  <2>2. AbstractStage' = AbstractStage
    BY <1>3 DEF EmptyCall, AbstractStage, StageOf
  <2> QED BY <1>3, <2>1, <2>2 DEF EmptyCall, Fifo!vars
<1>4. ASSUME SizeCall(t) PROVE UNCHANGED Fifo!vars
  <2>1. AbstractQueue' = AbstractQueue /\ AbstractOut' = AbstractOut
    BY <1>4 DEF SizeCall
  <2>2. AbstractStage' = AbstractStage
    BY <1>4 DEF SizeCall, AbstractStage, StageOf
  <2> QED BY <1>4, <2>1, <2>2 DEF SizeCall, Fifo!vars
<1> QED BY <1>1, <1>2, <1>3, <1>4

\* Every step of the code is a step of the abstract queue, or invisible to it.
LEMMA RefinementStep ==
  ASSUME IInv, [Next]_vars
  PROVE  [Fifo!Next]_(Fifo!vars)
<1>1. CASE UNCHANGED vars
  <2>1. AbstractQueue' = AbstractQueue /\ AbstractOut' = AbstractOut
    BY <1>1, LocalFrame DEF vars, nodeVars
  <2> QED BY <1>1, <2>1 DEF vars, AbstractStage, Fifo!vars
<1>2. ASSUME NEW t \in Threads, Call(t) PROVE Fifo!Next \/ UNCHANGED Fifo!vars
  BY <1>2, CallRefines DEF Call, Fifo!Next
<1>3. ASSUME NEW t \in Threads, Step(t) PROVE Fifo!Next \/ UNCHANGED Fifo!vars
  BY <1>3, PushRefines, PopRefines, ObserverRefines DEF Step, Fifo!Next
<1> QED BY <1>1, <1>2, <1>3 DEF Next

(* The queue implements the bounded FIFO (every value comes out once, in    *)
(* the order it went in, and at most Capacity are held) for any number of   *)
(* threads and any capacity.                                                *)
THEOREM Refinement == Spec => FifoSpec
BY Inductive, RefinementInit, RefinementStep, PTL DEF Spec, FifoSpec, Fifo!Spec
=============================================================================
