-------------------------- MODULE RpcServer_proofs --------------------------
(***************************************************************************)
(* Proofs about RpcServer for every number of clients, workers,            *)
(* descriptors and calls.                                                  *)
(***************************************************************************)
EXTENDS RpcServer, FiniteSetTheorems, SequenceTheorems, NaturalLemmas

(***************************************************************************)
(* Sequences.                                                              *)
(***************************************************************************)
Elems(s) == {s[i] : i \in 1 .. Len(s)}
NoDup(s) == \A i, j \in 1 .. Len(s) : s[i] = s[j] => i = j

LEMMA TailIs ==
  ASSUME NEW S, NEW s \in Seq(S), s # << >>
  PROVE  /\ Head(s) \in S /\ Tail(s) \in Seq(S) /\ Elems(s) = {Head(s)} \cup Elems(Tail(s))
         /\ NoDup(s) => NoDup(Tail(s)) /\ Head(s) \notin Elems(Tail(s))
<1>1. /\ Len(s) \in Nat \ {0} /\ Tail(s) \in Seq(S) /\ Len(Tail(s)) = Len(s) - 1
      /\ \A i \in 1 .. Len(s) - 1 : Tail(s)[i] = s[i + 1]
      /\ Head(s) = s[1] /\ Head(s) \in S
  OBVIOUS
<1> DEFINE t == Tail(s)
<1> HIDE DEF t
<1>2. ASSUME NEW i \in 1 .. Len(s) PROVE s[i] \in {Head(s)} \cup Elems(t)
  <2>1. CASE i = 1
    BY <1>1, <2>1
  <2>2. CASE i # 1
    <3>1. i - 1 \in 1 .. Len(t) /\ t[i - 1] = s[i]
      BY <1>1, <2>2 DEF t
    <3> QED BY <3>1 DEF Elems
  <2> QED BY <2>1, <2>2
<1>3. ASSUME NEW i \in 1 .. Len(t) PROVE t[i] \in Elems(s)
  <2>1. i + 1 \in 1 .. Len(s) /\ t[i] = s[i + 1]
    BY <1>1 DEF t
  <2> QED BY <2>1 DEF Elems
<1>4. Head(s) \in Elems(s)
  BY <1>1 DEF Elems
<1>5. Elems(s) = {Head(s)} \cup Elems(t)
  BY <1>2, <1>3, <1>4 DEF Elems
<1>6. ASSUME NoDup(s) PROVE NoDup(t) /\ Head(s) \notin Elems(t)
  <2>1. \A i, j \in 1 .. Len(t) : t[i] = t[j] => i = j
    <3>1. SUFFICES ASSUME NEW i \in 1 .. Len(t), NEW j \in 1 .. Len(t), t[i] = t[j] PROVE i = j
      OBVIOUS
    <3>2. i + 1 \in 1 .. Len(s) /\ j + 1 \in 1 .. Len(s) /\ s[i + 1] = s[j + 1]
      BY <1>1, <3>1 DEF t
    <3>3. i + 1 = j + 1
      BY <1>6, <3>2 DEF NoDup
    <3> QED BY <3>3
  <2>2. ASSUME NEW i \in 1 .. Len(t), t[i] = s[1] PROVE FALSE
    <3>1. i + 1 \in 1 .. Len(s) /\ 1 \in 1 .. Len(s) /\ s[i + 1] = s[1]
      BY <1>1, <2>2 DEF t
    <3>2. i + 1 = 1
      BY <1>6, <3>1 DEF NoDup
    <3> QED BY <3>2
  <2> QED BY <1>1, <2>1, <2>2 DEF NoDup, Elems
<1> QED BY <1>1, <1>5, <1>6 DEF t

LEMMA AppendIs ==
  ASSUME NEW S, NEW s \in Seq(S), NEW x \in S
  PROVE  /\ Append(s, x) \in Seq(S) /\ Elems(Append(s, x)) = Elems(s) \cup {x}
         /\ NoDup(s) /\ x \notin Elems(s) => NoDup(Append(s, x))
<1> DEFINE t == Append(s, x)
<1>1. /\ Len(s) \in Nat /\ t \in Seq(S) /\ Len(t) = Len(s) + 1
      /\ t[Len(s) + 1] = x /\ \A i \in 1 .. Len(s) : t[i] = s[i]
  OBVIOUS
<1> HIDE DEF t
<1>2. \A i \in 1 .. Len(t) : i \in 1 .. Len(s) \/ i = Len(s) + 1
  BY <1>1
<1>3. Elems(t) = Elems(s) \cup {x}
  <2>1. ASSUME NEW i \in 1 .. Len(t) PROVE t[i] \in Elems(s) \cup {x}
    BY <1>1, <1>2 DEF Elems
  <2>2. ASSUME NEW i \in 1 .. Len(s) PROVE s[i] \in Elems(t)
    <3>1. i \in 1 .. Len(t) /\ t[i] = s[i]
      BY <1>1
    <3> QED BY <3>1 DEF Elems
  <2>3. x \in Elems(t)
    <3>1. Len(s) + 1 \in 1 .. Len(t) /\ t[Len(s) + 1] = x
      BY <1>1
    <3> QED BY <3>1 DEF Elems
  <2> QED BY <2>1, <2>2, <2>3 DEF Elems
<1>4. ASSUME NoDup(s), x \notin Elems(s) PROVE NoDup(t)
  BY <1>1, <1>2, <1>4 DEF NoDup, Elems
<1> QED BY <1>1, <1>3, <1>4 DEF t

LEMMA EmptyIs == Elems(<< >>) = {} /\ NoDup(<< >>)
BY DEF Elems, NoDup

LEMMA SetToSeqsIs ==
  ASSUME NEW S, IsFiniteSet(S), NEW q \in SetToSeqs(S)
  PROVE  q \in Seq(S) /\ Elems(q) \subseteq S /\ NoDup(q)
<1>1. Cardinality(S) \in Nat
  BY FS_CardinalityType
<1>2. q \in [1 .. Cardinality(S) -> S]
      /\ \A i, j \in 1 .. Cardinality(S) : i # j => q[i] # q[j]
  BY DEF SetToSeqs
<1>3. q \in Seq(S) /\ Len(q) = Cardinality(S)
  BY <1>1, <1>2
<1> QED BY <1>2, <1>3 DEF Elems, NoDup

(***************************************************************************)
(* The stream of a client.                                                 *)
(***************************************************************************)
\* The units of the first n calls.
Stream(n) == n * MsgSize

LEMMA StreamIs ==
  /\ MsgSize \in Nat /\ MsgSize >= 3 /\ Stream(0) = 0
  /\ \A n \in Nat : Stream(n) \in Nat
  /\ \A m, n \in Nat : m <= n => Stream(m) <= Stream(n)
<1>1. MsgSize \in Nat /\ MsgSize >= 3
  BY SizeAssumption DEF MsgSize
<1>2. ASSUME NEW M \in Nat
      PROVE  /\ 0 * M = 0 /\ \A n \in Nat : n * M \in Nat
             /\ \A m, n \in Nat : m <= n => m * M <= n * M
  <2>1. ASSUME NEW m \in Nat, NEW n \in Nat, m <= n PROVE m * M <= n * M
    <3>1. PICK d \in Nat : n = m + d
      BY <2>1
    <3>2. (m + d) * M = m * M + d * M /\ d * M \in Nat /\ m * M \in Nat
      OBVIOUS
    <3> QED BY <3>1, <3>2
  <2> QED BY <2>1
<1> QED BY <1>1, <1>2 DEF Stream

LEMMA StreamNext == ASSUME NEW n \in Nat PROVE Stream(n + 1) = Stream(n) + MsgSize
<1>1. ASSUME NEW M \in Nat PROVE (n + 1) * M = n * M + M
  OBVIOUS
<1> QED BY <1>1, StreamIs DEF Stream

\* A unit of the first n calls belongs to one of them.
LEMMA CallOfIs ==
  ASSUME NEW n \in Nat, NEW u, u.at \in 1 .. Stream(n)
  PROVE  CallOf(u) \in 1 .. n
<1> DEFINE q == (u.at - 1) \div MsgSize
<1>1. MsgSize \in Nat \ {0} /\ Stream(n) \in Nat
  BY StreamIs
<1>2. u.at - 1 \in Nat /\ q \in Nat /\ MsgSize * q <= u.at - 1
  BY <1>1
<1>3. CallOf(u) = q + 1
  BY DEF CallOf
<1> HIDE DEF q
<1>4. MsgSize * q = Stream(q)
  BY <1>1, <1>2 DEF Stream
<1>5. CASE q >= n
  <2>1. Stream(n) <= Stream(q)
    BY <1>2, <1>5, StreamIs
  <2> QED BY <1>1, <1>2, <1>4, <2>1
<1> QED BY <1>2, <1>3, <1>5

(***************************************************************************)
(* Type correctness.                                                       *)
(***************************************************************************)
ClientTypes ==
  /\ sent \in [Clients -> 0 .. MaxCalls]
  /\ arrived \in [Clients -> Nat] /\ taken \in [Clients -> Nat]
  /\ dropped \in [Clients -> SUBSET (1 .. MaxCalls)]
  /\ hangup \in [Clients -> BOOLEAN]
  /\ conn \in [Clients -> {"none", "pending", "open", "closed"}]
  /\ fdOf \in [Clients -> Fds \cup {Nobody}]
  /\ \A c \in Clients :
       /\ taken[c] <= arrived[c] /\ arrived[c] <= Stream(sent[c])
       /\ dropped[c] \subseteq 1 .. sent[c]
       /\ conn[c] = "open" <=> fdOf[c] \in Fds

ServedTypes ==
  /\ ran \in [Clients -> Seq(0 .. MaxCalls)]
  /\ answers \in [Clients -> Seq(Clients \X (0 .. MaxCalls))]
  /\ buffer \in [Clients -> Seq(Units)]
  /\ \A c \in Clients : Len(buffer[c]) <= Capacity

EpollTypes ==
  /\ interest \subseteq Fds /\ ready \subseteq interest
  /\ events \in Seq(Fds \cup {Listening}) /\ tasks \in Seq(Fds)
  /\ pool \in [Fds -> Clients \cup {"null", "absent"}]

\* A worker between looking up a buffer and leaving it has one in its hands.
WorkerTypes ==
  /\ pc \in [Workers -> Labels] /\ last \in [Workers -> BOOLEAN]
  /\ call \in [Workers -> (Clients \X (0 .. MaxCalls)) \cup {Nobody}]
  /\ fd \in [Workers -> Fds \cup {Nobody}]
  /\ buf \in [Workers -> Clients \cup {Nobody}] /\ sock \in [Workers -> Clients \cup {Nobody}]
  /\ \A w \in Workers :
       /\ fd[w] \in Fds <=> pc[w] # "idle"
       /\ call[w] # Nobody <=> pc[w] = "write"
       /\ pc[w] \in {"lock", "read", "serve", "cut", "write"} => buf[w] \in Clients

MutexTypes ==
  /\ mutex \in [Clients -> Workers \cup {Nobody}]
  /\ \A c \in Clients : mutex[c] # Nobody =>
       pc[mutex[c]] \in {"read", "cut", "write"} /\ buf[mutex[c]] = c

TypeInv == ClientTypes /\ ServedTypes /\ EpollTypes /\ WorkerTypes /\ MutexTypes

LEMMA SocketAtIs ==
  ASSUME TypeInv, NEW f \in Fds
  PROVE  /\ SocketAt(f) \in Clients \cup {Nobody}
         /\ SocketAt(f) # Nobody => SocketAt(f) \in Clients /\ fdOf[SocketAt(f)] = f
         /\ SocketAt(f) = Nobody => \A c \in Clients : fdOf[c] # f
BY NobodyAssumption DEF SocketAt

\* Of what is bounded by n and m there is the lesser.
Least(m, n) == IF m <= n THEN m ELSE n

LEMMA MinIs ==
  ASSUME NEW m \in Nat, NEW n \in Nat
  PROVE  Min({m, n}) = Least(m, n) /\ Least(m, n) \in 0 .. n /\ Least(m, n) <= m
BY DEF Min, Least

\* What a worker takes out of a socket.
LEMMA IncomingIs ==
  ASSUME TypeInv, NEW w \in Workers, sock[w] \in Clients
  PROVE  /\ Incoming(w) \in Seq(Units)
         /\ Len(Incoming(w)) = Least(arrived[sock[w]] - taken[sock[w]], Capacity)
         /\ Len(Incoming(w)) \in Nat /\ taken[sock[w]] + Len(Incoming(w)) <= arrived[sock[w]]
         /\ \A i \in 1 .. Len(Incoming(w)) :
              /\ Incoming(w)[i] = Unit(sock[w], taken[sock[w]] + i)
              /\ CallOf(Incoming(w)[i]) \in 1 .. sent[sock[w]]
<1> DEFINE c == sock[w]
           n == Least(arrived[c] - taken[c], Capacity)
           q == [i \in 1 .. n |-> Unit(c, taken[c] + i)]
<1>1. /\ arrived[c] \in Nat /\ taken[c] \in Nat /\ taken[c] <= arrived[c]
      /\ arrived[c] <= Stream(sent[c]) /\ sent[c] \in 0 .. MaxCalls
  BY DEF TypeInv, ClientTypes
<1>2. MaxCalls \in Nat /\ sent[c] \in Nat /\ Stream(sent[c]) <= Stream(MaxCalls)
      /\ Stream(MaxCalls) \in Nat /\ Stream(sent[c]) \in Nat
  BY <1>1, SizeAssumption, StreamIs
<1>3. Incoming(w) = q /\ n \in Nat /\ taken[c] + n <= arrived[c]
  <2>1. arrived[c] - taken[c] \in Nat /\ Capacity \in Nat
    BY <1>1, SizeAssumption
  <2>2. /\ Min({arrived[c] - taken[c], Capacity}) = n
        /\ n \in 0 .. Capacity /\ n <= arrived[c] - taken[c]
    BY <2>1, MinIs
  <2> HIDE DEF n
  <2> QED BY <1>1, <2>1, <2>2 DEF Incoming
<1> HIDE DEF n
<1>4. ASSUME NEW i \in 1 .. n
      PROVE  Unit(c, taken[c] + i) \in Units /\ CallOf(Unit(c, taken[c] + i)) \in 1 .. sent[c]
  <2>1. taken[c] + i \in 1 .. arrived[c]
    BY <1>1, <1>3
  <2>2. taken[c] + i \in 1 .. Stream(sent[c]) /\ taken[c] + i \in 1 .. Stream(MaxCalls)
    BY <1>1, <1>2, <2>1
  <2>3. Unit(c, taken[c] + i).at = taken[c] + i
    BY DEF Unit
  <2>4. Unit(c, taken[c] + i) \in Units
    BY <2>2 DEF Unit, Units, Stream
  <2>5. CallOf(Unit(c, taken[c] + i)) \in 1 .. sent[c]
    BY <1>2, <2>2, <2>3, CallOfIs
  <2> QED BY <2>4, <2>5
<1>5. q \in Seq(Units) /\ Len(q) = n
  BY <1>3, <1>4
<1>6. \A i \in 1 .. n : q[i] = Unit(c, taken[c] + i)
  OBVIOUS
<1> HIDE DEF q
<1> QED BY <1>3, <1>4, <1>5, <1>6 DEF n

\* What is read from the front of a buffer, and what stays.
LEMMA TakeDropIs ==
  ASSUME NEW S, NEW s \in Seq(S), NEW n \in Nat
  PROVE  /\ Least(n, Len(s)) \in 0 .. Len(s)
         /\ Take(s, n) \in Seq(S) /\ Len(Take(s, n)) = Least(n, Len(s))
         /\ \A i \in 1 .. Least(n, Len(s)) : Take(s, n)[i] = s[i]
         /\ Drop(s, n) \in Seq(S) /\ Len(Drop(s, n)) = Len(s) - Least(n, Len(s))
         /\ \A i \in 1 .. Len(s) - Least(n, Len(s)) : Drop(s, n)[i] = s[Least(n, Len(s)) + i]
<1> DEFINE m == Least(n, Len(s))
<1>1. Len(s) \in Nat /\ m \in 0 .. Len(s)
  BY DEF Least
<1>2. Min({n, Len(s)}) = m
  BY <1>1 DEF Min, Least
<1> HIDE DEF m
<1>3. Take(s, n) = SubSeq(s, 1, m) /\ Drop(s, n) = SubSeq(s, m + 1, Len(s))
  BY <1>2 DEF Take, Drop
<1>4. /\ SubSeq(s, 1, m) \in Seq(S) /\ Len(SubSeq(s, 1, m)) = m
      /\ \A i \in 1 .. m : SubSeq(s, 1, m)[i] = s[i]
  BY <1>1
<1>5. /\ SubSeq(s, m + 1, Len(s)) \in Seq(S) /\ Len(SubSeq(s, m + 1, Len(s))) = Len(s) - m
      /\ \A i \in 1 .. Len(s) - m : SubSeq(s, m + 1, Len(s))[i] = s[m + i]
  BY <1>1
<1> QED BY <1>1, <1>3, <1>4, <1>5 DEF m

\* The header and the call a worker finds.
LEMMA CallInIs ==
  ASSUME TypeInv, NEW w \in Workers, buf[w] \in Clients, buffer[buf[w]] # << >>,
         NEW size \in Announced(w)
  PROVE  /\ Header(w)[1] \in Units /\ CallIn(w, size) \in 0 .. MaxCalls /\ size \in Nat
         /\ Rest(w) \in Seq(Units) /\ Len(Rest(w)) <= Len(buffer[buf[w]])
         /\ Drop(Rest(w), size) \in Seq(Units) /\ Len(Drop(Rest(w), size)) <= Len(buffer[buf[w]])
<1> DEFINE b == buffer[buf[w]]
<1>1. b \in Seq(Units) /\ Len(b) \in Nat \ {0}
  BY DEF TypeInv, ServedTypes
<1>2. /\ Header(w) \in Seq(Units) /\ Len(Header(w)) >= 1 /\ Header(w)[1] = b[1]
      /\ Rest(w) \in Seq(Units) /\ Len(Rest(w)) \in Nat /\ Len(Rest(w)) <= Len(b)
  <2> HIDE DEF b
  <2>1. /\ Take(b, 2) \in Seq(Units) /\ Len(Take(b, 2)) = Least(2, Len(b))
        /\ \A i \in 1 .. Least(2, Len(b)) : Take(b, 2)[i] = b[i]
        /\ Drop(b, 2) \in Seq(Units) /\ Len(Drop(b, 2)) = Len(b) - Least(2, Len(b))
    <3>1. \A n \in Nat :
            /\ Take(b, n) \in Seq(Units) /\ Len(Take(b, n)) = Least(n, Len(b))
            /\ \A i \in 1 .. Least(n, Len(b)) : Take(b, n)[i] = b[i]
            /\ Drop(b, n) \in Seq(Units) /\ Len(Drop(b, n)) = Len(b) - Least(n, Len(b))
      BY <1>1, TakeDropIs
    <3>2. 2 \in Nat
      OBVIOUS
    <3> QED BY <3>1, <3>2
  <2>2. Least(2, Len(b)) \in {1, 2} /\ Least(2, Len(b)) <= Len(b)
    <3>1. ASSUME NEW l \in Nat \ {0} PROVE Least(2, l) \in {1, 2} /\ Least(2, l) <= l
      BY DEF Least
    <3>2. Len(b) \in Nat \ {0}
      BY <1>1
    <3> QED BY <3>1, <3>2
  <2>3. Header(w) = Take(b, 2) /\ Rest(w) = Drop(b, 2)
    BY DEF Header, Rest, b
  <2> QED BY <1>1, <2>1, <2>2, <2>3
<1>3. size \in Nat
  BY SizeAssumption DEF Announced
<1>4. Header(w)[1] \in Units
  BY <1>1, <1>2
<1>5. CallOf(Header(w)[1]) \in 1 .. MaxCalls
  <2>1. Header(w)[1].at \in 1 .. Stream(MaxCalls)
    BY <1>4 DEF Units, Stream
  <2> QED BY <2>1, CallOfIs, SizeAssumption
<1>6. CallIn(w, size) \in 0 .. MaxCalls
  BY <1>5, SizeAssumption DEF CallIn, Fragment
<1>7. Drop(Rest(w), size) \in Seq(Units) /\ Len(Drop(Rest(w), size)) <= Len(b)
  <2> DEFINE r == Rest(w)
  <2> HIDE DEF r
  <2>1. r \in Seq(Units)
    BY <1>2 DEF r
  <2>2. /\ Drop(r, size) \in Seq(Units) /\ Len(Drop(r, size)) = Len(r) - Least(size, Len(r))
        /\ Least(size, Len(r)) \in 0 .. Len(r)
    BY <1>3, <2>1, TakeDropIs
  <2> QED BY <1>1, <1>2, <2>2 DEF r
<1> QED BY <1>2, <1>3, <1>4, <1>6, <1>7

LEMMA TypeInit == Init => TypeInv
<1> SUFFICES ASSUME Init PROVE TypeInv
  OBVIOUS
<1>1. ClientTypes
  BY SizeAssumption, NobodyAssumption, StreamIs DEF Init, ClientTypes
<1>2. ServedTypes
  BY SizeAssumption DEF Init, ServedTypes
<1>3. EpollTypes
  BY DEF Init, EpollTypes
<1>4. WorkerTypes
  BY NobodyAssumption DEF Init, WorkerTypes, Labels
<1>5. MutexTypes
  BY DEF Init, MutexTypes
<1> QED BY <1>1, <1>2, <1>3, <1>4, <1>5 DEF TypeInv

\* The number accept() gives is free.
LEMMA FreeFdIs == ASSUME FreeFds # {} PROVE Min(FreeFds) \in FreeFds
<1>1. FreeFds \in SUBSET Nat
  BY SizeAssumption DEF FreeFds
<1>2. \E m \in FreeFds : \A n \in FreeFds : m <= n
  BY <1>1, LeastNatural
<1> QED BY <1>2 DEF Min

LEMMA ClientTypesStep == TypeInv /\ [Next]_vars => ClientTypes'
<1> SUFFICES ASSUME TypeInv, [Next]_vars PROVE ClientTypes'
  OBVIOUS
<1> USE DEF ClientTypes
<1>0. ClientTypes
  BY DEF TypeInv
<1>1. CASE UNCHANGED <<sent, arrived, taken, dropped, hangup, conn, fdOf>>
  BY <1>0, <1>1
<1>2. ASSUME NEW c \in Clients, ClientConnect(c) PROVE ClientTypes'
  BY <1>0, <1>2 DEF ClientConnect, clientVars, readVars, epollVars
<1>3. ASSUME NEW c \in Clients, ClientSend(c) PROVE ClientTypes'
  <2>0. sent[c] \in Nat /\ sent[c] + 1 \in 0 .. MaxCalls /\ sent[c] <= sent[c] + 1
    BY <1>0, <1>3, SizeAssumption DEF ClientSend
  <2>1. Stream(sent[c]) <= Stream(sent[c] + 1) /\ Stream(sent[c]) \in Nat /\ Stream(sent[c] + 1) \in Nat
    BY <2>0, StreamIs
  <2> QED BY <1>0, <1>3, <2>0, <2>1 DEF ClientSend, readVars, epollVars
<1>4. ASSUME NEW c \in Clients, Arrive(c) PROVE ClientTypes'
  <2>1. sent[c] \in Nat /\ Stream(sent[c]) \in Nat
    BY <1>0, StreamIs
  <2>2. PICK n \in arrived[c] + 1 .. Stream(sent[c]) : arrived' = [arrived EXCEPT ![c] = n]
    BY <1>4 DEF Arrive, Stream
  <2> QED BY <1>0, <1>4, <2>1, <2>2 DEF Arrive, clientVars, readVars
<1>5. ASSUME NEW c \in Clients, ClientHangUp(c) PROVE ClientTypes'
  BY <1>0, <1>5 DEF ClientHangUp, readVars
<1>6. CASE MainAccept
  <2>1. PICK c \in Pending : LET f == Min(FreeFds)
                            IN  conn' = [conn EXCEPT ![c] = "open"] /\ fdOf' = [fdOf EXCEPT ![c] = f]
    BY <1>6 DEF MainAccept
  <2>2. Min(FreeFds) \in Fds
    BY <1>6, FreeFdIs DEF MainAccept, FreeFds
  <2> QED BY <1>0, <1>6, <2>1, <2>2 DEF MainAccept, clientVars, readVars, Pending
<1>7. ASSUME NEW w \in Workers, ReadStore(w) \/ ReadNoRoom(w) PROVE ClientTypes'
  <2>1. sock[w] \in Clients
    BY <1>7 DEF TypeInv, WorkerTypes, ReadStore, ReadNoRoom
  <2>0. /\ taken[sock[w]] + Len(Incoming(w)) \in Nat
        /\ taken[sock[w]] + Len(Incoming(w)) <= arrived[sock[w]]
    BY <1>0, <2>1, IncomingIs
  <2>2. CASE ReadStore(w)
    BY <1>0, <2>0, <2>1, <2>2 DEF ReadStore, Consume, clientVars, epollVars
  <2>3. CASE ReadNoRoom(w)
    <3>1. {CallOf(Incoming(w)[i]) : i \in DOMAIN Incoming(w)} \subseteq 1 .. sent[sock[w]]
      <4>1. DOMAIN Incoming(w) = 1 .. Len(Incoming(w))
        BY <2>1, IncomingIs
      <4> QED BY <2>1, <4>1, IncomingIs
    <3> DEFINE D == {CallOf(Incoming(w)[i]) : i \in DOMAIN Incoming(w)}
    <3>2. sent[sock[w]] \in 0 .. MaxCalls
      BY <1>0, <2>1
    <3>3. /\ dropped' = [dropped EXCEPT ![sock[w]] = @ \cup D]
          /\ taken' = [taken EXCEPT ![sock[w]] = @ + Len(Incoming(w))]
          /\ UNCHANGED <<sent, arrived, hangup, conn, fdOf>>
      BY <2>3 DEF ReadNoRoom, Consume, clientVars, epollVars
    <3> HIDE DEF D
    <3>4. D \subseteq 1 .. sent[sock[w]] /\ D \subseteq 1 .. MaxCalls
      BY <3>1, <3>2, SizeAssumption DEF D
    <3>5. dropped' \in [Clients -> SUBSET (1 .. MaxCalls)]
      BY <1>0, <2>1, <3>3, <3>4
    <3>6. \A c \in Clients : dropped'[c] \subseteq 1 .. sent[c]
      BY <1>0, <2>1, <3>3, <3>4
    <3>7. taken' \in [Clients -> Nat] /\ \A c \in Clients : taken'[c] <= arrived[c]
      BY <1>0, <2>0, <2>1, <3>3
    <3> QED BY <1>0, <3>3, <3>5, <3>6, <3>7
  <2> QED BY <1>7, <2>2, <2>3
<1>8. ASSUME NEW w \in Workers, Close(w) PROVE ClientTypes'
  BY <1>0, <1>8, NobodyAssumption DEF Close, clientVars, readVars
<1>9. ASSUME NEW w \in Workers, Worker(w) PROVE ClientTypes'
  BY <1>1, <1>7, <1>8, <1>9 DEF Worker, Serve, Disconnect, TaskStart, Lookup, ReadLock, ReadNothing,
     ServeLock, ServeDone, ServePostpone, ServeRun, ServeThrow, ServeWrite, DropWatch, DropLookup, Erase,
     clientVars, readVars, epollVars
<1>10. CASE Main
  BY <1>1, <1>6, <1>10 DEF Main, EpollWait, MainAcceptFails, MainDispatch, clientVars, readVars, epollVars
<1>11. CASE UNCHANGED vars
  BY <1>1, <1>11 DEF vars
<1> QED BY <1>2, <1>3, <1>4, <1>5, <1>9, <1>10, <1>11 DEF Next, Client

LEMMA EpollTypesStep == TypeInv /\ [Next]_vars => EpollTypes'
<1> SUFFICES ASSUME TypeInv, [Next]_vars PROVE EpollTypes'
  OBVIOUS
<1> USE DEF EpollTypes
<1>0. EpollTypes /\ WorkerTypes
  BY DEF TypeInv
<1>1. CASE UNCHANGED <<interest, ready, events, tasks, pool>>
  BY <1>0, <1>1
<1>2. ASSUME NEW c \in Clients, Client(c) \/ Arrive(c) PROVE EpollTypes'
  BY <1>0, <1>2 DEF Client, ClientConnect, ClientSend, ClientHangUp, Arrive, Edge, epollVars
<1>3. CASE EpollWait
  <2>1. PICK R \in SUBSET (Fds \cup {Listening}) : events' \in SetToSeqs(R) /\ R # {}
    BY <1>0, <1>3 DEF EpollWait
  <2>2. IsFiniteSet(R)
    <3>1. IsFiniteSet(Fds \cup {Listening})
      BY SizeAssumption, FS_AddElement
    <3> QED BY <3>1, FS_Subset
  <2>3. events' \in Seq(Fds \cup {Listening})
    <3>1. events' \in Seq(R)
      BY <2>1, <2>2, SetToSeqsIs
    <3> QED BY <3>1
  <2> QED BY <1>0, <1>3, <2>3 DEF EpollWait
<1>4. CASE MainAccept
  <2>1. events # << >> /\ events' = Tail(events) /\ tasks' = tasks
    BY <1>4 DEF MainAccept
  <2>2. Tail(events) \in Seq(Fds \cup {Listening})
    BY <1>0, <2>1
  <2>3. Min(FreeFds) \in Fds
    BY <1>4, FreeFdIs DEF MainAccept, FreeFds
  <2>4. PICK c \in Clients : LET f == Min(FreeFds)
                            IN  /\ interest' = interest \cup {f}
                                /\ ready' = IF Readable(c) THEN ready \cup {f} ELSE ready
                                /\ pool' = IF pool[f] = "absent" THEN [pool EXCEPT ![f] = c] ELSE pool
    BY <1>4 DEF MainAccept, Pending
  <2> QED BY <1>0, <2>1, <2>2, <2>3, <2>4
<1>5. CASE MainAcceptFails
  BY <1>0, <1>5 DEF MainAcceptFails, epollVars
<1>6. CASE MainDispatch
  <2>1. Head(events) \in Fds /\ Tail(events) \in Seq(Fds \cup {Listening})
    BY <1>0, <1>6 DEF MainDispatch
  <2> QED BY <1>0, <1>6, <2>1 DEF MainDispatch, epollVars
<1>7. ASSUME NEW w \in Workers, Worker(w) PROVE EpollTypes'
  <2>1. CASE TaskStart(w)
    BY <1>0, <2>1 DEF TaskStart, epollVars
  <2>2. CASE Lookup(w) \/ DropLookup(w) \/ Erase(w)
    BY <1>0, <2>2 DEF Lookup, DropLookup, Erase, At, epollVars
  <2>3. CASE DropWatch(w) \/ Close(w)
    BY <1>0, <2>3 DEF DropWatch, Close
  <2> QED BY <1>1, <1>7, <2>1, <2>2, <2>3 DEF Worker, Serve, Disconnect, ReadLock, ReadStore, ReadNothing,
       ReadNoRoom, ServeLock, ServeDone, ServePostpone, ServeRun, ServeThrow, ServeWrite, epollVars
<1>8. CASE UNCHANGED vars
  BY <1>1, <1>8 DEF vars
<1> QED BY <1>2, <1>3, <1>4, <1>5, <1>6, <1>7, <1>8 DEF Next, Main

LEMMA ServedTypesStep == TypeInv /\ [Next]_vars => ServedTypes'
<1> SUFFICES ASSUME TypeInv, [Next]_vars PROVE ServedTypes'
  OBVIOUS
<1> USE DEF ServedTypes
<1>0. ServedTypes /\ WorkerTypes
  BY DEF TypeInv
<1>1. CASE UNCHANGED <<ran, answers, buffer>>
  BY <1>0, <1>1
<1>2. ASSUME NEW w \in Workers, ReadStore(w) PROVE ServedTypes'
  <2>1. buf[w] \in Clients /\ sock[w] \in Clients
    BY <1>0, <1>2 DEF ReadStore, At, WorkerTypes
  <2> DEFINE q == Incoming(w)
             b == buffer[buf[w]]
  <2>2. q \in Seq(Units) /\ b \in Seq(Units)
    BY <1>0, <2>1, IncomingIs
  <2>3. /\ buffer' = [buffer EXCEPT ![buf[w]] = b \o q] /\ Len(b) + Len(q) <= Capacity
        /\ UNCHANGED <<ran, answers>>
    BY <1>2 DEF ReadStore, clientVars
  <2> HIDE DEF q, b
  <2>4. b \o q \in Seq(Units) /\ Len(b \o q) <= Capacity
    BY <2>2, <2>3, ConcatProperties
  <2> QED BY <1>0, <2>1, <2>3, <2>4
<1>3. ASSUME NEW w \in Workers, ServeRun(w) \/ ServeThrow(w) PROVE ServedTypes'
  <2>1. buf[w] \in Clients /\ buffer[buf[w]] # << >>
    BY <1>0, <1>3 DEF ServeRun, ServeThrow, At, WorkerTypes
  <2>2. PICK size \in Announced(w) :
          /\ buffer' = [buffer EXCEPT ![buf[w]] = Drop(Rest(w), size)]
          /\ answers' = answers
          /\ \/ ran' = ran
             \/ ran' = [ran EXCEPT ![Header(w)[1].client] = Append(@, CallIn(w, size))]
    BY <1>3 DEF ServeRun, ServeThrow, clientVars
  <2>3. /\ Header(w)[1] \in Units /\ CallIn(w, size) \in 0 .. MaxCalls
        /\ Len(buffer[buf[w]]) \in Nat
        /\ Drop(Rest(w), size) \in Seq(Units) /\ Len(Drop(Rest(w), size)) <= Len(buffer[buf[w]])
    BY <1>0, <2>1, CallInIs
  <2>4. Header(w)[1].client \in Clients
    BY <2>3 DEF Units
  <2>5. buffer' \in [Clients -> Seq(Units)] /\ \A c \in Clients : Len(buffer'[c]) <= Capacity
    <3>1. Len(Drop(Rest(w), size)) \in Nat
      BY <2>3
    <3>2. Len(buffer[buf[w]]) <= Capacity
      BY <1>0, <2>1
    <3>3. Len(Drop(Rest(w), size)) <= Capacity
      BY <2>3, <3>1, <3>2, SizeAssumption
    <3> QED BY <1>0, <2>1, <2>2, <2>3, <3>3
  <2>6. ran' \in [Clients -> Seq(0 .. MaxCalls)]
    <3> DEFINE c == Header(w)[1].client
               k == CallIn(w, size)
    <3>1. c \in Clients /\ k \in 0 .. MaxCalls /\ (ran' = ran \/ ran' = [ran EXCEPT ![c] = Append(@, k)])
      BY <2>2, <2>3, <2>4
    <3> HIDE DEF c, k
    <3>2. Append(ran[c], k) \in Seq(0 .. MaxCalls)
      <4> DEFINE S == 0 .. MaxCalls
      <4>1. ran[c] \in Seq(S) /\ k \in S
        BY <1>0, <3>1
      <4> HIDE DEF S
      <4>2. Append(ran[c], k) \in Seq(S)
        BY <4>1
      <4> QED BY <4>2 DEF S
    <3> QED BY <1>0, <3>1, <3>2
  <2> QED BY <1>0, <2>2, <2>5, <2>6
<1>4. ASSUME NEW w \in Workers, ServeWrite(w) PROVE ServedTypes'
  <2>1. fd[w] \in Fds /\ call[w] \in Clients \X (0 .. MaxCalls)
    BY <1>0, <1>4, NobodyAssumption DEF ServeWrite, At, WorkerTypes
  <2>2. SocketAt(fd[w]) # Nobody => SocketAt(fd[w]) \in Clients
    BY <2>1, SocketAtIs
  <2>3. \/ answers' = answers
        \/ /\ SocketAt(fd[w]) # Nobody
           /\ answers' = [answers EXCEPT ![SocketAt(fd[w])] = Append(@, call[w])]
    BY <1>4 DEF ServeWrite
  <2> QED BY <1>0, <1>4, <2>1, <2>2, <2>3 DEF ServeWrite
<1>5. ASSUME NEW w \in Workers, Worker(w) PROVE ServedTypes'
  BY <1>1, <1>2, <1>3, <1>4, <1>5 DEF Worker, Serve, Disconnect, TaskStart, Lookup, ReadLock, ReadNothing,
     ReadNoRoom, ServeLock, ServeDone, ServePostpone, DropWatch, DropLookup, Erase, Close, clientVars
<1>6. CASE ~ \E w \in Workers : Worker(w)
  BY <1>1, <1>6 DEF Next, Client, ClientConnect, ClientSend, ClientHangUp, Arrive, Main, EpollWait,
     MainAccept, MainAcceptFails, MainDispatch, clientVars, vars
<1> QED BY <1>5, <1>6

LEMMA WorkerTypesStep == TypeInv /\ [Next]_vars => WorkerTypes'
<1> SUFFICES ASSUME TypeInv, [Next]_vars PROVE WorkerTypes'
  OBVIOUS
<1> USE DEF WorkerTypes, Labels
<1>0. WorkerTypes /\ EpollTypes
  BY DEF TypeInv
<1>1. CASE UNCHANGED workerVars
  BY <1>0, <1>1 DEF workerVars
<1> USE NobodyAssumption DEF At, Goto, Finish
<1>2. ASSUME NEW w \in Workers, Finish(w) PROVE WorkerTypes'
  BY <1>0, <1>2
<1>3. ASSUME NEW w \in Workers, TaskStart(w) PROVE WorkerTypes'
  <2>1. Head(tasks) \in Fds
    BY <1>0, <1>3 DEF TaskStart, EpollTypes
  <2> QED BY <1>0, <1>3, <2>1 DEF TaskStart
<1>4. ASSUME NEW w \in Workers, Lookup(w) PROVE WorkerTypes'
  BY <1>0, <1>2, <1>4 DEF Lookup
<1>5. ASSUME NEW w \in Workers, ReadLock(w) PROVE WorkerTypes'
  BY <1>0, <1>5, SocketAtIs DEF ReadLock
<1>6. ASSUME NEW w \in Workers, ReadStore(w) \/ ReadNothing(w) \/ ReadNoRoom(w) PROVE WorkerTypes'
  BY <1>0, <1>2, <1>6 DEF ReadStore, ReadNothing, ReadNoRoom
<1>7. ASSUME NEW w \in Workers, ServeLock(w) PROVE WorkerTypes'
  BY <1>0, <1>7 DEF ServeLock
<1>8. ASSUME NEW w \in Workers, ServeDone(w) \/ ServePostpone(w) \/ ServeThrow(w) PROVE WorkerTypes'
  BY <1>0, <1>2, <1>8 DEF ServeDone, ServePostpone, ServeThrow, Served, Thrown
<1>9. ASSUME NEW w \in Workers, ServeRun(w) PROVE WorkerTypes'
  <2>1. buf[w] \in Clients /\ buffer[buf[w]] # << >>
    BY <1>0, <1>9 DEF ServeRun
  <2>2. PICK size \in Announced(w) : call' = [call EXCEPT ![w] = <<Header(w)[1].client, CallIn(w, size)>>]
    BY <1>9 DEF ServeRun
  <2>3. Header(w)[1].client \in Clients /\ CallIn(w, size) \in 0 .. MaxCalls
    BY <2>1, CallInIs DEF Units
  <2> DEFINE x == <<Header(w)[1].client, CallIn(w, size)>>
  <2>4. x \in Clients \X (0 .. MaxCalls)
    BY <2>3
  <2>5. call' = [call EXCEPT ![w] = x]
    BY <2>2
  <2> HIDE DEF x
  <2>6. x # Nobody
    BY <2>4, SizeAssumption
  <2> QED BY <1>0, <1>9, <2>4, <2>5, <2>6 DEF ServeRun
<1>10. ASSUME NEW w \in Workers, ServeWrite(w) PROVE WorkerTypes'
  BY <1>0, <1>10 DEF ServeWrite
<1>11. ASSUME NEW w \in Workers, DropWatch(w) \/ DropLookup(w) PROVE WorkerTypes'
  <2>1. CASE DropWatch(w)
    BY <1>0, <2>1 DEF DropWatch
  <2>2. CASE DropLookup(w) /\ pool[fd[w]] \in Clients
    <3>1. PICK left \in BOOLEAN :
             /\ last' = [last EXCEPT ![w] = left]
             /\ pc' = [pc EXCEPT ![w] = IF left THEN "serve" ELSE "eraseEmpty"]
             /\ buf' = [buf EXCEPT ![w] = pool[fd[w]]]
             /\ UNCHANGED <<fd, sock, call>>
      BY <2>2 DEF DropLookup
    <3> QED BY <1>0, <2>2, <3>1 DEF DropLookup
  <2>3. CASE DropLookup(w) /\ pool[fd[w]] \notin Clients
    BY <1>0, <2>3 DEF DropLookup
  <2> QED BY <1>11, <2>1, <2>2, <2>3
<1>12. ASSUME NEW w \in Workers, Erase(w) \/ Close(w) PROVE WorkerTypes'
  BY <1>0, <1>2, <1>12 DEF Erase, Close
<1>13. CASE ~ \E w \in Workers : Worker(w)
  BY <1>1, <1>13 DEF Next, Client, ClientConnect, ClientSend, ClientHangUp, Arrive, Main, EpollWait,
     MainAccept, MainAcceptFails, MainDispatch, vars, workerVars
<1> QED BY <1>3, <1>4, <1>5, <1>6, <1>7, <1>8, <1>9, <1>10, <1>11, <1>12, <1>13 DEF Worker, Serve, Disconnect

\* A worker that changes its place holds no mutex afterwards, unless it stands
\* where one is held, with the same buffer.
LEMMA MutexTypesStep == TypeInv /\ [Next]_vars => MutexTypes'
<1> SUFFICES ASSUME TypeInv, [Next]_vars PROVE MutexTypes'
  OBVIOUS
<1> USE DEF MutexTypes
<1>0. MutexTypes /\ WorkerTypes
  BY DEF TypeInv
<1>1. CASE UNCHANGED <<mutex, pc, buf>>
  BY <1>0, <1>1
<1> USE NobodyAssumption DEF At, Goto, Finish, WorkerTypes
<1>2. ASSUME NEW w \in Workers, UNCHANGED mutex, pc[w] \notin {"read", "cut", "write"},
             \E x : pc' = [pc EXCEPT ![w] = x],
             buf' = buf \/ \E b : buf' = [buf EXCEPT ![w] = b]
      PROVE  MutexTypes'
  BY <1>0, <1>2
<1>3. ASSUME NEW w \in Workers, Unlock(buf[w]), buf[w] \in Clients,
             \E x : pc' = [pc EXCEPT ![w] = x],
             buf' = buf \/ \E b : buf' = [buf EXCEPT ![w] = b]
      PROVE  MutexTypes'
  BY <1>0, <1>3 DEF Unlock
<1>4. ASSUME NEW w \in Workers, ReadLock(w) \/ ServeLock(w) PROVE MutexTypes'
  BY <1>0, <1>4 DEF ReadLock, ServeLock, Lock
<1>5. ASSUME NEW w \in Workers, ServeRun(w) \/ ServeWrite(w) PROVE MutexTypes'
  BY <1>0, <1>5 DEF ServeRun, ServeWrite
<1>6. ASSUME NEW w \in Workers, ReadStore(w) \/ ReadNothing(w) \/ ReadNoRoom(w) PROVE MutexTypes'
  BY <1>0, <1>3, <1>6 DEF ReadStore, ReadNothing, ReadNoRoom
<1>7. ASSUME NEW w \in Workers, ServeDone(w) \/ ServePostpone(w) \/ ServeThrow(w) PROVE MutexTypes'
  BY <1>0, <1>3, <1>7 DEF ServeDone, ServePostpone, ServeThrow, Served, Thrown
<1>8. ASSUME NEW w \in Workers, TaskStart(w) \/ Lookup(w) PROVE MutexTypes'
  BY <1>0, <1>2, <1>8 DEF TaskStart, Lookup
<1>9. ASSUME NEW w \in Workers, Disconnect(w) PROVE MutexTypes'
  BY <1>0, <1>2, <1>9 DEF Disconnect, DropWatch, DropLookup, Erase, Close
<1>10. CASE ~ \E w \in Workers : Worker(w)
  BY <1>1, <1>10 DEF Next, Client, ClientConnect, ClientSend, ClientHangUp, Arrive, Main, EpollWait,
     MainAccept, MainAcceptFails, MainDispatch, vars, workerVars
<1> QED BY <1>4, <1>5, <1>6, <1>7, <1>8, <1>9, <1>10 DEF Worker, Serve

LEMMA TypeStep == TypeInv /\ [Next]_vars => TypeInv'
BY ClientTypesStep, ServedTypesStep, EpollTypesStep, WorkerTypesStep, MutexTypesStep DEF TypeInv

LEMMA TypeInvIsTypeOK == TypeInv => TypeOK
<1> SUFFICES ASSUME TypeInv PROVE TypeOK
  OBVIOUS
<1>1. ASSUME NEW c \in Clients
      PROVE  /\ 0 <= taken[c] /\ taken[c] <= arrived[c] /\ arrived[c] <= sent[c] * MsgSize
             /\ sent[c] <= MaxCalls /\ dropped[c] \subseteq 1 .. sent[c]
             /\ conn[c] \in {"none", "pending", "open", "closed"} /\ hangup[c] \in BOOLEAN
             /\ conn[c] = "open" <=> fdOf[c] \in Fds
  BY SizeAssumption DEF TypeInv, ClientTypes, Stream
<1>2. ASSUME NEW c \in Clients
      PROVE  /\ buffer[c] \in Seq(Units) /\ Len(buffer[c]) <= Capacity
             /\ mutex[c] # Nobody => /\ pc[mutex[c]] \in {"read", "cut", "write"}
                                     /\ buf[mutex[c]] = c
             /\ ran[c] \in Seq(0 .. MaxCalls)
             /\ answers[c] \in Seq(Clients \X (0 .. MaxCalls))
  BY DEF TypeInv, ServedTypes, MutexTypes
<1>3. EpollTypes
  BY DEF TypeInv
<1>4. ASSUME NEW w \in Workers
      PROVE  /\ pc[w] \in Labels /\ last[w] \in BOOLEAN
             /\ call[w] \in (Clients \X (0 .. MaxCalls)) \cup {Nobody}
             /\ fd[w] \in Fds <=> pc[w] # "idle"
             /\ {buf[w], sock[w]} \subseteq Clients \cup {Nobody}
             /\ call[w] # Nobody <=> pc[w] = "write"
  BY DEF TypeInv, WorkerTypes
<1> QED BY <1>1, <1>2, <1>3, <1>4 DEF TypeOK, EpollTypes

\* Whatever clients do and however the stream is cut: counters stay within the
\* stream, buffers within their room, a worker that runs a call has one, and a
\* mutex is held by the worker that stands where the code holds it.
THEOREM TypeCorrect == Spec => []TypeOK
<1>1. Spec => []TypeInv
  BY TypeInit, TypeStep, PTL DEF Spec
<1> QED BY <1>1, TypeInvIsTypeOK, PTL

(***************************************************************************)
(* Clients that await each answer.  They hang up when nothing is owed to   *)
(* them, and a call of theirs arrives in one piece.                        *)
(***************************************************************************)
Synchronous == Window <= 1 /\ Patient /\ WholeSegments

Answered(c) == Len(answers[c])

\* The server has taken the call c waits for.
InService(c) == sent[c] = Answered(c) + 1 /\ taken[c] = Stream(sent[c])

\* Nothing c does can be an edge: it has hung up, or it waits for the answer to
\* a call that has arrived.
Owed(c) == hangup[c] \/ (sent[c] = Answered(c) + 1 /\ arrived[c] = Stream(sent[c]))

CallUnits(c, k) == [i \in 1 .. MsgSize |-> Unit(c, Stream(k - 1) + i)]

\* One call at a time is sent, arrives, is taken, stored, run and answered.
Talk(c) ==
  /\ sent[c] \in {Answered(c), Answered(c) + 1}
  /\ {arrived[c], taken[c]} \subseteq {Stream(Answered(c)), Stream(sent[c])}
  /\ hangup[c] => sent[c] = Answered(c)
  /\ buffer[c] # << >> => /\ buffer[c] = CallUnits(c, sent[c]) /\ InService(c)
                          /\ Len(ran[c]) = Answered(c)
  /\ dropped[c] = {}
  /\ \A i \in 1 .. Len(ran[c]) : ran[c][i] = i
  /\ \A i \in 1 .. Answered(c) : answers[c][i] = <<c, i>>
  /\ \/ Len(ran[c]) = Answered(c)
     \/ Len(ran[c]) = sent[c] /\ InService(c) /\ buffer[c] = << >>

Conversation == \A c \in Clients : Talk(c)

\* A descriptor and its buffer belong to one connection, and only a connection
\* that is being closed has none in the map.
Descriptors ==
  /\ \A c, d \in Clients : fdOf[c] \in Fds /\ fdOf[c] = fdOf[d] => c = d
  /\ \A f \in Fds : pool[f] # "null" /\ (pool[f] \in Clients => fdOf[pool[f]] = f)
  /\ \A c \in Clients : fdOf[c] \in Fds => pool[fdOf[c]] = c \/ Owed(c)

\* The connection of descriptor f has something to be read, or to be closed for,
\* and no call of it is in the buffer.
Sound(f) == pool[f] \in Clients /\ Owed(pool[f]) /\ buffer[pool[f]] = << >>

\* The descriptors with an edge that no worker has taken up.
Reported == ready \cup (Elems(events) \ {Listening}) \cup Elems(tasks)

\* A worker takes up an edge, reads, and may take the connection down; or it
\* serves the buffer.
Looking(w) == pc[w] \in {"lookup", "lock", "read", "drop", "dropLookup", "eraseEmpty"}
Erasing(w) == pc[w] \in {"erase", "close"}
Carrying(w) == Looking(w) \/ Erasing(w)
Serving(w) == pc[w] \in {"serve", "cut", "write"}

\* There is one edge at a time of each connection.
Edges ==
  /\ NoDup(events) /\ NoDup(tasks)
  /\ ready \cap Elems(events) = {} /\ ready \cap Elems(tasks) = {}
  /\ Elems(events) \cap Elems(tasks) = {}
  /\ \A f \in Reported : Sound(f)

Carriers ==
  \A w \in Workers :
    /\ Carrying(w) => /\ fd[w] \notin Reported
                      /\ \A v \in Workers : v # w /\ Carrying(v) => fd[v] # fd[w]
    /\ Looking(w) => Sound(fd[w])
    /\ Erasing(w) => pool[fd[w]] \notin Clients /\ \E c \in Clients : fdOf[c] = fd[w]
    /\ pc[w] \in {"lock", "read"} => buf[w] = pool[fd[w]]
    /\ pc[w] = "read" => sock[w] = buf[w] /\ mutex[buf[w]] = w
    /\ pc[w] # "crashed" /\ ~last[w]

\* One worker at a time serves a connection.  While it runs a call and answers
\* it, nothing happens on the connection; when it looks whether there is more, a
\* worker may wait to read the next one.
Servers ==
  \A w \in Workers : Serving(w) =>
    /\ pool[fd[w]] = buf[w]
    /\ pc[w] = "serve" => buffer[buf[w]] # << >>
    /\ pc[w] \in {"cut", "write"} => mutex[buf[w]] = w
    /\ pc[w] = "write" => /\ call[w] = <<buf[w], sent[buf[w]]>> /\ fd[w] \notin Reported
                          /\ Len(ran[buf[w]]) = Answered(buf[w]) + 1
    /\ \A v \in Workers : v # w /\ fd[v] = fd[w] =>
         ~Serving(v) /\ (Carrying(v) => pc[w] = "cut" /\ pc[v] \in {"lookup", "lock"})

SInv == Conversation /\ Descriptors /\ Edges /\ Carriers /\ Servers

\* The types that the steps below need.
LEMMA CallsAre ==
  ASSUME TypeInv, NEW c \in Clients
  PROVE  /\ sent[c] \in Nat /\ Answered(c) \in Nat /\ arrived[c] \in Nat /\ taken[c] \in Nat
         /\ taken[c] <= arrived[c] /\ hangup[c] \in BOOLEAN
         /\ Stream(Answered(c)) \in Nat /\ Stream(sent[c]) \in Nat
         /\ Stream(Answered(c) + 1) = Stream(Answered(c)) + MsgSize /\ MsgSize \in Nat /\ MsgSize >= 3
         /\ buffer[c] \in Seq(Units) /\ Len(ran[c]) \in Nat
<1>1. /\ sent[c] \in 0 .. MaxCalls /\ arrived[c] \in Nat /\ taken[c] \in Nat
      /\ taken[c] <= arrived[c] /\ hangup[c] \in BOOLEAN
  BY DEF TypeInv, ClientTypes
<1>2. answers[c] \in Seq(Clients \X (0 .. MaxCalls)) /\ buffer[c] \in Seq(Units) /\ ran[c] \in Seq(0 .. MaxCalls)
  BY DEF TypeInv, ServedTypes
<1>3. Answered(c) \in Nat /\ sent[c] \in Nat
  BY <1>1, <1>2, SizeAssumption DEF Answered
<1>4. Stream(Answered(c) + 1) = Stream(Answered(c)) + MsgSize
  BY <1>3, StreamNext
<1>5. Stream(Answered(c)) \in Nat /\ Stream(sent[c]) \in Nat /\ MsgSize \in Nat /\ MsgSize >= 3
  BY <1>3, StreamIs
<1>6. Len(ran[c]) \in Nat
  BY <1>2
<1> QED BY <1>1, <1>2, <1>3, <1>4, <1>5, <1>6

\* Client c and what it is owed.
LEMMA TalkIs ==
  ASSUME TypeInv, Conversation, NEW c \in Clients
  PROVE  /\ hangup[c] \/ sent[c] = Answered(c) => ~InService(c)
         /\ InService(c) => Owed(c)
         /\ ~Owed(c) => /\ arrived[c] = Stream(Answered(c)) /\ taken[c] = Stream(Answered(c))
                        /\ ~InService(c) /\ buffer[c] = << >> /\ ~hangup[c]
                        /\ Len(ran[c]) = Answered(c) /\ dropped[c] = {}
         /\ arrived[c] > taken[c] => /\ Owed(c) /\ ~InService(c) /\ ~hangup[c]
                                     /\ sent[c] = Answered(c) + 1 /\ arrived[c] = Stream(sent[c])
                                     /\ taken[c] = Stream(Answered(c))
         /\ ~InService(c) => buffer[c] = << >> /\ Len(ran[c]) = Answered(c) /\ dropped[c] = {}
<1>1. /\ sent[c] \in Nat /\ Answered(c) \in Nat /\ arrived[c] \in Nat /\ taken[c] \in Nat
      /\ taken[c] <= arrived[c] /\ hangup[c] \in BOOLEAN
      /\ Stream(Answered(c)) \in Nat /\ Stream(sent[c]) \in Nat
      /\ Stream(Answered(c) + 1) = Stream(Answered(c)) + MsgSize /\ MsgSize \in Nat /\ MsgSize >= 3
  BY CallsAre
<1>2. /\ sent[c] \in {Answered(c), Answered(c) + 1}
      /\ {arrived[c], taken[c]} \subseteq {Stream(Answered(c)), Stream(sent[c])}
      /\ hangup[c] => sent[c] = Answered(c)
      /\ buffer[c] # << >> => InService(c)
      /\ dropped[c] # {} => InService(c)
      /\ Len(ran[c]) = Answered(c) \/ InService(c)
  BY DEF Conversation, Talk
<1>3. CASE sent[c] = Answered(c)
  BY <1>1, <1>2, <1>3 DEF InService, Owed
<1>4. CASE sent[c] = Answered(c) + 1
  BY <1>1, <1>2, <1>4 DEF InService, Owed
<1> QED BY <1>2, <1>3, <1>4

\* Where the descriptors of edges, tasks and workers come from.
LEMMA PlacesAre ==
  ASSUME TypeInv
  PROVE  /\ Reported \subseteq Fds
         /\ \A w \in Workers : /\ Carrying(w) \/ Looking(w) \/ Erasing(w) \/ Serving(w) => fd[w] \in Fds
                               /\ Serving(w) => buf[w] \in Clients /\ ~Carrying(w)
                               /\ pc[w] \in {"lock", "read"} => buf[w] \in Clients /\ fd[w] \in Fds
<1>1. Elems(tasks) \subseteq Fds
  BY DEF TypeInv, EpollTypes, Elems
<1>2. Elems(events) \subseteq Fds \cup {Listening}
  BY DEF TypeInv, EpollTypes, Elems
<1>3. Reported \subseteq Fds
  BY <1>1, <1>2 DEF TypeInv, EpollTypes, Reported
<1>4. WorkerTypes
  BY DEF TypeInv
<1> QED BY <1>3, <1>4 DEF WorkerTypes, Carrying, Looking, Erasing, Serving

LEMMA OwnerIs ==
  ASSUME TypeInv, SInv, NEW f \in Fds, pool[f] \in Clients
  PROVE  fdOf[pool[f]] = f /\ SocketAt(f) = pool[f] /\ \A c \in Clients : fdOf[c] = f => c = pool[f]
<1>1. fdOf[pool[f]] = f
  BY DEF SInv, Descriptors
<1>2. \A c \in Clients : fdOf[c] = f => c = pool[f]
  BY <1>1 DEF SInv, Descriptors
<1> QED BY <1>1, <1>2, SocketAtIs, NobodyAssumption

\* Nobody looks at these.
LEMMA SInvFrame ==
  ASSUME SInv,
         UNCHANGED <<sent, arrived, taken, dropped, hangup, answers, fdOf, ready, events, tasks,
                     pool, buffer, mutex, ran, pc, fd, buf, sock, call, last>>
  PROVE  SInv'
<1>1. /\ \A c : Owed(c)' = Owed(c) /\ InService(c)' = InService(c) /\ Answered(c)' = Answered(c)
      /\ \A f : Sound(f)' = Sound(f)
      /\ Reported' = Reported
      /\ \A w : /\ Looking(w)' = Looking(w) /\ Erasing(w)' = Erasing(w)
                /\ Carrying(w)' = Carrying(w) /\ Serving(w)' = Serving(w)
  BY DEF Owed, InService, Answered, Sound, Reported, Looking, Erasing, Carrying, Serving
<1>2. Conversation' /\ Descriptors'
  BY <1>1 DEF SInv, Conversation, Talk, Descriptors
<1>3. Edges' /\ Carriers' /\ Servers'
  BY <1>1 DEF SInv, Edges, Carriers, Servers
<1> QED BY <1>2, <1>3 DEF SInv

\* A step of client c that leaves the server as it is, and what it is owed.
LEMMA SendKeeps == ASSUME TypeInv, SInv, Synchronous, NEW c \in Clients, ClientSend(c) PROVE SInv'
<1>1. /\ sent' = [sent EXCEPT ![c] = @ + 1] /\ ~hangup[c] /\ sent[c] - Answered(c) < Window
      /\ UNCHANGED <<arrived, taken, dropped, hangup, answers, fdOf, ready, events, tasks,
                      pool, buffer, mutex, ran, pc, fd, buf, sock, call, last>>
  BY DEF ClientSend, Answered, readVars, epollVars, workerVars
<1>2. Conversation
  BY DEF SInv
<1>3. /\ sent[c] \in Nat /\ Answered(c) \in Nat
      /\ Stream(Answered(c)) \in Nat
      /\ Stream(Answered(c) + 1) = Stream(Answered(c)) + MsgSize /\ MsgSize \in Nat /\ MsgSize >= 3
  BY CallsAre
<1>4. sent[c] = Answered(c)
  BY <1>1, <1>2, <1>3, SizeAssumption DEF Synchronous, Conversation, Talk
<1>5. /\ sent'[c] = Answered(c) + 1 /\ \A d \in Clients : d # c => sent'[d] = sent[d]
      /\ \A d \in Clients : Answered(d)' = Answered(d)
  BY <1>1, <1>4 DEF TypeInv, ClientTypes, Answered
<1>6. /\ buffer[c] = << >> /\ dropped[c] = {} /\ Len(ran[c]) = Answered(c)
      /\ arrived[c] = Stream(Answered(c)) /\ taken[c] = Stream(Answered(c)) /\ ~Owed(c)
  BY <1>1, <1>2, <1>3, <1>4, TalkIs DEF Owed
<1>7. \A d \in Clients : (Owed(d)' <=> Owed(d)) /\ (InService(d)' <=> InService(d))
  <2>1. ~Owed(c)' /\ ~InService(c)' /\ ~InService(c)
    BY <1>1, <1>3, <1>4, <1>5, <1>6 DEF Owed, InService
  <2>2. ASSUME NEW d \in Clients, d # c PROVE (Owed(d)' <=> Owed(d)) /\ (InService(d)' <=> InService(d))
    BY <1>1, <1>5, <2>2 DEF Owed, InService
  <2> QED BY <1>6, <2>1, <2>2
<1>8. /\ \A d \in Clients : Answered(d)' = Answered(d)
      /\ \A f : Sound(f)' = Sound(f) \/ pool[f] \notin Clients
      /\ Reported' = Reported
      /\ \A w : /\ Looking(w)' = Looking(w) /\ Erasing(w)' = Erasing(w)
                /\ Carrying(w)' = Carrying(w) /\ Serving(w)' = Serving(w)
  BY <1>1, <1>5, <1>7 DEF Sound, Reported, Looking, Erasing, Carrying, Serving
<1>9. Conversation'
  BY <1>1, <1>2, <1>4, <1>5, <1>6, <1>7 DEF Conversation, Talk
<1>10. Descriptors'
  BY <1>1, <1>7 DEF SInv, Descriptors, TypeInv, EpollTypes
<1>11. \A f \in Fds : Sound(f) => Sound(f)'
  BY <1>1, <1>7, <1>8 DEF Sound
<1>12. Edges'
  BY <1>1, <1>8, <1>11, PlacesAre DEF SInv, Edges
<1>13. Carriers'
  BY <1>1, <1>8, <1>11, PlacesAre DEF SInv, Carriers
<1>14. Servers'
  BY <1>1, <1>5, <1>6, <1>8, PlacesAre DEF SInv, Servers
<1> QED BY <1>9, <1>10, <1>12, <1>13, <1>14 DEF SInv

\* Where a unit stands in its call.
LEMMA StreamRemainder ==
  ASSUME NEW k \in Nat, NEW r \in Nat, r < MsgSize
  PROVE  (Stream(k) + r) % MsgSize = r
<1>1. MsgSize \in Nat \ {0} /\ Stream(k) \in Nat /\ Stream(k) = MsgSize * k
  BY StreamIs DEF Stream
<1> DEFINE n == Stream(k) + r
<1>2. n \in Nat /\ n = MsgSize * k + r /\ r \in 0 .. MsgSize - 1 /\ k \in Int
  BY <1>1
<1> HIDE DEF n
<1>3. n % MsgSize = r
  BY <1>1, <1>2, RemainderOf
<1> QED BY <1>3 DEF n

\* When nothing is owed to client c, no edge of its connection is on its way.
LEMMA Quiet ==
  ASSUME TypeInv, SInv, NEW c \in Clients, ~Owed(c)
  PROVE  /\ fdOf[c] \in Fds => pool[fdOf[c]] = c
         /\ fdOf[c] \notin Reported /\ \A f \in Reported : pool[f] # c
         /\ \A w \in Workers :
              /\ Carrying(w) => fd[w] # fdOf[c] /\ pool[fd[w]] # c
              /\ Serving(w) /\ buf[w] = c => pc[w] = "cut"
<1>1. fdOf[c] \in Fds => pool[fdOf[c]] = c
  BY DEF SInv, Descriptors
<1>2. \A f \in Fds : Sound(f) => pool[f] # c
  BY DEF Sound
<1>3. \A f \in Reported : f \in Fds /\ pool[f] # c
  BY <1>2, PlacesAre DEF SInv, Edges
<1>4. ASSUME NEW w \in Workers, Carrying(w) PROVE fd[w] # fdOf[c] /\ pool[fd[w]] # c
  <2>1. fd[w] \in Fds
    BY <1>4, PlacesAre
  <2>2. Looking(w) => Sound(fd[w])
    BY DEF SInv, Carriers
  <2>3. Erasing(w) => pool[fd[w]] \notin Clients
    BY DEF SInv, Carriers
  <2> QED BY <1>1, <1>2, <1>4, <2>1, <2>2, <2>3 DEF Carrying
<1>5. ASSUME NEW w \in Workers, Serving(w), buf[w] = c PROVE pc[w] = "cut"
  <2>1. /\ pc[w] = "serve" => buffer[c] # << >>
        /\ pc[w] = "write" => Len(ran[c]) = Answered(c) + 1
    BY <1>5 DEF SInv, Servers
  <2>2. buffer[c] = << >> /\ Len(ran[c]) = Answered(c) /\ Answered(c) \in Nat
    BY CallsAre, TalkIs DEF SInv
  <2> QED BY <1>5, <2>1, <2>2 DEF Serving
<1> QED BY <1>1, <1>3, <1>4, <1>5

\* A call of client c arrives, or c hangs up.
LEMMA EdgeKeeps ==
  ASSUME TypeInv, SInv, NEW c \in Clients, ~Owed(c), Owed(c)', Edge(c), Conversation',
         \A d \in Clients : d # c => (Owed(d)' <=> Owed(d)),
         UNCHANGED <<sent, taken, dropped, answers, fdOf, interest, events, tasks, pool, buffer,
                     mutex, ran, pc, fd, buf, sock, call, last>>
  PROVE  SInv'
<1>1. \A d \in Clients : Owed(d) => Owed(d)'
  OBVIOUS
<1>2. buffer[c] = << >>
  BY TalkIs DEF SInv
<1>3. \A f \in Fds : Sound(f) => Sound(f)'
  BY <1>1 DEF Sound
<1>4. fdOf[c] \in Fds => Sound(fdOf[c])'
  BY <1>2, Quiet DEF Sound
<1>5. ready' \subseteq ready \cup ({fdOf[c]} \cap Fds)
  BY DEF Edge, TypeInv, EpollTypes
<1>6. Reported' \subseteq Reported \cup ({fdOf[c]} \cap Fds) /\ fdOf[c] \notin Reported
  BY <1>5, Quiet DEF Reported
<1>7. Descriptors'
  BY <1>1 DEF SInv, Descriptors, TypeInv, EpollTypes
<1>8. Edges'
  <2>1. Listening \notin Fds
    BY SizeAssumption DEF Listening
  <2>2. {fdOf[c]} \cap Fds \cap Elems(events) = {} /\ {fdOf[c]} \cap Fds \cap Elems(tasks) = {}
    BY <1>6, <2>1 DEF Reported
  <2> QED BY <1>3, <1>4, <1>5, <1>6, <2>2, PlacesAre DEF SInv, Edges
<1>9. /\ \A w \in Workers : /\ Looking(w)' = Looking(w) /\ Erasing(w)' = Erasing(w)
                            /\ Carrying(w)' = Carrying(w) /\ Serving(w)' = Serving(w)
      /\ \A d \in Clients : Answered(d)' = Answered(d)
  BY DEF Looking, Erasing, Carrying, Serving, Answered
<1>10. Carriers'
  <2>1. \A w \in Workers : Carrying(w) => fd[w] # fdOf[c]
    BY Quiet
  <2> QED BY <1>3, <1>6, <1>9, <2>1, PlacesAre DEF SInv, Carriers
<1>11. Servers'
  <2>1. ASSUME NEW w \in Workers, Serving(w), pc[w] = "write" PROVE fd[w] \notin Reported'
    <3>1. fd[w] \notin Reported /\ pool[fd[w]] = buf[w]
      BY <2>1 DEF SInv, Servers
    <3>2. fd[w] \in Fds /\ buf[w] # c
      BY <2>1, Quiet, PlacesAre
    <3>3. fd[w] # fdOf[c]
      BY <3>1, <3>2, Quiet
    <3> QED BY <1>6, <3>1, <3>3
  <2> QED BY <1>9, <2>1, PlacesAre DEF SInv, Servers
<1> QED BY <1>7, <1>8, <1>10, <1>11 DEF SInv

LEMMA ArriveKeeps == ASSUME TypeInv, SInv, Synchronous, NEW c \in Clients, Arrive(c) PROVE SInv'
<1>1. PICK n \in arrived[c] + 1 .. Stream(sent[c]) :
        n % MsgSize = 0 /\ arrived' = [arrived EXCEPT ![c] = n]
  BY DEF Arrive, Synchronous, Stream
<1>2. /\ Edge(c)
      /\ UNCHANGED <<sent, taken, dropped, hangup, answers, fdOf, interest, events, tasks, pool,
                     buffer, mutex, ran, pc, fd, buf, sock, call, last>>
  BY DEF Arrive, clientVars, readVars, workerVars
<1>3. Conversation
  BY DEF SInv
<1>4. /\ sent[c] \in Nat /\ Answered(c) \in Nat /\ arrived[c] \in Nat /\ taken[c] \in Nat
      /\ taken[c] <= arrived[c] /\ hangup[c] \in BOOLEAN
      /\ Stream(Answered(c)) \in Nat /\ Stream(sent[c]) \in Nat
      /\ Stream(Answered(c) + 1) = Stream(Answered(c)) + MsgSize /\ MsgSize \in Nat /\ MsgSize >= 3
  BY CallsAre
<1>5. arrived[c] < Stream(sent[c]) /\ n \in Nat
  BY <1>1, <1>4
<1>6. sent[c] = Answered(c) + 1 /\ ~hangup[c] /\ ~Owed(c)
  <2>1. /\ sent[c] \in {Answered(c), Answered(c) + 1}
        /\ hangup[c] => sent[c] = Answered(c)
        /\ arrived[c] \in {Stream(Answered(c)), Stream(sent[c])}
    BY <1>3 DEF Conversation, Talk
  <2>2. arrived[c] # Stream(sent[c])
    BY <1>4, <1>5
  <2>3. sent[c] # Answered(c)
    BY <2>1, <2>2
  <2>4. ~hangup[c]
    BY <2>1, <2>3
  <2>5. sent[c] = Answered(c) + 1
    BY <2>1, <2>3
  <2> QED BY <2>2, <2>4, <2>5 DEF Owed
<1>7. /\ arrived[c] = Stream(Answered(c)) /\ taken[c] = Stream(Answered(c)) /\ buffer[c] = << >>
      /\ Len(ran[c]) = Answered(c) /\ dropped[c] = {} /\ ~InService(c)
  BY <1>3, <1>6, TalkIs
<1>8. n = Stream(sent[c])
  <2>1. (Stream(Answered(c)) + 0) % MsgSize = 0
    BY <1>4, StreamRemainder
  <2>2. Stream(Answered(c)) + 0 = Stream(Answered(c))
    BY <1>4
  <2>3. Stream(Answered(c)) % MsgSize = n % MsgSize
    BY <1>1, <2>1, <2>2
  <2>4. Stream(Answered(c)) < n /\ MsgSize \in Nat \ {0}
    BY <1>1, <1>4, <1>7
  <2>5. n - Stream(Answered(c)) >= MsgSize
    BY <1>4, <1>5, <2>3, <2>4, RemainderDistance
  <2> QED BY <1>1, <1>4, <1>6, <2>5
<1>9. /\ arrived'[c] = Stream(sent[c]) /\ \A d \in Clients : d # c => arrived'[d] = arrived[d]
      /\ \A d \in Clients : Answered(d)' = Answered(d) /\ (InService(d)' <=> InService(d))
  BY <1>1, <1>2, <1>8 DEF TypeInv, ClientTypes, Answered, InService
<1>10. Owed(c)' /\ \A d \in Clients : d # c => (Owed(d)' <=> Owed(d))
  BY <1>2, <1>6, <1>9 DEF Owed
<1>11. Conversation'
  BY <1>2, <1>3, <1>9 DEF Conversation, Talk
<1> QED BY <1>2, <1>6, <1>10, <1>11, EdgeKeeps

LEMMA HangUpKeeps == ASSUME TypeInv, SInv, Synchronous, NEW c \in Clients, ClientHangUp(c) PROVE SInv'
<1>1. /\ Edge(c) /\ hangup' = [hangup EXCEPT ![c] = TRUE] /\ ~hangup[c] /\ Answered(c) = sent[c]
      /\ UNCHANGED <<sent, arrived, taken, dropped, answers, fdOf, interest, events, tasks, pool,
                     buffer, mutex, ran, pc, fd, buf, sock, call, last>>
  BY DEF ClientHangUp, Synchronous, Answered, readVars, workerVars
<1>2. Conversation /\ Answered(c) \in Nat
  BY CallsAre DEF SInv
<1>3. ~Owed(c)
  BY <1>1, <1>2 DEF Owed
<1>4. /\ hangup'[c] /\ \A d \in Clients : d # c => hangup'[d] = hangup[d]
      /\ \A d \in Clients : Answered(d)' = Answered(d) /\ (InService(d)' <=> InService(d))
  BY <1>1 DEF TypeInv, ClientTypes, Answered, InService
<1>5. Owed(c)' /\ \A d \in Clients : d # c => (Owed(d)' <=> Owed(d))
  BY <1>1, <1>4 DEF Owed
<1>6. Conversation'
  BY <1>1, <1>2, <1>4 DEF Conversation, Talk
<1> QED BY <1>1, <1>3, <1>5, <1>6, EdgeKeeps

\* Edges move to the main thread and to the pool, or are dropped.
LEMMA EdgesMove ==
  ASSUME TypeInv, SInv, Reported' \subseteq Reported, NoDup(events)', NoDup(tasks)',
         (ready \cap Elems(events) = {} /\ ready \cap Elems(tasks) = {}
          /\ Elems(events) \cap Elems(tasks) = {})',
         UNCHANGED <<sent, arrived, taken, dropped, hangup, answers, fdOf,
                     pool, buffer, mutex, ran, pc, fd, buf, sock, call, last>>
  PROVE  SInv'
<1>1. /\ \A c : Owed(c)' = Owed(c) /\ InService(c)' = InService(c) /\ Answered(c)' = Answered(c)
      /\ \A f : Sound(f)' = Sound(f)
      /\ \A w : /\ Looking(w)' = Looking(w) /\ Erasing(w)' = Erasing(w)
                /\ Carrying(w)' = Carrying(w) /\ Serving(w)' = Serving(w)
  BY DEF Owed, InService, Answered, Sound, Looking, Erasing, Carrying, Serving
<1>2. Conversation' /\ Descriptors'
  BY <1>1 DEF SInv, Conversation, Talk, Descriptors
<1>3. Edges' /\ Carriers'
  BY <1>1 DEF SInv, Edges, Carriers
<1>4. Servers'
  BY <1>1 DEF SInv, Servers
<1> QED BY <1>2, <1>3, <1>4 DEF SInv

LEMMA EpollWaitKeeps == ASSUME TypeInv, SInv, EpollWait PROVE SInv'
<1>1. PICK R \in SUBSET (ready \cup {Listening}) : events' \in SetToSeqs(R)
  BY DEF EpollWait
<1>2. /\ ready' = {} /\ events = << >>
      /\ UNCHANGED <<sent, arrived, taken, dropped, hangup, answers, fdOf, tasks,
                     pool, buffer, mutex, ran, pc, fd, buf, sock, call, last>>
  BY DEF EpollWait, clientVars, readVars, workerVars
<1>3. IsFiniteSet(R)
  <2>1. IsFiniteSet(Fds \cup {Listening}) /\ R \subseteq Fds \cup {Listening}
    BY SizeAssumption, FS_AddElement DEF TypeInv, EpollTypes
  <2> QED BY <2>1, FS_Subset
<1>4. Elems(events') \subseteq ready \cup {Listening} /\ NoDup(events')
  BY <1>1, <1>3, SetToSeqsIs
<1>5. Elems(events)' = Elems(events') /\ Elems(tasks)' = Elems(tasks) /\ NoDup(events)' = NoDup(events')
      /\ NoDup(tasks)' = NoDup(tasks)
  BY <1>2 DEF Elems, NoDup
<1>6. ready \cap Elems(tasks) = {} /\ NoDup(tasks) /\ Listening \notin Elems(tasks)
  BY SizeAssumption DEF SInv, Edges, TypeInv, EpollTypes, Elems, Listening
<1>7. Reported' \subseteq Reported
  BY <1>2, <1>4, <1>5 DEF Reported
<1> QED BY <1>2, <1>4, <1>5, <1>6, <1>7, EdgesMove

LEMMA AcceptFailsKeeps == ASSUME TypeInv, SInv, MainAcceptFails PROVE SInv'
<1>1. /\ events' = Tail(events) /\ events # << >>
      /\ UNCHANGED <<sent, arrived, taken, dropped, hangup, answers, fdOf, ready, tasks,
                     pool, buffer, mutex, ran, pc, fd, buf, sock, call, last>>
  BY DEF MainAcceptFails, clientVars, readVars, epollVars, workerVars
<1>2. Elems(events') \subseteq Elems(events) /\ NoDup(events')
  BY <1>1, TailIs DEF SInv, Edges, TypeInv, EpollTypes
<1>3. Elems(events)' = Elems(events') /\ Elems(tasks)' = Elems(tasks) /\ NoDup(events)' = NoDup(events')
      /\ NoDup(tasks)' = NoDup(tasks)
  BY <1>1 DEF Elems, NoDup
<1>4. Reported' \subseteq Reported
  BY <1>1, <1>2, <1>3 DEF Reported
<1>5. /\ ready \cap Elems(events') = {} /\ ready \cap Elems(tasks) = {} /\ NoDup(tasks)
      /\ Elems(events') \cap Elems(tasks) = {}
  BY <1>2 DEF SInv, Edges
<1> QED BY <1>1, <1>2, <1>3, <1>4, <1>5, EdgesMove

LEMMA DispatchKeeps == ASSUME TypeInv, SInv, MainDispatch PROVE SInv'
<1> DEFINE f == Head(events)
<1>1. /\ events' = Tail(events) /\ tasks' = Append(tasks, f) /\ events # << >> /\ f # Listening
      /\ UNCHANGED <<sent, arrived, taken, dropped, hangup, answers, fdOf, ready,
                     pool, buffer, mutex, ran, pc, fd, buf, sock, call, last>>
  BY DEF MainDispatch, clientVars, readVars, epollVars, workerVars
<1>2. /\ f \in Fds \cup {Listening} /\ Elems(events) = {f} \cup Elems(events') /\ NoDup(events')
      /\ f \notin Elems(events')
  BY <1>1, TailIs DEF SInv, Edges, TypeInv, EpollTypes
<1>3. Elems(tasks') = Elems(tasks) \cup {f} /\ NoDup(tasks')
  <2>1. tasks \in Seq(Fds) /\ f \in Fds
    BY <1>1, <1>2 DEF TypeInv, EpollTypes
  <2>2. NoDup(tasks) /\ f \notin Elems(tasks)
    BY <1>2 DEF SInv, Edges
  <2> HIDE DEF f
  <2> QED BY <1>1, <2>1, <2>2, AppendIs
<1>4. /\ Elems(events)' = Elems(events') /\ Elems(tasks)' = Elems(tasks')
      /\ NoDup(events)' = NoDup(events') /\ NoDup(tasks)' = NoDup(tasks')
  BY DEF Elems, NoDup
<1> HIDE DEF f
<1>5. Reported' \subseteq Reported
  BY <1>1, <1>2, <1>3, <1>4 DEF Reported
<1>6. /\ ready \cap Elems(events') = {} /\ ready \cap Elems(tasks') = {}
      /\ Elems(events') \cap Elems(tasks') = {}
  BY <1>2, <1>3 DEF SInv, Edges
<1> QED BY <1>1, <1>2, <1>3, <1>4, <1>5, <1>6, EdgesMove

\* Nothing remains of the connections that had a free descriptor before.
LEMMA FreeIs ==
  ASSUME TypeInv, SInv, NEW f \in Fds, SocketAt(f) = Nobody
  PROVE  /\ pool[f] = "absent" /\ f \notin Reported
         /\ \A w \in Workers : Carrying(w) \/ Serving(w) => fd[w] # f
<1>1. \A c \in Clients : fdOf[c] # f
  BY SocketAtIs
<1>2. pool[f] = "absent" /\ pool[f] \notin Clients
  BY <1>1, BufferAssumption DEF SInv, Descriptors, TypeInv, EpollTypes
<1>3. ~Sound(f)
  BY <1>2 DEF Sound
<1>4. ASSUME NEW w \in Workers, Carrying(w) PROVE fd[w] # f
  BY <1>1, <1>3, <1>4 DEF SInv, Carriers, Carrying
<1>5. ASSUME NEW w \in Workers, Serving(w) PROVE fd[w] # f
  BY <1>2, <1>5, PlacesAre DEF SInv, Servers
<1> QED BY <1>2, <1>3, <1>4, <1>5 DEF SInv, Edges

LEMMA AcceptKeeps == ASSUME TypeInv, SInv, MainAccept PROVE SInv'
<1> DEFINE f == Min(FreeFds)
<1>1. f \in Fds /\ SocketAt(f) = Nobody
  BY FreeFdIs DEF MainAccept, FreeFds
<1> HIDE DEF f
<1>2. pool[f] = "absent" /\ f \notin Reported /\ \A w \in Workers : Carrying(w) \/ Serving(w) => fd[w] # f
  BY <1>1, FreeIs
<1>3. PICK c \in Clients :
        /\ conn[c] = "pending" /\ fdOf' = [fdOf EXCEPT ![c] = f]
        /\ ready' = IF Readable(c) THEN ready \cup {f} ELSE ready
        /\ pool' = [pool EXCEPT ![f] = c]
  BY <1>2 DEF MainAccept, Pending, f
<1>4. /\ events # << >> /\ events' = Tail(events) /\ Head(events) = Listening
      /\ UNCHANGED <<sent, arrived, taken, dropped, hangup, answers, tasks, buffer, mutex, ran, pc, fd,
                     buf, sock, call, last>>
  BY DEF MainAccept, clientVars, readVars, workerVars
<1>5. /\ \A d \in Clients : Owed(d)' = Owed(d) /\ InService(d)' = InService(d) /\ Answered(d)' = Answered(d)
      /\ \A w \in Workers : /\ Looking(w)' = Looking(w) /\ Erasing(w)' = Erasing(w)
                            /\ Carrying(w)' = Carrying(w) /\ Serving(w)' = Serving(w)
  BY <1>4 DEF Owed, InService, Answered, Looking, Erasing, Carrying, Serving
<1>6. /\ fdOf[c] \notin Fds /\ fdOf'[c] = f /\ \A d \in Clients : d # c => fdOf'[d] = fdOf[d] /\ fdOf[d] # f
      /\ pool'[f] = c /\ \A g \in Fds : g # f => pool'[g] = pool[g] /\ pool[g] # c
  BY <1>1, <1>3, SocketAtIs DEF TypeInv, ClientTypes, EpollTypes, SInv, Descriptors
<1>7. Conversation'
  BY <1>4, <1>5 DEF SInv, Conversation, Talk
<1>8. Descriptors'
  BY <1>1, <1>5, <1>6, BufferAssumption DEF SInv, Descriptors
<1>9. \A g \in Fds : g # f => (Sound(g)' <=> Sound(g))
  BY <1>4, <1>5, <1>6 DEF Sound, TypeInv, EpollTypes
<1>10. \A g \in Fds : g = f /\ Readable(c) => Sound(g)'
  <2>1. ASSUME Readable(c) PROVE Owed(c) /\ buffer[c] = << >>
    <3>1. CASE hangup[c]
      BY <3>1, TalkIs DEF SInv, Owed
    <3>2. CASE arrived[c] > taken[c]
      BY <3>2, TalkIs DEF SInv
    <3> QED BY <2>1, <3>1, <3>2 DEF Readable
  <2> QED BY <1>4, <1>6, <2>1 DEF Sound, Owed, Answered, Stream, MsgSize
<1>11. Elems(events') \subseteq Elems(events) /\ NoDup(events')
  BY <1>4, TailIs DEF SInv, Edges, TypeInv, EpollTypes
<1>12. /\ Elems(events)' = Elems(events') /\ Elems(tasks)' = Elems(tasks)
       /\ NoDup(events)' = NoDup(events') /\ NoDup(tasks)' = NoDup(tasks)
  BY <1>4 DEF Elems, NoDup
<1>13. Reported' \subseteq Reported \cup (IF Readable(c) THEN {f} ELSE {}) /\ ready' \subseteq ready \cup {f}
  BY <1>3, <1>11, <1>12 DEF Reported
<1>14. Edges'
  <2>1. f \notin Elems(events) /\ f \notin Elems(tasks)
    BY <1>1, <1>2, SizeAssumption DEF Reported, Listening
  <2>2. ASSUME NEW g \in Reported' PROVE Sound(g)'
    <3>1. CASE g = f /\ Readable(c)
      BY <1>1, <1>10, <3>1
    <3>2. CASE g \in Reported
      <4>1. g \in Fds /\ g # f /\ Sound(g)
        BY <1>2, <3>2, PlacesAre DEF SInv, Edges
      <4> QED BY <1>9, <4>1
    <3> QED BY <1>13, <2>2, <3>1, <3>2
  <2> QED BY <1>11, <1>12, <1>13, <2>1, <2>2 DEF SInv, Edges
<1>15. Carriers'
  <2>1. ASSUME NEW w \in Workers, Erasing(w)
        PROVE  pool'[fd[w]] \notin Clients /\ \E d \in Clients : fdOf'[d] = fd[w]
    <3>1. fd[w] # f /\ fd[w] \in Fds
      BY <1>2, <2>1, PlacesAre DEF Carrying
    <3>2. PICK d \in Clients : fdOf[d] = fd[w]
      BY <2>1 DEF SInv, Carriers
    <3>3. d # c
      BY <1>6, <3>1, <3>2
    <3> QED BY <1>6, <2>1, <3>1, <3>2, <3>3 DEF SInv, Carriers
  <2>2. \A w \in Workers : Carrying(w) => fd[w] \in Fds /\ fd[w] # f /\ fd[w] \notin Reported'
    BY <1>2, <1>13, PlacesAre DEF SInv, Carriers
  <2>3. \A w \in Workers : pc[w] \in {"lock", "read"} => Carrying(w)
    BY DEF Carrying, Looking
  <2>4. \A w \in Workers : Looking(w) => Carrying(w) /\ Sound(fd[w])'
    BY <1>4, <1>9, <2>2 DEF SInv, Carriers, Carrying
  <2> QED BY <1>4, <1>5, <1>6, <2>1, <2>2, <2>3, <2>4 DEF SInv, Carriers
<1>16. Servers'
  BY <1>2, <1>4, <1>5, <1>6, <1>13, PlacesAre DEF SInv, Servers
<1> QED BY <1>7, <1>8, <1>14, <1>15, <1>16 DEF SInv

LEMMA ConversationFrame ==
  ASSUME Conversation, UNCHANGED <<sent, arrived, taken, dropped, hangup, answers, buffer, ran>>
  PROVE  Conversation'
BY DEF Conversation, Talk, InService, Answered

\* The other workers stay where they are, and keep the mutexes they hold.
OthersStay(w) ==
  \A v \in Workers : v # w =>
    /\ pc'[v] = pc[v] /\ fd'[v] = fd[v] /\ buf'[v] = buf[v] /\ sock'[v] = sock[v]
    /\ call'[v] = call[v] /\ last'[v] = last[v]
    /\ \A b \in Clients : mutex[b] = v => mutex'[b] = v

\* What a worker does is done by it alone.
LEMMA PlacesStay ==
  ASSUME NEW w \in Workers, OthersStay(w)
  PROVE  \A v \in Workers : v # w =>
           /\ Looking(v)' = Looking(v) /\ Erasing(v)' = Erasing(v)
           /\ Carrying(v)' = Carrying(v) /\ Serving(v)' = Serving(v)
BY DEF OthersStay, Looking, Erasing, Carrying, Serving

\* A worker that has taken up an edge goes on with it.
LEMMA LookKeeps ==
  ASSUME TypeInv, SInv, NEW w \in Workers, Looking(w), Looking(w)', fd'[w] = fd[w], ~last'[w],
         pc'[w] \in {"lock", "read"} => buf'[w] = pool[fd[w]],
         pc'[w] = "read" => sock'[w] = buf'[w] /\ mutex'[buf'[w]] = w,
         pc'[w] \in {"lookup", "lock"} \/ \A v \in Workers : Serving(v) => fd[v] # fd[w],
         OthersStay(w), Conversation', ready' \subseteq ready,
         UNCHANGED <<sent, arrived, hangup, answers, fdOf, events, tasks, pool, buffer, ran>>
  PROVE  SInv'
<1>1. /\ \A d \in Clients : Owed(d)' = Owed(d) /\ Answered(d)' = Answered(d)
      /\ \A f \in Fds : Sound(f)' = Sound(f)
  BY DEF Owed, Answered, Sound
<1>2. Elems(events)' = Elems(events) /\ Elems(tasks)' = Elems(tasks)
      /\ NoDup(events)' = NoDup(events) /\ NoDup(tasks)' = NoDup(tasks)
  BY DEF Elems, NoDup
<1>3. Reported' \subseteq Reported
  BY <1>2 DEF Reported
<1>4. Descriptors'
  BY <1>1 DEF SInv, Descriptors
<1>5. Edges'
  BY <1>1, <1>2, <1>3, PlacesAre DEF SInv, Edges
<1>6. \A v \in Workers : v # w =>
           /\ Looking(v)' = Looking(v) /\ Erasing(v)' = Erasing(v)
           /\ Carrying(v)' = Carrying(v) /\ Serving(v)' = Serving(v)
  BY PlacesStay
<1>7. Carrying(w) /\ Carrying(w)' /\ ~Erasing(w)' /\ ~Serving(w)' /\ ~Serving(w) /\ pc'[w] # "crashed"
  BY DEF Carrying, Looking, Erasing, Serving
<1>8. \A v \in Workers : fd'[v] = fd[v] /\ (Carrying(v)' <=> Carrying(v)) /\ (Looking(v)' <=> Looking(v))
                         /\ (Serving(v)' <=> Serving(v))
  BY <1>6, <1>7 DEF OthersStay
<1>9. Carriers'
  <2>1. ASSUME NEW v \in Workers
        PROVE  /\ Carrying(v)' => /\ fd'[v] \notin Reported'
                                  /\ \A u \in Workers : u # v /\ Carrying(u)' => fd'[u] # fd'[v]
               /\ Looking(v)' => Sound(fd[v])'
    BY <1>1, <1>3, <1>8, PlacesAre DEF SInv, Carriers
  <2>2. ASSUME NEW v \in Workers, v # w
        PROVE  /\ Erasing(v)' => pool'[fd'[v]] \notin Clients /\ \E c \in Clients : fdOf'[c] = fd'[v]
               /\ pc'[v] \in {"lock", "read"} => buf'[v] = pool'[fd'[v]]
               /\ pc'[v] = "read" => sock'[v] = buf'[v] /\ mutex'[buf'[v]] = v
               /\ pc'[v] # "crashed" /\ ~last'[v]
    BY <1>6, <2>2, PlacesAre DEF SInv, Carriers, OthersStay
  <2> QED BY <1>7, <2>1, <2>2 DEF Carriers
<1>10. Servers'
  <2> SUFFICES ASSUME NEW v \in Workers, Serving(v)'
               PROVE  (/\ pool[fd[v]] = buf[v]
                       /\ pc[v] = "serve" => buffer[buf[v]] # << >>
                       /\ pc[v] \in {"cut", "write"} => mutex[buf[v]] = v
                       /\ pc[v] = "write" => /\ call[v] = <<buf[v], sent[buf[v]]>> /\ fd[v] \notin Reported
                                             /\ Len(ran[buf[v]]) = Answered(buf[v]) + 1
                       /\ \A u \in Workers : u # v /\ fd[u] = fd[v] =>
                            ~Serving(u) /\ (Carrying(u) => pc[v] = "cut" /\ pc[u] \in {"lookup", "lock"}))'
    BY DEF Servers
  <2>1. v # w /\ Serving(v) /\ buf[v] \in Clients
    BY <1>7, <1>8, PlacesAre
  <2>2. \A u \in Workers : u # v /\ fd[u] = fd[v] =>
          ~Serving(u) /\ (Carrying(u) => pc[v] = "cut" /\ pc[u] \in {"lookup", "lock"})
    BY <2>1 DEF SInv, Servers
  <2>3. \A u \in Workers : u # v /\ fd'[u] = fd'[v] =>
          ~Serving(u)' /\ (Carrying(u)' => pc'[v] = "cut" /\ pc'[u] \in {"lookup", "lock"})
    BY <1>7, <1>8, <2>1, <2>2 DEF OthersStay
  <2> QED BY <1>1, <1>3, <2>1, <2>3 DEF SInv, Servers, OthersStay
<1> QED BY <1>4, <1>5, <1>9, <1>10 DEF SInv

\* The connection whose edge worker w has taken up.
LEMMA LookingIs ==
  ASSUME TypeInv, SInv, NEW w \in Workers, Looking(w)
  PROVE  /\ fd[w] \in Fds /\ pool[fd[w]] \in Clients /\ Owed(pool[fd[w]]) /\ buffer[pool[fd[w]]] = << >>
         /\ fdOf[pool[fd[w]]] = fd[w] /\ SocketAt(fd[w]) = pool[fd[w]] /\ ~last[w]
         /\ fd[w] \notin Reported /\ \A v \in Workers : v # w /\ Carrying(v) => fd[v] # fd[w]
         /\ pc[w] \in {"lock", "read"} => buf[w] = pool[fd[w]]
         /\ pc[w] = "read" => sock[w] = buf[w] /\ mutex[buf[w]] = w
         /\ \A v \in Workers : Serving(v) /\ fd[v] = fd[w] =>
              /\ pc[v] = "cut" /\ pc[w] \in {"lookup", "lock"}
              /\ buf[v] = pool[fd[w]] /\ mutex[pool[fd[w]]] = v
<1>1. fd[w] \in Fds
  BY PlacesAre
<1>2. Sound(fd[w]) /\ Carrying(w) /\ ~Serving(w)
  BY PlacesAre DEF SInv, Carriers, Carrying
<1>3. pool[fd[w]] \in Clients /\ Owed(pool[fd[w]]) /\ buffer[pool[fd[w]]] = << >>
  BY <1>2 DEF Sound
<1>4. fdOf[pool[fd[w]]] = fd[w] /\ SocketAt(fd[w]) = pool[fd[w]]
  BY <1>1, <1>3, OwnerIs
<1>5. /\ ~last[w] /\ fd[w] \notin Reported /\ \A v \in Workers : v # w /\ Carrying(v) => fd[v] # fd[w]
      /\ pc[w] \in {"lock", "read"} => buf[w] = pool[fd[w]]
      /\ pc[w] = "read" => sock[w] = buf[w] /\ mutex[buf[w]] = w
  BY <1>2 DEF SInv, Carriers
<1>6. ASSUME NEW v \in Workers, Serving(v), fd[v] = fd[w]
      PROVE  /\ pc[v] = "cut" /\ pc[w] \in {"lookup", "lock"}
             /\ buf[v] = pool[fd[w]] /\ mutex[pool[fd[w]]] = v
  BY <1>2, <1>6 DEF SInv, Servers
<1> QED BY <1>1, <1>3, <1>4, <1>5, <1>6

LEMMA LookupKeeps == ASSUME TypeInv, SInv, NEW w \in Workers, Lookup(w) PROVE SInv'
<1>1. Looking(w)
  BY DEF Lookup, At, Looking
<1>2. pool[fd[w]] \in Clients /\ ~last[w]
  BY <1>1, LookingIs
<1>3. /\ buf' = [buf EXCEPT ![w] = pool[fd[w]]] /\ pc' = [pc EXCEPT ![w] = "lock"]
      /\ UNCHANGED <<sent, arrived, taken, dropped, hangup, answers, fdOf, ready, events, tasks, pool,
                     buffer, mutex, ran, fd, sock, call, last>>
  BY <1>2 DEF Lookup, Goto, clientVars, readVars, epollVars
<1>4. pc'[w] = "lock" /\ buf'[w] = pool[fd[w]] /\ OthersStay(w)
  BY <1>3 DEF TypeInv, WorkerTypes, OthersStay
<1>5. Looking(w)'
  BY <1>4 DEF Looking
<1>6. Conversation'
  BY <1>3, ConversationFrame DEF SInv
<1> QED BY <1>1, <1>2, <1>3, <1>4, <1>5, <1>6, LookKeeps

\* It waits until the worker that serves the buffer is done.
LEMMA ReadLockKeeps == ASSUME TypeInv, SInv, NEW w \in Workers, ReadLock(w) PROVE SInv'
<1>1. Looking(w) /\ pc[w] = "lock"
  BY DEF ReadLock, At, Looking
<1>2. /\ fd[w] \in Fds /\ pool[fd[w]] \in Clients /\ ~last[w] /\ buf[w] = pool[fd[w]]
      /\ SocketAt(fd[w]) = buf[w]
  BY <1>1, LookingIs
<1>3. /\ mutex[buf[w]] = Nobody /\ mutex' = [mutex EXCEPT ![buf[w]] = w]
      /\ sock' = [sock EXCEPT ![w] = buf[w]] /\ pc' = [pc EXCEPT ![w] = "read"]
      /\ UNCHANGED <<sent, arrived, taken, dropped, hangup, answers, fdOf, ready, events, tasks, pool,
                     buffer, ran, fd, buf, call, last>>
  BY <1>2 DEF ReadLock, Lock, Goto, clientVars, readVars, epollVars
<1>4. pc'[w] = "read" /\ sock'[w] = buf'[w] /\ mutex'[buf'[w]] = w /\ OthersStay(w)
  BY <1>2, <1>3, NobodyAssumption DEF TypeInv, WorkerTypes, MutexTypes, OthersStay
<1>5. ASSUME NEW v \in Workers, Serving(v) PROVE fd[v] # fd[w]
  <2>1. SUFFICES ASSUME fd[v] = fd[w] PROVE FALSE
    OBVIOUS
  <2>2. mutex[pool[fd[w]]] = v
    BY <1>1, <1>5, <2>1, LookingIs
  <2> QED BY <1>2, <1>3, <2>2, NobodyAssumption
<1>6. Looking(w)'
  BY <1>4 DEF Looking
<1>7. Conversation'
  BY <1>3, ConversationFrame DEF SInv
<1> QED BY <1>1, <1>2, <1>3, <1>4, <1>5, <1>6, <1>7, LookKeeps

LEMMA ReadNothingKeeps == ASSUME TypeInv, SInv, NEW w \in Workers, ReadNothing(w) PROVE SInv'
<1>1. Looking(w) /\ pc[w] = "read"
  BY DEF ReadNothing, At, Looking
<1>2. ~last[w] /\ buf[w] \in Clients /\ mutex[buf[w]] = w
      /\ \A v \in Workers : Serving(v) => fd[v] # fd[w]
  BY <1>1, LookingIs
<1>3. /\ mutex' = [mutex EXCEPT ![buf[w]] = Nobody] /\ pc' = [pc EXCEPT ![w] = "drop"]
      /\ UNCHANGED <<sent, arrived, taken, dropped, hangup, answers, fdOf, ready, events, tasks, pool,
                     buffer, ran, fd, buf, sock, call, last>>
  BY DEF ReadNothing, Unlock, Goto, clientVars, readVars, epollVars
<1>4. pc'[w] = "drop" /\ OthersStay(w)
  BY <1>2, <1>3 DEF TypeInv, WorkerTypes, MutexTypes, OthersStay
<1>5. Looking(w)'
  BY <1>4 DEF Looking
<1>6. Conversation'
  BY <1>3, ConversationFrame DEF SInv
<1> QED BY <1>1, <1>2, <1>3, <1>4, <1>5, <1>6, LookKeeps

LEMMA DropWatchKeeps == ASSUME TypeInv, SInv, NEW w \in Workers, DropWatch(w) PROVE SInv'
<1>1. Looking(w) /\ pc[w] = "drop"
  BY DEF DropWatch, At, Looking
<1>2. ~last[w] /\ \A v \in Workers : Serving(v) => fd[v] # fd[w]
  BY <1>1, LookingIs
<1>3. /\ ready' = ready \ {fd[w]} /\ pc' = [pc EXCEPT ![w] = "dropLookup"]
      /\ UNCHANGED <<sent, arrived, taken, dropped, hangup, answers, fdOf, events, tasks, pool,
                     buffer, mutex, ran, fd, buf, sock, call, last>>
  BY DEF DropWatch, Goto, clientVars, readVars, epollVars
<1>4. pc'[w] = "dropLookup" /\ OthersStay(w)
  BY <1>3 DEF TypeInv, WorkerTypes, OthersStay
<1>5. Looking(w)'
  BY <1>4 DEF Looking
<1>6. Conversation'
  BY <1>3, ConversationFrame DEF SInv
<1> QED BY <1>1, <1>2, <1>3, <1>4, <1>5, <1>6, LookKeeps

\* The buffer is there and it is empty.
LEMMA DropLookupKeeps == ASSUME TypeInv, SInv, NEW w \in Workers, DropLookup(w) PROVE SInv'
<1>1. Looking(w) /\ pc[w] = "dropLookup"
  BY DEF DropLookup, At, Looking
<1>2. /\ \A v \in Workers : Serving(v) => fd[v] # fd[w]
      /\ pool[fd[w]] \in Clients /\ buffer[pool[fd[w]]] = << >>
  BY <1>1, LookingIs
<1>3. /\ last' = [last EXCEPT ![w] = FALSE] /\ pc' = [pc EXCEPT ![w] = "eraseEmpty"]
      /\ buf' = [buf EXCEPT ![w] = pool[fd[w]]]
      /\ UNCHANGED <<sent, arrived, taken, dropped, hangup, answers, fdOf, ready, events, tasks, pool,
                     buffer, mutex, ran, fd, sock, call>>
  BY <1>2 DEF DropLookup, Goto, clientVars, readVars, epollVars
<1>4. pc'[w] = "eraseEmpty" /\ ~last'[w] /\ OthersStay(w)
  BY <1>3 DEF TypeInv, WorkerTypes, OthersStay
<1>5. Looking(w)'
  BY <1>4 DEF Looking
<1>6. Conversation'
  BY <1>3, ConversationFrame DEF SInv
<1> QED BY <1>1, <1>2, <1>3, <1>4, <1>5, <1>6, LookKeeps

\* A read gets the call the client waits for.
LEMMA ReadingIs ==
  ASSUME TypeInv, SInv, NEW w \in Workers, pc[w] = "read", sock[w] # Nobody, Incoming(w) # << >>
  PROVE  /\ buf[w] \in Clients /\ sock[w] = buf[w] /\ buffer[buf[w]] = << >> /\ dropped[buf[w]] = {}
         /\ sent[buf[w]] = Answered(buf[w]) + 1 /\ arrived[buf[w]] = Stream(sent[buf[w]])
         /\ Len(ran[buf[w]]) = Answered(buf[w]) /\ ~hangup[buf[w]]
         /\ Incoming(w) = CallUnits(buf[w], sent[buf[w]]) /\ Len(Incoming(w)) = MsgSize
         /\ Incoming(w) \in Seq(Units) /\ taken[buf[w]] + Len(Incoming(w)) = arrived[buf[w]]
<1> DEFINE c == buf[w]
<1>1. c \in Clients /\ sock[w] = c
  BY LookingIs DEF Looking
<1> HIDE DEF c
<1>2. /\ Incoming(w) \in Seq(Units) /\ taken[c] + Len(Incoming(w)) <= arrived[c]
      /\ Len(Incoming(w)) = Least(arrived[c] - taken[c], Capacity)
  BY <1>1, IncomingIs
<1>3. arrived[c] > taken[c]
  <2>1. arrived[c] \in Nat /\ taken[c] \in Nat /\ taken[c] <= arrived[c]
    BY <1>1, CallsAre
  <2>2. Len(Incoming(w)) # 0
    BY <1>2
  <2> QED BY <1>2, <2>1, <2>2
<1>4. /\ ~InService(c) /\ sent[c] = Answered(c) + 1 /\ arrived[c] = Stream(sent[c])
      /\ taken[c] = Stream(Answered(c)) /\ ~hangup[c]
      /\ buffer[c] = << >> /\ Len(ran[c]) = Answered(c) /\ dropped[c] = {}
  BY <1>1, <1>3, TalkIs DEF SInv
<1>5. sent[c] - 1 = Answered(c) /\ arrived[c] - taken[c] = MsgSize
  <2>1. /\ Stream(Answered(c) + 1) = Stream(Answered(c)) + MsgSize
        /\ Stream(Answered(c)) \in Nat /\ Answered(c) \in Nat /\ MsgSize \in Nat
    BY <1>1, CallsAre
  <2> QED BY <1>4, <2>1
<1>6. MsgSize \in Nat /\ Capacity \in Nat /\ MsgSize <= Capacity
  BY StreamIs, SizeAssumption
<1>7. Len(Incoming(w)) = MsgSize /\ Min({MsgSize, Capacity}) = MsgSize
  BY <1>2, <1>5, <1>6, MinIs DEF Least
<1>8. Incoming(w) = CallUnits(c, sent[c])
  BY <1>1, <1>4, <1>5, <1>7 DEF Incoming, CallUnits
<1>9. taken[c] + Len(Incoming(w)) = arrived[c]
  <2>1. arrived[c] \in Nat /\ taken[c] \in Nat
    BY <1>1, CallsAre
  <2> QED BY <1>5, <1>6, <1>7, <2>1
<1> QED BY <1>1, <1>2, <1>4, <1>7, <1>8, <1>9 DEF c

\* What is read finds the buffer empty, and room.
LEMMA AlwaysRoom == ASSUME TypeInv, SInv, NEW w \in Workers PROVE ~ReadNoRoom(w)
<1> SUFFICES ASSUME ReadNoRoom(w) PROVE FALSE
  OBVIOUS
<1>1. buffer[buf[w]] = << >> /\ Len(Incoming(w)) = MsgSize
  BY ReadingIs DEF ReadNoRoom, At
<1>2. Len(buffer[buf[w]]) + Len(Incoming(w)) > Capacity
  BY DEF ReadNoRoom
<1> QED BY <1>1, <1>2, StreamIs, SizeAssumption

\* A worker takes an edge out of the queue of tasks.
LEMMA TaskStartKeeps == ASSUME TypeInv, SInv, NEW w \in Workers, TaskStart(w) PROVE SInv'
<1> DEFINE f == Head(tasks)
<1>1. /\ pc[w] = "idle" /\ tasks # << >> /\ tasks' = Tail(tasks)
      /\ fd' = [fd EXCEPT ![w] = f] /\ pc' = [pc EXCEPT ![w] = "lookup"]
      /\ UNCHANGED <<sent, arrived, taken, dropped, hangup, answers, fdOf, ready, events, pool,
                     buffer, mutex, ran, buf, sock, call, last>>
  BY DEF TaskStart, At, Goto, clientVars, readVars, epollVars
<1>2. f \in Fds /\ Elems(tasks) = {f} \cup Elems(tasks') /\ NoDup(tasks') /\ f \notin Elems(tasks')
  BY <1>1, TailIs DEF SInv, Edges, TypeInv, EpollTypes
<1> HIDE DEF f
<1>3. Elems(events)' = Elems(events) /\ Elems(tasks)' = Elems(tasks')
      /\ NoDup(events)' = NoDup(events) /\ NoDup(tasks)' = NoDup(tasks')
  BY <1>1 DEF Elems, NoDup
<1>4. f \in Reported /\ f \notin Reported' /\ Reported' \subseteq Reported
  BY <1>1, <1>2, <1>3 DEF Reported, SInv, Edges
<1>5. Sound(f) /\ \A v \in Workers : Carrying(v) => fd[v] # f
  BY <1>4 DEF SInv, Edges, Carriers
<1>6. /\ pc'[w] = "lookup" /\ fd'[w] = f /\ OthersStay(w)
      /\ \A d \in Clients : Owed(d)' = Owed(d) /\ Answered(d)' = Answered(d)
      /\ \A g \in Fds : Sound(g)' = Sound(g)
  BY <1>1 DEF TypeInv, WorkerTypes, OthersStay, Owed, Answered, Sound
<1>7. /\ \A v \in Workers : v # w =>
           /\ Looking(v)' = Looking(v) /\ Erasing(v)' = Erasing(v)
           /\ Carrying(v)' = Carrying(v) /\ Serving(v)' = Serving(v)
      /\ Looking(w)' /\ Carrying(w)' /\ ~Erasing(w)' /\ ~Serving(w)'
  BY <1>6, PlacesStay DEF Looking, Carrying, Erasing, Serving
<1>8. Conversation'
  BY <1>1, ConversationFrame DEF SInv
<1>9. Descriptors'
  BY <1>1, <1>6 DEF SInv, Descriptors
<1>10. Edges'
  BY <1>1, <1>2, <1>3, <1>4, <1>6, PlacesAre DEF SInv, Edges
<1>11. Carriers'
  <2>1. ASSUME NEW v \in Workers
        PROVE  /\ Carrying(v)' => /\ fd'[v] \notin Reported'
                                  /\ \A u \in Workers : u # v /\ Carrying(u)' => fd'[u] # fd'[v]
               /\ Looking(v)' => Sound(fd[v])'
    <3>1. CASE v = w
      <4>1. Sound(fd[v])'
        BY <1>1, <1>5, <1>6, <3>1 DEF Sound, Owed, Answered, Stream, MsgSize
      <4> QED BY <1>4, <1>5, <1>6, <1>7, <3>1, <4>1 DEF OthersStay
    <3>2. CASE v # w
      <4>1. Looking(v)' => Sound(fd[v])'
        BY <1>6, <1>7, <3>2, PlacesAre DEF SInv, Carriers, OthersStay
      <4>2. Carrying(v)' => fd'[v] \notin Reported'
        BY <1>4, <1>6, <1>7, <3>2 DEF SInv, Carriers, OthersStay
      <4>3. Carrying(v)' => \A u \in Workers : u # v /\ Carrying(u)' => fd'[u] # fd'[v]
        BY <1>5, <1>6, <1>7, <3>2 DEF SInv, Carriers, OthersStay
      <4> QED BY <4>1, <4>2, <4>3
    <3> QED BY <3>1, <3>2
  <2>2. ASSUME NEW v \in Workers, v # w
        PROVE  /\ Erasing(v)' => pool'[fd'[v]] \notin Clients /\ \E c \in Clients : fdOf'[c] = fd'[v]
               /\ pc'[v] \in {"lock", "read"} => buf'[v] = pool'[fd'[v]]
               /\ pc'[v] = "read" => sock'[v] = buf'[v] /\ mutex'[buf'[v]] = v
               /\ pc'[v] # "crashed" /\ ~last'[v]
    BY <1>1, <1>6, <1>7, <2>2 DEF SInv, Carriers, OthersStay
  <2>3. ~last'[w]
    BY <1>1 DEF SInv, Carriers
  <2> QED BY <1>6, <1>7, <2>1, <2>2, <2>3 DEF Carriers
<1>12. Servers'
  <2>1. ASSUME NEW v \in Workers, Serving(v), fd[v] = f PROVE pc[v] = "cut"
    BY <1>4, <1>5, <2>1 DEF SInv, Servers, Serving, Sound
  <2>2. ASSUME NEW v \in Workers, v # w, Serving(v)
        PROVE  /\ pool[fd[v]] = buf[v]
               /\ pc[v] = "serve" => buffer[buf[v]] # << >>
               /\ pc[v] \in {"cut", "write"} => mutex[buf[v]] = v
               /\ pc[v] = "write" => /\ call[v] = <<buf[v], sent[buf[v]]>> /\ fd[v] \notin Reported
                                     /\ Len(ran[buf[v]]) = Answered(buf[v]) + 1
               /\ \A u \in Workers : u # v /\ fd[u] = fd[v] =>
                    ~Serving(u) /\ (Carrying(u) => pc[v] = "cut" /\ pc[u] \in {"lookup", "lock"})
    BY <2>2 DEF SInv, Servers
  <2>3. ASSUME NEW v \in Workers, v # w, Serving(v)
        PROVE  \A u \in Workers : u # v /\ fd'[u] = fd'[v] =>
                    ~Serving(u)' /\ (Carrying(u)' => pc'[v] = "cut" /\ pc'[u] \in {"lookup", "lock"})
    BY <1>6, <1>7, <2>1, <2>2, <2>3 DEF OthersStay
  <2> QED BY <1>1, <1>4, <1>6, <1>7, <2>2, <2>3, PlacesAre DEF Servers
<1> QED BY <1>8, <1>9, <1>10, <1>11, <1>12 DEF SInv

\* The connection that worker w takes down.
LEMMA ErasingIs ==
  ASSUME TypeInv, SInv, NEW w \in Workers, Erasing(w) \/ pc[w] = "eraseEmpty"
  PROVE  /\ fd[w] \in Fds /\ fd[w] \notin Reported /\ ~last[w]
         /\ \A v \in Workers : v # w /\ Carrying(v) => fd[v] # fd[w]
         /\ \A v \in Workers : Serving(v) => fd[v] # fd[w]
         /\ \E c \in Clients : fdOf[c] = fd[w] /\ Owed(c)
<1>1. CASE pc[w] = "eraseEmpty"
  <2>1. Looking(w)
    BY <1>1 DEF Looking
  <2> QED BY <1>1, <2>1, LookingIs
<1>2. CASE Erasing(w)
  <2>1. fd[w] \in Fds /\ Carrying(w) /\ ~Serving(w)
    BY <1>2, PlacesAre DEF Carrying
  <2>2. /\ fd[w] \notin Reported /\ \A v \in Workers : v # w /\ Carrying(v) => fd[v] # fd[w]
        /\ pool[fd[w]] \notin Clients /\ ~last[w]
    BY <1>2, <2>1 DEF SInv, Carriers
  <2>3. PICK c \in Clients : fdOf[c] = fd[w]
    BY <1>2 DEF SInv, Carriers
  <2>4. Owed(c)
    BY <2>1, <2>2, <2>3 DEF SInv, Descriptors
  <2>5. \A v \in Workers : Serving(v) => fd[v] # fd[w]
    BY <2>2, PlacesAre DEF SInv, Servers
  <2> QED BY <2>1, <2>2, <2>3, <2>4, <2>5
<1> QED BY <1>1, <1>2

LEMMA EraseKeeps == ASSUME TypeInv, SInv, NEW w \in Workers, Erase(w) PROVE SInv'
<1>1. PICK f : f = fd[w]
  OBVIOUS
<1>2. Erasing(w) \/ pc[w] = "eraseEmpty"
  BY DEF Erase, At, Erasing
<1>3. /\ f \in Fds /\ f \notin Reported /\ ~last[w]
      /\ \A v \in Workers : v # w /\ Carrying(v) => fd[v] # f
      /\ \A v \in Workers : Serving(v) => fd[v] # f
  BY <1>1, <1>2, ErasingIs
<1>4. PICK c \in Clients : fdOf[c] = f /\ Owed(c)
  BY <1>1, <1>2, ErasingIs
<1>5. PICK next \in {"erase", "close"} : pc' = [pc EXCEPT ![w] = next]
  BY DEF Erase, Goto
<1>6. /\ pool' = [pool EXCEPT ![f] = "absent"]
      /\ UNCHANGED <<sent, arrived, taken, dropped, hangup, answers, fdOf, ready, events, tasks,
                     buffer, mutex, ran, fd, buf, sock, call, last>>
  BY <1>1 DEF Erase, clientVars, readVars, epollVars
<1>7. /\ OthersStay(w) /\ pc'[w] \in {"erase", "close"}
      /\ \A d \in Clients : Owed(d)' = Owed(d) /\ Answered(d)' = Answered(d)
      /\ pool'[f] = "absent" /\ \A g \in Fds : g # f => pool'[g] = pool[g]
  BY <1>3, <1>5, <1>6 DEF TypeInv, WorkerTypes, EpollTypes, OthersStay, Owed, Answered
<1>8. /\ \A g \in Fds : g # f => Sound(g)' = Sound(g)
      /\ Elems(events)' = Elems(events) /\ Elems(tasks)' = Elems(tasks)
      /\ NoDup(events)' = NoDup(events) /\ NoDup(tasks)' = NoDup(tasks)
      /\ Reported' = Reported
  BY <1>6, <1>7 DEF Sound, Elems, NoDup, Reported
<1>9. /\ \A v \in Workers : v # w =>
           /\ Looking(v)' = Looking(v) /\ Erasing(v)' = Erasing(v)
           /\ Carrying(v)' = Carrying(v) /\ Serving(v)' = Serving(v)
      /\ ~Looking(w)' /\ Carrying(w)' /\ Erasing(w)' /\ ~Serving(w)'
  BY <1>7, PlacesStay DEF Looking, Carrying, Erasing, Serving
<1>10. Conversation'
  BY <1>6, ConversationFrame DEF SInv
<1>11. Descriptors'
  <2>1. "absent" \notin Clients /\ "absent" # "null"
    BY BufferAssumption
  <2>2. \A d \in Clients : fdOf[d] = f => d = c
    BY <1>3, <1>4 DEF SInv, Descriptors
  <2>3. \A g \in Fds : pool'[g] # "null" /\ (pool'[g] \in Clients => fdOf'[pool'[g]] = g)
    BY <1>6, <1>7, <2>1 DEF SInv, Descriptors
  <2>4. \A d \in Clients : fdOf'[d] \in Fds => pool'[fdOf'[d]] = d \/ Owed(d)'
    BY <1>4, <1>6, <1>7, <2>2 DEF SInv, Descriptors
  <2> QED BY <1>6, <2>3, <2>4 DEF SInv, Descriptors
<1>12. Edges'
  BY <1>3, <1>6, <1>8, PlacesAre DEF SInv, Edges
<1>13. Carriers'
  <2>1. pool'[fd'[w]] \notin Clients /\ \E d \in Clients : fdOf'[d] = fd'[w]
    BY <1>1, <1>4, <1>6, <1>7, BufferAssumption
  <2>2. ASSUME NEW v \in Workers
        PROVE  Carrying(v)' => /\ fd'[v] \notin Reported'
                               /\ \A u \in Workers : u # v /\ Carrying(u)' => fd'[u] # fd'[v]
    <3>1. CASE v = w
      BY <1>1, <1>3, <1>6, <1>8, <1>9, <3>1
    <3>2. CASE v # w
      BY <1>1, <1>3, <1>6, <1>8, <1>9, <3>2 DEF SInv, Carriers
    <3> QED BY <3>1, <3>2
  <2>3. ASSUME NEW v \in Workers, v # w
        PROVE  /\ Looking(v)' => Sound(fd[v])'
               /\ Erasing(v)' => pool'[fd'[v]] \notin Clients /\ \E d \in Clients : fdOf'[d] = fd'[v]
               /\ pc'[v] \in {"lock", "read"} => buf'[v] = pool'[fd'[v]]
               /\ pc'[v] = "read" => sock'[v] = buf'[v] /\ mutex'[buf'[v]] = v
               /\ pc'[v] # "crashed" /\ ~last'[v]
    <3>1. Carrying(v) => fd[v] \in Fds /\ fd[v] # f /\ pool'[fd[v]] = pool[fd[v]]
      BY <1>3, <1>7, <2>3, PlacesAre
    <3>2. Looking(v) => Sound(fd[v]) /\ fd'[v] = fd[v]
      BY <1>6, <2>3 DEF SInv, Carriers
    <3>3. Looking(v)' => Sound(fd[v])'
      BY <1>6, <1>8, <1>9, <2>3, <3>1, <3>2 DEF Carrying
    <3>4. pc[v] \in {"lock", "read"} => Carrying(v)
      BY DEF Carrying, Looking
    <3>5. Erasing(v) => Carrying(v)
      BY DEF Carrying
    <3> QED BY <1>6, <1>7, <1>9, <2>3, <3>1, <3>3, <3>4, <3>5 DEF SInv, Carriers, OthersStay
  <2>4. ~last'[w] /\ pc'[w] \notin {"lock", "read", "crashed"}
    BY <1>3, <1>6, <1>7
  <2> QED BY <1>9, <2>1, <2>2, <2>3, <2>4 DEF Carriers
<1>14. Servers'
  <2>1. ASSUME NEW v \in Workers, v # w, Serving(v)
        PROVE  /\ fd[v] # f /\ fd[v] \in Fds /\ pool'[fd[v]] = buf[v]
               /\ pc[v] = "serve" => buffer[buf[v]] # << >>
               /\ pc[v] \in {"cut", "write"} => mutex[buf[v]] = v
               /\ pc[v] = "write" => /\ call[v] = <<buf[v], sent[buf[v]]>> /\ fd[v] \notin Reported
                                     /\ Len(ran[buf[v]]) = Answered(buf[v]) + 1
               /\ \A u \in Workers : u # v /\ fd[u] = fd[v] =>
                    ~Serving(u) /\ (Carrying(u) => pc[v] = "cut" /\ pc[u] \in {"lookup", "lock"})
    BY <1>3, <1>7, <2>1, PlacesAre DEF SInv, Servers
  <2>2. ASSUME NEW v \in Workers, v # w, Serving(v)
        PROVE  \A u \in Workers : u # v /\ fd'[u] = fd'[v] =>
                    ~Serving(u)' /\ (Carrying(u)' => pc'[v] = "cut" /\ pc'[u] \in {"lookup", "lock"})
    BY <1>1, <1>6, <1>7, <1>9, <2>1, <2>2 DEF OthersStay
  <2> QED BY <1>6, <1>7, <1>8, <1>9, <2>1, <2>2, PlacesAre DEF Servers, OthersStay
<1> QED BY <1>10, <1>11, <1>12, <1>13, <1>14 DEF SInv

LEMMA CloseKeeps == ASSUME TypeInv, SInv, NEW w \in Workers, Close(w) PROVE SInv'
<1>1. PICK f : f = fd[w]
  OBVIOUS
<1>2. Erasing(w) /\ pool[f] \notin Clients
  BY <1>1 DEF Close, At, Erasing, SInv, Carriers
<1>3. /\ f \in Fds /\ f \notin Reported /\ ~last[w]
      /\ \A v \in Workers : v # w /\ Carrying(v) => fd[v] # f
      /\ \A v \in Workers : Serving(v) => fd[v] # f
  BY <1>1, <1>2, ErasingIs
<1>4. SocketAt(f) # Nobody
  BY <1>1, <1>2, <1>3, ErasingIs, SocketAtIs
<1>5. PICK c \in Clients : c = SocketAt(f) /\ fdOf[c] = f
  BY <1>3, <1>4, SocketAtIs
<1>6. /\ fdOf' = [fdOf EXCEPT ![c] = Nobody] /\ ready' = ready \ {f}
      /\ pc' = [pc EXCEPT ![w] = "idle"]
      /\ last' = [last EXCEPT ![w] = FALSE]
      /\ fd' = [fd EXCEPT ![w] = Nobody] /\ buf' = [buf EXCEPT ![w] = Nobody]
      /\ sock' = [sock EXCEPT ![w] = Nobody] /\ call' = [call EXCEPT ![w] = Nobody]
      /\ UNCHANGED <<sent, arrived, taken, dropped, hangup, answers, events, tasks, pool,
                     buffer, mutex, ran>>
  BY <1>1, <1>4, <1>5 DEF Close, Finish, Goto, clientVars, readVars
<1>7. /\ OthersStay(w) /\ pc'[w] = "idle" /\ ~last'[w]
      /\ \A d \in Clients : Owed(d)' = Owed(d) /\ Answered(d)' = Answered(d)
      /\ fdOf'[c] = Nobody /\ \A d \in Clients : d # c => fdOf'[d] = fdOf[d] /\ fdOf[d] # f
  BY <1>3, <1>5, <1>6 DEF TypeInv, WorkerTypes, ClientTypes, OthersStay, Owed, Answered, SInv, Descriptors
<1>8. /\ \A g \in Fds : Sound(g)' = Sound(g)
      /\ Elems(events)' = Elems(events) /\ Elems(tasks)' = Elems(tasks)
      /\ NoDup(events)' = NoDup(events) /\ NoDup(tasks)' = NoDup(tasks)
  BY <1>6, <1>7 DEF Sound, Elems, NoDup
<1>9. Reported' \subseteq Reported
  BY <1>6, <1>8 DEF Reported
<1>10. /\ \A v \in Workers : v # w =>
            /\ Looking(v)' = Looking(v) /\ Erasing(v)' = Erasing(v)
            /\ Carrying(v)' = Carrying(v) /\ Serving(v)' = Serving(v)
       /\ ~Looking(w)' /\ ~Carrying(w)' /\ ~Erasing(w)' /\ ~Serving(w)'
  BY <1>7, PlacesStay DEF Looking, Carrying, Erasing, Serving
<1>11. Conversation'
  BY <1>6, ConversationFrame DEF SInv
<1>12. Descriptors'
  <2>1. \A g \in Fds : pool[g] # c
    BY <1>2, <1>5 DEF SInv, Descriptors
  <2>2. \A g \in Fds : pool'[g] # "null" /\ (pool'[g] \in Clients => fdOf'[pool'[g]] = g)
    BY <1>6, <1>7, <2>1 DEF SInv, Descriptors
  <2>3. \A d \in Clients : fdOf'[d] \in Fds => pool'[fdOf'[d]] = d \/ Owed(d)'
    BY <1>6, <1>7, NobodyAssumption DEF SInv, Descriptors
  <2>4. \A d, e \in Clients : fdOf'[d] \in Fds /\ fdOf'[d] = fdOf'[e] => d = e
    BY <1>7, NobodyAssumption DEF SInv, Descriptors
  <2> QED BY <2>2, <2>3, <2>4 DEF Descriptors
<1>13. Edges'
  BY <1>6, <1>8, <1>9, PlacesAre DEF SInv, Edges
<1>14. Carriers'
  <2>1. ASSUME NEW v \in Workers, v # w
        PROVE  /\ Carrying(v)' => /\ fd'[v] \notin Reported'
                                  /\ \A u \in Workers : u # v /\ Carrying(u)' => fd'[u] # fd'[v]
               /\ Looking(v)' => Sound(fd[v])'
               /\ Erasing(v)' => pool'[fd'[v]] \notin Clients /\ \E d \in Clients : fdOf'[d] = fd'[v]
               /\ pc'[v] \in {"lock", "read"} => buf'[v] = pool'[fd'[v]]
               /\ pc'[v] = "read" => sock'[v] = buf'[v] /\ mutex'[buf'[v]] = v
               /\ pc'[v] # "crashed" /\ ~last'[v]
    <3>1. Looking(v) => Sound(fd[v]) /\ fd'[v] = fd[v] /\ fd[v] \in Fds
      BY <1>7, <2>1, PlacesAre DEF SInv, Carriers, OthersStay
    <3>2. Looking(v)' => Sound(fd[v])'
      BY <1>7, <1>8, <1>10, <2>1, <3>1 DEF OthersStay
    <3>3. ASSUME Erasing(v) PROVE pool[fd[v]] \notin Clients /\ \E d \in Clients : fdOf'[d] = fd[v]
      <4>1. PICK d \in Clients : fdOf[d] = fd[v]
        BY <3>3 DEF SInv, Carriers
      <4>2. d # c
        BY <1>3, <1>5, <2>1, <3>3, <4>1 DEF Carrying
      <4> QED BY <1>7, <3>3, <4>1, <4>2 DEF SInv, Carriers
    <3>4. Carrying(v)' => /\ fd'[v] \notin Reported'
                          /\ \A u \in Workers : u # v /\ Carrying(u)' => fd'[u] # fd'[v]
      BY <1>7, <1>9, <1>10, <2>1 DEF SInv, Carriers, OthersStay
    <3> QED BY <1>6, <1>7, <1>10, <2>1, <3>2, <3>3, <3>4 DEF SInv, Carriers, OthersStay
  <2> QED BY <1>7, <1>10, <2>1 DEF Carriers
<1>15. Servers'
  <2>1. ASSUME NEW v \in Workers, v # w, Serving(v)
        PROVE  /\ pool[fd[v]] = buf[v]
               /\ pc[v] = "serve" => buffer[buf[v]] # << >>
               /\ pc[v] \in {"cut", "write"} => mutex[buf[v]] = v
               /\ pc[v] = "write" => /\ call[v] = <<buf[v], sent[buf[v]]>> /\ fd[v] \notin Reported
                                     /\ Len(ran[buf[v]]) = Answered(buf[v]) + 1
               /\ \A u \in Workers : u # v /\ fd[u] = fd[v] =>
                    ~Serving(u) /\ (Carrying(u) => pc[v] = "cut" /\ pc[u] \in {"lookup", "lock"})
    BY <2>1 DEF SInv, Servers
  <2>2. ASSUME NEW v \in Workers, v # w, Serving(v)
        PROVE  \A u \in Workers : u # v /\ fd'[u] = fd'[v] =>
                    ~Serving(u)' /\ (Carrying(u)' => pc'[v] = "cut" /\ pc'[u] \in {"lookup", "lock"})
    BY <1>7, <1>10, <2>1, <2>2 DEF OthersStay
  <2> QED BY <1>6, <1>7, <1>9, <1>10, <2>1, <2>2, PlacesAre DEF Servers, OthersStay
<1> QED BY <1>11, <1>12, <1>13, <1>14, <1>15 DEF SInv

\* A call is stored, and the worker goes on to serve the buffer.
LEMMA ReadStoreKeeps == ASSUME TypeInv, SInv, NEW w \in Workers, ReadStore(w) PROVE SInv'
<1>0. PICK c, f : c = buf[w] /\ f = fd[w]
  OBVIOUS
<1>1. Looking(w) /\ pc[w] = "read" /\ Carrying(w)
  BY DEF ReadStore, At, Looking, Carrying
<1>2. /\ ~last[w] /\ mutex[c] = w /\ f \in Fds /\ c = pool[f] /\ f \notin Reported
      /\ \A v \in Workers : v # w /\ Carrying(v) => fd[v] # f
      /\ \A v \in Workers : Serving(v) => fd[v] # f
  BY <1>0, <1>1, LookingIs
<1>3. /\ c \in Clients /\ sock[w] = c /\ buffer[c] = << >> /\ dropped[c] = {}
      /\ sent[c] = Answered(c) + 1 /\ arrived[c] = Stream(sent[c]) /\ Len(ran[c]) = Answered(c) /\ ~hangup[c]
      /\ Incoming(w) = CallUnits(c, sent[c]) /\ Len(Incoming(w)) = MsgSize
      /\ Incoming(w) \in Seq(Units) /\ MsgSize >= 3 /\ MsgSize \in Nat
      /\ taken[c] + Len(Incoming(w)) = arrived[c]
  BY <1>0, <1>1, ReadingIs, StreamIs DEF ReadStore
<1>4. PICK s : s = CallUnits(c, sent[c])
  OBVIOUS
<1>5. << >> \o s = s /\ s # << >>
  BY <1>3, <1>4
<1>6. buffer' = [buffer EXCEPT ![c] = s]
  BY <1>0, <1>3, <1>4, <1>5 DEF ReadStore
<1>7. /\ mutex' = [mutex EXCEPT ![c] = Nobody] /\ pc' = [pc EXCEPT ![w] = "serve"]
      /\ taken' = [taken EXCEPT ![c] = arrived[c]]
      /\ UNCHANGED <<sent, arrived, dropped, hangup, answers, fdOf, ready, events, tasks, pool,
                     ran, fd, buf, sock, call, last>>
  <2>1. taken' = [taken EXCEPT ![c] = @ + Len(Incoming(w))]
    BY <1>3 DEF ReadStore, Consume
  <2>2. taken' = [taken EXCEPT ![c] = arrived[c]]
    BY <1>3, <2>1
  <2> QED BY <1>0, <1>3, <2>2 DEF ReadStore, Unlock, Goto, clientVars, epollVars
<1>8. /\ OthersStay(w) /\ pc'[w] = "serve"
      /\ \A d \in Clients : Owed(d)' = Owed(d) /\ Answered(d)' = Answered(d)
      /\ \A d \in Clients : d # c => taken'[d] = taken[d] /\ buffer'[d] = buffer[d]
      /\ taken'[c] = Stream(sent[c]) /\ buffer'[c] = s
  BY <1>0, <1>2, <1>3, <1>6, <1>7
     DEF TypeInv, WorkerTypes, MutexTypes, ClientTypes, ServedTypes, OthersStay, Owed, Answered
<1>9. /\ \A v \in Workers : v # w =>
           /\ Looking(v)' = Looking(v) /\ Erasing(v)' = Erasing(v)
           /\ Carrying(v)' = Carrying(v) /\ Serving(v)' = Serving(v)
      /\ ~Looking(w)' /\ ~Carrying(w)' /\ ~Erasing(w)' /\ Serving(w)'
  BY <1>8, PlacesStay DEF Looking, Carrying, Erasing, Serving
<1>10. /\ \A g \in Fds : g # f /\ Sound(g) => Sound(g)'
       /\ Elems(events)' = Elems(events) /\ Elems(tasks)' = Elems(tasks)
       /\ NoDup(events)' = NoDup(events) /\ NoDup(tasks)' = NoDup(tasks)
       /\ Reported' = Reported
  <2>1. \A g \in Fds : g # f => pool[g] # c
    BY <1>2, <1>3 DEF SInv, Descriptors
  <2> QED BY <1>7, <1>8, <2>1 DEF Sound, Elems, NoDup, Reported
<1>11. Conversation'
  <2>1. InService(c)' /\ \A d \in Clients : d # c => (InService(d)' <=> InService(d))
    BY <1>3, <1>7, <1>8 DEF InService
  <2>2. Talk(c)'
    BY <1>3, <1>4, <1>7, <1>8, <2>1 DEF SInv, Conversation, Talk
  <2>3. \A d \in Clients : d # c => Talk(d)'
    BY <1>7, <1>8, <2>1 DEF SInv, Conversation, Talk
  <2> QED BY <2>2, <2>3 DEF Conversation
<1>12. Descriptors'
  BY <1>7, <1>8 DEF SInv, Descriptors
<1>13. Edges'
  BY <1>2, <1>7, <1>10, PlacesAre DEF SInv, Edges
<1>14. Carriers'
  <2>1. ASSUME NEW v \in Workers, v # w
        PROVE  /\ Carrying(v)' => /\ fd'[v] \notin Reported'
                                  /\ \A u \in Workers : u # v /\ Carrying(u)' => fd'[u] # fd'[v]
               /\ Looking(v)' => Sound(fd[v])'
               /\ Erasing(v)' => pool'[fd'[v]] \notin Clients /\ \E d \in Clients : fdOf'[d] = fd'[v]
               /\ pc'[v] \in {"lock", "read"} => buf'[v] = pool'[fd'[v]]
               /\ pc'[v] = "read" => sock'[v] = buf'[v] /\ mutex'[buf'[v]] = v
               /\ pc'[v] # "crashed" /\ ~last'[v]
    <3>1. Looking(v) => Sound(fd[v]) /\ fd'[v] = fd[v] /\ fd[v] \in Fds /\ fd[v] # f
      BY <1>2, <1>8, <2>1, PlacesAre DEF SInv, Carriers, OthersStay, Carrying
    <3>2. Looking(v)' => Sound(fd[v])'
      BY <1>7, <1>9, <1>10, <2>1, <3>1 DEF OthersStay
    <3>3. Carrying(v)' => /\ fd'[v] \notin Reported'
                          /\ \A u \in Workers : u # v /\ Carrying(u)' => fd'[u] # fd'[v]
      BY <1>7, <1>9, <1>10, <2>1 DEF SInv, Carriers
    <3>4. pc'[v] = "read" => sock'[v] = buf'[v] /\ mutex'[buf'[v]] = v
      <4>1. ASSUME pc[v] = "read" PROVE sock[v] = buf[v] /\ mutex[buf[v]] = v /\ buf[v] \in Clients
        BY <4>1, PlacesAre DEF SInv, Carriers
      <4> QED BY <1>8, <2>1, <4>1 DEF OthersStay
    <3> QED BY <1>7, <1>8, <1>9, <2>1, <3>2, <3>3, <3>4 DEF SInv, Carriers, OthersStay
  <2> QED BY <1>2, <1>7, <1>8, <1>9, <2>1 DEF Carriers
<1>15. Servers'
  <2>1. ASSUME NEW v \in Workers, v # w, Serving(v)
        PROVE  /\ pool[fd[v]] = buf[v] /\ buf[v] \in Clients /\ fd[v] # f /\ buf[v] # c
               /\ pc[v] = "serve" => buffer'[buf[v]] # << >>
               /\ pc[v] \in {"cut", "write"} => mutex'[buf[v]] = v
               /\ pc[v] = "write" => /\ call[v] = <<buf[v], sent[buf[v]]>> /\ fd[v] \notin Reported
                                     /\ Len(ran[buf[v]]) = Answered(buf[v]) + 1
               /\ \A u \in Workers : u # v /\ fd[u] = fd[v] =>
                    ~Serving(u) /\ (Carrying(u) => pc[v] = "cut" /\ pc[u] \in {"lookup", "lock"})
    <3>1. fd[v] \in Fds /\ fd[v] # f /\ buf[v] \in Clients /\ pool[fd[v]] = buf[v]
      BY <1>2, <2>1, PlacesAre DEF SInv, Servers
    <3>2. buf[v] # c
      BY <1>2, <1>3, <3>1 DEF SInv, Descriptors
    <3>3. pc[v] \in {"cut", "write"} => mutex'[buf[v]] = v
      BY <1>8, <2>1, <3>1 DEF SInv, Servers, OthersStay
    <3> QED BY <1>8, <2>1, <3>1, <3>2, <3>3 DEF SInv, Servers
  <2>2. ASSUME NEW v \in Workers, v # w, Serving(v)
        PROVE  \A u \in Workers : u # v /\ fd'[u] = fd'[v] =>
                    ~Serving(u)' /\ (Carrying(u)' => pc'[v] = "cut" /\ pc'[u] \in {"lookup", "lock"})
    BY <1>0, <1>7, <1>8, <1>9, <2>1, <2>2 DEF OthersStay
  <2>3. \A u \in Workers : u # w /\ fd'[u] = fd'[w] => ~Serving(u)' /\ ~Carrying(u)'
    BY <1>0, <1>2, <1>7, <1>9
  <2>4. pool'[fd'[w]] = buf'[w] /\ buffer'[buf'[w]] # << >>
    BY <1>0, <1>2, <1>5, <1>7, <1>8
  <2>5. ASSUME NEW v \in Workers, v # w, Serving(v)'
        PROVE  /\ pool'[fd'[v]] = buf'[v]
               /\ pc'[v] = "serve" => buffer'[buf'[v]] # << >>
               /\ pc'[v] \in {"cut", "write"} => mutex'[buf'[v]] = v
               /\ pc'[v] = "write" => /\ call'[v] = <<buf'[v], sent'[buf'[v]]>> /\ fd'[v] \notin Reported'
                                      /\ Len(ran'[buf'[v]]) = Answered(buf[v])' + 1
    BY <1>7, <1>8, <1>9, <1>10, <2>1, <2>5 DEF OthersStay
  <2> QED BY <1>8, <1>9, <2>2, <2>3, <2>4, <2>5 DEF Servers
<1> QED BY <1>11, <1>12, <1>13, <1>14, <1>15 DEF SInv

\* The units of call k.
LEMMA UnitOf ==
  ASSUME NEW k \in Nat \ {0}, NEW r \in Nat, r < MsgSize, NEW u, u.at = Stream(k - 1) + r + 1
  PROVE  CallOf(u) = k
<1>1. MsgSize \in Nat \ {0} /\ MsgSize >= 3 /\ Stream(k - 1) \in Nat /\ k - 1 \in Nat
  BY StreamIs
<1> DEFINE n == u.at - 1
           q == n \div MsgSize
<1>2. n \in Nat /\ n = Stream(k - 1) + r /\ q \in Nat /\ n = MsgSize * q + (n % MsgSize)
  <2>1. n \in Nat /\ n = Stream(k - 1) + r
    BY <1>1
  <2>2. ASSUME NEW M \in Nat \ {0}, NEW m \in Nat PROVE m \div M \in Nat /\ m = M * (m \div M) + (m % M)
    OBVIOUS
  <2> QED BY <1>1, <2>1, <2>2
<1>3. n % MsgSize = r
  BY <1>1, <1>2, StreamRemainder
<1> HIDE DEF n, q
<1>4. Stream(q) = Stream(k - 1) /\ Stream(q) \in Nat
  <2>1. Stream(q) = MsgSize * q /\ Stream(q) \in Nat
    BY <1>1, <1>2, StreamIs DEF Stream
  <2>2. n = Stream(q) + r
    BY <1>2, <1>3, <2>1
  <2> QED BY <1>1, <1>2, <2>1, <2>2
<1>5. q = k - 1
  <2>1. CASE q >= k
    <3>1. Stream(k) <= Stream(q) /\ Stream(k - 1 + 1) = Stream(k - 1) + MsgSize
      BY <1>1, <1>2, <2>1, StreamIs, StreamNext
    <3> QED BY <1>1, <1>4, <3>1
  <2>2. CASE q < k - 1
    <3>1. q + 1 \in Nat /\ q + 1 <= k - 1
      BY <1>1, <1>2, <2>2
    <3>2. Stream(q + 1) <= Stream(k - 1)
      BY <1>1, <3>1, StreamIs
    <3>3. Stream(q + 1) = Stream(q) + MsgSize
      BY <1>2, StreamNext
    <3> QED BY <1>1, <1>4, <3>2, <3>3
  <2> QED BY <1>2, <2>1, <2>2
<1>6. CallOf(u) = q + 1
  BY DEF CallOf, q, n
<1> QED BY <1>5, <1>6

LEMMA FirstUnit ==
  ASSUME NEW k \in Nat \ {0}, NEW u, u.at = Stream(k - 1) + 1
  PROVE  u.at % MsgSize = 1 /\ CallOf(u) = k
<1>1. MsgSize \in Nat /\ MsgSize >= 3 /\ Stream(k - 1) \in Nat /\ k - 1 \in Nat
  BY StreamIs
<1>2. u.at % MsgSize = 1
  BY <1>1, StreamRemainder
<1>3. u.at = Stream(k - 1) + 0 + 1
  BY <1>1
<1> QED BY <1>1, <1>2, <1>3, UnitOf

\* A worker that finds something in the buffer finds the call the client waits
\* for, and nothing else.
LEMMA CuttingIs ==
  ASSUME TypeInv, SInv, NEW w \in Workers, pc[w] = "cut", buffer[buf[w]] # << >>,
         NEW size \in Announced(w)
  PROVE  /\ CallIn(w, size) = sent[buf[w]] /\ Header(w)[1].client = buf[w]
         /\ Drop(Rest(w), size) = << >>
<1> DEFINE c == buf[w]
           b == buffer[c]
           k == sent[c]
<1>1. c \in Clients /\ b \in Seq(Units) /\ k \in Nat \ {0} /\ b = CallUnits(c, k) /\ k - 1 \in Nat
  <2>1. c \in Clients
    BY PlacesAre DEF Serving
  <2>2. b = CallUnits(c, k) /\ InService(c)
    BY <2>1 DEF SInv, Conversation, Talk
  <2>3. Answered(c) \in Nat /\ b \in Seq(Units)
    BY <2>1, CallsAre
  <2>4. k = Answered(c) + 1
    BY <2>2 DEF InService
  <2> QED BY <2>1, <2>2, <2>3, <2>4
<1>2. MsgSize \in Nat /\ MsgSize >= 3 /\ BodySize \in Nat /\ MsgSize = BodySize + 2
  BY StreamIs, SizeAssumption DEF MsgSize
<1>3. Header(w) = Take(b, 2) /\ Rest(w) = Drop(b, 2)
  BY DEF Header, Rest
<1> HIDE DEF b, c, k
<1>4. /\ Len(b) = MsgSize /\ \A i \in 1 .. MsgSize : b[i] = Unit(c, Stream(k - 1) + i)
      /\ b[1].client = c /\ b[1].at = Stream(k - 1) + 1 /\ Stream(k - 1) \in Nat
  <2>1. Len(b) = MsgSize /\ \A i \in 1 .. MsgSize : b[i] = Unit(c, Stream(k - 1) + i)
    BY <1>1, <1>2 DEF CallUnits
  <2>2. 1 \in 1 .. MsgSize
    BY <1>2
  <2>3. b[1] = Unit(c, Stream(k - 1) + 1)
    BY <2>1, <2>2
  <2> QED BY <1>1, <2>1, <2>3, StreamIs DEF Unit
<1>5. Least(2, Len(b)) = 2
  BY <1>2, <1>4 DEF Least
<1>6. /\ Len(Take(b, 2)) = 2 /\ Take(b, 2)[1] = b[1] /\ Take(b, 2)[2] = b[2]
      /\ Drop(b, 2) \in Seq(Units) /\ Len(Drop(b, 2)) = BodySize
      /\ \A i \in 1 .. BodySize : Drop(b, 2)[i] = b[2 + i]
  <2>1. \A n \in Nat :
          /\ Len(Take(b, n)) = Least(n, Len(b))
          /\ \A i \in 1 .. Least(n, Len(b)) : Take(b, n)[i] = b[i]
          /\ Drop(b, n) \in Seq(Units) /\ Len(Drop(b, n)) = Len(b) - Least(n, Len(b))
          /\ \A i \in 1 .. Len(b) - Least(n, Len(b)) : Drop(b, n)[i] = b[Least(n, Len(b)) + i]
    <3>1. b \in Seq(Units)
      BY <1>1
    <3> QED BY <3>1, TakeDropIs
  <2>2. 2 \in Nat
    OBVIOUS
  <2>3. /\ Len(Take(b, 2)) = Least(2, Len(b))
        /\ \A i \in 1 .. Least(2, Len(b)) : Take(b, 2)[i] = b[i]
        /\ Drop(b, 2) \in Seq(Units) /\ Len(Drop(b, 2)) = Len(b) - Least(2, Len(b))
        /\ \A i \in 1 .. Len(b) - Least(2, Len(b)) : Drop(b, 2)[i] = b[Least(2, Len(b)) + i]
    BY <2>1, <2>2
  <2>4. 1 \in 1 .. Least(2, Len(b)) /\ 2 \in 1 .. Least(2, Len(b))
    BY <1>5
  <2>5. Take(b, 2)[1] = b[1] /\ Take(b, 2)[2] = b[2]
    BY <2>3, <2>4
  <2>6. Len(b) - Least(2, Len(b)) = BodySize
    BY <1>2, <1>4, <1>5
  <2> QED BY <1>5, <2>3, <2>5, <2>6
<1>7. Header(w)[1].at % MsgSize = 1 /\ CallOf(Header(w)[1]) = k /\ Header(w)[1].client = c
  BY <1>1, <1>3, <1>4, <1>6, FirstUnit
<1>8. IsHeader(w) /\ size = BodySize
  <2>1. 2 \in 1 .. MsgSize
    BY <1>2
  <2>2. b[2] = Unit(c, Stream(k - 1) + 2) /\ Stream(k - 1) + 1 + 1 = Stream(k - 1) + 2
    BY <1>4, <2>1
  <2>3. Header(w)[2] = Unit(Header(w)[1].client, Header(w)[1].at + 1)
    BY <1>3, <1>4, <1>6, <2>2
  <2> QED BY <1>3, <1>6, <1>7, <2>3 DEF IsHeader, Announced
<1>9. CallIn(w, size) = k
  <2>1. ASSUME NEW i \in 1 .. BodySize PROVE Rest(w)[i] = Unit(Header(w)[1].client, Header(w)[1].at + 1 + i)
    <3>1. 2 + i \in 1 .. MsgSize /\ Stream(k - 1) + (2 + i) = Stream(k - 1) + 1 + 1 + i
      BY <1>2, <1>4
    <3>2. Rest(w)[i] = Unit(c, Stream(k - 1) + (2 + i))
      BY <1>3, <1>4, <1>6, <3>1
    <3> QED BY <1>3, <1>4, <1>6, <3>1, <3>2
  <2>2. Follows(w, size)
    BY <1>2, <1>3, <1>6, <1>8, <2>1 DEF Follows
  <2> QED BY <1>7, <1>8, <2>2 DEF CallIn
<1>10. Drop(Rest(w), size) = << >>
  <2> DEFINE r == Drop(b, 2)
             e == Drop(r, BodySize)
  <2>1. r \in Seq(Units) /\ Len(r) = BodySize
    BY <1>6
  <2> HIDE DEF r
  <2>2. e \in Seq(Units) /\ Len(e) = Len(r) - Least(BodySize, Len(r))
    BY <1>2, <2>1, TakeDropIs
  <2> HIDE DEF e
  <2>3. Len(e) = 0
    BY <1>2, <2>1, <2>2 DEF Least
  <2>4. e = << >>
    BY <2>2, <2>3
  <2> QED BY <1>3, <1>8, <2>4 DEF r, e
<1> QED BY <1>7, <1>9, <1>10 DEF c, k

\* Nothing happens on the connection that worker w serves.
Alone(w) == fd[w] \notin Reported /\ \A v \in Workers : v # w /\ Carrying(v) => fd[v] # fd[w]

\* A worker goes on to serve the buffer of client c, or leaves it.
LEMMA ServeKeeps ==
  ASSUME TypeInv, SInv, NEW w \in Workers, NEW c \in Clients, Serving(w), buf[w] = c,
         \/ pc'[w] = "idle"
         \/ /\ fd'[w] = fd[w] /\ buf'[w] = c /\ mutex'[c] = w
            /\ \/ pc'[w] = "cut"
               \/ /\ pc'[w] = "write" /\ call'[w] = <<c, sent[c]>> /\ Alone(w)
                  /\ Len(ran'[c]) = Answered(c)' + 1,
         pc[w] = "cut" \/ Alone(w), ~last'[w], OthersStay(w), Conversation',
         buffer[c] = << >> => buffer'[c] = << >>,
         Owed(c) => Owed(c)' \/ Alone(w),
         \A d \in Clients : d # c => buffer'[d] = buffer[d] /\ ran'[d] = ran[d] /\ answers'[d] = answers[d],
         UNCHANGED <<sent, arrived, hangup, fdOf, ready, events, tasks, pool>>
  PROVE  SInv'
<1>1. PICK f : f = fd[w]
  OBVIOUS
<1>2. /\ f \in Fds /\ pool[f] = c /\ \A g \in Fds : g # f => pool[g] # c
      /\ \A v \in Workers : v # w /\ fd[v] = f => ~Serving(v) /\ (Carrying(v) => pc[v] \in {"lookup", "lock"})
  BY <1>1, PlacesAre DEF SInv, Servers, Descriptors
<1>3. /\ \A d \in Clients : d # c => Owed(d)' = Owed(d) /\ Answered(d)' = Answered(d)
      /\ Elems(events)' = Elems(events) /\ Elems(tasks)' = Elems(tasks)
      /\ NoDup(events)' = NoDup(events) /\ NoDup(tasks)' = NoDup(tasks)
      /\ Reported' = Reported
  BY DEF Owed, Answered, Elems, NoDup, Reported
<1>4. /\ \A v \in Workers : v # w =>
           /\ Looking(v)' = Looking(v) /\ Erasing(v)' = Erasing(v)
           /\ Carrying(v)' = Carrying(v) /\ Serving(v)' = Serving(v)
      /\ ~Looking(w)' /\ ~Carrying(w)' /\ ~Erasing(w)' /\ ~Carrying(w)
      /\ Serving(w)' <=> pc'[w] # "idle"
  BY PlacesStay DEF Looking, Carrying, Erasing, Serving
\* What the edges and the other workers of the connection may rely on.
<1>5. \A g \in Fds : Sound(g) /\ (g = f => ~Alone(w)) => Sound(g)'
  <2>1. \A g \in Fds : g # f /\ Sound(g) => Sound(g)'
    BY <1>2, <1>3 DEF Sound
  <2>2. ASSUME NEW g \in Fds, g = f, Sound(g), ~Alone(w) PROVE Sound(g)'
    <3>1. Owed(c) /\ buffer[c] = << >>
      BY <1>2, <2>2 DEF Sound
    <3>2. Owed(c)' /\ buffer'[c] = << >> /\ pool'[g] = c
      BY <1>2, <2>2, <3>1
    <3>3. hangup'[c] \/ (sent'[c] = Len(answers'[c]) + 1 /\ arrived'[c] = sent'[c] * (BodySize + 2))
      BY <3>2 DEF Owed, Answered, Stream, MsgSize
    <3> QED BY <3>2, <3>3 DEF Sound, Owed, Answered, Stream, MsgSize
  <2> QED BY <2>1, <2>2
<1>6. \A g \in Reported : Sound(g)'
  <2>1. \A g \in Reported : g \in Fds /\ Sound(g)
    BY PlacesAre DEF SInv, Edges
  <2>2. \A g \in Reported : g = f => ~Alone(w)
    BY <1>1 DEF Alone
  <2> QED BY <1>5, <2>1, <2>2
<1>7. Descriptors'
  <2>1. ASSUME NEW d \in Clients, fdOf[d] \in Fds PROVE pool[fdOf[d]] = d \/ Owed(d)'
    <3>1. CASE d = c
      BY <1>2, <3>1 DEF SInv, Descriptors
    <3>2. CASE d # c
      BY <1>3, <2>1, <3>2 DEF SInv, Descriptors
    <3> QED BY <3>1, <3>2
  <2> QED BY <2>1 DEF SInv, Descriptors
<1>8. Edges'
  BY <1>3, <1>6 DEF SInv, Edges
<1>9. Carriers'
  <2>1. ASSUME NEW v \in Workers, v # w
        PROVE  /\ Carrying(v)' => /\ fd'[v] \notin Reported'
                                  /\ \A u \in Workers : u # v /\ Carrying(u)' => fd'[u] # fd'[v]
               /\ Looking(v)' => Sound(fd[v])'
               /\ Erasing(v)' => pool'[fd'[v]] \notin Clients /\ \E d \in Clients : fdOf'[d] = fd'[v]
               /\ pc'[v] \in {"lock", "read"} => buf'[v] = pool'[fd'[v]]
               /\ pc'[v] = "read" => sock'[v] = buf'[v] /\ mutex'[buf'[v]] = v
               /\ pc'[v] # "crashed" /\ ~last'[v]
    <3>1. Looking(v) => Sound(fd[v]) /\ fd'[v] = fd[v] /\ fd[v] \in Fds /\ (fd[v] = f => ~Alone(w))
      BY <1>1, <2>1, PlacesAre DEF SInv, Carriers, OthersStay, Carrying, Alone
    <3>2. ASSUME Looking(v)' PROVE Sound(fd[v])'
      <4>1. PICK g \in Fds : g = fd[v] /\ g = fd'[v] /\ Sound(g) /\ (g = f => ~Alone(w))
        BY <1>4, <2>1, <3>1, <3>2
      <4>2. Sound(g)'
        BY <1>5, <4>1
      <4> QED BY <4>1, <4>2 DEF Sound, Owed, Answered, Stream, MsgSize
    <3>3. Carrying(v)' => /\ fd'[v] \notin Reported'
                          /\ \A u \in Workers : u # v /\ Carrying(u)' => fd'[u] # fd'[v]
      BY <1>3, <1>4, <2>1 DEF SInv, Carriers, OthersStay
    <3>4. pc'[v] = "read" => sock'[v] = buf'[v] /\ mutex'[buf'[v]] = v
      <4>1. ASSUME pc[v] = "read" PROVE sock[v] = buf[v] /\ mutex[buf[v]] = v /\ buf[v] \in Clients
        BY <4>1, PlacesAre DEF SInv, Carriers
      <4> QED BY <2>1, <4>1 DEF OthersStay
    <3>5. /\ Erasing(v)' => pool'[fd'[v]] \notin Clients /\ \E d \in Clients : fdOf'[d] = fd'[v]
          /\ pc'[v] \in {"lock", "read"} => buf'[v] = pool'[fd'[v]]
          /\ pc'[v] # "crashed" /\ ~last'[v]
      BY <1>4, <2>1 DEF SInv, Carriers, OthersStay
    <3> QED BY <3>2, <3>3, <3>4, <3>5
  <2>2. pc'[w] \notin {"lock", "read", "crashed"}
    OBVIOUS
  <2> QED BY <1>4, <2>1, <2>2 DEF Carriers
<1>10. Servers'
  <2>1. ASSUME NEW v \in Workers, v # w, Serving(v)
        PROVE  /\ pool[fd[v]] = buf[v] /\ buf[v] \in Clients /\ fd[v] # f /\ buf[v] # c
               /\ pc[v] = "serve" => buffer'[buf[v]] # << >>
               /\ pc[v] \in {"cut", "write"} => mutex'[buf[v]] = v
               /\ pc[v] = "write" => /\ call[v] = <<buf[v], sent[buf[v]]>> /\ fd[v] \notin Reported
                                     /\ Len(ran'[buf[v]]) = Answered(buf[v]) + 1
               /\ \A u \in Workers : u # v /\ fd[u] = fd[v] =>
                    ~Serving(u) /\ (Carrying(u) => pc[v] = "cut" /\ pc[u] \in {"lookup", "lock"})
    <3>1. fd[v] \in Fds /\ fd[v] # f /\ buf[v] \in Clients /\ pool[fd[v]] = buf[v]
      BY <1>2, <2>1, PlacesAre DEF SInv, Servers
    <3>2. buf[v] # c
      BY <1>2, <3>1
    <3>3. pc[v] \in {"cut", "write"} => mutex'[buf[v]] = v
      BY <2>1, <3>1 DEF SInv, Servers, OthersStay
    <3> QED BY <2>1, <3>1, <3>2, <3>3 DEF SInv, Servers
  <2>2. ASSUME NEW v \in Workers, v # w, Serving(v)'
        PROVE  /\ pool'[fd'[v]] = buf'[v]
               /\ pc'[v] = "serve" => buffer'[buf'[v]] # << >>
               /\ pc'[v] \in {"cut", "write"} => mutex'[buf'[v]] = v
               /\ pc'[v] = "write" => /\ call'[v] = <<buf'[v], sent'[buf'[v]]>> /\ fd'[v] \notin Reported'
                                      /\ Len(ran'[buf'[v]]) = Answered(buf[v])' + 1
    <3>1. PICK d \in Clients : d = buf[v] /\ d # c /\ buf'[v] = d
      BY <1>4, <2>1, <2>2 DEF OthersStay
    <3>2. Answered(d)' = Answered(d)
      BY <1>3, <3>1
    <3> QED BY <1>3, <1>4, <2>1, <2>2, <3>1, <3>2 DEF OthersStay, Answered
  <2>3. ASSUME NEW v \in Workers, v # w, Serving(v)'
        PROVE  \A u \in Workers : u # v /\ fd'[u] = fd'[v] =>
                    ~Serving(u)' /\ (Carrying(u)' => pc'[v] = "cut" /\ pc'[u] \in {"lookup", "lock"})
    <3>1. Serving(v) /\ fd'[v] = fd[v] /\ pc'[v] = pc[v] /\ fd[v] # f
      BY <1>4, <2>1, <2>3 DEF OthersStay
    <3>2. ASSUME NEW u \in Workers, u # v, u # w, fd'[u] = fd'[v]
          PROVE  ~Serving(u)' /\ (Carrying(u)' => pc'[v] = "cut" /\ pc'[u] \in {"lookup", "lock"})
      BY <1>4, <2>1, <2>3, <3>1, <3>2 DEF OthersStay
    <3>3. fd'[w] = fd'[v] => ~Serving(w)'
      BY <1>1, <1>4, <3>1
    <3> QED BY <1>4, <3>2, <3>3
  <2>4. ASSUME Serving(w)'
        PROVE  \A u \in Workers : u # w /\ fd'[u] = fd'[w] =>
                    ~Serving(u)' /\ (Carrying(u)' => pc'[w] = "cut" /\ pc'[u] \in {"lookup", "lock"})
    BY <1>1, <1>2, <1>4, <2>4 DEF OthersStay, Alone
  <2>5. ASSUME Serving(w)'
        PROVE  /\ pool'[fd'[w]] = buf'[w] /\ pc'[w] # "serve" /\ mutex'[buf'[w]] = w
               /\ pc'[w] = "write" => /\ call'[w] = <<buf'[w], sent'[buf'[w]]>> /\ fd'[w] \notin Reported'
                                      /\ Len(ran'[buf'[w]]) = Len(answers'[buf'[w]]) + 1
    BY <1>1, <1>2, <1>3, <1>4, <2>5 DEF Alone, Answered
  <2> QED BY <2>2, <2>3, <2>4, <2>5 DEF Servers, Answered
<1> QED BY <1>7, <1>8, <1>9, <1>10 DEF SInv

\* The connection whose buffer worker w serves.
LEMMA ServingIs ==
  ASSUME TypeInv, SInv, NEW w \in Workers, Serving(w)
  PROVE  /\ buf[w] \in Clients /\ fd[w] \in Fds /\ SocketAt(fd[w]) = buf[w] /\ ~last[w]
         /\ pc[w] \in {"cut", "write"} => mutex[buf[w]] = w
         /\ pc[w] = "serve" => buffer[buf[w]] # << >>
         /\ pc[w] = "write" => Len(ran[buf[w]]) = Answered(buf[w]) + 1 /\ call[w] = <<buf[w], sent[buf[w]]>>
         /\ pc[w] = "write" \/ buffer[buf[w]] # << >> => Alone(w)
         /\ buffer[buf[w]] # << >> => /\ InService(buf[w]) /\ dropped[buf[w]] = {}
                                      /\ Len(ran[buf[w]]) = Answered(buf[w])
<1>1. buf[w] \in Clients /\ fd[w] \in Fds
  BY PlacesAre
<1>2. /\ pool[fd[w]] = buf[w]
      /\ pc[w] \in {"cut", "write"} => mutex[buf[w]] = w
      /\ pc[w] = "serve" => buffer[buf[w]] # << >>
      /\ pc[w] = "write" => /\ Len(ran[buf[w]]) = Answered(buf[w]) + 1 /\ call[w] = <<buf[w], sent[buf[w]]>>
                            /\ fd[w] \notin Reported
      /\ \A v \in Workers : v # w /\ fd[v] = fd[w] /\ Carrying(v) => pc[w] = "cut" /\ Looking(v)
  BY DEF SInv, Servers, Looking
<1>3. SocketAt(fd[w]) = buf[w]
  BY <1>1, <1>2, OwnerIs
<1>4. ~last[w]
  BY DEF SInv, Carriers
<1>5. ASSUME buffer[buf[w]] # << >> PROVE Alone(w)
  <2>1. ~Sound(fd[w])
    BY <1>2, <1>5 DEF Sound
  <2>2. fd[w] \notin Reported /\ \A v \in Workers : Looking(v) => fd[v] # fd[w]
    BY <2>1 DEF SInv, Edges, Carriers
  <2> QED BY <1>2, <2>2 DEF Alone
<1>6. ASSUME pc[w] = "write" PROVE Alone(w)
  BY <1>2, <1>6 DEF Alone
<1>7. buffer[buf[w]] # << >> => /\ InService(buf[w]) /\ dropped[buf[w]] = {}
                                /\ Len(ran[buf[w]]) = Answered(buf[w])
  BY <1>1 DEF SInv, Conversation, Talk
<1> QED BY <1>1, <1>2, <1>3, <1>4, <1>5, <1>6, <1>7

LEMMA ServeLockKeeps == ASSUME TypeInv, SInv, NEW w \in Workers, ServeLock(w) PROVE SInv'
<1>1. PICK c : c = buf[w]
  OBVIOUS
<1>2. Serving(w) /\ pc[w] = "serve"
  BY DEF ServeLock, At, Serving
<1>3. c \in Clients /\ ~last[w] /\ Alone(w)
  BY <1>1, <1>2, ServingIs
<1>4. /\ mutex[c] = Nobody /\ mutex' = [mutex EXCEPT ![c] = w] /\ pc' = [pc EXCEPT ![w] = "cut"]
      /\ UNCHANGED <<sent, arrived, taken, dropped, hangup, answers, fdOf, ready, events, tasks, pool,
                     buffer, ran, fd, buf, sock, call, last>>
  BY <1>1 DEF ServeLock, Lock, Goto, clientVars, readVars, epollVars
<1>5. pc'[w] = "cut" /\ mutex'[c] = w /\ OthersStay(w) /\ Owed(c)' = Owed(c)
  BY <1>3, <1>4, NobodyAssumption DEF TypeInv, WorkerTypes, MutexTypes, OthersStay, Owed, Answered
<1>6. Conversation'
  BY <1>4, ConversationFrame DEF SInv
<1> QED BY <1>1, <1>2, <1>3, <1>4, <1>5, <1>6, ServeKeeps

\* The worker is done, with the buffer empty or a call in it that finds no room.
LEMMA ServeEndKeeps ==
  ASSUME TypeInv, SInv, NEW w \in Workers, ServeDone(w) \/ ServePostpone(w)
  PROVE  SInv'
<1>1. PICK c : c = buf[w]
  OBVIOUS
<1>2. Serving(w) /\ pc[w] = "cut"
  BY DEF ServeDone, ServePostpone, At, Serving
<1>3. c \in Clients /\ ~last[w] /\ mutex[c] = w
  BY <1>1, <1>2, ServingIs
<1>4. /\ mutex' = [mutex EXCEPT ![c] = Nobody] /\ pc' = [pc EXCEPT ![w] = "idle"]
      /\ fd' = [fd EXCEPT ![w] = Nobody] /\ buf' = [buf EXCEPT ![w] = Nobody]
      /\ sock' = [sock EXCEPT ![w] = Nobody] /\ call' = [call EXCEPT ![w] = Nobody]
      /\ last' = [last EXCEPT ![w] = FALSE]
      /\ UNCHANGED <<sent, arrived, taken, dropped, hangup, answers, fdOf, ready, events, tasks, pool,
                     buffer, ran>>
  BY <1>1, <1>3
     DEF ServeDone, ServePostpone, Served, Unlock, Finish, Goto, clientVars, readVars, epollVars
<1>5. pc'[w] = "idle" /\ ~last'[w] /\ OthersStay(w) /\ Owed(c)' = Owed(c)
  BY <1>3, <1>4 DEF TypeInv, WorkerTypes, MutexTypes, OthersStay, Owed, Answered
<1>6. Conversation'
  BY <1>4, ConversationFrame DEF SInv
<1> QED BY <1>1, <1>2, <1>3, <1>4, <1>5, <1>6, ServeKeeps

\* The call the client waits for is taken out of the buffer.
LEMMA CallTaken ==
  ASSUME TypeInv, SInv, NEW w \in Workers, NEW c \in Clients, c = buf[w],
         buffer[c] # << >>, buffer' = [buffer EXCEPT ![c] = << >>],
         ran' = ran \/ ran' = [ran EXCEPT ![c] = Append(@, sent[c])],
         UNCHANGED <<sent, arrived, taken, dropped, hangup, answers>>
  PROVE  Conversation' /\ Owed(c)' = Owed(c) /\ \A d \in Clients : d # c => buffer'[d] = buffer[d] /\ ran'[d] = ran[d]
<1>1. \A d \in Clients : InService(d)' = InService(d) /\ Answered(d)' = Answered(d) /\ Owed(d)' = Owed(d)
  BY DEF InService, Answered, Owed
<1>2. buffer'[c] = << >> /\ \A d \in Clients : d # c => buffer'[d] = buffer[d] /\ ran'[d] = ran[d]
  BY DEF TypeInv, ServedTypes
<1>3. Talk(c) /\ InService(c) /\ dropped[c] = {} /\ Len(ran[c]) = Answered(c) /\ sent[c] = Answered(c) + 1
  BY DEF SInv, Conversation, Talk, InService
<1>4. ran[c] \in Seq(0 .. MaxCalls) /\ sent[c] \in Nat /\ Answered(c) \in Nat
  BY CallsAre DEF TypeInv, ServedTypes
<1>5. CASE ran' = ran
  <2>1. Talk(c)'
    BY <1>1, <1>2, <1>3, <1>5 DEF Talk
  <2>2. \A d \in Clients : d # c => Talk(d)'
    BY <1>1, <1>2 DEF SInv, Conversation, Talk
  <2> QED BY <1>1, <1>2, <2>1, <2>2 DEF Conversation
<1>6. CASE ran' = [ran EXCEPT ![c] = Append(@, sent[c])]
  <2>1. ran'[c] = Append(ran[c], sent[c])
    BY <1>6 DEF TypeInv, ServedTypes
  <2>2. Len(ran'[c]) = sent[c] /\ \A i \in 1 .. Len(ran'[c]) : ran'[c][i] = i
    <3>1. \A i \in 1 .. Len(ran[c]) : ran[c][i] = i
      BY <1>3 DEF Talk
    <3> QED BY <1>3, <1>4, <2>1, <3>1
  <2>3. Talk(c)'
    BY <1>1, <1>2, <1>3, <2>2 DEF Talk
  <2>4. \A d \in Clients : d # c => Talk(d)'
    BY <1>1, <1>2 DEF SInv, Conversation, Talk
  <2> QED BY <1>1, <1>2, <2>3, <2>4 DEF Conversation
<1> QED BY <1>5, <1>6

LEMMA ServeRunKeeps == ASSUME TypeInv, SInv, NEW w \in Workers, ServeRun(w) PROVE SInv'
<1>1. PICK c : c = buf[w]
  OBVIOUS
<1>2. Serving(w) /\ pc[w] = "cut" /\ buffer[c] # << >>
  BY <1>1 DEF ServeRun, At, Serving
<1>3. /\ c \in Clients /\ ~last[w] /\ mutex[c] = w /\ Alone(w)
      /\ InService(c) /\ Len(ran[c]) = Answered(c)
  BY <1>1, <1>2, ServingIs
<1>4. PICK size \in Announced(w) :
        /\ buffer' = [buffer EXCEPT ![buf[w]] = Drop(Rest(w), size)]
        /\ ran' = [ran EXCEPT ![Header(w)[1].client] = Append(@, CallIn(w, size))]
        /\ call' = [call EXCEPT ![w] = <<Header(w)[1].client, CallIn(w, size)>>]
  BY DEF ServeRun
<1>5. /\ CallIn(w, size) = sent[c] /\ Header(w)[1].client = c
      /\ Drop(Rest(w), size) = << >>
  BY <1>1, <1>2, CuttingIs
<1>6. /\ buffer' = [buffer EXCEPT ![c] = << >>] /\ ran' = [ran EXCEPT ![c] = Append(@, sent[c])]
      /\ call' = [call EXCEPT ![w] = <<c, sent[c]>>] /\ pc' = [pc EXCEPT ![w] = "write"]
      /\ UNCHANGED <<sent, arrived, taken, dropped, hangup, answers, fdOf, ready, events, tasks, pool,
                     mutex, fd, buf, sock, last>>
  BY <1>1, <1>4, <1>5 DEF ServeRun, Goto, clientVars, readVars, epollVars
<1>7. /\ Conversation' /\ Owed(c)' = Owed(c)
      /\ \A d \in Clients : d # c => buffer'[d] = buffer[d] /\ ran'[d] = ran[d]
  BY <1>1, <1>2, <1>3, <1>6, CallTaken
<1>8. pc'[w] = "write" /\ call'[w] = <<c, sent[c]>> /\ OthersStay(w) /\ buffer'[c] = << >>
  BY <1>3, <1>6 DEF TypeInv, WorkerTypes, ServedTypes, OthersStay
<1>9. Len(ran'[c]) = Answered(c)' + 1
  <2>1. ran[c] \in Seq(0 .. MaxCalls) /\ ran'[c] = Append(ran[c], sent[c])
    BY <1>3, <1>6 DEF TypeInv, ServedTypes
  <2>2. Len(ran'[c]) = Answered(c) + 1
    BY <1>3, <2>1
  <2> QED BY <1>6, <2>2 DEF Answered
<1> QED BY <1>1, <1>2, <1>3, <1>6, <1>7, <1>8, <1>9, ServeKeeps

LEMMA ServeThrowKeeps == ASSUME TypeInv, SInv, NEW w \in Workers, ServeThrow(w) PROVE SInv'
<1>1. PICK c : c = buf[w]
  OBVIOUS
<1>2. Serving(w) /\ pc[w] = "cut" /\ buffer[c] # << >>
  BY <1>1 DEF ServeThrow, At, Serving
<1>3. c \in Clients /\ ~last[w] /\ mutex[c] = w
  BY <1>1, <1>2, ServingIs
<1>4. PICK size \in Announced(w) : buffer' = [buffer EXCEPT ![buf[w]] = Drop(Rest(w), size)]
  BY DEF ServeThrow
<1>5. Drop(Rest(w), size) = << >>
  BY <1>1, <1>2, CuttingIs
<1>6. /\ buffer' = [buffer EXCEPT ![c] = << >>]
      /\ mutex' = [mutex EXCEPT ![c] = Nobody] /\ pc' = [pc EXCEPT ![w] = "idle"]
      /\ fd' = [fd EXCEPT ![w] = Nobody] /\ buf' = [buf EXCEPT ![w] = Nobody]
      /\ sock' = [sock EXCEPT ![w] = Nobody] /\ call' = [call EXCEPT ![w] = Nobody]
      /\ last' = [last EXCEPT ![w] = FALSE]
      /\ UNCHANGED <<sent, arrived, taken, dropped, hangup, answers, fdOf, ready, events, tasks, pool, ran>>
  BY <1>1, <1>4, <1>5 DEF ServeThrow, Thrown, Unlock, Finish, Goto, clientVars, readVars, epollVars
<1>7. /\ Conversation' /\ Owed(c)' = Owed(c)
      /\ \A d \in Clients : d # c => buffer'[d] = buffer[d] /\ ran'[d] = ran[d]
  BY <1>1, <1>2, <1>3, <1>6, CallTaken
<1>8. pc'[w] = "idle" /\ ~last'[w] /\ OthersStay(w) /\ buffer'[c] = << >>
  BY <1>3, <1>6 DEF TypeInv, WorkerTypes, MutexTypes, ServedTypes, OthersStay
<1> QED BY <1>1, <1>2, <1>3, <1>6, <1>7, <1>8, ServeKeeps

\* The client gets the result of its own call.
LEMMA ServeWriteKeeps == ASSUME TypeInv, SInv, NEW w \in Workers, ServeWrite(w) PROVE SInv'
<1>1. PICK c : c = buf[w]
  OBVIOUS
<1>2. Serving(w) /\ pc[w] = "write"
  BY DEF ServeWrite, At, Serving
<1>3. /\ c \in Clients /\ ~last[w] /\ mutex[c] = w /\ Alone(w) /\ SocketAt(fd[w]) = c
      /\ call[w] = <<c, sent[c]>> /\ Len(ran[c]) = Answered(c) + 1
  BY <1>1, <1>2, ServingIs
<1>4. /\ answers' = [answers EXCEPT ![c] = Append(@, <<c, sent[c]>>)]
      /\ call' = [call EXCEPT ![w] = Nobody] /\ pc' = [pc EXCEPT ![w] = "cut"]
      /\ UNCHANGED <<sent, arrived, taken, dropped, hangup, fdOf, ready, events, tasks, pool,
                     buffer, mutex, ran, fd, buf, sock, last>>
  BY <1>3, NobodyAssumption DEF ServeWrite, Goto, readVars, epollVars
<1>5. pc'[w] = "cut" /\ OthersStay(w) /\ \A d \in Clients : d # c => answers'[d] = answers[d]
  BY <1>3, <1>4 DEF TypeInv, WorkerTypes, ServedTypes, OthersStay
<1>6. /\ Talk(c) /\ Answered(c) \in Nat /\ sent[c] = Answered(c) + 1 /\ Len(ran[c]) = sent[c] /\ InService(c)
      /\ dropped[c] = {} /\ buffer[c] = << >>
  BY <1>3, CallsAre DEF SInv, Conversation, Talk, InService
<1>7. /\ answers'[c] = Append(answers[c], <<c, sent[c]>>) /\ Len(answers'[c]) = sent[c]
      /\ \A i \in 1 .. Len(answers'[c]) : answers'[c][i] = <<c, i>>
  <2>1. answers'[c] = Append(answers[c], <<c, sent[c]>>) /\ answers[c] \in Seq(Clients \X (0 .. MaxCalls))
    BY <1>3, <1>4 DEF TypeInv, ServedTypes
  <2>2. \A i \in 1 .. Len(answers[c]) : answers[c][i] = <<c, i>>
    BY <1>6 DEF Talk, Answered
  <2> QED BY <1>6, <2>1, <2>2 DEF Answered
<1>8. /\ Answered(c)' = sent[c] /\ ~InService(c)'
      /\ \A d \in Clients : d # c => Answered(d)' = Answered(d) /\ InService(d)' = InService(d)
  BY <1>4, <1>5, <1>6, <1>7 DEF Answered, InService
<1>9. arrived[c] = Stream(sent[c]) /\ taken[c] = Stream(sent[c])
  <2>1. /\ taken[c] <= arrived[c] /\ {arrived[c], taken[c]} \subseteq {Stream(Answered(c)), Stream(sent[c])}
        /\ taken[c] = Stream(sent[c])
    BY <1>3, <1>6, CallsAre DEF Talk, InService
  <2>2. Stream(Answered(c) + 1) = Stream(Answered(c)) + MsgSize /\ MsgSize >= 3 /\ MsgSize \in Nat
        /\ Stream(Answered(c)) \in Nat
    BY <1>3, CallsAre
  <2> QED BY <1>6, <2>1, <2>2
<1>10. Talk(c)'
  <2>1. ~hangup[c]
    BY <1>6 DEF Talk
  <2> QED BY <1>4, <1>6, <1>7, <1>8, <1>9, <2>1 DEF Talk, Answered, Stream, MsgSize
<1>11. \A d \in Clients : d # c => Talk(d)'
  BY <1>4, <1>5, <1>8 DEF SInv, Conversation, Talk
<1>12. Conversation'
  BY <1>10, <1>11 DEF Conversation
<1> QED BY <1>1, <1>2, <1>3, <1>4, <1>5, <1>6, <1>12, ServeKeeps

LEMMA SInvInit == Init => SInv
<1> SUFFICES ASSUME Init PROVE SInv
  OBVIOUS
<1>1. Reported = {}
  BY EmptyIs DEF Init, Reported
<1>2. \A w \in Workers : pc[w] = "idle" /\ ~last[w]
  BY DEF Init
<1>3. \A w \in Workers : ~Looking(w) /\ ~Erasing(w) /\ ~Carrying(w) /\ ~Serving(w)
  BY <1>2 DEF Looking, Erasing, Carrying, Serving
<1>4. Conversation
  BY StreamIs DEF Init, Conversation, Talk, Answered
<1>5. Descriptors
  BY NobodyAssumption, BufferAssumption DEF Init, Descriptors
<1>6. Edges
  BY <1>1, EmptyIs DEF Init, Edges
<1>7. Carriers /\ Servers
  BY <1>2, <1>3 DEF Carriers, Servers
<1> QED BY <1>4, <1>5, <1>6, <1>7 DEF SInv

LEMMA SInvStep == Synchronous /\ TypeInv /\ SInv /\ [Next]_vars => SInv'
<1> SUFFICES ASSUME Synchronous, TypeInv, SInv, [Next]_vars PROVE SInv'
  OBVIOUS
<1>1. ASSUME NEW c \in Clients, Client(c) \/ Arrive(c) PROVE SInv'
  <2>1. CASE ClientConnect(c)
    BY <2>1, SInvFrame DEF ClientConnect, clientVars, readVars, epollVars, workerVars
  <2> QED BY <1>1, <2>1, SendKeeps, ArriveKeeps, HangUpKeeps DEF Client
<1>2. CASE Main
  BY <1>2, EpollWaitKeeps, AcceptKeeps, AcceptFailsKeeps, DispatchKeeps DEF Main
<1>3. ASSUME NEW w \in Workers, Worker(w) PROVE SInv'
  <2>1. CASE Serve(w)
    BY <2>1, ServeEndKeeps, ServeRunKeeps, ServeThrowKeeps, ServeWriteKeeps DEF Serve
  <2>2. CASE Disconnect(w)
    BY <2>2, DropWatchKeeps, DropLookupKeeps, EraseKeeps, CloseKeeps DEF Disconnect
  <2> QED BY <1>3, <2>1, <2>2, TaskStartKeeps, LookupKeeps, ReadLockKeeps, ReadStoreKeeps,
       ReadNothingKeeps, AlwaysRoom, ServeLockKeeps DEF Worker
<1>4. CASE UNCHANGED vars
  BY <1>4, SInvFrame DEF vars
<1> QED BY <1>1, <1>2, <1>3, <1>4 DEF Next

\* A buffer never holds but the call its own client waits for.
LEMMA SInvOwnBytes == SInv => OwnBytes
<1> SUFFICES ASSUME SInv, NEW c \in Clients, NEW i \in 1 .. Len(buffer[c]) PROVE buffer[c][i].client = c
  BY DEF OwnBytes
<1>1. MsgSize \in Nat
  BY StreamIs
<1>2. CASE buffer[c] = << >>
  BY <1>2
<1>3. CASE buffer[c] # << >>
  <2>1. buffer[c] = CallUnits(c, sent[c])
    BY <1>3 DEF SInv, Conversation, Talk
  <2> QED BY <1>1, <2>1 DEF CallUnits, Unit
<1> QED BY <1>2, <1>3

LEMMA SInvNoNull == SInv => NoNullBuffer
BY DEF SInv, Carriers, NoNullBuffer, Crashed

LEMMA Inductive == Synchronous /\ Spec => [](TypeInv /\ SInv)
<1> SUFFICES ASSUME Synchronous PROVE Spec => [](TypeInv /\ SInv)
  OBVIOUS
<1>1. TypeInv /\ SInv /\ [Next]_vars => (TypeInv /\ SInv)'
  BY TypeStep, SInvStep
<1> QED BY <1>1, TypeInit, SInvInit, PTL DEF Spec

\* When clients await each answer and hang up only when nothing is owed to
\* them, the null pointer that operator[] can put into the map is never used.
THEOREM NullNeverUsed == Synchronous /\ Spec => []NoNullBuffer
BY Inductive, SInvNoNull, PTL

\* ... and bytes of one connection never reach the buffer of another.
THEOREM BytesKeptApart == Synchronous /\ Spec => []OwnBytes
BY Inductive, SInvOwnBytes, PTL

(***************************************************************************)
(* The server implements the service: what it has run and answered of a    *)
(* client is a prefix of what the client has sent.                         *)
(***************************************************************************)
ServiceNext == [Service!Next]_(Service!vars)

LEMMA ServiceInit == Init => Service!Init
BY DEF Init, Service!Init

\* The last call that was run.
LEMMA LastRanIs ==
  ASSUME TypeInv, SInv, NEW c \in Clients
  PROVE  Service!LastRan(c) = Len(ran[c])
<1>1. ran[c] \in Seq(0 .. MaxCalls) /\ \A i \in 1 .. Len(ran[c]) : ran[c][i] = i
  BY DEF TypeInv, ServedTypes, SInv, Conversation, Talk
<1>2. CASE ran[c] = << >>
  BY <1>2 DEF Service!LastRan
<1>3. CASE ran[c] # << >>
  <2>1. Len(ran[c]) \in 1 .. Len(ran[c])
    BY <1>1, <1>3
  <2> QED BY <1>1, <1>3, <2>1 DEF Service!LastRan
<1> QED BY <1>2, <1>3

LEMMA SendServes ==
  ASSUME TypeInv, SInv, NEW c \in Clients, ClientSend(c) PROVE Service!Next
BY DEF ClientSend, readVars, Service!Next, Service!Send

LEMMA RunServes ==
  ASSUME TypeInv, SInv, NEW w \in Workers, ServeRun(w) PROVE Service!Next
<1>1. PICK c : c = buf[w]
  OBVIOUS
<1>2. Serving(w) /\ pc[w] = "cut" /\ buffer[c] # << >>
  BY <1>1 DEF ServeRun, At, Serving
<1>3. c \in Clients /\ InService(c) /\ Len(ran[c]) = Answered(c) /\ dropped[c] = {}
  BY <1>1, <1>2, ServingIs
<1>4. PICK size \in Announced(w) :
        /\ CallIn(w, size) \notin Unknown
        /\ ran' = [ran EXCEPT ![Header(w)[1].client] = Append(@, CallIn(w, size))]
  BY DEF ServeRun
<1>5. CallIn(w, size) = sent[c] /\ Header(w)[1].client = c
  BY <1>1, <1>2, CuttingIs
<1>6. Answered(c) \in Nat /\ sent[c] = Answered(c) + 1
  BY <1>3, CallsAre DEF InService
<1>7. Service!LastRan(c) = Answered(c)
  BY <1>3, LastRanIs
<1>8. /\ sent[c] \in Service!LastRan(c) + 1 .. sent[c]
      /\ Service!LastRan(c) + 1 .. sent[c] - 1 = {}
  BY <1>6, <1>7
<1>9. UNCHANGED <<sent, dropped, answers>>
  BY DEF ServeRun, clientVars, readVars
<1>10. Service!Run(c)
  BY <1>3, <1>4, <1>5, <1>8, <1>9 DEF Service!Run
<1> QED BY <1>3, <1>10 DEF Service!Next

LEMMA WriteServes ==
  ASSUME TypeInv, SInv, NEW w \in Workers, ServeWrite(w) PROVE Service!Next
<1>1. PICK c : c = buf[w]
  OBVIOUS
<1>2. Serving(w) /\ pc[w] = "write"
  BY DEF ServeWrite, At, Serving
<1>3. /\ c \in Clients /\ SocketAt(fd[w]) = c
      /\ call[w] = <<c, sent[c]>> /\ Len(ran[c]) = Answered(c) + 1
  BY <1>1, <1>2, ServingIs
<1>4. /\ answers' = [answers EXCEPT ![c] = Append(@, <<c, sent[c]>>)]
      /\ UNCHANGED <<sent, dropped, ran>>
  BY <1>3, NobodyAssumption DEF ServeWrite, readVars
<1>5. Answered(c) \in Nat /\ sent[c] = Answered(c) + 1 /\ ran[c][Answered(c) + 1] = Answered(c) + 1
  <2>1. Answered(c) \in Nat
    BY <1>3, CallsAre
  <2>2. sent[c] = Answered(c) + 1 /\ \A i \in 1 .. Len(ran[c]) : ran[c][i] = i
    BY <1>3, <2>1 DEF SInv, Conversation, Talk
  <2>3. Answered(c) + 1 \in 1 .. Len(ran[c])
    BY <1>3, <2>1
  <2> QED BY <2>1, <2>2, <2>3
<1>6. Service!Answer(c)
  <2>1. Len(answers[c]) < Len(ran[c]) /\ sent[c] = ran[c][Len(answers[c]) + 1]
    BY <1>3, <1>5 DEF Answered
  <2> QED BY <1>4, <2>1 DEF Service!Answer
<1> QED BY <1>3, <1>6 DEF Service!Next

LEMMA ServiceStep == TypeInv /\ SInv /\ [Next]_vars => ServiceNext
<1> SUFFICES ASSUME TypeInv, SInv, [Next]_vars PROVE ServiceNext
  OBVIOUS
<1>1. CASE UNCHANGED <<sent, dropped, ran, answers>>
  BY <1>1 DEF ServiceNext, Service!vars
<1>2. ASSUME NEW c \in Clients, Client(c) \/ Arrive(c) PROVE ServiceNext
  BY <1>1, <1>2, SendServes
     DEF Client, ClientConnect, ClientHangUp, Arrive, clientVars, readVars, ServiceNext
<1>3. CASE Main
  BY <1>1, <1>3 DEF Main, EpollWait, MainAccept, MainAcceptFails, MainDispatch, clientVars, readVars
<1>4. ASSUME NEW w \in Workers, Worker(w) PROVE ServiceNext
  <2>1. CASE ServeRun(w) \/ ServeWrite(w)
    BY <2>1, RunServes, WriteServes DEF ServiceNext
  <2>2. CASE ~(ServeRun(w) \/ ServeWrite(w))
    BY <1>1, <1>4, <2>2, AlwaysRoom DEF Worker, Serve, Disconnect, TaskStart, Lookup, ReadLock, ReadStore, ReadNothing,
       ServeLock, ServeDone, ServePostpone, ServeThrow, DropWatch, DropLookup, Erase, Close,
       clientVars, readVars
  <2> QED BY <2>1, <2>2
<1>5. CASE UNCHANGED vars
  BY <1>1, <1>5 DEF vars
<1> QED BY <1>2, <1>3, <1>4, <1>5 DEF Next

\* The calls of a client that awaits each answer are run in the order they were
\* sent, at most once, none is skipped that had room and a function, and the
\* client gets the results of its own calls in that order, and no other.
THEOREM Refinement == Synchronous /\ Spec => ServiceSpec
<1> SUFFICES ASSUME Synchronous PROVE Spec => ServiceSpec
  OBVIOUS
<1>1. Spec => [](TypeInv /\ SInv)
  BY Inductive
<1> QED BY <1>1, ServiceInit, ServiceStep, PTL DEF Spec, ServiceSpec, Service!Spec, ServiceNext
=============================================================================
