----------------------------- MODULE RpcServer ------------------------------
(***************************************************************************)
(* The server side of yi::Net (network/Net.cpp) with the per-connection    *)
(* buffers of network/io/withBuffer/Buffer.h: a main thread that accepts   *)
(* connections and turns edge-triggered epoll events into tasks, and the   *)
(* workers of the thread pool that read the sockets, cut the stream into   *)
(* calls, run them and write the results.                                  *)
(*                                                                         *)
(* The sockets are blocking, so a worker that reads a socket another       *)
(* worker has just emptied waits inside read(), with the buffer's mutex.   *)
(*                                                                         *)
(* Each client opens one connection, keeps at most Window calls without an *)
(* answer, and closes the connection when it needs it no more; descriptor  *)
(* numbers are used again.  A call is MsgSize units in the stream: the two *)
(* bytes of its header and a body; unit i of client c is [client |-> c, at *)
(* |-> i].  One read() takes as many units as an empty buffer has room     *)
(* for, both being 8 KiB; what is left waits in the socket, and epoll does *)
(* not report it again until more arrives.  A buffer is the bounded stream *)
(* ByteFifo that RingBuffer implements, and is named by the client it was  *)
(* made for.  The map _connection_buffer_pool is used without a lock; each *)
(* operation on it is taken to be atomic.                                  *)
(***************************************************************************)
EXTENDS Naturals, Sequences, FiniteSetsExt, SequencesExt

CONSTANTS Clients, Workers,
          Fds,            \* the numbers a connection's descriptor can have
          MaxCalls,       \* the calls a client makes
          Unknown,        \* the calls whose function is not registered
          Window,         \* how many calls may wait for their answers
          Patient,        \* whether clients hang up only when all calls are answered
          BodySize,       \* the size of a call's body
          Capacity,       \* the room of a buffer, and the most one read() takes
          WholeSegments,  \* whether a call arrives in one piece
          Nobody          \* no thread, no client, no descriptor, no call

MsgSize == BodySize + 2

\* A call's body is below 128 bytes, so that it fits into a buffer.
ASSUME SizeAssumption ==
  /\ BodySize \in Nat \ {0} /\ MaxCalls \in Nat /\ Window \in Nat
  /\ Capacity \in Nat /\ MsgSize <= Capacity
  /\ {WholeSegments, Patient} \subseteq BOOLEAN
  /\ Fds \subseteq Nat \ {0} /\ IsFiniteSet(Fds)
ASSUME NobodyAssumption == Nobody \notin Clients \cup Workers \cup Fds \cup (Clients \X Nat)
ASSUME BufferAssumption == {"null", "absent"} \cap Clients = {}

VARIABLES
  \* the clients and their sockets
  sent,       \* sent[c]: the calls client c has sent
  arrived,    \* arrived[c]: the units of its stream that reached the server
  taken,      \* taken[c]: those a read() has taken
  dropped,    \* dropped[c]: the calls that were read and found no room
  hangup,     \* whether it has closed its end
  conn,       \* its connection: "none", "pending", "open" or "closed"
  answers,    \* the results it has received
  \* epoll and the descriptors
  fdOf,       \* fdOf[c]: the descriptor of c's connection
  interest,   \* the descriptors epoll watches
  ready,      \* those with an edge not yet reported
  \* the server
  events,     \* the reported events the main thread has not handled
  tasks,      \* the descriptors of the tasks that wait in the pool
  pool,       \* _connection_buffer_pool[fd]: a buffer, "null" or "absent"
  buffer,     \* buffer[c]: the contents of the buffer made for c
  mutex,      \* mutex[c]: who holds its mutex
  ran,        \* ran[c]: the calls of client c that were run, in order
  \* the workers
  pc, fd,     \* where each worker stands and the descriptor of its task
  buf,        \* the buffer it has looked up
  sock,       \* the connection its read() goes to
  call,       \* the call it is running: <<client, call>>
  last        \* whether it serves the buffer for the last time

readVars == <<taken, dropped>>
clientVars == <<sent, hangup, answers>>
epollVars == <<fdOf, interest, ready>>
workerVars == <<pc, fd, buf, sock, call, last>>
vars == <<sent, arrived, taken, dropped, hangup, conn, answers, fdOf, interest, ready, events, tasks,
          pool, buffer, mutex, ran, pc, fd, buf, sock, call, last>>

Listening == 0            \* the descriptor of the listening socket
Fragment == 0             \* "the call" when a fragment is taken for one

Init ==
  /\ sent = [c \in Clients |-> 0]
  /\ arrived = [c \in Clients |-> 0]
  /\ taken = [c \in Clients |-> 0]
  /\ dropped = [c \in Clients |-> {}]
  /\ hangup = [c \in Clients |-> FALSE]
  /\ conn = [c \in Clients |-> "none"]
  /\ answers = [c \in Clients |-> << >>]
  /\ fdOf = [c \in Clients |-> Nobody]
  /\ interest = {} /\ ready = {}
  /\ events = << >> /\ tasks = << >>
  /\ pool = [f \in Fds |-> "absent"]
  /\ buffer = [c \in Clients |-> << >>]
  /\ mutex = [c \in Clients |-> Nobody]
  /\ ran = [c \in Clients |-> << >>]
  /\ pc = [w \in Workers |-> "idle"]
  /\ fd = [w \in Workers |-> Nobody]
  /\ buf = [w \in Workers |-> Nobody]
  /\ sock = [w \in Workers |-> Nobody]
  /\ call = [w \in Workers |-> Nobody]
  /\ last = [w \in Workers |-> FALSE]

\* A null pointer was used: the process is gone.
Crashed == \E w \in Workers : pc[w] = "crashed"

At(w, label) == ~Crashed /\ pc[w] = label
Goto(w, label) == pc' = [pc EXCEPT ![w] = label]

\* The connection a descriptor stands for now.
SocketAt(f) ==
  LET cs == {c \in Clients : fdOf[c] = f}
  IN  IF cs = {} THEN Nobody ELSE CHOOSE c \in cs : TRUE

\* read() would not wait: there is data or the end of the stream.
Readable(c) == arrived[c] > taken[c] \/ hangup[c]

\* New data or a hangup of c's connection is an edge for epoll.
Edge(c) == ready' = ready \cup ({fdOf[c]} \cap interest)

\* The first n elements of a sequence, or all if there are fewer; the others.
Take(s, n) == SubSeq(s, 1, Min({n, Len(s)}))
Drop(s, n) == SubSeq(s, Min({n, Len(s)}) + 1, Len(s))

\* Unit n of client c's stream, and the call a unit belongs to.
Unit(c, n) == [client |-> c, at |-> n]
CallOf(unit) == (unit.at - 1) \div MsgSize + 1
-----------------------------------------------------------------------------
(* The clients and the network                                             *)

ClientConnect(c) ==
  /\ conn[c] = "none"
  /\ conn' = [conn EXCEPT ![c] = "pending"]
  /\ UNCHANGED <<clientVars, arrived, readVars, epollVars, events, tasks, pool, buffer, mutex, ran,
                 workerVars>>

ClientSend(c) ==
  /\ conn[c] \in {"pending", "open"} /\ ~hangup[c]
  /\ sent[c] < MaxCalls
  /\ sent[c] - Len(answers[c]) < Window
  /\ sent' = [sent EXCEPT ![c] = @ + 1]
  /\ UNCHANGED <<arrived, readVars, hangup, conn, answers, epollVars, events, tasks, pool, buffer,
                 mutex, ran, workerVars>>

\* The units of the stream arrive in order, cut anywhere unless WholeSegments.
Arrive(c) ==
  /\ conn[c] \in {"pending", "open"}
  /\ \E n \in arrived[c] + 1 .. sent[c] * MsgSize :
       /\ WholeSegments => n % MsgSize = 0
       /\ arrived' = [arrived EXCEPT ![c] = n]
  /\ Edge(c)
  /\ UNCHANGED <<clientVars, readVars, conn, fdOf, interest, events, tasks, pool, buffer, mutex,
                 ran, workerVars>>

ClientHangUp(c) ==
  /\ conn[c] \in {"pending", "open"} /\ ~hangup[c]
  /\ arrived[c] = sent[c] * MsgSize
  /\ Patient => Len(answers[c]) = sent[c]
  /\ hangup' = [hangup EXCEPT ![c] = TRUE]
  /\ Edge(c)
  /\ UNCHANGED <<sent, arrived, readVars, conn, answers, fdOf, interest, events, tasks, pool, buffer,
                 mutex, ran, workerVars>>
-----------------------------------------------------------------------------
(* The main thread                                                         *)

Pending == {c \in Clients : conn[c] = "pending"}

\* Mutant: the connections are watched without EPOLLET.
EpollWaitLevel ==
  /\ ~Crashed /\ events = << >>
  /\ LET readable == {f \in ready : SocketAt(f) # Nobody /\ Readable(SocketAt(f))}
         reported == readable \cup (IF Pending = {} THEN {} ELSE {Listening})
     IN  /\ reported # {}
         /\ events' \in SetToSeqs(reported)
  /\ UNCHANGED ready
  /\ UNCHANGED <<clientVars, arrived, readVars, conn, fdOf, interest, tasks, pool, buffer, mutex, ran,
                 workerVars>>

\* epoll_wait reports the descriptors with an edge that are still readable,
\* in any order, and the listening socket as long as a client waits there.
EpollWait ==
  /\ ~Crashed /\ events = << >>
  /\ LET readable == {f \in ready : SocketAt(f) # Nobody /\ Readable(SocketAt(f))}
         reported == readable \cup (IF Pending = {} THEN {} ELSE {Listening})
     IN  /\ reported # {}
         /\ events' \in SetToSeqs(reported)
  /\ ready' = {}
  /\ UNCHANGED <<clientVars, arrived, readVars, conn, fdOf, interest, tasks, pool, buffer, mutex, ran,
                 workerVars>>

FreeFds == {f \in Fds : SocketAt(f) = Nobody}

\* accept() gives the lowest free number; adding the descriptor to epoll is
\* an edge if the connection is readable already.  A number that is in the
\* map still gets no buffer.
MainAccept ==
  /\ ~Crashed /\ events # << >> /\ Head(events) = Listening
  /\ FreeFds # {}
  /\ \E c \in Pending :
       LET f == Min(FreeFds)
       IN  /\ conn' = [conn EXCEPT ![c] = "open"]
           /\ fdOf' = [fdOf EXCEPT ![c] = f]
           /\ interest' = interest \cup {f}
           /\ ready' = IF Readable(c) THEN ready \cup {f} ELSE ready
           /\ pool' = IF pool[f] = "absent" THEN [pool EXCEPT ![f] = c] ELSE pool
  /\ events' = Tail(events)
  /\ UNCHANGED <<clientVars, arrived, readVars, tasks, buffer, mutex, ran, workerVars>>

\* accept() fails, for want of a descriptor or for a reason of the kernel's,
\* and the client waits until epoll reports the listening socket again.
MainAcceptFails ==
  /\ ~Crashed /\ events # << >> /\ Head(events) = Listening
  /\ events' = Tail(events)
  /\ UNCHANGED <<clientVars, arrived, readVars, conn, epollVars, tasks, pool, buffer, mutex, ran,
                 workerVars>>

MainDispatch ==
  /\ ~Crashed /\ events # << >> /\ Head(events) # Listening
  /\ tasks' = Append(tasks, Head(events))
  /\ events' = Tail(events)
  /\ UNCHANGED <<clientVars, arrived, readVars, conn, epollVars, pool, buffer, mutex, ran, workerVars>>
-----------------------------------------------------------------------------
(* A worker: _ServerRead and _DoRead                                       *)

Finish(w) ==
  /\ Goto(w, "idle")
  /\ fd' = [fd EXCEPT ![w] = Nobody] /\ buf' = [buf EXCEPT ![w] = Nobody]
  /\ sock' = [sock EXCEPT ![w] = Nobody] /\ call' = [call EXCEPT ![w] = Nobody]
  /\ last' = [last EXCEPT ![w] = FALSE]

Lock(w, b) == mutex[b] = Nobody /\ mutex' = [mutex EXCEPT ![b] = w]
Unlock(b) == mutex' = [mutex EXCEPT ![b] = Nobody]

TaskStart(w) ==
  /\ At(w, "idle") /\ tasks # << >>
  /\ fd' = [fd EXCEPT ![w] = Head(tasks)]
  /\ tasks' = Tail(tasks)
  /\ Goto(w, "lookup")
  /\ UNCHANGED <<clientVars, arrived, readVars, conn, epollVars, events, pool, buffer, mutex, ran,
                 buf, sock, call, last>>

\* operator[] of the map makes an entry where there is none.
Lookup(w) ==
  /\ At(w, "lookup")
  /\ IF pool[fd[w]] \in Clients
     THEN /\ buf' = [buf EXCEPT ![w] = pool[fd[w]]]
          /\ Goto(w, "lock")
          /\ UNCHANGED <<pool, fd, sock, call, last>>
     ELSE /\ pool' = [pool EXCEPT ![fd[w]] = "null"]
          /\ Finish(w)
  /\ UNCHANGED <<clientVars, arrived, readVars, conn, epollVars, events, tasks, buffer, mutex, ran>>

\* The kernel resolves the descriptor when read() is entered.
ReadLock(w) ==
  /\ At(w, "lock")
  /\ Lock(w, buf[w])
  /\ sock' = [sock EXCEPT ![w] = SocketAt(fd[w])]
  /\ Goto(w, "read")
  /\ UNCHANGED <<clientVars, arrived, readVars, conn, epollVars, events, tasks, pool, buffer, ran,
                 fd, buf, call, last>>

\* The units one read() takes from the socket: those that wait, as far as they
\* fit into its array, which may end within a call.
Incoming(w) ==
  [i \in 1 .. Min({arrived[sock[w]] - taken[sock[w]], Capacity}) |->
     Unit(sock[w], taken[sock[w]] + i)]

Consume(w) == taken' = [taken EXCEPT ![sock[w]] = @ + Len(Incoming(w))]

\* Mutant: the mutex is not released before the buffer is served.
ReadStoreHolding(w) ==
  /\ At(w, "read") /\ sock[w] # Nobody /\ Incoming(w) # << >>
  /\ Len(buffer[buf[w]]) + Len(Incoming(w)) <= Capacity
  /\ buffer' = [buffer EXCEPT ![buf[w]] = @ \o Incoming(w)]
  /\ Consume(w)
  /\ UNCHANGED mutex
  /\ IF Len(Incoming(w)) < 2
     THEN Finish(w)
     ELSE Goto(w, "serve") /\ UNCHANGED <<fd, buf, sock, call, last>>
  /\ UNCHANGED <<clientVars, arrived, dropped, conn, epollVars, events, tasks, pool, ran>>

\* What was read is stored if the buffer has room for all of it; less than a
\* header is left for the next event.
ReadStore(w) ==
  /\ At(w, "read") /\ sock[w] # Nobody /\ Incoming(w) # << >>
  /\ Len(buffer[buf[w]]) + Len(Incoming(w)) <= Capacity
  /\ buffer' = [buffer EXCEPT ![buf[w]] = @ \o Incoming(w)]
  /\ Consume(w)
  /\ Unlock(buf[w])
  /\ IF Len(Incoming(w)) < 2
     THEN Finish(w)
     ELSE Goto(w, "serve") /\ UNCHANGED <<fd, buf, sock, call, last>>
  /\ UNCHANGED <<clientVars, arrived, dropped, conn, epollVars, events, tasks, pool, ran>>

\* Mutant: an empty read ends the task and nothing else.
ReadNothingIgnored(w) ==
  /\ At(w, "read")
  /\ \/ sock[w] = Nobody
     \/ sock[w] # Nobody /\ Incoming(w) = << >> /\ hangup[sock[w]]
  /\ Unlock(buf[w])
  /\ Finish(w)
  /\ UNCHANGED <<clientVars, arrived, readVars, conn, epollVars, events, tasks, pool, buffer, ran>>

\* The end of the stream and an error of read() end the connection.
ReadNothing(w) ==
  /\ At(w, "read")
  /\ \/ sock[w] = Nobody
     \/ sock[w] # Nobody /\ Incoming(w) = << >> /\ hangup[sock[w]]
  /\ Unlock(buf[w])
  /\ Goto(w, "drop")
  /\ UNCHANGED <<clientVars, arrived, readVars, conn, epollVars, events, tasks, pool, buffer, ran,
                 fd, buf, sock, call, last>>

\* What there is no room for is lost and taken for the end of the connection.
ReadNoRoom(w) ==
  /\ At(w, "read") /\ sock[w] # Nobody /\ Incoming(w) # << >>
  /\ Len(buffer[buf[w]]) + Len(Incoming(w)) > Capacity
  /\ Consume(w)
  /\ dropped' = [dropped EXCEPT ![sock[w]] =
                   @ \cup {CallOf(Incoming(w)[i]) : i \in DOMAIN Incoming(w)}]
  /\ Unlock(buf[w])
  /\ Goto(w, "drop")
  /\ UNCHANGED <<clientVars, arrived, conn, epollVars, events, tasks, pool, buffer, ran,
                 fd, buf, sock, call, last>>
-----------------------------------------------------------------------------
(* A worker: _DoWriteFunctionCall and _Write                               *)

ServeLock(w) ==
  /\ At(w, "serve")
  /\ Lock(w, buf[w])
  /\ Goto(w, "cut")
  /\ UNCHANGED <<clientVars, arrived, readVars, conn, epollVars, events, tasks, pool, buffer, ran,
                 fd, buf, sock, call, last>>

\* What serving the buffer leads to: the end of the task or of the connection.
Served(w) ==
  /\ Unlock(buf[w])
  /\ IF last[w] THEN Goto(w, "erase") /\ UNCHANGED <<fd, buf, sock, call, last>> ELSE Finish(w)

\* An exception leaves the function, the task and, on the way, the mutex.
Thrown(w) == Unlock(buf[w]) /\ Finish(w)

\* The two bytes read as a header, the buffer behind them, and the sizes the
\* header can be found to announce: any, unless it is the header of a call.
Header(w) == Take(buffer[buf[w]], 2)
Rest(w) == Drop(buffer[buf[w]], 2)
IsHeader(w) ==
  /\ Len(Header(w)) = 2 /\ Header(w)[1].at % MsgSize = 1
  /\ Header(w)[2] = Unit(Header(w)[1].client, Header(w)[1].at + 1)
Announced(w) == IF IsHeader(w) THEN {BodySize} ELSE 0 .. BodySize

\* The call that is found behind the header, given the announced size: whole if
\* the units of its body follow, none of them missing.
Follows(w, size) ==
  /\ Len(Rest(w)) >= size
  /\ \A i \in 1 .. size : Rest(w)[i] = Unit(Header(w)[1].client, Header(w)[1].at + 1 + i)
CallIn(w, size) == IF IsHeader(w) /\ Follows(w, size) THEN CallOf(Header(w)[1]) ELSE Fragment

\* Mutant: the mutex stays locked.
ServeDoneHolding(w) ==
  /\ At(w, "cut")
  /\ buffer[buf[w]] = << >>
  /\ IF last[w] THEN Goto(w, "erase") /\ UNCHANGED <<fd, buf, sock, call, last>> ELSE Finish(w)
  /\ UNCHANGED <<clientVars, arrived, readVars, conn, epollVars, events, tasks, pool, buffer, mutex,
                 ran>>

ServeDone(w) ==
  /\ At(w, "cut")
  /\ buffer[buf[w]] = << >>
  /\ Served(w)
  /\ UNCHANGED <<clientVars, arrived, readVars, conn, epollVars, events, tasks, pool, buffer, ran>>

\* Mutant: the header is not put back.
ServePostponeLosing(w) ==
  /\ At(w, "cut") /\ buffer[buf[w]] # << >>
  /\ \E size \in Announced(w) : Capacity - Len(Rest(w)) < size
  /\ buffer' = [buffer EXCEPT ![buf[w]] = Rest(w)]
  /\ Served(w)
  /\ UNCHANGED <<clientVars, arrived, readVars, conn, epollVars, events, tasks, pool, ran>>

\* The size is compared with the room left in the buffer; the header is put
\* back if that is the smaller.
ServePostpone(w) ==
  /\ At(w, "cut") /\ buffer[buf[w]] # << >>
  /\ \E size \in Announced(w) : Capacity - Len(Rest(w)) < size
  /\ Served(w)
  /\ UNCHANGED <<clientVars, arrived, readVars, conn, epollVars, events, tasks, pool, buffer, ran>>

\* Mutant: the call stays in the buffer.
ServeRunKeeping(w) ==
  /\ At(w, "cut") /\ buffer[buf[w]] # << >>
  /\ \E size \in Announced(w) :
       LET k == CallIn(w, size)
           c == Header(w)[1].client
       IN  /\ Capacity - Len(Rest(w)) >= size
           /\ k \notin Unknown
           /\ UNCHANGED buffer
           /\ ran' = [ran EXCEPT ![c] = Append(@, k)]
           /\ call' = [call EXCEPT ![w] = <<c, k>>]
  /\ Goto(w, "write")
  /\ UNCHANGED <<clientVars, arrived, readVars, conn, epollVars, events, tasks, pool, mutex,
                 fd, buf, sock, last>>

\* The function is found and run; a fragment may parse as a call.
ServeRun(w) ==
  /\ At(w, "cut") /\ buffer[buf[w]] # << >>
  /\ \E size \in Announced(w) :
       LET k == CallIn(w, size)
           c == Header(w)[1].client
       IN  /\ Capacity - Len(Rest(w)) >= size
           /\ k \notin Unknown
           /\ buffer' = [buffer EXCEPT ![buf[w]] = Drop(Rest(w), size)]
           /\ ran' = [ran EXCEPT ![c] = Append(@, k)]
           /\ call' = [call EXCEPT ![w] = <<c, k>>]
  /\ Goto(w, "write")
  /\ UNCHANGED <<clientVars, arrived, readVars, conn, epollVars, events, tasks, pool, mutex,
                 fd, buf, sock, last>>

\* An empty std::function is called: nobody registered it, or the fragment
\* names none.
ServeThrow(w) ==
  /\ At(w, "cut") /\ buffer[buf[w]] # << >>
  /\ \E size \in Announced(w) :
       /\ Capacity - Len(Rest(w)) >= size
       /\ CallIn(w, size) \in Unknown \cup {Fragment}
       /\ buffer' = [buffer EXCEPT ![buf[w]] = Drop(Rest(w), size)]
  /\ Thrown(w)
  /\ UNCHANGED <<clientVars, arrived, readVars, conn, epollVars, events, tasks, pool, ran>>

\* The result goes to whatever connection has the descriptor by now.
ServeWrite(w) ==
  /\ At(w, "write")
  /\ LET to == SocketAt(fd[w])
     IN  answers' = IF to = Nobody THEN answers
                    ELSE [answers EXCEPT ![to] = Append(@, call[w])]
  /\ call' = [call EXCEPT ![w] = Nobody]
  /\ Goto(w, "cut")
  /\ UNCHANGED <<sent, arrived, readVars, hangup, conn, epollVars, events, tasks, pool, buffer,
                 mutex, ran, fd, buf, sock, last>>
-----------------------------------------------------------------------------
(* A worker: _DoDisconnect                                                 *)

\* The connection that has the descriptor is no longer watched.
DropWatch(w) ==
  /\ At(w, "drop")
  /\ interest' = interest \ {fd[w]} /\ ready' = ready \ {fd[w]}
  /\ Goto(w, "dropLookup")
  /\ UNCHANGED <<clientVars, arrived, readVars, conn, fdOf, events, tasks, pool, buffer, mutex, ran,
                 fd, buf, sock, call, last>>

\* IsEmpty is called without the mutex, and without a look at the pointer.
DropLookup(w) ==
  /\ At(w, "dropLookup")
  /\ IF pool[fd[w]] \in Clients
     THEN /\ buf' = [buf EXCEPT ![w] = pool[fd[w]]]
          /\ LET left == buffer[pool[fd[w]]] # << >>
             IN  /\ last' = [last EXCEPT ![w] = left]
                 /\ Goto(w, IF left THEN "serve" ELSE "eraseEmpty")
          /\ UNCHANGED pool
     ELSE /\ pool' = [pool EXCEPT ![fd[w]] = "null"]
          /\ Goto(w, "crashed")
          /\ UNCHANGED <<buf, last>>
  /\ UNCHANGED <<clientVars, arrived, readVars, conn, epollVars, events, tasks, buffer, mutex, ran,
                 fd, sock, call>>

\* Mutant: the entry stays in the map.
EraseNothing(w) ==
  /\ \/ At(w, "eraseEmpty") /\ Goto(w, "erase")
     \/ At(w, "erase") /\ Goto(w, "close")
  /\ UNCHANGED pool
  /\ UNCHANGED <<clientVars, arrived, readVars, conn, epollVars, events, tasks, buffer, mutex, ran,
                 fd, buf, sock, call, last>>

\* The entry of an empty buffer is erased twice.
Erase(w) ==
  /\ \/ At(w, "eraseEmpty") /\ Goto(w, "erase")
     \/ At(w, "erase") /\ Goto(w, "close")
  /\ pool' = [pool EXCEPT ![fd[w]] = "absent"]
  /\ UNCHANGED <<clientVars, arrived, readVars, conn, epollVars, events, tasks, buffer, mutex, ran,
                 fd, buf, sock, call, last>>

Close(w) ==
  /\ At(w, "close")
  /\ LET c == SocketAt(fd[w])
     IN  IF c = Nobody THEN UNCHANGED <<conn, fdOf, interest, ready>>
         ELSE /\ conn' = [conn EXCEPT ![c] = "closed"]
              /\ fdOf' = [fdOf EXCEPT ![c] = Nobody]
              /\ interest' = interest \ {fd[w]} /\ ready' = ready \ {fd[w]}
  /\ Finish(w)
  /\ UNCHANGED <<clientVars, arrived, readVars, events, tasks, pool, buffer, mutex, ran>>
-----------------------------------------------------------------------------
Client(c) == ClientConnect(c) \/ ClientSend(c) \/ ClientHangUp(c)
Main == EpollWait \/ MainAccept \/ MainAcceptFails \/ MainDispatch
Serve(w) == ServeDone(w) \/ ServePostpone(w) \/ ServeRun(w) \/ ServeThrow(w) \/ ServeWrite(w)
Disconnect(w) == DropWatch(w) \/ DropLookup(w) \/ Erase(w) \/ Close(w)
Worker(w) ==
  \/ TaskStart(w) \/ Lookup(w) \/ ReadLock(w) \/ ReadStore(w) \/ ReadNothing(w)
  \/ ReadNoRoom(w) \/ ServeLock(w) \/ Serve(w) \/ Disconnect(w)

Next ==
  \/ \E c \in Clients : Client(c) \/ Arrive(c)
  \/ Main
  \/ \E w \in Workers : Worker(w)

Spec == Init /\ [][Next]_vars

\* The threads run whenever they can, and what was sent arrives; no client has
\* to connect, to call or to hang up.
Fairness ==
  /\ WF_vars(Main)
  /\ \A w \in Workers : WF_vars(Worker(w))
  /\ \A c \in Clients : WF_vars(Arrive(c))

FairSpec == Spec /\ Fairness
-----------------------------------------------------------------------------
(* Correctness                                                             *)

Labels == {"idle", "lookup", "lock", "read", "serve", "cut", "write", "drop", "dropLookup",
           "eraseEmpty", "erase", "close", "crashed"}
Units == [client : Clients, at : 1 .. MaxCalls * MsgSize]

\* Counters stay within the stream, buffers within their room, and a mutex is
\* held by the workers that stand where the code holds it.
TypeOK ==
  /\ \A c \in Clients :
       /\ 0 <= taken[c] /\ taken[c] <= arrived[c] /\ arrived[c] <= sent[c] * MsgSize
       /\ sent[c] <= MaxCalls /\ dropped[c] \subseteq 1 .. sent[c]
       /\ conn[c] \in {"none", "pending", "open", "closed"} /\ hangup[c] \in BOOLEAN
       /\ conn[c] = "open" <=> fdOf[c] \in Fds
       /\ buffer[c] \in Seq(Units) /\ Len(buffer[c]) <= Capacity
       /\ mutex[c] # Nobody => /\ pc[mutex[c]] \in {"read", "cut", "write"}
                               /\ buf[mutex[c]] = c
       /\ ran[c] \in Seq(0 .. MaxCalls)
       /\ answers[c] \in Seq(Clients \X (0 .. MaxCalls))
  /\ interest \subseteq Fds /\ ready \subseteq interest
  /\ events \in Seq(Fds \cup {Listening}) /\ tasks \in Seq(Fds)
  /\ pool \in [Fds -> Clients \cup {"null", "absent"}]
  /\ \A w \in Workers :
       /\ pc[w] \in Labels /\ last[w] \in BOOLEAN
       /\ call[w] \in (Clients \X (0 .. MaxCalls)) \cup {Nobody}
       /\ fd[w] \in Fds <=> pc[w] # "idle"
       /\ {buf[w], sock[w]} \subseteq Clients \cup {Nobody}
       /\ call[w] # Nobody <=> pc[w] = "write"

\* Line 26 of Net.cpp never dereferences the null pointer that operator[] has
\* put into the map: a connection is taken down by one worker only.
NoNullBuffer == ~Crashed

\* The bytes of one connection never reach the buffer of another, though
\* descriptor numbers are used again and workers keep stale ones.
OwnBytes == \A c \in Clients : \A i \in 1 .. Len(buffer[c]) : buffer[c][i].client = c

\* Every call that is run was read to its end.
OnlyWholeCalls == \A c \in Clients : \A i \in 1 .. Len(ran[c]) : ran[c][i] # Fragment

\* The server runs the calls of each client in order, at most once, skips none
\* that had room and a function, and gives each client the results of its own
\* calls.
Service == INSTANCE RpcService
ServiceSpec == Service!Spec

\* A call on a connection the server has accepted is answered, if its function
\* is registered.  (A connection may wait for a descriptor for ever: nobody has
\* to hang up.)
EveryCallAnswered ==
  \A c \in Clients : \A k \in (1 .. MaxCalls) \ Unknown :
    conn[c] = "open" /\ sent[c] >= k ~> \E i \in 1 .. Len(answers[c]) : answers[c][i] = <<c, k>>

\* A connection whose client has hung up is closed, and its descriptor free.
ConnectionsReleased == \A c \in Clients : conn[c] = "open" /\ hangup[c] ~> conn[c] = "closed"
=============================================================================
