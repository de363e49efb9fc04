------------------------------ MODULE RpcClient ------------------------------
(***************************************************************************)
(* The client: test/rpcclient/RpcClient.cpp over the client side of        *)
(* yi::Net.  The application's calls, the event loop and every read of the *)
(* connection are tasks of one thread pool (the promise TaskPool: first    *)
(* in, first out, one worker each); the event loop keeps its worker for    *)
(* ever.  A reader stores what arrived in the connection's buffer and cuts *)
(* it into answers, whose callbacks it runs with the buffer's mutex held.  *)
(*                                                                         *)
(* Calls are numbered; an answer bears the number of its call and is read  *)
(* as a whole.  The application waits for the callback of a call before it *)
(* makes the next one, unless the call has none or is known to have an     *)
(* answer too large for the buffer.                                        *)
(***************************************************************************)
EXTENDS Naturals, Sequences, Functions

CONSTANTS Workers,
          MaxCalls,      \* a bound: the application makes the calls 1 .. MaxCalls
          NoCallback,    \* the calls of functions without a callback
          Large,         \* the calls with an answer larger than half the buffer
          SmallBody, LargeBody,  \* the sizes of an answer's body
          Capacity,      \* the room of the buffer, and of one read()
          Nobody         \* no worker, no call

ASSUME CallsAssumption == MaxCalls \in Nat /\ NoCallback \subseteq Nat /\ Large \subseteq Nat
ASSUME SizesAssumption ==
  /\ {SmallBody, LargeBody, Capacity} \subseteq Nat
  /\ 2 * SmallBody <= Capacity /\ SmallBody + 2 <= Capacity /\ LargeBody + 2 <= Capacity
ASSUME NobodyAssumption == Nobody \notin Workers \cup Nat

Calls == 1 .. MaxCalls
HeaderSize == 2
Body(k) == IF k \in Large THEN LargeBody ELSE SmallBody
SizeOf[answers \in Seq(Calls)] ==
  IF answers = << >> THEN 0
  ELSE HeaderSize + Body(Head(answers)) + SizeOf[Tail(answers)]

VARIABLES
  app,        \* how far the application is: "begin", "connected" or "started"
  made,       \* how many calls it has made
  tasks,      \* the tasks that wait in the pool
  \* the connection and the server
  conn,       \* "none", "open", "closing" (by the server), "reset" or "closed"
  sent,       \* the calls written to the connection
  answered,   \* the calls the server has answered
  arrived,    \* how many of the answers have arrived
  taken,      \* how many of them a read() has taken
  dropped,    \* those that were read and found no room
  watched,    \* whether epoll watches the connection
  ready,      \* whether there is an edge not yet reported
  \* the client's side of it
  entry,      \* _connection_buffer_pool[fd]: "buffer", "null" or "absent"
  buffer,     \* the answers in the buffer
  mutex,      \* who holds the buffer's mutex
  called,     \* the answers whose callbacks were run
  \* the workers
  pc,
  item,       \* the call a worker is to send
  last        \* whether it serves the buffer for the last time

appVars == <<app, made>>
serverVars == <<sent, answered, arrived>>
readVars == <<taken, dropped>>
epollVars == <<watched, ready>>
bufferVars == <<entry, buffer, mutex, called>>
workerVars == <<pc, item, last>>
vars == <<app, made, tasks, conn, sent, answered, arrived, taken, dropped, watched, ready, entry,
          buffer, mutex, called, pc, item, last>>

Init ==
  /\ app = "begin" /\ made = 0
  /\ tasks = << >>
  /\ conn = "none" /\ sent = << >> /\ answered = << >> /\ arrived = 0
  /\ taken = 0 /\ dropped = {}
  /\ watched = FALSE /\ ready = FALSE
  /\ entry = "absent" /\ buffer = << >> /\ mutex = Nobody /\ called = << >>
  /\ pc = [w \in Workers |-> "idle"]
  /\ item = [w \in Workers |-> Nobody]
  /\ last = [w \in Workers |-> FALSE]

\* A null pointer was used, or SIGPIPE has ended the process.
Crashed == \E w \in Workers : pc[w] = "crashed"
Dead == Crashed \/ \E w \in Workers : pc[w] = "killed"

At(w, label) == ~Dead /\ pc[w] = label
Goto(w, label) == pc' = [pc EXCEPT ![w] = label]

Finish(w) ==
  /\ Goto(w, "idle")
  /\ item' = [item EXCEPT ![w] = Nobody] /\ last' = [last EXCEPT ![w] = FALSE]

\* The answers waiting in the socket.
Unread == SubSeq(answered, taken + 1, arrived)

\* read() would not wait: there is data, the end of the stream or an error.
Readable == Unread # << >> \/ conn \in {"closing", "reset", "closed"}
-----------------------------------------------------------------------------
(* The application                                                         *)

Connect ==
  /\ app = "begin" /\ app' = "connected"
  /\ conn' = "open" /\ entry' = "buffer"
  /\ UNCHANGED <<made, tasks, serverVars, readVars, epollVars, buffer, mutex, called, workerVars>>

\* RpcClient::Connect does not pass on that Net::Connect has failed.
ConnectFails ==
  /\ app = "begin" /\ app' = "connected"
  /\ UNCHANGED <<made, tasks, conn, serverVars, readVars, epollVars, bufferVars, workerVars>>

Start ==
  /\ ~Dead /\ app = "connected" /\ app' = "started"
  /\ tasks' = Append(tasks, [kind |-> "loop", call |-> Nobody])
  /\ UNCHANGED <<made, conn, serverVars, readVars, epollVars, bufferVars, workerVars>>

\* The calls the application does not wait for.
Unawaited == NoCallback \cup Large

CallFunction ==
  /\ ~Dead /\ app = "started"
  /\ made < MaxCalls /\ 1 .. made \subseteq Range(called) \cup Unawaited
  /\ made' = made + 1
  /\ tasks' = Append(tasks, [kind |-> "send", call |-> made + 1])
  /\ UNCHANGED <<app, conn, serverVars, readVars, epollVars, bufferVars, workerVars>>
-----------------------------------------------------------------------------
(* The server and the network                                              *)

Answer ==
  /\ conn = "open" /\ Len(answered) < Len(sent)
  /\ answered' = Append(answered, sent[Len(answered) + 1])
  /\ UNCHANGED <<appVars, tasks, conn, sent, arrived, readVars, epollVars, bufferVars, workerVars>>

\* Answers arrive one or several at a time, as many as one read() can take.
Arrive ==
  /\ conn = "open"
  /\ \E n \in arrived + 1 .. Len(answered) :
       /\ SizeOf[SubSeq(answered, taken + 1, n)] <= Capacity
       /\ arrived' = n
  /\ ready' = watched
  /\ UNCHANGED <<appVars, tasks, conn, sent, answered, readVars, watched, bufferVars, workerVars>>

ServerCloses ==
  /\ conn = "open" /\ arrived = Len(answered)
  /\ conn' = "closing"
  /\ ready' = watched
  /\ UNCHANGED <<appVars, tasks, serverVars, readVars, watched, bufferVars, workerVars>>
-----------------------------------------------------------------------------
(* The worker that runs Net::Start                                         *)

TaskStart(w) ==
  /\ At(w, "idle") /\ tasks # << >>
  /\ tasks' = Tail(tasks)
  /\ Goto(w, Head(tasks).kind)
  /\ item' = [item EXCEPT ![w] = Head(tasks).call]
  /\ UNCHANGED <<appVars, conn, serverVars, readVars, epollVars, bufferVars, last>>

\* Mutant: what has arrived before is no edge.
LoopWatchLate(w) ==
  /\ At(w, "loop")
  /\ watched' = (conn # "closed") /\ ready' = FALSE
  /\ Goto(w, "wait")
  /\ UNCHANGED <<appVars, tasks, conn, serverVars, readVars, bufferVars, item, last>>

\* Adding the descriptor is an edge if it is readable already.
LoopWatch(w) ==
  /\ At(w, "loop")
  /\ watched' = (conn # "closed") /\ ready' = (conn # "closed" /\ Readable)
  /\ Goto(w, "wait")
  /\ UNCHANGED <<appVars, tasks, conn, serverVars, readVars, bufferVars, item, last>>

\* Mutant: the connection is watched without EPOLLET.
LoopWaitLevel(w) ==
  /\ At(w, "wait") /\ ready /\ Readable
  /\ UNCHANGED ready
  /\ Goto(w, IF conn = "reset" THEN "wait" ELSE "dispatch")
  /\ UNCHANGED <<appVars, tasks, conn, serverVars, readVars, watched, bufferVars, item, last>>

\* An event that is not EPOLLIN alone, as after a reset, is passed over.
LoopWait(w) ==
  /\ At(w, "wait") /\ ready /\ Readable
  /\ ready' = FALSE
  /\ Goto(w, IF conn = "reset" THEN "wait" ELSE "dispatch")
  /\ UNCHANGED <<appVars, tasks, conn, serverVars, readVars, watched, bufferVars, item, last>>

LoopDispatch(w) ==
  /\ At(w, "dispatch")
  /\ tasks' = Append(tasks, [kind |-> "read", call |-> Nobody])
  /\ Goto(w, "wait")
  /\ UNCHANGED <<appVars, conn, serverVars, readVars, epollVars, bufferVars, item, last>>
-----------------------------------------------------------------------------
(* A worker that sends a call                                              *)

\* One write(), header and body.  After the server has closed, the first one
\* resets the connection and the next one raises SIGPIPE.
Send(w) ==
  /\ At(w, "send")
  /\ CASE conn = "open" -> /\ sent' = Append(sent, item[w])
                           /\ Finish(w) /\ UNCHANGED <<conn, ready>>
       [] conn = "closing" -> /\ conn' = "reset" /\ ready' = watched
                              /\ Finish(w) /\ UNCHANGED sent
       [] conn = "closed" -> Finish(w) /\ UNCHANGED <<conn, ready, sent>>
       [] OTHER -> Goto(w, "killed") /\ UNCHANGED <<conn, ready, sent, item, last>>
  /\ UNCHANGED <<appVars, tasks, answered, arrived, readVars, watched, bufferVars>>
-----------------------------------------------------------------------------
(* A worker that reads: _ClientRead, _DoRead and ReadFromSocket            *)

Lock(w) == mutex = Nobody /\ mutex' = w
Unlock == mutex' = Nobody

\* operator[] of the map makes an entry where there is none; without a buffer
\* nothing is read, and _ClientRead takes that for the end.
Lookup(w) ==
  /\ At(w, "read")
  /\ IF entry = "buffer" THEN Goto(w, "lock") /\ UNCHANGED entry
     ELSE Goto(w, "drop") /\ entry' = "null"
  /\ UNCHANGED <<appVars, tasks, conn, serverVars, readVars, epollVars, buffer, mutex, called, item,
                 last>>

ReadLock(w) ==
  /\ At(w, "lock")
  /\ Lock(w)
  /\ Goto(w, "reading")
  /\ UNCHANGED <<appVars, tasks, conn, serverVars, readVars, epollVars, entry, buffer, called, item,
                 last>>

\* Mutant: the mutex is not released before the buffer is served.
ReadStoreHolding(w) ==
  /\ At(w, "reading") /\ Unread # << >>
  /\ SizeOf[buffer \o Unread] <= Capacity
  /\ buffer' = buffer \o Unread
  /\ taken' = arrived
  /\ UNCHANGED <<mutex, dropped>>
  /\ Goto(w, "serve")
  /\ UNCHANGED <<appVars, tasks, conn, serverVars, epollVars, entry, called, item, last>>

ReadStore(w) ==
  /\ At(w, "reading") /\ Unread # << >>
  /\ SizeOf[buffer \o Unread] <= Capacity
  /\ buffer' = buffer \o Unread
  /\ taken' = arrived /\ UNCHANGED dropped
  /\ Unlock
  /\ Goto(w, "serve")
  /\ UNCHANGED <<appVars, tasks, conn, serverVars, epollVars, entry, called, item, last>>

\* Data there is no room for is lost and taken for the end of the connection.
ReadNoRoom(w) ==
  /\ At(w, "reading") /\ Unread # << >>
  /\ SizeOf[buffer \o Unread] > Capacity
  /\ taken' = arrived /\ dropped' = dropped \cup Range(Unread)
  /\ Unlock
  /\ Goto(w, "drop")
  /\ UNCHANGED <<appVars, tasks, conn, serverVars, epollVars, entry, buffer, called, item, last>>

ReadNothing(w) ==
  /\ At(w, "reading") /\ Unread = << >> /\ Readable
  /\ Unlock
  /\ Goto(w, "drop")
  /\ UNCHANGED <<appVars, tasks, conn, serverVars, readVars, epollVars, entry, buffer, called, item,
                 last>>
-----------------------------------------------------------------------------
(* A worker that serves the buffer: _DoWriteFunctionRet                    *)

ServeLock(w) ==
  /\ At(w, "serve")
  /\ Lock(w)
  /\ Goto(w, "cut")
  /\ UNCHANGED <<appVars, tasks, conn, serverVars, readVars, epollVars, entry, buffer, called, item,
                 last>>

\* The mutex is released, and the task or the connection comes to its end.
Served(w) ==
  /\ Unlock
  /\ IF last[w] THEN Goto(w, "erase") /\ UNCHANGED <<item, last>> ELSE Finish(w)

\* The room that is left when the header of the first answer is taken out.
Remain == Capacity - (SizeOf[buffer] - HeaderSize)

ServeDone(w) ==
  /\ At(w, "cut") /\ buffer = << >>
  /\ Served(w)
  /\ UNCHANGED <<appVars, tasks, conn, serverVars, readVars, epollVars, entry, buffer, called>>

\* The size is compared with the room left; the header is put back.
ServePostpone(w) ==
  /\ At(w, "cut") /\ buffer # << >> /\ Remain < Body(Head(buffer))
  /\ Served(w)
  /\ UNCHANGED <<appVars, tasks, conn, serverVars, readVars, epollVars, entry, buffer, called>>

\* Mutant: the answer stays in the buffer.
ServeCallKeeping(w) ==
  /\ At(w, "cut") /\ buffer # << >> /\ Remain >= Body(Head(buffer))
  /\ Head(buffer) \notin NoCallback
  /\ UNCHANGED buffer
  /\ called' = Append(called, Head(buffer))
  /\ Goto(w, "callback")
  /\ UNCHANGED <<appVars, tasks, conn, serverVars, readVars, epollVars, entry, mutex, item, last>>

\* The callback begins; it may tell the application at once.
ServeCall(w) ==
  /\ At(w, "cut") /\ buffer # << >> /\ Remain >= Body(Head(buffer))
  /\ Head(buffer) \notin NoCallback
  /\ buffer' = Tail(buffer)
  /\ called' = Append(called, Head(buffer))
  /\ Goto(w, "callback")
  /\ UNCHANGED <<appVars, tasks, conn, serverVars, readVars, epollVars, entry, mutex, item, last>>

CallbackReturns(w) ==
  /\ At(w, "callback")
  /\ Goto(w, "cut")
  /\ UNCHANGED <<appVars, tasks, conn, serverVars, readVars, epollVars, bufferVars, item, last>>

\* An empty std::function is called: the exception ends the task.
ServeThrow(w) ==
  /\ At(w, "cut") /\ buffer # << >> /\ Remain >= Body(Head(buffer))
  /\ Head(buffer) \in NoCallback
  /\ buffer' = Tail(buffer)
  /\ Unlock /\ Finish(w)
  /\ UNCHANGED <<appVars, tasks, conn, serverVars, readVars, epollVars, entry, called>>
-----------------------------------------------------------------------------
(* A worker that takes the connection down: _DoDisconnect                  *)

DropWatch(w) ==
  /\ At(w, "drop")
  /\ watched' = FALSE /\ ready' = FALSE
  /\ Goto(w, "dropLookup")
  /\ UNCHANGED <<appVars, tasks, conn, serverVars, readVars, bufferVars, item, last>>

\* IsEmpty is called without the mutex, and without a look at the pointer.
DropLookup(w) ==
  /\ At(w, "dropLookup")
  /\ IF entry = "buffer"
     THEN /\ last' = [last EXCEPT ![w] = buffer # << >>]
          /\ Goto(w, IF buffer # << >> THEN "serve" ELSE "eraseEmpty")
          /\ UNCHANGED entry
     ELSE Goto(w, "crashed") /\ entry' = "null" /\ UNCHANGED last
  /\ UNCHANGED <<appVars, tasks, conn, serverVars, readVars, epollVars, buffer, mutex, called, item>>

Erase(w) ==
  /\ \/ At(w, "eraseEmpty") /\ Goto(w, "erase")
     \/ At(w, "erase") /\ Goto(w, "close")
  /\ entry' = "absent"
  /\ UNCHANGED <<appVars, tasks, conn, serverVars, readVars, epollVars, buffer, mutex, called, item,
                 last>>

Close(w) ==
  /\ At(w, "close")
  /\ conn' = "closed" /\ watched' = FALSE /\ ready' = FALSE
  /\ Finish(w)
  /\ UNCHANGED <<appVars, tasks, serverVars, readVars, bufferVars>>
-----------------------------------------------------------------------------
Application == Connect \/ ConnectFails \/ Start \/ CallFunction
Network == Answer \/ Arrive
Loop(w) == LoopWatch(w) \/ LoopWait(w) \/ LoopDispatch(w)
Read(w) == Lookup(w) \/ ReadLock(w) \/ ReadStore(w) \/ ReadNoRoom(w) \/ ReadNothing(w)
Serve(w) ==
  \/ ServeLock(w) \/ ServeDone(w) \/ ServePostpone(w) \/ ServeCall(w) \/ CallbackReturns(w)
  \/ ServeThrow(w)
Disconnect(w) == DropWatch(w) \/ DropLookup(w) \/ Erase(w) \/ Close(w)
Worker(w) == TaskStart(w) \/ Loop(w) \/ Send(w) \/ Read(w) \/ Serve(w) \/ Disconnect(w)

Next ==
  \/ Application \/ Network \/ ServerCloses
  \/ \E w \in Workers : Worker(w)

Spec == Init /\ [][Next]_vars

\* The workers run whenever they can, the server answers and answers arrive;
\* callbacks return.  Nobody has to call, and the server need not close.
FairSpec == Spec /\ WF_vars(Network) /\ \A w \in Workers : WF_vars(Worker(w))
-----------------------------------------------------------------------------
(* Correctness                                                             *)

Labels == {"idle", "loop", "wait", "dispatch", "send", "read", "lock", "reading", "serve", "cut",
           "callback", "drop", "dropLookup", "eraseEmpty", "erase", "close", "crashed", "killed"}

\* The buffer keeps within its room, epoll watches no closed descriptor, and
\* the mutex is held by the worker that stands where the code holds it.
TypeOK ==
  /\ app \in {"begin", "connected", "started"} /\ made \in 0 .. MaxCalls
  /\ tasks \in Seq([kind : {"send"}, call : Calls] \cup [kind : {"loop", "read"}, call : {Nobody}])
  /\ conn \in {"none", "open", "closing", "reset", "closed"}
  /\ {sent, answered, called, buffer} \subseteq Seq(Calls) /\ dropped \subseteq Calls
  /\ taken \in 0 .. arrived /\ arrived \in 0 .. Len(answered) /\ Len(answered) <= Len(sent)
  /\ {watched, ready} \subseteq BOOLEAN /\ (ready => watched) /\ (conn = "closed" => ~watched)
  /\ entry \in {"buffer", "null", "absent"} /\ SizeOf[buffer] <= Capacity
  /\ pc \in [Workers -> Labels] /\ item \in [Workers -> Calls \cup {Nobody}]
  /\ last \in [Workers -> BOOLEAN] /\ mutex \in Workers \cup {Nobody}
  /\ \A w \in Workers :
       /\ item[w] \in Calls <=> pc[w] \in {"send", "killed"}
       /\ mutex = w <=> pc[w] \in {"reading", "cut", "callback"}

\* Each call goes out once, and the callbacks are run once for each answer, in
\* the order of the answers, although any worker may read or serve.
Promise == INSTANCE RpcCalls
CallbackSpec == Promise!Spec

\* The application has waited for every answer, and none was too large.
Tame(n) == (1 .. n) \cap Unawaited = {}

\* Line 26 of Net.cpp never dereferences the null pointer that operator[] has
\* put into the map, whenever the server closes the connection: the client has
\* no test for it as the server has.
NoNullBuffer == Tame(made) => ~Crashed

\* A call made while the connection is open has its callback run, unless the
\* connection ends before.
EveryCallBack ==
  \A k \in Calls : Tame(k) =>
    (made >= k ~> k \in Range(called) \/ conn # "open")
=============================================================================
