----------------------------- MODULE WireFormat -----------------------------
(***************************************************************************)
(* A call on its way: CallFunction and _Write on the client, the server's  *)
(* _DoWriteFunctionCall with the functions of server.cpp, and the client's *)
(* _DoWriteFunctionRet, byte by byte.  The calls are objects of Messages,  *)
(* which the application may have built, parsed or changed in any way.     *)
(*                                                                         *)
(* A message goes out as a header with the size of what follows, a second  *)
(* header with the size of the message, and the message; what is written   *)
(* at once also arrives at once (RpcServer has the other case).            *)
(***************************************************************************)
EXTENDS Messages

CONSTANTS
  MaxCalls,     \* calls, of objects changed less than MaxSteps times
  Outcomes,     \* where a player gets to: x, y and speed
  Room,         \* items of a connection's RingBuffer
  AddInt,       \* the bytes of the names of functions
  PlayerMove,
  AddString,
  Move,         \* the arguments of the player's move in client.cpp
  Page          \* a string of more than 127 bytes

ASSUME WireConstants ==
  /\ \A outcome \in Outcomes : \A d \in {outcome.x, outcome.y, outcome.speed} : d \in Seq(Bytes) /\ Len(d) = 8
  /\ MaxCalls \in Nat /\ Room \in Nat \ {0}
  /\ {AddInt, PlayerMove, AddString} \subseteq Seq(Bytes)

VARIABLES
  queued,       \* tasks of CallFunction that no worker has run yet
  up, down,     \* what client and server have written: a sequence of bytes each
  serverBox,    \* the bytes in the server's RingBuffer
  serving,      \* where the server's worker is in _DoWriteFunctionCall
  request,      \* its local variable request, and whether it was parsed whole
  clientBox, receiving, reply,  \* the same of _DoWriteFunctionRet
  astray,       \* whether the server has read a message it could not parse
  called,       \* contents of the calls when CallFunction was called
  received,     \* contents of the calls the server has taken from its messages
  results,      \* contents of what they returned
  answered,     \* contents of what callbacks were given
  quiet,        \* no call was changed while its task was queued
  long          \* a message of 128 bytes or more was written

applicationVars == <<messageVars, queued, called, quiet, long>>
serverVars == <<serverBox, serving, request, astray, received, results>>
clientVars == <<clientBox, receiving, reply, answered>>
vars == <<applicationVars, up, down, serverVars, clientVars>>

(***************************************************************************)
(* Parser.h, and the envelopes of RpcClient.cpp and Net.cpp.               *)
(***************************************************************************)
\* YI_CREATE_FUNCTIONCALL(call, name, params, ...): the properties of the
\* parameters are set one by one, then copied into the call.
FillParams(c, properties) ==
  FoldSet(LAMBDA f, o : SetField(c, o, f, properties[f]), New(c), DOMAIN properties)

CreateFunctionCall(name, params, properties) ==
  LET named == SetField("FunctionCall", New("FunctionCall"), "function_name", name)
  IN  CopyFieldFrom("FunctionCall", named, params,
                    FillParams(ClassOf("FunctionCall", params), properties))

\* The calls of client.cpp, and one whose argument does not fit in 127 bytes.
PlayerMoveReq == CreateFunctionCall(PlayerMove, "player_move_params", Move)
AddIntReq == CreateFunctionCall(AddInt, "add_int_params", [left |-> 1, right |-> 2])
LongReq == CreateFunctionCall(AddString, "add_string_params", [left |-> Page, right |-> << >>])

\* MakeRequest, which RpcClient::CallFunction and _DoWriteFunctionCall write
\* out for their own types: a ConnectionReq carries nothing.
Member == [type \in {ConnectionRetType, FunctionCallType, FunctionRetType} |->
             CASE type = ConnectionRetType -> "connection_ret"
               [] type = FunctionCallType -> "function_call"
               [] type = FunctionRetType -> "function_ret"]

MakeRequest(type, body) ==
  LET req == SetField("Request", New("Request"), "call_type", type)
  IN  IF type = ConnectionReqType THEN req ELSE CopyFieldFrom("Request", req, Member[type], body)

Header(size) == Serialize("MsgHeader", SetField("MsgHeader", New("MsgHeader"), "msg_size", size))

\* yi::Serialize: the message behind a header of its own.
SerializeRequest(req) ==
  LET serialized == Serialize("Request", req) IN Header(Len(serialized)) \o serialized

\* Net::_Write: what Serialize returns behind another header.
Package(msg_body) == Header(Len(msg_body)) \o msg_body

\* yi::Parse, which drops what ParseFromString returns.
Parse == [str \in Seq(Bytes) |-> ParseFromString("Request", New("Request"), str)]

(***************************************************************************)
(* One turn of the reading loops, which the server and the client share:   *)
(* two bytes are a header; the message is left for later, header and all,  *)
(* if it is larger than the room left in the ring; else it is parsed, the  *)
(* inner header as if it were the first field of the message.              *)
(***************************************************************************)
HeaderBytes(box) == SubSeq(box, 1, 2)
Behind(box) == SubSeq(box, 3, Len(box))
MsgSize == [str \in Seq(Bytes) |->
              ParseFromString("MsgHeader", New("MsgHeader"), str).o.val.msg_size]
Announced(box) == MsgSize[HeaderBytes(box)]
Remain(bytes) == Room - Len(bytes)
Postponed(box) == Remain(Behind(box)) < Announced(box)
Whole(box) == Min({Announced(box), Len(Behind(box))})    \* Readn stops at the last byte
RequestIn(box) == Parse[SubSeq(Behind(box), 1, Whole(box))]
\* Mutant: the first header is counted as a part of the message.
AfterWithHeader(box) == SubSeq(box, Whole(box) + 1, Len(box))
After(box) == SubSeq(Behind(box), Whole(box) + 1, Len(Behind(box)))

(***************************************************************************)
(* The functions of server.cpp, and what they promise of their results.    *)
(***************************************************************************)
\* add_int_ret.
AddIntRet(call) ==
  LET params == Copy("FunctionCall_AddIntParams", GetField("FunctionCall", call, "add_int_params"))
      res == SetField("FunctionRet_AddIntRet", New("FunctionRet_AddIntRet"), "ret",
                      params.val.left + params.val.right)
      named == SetField("FunctionRet", New("FunctionRet"), "function_name", AddInt)
  IN  CopyFieldFrom("FunctionRet", named, "add_int_ret_params", res)

\* player_move and Player::move; where the player gets to and how fast is left
\* to the computation, the new aspect is the angle of the call.
PlayerMoveRet(call, outcome) ==
  LET params == Copy("FunctionCall_PlayerMoveParams",
                     GetField("FunctionCall", call, "player_move_params"))
      res == FillParams("FunctionRet_PlayerMoveRet",
                        outcome @@ [aspect |-> params.val.angle])
      named == SetField("FunctionRet", New("FunctionRet"), "function_name", PlayerMove)
  IN  CopyFieldFrom("FunctionRet", named, "player_move_ret_params", res)

Registered == {AddInt, PlayerMove}

Returned(call) ==
  IF call.val.function_name = AddInt THEN {AddIntRet(call)}
  ELSE {PlayerMoveRet(call, outcome) : outcome \in Outcomes}

(***************************************************************************)
(* Initial state.                                                          *)
(***************************************************************************)
Init ==
  /\ \/ MessageInit
     \/ /\ class \in Subjects \cap {"FunctionCall"}
        /\ obj \in {PlayerMoveReq, AddIntReq, LongReq}
        /\ record = Contents(class, obj)
        /\ steps = 0
  /\ queued = 0
  /\ up = << >> /\ down = << >>
  /\ serverBox = << >> /\ serving = "idle" /\ request = Parse[<< >>]
  /\ clientBox = << >> /\ receiving = "idle" /\ reply = Parse[<< >>]
  /\ astray = FALSE
  /\ called = << >> /\ received = << >> /\ results = << >> /\ answered = << >>
  /\ quiet = TRUE /\ long = FALSE

(***************************************************************************)
(* The application.                                                        *)
(***************************************************************************)
\* The object is changed, maybe while the task of a call still refers to it.
\* (It would make no difference to what is on its way.)
Change ==
  /\ Len(called) + steps < MaxSteps
  /\ up = << >> /\ down = << >> /\ serving = "idle" /\ receiving = "idle"
  /\ Edit
  /\ quiet' = (quiet /\ queued = 0)
  /\ UNCHANGED <<queued, called, long, up, down, serverVars, clientVars>>

\* A request is made with MakeRequest.
Make ==
  /\ class = "Request"
  /\ \E type \in {ConnectionReqType} \cup DOMAIN Member :
       \E body \in (IF type = ConnectionReqType THEN {New("ConnectionReq")}
                    ELSE Samples(ClassOf("Request", Member[type]))) :
         LET req == MakeRequest(type, body) IN Become(req, Contents("Request", req))
  /\ UNCHANGED <<queued, called, quiet, long, up, down, serverVars, clientVars>>

\* RpcClient::CallFunction: the task refers to the caller's object.
CallFunction ==
  /\ class = "FunctionCall"
  /\ steps < MaxSteps /\ Len(called) < MaxCalls
  /\ called' = Append(called, Contents(class, obj))
  /\ queued' = queued + 1
  /\ UNCHANGED <<messageVars, quiet, long, up, down, serverVars, clientVars>>

\* The task: the call is copied into a request and written.
SendCall ==
  /\ queued > 0
  /\ LET body == SerializeRequest(MakeRequest(FunctionCallType, obj))
     IN  /\ up' = Append(up, Package(body))
         /\ long' = (long \/ Len(body) >= 128)
  /\ queued' = queued - 1
  /\ UNCHANGED <<messageVars, called, quiet, down, serverVars, clientVars>>

(***************************************************************************)
(* The server: _DoWriteFunctionCall.                                       *)
(***************************************************************************)
\* What was written arrives; a reader that has gone astray is not followed.
ServerArrive ==
  /\ serving = "idle" /\ ~astray
  /\ up # << >>
  /\ Len(up[1]) <= Remain(serverBox)
  /\ serverBox' = serverBox \o up[1]
  /\ up' = Tail(up)
  /\ serving' = "reading"
  /\ UNCHANGED <<applicationVars, down, request, clientVars, astray, received, results>>

\* The buffer is empty, or its message is left there.
ServeStop ==
  /\ serving = "reading"
  /\ serverBox # << >> => Postponed(serverBox)
  /\ serving' = "idle"
  /\ UNCHANGED <<applicationVars, up, down, serverBox, request, clientVars, astray, received, results>>

ServeTake ==
  /\ serving = "reading"
  /\ serverBox # << >> /\ ~Postponed(serverBox)
  /\ request' = RequestIn(serverBox)
  /\ serverBox' = After(serverBox)
  /\ serving' = "calling"
  /\ UNCHANGED <<applicationVars, up, down, clientVars, astray, received, results>>

\* The function of that name is run, and its result written.
ServeRun ==
  /\ serving = "calling"
  /\ LET call == Copy("FunctionCall", GetField("Request", request.o, "function_call"))
     IN  /\ call.val.function_name \in Registered
         /\ received' = Append(received, Contents("FunctionCall", call))
         /\ \E ret \in Returned(call) :
              /\ results' = Append(results, Contents("FunctionRet", ret))
              /\ down' = Append(down, Package(SerializeRequest(MakeRequest(FunctionRetType, ret))))
  /\ serving' = "reading"
  /\ UNCHANGED <<applicationVars, up, serverBox, request, clientVars, astray>>

\* The map has no function of that name, and calling none throws.
ServeThrow ==
  /\ serving = "calling"
  /\ LET call == Copy("FunctionCall", GetField("Request", request.o, "function_call"))
     IN  /\ call.val.function_name \notin Registered
         /\ received' = Append(received, Contents("FunctionCall", call))
  /\ astray' = ~request.read
  /\ serving' = "idle"
  /\ UNCHANGED <<applicationVars, up, down, serverBox, request, clientVars, results>>

(***************************************************************************)
(* The client: _DoWriteFunctionRet.                                        *)
(***************************************************************************)
ClientArrive ==
  /\ receiving = "idle"
  /\ down # << >>
  /\ Len(down[1]) <= Remain(clientBox)
  /\ clientBox' = clientBox \o down[1]
  /\ down' = Tail(down)
  /\ receiving' = "reading"
  /\ UNCHANGED <<applicationVars, up, serverVars, reply, answered>>

ReceiveStop ==
  /\ receiving = "reading"
  /\ clientBox # << >> => Postponed(clientBox)
  /\ receiving' = "idle"
  /\ UNCHANGED <<applicationVars, up, down, serverVars, clientBox, reply, answered>>

ReceiveTake ==
  /\ receiving = "reading"
  /\ clientBox # << >> /\ ~Postponed(clientBox)
  /\ reply' = RequestIn(clientBox)
  /\ clientBox' = After(clientBox)
  /\ receiving' = "calling"
  /\ UNCHANGED <<applicationVars, up, down, serverVars, answered>>

\* The callback of the function is given the result; client.cpp sets one for
\* each function the server has.
CallBack ==
  /\ receiving = "calling"
  /\ LET ret == Copy("FunctionRet", GetField("Request", reply.o, "function_ret"))
     IN  /\ ret.val.function_name \in Registered
         /\ answered' = Append(answered, Contents("FunctionRet", ret))
  /\ receiving' = "reading"
  /\ UNCHANGED <<applicationVars, up, down, serverVars, clientBox, reply>>

Next ==
  \/ Change \/ Make
  \/ CallFunction \/ SendCall
  \/ ServerArrive \/ ServeStop \/ ServeTake \/ ServeRun \/ ServeThrow
  \/ ClientArrive \/ ReceiveStop \/ ReceiveTake \/ CallBack

Spec == Init /\ [][Next]_vars

(***************************************************************************)
(* Type correctness.                                                       *)
(***************************************************************************)
TypeOK ==
  /\ MessageTypeOK
  /\ queued \in 0 .. MaxCalls
  /\ {up, down} \subseteq Seq(Seq(Bytes))
  /\ {serverBox, clientBox} \subseteq {box \in Seq(Bytes) : Len(box) <= Room}
  /\ {serving, receiving} \subseteq {"idle", "reading", "calling"}
  /\ IsObject("Request", request.o) /\ IsObject("Request", reply.o)
  /\ {astray, quiet, long} \subseteq BOOLEAN
  /\ Len(called) <= MaxCalls

(***************************************************************************)
(* Safety.                                                                 *)
(***************************************************************************)
\* What the result of a call has to be.
Fits(call, ret) ==
  LET params(f) == Inner(call, f).fields
      number(f) == IF f \in DOMAIN params("add_int_params") THEN params("add_int_params")[f] ELSE 0
      angle == IF "angle" \in DOMAIN params("player_move_params")
               THEN params("player_move_params").angle ELSE ZeroDouble
  IN  /\ ret.unknown = << >>
      /\ \/ /\ call.fields.function_name = AddInt
            /\ ret.fields = [function_name |-> AddInt, add_int_ret_params |->
                              [fields |-> [ret |-> number("left") + number("right")],
                               unknown |-> << >>]]
         \/ /\ call.fields.function_name = PlayerMove
            /\ DOMAIN ret.fields = {"function_name", "player_move_ret_params"}
            /\ ret.fields.function_name = PlayerMove
            /\ DOMAIN ret.fields.player_move_ret_params.fields = {"x", "y", "speed", "aspect"}
            /\ ret.fields.player_move_ret_params.fields.aspect = angle

\* The calls that name a function of the server.
Known(calls) ==
  LET known(call) == /\ "function_name" \in DOMAIN call.fields
                     /\ call.fields.function_name \in Registered
  IN  SelectSeq(calls, known)

\* As long as the application leaves its calls alone while they are queued and
\* no message reaches 128 bytes: the server gets the calls as they were made, in
\* order and with every field, and callbacks get the results of those it knows,
\* each the one its call deserves, although every message goes through two
\* headers, one of them read as a field of the message.  None is missing when
\* nothing is on its way or left in a buffer.
EndToEnd ==
  quiet /\ ~long =>
    /\ ~astray
    /\ IsPrefix(received, called)
    /\ \A ran \in {Known(received)} :
         Len(results) = Len(ran) /\ \A k \in DOMAIN ran : Fits(ran[k], results[k])
    /\ IsPrefix(answered, results)
    /\ queued = 0 /\ up = << >> /\ serverBox = << >> /\ serving # "calling" => received = called
    /\ down = << >> /\ clientBox = << >> /\ receiving # "calling" => answered = results
=============================================================================
