--------------------------- MODULE RequestClasses ---------------------------
(***************************************************************************)
(* What protoc wrote for the messages of Request.proto and Message.proto,  *)
(* class by class (serialization/Request.pb.{h,cc}, Message.pb.{h,cc}).    *)
(* Each generated function has the same shape in every class and differs   *)
(* in the fields it names and the bits it tests; a table per function      *)
(* holds that part, and ProtoMessage the shape.  The tables of a class C:  *)
(*                                                                         *)
(*   C_members      the type of each member                                *)
(*   C_bits         the has bit of each field's accessors                  *)
(*   C_parse        the tag _InternalParse expects, and the field it reads *)
(*   C_write        what _InternalSerialize writes, in order: the bit it   *)
(*                  tests, the number it writes, the field                 *)
(*   C_size         the bit under which ByteSizeLong counts a field        *)
(*   C_clear        the bits that make Clear reset a field                 *)
(*   C_merge        the bit under which MergeFrom takes a field            *)
(*   C_copy         the bit under which the copy constructor takes a field *)
(*   C_initialized  the bits IsInitialized asks for, and the submessages   *)
(*                  it asks in turn                                        *)
(***************************************************************************)
EXTENDS Integers, Sequences, TLC

\* Types of members.
Int32 == <<"int32">>
UInt32 == <<"uint32">>
Enum == <<"enum">>
Double == <<"double">>
String == <<"string">>
Message(class) == <<"message", class>>
Repeated(class) == <<"repeated", class>>

\* In place of a bit: the code does not test one.
Always == -1

\* Request.RequestType, and its Request_RequestType_IsValid.
ConnectionReqType == 0
ConnectionRetType == 1
FunctionCallType == 2
FunctionRetType == 3
Request_RequestType_IsValid(value) == value \in ConnectionReqType .. FunctionRetType

\* ConnectionReq has no fields: all it does is inherited from the library.
NoFields == << >>

\* ConnectionRet.FuncInfo: what a server would tell of one of its functions.
ConnectionRet_FuncInfo_members == [func_name |-> String, params_type |-> String,
                                   return_type |-> String]
ConnectionRet_FuncInfo_func_name == 0
ConnectionRet_FuncInfo_params_type == 1
ConnectionRet_FuncInfo_return_type == 2
ConnectionRet_FuncInfo_bits == [func_name |-> ConnectionRet_FuncInfo_func_name,
                                params_type |-> ConnectionRet_FuncInfo_params_type,
                                return_type |-> ConnectionRet_FuncInfo_return_type]
ConnectionRet_FuncInfo_parse == (10 :> "func_name" @@ 18 :> "params_type"
                                 @@ 26 :> "return_type")
ConnectionRet_FuncInfo_write == << <<0, 1, "func_name">>, <<1, 2, "params_type">>,
                                 <<2, 3, "return_type">> >>
ConnectionRet_FuncInfo_size == [func_name |-> 0, params_type |-> 1,
                                return_type |-> 2]
ConnectionRet_FuncInfo_clear == [func_name |-> {0}, params_type |-> {1},
                                 return_type |-> {2}]
ConnectionRet_FuncInfo_merge == [func_name |-> 0, params_type |-> 1,
                                 return_type |-> 2]
ConnectionRet_FuncInfo_copy == [func_name |-> 0, params_type |-> 1,
                                return_type |-> 2]
ConnectionRet_FuncInfo_initialized == [required |-> 0 .. 2, nested |-> {}]

\* ConnectionRet: the answer to a ConnectionReq: a list, without a has bit.
ConnectionRet_members == [func_info |-> Repeated("ConnectionRet_FuncInfo")]
ConnectionRet_bits == [func_info |-> Always]
ConnectionRet_parse == (10 :> "func_info")
ConnectionRet_write == << <<Always, 1, "func_info">> >>
ConnectionRet_size == [func_info |-> Always]
ConnectionRet_clear == [func_info |-> {Always}]
ConnectionRet_merge == [func_info |-> Always]
ConnectionRet_copy == [func_info |-> Always]
ConnectionRet_initialized == [required |-> {}, nested |-> {"func_info"}]

\* FunctionCall.AddIntParams.
FunctionCall_AddIntParams_members == [left |-> Int32, right |-> Int32]
FunctionCall_AddIntParams_bits == [left |-> 0, right |-> 1]
FunctionCall_AddIntParams_parse == (8 :> "left" @@ 16 :> "right")
FunctionCall_AddIntParams_write == << <<0, 1, "left">>, <<1, 2, "right">> >>
FunctionCall_AddIntParams_size == [left |-> 0, right |-> 1]
FunctionCall_AddIntParams_clear == [left |-> 0 .. 1, right |-> 0 .. 1]
FunctionCall_AddIntParams_merge == [left |-> 0, right |-> 1]
FunctionCall_AddIntParams_copy == [left |-> Always, right |-> Always]
FunctionCall_AddIntParams_initialized == [required |-> 0 .. 1, nested |-> {}]

\* FunctionCall.AddDoubleParams.
FunctionCall_AddDoubleParams_members == [left |-> Double, right |-> Double]
FunctionCall_AddDoubleParams_bits == [left |-> 0, right |-> 1]
FunctionCall_AddDoubleParams_parse == (9 :> "left" @@ 17 :> "right")
FunctionCall_AddDoubleParams_write == << <<0, 1, "left">>, <<1, 2, "right">> >>
FunctionCall_AddDoubleParams_size == [left |-> 0, right |-> 1]
FunctionCall_AddDoubleParams_clear == [left |-> 0 .. 1, right |-> 0 .. 1]
FunctionCall_AddDoubleParams_merge == [left |-> 0, right |-> 1]
FunctionCall_AddDoubleParams_copy == [left |-> Always, right |-> Always]
FunctionCall_AddDoubleParams_initialized == [required |-> 0 .. 1, nested |-> {}]

\* FunctionCall.AddStringParams.
FunctionCall_AddStringParams_members == [left |-> String, right |-> String]
FunctionCall_AddStringParams_bits == [left |-> 0, right |-> 1]
FunctionCall_AddStringParams_parse == (10 :> "left" @@ 18 :> "right")
FunctionCall_AddStringParams_write == << <<0, 1, "left">>, <<1, 2, "right">> >>
FunctionCall_AddStringParams_size == [left |-> 0, right |-> 1]
FunctionCall_AddStringParams_clear == [left |-> {0}, right |-> {1}]
FunctionCall_AddStringParams_merge == [left |-> 0, right |-> 1]
FunctionCall_AddStringParams_copy == [left |-> 0, right |-> 1]
FunctionCall_AddStringParams_initialized == [required |-> 0 .. 1, nested |-> {}]

\* FunctionCall.PlayerMoveParams.
FunctionCall_PlayerMoveParams_members == [x |-> Double, y |-> Double,
                                          speed |-> Double, acceleration |-> Double,
                                          aspect |-> Double, angle |-> Double]
FunctionCall_PlayerMoveParams_bits == [x |-> 0, y |-> 1, speed |-> 2,
                                       acceleration |-> 3, aspect |-> 4,
                                       angle |-> 5]
FunctionCall_PlayerMoveParams_parse == (9 :> "x" @@ 17 :> "y" @@ 25 :> "speed"
                                        @@ 33 :> "acceleration" @@ 41 :> "aspect"
                                        @@ 49 :> "angle")
FunctionCall_PlayerMoveParams_write == << <<0, 1, "x">>, <<1, 2, "y">>,
                                        <<2, 3, "speed">>, <<3, 4, "acceleration">>,
                                        <<4, 5, "aspect">>, <<5, 6, "angle">> >>
FunctionCall_PlayerMoveParams_size == [x |-> 0, y |-> 1, speed |-> 2,
                                       acceleration |-> 3, aspect |-> 4,
                                       angle |-> 5]
FunctionCall_PlayerMoveParams_clear == [x |-> 0 .. 5, y |-> 0 .. 5,
                                        speed |-> 0 .. 5, acceleration |-> 0 .. 5,
                                        aspect |-> 0 .. 5, angle |-> 0 .. 5]
FunctionCall_PlayerMoveParams_merge == [x |-> 0, y |-> 1, speed |-> 2,
                                        acceleration |-> 3, aspect |-> 4,
                                        angle |-> 5]
FunctionCall_PlayerMoveParams_copy == [x |-> Always, y |-> Always, speed |-> Always,
                                       acceleration |-> Always, aspect |-> Always,
                                       angle |-> Always]
FunctionCall_PlayerMoveParams_initialized == [required |-> 0 .. 5, nested |-> {}]

\* FunctionCall: the name of a function and the parameters of one.
FunctionCall_members == [function_name |-> String,
                         add_int_params |-> Message("FunctionCall_AddIntParams"),
                         add_double_params |-> Message("FunctionCall_AddDoubleParams"),
                         add_string_params |-> Message("FunctionCall_AddStringParams"),
                         player_move_params |-> Message("FunctionCall_PlayerMoveParams")]
FunctionCall_function_name == 0
FunctionCall_add_int_params == 1
FunctionCall_add_double_params == 2
FunctionCall_add_string_params == 3
FunctionCall_player_move_params == 4
FunctionCall_bits == [function_name |-> FunctionCall_function_name,
                      add_int_params |-> FunctionCall_add_int_params,
                      add_double_params |-> FunctionCall_add_double_params,
                      add_string_params |-> FunctionCall_add_string_params,
                      player_move_params |-> FunctionCall_player_move_params]
FunctionCall_parse == (10 :> "function_name" @@ 18 :> "add_int_params"
                       @@ 26 :> "add_double_params" @@ 34 :> "add_string_params"
                       @@ 42 :> "player_move_params")
FunctionCall_write == << <<0, 1, "function_name">>, <<1, 2, "add_int_params">>,
                       <<2, 3, "add_double_params">>, <<3, 4, "add_string_params">>,
                       <<4, 5, "player_move_params">> >>
FunctionCall_size == [function_name |-> 0, add_int_params |-> 1,
                      add_double_params |-> 2, add_string_params |-> 3,
                      player_move_params |-> 4]
FunctionCall_clear == [function_name |-> {0}, add_int_params |-> {1},
                       add_double_params |-> {2}, add_string_params |-> {3},
                       player_move_params |-> {4}]
FunctionCall_merge == [function_name |-> 0, add_int_params |-> 1,
                       add_double_params |-> 2, add_string_params |-> 3,
                       player_move_params |-> 4]
FunctionCall_copy == [function_name |-> 0, add_int_params |-> 1,
                      add_double_params |-> 2, add_string_params |-> 3,
                      player_move_params |-> 4]
FunctionCall_initialized == [required |-> {0},
                             nested |-> {"add_int_params", "add_double_params", "add_string_params", "player_move_params"}]

\* FunctionRet.AddIntRet.
FunctionRet_AddIntRet_members == [ret |-> Int32]
FunctionRet_AddIntRet_bits == [ret |-> 0]
FunctionRet_AddIntRet_parse == (8 :> "ret")
FunctionRet_AddIntRet_write == << <<0, 1, "ret">> >>
FunctionRet_AddIntRet_size == [ret |-> 0]
FunctionRet_AddIntRet_clear == [ret |-> {Always}]
FunctionRet_AddIntRet_merge == [ret |-> 0]
FunctionRet_AddIntRet_copy == [ret |-> Always]
FunctionRet_AddIntRet_initialized == [required |-> {0}, nested |-> {}]

\* FunctionRet.AddDoubleRet.
FunctionRet_AddDoubleRet_members == [ret |-> Double]
FunctionRet_AddDoubleRet_bits == [ret |-> 0]
FunctionRet_AddDoubleRet_parse == (9 :> "ret")
FunctionRet_AddDoubleRet_write == << <<0, 1, "ret">> >>
FunctionRet_AddDoubleRet_size == [ret |-> 0]
FunctionRet_AddDoubleRet_clear == [ret |-> {Always}]
FunctionRet_AddDoubleRet_merge == [ret |-> 0]
FunctionRet_AddDoubleRet_copy == [ret |-> Always]
FunctionRet_AddDoubleRet_initialized == [required |-> {0}, nested |-> {}]

\* FunctionRet.AddStringRet.
FunctionRet_AddStringRet_members == [ret |-> String]
FunctionRet_AddStringRet_bits == [ret |-> 0]
FunctionRet_AddStringRet_parse == (10 :> "ret")
FunctionRet_AddStringRet_write == << <<0, 1, "ret">> >>
FunctionRet_AddStringRet_size == [ret |-> 0]
FunctionRet_AddStringRet_clear == [ret |-> {0}]
FunctionRet_AddStringRet_merge == [ret |-> 0]
FunctionRet_AddStringRet_copy == [ret |-> 0]
FunctionRet_AddStringRet_initialized == [required |-> {0}, nested |-> {}]

\* FunctionRet.PlayerMoveRet: aspect is its field 5; it has no field 4.
FunctionRet_PlayerMoveRet_members == [x |-> Double, y |-> Double, speed |-> Double,
                                      aspect |-> Double]
FunctionRet_PlayerMoveRet_bits == [x |-> 0, y |-> 1, speed |-> 2, aspect |-> 3]
\* Mutant: the parser takes the fields of PlayerMoveRet to be numbered in a row.
FunctionRet_PlayerMoveRet_parseInRow == (9 :> "x" @@ 17 :> "y" @@ 25 :> "speed"
                                         @@ 33 :> "aspect")
FunctionRet_PlayerMoveRet_parse == (9 :> "x" @@ 17 :> "y" @@ 25 :> "speed"
                                    @@ 41 :> "aspect")
FunctionRet_PlayerMoveRet_write == << <<0, 1, "x">>, <<1, 2, "y">>,
                                    <<2, 3, "speed">>, <<3, 5, "aspect">> >>
FunctionRet_PlayerMoveRet_size == [x |-> 0, y |-> 1, speed |-> 2, aspect |-> 3]
FunctionRet_PlayerMoveRet_clear == [x |-> 0 .. 3, y |-> 0 .. 3, speed |-> 0 .. 3,
                                    aspect |-> 0 .. 3]
FunctionRet_PlayerMoveRet_merge == [x |-> 0, y |-> 1, speed |-> 2, aspect |-> 3]
FunctionRet_PlayerMoveRet_copy == [x |-> Always, y |-> Always, speed |-> Always,
                                   aspect |-> Always]
FunctionRet_PlayerMoveRet_initialized == [required |-> 0 .. 3, nested |-> {}]

\* FunctionRet: the name of a function and its result.
FunctionRet_members == [function_name |-> String,
                        add_int_ret_params |-> Message("FunctionRet_AddIntRet"),
                        add_double_ret_params |-> Message("FunctionRet_AddDoubleRet"),
                        add_string_ret_params |-> Message("FunctionRet_AddStringRet"),
                        player_move_ret_params |-> Message("FunctionRet_PlayerMoveRet")]
FunctionRet_function_name == 0
FunctionRet_add_int_ret_params == 1
FunctionRet_add_double_ret_params == 2
FunctionRet_add_string_ret_params == 3
FunctionRet_player_move_ret_params == 4
FunctionRet_bits == [function_name |-> FunctionRet_function_name,
                     add_int_ret_params |-> FunctionRet_add_int_ret_params,
                     add_double_ret_params |-> FunctionRet_add_double_ret_params,
                     add_string_ret_params |-> FunctionRet_add_string_ret_params,
                     player_move_ret_params |-> FunctionRet_player_move_ret_params]
FunctionRet_parse == (10 :> "function_name" @@ 18 :> "add_int_ret_params"
                      @@ 26 :> "add_double_ret_params"
                      @@ 34 :> "add_string_ret_params"
                      @@ 42 :> "player_move_ret_params")
FunctionRet_write == << <<0, 1, "function_name">>, <<1, 2, "add_int_ret_params">>,
                      <<2, 3, "add_double_ret_params">>,
                      <<3, 4, "add_string_ret_params">>,
                      <<4, 5, "player_move_ret_params">> >>
FunctionRet_size == [function_name |-> 0, add_int_ret_params |-> 1,
                     add_double_ret_params |-> 2, add_string_ret_params |-> 3,
                     player_move_ret_params |-> 4]
FunctionRet_clear == [function_name |-> {0}, add_int_ret_params |-> {1},
                      add_double_ret_params |-> {2}, add_string_ret_params |-> {3},
                      player_move_ret_params |-> {4}]
FunctionRet_merge == [function_name |-> 0, add_int_ret_params |-> 1,
                      add_double_ret_params |-> 2, add_string_ret_params |-> 3,
                      player_move_ret_params |-> 4]
FunctionRet_copy == [function_name |-> 0, add_int_ret_params |-> 1,
                     add_double_ret_params |-> 2, add_string_ret_params |-> 3,
                     player_move_ret_params |-> 4]
FunctionRet_initialized == [required |-> {0},
                            nested |-> {"add_int_ret_params", "add_double_ret_params", "add_string_ret_params", "player_move_ret_params"}]

\* Request: the envelope.  Its has bits are not in the order of its fields.
Request_members == [call_type |-> Enum, connection_req |-> Message("ConnectionReq"),
                    connection_ret |-> Message("ConnectionRet"),
                    function_call |-> Message("FunctionCall"),
                    function_ret |-> Message("FunctionRet")]
Request_call_type == 4
Request_connection_req == 0
Request_connection_ret == 1
Request_function_call == 2
Request_function_ret == 3
Request_bits == [call_type |-> Request_call_type,
                 connection_req |-> Request_connection_req,
                 connection_ret |-> Request_connection_ret,
                 function_call |-> Request_function_call,
                 function_ret |-> Request_function_ret]
Request_parse == (8 :> "call_type" @@ 18 :> "connection_req"
                  @@ 26 :> "connection_ret" @@ 34 :> "function_call"
                  @@ 42 :> "function_ret")
Request_write == << <<4, 1, "call_type">>, <<0, 2, "connection_req">>,
                  <<1, 3, "connection_ret">>, <<2, 4, "function_call">>,
                  <<3, 5, "function_ret">> >>
\* Mutant: call_type is counted under the bit its place in Request.proto suggests.
Request_sizeInOrder == [call_type |-> 0, connection_req |-> 0, connection_ret |-> 1,
                        function_call |-> 2, function_ret |-> 3]
Request_size == [call_type |-> 4, connection_req |-> 0, connection_ret |-> 1,
                 function_call |-> 2, function_ret |-> 3]
Request_clear == [call_type |-> {Always}, connection_req |-> {0},
                  connection_ret |-> {1}, function_call |-> {2},
                  function_ret |-> {3}]
Request_merge == [call_type |-> 4, connection_req |-> 0, connection_ret |-> 1,
                  function_call |-> 2, function_ret |-> 3]
Request_copy == [call_type |-> Always, connection_req |-> 0, connection_ret |-> 1,
                 function_call |-> 2, function_ret |-> 3]
Request_initialized == [required |-> {4},
                        nested |-> {"connection_ret", "function_call", "function_ret"}]

\* MsgHeader: what goes ahead of a message: its size.
MsgHeader_members == [msg_size |-> UInt32]
MsgHeader_bits == [msg_size |-> 0]
MsgHeader_parse == (8 :> "msg_size")
MsgHeader_write == << <<0, 1, "msg_size">> >>
MsgHeader_size == [msg_size |-> 0]
MsgHeader_clear == [msg_size |-> {Always}]
MsgHeader_merge == [msg_size |-> 0]
MsgHeader_copy == [msg_size |-> Always]
MsgHeader_initialized == [required |-> {0}, nested |-> {}]

(***************************************************************************)
(* The tables of all classes.                                              *)
(***************************************************************************)
Classes == {"ConnectionReq",
            "ConnectionRet_FuncInfo",
            "ConnectionRet",
            "FunctionCall_AddIntParams",
            "FunctionCall_AddDoubleParams",
            "FunctionCall_AddStringParams",
            "FunctionCall_PlayerMoveParams",
            "FunctionCall",
            "FunctionRet_AddIntRet",
            "FunctionRet_AddDoubleRet",
            "FunctionRet_AddStringRet",
            "FunctionRet_PlayerMoveRet",
            "FunctionRet",
            "Request",
            "MsgHeader"}

MembersTable ==
  [ConnectionReq |-> NoFields,
   ConnectionRet_FuncInfo |-> ConnectionRet_FuncInfo_members,
   ConnectionRet |-> ConnectionRet_members,
   FunctionCall_AddIntParams |-> FunctionCall_AddIntParams_members,
   FunctionCall_AddDoubleParams |-> FunctionCall_AddDoubleParams_members,
   FunctionCall_AddStringParams |-> FunctionCall_AddStringParams_members,
   FunctionCall_PlayerMoveParams |-> FunctionCall_PlayerMoveParams_members,
   FunctionCall |-> FunctionCall_members,
   FunctionRet_AddIntRet |-> FunctionRet_AddIntRet_members,
   FunctionRet_AddDoubleRet |-> FunctionRet_AddDoubleRet_members,
   FunctionRet_AddStringRet |-> FunctionRet_AddStringRet_members,
   FunctionRet_PlayerMoveRet |-> FunctionRet_PlayerMoveRet_members,
   FunctionRet |-> FunctionRet_members,
   Request |-> Request_members,
   MsgHeader |-> MsgHeader_members]

BitsTable ==
  [ConnectionReq |-> NoFields,
   ConnectionRet_FuncInfo |-> ConnectionRet_FuncInfo_bits,
   ConnectionRet |-> ConnectionRet_bits,
   FunctionCall_AddIntParams |-> FunctionCall_AddIntParams_bits,
   FunctionCall_AddDoubleParams |-> FunctionCall_AddDoubleParams_bits,
   FunctionCall_AddStringParams |-> FunctionCall_AddStringParams_bits,
   FunctionCall_PlayerMoveParams |-> FunctionCall_PlayerMoveParams_bits,
   FunctionCall |-> FunctionCall_bits,
   FunctionRet_AddIntRet |-> FunctionRet_AddIntRet_bits,
   FunctionRet_AddDoubleRet |-> FunctionRet_AddDoubleRet_bits,
   FunctionRet_AddStringRet |-> FunctionRet_AddStringRet_bits,
   FunctionRet_PlayerMoveRet |-> FunctionRet_PlayerMoveRet_bits,
   FunctionRet |-> FunctionRet_bits,
   Request |-> Request_bits,
   MsgHeader |-> MsgHeader_bits]

ParseTable ==
  [ConnectionReq |-> NoFields,
   ConnectionRet_FuncInfo |-> ConnectionRet_FuncInfo_parse,
   ConnectionRet |-> ConnectionRet_parse,
   FunctionCall_AddIntParams |-> FunctionCall_AddIntParams_parse,
   FunctionCall_AddDoubleParams |-> FunctionCall_AddDoubleParams_parse,
   FunctionCall_AddStringParams |-> FunctionCall_AddStringParams_parse,
   FunctionCall_PlayerMoveParams |-> FunctionCall_PlayerMoveParams_parse,
   FunctionCall |-> FunctionCall_parse,
   FunctionRet_AddIntRet |-> FunctionRet_AddIntRet_parse,
   FunctionRet_AddDoubleRet |-> FunctionRet_AddDoubleRet_parse,
   FunctionRet_AddStringRet |-> FunctionRet_AddStringRet_parse,
   FunctionRet_PlayerMoveRet |-> FunctionRet_PlayerMoveRet_parse,
   FunctionRet |-> FunctionRet_parse,
   Request |-> Request_parse,
   MsgHeader |-> MsgHeader_parse]

WriteTable ==
  [ConnectionReq |-> NoFields,
   ConnectionRet_FuncInfo |-> ConnectionRet_FuncInfo_write,
   ConnectionRet |-> ConnectionRet_write,
   FunctionCall_AddIntParams |-> FunctionCall_AddIntParams_write,
   FunctionCall_AddDoubleParams |-> FunctionCall_AddDoubleParams_write,
   FunctionCall_AddStringParams |-> FunctionCall_AddStringParams_write,
   FunctionCall_PlayerMoveParams |-> FunctionCall_PlayerMoveParams_write,
   FunctionCall |-> FunctionCall_write,
   FunctionRet_AddIntRet |-> FunctionRet_AddIntRet_write,
   FunctionRet_AddDoubleRet |-> FunctionRet_AddDoubleRet_write,
   FunctionRet_AddStringRet |-> FunctionRet_AddStringRet_write,
   FunctionRet_PlayerMoveRet |-> FunctionRet_PlayerMoveRet_write,
   FunctionRet |-> FunctionRet_write,
   Request |-> Request_write,
   MsgHeader |-> MsgHeader_write]

SizeTable ==
  [ConnectionReq |-> NoFields,
   ConnectionRet_FuncInfo |-> ConnectionRet_FuncInfo_size,
   ConnectionRet |-> ConnectionRet_size,
   FunctionCall_AddIntParams |-> FunctionCall_AddIntParams_size,
   FunctionCall_AddDoubleParams |-> FunctionCall_AddDoubleParams_size,
   FunctionCall_AddStringParams |-> FunctionCall_AddStringParams_size,
   FunctionCall_PlayerMoveParams |-> FunctionCall_PlayerMoveParams_size,
   FunctionCall |-> FunctionCall_size,
   FunctionRet_AddIntRet |-> FunctionRet_AddIntRet_size,
   FunctionRet_AddDoubleRet |-> FunctionRet_AddDoubleRet_size,
   FunctionRet_AddStringRet |-> FunctionRet_AddStringRet_size,
   FunctionRet_PlayerMoveRet |-> FunctionRet_PlayerMoveRet_size,
   FunctionRet |-> FunctionRet_size,
   Request |-> Request_size,
   MsgHeader |-> MsgHeader_size]

ClearTable ==
  [ConnectionReq |-> NoFields,
   ConnectionRet_FuncInfo |-> ConnectionRet_FuncInfo_clear,
   ConnectionRet |-> ConnectionRet_clear,
   FunctionCall_AddIntParams |-> FunctionCall_AddIntParams_clear,
   FunctionCall_AddDoubleParams |-> FunctionCall_AddDoubleParams_clear,
   FunctionCall_AddStringParams |-> FunctionCall_AddStringParams_clear,
   FunctionCall_PlayerMoveParams |-> FunctionCall_PlayerMoveParams_clear,
   FunctionCall |-> FunctionCall_clear,
   FunctionRet_AddIntRet |-> FunctionRet_AddIntRet_clear,
   FunctionRet_AddDoubleRet |-> FunctionRet_AddDoubleRet_clear,
   FunctionRet_AddStringRet |-> FunctionRet_AddStringRet_clear,
   FunctionRet_PlayerMoveRet |-> FunctionRet_PlayerMoveRet_clear,
   FunctionRet |-> FunctionRet_clear,
   Request |-> Request_clear,
   MsgHeader |-> MsgHeader_clear]

MergeTable ==
  [ConnectionReq |-> NoFields,
   ConnectionRet_FuncInfo |-> ConnectionRet_FuncInfo_merge,
   ConnectionRet |-> ConnectionRet_merge,
   FunctionCall_AddIntParams |-> FunctionCall_AddIntParams_merge,
   FunctionCall_AddDoubleParams |-> FunctionCall_AddDoubleParams_merge,
   FunctionCall_AddStringParams |-> FunctionCall_AddStringParams_merge,
   FunctionCall_PlayerMoveParams |-> FunctionCall_PlayerMoveParams_merge,
   FunctionCall |-> FunctionCall_merge,
   FunctionRet_AddIntRet |-> FunctionRet_AddIntRet_merge,
   FunctionRet_AddDoubleRet |-> FunctionRet_AddDoubleRet_merge,
   FunctionRet_AddStringRet |-> FunctionRet_AddStringRet_merge,
   FunctionRet_PlayerMoveRet |-> FunctionRet_PlayerMoveRet_merge,
   FunctionRet |-> FunctionRet_merge,
   Request |-> Request_merge,
   MsgHeader |-> MsgHeader_merge]

CopyTable ==
  [ConnectionReq |-> NoFields,
   ConnectionRet_FuncInfo |-> ConnectionRet_FuncInfo_copy,
   ConnectionRet |-> ConnectionRet_copy,
   FunctionCall_AddIntParams |-> FunctionCall_AddIntParams_copy,
   FunctionCall_AddDoubleParams |-> FunctionCall_AddDoubleParams_copy,
   FunctionCall_AddStringParams |-> FunctionCall_AddStringParams_copy,
   FunctionCall_PlayerMoveParams |-> FunctionCall_PlayerMoveParams_copy,
   FunctionCall |-> FunctionCall_copy,
   FunctionRet_AddIntRet |-> FunctionRet_AddIntRet_copy,
   FunctionRet_AddDoubleRet |-> FunctionRet_AddDoubleRet_copy,
   FunctionRet_AddStringRet |-> FunctionRet_AddStringRet_copy,
   FunctionRet_PlayerMoveRet |-> FunctionRet_PlayerMoveRet_copy,
   FunctionRet |-> FunctionRet_copy,
   Request |-> Request_copy,
   MsgHeader |-> MsgHeader_copy]

InitializedTable ==
  [ConnectionReq |-> [required |-> {}, nested |-> {}],
   ConnectionRet_FuncInfo |-> ConnectionRet_FuncInfo_initialized,
   ConnectionRet |-> ConnectionRet_initialized,
   FunctionCall_AddIntParams |-> FunctionCall_AddIntParams_initialized,
   FunctionCall_AddDoubleParams |-> FunctionCall_AddDoubleParams_initialized,
   FunctionCall_AddStringParams |-> FunctionCall_AddStringParams_initialized,
   FunctionCall_PlayerMoveParams |-> FunctionCall_PlayerMoveParams_initialized,
   FunctionCall |-> FunctionCall_initialized,
   FunctionRet_AddIntRet |-> FunctionRet_AddIntRet_initialized,
   FunctionRet_AddDoubleRet |-> FunctionRet_AddDoubleRet_initialized,
   FunctionRet_AddStringRet |-> FunctionRet_AddStringRet_initialized,
   FunctionRet_PlayerMoveRet |-> FunctionRet_PlayerMoveRet_initialized,
   FunctionRet |-> FunctionRet_initialized,
   Request |-> Request_initialized,
   MsgHeader |-> MsgHeader_initialized]
=============================================================================
