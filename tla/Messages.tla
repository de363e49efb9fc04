------------------------------ MODULE Messages ------------------------------
(***************************************************************************)
(* A program works on one message object through the functions protoc      *)
(* wrote for its class.  Every sequence of them, for every class: fields   *)
(* are set, cleared, taken away and put back, objects are merged, copied,  *)
(* written to bytes and read from bytes, also from those of a peer whose   *)
(* messages have fields that this class has not.                           *)
(*                                                                         *)
(* record is what the object should be after these steps, by the meaning   *)
(* that MessageRecord gives them.                                          *)
(***************************************************************************)
EXTENDS MessageRecord

CONSTANTS
  Subjects,     \* classes of which the program has an object
  MaxSteps,     \* how often the object is changed
  Texts,        \* values of strings
  Numbers,      \* values of int32
  Doubles       \* values of doubles, eight bytes each

ASSUME MessageConstants ==
  /\ Subjects \subseteq Classes
  /\ MaxSteps \in Nat
  /\ \A text \in Texts : text \in Seq(Bytes)
  /\ Numbers \subseteq Int
  /\ \A double \in Doubles : double \in Seq(Bytes) /\ Len(double) = 8

VARIABLES class, obj, record, steps

messageVars == <<class, obj, record, steps>>

(***************************************************************************)
(* Objects and values to work with.                                        *)
(***************************************************************************)
Scalars(c) == {f \in Fields(c) : ~IsMessage(c, f) /\ ~IsRepeated(c, f)}
Lists(c) == {f \in Fields(c) : IsRepeated(c, f)}

ValuesOf(type) == CASE type = Int32 -> Numbers
                    [] type = UInt32 -> Numbers \cap Nat
                    [] type = Enum -> {ConnectionReqType, FunctionRetType}
                    [] type = Double -> Doubles
                    [] type = String -> Texts

ScalarTypes == {Int32, UInt32, Enum, Double, String}
Present == [type \in ScalarTypes |-> Zero(type)]
Telling == [type \in ScalarTypes |-> CHOOSE v \in ValuesOf(type) : v # Zero(type)]

\* An object that has every field, with the values v at every depth.
RECURSIVE Made(_, _)
Made(c, v) ==
  [has |-> {Bit(c, f) : f \in Fields(c) \ Lists(c)},
   val |-> [f \in Fields(c) |-> IF f \in Scalars(c) THEN v[Type(c, f)]
                                ELSE <<Made(ClassOf(c, f), v)>>],
   unknown |-> << >>]

\* Other objects of the program: an empty one, one whose fields are all there
\* and hold their defaults, and one where they differ from them.
Samples(c) == {New(c), Made(c, Present), Made(c, Telling)}

\* Fields a newer peer may have: number 15, a varint.
Newer == {<< >>, Varint(Tag(15, VarintType)) \o Varint(300)}

MessageInit ==
  /\ class \in Subjects
  /\ obj \in Samples(class)
  /\ record = Contents(class, obj)
  /\ steps = 0

Become(o, r) ==
  /\ steps < MaxSteps
  /\ steps' = steps + 1
  /\ obj' = o
  /\ record' = r
  /\ UNCHANGED class

(***************************************************************************)
(* Steps on one field.                                                     *)
(***************************************************************************)
Set(f) ==
  \E v \in ValuesOf(Type(class, f)) :
    Become(SetField(class, obj, f, v), Put(record, f, v))

\* mutable_f()->CopyFrom(s), the way every caller in this program fills a
\* submessage; for s empty it is mutable_f()->Clear().
CopyInto(f) ==
  \E s \in Samples(ClassOf(class, f)) :
    Become(CopyFieldFrom(class, obj, f, s), Put(record, f, Contents(ClassOf(class, f), s)))

\* mutable_f() alone: the field is there from now on.
Mutable(f) == Become(MutableField(class, obj, f), Put(record, f, Inner(record, f)))

ClearOne(f) == Become(ClearField(class, obj, f), Without(record, f))

Release(f) == Become(ReleaseField(class, obj, f), Without(record, f))

Allocate(f) ==
  \/ \E s \in Samples(ClassOf(class, f)) :
       Become(SetAllocated(class, obj, f, <<s>>), Put(record, f, Contents(ClassOf(class, f), s)))
  \/ Become(SetAllocated(class, obj, f, << >>), Without(record, f))

Add(f) ==
  \E s \in Samples(ClassOf(class, f)) :
    Become(AddElement(class, obj, f, s), Appended(record, f, Contents(ClassOf(class, f), s)))

(***************************************************************************)
(* Steps on the whole object.                                              *)
(***************************************************************************)
ClearAll == Become(Clear(class, obj), NothingSet)

CopyAll ==
  \E s \in Samples(class) : Become(CopyFrom(class, obj, s), Contents(class, s))

MergeAll ==
  \E s \in Samples(class) :
    Become(MergeFrom(class, obj, s), Merged(class, record, Contents(class, s)))

\* The program goes on with a copy of its object.
CopyConstruct == Become(Copy(class, obj), record)

\* ParseFromString of what a peer has sent.
ParseInto ==
  \E s \in Samples(class), newer \in Newer :
    Become(ParseFromString(class, obj, Serialize(class, s) \o newer).o,
           [Contents(class, s) EXCEPT !.unknown = newer])

Edit ==
  \/ \E f \in Scalars(class) : Set(f)
  \/ \E f \in SubFields(class) : CopyInto(f) \/ Mutable(f) \/ Allocate(f)
  \/ \E f \in Fields(class) : ClearOne(f)
  \/ \E f \in {g \in Fields(class) : IsMessage(class, g) \/ Type(class, g) = String} : Release(f)
  \/ \E f \in Lists(class) : Add(f)
  \/ ClearAll \/ CopyAll \/ MergeAll \/ CopyConstruct \/ ParseInto

(***************************************************************************)
(* Type correctness.                                                       *)
(***************************************************************************)
RECURSIVE IsObject(_, _)
IsObject(c, o) ==
  LET isValue(type, v) == CASE type = Int32 -> v \in Int
                            [] type = UInt32 -> v \in Nat
                            [] type = Enum -> Request_RequestType_IsValid(v)
                            [] OTHER -> v \in Seq(Bytes)
  IN  /\ o.has \subseteq {Bit(c, f) : f \in Fields(c) \ Lists(c)}
      /\ \A f \in Scalars(c) : isValue(Type(c, f), o.val[f])
      /\ \A f \in SubFields(c) : Len(o.val[f]) \in (IF HasField(c, o, f) THEN {1} ELSE {0, 1})
      /\ \A f \in Fields(c) \ Scalars(c) :
           \A k \in DOMAIN o.val[f] : IsObject(ClassOf(c, f), o.val[f][k])
      /\ o.unknown \in Seq(Bytes)

\* Members have their types, and a submessage whose has bit is set is there:
\* the accessors assume it (PROTOBUF_ASSUME(!value || p != nullptr)), and Clear
\* and MergeFrom go through the pointer without looking.
MessageTypeOK ==
  /\ class \in Subjects
  /\ steps \in 0 .. MaxSteps
  /\ IsObject(class, obj)

(***************************************************************************)
(* Safety.                                                                 *)
(***************************************************************************)
\* Has bits, kept pointers and merging never show: after any steps the object
\* has the fields, contents, list elements and unknown bytes that the meaning
\* of those steps gives it.
BehavesAsRecord == Contents(class, obj) = record

\* Whether a getter, at any depth, shows something of a field that is not there.
RECURSIVE ShowsAbsent(_, _)
ShowsAbsent(c, o) ==
  \/ \E f \in Scalars(c) : ~HasField(c, o, f) /\ GetField(c, o, f) # Zero(Type(c, f))
  \/ \E f \in SubFields(c) :
       LET sub == GetField(c, o, f)
       IN  \/ ShowsAbsent(ClassOf(c, f), sub)
           \/ ~HasField(c, o, f) /\ Contents(ClassOf(c, f), sub) # NothingSet
  \/ \E f \in Lists(c) :
       \E k \in DOMAIN o.val[f] : ShowsAbsent(ClassOf(c, f), o.val[f][k])

\* The getters do not look at the has bits; server and client read parameters
\* and results that may not have been sent (add_int_ret, the callbacks).  They
\* get defaults, at any depth, never what an earlier message left behind.
AbsentIsDefault == ~ShowsAbsent(class, obj)

\* SerializeToString allocates what ByteSizeLong says, and submessages are
\* announced with the size it has left in them: it must be the size of what
\* _InternalSerialize writes.
SizeAgrees == ByteSizeLong(class, obj) = Len(Serialize(class, obj))

\* Whatever was done to an object, a peer that parses its bytes has the same
\* message, and ParseFromString returns true exactly if it is complete.
ParseInverts ==
  LET r == ParseFromString(class, New(class), Serialize(class, obj))
  IN  /\ r.read
      /\ Contents(class, r.o) = record
      /\ r.ok <=> Complete(class, record)
=============================================================================
