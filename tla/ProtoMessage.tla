---------------------------- MODULE ProtoMessage ----------------------------
(***************************************************************************)
(* Objects of the generated message classes and what the generated code    *)
(* does with them, as Request.pb.{h,cc} writes it out for every class and  *)
(* field.  An object of class c is                                         *)
(*                                                                         *)
(*   [has: the has bits that are set, val: its members by name,            *)
(*    unknown: the bytes of fields its class does not know]                *)
(*                                                                         *)
(* A double is its eight bytes and a string its bytes.  A member that is a *)
(* pointer to a submessage is << >> for null or <<object>>; a list is the  *)
(* sequence of its objects.                                                *)
(***************************************************************************)
EXTENDS RequestClasses, ProtoWire

Fields(c) == DOMAIN MembersTable[c]
Type(c, f) == MembersTable[c][f]
IsMessage(c, f) == Type(c, f)[1] = "message"
IsRepeated(c, f) == Type(c, f)[1] = "repeated"
ClassOf(c, f) == Type(c, f)[2]
SubFields(c) == {f \in Fields(c) : IsMessage(c, f)}
Bit(c, f) == BitsTable[c][f]

ZeroDouble == [k \in 1 .. 8 |-> 0]
Zero(type) == CASE type \in {Int32, UInt32, Enum} -> 0
                [] type = Double -> ZeroDouble
                [] OTHER -> << >>

\* The default constructor, and the default instance of the class.
New(c) == [has |-> {}, val |-> [f \in Fields(c) |-> Zero(Type(c, f))], unknown |-> << >>]

\* What the code tests before it touches a field.
Holds(bit, has) == bit = Always \/ bit \in has

(***************************************************************************)
(* Accessors of a field f.                                                 *)
(***************************************************************************)
RECURSIVE Clear(_, _)

HasField(c, o, f) == IF IsRepeated(c, f) THEN o.val[f] # << >> ELSE Bit(c, f) \in o.has

\* f(): the default instance stands in for a null pointer.
GetField(c, o, f) ==
  IF ~IsMessage(c, f) THEN o.val[f]
  ELSE IF o.val[f] = << >> THEN New(ClassOf(c, f)) ELSE o.val[f][1]

\* set_f(v).
SetField(c, o, f, v) ==
  [o EXCEPT !.has = @ \cup {Bit(c, f)}, !.val[f] = v]

\* mutable_f() of a submessage, which is made if there is none.
MutableField(c, o, f) == SetField(c, o, f, <<GetField(c, o, f)>>)

\* Mutant: the submessage is kept as it is.
ClearFieldKeeping(c, o, f) ==
  [o EXCEPT !.has = @ \ {Bit(c, f)},
            !.val[f] = IF IsMessage(c, f) THEN @ ELSE Zero(Type(c, f))]

\* clear_f(): a submessage is cleared and kept for the next use.
ClearField(c, o, f) ==
  [o EXCEPT !.has = @ \ {Bit(c, f)},
            !.val[f] = IF IsMessage(c, f) /\ @ # << >>
                       THEN <<Clear(ClassOf(c, f), @[1])>> ELSE Zero(Type(c, f))]

\* release_f(): the caller takes the submessage or the string away.
ReleaseField(c, o, f) ==
  [o EXCEPT !.has = @ \ {Bit(c, f)}, !.val[f] = << >>]

\* Mutant: the field counts as set, whatever was given.
SetAllocatedAlways(c, o, f, p) ==
  [o EXCEPT !.has = @ \cup {Bit(c, f)}, !.val[f] = p]

\* set_allocated_f(p), p null or an object that changes hands.
SetAllocated(c, o, f, p) ==
  [o EXCEPT !.has = IF p = << >> THEN @ \ {Bit(c, f)} ELSE @ \cup {Bit(c, f)},
            !.val[f] = p]

\* add_f() of a list, which returns the new last element.
AddElement(c, o, f, element) == [o EXCEPT !.val[f] = Append(@, element)]

(***************************************************************************)
(* Whole objects.                                                          *)
(***************************************************************************)
\* Clear(): submessages are cleared in place and keep their memory.
Clear(c, o) ==
  [has |-> {}, unknown |-> << >>,
   val |-> [f \in Fields(c) |->
     IF ~\E bit \in ClearTable[c][f] : Holds(bit, o.has) THEN o.val[f]
     ELSE IF IsMessage(c, f) THEN <<Clear(ClassOf(c, f), o.val[f][1])>>
     ELSE Zero(Type(c, f))]]

RECURSIVE MergeFrom(_, _, _)
\* Mutant: a submessage takes the place of the one that was there.
MergeFromReplacing(c, o, from) ==
  LET taken(f) == Holds(MergeTable[c][f], from.has)
  IN  [has |-> o.has \cup {Bit(c, f) : f \in {g \in Fields(c) : taken(g) /\ ~IsRepeated(c, g)}},
       val |-> [f \in Fields(c) |-> IF ~taken(f) THEN o.val[f]
                                    ELSE IF IsRepeated(c, f) THEN o.val[f] \o from.val[f]
                                    ELSE from.val[f]],
       unknown |-> o.unknown \o from.unknown]

\* MergeFrom(from): what from has replaces scalars and strings, is merged into
\* submessages and appended to lists.
MergeFrom(c, o, from) ==
  LET taken(f) == Holds(MergeTable[c][f], from.has)
      merged(f) == IF ~taken(f) THEN o.val[f]
                   ELSE IF IsRepeated(c, f) THEN o.val[f] \o from.val[f]
                   ELSE IF IsMessage(c, f)
                   THEN <<MergeFrom(ClassOf(c, f), GetField(c, o, f), GetField(c, from, f))>>
                   ELSE from.val[f]
  IN  [has |-> o.has \cup {Bit(c, f) : f \in {g \in Fields(c) : taken(g) /\ ~IsRepeated(c, g)}},
       val |-> [f \in Fields(c) |-> merged(f)],
       unknown |-> o.unknown \o from.unknown]

CopyFrom(c, o, from) == MergeFrom(c, Clear(c, o), from)

\* mutable_f()->CopyFrom(from), the way this program fills every submessage.
CopyFieldFrom(c, o, f, from) ==
  LET mutable == MutableField(c, o, f)
  IN  [mutable EXCEPT !.val[f] = <<CopyFrom(ClassOf(c, f), @[1], from)>>]

RECURSIVE Copy(_, _)
\* The copy constructor: a new object, with submessages of its own.
Copy(c, from) ==
  LET copied(f) == IF ~Holds(CopyTable[c][f], from.has) THEN Zero(Type(c, f))
                   ELSE IF IsMessage(c, f) THEN <<Copy(ClassOf(c, f), from.val[f][1])>>
                   ELSE from.val[f]
  IN  [has |-> from.has, val |-> [f \in Fields(c) |-> copied(f)], unknown |-> from.unknown]

RECURSIVE IsInitialized(_, _)
\* IsInitialized(): the required fields are there, in submessages too.
IsInitialized(c, o) ==
  /\ InitializedTable[c].required \subseteq o.has
  /\ \A f \in InitializedTable[c].nested :
       IF IsRepeated(c, f)
       THEN \A k \in 1 .. Len(o.val[f]) : IsInitialized(ClassOf(c, f), o.val[f][k])
       ELSE Bit(c, f) \in o.has => IsInitialized(ClassOf(c, f), o.val[f][1])

(***************************************************************************)
(* To bytes.  ByteSizeLong comes first: SerializeToString writes the sizes *)
(* it has left in the submessages ahead of them.                           *)
(***************************************************************************)
WireType(type) == CASE type \in {Int32, UInt32, Enum} -> VarintType
                    [] type = Double -> Fixed64Type
                    [] OTHER -> LengthType

\* The values of a field, one by one: a list may have any number.
Values(c, o, f) ==
  IF IsMessage(c, f) \/ IsRepeated(c, f) THEN o.val[f] ELSE <<o.val[f]>>

RECURSIVE ByteSizeLong(_, _)
ByteSizeLong(c, o) ==
  LET delimited(n) == VarintSize(n) + n
      payload(type, v) ==
        CASE WireType(type) = VarintType -> VarintSize(v)
          [] type = Double -> 8
          [] type = String -> delimited(Len(v))
          [] OTHER -> delimited(ByteSizeLong(type[2], v))
      size(f) == FoldLeft(LAMBDA n, v : n + 1 + payload(Type(c, f), v), 0, Values(c, o, f))
  IN  MapThenSumSet(size, {f \in Fields(c) : Holds(SizeTable[c][f], o.has)}) + Len(o.unknown)

RECURSIVE Serialize(_, _)
Serialize(c, o) ==
  LET payload(type, v) ==
        CASE WireType(type) = VarintType -> Varint(v)
          [] type = Double -> v
          [] type = String -> Varint(Len(v)) \o v
          [] OTHER -> Varint(ByteSizeLong(type[2], v)) \o Serialize(type[2], v)
      field(number, f) ==
        FlattenSeq([k \in DOMAIN Values(c, o, f) |->
          Varint(Tag(number, WireType(Type(c, f)))) \o payload(Type(c, f), Values(c, o, f)[k])])
      entry(w) == IF Holds(w[1], o.has) THEN field(w[2], w[3]) ELSE << >>
  IN  FlattenSeq([k \in DOMAIN WriteTable[c] |-> entry(WriteTable[c][k])]) \o o.unknown

(***************************************************************************)
(* From bytes.  _InternalParse reads field after field of the stream s     *)
(* from i up to end, whatever their order, and stops at the first that it  *)
(* cannot read; what it has read so far stays in the object.               *)
(***************************************************************************)
RECURSIVE InternalParse(_, _, _, _)

\* Where a parse is: the object so far, the next byte, and whether all went well.
At(o, at, ok) == [o |-> o, at |-> at, ok |-> ok]

\* ParseMessage: the size, then as many bytes into the submessage.
ParseMessage(c, o, s, i) ==
  InternalParse(c, At(o, VarintEnd(s, i), TRUE), s, VarintEnd(s, i) + VarintValue(s, i))

\* The string at i, which must not go on behind the stream.
ParseString(s, i) ==
  LET begin == VarintEnd(s, i)
      end == begin + VarintValue(s, i)
  IN  IF end >= begin /\ end <= Len(s) + 1 THEN At(SubSeq(s, begin, end - 1), end, TRUE)
      ELSE At(<< >>, begin, FALSE)

\* The value at i, of a type that is not a class.
ParseScalar(type, s, i) ==
  CASE WireType(type) = VarintType -> At(VarintValue(s, i), VarintEnd(s, i), TRUE)
    [] type = Double -> At([k \in 1 .. 8 |-> ByteAt(s, i + k - 1)], i + 8, TRUE)
    [] type = String -> ParseString(s, i)

ParseKnown(c, o, s, i, f) ==
  CASE IsMessage(c, f) ->
         [ParseMessage(ClassOf(c, f), GetField(c, o, f), s, i)
            EXCEPT !.o = SetField(c, o, f, <<@>>)]
    [] IsRepeated(c, f) ->
         [ParseMessage(ClassOf(c, f), New(ClassOf(c, f)), s, i)
            EXCEPT !.o = AddElement(c, o, f, @)]
    [] OTHER -> [ParseScalar(Type(c, f), s, i) EXCEPT !.o = SetField(c, o, f, @)]

\* A field whose bytes from i up to next its class does not know.
ParseUnknown(o, s, i, next) ==
  IF next > Len(s) + 1 THEN At(o, i, FALSE)
  ELSE At([o EXCEPT !.unknown = @ \o SubSeq(s, i, next - 1)], next, TRUE)

\* Whether Request's call_type at i is none of its enum: it is kept as unknown.
InvalidEnum(c, f, s, i) ==
  Type(c, f) = Enum /\ ~Request_RequestType_IsValid(VarintValue(s, i))

ParseField(c, p, s) ==
  LET tag == VarintValue(s, p.at)
      value == VarintEnd(s, p.at)
      known == tag \in DOMAIN ParseTable[c]
  IN  IF known /\ ~InvalidEnum(c, ParseTable[c][tag], s, value)
      THEN ParseKnown(c, p.o, s, value, ParseTable[c][tag])
      ELSE IF ~known /\ (tag < 8 \/ tag % 8 = 4) THEN At(p.o, value, FALSE)
      ELSE ParseUnknown(p.o, s, p.at, SkipEnd(s, value, tag % 8))

InternalParse(c, p, s, end) ==
  IF p.ok /\ p.at < end THEN InternalParse(c, ParseField(c, p, s), s, end)
  ELSE At(p.o, p.at, p.ok /\ p.at = end)

\* ParseFromString: read tells whether the bytes could be read to their end,
\* ok what the function returns.
ParseFromString(c, o, s) ==
  LET r == InternalParse(c, At(Clear(c, o), 1, TRUE), s, Len(s) + 1)
  IN  [o |-> r.o, read |-> r.ok, ok |-> r.ok /\ IsInitialized(c, r.o)]
=============================================================================
