------------------------------ MODULE ProtoWire ------------------------------
(***************************************************************************)
(* The wire format of the protobuf library, as far as the generated code   *)
(* under serialization/ uses it.  The library is not in the repository;    *)
(* bytes are the numbers below 256, and a stream is a sequence of them.    *)
(***************************************************************************)
EXTENDS Integers, Sequences, SequencesExt

Bytes == 0 .. 255

\* Byte i of a stream; the library's buffer has zeros behind the last one.
ByteAt(s, i) == IF i <= Len(s) THEN s[i] ELSE 0

\* A varint has seven bits to a byte, the lowest first; a negative int32 is
\* widened to 64 bits.
VarintSize(n) == IF n < 0 THEN 10
                 ELSE IF n < 128 THEN 1
                 ELSE IF n < 16384 THEN 2
                 ELSE IF n < 2097152 THEN 3
                 ELSE IF n < 268435456 THEN 4 ELSE 5

Varint(n) ==
  LET size == VarintSize(n)
      group(k) == IF k = 10 THEN 1
                  ELSE IF k > 5 THEN 127 ELSE (n \div (128 ^ (k - 1))) % 128
  IN  [k \in 1 .. size |-> group(k) + (IF k < size THEN 128 ELSE 0)]

\* Where the varint at i ends: behind its first byte below 128.
VarintEnd(s, i) ==
  Min({j \in i + 1 .. i + 10 : ByteAt(s, j - 1) < 128 \/ j = i + 10})

\* The 32 bits a reader keeps of the varint at i, as a signed number.
VarintValue(s, i) ==
  LET group == [k \in 0 .. 4 |-> IF i + k < VarintEnd(s, i) THEN ByteAt(s, i + k) % 128 ELSE 0]
      low(g) == g[0] + g[1] * 128 + g[2] * 16384 + g[3] * 2097152
      high(g) == ((g[4] + 8) % 16) - 8
  IN  CHOOSE n \in {low(g) + high(g) * 268435456 : g \in {group}} : TRUE

\* Wire types.
VarintType == 0
Fixed64Type == 1
LengthType == 2

Tag(number, wiretype) == 8 * number + wiretype

\* Where the value that begins at i ends if its field is not known.
SkipEnd(s, i, wiretype) ==
  CASE wiretype = VarintType -> VarintEnd(s, i)
    [] wiretype = Fixed64Type -> i + 8
    [] wiretype = LengthType -> VarintEnd(s, i) + VarintValue(s, i)
    [] wiretype = 5 -> i + 4
    [] OTHER -> Len(s) + 2      \* groups: none of this program's messages
=============================================================================
