----------------------------- MODULE ByteCodec ------------------------------
(***************************************************************************)
(* How ByteArray turns values into bytes (wyze/bytearray.cpp).  The widths *)
(* are scaled: a byte has GroupBits + 1 bits (8 in the code), so that a    *)
(* varint byte carries GroupBits of the value (7) and a continuation bit;  *)
(* Size16, Size32 and Size64 are the sizeof of the integer types.          *)
(***************************************************************************)
EXTENDS Integers, Sequences, SequencesExt, FiniteSetsExt

CONSTANTS GroupBits, Size16, Size32, Size64

ASSUME CodecAssumption ==
  /\ GroupBits \in Nat \ {0}
  /\ {Size16, Size32, Size64} \subseteq Nat \ {0}

Cont == 2 ^ GroupBits               \* 0x80, the continuation bit
Byte == 0 .. 2 * Cont - 1
Bits(size) == size * (GroupBits + 1)

\* What the proofs use of the arithmetic of powers, which the provers do not
\* know: the weights of bits and of bytes are positive.
ASSUME PowersArePositive ==
  /\ Cont \in Nat \ {0}
  /\ \A k \in 0 .. Bits(Size32 + Size64) : 2 ^ k \in Nat \ {0}
  /\ \A k \in 0 .. Size16 + Size32 + Size64 : (2 * Cont) ^ k \in Nat \ {0}

\* What the types of the API are: a fixed integer, a varint (zigzag if it is
\* signed), a string with a length in front, a string without.
FixedSize == [F8 |-> 1, F16 |-> Size16, F32 |-> Size32, F64 |-> Size64]
VarSize   == [U32 |-> Size32, I32 |-> Size32, U64 |-> Size64, I64 |-> Size64]
Signed    == {"I32", "I64"}
LengthType == [SF16 |-> "F16", SF32 |-> "F32", SF64 |-> "F64", SVint |-> "U64"]
Types == DOMAIN FixedSize \cup DOMAIN VarSize \cup DOMAIN LengthType

\* The bytes of an integer as memory holds them: little end first on the
\* machines the build targets, byteswap()ed when m_endian is the other one.
FixedBytes(v, size, little) ==
  LET low == [i \in 1 .. size |-> (v \div (2 * Cont) ^ (i - 1)) % (2 * Cont)]
  IN  IF little THEN low ELSE Reverse(low)

FixedValue(bs, little) ==
  LET low == IF little THEN bs ELSE Reverse(bs)
  IN  MapThenSumSet(LAMBDA i : low[i] * (2 * Cont) ^ (i - 1), DOMAIN low)

\* EncodeZigzag32/64 on a w-bit integer: -v and v * 2 wrap.
EncodeZigzag(v, w) == (IF v < 0 THEN ((-v) % 2 ^ w) * 2 - 1 ELSE v * 2) % 2 ^ w

\* DecodeZigzag32/64: (v >> 1) ^ -(v & 1)
DecodeZigzag(u) == IF u % 2 = 0 THEN u \div 2 ELSE - (u \div 2) - 1

\* The loop of writeUint32/64: groups of the value, low group first, every
\* byte but the last with the continuation bit.
VarintBytes(u, size) ==
  LET n == CHOOSE k \in 1 .. Bits(size) :
             /\ u < Cont ^ k
             /\ \A j \in 1 .. k - 1 : u >= Cont ^ j
  IN  [i \in 1 .. n |-> ((u \div Cont ^ (i - 1)) % Cont) + (IF i < n THEN Cont ELSE 0)]

\* a | b on w-bit integers.
BitOr(a, b, w) ==
  MapThenSumSet(LAMBDA k : 2 ^ k,
                {k \in 0 .. w - 1 : (a \div 2 ^ k) % 2 = 1 \/ (b \div 2 ^ k) % 2 = 1})

\* One turn of the loop of readUint32 and of readUint64: both shift the group
\* as a uint32_t, so bits pushed past it are lost.  A shift by the width or
\* more is undefined; the shl of the build takes the count modulo the width.
VarintGroup(acc, b, shift, type) ==
  LET w == Bits(Size32)
  IN  BitOr(acc, ((b % Cont) * 2 ^ (shift % w)) % 2 ^ w, Bits(VarSize[type]))

\* The write() calls of one write operation, each with its buffer.
IntegerBytes(type, v, little) ==
  IF type \in DOMAIN FixedSize
  THEN FixedBytes(v, FixedSize[type], little)
  ELSE VarintBytes(IF type \in Signed THEN EncodeZigzag(v, Bits(VarSize[type])) ELSE v,
                   VarSize[type])

WriteCalls(type, v, little) ==
  IF type \in DOMAIN LengthType
  THEN <<IntegerBytes(LengthType[type], Len(v), little), v>>
  ELSE <<IntegerBytes(type, v, little)>>
=============================================================================
