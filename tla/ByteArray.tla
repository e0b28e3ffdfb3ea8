----------------------------- MODULE ByteArray ------------------------------
(***************************************************************************)
(* wyze/bytearray.cpp: a byte buffer kept as a list of blocks of           *)
(* m_basesize bytes, with a position that reads and writes share and a     *)
(* pointer m_cur to the block of that position.  The block list is the     *)
(* sequence blocks, m_cur an index into it, 0 for the null pointer.        *)
(*                                                                         *)
(* An operation of the API is a sequence of write() or read() calls, and   *)
(* write() and read() go through the blocks turn by turn: op is where the  *)
(* caller is.  A ByteArray is used by one fiber at a time.                 *)
(***************************************************************************)
EXTENDS ByteCodec

CONSTANTS
  BaseSize,      \* m_basesize
  MaxCapacity,   \* bound: no operation that would pass it is started
  Fields,        \* the typed values written, as [type, value]
  Packets,       \* what the peer sends and what files hold: byte sequences
  MaxWrites,     \* bound: the write operations and receptions of a behaviour
  MaxIo,         \* bound: the largest length given to SockStream::read/write
  Fills          \* what freshly allocated memory may hold

ASSUME ByteArrayAssumption ==
  /\ BaseSize \in Nat \ {0}
  /\ MaxCapacity \in Nat
  /\ {MaxWrites, MaxIo} \subseteq Nat
  /\ Fills \subseteq Byte /\ Fills # {}
  /\ \A f \in Fields : f.type \in Types
  \* a field holds a value of its type
  /\ \A f \in Fields, b \in BOOLEAN : WriteCalls(f.type, f.value, b) \in Seq(Seq(Byte))
  /\ \A p \in Packets : p \in Seq(Byte)

VARIABLES
  m_position, m_size, m_capacity, m_cur, blocks,
  little,    \* m_endian is WYZE_LITTLE_ENDIAN
  op,        \* the operation under way
  out,       \* the bytes the last reading step handed out
  fault,     \* where a null m_cur was dereferenced: "none", "entry", "loop"
  writes,    \* how many writes there were, for the bound
  recs       \* history: the fields whose bytes are still as written

arrayVars == <<m_position, m_size, m_capacity, m_cur, blocks, little, op, out, fault,
          writes, recs>>

array == <<m_position, m_size, m_capacity, m_cur, blocks>>

NoOp == [kind |-> "none"]

Idle == op = NoOp /\ fault = "none"

NewBlock(fill) == [i \in 1 .. BaseSize |-> fill]

\* m_cur->next
NextBlock(list, b) == IF b < Len(list) THEN b + 1 ELSE 0

\* The list with data laid over it from offset npos of block cur on: what
\* memcpy, or the kernel through the iovecs, stores.
Stored(list, cur, npos, data) ==
  [b \in 1 .. Len(list) |->
     [i \in 1 .. BaseSize |->
        LET k == (b - cur) * BaseSize + i - npos
        IN  IF k \in 1 .. Len(data) THEN data[k] ELSE list[b][i]]]

\* The byte at position i of a list, the first being 1.
ByteAt(list, i) == list[(i - 1) \div BaseSize + 1][((i - 1) % BaseSize) + 1]

\* The n bytes from offset npos of block cur on.
Loaded(cur, npos, n) ==
  [k \in 1 .. n |-> ByteAt(blocks, (cur - 1) * BaseSize + npos + k)]

\* addCapacity(size): the list, the capacity and m_cur after it.
AddCapacity(size, fill) ==
  LET old_cap == m_capacity - m_position
      lack == size - old_cap
      count == lack \div BaseSize + (IF lack % BaseSize # 0 THEN 1 ELSE 0)
  IN  IF size = 0 \/ old_cap > size
      THEN [blocks |-> blocks, cap |-> m_capacity, cur |-> m_cur]
      ELSE [blocks |-> blocks \o [i \in 1 .. count |-> NewBlock(fill)],
            cap |-> m_capacity + count * BaseSize,
            cur |-> IF old_cap # 0 THEN m_cur ELSE IF count > 0 THEN Len(blocks) + 1 ELSE 0]

\* setPosition(v) on a list: the turns of its while loop, then the step over
\* a block that v exactly fills.
CurAt(list, v) ==
  LET turns == IF v = 0 THEN 0 ELSE (v - 1) \div BaseSize
  IN  IF v - turns * BaseSize = BaseSize THEN NextBlock(list, turns + 1) ELSE turns + 1

\* Mutant: setPosition that leaves m_size alone.
MovesToKeepsSize(list, v) ==
  /\ m_position' = v
  /\ m_size' = m_size
  /\ m_cur' = CurAt(list, v)

MovesTo(list, v) ==
  /\ m_position' = v
  /\ m_size' = IF v > m_size THEN v ELSE m_size
  /\ m_cur' = CurAt(list, v)

\* The fields that bytes at .. at + n - 1 do not touch.
Untouched(at, n) == {r \in recs : r.at + r.len <= at \/ r.at >= at + n}
-----------------------------------------------------------------------------
(* Writing *)

Total(calls) == Len(FlattenSeq(calls))

StartsWriting(field, calls) ==
  /\ Idle
  /\ m_position + Total(calls) <= MaxCapacity
  /\ op' = [kind |-> "write", field |-> field, at |-> m_position, calls |-> calls,
            buf |-> <<>>, npos |-> 0, ncap |-> 0]
  /\ writes < MaxWrites /\ writes' = writes + 1
  /\ recs' = Untouched(m_position, Total(calls))
  /\ out' = <<>>
  /\ UNCHANGED <<array, little, fault>>

\* writeFuint8 ... writeStringVint.
WriteField(f) == StartsWriting(f, WriteCalls(f.type, f.value, little))

\* write() and writeStringWithoutLength.
WriteBytes(data) == StartsWriting([type |-> "raw"], <<data>>)

\* readFromFile: one write per m_basesize bytes of the file; the read that
\* meets the end may bring none.
ReadFromFile(content) ==
  LET piece(i) == SubSeq(content, (i - 1) * BaseSize + 1,
                         IF i * BaseSize < Len(content) THEN i * BaseSize ELSE Len(content))
  IN  StartsWriting([type |-> "raw"], [i \in 1 .. Len(content) \div BaseSize + 1 |-> piece(i)])

\* write(): the early return, or addCapacity and the place of the first turn.
WriteCall ==
  /\ op.kind = "write" /\ op.buf = <<>> /\ op.calls # <<>> /\ fault = "none"
  /\ \E fill \in Fills :
       LET buf == Head(op.calls)
           grown == AddCapacity(Len(buf), fill)
           npos == m_position % BaseSize
       IN  /\ blocks' = grown.blocks
           /\ m_capacity' = grown.cap
           /\ m_cur' = grown.cur
           /\ fault' = IF Len(buf) > 0 /\ grown.cur = 0 THEN "loop" ELSE fault
           /\ op' = IF buf = <<>> THEN [op EXCEPT !.calls = Tail(@)]
                    ELSE [op EXCEPT !.buf = buf, !.npos = npos, !.ncap = BaseSize - npos]
  /\ UNCHANGED <<m_position, m_size, little, out, writes, recs>>

\* A turn that the current block takes all of.
WriteLastTurn ==
  /\ op.kind = "write" /\ op.buf # <<>> /\ fault = "none"
  /\ op.ncap >= Len(op.buf)
  /\ blocks' = Stored(blocks, m_cur, op.npos, op.buf)
  /\ m_cur' = IF op.npos + Len(op.buf) = BaseSize THEN NextBlock(blocks, m_cur) ELSE m_cur
  /\ m_position' = m_position + Len(op.buf)
  /\ m_size' = IF m_position' > m_size THEN m_position' ELSE m_size
  /\ op' = [op EXCEPT !.buf = <<>>, !.calls = Tail(@)]
  /\ out' = <<>>
  /\ UNCHANGED <<m_capacity, little, fault, writes, recs>>

\* A turn that fills the current block and goes on to the next.
WriteFillTurn ==
  /\ op.kind = "write" /\ op.buf # <<>> /\ fault = "none"
  /\ op.ncap < Len(op.buf)
  /\ blocks' = Stored(blocks, m_cur, op.npos, SubSeq(op.buf, 1, op.ncap))
  /\ m_position' = m_position + op.ncap
  /\ m_cur' = NextBlock(blocks, m_cur)
  /\ fault' = IF m_cur' = 0 THEN "loop" ELSE fault
  /\ op' = [op EXCEPT !.buf = SubSeq(@, op.ncap + 1, Len(@)), !.npos = 0, !.ncap = BaseSize]
  /\ out' = <<>>
  /\ UNCHANGED <<m_size, m_capacity, little, writes, recs>>

WriteReturn ==
  /\ op.kind = "write" /\ op.calls = <<>> /\ fault = "none"
  /\ op' = NoOp
  /\ recs' = IF op.field.type \in Types
             THEN recs \cup {[at |-> op.at, len |-> m_position - op.at, little |-> little,
                              type |-> op.field.type, value |-> op.field.value]}
             ELSE recs
  /\ UNCHANGED <<array, little, out, fault, writes>>
-----------------------------------------------------------------------------
(* Reading *)

\* The size of the read() call that starts reading an integer.
CallSize(type) == IF type \in DOMAIN FixedSize THEN FixedSize[type] ELSE 1

\* readFuint8 ... readStringVint.
StartRead(type) ==
  LET of == IF type \in DOMAIN LengthType THEN LengthType[type] ELSE type
  IN  /\ Idle
      /\ op' = [kind |-> "read", type |-> type, of |-> of, at |-> m_position,
                step |-> "call", size |-> CallSize(of), buf |-> <<>>,
                npos |-> 0, ncap |-> 0, acc |-> 0, shift |-> 0]
          /\ out' = <<>>
      /\ UNCHANGED <<array, little, fault, writes, recs>>

\* read() throws out_of_range: what the operation consumed before stays
\* consumed.
ReadThrows ==
  /\ op.kind = "read" /\ op.step = "call" /\ fault = "none"
  /\ op.size > m_size - m_position
  /\ op' = NoOp
  /\ out' = <<>>
  /\ UNCHANGED <<array, little, fault, writes, recs>>

\* read() looks at m_cur->size before it knows whether it reads anything.
ReadCall ==
  /\ op.kind = "read" /\ op.step = "call" /\ fault = "none"
  /\ op.size <= m_size - m_position
  /\ LET npos == m_position % BaseSize
     IN  /\ fault' = IF m_cur = 0 THEN "entry" ELSE fault
         /\ op' = [op EXCEPT !.step = IF op.size = 0 THEN "return" ELSE "turn",
                             !.buf = <<>>, !.npos = npos, !.ncap = BaseSize - npos]
  /\ UNCHANGED <<array, little, out, writes, recs>>

ReadLastTurn ==
  /\ op.kind = "read" /\ op.step = "turn" /\ fault = "none"
  /\ op.ncap >= op.size
  /\ out' = Loaded(m_cur, op.npos, op.size)
  /\ m_cur' = IF op.npos + op.size = BaseSize THEN NextBlock(blocks, m_cur) ELSE m_cur
  /\ m_position' = m_position + op.size
  /\ op' = [op EXCEPT !.step = "return", !.size = 0, !.buf = @ \o out']
  /\ UNCHANGED <<m_size, m_capacity, blocks, little, fault, writes, recs>>

ReadFillTurn ==
  /\ op.kind = "read" /\ op.step = "turn" /\ fault = "none"
  /\ op.ncap < op.size
  /\ out' = Loaded(m_cur, op.npos, op.ncap)
  /\ m_position' = m_position + op.ncap
  /\ m_cur' = NextBlock(blocks, m_cur)
  /\ fault' = IF m_cur' = 0 THEN "loop" ELSE fault
  /\ op' = [op EXCEPT !.size = @ - op.ncap, !.buf = @ \o out', !.npos = 0, !.ncap = BaseSize]
  /\ UNCHANGED <<m_size, m_capacity, blocks, little, writes, recs>>

\* What the caller makes of the bytes of an integer: the value and, for a
\* varint, whether the loop goes round again.
VarintAcc == VarintGroup(op.acc, op.buf[1], op.shift, op.of)

VarintMore ==
  /\ op.kind = "read" /\ op.step = "return" /\ op.of \in DOMAIN VarSize /\ fault = "none"
  /\ op.buf[1] >= Cont
  /\ op.shift + GroupBits < Bits(VarSize[op.of])
  /\ op' = [op EXCEPT !.step = "call", !.size = 1, !.acc = VarintAcc, !.shift = @ + GroupBits]
  /\ UNCHANGED <<array, little, out, fault, writes, recs>>

\* Mutant: the bytes of an integer are not swapped when they are read.
IntegerValueUnswapped ==
  CASE op.of \in DOMAIN FixedSize -> FixedValue(op.buf, TRUE)
    [] op.of \in Signed -> DecodeZigzag(VarintAcc)
    [] OTHER -> VarintAcc

IntegerValue ==
  CASE op.of \in DOMAIN FixedSize -> FixedValue(op.buf, little)
    [] op.of \in Signed -> DecodeZigzag(VarintAcc)
    [] OTHER -> VarintAcc

IntegerDone ==
  /\ op.kind = "read" /\ op.step = "return" /\ op.of # "data" /\ fault = "none"
  /\ op.of \in DOMAIN VarSize =>
       op.buf[1] < Cont \/ op.shift + GroupBits >= Bits(VarSize[op.of])

\* The read operation is about to return, and what it returns.
IntegerReturns == IntegerDone /\ op.type \notin DOMAIN LengthType

DataReturns == op.kind = "read" /\ op.step = "return" /\ op.of = "data" /\ fault = "none"

Returned == IF op.of = "data" THEN op.buf ELSE IntegerValue

ReadReturn ==
  /\ IntegerReturns \/ DataReturns
  /\ op' = NoOp
  /\ out' = <<>>
  /\ UNCHANGED <<array, little, fault, writes, recs>>

\* The length of a string has been read: its data follow.
ReadLength ==
  /\ IntegerDone
  /\ op.type \in DOMAIN LengthType
  /\ op' = [op EXCEPT !.of = "data", !.step = "call", !.size = IntegerValue]
  /\ UNCHANGED <<array, little, out, fault, writes, recs>>
-----------------------------------------------------------------------------
(* The rest of the API, and SockStream, which moves the position itself *)

SetPosition(v) ==
  /\ Idle
  /\ v <= m_capacity
  /\ MovesTo(blocks, v)
  /\ out' = <<>>
  /\ UNCHANGED <<m_capacity, blocks, little, op, fault, writes, recs>>

Clear ==
  /\ Idle
  /\ m_position' = 0 /\ m_size' = 0
  /\ m_capacity' = BaseSize
  /\ blocks' = <<blocks[1]>>
  /\ m_cur' = 1
  /\ out' = <<>>
  /\ recs' = {}
  /\ UNCHANGED <<little, op, fault, writes>>

SetIsLittleEndian(val) ==
  /\ Idle
  /\ little' = val
  /\ UNCHANGED <<array, op, out, fault, writes, recs>>

\* read(buf, size, m_position) const, and getReadBuffers: the same walk on a
\* copy of m_cur, begun with m_cur->size.
Looks(n) ==
  IF m_cur = 0 THEN fault' = "entry" /\ UNCHANGED out
  ELSE fault' = fault /\ out' = Loaded(m_cur, m_position % BaseSize, n)

\* toString and toHexString return early when there is nothing to read.
AsString ==
  /\ Idle
  /\ IF m_size = m_position THEN out' = <<>> /\ UNCHANGED fault
     ELSE Looks(m_size - m_position)
  /\ UNCHANGED <<array, little, op, writes, recs>>

WriteToFile ==
  /\ Idle
  /\ Looks(m_size - m_position)
  /\ UNCHANGED <<array, little, op, writes, recs>>

\* SockStream::write: getReadBuffers, send, setPosition past what was sent
\* (rt of len bytes; 0 also stands for an error).
SendFrom(len) ==
  /\ Idle
  /\ LET n == IF len > m_size - m_position THEN m_size - m_position ELSE len
     IN  \E rt \in 0 .. n :
           /\ Looks(rt)
           /\ IF m_cur # 0 /\ rt > 0 THEN MovesTo(blocks, m_position + rt)
              ELSE UNCHANGED <<m_position, m_size, m_cur>>
  /\ UNCHANGED <<m_capacity, blocks, little, op, writes, recs>>

\* SockStream::read: getWriteBuffers, recv, setPosition past what arrived
\* (nothing: the peer closed, or an error).
RecvInto(len, data) ==
  /\ Idle
  /\ Len(data) <= len
  /\ m_position + len <= MaxCapacity
  /\ \E fill \in Fills :
       LET grown == AddCapacity(len, fill)
       IN  /\ m_capacity' = grown.cap
           /\ fault' = IF grown.cur = 0 THEN "loop" ELSE fault
           /\ blocks' = Stored(grown.blocks, grown.cur, m_position % BaseSize, data)
           /\ IF Len(data) > 0 THEN MovesTo(grown.blocks, m_position + Len(data))
              ELSE m_cur' = grown.cur /\ UNCHANGED <<m_position, m_size>>
  /\ out' = <<>>
  /\ writes < MaxWrites /\ writes' = writes + 1
  /\ recs' = Untouched(m_position, Len(data))
  /\ UNCHANGED <<little, op>>

ArrayInit ==
  /\ m_position = 0 /\ m_size = 0
  /\ m_capacity = BaseSize
  /\ m_cur = 1
  /\ \E fill \in Fills : blocks = <<NewBlock(fill)>>
  /\ little = FALSE
  /\ op = NoOp
  /\ out = <<>>
  /\ fault = "none"
  /\ writes = 0
  /\ recs = {}

ArrayNext ==
  \/ \E f \in Fields : WriteField(f)
  \/ \E p \in Packets : WriteBytes(p)
  \/ \E p \in Packets : ReadFromFile(p)
  \/ WriteCall \/ WriteLastTurn \/ WriteFillTurn \/ WriteReturn
  \/ \E t \in Types : StartRead(t)
  \/ ReadThrows \/ ReadCall \/ ReadLastTurn \/ ReadFillTurn
  \/ VarintMore \/ ReadReturn \/ ReadLength
  \/ \E v \in 0 .. MaxCapacity + BaseSize : SetPosition(v)
  \/ Clear
  \/ \E val \in BOOLEAN : SetIsLittleEndian(val)
  \/ AsString \/ WriteToFile
  \/ \E len \in 1 .. MaxIo : SendFrom(len)
  \/ \E len \in 1 .. MaxIo, data \in Packets \cup {<<>>} : RecvInto(len, data)

-----------------------------------------------------------------------------
(* Properties *)

ArrayTypeOK ==
  /\ {m_position, m_size, m_capacity} \subseteq Nat
  /\ blocks \in Seq([1 .. BaseSize -> Byte])
  /\ m_cur \in 0 .. Len(blocks)
  /\ little \in BOOLEAN
  /\ op.kind \in {"none", "write", "read"}
  /\ out \in Seq(Byte)
  /\ fault \in {"none", "entry", "loop"}
  /\ \A r \in recs : r.type \in Types /\ r.at + r.len <= m_capacity

\* m_cur, which write(), read(), setPosition() and addCapacity() each move by
\* their own rule, is always the block of m_position, and null exactly when
\* the position is the end of the last block; the position never passes the
\* size outside write(), so getReadSize(), an unsigned difference, does not
\* wrap, and neither passes the capacity, so getCapacity() does not either.
CurMatchesPosition ==
  /\ m_capacity = Len(blocks) * BaseSize
  /\ m_position <= m_capacity /\ m_size <= m_capacity
  /\ op.kind # "write" => m_position <= m_size
  /\ m_cur = IF m_position = m_capacity THEN 0 ELSE m_position \div BaseSize + 1

\* The loops never run off the block list.  The only null pointer that is
\* followed is the m_cur->size with which read(), writeToFile() and
\* getReadBuffers() begin, and only at the end of the last block, when there
\* is nothing to read.
FaultOnlyAtEnd ==
  fault # "none" => fault = "entry" /\ m_position = m_capacity

\* The values that come back: an unsigned varint that fits 32 bits, whatever
\* its type, and a string whose length its prefix can hold.
Survives(type, v) ==
  CASE type = "U64" -> v < 2 ^ Bits(Size32)
    [] type = "I64" -> EncodeZigzag(v, Bits(Size64)) < 2 ^ Bits(Size32)
    [] type \in DOMAIN LengthType \ {"SVint"} ->
         Len(v) < 2 ^ Bits(FixedSize[LengthType[type]])
    [] OTHER -> TRUE

\* What was written is what is read: a typed read at the position where a
\* field was written with that type and byte order, and not touched since,
\* returns the value written, however the field lies across the blocks and
\* whatever was read, written or sought in between.  readUint64 shifts its
\* groups as uint32_t, and for larger values it never does.
ReadBack ==
  IntegerReturns \/ DataReturns =>
    \A r \in recs :
      r.at = op.at /\ r.type = op.type /\ r.little = little
      => (Returned = r.value <=> Survives(r.type, r.value))

\* The content a user sees: the bytes below the size, which write() brings up
\* to the position only when it is done.
Content ==
  [i \in 1 .. (IF m_position > m_size THEN m_position ELSE m_size) |-> ByteAt(blocks, i)]

Flat == INSTANCE FlatBuffer WITH bytes <- Content, pos <- m_position, out <- out

\* The block list implements the flat buffer: every turn of every loop puts
\* its bytes at the cursor, or takes the bytes there, and moves the cursor by
\* as many; growing the list, starting an operation and leaving it are not
\* visible.
ImplementsFlat == Flat!Spec

\* The block list is sound: m_cur is the block of m_position, and it is
\* followed when null only at the end of the last block.
ArrayInv == ArrayTypeOK /\ CurMatchesPosition /\ FaultOnlyAtEnd
=============================================================================
