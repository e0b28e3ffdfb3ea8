-------------------------- MODULE HttpConnection --------------------------
(***************************************************************************)
(* HttpConnection::recvResponse (wyze/http/http_connection.cpp): one       *)
(* connection, requests one after the other, a server that answers each    *)
(* with a response of a known length or with chunks, and reads that return *)
(* any part of what has been sent.                                         *)
(*                                                                         *)
(* A unit <<r, kind, k>> of response r is a piece of its header ("head",   *)
(* HeadUnits of them), a chunk's size line ("size", the size is k), the    *)
(* k-th byte of the body ("data"), or the end of a chunk ("crlf", the two  *)
(* bytes counted by the + 2 of the code).                                  *)
(***************************************************************************)
EXTENDS Integers, Sequences

CONSTANTS
    HeadUnits,      \* units of a response header
    BufferUnits,    \* buffer_size of recvResponse
    MaxResponse,    \* http.response.max_body_size
    Shapes,         \* the responses a server gives: [chunked, ends], ends[i] the
                    \* bytes of the body up to the end of its i-th chunk; one of
                    \* known length has the one end
    MaxCalls        \* bound: requests per connection

ASSUME ConnectionSizes ==
    /\ HeadUnits \in Nat \ {0} /\ BufferUnits \in Nat /\ BufferUnits > HeadUnits
    /\ MaxResponse \in Nat /\ MaxCalls \in Nat
    /\ \A s \in Shapes :
          /\ s.chunked \in BOOLEAN /\ s.ends \in Seq(Nat)
          /\ ~s.chunked => Len(s.ends) = 1
          \* An empty chunk ends the body, so no chunk before it is empty.
          /\ s.chunked => \A i, j \in DOMAIN s.ends :
                            s.ends[i] > 0 /\ (i < j => s.ends[i] < s.ends[j])

VARIABLES
    asked,          \* how many requests were sent
    answers,        \* the shapes of the responses
    wire,           \* the units the server has sent and the client has not read
    peerClosed,     \* the server has closed its side
    call,           \* where recvResponse is, and its locals
    left_data,      \* its first left_size bytes
    results,        \* what the calls returned: [ok, body, whole]
    bodyError,      \* read() failed inside readFixSize
    overrun         \* memcpy wrote behind the end of the body

connectionVars == <<asked, answers, wire, peerClosed, call, left_data, results, bodyError, overrun>>

Data(r, from, n) == [k \in 1..n |-> <<r, "data", from + k>>]
Total(shape) == IF shape.ends = <<>> THEN 0 ELSE shape.ends[Len(shape.ends)]

\* Chunk i of the body, the empty one behind the last included: the bytes in
\* front of it, its own bytes, and its size line's place in the response.
BytesBefore(shape, i) == IF i = 1 THEN 0 ELSE shape.ends[i - 1]
ChunkBytes(shape, i) == IF i > Len(shape.ends) THEN 0 ELSE shape.ends[i] - BytesBefore(shape, i)
ChunkAt(shape, i) == HeadUnits + BytesBefore(shape, i) + 2 * (i - 1) + 1
ChunkEnd(shape, i) == ChunkAt(shape, i) + ChunkBytes(shape, i) + 1

ResponseUnits(shape) ==
    IF shape.chunked THEN ChunkEnd(shape, Len(shape.ends) + 1) ELSE HeadUnits + shape.ends[1]

ChunkUnit(r, shape, p) ==
    LET i == CHOOSE c \in 1..Len(shape.ends) + 1 : p \in ChunkAt(shape, c)..ChunkEnd(shape, c)
    IN  IF p = ChunkAt(shape, i) THEN <<r, "size", ChunkBytes(shape, i)>>
        ELSE IF p = ChunkEnd(shape, i) THEN <<r, "crlf", 0>>
        ELSE <<r, "data", BytesBefore(shape, i) + (p - ChunkAt(shape, i))>>

Response(r, shape) ==
    [p \in 1..ResponseUnits(shape) |->
        IF p <= HeadUnits THEN <<r, "head", p>>
        ELSE IF shape.chunked THEN ChunkUnit(r, shape, p)
        ELSE <<r, "data", p - HeadUnits>>]

Frame(at, data) == [at |-> at, data |-> data, body |-> <<>>, left |-> 0, last |-> FALSE]

ConnectionInit ==
    /\ asked = 0 /\ answers = <<>> /\ wire = <<>> /\ peerClosed = FALSE
    /\ call = Frame("idle", <<>>)
    /\ left_data = <<>> /\ results = <<>> /\ bodyError = FALSE /\ overrun = FALSE

-----------------------------------------------------------------------------
(* The server (external).                                                  *)

Answer(shape) ==
    /\ ~peerClosed /\ Len(answers) < asked
    /\ answers' = Append(answers, shape)
    /\ wire' = wire \o Response(Len(answers) + 1, shape)
    /\ UNCHANGED <<asked, peerClosed, call, left_data, results, bodyError, overrun>>

ClosePeer ==
    /\ ~peerClosed
    /\ peerClosed' = TRUE
    /\ UNCHANGED <<asked, answers, wire, call, left_data, results, bodyError, overrun>>

-----------------------------------------------------------------------------
(* The calls that end recvResponse.                                        *)

\* Everything of the last response has been read.
Whole == Len(answers) = asked /\ wire' = <<>>

\* nullptr, always after close().
Fail ==
    /\ call' = Frame("closed", <<>>)
    /\ results' = Append(results, [ok |-> FALSE, body |-> <<>>, whole |-> Whole])

Return(body) ==
    /\ call' = Frame("idle", <<>>)
    /\ results' = Append(results, [ok |-> TRUE, body |-> body, whole |-> Whole])

\* saveLeftData copies left_size bytes from the head of the buffer.
Left(data, nparse) == SubSeq(data, 1, Len(data) - nparse)

Continue(frame) == call' = frame /\ UNCHANGED results

-----------------------------------------------------------------------------
SendAndReceive ==
    /\ call.at = "idle" /\ asked < MaxCalls
    /\ asked' = asked + 1
    /\ call' = Frame("head", IF BufferUnits < Len(left_data) THEN <<>> ELSE left_data)
    /\ UNCHANGED <<answers, wire, peerClosed, left_data, results, bodyError, overrun>>

Take(n) ==
    /\ n <= Len(wire)
    /\ wire' = SubSeq(wire, n + 1, Len(wire))

\* HttpResponseParser::execute on the header.
HeadEnd(data) == Len(data) >= HeadUnits
HeadError(data) ==
    \E k \in DOMAIN data : k <= HeadUnits /\ (data[k][2] # "head" \/ data[k][3] # k)

\* memcpy(&body[0], data + nparse, offset) copies offset bytes into a body of
\* length bytes, not offset - nparse.
Copy(length, offset) == offset

\* length + nparse - offset
Missing(length, n) == length - n

\* The response has a length: what is in the buffer is the body, or its begin.
LengthBody(data) ==
    LET length == answers[data[HeadUnits][1]].ends[1]
        rest == SubSeq(data, HeadUnits + 1, Len(data))
    IN  \/ /\ length > MaxResponse
           /\ Fail
           /\ UNCHANGED <<left_data, overrun>>
        \/ /\ length <= MaxResponse /\ Missing(length, Len(rest)) > 0
           /\ Continue([Frame("body", data) EXCEPT !.body = rest, !.left = Missing(length, Len(rest))])
           /\ overrun' = (overrun \/ Copy(length, Len(data)) > length)
           /\ UNCHANGED left_data
        \/ /\ length <= MaxResponse /\ Missing(length, Len(rest)) <= 0
           /\ Return(SubSeq(rest, 1, length))
           /\ left_data' = Left(data, HeadUnits + length)
           /\ UNCHANGED overrun

\* read(data + offset, buffer_size - offset)
FreeUnits(data) == BufferUnits - Len(data)

ReadHead(n) ==
    /\ call.at = "head" /\ n <= FreeUnits(call.data)
    /\ Take(n)
    /\ LET data == call.data \o SubSeq(wire, 1, n)
           done == ~HeadError(data) /\ HeadEnd(data)
       IN  \/ /\ HeadError(data) \/ (~done /\ Len(data) = BufferUnits)
              /\ Fail
              /\ UNCHANGED <<left_data, overrun>>
           \/ /\ ~HeadError(data) /\ ~done /\ Len(data) < BufferUnits
              /\ Continue(Frame("head", data))
              /\ UNCHANGED <<left_data, overrun>>
           \/ /\ done /\ answers[data[HeadUnits][1]].chunked
              /\ Continue(Frame("chunk", SubSeq(data, HeadUnits + 1, Len(data))))
              /\ UNCHANGED <<left_data, overrun>>
           \/ /\ done /\ ~answers[data[HeadUnits][1]].chunked
              /\ LengthBody(data)
    /\ UNCHANGED <<asked, answers, peerClosed, bodyError>>

\* A chunk has been put at the end of the body, and nparse units of the buffer
\* are used up: the body is too large, the chunk was the last one, or the next
\* follows in what the buffer has behind it.
ChunkDone(body, data, nparse, last) ==
    \/ /\ Len(body) > MaxResponse
       /\ Fail
       /\ UNCHANGED left_data
    \/ /\ Len(body) <= MaxResponse /\ last
       /\ Return(body)
       /\ left_data' = Left(data, nparse)
    \/ /\ Len(body) <= MaxResponse /\ ~last
       /\ Continue([Frame("chunk", SubSeq(data, nparse + 1, Len(data))) EXCEPT !.body = body])
       /\ UNCHANGED left_data

\* The loop reads before it parses: what is already in the buffer waits for
\* at least one more byte.
ReadChunk(n) ==
    /\ call.at = "chunk" /\ n <= FreeUnits(call.data)
    /\ Take(n)
    /\ LET data == call.data \o SubSeq(wire, 1, n)
           size == data[1][3]
           rest == SubSeq(data, 2, Len(data))
       IN  \/ /\ data[1][2] # "size"
              /\ Fail
              /\ UNCHANGED left_data
           \/ /\ data[1][2] = "size" /\ size + 1 <= Len(rest)
              /\ ChunkDone(call.body \o SubSeq(rest, 1, size), data, size + 2, size = 0)
           \/ /\ data[1][2] = "size" /\ size + 1 > Len(rest)
              /\ Continue([at |-> "rest", data |-> <<>>, body |-> call.body \o rest,
                           left |-> size + 1 - Len(rest), last |-> size = 0])
              /\ UNCHANGED left_data
    /\ UNCHANGED <<asked, answers, peerClosed, bodyError, overrun>>

\* Mutant: the two bytes behind the chunk stay in the body.
ChunkText(body) == body
\* body.resize(body.size() - 2)
WithoutEnd(body) == SubSeq(body, 1, Len(body) - 1)

ReadRest(n) ==
    /\ call.at = "rest" /\ n <= call.left
    /\ Take(n)
    /\ LET body == call.body \o SubSeq(wire, 1, n)
       IN  IF n = call.left THEN ChunkDone(WithoutEnd(body), <<>>, 0, call.last)
           ELSE /\ Continue([call EXCEPT !.body = body, !.left = @ - n])
                /\ UNCHANGED left_data
    /\ UNCHANGED <<asked, answers, peerClosed, bodyError, overrun>>

\* readFixSize for the rest of a body of known length.
ReadBodyRest(n) ==
    /\ call.at = "body" /\ n <= call.left
    /\ Take(n)
    /\ LET body == call.body \o SubSeq(wire, 1, n)
       IN  IF n = call.left THEN Return(body)
           ELSE Continue([call EXCEPT !.body = body, !.left = @ - n])
    /\ UNCHANGED <<asked, answers, peerClosed, left_data, bodyError, overrun>>

\* -1, the timeout: recvResponse closes the connection, except in
\* readFixSize, which takes -1 for a length and goes on.
ReadTimeout ==
    /\ call.at \in {"head", "chunk", "rest"}
    /\ UNCHANGED wire
    /\ Fail
    /\ UNCHANGED <<asked, answers, peerClosed, left_data, bodyError, overrun>>

\* Bound: one failure inside a body.
BodyTimeout ==
    /\ call.at = "body" /\ ~bodyError
    /\ bodyError' = TRUE
    /\ Continue([call EXCEPT !.left = @ + 1,
                             !.body = IF @ = <<>> THEN @ ELSE SubSeq(@, 1, Len(@) - 1)])
    /\ UNCHANGED <<asked, answers, wire, peerClosed, left_data, overrun>>

\* 0: the server has closed, or the buffer is full.
ReadEnd ==
    /\ \/ call.at \in {"head", "chunk", "rest", "body"} /\ peerClosed /\ wire = <<>>
       \/ call.at \in {"head", "chunk"} /\ Len(call.data) = BufferUnits
    /\ UNCHANGED wire
    /\ Fail
    /\ UNCHANGED <<asked, answers, peerClosed, left_data, bodyError, overrun>>

ReadSome == \E n \in 1..BufferUnits : ReadHead(n) \/ ReadChunk(n) \/ ReadRest(n) \/ ReadBodyRest(n)

ConnectionNext ==
    \/ ClosePeer
    \/ \E shape \in Shapes : Answer(shape)
    \/ SendAndReceive \/ ReadSome \/ ReadTimeout \/ BodyTimeout \/ ReadEnd

\* recv ends with data, with the end of the stream or with the timeout.
ConnectionFairness == WF_connectionVars(ReadSome \/ ReadTimeout \/ BodyTimeout \/ ReadEnd)

-----------------------------------------------------------------------------
\* The type of the connection's state: the buffer and the bytes put aside fit,
\* and a call is under way exactly while a result is missing.
ConnectionTypeOK ==
    /\ call.at \in {"idle", "head", "chunk", "rest", "body", "closed"}
    /\ Len(call.data) <= BufferUnits /\ Len(left_data) <= BufferUnits
    /\ Len(results) \in {asked, asked - 1}
    /\ (call.at \in {"idle", "closed"}) = (Len(results) = asked)

\* A response that recvResponse returns is the one the server sent for this
\* request, with all of its body and no byte more, wherever the reads cut its
\* header, its chunks and the line ends between them; unless a read failed
\* inside the body.
ResponseAsSent ==
    \A r \in DOMAIN results :
        results[r].ok /\ ~bodyError => results[r].body = Data(r, 0, Total(answers[r]))

\* A response of known length that has been read to its end is returned.  Not
\* so a chunked one: the chunk loop reads before it parses
\* (http_connection.cpp:134), so that one which is in the buffer already waits
\* for bytes nobody will send, and the call fails.
WholeIsReturned ==
    \A r \in DOMAIN results :
        results[r].whole /\ ~results[r].ok /\ ~bodyError =>
            answers[r].chunked \/ Total(answers[r]) > MaxResponse

\* memcpy at http_connection.cpp:224 writes behind the end of the body only for
\* a body shorter than the buffer: the header and the begin of a body at least
\* that long cannot be more than the body has room for.
OverrunOnlyShort ==
    overrun => \E r \in DOMAIN answers : ~answers[r].chunked /\ Total(answers[r]) < BufferUnits

\* A call ends, with the response or without, unless a read failed inside a
\* body of known length (readFixSize then waits for one byte too many).
ResponseEnds == call.at \in {"head", "chunk", "rest", "body"} ~> (call.at \in {"idle", "closed"} \/ bodyError)

\* recvResponse returns the response that was sent, and all of it.
ConnectionInv == ConnectionTypeOK /\ ResponseAsSent /\ WholeIsReturned /\ OverrunOnlyShort
=============================================================================
