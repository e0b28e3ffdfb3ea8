---------------------------- MODULE HttpSession ----------------------------
(***************************************************************************)
(* HttpServer::handleClient with HttpSession (wyze/http/http_server.cpp,   *)
(* http_session.cpp, stream.cpp): one connection, a client that may send   *)
(* the next request before the answer to the last, and reads that return   *)
(* any part of what has arrived.                                           *)
(*                                                                         *)
(* A request is a sequence of units <<r, k>>: unit k of request r.  The    *)
(* first HeadLen units are the header, whose last one holds Content-Length *)
(* and Connection, the others the body.  The parser takes a header unit    *)
(* only at its place; it does not see to which request a unit belongs.     *)
(***************************************************************************)
EXTENDS Integers, Sequences, SequencesExt, FiniteSets

CONSTANTS
    HeadLen,        \* units of a request header
    BufferSize,     \* buffer_size of recvRequest
    MaxBodySize,    \* http.request.max_body_size
    Bodies,         \* the body lengths a client sends
    MaxRequests     \* bound: requests per connection

ASSUME SessionSizes ==
    /\ HeadLen \in Nat \ {0} /\ BufferSize \in Nat /\ BufferSize > HeadLen /\ MaxBodySize \in Nat
    /\ Bodies \subseteq Nat

VARIABLES
    requests,       \* the requests sent: [len, close]
    arrived,        \* the units sent and not yet read
    gone,           \* the client has closed its side
    m_isKeepalive,
    session,        \* where the fiber is, and the locals of recvRequest
    m_left_data,    \* its first m_left_size bytes
    served,         \* the requests dispatched to a servlet
    answered,       \* how many responses were written
    ahead,          \* a request was sent before the answer to the one before it
    overread,       \* bytes behind a request were put aside
    ioError         \* read() or write() failed inside a fixed-size loop

sessionVars == <<requests, arrived, gone, m_isKeepalive, session, m_left_data, served, answered,
                 ahead, overread, ioError>>

Units(r, len) == [k \in 1..(HeadLen + len) |-> <<r, k>>]
Local(at, data, nparse) == [at |-> at, data |-> data, nparse |-> nparse, body |-> <<>>, left |-> 0]
Closed == Local("closed", <<>>, 0)

SessionInit ==
    /\ requests = <<>> /\ arrived = <<>> /\ gone = FALSE
    /\ m_isKeepalive \in BOOLEAN
    /\ session = Local("begin", <<>>, 0)
    /\ m_left_data = <<>> /\ served = <<>> /\ answered = 0
    /\ ahead = FALSE /\ overread = FALSE /\ ioError = FALSE

-----------------------------------------------------------------------------
(* The client.                                                             *)

SendRequest(len, close) ==
    /\ ~gone /\ Len(requests) < MaxRequests
    /\ requests' = Append(requests, [len |-> len, close |-> close])
    /\ arrived' = arrived \o Units(Len(requests) + 1, len)
    /\ ahead' = (ahead \/ Len(requests) > answered)
    /\ UNCHANGED <<gone, m_isKeepalive, session, m_left_data, served, answered, overread, ioError>>

CloseClient ==
    /\ ~gone
    /\ gone' = TRUE
    /\ UNCHANGED <<requests, arrived, m_isKeepalive, session, m_left_data, served, answered,
                   ahead, overread, ioError>>

-----------------------------------------------------------------------------
(* recvRequest.                                                            *)

\* The left-over bytes come first, if they fit.
BeginRequest ==
    /\ session.at = "begin"
    /\ session' = Local("read", IF BufferSize < Len(m_left_data) THEN <<>> ELSE m_left_data, 0)
    /\ UNCHANGED <<requests, arrived, gone, m_isKeepalive, m_left_data, served, answered,
                   ahead, overread, ioError>>

\* HttpRequestParser::execute on what is in the buffer: how far the header
\* goes, and whether a unit is not the one that has to follow.
Header(data) == {k \in 1..HeadLen : k <= Len(data) /\ \A j \in 1..k : data[j][2] = j}
ParsedTo(data) == Cardinality(Header(data))
ParseError(data) == ParsedTo(data) < HeadLen /\ ParsedTo(data) < Len(data)
ContentLength(data) == requests[data[HeadLen][1]].len
IsClose(data) == requests[data[HeadLen][1]].close

\* saveLeftData copies m_left_size bytes from the head of the buffer.
LeftData(data, nparse) == SubSeq(data, 1, Len(data) - nparse)

\* Mutant: what the buffer already has is wanted again.
ToReadAll(length, n) == length
ToRead(length, n) == length - n

\* What follows the header once it is parsed.
Body(data) ==
    LET length == ContentLength(data)
        rest == SubSeq(data, HeadLen + 1, Len(data))
        s == Local("dispatch", data, HeadLen)
    IN  CASE length > MaxBodySize -> Closed
          [] length <= MaxBodySize /\ length > Len(rest) ->
                 [s EXCEPT !.at = "body", !.body = rest, !.left = ToRead(length, Len(rest))]
          [] length <= MaxBodySize /\ length <= Len(rest) -> [s EXCEPT !.body = SubSeq(rest, 1, length)]

\* Whether the call saves left-over bytes, and behind which position.
Saves(data) ==
    LET end == HeadLen + ContentLength(data)
    IN  ContentLength(data) = 0 \/ (ContentLength(data) <= MaxBodySize /\ end < Len(data))

\* read(data + offset, buffer_size - offset)
Room(data) == BufferSize - Len(data)

Read(n) ==
    /\ session.at = "read" /\ n <= Len(arrived) /\ n <= Room(session.data)
    /\ LET data == session.data \o SubSeq(arrived, 1, n)
           done == ParsedTo(data) = HeadLen
           end == HeadLen + ContentLength(data)
       IN  /\ session' = CASE ParseError(data) -> Closed
                            [] ~ParseError(data) /\ done -> Body(data)
                            [] ~ParseError(data) /\ ~done ->
                                   IF Len(data) = BufferSize THEN Closed
                                   ELSE Local("read", data, ParsedTo(data))
           /\ IF done /\ Saves(data)
              THEN /\ m_left_data' = LeftData(data, end)
                   /\ overread' = (overread \/ Len(data) > end)
              ELSE UNCHANGED <<m_left_data, overread>>
    /\ arrived' = SubSeq(arrived, n + 1, Len(arrived))
    /\ UNCHANGED <<requests, gone, m_isKeepalive, served, answered, ahead, ioError>>

\* read() gives 0 (the client has closed, or the buffer has no room) or -1
\* (the timeout of the socket): close() and nullptr.
ReadFails ==
    /\ session.at = "read"
    /\ session' = Closed
    /\ UNCHANGED <<requests, arrived, gone, m_isKeepalive, m_left_data, served, answered,
                   ahead, overread, ioError>>

-----------------------------------------------------------------------------
(* Stream::readFixSize for the rest of the body.                           *)

ReadBody(n) ==
    /\ session.at = "body" /\ n <= Len(arrived) /\ n <= session.left
    /\ session' = [session EXCEPT !.body = @ \o SubSeq(arrived, 1, n), !.left = @ - n,
                                  !.at = IF session.left = n THEN "dispatch" ELSE "body"]
    /\ arrived' = SubSeq(arrived, n + 1, Len(arrived))
    /\ UNCHANGED <<requests, gone, m_isKeepalive, m_left_data, served, answered, ahead, overread, ioError>>

\* Mutant: the end of the stream is not told from a short read.
ReadBodyRetries ==
    /\ session.at = "body" /\ gone /\ arrived = <<>>
    /\ UNCHANGED sessionVars
ReadBodyEnd ==
    /\ session.at = "body" /\ gone /\ arrived = <<>>
    /\ session' = Closed
    /\ UNCHANGED <<requests, arrived, gone, m_isKeepalive, m_left_data, served, answered,
                   ahead, overread, ioError>>

\* -1 is kept in a size_t and passes the test len <= 0: the offset goes back
\* by one, one more byte is wanted, and the loop goes on.  With an offset of
\* 0 the next byte is written in front of the body: session.body then has one
\* unit more than the request's, and its last units are the body.
\* Bound: one failure inside a body.
ReadBodyFails ==
    /\ session.at = "body" /\ ~ioError
    /\ session' = [session EXCEPT !.body = IF @ = <<>> THEN @ ELSE Front(@), !.left = @ + 1]
    /\ ioError' = TRUE
    /\ UNCHANGED <<requests, arrived, gone, m_isKeepalive, m_left_data, served, answered, ahead, overread>>

-----------------------------------------------------------------------------
(* The rest of the loop of handleClient.                                   *)

Dispatch ==
    /\ session.at = "dispatch"
    /\ LET over == Len(session.body) - ContentLength(session.data)
       IN  served' = Append(served, [head |-> SubSeq(session.data, 1, HeadLen),
                                     body |-> SubSeq(session.body, over + 1, Len(session.body))])
    /\ session' = [session EXCEPT !.at = "answer"]
    /\ UNCHANGED <<requests, arrived, gone, m_isKeepalive, m_left_data, answered, ahead, overread, ioError>>

Again(data) == ~IsClose(data) /\ m_isKeepalive

SendResponse ==
    /\ session.at = "answer"
    /\ answered' = answered + 1
    /\ session' = IF Again(session.data) THEN Local("begin", <<>>, 0) ELSE Closed
    /\ UNCHANGED <<requests, arrived, gone, m_isKeepalive, m_left_data, served, ahead, overread, ioError>>

\* write() on a broken connection gives -1, which writeFixSize takes for
\* progress; the write that follows raises SIGPIPE, which nothing handles.
SendResponseFails ==
    /\ session.at = "answer" /\ gone
    /\ session' = [session EXCEPT !.at = "killed"]
    /\ ioError' = TRUE
    /\ UNCHANGED <<requests, arrived, gone, m_isKeepalive, m_left_data, served, answered, ahead, overread>>

SessionStep ==
    \/ BeginRequest \/ ReadFails \/ ReadBodyEnd \/ ReadBodyFails \/ Dispatch \/ SendResponse
    \/ SendResponseFails
    \/ \E n \in 1..BufferSize : Read(n) \/ ReadBody(n)

SessionNext ==
    \/ \E len \in Bodies, close \in BOOLEAN : SendRequest(len, close)
    \/ CloseClient
    \/ SessionStep

\* What is treated fairly: the steps of the running fiber, and that it is
\* resumed when its fd is readable or its timeout expires.
SessionRuns == BeginRequest \/ Dispatch \/ SendResponse \/ SendResponseFails
SessionReads == ReadFails \/ ReadBodyEnd \/ \E n \in 1..BufferSize : Read(n) \/ ReadBody(n)

-----------------------------------------------------------------------------
\* The type of the session's state: the buffer and the bytes put aside fit.
SessionTypeOK ==
    /\ Len(session.data) <= BufferSize /\ Len(m_left_data) <= BufferSize
    /\ session.nparse \in 0..HeadLen /\ session.left \in 0..(MaxBodySize + 1)
    /\ answered <= Len(served)

\* What HttpServer dispatches is what the client sent, request by request and
\* byte by byte, as long as no read went beyond a request and no read failed
\* inside a body.  Both exceptions are real: saveLeftData (http_session.cpp:155)
\* puts the head of the buffer aside instead of its rest, and readFixSize
\* (stream.cpp:14) goes on after -1.
ServedIsSent ==
    ~overread /\ ~ioError =>
        \A i \in DOMAIN served :
            served[i].head \o served[i].body = Units(i, requests[i].len)

\* A client that waits for each answer before it sends the next request never
\* has bytes of one request taken for another's: nothing is put aside for it.
NothingLeftInTurn == overread => ahead

\* After a request that asks for it, or without keep-alive, the connection
\* is not read again.
ClosedAfterLast ==
    \A i \in DOMAIN served :
        LET asked == requests[served[i].head[HeadLen][1]].close \/ ~m_isKeepalive
        IN  asked => i = Len(served) /\ session.at \in {"answer", "closed", "killed"}

\* Once the client has closed, the fiber ends (handleClient returns and the
\* session is closed), unless an operation failed inside a fixed-size loop.
SessionEnds == gone ~> (session.at = "closed" \/ ioError)

\* The keep-alive loop of handleClient serves what was sent, in order, and
\* stops where the client or the server asked for it.
SessionInv == SessionTypeOK /\ ServedIsSent /\ NothingLeftInTurn /\ ClosedAfterLast
=============================================================================
