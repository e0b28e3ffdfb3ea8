------------------------------ MODULE HttpPool ------------------------------
(***************************************************************************)
(* HttpConnectionPool (wyze/http/http_connection.cpp): callers of          *)
(* doRequest on several threads share the pool.  Only the list m_conns is  *)
(* under the mutex; m_total is atomic and changed outside of it.  What     *)
(* recvResponse does with the bytes is HttpConnection's; here a call gets  *)
(* the next answer of its connection or fails and closes it.               *)
(***************************************************************************)
EXTENDS Integers, Sequences, SequencesExt, FiniteSets

CONSTANTS
    Callers,        \* the threads that call doRequest
    PoolConns,      \* the connections that may be created
    m_maxSize, m_maxRequest,
    MaxAlive,       \* the max_alive_time given to the constructor
    Starts,         \* the clock when the pool is made
    Width,          \* m_maxAliveTime is kept modulo this
    MaxWait,        \* bound: how far the clock goes
    MaxAsks         \* bound: calls of each caller

ASSUME PoolSizes ==
    /\ m_maxSize \in Nat /\ m_maxRequest \in Nat /\ MaxAlive \in Nat /\ Width \in Nat \ {0}
    /\ Starts \subseteq Nat /\ MaxWait \in Nat

VARIABLES
    m_conns,        \* the idle connections, oldest release first
    m_total,
    conn,           \* PoolConns -> what the object holds, and its stream
    caller,         \* Callers -> where the call is
    clock, start,
    retired         \* the ages of the connections given up for their age

poolVars == <<m_conns, m_total, conn, caller, clock, start, retired>>

NoConn == "none"
ASSUME PoolObjects == NoConn \notin PoolConns /\ IsFiniteSet(PoolConns) /\ IsFiniteSet(Callers)
Fresh == [alive |-> FALSE, connected |-> FALSE, created |-> 0, m_request |-> 0,
          sent |-> <<>>, wire |-> <<>>]

PoolInit ==
    /\ m_conns = <<>> /\ m_total = 0
    /\ conn = [c \in PoolConns |-> Fresh]
    /\ caller = [u \in Callers |-> [at |-> "idle", conn |-> NoConn, asks |-> 0, got |-> <<>>]]
    /\ start \in Starts /\ clock = start
    /\ retired = {}

\* The wall clock is part of the member, which has 32 bits.
m_maxAliveTime == (MaxAlive + start) % Width
Expired(c) == conn[c].created + m_maxAliveTime <= clock
Age(c) == clock - conn[c].created
Goto(u, at) == caller' = [caller EXCEPT ![u].at = at]

-----------------------------------------------------------------------------
(* The servers and the clock.                                              *)

\* The next request of the connection is answered.  A server that has closed
\* answers no more: isConnected() does not see it.
PoolAnswer(c) ==
    /\ conn[c].sent # <<>>
    /\ conn' = [conn EXCEPT ![c].sent = Tail(@), ![c].wire = Append(@, conn[c].sent[1])]
    /\ UNCHANGED <<m_conns, m_total, caller, clock, start, retired>>

PoolTick ==
    /\ clock < start + MaxWait
    /\ clock' = clock + 1
    /\ UNCHANGED <<m_conns, m_total, conn, caller, start, retired>>

-----------------------------------------------------------------------------
(* getConnection.                                                          *)

\* Under the mutex: the list up to the first usable connection is taken off,
\* and the unusable ones are deleted (nobody else knows them any more).
Invalid(c) == ~conn[c].connected \/ Expired(c)

\* pop_front for each connection looked at.
Rest(n, last) == SubSeq(m_conns, n + 1, Len(m_conns))

GetConnection(u) ==
    /\ caller[u].at = "idle" /\ caller[u].asks < MaxAsks
    /\ LET usable == {i \in DOMAIN m_conns : ~Invalid(m_conns[i])}
           n == IF usable = {} THEN Len(m_conns) ELSE CHOOSE i \in usable : \A j \in usable : i <= j
           last == IF usable = {} THEN n ELSE n - 1
           dropped == {m_conns[i] : i \in 1..last}
       IN  /\ m_conns' = Rest(n, last)
           /\ m_total' = m_total - last
           /\ conn' = [c \in PoolConns |-> IF c \in dropped THEN Fresh ELSE conn[c]]
           /\ retired' = retired \cup {Age(c) : c \in {d \in dropped : conn[d].connected}}
           /\ caller' = [caller EXCEPT ![u].at = IF usable = {} THEN "connect" ELSE "send",
                                       ![u].conn = IF usable = {} THEN NoConn ELSE m_conns[n],
                                       ![u].asks = @ + 1]
    /\ UNCHANGED <<clock, start>>

\* new HttpConnection(sock); the counter follows in a step of its own.
Connect(u, c) ==
    /\ caller[u].at = "connect" /\ ~conn[c].alive
    /\ conn' = [conn EXCEPT ![c] = [Fresh EXCEPT !.alive = TRUE, !.connected = TRUE, !.created = clock]]
    /\ caller' = [caller EXCEPT ![u].at = "count", ![u].conn = c]
    /\ UNCHANGED <<m_conns, m_total, clock, start, retired>>

\* The address is not found, or connect fails: POOL_GET_CONNECTION.
ConnectFails(u) ==
    /\ caller[u].at = "connect"
    /\ Goto(u, "idle")
    /\ UNCHANGED <<m_conns, m_total, conn, clock, start, retired>>

CountConnection(u) ==
    /\ caller[u].at = "count"
    /\ m_total' = m_total + 1
    /\ Goto(u, "send")
    /\ UNCHANGED <<m_conns, conn, clock, start, retired>>

-----------------------------------------------------------------------------
(* doRequest on the connection.                                            *)

PoolSend(u) ==
    /\ caller[u].at = "send"
    /\ conn' = [conn EXCEPT ![caller[u].conn].sent = Append(@, <<u, caller[u].asks>>)]
    /\ Goto(u, "receive")
    /\ UNCHANGED <<m_conns, m_total, clock, start, retired>>

\* sendRequest returns 0 or less: CLOSE_BY_PEER or SOCKET_ERROR, and the
\* connection goes back as it is.  A write that fails is no such return:
\* writeFixSize keeps the -1 in a size_t and tries again (stays in "send").
PoolSendFails(u) ==
    /\ caller[u].at = "send"
    /\ caller' = [caller EXCEPT ![u].at = "release", ![u].got = <<>>]
    /\ UNCHANGED <<m_conns, m_total, conn, clock, start, retired>>

PoolReceive(u) ==
    /\ caller[u].at = "receive"
    /\ LET c == caller[u].conn
       IN  /\ conn[c].wire # <<>>
           /\ conn' = [conn EXCEPT ![c].wire = Tail(@)]
           /\ caller' = [caller EXCEPT ![u].at = "release", ![u].got = conn[c].wire[1]]
    /\ UNCHANGED <<m_conns, m_total, clock, start, retired>>

\* Mutant: the timeout is returned, the connection stays open.
TimeoutKeeps(u) ==
    /\ caller[u].at = "receive"
    /\ caller' = [caller EXCEPT ![u].at = "release", ![u].got = <<>>]
    /\ UNCHANGED <<m_conns, m_total, conn, clock, start, retired>>
\* The timeout, the end of the stream or a malformed answer: recvResponse
\* closes the connection and returns nullptr.
PoolReceiveFails(u) ==
    /\ caller[u].at = "receive"
    /\ conn' = [conn EXCEPT ![caller[u].conn].connected = FALSE]
    /\ caller' = [caller EXCEPT ![u].at = "release", ![u].got = <<>>]
    /\ UNCHANGED <<m_conns, m_total, clock, start, retired>>

-----------------------------------------------------------------------------
(* ReleasePtr, when the caller's pointer goes.                             *)

NoRoom == m_total > m_maxSize

ReleasePtr(u) ==
    /\ caller[u].at = "release"
    /\ LET c == caller[u].conn
           used == conn[c].m_request + 1
           full == NoRoom \/ used >= m_maxRequest
       IN  /\ conn' = [conn EXCEPT ![c].m_request = used]
           /\ Goto(u, IF Invalid(c) \/ full THEN "delete" ELSE "push")
           /\ retired' = IF ~full /\ conn[c].connected /\ Expired(c)
                         THEN retired \cup {Age(c)} ELSE retired
    /\ UNCHANGED <<m_conns, m_total, clock, start>>

DeleteConnection(u) ==
    /\ caller[u].at = "delete"
    /\ conn' = [conn EXCEPT ![caller[u].conn] = Fresh]
    /\ caller' = [caller EXCEPT ![u].at = "uncount", ![u].conn = NoConn]
    /\ UNCHANGED <<m_conns, m_total, clock, start, retired>>

\* Mutant: the pool forgets that a connection is gone.
UncountNone(u) ==
    /\ caller[u].at = "uncount"
    /\ Goto(u, "idle")
    /\ UNCHANGED <<m_conns, m_total, conn, clock, start, retired>>
UncountConnection(u) ==
    /\ caller[u].at = "uncount"
    /\ m_total' = m_total - 1
    /\ Goto(u, "idle")
    /\ UNCHANGED <<m_conns, conn, clock, start, retired>>

PushConnection(u) ==
    /\ caller[u].at = "push"
    /\ m_conns' = Append(m_conns, caller[u].conn)
    /\ caller' = [caller EXCEPT ![u].at = "idle", ![u].conn = NoConn]
    /\ UNCHANGED <<m_total, conn, clock, start, retired>>

PoolStep(u) ==
    \/ \E c \in PoolConns : Connect(u, c)
    \/ ConnectFails(u) \/ CountConnection(u) \/ PoolSend(u) \/ PoolSendFails(u)
    \/ PoolReceive(u) \/ PoolReceiveFails(u) \/ ReleasePtr(u) \/ DeleteConnection(u) \/ UncountConnection(u)
    \/ PushConnection(u)

PoolNext ==
    \/ \E u \in Callers : GetConnection(u) \/ PoolStep(u)
    \/ \E c \in PoolConns : PoolAnswer(c)
    \/ PoolTick

-----------------------------------------------------------------------------
\* A connection object is in the list once, or with one caller, or deleted.
OneHolder ==
    \A c \in PoolConns :
          LET places == {i \in DOMAIN m_conns : m_conns[i] = c}
              holders == {u \in Callers : caller[u].conn = c}
          IN  Cardinality(places) + Cardinality(holders) = IF conn[c].alive THEN 1 ELSE 0

\* m_total is the number of connections that exist, but for the callers
\* between a new or a delete and the counter: no interleaving loses a count.
TotalIsExact ==
    m_total = Cardinality({c \in PoolConns : conn[c].alive})
              + Cardinality({u \in Callers : caller[u].at = "uncount"})
              - Cardinality({u \in Callers : caller[u].at = "count"})

\* The pool keeps at most m_maxSize idle connections, although the size is
\* compared outside the mutex (http_connection.cpp:464).
IdleAtMostMax == Len(m_conns) <= m_maxSize

\* An answer is the answer to the caller's own request, also on a connection
\* that was used before and whose last caller gave up waiting: a late answer
\* never reaches the next caller.
AnswerIsMine ==
    \A u \in Callers : caller[u].got # <<>> /\ caller[u].at = "release" => caller[u].got = <<u, caller[u].asks>>

\* A healthy connection is given up for its age, at whichever of the two places
\* and however late, only when it is as old as the member says: max_alive_time
\* plus the time at which the pool was made, cut to 32 bits
\* (http_connection.cpp:405), which may be more or less than max_alive_time.
RetiredOnlyOld == \A a \in retired : a >= (MaxAlive + start) % Width

\* The pool loses no connection and no count, although m_total is changed and
\* compared outside the mutex, and gives up a connection only for a cause.
PoolInv == OneHolder /\ TotalIsExact /\ IdleAtMostMax /\ RetiredOnlyOld
=============================================================================
