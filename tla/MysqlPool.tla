----------------------------- MODULE MysqlPool -----------------------------
(***************************************************************************)
(* MysqlConnPool (wyze/db/mysqlconn_pool.cpp): users, the producer thread, *)
(* the recycler thread and the destructor.  m_mutexQ is held except in the *)
(* waits, so the code between two waits is one step.                       *)
(***************************************************************************)
EXTENDS Integers, Sequences, FiniteSets

CONSTANTS
    Clients,        \* the threads that call getConnection
    DbConns,        \* the connection objects
    m_minSize,
    MaxGets         \* bound: getConnection calls of each client

ASSUME MinSizeAssumption == m_minSize \in Nat
\* There are objects enough: new never fails.
ASSUME DbConnsAssumption ==
    /\ IsFiniteSet(Clients) /\ IsFiniteSet(DbConns) /\ "none" \notin DbConns
    /\ Cardinality(DbConns) >= m_minSize + Cardinality(Clients)

VARIABLES
    m_mysqlConnQueue,
    client,         \* Clients -> [at, conn, gets]
    producer,       \* "none", "run", "asleep" (in m_getconn.wait), "woken" or "done"
    recycler,       \* "none", "run" or "done"
    isexit,
    pool,           \* "alive", "destroyed" or "fault": the process has gone down
    dbUp            \* the server accepts connections

mysqlVars == <<m_mysqlConnQueue, client, producer, recycler, isexit, pool, dbUp>>

Holding == {client[u].conn : u \in Clients} \ {"none"}
Existing == Holding \cup {m_mysqlConnQueue[i] : i \in DOMAIN m_mysqlConnQueue}
NewConn == CHOOSE c \in DbConns : c \notin Existing

\* The constructor has made m_minSize connections, or none if the server
\* refuses them, and started the threads; or parseJsonFile has failed, and it
\* has done nothing.
MysqlInit ==
    /\ dbUp \in BOOLEAN
    /\ producer \in {"run", "none"} /\ recycler = producer
    /\ \E f \in [1..(IF dbUp /\ producer = "run" THEN m_minSize ELSE 0) -> DbConns] :
          /\ \A i, j \in DOMAIN f : f[i] = f[j] => i = j
          /\ m_mysqlConnQueue = f
    /\ client = [u \in Clients |-> [at |-> "idle", conn |-> "none", gets |-> 0]]
    /\ isexit = FALSE /\ pool = "alive"

\* Mutant: nobody tells the producer.
NotifyNobody == producer
\* m_getconn.notify_all: the producer tests the predicate of its wait again.
NotifyProducer == IF producer = "asleep" THEN "woken" ELSE producer

-----------------------------------------------------------------------------
(* produceConnection.                                                      *)

Enough == Len(m_mysqlConnQueue) >= m_minSize

\* The loop leaves at isexit; the predicate of the wait inside it looks only
\* at the queue, so a producer woken with enough connections sleeps on.
ProducerSleeps ==
    /\ Enough
    /\ producer = "woken" \/ (producer = "run" /\ ~isexit)
    /\ producer' = "asleep"
    /\ UNCHANGED <<m_mysqlConnQueue, client, recycler, isexit, pool, dbUp>>

ProducerLeaves ==
    /\ isexit
    /\ producer = "run" \/ (producer = "woken" /\ ~Enough)
    /\ producer' = "done"
    /\ UNCHANGED <<m_mysqlConnQueue, client, recycler, isexit, pool, dbUp>>

\* addConnection, and m_produce.notify_all.
Produce ==
    /\ producer \in {"run", "woken"} /\ ~Enough /\ ~isexit
    /\ m_mysqlConnQueue' = IF dbUp THEN Append(m_mysqlConnQueue, NewConn) ELSE m_mysqlConnQueue
    /\ producer' = "run"
    /\ UNCHANGED <<client, recycler, isexit, pool, dbUp>>

-----------------------------------------------------------------------------
(* recycleConnection: the first n of the queue have been idle for          *)
(* m_maxIdleTime; the queue is in the order of the releases.               *)

Spare == IF Enough THEN Len(m_mysqlConnQueue) - m_minSize ELSE 0

Recycle(n) ==
    /\ recycler = "run" /\ n <= Spare
    /\ isexit => n <= 1
    /\ m_mysqlConnQueue' = SubSeq(m_mysqlConnQueue, n + 1, Len(m_mysqlConnQueue))
    /\ recycler' = IF isexit THEN "done" ELSE "run"
    /\ UNCHANGED <<client, producer, isexit, pool, dbUp>>

-----------------------------------------------------------------------------
(* getConnection, and the deleter of its pointer.                          *)

\* The queue is empty: the producer is told, and the client waits for
\* m_produce or its timeout, again and again.
WaitForConnection(u) ==
    /\ m_mysqlConnQueue = <<>>
    /\ client' = [client EXCEPT ![u].at = "waiting"]
    /\ producer' = NotifyProducer
    /\ UNCHANGED <<m_mysqlConnQueue, recycler, isexit, pool, dbUp>>

TakeConnection(u) ==
    /\ m_mysqlConnQueue # <<>>
    /\ client' = [client EXCEPT ![u] = [at |-> "holding", conn |-> Head(m_mysqlConnQueue), gets |-> @.gets + 1]]
    /\ m_mysqlConnQueue' = Tail(m_mysqlConnQueue)
    /\ producer' = NotifyProducer
    /\ UNCHANGED <<recycler, isexit, pool, dbUp>>

getConnection(u) ==
    /\ pool = "alive" /\ client[u].at = "idle" /\ client[u].gets < MaxGets
    /\ WaitForConnection(u) \/ TakeConnection(u)

Retry(u) ==
    /\ pool = "alive" /\ client[u].at = "waiting"
    /\ WaitForConnection(u) \/ TakeConnection(u)

ReturnConnection(u) ==
    /\ pool = "alive" /\ client[u].at = "holding"
    /\ m_mysqlConnQueue' = Append(m_mysqlConnQueue, client[u].conn)
    /\ client' = [client EXCEPT ![u].at = "idle", ![u].conn = "none"]
    /\ UNCHANGED <<producer, recycler, isexit, pool, dbUp>>

-----------------------------------------------------------------------------
(* ~MysqlConnPool.                                                         *)

BeginExit ==
    /\ ~isexit
    /\ isexit' = TRUE
    /\ producer' = NotifyProducer
    /\ UNCHANGED <<m_mysqlConnQueue, client, recycler, pool, dbUp>>

Destroy ==
    /\ isexit /\ pool = "alive" /\ producer = "done" /\ recycler = "done"
    /\ pool' = "destroyed"
    /\ m_mysqlConnQueue' = <<>>
    /\ UNCHANGED <<client, producer, recycler, isexit, dbUp>>

\* producer->join() without a producer.
JoinNobody ==
    /\ isexit /\ pool = "alive" /\ producer = "none"
    /\ pool' = "fault"
    /\ UNCHANGED <<m_mysqlConnQueue, client, producer, recycler, isexit, dbUp>>

ProducerStep == ProducerSleeps \/ ProducerLeaves \/ Produce

MysqlNext ==
    \/ ProducerStep \/ BeginExit \/ Destroy \/ JoinNobody
    \/ \E n \in 0..Cardinality(DbConns) : Recycle(n)
    \/ \E u \in Clients : getConnection(u) \/ Retry(u) \/ ReturnConnection(u)

\* The threads run.  A client may keep its connection for ever.
MysqlFairness ==
    /\ WF_mysqlVars(ProducerStep) /\ WF_mysqlVars(Destroy \/ JoinNobody)
    /\ WF_mysqlVars(\E n \in 0..Cardinality(DbConns) : Recycle(n))
    /\ \A u \in Clients : WF_mysqlVars(Retry(u))

-----------------------------------------------------------------------------
\* A connection is in the queue once or with one client: two clients never
\* talk over the same connection, and the recycler never deletes one in use.
ConnectionExclusive ==
    /\ \A i, j \in DOMAIN m_mysqlConnQueue : m_mysqlConnQueue[i] = m_mysqlConnQueue[j] => i = j
    /\ \A i \in DOMAIN m_mysqlConnQueue : m_mysqlConnQueue[i] \notin Holding
    /\ \A u, v \in Clients : client[u].conn = client[v].conn /\ client[u].conn # "none" => u = v

\* No wakeup of the producer is lost: it sleeps only while the queue is full
\* enough, however takes, returns, recycling and the exit interleave.
ProducerAwakeWhenShort == producer = "asleep" => Enough

\* m_maxSize is never read; what bounds the connections is that the producer
\* fills the queue only up to the minimum: at most m_minSize and one for each
\* client exist.
ConnectionsBounded == Cardinality(Existing) <= m_minSize + Cardinality(Clients)

\* A waiting client gets a connection while the server accepts them, even if
\* no other client ever gives one back; but nobody serves it in a pool that
\* could not read its configuration.
ClientServed ==
    \A u \in Clients :
        (client[u].at = "waiting" /\ dbUp /\ producer # "none") ~> (client[u].at = "holding" \/ isexit)

\* The destructor returns, unless the producer sleeps on a full queue: the
\* predicate of its wait (mysqlconn_pool.cpp:80) does not look at isexit; and
\* it goes down only in a pool without configuration (mysqlconn_pool.cpp:28).
DestructorReturns ==
    isexit ~> \/ pool = "destroyed"
              \/ producer = "asleep" /\ Enough
              \/ pool = "fault" /\ producer = "none"

\* Users, producer, recycler and destructor share the queue safely: a
\* connection has one owner, no wakeup is lost, and the number is bounded.
DbPoolInv == ConnectionExclusive /\ ProducerAwakeWhenShort /\ ConnectionsBounded
=============================================================================
