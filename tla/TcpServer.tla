----------------------------- MODULE TcpServer -----------------------------
(***************************************************************************)
(* TcpServer (wyze/tcpserver.cpp) as Application::main_fiber               *)
(* (wyze/application.cpp) uses it: binding with retries, the accept fiber  *)
(* of each socket, and stop(), whose task cancels and closes the sockets   *)
(* on another thread of the accept worker.                                 *)
(***************************************************************************)
EXTENDS Integers, FiniteSets

CONSTANTS
    Addresses,      \* what the server is to listen on
    MaxAttempts,    \* main_fiber binds three times
    MaxStarts,      \* bound: calls of start()
    MaxStops        \* bound: calls of stop()

ASSUME AddressesFinite == IsFiniteSet(Addresses) /\ MaxAttempts \in Nat \ {0}

VARIABLES
    count,          \* failed attempts of main_fiber
    fails,          \* its vector, handed to every attempt
    m_socks,        \* the addresses with a socket in the list
    listening,      \* the addresses whose socket is open
    m_isStop,
    acceptor,       \* <<address, start>> -> where this accept fiber is
    starts,         \* how many start() calls there were
    stopTask,       \* the task of each stop(): "none", "queued", "walk", "done" or "fault"
    stops,          \* how many stop() calls there were
    restarted,      \* start() was called before the last stop() was done
    stranded,       \* accept fibers that began to wait between the last cancel and close
    torn            \* a task has cleared the list while another was walking it

tcpVars == <<count, fails, m_socks, listening, m_isStop, acceptor, starts, stopTask,
             stops, restarted, stranded, torn>>

Fibers == Addresses \X (1..MaxStarts)
Tasks == 1..MaxStops
NoTask == \A n \in Tasks : stopTask[n] \in {"none", "done"}
Walked == \E n \in Tasks : stopTask[n] = "walk"

TcpInit ==
    /\ count = 0 /\ fails = {}
    /\ m_socks = {} /\ listening = {} /\ m_isStop = TRUE
    /\ acceptor = [f \in Fibers |-> "none"] /\ starts = 0
    /\ stopTask = [n \in Tasks |-> "none"] /\ stops = 0
    /\ restarted = FALSE /\ stranded = {} /\ torn = FALSE

-----------------------------------------------------------------------------
(* TcpServer::bind, called by main_fiber until it succeeds.                *)

\* The failures of an attempt join those of the attempts before it.
Failures(bad) == fails \cup bad

\* bad: the addresses whose bind or listen fails this time.
Bind(bad) ==
    /\ count < MaxAttempts /\ m_socks = {} /\ starts = 0
    /\ fails' = Failures(bad)
    /\ IF fails' = {} THEN /\ m_socks' = Addresses /\ listening' = Addresses
                           /\ UNCHANGED count
       ELSE /\ count' = count + 1
            /\ UNCHANGED <<m_socks, listening>>
    /\ UNCHANGED <<m_isStop, acceptor, starts, stopTask, stops, restarted, stranded, torn>>

Ended == {"none", "ended"}

\* An accept fiber for every socket in the list.
Start ==
    /\ m_isStop /\ starts < MaxStarts /\ (m_socks # {} \/ stops > 0)
    /\ m_isStop' = FALSE
    /\ starts' = starts + 1
    /\ acceptor' = [f \in Fibers |-> IF f[1] \in m_socks /\ f[2] = starts' THEN "test" ELSE acceptor[f]]
    /\ restarted' = (restarted \/ ~NoTask \/ \E f \in Fibers : acceptor[f] \notin Ended)
    /\ UNCHANGED <<count, fails, m_socks, listening, stopTask, stops, stranded, torn>>

-----------------------------------------------------------------------------
(* startAccept.                                                            *)

GoOn == ~m_isStop

TestStop(f) ==
    /\ acceptor[f] = "test"
    /\ acceptor' = [acceptor EXCEPT ![f] = IF GoOn THEN "accept" ELSE "ended"]
    /\ UNCHANGED <<count, fails, m_socks, listening, m_isStop, starts, stopTask,
                   stops, restarted, stranded, torn>>

\* A client: a task for it is scheduled on the worker.  A failure (the socket
\* is closed, or the kernel refuses): the loop goes on.
AcceptReturns(f) ==
    /\ acceptor[f] = "accept"
    /\ acceptor' = [acceptor EXCEPT ![f] = "test"]
    /\ UNCHANGED <<count, fails, m_socks, listening, m_isStop, starts, stopTask,
                   stops, restarted, stranded, torn>>

\* Nobody is there: do_io registers the fd and suspends the fiber.
AcceptWaits(f) ==
    /\ acceptor[f] = "accept" /\ f[1] \in listening
    /\ acceptor' = [acceptor EXCEPT ![f] = "waiting"]
    /\ stranded' = IF Walked THEN stranded \cup {f} ELSE stranded
    /\ UNCHANGED <<count, fails, m_socks, listening, m_isStop, starts, stopTask, stops,
                   restarted, torn>>

\* A client connects: epoll resumes the fiber.
ClientArrives(f) ==
    /\ acceptor[f] = "waiting" /\ f[1] \in listening
    /\ acceptor' = [acceptor EXCEPT ![f] = "accept"]
    /\ stranded' = stranded \ {f}
    /\ UNCHANGED <<count, fails, m_socks, listening, m_isStop, starts, stopTask, stops,
                   restarted, torn>>

-----------------------------------------------------------------------------
(* stop() and its tasks: the worker has several threads, so that the tasks *)
(* of two stop() calls may run at once.                                    *)

\* Mutant: the flag is left to the task.
StopLater ==
    /\ stops < MaxStops /\ starts > 0
    /\ stops' = stops + 1
    /\ stopTask' = [stopTask EXCEPT ![stops'] = "queued"]
    /\ UNCHANGED <<count, fails, m_socks, listening, m_isStop, acceptor, starts, restarted, stranded,
                   torn>>

Stop ==
    /\ stops < MaxStops /\ starts > 0
    /\ m_isStop' = TRUE
    /\ stops' = stops + 1
    /\ stopTask' = [stopTask EXCEPT ![stops'] = "queued"]
    /\ UNCHANGED <<count, fails, m_socks, listening, acceptor, starts, restarted, stranded, torn>>

\* Mutant: the fibers are not cancelled.
WakeNone == acceptor
Woken == [f \in Fibers |-> IF acceptor[f] = "waiting" /\ f[1] \in m_socks THEN "accept" ELSE acceptor[f]]

\* cancelAll, and once more in the hook of close(): the fibers are scheduled
\* and try accept again; then the descriptors are closed.  The task goes from
\* socket to socket; the sockets share nothing, so all take a step together.
CancelSockets(n) ==
    /\ stopTask[n] = "queued"
    /\ acceptor' = Woken
    /\ stranded' = {f \in stranded : f[1] \notin m_socks}
    /\ stopTask' = [stopTask EXCEPT ![n] = "walk"]
    /\ UNCHANGED <<count, fails, m_socks, listening, m_isStop, starts, stops, restarted, torn>>

\* m_socks.clear() under the iterator of another task is undefined: the
\* process goes down, or the tasks go on with the list as it is now.
CloseSockets(n) ==
    /\ stopTask[n] = "walk"
    /\ listening' = listening \ m_socks
    /\ m_socks' = {}
    /\ torn' = (torn \/ \E k \in Tasks \ {n} : stopTask[k] = "walk")
    /\ \E end \in {"done"} \cup (IF torn' THEN {"fault"} ELSE {}) :
          stopTask' = [stopTask EXCEPT ![n] = end]
    /\ UNCHANGED <<count, fails, m_isStop, acceptor, starts, stops, restarted, stranded>>

StopStep(n) == CancelSockets(n) \/ CloseSockets(n)

AcceptStep(f) == TestStop(f) \/ AcceptReturns(f)

\* The process has not gone down.
Running == \A n \in Tasks : stopTask[n] # "fault"

TcpNext ==
    /\ Running
    /\ \/ \E bad \in SUBSET Addresses : Bind(bad)
       \/ Start \/ Stop
       \/ \E n \in Tasks : StopStep(n)
       \/ \E f \in Fibers : AcceptStep(f) \/ AcceptWaits(f) \/ ClientArrives(f)

\* The workers run every task; an accept that can return does.
TcpFairness ==
    /\ \A n \in Tasks : WF_tcpVars(Running /\ StopStep(n))
    /\ \A f \in Fibers : WF_tcpVars(Running /\ (AcceptStep(f) \/ AcceptWaits(f)))

-----------------------------------------------------------------------------
\* The three attempts of main_fiber are one: its vector of failures is never
\* emptied (application.cpp:211), so that an address that fails once keeps the
\* server from starting although every address is free the next time.
OneFailureIsFinal == count > 0 => m_socks = {} /\ starts = 0

\* An accept fiber runs on a closed socket, again and again, only if start()
\* was called before the stop() before it had closed the sockets and ended
\* the fibers.
SpinOnlyIfRestarted ==
    ~m_isStop => restarted \/ \A f \in Fibers : acceptor[f] \notin Ended => f[1] \in listening

\* The list of sockets has no lock (tcpserver.cpp:93-99): it is cleared under
\* the walk of a task, and the process may go down, only if stop() was called
\* again; one stop() never meets itself, wherever start() and accept are.
TornOnlyIfStoppedAgain == torn \/ ~Running => stops > 1

\* After stop() every accept fiber ends, unless the server was started again,
\* the list was torn, or the fiber began to wait between the last cancel and
\* the close of its socket, when nothing wakes it any more.
StopEndsAccept ==
    \A f \in Fibers : (stops > 0) ~> (acceptor[f] \in Ended \/ f \in stranded \/ restarted \/ torn)

\* What the retries of main_fiber, a start() near a stop() and a second stop()
\* may do.
TcpInv == OneFailureIsFinal /\ SpinOnlyIfRestarted /\ TornOnlyIfStoppedAgain
=============================================================================
