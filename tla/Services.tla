------------------------------ MODULE Services ------------------------------
(***************************************************************************)
(* The parts of a server that wait and have to come to an end, beside each *)
(* other: the session of the HTTP server, the connection of the client,    *)
(* the database pool, the TCP server, a configuration variable and the     *)
(* daemon.  They share no state (each object has its own fiber or lock),   *)
(* so a behaviour of the server is seen by its parts one at a time: part   *)
(* says which one runs, the others stay as they began.                     *)
(***************************************************************************)
EXTENDS HttpSession, HttpConnection, MysqlPool, TcpServer, ConfigVar, Daemon

VARIABLE part

Parts == {"session", "connection", "mysql", "tcp", "config", "daemon"}

Init ==
    /\ part \in Parts
    /\ SessionInit /\ ConnectionInit /\ MysqlInit /\ TcpInit /\ ConfigInit /\ DaemonInit
    \* A part that does not run begins in one of its initial states only.
    /\ part # "session" => m_isKeepalive
    /\ part # "mysql" => ~dbUp /\ producer = "run"

Next ==
    \/ /\ part = "session" /\ SessionNext
       /\ UNCHANGED <<part, connectionVars, mysqlVars, tcpVars, configVars, daemonVars>>
    \/ /\ part = "connection" /\ ConnectionNext
       /\ UNCHANGED <<part, sessionVars, mysqlVars, tcpVars, configVars, daemonVars>>
    \/ /\ part = "mysql" /\ MysqlNext
       /\ UNCHANGED <<part, sessionVars, connectionVars, tcpVars, configVars, daemonVars>>
    \/ /\ part = "tcp" /\ TcpNext
       /\ UNCHANGED <<part, sessionVars, connectionVars, mysqlVars, configVars, daemonVars>>
    \/ /\ part = "config" /\ ConfigNext
       /\ UNCHANGED <<part, sessionVars, connectionVars, mysqlVars, tcpVars, daemonVars>>
    \/ /\ part = "daemon" /\ DaemonNext
       /\ UNCHANGED <<part, sessionVars, connectionVars, mysqlVars, tcpVars, configVars>>

vars == <<part, sessionVars, connectionVars, mysqlVars, tcpVars, configVars, daemonVars>>

\* The fairness of the parts.  Of a part that does not run nothing that is
\* treated fairly is enabled in its initial state, but for the session and for
\* the daemon, whose parent looks every five seconds while time passes.
FairSpec ==
    /\ Init /\ [][Next]_vars
    /\ WF_sessionVars(part = "session" /\ SessionRuns)
    /\ WF_sessionVars(part = "session" /\ SessionReads)
    /\ ConnectionFairness
    /\ MysqlFairness
    /\ TcpFairness
    /\ ConfigFairness
    /\ WF_daemonVars(part = "daemon" /\ (Fork \/ Reap))
    /\ WF_daemonVars(part = "daemon" /\ Look)
    /\ WF_daemonVars(part = "daemon" /\ Detect)
    /\ WF_daemonVars(part = "daemon" /\ DaemonTick)
    /\ WF_daemonVars(part = "daemon" /\ StartChild)

-----------------------------------------------------------------------------
\* Whoever waits in one of the services comes to an end: the fiber of a session
\* whose client is gone, a client in recvResponse, a user in getConnection, a
\* setter behind the locks of a variable.
WaitsEnd == SessionEnds /\ ResponseEnds /\ ClientServed /\ SetReturns

\* Shutting down comes to an end: ~MysqlConnPool returns and TcpServer::stop
\* ends the accept fibers, but for the two windows their parts name.
ShutdownEnds == DestructorReturns /\ StopEndsAccept
=============================================================================
