--------------------------- MODULE ServicesProofs ---------------------------
(***************************************************************************)
(* Proofs about the services, for any number of clients, connections,      *)
(* addresses, setters, listeners and threads.  Each part is proved by      *)
(* itself; a step of the server is a step of one part and leaves the       *)
(* others alone.                                                           *)
(***************************************************************************)
EXTENDS Services, FiniteSetTheorems, SequenceTheorems, TLAPS

-----------------------------------------------------------------------------
(* The parts of Services.                                                  *)

\* Every part begins in one of its initial states.
LEMMA PartsInit ==
    Init => SessionInit /\ ConnectionInit /\ MysqlInit /\ TcpInit /\ ConfigInit /\ DaemonInit
BY DEF Init

\* A step of the server is a step of each part, or leaves it alone.
LEMMA PartsNext ==
    [Next]_vars => /\ [SessionNext]_sessionVars /\ [ConnectionNext]_connectionVars
                   /\ [MysqlNext]_mysqlVars /\ [TcpNext]_tcpVars
                   /\ [ConfigNext]_configVars /\ [DaemonNext]_daemonVars
BY DEF Next, vars

-----------------------------------------------------------------------------
(* ConfigVar.                                                              *)

ConfigRange == ConfigValues \cup {CHOOSE v \in ConfigValues : TRUE}

ConfigTypeOK ==
    /\ m_val \in ConfigRange
    /\ m_cbs \subseteq Listeners /\ reading \subseteq Listeners
    /\ copy \in [Listeners -> ConfigRange]
    /\ setter \in [Setters -> [at : {"idle", "notify", "assign"}, v : ConfigRange,
                               done : SUBSET Listeners]]
    /\ overlap \in BOOLEAN

\* setVal calls the listeners in the order of the map: those it has called
\* come before the others.
CalledInOrder ==
    \A s \in Setters : setter[s].at = "notify" =>
        \A l \in m_cbs : l \in setter[s].done \/ \A d \in setter[s].done : d < l

\* Without an overlap one setVal runs at a time, and no listener is being
\* added beside it.
OneAtATime ==
    ~overlap => /\ \A s, u \in Active : s = u
                /\ Active = {} \/ reading = {}

\* What the listeners have while a setVal runs alone,
CopiesDuring ==
    ~overlap => \A s \in Setters :
        /\ setter[s].at = "notify" => \A l \in setter[s].done : copy[l] = setter[s].v
        /\ setter[s].at = "assign" => \A l \in m_cbs : copy[l] = setter[s].v

\* and when none runs.
CopiesBetween ==
    ~overlap /\ Active = {} => \A l \in m_cbs \cup reading : copy[l] = m_val

ConfigIInv == ConfigTypeOK /\ CalledInOrder /\ MapStableInWalk /\ OneAtATime
              /\ CopiesDuring /\ CopiesBetween

LEMMA ConfigInitial == ConfigInit => ConfigIInv
<1> SUFFICES ASSUME ConfigInit
             PROVE  ConfigIInv
  OBVIOUS
<1>1. \A s \in Setters : setter[s].at = "idle"
  BY DEF ConfigInit
<1>2. ConfigTypeOK
  BY DEF ConfigInit, ConfigTypeOK, ConfigRange
<1> QED
  BY <1>1, <1>2 DEF ConfigInit, ConfigIInv, CalledInOrder, MapStableInWalk, OneAtATime,
                    CopiesDuring, CopiesBetween, Active

LEMMA ConfigStep == ConfigIInv /\ [ConfigNext]_configVars => ConfigIInv'
<1> SUFFICES ASSUME ConfigIInv, [ConfigNext]_configVars
             PROVE  ConfigIInv'
  OBVIOUS
<1> USE DEF ConfigIInv
<1>1. ASSUME NEW s \in Setters, NEW v \in ConfigValues, BeginSet(s, v)
      PROVE  ConfigIInv'
  <2>1. ConfigTypeOK'
    BY <1>1 DEF BeginSet, ConfigTypeOK, ConfigRange
  <2>2. CalledInOrder' /\ MapStableInWalk'
    BY <1>1 DEF BeginSet, ConfigTypeOK, CalledInOrder, MapStableInWalk
  <2>3. OneAtATime' /\ CopiesBetween'
    BY <1>1 DEF BeginSet, ConfigTypeOK, OneAtATime, CopiesBetween, Active
  <2>4. CopiesDuring'
    BY <1>1 DEF BeginSet, ConfigTypeOK, CopiesDuring
  <2> QED
    BY <2>1, <2>2, <2>3, <2>4
<1>2. ASSUME NEW s \in Setters, NEW l \in Listeners, Notify(s, l)
      PROVE  ConfigIInv'
  <2>0. \A k \in m_cbs : k \in Nat
    BY ListenersNumbered DEF ConfigTypeOK
  <2>1. ConfigTypeOK'
    BY <1>2 DEF Notify, ConfigTypeOK
  <2>2. MapStableInWalk' /\ OneAtATime'
    BY <1>2 DEF Notify, ConfigTypeOK, MapStableInWalk, OneAtATime, Active, Remaining
  <2>3. CalledInOrder'
    BY <1>2, <2>0 DEF Notify, ConfigTypeOK, CalledInOrder, MapStableInWalk, Remaining
  <2>4. CopiesDuring' /\ CopiesBetween'
    BY <1>2 DEF Notify, ConfigTypeOK, CopiesDuring, CopiesBetween, OneAtATime, Active
  <2> QED
    BY <2>1, <2>2, <2>3, <2>4
<1>3. ASSUME NEW s \in Setters, EndNotify(s)
      PROVE  ConfigIInv'
  <2>1. m_cbs \subseteq setter[s].done
    BY <1>3 DEF EndNotify, Remaining, CalledInOrder
  <2>2. ConfigTypeOK' /\ CalledInOrder' /\ MapStableInWalk' /\ OneAtATime'
    BY <1>3 DEF EndNotify, ConfigTypeOK, CalledInOrder, MapStableInWalk, OneAtATime, Active
  <2>3. CopiesDuring' /\ CopiesBetween'
    BY <1>3, <2>1 DEF EndNotify, ConfigTypeOK, CopiesDuring, CopiesBetween, Active
  <2> QED
    BY <2>2, <2>3
<1>4. ASSUME NEW s \in Setters, Assign(s)
      PROVE  ConfigIInv'
  <2>1. ConfigTypeOK' /\ CalledInOrder' /\ MapStableInWalk' /\ OneAtATime'
    BY <1>4 DEF Assign, ConfigTypeOK, CalledInOrder, MapStableInWalk, OneAtATime, Active
  <2>2. CopiesDuring'
    BY <1>4 DEF Assign, ConfigTypeOK, CopiesDuring
  <2>3. CopiesBetween'
    BY <1>4 DEF Assign, ConfigTypeOK, CopiesDuring, CopiesBetween, OneAtATime, Active
  <2> QED
    BY <2>1, <2>2, <2>3
<1>5. ASSUME NEW l \in Listeners, ReadValue(l)
      PROVE  ConfigIInv'
  <2>1. ConfigTypeOK' /\ CalledInOrder' /\ MapStableInWalk' /\ OneAtATime'
    BY <1>5 DEF ReadValue, ConfigTypeOK, CalledInOrder, MapStableInWalk, OneAtATime, Active
  <2>2. CopiesDuring'
    BY <1>5 DEF ReadValue, ConfigTypeOK, CopiesDuring, MapStableInWalk, Active
  <2>3. CopiesBetween'
    BY <1>5 DEF ReadValue, ConfigTypeOK, CopiesBetween, Active
  <2> QED
    BY <2>1, <2>2, <2>3
<1>6. ASSUME NEW l \in Listeners, addListener(l) \/ delListener(l)
      PROVE  ConfigIInv'
  <2>1. \A s \in Setters : setter[s].at # "notify"
    BY <1>6 DEF addListener, delListener, Readers
  <2>2. /\ UNCHANGED <<m_val, copy, setter, overlap>> /\ reading' \subseteq reading
        /\ m_cbs' \subseteq m_cbs \cup reading
        /\ m_cbs' \subseteq m_cbs \/ reading # {}
    BY <1>6 DEF addListener, delListener
  <2>3. ConfigTypeOK' /\ CalledInOrder' /\ MapStableInWalk' /\ OneAtATime'
    BY <2>1, <2>2 DEF ConfigTypeOK, CalledInOrder, MapStableInWalk, OneAtATime, Active
  <2>4. CopiesBetween'
    BY <2>2 DEF CopiesBetween, Active
  <2>5. CopiesDuring'
    BY <2>1, <2>2 DEF CopiesDuring, OneAtATime, Active
  <2> QED
    BY <2>3, <2>4, <2>5
<1>7. CASE clearListener
  <2>1. \A s \in Setters : setter[s].at # "notify"
    BY <1>7 DEF clearListener, Readers
  <2> QED
    BY <1>7, <2>1 DEF clearListener, ConfigTypeOK, CalledInOrder, MapStableInWalk, OneAtATime,
                      CopiesDuring, CopiesBetween, Active
<1>8. CASE UNCHANGED configVars
  BY <1>8 DEF configVars, ConfigTypeOK, CalledInOrder, MapStableInWalk, OneAtATime,
              CopiesDuring, CopiesBetween, Active
<1> QED
  BY <1>1, <1>2, <1>3, <1>4, <1>5, <1>6, <1>7, <1>8 DEF ConfigNext

\* setVal's two locks, for any setters and listeners: the map is not changed
\* while setVal walks over it, and once the setters are done the listeners
\* have the value of the variable unless two calls met.
THEOREM ConfigHolds == FairSpec => []ConfigInv
<1>1. ConfigIInv => ConfigInv
  BY DEF ConfigIInv, ConfigInv, ListenersAgree, CopiesBetween
<1> QED
  BY <1>1, PartsInit, PartsNext, ConfigInitial, ConfigStep, PTL DEF FairSpec

-----------------------------------------------------------------------------
(* TcpServer.                                                              *)

Places == {"none", "test", "accept", "waiting", "ended"}

TcpTypeOK ==
    /\ count \in Nat /\ starts \in Nat /\ stops \in Nat
    /\ fails \subseteq Addresses
    /\ m_socks \subseteq listening
    /\ m_isStop \in BOOLEAN /\ restarted \in BOOLEAN
    /\ acceptor \in [Fibers -> Places]
    /\ stopTask \in [Tasks -> {"none", "queued", "walk", "done", "fault"}]

\* A failure stays in the vector, and with it nothing is ever bound.
FailureStays ==
    /\ count > 0 => fails # {}
    /\ fails # {} => m_socks = {} /\ starts = 0
    /\ stops > 0 => starts > 0
    /\ starts = 0 => m_isStop

\* While the server runs and was not started too early, no stop() is under
\* way, and the sockets of all accept fibers are open.
RunsOnOpen ==
    ~m_isStop /\ ~restarted =>
        /\ NoTask
        /\ \A f \in Fibers : acceptor[f] \notin Ended => f[1] \in listening

\* The tasks are those of the stop() calls so far, and only two of them tear
\* the list.
TaskForStop ==
    /\ \A n \in Tasks : stopTask[n] # "none" => n <= stops
    /\ torn => stops > 1
    /\ ~Running => torn

TcpIInv == TcpTypeOK /\ FailureStays /\ RunsOnOpen /\ TaskForStop

LEMMA TcpInitial == TcpInit => TcpIInv
<1> SUFFICES ASSUME TcpInit
             PROVE  TcpIInv
  OBVIOUS
<1>1. TcpTypeOK
  BY DEF TcpInit, TcpTypeOK, Places
<1>2. FailureStays /\ RunsOnOpen /\ TaskForStop
  BY DEF TcpInit, FailureStays, RunsOnOpen, TaskForStop, Running
<1> QED
  BY <1>1, <1>2 DEF TcpIInv

\* A step of an accept fiber.
LEMMA AcceptorStep ==
    ASSUME TcpIInv, NEW f \in Fibers,
           AcceptStep(f) \/ AcceptWaits(f) \/ ClientArrives(f)
    PROVE  TcpIInv'
<1>1. /\ UNCHANGED <<count, fails, m_socks, listening, m_isStop, starts, stopTask, stops, restarted, torn>>
      /\ acceptor[f] \notin Ended
      /\ \E p \in Places : acceptor' = [acceptor EXCEPT ![f] = p]
  BY DEF AcceptStep, TestStop, AcceptReturns, AcceptWaits, ClientArrives, Places, Ended
<1>2. TcpTypeOK' /\ FailureStays' /\ TaskForStop'
  BY <1>1 DEF TcpIInv, TcpTypeOK, FailureStays, TaskForStop, Running
<1>3. RunsOnOpen'
  BY <1>1 DEF TcpIInv, TcpTypeOK, RunsOnOpen, NoTask
<1> QED
  BY <1>2, <1>3 DEF TcpIInv

LEMMA StartKeeps ==
    ASSUME TcpIInv, Start
    PROVE  TcpIInv'
<1> USE DEF TcpIInv
<1>1. /\ acceptor' = [f \in Fibers |-> IF f[1] \in m_socks /\ f[2] = starts' THEN "test"
                                       ELSE acceptor[f]]
      /\ starts' = starts + 1 /\ m_isStop' = FALSE
      /\ UNCHANGED <<count, fails, m_socks, listening, stopTask, stops, torn>>
      /\ m_socks # {} \/ stops > 0
  BY DEF Start
<1>2. acceptor' \in [Fibers -> Places] /\ restarted' \in BOOLEAN
  BY <1>1 DEF Start, TcpTypeOK, Places
<1>3. /\ starts' \in Nat /\ m_isStop' = FALSE
      /\ UNCHANGED <<count, fails, m_socks, listening, stopTask, stops>>
  BY <1>1 DEF TcpTypeOK
<1>4. TcpTypeOK'
  BY <1>2, <1>3 DEF TcpTypeOK
<1>5. FailureStays' /\ TaskForStop'
  BY <1>1 DEF TcpTypeOK, FailureStays, TaskForStop, Running
<1>6. ~restarted' => NoTask /\ \A f \in Fibers : acceptor[f] \in Ended
  BY DEF Start
<1>7. RunsOnOpen'
  BY <1>1, <1>6 DEF RunsOnOpen, TcpTypeOK, NoTask
<1> QED
  BY <1>4, <1>5, <1>7

\* A second task is found walking only if there were two stop() calls.
LEMMA StopStepKeeps ==
    ASSUME TcpIInv, Running, NEW n \in Tasks, StopStep(n)
    PROVE  TcpIInv'
<1> USE DEF TcpIInv
<1>0. stopTask[n] \in {"queued", "walk"} /\ ~NoTask /\ n <= stops /\ stops \in Nat
  BY DEF StopStep, CancelSockets, CloseSockets, NoTask, TaskForStop, TcpTypeOK
<1>1. CASE CancelSockets(n)
  <2>1. acceptor' \in [Fibers -> Places]
    BY <1>1 DEF CancelSockets, Woken, TcpTypeOK, Places
  <2>2. TcpTypeOK' /\ FailureStays'
    BY <1>1, <2>1 DEF CancelSockets, TcpTypeOK, FailureStays
  <2>3. RunsOnOpen'
    BY <1>0, <1>1 DEF CancelSockets, RunsOnOpen
  <2>4. TaskForStop'
    BY <1>0, <1>1 DEF CancelSockets, TaskForStop, Running, TcpTypeOK
  <2> QED
    BY <2>2, <2>3, <2>4
<1>2. CASE CloseSockets(n)
  <2>1. PICK end \in {"done", "fault"} : /\ stopTask' = [stopTask EXCEPT ![n] = end]
                                         /\ end = "fault" => torn'
    BY <1>2 DEF CloseSockets
  <2>2. TcpTypeOK' /\ FailureStays'
    BY <1>2, <2>1 DEF CloseSockets, TcpTypeOK, FailureStays
  <2>3. RunsOnOpen'
    BY <1>0, <1>2 DEF CloseSockets, RunsOnOpen
  <2>4. \A k \in Tasks \ {n} : stopTask[k] = "walk" => stops > 1
    BY <1>0 DEF TaskForStop, Tasks
  <2>5. stops' = stops /\ (torn' => stops > 1)
    BY <1>2, <2>4 DEF CloseSockets, TaskForStop
  <2>6. \A k \in Tasks : stopTask'[k] # "none" => k <= stops
    BY <1>0, <2>1 DEF TaskForStop, TcpTypeOK
  <2>7. ~Running' => torn'
    BY <2>1 DEF Running, TcpTypeOK
  <2> QED
    BY <2>2, <2>3, <2>5, <2>6, <2>7 DEF TaskForStop
<1> QED
  BY <1>1, <1>2 DEF StopStep

LEMMA TcpStep == TcpIInv /\ [TcpNext]_tcpVars => TcpIInv'
<1> SUFFICES ASSUME TcpIInv, [TcpNext]_tcpVars
             PROVE  TcpIInv'
  OBVIOUS
<1> USE DEF TcpIInv
<1>1. ASSUME NEW bad \in SUBSET Addresses, Bind(bad)
      PROVE  TcpIInv'
  <2>1. TcpTypeOK' /\ FailureStays'
    BY <1>1 DEF Bind, Failures, TcpTypeOK, FailureStays
  <2>2. RunsOnOpen' /\ TaskForStop'
    BY <1>1 DEF Bind, FailureStays, RunsOnOpen, TaskForStop, Running
  <2> QED
    BY <2>1, <2>2
<1>2. CASE Start
  BY <1>2, StartKeeps
<1>3. CASE Stop
  <2>1. /\ m_isStop' = TRUE /\ stops' = stops + 1 /\ stops \in Nat
        /\ stopTask' = [stopTask EXCEPT ![stops'] = "queued"]
        /\ UNCHANGED <<count, fails, m_socks, listening, acceptor, starts, restarted, torn>> /\ starts > 0
    BY <1>3 DEF Stop, TcpTypeOK
  <2>2. TcpTypeOK'
    <3>1. stopTask' \in [Tasks -> {"none", "queued", "walk", "done", "fault"}]
      BY <2>1 DEF TcpTypeOK
    <3> QED
      BY <2>1, <3>1 DEF TcpTypeOK
  <2>4. FailureStays' /\ RunsOnOpen'
    BY <2>1 DEF FailureStays, RunsOnOpen
  <2>3. TaskForStop'
    BY <2>1 DEF TaskForStop, Running, TcpTypeOK, Tasks
  <2> QED
    BY <2>2, <2>3, <2>4
<1>4. CASE Running /\ \E n \in Tasks : StopStep(n)
  BY <1>4, StopStepKeeps
<1>6. CASE \E f \in Fibers : AcceptStep(f) \/ AcceptWaits(f) \/ ClientArrives(f)
  BY <1>6, AcceptorStep
<1>7. CASE UNCHANGED tcpVars
  BY <1>7 DEF tcpVars, TcpTypeOK, FailureStays, RunsOnOpen, TaskForStop, NoTask, Running
<1> QED
  BY <1>1, <1>2, <1>3, <1>4, <1>6, <1>7 DEF TcpNext

\* The retries of main_fiber are in vain after one failure, and an accept
\* fiber runs on a closed socket only if start() came before the stop()
\* before it was done, and the list of sockets is torn only by a second
\* stop(): for any addresses and any number of starts and stops.
THEOREM TcpHolds == FairSpec => []TcpInv
<1>1. TcpIInv => TcpInv
  BY DEF TcpIInv, TcpInv, OneFailureIsFinal, SpinOnlyIfRestarted, TornOnlyIfStoppedAgain,
         FailureStays, RunsOnOpen, TaskForStop
<1> QED
  BY <1>1, PartsInit, PartsNext, TcpInitial, TcpStep, PTL DEF FairSpec

-----------------------------------------------------------------------------
(* Daemon.                                                                 *)

InfoEntry == [thread : DaemonThreads, fork : Nat, age : Nat]

DaemonTypeOK ==
    /\ forks \in Nat /\ since \in Nat /\ interval \in Nat
    /\ infos \in Seq(InfoEntry)
    /\ child \in {"none", "starting", "running", "exited", "crashed"}
    /\ reporter \in [DaemonThreads -> {"new", "insert", "listed", "hung"}]
    /\ raced \in BOOLEAN

\* A child that runs has cleared the table: the entries are its own.
OwnEntries ==
    child = "running" => \A i \in DOMAIN infos : infos[i].fork = forks

\* Between fork and reset_real_size no thread of the child has reported.
NobodyReported == child = "starting" => \A t \in DaemonThreads : reporter[t] = "new"

\* Unless two threads met, the one that has passed the test of the size still
\* finds room.
RoomForInsert ==
    ~raced => /\ Len(infos) <= InfoSize
              /\ \A t \in DaemonThreads : reporter[t] = "insert" => Len(infos) < InfoSize
              /\ \A t, u \in DaemonThreads : reporter[t] = "insert" /\ reporter[u] = "insert" => t = u

DaemonIInv == DaemonTypeOK /\ OwnEntries /\ NobodyReported /\ RoomForInsert /\ KilledForCause

LEMMA DaemonInitial == DaemonInit => DaemonIInv
<1> SUFFICES ASSUME DaemonInit
             PROVE  DaemonIInv
  OBVIOUS
<1>1. infos \in Seq(InfoEntry) /\ Len(infos) = 0
  BY DEF DaemonInit
<1>2. DaemonTypeOK
  BY <1>1, DaemonSizes DEF DaemonInit, DaemonTypeOK
<1>3. OwnEntries /\ NobodyReported /\ KilledForCause
  BY DEF DaemonInit, OwnEntries, NobodyReported, KilledForCause
<1>4. RoomForInsert
  BY <1>1, DaemonSizes DEF DaemonInit, RoomForInsert
<1> QED
  BY <1>2, <1>3, <1>4 DEF DaemonIInv

LEMMA DaemonStep == DaemonIInv /\ [DaemonNext]_daemonVars => DaemonIInv'
<1> SUFFICES ASSUME DaemonIInv, [DaemonNext]_daemonVars
             PROVE  DaemonIInv'
  OBVIOUS
<1> USE DEF DaemonIInv
<1>0. Forever \in Nat /\ InfoSize \in Nat /\ Len(infos) \in Nat
  BY DaemonSizes DEF DaemonTypeOK
<1>1. CASE Fork
  <2>1. DaemonTypeOK'
    BY <1>1 DEF Fork, DaemonTypeOK
  <2> QED
    BY <1>0, <1>1, <2>1 DEF Fork, DaemonTypeOK, OwnEntries, NobodyReported, RoomForInsert,
                            KilledForCause
<1>2. CASE Reap
  BY <1>2 DEF Reap, DaemonTypeOK, OwnEntries, NobodyReported, RoomForInsert, KilledForCause
<1>3. CASE Detect
  <2>1. child' \in {"crashed", child} /\ UNCHANGED <<forks, interval, infos, reporter, raced>>
    BY <1>3 DEF Detect
  <2>2. since' \in Nat
    BY <1>0, <1>3 DEF Detect
  <2>3. KilledForCause'
    BY <1>3 DEF Detect, KilledForCause, Late, OfThisChild, OwnEntries
  <2> QED
    BY <2>1, <2>2, <2>3 DEF DaemonTypeOK, OwnEntries, NobodyReported, RoomForInsert
<1>4. CASE StartChild
  <2>1. infos' = <<>> /\ infos' \in Seq(InfoEntry) /\ Len(infos') = 0 /\ DOMAIN infos' = {}
    BY <1>4 DEF StartChild, ResetInfos
  <2>2. DaemonTypeOK' /\ OwnEntries' /\ NobodyReported' /\ KilledForCause'
    BY <1>4, <2>1 DEF StartChild, DaemonTypeOK, OwnEntries, NobodyReported, KilledForCause
  <2>3. RoomForInsert'
    BY <1>0, <1>4, <2>1 DEF StartChild, RoomForInsert, NobodyReported
  <2> QED
    BY <2>2, <2>3
<1>5. CASE Ends("exited") \/ Ends("crashed")
  BY <1>5 DEF Ends, DaemonTypeOK, OwnEntries, NobodyReported, RoomForInsert, KilledForCause
<1>6. CASE DaemonTick
  <2>1. since' \in Nat
    BY <1>0, <1>6 DEF DaemonTick, Older, DaemonTypeOK
  <2>2. \A i \in DOMAIN infos : infos[i] \in InfoEntry
    BY DEF DaemonTypeOK
  <2>3. \A i \in DOMAIN infos : Older(infos[i].age) \in Nat
    BY <1>0, <2>2 DEF Older, InfoEntry
  <2>4. \A i \in DOMAIN infos : /\ [infos[i] EXCEPT !.age = Older(@)] \in InfoEntry
                                /\ [infos[i] EXCEPT !.age = Older(@)].fork = infos[i].fork
    BY <2>2, <2>3 DEF InfoEntry
  <2>5. DOMAIN infos = 1..Len(infos)
    BY DEF DaemonTypeOK
  <2> DEFINE aged(i) == [infos[i] EXCEPT !.age = Older(@)]
  <2>7. infos' = [i \in 1..Len(infos) |-> aged(i)]
    BY <1>6, <2>5 DEF DaemonTick
  <2>8. \A i \in 1..Len(infos) : aged(i) \in InfoEntry /\ aged(i).fork = infos[i].fork
    BY <2>4, <2>5
  <2> HIDE DEF aged
  <2>6. infos' \in Seq(InfoEntry) /\ Len(infos') = Len(infos)
        /\ \A i \in DOMAIN infos' : i \in DOMAIN infos /\ infos'[i].fork = infos[i].fork
    BY <1>0, <2>5, <2>7, <2>8
  <2> QED
    BY <1>6, <2>1, <2>6 DEF DaemonTick, DaemonTypeOK, OwnEntries, NobodyReported, RoomForInsert,
                            KilledForCause
<1>7. ASSUME NEW t \in DaemonThreads, FirstReport(t)
      PROVE  DaemonIInv'
  <2>1. DaemonTypeOK' /\ OwnEntries' /\ NobodyReported' /\ KilledForCause'
    BY <1>7 DEF FirstReport, DaemonTypeOK, OwnEntries, NobodyReported, KilledForCause
  <2>2. RoomForInsert'
    BY <1>0, <1>7 DEF FirstReport, HasRoom, DaemonTypeOK, RoomForInsert
  <2> QED
    BY <2>1, <2>2
<1>8. ASSUME NEW t \in DaemonThreads, Insert(t)
      PROVE  DaemonIInv'
  <2> DEFINE e == [thread |-> t, fork |-> forks, age |-> 0]
  <2>1. e \in InfoEntry /\ e.fork = forks
    BY DEF InfoEntry, DaemonTypeOK
  <2>2. /\ infos' \in Seq(InfoEntry) /\ Len(infos') = Len(infos) + 1
        /\ \A i \in DOMAIN infos' : infos'[i] = e \/ (i \in DOMAIN infos /\ infos'[i] = infos[i])
    BY <1>8, <2>1 DEF Insert, DaemonTypeOK
  <2>3. DaemonTypeOK' /\ NobodyReported' /\ KilledForCause'
    BY <1>8, <2>2 DEF Insert, DaemonTypeOK, NobodyReported, KilledForCause
  <2>4. OwnEntries'
    BY <1>8, <2>1, <2>2 DEF Insert, OwnEntries
  <2>5. RoomForInsert'
    BY <1>0, <1>8, <2>2 DEF Insert, DaemonTypeOK, RoomForInsert
  <2> QED
    BY <2>3, <2>4, <2>5
<1>9. ASSUME NEW t \in DaemonThreads, Report(t)
      PROVE  DaemonIInv'
  <2>2. \A i \in DOMAIN infos : infos[i] \in InfoEntry
    BY DEF DaemonTypeOK
  <2>4. \A i \in DOMAIN infos : /\ [infos[i] EXCEPT !.age = 0] \in InfoEntry
                                /\ [infos[i] EXCEPT !.age = 0].fork = infos[i].fork
    BY <2>2 DEF InfoEntry
  <2>5. DOMAIN infos = 1..Len(infos)
    BY DEF DaemonTypeOK
  <2>6. infos' \in Seq(InfoEntry) /\ Len(infos') = Len(infos)
        /\ \A i \in DOMAIN infos' : i \in DOMAIN infos /\ infos'[i].fork = infos[i].fork
    BY <1>0, <1>9, <2>2, <2>4, <2>5 DEF Report
  <2> QED
    BY <1>9, <2>6 DEF Report, DaemonTypeOK, OwnEntries, NobodyReported, RoomForInsert,
                      KilledForCause
<1>10. ASSUME NEW t \in DaemonThreads, Hang(t)
       PROVE  DaemonIInv'
  BY <1>0, <1>10 DEF Hang, DaemonTypeOK, OwnEntries, NobodyReported, RoomForInsert, KilledForCause
<1>12. CASE Look
  BY <1>12 DEF Look, DaemonTypeOK, OwnEntries, NobodyReported, RoomForInsert, KilledForCause
<1>13. ASSUME NEW i \in Intervals, SetInterval(i)
       PROVE  DaemonIInv'
  <2>1. 2 * i \in Nat
    BY DaemonSizes
  <2> QED
    BY <1>13, <2>1 DEF SetInterval, DaemonTypeOK, OwnEntries, NobodyReported, RoomForInsert,
                       KilledForCause
<1>11. CASE UNCHANGED daemonVars
  BY <1>11 DEF daemonVars, DaemonTypeOK, OwnEntries, NobodyReported, RoomForInsert, KilledForCause
<1> QED
  BY <1>1, <1>2, <1>3, <1>4, <1>5, <1>6, <1>7, <1>8, <1>9, <1>10, <1>11, <1>12, <1>13 DEF DaemonNext

\* The table in shared memory, for any threads and size, and however the
\* interval is changed: a running child is killed only for an entry of its own, and the table is written
\* behind its end only if two first reports met.
THEOREM DaemonHolds == FairSpec => []DaemonInv
<1>1. DaemonIInv => DaemonInv
  BY DaemonSizes DEF DaemonIInv, DaemonInv, OverrunOnlyRaced, RoomForInsert, DaemonTypeOK
<1> QED
  BY <1>1, PartsInit, PartsNext, DaemonInitial, DaemonStep, PTL DEF FairSpec

-----------------------------------------------------------------------------
(* MysqlConnPool.                                                          *)

\* The clients that have a connection.
Holders == {u \in Clients : client[u].conn # "none"}

MysqlTypeOK ==
    /\ m_mysqlConnQueue \in Seq(DbConns)
    /\ client \in [Clients -> [at : {"idle", "waiting", "holding"}, conn : DbConns \cup {"none"},
                               gets : Nat]]

\* Only a client that holds a connection has one.
HoldersHold == \A u \in Clients : client[u].at = "holding" <=> client[u].conn # "none"

\* What bounds the connections: the producer adds one only to a queue that is
\* short, and each client has at most one.
SumBounded == Len(m_mysqlConnQueue) + Cardinality(Holders) <= m_minSize + Cardinality(Clients)

MysqlIInv == MysqlTypeOK /\ HoldersHold /\ SumBounded /\ ConnectionExclusive /\ ProducerAwakeWhenShort

\* The connections that exist are at most the places they are in.
LEMMA ExistingBound ==
    ASSUME MysqlTypeOK
    PROVE  /\ IsFiniteSet(Holders) /\ Cardinality(Holders) \in Nat
           /\ Cardinality(Holders) <= Cardinality(Clients)
           /\ IsFiniteSet(Existing)
           /\ Cardinality(Existing) <= Len(m_mysqlConnQueue) + Cardinality(Holders)
           /\ Cardinality(Existing) \in Nat
<1>1. IsFiniteSet(Holders) /\ Cardinality(Holders) <= Cardinality(Clients)
  <2>1. Holders \in SUBSET Clients
    BY DEF Holders
  <2> QED
    BY <2>1, DbConnsAssumption, FS_Subset
<1>2. IsFiniteSet(Holding) /\ Cardinality(Holding) <= Cardinality(Holders)
  <2> DEFINE f == [u \in Holders |-> client[u].conn]
  <2>1. f \in Surjection(Holders, Holding)
    BY DEF Surjection, Holders, Holding
  <2> QED
    BY <1>1, <2>1, FS_Surjection
<1> DEFINE Queued == {m_mysqlConnQueue[i] : i \in DOMAIN m_mysqlConnQueue}
<1>3. IsFiniteSet(Queued) /\ Cardinality(Queued) <= Len(m_mysqlConnQueue)
  <2>1. DOMAIN m_mysqlConnQueue = 1..Len(m_mysqlConnQueue) /\ Len(m_mysqlConnQueue) \in Nat
    BY DEF MysqlTypeOK
  <2>2. m_mysqlConnQueue \in Surjection(1..Len(m_mysqlConnQueue), Queued)
    BY <2>1 DEF Surjection, MysqlTypeOK
  <2>3. IsFiniteSet(1..Len(m_mysqlConnQueue))
        /\ Cardinality(1..Len(m_mysqlConnQueue)) = Len(m_mysqlConnQueue)
    <3>1. Len(m_mysqlConnQueue) \in Int /\ 1 \in Int
      BY <2>1
    <3>2. /\ IsFiniteSet(1..Len(m_mysqlConnQueue))
          /\ Cardinality(1..Len(m_mysqlConnQueue)) =
                 IF 1 > Len(m_mysqlConnQueue) THEN 0 ELSE Len(m_mysqlConnQueue) - 1 + 1
      BY <3>1, FS_Interval
    <3> QED
      BY <2>1, <3>2
  <2> QED
    BY <2>2, <2>3, FS_Surjection
<1>4. Existing = Holding \cup Queued
  BY DEF Existing
<1>5. IsFiniteSet(Holding \cap Queued)
  BY <1>2, FS_Intersection
<1>6. /\ IsFiniteSet(Existing)
      /\ Cardinality(Existing) = Cardinality(Holding) + Cardinality(Queued) - Cardinality(Holding \cap Queued)
  BY <1>2, <1>3, <1>4, FS_Union
<1>7. /\ Cardinality(Holders) \in Nat /\ Cardinality(Holding) \in Nat /\ Cardinality(Queued) \in Nat
      /\ Cardinality(Holding \cap Queued) \in Nat /\ Cardinality(Existing) \in Nat
  BY <1>1, <1>2, <1>3, <1>5, <1>6, FS_CardinalityType
<1>8. Len(m_mysqlConnQueue) \in Nat
  BY DEF MysqlTypeOK
<1> QED
  BY <1>1, <1>2, <1>3, <1>6, <1>7, <1>8

\* While the queue is short there is a connection object to make.
LEMMA NewConnExists ==
    ASSUME MysqlTypeOK, ~Enough
    PROVE  NewConn \in DbConns /\ NewConn \notin Existing
<1>1. Cardinality(Existing) < Cardinality(DbConns)
  <2>1. Len(m_mysqlConnQueue) < m_minSize /\ Len(m_mysqlConnQueue) \in Nat
    BY MinSizeAssumption DEF Enough, MysqlTypeOK
  <2>2. Cardinality(Clients) \in Nat /\ Cardinality(DbConns) \in Nat
    BY DbConnsAssumption, FS_CardinalityType
  <2> QED
    BY <2>1, <2>2, ExistingBound, MinSizeAssumption, DbConnsAssumption
<1>2. ~(DbConns \subseteq Existing)
  <2> SUFFICES ASSUME DbConns \in SUBSET Existing
               PROVE  FALSE
    OBVIOUS
  <2>1. Cardinality(DbConns) <= Cardinality(Existing)
    BY ExistingBound, FS_Subset
  <2>2. Cardinality(DbConns) \in Nat
    BY DbConnsAssumption, FS_CardinalityType
  <2> QED
    BY <1>1, <2>1, <2>2, ExistingBound
<1> QED
  BY <1>2 DEF NewConn

LEMMA MysqlInitial == MysqlInit => MysqlIInv
<1> SUFFICES ASSUME MysqlInit
             PROVE  MysqlIInv
  OBVIOUS
<1> DEFINE n == IF dbUp /\ producer = "run" THEN m_minSize ELSE 0
<1>1. n \in Nat /\ n <= m_minSize
  BY MinSizeAssumption
<1>2. PICK f \in [1..n -> DbConns] : /\ \A i, j \in DOMAIN f : f[i] = f[j] => i = j
                                     /\ m_mysqlConnQueue = f
  BY DEF MysqlInit
<1>3. m_mysqlConnQueue \in Seq(DbConns) /\ Len(m_mysqlConnQueue) = n
  BY <1>1, <1>2
<1>4. client = [u \in Clients |-> [at |-> "idle", conn |-> "none", gets |-> 0]]
  BY DEF MysqlInit
<1>5. MysqlTypeOK /\ HoldersHold /\ Holders = {} /\ Holding = {}
  BY <1>3, <1>4 DEF MysqlTypeOK, HoldersHold, Holders, Holding
<1>6. SumBounded
  <2>1. Cardinality(Holders) = 0 /\ Cardinality(Clients) \in Nat
    BY <1>5, FS_EmptySet, FS_CardinalityType, DbConnsAssumption
  <2> QED
    BY <1>1, <1>3, <2>1, MinSizeAssumption DEF SumBounded
<1>7. ConnectionExclusive
  BY <1>2, <1>4, <1>5 DEF ConnectionExclusive
<1>8. ProducerAwakeWhenShort
  BY DEF MysqlInit, ProducerAwakeWhenShort
<1> QED
  BY <1>5, <1>6, <1>7, <1>8 DEF MysqlIInv

\* A step that changes neither the queue nor who has a connection.
LEMMA MysqlQuiet ==
    ASSUME MysqlIInv, UNCHANGED m_mysqlConnQueue, client' = client,
           producer' = "asleep" => producer = "asleep" \/ Enough
    PROVE  MysqlIInv'
BY DEF MysqlIInv, MysqlTypeOK, HoldersHold, SumBounded, Holders, ConnectionExclusive, Holding,
       ProducerAwakeWhenShort, Enough

\* getConnection on an empty queue.
LEMMA WaitKeeps ==
    ASSUME MysqlIInv, NEW u \in Clients, client[u].at # "holding", WaitForConnection(u)
    PROVE  MysqlIInv'
<1> USE DEF MysqlIInv
<1>1. MysqlTypeOK' /\ HoldersHold'
  BY DEF WaitForConnection, MysqlTypeOK, HoldersHold
<1>2. \A v \in Clients : client'[v].conn = client[v].conn
  BY DEF WaitForConnection, MysqlTypeOK
<1>3. Holders' = Holders /\ Holding' = Holding /\ m_mysqlConnQueue' = m_mysqlConnQueue
  BY <1>2 DEF WaitForConnection, Holders, Holding
<1>4. SumBounded' /\ ConnectionExclusive'
  BY <1>2, <1>3 DEF SumBounded, ConnectionExclusive
<1>5. ProducerAwakeWhenShort'
  BY DEF WaitForConnection, NotifyProducer, ProducerAwakeWhenShort
<1> QED
  BY <1>1, <1>4, <1>5

\* getConnection on a queue that has one.
LEMMA TakeKeeps ==
    ASSUME MysqlIInv, NEW u \in Clients, client[u].at # "holding", TakeConnection(u)
    PROVE  MysqlIInv'
<1> USE DEF MysqlIInv
<1> DEFINE q == m_mysqlConnQueue
           c == Head(q)
<1>1. q \in Seq(DbConns) /\ q # <<>> /\ Len(q) \in Nat \ {0} /\ c = q[1] /\ 1 \in DOMAIN q /\ c \in DbConns
  BY DEF TakeConnection, MysqlTypeOK
<1>2. /\ q' = Tail(q) /\ q' \in Seq(DbConns) /\ Len(q') = Len(q) - 1
      /\ \A i \in DOMAIN q' : i + 1 \in DOMAIN q /\ q'[i] = q[i + 1] /\ i \in Nat \ {0}
  BY <1>1 DEF TakeConnection
<1>3. client' = [client EXCEPT ![u] = [at |-> "holding", conn |-> c, gets |-> client[u].gets + 1]]
  BY DEF TakeConnection, MysqlTypeOK
<1>4. MysqlTypeOK' /\ HoldersHold'
  BY <1>1, <1>2, <1>3, DbConnsAssumption DEF MysqlTypeOK, HoldersHold
<1>5. client'[u].conn = c /\ \A v \in Clients \ {u} : client'[v].conn = client[v].conn
  BY <1>3 DEF MysqlTypeOK
<1>6. client[u].conn = "none" /\ c # "none"
  BY <1>1, DbConnsAssumption DEF HoldersHold
<1>7. Holders' = Holders \cup {u} /\ u \notin Holders
  BY <1>5, <1>6 DEF Holders
<1>8. Cardinality(Holders') = Cardinality(Holders) + 1
  BY <1>7, ExistingBound, FS_AddElement
<1>9. SumBounded'
  BY <1>1, <1>2, <1>8, ExistingBound DEF SumBounded
<1>10. \A i \in DOMAIN q' : q'[i] # c
  BY <1>1, <1>2 DEF ConnectionExclusive
<1>11. Holding' \subseteq Holding \cup {c} /\ c \notin Holding
  BY <1>1, <1>5 DEF Holding, ConnectionExclusive
<1>12. \A v \in Clients : client[v].conn # c
  BY <1>6, <1>11 DEF Holding
<1>13. \A i, j \in DOMAIN q' : q'[i] = q'[j] => i = j
  <2> SUFFICES ASSUME NEW i \in DOMAIN q', NEW j \in DOMAIN q', q'[i] = q'[j]
               PROVE  i = j
    OBVIOUS
  <2>1. i + 1 = j + 1
    BY <1>2 DEF ConnectionExclusive
  <2> QED
    BY <1>2, <2>1
<1>14. ConnectionExclusive'
  BY <1>2, <1>5, <1>10, <1>11, <1>12, <1>13 DEF ConnectionExclusive
<1>15. ProducerAwakeWhenShort'
  BY DEF TakeConnection, NotifyProducer, ProducerAwakeWhenShort
<1> QED
  BY <1>4, <1>9, <1>14, <1>15

\* The deleter of the pointer.
LEMMA ReturnKeeps ==
    ASSUME MysqlIInv, NEW u \in Clients, ReturnConnection(u)
    PROVE  MysqlIInv'
<1> USE DEF MysqlIInv
<1> DEFINE q == m_mysqlConnQueue
           c == client[u].conn
<1>1. /\ q \in Seq(DbConns) /\ Len(q) \in Nat /\ client[u].at = "holding" /\ c \in DbConns /\ c # "none"
      /\ u \in Holders
  BY DbConnsAssumption DEF ReturnConnection, MysqlTypeOK, HoldersHold, Holders
<1>2. /\ q' = Append(q, c) /\ q' \in Seq(DbConns) /\ Len(q') = Len(q) + 1
      /\ DOMAIN q' = DOMAIN q \cup {Len(q) + 1} /\ Len(q) + 1 \notin DOMAIN q
      /\ q'[Len(q) + 1] = c /\ \A i \in DOMAIN q : q'[i] = q[i]
  BY <1>1 DEF ReturnConnection
<1>3. client' = [client EXCEPT ![u].at = "idle", ![u].conn = "none"]
  BY DEF ReturnConnection
<1>4. MysqlTypeOK' /\ HoldersHold'
  <2>1. MysqlTypeOK'
    <3>1. q' \in Seq(DbConns)
      BY <1>2
    <3>2. client' \in [Clients -> [at : {"idle", "waiting", "holding"}, conn : DbConns \cup {"none"},
                                   gets : Nat]]
      BY ONLY MysqlTypeOK, u \in Clients, <1>3 DEF MysqlTypeOK
    <3> QED
      BY ONLY <3>1, <3>2 DEF MysqlTypeOK
  <2>2. client'[u].at = "idle" /\ client'[u].conn = "none"
        /\ \A v \in Clients \ {u} : client'[v] = client[v]
    BY <1>3 DEF MysqlTypeOK
  <2> QED
    BY <2>1, <2>2 DEF HoldersHold
<1>5. client'[u].conn = "none" /\ \A v \in Clients \ {u} : client'[v].conn = client[v].conn
  BY <1>3 DEF MysqlTypeOK
<1>6. Holders' = Holders \ {u}
  BY <1>5 DEF Holders
<1>7. Cardinality(Holders') = Cardinality(Holders) - 1
  BY <1>1, <1>6, ExistingBound, FS_RemoveElement
<1>8. SumBounded'
  BY <1>1, <1>2, <1>7, ExistingBound DEF SumBounded
<1>9. c \in Holding /\ \A v \in Clients \ {u} : client[v].conn # c
  BY <1>1 DEF Holding, ConnectionExclusive
<1>10. Holding' \subseteq Holding \ {c}
  BY <1>5, <1>9 DEF Holding
<1>11. ConnectionExclusive'
  BY <1>2, <1>5, <1>9, <1>10 DEF ConnectionExclusive
<1>12. ProducerAwakeWhenShort'
  BY <1>1, <1>2, MinSizeAssumption DEF ReturnConnection, ProducerAwakeWhenShort, Enough
<1> QED
  BY <1>4, <1>8, <1>11, <1>12

\* addConnection in the producer: the connection is a new one.
LEMMA ProduceKeeps ==
    ASSUME MysqlIInv, Produce
    PROVE  MysqlIInv'
<1> USE DEF MysqlIInv
<1> DEFINE q == m_mysqlConnQueue
           c == NewConn
<1>1. CASE ~dbUp
  BY <1>1, MysqlQuiet DEF Produce
<1>2. CASE dbUp
  <2>1. q \in Seq(DbConns) /\ Len(q) \in Nat /\ Len(q) < m_minSize /\ c \in DbConns /\ c \notin Existing
    BY NewConnExists, MinSizeAssumption DEF Produce, MysqlTypeOK, Enough
  <2>2. /\ q' = Append(q, c) /\ q' \in Seq(DbConns) /\ Len(q') = Len(q) + 1
        /\ DOMAIN q' = DOMAIN q \cup {Len(q) + 1} /\ Len(q) + 1 \notin DOMAIN q
        /\ q'[Len(q) + 1] = c /\ \A i \in DOMAIN q : q'[i] = q[i]
    BY <1>2, <2>1 DEF Produce
  <2>3. client' = client /\ Holders' = Holders /\ Holding' = Holding
    BY DEF Produce, Holders, Holding
  <2>4. MysqlTypeOK' /\ HoldersHold'
    BY <2>2, <2>3 DEF MysqlTypeOK, HoldersHold
  <2>5. SumBounded'
    <3>1. Cardinality(Clients) \in Nat
      BY DbConnsAssumption, FS_CardinalityType
    <3> QED
      BY <2>1, <2>2, <2>3, <3>1, ExistingBound, MinSizeAssumption DEF SumBounded
  <2>6. c \notin Holding /\ \A i \in DOMAIN q : q[i] # c
    BY <2>1 DEF Existing
  <2>7. ConnectionExclusive'
    BY <2>2, <2>3, <2>6 DEF ConnectionExclusive
  <2>8. ProducerAwakeWhenShort'
    BY DEF Produce, ProducerAwakeWhenShort
  <2> QED
    BY <2>4, <2>5, <2>7, <2>8
<1> QED
  BY <1>1, <1>2

\* What is left when the first n connections are taken off.
LEMMA RecycleKeeps ==
    ASSUME MysqlIInv, NEW n \in Nat, Recycle(n)
    PROVE  MysqlIInv'
<1> USE DEF MysqlIInv
<1> DEFINE q == m_mysqlConnQueue
<1>1. q \in Seq(DbConns) /\ Len(q) \in Nat /\ n <= Len(q) /\ (Enough => Len(q) - n >= m_minSize)
  BY MinSizeAssumption DEF Recycle, Spare, Enough, MysqlTypeOK
<1>2. /\ q' = SubSeq(q, n + 1, Len(q)) /\ q' \in Seq(DbConns) /\ Len(q') = Len(q) - n
      /\ \A i \in DOMAIN q' : i + n \in DOMAIN q /\ q'[i] = q[i + n] /\ i \in Nat
  BY <1>1 DEF Recycle
<1>3. client' = client /\ producer' = producer /\ Holders' = Holders /\ Holding' = Holding
  BY DEF Recycle, Holders, Holding
<1>4. MysqlTypeOK' /\ HoldersHold'
  BY <1>2, <1>3 DEF MysqlTypeOK, HoldersHold
<1>5. SumBounded'
  <2>1. Cardinality(Clients) \in Nat
    BY DbConnsAssumption, FS_CardinalityType
  <2> QED
    BY <1>1, <1>2, <1>3, <2>1, ExistingBound, MinSizeAssumption DEF SumBounded
<1>6. \A i, j \in DOMAIN q' : q'[i] = q'[j] => i = j
  <2> SUFFICES ASSUME NEW i \in DOMAIN q', NEW j \in DOMAIN q', q'[i] = q'[j]
               PROVE  i = j
    OBVIOUS
  <2>1. i + n = j + n
    BY <1>2 DEF ConnectionExclusive
  <2> QED
    BY <1>2, <2>1
<1>7. ConnectionExclusive'
  BY <1>2, <1>3, <1>6 DEF ConnectionExclusive
<1>8. ProducerAwakeWhenShort'
  BY <1>1, <1>2, <1>3 DEF ProducerAwakeWhenShort, Enough
<1> QED
  BY <1>4, <1>5, <1>7, <1>8

\* The destructor drops the queue, when the producer has left.
LEMMA DestroyKeeps ==
    ASSUME MysqlIInv, Destroy
    PROVE  MysqlIInv'
<1> USE DEF MysqlIInv
<1>1. /\ m_mysqlConnQueue' = <<>> /\ m_mysqlConnQueue' \in Seq(DbConns) /\ Len(m_mysqlConnQueue') = 0
      /\ DOMAIN m_mysqlConnQueue' = {} /\ client' = client /\ producer' = "done"
      /\ Holders' = Holders
  BY DEF Destroy, Holders
<1>2. MysqlTypeOK' /\ HoldersHold' /\ ConnectionExclusive' /\ ProducerAwakeWhenShort'
  BY <1>1 DEF MysqlTypeOK, HoldersHold, ConnectionExclusive, ProducerAwakeWhenShort
<1>3. SumBounded'
  <2>1. Cardinality(Clients) \in Nat
    BY DbConnsAssumption, FS_CardinalityType
  <2> QED
    BY <1>1, <2>1, ExistingBound, MinSizeAssumption DEF SumBounded
<1> QED
  BY <1>2, <1>3

LEMMA MysqlStep == MysqlIInv /\ [MysqlNext]_mysqlVars => MysqlIInv'
<1> SUFFICES ASSUME MysqlIInv, [MysqlNext]_mysqlVars
             PROVE  MysqlIInv'
  OBVIOUS
<1>1. CASE ProducerSleeps \/ ProducerLeaves \/ BeginExit \/ JoinNobody
  BY <1>1, MysqlQuiet DEF ProducerSleeps, ProducerLeaves, BeginExit, NotifyProducer, JoinNobody
<1>2. CASE Produce
  BY <1>2, ProduceKeeps
<1>3. CASE Destroy
  BY <1>3, DestroyKeeps
<1>4. ASSUME NEW n \in 0..Cardinality(DbConns), Recycle(n)
      PROVE  MysqlIInv'
  <2>1. n \in Nat
    BY DbConnsAssumption, FS_CardinalityType
  <2> QED
    BY <1>4, <2>1, RecycleKeeps
<1>5. ASSUME NEW u \in Clients, getConnection(u) \/ Retry(u)
      PROVE  MysqlIInv'
  BY <1>5, WaitKeeps, TakeKeeps DEF getConnection, Retry
<1>6. ASSUME NEW u \in Clients, ReturnConnection(u)
      PROVE  MysqlIInv'
  BY <1>6, ReturnKeeps
<1>7. CASE UNCHANGED mysqlVars
  BY <1>7, MysqlQuiet DEF mysqlVars
<1> QED
  BY <1>1, <1>2, <1>3, <1>4, <1>5, <1>6, <1>7 DEF MysqlNext, ProducerStep

\* The database pool, for any number of clients and any minimum: a connection
\* is in the queue once or with one client, the producer never sleeps while
\* the queue is short, and at most m_minSize + |Clients| connections exist.
THEOREM DbPoolHolds == FairSpec => []DbPoolInv
<1>1. MysqlIInv => DbPoolInv
  <2> SUFFICES ASSUME MysqlIInv
               PROVE  ConnectionsBounded
    BY DEF MysqlIInv, DbPoolInv
  <2>1. Cardinality(Clients) \in Nat /\ Len(m_mysqlConnQueue) \in Nat
    BY DbConnsAssumption, FS_CardinalityType DEF MysqlIInv, MysqlTypeOK
  <2> QED
    BY <2>1, ExistingBound, MinSizeAssumption DEF MysqlIInv, SumBounded, ConnectionsBounded
<1> QED
  BY <1>1, PartsInit, PartsNext, MysqlInitial, MysqlStep, PTL DEF FairSpec

-----------------------------------------------------------------------------
(* HttpSession.                                                            *)

Unit == Nat \X Nat
RequestSeq == Seq([len : Nat, close : BOOLEAN])
SizeIn(req, q) == HeadLen + req[q].len

\* The units of s from i on are those of request q from its unit c to its end,
\* and behind them the next request begins, or there is none.
Runs(req, s, i, q, c) ==
    LET last == i + (SizeIn(req, q) - c)
    IN  /\ q \in 1..Len(req) /\ c \in 1..SizeIn(req, q) /\ last <= Len(s)
        /\ \A j \in 0..(SizeIn(req, q) - c) : s[i + j] = <<q, c + j>>
        /\ IF last < Len(s) THEN s[last + 1] = <<q + 1, 1>> ELSE q = Len(req)

\* A request that begins in s is there as a whole.
WholeRequests(req, s) == \A i \in 1..Len(s) : s[i][2] = 1 => Runs(req, s, i, s[i][1], 1)

\* What s begins with: unit c of request q, or nothing after the last request.
BeginsAt(req, s, q, c) ==
    IF s = <<>> THEN q = Len(req) + 1 /\ c = 1 ELSE Runs(req, s, 1, q, c)

LEMMA RestOf ==
    ASSUME NEW Elems, NEW s \in Seq(Elems), NEW n \in 0..Len(s)
    PROVE  /\ SubSeq(s, n + 1, Len(s)) \in Seq(Elems)
           /\ Len(SubSeq(s, n + 1, Len(s))) = Len(s) - n
           /\ \A i \in 1..(Len(s) - n) : SubSeq(s, n + 1, Len(s))[i] = s[n + i]
<1> DEFINE t == SubSeq(s, n + 1, Len(s))
<1>1. /\ t \in Seq(Elems) /\ Len(t) = IF n + 1 <= Len(s) THEN Len(s) - (n + 1) + 1 ELSE 0
      /\ \A i \in 1..(Len(s) - (n + 1) + 1) : t[i] = s[(n + 1) + i - 1]
  <2>1. \A i \in (n + 1)..Len(s) : s[i] \in Elems
    BY ElementOfSeq
  <2>2. n + 1 \in Int /\ Len(s) \in Int
    OBVIOUS
  <2> QED
    BY <2>1, <2>2, SubSeqProperties
<1> HIDE DEF t
<1>2. Len(t) = Len(s) - n
  BY <1>1
<1>3. ASSUME NEW i \in 1..(Len(s) - n)
      PROVE  t[i] = s[n + i]
  <2>1. i \in 1..(Len(s) - (n + 1) + 1) /\ (n + 1) + i - 1 = n + i
    OBVIOUS
  <2> QED
    BY <1>1, <2>1
<1> QED
  BY <1>1, <1>2, <1>3 DEF t

LEMMA FrontOf ==
    ASSUME NEW Elems, NEW s \in Seq(Elems), NEW n \in 0..Len(s)
    PROVE  /\ SubSeq(s, 1, n) \in Seq(Elems) /\ Len(SubSeq(s, 1, n)) = n
           /\ \A i \in 1..n : SubSeq(s, 1, n)[i] = s[i]
<1> DEFINE t == SubSeq(s, 1, n)
<1>1. /\ t \in Seq(Elems) /\ Len(t) = IF 1 <= n THEN n - 1 + 1 ELSE 0
      /\ \A i \in 1..(n - 1 + 1) : t[i] = s[1 + i - 1]
  <2>1. \A i \in 1..n : s[i] \in Elems
    BY ElementOfSeq
  <2> QED
    BY <2>1, SubSeqProperties
<1> HIDE DEF t
<1>2. ASSUME NEW i \in 1..n
      PROVE  t[i] = s[i]
  <2>1. i \in 1..(n - 1 + 1) /\ 1 + i - 1 = i
    OBVIOUS
  <2> QED
    BY <1>1, <2>1
<1> QED
  BY <1>1, <1>2 DEF t

LEMMA SizeIsNat ==
    ASSUME NEW req \in RequestSeq, NEW q \in 1..Len(req)
    PROVE  req[q].len \in Nat /\ SizeIn(req, q) \in Nat /\ HeadLen <= SizeIn(req, q)
           /\ req[q].close \in BOOLEAN
<1>1. req[q] \in [len : Nat, close : BOOLEAN]
  BY ElementOfSeq DEF RequestSeq
<1> QED
  BY <1>1, SessionSizes DEF SizeIn

\* Bytes taken from the stream leave the rest of it where it was.
LEMMA RunShifts ==
    ASSUME NEW req \in RequestSeq, NEW s \in Seq(Unit), NEW n \in 0..Len(s),
           NEW i \in Nat \ {0}, NEW q, NEW c, Runs(req, s, n + i, q, c)
    PROVE  Runs(req, SubSeq(s, n + 1, Len(s)), i, q, c)
<1> DEFINE t == SubSeq(s, n + 1, Len(s))
           d == SizeIn(req, q) - c
<1>1. Len(t) = Len(s) - n /\ \A k \in 1..(Len(s) - n) : t[k] = s[n + k]
  BY RestOf
<1> HIDE DEF t
<1>2. Len(s) \in Nat
  OBVIOUS
<1>3. q \in 1..Len(req) /\ c \in 1..SizeIn(req, q) /\ n + i + d <= Len(s)
  BY DEF Runs
<1>4. d \in Nat
  BY <1>3, SizeIsNat
<1>5. \A j \in 0..d : s[n + i + j] = <<q, c + j>>
  BY DEF Runs
<1>6. IF n + i + d < Len(s) THEN s[n + i + d + 1] = <<q + 1, 1>> ELSE q = Len(req)
  BY DEF Runs
<1> HIDE DEF d
<1>7. ASSUME NEW j \in 0..d
      PROVE  t[i + j] = <<q, c + j>>
  <2>1. i + j \in 1..(Len(s) - n) /\ n + (i + j) = n + i + j
    BY <1>2, <1>3, <1>4
  <2> QED
    BY <1>1, <1>5, <2>1
<1>8. i + d <= Len(t)
  BY <1>1, <1>2, <1>3, <1>4
<1>9. IF i + d < Len(t) THEN t[i + d + 1] = <<q + 1, 1>> ELSE q = Len(req)
  <2>1. CASE i + d < Len(t)
    <3>1. i + d + 1 \in 1..(Len(s) - n) /\ n + (i + d + 1) = n + i + d + 1 /\ n + i + d < Len(s)
      BY <1>1, <1>2, <1>4, <2>1
    <3> QED
      BY <1>1, <1>6, <2>1, <3>1
  <2>2. CASE ~(i + d < Len(t))
    <3>1. ~(n + i + d < Len(s))
      BY <1>1, <1>2, <1>4, <2>2
    <3> QED
      BY <1>6, <2>2, <3>1
  <2> QED
    BY <2>1, <2>2
<1> QED
  BY <1>3, <1>7, <1>8, <1>9 DEF t, d, Runs

\* A stream of whole requests, of which n units are read.
LEMMA StreamAdvances ==
    ASSUME NEW req \in RequestSeq, NEW s \in Seq(Unit), WholeRequests(req, s),
           NEW n \in 0..Len(s), NEW q, NEW c
    PROVE  LET t == SubSeq(s, n + 1, Len(s))
           IN  /\ WholeRequests(req, t)
               /\ Runs(req, s, 1, q, c) /\ n <= SizeIn(req, q) - c => BeginsAt(req, t, q, c + n)
               /\ Runs(req, s, 1, q, c) /\ n = SizeIn(req, q) - c + 1 => BeginsAt(req, t, q + 1, 1)
<1> DEFINE t == SubSeq(s, n + 1, Len(s))
           d == SizeIn(req, q) - c
<1>1. /\ t \in Seq(Unit) /\ Len(t) = Len(s) - n
      /\ \A k \in 1..(Len(s) - n) : t[k] = s[n + k]
  BY RestOf
<1>2. Len(s) \in Nat
  OBVIOUS
<1>3. ASSUME NEW i \in 1..Len(t), t[i][2] = 1
      PROVE  Runs(req, t, i, t[i][1], 1)
  <2>1. i \in 1..(Len(s) - n) /\ n + i \in 1..Len(s) /\ i \in Nat \ {0}
    BY <1>1, <1>2
  <2>2. t[i] = s[n + i]
    BY <1>1, <2>1
  <2>3. Runs(req, s, n + i, s[n + i][1], 1)
    BY <1>3, <2>1, <2>2 DEF WholeRequests
  <2>4. Runs(req, t, i, s[n + i][1], 1)
    BY <2>1, <2>3, RunShifts
  <2> QED
    BY <2>2, <2>4
<1>4. WholeRequests(req, t)
  BY <1>3 DEF WholeRequests
<1>5. ASSUME Runs(req, s, 1, q, c), n <= d
      PROVE  BeginsAt(req, t, q, c + n)
  <2>1. q \in 1..Len(req) /\ c \in 1..SizeIn(req, q) /\ 1 + d <= Len(s)
    BY <1>5 DEF Runs
  <2>2. SizeIn(req, q) \in Nat /\ d \in Nat
    BY <2>1, SizeIsNat
  <2>3. SizeIn(req, q) - (c + n) = d - n /\ n + 1 + (d - n) = 1 + d /\ n + 1 + (d - n) + 1 = 1 + d + 1
        /\ c + n \in 1..SizeIn(req, q)
    BY <1>5, <2>1, <2>2
  <2>4. ASSUME NEW j \in 0..(d - n)
        PROVE  s[n + 1 + j] = <<q, c + n + j>>
    <3>1. n + j \in 0..d /\ 1 + (n + j) = n + 1 + j /\ c + (n + j) = c + n + j
      BY <2>1, <2>2
    <3>2. s[1 + (n + j)] = <<q, c + (n + j)>>
      BY <1>5, <3>1 DEF Runs
    <3> QED
      BY <3>1, <3>2
  <2>5. IF 1 + d < Len(s) THEN s[1 + d + 1] = <<q + 1, 1>> ELSE q = Len(req)
    BY <1>5 DEF Runs
  <2>6. Runs(req, s, n + 1, q, c + n)
    BY <2>1, <2>3, <2>4, <2>5 DEF Runs
  <2>7. Runs(req, t, 1, q, c + n)
    BY <2>6, RunShifts
  <2>8. t # <<>>
    <3>1. Len(t) > 0
      BY <1>1, <2>1, <2>2, <1>2, <1>5
    <3> HIDE DEF t
    <3> QED
      BY <3>1
  <2> QED
    BY <2>7, <2>8 DEF BeginsAt
<1>6. ASSUME Runs(req, s, 1, q, c), n = d + 1
      PROVE  BeginsAt(req, t, q + 1, 1)
  <2>1. q \in 1..Len(req) /\ c \in 1..SizeIn(req, q) /\ 1 + d <= Len(s)
    BY <1>6 DEF Runs
  <2>2. IF 1 + d < Len(s) THEN s[1 + d + 1] = <<q + 1, 1>> ELSE q = Len(req)
    BY <1>6 DEF Runs
  <2>3. d \in Nat
    BY <2>1, SizeIsNat
  <2>4. CASE t = <<>>
    <3>1. Len(s) - n = 0
      <4> HIDE DEF t
      <4> QED
        BY <1>1, <2>4
    <3>2. ~(1 + d < Len(s))
      BY <3>1, <1>2, <1>6, <2>3
    <3> QED
      BY <2>2, <2>4, <3>2 DEF BeginsAt
  <2>5. CASE t # <<>>
    <3>1. Len(t) > 0
      BY <1>1, <2>5
    <3>2. 1 + d < Len(s) /\ n + 1 = 1 + d + 1 /\ n + 1 \in 1..Len(s)
      BY <1>1, <1>2, <1>6, <2>3, <3>1
    <3>3. s[n + 1] = <<q + 1, 1>>
      BY <2>2, <3>2
    <3>4. Runs(req, s, n + 1, q + 1, 1)
      BY <3>2, <3>3 DEF WholeRequests
    <3>5. Runs(req, t, 1, q + 1, 1)
      BY <3>4, RunShifts
    <3> QED
      BY <2>5, <3>5 DEF BeginsAt
  <2> QED
    BY <2>4, <2>5
<1> QED
  BY <1>4, <1>5, <1>6

\* A request is sent: it is behind what was on the stream.
LEMMA StreamExtends ==
    ASSUME NEW req \in RequestSeq, NEW s \in Seq(Unit), WholeRequests(req, s),
           NEW len \in Nat, NEW close \in BOOLEAN, NEW q, NEW c
    PROVE  LET more == Append(req, [len |-> len, close |-> close])
               t == s \o Units(Len(req) + 1, len)
           IN  /\ more \in RequestSeq /\ t \in Seq(Unit) /\ Len(more) = Len(req) + 1
               /\ \A i \in 1..Len(req) : more[i] = req[i]
               /\ \A i \in 1..Len(t) : IF i <= Len(s) THEN t[i] = s[i] ELSE t[i][1] = Len(req) + 1
               /\ WholeRequests(more, t)
               /\ BeginsAt(req, s, q, c) => BeginsAt(more, t, q, c)
<1> DEFINE more == Append(req, [len |-> len, close |-> close])
           N == Len(req) + 1
           u == Units(N, len)
           t == s \o u
<1>1. /\ more \in RequestSeq /\ Len(more) = N /\ more[N] = [len |-> len, close |-> close]
      /\ \A i \in 1..Len(req) : more[i] = req[i]
  BY DEF RequestSeq
<1>2. Len(req) \in Nat /\ Len(s) \in Nat /\ N \in Nat \ {0} /\ HeadLen \in Nat \ {0}
  BY SessionSizes DEF RequestSeq
<1>3. u \in Seq(Unit) /\ Len(u) = HeadLen + len /\ \A k \in 1..(HeadLen + len) : u[k] = <<N, k>>
  <2>1. HeadLen + len \in Nat /\ \A k \in 1..(HeadLen + len) : <<N, k>> \in Unit
    BY <1>2 DEF Unit
  <2> QED
    BY <2>1 DEF Units
<1> HIDE DEF more, u
<1>4. /\ t \in Seq(Unit) /\ Len(t) = Len(s) + (HeadLen + len)
      /\ \A i \in 1..Len(s) : t[i] = s[i]
      /\ \A k \in 1..(HeadLen + len) : t[Len(s) + k] = <<N, k>>
  <2>1. /\ t \in Seq(Unit) /\ Len(t) = Len(s) + Len(u)
        /\ \A i \in 1..(Len(s) + Len(u)) : t[i] = IF i <= Len(s) THEN s[i] ELSE u[i - Len(s)]
    BY <1>3, ConcatProperties
  <2>2. ASSUME NEW k \in 1..(HeadLen + len)
        PROVE  t[Len(s) + k] = <<N, k>>
    <3>1. Len(s) + k \in 1..(Len(s) + Len(u)) /\ ~(Len(s) + k <= Len(s)) /\ Len(s) + k - Len(s) = k
      BY <1>2, <1>3
    <3> QED
      BY <1>3, <2>1, <3>1
  <2>3. \A i \in 1..Len(s) : i \in 1..(Len(s) + Len(u)) /\ i <= Len(s)
    BY <1>2, <1>3
  <2> QED
    BY <1>3, <2>1, <2>2, <2>3
<1> HIDE DEF t
<1>5. ASSUME NEW i \in 1..Len(t), ~(i <= Len(s))
      PROVE  i - Len(s) \in 1..(HeadLen + len) /\ t[i] = <<N, i - Len(s)>>
  <2>1. i - Len(s) \in 1..(HeadLen + len) /\ Len(s) + (i - Len(s)) = i
    BY <1>2, <1>4, <1>5
  <2> QED
    BY <1>4, <2>1
<1>6. SizeIn(more, N) = HeadLen + len /\ \A p \in 1..Len(req) : SizeIn(more, p) = SizeIn(req, p)
  BY <1>1 DEF SizeIn
<1>7. ASSUME NEW i \in Nat \ {0}, NEW p, NEW b, Runs(req, s, i, p, b)
      PROVE  Runs(more, t, i, p, b)
  <2> DEFINE d == SizeIn(req, p) - b
  <2>1. p \in 1..Len(req) /\ b \in 1..SizeIn(req, p) /\ i + d <= Len(s)
    BY <1>7 DEF Runs
  <2>2. d \in Nat /\ SizeIn(more, p) = SizeIn(req, p)
    BY <1>6, <2>1, SizeIsNat
  <2>3. p \in 1..Len(more) /\ i + d <= Len(t)
    BY <1>1, <1>2, <1>4, <2>1, <2>2
  <2>4. ASSUME NEW j \in 0..d
        PROVE  t[i + j] = <<p, b + j>>
    <3>1. i + j \in 1..Len(s)
      BY <2>1, <2>2, <1>2
    <3>2. s[i + j] = <<p, b + j>>
      BY <1>7 DEF Runs
    <3> QED
      BY <1>4, <3>1, <3>2
  <2>5. IF i + d < Len(s) THEN s[i + d + 1] = <<p + 1, 1>> ELSE p = Len(req)
    BY <1>7 DEF Runs
  <2>6. i + d < Len(t) /\ t[i + d + 1] = <<p + 1, 1>>
    <3>1. CASE i + d < Len(s)
      <4>1. i + d + 1 \in 1..Len(s)
        BY <3>1, <2>2, <1>2
      <4> QED
        BY <4>1, <3>1, <2>2, <2>5, <1>4, <1>2
    <3>2. CASE ~(i + d < Len(s))
      <4>1. i + d + 1 = Len(s) + 1 /\ p + 1 = N /\ 1 \in 1..(HeadLen + len)
        BY <3>2, <2>1, <2>2, <2>5, <1>2
      <4>2. t[Len(s) + 1] = <<N, 1>>
        BY <4>1, <1>4
      <4>3. i + d < Len(t)
        BY <4>1, <1>2, <1>4, <2>2
      <4> QED
        BY <4>1, <4>2, <4>3
    <3> QED
      BY <3>1, <3>2
  <2> QED
    BY <2>1, <2>2, <2>3, <2>4, <2>6 DEF Runs
<1>8. Runs(more, t, Len(s) + 1, N, 1)
  <2>1. SizeIn(more, N) - 1 \in Nat /\ Len(s) + 1 + (SizeIn(more, N) - 1) = Len(t)
    BY <1>2, <1>4, <1>6
  <2>2. N \in 1..Len(more) /\ 1 \in 1..SizeIn(more, N) /\ N = Len(more)
    BY <1>1, <1>2, <1>6
  <2>3. ASSUME NEW j \in 0..(SizeIn(more, N) - 1)
        PROVE  t[Len(s) + 1 + j] = <<N, 1 + j>>
    <3>1. 1 + j \in 1..(HeadLen + len) /\ Len(s) + (1 + j) = Len(s) + 1 + j
      BY <1>2, <1>6
    <3> QED
      BY <1>4, <3>1
  <2>4. ~(Len(t) < Len(t)) /\ Len(t) <= Len(t)
    BY <1>2, <1>4
  <2> QED
    BY <2>1, <2>2, <2>3, <2>4 DEF Runs
<1>9. ASSUME NEW i \in 1..Len(t), t[i][2] = 1
      PROVE  Runs(more, t, i, t[i][1], 1)
  <2>1. CASE i <= Len(s)
    <3>1. i \in 1..Len(s) /\ t[i] = s[i]
      BY <1>4, <2>1
    <3>2. Runs(req, s, i, s[i][1], 1)
      BY <1>9, <3>1 DEF WholeRequests
    <3> QED
      BY <1>7, <3>1, <3>2
  <2>2. CASE ~(i <= Len(s))
    <3>1. i - Len(s) \in Int /\ t[i] = <<N, i - Len(s)>>
      BY <1>5, <2>2
    <3>2. i - Len(s) = 1
      BY <1>9, <3>1
    <3>3. i = Len(s) + 1 /\ t[i][1] = N
      BY <3>1, <3>2, <1>2
    <3> QED
      BY <1>8, <3>3
  <2> QED
    BY <2>1, <2>2
<1>10. ASSUME BeginsAt(req, s, q, c)
       PROVE  BeginsAt(more, t, q, c)
  <2>1. t # <<>>
    <3>1. Len(t) > 0
      BY <1>2, <1>4
    <3> QED
      BY <3>1
  <2>2. CASE s = <<>>
    <3>1. q = N /\ c = 1 /\ Len(s) + 1 = 1
      BY <1>10, <2>2 DEF BeginsAt
    <3> QED
      BY <1>8, <2>1, <3>1 DEF BeginsAt
  <2>3. CASE s # <<>>
    <3>1. Runs(req, s, 1, q, c)
      BY <1>10, <2>3 DEF BeginsAt
    <3> QED
      BY <1>7, <2>1, <3>1 DEF BeginsAt
  <2> QED
    BY <2>2, <2>3
<1>11. \A i \in 1..Len(t) : IF i <= Len(s) THEN t[i] = s[i] ELSE t[i][1] = N
  <2> TAKE i \in 1..Len(t)
  <2>1. CASE i <= Len(s)
    BY <1>4, <2>1
  <2>2. CASE ~(i <= Len(s))
    BY <1>5, <2>2
  <2> QED
    BY <2>1, <2>2
<1>12. WholeRequests(more, t)
  BY <1>9 DEF WholeRequests
<1> QED
  BY <1>1, <1>4, <1>10, <1>11, <1>12 DEF more, t, u

-----------------------------------------------------------------------------
Stages == {"begin", "read", "body", "dispatch", "answer", "closed", "killed"}

SessionState ==
    /\ requests \in RequestSeq /\ arrived \in Seq(Unit) /\ m_left_data \in Seq(Unit)
    /\ session \in [at : Stages, data : Seq(Unit), nparse : 0..HeadLen, body : Seq(Unit), left : Nat]
    /\ served \in Seq([head : Seq(Unit), body : Seq(Unit)])
    /\ answered \in Nat
    /\ gone \in BOOLEAN /\ m_isKeepalive \in BOOLEAN
    /\ ahead \in BOOLEAN /\ overread \in BOOLEAN /\ ioError \in BOOLEAN

\* The units are of requests that were sent.
OfRequests(req, s) == \A i \in 1..Len(s) : s[i][1] \in 1..Len(req)

UnitsAreSent ==
    /\ OfRequests(requests, arrived) /\ OfRequests(requests, m_left_data)
    /\ OfRequests(requests, session.data)
    /\ \A i \in DOMAIN served :
          Len(served[i].head) = HeadLen /\ served[i].head[HeadLen][1] \in 1..Len(requests)

\* From the body on the buffer holds a header; and what is in the body and
\* what is left of it.
HeadIsRead ==
    /\ session.at \in {"body", "dispatch", "answer"} =>
          Len(session.data) >= HeadLen /\ ContentLength(session.data) <= MaxBodySize
    /\ session.at = "body" =>
          /\ session.left > 0 /\ Len(session.body) + session.left >= ContentLength(session.data)
          /\ session.left <= MaxBodySize + 1
          /\ ~ioError => /\ Len(session.body) + session.left = ContentLength(session.data)
                         /\ session.left <= MaxBodySize
    /\ session.at = "dispatch" =>
          /\ Len(session.body) >= ContentLength(session.data)
          /\ ~ioError => Len(session.body) = ContentLength(session.data)
    /\ session.at # "body" => session.left = 0

\* One response for every request, but for the one that is being answered.
Answers == Len(served) = answered + (IF session.at \in {"answer", "killed"} THEN 1 ELSE 0)

LastIsAnswered ==
    session.at = "answer" =>
        Len(served) > 0 /\ served[Len(served)].head[HeadLen] = session.data[HeadLen]

\* How far the request that is being read has come, and where the stream goes on.
Following ==
    LET r == Len(served) + 1
    IN  /\ session.at \in {"begin", "answer"} => BeginsAt(requests, arrived, r, 1)
        /\ session.at = "read" =>
              /\ Len(session.data) < HeadLen
              /\ \A j \in 1..Len(session.data) : session.data[j] = <<r, j>>
              /\ BeginsAt(requests, arrived, r, Len(session.data) + 1)
        /\ session.at \in {"body", "dispatch"} =>
              /\ r \in 1..Len(requests)
              /\ \A j \in 1..HeadLen : session.data[j] = <<r, j>>
              /\ \A j \in 1..Len(session.body) : session.body[j] = <<r, HeadLen + j>>
        /\ session.at = "body" => BeginsAt(requests, arrived, r, HeadLen + Len(session.body) + 1)
        /\ session.at = "dispatch" => BeginsAt(requests, arrived, r + 1, 1)

AsSent(i) ==
    i \in DOMAIN requests /\ served[i].head \o served[i].body = Units(i, requests[i].len)

StreamIsFollowed ==
    /\ WholeRequests(requests, arrived)
    /\ ~overread => m_left_data = <<>>
    /\ ~overread /\ ~ioError => Following /\ \A i \in DOMAIN served : AsSent(i)

\* A client that waits for its answers: after a failure in the body the
\* session waits for a byte that is not sent.
Starved ==
    \/ session.at \in {"closed", "killed"}
    \/ /\ session.at = "body" /\ Len(requests) = answered + 1
       /\ Len(arrived) < session.left

InTurn == ~ahead => ~overread /\ Len(requests) <= answered + 1 /\ (ioError => Starved)

SessionIInv ==
    /\ SessionState /\ Len(session.data) <= BufferSize /\ Len(m_left_data) <= BufferSize
    /\ UnitsAreSent /\ HeadIsRead /\ Answers /\ LastIsAnswered
    /\ ClosedAfterLast /\ StreamIsFollowed /\ InTurn

LEMMA SessionInitial == SessionInit => SessionIInv
<1> SUFFICES ASSUME SessionInit
             PROVE  SessionIInv
  OBVIOUS
<1>1. /\ requests = <<>> /\ arrived = <<>> /\ gone = FALSE /\ m_isKeepalive \in BOOLEAN
      /\ session = [at |-> "begin", data |-> <<>>, nparse |-> 0, body |-> <<>>, left |-> 0]
      /\ m_left_data = <<>> /\ served = <<>> /\ answered = 0
      /\ ahead = FALSE /\ overread = FALSE /\ ioError = FALSE
  BY DEF SessionInit, Local
<1>2. SessionState
  <2>1. 0 \in 0..HeadLen /\ 0 \in Nat /\ "begin" \in Stages
    BY SessionSizes DEF Stages
  <2>2. <<>> \in RequestSeq /\ <<>> \in Seq(Unit) /\ <<>> \in Seq([head : Seq(Unit), body : Seq(Unit)])
    BY DEF RequestSeq
  <2> QED
    BY <1>1, <2>1, <2>2 DEF SessionState
<1>3. UnitsAreSent
  BY <1>1 DEF UnitsAreSent, OfRequests
<1>4. HeadIsRead /\ Answers /\ LastIsAnswered /\ ClosedAfterLast /\ InTurn
  BY <1>1 DEF HeadIsRead, Answers, LastIsAnswered, ClosedAfterLast, InTurn
<1>5. Following
  BY <1>1 DEF Following, BeginsAt
<1>6. StreamIsFollowed
  BY <1>1, <1>5 DEF StreamIsFollowed, WholeRequests
<1> QED
  BY <1>1, <1>2, <1>3, <1>4, <1>6, SessionSizes DEF SessionIInv

\* What the parser makes of a buffer.
LEMMA HeaderParsed ==
    ASSUME NEW data \in Seq(Unit)
    PROVE  /\ ParsedTo(data) \in 0..HeadLen
           /\ ParsedTo(data) = HeadLen => Len(data) >= HeadLen
           /\ Len(data) >= HeadLen /\ (\A j \in 1..HeadLen : data[j][2] = j) => ParsedTo(data) = HeadLen
<1>1. HeadLen \in Nat \ {0} /\ IsFiniteSet(1..HeadLen) /\ Cardinality(1..HeadLen) = HeadLen
  BY SessionSizes, FS_Interval
<1>2. Header(data) \subseteq 1..HeadLen
  BY DEF Header
<1>3. /\ IsFiniteSet(Header(data)) /\ Cardinality(Header(data)) \in Nat
      /\ Cardinality(Header(data)) <= HeadLen
      /\ Cardinality(Header(data)) = HeadLen => Header(data) = 1..HeadLen
  BY <1>1, <1>2, FS_Subset, FS_CardinalityType
<1>4. ASSUME Header(data) = 1..HeadLen
      PROVE  Len(data) >= HeadLen
  <2>1. HeadLen \in Header(data)
    BY <1>1, <1>4
  <2> QED
    BY <1>1, <2>1 DEF Header
<1>5. ASSUME Len(data) >= HeadLen, \A j \in 1..HeadLen : data[j][2] = j
      PROVE  Header(data) = 1..HeadLen
  <2>1. \A k \in 1..HeadLen : k <= Len(data) /\ \A j \in 1..k : j \in 1..HeadLen
    BY <1>1, <1>5
  <2> QED
    BY <1>5, <2>1 DEF Header
<1> QED
  BY <1>1, <1>3, <1>4, <1>5 DEF ParsedTo

\* The length that a header gives is one that was sent.
LEMMA LengthIsSent ==
    ASSUME SessionState, NEW data \in Seq(Unit), OfRequests(requests, data), Len(data) >= HeadLen
    PROVE  /\ data[HeadLen] \in Unit /\ data[HeadLen][1] \in 1..Len(requests)
           /\ ContentLength(data) \in Nat
<1>1. HeadLen \in 1..Len(data)
  BY SessionSizes
<1>2. data[HeadLen] \in Unit
  BY <1>1, ElementOfSeq
<1>3. data[HeadLen][1] \in 1..Len(requests)
  BY <1>1 DEF OfRequests
<1> QED
  BY <1>2, <1>3, SizeIsNat DEF ContentLength, SessionState

LEMMA SessionQuiet ==
    ASSUME SessionIInv, gone' \in BOOLEAN,
           UNCHANGED <<requests, arrived, m_isKeepalive, session, m_left_data, served, answered,
                       ahead, overread, ioError>>
    PROVE  SessionIInv'
<1>1. SessionState' /\ UnitsAreSent' /\ HeadIsRead' /\ Answers' /\ LastIsAnswered' /\ ClosedAfterLast'
  BY DEF SessionIInv, SessionState, UnitsAreSent, HeadIsRead, Answers, LastIsAnswered, ClosedAfterLast,
         ContentLength
<1>2. StreamIsFollowed'
  BY DEF SessionIInv, StreamIsFollowed, Following, AsSent
<1>3. InTurn'
  BY DEF SessionIInv, InTurn, Starved
<1> QED
  BY <1>1, <1>2, <1>3 DEF SessionIInv

LEMMA SendRequestKeeps ==
    ASSUME SessionIInv, NEW len \in Bodies, NEW close \in BOOLEAN, SendRequest(len, close)
    PROVE  SessionIInv'
<1>1. /\ requests' = Append(requests, [len |-> len, close |-> close])
      /\ arrived' = arrived \o Units(Len(requests) + 1, len)
      /\ ahead' = (ahead \/ Len(requests) > answered)
      /\ UNCHANGED <<gone, m_isKeepalive, session, m_left_data, served, answered, overread, ioError>>
  BY DEF SendRequest
<1>2. /\ requests \in RequestSeq /\ arrived \in Seq(Unit) /\ WholeRequests(requests, arrived)
      /\ len \in Nat
  BY SessionSizes DEF SessionIInv, SessionState, StreamIsFollowed
<1>3. /\ requests' \in RequestSeq /\ arrived' \in Seq(Unit) /\ Len(requests') = Len(requests) + 1
      /\ \A i \in 1..Len(requests) : requests'[i] = requests[i]
      /\ \A i \in 1..Len(arrived') :
             IF i <= Len(arrived) THEN arrived'[i] = arrived[i] ELSE arrived'[i][1] = Len(requests) + 1
      /\ WholeRequests(requests', arrived')
  <2> DEFINE more == Append(requests, [len |-> len, close |-> close])
             t == arrived \o Units(Len(requests) + 1, len)
  <2>1. /\ more \in RequestSeq /\ t \in Seq(Unit) /\ Len(more) = Len(requests) + 1
        /\ \A i \in 1..Len(requests) : more[i] = requests[i]
        /\ \A i \in 1..Len(t) :
               IF i <= Len(arrived) THEN t[i] = arrived[i] ELSE t[i][1] = Len(requests) + 1
        /\ WholeRequests(more, t)
    BY <1>2, StreamExtends
  <2>2. requests' = more /\ arrived' = t
    BY <1>1
  <2> HIDE DEF more, t
  <2> QED
    BY ONLY <2>1, <2>2
<1>4. \A q, c : BeginsAt(requests, arrived, q, c) => BeginsAt(requests', arrived', q, c)
  BY <1>1, <1>2, StreamExtends
<1>5. Len(requests) \in Nat /\ 1..Len(requests) \subseteq 1..Len(requests') /\ Len(arrived) \in Nat
  BY <1>2, <1>3 DEF RequestSeq
<1>6. SessionState'
  BY <1>1, <1>3 DEF SessionIInv, SessionState
<1>7. UnitsAreSent'
  <2>1. OfRequests(requests', arrived')
    <3> SUFFICES ASSUME NEW i \in 1..Len(arrived')
                 PROVE  arrived'[i][1] \in 1..Len(requests')
      BY DEF OfRequests
    <3>1. CASE i <= Len(arrived)
      <4>1. i \in 1..Len(arrived) /\ arrived'[i] = arrived[i]
        BY <1>3, <1>5, <3>1
      <4> QED
        BY <4>1, <1>5 DEF SessionIInv, UnitsAreSent, OfRequests
    <3>2. CASE ~(i <= Len(arrived))
      BY <1>3, <1>5, <3>2
    <3> QED
      BY <3>1, <3>2
  <2> QED
    BY <2>1, <1>1, <1>5 DEF SessionIInv, UnitsAreSent, OfRequests
<1>8. Len(session.data) >= HeadLen => ContentLength(session.data)' = ContentLength(session.data)
  BY <1>1, <1>3, LengthIsSent DEF SessionIInv, SessionState, UnitsAreSent, ContentLength
<1>9. HeadIsRead'
  BY <1>1, <1>8 DEF SessionIInv, HeadIsRead
<1>10. Answers' /\ LastIsAnswered' /\ Len(session.data)' <= BufferSize /\ Len(m_left_data)' <= BufferSize
  BY <1>1 DEF SessionIInv, Answers, LastIsAnswered
<1>11. ClosedAfterLast'
  BY <1>1, <1>3 DEF SessionIInv, ClosedAfterLast, UnitsAreSent
<1>12. StreamIsFollowed'
  <2>1. ASSUME Following
        PROVE  Following'
    BY <2>1, <1>1, <1>4, <1>5 DEF Following
  <2>2. DOMAIN requests = 1..Len(requests) /\ DOMAIN requests' = 1..Len(requests')
    BY <1>2, <1>3 DEF RequestSeq
  <2>3. ASSUME NEW i \in DOMAIN served, AsSent(i)
        PROVE  AsSent(i)'
    BY <2>2, <2>3, <1>1, <1>3, <1>5 DEF AsSent, Units
  <2> QED
    BY <2>1, <2>3, <1>1, <1>3 DEF SessionIInv, StreamIsFollowed
<1>13. InTurn'
  <2> SUFFICES ASSUME ~ahead'
               PROVE  ~overread' /\ Len(requests') <= answered' + 1 /\ (ioError' => Starved')
    BY DEF InTurn
  <2>1. ~ahead /\ ~(Len(requests) > answered)
    BY <1>1
  <2>2. answered \in Nat
    BY DEF SessionIInv, SessionState
  <2>3. Len(requests') <= answered + 1 /\ Len(requests) # answered + 1
    BY <1>3, <1>5, <2>1, <2>2
  <2>4. ~overread /\ (ioError => Starved)
    BY <2>1 DEF SessionIInv, InTurn
  <2>5. Starved => session.at \in {"closed", "killed"}
    BY <2>3 DEF Starved
  <2> QED
    BY <1>1, <2>3, <2>4, <2>5 DEF Starved
<1> QED
  BY <1>6, <1>7, <1>9, <1>10, <1>11, <1>12, <1>13 DEF SessionIInv

\* The session is closed before the answer to a request.
LEMMA ClosingKeeps ==
    ASSUME SessionIInv, session.at \in {"read", "body"}, session' = Closed,
           UNCHANGED <<requests, arrived, gone, m_isKeepalive, m_left_data, served, answered,
                       ahead, overread, ioError>>
    PROVE  SessionIInv'
<1>1. session' = [at |-> "closed", data |-> <<>>, nparse |-> 0, body |-> <<>>, left |-> 0]
  BY DEF Closed, Local
<1>2. 0 \in 0..HeadLen /\ "closed" \in Stages /\ <<>> \in Seq(Unit)
  BY SessionSizes DEF Stages
<1>3. SessionState'
  BY <1>1, <1>2 DEF SessionIInv, SessionState
<1>4. UnitsAreSent'
  BY <1>1 DEF SessionIInv, UnitsAreSent, OfRequests
<1>5. HeadIsRead' /\ Answers' /\ LastIsAnswered' /\ ClosedAfterLast' /\ InTurn'
  BY <1>1 DEF SessionIInv, HeadIsRead, Answers, LastIsAnswered, ClosedAfterLast, InTurn, Starved
<1>6. Following'
  BY <1>1 DEF Following
<1>7. StreamIsFollowed'
  BY <1>6 DEF SessionIInv, StreamIsFollowed, AsSent
<1> QED
  BY <1>1, <1>3, <1>4, <1>5, <1>7, SessionSizes DEF SessionIInv

LEMMA BeginRequestKeeps ==
    ASSUME SessionIInv, BeginRequest
    PROVE  SessionIInv'
<1> DEFINE d == IF BufferSize < Len(m_left_data) THEN <<>> ELSE m_left_data
<1>1. /\ session.at = "begin"
      /\ session' = [at |-> "read", data |-> d, nparse |-> 0, body |-> <<>>, left |-> 0]
      /\ UNCHANGED <<requests, arrived, gone, m_isKeepalive, m_left_data, served, answered,
                     ahead, overread, ioError>>
  BY DEF BeginRequest, Local
<1>2. /\ d \in Seq(Unit) /\ Len(d) <= BufferSize /\ OfRequests(requests, d)
      /\ m_left_data = <<>> => d = <<>>
  BY SessionSizes DEF SessionIInv, SessionState, UnitsAreSent, OfRequests
<1> HIDE DEF d
<1>3. 0 \in 0..HeadLen /\ "read" \in Stages /\ <<>> \in Seq(Unit) /\ HeadLen > 0
  BY SessionSizes DEF Stages
<1>4. SessionState'
  BY <1>1, <1>2, <1>3 DEF SessionIInv, SessionState
<1>5. UnitsAreSent'
  BY <1>1, <1>2 DEF SessionIInv, UnitsAreSent
<1>6. HeadIsRead' /\ Answers' /\ LastIsAnswered'
  BY <1>1 DEF SessionIInv, HeadIsRead, Answers, LastIsAnswered
<1>7. ClosedAfterLast' /\ InTurn'
  BY <1>1 DEF SessionIInv, ClosedAfterLast, InTurn, Starved
<1>8. ASSUME Following, d = <<>>
      PROVE  Following'
  BY <1>1, <1>3, <1>8 DEF Following
<1>9. StreamIsFollowed'
  BY <1>1, <1>2, <1>8 DEF SessionIInv, StreamIsFollowed, AsSent
<1> QED
  BY <1>1, <1>2, <1>4, <1>5, <1>6, <1>7, <1>9 DEF SessionIInv

\* n units are read.
LEMMA ReadTakes ==
    ASSUME SessionIInv, NEW n \in 1..Len(arrived)
    PROVE  /\ SubSeq(arrived, 1, n) \in Seq(Unit) /\ Len(SubSeq(arrived, 1, n)) = n
           /\ \A i \in 1..n : SubSeq(arrived, 1, n)[i] = arrived[i]
           /\ OfRequests(requests, SubSeq(arrived, 1, n))
           /\ SubSeq(arrived, n + 1, Len(arrived)) \in Seq(Unit)
           /\ Len(SubSeq(arrived, n + 1, Len(arrived))) = Len(arrived) - n
           /\ OfRequests(requests, SubSeq(arrived, n + 1, Len(arrived)))
           /\ WholeRequests(requests, SubSeq(arrived, n + 1, Len(arrived)))
<1> DEFINE t == SubSeq(arrived, 1, n)
           u == SubSeq(arrived, n + 1, Len(arrived))
<1>1. /\ arrived \in Seq(Unit) /\ OfRequests(requests, arrived) /\ WholeRequests(requests, arrived)
      /\ Len(arrived) \in Nat /\ n \in 0..Len(arrived) /\ requests \in RequestSeq
  BY DEF SessionIInv, SessionState, UnitsAreSent, StreamIsFollowed
<1>2. t \in Seq(Unit) /\ Len(t) = n /\ \A i \in 1..n : t[i] = arrived[i]
  BY <1>1, FrontOf
<1>3. /\ u \in Seq(Unit) /\ Len(u) = Len(arrived) - n
      /\ \A i \in 1..(Len(arrived) - n) : u[i] = arrived[n + i]
  BY <1>1, RestOf
<1>4. WholeRequests(requests, u)
  BY <1>1, StreamAdvances
<1> HIDE DEF t, u
<1>5. OfRequests(requests, t)
  BY <1>1, <1>2 DEF OfRequests
<1>6. OfRequests(requests, u)
  <2>1. \A i \in 1..(Len(arrived) - n) : n + i \in 1..Len(arrived)
    BY <1>1
  <2> QED
    BY <1>1, <1>3, <2>1 DEF OfRequests
<1> QED
  BY <1>2, <1>3, <1>4, <1>5, <1>6 DEF t, u

\* The units of the request that is being read go into data; behind them come
\* those of later requests.
LEMMA ReadFollows ==
    ASSUME SessionIInv, NEW n \in 1..Len(arrived), NEW q, NEW c,
           BeginsAt(requests, arrived, q, c)
    PROVE  LET d == SizeIn(requests, q) - c
               t == SubSeq(arrived, n + 1, Len(arrived))
           IN  /\ q \in 1..Len(requests) /\ c \in 1..SizeIn(requests, q) /\ d \in Nat
               /\ d + 1 <= Len(arrived) /\ SizeIn(requests, q) \in Nat
               /\ \A i \in 1..(d + 1) : arrived[i] = <<q, c + i - 1>>
               /\ n <= d => BeginsAt(requests, t, q, c + n)
               /\ n = d + 1 => BeginsAt(requests, t, q + 1, 1)
               /\ q = Len(requests) => Len(arrived) = d + 1
<1> DEFINE d == SizeIn(requests, q) - c
           t == SubSeq(arrived, n + 1, Len(arrived))
<1>1. /\ arrived \in Seq(Unit) /\ OfRequests(requests, arrived) /\ WholeRequests(requests, arrived)
      /\ Len(arrived) \in Nat /\ n \in 0..Len(arrived) /\ requests \in RequestSeq
  BY DEF SessionIInv, SessionState, UnitsAreSent, StreamIsFollowed
<1>2. arrived # <<>>
  BY <1>1
<1>3. Runs(requests, arrived, 1, q, c)
  BY <1>2 DEF BeginsAt
<1>4. q \in 1..Len(requests) /\ c \in 1..SizeIn(requests, q) /\ 1 + d <= Len(arrived)
  BY <1>3 DEF Runs
<1>5. SizeIn(requests, q) \in Nat /\ d \in Nat
  BY <1>1, <1>4, SizeIsNat
<1>6. (n <= d => BeginsAt(requests, t, q, c + n)) /\ (n = d + 1 => BeginsAt(requests, t, q + 1, 1))
  BY <1>1, <1>3, StreamAdvances
<1>7. ASSUME NEW i \in 1..(d + 1)
      PROVE  arrived[i] = <<q, c + i - 1>>
  <2>1. i - 1 \in 0..d /\ 1 + (i - 1) = i /\ c + (i - 1) = c + i - 1
    BY <1>4, <1>5
  <2>2. arrived[1 + (i - 1)] = <<q, c + (i - 1)>>
    BY <1>3, <2>1 DEF Runs
  <2> QED
    BY <2>1, <2>2
<1>8. ASSUME q = Len(requests)
      PROVE  Len(arrived) = d + 1
  <2>1. ASSUME 1 + d < Len(arrived)
        PROVE  FALSE
    <3>1. arrived[1 + d + 1] = <<q + 1, 1>>
      BY <1>3, <2>1 DEF Runs
    <3>2. 1 + d + 1 \in 1..Len(arrived)
      BY <1>1, <1>5, <2>1
    <3>3. arrived[1 + d + 1][1] \in 1..Len(requests)
      BY <1>1, <3>2 DEF OfRequests
    <3>4. q + 1 \in 1..Len(requests)
      BY <3>1, <3>3
    <3> QED
      BY <1>4, <1>8, <3>4
  <2> QED
    BY <1>1, <1>4, <1>5, <2>1
<1>9. d + 1 <= Len(arrived)
  BY <1>1, <1>4, <1>5
<1> QED
  BY <1>4, <1>5, <1>6, <1>7, <1>8, <1>9, Zenon

LEMMA ReadBodyKeeps ==
    ASSUME SessionIInv, NEW n \in 1..BufferSize, ReadBody(n)
    PROVE  SessionIInv'
<1> DEFINE t == SubSeq(arrived, 1, n)
           u == SubSeq(arrived, n + 1, Len(arrived))
           b == session.body
           r == Len(served) + 1
<1>1. /\ session.at = "body" /\ n <= Len(arrived) /\ n <= session.left
      /\ session' = [session EXCEPT !.body = b \o t, !.left = @ - n,
                                    !.at = IF session.left = n THEN "dispatch" ELSE "body"]
      /\ arrived' = u
      /\ UNCHANGED <<requests, gone, m_isKeepalive, m_left_data, served, answered, ahead, overread, ioError>>
  BY DEF ReadBody
<1>2. SessionState
  BY DEF SessionIInv
<1>3. n \in 1..Len(arrived) /\ n \in Nat /\ session.left \in Nat
  BY <1>1, <1>2, SessionSizes DEF SessionState
<1>4. /\ t \in Seq(Unit) /\ Len(t) = n /\ \A i \in 1..n : t[i] = arrived[i]
      /\ u \in Seq(Unit) /\ Len(u) = Len(arrived) - n
      /\ OfRequests(requests, u) /\ WholeRequests(requests, u)
  BY <1>3, ReadTakes
<1>5. b \in Seq(Unit) /\ Len(b) \in Nat
  BY <1>2 DEF SessionState
<1> HIDE DEF t, b
<1>6. /\ b \o t \in Seq(Unit) /\ Len(b \o t) = Len(b) + n
      /\ \A i \in 1..(Len(b) + n) : (b \o t)[i] = IF i <= Len(b) THEN b[i] ELSE t[i - Len(b)]
  BY <1>4, <1>5, ConcatProperties
<1>7. /\ session'.body = b \o t /\ session'.left = session.left - n /\ session'.data = session.data
      /\ session'.nparse = session.nparse
      /\ session'.at = IF session.left = n THEN "dispatch" ELSE "body"
  BY <1>1, <1>2 DEF SessionState
<1>8. SessionState'
  <2>1. session.left - n \in Nat
    BY <1>1, <1>3
  <2>2. "dispatch" \in Stages /\ "body" \in Stages
    BY DEF Stages
  <2> QED
    BY <1>1, <1>2, <1>4, <1>6, <2>1, <2>2 DEF SessionState
<1>9. UnitsAreSent'
  BY <1>1, <1>4, <1>7 DEF SessionIInv, UnitsAreSent
<1>10. ContentLength(session.data)' = ContentLength(session.data) /\ ContentLength(session.data) \in Nat
  <2>1. Len(session.data) >= HeadLen
    BY <1>1 DEF SessionIInv, HeadIsRead
  <2> QED
    BY <1>1, <1>2, <1>7, <2>1, LengthIsSent DEF ContentLength, SessionState, SessionIInv, UnitsAreSent
<1>11. HeadIsRead'
  <2>1. /\ Len(session.data) >= HeadLen /\ ContentLength(session.data) <= MaxBodySize
        /\ session.left > 0 /\ Len(b) + session.left >= ContentLength(session.data)
        /\ session.left <= MaxBodySize + 1
        /\ ~ioError => /\ Len(b) + session.left = ContentLength(session.data)
                       /\ session.left <= MaxBodySize
    BY <1>1 DEF SessionIInv, HeadIsRead, b
  <2>2. CASE session.left = n
    <3>1. session'.at = "dispatch" /\ session'.left = 0
      BY <1>3, <1>7, <2>2
    <3> QED
      BY <3>1, <2>1, <2>2, <1>1, <1>6, <1>7, <1>10 DEF HeadIsRead
  <2>3. CASE session.left # n
    <3>1. /\ session'.at = "body" /\ session'.left > 0 /\ session'.left <= session.left
          /\ Len(session'.body) + session'.left = Len(b) + session.left
      BY <1>1, <1>3, <1>5, <1>6, <1>7, <2>3
    <3>2. session'.left <= MaxBodySize + 1 /\ (~ioError => session'.left <= MaxBodySize)
      BY <3>1, <2>1, <1>3, <1>7, SessionSizes
    <3> QED
      BY <3>1, <3>2, <2>1, <1>1, <1>7, <1>10 DEF HeadIsRead
  <2> QED
    BY <2>2, <2>3
<1>12. Answers' /\ LastIsAnswered'
  BY <1>1, <1>7 DEF SessionIInv, Answers, LastIsAnswered
<1>13. ClosedAfterLast'
  BY <1>1, <1>7 DEF SessionIInv, ClosedAfterLast
<1>14. ASSUME Following, ~ioError
       PROVE  Following'
  <2>1. /\ r \in 1..Len(requests)
        /\ \A j \in 1..HeadLen : session.data[j] = <<r, j>>
        /\ \A j \in 1..Len(b) : b[j] = <<r, HeadLen + j>>
        /\ BeginsAt(requests, arrived, r, HeadLen + Len(b) + 1)
    BY <1>1, <1>14 DEF Following, b
  <2> DEFINE d == SizeIn(requests, r) - (HeadLen + Len(b) + 1)
  <2>2. /\ d \in Nat /\ \A i \in 1..(d + 1) : arrived[i] = <<r, (HeadLen + Len(b) + 1) + i - 1>>
        /\ n <= d => BeginsAt(requests, u, r, (HeadLen + Len(b) + 1) + n)
        /\ n = d + 1 => BeginsAt(requests, u, r + 1, 1)
    <3> DEFINE c == HeadLen + Len(b) + 1
    <3>1. BeginsAt(requests, arrived, r, c)
      BY <2>1
    <3> HIDE DEF c, r
    <3>2. /\ SizeIn(requests, r) - c \in Nat
          /\ \A i \in 1..(SizeIn(requests, r) - c + 1) : arrived[i] = <<r, c + i - 1>>
          /\ n <= SizeIn(requests, r) - c => BeginsAt(requests, u, r, c + n)
          /\ n = SizeIn(requests, r) - c + 1 => BeginsAt(requests, u, r + 1, 1)
      BY <1>3, <3>1, ReadFollows
    <3> QED
      BY <3>2 DEF c, r
  <2>3. ContentLength(session.data) = requests[r].len
    <3>1. session.data[HeadLen] = <<r, HeadLen>>
      BY <2>1, SessionSizes
    <3> QED
      BY <3>1 DEF ContentLength
  <2>4. d = session.left - 1
    <3>1. Len(b) + session.left = requests[r].len
      BY <1>1, <1>14, <2>3 DEF SessionIInv, HeadIsRead, b
    <3>2. requests[r].len \in Nat
      BY <1>10, <2>3
    <3> QED
      BY <3>1, <3>2, <1>3, <1>5, SessionSizes DEF SizeIn
  <2>5. n <= d + 1
    BY <2>4, <1>1, <1>3
  <2> HIDE DEF d
  <2>6. ASSUME NEW j \in 1..(Len(b) + n)
        PROVE  (b \o t)[j] = <<r, HeadLen + j>>
    <3>1. CASE j <= Len(b)
      BY <3>1, <2>1, <1>5, <1>6
    <3>2. CASE ~(j <= Len(b))
      <4>1. j - Len(b) \in 1..n /\ j - Len(b) \in 1..(d + 1)
            /\ (HeadLen + Len(b) + 1) + (j - Len(b)) - 1 = HeadLen + j
        <5>1. HeadLen \in Nat /\ Len(b) \in Nat /\ n \in Nat /\ d \in Nat
          BY <1>3, <1>5, <2>2, SessionSizes
        <5> QED
          BY ONLY <5>1, <3>2, <2>5, j \in 1..(Len(b) + n)
      <4>2. (b \o t)[j] = arrived[j - Len(b)]
        BY <3>2, <4>1, <1>4, <1>6
      <4> QED
        BY <4>1, <4>2, <2>2
    <3> QED
      BY <3>1, <3>2
  <2>7. CASE session.left = n
    <3>1. n = d + 1 /\ session'.at = "dispatch"
      BY <2>4, <2>7, <1>3, <1>7
    <3> QED
      BY <3>1, <2>1, <2>2, <2>6, <1>1, <1>6, <1>7 DEF Following
  <2>8. CASE session.left # n
    <3>1. n <= d /\ session'.at = "body"
      BY <2>4, <2>8, <1>1, <1>3, <1>7
    <3>2. (HeadLen + Len(b) + 1) + n = HeadLen + Len(session'.body) + 1
      <4>1. Len(session'.body) = Len(b) + n
        BY <1>6, <1>7
      <4> QED
        BY <4>1, <1>3, <1>5, SessionSizes
    <3> QED
      BY <3>1, <3>2, <2>1, <2>2, <2>6, <1>1, <1>6, <1>7 DEF Following
  <2> QED
    BY <2>7, <2>8
<1>15. StreamIsFollowed'
  BY <1>1, <1>4, <1>14 DEF SessionIInv, StreamIsFollowed, AsSent
<1>16. InTurn'
  <2> SUFFICES ASSUME ~ahead
               PROVE  ~overread' /\ Len(requests') <= answered' + 1 /\ (ioError' => Starved')
    BY <1>1 DEF InTurn
  <2>1. ~overread /\ Len(requests) <= answered + 1 /\ (ioError => Starved)
    BY DEF SessionIInv, InTurn
  <2>2. ASSUME ioError
        PROVE  Starved'
    <3>1. Len(requests) = answered + 1 /\ Len(arrived) < session.left
      BY <2>1, <2>2, <1>1 DEF Starved
    <3>2. session.left # n /\ Len(arrived') < session'.left
      BY <3>1, <1>1, <1>3, <1>4, <1>7
    <3> QED
      BY <3>1, <3>2, <1>1, <1>7 DEF Starved
  <2> QED
    BY <1>1, <2>1, <2>2
<1> QED
  BY <1>1, <1>7, <1>8, <1>9, <1>11, <1>12, <1>13, <1>15, <1>16 DEF SessionIInv

\* The buffer after a read.
LEMMA ReadFills ==
    ASSUME SessionIInv, NEW n \in 1..BufferSize, Read(n)
    PROVE  LET sd == session.data
               data == sd \o SubSeq(arrived, 1, n)
           IN  /\ n \in 1..Len(arrived) /\ sd \in Seq(Unit) /\ Len(sd) \in Nat
               /\ data \in Seq(Unit) /\ Len(data) = Len(sd) + n /\ Len(data) <= BufferSize
               /\ \A i \in 1..Len(data) : data[i] = IF i <= Len(sd) THEN sd[i] ELSE arrived[i - Len(sd)]
               /\ OfRequests(requests, data)
<1> DEFINE sd == session.data
           t == SubSeq(arrived, 1, n)
           data == sd \o t
<1>1. n <= Len(arrived) /\ n <= BufferSize - Len(sd)
  BY DEF Read, Room
<1>2. /\ sd \in Seq(Unit) /\ arrived \in Seq(Unit) /\ OfRequests(requests, sd)
      /\ OfRequests(requests, arrived)
  BY DEF SessionIInv, SessionState, UnitsAreSent
<1>3. Len(sd) \in Nat /\ Len(arrived) \in Nat /\ n \in 1..Len(arrived) /\ n \in Nat /\ BufferSize \in Nat
  BY <1>1, <1>2, SessionSizes
<1>4. t \in Seq(Unit) /\ Len(t) = n /\ \A i \in 1..n : t[i] = arrived[i]
  BY <1>3, ReadTakes
<1> HIDE DEF t, sd
<1>5. /\ data \in Seq(Unit) /\ Len(data) = Len(sd) + n
      /\ \A i \in 1..(Len(sd) + n) : data[i] = IF i <= Len(sd) THEN sd[i] ELSE t[i - Len(sd)]
  BY <1>2, <1>4, ConcatProperties
<1> HIDE DEF data
<1>6. Len(data) <= BufferSize
  BY <1>1, <1>3, <1>5
<1>7. ASSUME NEW i \in 1..Len(data), ~(i <= Len(sd))
      PROVE  i - Len(sd) \in 1..n /\ i - Len(sd) \in 1..Len(arrived) /\ data[i] = arrived[i - Len(sd)]
  <2>1. i - Len(sd) \in 1..n /\ i - Len(sd) \in 1..Len(arrived)
    BY <1>3, <1>5, <1>7
  <2> QED
    BY <1>4, <1>5, <1>7, <2>1
<1>8. ASSUME NEW i \in 1..Len(data), i <= Len(sd)
      PROVE  i \in 1..Len(sd) /\ data[i] = sd[i]
  BY <1>3, <1>5, <1>8
<1>9. OfRequests(requests, data)
  <2> SUFFICES ASSUME NEW i \in 1..Len(data)
               PROVE  data[i][1] \in 1..Len(requests)
    BY DEF OfRequests
  <2>1. CASE i <= Len(sd)
    BY <2>1, <1>2, <1>8 DEF OfRequests
  <2>2. CASE ~(i <= Len(sd))
    BY <2>2, <1>2, <1>7 DEF OfRequests
  <2> QED
    BY <2>1, <2>2
<1>10. \A i \in 1..Len(data) : data[i] = IF i <= Len(sd) THEN sd[i] ELSE arrived[i - Len(sd)]
  BY <1>7, <1>8
<1> QED
  BY <1>2, <1>3, <1>5, <1>6, <1>9, <1>10 DEF data, sd, t

\* Where a read leads to.
LEMMA ReadLeads ==
    ASSUME SessionIInv, NEW n \in 1..BufferSize, Read(n)
    PROVE  LET data == session.data \o SubSeq(arrived, 1, n)
               length == ContentLength(data)
               rest == SubSeq(data, HeadLen + 1, Len(data))
           IN  \/ session' = Closed
               \/ /\ ParsedTo(data) # HeadLen /\ ParsedTo(data) \in 0..HeadLen
                  /\ session' = [at |-> "read", data |-> data, nparse |-> ParsedTo(data),
                                 body |-> <<>>, left |-> 0]
               \/ /\ ParsedTo(data) = HeadLen /\ length <= MaxBodySize /\ length > Len(rest)
                  /\ session' = [at |-> "body", data |-> data, nparse |-> HeadLen,
                                 body |-> rest, left |-> length - Len(rest)]
               \/ /\ ParsedTo(data) = HeadLen /\ length <= MaxBodySize /\ ~(length > Len(rest))
                  /\ session' = [at |-> "dispatch", data |-> data, nparse |-> HeadLen,
                                 body |-> SubSeq(rest, 1, length), left |-> 0]
<1> DEFINE data == session.data \o SubSeq(arrived, 1, n)
           length == ContentLength(data)
           rest == SubSeq(data, HeadLen + 1, Len(data))
<1>1. data \in Seq(Unit) /\ OfRequests(requests, data) /\ Len(data) <= BufferSize
  BY ReadFills
<1>2. /\ ParsedTo(data) \in 0..HeadLen /\ (ParsedTo(data) = HeadLen => Len(data) >= HeadLen)
      /\ HeadLen \in Nat
  BY <1>1, HeaderParsed, SessionSizes
<1>3. session' = CASE ParseError(data) -> Closed
                   [] ~ParseError(data) /\ ParsedTo(data) = HeadLen -> Body(data)
                   [] ~ParseError(data) /\ ParsedTo(data) # HeadLen ->
                          IF Len(data) = BufferSize THEN Closed ELSE Local("read", data, ParsedTo(data))
  BY DEF Read
<1>4. ASSUME ParsedTo(data) = HeadLen
      PROVE  length \in Nat /\ Len(rest) = Len(data) - HeadLen /\ Len(rest) \in Nat /\ ~ParseError(data)
  <2>1. HeadLen \in 0..Len(data) /\ Len(data) \in Nat
    BY <1>1, <1>2, <1>4
  <2>2. Len(rest) = Len(data) - HeadLen
    BY <1>1, <2>1, RestOf
  <2>3. length \in Nat
    BY <1>1, <1>2, <1>4, LengthIsSent DEF SessionIInv
  <2>4. ~ParseError(data)
    BY <1>2, <1>4 DEF ParseError
  <2> QED
    BY <1>2, <2>1, <2>2, <2>3, <2>4
<1> HIDE DEF data
<1>5. CASE ParseError(data)
  BY <1>3, <1>5
<1>6. CASE ~ParseError(data) /\ ParsedTo(data) # HeadLen
  <2>1. session' = IF Len(data) = BufferSize THEN Closed ELSE Local("read", data, ParsedTo(data))
    BY <1>3, <1>6
  <2> QED
    BY <1>2, <1>6, <2>1 DEF Local, data
<1>7. CASE ~ParseError(data) /\ ParsedTo(data) = HeadLen
  <2>1. session' = Body(data)
    BY <1>3, <1>7
  <2> DEFINE s == Local("dispatch", data, HeadLen)
  <2>2. s = [at |-> "dispatch", data |-> data, nparse |-> HeadLen, body |-> <<>>, left |-> 0]
    BY DEF Local
  <2>3. length \in Nat /\ MaxBodySize \in Nat /\ Len(rest) \in Nat
    BY <1>4, <1>7, SessionSizes
  <2>4. Body(data) = CASE length > MaxBodySize -> Closed
          [] length <= MaxBodySize /\ length > Len(rest) ->
                 [s EXCEPT !.at = "body", !.body = rest, !.left = length - Len(rest)]
          [] length <= MaxBodySize /\ length <= Len(rest) -> [s EXCEPT !.body = SubSeq(rest, 1, length)]
    BY DEF Body, ToRead
  <2> HIDE DEF s, length, rest
  <2>5. CASE length > MaxBodySize
    <3>1. Body(data) = Closed
      BY <2>3, <2>4, <2>5
    <3> QED
      BY <2>1, <3>1
  <2>6. CASE ~(length > MaxBodySize) /\ length > Len(rest)
    <3>1. length <= MaxBodySize
      BY <2>3, <2>6
    <3>2. Body(data) = [s EXCEPT !.at = "body", !.body = rest, !.left = length - Len(rest)]
      BY <2>3, <2>4, <2>6, <3>1
    <3>3. session' = [at |-> "body", data |-> data, nparse |-> HeadLen, body |-> rest,
                      left |-> length - Len(rest)]
      BY <2>1, <2>2, <3>2
    <3> QED
      BY <1>7, <2>6, <3>1, <3>3 DEF data, length, rest
  <2>7. CASE ~(length > MaxBodySize) /\ ~(length > Len(rest))
    <3>1. length <= MaxBodySize /\ length <= Len(rest)
      BY <2>3, <2>7
    <3>2. Body(data) = [s EXCEPT !.body = SubSeq(rest, 1, length)]
      BY <2>3, <2>4, <2>7, <3>1
    <3>3. session' = [at |-> "dispatch", data |-> data, nparse |-> HeadLen,
                      body |-> SubSeq(rest, 1, length), left |-> 0]
      BY <2>1, <2>2, <3>2
    <3> QED
      BY <1>7, <2>7, <3>1, <3>3 DEF data, length, rest
  <2> QED
    BY <2>5, <2>6, <2>7
<1> QED
  BY <1>5, <1>6, <1>7

\* What a read puts aside.
LEMMA ReadSaves ==
    ASSUME SessionIInv, NEW n \in 1..BufferSize, Read(n)
    PROVE  LET data == session.data \o SubSeq(arrived, 1, n)
               end == HeadLen + ContentLength(data)
           IN  /\ m_left_data' \in Seq(Unit) /\ Len(m_left_data') <= BufferSize
               /\ OfRequests(requests, m_left_data') /\ overread' \in BOOLEAN
               /\ ~overread' => ~overread /\ m_left_data' = <<>>
               /\ overread' /\ ~overread =>
                     ParsedTo(data) = HeadLen /\ Len(data) >= HeadLen /\ Len(data) > end
               /\ ParsedTo(data) = HeadLen /\ ContentLength(data) <= MaxBodySize /\ Len(data) > end =>
                     overread'
<1> DEFINE data == session.data \o SubSeq(arrived, 1, n)
           length == ContentLength(data)
           end == HeadLen + length
<1>1. data \in Seq(Unit) /\ OfRequests(requests, data) /\ Len(data) <= BufferSize
  BY ReadFills
<1>2. /\ (ParsedTo(data) = HeadLen => Len(data) >= HeadLen) /\ HeadLen \in Nat /\ BufferSize \in Nat
      /\ Len(data) \in Nat
  <2>1. ParsedTo(data) = HeadLen => Len(data) >= HeadLen
    BY <1>1, HeaderParsed
  <2> HIDE DEF data
  <2> QED
    BY <1>1, <2>1, SessionSizes
<1>3. /\ m_left_data \in Seq(Unit) /\ Len(m_left_data) <= BufferSize /\ OfRequests(requests, m_left_data)
      /\ overread \in BOOLEAN /\ (~overread => m_left_data = <<>>)
  BY DEF SessionIInv, SessionState, UnitsAreSent, StreamIsFollowed
<1>4. IF ParsedTo(data) = HeadLen /\ Saves(data)
      THEN /\ m_left_data' = SubSeq(data, 1, Len(data) - end)
           /\ overread' = (overread \/ Len(data) > end)
      ELSE UNCHANGED <<m_left_data, overread>>
  BY DEF Read, LeftData
<1>5. Saves(data) <=> length = 0 \/ (length <= MaxBodySize /\ end < Len(data))
  BY DEF Saves
<1>6. ASSUME ParsedTo(data) = HeadLen
      PROVE  length \in Nat /\ end \in Nat
  <2>1. length \in Nat
    BY <1>1, <1>2, <1>6, LengthIsSent DEF SessionIInv
  <2> QED
    BY <1>2, <2>1
<1> HIDE DEF data, length
<1>7. CASE ParsedTo(data) = HeadLen /\ Saves(data)
  <2>1. length \in Nat /\ end \in Nat /\ end <= Len(data) /\ Len(data) - end \in 0..Len(data)
    <3>1. CASE length = 0
      BY <3>1, <1>2, <1>7
    <3>2. CASE length # 0
      BY <3>2, <1>2, <1>5, <1>6, <1>7
    <3> QED
      BY <3>1, <3>2
  <2>2. /\ m_left_data' \in Seq(Unit) /\ Len(m_left_data') = Len(data) - end
        /\ \A i \in 1..(Len(data) - end) : m_left_data'[i] = data[i]
    BY <1>1, <1>4, <1>7, <2>1, FrontOf
  <2>3. OfRequests(requests, m_left_data')
    <3>1. \A i \in 1..(Len(data) - end) : i \in 1..Len(data)
      BY <1>2, <2>1
    <3> QED
      BY <1>1, <2>2, <3>1 DEF OfRequests
  <2>4. overread' = (overread \/ Len(data) > end)
    BY <1>4, <1>7
  <2>5. ASSUME ~overread'
        PROVE  ~overread /\ m_left_data' = <<>>
    <3>1. ~overread /\ ~(Len(data) > end)
      BY <2>4, <2>5, Zenon
    <3> HIDE DEF end
    <3>2. Len(data) - end = 0
      BY ONLY <1>2, <2>1, <3>1
    <3> QED
      BY <2>2, <3>1, <3>2
  <2>6. Len(m_left_data') <= BufferSize
    BY <1>1, <1>2, <2>1, <2>2
  <2>7. overread' \in BOOLEAN
    BY <1>3, <2>4
  <2> QED
    BY <1>2, <1>7, <2>2, <2>3, <2>4, <2>5, <2>6, <2>7 DEF data, length
<1>8. CASE ~(ParsedTo(data) = HeadLen /\ Saves(data))
  <2>1. m_left_data' = m_left_data /\ overread' = overread
    BY <1>4, <1>8
  <2>2. ASSUME ParsedTo(data) = HeadLen, length <= MaxBodySize, Len(data) > end
        PROVE  FALSE
    BY <1>2, <1>5, <1>6, <1>8, <2>2
  <2> QED
    BY <1>3, <2>1, <2>2 DEF data, length
<1> QED
  BY <1>7, <1>8

\* The units that a read adds to the buffer of a session that has lost nothing.
LEMMA ReadGoesOn ==
    ASSUME SessionIInv, NEW n \in 1..BufferSize, Read(n), Following
    PROVE  LET data == session.data \o SubSeq(arrived, 1, n)
               r == Len(served) + 1
               t == SubSeq(arrived, n + 1, Len(arrived))
           IN  /\ r \in 1..Len(requests) /\ SizeIn(requests, r) \in Nat /\ HeadLen <= SizeIn(requests, r)
               /\ \A j \in 1..Len(data) : j <= SizeIn(requests, r) => data[j] = <<r, j>>
               /\ Len(data) < SizeIn(requests, r) => BeginsAt(requests, t, r, Len(data) + 1)
               /\ Len(data) = SizeIn(requests, r) => BeginsAt(requests, t, r + 1, 1)
               /\ r = Len(requests) => Len(data) <= SizeIn(requests, r)
               /\ Len(data) >= HeadLen =>
                     ParsedTo(data) = HeadLen /\ ContentLength(data) = requests[r].len
<1> DEFINE sd == session.data
           data == sd \o SubSeq(arrived, 1, n)
           r == Len(served) + 1
           t == SubSeq(arrived, n + 1, Len(arrived))
           c == Len(sd) + 1
           d == SizeIn(requests, r) - c
<1>1. /\ n \in 1..Len(arrived) /\ Len(sd) \in Nat /\ data \in Seq(Unit) /\ Len(data) = Len(sd) + n
      /\ \A i \in 1..Len(data) : data[i] = IF i <= Len(sd) THEN sd[i] ELSE arrived[i - Len(sd)]
  BY ReadFills
<1>2. /\ Len(sd) < HeadLen /\ \A j \in 1..Len(sd) : sd[j] = <<r, j>>
      /\ BeginsAt(requests, arrived, r, c)
  BY DEF Read, Following
<1> HIDE DEF sd, data
<1>3. /\ r \in 1..Len(requests) /\ c \in 1..SizeIn(requests, r) /\ d \in Nat
      /\ SizeIn(requests, r) \in Nat
      /\ \A i \in 1..(d + 1) : arrived[i] = <<r, c + i - 1>>
      /\ n <= d => BeginsAt(requests, t, r, c + n)
      /\ n = d + 1 => BeginsAt(requests, t, r + 1, 1)
      /\ r = Len(requests) => Len(arrived) = d + 1
  BY <1>1, <1>2, ReadFollows
<1>4. HeadLen <= SizeIn(requests, r)
  BY <1>3, SizeIsNat DEF SessionIInv, SessionState
<1>5. d + 1 = SizeIn(requests, r) - Len(sd) /\ n \in Nat
  BY <1>1, <1>3
<1> HIDE DEF d
<1>6. ASSUME NEW j \in 1..Len(data), j <= SizeIn(requests, r)
      PROVE  data[j] = <<r, j>>
  <2>1. CASE j <= Len(sd)
    BY <2>1, <1>1, <1>2
  <2>2. CASE ~(j <= Len(sd))
    <3>1. j - Len(sd) \in 1..(d + 1) /\ c + (j - Len(sd)) - 1 = j
      <4>1. j \in Nat /\ Len(sd) \in Nat /\ SizeIn(requests, r) \in Nat /\ d \in Nat
            /\ d + 1 = SizeIn(requests, r) - Len(sd) /\ c = Len(sd) + 1
        BY <1>1, <1>3, <1>5
      <4> HIDE DEF c
      <4> QED
        BY ONLY <4>1, <2>2, <1>6
    <3>2. arrived[j - Len(sd)] = <<r, j>>
      BY <1>3, <3>1
    <3> QED
      BY <2>2, <3>2, <1>1
  <2> QED
    BY <2>1, <2>2
<1>7. ASSUME Len(data) < SizeIn(requests, r)
      PROVE  BeginsAt(requests, t, r, Len(data) + 1)
  <2>1. n <= d /\ c + n = Len(data) + 1
    BY <1>1, <1>3, <1>5, <1>7
  <2> QED
    BY <1>3, <2>1
<1>8. ASSUME Len(data) = SizeIn(requests, r)
      PROVE  BeginsAt(requests, t, r + 1, 1)
  <2>1. n = d + 1
    BY <1>1, <1>3, <1>5, <1>8
  <2> QED
    BY <1>3, <2>1
<1>9. ASSUME r = Len(requests)
      PROVE  Len(data) <= SizeIn(requests, r)
  BY <1>1, <1>3, <1>5, <1>9
<1>10. ASSUME Len(data) >= HeadLen
       PROVE  ParsedTo(data) = HeadLen /\ ContentLength(data) = requests[r].len
  <2>1. HeadLen \in Nat \ {0} /\ \A j \in 1..HeadLen : j \in 1..Len(data) /\ j <= SizeIn(requests, r)
    <3>1. HeadLen \in Nat \ {0} /\ Len(data) \in Nat /\ SizeIn(requests, r) \in Nat
      BY <1>1, <1>3, SessionSizes
    <3> QED
      BY ONLY <3>1, <1>4, <1>10
  <2>2. \A j \in 1..HeadLen : data[j] = <<r, j>>
    BY <1>6, <2>1
  <2>5. \A j \in 1..HeadLen : data[j][2] = j
    BY <2>2
  <2>3. ParsedTo(data) = HeadLen
    BY <1>1, <1>10, <2>5, HeaderParsed
  <2>4. data[HeadLen] = <<r, HeadLen>>
    BY <2>1, <2>2
  <2> QED
    BY <2>3, <2>4 DEF ContentLength
<1> QED
  BY <1>3, <1>4, <1>6, <1>7, <1>8, <1>9, <1>10 DEF data, sd

LEMMA ReadKeeps ==
    ASSUME SessionIInv, NEW n \in 1..BufferSize, Read(n)
    PROVE  SessionIInv'
<1> DEFINE data == session.data \o SubSeq(arrived, 1, n)
           length == ContentLength(data)
           rest == SubSeq(data, HeadLen + 1, Len(data))
           r == Len(served) + 1
           u == SubSeq(arrived, n + 1, Len(arrived))
<1>1. /\ session.at = "read" /\ arrived' = u
      /\ UNCHANGED <<requests, gone, m_isKeepalive, served, answered, ahead, ioError>>
  BY DEF Read
<1>2. SessionState
  BY DEF SessionIInv
<1>3. /\ n \in 1..Len(arrived) /\ data \in Seq(Unit) /\ Len(data) <= BufferSize
      /\ OfRequests(requests, data)
  BY ReadFills
<1>4. u \in Seq(Unit) /\ OfRequests(requests, u) /\ WholeRequests(requests, u)
  BY <1>3, ReadTakes
<1>5. \/ session' = Closed
      \/ /\ ParsedTo(data) # HeadLen /\ ParsedTo(data) \in 0..HeadLen
         /\ session' = [at |-> "read", data |-> data, nparse |-> ParsedTo(data),
                        body |-> <<>>, left |-> 0]
      \/ /\ ParsedTo(data) = HeadLen /\ length <= MaxBodySize /\ length > Len(rest)
         /\ session' = [at |-> "body", data |-> data, nparse |-> HeadLen,
                        body |-> rest, left |-> length - Len(rest)]
      \/ /\ ParsedTo(data) = HeadLen /\ length <= MaxBodySize /\ ~(length > Len(rest))
         /\ session' = [at |-> "dispatch", data |-> data, nparse |-> HeadLen,
                        body |-> SubSeq(rest, 1, length), left |-> 0]
  BY ReadLeads
<1>6. /\ m_left_data' \in Seq(Unit) /\ Len(m_left_data') <= BufferSize
      /\ OfRequests(requests, m_left_data') /\ overread' \in BOOLEAN
      /\ ~overread' => ~overread /\ m_left_data' = <<>>
      /\ overread' /\ ~overread =>
            ParsedTo(data) = HeadLen /\ Len(data) >= HeadLen /\ Len(data) > HeadLen + length
      /\ ParsedTo(data) = HeadLen /\ length <= MaxBodySize /\ Len(data) > HeadLen + length => overread'
  BY ReadSaves
<1>7. ASSUME Following
      PROVE  /\ r \in 1..Len(requests) /\ SizeIn(requests, r) \in Nat /\ HeadLen <= SizeIn(requests, r)
             /\ \A j \in 1..Len(data) : j <= SizeIn(requests, r) => data[j] = <<r, j>>
             /\ Len(data) < SizeIn(requests, r) => BeginsAt(requests, u, r, Len(data) + 1)
             /\ Len(data) = SizeIn(requests, r) => BeginsAt(requests, u, r + 1, 1)
             /\ r = Len(requests) => Len(data) <= SizeIn(requests, r)
             /\ Len(data) >= HeadLen => ParsedTo(data) = HeadLen /\ length = requests[r].len
  BY <1>7, ReadGoesOn
<1>8. ParsedTo(data) = HeadLen => Len(data) >= HeadLen
  BY <1>3, HeaderParsed
<1> HIDE DEF data
<1>9. Len(data) \in Nat /\ HeadLen \in Nat \ {0} /\ MaxBodySize \in Nat /\ 0 \in 0..HeadLen
      /\ HeadLen \in 0..HeadLen
  BY <1>3, SessionSizes
<1>10. ASSUME ParsedTo(data) = HeadLen
       PROVE  /\ length \in Nat /\ rest \in Seq(Unit) /\ Len(rest) = Len(data) - HeadLen
              /\ Len(rest) \in Nat /\ \A i \in 1..Len(rest) : rest[i] = data[HeadLen + i]
  <2>1. HeadLen \in 0..Len(data)
    BY <1>8, <1>9, <1>10
  <2>2. /\ rest \in Seq(Unit) /\ Len(rest) = Len(data) - HeadLen
        /\ \A i \in 1..(Len(data) - HeadLen) : rest[i] = data[HeadLen + i]
    BY <1>3, <2>1, RestOf
  <2>3. length \in Nat
    BY <1>2, <1>3, <1>8, <1>10, LengthIsSent
  <2>4. Len(data) - HeadLen \in Nat
    BY <1>9, <2>1
  <2> QED
    BY <2>2, <2>3, <2>4
<1>11. ASSUME ParsedTo(data) = HeadLen, ~(length > Len(rest))
       PROVE  /\ SubSeq(rest, 1, length) \in Seq(Unit) /\ Len(SubSeq(rest, 1, length)) = length
              /\ \A i \in 1..length : SubSeq(rest, 1, length)[i] = data[HeadLen + i]
  <2>1. length \in 0..Len(rest)
    BY <1>10, <1>11
  <2>2. /\ SubSeq(rest, 1, length) \in Seq(Unit) /\ Len(SubSeq(rest, 1, length)) = length
        /\ \A i \in 1..length : SubSeq(rest, 1, length)[i] = rest[i]
    BY <1>10, <1>11, <2>1, FrontOf
  <2>3. \A i \in 1..length : i \in 1..Len(rest)
    BY <1>10, <1>11, <2>1
  <2> QED
    BY <1>10, <1>11, <2>2, <2>3
<1> HIDE DEF rest, length
\* What the new locals are, whichever way the read led.
<1>12. /\ session' \in [at : Stages, data : Seq(Unit), nparse : 0..HeadLen, body : Seq(Unit), left : Nat]
       /\ session'.at \in {"closed", "read", "body", "dispatch"}
       /\ session'.data \in {<<>>, data}
       /\ session'.at # "body" => session'.left = 0
  <2>0. {"closed", "read", "body", "dispatch"} \subseteq Stages /\ <<>> \in Seq(Unit)
    BY DEF Stages
  <2>1. CASE session' = Closed
    BY <2>0, <2>1, <1>9 DEF Closed, Local
  <2>2. CASE /\ ParsedTo(data) # HeadLen /\ ParsedTo(data) \in 0..HeadLen
             /\ session' = [at |-> "read", data |-> data, nparse |-> ParsedTo(data),
                            body |-> <<>>, left |-> 0]
    BY <2>0, <2>2, <1>3
  <2>3. CASE /\ ParsedTo(data) = HeadLen /\ length <= MaxBodySize /\ length > Len(rest)
             /\ session' = [at |-> "body", data |-> data, nparse |-> HeadLen,
                            body |-> rest, left |-> length - Len(rest)]
    <3>1. length - Len(rest) \in Nat
      BY <2>3, <1>10
    <3> QED
      BY <2>0, <2>3, <3>1, <1>3, <1>9, <1>10
  <2>4. CASE /\ ParsedTo(data) = HeadLen /\ length <= MaxBodySize /\ ~(length > Len(rest))
             /\ session' = [at |-> "dispatch", data |-> data, nparse |-> HeadLen,
                            body |-> SubSeq(rest, 1, length), left |-> 0]
    BY <2>0, <2>4, <1>3, <1>9, <1>11
  <2> QED
    BY <1>5, <2>1, <2>2, <2>3, <2>4
<1>13. SessionState'
  BY <1>1, <1>2, <1>4, <1>6, <1>12 DEF SessionState
<1>14. Len(session'.data) <= BufferSize /\ OfRequests(requests, session'.data)
  <2>1. Len(<<>>) <= BufferSize /\ OfRequests(requests, <<>>)
    BY SessionSizes DEF OfRequests
  <2> QED
    BY <1>3, <1>12, <2>1
<1>15. UnitsAreSent'
  BY <1>1, <1>4, <1>6, <1>14 DEF SessionIInv, UnitsAreSent
<1>17. HeadIsRead'
  <2>1. CASE session' = Closed
    BY <2>1, <1>1 DEF HeadIsRead, Closed, Local
  <2>2. CASE /\ ParsedTo(data) # HeadLen /\ ParsedTo(data) \in 0..HeadLen
             /\ session' = [at |-> "read", data |-> data, nparse |-> ParsedTo(data),
                            body |-> <<>>, left |-> 0]
    BY <2>2, <1>1 DEF HeadIsRead
  <2>3. CASE /\ ParsedTo(data) = HeadLen /\ length <= MaxBodySize /\ length > Len(rest)
             /\ session' = [at |-> "body", data |-> data, nparse |-> HeadLen,
                            body |-> rest, left |-> length - Len(rest)]
    <3>1. /\ session'.at = "body" /\ session'.data = data /\ session'.left = length - Len(rest)
          /\ session'.body = rest
      BY <2>3
    <3>2. ContentLength(session.data)' = length
      BY <3>1, <1>1 DEF ContentLength, length
    <3>3. /\ length - Len(rest) > 0 /\ Len(rest) + (length - Len(rest)) = length
          /\ length - Len(rest) <= MaxBodySize /\ length - Len(rest) <= MaxBodySize + 1
          /\ length <= MaxBodySize /\ length >= length
      <4>1. /\ length \in Nat /\ Len(rest) \in Nat /\ MaxBodySize \in Nat
            /\ length <= MaxBodySize /\ length > Len(rest)
        BY <2>3, <1>9, <1>10
      <4> QED
        BY ONLY <4>1
    <3> QED
      BY <2>3, <3>1, <3>2, <3>3, <1>1, <1>8 DEF HeadIsRead
  <2>4. CASE /\ ParsedTo(data) = HeadLen /\ length <= MaxBodySize /\ ~(length > Len(rest))
             /\ session' = [at |-> "dispatch", data |-> data, nparse |-> HeadLen,
                            body |-> SubSeq(rest, 1, length), left |-> 0]
    <3>1. /\ session'.at = "dispatch" /\ session'.data = data /\ session'.left = 0
          /\ session'.body = SubSeq(rest, 1, length)
      BY <2>4
    <3>2. ContentLength(session.data)' = length
      BY <3>1, <1>1 DEF ContentLength, length
    <3>3. Len(session'.body) = length /\ length >= length
      BY <2>4, <3>1, <1>10, <1>11
    <3> QED
      BY <2>4, <3>1, <3>2, <3>3, <1>1, <1>8 DEF HeadIsRead
  <2> QED
    BY <1>5, <2>1, <2>2, <2>3, <2>4
<1>18. Answers' /\ LastIsAnswered'
  BY <1>1, <1>12 DEF SessionIInv, Answers, LastIsAnswered
<1>19. ClosedAfterLast'
  <2>1. \A i \in DOMAIN served : ~(requests[served[i].head[HeadLen][1]].close \/ ~m_isKeepalive)
    BY <1>1 DEF SessionIInv, ClosedAfterLast
  <2> QED
    BY <1>1, <2>1 DEF ClosedAfterLast
<1>20. ASSUME Following, ~overread'
       PROVE  Following'
  <2>1. CASE session' = Closed
    BY <2>1, <1>1 DEF Following, Closed, Local
  <2>2. CASE /\ ParsedTo(data) # HeadLen /\ ParsedTo(data) \in 0..HeadLen
             /\ session' = [at |-> "read", data |-> data, nparse |-> ParsedTo(data),
                            body |-> <<>>, left |-> 0]
    <3>1. Len(data) < HeadLen /\ Len(data) < SizeIn(requests, r)
      BY <2>2, <1>7, <1>9, <1>20
    <3>2. \A j \in 1..Len(data) : data[j] = <<r, j>>
      BY <3>1, <1>7, <1>9, <1>20
    <3>3. BeginsAt(requests, u, r, Len(data) + 1)
      BY <3>1, <1>7, <1>20
    <3>4. session'.at = "read" /\ session'.data = data
      BY <2>2
    <3> QED
      BY <3>1, <3>2, <3>3, <3>4, <1>1 DEF Following
  <2>3. CASE /\ ParsedTo(data) = HeadLen /\ length <= MaxBodySize /\ length > Len(rest)
             /\ session' = [at |-> "body", data |-> data, nparse |-> HeadLen,
                            body |-> rest, left |-> length - Len(rest)]
    <3>1. SizeIn(requests, r) = HeadLen + length
      BY <2>3, <1>7, <1>8, <1>20 DEF SizeIn
    <3>2. Len(data) < SizeIn(requests, r) /\ Len(data) + 1 = HeadLen + Len(rest) + 1
      BY <2>3, <3>1, <1>9, <1>10
    <3>3. BeginsAt(requests, u, r, HeadLen + Len(rest) + 1)
      BY <3>2, <1>7, <1>20
    <3>4. ASSUME NEW j \in 1..HeadLen
          PROVE  data[j] = <<r, j>>
      <4>1. j \in 1..Len(data) /\ j <= SizeIn(requests, r)
        BY <2>3, <1>7, <1>8, <1>9, <1>20
      <4> QED
        BY <4>1, <1>7, <1>20
    <3>5. ASSUME NEW j \in 1..Len(rest)
          PROVE  rest[j] = <<r, HeadLen + j>>
      <4>1. HeadLen + j \in 1..Len(data) /\ HeadLen + j <= SizeIn(requests, r)
        <5>1. /\ HeadLen \in Nat /\ Len(data) \in Nat /\ Len(rest) \in Nat
              /\ Len(rest) = Len(data) - HeadLen /\ SizeIn(requests, r) \in Nat
          BY <2>3, <1>7, <1>9, <1>10, <1>20
        <5> QED
          BY ONLY <5>1, <3>2, j \in 1..Len(rest)
      <4>2. data[HeadLen + j] = <<r, HeadLen + j>>
        BY <4>1, <1>7, <1>20
      <4> QED
        BY <4>2, <2>3, <1>10
    <3>6. session'.at = "body" /\ session'.data = data /\ session'.body = rest
      BY <2>3
    <3> QED
      BY <3>3, <3>4, <3>5, <3>6, <1>1, <1>7, <1>20 DEF Following
  <2>4. CASE /\ ParsedTo(data) = HeadLen /\ length <= MaxBodySize /\ ~(length > Len(rest))
             /\ session' = [at |-> "dispatch", data |-> data, nparse |-> HeadLen,
                            body |-> SubSeq(rest, 1, length), left |-> 0]
    <3>1. SizeIn(requests, r) = HeadLen + length
      BY <2>4, <1>7, <1>8, <1>20 DEF SizeIn
    <3>2. ~(Len(data) > HeadLen + length)
      BY <2>4, <1>6, <1>20
    <3>3. Len(data) = SizeIn(requests, r)
      BY <2>4, <3>1, <3>2, <1>9, <1>10
    <3>4. ASSUME NEW j \in 1..HeadLen
          PROVE  data[j] = <<r, j>>
      <4>1. j \in 1..Len(data) /\ j <= SizeIn(requests, r)
        BY <2>4, <1>7, <1>8, <1>9, <1>20
      <4> QED
        BY <4>1, <1>7, <1>20
    <3>5. ASSUME NEW j \in 1..length
          PROVE  SubSeq(rest, 1, length)[j] = <<r, HeadLen + j>>
      <4>1. HeadLen + j \in 1..Len(data) /\ HeadLen + j <= SizeIn(requests, r)
        BY <2>4, <3>1, <3>3, <1>9, <1>10
      <4>2. data[HeadLen + j] = <<r, HeadLen + j>>
        BY <4>1, <1>7, <1>20
      <4> QED
        BY <4>2, <2>4, <1>11
    <3>6. /\ session'.at = "dispatch" /\ session'.data = data /\ session'.body = SubSeq(rest, 1, length)
          /\ Len(session'.body) = length
      BY <2>4, <1>11
    <3>7. BeginsAt(requests, u, r + 1, 1)
      BY <3>3, <1>7, <1>20
    <3> QED
      BY <3>4, <3>5, <3>6, <3>7, <1>1, <1>7, <1>20 DEF Following
  <2> QED
    BY <1>5, <2>1, <2>2, <2>3, <2>4
<1>21. StreamIsFollowed'
  <2>1. ASSUME ~overread', ~ioError'
        PROVE  Following' /\ \A i \in DOMAIN served : AsSent(i)
    BY <2>1, <1>1, <1>6, <1>20 DEF SessionIInv, StreamIsFollowed
  <2>2. \A i \in DOMAIN served : AsSent(i) => AsSent(i)'
    BY <1>1 DEF AsSent
  <2>3. DOMAIN served' = DOMAIN served
    BY <1>1
  <2> QED
    BY <2>1, <2>2, <2>3, <1>1, <1>4, <1>6 DEF StreamIsFollowed
<1>22. InTurn'
  <2> SUFFICES ASSUME ~ahead
               PROVE  ~overread' /\ Len(requests') <= answered' + 1 /\ (ioError' => Starved')
    BY <1>1 DEF InTurn
  <2>1. ~overread /\ Len(requests) <= answered + 1 /\ ~ioError
    BY <1>1 DEF SessionIInv, InTurn, Starved
  <2>2. Following
    BY <2>1 DEF SessionIInv, StreamIsFollowed
  <2>3. r = answered + 1 /\ answered \in Nat
    BY <1>1, <1>2 DEF SessionIInv, Answers, SessionState
  <2>4. Len(requests) \in Nat
    BY <1>2 DEF SessionState, RequestSeq
  <2>5. r = Len(requests)
    BY <1>7, <2>1, <2>2, <2>3, <2>4
  <2>6. ASSUME overread'
        PROVE  FALSE
    <3>1. Len(data) >= HeadLen /\ Len(data) > HeadLen + length
      BY <1>6, <2>1, <2>6
    <3>2. SizeIn(requests, r) = HeadLen + length /\ Len(data) <= SizeIn(requests, r)
      BY <3>1, <1>7, <2>2, <2>5 DEF SizeIn
    <3> QED
      BY <3>1, <3>2, <1>7, <1>9, <2>2
  <2> QED
    BY <1>1, <2>1, <2>6
<1> QED
  BY <1>6, <1>13, <1>14, <1>15, <1>17, <1>18, <1>19, <1>21, <1>22 DEF SessionIInv

\* read() fails inside the body: a byte more is wanted than the request has.
LEMMA ReadBodyFailsKeeps ==
    ASSUME SessionIInv, ReadBodyFails
    PROVE  SessionIInv'
<1> DEFINE b == session.body
           c == IF b = <<>> THEN b ELSE Front(b)
           r == Len(served) + 1
<1>1. /\ session.at = "body" /\ ~ioError /\ ioError'
      /\ session' = [session EXCEPT !.body = c, !.left = @ + 1]
      /\ ioError' = TRUE
      /\ UNCHANGED <<requests, arrived, gone, m_isKeepalive, m_left_data, served, answered, ahead, overread>>
  BY DEF ReadBodyFails
<1>2. SessionState
  BY DEF SessionIInv
<1>3. b \in Seq(Unit) /\ Len(b) \in Nat /\ session.left \in Nat
  BY <1>2 DEF SessionState
<1> HIDE DEF b
<1>4. c \in Seq(Unit) /\ Len(c) \in Nat /\ Len(c) + 1 >= Len(b)
  <2>1. CASE b = <<>>
    BY <2>1, <1>3
  <2>2. CASE b # <<>>
    <3>1. Len(b) > 0 /\ Len(b) - 1 \in 0..Len(b)
      BY <2>2, <1>3
    <3>2. SubSeq(b, 1, Len(b) - 1) \in Seq(Unit) /\ Len(SubSeq(b, 1, Len(b) - 1)) = Len(b) - 1
      BY <1>3, <3>1, FrontOf
    <3> QED
      BY <2>2, <3>1, <3>2, <1>3 DEF Front
  <2> QED
    BY <2>1, <2>2
<1> HIDE DEF c
<1>5. /\ session'.at = "body" /\ session'.data = session.data /\ session'.nparse = session.nparse
      /\ session'.body = c /\ session'.left = session.left + 1
  BY <1>1, <1>2 DEF SessionState
<1>6. SessionState'
  <2>1. session.left + 1 \in Nat /\ TRUE \in BOOLEAN
    BY <1>3
  <2>2. session' \in [at : Stages, data : Seq(Unit), nparse : 0..HeadLen, body : Seq(Unit), left : Nat]
    BY <1>1, <1>2, <1>4, <2>1 DEF SessionState
  <2> QED
    BY <1>1, <1>2, <2>1, <2>2 DEF SessionState
<1>7. UnitsAreSent'
  BY <1>1, <1>5 DEF SessionIInv, UnitsAreSent
<1>8. /\ Len(session.data) >= HeadLen /\ ContentLength(session.data) <= MaxBodySize
      /\ session.left > 0 /\ Len(b) + session.left = ContentLength(session.data)
      /\ session.left <= MaxBodySize
  BY <1>1 DEF SessionIInv, HeadIsRead, b
<1>9. ContentLength(session.data)' = ContentLength(session.data) /\ ContentLength(session.data) \in Nat
  BY <1>1, <1>2, <1>5, <1>8, LengthIsSent DEF ContentLength, SessionState, SessionIInv, UnitsAreSent
<1>10. HeadIsRead'
  <2>1. /\ session.left + 1 > 0 /\ Len(c) + (session.left + 1) >= ContentLength(session.data)
        /\ session.left + 1 <= MaxBodySize + 1
    BY <1>3, <1>4, <1>8, <1>9, SessionSizes
  <2> QED
    BY <1>1, <1>5, <1>8, <1>9, <2>1 DEF HeadIsRead
<1>11. Answers' /\ LastIsAnswered' /\ ClosedAfterLast'
  BY <1>1, <1>5 DEF SessionIInv, Answers, LastIsAnswered, ClosedAfterLast
<1>12. StreamIsFollowed'
  BY <1>1 DEF SessionIInv, StreamIsFollowed
<1>13. InTurn'
  <2> SUFFICES ASSUME ~ahead
               PROVE  ~overread' /\ Len(requests') <= answered' + 1 /\ (ioError' => Starved')
    BY <1>1 DEF InTurn
  <2>1. ~overread /\ Len(requests) <= answered + 1
    BY DEF SessionIInv, InTurn
  <2>2. Following
    BY <1>1, <2>1 DEF SessionIInv, StreamIsFollowed
  <2>3. /\ r \in 1..Len(requests) /\ \A j \in 1..HeadLen : session.data[j] = <<r, j>>
        /\ BeginsAt(requests, arrived, r, HeadLen + Len(b) + 1)
    BY <1>1, <2>2 DEF Following, b
  <2>4. r = answered + 1 /\ answered \in Nat /\ Len(requests) \in Nat /\ Len(arrived) \in Nat
    BY <1>1, <1>2 DEF SessionIInv, Answers, SessionState, RequestSeq
  <2>5. r = Len(requests)
    BY <2>1, <2>3, <2>4
  <2>6. Len(arrived) < session.left + 1
    <3>1. CASE Len(arrived) = 0
      BY <3>1, <1>3
    <3>2. CASE Len(arrived) # 0
      <4>1. 1 \in 1..Len(arrived)
        BY <3>2, <2>4
      <4>2. Len(arrived) = SizeIn(requests, r) - (HeadLen + Len(b) + 1) + 1
        BY <4>1, <2>3, <2>5, ReadFollows
      <4>3. SizeIn(requests, r) = HeadLen + ContentLength(session.data)
        <5>1. session.data[HeadLen] = <<r, HeadLen>>
          BY <2>3, SessionSizes
        <5> QED
          BY <5>1 DEF ContentLength, SizeIn
      <4> QED
        BY <4>2, <4>3, <1>3, <1>8, <1>9, SessionSizes
    <3> QED
      BY <3>1, <3>2
  <2> QED
    BY <1>1, <1>5, <2>1, <2>4, <2>5, <2>6 DEF Starved
<1> QED
  BY <1>1, <1>5, <1>6, <1>7, <1>10, <1>11, <1>12, <1>13 DEF SessionIInv

\* What is dispatched: the header in the buffer, and the last units of the body.
LEMMA DispatchGives ==
    ASSUME SessionIInv, session.at = "dispatch"
    PROVE  LET over == Len(session.body) - ContentLength(session.data)
               head == SubSeq(session.data, 1, HeadLen)
               body == SubSeq(session.body, over + 1, Len(session.body))
               r == Len(served) + 1
           IN  /\ head \in Seq(Unit) /\ Len(head) = HeadLen /\ head[HeadLen] = session.data[HeadLen]
               /\ head[HeadLen][1] \in 1..Len(requests) /\ body \in Seq(Unit)
               /\ Following /\ ~ioError =>
                     r \in DOMAIN requests /\ head \o body = Units(r, requests[r].len)
<1> DEFINE d == session.data
           b == session.body
           length == ContentLength(d)
           over == Len(b) - length
           head == SubSeq(d, 1, HeadLen)
           body == SubSeq(b, over + 1, Len(b))
           r == Len(served) + 1
<1>1. /\ d \in Seq(Unit) /\ b \in Seq(Unit) /\ Len(d) >= HeadLen /\ Len(b) >= length
      /\ (~ioError => Len(b) = length) /\ OfRequests(requests, d) /\ SessionState
  BY DEF SessionIInv, SessionState, HeadIsRead, UnitsAreSent
<1>2. d[HeadLen][1] \in 1..Len(requests) /\ length \in Nat
  BY <1>1, LengthIsSent
<1> HIDE DEF d, b, length
<1>3. HeadLen \in Nat \ {0} /\ HeadLen \in 0..Len(d) /\ Len(b) \in Nat /\ over \in 0..Len(b)
      /\ HeadLen \in 1..HeadLen
  BY <1>1, <1>2, SessionSizes
<1>4. head \in Seq(Unit) /\ Len(head) = HeadLen /\ \A i \in 1..HeadLen : head[i] = d[i]
  BY <1>1, <1>3, FrontOf
<1>5. /\ body \in Seq(Unit) /\ Len(body) = Len(b) - over
      /\ \A i \in 1..(Len(b) - over) : body[i] = b[over + i]
  BY <1>1, <1>3, RestOf
<1> HIDE DEF head, body
<1>6. ASSUME Following, ~ioError
      PROVE  r \in DOMAIN requests /\ head \o body = Units(r, requests[r].len)
  <2>1. /\ r \in 1..Len(requests) /\ \A j \in 1..HeadLen : d[j] = <<r, j>>
        /\ \A j \in 1..Len(b) : b[j] = <<r, HeadLen + j>>
    BY <1>6 DEF Following, d, b
  <2>2. length = requests[r].len
    <3>1. d[HeadLen] = <<r, HeadLen>>
      BY <1>3, <2>1
    <3> QED
      BY <3>1 DEF length, ContentLength
  <2>3. over = 0 /\ Len(b) = length
    BY <1>1, <1>2, <1>6
  <2>4. Len(body) = length /\ \A i \in 1..length : body[i] = <<r, HeadLen + i>>
    <3>1. \A i \in 1..length : over + i = i
      BY <2>3
    <3>2. Len(b) - over = length
      BY <1>2, <2>3
    <3> QED
      BY <1>5, <2>1, <2>3, <3>1, <3>2
  <2> DEFINE s == head \o body
             t == Units(r, requests[r].len)
  <2>5. /\ s \in Seq(Unit) /\ Len(s) = HeadLen + length
        /\ \A i \in 1..(HeadLen + length) : s[i] = IF i <= HeadLen THEN head[i] ELSE body[i - HeadLen]
    <3>1. /\ s \in Seq(Unit) /\ Len(s) = Len(head) + Len(body)
          /\ \A i \in 1..(Len(head) + Len(body)) :
                 s[i] = IF i <= Len(head) THEN head[i] ELSE body[i - Len(head)]
      BY <1>4, <1>5, ConcatProperties
    <3> HIDE DEF s
    <3> QED
      BY <1>4, <2>4, <3>1
  <2>6. t = [k \in 1..(HeadLen + length) |-> <<r, k>>]
    BY <2>2 DEF Units
  <2>7. s = [k \in 1..(HeadLen + length) |-> s[k]]
    <3> HIDE DEF s
    <3> QED
      BY <2>5
  <2> HIDE DEF s, t
  <2>8. ASSUME NEW k \in 1..(HeadLen + length)
        PROVE  s[k] = <<r, k>>
    <3>1. CASE k <= HeadLen
      <4>1. k \in 1..HeadLen
        BY <3>1, <1>3
      <4> QED
        BY <3>1, <4>1, <1>4, <2>1, <2>5
    <3>2. CASE ~(k <= HeadLen)
      <4>1. k - HeadLen \in 1..length /\ HeadLen + (k - HeadLen) = k
        BY <3>2, <1>2, <1>3
      <4> QED
        BY <3>2, <4>1, <2>4, <2>5
    <3> QED
      BY <3>1, <3>2
  <2>9. s = t
    BY <2>6, <2>7, <2>8
  <2> QED
    <3>1. DOMAIN requests = 1..Len(requests)
      BY <1>1 DEF SessionState, RequestSeq
    <3> QED
      BY <2>1, <2>9, <3>1 DEF s, t
<1> QED
  BY <1>2, <1>3, <1>4, <1>5, <1>6 DEF head, body, d, b, length

LEMMA DispatchKeeps ==
    ASSUME SessionIInv, Dispatch
    PROVE  SessionIInv'
<1> DEFINE over == Len(session.body) - ContentLength(session.data)
           head == SubSeq(session.data, 1, HeadLen)
           body == SubSeq(session.body, over + 1, Len(session.body))
           new == [head |-> head, body |-> body]
           r == Len(served) + 1
<1>1. /\ session.at = "dispatch" /\ served' = Append(served, new)
      /\ session' = [session EXCEPT !.at = "answer"]
      /\ UNCHANGED <<requests, arrived, gone, m_isKeepalive, m_left_data, answered, ahead, overread, ioError>>
  BY DEF Dispatch
<1>2. SessionState
  BY DEF SessionIInv
<1>3. /\ head \in Seq(Unit) /\ Len(head) = HeadLen /\ head[HeadLen] = session.data[HeadLen]
      /\ head[HeadLen][1] \in 1..Len(requests) /\ body \in Seq(Unit)
      /\ Following /\ ~ioError => r \in DOMAIN requests /\ head \o body = Units(r, requests[r].len)
  BY <1>1, DispatchGives
<1> HIDE DEF head, body
<1>4. new \in [head : Seq(Unit), body : Seq(Unit)] /\ new.head = head /\ new.body = body
  BY <1>3
<1> HIDE DEF new
<1>5. /\ served' \in Seq([head : Seq(Unit), body : Seq(Unit)]) /\ Len(served') = r /\ served'[r] = new
      /\ Len(served) \in Nat /\ DOMAIN served = 1..Len(served) /\ DOMAIN served' = 1..r
      /\ \A i \in 1..Len(served) : served'[i] = served[i]
  BY <1>1, <1>2, <1>4 DEF SessionState
<1>6. /\ session'.at = "answer" /\ session'.data = session.data /\ session'.nparse = session.nparse
      /\ session'.body = session.body /\ session'.left = session.left
  BY <1>1, <1>2 DEF SessionState
<1>7. SessionState'
  <2>1. "answer" \in Stages
    BY DEF Stages
  <2>2. session' \in [at : Stages, data : Seq(Unit), nparse : 0..HeadLen, body : Seq(Unit), left : Nat]
    BY <1>1, <1>2, <2>1 DEF SessionState
  <2> QED
    BY <1>1, <1>2, <1>5, <2>2 DEF SessionState
<1>8. \A i \in DOMAIN served' : (i \in DOMAIN served /\ served'[i] = served[i]) \/ (i = r /\ served'[i] = new)
  BY <1>5
<1>9. UnitsAreSent'
  BY <1>1, <1>3, <1>4, <1>6, <1>8 DEF SessionIInv, UnitsAreSent
<1>10. HeadIsRead'
  BY <1>1, <1>6 DEF SessionIInv, HeadIsRead, ContentLength
<1>11. Answers'
  <2>1. answered \in Nat /\ Len(served) = answered
    BY <1>1, <1>2 DEF SessionIInv, Answers, SessionState
  <2>2. Len(served') = answered + 1 /\ answered' = answered
    BY <1>1, <1>5, <2>1
  <2> QED
    BY <1>6, <2>2 DEF Answers
<1>12. LastIsAnswered'
  BY <1>3, <1>4, <1>5, <1>6 DEF LastIsAnswered
<1>13. ClosedAfterLast'
  <2>1. \A i \in DOMAIN served : ~(requests[served[i].head[HeadLen][1]].close \/ ~m_isKeepalive)
    BY <1>1 DEF SessionIInv, ClosedAfterLast
  <2> QED
    BY <1>1, <1>5, <1>6, <1>8, <2>1 DEF ClosedAfterLast
<1>14. StreamIsFollowed'
  <2>1. ASSUME ~overread, ~ioError
        PROVE  Following' /\ \A i \in DOMAIN served' : AsSent(i)'
    <3>1. Following /\ \A i \in DOMAIN served : AsSent(i)
      BY <2>1 DEF SessionIInv, StreamIsFollowed
    <3>2. BeginsAt(requests, arrived, r + 1, 1)
      BY <3>1, <1>1 DEF Following
    <3>3. Following'
      BY <3>2, <1>1, <1>5, <1>6 DEF Following
    <3>4. ASSUME NEW i \in DOMAIN served'
          PROVE  AsSent(i)'
      <4>1. CASE i \in DOMAIN served /\ served'[i] = served[i]
        BY <4>1, <3>1, <1>1 DEF AsSent
      <4>2. CASE i = r /\ served'[i] = new
        BY <4>2, <3>1, <2>1, <1>1, <1>3, <1>4 DEF AsSent
      <4> QED
        BY <4>1, <4>2, <1>8
    <3> QED
      BY <3>3, <3>4
  <2> QED
    BY <2>1, <1>1 DEF SessionIInv, StreamIsFollowed
<1>15. InTurn'
  BY <1>1 DEF SessionIInv, InTurn, Starved
<1> QED
  BY <1>1, <1>6, <1>7, <1>9, <1>10, <1>11, <1>12, <1>13, <1>14, <1>15 DEF SessionIInv

LEMMA SendResponseKeeps ==
    ASSUME SessionIInv, SendResponse
    PROVE  SessionIInv'
<1> DEFINE next == IF Again(session.data) THEN "begin" ELSE "closed"
<1>1. /\ session.at = "answer" /\ answered' = answered + 1
      /\ session' = [at |-> next, data |-> <<>>, nparse |-> 0, body |-> <<>>, left |-> 0]
      /\ UNCHANGED <<requests, arrived, gone, m_isKeepalive, m_left_data, served, ahead, overread, ioError>>
  BY DEF SendResponse, Closed, Local
<1>2. SessionState
  BY DEF SessionIInv
<1>3. next \in {"begin", "closed"} /\ (next = "begin" => Again(session.data))
  OBVIOUS
<1> HIDE DEF next
<1>4. SessionState'
  <2>1. 0 \in 0..HeadLen /\ {"begin", "closed"} \subseteq Stages /\ <<>> \in Seq(Unit)
    BY SessionSizes DEF Stages
  <2> QED
    BY <1>1, <1>2, <1>3, <2>1 DEF SessionState
<1>5. UnitsAreSent'
  BY <1>1 DEF SessionIInv, UnitsAreSent, OfRequests
<1>6. HeadIsRead' /\ LastIsAnswered'
  BY <1>1, <1>3 DEF HeadIsRead, LastIsAnswered
<1>7. Answers'
  BY <1>1, <1>2, <1>3 DEF SessionIInv, Answers, SessionState
<1>8. ClosedAfterLast'
  <2>1. ASSUME NEW i \in DOMAIN served, requests[served[i].head[HeadLen][1]].close \/ ~m_isKeepalive
        PROVE  i = Len(served) /\ next = "closed"
    <3>1. i = Len(served)
      BY <2>1 DEF SessionIInv, ClosedAfterLast
    <3>2. served[i].head[HeadLen] = session.data[HeadLen]
      BY <1>1, <3>1 DEF SessionIInv, LastIsAnswered
    <3>3. ~Again(session.data)
      BY <2>1, <3>2 DEF Again, IsClose
    <3> QED
      BY <1>3, <3>1, <3>3
  <2> QED
    BY <1>1, <2>1 DEF ClosedAfterLast
<1>9. StreamIsFollowed'
  <2>1. ASSUME Following
        PROVE  Following'
    BY <1>1, <1>3, <2>1 DEF Following
  <2> QED
    BY <1>1, <2>1 DEF SessionIInv, StreamIsFollowed, AsSent
<1>10. InTurn'
  <2>1. answered \in Nat /\ Len(requests) \in Nat
    BY <1>2 DEF SessionState, RequestSeq
  <2> QED
    BY <1>1, <2>1 DEF SessionIInv, InTurn, Starved
<1>11. Len(session'.data) <= BufferSize
  BY <1>1, SessionSizes
<1> QED
  BY <1>1, <1>4, <1>5, <1>6, <1>7, <1>8, <1>9, <1>10, <1>11 DEF SessionIInv

LEMMA SendResponseFailsKeeps ==
    ASSUME SessionIInv, SendResponseFails
    PROVE  SessionIInv'
<1>1. /\ session.at = "answer" /\ session' = [session EXCEPT !.at = "killed"] /\ ioError' = TRUE
      /\ UNCHANGED <<requests, arrived, gone, m_isKeepalive, m_left_data, served, answered, ahead, overread>>
  BY DEF SendResponseFails
<1>2. SessionState
  BY DEF SessionIInv
<1>3. /\ session'.at = "killed" /\ session'.data = session.data /\ session'.left = session.left
  BY <1>1, <1>2 DEF SessionState
<1>4. SessionState'
  <2>1. "killed" \in Stages /\ TRUE \in BOOLEAN
    BY DEF Stages
  <2>2. session' \in [at : Stages, data : Seq(Unit), nparse : 0..HeadLen, body : Seq(Unit), left : Nat]
    BY <1>1, <1>2, <2>1 DEF SessionState
  <2> QED
    BY <1>1, <1>2, <2>1, <2>2 DEF SessionState
<1>5. UnitsAreSent' /\ HeadIsRead'
  BY <1>1, <1>3 DEF SessionIInv, UnitsAreSent, HeadIsRead
<1>6. Answers' /\ LastIsAnswered' /\ ClosedAfterLast'
  BY <1>1, <1>3 DEF SessionIInv, Answers, LastIsAnswered, ClosedAfterLast
<1>7. StreamIsFollowed' /\ InTurn'
  BY <1>1, <1>3 DEF SessionIInv, StreamIsFollowed, InTurn, Starved
<1> QED
  BY <1>1, <1>3, <1>4, <1>5, <1>6, <1>7 DEF SessionIInv

LEMMA SessionKeeps == SessionIInv /\ [SessionNext]_sessionVars => SessionIInv'
<1> SUFFICES ASSUME SessionIInv, [SessionNext]_sessionVars
             PROVE  SessionIInv'
  OBVIOUS
<1>1. CASE UNCHANGED sessionVars
  <2>1. gone' \in BOOLEAN
    BY <1>1 DEF sessionVars, SessionIInv, SessionState
  <2> QED
    BY <1>1, <2>1, SessionQuiet DEF sessionVars
<1>2. CASE \E len \in Bodies, close \in BOOLEAN : SendRequest(len, close)
  BY <1>2, SendRequestKeeps
<1>3. CASE CloseClient
  <2>1. gone' \in BOOLEAN
    BY <1>3 DEF CloseClient
  <2> QED
    BY <1>3, <2>1, SessionQuiet DEF CloseClient
<1>4. CASE BeginRequest
  BY <1>4, BeginRequestKeeps
<1>5. CASE ReadFails \/ ReadBodyEnd
  <2>1. /\ session.at \in {"read", "body"} /\ session' = Closed
        /\ UNCHANGED <<requests, arrived, gone, m_isKeepalive, m_left_data, served, answered,
                       ahead, overread, ioError>>
    BY <1>5 DEF ReadFails, ReadBodyEnd
  <2> QED
    BY <2>1, ClosingKeeps
<1>6. CASE ReadBodyFails
  BY <1>6, ReadBodyFailsKeeps
<1>7. CASE Dispatch
  BY <1>7, DispatchKeeps
<1>8. CASE SendResponse
  BY <1>8, SendResponseKeeps
<1>9. CASE SendResponseFails
  BY <1>9, SendResponseFailsKeeps
<1>10. ASSUME NEW n \in 1..BufferSize, Read(n) \/ ReadBody(n)
       PROVE  SessionIInv'
  BY <1>10, ReadKeeps, ReadBodyKeeps
<1> QED
  BY <1>1, <1>2, <1>3, <1>4, <1>5, <1>6, <1>7, <1>8, <1>9, <1>10 DEF SessionNext, SessionStep

LEMMA SessionIsSafe == SessionIInv => SessionInv
<1> SUFFICES ASSUME SessionIInv
             PROVE  SessionInv
  OBVIOUS
<1>1. SessionTypeOK
  <2>1. session.nparse \in 0..HeadLen /\ session.left \in Nat /\ answered \in Nat
    BY DEF SessionIInv, SessionState
  <2>2. session.left <= MaxBodySize + 1
    BY SessionSizes DEF SessionIInv, HeadIsRead
  <2>3. answered <= Len(served)
    BY <2>1 DEF SessionIInv, Answers
  <2> QED
    BY <2>1, <2>2, <2>3, SessionSizes DEF SessionIInv, SessionTypeOK
<1>2. ServedIsSent /\ NothingLeftInTurn /\ ClosedAfterLast
  BY DEF SessionIInv, StreamIsFollowed, AsSent, ServedIsSent, InTurn, NothingLeftInTurn
<1> QED
  BY <1>1, <1>2 DEF SessionInv

\* The keep-alive loop of handleClient, for any buffer size, body lengths and
\* number of requests: what is dispatched is what was sent, request by request
\* and unit by unit, unless a read went beyond a request or failed inside a
\* body; nothing is put aside for a client that waits for its answers; and no
\* request is served behind the one after which the connection ends.
THEOREM SessionHolds == FairSpec => []SessionInv
<1> QED
  BY SessionIsSafe, PartsInit, PartsNext, SessionInitial, SessionKeeps, PTL DEF FairSpec

-----------------------------------------------------------------------------
(* HttpConnection.                                                         *)

\* A piece of some response.
Piece == {Response(r, s)[p] : r \in Nat, s \in Shapes, p \in Nat} \cup (Nat \X {"data"} \X Nat)

\* The units d lie behind the first p of response r, and the units w are all
\* that lies there.
Inside(d, r, s, p) == \A k \in 1..Len(d) : d[k] = Response(r, s)[p + k]
Behind(w, r, s, p) == p \in 0..ResponseUnits(s) /\ Len(w) = ResponseUnits(s) - p /\ Inside(w, r, s, p)

\* The response to the last request.
Shape == answers[asked]

Receiving == {"head", "chunk", "rest", "body"}

Calls == [at : Receiving \cup {"idle", "closed"}, data : Seq(Piece), body : Seq(Piece), left : Nat, last : BOOLEAN]

Results == [ok : BOOLEAN, body : Seq(Piece), whole : BOOLEAN]

ConnectionShape ==
    /\ asked \in Nat /\ answers \in Seq(Shapes) /\ Len(answers) <= asked
    /\ wire \in Seq(Piece)
    /\ call \in Calls
    /\ Len(call.data) <= BufferUnits
    /\ left_data = <<>>
    /\ results \in Seq(Results)
    /\ Len(results) = IF call.at \in {"idle", "closed"} THEN asked ELSE asked - 1
    /\ bodyError \in BOOLEAN /\ overrun \in BOOLEAN

\* Between two calls nothing is left of any response.
IdlePlace == call.at = "idle" => Len(answers) = asked /\ wire = <<>> /\ ~bodyError

\* The buffer holds the begin of the header.
HeadPlace ==
    call.at = "head" =>
        /\ ~bodyError /\ Len(call.data) < HeadUnits
        /\ \/ Len(answers) = asked - 1 /\ wire = <<>> /\ call.data = <<>>
           \/ /\ Len(answers) = asked /\ Behind(wire, asked, Shape, Len(call.data))
              /\ Inside(call.data, asked, Shape, 0)

\* The body has what lies between the header and the wire; after a failed read
\* the loop waits for more than the wire will bring.
BodyPlace ==
    call.at = "body" =>
        /\ Len(answers) = asked /\ ~Shape.chunked /\ Shape.ends[1] <= MaxResponse
        /\ IF bodyError THEN Len(wire) < call.left
           ELSE /\ call.left > 0 /\ Len(call.body) + call.left = Shape.ends[1]
                /\ call.body = Data(asked, 0, Len(call.body))
                /\ Behind(wire, asked, Shape, HeadUnits + Len(call.body))

\* The buffer and the wire begin with the size line of chunk i, the body has
\* the chunks before it.
ChunkPlace ==
    call.at = "chunk" =>
        /\ ~bodyError /\ Len(answers) = asked /\ Shape.chunked
        /\ \E i \in 1..Len(Shape.ends) + 1 :
              /\ call.body = Data(asked, 0, BytesBefore(Shape, i))
              /\ Behind(wire, asked, Shape, ChunkAt(Shape, i) - 1 + Len(call.data))
              /\ Inside(call.data, asked, Shape, ChunkAt(Shape, i) - 1)

\* The size line of chunk i has been read, and of its bytes all but the last
\* left - 1; the last of the missing units is its line end.
RestPlace ==
    call.at = "rest" =>
        /\ ~bodyError /\ Len(answers) = asked /\ Shape.chunked
        /\ \E i \in 1..Len(Shape.ends) + 1 :
              /\ call.last = (i = Len(Shape.ends) + 1)
              /\ call.left > 0 /\ call.left <= ChunkBytes(Shape, i) + 1
              /\ call.body = Data(asked, 0, BytesBefore(Shape, i) + ChunkBytes(Shape, i) + 1 - call.left)
              /\ Behind(wire, asked, Shape, ChunkEnd(Shape, i) - call.left)

\* A result that tells of a response tells of one that was sent.
ResultsOfAnswers ==
    \A r \in DOMAIN results : results[r].ok \/ results[r].whole => r <= Len(answers)

ConnectionIInv ==
    /\ ConnectionShape /\ IdlePlace /\ HeadPlace /\ BodyPlace /\ ChunkPlace /\ RestPlace
    /\ ResultsOfAnswers /\ ResponseAsSent /\ WholeIsReturned /\ OverrunOnlyShort

-----------------------------------------------------------------------------
\* The ends of the chunks of a response lie behind each other.
LEMMA EndsOfChunks ==
    ASSUME NEW s \in Shapes, s.chunked
    PROVE  /\ s.ends \in Seq(Nat) /\ Len(s.ends) \in Nat /\ HeadUnits \in Nat
           /\ \A k \in 1..Len(s.ends) : s.ends[k] \in Nat /\ s.ends[k] > 0
           /\ \A k, l \in 1..Len(s.ends) : k < l => s.ends[k] < s.ends[l]
<1>1. s.ends \in Seq(Nat) /\ HeadUnits \in Nat
  BY ConnectionSizes
<1>2. \A k, l \in DOMAIN s.ends : s.ends[k] > 0 /\ (k < l => s.ends[k] < s.ends[l])
  BY ConnectionSizes, Zenon
<1>3. DOMAIN s.ends = 1..Len(s.ends) /\ Len(s.ends) \in Nat /\ \A k \in 1..Len(s.ends) : s.ends[k] \in Nat
  BY <1>1
<1> QED
  BY <1>1, <1>2, <1>3, Zenon

\* The chunks of a response lie behind its header, one after the other.
LEMMA ChunkLayout ==
    ASSUME NEW s \in Shapes, s.chunked, NEW i \in 1..Len(s.ends) + 1
    PROVE  /\ Len(s.ends) \in Nat
           /\ BytesBefore(s, i) \in Nat /\ ChunkBytes(s, i) \in Nat
           /\ ChunkAt(s, i) \in Nat /\ ChunkAt(s, i) > HeadUnits
           /\ ChunkEnd(s, i) = ChunkAt(s, i) + ChunkBytes(s, i) + 1
           /\ i <= Len(s.ends) => /\ ChunkBytes(s, i) > 0
                                  /\ BytesBefore(s, i + 1) = BytesBefore(s, i) + ChunkBytes(s, i)
                                  /\ ChunkAt(s, i + 1) = ChunkEnd(s, i) + 1
           /\ i = Len(s.ends) + 1 => /\ ChunkBytes(s, i) = 0
                                     /\ BytesBefore(s, i) = Total(s)
                                     /\ ResponseUnits(s) = ChunkEnd(s, i)
<1>1. /\ s.ends \in Seq(Nat) /\ Len(s.ends) \in Nat /\ HeadUnits \in Nat /\ i \in Nat /\ i >= 1
      /\ \A k \in 1..Len(s.ends) : s.ends[k] \in Nat /\ s.ends[k] > 0
      /\ \A k, l \in 1..Len(s.ends) : k < l => s.ends[k] < s.ends[l]
  <2>1. /\ s.ends \in Seq(Nat) /\ Len(s.ends) \in Nat /\ HeadUnits \in Nat
        /\ \A k \in 1..Len(s.ends) : s.ends[k] \in Nat /\ s.ends[k] > 0
        /\ \A k, l \in 1..Len(s.ends) : k < l => s.ends[k] < s.ends[l]
    BY EndsOfChunks, Zenon
  <2>2. i \in Nat /\ i >= 1
    BY <2>1
  <2> QED
    BY <2>1, <2>2, Zenon
<1>2. /\ BytesBefore(s, i) \in Nat
      /\ i <= Len(s.ends) => BytesBefore(s, i) < s.ends[i] /\ BytesBefore(s, i + 1) = s.ends[i]
  <2>1. CASE i = 1
    BY <1>1, <2>1 DEF BytesBefore
  <2>2. CASE i # 1
    <3>1. i - 1 \in 1..Len(s.ends) /\ i - 1 < i /\ (i + 1) - 1 = i /\ i + 1 # 1
      BY <1>1, <2>2
    <3> QED
      BY <1>1, <2>2, <3>1 DEF BytesBefore
  <2> QED
    BY <2>1, <2>2
<1>3. /\ ChunkBytes(s, i) \in Nat
      /\ i <= Len(s.ends) => ChunkBytes(s, i) = s.ends[i] - BytesBefore(s, i) /\ ChunkBytes(s, i) > 0
      /\ i = Len(s.ends) + 1 => ChunkBytes(s, i) = 0
  BY <1>1, <1>2 DEF ChunkBytes
<1>4. /\ ChunkAt(s, i) = HeadUnits + BytesBefore(s, i) + 2 * (i - 1) + 1
      /\ i <= Len(s.ends) => ChunkAt(s, i + 1) = HeadUnits + BytesBefore(s, i + 1) + 2 * i + 1
      /\ ChunkEnd(s, i) = ChunkAt(s, i) + ChunkBytes(s, i) + 1
  BY <1>1 DEF ChunkAt, ChunkEnd
<1>5. i = Len(s.ends) + 1 => BytesBefore(s, i) = Total(s) /\ ResponseUnits(s) = ChunkEnd(s, i)
  <2>1. s.ends = <<>> <=> Len(s.ends) = 0
    BY <1>1
  <2> QED
    BY <1>1, <2>1 DEF BytesBefore, Total, ResponseUnits
<1>6. ChunkAt(s, i) \in Nat /\ ChunkAt(s, i) > HeadUnits
  <2> DEFINE x == BytesBefore(s, i)
  <2>1. x \in Nat /\ ChunkAt(s, i) = HeadUnits + x + 2 * (i - 1) + 1
    BY <1>2, <1>4
  <2> HIDE DEF x
  <2> QED
    BY ONLY <1>1, <2>1
<1>7. ASSUME i <= Len(s.ends)
      PROVE  BytesBefore(s, i + 1) = BytesBefore(s, i) + ChunkBytes(s, i) /\ ChunkAt(s, i + 1) = ChunkEnd(s, i) + 1
  <2> DEFINE x == BytesBefore(s, i)
             y == ChunkBytes(s, i)
  <2>1. s.ends[i] \in Nat /\ x \in Nat /\ y \in Nat /\ y = s.ends[i] - x /\ BytesBefore(s, i + 1) = s.ends[i]
    BY <1>1, <1>2, <1>3, <1>7
  <2>2. /\ ChunkAt(s, i + 1) = HeadUnits + BytesBefore(s, i + 1) + 2 * i + 1
        /\ ChunkEnd(s, i) = (HeadUnits + x + 2 * (i - 1) + 1) + y + 1
    BY <1>4, <1>7, Zenon
  <2> HIDE DEF x, y
  <2>3. BytesBefore(s, i + 1) = x + y
    BY ONLY <2>1
  <2>4. ChunkAt(s, i + 1) = ChunkEnd(s, i) + 1
    <3>1. HeadUnits \in Nat /\ i \in Nat /\ x \in Nat /\ y \in Nat
      BY <1>1, <2>1
    <3>2. ChunkAt(s, i + 1) = HeadUnits + (x + y) + 2 * i + 1
      BY <2>2, <2>3, Zenon
    <3>3. HeadUnits + (x + y) + 2 * i + 1 = ((HeadUnits + x + 2 * (i - 1) + 1) + y + 1) + 1
      BY ONLY <3>1
    <3> QED
      BY <2>2, <3>2, <3>3, Zenon
  <2> QED
    BY <2>3, <2>4 DEF x, y
<1> QED
  BY <1>1, <1>2, <1>3, <1>4, <1>5, <1>6, <1>7, Zenon

LEMMA ChunkOrder ==
    ASSUME NEW s \in Shapes, s.chunked, NEW i \in 1..Len(s.ends) + 1, NEW j \in 1..Len(s.ends) + 1, i < j
    PROVE  ChunkEnd(s, i) < ChunkAt(s, j)
<1>1. /\ s.ends \in Seq(Nat) /\ Len(s.ends) \in Nat /\ HeadUnits \in Nat
      /\ \A k \in 1..Len(s.ends) : s.ends[k] \in Nat
      /\ \A k, l \in 1..Len(s.ends) : k < l => s.ends[k] < s.ends[l]
  BY EndsOfChunks, Zenon
<1>2. i \in 1..Len(s.ends) /\ j - 1 \in 1..Len(s.ends) /\ i <= j - 1 /\ j # 1
  BY <1>1
<1>3. s.ends[i] \in Nat /\ s.ends[j - 1] \in Nat /\ s.ends[i] <= s.ends[j - 1]
  <2>1. CASE i = j - 1
    BY <1>1, <1>2, <2>1
  <2>2. CASE i < j - 1
    <3>1. s.ends[i] < s.ends[j - 1]
      BY ONLY <1>1, <1>2, <2>2, Zenon
    <3>2. s.ends[i] \in Nat /\ s.ends[j - 1] \in Nat
      BY <1>1, <1>2, Zenon
    <3> QED
      BY ONLY <3>1, <3>2
  <2> QED
    BY <1>2, <2>1, <2>2
<1>4. ChunkAt(s, j) = HeadUnits + s.ends[j - 1] + 2 * (j - 1) + 1
  BY <1>2 DEF ChunkAt, BytesBefore
<1>5. BytesBefore(s, i) \in Nat /\ ChunkBytes(s, i) = s.ends[i] - BytesBefore(s, i)
  BY <1>1, <1>2, ChunkLayout DEF ChunkBytes
<1>6. ChunkEnd(s, i) = HeadUnits + s.ends[i] + 2 * (i - 1) + 2
  <2> DEFINE x == BytesBefore(s, i)
             y == ChunkBytes(s, i)
             z == s.ends[i]
  <2>1. z \in Nat /\ x \in Nat /\ y = z - x /\ i \in Nat /\ HeadUnits \in Nat
    BY <1>1, <1>2, <1>3, <1>5
  <2>2. ChunkEnd(s, i) = (HeadUnits + x + 2 * (i - 1) + 1) + y + 1
    BY Zenon DEF ChunkEnd, ChunkAt
  <2> HIDE DEF x, y, z
  <2>3. (HeadUnits + x + 2 * (i - 1) + 1) + y + 1 = HeadUnits + z + 2 * (i - 1) + 2
    BY ONLY <2>1
  <2> QED
    BY <2>2, <2>3, Zenon DEF z
<1> QED
  <2> DEFINE x == s.ends[i]
             y == s.ends[j - 1]
  <2>1. i \in Nat /\ j \in Nat /\ HeadUnits \in Nat /\ i <= j - 1 /\ x \in Nat /\ y \in Nat /\ x <= y
    BY <1>1, <1>2, <1>3
  <2>2. ChunkEnd(s, i) = HeadUnits + x + 2 * (i - 1) + 2 /\ ChunkAt(s, j) = HeadUnits + y + 2 * (j - 1) + 1
    BY <1>4, <1>6, Zenon
  <2> HIDE DEF x, y
  <2>3. HeadUnits + x + 2 * (i - 1) + 2 < HeadUnits + y + 2 * (j - 1) + 1
    BY ONLY <2>1
  <2> QED
    BY <2>2, <2>3, Zenon

\* A place in a chunk is in the response, and the unit there is of that chunk.
LEMMA UnitOfChunk ==
    ASSUME NEW r, NEW s \in Shapes, s.chunked, NEW i \in 1..Len(s.ends) + 1,
           NEW p \in ChunkAt(s, i)..ChunkEnd(s, i)
    PROVE  /\ p \in 1..ResponseUnits(s)
           /\ Response(r, s)[p] = IF p = ChunkAt(s, i) THEN <<r, "size", ChunkBytes(s, i)>>
                                  ELSE IF p = ChunkEnd(s, i) THEN <<r, "crlf", 0>>
                                  ELSE <<r, "data", BytesBefore(s, i) + (p - ChunkAt(s, i))>>
<1> DEFINE n == Len(s.ends) + 1
<1>1. Len(s.ends) \in Nat /\ n \in 1..n /\ i \in Nat /\ i <= n /\ ResponseUnits(s) = ChunkEnd(s, n)
  <2>1. Len(s.ends) \in Nat
    BY EndsOfChunks, Zenon
  <2>2. n \in 1..n /\ i \in Nat /\ i <= n
    BY ONLY <2>1, i \in 1..Len(s.ends) + 1
  <2>3. ResponseUnits(s) = ChunkEnd(s, n)
    BY <2>2, ChunkLayout, Zenon
  <2> QED
    BY <2>1, <2>2, <2>3, Zenon
<1>2. \A c \in 1..n : /\ ChunkAt(s, c) \in Nat /\ ChunkEnd(s, c) \in Nat /\ ChunkAt(s, c) > HeadUnits
                      /\ ChunkAt(s, c) < ChunkEnd(s, c)
  <2> TAKE c \in 1..n
  <2> QED
    BY ChunkLayout
<1>3. \A c \in 1..n : p \in ChunkAt(s, c)..ChunkEnd(s, c) => c = i
  <2> SUFFICES ASSUME NEW c \in 1..n, p \in ChunkAt(s, c)..ChunkEnd(s, c), c # i PROVE FALSE
    OBVIOUS
  <2>1. c \in Nat /\ p \in Nat
    BY <1>1, <1>2
  <2>2. CASE c < i
    <3>1. ChunkEnd(s, c) < ChunkAt(s, i)
      BY <2>2, ChunkOrder
    <3> QED
      BY <3>1, <1>2, <2>1
  <2>3. CASE i < c
    <3>1. ChunkEnd(s, i) < ChunkAt(s, c)
      BY <2>3, ChunkOrder
    <3> QED
      BY <3>1, <1>2, <2>1
  <2> QED
    BY <2>1, <1>1, <2>2, <2>3
<1>4. i = CHOOSE c \in 1..n : p \in ChunkAt(s, c)..ChunkEnd(s, c)
  BY <1>3
<1>5. ChunkUnit(r, s, p) = IF p = ChunkAt(s, i) THEN <<r, "size", ChunkBytes(s, i)>>
                           ELSE IF p = ChunkEnd(s, i) THEN <<r, "crlf", 0>>
                           ELSE <<r, "data", BytesBefore(s, i) + (p - ChunkAt(s, i))>>
  BY <1>4, Zenon DEF ChunkUnit, n
<1>6. p <= ChunkEnd(s, n)
  <2>1. CASE i = n
    BY <2>1
  <2>2. CASE i < n
    <3>1. ChunkEnd(s, i) < ChunkAt(s, n)
      BY <2>2, <1>1, ChunkOrder
    <3> QED
      BY <3>1, <1>1, <1>2
  <2> QED
    BY <1>1, <2>1, <2>2
<1>7. p \in 1..ResponseUnits(s) /\ ~(p <= HeadUnits)
  <2>1. HeadUnits \in Nat /\ ChunkEnd(s, n) \in Nat /\ ChunkAt(s, i) \in Nat /\ ChunkAt(s, i) > HeadUnits
    BY ConnectionSizes, <1>1, <1>2
  <2> QED
    BY <1>1, <1>6, <2>1
<1>8. Response(r, s)[p] = ChunkUnit(r, s, p)
  BY <1>7 DEF Response
<1> QED
  BY <1>5, <1>7, <1>8

LEMMA ResponseLength ==
    ASSUME NEW s \in Shapes
    PROVE  /\ s.ends \in Seq(Nat) /\ s.chunked \in BOOLEAN
           /\ ResponseUnits(s) \in Nat /\ ResponseUnits(s) >= HeadUnits
           /\ ~s.chunked => /\ s.ends[1] \in Nat /\ Total(s) = s.ends[1]
                            /\ ResponseUnits(s) = HeadUnits + s.ends[1]
<1>1. s.ends \in Seq(Nat) /\ s.chunked \in BOOLEAN /\ (~s.chunked => Len(s.ends) = 1) /\ HeadUnits \in Nat
  BY ConnectionSizes
<1>2. CASE s.chunked
  <2>1. Len(s.ends) + 1 \in 1..Len(s.ends) + 1
    BY <1>1
  <2>2. ResponseUnits(s) = ChunkEnd(s, Len(s.ends) + 1)
    BY <1>2, <2>1, ChunkLayout
  <2>3. /\ ChunkEnd(s, Len(s.ends) + 1) \in Nat /\ ChunkEnd(s, Len(s.ends) + 1) >= HeadUnits
    <3> DEFINE c == Len(s.ends) + 1
    <3>1. c \in 1..Len(s.ends) + 1
      BY <2>1
    <3> HIDE DEF c
    <3>2. /\ ChunkEnd(s, c) = ChunkAt(s, c) + ChunkBytes(s, c) + 1
          /\ ChunkAt(s, c) \in Nat /\ ChunkBytes(s, c) \in Nat /\ ChunkAt(s, c) > HeadUnits
      BY <3>1, <1>2, ChunkLayout
    <3> QED
      BY <3>2, <1>1 DEF c
  <2> QED
    BY <1>1, <1>2, <2>2, <2>3
<1>3. CASE ~s.chunked
  <2>1. Len(s.ends) = 1 /\ s.ends # <<>> /\ s.ends[1] \in Nat
    <3> DEFINE ends == s.ends
    <3>1. ends \in Seq(Nat) /\ Len(ends) = 1
      BY <1>1, <1>3, Zenon
    <3> HIDE DEF ends
    <3>2. ends # <<>> /\ ends[1] \in Nat
      BY ONLY <3>1
    <3> QED
      BY <3>1, <3>2, Zenon DEF ends
  <2> QED
    BY <1>1, <1>3, <2>1 DEF ResponseUnits, Total
<1> QED
  BY <1>1, <1>2, <1>3

\* The header of a response, and the body of one of known length.
LEMMA UnitOfHead ==
    ASSUME NEW r, NEW s \in Shapes, NEW p \in 1..ResponseUnits(s)
    PROVE  /\ p <= HeadUnits => Response(r, s)[p] = <<r, "head", p>>
           /\ p > HeadUnits /\ ~s.chunked => Response(r, s)[p] = <<r, "data", p - HeadUnits>>
<1>1. HeadUnits \in Nat /\ p \in Nat
  BY ConnectionSizes, ResponseLength
<1> QED
  BY <1>1 DEF Response

LEMMA ResponseIsUnits ==
    ASSUME NEW r \in Nat, NEW s \in Shapes
    PROVE  Response(r, s) \in Seq(Piece) /\ Len(Response(r, s)) = ResponseUnits(s)
<1>1. ResponseUnits(s) \in Nat
  BY ResponseLength
<1>2. \A p \in 1..ResponseUnits(s) : Response(r, s)[p] \in Piece
  BY <1>1 DEF Piece
<1>3. \E f : Response(r, s) = [p \in 1..ResponseUnits(s) |-> f[p]]
  <2> DEFINE f == Response(r, s)
  <2>1. f = [p \in 1..ResponseUnits(s) |-> f[p]]
    BY DEF Response
  <2> QED
    BY <2>1
<1>4. Response(r, s) \in [1..ResponseUnits(s) -> Piece]
  BY <1>2, <1>3
<1> QED
  BY <1>1, <1>4

-----------------------------------------------------------------------------
\* While a call receives, its result is the one that is missing.
LEMMA Waiting ==
    ASSUME ConnectionShape, call.at \in Receiving
    PROVE  /\ asked \in Nat \ {0} /\ Len(results) = asked - 1 /\ asked = Len(results) + 1
           /\ Len(answers) \in Nat /\ Len(answers) <= asked
           /\ Len(answers) = asked => Shape \in Shapes /\ asked \in DOMAIN answers
<1>1. call.at \notin {"idle", "closed"}
  BY DEF Receiving
<1>2. asked \in Nat /\ answers \in Seq(Shapes) /\ results \in Seq(Results) /\ Len(answers) <= asked
      /\ Len(results) = asked - 1
  BY <1>1 DEF ConnectionShape
<1>3. Len(results) \in Nat /\ Len(answers) \in Nat
  BY <1>2
<1>4. asked \in Nat \ {0} /\ asked = Len(results) + 1
  BY <1>2, <1>3
<1>5. Len(answers) = asked => asked \in DOMAIN answers /\ answers[asked] \in Shapes
  BY <1>2, <1>4
<1> QED
  BY <1>2, <1>3, <1>4, <1>5 DEF Shape

\* The two ends of a call append its result and leave the ones before it.
LEMMA ResultAppended ==
    ASSUME ConnectionShape, call.at \in Receiving, NEW x \in Results, results' = Append(results, x)
    PROVE  /\ results' \in Seq(Results) /\ Len(results') = asked /\ DOMAIN results' = DOMAIN results \cup {asked}
           /\ results'[asked] = x /\ asked \notin DOMAIN results
           /\ \A r \in DOMAIN results : results'[r] = results[r]
<1>1. results \in Seq(Results) /\ Len(results) \in Nat /\ asked = Len(results) + 1
  BY Waiting DEF ConnectionShape
<1> QED
  BY <1>1

LEMMA FrameIs ==
    ASSUME NEW at \in Receiving \cup {"idle", "closed"}, NEW data \in Seq(Piece)
    PROVE  /\ Frame(at, data) \in Calls /\ Frame(at, data).at = at /\ Frame(at, data).data = data
           /\ Frame(at, data).body = <<>> /\ Frame(at, data).left = 0
BY DEF Frame, Calls

\* close() and nullptr: no response of known length that would have fitted had
\* been read to its end.
LEMMA FailKeeps ==
    ASSUME ConnectionIInv, call.at \in Receiving, Fail, wire' \in Seq(Piece),
           UNCHANGED <<asked, answers, left_data, bodyError, overrun>>,
           Len(answers) = asked /\ wire' = <<>> /\ ~bodyError => Shape.chunked \/ Total(Shape) > MaxResponse
    PROVE  ConnectionIInv'
<1> DEFINE x == [ok |-> FALSE, body |-> <<>>, whole |-> Whole]
<1>1. ConnectionShape /\ ResultsOfAnswers /\ ResponseAsSent /\ WholeIsReturned /\ OverrunOnlyShort
  BY DEF ConnectionIInv
<1>2. x \in Results /\ results' = Append(results, x) /\ (x.whole = Whole) /\ x.ok = FALSE
  BY DEF Fail, Results, Whole
<1> HIDE DEF x
<1>3. /\ results' \in Seq(Results) /\ Len(results') = asked /\ DOMAIN results' = DOMAIN results \cup {asked}
      /\ results'[asked] = x /\ asked \notin DOMAIN results
      /\ \A r \in DOMAIN results : results'[r] = results[r]
  BY <1>1, <1>2, ResultAppended
<1>4. call' \in Calls /\ call'.at = "closed" /\ call'.data = <<>>
  <2>1. <<>> \in Seq(Piece)
    OBVIOUS
  <2> QED
    BY <2>1, FrameIs, Zenon DEF Fail
<1>5. ConnectionShape'
  BY <1>1, <1>3, <1>4, ConnectionSizes DEF ConnectionShape
<1>6. IdlePlace' /\ HeadPlace' /\ BodyPlace' /\ ChunkPlace' /\ RestPlace'
  BY <1>4 DEF IdlePlace, HeadPlace, BodyPlace, ChunkPlace, RestPlace
<1>7. ResultsOfAnswers'
  <2> SUFFICES ASSUME NEW r \in DOMAIN results', results'[r].ok \/ results'[r].whole
               PROVE  r <= Len(answers)
    BY DEF ResultsOfAnswers
  <2>1. CASE r = asked
    <3>1. Whole
      BY <2>1, <1>2, <1>3
    <3> QED
      BY <3>1, <2>1, Waiting, <1>1 DEF Whole
  <2>2. CASE r \in DOMAIN results
    BY <2>2, <1>1, <1>3 DEF ResultsOfAnswers
  <2> QED
    BY <1>3, <2>1, <2>2
<1>8. ResponseAsSent'
  <2> SUFFICES ASSUME NEW r \in DOMAIN results', results'[r].ok, ~bodyError
               PROVE  results'[r].body = Data(r, 0, Total(answers[r]))
    BY DEF ResponseAsSent
  <2>1. r \in DOMAIN results
    BY <1>2, <1>3
  <2> QED
    BY <2>1, <1>1, <1>3 DEF ResponseAsSent
<1>9. WholeIsReturned'
  <2> SUFFICES ASSUME NEW r \in DOMAIN results', results'[r].whole, ~results'[r].ok, ~bodyError
               PROVE  answers[r].chunked \/ Total(answers[r]) > MaxResponse
    BY DEF WholeIsReturned
  <2>1. CASE r = asked
    <3>1. Whole
      BY <2>1, <1>2, <1>3
    <3> QED
      BY <3>1, <2>1 DEF Whole, Shape
  <2>2. CASE r \in DOMAIN results
    BY <2>2, <1>1, <1>3 DEF WholeIsReturned
  <2> QED
    BY <1>3, <2>1, <2>2
<1>10. OverrunOnlyShort'
  BY <1>1 DEF OverrunOnlyShort
<1> QED
  BY <1>5, <1>6, <1>7, <1>8, <1>9, <1>10 DEF ConnectionIInv

\* The response is returned: the body is whole and nothing follows it.
LEMMA ReturnedKeeps ==
    ASSUME ConnectionIInv, call.at \in Receiving, ~bodyError, Len(answers) = asked,
           NEW body \in Seq(Piece), body = Data(asked, 0, Total(Shape)), Return(body),
           wire' = <<>>, left_data' = <<>>, UNCHANGED <<asked, answers, bodyError, overrun>>
    PROVE  ConnectionIInv'
<1> DEFINE x == [ok |-> TRUE, body |-> body, whole |-> Whole]
<1>1. ConnectionShape /\ ResultsOfAnswers /\ ResponseAsSent /\ WholeIsReturned /\ OverrunOnlyShort
  BY DEF ConnectionIInv
<1>2. x \in Results /\ results' = Append(results, x) /\ x.ok = TRUE /\ x.body = body
  BY DEF Return, Results, Whole
<1> HIDE DEF x
<1>3. /\ results' \in Seq(Results) /\ Len(results') = asked /\ DOMAIN results' = DOMAIN results \cup {asked}
      /\ results'[asked] = x /\ asked \notin DOMAIN results
      /\ \A r \in DOMAIN results : results'[r] = results[r]
  BY <1>1, <1>2, ResultAppended
<1>4. call' \in Calls /\ call'.at = "idle" /\ call'.data = <<>>
  <2>1. <<>> \in Seq(Piece)
    OBVIOUS
  <2> QED
    BY <2>1, FrameIs, Zenon DEF Return
<1>5. ConnectionShape'
  BY <1>1, <1>3, <1>4, ConnectionSizes DEF ConnectionShape
<1>6. IdlePlace' /\ HeadPlace' /\ BodyPlace' /\ ChunkPlace' /\ RestPlace'
  BY <1>4 DEF IdlePlace, HeadPlace, BodyPlace, ChunkPlace, RestPlace
<1>7. ResultsOfAnswers'
  <2> SUFFICES ASSUME NEW r \in DOMAIN results', results'[r].ok \/ results'[r].whole
               PROVE  r <= Len(answers)
    BY DEF ResultsOfAnswers
  <2>1. CASE r = asked
    BY <2>1, Waiting, <1>1
  <2>2. CASE r \in DOMAIN results
    BY <2>2, <1>1, <1>3 DEF ResultsOfAnswers
  <2> QED
    BY <1>3, <2>1, <2>2
<1>8. ResponseAsSent'
  <2> SUFFICES ASSUME NEW r \in DOMAIN results', results'[r].ok
               PROVE  results'[r].body = Data(r, 0, Total(answers[r]))
    BY DEF ResponseAsSent
  <2>1. CASE r = asked
    BY <2>1, <1>2, <1>3 DEF Shape
  <2>2. CASE r \in DOMAIN results
    BY <2>2, <1>1, <1>3 DEF ResponseAsSent
  <2> QED
    BY <1>3, <2>1, <2>2
<1>9. WholeIsReturned'
  <2> SUFFICES ASSUME NEW r \in DOMAIN results', results'[r].whole, ~results'[r].ok
               PROVE  answers[r].chunked \/ Total(answers[r]) > MaxResponse
    BY DEF WholeIsReturned
  <2>1. r \in DOMAIN results
    BY <1>2, <1>3
  <2> QED
    BY <2>1, <1>1, <1>3 DEF WholeIsReturned
<1>10. OverrunOnlyShort'
  BY <1>1 DEF OverrunOnlyShort
<1> QED
  BY <1>5, <1>6, <1>7, <1>8, <1>9, <1>10 DEF ConnectionIInv

\* The call goes on with another frame.
LEMMA ContinueKeeps ==
    ASSUME ConnectionIInv, call.at \in Receiving, call' \in Calls, call'.at \in Receiving,
           Len(call'.data) <= BufferUnits, wire' \in Seq(Piece),
           UNCHANGED <<asked, answers, left_data, results>>,
           bodyError' \in BOOLEAN, bodyError => bodyError', overrun' \in BOOLEAN, OverrunOnlyShort',
           HeadPlace', BodyPlace', ChunkPlace', RestPlace'
    PROVE  ConnectionIInv'
<1>1. ConnectionShape /\ ResultsOfAnswers /\ ResponseAsSent /\ WholeIsReturned
  BY DEF ConnectionIInv
<1>2. call.at \notin {"idle", "closed"} /\ call'.at \notin {"idle", "closed"}
  BY DEF Receiving
<1>3. ConnectionShape'
  BY <1>1, <1>2 DEF ConnectionShape
<1>4. IdlePlace'
  BY <1>2 DEF IdlePlace
<1>5. ResultsOfAnswers'
  BY <1>1 DEF ResultsOfAnswers
<1>6. ResponseAsSent' /\ WholeIsReturned'
  BY <1>1 DEF ResponseAsSent, WholeIsReturned
<1> QED
  BY <1>3, <1>4, <1>5, <1>6 DEF ConnectionIInv

LEMMA ConnectionInitial == ConnectionInit => ConnectionIInv
<1> SUFFICES ASSUME ConnectionInit PROVE ConnectionIInv
  OBVIOUS
<1>1. /\ asked = 0 /\ answers = <<>> /\ wire = <<>> /\ left_data = <<>> /\ results = <<>>
      /\ bodyError = FALSE /\ overrun = FALSE /\ call = Frame("idle", <<>>)
  BY DEF ConnectionInit
<1>2. call \in Calls /\ call.at = "idle" /\ call.data = <<>>
  <2>1. <<>> \in Seq(Piece)
    OBVIOUS
  <2> QED
    BY <1>1, <2>1, FrameIs, Zenon
<1>3. ConnectionShape
  <2>1. /\ answers \in Seq(Shapes) /\ Len(answers) = 0 /\ wire \in Seq(Piece)
        /\ results \in Seq(Results) /\ Len(results) = 0 /\ Len(call.data) = 0
    BY <1>1, <1>2
  <2>2. asked \in Nat /\ Len(answers) <= asked /\ Len(call.data) <= BufferUnits /\ Len(results) = asked
    BY <1>1, <2>1, ConnectionSizes
  <2>3. bodyError \in BOOLEAN /\ overrun \in BOOLEAN /\ call.at \in {"idle", "closed"}
    BY <1>1, <1>2
  <2> QED
    BY <1>1, <1>2, <2>1, <2>2, <2>3, Zenon DEF ConnectionShape
<1>4. IdlePlace /\ HeadPlace /\ BodyPlace /\ ChunkPlace /\ RestPlace
  BY <1>1, <1>2 DEF IdlePlace, HeadPlace, BodyPlace, ChunkPlace, RestPlace
<1>5. ResultsOfAnswers /\ ResponseAsSent /\ WholeIsReturned /\ OverrunOnlyShort
  BY <1>1 DEF ResultsOfAnswers, ResponseAsSent, WholeIsReturned, OverrunOnlyShort
<1> QED
  BY <1>3, <1>4, <1>5 DEF ConnectionIInv

LEMMA ClosePeerKeeps ==
    ASSUME ConnectionIInv, UNCHANGED <<asked, answers, wire, call, left_data, results, bodyError, overrun>>
    PROVE  ConnectionIInv'
<1>1. ConnectionShape' /\ IdlePlace'
  BY DEF ConnectionIInv, ConnectionShape, IdlePlace
<1>2. Shape' = Shape
  BY DEF Shape
<1>3. HeadPlace' /\ BodyPlace'
  BY <1>2 DEF ConnectionIInv, HeadPlace, BodyPlace
<1>4. ChunkPlace' /\ RestPlace'
  BY <1>2 DEF ConnectionIInv, ChunkPlace, RestPlace
<1>5. ResultsOfAnswers' /\ ResponseAsSent' /\ WholeIsReturned' /\ OverrunOnlyShort'
  BY DEF ConnectionIInv, ResultsOfAnswers, ResponseAsSent, WholeIsReturned, OverrunOnlyShort
<1> QED
  BY <1>1, <1>3, <1>4, <1>5 DEF ConnectionIInv

\* The server answers a call that has read nothing, or one that has failed.
LEMMA AnswerKeeps ==
    ASSUME ConnectionIInv, NEW s \in Shapes, Answer(s)
    PROVE  ConnectionIInv'
<1>0. ConnectionShape /\ ResultsOfAnswers
  BY DEF ConnectionIInv
<1>1. /\ asked \in Nat /\ answers \in Seq(Shapes) /\ Len(answers) \in Nat /\ Len(answers) < asked
      /\ wire \in Seq(Piece) /\ call \in Calls /\ results \in Seq(Results)
  BY <1>0 DEF Answer, ConnectionShape
<1>2. /\ answers' = Append(answers, s) /\ wire' = wire \o Response(Len(answers) + 1, s)
      /\ UNCHANGED <<asked, peerClosed, call, left_data, results, bodyError, overrun>>
  BY DEF Answer
<1>3. /\ answers' \in Seq(Shapes) /\ Len(answers') = Len(answers) + 1
      /\ answers'[Len(answers) + 1] = s /\ \A r \in 1..Len(answers) : answers'[r] = answers[r]
  BY <1>1, <1>2
<1>4. Response(Len(answers) + 1, s) \in Seq(Piece) /\ Len(Response(Len(answers) + 1, s)) = ResponseUnits(s)
  <2>1. Len(answers) + 1 \in Nat
    BY <1>1
  <2> QED
    BY <2>1, ResponseIsUnits
<1>5. wire' \in Seq(Piece)
  BY <1>1, <1>2, <1>4, ConcatProperties, Zenon
<1>6. ConnectionShape'
  BY <1>0, <1>1, <1>2, <1>3, <1>5 DEF ConnectionShape
<1>7. call.at \in {"head", "closed"}
  <2>1. call.at # "idle"
    BY <1>1 DEF ConnectionIInv, IdlePlace
  <2>2. call.at # "chunk" /\ call.at # "rest" /\ call.at # "body"
    BY <1>1 DEF ConnectionIInv, ChunkPlace, RestPlace, BodyPlace
  <2> QED
    BY <1>1, <2>1, <2>2 DEF Calls, Receiving
<1>8. IdlePlace' /\ BodyPlace' /\ ChunkPlace' /\ RestPlace'
  BY <1>2, <1>7 DEF IdlePlace, BodyPlace, ChunkPlace, RestPlace
<1>9. HeadPlace'
  <2> SUFFICES ASSUME call.at = "head" PROVE HeadPlace'
    BY <1>2 DEF HeadPlace
  <2>1. ~bodyError /\ Len(answers) = asked - 1 /\ wire = <<>> /\ call.data = <<>>
    BY <1>1 DEF ConnectionIInv, HeadPlace
  <2>2. asked = Len(answers) + 1 /\ Shape' = s /\ Len(answers') = asked'
    BY <2>1, <1>1, <1>2, <1>3 DEF Shape
  <2>3. wire' = Response(asked, s)
    <3>1. wire' = <<>> \o Response(asked, s)
      BY <1>2, <2>1, <2>2, Zenon
    <3>2. Response(asked, s) \in Seq(Piece)
      BY <1>4, <2>2, Zenon
    <3> QED
      BY <3>1, <3>2
  <2>4. Len(wire') = ResponseUnits(s) /\ ResponseUnits(s) \in Nat
    BY <2>2, <2>3, <1>4, ResponseLength
  <2>5. Inside(wire', asked, s, 0)
    BY <2>3, <2>4 DEF Inside
  <2>6. Behind(wire', asked, s, 0) /\ Inside(call.data, asked, s, 0)
    BY <2>1, <2>4, <2>5 DEF Behind, Inside
  <2>7. HeadUnits > 0 /\ Len(call.data) = 0
    BY <2>1, ConnectionSizes
  <2> QED
    BY <1>2, <2>1, <2>2, <2>6, <2>7 DEF HeadPlace
<1>10. ResultsOfAnswers'
  <2>1. \A r \in DOMAIN results : results[r].ok \/ results[r].whole => r <= Len(answers)
    BY <1>0 DEF ResultsOfAnswers
  <2>2. DOMAIN results \in SUBSET Nat
    BY <1>1
  <2> QED
    BY <2>1, <2>2, <1>1, <1>2, <1>3 DEF ResultsOfAnswers
<1>11. \A r \in DOMAIN results : results[r].ok \/ results[r].whole => answers'[r] = answers[r]
  <2>1. \A r \in DOMAIN results : r \in Nat /\ r >= 1
    BY <1>1
  <2> QED
    BY <1>0, <1>3, <2>1 DEF ResultsOfAnswers
<1>12. ResponseAsSent' /\ WholeIsReturned'
  BY <1>2, <1>11 DEF ConnectionIInv, ResponseAsSent, WholeIsReturned
<1>13. OverrunOnlyShort'
  <2> SUFFICES ASSUME overrun PROVE \E r \in DOMAIN answers' : ~answers'[r].chunked /\ Total(answers'[r]) < BufferUnits
    BY <1>2 DEF OverrunOnlyShort
  <2>1. PICK r \in DOMAIN answers : ~answers[r].chunked /\ Total(answers[r]) < BufferUnits
    BY DEF ConnectionIInv, OverrunOnlyShort
  <2>2. r \in DOMAIN answers' /\ answers'[r] = answers[r]
    BY <1>1, <1>3
  <2> QED
    BY <2>1, <2>2
<1> QED
  BY <1>6, <1>8, <1>9, <1>10, <1>12, <1>13 DEF ConnectionIInv

\* A request is sent when nothing of the response before it is left.
LEMMA SendKeeps ==
    ASSUME ConnectionIInv, SendAndReceive
    PROVE  ConnectionIInv'
<1>1. /\ call.at = "idle" /\ asked' = asked + 1
      /\ UNCHANGED <<answers, wire, peerClosed, left_data, results, bodyError, overrun>>
  BY DEF SendAndReceive
<1>2. /\ ConnectionShape /\ asked \in Nat /\ Len(answers) = asked /\ wire = <<>> /\ ~bodyError /\ left_data = <<>>
      /\ Len(results) = asked
  BY <1>1 DEF ConnectionIInv, ConnectionShape, IdlePlace
<1>3. call' \in Calls /\ call'.at = "head" /\ call'.data = <<>>
  <2>1. call' = Frame("head", <<>>)
    BY <1>2 DEF SendAndReceive
  <2>2. <<>> \in Seq(Piece) /\ "head" \in Receiving
    BY DEF Receiving
  <2> QED
    BY <2>1, <2>2, FrameIs, Zenon
<1>4. ConnectionShape'
  BY <1>1, <1>2, <1>3, ConnectionSizes DEF ConnectionShape
<1>5. HeadPlace'
  <2>1. Len(call'.data) = 0 /\ Len(answers') = asked' - 1
    BY <1>1, <1>2, <1>3
  <2> QED
    BY <2>1, <1>1, <1>2, <1>3, ConnectionSizes DEF HeadPlace
<1>6. IdlePlace' /\ BodyPlace' /\ ChunkPlace' /\ RestPlace'
  BY <1>3 DEF IdlePlace, BodyPlace, ChunkPlace, RestPlace
<1>7. ResultsOfAnswers' /\ ResponseAsSent' /\ WholeIsReturned' /\ OverrunOnlyShort'
  BY <1>1 DEF ConnectionIInv, ResultsOfAnswers, ResponseAsSent, WholeIsReturned, OverrunOnlyShort
<1> QED
  BY <1>4, <1>5, <1>6, <1>7 DEF ConnectionIInv

-----------------------------------------------------------------------------
(* The reads.                                                              *)

\* A run of units is cut behind its first m.
LEMMA Cut ==
    ASSUME NEW d \in Seq(Piece), NEW m \in Nat, m <= Len(d), NEW r, NEW s, NEW p \in Nat, Inside(d, r, s, p)
    PROVE  /\ SubSeq(d, 1, m) \in Seq(Piece) /\ Len(SubSeq(d, 1, m)) = m /\ Inside(SubSeq(d, 1, m), r, s, p)
           /\ SubSeq(d, m + 1, Len(d)) \in Seq(Piece) /\ Len(SubSeq(d, m + 1, Len(d))) = Len(d) - m
           /\ Inside(SubSeq(d, m + 1, Len(d)), r, s, p + m)
<1> DEFINE e == SubSeq(d, m + 1, Len(d))
           b == SubSeq(d, 1, m)
<1>1. Len(d) \in Nat /\ m + 1 \in Int /\ \A k \in 1..Len(d) : d[k] = Response(r, s)[p + k]
  BY DEF Inside
<1>2. b \in Seq(Piece) /\ Len(b) = m /\ \A k \in 1..m : b[k] = d[k]
  BY ONLY <1>1, d \in Seq(Piece), m \in Nat, m <= Len(d) DEF b
<1>3. /\ e \in Seq(Piece) /\ Len(e) = IF m + 1 <= Len(d) THEN Len(d) - (m + 1) + 1 ELSE 0
      /\ \A k \in 1..Len(d) - (m + 1) + 1 : e[k] = d[(m + 1) + k - 1]
  <2>1. \A k \in m + 1..Len(d) : d[k] \in Piece
    BY <1>1
  <2> QED
    BY <1>1, <2>1, SubSeqProperties
<1> HIDE DEF b, e
<1>4. Len(d) - (m + 1) + 1 = Len(d) - m /\ Len(e) = Len(d) - m
  BY ONLY <1>1, <1>3, m \in Nat, m <= Len(d)
<1>5. Inside(b, r, s, p)
  <2> SUFFICES ASSUME NEW k \in 1..Len(b) PROVE b[k] = Response(r, s)[p + k]
    BY DEF Inside
  <2>1. k \in 1..m /\ k \in 1..Len(d)
    BY <1>1, <1>2
  <2> QED
    BY <1>1, <1>2, <2>1, Zenon
<1>6. Inside(e, r, s, p + m)
  <2> SUFFICES ASSUME NEW k \in 1..Len(e) PROVE e[k] = Response(r, s)[(p + m) + k]
    BY DEF Inside
  <2>1. /\ k \in 1..Len(d) - (m + 1) + 1 /\ (m + 1) + k - 1 = m + k /\ m + k \in 1..Len(d)
        /\ p + (m + k) = (p + m) + k
    BY <1>1, <1>4
  <2>2. e[k] = d[m + k]
    BY <1>3, <2>1, Zenon
  <2>3. d[m + k] = Response(r, s)[p + (m + k)]
    BY <1>1, <2>1, Zenon
  <2> QED
    BY <2>1, <2>2, <2>3, Zenon
<1> QED
  BY <1>2, <1>3, <1>4, <1>5, <1>6 DEF b, e

\* Two runs of units, the second behind the first, are one.
LEMMA Joined ==
    ASSUME NEW d \in Seq(Piece), NEW e \in Seq(Piece), NEW r, NEW s, NEW p \in Nat,
           Inside(d, r, s, p), Inside(e, r, s, p + Len(d))
    PROVE  d \o e \in Seq(Piece) /\ Len(d \o e) = Len(d) + Len(e) /\ Inside(d \o e, r, s, p)
<1>1. /\ d \o e \in Seq(Piece) /\ Len(d \o e) = Len(d) + Len(e)
      /\ \A k \in 1..Len(d) + Len(e) : (d \o e)[k] = IF k <= Len(d) THEN d[k] ELSE e[k - Len(d)]
  BY ConcatProperties, Zenon
<1>2. Len(d) \in Nat /\ Len(e) \in Nat
  OBVIOUS
<1>3. Inside(d \o e, r, s, p)
  <2> SUFFICES ASSUME NEW k \in 1..Len(d) + Len(e) PROVE (d \o e)[k] = Response(r, s)[p + k]
    BY <1>1 DEF Inside
  <2>1. CASE k <= Len(d)
    <3>1. k \in 1..Len(d) /\ (d \o e)[k] = d[k]
      BY <1>1, <1>2, <2>1
    <3> QED
      BY <3>1, Zenon DEF Inside
  <2>2. CASE ~(k <= Len(d))
    <3>1. k - Len(d) \in 1..Len(e) /\ (p + Len(d)) + (k - Len(d)) = p + k
      BY <1>2, <2>2
    <3>2. (d \o e)[k] = e[k - Len(d)]
      BY <1>1, <2>2, Zenon
    <3>3. e[k - Len(d)] = Response(r, s)[(p + Len(d)) + (k - Len(d))]
      BY <3>1, Zenon DEF Inside
    <3> QED
      BY <3>1, <3>2, <3>3, Zenon
  <2> QED
    BY <2>1, <2>2
<1> QED
  BY <1>1, <1>3

\* read() takes the next n units of the response off the wire.
LEMMA Taken ==
    ASSUME NEW w \in Seq(Piece), NEW n \in Nat, n <= Len(w), NEW r, NEW s \in Shapes, NEW p \in Nat,
           Behind(w, r, s, p)
    PROVE  /\ SubSeq(w, n + 1, Len(w)) \in Seq(Piece) /\ Behind(SubSeq(w, n + 1, Len(w)), r, s, p + n)
           /\ SubSeq(w, 1, n) \in Seq(Piece) /\ Len(SubSeq(w, 1, n)) = n /\ Inside(SubSeq(w, 1, n), r, s, p)
<1>1. Inside(w, r, s, p) /\ p \in 0..ResponseUnits(s) /\ Len(w) = ResponseUnits(s) - p
  BY DEF Behind
<1>2. ResponseUnits(s) \in Nat
  BY ResponseLength
<1>3. /\ SubSeq(w, 1, n) \in Seq(Piece) /\ Len(SubSeq(w, 1, n)) = n /\ Inside(SubSeq(w, 1, n), r, s, p)
      /\ SubSeq(w, n + 1, Len(w)) \in Seq(Piece) /\ Len(SubSeq(w, n + 1, Len(w))) = Len(w) - n
      /\ Inside(SubSeq(w, n + 1, Len(w)), r, s, p + n)
  BY <1>1, Cut
<1>4. p + n \in 0..ResponseUnits(s) /\ Len(w) - n = ResponseUnits(s) - (p + n)
  BY <1>1, <1>2
<1> QED
  BY <1>3, <1>4, Zenon DEF Behind

LEMMA DataIs ==
    ASSUME NEW r \in Nat, NEW n \in Nat
    PROVE  /\ Data(r, 0, n) \in Seq(Piece) /\ Len(Data(r, 0, n)) = n
           /\ \A k \in 1..n : Data(r, 0, n)[k] = <<r, "data", k>>
<1>1. Data(r, 0, n) = [k \in 1..n |-> <<r, "data", k>>]
  BY DEF Data
<1>2. \A k \in 1..n : <<r, "data", k>> \in Piece
  BY DEF Piece
<1> QED
  BY <1>1, <1>2

\* The bytes that follow the first m of a body extend it.
LEMMA DataExtends ==
    ASSUME NEW r \in Nat, NEW m \in Nat, NEW got \in Seq(Piece),
           \A k \in 1..Len(got) : got[k] = <<r, "data", m + k>>
    PROVE  Data(r, 0, m) \o got = Data(r, 0, m + Len(got))
<1> DEFINE d == Data(r, 0, m)
           e == Data(r, 0, m + Len(got))
<1>1. d \in Seq(Piece) /\ Len(d) = m /\ \A k \in 1..m : d[k] = <<r, "data", k>>
  BY DataIs
<1>2. Len(got) \in Nat /\ m + Len(got) \in Nat
  OBVIOUS
<1>3. e \in Seq(Piece) /\ Len(e) = m + Len(got) /\ \A k \in 1..m + Len(got) : e[k] = <<r, "data", k>>
  BY <1>2, DataIs
<1> HIDE DEF d, e
<1>4. /\ d \o got \in Seq(Piece) /\ Len(d \o got) = Len(d) + Len(got)
      /\ \A k \in 1..Len(d) + Len(got) : (d \o got)[k] = IF k <= Len(d) THEN d[k] ELSE got[k - Len(d)]
  BY <1>1, ConcatProperties, Zenon
<1>5. \A k \in 1..m + Len(got) : (d \o got)[k] = e[k]
  <2> SUFFICES ASSUME NEW k \in 1..m + Len(got) PROVE (d \o got)[k] = e[k]
    OBVIOUS
  <2>1. CASE k <= m
    <3>1. k \in 1..m /\ k \in 1..Len(d) + Len(got) /\ k <= Len(d)
      BY <2>1, <1>1, <1>2
    <3>2. (d \o got)[k] = d[k]
      BY <3>1, <1>4, Zenon
    <3> QED
      BY <3>1, <3>2, <1>1, <1>3, Zenon
  <2>2. CASE ~(k <= m)
    <3>1. k - m \in 1..Len(got) /\ m + (k - m) = k /\ k \in 1..Len(d) + Len(got) /\ ~(k <= Len(d))
      BY <2>2, <1>1, <1>2
    <3>2. (d \o got)[k] = got[k - m]
      BY <3>1, <1>1, <1>4, Zenon
    <3>3. got[k - m] = <<r, "data", m + (k - m)>>
      BY <3>1, Zenon
    <3> QED
      BY <3>1, <3>2, <3>3, <1>3, Zenon
  <2> QED
    BY <2>1, <2>2
<1>6. d \o got = e
  BY <1>1, <1>3, <1>4, <1>5, SeqEqual
<1> QED
  BY <1>6 DEF d, e

\* A run of units that lies in the body of a response of known length, or in
\* the bytes of chunk i, is data.
LEMMA LengthData ==
    ASSUME NEW r, NEW s \in Shapes, ~s.chunked, NEW d \in Seq(Piece), NEW m \in Nat,
           Inside(d, r, s, HeadUnits + m), HeadUnits + m + Len(d) <= ResponseUnits(s)
    PROVE  \A k \in 1..Len(d) : d[k] = <<r, "data", m + k>>
<1> SUFFICES ASSUME NEW k \in 1..Len(d) PROVE d[k] = <<r, "data", m + k>>
  OBVIOUS
<1> DEFINE q == HeadUnits + m + k
<1>1. HeadUnits \in Nat /\ ResponseUnits(s) \in Nat /\ Len(d) \in Nat
  BY ConnectionSizes, ResponseLength
<1>2. q \in 1..ResponseUnits(s) /\ q > HeadUnits /\ q - HeadUnits = m + k
  BY <1>1
<1>3. d[k] = Response(r, s)[q]
  BY Zenon DEF Inside
<1> HIDE DEF q
<1>4. Response(r, s)[q] = <<r, "data", q - HeadUnits>>
  BY <1>2, UnitOfHead
<1> QED
  BY <1>2, <1>3, <1>4, Zenon

LEMMA ChunkData ==
    ASSUME NEW r, NEW s \in Shapes, s.chunked, NEW i \in 1..Len(s.ends) + 1, NEW d \in Seq(Piece), NEW m \in Nat,
           Inside(d, r, s, ChunkAt(s, i) + m), m + Len(d) <= ChunkBytes(s, i)
    PROVE  \A k \in 1..Len(d) : d[k] = <<r, "data", (BytesBefore(s, i) + m) + k>>
<1> SUFFICES ASSUME NEW k \in 1..Len(d) PROVE d[k] = <<r, "data", (BytesBefore(s, i) + m) + k>>
  OBVIOUS
<1> DEFINE a == ChunkAt(s, i)
           b == BytesBefore(s, i)
           c == ChunkBytes(s, i)
           q == a + m + k
<1>1. a \in Nat /\ b \in Nat /\ c \in Nat /\ ChunkEnd(s, i) = a + c + 1 /\ Len(d) \in Nat
  BY ChunkLayout
<1>2. d[k] = Response(r, s)[q]
  BY Zenon DEF Inside
<1>3. m + Len(d) <= c
  OBVIOUS
<1> HIDE DEF a, b, c
<1>4. q \in a..a + c + 1 /\ q # a /\ q # a + c + 1 /\ b + (q - a) = (b + m) + k
  BY <1>1, <1>3
<1> HIDE DEF q
<1>5. Response(r, s)[q] = <<r, "data", b + (q - a)>>
  BY <1>1, <1>4, UnitOfChunk DEF a, b
<1> QED
  BY <1>2, <1>4, <1>5, Zenon DEF b

\* What a read finds: the response the call waits for is on the wire.
LEMMA ReadFinds ==
    ASSUME ConnectionIInv, call.at \in Receiving, NEW n \in 1..BufferUnits, Take(n)
    PROVE  /\ ConnectionShape /\ n \in Nat \ {0} /\ n <= Len(wire) /\ wire # <<>> /\ wire \in Seq(Piece)
           /\ wire' = SubSeq(wire, n + 1, Len(wire))
           /\ call.data \in Seq(Piece) /\ Len(call.data) \in Nat /\ Len(call.data) <= BufferUnits
           /\ call.body \in Seq(Piece) /\ call.left \in Nat /\ call.last \in BOOLEAN
           /\ asked \in Nat \ {0} /\ bodyError \in BOOLEAN /\ overrun \in BOOLEAN /\ left_data = <<>>
           /\ HeadUnits \in Nat \ {0} /\ BufferUnits \in Nat /\ HeadUnits < BufferUnits /\ MaxResponse \in Nat
           /\ Len(answers) = asked => Shape \in Shapes /\ asked \in DOMAIN answers
<1>1. ConnectionShape /\ wire \in Seq(Piece) /\ call \in Calls /\ Len(call.data) <= BufferUnits
      /\ bodyError \in BOOLEAN /\ overrun \in BOOLEAN /\ left_data = <<>>
  BY DEF ConnectionIInv, ConnectionShape
<1>2. /\ call.data \in Seq(Piece) /\ Len(call.data) \in Nat
      /\ call.body \in Seq(Piece) /\ call.left \in Nat /\ call.last \in BOOLEAN
  BY <1>1 DEF Calls
<1>3. HeadUnits \in Nat \ {0} /\ BufferUnits \in Nat /\ HeadUnits < BufferUnits /\ MaxResponse \in Nat
  BY ConnectionSizes
<1>4. n \in Nat \ {0} /\ n <= Len(wire) /\ wire' = SubSeq(wire, n + 1, Len(wire))
  BY <1>3 DEF Take
<1>5. wire # <<>>
  BY <1>1, <1>4
<1>6. asked \in Nat \ {0} /\ (Len(answers) = asked => Shape \in Shapes /\ asked \in DOMAIN answers)
  BY <1>1, Waiting
<1> QED
  BY <1>1, <1>2, <1>3, <1>4, <1>5, <1>6

\* The response is read to its end when nothing is left on the wire.
LEMMA NothingBehind ==
    ASSUME NEW w \in Seq(Piece), NEW r, NEW s \in Shapes, NEW p \in Nat, Behind(w, r, s, p)
    PROVE  /\ p <= ResponseUnits(s) /\ ResponseUnits(s) \in Nat /\ Len(w) = ResponseUnits(s) - p
           /\ w = <<>> <=> p = ResponseUnits(s)
BY ResponseLength DEF Behind

\* What read() brings is the next part of the header, and perhaps of the body.
LEMMA HeadRead ==
    ASSUME ConnectionIInv, NEW n \in 1..BufferUnits, ReadHead(n),
           NEW data, data = call.data \o SubSeq(wire, 1, n)
    PROVE  /\ call.at \in Receiving /\ Take(n) /\ ~bodyError /\ Len(answers) = asked
           /\ UNCHANGED <<asked, answers, peerClosed, bodyError>>
           /\ data \in Seq(Piece) /\ Len(data) \in Nat /\ Len(data) <= BufferUnits
           /\ Inside(data, asked, Shape, 0)
           /\ Behind(wire', asked, Shape, Len(data)) /\ wire' \in Seq(Piece)
           /\ ~HeadError(data)
           /\ HeadUnits <= Len(data) => data[HeadUnits][1] = asked
<1>1. /\ call.at = "head" /\ call.at \in Receiving /\ n <= BufferUnits - Len(call.data) /\ Take(n)
      /\ UNCHANGED <<asked, answers, peerClosed, bodyError>>
  BY DEF ReadHead, FreeUnits, Receiving
<1>2. /\ wire # <<>> /\ wire \in Seq(Piece) /\ n \in Nat /\ n <= Len(wire) /\ wire' = SubSeq(wire, n + 1, Len(wire))
      /\ call.data \in Seq(Piece) /\ Len(call.data) \in Nat /\ HeadUnits \in Nat \ {0} /\ BufferUnits \in Nat
      /\ (Len(answers) = asked => Shape \in Shapes)
  BY <1>1, ReadFinds
<1>3. /\ ~bodyError /\ Len(answers) = asked /\ Behind(wire, asked, Shape, Len(call.data))
      /\ Inside(call.data, asked, Shape, 0)
  BY <1>1, <1>2 DEF ConnectionIInv, HeadPlace
<1> DEFINE got == SubSeq(wire, 1, n)
           s == Shape
           d == call.data
           r == asked
<1>4. /\ wire' \in Seq(Piece) /\ Behind(wire', r, s, Len(d) + n)
      /\ got \in Seq(Piece) /\ Len(got) = n /\ Inside(got, r, s, Len(d)) /\ s \in Shapes
  BY <1>2, <1>3, Taken, Zenon
<1>5. data = d \o got /\ d \in Seq(Piece) /\ Inside(d, r, s, 0) /\ Len(d) \in Nat
  BY <1>2, <1>3
<1> HIDE DEF got, s, d, r
<1>6. data \in Seq(Piece) /\ Len(data) = Len(d) + n /\ Inside(data, r, s, 0)
  <2>1. 0 + Len(d) = Len(d) /\ 0 \in Nat
    BY <1>5
  <2>2. Inside(got, r, s, 0 + Len(d))
    BY <1>4, <2>1, Zenon
  <2>3. d \o got \in Seq(Piece) /\ Len(d \o got) = Len(d) + Len(got) /\ Inside(d \o got, r, s, 0)
    BY <1>4, <1>5, <2>1, <2>2, Joined, Zenon
  <2> QED
    BY <1>4, <1>5, <2>3, Zenon
<1>7. Len(data) \in Nat /\ Len(data) <= BufferUnits
  BY <1>1, <1>2, <1>6 DEF d
<1>8. Len(data) <= ResponseUnits(s) /\ ResponseUnits(s) \in Nat
  <2>1. Behind(wire', r, s, Len(data)) /\ wire' \in Seq(Piece) /\ s \in Shapes
    BY <1>4, <1>6, Zenon
  <2> QED
    BY <1>7, <2>1, NothingBehind, Zenon
<1>9. \A k \in 1..Len(data) : k <= HeadUnits => data[k] = <<r, "head", k>>
  <2> SUFFICES ASSUME NEW k \in 1..Len(data), k <= HeadUnits PROVE data[k] = <<r, "head", k>>
    OBVIOUS
  <2>1. k \in 1..ResponseUnits(s) /\ 0 + k = k
    BY <1>7, <1>8
  <2>2. data[k] = Response(r, s)[k]
    BY <1>6, <2>1 DEF Inside
  <2> QED
    BY <2>1, <2>2, <1>4, UnitOfHead
<1>10. ~HeadError(data)
  <2> SUFFICES ASSUME NEW k \in DOMAIN data, k <= HeadUnits, data[k][2] # "head" \/ data[k][3] # k PROVE FALSE
    BY DEF HeadError
  <2>1. k \in 1..Len(data)
    BY <1>6
  <2>2. data[k] = <<r, "head", k>>
    BY <1>9, <2>1, Zenon
  <2>3. r \in Nat /\ k \in Nat
    BY <1>1, <2>1, ReadFinds DEF r
  <2>4. <<r, "head", k>>[2] = "head" /\ <<r, "head", k>>[3] = k
    BY ONLY <2>3
  <2> QED
    BY <2>2, <2>4, Zenon
<1>11. HeadUnits <= Len(data) => data[HeadUnits][1] = r
  <2> SUFFICES ASSUME HeadUnits <= Len(data) PROVE data[HeadUnits][1] = r
    OBVIOUS
  <2>1. HeadUnits \in 1..Len(data) /\ HeadUnits <= HeadUnits
    BY <1>2, <1>7
  <2>2. data[HeadUnits] = <<r, "head", HeadUnits>>
    BY <1>9, <2>1, Zenon
  <2>3. r \in Nat
    BY <1>1, ReadFinds DEF r
  <2>4. <<r, "head", HeadUnits>>[1] = r
    BY ONLY <2>3, <1>2
  <2> QED
    BY <2>2, <2>4, Zenon
<1> QED
  BY <1>1, <1>3, <1>4, <1>6, <1>7, <1>10, <1>11 DEF r, s

\* The header ends, and the body has a length.
LEMMA LengthBodyKeeps ==
    ASSUME ConnectionIInv, NEW n \in 1..BufferUnits, ReadHead(n),
           NEW data, data = call.data \o SubSeq(wire, 1, n), HeadUnits <= Len(data),
           ~Shape.chunked, LengthBody(data)
    PROVE  ConnectionIInv'
<1> DEFINE length == Shape.ends[1]
           rest == SubSeq(data, HeadUnits + 1, Len(data))
<1>1. /\ call.at \in Receiving /\ Take(n) /\ ~bodyError /\ Len(answers) = asked
      /\ UNCHANGED <<asked, answers, peerClosed, bodyError>>
      /\ data \in Seq(Piece) /\ Len(data) \in Nat /\ Len(data) <= BufferUnits
      /\ Inside(data, asked, Shape, 0)
      /\ Behind(wire', asked, Shape, Len(data)) /\ wire' \in Seq(Piece) /\ data[HeadUnits][1] = asked
  BY HeadRead
<1>2. /\ ConnectionShape /\ asked \in Nat /\ bodyError \in BOOLEAN /\ overrun \in BOOLEAN
      /\ HeadUnits \in Nat /\ BufferUnits \in Nat /\ MaxResponse \in Nat /\ Shape \in Shapes /\ asked \in DOMAIN answers
  BY <1>1, ReadFinds
<1>3. length \in Nat /\ Total(Shape) = length /\ ResponseUnits(Shape) = HeadUnits + length
  BY <1>2, ResponseLength
<1>4. rest \in Seq(Piece) /\ Len(rest) = Len(data) - HeadUnits /\ Inside(rest, asked, Shape, HeadUnits)
  <2>1. 0 \in Nat /\ 0 + HeadUnits = HeadUnits
    BY <1>2
  <2>2. /\ rest \in Seq(Piece) /\ Len(rest) = Len(data) - HeadUnits
        /\ Inside(rest, asked, Shape, 0 + HeadUnits)
    BY <1>1, <1>2, <2>1, Cut, Zenon
  <2> QED
    BY <2>1, <2>2, Zenon
<1>5. /\ Len(data) <= ResponseUnits(Shape) /\ (wire' = <<>> <=> Len(data) = ResponseUnits(Shape))
  BY <1>1, <1>2, NothingBehind
<1> DEFINE m == Len(rest)
<1>6. m \in Nat /\ Len(data) = HeadUnits + m /\ m <= length /\ (wire' = <<>> <=> m = length)
  <2> DEFINE d == Len(data)
             u == ResponseUnits(Shape)
  <2>1. /\ d \in Nat /\ HeadUnits \in Nat /\ length \in Nat /\ HeadUnits <= d /\ m = d - HeadUnits
        /\ u = HeadUnits + length /\ d <= u
    BY <1>1, <1>2, <1>3, <1>4, <1>5, Zenon
  <2>2. wire' = <<>> <=> d = u
    BY <1>5
  <2> HIDE DEF length, rest, m, d, u
  <2>3. m \in Nat /\ d = HeadUnits + m /\ m <= length /\ (d = u <=> m = length)
    BY ONLY <2>1
  <2> QED
    BY <2>2, <2>3 DEF d
<1>7. rest = Data(asked, 0, m)
  <2> HIDE DEF rest
  <2>1. HeadUnits + 0 = HeadUnits /\ HeadUnits + 0 + m <= ResponseUnits(Shape) /\ 0 + m = m
    BY <1>2, <1>3, <1>6
  <2>2. \A k \in 1..Len(rest) : rest[k] = <<asked, "data", 0 + k>>
    <3>1. Inside(rest, asked, Shape, HeadUnits + 0) /\ 0 \in Nat
      BY <1>4, <2>1
    <3>2. HeadUnits + 0 + Len(rest) <= ResponseUnits(Shape)
      BY <2>1 DEF m
    <3> QED
      BY <1>2, <1>4, <3>1, <3>2, LengthData, Zenon
  <2>3. Data(asked, 0, 0) \o rest = Data(asked, 0, 0 + m)
    BY <1>2, <1>4, <2>2, DataExtends, Zenon
  <2>4. Data(asked, 0, 0) = <<>>
    BY <1>2, DataIs
  <2>5. <<>> \o rest = rest
    BY <1>4
  <2> QED
    BY <2>1, <2>3, <2>4, <2>5, Zenon
<1>8. answers[data[HeadUnits][1]].ends[1] = length
  BY <1>1 DEF Shape
<1> HIDE DEF length, m
<1>9. CASE length > MaxResponse /\ Fail /\ UNCHANGED <<left_data, overrun>>
  BY <1>1, <1>3, <1>9, FailKeeps
<1>10. CASE /\ length <= MaxResponse /\ Missing(length, Len(rest)) > 0
            /\ Continue([Frame("body", data) EXCEPT !.body = rest, !.left = Missing(length, Len(rest))])
            /\ overrun' = (overrun \/ Copy(length, Len(data)) > length) /\ UNCHANGED left_data
  <2>1. Missing(length, Len(rest)) = length - m /\ length - m \in Nat /\ length - m > 0
    <3>1. Missing(length, m) > 0
      BY <1>10 DEF m
    <3>2. Missing(length, m) = length - m
      BY DEF Missing
    <3>3. length - m \in Nat /\ length - m > 0
      BY ONLY <1>3, <1>6, <3>1, <3>2
    <3> QED
      BY <3>2, <3>3 DEF m
  <2>2. /\ call' \in Calls /\ call'.at = "body" /\ call'.data = data /\ call'.body = rest
        /\ call'.left = length - m /\ UNCHANGED results
    <3>1. call' = [Frame("body", data) EXCEPT !.body = rest, !.left = length - m] /\ UNCHANGED results
      BY <1>10, <2>1, Zenon DEF Continue
    <3> HIDE DEF rest
    <3>2. /\ call' = [at |-> "body", data |-> data, body |-> rest, left |-> length - m, last |-> FALSE]
      BY <3>1 DEF Frame
    <3>3. call' \in Calls
      <4> DEFINE left == length - m
      <4>1. left \in Nat /\ data \in Seq(Piece) /\ rest \in Seq(Piece) /\ "body" \in Receiving \cup {"idle", "closed"}
        BY <1>1, <1>4, <2>1 DEF Receiving
      <4>2. call' = [at |-> "body", data |-> data, body |-> rest, left |-> left, last |-> FALSE]
        BY <3>2, Zenon
      <4> HIDE DEF left
      <4> QED
        BY ONLY <4>1, <4>2 DEF Calls
    <3>4. call'.at = "body" /\ call'.data = data /\ call'.body = rest /\ call'.left = length - m
      BY ONLY <3>2
    <3> QED
      BY <3>1, <3>3, <3>4, Zenon
  <2> HIDE DEF rest
  <2>3. m + (length - m) = length
    BY <1>3, <1>6
  <2>4. BodyPlace'
    <3>1. Len(answers') = asked' /\ ~Shape'.chunked /\ Shape'.ends[1] <= MaxResponse /\ ~bodyError' /\ Shape' = Shape
          /\ Shape'.ends[1] = length
      BY <1>1, <1>10 DEF Shape, length
    <3>2. call'.left > 0 /\ Len(call'.body) + call'.left = length /\ call'.body = Data(asked', 0, Len(call'.body))
      BY <1>1, <1>7, <2>1, <2>2, <2>3 DEF m
    <3>3. Behind(wire', asked', Shape', HeadUnits + Len(call'.body))
      BY <1>1, <1>6, <2>2, <3>1 DEF m
    <3> QED
      BY <3>1, <3>2, <3>3, Zenon DEF BodyPlace
  <2>5. HeadPlace' /\ ChunkPlace' /\ RestPlace'
    BY <2>2 DEF HeadPlace, ChunkPlace, RestPlace
  <2>6. overrun' \in BOOLEAN
    BY <1>2, <1>10
  <2>7. OverrunOnlyShort'
    <3>1. CASE overrun
      BY <1>1, <3>1 DEF ConnectionIInv, OverrunOnlyShort
    <3>2. CASE ~overrun
      <4>1. overrun' => Copy(length, Len(data)) > length
        BY <1>10, <3>2
      <4>2. Copy(length, Len(data)) > length => Total(Shape) < BufferUnits
        BY <1>1, <1>2, <1>3 DEF Copy
      <4>3. asked \in DOMAIN answers' /\ ~answers'[asked].chunked /\ answers'[asked] = Shape
        BY <1>1, <1>2 DEF Shape
      <4> QED
        BY <4>1, <4>2, <4>3, Zenon DEF OverrunOnlyShort
    <3> QED
      BY <3>1, <3>2
  <2>8. call'.at \in Receiving /\ Len(call'.data) <= BufferUnits
    BY <1>1, <2>2 DEF Receiving
  <2>9. UNCHANGED <<asked, answers, left_data, results>> /\ bodyError' \in BOOLEAN /\ (bodyError => bodyError')
    BY <1>1, <1>2, <1>10, <2>2
  <2> QED
    BY <1>1, <2>2, <2>4, <2>5, <2>6, <2>7, <2>8, <2>9, ContinueKeeps, Zenon
<1>11. CASE /\ length <= MaxResponse /\ Missing(length, Len(rest)) <= 0
            /\ Return(SubSeq(rest, 1, length)) /\ left_data' = Left(data, HeadUnits + length)
            /\ UNCHANGED overrun
  <2>0. Missing(length, m) <= 0
    BY <1>11 DEF m
  <2> HIDE DEF rest
  <2>1. m = length
    BY <1>3, <1>6, <2>0 DEF Missing
  <2>2. SubSeq(rest, 1, length) = rest
    BY <1>4, <2>1 DEF m
  <2>3. wire' = <<>>
    BY <1>6, <2>1
  <2>4. left_data' = <<>>
    <3>1. Len(data) - (HeadUnits + length) = 0
      BY <1>2, <1>3, <1>6, <2>1
    <3>2. SubSeq(data, 1, 0) = <<>>
      BY <1>1
    <3> QED
      BY <3>1, <3>2, <1>11, Zenon DEF Left
  <2>5. Return(rest) /\ rest \in Seq(Piece) /\ rest = Data(asked, 0, Total(Shape))
    BY <1>3, <1>4, <1>7, <1>11, <2>1, <2>2, Zenon
  <2>6. UNCHANGED <<asked, answers, bodyError, overrun>>
    BY <1>1, <1>11
  <2> QED
    BY <1>1, <2>3, <2>4, <2>5, <2>6, ReturnedKeeps, Zenon
<1> QED
  BY <1>8, <1>9, <1>10, <1>11, Zenon DEF LengthBody

LEMMA ReadHeadKeeps ==
    ASSUME ConnectionIInv, NEW n \in 1..BufferUnits, ReadHead(n)
    PROVE  ConnectionIInv'
<1> DEFINE data == call.data \o SubSeq(wire, 1, n)
           rest == SubSeq(data, HeadUnits + 1, Len(data))
<1>1. /\ call.at \in Receiving /\ Take(n) /\ ~bodyError /\ Len(answers) = asked
      /\ UNCHANGED <<asked, answers, peerClosed, bodyError>>
      /\ data \in Seq(Piece) /\ Len(data) \in Nat /\ Len(data) <= BufferUnits
      /\ Inside(data, asked, Shape, 0)
      /\ Behind(wire', asked, Shape, Len(data)) /\ wire' \in Seq(Piece)
      /\ ~HeadError(data)
      /\ HeadUnits <= Len(data) => data[HeadUnits][1] = asked
  BY HeadRead, Zenon
<1>2. /\ HeadUnits \in Nat /\ BufferUnits \in Nat /\ HeadUnits < BufferUnits /\ Shape \in Shapes
      /\ bodyError \in BOOLEAN /\ overrun \in BOOLEAN /\ asked \in Nat /\ Shape' = Shape
  BY <1>1, ReadFinds DEF Shape
<1>3. \/ Len(data) < HeadUnits /\ Continue(Frame("head", data)) /\ UNCHANGED <<left_data, overrun>>
      \/ HeadUnits <= Len(data) /\ Shape.chunked /\ Continue(Frame("chunk", rest)) /\ UNCHANGED <<left_data, overrun>>
      \/ HeadUnits <= Len(data) /\ ~Shape.chunked /\ LengthBody(data)
  <2>1. \/ /\ HeadError(data) \/ (~(~HeadError(data) /\ HeadEnd(data)) /\ Len(data) = BufferUnits)
           /\ Fail /\ UNCHANGED <<left_data, overrun>>
        \/ /\ ~HeadError(data) /\ ~(~HeadError(data) /\ HeadEnd(data)) /\ Len(data) < BufferUnits
           /\ Continue(Frame("head", data)) /\ UNCHANGED <<left_data, overrun>>
        \/ /\ ~HeadError(data) /\ HeadEnd(data) /\ answers[data[HeadUnits][1]].chunked
           /\ Continue(Frame("chunk", rest)) /\ UNCHANGED <<left_data, overrun>>
        \/ /\ ~HeadError(data) /\ HeadEnd(data) /\ ~answers[data[HeadUnits][1]].chunked
           /\ LengthBody(data)
    BY Zenon DEF ReadHead
  <2> HIDE DEF data, rest
  <2>2. HeadEnd(data) <=> HeadUnits <= Len(data)
    BY <1>1, <1>2 DEF HeadEnd
  <2>3. ~HeadEnd(data) => Len(data) # BufferUnits /\ Len(data) < HeadUnits
    BY <1>1, <1>2, <2>2
  <2> QED
    BY <1>1, <2>1, <2>2, <2>3, Zenon DEF Shape
<1>4. CASE Len(data) < HeadUnits /\ Continue(Frame("head", data)) /\ UNCHANGED <<left_data, overrun>>
  <2> HIDE DEF data, rest
  <2>1. call' \in Calls /\ call'.at = "head" /\ call'.data = data /\ UNCHANGED results /\ call'.at \in Receiving
    <3>1. "head" \in Receiving
      BY DEF Receiving
    <3>2. call' = Frame("head", data) /\ UNCHANGED results
      BY <1>4 DEF Continue
    <3>3. /\ Frame("head", data) \in Calls /\ Frame("head", data).at = "head"
          /\ Frame("head", data).data = data
      BY <1>1, <3>1, FrameIs
    <3> QED
      BY <3>1, <3>2, <3>3, Zenon
  <2>2. HeadPlace'
    <3>1. /\ ~bodyError' /\ Len(call'.data) < HeadUnits /\ Len(answers') = asked'
          /\ Behind(wire', asked', Shape', Len(call'.data)) /\ Inside(call'.data, asked', Shape', 0)
      BY <1>1, <1>2, <1>4, <2>1, Zenon
    <3> QED
      BY <3>1, Zenon DEF HeadPlace
  <2>3. BodyPlace' /\ ChunkPlace' /\ RestPlace'
    BY <2>1 DEF BodyPlace, ChunkPlace, RestPlace
  <2>4. OverrunOnlyShort' /\ UNCHANGED <<asked, answers, left_data, results>> /\ overrun' \in BOOLEAN
        /\ bodyError' \in BOOLEAN /\ (bodyError => bodyError')
    BY <1>1, <1>2, <1>4, <2>1 DEF ConnectionIInv, OverrunOnlyShort
  <2>5. Len(call'.data) <= BufferUnits
    BY <1>1, <2>1
  <2> QED
    BY <1>1, <2>1, <2>2, <2>3, <2>4, <2>5, ContinueKeeps, Zenon
<1>5. CASE HeadUnits <= Len(data) /\ Shape.chunked /\ Continue(Frame("chunk", rest)) /\ UNCHANGED <<left_data, overrun>>
  <2> HIDE DEF data
  <2>1. rest \in Seq(Piece) /\ Len(rest) = Len(data) - HeadUnits /\ Inside(rest, asked, Shape, HeadUnits)
    <3>1. 0 \in Nat /\ 0 + HeadUnits = HeadUnits
      BY <1>2
    <3>2. /\ rest \in Seq(Piece) /\ Len(rest) = Len(data) - HeadUnits
          /\ Inside(rest, asked, Shape, 0 + HeadUnits)
      BY <1>1, <1>2, <1>5, <3>1, Cut, Zenon
    <3> QED
      BY <3>1, <3>2, Zenon
  <2> HIDE DEF rest
  <2>2. /\ call' \in Calls /\ call'.at = "chunk" /\ call'.data = rest /\ call'.body = <<>>
        /\ UNCHANGED results /\ call'.at \in Receiving
    <3>1. "chunk" \in Receiving
      BY DEF Receiving
    <3> QED
      BY <1>5, <2>1, <3>1, FrameIs, Zenon DEF Continue
  <2>3. /\ 1 \in 1..Len(Shape.ends) + 1 /\ BytesBefore(Shape, 1) = 0 /\ ChunkAt(Shape, 1) - 1 = HeadUnits
    <3>1. Len(Shape.ends) \in Nat
      BY <1>2, ResponseLength
    <3> QED
      BY <1>2, <3>1 DEF BytesBefore, ChunkAt
  <2>4. Data(asked, 0, 0) = <<>>
    BY <1>2, DataIs
  <2>5. Len(rest) \in Nat /\ HeadUnits + Len(rest) = Len(data) /\ Len(rest) <= BufferUnits
    BY <1>1, <1>2, <1>5, <2>1
  <2>6. ChunkPlace'
    <3>1. /\ call'.body = Data(asked', 0, BytesBefore(Shape', 1))
          /\ Behind(wire', asked', Shape', ChunkAt(Shape', 1) - 1 + Len(call'.data))
          /\ Inside(call'.data, asked', Shape', ChunkAt(Shape', 1) - 1)
      BY <1>1, <1>2, <2>1, <2>2, <2>3, <2>4, <2>5, Zenon
    <3>2. ~bodyError' /\ Len(answers') = asked' /\ Shape'.chunked /\ 1 \in 1..Len(Shape'.ends) + 1
      BY <1>1, <1>2, <1>5, <2>3, Zenon
    <3> QED
      BY <3>1, <3>2, Zenon DEF ChunkPlace
  <2>7. HeadPlace' /\ BodyPlace' /\ RestPlace'
    BY <2>2 DEF HeadPlace, BodyPlace, RestPlace
  <2>8. OverrunOnlyShort' /\ UNCHANGED <<asked, answers, left_data, results>> /\ overrun' \in BOOLEAN
        /\ bodyError' \in BOOLEAN /\ (bodyError => bodyError')
    BY <1>1, <1>2, <1>5, <2>2 DEF ConnectionIInv, OverrunOnlyShort
  <2>9. Len(call'.data) <= BufferUnits
    BY <2>2, <2>5
  <2> QED
    BY <1>1, <2>2, <2>6, <2>7, <2>8, <2>9, ContinueKeeps, Zenon
<1>6. CASE HeadUnits <= Len(data) /\ ~Shape.chunked /\ LengthBody(data)
  BY <1>6, LengthBodyKeeps, Zenon
<1> QED
  BY <1>3, <1>4, <1>5, <1>6

\* What the buffer has behind its first nparse units.
IsBehind(rest, data, nparse) ==
    /\ rest = SubSeq(data, nparse + 1, Len(data))
    /\ Len(rest) = Len(data) - nparse

\* Chunk i is in the body: it was the empty one and the response ends with it,
\* or the next one follows.
LEMMA ChunkDoneKeeps ==
    ASSUME ConnectionIInv, call.at \in Receiving, ~bodyError, Len(answers) = asked, Shape.chunked,
           NEW i \in 1..Len(Shape.ends) + 1, NEW body, NEW last,
           NEW data \in Seq(Piece), NEW nparse \in Nat,
           NEW rest \in Seq(Piece), IsBehind(rest, data, nparse),
           body = Data(asked, 0, BytesBefore(Shape, i) + ChunkBytes(Shape, i)),
           last <=> i = Len(Shape.ends) + 1,
           Len(rest) <= BufferUnits, Inside(rest, asked, Shape, ChunkEnd(Shape, i)),
           wire' \in Seq(Piece), Behind(wire', asked, Shape, ChunkEnd(Shape, i) + Len(rest)),
           ChunkDone(body, data, nparse, last), UNCHANGED <<asked, answers, bodyError, overrun>>
    PROVE  ConnectionIInv'
<1>0. /\ ConnectionShape /\ asked \in Nat /\ Shape \in Shapes /\ Shape' = Shape /\ left_data = <<>>
      /\ bodyError \in BOOLEAN /\ overrun \in BOOLEAN
  BY Waiting DEF ConnectionIInv, ConnectionShape, Shape
<1> DEFINE s == Shape
           b == BytesBefore(s, i)
           c == ChunkBytes(s, i)
           e == ChunkEnd(s, i)
<1>1. /\ Len(s.ends) \in Nat /\ b \in Nat /\ c \in Nat /\ e \in Nat
      /\ i <= Len(s.ends) => BytesBefore(s, i + 1) = b + c /\ ChunkAt(s, i + 1) = e + 1
      /\ i = Len(s.ends) + 1 => c = 0 /\ b = Total(s) /\ ResponseUnits(s) = e
  BY <1>0, ChunkLayout
<1>2. Len(rest) \in Nat /\ b + c \in Nat /\ e + Len(rest) \in Nat /\ i \in Nat
  <2>1. Len(rest) \in Nat
    BY ONLY rest \in Seq(Piece)
  <2>2. i \in Nat
    BY ONLY <1>1, i \in 1..Len(Shape.ends) + 1
  <2> HIDE DEF b, c, e
  <2> QED
    BY <1>1, <2>1, <2>2
<1>3. body \in Seq(Piece)
  BY <1>0, <1>2, DataIs
<1>4. e + Len(rest) <= ResponseUnits(s) /\ (wire' = <<>> <=> e + Len(rest) = ResponseUnits(s))
  BY <1>0, <1>2, NothingBehind
<1>5. CASE Len(body) > MaxResponse /\ Fail /\ UNCHANGED left_data
  BY <1>5, FailKeeps
<1>6. CASE last /\ Return(body) /\ left_data' = Left(data, nparse)
  <2>1. c = 0 /\ b = Total(s) /\ ResponseUnits(s) = e
    BY <1>1, <1>6
  <2> HIDE DEF b, c, e
  <2>2. Len(rest) = 0 /\ wire' = <<>> /\ b + c = Total(s)
    <3> DEFINE u == ResponseUnits(s)
    <3>1. Len(rest) \in Nat /\ e \in Nat /\ e + Len(rest) <= u /\ u = e
      BY <1>1, <1>2, <1>4, <2>1, Zenon
    <3>2. Len(rest) = 0 /\ e + Len(rest) = u
      BY ONLY <3>1
    <3>3. b + c = b
      BY ONLY <1>1, <2>1
    <3> QED
      BY <1>4, <2>1, <3>2, <3>3, Zenon
  <2>3. left_data' = <<>>
    <3>1. Len(data) \in Nat /\ Len(data) - nparse = 0
      BY ONLY <2>2, data \in Seq(Piece), nparse \in Nat, IsBehind(rest, data, nparse) DEF IsBehind
    <3> QED
      BY <1>6, <3>1 DEF Left
  <2>4. body = Data(asked, 0, Total(Shape))
    BY <2>2 DEF b, c
  <2>5. Return(body)
    BY <1>6
  <2> QED
    BY <1>3, <2>2, <2>3, <2>4, <2>5, ReturnedKeeps, Zenon
<1>7. CASE /\ ~last /\ Continue([Frame("chunk", rest) EXCEPT !.body = body])
           /\ UNCHANGED left_data
  <2>1. i <= Len(s.ends) /\ i + 1 \in 1..Len(s.ends) + 1
    <3>1. i \in 1..Len(s.ends) + 1 /\ i # Len(s.ends) + 1 /\ Len(s.ends) \in Nat
      BY <1>1, <1>7, Zenon
    <3> QED
      BY ONLY <3>1
  <2>2. BytesBefore(s, i + 1) = b + c /\ ChunkAt(s, i + 1) - 1 = e
    BY <1>1, <2>1
  <2>3. /\ call' = [at |-> "chunk", data |-> rest, body |-> body, left |-> 0, last |-> FALSE]
        /\ UNCHANGED results
    BY <1>7 DEF Continue, Frame
  <2>4. call' \in Calls /\ call'.at \in Receiving
    BY ONLY <1>3, <2>3, rest \in Seq(Piece) DEF Calls, Receiving
  <2>5. call'.at = "chunk" /\ call'.data = rest /\ call'.body = body
    BY ONLY <2>3
  <2>6. ChunkPlace'
    <3>1. /\ call'.body = Data(asked', 0, BytesBefore(Shape', i + 1))
          /\ Behind(wire', asked', Shape', ChunkAt(Shape', i + 1) - 1 + Len(call'.data))
          /\ Inside(call'.data, asked', Shape', ChunkAt(Shape', i + 1) - 1)
      BY <1>0, <2>2, <2>5, Zenon
    <3>2. ~bodyError' /\ Len(answers') = asked' /\ Shape'.chunked /\ i + 1 \in 1..Len(Shape'.ends) + 1
      BY <1>0, <2>1, Zenon
    <3> QED
      BY <3>1, <3>2, Zenon DEF ChunkPlace
  <2>7. HeadPlace' /\ BodyPlace' /\ RestPlace'
    BY <2>5 DEF HeadPlace, BodyPlace, RestPlace
  <2>8. OverrunOnlyShort' /\ UNCHANGED <<asked, answers, left_data, results>> /\ overrun' \in BOOLEAN
        /\ bodyError' \in BOOLEAN /\ (bodyError => bodyError')
    BY <1>0, <1>7, <2>3 DEF ConnectionIInv, OverrunOnlyShort
  <2>9. Len(call'.data) <= BufferUnits
    BY <2>5
  <2> QED
    BY <2>4, <2>6, <2>7, <2>8, <2>9, ContinueKeeps, Zenon
<1> QED
  BY <1>5, <1>6, <1>7, Zenon DEF ChunkDone, IsBehind

LEMMA ReadChunkKeeps ==
    ASSUME ConnectionIInv, NEW n \in 1..BufferUnits, ReadChunk(n)
    PROVE  ConnectionIInv'
<1> DEFINE data == call.data \o SubSeq(wire, 1, n)
           rest == SubSeq(data, 2, Len(data))
           s == Shape
           r == asked
<1>1. /\ call.at = "chunk" /\ call.at \in Receiving /\ n <= BufferUnits - Len(call.data) /\ Take(n)
      /\ UNCHANGED <<asked, answers, peerClosed, bodyError, overrun>>
  BY DEF ReadChunk, FreeUnits, Receiving
<1>2. PICK i \in 1..Len(s.ends) + 1 :
         /\ call.body = Data(r, 0, BytesBefore(s, i))
         /\ Behind(wire, r, s, ChunkAt(s, i) - 1 + Len(call.data))
         /\ Inside(call.data, r, s, ChunkAt(s, i) - 1)
  BY <1>1 DEF ConnectionIInv, ChunkPlace
<1>3. ~bodyError /\ Len(answers) = asked /\ Shape.chunked
  BY <1>1 DEF ConnectionIInv, ChunkPlace
<1>4. /\ ConnectionShape /\ n \in Nat \ {0} /\ n <= Len(wire) /\ wire \in Seq(Piece)
      /\ wire' = SubSeq(wire, n + 1, Len(wire))
      /\ call.data \in Seq(Piece) /\ Len(call.data) \in Nat /\ call.body \in Seq(Piece)
      /\ r \in Nat /\ bodyError \in BOOLEAN /\ overrun \in BOOLEAN /\ BufferUnits \in Nat /\ s \in Shapes
  BY <1>1, <1>3, ReadFinds
<1>5. Shape' = Shape
  BY <1>1 DEF Shape
<1> DEFINE a == ChunkAt(s, i)
           b == BytesBefore(s, i)
           c == ChunkBytes(s, i)
           e == ChunkEnd(s, i)
<1>6. /\ a \in Nat /\ a >= 1 /\ b \in Nat /\ c \in Nat /\ e = a + c + 1 /\ Len(s.ends) \in Nat
      /\ (c = 0 <=> i = Len(s.ends) + 1)
  <2>1. /\ Len(s.ends) \in Nat /\ b \in Nat /\ c \in Nat /\ a \in Nat /\ a > HeadUnits
        /\ e = a + c + 1 /\ (i <= Len(s.ends) => c > 0) /\ (i = Len(s.ends) + 1 => c = 0)
    BY <1>3, <1>4, ChunkLayout, Zenon
  <2>2. HeadUnits \in Nat /\ i \in Nat /\ (i <= Len(s.ends) \/ i = Len(s.ends) + 1)
    <3>1. HeadUnits \in Nat
      BY ConnectionSizes, Zenon
    <3>2. i \in 1..Len(s.ends) + 1 /\ Len(s.ends) \in Nat
      BY <2>1, Zenon
    <3> QED
      BY ONLY <3>1, <3>2
  <2> HIDE DEF a, b, c, e, s
  <2> QED
    BY <2>1, <2>2
<1> HIDE DEF s, r
<1> DEFINE got == SubSeq(wire, 1, n)
           p == a - 1 + Len(call.data)
<1>7. p \in Nat /\ a - 1 \in Nat /\ p + n = a - 1 + (Len(call.data) + n)
  <2> HIDE DEF a
  <2> QED
    BY <1>4, <1>6
<1>8. /\ wire' \in Seq(Piece) /\ Behind(wire', r, s, p + n)
      /\ got \in Seq(Piece) /\ Len(got) = n /\ Inside(got, r, s, p)
  <2>1. Behind(wire, r, s, p) /\ n \in Nat
    BY <1>2, <1>4
  <2> HIDE DEF p, got
  <2> QED
    BY <1>4, <1>7, <2>1, Taken, Zenon DEF got
<1>9. data \in Seq(Piece) /\ Len(data) = Len(call.data) + n /\ Inside(data, r, s, a - 1)
  <2>1. Inside(call.data, r, s, a - 1)
    BY <1>2
  <2> HIDE DEF a, got
  <2>2. Inside(got, r, s, (a - 1) + Len(call.data))
    BY <1>8
  <2>3. /\ call.data \o got \in Seq(Piece) /\ Len(call.data \o got) = Len(call.data) + Len(got)
        /\ Inside(call.data \o got, r, s, a - 1)
    BY <1>4, <1>7, <1>8, <2>1, <2>2, Joined, Zenon
  <2> QED
    BY <1>8, <2>3, Zenon DEF got
<1> DEFINE l == Len(data)
<1> HIDE DEF a, b, c, e, data, got, p
<1>10. l \in Nat /\ l >= 1 /\ l <= BufferUnits /\ p + n = a - 1 + l
  BY <1>1, <1>4, <1>7, <1>9
<1>11. data[1] = <<r, "size", c>>
  <2>1. data[1] = Response(r, s)[(a - 1) + 1]
    BY <1>9, <1>10 DEF Inside
  <2>2. (a - 1) + 1 = a /\ a \in a..e
    BY <1>6
  <2>3. Response(r, s)[a] = <<r, "size", c>>
    BY <1>3, <1>4, <2>2, UnitOfChunk DEF a, c, e, s
  <2> QED
    BY <2>1, <2>2, <2>3, Zenon
<1>12. data[1][2] = "size" /\ data[1][3] = c
  <2>1. <<r, "size", c>>[2] = "size" /\ <<r, "size", c>>[3] = c
    BY ONLY <1>4, <1>6
  <2> QED
    BY <1>11, <2>1, Zenon
<1>13. rest \in Seq(Piece) /\ Len(rest) = l - 1 /\ Inside(rest, r, s, a)
  <2>1. 1 \in Nat /\ 1 + 1 = 2 /\ (a - 1) + 1 = a
    BY <1>6
  <2>2. /\ SubSeq(data, 1 + 1, l) \in Seq(Piece) /\ Len(SubSeq(data, 1 + 1, l)) = l - 1
        /\ Inside(SubSeq(data, 1 + 1, l), r, s, (a - 1) + 1)
    BY <1>7, <1>9, <1>10, <2>1, Cut, Zenon
  <2> QED
    BY <2>1, <2>2, Zenon
<1>14. \/ c + 1 <= Len(rest) /\ ChunkDone(call.body \o SubSeq(rest, 1, c), data, c + 2, c = 0)
       \/ /\ c + 1 > Len(rest) /\ UNCHANGED left_data
          /\ Continue([at |-> "rest", data |-> <<>>, body |-> call.body \o rest,
                       left |-> c + 1 - Len(rest), last |-> c = 0])
  <2>1. \/ data[1][2] # "size"
        \/ /\ data[1][3] + 1 <= Len(rest)
           /\ ChunkDone(call.body \o SubSeq(rest, 1, data[1][3]), data, data[1][3] + 2, data[1][3] = 0)
        \/ /\ data[1][3] + 1 > Len(rest) /\ UNCHANGED left_data
           /\ Continue([at |-> "rest", data |-> <<>>, body |-> call.body \o rest,
                        left |-> data[1][3] + 1 - Len(rest), last |-> data[1][3] = 0])
    BY Zenon DEF ReadChunk, data
  <2> HIDE DEF rest
  <2> QED
    BY <1>12, <2>1, Zenon
<1> DEFINE m == Len(rest)
<1> HIDE DEF rest
<1>15. m \in Nat /\ l = m + 1 /\ a - 1 + l = a + m
  BY <1>6, <1>10, <1>13
<1>16. a + 0 = a /\ b + 0 = b /\ 0 \in Nat
  BY <1>6
<1>17. CASE c + 1 <= m /\ ChunkDone(call.body \o SubSeq(rest, 1, c), data, c + 2, c = 0)
  <2> DEFINE d == SubSeq(rest, 1, c)
             f == SubSeq(data, (c + 2) + 1, l)
  <2>1. /\ c <= m /\ c + 2 \in Nat /\ c + 2 <= l /\ (a - 1) + (c + 2) = e /\ 0 + c <= c /\ 0 + c = c
        /\ l - (c + 2) = m - (c + 1)
    BY <1>6, <1>15, <1>17
  <2>2. d \in Seq(Piece) /\ Len(d) = c /\ Inside(d, r, s, a + 0)
    BY <1>6, <1>13, <1>16, <2>1, Cut, Zenon
  <2>3. f \in Seq(Piece) /\ Len(f) = l - (c + 2) /\ Len(f) = m - (c + 1) /\ Inside(f, r, s, e)
    <3>1. /\ f \in Seq(Piece) /\ Len(f) = l - (c + 2)
          /\ Inside(f, r, s, (a - 1) + (c + 2))
      BY <1>7, <1>9, <1>10, <2>1, Cut, Zenon
    <3> QED
      BY <2>1, <3>1, Zenon
  <2> HIDE DEF d, f
  <2>4. \A k \in 1..Len(d) : d[k] = <<r, "data", (b + 0) + k>>
    <3>1. Inside(d, r, s, ChunkAt(s, i) + 0) /\ 0 + Len(d) <= ChunkBytes(s, i) /\ s.chunked
      BY <1>3, <2>1, <2>2 DEF a, c, s
    <3> QED
      BY <1>4, <1>16, <2>2, <3>1, ChunkData DEF b
  <2>5. call.body \o d = Data(r, 0, b + c)
    <3>1. Data(r, 0, b) \o d = Data(r, 0, b + Len(d))
      <4>1. \A k \in 1..Len(d) : d[k] = <<r, "data", b + k>>
        BY <1>16, <2>4, Zenon
      <4> QED
        BY <1>4, <1>6, <2>2, <4>1, DataExtends, Zenon
    <3> QED
      BY <1>2, <2>2, <3>1, Zenon DEF b
  <2>6. Len(f) <= BufferUnits /\ e + Len(f) = p + n
    <3>1. Len(f) = m - (c + 1) /\ m + 1 <= BufferUnits /\ p + n = a + m
      BY <1>10, <1>15, <2>3
    <3> QED
      BY ONLY <3>1, <1>4, <1>6, <1>15
  <2>7. /\ call.body \o d = Data(asked, 0, BytesBefore(Shape, i) + ChunkBytes(Shape, i))
        /\ Inside(f, asked, Shape, ChunkEnd(Shape, i))
        /\ Behind(wire', asked, Shape, ChunkEnd(Shape, i) + Len(f))
    BY <1>8, <2>3, <2>5, <2>6, Zenon DEF r, s, b, c, e
  <2>8. ChunkDone(call.body \o d, data, c + 2, c = 0) /\ ((c = 0) <=> i = Len(Shape.ends) + 1) /\ i \in 1..Len(Shape.ends) + 1
    BY <1>6, <1>17, Zenon DEF d, s
  <2>9. UNCHANGED <<asked, answers, bodyError, overrun>>
    BY <1>1
  <2> QED
    <3>1. IsBehind(f, data, c + 2)
      BY <2>1, <2>3 DEF f, IsBehind
    <3> QED
      <4> DEFINE new == call.body \o d
      <4>1. /\ wire' \in Seq(Piece) /\ data \in Seq(Piece) /\ f \in Seq(Piece) /\ c + 2 \in Nat
            /\ Len(f) <= BufferUnits /\ call.at \in Receiving
        BY <1>1, <1>8, <1>9, <2>1, <2>3, <2>6, Zenon
      <4>2. /\ new = Data(asked, 0, BytesBefore(Shape, i) + ChunkBytes(Shape, i))
            /\ ChunkDone(new, data, c + 2, c = 0)
        BY <2>7, <2>8, Zenon
      <4> HIDE DEF new, l, m
      <4> QED
        BY <1>3, <2>7, <2>8, <2>9, <3>1, <4>1, <4>2, ChunkDoneKeeps, Zenon
<1>18. CASE /\ c + 1 > m /\ UNCHANGED left_data
            /\ Continue([at |-> "rest", data |-> <<>>, body |-> call.body \o rest, left |-> c + 1 - m, last |-> c = 0])
  <2> DEFINE left == c + 1 - m
             last == c = 0
             body == call.body \o rest
  <2>1. left \in Nat /\ left > 0 /\ left <= c + 1 /\ 0 + m <= c /\ b + m = b + c + 1 - left /\ e - left = a + m
    BY <1>6, <1>15, <1>18
  <2>2. \A k \in 1..Len(rest) : rest[k] = <<r, "data", (b + 0) + k>>
    <3>1. Inside(rest, r, s, ChunkAt(s, i) + 0) /\ 0 + Len(rest) <= ChunkBytes(s, i) /\ s.chunked
      BY <1>3, <1>13, <1>16, <2>1 DEF a, c, s
    <3> QED
      BY <1>4, <1>13, <1>16, <3>1, ChunkData DEF b
  <2>3. body = Data(r, 0, b + m)
    <3>1. Data(r, 0, b) \o rest = Data(r, 0, b + Len(rest))
      <4>1. \A k \in 1..Len(rest) : rest[k] = <<r, "data", b + k>>
        BY <1>16, <2>2, Zenon
      <4> QED
        BY <1>4, <1>6, <1>13, <4>1, DataExtends, Zenon
    <3> QED
      BY <1>2, <3>1, Zenon DEF b
  <2>4. body \in Seq(Piece)
    BY <1>4, <1>13, ConcatProperties, Zenon
  <2>5. last \in BOOLEAN /\ (last = (i = Len(s.ends) + 1))
    BY <1>6
  <2>6. call' = [at |-> "rest", data |-> <<>>, body |-> body, left |-> left, last |-> last] /\ UNCHANGED results
    BY <1>18, Zenon DEF Continue
  <2> HIDE DEF left, last, body
  <2>7. call' \in Calls /\ call'.at \in Receiving /\ Len(call'.data) = 0
    BY ONLY <2>1, <2>4, <2>5, <2>6 DEF Calls, Receiving
  <2>8. call'.at = "rest" /\ call'.body = body /\ call'.left = left /\ call'.last = last
    BY ONLY <2>6
  <2>9. RestPlace'
    <3>1. ~bodyError' /\ Len(answers') = asked' /\ Shape'.chunked /\ i \in 1..Len(Shape'.ends) + 1
      BY <1>1, <1>3, <1>5, Zenon DEF s
    <3>2. call'.last = (i = Len(Shape'.ends) + 1)
      BY <1>5, <2>5, <2>8, Zenon DEF s
    <3>3. call'.left > 0 /\ call'.left <= ChunkBytes(Shape', i) + 1
      BY <1>5, <2>1, <2>8, Zenon DEF c, s
    <3>4. call'.body = Data(asked', 0, BytesBefore(Shape', i) + ChunkBytes(Shape', i) + 1 - call'.left)
      BY <1>1, <1>5, <2>1, <2>3, <2>8, Zenon DEF b, c, s, r
    <3>5. Behind(wire', asked', Shape', ChunkEnd(Shape', i) - call'.left)
      <4>1. Behind(wire', r, s, e - left)
        BY <1>8, <1>10, <1>15, <2>1, Zenon
      <4> QED
        BY <4>1, <1>1, <1>5, <2>8, Zenon DEF e, s, r
    <3> QED
      BY <3>1, <3>2, <3>3, <3>4, <3>5, Zenon DEF RestPlace
  <2>10. HeadPlace' /\ BodyPlace' /\ ChunkPlace'
    BY <2>8 DEF HeadPlace, BodyPlace, ChunkPlace
  <2>11. OverrunOnlyShort' /\ UNCHANGED <<asked, answers, left_data, results>> /\ overrun' \in BOOLEAN
        /\ bodyError' \in BOOLEAN /\ (bodyError => bodyError')
    BY <1>1, <1>4, <1>18, <2>6 DEF ConnectionIInv, OverrunOnlyShort
  <2>12. Len(call'.data) <= BufferUnits
    BY <1>4, <2>7
  <2> QED
    BY <1>1, <1>8, <2>7, <2>9, <2>10, <2>11, <2>12, ContinueKeeps, Zenon
<1> QED
  BY <1>14, <1>17, <1>18

\* body.resize(body.size() - 2) takes the line end off what was appended last.
LEMMA EndDropped ==
    ASSUME NEW d \in Seq(Piece), NEW f \in Seq(Piece), Len(f) > 0
    PROVE  WithoutEnd(d \o f) = d \o SubSeq(f, 1, Len(f) - 1)
<1> DEFINE g == SubSeq(f, 1, Len(f) - 1)
           x == d \o f
           y == SubSeq(x, 1, Len(x) - 1)
<1>1. Len(d) \in Nat /\ Len(f) \in Nat /\ Len(f) - 1 \in Nat
  OBVIOUS
<1>2. /\ x \in Seq(Piece) /\ Len(x) = Len(d) + Len(f)
      /\ \A k \in 1..Len(d) + Len(f) : x[k] = IF k <= Len(d) THEN d[k] ELSE f[k - Len(d)]
  BY ConcatProperties, Zenon
<1>3. g \in Seq(Piece) /\ Len(g) = Len(f) - 1 /\ \A k \in 1..Len(f) - 1 : g[k] = f[k]
  <2> DEFINE q == Len(f) - 1
  <2>1. q \in Nat /\ q <= Len(f) /\ g = SubSeq(f, 1, q)
    BY <1>1
  <2> HIDE DEF q, g
  <2>2. g \in Seq(Piece) /\ Len(g) = q /\ \A k \in 1..q : g[k] = f[k]
    BY ONLY <2>1, f \in Seq(Piece)
  <2> QED
    BY <2>2 DEF q
<1> HIDE DEF x, g
<1>4. y \in Seq(Piece) /\ Len(y) = Len(d) + Len(f) - 1 /\ \A k \in 1..Len(d) + Len(f) - 1 : y[k] = x[k]
  BY <1>1, <1>2
<1>5. /\ d \o g \in Seq(Piece) /\ Len(d \o g) = Len(d) + Len(g)
      /\ \A k \in 1..Len(d) + Len(g) : (d \o g)[k] = IF k <= Len(d) THEN d[k] ELSE g[k - Len(d)]
  BY <1>3, ConcatProperties, Zenon
<1> HIDE DEF y
<1>6. ASSUME NEW k \in 1..Len(d) + Len(g) PROVE (d \o g)[k] = y[k]
  <2>1. k \in 1..Len(d) + Len(f) - 1 /\ k \in 1..Len(d) + Len(f)
    BY <1>1, <1>3
  <2>2. y[k] = IF k <= Len(d) THEN d[k] ELSE f[k - Len(d)]
    BY <1>2, <1>4, <2>1, Zenon
  <2>3. ~(k <= Len(d)) => k - Len(d) \in 1..Len(f) - 1
    BY <1>1, <2>1
  <2> QED
    BY <1>3, <1>5, <2>2, <2>3, Zenon
<1>7. d \o g = y
  <2>1. Len(d \o g) = Len(y)
    BY <1>1, <1>3, <1>4, <1>5
  <2> QED
    BY <1>4, <1>5, <1>6, <2>1, SeqEqual
<1> QED
  BY <1>7 DEF WithoutEnd, x, y, g

LEMMA ReadRestKeeps ==
    ASSUME ConnectionIInv, NEW n \in 1..BufferUnits, ReadRest(n)
    PROVE  ConnectionIInv'
<1> DEFINE s == Shape
           r == asked
           left == call.left
           got == SubSeq(wire, 1, n)
           body == call.body \o got
<1>1. /\ call.at = "rest" /\ call.at \in Receiving /\ n <= left /\ Take(n)
      /\ UNCHANGED <<asked, answers, peerClosed, bodyError, overrun>>
  BY DEF ReadRest, Receiving
<1>2. PICK i \in 1..Len(s.ends) + 1 :
         /\ call.last = (i = Len(s.ends) + 1)
         /\ left > 0 /\ left <= ChunkBytes(s, i) + 1
         /\ call.body = Data(r, 0, BytesBefore(s, i) + ChunkBytes(s, i) + 1 - left)
         /\ Behind(wire, r, s, ChunkEnd(s, i) - left)
  BY <1>1 DEF ConnectionIInv, RestPlace
<1>3. ~bodyError /\ Len(answers) = asked /\ Shape.chunked
  BY <1>1 DEF ConnectionIInv, RestPlace
<1>4. /\ ConnectionShape /\ n \in Nat \ {0} /\ n <= Len(wire) /\ wire \in Seq(Piece)
      /\ wire' = SubSeq(wire, n + 1, Len(wire)) /\ left \in Nat
      /\ call.body \in Seq(Piece) /\ call \in Calls
      /\ r \in Nat /\ bodyError \in BOOLEAN /\ overrun \in BOOLEAN /\ BufferUnits \in Nat /\ s \in Shapes
  BY <1>1, <1>3, ReadFinds DEF ConnectionShape
<1>5. Shape' = Shape
  BY <1>1 DEF Shape
<1> DEFINE a == ChunkAt(s, i)
           b == BytesBefore(s, i)
           c == ChunkBytes(s, i)
           e == ChunkEnd(s, i)
           m == c + 1 - left
<1>6. /\ a \in Nat /\ b \in Nat /\ c \in Nat /\ e = a + c + 1
  BY <1>3, <1>4, ChunkLayout, Zenon
<1> HIDE DEF s, r, a, b, c, e, left
<1>7. left > 0 /\ left <= c + 1
  BY <1>2 DEF c
<1>8. m \in Nat /\ e - left = a + m /\ b + c + 1 - left = b + m /\ a + m \in Nat /\ b + m \in Nat
  BY <1>4, <1>6, <1>7
<1>9. call.body = Data(r, 0, b + m) /\ Behind(wire, r, s, a + m)
  <2>1. call.body = Data(r, 0, b + c + 1 - left) /\ Behind(wire, r, s, e - left)
    BY <1>2, Zenon DEF b, c, e
  <2> QED
    BY <1>8, <2>1, Zenon
<1> HIDE DEF m
<1>10. /\ wire' \in Seq(Piece) /\ Behind(wire', r, s, (a + m) + n)
       /\ got \in Seq(Piece) /\ Len(got) = n /\ Inside(got, r, s, a + m)
  <2>1. n \in Nat
    BY <1>4
  <2> QED
    BY <1>4, <1>8, <1>9, <2>1, Taken, Zenon
<1> HIDE DEF got
<1>11. body \in Seq(Piece)
  BY <1>4, <1>10, ConcatProperties, Zenon
<1>12. \/ n = left /\ ChunkDone(WithoutEnd(body), <<>>, 0, call.last)
       \/ n # left /\ Continue([call EXCEPT !.body = body, !.left = @ - n]) /\ UNCHANGED left_data
  BY Zenon DEF ReadRest, got, left
\* A run of the chunk's bytes that follows the body extends it.
<1>13. ASSUME NEW d \in Seq(Piece), Inside(d, r, s, a + m), m + Len(d) <= c
       PROVE  call.body \o d = Data(r, 0, (b + m) + Len(d))
  <2>1. \A k \in 1..Len(d) : d[k] = <<r, "data", (b + m) + k>>
    <3>1. Inside(d, r, s, ChunkAt(s, i) + m) /\ m + Len(d) <= ChunkBytes(s, i) /\ s.chunked /\ s \in Shapes
          /\ i \in 1..Len(s.ends) + 1 /\ m \in Nat
      BY <1>2, <1>3, <1>4, <1>8, <1>13 DEF a, c, s
    <3> QED
      BY <3>1, ChunkData, Zenon DEF b
  <2>2. Data(r, 0, b + m) \o d = Data(r, 0, (b + m) + Len(d))
    BY <1>4, <1>8, <1>13, <2>1, DataExtends
  <2> QED
    BY <1>9, <2>2, Zenon
<1>14. CASE n = left /\ ChunkDone(WithoutEnd(body), <<>>, 0, call.last)
  <2> DEFINE d == SubSeq(got, 1, n - 1)
  <2>1. n - 1 \in Nat /\ n - 1 <= Len(got) /\ m + (n - 1) = c /\ m + (n - 1) <= c /\ (a + m) + n = e
        /\ (b + m) + (n - 1) = b + c /\ Len(got) > 0
    <3>1. m = c + 1 - n
      BY <1>14 DEF m
    <3> QED
      BY ONLY <3>1, <1>4, <1>6, <1>8, <1>10
  <2>2. d \in Seq(Piece) /\ Len(d) = n - 1 /\ Inside(d, r, s, a + m)
    BY <1>8, <1>10, <2>1, Cut, Zenon
  <2>3. WithoutEnd(body) = call.body \o d
    BY <1>4, <1>10, <2>1, EndDropped, Zenon
  <2> HIDE DEF d, body
  <2>4. WithoutEnd(body) = Data(r, 0, b + c)
    BY <1>13, <2>1, <2>2, <2>3, Zenon
  <2>5. Len(<<>>) = 0 /\ <<>> \in Seq(Piece) /\ e + 0 = e /\ 0 <= BufferUnits
    BY <1>4, <1>6
  <2>6. Inside(<<>>, r, s, e) /\ Behind(wire', r, s, e + Len(<<>>))
    <3>1. Inside(<<>>, r, s, e)
      BY <2>5 DEF Inside
    <3> QED
      BY <3>1, <1>10, <2>1, <2>5, Zenon
  <2>7. /\ WithoutEnd(body) = Data(asked, 0, BytesBefore(Shape, i) + ChunkBytes(Shape, i))
        /\ Inside(<<>>, asked, Shape, ChunkEnd(Shape, i))
        /\ Behind(wire', asked, Shape, ChunkEnd(Shape, i) + Len(<<>>))
    BY <2>4, <2>6, Zenon DEF r, s, b, c, e
  <2>8. /\ ChunkDone(WithoutEnd(body), <<>>, 0, call.last)
        /\ (call.last <=> i = Len(Shape.ends) + 1) /\ i \in 1..Len(Shape.ends) + 1
    BY <1>2, <1>14 DEF s
  <2>9. UNCHANGED <<asked, answers, bodyError, overrun>> /\ Len(<<>>) <= BufferUnits
    BY <1>1, <2>5
  <2> QED
    <3>1. IsBehind(<<>>, <<>>, 0) /\ 0 \in Nat
      BY <2>5 DEF IsBehind
    <3> QED
      BY <1>1, <1>3, <1>10, <2>5, <2>7, <2>8, <2>9, <3>1, ChunkDoneKeeps, Zenon
<1>15. CASE n # left /\ Continue([call EXCEPT !.body = body, !.left = @ - n]) /\ UNCHANGED left_data
  <2> DEFINE more == left - n
  <2>1. /\ more \in Nat /\ more > 0 /\ more <= c + 1 /\ m + n <= c
        /\ (b + m) + n = b + c + 1 - more /\ (a + m) + n = e - more
    <3>1. n <= left /\ n # left /\ n \in Nat /\ left \in Nat /\ m = c + 1 - left
      BY <1>1, <1>4, <1>15 DEF m
    <3> QED
      BY ONLY <3>1, <1>6, <1>7, <1>8
  <2>2. body = Data(r, 0, b + c + 1 - more)
    <3>1. body = Data(r, 0, (b + m) + Len(got))
      BY <1>10, <1>13, <2>1
    <3> QED
      BY <1>10, <2>1, <3>1, Zenon
  <2> HIDE DEF body
  <2>3. call' = [call EXCEPT !.body = body, !.left = more] /\ UNCHANGED results
    BY <1>15 DEF Continue, left
  <2> HIDE DEF more
  <2>4. call' \in Calls /\ call'.data = call.data /\ call'.at = "rest"
    BY ONLY <1>1, <1>4, <1>11, <2>1, <2>3 DEF Calls
  <2>5. call'.body = body /\ call'.left = more /\ call'.last = call.last
    BY ONLY <1>4, <2>3 DEF Calls
  <2>6. RestPlace'
    <3>1. ~bodyError' /\ Len(answers') = asked' /\ Shape'.chunked /\ i \in 1..Len(Shape'.ends) + 1
      BY <1>1, <1>3, <1>5, Zenon DEF s
    <3>2. call'.last = (i = Len(Shape'.ends) + 1)
      BY <1>2, <1>5, <2>5, Zenon DEF s
    <3>3. call'.left > 0 /\ call'.left <= ChunkBytes(Shape', i) + 1
      BY <1>5, <2>1, <2>5, Zenon DEF c, s
    <3>4. call'.body = Data(asked', 0, BytesBefore(Shape', i) + ChunkBytes(Shape', i) + 1 - call'.left)
      BY <1>1, <1>5, <2>2, <2>5, Zenon DEF b, c, s, r
    <3>5. Behind(wire', asked', Shape', ChunkEnd(Shape', i) - call'.left)
      <4>1. Behind(wire', r, s, e - more)
        BY <1>10, <2>1, Zenon
      <4> QED
        BY <4>1, <1>1, <1>5, <2>5, Zenon DEF e, s, r
    <3> QED
      BY <3>1, <3>2, <3>3, <3>4, <3>5, Zenon DEF RestPlace
  <2>7. HeadPlace' /\ BodyPlace' /\ ChunkPlace'
    BY <2>4 DEF HeadPlace, BodyPlace, ChunkPlace
  <2>8. OverrunOnlyShort' /\ UNCHANGED <<asked, answers, left_data, results>> /\ overrun' \in BOOLEAN
        /\ bodyError' \in BOOLEAN /\ (bodyError => bodyError')
    BY <1>1, <1>4, <1>15, <2>3 DEF ConnectionIInv, OverrunOnlyShort
  <2>9. Len(call'.data) <= BufferUnits /\ call'.at \in Receiving
    BY <1>1, <1>4, <2>4 DEF ConnectionShape
  <2> QED
    BY <1>1, <1>10, <2>4, <2>6, <2>7, <2>8, <2>9, ContinueKeeps, Zenon
<1> QED
  BY <1>12, <1>14, <1>15

\* In a body of known length all but the missing bytes are there and on the
\* wire is what is missing; after a failed read it is less.
LEMMA BodyFacts ==
    ASSUME ConnectionIInv, call.at = "body"
    PROVE  /\ call.at \in Receiving /\ Len(answers) = asked /\ ~Shape.chunked /\ Shape \in Shapes /\ asked \in Nat
           /\ call \in Calls /\ call.body \in Seq(Piece) /\ Len(call.body) \in Nat /\ call.left \in Nat
           /\ wire \in Seq(Piece) /\ Len(wire) \in Nat /\ HeadUnits \in Nat
           /\ Total(Shape) = Shape.ends[1] /\ Shape.ends[1] \in Nat /\ ResponseUnits(Shape) = HeadUnits + Shape.ends[1]
           /\ bodyError => Len(wire) < call.left
           /\ ~bodyError => /\ call.left > 0 /\ Len(call.body) + call.left = Shape.ends[1]
                            /\ call.body = Data(asked, 0, Len(call.body))
                            /\ Behind(wire, asked, Shape, HeadUnits + Len(call.body))
                            /\ Len(wire) = call.left
<1>1. ConnectionShape /\ call \in Calls /\ wire \in Seq(Piece) /\ call.at \in Receiving /\ bodyError \in BOOLEAN
  BY DEF ConnectionIInv, ConnectionShape, Receiving
<1>2. call.body \in Seq(Piece) /\ Len(call.body) \in Nat /\ call.left \in Nat /\ Len(wire) \in Nat
  BY <1>1 DEF Calls
<1>3. /\ Len(answers) = asked /\ ~Shape.chunked
      /\ bodyError => Len(wire) < call.left
      /\ ~bodyError => /\ call.left > 0 /\ Len(call.body) + call.left = Shape.ends[1]
                       /\ call.body = Data(asked, 0, Len(call.body))
                       /\ Behind(wire, asked, Shape, HeadUnits + Len(call.body))
  BY DEF ConnectionIInv, BodyPlace
<1>4. Shape \in Shapes /\ asked \in Nat /\ HeadUnits \in Nat
  BY <1>1, <1>3, Waiting, ConnectionSizes
<1>5. Total(Shape) = Shape.ends[1] /\ Shape.ends[1] \in Nat /\ ResponseUnits(Shape) = HeadUnits + Shape.ends[1]
  BY <1>3, <1>4, ResponseLength
<1>6. ~bodyError => Len(wire) = call.left
  <2> SUFFICES ASSUME ~bodyError PROVE Len(wire) = call.left
    OBVIOUS
  <2> DEFINE l == Len(call.body)
             t == Shape.ends[1]
  <2>1. Len(wire) = (HeadUnits + t) - (HeadUnits + l) /\ l + call.left = t
    BY <1>3, <1>5 DEF Behind
  <2>2. l \in Nat /\ t \in Nat
    BY <1>2, <1>5
  <2> HIDE DEF l, t
  <2> QED
    BY <2>1, <2>2, <1>2, <1>4
<1> QED
  BY <1>1, <1>2, <1>3, <1>4, <1>5, <1>6

\* The loop of readFixSize goes on: the places of the other frames are not
\* concerned.
LEMMA BodyGoesOn ==
    ASSUME ConnectionIInv, call.at = "body", NEW body \in Seq(Piece), NEW left \in Nat,
           call' = [call EXCEPT !.body = body, !.left = left], wire' \in Seq(Piece),
           UNCHANGED <<asked, answers, left_data, results, overrun>>, bodyError' \in BOOLEAN,
           bodyError => bodyError',
           IF bodyError' THEN Len(wire') < left
           ELSE /\ left > 0 /\ Len(body) + left = Shape.ends[1] /\ body = Data(asked, 0, Len(body))
                /\ Behind(wire', asked, Shape, HeadUnits + Len(body))
    PROVE  ConnectionIInv'
<1>1. ConnectionShape /\ call \in Calls /\ call.at \in Receiving /\ overrun \in BOOLEAN /\ Len(call.data) <= BufferUnits
  BY DEF ConnectionIInv, ConnectionShape, Receiving
<1>2. call' \in Calls /\ call'.at = "body" /\ call'.data = call.data /\ call'.body = body /\ call'.left = left
  BY <1>1 DEF Calls
<1>3. Len(answers) = asked /\ ~Shape.chunked /\ Shape.ends[1] <= MaxResponse /\ Shape' = Shape
  BY DEF ConnectionIInv, BodyPlace, Shape
<1>4. BodyPlace'
  BY <1>2, <1>3, Zenon DEF BodyPlace
<1>5. HeadPlace' /\ ChunkPlace' /\ RestPlace'
  BY <1>2 DEF HeadPlace, ChunkPlace, RestPlace
<1>6. OverrunOnlyShort' /\ overrun' \in BOOLEAN
  BY <1>1 DEF ConnectionIInv, OverrunOnlyShort
<1>7. call'.at \in Receiving /\ Len(call'.data) <= BufferUnits
  BY <1>1, <1>2 DEF Receiving
<1> QED
  BY <1>1, <1>2, <1>4, <1>5, <1>6, <1>7, ContinueKeeps, Zenon

LEMMA ReadBodyRestKeeps ==
    ASSUME ConnectionIInv, NEW n \in 1..BufferUnits, ReadBodyRest(n)
    PROVE  ConnectionIInv'
<1> DEFINE got == SubSeq(wire, 1, n)
           body == call.body \o got
           l == Len(call.body)
           left == call.left
<1>1. /\ call.at = "body" /\ call.at \in Receiving /\ n <= left /\ Take(n)
      /\ UNCHANGED <<asked, answers, peerClosed, left_data, bodyError, overrun>>
  BY DEF ReadBodyRest, Receiving
<1>2. /\ n \in Nat \ {0} /\ n \in Nat /\ n <= Len(wire) /\ wire' = SubSeq(wire, n + 1, Len(wire)) /\ left_data = <<>>
      /\ bodyError \in BOOLEAN
  BY <1>1, ReadFinds
<1>3. /\ Len(answers) = asked /\ ~Shape.chunked /\ Shape \in Shapes /\ asked \in Nat
      /\ call.body \in Seq(Piece) /\ l \in Nat /\ left \in Nat /\ wire \in Seq(Piece) /\ Len(wire) \in Nat
      /\ HeadUnits \in Nat /\ Total(Shape) = Shape.ends[1] /\ Shape.ends[1] \in Nat
      /\ ResponseUnits(Shape) = HeadUnits + Shape.ends[1]
      /\ bodyError => Len(wire) < left
      /\ ~bodyError => /\ left > 0 /\ l + left = Shape.ends[1] /\ call.body = Data(asked, 0, l)
                       /\ Behind(wire, asked, Shape, HeadUnits + l) /\ Len(wire) = left
  BY <1>1, BodyFacts, Zenon
<1>4. /\ got \in Seq(Piece) /\ Len(got) = n
      /\ wire' \in Seq(Piece) /\ Len(wire') = Len(wire) - n
  <2>1. got \in Seq(Piece) /\ Len(got) = n
    BY ONLY <1>2, <1>3
  <2>2. n + 1 \in Int /\ \A k \in n + 1..Len(wire) : wire[k] \in Piece
    BY <1>2, <1>3
  <2>3. /\ SubSeq(wire, n + 1, Len(wire)) \in Seq(Piece)
        /\ Len(SubSeq(wire, n + 1, Len(wire))) = IF n + 1 <= Len(wire) THEN Len(wire) - (n + 1) + 1 ELSE 0
    BY <1>3, <2>2, SubSeqProperties
  <2>4. Len(wire') = Len(wire) - n
    BY ONLY <1>2, <1>3, <2>3
  <2> QED
    BY <1>2, <2>1, <2>3, <2>4, Zenon
<1>5. body \in Seq(Piece)
  BY <1>3, <1>4, ConcatProperties, Zenon
<1>6. \/ n = left /\ Return(body)
      \/ n # left /\ Continue([call EXCEPT !.body = body, !.left = @ - n])
  BY Zenon DEF ReadBodyRest
<1>7. ASSUME ~bodyError
      PROVE  /\ Len(body) = l + n /\ body = Data(asked, 0, l + n)
             /\ Behind(wire', asked, Shape, HeadUnits + (l + n))
  <2>1. Behind(wire, asked, Shape, HeadUnits + l) /\ HeadUnits + l \in Nat /\ call.body = Data(asked, 0, l)
        /\ l + left = Shape.ends[1] /\ n <= left
    BY <1>1, <1>3, <1>7
  <2>2. Behind(wire', asked, Shape, (HeadUnits + l) + n) /\ Inside(got, asked, Shape, HeadUnits + l)
    BY <1>2, <1>3, <2>1, Taken, Zenon
  <2> DEFINE t == Shape.ends[1]
  <2>3. (HeadUnits + l) + n = HeadUnits + (l + n) /\ l + n \in Nat /\ HeadUnits + l + n <= ResponseUnits(Shape)
    <3>1. l + left = t /\ t \in Nat /\ ResponseUnits(Shape) = HeadUnits + t
      BY <1>3, <2>1
    <3>2. l \in Nat /\ left \in Nat /\ n \in Nat /\ n <= left /\ HeadUnits \in Nat
      BY <1>2, <1>3, <2>1
    <3> HIDE DEF l, left, t
    <3> QED
      BY ONLY <3>1, <3>2
  <2> HIDE DEF got, l, body
  <2>4. \A k \in 1..Len(got) : got[k] = <<asked, "data", l + k>>
    <3>1. HeadUnits + l + Len(got) <= ResponseUnits(Shape)
      BY <1>4, <2>3
    <3>2. ~Shape.chunked /\ Shape \in Shapes /\ l \in Nat /\ got \in Seq(Piece)
      BY <1>3, <1>4, Zenon
    <3> QED
      BY <2>2, <3>1, <3>2, LengthData
  <2>5. Data(asked, 0, l) \o got = Data(asked, 0, l + Len(got))
    BY <1>3, <1>4, <2>4, DataExtends, Zenon
  <2>6. body = Data(asked, 0, l + n)
    BY <1>4, <2>1, <2>5, Zenon DEF body
  <2>7. Len(body) = l + n
    BY <1>3, <2>3, <2>6, DataIs
  <2> QED
    BY <2>2, <2>3, <2>6, <2>7, Zenon
<1> DEFINE t == Shape.ends[1]
<1>8. t \in Nat /\ Total(Shape) = t /\ (~bodyError => l + left = t /\ Len(wire) = left) /\ (bodyError => Len(wire) < left)
  BY <1>3
<1> HIDE DEF got, body, l, left, t
<1>9. CASE n = left /\ Return(body)
  <2>1. ~bodyError
    BY <1>2, <1>3, <1>8, <1>9
  <2>2. l + n = Total(Shape) /\ Len(wire') = 0
    BY <1>3, <1>4, <1>8, <1>9, <2>1
  <2>3. wire' = <<>>
    BY <1>4, <2>2
  <2>4. body = Data(asked, 0, Total(Shape)) /\ left_data' = <<>> /\ UNCHANGED <<asked, answers, bodyError, overrun>>
    BY <1>1, <1>2, <1>7, <2>1, <2>2
  <2> QED
    BY <1>1, <1>3, <1>5, <1>9, <2>1, <2>3, <2>4, ReturnedKeeps, Zenon
<1>10. CASE n # left /\ Continue([call EXCEPT !.body = body, !.left = @ - n])
  <2> DEFINE more == left - n
  <2>1. /\ more \in Nat /\ more > 0 /\ (bodyError => Len(wire') < more)
        /\ (~bodyError => (l + n) + more = t)
    <3> DEFINE w == Len(wire)
               v == Len(wire')
    <3>1. /\ n \in Nat /\ left \in Nat /\ l \in Nat /\ t \in Nat /\ w \in Nat
          /\ n <= left /\ n # left /\ v = w - n
      BY <1>1, <1>2, <1>3, <1>4, <1>8, <1>10, Zenon
    <3>2. (bodyError => w < left) /\ (~bodyError => l + left = t)
      BY <1>8, Zenon
    <3> HIDE DEF w, v
    <3>3. /\ more \in Nat /\ more > 0 /\ (w < left => v < more)
          /\ (l + left = t => (l + n) + more = t)
      BY ONLY <3>1
    <3> QED
      BY <3>2, <3>3, Zenon DEF w, v
  <2>2. call' = [call EXCEPT !.body = body, !.left = more] /\ UNCHANGED results
    BY <1>10 DEF Continue, left
  <2> HIDE DEF more
  <2>3. IF bodyError' THEN Len(wire') < more
        ELSE /\ more > 0 /\ Len(body) + more = Shape.ends[1] /\ body = Data(asked, 0, Len(body))
             /\ Behind(wire', asked, Shape, HeadUnits + Len(body))
    <3>1. CASE bodyError
      BY <1>1, <2>1, <3>1
    <3>2. CASE ~bodyError
      <4>1. /\ more > 0 /\ Len(body) + more = Shape.ends[1] /\ body = Data(asked, 0, Len(body))
            /\ Behind(wire', asked, Shape, HeadUnits + Len(body))
        BY <1>7, <2>1, <3>2, Zenon DEF t
      <4> QED
        BY <4>1, <1>1, <3>2
    <3> QED
      BY <3>1, <3>2
  <2>4. UNCHANGED <<asked, answers, left_data, results, overrun>> /\ bodyError' \in BOOLEAN /\ (bodyError => bodyError')
    BY <1>1, <1>2, <2>2
  <2> QED
    BY <1>1, <1>4, <1>5, <2>1, <2>2, <2>3, <2>4, BodyGoesOn, Zenon
<1> QED
  BY <1>6, <1>9, <1>10

\* -1 inside readFixSize: it waits for one byte more than there will be.
LEMMA BodyTimeoutKeeps ==
    ASSUME ConnectionIInv, BodyTimeout
    PROVE  ConnectionIInv'
<1> DEFINE body == IF call.body = <<>> THEN call.body ELSE SubSeq(call.body, 1, Len(call.body) - 1)
           left == call.left + 1
<1>1. /\ call.at = "body" /\ ~bodyError /\ bodyError' = TRUE
      /\ Continue([call EXCEPT !.left = @ + 1,
                               !.body = IF @ = <<>> THEN @ ELSE SubSeq(@, 1, Len(@) - 1)])
      /\ UNCHANGED <<asked, answers, wire, peerClosed, left_data, overrun>>
  BY DEF BodyTimeout
<1>2. /\ call \in Calls /\ call.body \in Seq(Piece) /\ Len(call.body) \in Nat /\ call.left \in Nat
      /\ wire \in Seq(Piece) /\ Len(wire) = call.left
  BY <1>1, BodyFacts, Zenon
<1>3. body \in Seq(Piece)
  <2>1. CASE call.body = <<>>
    BY <1>2, <2>1
  <2>2. CASE call.body # <<>>
    <3>1. Len(call.body) - 1 \in Nat /\ Len(call.body) - 1 <= Len(call.body)
      BY <1>2, <2>2
    <3>2. \A k \in 1..Len(call.body) - 1 : call.body[k] \in Piece
      BY <1>2, <3>1
    <3>3. SubSeq(call.body, 1, Len(call.body) - 1) \in Seq(Piece)
      BY <3>1, <3>2, SubSeqProperties
    <3> QED
      BY <2>2, <3>3
  <2> QED
    BY <2>1, <2>2
<1>4. left \in Nat /\ Len(wire') < left
  BY <1>1, <1>2
<1>5. call' = [call EXCEPT !.body = body, !.left = left] /\ UNCHANGED results
  BY <1>1, <1>2 DEF Continue, Calls
<1> HIDE DEF body, left
<1>6. IF bodyError' THEN Len(wire') < left
      ELSE /\ left > 0 /\ Len(body) + left = Shape.ends[1] /\ body = Data(asked, 0, Len(body))
           /\ Behind(wire', asked, Shape, HeadUnits + Len(body))
  BY <1>1, <1>4, Zenon
<1>7. /\ UNCHANGED <<asked, answers, left_data, results, overrun>> /\ bodyError' \in BOOLEAN
      /\ (bodyError => bodyError') /\ wire' \in Seq(Piece)
  BY <1>1, <1>2, <1>5
<1> QED
  BY <1>1, <1>3, <1>4, <1>5, <1>6, <1>7, BodyGoesOn, Zenon

\* A call that fails where it stands leaves the wire: a response that fits and
\* is not chunked has not been read to its end.
LEMMA FailsWhereItStands ==
    ASSUME ConnectionIInv, call.at \in Receiving, Fail, UNCHANGED wire,
           UNCHANGED <<asked, answers, left_data, bodyError, overrun>>
    PROVE  ConnectionIInv'
<1>1. ConnectionShape /\ wire \in Seq(Piece) /\ call.data \in Seq(Piece)
  BY DEF ConnectionIInv, ConnectionShape, Calls
<1>2. ASSUME Len(answers) = asked, wire = <<>>, ~bodyError
      PROVE  Shape.chunked
  <2>1. call.at # "head"
    <3> SUFFICES ASSUME call.at = "head" PROVE FALSE
      OBVIOUS
    <3>1. Behind(wire, asked, Shape, Len(call.data)) /\ Len(call.data) < HeadUnits /\ Len(call.data) \in Nat
          /\ HeadUnits \in Nat
      <4>1. asked # asked - 1
        <5>1. asked \in Nat
          BY <1>1, Waiting
        <5> QED
          BY ONLY <5>1
      <4> QED
        BY <1>1, <1>2, <4>1, ConnectionSizes DEF ConnectionIInv, HeadPlace
    <3>2. Shape \in Shapes
      BY <1>1, <1>2, Waiting
    <3>3. Len(call.data) = ResponseUnits(Shape)
      BY <1>1, <1>2, <3>1, <3>2, NothingBehind
    <3> QED
      BY <3>1, <3>2, <3>3, ResponseLength
  <2>2. call.at # "body"
    <3> SUFFICES ASSUME call.at = "body" PROVE FALSE
      OBVIOUS
    <3>1. Len(wire) = call.left /\ call.left > 0
      BY <1>2, BodyFacts, Zenon
    <3> QED
      BY <1>2, <3>1
  <2>3. CASE call.at = "chunk"
    BY <2>3 DEF ConnectionIInv, ChunkPlace
  <2>4. CASE call.at = "rest"
    BY <2>4 DEF ConnectionIInv, RestPlace
  <2> QED
    BY <2>1, <2>2, <2>3, <2>4 DEF Receiving
<1>3. wire' \in Seq(Piece) /\ (Len(answers) = asked /\ wire' = <<>> /\ ~bodyError => Shape.chunked \/ Total(Shape) > MaxResponse)
  BY <1>1, <1>2
<1> QED
  BY <1>3, FailKeeps, Zenon

LEMMA ConnectionStep == ConnectionIInv /\ [ConnectionNext]_connectionVars => ConnectionIInv'
<1> SUFFICES ASSUME ConnectionIInv, [ConnectionNext]_connectionVars PROVE ConnectionIInv'
  OBVIOUS
<1>1. CASE ClosePeer \/ UNCHANGED connectionVars
  BY <1>1, ClosePeerKeeps DEF ClosePeer, connectionVars
<1>2. CASE \E shape \in Shapes : Answer(shape)
  BY <1>2, AnswerKeeps
<1>3. CASE SendAndReceive
  BY <1>3, SendKeeps
<1>4. CASE ReadSome
  BY <1>4, ReadHeadKeeps, ReadChunkKeeps, ReadRestKeeps, ReadBodyRestKeeps DEF ReadSome
<1>5. CASE ReadTimeout
  <2>1. /\ call.at \in Receiving /\ Fail /\ UNCHANGED wire
        /\ UNCHANGED <<asked, answers, left_data, bodyError, overrun>>
    BY <1>5 DEF ReadTimeout, Receiving
  <2> QED
    BY <2>1, FailsWhereItStands, Zenon
<1>6. CASE BodyTimeout
  BY <1>6, BodyTimeoutKeeps
<1>7. CASE ReadEnd
  <2>1. /\ call.at \in Receiving /\ Fail /\ UNCHANGED wire
        /\ UNCHANGED <<asked, answers, left_data, bodyError, overrun>>
    BY <1>7 DEF ReadEnd, Receiving
  <2> QED
    BY <2>1, FailsWhereItStands, Zenon
<1> QED
  BY <1>1, <1>2, <1>3, <1>4, <1>5, <1>6, <1>7 DEF ConnectionNext

LEMMA ConnectionIInvSuffices == ConnectionIInv => ConnectionInv
<1> SUFFICES ASSUME ConnectionIInv PROVE ConnectionTypeOK
  BY DEF ConnectionIInv, ConnectionInv
<1>1. /\ asked \in Nat /\ call \in Calls /\ Len(call.data) <= BufferUnits /\ left_data = <<>>
      /\ Len(results) = IF call.at \in {"idle", "closed"} THEN asked ELSE asked - 1
  BY DEF ConnectionIInv, ConnectionShape
<1>2. call.at \in {"idle", "head", "chunk", "rest", "body", "closed"}
  BY <1>1 DEF Calls, Receiving
<1>3. Len(left_data) <= BufferUnits
  BY <1>1, ConnectionSizes
<1> QED
  BY <1>1, <1>2, <1>3 DEF ConnectionTypeOK

\* A response that recvResponse returns is the one the server sent for this
\* request, whole and with no byte more, wherever the reads cut its header, its
\* chunks and the line ends between them; one of known length that was read to
\* its end is returned; memcpy writes behind a body only when it is shorter
\* than the buffer: for any sizes, limits, responses and chunks, and any number
\* of calls on the connection.
THEOREM ConnectionHolds == FairSpec => []ConnectionInv
BY ConnectionIInvSuffices, PartsInit, PartsNext, ConnectionInitial, ConnectionStep, PTL DEF FairSpec
=============================================================================
