--------------------------- MODULE IdleLoopProofs ---------------------------
(***************************************************************************)
(* Proofs about IdleLoop: the count by which tickle() decides whether to   *)
(* write is the number of threads in idle(), and epoll_wait is never given *)
(* a timeout that is longer than MAX_TIMEOUT, or a negative one unless a   *)
(* timer was set too far ahead; for any threads, callers, tasks, timers.   *)
(***************************************************************************)
EXTENDS IdleLoop, FiniteSetTheorems, TLAPS

-----------------------------------------------------------------------------
(* The inductive invariant.                                                *)

Labels == {"scan", "enter", "task", "tickle", "out", "exit"} \cup InIdle

\* The labels of a worker between ++ and --m_activeThreadCount.
InTask == {"task", "tickle", "out"}

Idlers == {t \in Threads : pc[t] \in InIdle}
Busy   == {t \in Threads : pc[t] \in InTask}

ActiveCount == m_activeThreadCount = Cardinality(Busy)

\* What getNextTimer returned, until it is turned into a timeout of epoll_wait.
TimeoutIsNext ==
    \A t \in Threads : /\ pc[t] = "pending" => timeout[t] \in Deltas \cup {0, NoTimer}
                       /\ pc[t] = "stopping" => timeout[t] = NoTimer

IdleIInv == TypeOK /\ IdleCount /\ ActiveCount /\ TimeoutIsNext

-----------------------------------------------------------------------------
(* Counting threads.                                                       *)

\* What a thread at a label contributes to the two counts.
Idle(label)   == IF label \in InIdle THEN 1 ELSE 0
Active(label) == IF label \in InTask THEN 1 ELSE 0

\* One element more or less in a set of threads.
LEMMA CountChanges ==
    ASSUME NEW S, IsFiniteSet(S), NEW x
    PROVE  /\ Cardinality(S) \in Nat
           /\ x \notin S => Cardinality(S \cup {x}) = Cardinality(S) + 1
           /\ x \in S => Cardinality(S) > 0 /\ Cardinality(S \ {x}) = Cardinality(S) - 1
<1>1. Cardinality(S) \in Nat
  BY FS_CardinalityType
<1>2. x \notin S => Cardinality(S \cup {x}) = Cardinality(S) + 1
  BY FS_AddElement
<1>3. ASSUME x \in S
      PROVE  Cardinality(S) > 0 /\ Cardinality(S \ {x}) = Cardinality(S) - 1
  <2>1. Cardinality(S \ {x}) = Cardinality(S) - 1 /\ IsFiniteSet(S \ {x})
    BY <1>3, FS_RemoveElement
  <2>2. Cardinality(S \ {x}) \in Nat
    BY <2>1, FS_CardinalityType
  <2> QED
    BY <1>1, <2>1, <2>2
<1> QED
  BY <1>1, <1>2, <1>3

\* A worker that goes from one label to another changes each count by what the
\* two labels contribute to it.
LEMMA WorkerMoves ==
    ASSUME TypeOK, IdleCount, ActiveCount,
           NEW t \in Threads, NEW label \in Labels, Goto(t, label),
           m_idleThreadCount' = (m_idleThreadCount + Idle(label)) - Idle(pc[t]),
           m_activeThreadCount' = (m_activeThreadCount + Active(label)) - Active(pc[t])
    PROVE  /\ IdleCount' /\ ActiveCount'
           /\ m_idleThreadCount' \in Nat /\ m_activeThreadCount' \in Nat
           /\ pc' \in [Threads -> Labels]
<1>1. /\ pc \in [Threads -> Labels] /\ pc' = [pc EXCEPT ![t] = label]
      /\ m_idleThreadCount = Cardinality(Idlers) /\ m_activeThreadCount = Cardinality(Busy)
  BY DEF TypeOK, Labels, Goto, IdleCount, ActiveCount, Idlers
<1>2. IsFiniteSet(Idlers) /\ IsFiniteSet(Busy)
  BY ThreadsAssumption, FS_Subset DEF Idlers, Busy
<1>3. /\ t \in Idlers <=> pc[t] \in InIdle
      /\ t \in Busy <=> pc[t] \in InTask
  BY DEF Idlers, Busy
<1>4. /\ Idlers' = IF label \in InIdle THEN Idlers \cup {t} ELSE Idlers \ {t}
      /\ Busy' = IF label \in InTask THEN Busy \cup {t} ELSE Busy \ {t}
  BY <1>1 DEF Idlers, Busy
<1>5. /\ Cardinality(Idlers') = (Cardinality(Idlers) + Idle(label)) - Idle(pc[t])
      /\ Cardinality(Idlers') \in Nat
  <2>1. /\ Cardinality(Idlers) \in Nat
        /\ t \notin Idlers => Cardinality(Idlers \cup {t}) = Cardinality(Idlers) + 1
        /\ t \in Idlers => Cardinality(Idlers) > 0 /\ Cardinality(Idlers \ {t}) = Cardinality(Idlers) - 1
    BY <1>2, CountChanges
  <2>3. CASE label \in InIdle /\ pc[t] \in InIdle
    <3>1. Idlers' = Idlers
      BY <2>3, <1>3, <1>4
    <3> QED
      BY <2>1, <2>3, <3>1 DEF Idle
  <2>4. CASE label \in InIdle /\ pc[t] \notin InIdle
    BY <2>1, <2>4, <1>3, <1>4 DEF Idle
  <2>5. CASE label \notin InIdle /\ pc[t] \in InIdle
    BY <2>1, <2>5, <1>3, <1>4 DEF Idle
  <2>6. CASE label \notin InIdle /\ pc[t] \notin InIdle
    <3>1. Idlers' = Idlers
      BY <2>6, <1>3, <1>4
    <3> QED
      BY <2>1, <2>6, <3>1 DEF Idle
  <2> QED
    BY <2>3, <2>4, <2>5, <2>6
<1>6. /\ Cardinality(Busy') = (Cardinality(Busy) + Active(label)) - Active(pc[t])
      /\ Cardinality(Busy') \in Nat
  <2>1. /\ Cardinality(Busy) \in Nat
        /\ t \notin Busy => Cardinality(Busy \cup {t}) = Cardinality(Busy) + 1
        /\ t \in Busy => Cardinality(Busy) > 0 /\ Cardinality(Busy \ {t}) = Cardinality(Busy) - 1
    BY <1>2, CountChanges
  <2>3. CASE label \in InTask /\ pc[t] \in InTask
    <3>1. Busy' = Busy
      BY <2>3, <1>3, <1>4
    <3> QED
      BY <2>1, <2>3, <3>1 DEF Active
  <2>4. CASE label \in InTask /\ pc[t] \notin InTask
    BY <2>1, <2>4, <1>3, <1>4 DEF Active
  <2>5. CASE label \notin InTask /\ pc[t] \in InTask
    BY <2>1, <2>5, <1>3, <1>4 DEF Active
  <2>6. CASE label \notin InTask /\ pc[t] \notin InTask
    <3>1. Busy' = Busy
      BY <2>6, <1>3, <1>4
    <3> QED
      BY <2>1, <2>6, <3>1 DEF Active
  <2> QED
    BY <2>3, <2>4, <2>5, <2>6
<1>7. m_idleThreadCount' = Cardinality(Idlers') /\ m_activeThreadCount' = Cardinality(Busy')
  BY <1>1, <1>5, <1>6
<1>8. pc' \in [Threads -> Labels]
  BY <1>1
<1> QED
  BY <1>5, <1>6, <1>7, <1>8 DEF IdleCount, ActiveCount, Idlers

-----------------------------------------------------------------------------
(* The timeout of epoll_wait.                                              *)

LEMMA WidthFacts ==
    /\ MAX_TIMEOUT \in Nat /\ IntWrap \in Nat /\ 2 * MAX_TIMEOUT < IntWrap /\ IntWrap > 0
    /\ Deltas \subseteq Nat /\ NoTimer \notin Int
  BY WidthAssumption

LEMMA ToIntType == \A x \in Nat : ToInt(x) \in Int
  BY WidthFacts DEF ToInt

LEMMA ToIntOfCap == ToInt(MAX_TIMEOUT) = MAX_TIMEOUT
<1>1. MAX_TIMEOUT % IntWrap = MAX_TIMEOUT
  BY WidthFacts
<1> QED
  BY <1>1, WidthFacts DEF ToInt

LEMMA WaitType == \A x \in Deltas \cup {0, NoTimer} : Wait(x) \in Int
<1> TAKE x \in Deltas \cup {0, NoTimer}
<1>1. CASE x = NoTimer
  BY <1>1, WidthFacts DEF Wait
<1>2. CASE x # NoTimer
  <2>1. x \in Nat
    BY <1>2, WidthFacts
  <2> QED
    BY <1>2, <2>1, WidthFacts, ToIntType DEF Wait
<1> QED
  BY <1>1, <1>2

\* A distance that an int does not hold.
Far(x) == x # NoTimer /\ 2 * x >= IntWrap

LEMMA WaitBound ==
    \A x \in Deltas \cup {0, NoTimer} : Wait(x) <= MAX_TIMEOUT /\ (Wait(x) < 0 => Far(x))
<1> TAKE x \in Deltas \cup {0, NoTimer}
<1>1. CASE x = NoTimer
  BY <1>1, WidthFacts DEF Wait
<1>2. CASE x # NoTimer
  <2>1. x \in Nat
    BY <1>2, WidthFacts
  <2>2. ToInt(x) \in Int
    BY <2>1, ToIntType
  <2>3. 2 * x < IntWrap => ToInt(x) = x
    <3>1. x < IntWrap => x % IntWrap = x
      BY <2>1, WidthFacts
    <3> QED
      BY <2>1, <3>1, WidthFacts DEF ToInt
  <2>4. Wait(x) = IF ToInt(x) < MAX_TIMEOUT THEN ToInt(x) ELSE ToInt(MAX_TIMEOUT)
    BY <1>2 DEF Wait
  <2> QED
    BY <1>2, <2>1, <2>2, <2>3, <2>4, ToIntOfCap, WidthFacts DEF Far
<1> QED
  BY <1>1, <1>2

-----------------------------------------------------------------------------
(* The steps.                                                              *)

\* The parts of the type invariant that have nothing to do with the workers.
Others ==
    /\ task \in [Tasks -> {"new", "queued", "timer", "waiting", "running", "done"}]
    /\ m_tickled \in BOOLEAN /\ timer \in Deltas \cup {NoTimer} /\ due \in BOOLEAN
    /\ edge \in BOOLEAN
    /\ m_autoStop \in BOOLEAN /\ m_stopping \in BOOLEAN
    /\ main \in {"running", "stop", "tickle", "join", "done"}
    /\ cpc \in [Callers -> {"ready", "tickle"}] /\ far \in BOOLEAN

LEMMA OthersOfType == TypeOK => Others
  BY DEF TypeOK, Others

\* A worker's step, once it is known where it goes and what it counts.
LEMMA WorkerKeeps ==
    ASSUME IdleIInv, NEW t \in Threads, NEW label \in Labels, Goto(t, label),
           m_idleThreadCount' = (m_idleThreadCount + Idle(label)) - Idle(pc[t]),
           m_activeThreadCount' = (m_activeThreadCount + Active(label)) - Active(pc[t]),
           Others',
           cur' \in [Threads -> Tasks \cup {Pipe, NoTask}],
           idleDone' \in [Threads -> BOOLEAN],
           timeout' \in [Threads -> Int \cup {NoTimer}],
           \A u \in Threads : u # t => timeout'[u] = timeout[u],
           label = "pending" => timeout'[t] \in Deltas \cup {0, NoTimer},
           label = "stopping" => timeout'[t] = NoTimer
    PROVE  IdleIInv'
<1>1. /\ IdleCount' /\ ActiveCount' /\ m_idleThreadCount' \in Nat /\ m_activeThreadCount' \in Nat
      /\ pc' \in [Threads -> Labels]
  BY WorkerMoves DEF IdleIInv
<1>2. TypeOK'
  BY <1>1 DEF TypeOK, Others, Labels
<1>3. TimeoutIsNext'
  BY DEF IdleIInv, TypeOK, TimeoutIsNext, Goto
<1> QED
  BY <1>1, <1>2, <1>3 DEF IdleIInv

\* A step of a caller, of the thread in stop() or of time leaves the workers alone.
LEMMA OutsideKeeps ==
    ASSUME IdleIInv, Others', UNCHANGED <<workVars, m_idleThreadCount, m_activeThreadCount>>
    PROVE  IdleIInv'
<1>1. TypeOK' /\ TimeoutIsNext'
  BY DEF IdleIInv, TypeOK, Others, TimeoutIsNext, workVars
<1>2. IdleCount' /\ ActiveCount'
  BY DEF IdleIInv, IdleCount, ActiveCount, Busy, workVars
<1> QED
  BY <1>1, <1>2 DEF IdleIInv

LEMMA AddTimerType == Others /\ AddTimer => /\ task' \in [Tasks -> {"new", "queued", "timer", "waiting", "running", "done"}]
                                            /\ timer' \in Deltas \cup {NoTimer} /\ due' \in BOOLEAN
                                            /\ m_tickled' \in BOOLEAN /\ far' \in BOOLEAN
  BY DEF Others, AddTimer

LEMMA CallerStep ==
    ASSUME IdleIInv, NEW c \in Callers, CallSchedule(c) \/ CallAddTimer(c) \/ CallTickle(c)
    PROVE  IdleIInv'
<1>1. Others
  BY OthersOfType DEF IdleIInv
<1>2. CASE CallSchedule(c)
  <2>1. Others' /\ UNCHANGED <<workVars, m_idleThreadCount, m_activeThreadCount>>
    BY <1>1, <1>2 DEF CallSchedule, Others, timerVars, stopVars
  <2> QED
    BY <2>1, OutsideKeeps
<1>3. CASE CallAddTimer(c)
  <2>1. Others' /\ UNCHANGED <<workVars, m_idleThreadCount, m_activeThreadCount>>
    BY <1>1, <1>3, AddTimerType DEF CallAddTimer, Others, stopVars
  <2> QED
    BY <2>1, OutsideKeeps
<1>4. CASE CallTickle(c)
  <2>1. Others' /\ UNCHANGED <<workVars, m_idleThreadCount, m_activeThreadCount>>
    BY <1>1, <1>4 DEF CallTickle, Tickle, Others, sched, timerVars, stopVars
  <2> QED
    BY <2>1, OutsideKeeps
<1> QED
  BY <1>2, <1>3, <1>4

LEMMA MainStep ==
    ASSUME IdleIInv, TimerDue \/ StopFlags \/ StopTickle \/ StopJoin
    PROVE  IdleIInv'
<1>1. Others
  BY OthersOfType DEF IdleIInv
<1>2. Others' /\ UNCHANGED <<workVars, m_idleThreadCount, m_activeThreadCount>>
  BY <1>1 DEF Others, TimerDue, StopFlags, StopTickle, StopJoin, Tickle, sched, timerVars, stopVars
<1> QED
  BY <1>2, OutsideKeeps

\* Scheduler::run: only taking a task and coming back from it change
\* m_activeThreadCount, only entering idle() changes m_idleThreadCount.
LEMMA RunKeeps ==
    ASSUME IdleIInv, NEW t \in Threads, RunStep(t) \/ TaskAddTimer(t)
    PROVE  IdleIInv'
<1> USE DEF Labels, InIdle, InTask, Idle, Active
<1>1. /\ Others /\ cur \in [Threads -> Tasks \cup {Pipe, NoTask}]
      /\ idleDone \in [Threads -> BOOLEAN] /\ timeout \in [Threads -> Int \cup {NoTimer}]
      /\ m_idleThreadCount \in Nat /\ m_activeThreadCount \in Nat
  BY OthersOfType DEF IdleIInv, TypeOK
<1>2. CASE Take(t)
  <2>1. Others' /\ cur' \in [Threads -> Tasks \cup {Pipe, NoTask}]
    BY <1>1, <1>2 DEF Take, Queued, Others, timerVars, stopVars
  <2>2. UNCHANGED <<timeout, idleDone>> /\ Goto(t, "task") /\ pc[t] = "scan"
        /\ m_idleThreadCount' = m_idleThreadCount /\ m_activeThreadCount' = m_activeThreadCount + 1
    BY <1>2 DEF Take
  <2> QED
    BY <1>1, <2>1, <2>2, WorkerKeeps
<1>3. ASSUME NEW state \in {"done", "waiting"}, TaskYields(t, state)
      PROVE  IdleIInv'
  <2>1. Others' /\ cur' \in [Threads -> Tasks \cup {Pipe, NoTask}]
    BY <1>1, <1>3 DEF TaskYields, Others, timerVars, stopVars
  <2>2. UNCHANGED <<timeout, idleDone>> /\ Goto(t, "out") /\ pc[t] = "task"
        /\ m_idleThreadCount' = m_idleThreadCount /\ m_activeThreadCount' = m_activeThreadCount
    BY <1>3 DEF TaskYields
  <2> QED
    BY <1>1, <2>1, <2>2, WorkerKeeps
<1>4. CASE TaskReturns(t)
  <2>1. Others' /\ UNCHANGED <<cur, timeout, idleDone>> /\ Goto(t, "scan") /\ pc[t] = "out"
        /\ m_idleThreadCount' = m_idleThreadCount /\ m_activeThreadCount' = m_activeThreadCount - 1
    BY <1>1, <1>4 DEF TaskReturns, Others, timerVars, stopVars
  <2> QED
    BY <1>1, <2>1, WorkerKeeps
<1>5. CASE TaskAddTimer(t)
  <2>1. Others'
    BY <1>1, <1>5, AddTimerType DEF TaskAddTimer, Others, stopVars
  <2>2. PICK label \in {"task", "tickle"} : Goto(t, label)
    BY <1>5 DEF TaskAddTimer
  <2>3. UNCHANGED <<cur, timeout, idleDone>> /\ pc[t] = "task"
        /\ m_idleThreadCount' = m_idleThreadCount /\ m_activeThreadCount' = m_activeThreadCount
    BY <1>5 DEF TaskAddTimer
  <2> QED
    BY <1>1, <2>1, <2>2, <2>3, WorkerKeeps
<1>6. CASE TaskTickle(t)
  <2>1. Others' /\ UNCHANGED <<cur, timeout, idleDone>> /\ Goto(t, "task") /\ pc[t] = "tickle"
        /\ m_idleThreadCount' = m_idleThreadCount /\ m_activeThreadCount' = m_activeThreadCount
    BY <1>1, <1>6 DEF TaskTickle, Tickle, Others, sched, timerVars, stopVars
  <2> QED
    BY <1>1, <2>1, WorkerKeeps
<1>7. CASE ScanEmpty(t)
  <2>1. PICK label \in {"exit", "enter"} : Goto(t, label)
    BY <1>7 DEF ScanEmpty
  <2>2. Others' /\ UNCHANGED <<cur, timeout, idleDone>> /\ pc[t] = "scan"
        /\ m_idleThreadCount' = m_idleThreadCount /\ m_activeThreadCount' = m_activeThreadCount
    BY <1>1, <1>7 DEF ScanEmpty, Others, sched, timerVars, stopVars
  <2> QED
    BY <1>1, <2>1, <2>2, WorkerKeeps
<1>8. CASE EnterIdle(t)
  <2>1. Others' /\ UNCHANGED <<cur, timeout, idleDone>> /\ Goto(t, "next") /\ pc[t] = "enter"
        /\ m_idleThreadCount' = m_idleThreadCount + 1 /\ m_activeThreadCount' = m_activeThreadCount
    BY <1>1, <1>8 DEF EnterIdle, Others, timerVars, stopVars
  <2> QED
    BY <1>1, <2>1, WorkerKeeps
<1> QED
  BY <1>2, <1>3, <1>4, <1>5, <1>6, <1>7, <1>8 DEF RunStep, TaskEnds, TaskWaits

\* IOManager::idle: the count goes down when the thread yields or the idle
\* fiber returns, and nowhere else.
LEMMA IdleKeeps ==
    ASSUME IdleIInv, NEW t \in Threads, IdleStep(t) \/ EventWake(t)
    PROVE  IdleIInv'
<1> USE DEF Labels, InIdle, InTask, Idle, Active
<1>1. /\ Others /\ cur \in [Threads -> Tasks \cup {Pipe, NoTask}]
      /\ idleDone \in [Threads -> BOOLEAN] /\ timeout \in [Threads -> Int \cup {NoTimer}]
      /\ m_idleThreadCount \in Nat /\ m_activeThreadCount \in Nat
  BY OthersOfType DEF IdleIInv, TypeOK
<1>2. CASE GetNextTimer(t)
  <2>1. Others' /\ UNCHANGED <<cur, idleDone>> /\ Goto(t, "pending") /\ pc[t] = "next"
        /\ m_idleThreadCount' = m_idleThreadCount /\ m_activeThreadCount' = m_activeThreadCount
    BY <1>1, <1>2 DEF GetNextTimer, Others, sched, stopVars
  <2>2. PICK x \in Deltas \cup {0, NoTimer} : timeout' = [timeout EXCEPT ![t] = x]
    BY <1>1, <1>2 DEF GetNextTimer, Left, Others
  <2>3. x \in Int \cup {NoTimer}
    BY WidthFacts
  <2> QED
    BY <1>1, <2>1, <2>2, <2>3, WorkerKeeps
<1>3. ASSUME Block(t), pc[t] \in {"pending", "stopping"}, Others', UNCHANGED <<cur, idleDone>>,
             m_idleThreadCount' = m_idleThreadCount, m_activeThreadCount' = m_activeThreadCount
      PROVE  IdleIInv'
  <2>1. timeout[t] \in Deltas \cup {0, NoTimer}
    BY <1>3 DEF IdleIInv, TimeoutIsNext
  <2>2. Wait(timeout[t]) \in Int
    BY <2>1, WaitType
  <2>3. Goto(t, "epoll") /\ timeout' = [timeout EXCEPT ![t] = Wait(timeout[t])]
    BY <1>3 DEF Block
  <2> QED
    BY <1>1, <1>3, <2>2, <2>3, WorkerKeeps
<1>4. CASE ReadPending(t)
  <2>1. Others' /\ UNCHANGED <<cur, idleDone>> /\ pc[t] = "pending"
        /\ m_idleThreadCount' = m_idleThreadCount /\ m_activeThreadCount' = m_activeThreadCount
    BY <1>1, <1>4 DEF ReadPending, Others, sched, timerVars, stopVars
  <2>2. CASE timeout[t] = NoTimer /\ Waiting = {}
    <3>1. Goto(t, "stopping") /\ timeout' = timeout
      BY <1>4, <2>2 DEF ReadPending
    <3> QED
      BY <1>1, <2>1, <2>2, <3>1, WorkerKeeps
  <2>3. CASE ~(timeout[t] = NoTimer /\ Waiting = {})
    BY <1>3, <1>4, <2>1, <2>3 DEF ReadPending
  <2> QED
    BY <2>2, <2>3
<1>5. CASE ReadScheduler(t)
  <2>1. Others' /\ UNCHANGED cur /\ pc[t] = "stopping" /\ m_activeThreadCount' = m_activeThreadCount
    BY <1>1, <1>5 DEF ReadScheduler, Others, timerVars, stopVars
  <2>2. CASE Stopping
    <3>1. Goto(t, "scan") /\ timeout' = [timeout EXCEPT ![t] = 0]
          /\ idleDone' = [idleDone EXCEPT ![t] = TRUE] /\ m_idleThreadCount' = m_idleThreadCount - 1
      BY <1>5, <2>2 DEF ReadScheduler
    <3> QED
      BY <1>1, <2>1, <3>1, WorkerKeeps
  <2>3. CASE ~Stopping
    BY <1>3, <1>5, <2>1, <2>3 DEF ReadScheduler
  <2> QED
    BY <2>2, <2>3
<1>6. ASSUME NEW report \in Tasks \cup {Pipe, NoTask}, EpollReturn(t, report), pc[t] = "epoll",
             edge' \in BOOLEAN
      PROVE  IdleIInv'
  <2>1. Others' /\ UNCHANGED idleDone /\ Goto(t, "list") /\ timeout' = [timeout EXCEPT ![t] = 0]
        /\ m_idleThreadCount' = m_idleThreadCount /\ m_activeThreadCount' = m_activeThreadCount
        /\ cur' = [cur EXCEPT ![t] = report]
    BY <1>1, <1>6 DEF EpollReturn, Others, sched, timerVars, stopVars
  <2> QED
    BY <1>1, <1>6, <2>1, WorkerKeeps
<1>7. CASE TimeoutWake(t) \/ PipeWake(t) \/ EventWake(t)
  BY <1>1, <1>6, <1>7 DEF TimeoutWake, PipeWake, EventWake, Waiting, Others
<1>8. CASE ListExpiredCb(t)
  <2>1. Others' /\ UNCHANGED <<cur, timeout, idleDone>> /\ Goto(t, "events") /\ pc[t] = "list"
        /\ m_idleThreadCount' = m_idleThreadCount /\ m_activeThreadCount' = m_activeThreadCount
    BY <1>1, <1>8 DEF ListExpiredCb, Others, stopVars
  <2> QED
    BY <1>1, <2>1, WorkerKeeps
<1>9. CASE HandleEvents(t)
  <2>1. task' \in [Tasks -> {"new", "queued", "timer", "waiting", "running", "done"}]
        /\ edge' \in BOOLEAN
    BY <1>1, <1>9 DEF HandleEvents, Others
  <2>2. Others' /\ UNCHANGED <<timeout, idleDone>> /\ Goto(t, "yield") /\ pc[t] = "events"
        /\ m_idleThreadCount' = m_idleThreadCount /\ m_activeThreadCount' = m_activeThreadCount
        /\ cur' = [cur EXCEPT ![t] = NoTask]
    BY <1>1, <1>9, <2>1 DEF HandleEvents, Others, timerVars, stopVars
  <2> QED
    BY <1>1, <2>2, WorkerKeeps
<1>10. CASE LeaveIdle(t)
  <2>1. Others' /\ UNCHANGED <<cur, timeout, idleDone>> /\ Goto(t, "scan") /\ pc[t] = "yield"
        /\ m_idleThreadCount' = m_idleThreadCount - 1 /\ m_activeThreadCount' = m_activeThreadCount
    BY <1>1, <1>10 DEF LeaveIdle, Others, timerVars, stopVars
  <2> QED
    BY <1>1, <2>1, WorkerKeeps
<1> QED
  BY <1>2, <1>4, <1>5, <1>7, <1>8, <1>9, <1>10 DEF IdleStep

LEMMA IdleInitial == Init => IdleIInv
<1> SUFFICES ASSUME Init
             PROVE  IdleIInv
  OBVIOUS
<1>1. TypeOK
  <2>1. m_autoStop \in BOOLEAN /\ m_stopping \in BOOLEAN /\ m_tickled \in BOOLEAN
        /\ due \in BOOLEAN /\ edge \in BOOLEAN /\ idleDone \in [Threads -> BOOLEAN]
        /\ far \in BOOLEAN
    BY DEF Init
  <2> QED
    BY <2>1 DEF Init, TypeOK
<1>4. TimeoutIsNext
  BY DEF Init, TimeoutIsNext
<1>2. {t \in Threads : pc[t] \in InIdle} = {} /\ Busy = {}
  BY DEF Init, InIdle, Busy, InTask
<1>3. IdleCount /\ ActiveCount
  BY <1>2, FS_EmptySet DEF Init, IdleCount, ActiveCount
<1> QED
  BY <1>1, <1>3, <1>4 DEF IdleIInv

LEMMA IdleNext == IdleIInv /\ [Next]_vars => IdleIInv'
<1> SUFFICES ASSUME IdleIInv, [Next]_vars
             PROVE  IdleIInv'
  OBVIOUS
<1>1. CASE UNCHANGED vars
  BY <1>1 DEF IdleIInv, TypeOK, IdleCount, ActiveCount, Busy, TimeoutIsNext,
     vars, sched, timerVars, stopVars, workVars
<1>2. CASE Next
  BY <1>2, CallerStep, MainStep, RunKeeps, IdleKeeps DEF Next
<1> QED
  BY <1>1, <1>2

-----------------------------------------------------------------------------
(* The theorems.                                                           *)

\* m_idleThreadCount, by which IOManager::tickle decides, is the number of
\* threads between the ++ and the -- of Scheduler::run, whatever they do.
THEOREM IdleCountHolds == Spec => [](TypeOK /\ IdleCount)
<1>1. IdleIInv => TypeOK /\ IdleCount
  BY DEF IdleIInv
<1> QED
  BY <1>1, IdleInitial, IdleNext, PTL DEF Spec

\* A timer that is too far away, and a distance read from it, have been seen.
FarSeen == /\ Far(timer) => far
           /\ \A t \in Threads : pc[t] = "pending" /\ Far(timeout[t]) => far

\* The first timer is set by addTimer, which notes how far it is, and removed.
LEMMA TimerKept ==
    ASSUME IdleIInv, FarSeen, [Next]_vars
    PROVE  (far => far') /\ (Far(timer') => far')
<1>1. CASE UNCHANGED <<timer, far>>
  BY <1>1 DEF FarSeen
<1>2. CASE AddTimer
  <2>1. PICK d \in Deltas : timer' = d /\ far' = (far \/ 2 * d >= IntWrap)
    BY <1>2 DEF AddTimer
  <2> QED
    BY <2>1 DEF Far
<1>3. ASSUME NEW t \in Threads, ListExpiredCb(t)
      PROVE  far' = far /\ timer' \in {timer, NoTimer}
  BY <1>3 DEF ListExpiredCb
<1>4. ASSUME NEW c \in Callers, CallSchedule(c) \/ CallAddTimer(c) \/ CallTickle(c)
      PROVE  UNCHANGED <<timer, far>> \/ AddTimer
  BY <1>4 DEF CallSchedule, CallAddTimer, CallTickle, timerVars
<1>5. ASSUME NEW t \in Threads, RunStep(t) \/ TaskAddTimer(t)
      PROVE  UNCHANGED <<timer, far>> \/ AddTimer
  BY <1>5 DEF RunStep, Take, ScanEmpty, EnterIdle, TaskEnds, TaskWaits, TaskYields, TaskReturns,
              TaskTickle, TaskAddTimer, timerVars
<1>6. ASSUME NEW t \in Threads, IdleStep(t) \/ EventWake(t), ~ListExpiredCb(t)
      PROVE  UNCHANGED <<timer, far>>
  BY <1>6 DEF IdleStep, GetNextTimer, ReadPending, ReadScheduler, TimeoutWake, PipeWake, EventWake,
              EpollReturn, HandleEvents, LeaveIdle, timerVars
<1>7. TimerDue \/ StopFlags \/ StopTickle \/ StopJoin \/ UNCHANGED vars => UNCHANGED <<timer, far>>
  BY DEF TimerDue, StopFlags, StopTickle, StopJoin, vars, timerVars
<1>8. \/ UNCHANGED <<timer, far>> \/ AddTimer
      \/ far' = far /\ timer' \in {timer, NoTimer}
  BY <1>3, <1>4, <1>5, <1>6, <1>7 DEF Next
<1> QED
  BY <1>1, <1>2, <1>8 DEF FarSeen, Far

\* Only GetNextTimer reads the distance of the first timer, or less is left of it.
LEMMA FarKept ==
    ASSUME IdleIInv, FarSeen, [Next]_vars
    PROVE  FarSeen'
<1> SUFFICES ASSUME NEW u \in Threads, pc'[u] = "pending", Far(timeout'[u])
             PROVE  far'
  BY TimerKept DEF FarSeen, Far
<1>1. /\ pc \in [Threads -> Labels] /\ timeout \in [Threads -> Int \cup {NoTimer}]
      /\ timer \in Deltas \cup {NoTimer}
  BY DEF IdleIInv, TypeOK, Labels
<1>2. CASE pc[u] = "pending" /\ timeout'[u] = timeout[u]
  BY <1>2, TimerKept DEF FarSeen
<1>3. CASE ~(pc[u] = "pending" /\ timeout'[u] = timeout[u])
  <2> USE <1>1, <1>3 DEF Goto
  <2>1. /\ ~UNCHANGED vars /\ ~TimerDue /\ ~StopFlags /\ ~StopTickle /\ ~StopJoin
        /\ \A c \in Callers : ~CallSchedule(c) /\ ~CallAddTimer(c) /\ ~CallTickle(c)
    BY DEF vars, workVars, TimerDue, StopFlags, StopTickle, StopJoin, CallSchedule, CallAddTimer, CallTickle
  <2>2. \A t \in Threads : ~RunStep(t)
    BY DEF RunStep, Take, ScanEmpty, EnterIdle, TaskEnds, TaskWaits, TaskYields, TaskReturns, TaskTickle
  <2>3. \A t \in Threads : ~TaskAddTimer(t) /\ ~ListExpiredCb(t) /\ ~HandleEvents(t)
    BY DEF TaskAddTimer, ListExpiredCb, HandleEvents
  <2>4. \A t \in Threads : ~LeaveIdle(t) /\ ~TimeoutWake(t) /\ ~PipeWake(t) /\ ~EventWake(t)
    BY DEF LeaveIdle, TimeoutWake, PipeWake, EventWake, EpollReturn
  <2>5. \A t \in Threads : ~ReadPending(t) /\ ~ReadScheduler(t)
    BY DEF ReadPending, ReadScheduler, Block
  <2>6. PICK t \in Threads : GetNextTimer(t)
    BY <2>1, <2>2, <2>3, <2>4, <2>5 DEF Next, IdleStep
  <2>7. timeout'[u] \in Left
    BY <2>6 DEF GetNextTimer
  <2>8. Far(timer)
    BY <2>7, WidthFacts DEF Left, Far
  <2> QED
    BY <2>8, TimerKept DEF FarSeen
<1> QED
  BY <1>2, <1>3

\* Only Block lets a thread get to epoll_wait, with a timeout that Wait made of
\* what getNextTimer said.
LEMMA BoundKept ==
    ASSUME IdleIInv, FarSeen, WaitIsBounded, [Next]_vars
    PROVE  WaitIsBounded'
<1> SUFFICES ASSUME NEW u \in Threads, pc'[u] = "epoll"
             PROVE  timeout'[u] <= MAX_TIMEOUT /\ (timeout'[u] < 0 => far')
  BY DEF WaitIsBounded
<1>0. far => far'
  BY TimerKept
<1>1. pc \in [Threads -> Labels] /\ timeout \in [Threads -> Int \cup {NoTimer}]
  BY DEF IdleIInv, TypeOK, Labels
<1>2. CASE pc[u] = "epoll" /\ timeout'[u] = timeout[u]
  BY <1>0, <1>2 DEF WaitIsBounded
<1>3. CASE ~(pc[u] = "epoll" /\ timeout'[u] = timeout[u])
  <2> USE <1>1, <1>3 DEF Goto
  <2>1. /\ ~UNCHANGED vars /\ ~TimerDue /\ ~StopFlags /\ ~StopTickle /\ ~StopJoin
        /\ \A c \in Callers : ~CallSchedule(c) /\ ~CallAddTimer(c) /\ ~CallTickle(c)
    BY DEF vars, workVars, TimerDue, StopFlags, StopTickle, StopJoin, CallSchedule, CallAddTimer, CallTickle
  <2>2. \A t \in Threads : ~RunStep(t)
    BY DEF RunStep, Take, ScanEmpty, EnterIdle, TaskEnds, TaskWaits, TaskYields, TaskReturns, TaskTickle
  <2>3. \A t \in Threads : ~TaskAddTimer(t) /\ ~GetNextTimer(t) /\ ~ListExpiredCb(t) /\ ~HandleEvents(t)
    BY DEF TaskAddTimer, GetNextTimer, ListExpiredCb, HandleEvents
  <2>4. \A t \in Threads : ~LeaveIdle(t) /\ ~TimeoutWake(t) /\ ~PipeWake(t) /\ ~EventWake(t)
    BY DEF LeaveIdle, TimeoutWake, PipeWake, EventWake, EpollReturn
  <2>5. PICK t \in Threads : ReadPending(t) \/ ReadScheduler(t)
    BY <2>1, <2>2, <2>3, <2>4 DEF Next, IdleStep
  <2>6. t = u /\ Block(t) /\ pc[t] \in {"pending", "stopping"}
    BY <2>5 DEF ReadPending, ReadScheduler, Block
  <2>7. timeout'[u] = Wait(timeout[u])
    BY <2>6 DEF Block
  <2>8. timeout[u] \in Deltas \cup {0, NoTimer}
    BY <2>6 DEF IdleIInv, TimeoutIsNext
  <2>9. Far(timeout[u]) => far
    BY <2>6 DEF FarSeen, IdleIInv, TimeoutIsNext, Far
  <2> QED
    BY <1>0, <2>7, <2>8, <2>9, WaitBound
<1> QED
  BY <1>2, <1>3

\* The count that tickle() looks at is right and no thread blocks in epoll_wait
\* longer than MAX_TIMEOUT (iomanager.cpp:311), whatever timers are set: only one
\* that is set 2^31 ms or more ahead makes the timeout negative.
THEOREM IdleHolds == Spec => []IdleInv
<1>1. Init => WaitIsBounded /\ FarSeen
  BY DEF Init, WaitIsBounded, FarSeen, Far
<1>2. IdleIInv /\ FarSeen /\ WaitIsBounded /\ [Next]_vars => FarSeen' /\ WaitIsBounded'
  BY BoundKept, FarKept
<1>3. IdleIInv /\ WaitIsBounded => IdleInv
  BY DEF IdleIInv, IdleInv
<1> QED
  BY <1>1, <1>2, <1>3, IdleInitial, IdleNext, PTL DEF Spec
=============================================================================
