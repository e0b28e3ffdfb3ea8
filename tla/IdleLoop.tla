------------------------------ MODULE IdleLoop ------------------------------
(***************************************************************************)
(* How IOManager (wyze/iomanager.cpp) puts the scheduler, the timers and   *)
(* epoll together: threads that find no task enter idle(), block in        *)
(* epoll_wait, and must come back when there is something to do.           *)
(*                                                                         *)
(* The queue, the timers and the registered events are kept only as far    *)
(* as waking up depends on them: the set of queued tasks, the first timer  *)
(* and the tasks that wait for an fd.  Scheduler, TimerManager and         *)
(* IOManager have the details.  The pipe is registered edge-triggered: a   *)
(* byte written to it makes one epoll_wait return, now or later.           *)
(***************************************************************************)
EXTENDS Integers, FiniteSets

CONSTANTS
    Threads,      \* threads that run Scheduler::run
    Callers,      \* other threads, which schedule tasks
    TimerCallers, \* those of them that add timers too
    Tasks,
    Deltas,       \* how far ahead a timer is set, in ms
    NoTimer,      \* the ~0ull of getNextTimer
    Pipe,         \* what epoll_wait reports of m_tickleFds[0]
    NoTask,
    MAX_TIMEOUT,
    IntWrap       \* 2^32, the modulus of int

ASSUME WidthAssumption ==
    /\ MAX_TIMEOUT \in Nat /\ IntWrap \in Nat /\ 2 * MAX_TIMEOUT < IntWrap
    /\ Deltas \subseteq Nat /\ NoTimer \notin Int
    /\ TimerCallers \subseteq Callers
    /\ Pipe \notin Tasks /\ NoTask \notin Tasks /\ Pipe # NoTask

\* The number of threads is an argument of the constructor.
ASSUME ThreadsAssumption == IsFiniteSet(Threads)

VARIABLES
    task,               \* "new", "queued", "timer", "waiting", "running" or "done"
    m_activeThreadCount,
    m_idleThreadCount,
    m_tickled,
    timer,              \* distance of the first timer, or NoTimer
    due,                \* its time has come
    edge,               \* epoll has a byte of the pipe to report
    m_autoStop, m_stopping,
    main,               \* where the thread that calls stop() is
    cpc,                \* where each caller is
    pc,                 \* where each worker is
    cur,                \* the task it runs, or what epoll_wait reported to it
    timeout,            \* the local next_timeout, per worker
    idleDone,           \* the worker's idle fiber has returned
    far                 \* history: a timer was set too far ahead for an int

sched == <<task, m_activeThreadCount, m_idleThreadCount>>
timerVars == <<m_tickled, timer, due>>
stopVars == <<m_autoStop, m_stopping, main>>
workVars == <<pc, cur, timeout, idleDone>>
vars == <<sched, timerVars, edge, stopVars, cpc, workVars, far>>

Queued  == {f \in Tasks : task[f] = "queued"}
Waiting == {f \in Tasks : task[f] = "waiting"}     \* m_pendingEvent of them

\* The labels of a worker inside idle(), between ++ and --m_idleThreadCount.
InIdle == {"next", "pending", "stopping", "epoll", "list", "events", "yield"}

TypeOK ==
    /\ task \in [Tasks -> {"new", "queued", "timer", "waiting", "running", "done"}]
    /\ m_activeThreadCount \in Nat /\ m_idleThreadCount \in Nat
    /\ m_tickled \in BOOLEAN /\ timer \in Deltas \cup {NoTimer} /\ due \in BOOLEAN
    /\ edge \in BOOLEAN
    /\ m_autoStop \in BOOLEAN /\ m_stopping \in BOOLEAN
    /\ main \in {"running", "stop", "tickle", "join", "done"}
    /\ cpc \in [Callers -> {"ready", "tickle"}]
    /\ pc \in [Threads -> {"scan", "enter", "task", "tickle", "out", "exit"} \cup InIdle]
    /\ cur \in [Threads -> Tasks \cup {Pipe, NoTask}]
    /\ timeout \in [Threads -> Int \cup {NoTimer}]
    /\ idleDone \in [Threads -> BOOLEAN]
    /\ far \in BOOLEAN

Init ==
    /\ task = [f \in Tasks |-> "new"]
    /\ m_activeThreadCount = 0 /\ m_idleThreadCount = 0
    /\ m_tickled = FALSE /\ timer = NoTimer /\ due = FALSE
    /\ edge = FALSE
    /\ m_autoStop = FALSE /\ m_stopping = FALSE /\ main = "running"
    /\ cpc = [c \in Callers |-> "ready"]
    /\ pc = [t \in Threads |-> "scan"]
    /\ cur = [t \in Threads |-> NoTask]
    /\ timeout = [t \in Threads |-> 0]
    /\ idleDone = [t \in Threads |-> FALSE]
    /\ far = FALSE

-----------------------------------------------------------------------------
(* tickle, and what calls it.                                              *)

\* IOManager::tickle: a byte goes into the pipe when no thread is idle.
Tickle == edge' = (edge \/ m_idleThreadCount = 0)

\* addTimer for a task: with no other timer it is the first, and tickles
\* unless m_tickled says that somebody did.
AddTimer ==
    /\ timer = NoTimer
    /\ \E d \in Deltas, f \in Tasks :
        /\ task[f] = "new"
        /\ task' = [task EXCEPT ![f] = "timer"]
        /\ timer' = d /\ due' = FALSE
        /\ far' = (far \/ 2 * d >= IntWrap)
    /\ m_tickled' = TRUE

\* The time of the first timer comes.
TimerDue ==
    /\ timer # NoTimer /\ ~due
    /\ due' = TRUE
    /\ UNCHANGED <<sched, m_tickled, timer, edge, stopVars, cpc, workVars, far>>

-----------------------------------------------------------------------------
(* Callers outside the scheduler.                                          *)

\* schedule(): tickle only if the queue was empty.
CallSchedule(c) ==
    /\ cpc[c] = "ready" /\ main = "running"
    /\ \E f \in Tasks : task[f] = "new" /\ task' = [task EXCEPT ![f] = "queued"]
    /\ cpc' = [cpc EXCEPT ![c] = IF Queued = {} THEN "tickle" ELSE "ready"]
    /\ UNCHANGED <<m_activeThreadCount, m_idleThreadCount, timerVars, edge, stopVars,
                   workVars, far>>

CallAddTimer(c) ==
    /\ c \in TimerCallers /\ cpc[c] = "ready" /\ main = "running"
    /\ AddTimer
    /\ cpc' = [cpc EXCEPT ![c] = IF m_tickled THEN "ready" ELSE "tickle"]
    /\ UNCHANGED <<m_activeThreadCount, m_idleThreadCount, edge, stopVars, workVars>>

CallTickle(c) ==
    /\ cpc[c] = "tickle"
    /\ Tickle
    /\ cpc' = [cpc EXCEPT ![c] = "ready"]
    /\ UNCHANGED <<sched, timerVars, stopVars, workVars, far>>

-----------------------------------------------------------------------------
(* Scheduler::run.                                                         *)

Goto(t, label) == pc' = [pc EXCEPT ![t] = label]

Take(t) ==
    /\ pc[t] = "scan"
    /\ \E f \in Queued :
        /\ task' = [task EXCEPT ![f] = "running"]
        /\ cur' = [cur EXCEPT ![t] = f]
    /\ m_activeThreadCount' = m_activeThreadCount + 1
    /\ Goto(t, "task")
    /\ UNCHANGED <<m_idleThreadCount, timerVars, edge, stopVars, cpc, timeout, idleDone, far>>

\* A task ends, or registers an fd event and yields: run() has not seen it yet.
TaskYields(t, state) ==
    /\ pc[t] = "task"
    /\ task' = [task EXCEPT ![cur[t]] = state]
    /\ cur' = [cur EXCEPT ![t] = NoTask]
    /\ Goto(t, "out")
    /\ UNCHANGED <<m_activeThreadCount, m_idleThreadCount, timerVars, edge, stopVars, cpc,
                   timeout, idleDone, far>>

TaskEnds(t)  == TaskYields(t, "done")
TaskWaits(t) == TaskYields(t, "waiting")

TaskReturns(t) ==
    /\ pc[t] = "out"
    /\ m_activeThreadCount' = m_activeThreadCount - 1
    /\ Goto(t, "scan")
    /\ UNCHANGED <<task, m_idleThreadCount, timerVars, edge, stopVars, cpc, cur, timeout,
                   idleDone, far>>

TaskAddTimer(t) ==
    /\ pc[t] = "task"
    /\ AddTimer
    /\ Goto(t, IF m_tickled THEN "task" ELSE "tickle")
    /\ UNCHANGED <<m_activeThreadCount, m_idleThreadCount, edge, stopVars, cpc, cur, timeout,
                   idleDone>>

TaskTickle(t) ==
    /\ pc[t] = "tickle"
    /\ Tickle
    /\ Goto(t, "task")
    /\ UNCHANGED <<sched, timerVars, stopVars, cpc, cur, timeout, idleDone, far>>

\* Nothing to take: the thread leaves run() once its idle fiber has returned.
ScanEmpty(t) ==
    /\ pc[t] = "scan" /\ Queued = {}
    /\ Goto(t, IF idleDone[t] THEN "exit" ELSE "enter")
    /\ UNCHANGED <<sched, timerVars, edge, stopVars, cpc, cur, timeout, idleDone, far>>

\* ++m_idleThreadCount, and swapIn of the idle fiber.
EnterIdle(t) ==
    /\ pc[t] = "enter"
    /\ m_idleThreadCount' = m_idleThreadCount + 1
    /\ Goto(t, "next")
    /\ UNCHANGED <<task, m_activeThreadCount, timerVars, edge, stopVars, cpc, cur, timeout,
                   idleDone, far>>

-----------------------------------------------------------------------------
(* IOManager::idle.  stopping(timeout) reads the timers, m_pendingEvent    *)
(* and the scheduler one after the other.                                  *)

\* What getNextTimer may return: the time up to the first timer, which shrinks.
Left == IF timer = NoTimer THEN {NoTimer}
        ELSE IF due THEN {0} ELSE {d \in Deltas : d <= timer}

GetNextTimer(t) ==
    /\ pc[t] = "next"
    /\ m_tickled' = FALSE
    /\ \E d \in Left : timeout' = [timeout EXCEPT ![t] = d]
    /\ Goto(t, "pending")
    /\ UNCHANGED <<sched, timer, due, edge, stopVars, cpc, cur, idleDone, far>>

\* (int)x
ToInt(x) == LET m == x % IntWrap IN IF 2 * m >= IntWrap THEN m - IntWrap ELSE m

\* The timeout that epoll_wait gets: capped by MAX_TIMEOUT after a cast to int.
Wait(x) ==
    IF x = NoTimer THEN MAX_TIMEOUT
    ELSE ToInt(IF ToInt(x) < MAX_TIMEOUT THEN x ELSE MAX_TIMEOUT)

Block(t) ==
    /\ timeout' = [timeout EXCEPT ![t] = Wait(timeout[t])]
    /\ Goto(t, "epoll")

ReadPending(t) ==
    /\ pc[t] = "pending"
    /\ IF timeout[t] = NoTimer /\ Waiting = {}
       THEN Goto(t, "stopping") /\ UNCHANGED timeout
       ELSE Block(t)
    /\ UNCHANGED <<sched, timerVars, edge, stopVars, cpc, cur, idleDone, far>>

\* Scheduler::stopping
Stopping == m_autoStop /\ m_stopping /\ Queued = {} /\ m_activeThreadCount = 0

ReadScheduler(t) ==
    /\ pc[t] = "stopping"
    /\ IF Stopping
       THEN /\ idleDone' = [idleDone EXCEPT ![t] = TRUE]
            /\ m_idleThreadCount' = m_idleThreadCount - 1
            /\ timeout' = [timeout EXCEPT ![t] = 0]
            /\ Goto(t, "scan")
       ELSE Block(t) /\ UNCHANGED <<idleDone, m_idleThreadCount>>
    /\ UNCHANGED <<task, m_activeThreadCount, timerVars, edge, stopVars, cpc, cur, far>>

\* epoll_wait returns to t with what it reports; a negative timeout is none.
EpollReturn(t, report) ==
    /\ cur' = [cur EXCEPT ![t] = report]
    /\ timeout' = [timeout EXCEPT ![t] = 0]
    /\ Goto(t, "list")
    /\ UNCHANGED <<sched, timerVars, stopVars, cpc, idleDone, far>>

TimeoutWake(t) == pc[t] = "epoll" /\ timeout[t] >= 0 /\ EpollReturn(t, NoTask) /\ UNCHANGED edge
PipeWake(t)    == pc[t] = "epoll" /\ edge /\ EpollReturn(t, Pipe) /\ edge' = FALSE
EventWake(t)   == /\ pc[t] = "epoll"
                  /\ \E f \in Waiting : EpollReturn(t, f)
                  /\ UNCHANGED edge

\* listExpiredCb and schedule(cbs); this thread is idle, so that the tickle
\* of schedule writes nothing.
ListExpiredCb(t) ==
    /\ pc[t] = "list"
    /\ IF due
       THEN /\ task' = [f \in Tasks |-> IF task[f] = "timer" THEN "queued" ELSE task[f]]
            /\ timer' = NoTimer /\ due' = FALSE
       ELSE UNCHANGED <<task, timer, due>>
    /\ Goto(t, "events")
    /\ UNCHANGED <<m_activeThreadCount, m_idleThreadCount, m_tickled, edge, stopVars, cpc,
                   cur, timeout, idleDone, far>>

\* Mutant: the event of an fd is not triggered.
HandleEventsNot(t) ==
    /\ pc[t] = "events"
    /\ edge' = (edge /\ cur[t] # Pipe)
    /\ cur' = [cur EXCEPT ![t] = NoTask]
    /\ Goto(t, "yield")
    /\ UNCHANGED <<sched, timerVars, stopVars, cpc, timeout, idleDone, far>>

\* The loop over the events: the pipe is read empty, with any byte written
\* since epoll_wait returned; an fd that is still registered gives up its task.
HandleEvents(t) ==
    /\ pc[t] = "events"
    /\ edge' = (edge /\ cur[t] # Pipe)
    /\ task' = [f \in Tasks |-> IF f = cur[t] /\ f \in Waiting THEN "queued" ELSE task[f]]
    /\ cur' = [cur EXCEPT ![t] = NoTask]
    /\ Goto(t, "yield")
    /\ UNCHANGED <<m_activeThreadCount, m_idleThreadCount, timerVars, stopVars, cpc,
                   timeout, idleDone, far>>

\* Mutant: the thread that leaves idle() is still counted.
LeaveIdleCounted(t) ==
    /\ pc[t] = "yield"
    /\ Goto(t, "scan")
    /\ UNCHANGED <<sched, timerVars, edge, stopVars, cpc, cur, timeout, idleDone, far>>

\* YeildToReady: back in run().
LeaveIdle(t) ==
    /\ pc[t] = "yield"
    /\ m_idleThreadCount' = m_idleThreadCount - 1
    /\ Goto(t, "scan")
    /\ UNCHANGED <<task, m_activeThreadCount, timerVars, edge, stopVars, cpc, cur, timeout,
                   idleDone, far>>

-----------------------------------------------------------------------------
(* Scheduler::stop in the thread that owns the manager.                    *)

StopFlags ==
    /\ \/ /\ main = "running" /\ \A c \in Callers : cpc[c] = "ready"
          /\ m_autoStop' = TRUE /\ main' = "stop" /\ UNCHANGED m_stopping
       \/ /\ main = "stop"
          /\ m_stopping' = TRUE /\ main' = "tickle" /\ UNCHANGED m_autoStop
    /\ UNCHANGED <<sched, timerVars, edge, cpc, workVars, far>>

StopTickle ==
    /\ main = "tickle" /\ Tickle /\ main' = "join"
    /\ UNCHANGED <<sched, timerVars, m_autoStop, m_stopping, cpc, workVars, far>>

StopJoin ==
    /\ main = "join" /\ \A t \in Threads : pc[t] = "exit"
    /\ main' = "done"
    /\ UNCHANGED <<sched, timerVars, edge, m_autoStop, m_stopping, cpc, workVars, far>>

-----------------------------------------------------------------------------
IdleStep(t) == \/ GetNextTimer(t) \/ ReadPending(t) \/ ReadScheduler(t)
               \/ TimeoutWake(t) \/ PipeWake(t) \/ ListExpiredCb(t) \/ HandleEvents(t)
               \/ LeaveIdle(t)

RunStep(t) == \/ Take(t) \/ ScanEmpty(t) \/ EnterIdle(t)
              \/ TaskEnds(t) \/ TaskWaits(t) \/ TaskReturns(t) \/ TaskTickle(t)

Next == \/ TimerDue
        \/ \E c \in Callers : CallSchedule(c) \/ CallAddTimer(c) \/ CallTickle(c)
        \/ \E t \in Threads : RunStep(t) \/ TaskAddTimer(t) \/ IdleStep(t) \/ EventWake(t)
        \/ StopFlags \/ StopTickle \/ StopJoin

Spec == Init /\ [][Next]_vars

(***************************************************************************)
(* Threads run, epoll_wait returns at its timeout, time reaches a timer, a *)
(* call that was begun goes on.  A registered fd event comes in the end    *)
(* and stays in epoll's ready list until some epoll_wait reports it (SF);  *)
(* a task does not wait for events for ever, it ends (SF).                 *)
(***************************************************************************)
Fairness ==
    /\ WF_vars(TimerDue)
    /\ \A c \in Callers : WF_vars(CallTickle(c))
    /\ \A t \in Threads : WF_vars(RunStep(t) \/ IdleStep(t))
    /\ SF_vars(\E t \in Threads : EventWake(t))
    /\ SF_vars(\E t \in Threads : TaskEnds(t))
    /\ WF_vars(main # "running" /\ (StopFlags \/ StopTickle \/ StopJoin))

FairSpec == Spec /\ Fairness

-----------------------------------------------------------------------------
(* Properties.                                                             *)

\* tickle() decides by m_idleThreadCount: it is the number of threads in idle().
IdleCount == m_idleThreadCount = Cardinality({t \in Threads : pc[t] \in InIdle})

\* A worker blocks until there is an event: epoll_wait has a negative timeout.
Deaf(t) == pc[t] = "epoll" /\ timeout[t] < 0

(***************************************************************************)
(* A queued task is taken although tickle() may write nothing: some thread *)
(* comes back from epoll_wait, unless a timer made all of them deaf.       *)
(***************************************************************************)
QueuedTaskIsTaken ==
    \A f \in Tasks : task[f] = "queued" ~> task[f] # "queued" \/ \A t \in Threads : Deaf(t)

\* stop() returns, whatever the threads are blocked on when it is called, unless
\* one of them is deaf.
StopReturns == main = "stop" ~> main = "done" \/ \E t \in Threads : Deaf(t)

(***************************************************************************)
(* The comment at MAX_TIMEOUT says that the wait must stay below the half  *)
(* day of detectClockRollover (iomanager.cpp:311): epoll_wait is given     *)
(* MAX_TIMEOUT at most, and it is given a negative timeout, which blocks   *)
(* for ever, only if a timer was once set 2^31 ms or more ahead: the cast  *)
(* to int comes before the comparison.                                     *)
(***************************************************************************)
WaitIsBounded ==
    \A t \in Threads : pc[t] = "epoll" => timeout[t] <= MAX_TIMEOUT /\ (timeout[t] < 0 => far)

\* What progress rests on: the count that tickle() looks at is right, and no
\* thread blocks in epoll_wait for longer than MAX_TIMEOUT.
IdleInv == TypeOK /\ IdleCount /\ WaitIsBounded

\* Tasks are taken and stop() returns although tickle() (iomanager.cpp:273)
\* writes nothing while threads are idle.
IdleProgress == QueuedTaskIsTaken /\ StopReturns
=============================================================================
