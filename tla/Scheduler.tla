----------------------------- MODULE Scheduler -----------------------------
(***************************************************************************)
(* The N:M coroutine scheduler: wyze/scheduler.h, wyze/scheduler.cpp and   *)
(* the life of a fiber in wyze/fiber.h, wyze/fiber.cpp.                    *)
(*                                                                         *)
(* A task is a Fiber, or a callback that Scheduler::run wraps in one.      *)
(* Worker threads run Scheduler::run; with use_caller the thread that made *)
(* the scheduler is one of them, and runs the loop only inside stop().     *)
(* The main thread starts the scheduler, submits tasks and stops it.       *)
(*                                                                         *)
(* What a task does is left open: it submits other tasks, yields, waits    *)
(* for a wake-up (a timer or an fd event armed before it yields), returns  *)
(* or throws.  stopping() and idle() are IOManager's, which count the      *)
(* wake-ups that are armed.  A step is a critical section of m_mutex or an *)
(* access to state that threads share without it: the fiber's m_state and  *)
(* context, m_activeThreadCount, m_stopping.  No worker sleeps here:       *)
(* IdleLoop is about epoll_wait and tickle().                              *)
(***************************************************************************)
EXTENDS Integers, Sequences, FiniteSets

CONSTANTS
    Threads,      \* every thread that runs Scheduler::run
    Root,         \* the caller's thread (use_caller), or NoThread
    NoThread,     \* no thread: the -1 of schedule(fc, thread = -1)
    Tasks,        \* fibers and callbacks
    NoTask,
    Pins,         \* the values callers pass as thread
    Yields,       \* the ways a task yields: a subset of {"READY", "HOLD"}
    MaxYields,    \* bound: how often one task yields
    MaxSubmits    \* bound: how often one task is submitted

ASSUME ThreadsAssumption ==
    /\ IsFiniteSet(Threads) /\ Threads # {} /\ NoThread \notin Threads
    /\ Root \in Threads \cup {NoThread}
    /\ Pins \subseteq Threads \cup {NoThread}
ASSUME TasksAssumption ==
    /\ NoTask \notin Tasks
    /\ Yields \subseteq {"READY", "HOLD"}
    /\ MaxYields \in Nat /\ MaxSubmits \in Nat

VARIABLES
    m_fibers,             \* the queue, a sequence of [fiber, thread]
    m_activeThreadCount,
    m_stopping,
    m_autoStop,
    m_state,              \* Fiber::m_state; "NEW" before the task exists
    saved,                \* the fiber's m_context is where it will continue
    armed,                \* tasks with a wake-up that will schedule them
    yields,               \* how often a task has yielded
    submits,              \* how often it was submitted
    pc,                   \* where each worker is in run()
    cur,                  \* ft.fiber of each worker
    idleDone,             \* the worker's idle fiber has returned
    main,                 \* where the main thread is
    early,                \* history: tasks woken while a worker still had them
    misread               \* history: threads for which stopping() was true when
                          \*   a READY fiber or an armed one was not in its sight

queueVars == <<m_fibers, m_activeThreadCount>>
stopVars  == <<m_stopping, m_autoStop>>
fiberVars == <<m_state, saved, armed, yields, submits>>
workVars  == <<pc, cur, idleDone>>
history   == <<early, misread>>
vars == <<queueVars, stopVars, fiberVars, workVars, main, history>>

\* The threads that start() creates; the root thread is not one of them.
Created == Threads \ {Root}

\* The worker's stack pointer is inside the fiber it holds.
OnStack == {"exec", "armed", "yield"}

TypeOK ==
    /\ m_fibers \in Seq([fiber : Tasks, thread : Threads \cup {NoThread}])
    /\ m_activeThreadCount \in Nat
    /\ m_stopping \in BOOLEAN /\ m_autoStop \in BOOLEAN
    /\ m_state \in [Tasks -> {"NEW", "INIT", "HOLD", "READY", "EXEC", "TERM", "EXCEPT"}]
    /\ saved \in [Tasks -> BOOLEAN]
    /\ armed \subseteq Tasks
    /\ yields \in [Tasks -> 0..MaxYields]
    /\ submits \in [Tasks -> 0..MaxSubmits]
    /\ pc \in [Threads -> {"off", "scan", "took", "swapIn", "exec", "armed", "yield",
                           "back", "check", "none", "idle", "stopping", "exit"}]
    /\ cur \in [Threads -> Tasks \cup {NoTask}]
    /\ idleDone \in [Threads -> BOOLEAN]
    /\ main \in {"new", "running", "stop", "stopSet", "stopRead", "call", "join", "done"}
    /\ early \subseteq Tasks /\ misread \subseteq Threads

Init ==
    /\ m_fibers = <<>> /\ m_activeThreadCount = 0
    /\ m_stopping = TRUE /\ m_autoStop = FALSE
    /\ m_state = [f \in Tasks |-> "NEW"]
    /\ saved = [f \in Tasks |-> FALSE]
    /\ armed = {}
    /\ yields = [f \in Tasks |-> 0]
    /\ submits = [f \in Tasks |-> 0]
    /\ pc = [t \in Threads |-> "off"]
    /\ cur = [t \in Threads |-> NoTask]
    /\ idleDone = [t \in Threads |-> FALSE]
    /\ main = "new"
    /\ early = {} /\ misread = {}

-----------------------------------------------------------------------------
(* The queue.                                                              *)

\* schedule(fc, thread): scheduleNolock under m_mutex.
Schedule(f, thread) == m_fibers' = Append(m_fibers, [fiber |-> f, thread |-> thread])

\* A call of schedule by the program: of a new task, or again of a fiber that
\* has finished (run() drops it).
SubmitTask(f, thread) ==
    /\ m_state[f] \in {"NEW", "TERM", "EXCEPT"} /\ submits[f] < MaxSubmits
    /\ submits' = [submits EXCEPT ![f] = @ + 1]
    /\ m_state' = [m_state EXCEPT ![f] = IF @ = "NEW" THEN "INIT" ELSE @]
    /\ saved' = [saved EXCEPT ![f] = TRUE]
    /\ Schedule(f, thread)

\* The entries that worker t may take: not pinned elsewhere, not executing.
Takeable(t, e) == e.thread \in {NoThread, t} /\ m_state[e.fiber] # "EXEC"

\* it is the entry at which the loop of run() stops.
IsFirstTakeable(t, it) ==
    /\ Takeable(t, m_fibers[it])
    /\ \A j \in 1..(it - 1) : ~Takeable(t, m_fibers[j])

\* m_fibers.erase(it)
Without(it) ==
    [j \in 1..(Len(m_fibers) - 1) |-> IF j < it THEN m_fibers[j] ELSE m_fibers[j + 1]]

\* Mutant: the queue is not looked at.
stoppingIgnoresQueue == m_autoStop /\ m_stopping /\ m_activeThreadCount = 0

\* Scheduler::stopping, under m_mutex.
stopping == m_autoStop /\ m_stopping /\ m_fibers = <<>> /\ m_activeThreadCount = 0

\* The first half of IOManager::stopping: no timer and no pending event.
NoneArmed == armed = {}

\* Mutant: every fiber that has not finished goes back into the queue.
IsReadyIfUnfinished(f) == m_state[f] \notin {"TERM", "EXCEPT"}

IsReady(f) == m_state[f] = "READY"

\* What the two halves of IOManager::stopping, read one after the other, cannot see:
\* a wake-up armed since the first, and a READY fiber that run() has counted off
\* but not yet put back.
OutOfSight == armed # {} \/ \E t \in Threads : pc[t] = "check" /\ IsReady(cur[t])

\* Thread t takes stopping() for true, rightly or not.
Misread(t) == misread' = IF OutOfSight THEN misread \cup {t} ELSE misread

-----------------------------------------------------------------------------
(* Scheduler::run in worker t.                                             *)

Goto(t, label) == pc' = [pc EXCEPT ![t] = label]

\* Mutant: the worker is not counted.
ActivateNot == m_activeThreadCount' = m_activeThreadCount

\* ++m_activeThreadCount
Activate == m_activeThreadCount' = m_activeThreadCount + 1

\* Take the first entry the worker may run.
TakeTask(t) ==
    /\ pc[t] = "scan"
    /\ \E it \in 1..Len(m_fibers) :
        /\ IsFirstTakeable(t, it)
        /\ cur' = [cur EXCEPT ![t] = m_fibers[it].fiber]
        /\ m_fibers' = Without(it)
    /\ Activate
    /\ Goto(t, "took")
    /\ UNCHANGED <<stopVars, fiberVars, idleDone, main, history>>

NothingToTake(t) ==
    /\ pc[t] = "scan"
    /\ \A it \in 1..Len(m_fibers) : ~Takeable(t, m_fibers[it])
    /\ Goto(t, "none")
    /\ UNCHANGED <<queueVars, stopVars, fiberVars, cur, idleDone, main, history>>

\* The test for TERM and EXCEPT before swapIn.
CheckTask(t) ==
    /\ pc[t] = "took" /\ m_state[cur[t]] \notin {"TERM", "EXCEPT"}
    /\ Goto(t, "swapIn")
    /\ UNCHANGED <<queueVars, stopVars, fiberVars, cur, idleDone, main, history>>

\* A finished fiber was scheduled again: is_active, so the count goes down.
DropFinished(t) ==
    /\ pc[t] = "took" /\ m_state[cur[t]] \in {"TERM", "EXCEPT"}
    /\ m_activeThreadCount' = m_activeThreadCount - 1
    /\ cur' = [cur EXCEPT ![t] = NoTask]
    /\ Goto(t, "scan")
    /\ UNCHANGED <<m_fibers, stopVars, fiberVars, idleDone, main, history>>

\* Fiber::swapIn.  A fiber that executes fails the assertion at its head, and the
\* program ends: SwapInAssertion below.
SwapIn(t) ==
    /\ pc[t] = "swapIn" /\ m_state[cur[t]] # "EXEC"
    /\ IF m_state[cur[t]] \in {"TERM", "EXCEPT"}
       THEN Goto(t, "back") /\ UNCHANGED <<m_state, saved>>
       ELSE /\ m_state' = [m_state EXCEPT ![cur[t]] = "EXEC"]
            /\ saved' = [saved EXCEPT ![cur[t]] = FALSE]
            /\ Goto(t, "exec")
    /\ UNCHANGED <<queueVars, stopVars, armed, yields, submits, cur, idleDone, main, history>>

\* swapIn has returned: --m_activeThreadCount.
Inactive(t) ==
    /\ pc[t] = "back"
    /\ m_activeThreadCount' = m_activeThreadCount - 1
    /\ Goto(t, "check")
    /\ UNCHANGED <<m_fibers, stopVars, fiberVars, cur, idleDone, main, history>>

\* A fiber that yielded to READY goes back into the queue, without its pin.
Reschedule(t) ==
    /\ pc[t] = "check"
    /\ IF IsReady(cur[t]) THEN Schedule(cur[t], NoThread) ELSE UNCHANGED m_fibers
    /\ cur' = [cur EXCEPT ![t] = NoTask]
    /\ Goto(t, "scan")
    /\ UNCHANGED <<m_activeThreadCount, stopVars, fiberVars, idleDone, main, history>>

\* No task: the idle fiber, unless it has returned.
EnterIdle(t) ==
    /\ pc[t] = "none"
    /\ Goto(t, IF idleDone[t] THEN "exit" ELSE "idle")
    /\ UNCHANGED <<queueVars, stopVars, fiberVars, cur, idleDone, main, history>>

\* IOManager::idle: one turn of its loop, up to Scheduler::stopping.
Idle(t) ==
    /\ pc[t] = "idle"
    /\ Goto(t, IF NoneArmed THEN "stopping" ELSE "scan")
    /\ UNCHANGED <<queueVars, stopVars, fiberVars, cur, idleDone, main, history>>

\* ... and the rest of the turn: the idle fiber returns or yields.
IdleStops(t) ==
    /\ pc[t] = "stopping"
    /\ idleDone' = [idleDone EXCEPT ![t] = stopping]
    /\ IF stopping THEN Misread(t) ELSE UNCHANGED misread
    /\ Goto(t, "scan")
    /\ UNCHANGED <<queueVars, stopVars, fiberVars, cur, main, early>>

-----------------------------------------------------------------------------
(* The task that worker t executes.                                        *)

Spawn(t) ==
    /\ pc[t] = "exec"
    /\ \E f \in Tasks, thread \in Pins : SubmitTask(f, thread)
    /\ UNCHANGED <<m_activeThreadCount, stopVars, armed, yields, workVars, main, history>>

\* Mutant: the fiber puts itself back into the queue before it is saved.
YeildToReadyQueued(t) ==
    /\ pc[t] = "exec" /\ "READY" \in Yields /\ yields[cur[t]] < MaxYields
    /\ yields' = [yields EXCEPT ![cur[t]] = @ + 1]
    /\ m_state' = [m_state EXCEPT ![cur[t]] = "READY"]
    /\ Schedule(cur[t], NoThread)
    /\ Goto(t, "yield")
    /\ UNCHANGED <<m_activeThreadCount, stopVars, saved, armed, submits, cur, idleDone, main,
                   history>>

\* YeildToReady up to swapcontext.
YeildToReady(t) ==
    /\ pc[t] = "exec" /\ "READY" \in Yields /\ yields[cur[t]] < MaxYields
    /\ yields' = [yields EXCEPT ![cur[t]] = @ + 1]
    /\ m_state' = [m_state EXCEPT ![cur[t]] = "READY"]
    /\ Goto(t, "yield")
    /\ UNCHANGED <<queueVars, stopVars, saved, armed, submits, cur, idleDone, main, history>>

\* The task arms a timer or an fd event that will schedule it.
Arm(t) ==
    /\ pc[t] = "exec" /\ "HOLD" \in Yields /\ yields[cur[t]] < MaxYields
    /\ yields' = [yields EXCEPT ![cur[t]] = @ + 1]
    /\ armed' = armed \cup {cur[t]}
    /\ Goto(t, "armed")
    /\ UNCHANGED <<queueVars, stopVars, m_state, saved, submits, cur, idleDone, main, history>>

\* YeildToHold up to swapcontext.
YeildToHold(t) ==
    /\ pc[t] = "armed"
    /\ m_state' = [m_state EXCEPT ![cur[t]] = "HOLD"]
    /\ Goto(t, "yield")
    /\ UNCHANGED <<queueVars, stopVars, saved, armed, yields, submits, cur, idleDone, main, history>>

\* swapOut: swapcontext saves the fiber and the worker is back in run().
SwapOut(t) ==
    /\ pc[t] = "yield"
    /\ saved' = [saved EXCEPT ![cur[t]] = TRUE]
    /\ Goto(t, "back")
    /\ UNCHANGED <<queueVars, stopVars, m_state, armed, yields, submits, cur, idleDone, main, history>>

\* MainFunc: the callback returned, or threw.
Finish(t) ==
    /\ pc[t] = "exec"
    /\ \E s \in {"TERM", "EXCEPT"} : m_state' = [m_state EXCEPT ![cur[t]] = s]
    /\ Goto(t, "yield")
    /\ UNCHANGED <<queueVars, stopVars, saved, armed, yields, submits, cur, idleDone, main, history>>

\* A wake-up for f arrives while a worker has yet to let go of f.
IsEarly(f) == \E t \in Threads : cur[t] = f

\* The timer or the event fires and schedules the fiber that waits for it, at any
\* time after it was armed.
Wake(f) ==
    /\ f \in armed
    /\ Schedule(f, NoThread)
    /\ armed' = armed \ {f}
    /\ early' = IF IsEarly(f) THEN early \cup {f} ELSE early
    /\ UNCHANGED <<m_activeThreadCount, stopVars, m_state, saved, yields, submits,
                   workVars, main, misread>>

-----------------------------------------------------------------------------
(* The main thread.                                                        *)

Start ==
    /\ main = "new" /\ m_stopping
    /\ m_stopping' = FALSE
    /\ pc' = [t \in Threads |-> IF t \in Created THEN "scan" ELSE pc[t]]
    /\ main' = "running"
    /\ UNCHANGED <<queueVars, m_autoStop, fiberVars, cur, idleDone, history>>

\* schedule() called from outside, before stop().
Submit ==
    /\ main = "running"
    /\ \E f \in Tasks, thread \in Pins : SubmitTask(f, thread)
    /\ UNCHANGED <<m_activeThreadCount, stopVars, armed, yields, workVars, main, history>>

StopBegin ==
    /\ main = "running"
    /\ m_autoStop' = TRUE
    /\ main' = "stop"
    /\ UNCHANGED <<queueVars, m_stopping, fiberVars, workVars, history>>

\* m_stopping is set on both paths; with only the root thread and nothing to
\* do, stop() returns at once.
StopSet ==
    /\ main = "stop"
    /\ m_stopping' = TRUE
    /\ main' = "stopSet"
    /\ UNCHANGED <<queueVars, m_autoStop, fiberVars, workVars, history>>

\* The tickles, then the first half of stopping(), if there is a root fiber.
StopRoot ==
    /\ main = "stopSet"
    /\ main' = IF Root = NoThread THEN "join" ELSE IF NoneArmed THEN "stopRead" ELSE "call"
    /\ pc' = IF main' = "call" THEN [pc EXCEPT ![Root] = "scan"] ELSE pc
    /\ UNCHANGED <<queueVars, stopVars, fiberVars, cur, idleDone, history>>

\* The second half; the root fiber is called if work is left.
StopCallRoot ==
    /\ main = "stopRead"
    /\ \/ stopping /\ main' = "join" /\ Misread(Root) /\ UNCHANGED pc
       \/ ~stopping /\ main' = "call" /\ pc' = [pc EXCEPT ![Root] = "scan"] /\ UNCHANGED misread
    /\ UNCHANGED <<queueVars, stopVars, fiberVars, cur, idleDone, early>>

StopRootReturned ==
    /\ main = "call" /\ pc[Root] = "exit"
    /\ main' = "join"
    /\ UNCHANGED <<queueVars, stopVars, fiberVars, workVars, history>>

StopJoin ==
    /\ main = "join" /\ \A t \in Created : pc[t] = "exit"
    /\ main' = "done"
    /\ UNCHANGED <<queueVars, stopVars, fiberVars, workVars, history>>

-----------------------------------------------------------------------------
RunStep(t) == \/ TakeTask(t) \/ NothingToTake(t) \/ CheckTask(t) \/ DropFinished(t)
              \/ SwapIn(t) \/ Inactive(t) \/ Reschedule(t)
              \/ EnterIdle(t) \/ Idle(t) \/ IdleStops(t)

TaskStep(t) == \/ Spawn(t) \/ YeildToReady(t) \/ Arm(t) \/ YeildToHold(t)
               \/ SwapOut(t) \/ Finish(t)

MainStep == \/ Start \/ Submit \/ StopBegin \/ StopSet \/ StopRoot \/ StopCallRoot
            \/ StopRootReturned \/ StopJoin

Next == \/ \E t \in Threads : RunStep(t) \/ TaskStep(t)
        \/ \E f \in Tasks : Wake(f)
        \/ MainStep

Spec == Init /\ [][Next]_vars

(***************************************************************************)
(* The operating system runs every worker, a task that executes goes on    *)
(* (it yields at most MaxYields times, then it finishes), an armed timer   *)
(* or event fires in the end, and a stop() that was called goes on.        *)
(***************************************************************************)
Fairness ==
    /\ \A t \in Threads : WF_vars(RunStep(t) \/ TaskStep(t))
    /\ \A f \in Tasks : WF_vars(Wake(f))
    /\ WF_vars(StopSet \/ StopRoot \/ StopCallRoot \/ StopRootReturned \/ StopJoin)

FairSpec == Spec /\ Fairness

-----------------------------------------------------------------------------
(* Properties.                                                             *)

(***************************************************************************)
(* stopping() trusts m_activeThreadCount: it is at every moment the number *)
(* of workers between taking a task and coming back from it, on every path *)
(* of run(), the one that drops a finished fiber included.                 *)
(***************************************************************************)
ActiveCount ==
    m_activeThreadCount =
        Cardinality({t \in Threads : pc[t] \in {"took", "swapIn", "back"} \cup OnStack})

(***************************************************************************)
(* A fiber has one stack: no two workers are on it at the same time.       *)
(* YeildToHold is documented to switch the fiber to the background and set *)
(* HOLD (fiber.h:50); a wake-up must not resume a fiber that is still on.  *)
(***************************************************************************)
FiberOnOneThread ==
    \A t, u \in Threads :
        (t # u /\ pc[t] \in OnStack /\ pc[u] \in OnStack) => cur[t] # cur[u]

(***************************************************************************)
(* That is the only way to get there: two workers are on the stack of one  *)
(* fiber only if it was once woken before run() had let go of it.  Neither *)
(* the queue, nor a fiber that run() puts back itself, nor one that is     *)
(* submitted again, nor stop() brings it about.                            *)
(***************************************************************************)
OneThreadUnlessEarly ==
    \A t, u \in Threads :
        (t # u /\ pc[t] \in OnStack /\ pc[u] \in OnStack /\ cur[t] = cur[u])
            => cur[t] \in early

(***************************************************************************)
(* run() tests for EXEC under the lock and switches later.  The assertion  *)
(* at the head of Fiber::swapIn, m_state != EXEC, holds whenever a worker  *)
(* gets there, unless the fiber was woken too early.                       *)
(***************************************************************************)
SwapInAssertion ==
    \A t \in Threads : (pc[t] = "swapIn" /\ m_state[cur[t]] = "EXEC") => cur[t] \in early

(***************************************************************************)
(* When stop() returns, every task that was submitted has finished: none   *)
(* is left in the queue, in a worker's hands or waiting for a wake-up.     *)
(* stopping() is not atomic, so a worker may leave while a READY fiber or  *)
(* a wake-up armed meanwhile is out of its sight.  One thread that is not  *)
(* mistaken is enough: a task is lost only if all of them were.            *)
(***************************************************************************)
StopReturnsDrained ==
    (main = "done" /\ misread # Threads) =>
        /\ m_fibers = <<>>
        /\ \A f \in Tasks \ early : m_state[f] \in {"NEW", "TERM", "EXCEPT"}

\* An entry for a thread that has left, having misread stopping().
Stranded(f) ==
    \E it \in 1..Len(m_fibers) : /\ m_fibers[it].fiber = f
                                /\ m_fibers[it].thread \in misread
                                /\ pc[m_fibers[it].thread] \in {"off", "exit"}

(***************************************************************************)
(* stop() returns: the workers leave run() one by one and all are joined,  *)
(* unless an entry is pinned to a thread that left too soon.               *)
(***************************************************************************)
StopReturns ==
    main = "stop" ~> main = "done" \/ early # {} \/ \E f \in Tasks : Stranded(f)

(***************************************************************************)
(* A submitted task runs to its end, however often it waits, pinned or     *)
(* not, before or during stop().  One that is pinned to the root thread    *)
(* has to wait for stop(), which nobody may ever call; one that every      *)
(* worker overlooked in stop() stays behind.                               *)
(***************************************************************************)
EveryTaskFinishes ==
    \A f \in Tasks : m_state[f] = "INIT" ~>
        \/ m_state[f] \in {"TERM", "EXCEPT"}
        \/ main = "running" /\ \E it \in 1..Len(m_fibers) :
                                  m_fibers[it] = [fiber |-> f, thread |-> Root]
        \/ early # {} \/ Stranded(f)
        \/ main = "done" /\ misread = Threads

(***************************************************************************)
(* stop() (scheduler.cpp:118) returns, and when it does nothing that was   *)
(* submitted is left.                                                      *)
(***************************************************************************)
StopDrains == StopReturns /\ []StopReturnsDrained
=============================================================================
