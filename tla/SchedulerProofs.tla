-------------------------- MODULE SchedulerProofs --------------------------
(***************************************************************************)
(* Proofs about Scheduler, for any number of threads and tasks, any pins,  *)
(* any moment at which wake-ups arrive.                                    *)
(***************************************************************************)
EXTENDS Scheduler, FiniteSetTheorems, TLAPS

Entry == [fiber : Tasks, thread : Threads \cup {NoThread}]

Labels == {"off", "scan", "took", "swapIn", "exec", "armed", "yield",
           "back", "check", "none", "idle", "stopping", "exit"}

\* Where a worker is that m_activeThreadCount counts.
ActiveLabels == {"took", "swapIn", "back"} \cup OnStack

Active == {t \in Threads : pc[t] \in ActiveLabels}

\* A worker holds a task from taking it until it is done with it.
HoldsTask == \A t \in Threads : pc[t] \in ActiveLabels \cup {"check"} => cur[t] \in Tasks

\* A worker that the main thread has not started yet is not in run(); stop()
\* asks stopping() only if there is a root thread.
NotStarted ==
    /\ \A t \in Threads :
        (main = "new" \/ (t = Root /\ main \in {"running", "stop", "stopSet", "stopRead"}))
            => pc[t] = "off"
    /\ main = "stopRead" => Root \in Threads

\* What every step of a worker or of its task keeps; NotStarted is kept by a
\* lemma of its own.
WorkInv == TypeOK /\ HoldsTask /\ ActiveCount

IInv == WorkInv /\ NotStarted

-----------------------------------------------------------------------------
(* The queue.                                                              *)

\* schedule() keeps the queue a queue.
LEMMA ScheduleType ==
    ASSUME m_fibers \in Seq(Entry), NEW f \in Tasks, NEW th \in Threads \cup {NoThread},
           Schedule(f, th)
    PROVE  m_fibers' \in Seq(Entry)
BY DEF Schedule, Entry

\* So does m_fibers.erase(it).
LEMMA EraseType ==
    ASSUME m_fibers \in Seq(Entry), NEW it \in 1..Len(m_fibers)
    PROVE  Without(it) \in Seq(Entry)
<1>1. Len(m_fibers) - 1 \in Nat
  OBVIOUS
<1>2. \A j \in 1..(Len(m_fibers) - 1) :
        (IF j < it THEN m_fibers[j] ELSE m_fibers[j + 1]) \in Entry
  OBVIOUS
<1>3. Without(it) \in [1..(Len(m_fibers) - 1) -> Entry]
  BY <1>2 DEF Without
<1> QED
  BY <1>1, <1>3

-----------------------------------------------------------------------------
(* The count.                                                              *)

\* The counted workers are finitely many.
LEMMA ActiveFinite == IsFiniteSet(Active) /\ Cardinality(Active) \in Nat
<1>1. Active \in SUBSET Threads
  BY DEF Active
<1> QED
  BY <1>1, ThreadsAssumption, FS_Subset, FS_CardinalityType

\* A worker that becomes active adds one.
LEMMA CountUp ==
    ASSUME pc \in [Threads -> Labels], NEW t \in Threads, NEW label \in ActiveLabels,
           pc[t] \notin ActiveLabels, pc' = [pc EXCEPT ![t] = label]
    PROVE  Cardinality(Active') = Cardinality(Active) + 1
<1>1. Active' = Active \cup {t} /\ t \notin Active
  BY DEF Active
<1> QED
  BY <1>1, ActiveFinite, FS_AddElement

\* One that stops being active takes one away.
LEMMA CountDown ==
    ASSUME pc \in [Threads -> Labels], NEW t \in Threads, NEW label \in Labels \ ActiveLabels,
           pc[t] \in ActiveLabels, pc' = [pc EXCEPT ![t] = label]
    PROVE  /\ Cardinality(Active') = Cardinality(Active) - 1
           /\ Cardinality(Active) - 1 \in Nat
<1>1. Active' = Active \ {t} /\ t \in Active
  BY DEF Active
<1>2. Cardinality(Active') = Cardinality(Active) - 1
  BY <1>1, ActiveFinite, FS_RemoveElement
<1>3. Cardinality(Active) # 0
  BY <1>1, ActiveFinite, FS_EmptySet
<1> QED
  BY <1>2, <1>3, ActiveFinite

\* A step inside the active part, or outside it, changes nothing.
LEMMA CountSame ==
    ASSUME pc \in [Threads -> Labels], NEW t \in Threads, NEW label,
           pc[t] \in ActiveLabels <=> label \in ActiveLabels,
           pc' = [pc EXCEPT ![t] = label]
    PROVE  Active' = Active
BY DEF Active

\* What ActiveCount says of this state and of the next, in terms of Active.
LEMMA CountIsActive ==
    /\ ActiveCount <=> m_activeThreadCount = Cardinality(Active)
    /\ ActiveCount' <=> m_activeThreadCount' = Cardinality(Active')
BY DEF ActiveCount, Active, ActiveLabels

\* Nobody has started: no worker is counted.
LEMMA InitIInv == Init => IInv
<1> SUFFICES ASSUME Init
             PROVE  IInv
  OBVIOUS
<1>1. Active = {}
  BY DEF Init, Active, ActiveLabels, OnStack
<1>2. ActiveCount
  BY <1>1, CountIsActive, FS_EmptySet DEF Init
<1>3. HoldsTask
  BY DEF Init, HoldsTask, ActiveLabels, OnStack
<1>4. m_fibers \in Seq([fiber : Tasks, thread : Threads \cup {NoThread}])
  BY DEF Init
<1>5. 0 \in 0..MaxYields /\ 0 \in 0..MaxSubmits /\ 0 \in Nat
  BY TasksAssumption
<1>6. TypeOK
  BY <1>4, <1>5 DEF Init, TypeOK, history
<1> QED
  BY <1>2, <1>3, <1>6 DEF IInv, WorkInv, NotStarted, Init

\* A worker moves to a label without changing whether it is counted, and
\* keeps its task if it needs one.
LEMMA MoveUncounted ==
    ASSUME TypeOK, HoldsTask, ActiveCount, NEW t \in Threads, NEW label \in Labels,
           pc' = [pc EXCEPT ![t] = label],
           pc[t] \in ActiveLabels <=> label \in ActiveLabels,
           label \in ActiveLabels \cup {"check"} => cur'[t] \in Tasks,
           \A u \in Threads \ {t} : cur'[u] = cur[u],
           m_activeThreadCount' = m_activeThreadCount
    PROVE  HoldsTask' /\ ActiveCount'
<1>1. pc \in [Threads -> Labels]
  BY DEF TypeOK, history, Labels
<1>2. ActiveCount'
  BY <1>1, CountSame, CountIsActive
<1>3. HoldsTask'
  BY <1>1 DEF HoldsTask
<1> QED
  BY <1>2, <1>3

\* run() in a worker.
LEMMA RunKeeps ==
    ASSUME WorkInv, NEW t \in Threads, RunStep(t)
    PROVE  WorkInv'
<1> USE DEF WorkInv
<1>0. pc \in [Threads -> Labels] /\ m_fibers \in Seq(Entry)
  BY DEF TypeOK, history, Labels, Entry
<1>1. CASE TakeTask(t)
  <2>1. PICK it \in 1..Len(m_fibers) :
          cur' = [cur EXCEPT ![t] = m_fibers[it].fiber] /\ m_fibers' = Without(it)
    BY <1>1 DEF TakeTask
  <2>2. m_fibers' \in Seq(Entry)
    BY <1>0, <2>1, EraseType
  <2>3. m_fibers[it] \in Entry
    BY <1>0
  <2>4. m_fibers[it].fiber \in Tasks
    BY <2>3 DEF Entry
  <2>5. pc' = [pc EXCEPT ![t] = "took"] /\ pc[t] = "scan"
        /\ m_activeThreadCount' = m_activeThreadCount + 1
    BY <1>1 DEF TakeTask, Goto, Activate
  <2>6. ActiveCount'
    BY <1>0, <2>5, CountUp, CountIsActive DEF ActiveLabels, OnStack
  <2>7. HoldsTask'
    BY <1>0, <2>1, <2>4, <2>5 DEF HoldsTask, TypeOK, history
  <2>8. TypeOK'
    <3>1. cur' \in [Threads -> Tasks \cup {NoTask}]
      BY <2>1, <2>4 DEF TypeOK, history
    <3>2. pc' \in [Threads -> Labels] /\ m_activeThreadCount' \in Nat
      BY <1>0, <2>5 DEF TypeOK, history, Labels
    <3> QED
      BY <1>1, <2>2, <3>1, <3>2 DEF TakeTask, TypeOK, history, Entry, Labels, stopVars, fiberVars
  <2> QED
    BY <2>6, <2>7, <2>8
<1>2. CASE NothingToTake(t)
  <2>1. pc' = [pc EXCEPT ![t] = "none"] /\ pc[t] = "scan"
        /\ UNCHANGED <<queueVars, stopVars, fiberVars, cur, idleDone, main, history>>
    BY <1>2 DEF NothingToTake, Goto
  <2>2. TypeOK'
    BY <2>1 DEF TypeOK, history, queueVars, stopVars, fiberVars
  <2>3. HoldsTask' /\ ActiveCount'
    BY <2>1, MoveUncounted DEF queueVars, ActiveLabels, OnStack, Labels
  <2> QED
    BY <2>2, <2>3
<1>3. CASE CheckTask(t)
  <2>1. pc' = [pc EXCEPT ![t] = "swapIn"] /\ pc[t] = "took"
        /\ UNCHANGED <<queueVars, stopVars, fiberVars, cur, idleDone, main, history>>
    BY <1>3 DEF CheckTask, Goto
  <2>2. TypeOK'
    BY <2>1 DEF TypeOK, history, queueVars, stopVars, fiberVars
  <2>3. cur[t] \in Tasks
    BY <2>1 DEF HoldsTask, ActiveLabels
  <2>4. HoldsTask' /\ ActiveCount'
    BY <2>1, <2>3, MoveUncounted DEF queueVars, ActiveLabels, OnStack, Labels
  <2> QED
    BY <2>2, <2>4
<1>4. CASE DropFinished(t)
  <2>1. pc' = [pc EXCEPT ![t] = "scan"] /\ pc[t] = "took"
        /\ m_activeThreadCount' = m_activeThreadCount - 1
        /\ cur' = [cur EXCEPT ![t] = NoTask]
        /\ UNCHANGED <<m_fibers, stopVars, fiberVars, idleDone, main, history>>
    BY <1>4 DEF DropFinished, Goto
  <2>2. ActiveCount' /\ m_activeThreadCount' \in Nat
    BY <1>0, <2>1, CountDown, CountIsActive DEF ActiveLabels, OnStack, Labels
  <2>3. HoldsTask'
    BY <1>0, <2>1 DEF HoldsTask, TypeOK, history, ActiveLabels, OnStack
  <2>4. TypeOK'
    BY <2>1, <2>2 DEF TypeOK, history, stopVars, fiberVars
  <2> QED
    BY <2>2, <2>3, <2>4
<1>5. CASE SwapIn(t)
  <2>1. pc[t] = "swapIn" /\ cur[t] \in Tasks
    BY <1>5 DEF SwapIn, HoldsTask, ActiveLabels
  <2>2. PICK label \in {"back", "exec"} : pc' = [pc EXCEPT ![t] = label]
    BY <1>5 DEF SwapIn, Goto
  <2>3. UNCHANGED <<queueVars, stopVars, armed, yields, submits, cur, idleDone, main, history>>
    BY <1>5 DEF SwapIn
  <2>4. m_state' \in [Tasks -> {"NEW", "INIT", "HOLD", "READY", "EXEC", "TERM", "EXCEPT"}]
        /\ saved' \in [Tasks -> BOOLEAN]
    BY <1>5, <2>1 DEF SwapIn, TypeOK, history
  <2>5. TypeOK'
    BY <2>2, <2>3, <2>4 DEF TypeOK, history, queueVars, stopVars
  <2>6. HoldsTask' /\ ActiveCount'
    BY <2>1, <2>2, <2>3, MoveUncounted DEF queueVars, ActiveLabels, OnStack, Labels
  <2> QED
    BY <2>5, <2>6
<1>6. CASE Inactive(t)
  <2>1. pc' = [pc EXCEPT ![t] = "check"] /\ pc[t] = "back"
        /\ m_activeThreadCount' = m_activeThreadCount - 1
        /\ UNCHANGED <<m_fibers, stopVars, fiberVars, cur, idleDone, main, history>>
    BY <1>6 DEF Inactive, Goto
  <2>2. ActiveCount' /\ m_activeThreadCount' \in Nat
    BY <1>0, <2>1, CountDown, CountIsActive DEF ActiveLabels, OnStack, Labels
  <2>3. HoldsTask'
    BY <1>0, <2>1 DEF HoldsTask, TypeOK, history, ActiveLabels, OnStack
  <2>4. TypeOK'
    BY <2>1, <2>2 DEF TypeOK, history, stopVars, fiberVars
  <2> QED
    BY <2>2, <2>3, <2>4
<1>7. CASE Reschedule(t)
  <2>1. pc' = [pc EXCEPT ![t] = "scan"] /\ pc[t] = "check" /\ cur[t] \in Tasks
        /\ cur' = [cur EXCEPT ![t] = NoTask]
        /\ UNCHANGED <<m_activeThreadCount, stopVars, fiberVars, idleDone, main, history>>
    BY <1>7 DEF Reschedule, Goto, HoldsTask
  <2>2. m_fibers' \in Seq(Entry)
    BY <1>0, <1>7, <2>1, ScheduleType DEF Reschedule
  <2>3. HoldsTask' /\ ActiveCount'
    BY <2>1, MoveUncounted DEF ActiveLabels, OnStack, Labels, TypeOK, history
  <2>4. TypeOK'
    BY <2>1, <2>2 DEF TypeOK, history, stopVars, fiberVars, Entry
  <2> QED
    BY <2>3, <2>4
<1>8. CASE EnterIdle(t)
  <2>1. pc[t] = "none" /\ UNCHANGED <<queueVars, stopVars, fiberVars, cur, idleDone, main, history>>
    BY <1>8 DEF EnterIdle
  <2>2. PICK label \in {"exit", "idle"} : pc' = [pc EXCEPT ![t] = label]
    BY <1>8 DEF EnterIdle, Goto
  <2>3. TypeOK'
    BY <2>1, <2>2 DEF TypeOK, history, queueVars, stopVars, fiberVars
  <2>4. HoldsTask' /\ ActiveCount'
    BY <2>1, <2>2, MoveUncounted DEF queueVars, ActiveLabels, OnStack, Labels
  <2> QED
    BY <2>3, <2>4
<1>9. CASE Idle(t)
  <2>1. pc[t] = "idle" /\ UNCHANGED <<queueVars, stopVars, fiberVars, cur, idleDone, main, history>>
    BY <1>9 DEF Idle
  <2>2. PICK label \in {"stopping", "scan"} : pc' = [pc EXCEPT ![t] = label]
    BY <1>9 DEF Idle, Goto
  <2>3. TypeOK'
    BY <2>1, <2>2 DEF TypeOK, queueVars, stopVars, fiberVars, history
  <2>4. HoldsTask' /\ ActiveCount'
    BY <2>1, <2>2, MoveUncounted DEF queueVars, ActiveLabels, OnStack, Labels
  <2> QED
    BY <2>3, <2>4
<1>10. CASE IdleStops(t)
  <2>1. pc[t] = "stopping" /\ pc' = [pc EXCEPT ![t] = "scan"]
        /\ UNCHANGED <<queueVars, stopVars, fiberVars, cur, main, early>>
    BY <1>10 DEF IdleStops, Goto
  <2>2. idleDone' \in [Threads -> BOOLEAN] /\ misread' \subseteq Threads
    BY <1>10 DEF IdleStops, Misread, TypeOK, stopping
  <2>3. TypeOK'
    BY <2>1, <2>2 DEF TypeOK, queueVars, stopVars, fiberVars
  <2>4. HoldsTask' /\ ActiveCount'
    BY <2>1, MoveUncounted DEF queueVars, ActiveLabels, OnStack, Labels
  <2> QED
    BY <2>3, <2>4
<1> QED
  BY <1>1, <1>2, <1>3, <1>4, <1>5, <1>6, <1>7, <1>8, <1>9, <1>10 DEF RunStep

\* A step that leaves every worker where it is and the count alone.
LEMMA StandStill ==
    ASSUME HoldsTask, ActiveCount, UNCHANGED <<pc, cur, m_activeThreadCount>>
    PROVE  HoldsTask' /\ ActiveCount'
BY DEF HoldsTask, ActiveCount

\* schedule() called by the program, from a task or from outside.
LEMMA SubmitType ==
    ASSUME TypeOK, NEW f \in Tasks, NEW thread \in Pins, SubmitTask(f, thread),
           UNCHANGED <<m_activeThreadCount, stopVars, armed, yields, workVars>>,
           main' \in {"new", "running", "stop", "stopSet", "stopRead", "call", "join", "done"},
           UNCHANGED history
    PROVE  TypeOK'
<1>1. m_fibers \in Seq(Entry) /\ thread \in Threads \cup {NoThread}
  BY ThreadsAssumption DEF TypeOK, history, Entry
<1>2. m_fibers' \in Seq(Entry)
  BY <1>1, ScheduleType DEF SubmitTask
<1>3. submits[f] + 1 \in 0..MaxSubmits
  BY TasksAssumption DEF TypeOK, history, SubmitTask
<1>4. /\ submits' \in [Tasks -> 0..MaxSubmits]
      /\ m_state' \in [Tasks -> {"NEW", "INIT", "HOLD", "READY", "EXEC", "TERM", "EXCEPT"}]
      /\ saved' \in [Tasks -> BOOLEAN]
  BY <1>3 DEF SubmitTask, TypeOK, history
<1> QED
  BY <1>2, <1>4 DEF TypeOK, history, Entry, stopVars, workVars

\* The task that a worker executes.
LEMMA TaskKeeps ==
    ASSUME WorkInv, NEW t \in Threads, TaskStep(t)
    PROVE  WorkInv'
<1> USE DEF WorkInv
<1>1. CASE Spawn(t)
  <2>1. PICK f \in Tasks, thread \in Pins : SubmitTask(f, thread)
    BY <1>1 DEF Spawn
  <2>2. UNCHANGED <<m_activeThreadCount, stopVars, armed, yields, workVars, main, history>>
    BY <1>1 DEF Spawn
  <2>3. TypeOK'
    BY <2>1, <2>2, SubmitType DEF TypeOK, history
  <2> QED
    BY <2>2, <2>3, StandStill DEF workVars
<1>2. CASE YeildToReady(t)
  <2>1. pc' = [pc EXCEPT ![t] = "yield"] /\ pc[t] = "exec" /\ cur[t] \in Tasks
        /\ UNCHANGED <<queueVars, stopVars, saved, armed, submits, cur, idleDone, main, history>>
    BY <1>2 DEF YeildToReady, Goto, HoldsTask, ActiveLabels, OnStack
  <2>2. yields[cur[t]] + 1 \in 0..MaxYields
    BY <1>2, <2>1, TasksAssumption DEF YeildToReady, TypeOK, history
  <2>3. TypeOK'
    BY <1>2, <2>1, <2>2 DEF YeildToReady, TypeOK, history, queueVars, stopVars
  <2>4. HoldsTask' /\ ActiveCount'
    BY <2>1, MoveUncounted DEF queueVars, ActiveLabels, OnStack, Labels
  <2> QED
    BY <2>3, <2>4
<1>3. CASE Arm(t)
  <2>1. pc' = [pc EXCEPT ![t] = "armed"] /\ pc[t] = "exec" /\ cur[t] \in Tasks
        /\ UNCHANGED <<queueVars, stopVars, m_state, saved, submits, cur, idleDone, main, history>>
    BY <1>3 DEF Arm, Goto, HoldsTask, ActiveLabels, OnStack
  <2>2. yields[cur[t]] + 1 \in 0..MaxYields
    BY <1>3, <2>1, TasksAssumption DEF Arm, TypeOK, history
  <2>3. TypeOK'
    BY <1>3, <2>1, <2>2 DEF Arm, TypeOK, history, queueVars, stopVars
  <2>4. HoldsTask' /\ ActiveCount'
    BY <2>1, MoveUncounted DEF queueVars, ActiveLabels, OnStack, Labels
  <2> QED
    BY <2>3, <2>4
<1>4. CASE YeildToHold(t)
  <2>1. pc' = [pc EXCEPT ![t] = "yield"] /\ pc[t] = "armed" /\ cur[t] \in Tasks
        /\ UNCHANGED <<queueVars, stopVars, saved, armed, yields, submits, cur, idleDone, main, history>>
    BY <1>4 DEF YeildToHold, Goto, HoldsTask, ActiveLabels, OnStack
  <2>2. TypeOK'
    BY <1>4, <2>1 DEF YeildToHold, TypeOK, history, queueVars, stopVars
  <2>3. HoldsTask' /\ ActiveCount'
    BY <2>1, MoveUncounted DEF queueVars, ActiveLabels, OnStack, Labels
  <2> QED
    BY <2>2, <2>3
<1>5. CASE SwapOut(t)
  <2>1. pc' = [pc EXCEPT ![t] = "back"] /\ pc[t] = "yield" /\ cur[t] \in Tasks
        /\ UNCHANGED <<queueVars, stopVars, m_state, armed, yields, submits, cur, idleDone, main, history>>
    BY <1>5 DEF SwapOut, Goto, HoldsTask, ActiveLabels, OnStack
  <2>2. TypeOK'
    BY <1>5, <2>1 DEF SwapOut, TypeOK, history, queueVars, stopVars
  <2>3. HoldsTask' /\ ActiveCount'
    BY <2>1, MoveUncounted DEF queueVars, ActiveLabels, OnStack, Labels
  <2> QED
    BY <2>2, <2>3
<1>6. CASE Finish(t)
  <2>1. pc' = [pc EXCEPT ![t] = "yield"] /\ pc[t] = "exec" /\ cur[t] \in Tasks
        /\ UNCHANGED <<queueVars, stopVars, saved, armed, yields, submits, cur, idleDone, main, history>>
    BY <1>6 DEF Finish, Goto, HoldsTask, ActiveLabels, OnStack
  <2>2. TypeOK'
    BY <1>6, <2>1 DEF Finish, TypeOK, history, queueVars, stopVars
  <2>3. HoldsTask' /\ ActiveCount'
    BY <2>1, MoveUncounted DEF queueVars, ActiveLabels, OnStack, Labels
  <2> QED
    BY <2>2, <2>3
<1> QED
  BY <1>1, <1>2, <1>3, <1>4, <1>5, <1>6 DEF TaskStep

\* A worker that moves was started, and moves no other.
LEMMA StartedMoves ==
    ASSUME TypeOK, NotStarted, NEW t \in Threads, RunStep(t) \/ TaskStep(t)
    PROVE  NotStarted'
<1>1. pc[t] # "off" /\ main' = main
  BY DEF RunStep, TakeTask, NothingToTake, CheckTask, DropFinished, SwapIn, Inactive,
         Reschedule, EnterIdle, Idle, IdleStops, TaskStep, Spawn, YeildToReady, Arm, YeildToHold,
         SwapOut, Finish
<1>2. pc' = pc \/ \E label : pc' = [pc EXCEPT ![t] = label]
  BY DEF RunStep, TakeTask, NothingToTake, CheckTask, DropFinished, SwapIn, Inactive,
         Reschedule, EnterIdle, Idle, IdleStops, TaskStep, Spawn, YeildToReady, Arm, YeildToHold,
         SwapOut, Finish, Goto, workVars
<1>3. \A u \in Threads : pc[u] = "off" => pc'[u] = "off"
  BY <1>1, <1>2 DEF TypeOK, history
<1> QED
  BY <1>1, <1>3 DEF NotStarted

\* A timer or an event schedules the fiber that waits for it.
LEMMA WakeIInv ==
    ASSUME IInv, NEW f \in Tasks, Wake(f)
    PROVE  IInv'
<1> USE DEF IInv, WorkInv
<1>1. m_fibers \in Seq(Entry)
  BY DEF TypeOK, history, Entry
<1>2. m_fibers' \in Seq(Entry)
  BY <1>1, ScheduleType DEF Wake
<1>3. UNCHANGED <<m_activeThreadCount, stopVars, m_state, saved, yields, submits,
                  workVars, main, misread>> /\ armed' \subseteq Tasks /\ early' \subseteq Tasks
  BY DEF Wake, TypeOK
<1>4. TypeOK'
  BY <1>2, <1>3 DEF TypeOK, Entry, stopVars, workVars
<1>5. HoldsTask' /\ ActiveCount'
  BY <1>3, StandStill DEF workVars
<1> QED
  BY <1>3, <1>4, <1>5 DEF NotStarted, workVars

\* The main thread: it starts only workers that are not in run() yet.
LEMMA MainIInv ==
    ASSUME IInv, MainStep
    PROVE  IInv'
<1> USE DEF IInv, WorkInv
<1>1. CASE Start
  <2>1. \A t \in Threads : pc[t] = "off"
    BY <1>1 DEF Start, NotStarted
  <2>2. \A t \in Threads : pc'[t] \in {"off", "scan"} /\ (t = Root => pc'[t] = "off")
    BY <1>1, <2>1 DEF Start, Created
  <2>3. Active = {} /\ Active' = {}
    BY <2>1, <2>2 DEF Active, ActiveLabels, OnStack
  <2>4. ActiveCount'
    BY <1>1, <2>3, CountIsActive DEF Start, queueVars
  <2>5. TypeOK' /\ HoldsTask'
    BY <1>1, <2>2 DEF Start, TypeOK, history, HoldsTask, queueVars, fiberVars, ActiveLabels, OnStack
  <2>6. NotStarted'
    BY <1>1, <2>2 DEF Start, NotStarted
  <2> QED
    BY <2>4, <2>5, <2>6
<1>2. CASE Submit
  <2>1. PICK f \in Tasks, thread \in Pins : SubmitTask(f, thread)
    BY <1>2 DEF Submit
  <2>2. UNCHANGED <<m_activeThreadCount, stopVars, armed, yields, workVars, main, history>>
    BY <1>2 DEF Submit
  <2>3. TypeOK'
    BY <2>1, <2>2, SubmitType DEF TypeOK, history
  <2>4. HoldsTask' /\ ActiveCount'
    BY <2>2, StandStill DEF workVars
  <2> QED
    BY <2>2, <2>3, <2>4 DEF NotStarted, workVars
<1>3. CASE StopBegin
  <2>1. TypeOK' /\ NotStarted'
    BY <1>3 DEF StopBegin, TypeOK, history, NotStarted, queueVars, fiberVars, workVars
  <2> QED
    BY <1>3, <2>1, StandStill DEF StopBegin, queueVars, workVars
<1>4. CASE StopSet
  <2>1. TypeOK' /\ NotStarted'
    BY <1>4 DEF StopSet, TypeOK, history, NotStarted, queueVars, fiberVars, workVars
  <2> QED
    BY <1>4, <2>1, StandStill DEF StopSet, queueVars, workVars
<1>5. CASE StopRoot \/ StopCallRoot
  <2>1. /\ UNCHANGED <<queueVars, stopVars, fiberVars, cur, idleDone, early>>
        /\ main' \in {"stopRead", "call", "join"} /\ main \in {"stopSet", "stopRead"}
        /\ misread' = misread \/ (misread' = misread \cup {Root} /\ Root # NoThread)
    BY <1>5, ThreadsAssumption DEF StopRoot, StopCallRoot, Misread, history, NotStarted
  <2>2. misread' \subseteq Threads
    BY <2>1, ThreadsAssumption DEF TypeOK
  <2>3. CASE main' = "call"
    <3>1. Root \in Threads /\ pc[Root] = "off" /\ pc' = [pc EXCEPT ![Root] = "scan"]
      BY <1>5, <2>1, <2>3, ThreadsAssumption DEF StopRoot, StopCallRoot, NotStarted
    <3>2. TypeOK' /\ NotStarted'
      BY <2>1, <2>2, <2>3, <3>1 DEF TypeOK, NotStarted, queueVars, stopVars, fiberVars
    <3>3. HoldsTask' /\ ActiveCount'
      BY <2>1, <3>1, MoveUncounted DEF queueVars, ActiveLabels, OnStack, Labels
    <3> QED
      BY <3>2, <3>3
  <2>4. CASE main' # "call"
    <3>1. pc' = pc
      BY <1>5, <2>4 DEF StopRoot, StopCallRoot
    <3>2. TypeOK'
      BY <2>1, <2>2, <3>1 DEF TypeOK, queueVars, stopVars, fiberVars
    <3>3. NotStarted'
      BY <1>5, <2>1, <3>1, ThreadsAssumption DEF NotStarted, StopRoot, StopCallRoot
    <3> QED
      BY <2>1, <3>1, <3>2, <3>3, StandStill DEF queueVars
  <2> QED
    BY <2>3, <2>4
<1>6. CASE StopRootReturned
  <2>1. TypeOK' /\ NotStarted'
    BY <1>6 DEF StopRootReturned, TypeOK, history, NotStarted, queueVars, stopVars, fiberVars, workVars
  <2> QED
    BY <1>6, <2>1, StandStill DEF StopRootReturned, queueVars, workVars
<1>7. CASE StopJoin
  <2>1. TypeOK' /\ NotStarted'
    BY <1>7 DEF StopJoin, TypeOK, history, NotStarted, queueVars, stopVars, fiberVars, workVars
  <2> QED
    BY <1>7, <2>1, StandStill DEF StopJoin, queueVars, workVars
<1> QED
  BY <1>1, <1>2, <1>3, <1>4, <1>5, <1>6, <1>7 DEF MainStep

-----------------------------------------------------------------------------
\* Every step of the system keeps the inductive invariant.
LEMMA NextIInv == IInv /\ [Next]_vars => IInv'
<1> SUFFICES ASSUME IInv, [Next]_vars
             PROVE  IInv'
  OBVIOUS
<1>1. CASE \E t \in Threads : RunStep(t) \/ TaskStep(t)
  BY <1>1, RunKeeps, TaskKeeps, StartedMoves DEF IInv, WorkInv
<1>2. CASE \E f \in Tasks : Wake(f)
  BY <1>2, WakeIInv
<1>3. CASE MainStep
  BY <1>3, MainIInv
<1>4. CASE UNCHANGED vars
  BY <1>4 DEF vars, IInv, WorkInv, TypeOK, history, HoldsTask, ActiveCount, NotStarted,
              queueVars, stopVars, fiberVars, workVars
<1> QED
  BY <1>1, <1>2, <1>3, <1>4 DEF Next

\* So it holds in every reachable state.
LEMMA Invariance == Spec => []IInv
BY InitIInv, NextIInv, PTL DEF Spec

\* Type correctness of the scheduler: no step of run(), of a task, of a
\* wake-up or of the main thread leaves the declared domains; the count of
\* active threads in particular never goes below zero.
THEOREM TypeCorrect == Spec => []TypeOK
<1>1. IInv => TypeOK
  BY DEF IInv, WorkInv
<1> QED
  BY <1>1, Invariance, PTL

\* m_activeThreadCount is the number of workers between taking a task and
\* coming back from it, for any number of threads and on every path of run().
THEOREM ActiveCountHolds == Spec => []ActiveCount
<1>1. IInv => ActiveCount
  BY DEF IInv, WorkInv
<1> QED
  BY <1>1, Invariance, PTL
-----------------------------------------------------------------------------
(* One owner of an unfinished fiber: the queue, a worker or a wake-up.     *)

\* A fiber that was submitted and has not finished, and that no wake-up ever
\* scheduled while a worker had it.
Unfinished(f) == f \notin early /\ m_state[f] \notin {"NEW", "TERM", "EXCEPT"}

\* It is in the queue once,
OneEntry ==
    \A i, j \in DOMAIN m_fibers :
        m_fibers[i].fiber = m_fibers[j].fiber /\ Unfinished(m_fibers[i].fiber) => i = j

\* or a worker has it,
EntryOrHolder ==
    \A i \in DOMAIN m_fibers, t \in Threads :
        cur[t] = m_fibers[i].fiber => ~Unfinished(m_fibers[i].fiber)

\* and no other worker.
OneHolder ==
    \A t, u \in Threads : t # u /\ cur[t] = cur[u] /\ cur[t] \in Tasks => ~Unfinished(cur[t])

\* A fiber in the queue does not execute, and no wake-up will come for it.
EntryState ==
    \A i \in DOMAIN m_fibers :
        m_fibers[i].fiber \notin early =>
            /\ m_state[m_fibers[i].fiber] \notin {"NEW", "EXEC"}
            /\ m_fibers[i].fiber \notin armed

\* What m_state can be at each place of run().
HolderState ==
    \A t \in Threads :
        /\ cur[t] \in Tasks => pc[t] \in ActiveLabels \cup {"check"}
        /\ cur[t] \notin early =>
            /\ pc[t] = "took" => m_state[cur[t]] \notin {"NEW", "EXEC"}
            /\ pc[t] = "swapIn" => m_state[cur[t]] \in {"INIT", "HOLD", "READY"}
            /\ pc[t] \in {"exec", "armed"} => m_state[cur[t]] = "EXEC"
            /\ pc[t] \in {"yield", "back", "check"} =>
                  m_state[cur[t]] \in {"READY", "HOLD", "TERM", "EXCEPT"}
            /\ pc[t] \in {"took", "swapIn", "exec"} => cur[t] \notin armed

\* A fiber with a wake-up to come is about to wait, or waits.
ArmedState ==
    \A f \in armed \ early :
        m_state[f] = "HOLD" \/ (m_state[f] = "EXEC" /\ \E t \in Threads : cur[t] = f)

OwnInv == /\ OneEntry /\ EntryOrHolder /\ OneHolder
          /\ EntryState /\ HolderState /\ ArmedState /\ OneThreadUnlessEarly

\* An entry of the queue names a task.
LEMMA EntryTask ==
    ASSUME m_fibers \in Seq(Entry)
    PROVE  \A i \in DOMAIN m_fibers : m_fibers[i].fiber \in Tasks
<1>1. \A i \in DOMAIN m_fibers : m_fibers[i] \in Entry
  OBVIOUS
<1> QED
  BY <1>1 DEF Entry

\* What Append leaves in the queue: the old entries and the new one.
LEMMA ScheduleEntries ==
    ASSUME m_fibers \in Seq(Entry), NEW f \in Tasks, NEW th \in Threads \cup {NoThread},
           Schedule(f, th)
    PROVE  /\ DOMAIN m_fibers' = DOMAIN m_fibers \cup {Len(m_fibers) + 1}
           /\ \A i \in DOMAIN m_fibers : m_fibers'[i] = m_fibers[i] /\ i # Len(m_fibers) + 1
           /\ m_fibers'[Len(m_fibers) + 1].fiber = f
BY DEF Schedule, Entry

\* What erase leaves: every entry but one, each once.
LEMMA EraseEntries ==
    ASSUME m_fibers \in Seq(Entry), NEW it \in DOMAIN m_fibers, m_fibers' = Without(it)
    PROVE  \E old \in [DOMAIN m_fibers' -> DOMAIN m_fibers \ {it}] :
              /\ \A i \in DOMAIN m_fibers' : m_fibers'[i] = m_fibers[old[i]]
              /\ \A i, j \in DOMAIN m_fibers' : old[i] = old[j] => i = j
<1> DEFINE old == [i \in 1..(Len(m_fibers) - 1) |-> IF i < it THEN i ELSE i + 1]
<1>1. DOMAIN m_fibers' = 1..(Len(m_fibers) - 1) /\ DOMAIN m_fibers = 1..Len(m_fibers)
  BY DEF Without
<1>2. old \in [DOMAIN m_fibers' -> DOMAIN m_fibers \ {it}]
  BY <1>1
<1>3. \A i \in DOMAIN m_fibers' : m_fibers'[i] = m_fibers[old[i]]
  BY <1>1 DEF Without
<1>4. \A i, j \in DOMAIN m_fibers' : old[i] = old[j] => i = j
  BY <1>1
<1> QED
  BY <1>2, <1>3, <1>4

\* No queue, no holder, nothing armed.
LEMMA InitOwn == Init => OwnInv
<1> SUFFICES ASSUME Init
             PROVE  OwnInv
  OBVIOUS
<1>1. DOMAIN m_fibers = {} /\ \A t \in Threads : cur[t] = NoTask /\ pc[t] = "off"
  BY DEF Init
<1>2. OneEntry /\ EntryOrHolder /\ EntryState
  BY <1>1 DEF OneEntry, EntryOrHolder, EntryState
<1>3. OneHolder /\ HolderState /\ OneThreadUnlessEarly /\ ArmedState
  BY <1>1, TasksAssumption
  DEF Init, OneHolder, HolderState, OneThreadUnlessEarly, ArmedState, OnStack
<1> QED
  BY <1>2, <1>3 DEF OwnInv

\* A worker moves on with the fiber it has, or without one.
LEMMA MoveOwn ==
    ASSUME TypeOK, HoldsTask, OwnInv, NEW t \in Threads, NEW label \in Labels,
           pc' = [pc EXCEPT ![t] = label], cur' = cur,
           UNCHANGED <<m_fibers, m_state, armed, early>>,
           cur[t] \in Tasks => label \in ActiveLabels \cup {"check"},
           label = "swapIn" /\ cur[t] \notin early =>
               m_state[cur[t]] \in {"INIT", "HOLD", "READY"} /\ cur[t] \notin armed,
           label \in {"back", "check"} /\ cur[t] \notin early => pc[t] \in {"yield", "back"},
           label \notin OnStack \cup {"took"}
    PROVE  OwnInv'
<1>1. OneEntry' /\ EntryOrHolder' /\ OneHolder' /\ EntryState' /\ ArmedState'
  BY DEF OwnInv, OneEntry, EntryOrHolder, OneHolder, EntryState, ArmedState, Unfinished
<1>2. HolderState'
  BY DEF OwnInv, HolderState, TypeOK, ActiveLabels, OnStack
<1>3. OneThreadUnlessEarly'
  BY DEF OwnInv, OneThreadUnlessEarly, TypeOK, OnStack
<1> QED
  BY <1>1, <1>2, <1>3 DEF OwnInv

\* run() in a worker.
LEMMA RunOwn ==
    ASSUME TypeOK, HoldsTask, OwnInv, NEW t \in Threads, RunStep(t)
    PROVE  OwnInv'
<1>0. m_fibers \in Seq(Entry) /\ NoTask \notin Tasks
  BY TasksAssumption DEF TypeOK, Entry
<1>1. CASE TakeTask(t)
  <2>1. PICK it \in 1..Len(m_fibers) :
          /\ IsFirstTakeable(t, it)
          /\ cur' = [cur EXCEPT ![t] = m_fibers[it].fiber] /\ m_fibers' = Without(it)
    BY <1>1 DEF TakeTask
  <2>2. pc[t] = "scan" /\ pc' = [pc EXCEPT ![t] = "took"] /\ UNCHANGED <<m_state, armed, early>>
    BY <1>1 DEF TakeTask, Goto, fiberVars, history
  <2>3. it \in DOMAIN m_fibers /\ m_fibers[it].fiber \in Tasks
    BY <1>0, EntryTask
  <2>4. PICK old \in [DOMAIN m_fibers' -> DOMAIN m_fibers \ {it}] :
              /\ \A i \in DOMAIN m_fibers' : m_fibers'[i] = m_fibers[old[i]]
              /\ \A i, j \in DOMAIN m_fibers' : old[i] = old[j] => i = j
    BY <1>0, <2>1, <2>3, EraseEntries
  <2>5. OneEntry'
    BY <2>2, <2>4 DEF OwnInv, OneEntry, Unfinished
  <2>6. EntryOrHolder'
    <3>1. \A i \in DOMAIN m_fibers' : m_fibers'[i].fiber = m_fibers[it].fiber =>
            ~Unfinished(m_fibers[it].fiber)
      BY <2>3, <2>4 DEF OwnInv, OneEntry
    <3>2. \A i \in DOMAIN m_fibers', u \in Threads \ {t} :
            cur[u] = m_fibers'[i].fiber => ~Unfinished(m_fibers'[i].fiber)
      BY <2>4 DEF OwnInv, EntryOrHolder
    <3>3. \A u \in Threads : cur'[u] = IF u = t THEN m_fibers[it].fiber ELSE cur[u]
      BY <2>1 DEF TypeOK
    <3> QED
      BY <2>2, <3>1, <3>2, <3>3 DEF EntryOrHolder, Unfinished
  <2>7. OneHolder'
    BY <2>1, <2>2, <2>3 DEF OwnInv, OneHolder, EntryOrHolder, Unfinished, TypeOK
  <2>8. EntryState' /\ ArmedState'
    <3>1. EntryState'
      BY <2>2, <2>4 DEF OwnInv, EntryState
    <3>2. cur[t] \notin Tasks
      BY <2>2 DEF OwnInv, HolderState, ActiveLabels, OnStack
    <3>3. \A f \in armed, u \in Threads : cur[u] = f => cur'[u] = f
      BY <2>1, <3>2 DEF TypeOK
    <3>4. ArmedState'
      BY <2>2, <3>3 DEF OwnInv, ArmedState
    <3> QED
      BY <3>1, <3>4
  <2>9. HolderState'
    BY <2>1, <2>2, <2>3 DEF OwnInv, HolderState, EntryState, TypeOK, ActiveLabels, OnStack
  <2>10. OneThreadUnlessEarly'
    BY <2>1, <2>2 DEF OwnInv, OneThreadUnlessEarly, TypeOK, OnStack
  <2> QED
    BY <2>5, <2>6, <2>7, <2>8, <2>9, <2>10 DEF OwnInv
<1>2. CASE NothingToTake(t)
  <2>1. cur[t] \notin Tasks
    BY <1>2 DEF NothingToTake, OwnInv, HolderState, ActiveLabels, OnStack
  <2> QED
    BY <1>2, <2>1, MoveOwn
    DEF NothingToTake, Goto, queueVars, fiberVars, history, Labels, OnStack
<1>3. CASE CheckTask(t)
  <2>1. cur[t] \notin early =>
          m_state[cur[t]] \in {"INIT", "HOLD", "READY"} /\ cur[t] \notin armed
    BY <1>3 DEF CheckTask, OwnInv, HolderState, HoldsTask, TypeOK, ActiveLabels
  <2> QED
    BY <1>3, <2>1, MoveOwn
    DEF CheckTask, Goto, queueVars, fiberVars, history, Labels, OnStack, ActiveLabels
<1>4. CASE DropFinished(t)
  <2>1. /\ pc[t] = "took" /\ pc' = [pc EXCEPT ![t] = "scan"]
        /\ cur' = [cur EXCEPT ![t] = NoTask] /\ UNCHANGED <<m_fibers, m_state, armed, early>>
    BY <1>4 DEF DropFinished, Goto, fiberVars, history
  <2>2. OneEntry' /\ EntryState' /\ ArmedState'
    <3>1. OneEntry' /\ EntryState'
      BY <2>1 DEF OwnInv, OneEntry, EntryState, Unfinished
    <3>2. m_state[cur[t]] \in {"TERM", "EXCEPT"}
      BY <1>4 DEF DropFinished
    <3>3. \A f \in armed, u \in Threads : cur[u] = f /\ m_state[f] = "EXEC" => cur'[u] = f
      BY <2>1, <3>2 DEF TypeOK
    <3>4. ArmedState'
      BY <2>1, <3>3 DEF OwnInv, ArmedState
    <3> QED
      BY <3>1, <3>4
  <2>3. EntryOrHolder'
    <3> SUFFICES ASSUME NEW i \in DOMAIN m_fibers, NEW u \in Threads,
                        cur'[u] = m_fibers[i].fiber
                 PROVE  ~Unfinished(m_fibers[i].fiber)
      BY <2>1 DEF EntryOrHolder, Unfinished
    <3>1. m_fibers[i].fiber \in Tasks
      BY <1>0, EntryTask
    <3>2. cur[u] = m_fibers[i].fiber
      BY <1>0, <2>1, <3>1 DEF TypeOK
    <3> QED
      BY <3>2 DEF OwnInv, EntryOrHolder
  <2>4. OneHolder' /\ HolderState' /\ OneThreadUnlessEarly'
    BY <1>0, <2>1 DEF OwnInv, OneHolder, HolderState, OneThreadUnlessEarly, Unfinished, TypeOK,
                      OnStack, ActiveLabels
  <2> QED
    BY <2>2, <2>3, <2>4 DEF OwnInv
<1>5. CASE SwapIn(t)
  <2>0. pc[t] = "swapIn" /\ cur[t] \in Tasks /\ UNCHANGED <<m_fibers, cur, armed, early>>
    BY <1>5 DEF SwapIn, HoldsTask, ActiveLabels, queueVars, history
  <2>1. cur[t] \notin early =>
          m_state[cur[t]] \in {"INIT", "HOLD", "READY"} /\ cur[t] \notin armed
    BY <2>0 DEF OwnInv, HolderState
  <2>2. CASE m_state[cur[t]] \in {"TERM", "EXCEPT"}
    <3>1. m_state' = m_state /\ pc' = [pc EXCEPT ![t] = "back"] /\ cur[t] \in early
      BY <1>5, <2>1, <2>2 DEF SwapIn, Goto
    <3> QED
      BY <2>0, <3>1, MoveOwn DEF Labels, OnStack, ActiveLabels
  <2>3. CASE m_state[cur[t]] \notin {"TERM", "EXCEPT"}
    <3>1. m_state' = [m_state EXCEPT ![cur[t]] = "EXEC"] /\ pc' = [pc EXCEPT ![t] = "exec"]
      BY <1>5, <2>3 DEF SwapIn, Goto
    <3>2. cur[t] \notin early => \A i \in DOMAIN m_fibers : m_fibers[i].fiber # cur[t]
      BY <2>1 DEF OwnInv, EntryOrHolder, Unfinished
    <3>3. cur[t] \notin early => \A u \in Threads \ {t} : cur[u] # cur[t]
      BY <2>0, <2>1 DEF OwnInv, OneHolder, Unfinished
    <3>4. \A f : f # cur[t] /\ f \in Tasks => m_state'[f] = m_state[f]
      BY <3>1 DEF TypeOK
    <3>5. m_state'[cur[t]] = "EXEC"
      BY <2>0, <3>1 DEF TypeOK
    <3>6. \A i \in DOMAIN m_fibers : m_fibers[i].fiber \in Tasks
      BY <1>0, EntryTask
    <3>7. OneEntry' /\ EntryState' /\ EntryOrHolder'
      BY <2>0, <3>2, <3>4, <3>6 DEF OwnInv, OneEntry, EntryState, EntryOrHolder, Unfinished
    <3>8. OneHolder' /\ ArmedState'
      BY <2>0, <2>1, <3>1, <3>3, <3>4 DEF OwnInv, OneHolder, ArmedState, Unfinished, TypeOK
    <3>9. OneThreadUnlessEarly'
      BY <2>0, <3>1, <3>3 DEF OwnInv, OneThreadUnlessEarly, TypeOK, OnStack
    <3>10. HolderState'
      BY <2>0, <2>1, <3>1, <3>3, <3>4, <3>5
      DEF OwnInv, HolderState, TypeOK, HoldsTask, ActiveLabels, OnStack
    <3> QED
      BY <3>7, <3>8, <3>9, <3>10 DEF OwnInv
  <2> QED
    BY <2>2, <2>3
<1>6. CASE Inactive(t)
  BY <1>6, MoveOwn DEF Inactive, Goto, queueVars, fiberVars, history, Labels, OnStack, ActiveLabels
<1>7. CASE Reschedule(t)
  <2>1. /\ pc[t] = "check" /\ pc' = [pc EXCEPT ![t] = "scan"] /\ cur[t] \in Tasks
        /\ cur' = [cur EXCEPT ![t] = NoTask] /\ UNCHANGED <<m_state, armed, early>>
    BY <1>7 DEF Reschedule, Goto, HoldsTask, fiberVars, history
  <2>2. OneHolder' /\ HolderState' /\ OneThreadUnlessEarly' /\ ArmedState'
    <3>1. OneHolder' /\ HolderState' /\ OneThreadUnlessEarly'
      BY <1>0, <2>1 DEF OwnInv, OneHolder, HolderState, OneThreadUnlessEarly,
                        Unfinished, TypeOK, OnStack, ActiveLabels
    <3>2. cur[t] \notin early => m_state[cur[t]] # "EXEC"
      BY <2>1 DEF OwnInv, HolderState
    <3>3. \A f \in armed \ early, u \in Threads : cur[u] = f /\ m_state[f] = "EXEC" => cur'[u] = f
      BY <2>1, <3>2 DEF TypeOK
    <3>4. ArmedState'
      BY <2>1, <3>3 DEF OwnInv, ArmedState
    <3> QED
      BY <3>1, <3>4
  <2>3. \A u \in Threads : cur'[u] \in Tasks => u # t /\ cur'[u] = cur[u]
    BY <1>0, <2>1 DEF TypeOK
  <2>4. \A i \in DOMAIN m_fibers : m_fibers[i].fiber \in Tasks
    BY <1>0, EntryTask
  <2>5. CASE IsReady(cur[t])
    <3>1. Schedule(cur[t], NoThread) /\ m_state[cur[t]] = "READY"
      BY <1>7, <2>5 DEF Reschedule, IsReady
    <3>2. /\ DOMAIN m_fibers' = DOMAIN m_fibers \cup {Len(m_fibers) + 1}
          /\ \A i \in DOMAIN m_fibers : m_fibers'[i] = m_fibers[i] /\ i # Len(m_fibers) + 1
          /\ m_fibers'[Len(m_fibers) + 1].fiber = cur[t]
      BY <1>0, <2>1, <3>1, ScheduleEntries
    <3>3. cur[t] \notin early => \A i \in DOMAIN m_fibers : m_fibers[i].fiber # cur[t]
      BY <3>1 DEF OwnInv, EntryOrHolder, Unfinished
    <3>4. cur[t] \notin early => \A u \in Threads \ {t} : cur[u] # cur[t]
      BY <2>1, <3>1 DEF OwnInv, OneHolder, Unfinished
    <3>5. cur[t] \notin early => cur[t] \notin armed
      BY <3>1 DEF OwnInv, ArmedState
    <3>6. OneEntry' /\ EntryState'
      BY <2>1, <3>1, <3>2, <3>3, <3>5 DEF OwnInv, OneEntry, EntryState, Unfinished
    <3>7. EntryOrHolder'
      BY <2>1, <2>3, <2>4, <3>1, <3>2, <3>4 DEF OwnInv, EntryOrHolder, Unfinished
    <3> QED
      BY <2>2, <3>6, <3>7 DEF OwnInv
  <2>6. CASE ~IsReady(cur[t])
    <3>1. m_fibers' = m_fibers
      BY <1>7, <2>6 DEF Reschedule
    <3>2. OneEntry' /\ EntryState' /\ EntryOrHolder'
      BY <2>1, <2>3, <2>4, <3>1 DEF OwnInv, OneEntry, EntryState, EntryOrHolder, Unfinished
    <3> QED
      BY <2>2, <3>2 DEF OwnInv
  <2> QED
    BY <2>5, <2>6
<1>8. CASE EnterIdle(t)
  <2>1. cur[t] \notin Tasks
    BY <1>8 DEF EnterIdle, OwnInv, HolderState, ActiveLabels, OnStack
  <2>2. PICK label \in {"exit", "idle"} : pc' = [pc EXCEPT ![t] = label]
    BY <1>8 DEF EnterIdle, Goto
  <2> QED
    BY <1>8, <2>1, <2>2, MoveOwn DEF EnterIdle, queueVars, fiberVars, history, Labels, OnStack
<1>9. CASE Idle(t)
  <2>1. cur[t] \notin Tasks
    BY <1>9 DEF Idle, OwnInv, HolderState, ActiveLabels, OnStack
  <2>2. PICK label \in {"stopping", "scan"} : pc' = [pc EXCEPT ![t] = label]
    BY <1>9 DEF Idle, Goto
  <2> QED
    BY <1>9, <2>1, <2>2, MoveOwn DEF Idle, queueVars, fiberVars, history, Labels, OnStack
<1>10. CASE IdleStops(t)
  <2>1. cur[t] \notin Tasks
    BY <1>10 DEF IdleStops, OwnInv, HolderState, ActiveLabels, OnStack
  <2> QED
    BY <1>10, <2>1, MoveOwn DEF IdleStops, Goto, queueVars, fiberVars, Labels, OnStack
<1> QED
  BY <1>1, <1>2, <1>3, <1>4, <1>5, <1>6, <1>7, <1>8, <1>9, <1>10 DEF RunStep

\* schedule() called by the program: the fiber is new, or has finished.
LEMMA SubmitOwn ==
    ASSUME TypeOK, HoldsTask, OwnInv, NEW f \in Tasks, NEW thread \in Pins,
           SubmitTask(f, thread), UNCHANGED <<armed, pc, cur, early>>
    PROVE  OwnInv'
<1>0. m_fibers \in Seq(Entry) /\ thread \in Threads \cup {NoThread}
  BY ThreadsAssumption DEF TypeOK, Entry
<1>1. /\ DOMAIN m_fibers' = DOMAIN m_fibers \cup {Len(m_fibers) + 1}
      /\ \A i \in DOMAIN m_fibers : m_fibers'[i] = m_fibers[i] /\ i # Len(m_fibers) + 1
      /\ m_fibers'[Len(m_fibers) + 1].fiber = f
  BY <1>0, ScheduleEntries DEF SubmitTask
<1>2. \A i \in DOMAIN m_fibers : m_fibers[i].fiber \in Tasks
  BY <1>0, EntryTask
<1>3. \A g \in Tasks \ {f} : m_state'[g] = m_state[g]
  BY DEF SubmitTask, TypeOK
<1>4. f \notin early => f \notin armed
  BY DEF SubmitTask, OwnInv, ArmedState
<1>5. CASE m_state[f] = "NEW"
  <2>1. m_state'[f] = "INIT"
    BY <1>5 DEF SubmitTask, TypeOK
  <2>2. f \notin early => \A i \in DOMAIN m_fibers : m_fibers[i].fiber # f
    BY <1>5 DEF OwnInv, EntryState
  <2>3. f \notin early => \A t \in Threads : cur[t] # f
    BY <1>5 DEF OwnInv, HolderState, ActiveLabels, OnStack
  <2>4. OneEntry' /\ EntryState' /\ EntryOrHolder'
    BY <1>1, <1>2, <1>3, <1>4, <2>1, <2>2, <2>3
    DEF OwnInv, OneEntry, EntryState, EntryOrHolder, Unfinished
  <2>5. OneHolder' /\ OneThreadUnlessEarly' /\ ArmedState'
    <3>1. OneHolder'
      BY <1>3, <2>3 DEF OwnInv, OneHolder, Unfinished, TypeOK
    <3>2. OneThreadUnlessEarly'
      BY DEF OwnInv, OneThreadUnlessEarly
    <3>3. \A g \in armed \ early : g \in Tasks \ {f} /\ m_state'[g] = m_state[g]
      BY <1>3, <1>4 DEF TypeOK
    <3>4. ArmedState'
      BY <3>3 DEF OwnInv, ArmedState
    <3> QED
      BY <3>1, <3>2, <3>4
  <2>6. HolderState'
    <3>1. \A t \in Threads : cur[t] \in Tasks \ early => m_state'[cur[t]] = m_state[cur[t]]
      BY <1>3, <2>3
    <3>2. \A t \in Threads : pc[t] \in ActiveLabels \cup {"check"} => cur[t] \in Tasks
      BY DEF HoldsTask
    <3> QED
      BY <3>1, <3>2 DEF OwnInv, HolderState, ActiveLabels, OnStack
  <2> QED
    BY <2>4, <2>5, <2>6 DEF OwnInv
<1>6. CASE m_state[f] \in {"TERM", "EXCEPT"}
  <2>1. m_state' = m_state
    BY <1>6 DEF SubmitTask, TypeOK
  <2>2. OneEntry' /\ EntryState' /\ EntryOrHolder'
    BY <1>1, <1>2, <1>4, <1>6, <2>1
    DEF OwnInv, OneEntry, EntryState, EntryOrHolder, Unfinished
  <2>3. OneHolder' /\ OneThreadUnlessEarly' /\ ArmedState' /\ HolderState'
    BY <2>1 DEF OwnInv, OneHolder, OneThreadUnlessEarly, ArmedState, HolderState, Unfinished
  <2> QED
    BY <2>2, <2>3 DEF OwnInv
<1> QED
  BY <1>5, <1>6 DEF SubmitTask

\* The fiber that a worker executes changes its state: it yields or ends.
LEMMA ExecOwn ==
    ASSUME TypeOK, HoldsTask, OwnInv, NEW t \in Threads, cur[t] \in Tasks,
           NEW s \in {"READY", "HOLD", "TERM", "EXCEPT"},
           pc[t] = "exec" \/ (pc[t] = "armed" /\ s = "HOLD"),
           m_state' = [m_state EXCEPT ![cur[t]] = s],
           pc' = [pc EXCEPT ![t] = "yield"], UNCHANGED <<m_fibers, cur, armed, early>>
    PROVE  OwnInv'
<1>0. m_fibers \in Seq(Entry)
  BY DEF TypeOK, Entry
<1>1. cur[t] \notin early => m_state[cur[t]] = "EXEC"
  BY DEF OwnInv, HolderState
<1>2. \A i \in DOMAIN m_fibers :
        m_fibers[i].fiber \in Tasks /\ (cur[t] \notin early => m_fibers[i].fiber # cur[t])
  BY <1>0, <1>1, EntryTask DEF OwnInv, EntryOrHolder, Unfinished
<1>3. cur[t] \notin early => \A u \in Threads \ {t} : cur[u] # cur[t]
  BY <1>1 DEF OwnInv, OneHolder, Unfinished
<1>4. m_state'[cur[t]] = s /\ \A g \in Tasks \ {cur[t]} : m_state'[g] = m_state[g]
  BY DEF TypeOK
<1>5. OneEntry' /\ EntryState' /\ EntryOrHolder'
  BY <1>2, <1>4 DEF OwnInv, OneEntry, EntryState, EntryOrHolder, Unfinished
<1>6. OneHolder' /\ OneThreadUnlessEarly'
  BY <1>3, <1>4 DEF OwnInv, OneHolder, OneThreadUnlessEarly, Unfinished, TypeOK, OnStack
<1>7. ArmedState'
  BY <1>4 DEF OwnInv, ArmedState, HolderState, TypeOK
<1>8. HolderState'
  BY <1>3, <1>4 DEF OwnInv, HolderState, HoldsTask, TypeOK, ActiveLabels, OnStack
<1> QED
  BY <1>5, <1>6, <1>7, <1>8 DEF OwnInv

\* The task that a worker executes.
LEMMA TaskOwn ==
    ASSUME TypeOK, HoldsTask, OwnInv, NEW t \in Threads, TaskStep(t)
    PROVE  OwnInv'
<1>1. CASE Spawn(t)
  BY <1>1, SubmitOwn DEF Spawn, workVars, history
<1>2. CASE YeildToReady(t)
  <2>1. cur[t] \in Tasks
    BY <1>2 DEF YeildToReady, HoldsTask, ActiveLabels, OnStack
  <2> QED
    BY <1>2, <2>1, ExecOwn DEF YeildToReady, Goto, queueVars, history
<1>3. CASE Arm(t)
  <2>1. /\ pc[t] = "exec" /\ pc' = [pc EXCEPT ![t] = "armed"] /\ armed' = armed \cup {cur[t]}
        /\ UNCHANGED <<m_fibers, cur, m_state, early>> /\ cur[t] \in Tasks
    BY <1>3 DEF Arm, Goto, HoldsTask, ActiveLabels, OnStack, queueVars, history
  <2>2. cur[t] \notin early => m_state[cur[t]] = "EXEC"
    BY <2>1 DEF OwnInv, HolderState
  <2>3. cur[t] \notin early => \A i \in DOMAIN m_fibers : m_fibers[i].fiber # cur[t]
    BY <2>2 DEF OwnInv, EntryOrHolder, Unfinished
  <2>4. cur[t] \notin early => \A u \in Threads \ {t} : cur[u] # cur[t]
    BY <2>1, <2>2 DEF OwnInv, OneHolder, Unfinished
  <2>5. OneEntry' /\ EntryOrHolder' /\ OneHolder' /\ EntryState' /\ ArmedState'
    BY <2>1, <2>2, <2>3
    DEF OwnInv, OneEntry, EntryOrHolder, OneHolder, EntryState, ArmedState, Unfinished
  <2>6. HolderState' /\ OneThreadUnlessEarly'
    BY <2>1, <2>2, <2>4
    DEF OwnInv, HolderState, OneThreadUnlessEarly, TypeOK, ActiveLabels, OnStack
  <2> QED
    BY <2>5, <2>6 DEF OwnInv
<1>4. CASE YeildToHold(t)
  <2>1. cur[t] \in Tasks
    BY <1>4 DEF YeildToHold, HoldsTask, ActiveLabels, OnStack
  <2> QED
    BY <1>4, <2>1, ExecOwn DEF YeildToHold, Goto, queueVars, history
<1>5. CASE SwapOut(t)
  BY <1>5, MoveOwn DEF SwapOut, Goto, queueVars, history, Labels, ActiveLabels, OnStack
<1>6. CASE Finish(t)
  <2>1. cur[t] \in Tasks
    BY <1>6 DEF Finish, HoldsTask, ActiveLabels, OnStack
  <2> QED
    BY <1>6, <2>1, ExecOwn DEF Finish, Goto, queueVars, history
<1> QED
  BY <1>1, <1>2, <1>3, <1>4, <1>5, <1>6 DEF TaskStep

\* A wake-up schedules a fiber that no worker has any more, or it is early.
LEMMA WakeOwn ==
    ASSUME TypeOK, OwnInv, NEW f \in Tasks, Wake(f)
    PROVE  OwnInv'
<1>0. m_fibers \in Seq(Entry) /\ NoThread \in Threads \cup {NoThread}
  BY DEF TypeOK, Entry
<1>1. f \in armed /\ armed' = armed \ {f} /\ UNCHANGED <<m_state, pc, cur>>
  BY DEF Wake, workVars
<1>2. early \subseteq early'
  BY DEF Wake
<1>3. f \notin early' => m_state[f] = "HOLD" /\ \A t \in Threads : cur[t] # f
  <2>1. SUFFICES ASSUME f \notin early'
                 PROVE  m_state[f] = "HOLD" /\ \A t \in Threads : cur[t] # f
    OBVIOUS
  <2>2. ~IsEarly(f) /\ f \notin early
    BY <2>1 DEF Wake
  <2> QED
    BY <1>1, <2>2 DEF IsEarly, OwnInv, ArmedState
<1>4. /\ DOMAIN m_fibers' = DOMAIN m_fibers \cup {Len(m_fibers) + 1}
      /\ \A i \in DOMAIN m_fibers : m_fibers'[i] = m_fibers[i] /\ i # Len(m_fibers) + 1
      /\ m_fibers'[Len(m_fibers) + 1].fiber = f
  BY <1>0, ScheduleEntries DEF Wake
<1>5. f \notin early' => \A i \in DOMAIN m_fibers : m_fibers[i].fiber # f
  BY <1>1, <1>2 DEF OwnInv, EntryState
<1>6. OneEntry' /\ EntryState' /\ EntryOrHolder'
  BY <1>1, <1>2, <1>3, <1>4, <1>5 DEF OwnInv, OneEntry, EntryState, EntryOrHolder, Unfinished
<1>7. OneHolder' /\ HolderState' /\ OneThreadUnlessEarly' /\ ArmedState'
  BY <1>1, <1>2
  DEF OwnInv, OneHolder, HolderState, OneThreadUnlessEarly, ArmedState, Unfinished
<1> QED
  BY <1>6, <1>7 DEF OwnInv

\* A step that touches no fiber, no entry and no worker that runs.
LEMMA StillOwn ==
    ASSUME OwnInv, UNCHANGED <<m_fibers, m_state, armed, cur, early>>,
           \A t \in Threads : pc'[t] = pc[t] \/ (cur[t] \notin Tasks /\ pc'[t] \in {"off", "scan"})
    PROVE  OwnInv'
<1>1. OneEntry' /\ EntryState' /\ EntryOrHolder' /\ OneHolder' /\ ArmedState'
  BY DEF OwnInv, OneEntry, EntryState, EntryOrHolder, OneHolder, ArmedState, Unfinished
<1>2. HolderState' /\ OneThreadUnlessEarly'
  BY DEF OwnInv, HolderState, OneThreadUnlessEarly, OnStack
<1> QED
  BY <1>1, <1>2 DEF OwnInv

\* The main thread.
LEMMA MainOwn ==
    ASSUME IInv, OwnInv, MainStep
    PROVE  OwnInv'
<1> USE DEF IInv, WorkInv
<1>1. CASE Start
  <2>1. \A t \in Threads : pc[t] = "off" /\ cur[t] \notin Tasks
    BY <1>1 DEF Start, NotStarted, OwnInv, HolderState, ActiveLabels, OnStack
  <2>2. \A t \in Threads : pc'[t] \in {"off", "scan"}
    BY <1>1, <2>1 DEF Start
  <2> QED
    BY <1>1, <2>1, <2>2, StillOwn DEF Start, queueVars, fiberVars, history
<1>2. CASE Submit
  BY <1>2, SubmitOwn DEF Submit, workVars, history
<1>3. CASE StopBegin \/ StopSet \/ StopRootReturned \/ StopJoin
  BY <1>3, StillOwn
  DEF StopBegin, StopSet, StopRootReturned, StopJoin, queueVars, fiberVars, workVars, history
<1>4. CASE StopRoot \/ StopCallRoot
  <2>1. UNCHANGED <<m_fibers, m_state, armed, cur, early>>
    BY <1>4 DEF StopRoot, StopCallRoot, queueVars, fiberVars, history
  <2>2. \A t \in Threads : pc'[t] = pc[t] \/ (t = Root /\ pc'[t] = "scan")
    BY <1>4 DEF StopRoot, StopCallRoot, TypeOK
  <2>3. \A t \in Threads : t = Root => cur[t] \notin Tasks
    BY <1>4 DEF StopRoot, StopCallRoot, NotStarted, OwnInv, HolderState, ActiveLabels, OnStack
  <2> QED
    BY <2>1, <2>2, <2>3, StillOwn
<1> QED
  BY <1>1, <1>2, <1>3, <1>4 DEF MainStep

\* Every step keeps the owners apart.
LEMMA NextOwn == IInv /\ OwnInv /\ [Next]_vars => OwnInv'
<1> SUFFICES ASSUME IInv, OwnInv, [Next]_vars
             PROVE  OwnInv'
  OBVIOUS
<1>1. CASE \E t \in Threads : RunStep(t) \/ TaskStep(t)
  BY <1>1, RunOwn, TaskOwn DEF IInv, WorkInv
<1>2. CASE \E f \in Tasks : Wake(f)
  BY <1>2, WakeOwn DEF IInv, WorkInv
<1>3. CASE MainStep
  BY <1>3, MainOwn
<1>4. CASE UNCHANGED vars
  BY <1>4, StillOwn DEF vars, queueVars, fiberVars, workVars, history
<1> QED
  BY <1>1, <1>2, <1>3, <1>4 DEF Next

\* So the owners are apart in every reachable state.
LEMMA OwnInvariance == Spec => []OwnInv
BY InitOwn, NextOwn, Invariance, PTL DEF Spec

\* Two workers are on the stack of one fiber only if a wake-up once scheduled it
\* before run() had let it go: for any number of threads and tasks, however they
\* submit, yield, wait and finish, nothing else brings it about.
THEOREM OneThreadUnlessEarlyHolds == Spec => []OneThreadUnlessEarly
<1>1. OwnInv => OneThreadUnlessEarly
  BY DEF OwnInv
<1> QED
  BY <1>1, OwnInvariance, PTL

\* The assertion of Fiber::swapIn fails for no other fiber: the test of m_state
\* in run() and swapIn are apart, but nobody else can have resumed the fiber in
\* between, be it taken, put back, submitted again or left over by stop().
THEOREM SwapInAssertionHolds == Spec => []SwapInAssertion
<1>1. OwnInv => SwapInAssertion
  BY DEF OwnInv, HolderState, SwapInAssertion
<1> QED
  BY <1>1, OwnInvariance, PTL

-----------------------------------------------------------------------------
(* What stop() leaves behind.                                              *)

\* A fiber that has not finished is in the queue, a wake-up will come for it,
\* or a worker is about to run it, runs it, or is about to put it back.
InQueue(f) == \E i \in DOMAIN m_fibers : m_fibers[i].fiber = f
Carried(f) ==
    \E t \in Threads :
        /\ cur[t] = f
        /\ \/ pc[t] \in {"took", "swapIn", "exec"}
           \/ pc[t] \in {"yield", "back", "check"} /\ m_state[f] = "READY"
NotLost == \A f \in Tasks : Unfinished(f) => InQueue(f) \/ f \in armed \/ Carried(f)

\* stopping() is true and nothing is out of its sight.
Quiet == stopping /\ ~OutOfSight

\* Before stop() has set both flags, stopping() is false.
FlagsOfStop ==
    /\ main = "new" => ~m_autoStop
    /\ main \in {"running", "stop"} => ~m_stopping

\* A worker leaves run() after stopping() was true for it; unless it was mistaken
\* nothing is left then, and nothing comes any more.  So does stop().
SeenStopping ==
    /\ \A t \in Threads \ misread : idleDone[t] => Quiet
    /\ \A t \in Threads : pc[t] = "exit" => idleDone[t]
    /\ main \in {"join", "done"} /\ Root \in Threads \ misread => Quiet
    /\ main = "done" => \A t \in Created : pc[t] = "exit"

DrainInv == NotLost /\ FlagsOfStop /\ SeenStopping

\* Erasing one entry keeps every other.
LEMMA EraseKeeps ==
    ASSUME m_fibers \in Seq(Entry), NEW it \in 1..Len(m_fibers), m_fibers' = Without(it)
    PROVE  \A i \in DOMAIN m_fibers \ {it} : \E j \in DOMAIN m_fibers' : m_fibers'[j] = m_fibers[i]
<1> SUFFICES ASSUME NEW i \in DOMAIN m_fibers, i # it
             PROVE  \E j \in DOMAIN m_fibers' : m_fibers'[j] = m_fibers[i]
  OBVIOUS
<1>0. /\ DOMAIN m_fibers = 1..Len(m_fibers) /\ Len(m_fibers) \in Nat
      /\ DOMAIN m_fibers' = 1..(Len(m_fibers) - 1)
      /\ \A j \in 1..(Len(m_fibers) - 1) :
            m_fibers'[j] = IF j < it THEN m_fibers[j] ELSE m_fibers[j + 1]
  BY DEF Without
<1>1. CASE i < it
  <2>1. i \in 1..(Len(m_fibers) - 1)
    BY <1>0, <1>1
  <2> QED
    BY <1>0, <1>1, <2>1
<1>2. CASE i > it
  <2>1. i - 1 \in 1..(Len(m_fibers) - 1) /\ ~(i - 1 < it) /\ (i - 1) + 1 = i
    BY <1>0, <1>2
  <2> QED
    BY <1>0, <2>1
<1> QED
  BY <1>0, <1>1, <1>2

\* Nothing is submitted, and no flag of stop() is set.
LEMMA InitDrain == Init => DrainInv
BY DEF Init, DrainInv, NotLost, FlagsOfStop, SeenStopping, Unfinished

\* While stopping() holds no worker is between taking a task and coming back.
LEMMA NobodyActive ==
    ASSUME IInv, stopping
    PROVE  \A t \in Threads : pc[t] \notin ActiveLabels
<1>1. m_activeThreadCount = 0
  BY DEF stopping
<1>2. Cardinality(Active) = 0
  BY <1>1, CountIsActive DEF IInv, WorkInv
<1>3. Active = {}
  BY <1>2, ActiveFinite, FS_EmptySet
<1> QED
  BY <1>3 DEF Active

\* Once all is quiet it stays so: there is no task that could submit another, no
\* wake-up to come, no fiber to put back and no caller.
LEMMA QuietStays ==
    ASSUME IInv, DrainInv, Quiet, [Next]_vars
    PROVE  Quiet'
<1>0. /\ \A t \in Threads : pc[t] \notin ActiveLabels
      /\ \A t \in Threads : pc[t] = "check" => ~IsReady(cur[t])
      /\ m_autoStop /\ m_stopping /\ m_fibers = <<>> /\ armed = {}
  BY NobodyActive DEF Quiet, stopping, OutOfSight
<1>a. pc \in [Threads -> Labels]
  BY DEF IInv, WorkInv, TypeOK, Labels
<1>1. SUFFICES /\ UNCHANGED <<m_fibers, m_activeThreadCount, stopVars, armed, m_state>>
               /\ \A t \in Threads : pc'[t] = "check" => pc[t] = "check" /\ cur'[t] = cur[t]
  BY <1>0 DEF Quiet, stopping, stopVars, OutOfSight, IsReady
<1>2. ASSUME NEW t \in Threads, RunStep(t)
      PROVE  /\ UNCHANGED <<m_fibers, m_activeThreadCount, stopVars, armed, m_state>>
             /\ \A u \in Threads : pc'[u] = "check" => pc[u] = "check" /\ cur'[u] = cur[u]
  <2>1. ~TakeTask(t)
    BY <1>0 DEF TakeTask
  <2>2. ~CheckTask(t) /\ ~DropFinished(t) /\ ~SwapIn(t) /\ ~Inactive(t)
    BY <1>0 DEF CheckTask, DropFinished, SwapIn, Inactive, ActiveLabels
  <2>3. CASE NothingToTake(t) \/ EnterIdle(t) \/ Idle(t) \/ IdleStops(t)
    BY <1>a, <2>3 DEF NothingToTake, EnterIdle, Idle, IdleStops, Goto, queueVars, fiberVars
  <2>4. CASE Reschedule(t)
    <3>1. cur[t] \in Tasks /\ ~IsReady(cur[t])
      BY <1>0, <2>4 DEF Reschedule, IInv, WorkInv, HoldsTask
    <3> QED
      BY <1>a, <2>4, <3>1 DEF Reschedule, Goto, fiberVars, IInv, WorkInv, TypeOK
  <2> QED
    BY <1>2, <2>1, <2>2, <2>3, <2>4 DEF RunStep
<1>3. ASSUME NEW t \in Threads
      PROVE  ~TaskStep(t)
  BY <1>0 DEF TaskStep, Spawn, YeildToReady, Arm, YeildToHold, SwapOut, Finish, ActiveLabels, OnStack
<1>4. ASSUME NEW f \in Tasks
      PROVE  ~Wake(f)
  BY <1>0 DEF Wake
<1>5. CASE MainStep
  <2>1. ~Start /\ ~Submit /\ ~StopBegin /\ ~StopSet
    BY <1>0 DEF Start, Submit, StopBegin, StopSet, DrainInv, FlagsOfStop
  <2>2. CASE StopRoot \/ StopCallRoot
    BY <1>a, <2>2 DEF StopRoot, StopCallRoot, queueVars, fiberVars
  <2>3. CASE StopRootReturned \/ StopJoin
    BY <2>3 DEF StopRootReturned, StopJoin, queueVars, fiberVars, workVars
  <2> QED
    BY <1>5, <2>1, <2>2, <2>3 DEF MainStep
<1>6. CASE UNCHANGED vars
  BY <1>6 DEF vars, queueVars, fiberVars, workVars
<1> QED
  BY <1>2, <1>3, <1>4, <1>5, <1>6 DEF Next

\* What a step does to idleDone and misread: a worker's idle fiber returns, or
\* stop() asks stopping(), rightly or as one more that was mistaken.
LEMMA SeenStep ==
    ASSUME IInv, [Next]_vars
    PROVE  /\ misread \subseteq misread'
           /\ \A t \in Threads : pc[t] = "exit" => pc'[t] = "exit" /\ idleDone'[t] = idleDone[t]
           /\ \A t \in Threads \ misread' : idleDone'[t] => idleDone[t] \/ Quiet
           /\ \A t \in Threads : pc'[t] = "exit" => pc[t] = "exit" \/ (idleDone[t] /\ idleDone'[t])
<1>0. pc \in [Threads -> Labels] /\ idleDone \in [Threads -> BOOLEAN]
  BY DEF IInv, WorkInv, TypeOK, Labels
<1>1. ASSUME NEW u \in Threads, IdleStops(u)
      PROVE  /\ misread \subseteq misread' /\ pc[u] = "stopping"
             /\ pc' = [pc EXCEPT ![u] = "scan"]
             /\ \A t \in Threads \ {u} : idleDone'[t] = idleDone[t]
             /\ u \notin misread' /\ idleDone'[u] => Quiet
  BY <1>0, <1>1 DEF IdleStops, Misread, Goto, Quiet
<1>2. ASSUME NEW u \in Threads, RunStep(u), ~IdleStops(u)
      PROVE  /\ UNCHANGED <<misread, idleDone>> /\ pc[u] # "exit"
             /\ \E label : pc' = [pc EXCEPT ![u] = label] /\ (label = "exit" => idleDone[u])
  BY <1>2 DEF RunStep, TakeTask, NothingToTake, CheckTask, DropFinished, SwapIn, Inactive,
              Reschedule, EnterIdle, Idle, Goto, history
<1>3. ASSUME NEW u \in Threads, TaskStep(u)
      PROVE  /\ UNCHANGED <<misread, idleDone>> /\ pc[u] # "exit"
             /\ UNCHANGED pc \/ \E label : pc' = [pc EXCEPT ![u] = label] /\ label # "exit"
  BY <1>3 DEF TaskStep, Spawn, YeildToReady, Arm, YeildToHold, SwapOut, Finish, Goto, workVars,
              history
<1>4. ASSUME MainStep \/ (\E f \in Tasks : Wake(f)) \/ UNCHANGED vars
      PROVE  /\ misread \subseteq misread' /\ UNCHANGED idleDone
             /\ \A t \in Threads : pc'[t] = pc[t] \/ (pc[t] = "off" /\ pc'[t] = "scan")
  <2>1. CASE Start
    BY <1>0, <2>1 DEF Start, history, IInv, NotStarted
  <2>2. CASE StopRoot
    BY <1>0, <2>2, ThreadsAssumption DEF StopRoot, history, IInv, NotStarted
  <2>3. CASE StopCallRoot
    BY <1>0, <2>3 DEF StopCallRoot, Misread, IInv, NotStarted
  <2>4. CASE Submit \/ StopBegin \/ StopSet \/ StopRootReturned \/ StopJoin
    BY <2>4 DEF Submit, StopBegin, StopSet, StopRootReturned, StopJoin, workVars, history
  <2>5. CASE (\E f \in Tasks : Wake(f)) \/ UNCHANGED vars
    BY <2>5 DEF Wake, vars, workVars, history
  <2> QED
    BY <1>4, <2>1, <2>2, <2>3, <2>4, <2>5 DEF MainStep
<1> SUFFICES ASSUME NEW t \in Threads
             PROVE  /\ misread \subseteq misread'
                    /\ pc[t] = "exit" => pc'[t] = "exit" /\ idleDone'[t] = idleDone[t]
                    /\ t \notin misread' /\ idleDone'[t] => idleDone[t] \/ Quiet
                    /\ pc'[t] = "exit" => pc[t] = "exit" \/ (idleDone[t] /\ idleDone'[t])
  BY ThreadsAssumption
<1>5. CASE \E u \in Threads : IdleStops(u)
  BY <1>0, <1>1, <1>5
<1>6. CASE \E u \in Threads : RunStep(u) /\ ~IdleStops(u)
  BY <1>0, <1>2, <1>6
<1>7. CASE \E u \in Threads : TaskStep(u)
  BY <1>0, <1>3, <1>7
<1>8. CASE MainStep \/ (\E f \in Tasks : Wake(f)) \/ UNCHANGED vars
  BY <1>4, <1>8
<1> QED
  BY <1>5, <1>6, <1>7, <1>8 DEF Next

\* The flags of stop() and who has seen them.
LEMMA StopKeeps ==
    ASSUME IInv, DrainInv, [Next]_vars
    PROVE  FlagsOfStop' /\ SeenStopping'
<1> DEFINE Same == UNCHANGED <<stopVars, main>>
<1>0. Quiet => Quiet'
  BY QuietStays
<1>1. ASSUME NEW t \in Threads, RunStep(t) \/ TaskStep(t)
      PROVE  Same
  BY <1>1 DEF RunStep, TakeTask, NothingToTake, CheckTask, DropFinished, SwapIn, Inactive,
              Reschedule, EnterIdle, Idle, IdleStops, TaskStep, Spawn, YeildToReady, Arm,
              YeildToHold, SwapOut, Finish
<1>2. FlagsOfStop'
  <2>1. CASE Same
    BY <2>1 DEF DrainInv, FlagsOfStop, stopVars
  <2>2. CASE MainStep
    BY <2>2 DEF MainStep, Start, Submit, StopBegin, StopSet, StopRoot, StopCallRoot,
                StopRootReturned, StopJoin, DrainInv, FlagsOfStop, stopVars
  <2>3. CASE \E f \in Tasks : Wake(f)
    BY <2>3, <2>1 DEF Wake
  <2> QED
    BY <1>1, <2>1, <2>2, <2>3 DEF Next, vars
<1>3. \A t \in Threads \ misread' : idleDone'[t] => Quiet'
  BY <1>0, SeenStep DEF DrainInv, SeenStopping
<1>4. \A t \in Threads : pc'[t] = "exit" => idleDone'[t]
  BY SeenStep DEF DrainInv, SeenStopping
<1>5. main' \in {"join", "done"} /\ Root \in Threads \ misread' => Quiet'
  <2> SUFFICES ASSUME main' \in {"join", "done"}, Root \in Threads, Root \notin misread'
               PROVE  Quiet
    BY <1>0
  <2>0. Root \notin misread /\ Root # NoThread
    BY SeenStep, ThreadsAssumption
  <2>1. CASE main \in {"join", "done"}
    BY <2>0, <2>1 DEF DrainInv, SeenStopping
  <2>2. CASE StopCallRoot
    BY <2>2 DEF StopCallRoot, Misread, Quiet
  <2>3. CASE StopRootReturned
    BY <2>0, <2>3 DEF StopRootReturned, DrainInv, SeenStopping
  <2>4. CASE Start \/ Submit \/ StopBegin \/ StopSet \/ StopRoot \/ StopJoin
    BY <2>0, <2>1, <2>4 DEF Start, Submit, StopBegin, StopSet, StopRoot, StopJoin
  <2>5. CASE UNCHANGED main
    BY <2>1, <2>5
  <2>6. CASE \E f \in Tasks : Wake(f)
    BY <2>5, <2>6 DEF Wake
  <2> QED
    BY <1>1, <2>2, <2>3, <2>4, <2>5, <2>6 DEF Next, MainStep, vars
<1>6. main' = "done" => \A t \in Created : pc'[t] = "exit"
  <2> SUFFICES ASSUME main' = "done"
               PROVE  \A t \in Created : pc[t] = "exit"
    BY SeenStep DEF Created
  <2>1. CASE main = "done"
    BY <2>1 DEF DrainInv, SeenStopping
  <2>2. CASE StopJoin
    BY <2>2 DEF StopJoin
  <2>3. CASE Start \/ Submit \/ StopBegin \/ StopSet \/ StopRoot \/ StopCallRoot \/ StopRootReturned
    BY <2>1, <2>3 DEF Start, Submit, StopBegin, StopSet, StopRoot, StopCallRoot, StopRootReturned
  <2>4. CASE UNCHANGED main
    BY <2>1, <2>4
  <2>5. CASE \E f \in Tasks : Wake(f)
    BY <2>4, <2>5 DEF Wake
  <2> QED
    BY <1>1, <2>2, <2>3, <2>4, <2>5 DEF Next, MainStep, vars
<1>7. SeenStopping'
  BY <1>3, <1>4, <1>5, <1>6 DEF SeenStopping, Created
<1> QED
  BY <1>2, <1>7

\* A step that leaves queue, wake-ups and states alone loses no fiber if the
\* workers that had one still have it.
LEMMA StillNotLost ==
    ASSUME NotLost, UNCHANGED <<m_fibers, m_state, armed, early>>,
           \A f \in Tasks : Unfinished(f) /\ Carried(f) => Carried(f)'
    PROVE  NotLost'
BY DEF NotLost, Unfinished, InQueue

\* A step of worker t, of the fiber it has or of no fiber: the others keep
\* what they carry.
LEMMA CarriedOn ==
    ASSUME TypeOK, NEW t \in Threads, NEW label, NEW f \in Tasks, Carried(f),
           pc' = [pc EXCEPT ![t] = label], \A u \in Threads \ {t} : cur'[u] = cur[u],
           m_state'[f] = m_state[f], cur[t] # f
    PROVE  Carried(f)'
<1>1. pc \in [Threads -> Labels]
  BY DEF TypeOK, Labels
<1>2. PICK u \in Threads :
        /\ cur[u] = f
        /\ \/ pc[u] \in {"took", "swapIn", "exec"}
           \/ pc[u] \in {"yield", "back", "check"} /\ m_state[f] = "READY"
  BY DEF Carried
<1>3. cur'[u] = f /\ pc'[u] = pc[u]
  BY <1>1, <1>2
<1> QED
  BY <1>2, <1>3 DEF Carried

\* Every step of run() hands the fiber on, or it has finished.
LEMMA RunDrain ==
    ASSUME TypeOK, HoldsTask, OwnInv, NotLost, NEW t \in Threads, RunStep(t)
    PROVE  NotLost'
<1>0. /\ m_fibers \in Seq(Entry) /\ pc \in [Threads -> Labels]
      /\ cur \in [Threads -> Tasks \cup {NoTask}] /\ NoTask \notin Tasks
      /\ m_state \in [Tasks -> {"NEW", "INIT", "HOLD", "READY", "EXEC", "TERM", "EXCEPT"}]
  BY TasksAssumption DEF TypeOK, Entry, Labels
<1>1. CASE TakeTask(t)
  <2>1. PICK it \in 1..Len(m_fibers) :
          cur' = [cur EXCEPT ![t] = m_fibers[it].fiber] /\ m_fibers' = Without(it)
    BY <1>1 DEF TakeTask
  <2>2. pc[t] = "scan" /\ pc' = [pc EXCEPT ![t] = "took"] /\ UNCHANGED <<m_state, armed, early>>
    BY <1>1 DEF TakeTask, Goto, fiberVars, history
  <2>3. \A i \in DOMAIN m_fibers \ {it} :
          \E j \in DOMAIN m_fibers' : m_fibers'[j] = m_fibers[i]
    BY <1>0, <2>1, EraseKeeps
  <2>4. \A f \in Tasks : InQueue(f) => InQueue(f)' \/ Carried(f)'
    BY <1>0, <2>1, <2>2, <2>3 DEF InQueue, Carried
  <2>5. \A f \in Tasks : Carried(f) => Carried(f)'
    BY <1>0, <2>1, <2>2 DEF Carried
  <2> QED
    BY <2>2, <2>4, <2>5 DEF NotLost, Unfinished
<1>2. CASE NothingToTake(t) \/ EnterIdle(t) \/ Idle(t) \/ IdleStops(t)
  <2>1. /\ cur' = cur /\ UNCHANGED <<m_fibers, m_state, armed, early>>
        /\ pc[t] \in {"scan", "none", "idle", "stopping"}
        /\ \E label : pc' = [pc EXCEPT ![t] = label]
    BY <1>2 DEF NothingToTake, EnterIdle, Idle, IdleStops, Goto, queueVars, fiberVars, history
  <2>2. \A f \in Tasks : Carried(f) => Carried(f)'
    BY <1>0, <2>1 DEF Carried
  <2> QED
    BY <2>1, <2>2, StillNotLost
<1>3. CASE CheckTask(t) \/ Inactive(t)
  <2>1. /\ cur' = cur /\ UNCHANGED <<m_fibers, m_state, armed, early>>
        /\ \/ pc[t] = "took" /\ pc' = [pc EXCEPT ![t] = "swapIn"]
           \/ pc[t] = "back" /\ pc' = [pc EXCEPT ![t] = "check"]
    BY <1>3 DEF CheckTask, Inactive, Goto, queueVars, fiberVars, history
  <2>2. \A f \in Tasks : Carried(f) => Carried(f)'
    BY <1>0, <2>1 DEF Carried
  <2> QED
    BY <2>1, <2>2, StillNotLost
<1>4. CASE DropFinished(t)
  <2>1. /\ pc[t] = "took" /\ m_state[cur[t]] \in {"TERM", "EXCEPT"}
        /\ cur' = [cur EXCEPT ![t] = NoTask] /\ pc' = [pc EXCEPT ![t] = "scan"]
        /\ UNCHANGED <<m_fibers, m_state, armed, early>>
    BY <1>4 DEF DropFinished, Goto, fiberVars, history
  <2>2. \A f \in Tasks : Unfinished(f) /\ Carried(f) => Carried(f)'
    BY <1>0, <2>1 DEF Carried, Unfinished
  <2> QED
    BY <2>1, <2>2, StillNotLost
<1>5. CASE SwapIn(t)
  <2>1. cur[t] \in Tasks /\ pc[t] = "swapIn" /\ UNCHANGED <<m_fibers, armed, cur, early>>
    BY <1>5 DEF SwapIn, HoldsTask, ActiveLabels, queueVars, history
  <2>2. cur[t] \notin early => m_state[cur[t]] \notin {"TERM", "EXCEPT"}
    BY <2>1 DEF OwnInv, HolderState
  <2>3. \E label : pc' = [pc EXCEPT ![t] = label]
    BY <1>5 DEF SwapIn, Goto
  <2>4. \A f \in Tasks \ {cur[t]} : m_state'[f] = m_state[f]
    BY <1>0, <1>5 DEF SwapIn
  <2>5. \A f \in Tasks \ {cur[t]} : Carried(f) => Carried(f)'
    BY <2>1, <2>3, <2>4, CarriedOn
  <2>6. cur[t] \notin early => Carried(cur[t])'
    BY <1>0, <1>5, <2>1, <2>2 DEF SwapIn, Goto, Carried
  <2> QED
    BY <2>1, <2>4, <2>5, <2>6 DEF NotLost, Unfinished, InQueue
<1>6. CASE Reschedule(t)
  <2>1. cur[t] \in Tasks /\ pc[t] = "check"
    BY <1>6 DEF Reschedule, HoldsTask
  <2>2. /\ cur' = [cur EXCEPT ![t] = NoTask] /\ pc' = [pc EXCEPT ![t] = "scan"]
        /\ UNCHANGED <<m_state, armed, early>>
    BY <1>6, <2>1 DEF Reschedule, Goto, fiberVars, history
  <2>3. \A f \in Tasks \ {cur[t]} : Carried(f) => Carried(f)'
    BY <1>0, <2>2, CarriedOn
  <2>4. CASE IsReady(cur[t])
    <3>1. Schedule(cur[t], NoThread)
      BY <1>6, <2>4 DEF Reschedule
    <3>2. /\ DOMAIN m_fibers' = DOMAIN m_fibers \cup {Len(m_fibers) + 1}
          /\ \A i \in DOMAIN m_fibers : m_fibers'[i] = m_fibers[i]
          /\ m_fibers'[Len(m_fibers) + 1].fiber = cur[t]
      BY <1>0, <2>1, <3>1, ScheduleEntries
    <3>3. \A g \in Tasks : g = cur[t] \/ InQueue(g) => InQueue(g)'
      BY <3>2 DEF InQueue
    <3> QED
      BY <2>2, <2>3, <3>3 DEF NotLost, Unfinished
  <2>5. CASE ~IsReady(cur[t])
    <3>1. m_fibers' = m_fibers
      BY <1>6, <2>5 DEF Reschedule
    <3>2. \A f \in Tasks : f = cur[t] /\ Carried(f) => Carried(f)'
      BY <1>0, <2>1, <2>2, <2>5 DEF Carried, IsReady
    <3> QED
      BY <2>1, <2>2, <2>3, <3>1, <3>2, StillNotLost
  <2> QED
    BY <2>4, <2>5
<1> QED
  BY <1>1, <1>2, <1>3, <1>4, <1>5, <1>6 DEF RunStep

\* schedule() by the program puts the task into the queue.
LEMMA SubmitDrain ==
    ASSUME TypeOK, NotLost, NEW f \in Tasks, NEW thread \in Pins,
           SubmitTask(f, thread), UNCHANGED <<armed, pc, cur, early>>
    PROVE  NotLost'
<1>0. m_fibers \in Seq(Entry) /\ thread \in Threads \cup {NoThread}
  BY ThreadsAssumption DEF TypeOK, Entry
<1>1. /\ DOMAIN m_fibers' = DOMAIN m_fibers \cup {Len(m_fibers) + 1}
      /\ \A i \in DOMAIN m_fibers : m_fibers'[i] = m_fibers[i]
      /\ m_fibers'[Len(m_fibers) + 1].fiber = f
  BY <1>0, ScheduleEntries DEF SubmitTask
<1>2. InQueue(f)' /\ \A g \in Tasks : InQueue(g) => InQueue(g)'
  BY <1>1 DEF InQueue
<1>3. \A g \in Tasks \ {f} : m_state'[g] = m_state[g]
  BY DEF SubmitTask, TypeOK
<1>4. \A g \in Tasks \ {f} : Carried(g) => Carried(g)'
  BY <1>3 DEF Carried
<1> QED
  BY <1>2, <1>3, <1>4 DEF NotLost, Unfinished

\* The fiber that worker t executes yields or ends: one that ended is finished,
\* one that is READY is put back, one that waits has a wake-up to come.
LEMMA ExecDrain ==
    ASSUME TypeOK, NotLost, NEW t \in Threads, cur[t] \in Tasks,
           NEW s \in {"READY", "HOLD", "TERM", "EXCEPT"},
           s = "HOLD" /\ cur[t] \notin early => cur[t] \in armed,
           m_state' = [m_state EXCEPT ![cur[t]] = s],
           pc' = [pc EXCEPT ![t] = "yield"], UNCHANGED <<m_fibers, cur, armed, early>>
    PROVE  NotLost'
<1>0. /\ pc \in [Threads -> Labels]
      /\ m_state \in [Tasks -> {"NEW", "INIT", "HOLD", "READY", "EXEC", "TERM", "EXCEPT"}]
  BY DEF TypeOK, Labels
<1>1. m_state'[cur[t]] = s /\ \A f \in Tasks \ {cur[t]} : m_state'[f] = m_state[f]
  BY <1>0
<1>2. \A f \in Tasks \ {cur[t]} : Carried(f) => Carried(f)'
  BY <1>1, CarriedOn
<1>3. s = "READY" => Carried(cur[t])'
  BY <1>0, <1>1 DEF Carried
<1> QED
  BY <1>1, <1>2, <1>3 DEF NotLost, Unfinished, InQueue

\* The task that a worker executes.
LEMMA TaskDrain ==
    ASSUME TypeOK, HoldsTask, OwnInv, NotLost, NEW t \in Threads, TaskStep(t)
    PROVE  NotLost'
<1>0. /\ pc \in [Threads -> Labels] /\ cur \in [Threads -> Tasks \cup {NoTask}]
  BY DEF TypeOK, Labels
<1>1. CASE Spawn(t)
  BY <1>1, SubmitDrain DEF Spawn, workVars, history
<1>2. CASE YeildToReady(t)
  <2>1. cur[t] \in Tasks
    BY <1>2 DEF YeildToReady, HoldsTask, ActiveLabels, OnStack
  <2> QED
    BY <1>2, <2>1, ExecDrain DEF YeildToReady, Goto, queueVars, history
<1>3. CASE Arm(t)
  <2>1. /\ pc[t] = "exec" /\ pc' = [pc EXCEPT ![t] = "armed"] /\ armed' = armed \cup {cur[t]}
        /\ UNCHANGED <<m_fibers, cur, m_state, early>>
    BY <1>3 DEF Arm, Goto, queueVars, history
  <2>2. \A f \in Tasks : Carried(f) => Carried(f)' \/ f \in armed'
    BY <2>1, CarriedOn
  <2> QED
    BY <2>1, <2>2 DEF NotLost, Unfinished, InQueue
<1>4. CASE YeildToHold(t)
  <2>1. /\ pc[t] = "armed" /\ pc' = [pc EXCEPT ![t] = "yield"]
        /\ m_state' = [m_state EXCEPT ![cur[t]] = "HOLD"]
        /\ UNCHANGED <<m_fibers, cur, armed, early>>
    BY <1>4 DEF YeildToHold, Goto, queueVars, history
  <2>2. cur[t] \in Tasks /\ (cur[t] \notin early => Unfinished(cur[t]))
    BY <2>1 DEF HoldsTask, ActiveLabels, OnStack, OwnInv, HolderState, Unfinished
  <2>3. cur[t] \notin early => ~InQueue(cur[t])
    BY <2>2 DEF InQueue, OwnInv, EntryOrHolder
  <2>4. cur[t] \notin early => ~Carried(cur[t])
    BY <2>1, <2>2 DEF Carried, OwnInv, OneHolder
  <2>5. cur[t] \notin early => cur[t] \in armed
    BY <2>2, <2>3, <2>4 DEF NotLost
  <2> QED
    BY <2>1, <2>2, <2>5, ExecDrain
<1>5. CASE SwapOut(t)
  <2>1. /\ pc[t] = "yield" /\ pc' = [pc EXCEPT ![t] = "back"]
        /\ UNCHANGED <<m_fibers, m_state, armed, cur, early>>
    BY <1>5 DEF SwapOut, Goto, queueVars, history
  <2>2. \A f \in Tasks : Carried(f) => Carried(f)'
    BY <1>0, <2>1 DEF Carried
  <2> QED
    BY <2>1, <2>2, StillNotLost
<1>6. CASE Finish(t)
  <2>1. cur[t] \in Tasks
    BY <1>6 DEF Finish, HoldsTask, ActiveLabels, OnStack
  <2> QED
    BY <1>6, <2>1, ExecDrain DEF Finish, Goto, queueVars, history
<1> QED
  BY <1>1, <1>2, <1>3, <1>4, <1>5, <1>6 DEF TaskStep

\* A wake-up puts the fiber that waits for it into the queue.
LEMMA WakeDrain ==
    ASSUME TypeOK, NotLost, NEW f \in Tasks, Wake(f)
    PROVE  NotLost'
<1>0. m_fibers \in Seq(Entry) /\ NoThread \in Threads \cup {NoThread}
  BY DEF TypeOK, Entry
<1>1. /\ DOMAIN m_fibers' = DOMAIN m_fibers \cup {Len(m_fibers) + 1}
      /\ \A i \in DOMAIN m_fibers : m_fibers'[i] = m_fibers[i]
      /\ m_fibers'[Len(m_fibers) + 1].fiber = f
  BY <1>0, ScheduleEntries DEF Wake
<1>2. InQueue(f)' /\ \A g \in Tasks : InQueue(g) => InQueue(g)'
  BY <1>1 DEF InQueue
<1>3. armed' = armed \ {f} /\ UNCHANGED <<m_state, pc, cur>> /\ early \subseteq early'
  BY DEF Wake, workVars
<1> QED
  BY <1>2, <1>3 DEF NotLost, Unfinished, Carried

\* The main thread submits tasks and moves workers that have none.
LEMMA MainDrain ==
    ASSUME IInv, NotLost, MainStep
    PROVE  NotLost'
<1> USE DEF IInv, WorkInv
<1>0. pc \in [Threads -> Labels]
  BY DEF TypeOK, Labels
<1>1. CASE Submit
  BY <1>1, SubmitDrain DEF Submit, workVars, history
<1>2. CASE Start
  <2>1. \A f \in Tasks : ~Carried(f)
    BY <1>2 DEF Start, NotStarted, Carried
  <2> QED
    BY <1>2, <2>1, StillNotLost DEF Start, queueVars, fiberVars, history
<1>3. CASE StopRoot \/ StopCallRoot
  <2>1. cur' = cur /\ UNCHANGED <<m_fibers, m_state, armed, early>>
    BY <1>3 DEF StopRoot, StopCallRoot, queueVars, fiberVars, history
  <2>2. \A t \in Threads : pc'[t] = pc[t] \/ pc[t] = "off"
    BY <1>0, <1>3 DEF StopRoot, StopCallRoot, NotStarted
  <2>3. \A f \in Tasks : Carried(f) => Carried(f)'
    BY <2>1, <2>2 DEF Carried
  <2> QED
    BY <2>1, <2>3, StillNotLost
<1>4. CASE StopBegin \/ StopSet \/ StopRootReturned \/ StopJoin
  <2>1. UNCHANGED <<m_fibers, m_state, armed, cur, pc, early>>
    BY <1>4 DEF StopBegin, StopSet, StopRootReturned, StopJoin, queueVars, fiberVars, workVars,
                history
  <2> QED
    BY <2>1, StillNotLost DEF Carried
<1> QED
  BY <1>1, <1>2, <1>3, <1>4 DEF MainStep

\* Every step keeps every unfinished fiber in somebody's hands.
LEMMA NextDrain == IInv /\ OwnInv /\ DrainInv /\ [Next]_vars => DrainInv'
<1> SUFFICES ASSUME IInv, OwnInv, DrainInv, [Next]_vars
             PROVE  DrainInv'
  OBVIOUS
<1>0. TypeOK /\ HoldsTask /\ NotLost
  BY DEF IInv, WorkInv, DrainInv
<1>1. CASE \E t \in Threads : RunStep(t) \/ TaskStep(t)
  BY <1>0, <1>1, RunDrain, TaskDrain, StopKeeps DEF DrainInv
<1>2. CASE \E f \in Tasks : Wake(f)
  BY <1>0, <1>2, WakeDrain, StopKeeps DEF DrainInv
<1>3. CASE MainStep
  BY <1>0, <1>3, MainDrain, StopKeeps DEF DrainInv
<1>4. CASE UNCHANGED vars
  <2>1. UNCHANGED <<m_fibers, m_state, armed, cur, pc, early>>
    BY <1>4 DEF vars, queueVars, fiberVars, workVars, history
  <2>2. NotLost'
    BY <1>0, <2>1, StillNotLost DEF Carried
  <2> QED
    BY <2>2, StopKeeps DEF DrainInv
<1> QED
  BY <1>1, <1>2, <1>3, <1>4 DEF Next

\* When stop() returns the queue is empty and every task that was submitted has
\* finished, if one thread at least was right when it took stopping() for true:
\* for any threads, with or without use_caller, for tasks that yield to READY,
\* wait or submit others during stop().  A task that was woken while a worker
\* had it is nobody's any more, and is left out.
THEOREM StopReturnsDrainedHolds == Spec => []StopReturnsDrained
<1>1. IInv /\ DrainInv => StopReturnsDrained
  <2> SUFFICES ASSUME IInv, DrainInv, main = "done", misread # Threads
               PROVE  m_fibers = <<>> /\ \A f \in Tasks : ~Unfinished(f)
    BY DEF StopReturnsDrained, Unfinished
  <2>1. PICK t \in Threads : t \notin misread
    BY DEF IInv, WorkInv, TypeOK
  <2>2. Quiet
    <3>1. CASE t = Root
      BY <2>1, <3>1 DEF DrainInv, SeenStopping
    <3>2. CASE t # Root
      BY <2>1, <3>2 DEF DrainInv, SeenStopping, Created
    <3> QED
      BY <3>1, <3>2
  <2>3. stopping /\ m_fibers = <<>> /\ armed = {}
    BY <2>2 DEF Quiet, stopping, OutOfSight
  <2>4. \A f \in Tasks : ~InQueue(f)
    BY <2>3 DEF InQueue
  <2>5. \A f \in Tasks : ~Carried(f)
    <3>1. \A u \in Threads : pc[u] \notin ActiveLabels
      BY <2>3, NobodyActive
    <3>2. \A u \in Threads : pc[u] = "check" => m_state[cur[u]] # "READY"
      BY <2>2 DEF Quiet, OutOfSight, IsReady
    <3> QED
      BY <3>1, <3>2 DEF Carried, ActiveLabels, OnStack
  <2> QED
    BY <2>3, <2>4, <2>5 DEF DrainInv, NotLost
<1>2. Spec => []DrainInv
  <2>1. Init => DrainInv
    BY InitDrain
  <2>2. IInv /\ OwnInv /\ DrainInv /\ [Next]_vars => DrainInv'
    BY NextDrain
  <2>3. Spec => []IInv
    BY Invariance
  <2>4. Spec => []OwnInv
    BY OwnInvariance
  <2> QED
    BY <2>1, <2>2, <2>3, <2>4, PTL DEF Spec
<1> QED
  BY <1>1, <1>2, Invariance, PTL
=============================================================================
