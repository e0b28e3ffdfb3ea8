------------------------------- MODULE HookIO -------------------------------
(***************************************************************************)
(* The blocking calls of wyze/hook.cpp: do_io (read, write, accept, ...),  *)
(* connect_with_tiemout and sleep suspend the calling fiber and are woken  *)
(* by an fd event, by a timer, or by whoever cancels the event.            *)
(*                                                                         *)
(* The waits race with the timer callbacks, which another thread collects, *)
(* runs and lets call canceEvent, each a step of its own.  A fiber woken   *)
(* before it yields is left in the queue until it has (Scheduler).  The fd *)
(* and event of a call are one slot, which several fibers may use: addEvent *)
(* ends the program when the event is registered already.  Calls that the  *)
(* hook passes on (hook off, no FdCtx, a non-blocking fd) suspend nobody   *)
(* and are left out.  The kernel is external.                              *)
(***************************************************************************)
EXTENDS Naturals, FiniteSets

CONSTANTS
    Fibers,
    Slots,       \* pairs of an fd and an event
    SlotOf,      \* the slot that each fiber uses
    CallsOf,     \* the calls each fiber may make, and with what timeout:
                 \* "zero", "set" or "default" (uint64 -1)
    EpollFails,  \* whether epoll_ctl may fail in addEvent
    MaxWaits,    \* bound: timers and callbacks of one fiber at a time
    NoFiber, NoCond

ASSUME CallsAssumption ==
    /\ SlotOf \in [Fibers -> Slots]
    /\ CallsOf \in [Fibers -> SUBSET ({"io", "connect", "sleep"} \X {"zero", "set", "default"})]
    /\ EpollFails \in BOOLEAN
    /\ NoFiber \notin Fibers /\ MaxWaits \in Nat /\ NoCond \notin Fibers \X (1..MaxWaits)

VARIABLES
    call,        \* the last call of each fiber: "io", "connect" or "sleep"
    ms,          \* the timeout of that call
    fpc,         \* where each fiber is in it ("done": it makes none)
    cond,        \* the TimerCond (and timer) of the fiber's wait
    result,      \* what the last call returned
    cancelled,   \* conds with cancelled = ETIMEDOUT
    timers,      \* conds whose timer is in the TimerManager
    cbs,         \* conds whose callback was collected and has not run
    firing,      \* conds whose callback is about to call canceEvent
    reg,         \* the fiber registered for each slot
    scheduled,   \* fibers in the scheduler's queue
    robbed,      \* history: fibers whose registration another call deleted
    ready,       \* kernel: "none", "ok" (data, connection) or "error", per slot
    edge         \* kernel: slots of which epoll has an event to report

fiberVars == <<call, ms, fpc, cond, result>>
timerVars == <<cancelled, timers, cbs, firing>>
kernelVars == <<ready, edge>>
vars == <<fiberVars, timerVars, reg, scheduled, robbed, kernelVars>>

\* The TimerConds: the fiber for which each one is made, and a number.
Conds == Fibers \X (1..MaxWaits)

\* Suspended, or about to be.
Waiting == {"add", "timer", "hold"}

TypeOK ==
    /\ call \in [Fibers -> {"io", "connect", "sleep"}]
    /\ ms \in [Fibers -> {"zero", "set", "default"}]
    /\ fpc \in [Fibers -> {"call", "awake", "del", "done", "abort"} \cup Waiting]
    /\ cond \in [Fibers -> Conds \cup {NoCond}]
    /\ result \in [Fibers -> {"none", "ok", "error", "timeout"}]
    /\ cancelled \subseteq Conds /\ timers \subseteq Conds
    /\ cbs \subseteq Conds /\ firing \subseteq Conds
    /\ reg \in [Slots -> Fibers \cup {NoFiber}]
    /\ scheduled \subseteq Fibers /\ robbed \subseteq Fibers
    /\ ready \in [Slots -> {"none", "ok", "error"}]
    /\ edge \subseteq Slots

Init ==
    /\ call = [f \in Fibers |-> "io"]
    /\ ms = [f \in Fibers |-> "default"]
    /\ fpc = [f \in Fibers |-> "done"]
    /\ cond = [f \in Fibers |-> NoCond]
    /\ result = [f \in Fibers |-> "none"]
    /\ cancelled = {} /\ timers = {} /\ cbs = {} /\ firing = {}
    /\ reg = [s \in Slots |-> NoFiber]
    /\ scheduled = {} /\ robbed = {}
    /\ ready = [s \in Slots |-> "none"]
    /\ edge = {}

-----------------------------------------------------------------------------
Goto(f, label) == fpc' = [fpc EXCEPT ![f] = label]

Return(f, r) == Goto(f, "done") /\ result' = [result EXCEPT ![f] = r]

\* Conds that a fiber, a timer or a callback still refers to.
InUse == {cond[f] : f \in Fibers} \cup timers \cup cbs \cup firing

\* A new TimerCond for f; the memory of a dead one is used again.
NewCond(f) ==
    /\ \E n \in 1..MaxWaits : <<f, n>> \notin InUse
    /\ cond' = [cond EXCEPT ![f] =
                   <<f, CHOOSE n \in 1..MaxWaits : <<f, n>> \notin InUse>>]

\* tcnd goes out of scope: the fiber's cond is gone.
DropCond(f) ==
    /\ cond' = [cond EXCEPT ![f] = NoCond]
    /\ cancelled' = cancelled \ {cond[f]}

\* A call begins: do_io gets the timeout of the fd, connect s_connect_timeout.
\* One that connects does so on a new socket, which may have got the fd of an
\* older one: its close has left nobody registered.
Start(f) ==
    LET s == SlotOf[f]
    IN  /\ fpc[f] = "done"
        /\ \E c \in {"io", "connect", "sleep"}, m \in {"zero", "set", "default"} :
            /\ <<c, m>> \in CallsOf[f]
            /\ c = "connect" => reg[s] = NoFiber
            /\ call' = [call EXCEPT ![f] = c] /\ ms' = [ms EXCEPT ![f] = m]
            /\ ready' = IF c = "connect" THEN [ready EXCEPT ![s] = "none"] ELSE ready
            /\ edge' = IF c = "connect" THEN edge \ {s} ELSE edge
        /\ Goto(f, "call") /\ result' = [result EXCEPT ![f] = "none"]
        /\ UNCHANGED <<cond, timerVars, reg, scheduled, robbed>>

-----------------------------------------------------------------------------
(* do_io.                                                                  *)

\* ms != 0: the default, (uint64_t)-1, gets a timer too.
IoHasTimer(f) == ms[f] # "zero"

\* fun() succeeds or fails for good.
IoDone(f) ==
    LET s == SlotOf[f]
    IN  /\ fpc[f] = "call" /\ call[f] = "io" /\ ready[s] # "none"
        /\ Return(f, ready[s])
        /\ ready' = [ready EXCEPT ![s] = "none"]
        /\ UNCHANGED <<call, ms, cond, timerVars, reg, scheduled, edge, robbed>>

\* EAGAIN: the condition and, if there is a timeout, its timer.
IoAgain(f) ==
    /\ fpc[f] = "call" /\ call[f] = "io" /\ ready[SlotOf[f]] = "none"
    /\ NewCond(f)
    /\ timers' = timers \cup (IF IoHasTimer(f) THEN {cond'[f]} ELSE {})
    /\ Goto(f, "add")
    /\ UNCHANGED <<call, ms, result, cancelled, cbs, firing, reg, scheduled, kernelVars, robbed>>

\* addEvent; epoll reports an fd that is ready when it is added.
AddEvent(f) ==
    LET s == SlotOf[f]
    IN  /\ reg[s] = NoFiber
        /\ reg' = [reg EXCEPT ![s] = f]
        /\ edge' = IF ready[s] # "none" THEN edge \cup {s} ELSE edge

IoAdd(f) ==
    /\ fpc[f] = "add" /\ call[f] = "io"
    /\ AddEvent(f)
    /\ Goto(f, "hold")
    /\ UNCHANGED <<call, ms, cond, result, timerVars, scheduled, ready, robbed>>

\* addEvent, called by do_io or connect, finds the event registered already: its
\* assertion ends the program, with every fiber, timer and registration in it.
AddAsserts(f) ==
    /\ fpc[f] = "add" \/ (fpc[f] = "call" /\ call[f] = "connect")
    /\ reg[SlotOf[f]] # NoFiber
    /\ fpc' = [g \in Fibers |-> "abort"]
    /\ cond' = [g \in Fibers |-> NoCond]
    /\ cancelled' = {} /\ timers' = {} /\ cbs' = {} /\ firing' = {}
    /\ reg' = [s \in Slots |-> NoFiber]
    /\ scheduled' = {}
    /\ UNCHANGED <<call, ms, result, robbed, kernelVars>>

\* addEvent returns -1 (epoll_ctl failed): so does the call, and its timer stays.
IoAddFails(f) ==
    /\ EpollFails /\ fpc[f] = "add" /\ call[f] = "io" /\ reg[SlotOf[f]] = NoFiber
    /\ DropCond(f)
    /\ Return(f, "error")
    /\ UNCHANGED <<call, ms, timers, cbs, firing, reg, scheduled, kernelVars, robbed>>

\* After YeildToHold: the fiber is resumed and cancels its timer.
Resume(f) ==
    /\ fpc[f] = "hold" /\ f \in scheduled
    /\ scheduled' = scheduled \ {f}
    /\ timers' = timers \ {cond[f]}
    /\ Goto(f, "awake")
    /\ UNCHANGED <<call, ms, cond, result, cancelled, cbs, firing, reg, kernelVars, robbed>>

\* Woken, and not by the timer: do_io tries again.
IoRetry(f) ==
    /\ fpc[f] = "awake" /\ call[f] = "io" /\ cond[f] \notin cancelled
    /\ DropCond(f)
    /\ Goto(f, "call")
    /\ UNCHANGED <<call, ms, result, timers, cbs, firing, reg, scheduled, kernelVars, robbed>>

\* tcnd->cancelled: errno is set, the event deleted.
TimedOut(f) ==
    /\ fpc[f] = "awake" /\ cond[f] \in cancelled
    /\ Goto(f, "del")
    /\ UNCHANGED <<call, ms, cond, result, timerVars, reg, scheduled, kernelVars, robbed>>

\* delEvent takes the fd's registration, which may be another fiber's by now.
DelEvent(f) ==
    /\ fpc[f] = "del"
    /\ reg' = [reg EXCEPT ![SlotOf[f]] = NoFiber]
    /\ robbed' = robbed \cup ({reg[SlotOf[f]]} \ {NoFiber})
    /\ DropCond(f)
    /\ Return(f, "timeout")
    /\ UNCHANGED <<call, ms, timers, cbs, firing, scheduled, kernelVars>>

-----------------------------------------------------------------------------
(* connect_with_tiemout.                                                   *)

\* timeout_ms != (uint64_t)-1: a connect timeout of -1 means none.
ConnectHasTimer(f) == ms[f] # "default"

\* connect_f succeeds or fails at once.
ConnectDone(f) ==
    /\ fpc[f] = "call" /\ call[f] = "connect"
    /\ \E r \in {"ok", "error"} :
        /\ Return(f, r)
        /\ ready' = [ready EXCEPT ![SlotOf[f]] = r]
    /\ UNCHANGED <<call, ms, cond, timerVars, reg, scheduled, edge, robbed>>

\* EINPROGRESS, and addEvent.
ConnectAdd(f) ==
    /\ fpc[f] = "call" /\ call[f] = "connect"
    /\ AddEvent(f)
    /\ Goto(f, "timer")
    /\ UNCHANGED <<call, ms, cond, result, timerVars, scheduled, ready, robbed>>

ConnectTimer(f) ==
    /\ fpc[f] = "timer"
    /\ NewCond(f)
    /\ timers' = timers \cup (IF ConnectHasTimer(f) THEN {cond'[f]} ELSE {})
    /\ Goto(f, "hold")
    /\ UNCHANGED <<call, ms, result, cancelled, cbs, firing, reg, scheduled, kernelVars, robbed>>

\* SO_ERROR is 0 for a connection that is up and for one still in progress.
SoError(s) == IF ready[s] = "error" THEN "error" ELSE "ok"

\* addEvent returns -1: connect does not wait and asks for SO_ERROR at once.
ConnectAddFails(f) ==
    /\ EpollFails /\ fpc[f] = "call" /\ call[f] = "connect" /\ reg[SlotOf[f]] = NoFiber
    /\ Return(f, SoError(SlotOf[f]))
    /\ UNCHANGED <<call, ms, cond, timerVars, reg, scheduled, kernelVars, robbed>>

\* Woken, and not by the timer: SO_ERROR is the result.
ConnectAwake(f) ==
    /\ fpc[f] = "awake" /\ call[f] = "connect" /\ cond[f] \notin cancelled
    /\ DropCond(f)
    /\ Return(f, SoError(SlotOf[f]))
    /\ UNCHANGED <<call, ms, timers, cbs, firing, reg, scheduled, kernelVars, robbed>>

-----------------------------------------------------------------------------
(* sleep, usleep, nanosleep: a timer whose callback schedules the fiber.   *)

Sleep(f) ==
    /\ fpc[f] = "call" /\ call[f] = "sleep"
    /\ NewCond(f)
    /\ timers' = timers \cup {cond'[f]}
    /\ Goto(f, "hold")
    /\ UNCHANGED <<call, ms, result, cancelled, cbs, firing, reg, scheduled, kernelVars, robbed>>

SleepAwake(f) ==
    /\ fpc[f] = "awake" /\ call[f] = "sleep"
    /\ DropCond(f)
    /\ Return(f, "ok")
    /\ UNCHANGED <<call, ms, timers, cbs, firing, reg, scheduled, kernelVars, robbed>>

-----------------------------------------------------------------------------
(* The timers: a thread in idle() collects the callback, a worker runs it. *)

Collect(c) ==
    /\ c \in timers
    /\ timers' = timers \ {c} /\ cbs' = cbs \cup {c}
    /\ UNCHANGED <<fiberVars, cancelled, firing, reg, scheduled, kernelVars, robbed>>

\* wtcnd.lock() succeeds and cancelled is 0.
Live(c) == cond[c[1]] = c /\ c \notin cancelled

Callback(c) ==
    /\ c \in cbs
    /\ cbs' = cbs \ {c}
    /\ \/ /\ Live(c) /\ call[c[1]] = "sleep"
          /\ scheduled' = scheduled \cup {c[1]}
          /\ UNCHANGED <<cancelled, firing>>
       \/ /\ Live(c) /\ call[c[1]] # "sleep"
          /\ cancelled' = cancelled \cup {c} /\ firing' = firing \cup {c}
          /\ UNCHANGED scheduled
       \/ /\ ~Live(c)
          /\ UNCHANGED <<cancelled, firing, scheduled>>
    /\ UNCHANGED <<fiberVars, timers, reg, kernelVars, robbed>>

\* Mutant: the slot stays taken.
TriggerKeepsReg(s) == scheduled' = scheduled \cup {reg[s]} /\ UNCHANGED reg

\* Mutant: the waiter is forgotten, not scheduled.
TriggerLost(s) == reg' = [reg EXCEPT ![s] = NoFiber] /\ UNCHANGED scheduled

\* triggerEvent for who is registered.
Trigger(s) ==
    /\ scheduled' = scheduled \cup {reg[s]}
    /\ reg' = [reg EXCEPT ![s] = NoFiber]

\* Mutant: delEvent in place of canceEvent, which wakes nobody.
CanceEventDel(c) ==
    /\ c \in firing
    /\ firing' = firing \ {c}
    /\ reg' = [reg EXCEPT ![SlotOf[c[1]]] = NoFiber]
    /\ UNCHANGED <<fiberVars, cancelled, timers, cbs, scheduled, kernelVars, robbed>>

\* iom->canceEvent(fd, event): whoever is registered now is woken.
CanceEvent(c) ==
    /\ c \in firing
    /\ firing' = firing \ {c}
    /\ IF reg[SlotOf[c[1]]] = NoFiber THEN UNCHANGED <<reg, scheduled>>
       ELSE Trigger(SlotOf[c[1]])
    /\ UNCHANGED <<fiberVars, cancelled, timers, cbs, kernelVars, robbed>>

-----------------------------------------------------------------------------
(* The kernel, and idle() handling its event.                              *)

Arrive(s) ==
    /\ ready[s] = "none"
    /\ \E r \in {"ok", "error"} : ready' = [ready EXCEPT ![s] = r]
    /\ edge' = IF reg[s] # NoFiber THEN edge \cup {s} ELSE edge
    /\ UNCHANGED <<fiberVars, timerVars, reg, scheduled, robbed>>

\* idle() triggers the event if it is still registered.
HandleEvent(s) ==
    /\ s \in edge
    /\ edge' = edge \ {s}
    /\ IF reg[s] = NoFiber THEN UNCHANGED <<reg, scheduled>> ELSE Trigger(s)
    /\ UNCHANGED <<fiberVars, timerVars, ready, robbed>>

\* close: canceAll wakes who is registered; the fd is of no use any more.
Close(s) ==
    /\ \A f \in Fibers : fpc[f] # "abort"
    /\ IF reg[s] = NoFiber THEN UNCHANGED <<reg, scheduled>> ELSE Trigger(s)
    /\ ready' = [ready EXCEPT ![s] = "error"]
    /\ edge' = edge \ {s}
    /\ UNCHANGED <<fiberVars, timerVars, robbed>>

-----------------------------------------------------------------------------
IoStep(f)      == IoDone(f) \/ IoAgain(f) \/ IoAdd(f) \/ IoAddFails(f) \/ IoRetry(f)
ConnectStep(f) == \/ ConnectDone(f) \/ ConnectAdd(f) \/ ConnectAddFails(f)
                  \/ ConnectTimer(f) \/ ConnectAwake(f)
SleepStep(f)   == Sleep(f) \/ SleepAwake(f)
FiberStep(f)   == \/ IoStep(f) \/ ConnectStep(f) \/ SleepStep(f)
                  \/ Resume(f) \/ TimedOut(f) \/ DelEvent(f) \/ AddAsserts(f)

Next == \/ \E f \in Fibers : Start(f) \/ FiberStep(f)
        \/ \E c \in Conds : Collect(c) \/ Callback(c) \/ CanceEvent(c)
        \/ \E s \in Slots : Arrive(s) \/ HandleEvent(s) \/ Close(s)

Spec == Init /\ [][Next]_vars

(***************************************************************************)
(* Fibers and callbacks are run, timers expire and epoll reports; whether  *)
(* the peer ever sends or answers is left open.                            *)
(***************************************************************************)
Fairness ==
    /\ \A f \in Fibers : WF_vars(FiberStep(f))
    /\ \A c \in Conds : WF_vars(Collect(c)) /\ WF_vars(Callback(c)) /\ WF_vars(CanceEvent(c))
    /\ \A s \in Slots : WF_vars(HandleEvent(s))

FairSpec == Spec /\ Fairness

-----------------------------------------------------------------------------
(* Properties.                                                             *)

(***************************************************************************)
(* A fiber is put into the scheduler's queue only while it waits, and only *)
(* after its registration is gone, whichever of event, timer and stale     *)
(* callback comes first: a second schedule would resume it twice.          *)
(***************************************************************************)
WokenOnce ==
    \A f \in scheduled : fpc[f] \in {"timer", "hold"} /\ reg[SlotOf[f]] # f

(***************************************************************************)
(* A call leaves nothing behind: a registered fiber is one that waits, for *)
(* that very fd, whoever else uses, closes and reopens it meanwhile.       *)
(***************************************************************************)
NoDanglingRegistration ==
    \A s \in Slots : reg[s] # NoFiber =>
        fpc[reg[s]] \in {"timer", "hold"} /\ SlotOf[reg[s]] = s

(***************************************************************************)
(* A suspended fiber can still be woken: it is registered, in the queue,   *)
(* or (sleep) its timer is pending.  One thing alone undoes this: a call   *)
(* that timed out calls delEvent for the fd (hook.cpp:156, 283) when       *)
(* another fiber has registered since.                                     *)
(***************************************************************************)
SuspendedIsReachable ==
    \A f \in Fibers \ robbed : fpc[f] = "hold" =>
        f \in scheduled \/ reg[SlotOf[f]] = f \/ (call[f] = "sleep" /\ cond[f] \in timers \cup cbs)

(***************************************************************************)
(* connect with a timeout, and sleep, return even if the peer never        *)
(* answers, whatever late callbacks of earlier calls do to the fd; unless  *)
(* the call is robbed of its registration or an assertion fails.           *)
(***************************************************************************)
CallReturns ==
    \A f \in Fibers :
        (fpc[f] = "call" /\ (call[f] = "sleep" \/ (call[f] = "connect" /\ ConnectHasTimer(f))))
            ~> (fpc[f] \in {"done", "abort"} \/ f \in robbed)

\* Whether f's call may answer ETIMEDOUT.
MayTimeOut(f) == \/ call[f] = "io" /\ IoHasTimer(f)
                 \/ call[f] = "connect" /\ ConnectHasTimer(f)

(***************************************************************************)
(* Only a call with a timer of its own answers ETIMEDOUT, whatever late    *)
(* callbacks of other calls cancel its event: do_io not if the timeout is  *)
(* 0 (the default, -1, is one), connect not if it is -1, sleep never.      *)
(***************************************************************************)
TimeoutOnlyIfArmed ==
    \A f \in Fibers : result[f] = "timeout" => MayTimeOut(f)

(***************************************************************************)
(* connect waits until the fd is writable, which means that the connection *)
(* really is there (hook.cpp:256): it returns 0 only then.                 *)
(***************************************************************************)
ConnectMeansConnected ==
    [][\A f \in Fibers :
        (call[f] = "connect" /\ fpc[f] # "done" /\ fpc'[f] = "done" /\ result'[f] = "ok")
            => ready'[SlotOf[f]] = "ok"]_vars

\* A call that suspends (do_io, connect, sleep) is woken once, and times out
\* only if it may.
CallInv == TypeOK /\ WokenOnce /\ TimeoutOnlyIfArmed

\* The registrations of addEvent and the suspended calls belong together: no
\* call leaves one behind, and no call waits without anyone to wake it unless
\* another deleted its event.
RegistrationInv == NoDanglingRegistration /\ SuspendedIsReachable
=============================================================================
