---------------------------- MODULE TimerManager ----------------------------
(***************************************************************************)
(* The timer queue of the scheduler: wyze/timer.h and wyze/timer.cpp.      *)
(*                                                                         *)
(* Users are threads that call addTimer, cancel, refresh and reset.        *)
(* Pollers are the threads in IOManager::idle, the only callers of         *)
(* getNextTimer and listExpiredCb: they compute how long they may block,   *)
(* block, and collect the callbacks of the expired timers.                 *)
(*                                                                         *)
(* A step is a critical section of m_mutex, or what a thread does between  *)
(* two of them.  m_timers is an std::set ordered by (m_next, address): a   *)
(* timer is the number that stands for its address.  onTimerInsertdAtFront *)
(* is IOManager's: it calls tickle(), which writes to the pipe only when   *)
(* no thread is in idle().  A byte in the pipe makes an epoll_wait return. *)
(***************************************************************************)
EXTENDS Integers, FiniteSets

CONSTANTS
    Timers,       \* Timer objects, a set of numbers (their addresses)
    Users,        \* threads that call the timer interface
    Pollers,      \* threads that run IOManager::idle
    Periods,      \* the values of ms that callers pass
    Setbacks,     \* by how much the wall clock may be set back in one step
    Wrap,         \* 2^64, the modulus of uint64_t
    HalfDay,      \* 1000 * 60 * 60 * 12
    MaxWait,      \* MAX_TIMEOUT of IOManager::idle
    Epoch,        \* the wall clock when the manager is constructed
    LastCall,     \* bound: no call is begun after this time
    MaxTime,      \* bound: the clock stops here
    MaxSetback    \* bound: total amount the clock is set back

ASSUME TimersAssumption == Timers \subseteq Nat
ASSUME ClockAssumption ==
    /\ Wrap \in Nat \ {0}
    /\ {HalfDay, MaxWait, Epoch, LastCall, MaxTime, MaxSetback} \subseteq Nat
    /\ Epoch < Wrap
    /\ Periods \subseteq 0..(Wrap - 1)
    /\ Setbacks \subseteq Nat \ {0}

VARIABLES
    now,             \* GetCurrentMS(), the wall clock
    setback,         \* how far the wall clock has been set back so far
    m_timers,        \* the timers in the ordered set
    m_ms, m_cb, m_recurring, m_next,     \* the fields of each Timer
    m_tickled,
    m_previousTime,
    upc,             \* where each user thread is
    uarg,            \* the arguments of the call it is in
    handed,          \* timers whose pointer a caller of addTimer holds
    ppc,             \* where each poller is
    deadline,        \* when the poller's epoll_wait times out
    now_ms,          \* the local of listExpiredCb
    cbs,             \* the callbacks the last listExpiredCb returned
    readAt,          \* history: elapsed time at which now_ms was read
    wake,            \* the pipe has a byte that no epoll_wait has reported
    drains,          \* pollers whose epoll_wait reported the pipe
    unseen,          \* history: timers placed since a blocked poller looked
    due,             \* history: elapsed time at which a timer may fire
    fired            \* history: timers whose callback was ever collected

timerVars == <<m_timers, m_ms, m_cb, m_recurring, m_next>>
clockVars == <<now, setback>>
userVars  == <<upc, uarg, handed>>
pollVars  == <<ppc, deadline, now_ms, cbs, readAt, drains>>
history   == <<due, fired, unseen>>
vars == <<clockVars, timerVars, m_tickled, m_previousTime, userVars, pollVars,
          wake, history>>

-----------------------------------------------------------------------------

\* uint64_t addition and subtraction.
Add64(a, b) == (a + b) % Wrap
Sub64(a, b) == (a - b) % Wrap

\* Time that has really passed; the wall clock lags it by what it was set back.
elapsed == now + setback

NoArg == [timer |-> 0, ms |-> 0, from_now |-> FALSE]

\* Timer::Comparator, for the deadlines nx.
Before(a, b, nx) == nx[a] < nx[b] \/ (nx[a] = nx[b] /\ a < b)

\* t is *S.begin().
IsBegin(t, S, nx) == \A o \in S \ {t} : Before(t, o, nx)

begin == CHOOSE t \in m_timers : IsBegin(t, m_timers, m_next)

TypeOK ==
    /\ now \in Nat /\ setback \in Nat
    /\ m_timers \subseteq Timers
    /\ m_ms \in [Timers -> 0..(Wrap - 1)]
    /\ m_cb \in [Timers -> BOOLEAN]
    /\ m_recurring \in [Timers -> BOOLEAN]
    /\ m_next \in [Timers -> 0..(Wrap - 1)]
    /\ m_tickled \in BOOLEAN
    /\ m_previousTime \in Int
    /\ upc \in [Users -> {"ready", "insert", "reset", "front", "write"}]
    /\ uarg \in [Users -> [timer : Timers \cup {0}, ms : 0..(Wrap - 1), from_now : BOOLEAN]]
    /\ handed \subseteq Timers
    /\ ppc \in [Pollers -> {"run", "awake", "wait", "list", "lock", "yield"}]
    /\ deadline \in [Pollers -> Int]
    /\ now_ms \in [Pollers -> Int]
    /\ cbs \in [Pollers -> SUBSET Timers]
    /\ readAt \in [Pollers -> Int]
    /\ wake \in BOOLEAN
    /\ drains \subseteq Pollers
    /\ unseen \in [Pollers -> SUBSET Timers]
    /\ due \in [Timers -> Int]
    /\ fired \subseteq Timers

Init ==
    /\ now = Epoch /\ setback = 0
    /\ m_timers = {}
    /\ m_ms = [t \in Timers |-> 0]
    /\ m_cb = [t \in Timers |-> FALSE]
    /\ m_recurring = [t \in Timers |-> FALSE]
    /\ m_next = [t \in Timers |-> 0]
    /\ m_tickled = FALSE
    /\ m_previousTime = Epoch
    /\ upc = [u \in Users |-> "ready"]
    /\ uarg = [u \in Users |-> NoArg]
    /\ handed = {}
    /\ ppc = [p \in Pollers |-> "run"]
    /\ deadline = [p \in Pollers |-> 0]
    /\ now_ms = [p \in Pollers |-> 0]
    /\ cbs = [p \in Pollers |-> {}]
    /\ readAt = [p \in Pollers |-> 0]
    /\ wake = FALSE
    /\ drains = {}
    /\ unseen = [p \in Pollers |-> {}]
    /\ due = [t \in Timers |-> 0]
    /\ fired = {}

-----------------------------------------------------------------------------
(* The clock.                                                              *)

\* After LastCall time goes on once the calls under way have returned.
Tick ==
    /\ elapsed < MaxTime
    /\ elapsed < LastCall \/ \A u \in Users : upc[u] = "ready"
    /\ now' = now + 1
    /\ UNCHANGED <<setback, timerVars, m_tickled, m_previousTime, userVars,
                   pollVars, wake, history>>

\* Somebody sets the wall clock back.  A blocked epoll_wait does not notice.
SetClockBack ==
    \E k \in Setbacks :
        /\ setback + k <= MaxSetback /\ k <= now
        /\ now' = now - k
        /\ setback' = setback + k
        /\ UNCHANGED <<timerVars, m_tickled, m_previousTime, userVars,
                       pollVars, wake, history>>

-----------------------------------------------------------------------------
(* Users.                                                                  *)

\* A thread that is in no call begins one.
MayCall(u) == upc[u] = "ready" /\ elapsed <= LastCall

\* The timers of S get a place in the order: the pollers that are blocked now
\* computed their timeouts without it.
Placed(S) == [p \in Pollers |-> IF ppc[p] = "wait" THEN unseen[p] \cup S ELSE unseen[p]]

\* A timer that was never constructed.
Fresh(t) == /\ t \notin m_timers /\ t \notin handed /\ t \notin fired /\ ~m_cb[t]
            /\ \A u \in Users : upc[u] = "ready" \/ uarg[u].timer # t

\* TimerManager::addTimer up to the lock: the Timer constructor reads the clock.
NewTimer(u) ==
    \E t \in Timers, ms \in Periods, recurring \in BOOLEAN :
        /\ MayCall(u) /\ Fresh(t)
        /\ m_ms' = [m_ms EXCEPT ![t] = ms]
        /\ m_cb' = [m_cb EXCEPT ![t] = TRUE]
        /\ m_recurring' = [m_recurring EXCEPT ![t] = recurring]
        /\ m_next' = [m_next EXCEPT ![t] = Add64(now, ms)]
        /\ due' = [due EXCEPT ![t] = elapsed + ms]
        /\ upc' = [upc EXCEPT ![u] = "insert"]
        /\ uarg' = [uarg EXCEPT ![u] = [timer |-> t, ms |-> ms, from_now |-> TRUE]]
        /\ UNCHANGED <<clockVars, m_timers, m_tickled, m_previousTime, handed,
                       pollVars, wake, fired, unseen>>

at_front(t, nx) == IsBegin(t, m_timers \cup {t}, nx) /\ ~m_tickled

\* The private addTimer(val, wlock), with nx the deadlines at that point: insert,
\* decide whether to wake a poller, unlock.
InsertTimer(u, t, nx) ==
    /\ m_timers' = m_timers \cup {t}
    /\ unseen' = Placed({t})
    /\ m_tickled' = (m_tickled \/ at_front(t, nx))
    /\ upc' = [upc EXCEPT ![u] = IF at_front(t, nx) THEN "front" ELSE "ready"]
    /\ handed' = IF at_front(t, nx) THEN handed ELSE handed \cup {t}
    /\ uarg' = IF at_front(t, nx) THEN uarg ELSE [uarg EXCEPT ![u] = NoArg]

AddTimer(u) ==
    /\ upc[u] = "insert"
    /\ InsertTimer(u, uarg[u].timer, m_next)
    /\ UNCHANGED <<clockVars, m_ms, m_cb, m_recurring, m_next, m_previousTime,
                   pollVars, wake, due, fired>>

\* Scheduler::hasIdleThreads: m_idleThreadCount counts the threads that run() has
\* switched into idle(), blocked or not.
HasIdleThreads == \E p \in Pollers : ppc[p] # "run"

\* The call returns to its caller.
CallReturns(u) ==
    /\ upc' = [upc EXCEPT ![u] = "ready"]
    /\ handed' = handed \cup {uarg[u].timer}
    /\ uarg' = [uarg EXCEPT ![u] = NoArg]

\* The tail of addTimer, after the unlock: tickle() looks for idle threads.
OnTimerInsertdAtFront(u) ==
    /\ upc[u] = "front"
    /\ \/ HasIdleThreads /\ CallReturns(u)
       \/ ~HasIdleThreads /\ upc' = [upc EXCEPT ![u] = "write"] /\ UNCHANGED <<handed, uarg>>
    /\ UNCHANGED <<clockVars, timerVars, m_tickled, m_previousTime, pollVars,
                   wake, history>>

\* ... and, having found none, writes to the pipe.
Tickle(u) ==
    /\ upc[u] = "write"
    /\ wake' = TRUE
    /\ CallReturns(u)
    /\ UNCHANGED <<clockVars, timerVars, m_tickled, m_previousTime, pollVars,
                   history>>

Cancel(u) ==
    \E t \in handed :
        /\ upc[u] = "ready" /\ m_cb[t]
        /\ m_cb' = [m_cb EXCEPT ![t] = FALSE]
        /\ m_timers' = m_timers \ {t}
        /\ UNCHANGED <<clockVars, m_ms, m_recurring, m_next, m_tickled,
                       m_previousTime, userVars, pollVars, wake, history>>

Refresh(u) ==
    \E t \in handed :
        /\ MayCall(u) /\ m_cb[t] /\ t \in m_timers
        /\ unseen' = Placed({t})
        /\ m_next' = [m_next EXCEPT ![t] = Add64(now, m_ms[t])]
        /\ due' = [due EXCEPT ![t] = elapsed + m_ms[t]]
        /\ UNCHANGED <<clockVars, m_timers, m_ms, m_cb, m_recurring, m_tickled,
                       m_previousTime, userVars, pollVars, wake, fired>>

\* reset up to the lock: the early return reads m_ms without it.
ResetCall(u) ==
    \E t \in handed, ms \in Periods, from_now \in BOOLEAN :
        /\ MayCall(u)
        /\ ~(ms = m_ms[t] /\ ~from_now)
        /\ upc' = [upc EXCEPT ![u] = "reset"]
        /\ uarg' = [uarg EXCEPT ![u] = [timer |-> t, ms |-> ms, from_now |-> from_now]]
        /\ UNCHANGED <<clockVars, timerVars, m_tickled, m_previousTime, handed,
                       pollVars, wake, history>>

Reset(u) ==
    LET t == uarg[u].timer
        start == IF uarg[u].from_now THEN now ELSE Sub64(m_next[t], m_ms[t])
    IN  /\ upc[u] = "reset"
        /\ m_cb[t] /\ t \in m_timers
        /\ m_ms' = [m_ms EXCEPT ![t] = uarg[u].ms]
        /\ m_next' = [m_next EXCEPT ![t] = Add64(start, uarg[u].ms)]
        /\ due' = [due EXCEPT ![t] = IF uarg[u].from_now THEN elapsed + uarg[u].ms
                                     ELSE due[t] - m_ms[t] + uarg[u].ms]
        /\ InsertTimer(u, t, m_next')
        /\ UNCHANGED <<clockVars, m_cb, m_recurring, m_previousTime, pollVars,
                       wake, fired>>

\* reset of a timer that has fired or was cancelled returns false.
ResetTooLate(u) ==
    /\ upc[u] = "reset"
    /\ ~(m_cb[uarg[u].timer] /\ uarg[u].timer \in m_timers)
    /\ upc' = [upc EXCEPT ![u] = "ready"]
    /\ uarg' = [uarg EXCEPT ![u] = NoArg]
    /\ UNCHANGED <<clockVars, timerVars, m_tickled, m_previousTime, handed,
                   pollVars, wake, history>>

-----------------------------------------------------------------------------
(* Pollers.                                                                *)

\* run() finds no work, counts itself idle and switches into idle().
EnterIdle(p) ==
    /\ ppc[p] = "run"
    /\ ppc' = [ppc EXCEPT ![p] = "awake"]
    /\ UNCHANGED <<clockVars, timerVars, m_tickled, m_previousTime, userVars,
                   deadline, now_ms, cbs, readAt, drains, wake, history>>

\* Mutant: the cap is the whole timeout.
NextTimeoutCapped == MaxWait

\* What getNextTimer returns, capped as IOManager::idle caps it.
NextTimeout ==
    IF m_timers = {} THEN MaxWait
    ELSE IF now >= m_next[begin] THEN 0
    ELSE IF m_next[begin] - now < MaxWait THEN m_next[begin] - now ELSE MaxWait

GetNextTimer(p) ==
    /\ ppc[p] = "awake"
    /\ m_tickled' = FALSE
    /\ deadline' = [deadline EXCEPT ![p] = elapsed + NextTimeout]
    /\ ppc' = [ppc EXCEPT ![p] = "wait"]
    /\ UNCHANGED <<clockVars, timerVars, m_previousTime, userVars, now_ms, cbs, readAt,
                   drains, wake, history>>

\* epoll_wait returns and listExpiredCb reads the clock, before any lock.
Return(p) ==
    /\ ppc[p] = "wait"
    /\ now_ms' = [now_ms EXCEPT ![p] = now]
    /\ readAt' = [readAt EXCEPT ![p] = elapsed]
    /\ deadline' = [deadline EXCEPT ![p] = 0]
    /\ unseen' = [unseen EXCEPT ![p] = {}]
    /\ ppc' = [ppc EXCEPT ![p] = "list"]
    /\ UNCHANGED <<clockVars, timerVars, m_tickled, m_previousTime, userVars,
                   cbs, due, fired>>

TimeoutWake(p) == elapsed >= deadline[p] /\ Return(p) /\ UNCHANGED <<wake, drains>>
TickleWake(p)  == wake /\ Return(p) /\ wake' = FALSE /\ drains' = drains \cup {p}
EventWake(p)   == Return(p) /\ UNCHANGED <<wake, drains>>       \* an event on some fd

\* listExpiredCb: the first look, under the read lock.
CheckTimers(p) ==
    /\ ppc[p] = "list"
    /\ ppc' = [ppc EXCEPT ![p] = IF m_timers = {} THEN "yield" ELSE "lock"]
    /\ now_ms' = IF m_timers = {} THEN [now_ms EXCEPT ![p] = 0] ELSE now_ms
    /\ readAt' = IF m_timers = {} THEN [readAt EXCEPT ![p] = 0] ELSE readAt
    /\ UNCHANGED <<clockVars, timerVars, m_tickled, m_previousTime, userVars,
                   deadline, cbs, drains, wake, history>>

DetectClockRollover(ms) ==
    ms < m_previousTime /\ ms < Sub64(m_previousTime, HalfDay)

\* Mutant: a deadline one millisecond ahead counts as reached.
ExpiredTooSoon(ms) == {t \in m_timers : m_next[t] <= ms + 1}

\* The timers that listExpiredCb takes out at time ms.
Expired(ms) ==
    IF DetectClockRollover(ms) THEN m_timers ELSE {t \in m_timers : m_next[t] <= ms}

\* Mutant: every expired timer goes back into the set.
RequeuedAll(expired) == expired

\* The expired timers that are inserted again.
Requeued(expired) == {t \in expired : m_recurring[t]}

\* Mutant: a timer that is not inserted again keeps its callback.
CbKept(expired) == m_cb

\* m_cb after the loop over the expired timers.
CbAfter(expired) == [t \in Timers |-> m_cb[t] /\ (t \in expired => m_recurring[t])]

\* Mutant: a recurring timer goes back with the deadline it had.
NextKept(ms, requeued) == m_next

\* m_next after that loop.
NextAfter(ms, requeued) ==
    [t \in Timers |-> IF t \in requeued THEN Add64(ms, m_ms[t]) ELSE m_next[t]]

\* listExpiredCb: the rest, under the write lock.
ListExpiredCb(p) ==
    LET ms == now_ms[p]
        expired == Expired(ms)
        requeued == Requeued(expired)
    IN  /\ ppc[p] = "lock"
        /\ m_previousTime' = IF m_timers = {} THEN m_previousTime ELSE ms
        /\ cbs' = [cbs EXCEPT ![p] = expired]
        /\ fired' = fired \cup expired
        /\ m_timers' = (m_timers \ expired) \cup requeued
        /\ m_cb' = CbAfter(expired)
        /\ m_next' = NextAfter(ms, requeued)
        /\ due' = [t \in Timers |-> IF t \in requeued THEN ms + setback + m_ms[t]
                                    ELSE due[t]]
        /\ unseen' = Placed(requeued)
        /\ ppc' = [ppc EXCEPT ![p] = "yield"]
        /\ now_ms' = [now_ms EXCEPT ![p] = 0]
        /\ readAt' = [readAt EXCEPT ![p] = 0]
        /\ UNCHANGED <<clockVars, m_ms, m_recurring, m_tickled, userVars,
                       deadline, drains, wake>>

\* The end of a turn of idle(): the callbacks have been scheduled, the pipe is
\* emptied if it was reported, the other events are handled, and the fiber
\* yields to run().
YieldToRun(p) ==
    /\ ppc[p] = "yield"
    /\ wake' = (wake /\ p \notin drains)
    /\ drains' = drains \ {p}
    /\ cbs' = [cbs EXCEPT ![p] = {}]
    /\ ppc' = [ppc EXCEPT ![p] = "run"]
    /\ UNCHANGED <<clockVars, timerVars, m_tickled, m_previousTime, userVars,
                   deadline, now_ms, readAt, history>>

-----------------------------------------------------------------------------
UserStep(u) == \/ NewTimer(u) \/ AddTimer(u) \/ OnTimerInsertdAtFront(u) \/ Tickle(u)
               \/ Cancel(u) \/ Refresh(u)
               \/ ResetCall(u) \/ Reset(u) \/ ResetTooLate(u)

PollerStep(p) == \/ EnterIdle(p) \/ GetNextTimer(p)
                 \/ TimeoutWake(p) \/ TickleWake(p) \/ EventWake(p)
                 \/ CheckTimers(p) \/ ListExpiredCb(p) \/ YieldToRun(p)

Next == \/ Tick \/ SetClockBack
        \/ \E u \in Users : UserStep(u)
        \/ \E p \in Pollers : PollerStep(p)

Spec == Init /\ [][Next]_vars

(***************************************************************************)
(* A thread inside a timer call finishes it, an awake poller goes round    *)
(* its loop, a blocked one returns when its time is up or the pipe has a   *)
(* byte, a worker that ran a task comes back to idle(), and time passes.   *)
(* Nothing obliges a user to make a call or an fd to have an event.        *)
(***************************************************************************)
Fairness ==
    /\ SF_vars(Tick)
    /\ \A u \in Users : WF_vars(AddTimer(u) \/ OnTimerInsertdAtFront(u) \/ Tickle(u)
                                \/ Reset(u) \/ ResetTooLate(u))
    /\ \A p \in Pollers : WF_vars(EnterIdle(p) \/ GetNextTimer(p)
                                  \/ TimeoutWake(p) \/ TickleWake(p)
                                  \/ CheckTimers(p) \/ ListExpiredCb(p) \/ YieldToRun(p))

FairSpec == Spec /\ Fairness

-----------------------------------------------------------------------------
(* Properties.                                                             *)

(***************************************************************************)
(* Timer::cancel erases m_timers.find(this) without looking at the result, *)
(* and erase(end()) is undefined: a timer that a caller can reach has a    *)
(* callback exactly when it is in the set, whatever addTimer, cancel,      *)
(* reset and listExpiredCb did to it in other threads.                     *)
(***************************************************************************)
CancelFindsTimer == \A t \in handed : m_cb[t] <=> t \in m_timers

(***************************************************************************)
(* "When a new timer becomes the first, the blocking time must be reset"   *)
(* (timer.h:55): a blocked poller returns no later than the deadline of    *)
(* each timer, unless a wake-up is on its way.                             *)
(***************************************************************************)
NoSleepPastDeadline ==
    \A p \in Pollers : ppc[p] = "wait" =>
        \/ wake \/ \E u \in Users : upc[u] \in {"front", "write"}
        \/ \A t \in m_timers : deadline[p] <= m_next[t] + setback \/ deadline[p] <= elapsed

(***************************************************************************)
(* tickle() writes nothing while a thread is idle, so no insertion ends an *)
(* epoll_wait.  What is left is MAX_TIMEOUT: a blocked poller returns no   *)
(* later than the deadline of every timer that it has seen, and when a     *)
(* timer is inserted, refreshed, reset or collected behind its back, no    *)
(* later than MAX_TIMEOUT from then, whatever happens to the clock.        *)
(***************************************************************************)
BoundedLateness ==
    \A p \in Pollers : ppc[p] = "wait" =>
        \A t \in m_timers :
            \/ deadline[p] <= elapsed
            \/ deadline[p] <= m_next[t] + setback
            \/ t \in unseen[p] /\ deadline[p] <= elapsed + MaxWait

(***************************************************************************)
(* Two threads may be in listExpiredCb with clocks they read at different  *)
(* times: a one-shot timer is still collected once only.                   *)
(***************************************************************************)
OneShotFiresOnce ==
    [][\A p \in Pollers : \A t \in cbs'[p] \ cbs[p] : t \in fired => m_recurring[t]]_vars

(***************************************************************************)
(* A timer is collected only after its period has really passed, counted   *)
(* from the call or the expiry that armed it.  A clock that is set back    *)
(* while a poller is between its clock reading and the write lock makes    *)
(* timers early by at most that amount.  Only when now + ms does not fit   *)
(* in 64 bits, or the clock went back more than the 12 hours that          *)
(* detectClockRollover looks for, or the poller was held up that long      *)
(* between its reading and the write lock, may a timer fire at any time.   *)
(***************************************************************************)
NoEarlyFire ==
    [][\A p \in Pollers : \A t \in cbs'[p] \ cbs[p] :
            \/ due[t] <= elapsed + setback \/ due[t] >= Wrap
            \/ setback > HalfDay \/ elapsed - readAt[p] > HalfDay]_vars

(***************************************************************************)
(* A timer in the set whose deadline has come is collected (or cancelled,  *)
(* or moved by its owner), although nobody is woken for it: the pollers    *)
(* come back by themselves.                                                *)
(***************************************************************************)
DueTimerIsCollected ==
    \A t \in Timers :
        (t \in m_timers /\ m_next[t] <= now) ~> ~(t \in m_timers /\ m_next[t] <= now)
=============================================================================
