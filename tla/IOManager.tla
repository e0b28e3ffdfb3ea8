----------------------------- MODULE IOManager -----------------------------
(***************************************************************************)
(* The event side of wyze/iomanager.h and wyze/iomanager.cpp: which fiber  *)
(* or callback waits for which event of which fd, what is registered with  *)
(* epoll, and how the threads in idle() turn epoll events into scheduled   *)
(* tasks.  The close hook (wyze/hook.cpp) is here too: it is what cancels  *)
(* the events of an fd that goes away.                                     *)
(*                                                                         *)
(* A thread either executes fibers ("run"), which call addEvent, delEvent, *)
(* canceEvent, canceAll and close, or is in idle() with the events that    *)
(* epoll_wait gave it ("handle").  Everything done under one FdContext's   *)
(* mutex is one step.  The kernel is external: epoll reports any part of   *)
(* what is registered when it is asked, and EPOLLERR/EPOLLHUP always.      *)
(***************************************************************************)
EXTENDS Integers, FiniteSets

CONSTANTS
    Threads,    \* threads of the scheduler
    Fds,        \* file descriptors (each with its FdContext allocated)
    Waiters,    \* fibers and callbacks
    NoWaiter

ASSUME FdsAssumption == IsFiniteSet(Fds)
ASSUME WaitersAssumption == NoWaiter \notin Waiters

VARIABLES
    events,          \* FdContext::events, per fd
    ctx,             \* the EventContext of each fd and event: who waits
    m_pendingEvent,
    scheduled,       \* waiters handed to schedule() and not yet resumed
    reg,             \* kernel: the events registered with epoll, per fd
    open,            \* kernel: the open fds
    pc,              \* "run", "handle" or "closing", per thread
    evs,             \* per thread in idle(): the epoll_event of each fd, {} if none
    closing,         \* per thread: the fd it is closing (any fd while it closes none)
    aborted          \* "no", or which WYZE_ASSERT failed: "registered", "occupied", "trigger"

vars == <<events, ctx, m_pendingEvent, scheduled, reg, open, pc, evs, closing, aborted>>
kernel == <<reg, open>>
threadVars == <<pc, evs, closing>>

Event == {"READ", "WRITE"}
EpollBits == Event \cup {"ERR"}      \* EPOLLIN = READ, EPOLLOUT = WRITE, EPOLLERR | EPOLLHUP

\* No event fetched for any fd.
NoEvs == [fd \in Fds |-> {}]

TypeOK ==
    /\ events \in [Fds -> SUBSET Event]
    /\ ctx \in [Fds -> [Event -> Waiters \cup {NoWaiter}]]
    /\ m_pendingEvent \in Nat
    /\ scheduled \subseteq Waiters
    /\ reg \in [Fds -> SUBSET Event]
    /\ open \subseteq Fds
    /\ pc \in [Threads -> {"run", "handle", "closing"}]
    /\ evs \in [Threads -> [Fds -> SUBSET EpollBits]]
    /\ closing \in [Threads -> Fds]
    /\ aborted \in {"no", "registered", "occupied", "trigger"}

Init ==
    /\ events = [fd \in Fds |-> {}]
    /\ ctx = [fd \in Fds |-> [e \in Event |-> NoWaiter]]
    /\ m_pendingEvent = 0
    /\ scheduled = {}
    /\ reg = [fd \in Fds |-> {}]
    /\ open = Fds
    /\ pc = [t \in Threads |-> "run"]
    /\ evs = [t \in Threads |-> NoEvs]
    /\ closing \in [Threads -> Fds]
    /\ aborted = "no"

-----------------------------------------------------------------------------
(* epoll_ctl.                                                              *)

\* ADD of an fd that is registered, or MOD or DEL of one that is not, fails;
\* so does everything on a closed fd.  was: what the code believes is there.
EpollCtlOk(fd, was) == fd \in open /\ (was = {} <=> reg[fd] = {})

EpollCtl(fd, evts) == reg' = [reg EXCEPT ![fd] = evts]

-----------------------------------------------------------------------------
(* FdContext.                                                              *)

\* Who waits for one of the events es of fd.
WaitersOf(fd, es) == {ctx[fd][e] : e \in es} \ {NoWaiter}

\* The contexts of fd after the events es were taken out.
Cleared(fd, es) ==
    [ctx EXCEPT ![fd] = [e \in Event |-> IF e \in es THEN NoWaiter ELSE ctx[fd][e]]]

\* Mutant: the EventContext keeps its fiber.
TriggerKeepsContext(fd, es) ==
    /\ events' = [events EXCEPT ![fd] = @ \ es]
    /\ scheduled' = scheduled \cup WaitersOf(fd, es)
    /\ m_pendingEvent' = m_pendingEvent - Cardinality(es)
    /\ ctx' = ctx

\* Mutant: one decrement, however many events were triggered.
TriggerCountsOnce(fd, es) ==
    /\ events' = [events EXCEPT ![fd] = @ \ es]
    /\ scheduled' = scheduled \cup WaitersOf(fd, es)
    /\ ctx' = Cleared(fd, es)
    /\ m_pendingEvent' = m_pendingEvent - 1

\* triggerEvent and --m_pendingEvent for each of the events es, all registered.
TriggerEvents(fd, es) ==
    /\ events' = [events EXCEPT ![fd] = @ \ es]
    /\ scheduled' = scheduled \cup WaitersOf(fd, es)
    /\ ctx' = Cleared(fd, es)
    /\ m_pendingEvent' = m_pendingEvent - Cardinality(es)

-----------------------------------------------------------------------------
(* Operations that a fiber calls.                                          *)

\* A waiter that is neither registered nor scheduled: it is the one calling.
Free(w) == w \notin scheduled /\ \A fd \in Fds, e \in Event : ctx[fd][e] # w

\* addEvent for an event that somebody waits for already ends the program.
AddAsserts(t) ==
    \E fd \in Fds, w \in Waiters :
        /\ aborted = "no" /\ pc[t] = "run" /\ Free(w) /\ events[fd] # {}
        /\ aborted' = "registered"
        /\ UNCHANGED <<events, ctx, m_pendingEvent, scheduled, kernel, threadVars>>

AddEvent(t) ==
    \E fd \in Fds, e \in Event, w \in Waiters :
        /\ aborted = "no" /\ pc[t] = "run" /\ Free(w)
        /\ e \notin events[fd] /\ EpollCtlOk(fd, events[fd])
        /\ EpollCtl(fd, events[fd] \cup {e})
        /\ m_pendingEvent' = m_pendingEvent + 1
        /\ events' = [events EXCEPT ![fd] = @ \cup {e}]
        /\ aborted' = IF ctx[fd][e] # NoWaiter THEN "occupied" ELSE "no"
        /\ ctx' = [ctx EXCEPT ![fd][e] = w]
        /\ UNCHANGED <<scheduled, open, threadVars>>

\* Mutant: epoll is not told.
DelFromEpollNot(fd, e) == reg' = reg

\* EPOLL_CTL_MOD or EPOLL_CTL_DEL with what is left.
DelFromEpoll(fd, e) == EpollCtl(fd, events[fd] \ {e})

DelEvent(t) ==
    \E fd \in Fds, e \in Event :
        /\ aborted = "no" /\ pc[t] = "run"
        /\ e \in events[fd] /\ EpollCtlOk(fd, events[fd])
        /\ DelFromEpoll(fd, e)
        /\ m_pendingEvent' = m_pendingEvent - 1
        /\ events' = [events EXCEPT ![fd] = @ \ {e}]
        /\ ctx' = Cleared(fd, {e})
        /\ UNCHANGED <<scheduled, open, threadVars, aborted>>

CanceEvent(t) ==
    \E fd \in Fds, e \in Event :
        /\ aborted = "no" /\ pc[t] = "run"
        /\ e \in events[fd] /\ EpollCtlOk(fd, events[fd])
        /\ EpollCtl(fd, events[fd] \ {e})
        /\ TriggerEvents(fd, {e})
        /\ UNCHANGED <<open, threadVars, aborted>>

\* canceAll does something only if an event is registered and epoll agrees.
CanceAllActs(fd) == events[fd] # {} /\ EpollCtlOk(fd, events[fd])

CanceAll(fd) == EpollCtl(fd, {}) /\ TriggerEvents(fd, events[fd])

\* canceAll called by a fiber that does not close the fd.
CanceAllCall(t) ==
    \E fd \in Fds :
        /\ aborted = "no" /\ pc[t] = "run" /\ CanceAllActs(fd)
        /\ CanceAll(fd)
        /\ UNCHANGED <<open, threadVars, aborted>>

\* The close hook's first half: canceAll (and FdMgr::del).
CloseCancel(fd) ==
    IF CanceAllActs(fd) THEN CanceAll(fd)
    ELSE UNCHANGED <<events, ctx, m_pendingEvent, scheduled, reg>>

Close(t) ==
    \E fd \in open :
        /\ aborted = "no" /\ pc[t] = "run"
        /\ \A u \in Threads : pc[u] = "closing" => closing[u] # fd
        /\ CloseCancel(fd)
        /\ pc' = [pc EXCEPT ![t] = "closing"]
        /\ closing' = [closing EXCEPT ![t] = fd]
        /\ UNCHANGED <<open, evs, aborted>>

\* Its second half, close_f: the kernel forgets the registration.
CloseF(t) ==
    /\ aborted = "no" /\ pc[t] = "closing"
    /\ open' = open \ {closing[t]}
    /\ reg' = [reg EXCEPT ![closing[t]] = {}]
    /\ pc' = [pc EXCEPT ![t] = "run"]
    /\ UNCHANGED <<events, ctx, m_pendingEvent, scheduled, evs, closing, aborted>>

\* socket or accept: the kernel reuses the number of a closed fd.
Open(t) ==
    \E fd \in Fds \ open :
        /\ aborted = "no" /\ pc[t] = "run"
        /\ open' = open \cup {fd}
        /\ UNCHANGED <<events, ctx, m_pendingEvent, scheduled, reg, threadVars, aborted>>

\* A worker takes a scheduled waiter; the waiter may wait again.
Resume(t) ==
    \E w \in scheduled :
        /\ aborted = "no" /\ pc[t] = "run"
        /\ scheduled' = scheduled \ {w}
        /\ UNCHANGED <<events, ctx, m_pendingEvent, kernel, threadVars, aborted>>

-----------------------------------------------------------------------------
(* IOManager::idle.                                                        *)

\* What epoll_wait may report for fd: a part of what is registered.
Reportable(fd) == IF reg[fd] = {} THEN {{}} ELSE SUBSET (reg[fd] \cup {"ERR"})

EpollWait(t) ==
    /\ aborted = "no" /\ pc[t] = "run"
    /\ \E r \in [Fds -> SUBSET EpollBits] :
        /\ \A fd \in Fds : r[fd] \in Reportable(fd)
        /\ r # NoEvs
        /\ evs' = [evs EXCEPT ![t] = r]
    /\ pc' = [pc EXCEPT ![t] = "handle"]
    /\ UNCHANGED <<events, ctx, m_pendingEvent, scheduled, kernel, closing, aborted>>

\* real_evs: an error counts as every event that is registered.
RealEvs(fd, bits) ==
    (bits \cap Event) \cup (IF "ERR" \in bits THEN events[fd] ELSE {})

\* Whether the event of fd leads to anything (not one of the two continues).
Acts(fd, real) == events[fd] \cap real # {} /\ EpollCtlOk(fd, events[fd])

\* One turn of the loop over the events, under the FdContext's mutex.
HandleEvent(t) ==
    \E fd \in Fds :
        LET real == RealEvs(fd, evs[t][fd])
        IN  /\ aborted = "no" /\ pc[t] = "handle" /\ evs[t][fd] # {}
            /\ evs' = [evs EXCEPT ![t][fd] = {}]
            /\ pc' = [pc EXCEPT ![t] = IF evs'[t] = NoEvs THEN "run" ELSE "handle"]
            /\ IF ~Acts(fd, real)
               THEN UNCHANGED <<events, ctx, m_pendingEvent, scheduled, reg, aborted>>
               ELSE /\ EpollCtl(fd, events[fd] \ real)
                    /\ aborted' = IF real \subseteq events[fd] THEN "no" ELSE "trigger"
                    /\ TriggerEvents(fd, real \cap events[fd])
            /\ UNCHANGED <<open, closing>>

-----------------------------------------------------------------------------
ThreadStep(t) == \/ AddAsserts(t) \/ AddEvent(t) \/ DelEvent(t) \/ CanceEvent(t) \/ CanceAllCall(t)
                 \/ Close(t) \/ CloseF(t) \/ Open(t) \/ Resume(t)
                 \/ EpollWait(t) \/ HandleEvent(t)

Next == \E t \in Threads : ThreadStep(t)

Spec == Init /\ [][Next]_vars

-----------------------------------------------------------------------------
(* Properties.                                                             *)

\* The registered events, one pair for each.
Registered == {p \in Fds \X Event : p[2] \in events[p[1]]}

(***************************************************************************)
(* m_pendingEvent is what stopping() trusts: it counts the registered      *)
(* events exactly, through add, delete, cancel and trigger from any thread *)
(* and through every failed epoll_ctl (iomanager.h:66).                    *)
(***************************************************************************)
PendingCount == m_pendingEvent = Cardinality(Registered)

(***************************************************************************)
(* Somebody waits in an EventContext exactly when its event is registered, *)
(* so that the second WYZE_ASSERT of addEvent (iomanager.cpp:144) never    *)
(* fails, and triggerEvent always finds a fiber or callback to schedule.   *)
(***************************************************************************)
ContextMatches ==
    /\ \A fd \in Fds, e \in Event : ctx[fd][e] # NoWaiter <=> e \in events[fd]
    /\ aborted # "occupied"

(***************************************************************************)
(* A waiter is woken once: it is in one EventContext at most, and never    *)
(* both there and scheduled.                                               *)
(***************************************************************************)
WaiterInOnePlace ==
    \A p, q \in Fds \X Event :
        ctx[p[1]][p[2]] # NoWaiter =>
            /\ ctx[p[1]][p[2]] \notin scheduled
            /\ ctx[p[1]][p[2]] = ctx[q[1]][q[2]] => p = q

(***************************************************************************)
(* epoll has for an fd what the code believes it has, or nothing at all    *)
(* (the fd was closed under a waiter): an event that somebody waits for is *)
(* never half registered, and epoll reports nothing that nobody waits for, *)
(* through every failed epoll_ctl and with fds closed by other threads.    *)
(***************************************************************************)
EpollMatches == \A fd \in Fds : reg[fd] \in {{}, events[fd]}

\* triggerEvent is only called for a registered event, as its WYZE_ASSERT says
\* (iomanager.cpp:37).
TriggersRegistered == aborted # "trigger"
=============================================================================
