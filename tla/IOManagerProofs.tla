-------------------------- MODULE IOManagerProofs --------------------------
(***************************************************************************)
(* Proofs about IOManager, for any number of threads, fds and waiters.     *)
(***************************************************************************)
EXTENDS IOManager, FiniteSetTheorems, TLAPS

\* An fd has finitely many events.
LEMMA EventFinite == IsFiniteSet(Event)
<1>1. IsFiniteSet({"READ"})
  BY FS_Singleton
<1>2. IsFiniteSet({"READ"} \cup {"WRITE"})
  BY <1>1, FS_AddElement
<1>3. Event = {"READ"} \cup {"WRITE"}
  BY DEF Event
<1> QED
  BY <1>2, <1>3

\* As many pairs <<fd, e>> as events e.
LEMMA PairsOfEvents ==
    ASSUME NEW fd, NEW es \in SUBSET Event
    PROVE  /\ IsFiniteSet(es) /\ IsFiniteSet({fd} \X es)
           /\ Cardinality(es) \in Nat
           /\ Cardinality({fd} \X es) = Cardinality(es)
<1>1. IsFiniteSet(es) /\ Cardinality(es) \in Nat
  BY EventFinite, FS_Subset, FS_CardinalityType
<1>2. IsFiniteSet({fd}) /\ Cardinality({fd}) = 1
  BY FS_Singleton
<1>3. IsFiniteSet({fd} \X es) /\ Cardinality({fd} \X es) = Cardinality({fd}) * Cardinality(es)
  BY <1>1, <1>2, FS_Product
<1> QED
  BY <1>1, <1>2, <1>3

\* The set that m_pendingEvent counts is finite.
LEMMA RegisteredFinite ==
    IsFiniteSet(Registered) /\ Cardinality(Registered) \in Nat
<1>2. IsFiniteSet(Fds \X Event)
  BY EventFinite, FdsAssumption, FS_Product
<1>3. Registered \in SUBSET (Fds \X Event)
  BY DEF Registered
<1> QED
  BY <1>2, <1>3, FS_Subset, FS_CardinalityType

\* Triggering or deleting the registered events es of one fd takes exactly
\* that many away from what m_pendingEvent counts.
LEMMA CountAfterRemoval ==
    ASSUME events \in [Fds -> SUBSET Event], NEW fd \in Fds, NEW es \in SUBSET events[fd],
           events' = [events EXCEPT ![fd] = @ \ es]
    PROVE  /\ Cardinality(Registered') = Cardinality(Registered) - Cardinality(es)
           /\ Cardinality(Registered') \in Nat
<1> DEFINE P == {fd} \X es
<1>0. es \in SUBSET Event
  OBVIOUS
<1>1. IsFiniteSet(P) /\ Cardinality(P) = Cardinality(es) /\ Cardinality(es) \in Nat
  BY <1>0, PairsOfEvents
<1>2. Registered = Registered' \cup P
  BY <1>0 DEF Registered
<1>3. Registered' \cap P = {}
  BY <1>0 DEF Registered
<1>4. IsFiniteSet(Registered) /\ Cardinality(Registered) \in Nat
  BY RegisteredFinite
<1>5. IsFiniteSet(Registered') /\ Cardinality(Registered') \in Nat
  <2>1. Registered' \in SUBSET Registered
    BY <1>2
  <2> QED
    BY <2>1, <1>4, FS_Subset, FS_CardinalityType
<1>6. Cardinality(Registered) =
        Cardinality(Registered') + Cardinality(P) - Cardinality(Registered' \cap P)
  <2> HIDE DEF P
  <2> QED
    BY <1>1, <1>2, <1>5, FS_Union
<1>7. Cardinality(Registered' \cap P) = 0
  BY <1>3, FS_EmptySet
<1> QED
  BY <1>1, <1>4, <1>5, <1>6, <1>7

-----------------------------------------------------------------------------
(* The inductive invariant, in two halves: the registrations with what     *)
(* counts and schedules them, and the types of the rest.                   *)

Registrations ==
    /\ events \in [Fds -> SUBSET Event]
    /\ ctx \in [Fds -> [Event -> Waiters \cup {NoWaiter}]]
    /\ m_pendingEvent \in Nat
    /\ scheduled \subseteq Waiters
    /\ PendingCount /\ ContextMatches /\ WaiterInOnePlace

RestTypes ==
    /\ reg \in [Fds -> SUBSET Event]
    /\ open \subseteq Fds
    /\ pc \in [Threads -> {"run", "handle", "closing"}]
    /\ evs \in [Threads -> [Fds -> SUBSET EpollBits]]
    /\ closing \in [Threads -> Fds]
    /\ aborted \in {"no", "registered", "occupied", "trigger"}

IInv == Registrations /\ RestTypes

\* Whatever leaves the four variables alone leaves Registrations alone.
LEMMA RegistrationsUnchanged ==
    ASSUME Registrations, UNCHANGED <<events, ctx, m_pendingEvent, scheduled>>, aborted' # "occupied"
    PROVE  Registrations'
BY DEF Registrations, PendingCount, Registered, ContextMatches, WaiterInOnePlace

\* triggerEvent wakes exactly who waits, and keeps the count.
LEMMA TriggerKeepsRegistrations ==
    ASSUME Registrations, NEW fd \in Fds, NEW es \in SUBSET events[fd], TriggerEvents(fd, es),
           aborted' # "occupied"
    PROVE  Registrations'
<1>1. events' \in [Fds -> SUBSET Event]
  BY DEF Registrations, TriggerEvents
<1>2. ctx' \in [Fds -> [Event -> Waiters \cup {NoWaiter}]]
  BY DEF Registrations, TriggerEvents, Cleared
<1>3. m_pendingEvent' \in Nat /\ PendingCount'
  BY CountAfterRemoval DEF Registrations, TriggerEvents, PendingCount
<1>4. \A g \in Fds, e \in Event :
        ctx'[g][e] = IF g = fd /\ e \in es THEN NoWaiter ELSE ctx[g][e]
  BY DEF Registrations, TriggerEvents, Cleared
<1>5. scheduled' \subseteq Waiters
  BY DEF Registrations, TriggerEvents, WaitersOf
<1>6. ContextMatches'
  BY <1>4 DEF Registrations, ContextMatches, TriggerEvents
<1>7. WaiterInOnePlace'
  <2> SUFFICES ASSUME NEW p \in Fds \X Event, NEW q \in Fds \X Event,
                      ctx'[p[1]][p[2]] # NoWaiter
               PROVE  /\ ctx'[p[1]][p[2]] \notin scheduled'
                      /\ ctx'[p[1]][p[2]] = ctx'[q[1]][q[2]] => p = q
    BY DEF WaiterInOnePlace
  <2>1. ctx'[p[1]][p[2]] = ctx[p[1]][p[2]] /\ ~(p[1] = fd /\ p[2] \in es)
    BY <1>4
  <2>2. ctx'[q[1]][q[2]] = ctx[q[1]][q[2]] \/ ctx'[q[1]][q[2]] = NoWaiter
    BY <1>4
  <2>3. ctx[p[1]][p[2]] \notin scheduled
        /\ (ctx[p[1]][p[2]] = ctx[q[1]][q[2]] => p = q)
    BY <2>1 DEF Registrations, WaiterInOnePlace
  <2>4. ctx[p[1]][p[2]] \notin WaitersOf(fd, es)
    <3> SUFFICES ASSUME NEW e \in es, ctx[p[1]][p[2]] = ctx[fd][e]
                 PROVE  FALSE
      BY DEF WaitersOf
    <3>1. <<fd, e>> \in Fds \X Event
      BY DEF Registrations
    <3>2. ctx[p[1]][p[2]] = ctx[<<fd, e>>[1]][<<fd, e>>[2]]
      OBVIOUS
    <3>3. p = <<fd, e>>
      BY <2>1, <3>1, <3>2 DEF Registrations, WaiterInOnePlace
    <3> QED
      BY <2>1, <3>3
  <2>5. ctx'[p[1]][p[2]] \notin scheduled'
    BY <2>1, <2>3, <2>4 DEF TriggerEvents
  <2> QED
    BY <2>1, <2>2, <2>3, <2>5
<1> QED
  BY <1>1, <1>2, <1>3, <1>5, <1>6, <1>7 DEF Registrations

\* Nothing is registered in the constructor's state.
LEMMA InitIInv == Init => IInv
<1> SUFFICES ASSUME Init
             PROVE  IInv
  OBVIOUS
<1>1. Registered = {}
  BY DEF Init, Registered
<1>2. PendingCount
  BY <1>1, FS_EmptySet DEF Init, PendingCount
<1>3. ContextMatches /\ WaiterInOnePlace
  BY DEF Init, ContextMatches, WaiterInOnePlace
<1>4. RestTypes
  BY DEF Init, RestTypes, NoEvs
<1> QED
  BY <1>2, <1>3, <1>4 DEF IInv, Registrations, Init

\* addEvent: the caller was nowhere, and the count goes up by one.
LEMMA AddEventIInv ==
    ASSUME IInv, NEW t \in Threads, AddEvent(t)
    PROVE  IInv'
<1> USE DEF IInv
<1>1. PICK fd \in Fds, e \in Event, w \in Waiters :
        /\ Free(w) /\ e \notin events[fd]
        /\ EpollCtl(fd, events[fd] \cup {e})
        /\ m_pendingEvent' = m_pendingEvent + 1
        /\ events' = [events EXCEPT ![fd] = @ \cup {e}]
        /\ aborted' = IF ctx[fd][e] # NoWaiter THEN "occupied" ELSE "no"
        /\ ctx' = [ctx EXCEPT ![fd][e] = w]
        /\ UNCHANGED <<scheduled, open, threadVars>>
  BY DEF AddEvent
<1>2. RestTypes'
  BY <1>1 DEF RestTypes, Registrations, EpollCtl, threadVars
<1>3. events' \in [Fds -> SUBSET Event]
  BY <1>1 DEF Registrations
<1>4. ctx' \in [Fds -> [Event -> Waiters \cup {NoWaiter}]]
  BY <1>1 DEF Registrations
<1>5. m_pendingEvent' \in Nat /\ PendingCount'
  <2>1. Registered' = Registered \cup {<<fd, e>>} /\ <<fd, e>> \notin Registered
    BY <1>1 DEF Registered, Registrations
  <2>2. Cardinality(Registered') = Cardinality(Registered) + 1
    BY <2>1, RegisteredFinite, FS_AddElement
  <2> QED
    BY <1>1, <2>2 DEF Registrations, PendingCount
<1>6. \A g \in Fds, d \in Event : ctx'[g][d] = IF g = fd /\ d = e THEN w ELSE ctx[g][d]
  BY <1>1 DEF Registrations
<1>9. aborted' # "occupied"
  BY <1>1 DEF Registrations, ContextMatches
<1>7. ContextMatches'
  BY <1>1, <1>6, <1>9, WaitersAssumption DEF Registrations, ContextMatches
<1>8. WaiterInOnePlace'
  <2> SUFFICES ASSUME NEW p \in Fds \X Event, NEW q \in Fds \X Event,
                      ctx'[p[1]][p[2]] # NoWaiter
               PROVE  /\ ctx'[p[1]][p[2]] \notin scheduled'
                      /\ ctx'[p[1]][p[2]] = ctx'[q[1]][q[2]] => p = q
    BY DEF WaiterInOnePlace
  <2>1. w \notin scheduled /\ \A g \in Fds, d \in Event : ctx[g][d] # w
    BY <1>1 DEF Free
  <2>2. CASE p = <<fd, e>>
    BY <1>1, <1>6, <2>1, <2>2
  <2>3. CASE p # <<fd, e>>
    <3>1. ctx'[p[1]][p[2]] = ctx[p[1]][p[2]]
      BY <1>6, <2>3
    <3>2. ctx[p[1]][p[2]] \notin scheduled
          /\ (ctx[p[1]][p[2]] = ctx[q[1]][q[2]] => p = q)
      BY <3>1 DEF Registrations, WaiterInOnePlace
    <3> QED
      BY <1>1, <1>6, <2>1, <3>1, <3>2
  <2> QED
    BY <2>2, <2>3
<1> QED
  BY <1>1, <1>2, <1>3, <1>4, <1>5, <1>7, <1>8 DEF Registrations

\* delEvent: like a trigger that wakes nobody.
LEMMA DelEventIInv ==
    ASSUME IInv, NEW t \in Threads, DelEvent(t)
    PROVE  IInv'
<1> USE DEF IInv
<1>1. PICK fd \in Fds, e \in Event :
        /\ e \in events[fd]
        /\ DelFromEpoll(fd, e)
        /\ m_pendingEvent' = m_pendingEvent - 1
        /\ events' = [events EXCEPT ![fd] = @ \ {e}]
        /\ ctx' = Cleared(fd, {e})
        /\ UNCHANGED <<scheduled, open, threadVars, aborted>>
  BY DEF DelEvent
<1>2. RestTypes'
  BY <1>1 DEF RestTypes, Registrations, DelFromEpoll, EpollCtl, threadVars
<1>3. events' \in [Fds -> SUBSET Event]
  BY <1>1 DEF Registrations
<1>4. ctx' \in [Fds -> [Event -> Waiters \cup {NoWaiter}]]
  BY <1>1 DEF Registrations, Cleared
<1>5. m_pendingEvent' \in Nat /\ PendingCount'
  <2>1. {e} \in SUBSET events[fd] /\ Cardinality({e}) = 1
    BY <1>1, FS_Singleton
  <2> QED
    BY <1>1, <2>1, CountAfterRemoval DEF Registrations, PendingCount
<1>6. \A g \in Fds, d \in Event : ctx'[g][d] = IF g = fd /\ d = e THEN NoWaiter ELSE ctx[g][d]
  BY <1>1 DEF Registrations, Cleared
<1>9. aborted' # "occupied"
  BY <1>1 DEF Registrations, ContextMatches
<1>7. ContextMatches'
  <2> SUFFICES ASSUME NEW g \in Fds, NEW d \in Event
               PROVE  ctx'[g][d] # NoWaiter <=> d \in events'[g]
    BY <1>9 DEF ContextMatches
  <2>1. ctx[g][d] # NoWaiter <=> d \in events[g]
    BY DEF Registrations, ContextMatches
  <2>2. d \in events'[g] <=> d \in events[g] /\ ~(g = fd /\ d = e)
    BY <1>1 DEF Registrations
  <2> QED
    BY <1>6, <2>1, <2>2
<1>8. WaiterInOnePlace'
  <2> SUFFICES ASSUME NEW p \in Fds \X Event, NEW q \in Fds \X Event,
                      ctx'[p[1]][p[2]] # NoWaiter
               PROVE  /\ ctx'[p[1]][p[2]] \notin scheduled'
                      /\ ctx'[p[1]][p[2]] = ctx'[q[1]][q[2]] => p = q
    BY DEF WaiterInOnePlace
  <2>1. ctx'[p[1]][p[2]] = ctx[p[1]][p[2]]
    BY <1>6
  <2>2. ctx'[q[1]][q[2]] = ctx[q[1]][q[2]] \/ ctx'[q[1]][q[2]] = NoWaiter
    BY <1>6
  <2>3. ctx[p[1]][p[2]] \notin scheduled
        /\ (ctx[p[1]][p[2]] = ctx[q[1]][q[2]] => p = q)
    BY <2>1 DEF Registrations, WaiterInOnePlace
  <2> QED
    BY <1>1, <2>1, <2>2, <2>3
<1> QED
  BY <1>1, <1>2, <1>3, <1>4, <1>5, <1>7, <1>8 DEF Registrations

\* One turn of the loop in idle().
LEMMA HandleEventIInv ==
    ASSUME IInv, NEW t \in Threads, HandleEvent(t)
    PROVE  IInv'
<1> USE DEF IInv
<1>1. PICK fd \in Fds :
        /\ evs' = [evs EXCEPT ![t][fd] = {}]
        /\ pc' = [pc EXCEPT ![t] = IF evs'[t] = NoEvs THEN "run" ELSE "handle"]
        /\ LET real == RealEvs(fd, evs[t][fd])
           IN  IF ~Acts(fd, real)
               THEN UNCHANGED <<events, ctx, m_pendingEvent, scheduled, reg, aborted>>
               ELSE /\ EpollCtl(fd, events[fd] \ real)
                    /\ aborted' = IF real \subseteq events[fd] THEN "no" ELSE "trigger"
                    /\ TriggerEvents(fd, real \cap events[fd])
        /\ UNCHANGED <<open, closing>>
  BY DEF HandleEvent
<1> DEFINE real == RealEvs(fd, evs[t][fd])
<1> HIDE DEF real
<1>2. evs' \in [Threads -> [Fds -> SUBSET EpollBits]]
      /\ pc' \in [Threads -> {"run", "handle", "closing"}]
  BY <1>1 DEF RestTypes
<1>3. CASE ~Acts(fd, real)
  <2>1. UNCHANGED <<events, ctx, m_pendingEvent, scheduled, reg, aborted>>
    BY <1>1, <1>3 DEF real
  <2>2. RestTypes'
    BY <1>1, <1>2, <2>1 DEF RestTypes
  <2> QED
    BY <2>1, <2>2, RegistrationsUnchanged DEF Registrations, ContextMatches
<1>4. CASE Acts(fd, real)
  <2>1. /\ EpollCtl(fd, events[fd] \ real)
        /\ aborted' = IF real \subseteq events[fd] THEN "no" ELSE "trigger"
        /\ TriggerEvents(fd, real \cap events[fd])
    BY <1>1, <1>4 DEF real
  <2>2. RestTypes'
    BY <1>1, <1>2, <2>1 DEF RestTypes, Registrations, EpollCtl
  <2>3. real \cap events[fd] \in SUBSET events[fd] /\ aborted' # "occupied"
    BY <2>1
  <2> QED
    BY <2>1, <2>2, <2>3, TriggerKeepsRegistrations
<1> QED
  BY <1>3, <1>4

\* Every step of every thread.
LEMMA NextIInv == IInv /\ [Next]_vars => IInv'
<1> SUFFICES ASSUME IInv, [Next]_vars
             PROVE  IInv'
  OBVIOUS
<1> USE DEF IInv
<1>0. aborted # "occupied"
  BY DEF Registrations, ContextMatches
<1>1. CASE UNCHANGED vars
  <2>1. RestTypes'
    BY <1>1 DEF vars, RestTypes
  <2> QED
    BY <1>0, <1>1, <2>1, RegistrationsUnchanged DEF vars
<1>2. ASSUME NEW t \in Threads, ThreadStep(t)
      PROVE  IInv'
  <2>0. CASE AddAsserts(t)
    <3>1. RestTypes'
      BY <2>0 DEF AddAsserts, RestTypes, threadVars, kernel
    <3> QED
      BY <2>0, <3>1, RegistrationsUnchanged DEF AddAsserts
  <2>1. CASE AddEvent(t)
    BY <2>1, AddEventIInv
  <2>2. CASE DelEvent(t)
    BY <2>2, DelEventIInv
  <2>3. CASE CanceEvent(t)
    <3>1. PICK fd \in Fds, e \in Event :
            /\ e \in events[fd]
            /\ EpollCtl(fd, events[fd] \ {e})
            /\ TriggerEvents(fd, {e})
            /\ UNCHANGED <<open, threadVars, aborted>>
      BY <2>3 DEF CanceEvent
    <3>2. RestTypes'
      BY <3>1 DEF RestTypes, Registrations, EpollCtl, threadVars
    <3> QED
      BY <1>0, <3>1, <3>2, TriggerKeepsRegistrations
  <2>4. CASE CanceAllCall(t)
    <3>1. PICK fd \in Fds : CanceAll(fd) /\ UNCHANGED <<open, threadVars, aborted>>
      BY <2>4 DEF CanceAllCall
    <3>2. RestTypes'
      BY <3>1 DEF RestTypes, CanceAll, EpollCtl, threadVars
    <3> QED
      BY <1>0, <3>1, <3>2, TriggerKeepsRegistrations DEF CanceAll
  <2>5. CASE Close(t)
    <3>1. PICK fd \in open :
            /\ CloseCancel(fd)
            /\ pc' = [pc EXCEPT ![t] = "closing"]
            /\ closing' = [closing EXCEPT ![t] = fd]
            /\ UNCHANGED <<open, evs, aborted>>
      BY <2>5 DEF Close
    <3>2. fd \in Fds
      BY DEF RestTypes
    <3>3. RestTypes'
      BY <3>1, <3>2 DEF RestTypes, CloseCancel, CanceAll, EpollCtl
    <3> QED
      BY <1>0, <3>1, <3>2, <3>3, TriggerKeepsRegistrations, RegistrationsUnchanged
      DEF CloseCancel, CanceAll
  <2>6. CASE CloseF(t)
    <3>1. RestTypes'
      BY <2>6 DEF CloseF, RestTypes
    <3> QED
      BY <1>0, <2>6, <3>1, RegistrationsUnchanged DEF CloseF
  <2>7. CASE Open(t)
    <3>1. RestTypes'
      BY <2>7 DEF Open, RestTypes, threadVars
    <3> QED
      BY <1>0, <2>7, <3>1, RegistrationsUnchanged DEF Open
  <2>8. CASE Resume(t)
    <3>1. RestTypes'
      BY <2>8 DEF Resume, RestTypes, threadVars, kernel
    <3>2. Registrations'
      <4>1. UNCHANGED <<events, ctx, m_pendingEvent, aborted>> /\ scheduled' \subseteq scheduled
        BY <2>8 DEF Resume
      <4>2. PendingCount' /\ ContextMatches' /\ WaiterInOnePlace'
        BY <4>1 DEF Registrations, PendingCount, Registered, ContextMatches, WaiterInOnePlace
      <4> QED
        BY <4>1, <4>2 DEF Registrations
    <3> QED
      BY <3>1, <3>2
  <2>9. CASE EpollWait(t)
    <3>1. RestTypes'
      BY <2>9 DEF EpollWait, RestTypes, kernel
    <3> QED
      BY <1>0, <2>9, <3>1, RegistrationsUnchanged DEF EpollWait
  <2>10. CASE HandleEvent(t)
    BY <2>10, HandleEventIInv
  <2> QED
    BY <1>2, <2>0, <2>1, <2>2, <2>3, <2>4, <2>5, <2>6, <2>7, <2>8, <2>9, <2>10 DEF ThreadStep
<1> QED
  BY <1>1, <1>2 DEF Next

\* The inductive invariant holds in every reachable state.
LEMMA Invariance == Spec => []IInv
BY InitIInv, NextIInv, PTL DEF Spec

\* The variables of IOManager keep their types: m_pendingEvent, a size_t in
\* the code, is never decremented below zero.
THEOREM TypeCorrect == Spec => []TypeOK
<1>1. IInv => TypeOK
  BY DEF IInv, Registrations, RestTypes, TypeOK
<1> QED
  BY <1>1, Invariance, PTL

\* m_pendingEvent counts the registered events through addEvent, delEvent,
\* canceEvent, canceAll, close and idle, whatever the threads do.
THEOREM PendingCountHolds == Spec => []PendingCount
<1>1. IInv => PendingCount
  BY DEF IInv, Registrations
<1> QED
  BY <1>1, Invariance, PTL

\* An EventContext is occupied exactly when its event is registered, so that
\* triggerEvent finds somebody to schedule and addEvent, which has asserted
\* that the event is not registered, finds the EventContext empty.
THEOREM ContextMatchesHolds == Spec => []ContextMatches
<1>1. IInv => ContextMatches
  BY DEF IInv, Registrations
<1> QED
  BY <1>1, Invariance, PTL

\* Nobody is registered and scheduled at once: triggerEvent, canceEvent and
\* canceAll never schedule the same fiber twice.
THEOREM WaiterInOnePlaceHolds == Spec => []WaiterInOnePlace
<1>1. IInv => WaiterInOnePlace
  BY DEF IInv, Registrations
<1> QED
  BY <1>1, Invariance, PTL

\* After a step that gives epoll the events that the FdContext is left with,
\* for one fd, the two still agree.
LEMMA EpollTold ==
    ASSUME EpollMatches, TypeOK, NEW fd \in Fds, NEW es \in SUBSET Event,
           EpollCtl(fd, es), events' = [events EXCEPT ![fd] = es]
    PROVE  EpollMatches'
BY DEF EpollMatches, TypeOK, EpollCtl

\* Every step keeps the FdContexts and the registrations in agreement.
LEMMA NextEpollMatches == EpollMatches /\ TypeOK /\ [Next]_vars => EpollMatches'
<1> SUFFICES ASSUME EpollMatches, TypeOK, [Next]_vars
             PROVE  EpollMatches'
  OBVIOUS
<1>1. CASE UNCHANGED <<events, reg>>
  BY <1>1 DEF EpollMatches
<1>2. ASSUME NEW t \in Threads, ThreadStep(t)
      PROVE  EpollMatches'
  <2>1. CASE AddEvent(t)
    <3>1. PICK fd \in Fds, e \in Event :
            /\ EpollCtl(fd, events[fd] \cup {e})
            /\ events' = [events EXCEPT ![fd] = @ \cup {e}]
      BY <2>1 DEF AddEvent
    <3>2. events[fd] \cup {e} \in SUBSET Event
      BY DEF TypeOK
    <3> QED
      BY <3>1, <3>2, EpollTold
  <2>2. CASE DelEvent(t) \/ CanceEvent(t)
    <3>1. PICK fd \in Fds, e \in Event :
            /\ EpollCtl(fd, events[fd] \ {e})
            /\ events' = [events EXCEPT ![fd] = @ \ {e}]
      BY <2>2 DEF DelEvent, CanceEvent, DelFromEpoll, TriggerEvents
    <3>2. events[fd] \ {e} \in SUBSET Event
      BY DEF TypeOK
    <3> QED
      BY <3>1, <3>2, EpollTold
  <2>3. ASSUME NEW fd \in Fds, CanceAll(fd)
        PROVE  EpollMatches'
    <3>1. EpollCtl(fd, {}) /\ events' = [events EXCEPT ![fd] = {}]
      BY <2>3 DEF CanceAll, TriggerEvents
    <3> QED
      BY <3>1, EpollTold
  <2>4. CASE CanceAllCall(t)
    BY <2>3, <2>4 DEF CanceAllCall
  <2>5. CASE Close(t)
    <3>1. PICK fd \in open : CloseCancel(fd)
      BY <2>5 DEF Close
    <3>2. fd \in Fds
      BY DEF TypeOK
    <3> QED
      BY <1>1, <2>3, <3>1, <3>2 DEF CloseCancel
  <2>6. CASE CloseF(t)
    BY <2>6 DEF CloseF, EpollMatches, TypeOK
  <2>7. CASE AddAsserts(t) \/ Open(t) \/ Resume(t) \/ EpollWait(t)
    BY <1>1, <2>7 DEF AddAsserts, Open, Resume, EpollWait, kernel
  <2>8. CASE HandleEvent(t)
    <3>1. PICK fd \in Fds :
            LET real == RealEvs(fd, evs[t][fd])
            IN  \/ UNCHANGED <<events, reg>>
                \/ EpollCtl(fd, events[fd] \ real) /\ TriggerEvents(fd, real \cap events[fd])
      BY <2>8 DEF HandleEvent
    <3> DEFINE real == RealEvs(fd, evs[t][fd])
    <3>2. CASE EpollCtl(fd, events[fd] \ real) /\ TriggerEvents(fd, real \cap events[fd])
      <4>1. events[fd] \ real \in SUBSET Event
        BY DEF TypeOK
      <4>2. events[fd] \ (real \cap events[fd]) = events[fd] \ real
        OBVIOUS
      <4>3. events' = [events EXCEPT ![fd] = events[fd] \ real]
        BY <3>2, <4>2 DEF TriggerEvents
      <4> QED
        BY <3>2, <4>1, <4>3, EpollTold
    <3> QED
      BY <1>1, <3>1, <3>2
  <2> QED
    BY <1>2, <2>1, <2>2, <2>4, <2>5, <2>6, <2>7, <2>8 DEF ThreadStep
<1> QED
  BY <1>1, <1>2 DEF Next, vars

\* The kernel watches an fd for exactly the events of its FdContext, or not
\* at all: after every addEvent, delEvent, canceEvent, canceAll and turn of
\* idle(), and with fds that other threads close and reuse.
THEOREM EpollMatchesHolds == Spec => []EpollMatches
<1>1. Init => EpollMatches
  BY DEF Init, EpollMatches
<1> QED
  BY <1>1, NextEpollMatches, TypeCorrect, PTL DEF Spec
=============================================================================
