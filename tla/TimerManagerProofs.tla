------------------------- MODULE TimerManagerProofs -------------------------
(***************************************************************************)
(* Proofs about TimerManager, for any number of timers and threads, any    *)
(* periods and any clock.                                                  *)
(***************************************************************************)
EXTENDS TimerManager, WellFoundedInduction, TLAPS

\* A nonempty set of naturals has a least element.
LEMMA LeastNatural ==
    ASSUME NEW S \in SUBSET Nat, S # {}
    PROVE  \E m \in S : \A n \in S : m <= n
<1> DEFINE Less == {ss \in Nat \X Nat : ss[1] < ss[2]}
<1>1. IsWellFoundedOn(Less, Nat)
  BY NatLessThanWellFounded DEF OpToRel
<1>2. PICK m \in S : \A n \in S : ~(<<n, m>> \in Less)
  <2> HIDE DEF Less
  <2> QED
    BY <1>1, WFMin
<1>3. \A n \in S : ~(n < m)
  BY <1>2
<1> QED
  BY <1>3

\* A nonempty m_timers has a first element in the order of the Comparator.
LEMMA BeginExists ==
    ASSUME m_timers \subseteq Timers, m_timers # {},
           m_next \in [Timers -> 0..(Wrap - 1)]
    PROVE  begin \in m_timers /\ IsBegin(begin, m_timers, m_next)
<1> DEFINE Deadlines == {m_next[t] : t \in m_timers}
<1>1. PICK d \in Deadlines : \A e \in Deadlines : d <= e
  <2>1. Deadlines \in SUBSET Nat /\ Deadlines # {}
    BY ClockAssumption
  <2> QED
    BY <2>1, LeastNatural
<1> DEFINE First == {t \in m_timers : m_next[t] = d}
<1>2. PICK t \in First : \A o \in First : t <= o
  <2>1. First \in SUBSET Nat /\ First # {}
    BY TimersAssumption
  <2> QED
    BY <2>1, LeastNatural
<1>3. IsBegin(t, m_timers, m_next)
  <2> SUFFICES ASSUME NEW o \in m_timers \ {t}
               PROVE  Before(t, o, m_next)
    BY DEF IsBegin
  <2>1. m_next[t] = d /\ m_next[o] >= d /\ t \in Nat /\ o \in Nat
        /\ m_next[o] \in Int /\ d \in Int
    BY <1>1, TimersAssumption, ClockAssumption
  <2>2. CASE m_next[o] = d
    BY <1>2, <2>1, <2>2 DEF Before
  <2>3. CASE m_next[o] # d
    BY <2>1, <2>3 DEF Before
  <2> QED
    BY <2>2, <2>3
<1>4. \E x \in m_timers : IsBegin(x, m_timers, m_next)
  BY <1>3
<1> QED
  BY <1>4 DEF begin

\* uint64_t arithmetic stays in range.
LEMMA Width ==
    ASSUME NEW a \in Int, NEW b \in Int
    PROVE  Add64(a, b) \in 0..(Wrap - 1) /\ Sub64(a, b) \in 0..(Wrap - 1)
BY ClockAssumption DEF Add64, Sub64

\* What getNextTimer returns is a number of milliseconds.
LEMMA TimeoutIsNumber == TypeOK => NextTimeout \in Int
<1> SUFFICES ASSUME TypeOK
             PROVE  NextTimeout \in Int
  OBVIOUS
<1>1. CASE m_timers = {}
  BY <1>1, ClockAssumption DEF NextTimeout
<1>2. CASE m_timers # {}
  <2>1. begin \in m_timers
    BY <1>2, BeginExists DEF TypeOK
  <2>2. m_next[begin] \in Int /\ now \in Int
    BY <2>1 DEF TypeOK
  <2> QED
    BY <1>2, <2>2, ClockAssumption DEF NextTimeout
<1> QED
  BY <1>1, <1>2

\* Arguments of a call.
LEMMA NoArgType ==
    NoArg \in [timer : Timers \cup {0}, ms : 0..(Wrap - 1), from_now : BOOLEAN]
BY ClockAssumption DEF NoArg

\* The constructor's state is well typed.
LEMMA InitTypeOK == Init => TypeOK
<1> SUFFICES ASSUME Init
             PROVE  TypeOK
  OBVIOUS
<1>1. 0 \in 0..(Wrap - 1) /\ 0 \in Int /\ Epoch \in Nat /\ Epoch \in Int /\ 0 \in Nat
  BY ClockAssumption
<1>2. uarg \in [Users -> [timer : Timers \cup {0}, ms : 0..(Wrap - 1), from_now : BOOLEAN]]
  BY NoArgType DEF Init
<1> QED
  BY <1>1, <1>2 DEF Init, TypeOK

\* The pollers that have not seen a timer.
LEMMA PlacedType ==
    ASSUME TypeOK, NEW S \in SUBSET Timers
    PROVE  Placed(S) \in [Pollers -> SUBSET Timers]
BY DEF TypeOK, Placed

\* The insertion that addTimer and reset share.
LEMMA InsertTypes ==
    ASSUME TypeOK, NEW u \in Users, NEW t \in Timers, NEW nx, InsertTimer(u, t, nx)
    PROVE  /\ m_timers' \subseteq Timers /\ m_tickled' \in BOOLEAN /\ handed' \subseteq Timers
           /\ unseen' \in [Pollers -> SUBSET Timers]
           /\ upc' \in [Users -> {"ready", "insert", "reset", "front", "write"}]
           /\ uarg' \in [Users -> [timer : Timers \cup {0}, ms : 0..(Wrap - 1),
                                   from_now : BOOLEAN]]
<1>1. at_front(t, nx) \in BOOLEAN
  BY DEF at_front, IsBegin
<1>2. m_timers' \subseteq Timers /\ handed' \subseteq Timers
  BY DEF TypeOK, InsertTimer
<1>3. m_tickled' \in BOOLEAN
  BY <1>1 DEF TypeOK, InsertTimer
<1>4. upc' \in [Users -> {"ready", "insert", "reset", "front", "write"}]
  BY DEF TypeOK, InsertTimer
<1>5. unseen' \in [Pollers -> SUBSET Timers]
  BY PlacedType DEF InsertTimer
<1>6. CASE at_front(t, nx)
  BY <1>2, <1>3, <1>4, <1>5, <1>6 DEF TypeOK, InsertTimer
<1>7. CASE ~at_front(t, nx)
  BY <1>2, <1>3, <1>4, <1>5, <1>7, NoArgType DEF TypeOK, InsertTimer
<1> QED
  BY <1>6, <1>7

(***************************************************************************)
(* What ties the set, the callbacks, the calls in progress and the timers  *)
(* that callers hold together.  A timer is in the set only with its        *)
(* callback; a callback is outside the set only between the constructor    *)
(* and the insertion of its own addTimer; no other call can have that      *)
(* timer yet, and it never fired; a one-shot timer that fired is out.      *)
(***************************************************************************)
InSetHasCallback == \A t \in m_timers : m_cb[t]

CallbackIsPlaced ==
    \A t \in Timers : m_cb[t] =>
        t \in m_timers \/ \E u \in Users : upc[u] = "insert" /\ uarg[u].timer = t

InsertIsPrivate ==
    \A u \in Users : upc[u] = "insert" =>
        /\ uarg[u].timer \notin m_timers /\ uarg[u].timer \notin handed
        /\ uarg[u].timer \notin fired /\ m_cb[uarg[u].timer]
        /\ \A v \in Users \ {u} : upc[v] = "ready" \/ uarg[v].timer # uarg[u].timer

CallsHaveTimer ==
    \A u \in Users : /\ upc[u] # "ready" => uarg[u].timer \in Timers
                     /\ upc[u] = "reset" => uarg[u].timer \in handed

FiredIsRecurring == \A t \in fired : t \in m_timers => m_recurring[t]

Structure == /\ InSetHasCallback /\ CallbackIsPlaced /\ InsertIsPrivate
             /\ CallsHaveTimer /\ FiredIsRecurring

IInv == TypeOK /\ Structure

\* An empty set of timers has the structure trivially.
LEMMA InitIInv == Init => IInv
<1> SUFFICES ASSUME Init
             PROVE  IInv
  OBVIOUS
<1>1. TypeOK
  BY InitTypeOK
<1> QED
  BY <1>1 DEF Init, IInv, Structure, InSetHasCallback, CallbackIsPlaced, InsertIsPrivate,
              CallsHaveTimer, FiredIsRecurring

\* Structure is about these variables only.
LEMMA StructureUnchanged ==
    ASSUME Structure, UNCHANGED <<m_timers, m_cb, m_recurring, userVars, fired>>
    PROVE  Structure'
BY DEF Structure, InSetHasCallback, CallbackIsPlaced, InsertIsPrivate, CallsHaveTimer,
       FiredIsRecurring, userVars

\* addTimer, addConditionTimer.
LEMMA NewTimerIInv ==
    ASSUME IInv, NEW u \in Users, NewTimer(u)
    PROVE  IInv'
<1> USE DEF IInv
<1>1. PICK t \in Timers, ms \in Periods, recurring \in BOOLEAN :
        /\ upc[u] = "ready" /\ Fresh(t)
        /\ m_ms' = [m_ms EXCEPT ![t] = ms]
        /\ m_cb' = [m_cb EXCEPT ![t] = TRUE]
        /\ m_recurring' = [m_recurring EXCEPT ![t] = recurring]
        /\ m_next' = [m_next EXCEPT ![t] = Add64(now, ms)]
        /\ due' = [due EXCEPT ![t] = elapsed + ms]
        /\ upc' = [upc EXCEPT ![u] = "insert"]
        /\ uarg' = [uarg EXCEPT ![u] = [timer |-> t, ms |-> ms, from_now |-> TRUE]]
        /\ UNCHANGED <<clockVars, m_timers, m_tickled, m_previousTime, handed,
                       pollVars, wake, fired, unseen>>
  BY DEF NewTimer, MayCall
<1>2. ms \in 0..(Wrap - 1) /\ ms \in Int /\ elapsed + ms \in Int
  BY ClockAssumption DEF TypeOK, elapsed
<1>3. Add64(now, ms) \in 0..(Wrap - 1)
  <2>1. now \in Int
    BY DEF TypeOK
  <2> QED
    BY <1>2, <2>1, Width
<1>4. TypeOK'
  <2>1. [timer |-> t, ms |-> ms, from_now |-> TRUE]
          \in [timer : Timers \cup {0}, ms : 0..(Wrap - 1), from_now : BOOLEAN]
    BY <1>2
  <2>2. uarg' \in [Users -> [timer : Timers \cup {0}, ms : 0..(Wrap - 1),
                            from_now : BOOLEAN]]
    BY <1>1, <2>1 DEF TypeOK
  <2>3. m_ms' \in [Timers -> 0..(Wrap - 1)] /\ m_next' \in [Timers -> 0..(Wrap - 1)]
        /\ due' \in [Timers -> Int]
    BY <1>1, <1>2, <1>3 DEF TypeOK
  <2>4. m_cb' \in [Timers -> BOOLEAN] /\ m_recurring' \in [Timers -> BOOLEAN]
        /\ upc' \in [Users -> {"ready", "insert", "reset", "front", "write"}]
    BY <1>1 DEF TypeOK
  <2> QED
    BY <1>1, <2>2, <2>3, <2>4 DEF TypeOK, clockVars, pollVars
<1>5. \A v \in Users : /\ upc'[v] = IF v = u THEN "insert" ELSE upc[v]
                       /\ v = u => uarg'[v].timer = t
                       /\ v # u => uarg'[v] = uarg[v]
  BY <1>1 DEF TypeOK
<1>6. t \notin m_timers /\ t \notin handed /\ t \notin fired /\ ~m_cb[t]
      /\ \A v \in Users : upc[v] = "ready" \/ uarg[v].timer # t
  BY <1>1 DEF Fresh
<1>7. InSetHasCallback' /\ FiredIsRecurring'
  BY <1>1, <1>6 DEF Structure, InSetHasCallback, FiredIsRecurring, TypeOK
<1>8. CallbackIsPlaced'
  <2> SUFFICES ASSUME NEW x \in Timers, m_cb'[x], x \notin m_timers'
               PROVE  \E v \in Users : upc'[v] = "insert" /\ uarg'[v].timer = x
    BY DEF CallbackIsPlaced
  <2>1. CASE x = t
    BY <1>5, <2>1
  <2>2. CASE x # t
    <3>1. PICK v \in Users : upc[v] = "insert" /\ uarg[v].timer = x
      BY <1>1, <2>2 DEF Structure, CallbackIsPlaced, TypeOK
    <3>2. v # u
      BY <1>1, <3>1
    <3> QED
      BY <1>5, <3>1, <3>2
  <2> QED
    BY <2>1, <2>2
<1>9. InsertIsPrivate' /\ CallsHaveTimer'
  BY <1>1, <1>5, <1>6 DEF Structure, InsertIsPrivate, CallsHaveTimer, TypeOK
<1> QED
  BY <1>4, <1>7, <1>8, <1>9 DEF Structure

\* addTimer inserts: the timer is placed now, and nobody else has it.
LEMMA AddTimerIInv ==
    ASSUME IInv, NEW u \in Users, AddTimer(u)
    PROVE  IInv'
<1> USE DEF IInv
<1> DEFINE t == uarg[u].timer
<1>0. upc[u] = "insert" /\ InsertTimer(u, t, m_next) /\ t \in Timers
      /\ UNCHANGED <<clockVars, m_ms, m_cb, m_recurring, m_next, m_previousTime,
                     pollVars, wake, due, fired>>
  BY DEF AddTimer, Structure, CallsHaveTimer
<1>1. TypeOK'
  BY <1>0, InsertTypes DEF TypeOK, clockVars, pollVars
<1>2. m_timers' = m_timers \cup {t} /\ handed \subseteq handed' /\ handed' \subseteq handed \cup {t}
      /\ UNCHANGED <<m_cb, m_recurring, fired>>
  BY <1>0 DEF InsertTimer
<1>3. /\ upc'[u] \in {"front", "ready"} /\ (upc'[u] = "front" => uarg'[u] = uarg[u])
      /\ \A v \in Users \ {u} : upc'[v] = upc[v] /\ uarg'[v] = uarg[v]
  <2>1. CASE at_front(t, m_next)
    BY <1>0, <2>1 DEF InsertTimer, TypeOK
  <2>2. CASE ~at_front(t, m_next)
    BY <1>0, <2>2 DEF InsertTimer, TypeOK
  <2> QED
    BY <2>1, <2>2
<1>4. t \notin fired /\ m_cb[t]
      /\ \A v \in Users \ {u} : upc[v] = "ready" \/ uarg[v].timer # t
  BY <1>0 DEF Structure, InsertIsPrivate
<1> HIDE DEF t
<1>5. InSetHasCallback' /\ FiredIsRecurring'
  BY <1>2, <1>4 DEF Structure, InSetHasCallback, FiredIsRecurring
<1>6. CallbackIsPlaced'
  <2> SUFFICES ASSUME NEW x \in Timers, m_cb'[x], x \notin m_timers'
               PROVE  \E v \in Users : upc'[v] = "insert" /\ uarg'[v].timer = x
    BY DEF CallbackIsPlaced
  <2>1. PICK v \in Users : upc[v] = "insert" /\ uarg[v].timer = x
    BY <1>2 DEF Structure, CallbackIsPlaced
  <2>2. v # u
    BY <1>2, <2>1 DEF t
  <2> QED
    BY <1>3, <2>1, <2>2
<1>7. InsertIsPrivate'
  <2> SUFFICES ASSUME NEW v \in Users, upc'[v] = "insert"
               PROVE  /\ uarg'[v].timer \notin m_timers' /\ uarg'[v].timer \notin handed'
                      /\ uarg'[v].timer \notin fired' /\ m_cb'[uarg'[v].timer]
                      /\ \A w \in Users \ {v} :
                            upc'[w] = "ready" \/ uarg'[w].timer # uarg'[v].timer
    BY DEF InsertIsPrivate
  <2>1. v # u /\ upc[v] = "insert" /\ uarg'[v] = uarg[v]
    BY <1>3
  <2>2. uarg[v].timer # t
    BY <1>4, <2>1
  <2>3. /\ uarg[v].timer \notin m_timers /\ uarg[v].timer \notin handed
        /\ uarg[v].timer \notin fired /\ m_cb[uarg[v].timer]
        /\ \A w \in Users \ {v} : upc[w] = "ready" \/ uarg[w].timer # uarg[v].timer
    BY <2>1 DEF Structure, InsertIsPrivate
  <2>4. ASSUME NEW w \in Users \ {v}
        PROVE  upc'[w] = "ready" \/ uarg'[w].timer # uarg'[v].timer
    BY <1>3, <2>1, <2>2, <2>3 DEF t
  <2> QED
    BY <1>2, <2>1, <2>2, <2>3, <2>4
<1>8. CallsHaveTimer'
  BY <1>0, <1>2, <1>3 DEF Structure, CallsHaveTimer, t
<1> QED
  BY <1>1, <1>5, <1>6, <1>7, <1>8 DEF Structure

\* The caller of addTimer gets its pointer.
LEMMA CallReturnsIInv ==
    ASSUME IInv, NEW u \in Users, upc[u] \in {"front", "write"}, CallReturns(u),
           wake' \in BOOLEAN,
           UNCHANGED <<clockVars, timerVars, m_tickled, m_previousTime, pollVars, history>>
    PROVE  IInv'
<1> USE DEF IInv
<1> DEFINE t == uarg[u].timer
<1>0. upc[u] \in {"front", "write"} /\ t \in Timers
  BY DEF Structure, CallsHaveTimer
<1>1. /\ handed' = handed \cup {t}
      /\ UNCHANGED <<m_timers, m_cb, m_recurring, fired>>
      /\ upc'[u] = "ready"
      /\ \A v \in Users \ {u} : upc'[v] = upc[v] /\ uarg'[v] = uarg[v]
  BY DEF CallReturns, timerVars, history, TypeOK
<1>2. TypeOK'
  <2>1. uarg' \in [Users -> [timer : Timers \cup {0}, ms : 0..(Wrap - 1),
                            from_now : BOOLEAN]]
    BY NoArgType DEF CallReturns, TypeOK
  <2>2. upc' \in [Users -> {"ready", "insert", "reset", "front", "write"}]
    BY DEF CallReturns, TypeOK
  <2> QED
    BY <1>0, <1>1, <2>1, <2>2
    DEF TypeOK, clockVars, timerVars, pollVars, history
<1> HIDE DEF t
<1>3. InSetHasCallback' /\ FiredIsRecurring' /\ CallsHaveTimer'
  BY <1>1 DEF Structure, InSetHasCallback, FiredIsRecurring, CallsHaveTimer
<1>4. CallbackIsPlaced'
  <2> SUFFICES ASSUME NEW x \in Timers, m_cb'[x], x \notin m_timers'
               PROVE  \E v \in Users : upc'[v] = "insert" /\ uarg'[v].timer = x
    BY DEF CallbackIsPlaced
  <2>1. PICK v \in Users : upc[v] = "insert" /\ uarg[v].timer = x
    BY <1>1 DEF Structure, CallbackIsPlaced
  <2> QED
    BY <1>0, <1>1, <2>1
<1>5. InsertIsPrivate'
  <2> SUFFICES ASSUME NEW v \in Users, upc'[v] = "insert"
               PROVE  /\ uarg'[v].timer \notin m_timers' /\ uarg'[v].timer \notin handed'
                      /\ uarg'[v].timer \notin fired' /\ m_cb'[uarg'[v].timer]
                      /\ \A w \in Users \ {v} :
                            upc'[w] = "ready" \/ uarg'[w].timer # uarg'[v].timer
    BY DEF InsertIsPrivate
  <2>1. v # u /\ upc[v] = "insert" /\ uarg'[v] = uarg[v]
    BY <1>1
  <2>2. /\ uarg[v].timer \notin m_timers /\ uarg[v].timer \notin handed
        /\ uarg[v].timer \notin fired /\ m_cb[uarg[v].timer]
        /\ \A w \in Users \ {v} : upc[w] = "ready" \/ uarg[w].timer # uarg[v].timer
    BY <2>1 DEF Structure, InsertIsPrivate
  <2>3. uarg[v].timer # t
    BY <1>0, <2>1, <2>2 DEF t
  <2> QED
    BY <1>1, <2>1, <2>2, <2>3
<1> QED
  BY <1>2, <1>3, <1>4, <1>5 DEF Structure

\* tickle() finds idle threads, or goes on to write.
LEMMA OnFrontIInv ==
    ASSUME IInv, NEW u \in Users, OnTimerInsertdAtFront(u)
    PROVE  IInv'
<1>1. /\ upc[u] = "front" /\ wake' = wake /\ wake \in BOOLEAN
      /\ UNCHANGED <<clockVars, timerVars, m_tickled, m_previousTime, pollVars, history>>
  BY DEF OnTimerInsertdAtFront, IInv, TypeOK
<1>2. CASE CallReturns(u)
  BY <1>1, <1>2, CallReturnsIInv
<1>3. CASE upc' = [upc EXCEPT ![u] = "write"] /\ UNCHANGED <<handed, uarg>>
  <2>1. /\ upc' \in [Users -> {"ready", "insert", "reset", "front", "write"}]
        /\ upc'[u] = "write" /\ \A v \in Users \ {u} : upc'[v] = upc[v]
    BY <1>3 DEF IInv, TypeOK
  <2>2. TypeOK'
    BY <1>1, <1>3, <2>1 DEF IInv, TypeOK, clockVars, timerVars, pollVars, history
  <2>3. UNCHANGED <<m_timers, m_cb, m_recurring, handed, fired, uarg>>
    BY <1>1, <1>3 DEF timerVars, history
  <2>4. InSetHasCallback' /\ FiredIsRecurring' /\ CallsHaveTimer'
    BY <1>1, <2>1, <2>3 DEF IInv, Structure, InSetHasCallback, FiredIsRecurring, CallsHaveTimer
  <2>5. CallbackIsPlaced'
    BY <1>1, <2>1, <2>3 DEF IInv, Structure, CallbackIsPlaced
  <2>6. InsertIsPrivate'
    <3>1. \A v \in Users : /\ upc'[v] = "insert" <=> upc[v] = "insert"
                           /\ upc'[v] = "ready" <=> upc[v] = "ready"
      BY <1>1, <2>1
    <3> QED
      BY <2>3, <3>1 DEF IInv, Structure, InsertIsPrivate
  <2> QED
    BY <2>2, <2>4, <2>5, <2>6 DEF IInv, Structure
<1> QED
  BY <1>2, <1>3 DEF OnTimerInsertdAtFront

\* tickle() writes to the pipe.
LEMMA TickleIInv ==
    ASSUME IInv, NEW u \in Users, Tickle(u)
    PROVE  IInv'
BY CallReturnsIInv DEF Tickle

\* Timer::cancel.
LEMMA CancelIInv ==
    ASSUME IInv, NEW u \in Users, Cancel(u)
    PROVE  IInv'
<1> USE DEF IInv
<1>1. PICK t \in handed :
        /\ m_cb' = [m_cb EXCEPT ![t] = FALSE] /\ m_timers' = m_timers \ {t}
        /\ UNCHANGED <<clockVars, m_ms, m_recurring, m_next, m_tickled,
                       m_previousTime, userVars, pollVars, wake, history>>
  BY DEF Cancel
<1>2. TypeOK'
  BY <1>1 DEF TypeOK, clockVars, userVars, pollVars, history
<1>3. InSetHasCallback' /\ FiredIsRecurring' /\ CallsHaveTimer'
  BY <1>1 DEF Structure, InSetHasCallback, FiredIsRecurring, CallsHaveTimer, userVars,
              history, TypeOK
<1>4. CallbackIsPlaced'
  BY <1>1 DEF Structure, CallbackIsPlaced, userVars, TypeOK
<1>5. InsertIsPrivate'
  <2>1. \A v \in Users : upc[v] = "insert" =>
            uarg[v].timer # t /\ m_cb'[uarg[v].timer] = m_cb[uarg[v].timer]
    <3> SUFFICES ASSUME NEW v \in Users, upc[v] = "insert"
                 PROVE  uarg[v].timer # t /\ m_cb'[uarg[v].timer] = m_cb[uarg[v].timer]
      OBVIOUS
    <3>1. uarg[v].timer \in Timers /\ uarg[v].timer # t
      BY <1>1 DEF Structure, InsertIsPrivate, CallsHaveTimer
    <3> QED
      BY <1>1, <3>1 DEF TypeOK
  <2> QED
    BY <1>1, <2>1 DEF Structure, InsertIsPrivate, userVars, history
<1> QED
  BY <1>2, <1>3, <1>4, <1>5 DEF Structure

\* Timer::refresh.
LEMMA RefreshIInv ==
    ASSUME IInv, NEW u \in Users, Refresh(u)
    PROVE  IInv'
<1> USE DEF IInv
<1>1. PICK t \in handed :
        /\ m_next' = [m_next EXCEPT ![t] = Add64(now, m_ms[t])]
        /\ due' = [due EXCEPT ![t] = elapsed + m_ms[t]]
        /\ unseen' = Placed({t})
        /\ UNCHANGED <<clockVars, m_timers, m_ms, m_cb, m_recurring, m_tickled,
                       m_previousTime, userVars, pollVars, wake, fired>>
  BY DEF Refresh
<1>2. now \in Int /\ m_ms[t] \in Int /\ elapsed + m_ms[t] \in Int /\ t \in Timers
  BY ClockAssumption DEF TypeOK, elapsed
<1>3. Add64(now, m_ms[t]) \in 0..(Wrap - 1)
  BY <1>2, Width
<1>4. m_next' \in [Timers -> 0..(Wrap - 1)] /\ due' \in [Timers -> Int]
      /\ unseen' \in [Pollers -> SUBSET Timers]
  BY <1>1, <1>2, <1>3, PlacedType DEF TypeOK
<1>5. TypeOK'
  BY <1>1, <1>4 DEF TypeOK, clockVars, userVars, pollVars
<1> QED
  BY <1>1, <1>5, StructureUnchanged

\* Timer::reset up to its lock.
LEMMA ResetCallIInv ==
    ASSUME IInv, NEW u \in Users, ResetCall(u)
    PROVE  IInv'
<1> USE DEF IInv
<1>1. PICK t \in handed, ms \in Periods, from_now \in BOOLEAN :
        /\ upc[u] = "ready"
        /\ upc' = [upc EXCEPT ![u] = "reset"]
        /\ uarg' = [uarg EXCEPT ![u] = [timer |-> t, ms |-> ms, from_now |-> from_now]]
        /\ UNCHANGED <<clockVars, timerVars, m_tickled, m_previousTime, handed,
                       pollVars, wake, history>>
  BY DEF ResetCall, MayCall
<1>2. [timer |-> t, ms |-> ms, from_now |-> from_now]
        \in [timer : Timers \cup {0}, ms : 0..(Wrap - 1), from_now : BOOLEAN]
  <2>1. ms \in 0..(Wrap - 1) /\ t \in Timers
    BY ClockAssumption DEF TypeOK
  <2> QED
    BY <2>1
<1>3. uarg' \in [Users -> [timer : Timers \cup {0}, ms : 0..(Wrap - 1), from_now : BOOLEAN]]
      /\ upc' \in [Users -> {"ready", "insert", "reset", "front", "write"}]
  BY <1>1, <1>2 DEF TypeOK
<1>4. TypeOK'
  BY <1>1, <1>3 DEF TypeOK, clockVars, timerVars, pollVars, history
<1>5. \A v \in Users : /\ upc'[v] = IF v = u THEN "reset" ELSE upc[v]
                       /\ v = u => uarg'[v].timer = t
                       /\ v # u => uarg'[v] = uarg[v]
  BY <1>1 DEF TypeOK
<1>6. UNCHANGED <<m_timers, m_cb, m_recurring, handed, fired>>
  BY <1>1 DEF timerVars, history
<1>7. InSetHasCallback' /\ FiredIsRecurring'
  BY <1>6 DEF Structure, InSetHasCallback, FiredIsRecurring
<1>8. CallsHaveTimer'
  BY <1>5, <1>6 DEF Structure, CallsHaveTimer, TypeOK
<1>9. CallbackIsPlaced'
  <2> SUFFICES ASSUME NEW x \in Timers, m_cb'[x], x \notin m_timers'
               PROVE  \E v \in Users : upc'[v] = "insert" /\ uarg'[v].timer = x
    BY DEF CallbackIsPlaced
  <2>1. PICK v \in Users : upc[v] = "insert" /\ uarg[v].timer = x
    BY <1>6 DEF Structure, CallbackIsPlaced
  <2> QED
    BY <1>1, <1>5, <2>1
<1>10. InsertIsPrivate'
  <2> SUFFICES ASSUME NEW v \in Users, upc'[v] = "insert"
               PROVE  /\ uarg'[v].timer \notin m_timers' /\ uarg'[v].timer \notin handed'
                      /\ uarg'[v].timer \notin fired' /\ m_cb'[uarg'[v].timer]
                      /\ \A w \in Users \ {v} :
                            upc'[w] = "ready" \/ uarg'[w].timer # uarg'[v].timer
    BY DEF InsertIsPrivate
  <2>1. v # u /\ upc[v] = "insert" /\ uarg'[v] = uarg[v]
    BY <1>5
  <2>2. /\ uarg[v].timer \notin m_timers /\ uarg[v].timer \notin handed
        /\ uarg[v].timer \notin fired /\ m_cb[uarg[v].timer]
        /\ \A w \in Users \ {v} : upc[w] = "ready" \/ uarg[w].timer # uarg[v].timer
    BY <2>1 DEF Structure, InsertIsPrivate
  <2>3. uarg[v].timer # t
    BY <2>2
  <2> QED
    BY <1>5, <1>6, <2>1, <2>2, <2>3
<1> QED
  BY <1>4, <1>7, <1>8, <1>9, <1>10 DEF Structure

\* A call that ends or moves on to its tail, for a timer that is in the set
\* or already in its caller's hands, disturbs nothing.
LEMMA CallGoesOn ==
    ASSUME TypeOK, Structure, NEW u \in Users, upc[u] = "reset",
           UNCHANGED <<m_timers, m_cb, m_recurring, handed, fired>>,
           upc'[u] \in {"ready", "front"}, upc'[u] = "front" => uarg'[u] = uarg[u],
           \A v \in Users \ {u} : upc'[v] = upc[v] /\ uarg'[v] = uarg[v]
    PROVE  Structure'
<1>1. InSetHasCallback' /\ FiredIsRecurring'
  BY DEF Structure, InSetHasCallback, FiredIsRecurring
<1>2. CallsHaveTimer'
  <2> SUFFICES ASSUME NEW v \in Users
               PROVE  /\ upc'[v] # "ready" => uarg'[v].timer \in Timers
                      /\ upc'[v] = "reset" => uarg'[v].timer \in handed'
    BY DEF CallsHaveTimer
  <2>1. /\ upc[v] # "ready" => uarg[v].timer \in Timers
        /\ upc[v] = "reset" => uarg[v].timer \in handed
    BY DEF Structure, CallsHaveTimer
  <2>2. CASE v = u
    BY <2>1, <2>2
  <2>3. CASE v # u
    BY <2>1, <2>3
  <2> QED
    BY <2>2, <2>3
<1>3. CallbackIsPlaced'
  <2> SUFFICES ASSUME NEW x \in Timers, m_cb'[x], x \notin m_timers'
               PROVE  \E v \in Users : upc'[v] = "insert" /\ uarg'[v].timer = x
    BY DEF CallbackIsPlaced
  <2>1. PICK v \in Users : upc[v] = "insert" /\ uarg[v].timer = x
    BY DEF Structure, CallbackIsPlaced
  <2>2. v # u
    BY <2>1
  <2> QED
    BY <2>1, <2>2
<1>4. InsertIsPrivate'
  <2> SUFFICES ASSUME NEW v \in Users, upc'[v] = "insert"
               PROVE  /\ uarg'[v].timer \notin m_timers' /\ uarg'[v].timer \notin handed'
                      /\ uarg'[v].timer \notin fired' /\ m_cb'[uarg'[v].timer]
                      /\ \A w \in Users \ {v} :
                            upc'[w] = "ready" \/ uarg'[w].timer # uarg'[v].timer
    BY DEF InsertIsPrivate
  <2>1. v # u /\ upc[v] = "insert" /\ uarg'[v] = uarg[v]
    OBVIOUS
  <2>2. /\ uarg[v].timer \notin m_timers /\ uarg[v].timer \notin handed
        /\ uarg[v].timer \notin fired /\ m_cb[uarg[v].timer]
        /\ \A w \in Users \ {v} : upc[w] = "ready" \/ uarg[w].timer # uarg[v].timer
    BY <2>1 DEF Structure, InsertIsPrivate
  <2>3. ASSUME NEW w \in Users \ {v}
        PROVE  upc'[w] = "ready" \/ uarg'[w].timer # uarg'[v].timer
    BY <2>1, <2>2
  <2> QED
    BY <2>1, <2>2, <2>3
<1> QED
  BY <1>1, <1>2, <1>3, <1>4 DEF Structure

\* Timer::reset that re-inserts its timer.
LEMMA ResetIInv ==
    ASSUME IInv, NEW u \in Users, Reset(u)
    PROVE  IInv'
<1> USE DEF IInv
<1> DEFINE t == uarg[u].timer
           start == IF uarg[u].from_now THEN now ELSE Sub64(m_next[t], m_ms[t])
<1>1. /\ upc[u] = "reset" /\ t \in m_timers
      /\ m_ms' = [m_ms EXCEPT ![t] = uarg[u].ms]
      /\ m_next' = [m_next EXCEPT ![t] = Add64(start, uarg[u].ms)]
      /\ due' = [due EXCEPT ![t] = IF uarg[u].from_now THEN elapsed + uarg[u].ms
                                   ELSE due[t] - m_ms[t] + uarg[u].ms]
      /\ InsertTimer(u, t, m_next')
      /\ UNCHANGED <<clockVars, m_cb, m_recurring, m_previousTime, pollVars, wake, fired>>
  BY DEF Reset
<1>2. t \in Timers /\ t \in handed
  BY <1>1 DEF Structure, CallsHaveTimer
<1>3. /\ uarg[u].ms \in 0..(Wrap - 1) /\ uarg[u].ms \in Int
      /\ now \in Int /\ setback \in Int /\ m_next[t] \in Int /\ m_ms[t] \in Int
      /\ due[t] \in Int
  BY <1>2, ClockAssumption DEF TypeOK
<1>4. start \in Int
  <2>1. Sub64(m_next[t], m_ms[t]) \in 0..(Wrap - 1)
    <3> HIDE DEF t
    <3> QED
      BY <1>3, Width
  <2>2. Sub64(m_next[t], m_ms[t]) \in Int
    BY <2>1, ClockAssumption
  <2> QED
    BY <1>3, <2>2
<1>5. Add64(start, uarg[u].ms) \in 0..(Wrap - 1)
  <2> HIDE DEF start
  <2> QED
    BY <1>3, <1>4, Width
<1>6. /\ m_ms' \in [Timers -> 0..(Wrap - 1)] /\ m_next' \in [Timers -> 0..(Wrap - 1)]
      /\ due' \in [Timers -> Int]
  <2> HIDE DEF t, start
  <2> QED
    BY <1>1, <1>2, <1>3, <1>5 DEF TypeOK, elapsed
<1>7. TypeOK'
  <2> HIDE DEF t, start
  <2> QED
    BY <1>1, <1>2, <1>6, InsertTypes DEF TypeOK, clockVars, pollVars
<1>8. /\ UNCHANGED <<m_timers, m_cb, m_recurring, handed, fired>>
      /\ upc'[u] \in {"ready", "front"} /\ (upc'[u] = "front" => uarg'[u] = uarg[u])
      /\ \A v \in Users \ {u} : upc'[v] = upc[v] /\ uarg'[v] = uarg[v]
  <2> HIDE DEF start
  <2>1. m_timers' = m_timers
    BY <1>1 DEF InsertTimer
  <2>2. CASE at_front(t, m_next')
    BY <1>1, <2>1, <2>2 DEF InsertTimer, TypeOK
  <2>3. CASE ~at_front(t, m_next')
    BY <1>1, <1>2, <2>1, <2>3 DEF InsertTimer, TypeOK
  <2> QED
    BY <2>2, <2>3
<1>9. Structure'
  BY <1>1, <1>8, CallGoesOn
<1> QED
  BY <1>7, <1>9

\* Timer::reset that comes after its timer has fired.
LEMMA ResetTooLateIInv ==
    ASSUME IInv, NEW u \in Users, ResetTooLate(u)
    PROVE  IInv'
<1> USE DEF IInv
<1>1. /\ upc[u] = "reset"
      /\ upc' = [upc EXCEPT ![u] = "ready"]
      /\ uarg' = [uarg EXCEPT ![u] = NoArg]
      /\ UNCHANGED <<clockVars, timerVars, m_tickled, m_previousTime, handed,
                     pollVars, wake, history>>
  BY DEF ResetTooLate
<1>2. uarg' \in [Users -> [timer : Timers \cup {0}, ms : 0..(Wrap - 1), from_now : BOOLEAN]]
      /\ upc' \in [Users -> {"ready", "insert", "reset", "front", "write"}]
  BY <1>1, NoArgType DEF TypeOK
<1>3. TypeOK'
  BY <1>1, <1>2 DEF TypeOK, clockVars, timerVars, pollVars, history
<1>4. /\ UNCHANGED <<m_timers, m_cb, m_recurring, handed, fired>>
      /\ upc'[u] = "ready"
      /\ \A v \in Users \ {u} : upc'[v] = upc[v] /\ uarg'[v] = uarg[v]
  BY <1>1 DEF timerVars, history, TypeOK
<1> QED
  BY <1>1, <1>3, <1>4, CallGoesOn

\* listExpiredCb: what leaves the set for good loses its callback, and only
\* timers of the set are touched.
LEMMA ListExpiredIInv ==
    ASSUME IInv, NEW p \in Pollers, ListExpiredCb(p)
    PROVE  IInv'
<1> USE DEF IInv
<1> DEFINE ms == now_ms[p]
           expired == Expired(ms)
           requeued == Requeued(expired)
<1>1. /\ m_previousTime' = IF m_timers = {} THEN m_previousTime ELSE ms
      /\ cbs' = [cbs EXCEPT ![p] = expired]
      /\ fired' = fired \cup expired
      /\ m_timers' = (m_timers \ expired) \cup requeued
      /\ m_cb' = CbAfter(expired)
      /\ m_next' = [t \in Timers |-> IF t \in requeued THEN Add64(ms, m_ms[t]) ELSE m_next[t]]
      /\ due' = [t \in Timers |-> IF t \in requeued THEN ms + setback + m_ms[t] ELSE due[t]]
      /\ ppc' = [ppc EXCEPT ![p] = "yield"] /\ unseen' = Placed(requeued)
      /\ now_ms' = [now_ms EXCEPT ![p] = 0] /\ readAt' = [readAt EXCEPT ![p] = 0]
      /\ UNCHANGED <<clockVars, m_ms, m_recurring, m_tickled, userVars, deadline, drains, wake>>
  BY DEF ListExpiredCb, NextAfter
<1>2. expired \subseteq m_timers /\ requeued = {t \in expired : m_recurring[t]}
      /\ m_timers \subseteq Timers
  BY DEF Expired, Requeued, TypeOK
<1>3. ms \in Int
  BY DEF TypeOK
<1> HIDE DEF ms, expired, requeued
<1>4. m_cb' = [t \in Timers |-> m_cb[t] /\ (t \in expired => m_recurring[t])]
  BY <1>1 DEF CbAfter
<1>5. TypeOK'
  <2>1. \A t \in Timers : Add64(ms, m_ms[t]) \in 0..(Wrap - 1)
    <3> SUFFICES ASSUME NEW t \in Timers
                 PROVE  Add64(ms, m_ms[t]) \in 0..(Wrap - 1)
      OBVIOUS
    <3>1. m_ms[t] \in Int
      BY ClockAssumption DEF TypeOK
    <3> QED
      BY <1>3, <3>1, Width
  <2>2. m_next' \in [Timers -> 0..(Wrap - 1)]
    BY <1>1, <2>1 DEF TypeOK
  <2>3. due' \in [Timers -> Int]
    <3>1. \A t \in Timers : ms + setback + m_ms[t] \in Int
      BY <1>3, ClockAssumption DEF TypeOK
    <3> QED
      BY <1>1, <3>1 DEF TypeOK
  <2>4. m_cb' \in [Timers -> BOOLEAN]
    BY <1>4
  <2>5. m_previousTime' \in Int /\ now_ms' \in [Pollers -> Int] /\ readAt' \in [Pollers -> Int]
    BY <1>1, <1>3 DEF TypeOK
  <2>6. /\ m_timers' \subseteq Timers /\ fired' \subseteq Timers
        /\ cbs' \in [Pollers -> SUBSET Timers]
        /\ ppc' \in [Pollers -> {"run", "awake", "wait", "list", "lock", "yield"}]
    BY <1>1, <1>2 DEF TypeOK
  <2>7. unseen' \in [Pollers -> SUBSET Timers]
    BY <1>1, <1>2, PlacedType
  <2> QED
    BY <1>1, <2>2, <2>3, <2>4, <2>5, <2>6, <2>7 DEF TypeOK, clockVars, userVars
<1>6. UNCHANGED <<upc, uarg, handed, m_recurring>>
  BY <1>1 DEF userVars
<1>7. InSetHasCallback'
  BY <1>1, <1>2, <1>4 DEF Structure, InSetHasCallback
<1>8. CallbackIsPlaced'
  BY <1>1, <1>2, <1>4, <1>6 DEF Structure, CallbackIsPlaced
<1>9. InsertIsPrivate'
  <2>1. \A u \in Users : upc[u] = "insert" =>
          /\ uarg[u].timer \in Timers /\ uarg[u].timer \notin expired
          /\ uarg[u].timer \notin requeued
    BY <1>2 DEF Structure, InsertIsPrivate, CallsHaveTimer
  <2> QED
    BY <1>1, <1>4, <1>6, <2>1 DEF Structure, InsertIsPrivate
<1>10. CallsHaveTimer' /\ FiredIsRecurring'
  BY <1>1, <1>2, <1>6 DEF Structure, CallsHaveTimer, FiredIsRecurring
<1> QED
  BY <1>5, <1>7, <1>8, <1>9, <1>10 DEF Structure

\* The other steps of a poller only move it round its loop.
LEMMA PollerIInv ==
    ASSUME IInv, NEW p \in Pollers, PollerStep(p)
    PROVE  IInv'
<1> USE DEF IInv
<1>1. CASE GetNextTimer(p)
  <2>1. elapsed + NextTimeout \in Int
    BY TimeoutIsNumber DEF TypeOK, elapsed
  <2>2. deadline' \in [Pollers -> Int]
    BY <1>1, <2>1 DEF GetNextTimer, TypeOK
  <2>3. TypeOK'
    BY <1>1, <2>2 DEF GetNextTimer, TypeOK, clockVars, timerVars, userVars, history
  <2> QED
    BY <1>1, <2>3, StructureUnchanged DEF GetNextTimer, timerVars, history
<1>2. ASSUME Return(p), wake' \in BOOLEAN, drains' \subseteq Pollers
      PROVE  IInv'
  <2>1. now_ms' \in [Pollers -> Int] /\ deadline' \in [Pollers -> Int] /\ readAt' \in [Pollers -> Int]
    BY <1>2 DEF Return, TypeOK, elapsed
  <2>2. TypeOK'
    BY <1>2, <2>1 DEF Return, TypeOK, clockVars, timerVars, userVars
  <2> QED
    BY <1>2, <2>2, StructureUnchanged DEF Return, timerVars
<1>3. CASE TimeoutWake(p) \/ TickleWake(p) \/ EventWake(p)
  BY <1>2, <1>3 DEF TimeoutWake, TickleWake, EventWake, TypeOK
<1>4. CASE CheckTimers(p)
  <2>1. now_ms' \in [Pollers -> Int] /\ readAt' \in [Pollers -> Int]
    BY <1>4 DEF CheckTimers, TypeOK
  <2>2. ppc' \in [Pollers -> {"run", "awake", "wait", "list", "lock", "yield"}]
    BY <1>4 DEF CheckTimers, TypeOK
  <2>3. TypeOK'
    BY <1>4, <2>1, <2>2 DEF CheckTimers, TypeOK, clockVars, timerVars, userVars, history
  <2> QED
    BY <1>4, <2>3, StructureUnchanged DEF CheckTimers, timerVars, history
<1>5. CASE ListExpiredCb(p)
  BY <1>5, ListExpiredIInv
<1>6. CASE EnterIdle(p) \/ YieldToRun(p)
  <2>1. /\ ppc' \in [Pollers -> {"run", "awake", "wait", "list", "lock", "yield"}]
        /\ cbs' \in [Pollers -> SUBSET Timers] /\ drains' \subseteq Pollers
    BY <1>6 DEF EnterIdle, YieldToRun, TypeOK
  <2>2. wake' \in BOOLEAN
    BY <1>6 DEF EnterIdle, YieldToRun, TypeOK
  <2>3. UNCHANGED <<clockVars, timerVars, m_tickled, m_previousTime, userVars, deadline,
                    now_ms, readAt, history>>
    BY <1>6 DEF EnterIdle, YieldToRun
  <2>4. TypeOK'
    BY <2>1, <2>2, <2>3 DEF TypeOK, clockVars, timerVars, userVars, history
  <2> QED
    BY <2>3, <2>4, StructureUnchanged DEF timerVars, history
<1> QED
  BY <1>1, <1>3, <1>4, <1>5, <1>6 DEF PollerStep

\* Every step of every thread, and of the clock.
LEMMA NextIInv == IInv /\ [Next]_vars => IInv'
<1> SUFFICES ASSUME IInv, [Next]_vars
             PROVE  IInv'
  OBVIOUS
<1>1. CASE Tick \/ SetClockBack \/ UNCHANGED vars
  <2>1. now' \in Nat /\ setback' \in Nat
    <3>1. CASE SetClockBack
      BY <3>1, ClockAssumption DEF SetClockBack, IInv, TypeOK
    <3> QED
      BY <1>1, <3>1 DEF Tick, vars, clockVars, IInv, TypeOK
  <2>2. UNCHANGED <<timerVars, m_tickled, m_previousTime, userVars, pollVars, wake, history>>
    BY <1>1 DEF Tick, SetClockBack, vars
  <2>3. TypeOK'
    BY <2>1, <2>2 DEF IInv, TypeOK, timerVars, userVars, pollVars, history
  <2> QED
    BY <2>2, <2>3, StructureUnchanged DEF IInv, timerVars, history
<1>2. ASSUME NEW u \in Users, UserStep(u)
      PROVE  IInv'
  BY <1>2, NewTimerIInv, AddTimerIInv, OnFrontIInv, TickleIInv, CancelIInv, RefreshIInv, ResetCallIInv,
     ResetIInv, ResetTooLateIInv DEF UserStep
<1>3. ASSUME NEW p \in Pollers, PollerStep(p)
      PROVE  IInv'
  BY <1>3, PollerIInv
<1> QED
  BY <1>1, <1>2, <1>3 DEF Next

\* The inductive invariant holds in every reachable state.
LEMMA Invariance == Spec => []IInv
BY InitIInv, NextIInv, PTL DEF Spec

\* Types: the deadlines and periods of the timers stay uint64_t values
\* although Timer's constructor, reset and listExpiredCb add without a check.
THEOREM TypeCorrect == Spec => []TypeOK
<1>1. IInv => TypeOK
  BY DEF IInv
<1> QED
  BY <1>1, Invariance, PTL

\* Timer::cancel, refresh and reset find a timer that has a callback in the
\* set, whichever calls and expiries other threads interleave.
THEOREM CancelFindsTimerHolds == Spec => []CancelFindsTimer
<1>1. IInv => CancelFindsTimer
  BY DEF IInv, TypeOK, Structure, InSetHasCallback, CallbackIsPlaced, InsertIsPrivate,
         CancelFindsTimer
<1> QED
  BY <1>1, Invariance, PTL

\* Only listExpiredCb and the fiber that runs what it listed change the callbacks
\* a poller has in hand.
LEMMA HandsOver ==
    ASSUME Next, cbs' # cbs
    PROVE  \E q \in Pollers : ListExpiredCb(q) \/ YieldToRun(q)
<1>1. ~Tick /\ ~SetClockBack
  BY DEF Tick, SetClockBack, pollVars
<1>2. ASSUME NEW u \in Users, UserStep(u)
      PROVE  FALSE
  BY <1>2 DEF UserStep, NewTimer, AddTimer, OnTimerInsertdAtFront, Tickle, Cancel, Refresh,
              ResetCall, Reset, ResetTooLate, pollVars
<1>3. ASSUME NEW q \in Pollers, PollerStep(q)
      PROVE  ListExpiredCb(q) \/ YieldToRun(q)
  BY <1>3 DEF PollerStep, EnterIdle, GetNextTimer, TimeoutWake, TickleWake, EventWake, Return,
              CheckTimers, pollVars
<1> QED
  BY <1>1, <1>2, <1>3 DEF Next

\* listExpiredCb never collects a one-shot timer a second time, however many
\* threads run it with whatever clock readings.
THEOREM OneShotFiresOnceHolds == Spec => OneShotFiresOnce
<1> DEFINE Once == \A p \in Pollers : \A t \in cbs'[p] \ cbs[p] : t \in fired => m_recurring[t]
<1>1. IInv /\ [Next]_vars => [Once]_vars
  <2> SUFFICES ASSUME IInv, Next, NEW p \in Pollers, NEW t \in cbs'[p] \ cbs[p], t \in fired
               PROVE  m_recurring[t]
    OBVIOUS
  <2>1. PICK q \in Pollers : ListExpiredCb(q) \/ YieldToRun(q)
    BY HandsOver
  <2>2. CASE YieldToRun(q)
    BY <2>2 DEF YieldToRun, IInv, TypeOK
  <2>3. CASE ListExpiredCb(q)
    <3>1. t \in m_timers
      BY <2>3 DEF ListExpiredCb, Expired, IInv, TypeOK
    <3> QED
      BY <3>1 DEF IInv, Structure, FiredIsRecurring
  <2> QED
    BY <2>1, <2>2, <2>3
<1> QED
  BY <1>1, Invariance, PTL DEF Spec, OneShotFiresOnce

-----------------------------------------------------------------------------
(* How long the pollers block.                                             *)

\* What a blocked poller has seen ends its wait in time, and MaxWait ends it
\* in any case.
SleepInv ==
    \A p \in Pollers : ppc[p] = "wait" =>
        /\ deadline[p] <= elapsed + MaxWait
        /\ \A t \in m_timers \ unseen[p] :
              deadline[p] <= elapsed \/ deadline[p] <= m_next[t] + setback

\* The timeout that getNextTimer returns is no longer than the distance of any
\* timer, and no longer than MaxWait.
LEMMA NextTimeoutCovers ==
    ASSUME TypeOK
    PROVE  /\ elapsed + NextTimeout <= elapsed + MaxWait
           /\ \A t \in m_timers : \/ elapsed + NextTimeout <= elapsed
                                  \/ elapsed + NextTimeout <= m_next[t] + setback
<1>0. now \in Int /\ setback \in Int /\ elapsed = now + setback /\ MaxWait \in Nat
  BY ClockAssumption DEF TypeOK, elapsed
<1>1. CASE m_timers = {}
  BY <1>0, <1>1 DEF NextTimeout
<1>2. CASE m_timers # {}
  <2>1. begin \in m_timers /\ IsBegin(begin, m_timers, m_next)
    BY <1>2, BeginExists DEF TypeOK
  <2>2. m_next[begin] \in Int /\ \A t \in m_timers : m_next[t] \in Int
    BY <2>1, ClockAssumption DEF TypeOK
  <2>3. \A t \in m_timers : m_next[begin] <= m_next[t]
    BY <2>1, <2>2 DEF IsBegin, Before
  <2> QED
    BY <1>0, <1>2, <2>2, <2>3 DEF NextTimeout
<1> QED
  BY <1>1, <1>2

\* A step that blocks no poller, and puts the timers it places among those that
\* the blocked ones have not seen.
LEMMA SleepKept ==
    ASSUME TypeOK, TypeOK', SleepInv, elapsed <= elapsed', setback <= setback',
           \A p \in Pollers : ppc'[p] = "wait" =>
               /\ ppc[p] = "wait" /\ deadline'[p] = deadline[p]
               /\ \A t \in m_timers' \ unseen'[p] :
                      t \in m_timers \ unseen[p] /\ m_next'[t] = m_next[t]
    PROVE  SleepInv'
<1> SUFFICES ASSUME NEW p \in Pollers, ppc'[p] = "wait"
             PROVE  /\ deadline'[p] <= elapsed' + MaxWait
                    /\ \A t \in m_timers' \ unseen'[p] :
                          deadline'[p] <= elapsed' \/ deadline'[p] <= m_next'[t] + setback'
  BY DEF SleepInv
<1>1. /\ elapsed \in Int /\ elapsed' \in Int /\ setback \in Int /\ setback' \in Int
      /\ deadline[p] \in Int /\ MaxWait \in Int
  BY ClockAssumption DEF TypeOK, elapsed
<1>2. deadline[p] <= elapsed + MaxWait /\ deadline'[p] = deadline[p]
  BY DEF SleepInv
<1>3. ASSUME NEW t \in m_timers' \ unseen'[p]
      PROVE  deadline'[p] <= elapsed' \/ deadline'[p] <= m_next'[t] + setback'
  <2>1. /\ t \in m_timers \ unseen[p] /\ m_next'[t] = m_next[t]
        /\ deadline[p] <= elapsed \/ deadline[p] <= m_next[t] + setback
    BY <1>3 DEF SleepInv
  <2>2. m_next[t] \in Int
    BY <2>1, ClockAssumption DEF TypeOK
  <2> QED
    BY <1>1, <1>2, <2>1, <2>2
<1> QED
  BY <1>1, <1>2, <1>3

\* Every call that gives a timer a place tells the blocked pollers' unseen.
LEMMA UserSleep ==
    ASSUME IInv, IInv', SleepInv, NEW u \in Users, UserStep(u)
    PROVE  SleepInv'
<1> USE DEF IInv
<1>1. UNCHANGED <<clockVars, pollVars>>
  BY DEF UserStep, NewTimer, AddTimer, OnTimerInsertdAtFront, Tickle, Cancel, Refresh,
         ResetCall, Reset, ResetTooLate
<1>2. elapsed' = elapsed /\ setback' = setback /\ elapsed \in Int /\ setback \in Int
  BY <1>1 DEF clockVars, elapsed, TypeOK
<1>3. ASSUME NEW t \in Timers, m_timers' \subseteq m_timers \cup {t},
             \A o \in Timers \ {t} : m_next'[o] = m_next[o], unseen' = Placed({t})
      PROVE  SleepInv'
  <2>1. \A p \in Pollers : ppc[p] = "wait" => unseen'[p] = unseen[p] \cup {t}
    BY <1>3 DEF Placed
  <2>2. m_timers \subseteq Timers /\ m_timers' \subseteq Timers
    BY DEF TypeOK
  <2> QED
    BY <1>1, <1>2, <1>3, <2>1, <2>2, SleepKept DEF pollVars
<1>4. ASSUME m_timers' \subseteq m_timers, m_next' = m_next, unseen' = unseen
      PROVE  SleepInv'
  BY <1>1, <1>2, <1>4, SleepKept DEF pollVars
<1>5. CASE NewTimer(u)
  <2>1. PICK t \in Timers, ms \in Periods :
          /\ Fresh(t) /\ m_next' = [m_next EXCEPT ![t] = Add64(now, ms)]
          /\ UNCHANGED <<m_timers, unseen>>
    BY <1>5 DEF NewTimer
  <2>2. \A o \in m_timers : m_next'[o] = m_next[o]
    BY <2>1 DEF Fresh, TypeOK
  <2> QED
    BY <1>1, <1>2, <2>1, <2>2, SleepKept DEF pollVars
<1>6. CASE AddTimer(u)
  <2>1. uarg[u].timer \in Timers
    BY <1>6 DEF AddTimer, Structure, CallsHaveTimer
  <2> QED
    BY <1>3, <1>6, <2>1 DEF AddTimer, InsertTimer
<1>7. CASE OnTimerInsertdAtFront(u) \/ Tickle(u) \/ Cancel(u) \/ ResetCall(u) \/ ResetTooLate(u)
  BY <1>4, <1>7 DEF OnTimerInsertdAtFront, Tickle, Cancel, ResetCall, ResetTooLate,
                    timerVars, history
<1>8. CASE Refresh(u)
  <2>1. PICK t \in handed : /\ m_next' = [m_next EXCEPT ![t] = Add64(now, m_ms[t])]
                            /\ unseen' = Placed({t}) /\ m_timers' = m_timers
    BY <1>8 DEF Refresh
  <2>2. t \in Timers
    BY DEF TypeOK
  <2> QED
    BY <1>3, <2>1, <2>2 DEF TypeOK
<1>9. CASE Reset(u)
  <2>1. uarg[u].timer \in Timers
    BY <1>9 DEF Reset, Structure, CallsHaveTimer
  <2>2. m_timers' = m_timers \cup {uarg[u].timer} /\ unseen' = Placed({uarg[u].timer})
        /\ \A o \in Timers \ {uarg[u].timer} : m_next'[o] = m_next[o]
    BY <1>9, <2>1 DEF Reset, InsertTimer, TypeOK
  <2> QED
    BY <1>3, <2>1, <2>2
<1> QED
  BY <1>5, <1>6, <1>7, <1>8, <1>9 DEF UserStep

\* A poller that blocks has looked at every timer; the others stay or return.
LEMMA PollerSleep ==
    ASSUME IInv, IInv', SleepInv, NEW q \in Pollers, PollerStep(q)
    PROVE  SleepInv'
<1> USE DEF IInv
<1>1. UNCHANGED clockVars
  BY DEF PollerStep, EnterIdle, GetNextTimer, TimeoutWake, TickleWake, EventWake, Return,
         CheckTimers, ListExpiredCb, YieldToRun
<1>2. elapsed' = elapsed /\ setback' = setback /\ elapsed \in Int /\ setback \in Int
  BY <1>1 DEF clockVars, elapsed, TypeOK
<1>3. ASSUME UNCHANGED timerVars, ppc'[q] # "wait",
             \A p \in Pollers \ {q} : /\ ppc'[p] = ppc[p] /\ deadline'[p] = deadline[p]
                                      /\ unseen'[p] = unseen[p]
      PROVE  SleepInv'
  BY <1>2, <1>3, SleepKept DEF timerVars
<1>4. CASE EnterIdle(q) \/ CheckTimers(q) \/ YieldToRun(q)
  <2>1. UNCHANGED <<timerVars, deadline, unseen>> /\ ppc'[q] # "wait"
        /\ \A p \in Pollers \ {q} : ppc'[p] = ppc[p]
    BY <1>4 DEF EnterIdle, CheckTimers, YieldToRun, history, TypeOK
  <2> QED
    BY <1>3, <2>1
<1>5. CASE TimeoutWake(q) \/ TickleWake(q) \/ EventWake(q)
  <2>1. Return(q)
    BY <1>5 DEF TimeoutWake, TickleWake, EventWake
  <2>2. UNCHANGED timerVars /\ ppc'[q] # "wait"
        /\ \A p \in Pollers \ {q} : /\ ppc'[p] = ppc[p] /\ deadline'[p] = deadline[p]
                                    /\ unseen'[p] = unseen[p]
    BY <2>1 DEF Return, TypeOK
  <2> QED
    BY <1>3, <2>2
<1>6. CASE ListExpiredCb(q)
  <2> DEFINE requeued == Requeued(Expired(now_ms[q]))
  <2>1. /\ ppc[q] = "lock" /\ ppc' = [ppc EXCEPT ![q] = "yield"]
        /\ m_timers' = (m_timers \ Expired(now_ms[q])) \cup requeued
        /\ m_next' = NextAfter(now_ms[q], requeued)
        /\ unseen' = Placed(requeued) /\ deadline' = deadline
    BY <1>6 DEF ListExpiredCb
  <2> HIDE DEF requeued
  <2>2. \A p \in Pollers : ppc'[p] = "wait" => ppc[p] = "wait" /\ unseen'[p] = unseen[p] \cup requeued
    BY <2>1 DEF TypeOK, Placed
  <2>3. \A t \in m_timers' \ requeued : t \in m_timers /\ m_next'[t] = m_next[t]
    BY <2>1 DEF TypeOK, NextAfter
  <2> QED
    BY <1>2, <2>1, <2>2, <2>3, SleepKept
<1>7. CASE GetNextTimer(q)
  <2>1. /\ deadline' = [deadline EXCEPT ![q] = elapsed + NextTimeout]
        /\ ppc' = [ppc EXCEPT ![q] = "wait"] /\ UNCHANGED <<timerVars, unseen>>
    BY <1>7 DEF GetNextTimer, history
  <2>2. /\ elapsed + NextTimeout <= elapsed + MaxWait
        /\ \A t \in m_timers : \/ elapsed + NextTimeout <= elapsed
                               \/ elapsed + NextTimeout <= m_next[t] + setback
    BY NextTimeoutCovers
  <2>3. deadline'[q] = elapsed + NextTimeout
        /\ \A p \in Pollers \ {q} : ppc'[p] = ppc[p] /\ deadline'[p] = deadline[p]
    BY <2>1 DEF TypeOK
  <2> QED
    BY <1>2, <2>1, <2>2, <2>3 DEF SleepInv, timerVars
<1> QED
  BY <1>4, <1>5, <1>6, <1>7 DEF PollerStep

\* Time passes, and a clock that is set back moves every deadline away.
LEMMA ClockSleep ==
    ASSUME IInv, IInv', SleepInv, Tick \/ SetClockBack \/ UNCHANGED vars
    PROVE  SleepInv'
<1>1. UNCHANGED <<timerVars, pollVars, history>>
  BY DEF Tick, SetClockBack, vars
<1>2. elapsed <= elapsed' /\ setback <= setback'
  <2>0. now \in Int /\ setback \in Int
    BY DEF IInv, TypeOK
  <2>1. CASE Tick
    BY <2>0, <2>1 DEF Tick, elapsed
  <2>2. CASE SetClockBack
    <3>1. PICK k \in Setbacks : now' = now - k /\ setback' = setback + k
      BY <2>2 DEF SetClockBack
    <3>2. k \in Nat
      BY ClockAssumption
    <3> QED
      BY <2>0, <3>1, <3>2 DEF elapsed
  <2>3. CASE UNCHANGED vars
    BY <2>0, <2>3 DEF vars, clockVars, elapsed
  <2> QED
    BY <2>1, <2>2, <2>3
<1> QED
  BY <1>1, <1>2, SleepKept DEF IInv, timerVars, pollVars, history

\* No thread in IOManager::idle sleeps past the deadline of a timer that it has
\* seen, nor more than MAX_TIMEOUT past the insertion of one that it has not:
\* for every clock, every period and any number of threads.
THEOREM BoundedLatenessHolds == Spec => []BoundedLateness
<1>1. Init => SleepInv
  BY DEF Init, SleepInv
<1>2. IInv /\ SleepInv /\ [Next]_vars => SleepInv'
  BY NextIInv, UserSleep, PollerSleep, ClockSleep DEF Next
<1>3. SleepInv => BoundedLateness
  BY DEF SleepInv, BoundedLateness
<1> QED
  BY <1>1, <1>2, <1>3, Invariance, PTL DEF Spec

-----------------------------------------------------------------------------
(* When a timer may fire.                                                  *)

LEMMA NoUnderflow ==
    ASSUME NEW a \in 0..(Wrap - 1), NEW ms \in 0..(Wrap - 1), ms <= a
    PROVE  Sub64(a, ms) = a - ms
<1>1. Wrap \in Int
  BY ClockAssumption
<1> QED
  BY <1>1 DEF Sub64

\* The clock shows milliseconds since 1970: it fits in 64 bits, and what it is
\* set back never brings it within 12 hours of zero, where m_previousTime -
\* HalfDay would wrap round.
ClockIsModern == HalfDay + MaxSetback <= Epoch /\ Epoch <= MaxTime /\ MaxTime < Wrap

\* The amount of time that passed, and that the clock was set back.
ClockBounds == elapsed <= MaxTime /\ Epoch <= elapsed /\ setback <= MaxSetback

\* a is ahead of the reading of poller p by no more than the clock was set back
\* or than the poller has been held up.
NotFarAhead(a, p) ==
    a <= now_ms[p] + setback \/ a <= now_ms[p] + (elapsed - readAt[p])

\* A poller in listExpiredCb.
Listing(p) == ppc[p] \in {"list", "lock"}

\* The readings of the clock that are in use, and m_previousTime.
ReadingsAreOld ==
    /\ m_previousTime \in (Epoch - MaxSetback)..elapsed
    /\ \A p \in Pollers : Listing(p) =>
          /\ now_ms[p] \in 0..elapsed /\ Epoch - setback <= now_ms[p]
          /\ readAt[p] <= elapsed /\ readAt[p] - setback <= now_ms[p]
          /\ NotFarAhead(m_previousTime, p)
          /\ \A q \in Pollers : Listing(q) => NotFarAhead(now_ms[q], p)

\* The deadline of a timer is its period after some reading b of the clock, and
\* b was early by no more than the clock was set back.
Armed(t) ==
    \E b \in 0..(Wrap - 1) :
        /\ m_next[t] = Add64(b, m_ms[t])
        /\ b + m_ms[t] <= due[t] /\ due[t] <= b + setback + m_ms[t]

FireInv == ClockBounds /\ ReadingsAreOld /\ \A t \in Timers : m_cb[t] => Armed(t)

\* uint64_t addition wraps at most once, and subtraction undoes it.
LEMMA Wraps ==
    ASSUME NEW a \in 0..(Wrap - 1), NEW b \in 0..(Wrap - 1)
    PROVE  /\ Add64(a, b) = IF a + b < Wrap THEN a + b ELSE a + b - Wrap
           /\ Sub64(Add64(a, b), b) = a
<1>1. Wrap \in Nat \ {0}
  BY ClockAssumption
<1>2. Add64(a, b) = IF a + b < Wrap THEN a + b ELSE a + b - Wrap
  <2>1. \A x \in 0..(Wrap - 1) : x % Wrap = x
    BY <1>1
  <2>2. \A x \in 0..(Wrap - 1) : (x + Wrap) % Wrap = x
    BY <1>1
  <2>3. CASE a + b < Wrap
    BY <1>1, <2>3 DEF Add64
  <2>4. CASE a + b >= Wrap
    <3>1. a + b - Wrap \in 0..(Wrap - 1) /\ (a + b - Wrap) + Wrap = a + b
      BY <1>1, <2>4
    <3> QED
      BY <1>1, <2>2, <2>4, <3>1 DEF Add64
  <2> QED
    BY <1>1, <2>3, <2>4
<1>3. Sub64(Add64(a, b), b) = a
  <2>1. \A x \in 0..(Wrap - 1) : (x - Wrap) % Wrap = x
    BY <1>1
  <2>2. CASE a + b < Wrap
    BY <1>1, <1>2, <2>2 DEF Sub64
  <2>3. CASE a + b >= Wrap
    <3>1. Add64(a, b) - b = a - Wrap
      BY <1>1, <1>2, <2>3
    <3> QED
      BY <2>1, <3>1 DEF Sub64
  <2> QED
    BY <1>1, <2>2, <2>3
<1> QED
  BY <1>2, <1>3

\* The numbers that the clock, the readings and the deadlines are made of.
LEMMA FireNumbers ==
    ASSUME TypeOK, ClockBounds, ClockIsModern
    PROVE  /\ now \in Nat /\ setback \in Nat /\ elapsed \in Nat /\ MaxTime \in Nat
           /\ Epoch \in Nat /\ MaxSetback \in Nat /\ HalfDay \in Nat /\ Wrap \in Nat \ {0}
           /\ now \in 0..(Wrap - 1) /\ elapsed < Wrap /\ now + setback = elapsed
           /\ m_previousTime \in Int
           /\ \A p \in Pollers : now_ms[p] \in Int /\ readAt[p] \in Int
           /\ \A t \in Timers : /\ m_next[t] \in Int /\ m_ms[t] \in Int /\ due[t] \in Int
                                /\ m_next[t] \in 0..(Wrap - 1) /\ m_ms[t] \in 0..(Wrap - 1)
BY ClockAssumption DEF TypeOK, ClockBounds, ClockIsModern, elapsed

\* A timer armed with a reading b of the clock.
LEMMA ArmedNow ==
    ASSUME NEW t \in Timers, NEW b \in 0..(Wrap - 1), NEW ms \in Int, setback' \in Nat,
           m_ms'[t] = ms, m_next'[t] = Add64(b, ms), due'[t] = b + setback' + ms
    PROVE  Armed(t)'
<1>1. b \in Int
  BY ClockAssumption
<1> DEFINE k == setback'
<1>2. b + ms <= b + k + ms /\ b + k + ms <= b + k + ms
  <2>1. k \in Nat
    OBVIOUS
  <2> HIDE DEF k
  <2> QED
    BY <1>1, <2>1
<1> QED
  BY <1>2 DEF Armed

\* A timer that a step does not arm.
LEMMA StaysArmed ==
    ASSUME NEW t \in Timers, Armed(t), setback \in Nat, setback' \in Nat, setback <= setback',
           m_ms[t] \in Int, due[t] \in Int,
           m_ms'[t] = m_ms[t], m_next'[t] = m_next[t], due'[t] = due[t]
    PROVE  Armed(t)'
<1>1. PICK b \in 0..(Wrap - 1) :
        /\ m_next[t] = Add64(b, m_ms[t])
        /\ b + m_ms[t] <= due[t] /\ due[t] <= b + setback + m_ms[t]
  BY DEF Armed
<1>2. b \in Int
  BY ClockAssumption
<1>3. due[t] <= b + setback' + m_ms[t]
  BY <1>1, <1>2
<1> QED
  BY <1>1, <1>3 DEF Armed

\* Users arm timers with the clock as it is, or with the reading they had.
LEMMA UserArms ==
    ASSUME IInv, FireInv, ClockIsModern, NEW u \in Users, UserStep(u),
           NEW x \in Timers, m_cb'[x]
    PROVE  Armed(x)'
<1> USE DEF IInv
<1>0. /\ now \in Int /\ setback \in Nat /\ now \in 0..(Wrap - 1) /\ elapsed = now + setback
      /\ setback' = setback /\ now' = now
      /\ m_ms[x] \in Int /\ due[x] \in Int /\ m_ms[x] \in 0..(Wrap - 1)
  <2>1. UNCHANGED clockVars
    BY DEF UserStep, NewTimer, AddTimer, OnTimerInsertdAtFront, Tickle, Cancel, Refresh,
           ResetCall, Reset, ResetTooLate
  <2> QED
    BY <2>1, FireNumbers DEF FireInv, clockVars
<1>1. ASSUME m_cb[x], m_ms'[x] = m_ms[x], m_next'[x] = m_next[x], due'[x] = due[x]
      PROVE  Armed(x)'
  <2>1. Armed(x) /\ setback <= setback'
    BY <1>0, <1>1 DEF FireInv
  <2> QED
    BY <1>0, <1>1, <2>1, StaysArmed
<1>2. CASE NewTimer(u)
  <2>1. PICK t \in Timers, ms \in Periods :
          /\ m_ms' = [m_ms EXCEPT ![t] = ms] /\ m_cb' = [m_cb EXCEPT ![t] = TRUE]
          /\ m_next' = [m_next EXCEPT ![t] = Add64(now, ms)]
          /\ due' = [due EXCEPT ![t] = elapsed + ms]
    BY <1>2 DEF NewTimer
  <2>2. CASE x = t
    <3>1. ms \in Int
      BY ClockAssumption
    <3>2. m_ms'[x] = ms /\ m_next'[x] = Add64(now, ms) /\ due'[x] = now + setback' + ms
      BY <1>0, <2>1, <2>2 DEF TypeOK
    <3> QED
      BY <1>0, <3>1, <3>2, ArmedNow
  <2>3. CASE x # t
    BY <1>1, <2>1, <2>3 DEF TypeOK
  <2> QED
    BY <2>2, <2>3
<1>3. CASE \/ AddTimer(u) \/ OnTimerInsertdAtFront(u) \/ Tickle(u) \/ ResetCall(u)
         \/ ResetTooLate(u)
  BY <1>1, <1>3 DEF AddTimer, OnTimerInsertdAtFront, Tickle, ResetCall, ResetTooLate, timerVars, history
<1>4. CASE Cancel(u)
  BY <1>1, <1>4 DEF Cancel, TypeOK, history
<1>5. CASE Refresh(u)
  <2>1. PICK t \in handed :
          /\ m_next' = [m_next EXCEPT ![t] = Add64(now, m_ms[t])]
          /\ due' = [due EXCEPT ![t] = elapsed + m_ms[t]]
          /\ UNCHANGED <<m_ms, m_cb>>
    BY <1>5 DEF Refresh
  <2>2. CASE x = t
    <3>1. m_ms'[x] = m_ms[x] /\ m_next'[x] = Add64(now, m_ms[x])
          /\ due'[x] = now + setback' + m_ms[x]
      BY <1>0, <2>1, <2>2 DEF TypeOK
    <3> QED
      BY <1>0, <3>1, ArmedNow
  <2>3. CASE x # t
    BY <1>1, <2>1, <2>3 DEF TypeOK
  <2> QED
    BY <2>2, <2>3
<1>6. CASE Reset(u)
  <2> DEFINE t == uarg[u].timer
             ms == uarg[u].ms
             start == IF uarg[u].from_now THEN now ELSE Sub64(m_next[t], m_ms[t])
  <2>1. /\ upc[u] = "reset" /\ m_cb[t] /\ m_cb' = m_cb
        /\ m_ms' = [m_ms EXCEPT ![t] = ms]
        /\ m_next' = [m_next EXCEPT ![t] = Add64(start, ms)]
        /\ due' = [due EXCEPT ![t] = IF uarg[u].from_now THEN elapsed + ms
                                     ELSE due[t] - m_ms[t] + ms]
    BY <1>6 DEF Reset
  <2>2. t \in Timers /\ ms \in Int
    BY <2>1, ClockAssumption DEF Structure, CallsHaveTimer, TypeOK
  <2>3. CASE x # t
    BY <1>1, <2>1, <2>3 DEF TypeOK
  <2>4. CASE x = t /\ uarg[u].from_now
    <3>1. m_ms'[x] = ms /\ m_next'[x] = Add64(now, ms) /\ due'[x] = now + setback' + ms
      BY <1>0, <2>1, <2>2, <2>4 DEF TypeOK
    <3> HIDE DEF ms
    <3> QED
      BY <1>0, <2>2, <3>1, ArmedNow
  <2>5. CASE x = t /\ ~uarg[u].from_now
    <3>1. PICK b \in 0..(Wrap - 1) :
            /\ m_next[x] = Add64(b, m_ms[x])
            /\ b + m_ms[x] <= due[x] /\ due[x] <= b + setback + m_ms[x]
      BY <2>1, <2>5 DEF FireInv, Armed
    <3>2. Sub64(m_next[x], m_ms[x]) = b
      BY <1>0, <3>1, Wraps
    <3>3. m_ms'[x] = ms /\ m_next'[x] = Add64(b, ms) /\ due'[x] = due[x] - m_ms[x] + ms
      BY <2>1, <2>2, <2>5, <3>2 DEF TypeOK
    <3>4. b \in Int
      BY ClockAssumption
    <3> HIDE DEF ms
    <3>5. b + ms <= due'[x] /\ due'[x] <= b + setback' + ms
      BY <1>0, <2>2, <3>1, <3>3, <3>4
    <3> QED
      BY <3>3, <3>5 DEF Armed
  <2> QED
    BY <2>3, <2>4, <2>5
<1> QED
  BY <1>2, <1>3, <1>4, <1>5, <1>6 DEF UserStep

\* A step of a user does not touch the clock or its readings.
LEMMA UserFireInv ==
    ASSUME IInv, FireInv, ClockIsModern, NEW u \in Users, UserStep(u)
    PROVE  FireInv'
<1>1. UNCHANGED <<clockVars, m_previousTime, pollVars>>
  BY DEF UserStep, NewTimer, AddTimer, OnTimerInsertdAtFront, Tickle, Cancel, Refresh,
         ResetCall, Reset, ResetTooLate
<1>2. ClockBounds' /\ ReadingsAreOld'
  BY <1>1 DEF FireInv, ClockBounds, ReadingsAreOld, Listing, NotFarAhead, elapsed, clockVars,
              pollVars
<1>3. \A x \in Timers : m_cb'[x] => Armed(x)'
  BY UserArms
<1> QED
  BY <1>2, <1>3 DEF FireInv

\* Time that passes, and a clock that is set back, leave more room.
LEMMA ClockFireInv ==
    ASSUME IInv, IInv', FireInv, ClockIsModern, Tick \/ SetClockBack \/ UNCHANGED vars
    PROVE  FireInv'
<1> USE DEF IInv
<1>0. /\ now \in Nat /\ setback \in Nat /\ now' \in Nat /\ setback' \in Nat
      /\ \A p \in Pollers : now_ms[p] \in Int /\ readAt[p] \in Int
      /\ \A t \in Timers : m_ms[t] \in Int /\ due[t] \in Int
      /\ Epoch \in Int /\ MaxSetback \in Int /\ MaxTime \in Int /\ m_previousTime \in Int
  BY ClockAssumption DEF TypeOK
<1>1. UNCHANGED <<timerVars, m_previousTime, pollVars, history>>
  BY DEF Tick, SetClockBack, vars
<1>2. /\ setback <= setback' /\ setback' <= MaxSetback
      /\ elapsed' \in {elapsed, elapsed + 1} /\ elapsed' <= MaxTime
      /\ elapsed \in Int /\ elapsed' \in Int
  <2>1. CASE Tick
    BY <1>0, <2>1 DEF Tick, FireInv, ClockBounds, elapsed
  <2>2. CASE SetClockBack
    <3>1. PICK k \in Setbacks :
            setback + k <= MaxSetback /\ now' = now - k /\ setback' = setback + k
      BY <2>2 DEF SetClockBack
    <3>2. k \in Nat
      BY ClockAssumption
    <3> QED
      BY <1>0, <3>1, <3>2 DEF FireInv, ClockBounds, elapsed
  <2>3. CASE UNCHANGED vars
    BY <1>0, <2>3 DEF vars, clockVars, FireInv, ClockBounds, elapsed
  <2> QED
    BY <2>1, <2>2, <2>3
<1>3. ClockBounds'
  BY <1>0, <1>2 DEF FireInv, ClockBounds
<1>4. ReadingsAreOld'
  <2>1. m_previousTime \in (Epoch - MaxSetback)..elapsed'
    BY <1>0, <1>2 DEF FireInv, ReadingsAreOld
  <2>2. ASSUME NEW a \in Int, NEW p \in Pollers, NotFarAhead(a, p)
        PROVE  a <= now_ms[p] + setback' \/ a <= now_ms[p] + (elapsed' - readAt[p])
    BY <1>0, <1>2, <2>2 DEF NotFarAhead
  <2>3. ASSUME NEW p \in Pollers, Listing(p)
        PROVE  /\ now_ms[p] \in 0..elapsed' /\ Epoch - setback' <= now_ms[p]
               /\ readAt[p] <= elapsed' /\ readAt[p] - setback' <= now_ms[p]
               /\ NotFarAhead(m_previousTime, p)
               /\ \A q \in Pollers : Listing(q) => NotFarAhead(now_ms[q], p)
    <3>1. /\ now_ms[p] \in 0..elapsed /\ Epoch - setback <= now_ms[p]
          /\ readAt[p] <= elapsed /\ readAt[p] - setback <= now_ms[p]
          /\ NotFarAhead(m_previousTime, p)
          /\ \A q \in Pollers : Listing(q) => NotFarAhead(now_ms[q], p)
      BY <2>3 DEF FireInv, ReadingsAreOld
    <3> QED
      BY <1>0, <1>2, <3>1
  <2>4. \A p \in Pollers : Listing(p)' <=> Listing(p)
    BY <1>1 DEF Listing, pollVars
  <2>5. now_ms' = now_ms /\ readAt' = readAt /\ m_previousTime' = m_previousTime
    BY <1>1 DEF pollVars
  <2>6. ASSUME NEW p \in Pollers, Listing(p)
        PROVE  /\ NotFarAhead(m_previousTime, p)'
               /\ \A q \in Pollers : Listing(q) => NotFarAhead(now_ms[q], p)'
    BY <1>0, <2>2, <2>3, <2>5, <2>6 DEF NotFarAhead
  <2> QED
    BY <2>1, <2>3, <2>4, <2>5, <2>6 DEF ReadingsAreOld
<1>5. \A t \in Timers : m_cb'[t] => Armed(t)'
  BY <1>0, <1>1, <1>2, StaysArmed DEF FireInv, timerVars, history
<1> QED
  BY <1>3, <1>4, <1>5 DEF FireInv

\* A poller that reads the clock, when its wait is over.
LEMMA ReturnFireInv ==
    ASSUME IInv, FireInv, ClockIsModern, NEW p \in Pollers, Return(p)
    PROVE  FireInv'
<1> USE DEF IInv
<1>0. /\ now \in Nat /\ setback \in Nat /\ elapsed \in Nat /\ elapsed = now + setback
      /\ Epoch \in Int /\ m_previousTime \in Int
      /\ \A q \in Pollers : now_ms[q] \in Int /\ readAt[q] \in Int
  BY FireNumbers DEF FireInv
<1>1. UNCHANGED <<now, setback, timerVars, m_previousTime, due>>
      /\ elapsed' = elapsed
  BY DEF Return, clockVars, elapsed
<1>2. /\ now_ms'[p] = now /\ readAt'[p] = elapsed
      /\ \A q \in Pollers \ {p} : /\ now_ms'[q] = now_ms[q] /\ readAt'[q] = readAt[q]
                                  /\ Listing(q)' <=> Listing(q)
  BY DEF Return, TypeOK, Listing
<1>3. m_previousTime \in (Epoch - MaxSetback)..elapsed /\ Epoch <= elapsed
  BY DEF FireInv, ReadingsAreOld, ClockBounds
<1>4. ASSUME NEW q \in Pollers \ {p}, Listing(q)
      PROVE  /\ now_ms[q] \in 0..elapsed /\ Epoch - setback <= now_ms[q]
             /\ readAt[q] <= elapsed /\ readAt[q] - setback <= now_ms[q]
             /\ NotFarAhead(m_previousTime, q)
             /\ \A r \in Pollers \ {p} : Listing(r) => NotFarAhead(now_ms[r], q)
  BY <1>4 DEF FireInv, ReadingsAreOld
\* The new reading is not ahead of an older one by more than the time since.
<1>5. ASSUME NEW q \in Pollers \ {p}, Listing(q)
      PROVE  now <= now_ms[q] + (elapsed - readAt[q])
  BY <1>0, <1>4, <1>5
<1>6. ReadingsAreOld'
  <2> SUFFICES ASSUME NEW q \in Pollers, Listing(q)'
               PROVE  /\ now_ms'[q] \in 0..elapsed /\ Epoch - setback <= now_ms'[q]
                      /\ readAt'[q] <= elapsed /\ readAt'[q] - setback <= now_ms'[q]
                      /\ NotFarAhead(m_previousTime, q)'
                      /\ \A r \in Pollers : Listing(r)' => NotFarAhead(now_ms[r], q)'
    BY <1>1, <1>3 DEF ReadingsAreOld
  <2>1. CASE q = p
    <3>1. /\ now \in 0..elapsed /\ Epoch - setback <= now
          /\ elapsed <= elapsed /\ elapsed - setback <= now
          /\ m_previousTime <= elapsed
      BY <1>0, <1>3
    <3>2. NotFarAhead(m_previousTime, p)'
      BY <1>0, <1>1, <1>2, <3>1 DEF NotFarAhead
    <3>3. ASSUME NEW r \in Pollers, Listing(r)'
          PROVE  now_ms'[r] \in Int /\ now_ms'[r] <= elapsed
      BY <1>0, <1>2, <1>4, <3>1, <3>3
    <3>4. ASSUME NEW r \in Pollers, Listing(r)'
          PROVE  NotFarAhead(now_ms[r], p)'
      BY <1>0, <1>1, <1>2, <3>3, <3>4 DEF NotFarAhead
    <3> QED
      BY <1>2, <2>1, <3>1, <3>2, <3>4
  <2>2. CASE q # p
    <3>1. Listing(q)
      BY <1>2, <2>2
    <3>2. ASSUME NEW r \in Pollers, Listing(r)'
          PROVE  NotFarAhead(now_ms[r], q)'
      BY <1>1, <1>2, <1>4, <1>5, <2>2, <3>1, <3>2 DEF NotFarAhead
    <3>3. NotFarAhead(m_previousTime, q)'
      BY <1>1, <1>2, <1>4, <2>2, <3>1 DEF NotFarAhead
    <3> QED
      BY <1>2, <1>4, <2>2, <3>1, <3>2, <3>3
  <2> QED
    BY <2>1, <2>2
<1>7. ClockBounds' /\ \A t \in Timers : m_cb'[t] => Armed(t)'
  BY <1>1 DEF FireInv, ClockBounds, Armed, timerVars
<1> QED
  BY <1>6, <1>7 DEF FireInv

\* A poller that leaves listExpiredCb, or goes on in it, with a m_previousTime
\* that is what it was or the reading of a poller in it.
LEMMA ReadingsLeft ==
    ASSUME TypeOK, ClockBounds, ReadingsAreOld, ClockIsModern, NEW p \in Pollers,
           ppc[p] # "wait",
           UNCHANGED clockVars,
           m_previousTime' = m_previousTime \/ (Listing(p) /\ m_previousTime' = now_ms[p]),
           \A q \in Pollers \ {p} : /\ now_ms'[q] = now_ms[q] /\ readAt'[q] = readAt[q]
                                    /\ Listing(q)' <=> Listing(q),
           Listing(p)' => Listing(p) /\ now_ms'[p] = now_ms[p] /\ readAt'[p] = readAt[p]
    PROVE  ReadingsAreOld'
<1>0. elapsed' = elapsed /\ setback' = setback
  BY DEF clockVars, elapsed
<1>1. \A q \in Pollers : Listing(q)' => /\ Listing(q) /\ now_ms'[q] = now_ms[q]
                                        /\ readAt'[q] = readAt[q]
  OBVIOUS
<1>2. m_previousTime' \in (Epoch - MaxSetback)..elapsed
  <2>1. CASE m_previousTime' = m_previousTime
    BY <2>1 DEF ReadingsAreOld
  <2>2. CASE Listing(p) /\ m_previousTime' = now_ms[p]
    <3>1. /\ now_ms[p] \in 0..elapsed /\ Epoch - setback <= now_ms[p] /\ setback <= MaxSetback
          /\ setback \in Int /\ MaxSetback \in Int /\ Epoch \in Int /\ elapsed \in Int
      BY <2>2, FireNumbers DEF ReadingsAreOld, ClockBounds
    <3> QED
      BY <2>2, <3>1
  <2> QED
    BY <2>1, <2>2
<1>3. ASSUME NEW q \in Pollers, Listing(q)'
      PROVE  /\ now_ms'[q] \in 0..elapsed /\ Epoch - setback <= now_ms'[q]
             /\ readAt'[q] <= elapsed /\ readAt'[q] - setback <= now_ms'[q]
             /\ NotFarAhead(m_previousTime, q)'
             /\ \A r \in Pollers : Listing(r)' => NotFarAhead(now_ms[r], q)'
  <2>1. Listing(q) /\ now_ms'[q] = now_ms[q] /\ readAt'[q] = readAt[q]
    BY <1>1, <1>3
  <2>2. /\ now_ms[q] \in 0..elapsed /\ Epoch - setback <= now_ms[q]
        /\ readAt[q] <= elapsed /\ readAt[q] - setback <= now_ms[q]
        /\ NotFarAhead(m_previousTime, q)
        /\ \A r \in Pollers : Listing(r) => NotFarAhead(now_ms[r], q)
    BY <2>1 DEF ReadingsAreOld
  <2>3. NotFarAhead(m_previousTime, q)'
    BY <1>0, <2>1, <2>2 DEF NotFarAhead
  <2>4. \A r \in Pollers : Listing(r)' => NotFarAhead(now_ms[r], q)'
    BY <1>0, <1>1, <2>1, <2>2 DEF NotFarAhead
  <2> QED
    BY <2>1, <2>2, <2>3, <2>4
<1> QED
  BY <1>0, <1>2, <1>3 DEF ReadingsAreOld

\* listExpiredCb arms the recurring timers with the reading it has.
LEMMA ListExpiredFireInv ==
    ASSUME IInv, FireInv, ClockIsModern, NEW p \in Pollers, ListExpiredCb(p)
    PROVE  FireInv'
<1> USE DEF IInv
<1> DEFINE ms == now_ms[p]
           requeued == Requeued(Expired(ms))
<1>1. /\ ppc[p] = "lock" /\ m_previousTime' = IF m_timers = {} THEN m_previousTime ELSE ms
      /\ m_cb' = CbAfter(Expired(ms)) /\ m_next' = NextAfter(ms, requeued)
      /\ due' = [t \in Timers |-> IF t \in requeued THEN ms + setback + m_ms[t] ELSE due[t]]
      /\ ppc' = [ppc EXCEPT ![p] = "yield"]
      /\ now_ms' = [now_ms EXCEPT ![p] = 0] /\ readAt' = [readAt EXCEPT ![p] = 0]
      /\ UNCHANGED <<clockVars, m_ms>>
  BY DEF ListExpiredCb
<1>2. ClockBounds'
  BY <1>1 DEF FireInv, ClockBounds, elapsed, clockVars
<1>3. ReadingsAreOld'
  <2>1. m_previousTime' = m_previousTime \/ (Listing(p) /\ m_previousTime' = now_ms[p])
    BY <1>1 DEF Listing
  <2>2. \A q \in Pollers \ {p} : /\ now_ms'[q] = now_ms[q] /\ readAt'[q] = readAt[q]
                                 /\ Listing(q)' <=> Listing(q)
    BY <1>1 DEF TypeOK, Listing
  <2>3. ~Listing(p)'
    BY <1>1 DEF TypeOK, Listing
  <2> HIDE DEF ms, requeued
  <2> QED
    BY <1>1, <2>1, <2>2, <2>3, ReadingsLeft DEF FireInv
<1>4. ms \in 0..(Wrap - 1)
  <2>1. ms \in 0..elapsed /\ elapsed \in Nat /\ elapsed < Wrap /\ Wrap \in Nat
    BY <1>1, FireNumbers DEF FireInv, ReadingsAreOld, Listing
  <2> HIDE DEF ms
  <2> QED
    BY <2>1
<1>5. setback' = setback /\ setback \in Nat /\ setback <= setback
      /\ \A t \in Timers : m_ms[t] \in Int /\ due[t] \in Int
  BY <1>1, FireNumbers DEF FireInv, clockVars
<1> HIDE DEF ms, requeued
<1>6. ASSUME NEW t \in Timers, m_cb'[t]
      PROVE  Armed(t)'
  <2>1. CASE t \in requeued
    <3>1. m_ms'[t] = m_ms[t] /\ m_next'[t] = Add64(ms, m_ms[t])
          /\ due'[t] = ms + setback' + m_ms[t]
      BY <1>1, <1>5, <2>1 DEF NextAfter
    <3> QED
      BY <1>4, <1>5, <3>1, ArmedNow
  <2>2. CASE t \notin requeued
    <3>1. m_ms'[t] = m_ms[t] /\ m_next'[t] = m_next[t] /\ due'[t] = due[t]
      BY <1>1, <2>2 DEF NextAfter
    <3>2. Armed(t)
      BY <1>1, <1>6 DEF CbAfter, FireInv
    <3> QED
      BY <1>5, <3>1, <3>2, StaysArmed
  <2> QED
    BY <2>1, <2>2
<1> QED
  BY <1>2, <1>3, <1>6 DEF FireInv

LEMMA PollerFireInv ==
    ASSUME IInv, FireInv, ClockIsModern, NEW p \in Pollers, PollerStep(p)
    PROVE  FireInv'
<1>1. CASE TimeoutWake(p) \/ TickleWake(p) \/ EventWake(p)
  BY <1>1, ReturnFireInv DEF TimeoutWake, TickleWake, EventWake
<1>2. CASE ListExpiredCb(p)
  BY <1>2, ListExpiredFireInv
<1>3. CASE GetNextTimer(p) \/ CheckTimers(p) \/ EnterIdle(p) \/ YieldToRun(p)
  <2>1. UNCHANGED <<clockVars, timerVars, m_previousTime, history>>
    BY <1>3 DEF EnterIdle, YieldToRun, GetNextTimer, CheckTimers
  <2>2. \A q \in Pollers \ {p} : /\ now_ms'[q] = now_ms[q] /\ readAt'[q] = readAt[q]
                                 /\ Listing(q)' <=> Listing(q)
    BY <1>3 DEF EnterIdle, YieldToRun, GetNextTimer, CheckTimers, IInv, TypeOK, Listing
  <2>3. ppc[p] # "wait"
        /\ (Listing(p)' => Listing(p) /\ now_ms'[p] = now_ms[p] /\ readAt'[p] = readAt[p])
    BY <1>3 DEF EnterIdle, YieldToRun, GetNextTimer, CheckTimers, IInv, TypeOK, Listing
  <2>4. ReadingsAreOld'
    BY <2>1, <2>2, <2>3, ReadingsLeft DEF IInv, FireInv
  <2>5. ClockBounds' /\ \A t \in Timers : m_cb'[t] => Armed(t)'
    BY <2>1 DEF FireInv, ClockBounds, Armed, elapsed, clockVars, timerVars, history
  <2> QED
    BY <2>4, <2>5 DEF FireInv
<1> QED
  BY <1>1, <1>2, <1>3 DEF PollerStep

LEMMA FireStep == IInv /\ FireInv /\ ClockIsModern /\ [Next]_vars => FireInv'
<1> SUFFICES ASSUME IInv, FireInv, ClockIsModern, [Next]_vars
             PROVE  FireInv'
  OBVIOUS
<1>1. IInv'
  BY NextIInv
<1> QED
  BY <1>1, UserFireInv, PollerFireInv, ClockFireInv DEF Next

\* What listExpiredCb takes out is due, or one of the exceptions applies.
LEMMA ExpiredIsDue ==
    ASSUME IInv, FireInv, ClockIsModern, NEW p \in Pollers, ppc[p] = "lock",
           NEW t \in Expired(now_ms[p])
    PROVE  \/ due[t] <= elapsed + setback \/ due[t] >= Wrap
           \/ setback > HalfDay \/ elapsed - readAt[p] > HalfDay
<1> USE DEF IInv
<1> DEFINE ms == now_ms[p]
           prev == m_previousTime
<1>1. t \in m_timers /\ t \in Timers /\ Armed(t)
  BY DEF Expired, FireInv, Structure, InSetHasCallback, TypeOK
<1>2. /\ ms \in 0..elapsed /\ ms \in Int /\ NotFarAhead(prev, p)
      /\ prev \in (Epoch - MaxSetback)..elapsed /\ readAt[p] \in Int
  BY FireNumbers DEF FireInv, ReadingsAreOld, Listing
<1>3. /\ elapsed \in Nat /\ setback \in Nat /\ HalfDay \in Nat /\ MaxSetback \in Nat
      /\ Epoch \in Nat /\ Wrap \in Nat \ {0} /\ elapsed < Wrap
      /\ HalfDay + MaxSetback <= Epoch
      /\ m_ms[t] \in 0..(Wrap - 1) /\ due[t] \in Int
  BY <1>1, FireNumbers DEF FireInv, ClockIsModern
<1> HIDE DEF ms, prev
<1>4. CASE DetectClockRollover(ms)
  <2>1. prev \in 0..(Wrap - 1) /\ HalfDay \in 0..(Wrap - 1) /\ HalfDay <= prev
    BY <1>2, <1>3
  <2>2. Sub64(prev, HalfDay) = prev - HalfDay
    BY <2>1, NoUnderflow
  <2>3. ms < prev - HalfDay
    BY <1>4, <2>2 DEF DetectClockRollover, prev
  <2>4. prev <= ms + setback \/ prev <= ms + (elapsed - readAt[p])
    BY <1>2 DEF NotFarAhead, ms
  <2>5. prev \in Int
    BY <2>1
  <2> QED
    BY <1>2, <1>3, <2>3, <2>4, <2>5
<1>5. CASE ~DetectClockRollover(ms)
  <2>1. m_next[t] <= ms
    BY <1>5 DEF Expired, ms
  <2>2. PICK b \in 0..(Wrap - 1) :
          /\ m_next[t] = Add64(b, m_ms[t])
          /\ b + m_ms[t] <= due[t] /\ due[t] <= b + setback + m_ms[t]
    BY <1>1 DEF Armed
  <2>3. m_next[t] = IF b + m_ms[t] < Wrap THEN b + m_ms[t] ELSE b + m_ms[t] - Wrap
    BY <1>3, <2>2, Wraps
  <2>4. b \in Int /\ m_ms[t] \in Int
    BY <1>3
  <2>5. CASE b + m_ms[t] < Wrap
    BY <1>2, <1>3, <2>1, <2>2, <2>3, <2>4, <2>5
  <2>6. CASE b + m_ms[t] >= Wrap
    BY <1>3, <2>2, <2>4, <2>6
  <2> QED
    BY <1>3, <2>4, <2>5, <2>6
<1> QED
  BY <1>4, <1>5

\* listExpiredCb collects no timer before its period has passed, apart from what
\* a clock that was set back and an overflow of uint64_t explain, whichever
\* readings of the clock the pollers are in it with.
THEOREM NoEarlyFireHolds ==
    ASSUME ClockIsModern
    PROVE  Spec => NoEarlyFire
<1> DEFINE InDueTime == \A p \in Pollers : \A t \in cbs'[p] \ cbs[p] :
               \/ due[t] <= elapsed + setback \/ due[t] >= Wrap
               \/ setback > HalfDay \/ elapsed - readAt[p] > HalfDay
<1>1. Init => FireInv
  <2> SUFFICES ASSUME Init
               PROVE  FireInv
    OBVIOUS
  <2>1. ClockBounds
    BY ClockAssumption DEF Init, ClockBounds, ClockIsModern, elapsed
  <2>2. ReadingsAreOld
    BY ClockAssumption DEF Init, ReadingsAreOld, Listing, elapsed
  <2> QED
    BY <2>1, <2>2 DEF Init, FireInv
<1>2. IInv /\ FireInv /\ [Next]_vars => FireInv'
  BY FireStep
<1>3. IInv /\ FireInv /\ [Next]_vars => [InDueTime]_vars
  <2> SUFFICES ASSUME IInv, FireInv, Next, NEW p \in Pollers, NEW t \in cbs'[p] \ cbs[p]
               PROVE  \/ due[t] <= elapsed + setback \/ due[t] >= Wrap
                      \/ setback > HalfDay \/ elapsed - readAt[p] > HalfDay
    OBVIOUS
  <2>1. PICK q \in Pollers : ListExpiredCb(q) \/ YieldToRun(q)
    BY HandsOver
  <2>2. ListExpiredCb(p) /\ t \in Expired(now_ms[p])
    BY <2>1 DEF YieldToRun, ListExpiredCb, IInv, TypeOK
  <2> QED
    BY <2>2, ExpiredIsDue DEF ListExpiredCb
<1> QED
  BY <1>1, <1>2, <1>3, Invariance, PTL DEF Spec, NoEarlyFire
=============================================================================
