---------------------------- MODULE HookIOProofs ----------------------------
(***************************************************************************)
(* Proofs about HookIO: a suspended call is woken once, by whichever of    *)
(* event, timer and late callback comes first, it leaves no registration   *)
(* behind, and it is never left without anyone who can wake it; for any    *)
(* fibers, fds and timeouts.                                               *)
(***************************************************************************)
EXTENDS HookIO, TLAPS

-----------------------------------------------------------------------------
(* The inductive invariant.                                                *)

\* Only a call for an fd registers; sleep does not.
RegisteredUses == \A s \in Slots : reg[s] # NoFiber => call[reg[s]] # "sleep"

\* Who connects has registered, or was woken or robbed, before it makes its timer.
ConnectIsReachable ==
    \A f \in Fibers : fpc[f] = "timer" =>
        call[f] = "connect" /\ (f \in scheduled \cup robbed \/ reg[SlotOf[f]] = f)

\* do_io makes its timer before it registers.
AddIsIo == \A f \in Fibers : fpc[f] = "add" => call[f] = "io"

\* The TimerConds: a fiber has one of its own while it waits.
HasCond == {"add", "hold", "awake", "del"}

CondIsMine ==
    \A f \in Fibers : IF fpc[f] \in HasCond THEN cond[f] \in Conds /\ cond[f][1] = f
                      ELSE cond[f] = NoCond

\* tcnd->cancelled is set in the cond of a fiber that waits with a timer.
CancelledLives ==
    \A c \in cancelled : cond[c[1]] = c /\ call[c[1]] # "sleep"

DelIsTimedOut == \A f \in Fibers : fpc[f] = "del" => cond[f] \in cancelled

\* One of timer, collected callback and queue holds a fiber that sleeps.
SleepsOnce ==
    \A f \in Fibers : call[f] = "sleep" /\ fpc[f] \in {"hold", "awake"} =>
        /\ ~(cond[f] \in timers /\ cond[f] \in cbs)
        /\ cond[f] \in timers \cup cbs => f \notin scheduled /\ fpc[f] = "hold"

\* A call makes a timer only if its timeout asks for one.
TimersArmed ==
    \A f \in Fibers : cond[f] \in timers \cup cbs \cup cancelled =>
        call[f] = "sleep" \/ MayTimeOut(f)

WaitInv ==
    /\ TypeOK /\ WokenOnce /\ RegistrationInv
    /\ RegisteredUses /\ ConnectIsReachable /\ AddIsIo
    /\ CondIsMine /\ CancelledLives /\ DelIsTimedOut /\ SleepsOnce /\ TimersArmed

-----------------------------------------------------------------------------
(* A fact the steps share.                                                 *)

\* The memory of a cond that nobody refers to any more is used again.
LEMMA FreshCond ==
    ASSUME WaitInv, NEW f \in Fibers, NewCond(f)
    PROVE  \E c \in Conds : /\ c[1] = f /\ c \notin timers \cup cbs \cup cancelled
                             /\ \A g \in Fibers : cond[g] # c
                             /\ cond' = [cond EXCEPT ![f] = c]
<1>1. PICK n \in 1..MaxWaits :
        <<f, n>> \notin InUse /\ cond' = [cond EXCEPT ![f] = <<f, n>>]
  BY DEF NewCond
<1>2. <<f, n>> \in Conds /\ <<f, n>>[1] = f
  BY DEF Conds
<1>3. <<f, n>> \notin timers \cup cbs /\ \A g \in Fibers : cond[g] # <<f, n>>
  BY <1>1 DEF InUse
<1>4. <<f, n>> \notin cancelled
  BY <1>2, <1>3 DEF WaitInv, CancelledLives
<1> QED
  BY <1>1, <1>2, <1>3, <1>4

-----------------------------------------------------------------------------
(* The steps of a call: do_io, connect_with_tiemout and sleep.             *)

LEMMA StartKeeps ==
    ASSUME WaitInv, NEW f \in Fibers, Start(f)
    PROVE  WaitInv'
<1> USE CallsAssumption DEF WaitInv, RegistrationInv, Start, Goto, fiberVars,
        timerVars, kernelVars, MayTimeOut, IoHasTimer, ConnectHasTimer
<1>1. TypeOK'
  <2>1. SlotOf[f] \in Slots
    OBVIOUS
  <2>2. PICK c \in {"io", "connect", "sleep"} :
          /\ call' = [call EXCEPT ![f] = c]
          /\ ready' = IF c = "connect" THEN [ready EXCEPT ![SlotOf[f]] = "none"] ELSE ready
          /\ edge' = IF c = "connect" THEN edge \ {SlotOf[f]} ELSE edge
    OBVIOUS
  <2>3. call' \in [Fibers -> {"io", "connect", "sleep"}]
    BY <2>2 DEF TypeOK
  <2>4. ready' \in [Slots -> {"none", "ok", "error"}] /\ edge' \subseteq Slots
    BY <2>1, <2>2 DEF TypeOK
  <2> QED
    BY <2>3, <2>4 DEF TypeOK, Waiting
<1>2. WokenOnce'
  BY DEF WokenOnce
<1>3. NoDanglingRegistration'
  BY DEF NoDanglingRegistration
<1>4. SuspendedIsReachable'
  BY DEF SuspendedIsReachable
<1>5. RegisteredUses'
  BY DEF TypeOK, RegisteredUses, NoDanglingRegistration
<1>6. ConnectIsReachable'
  BY DEF ConnectIsReachable
<1>7. AddIsIo'
  BY DEF AddIsIo
<1>8. CondIsMine'
  BY DEF CondIsMine, HasCond
<1>9. CancelledLives'
  <2>1. \A c \in cancelled : c[1] # f
    <3>1. cond[f] = NoCond /\ NoCond \notin Conds
      BY DEF CondIsMine, HasCond, Conds
    <3>2. \A c \in cancelled : c \in Conds /\ cond[c[1]] = c
      BY DEF CancelledLives, TypeOK
    <3> QED
      BY ONLY <3>1, <3>2
  <2>2. \A g \in Fibers : g # f => call'[g] = call[g]
    BY DEF TypeOK
  <2>3. \A c \in cancelled : c[1] \in Fibers
    <3>1. cancelled \subseteq Conds
      BY DEF TypeOK
    <3>2. \A c \in Conds : c[1] \in Fibers
      BY DEF Conds
    <3> QED
      BY ONLY <3>1, <3>2
  <2> QED
    BY <2>1, <2>2, <2>3 DEF CancelledLives
<1>10. DelIsTimedOut'
  BY DEF DelIsTimedOut
<1>11. SleepsOnce'
  BY DEF SleepsOnce
<1>12. TimersArmed'
  BY DEF TypeOK, TimersArmed, CondIsMine, HasCond, Conds
<1> QED
  BY <1>1, <1>2, <1>3, <1>4, <1>5, <1>6, <1>7, <1>8, <1>9, <1>10, <1>11, <1>12

LEMMA IoDoneKeeps ==
    ASSUME WaitInv, NEW f \in Fibers, IoDone(f)
    PROVE  WaitInv'
<1> USE CallsAssumption DEF WaitInv, RegistrationInv, IoDone, Return, Goto, fiberVars,
        timerVars, kernelVars, MayTimeOut, IoHasTimer, ConnectHasTimer
<1>1. TypeOK'
  BY DEF TypeOK
<1>2. WokenOnce'
  BY DEF WokenOnce
<1>3. NoDanglingRegistration'
  BY DEF NoDanglingRegistration
<1>4. SuspendedIsReachable'
  BY DEF SuspendedIsReachable
<1>5. RegisteredUses'
  BY DEF RegisteredUses, NoDanglingRegistration
<1>6. ConnectIsReachable'
  BY DEF ConnectIsReachable
<1>7. AddIsIo'
  BY DEF AddIsIo
<1>8. CondIsMine'
  BY DEF CondIsMine, HasCond
<1>9. DelIsTimedOut'
  BY DEF DelIsTimedOut
<1>10. SleepsOnce'
  BY DEF SleepsOnce
<1>11. CancelledLives' /\ TimersArmed'
  BY DEF CancelledLives, TimersArmed
<1> QED
  BY <1>1, <1>2, <1>3, <1>4, <1>5, <1>6, <1>7, <1>8, <1>9, <1>10, <1>11

LEMMA IoAgainKeeps ==
    ASSUME WaitInv, NEW f \in Fibers, IoAgain(f)
    PROVE  WaitInv'
<1> USE CallsAssumption DEF WaitInv, RegistrationInv, IoAgain, Goto, fiberVars,
        timerVars, kernelVars, MayTimeOut, IoHasTimer, ConnectHasTimer
<1>0. PICK c \in Conds : /\ c[1] = f /\ c \notin timers \cup cbs \cup cancelled
                         /\ \A g \in Fibers : cond[g] # c
                         /\ cond' = [cond EXCEPT ![f] = c]
  BY FreshCond
<1>1. TypeOK'
  BY <1>0 DEF TypeOK, Waiting
<1>2. WokenOnce'
  BY DEF WokenOnce
<1>3. NoDanglingRegistration'
  BY DEF NoDanglingRegistration
<1>4. SuspendedIsReachable'
  BY <1>0 DEF SuspendedIsReachable
<1>5. RegisteredUses'
  BY DEF RegisteredUses
<1>6. ConnectIsReachable'
  BY DEF ConnectIsReachable
<1>7. AddIsIo'
  BY DEF AddIsIo
<1>8. CondIsMine'
  BY <1>0 DEF TypeOK, CondIsMine, HasCond
<1>9. CancelledLives'
  BY <1>0 DEF TypeOK, CancelledLives, CondIsMine, HasCond, Conds
<1>10. DelIsTimedOut'
  BY <1>0 DEF DelIsTimedOut
<1>11. SleepsOnce'
  BY <1>0 DEF TypeOK, SleepsOnce
<1>12. TimersArmed'
  BY <1>0 DEF TypeOK, TimersArmed
<1> QED
  BY <1>1, <1>2, <1>3, <1>4, <1>5, <1>6, <1>7, <1>8, <1>9, <1>10, <1>11, <1>12

LEMMA IoAddKeeps ==
    ASSUME WaitInv, NEW f \in Fibers, IoAdd(f)
    PROVE  WaitInv'
<1> USE CallsAssumption DEF WaitInv, RegistrationInv, IoAdd, AddEvent, Goto, fiberVars,
        timerVars, kernelVars, MayTimeOut, IoHasTimer, ConnectHasTimer
<1>0. \A g \in Fibers : g # f /\ reg[SlotOf[g]] = g => SlotOf[g] # SlotOf[f]
  OBVIOUS
<1>1. TypeOK'
  BY DEF TypeOK, Waiting
<1>2. WokenOnce'
  BY DEF WokenOnce
<1>3. NoDanglingRegistration'
  BY DEF TypeOK, NoDanglingRegistration
<1>4. SuspendedIsReachable'
  BY <1>0 DEF TypeOK, SuspendedIsReachable
<1>5. RegisteredUses'
  BY DEF RegisteredUses
<1>6. ConnectIsReachable'
  BY <1>0 DEF ConnectIsReachable
<1>7. AddIsIo'
  BY DEF AddIsIo
<1>8. CondIsMine'
  BY DEF CondIsMine, HasCond
<1>9. DelIsTimedOut'
  BY DEF DelIsTimedOut
<1>10. SleepsOnce'
  BY DEF SleepsOnce
<1>11. CancelledLives' /\ TimersArmed'
  BY DEF CancelledLives, TimersArmed
<1> QED
  BY <1>1, <1>2, <1>3, <1>4, <1>5, <1>6, <1>7, <1>8, <1>9, <1>10, <1>11

LEMMA IoAddFailsKeeps ==
    ASSUME WaitInv, NEW f \in Fibers, IoAddFails(f)
    PROVE  WaitInv'
<1> USE CallsAssumption DEF WaitInv, RegistrationInv, IoAddFails, DropCond, Return, Goto,
        fiberVars, timerVars, kernelVars, MayTimeOut, IoHasTimer, ConnectHasTimer
<1>1. TypeOK'
  BY DEF TypeOK
<1>2. WokenOnce'
  BY DEF WokenOnce
<1>3. NoDanglingRegistration'
  BY DEF NoDanglingRegistration
<1>4. SuspendedIsReachable'
  BY DEF SuspendedIsReachable
<1>5. RegisteredUses'
  BY DEF RegisteredUses, NoDanglingRegistration
<1>6. ConnectIsReachable'
  BY DEF ConnectIsReachable
<1>7. AddIsIo'
  BY DEF AddIsIo
<1>8. CondIsMine'
  BY DEF TypeOK, CondIsMine, HasCond
<1>9. CancelledLives'
  BY DEF CancelledLives
<1>10. DelIsTimedOut'
  BY DEF DelIsTimedOut, CondIsMine, HasCond
<1>11. SleepsOnce'
  BY DEF SleepsOnce
<1>12. TimersArmed'
  BY DEF TypeOK, TimersArmed, Conds
<1> QED
  BY <1>1, <1>2, <1>3, <1>4, <1>5, <1>6, <1>7, <1>8, <1>9, <1>10, <1>11, <1>12

LEMMA IoRetryKeeps ==
    ASSUME WaitInv, NEW f \in Fibers, IoRetry(f)
    PROVE  WaitInv'
<1> USE CallsAssumption DEF WaitInv, RegistrationInv, IoRetry, DropCond, Goto, fiberVars,
        timerVars, kernelVars, MayTimeOut, IoHasTimer, ConnectHasTimer
<1>1. TypeOK'
  BY DEF TypeOK
<1>2. WokenOnce'
  BY DEF WokenOnce
<1>3. NoDanglingRegistration'
  BY DEF NoDanglingRegistration
<1>4. SuspendedIsReachable'
  BY DEF SuspendedIsReachable
<1>5. RegisteredUses'
  BY DEF RegisteredUses
<1>6. ConnectIsReachable'
  BY DEF ConnectIsReachable
<1>7. AddIsIo'
  BY DEF AddIsIo
<1>8. CondIsMine'
  BY DEF TypeOK, CondIsMine, HasCond
<1>9. CancelledLives'
  BY DEF CancelledLives
<1>10. DelIsTimedOut'
  BY DEF DelIsTimedOut
<1>11. SleepsOnce'
  BY DEF SleepsOnce
<1>12. TimersArmed'
  BY DEF TypeOK, TimersArmed, Conds
<1> QED
  BY <1>1, <1>2, <1>3, <1>4, <1>5, <1>6, <1>7, <1>8, <1>9, <1>10, <1>11, <1>12

LEMMA ConnectDoneKeeps ==
    ASSUME WaitInv, NEW f \in Fibers, ConnectDone(f)
    PROVE  WaitInv'
<1> USE CallsAssumption DEF WaitInv, RegistrationInv, ConnectDone, Return, Goto, fiberVars,
        timerVars, kernelVars, MayTimeOut, IoHasTimer, ConnectHasTimer
<1>1. TypeOK'
  <2>1. SlotOf[f] \in Slots
    OBVIOUS
  <2>2. PICK r \in {"ok", "error"} : /\ result' = [result EXCEPT ![f] = r]
                                     /\ ready' = [ready EXCEPT ![SlotOf[f]] = r]
    OBVIOUS
  <2> QED
    BY <2>1, <2>2 DEF TypeOK, Waiting
<1>2. WokenOnce'
  BY DEF WokenOnce
<1>3. NoDanglingRegistration'
  BY DEF NoDanglingRegistration
<1>4. SuspendedIsReachable'
  BY DEF SuspendedIsReachable
<1>5. RegisteredUses'
  BY DEF RegisteredUses, NoDanglingRegistration
<1>6. ConnectIsReachable'
  BY DEF ConnectIsReachable
<1>7. AddIsIo'
  BY DEF AddIsIo
<1>8. CondIsMine'
  BY DEF CondIsMine, HasCond
<1>9. DelIsTimedOut'
  BY DEF DelIsTimedOut
<1>10. SleepsOnce'
  BY DEF SleepsOnce
<1>11. CancelledLives' /\ TimersArmed'
  BY DEF CancelledLives, TimersArmed
<1> QED
  BY <1>1, <1>2, <1>3, <1>4, <1>5, <1>6, <1>7, <1>8, <1>9, <1>10, <1>11

LEMMA ConnectAddKeeps ==
    ASSUME WaitInv, NEW f \in Fibers, ConnectAdd(f)
    PROVE  WaitInv'
<1> USE CallsAssumption DEF WaitInv, RegistrationInv, ConnectAdd, AddEvent, Goto,
        fiberVars, timerVars, kernelVars, MayTimeOut, IoHasTimer, ConnectHasTimer
<1>0. \A g \in Fibers : g # f /\ reg[SlotOf[g]] = g => SlotOf[g] # SlotOf[f]
  OBVIOUS
<1>1. TypeOK'
  BY DEF TypeOK, Waiting
<1>2. WokenOnce'
  BY DEF WokenOnce
<1>3. NoDanglingRegistration'
  BY DEF TypeOK, NoDanglingRegistration
<1>4. SuspendedIsReachable'
  BY <1>0 DEF SuspendedIsReachable
<1>5. RegisteredUses'
  BY DEF RegisteredUses
<1>6. ConnectIsReachable'
  <2>1. call[f] = "connect" /\ reg' = [reg EXCEPT ![SlotOf[f]] = f] /\ SlotOf[f] \in Slots
    OBVIOUS
  <2>2. reg'[SlotOf[f]] = f /\ \A g \in Fibers : g # f /\ reg[SlotOf[g]] = g => reg'[SlotOf[g]] = g
    BY <1>0, <2>1 DEF TypeOK
  <2>3. \A g \in Fibers : g # f => fpc'[g] = fpc[g]
    BY DEF TypeOK
  <2> QED
    BY <2>1, <2>2, <2>3 DEF ConnectIsReachable
<1>7. AddIsIo'
  BY DEF AddIsIo
<1>8. CondIsMine'
  BY DEF CondIsMine, HasCond
<1>9. DelIsTimedOut'
  BY DEF DelIsTimedOut
<1>10. SleepsOnce'
  BY DEF SleepsOnce
<1>11. CancelledLives' /\ TimersArmed'
  BY DEF CancelledLives, TimersArmed
<1> QED
  BY <1>1, <1>2, <1>3, <1>4, <1>5, <1>6, <1>7, <1>8, <1>9, <1>10, <1>11

LEMMA ConnectTimerKeeps ==
    ASSUME WaitInv, NEW f \in Fibers, ConnectTimer(f)
    PROVE  WaitInv'
<1> USE CallsAssumption DEF WaitInv, RegistrationInv, ConnectTimer, Goto,
        fiberVars, timerVars, kernelVars, MayTimeOut, IoHasTimer, ConnectHasTimer
<1>0. PICK c \in Conds : /\ c[1] = f /\ c \notin timers \cup cbs \cup cancelled
                         /\ \A g \in Fibers : cond[g] # c
                         /\ cond' = [cond EXCEPT ![f] = c]
  BY FreshCond
<1>1. TypeOK'
  BY <1>0 DEF TypeOK, Waiting
<1>2. WokenOnce'
  BY DEF WokenOnce
<1>3. NoDanglingRegistration'
  BY DEF NoDanglingRegistration
<1>4. SuspendedIsReachable'
  BY <1>0 DEF SuspendedIsReachable, ConnectIsReachable
<1>5. RegisteredUses'
  BY DEF RegisteredUses
<1>6. ConnectIsReachable'
  BY DEF ConnectIsReachable
<1>7. AddIsIo'
  BY DEF AddIsIo
<1>8. CondIsMine'
  BY <1>0 DEF TypeOK, CondIsMine, HasCond
<1>9. CancelledLives'
  BY <1>0 DEF TypeOK, CancelledLives, CondIsMine, HasCond, Conds
<1>10. DelIsTimedOut'
  BY <1>0 DEF DelIsTimedOut
<1>11. SleepsOnce'
  BY <1>0 DEF TypeOK, SleepsOnce, ConnectIsReachable
<1>12. TimersArmed'
  BY <1>0 DEF TypeOK, TimersArmed, ConnectIsReachable
<1> QED
  BY <1>1, <1>2, <1>3, <1>4, <1>5, <1>6, <1>7, <1>8, <1>9, <1>10, <1>11, <1>12

LEMMA ConnectAddFailsKeeps ==
    ASSUME WaitInv, NEW f \in Fibers, ConnectAddFails(f)
    PROVE  WaitInv'
<1> USE CallsAssumption DEF WaitInv, RegistrationInv, ConnectAddFails, Return, Goto,
        fiberVars, timerVars, kernelVars, MayTimeOut, IoHasTimer, ConnectHasTimer
<1>1. TypeOK'
  BY DEF TypeOK, SoError
<1>2. WokenOnce'
  BY DEF WokenOnce
<1>3. NoDanglingRegistration'
  BY DEF NoDanglingRegistration
<1>4. SuspendedIsReachable'
  BY DEF SuspendedIsReachable
<1>5. RegisteredUses'
  BY DEF RegisteredUses, NoDanglingRegistration
<1>6. ConnectIsReachable'
  BY DEF ConnectIsReachable
<1>7. AddIsIo'
  BY DEF AddIsIo
<1>8. CondIsMine'
  BY DEF CondIsMine, HasCond
<1>9. DelIsTimedOut'
  BY DEF DelIsTimedOut
<1>10. SleepsOnce'
  BY DEF SleepsOnce
<1>11. CancelledLives' /\ TimersArmed'
  BY DEF CancelledLives, TimersArmed
<1> QED
  BY <1>1, <1>2, <1>3, <1>4, <1>5, <1>6, <1>7, <1>8, <1>9, <1>10, <1>11

LEMMA ConnectAwakeKeeps ==
    ASSUME WaitInv, NEW f \in Fibers, ConnectAwake(f)
    PROVE  WaitInv'
<1> USE CallsAssumption DEF WaitInv, RegistrationInv, ConnectAwake, DropCond, Return, Goto,
        fiberVars, timerVars, kernelVars, MayTimeOut, IoHasTimer, ConnectHasTimer
<1>1. TypeOK'
  BY DEF TypeOK, SoError
<1>2. WokenOnce'
  BY DEF WokenOnce
<1>3. NoDanglingRegistration'
  BY DEF NoDanglingRegistration
<1>4. SuspendedIsReachable'
  BY DEF SuspendedIsReachable
<1>5. RegisteredUses'
  BY DEF RegisteredUses, NoDanglingRegistration
<1>6. ConnectIsReachable'
  BY DEF ConnectIsReachable
<1>7. AddIsIo'
  BY DEF AddIsIo
<1>8. CondIsMine'
  BY DEF TypeOK, CondIsMine, HasCond
<1>9. CancelledLives'
  BY DEF CancelledLives
<1>10. DelIsTimedOut'
  BY DEF DelIsTimedOut
<1>11. SleepsOnce'
  BY DEF SleepsOnce
<1>12. TimersArmed'
  BY DEF TypeOK, TimersArmed, Conds
<1> QED
  BY <1>1, <1>2, <1>3, <1>4, <1>5, <1>6, <1>7, <1>8, <1>9, <1>10, <1>11, <1>12

LEMMA SleepKeeps ==
    ASSUME WaitInv, NEW f \in Fibers, Sleep(f)
    PROVE  WaitInv'
<1> USE CallsAssumption DEF WaitInv, RegistrationInv, Sleep, Goto, fiberVars, timerVars,
        kernelVars, MayTimeOut, IoHasTimer, ConnectHasTimer
<1>0. PICK c \in Conds : /\ c[1] = f /\ c \notin timers \cup cbs \cup cancelled
                         /\ \A g \in Fibers : cond[g] # c
                         /\ cond' = [cond EXCEPT ![f] = c]
  BY FreshCond
<1>1. TypeOK'
  BY <1>0 DEF TypeOK, Waiting
<1>2. WokenOnce'
  BY DEF WokenOnce
<1>3. NoDanglingRegistration'
  BY DEF NoDanglingRegistration
<1>4. SuspendedIsReachable'
  BY <1>0 DEF SuspendedIsReachable
<1>5. RegisteredUses'
  BY DEF RegisteredUses
<1>6. ConnectIsReachable'
  BY DEF ConnectIsReachable
<1>7. AddIsIo'
  BY DEF AddIsIo
<1>8. CondIsMine'
  BY <1>0 DEF TypeOK, CondIsMine, HasCond
<1>9. CancelledLives'
  BY <1>0 DEF CancelledLives
<1>10. DelIsTimedOut'
  BY <1>0 DEF DelIsTimedOut
<1>11. SleepsOnce'
  BY <1>0 DEF TypeOK, SleepsOnce, WokenOnce
<1>12. TimersArmed'
  BY <1>0 DEF TypeOK, TimersArmed
<1> QED
  BY <1>1, <1>2, <1>3, <1>4, <1>5, <1>6, <1>7, <1>8, <1>9, <1>10, <1>11, <1>12

LEMMA SleepAwakeKeeps ==
    ASSUME WaitInv, NEW f \in Fibers, SleepAwake(f)
    PROVE  WaitInv'
<1> USE CallsAssumption DEF WaitInv, RegistrationInv, SleepAwake, DropCond, Return, Goto,
        fiberVars, timerVars, kernelVars, MayTimeOut, IoHasTimer, ConnectHasTimer
<1>1. TypeOK'
  BY DEF TypeOK
<1>2. WokenOnce'
  BY DEF WokenOnce
<1>3. NoDanglingRegistration'
  BY DEF NoDanglingRegistration
<1>4. SuspendedIsReachable'
  BY DEF SuspendedIsReachable
<1>5. RegisteredUses'
  BY DEF RegisteredUses
<1>6. ConnectIsReachable'
  BY DEF ConnectIsReachable
<1>7. AddIsIo'
  BY DEF AddIsIo
<1>8. CondIsMine'
  BY DEF TypeOK, CondIsMine, HasCond
<1>9. CancelledLives'
  BY DEF CancelledLives
<1>10. DelIsTimedOut'
  BY DEF DelIsTimedOut, CondIsMine, HasCond
<1>11. SleepsOnce'
  BY DEF TypeOK, SleepsOnce
<1>12. TimersArmed'
  BY DEF TimersArmed
<1> QED
  BY <1>1, <1>2, <1>3, <1>4, <1>5, <1>6, <1>7, <1>8, <1>9, <1>10, <1>11, <1>12

LEMMA ResumeKeeps ==
    ASSUME WaitInv, NEW f \in Fibers, Resume(f)
    PROVE  WaitInv'
<1> USE CallsAssumption DEF WaitInv, RegistrationInv, Resume, Goto, fiberVars, timerVars,
        kernelVars, MayTimeOut, IoHasTimer, ConnectHasTimer
<1>1. TypeOK'
  BY DEF TypeOK
<1>2. WokenOnce'
  BY DEF WokenOnce
<1>3. NoDanglingRegistration'
  BY DEF NoDanglingRegistration, WokenOnce
<1>4. SuspendedIsReachable'
  BY DEF TypeOK, SuspendedIsReachable, CondIsMine, HasCond
<1>5. RegisteredUses'
  BY DEF RegisteredUses
<1>6. ConnectIsReachable'
  BY DEF ConnectIsReachable
<1>7. AddIsIo'
  BY DEF AddIsIo
<1>8. CondIsMine'
  BY DEF CondIsMine, HasCond
<1>9. DelIsTimedOut'
  BY DEF DelIsTimedOut
<1>10. SleepsOnce'
  BY DEF SleepsOnce
<1>11. TimersArmed'
  BY DEF TimersArmed
<1>12. CancelledLives'
  BY DEF CancelledLives
<1> QED
  BY <1>1, <1>2, <1>3, <1>4, <1>5, <1>6, <1>7, <1>8, <1>9, <1>10, <1>11, <1>12

LEMMA TimedOutKeeps ==
    ASSUME WaitInv, NEW f \in Fibers, TimedOut(f)
    PROVE  WaitInv'
<1> USE CallsAssumption DEF WaitInv, RegistrationInv, TimedOut, Goto, fiberVars, timerVars,
        kernelVars, MayTimeOut, IoHasTimer, ConnectHasTimer
<1>1. TypeOK'
  BY DEF TypeOK
<1>2. WokenOnce'
  BY DEF WokenOnce
<1>3. NoDanglingRegistration'
  BY DEF NoDanglingRegistration
<1>4. SuspendedIsReachable'
  BY DEF SuspendedIsReachable
<1>5. RegisteredUses'
  BY DEF RegisteredUses
<1>6. ConnectIsReachable'
  BY DEF ConnectIsReachable
<1>7. AddIsIo'
  BY DEF AddIsIo
<1>8. CondIsMine'
  BY DEF CondIsMine, HasCond
<1>9. DelIsTimedOut'
  BY DEF DelIsTimedOut
<1>10. SleepsOnce'
  BY DEF SleepsOnce
<1>11. CancelledLives' /\ TimersArmed'
  BY DEF CancelledLives, TimersArmed
<1> QED
  BY <1>1, <1>2, <1>3, <1>4, <1>5, <1>6, <1>7, <1>8, <1>9, <1>10, <1>11

LEMMA DelEventKeeps ==
    ASSUME WaitInv, NEW f \in Fibers, DelEvent(f)
    PROVE  WaitInv'
<1> USE CallsAssumption DEF WaitInv, RegistrationInv, DelEvent, DropCond, Return, Goto,
        fiberVars, timerVars, kernelVars, MayTimeOut, IoHasTimer, ConnectHasTimer
<1>0. \A g \in Fibers : reg[SlotOf[g]] = g => SlotOf[g] # SlotOf[f] \/ g \in robbed'
  OBVIOUS
<1>1. TypeOK'
  <2>1. reg[SlotOf[f]] \in Fibers \cup {NoFiber} /\ SlotOf[f] \in Slots
    BY DEF TypeOK
  <2>2. robbed' \subseteq Fibers /\ reg' \in [Slots -> Fibers \cup {NoFiber}]
    BY <2>1 DEF TypeOK
  <2>3. cond' \in [Fibers -> Conds \cup {NoCond}] /\ cancelled' \subseteq Conds
    BY DEF TypeOK
  <2>4. /\ fpc' \in [Fibers -> {"call", "awake", "del", "done", "abort"} \cup Waiting]
        /\ result' \in [Fibers -> {"none", "ok", "error", "timeout"}]
    BY DEF TypeOK
  <2> QED
    BY <2>2, <2>3, <2>4 DEF TypeOK
<1>2. WokenOnce'
  BY DEF TypeOK, WokenOnce
<1>3. NoDanglingRegistration'
  BY DEF NoDanglingRegistration
<1>4. SuspendedIsReachable'
  BY <1>0 DEF SuspendedIsReachable
<1>5. RegisteredUses'
  BY DEF RegisteredUses, NoDanglingRegistration
<1>6. ConnectIsReachable'
  BY <1>0 DEF ConnectIsReachable
<1>7. AddIsIo'
  BY DEF AddIsIo
<1>8. CondIsMine'
  BY DEF TypeOK, CondIsMine, HasCond
<1>9. CancelledLives'
  BY DEF CancelledLives
<1>10. DelIsTimedOut'
  BY DEF TypeOK, DelIsTimedOut, CondIsMine, HasCond
<1>11. SleepsOnce'
  BY DEF SleepsOnce
<1>12. TimersArmed'
  BY DEF TypeOK, TimersArmed, Conds
<1> QED
  BY <1>1, <1>2, <1>3, <1>4, <1>5, <1>6, <1>7, <1>8, <1>9, <1>10, <1>11, <1>12

\* The assertion of addEvent ends everything that could break the invariant.
LEMMA AddAssertsKeeps ==
    ASSUME WaitInv, NEW f \in Fibers, AddAsserts(f)
    PROVE  WaitInv'
<1> USE CallsAssumption DEF WaitInv, RegistrationInv, AddAsserts, fiberVars, timerVars,
        kernelVars
<1>1. TypeOK'
  BY DEF TypeOK
<1>2. WokenOnce' /\ NoDanglingRegistration' /\ SuspendedIsReachable' /\ RegisteredUses'
  BY DEF WokenOnce, NoDanglingRegistration, SuspendedIsReachable, RegisteredUses
<1>3. ConnectIsReachable' /\ AddIsIo' /\ CondIsMine' /\ CancelledLives' /\ DelIsTimedOut'
  BY DEF ConnectIsReachable, AddIsIo, CondIsMine, HasCond, CancelledLives, DelIsTimedOut
<1>4. SleepsOnce' /\ TimersArmed'
  BY DEF SleepsOnce, TimersArmed
<1> QED
  BY <1>1, <1>2, <1>3, <1>4

-----------------------------------------------------------------------------
(* Timers, their callbacks, the kernel and idle().                         *)

LEMMA CollectKeeps ==
    ASSUME WaitInv, NEW c \in Conds, Collect(c)
    PROVE  WaitInv'
<1> USE CallsAssumption DEF WaitInv, RegistrationInv, Collect, fiberVars, timerVars,
        kernelVars, MayTimeOut, IoHasTimer, ConnectHasTimer
<1>1. TypeOK'
  BY DEF TypeOK
<1>2. SuspendedIsReachable'
  BY DEF SuspendedIsReachable
<1>3. SleepsOnce'
  BY DEF SleepsOnce
<1>4. TimersArmed'
  BY DEF TimersArmed
<1>5. /\ WokenOnce' /\ NoDanglingRegistration' /\ RegisteredUses'
      /\ ConnectIsReachable' /\ AddIsIo' /\ CondIsMine' /\ CancelledLives'
      /\ DelIsTimedOut'
  BY DEF WokenOnce, NoDanglingRegistration, RegisteredUses, ConnectIsReachable,
     AddIsIo, CondIsMine, CancelledLives, DelIsTimedOut
<1> QED
  BY <1>1, <1>2, <1>3, <1>4, <1>5

LEMMA CallbackKeeps ==
    ASSUME WaitInv, NEW c \in Conds, Callback(c)
    PROVE  WaitInv'
<1> USE CallsAssumption DEF WaitInv, RegistrationInv, Callback, Live, fiberVars, timerVars,
        kernelVars, MayTimeOut, IoHasTimer, ConnectHasTimer
<1>0. c[1] \in Fibers
  BY DEF Conds
<1>1. TypeOK'
  BY <1>0 DEF TypeOK
<1>2. WokenOnce'
  <2>1. ASSUME Live(c), call[c[1]] = "sleep"
        PROVE  fpc[c[1]] = "hold" /\ reg[SlotOf[c[1]]] # c[1]
    <3>1. fpc[c[1]] \in HasCond /\ c \notin cancelled
      BY <2>1, <1>0 DEF CondIsMine, Conds
    <3>2. fpc[c[1]] \in {"hold", "awake"}
      BY <3>1, <2>1, <1>0 DEF HasCond, AddIsIo, DelIsTimedOut
    <3>3. fpc[c[1]] = "hold"
      BY <3>2, <2>1, <1>0 DEF SleepsOnce
    <3> QED
      BY <3>3, <2>1, <1>0 DEF RegisteredUses
  <2> QED
    BY <2>1 DEF WokenOnce
<1>3. SuspendedIsReachable'
  BY DEF SuspendedIsReachable, CondIsMine, CancelledLives, HasCond
<1>4. ConnectIsReachable'
  BY DEF ConnectIsReachable
<1>5. CancelledLives'
  BY DEF CancelledLives
<1>6. DelIsTimedOut'
  BY DEF DelIsTimedOut
<1>7. SleepsOnce'
  BY DEF SleepsOnce
<1>8. TimersArmed'
  BY DEF TimersArmed
<1>9. NoDanglingRegistration' /\ RegisteredUses' /\ AddIsIo' /\ CondIsMine'
  BY DEF NoDanglingRegistration, RegisteredUses, AddIsIo, CondIsMine
<1> QED
  BY <1>1, <1>2, <1>3, <1>4, <1>5, <1>6, <1>7, <1>8, <1>9

LEMMA CanceEventKeeps ==
    ASSUME WaitInv, NEW c \in Conds, CanceEvent(c)
    PROVE  WaitInv'
<1> USE CallsAssumption DEF WaitInv, RegistrationInv, CanceEvent, Trigger, fiberVars,
        timerVars, kernelVars, MayTimeOut, IoHasTimer, ConnectHasTimer
<1>0. c[1] \in Fibers /\ SlotOf[c[1]] \in Slots
  BY DEF Conds
<1>1. TypeOK'
  BY <1>0 DEF TypeOK
<1>2. WokenOnce'
  BY <1>0 DEF TypeOK, WokenOnce, NoDanglingRegistration
<1>3. NoDanglingRegistration'
  BY DEF TypeOK, NoDanglingRegistration
<1>4. SuspendedIsReachable'
  BY DEF TypeOK, SuspendedIsReachable
<1>5. RegisteredUses'
  BY DEF TypeOK, RegisteredUses
<1>6. ConnectIsReachable'
  BY DEF TypeOK, ConnectIsReachable
<1>7. SleepsOnce'
  BY <1>0 DEF SleepsOnce, RegisteredUses
<1>8. AddIsIo' /\ CondIsMine' /\ CancelledLives' /\ DelIsTimedOut' /\ TimersArmed'
  BY DEF AddIsIo, CondIsMine, CancelledLives, DelIsTimedOut, TimersArmed
<1> QED
  BY <1>1, <1>2, <1>3, <1>4, <1>5, <1>6, <1>7, <1>8

LEMMA ArriveKeeps ==
    ASSUME WaitInv, NEW s \in Slots, Arrive(s)
    PROVE  WaitInv'
<1> USE CallsAssumption DEF WaitInv, RegistrationInv, Arrive, fiberVars, timerVars,
        kernelVars, MayTimeOut, IoHasTimer, ConnectHasTimer
<1>1. TypeOK'
  BY DEF TypeOK
<1>2. /\ WokenOnce' /\ NoDanglingRegistration' /\ SuspendedIsReachable' 
      /\ RegisteredUses' /\ ConnectIsReachable' /\ AddIsIo' /\ CondIsMine'
      /\ CancelledLives' /\ DelIsTimedOut' /\ SleepsOnce' /\ TimersArmed'
  BY DEF WokenOnce, NoDanglingRegistration, SuspendedIsReachable, RegisteredUses,
     ConnectIsReachable, AddIsIo, CondIsMine, CancelledLives, DelIsTimedOut, SleepsOnce,
     TimersArmed
<1> QED
  BY <1>1, <1>2

LEMMA HandleEventKeeps ==
    ASSUME WaitInv, NEW s \in Slots, HandleEvent(s)
    PROVE  WaitInv'
<1> USE CallsAssumption DEF WaitInv, RegistrationInv, HandleEvent, Trigger, fiberVars,
        timerVars, kernelVars, MayTimeOut, IoHasTimer, ConnectHasTimer
<1>1. TypeOK'
  BY DEF TypeOK
<1>2. WokenOnce'
  BY DEF TypeOK, WokenOnce, NoDanglingRegistration
<1>3. NoDanglingRegistration'
  BY DEF TypeOK, NoDanglingRegistration
<1>4. SuspendedIsReachable'
  BY DEF TypeOK, SuspendedIsReachable
<1>5. RegisteredUses'
  BY DEF TypeOK, RegisteredUses
<1>6. ConnectIsReachable'
  BY DEF TypeOK, ConnectIsReachable
<1>7. SleepsOnce'
  BY DEF SleepsOnce, RegisteredUses
<1>8. AddIsIo' /\ CondIsMine' /\ CancelledLives' /\ DelIsTimedOut' /\ TimersArmed'
  BY DEF AddIsIo, CondIsMine, CancelledLives, DelIsTimedOut, TimersArmed
<1> QED
  BY <1>1, <1>2, <1>3, <1>4, <1>5, <1>6, <1>7, <1>8

LEMMA CloseKeeps ==
    ASSUME WaitInv, NEW s \in Slots, Close(s)
    PROVE  WaitInv'
<1> USE CallsAssumption DEF WaitInv, RegistrationInv, Close, Trigger, fiberVars,
        timerVars, kernelVars, MayTimeOut, IoHasTimer, ConnectHasTimer
<1>1. TypeOK'
  BY DEF TypeOK
<1>2. WokenOnce'
  BY DEF TypeOK, WokenOnce, NoDanglingRegistration
<1>3. NoDanglingRegistration'
  BY DEF TypeOK, NoDanglingRegistration
<1>4. SuspendedIsReachable'
  BY DEF TypeOK, SuspendedIsReachable
<1>5. RegisteredUses'
  BY DEF TypeOK, RegisteredUses
<1>6. ConnectIsReachable'
  BY DEF TypeOK, ConnectIsReachable
<1>7. SleepsOnce'
  BY DEF SleepsOnce, RegisteredUses
<1>8. AddIsIo' /\ CondIsMine' /\ CancelledLives' /\ DelIsTimedOut' /\ TimersArmed'
  BY DEF AddIsIo, CondIsMine, CancelledLives, DelIsTimedOut, TimersArmed
<1> QED
  BY <1>1, <1>2, <1>3, <1>4, <1>5, <1>6, <1>7, <1>8

LEMMA WaitInitial == Init => WaitInv
<1> SUFFICES ASSUME Init PROVE WaitInv
  OBVIOUS
<1>1. TypeOK
  BY CallsAssumption DEF Init, TypeOK, Waiting
<1>2. WokenOnce /\ RegistrationInv /\ RegisteredUses
  BY CallsAssumption DEF Init, WokenOnce, RegistrationInv, NoDanglingRegistration,
     SuspendedIsReachable,
     RegisteredUses
<1>3. ConnectIsReachable /\ AddIsIo /\ DelIsTimedOut
  BY DEF Init, ConnectIsReachable, AddIsIo, DelIsTimedOut
<1>4. CondIsMine /\ CancelledLives
  BY DEF Init, CondIsMine, HasCond, CancelledLives
<1>5. SleepsOnce /\ TimersArmed
  BY DEF Init, SleepsOnce, TimersArmed
<1> QED
  BY <1>1, <1>2, <1>3, <1>4, <1>5 DEF WaitInv

LEMMA WaitStep == WaitInv /\ [Next]_vars => WaitInv'
<1> SUFFICES ASSUME WaitInv, [Next]_vars
             PROVE  WaitInv'
  OBVIOUS
<1>1. CASE UNCHANGED vars
  BY <1>1 DEF vars, fiberVars, timerVars, kernelVars, WaitInv, TypeOK, WokenOnce,
     RegistrationInv, NoDanglingRegistration, SuspendedIsReachable, RegisteredUses,
     ConnectIsReachable, AddIsIo, CondIsMine, CancelledLives, DelIsTimedOut, SleepsOnce,
     TimersArmed, MayTimeOut, IoHasTimer, ConnectHasTimer
<1>2. ASSUME NEW f \in Fibers, Start(f) \/ IoStep(f)
      PROVE  WaitInv'
  BY <1>2, StartKeeps, IoDoneKeeps, IoAgainKeeps, IoAddKeeps, IoAddFailsKeeps,
     IoRetryKeeps DEF IoStep
<1>3. ASSUME NEW f \in Fibers, ConnectStep(f) \/ SleepStep(f)
      PROVE  WaitInv'
  BY <1>3, ConnectDoneKeeps, ConnectAddKeeps, ConnectAddFailsKeeps, ConnectTimerKeeps,
     ConnectAwakeKeeps, SleepKeeps, SleepAwakeKeeps DEF ConnectStep, SleepStep
<1>4. ASSUME NEW f \in Fibers, Resume(f) \/ TimedOut(f) \/ DelEvent(f) \/ AddAsserts(f)
      PROVE  WaitInv'
  BY <1>4, ResumeKeeps, TimedOutKeeps, DelEventKeeps, AddAssertsKeeps
<1>5. ASSUME NEW c \in Conds, Collect(c) \/ Callback(c) \/ CanceEvent(c)
      PROVE  WaitInv'
  BY <1>5, CollectKeeps, CallbackKeeps, CanceEventKeeps
<1>6. ASSUME NEW s \in Slots, Arrive(s) \/ HandleEvent(s) \/ Close(s)
      PROVE  WaitInv'
  BY <1>6, ArriveKeeps, HandleEventKeeps, CloseKeeps
<1> QED
  BY <1>1, <1>2, <1>3, <1>4, <1>5, <1>6 DEF Next, FiberStep

-----------------------------------------------------------------------------
(* The theorems.                                                           *)

\* No registration of addEvent outlives its call, and every suspended call has
\* someone who can still wake it unless a call that timed out deleted its event:
\* for any fibers that share the fds, any timeouts, late callbacks, closes and
\* failures of epoll_ctl.
THEOREM RegistrationHolds == Spec => []RegistrationInv
<1>1. WaitInv => RegistrationInv
  BY DEF WaitInv
<1> QED
  BY <1>1, WaitInitial, WaitStep, PTL DEF Spec

\* Whatever the timeouts, a fiber is scheduled once per wait, and only after
\* its registration is gone (do_io, connect_with_tiemout and sleep).
THEOREM WokenOnceHolds == Spec => [](TypeOK /\ WokenOnce)
<1>1. WaitInv => TypeOK /\ WokenOnce
  BY DEF WaitInv
<1> QED
  BY <1>1, WaitInitial, WaitStep, PTL DEF Spec

\* The cond that DelEvent finds cancelled had a timer.
LEMMA TimedOutWasArmed ==
    ASSUME WaitInv, NEW f \in Fibers, DelEvent(f)
    PROVE  MayTimeOut(f)
<1>1. cond[f] \in cancelled /\ cond[f][1] = f
  BY DEF DelEvent, WaitInv, DelIsTimedOut, CondIsMine, HasCond
<1>2. call[f] # "sleep"
  BY <1>1 DEF WaitInv, CancelledLives
<1> QED
  BY <1>1, <1>2 DEF WaitInv, TimersArmed

\* DelEvent is the only step that answers "timeout", and a new call forgets it.
LEMMA TimeoutKept ==
    ASSUME WaitInv, TimeoutOnlyIfArmed, [Next]_vars
    PROVE  TimeoutOnlyIfArmed'
<1> SUFFICES ASSUME NEW f \in Fibers, result'[f] = "timeout"
             PROVE  MayTimeOut(f)'
  BY DEF TimeoutOnlyIfArmed
<1> USE CallsAssumption DEF WaitInv, TypeOK, Goto, Return, DropCond, fiberVars,
        timerVars, kernelVars
<1>1. result[f] = "timeout" \/ DelEvent(f)
  <2> SUFFICES ASSUME result[f] # "timeout" PROVE DelEvent(f)
    OBVIOUS
  <2>1. ~UNCHANGED vars
    BY DEF vars
  <2>2. \A g \in Fibers : ~Start(g) /\ ~SleepStep(g) /\ ~Resume(g) /\ ~TimedOut(g)
    BY DEF Start, SleepStep, Sleep, SleepAwake, Resume, TimedOut
  <2>3. \A g \in Fibers : ~IoStep(g) /\ ~AddAsserts(g)
    BY DEF IoStep, IoDone, IoAgain, IoAdd, IoAddFails, IoRetry, AddAsserts
  <2>4. \A g \in Fibers : ~ConnectStep(g)
    BY DEF ConnectStep, ConnectDone, ConnectAdd, ConnectAddFails, ConnectTimer,
       ConnectAwake, SoError
  <2>5. \A c \in Conds : ~Collect(c) /\ ~Callback(c) /\ ~CanceEvent(c)
    BY DEF Collect, Callback, CanceEvent
  <2>6. \A s \in Slots : ~Arrive(s) /\ ~HandleEvent(s) /\ ~Close(s)
    BY DEF Arrive, HandleEvent, Close
  <2>7. PICK g \in Fibers : DelEvent(g)
    BY <2>1, <2>2, <2>3, <2>4, <2>5, <2>6 DEF Next, FiberStep
  <2> QED
    BY <2>7 DEF DelEvent
<1>2. MayTimeOut(f)
  BY <1>1, TimedOutWasArmed DEF TimeoutOnlyIfArmed
<1>3. call'[f] = call[f] /\ ms'[f] = ms[f]
  <2>1. \A g \in Fibers : Start(g) => g # f /\ call'[f] = call[f] /\ ms'[f] = ms[f]
    BY DEF Start
  <2>2. \A g \in Fibers : FiberStep(g) => UNCHANGED <<call, ms>>
    BY DEF FiberStep, IoStep, IoDone, IoAgain, IoAdd, IoAddFails, IoRetry, ConnectStep,
       ConnectDone, ConnectAdd, ConnectAddFails, ConnectTimer, ConnectAwake, SleepStep,
       Sleep, SleepAwake, Resume, TimedOut, DelEvent, AddAsserts
  <2>3. \A c \in Conds : Collect(c) \/ Callback(c) \/ CanceEvent(c) => UNCHANGED <<call, ms>>
    BY DEF Collect, Callback, CanceEvent
  <2>4. \A s \in Slots : Arrive(s) \/ HandleEvent(s) \/ Close(s) => UNCHANGED <<call, ms>>
    BY DEF Arrive, HandleEvent, Close
  <2>5. UNCHANGED vars => UNCHANGED <<call, ms>>
    BY DEF vars
  <2> QED
    BY <2>1, <2>2, <2>3, <2>4, <2>5 DEF Next
<1> QED
  BY <1>2, <1>3 DEF MayTimeOut, IoHasTimer, ConnectHasTimer

\* A call that suspends is woken once, and answers ETIMEDOUT only if its own
\* timeout made a timer, the default one of do_io included.
THEOREM CallsHold == Spec => []CallInv
<1>1. Init => TimeoutOnlyIfArmed
  BY DEF Init, TimeoutOnlyIfArmed
<1>2. WaitInv /\ TimeoutOnlyIfArmed /\ [Next]_vars => TimeoutOnlyIfArmed'
  BY TimeoutKept
<1>3. WaitInv /\ TimeoutOnlyIfArmed => CallInv
  BY DEF WaitInv, CallInv
<1> QED
  BY <1>1, <1>2, <1>3, WaitInitial, WaitStep, PTL DEF Spec
=============================================================================
