--------------------------- MODULE MCTimerManager ---------------------------
(* TimerManager on small instances.                                        *)
EXTENDS TimerManager, TLC

\* Threads of one kind are interchangeable (used in safety runs only).
Symmetry == Permutations(Users) \cup Permutations(Pollers)

\* The fields of a timer without a callback play no role any more.
Live == [t \in Timers |-> IF m_cb[t] THEN <<m_ms[t], m_recurring[t], m_next[t], due[t]>>
                          ELSE <<>>]

\* The pipe only decides which of Return's three actions is taken.
View == <<clockVars, m_timers, Live, m_tickled, m_previousTime, userVars,
          ppc, deadline, now_ms, cbs, readAt, unseen, fired>>
=============================================================================
