----------------------------- MODULE ConfigVar -----------------------------
(***************************************************************************)
(* ConfigVar (wyze/config.h): setVal runs the listeners under the read     *)
(* lock, which setters share, and assigns under the write lock, which it   *)
(* takes afterwards.  A listener keeps a copy of the value, as those of    *)
(* hook.cpp, http_session.cpp and http_connection.cpp do: it reads         *)
(* getValue() and then calls addListener().                                *)
(***************************************************************************)
EXTENDS Integers, FiniteSets

CONSTANTS
    Setters,        \* threads that call setVal
    Listeners,      \* numbered as m_cbs orders them
    ConfigValues,
    MaxSets         \* bound: calls of setVal

ASSUME ListenersNumbered == Listeners \subseteq Nat

VARIABLES
    m_val,
    m_cbs,          \* the listeners in the map
    copy,           \* Listeners -> the value they were given last
    setter,         \* Setters -> [at, v, done]
    reading,        \* listeners between getValue() and addListener()
    sets,
    overlap         \* a setVal met another one, or a listener being added

configVars == <<m_val, m_cbs, copy, setter, reading, sets, overlap>>

ConfigInit ==
    /\ m_val = CHOOSE v \in ConfigValues : TRUE
    /\ m_cbs = {} /\ copy = [l \in Listeners |-> m_val]
    /\ setter = [s \in Setters |-> [at |-> "idle", v |-> m_val, done |-> {}]]
    /\ reading = {} /\ sets = 0 /\ overlap = FALSE

Active == {s \in Setters : setter[s].at # "idle"}
\* The holders of the read lock.
Readers == {s \in Setters : setter[s].at = "notify"}

-----------------------------------------------------------------------------
(* setVal.                                                                 *)

\* The read lock; a value that is already there ends the call.
BeginSet(s, v) ==
    /\ setter[s].at = "idle" /\ sets < MaxSets /\ v # m_val
    /\ sets' = sets + 1
    /\ setter' = [setter EXCEPT ![s] = [at |-> "notify", v |-> v, done |-> {}]]
    /\ overlap' = (overlap \/ Active # {} \/ reading # {})
    /\ UNCHANGED <<m_val, m_cbs, copy, reading>>

\* Mutant: the first listener is all there is.
RemainingOne(s) == IF setter[s].done = {} THEN m_cbs ELSE {}
Remaining(s) == {l \in m_cbs : \A d \in setter[s].done : d < l}

Notify(s, l) ==
    /\ setter[s].at = "notify"
    /\ l \in Remaining(s) /\ \A k \in Remaining(s) : l <= k
    /\ copy' = [copy EXCEPT ![l] = setter[s].v]
    /\ setter' = [setter EXCEPT ![s].done = @ \cup {l}]
    /\ UNCHANGED <<m_val, m_cbs, reading, sets, overlap>>

EndNotify(s) ==
    /\ setter[s].at = "notify" /\ Remaining(s) = {}
    /\ setter' = [setter EXCEPT ![s].at = "assign"]
    /\ UNCHANGED <<m_val, m_cbs, copy, reading, sets, overlap>>

\* The write lock.
Assign(s) ==
    /\ setter[s].at = "assign" /\ Readers = {}
    /\ m_val' = setter[s].v
    /\ setter' = [setter EXCEPT ![s].at = "idle"]
    /\ UNCHANGED <<m_cbs, copy, reading, sets, overlap>>

-----------------------------------------------------------------------------
(* The listeners.                                                          *)

ReadValue(l) ==
    /\ l \notin m_cbs /\ l \notin reading
    /\ copy' = [copy EXCEPT ![l] = m_val]
    /\ reading' = reading \cup {l}
    /\ overlap' = (overlap \/ Active # {})
    /\ UNCHANGED <<m_val, m_cbs, setter, sets>>

addListener(l) ==
    /\ l \in reading /\ Readers = {}
    /\ m_cbs' = m_cbs \cup {l}
    /\ reading' = reading \ {l}
    /\ UNCHANGED <<m_val, copy, setter, sets, overlap>>

delListener(l) ==
    /\ l \in m_cbs /\ Readers = {}
    /\ m_cbs' = m_cbs \ {l}
    /\ UNCHANGED <<m_val, copy, setter, reading, sets, overlap>>

clearListener ==
    /\ Readers = {}
    /\ m_cbs' = {}
    /\ UNCHANGED <<m_val, copy, setter, reading, sets, overlap>>

ConfigNext ==
    \/ clearListener
    \/ \E s \in Setters : EndNotify(s) \/ Assign(s) \/ \E l \in Listeners : Notify(s, l)
    \/ \E s \in Setters, v \in ConfigValues : BeginSet(s, v)
    \/ \E l \in Listeners : ReadValue(l) \/ addListener(l) \/ delListener(l)

ConfigFairness ==
    \A s \in Setters :
        WF_configVars(EndNotify(s) \/ Assign(s) \/ \E l \in Listeners : Notify(s, l))

-----------------------------------------------------------------------------
\* Once the setters are done every listener has the value of the variable,
\* unless two setVal calls met: the listeners run before the assignment and
\* under a lock the setters share (config.h:315), so that two calls may leave
\* the variable with the value of one and the listeners with the other's.
ListenersAgree == Active = {} /\ ~overlap => \A l \in m_cbs : copy[l] = m_val

\* setVal walks over m_cbs while nobody changes it: what it has called is
\* still in the map.
MapStableInWalk ==
    \A s \in Setters : setter[s].at = "notify" => setter[s].done \subseteq m_cbs

\* A call of setVal returns: the locks are given back, and a writer is not
\* shut out for ever by a bounded number of readers.
SetReturns == \A s \in Setters : setter[s].at = "notify" ~> setter[s].at = "idle"

\* setVal's two locks: nobody changes the map in the walk, and the listeners
\* end with the value of the variable unless two calls met.
ConfigInv == ListenersAgree /\ MapStableInWalk
=============================================================================
