------------------------------- MODULE Daemon -------------------------------
(***************************************************************************)
(* The daemon (wyze/daemon.cpp): a parent that forks the server, restarts  *)
(* it when it crashes and kills it when one of its threads has not called  *)
(* update_thread_time for longer than the interval, by a table in shared   *)
(* memory.  Times are kept as ages that stop counting at Forever, so that  *)
(* the clock is unbounded.                                                 *)
(***************************************************************************)
EXTENDS Integers, Sequences, FiniteSets

CONSTANTS
    DaemonThreads,      \* the threads of the server that report
    InfoSize,           \* THREAD_INFO_ARRAY
    DefaultInterval,    \* the interval that init_shm sets
    Intervals,          \* the intervals the server asks for
    Forever,            \* bound: ages stop counting, beyond every interval
    MaxRestarts         \* bound: forks

ASSUME DaemonSizes ==
    /\ InfoSize \in Nat /\ DefaultInterval \in Nat /\ Intervals \subseteq Nat /\ Forever \in Nat
    /\ Forever > DefaultInterval /\ \A i \in Intervals : Forever > 2 * i

VARIABLES
    parent,         \* "fork", "watch", "detect" or "ended"
    child,          \* "none", "starting", "running", "exited" (status not 64), "crashed" (or 64)
    forks,
    since,          \* how long ago old_time was
    interval,       \* g_detectInfo->interval
    infos,          \* the table's first real_size entries: [thread, fork, age]
    reporter,       \* thread -> "new", "insert" (has passed the size test), "listed", "hung"
    raced,          \* a thread tested the size of the table while another was inserting
    unjust          \* a child was killed although its threads reported in time

daemonVars == <<parent, child, forks, since, interval, infos, reporter, raced, unjust>>

Older(age) == IF age < Forever THEN age + 1 ELSE age

DaemonInit ==
    /\ parent = "fork" /\ child = "none" /\ forks = 0 /\ since = 0
    /\ interval = DefaultInterval /\ infos = <<>>
    /\ reporter = [t \in DaemonThreads |-> "new"]
    /\ raced = FALSE /\ unjust = FALSE

-----------------------------------------------------------------------------
(* The parent.                                                             *)

Fork ==
    /\ parent = "fork" /\ forks < MaxRestarts
    /\ parent' = "watch" /\ child' = "starting" /\ forks' = forks + 1 /\ since' = 0
    /\ reporter' = [t \in DaemonThreads |-> "new"]
    /\ UNCHANGED <<interval, infos, raced, unjust>>

\* waitpid gives the child: a normal exit ends the daemon, a crash or the
\* status 64 starts it again.
Reap ==
    /\ parent = "watch" /\ child \in {"exited", "crashed"}
    /\ parent' = IF child = "exited" THEN "ended" ELSE "fork"
    /\ child' = "none"
    /\ UNCHANGED <<forks, since, interval, infos, reporter, raced, unjust>>

\* Mutant: no thread is ever late.
LateNever(age) == FALSE
\* record_time < now - interval
Late(age) == age > interval

OfThisChild(e) == e.fork = forks

\* The interval is over, by what the table says of it now.
Look ==
    /\ parent = "watch" /\ child \in {"starting", "running"} /\ since > interval
    /\ parent' = "detect"
    /\ UNCHANGED <<child, forks, since, interval, infos, reporter, raced, unjust>>

\* detect_thread_time(g_detectInfo->interval), the interval read again: kill,
\* or note the time.
Detect ==
    /\ parent = "detect" /\ parent' = "watch"
    /\ LET late == \E i \in DOMAIN infos : Late(infos[i].age)
       IN  /\ child' = IF late /\ child \in {"starting", "running"} THEN "crashed" ELSE child
           /\ since' = IF late THEN Forever ELSE 0
           /\ unjust' = (unjust \/ (late /\ child = "running"
                             /\ ~\E i \in DOMAIN infos : OfThisChild(infos[i]) /\ infos[i].age > interval))
    /\ UNCHANGED <<forks, interval, infos, reporter, raced>>

-----------------------------------------------------------------------------
(* The server.                                                             *)

\* Mutant: the table is kept.
KeepInfos == infos
\* reset_real_size
ResetInfos == <<>>

StartChild ==
    /\ child = "starting"
    /\ child' = "running"
    /\ infos' = ResetInfos
    /\ UNCHANGED <<parent, forks, since, interval, reporter, raced, unjust>>

Ends(how) ==
    /\ child = "running"
    /\ child' = how
    /\ UNCHANGED <<parent, forks, since, interval, infos, reporter, raced, unjust>>

\* set_detect_interval: the next child inherits it.
SetInterval(i) ==
    /\ child = "running"
    /\ interval' = 2 * i
    /\ UNCHANGED <<parent, child, forks, since, infos, reporter, raced, unjust>>

\* update_thread_time of a thread that is not in the table: the size is
\* tested before the mutex is taken.
HasRoom == Len(infos) < InfoSize

FirstReport(t) ==
    /\ child = "running" /\ reporter[t] = "new" /\ HasRoom
    /\ reporter' = [reporter EXCEPT ![t] = "insert"]
    /\ raced' = (raced \/ \E u \in DaemonThreads : reporter[u] = "insert")
    /\ UNCHANGED <<parent, child, forks, since, interval, infos, unjust>>

Insert(t) ==
    /\ child = "running" /\ reporter[t] = "insert"
    /\ infos' = Append(infos, [thread |-> t, fork |-> forks, age |-> 0])
    /\ reporter' = [reporter EXCEPT ![t] = "listed"]
    /\ UNCHANGED <<parent, child, forks, since, interval, raced, unjust>>

Report(t) ==
    /\ child = "running" /\ reporter[t] = "listed"
    /\ infos' = [i \in DOMAIN infos |->
                    IF infos[i].thread = t THEN [infos[i] EXCEPT !.age = 0] ELSE infos[i]]
    /\ UNCHANGED <<parent, child, forks, since, interval, reporter, raced, unjust>>

\* The thread hangs, or has ended: it does not report any more.
Hang(t) ==
    /\ child = "running" /\ reporter[t] = "listed"
    /\ reporter' = [reporter EXCEPT ![t] = "hung"]
    /\ UNCHANGED <<parent, child, forks, since, interval, infos, raced, unjust>>

\* The clock: a second.
DaemonTick ==
    /\ since' = Older(since)
    /\ infos' = [i \in DOMAIN infos |-> [infos[i] EXCEPT !.age = Older(@)]]
    /\ UNCHANGED <<parent, child, forks, interval, reporter, raced, unjust>>

DaemonNext ==
    \/ Fork \/ Reap \/ Look \/ Detect \/ DaemonTick
    \/ StartChild \/ Ends("exited") \/ Ends("crashed")
    \/ \E t \in DaemonThreads : FirstReport(t) \/ Insert(t) \/ Report(t) \/ Hang(t)
    \/ \E i \in Intervals : SetInterval(i)

-----------------------------------------------------------------------------
\* A running child is killed only because one of its own threads did not
\* report within the interval that the table names at that moment: entries of
\* the children before it never count.  (A child that takes longer than the
\* interval to reach reset_real_size is killed for them.)
KilledForCause == ~unjust

\* The table is written behind its end only if two threads report for the
\* first time together: the size is tested before the mutex is taken
\* (daemon.cpp:175).
OverrunOnlyRaced == Len(infos) > InfoSize => raced

\* A child with a thread that hangs is replaced, or the daemon ends with it,
\* however often set_detect_interval changes the interval meanwhile.
HungIsReplaced ==
    \A t \in DaemonThreads, n \in 1..MaxRestarts :
        (forks = n /\ child = "running" /\ reporter[t] = "hung")
            ~> (forks > n \/ parent = "ended" \/ (forks = MaxRestarts /\ child = "none"))

\* The table in shared memory: a child is judged by its own entries, and the
\* entries stay inside unless two threads met.
DaemonInv == KilledForCause /\ OverrunOnlyRaced
=============================================================================
