----------------------------- MODULE FdManager -----------------------------
(***************************************************************************)
(* FdManager and FdCtx (wyze/fdmanager.cpp) under the hooks socket(),      *)
(* accept() and close() (wyze/hook.cpp): the table of contexts by fd       *)
(* number, while threads open and close descriptors and the kernel hands   *)
(* out the numbers again.  A file is the occasion on which a number was    *)
(* opened; a context remembers for which file it was made.                 *)
(***************************************************************************)
EXTENDS Integers, FiniteSets

CONSTANTS
    Openers,        \* the threads
    Unhooked,       \* those with t_hook_enable off
    FdLimit,        \* descriptors are 0..FdLimit - 1
    TableSize,      \* m_datas.resize(1024)
    MaxFiles        \* bound: how many files are opened

ASSUME FdManagerSizes == Unhooked \subseteq Openers /\ FdLimit \in Nat /\ TableSize \in Nat

VARIABLES
    kernel,         \* fd -> the file open under this number, 0 if none
    fd_datas,       \* m_datas: fd -> the file whose context is in the table, 0 if none
    opener,         \* Openers -> where the thread is in a hook
    files,          \* how many files were opened
    owned,          \* the files whose context socket() or accept() asked for
    dirty,          \* numbers closed behind the hooks' back
    peak,           \* the most descriptors open at the same time
    beyond          \* the table was written behind its end

fdVars == <<kernel, fd_datas, opener, files, owned, dirty, peak, beyond>>

Numbers == 0..(FdLimit - 1)

FdInit ==
    /\ kernel = [f \in Numbers |-> 0] /\ fd_datas = [f \in Numbers |-> 0]
    /\ opener = [t \in Openers |-> [at |-> "out", fd |-> 0]]
    /\ files = 0 /\ owned = {} /\ dirty = {} /\ peak = 0 /\ beyond = FALSE

Free == {f \in Numbers : kernel[f] = 0}
Lowest == CHOOSE f \in Free : \A g \in Free : f <= g
GoTo(t, at, f) == opener' = [opener EXCEPT ![t] = [at |-> at, fd |-> f]]

-----------------------------------------------------------------------------
\* socket() and accept(): the kernel gives the lowest free number.  socket()
\* asks for a context only with the hooks on, accept() always.
OpenFile(t, call) ==
    /\ opener[t].at = "out" /\ Free # {} /\ files < MaxFiles
    /\ files' = files + 1
    /\ kernel' = [kernel EXCEPT ![Lowest] = files + 1]
    /\ GoTo(t, IF t \in Unhooked /\ call = "socket" THEN "out" ELSE "get", Lowest)
    /\ LET open == FdLimit - Cardinality(Free) + 1
       IN  peak' = IF open > peak THEN open ELSE peak
    /\ UNCHANGED <<fd_datas, owned, dirty, beyond>>

\* (int)m_datas.size() > fd
Inside(f) == f < TableSize

\* get(fd, true): a number behind the table gets a context that is written
\* behind the table's end, a known one keeps its context.
GetCreate(t) ==
    /\ opener[t].at = "get"
    /\ LET f == opener[t].fd
       IN  /\ fd_datas' = IF Inside(f) /\ fd_datas[f] = 0
                         THEN [fd_datas EXCEPT ![f] = kernel[f]] ELSE fd_datas
           /\ beyond' = (beyond \/ ~Inside(f))
           /\ owned' = owned \cup {kernel[f]}
    /\ GoTo(t, "out", 0)
    /\ UNCHANGED <<kernel, files, dirty, peak>>

\* The fd is closed once: not while its opening or its closing is under way.
Busy(f) == \E t \in Openers : opener[t].at # "out" /\ opener[t].fd = f

\* Mutant: the descriptor goes first.
CloseBeforeDel(n) == IF n = 1 THEN "close" ELSE "del"
\* close(): the events are cancelled and the context is deleted, then, a step
\* later, the descriptor is closed.
CloseStage(n) == IF n = 1 THEN "del" ELSE "close"

CloseStep(n, f) ==
    /\ fd_datas' = IF CloseStage(n) = "del" THEN [fd_datas EXCEPT ![f] = 0] ELSE fd_datas
    /\ kernel' = IF CloseStage(n) = "close" THEN [kernel EXCEPT ![f] = 0] ELSE kernel
    /\ dirty' = IF CloseStage(n) = "del" THEN dirty \ {f} ELSE dirty
    /\ UNCHANGED <<files, owned, peak, beyond>>

BeginClose(t, f) ==
    /\ t \notin Unhooked /\ opener[t].at = "out" /\ kernel[f] # 0 /\ ~Busy(f)
    /\ GoTo(t, "close", f)
    /\ CloseStep(1, f)

EndClose(t) ==
    /\ opener[t].at = "close"
    /\ GoTo(t, "out", 0)
    /\ CloseStep(2, opener[t].fd)

\* A thread without the hooks closes: the context stays.
CloseUnhooked(t, f) ==
    /\ t \in Unhooked /\ kernel[f] # 0 /\ ~Busy(f)
    /\ kernel' = [kernel EXCEPT ![f] = 0]
    /\ dirty' = IF fd_datas[f] = 0 THEN dirty ELSE dirty \cup {f}
    /\ UNCHANGED <<fd_datas, opener, files, owned, peak, beyond>>

FdNext ==
    \E t \in Openers :
        \/ OpenFile(t, "socket") \/ OpenFile(t, "accept") \/ GetCreate(t) \/ EndClose(t)
        \/ \E f \in Numbers : BeginClose(t, f) \/ CloseUnhooked(t, f)

-----------------------------------------------------------------------------
\* A socket that socket() or accept() has returned finds its own context (its
\* timeouts and flags) in the table, and a number never has the context of a
\* file that is gone, however opening, closing and the reuse of the number
\* interleave; unless a thread without the hooks closed the number.
ContextOfThisFile ==
    \A f \in Numbers : f < TableSize /\ f \notin dirty /\ ~Busy(f) =>
        /\ kernel[f] \in owned => fd_datas[f] = kernel[f]
        /\ fd_datas[f] \in {0, kernel[f]}

\* The table of fixed size (fdmanager.cpp:96) is written behind its end only
\* when more descriptors are open at the same time than it has entries.
BeyondOnlyWhenFull == beyond => peak > TableSize

\* What FdManager promises the hooks: a number has the context of its own file,
\* and the table of fixed size is enough for as many descriptors.
FdInv == ContextOfThisFile /\ BeyondOnlyWhenFull
=============================================================================
