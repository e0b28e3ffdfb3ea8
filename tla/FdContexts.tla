----------------------------- MODULE FdContexts -----------------------------
(***************************************************************************)
(* The table of FdContext objects in wyze/iomanager.cpp: how addEvent and  *)
(* the calls that end a wait find the object of an fd, and how the table   *)
(* grows.                                                                  *)
(*                                                                         *)
(* addEvent looks at the size under the read lock, releases it, and grows  *)
(* the table under the write lock.  The objects of one fd are numbered in  *)
(* the order in which they were allocated; the kernel keeps the pointer    *)
(* that addEvent gave it in epoll_event.data.ptr.  One event per fd is     *)
(* enough here, and no two callers wait for the same one.                  *)
(***************************************************************************)
EXTENDS Integers

CONSTANTS
    Threads,
    Fds,          \* the fds used, a set of numbers
    InitialSize,  \* the 32 of the constructor
    MaxObjects    \* bound: how often the object of one fd is allocated

ASSUME TableAssumption ==
    Fds \subseteq Nat /\ InitialSize \in Nat \ {0, 1} /\ MaxObjects \in Nat \ {0}

VARIABLES
    size,       \* m_fdContexts.size()
    slot,       \* the object in the slot of each fd, 0 beyond the end
    made,       \* how many objects each fd has had
    regObj,     \* the object that epoll has for each fd, 0 for none
    pc,         \* "ready", "grow" or "lock", per thread
    fdArg,      \* the fd of the addEvent the thread is in, -1 for none
    held,       \* its local fd_ctx, 0 for none
    stale       \* the table was resized for an fd that already had a slot

tableVars == <<size, slot, made, regObj, pc, fdArg, held, stale>>

TableTypeOK ==
    /\ size \in Nat
    /\ slot \in [Fds -> 0..MaxObjects]
    /\ made \in [Fds -> 0..MaxObjects]
    /\ regObj \in [Fds -> 0..MaxObjects]
    /\ pc \in [Threads -> {"ready", "grow", "lock"}]
    /\ fdArg \in [Threads -> Fds \cup {-1}]
    /\ held \in [Threads -> 0..MaxObjects]

\* contextResize(32) in the constructor.
TableInit ==
    /\ size = InitialSize
    /\ slot = [fd \in Fds |-> IF fd < InitialSize THEN 1 ELSE 0]
    /\ made = slot
    /\ regObj = [fd \in Fds |-> 0]
    /\ pc = [t \in Threads |-> "ready"]
    /\ fdArg = [t \in Threads |-> -1]
    /\ held = [t \in Threads |-> 0]
    /\ stale = FALSE

-----------------------------------------------------------------------------
\* The slots that contextResize(n) has to fill.
Missing(n) == {fd \in Fds : fd < n /\ slot[fd] = 0}

ContextResize(n) ==
    /\ size' = n
    /\ slot' = [fd \in Fds |-> IF fd >= n THEN 0
                               ELSE IF fd \in Missing(n) THEN made[fd] + 1 ELSE slot[fd]]
    /\ made' = [fd \in Fds |-> IF fd \in Missing(n) THEN made[fd] + 1 ELSE made[fd]]

\* Mutant: the table is compared with its first size.
InTableAtFirst(fd) == fd < InitialSize

InTable(fd) == size > fd

\* fd * 1.5
GrowTo(fd) == (3 * fd) \div 2

\* addEvent under the read lock.
AddEvent(t) ==
    \E fd \in Fds :
        /\ pc[t] = "ready" /\ regObj[fd] = 0
        /\ \A u \in Threads : fdArg[u] # fd
        /\ fdArg' = [fdArg EXCEPT ![t] = fd]
        /\ pc' = [pc EXCEPT ![t] = IF InTable(fd) THEN "lock" ELSE "grow"]
        /\ held' = [held EXCEPT ![t] = IF InTable(fd) THEN slot[fd] ELSE 0]
        /\ UNCHANGED <<size, slot, made, regObj, stale>>

\* addEvent under the write lock.  The size is not looked at again: another
\* thread may have made room for the fd meanwhile.
Grow(t) ==
    /\ pc[t] = "grow"
    /\ stale' = (stale \/ InTable(fdArg[t]))
    /\ \A fd \in Fds : made[fd] < MaxObjects
    /\ ContextResize(GrowTo(fdArg[t]))
    /\ held' = [held EXCEPT ![t] = slot'[fdArg[t]]]
    /\ pc' = [pc EXCEPT ![t] = "lock"]
    /\ UNCHANGED <<regObj, fdArg>>

\* ev.data.ptr
EpollData(t) == held[t]

\* addEvent under the object's mutex: epoll gets the pointer.
Register(t) ==
    /\ pc[t] = "lock"
    /\ regObj' = [regObj EXCEPT ![fdArg[t]] = EpollData(t)]
    /\ pc' = [pc EXCEPT ![t] = "ready"]
    /\ fdArg' = [fdArg EXCEPT ![t] = -1]
    /\ held' = [held EXCEPT ![t] = 0]
    /\ UNCHANGED <<size, slot, made, stale>>

\* delEvent, canceEvent, canceAll: they return false for an fd beyond the end
\* and for an object without events, otherwise the wait ends.
EndWait(t) ==
    \E fd \in Fds :
        /\ pc[t] = "ready" /\ size > fd
        /\ regObj[fd] # 0 /\ slot[fd] = regObj[fd]
        /\ regObj' = [regObj EXCEPT ![fd] = 0]
        /\ UNCHANGED <<size, slot, made, pc, fdArg, held, stale>>

TableNext == \E t \in Threads : AddEvent(t) \/ Grow(t) \/ Register(t) \/ EndWait(t)

-----------------------------------------------------------------------------
\* addEvent always comes out with an object for its fd, whatever the fd: the
\* table it grows to has a slot for it.
AddEventFindsContext == \A t \in Threads : pc[t] = "lock" => held[t] # 0

(***************************************************************************)
(* The object that epoll reports for an fd is the one in the table, so the *)
(* wait can be cancelled, as long as no thread grew the table after        *)
(* another had made room for its fd.  (Then the vector may be cut short:   *)
(* the comment at iomanager.cpp:111 says that the slot is not allocated,   *)
(* but the size was compared before the write lock was taken.)             *)
(***************************************************************************)
RegisteredIsReachable ==
    ~stale => \A fd \in Fds : regObj[fd] # 0 => slot[fd] = regObj[fd]

\* addEvent finds a context for every fd it makes room for, and epoll and the
\* table mean the same object.
TableInv == TableTypeOK /\ AddEventFindsContext /\ RegisteredIsReachable
=============================================================================
