------------------------------ MODULE PoolProofs ------------------------------
(***************************************************************************)
(* Proofs about the pool of HTTP connections, for any number of callers    *)
(* and connections.  Only the list is under the mutex; that no connection  *)
(* and no count is lost rests on who holds which connection at each stage  *)
(* of a call.                                                              *)
(***************************************************************************)
EXTENDS StructuresProofs

\* The stages in which a caller has a connection.
Holding == {"count", "send", "receive", "release", "delete", "push"}
Stages == Holding \cup {"idle", "connect", "uncount"}

\* A request names its caller and the caller's call.
Requests == Callers \X Nat
ConnOrNone == PoolConns \cup {NoConn}
RequestOrNone == Requests \cup {<<>>}
Objects == [alive : BOOLEAN, connected : BOOLEAN, created : Int, m_request : Nat,
            sent : Seq(Requests), wire : Seq(Requests)]
Calls == [at : Stages, conn : ConnOrNone, asks : Nat, got : RequestOrNone]

PoolTypeOK ==
    /\ m_conns \in Seq(PoolConns) /\ m_total \in Int
    /\ conn \in [PoolConns -> Objects]
    /\ caller \in [Callers -> Calls]
    /\ clock \in Nat /\ start \in Nat

\* A caller has a connection in these stages only, and no two have the same.
HeldOnce ==
    /\ \A u \in Callers : caller[u].conn \in PoolConns <=> caller[u].at \in Holding
    /\ \A u, v \in Callers : caller[u].conn = caller[v].conn /\ caller[u].conn \in PoolConns => u = v

\* A connection is in the list once, and not while a caller has it.
ListedOnce ==
    /\ \A i, j \in 1..Len(m_conns) : m_conns[i] = m_conns[j] => i = j
    /\ \A i \in 1..Len(m_conns), u \in Callers : caller[u].conn # m_conns[i]

Listed(c) == \E i \in 1..Len(m_conns) : m_conns[i] = c
Held(c) == \E u \in Callers : caller[u].conn = c
AliveIsKnown == \A c \in PoolConns : conn[c].alive <=> Listed(c) \/ Held(c)

\* Nothing is on its way on a connection, in either direction.
Quiet(c) == conn[c].sent = <<>> /\ conn[c].wire = <<>>

\* Nothing is under way on a connection that may be used again; while a caller
\* waits for its answer, its own request is, or the answer to it.
StreamOfStage(u, at, c) ==
    /\ at \in {"count", "send", "push"} => conn[c].connected /\ Quiet(c)
    /\ at \in {"release", "delete"} /\ conn[c].connected => Quiet(c)
    /\ at = "receive" =>
          LET mine == <<u, caller[u].asks>>
          IN  \/ conn[c].sent = <<mine>> /\ conn[c].wire = <<>>
              \/ conn[c].sent = <<>> /\ conn[c].wire = <<mine>>

Streams ==
    /\ \A i \in 1..Len(m_conns) : conn[m_conns[i]].connected /\ Quiet(m_conns[i])
    /\ \A u \in Callers : StreamOfStage(u, caller[u].at, caller[u].conn)

CallersAt(stage) == {u \in Callers : caller[u].at = stage}
Existing == {c \in PoolConns : conn[c].alive}

\* A caller that will push has its place in the list.
RoomKept == Len(m_conns) + Cardinality(CallersAt("push")) <= m_maxSize

PoolIInv ==
    /\ PoolTypeOK /\ HeldOnce /\ ListedOnce /\ AliveIsKnown /\ Streams /\ AnswerIsMine
    /\ TotalIsExact /\ RoomKept /\ RetiredOnlyOld

-----------------------------------------------------------------------------
(* Types.                                                                  *)

LEMMA StagesAre ==
    /\ \A s \in Holding : s \in Stages
    /\ "idle" \in Stages /\ "connect" \in Stages /\ "uncount" \in Stages
BY DEF Stages

\* A caller's record after some of its fields were set.
LEMMA CallType ==
    ASSUME NEW r \in Calls, NEW at \in Stages, NEW c \in ConnOrNone, NEW n \in Nat,
           NEW g \in RequestOrNone
    PROVE  /\ [r EXCEPT !.at = at] \in Calls
           /\ [r EXCEPT !.at = at, !.conn = c] \in Calls
           /\ [r EXCEPT !.at = at, !.conn = c, !.asks = n] \in Calls
           /\ [r EXCEPT !.at = at, !.got = g] \in Calls
BY DEF Calls

\* A connection's record after some of its fields were set.
LEMMA ObjectType ==
    ASSUME NEW r \in Objects, NEW b \in BOOLEAN, NEW n \in Nat, NEW t \in Int,
           NEW s \in Seq(Requests), NEW w \in Seq(Requests)
    PROVE  /\ Fresh \in Objects
           /\ [Fresh EXCEPT !.alive = TRUE, !.connected = TRUE, !.created = t] \in Objects
           /\ [r EXCEPT !.connected = b] \in Objects
           /\ [r EXCEPT !.m_request = n] \in Objects
           /\ [r EXCEPT !.sent = s] \in Objects
           /\ [r EXCEPT !.wire = w] \in Objects
           /\ [r EXCEPT !.sent = s, !.wire = w] \in Objects
<1>1. Fresh \in Objects
  BY DEF Objects, Fresh
<1>2. [Fresh EXCEPT !.alive = TRUE, !.connected = TRUE, !.created = t] \in Objects
  BY <1>1 DEF Objects
<1>3. [r EXCEPT !.connected = b] \in Objects /\ [r EXCEPT !.m_request = n] \in Objects
  BY DEF Objects
<1>4. [r EXCEPT !.sent = s] \in Objects /\ [r EXCEPT !.wire = w] \in Objects
  BY DEF Objects
<1>5. [r EXCEPT !.sent = s, !.wire = w] \in Objects
  BY DEF Objects
<1> QED
  BY <1>1, <1>2, <1>3, <1>4, <1>5

-----------------------------------------------------------------------------
(* Counting.                                                               *)

\* An injective function has as many values as arguments.
LEMMA ImageCount ==
    ASSUME NEW Elems, IsFiniteSet(Elems), NEW f, f = [x \in Elems |-> f[x]],
           \A x, y \in Elems : f[x] = f[y] => x = y
    PROVE  IsFiniteSet({f[x] : x \in Elems}) /\ Cardinality({f[x] : x \in Elems}) = Cardinality(Elems)
<1> DEFINE T == {f[x] : x \in Elems}
<1>1. f \in Surjection(Elems, T) /\ f \in Injection(Elems, T)
  BY DEF Surjection, Injection, IsInjective
<1> QED
  BY <1>1, FS_Surjection

LEMMA ExistingIsFinite == IsFiniteSet(Existing) /\ Cardinality(Existing) \in Nat
<1>1. Existing \in SUBSET PoolConns
  BY DEF Existing
<1> QED
  BY <1>1, PoolObjects, FS_Subset, FS_CardinalityType

\* The connections that exist: the listed ones and those the callers have.
LEMMA ExistingCount ==
    ASSUME PoolIInv, NEW X \in SUBSET Callers, \A u \in X : caller[u].at \in Holding
    PROVE  /\ IsFiniteSet(X) /\ Cardinality(X) \in Nat
           /\ IsFiniteSet(Existing) /\ Cardinality(Existing) \in Nat
           /\ Cardinality(Existing) >= Len(m_conns) + Cardinality(X)
<1> USE DEF PoolIInv
<1> DEFINE n == Len(m_conns)
           A == {m_conns[i] : i \in 1..n}
           has == [u \in X |-> caller[u].conn]
           B == {has[u] : u \in X}
<1>1. n \in Nat /\ m_conns = [i \in 1..n |-> m_conns[i]]
  BY DEF PoolTypeOK
<1>2. IsFiniteSet(1..n) /\ Cardinality(1..n) = n
  <2>1. IsFiniteSet(1..n) /\ Cardinality(1..n) = IF 1 > n THEN 0 ELSE n - 1 + 1
    BY <1>1, FS_Interval, 1 \in Int, n \in Int, Zenon
  <2> QED
    BY <1>1, <2>1
<1>3. IsFiniteSet(A) /\ Cardinality(A) = n
  BY <1>1, <1>2, ImageCount DEF ListedOnce
<1>4. IsFiniteSet(X) /\ Cardinality(X) \in Nat /\ IsFiniteSet(PoolConns)
  BY PoolObjects, FS_Subset, FS_CardinalityType
<1>5. \A u \in X : has[u] \in PoolConns /\ has[u] = caller[u].conn
  BY DEF HeldOnce
<1>6. \A u, v \in X : has[u] = has[v] => u = v
  BY <1>5 DEF HeldOnce
<1>7. IsFiniteSet(B) /\ Cardinality(B) = Cardinality(X)
  <2>1. has = [u \in X |-> has[u]]
    OBVIOUS
  <2> HIDE DEF has
  <2> QED
    BY <2>1, <1>4, <1>6, ImageCount
<1>8. A \cap B = {}
  BY <1>5 DEF ListedOnce
<1>9. A \cup B \in SUBSET Existing
  <2>1. \A i \in 1..n : m_conns[i] \in PoolConns
    BY ElementOfSeq DEF PoolTypeOK
  <2>2. A \subseteq Existing
    BY <2>1 DEF Existing, AliveIsKnown, Listed
  <2>3. B \subseteq Existing
    BY <1>5 DEF Existing, AliveIsKnown, Held
  <2> QED
    BY <2>2, <2>3
<1>10. IsFiniteSet(Existing) /\ Cardinality(Existing) \in Nat
  BY <1>4, FS_Subset, FS_CardinalityType DEF Existing
<1> HIDE DEF A, B
<1>11. IsFiniteSet(A \cup B) /\ Cardinality(A \cup B) = n + Cardinality(X)
  <2>1. Cardinality(A \cup B) = Cardinality(A) + Cardinality(B) - Cardinality(A \cap B)
    BY <1>3, <1>7, FS_Union
  <2>2. Cardinality(A \cap B) = 0
    BY <1>8, FS_EmptySet
  <2>3. IsFiniteSet(A \cup B)
    BY <1>3, <1>7, FS_Union
  <2> QED
    BY <2>1, <2>2, <2>3, <1>1, <1>3, <1>4, <1>7
<1>12. Cardinality(A \cup B) <= Cardinality(Existing)
  BY <1>9, <1>10, FS_Subset
<1> QED
  BY <1>4, <1>10, <1>11, <1>12

\* A caller goes from one stage to another.
LEMMA MoveCount ==
    ASSUME NEW u \in Callers, NEW a, NEW b, a # b, caller[u].at = a, caller'[u].at = b,
           \A v \in Callers : v # u => caller'[v].at = caller[v].at
    PROVE  /\ \A s : IsFiniteSet(CallersAt(s)) /\ Cardinality(CallersAt(s)) \in Nat
           /\ Cardinality(CallersAt(a)') = Cardinality(CallersAt(a)) - 1
           /\ Cardinality(CallersAt(b)') = Cardinality(CallersAt(b)) + 1
           /\ \A s : s # a /\ s # b => CallersAt(s)' = CallersAt(s)
<1>1. ASSUME NEW s
      PROVE  IsFiniteSet(CallersAt(s)) /\ Cardinality(CallersAt(s)) \in Nat
  BY PoolObjects, FS_Subset, FS_CardinalityType DEF CallersAt
<1>2. CallersAt(a)' = CallersAt(a) \ {u} /\ u \in CallersAt(a)
  BY DEF CallersAt
<1>3. CallersAt(b)' = CallersAt(b) \cup {u} /\ u \notin CallersAt(b)
  BY DEF CallersAt
<1>4. \A s : s # a /\ s # b => CallersAt(s)' = CallersAt(s)
  BY DEF CallersAt
<1>5. Cardinality(CallersAt(a)') = Cardinality(CallersAt(a)) - 1
  <2>1. Cardinality(CallersAt(a) \ {u}) = Cardinality(CallersAt(a)) - 1
    BY <1>1, <1>2, FS_RemoveElement, Zenon
  <2> QED
    BY <1>2, <2>1
<1>6. Cardinality(CallersAt(b)') = Cardinality(CallersAt(b)) + 1
  <2>1. Cardinality(CallersAt(b) \cup {u}) = Cardinality(CallersAt(b)) + 1
    BY <1>1, <1>3, FS_AddElement, Zenon
  <2> QED
    BY <1>3, <2>1
<1> QED
  BY <1>1, <1>4, <1>5, <1>6

-----------------------------------------------------------------------------
(* The operations.                                                         *)

LEMMA OneElement ==
    ASSUME NEW Elems, NEW p \in Elems
    PROVE  /\ Tail(<<p>>) = <<>> /\ <<p>>[1] = p /\ <<p>> # <<>> /\ Append(<<>>, p) = <<p>>
           /\ <<p>> \in Seq(Elems) /\ <<>> \in Seq(Elems)
OBVIOUS

LEMMA PoolInitial == PoolInit => PoolIInv
<1> SUFFICES ASSUME PoolInit
             PROVE  PoolIInv
  OBVIOUS
<1>1. /\ m_conns = <<>> /\ m_total = 0
      /\ \A c \in PoolConns : conn[c] = Fresh
      /\ \A u \in Callers : caller[u] = [at |-> "idle", conn |-> NoConn, asks |-> 0, got |-> <<>>]
      /\ retired = {}
  BY DEF PoolInit
<1>2. PoolTypeOK
  <2>1. Fresh \in Objects
    BY DEF Fresh, Objects
  <2>2. [at |-> "idle", conn |-> NoConn, asks |-> 0, got |-> <<>>] \in Calls
    BY DEF Calls, Stages, ConnOrNone, RequestOrNone
  <2>3. start \in Nat /\ clock \in Nat
    BY PoolSizes DEF PoolInit
  <2>4. m_conns \in Seq(PoolConns) /\ m_total \in Int
    BY <1>1
  <2>5. conn \in [PoolConns -> Objects] /\ caller \in [Callers -> Calls]
    BY <2>1, <2>2 DEF PoolInit
  <2> QED
    BY <2>3, <2>4, <2>5 DEF PoolTypeOK
<1>3. Len(m_conns) = 0
  BY <1>1
<1>4. HeldOnce /\ ListedOnce
  BY <1>1, <1>3, PoolObjects DEF HeldOnce, ListedOnce, Holding
<1>5. AliveIsKnown
  BY <1>1, <1>3, PoolObjects DEF AliveIsKnown, Listed, Held, Fresh
<1>6. Streams /\ AnswerIsMine /\ RetiredOnlyOld
  BY <1>1, <1>3 DEF Streams, StreamOfStage, AnswerIsMine, RetiredOnlyOld
<1>7. CallersAt("push") = {} /\ CallersAt("count") = {} /\ CallersAt("uncount") = {} /\ Existing = {}
  BY <1>1 DEF CallersAt, Existing, Fresh
<1>9. Cardinality(CallersAt("push")) = 0 /\ Cardinality(CallersAt("count")) = 0
      /\ Cardinality(CallersAt("uncount")) = 0 /\ Cardinality(Existing) = 0
  BY <1>7, FS_EmptySet
<1>8. TotalIsExact /\ RoomKept
  BY <1>1, <1>3, <1>9, PoolSizes DEF TotalIsExact, RoomKept, CallersAt, Existing
<1> QED
  BY <1>2, <1>4, <1>5, <1>6, <1>8 DEF PoolIInv

\* A step in which nobody takes, gives back, makes or deletes a connection.
LEMMA SameHolders ==
    ASSUME PoolIInv, PoolTypeOK', m_conns' = m_conns,
           \A u \in Callers : /\ caller'[u].conn = caller[u].conn
                              /\ caller'[u].at \in Holding <=> caller[u].at \in Holding,
           \A c \in PoolConns : conn'[c].alive = conn[c].alive
    PROVE  HeldOnce' /\ ListedOnce' /\ AliveIsKnown' /\ Existing' = Existing
<1> USE DEF PoolIInv
<1>1. HeldOnce'
  BY DEF HeldOnce
<1>2. ListedOnce'
  BY DEF ListedOnce
<1>3. AliveIsKnown'
  BY DEF AliveIsKnown, Listed, Held
<1>4. Existing' = Existing
  BY DEF Existing
<1> QED
  BY <1>1, <1>2, <1>3, <1>4

\* The streams of the connections that the step of u does not touch.
LEMMA OtherStreams ==
    ASSUME PoolIInv, NEW u \in Callers, NEW c \in PoolConns, caller[u].conn = c,
           m_conns' = m_conns,
           \A v \in Callers : v # u => caller'[v] = caller[v],
           \A d \in PoolConns : d # c => conn'[d] = conn[d],
           StreamOfStage(u, caller[u].at, caller[u].conn)'
    PROVE  Streams'
<1> USE DEF PoolIInv
<1>1. \A i \in 1..Len(m_conns) : m_conns[i] \in PoolConns /\ m_conns[i] # c
  BY ElementOfSeq DEF PoolTypeOK, ListedOnce
<1>2. \A i \in 1..Len(m_conns') : conn'[m_conns'[i]].connected /\ Quiet(m_conns[i])'
  BY <1>1 DEF Streams, Quiet
<1>3. ASSUME NEW v \in Callers, v # u
      PROVE  StreamOfStage(v, caller[v].at, caller[v].conn)'
  <2>1. StreamOfStage(v, caller[v].at, caller[v].conn)
    BY DEF Streams
  <2>2. caller[v].conn # c
    BY <1>3 DEF HeldOnce
  <2>3. caller[v].at \in Holding => caller[v].conn \in PoolConns
    BY DEF HeldOnce
  <2> QED
    BY <1>3, <2>1, <2>2, <2>3 DEF StreamOfStage, Quiet, Holding
<1> QED
  BY <1>2, <1>3 DEF Streams

LEMMA ConnectFailsKeeps ==
    ASSUME PoolIInv, NEW u \in Callers, ConnectFails(u) \/ UncountConnection(u)
    PROVE  PoolIInv'
<1> USE DEF PoolIInv
<1>1. /\ caller' = [caller EXCEPT ![u].at = "idle"]
      /\ UNCHANGED <<m_conns, conn, clock, start, retired>>
      /\ \/ caller[u].at = "connect" /\ m_total' = m_total
         \/ caller[u].at = "uncount" /\ m_total' = m_total - 1
  BY DEF ConnectFails, UncountConnection, Goto
<1>2. /\ caller'[u].at = "idle" /\ caller'[u].conn = caller[u].conn
      /\ \A v \in Callers : v # u => caller'[v] = caller[v]
  BY <1>1 DEF PoolTypeOK, Calls
<1>3. PoolTypeOK'
  <2>1. [caller[u] EXCEPT !.at = "idle"] \in Calls
    BY CallType, StagesAre, Zenon DEF PoolTypeOK, RequestOrNone, ConnOrNone
  <2> QED
    BY <1>1, <2>1 DEF PoolTypeOK
<1>4. HeldOnce' /\ ListedOnce' /\ AliveIsKnown' /\ Existing' = Existing
  <2>1. \A v \in Callers : /\ caller'[v].conn = caller[v].conn
                           /\ caller'[v].at \in Holding <=> caller[v].at \in Holding
    BY <1>1, <1>2 DEF Holding
  <2> QED
    BY <1>1, <1>3, <2>1, SameHolders
<1>5. Streams' /\ AnswerIsMine' /\ RetiredOnlyOld'
  <2>1. AnswerIsMine' /\ RetiredOnlyOld'
    BY <1>1, <1>2 DEF AnswerIsMine, RetiredOnlyOld
  <2>2. ASSUME NEW v \in Callers
        PROVE  StreamOfStage(v, caller[v].at, caller[v].conn)'
    <3>1. StreamOfStage(v, caller[v].at, caller[v].conn)
      BY DEF Streams
    <3>2. CASE v = u
      BY <3>1, <3>2, <1>1, <1>2 DEF StreamOfStage, Quiet
    <3>3. CASE v # u
      BY <3>1, <3>3, <1>1, <1>2 DEF StreamOfStage, Quiet
    <3> QED
      BY <3>2, <3>3
  <2>3. \A i \in 1..Len(m_conns') : conn'[m_conns'[i]].connected /\ Quiet(m_conns[i])'
    BY <1>1 DEF Streams, Quiet
  <2> QED
    BY <2>1, <2>2, <2>3 DEF Streams
<1>6. IsFiniteSet(Existing) /\ Cardinality(Existing) \in Nat
  BY ExistingIsFinite
<1>7. TotalIsExact' /\ RoomKept'
  <2>1. m_total = Cardinality(Existing) + Cardinality(CallersAt("uncount")) - Cardinality(CallersAt("count"))
    BY DEF TotalIsExact, Existing, CallersAt
  <2>2. CallersAt("push")' = CallersAt("push") /\ CallersAt("count")' = CallersAt("count")
    BY <1>1, <1>2 DEF CallersAt
  <2>3. CASE caller[u].at = "connect"
    <3>1. CallersAt("uncount")' = CallersAt("uncount")
      BY <2>3, <1>2 DEF CallersAt
    <3> QED
      BY <2>1, <2>2, <2>3, <3>1, <1>1, <1>4 DEF TotalIsExact, CallersAt, Existing, RoomKept
  <2>4. CASE caller[u].at = "uncount"
    <3>1. /\ Cardinality(CallersAt("uncount")) \in Nat /\ Cardinality(CallersAt("count")) \in Nat
          /\ Cardinality(CallersAt("uncount")') = Cardinality(CallersAt("uncount")) - 1
      BY <2>4, <1>2, MoveCount
    <3>2. m_total' = m_total - 1
      BY <2>4, <1>1
    <3>3. m_total' = Cardinality(Existing') + Cardinality(CallersAt("uncount")') - Cardinality(CallersAt("count")')
      BY <2>1, <2>2, <3>1, <3>2, <1>4, <1>6
    <3> QED
      BY <2>2, <3>3, <1>1 DEF TotalIsExact, Existing, CallersAt, RoomKept
  <2> QED
    BY <1>1, <2>3, <2>4
<1> QED
  BY <1>3, <1>4, <1>5, <1>7

LEMMA CountKeeps ==
    ASSUME PoolIInv, NEW u \in Callers, CountConnection(u)
    PROVE  PoolIInv'
<1> USE DEF PoolIInv
<1>1. /\ caller[u].at = "count" /\ caller' = [caller EXCEPT ![u].at = "send"]
      /\ m_total' = m_total + 1
      /\ UNCHANGED <<m_conns, conn, clock, start, retired>>
  BY DEF CountConnection, Goto
<1>2. /\ caller'[u].at = "send" /\ caller'[u].conn = caller[u].conn
      /\ \A v \in Callers : v # u => caller'[v] = caller[v]
  BY <1>1 DEF PoolTypeOK, Calls
<1>3. PoolTypeOK'
  <2>1. [caller[u] EXCEPT !.at = "send"] \in Calls
    BY CallType, StagesAre, Zenon DEF PoolTypeOK, RequestOrNone, ConnOrNone, Holding
  <2> QED
    BY <1>1, <2>1 DEF PoolTypeOK
<1>4. HeldOnce' /\ ListedOnce' /\ AliveIsKnown' /\ Existing' = Existing
  <2>1. \A v \in Callers : /\ caller'[v].conn = caller[v].conn
                           /\ caller'[v].at \in Holding <=> caller[v].at \in Holding
    BY <1>1, <1>2 DEF Holding
  <2> QED
    BY <1>1, <1>3, <2>1, SameHolders
<1>5. Streams' /\ AnswerIsMine' /\ RetiredOnlyOld'
  <2>1. AnswerIsMine' /\ RetiredOnlyOld'
    BY <1>1, <1>2 DEF AnswerIsMine, RetiredOnlyOld
  <2>2. ASSUME NEW v \in Callers
        PROVE  StreamOfStage(v, caller[v].at, caller[v].conn)'
    <3>1. StreamOfStage(v, caller[v].at, caller[v].conn)
      BY DEF Streams
    <3>2. CASE v = u
      BY <3>1, <3>2, <1>1, <1>2 DEF StreamOfStage, Quiet
    <3>3. CASE v # u
      BY <3>1, <3>3, <1>1, <1>2 DEF StreamOfStage, Quiet
    <3> QED
      BY <3>2, <3>3
  <2>3. \A i \in 1..Len(m_conns') : conn'[m_conns'[i]].connected /\ Quiet(m_conns[i])'
    BY <1>1 DEF Streams, Quiet
  <2> QED
    BY <2>1, <2>2, <2>3 DEF Streams
<1>6. IsFiniteSet(Existing) /\ Cardinality(Existing) \in Nat
  BY ExistingIsFinite
<1>7. /\ \A s : IsFiniteSet(CallersAt(s)) /\ Cardinality(CallersAt(s)) \in Nat
      /\ Cardinality(CallersAt("count")') = Cardinality(CallersAt("count")) - 1
      /\ \A s : s # "count" /\ s # "send" => CallersAt(s)' = CallersAt(s)
  BY <1>1, <1>2, MoveCount
<1>8. CallersAt("push")' = CallersAt("push") /\ CallersAt("uncount")' = CallersAt("uncount")
  BY <1>7
<1>9. m_total = Cardinality(Existing) + Cardinality(CallersAt("uncount")) - Cardinality(CallersAt("count"))
  BY DEF TotalIsExact, Existing, CallersAt
<1>10. m_total' = Cardinality(Existing') + Cardinality(CallersAt("uncount")') - Cardinality(CallersAt("count")')
  BY <1>1, <1>4, <1>6, <1>7, <1>8, <1>9
<1>11. TotalIsExact' /\ RoomKept'
  BY <1>1, <1>8, <1>10 DEF TotalIsExact, Existing, CallersAt, RoomKept
<1> QED
  BY <1>3, <1>4, <1>5, <1>11

\* The stages between the two counters: nothing that is counted changes.
LEMMA MiddleCounts ==
    ASSUME PoolIInv, NEW u \in Callers, m_conns' = m_conns, m_total' = m_total, Existing' = Existing,
           caller[u].at \in {"send", "receive"}, caller'[u].at \in {"receive", "release"},
           caller[u].at # caller'[u].at,
           \A v \in Callers : v # u => caller'[v] = caller[v]
    PROVE  TotalIsExact' /\ RoomKept'
<1>1. \A s : s # caller[u].at /\ s # caller'[u].at => CallersAt(s)' = CallersAt(s)
  BY DEF CallersAt
<1>2. CallersAt("push")' = CallersAt("push") /\ CallersAt("count")' = CallersAt("count") /\ CallersAt("uncount")' = CallersAt("uncount")
  BY <1>1
<1> QED
  BY <1>2 DEF PoolIInv, TotalIsExact, RoomKept, CallersAt, Existing

LEMMA SendKeeps ==
    ASSUME PoolIInv, NEW u \in Callers, PoolSend(u)
    PROVE  PoolIInv'
<1> USE DEF PoolIInv
<1> DEFINE c == caller[u].conn
           mine == <<u, caller[u].asks>>
<1>1. /\ caller[u].at = "send" /\ caller' = [caller EXCEPT ![u].at = "receive"]
      /\ conn' = [conn EXCEPT ![c].sent = Append(@, mine)]
      /\ UNCHANGED <<m_conns, m_total, clock, start, retired>>
  BY DEF PoolSend, Goto
<1>2. c \in PoolConns /\ mine \in Requests
  BY <1>1 DEF HeldOnce, Holding, PoolTypeOK, Calls, Requests
<1>3. conn[c].connected /\ conn[c].sent = <<>> /\ conn[c].wire = <<>>
  BY <1>1 DEF Streams, StreamOfStage, Quiet
<1>4. Append(<<>>, mine) = <<mine>> /\ <<mine>> \in Seq(Requests)
  BY <1>2, OneElement
<1> HIDE DEF mine
<1>5. /\ caller'[u].at = "receive" /\ caller'[u].conn = c /\ caller'[u].asks = caller[u].asks
      /\ \A v \in Callers : v # u => caller'[v] = caller[v]
  BY <1>1 DEF PoolTypeOK, Calls
<1> HIDE DEF c
<1>6. conn' = [conn EXCEPT ![c] = [conn[c] EXCEPT !.sent = <<mine>>]]
  BY <1>1, <1>2, <1>3, <1>4 DEF PoolTypeOK, Objects
<1>7. /\ conn'[c].sent = <<mine>> /\ conn'[c].wire = <<>> /\ conn'[c].alive = conn[c].alive
      /\ \A d \in PoolConns : d # c => conn'[d] = conn[d]
  BY <1>2, <1>3, <1>6 DEF PoolTypeOK, Objects
<1>8. PoolTypeOK'
  <2>1. [conn[c] EXCEPT !.sent = <<mine>>] \in Objects
    BY <1>2, <1>4, ObjectType, Zenon DEF PoolTypeOK
  <2>2. [caller[u] EXCEPT !.at = "receive"] \in Calls
    BY CallType, StagesAre, Zenon DEF PoolTypeOK, RequestOrNone, ConnOrNone, Holding
  <2> QED
    BY <1>1, <1>6, <2>1, <2>2 DEF PoolTypeOK
<1>9. HeldOnce' /\ ListedOnce' /\ AliveIsKnown' /\ Existing' = Existing
  <2>1. \A v \in Callers : /\ caller'[v].conn = caller[v].conn
                           /\ caller'[v].at \in Holding <=> caller[v].at \in Holding
    BY <1>1, <1>5 DEF Holding, c
  <2>2. \A d \in PoolConns : conn'[d].alive = conn[d].alive
    BY <1>7
  <2> QED
    BY <1>1, <1>8, <2>1, <2>2, SameHolders
<1>10. StreamOfStage(u, caller[u].at, caller[u].conn)'
  BY <1>5, <1>7 DEF StreamOfStage, mine
<1>11. Streams'
  BY <1>1, <1>2, <1>5, <1>7, <1>10, OtherStreams DEF c
<1>12. AnswerIsMine' /\ RetiredOnlyOld'
  BY <1>1, <1>5 DEF AnswerIsMine, RetiredOnlyOld
<1>13. TotalIsExact' /\ RoomKept'
  BY <1>1, <1>5, <1>9, MiddleCounts
<1> QED
  BY <1>8, <1>9, <1>11, <1>12, <1>13

LEMMA SendFailsKeeps ==
    ASSUME PoolIInv, NEW u \in Callers, PoolSendFails(u)
    PROVE  PoolIInv'
<1> USE DEF PoolIInv
<1> DEFINE c == caller[u].conn
<1>1. /\ caller[u].at = "send"
      /\ caller' = [caller EXCEPT ![u].at = "release", ![u].got = <<>>]
      /\ UNCHANGED <<m_conns, m_total, conn, clock, start, retired>>
  BY DEF PoolSendFails
<1>2. c \in PoolConns
  BY <1>1 DEF HeldOnce, Holding
<1>5. /\ caller'[u].at = "release" /\ caller'[u].conn = c /\ caller'[u].got = <<>>
      /\ \A v \in Callers : v # u => caller'[v] = caller[v]
  BY <1>1 DEF PoolTypeOK, Calls
<1>8. PoolTypeOK'
  <2>2. [caller[u] EXCEPT !.at = "release", !.got = <<>>] \in Calls
    BY CallType, StagesAre, Zenon DEF PoolTypeOK, RequestOrNone, ConnOrNone, Holding
  <2>3. caller' = [caller EXCEPT ![u] = [caller[u] EXCEPT !.at = "release", !.got = <<>>]]
    BY <1>1 DEF PoolTypeOK
  <2> QED
    BY <1>1, <2>2, <2>3 DEF PoolTypeOK
<1>9. HeldOnce' /\ ListedOnce' /\ AliveIsKnown' /\ Existing' = Existing
  <2>1. \A v \in Callers : /\ caller'[v].conn = caller[v].conn
                           /\ caller'[v].at \in Holding <=> caller[v].at \in Holding
    BY <1>1, <1>5 DEF Holding, c
  <2>2. \A d \in PoolConns : conn'[d].alive = conn[d].alive
    BY <1>1
  <2> QED
    BY <1>1, <1>8, <2>1, <2>2, SameHolders
<1>10. StreamOfStage(u, caller[u].at, caller[u].conn)'
  <2>1. Quiet(c)
    BY <1>1 DEF Streams, StreamOfStage
  <2> QED
    BY <2>1, <1>1, <1>5 DEF StreamOfStage, Quiet
<1>11. Streams'
  BY <1>1, <1>2, <1>5, <1>10, OtherStreams DEF c
<1>12. AnswerIsMine' /\ RetiredOnlyOld'
  BY <1>1, <1>5 DEF AnswerIsMine, RetiredOnlyOld
<1>13. TotalIsExact' /\ RoomKept'
  BY <1>1, <1>5, <1>9, MiddleCounts
<1> QED
  BY <1>8, <1>9, <1>11, <1>12, <1>13

LEMMA ReceiveKeeps ==
    ASSUME PoolIInv, NEW u \in Callers, PoolReceive(u)
    PROVE  PoolIInv'
<1> USE DEF PoolIInv
<1> DEFINE c == caller[u].conn
           mine == <<u, caller[u].asks>>
<1>1. /\ caller[u].at = "receive" /\ conn[c].wire # <<>>
      /\ caller' = [caller EXCEPT ![u].at = "release", ![u].got = conn[c].wire[1]]
      /\ conn' = [conn EXCEPT ![c].wire = Tail(@)]
      /\ UNCHANGED <<m_conns, m_total, clock, start, retired>>
  BY DEF PoolReceive
<1>2. c \in PoolConns /\ mine \in Requests
  BY <1>1 DEF HeldOnce, Holding, PoolTypeOK, Calls, Requests
<1>3. conn[c].sent = <<>> /\ conn[c].wire = <<mine>>
  BY <1>1 DEF Streams, StreamOfStage
<1>4. Tail(<<mine>>) = <<>> /\ <<mine>>[1] = mine /\ <<>> \in Seq(Requests)
  BY <1>2, OneElement
<1> HIDE DEF mine
<1>5. /\ caller'[u].at = "release" /\ caller'[u].conn = c /\ caller'[u].asks = caller[u].asks
      /\ caller'[u].got = mine
      /\ \A v \in Callers : v # u => caller'[v] = caller[v]
  BY <1>1, <1>3, <1>4 DEF PoolTypeOK, Calls
<1> HIDE DEF c
<1>6. conn' = [conn EXCEPT ![c] = [conn[c] EXCEPT !.wire = <<>>]]
  BY <1>1, <1>2, <1>3, <1>4 DEF PoolTypeOK, Objects
<1>7. /\ conn'[c].sent = <<>> /\ conn'[c].wire = <<>> /\ conn'[c].alive = conn[c].alive
      /\ \A d \in PoolConns : d # c => conn'[d] = conn[d]
  BY <1>2, <1>3, <1>6 DEF PoolTypeOK, Objects
<1>8. PoolTypeOK'
  <2>1. [conn[c] EXCEPT !.wire = <<>>] \in Objects
    BY <1>2, <1>4, ObjectType, Zenon DEF PoolTypeOK
  <2>2. [caller[u] EXCEPT !.at = "release", !.got = mine] \in Calls
    BY <1>2, CallType, StagesAre, Zenon DEF PoolTypeOK, RequestOrNone, ConnOrNone, Holding
  <2>3. caller' = [caller EXCEPT ![u] = [caller[u] EXCEPT !.at = "release", !.got = mine]]
    BY <1>1, <1>3, <1>4 DEF PoolTypeOK
  <2>4. conn' \in [PoolConns -> Objects]
    BY <1>6, <2>1 DEF PoolTypeOK
  <2>5. caller' \in [Callers -> Calls]
    BY <2>2, <2>3 DEF PoolTypeOK
  <2> QED
    BY <1>1, <2>4, <2>5 DEF PoolTypeOK
<1>9. HeldOnce' /\ ListedOnce' /\ AliveIsKnown' /\ Existing' = Existing
  <2>1. \A v \in Callers : /\ caller'[v].conn = caller[v].conn
                           /\ caller'[v].at \in Holding <=> caller[v].at \in Holding
    BY <1>1, <1>5 DEF Holding, c
  <2>2. \A d \in PoolConns : conn'[d].alive = conn[d].alive
    BY <1>7
  <2> QED
    BY <1>1, <1>8, <2>1, <2>2, SameHolders
<1>10. StreamOfStage(u, caller[u].at, caller[u].conn)'
  BY <1>5, <1>7 DEF StreamOfStage, Quiet
<1>11. Streams'
  BY <1>1, <1>2, <1>5, <1>7, <1>10, OtherStreams, Zenon DEF c
<1>12. AnswerIsMine' /\ RetiredOnlyOld'
  BY <1>1, <1>5 DEF AnswerIsMine, RetiredOnlyOld, mine
<1>13. TotalIsExact' /\ RoomKept'
  BY <1>1, <1>5, <1>9, MiddleCounts
<1> QED
  BY <1>8, <1>9, <1>11, <1>12, <1>13

LEMMA ReceiveFailsKeeps ==
    ASSUME PoolIInv, NEW u \in Callers, PoolReceiveFails(u)
    PROVE  PoolIInv'
<1> USE DEF PoolIInv
<1> DEFINE c == caller[u].conn
<1>1. /\ caller[u].at = "receive"
      /\ caller' = [caller EXCEPT ![u].at = "release", ![u].got = <<>>]
      /\ conn' = [conn EXCEPT ![c].connected = FALSE]
      /\ UNCHANGED <<m_conns, m_total, clock, start, retired>>
  BY DEF PoolReceiveFails
<1>2. c \in PoolConns
  BY <1>1 DEF HeldOnce, Holding
<1>5. /\ caller'[u].at = "release" /\ caller'[u].conn = c /\ caller'[u].got = <<>>
      /\ \A v \in Callers : v # u => caller'[v] = caller[v]
  BY <1>1 DEF PoolTypeOK, Calls
<1> HIDE DEF c
<1>7. /\ ~conn'[c].connected /\ conn'[c].alive = conn[c].alive
      /\ \A d \in PoolConns : d # c => conn'[d] = conn[d]
  BY <1>1, <1>2 DEF PoolTypeOK, Objects
<1>8. PoolTypeOK'
  <2>1. [conn[c] EXCEPT !.connected = FALSE] \in Objects
    <3>1. conn[c] \in Objects /\ <<>> \in Seq(Requests) /\ FALSE \in BOOLEAN /\ 0 \in Nat /\ 0 \in Int
      BY <1>2 DEF PoolTypeOK
    <3> QED
      BY <3>1, <1>2, ObjectType, Zenon
  <2>2. [caller[u] EXCEPT !.at = "release", !.got = <<>>] \in Calls
    BY CallType, StagesAre, Zenon DEF PoolTypeOK, RequestOrNone, ConnOrNone, Holding
  <2>3. caller' = [caller EXCEPT ![u] = [caller[u] EXCEPT !.at = "release", !.got = <<>>]]
    BY <1>1 DEF PoolTypeOK
  <2> QED
    BY <1>1, <1>2, <2>1, <2>2, <2>3 DEF PoolTypeOK
<1>9. HeldOnce' /\ ListedOnce' /\ AliveIsKnown' /\ Existing' = Existing
  <2>1. \A v \in Callers : /\ caller'[v].conn = caller[v].conn
                           /\ caller'[v].at \in Holding <=> caller[v].at \in Holding
    BY <1>1, <1>5 DEF Holding, c
  <2>2. \A d \in PoolConns : conn'[d].alive = conn[d].alive
    BY <1>7
  <2> QED
    BY <1>1, <1>8, <2>1, <2>2, SameHolders
<1>10. StreamOfStage(u, caller[u].at, caller[u].conn)'
  BY <1>5, <1>7 DEF StreamOfStage
<1>11. Streams'
  BY <1>1, <1>2, <1>5, <1>7, <1>10, OtherStreams DEF c
<1>12. AnswerIsMine' /\ RetiredOnlyOld'
  BY <1>1, <1>5 DEF AnswerIsMine, RetiredOnlyOld
<1>13. TotalIsExact' /\ RoomKept'
  BY <1>1, <1>5, <1>9, MiddleCounts
<1> QED
  BY <1>8, <1>9, <1>11, <1>12, <1>13

\* A connection that has expired is as old as the member says.
LEMMA ExpiredIsOld ==
    ASSUME PoolTypeOK, NEW c \in PoolConns, Expired(c)
    PROVE  Age(c) >= (MaxAlive + start) % Width
<1>1. (MaxAlive + start) % Width \in Int
  BY PoolSizes DEF PoolTypeOK
<1>2. conn[c].created \in Int /\ clock \in Int
  BY DEF PoolTypeOK, Objects
<1>3. conn[c].created + ((MaxAlive + start) % Width) <= clock
  BY DEF Expired, m_maxAliveTime
<1>4. \A x, y, z \in Int : x + y <= z => z - x >= y
  OBVIOUS
<1> QED
  BY ONLY <1>1, <1>2, <1>3, <1>4 DEF Age

LEMMA ReleaseKeeps ==
    ASSUME PoolIInv, NEW u \in Callers, ReleasePtr(u)
    PROVE  PoolIInv'
<1> USE DEF PoolIInv
<1> DEFINE c == caller[u].conn
           used == conn[c].m_request + 1
           full == NoRoom \/ used >= m_maxRequest
           next == IF Invalid(c) \/ full THEN "delete" ELSE "push"
<1>1. /\ caller[u].at = "release" /\ caller' = [caller EXCEPT ![u].at = next]
      /\ conn' = [conn EXCEPT ![c].m_request = used]
      /\ retired' = IF ~full /\ conn[c].connected /\ Expired(c) THEN retired \cup {Age(c)} ELSE retired
      /\ UNCHANGED <<m_conns, m_total, clock, start>>
  BY DEF ReleasePtr, Goto
<1>2. c \in PoolConns /\ used \in Nat
  BY <1>1 DEF HeldOnce, Holding, PoolTypeOK, Objects
<1>3. conn[c].connected => Quiet(c)
  BY <1>1 DEF Streams, StreamOfStage
<1>4. next \in {"delete", "push"} /\ (next = "push" => conn[c].connected /\ ~(m_total > m_maxSize))
  BY DEF Invalid, NoRoom
<1>5. /\ caller'[u].at = next /\ caller'[u].conn = c
      /\ \A v \in Callers : v # u => caller'[v] = caller[v]
  BY <1>1 DEF PoolTypeOK, Calls
<1>6. RetiredOnlyOld'
  <2>1. Expired(c) => Age(c) >= (MaxAlive + start) % Width
    BY <1>2, ExpiredIsOld
  <2> QED
    BY <1>1, <2>1 DEF RetiredOnlyOld
<1> HIDE DEF c, used, full, next
<1>7. /\ conn'[c].sent = conn[c].sent /\ conn'[c].wire = conn[c].wire
      /\ conn'[c].alive = conn[c].alive /\ conn'[c].connected = conn[c].connected
      /\ \A d \in PoolConns : d # c => conn'[d] = conn[d]
  BY <1>1, <1>2 DEF PoolTypeOK, Objects
<1>8. PoolTypeOK'
  <2>1. [conn[c] EXCEPT !.m_request = used] \in Objects
    <3>1. conn[c] \in Objects /\ <<>> \in Seq(Requests) /\ FALSE \in BOOLEAN /\ 0 \in Nat /\ 0 \in Int
      BY <1>2 DEF PoolTypeOK
    <3> QED
      BY <3>1, <1>2, ObjectType, Zenon
  <2>2. [caller[u] EXCEPT !.at = next] \in Calls
    BY <1>4, CallType, StagesAre, Zenon DEF PoolTypeOK, RequestOrNone, ConnOrNone, Holding
  <2> QED
    BY <1>1, <1>2, <2>1, <2>2 DEF PoolTypeOK
<1>9. HeldOnce' /\ ListedOnce' /\ AliveIsKnown' /\ Existing' = Existing
  <2>1. \A v \in Callers : /\ caller'[v].conn = caller[v].conn
                           /\ caller'[v].at \in Holding <=> caller[v].at \in Holding
    BY <1>1, <1>4, <1>5 DEF Holding, c
  <2>2. \A d \in PoolConns : conn'[d].alive = conn[d].alive
    BY <1>7
  <2> QED
    BY <1>1, <1>8, <2>1, <2>2, SameHolders
<1>10. StreamOfStage(u, caller[u].at, caller[u].conn)'
  BY <1>3, <1>4, <1>5, <1>7 DEF StreamOfStage, Quiet
<1>11. Streams'
  BY <1>1, <1>2, <1>5, <1>7, <1>10, OtherStreams DEF c
<1>12. AnswerIsMine'
  BY <1>1, <1>4, <1>5 DEF AnswerIsMine
<1>13. TotalIsExact' /\ RoomKept'
  <2>1. m_total = Cardinality(Existing) + Cardinality(CallersAt("uncount")) - Cardinality(CallersAt("count"))
    BY DEF TotalIsExact, Existing, CallersAt
  <2>2. CallersAt("uncount")' = CallersAt("uncount") /\ CallersAt("count")' = CallersAt("count")
    BY <1>1, <1>4, <1>5 DEF CallersAt
  <2>3. TotalIsExact'
    BY <2>1, <2>2, <1>1, <1>9 DEF TotalIsExact, Existing, CallersAt
  <2>4. CASE next = "delete"
    <3>1. CallersAt("push")' = CallersAt("push")
      BY <2>4, <1>1, <1>5 DEF CallersAt
    <3> QED
      BY <2>3, <3>1, <1>1 DEF RoomKept
  <2>5. CASE next = "push"
    <3> DEFINE X == (CallersAt("push") \cup CallersAt("count")) \cup {u}
    <3>1. X \in SUBSET Callers /\ \A v \in X : caller[v].at \in Holding
      BY <1>1 DEF CallersAt, Holding
    <3>2. /\ Cardinality(X) \in Nat /\ Cardinality(Existing) \in Nat
          /\ Cardinality(Existing) >= Len(m_conns) + Cardinality(X)
      BY <3>1, ExistingCount
    <3>3. /\ \A s : IsFiniteSet(CallersAt(s)) /\ Cardinality(CallersAt(s)) \in Nat
          /\ Cardinality(CallersAt("push")') = Cardinality(CallersAt("push")) + 1
      <4>1. caller'[u].at = "push"
        BY <1>5, <2>5
      <4> QED
        BY <1>1, <1>5, <4>1, MoveCount
    <3>4. Cardinality(CallersAt("push") \cup CallersAt("count")) = Cardinality(CallersAt("push")) + Cardinality(CallersAt("count"))
      <4>1. CallersAt("push") \cap CallersAt("count") = {}
        BY DEF CallersAt
      <4>2. Cardinality(CallersAt("push") \cap CallersAt("count")) = 0
        BY <4>1, FS_EmptySet
      <4>3. Cardinality(CallersAt("push") \cup CallersAt("count")) =
                Cardinality(CallersAt("push")) + Cardinality(CallersAt("count")) - Cardinality(CallersAt("push") \cap CallersAt("count"))
        BY <3>3, FS_Union
      <4> QED
        BY <3>3, <4>2, <4>3
    <3>5. u \notin CallersAt("push") \cup CallersAt("count") /\ IsFiniteSet(CallersAt("push") \cup CallersAt("count"))
      BY <3>3, <1>1, FS_Union DEF CallersAt
    <3>6. Cardinality(X) = Cardinality(CallersAt("push") \cup CallersAt("count")) + 1
      BY <3>5, FS_AddElement
    <3>7. m_total <= m_maxSize
      BY <2>5, <1>4, PoolSizes DEF PoolTypeOK
    <3>8. Len(m_conns) \in Nat /\ m_conns' = m_conns
      BY <1>1 DEF PoolTypeOK
    <3>9. Len(m_conns') + Cardinality(CallersAt("push")') <= m_maxSize
      <4> HIDE DEF X
      <4>1. Cardinality(CallersAt("uncount")) \in Nat /\ Cardinality(CallersAt("count")) \in Nat
            /\ Cardinality(CallersAt("push")) \in Nat
        BY <3>3
      <4>2. Cardinality(Existing) >= Len(m_conns) + Cardinality(CallersAt("push"))
                                                  + Cardinality(CallersAt("count")) + 1
        BY <4>1, <3>2, <3>4, <3>6, <3>8
      <4>3. Len(m_conns) + Cardinality(CallersAt("push")) + 1 <= m_total
        BY <4>1, <4>2, <2>1, <3>2, <3>8
      <4>4. m_total \in Int /\ m_maxSize \in Nat
        BY <4>1, <2>1, <3>2, PoolSizes
      <4> QED
        BY <4>1, <4>3, <4>4, <3>3, <3>7, <3>8
    <3> QED
      BY <2>3, <3>9 DEF RoomKept
  <2> QED
    BY <1>4, <2>4, <2>5
<1> QED
  BY <1>6, <1>8, <1>9, <1>11, <1>12, <1>13

LEMMA ConnectKeeps ==
    ASSUME PoolIInv, NEW u \in Callers, NEW c \in PoolConns, Connect(u, c)
    PROVE  PoolIInv'
<1> USE DEF PoolIInv
<1> DEFINE new == [Fresh EXCEPT !.alive = TRUE, !.connected = TRUE, !.created = clock]
<1>1. /\ caller[u].at = "connect" /\ ~conn[c].alive
      /\ caller' = [caller EXCEPT ![u].at = "count", ![u].conn = c]
      /\ conn' = [conn EXCEPT ![c] = new]
      /\ UNCHANGED <<m_conns, m_total, clock, start, retired>>
  BY DEF Connect
<1>2. /\ caller'[u].at = "count" /\ caller'[u].conn = c
      /\ \A v \in Callers : v # u => caller'[v] = caller[v]
  BY <1>1 DEF PoolTypeOK, Calls
<1>3. /\ conn'[c].alive /\ conn'[c].connected /\ conn'[c].sent = <<>> /\ conn'[c].wire = <<>>
      /\ \A d \in PoolConns : d # c => conn'[d] = conn[d]
  BY <1>1 DEF PoolTypeOK, Fresh
<1>4. PoolTypeOK'
  <2>1. conn[c] \in Objects /\ <<>> \in Seq(Requests) /\ FALSE \in BOOLEAN /\ clock \in Int /\ 0 \in Nat
    BY DEF PoolTypeOK
  <2>2. new \in Objects
    BY <2>1, ObjectType, Zenon
  <2>3. [caller[u] EXCEPT !.at = "count", !.conn = c] \in Calls
    BY CallType, StagesAre, Zenon DEF PoolTypeOK, RequestOrNone, ConnOrNone, Holding
  <2> HIDE DEF new
  <2>4. caller' = [caller EXCEPT ![u] = [caller[u] EXCEPT !.at = "count", !.conn = c]]
    BY <1>1 DEF PoolTypeOK
  <2> QED
    BY <1>1, <2>2, <2>3, <2>4 DEF PoolTypeOK
<1> HIDE DEF new
<1>5. ~Listed(c) /\ ~Held(c)
  BY <1>1 DEF AliveIsKnown
<1>6. caller[u].conn \notin PoolConns
  BY <1>1 DEF HeldOnce, Holding
<1>7. HeldOnce'
  BY <1>2, <1>5 DEF HeldOnce, Held, Holding
<1>8. ListedOnce'
  <2>1. ASSUME NEW i \in 1..Len(m_conns), NEW v \in Callers
        PROVE  caller'[v].conn # m_conns[i]
    <3>1. CASE v = u
      BY <3>1, <1>2, <1>5 DEF Listed
    <3>2. CASE v # u
      BY <3>2, <1>2 DEF ListedOnce
    <3> QED
      BY <3>1, <3>2
  <2> QED
    BY <1>1, <2>1 DEF ListedOnce
<1>9. AliveIsKnown'
  <2> SUFFICES ASSUME NEW d \in PoolConns
               PROVE  conn'[d].alive <=> Listed(d)' \/ Held(d)'
    BY DEF AliveIsKnown
  <2>1. Listed(d)' <=> Listed(d)
    BY <1>1 DEF Listed
  <2>2. Held(d)' <=> Held(d) \/ d = c
    BY <1>2, <1>6 DEF Held
  <2> QED
    BY <2>1, <2>2, <1>3 DEF AliveIsKnown
<1>10. Streams'
  <2>1. \A i \in 1..Len(m_conns) : m_conns[i] \in PoolConns /\ m_conns[i] # c
    BY <1>5, ElementOfSeq DEF PoolTypeOK, Listed
  <2>2. \A i \in 1..Len(m_conns') : conn'[m_conns'[i]].connected /\ Quiet(m_conns[i])'
    BY <2>1, <1>1, <1>3 DEF Streams, Quiet
  <2>3. ASSUME NEW v \in Callers, v # u
        PROVE  StreamOfStage(v, caller[v].at, caller[v].conn)'
    <3>1. StreamOfStage(v, caller[v].at, caller[v].conn)
      BY DEF Streams
    <3>2. caller[v].conn # c
      BY <1>5 DEF Held
    <3>3. caller[v].at \in Holding => caller[v].conn \in PoolConns
      BY DEF HeldOnce
    <3> QED
      BY <2>3, <3>1, <3>2, <3>3, <1>2, <1>3 DEF StreamOfStage, Quiet, Holding
  <2>4. StreamOfStage(u, caller[u].at, caller[u].conn)'
    BY <1>2, <1>3 DEF StreamOfStage, Quiet
  <2> QED
    BY <2>2, <2>3, <2>4 DEF Streams
<1>11. AnswerIsMine' /\ RetiredOnlyOld'
  BY <1>1, <1>2 DEF AnswerIsMine, RetiredOnlyOld
<1>12. TotalIsExact' /\ RoomKept'
  <2>1. m_total = Cardinality(Existing) + Cardinality(CallersAt("uncount")) - Cardinality(CallersAt("count"))
    BY DEF TotalIsExact, Existing, CallersAt
  <2>2. /\ Cardinality(CallersAt("uncount")) \in Nat /\ Cardinality(CallersAt("count")) \in Nat
        /\ Cardinality(CallersAt("count")') = Cardinality(CallersAt("count")) + 1
    <3>1. /\ caller[u].at = "connect" /\ caller'[u].at = "count" /\ "connect" # "count"
          /\ \A v \in Callers : v # u => caller'[v].at = caller[v].at
      BY <1>1, <1>2
    <3> QED
      BY <3>1, MoveCount, Zenon
  <2>3. CallersAt("push")' = CallersAt("push") /\ CallersAt("uncount")' = CallersAt("uncount")
    BY <1>1, <1>2 DEF CallersAt
  <2>4. IsFiniteSet(Existing) /\ Cardinality(Existing) \in Nat
    BY ExistingIsFinite
  <2>5. Existing' = Existing \cup {c} /\ c \notin Existing
    BY <1>1, <1>3 DEF Existing
  <2>6. Cardinality(Existing') = Cardinality(Existing) + 1
    BY <2>4, <2>5, FS_AddElement
  <2>7. m_total' = Cardinality(Existing') + Cardinality(CallersAt("uncount")') - Cardinality(CallersAt("count")')
    BY <1>1, <2>1, <2>2, <2>3, <2>4, <2>6
  <2> QED
    BY <2>3, <2>7, <1>1 DEF TotalIsExact, Existing, CallersAt, RoomKept
<1> QED
  BY <1>4, <1>7, <1>8, <1>9, <1>10, <1>11, <1>12

LEMMA DeleteKeeps ==
    ASSUME PoolIInv, NEW u \in Callers, DeleteConnection(u)
    PROVE  PoolIInv'
<1> USE DEF PoolIInv
<1> DEFINE c == caller[u].conn
<1>1. /\ caller[u].at = "delete"
      /\ caller' = [caller EXCEPT ![u].at = "uncount", ![u].conn = NoConn]
      /\ conn' = [conn EXCEPT ![c] = Fresh]
      /\ UNCHANGED <<m_conns, m_total, clock, start, retired>>
  BY DEF DeleteConnection
<1>2. c \in PoolConns /\ NoConn \notin PoolConns
  BY <1>1, PoolObjects DEF HeldOnce, Holding
<1>3. /\ caller'[u].at = "uncount" /\ caller'[u].conn = NoConn
      /\ \A v \in Callers : v # u => caller'[v] = caller[v]
  BY <1>1 DEF PoolTypeOK, Calls
<1>4. PoolTypeOK'
  <2>1. conn[c] \in Objects /\ <<>> \in Seq(Requests) /\ FALSE \in BOOLEAN /\ 0 \in Nat /\ 0 \in Int
    BY <1>2 DEF PoolTypeOK
  <2>2. Fresh \in Objects
    BY <2>1, ObjectType, Zenon
  <2>3. [caller[u] EXCEPT !.at = "uncount", !.conn = NoConn] \in Calls
    BY CallType, StagesAre, Zenon DEF PoolTypeOK, RequestOrNone, ConnOrNone
  <2>4. caller' = [caller EXCEPT ![u] = [caller[u] EXCEPT !.at = "uncount", !.conn = NoConn]]
    BY <1>1 DEF PoolTypeOK
  <2> QED
    BY <1>1, <2>2, <2>3, <2>4 DEF PoolTypeOK
<1>5. \A v \in Callers : v # u => caller[v].conn # c
  BY <1>2 DEF HeldOnce
<1>6. \A i \in 1..Len(m_conns) : m_conns[i] \in PoolConns /\ m_conns[i] # c
  BY ElementOfSeq DEF PoolTypeOK, ListedOnce
<1>13. conn[c].alive
  BY <1>2 DEF AliveIsKnown, Held
<1>14. \A d \in PoolConns : caller[u].conn = d => d = c
  OBVIOUS
<1> HIDE DEF c, NoConn
<1>7. ~conn'[c].alive /\ \A d \in PoolConns : d # c => conn'[d] = conn[d]
  BY <1>1, <1>2 DEF PoolTypeOK, Fresh
<1>8. HeldOnce'
  BY <1>2, <1>3 DEF HeldOnce, Holding
<1>9. ListedOnce'
  <2>1. ASSUME NEW i \in 1..Len(m_conns), NEW v \in Callers
        PROVE  caller'[v].conn # m_conns[i]
    <3>1. CASE v = u
      BY <3>1, <1>2, <1>3, <1>6
    <3>2. CASE v # u
      BY <3>2, <1>3 DEF ListedOnce
    <3> QED
      BY <3>1, <3>2
  <2> QED
    BY <1>1, <2>1 DEF ListedOnce
<1>10. AliveIsKnown'
  <2> SUFFICES ASSUME NEW d \in PoolConns
               PROVE  conn'[d].alive <=> Listed(d)' \/ Held(d)'
    BY DEF AliveIsKnown
  <2>1. Listed(d)' <=> Listed(d)
    BY <1>1 DEF Listed
  <2>2. d # c => (Held(d)' <=> Held(d))
    BY <1>2, <1>3, <1>14 DEF Held
  <2>4. CASE d = c
    <3>1. ~Held(d)' /\ ~Listed(d)'
      BY <2>1, <2>4, <1>1, <1>2, <1>3, <1>5, <1>6 DEF Held, Listed
    <3> QED
      BY <2>4, <3>1, <1>7
  <2>5. CASE d # c
    BY <2>5, <2>1, <2>2, <1>7 DEF AliveIsKnown
  <2> QED
    BY <2>4, <2>5
<1>11. Streams'
  <2>2. \A i \in 1..Len(m_conns') : conn'[m_conns'[i]].connected /\ Quiet(m_conns[i])'
    BY <1>1, <1>6, <1>7 DEF Streams, Quiet
  <2>3. ASSUME NEW v \in Callers, v # u
        PROVE  StreamOfStage(v, caller[v].at, caller[v].conn)'
    <3>1. StreamOfStage(v, caller[v].at, caller[v].conn)
      BY DEF Streams
    <3>3. caller[v].at \in Holding => caller[v].conn \in PoolConns
      BY DEF HeldOnce
    <3> QED
      BY <2>3, <3>1, <3>3, <1>3, <1>5, <1>7 DEF StreamOfStage, Quiet, Holding
  <2>4. StreamOfStage(u, caller[u].at, caller[u].conn)'
    BY <1>3 DEF StreamOfStage
  <2> QED
    BY <2>2, <2>3, <2>4 DEF Streams
<1>12. AnswerIsMine' /\ RetiredOnlyOld'
  BY <1>1, <1>3 DEF AnswerIsMine, RetiredOnlyOld
<1>15. TotalIsExact' /\ RoomKept'
  <2>1. m_total = Cardinality(Existing) + Cardinality(CallersAt("uncount")) - Cardinality(CallersAt("count"))
    BY DEF TotalIsExact, Existing, CallersAt
  <2>2. /\ Cardinality(CallersAt("uncount")) \in Nat /\ Cardinality(CallersAt("count")) \in Nat
        /\ Cardinality(CallersAt("uncount")') = Cardinality(CallersAt("uncount")) + 1
    <3>1. /\ caller[u].at # "uncount" /\ caller'[u].at = "uncount"
          /\ \A v \in Callers : v # u => caller'[v].at = caller[v].at
      BY <1>1, <1>3
    <3> QED
      BY <3>1, MoveCount, Zenon
  <2>3. CallersAt("push")' = CallersAt("push") /\ CallersAt("count")' = CallersAt("count")
    BY <1>1, <1>3 DEF CallersAt
  <2>4. IsFiniteSet(Existing) /\ Cardinality(Existing) \in Nat
    BY ExistingIsFinite
  <2>5. Existing' = Existing \ {c} /\ c \in Existing
    BY <1>2, <1>7, <1>13 DEF Existing
  <2>6. Cardinality(Existing') = Cardinality(Existing) - 1
    BY <2>4, <2>5, FS_RemoveElement
  <2>7. m_total' = Cardinality(Existing') + Cardinality(CallersAt("uncount")') - Cardinality(CallersAt("count")')
    BY <1>1, <2>1, <2>2, <2>3, <2>4, <2>6
  <2> QED
    BY <2>3, <2>7, <1>1 DEF TotalIsExact, Existing, CallersAt, RoomKept
<1> QED
  BY <1>4, <1>8, <1>9, <1>10, <1>11, <1>12, <1>15

LEMMA PushKeeps ==
    ASSUME PoolIInv, NEW u \in Callers, PushConnection(u)
    PROVE  PoolIInv'
<1> USE DEF PoolIInv
<1> DEFINE c == caller[u].conn
           n == Len(m_conns)
<1>1. /\ caller[u].at = "push" /\ m_conns' = Append(m_conns, c)
      /\ caller' = [caller EXCEPT ![u].at = "idle", ![u].conn = NoConn]
      /\ UNCHANGED <<m_total, conn, clock, start, retired>>
  BY DEF PushConnection
<1>2. c \in PoolConns /\ NoConn \notin PoolConns /\ m_conns \in Seq(PoolConns)
  BY <1>1, PoolObjects DEF HeldOnce, Holding, PoolTypeOK
<1>3. /\ caller'[u].at = "idle" /\ caller'[u].conn = NoConn
      /\ \A v \in Callers : v # u => caller'[v] = caller[v]
  BY <1>1 DEF PoolTypeOK, Calls
<1>4. /\ n \in Nat /\ m_conns' \in Seq(PoolConns) /\ Len(m_conns') = n + 1
      /\ \A i \in 1..n : m_conns'[i] = m_conns[i]
      /\ m_conns'[n + 1] = c
  BY <1>1, <1>2, AppendProperties
<1>5. \A v \in Callers : v # u => caller[v].conn # c
  BY <1>2 DEF HeldOnce
<1>6. \A i \in 1..n : m_conns[i] \in PoolConns /\ m_conns[i] # c
  BY ElementOfSeq DEF PoolTypeOK, ListedOnce
<1>13. conn[c].alive /\ conn[c].connected /\ Quiet(c)
  BY <1>1, <1>2 DEF AliveIsKnown, Held, Streams, StreamOfStage
<1>14. \A d \in PoolConns : caller[u].conn = d => d = c
  OBVIOUS
<1> HIDE DEF c, n, NoConn
<1>7. PoolTypeOK'
  <2>1. [caller[u] EXCEPT !.at = "idle", !.conn = NoConn] \in Calls
    BY CallType, StagesAre, Zenon DEF PoolTypeOK, RequestOrNone, ConnOrNone
  <2>2. caller' = [caller EXCEPT ![u] = [caller[u] EXCEPT !.at = "idle", !.conn = NoConn]]
    BY <1>1 DEF PoolTypeOK
  <2> QED
    BY <1>1, <1>4, <2>1, <2>2 DEF PoolTypeOK
<1>8. HeldOnce'
  BY <1>2, <1>3 DEF HeldOnce, Holding
<1>16. \A i \in 1..(n + 1) : i \in 1..n \/ i = n + 1
  BY <1>4
<1>9. ListedOnce'
  <2>1. ASSUME NEW i \in 1..Len(m_conns'), NEW j \in 1..Len(m_conns'), m_conns'[i] = m_conns'[j]
        PROVE  i = j
    BY <2>1, <1>4, <1>6, <1>16 DEF ListedOnce, n
  <2>2. ASSUME NEW i \in 1..Len(m_conns'), NEW v \in Callers
        PROVE  caller'[v].conn # m_conns'[i]
    <3>1. m_conns'[i] \in PoolConns
      BY <1>2, <1>4, <1>6, <1>16
    <3>2. CASE v = u
      BY <3>1, <3>2, <1>2, <1>3
    <3>3. CASE v # u
      BY <3>3, <1>3, <1>4, <1>5, <1>16 DEF ListedOnce, n
    <3> QED
      BY <3>2, <3>3
  <2> QED
    BY <2>1, <2>2 DEF ListedOnce
<1>10. AliveIsKnown'
  <2> SUFFICES ASSUME NEW d \in PoolConns
               PROVE  conn'[d].alive <=> Listed(d)' \/ Held(d)'
    BY DEF AliveIsKnown
  <2>1. Listed(d)' <=> Listed(d) \/ d = c
    <3>1. 1..n \subseteq 1..Len(m_conns') /\ n + 1 \in 1..Len(m_conns')
      BY <1>4
    <3>2. Listed(d) => Listed(d)'
      BY <3>1, <1>4 DEF Listed, n
    <3>3. d = c => Listed(d)'
      BY <3>1, <1>4 DEF Listed
    <3>4. Listed(d)' => Listed(d) \/ d = c
      BY <1>4, <1>16 DEF Listed, n
    <3> QED
      BY <3>2, <3>3, <3>4
  <2>2. d # c => (Held(d)' <=> Held(d))
    BY <1>2, <1>3, <1>14 DEF Held
  <2>3. CASE d = c
    BY <2>1, <2>3, <1>1, <1>13
  <2>4. CASE d # c
    BY <2>1, <2>2, <2>4, <1>1 DEF AliveIsKnown
  <2> QED
    BY <2>3, <2>4
<1>11. Streams'
  <2>2. ASSUME NEW i \in 1..Len(m_conns')
        PROVE  conn'[m_conns'[i]].connected /\ Quiet(m_conns[i])'
    BY <1>1, <1>4, <1>13, <1>16 DEF Streams, Quiet, n
  <2>3. ASSUME NEW v \in Callers
        PROVE  StreamOfStage(v, caller[v].at, caller[v].conn)'
    <3>1. StreamOfStage(v, caller[v].at, caller[v].conn)
      BY DEF Streams
    <3> QED
      BY <3>1, <1>1, <1>3, Zenon DEF StreamOfStage, Quiet
  <2> QED
    BY <2>2, <2>3 DEF Streams
<1>12. AnswerIsMine' /\ RetiredOnlyOld'
  BY <1>1, <1>3 DEF AnswerIsMine, RetiredOnlyOld
<1>15. TotalIsExact' /\ RoomKept'
  <2>1. CallersAt("uncount")' = CallersAt("uncount") /\ CallersAt("count")' = CallersAt("count") /\ Existing' = Existing
    BY <1>1, <1>3 DEF CallersAt, Existing
  <2>2. /\ Cardinality(CallersAt("push")) \in Nat
        /\ Cardinality(CallersAt("push")') = Cardinality(CallersAt("push")) - 1
    BY <1>1, <1>3, MoveCount, Zenon
  <2>3. RoomKept'
    BY <2>2, <1>4, PoolSizes DEF RoomKept, n
  <2>4. TotalIsExact'
    BY <2>1, <1>1 DEF TotalIsExact, CallersAt, Existing
  <2> QED
    BY <2>3, <2>4
<1> QED
  BY <1>7, <1>8, <1>9, <1>10, <1>11, <1>12, <1>15

LEMMA AnswerKeeps ==
    ASSUME PoolIInv, NEW c \in PoolConns, PoolAnswer(c)
    PROVE  PoolIInv'
<1> USE DEF PoolIInv
<1> DEFINE s == conn[c].sent
           w == conn[c].wire
<1>1. /\ s # <<>>
      /\ conn' = [conn EXCEPT ![c].sent = Tail(@), ![c].wire = Append(@, s[1])]
      /\ UNCHANGED <<m_conns, m_total, caller, clock, start, retired>>
  BY DEF PoolAnswer
<1>2. s \in Seq(Requests) /\ w \in Seq(Requests) /\ conn[c] \in Objects
  BY DEF PoolTypeOK, Objects
<1>3. Tail(s) \in Seq(Requests) /\ Append(w, s[1]) \in Seq(Requests)
  <2>1. s[1] \in Requests /\ Tail(s) \in Seq(Requests)
    BY <1>1, <1>2
  <2> QED
    BY <1>2, <2>1, AppendProperties
<1>4. conn' = [conn EXCEPT ![c] = [conn[c] EXCEPT !.sent = Tail(s), !.wire = Append(w, s[1])]]
  BY <1>1 DEF PoolTypeOK, Objects
<1>5. PoolTypeOK'
  <2>1. [conn[c] EXCEPT !.sent = Tail(s), !.wire = Append(w, s[1])] \in Objects
    <3>1. FALSE \in BOOLEAN /\ 0 \in Nat /\ 0 \in Int
      OBVIOUS
    <3> QED
      BY <3>1, <1>2, <1>3, ObjectType, Zenon
  <2> QED
    BY <1>1, <1>4, <2>1 DEF PoolTypeOK
<1>6. /\ conn'[c].sent = Tail(s) /\ conn'[c].wire = Append(w, s[1])
      /\ conn'[c].alive = conn[c].alive /\ conn'[c].connected = conn[c].connected
      /\ \A d \in PoolConns : d # c => conn'[d] = conn[d]
  BY <1>4 DEF PoolTypeOK, Objects
<1>7. HeldOnce' /\ ListedOnce' /\ AliveIsKnown' /\ Existing' = Existing
  <2>1. \A d \in PoolConns : conn'[d].alive = conn[d].alive
    BY <1>6
  <2> QED
    BY <1>1, <1>5, <2>1, SameHolders
<1>8. Streams'
  <2>1. \A i \in 1..Len(m_conns) : m_conns[i] \in PoolConns /\ m_conns[i] # c
    <3>1. \A i \in 1..Len(m_conns) : m_conns[i] \in PoolConns /\ Quiet(m_conns[i])
      BY ElementOfSeq DEF PoolTypeOK, Streams
    <3> QED
      BY <3>1, <1>1 DEF Quiet
  <2>2. ASSUME NEW i \in 1..Len(m_conns')
        PROVE  conn'[m_conns'[i]].connected /\ Quiet(m_conns[i])'
    <3>1. m_conns' = m_conns /\ i \in 1..Len(m_conns) /\ conn'[m_conns[i]] = conn[m_conns[i]]
      BY <2>1, <1>1, <1>6
    <3>2. conn[m_conns[i]].connected /\ Quiet(m_conns[i])
      BY <3>1 DEF Streams
    <3> QED
      BY <3>1, <3>2 DEF Quiet
  <2>3. ASSUME NEW v \in Callers
        PROVE  StreamOfStage(v, caller[v].at, caller[v].conn)'
    <3>1. StreamOfStage(v, caller[v].at, caller[v].conn) /\ caller' = caller
      BY <1>1 DEF Streams
    <3>2. caller[v].at \in Holding => caller[v].conn \in PoolConns
      BY DEF HeldOnce
    <3>3. CASE caller[v].conn # c
      BY <3>1, <3>2, <3>3, <1>6 DEF StreamOfStage, Quiet, Holding
    <3>4. CASE caller[v].conn = c /\ caller[v].at = "receive"
      <4> DEFINE mine == <<v, caller[v].asks>>
      <4>1. s = <<mine>> /\ w = <<>>
        BY <3>1, <3>4, <1>1 DEF StreamOfStage
      <4>2. mine \in Requests
        BY DEF PoolTypeOK, Calls, Requests
      <4>3. Tail(s) = <<>> /\ Append(w, s[1]) = <<mine>>
        BY <4>1, <4>2, OneElement
      <4> HIDE DEF mine
      <4>4. conn'[c].sent = <<>> /\ conn'[c].wire = <<mine>>
        BY <4>3, <1>6
      <4> QED
        BY <3>1, <3>4, <4>4 DEF StreamOfStage, mine
    <3>5. CASE caller[v].conn = c /\ caller[v].at # "receive"
      BY <3>1, <3>5, <1>1, <1>6 DEF StreamOfStage, Quiet
    <3> QED
      BY <3>3, <3>4, <3>5
  <2> QED
    BY <2>2, <2>3 DEF Streams
<1>9. AnswerIsMine' /\ RetiredOnlyOld' /\ RoomKept' /\ TotalIsExact'
  BY <1>1, <1>7 DEF AnswerIsMine, RetiredOnlyOld, RoomKept, TotalIsExact, CallersAt, Existing
<1> QED
  BY <1>5, <1>7, <1>8, <1>9

\* The list after the connections up to the n-th were taken off.
LEMMA RestIs ==
    ASSUME NEW Elems, NEW s \in Seq(Elems), NEW n \in 0..Len(s)
    PROVE  /\ SubSeq(s, n + 1, Len(s)) \in Seq(Elems)
           /\ Len(SubSeq(s, n + 1, Len(s))) = Len(s) - n
           /\ \A i \in 1..(Len(s) - n) : SubSeq(s, n + 1, Len(s))[i] = s[n + i]
<1> DEFINE t == SubSeq(s, n + 1, Len(s))
<1>1. /\ t \in Seq(Elems) /\ Len(t) = IF n + 1 <= Len(s) THEN Len(s) - (n + 1) + 1 ELSE 0
      /\ \A i \in 1..(Len(s) - (n + 1) + 1) : t[i] = s[(n + 1) + i - 1]
  <2>1. \A i \in (n + 1)..Len(s) : s[i] \in Elems
    BY ElementOfSeq
  <2>2. n + 1 \in Int /\ Len(s) \in Int
    OBVIOUS
  <2> QED
    BY <2>1, <2>2, SubSeqProperties
<1> HIDE DEF t
<1>2. Len(s) - (n + 1) + 1 = Len(s) - n /\ \A i \in Int : (n + 1) + i - 1 = n + i
  OBVIOUS
<1>3. Len(t) = Len(s) - n
  BY <1>1
<1>4. ASSUME NEW i \in 1..(Len(s) - n)
      PROVE  t[i] = s[n + i]
  <2>1. i \in 1..(Len(s) - (n + 1) + 1) /\ (n + 1) + i - 1 = n + i
    BY <1>2
  <2> QED
    BY <1>1, <2>1
<1> QED
  BY <1>1, <1>3, <1>4 DEF t

LEMMA GetKeeps ==
    ASSUME PoolIInv, NEW u \in Callers, GetConnection(u)
    PROVE  PoolIInv'
<1> USE DEF PoolIInv
<1> DEFINE N == Len(m_conns)
           usable == {i \in DOMAIN m_conns : ~Invalid(m_conns[i])}
           n == IF usable = {} THEN N ELSE CHOOSE i \in usable : \A j \in usable : i <= j
           last == IF usable = {} THEN n ELSE n - 1
           dropped == {m_conns[i] : i \in 1..last}
           at == IF usable = {} THEN "connect" ELSE "send"
           taken == IF usable = {} THEN NoConn ELSE m_conns[n]
<1>1. /\ caller[u].at = "idle"
      /\ m_conns' = SubSeq(m_conns, n + 1, N) /\ m_total' = m_total - last
      /\ conn' = [c \in PoolConns |-> IF c \in dropped THEN Fresh ELSE conn[c]]
      /\ retired' = retired \cup {Age(c) : c \in {d \in dropped : conn[d].connected}}
      /\ caller' = [caller EXCEPT ![u].at = at, ![u].conn = taken, ![u].asks = @ + 1]
      /\ clock' = clock /\ start' = start
  BY Zenon DEF GetConnection, Rest
<1>2. m_conns \in Seq(PoolConns) /\ N \in Nat /\ DOMAIN m_conns = 1..N
      /\ \A i \in 1..N : m_conns[i] \in PoolConns
  <2>1. \A i \in 1..N : m_conns[i] \in PoolConns
    BY ElementOfSeq DEF PoolTypeOK
  <2> QED
    BY <2>1 DEF PoolTypeOK
<1>3. /\ n \in 0..N /\ last \in 0..n
      /\ \A i \in 1..last : Invalid(m_conns[i])
      /\ \/ at = "connect" /\ taken = NoConn /\ last = n /\ n = N
         \/ at = "send" /\ n \in 1..N /\ last = n - 1 /\ taken = m_conns[n]
  <2>1. CASE usable = {}
    <3>1. n = N /\ last = N /\ at = "connect" /\ taken = NoConn
      BY <2>1
    <3>2. \A i \in 1..N : Invalid(m_conns[i])
      BY <2>1, <1>2
    <3> HIDE DEF n, last, at, taken
    <3> QED
      BY <3>1, <3>2, <1>2
  <2>2. CASE usable # {}
    <3>1. usable \in SUBSET Nat /\ usable \subseteq 1..N
      BY <1>2
    <3>2. \E i \in usable : \A j \in usable : i <= j
      BY <2>2, <3>1, LeastNatural
    <3>3. n \in usable /\ \A j \in usable : n <= j
      BY <2>2, <3>2
    <3>4. last = n - 1 /\ at = "send" /\ taken = m_conns[n]
      BY <2>2
    <3>5. n \in 1..N
      BY <3>1, <3>3
    <3> HIDE DEF n, last, at, taken
    <3>6. \A i \in 1..last : i \in 1..N /\ i \notin usable
      BY <3>1, <3>3, <3>4, <3>5, <1>2
    <3>7. \A i \in 1..last : Invalid(m_conns[i])
      BY <3>6, <1>2
    <3> QED
      BY <3>4, <3>5, <3>7
  <2> QED
    BY <2>1, <2>2
<1> HIDE DEF usable, n, last, at, taken
<1>25. n \in Nat /\ n <= N /\ last \in Nat /\ last <= n
  <2>1. n \in 0..N /\ last \in 0..n
    BY <1>3
  <2>2. N \in Nat
    BY <1>2
  <2> HIDE DEF N
  <2> QED
    BY <2>1, <2>2
<1>26. 1..last \subseteq 1..N
  BY <1>2, <1>25
<1>4. /\ m_conns' \in Seq(PoolConns) /\ Len(m_conns') = N - n
      /\ \A i \in 1..(N - n) : m_conns'[i] = m_conns[n + i]
  BY <1>1, <1>2, <1>3, RestIs
<1>5. /\ caller'[u].at = at /\ caller'[u].conn = taken /\ caller'[u].asks = caller[u].asks + 1
      /\ \A v \in Callers : v # u => caller'[v] = caller[v]
  BY <1>1 DEF PoolTypeOK, Calls
<1>6. caller[u].conn \notin PoolConns /\ NoConn \notin PoolConns
  BY <1>1, PoolObjects DEF HeldOnce, Holding
<1>7. \A i, j \in 1..N : m_conns[i] = m_conns[j] => i = j
  BY DEF ListedOnce
<1>8. \A i \in 1..N : (m_conns[i] \in dropped) <=> i <= last
  <2>1. 1..last \subseteq 1..N
    BY <1>26
  <2>2. ASSUME NEW i \in 1..N, m_conns[i] \in dropped
        PROVE  i <= last
    <3>1. PICK j \in 1..last : m_conns[i] = m_conns[j]
      BY <2>2
    <3>2. i = j
      BY <3>1, <2>1, <1>7
    <3> QED
      BY <3>2, <1>3
  <2>3. ASSUME NEW i \in 1..N, i <= last
        PROVE  m_conns[i] \in dropped
    BY <2>3, <1>2
  <2> QED
    BY <2>2, <2>3
<1>9. \A v \in Callers : caller[v].conn \notin dropped
  <2>1. 1..last \subseteq 1..N
    BY <1>26
  <2> QED
    BY <2>1 DEF ListedOnce
<1>10. dropped \in SUBSET PoolConns /\ IsFiniteSet(dropped) /\ Cardinality(dropped) = last
       /\ dropped \subseteq Existing
  <2>1. last \in Nat /\ 1..last \subseteq 1..N
    BY <1>25, <1>26
  <2>2. IsFiniteSet(1..last) /\ Cardinality(1..last) = last
    <3>1. IsFiniteSet(1..last) /\ Cardinality(1..last) = IF 1 > last THEN 0 ELSE last - 1 + 1
      BY <2>1, FS_Interval, 1 \in Int, last \in Int, Zenon
    <3> QED
      BY <2>1, <3>1
  <2>7. PICK f : f = [i \in 1..last |-> m_conns[i]]
    OBVIOUS
  <2>3. f = [i \in 1..last |-> f[i]] /\ \A i, j \in 1..last : f[i] = f[j] => i = j
    BY <2>1, <2>7, <1>7
  <2>4. dropped = {f[i] : i \in 1..last}
    BY <2>7
  <2>5. IsFiniteSet({f[i] : i \in 1..last}) /\ Cardinality({f[i] : i \in 1..last}) = last
    <3>1. PICK D : D = 1..last
      OBVIOUS
    <3>2. f = [i \in D |-> f[i]] /\ IsFiniteSet(D) /\ \A i, j \in D : f[i] = f[j] => i = j
      BY <2>2, <2>3, <3>1
    <3>3. IsFiniteSet({f[i] : i \in D}) /\ Cardinality({f[i] : i \in D}) = Cardinality(D)
      BY <3>2, ImageCount
    <3> QED
      BY <3>1, <3>3, <2>2
  <2>6. dropped \subseteq PoolConns /\ dropped \subseteq Existing
    BY <2>1, <1>2 DEF Existing, AliveIsKnown, Listed
  <2> QED
    BY <2>4, <2>5, <2>6
<1>11. \A c \in dropped : Invalid(c) /\ conn[c].connected
  <2>1. 1..last \subseteq 1..N
    BY <1>26
  <2> QED
    BY <2>1, <1>3 DEF Streams
<1> HIDE DEF dropped
<1>12. \A c \in PoolConns : /\ c \in dropped => conn'[c] = Fresh
                            /\ c \notin dropped => conn'[c] = conn[c]
  BY <1>1
<1>13. PoolTypeOK'
  <2>1. at \in Stages /\ taken \in ConnOrNone /\ caller[u].asks + 1 \in Nat
    <3>1. taken = NoConn \/ taken \in PoolConns
      BY <1>2, <1>3, Zenon
    <3>2. at = "connect" \/ at = "send"
      BY <1>3
    <3> QED
      BY <3>1, <3>2, StagesAre DEF Holding, ConnOrNone, PoolTypeOK, Calls
  <2>2. [caller[u] EXCEPT !.at = at, !.conn = taken, !.asks = caller[u].asks + 1] \in Calls
    BY <2>1, CallType, Zenon DEF PoolTypeOK, RequestOrNone
  <2>3. caller' = [caller EXCEPT ![u] = [caller[u] EXCEPT !.at = at, !.conn = taken, !.asks = caller[u].asks + 1]]
    BY <1>1 DEF PoolTypeOK
  <2>4. caller' \in [Callers -> Calls]
    BY <2>2, <2>3 DEF PoolTypeOK
  <2>5. Fresh \in Objects
    BY DEF Fresh, Objects
  <2>6. conn' \in [PoolConns -> Objects]
    BY <2>5, <1>1 DEF PoolTypeOK
  <2>7. m_total' \in Int
    BY <1>1, <1>2, <1>3 DEF PoolTypeOK
  <2> QED
    BY <1>1, <1>4, <2>4, <2>6, <2>7 DEF PoolTypeOK
<1>14. ASSUME NEW i \in 1..Len(m_conns')
       PROVE  /\ n + i \in 1..N /\ m_conns'[i] = m_conns[n + i] /\ m_conns'[i] \in PoolConns
              /\ m_conns'[i] \notin dropped /\ m_conns'[i] # taken
              /\ conn'[m_conns'[i]] = conn[m_conns[n + i]]
  <2>1. n + i \in 1..N /\ m_conns'[i] = m_conns[n + i] /\ ~(n + i <= last) /\ n + i # n
    BY <1>2, <1>25, <1>4
  <2>2. m_conns'[i] \in PoolConns /\ m_conns'[i] \notin dropped
    BY <2>1, <1>2, <1>8
  <2>3. m_conns'[i] # taken
    BY <2>1, <2>2, <1>3, <1>6, <1>7
  <2> QED
    BY <2>1, <2>2, <2>3, <1>12
<1>15. ASSUME NEW c \in PoolConns
       PROVE  Listed(c) <=> Listed(c)' \/ c \in dropped \/ c = taken
  <2>1. ASSUME Listed(c)
        PROVE  Listed(c)' \/ c \in dropped \/ c = taken
    <3>1. PICK i \in 1..N : m_conns[i] = c
      BY <2>1 DEF Listed
    <3>2. CASE i <= last
      BY <3>1, <3>2, <1>8
    <3>3. CASE ~(i <= last) /\ i <= n
      <4>1. i = n
        <5>1. last = n \/ last = n - 1
          BY <1>3
        <5>2. i \in Int /\ n \in Int /\ last \in Int
          BY <1>25
        <5> QED
          BY <3>3, <5>1, <5>2
      <4> QED
        BY <3>1, <3>3, <4>1, <1>3, <1>25
    <3>4. CASE i > n
      <4>1. i - n \in 1..(N - n) /\ n + (i - n) = i
        BY <3>4, <1>2, <1>25
      <4>2. m_conns'[i - n] = c
        BY <4>1, <3>1, <1>4
      <4> QED
        BY <4>1, <4>2, <1>4 DEF Listed
    <3> QED
      BY <3>2, <3>3, <3>4, <1>2, <1>25
  <2>2. Listed(c)' => Listed(c)
    BY <1>14 DEF Listed
  <2>3. c \in dropped => Listed(c)
    <3>1. 1..last \subseteq 1..N
      BY <1>26
    <3> QED
      BY <3>1 DEF dropped, Listed
  <2>4. c = taken => Listed(c)
    BY <1>3, <1>6 DEF Listed
  <2> QED
    BY <2>1, <2>2, <2>3, <2>4
<1>16. ASSUME NEW c \in PoolConns
       PROVE  Held(c)' <=> Held(c) \/ c = taken
  BY <1>5, <1>6 DEF Held
<1>17. taken \in PoolConns => \A v \in Callers : caller[v].conn # taken
  BY <1>3, <1>6 DEF ListedOnce
<1>18. HeldOnce'
  <2>1. taken \in PoolConns <=> at \in Holding
    BY <1>2, <1>3, <1>6 DEF Holding
  <2>2. \A v \in Callers : caller'[v].conn \in PoolConns <=> caller'[v].at \in Holding
    BY <2>1, <1>5 DEF HeldOnce
  <2>3. ASSUME NEW v \in Callers, NEW w \in Callers, caller'[v].conn = caller'[w].conn,
               caller'[v].conn \in PoolConns
        PROVE  v = w
    BY <2>3, <1>5, <1>17 DEF HeldOnce
  <2> QED
    BY <2>2, <2>3 DEF HeldOnce
<1>19. ListedOnce'
  <2>1. ASSUME NEW i \in 1..Len(m_conns'), NEW j \in 1..Len(m_conns'), m_conns'[i] = m_conns'[j]
        PROVE  i = j
    <3>1. n + i = n + j
      BY <2>1, <1>14, <1>7
    <3> QED
      BY <3>1, <1>2, <1>3, <1>4
  <2>2. ASSUME NEW i \in 1..Len(m_conns'), NEW v \in Callers
        PROVE  caller'[v].conn # m_conns'[i]
    <3>1. CASE v = u
      BY <3>1, <1>5, <1>14
    <3>2. CASE v # u
      BY <3>2, <1>5, <1>14 DEF ListedOnce
    <3> QED
      BY <3>1, <3>2
  <2> QED
    BY <2>1, <2>2 DEF ListedOnce
<1>20. AliveIsKnown'
  <2> SUFFICES ASSUME NEW c \in PoolConns
               PROVE  conn'[c].alive <=> Listed(c)' \/ Held(c)'
    BY DEF AliveIsKnown
  <2>1. conn[c].alive <=> Listed(c) \/ Held(c)
    BY DEF AliveIsKnown
  <2>2. CASE c \in dropped
    <3>1. ~Listed(c)'
      BY <2>2, <1>14 DEF Listed
    <3>2. c # taken /\ ~Held(c)
      <4>1. taken \notin dropped
        <5>1. CASE taken = NoConn
          BY <5>1, <1>6, <1>10
        <5>2. CASE n \in 1..N /\ last = n - 1 /\ taken = m_conns[n]
          BY <5>2, <1>2, <1>8
        <5> QED
          BY <5>1, <5>2, <1>3
      <4> QED
        BY <2>2, <4>1, <1>9 DEF Held
    <3>3. ~conn'[c].alive
      BY <2>2, <1>12 DEF Fresh
    <3> QED
      BY <3>1, <3>2, <3>3, <1>16
  <2>3. CASE c \notin dropped
    <3>1. conn'[c] = conn[c]
      BY <2>3, <1>12
    <3> QED
      BY <2>1, <2>3, <3>1, <1>15, <1>16
  <2> QED
    BY <2>2, <2>3
<1>21. Streams'
  <2>1. ASSUME NEW i \in 1..Len(m_conns')
        PROVE  conn'[m_conns'[i]].connected /\ Quiet(m_conns[i])'
    <3>1. n + i \in 1..N /\ conn'[m_conns'[i]] = conn[m_conns[n + i]]
      BY <1>14
    <3>2. conn[m_conns[n + i]].connected /\ Quiet(m_conns[n + i])
      BY <3>1 DEF Streams
    <3> QED
      BY <3>1, <3>2 DEF Quiet
  <2>2. ASSUME NEW v \in Callers, v # u
        PROVE  StreamOfStage(v, caller[v].at, caller[v].conn)'
    <3>1. StreamOfStage(v, caller[v].at, caller[v].conn)
      BY DEF Streams
    <3>2. caller[v].at \in Holding => caller[v].conn \in PoolConns
      BY DEF HeldOnce
    <3> QED
      BY <2>2, <3>1, <3>2, <1>5, <1>9, <1>12 DEF StreamOfStage, Quiet, Holding
  <2>3. StreamOfStage(u, caller[u].at, caller[u].conn)'
    <3>1. CASE at = "connect"
      BY <3>1, <1>5 DEF StreamOfStage
    <3>2. CASE at = "send"
      <4>1. n \in 1..N /\ taken = m_conns[n] /\ ~(n <= last)
        BY <3>2, <1>2, <1>3
      <4>2. taken \in PoolConns /\ taken \notin dropped
        BY <4>1, <1>2, <1>8
      <4>3. conn[taken].connected /\ Quiet(taken)
        BY <4>1 DEF Streams
      <4>4. conn'[taken] = conn[taken]
        BY <4>2, <1>12
      <4> QED
        BY <3>2, <4>3, <4>4, <1>5 DEF StreamOfStage, Quiet
    <3> QED
      BY <3>1, <3>2, <1>3
  <2> QED
    BY <2>1, <2>2, <2>3 DEF Streams
<1>22. AnswerIsMine'
  <2>1. at # "release"
    BY <1>3
  <2> QED
    BY <2>1, <1>5 DEF AnswerIsMine
<1>23. RetiredOnlyOld'
  <2>1. \A c \in dropped : conn[c].connected => Age(c) >= (MaxAlive + start) % Width
    BY <1>10, <1>11, ExpiredIsOld DEF Invalid
  <2>2. /\ retired' = retired \cup {Age(c) : c \in {d \in dropped : conn[d].connected}}
        /\ start' = start
    BY <1>1
  <2> QED
    BY ONLY RetiredOnlyOld, <2>1, <2>2 DEF RetiredOnlyOld
<1>24. TotalIsExact' /\ RoomKept'
  <2>1. m_total = Cardinality(Existing) + Cardinality(CallersAt("uncount")) - Cardinality(CallersAt("count"))
    BY DEF TotalIsExact, Existing, CallersAt
  <2>2. at \in {"connect", "send"}
    BY <1>3
  <2>3. CallersAt("push")' = CallersAt("push") /\ CallersAt("uncount")' = CallersAt("uncount") /\ CallersAt("count")' = CallersAt("count")
    BY <2>2, <1>1, <1>5 DEF CallersAt
  <2>4. IsFiniteSet(Existing) /\ Cardinality(Existing) \in Nat
    BY ExistingIsFinite
  <2>5. Existing' = Existing \ dropped
    BY <1>12 DEF Existing, Fresh
  <2>6. Cardinality(Existing') = Cardinality(Existing) - last
    <3>1. Existing \cap dropped = dropped
      BY <1>10
    <3> QED
      BY <3>1, <2>4, <2>5, <1>10, FS_Difference, Zenon
  <2>7. Cardinality(CallersAt("uncount")) \in Nat /\ Cardinality(CallersAt("count")) \in Nat
        /\ Cardinality(CallersAt("push")) \in Nat
    BY PoolObjects, FS_Subset, FS_CardinalityType DEF CallersAt
  <2>8. m_total' = Cardinality(Existing') + Cardinality(CallersAt("uncount")') - Cardinality(CallersAt("count")')
    BY <1>1, <1>3, <2>1, <2>3, <2>4, <2>6, <2>7
  <2>9. TotalIsExact'
    BY <2>8 DEF TotalIsExact, Existing, CallersAt
  <2>10. RoomKept'
    <3>1. Len(m_conns) \in Nat /\ Len(m_conns') \in Nat /\ Len(m_conns') <= Len(m_conns)
      BY <1>2, <1>4, <1>25
    <3> QED
      BY <3>1, <2>3, <2>7, PoolSizes DEF RoomKept
  <2> QED
    BY <2>9, <2>10
<1> QED
  BY <1>13, <1>18, <1>19, <1>20, <1>21, <1>22, <1>23, <1>24

LEMMA PoolStepKeeps == PoolIInv /\ [PoolNext]_poolVars => PoolIInv'
<1> SUFFICES ASSUME PoolIInv, [PoolNext]_poolVars
             PROVE  PoolIInv'
  OBVIOUS
<1>1. ASSUME NEW u \in Callers, PoolStep(u)
      PROVE  PoolIInv'
  BY <1>1, ConnectKeeps, ConnectFailsKeeps, CountKeeps, SendKeeps, SendFailsKeeps,
     ReceiveKeeps, ReceiveFailsKeeps, ReleaseKeeps, DeleteKeeps, PushKeeps DEF PoolStep
<1>2. CASE PoolTick \/ UNCHANGED poolVars
  <2>1. /\ clock' \in {clock, clock + 1}
        /\ UNCHANGED <<m_conns, m_total, conn, caller, start, retired>>
    BY <1>2 DEF PoolTick, poolVars
  <2>2. PoolTypeOK'
    BY <2>1 DEF PoolIInv, PoolTypeOK
  <2>3. HeldOnce' /\ ListedOnce' /\ AliveIsKnown' /\ Streams'
    BY <2>1 DEF PoolIInv, HeldOnce, ListedOnce, AliveIsKnown, Listed, Held, Streams, StreamOfStage, Quiet
  <2>4. AnswerIsMine' /\ TotalIsExact' /\ RoomKept' /\ RetiredOnlyOld'
    BY <2>1 DEF PoolIInv, AnswerIsMine, TotalIsExact, RoomKept, RetiredOnlyOld, CallersAt
  <2> QED
    BY <2>2, <2>3, <2>4 DEF PoolIInv
<1> QED
  BY <1>1, <1>2, GetKeeps, AnswerKeeps DEF PoolNext

\* Who holds a connection, as numbers.
LEMMA HoldersCounted == PoolIInv => OneHolder
<1> SUFFICES ASSUME PoolIInv, NEW c \in PoolConns
             PROVE  LET places == {i \in DOMAIN m_conns : m_conns[i] = c}
                        holders == {u \in Callers : caller[u].conn = c}
                    IN  Cardinality(places) + Cardinality(holders) = IF conn[c].alive THEN 1 ELSE 0
  BY DEF OneHolder
<1> USE DEF PoolIInv
<1> DEFINE places == {i \in DOMAIN m_conns : m_conns[i] = c}
           holders == {u \in Callers : caller[u].conn = c}
<1>1. DOMAIN m_conns = 1..Len(m_conns)
  BY DEF PoolTypeOK
<1>2. conn[c].alive <=> places # {} \/ holders # {}
  BY <1>1 DEF AliveIsKnown, Listed, Held
<1>3. places = {} \/ holders = {}
  BY <1>1 DEF ListedOnce
<1>4. \A i \in places : places = {i}
  BY <1>1 DEF ListedOnce
<1>5. \A u \in holders : holders = {u}
  BY DEF HeldOnce
<1>6. Cardinality(places) = IF places = {} THEN 0 ELSE 1
  BY <1>4, FS_EmptySet, FS_Singleton
<1>7. Cardinality(holders) = IF holders = {} THEN 0 ELSE 1
  BY <1>5, FS_EmptySet, FS_Singleton
<1> HIDE DEF places, holders
<1>8. Cardinality(places) + Cardinality(holders) = IF conn[c].alive THEN 1 ELSE 0
  <2>1. CASE places = {} /\ holders = {}
    BY <2>1, <1>2, <1>6, <1>7
  <2>2. CASE places # {} /\ holders = {}
    BY <2>2, <1>2, <1>6, <1>7
  <2>3. CASE places = {} /\ holders # {}
    BY <2>3, <1>2, <1>6, <1>7
  <2> QED
    BY <2>1, <2>2, <2>3, <1>3
<1> QED
  BY <1>8 DEF places, holders

\* The pool loses no connection and no count, keeps at most m_maxSize idle
\* connections and gives one up for its age only when it is old enough: for any
\* number of callers, any sizes and any times, although m_total is changed and
\* compared outside the mutex.
THEOREM PoolHolds == Spec => []PoolInv
<1>1. PoolIInv => IdleAtMostMax
  <2> SUFFICES ASSUME PoolIInv
               PROVE  IdleAtMostMax
    OBVIOUS
  <2>1. Cardinality(CallersAt("push")) \in Nat /\ Len(m_conns) \in Nat
    BY PoolObjects, FS_Subset, FS_CardinalityType DEF CallersAt, PoolIInv, PoolTypeOK
  <2> QED
    BY <2>1, PoolSizes DEF PoolIInv, RoomKept, IdleAtMostMax
<1>2. PoolIInv => PoolInv
  BY <1>1, HoldersCounted DEF PoolIInv, PoolInv
<1> QED
  BY <1>2, PartsInit, PartsNext, PoolInitial, PoolStepKeeps, PTL DEF Spec

\* An answer is the answer to the caller's own request, on a connection that
\* any number of callers used before, whether they got theirs or gave up.
THEOREM AnswerIsMineHolds == Spec => []AnswerIsMine
<1>1. PoolIInv => AnswerIsMine
  BY DEF PoolIInv
<1> QED
  BY <1>1, PartsInit, PartsNext, PoolInitial, PoolStepKeeps, PTL DEF Spec
=============================================================================
