-------------------------- MODULE StructuresProofs --------------------------
(***************************************************************************)
(* Proofs about the data structures, for any number of threads, files,     *)
(* descriptors, connections and loggers.  Each part is proved by itself; a *)
(* step of the program is a step of one part and leaves the others alone.  *)
(***************************************************************************)
EXTENDS Structures, FiniteSetTheorems, SequenceTheorems, WellFoundedInduction, TLAPS

-----------------------------------------------------------------------------
(* The parts of Structures.                                                *)

\* Every part begins in one of its initial states.
LEMMA PartsInit ==
    Init => /\ ArrayInit /\ PoolInit /\ ServletInit /\ TableInit
            /\ FdInit /\ DirInit /\ LogInit
BY DEF Init

\* A step of the program is a step of each part, or leaves it alone.
LEMMA PartsNext ==
    [Next]_vars => /\ [ArrayNext]_arrayVars
                   /\ [PoolNext]_poolVars /\ [ServletNext]_servletVars
                   /\ [TableNext]_tableVars /\ [FdNext]_fdVars
                   /\ [DirNext]_dirVars /\ [LogNext]_logVars
BY DEF Next, vars

-----------------------------------------------------------------------------
(* Config::LoadFromConfDir.                                                *)

DirTypeOK ==
    /\ content \in [ConfFiles -> Nat] /\ loaded \in [ConfFiles -> Nat]
    /\ s_file2modifytime \in [ConfFiles -> Nat]
    /\ second \in Nat /\ dirTime \in Nat
    /\ hand \in ConfFiles \cup {NoFile}

\* The times that were stored are times of the directory, which are past or
\* present: a new time of the directory was never stored before.
TimesInOrder ==
    dirTime <= second /\ \A f \in ConfFiles : s_file2modifytime[f] <= dirTime

DirIInv == DirTypeOK /\ TimesInOrder /\ ChangeIsNotLost

LEMMA DirInitial == DirInit => DirIInv
BY DEF DirInit, DirIInv, DirTypeOK, TimesInOrder, ChangeIsNotLost, Seen

\* A file changes, and the directory's time stays or becomes the present one.
LEMMA ChangeKeeps ==
    ASSUME DirIInv, NEW f \in ConfFiles, NEW time \in {dirTime, second}, Change(f, time)
    PROVE  DirIInv'
<1> USE DEF DirIInv
<1>1. DirTypeOK' /\ TimesInOrder'
  BY DEF Change, DirTypeOK, TimesInOrder
<1>2. ASSUME NEW g \in ConfFiles, loaded'[g] # content'[g]
      PROVE  ~Seen(g, dirTime)' \/ hand' = g \/ g \in hidden'
  <2>1. CASE g = f
    BY <2>1 DEF Change, Seen
  <2>2. CASE g # f
    <3>1. loaded[g] # content[g]
      BY <1>2, <2>2 DEF Change, DirTypeOK
    <3>2. ~Seen(g, dirTime) \/ hand = g \/ g \in hidden
      BY <3>1 DEF ChangeIsNotLost
    <3>3. Seen(g, time) => Seen(g, dirTime)
      BY DEF Seen, TimesInOrder, DirTypeOK
    <3> QED
      BY <3>2, <3>3 DEF Change, Seen
  <2> QED
    BY <2>1, <2>2
<1> QED
  BY <1>1, <1>2 DEF ChangeIsNotLost

LEMMA DirStep == DirIInv /\ [DirNext]_dirVars => DirIInv'
<1> SUFFICES ASSUME DirIInv, [DirNext]_dirVars
             PROVE  DirIInv'
  OBVIOUS
<1> USE DEF DirIInv
<1>1. ASSUME NEW f \in ConfFiles, WriteFile(f) \/ ReplaceFile(f)
      PROVE  DirIInv'
  BY <1>1, ChangeKeeps DEF WriteFile, ReplaceFile
<1>2. ASSUME NEW f \in ConfFiles, LookAt(f)
      PROVE  DirIInv'
  <2>1. /\ f \in todo /\ hand = NoFile
        /\ s_file2modifytime' = [s_file2modifytime EXCEPT ![f] = dirTime]
        /\ hand' = (IF Seen(f, dirTime) THEN NoFile ELSE f)
        /\ UNCHANGED <<content, second, dirTime, loaded, hidden>>
    BY <1>2 DEF LookAt, Stamp
  <2>2. DirTypeOK' /\ TimesInOrder'
    BY <2>1 DEF DirTypeOK, TimesInOrder
  <2>3. ChangeIsNotLost'
    BY <2>1, ConfFilesNamed DEF DirTypeOK, ChangeIsNotLost, Seen
  <2> QED
    BY <2>2, <2>3
<1>3. ASSUME NEW f \in ConfFiles, SkipFile(f)
      PROVE  DirIInv'
  BY <1>3 DEF SkipFile, Seen, DirTypeOK, TimesInOrder, ChangeIsNotLost
<1>4. CASE NextSecond
  BY <1>4 DEF NextSecond, Seen, DirTypeOK, TimesInOrder, ChangeIsNotLost
<1>5. CASE BeginPass
  BY <1>5 DEF BeginPass, Seen, DirTypeOK, TimesInOrder, ChangeIsNotLost
<1>6. CASE LoadFile \/ LoadFileFails
  <2>1. hand \in ConfFiles
    BY <1>6 DEF LoadFile, LoadFileFails, DirTypeOK
  <2> QED
    BY <1>6, <2>1 DEF LoadFile, LoadFileFails, Seen, DirTypeOK, TimesInOrder, ChangeIsNotLost
<1>7. CASE UNCHANGED dirVars
  BY <1>7 DEF dirVars, Seen, DirTypeOK, TimesInOrder, ChangeIsNotLost
<1> QED
  BY <1>1, <1>2, <1>3, <1>4, <1>5, <1>6, <1>7 DEF DirNext

\* A change of a configuration file is read by the next pass unless it left no
\* trace in the directory's time, for any files and any interleaving of the
\* changes with a pass.
THEOREM ChangeIsNotLostHolds == Spec => []ChangeIsNotLost
<1>1. DirIInv => ChangeIsNotLost
  BY DEF DirIInv
<1> QED
  BY <1>1, PartsInit, PartsNext, DirInitial, DirStep, PTL DEF Spec

-----------------------------------------------------------------------------
(* FdManager under socket(), accept() and close().                         *)

FdTypeOK ==
    /\ kernel \in [Numbers -> Nat] /\ fd_datas \in [Numbers -> Nat]
    /\ opener \in [Openers -> [at : {"out", "get", "close"}, fd : Int]]
    /\ files \in Nat /\ peak \in Nat
    /\ beyond \in BOOLEAN

\* Files are numbered as they are opened, and a file has one number.
FilesNumbered ==
    /\ \A f \in Numbers : kernel[f] <= files
    /\ \A f, g \in Numbers : kernel[f] = kernel[g] /\ kernel[f] # 0 => f = g
    /\ owned \subseteq 1..files

\* One thread at a time opens or closes a number, which is open meanwhile.
OneBusy ==
    /\ \A t \in Openers : opener[t].at # "out" =>
           opener[t].fd \in Numbers /\ kernel[opener[t].fd] # 0
    /\ \A t, u \in Openers :
           opener[t].at # "out" /\ opener[u].at # "out" /\ opener[t].fd = opener[u].fd => t = u

\* A number that was just opened has no context, and neither has one that is
\* being closed.
NoContextYet ==
    \A t \in Openers :
        /\ opener[t].at = "get" /\ Inside(opener[t].fd) /\ opener[t].fd \notin dirty =>
               fd_datas[opener[t].fd] = 0
        /\ opener[t].at = "close" => fd_datas[opener[t].fd] = 0

\* The lowest free number was given: all below it were in use.
PeakCovers == \A t \in Openers : opener[t].at = "get" => peak > opener[t].fd

FdIInv == FdTypeOK /\ FilesNumbered /\ OneBusy /\ NoContextYet /\ PeakCovers
          /\ ContextOfThisFile /\ BeyondOnlyWhenFull

LEMMA FdInitial == FdInit => FdIInv
<1> SUFFICES ASSUME FdInit
             PROVE  FdIInv
  OBVIOUS
<1>1. FdTypeOK
  <2>1. opener \in [Openers -> [at : {"out", "get", "close"}, fd : Int]]
    BY DEF FdInit
  <2>2. kernel \in [Numbers -> Nat] /\ fd_datas \in [Numbers -> Nat]
    BY DEF FdInit
  <2> QED
    BY <2>1, <2>2 DEF FdInit, FdTypeOK
<1>5. OneBusy
  BY DEF FdInit, OneBusy
<1>4. FilesNumbered
  BY DEF FdInit, FilesNumbered
<1>2. NoContextYet /\ PeakCovers /\ BeyondOnlyWhenFull
  BY DEF FdInit, NoContextYet, PeakCovers, BeyondOnlyWhenFull
<1>3. ContextOfThisFile
  BY DEF FdInit, ContextOfThisFile
<1> QED
  BY <1>1, <1>2, <1>3, <1>4, <1>5 DEF FdIInv

\* A set of naturals that has a member has a least one.
LEMMA LeastNatural ==
    ASSUME NEW Elems \in SUBSET Nat, Elems # {}
    PROVE  \E f \in Elems : \A g \in Elems : f <= g
<1>1. PICK f \in Elems : \A g \in Elems : ~(<<g, f>> \in OpToRel(<, Nat))
  BY NatLessThanWellFounded, WFMin, Zenon
<1> DEFINE R == OpToRel(<, Nat)
<1>2. ASSUME NEW x \in Nat, NEW y \in Nat, x < y
      PROVE  <<x, y>> \in R
  BY <1>2, Zenon DEF OpToRel
<1>3. \A g \in Elems : ~(<<g, f>> \in R)
  BY <1>1, Zenon
<1> HIDE DEF R
<1>4. \A g \in Elems : ~(g < f)
  BY <1>2, <1>3
<1> QED
  BY <1>4

\* When the kernel gives out the number n, at least n + 1 are open after it.
LEMMA OpenCount ==
    ASSUME FdTypeOK, Free # {}
    PROVE  /\ Lowest \in Numbers /\ kernel[Lowest] = 0
           /\ FdLimit - Cardinality(Free) + 1 \in Nat
           /\ FdLimit - Cardinality(Free) + 1 > Lowest
<1>1. Free \in SUBSET Nat /\ Free \subseteq Numbers
  BY FdManagerSizes DEF Free, Numbers
<1>2. \E f \in Free : \A g \in Free : f <= g
  BY <1>1, LeastNatural
<1>3. Lowest \in Free /\ \A g \in Free : Lowest <= g
  BY <1>2 DEF Lowest
<1>4. Free \in SUBSET (Lowest..(FdLimit - 1)) /\ Lowest \in 0..(FdLimit - 1)
  BY <1>1, <1>3, FdManagerSizes DEF Numbers
<1>5. IsFiniteSet(Lowest..(FdLimit - 1)) /\ Cardinality(Lowest..(FdLimit - 1)) = FdLimit - Lowest
  <2>1. Lowest \in Int /\ FdLimit - 1 \in Int /\ ~(Lowest > FdLimit - 1) /\ FdLimit \in Nat
    BY <1>4, FdManagerSizes
  <2>2. /\ IsFiniteSet(Lowest..(FdLimit - 1))
        /\ Cardinality(Lowest..(FdLimit - 1)) =
               IF Lowest > FdLimit - 1 THEN 0 ELSE (FdLimit - 1) - Lowest + 1
    BY <2>1, FS_Interval
  <2> QED
    BY <2>1, <2>2
<1>6. Cardinality(Free) <= FdLimit - Lowest /\ Cardinality(Free) \in Nat
  BY <1>4, <1>5, FS_Subset, FS_CardinalityType
<1> QED
  BY <1>3, <1>4, <1>6, FdManagerSizes DEF Free, Numbers

LEMMA OpenFileKeeps ==
    ASSUME FdIInv, NEW t \in Openers, NEW call \in {"socket", "accept"}, OpenFile(t, call)
    PROVE  FdIInv'
<1> USE DEF FdIInv
<1>1. /\ Lowest \in Numbers /\ kernel[Lowest] = 0
      /\ FdLimit - Cardinality(Free) + 1 \in Nat
      /\ FdLimit - Cardinality(Free) + 1 > Lowest
  BY OpenCount DEF OpenFile
<1> DEFINE n == Lowest
           open == FdLimit - Cardinality(Free) + 1
<1>2. /\ opener[t].at = "out" /\ files' = files + 1
      /\ kernel' = [kernel EXCEPT ![n] = files + 1]
      /\ \/ opener' = [opener EXCEPT ![t] = [at |-> "out", fd |-> n]]
         \/ opener' = [opener EXCEPT ![t] = [at |-> "get", fd |-> n]]
      /\ peak' = IF open > peak THEN open ELSE peak
      /\ UNCHANGED <<fd_datas, owned, dirty, beyond>>
  BY DEF OpenFile, GoTo
<1>3. n \in Numbers /\ n \in Int /\ kernel[n] = 0 /\ open \in Nat /\ open > n
  BY <1>1, FdManagerSizes DEF Numbers
<1> HIDE DEF n, open
<1>4. FdTypeOK'
  BY <1>2, <1>3 DEF FdTypeOK
<1>5. FilesNumbered'
  BY <1>2, <1>3 DEF FdTypeOK, FilesNumbered
<1>6. OneBusy'
  BY <1>2, <1>3 DEF FdTypeOK, FilesNumbered, OneBusy
<1>7. ~Busy(n)
  BY <1>3 DEF Busy, OneBusy
<1>8. Inside(n) /\ n \notin dirty => fd_datas[n] = 0
  BY <1>3, <1>7 DEF ContextOfThisFile, Inside
<1>9. NoContextYet'
  BY <1>2, <1>3, <1>8 DEF FdTypeOK, NoContextYet, Inside
<1>14. peak' \in Nat /\ peak' >= peak /\ peak' > n
  BY <1>2, <1>3 DEF FdTypeOK
<1>15. BeyondOnlyWhenFull'
  BY <1>2, <1>14, FdManagerSizes DEF FdTypeOK, BeyondOnlyWhenFull
<1>10. PeakCovers'
  <2> SUFFICES ASSUME NEW u \in Openers, opener'[u].at = "get"
               PROVE  peak' > opener'[u].fd
    BY DEF PeakCovers
  <2>1. CASE u = t
    BY <2>1, <1>2, <1>14 DEF FdTypeOK
  <2>2. CASE u # t
    <3>1. opener'[u] = opener[u] /\ opener[u].fd \in Int
      BY <2>2, <1>2 DEF FdTypeOK
    <3> QED
      BY <3>1, <1>14 DEF PeakCovers, FdTypeOK
  <2> QED
    BY <2>1, <2>2
<1>11. \A f \in Numbers : f # n => Busy(f)' = Busy(f)
  BY <1>2 DEF FdTypeOK, Busy
<1>12. files + 1 \notin owned
  BY DEF FdTypeOK, FilesNumbered
<1>13. ContextOfThisFile'
  <2> SUFFICES ASSUME NEW f \in Numbers, f < TableSize, f \notin dirty', ~Busy(f)'
               PROVE  /\ kernel'[f] \in owned' => fd_datas'[f] = kernel'[f]
                      /\ fd_datas'[f] \in {0, kernel'[f]}
    BY DEF ContextOfThisFile
  <2>1. CASE f = n
    BY <2>1, <1>2, <1>3, <1>8, <1>12 DEF FdTypeOK, Inside
  <2>2. CASE f # n
    BY <2>2, <1>2, <1>3, <1>11 DEF FdTypeOK, ContextOfThisFile
  <2> QED
    BY <2>1, <2>2
<1> QED
  BY <1>4, <1>5, <1>6, <1>9, <1>10, <1>13, <1>15

LEMMA GetCreateKeeps ==
    ASSUME FdIInv, NEW t \in Openers, GetCreate(t)
    PROVE  FdIInv'
<1> USE DEF FdIInv
<1> DEFINE n == opener[t].fd
<1>1. /\ opener[t].at = "get"
      /\ fd_datas' = IF Inside(n) /\ fd_datas[n] = 0
                     THEN [fd_datas EXCEPT ![n] = kernel[n]] ELSE fd_datas
      /\ beyond' = (beyond \/ ~Inside(n))
      /\ owned' = owned \cup {kernel[n]}
      /\ opener' = [opener EXCEPT ![t] = [at |-> "out", fd |-> 0]]
      /\ UNCHANGED <<kernel, files, dirty, peak>>
  BY DEF GetCreate, GoTo
<1>2. n \in Numbers /\ n \in Int /\ kernel[n] # 0 /\ kernel[n] \in 1..files
  BY <1>1, FdManagerSizes DEF OneBusy, Numbers, FdTypeOK, FilesNumbered
<1>3. Inside(n) /\ n \notin dirty => fd_datas[n] = 0
  BY <1>1 DEF NoContextYet
<1>4. peak > n
  BY <1>1 DEF PeakCovers
<1>5. \A u \in Openers : u # t => opener'[u] = opener[u] /\ (opener[u].at # "out" => opener[u].fd # n)
  BY <1>1 DEF FdTypeOK, OneBusy
<1>6. opener'[t].at = "out"
  BY <1>1 DEF FdTypeOK
<1> HIDE DEF n
<1>13. FdTypeOK'
  <2>1. fd_datas' \in [Numbers -> Nat] /\ beyond' \in BOOLEAN
    BY <1>1, <1>2 DEF FdTypeOK, Inside
  <2> QED
    BY <2>1, <1>1 DEF FdTypeOK
<1>7. FilesNumbered'
  BY <1>1, <1>2 DEF FdTypeOK, FilesNumbered
<1>8. OneBusy' /\ PeakCovers'
  BY <1>1, <1>5, <1>6 DEF OneBusy, PeakCovers
<1>9. NoContextYet'
  BY <1>1, <1>5, <1>6, <1>2 DEF NoContextYet, FdTypeOK, Inside, OneBusy
<1>10. BeyondOnlyWhenFull'
  BY <1>1, <1>4, <1>2, FdManagerSizes DEF BeyondOnlyWhenFull, Inside, FdTypeOK
<1>11. \A f \in Numbers : f # n => Busy(f)' = Busy(f)
  <2>1. \A f \in Numbers : f # n => (opener[t].at # "out" /\ opener[t].fd = f) = FALSE
    BY DEF n
  <2> QED
    BY <2>1, <1>5, <1>6 DEF Busy
<1>12. ContextOfThisFile'
  <2> SUFFICES ASSUME NEW f \in Numbers, f < TableSize, f \notin dirty', ~Busy(f)'
               PROVE  /\ kernel'[f] \in owned' => fd_datas'[f] = kernel'[f]
                      /\ fd_datas'[f] \in {0, kernel'[f]}
    BY DEF ContextOfThisFile
  <2>1. CASE f = n
    BY <2>1, <1>1, <1>2, <1>3 DEF FdTypeOK, Inside
  <2>2. CASE f # n
    <3>1. kernel[f] # kernel[n]
      BY <2>2, <1>2 DEF FilesNumbered
    <3>2. fd_datas'[f] = fd_datas[f]
      BY <2>2, <1>1 DEF FdTypeOK
    <3> QED
      BY <2>2, <3>1, <3>2, <1>1, <1>11 DEF ContextOfThisFile
  <2> QED
    BY <2>1, <2>2
<1> QED
  BY <1>7, <1>8, <1>9, <1>10, <1>12, <1>13

LEMMA CloseKeeps ==
    ASSUME FdIInv, NEW t \in Openers, NEW n \in Numbers,
           BeginClose(t, n) \/ CloseUnhooked(t, n)
    PROVE  FdIInv'
<1> USE DEF FdIInv
<1>1. ~Busy(n) /\ kernel[n] # 0
  BY DEF BeginClose, CloseUnhooked
<1>2. n \in Int
  BY FdManagerSizes DEF Numbers
<1>3. CASE BeginClose(t, n)
  <2>1. /\ fd_datas' = [fd_datas EXCEPT ![n] = 0] /\ dirty' = dirty \ {n}
        /\ opener[t].at = "out" /\ opener' = [opener EXCEPT ![t] = [at |-> "close", fd |-> n]]
        /\ UNCHANGED <<kernel, files, owned, peak, beyond>>
    BY <1>3 DEF BeginClose, CloseStep, CloseStage, GoTo
  <2>2. FdTypeOK' /\ FilesNumbered' /\ PeakCovers' /\ BeyondOnlyWhenFull'
    BY <2>1, <1>2 DEF FdTypeOK, FilesNumbered, PeakCovers, BeyondOnlyWhenFull
  <2>3. OneBusy'
    BY <2>1, <1>1 DEF FdTypeOK, OneBusy, Busy
  <2>4. NoContextYet'
    BY <2>1, <1>1 DEF FdTypeOK, NoContextYet, Inside, OneBusy, Busy
  <2>5. Busy(n)'
    BY <2>1 DEF FdTypeOK, Busy
  <2>6. \A f \in Numbers : f # n => Busy(f)' = Busy(f)
    BY <2>1 DEF FdTypeOK, Busy
  <2>7. ContextOfThisFile'
    BY <2>1, <2>5, <2>6 DEF FdTypeOK, ContextOfThisFile
  <2> QED
    BY <2>2, <2>3, <2>4, <2>7
<1>4. CASE CloseUnhooked(t, n)
  <2>1. /\ kernel' = [kernel EXCEPT ![n] = 0]
        /\ dirty' = IF fd_datas[n] = 0 THEN dirty ELSE dirty \cup {n}
        /\ UNCHANGED <<fd_datas, opener, files, owned, peak, beyond>>
    BY <1>4 DEF CloseUnhooked
  <2>2. FdTypeOK' /\ FilesNumbered' /\ PeakCovers' /\ BeyondOnlyWhenFull'
    BY <2>1, <1>2 DEF FdTypeOK, FilesNumbered, PeakCovers, BeyondOnlyWhenFull
  <2>3. OneBusy'
    BY <2>1, <1>1 DEF FdTypeOK, OneBusy, Busy
  <2>4. NoContextYet'
    BY <2>1, <1>1 DEF FdTypeOK, NoContextYet, Inside, OneBusy, Busy
  <2>5. \A f \in Numbers : Busy(f)' = Busy(f)
    BY <2>1 DEF Busy
  <2>6. 0 \notin owned
    BY DEF FilesNumbered, FdTypeOK
  <2>7. ContextOfThisFile'
    BY <2>1, <2>5, <2>6 DEF FdTypeOK, ContextOfThisFile
  <2> QED
    BY <2>2, <2>3, <2>4, <2>7
<1> QED
  BY <1>3, <1>4

LEMMA EndCloseKeeps ==
    ASSUME FdIInv, NEW t \in Openers, EndClose(t)
    PROVE  FdIInv'
<1> USE DEF FdIInv
<1> DEFINE n == opener[t].fd
<1>1. /\ opener[t].at = "close"
      /\ kernel' = [kernel EXCEPT ![n] = 0]
      /\ opener' = [opener EXCEPT ![t] = [at |-> "out", fd |-> 0]]
      /\ UNCHANGED <<fd_datas, dirty, files, owned, peak, beyond>>
  BY DEF EndClose, GoTo, CloseStep, CloseStage
<1>2. n \in Numbers /\ fd_datas[n] = 0
  BY <1>1 DEF OneBusy, NoContextYet
<1>3. \A u \in Openers : u # t => opener'[u] = opener[u] /\ (opener[u].at # "out" => opener[u].fd # n)
  BY <1>1 DEF FdTypeOK, OneBusy
<1>4. opener'[t].at = "out"
  BY <1>1 DEF FdTypeOK
<1> HIDE DEF n
<1>5. FdTypeOK' /\ FilesNumbered'
  BY <1>1, <1>2 DEF FdTypeOK, FilesNumbered
<1>6. OneBusy'
  BY <1>1, <1>2, <1>3, <1>4 DEF OneBusy, FdTypeOK
<1>7. NoContextYet' /\ PeakCovers' /\ BeyondOnlyWhenFull'
  BY <1>1, <1>3, <1>4 DEF NoContextYet, PeakCovers, BeyondOnlyWhenFull, Inside
<1>8. \A f \in Numbers : f # n => Busy(f)' = Busy(f)
  <2>1. \A f \in Numbers : f # n => (opener[t].at # "out" /\ opener[t].fd = f) = FALSE
    BY DEF n
  <2> QED
    BY <2>1, <1>3, <1>4 DEF Busy
<1>9. 0 \notin owned
  BY DEF FilesNumbered, FdTypeOK
<1>10. ContextOfThisFile'
  BY <1>1, <1>2, <1>8, <1>9 DEF FdTypeOK, ContextOfThisFile
<1> QED
  BY <1>5, <1>6, <1>7, <1>10

LEMMA FdStep == FdIInv /\ [FdNext]_fdVars => FdIInv'
<1> SUFFICES ASSUME FdIInv, [FdNext]_fdVars
             PROVE  FdIInv'
  OBVIOUS
<1>1. CASE FdNext
  BY <1>1, OpenFileKeeps, GetCreateKeeps, CloseKeeps, EndCloseKeeps DEF FdNext
<1>2. CASE UNCHANGED fdVars
  BY <1>2 DEF fdVars, FdIInv, FdTypeOK, FilesNumbered, OneBusy, NoContextYet, PeakCovers,
              ContextOfThisFile, BeyondOnlyWhenFull, Busy, Inside
<1> QED
  BY <1>1, <1>2

\* The hooks find the context of the file that is open under a number, and the
\* table is overrun only when more descriptors are open at the same time than
\* it has entries: for any threads, any limit of descriptors and any table size.
THEOREM FdHolds == Spec => []FdInv
<1>1. FdIInv => FdInv
  BY DEF FdIInv, FdInv
<1> QED
  BY <1>1, PartsInit, PartsNext, FdInitial, FdStep, PTL DEF Spec

-----------------------------------------------------------------------------
(* The table of event contexts.                                            *)

\* The slots up to the size are filled, and the others are not.
SlotsFilled == size >= 2 /\ \A fd \in Fds : slot[fd] # 0 <=> fd < size

\* A thread in addEvent has its fd; the table is grown only for one that its
\* first size did not cover.
ArgKnown ==
    \A t \in Threads : /\ pc[t] # "ready" => fdArg[t] \in Fds
                       /\ pc[t] = "grow" => fdArg[t] >= 2

\* The object that addEvent holds while no lock protects the table.
HeldIsSlot == ~stale => \A t \in Threads : pc[t] = "lock" => held[t] = slot[fdArg[t]]

TableIInv == TableInv /\ stale \in BOOLEAN /\ SlotsFilled /\ ArgKnown /\ HeldIsSlot

LEMMA TableInitial == TableInit => TableIInv
<1> SUFFICES ASSUME TableInit
             PROVE  TableIInv
  OBVIOUS
<1>1. TableTypeOK
  BY TableAssumption DEF TableInit, TableTypeOK
<1>2. AddEventFindsContext /\ RegisteredIsReachable /\ ArgKnown /\ HeldIsSlot
  BY DEF TableInit, AddEventFindsContext, RegisteredIsReachable, ArgKnown, HeldIsSlot
<1>3. SlotsFilled
  BY TableAssumption DEF TableInit, SlotsFilled
<1> QED
  BY <1>1, <1>2, <1>3 DEF TableIInv, TableInv, TableInit

\* The table that addEvent grows has room for its fd.
LEMMA GrowsBeyond ==
    ASSUME NEW fd \in Nat, fd >= 2
    PROVE  GrowTo(fd) \in Nat /\ GrowTo(fd) > fd
BY DEF GrowTo

LEMMA GrowKeeps ==
    ASSUME TableIInv, NEW t \in Threads, Grow(t)
    PROVE  TableIInv'
<1> USE DEF TableIInv, TableInv
<1> DEFINE fd == fdArg[t]
           n == GrowTo(fd)
<1>1. pc[t] = "grow" /\ fd \in Fds /\ fd \in Nat /\ fd >= 2
  BY TableAssumption DEF Grow, ArgKnown
<1>2. n \in Nat /\ n > fd
  BY <1>1, GrowsBeyond
<1>3. /\ stale' = (stale \/ InTable(fd)) /\ \A g \in Fds : made[g] < MaxObjects
      /\ ContextResize(n)
      /\ held' = [held EXCEPT ![t] = slot'[fd]] /\ pc' = [pc EXCEPT ![t] = "lock"]
      /\ regObj' = regObj /\ fdArg' = fdArg
  BY DEF Grow
<1> HIDE DEF fd, n
<1>4. \A g \in Fds : /\ g >= n => slot'[g] = 0 /\ made'[g] = made[g]
                     /\ g < n /\ slot[g] = 0 => slot'[g] = made[g] + 1 /\ made'[g] = made[g] + 1
                     /\ g < n /\ slot[g] # 0 => slot'[g] = slot[g] /\ made'[g] = made[g]
  BY <1>2, <1>3, TableAssumption DEF ContextResize, Missing
<1>5. size' = n /\ slot' = [g \in Fds |-> slot'[g]] /\ made' = [g \in Fds |-> made'[g]]
  BY <1>3 DEF ContextResize
<1>6. \A g \in Fds : slot'[g] \in 0..MaxObjects /\ made'[g] \in 0..MaxObjects
  BY <1>2, <1>3, <1>4, TableAssumption DEF TableTypeOK
<1>7. TableTypeOK'
  BY <1>1, <1>2, <1>3, <1>5, <1>6 DEF TableTypeOK
<1>8. SlotsFilled'
  BY <1>1, <1>2, <1>4, <1>5, TableAssumption DEF SlotsFilled, TableTypeOK
<1>9. slot'[fd] # 0
  BY <1>1, <1>2, <1>5, <1>8 DEF SlotsFilled
<1>10. AddEventFindsContext'
  BY <1>1, <1>3, <1>9 DEF AddEventFindsContext, TableTypeOK
<1>11. ArgKnown'
  BY <1>1, <1>3 DEF ArgKnown, TableTypeOK, fd
<1>12. ASSUME ~stale'
       PROVE  ~stale /\ \A g \in Fds : slot[g] # 0 => slot'[g] = slot[g]
  <2>1. ~stale /\ ~(size > fd)
    BY <1>12, <1>3 DEF InTable
  <2>2. size < n /\ size \in Nat
    BY <2>1, <1>1, <1>2 DEF TableTypeOK
  <2>3. ASSUME NEW g \in Fds, slot[g] # 0
        PROVE  slot'[g] = slot[g]
    <3>1. g \in Nat /\ g < size
      BY <2>3, TableAssumption DEF SlotsFilled
    <3>2. g < n
      BY <3>1, <2>2, <1>2
    <3> QED
      BY <3>2, <2>3, <1>4
  <2> QED
    BY <2>1, <2>3
<1>13. RegisteredIsReachable'
  BY <1>3, <1>12 DEF RegisteredIsReachable, TableTypeOK
<1>14. HeldIsSlot'
  <2> SUFFICES ASSUME ~stale', NEW u \in Threads, pc'[u] = "lock"
               PROVE  held'[u] = slot'[fdArg'[u]]
    BY DEF HeldIsSlot
  <2>1. CASE u = t
    BY <2>1, <1>3 DEF TableTypeOK, fd
  <2>2. CASE u # t
    <3>1. pc[u] = "lock" /\ held'[u] = held[u] /\ held[u] # 0 /\ fdArg[u] \in Fds
      BY <2>2, <1>3 DEF TableTypeOK, AddEventFindsContext, ArgKnown
    <3> QED
      BY <3>1, <1>3, <1>12 DEF HeldIsSlot
  <2> QED
    BY <2>1, <2>2
<1>15. stale' \in BOOLEAN
  BY <1>3 DEF InTable
<1> QED
  BY <1>7, <1>8, <1>10, <1>11, <1>13, <1>14, <1>15

LEMMA TableStep == TableIInv /\ [TableNext]_tableVars => TableIInv'
<1> SUFFICES ASSUME TableIInv, [TableNext]_tableVars
             PROVE  TableIInv'
  OBVIOUS
<1> USE DEF TableIInv, TableInv
<1>1. ASSUME NEW t \in Threads, AddEvent(t)
      PROVE  TableIInv'
  <2>1. PICK fd \in Fds :
          /\ pc[t] = "ready"
          /\ fdArg' = [fdArg EXCEPT ![t] = fd]
          /\ pc' = [pc EXCEPT ![t] = IF InTable(fd) THEN "lock" ELSE "grow"]
          /\ held' = [held EXCEPT ![t] = IF InTable(fd) THEN slot[fd] ELSE 0]
          /\ UNCHANGED <<size, slot, made, regObj, stale>>
    BY <1>1 DEF AddEvent
  <2>2. InTable(fd) => slot[fd] # 0
    BY <2>1, TableAssumption DEF InTable, SlotsFilled, TableTypeOK
  <2>3. ~InTable(fd) => fd >= 2
    BY <2>1, TableAssumption DEF InTable, SlotsFilled, TableTypeOK
  <2>4. TableTypeOK' /\ SlotsFilled' /\ RegisteredIsReachable'
    BY <2>1, TableAssumption DEF TableTypeOK, SlotsFilled, RegisteredIsReachable
  <2>5. AddEventFindsContext' /\ HeldIsSlot'
    BY <2>1, <2>2 DEF TableTypeOK, AddEventFindsContext, HeldIsSlot
  <2>6. ArgKnown'
    BY <2>1, <2>3 DEF TableTypeOK, ArgKnown
  <2> QED
    BY <2>1, <2>4, <2>5, <2>6
<1>2. ASSUME NEW t \in Threads, Register(t)
      PROVE  TableIInv'
  <2>1. /\ pc[t] = "lock" /\ fdArg[t] \in Fds /\ held[t] \in 0..MaxObjects
        /\ regObj' = [regObj EXCEPT ![fdArg[t]] = held[t]]
        /\ pc' = [pc EXCEPT ![t] = "ready"] /\ fdArg' = [fdArg EXCEPT ![t] = -1]
        /\ held' = [held EXCEPT ![t] = 0]
        /\ UNCHANGED <<size, slot, made, stale>>
    BY <1>2 DEF Register, EpollData, ArgKnown, TableTypeOK
  <2>2. TableTypeOK' /\ SlotsFilled'
    BY <2>1, TableAssumption DEF TableTypeOK, SlotsFilled
  <2>3. AddEventFindsContext' /\ HeldIsSlot' /\ ArgKnown'
    BY <2>1 DEF TableTypeOK, AddEventFindsContext, HeldIsSlot, ArgKnown
  <2>4. RegisteredIsReachable'
    BY <2>1 DEF TableTypeOK, RegisteredIsReachable, HeldIsSlot
  <2> QED
    BY <2>1, <2>2, <2>3, <2>4
<1>3. ASSUME NEW t \in Threads, EndWait(t)
      PROVE  TableIInv'
  BY <1>3, TableAssumption
     DEF EndWait, TableTypeOK, SlotsFilled, AddEventFindsContext, HeldIsSlot, ArgKnown,
         RegisteredIsReachable
<1>4. CASE UNCHANGED tableVars
  BY <1>4 DEF tableVars, TableTypeOK, SlotsFilled, AddEventFindsContext, HeldIsSlot, ArgKnown,
              RegisteredIsReachable
<1> QED
  BY <1>1, <1>2, <1>3, <1>4, GrowKeeps DEF TableNext

\* addEvent has an object for its fd, and epoll and the table mean the same
\* one as long as the table did not grow for an fd it already covered: for any
\* threads, any fds and any first size of two or more.
THEOREM TableHolds == Spec => []TableInv
<1>1. TableIInv => TableInv
  BY DEF TableIInv
<1> QED
  BY <1>1, PartsInit, PartsNext, TableInitial, TableStep, PTL DEF Spec

-----------------------------------------------------------------------------
(* ServletDispatch.                                                        *)

ServletTypeOK ==
    /\ m_datas \in [Paths -> Nat]
    /\ m_globs \in Seq([uri : Globs, slt : Nat])
    /\ log \in Seq([what : {"add", "del"}, uri : Paths \cup Globs])
    /\ changes = Len(log)

\* The exact paths have the servlet that the history says.
PathsLive == \A p \in Paths : m_datas[p] = Live(p)

\* The list has the live patterns and no others, in the order in which they
\* were added last.
GlobsLive ==
    /\ \A i \in 1..Len(m_globs) : m_globs[i].slt # 0 /\ m_globs[i].slt = Live(m_globs[i].uri)
    /\ \A g \in Globs : Live(g) # 0 => \E i \in 1..Len(m_globs) : m_globs[i].uri = g
    /\ \A i, j \in 1..Len(m_globs) : i < j => m_globs[i].slt < m_globs[j].slt

ServletIInv == ServletTypeOK /\ PathsLive /\ GlobsLive

\* The entries of a name that no later entry of the history has.
LastOf(route) ==
    {i \in DOMAIN log : log[i].uri = route /\ \A j \in DOMAIN log : log[j].uri = route => j <= i}

LiveFacts ==
    \A route \in Paths \cup Globs :
        /\ \A i \in LastOf(route) : Live(route) = IF log[i].what = "add" THEN i ELSE 0
        /\ LastOf(route) = {} => Live(route) = 0
        /\ Live(route) \in 0..Len(log)

LEMMA LiveIs == ServletTypeOK => LiveFacts
<1> SUFFICES ASSUME ServletTypeOK, NEW route \in Paths \cup Globs
             PROVE  /\ \A i \in LastOf(route) : Live(route) = IF log[i].what = "add" THEN i ELSE 0
                    /\ LastOf(route) = {} => Live(route) = 0
                    /\ Live(route) \in 0..Len(log)
  BY DEF LiveFacts
<1>1. DOMAIN log = 1..Len(log) /\ Len(log) \in Nat
  BY DEF ServletTypeOK
<1>2. ASSUME NEW i \in LastOf(route)
      PROVE  LastOf(route) = {i}
  BY <1>1 DEF LastOf
<1>3. Live(route) = IF \E i \in LastOf(route) : log[i].what = "add"
                  THEN CHOOSE i \in LastOf(route) : TRUE ELSE 0
  BY DEF Live, LastOf
<1>4. ASSUME NEW i \in LastOf(route)
      PROVE  Live(route) = IF log[i].what = "add" THEN i ELSE 0
  BY <1>2, <1>3
<1>5. LastOf(route) = {} => Live(route) = 0
  BY <1>3
<1>6. LastOf(route) \subseteq 1..Len(log)
  BY <1>1 DEF LastOf
<1> QED
  BY <1>1, <1>2, <1>4, <1>5, <1>6

\* What an entry of the history changes: the name it is about, and no other.
LEMMA LiveAfter ==
    ASSUME ServletTypeOK, ServletTypeOK', NEW what, NEW x, NEW route \in Paths \cup Globs,
           log' = Append(log, [what |-> what, uri |-> x])
    PROVE  /\ route = x => Live(route)' = IF what = "add" THEN Len(log) + 1 ELSE 0
           /\ route # x => Live(route)' = Live(route)
<1> DEFINE e == [what |-> what, uri |-> x]
           n == Len(log)
<1>1. /\ n \in Nat /\ DOMAIN log = 1..n /\ DOMAIN log' = 1..(n + 1)
      /\ \A i \in 1..n : log'[i] = log[i]
      /\ log'[n + 1] = e
  BY DEF ServletTypeOK
<1> HIDE DEF n
<1>4. LiveFacts /\ LiveFacts'
  BY LiveIs, PTL
<1>2. CASE route = x
  <2>1. n + 1 \in LastOf(route)'
    BY <1>1, <1>2 DEF LastOf
  <2>2. Live(route)' = IF log'[n + 1].what = "add" THEN n + 1 ELSE 0
    BY <2>1, <1>4 DEF LiveFacts
  <2> QED
    BY <2>2, <1>1, <1>2 DEF n
<1>3. CASE route # x
  <2>1. LastOf(route)' = LastOf(route)
    BY <1>1, <1>3 DEF LastOf
  <2>2. ASSUME LastOf(route) = {}
        PROVE  Live(route)' = Live(route)
    <3>1. Live(route) = 0
      BY <2>2, <1>4 DEF LiveFacts
    <3>2. Live(route)' = 0
      BY <2>2, <2>1, <1>4 DEF LiveFacts
    <3> QED
      BY <3>1, <3>2
  <2>3. ASSUME NEW i \in LastOf(route)
        PROVE  Live(route)' = Live(route)
    <3>1. log'[i] = log[i]
      BY <1>1 DEF LastOf
    <3>2. Live(route) = IF log[i].what = "add" THEN i ELSE 0
      BY <1>4 DEF LiveFacts
    <3>3. Live(route)' = IF log'[i].what = "add" THEN i ELSE 0
      BY <2>1, <1>4 DEF LiveFacts
    <3> QED
      BY <3>1, <3>2, <3>3
  <2> QED
    BY <1>3, <2>2, <2>3
<1> QED
  BY <1>2, <1>3

\* A sequence without its k-th element.
LEMMA RemoveAtIs ==
    ASSUME NEW Elems, NEW s \in Seq(Elems), NEW k \in 1..Len(s)
    PROVE  /\ RemoveAt(s, k) \in Seq(Elems) /\ Len(RemoveAt(s, k)) = Len(s) - 1
           /\ \A i \in 1..(Len(s) - 1) :
                  RemoveAt(s, k)[i] = IF i < k THEN s[i] ELSE s[i + 1]
<1> DEFINE n == Len(s)
           a == SubSeq(s, 1, k - 1)
           b == SubSeq(s, k + 1, n)
<1>1. n \in Nat
  OBVIOUS
<1>2. /\ a \in Seq(Elems) /\ Len(a) = k - 1
      /\ \A i \in 1..(k - 1) : a[i] = s[i]
  BY <1>1
<1>3. /\ b \in Seq(Elems) /\ Len(b) = n - k
      /\ \A i \in 1..(n - k) : b[i] = s[k + i]
  <2>1. b \in Seq(Elems) /\ Len(b) = IF k + 1 <= n THEN n - (k + 1) + 1 ELSE 0
    BY <1>1
  <2>2. ASSUME NEW i \in 1..(n - k)
        PROVE  b[i] = s[k + i]
    <3>1. i \in 1..(n - (k + 1) + 1)
      BY <1>1
    <3>2. b[i] = s[(k + 1) + i - 1]
      BY <1>1, <3>1
    <3>3. (k + 1) + i - 1 = k + i
      BY <1>1
    <3> QED
      BY <3>2, <3>3
  <2> QED
    BY <2>1, <2>2, <1>1
<1>4. RemoveAt(s, k) = a \o b
  BY DEF RemoveAt
<1> HIDE DEF a, b
<1>5. a \o b \in Seq(Elems) /\ Len(a \o b) = n - 1
  <2>1. a \o b \in Seq(Elems) /\ Len(a \o b) = Len(a) + Len(b)
    BY <1>2, <1>3, ConcatProperties
  <2> QED
    BY <2>1, <1>1, <1>2, <1>3
<1>6. ASSUME NEW i \in 1..(n - 1)
      PROVE  (a \o b)[i] = IF i < k THEN s[i] ELSE s[i + 1]
  <2>1. CASE i < k
    BY <2>1, <1>1, <1>2, <1>3
  <2>2. CASE ~(i < k)
    <3>1. (a \o b)[i] = b[i - (k - 1)]
      BY <2>2, <1>1, <1>2, <1>3
    <3>2. i - (k - 1) \in 1..(n - k) /\ k + (i - (k - 1)) = i + 1
      BY <2>2, <1>1
    <3> QED
      BY <2>2, <3>1, <3>2, <1>3
  <2> QED
    BY <2>1, <2>2
<1> QED
  BY <1>4, <1>5, <1>6

\* The list without the entry of a pattern: the other entries, in their order.
LEMMA GlobErased ==
    ASSUME ServletIInv, NEW g \in Globs
    PROVE  LET s == WithoutGlob(g)
           IN  /\ s \in Seq([uri : Globs, slt : Nat])
               /\ \A i \in 1..Len(s) : s[i].uri # g /\ \E j \in 1..Len(m_globs) : s[i] = m_globs[j]
               /\ \A j \in 1..Len(m_globs) :
                      m_globs[j].uri # g => \E i \in 1..Len(s) : s[i] = m_globs[j]
               /\ \A i, j \in 1..Len(s) : i < j => s[i].slt < s[j].slt
<1> DEFINE s == WithoutGlob(g)
           at == {i \in DOMAIN m_globs : m_globs[i].uri = g}
           n == Len(m_globs)
<1>1. m_globs \in Seq([uri : Globs, slt : Nat]) /\ n \in Nat /\ DOMAIN m_globs = 1..n
  BY DEF ServletIInv, ServletTypeOK
<1>2. \A i, j \in at : i = j
  <2> SUFFICES ASSUME NEW i \in at, NEW j \in at, i < j
               PROVE  FALSE
    BY <1>1
  <2>1. i \in 1..n /\ j \in 1..n /\ m_globs[i].uri = m_globs[j].uri
    BY <1>1
  <2>2. m_globs[i].slt < m_globs[j].slt /\ m_globs[i].slt = m_globs[j].slt
    BY <2>1 DEF ServletIInv, GlobsLive
  <2>3. m_globs[i] \in [uri : Globs, slt : Nat]
    BY <2>1, <1>1, ElementOfSeq
  <2> QED
    BY <2>2, <2>3
<1>3. CASE at = {}
  <2>1. s = m_globs
    BY <1>3 DEF WithoutGlob
  <2> QED
    BY <1>1, <1>3, <2>1 DEF ServletIInv, GlobsLive
<1>4. ASSUME NEW k \in at
      PROVE  /\ s \in Seq([uri : Globs, slt : Nat]) /\ Len(s) = n - 1
             /\ \A i \in 1..(n - 1) : s[i] = IF i < k THEN m_globs[i] ELSE m_globs[i + 1]
  <2>1. k = CHOOSE i \in at : \A j \in at : i <= j
    BY <1>1, <1>2
  <2>2. s = RemoveAt(m_globs, k)
    BY <2>1, <1>4 DEF WithoutGlob
  <2>3. k \in 1..Len(m_globs)
    BY <1>1
  <2> HIDE DEF at, s
  <2> QED
    BY <2>2, <2>3, <1>1, RemoveAtIs, Zenon
<1>5. ASSUME NEW k \in at
      PROVE  /\ \A i \in 1..Len(s) : s[i].uri # g /\ \E j \in 1..n : s[i] = m_globs[j]
             /\ \A j \in 1..n : m_globs[j].uri # g => \E i \in 1..Len(s) : s[i] = m_globs[j]
             /\ \A i, j \in 1..Len(s) : i < j => s[i].slt < s[j].slt
  <2>1. k \in 1..n /\ \A j \in 1..n : m_globs[j].uri = g => j = k
    BY <1>1, <1>2
  <2>2. /\ Len(s) = n - 1
        /\ \A i \in 1..(n - 1) : s[i] = IF i < k THEN m_globs[i] ELSE m_globs[i + 1]
    BY <1>4
  <2> HIDE DEF at, s
  <2>3. ASSUME NEW i \in 1..Len(s)
        PROVE  s[i].uri # g /\ \E j \in 1..n : s[i] = m_globs[j]
    <3>1. CASE i < k
      BY <3>1, <2>1, <2>2, <1>1
    <3>2. CASE ~(i < k)
      <4>1. i + 1 \in 1..n /\ i + 1 # k /\ s[i] = m_globs[i + 1]
        BY <3>2, <2>1, <2>2, <1>1
      <4> QED
        BY <4>1, <2>1
    <3> QED
      BY <3>1, <3>2
  <2>4. ASSUME NEW j \in 1..n, m_globs[j].uri # g
        PROVE  \E i \in 1..Len(s) : s[i] = m_globs[j]
    <3>1. CASE j < k
      <4>1. j \in 1..(n - 1) /\ s[j] = m_globs[j]
        BY <3>1, <2>1, <2>2, <1>1
      <4> QED
        BY <4>1, <2>2
    <3>2. CASE j > k
      <4>2. (j - 1) + 1 = j /\ j - 1 \in 1..(n - 1) /\ ~(j - 1 < k)
        BY <1>1, <2>1, <3>2
      <4>1. j - 1 \in 1..(n - 1) /\ s[j - 1] = m_globs[(j - 1) + 1]
        BY <4>2, <2>2
      <4> QED
        BY <4>1, <4>2, <2>2
    <3>3. j # k
      BY <2>4 DEF at
    <3> QED
      BY <3>1, <3>2, <3>3, <2>1, <1>1
  <2>5. ASSUME NEW i \in 1..Len(s), NEW j \in 1..Len(s), i < j
        PROVE  s[i].slt < s[j].slt
    <3>1. \A a, b \in 1..n : a < b => m_globs[a].slt < m_globs[b].slt
      BY DEF ServletIInv, GlobsLive
    <3> DEFINE a == IF i < k THEN i ELSE i + 1
               b == IF j < k THEN j ELSE j + 1
    <3>2. a \in 1..n /\ b \in 1..n /\ s[i] = m_globs[a] /\ s[j] = m_globs[b] /\ a < b
      <4>2. i \in 1..(n - 1) /\ j \in 1..(n - 1)
        BY <2>2
      <4>1. a \in 1..n /\ b \in 1..n /\ a < b
        <5>1. n \in Nat /\ k \in Nat /\ i \in Nat /\ j \in Nat /\ i < j
          BY <1>1, <2>1, <2>5, <4>2
        <5> QED
          BY ONLY <4>2, <5>1 DEF a, b
      <4>3. s[i] = m_globs[a]
        BY <4>2, <2>2
      <4>4. s[j] = m_globs[b]
        BY <4>2, <2>2
      <4> QED
        BY <4>1, <4>3, <4>4
    <3> HIDE DEF a, b
    <3> QED
      BY <3>1, <3>2
  <2> QED
    BY <2>3, <2>4, <2>5
<1> QED
  <2>1. CASE at # {}
    BY <2>1, <1>4, <1>5
  <2> QED
    BY <2>1, <1>3

LEMMA ServletInitial == ServletInit => ServletIInv
<1> SUFFICES ASSUME ServletInit
             PROVE  ServletIInv
  OBVIOUS
<1>1. ServletTypeOK
  BY DEF ServletInit, ServletTypeOK
<1>2. Len(log) = 0 /\ Len(m_globs) = 0
  BY DEF ServletInit
<1>3. \A u \in Paths \cup Globs : Live(u) = 0
  BY <1>1, <1>2, LiveIs DEF LiveFacts
<1> QED
  BY <1>1, <1>2, <1>3 DEF ServletInit, ServletIInv, PathsLive, GlobsLive

\* The bookkeeping that all four operations share.
LEMMA RecordType ==
    ASSUME ServletTypeOK, NEW what \in {"add", "del"}, NEW x \in Paths \cup Globs, Record(what, x),
           m_datas' \in [Paths -> Nat], m_globs' \in Seq([uri : Globs, slt : Nat])
    PROVE  /\ ServletTypeOK'
           /\ changes = Len(log) /\ Len(log) \in Nat
           /\ \A u \in Paths \cup Globs :
                  /\ u = x => Live(u)' = IF what = "add" THEN changes + 1 ELSE 0
                  /\ u # x => Live(u)' = Live(u)
           /\ \A u \in Paths \cup Globs : Live(u) \in Nat /\ Live(u) < changes + 1
<1>1. log' = Append(log, [what |-> what, uri |-> x]) /\ changes' = changes + 1
  BY DEF Record
<1>2. /\ log' \in Seq([what : {"add", "del"}, uri : Paths \cup Globs])
      /\ Len(log') = Len(log) + 1 /\ Len(log) \in Nat
  <2>1. [what |-> what, uri |-> x] \in [what : {"add", "del"}, uri : Paths \cup Globs]
    OBVIOUS
  <2> QED
    BY <1>1, <2>1, AppendProperties DEF ServletTypeOK
<1>3. ServletTypeOK'
  BY <1>1, <1>2 DEF ServletTypeOK
<1>4. changes = Len(log)
  BY DEF ServletTypeOK
<1>5. ASSUME NEW u \in Paths \cup Globs
      PROVE  /\ u = x => Live(u)' = IF what = "add" THEN changes + 1 ELSE 0
             /\ u # x => Live(u)' = Live(u)
  BY <1>1, <1>3, <1>4, LiveAfter
<1>6. \A u \in Paths \cup Globs : Live(u) \in Nat /\ Live(u) < changes + 1
  BY <1>2, <1>4, LiveIs DEF LiveFacts
<1> QED
  BY <1>2, <1>3, <1>4, <1>5, <1>6

LEMMA PathServletKeeps ==
    ASSUME ServletIInv, NEW p \in Paths, addServlet(p) \/ delServlet(p)
    PROVE  ServletIInv'
<1> USE DEF ServletIInv
<1>1. PICK what \in {"add", "del"} :
        /\ Record(what, p)
        /\ m_datas' = [m_datas EXCEPT ![p] = IF what = "add" THEN changes + 1 ELSE 0]
        /\ m_globs' = m_globs
  BY DEF addServlet, delServlet
<1>2. changes \in Nat
  BY DEF ServletTypeOK
<1>3. m_datas' \in [Paths -> Nat] /\ m_globs' \in Seq([uri : Globs, slt : Nat])
  BY <1>1, <1>2 DEF ServletTypeOK
<1>4. /\ ServletTypeOK'
      /\ \A u \in Paths \cup Globs :
                  /\ u = p => Live(u)' = IF what = "add" THEN changes + 1 ELSE 0
                  /\ u # p => Live(u)' = Live(u)
  BY <1>1, <1>3, RecordType
<1>5. PathsLive'
  BY <1>1, <1>4 DEF PathsLive, ServletTypeOK
<1>6. \A g \in Globs : g # p /\ Live(g)' = Live(g)
  BY <1>4, NamesApart
<1>7. \A i \in 1..Len(m_globs) : m_globs[i].uri \in Globs
  <2>1. \A i \in 1..Len(m_globs) : m_globs[i] \in [uri : Globs, slt : Nat]
    BY ElementOfSeq DEF ServletTypeOK
  <2> QED
    BY <2>1
<1>8. GlobsLive'
  BY <1>1, <1>6, <1>7 DEF GlobsLive
<1> QED
  BY <1>4, <1>5, <1>8

LEMMA GlobServletKeeps ==
    ASSUME ServletIInv, NEW g \in Globs, addGlobServlet(g) \/ delGlobServlet(g)
    PROVE  ServletIInv'
<1> USE DEF ServletIInv
<1> DEFINE s == WithoutGlob(g)
           E == [uri : Globs, slt : Nat]
           e == [uri |-> g, slt |-> changes + 1]
<1>1. PICK what \in {"add", "del"} :
        /\ Record(what, g)
        /\ m_globs' = IF what = "add" THEN Append(s, e) ELSE s
        /\ m_datas' = m_datas
  BY DEF addGlobServlet, delGlobServlet
<1>2. changes \in Nat /\ e \in E
  BY DEF ServletTypeOK
<1>3. /\ s \in Seq(E)
      /\ \A i \in 1..Len(s) : s[i].uri # g /\ \E j \in 1..Len(m_globs) : s[i] = m_globs[j]
      /\ \A j \in 1..Len(m_globs) :
             m_globs[j].uri # g => \E i \in 1..Len(s) : s[i] = m_globs[j]
      /\ \A i, j \in 1..Len(s) : i < j => s[i].slt < s[j].slt
  BY GlobErased
<1> HIDE DEF s
<1>4. m_datas' \in [Paths -> Nat] /\ m_globs' \in Seq(E)
  BY <1>1, <1>2, <1>3, AppendProperties DEF ServletTypeOK
<1>5. /\ ServletTypeOK'
      /\ \A u \in Paths \cup Globs :
                  /\ u = g => Live(u)' = IF what = "add" THEN changes + 1 ELSE 0
                  /\ u # g => Live(u)' = Live(u)
      /\ \A u \in Paths \cup Globs : Live(u) \in Nat /\ Live(u) < changes + 1
  BY <1>1, <1>4, RecordType
<1>6. PathsLive'
  BY <1>1, <1>5, NamesApart DEF PathsLive
<1>7. \A i \in 1..Len(s) : s[i] \in E
  BY <1>3, ElementOfSeq
<1>8. ASSUME NEW i \in 1..Len(s)
      PROVE  /\ s[i].slt # 0 /\ \E u \in Globs : s[i].uri = u /\ s[i].slt = Live(u)'
             /\ s[i].slt \in Nat /\ s[i].slt < changes + 1
  <2>1. PICK j \in 1..Len(m_globs) : s[i] = m_globs[j]
    BY <1>3
  <2>2. s[i].slt # 0 /\ s[i].slt = Live(s[i].uri) /\ s[i].uri # g /\ s[i].uri \in Globs
    BY <2>1, <1>3, <1>7 DEF GlobsLive
  <2> QED
    BY <2>2, <1>5
<1>9. ASSUME NEW h \in Globs, h # g, Live(h)' # 0
      PROVE  \E i \in 1..Len(s) : s[i].uri = h
  <2>1. Live(h) # 0
    BY <1>9, <1>5
  <2>2. PICK j \in 1..Len(m_globs) : m_globs[j].uri = h
    BY <2>1 DEF GlobsLive
  <2> QED
    BY <2>2, <1>9, <1>3
<1>10. GlobsLive'
  <2>1. CASE what = "del"
    <3>1. m_globs' = s
      BY <1>1, <2>1
    <3>2. Live(g)' = 0
      BY <1>5, <2>1
    <3> QED
      BY <3>1, <3>2, <1>3, <1>8, <1>9 DEF GlobsLive
  <2>2. CASE what = "add"
    <3>1. m_globs' = Append(s, e)
      BY <1>1, <2>2
    <3>2. Live(g)' = changes + 1
      BY <1>5, <2>2
    <3>3. /\ Len(m_globs') = Len(s) + 1 /\ Len(s) \in Nat
          /\ \A i \in 1..Len(s) : m_globs'[i] = s[i]
          /\ m_globs'[Len(s) + 1] = e
      BY <3>1, <1>2, <1>3, AppendProperties
    <3>4. ASSUME NEW i \in 1..Len(m_globs')
          PROVE  /\ m_globs'[i].slt # 0
                 /\ \E u \in Globs : m_globs'[i].uri = u /\ m_globs'[i].slt = Live(u)'
      <4>1. CASE i \in 1..Len(s)
        BY <4>1, <3>3, <1>8
      <4>2. CASE i = Len(s) + 1
        BY <4>2, <3>3, <3>2, <1>2
      <4> QED
        BY <4>1, <4>2, <3>3
    <3>5. ASSUME NEW h \in Globs, Live(h)' # 0
          PROVE  \E i \in 1..Len(m_globs') : m_globs'[i].uri = h
      <4>1. CASE h = g
        <5>1. Len(s) + 1 \in 1..Len(m_globs') /\ m_globs'[Len(s) + 1].uri = h
          BY <4>1, <3>3
        <5> QED
          BY <5>1
      <4>2. CASE h # g
        <5>1. PICK i \in 1..Len(s) : s[i].uri = h
          BY <4>2, <3>5, <1>9
        <5>2. i \in 1..Len(m_globs') /\ m_globs'[i].uri = h
          BY <5>1, <3>3
        <5> QED
          BY <5>2
      <4> QED
        BY <4>1, <4>2
    <3>6. ASSUME NEW i \in 1..Len(m_globs'), NEW j \in 1..Len(m_globs'), i < j
          PROVE  m_globs'[i].slt < m_globs'[j].slt
      <4>1. i \in 1..Len(s)
        BY <3>6, <3>3
      <4>2. CASE j \in 1..Len(s)
        BY <4>1, <4>2, <3>3, <3>6, <1>3
      <4>3. CASE j = Len(s) + 1
        BY <4>1, <4>3, <3>3, <1>8
      <4> QED
        BY <4>2, <4>3, <3>3
    <3> QED
      BY <3>4, <3>5, <3>6 DEF GlobsLive
  <2> QED
    BY <2>1, <2>2
<1> QED
  BY <1>5, <1>6, <1>10

LEMMA ServletStep == ServletIInv /\ [ServletNext]_servletVars => ServletIInv'
<1> SUFFICES ASSUME ServletIInv, [ServletNext]_servletVars
             PROVE  ServletIInv'
  OBVIOUS
<1>1. CASE UNCHANGED servletVars
  BY <1>1 DEF servletVars, ServletIInv, ServletTypeOK, PathsLive, GlobsLive, Live
<1> QED
  BY <1>1, PathServletKeeps, GlobServletKeeps DEF ServletNext

\* The list is searched from its head, where the oldest live pattern is.
LEMMA ListFollowsHistory == ServletIInv => DispatchFollowsHistory
<1> SUFFICES ASSUME ServletIInv, NEW p \in Paths
             PROVE  LET globs == {Live(g) : g \in {h \in Globs : p \in Matching[h]}} \ {0}
                    IN  getMatchedServlet(p) =
                          IF Live(p) # 0 THEN Live(p)
                          ELSE IF globs # {} THEN CHOOSE i \in globs : \A j \in globs : i <= j
                          ELSE NotFound
  BY DEF DispatchFollowsHistory
<1> USE DEF ServletIInv
<1> DEFINE globs == {Live(g) : g \in {h \in Globs : p \in Matching[h]}} \ {0}
           at == {i \in DOMAIN m_globs : p \in Matching[m_globs[i].uri]}
           n == Len(m_globs)
<1>1. n \in Nat /\ DOMAIN m_globs = 1..n /\ m_datas[p] = Live(p)
  BY DEF ServletTypeOK, PathsLive
<1>2. \A i \in 1..n : m_globs[i].uri \in Globs /\ m_globs[i].slt \in Nat
  <2>1. \A i \in 1..n : m_globs[i] \in [uri : Globs, slt : Nat]
    BY ElementOfSeq DEF ServletTypeOK
  <2> QED
    BY <2>1
<1>3. \A i \in at : m_globs[i].slt \in globs
  BY <1>1, <1>2 DEF GlobsLive
<1>4. ASSUME NEW v \in globs
      PROVE  \E i \in at : m_globs[i].slt = v
  <2>1. PICK g \in Globs : p \in Matching[g] /\ v = Live(g) /\ v # 0
    OBVIOUS
  <2>2. PICK i \in 1..n : m_globs[i].uri = g
    BY <2>1 DEF GlobsLive
  <2>3. i \in at /\ m_globs[i].slt = v
    BY <2>1, <2>2, <1>1 DEF GlobsLive
  <2> QED
    BY <2>3
<1>5. CASE at = {}
  <2>1. globs = {}
    BY <1>4, <1>5
  <2> QED
    BY <2>1, <1>1, <1>5 DEF getMatchedServlet
<1>6. CASE at # {}
  <2>1. at \in SUBSET Nat
    BY <1>1
  <2>2. \E i \in at : \A j \in at : i <= j
    BY <1>6, <2>1, LeastNatural
  <2> DEFINE k == CHOOSE i \in at : \A j \in at : i <= j
  <2>3. k \in at /\ \A j \in at : k <= j
    BY <2>2
  <2> HIDE DEF k
  <2>4. ASSUME NEW v \in globs
        PROVE  v \in Nat /\ m_globs[k].slt <= v
    <3>1. PICK j \in at : m_globs[j].slt = v
      BY <1>4
    <3>2. k \in 1..n /\ j \in 1..n /\ k <= j
      BY <2>3, <1>1
    <3>3. CASE k = j
      BY <3>1, <3>3, <3>2, <1>2
    <3>4. CASE k < j
      <4>1. m_globs[k].slt < m_globs[j].slt
        BY <3>2, <3>4 DEF GlobsLive
      <4> QED
        BY <4>1, <3>1, <3>2, <1>2
    <3> QED
      BY <3>2, <3>3, <3>4
  <2>5. m_globs[k].slt \in globs
    BY <2>3, <1>3
  <2>6. globs # {} /\ m_globs[k].slt = CHOOSE i \in globs : \A j \in globs : i <= j
    <3> HIDE DEF globs
    <3>1. \A v \in globs : (\A j \in globs : v <= j) => v = m_globs[k].slt
      BY <2>4, <2>5
    <3> QED
      BY <3>1, <2>4, <2>5
  <2>7. getMatchedServlet(p) = IF Live(p) # 0 THEN Live(p) ELSE m_globs[k].slt
    BY <1>1, <1>6 DEF getMatchedServlet, k
  <2> QED
    BY <2>6, <2>7
<1> QED
  BY <1>5, <1>6

\* Which servlet answers a path follows from the history of additions and
\* removals alone, for any paths, any patterns and any history.
THEOREM DispatchHolds == Spec => []DispatchFollowsHistory
<1> QED
  BY ListFollowsHistory, PartsInit, PartsNext, ServletInitial, ServletStep, PTL DEF Spec

-----------------------------------------------------------------------------
(* The loggers while a configuration is loaded.                            *)

\* Strings, and among them those the model names.
Texts == STRING \cup {Inherit, "default", "plain", "stdout", "undefined"}
Sinks == [sink : Texts, fmt : Texts]
\* Every appender has a formatter of its own: the logger's was given to it.
Appenders == [sink : Texts, fmt : Texts \ Malformed, has : {TRUE}]
LogEntries == [fmt : Texts, sinks : Seq(Sinks)]
LogValues == [AllLoggers -> LogEntries]

Emitters == [at : {"out", "look", "write"}, logger : AllLoggers, met : BOOLEAN]

LogTypeOK ==
    /\ conf \in LogValues
    /\ m_appenders \in [AllLoggers -> Seq(Appenders)]
    /\ m_format \in [AllLoggers -> Texts \ Malformed]
    /\ load = [new |-> load.new, todo |-> load.todo, at |-> load.at, left |-> load.left, on |-> load.on]
    /\ load.on \in BOOLEAN
    /\ load.on => load.new \in LogValues
    /\ load.left \in Seq(Sinks) /\ load.at \in AllLoggers
    /\ loads \in Nat /\ crashed \in BOOLEAN
    /\ emitter \in [LogThreads -> Emitters]

\* The first n appenders of a logger are those its definition says.
Follows(l, d, n) ==
    /\ n <= Len(d.sinks) /\ Len(m_appenders[l]) = n
    /\ \A i \in 1..n :
          LET a == m_appenders[l][i]
              s == d.sinks[i]
          IN  /\ a.sink = s.sink
              /\ Given(s.fmt) => a.fmt = s.fmt
              /\ ~Given(s.fmt) /\ Given(d.fmt) /\ l \notin meddled => a.fmt = d.fmt

\* How many appenders of a logger the listener has added.
SoFar(l) == IF l = load.at THEN Len(load.new[l].sinks) - Len(load.left) ELSE Len(load.new[l].sinks)

\* The listener has done the loggers that are not in todo, the last one as far
\* as left says.
LoadProgress ==
    load.on =>
        /\ load.new # conf
        /\ \A l \in AllLoggers : load.new[l] # Undefined /\ l \notin load.todo =>
               Follows(l, load.new[l], SoFar(l))
        /\ load.left # <<>> =>
               LET d == load.new[load.at]
                   n == Len(d.sinks) - Len(load.left)
               IN  /\ load.at \notin load.todo /\ d # Undefined
                   /\ Len(load.left) <= Len(d.sinks)
                   /\ \A i \in 1..Len(load.left) : load.left[i] = d.sinks[n + i]
                   /\ Given(d.fmt) /\ load.at \notin meddled => m_format[load.at] = d.fmt

\* The listener that crashed stays where it is.
CrashStays ==
    crashed => load.on /\ load.todo # {} /\ load.left = <<>>

\* Which events a load may cost: the appenders of a logger go only in a load,
\* and the threads that log meanwhile know of it.
EmitterKnows ==
    /\ load.on => loads > 0 /\ \A t \in LogThreads : emitter[t].at # "out" => emitter[t].met
    /\ loads = 0 => m_appenders[Root] # <<>>
    /\ \A t \in LogThreads : emitter[t].at = "write" /\ ~emitter[t].met =>
           m_appenders[emitter[t].logger] # <<>>

LogIInv ==
    /\ LogTypeOK /\ LoadProgress /\ CrashStays /\ EmitterKnows
    /\ LoggersFollowConf /\ LostOnlyInLoad /\ CrashOnlyPartialChange

LEMMA UndefinedType == Undefined \in LogEntries
<1>1. [sink |-> "undefined", fmt |-> Inherit] \in Sinks
  BY DEF Sinks, Texts
<1>2. <<[sink |-> "undefined", fmt |-> Inherit]>> \in Seq(Sinks)
  BY <1>1
<1>3. Inherit \in Texts
  BY DEF Texts
<1> QED
  BY <1>2, <1>3 DEF Undefined, LogEntries

LEMMA LogInitial == LogInit => LogIInv
<1> SUFFICES ASSUME LogInit
             PROVE  LogIInv
  OBVIOUS
<1>1. load.on = FALSE /\ load.left = <<>> /\ load.at = Root
  BY DEF LogInit, NoLoad
<1>2. Root \in AllLoggers
  BY DEF AllLoggers
<1>3. LogTypeOK
  <2>1. <<Stdout>> \in Seq(Appenders) /\ <<>> \in Seq(Appenders)
    <3>1. Stdout \in Appenders
      BY LogDefinitions DEF Appenders, Stdout, Texts
    <3> QED
      BY <3>1
  <2>2. conf \in LogValues
    BY UndefinedType DEF LogInit, LogValues
  <2>3. m_appenders \in [AllLoggers -> Seq(Appenders)]
    BY <2>1 DEF LogInit
  <2>4. m_format \in [AllLoggers -> Texts \ Malformed]
    BY LogDefinitions DEF LogInit, Texts
  <2>5. emitter \in [LogThreads -> Emitters]
    BY <1>2 DEF LogInit, Emitters
  <2>6. load.left \in Seq(Sinks) /\ load.on \in BOOLEAN /\ loads \in Nat /\ crashed \in BOOLEAN
    <3>1. <<>> \in Seq(Sinks)
      OBVIOUS
    <3> QED
      BY <1>1, <3>1 DEF LogInit
  <2>7. load = [new |-> load.new, todo |-> load.todo, at |-> load.at, left |-> load.left, on |-> load.on]
    BY DEF LogInit, NoLoad
  <2> QED
    BY <1>1, <1>2, <2>2, <2>3, <2>4, <2>5, <2>6, <2>7 DEF LogTypeOK
<1>4. LoadProgress /\ CrashStays /\ CrashOnlyPartialChange
  BY <1>1 DEF LogInit, LoadProgress, CrashStays, CrashOnlyPartialChange
<1>5. EmitterKnows /\ LostOnlyInLoad
  BY <1>1, <1>2 DEF LogInit, EmitterKnows, LostOnlyInLoad
<1>6. LoggersFollowConf
  BY DEF LogInit, LoggersFollowConf
<1> QED
  BY <1>3, <1>4, <1>5, <1>6 DEF LogIInv

LEMMA BeginLoadKeeps ==
    ASSUME LogIInv, NEW new \in [AllLoggers -> Definitions \cup {Undefined}], BeginLoad(new)
    PROVE  LogIInv'
<1> USE DEF LogIInv
<1>1. /\ ~load.on /\ ~crashed /\ new # conf /\ loads' = loads + 1
      /\ load'.new = new /\ load'.at = Root /\ load'.left = <<>> /\ load'.on = TRUE
      /\ load'.todo = {l \in AllLoggers : new[l] # Undefined \/ conf[l] # Undefined}
      /\ load' = [new |-> load'.new, todo |-> load'.todo, at |-> load'.at, left |-> load'.left, on |-> load'.on]
      /\ emitter' = [t \in LogThreads |-> [emitter[t] EXCEPT !.met = TRUE]]
      /\ UNCHANGED <<conf, m_appenders, m_format, events, lost, meddled, crashed>>
  BY DEF BeginLoad, Differs
<1>2. new \in LogValues
  <2>1. Definitions \subseteq LogEntries
    <3>1. STRING \subseteq Texts
      BY DEF Texts
    <3>2. [sink : STRING, fmt : STRING] \subseteq Sinks
      BY <3>1 DEF Sinks
    <3>3. Seq([sink : STRING, fmt : STRING]) \subseteq Seq(Sinks)
      BY <3>2, SeqMonotonic
    <3> QED
      BY <3>1, <3>3, LogDefinitions DEF LogEntries
  <2> HIDE DEF Undefined
  <2> QED
    BY <2>1, UndefinedType DEF LogValues
<1>3. \A t \in LogThreads : emitter'[t].at = emitter[t].at /\ emitter'[t].met = TRUE
                            /\ emitter'[t].logger = emitter[t].logger
  BY <1>1 DEF LogTypeOK, Emitters
<1>4. LogTypeOK'
  <2>1. Root \in AllLoggers
    BY DEF AllLoggers
  <2>2. emitter' \in [LogThreads -> Emitters]
    BY <1>1 DEF LogTypeOK, Emitters
  <2>3. load'.left \in Seq(Sinks) /\ load'.on \in BOOLEAN /\ load'.at \in AllLoggers
        /\ load'.new \in LogValues
    <3>1. <<>> \in Seq(Sinks)
      OBVIOUS
    <3> QED
      BY <1>1, <1>2, <2>1, <3>1
  <2>4. loads' \in Nat
    BY <1>1 DEF LogTypeOK
  <2> QED
    BY <1>1, <2>2, <2>3, <2>4 DEF LogTypeOK
<1>5. LoadProgress'
  BY <1>1 DEF LoadProgress
<1>6. CrashStays' /\ CrashOnlyPartialChange' /\ LoggersFollowConf'
  BY <1>1 DEF CrashStays, CrashOnlyPartialChange, LoggersFollowConf
<1>7. EmitterKnows' /\ LostOnlyInLoad'
  BY <1>1, <1>3 DEF EmitterKnows, LostOnlyInLoad, LogTypeOK
<1> QED
  BY <1>4, <1>5, <1>6, <1>7

\* A thread that logs goes on.
LEMMA EmitterMoves ==
    ASSUME NEW t \in LogThreads, emitter \in [LogThreads -> Emitters],
           NEW a \in {"out", "look", "write"}, NEW k \in AllLoggers,
           emitter' = [emitter EXCEPT ![t].at = a, ![t].logger = k]
    PROVE  /\ emitter' \in [LogThreads -> Emitters]
           /\ \A u \in LogThreads : u # t => emitter'[u] = emitter[u]
           /\ emitter'[t].at = a /\ emitter'[t].logger = k /\ emitter'[t].met = emitter[t].met
<1>1. [emitter[t] EXCEPT !.at = a, !.logger = k] \in Emitters
  BY DEF Emitters
<1>2. emitter' = [emitter EXCEPT ![t] = [emitter[t] EXCEPT !.at = a, !.logger = k]]
  OBVIOUS
<1>3. /\ [emitter[t] EXCEPT !.at = a, !.logger = k].at = a
      /\ [emitter[t] EXCEPT !.at = a, !.logger = k].logger = k
      /\ [emitter[t] EXCEPT !.at = a, !.logger = k].met = emitter[t].met
  BY DEF Emitters
<1> QED
  BY <1>1, <1>2, <1>3

\* The lock-free look and the write: the threads that log change nothing else.
LEMMA EmitterKeeps ==
    ASSUME LogIInv, NEW t \in LogThreads,
           Look(t) \/ WriteEvent(t) \/ \E l \in AllLoggers : BeginLog(t, l)
    PROVE  LogIInv'
<1> USE DEF LogIInv
<1> DEFINE l == emitter[t].logger
<1>1. UNCHANGED <<conf, m_appenders, m_format, load, loads, meddled, crashed>>
  BY DEF Look, WriteEvent, BeginLog
<1>7. l \in AllLoggers /\ Root \in AllLoggers /\ emitter[t] \in Emitters /\ load.on \in BOOLEAN
      /\ emitter \in [LogThreads -> Emitters]
  BY DEF LogTypeOK, AllLoggers, Emitters
<1>2. /\ emitter' \in [LogThreads -> Emitters]
      /\ \A u \in LogThreads : u # t => emitter'[u] = emitter[u]
      /\ emitter'[t].at # "out" => \/ emitter'[t].met = emitter[t].met /\ emitter[t].at # "out"
                                   \/ emitter'[t].met = load.on
      /\ emitter'[t].at = "write" => m_appenders[emitter'[t].logger] # <<>>
  <2>1. CASE Look(t)
    <3> DEFINE next == IF m_appenders[l] # <<>> THEN "write" ELSE WithoutAppenders(l)
    <3>1. /\ emitter[t].at = "look"
          /\ emitter' = [emitter EXCEPT ![t].at = CASE next = "write" -> "write"
                                                     [] next = "root" -> "look"
                                                     [] next = "lost" -> "out",
                                         ![t].logger = IF next = "root" THEN Root ELSE l]
      BY <2>1 DEF Look
    <3>2. \/ next = "write" /\ m_appenders[l] # <<>>
          \/ next = "root"
          \/ next = "lost"
      BY DEF WithoutAppenders
    <3> HIDE DEF next
    <3>4. CASE next = "write" /\ m_appenders[l] # <<>>
      <4>1. emitter' = [emitter EXCEPT ![t].at = "write", ![t].logger = l]
        BY <3>1, <3>4
      <4>2. /\ emitter' \in [LogThreads -> Emitters]
            /\ \A u \in LogThreads : u # t => emitter'[u] = emitter[u]
            /\ emitter'[t].at = "write" /\ emitter'[t].logger = l /\ emitter'[t].met = emitter[t].met
        BY <4>1, <1>7, EmitterMoves, Zenon
      <4> QED
        BY <3>1, <3>4, <4>2
    <3>5. CASE next = "root"
      <4>1. emitter' = [emitter EXCEPT ![t].at = "look", ![t].logger = Root]
        BY <3>1, <3>5
      <4>2. /\ emitter' \in [LogThreads -> Emitters]
            /\ \A u \in LogThreads : u # t => emitter'[u] = emitter[u]
            /\ emitter'[t].at = "look" /\ emitter'[t].logger = Root /\ emitter'[t].met = emitter[t].met
        BY <4>1, <1>7, EmitterMoves, Zenon
      <4> QED
        BY <3>1, <4>2
    <3>6. CASE next = "lost"
      <4>1. emitter' = [emitter EXCEPT ![t].at = "out", ![t].logger = l]
        BY <3>1, <3>6
      <4>2. /\ emitter' \in [LogThreads -> Emitters]
            /\ \A u \in LogThreads : u # t => emitter'[u] = emitter[u]
            /\ emitter'[t].at = "out" /\ emitter'[t].logger = l /\ emitter'[t].met = emitter[t].met
        BY <4>1, <1>7, EmitterMoves, Zenon
      <4> QED
        BY <3>1, <4>2
    <3> QED
      BY <3>2, <3>4, <3>5, <3>6
  <2>2. CASE WriteEvent(t)
    <3>1. emitter' = [emitter EXCEPT ![t].at = "out"]
      BY <2>2 DEF WriteEvent
    <3> QED
      BY <3>1, <1>7 DEF Emitters
  <2>3. CASE \E k \in AllLoggers : BeginLog(t, k)
    <3>1. PICK k \in AllLoggers :
            emitter' = [emitter EXCEPT ![t] = [at |-> "look", logger |-> k, met |-> load.on]]
      BY <2>3 DEF BeginLog
    <3> QED
      BY <3>1, <1>7 DEF Emitters
  <2> QED
    BY <2>1, <2>2, <2>3
<1>8. ASSUME NEW e \in lost', e \notin lost
      PROVE  /\ e = [met |-> emitter[t].met, logger |-> l] /\ m_appenders[l] = <<>>
             /\ emitter[t].at = "write" \/ l = Root
  BY <1>8 DEF Look, WriteEvent, BeginLog, WithoutAppenders
<1> HIDE DEF l
<1>3. LogTypeOK'
  BY <1>1, <1>2 DEF LogTypeOK
<1>10. CrashStays'
  BY <1>1 DEF CrashStays
<1>4. LoadProgress'
  <2>1. ASSUME NEW k \in AllLoggers
        PROVE  Follows(k, load.new[k], SoFar(k))' = Follows(k, load.new[k], SoFar(k))
    BY <1>1 DEF Follows, SoFar
  <2> QED
    BY <1>1, <2>1 DEF LoadProgress
<1>9. CrashOnlyPartialChange' /\ LoggersFollowConf'
  BY <1>1 DEF CrashOnlyPartialChange, LoggersFollowConf
<1>5. EmitterKnows'
  BY <1>1, <1>2 DEF EmitterKnows
<1>6. LostOnlyInLoad'
  <2> SUFFICES ASSUME NEW e \in lost', e \notin lost
               PROVE  e.met \/ (e.logger = Root /\ loads > 0)
    BY <1>1 DEF LostOnlyInLoad
  <2>1. /\ e = [met |-> emitter[t].met, logger |-> l] /\ m_appenders[l] = <<>>
        /\ emitter[t].at = "write" \/ l = Root
    BY <1>8
  <2>2. loads \in Nat
    BY DEF LogTypeOK
  <2> QED
    BY <2>1, <2>2 DEF EmitterKnows, l
<1> QED
  BY <1>3, <1>4, <1>5, <1>6, <1>9, <1>10

\* A step of the listener that is under way.
LEMMA DefineKeeps ==
    ASSUME LogIInv, NEW l \in AllLoggers, DefineLogger(l)
    PROVE  LogIInv'
<1> USE DEF LogIInv
<1> DEFINE d == load.new[l]
<1>1. /\ load.on /\ load.left = <<>> /\ l \in load.todo /\ d # Undefined
      /\ UNCHANGED <<conf, loads, emitter, events, lost>>
  BY DEF DefineLogger
<1>2. load.new \in LogValues /\ d \in LogEntries /\ conf \in LogValues /\ d.sinks \in Seq(Sinks)
  BY <1>1 DEF LogTypeOK, LogValues, LogEntries
<1>3. CASE d = conf[l]
  <2>1. crashed' = TRUE /\ UNCHANGED <<m_appenders, m_format, load, meddled>>
    BY <1>3 DEF DefineLogger
  <2>2. LogTypeOK' /\ CrashStays'
    BY <1>1, <2>1 DEF LogTypeOK, CrashStays
  <2>3. LoadProgress'
    <3>1. ASSUME NEW k \in AllLoggers
          PROVE  Follows(k, load.new[k], SoFar(k))' = Follows(k, load.new[k], SoFar(k))
      <4>1. SoFar(k)' = SoFar(k)
        BY <2>1, Zenon DEF SoFar
      <4> QED
        BY <2>1, <4>1, Zenon DEF Follows
    <3> QED
      BY <1>1, <2>1, <3>1, Zenon DEF LoadProgress
  <2>4. EmitterKnows' /\ LostOnlyInLoad'
    BY <1>1, <2>1 DEF EmitterKnows, LostOnlyInLoad
  <2>5. LoggersFollowConf'
    BY <1>1, <2>1 DEF LoggersFollowConf
  <2>6. \E k \in AllLoggers : load.new[k] # conf[k]
    BY <1>1, <1>2 DEF LoadProgress, LogValues
  <2>7. CrashOnlyPartialChange'
    BY <1>1, <1>3, <2>1, <2>6 DEF CrashOnlyPartialChange
  <2> QED
    BY <2>2, <2>3, <2>4, <2>5, <2>7
<1>4. CASE d # conf[l]
  <2>1. /\ m_format' = IF Given(d.fmt) THEN [m_format EXCEPT ![l] = d.fmt] ELSE m_format
        /\ m_appenders' = [m_appenders EXCEPT ![l] = <<>>]
        /\ load' = [load EXCEPT !.todo = @ \ {l}, !.at = l, !.left = d.sinks]
        /\ meddled' = meddled \ {l} /\ crashed' = crashed /\ ~crashed
    BY <1>4 DEF DefineLogger, ClearedAppenders
  <2>2. /\ load'.new = load.new /\ load'.todo = load.todo \ {l} /\ load'.at = l
        /\ load'.left = d.sinks /\ load'.on = load.on
        /\ load' = [new |-> load'.new, todo |-> load'.todo, at |-> load'.at, left |-> load'.left, on |-> load'.on]
    BY <2>1 DEF LogTypeOK
  <2>3. /\ m_appenders' \in [AllLoggers -> Seq(Appenders)] /\ m_appenders'[l] = <<>>
        /\ \A k \in AllLoggers : k # l => m_appenders'[k] = m_appenders[k]
    <3>1. <<>> \in Seq(Appenders)
      OBVIOUS
    <3> QED
      BY <2>1, <3>1 DEF LogTypeOK
  <2>4. m_format' \in [AllLoggers -> Texts \ Malformed] /\ (Given(d.fmt) => m_format'[l] = d.fmt)
    BY <2>1, <1>2 DEF LogTypeOK, LogEntries, Given
  <2>5. LogTypeOK'
    BY <1>1, <1>2, <2>1, <2>2, <2>3, <2>4 DEF LogTypeOK
  <2> HIDE DEF d
  <2>6. CrashStays' /\ CrashOnlyPartialChange' /\ LoggersFollowConf'
    BY <1>1, <2>1, <2>2 DEF CrashStays, CrashOnlyPartialChange, LoggersFollowConf
  <2>7. EmitterKnows' /\ LostOnlyInLoad'
    BY <1>1, <2>1, <2>2 DEF EmitterKnows, LostOnlyInLoad, LogTypeOK
  <2>8. Len(d.sinks) \in Nat
    BY <1>2
  <2>9. ASSUME NEW k \in AllLoggers, load.new[k] # Undefined, k \notin load.todo \ {l}
        PROVE  Follows(k, load.new[k], SoFar(k))'
    <3>1. CASE k = l
      <4>1. SoFar(k)' = 0
        BY <3>1, <2>2, <2>8 DEF SoFar, d
      <4>2. Len(m_appenders'[k]) = 0 /\ 0 <= Len(load'.new[k].sinks)
        BY <3>1, <2>2, <2>3, <2>8 DEF d
      <4> QED
        BY <4>1, <4>2 DEF Follows
    <3>2. CASE k # l
      <4>1. Follows(k, load.new[k], SoFar(k))
        BY <2>9, <3>2, <1>1 DEF LoadProgress
      <4>2. Len(load.new[k].sinks) \in Nat
        BY <1>2 DEF LogValues, LogEntries
      <4>3. SoFar(k)' = SoFar(k)
        BY <3>2, <4>2, <2>2, <1>1 DEF SoFar
      <4> QED
        BY <3>2, <4>1, <4>3, <2>1, <2>2, <2>3 DEF Follows
    <3> QED
      BY <3>1, <3>2
  <2>10. LoadProgress'
    <3>1. load'.new # conf'
      BY <1>1, <2>2 DEF LoadProgress
    <3>2. \A i \in 1..Len(d.sinks) : d.sinks[i] = d.sinks[(Len(d.sinks) - Len(d.sinks)) + i]
      BY <2>8
    <3>3. l \notin load.todo \ {l} /\ Len(d.sinks) <= Len(d.sinks)
      BY <2>8
    <3> QED
      BY <1>1, <2>2, <2>4, <2>9, <3>1, <3>2, <3>3 DEF LoadProgress, d
  <2> QED
    BY <2>5, <2>6, <2>7, <2>10
<1> QED
  BY <1>3, <1>4

LEMMA AddKeeps ==
    ASSUME LogIInv, addAppender
    PROVE  LogIInv'
<1> USE DEF LogIInv
<1> DEFINE l == load.at
           d == load.new[l]
           n == Len(d.sinks) - Len(load.left)
           s == Head(load.left)
           a == Added(l, s)
<1>1. /\ load.on /\ load.left # <<>>
      /\ m_appenders' = [m_appenders EXCEPT ![l] = Append(@, a)]
      /\ load' = [load EXCEPT !.left = Tail(@)]
      /\ UNCHANGED <<conf, m_format, loads, emitter, events, lost, meddled, crashed>>
  BY DEF addAppender
<1>2. /\ load'.new = load.new /\ load'.todo = load.todo /\ load'.at = l
      /\ load'.left = Tail(load.left) /\ load'.on = load.on
      /\ load' = [new |-> load'.new, todo |-> load'.todo, at |-> load'.at, left |-> load'.left, on |-> load'.on]
  BY <1>1 DEF LogTypeOK
<1>3. /\ l \in AllLoggers /\ load.new \in LogValues /\ load.left \in Seq(Sinks)
      /\ \A k \in AllLoggers : load.new[k] \in LogEntries /\ Len(load.new[k].sinks) \in Nat
  BY <1>1 DEF LogTypeOK, LogValues, LogEntries
<1>4. /\ l \notin load.todo /\ d # Undefined /\ Len(load.left) <= Len(d.sinks)
      /\ \A i \in 1..Len(load.left) : load.left[i] = d.sinks[n + i]
      /\ Given(d.fmt) /\ l \notin meddled => m_format[l] = d.fmt
  BY <1>1 DEF LoadProgress
<1>5. /\ Len(load.left) \in Nat \ {0} /\ n \in Nat /\ s = load.left[1] /\ s \in Sinks
      /\ Tail(load.left) \in Seq(Sinks) /\ Len(Tail(load.left)) = Len(load.left) - 1
      /\ \A i \in 1..(Len(load.left) - 1) : Tail(load.left)[i] = load.left[i + 1]
  BY <1>1, <1>3, <1>4
<1>6. s = d.sinks[n + 1]
  <2>1. 1 \in 1..Len(load.left)
    BY <1>5
  <2>2. load.left[1] = d.sinks[n + 1]
    BY ONLY <2>1, <1>4
  <2> QED
    BY <2>2, <1>5
<1>7. /\ a \in Appenders /\ a.sink = s.sink /\ (Given(s.fmt) => a.fmt = s.fmt)
      /\ (~Given(s.fmt) => a.fmt = m_format[l])
  BY <1>3, <1>5 DEF Added, Appenders, Sinks, LogTypeOK, Given
<1>8. Follows(l, d, n)
  BY <1>1, <1>3, <1>4 DEF LoadProgress, SoFar
<1>14. m_appenders[l] \in Seq(Appenders)
  BY <1>3 DEF LogTypeOK
<1>15. Len(d.sinks) \in Nat /\ n = Len(d.sinks) - Len(load.left)
  BY <1>3
<1> HIDE DEF l, d, n, s, a
<1>9. /\ m_appenders' \in [AllLoggers -> Seq(Appenders)]
      /\ Len(m_appenders'[l]) = n + 1 /\ m_appenders'[l][n + 1] = a
      /\ \A i \in 1..n : m_appenders'[l][i] = m_appenders[l][i]
      /\ \A k \in AllLoggers : k # l => m_appenders'[k] = m_appenders[k]
      /\ m_appenders'[l] # <<>>
  <2>1. m_appenders'[l] = Append(m_appenders[l], a)
        /\ \A k \in AllLoggers : k # l => m_appenders'[k] = m_appenders[k]
    BY <1>1, <1>3 DEF LogTypeOK
  <2>2. /\ Append(m_appenders[l], a) \in Seq(Appenders)
        /\ Len(Append(m_appenders[l], a)) = Len(m_appenders[l]) + 1
        /\ \A i \in 1..Len(m_appenders[l]) : Append(m_appenders[l], a)[i] = m_appenders[l][i]
        /\ Append(m_appenders[l], a)[Len(m_appenders[l]) + 1] = a
    BY <1>7, <1>14, AppendProperties
  <2>3. Len(m_appenders[l]) = n
    BY <1>8 DEF Follows
  <2>4. m_appenders' \in [AllLoggers -> Seq(Appenders)]
    BY <1>1, <1>3, <2>2 DEF LogTypeOK
  <2>5. Append(m_appenders[l], a) # <<>>
    <3>1. Len(<<>>) = 0 /\ n + 1 # 0
      BY <1>5
    <3> QED
      BY ONLY <3>1, <2>2, <2>3
  <2> QED
    BY <2>1, <2>2, <2>3, <2>4, <2>5
<1>10. LogTypeOK'
  BY <1>1, <1>2, <1>3, <1>5, <1>9 DEF LogTypeOK
<1>11. CrashStays' /\ CrashOnlyPartialChange' /\ LoggersFollowConf'
  BY <1>1, <1>2 DEF CrashStays, CrashOnlyPartialChange, LoggersFollowConf
<1>12. EmitterKnows' /\ LostOnlyInLoad'
  <2>1. \A k \in AllLoggers : m_appenders[k] # <<>> => m_appenders'[k] # <<>>
    BY <1>9
  <2>2. Root \in AllLoggers /\ \A t \in LogThreads : emitter[t].logger \in AllLoggers
    BY DEF AllLoggers, LogTypeOK, Emitters
  <2> QED
    BY <1>1, <1>2, <2>1, <2>2 DEF EmitterKnows, LostOnlyInLoad
<1>13. LoadProgress'
  <2>1. ASSUME NEW k \in AllLoggers, load.new[k] # Undefined, k \notin load.todo
        PROVE  Follows(k, load.new[k], SoFar(k))'
    <3>1. CASE k # l
      <4>1. Follows(k, load.new[k], SoFar(k))
        BY <2>1, <1>1 DEF LoadProgress
      <4>2. SoFar(k)' = SoFar(k)
        BY <3>1, <1>2 DEF SoFar, l
      <4> QED
        BY <3>1, <4>1, <4>2, <1>1, <1>2, <1>9 DEF Follows
    <3>2. CASE k = l
      <4>1. SoFar(k)' = n + 1
        <5>1. SoFar(k)' = Len(d.sinks) - Len(Tail(load.left))
          BY <3>2, <1>2 DEF SoFar, d
        <5>2. Len(d.sinks) - (Len(load.left) - 1) = n + 1
          BY <1>5, <1>15
        <5> QED
          BY <5>1, <5>2, <1>5
      <4>2. n + 1 <= Len(d.sinks) /\ load'.new[k] = d
        BY <3>2, <1>2, <1>3, <1>4, <1>5 DEF n, d
      <4>3. ASSUME NEW i \in 1..(n + 1)
            PROVE  LET b == m_appenders'[l][i]
                       z == d.sinks[i]
                   IN  /\ b.sink = z.sink
                       /\ Given(z.fmt) => b.fmt = z.fmt
                       /\ ~Given(z.fmt) /\ Given(d.fmt) /\ l \notin meddled => b.fmt = d.fmt
        <5>1. CASE i = n + 1
          BY <5>1, <1>4, <1>6, <1>7, <1>9
        <5>2. CASE i \in 1..n
          BY <5>2, <1>8, <1>9 DEF Follows
        <5> QED
          BY <5>1, <5>2, <1>5
      <4> QED
        BY <3>2, <4>1, <4>2, <4>3, <1>1, <1>9 DEF Follows
    <3> QED
      BY <3>1, <3>2
  <2>2. ASSUME NEW i \in 1..(Len(load.left) - 1)
        PROVE  Tail(load.left)[i] = d.sinks[(Len(d.sinks) - (Len(load.left) - 1)) + i]
    <3>1. Tail(load.left)[i] = load.left[i + 1] /\ i + 1 \in 1..Len(load.left)
      BY <1>5
    <3>2. load.left[i + 1] = d.sinks[n + (i + 1)]
      BY <3>1, <1>4
    <3>3. n + (i + 1) = (Len(d.sinks) - (Len(load.left) - 1)) + i
      <4>1. i \in Int /\ Len(load.left) \in Int /\ Len(d.sinks) \in Int
        BY <1>5, <1>15
      <4>2. \A x, y, z \in Int : (x - y) + (z + 1) = (x - (y - 1)) + z
        OBVIOUS
      <4> QED
        BY ONLY <4>1, <4>2, <1>15
    <3> QED
      BY <3>1, <3>2, <3>3
  <2>3. load'.left # <<>> =>
          LET dd == load'.new[load'.at]
              m == Len(dd.sinks) - Len(load'.left)
          IN  /\ load'.at \notin load'.todo /\ dd # Undefined
              /\ Len(load'.left) <= Len(dd.sinks)
              /\ \A i \in 1..Len(load'.left) : load'.left[i] = dd.sinks[m + i]
              /\ Given(dd.fmt) /\ load'.at \notin meddled' => m_format'[load'.at] = dd.fmt
    <3>1. load'.new[load'.at] = d /\ Len(load'.left) = Len(load.left) - 1 /\ load'.at = l
      BY <1>2, <1>5 DEF d
    <3>2. Len(load.left) - 1 <= Len(d.sinks)
      BY <1>3, <1>4, <1>5 DEF d
    <3>3. l \notin load'.todo /\ d # Undefined /\ Len(load'.left) <= Len(d.sinks)
      BY <3>1, <3>2, <1>2, <1>4
    <3>4. ASSUME NEW i \in 1..Len(load'.left)
          PROVE  load'.left[i] = d.sinks[(Len(d.sinks) - Len(load'.left)) + i]
      BY <3>1, <2>2, <1>2
    <3>5. Given(d.fmt) /\ l \notin meddled' => m_format'[l] = d.fmt
      BY <1>1, <1>4
    <3> QED
      BY ONLY <3>1, <3>3, <3>4, <3>5
  <2>4. load'.new # conf'
    BY <1>1, <1>2 DEF LoadProgress
  <2> QED
    BY <1>1, <1>2, <2>1, <2>3, <2>4 DEF LoadProgress
<1> QED
  BY <1>10, <1>11, <1>12, <1>13

LEMMA RemoveKeeps ==
    ASSUME LogIInv, NEW l \in AllLoggers, RemoveLogger(l)
    PROVE  LogIInv'
<1> USE DEF LogIInv
<1>1. /\ load.on /\ ~crashed /\ load.left = <<>> /\ l \in load.todo /\ load.new[l] = Undefined
      /\ m_appenders' = [m_appenders EXCEPT ![l] = <<>>]
      /\ load' = [load EXCEPT !.todo = @ \ {l}]
      /\ UNCHANGED <<conf, m_format, loads, emitter, events, lost, meddled, crashed>>
  BY DEF RemoveLogger
<1>2. /\ load'.new = load.new /\ load'.todo = load.todo \ {l} /\ load'.at = load.at
      /\ load'.left = load.left /\ load'.on = load.on
      /\ load' = [new |-> load'.new, todo |-> load'.todo, at |-> load'.at, left |-> load'.left, on |-> load'.on]
  BY <1>1 DEF LogTypeOK
<1>3. /\ m_appenders' \in [AllLoggers -> Seq(Appenders)]
      /\ \A k \in AllLoggers : k # l => m_appenders'[k] = m_appenders[k]
  <2>1. <<>> \in Seq(Appenders)
    OBVIOUS
  <2> QED
    BY <1>1, <2>1 DEF LogTypeOK
<1>4. LogTypeOK'
  BY <1>1, <1>2, <1>3 DEF LogTypeOK
<1>5. CrashStays' /\ CrashOnlyPartialChange' /\ LoggersFollowConf'
  BY <1>1, <1>2 DEF CrashStays, CrashOnlyPartialChange, LoggersFollowConf
<1>6. EmitterKnows' /\ LostOnlyInLoad'
  BY <1>1, <1>2 DEF EmitterKnows, LostOnlyInLoad, LogTypeOK
<1>7. ASSUME NEW k \in AllLoggers, load.new[k] # Undefined, k \notin load.todo \ {l}
      PROVE  Follows(k, load.new[k], SoFar(k))'
  <2>1. k # l /\ k \notin load.todo
    BY <1>1, <1>7
  <2>2. Follows(k, load.new[k], SoFar(k))
    BY <1>1, <1>7, <2>1 DEF LoadProgress
  <2>3. SoFar(k)' = SoFar(k)
    BY <1>2 DEF SoFar
  <2> QED
    BY <2>1, <2>2, <2>3, <1>1, <1>2, <1>3 DEF Follows
<1>8. LoadProgress'
  BY <1>1, <1>2, <1>7 DEF LoadProgress
<1> QED
  BY <1>4, <1>5, <1>6, <1>8

LEMMA EndLoadKeeps ==
    ASSUME LogIInv, EndLoad
    PROVE  LogIInv'
<1> USE DEF LogIInv
<1>1. /\ load.on /\ load.todo = {} /\ load.left = <<>> /\ conf' = load.new /\ load' = NoLoad
      /\ UNCHANGED <<m_appenders, m_format, loads, emitter, events, lost, meddled, crashed>>
  BY DEF EndLoad
<1>2. /\ load'.on = FALSE /\ load'.left = <<>> /\ load'.at = Root
      /\ load' = [new |-> load'.new, todo |-> load'.todo, at |-> load'.at, left |-> load'.left, on |-> load'.on]
  BY <1>1 DEF NoLoad
<1>3. LogTypeOK'
  <2>1. <<>> \in Seq(Sinks) /\ Root \in AllLoggers
    BY DEF AllLoggers
  <2> QED
    BY <1>1, <1>2, <2>1 DEF LogTypeOK
<1>4. CrashStays' /\ CrashOnlyPartialChange' /\ LoadProgress'
  BY <1>1, <1>2 DEF CrashStays, CrashOnlyPartialChange, LoadProgress
<1>5. EmitterKnows' /\ LostOnlyInLoad'
  BY <1>1, <1>2 DEF EmitterKnows, LostOnlyInLoad
<1>6. LoggersFollowConf'
  <2> SUFFICES ASSUME NEW l \in AllLoggers, conf'[l] # Undefined
               PROVE  /\ Len(m_appenders'[l]) = Len(conf'[l].sinks)
                      /\ \A i \in DOMAIN m_appenders'[l] :
                           LET a == m_appenders'[l][i]
                               s == conf'[l].sinks[i]
                           IN  /\ a.sink = s.sink
                               /\ Given(s.fmt) => a.fmt = s.fmt
                               /\ ~Given(s.fmt) /\ Given(conf'[l].fmt) /\ l \notin meddled' => a.fmt = conf'[l].fmt
    BY DEF LoggersFollowConf
  <2>1. Follows(l, load.new[l], SoFar(l))
    BY <1>1 DEF LoadProgress
  <2>2. load.new[l].sinks \in Seq(Sinks) /\ m_appenders[l] \in Seq(Appenders)
    BY <1>1 DEF LogTypeOK, LogValues, LogEntries
  <2>3. SoFar(l) = Len(load.new[l].sinks)
    BY <1>1, <2>2 DEF SoFar
  <2>4. DOMAIN m_appenders[l] = 1..Len(m_appenders[l])
    BY <2>2
  <2> QED
    BY <1>1, <2>1, <2>3, <2>4 DEF Follows
<1> QED
  BY <1>3, <1>4, <1>5, <1>6

LEMMA SetFormatterKeeps ==
    ASSUME LogIInv, NEW l \in AllLoggers, setFormatter(l, "plain")
    PROVE  LogIInv'
<1> USE DEF LogIInv
<1> DEFINE A == m_appenders[l]
           B == [i \in DOMAIN A |-> IF A[i].has THEN A[i] ELSE [A[i] EXCEPT !.fmt = "plain"]]
<1>1. /\ m_format' = [m_format EXCEPT ![l] = "plain"]
      /\ m_appenders' = [m_appenders EXCEPT ![l] = B]
      /\ meddled' = IF load.on THEN meddled \cup {l} ELSE meddled
      /\ "plain" \notin Malformed
      /\ UNCHANGED <<conf, load, loads, emitter, events, lost, crashed>>
  BY DEF setFormatter, Given
<1>2. B = A
  <2>1. A \in Seq(Appenders)
    BY DEF LogTypeOK
  <2>2. DOMAIN A = 1..Len(A) /\ \A i \in 1..Len(A) : A[i] \in Appenders
    BY <2>1, ElementOfSeq
  <2>3. \A i \in DOMAIN A : A[i].has
    BY <2>2 DEF Appenders
  <2>4. B = [i \in DOMAIN A |-> A[i]]
    BY <2>3
  <2> HIDE DEF B
  <2> QED
    BY <2>1, <2>4
<1>3. m_appenders' = m_appenders
  BY <1>1, <1>2 DEF LogTypeOK
<1> HIDE DEF A, B
<1>4. LogTypeOK'
  <2>1. m_format' \in [AllLoggers -> Texts \ Malformed]
    BY <1>1 DEF LogTypeOK, Texts
  <2> QED
    BY <1>1, <1>3, <2>1 DEF LogTypeOK
<1>5. CrashStays' /\ CrashOnlyPartialChange' /\ EmitterKnows' /\ LostOnlyInLoad'
  BY <1>1, <1>3 DEF CrashStays, CrashOnlyPartialChange, EmitterKnows, LostOnlyInLoad
<1>6. LoggersFollowConf'
  BY <1>1, <1>3 DEF LoggersFollowConf
<1>7. LoadProgress'
  <2>1. ASSUME NEW k \in AllLoggers, Follows(k, load.new[k], SoFar(k))
        PROVE  Follows(k, load.new[k], SoFar(k))'
    <3>1. SoFar(k)' = SoFar(k)
      BY <1>1 DEF SoFar
    <3>2. k \notin meddled' => k \notin meddled
      BY <1>1
    <3> QED
      BY <2>1, <3>1, <3>2, <1>1, <1>3 DEF Follows
  <2>2. load.on /\ load.at \notin meddled' => load.at \notin meddled /\ m_format'[load.at] = m_format[load.at]
    BY <1>1 DEF LogTypeOK
  <2> QED
    BY <1>1, <2>1, <2>2 DEF LoadProgress
<1> QED
  BY <1>4, <1>5, <1>6, <1>7

LEMMA LogStep == LogIInv /\ [LogNext]_logVars => LogIInv'
<1> SUFFICES ASSUME LogIInv, [LogNext]_logVars
             PROVE  LogIInv'
  OBVIOUS
<1>1. CASE UNCHANGED logVars
  <2>1. UNCHANGED <<conf, m_appenders, m_format, load, loads, emitter, events, lost, meddled, crashed>>
    BY <1>1 DEF logVars
  <2>2. LogTypeOK' /\ CrashStays' /\ CrashOnlyPartialChange' /\ EmitterKnows' /\ LostOnlyInLoad'
    BY <2>1 DEF LogIInv, LogTypeOK, CrashStays, CrashOnlyPartialChange, EmitterKnows, LostOnlyInLoad
  <2>3. LoggersFollowConf'
    BY <2>1 DEF LogIInv, LoggersFollowConf
  <2>4. LoadProgress'
    <3>1. ASSUME NEW k \in AllLoggers
          PROVE  Follows(k, load.new[k], SoFar(k))' = Follows(k, load.new[k], SoFar(k))
      BY <2>1 DEF Follows, SoFar
    <3> QED
      BY <2>1, <3>1 DEF LogIInv, LoadProgress
  <2> QED
    BY <2>2, <2>3, <2>4 DEF LogIInv
<1> QED
  BY <1>1, BeginLoadKeeps, EmitterKeeps, DefineKeeps, AddKeeps, RemoveKeeps, EndLoadKeeps,
     SetFormatterKeeps DEF LogNext

\* What a load leaves behind, which events it may cost and when the listener
\* crashes: for any loggers, any definitions, valid or not, and any number of
\* threads.
THEOREM LoggingHolds == Spec => []LoggingInv
<1>1. LogIInv => LoggingInv
  <2>1. ASSUME LogTypeOK, NEW l \in AllLoggers
        PROVE  /\ m_format[l] \notin Malformed
               /\ \A i \in DOMAIN m_appenders[l] : m_appenders[l][i].fmt \notin Malformed
    <3>1. m_format[l] \in Texts \ Malformed /\ m_appenders[l] \in Seq(Appenders)
      BY <2>1 DEF LogTypeOK
    <3>2. \A i \in DOMAIN m_appenders[l] : m_appenders[l][i] \in Appenders
      BY <3>1, ElementOfSeq
    <3> QED
      BY <3>1, <3>2 DEF Appenders
  <2> QED
    BY <2>1 DEF LogIInv, LoggingInv, NoInvalidFormatter
<1> QED
  BY <1>1, PartsInit, PartsNext, LogInitial, LogStep, PTL DEF Spec
-----------------------------------------------------------------------------
(* ByteArray: the sums and shifts of the codec.                            *)

Picked(s) == CHOOSE x \in s : TRUE

\* g is the sum that MapThenSumSet takes of the values v over the sets in Sets.
SumsOver(g, v, Sets) ==
    g = [s \in Sets |-> IF s = {} THEN 0 ELSE v[Picked(s)] + g[s \ {Picked(s)}]]

LEMMA PickedIsMember ==
    ASSUME NEW Elems, IsFiniteSet(Elems), NEW s \in SUBSET Elems, s # {}
    PROVE  /\ Picked(s) \in s /\ s \ {Picked(s)} \in SUBSET Elems
           /\ Cardinality(s) \in Nat /\ Cardinality(s) > 0
           /\ Cardinality(s \ {Picked(s)}) = Cardinality(s) - 1
<1>1. Picked(s) \in s
  BY DEF Picked
<1>2. IsFiniteSet(s)
  BY FS_Subset
<1>3. Cardinality(s) \in Nat /\ Cardinality(s) # 0
  BY <1>2, FS_CardinalityType, FS_EmptySet
<1>4. Cardinality(s \ {Picked(s)}) = Cardinality(s) - 1
  BY <1>1, <1>2, FS_RemoveElement
<1> QED
  BY <1>1, <1>3, <1>4

\* The sets of at most n elements have a sum: if not, one of the numbers is
\* the first that fails, and the sums below it extend to it.
LEMMA SumExists ==
    ASSUME NEW Elems, IsFiniteSet(Elems), NEW v \in [Elems -> Nat]
    PROVE  \E g \in [SUBSET Elems -> Nat] : SumsOver(g, v, SUBSET Elems)
<1> DEFINE Upto(n) == {s \in SUBSET Elems : Cardinality(s) <= n}
           Has(n) == \E g \in [Upto(n) -> Nat] : SumsOver(g, v, Upto(n))
           Bad == {n \in Nat : ~Has(n)}
<1>0. \A s \in SUBSET Elems : IsFiniteSet(s) /\ Cardinality(s) \in Nat /\ (s # {} => Cardinality(s) # 0)
  BY FS_Subset, FS_CardinalityType, FS_EmptySet
<1>1. Has(0)
  <2> DEFINE g == [s \in Upto(0) |-> 0]
  <2>1. g \in [Upto(0) -> Nat]
    OBVIOUS
  <2>2. \A s \in Upto(0) : s = {}
    BY <1>0
  <2>3. g = [s \in Upto(0) |-> IF s = {} THEN 0 ELSE v[Picked(s)] + g[s \ {Picked(s)}]]
    BY <2>2
  <2> QED
    BY <2>1, <2>3 DEF SumsOver
<1>2. ASSUME NEW n \in Nat, Has(n)
      PROVE  Has(n + 1)
  <2>1. PICK h \in [Upto(n) -> Nat] : SumsOver(h, v, Upto(n))
    BY <1>2
  <2> DEFINE g == [s \in Upto(n + 1) |-> IF s = {} THEN 0 ELSE v[Picked(s)] + h[s \ {Picked(s)}]]
  <2>2. ASSUME NEW s \in Upto(n + 1), s # {}
        PROVE  /\ Picked(s) \in Elems /\ s \ {Picked(s)} \in Upto(n)
    BY <2>2, PickedIsMember
  <2>3. g \in [Upto(n + 1) -> Nat]
    BY <2>2
  <2>4. ASSUME NEW s \in Upto(n)
        PROVE  s \in Upto(n + 1) /\ h[s] = g[s]
    <3>1. s \in Upto(n + 1)
      BY <1>0
    <3>2. h[s] = IF s = {} THEN 0 ELSE v[Picked(s)] + h[s \ {Picked(s)}]
      BY <2>1 DEF SumsOver
    <3> QED
      BY <3>1, <3>2
  <2>5. \A s \in Upto(n + 1) : s # {} => h[s \ {Picked(s)}] = g[s \ {Picked(s)}]
    BY <2>2, <2>4
  <2> HIDE DEF Upto
  <2>6. g = [s \in Upto(n + 1) |-> IF s = {} THEN 0 ELSE v[Picked(s)] + g[s \ {Picked(s)}]]
    BY <2>5
  <2> QED
    BY <2>3, <2>6 DEF SumsOver
<1> HIDE DEF Has
<1>3. Bad = {}
  <2> SUFFICES ASSUME Bad # {} PROVE FALSE
    OBVIOUS
  <2>1. PICK m \in Bad : \A n \in Bad : m <= n
    BY LeastNatural
  <2>2. m \in Nat /\ m # 0 /\ m - 1 \in Nat
    BY <1>1, <2>1
  <2>3. Has(m - 1)
    BY <2>1, <2>2
  <2>4. Has((m - 1) + 1) /\ (m - 1) + 1 = m
    BY <2>2, <2>3, <1>2
  <2> QED
    BY <2>1, <2>4
<1>4. Cardinality(Elems) \in Nat
  BY FS_CardinalityType
<1>5. Upto(Cardinality(Elems)) = SUBSET Elems
  BY FS_Subset
<1>6. Has(Cardinality(Elems))
  BY <1>3, <1>4
<1> QED
  BY <1>5, <1>6 DEF Has

LEMMA SumIsNatural ==
    ASSUME NEW Elems, IsFiniteSet(Elems), NEW v \in [Elems -> Nat],
           NEW g, SumsOver(g, v, SUBSET Elems)
    PROVE  g[Elems] \in Nat
<1> DEFINE Bad == {n \in Nat : \E s \in SUBSET Elems : Cardinality(s) = n /\ g[s] \notin Nat}
<1>1. \A s \in SUBSET Elems : g[s] = IF s = {} THEN 0 ELSE v[Picked(s)] + g[s \ {Picked(s)}]
  BY DEF SumsOver
<1>2. Bad = {}
  <2> SUFFICES ASSUME Bad # {} PROVE FALSE
    OBVIOUS
  <2>1. PICK m \in Bad : \A n \in Bad : m <= n
    BY LeastNatural
  <2>2. PICK s \in SUBSET Elems : Cardinality(s) = m /\ g[s] \notin Nat
    BY <2>1
  <2> HIDE DEF Bad
  <2>3. s # {} /\ g[s] = v[Picked(s)] + g[s \ {Picked(s)}]
    <3>1. g[s] = IF s = {} THEN 0 ELSE v[Picked(s)] + g[s \ {Picked(s)}]
      BY <1>1, <2>2, Zenon
    <3>2. s # {}
      BY ONLY <2>2, <3>1
    <3> QED
      BY ONLY <3>1, <3>2
  <2>4. /\ Picked(s) \in Elems /\ s \ {Picked(s)} \in SUBSET Elems
        /\ Cardinality(s \ {Picked(s)}) = m - 1 /\ m \in Nat /\ m > 0
    BY <2>2, <2>3, PickedIsMember
  <2>5. g[s \ {Picked(s)}] \in Nat
    BY <2>1, <2>4 DEF Bad
  <2> QED
    BY <2>2, <2>3, <2>4, <2>5
<1>3. Cardinality(Elems) \in Nat
  BY FS_CardinalityType
<1> QED
  BY <1>2, <1>3

LEMMA BitOrIsNatural ==
    ASSUME NEW a, NEW b, NEW w \in Nat, w <= Bits(Size32 + Size64)
    PROVE  BitOr(a, b, w) \in Nat
<1> DEFINE Elems == {k \in 0 .. w - 1 : (a \div 2 ^ k) % 2 = 1 \/ (b \div 2 ^ k) % 2 = 1}
           v == [k \in Elems |-> 2 ^ k]
           P(g) == g = [s \in SUBSET Elems |->
                          IF s = {} THEN 0
                          ELSE 2 ^ (CHOOSE x \in s : TRUE) + g[s \ {CHOOSE x \in s : TRUE}]]
<1>0. Elems \subseteq 0 .. w - 1
  OBVIOUS
<1>1. BitOr(a, b, w) = (CHOOSE g : P(g))[Elems]
  BY Zenon DEF BitOr, MapThenSumSet, MapThenFoldSet
<1> HIDE DEF Elems
<1>2. IsFiniteSet(Elems)
  <2>1. IsFiniteSet(0 .. w - 1)
    BY FS_Interval
  <2> QED
    BY <1>0, <2>1, FS_Subset
<1>3. v \in [Elems -> Nat]
  <2>1. Bits(Size32 + Size64) \in Nat
    BY CodecAssumption DEF Bits
  <2>2. Elems \subseteq 0 .. Bits(Size32 + Size64)
    BY <1>0, <2>1
  <2> QED
    BY <2>2, PowersArePositive
<1>4. ASSUME NEW g
      PROVE  P(g) <=> SumsOver(g, v, SUBSET Elems)
  <2>1. \A s \in SUBSET Elems : s # {} => v[Picked(s)] = 2 ^ (CHOOSE x \in s : TRUE)
    BY DEF Picked
  <2>2. [s \in SUBSET Elems |->
           IF s = {} THEN 0
           ELSE 2 ^ (CHOOSE x \in s : TRUE) + g[s \ {CHOOSE x \in s : TRUE}]]
        = [s \in SUBSET Elems |-> IF s = {} THEN 0 ELSE v[Picked(s)] + g[s \ {Picked(s)}]]
    BY <2>1 DEF Picked
  <2> QED
    BY <2>2, Zenon DEF SumsOver
<1> HIDE DEF P, v
<1>5. \E g : P(g)
  BY <1>2, <1>3, <1>4, SumExists
<1>6. P(CHOOSE g : P(g))
  BY <1>5, Zenon
<1>7. SumsOver(CHOOSE g : P(g), v, SUBSET Elems)
  BY <1>4, <1>6, Zenon
<1> QED
  BY <1>1, <1>2, <1>3, <1>7, SumIsNatural

LEMMA FixedValueIsNatural ==
    ASSUME NEW bs \in Seq(Byte), Len(bs) <= Size16 + Size32 + Size64, NEW e \in BOOLEAN
    PROVE  FixedValue(bs, e) \in Nat
<1> DEFINE low == IF e THEN bs ELSE Reverse(bs)
<1>0. low \in Seq(Byte) /\ Len(low) = Len(bs)
  BY DEF Reverse
<1>a. FixedValue(bs, e) = MapThenSumSet(LAMBDA i : low[i] * (2 * Cont) ^ (i - 1), DOMAIN low)
  BY DEF FixedValue
<1> HIDE DEF low
<1> DEFINE Elems == DOMAIN low
           v == [k \in Elems |-> low[k] * (2 * Cont) ^ (k - 1)]
           P(g) == g = [s \in SUBSET Elems |->
                          IF s = {} THEN 0
                          ELSE low[CHOOSE x \in s : TRUE] * (2 * Cont) ^ ((CHOOSE x \in s : TRUE) - 1)
                                + g[s \ {CHOOSE x \in s : TRUE}]]
<1>1. FixedValue(bs, e) = (CHOOSE g : P(g))[Elems]
  BY <1>a, Zenon DEF MapThenSumSet, MapThenFoldSet
<1>b. Elems = 1 .. Len(bs)
  BY <1>0
<1>2. IsFiniteSet(Elems)
  BY <1>b, FS_Interval
<1>3. v \in [Elems -> Nat]
  <2>1. ASSUME NEW k \in Elems
        PROVE  low[k] * (2 * Cont) ^ (k - 1) \in Nat
    <3>1. low[k] \in Byte /\ k - 1 \in 0 .. Size16 + Size32 + Size64
      BY <1>0, <1>b, CodecAssumption
    <3>2. low[k] \in Nat /\ (2 * Cont) ^ (k - 1) \in Nat
      BY <3>1, PowersArePositive DEF Byte
    <3> DEFINE m == (2 * Cont) ^ (k - 1)
    <3>3. m \in Nat
      BY <3>2
    <3> HIDE DEF m
    <3>4. low[k] * m \in Nat
      BY <3>2, <3>3
    <3> QED
      BY <3>4 DEF m
  <2> QED
    BY <2>1
<1> HIDE DEF Elems
<1>4. ASSUME NEW g
      PROVE  P(g) <=> SumsOver(g, v, SUBSET Elems)
  <2>1. \A s \in SUBSET Elems : s # {} =>
          v[Picked(s)] = low[CHOOSE x \in s : TRUE] * (2 * Cont) ^ ((CHOOSE x \in s : TRUE) - 1)
    BY DEF Picked
  <2> DEFINE u(s) == low[CHOOSE x \in s : TRUE] * (2 * Cont) ^ ((CHOOSE x \in s : TRUE) - 1)
  <2> HIDE DEF u
  <2>2. [s \in SUBSET Elems |->
           IF s = {} THEN 0 ELSE u(s) + g[s \ {CHOOSE x \in s : TRUE}]]
        = [s \in SUBSET Elems |-> IF s = {} THEN 0 ELSE v[Picked(s)] + g[s \ {Picked(s)}]]
    BY <2>1 DEF Picked, u
  <2> QED
    BY <2>2, Zenon DEF SumsOver, u
<1> HIDE DEF P, v
<1>5. \E g : P(g)
  BY <1>2, <1>3, <1>4, SumExists
<1>6. P(CHOOSE g : P(g))
  BY <1>5, Zenon
<1>7. SumsOver(CHOOSE g : P(g), v, SUBSET Elems)
  BY <1>4, <1>6, Zenon
<1> QED
  BY <1>1, <1>2, <1>3, <1>7, SumIsNatural

-----------------------------------------------------------------------------
(* ByteArray: the chain of nodes, the cursors and the buffer they implement. *)

\* Every natural is a number of whole blocks and a rest.
LEMMA BlockOf ==
    ASSUME NEW b \in Nat \ {0}, NEW n \in Nat
    PROVE  /\ n \div b \in Nat /\ n % b \in 0 .. b - 1
           /\ n = (n \div b) * b + (n % b) /\ (n \div b) * b \in Nat
<1>1. n \div b \in Nat /\ n % b \in 0 .. b - 1 /\ n = (n \div b) * b + (n % b)
  OBVIOUS
<1> DEFINE q == n \div b
<1>2. q \in Nat
  BY <1>1
<1> HIDE DEF q
<1>3. q * b \in Nat
  BY <1>2
<1> QED
  BY <1>1, <1>3 DEF q

LEMMA Product ==
    ASSUME NEW b \in Nat \ {0}, NEW x \in Nat, NEW y \in Nat
    PROVE  /\ x * b \in Nat
           /\ x <= y <=> x * b <= y * b
           /\ x < y <=> x * b + b <= y * b
           /\ (x + 1) * b = x * b + b
           /\ y < x => (y - x) * b = y * b - x * b
<1>1. x * b \in Nat /\ y * b \in Nat /\ (x + 1) * b = x * b + b
  OBVIOUS
<1>2. ASSUME x < y PROVE x * b + b <= y * b
  <2>1. PICK d \in Nat : y = (x + 1) + d
    <3>1. y - (x + 1) \in Nat /\ y = (x + 1) + (y - (x + 1))
      BY <1>2
    <3> QED
      BY <3>1
  <2>2. y * b = (x + 1) * b + d * b /\ d * b \in Nat
    BY <2>1
  <2> QED
    BY <1>1, <2>2
<1>3. ASSUME y < x PROVE y * b + b <= x * b
  <2>1. PICK d \in Nat : x = (y + 1) + d
    <3>1. x - (y + 1) \in Nat /\ x = (y + 1) + (x - (y + 1))
      BY <1>3
    <3> QED
      BY <3>1
  <2>2. x * b = (y + 1) * b + d * b /\ d * b \in Nat /\ (y + 1) * b = y * b + b
    BY <2>1
  <2> QED
    BY <1>1, <2>2
<1>4. (y - x) * b = y * b - x * b
  OBVIOUS
<1>5. x = y => x * b = y * b
  OBVIOUS
<1> DEFINE xb == x * b
           yb == y * b
<1>6. xb \in Nat /\ yb \in Nat
  BY <1>1
<1>7. /\ x < y => xb + b <= yb
      /\ y < x => yb + b <= xb
      /\ x = y => xb = yb
  BY <1>2, <1>3, <1>5
<1> HIDE DEF xb, yb
<1>8. (x <= y <=> xb <= yb) /\ (x < y <=> xb + b <= yb)
  BY <1>6, <1>7
<1> QED
  BY <1>1, <1>4, <1>8 DEF xb, yb

\* And in one way only.
LEMMA BlockIs ==
    ASSUME NEW b \in Nat \ {0}, NEW q \in Nat, NEW r \in 0 .. b - 1
    PROVE  q * b + r \in Nat /\ (q * b + r) \div b = q /\ (q * b + r) % b = r
<1> DEFINE n == q * b + r
           p == n \div b
<1>1. q * b \in Nat /\ n \in Nat
  OBVIOUS
<1>2. p \in Nat /\ n % b \in 0 .. b - 1 /\ n = p * b + (n % b) /\ p * b \in Nat
  BY <1>1, BlockOf, Zenon
<1> HIDE DEF p
<1>3. CASE p < q
  <2>1. p * b + b <= q * b
    BY <1>2, <1>3, Product
  <2> QED
    BY <1>1, <1>2, <2>1
<1>4. CASE q < p
  <2>1. q * b + b <= p * b
    BY <1>2, <1>4, Product
  <2> QED
    BY <1>1, <1>2, <2>1
<1>5. CASE p = q
  BY <1>1, <1>2, <1>5 DEF p
<1> QED
  BY <1>2, <1>3, <1>4, <1>5

\* The block of position p in a list of n blocks, 0 at its end.
BlockAt(p, n) == IF p = n * BaseSize THEN 0 ELSE p \div BaseSize + 1

LEMMA BlockAtBound ==
    ASSUME NEW n \in Nat, NEW p \in Nat, p <= n * BaseSize
    PROVE  /\ n * BaseSize \in Nat
           /\ p = n * BaseSize => p \div BaseSize = n /\ p % BaseSize = 0
           /\ p < n * BaseSize => p \div BaseSize < n
           /\ BlockAt(p, n) \in 0 .. n
<1> DEFINE b == BaseSize
           q == p \div b
<1>1. b \in Nat \ {0}
  BY ByteArrayAssumption
<1>2. q \in Nat /\ p % b \in 0 .. b - 1 /\ p = q * b + (p % b) /\ q * b \in Nat
  BY <1>1, BlockOf, Zenon
<1>3. n * b \in Nat
  BY <1>1
<1>4. p = n * b => q = n /\ p % b = 0
  BY <1>1, <1>3, BlockIs
<1>5. p < n * b => q < n
  <2> SUFFICES ASSUME p < n * b, ~(q < n) PROVE FALSE
    OBVIOUS
  <2>1. n <= q
    BY <1>2
  <2> HIDE DEF b, q
  <2>2. n * b <= q * b
    BY <1>1, <1>2, <2>1, Product
  <2> QED
    BY <1>2, <1>3, <2>2
<1> QED
  BY <1>2, <1>3, <1>4, <1>5 DEF BlockAt

\* n further bytes in the block of p: the block stays, or the next one follows.
LEMMA Advance ==
    ASSUME NEW len \in Nat, NEW p \in Nat, p < len * BaseSize,
           NEW n \in Nat, (p % BaseSize) + n <= BaseSize
    PROVE  /\ p + n <= len * BaseSize
           /\ (p % BaseSize) + n = BaseSize =>
                /\ (p + n) % BaseSize = 0
                /\ BlockAt(p + n, len) = IF BlockAt(p, len) < len THEN BlockAt(p, len) + 1 ELSE 0
           /\ (p % BaseSize) + n < BaseSize =>
                BlockAt(p + n, len) = BlockAt(p, len) /\ (p + n) % BaseSize = (p % BaseSize) + n
<1> DEFINE b == BaseSize
           q == p \div b
           r == p % b
<1>1. b \in Nat \ {0} /\ len * b \in Nat
  BY ByteArrayAssumption
<1>2. q \in Nat /\ r \in 0 .. b - 1 /\ p = q * b + r /\ q * b \in Nat
  BY <1>1, BlockOf, Zenon
<1>3. q < len /\ BlockAt(p, len) = q + 1
  <2>1. p <= len * b /\ p # len * b
    BY <1>1
  <2>2. p \div BaseSize < len
    BY <2>1, BlockAtBound
  <2> QED
    BY <2>1, <2>2 DEF BlockAt
<1> HIDE DEF q, r, b
<1>4. q * b + b <= len * b /\ (q + 1) * b = q * b + b
  BY <1>1, <1>2, <1>3, Product
<1>5. p + n <= len * b
  <2>1. r + n <= b
    BY DEF b, r
  <2> QED
    BY <1>1, <1>2, <1>4, <2>1
<1>6. ASSUME r + n = b
      PROVE  /\ (p + n) % b = 0
             /\ BlockAt(p + n, len) = IF q + 1 < len THEN q + 2 ELSE 0
  <2>1. p + n = (q + 1) * b + 0
    BY <1>1, <1>2, <1>4, <1>6
  <2>2. (p + n) \div b = q + 1 /\ (p + n) % b = 0
    <3>1. q + 1 \in Nat /\ 0 \in 0 .. b - 1
      BY <1>1, <1>2
    <3>2. ((q + 1) * b + 0) \div b = q + 1 /\ ((q + 1) * b + 0) % b = 0
      BY <3>1, <1>1, BlockIs, Zenon
    <3> QED
      BY <2>1, <3>2, Zenon
  <2>3. q + 1 < len => (q + 1) * b + b <= len * b
    BY <1>1, <1>2, Product
  <2>4. p + n = len * b <=> ~(q + 1 < len)
    BY <2>1, <2>3, <1>1, <1>2, <1>3, <1>4
  <2> QED
    BY <2>2, <2>4, <1>2, <1>3 DEF BlockAt, b
<1>7. ASSUME r + n < b
      PROVE  BlockAt(p + n, len) = q + 1 /\ (p + n) % b = r + n
  <2>1. p + n = q * b + (r + n) /\ r + n \in 0 .. b - 1
    BY <1>1, <1>2, <1>7
  <2>2. (p + n) \div b = q /\ (p + n) % b = r + n
    <3>1. (q * b + (r + n)) \div b = q /\ (q * b + (r + n)) % b = r + n
      BY <2>1, <1>1, <1>2, BlockIs, Zenon
    <3> QED
      BY <2>1, <3>1, Zenon
  <2>3. p + n # len * b
    BY <2>1, <1>1, <1>2, <1>4
  <2> QED
    BY <2>2, <2>3 DEF BlockAt, b
<1> QED
  BY <1>2, <1>3, <1>5, <1>6, <1>7 DEF b, r

\* setPosition ends on the block of the position.
LEMMA CurAtIs ==
    ASSUME NEW list \in Seq([1 .. BaseSize -> Byte]), Len(list) > 0,
           NEW v \in Nat, v <= Len(list) * BaseSize
    PROVE  CurAt(list, v) = BlockAt(v, Len(list))
<1> DEFINE b == BaseSize
           len == Len(list)
           turns == IF v = 0 THEN 0 ELSE (v - 1) \div b
<1>1. b \in Nat \ {0} /\ len \in Nat /\ len > 0 /\ len * b \in Nat
  BY ByteArrayAssumption
<1>2. CurAt(list, v) = IF v - turns * b = b THEN NextBlock(list, turns + 1) ELSE turns + 1
  BY DEF CurAt
<1>3. CASE v = 0
  <2>0. 0 <= len * b - b
    <3>1. 0 * b + b <= len * b
      BY <1>1, Product
    <3> QED
      BY <3>1, <1>1
  <2>1. turns = 0 /\ v - turns * b = 0
    BY <1>1, <1>3
  <2>2. 0 \div b = 0
    <3>1. (0 * b + 0) \div b = 0 /\ 0 * b + 0 = 0
      BY <1>1, BlockIs
    <3> QED
      BY <3>1
  <2> QED
    BY <2>0, <2>1, <2>2, <1>1, <1>2, <1>3 DEF BlockAt
<1>4. CASE v > 0
  <2>0. v - 1 \in Nat /\ turns = (v - 1) \div b
    BY <1>4
  <2>1. /\ turns \in Nat /\ (v - 1) % b \in 0 .. b - 1 /\ turns * b \in Nat
        /\ v - 1 = turns * b + ((v - 1) % b)
    BY <1>1, <1>4, <2>0, BlockOf, Zenon
  <2>2. v - 1 < len * b /\ (v - 1) + 1 = v
    BY <1>1, <1>4
  <2>3. BlockAt(v - 1, len) = turns + 1
    BY <2>2, <1>1, <1>4 DEF BlockAt
  <2>4. /\ ((v - 1) % b) + 1 = b =>
             BlockAt(v, len) = IF BlockAt(v - 1, len) < len THEN BlockAt(v - 1, len) + 1 ELSE 0
        /\ ((v - 1) % b) + 1 < b => BlockAt(v, len) = BlockAt(v - 1, len)
    <3>1. /\ ((v - 1) % b) + 1 <= b /\ v - 1 \in Nat /\ 1 \in Nat
      BY <2>0, <2>1, <1>1
    <3> QED
      BY <3>1, <2>2, <1>1, Advance
  <2>5. v - turns * b = ((v - 1) % b) + 1
    BY <2>1, <1>4
  <2> HIDE DEF turns
  <2> QED
    BY <2>1, <2>3, <2>4, <2>5, <1>1, <1>2 DEF NextBlock
<1> QED
  BY <1>3, <1>4

Blocks == Seq([1 .. BaseSize -> Byte])

\* The list, the capacity and m_cur fit together.
ArrayShape ==
    /\ m_position \in Nat /\ m_size \in Nat /\ m_capacity \in Nat
    /\ blocks \in Blocks /\ Len(blocks) > 0
    /\ m_capacity = Len(blocks) * BaseSize
    /\ m_position <= m_capacity /\ m_size <= m_capacity
    /\ m_cur = BlockAt(m_position, Len(blocks))

\* addCapacity(need) appends whole blocks, enough for need bytes at the
\* position, and m_cur is the block of the position again.
LEMMA Grows ==
    ASSUME ArrayShape, NEW need \in Nat, NEW fill \in Fills
    PROVE  LET grown == AddCapacity(need, fill)
           IN  /\ grown.blocks \in Blocks /\ Len(grown.blocks) >= Len(blocks)
               /\ \A i \in 1 .. Len(blocks) : grown.blocks[i] = blocks[i]
               /\ grown.cap \in Nat /\ grown.cap = Len(grown.blocks) * BaseSize
               /\ grown.cap >= m_position + need /\ grown.cap >= m_capacity
               /\ grown.cur = BlockAt(m_position, Len(grown.blocks))
<1> DEFINE b == BaseSize
           old_cap == m_capacity - m_position
           lack == need - old_cap
           count == lack \div b + (IF lack % b # 0 THEN 1 ELSE 0)
           grown == AddCapacity(need, fill)
           more == [i \in 1 .. count |-> NewBlock(fill)]
<1>1. b \in Nat \ {0} /\ old_cap \in Nat /\ m_capacity = m_position + old_cap
  BY ByteArrayAssumption DEF ArrayShape
<1>2. CASE need = 0 \/ old_cap > need
  <2>1. grown = [blocks |-> blocks, cap |-> m_capacity, cur |-> m_cur]
    BY <1>2 DEF AddCapacity
  <2> QED
    BY <2>1, <1>1, <1>2 DEF ArrayShape
<1>3. CASE ~(need = 0 \/ old_cap > need)
  <2>1. grown = [blocks |-> blocks \o more, cap |-> m_capacity + count * b,
                 cur |-> IF old_cap # 0 THEN m_cur ELSE IF count > 0 THEN Len(blocks) + 1 ELSE 0]
    BY <1>3 DEF AddCapacity
  <2>2. lack \in Nat /\ m_position + need = m_capacity + lack
    BY <1>1, <1>3 DEF ArrayShape
  <2> HIDE DEF lack
  <2>3. count \in Nat /\ count * b \in Nat /\ count * b >= lack
    <3> DEFINE q == lack \div b
    <3>1. q \in Nat /\ lack % b \in 0 .. b - 1 /\ lack = q * b + (lack % b) /\ q * b \in Nat
      BY <1>1, <2>2, BlockOf, Zenon
    <3> HIDE DEF q
    <3>2. (q + 1) * b = q * b + b
      BY <1>1, <3>1
    <3>3. CASE lack % b # 0
      <4>1. count = q + 1
        BY <3>3 DEF q
      <4> QED
        BY <4>1, <3>1, <3>2, <1>1
    <3>4. CASE lack % b = 0
      <4>1. count = q
        BY <3>4, <3>1 DEF q
      <4> HIDE DEF count
      <4>2. lack = q * b
        BY <3>1, <3>4
      <4> QED
        BY <4>1, <4>2, <3>1
    <3> QED
      BY <3>3, <3>4
  <2> HIDE DEF count
  <2>4. more \in Blocks /\ Len(more) = count
    <3>1. NewBlock(fill) \in [1 .. b -> Byte]
      BY ByteArrayAssumption DEF NewBlock
    <3> QED
      BY <2>3, <3>1 DEF Blocks
  <2> HIDE DEF more
  <2>5. /\ grown.blocks \in Blocks /\ Len(grown.blocks) = Len(blocks) + count
        /\ \A i \in 1 .. Len(blocks) : grown.blocks[i] = blocks[i]
    <3>1. grown.blocks = blocks \o more
      BY <2>1
    <3>2. blocks \in Seq([1 .. b -> Byte]) /\ more \in Seq([1 .. b -> Byte])
      BY <2>4 DEF ArrayShape, Blocks
    <3> HIDE DEF grown
    <3>3. /\ blocks \o more \in Seq([1 .. b -> Byte]) /\ Len(blocks \o more) = Len(blocks) + Len(more)
          /\ \A i \in 1 .. Len(blocks) : (blocks \o more)[i] = blocks[i]
      BY <3>2
    <3> QED
      BY <3>1, <3>3, <2>4 DEF Blocks
  <2>6. (Len(blocks) + count) * b = Len(blocks) * b + count * b
    BY <1>1, <2>3 DEF ArrayShape, Blocks
  <2>7. /\ grown.cap \in Nat /\ grown.cap = Len(grown.blocks) * b
        /\ grown.cap >= m_position + need /\ grown.cap >= m_capacity
    <3>1. grown.cap = m_capacity + count * b
      BY <2>1
    <3>2. Len(grown.blocks) = Len(blocks) + count /\ m_capacity = Len(blocks) * b /\ m_capacity \in Nat
      BY <2>5 DEF ArrayShape
    <3> HIDE DEF grown, lack, count
    <3>3. grown.cap = Len(grown.blocks) * b
      BY <3>1, <3>2, <2>6
    <3> QED
      BY <3>1, <3>2, <3>3, <2>2, <2>3
  <2>8. grown.cur = BlockAt(m_position, Len(grown.blocks))
    <3>1. CASE old_cap # 0
      <4>1. m_position # m_capacity /\ m_position # grown.cap
        BY <3>1, <1>1, <2>7 DEF ArrayShape
      <4>2. grown.cur = m_cur
        BY <3>1, <2>1
      <4>3. m_cur = m_position \div b + 1
        BY <4>1 DEF ArrayShape, BlockAt
      <4> QED
        BY <4>1, <4>2, <4>3, <2>7 DEF BlockAt
    <3>2. CASE old_cap = 0
      <4>1. m_position = Len(blocks) * b /\ lack = need /\ need > 0
        BY <3>2, <1>1, <1>3, <2>2 DEF ArrayShape
      <4>2. count > 0
        <5>1. count = 0 => count * b = 0
          BY <1>1
        <5> QED
          BY <5>1, <4>1, <2>3
      <4>3. grown.cur = Len(blocks) + 1
        BY <2>1, <3>2, <4>2
      <4>4. m_position \div b = Len(blocks)
        BY <4>1, BlockAtBound DEF ArrayShape, Blocks
      <4>5. m_position # grown.cap
        BY <4>1, <2>2, <2>7 DEF ArrayShape
      <4> QED
        BY <4>3, <4>4, <4>5, <2>7 DEF BlockAt
    <3> QED
      BY <3>1, <3>2
  <2> QED
    BY <2>5, <2>7, <2>8, <2>3 DEF ArrayShape, Blocks
<1> QED
  BY <1>2, <1>3

\* Where a position of the list lies.
LEMMA PlaceOf ==
    ASSUME NEW n \in Nat, NEW i \in 1 .. n * BaseSize
    PROVE  /\ i - 1 \in Nat
           /\ (i - 1) \div BaseSize \in Nat
           /\ (i - 1) \div BaseSize + 1 \in 1 .. n
           /\ ((i - 1) % BaseSize) + 1 \in 1 .. BaseSize
           /\ i - 1 = ((i - 1) \div BaseSize) * BaseSize + ((i - 1) % BaseSize)
<1> DEFINE b == BaseSize
           q == (i - 1) \div b
<1>1. b \in Nat \ {0} /\ n * b \in Nat /\ i - 1 \in Nat /\ i - 1 < n * b /\ i - 1 <= n * b
  BY ByteArrayAssumption
<1>2. q \in Nat /\ (i - 1) % b \in 0 .. b - 1 /\ i - 1 = q * b + ((i - 1) % b)
  BY <1>1, BlockOf, Zenon
<1>3. q < n
  BY <1>1, BlockAtBound
<1> HIDE DEF q
<1>4. q + 1 \in 1 .. n /\ ((i - 1) % b) + 1 \in 1 .. b
  BY <1>1, <1>2, <1>3
<1> QED
  BY <1>1, <1>2, <1>4 DEF q

LEMMA ByteAtIs ==
    ASSUME NEW list \in Blocks, NEW i \in 1 .. Len(list) * BaseSize
    PROVE  /\ ByteAt(list, i) \in Byte
           /\ \A other : (\A j \in 1 .. Len(list) : other[j] = list[j])
                           => ByteAt(other, i) = ByteAt(list, i)
<1> DEFINE q == (i - 1) \div BaseSize + 1
           r == ((i - 1) % BaseSize) + 1
<1>1. Len(list) \in Nat
  BY DEF Blocks
<1>2. q \in 1 .. Len(list) /\ r \in 1 .. BaseSize
  BY <1>1, PlaceOf
<1>3. \A l : ByteAt(l, i) = l[q][r]
  BY DEF ByteAt
<1> HIDE DEF q, r
<1>4. list[q] \in [1 .. BaseSize -> Byte]
  BY <1>2 DEF Blocks
<1> QED
  BY <1>2, <1>3, <1>4

LEMMA StoredType ==
    ASSUME NEW list \in Blocks, NEW cur, NEW npos, NEW data \in Seq(Byte)
    PROVE  /\ Stored(list, cur, npos, data) \in Blocks
           /\ Len(Stored(list, cur, npos, data)) = Len(list)
<1> DEFINE new(k, i) == LET n == (k - cur) * BaseSize + i - npos
                        IN  IF n \in 1 .. Len(data) THEN data[n] ELSE list[k][i]
<1>1. Len(list) \in Nat /\ list \in Seq([1 .. BaseSize -> Byte])
  BY DEF Blocks
<1>2. ASSUME NEW k \in 1 .. Len(list), NEW i \in 1 .. BaseSize
      PROVE  new(k, i) \in Byte
  <2>0. list[k] \in [1 .. BaseSize -> Byte]
    BY <1>1
  <2>1. list[k][i] \in Byte
    BY <2>0
  <2>2. \A n \in 1 .. Len(data) : data[n] \in Byte
    OBVIOUS
  <2> QED
    BY <2>1, <2>2
<1>3. Stored(list, cur, npos, data) = [k \in 1 .. Len(list) |-> [i \in 1 .. BaseSize |-> new(k, i)]]
  BY DEF Stored
<1> HIDE DEF new
<1>4. \A k \in 1 .. Len(list) : [i \in 1 .. BaseSize |-> new(k, i)] \in [1 .. BaseSize -> Byte]
  BY <1>2
<1> DEFINE f(k) == [i \in 1 .. BaseSize |-> new(k, i)]
<1>5. \A k \in 1 .. Len(list) : f(k) \in [1 .. BaseSize -> Byte]
  BY <1>4
<1>6. Stored(list, cur, npos, data) = [k \in 1 .. Len(list) |-> f(k)]
  BY <1>3
<1> HIDE DEF f
<1> QED
  BY <1>1, <1>5, <1>6 DEF Blocks

\* What Stored lays over the list at the block and offset of position p is
\* found again behind position p, and the rest is as before.
LEMMA StoredAt ==
    ASSUME NEW list \in Blocks, NEW p \in Nat, NEW data \in Seq(Byte),
           NEW i \in 1 .. Len(list) * BaseSize
    PROVE  ByteAt(Stored(list, p \div BaseSize + 1, p % BaseSize, data), i)
             = IF i - p \in 1 .. Len(data) THEN data[i - p] ELSE ByteAt(list, i)
<1> DEFINE b == BaseSize
           q == (i - 1) \div b
           r == (i - 1) % b
           pq == p \div b
           pr == p % b
           k == ((q + 1) - (pq + 1)) * b + (r + 1) - pr
<1>1. Len(list) \in Nat /\ b \in Nat \ {0}
  BY ByteArrayAssumption DEF Blocks
<1>2. q + 1 \in 1 .. Len(list) /\ r + 1 \in 1 .. b /\ i - 1 = q * b + r /\ q \in Nat
  BY <1>1, PlaceOf
<1>3. pq \in Nat /\ pr \in 0 .. b - 1 /\ p = pq * b + pr
  BY <1>1, BlockOf, Zenon
<1>4. Stored(list, pq + 1, pr, data)[q + 1][r + 1] =
        IF k \in 1 .. Len(data) THEN data[k] ELSE list[q + 1][r + 1]
  BY <1>2 DEF Stored
<1>5. k = i - p
  <2> HIDE DEF q, r, pq, pr
  <2>0. b \in Nat /\ q \in Nat /\ pq \in Nat
    BY <1>1, <1>2, <1>3
  <2>1. ((q + 1) - (pq + 1)) * b = q * b - pq * b /\ q * b \in Nat /\ pq * b \in Nat
    BY ONLY <2>0
  <2>2. q * b + r = i - 1 /\ pq * b + pr = p /\ r \in Nat /\ pr \in Nat
    <3>1. q * b + r = i - 1 /\ pq * b + pr = p
      BY <1>2, <1>3, Zenon
    <3>2. pr \in Nat
      BY <1>1, <1>3
    <3>3. r \in Nat
      <4>1. r \in Int
        BY <1>1 DEF r
      <4> QED
        BY <4>1, <1>1, <1>2
    <3> QED
      BY <3>1, <3>2, <3>3
  <2> DEFINE x == q * b
             y == pq * b
  <2>3. k = x - y + (r + 1) - pr /\ x + r = i - 1 /\ y + pr = p /\ x \in Nat /\ y \in Nat
    BY <2>1, <2>2
  <2> HIDE DEF x, y, k
  <2> QED
    BY <2>2, <2>3
<1> QED
  BY <1>4, <1>5 DEF ByteAt

\* What Loaded takes from the block and offset of position p is what lies
\* behind position p.
LEMMA LoadedIs ==
    ASSUME NEW p \in Nat, NEW n \in Nat
    PROVE  Loaded(p \div BaseSize + 1, p % BaseSize, n) = [k \in 1 .. n |-> ByteAt(blocks, p + k)]
<1> DEFINE b == BaseSize
           q == p \div b
           r == p % b
<1>1. b \in Nat \ {0}
  BY ByteArrayAssumption
<1>2. q \in Nat /\ r \in 0 .. b - 1 /\ p = q * b + r /\ q * b \in Nat
  BY <1>1, BlockOf, Zenon
<1>3. ASSUME NEW k \in 1 .. n
      PROVE  ((q + 1) - 1) * b + r + k = p + k
  <2> HIDE DEF q, r
  <2>1. (q + 1) - 1 = q
    BY <1>2
  <2> QED
    BY <2>1, <1>1, <1>2
<1> QED
  BY <1>3 DEF Loaded

\* The records op can be: no operation, a writing one, a reading one.
WriteOps == [kind : {"write"}, field : Fields \cup {[type |-> "raw"]}, at : Nat,
             calls : Seq(Seq(Byte)), buf : Seq(Byte), npos : Nat, ncap : Nat]

ReadOps == [kind : {"read"}, type : Types, of : Types \cup {"data"}, at : Nat,
            step : {"call", "turn", "return"}, size : Nat, buf : Seq(Byte),
            npos : Nat, ncap : Nat, acc : Nat, shift : Nat]

\* A turn of write() is at the position, and what it has left to write fits
\* below the capacity; between the calls the size has caught up.
WritePlace ==
    op.kind = "write" =>
        /\ op.at <= m_position
        /\ op.buf = <<>> => m_position <= m_size
        /\ op.buf # <<>> => /\ op.calls # <<>>
                            /\ op.npos = m_position % BaseSize /\ op.ncap = BaseSize - op.npos
                            /\ m_position + Len(op.buf) <= m_capacity

\* A turn of read() is at the position, and what it has left to read lies
\* below the size; the bytes of an integer are as many as its type has, and
\* in front of the data of a string there is its length.
ReadPlace ==
    op.kind = "read" =>
        /\ op.step = "turn" => /\ op.size > 0
                               /\ op.npos = m_position % BaseSize /\ op.ncap = BaseSize - op.npos
                               /\ m_position + op.size <= m_size
        /\ op.of \in DOMAIN FixedSize =>
             IF op.step = "call" THEN op.size = FixedSize[op.of]
             ELSE Len(op.buf) + op.size = FixedSize[op.of]
        /\ op.type \in DOMAIN LengthType => op.of \in {LengthType[op.type], "data"}

ArrayState ==
    /\ op \in {NoOp} \cup WriteOps \cup ReadOps
    /\ little \in BOOLEAN
    /\ out \in Seq(Byte)
    /\ fault \in {"none", "entry", "loop"}
    /\ \A r \in recs : r.type \in Types /\ r.at \in Nat /\ r.len \in Nat /\ r.at + r.len <= m_capacity

ArrayIInv ==
    /\ ArrayShape /\ ArrayState /\ WritePlace /\ ReadPlace /\ FaultOnlyAtEnd
    /\ op.kind # "write" => m_position <= m_size

LEMMA OpKinds ==
    ASSUME ArrayState
    PROVE  /\ op.kind \in {"none", "write", "read"}
           /\ op.kind = "none" <=> op = NoOp
           /\ op.kind = "write" <=> op \in WriteOps
           /\ op.kind = "read" <=> op \in ReadOps
<1>1. NoOp.kind = "none"
  BY DEF NoOp
<1>2. \A o \in WriteOps : o.kind = "write"
  BY DEF WriteOps
<1>3. \A o \in ReadOps : o.kind = "read"
  BY DEF ReadOps
<1> QED
  BY <1>1, <1>2, <1>3 DEF ArrayState

\* The steps that leave the list, the position and the size alone.
LEMMA SameShape ==
    ASSUME ArrayShape, UNCHANGED array
    PROVE  ArrayShape'
BY DEF ArrayShape, array

LEMMA InitialArray == ArrayInit => ArrayIInv
<1> SUFFICES ASSUME ArrayInit PROVE ArrayIInv
  OBVIOUS
<1>1. PICK fill \in Fills : blocks = <<NewBlock(fill)>>
  BY DEF ArrayInit
<1>2. NewBlock(fill) \in [1 .. BaseSize -> Byte]
  BY ByteArrayAssumption DEF NewBlock
<1>3. blocks \in Blocks /\ Len(blocks) = 1
  BY <1>1, <1>2 DEF Blocks
<1>4. BaseSize \in Nat \ {0} /\ 1 * BaseSize = BaseSize
  BY ByteArrayAssumption
<1>5. BlockAt(0, 1) = 1
  <2>1. (0 * BaseSize + 0) \div BaseSize = 0 /\ 0 * BaseSize + 0 = 0
    BY <1>4, BlockIs
  <2> QED
    BY <1>4, <2>1 DEF BlockAt
<1>6. ArrayShape
  BY <1>3, <1>4, <1>5 DEF ArrayInit, ArrayShape
<1>7. op.kind = "none"
  BY DEF ArrayInit, NoOp
<1>8. ArrayState
  <2>1. op = NoOp /\ little = FALSE /\ out = <<>> /\ fault = "none" /\ recs = {}
    BY DEF ArrayInit
  <2>2. out \in Seq(Byte) /\ \A r \in recs : FALSE
    BY <2>1
  <2> QED
    BY <2>1, <2>2, Zenon DEF ArrayState
<1>9. WritePlace /\ ReadPlace /\ FaultOnlyAtEnd /\ m_position <= m_size
  BY <1>7 DEF ArrayInit, WritePlace, ReadPlace, FaultOnlyAtEnd
<1> QED
  BY <1>6, <1>8, <1>9 DEF ArrayIInv

LEMMA StartsWritingKeeps ==
    ASSUME ArrayIInv, NEW field \in Fields \cup {[type |-> "raw"]}, NEW calls \in Seq(Seq(Byte)),
           StartsWriting(field, calls)
    PROVE  ArrayIInv'
<1>1. ArrayShape' /\ m_position' = m_position /\ m_size' = m_size /\ m_capacity' = m_capacity
  BY SameShape DEF ArrayIInv, StartsWriting, array
<1>2. op.kind = "none" /\ m_position \in Nat /\ m_position <= m_size
  BY DEF ArrayIInv, ArrayShape, StartsWriting, Idle, NoOp
<1>3. op' = [kind |-> "write", field |-> field, at |-> m_position, calls |-> calls,
             buf |-> <<>>, npos |-> 0, ncap |-> 0]
  BY DEF StartsWriting
<1>4. op' \in WriteOps /\ op'.kind = "write" /\ op'.buf = <<>> /\ op'.at = m_position
  BY <1>2, <1>3 DEF WriteOps
<1>5. ArrayState'
  BY <1>1, <1>4 DEF ArrayIInv, ArrayState, StartsWriting, Untouched
<1>6. WritePlace' /\ ReadPlace'
  BY <1>1, <1>2, <1>4 DEF WritePlace, ReadPlace
<1>7. FaultOnlyAtEnd'
  BY <1>1 DEF ArrayIInv, FaultOnlyAtEnd, StartsWriting
<1> QED
  BY <1>1, <1>4, <1>5, <1>6, <1>7 DEF ArrayIInv

LEMMA WriteFieldKeeps ==
    ASSUME ArrayIInv, NEW f \in Fields, WriteField(f)
    PROVE  ArrayIInv'
<1>1. WriteCalls(f.type, f.value, little) \in Seq(Seq(Byte))
  BY ByteArrayAssumption DEF ArrayIInv, ArrayState
<1> QED
  BY <1>1, StartsWritingKeeps DEF WriteField

LEMMA WriteBytesKeeps ==
    ASSUME ArrayIInv, NEW p \in Packets, WriteBytes(p)
    PROVE  ArrayIInv'
<1>1. <<p>> \in Seq(Seq(Byte))
  BY ByteArrayAssumption
<1> QED
  BY <1>1, StartsWritingKeeps DEF WriteBytes

LEMMA ReadFromFileKeeps ==
    ASSUME ArrayIInv, NEW p \in Packets, ReadFromFile(p)
    PROVE  ArrayIInv'
<1> DEFINE b == BaseSize
           piece(i) == SubSeq(p, (i - 1) * b + 1, IF i * b < Len(p) THEN i * b ELSE Len(p))
           n == Len(p) \div b + 1
           calls == [i \in 1 .. n |-> piece(i)]
<1>1. b \in Nat \ {0} /\ p \in Seq(Byte) /\ Len(p) \in Nat
  BY ByteArrayAssumption
<1>2. n \in Nat
  <2>1. Len(p) \div b \in Nat
    BY <1>1, BlockOf, Zenon
  <2> QED
    BY <2>1
<1>3. ASSUME NEW i \in 1 .. n
      PROVE  piece(i) \in Seq(Byte)
  <2> DEFINE from == (i - 1) * b + 1
             to == IF i * b < Len(p) THEN i * b ELSE Len(p)
  <2>0. i \in Nat /\ i - 1 \in Nat
    BY <1>2
  <2>1. from \in Nat /\ from >= 1
    BY <2>0, <1>1
  <2>2. i * b \in Nat
    BY <2>0, <1>1
  <2>3. to \in Nat /\ to <= Len(p)
    BY <2>2, <1>1
  <2> HIDE DEF from, to
  <2>4. SubSeq(p, from, to) \in Seq(Byte)
    BY <2>1, <2>3, <1>1
  <2> QED
    BY <2>4 DEF from, to
<1>4. calls \in Seq(Seq(Byte))
  <2> HIDE DEF piece, n
  <2> QED
    BY <1>2, <1>3
<1>5. StartsWriting([type |-> "raw"], calls)
  BY DEF ReadFromFile
<1> QED
  BY <1>4, <1>5, StartsWritingKeeps

LEMMA WriteCallKeeps ==
    ASSUME ArrayIInv, WriteCall
    PROVE  ArrayIInv'
<1>1. PICK fill \in Fills :
        LET buf == Head(op.calls)
            grown == AddCapacity(Len(buf), fill)
            npos == m_position % BaseSize
        IN  /\ blocks' = grown.blocks
            /\ m_capacity' = grown.cap
            /\ m_cur' = grown.cur
            /\ fault' = IF Len(buf) > 0 /\ grown.cur = 0 THEN "loop" ELSE fault
            /\ op' = IF buf = <<>> THEN [op EXCEPT !.calls = Tail(@)]
                     ELSE [op EXCEPT !.buf = buf, !.npos = npos, !.ncap = BaseSize - npos]
  BY Zenon DEF WriteCall
<1> DEFINE buf == Head(op.calls)
           grown == AddCapacity(Len(buf), fill)
           npos == m_position % BaseSize
<1>2. op \in WriteOps /\ op.kind = "write" /\ op.buf = <<>> /\ op.calls # <<>> /\ fault = "none"
  BY OpKinds DEF ArrayIInv, WriteCall
<1>3. op.calls \in Seq(Seq(Byte)) /\ buf \in Seq(Byte) /\ Len(buf) \in Nat /\ (buf # <<>> => Len(buf) > 0)
      /\ Tail(op.calls) \in Seq(Seq(Byte))
  <2>1. op.calls \in Seq(Seq(Byte))
    BY <1>2 DEF WriteOps
  <2>2. buf \in Seq(Byte) /\ Tail(op.calls) \in Seq(Seq(Byte))
    BY <2>1, <1>2
  <2> HIDE DEF buf
  <2>3. Len(buf) \in Nat /\ (buf # <<>> => Len(buf) > 0)
    BY <2>2
  <2> QED
    BY <2>1, <2>2, <2>3 DEF buf
<1> HIDE DEF buf
<1>4. /\ grown.blocks \in Blocks /\ Len(grown.blocks) >= Len(blocks)
      /\ grown.cap \in Nat /\ grown.cap = Len(grown.blocks) * BaseSize
      /\ grown.cap >= m_position + Len(buf) /\ grown.cap >= m_capacity
      /\ grown.cur = BlockAt(m_position, Len(grown.blocks))
  BY <1>3, Grows DEF ArrayIInv
<1> HIDE DEF grown
<1>5. /\ blocks' = grown.blocks /\ m_capacity' = grown.cap /\ m_cur' = grown.cur
      /\ fault' = IF Len(buf) > 0 /\ grown.cur = 0 THEN "loop" ELSE fault
      /\ op' = IF buf = <<>> THEN [op EXCEPT !.calls = Tail(@)]
               ELSE [op EXCEPT !.buf = buf, !.npos = npos, !.ncap = BaseSize - npos]
  BY <1>1 DEF buf, grown
<1>6. UNCHANGED <<m_position, m_size, little, out, writes, recs>>
  BY DEF WriteCall
<1>7. ArrayShape'
  <2>1. m_position \in Nat /\ m_size \in Nat /\ m_position <= m_capacity /\ m_size <= m_capacity
        /\ m_capacity \in Nat /\ blocks \in Blocks /\ Len(blocks) > 0 /\ Len(blocks) \in Nat
    BY DEF ArrayIInv, ArrayShape, Blocks
  <2>2. Len(grown.blocks) \in Nat
    BY <1>4 DEF Blocks
  <2> QED
    BY <1>4, <1>5, <1>6, <2>1, <2>2 DEF ArrayShape
<1>8. fault' = "none"
  <2>1. ASSUME Len(buf) > 0 PROVE grown.cur # 0
    <3>1. m_position # grown.cap /\ m_position \in Nat
      BY <2>1, <1>3, <1>4 DEF ArrayIInv, ArrayShape
    <3>2. m_position \div BaseSize \in Nat
      BY <3>1, ByteArrayAssumption, BlockOf
    <3> QED
      BY <3>1, <3>2, <1>4 DEF BlockAt
  <2> QED
    BY <2>1, <1>2, <1>5
<1>9. npos \in Nat /\ BaseSize - npos \in Nat
  BY ByteArrayAssumption DEF ArrayIInv, ArrayShape
<1>10. op' \in WriteOps /\ op'.kind = "write" /\ op'.at = op.at
  BY <1>2, <1>3, <1>5, <1>9 DEF WriteOps
<1>11. /\ op'.buf = buf
       /\ buf # <<>> => op'.calls = op.calls /\ op'.npos = npos /\ op'.ncap = BaseSize - npos
  BY <1>2, <1>5 DEF WriteOps
<1>12. WritePlace'
  <2>1. op.at <= m_position /\ m_position <= m_size
    BY <1>2 DEF ArrayIInv, WritePlace
  <2> QED
    BY <2>1, <1>2, <1>4, <1>5, <1>6, <1>10, <1>11 DEF WritePlace
<1>13. ReadPlace' /\ FaultOnlyAtEnd'
  BY <1>8, <1>10 DEF ReadPlace, FaultOnlyAtEnd
<1>14. ArrayState'
  <2>1. \A r \in recs : r.type \in Types /\ r.at \in Nat /\ r.len \in Nat /\ r.at + r.len <= m_capacity'
    BY <1>4, <1>5 DEF ArrayIInv, ArrayState, ArrayShape
  <2> QED
    BY <2>1, <1>6, <1>8, <1>10 DEF ArrayIInv, ArrayState
<1> QED
  BY <1>7, <1>10, <1>12, <1>13, <1>14 DEF ArrayIInv

\* A turn of a loop: n bytes in the block of the position, and m_cur goes on
\* to the next block if they fill it.
LEMMA TurnMoves ==
    ASSUME ArrayShape, m_position < m_capacity, NEW n \in Nat, (m_position % BaseSize) + n <= BaseSize,
           blocks' \in Blocks, Len(blocks') = Len(blocks), m_capacity' = m_capacity,
           m_position' = m_position + n, m_size' \in Nat, m_size' <= m_capacity,
           m_cur' = IF (m_position % BaseSize) + n = BaseSize THEN NextBlock(blocks, m_cur) ELSE m_cur
    PROVE  /\ ArrayShape' /\ m_cur = m_position \div BaseSize + 1
           /\ (m_position % BaseSize) + n = BaseSize => m_position' % BaseSize = 0
           /\ m_position' < m_capacity => m_cur' # 0
<1> DEFINE len == Len(blocks)
           r == m_position % BaseSize
<1>1. len \in Nat /\ m_position \in Nat /\ m_capacity = len * BaseSize /\ m_position < len * BaseSize
      /\ m_capacity \in Nat /\ m_cur = BlockAt(m_position, len) /\ len > 0
  BY DEF ArrayShape, Blocks
<1>2. r \in Int /\ BaseSize \in Nat
  BY <1>1, ByteArrayAssumption
<1>3. /\ m_position + n <= len * BaseSize
      /\ r + n = BaseSize => /\ (m_position + n) % BaseSize = 0
                             /\ BlockAt(m_position + n, len) =
                                  IF BlockAt(m_position, len) < len THEN BlockAt(m_position, len) + 1 ELSE 0
      /\ r + n < BaseSize => BlockAt(m_position + n, len) = BlockAt(m_position, len)
  BY <1>1, Advance
<1>4. m_cur' = BlockAt(m_position + n, len)
  <2> HIDE DEF r
  <2>1. CASE r + n = BaseSize
    BY <2>1, <1>1, <1>3 DEF NextBlock, r
  <2>2. CASE r + n < BaseSize
    BY <2>2, <1>1, <1>2, <1>3 DEF r
  <2> QED
    BY <2>1, <2>2, <1>2 DEF r
<1>5. m_position' \in Nat /\ m_position' <= m_capacity
  BY <1>1, <1>3
<1>6. ArrayShape'
  BY <1>1, <1>4, <1>5 DEF ArrayShape
<1>7. m_position' < m_capacity => m_cur' # 0
  <2>1. m_position' \div BaseSize \in Nat
    BY <1>5, ByteArrayAssumption, BlockOf
  <2> QED
    BY <2>1, <1>1, <1>4, <1>5 DEF BlockAt
<1> QED
  BY <1>1, <1>3, <1>6, <1>7 DEF BlockAt

\* The facts of a turn of write().
LEMMA WriteTurnFacts ==
    ASSUME ArrayIInv, op.kind = "write", op.buf # <<>>
    PROVE  /\ op \in WriteOps /\ op.buf \in Seq(Byte) /\ Len(op.buf) \in Nat \ {0}
           /\ op.calls \in Seq(Seq(Byte)) /\ op.calls # <<>> /\ Tail(op.calls) \in Seq(Seq(Byte))
           /\ op.npos = m_position % BaseSize /\ op.npos \in 0 .. BaseSize - 1
           /\ op.ncap = BaseSize - op.npos /\ op.ncap \in 1 .. BaseSize /\ BaseSize \in Nat \ {0}
           /\ m_position + Len(op.buf) <= m_capacity /\ m_position < m_capacity
           /\ m_position \in Nat /\ m_capacity \in Nat /\ m_size \in Nat /\ m_size <= m_capacity
           /\ op.at \in Nat /\ op.at <= m_position
           /\ blocks \in Blocks /\ m_cur = m_position \div BaseSize + 1
<1>1. op \in WriteOps /\ m_position \in Nat /\ m_capacity \in Nat /\ m_size \in Nat /\ m_size <= m_capacity
      /\ blocks \in Blocks /\ m_cur = BlockAt(m_position, Len(blocks)) /\ m_capacity = Len(blocks) * BaseSize
  BY OpKinds DEF ArrayIInv, ArrayShape
<1>2. op.buf \in Seq(Byte) /\ op.calls \in Seq(Seq(Byte)) /\ op.at \in Nat
  BY <1>1 DEF WriteOps
<1>3. op.calls # <<>> /\ op.npos = m_position % BaseSize /\ op.ncap = BaseSize - op.npos
      /\ m_position + Len(op.buf) <= m_capacity /\ op.at <= m_position
  BY DEF ArrayIInv, WritePlace
<1>4. Len(op.buf) \in Nat \ {0}
  BY <1>2
<1>5. Tail(op.calls) \in Seq(Seq(Byte))
  BY <1>2, <1>3
<1>6. BaseSize \in Nat \ {0} /\ m_position % BaseSize \in 0 .. BaseSize - 1
  BY <1>1, ByteArrayAssumption, BlockOf
<1>7. op.npos \in 0 .. BaseSize - 1 /\ op.ncap \in 1 .. BaseSize
  BY <1>3, <1>6
<1>8. m_position < m_capacity
  BY <1>1, <1>3, <1>4
<1>9. m_cur = m_position \div BaseSize + 1
  BY <1>1, <1>8 DEF BlockAt
<1> QED
  BY <1>1, <1>2, <1>3, <1>4, <1>5, <1>6, <1>7, <1>8, <1>9

LEMMA WriteLastTurnKeeps ==
    ASSUME ArrayIInv, WriteLastTurn
    PROVE  ArrayIInv'
<1> DEFINE n == Len(op.buf)
           r == m_position % BaseSize
<1>0. op.kind = "write" /\ op.buf # <<>> /\ fault = "none" /\ op.ncap >= n
  BY DEF WriteLastTurn
<1>1. /\ op \in WriteOps /\ op.buf \in Seq(Byte) /\ n \in Nat \ {0}
      /\ Tail(op.calls) \in Seq(Seq(Byte))
      /\ op.npos = r /\ r \in 0 .. BaseSize - 1 /\ op.ncap = BaseSize - r /\ BaseSize \in Nat \ {0}
      /\ m_position + n <= m_capacity /\ m_position < m_capacity
      /\ m_position \in Nat /\ m_capacity \in Nat /\ m_size \in Nat /\ m_size <= m_capacity
      /\ op.at \in Nat /\ op.at <= m_position /\ blocks \in Blocks
  BY <1>0, WriteTurnFacts
<1>2. /\ blocks' = Stored(blocks, m_cur, op.npos, op.buf)
      /\ m_cur' = IF r + n = BaseSize THEN NextBlock(blocks, m_cur) ELSE m_cur
      /\ m_position' = m_position + n
      /\ m_size' = IF m_position' > m_size THEN m_position' ELSE m_size
      /\ op' = [op EXCEPT !.buf = <<>>, !.calls = Tail(@)]
      /\ out' = <<>>
      /\ UNCHANGED <<m_capacity, little, fault, writes, recs>>
  BY <1>1 DEF WriteLastTurn
<1>3. blocks' \in Blocks /\ Len(blocks') = Len(blocks)
  BY <1>1, <1>2, StoredType
<1>5. r + n <= BaseSize
  BY <1>0, <1>1
<1> HIDE DEF n
<1>4. m_size' \in Nat /\ m_size' <= m_capacity /\ m_position' <= m_size'
  <2>0. m_position' = m_position + n /\ m_size' = IF m_position' > m_size THEN m_position' ELSE m_size
    BY <1>2
  <2>1. n \in Nat /\ m_position \in Nat /\ m_position + n <= m_capacity /\ m_size \in Nat /\ m_size <= m_capacity
    BY <1>1
  <2> QED
    BY ONLY <2>0, <2>1
<1>6. ArrayShape'
  BY <1>1, <1>2, <1>3, <1>4, <1>5, TurnMoves DEF ArrayIInv
<1>7. op' \in WriteOps /\ op'.kind = "write" /\ op'.at = op.at /\ op'.buf = <<>>
  <2>1. <<>> \in Seq(Byte)
    OBVIOUS
  <2>2. op' = [op EXCEPT !.buf = <<>>, !.calls = Tail(op.calls)]
    BY <1>2
  <2> QED
    BY <2>1, <2>2, <1>1 DEF WriteOps
<1>8. WritePlace' /\ ReadPlace' /\ FaultOnlyAtEnd'
  <2>0. op.at \in Nat /\ m_position \in Nat /\ op.at <= m_position /\ n \in Nat
    BY <1>1
  <2>1. op'.at <= m_position'
    BY ONLY <2>0, <1>2, <1>7
  <2>2. WritePlace'
    BY <2>1, <1>4, <1>7 DEF WritePlace
  <2> QED
    BY <2>2, <1>0, <1>2, <1>7 DEF ReadPlace, FaultOnlyAtEnd
<1>9. ArrayState'
  <2>1. out' \in Seq(Byte)
    BY <1>2
  <2> QED
    BY <2>1, <1>2, <1>7 DEF ArrayIInv, ArrayState
<1> QED
  BY <1>4, <1>6, <1>7, <1>8, <1>9 DEF ArrayIInv

LEMMA WriteFillTurnKeeps ==
    ASSUME ArrayIInv, WriteFillTurn
    PROVE  ArrayIInv'
<1> DEFINE n == op.ncap
           r == m_position % BaseSize
           rest == SubSeq(op.buf, n + 1, Len(op.buf))
<1>0. op.kind = "write" /\ op.buf # <<>> /\ fault = "none" /\ n < Len(op.buf)
  BY DEF WriteFillTurn
<1>1. /\ op \in WriteOps /\ op.buf \in Seq(Byte) /\ Len(op.buf) \in Nat
      /\ op.calls # <<>>
      /\ op.npos = r /\ r \in 0 .. BaseSize - 1 /\ n = BaseSize - r /\ BaseSize \in Nat \ {0}
      /\ n \in 1 .. BaseSize
      /\ m_position + Len(op.buf) <= m_capacity /\ m_position < m_capacity
      /\ m_position \in Nat /\ m_capacity \in Nat /\ m_size \in Nat /\ m_size <= m_capacity
      /\ op.at \in Nat /\ op.at <= m_position /\ blocks \in Blocks
  BY <1>0, WriteTurnFacts
<1>2. /\ blocks' = Stored(blocks, m_cur, op.npos, SubSeq(op.buf, 1, n))
      /\ m_position' = m_position + n
      /\ m_cur' = NextBlock(blocks, m_cur)
      /\ fault' = IF m_cur' = 0 THEN "loop" ELSE fault
      /\ op' = [op EXCEPT !.buf = SubSeq(@, n + 1, Len(@)), !.npos = 0, !.ncap = BaseSize]
      /\ out' = <<>>
      /\ UNCHANGED <<m_size, m_capacity, little, writes, recs>>
  BY DEF WriteFillTurn
<1>3. SubSeq(op.buf, 1, n) \in Seq(Byte) /\ rest \in Seq(Byte) /\ Len(rest) = Len(op.buf) - n
  <2>1. n \in Nat /\ n < Len(op.buf) /\ op.buf \in Seq(Byte)
    BY <1>0, <1>1
  <2> HIDE DEF n
  <2>2. SubSeq(op.buf, 1, n) \in Seq(Byte)
    BY ONLY <2>1
  <2>3. rest \in Seq(Byte) /\ Len(rest) = Len(op.buf) - n
    BY ONLY <2>1 DEF rest
  <2> QED
    BY <2>2, <2>3
<1>4. blocks' \in Blocks /\ Len(blocks') = Len(blocks)
  BY <1>1, <1>2, <1>3, StoredType
<1>5. r + n = BaseSize /\ r + n <= BaseSize
  BY <1>1
<1> HIDE DEF rest
<1>6. ArrayShape' /\ m_position' % BaseSize = 0 /\ (m_position' < m_capacity => m_cur' # 0)
  <2>1. m_cur' = IF r + n = BaseSize THEN NextBlock(blocks, m_cur) ELSE m_cur
    BY <1>2, <1>5
  <2>2. ArrayShape /\ n \in Nat /\ m_size' \in Nat /\ m_size' <= m_capacity /\ m_capacity' = m_capacity
    BY <1>1, <1>2 DEF ArrayIInv
  <2> HIDE DEF n
  <2> QED
    BY <2>1, <2>2, <1>1, <1>2, <1>4, <1>5, TurnMoves
<1>7. /\ op' \in WriteOps /\ op'.kind = "write" /\ op'.at = op.at /\ op'.buf = rest
      /\ op'.calls = op.calls /\ op'.npos = 0 /\ op'.ncap = BaseSize
  BY <1>0, <1>1, <1>2, <1>3 DEF WriteOps, rest
<1>8. rest # <<>> /\ m_position' + Len(rest) <= m_capacity /\ m_position' < m_capacity
  <2>0. n \in Nat /\ n < Len(op.buf) /\ Len(op.buf) \in Nat /\ m_position \in Nat
    BY <1>0, <1>1
  <2>1. Len(rest) > 0 /\ m_position' + Len(rest) = m_position + Len(op.buf)
    BY ONLY <2>0, <1>2, <1>3
  <2>2. rest # <<>>
    BY <2>1
  <2>3. m_position + Len(op.buf) <= m_capacity /\ m_position' \in Nat /\ m_capacity \in Nat
    BY <1>0, <1>1, <1>2
  <2>4. Len(rest) \in Nat
    BY ONLY <2>0, <1>3
  <2> QED
    BY ONLY <2>1, <2>2, <2>3, <2>4
<1>9. fault' = "none"
  BY <1>0, <1>2, <1>6, <1>8
<1>10. WritePlace'
  <2>1. op'.at <= m_position' /\ m_capacity' = m_capacity
    <3>1. op.at \in Nat /\ m_position \in Nat /\ op.at <= m_position /\ n \in Nat
      BY <1>1
    <3>2. m_position' = m_position + n /\ m_capacity' = m_capacity /\ op'.at = op.at
      BY <1>2, <1>7
    <3> QED
      BY ONLY <3>1, <3>2
  <2>2. op'.npos = m_position' % BaseSize /\ op'.ncap = BaseSize - op'.npos
    BY <1>1, <1>6, <1>7
  <2> QED
    BY <2>1, <2>2, <1>1, <1>7, <1>8 DEF WritePlace
<1>11. ReadPlace' /\ FaultOnlyAtEnd'
  BY <1>7, <1>9 DEF ReadPlace, FaultOnlyAtEnd
<1>12. ArrayState'
  <2>1. out' \in Seq(Byte)
    BY <1>2
  <2> QED
    BY <2>1, <1>2, <1>7, <1>9 DEF ArrayIInv, ArrayState
<1> QED
  BY <1>6, <1>7, <1>10, <1>11, <1>12 DEF ArrayIInv

LEMMA WriteReturnKeeps ==
    ASSUME ArrayIInv, WriteReturn
    PROVE  ArrayIInv'
<1>1. ArrayShape' /\ m_position' = m_position /\ m_size' = m_size /\ m_capacity' = m_capacity
  BY SameShape DEF ArrayIInv, WriteReturn, array
<1>2. op \in WriteOps /\ op.kind = "write" /\ op.calls = <<>> /\ fault = "none" /\ op.at \in Nat
  <2>1. op \in WriteOps /\ op.kind = "write" /\ op.calls = <<>> /\ fault = "none"
    BY OpKinds DEF ArrayIInv, WriteReturn
  <2> QED
    BY <2>1 DEF WriteOps
<1>3. m_position <= m_size /\ op.at <= m_position /\ m_position \in Nat /\ m_position <= m_capacity
      /\ m_capacity \in Nat
  BY <1>2 DEF ArrayIInv, WritePlace, ArrayShape
<1>4. op' = NoOp /\ op'.kind = "none"
  BY DEF WriteReturn, NoOp
<1>5. ArrayState'
  <2> DEFINE rec == [at |-> op.at, len |-> m_position - op.at, little |-> little,
                     type |-> op.field.type, value |-> op.field.value]
  <2>1. recs' = IF op.field.type \in Types THEN recs \cup {rec} ELSE recs
    BY DEF WriteReturn
  <2>2. rec.at = op.at /\ rec.len = m_position - op.at /\ rec.type = op.field.type
    OBVIOUS
  <2> HIDE DEF rec
  <2>3. rec.at \in Nat /\ rec.len \in Nat /\ rec.at + rec.len <= m_capacity
    BY <2>2, <1>2, <1>3
  <2>4. \A x \in recs' : x.type \in Types /\ x.at \in Nat /\ x.len \in Nat /\ x.at + x.len <= m_capacity
    BY <2>1, <2>2, <2>3 DEF ArrayIInv, ArrayState
  <2>5. UNCHANGED <<little, out, fault>>
    BY DEF WriteReturn
  <2> QED
    BY <2>4, <2>5, <1>1, <1>4 DEF ArrayIInv, ArrayState
<1>6. WritePlace' /\ ReadPlace' /\ FaultOnlyAtEnd'
  BY <1>2, <1>4 DEF WritePlace, ReadPlace, FaultOnlyAtEnd, WriteReturn
<1> QED
  BY <1>1, <1>3, <1>4, <1>5, <1>6 DEF ArrayIInv

\* A step that starts or ends an operation, or goes on inside a reading one,
\* and touches neither the list nor the position.
LEMMA QuietKeeps ==
    ASSUME ArrayIInv, UNCHANGED <<array, little, recs>>, out' \in Seq(Byte),
           op' \in {NoOp} \cup ReadOps, ReadPlace', FaultOnlyAtEnd', fault' \in {"none", "entry", "loop"},
           m_position <= m_size
    PROVE  ArrayIInv'
<1>1. ArrayShape' /\ m_position' = m_position /\ m_size' = m_size /\ m_capacity' = m_capacity
  BY SameShape DEF ArrayIInv, array
<1>2. ArrayState'
  BY <1>1 DEF ArrayIInv, ArrayState
<1>3. op'.kind # "write"
  BY DEF NoOp, ReadOps
<1> QED
  BY <1>1, <1>2, <1>3 DEF ArrayIInv, WritePlace

LEMMA StartReadKeeps ==
    ASSUME ArrayIInv, NEW type \in Types, StartRead(type)
    PROVE  ArrayIInv'
<1> DEFINE of == IF type \in DOMAIN LengthType THEN LengthType[type] ELSE type
<1>1. op.kind = "none" /\ fault = "none" /\ m_position \in Nat /\ m_position <= m_size
  BY DEF ArrayIInv, ArrayShape, StartRead, Idle, NoOp
<1>2. op' = [kind |-> "read", type |-> type, of |-> of, at |-> m_position,
             step |-> "call", size |-> CallSize(of), buf |-> <<>>,
             npos |-> 0, ncap |-> 0, acc |-> 0, shift |-> 0]
  BY DEF StartRead
<1>3. of \in Types
  BY DEF LengthType, Types, FixedSize, VarSize
<1>4. CallSize(of) \in Nat
  BY CodecAssumption DEF CallSize, FixedSize
<1> HIDE DEF of
<1>5. op' \in ReadOps /\ op'.step = "call" /\ op'.of = of /\ op'.size = CallSize(of) /\ op'.type = type
  <2>1. <<>> \in Seq(Byte)
    OBVIOUS
  <2> QED
    BY <2>1, <1>1, <1>2, <1>3, <1>4 DEF ReadOps
<1>6. ReadPlace'
  BY <1>5 DEF ReadPlace, CallSize, of
<1>7. UNCHANGED <<array, little, fault, recs>> /\ out' = <<>>
  BY DEF StartRead
<1>8. FaultOnlyAtEnd' /\ fault' \in {"none", "entry", "loop"} /\ out' \in Seq(Byte)
  BY <1>1, <1>7 DEF FaultOnlyAtEnd
<1> QED
  BY <1>1, <1>5, <1>6, <1>7, <1>8, QuietKeeps

\* The facts of a reading operation.
LEMMA ReadFacts ==
    ASSUME ArrayIInv, op.kind = "read"
    PROVE  /\ op \in ReadOps /\ op.size \in Nat /\ op.buf \in Seq(Byte) /\ op.of \in Types \cup {"data"}
           /\ op.acc \in Nat /\ op.shift \in Nat /\ op.at \in Nat
           /\ m_position \in Nat /\ m_size \in Nat /\ m_capacity \in Nat
           /\ m_position <= m_size /\ m_size <= m_capacity
<1>1. op \in ReadOps
  BY OpKinds DEF ArrayIInv
<1>2. op.size \in Nat /\ op.buf \in Seq(Byte) /\ op.of \in Types \cup {"data"}
      /\ op.acc \in Nat /\ op.shift \in Nat /\ op.at \in Nat
  BY <1>1 DEF ReadOps
<1>3. m_position \in Nat /\ m_size \in Nat /\ m_capacity \in Nat /\ m_position <= m_size /\ m_size <= m_capacity
  BY DEF ArrayIInv, ArrayShape
<1> QED
  BY <1>1, <1>2, <1>3

LEMMA ReadThrowsKeeps ==
    ASSUME ArrayIInv, ReadThrows
    PROVE  ArrayIInv'
<1>1. op.kind = "read" /\ fault = "none" /\ op' = NoOp /\ out' = <<>> /\ UNCHANGED <<array, little, fault, recs>>
  BY DEF ReadThrows
<1>2. m_position <= m_size
  BY <1>1, ReadFacts
<1>3. ReadPlace' /\ FaultOnlyAtEnd' /\ out' \in Seq(Byte) /\ fault' \in {"none", "entry", "loop"}
  BY <1>1 DEF ReadPlace, FaultOnlyAtEnd, NoOp
<1> QED
  BY <1>1, <1>2, <1>3, QuietKeeps

LEMMA ReadReturnKeeps ==
    ASSUME ArrayIInv, ReadReturn
    PROVE  ArrayIInv'
<1>1. op.kind = "read" /\ fault = "none" /\ op' = NoOp /\ out' = <<>> /\ UNCHANGED <<array, little, fault, recs>>
  BY DEF ReadReturn, IntegerReturns, DataReturns, IntegerDone
<1>2. m_position <= m_size
  BY <1>1, ReadFacts
<1>3. ReadPlace' /\ FaultOnlyAtEnd' /\ out' \in Seq(Byte) /\ fault' \in {"none", "entry", "loop"}
  BY <1>1 DEF ReadPlace, FaultOnlyAtEnd, NoOp
<1> QED
  BY <1>1, <1>2, <1>3, QuietKeeps

LEMMA ReadCallKeeps ==
    ASSUME ArrayIInv, ReadCall
    PROVE  ArrayIInv'
<1> DEFINE npos == m_position % BaseSize
<1>0. op.kind = "read" /\ op.step = "call" /\ fault = "none" /\ op.size <= m_size - m_position
  BY DEF ReadCall
<1>1. /\ op \in ReadOps /\ op.size \in Nat /\ op.buf \in Seq(Byte)
      /\ m_position \in Nat /\ m_size \in Nat /\ m_capacity \in Nat
      /\ m_position <= m_size /\ m_size <= m_capacity
  BY <1>0, ReadFacts
<1>2. /\ fault' = IF m_cur = 0 THEN "entry" ELSE fault
      /\ op' = [op EXCEPT !.step = IF op.size = 0 THEN "return" ELSE "turn",
                          !.buf = <<>>, !.npos = npos, !.ncap = BaseSize - npos]
      /\ UNCHANGED <<array, little, out, recs>>
  BY DEF ReadCall
<1>3. npos \in Nat /\ BaseSize - npos \in Nat
  BY <1>1, ByteArrayAssumption
<1>4. /\ op' \in ReadOps /\ op'.size = op.size /\ op'.of = op.of /\ op'.type = op.type /\ op'.buf = <<>>
      /\ op'.step = (IF op.size = 0 THEN "return" ELSE "turn")
      /\ op'.npos = npos /\ op'.ncap = BaseSize - npos
  <2>1. <<>> \in Seq(Byte)
    OBVIOUS
  <2> HIDE DEF npos
  <2> QED
    BY <2>1, <1>1, <1>2, <1>3 DEF ReadOps
<1>5. m_position' = m_position /\ m_size' = m_size /\ m_capacity' = m_capacity
  BY <1>2 DEF array
<1>6. ReadPlace'
  <2>1. op'.step = "turn" => op'.size > 0 /\ m_position + op'.size <= m_size
    BY <1>0, <1>1, <1>4
  <2>2. op'.of \in DOMAIN FixedSize => op'.step # "call" /\ Len(op'.buf) + op'.size = FixedSize[op'.of]
    <3>1. op.of \in DOMAIN FixedSize => op.size = FixedSize[op.of]
      BY <1>0 DEF ArrayIInv, ReadPlace
    <3>2. Len(op'.buf) = 0
      BY <1>4
    <3> QED
      BY <3>1, <3>2, <1>1, <1>4
  <2>3. op'.type \in DOMAIN LengthType => op'.of \in {LengthType[op'.type], "data"}
    BY <1>0, <1>4 DEF ArrayIInv, ReadPlace
  <2> QED
    BY <2>1, <2>2, <2>3, <1>4, <1>5 DEF ReadPlace
<1>7. FaultOnlyAtEnd' /\ fault' \in {"none", "entry", "loop"}
  <2>1. m_cur = 0 => m_position = m_capacity
    <3>1. m_position \div BaseSize \in Nat
      BY <1>1, ByteArrayAssumption, BlockOf
    <3> QED
      BY <3>1 DEF ArrayIInv, ArrayShape, BlockAt
  <2> QED
    BY <2>1, <1>0, <1>2, <1>5 DEF FaultOnlyAtEnd
<1>8. out' \in Seq(Byte)
  BY <1>2 DEF ArrayIInv, ArrayState
<1> QED
  BY <1>1, <1>2, <1>4, <1>6, <1>7, <1>8, QuietKeeps

\* Whatever a varint's group adds, the result is a natural number.
LEMMA VarintIsNatural ==
    ASSUME NEW acc, NEW c, NEW shift, NEW type \in DOMAIN VarSize
    PROVE  VarintGroup(acc, c, shift, type) \in Nat
<1>1. VarSize[type] \in {Size32, Size64}
  BY DEF VarSize
<1> DEFINE w == Bits(VarSize[type])
<1>2. w \in Nat /\ w <= Bits(Size32 + Size64)
  <2>1. /\ Size32 \in Nat /\ Size64 \in Nat /\ GroupBits + 1 \in Nat
        /\ Size32 * (GroupBits + 1) \in Nat /\ Size64 * (GroupBits + 1) \in Nat
        /\ (Size32 + Size64) * (GroupBits + 1) = Size32 * (GroupBits + 1) + Size64 * (GroupBits + 1)
    BY CodecAssumption
  <2>2. w \in {Size32 * (GroupBits + 1), Size64 * (GroupBits + 1)}
    BY <1>1 DEF Bits
  <2> DEFINE x == Size32 * (GroupBits + 1)
             y == Size64 * (GroupBits + 1)
  <2>3. x \in Nat /\ y \in Nat /\ w \in {x, y} /\ Bits(Size32 + Size64) = x + y
    BY <2>1, <2>2 DEF Bits
  <2> HIDE DEF x, y, w
  <2> QED
    BY <2>3
<1> HIDE DEF w
<1>3. \A a, d : BitOr(a, d, w) \in Nat
  BY <1>2, BitOrIsNatural
<1> QED
  BY <1>3, Zenon DEF VarintGroup, w

LEMMA VarintMoreKeeps ==
    ASSUME ArrayIInv, VarintMore
    PROVE  ArrayIInv'
<1>0. op.kind = "read" /\ op.of \in DOMAIN VarSize /\ fault = "none"
  BY DEF VarintMore
<1>1. op \in ReadOps /\ m_position <= m_size /\ op.shift \in Nat
  BY <1>0, ReadFacts
<1>2. VarintAcc \in Nat
  BY <1>0, VarintIsNatural DEF VarintAcc
<1>3. /\ op' = [op EXCEPT !.step = "call", !.size = 1, !.acc = VarintAcc, !.shift = op.shift + GroupBits]
      /\ UNCHANGED <<array, little, out, fault, recs>>
  BY DEF VarintMore
<1>4. op' \in ReadOps /\ op'.step = "call" /\ op'.of = op.of /\ op'.type = op.type
  <2>1. op.shift + GroupBits \in Nat
    BY <1>1, CodecAssumption
  <2> QED
    BY <2>1, <1>1, <1>2, <1>3 DEF ReadOps
<1>5. ReadPlace'
  <2>1. op.of \notin DOMAIN FixedSize
    BY <1>0 DEF VarSize, FixedSize
  <2> QED
    BY <2>1, <1>0, <1>4 DEF ArrayIInv, ReadPlace
<1>6. out' \in Seq(Byte) /\ FaultOnlyAtEnd' /\ fault' \in {"none", "entry", "loop"}
  BY <1>0, <1>3 DEF ArrayIInv, ArrayState, FaultOnlyAtEnd
<1> QED
  BY <1>1, <1>3, <1>4, <1>5, <1>6, QuietKeeps

LEMMA ReadLengthKeeps ==
    ASSUME ArrayIInv, ReadLength
    PROVE  ArrayIInv'
<1>0. /\ op.kind = "read" /\ op.step = "return" /\ op.of # "data" /\ fault = "none"
      /\ op.type \in DOMAIN LengthType
  BY DEF ReadLength, IntegerDone
<1>1. op \in ReadOps /\ m_position <= m_size /\ op.buf \in Seq(Byte) /\ op.size \in Nat
  BY <1>0, ReadFacts
<1>2. op.of = LengthType[op.type]
  BY <1>0 DEF ArrayIInv, ReadPlace
<1>3. op.of \in {"F16", "F32", "F64", "U64"}
  BY <1>0, <1>2 DEF LengthType
<1>4. IntegerValue \in Nat
  <2>1. CASE op.of \in DOMAIN FixedSize
    <3>1. Len(op.buf) + op.size = FixedSize[op.of]
      BY <1>0, <2>1 DEF ArrayIInv, ReadPlace
    <3>2. FixedSize[op.of] \in {Size16, Size32, Size64}
      BY <1>3, <2>1 DEF FixedSize
    <3>3. Len(op.buf) <= Size16 + Size32 + Size64
      BY <3>1, <3>2, <1>1, CodecAssumption
    <3>4. little \in BOOLEAN
      BY DEF ArrayIInv, ArrayState
    <3>5. FixedValue(op.buf, little) \in Nat
      BY <3>3, <3>4, <1>1, FixedValueIsNatural
    <3>6. op.of \notin Signed
      BY <1>3 DEF Signed
    <3> QED
      BY <2>1, <3>5, <3>6 DEF IntegerValue
  <2>2. CASE op.of \notin DOMAIN FixedSize
    <3>1. op.of = "U64" /\ op.of \notin Signed /\ op.of \in DOMAIN VarSize
      BY <1>3, <2>2 DEF FixedSize, Signed, VarSize
    <3>2. VarintAcc \in Nat
      BY <3>1, VarintIsNatural DEF VarintAcc
    <3> QED
      BY <2>2, <3>1, <3>2 DEF IntegerValue
  <2> QED
    BY <2>1, <2>2
<1>5. /\ op' = [op EXCEPT !.of = "data", !.step = "call", !.size = IntegerValue]
      /\ UNCHANGED <<array, little, out, fault, recs>>
  BY DEF ReadLength
<1>6. op' \in ReadOps /\ op'.step = "call" /\ op'.of = "data"
  BY <1>1, <1>4, <1>5 DEF ReadOps
<1>7. ReadPlace'
  BY <1>6 DEF ReadPlace, FixedSize
<1>8. out' \in Seq(Byte) /\ FaultOnlyAtEnd' /\ fault' \in {"none", "entry", "loop"}
  BY <1>0, <1>5 DEF ArrayIInv, ArrayState, FaultOnlyAtEnd
<1> QED
  BY <1>1, <1>5, <1>6, <1>7, <1>8, QuietKeeps

\* The bytes read lie below the size.
LEMMA LoadedType ==
    ASSUME ArrayShape, NEW n \in Nat, m_position + n <= m_size
    PROVE  /\ Loaded(m_position \div BaseSize + 1, m_position % BaseSize, n) \in Seq(Byte)
           /\ Len(Loaded(m_position \div BaseSize + 1, m_position % BaseSize, n)) = n
<1>1. m_position \in Nat /\ m_size \in Nat /\ m_size <= Len(blocks) * BaseSize /\ blocks \in Blocks
      /\ Len(blocks) * BaseSize \in Nat
  BY DEF ArrayShape
<1>2. Loaded(m_position \div BaseSize + 1, m_position % BaseSize, n) = [k \in 1 .. n |-> ByteAt(blocks, m_position + k)]
  BY <1>1, LoadedIs
<1>3. \A k \in 1 .. n : m_position + k \in 1 .. Len(blocks) * BaseSize
  BY <1>1
<1>4. \A k \in 1 .. n : ByteAt(blocks, m_position + k) \in Byte
  BY <1>1, <1>3, ByteAtIs
<1> QED
  BY <1>2, <1>4

\* The facts of a turn of read().
LEMMA ReadTurnFacts ==
    ASSUME ArrayIInv, op.kind = "read", op.step = "turn"
    PROVE  /\ op.size > 0 /\ m_position + op.size <= m_size /\ m_position < m_capacity
           /\ op.npos = m_position % BaseSize /\ op.npos \in 0 .. BaseSize - 1
           /\ op.ncap = BaseSize - op.npos /\ op.ncap \in 1 .. BaseSize /\ BaseSize \in Nat \ {0}
           /\ m_cur = m_position \div BaseSize + 1 /\ blocks \in Blocks
<1>1. op.size \in Nat /\ m_position \in Nat /\ m_size \in Nat /\ m_capacity \in Nat /\ m_size <= m_capacity
  BY ReadFacts
<1>2. op.size > 0 /\ m_position + op.size <= m_size
      /\ op.npos = m_position % BaseSize /\ op.ncap = BaseSize - op.npos
  BY DEF ArrayIInv, ReadPlace
<1>3. BaseSize \in Nat \ {0} /\ m_position % BaseSize \in 0 .. BaseSize - 1
  BY <1>1, ByteArrayAssumption, BlockOf
<1>4. op.npos \in 0 .. BaseSize - 1 /\ op.ncap \in 1 .. BaseSize
  BY <1>2, <1>3
<1>5. m_position < m_capacity
  BY <1>1, <1>2
<1>6. m_cur = m_position \div BaseSize + 1 /\ blocks \in Blocks
  BY <1>1, <1>5 DEF ArrayIInv, ArrayShape, BlockAt
<1> QED
  BY <1>2, <1>3, <1>4, <1>5, <1>6

\* A turn of read() reads n bytes of the block of the position.
LEMMA ReadTurn ==
    ASSUME ArrayIInv, op.kind = "read", op.step = "turn", fault = "none",
           NEW n \in Nat, n > 0, n <= op.ncap, n <= op.size,
           out' = Loaded(m_cur, op.npos, n),
           m_position' = m_position + n,
           m_cur' = IF op.npos + n = BaseSize THEN NextBlock(blocks, m_cur) ELSE m_cur,
           UNCHANGED <<m_size, m_capacity, blocks, little, recs>>
    PROVE  /\ ArrayShape' /\ out' \in Seq(Byte) /\ Len(out') = n
           /\ m_position' \in Nat /\ m_position' + (op.size - n) <= m_size /\ op.size - n \in Nat
           /\ op.npos + n = BaseSize => m_position' % BaseSize = 0
           /\ m_position' < m_capacity => m_cur' # 0
<1>1. /\ op.size \in Nat /\ m_position \in Nat /\ m_size \in Nat /\ m_capacity \in Nat /\ m_size <= m_capacity
      /\ ArrayShape
  BY ReadFacts DEF ArrayIInv
<1>2. /\ m_position + op.size <= m_size /\ m_position < m_capacity
      /\ op.npos = m_position % BaseSize /\ op.npos \in 0 .. BaseSize - 1
      /\ op.ncap = BaseSize - op.npos /\ BaseSize \in Nat \ {0}
      /\ m_cur = m_position \div BaseSize + 1 /\ blocks \in Blocks
  BY ReadTurnFacts
<1>3. m_position + n <= m_size /\ op.npos + n <= BaseSize
  BY <1>1, <1>2
<1>4. out' \in Seq(Byte) /\ Len(out') = n
  BY <1>1, <1>2, <1>3, LoadedType
<1>5. /\ (m_position % BaseSize) + n <= BaseSize /\ blocks' \in Blocks /\ Len(blocks') = Len(blocks)
      /\ m_capacity' = m_capacity /\ m_size' \in Nat /\ m_size' <= m_capacity
      /\ m_cur' = IF (m_position % BaseSize) + n = BaseSize THEN NextBlock(blocks, m_cur) ELSE m_cur
  BY <1>1, <1>2, <1>3
<1>6. /\ ArrayShape'
      /\ (m_position % BaseSize) + n = BaseSize => m_position' % BaseSize = 0
      /\ m_position' < m_capacity => m_cur' # 0
  BY <1>1, <1>2, <1>5, TurnMoves
<1>7. m_position' \in Nat /\ m_position' + (op.size - n) <= m_size /\ op.size - n \in Nat
  BY ONLY <1>1, <1>2, m_position' = m_position + n, n \in Nat, n <= op.size
<1> QED
  BY <1>2, <1>4, <1>6, <1>7

LEMMA ReadLastTurnKeeps ==
    ASSUME ArrayIInv, ReadLastTurn
    PROVE  ArrayIInv'
<1> DEFINE n == op.size
<1>0. op.kind = "read" /\ op.step = "turn" /\ fault = "none" /\ op.ncap >= n
  BY DEF ReadLastTurn
<1>1. /\ op \in ReadOps /\ n \in Nat /\ op.buf \in Seq(Byte)
      /\ m_position \in Nat /\ m_size \in Nat /\ n > 0 /\ op.ncap \in Nat
  BY <1>0, ReadFacts, ReadTurnFacts
<1>2. /\ out' = Loaded(m_cur, op.npos, n)
      /\ m_cur' = IF op.npos + n = BaseSize THEN NextBlock(blocks, m_cur) ELSE m_cur
      /\ m_position' = m_position + n
      /\ op' = [op EXCEPT !.step = "return", !.size = 0, !.buf = op.buf \o out']
      /\ UNCHANGED <<m_size, m_capacity, blocks, little, fault, recs>>
  BY DEF ReadLastTurn
<1>3. ArrayShape' /\ out' \in Seq(Byte) /\ Len(out') = n /\ m_position' + (n - n) <= m_size /\ m_position' \in Nat
  BY <1>0, <1>1, <1>2, ReadTurn
<1>4. op.buf \o out' \in Seq(Byte) /\ Len(op.buf \o out') = Len(op.buf) + n
  BY <1>1, <1>3
<1>5. /\ op' \in ReadOps /\ op'.kind = "read" /\ op'.step = "return" /\ op'.size = 0 /\ op'.of = op.of
      /\ op'.type = op.type /\ op'.buf = op.buf \o out'
  BY <1>0, <1>1, <1>2, <1>4 DEF ReadOps
<1>6. m_position' <= m_size'
  BY <1>1, <1>2, <1>3
<1>7. ReadPlace'
  <2>1. op.of \in DOMAIN FixedSize => Len(op.buf) + n = FixedSize[op.of]
    BY <1>0 DEF ArrayIInv, ReadPlace
  <2>2. Len(op'.buf) + op'.size = Len(op.buf) + n
    <3>1. Len(op.buf) \in Nat
      BY <1>1
    <3> QED
      BY <3>1, <1>1, <1>4, <1>5
  <2>3. op.type \in DOMAIN LengthType => op.of \in {LengthType[op.type], "data"}
    BY <1>0 DEF ArrayIInv, ReadPlace
  <2> QED
    BY <2>1, <2>2, <2>3, <1>5 DEF ReadPlace
<1>8. WritePlace' /\ FaultOnlyAtEnd'
  BY <1>0, <1>2, <1>5 DEF WritePlace, FaultOnlyAtEnd
<1>9. ArrayState'
  BY <1>0, <1>2, <1>3, <1>5 DEF ArrayIInv, ArrayState
<1> QED
  BY <1>3, <1>6, <1>7, <1>8, <1>9 DEF ArrayIInv

LEMMA ReadFillTurnKeeps ==
    ASSUME ArrayIInv, ReadFillTurn
    PROVE  ArrayIInv'
<1> DEFINE n == op.ncap
<1>0. op.kind = "read" /\ op.step = "turn" /\ fault = "none" /\ n < op.size
  BY DEF ReadFillTurn
<1>1. /\ op \in ReadOps /\ op.size \in Nat /\ op.buf \in Seq(Byte)
      /\ m_position \in Nat /\ m_size \in Nat /\ m_capacity \in Nat /\ m_size <= m_capacity
  BY <1>0, ReadFacts
<1>2. /\ n = BaseSize - op.npos /\ n \in 1 .. BaseSize /\ BaseSize \in Nat \ {0} /\ op.npos \in 0 .. BaseSize - 1
  BY <1>0, ReadTurnFacts
<1>3. /\ out' = Loaded(m_cur, op.npos, n)
      /\ m_cur' = NextBlock(blocks, m_cur)
      /\ fault' = IF m_cur' = 0 THEN "loop" ELSE fault
      /\ m_position' = m_position + n
      /\ op' = [op EXCEPT !.size = op.size - n, !.buf = op.buf \o out', !.npos = 0, !.ncap = BaseSize]
      /\ UNCHANGED <<m_size, m_capacity, blocks, little, recs>>
  BY DEF ReadFillTurn
<1>4. /\ ArrayShape' /\ out' \in Seq(Byte) /\ Len(out') = n
      /\ m_position' + (op.size - n) <= m_size /\ op.size - n \in Nat /\ m_position' \in Nat
      /\ m_position' % BaseSize = 0 /\ (m_position' < m_capacity => m_cur' # 0)
  <2>1. op.npos + n = BaseSize /\ n \in Nat /\ n > 0 /\ n <= op.size
    BY <1>0, <1>1, <1>2
  <2>2. m_cur' = IF op.npos + n = BaseSize THEN NextBlock(blocks, m_cur) ELSE m_cur
    BY <2>1, <1>3
  <2>3. n <= op.ncap
    BY <1>2
  <2> HIDE DEF n
  <2> QED
    BY <2>1, <2>2, <2>3, <1>0, <1>3, ReadTurn
<1>5. op.buf \o out' \in Seq(Byte) /\ Len(op.buf \o out') = Len(op.buf) + n
  BY <1>1, <1>4
<1>6. /\ op' \in ReadOps /\ op'.kind = "read" /\ op'.step = "turn" /\ op'.size = op.size - n /\ op'.of = op.of
      /\ op'.type = op.type /\ op'.buf = op.buf \o out' /\ op'.npos = 0 /\ op'.ncap = BaseSize
  BY <1>0, <1>1, <1>2, <1>3, <1>4, <1>5 DEF ReadOps
<1>7. op.size - n > 0 /\ m_position' < m_capacity /\ m_position' <= m_size
  <2>1. n \in Nat /\ n < op.size
    BY <1>0, <1>2
  <2> HIDE DEF n
  <2> QED
    BY ONLY <2>1, <1>1, <1>4
<1>8. fault' = "none"
  BY <1>0, <1>3, <1>4, <1>7
<1>9. ReadPlace'
  <2>1. op.of \in DOMAIN FixedSize => Len(op.buf) + op.size = FixedSize[op.of]
    BY <1>0 DEF ArrayIInv, ReadPlace
  <2>2. Len(op'.buf) + op'.size = Len(op.buf) + op.size
    <3>1. Len(op.buf) \in Nat /\ n \in Nat
      BY <1>1, <1>2
    <3> HIDE DEF n
    <3> QED
      BY <3>1, <1>1, <1>5, <1>6
  <2>3. op.type \in DOMAIN LengthType => op.of \in {LengthType[op.type], "data"}
    BY <1>0 DEF ArrayIInv, ReadPlace
  <2>4. op'.npos = m_position' % BaseSize /\ op'.ncap = BaseSize - op'.npos /\ m_size' = m_size
    BY <1>2, <1>3, <1>4, <1>6
  <2> QED
    BY <2>1, <2>2, <2>3, <2>4, <1>4, <1>6, <1>7 DEF ReadPlace
<1>10. WritePlace' /\ FaultOnlyAtEnd'
  BY <1>6, <1>8 DEF WritePlace, FaultOnlyAtEnd
<1>11. ArrayState'
  BY <1>3, <1>4, <1>6, <1>8 DEF ArrayIInv, ArrayState
<1> QED
  BY <1>3, <1>4, <1>7, <1>9, <1>10, <1>11 DEF ArrayIInv

\* setPosition(v) on the list that the step leaves behind.
LEMMA MovesToShape ==
    ASSUME NEW list \in Blocks, Len(list) > 0, NEW v \in Nat, v <= Len(list) * BaseSize,
           m_size \in Nat, m_size <= Len(list) * BaseSize, MovesTo(list, v),
           blocks' \in Blocks, Len(blocks') = Len(list), m_capacity' = Len(list) * BaseSize
    PROVE  ArrayShape' /\ m_position' <= m_size' /\ m_position' = v
<1>1. m_cur' = BlockAt(v, Len(list)) /\ m_position' = v /\ m_size' = IF v > m_size THEN v ELSE m_size
  BY CurAtIs DEF MovesTo, Blocks
<1>2. Len(list) * BaseSize \in Nat
  BY ByteArrayAssumption DEF Blocks
<1>3. m_size' \in Nat /\ m_size' <= Len(list) * BaseSize /\ v <= m_size'
  BY <1>1, <1>2
<1> QED
  BY <1>1, <1>2, <1>3 DEF ArrayShape

\* A step between two operations that leaves no operation behind.
LEMMA IdleKeeps ==
    ASSUME ArrayIInv, Idle, op' = op, little' \in BOOLEAN, out' \in Seq(Byte),
           fault' \in {"none", "entry", "loop"}, FaultOnlyAtEnd', ArrayShape', m_position' <= m_size',
           recs' \subseteq recs, m_capacity' >= m_capacity \/ recs' = {}
    PROVE  ArrayIInv'
<1>1. op' = NoOp /\ op'.kind = "none"
  BY DEF Idle, NoOp
<1>2. m_capacity \in Nat /\ m_capacity' \in Nat
  BY DEF ArrayIInv, ArrayShape
<1>3. \A r \in recs' : r.type \in Types /\ r.at \in Nat /\ r.len \in Nat /\ r.at + r.len <= m_capacity'
  BY <1>2 DEF ArrayIInv, ArrayState
<1>4. ArrayState'
  BY <1>1, <1>3 DEF ArrayState
<1>5. WritePlace' /\ ReadPlace'
  BY <1>1 DEF WritePlace, ReadPlace
<1> QED
  BY <1>1, <1>4, <1>5 DEF ArrayIInv

LEMMA IdleFacts ==
    ASSUME ArrayIInv, Idle
    PROVE  /\ ArrayShape /\ m_position \in Nat /\ m_size \in Nat /\ m_capacity \in Nat
           /\ m_position <= m_size /\ m_size <= m_capacity /\ m_capacity = Len(blocks) * BaseSize
           /\ blocks \in Blocks /\ Len(blocks) > 0 /\ fault = "none" /\ little \in BOOLEAN
           /\ m_cur = IF m_position = m_capacity THEN 0 ELSE m_position \div BaseSize + 1
           /\ m_position \div BaseSize \in Nat
<1>1. op.kind = "none" /\ fault = "none"
  BY DEF Idle, NoOp
<1>2. m_position \in Nat
  BY DEF ArrayIInv, ArrayShape
<1>3. m_position \div BaseSize \in Nat
  BY <1>2, ByteArrayAssumption, BlockOf
<1> QED
  BY <1>1, <1>3 DEF ArrayIInv, ArrayShape, ArrayState, BlockAt

LEMMA SetPositionKeeps ==
    ASSUME ArrayIInv, NEW v \in 0 .. MaxCapacity + BaseSize, SetPosition(v)
    PROVE  ArrayIInv'
<1>1. Idle /\ v <= m_capacity /\ MovesTo(blocks, v) /\ out' = <<>>
      /\ UNCHANGED <<m_capacity, blocks, little, op, fault, recs>>
  BY DEF SetPosition
<1>2. ArrayShape' /\ m_position' <= m_size'
  BY <1>1, IdleFacts, MovesToShape
<1>3. FaultOnlyAtEnd' /\ little' \in BOOLEAN /\ out' \in Seq(Byte) /\ fault' \in {"none", "entry", "loop"}
  BY <1>1, IdleFacts DEF FaultOnlyAtEnd
<1>4. m_capacity' >= m_capacity
  BY <1>1, IdleFacts
<1> QED
  BY <1>1, <1>2, <1>3, <1>4, IdleKeeps

LEMMA ClearKeeps ==
    ASSUME ArrayIInv, Clear
    PROVE  ArrayIInv'
<1>1. /\ Idle /\ m_position' = 0 /\ m_size' = 0 /\ m_capacity' = BaseSize /\ blocks' = <<blocks[1]>>
      /\ m_cur' = 1 /\ out' = <<>> /\ recs' = {} /\ UNCHANGED <<little, op, fault>>
  BY DEF Clear
<1>2. blocks' \in Blocks /\ Len(blocks') = 1
  <2>1. blocks[1] \in [1 .. BaseSize -> Byte]
    BY <1>1, IdleFacts DEF Blocks
  <2> QED
    BY <2>1, <1>1 DEF Blocks
<1>3. BaseSize \in Nat \ {0} /\ 1 * BaseSize = BaseSize
  BY ByteArrayAssumption
<1>4. BlockAt(0, 1) = 1
  <2>1. (0 * BaseSize + 0) \div BaseSize = 0 /\ 0 * BaseSize + 0 = 0
    BY <1>3, BlockIs
  <2> QED
    BY <1>3, <2>1 DEF BlockAt
<1>5. ArrayShape' /\ m_position' <= m_size'
  BY <1>1, <1>2, <1>3, <1>4 DEF ArrayShape
<1>6. FaultOnlyAtEnd' /\ little' \in BOOLEAN /\ out' \in Seq(Byte) /\ fault' \in {"none", "entry", "loop"}
  BY <1>1, IdleFacts DEF FaultOnlyAtEnd
<1> QED
  BY <1>1, <1>5, <1>6, IdleKeeps

LEMMA SetIsLittleEndianKeeps ==
    ASSUME ArrayIInv, NEW val \in BOOLEAN, SetIsLittleEndian(val)
    PROVE  ArrayIInv'
<1>1. Idle /\ little' = val /\ UNCHANGED <<array, op, out, fault, recs>>
  BY DEF SetIsLittleEndian
<1>2. ArrayShape' /\ m_position' <= m_size' /\ m_capacity' >= m_capacity
  BY <1>1, IdleFacts, SameShape DEF array
<1>3. FaultOnlyAtEnd' /\ out' \in Seq(Byte) /\ fault' \in {"none", "entry", "loop"}
  BY <1>1, IdleFacts DEF FaultOnlyAtEnd, ArrayIInv, ArrayState
<1> QED
  BY <1>1, <1>2, <1>3, IdleKeeps

\* Looking at n bytes below the size: the bytes behind the position, or a null
\* pointer at the end of the last block.
LEMMA LooksAt ==
    ASSUME ArrayIInv, Idle, NEW n \in Nat, m_position + n <= m_size, Looks(n)
    PROVE  /\ fault' \in {"none", "entry"} /\ out' \in Seq(Byte)
           /\ fault' = "entry" <=> m_cur = 0
           /\ m_cur = 0 => m_position = m_capacity /\ out' = out
           /\ m_cur # 0 => out' = Loaded(m_position \div BaseSize + 1, m_position % BaseSize, n)
<1>1. m_cur = (IF m_position = m_capacity THEN 0 ELSE m_position \div BaseSize + 1)
      /\ m_position \div BaseSize \in Nat /\ fault = "none" /\ ArrayShape
  BY IdleFacts
<1>2. CASE m_cur = 0
  BY <1>1, <1>2 DEF Looks, ArrayIInv, ArrayState
<1>3. CASE m_cur # 0
  BY <1>1, <1>3, LoadedType DEF Looks
<1> QED
  BY <1>2, <1>3

LEMMA PeekKeeps ==
    ASSUME ArrayIInv, AsString \/ WriteToFile
    PROVE  ArrayIInv'
<1>1. Idle /\ UNCHANGED <<array, little, op, recs>>
      /\ (Looks(m_size - m_position) \/ (out' = <<>> /\ fault' = fault))
  BY DEF AsString, WriteToFile
<1>2. ArrayShape' /\ m_position' = m_position /\ m_size' = m_size /\ m_capacity' = m_capacity
  BY <1>1, IdleFacts, SameShape DEF array
<1>3. m_position' <= m_size' /\ m_capacity' >= m_capacity /\ little' \in BOOLEAN
  BY <1>1, <1>2, IdleFacts
<1>4. FaultOnlyAtEnd' /\ out' \in Seq(Byte) /\ fault' \in {"none", "entry", "loop"}
  <2>1. CASE Looks(m_size - m_position)
    <3>1. m_size - m_position \in Nat /\ m_position + (m_size - m_position) <= m_size
      BY <1>1, IdleFacts
    <3>2. fault' \in {"none", "entry"} /\ out' \in Seq(Byte) /\ (fault' = "entry" => m_position = m_capacity)
      BY <3>1, <2>1, <1>1, LooksAt
    <3> QED
      BY <3>2, <1>2 DEF FaultOnlyAtEnd
  <2>2. CASE out' = <<>> /\ fault' = fault
    BY <2>2, <1>1, IdleFacts DEF FaultOnlyAtEnd
  <2> QED
    BY <1>1, <2>1, <2>2
<1> QED
  BY <1>1, <1>2, <1>3, <1>4, IdleKeeps

LEMMA SendFromKeeps ==
    ASSUME ArrayIInv, NEW len \in 1 .. MaxIo, SendFrom(len)
    PROVE  ArrayIInv'
<1> DEFINE n == IF len > m_size - m_position THEN m_size - m_position ELSE len
<1>1. Idle /\ UNCHANGED <<m_capacity, blocks, little, op, recs>>
  BY DEF SendFrom
<1>2. PICK rt \in 0 .. n : /\ Looks(rt)
                           /\ IF m_cur # 0 /\ rt > 0 THEN MovesTo(blocks, m_position + rt)
                              ELSE UNCHANGED <<m_position, m_size, m_cur>>
  BY DEF SendFrom
<1>3. rt \in Nat /\ m_position + rt <= m_size
  <2>1. n \in Nat /\ n <= m_size - m_position
    BY <1>1, IdleFacts, ByteArrayAssumption
  <2> HIDE DEF n
  <2> QED
    BY <2>1, <1>1, <1>2, IdleFacts
<1>4. /\ fault' \in {"none", "entry"} /\ out' \in Seq(Byte)
      /\ fault' = "entry" => m_cur = 0 /\ m_position = m_capacity
  BY <1>1, <1>2, <1>3, LooksAt
<1>5. CASE m_cur # 0 /\ rt > 0
  <2>1. ArrayShape' /\ m_position' <= m_size'
    BY <1>1, <1>2, <1>3, <1>5, IdleFacts, MovesToShape
  <2>2. FaultOnlyAtEnd' /\ little' \in BOOLEAN /\ m_capacity' >= m_capacity
    BY <1>1, <1>4, <1>5, IdleFacts DEF FaultOnlyAtEnd
  <2> QED
    BY <2>1, <2>2, <1>1, <1>4, IdleKeeps
<1>6. CASE ~(m_cur # 0 /\ rt > 0)
  <2>1. UNCHANGED array
    BY <1>1, <1>2, <1>6 DEF array
  <2>2. ArrayShape' /\ m_position' = m_position /\ m_size' = m_size /\ m_capacity' = m_capacity
    BY <2>1, <1>1, IdleFacts, SameShape DEF array
  <2>3. FaultOnlyAtEnd' /\ little' \in BOOLEAN /\ m_capacity' >= m_capacity /\ m_position' <= m_size'
    BY <2>2, <1>1, <1>4, IdleFacts DEF FaultOnlyAtEnd
  <2> QED
    BY <2>2, <2>3, <1>1, <1>4, IdleKeeps
<1> QED
  BY <1>5, <1>6

\* What RecvInto does to the list: it grows, takes the data at the position,
\* and the position moves past them.
LEMMA RecvShape ==
    ASSUME ArrayIInv, NEW len \in 1 .. MaxIo, NEW data \in Seq(Byte), RecvInto(len, data)
    PROVE  /\ ArrayShape' /\ m_position' = m_position + Len(data) /\ m_position' <= m_size'
           /\ fault' = "none" /\ m_capacity' >= m_capacity
           /\ m_size' = IF m_position' > m_size THEN m_position' ELSE m_size
           /\ \E list \in Blocks :
                /\ Len(list) >= Len(blocks) /\ \A i \in 1 .. Len(blocks) : list[i] = blocks[i]
                /\ blocks' = Stored(list, m_position \div BaseSize + 1, m_position % BaseSize, data)
<1>1. Idle /\ Len(data) <= len /\ len \in Nat /\ Len(data) \in Nat /\ len > 0
  BY ByteArrayAssumption DEF RecvInto
<1>2. PICK fill \in Fills :
        LET grown == AddCapacity(len, fill)
        IN  /\ m_capacity' = grown.cap
            /\ fault' = IF grown.cur = 0 THEN "loop" ELSE fault
            /\ blocks' = Stored(grown.blocks, grown.cur, m_position % BaseSize, data)
            /\ IF Len(data) > 0 THEN MovesTo(grown.blocks, m_position + Len(data))
               ELSE m_cur' = grown.cur /\ UNCHANGED <<m_position, m_size>>
  BY Zenon DEF RecvInto
<1> DEFINE grown == AddCapacity(len, fill)
<1>3. /\ grown.blocks \in Blocks /\ Len(grown.blocks) >= Len(blocks)
      /\ \A i \in 1 .. Len(blocks) : grown.blocks[i] = blocks[i]
      /\ grown.cap \in Nat /\ grown.cap = Len(grown.blocks) * BaseSize
      /\ grown.cap >= m_position + len /\ grown.cap >= m_capacity
      /\ grown.cur = BlockAt(m_position, Len(grown.blocks))
  BY <1>1, Grows DEF ArrayIInv
<1>4. /\ m_capacity' = grown.cap
      /\ fault' = IF grown.cur = 0 THEN "loop" ELSE fault
      /\ blocks' = Stored(grown.blocks, grown.cur, m_position % BaseSize, data)
      /\ IF Len(data) > 0 THEN MovesTo(grown.blocks, m_position + Len(data))
         ELSE m_cur' = grown.cur /\ UNCHANGED <<m_position, m_size>>
  BY <1>2
<1> HIDE DEF grown
<1>5. /\ m_position \in Nat /\ m_size \in Nat /\ m_capacity \in Nat /\ m_position <= m_size
      /\ m_size <= m_capacity /\ Len(blocks) \in Nat /\ Len(blocks) > 0 /\ fault = "none"
      /\ m_position \div BaseSize \in Nat
  BY <1>1, IdleFacts DEF Blocks
<1>6. grown.cur = m_position \div BaseSize + 1 /\ grown.cur # 0
  <2>1. m_position # grown.cap
    BY <1>1, <1>3, <1>5
  <2> QED
    BY <2>1, <1>3, <1>5 DEF BlockAt
<1>7. blocks' \in Blocks /\ Len(blocks') = Len(grown.blocks)
  BY <1>3, <1>4, StoredType
<1>8. fault' = "none" /\ m_capacity' >= m_capacity
  BY <1>3, <1>4, <1>5, <1>6
<1>9. CASE Len(data) > 0
  <2>1. MovesTo(grown.blocks, m_position + Len(data))
    BY <1>4, <1>9
  <2>2. Len(grown.blocks) \in Nat /\ Len(grown.blocks) > 0
    BY <1>3, <1>5 DEF Blocks
  <2>3. m_position + Len(data) \in Nat /\ m_position + Len(data) <= Len(grown.blocks) * BaseSize
        /\ m_size <= Len(grown.blocks) * BaseSize
    BY <1>1, <1>3, <1>5
  <2>4. ArrayShape' /\ m_position' <= m_size' /\ m_position' = m_position + Len(data)
    BY <2>1, <2>2, <2>3, <1>3, <1>4, <1>5, <1>7, MovesToShape
  <2>5. m_size' = IF m_position' > m_size THEN m_position' ELSE m_size
    BY <2>1 DEF MovesTo
  <2> QED
    BY <2>4, <2>5, <1>3, <1>4, <1>6, <1>8
<1>10. CASE ~(Len(data) > 0)
  <2>1. m_cur' = grown.cur /\ m_position' = m_position /\ m_size' = m_size /\ Len(data) = 0
    BY <1>1, <1>4, <1>10
  <2>2. m_position + Len(data) = m_position /\ ~(m_position > m_size)
    BY <2>1, <1>5
  <2>3. Len(grown.blocks) \in Nat /\ Len(grown.blocks) > 0
    BY <1>3, <1>5 DEF Blocks
  <2>4. m_position <= grown.cap /\ m_size <= grown.cap
    BY <1>3, <1>5
  <2>5. ArrayShape'
    BY <2>1, <2>3, <2>4, <1>3, <1>4, <1>5, <1>7 DEF ArrayShape
  <2> QED
    BY <2>1, <2>2, <2>5, <1>3, <1>4, <1>5, <1>6, <1>8
<1> QED
  BY <1>9, <1>10

LEMMA RecvIntoKeeps ==
    ASSUME ArrayIInv, NEW len \in 1 .. MaxIo, NEW data \in Packets \cup {<<>>}, RecvInto(len, data)
    PROVE  ArrayIInv'
<1>1. data \in Seq(Byte)
  <2>1. <<>> \in Seq(Byte)
    OBVIOUS
  <2> QED
    BY <2>1, ByteArrayAssumption
<1>2. ArrayShape' /\ m_position' <= m_size' /\ fault' = "none" /\ m_capacity' >= m_capacity
  BY <1>1, RecvShape
<1>3. Idle /\ op' = op /\ little' = little /\ out' = <<>> /\ recs' = Untouched(m_position, Len(data))
  BY DEF RecvInto
<1>4. recs' \subseteq recs /\ out' \in Seq(Byte) /\ little' \in BOOLEAN /\ FaultOnlyAtEnd'
  BY <1>2, <1>3, IdleFacts DEF Untouched, FaultOnlyAtEnd
<1> QED
  BY <1>2, <1>3, <1>4, IdleKeeps

LEMMA ArrayNextKeeps == ArrayIInv /\ [ArrayNext]_arrayVars => ArrayIInv'
<1> SUFFICES ASSUME ArrayIInv, [ArrayNext]_arrayVars PROVE ArrayIInv'
  OBVIOUS
<1>1. CASE UNCHANGED arrayVars
  BY <1>1 DEF arrayVars, ArrayIInv, ArrayShape, ArrayState, WritePlace, ReadPlace, FaultOnlyAtEnd
<1>2. CASE \/ \E f \in Fields : WriteField(f)
           \/ \E p \in Packets : WriteBytes(p) \/ ReadFromFile(p)
  BY <1>2, WriteFieldKeeps, WriteBytesKeeps, ReadFromFileKeeps
<1>3. CASE WriteCall \/ WriteLastTurn \/ WriteFillTurn \/ WriteReturn
  BY <1>3, WriteCallKeeps, WriteLastTurnKeeps, WriteFillTurnKeeps, WriteReturnKeeps
<1>4. CASE (\E t \in Types : StartRead(t)) \/ ReadThrows \/ ReadCall \/ ReadLastTurn \/ ReadFillTurn
  BY <1>4, StartReadKeeps, ReadThrowsKeeps, ReadCallKeeps, ReadLastTurnKeeps, ReadFillTurnKeeps
<1>5. CASE VarintMore \/ ReadReturn \/ ReadLength
  BY <1>5, VarintMoreKeeps, ReadReturnKeeps, ReadLengthKeeps
<1>6. CASE \/ \E v \in 0 .. MaxCapacity + BaseSize : SetPosition(v)
           \/ Clear
           \/ \E val \in BOOLEAN : SetIsLittleEndian(val)
  BY <1>6, SetPositionKeeps, ClearKeeps, SetIsLittleEndianKeeps
<1>7. CASE \/ AsString \/ WriteToFile
           \/ \E len \in 1 .. MaxIo : SendFrom(len)
           \/ \E len \in 1 .. MaxIo, data \in Packets \cup {<<>>} : RecvInto(len, data)
  BY <1>7, PeekKeeps, SendFromKeeps, RecvIntoKeeps
<1> QED
  BY <1>1, <1>2, <1>3, <1>4, <1>5, <1>6, <1>7 DEF ArrayNext

LEMMA ArrayIInvSuffices == ArrayIInv => ArrayInv
<1> SUFFICES ASSUME ArrayIInv PROVE ArrayInv
  OBVIOUS
<1>1. m_cur \in 0 .. Len(blocks)
  <2>1. Len(blocks) \in Nat
    BY DEF ArrayIInv, ArrayShape, Blocks
  <2> QED
    BY <2>1, BlockAtBound DEF ArrayIInv, ArrayShape
<1>2. ArrayTypeOK
  BY <1>1, OpKinds DEF ArrayIInv, ArrayShape, ArrayState, ArrayTypeOK, Blocks
<1>3. CurMatchesPosition
  BY DEF ArrayIInv, ArrayShape, CurMatchesPosition, BlockAt
<1> QED
  BY <1>2, <1>3 DEF ArrayInv, ArrayIInv

-----------------------------------------------------------------------------
(* The block list implements the flat buffer.                              *)

\* The content of a list, as Content takes it of blocks.
BytesOf(list, p, s) == [i \in 1 .. (IF p > s THEN p ELSE s) |-> ByteAt(list, i)]

LEMMA BytesOfIs ==
    ASSUME NEW list \in Blocks, NEW p \in Nat, NEW s \in Nat,
           p <= Len(list) * BaseSize, s <= Len(list) * BaseSize
    PROVE  /\ BytesOf(list, p, s) \in Seq(Byte)
           /\ Len(BytesOf(list, p, s)) = IF p > s THEN p ELSE s
           /\ \A i \in 1 .. Len(BytesOf(list, p, s)) :
                 BytesOf(list, p, s)[i] = ByteAt(list, i) /\ i \in 1 .. Len(list) * BaseSize
<1> DEFINE n == IF p > s THEN p ELSE s
<1>1. n \in Nat /\ n <= Len(list) * BaseSize /\ Len(list) * BaseSize \in Nat
  BY ByteArrayAssumption DEF Blocks
<1> HIDE DEF n
<1>2. \A i \in 1 .. n : i \in 1 .. Len(list) * BaseSize
  BY <1>1
<1>3. \A i \in 1 .. n : ByteAt(list, i) \in Byte
  BY <1>2, ByteAtIs
<1>4. BytesOf(list, p, s) = [i \in 1 .. n |-> ByteAt(list, i)]
  BY DEF BytesOf, n
<1>5. BytesOf(list, p, s) \in Seq(Byte) /\ Len(BytesOf(list, p, s)) = n
  BY <1>1, <1>3, <1>4
<1> QED
  BY <1>2, <1>4, <1>5 DEF n

\* A sequence that differs from another between p and q only is that other
\* one with the difference laid over it.
LEMMA OverlayOfBytes ==
    ASSUME NEW s \in Seq(Byte), NEW t \in Seq(Byte), NEW p \in Nat, NEW q \in Nat,
           p <= Len(s), p < q, Len(t) = IF q > Len(s) THEN q ELSE Len(s),
           \A i \in 1 .. Len(t) : ~(i \in p + 1 .. q) => t[i] = s[i]
    PROVE  /\ Len(SubSeq(t, p + 1, q)) = q - p
           /\ t = SubSeq(s, 1, p) \o SubSeq(t, p + 1, q) \o SubSeq(s, p + (q - p) + 1, Len(s))
<1> DEFINE a == SubSeq(s, 1, p)
           m == SubSeq(t, p + 1, q)
           z == SubSeq(s, p + (q - p) + 1, Len(s))
<1>0. p + (q - p) + 1 = q + 1 /\ Len(s) \in Nat /\ Len(t) \in Nat /\ q <= Len(t)
  OBVIOUS
<1>1. a \in Seq(Byte) /\ Len(a) = p /\ \A i \in 1 .. p : a[i] = s[i]
  OBVIOUS
<1>2. m \in Seq(Byte) /\ Len(m) = q - p /\ \A i \in 1 .. q - p : m[i] = t[p + i]
  BY <1>0
<1>3. /\ z \in Seq(Byte)
      /\ Len(z) = IF q > Len(s) THEN 0 ELSE Len(s) - q
      /\ \A i \in 1 .. Len(z) : z[i] = s[q + i]
  <2>1. z = SubSeq(s, q + 1, Len(s))
    BY <1>0, Zenon
  <2> HIDE DEF z
  <2>2. CASE q > Len(s)
    BY <2>1, <2>2, <1>0
  <2>3. CASE q <= Len(s)
    BY <2>1, <2>3, <1>0
  <2> QED
    BY <2>2, <2>3, <1>0
<1> HIDE DEF a, m, z
<1>4. a \o m \in Seq(Byte) /\ Len(a \o m) = q /\ \A i \in 1 .. q : (a \o m)[i] = IF i <= p THEN a[i] ELSE m[i - p]
  <2>1. a \in Seq(Byte) /\ m \in Seq(Byte) /\ Len(a) = p /\ Len(m) = q - p /\ p \in Nat /\ q \in Nat /\ p < q
    BY <1>1, <1>2
  <2>2. a \o m \in Seq(Byte) /\ Len(a \o m) = Len(a) + Len(m)
    BY <2>1, ConcatProperties
  <2>3. \A i \in 1 .. Len(a) + Len(m) : (a \o m)[i] = IF i <= Len(a) THEN a[i] ELSE m[i - Len(a)]
    BY <2>1, ConcatProperties, Zenon
  <2>4. Len(a) + Len(m) = q
    BY <2>1
  <2> QED
    BY <2>1, <2>2, <2>3, <2>4
<1> DEFINE am == a \o m
<1>5. am \in Seq(Byte) /\ Len(am) = q
  BY <1>4
<1>6. \A i \in 1 .. q : am[i] = t[i]
  <2>1. ASSUME NEW i \in 1 .. q, i <= p PROVE am[i] = t[i]
    <3>1. i \in 1 .. Len(t) /\ ~(i \in p + 1 .. q) /\ i \in 1 .. p
      BY <1>0, <2>1
    <3>2. am[i] = a[i]
      BY <2>1, <1>4, Zenon
    <3>3. a[i] = s[i]
      BY <3>1, <1>1, Zenon
    <3>4. t[i] = s[i]
      BY <3>1, Zenon
    <3> QED
      BY <3>2, <3>3, <3>4, Zenon
  <2>2. ASSUME NEW i \in 1 .. q, ~(i <= p) PROVE am[i] = t[i]
    <3>1. i - p \in 1 .. q - p /\ p + (i - p) = i
      BY <2>2
    <3>2. am[i] = m[i - p]
      BY <2>2, <1>4
    <3> QED
      BY <3>1, <3>2, <1>2
  <2> QED
    BY <2>1, <2>2
<1> HIDE DEF am
<1>7. am \o z \in Seq(Byte) /\ Len(am \o z) = Len(t)
  <2>1. am \in Seq(Byte) /\ z \in Seq(Byte) /\ Len(am) = q
    BY <1>3, <1>5
  <2>2. am \o z \in Seq(Byte) /\ Len(am \o z) = Len(am) + Len(z)
    BY <2>1, ConcatProperties
  <2>3. q + Len(z) = Len(t)
    BY <1>0, <1>3
  <2> QED
    BY <2>1, <2>2, <2>3
<1>8. \A i \in 1 .. Len(t) : (am \o z)[i] = t[i]
  <2>1. ASSUME NEW i \in 1 .. Len(t), i <= q PROVE (am \o z)[i] = t[i]
    <3>1. i \in 1 .. q
      BY <2>1, <1>0
    <3>2. (am \o z)[i] = am[i]
      BY <3>1, <1>3, <1>5
    <3> QED
      BY <3>1, <3>2, <1>6
  <2>2. ASSUME NEW i \in 1 .. Len(t), ~(i <= q) PROVE (am \o z)[i] = t[i]
    <3>1. i - q \in 1 .. Len(z) /\ q + (i - q) = i /\ ~(i \in p + 1 .. q)
      BY <2>2, <1>0, <1>3
    <3>2. (am \o z)[i] = z[i - q]
      BY <2>2, <3>1, <1>3, <1>5, <1>7
    <3>3. z[i - q] = s[i] /\ t[i] = s[i]
      BY <3>1, <1>3
    <3> QED
      BY <3>2, <3>3
  <2> QED
    BY <2>1, <2>2
<1>9. am \o z = t
  BY <1>7, <1>8, SeqEqual
<1> QED
  BY <1>2, <1>9 DEF a, m, z, am

\* The same with the hypothesis and the conclusion named, to be cited.
Overlaid(s, t, p, q) ==
    /\ s \in Seq(Byte) /\ t \in Seq(Byte) /\ p \in Nat /\ q \in Nat /\ p <= Len(s) /\ p < q
    /\ Len(t) = IF q > Len(s) THEN q ELSE Len(s)
    /\ \A i \in 1 .. Len(t) : ~(i \in p + 1 .. q) => t[i] = s[i]

Overlay(s, t, p, q) ==
    /\ Len(SubSeq(t, p + 1, q)) = q - p
    /\ t = SubSeq(s, 1, p) \o SubSeq(t, p + 1, q) \o SubSeq(s, p + (q - p) + 1, Len(s))

LEMMA OverlayIs ==
    ASSUME NEW s, NEW t, NEW p, NEW q, Overlaid(s, t, p, q)
    PROVE  Overlay(s, t, p, q)
BY OverlayOfBytes, Zenon DEF Overlaid, Overlay

LEMMA ContentIs ==
    ASSUME ArrayShape
    PROVE  /\ Content \in Seq(Byte)
           /\ Len(Content) = IF m_position > m_size THEN m_position ELSE m_size
           /\ Len(Content) \in Nat /\ m_position \in 0 .. Len(Content)
           /\ \A i \in 1 .. Len(Content) : Content[i] = ByteAt(blocks, i) /\ i \in 1 .. m_capacity
<1>1. Content = BytesOf(blocks, m_position, m_size)
  BY DEF Content, BytesOf
<1>2. /\ m_position \in Nat /\ m_size \in Nat /\ blocks \in Blocks /\ m_capacity = Len(blocks) * BaseSize
      /\ m_position <= Len(blocks) * BaseSize /\ m_size <= Len(blocks) * BaseSize
  BY DEF ArrayShape
<1>3. /\ Content \in Seq(Byte)
      /\ Len(Content) = IF m_position > m_size THEN m_position ELSE m_size
      /\ \A i \in 1 .. Len(Content) : Content[i] = ByteAt(blocks, i) /\ i \in 1 .. Len(blocks) * BaseSize
  BY <1>1, <1>2, BytesOfIs
<1>4. Len(Content) \in Nat /\ m_position \in 0 .. Len(Content)
  BY <1>2, <1>3
<1> QED
  BY <1>2, <1>3, <1>4

LEMMA ContentNext ==
    ASSUME ArrayShape'
    PROVE  /\ Content' \in Seq(Byte)
           /\ Len(Content') = IF m_position' > m_size' THEN m_position' ELSE m_size'
           /\ \A i \in 1 .. Len(Content') : Content'[i] = ByteAt(blocks', i) /\ i \in 1 .. m_capacity'
<1>1. Content' = BytesOf(blocks', m_position', m_size')
  BY DEF Content, BytesOf, ByteAt
<1>2. /\ m_position' \in Nat /\ m_size' \in Nat /\ blocks' \in Blocks /\ m_capacity' = Len(blocks') * BaseSize
      /\ m_position' <= Len(blocks') * BaseSize /\ m_size' <= Len(blocks') * BaseSize
  BY DEF ArrayShape
<1>3. /\ Content' \in Seq(Byte)
      /\ Len(Content') = IF m_position' > m_size' THEN m_position' ELSE m_size'
      /\ \A i \in 1 .. Len(Content') : Content'[i] = ByteAt(blocks', i) /\ i \in 1 .. Len(blocks') * BaseSize
  BY <1>1, <1>2, BytesOfIs
<1> QED
  BY <1>2, <1>3

\* The bytes of the list are the same as far as the content goes.
LEMMA SameContent ==
    ASSUME ArrayShape, ArrayShape', m_position' = m_position, m_size' = m_size,
           \A i \in 1 .. m_capacity : ByteAt(blocks', i) = ByteAt(blocks, i)
    PROVE  Content' = Content
<1>1. Content \in Seq(Byte) /\ Content' \in Seq(Byte) /\ Len(Content') = Len(Content)
  BY ContentIs, ContentNext
<1>2. \A i \in 1 .. Len(Content) : Content'[i] = Content[i]
  BY <1>1, ContentIs, ContentNext
<1> QED
  BY <1>1, <1>2, SeqEqual

\* A step that moves nothing and hands out nothing.
LEMMA StutterStep ==
    ASSUME ArrayShape, Content' = Content, m_position' = m_position, out' = out \/ out' = <<>>
    PROVE  [Flat!Next]_(Flat!vars)
<1>1. CASE out' = out
  BY <1>1 DEF Flat!vars
<1>2. CASE out' = <<>>
  <2>1. 0 \in 0 .. Len(Content) - m_position /\ SubSeq(Content, m_position + 1, m_position + 0) = <<>>
    BY ContentIs
  <2>2. Flat!Peek
    BY <2>1, <1>2 DEF Flat!Peek
  <2> QED
    BY <2>2 DEF Flat!Next
<1> QED
  BY <1>1, <1>2

\* n bytes are stored at the position, which moves past them.
LEMMA PutStep ==
    ASSUME ArrayShape, ArrayShape', NEW n \in Nat, n > 0, m_position' = m_position + n, out' = <<>>,
           m_size' = m_size \/ m_size' = (IF m_position' > m_size THEN m_position' ELSE m_size),
           \A i \in 1 .. m_capacity :
               ~(i \in m_position + 1 .. m_position + n) => ByteAt(blocks', i) = ByteAt(blocks, i)
    PROVE  Flat!Put
<1> DEFINE q == m_position + n
<1>1. m_position \in Nat /\ m_size \in Nat /\ q \in Nat /\ m_position < q /\ m_position' = q /\ m_capacity \in Nat
  BY DEF ArrayShape
<1>2. Content \in Seq(Byte) /\ Content' \in Seq(Byte) /\ m_position <= Len(Content) /\ Len(Content) \in Nat
  BY ContentIs, ContentNext
<1>3. Len(Content') = IF q > Len(Content) THEN q ELSE Len(Content)
  <2>1. Len(Content) = IF m_position > m_size THEN m_position ELSE m_size
    BY ContentIs
  <2>2. Len(Content') = IF q > m_size' THEN q ELSE m_size'
    BY <1>1, ContentNext
  <2>3. m_size' \in {m_size, IF q > m_size THEN q ELSE m_size}
    BY <1>1
  <2> HIDE DEF q
  <2> QED
    BY <1>1, <2>1, <2>2, <2>3
<1>4. ASSUME NEW i \in 1 .. Len(Content'), ~(i \in m_position + 1 .. q)
      PROVE  Content'[i] = Content[i]
  <2>1. i \in 1 .. Len(Content)
    BY <1>1, <1>2, <1>3, <1>4
  <2>2. Content[i] = ByteAt(blocks, i) /\ i \in 1 .. m_capacity
    BY <2>1, ContentIs
  <2>3. Content'[i] = ByteAt(blocks', i)
    BY ContentNext
  <2> QED
    BY <2>2, <2>3, <1>4
<1> DEFINE chunk == SubSeq(Content', m_position + 1, q)
<1> HIDE DEF q
<1>5. /\ Len(chunk) = q - m_position
      /\ Content' = SubSeq(Content, 1, m_position) \o chunk
                      \o SubSeq(Content, m_position + (q - m_position) + 1, Len(Content))
  <2>1. \A i \in 1 .. Len(Content') : ~(i \in m_position + 1 .. q) => Content'[i] = Content[i]
    BY <1>4, Zenon
  <2> DEFINE s == Content
             t == Content'
             p == m_position
  <2>2. /\ s \in Seq(Byte) /\ t \in Seq(Byte) /\ p \in Nat /\ q \in Nat /\ p <= Len(s) /\ p < q
        /\ Len(t) = IF q > Len(s) THEN q ELSE Len(s)
        /\ \A i \in 1 .. Len(t) : ~(i \in p + 1 .. q) => t[i] = s[i]
    BY <1>1, <1>2, <1>3, <2>1
  <2> HIDE DEF s, t, p
  <2>3. Overlaid(s, t, p, q)
    BY <2>2, Zenon DEF Overlaid
  <2>4. Overlay(s, t, p, q)
    BY <2>3, OverlayIs, Zenon
  <2> QED
    BY <2>4, Zenon DEF Overlay, s, t, p
<1>6. m_position' > m_position /\ m_position' = m_position + Len(chunk)
  BY <1>1, <1>5
<1>7. Content' = SubSeq(Content, 1, m_position) \o chunk
                   \o SubSeq(Content, m_position + Len(chunk) + 1, Len(Content))
  BY <1>5, Zenon
<1>8. chunk = SubSeq(Content', m_position + 1, m_position')
  BY <1>1
<1> HIDE DEF chunk
<1> QED
  BY <1>6, <1>7, <1>8, Zenon DEF Flat!Put, Flat!Overwrites, Flat!Overlaid

\* n bytes behind the position, as Loaded takes them, are those of the content.
LEMMA TakenBytes ==
    ASSUME ArrayShape, NEW n \in Nat, m_position + n <= m_size
    PROVE  /\ Loaded(m_position \div BaseSize + 1, m_position % BaseSize, n)
                = SubSeq(Content, m_position + 1, m_position + n)
           /\ m_position + n \in m_position .. Len(Content)
<1> DEFINE l == Loaded(m_position \div BaseSize + 1, m_position % BaseSize, n)
           s == SubSeq(Content, m_position + 1, m_position + n)
<1>1. m_position \in Nat /\ m_size \in Nat
  BY DEF ArrayShape
<1>2. l = [k \in 1 .. n |-> ByteAt(blocks, m_position + k)] /\ l \in Seq(Byte) /\ Len(l) = n
  BY <1>1, LoadedIs, LoadedType
<1>3. Content \in Seq(Byte) /\ Len(Content) = (IF m_position > m_size THEN m_position ELSE m_size)
      /\ Len(Content) \in Nat
  BY ContentIs
<1>4. m_position + n <= Len(Content) /\ m_position + n \in m_position .. Len(Content)
  BY <1>1, <1>3
<1>5. s \in Seq(Byte) /\ Len(s) = n /\ \A k \in 1 .. n : s[k] = Content[m_position + k]
  BY <1>1, <1>3, <1>4
<1>6. \A k \in 1 .. n : Content[m_position + k] = ByteAt(blocks, m_position + k)
  <2>1. \A k \in 1 .. n : m_position + k \in 1 .. Len(Content)
    BY <1>1, <1>4
  <2> QED
    BY <2>1, ContentIs
<1> HIDE DEF s, l
<1>7. \A k \in 1 .. n : l[k] = s[k]
  BY <1>2, <1>5, <1>6
<1>8. l = s
  BY <1>2, <1>5, <1>7, SeqEqual
<1> QED
  BY <1>4, <1>8 DEF l, s

\* n bytes behind the position are handed out, and the position moves past them.
LEMMA TakeStep ==
    ASSUME ArrayShape, NEW n \in Nat, m_position + n <= m_size, m_position' = m_position + n,
           Content' = Content,
           out' = Loaded(m_position \div BaseSize + 1, m_position % BaseSize, n)
    PROVE  Flat!Take
BY TakenBytes DEF Flat!Take

\* What the turns of write() store lies behind the position, the rest stays.
LEMMA StoredBehind ==
    ASSUME ArrayShape, NEW data \in Seq(Byte), NEW list \in Blocks, Len(list) >= Len(blocks),
           \A i \in 1 .. Len(blocks) : list[i] = blocks[i],
           blocks' = Stored(list, m_position \div BaseSize + 1, m_position % BaseSize, data)
    PROVE  \A i \in 1 .. m_capacity :
               ~(i \in m_position + 1 .. m_position + Len(data)) => ByteAt(blocks', i) = ByteAt(blocks, i)
<1> SUFFICES ASSUME NEW i \in 1 .. m_capacity, ~(i \in m_position + 1 .. m_position + Len(data))
             PROVE  ByteAt(blocks', i) = ByteAt(blocks, i)
  OBVIOUS
<1>1. /\ m_position \in Nat /\ blocks \in Blocks /\ m_capacity = Len(blocks) * BaseSize /\ m_capacity \in Nat
      /\ Len(blocks) \in Nat /\ Len(list) \in Nat /\ Len(data) \in Nat
  BY DEF ArrayShape, Blocks
<1>2. m_capacity <= Len(list) * BaseSize /\ Len(list) * BaseSize \in Nat
  BY <1>1, Product, ByteArrayAssumption
<1>3. i \in 1 .. Len(list) * BaseSize /\ i \in 1 .. Len(blocks) * BaseSize
  BY <1>1, <1>2
<1>4. ~(i - m_position \in 1 .. Len(data))
  BY <1>1
<1>5. ByteAt(blocks', i) = ByteAt(list, i)
  BY <1>1, <1>3, <1>4, StoredAt
<1>6. ByteAt(list, i) = ByteAt(blocks, i)
  BY <1>1, <1>3, ByteAtIs
<1> QED
  BY <1>5, <1>6

\* The turns and calls of write().
LEMMA WriteMaps ==
    ASSUME ArrayIInv, ArrayIInv', WriteCall \/ WriteLastTurn \/ WriteFillTurn \/ WriteReturn
    PROVE  [Flat!Next]_(Flat!vars)
<1>0. ArrayShape /\ ArrayShape' /\ blocks \in Blocks /\ Len(blocks) \in Nat
  BY DEF ArrayIInv, ArrayShape, Blocks
<1>1. CASE WriteCall
  <2>1. PICK fill \in Fills : blocks' = AddCapacity(Len(Head(op.calls)), fill).blocks
    BY <1>1 DEF WriteCall
  <2>2. Len(Head(op.calls)) \in Nat
    <3>1. op \in WriteOps /\ op.calls # <<>>
      BY <1>1, OpKinds DEF ArrayIInv, WriteCall
    <3>2. op.calls \in Seq(Seq(Byte))
      BY <3>1 DEF WriteOps
    <3>3. Head(op.calls) \in Seq(Byte)
      BY <3>1, <3>2
    <3> QED
      BY <3>3
  <2>3. \A i \in 1 .. Len(blocks) : blocks'[i] = blocks[i]
    BY <2>1, <2>2, <1>0, Grows
  <2>4. \A i \in 1 .. m_capacity : ByteAt(blocks', i) = ByteAt(blocks, i)
    <3>1. m_capacity = Len(blocks) * BaseSize
      BY <1>0 DEF ArrayShape
    <3> QED
      BY <3>1, <2>3, <1>0, ByteAtIs
  <2>5. m_position' = m_position /\ m_size' = m_size /\ out' = out
    BY <1>1 DEF WriteCall
  <2>6. Content' = Content
    BY <2>4, <2>5, <1>0, SameContent
  <2> QED
    BY <2>5, <2>6, <1>0, StutterStep
<1>2. CASE WriteLastTurn
  <2>1. op.kind = "write" /\ op.buf # <<>> /\ out' = <<>>
    BY <1>2 DEF WriteLastTurn
  <2>2. /\ op.buf \in Seq(Byte) /\ Len(op.buf) \in Nat /\ Len(op.buf) > 0
        /\ op.npos = m_position % BaseSize /\ m_cur = m_position \div BaseSize + 1
    BY <2>1, WriteTurnFacts
  <2>3. /\ blocks' = Stored(blocks, m_position \div BaseSize + 1, m_position % BaseSize, op.buf)
        /\ m_position' = m_position + Len(op.buf)
        /\ m_size' = IF m_position' > m_size THEN m_position' ELSE m_size
    BY <1>2, <2>2 DEF WriteLastTurn
  <2>4. \A i \in 1 .. m_capacity :
           ~(i \in m_position + 1 .. m_position + Len(op.buf)) => ByteAt(blocks', i) = ByteAt(blocks, i)
    BY <2>2, <2>3, <1>0, StoredBehind
  <2>5. Flat!Put
    BY <2>1, <2>2, <2>3, <2>4, <1>0, PutStep
  <2> QED
    BY <2>5 DEF Flat!Next
<1>3. CASE WriteFillTurn
  <2>1. op.kind = "write" /\ op.buf # <<>> /\ out' = <<>> /\ op.ncap < Len(op.buf)
    BY <1>3 DEF WriteFillTurn
  <2>2. /\ op.buf \in Seq(Byte) /\ Len(op.buf) \in Nat /\ op.ncap \in Nat /\ op.ncap > 0
        /\ op.npos = m_position % BaseSize /\ m_cur = m_position \div BaseSize + 1
    <3>1. /\ op.buf \in Seq(Byte) /\ op.ncap \in 1 .. BaseSize /\ BaseSize \in Nat \ {0}
          /\ op.npos = m_position % BaseSize /\ m_cur = m_position \div BaseSize + 1
          /\ Len(op.buf) \in Nat \ {0}
      BY <1>0, <2>1, WriteTurnFacts, Zenon
    <3> QED
      BY ONLY <3>1
  <2> DEFINE data == SubSeq(op.buf, 1, op.ncap)
  <2>3. data \in Seq(Byte) /\ Len(data) = op.ncap
    BY <2>1, <2>2
  <2>4. /\ blocks' = Stored(blocks, m_position \div BaseSize + 1, m_position % BaseSize, data)
        /\ m_position' = m_position + op.ncap
        /\ m_size' = m_size
    BY <1>3, <2>2 DEF WriteFillTurn
  <2> HIDE DEF data
  <2>5. \A i \in 1 .. m_capacity :
           ~(i \in m_position + 1 .. m_position + op.ncap) => ByteAt(blocks', i) = ByteAt(blocks, i)
    BY <2>3, <2>4, <1>0, StoredBehind
  <2>6. Flat!Put
    BY <2>1, <2>2, <2>4, <2>5, <1>0, PutStep
  <2> QED
    BY <2>6 DEF Flat!Next
<1>4. CASE WriteReturn
  <2>1. UNCHANGED <<m_position, m_size, blocks, out>>
    BY <1>4 DEF WriteReturn, array
  <2>2. Content' = Content
    BY <2>1, <1>0, SameContent
  <2> QED
    BY <2>1, <2>2, <1>0, StutterStep
<1> QED
  BY <1>1, <1>2, <1>3, <1>4

\* The steps of the API that touch neither the list nor the position and hand
\* out nothing.
LEMMA QuietMaps ==
    ASSUME ArrayIInv, ArrayIInv', UNCHANGED <<m_position, m_size, blocks>>, out' = out \/ out' = <<>>
    PROVE  [Flat!Next]_(Flat!vars)
<1>1. ArrayShape /\ ArrayShape'
  BY DEF ArrayIInv
<1>2. Content' = Content
  BY <1>1, SameContent
<1> QED
  BY <1>1, <1>2, StutterStep

LEMMA StartMaps ==
    ASSUME ArrayIInv, ArrayIInv',
           \/ \E f \in Fields : WriteField(f)
           \/ \E p \in Packets : WriteBytes(p) \/ ReadFromFile(p)
           \/ \E t \in Types : StartRead(t)
           \/ ReadThrows \/ ReadCall \/ VarintMore \/ ReadReturn \/ ReadLength
           \/ \E val \in BOOLEAN : SetIsLittleEndian(val)
    PROVE  [Flat!Next]_(Flat!vars)
<1>1. UNCHANGED array /\ (out' = out \/ out' = <<>>)
  BY DEF WriteField, WriteBytes, ReadFromFile, StartsWriting, StartRead, ReadThrows, ReadCall, VarintMore,
         ReadReturn, ReadLength, SetIsLittleEndian
<1> QED
  BY <1>1, QuietMaps DEF array

\* The turns of read().
LEMMA ReadTurnMaps ==
    ASSUME ArrayIInv, ArrayIInv', ReadLastTurn \/ ReadFillTurn
    PROVE  [Flat!Next]_(Flat!vars)
<1>0. op.kind = "read" /\ op.step = "turn" /\ ArrayShape /\ ArrayShape'
  BY DEF ReadLastTurn, ReadFillTurn, ArrayIInv
<1>1. /\ op.size \in Nat /\ m_position \in Nat /\ m_size \in Nat /\ m_position + op.size <= m_size
      /\ op.npos = m_position % BaseSize /\ m_cur = m_position \div BaseSize + 1 /\ op.ncap \in Nat
  BY <1>0, ReadFacts, ReadTurnFacts
<1>2. PICK n \in Nat : /\ n <= op.size /\ m_position' = m_position + n
                       /\ out' = Loaded(m_position \div BaseSize + 1, m_position % BaseSize, n)
  BY <1>1 DEF ReadLastTurn, ReadFillTurn
<1>3. UNCHANGED <<m_size, blocks>>
  BY DEF ReadLastTurn, ReadFillTurn
<1>4. m_position + n <= m_size /\ m_position' <= m_size
  BY <1>1, <1>2
<1>5. Content' = Content
  <2>1. Content \in Seq(Byte) /\ Content' \in Seq(Byte) /\ Len(Content') = m_size /\ Len(Content) = m_size
    <3>1. ~(m_position > m_size) /\ ~(m_position' > m_size)
      BY <1>1, <1>2, <1>4
    <3> QED
      BY <3>1, <1>0, <1>3, ContentIs, ContentNext
  <2>2. \A i \in 1 .. m_size : Content'[i] = Content[i]
    BY <2>1, <1>0, <1>3, ContentIs, ContentNext
  <2> QED
    BY <2>1, <2>2, SeqEqual
<1>6. Flat!Take
  BY <1>0, <1>2, <1>4, <1>5, TakeStep
<1> QED
  BY <1>6 DEF Flat!Next

\* setPosition, clear, toString, writeToFile.
LEMMA SeekMaps ==
    ASSUME ArrayIInv, ArrayIInv', NEW v \in Nat, SetPosition(v)
    PROVE  [Flat!Next]_(Flat!vars)
<1>1. /\ Idle /\ m_position' = v /\ m_size' = (IF v > m_size THEN v ELSE m_size) /\ blocks' = blocks
      /\ out' = <<>> /\ ArrayShape /\ ArrayShape'
  BY DEF SetPosition, MovesTo, ArrayIInv
<1>2. m_position \in Nat /\ m_size \in Nat /\ m_position <= m_size
  BY <1>1, IdleFacts
<1>3. Content \in Seq(Byte) /\ Content' \in Seq(Byte) /\ Len(Content) = m_size
      /\ Len(Content') = IF v > m_size THEN v ELSE m_size
  <2>1. ~(m_position > m_size)
    BY <1>2
  <2>2. (IF m_position' > m_size' THEN m_position' ELSE m_size') = IF v > m_size THEN v ELSE m_size
    BY <1>1, <1>2
  <2> QED
    BY <2>1, <2>2, <1>1, ContentIs, ContentNext
<1>4. SubSeq(Content', 1, Len(Content)) = Content
  <2> DEFINE s == SubSeq(Content', 1, m_size)
  <2>1. m_size <= Len(Content') /\ m_size \in Nat
    BY <1>2, <1>3
  <2>2. s \in Seq(Byte) /\ Len(s) = m_size /\ \A i \in 1 .. m_size : s[i] = Content'[i]
    BY <2>1, <1>3
  <2>3. \A i \in 1 .. m_size : i \in 1 .. Len(Content') /\ i \in 1 .. Len(Content)
    BY <2>1, <1>3
  <2>4. \A i \in 1 .. m_size : Content'[i] = Content[i]
    BY <2>3, <1>1, ContentIs, ContentNext
  <2> HIDE DEF s
  <2>5. s = Content
    BY <2>2, <2>4, <1>3, SeqEqual
  <2> QED
    BY <2>5, <1>3 DEF s
<1>5. Flat!Seek
  BY <1>1, <1>3, <1>4 DEF Flat!Seek
<1> QED
  BY <1>5 DEF Flat!Next

LEMMA ClearMaps ==
    ASSUME Clear
    PROVE  [Flat!Next]_(Flat!vars)
<1>1. m_position' = 0 /\ m_size' = 0 /\ out' = <<>>
  BY DEF Clear
<1>2. Content' = <<>>
  BY <1>1 DEF Content
<1>3. Flat!Clear
  BY <1>1, <1>2 DEF Flat!Clear
<1> QED
  BY <1>3 DEF Flat!Next

LEMMA PeekMaps ==
    ASSUME ArrayIInv, ArrayIInv', AsString \/ WriteToFile
    PROVE  [Flat!Next]_(Flat!vars)
<1>1. Idle /\ UNCHANGED <<m_position, m_size, blocks>> /\ ArrayShape /\ ArrayShape'
      /\ (Looks(m_size - m_position) \/ out' = <<>>)
  BY DEF AsString, WriteToFile, array, ArrayIInv
<1>2. CASE out' = <<>>
  BY <1>1, <1>2, QuietMaps
<1>3. CASE Looks(m_size - m_position)
  <2> DEFINE n == m_size - m_position
  <2>1. n \in Nat /\ m_position + n <= m_size /\ m_position \in Nat
    BY <1>1, IdleFacts
  <2>2. /\ m_cur = 0 => out' = out
        /\ m_cur # 0 => out' = Loaded(m_position \div BaseSize + 1, m_position % BaseSize, n)
    BY <1>1, <1>3, <2>1, LooksAt
  <2> HIDE DEF n
  <2>3. CASE m_cur = 0
    BY <2>2, <2>3, <1>1, QuietMaps
  <2>4. CASE m_cur # 0
    <3>1. Content' = Content
      BY <1>1, SameContent
    <3>2. out' = SubSeq(Content, m_position + 1, m_position + n) /\ m_position + n \in m_position .. Len(Content)
      BY <1>1, <2>1, <2>2, <2>4, TakenBytes
    <3>3. n \in 0 .. Len(Content) - m_position
      BY <3>2, <2>1, <1>1, ContentIs
    <3>4. Flat!Peek
      BY <1>1, <3>1, <3>2, <3>3 DEF Flat!Peek
    <3> QED
      BY <3>4 DEF Flat!Next
  <2> QED
    BY <2>3, <2>4
<1> QED
  BY <1>1, <1>2, <1>3

\* SockStream::write and SockStream::read.
LEMMA SendMaps ==
    ASSUME ArrayIInv, ArrayIInv', NEW len \in 1 .. MaxIo, SendFrom(len)
    PROVE  [Flat!Next]_(Flat!vars)
<1> DEFINE n == IF len > m_size - m_position THEN m_size - m_position ELSE len
<1>1. Idle /\ blocks' = blocks /\ ArrayShape /\ ArrayShape'
  BY DEF SendFrom, ArrayIInv
<1>2. PICK rt \in 0 .. n : /\ Looks(rt)
                           /\ IF m_cur # 0 /\ rt > 0 THEN MovesTo(blocks, m_position + rt)
                              ELSE UNCHANGED <<m_position, m_size, m_cur>>
  BY DEF SendFrom
<1>3. rt \in Nat /\ m_position + rt <= m_size /\ m_position \in Nat /\ m_size \in Nat /\ m_position <= m_size
  <2>1. n \in Nat /\ n <= m_size - m_position
    BY <1>1, IdleFacts, ByteArrayAssumption
  <2> HIDE DEF n
  <2> QED
    BY <2>1, <1>1, <1>2, IdleFacts
<1>4. /\ m_cur = 0 => out' = out
      /\ m_cur # 0 => out' = Loaded(m_position \div BaseSize + 1, m_position % BaseSize, rt)
  BY <1>1, <1>2, <1>3, LooksAt
<1>5. CASE m_cur = 0
  BY <1>1, <1>2, <1>4, <1>5, QuietMaps
<1>6. CASE m_cur # 0
  <2>1. m_position' = m_position + rt /\ m_size' = m_size
    <3>1. CASE rt > 0
      BY <3>1, <1>2, <1>3, <1>6 DEF MovesTo
    <3>2. CASE ~(rt > 0)
      BY <3>2, <1>2, <1>3
    <3> QED
      BY <3>1, <3>2
  <2>2. Content \in Seq(Byte) /\ Content' \in Seq(Byte) /\ Len(Content') = m_size /\ Len(Content) = m_size
    <3>1. ~(m_position > m_size) /\ ~(m_position' > m_size)
      BY <1>3, <2>1
    <3> QED
      BY <3>1, <2>1, <1>1, ContentIs, ContentNext
  <2>3. \A i \in 1 .. m_size : Content'[i] = Content[i]
    BY <2>2, <1>1, ContentIs, ContentNext
  <2>4. Content' = Content
    BY <2>2, <2>3, SeqEqual
  <2>5. Flat!Take
    BY <2>1, <2>4, <1>1, <1>3, <1>4, <1>6, TakeStep
  <2> QED
    BY <2>5 DEF Flat!Next
<1> QED
  BY <1>5, <1>6

LEMMA RecvMaps ==
    ASSUME ArrayIInv, ArrayIInv', NEW len \in 1 .. MaxIo, NEW data \in Packets \cup {<<>>},
           RecvInto(len, data)
    PROVE  [Flat!Next]_(Flat!vars)
<1>1. data \in Seq(Byte)
  <2>1. <<>> \in Seq(Byte)
    OBVIOUS
  <2> QED
    BY <2>1, ByteArrayAssumption
<1>2. /\ m_position' = m_position + Len(data)
      /\ m_size' = IF m_position' > m_size THEN m_position' ELSE m_size
      /\ \E list \in Blocks :
                /\ Len(list) >= Len(blocks) /\ \A i \in 1 .. Len(blocks) : list[i] = blocks[i]
                /\ blocks' = Stored(list, m_position \div BaseSize + 1, m_position % BaseSize, data)
  BY <1>1, RecvShape
<1>3. ArrayShape /\ ArrayShape' /\ out' = <<>> /\ Idle
  BY DEF ArrayIInv, RecvInto
<1>4. \A i \in 1 .. m_capacity :
         ~(i \in m_position + 1 .. m_position + Len(data)) => ByteAt(blocks', i) = ByteAt(blocks, i)
  BY <1>1, <1>2, <1>3, StoredBehind
<1>5. CASE Len(data) > 0
  <2>1. Flat!Put
    BY <1>1, <1>2, <1>3, <1>4, <1>5, PutStep
  <2> QED
    BY <2>1 DEF Flat!Next
<1>6. CASE Len(data) = 0
  <2>1. m_position \in Nat /\ m_size \in Nat /\ m_position <= m_size
    BY <1>3, IdleFacts
  <2>2. m_position' = m_position /\ m_size' = m_size
    BY <2>1, <1>2, <1>6
  <2>3. \A i \in 1 .. m_capacity : ByteAt(blocks', i) = ByteAt(blocks, i)
    BY <2>1, <1>4, <1>6
  <2>4. Content' = Content
    BY <2>2, <2>3, <1>3, SameContent
  <2> QED
    BY <2>2, <2>4, <1>3, StutterStep
<1> QED
  BY <1>1, <1>5, <1>6

LEMMA ArrayInitMaps == ArrayInit => Flat!Init
<1> SUFFICES ASSUME ArrayInit PROVE Flat!Init
  OBVIOUS
<1>1. m_position = 0 /\ m_size = 0 /\ out = <<>>
  BY DEF ArrayInit
<1>2. Content = <<>>
  BY <1>1 DEF Content
<1> QED
  BY <1>1, <1>2 DEF Flat!Init

LEMMA ArrayNextMaps == ArrayIInv /\ ArrayIInv' /\ [ArrayNext]_arrayVars => [Flat!Next]_(Flat!vars)
<1> SUFFICES ASSUME ArrayIInv, ArrayIInv', [ArrayNext]_arrayVars PROVE [Flat!Next]_(Flat!vars)
  OBVIOUS
<1>1. CASE UNCHANGED arrayVars
  BY <1>1, QuietMaps DEF arrayVars
<1>2. CASE \/ \E f \in Fields : WriteField(f)
           \/ \E p \in Packets : WriteBytes(p) \/ ReadFromFile(p)
           \/ \E t \in Types : StartRead(t)
           \/ ReadThrows \/ ReadCall \/ VarintMore \/ ReadReturn \/ ReadLength
           \/ \E val \in BOOLEAN : SetIsLittleEndian(val)
  BY <1>2, StartMaps
<1>3. CASE WriteCall \/ WriteLastTurn \/ WriteFillTurn \/ WriteReturn
  BY <1>3, WriteMaps
<1>4. CASE ReadLastTurn \/ ReadFillTurn
  BY <1>4, ReadTurnMaps
<1>5. CASE (\E v \in 0 .. MaxCapacity + BaseSize : SetPosition(v)) \/ Clear
  <2>1. 0 .. MaxCapacity + BaseSize \subseteq Nat
    BY ByteArrayAssumption
  <2> QED
    BY <2>1, <1>5, SeekMaps, ClearMaps
<1>6. CASE \/ AsString \/ WriteToFile
           \/ \E len \in 1 .. MaxIo : SendFrom(len)
           \/ \E len \in 1 .. MaxIo, data \in Packets \cup {<<>>} : RecvInto(len, data)
  BY <1>6, PeekMaps, SendMaps, RecvMaps
<1> QED
  BY <1>1, <1>2, <1>3, <1>4, <1>5, <1>6 DEF ArrayNext

\* What the chain of nodes and its cursors always satisfy.
LEMMA ArrayAlways == Spec => []ArrayIInv
BY PartsInit, PartsNext, InitialArray, ArrayNextKeeps, PTL DEF Spec

\* m_cur is always the block of m_position, and a loop of read() or write()
\* follows a null m_cur only at the end of the last block, with nothing left to
\* move: whatever the block size, the positions set, the fields and the packets,
\* and however the calls are interleaved with clear() and setPosition().
THEOREM ArrayHolds == Spec => []ArrayInv
BY ArrayAlways, ArrayIInvSuffices, PTL

\* The block list implements one flat run of bytes with a position: every turn
\* of the loops of read() and write() puts its bytes at the position or takes
\* the bytes there, and growing the list, splitting a copy over two blocks,
\* starting and leaving a call cannot be seen from outside.
THEOREM ImplementsFlatHolds == Spec => ImplementsFlat
<1>1. ArrayInit => Flat!Init
  BY ArrayInitMaps
<1>2. ArrayIInv /\ ArrayIInv' /\ [ArrayNext]_arrayVars => [Flat!Next]_(Flat!vars)
  BY ArrayNextMaps
<1> QED
  BY <1>1, <1>2, ArrayAlways, PartsInit, PartsNext, PTL DEF Spec, ImplementsFlat, Flat!Spec

=============================================================================
