------------------------------ MODULE Servlets ------------------------------
(***************************************************************************)
(* ServletDispatch (wyze/http/servlet.cpp): which servlet answers a path,  *)
(* while servlets are added and removed at run time.  Every operation      *)
(* holds m_mutex from beginning to end.                                    *)
(***************************************************************************)
EXTENDS Integers, Sequences, SequencesExt, FiniteSets

CONSTANTS
    Paths,          \* the paths requests ask for
    Globs,          \* the patterns servlets are added under
    Matching,       \* Globs -> the paths fnmatch accepts
    MaxChanges      \* bound: additions and removals

\* The history names paths and patterns apart.
ASSUME NamesApart == Paths \cap Globs = {} /\ MaxChanges \in Nat

VARIABLES
    m_datas,        \* Paths -> the number of the addition, 0 if absent
    m_globs,        \* the sequence of [uri, slt]
    changes,        \* how many changes were made: names the servlets
    log             \* history: the additions and removals, in order

servletVars == <<m_datas, m_globs, changes, log>>

NotFound == 0

ServletInit ==
    /\ m_datas = [p \in Paths |-> 0] /\ m_globs = <<>>
    /\ changes = 0 /\ log = <<>>

Record(what, uri) ==
    /\ changes < MaxChanges
    /\ changes' = changes + 1
    /\ log' = Append(log, [what |-> what, uri |-> uri])

-----------------------------------------------------------------------------
addServlet(p) ==
    /\ Record("add", p)
    /\ m_datas' = [m_datas EXCEPT ![p] = changes + 1]
    /\ UNCHANGED m_globs

delServlet(p) ==
    /\ Record("del", p)
    /\ m_datas' = [m_datas EXCEPT ![p] = 0]
    /\ UNCHANGED m_globs

\* Mutant: the entry of the same pattern stays.
KeepGlob(g) == m_globs
\* The first entry of the same pattern is erased.
WithoutGlob(g) ==
    LET at == {i \in DOMAIN m_globs : m_globs[i].uri = g}
    IN  IF at = {} THEN m_globs
        ELSE RemoveAt(m_globs, CHOOSE i \in at : \A j \in at : i <= j)

addGlobServlet(g) ==
    /\ Record("add", g)
    /\ m_globs' = Append(WithoutGlob(g), [uri |-> g, slt |-> changes + 1])
    /\ UNCHANGED m_datas

delGlobServlet(g) ==
    /\ Record("del", g)
    /\ m_globs' = WithoutGlob(g)
    /\ UNCHANGED m_datas

ServletNext ==
    \/ \E p \in Paths : addServlet(p) \/ delServlet(p)
    \/ \E g \in Globs : addGlobServlet(g) \/ delGlobServlet(g)

-----------------------------------------------------------------------------
getMatchedServlet(p) ==
    LET at == {i \in DOMAIN m_globs : p \in Matching[m_globs[i].uri]}
    IN  IF m_datas[p] # 0 THEN m_datas[p]
        ELSE IF at # {} THEN m_globs[CHOOSE i \in at : \A j \in at : i <= j].slt
        ELSE NotFound

\* What the history says: the last addition of a name that was not removed
\* after it, 0 if there is none.
Live(uri) ==
    LET last == {i \in DOMAIN log : log[i].uri = uri /\ \A j \in DOMAIN log : log[j].uri = uri => j <= i}
    IN  IF \E i \in last : log[i].what = "add" THEN CHOOSE i \in last : TRUE ELSE 0

\* A path is answered by the servlet added last under exactly this path; else
\* by the live pattern that matches it and was added first of those, where an
\* addition under a known pattern counts as new; else by the 404 servlet.
\* Whatever the order of the additions and removals, a removed or replaced
\* servlet never answers.
DispatchFollowsHistory ==
    \A p \in Paths :
        LET globs == {Live(g) : g \in {h \in Globs : p \in Matching[h]}} \ {0}
        IN  getMatchedServlet(p) =
                IF Live(p) # 0 THEN Live(p)
                ELSE IF globs # {} THEN CHOOSE i \in globs : \A j \in globs : i <= j
                ELSE NotFound
=============================================================================
