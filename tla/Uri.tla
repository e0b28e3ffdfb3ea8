-------------------------------- MODULE Uri --------------------------------
(***************************************************************************)
(* Uri (wyze/uri.cpp): what the actions of the automaton do, and the       *)
(* accessors.  A string is the sequence of its character classes; m_port   *)
(* is kept as its decimal digits without leading zeros, <<>> for 0.        *)
(***************************************************************************)
EXTENDS UriAutomaton, SequencesExt

Null == -1

\* Uri::Uri and the locals of Create.  fault: std::string(NULL, n) throws.
NewUri == [cs |-> Start, mark |-> Null, fault |-> FALSE, m_scheme |-> <<>>, m_userinfo |-> <<>>,
           m_host |-> <<>>, m_port |-> <<>>, m_path |-> <<>>, m_query |-> <<>>, m_fragment |-> <<>>]

\* atoi of a string of digits.
Atoi(digits) ==
    LET nonzero == {i \in DOMAIN digits : digits[i] # "0"}
    IN  IF nonzero = {} THEN <<>>
        ELSE SubSeq(digits, CHOOSE i \in nonzero : \A j \in nonzero : i <= j, Len(digits))

\* std::string(mark, fpc - mark) with fpc = p.
Saved(u, text, p) == SubSeq(text, u.mark + 1, p)

\* Mutant: save_port keeps the mark.
SavePortKeepsMark(u, saved, p) == [u EXCEPT !.m_port = IF p # u.mark THEN Atoi(saved) ELSE @]
SavePort(u, saved, p) == [u EXCEPT !.m_port = IF p # u.mark THEN Atoi(saved) ELSE @, !.mark = Null]

\* action name { ... } with fpc = p.
UriAction(u, name, text, p) ==
    LET saved == Saved(u, text, p)
        Save(v) == IF u.mark = Null THEN [u EXCEPT !.fault = TRUE] ELSE [v EXCEPT !.mark = Null]
    IN  CASE name \in {"marku", "markh"} -> [u EXCEPT !.mark = p]
          [] name = "save_scheme" -> Save([u EXCEPT !.m_scheme = saved])
          [] name = "save_port" -> SavePort(u, saved, p)
          [] name = "save_userinfo" ->
                 [u EXCEPT !.m_userinfo = IF u.mark # Null THEN saved ELSE @, !.mark = Null]
          [] name = "save_host" -> [u EXCEPT !.m_host = IF u.mark # Null THEN saved ELSE @]
          [] name = "save_path" -> Save([u EXCEPT !.m_path = saved])
          [] name = "save_query" -> Save([u EXCEPT !.m_query = saved])
          [] name = "save_fragment" -> Save([u EXCEPT !.m_fragment = saved])

UriActions(u, names, text, p) ==
    FoldLeft(LAMBDA v, name : IF v.fault THEN v ELSE UriAction(v, name, text, p), u, names)

\* The loop over the string: text without its last character has been read.
UriFeed(u, text) ==
    LET m == Step(u.cs, Last(text))
    IN  [UriActions(u, m.do, text, Len(text) - 1) EXCEPT !.cs = m.to]

\* The end of Create: the actions of the end, and nullptr unless the state
\* is final.
UriFinish(u, text) == UriActions(u, EofActions(u.cs), text, Len(text))
UriOk(u) == Final(u.cs) /\ ~u.fault

Create(text) ==
    LET run[i \in 0..Len(text)] == IF i = 0 THEN NewUri ELSE UriFeed(run[i - 1], SubSeq(text, 1, i))
    IN  UriFinish(run[Len(text)], text)

\* In the inputs a scheme of four letters is http and one of five is https;
\* 8 is in the class "6" and 4 in the class "3".
IsHttp(u) == Len(u.m_scheme) = 4
IsHttps(u) == Len(u.m_scheme) = 5
Http == <<"6", "0">>
Https == <<"3", "3", "3">>

isDefaultPort(u) ==
    \/ u.m_port = <<>>
    \/ IsHttp(u) /\ u.m_port = Http
    \/ IsHttps(u) /\ u.m_port = Https

getPath(u) == IF u.m_path = <<>> THEN <<"/">> ELSE u.m_path

getPort(u) ==
    CASE u.m_port # <<>> -> u.m_port
      [] u.m_port = <<>> /\ IsHttp(u) -> Http
      [] u.m_port = <<>> /\ IsHttps(u) -> Https
      [] OTHER -> <<>>

\* Uri::dump.
Sep(part, sep) == IF part = <<>> THEN <<>> ELSE sep

toString(u) ==
    u.m_scheme \o <<":", "/", "/">> \o u.m_userinfo \o Sep(u.m_userinfo, <<"@">>) \o u.m_host
        \o (IF isDefaultPort(u) THEN <<>> ELSE <<":">> \o u.m_port)
        \o getPath(u) \o Sep(u.m_query, <<"?">>) \o u.m_query \o Sep(u.m_fragment, <<"#">>) \o u.m_fragment
=============================================================================
