---------------------------- MODULE UriAutomaton ----------------------------
(***************************************************************************)
(* The automaton of Uri::Create (wyze/uri.cpp, generated by ragel from     *)
(* uri.rl) as a function from a state and a character to the next state    *)
(* and the ragel actions of the transition.  The 560 generated states fall *)
(* into families that differ in a few counters: a state is the family      *)
(* (at), whether a scheme was read (copy: every authority state is there   *)
(* once for each case) and the counters (x).                               *)
(*                                                                         *)
(* A character is the name of a class that no generated state splits:      *)
(* "3" is 3 or 4, "6" is 6 to 9, "+" is + or -, "hex" a to f, "alpha" the  *)
(* other letters but v, "sub" the remaining unreserved and sub_delims,     *)
(* "high" a byte above 127, "x02" the byte 2 and "bad" everything else.    *)
(***************************************************************************)
EXTENDS Automaton

Digit == {"0", "1", "2", "3", "5", "6"}
XDigit == Digit \cup {"hex"}
Alpha == {"hex", "v", "alpha"}
SchemeChar == Alpha \cup Digit \cup {"+", "."}
RegChar == SchemeChar \cup {"sub"}
PChar == RegChar \cup {":", "@", "high"}
UriChar == PChar \cup {"%", "/", "?", "#", "[", "]", "x02", "bad"}

Start == State("start", FALSE, <<>>)
PctStep(s, c) == IF c \in XDigit THEN PctDigit(s) ELSE Error

-----------------------------------------------------------------------------
(* Without an authority: relative references and scheme ":" path.          *)

StartEdges ==
    { Edge("start", Alpha, "scheme", <<"marku">>),
      Edge("start", PChar \ (Alpha \cup {":"}), "segment", <<>>),
      Edge("start", {"/"}, "slash", <<>>),
      Edge("segment", PChar \ {":"}, "segment", <<>>),
      Edge("segment", {"/"}, "segments", <<>>) }

SegmentEdges ==
    { Edge("segments", PChar \cup {"/"}, "segments", <<>>),
      Edge("slash", PChar, "segments", <<>>),
      Edge("slash", {"/"}, "authority", <<>>) }

SchemeEdges ==
    { Edge("scheme", SchemeChar, "scheme", <<>>),
      Edge("scheme", {"sub", "@", "high"}, "segment", <<>>),
      Edge("scheme", {"/"}, "segments", <<>>),
      Edge("scheme", {":"}, "hier", <<"save_scheme">>),
      Edge("hier", PChar, "segments", <<>>),
      Edge("hier", {"/"}, "hierslash", <<>>),
      Edge("hierslash", PChar, "segments", <<>>) }

\* Where a path may end without being saved, a query or a fragment begins.
PlainStates == {"start", "segment", "segments", "slash", "scheme", "hier", "hierslash"}
PlainEdges ==
    { Edge(at, {"?"}, "query0", <<>>) : at \in PlainStates } \cup
    { Edge(at, {"#"}, "fragment0", <<>>) : at \in PlainStates }

\* pchar is allowed here: so is a percent-encoded octet.  Its last digit
\* leads to a state in which a segment has begun.
PlainStep(s, c) ==
    IF c = "%"
    THEN Pct(State(IF s.at \in {"start", "segment", "scheme"} THEN "segment" ELSE "segments",
                   FALSE, <<>>), <<>>)
    ELSE IF s.at = "hierslash" /\ c = "/" THEN Go("authority", TRUE, <<>>)
    ELSE Follow(StartEdges \cup SegmentEdges \cup SchemeEdges \cup PlainEdges, s, c)

QueryEdges ==
    { Edge("query0", PChar \cup {"/", "?"}, "query", <<"marku">>),
      Edge("query0", {"#"}, "fragment0", <<"marku", "save_query">>),
      Edge("query", PChar \cup {"/", "?"}, "query", <<>>),
      Edge("query", {"#"}, "fragment0", <<"save_query">>) }

QueryStep(s, c) ==
    IF c = "%" THEN Pct(State("query", s.copy, <<>>), IF s.at = "query0" THEN <<"marku">> ELSE <<>>)
    ELSE Follow(QueryEdges, s, c)

FragmentEdges ==
    { Edge("fragment0", PChar \cup {"/", "?"}, "fragment", <<"marku">>),
      Edge("fragment", PChar \cup {"/", "?"}, "fragment", <<>>) }

FragmentStep(s, c) ==
    IF c = "%"
    THEN Pct(State("fragment", s.copy, <<>>), IF s.at = "fragment0" THEN <<"marku">> ELSE <<>>)
    ELSE Follow(FragmentEdges, s, c)

PathStep(s, c) ==
    CASE c \in PChar \cup {"/"} -> Go("path", TRUE, <<>>)
      [] c = "%" -> Pct(State("path", TRUE, <<>>), <<>>)
      [] c = "?" -> Go("query0", TRUE, <<"save_path">>)
      [] c = "#" -> Go("fragment0", TRUE, <<"save_path">>)
      [] OTHER -> Error

-----------------------------------------------------------------------------
(* The authority.  "user" says that what was read may still turn out to be *)
(* the userinfo; the host is read as a reg_name (reg) and as an            *)
(* IPv4address (octet k with shape o) at the same time.                    *)

\* dec_octet: the shapes an octet goes through.  The rule for 200 to 249 is
\* written 2 [0-4] digit without quotes, and that 2 is the byte 2.
OctetEdges ==
    { Edge("new", {"0"}, "full", <<>>), Edge("new", {"1"}, "one", <<>>),
      Edge("new", {"2"}, "two", <<>>), Edge("new", {"3", "5", "6"}, "some", <<>>),
      Edge("new", {"x02"}, "x", <<>>), Edge("x", {"0", "1", "2", "3"}, "x1", <<>>),
      Edge("x1", Digit, "full", <<>>), Edge("one", Digit, "some", <<>>),
      Edge("two", Digit \ {"5"}, "full", <<>>), Edge("two", {"5"}, "two5", <<>>),
      Edge("two5", Digit \ {"6"}, "full", <<>>), Edge("some", Digit, "full", <<>>) }
Octet(o, c) == Follow(OctetEdges, State(o, FALSE, <<>>), c).to.at
Complete(o) == o \in {"full", "one", "two", "two5", "some"}

\* IPv4address: k is the octet being read, a fifth one does not exist.
Dead == [k |-> 0, o |-> "error"]
V4Next(v, c) ==
    IF c = "." THEN IF Complete(v.o) /\ v.k < 4 THEN [k |-> v.k + 1, o |-> "new"] ELSE Dead
    ELSE IF Octet(v.o, c) = "error" THEN Dead ELSE [v EXCEPT !.o = Octet(v.o, c)]

\* The authority ends.  With a scheme a path begins: ragel enters an action
\* once per transition, so markh is not repeated when it is there already,
\* whatever the actions between do to mark.
Leave(s, c, do) ==
    LET mark == IF do # <<>> /\ Head(do) = "markh" THEN <<>> ELSE <<"markh">>
        save == IF c = "/" THEN <<>> ELSE <<"save_path">>
    IN  Go(CASE c = "?" -> "query0" [] c = "#" -> "fragment0"
             [] c = "/" -> IF s.copy THEN "path" ELSE "segments",
           s.copy, IF s.copy THEN do \o mark \o save ELSE do)

Host(s, user, reg, v) == State("host", s.copy, [user |-> user, reg |-> reg, v |-> v])

\* The first character of the authority, or of the host behind "@".
AuthorityStep(s, c) ==
    LET user == s.at = "authority"
        v == V4Next([k |-> 1, o |-> "new"], c)
    IN  CASE c \in RegChar -> Move(Host(s, user, TRUE, v), <<"markh">>)
          [] c = "x02" -> Move(Host(s, FALSE, FALSE, v), <<"markh">>)
          [] c = "%" -> Pct(Host(s, user, TRUE, Dead), <<"markh">>)
          [] c = "[" -> Go("literal", s.copy, <<"markh">>)
          [] c = ":" -> Move(State("port0", s.copy, user), <<"markh", "save_host">>)
          [] c = "@" /\ user -> Go("afterat", s.copy, <<"markh", "save_userinfo">>)
          [] c \in {"/", "?", "#"} -> Leave(s, c, <<"markh", "save_host">>)
          [] OTHER -> Error

HostStep(s, c) ==
    LET v == V4Next(s.x.v, c)
        whole == s.x.reg \/ (s.x.v.k = 4 /\ Complete(s.x.v.o))
    IN  CASE c \in RegChar /\ s.x.reg -> Move(Host(s, s.x.user, TRUE, v), <<>>)
          [] c \in RegChar \cup {"x02"} /\ (~s.x.reg \/ c = "x02") /\ v # Dead ->
                 Move(Host(s, FALSE, FALSE, v), <<>>)
          [] c = "%" /\ s.x.reg -> Pct(Host(s, s.x.user, TRUE, Dead), <<>>)
          [] c = ":" /\ whole -> Move(State("port0", s.copy, s.x.user), <<"save_host">>)
          [] c = "@" /\ s.x.user -> Go("afterat", s.copy, <<"save_userinfo">>)
          [] c \in {"/", "?", "#"} /\ whole -> Leave(s, c, <<"save_host">>)
          [] OTHER -> Error

\* Behind the colon: a port, or the rest of a userinfo that has a colon.
PortStep(s, c) ==
    CASE c \in Digit -> Move(State("port", s.copy, s.x), IF s.at = "port0" THEN <<"markh">> ELSE <<>>)
      [] c \in (RegChar \ Digit) \cup {":"} /\ s.x -> Go("password", s.copy, <<>>)
      [] c = "%" /\ s.x -> Pct(State("password", s.copy, <<>>), <<>>)
      [] c = "@" /\ s.x -> Go("afterat", s.copy, <<"save_userinfo">>)
      [] c \in {"/", "?", "#"} ->
             Leave(s, c, IF s.at = "port0" THEN <<"markh", "save_port">> ELSE <<"save_port">>)
      [] OTHER -> Error

PasswordStep(s, c) ==
    CASE c \in RegChar \cup {":"} -> Go("password", s.copy, <<>>)
      [] c = "%" -> Pct(s, <<>>)
      [] c = "@" -> Go("afterat", s.copy, <<"save_userinfo">>)
      [] OTHER -> Error

-----------------------------------------------------------------------------
(* IP_literal.  u groups of 16 bits lie behind, z of them in front of "::" *)
(* (-1: not seen yet), d digits of the next one have been read, and v is   *)
(* its reading as the start of an IPv4address.                             *)

Groups(s, u, z, d, v) == State("groups", s.copy, [u |-> u, z |-> z, d |-> d, v |-> v])
Fresh == [k |-> 1, o |-> "new"]

\* ls32 may be an IPv4address: it takes the place of the last two groups.
V4Allowed(u, z) == CASE z = -1 -> u = 6 [] z = 0 -> u <= 5 [] OTHER -> u = 5
MaxUnits(z) == IF z = -1 THEN 8 ELSE 7

\* How many groups there may be at "]".  Behind a leading "::" any number;
\* otherwise "::" stands for exactly one group: the rules repeat the groups
\* in front of it a fixed number of times.
UnitsComplete(u, z) == CASE z = -1 -> u = 8 [] z = 0 -> u <= 7 [] OTHER -> u = 7

LiteralStep(s, c) ==
    CASE c \in XDigit -> Move(Groups(s, 0, -1, 1, Dead), <<>>)
      [] c = ":" -> Go("colon", s.copy, <<>>)
      [] c = "v" -> Go("future", s.copy, <<>>)
      [] OTHER -> Error

ColonStep(s, c) == IF c = ":" THEN Move(Groups(s, 0, 0, 0, Fresh), <<>>) ELSE Error

\* Between two groups: d = 0, behind ":" or "::".
GroupStartStep(s, c) ==
    LET g == s.x
    IN  CASE c \in XDigit /\ g.u < MaxUnits(g.z) ->
                 Move(Groups(s, g.u, g.z, 1, IF V4Allowed(g.u, g.z) THEN V4Next(Fresh, c) ELSE Dead), <<>>)
          [] c = "x02" /\ V4Allowed(g.u, g.z) ->
                 Move(State("v4", s.copy, V4Next(Fresh, c)), <<>>)
          [] c = ":" /\ g.z = -1 -> Move(Groups(s, g.u, g.u, 0, Fresh), <<>>)
          [] c = "]" /\ g.u = g.z /\ UnitsComplete(g.u, g.z) -> Go("closed", s.copy, <<>>)
          [] OTHER -> Error

GroupStep(s, c) ==
    LET g == s.x
    IN  CASE c \in XDigit /\ g.d < 4 ->
                 Move(Groups(s, g.u, g.z, g.d + 1, V4Next(g.v, c)), <<>>)
          [] c = ":" /\ g.u + 1 < MaxUnits(g.z) ->
                 Move(Groups(s, g.u + 1, g.z, 0, Fresh), <<>>)
          [] c = "." /\ V4Next(g.v, c) # Dead ->
                 Move(State("v4", s.copy, V4Next(g.v, c)), <<>>)
          [] c = "]" /\ UnitsComplete(g.u + 1, g.z) -> Go("closed", s.copy, <<>>)
          [] OTHER -> Error

V4Step(s, c) ==
    CASE c = "]" /\ s.x.k = 4 /\ Complete(s.x.o) -> Go("closed", s.copy, <<>>)
      [] c # "]" /\ V4Next(s.x, c) # Dead -> Move(State("v4", s.copy, V4Next(s.x, c)), <<>>)
      [] OTHER -> Error

FutureEdges ==
    { Edge("future", XDigit, "future1", <<>>), Edge("future1", XDigit, "future1", <<>>),
      Edge("future1", {"."}, "future2", <<>>), Edge("future2", RegChar \cup {":"}, "future3", <<>>),
      Edge("future3", RegChar \cup {":"}, "future3", <<>>), Edge("future3", {"]"}, "closed", <<>>) }

\* Behind "]".
ClosedStep(s, c) ==
    CASE c = ":" -> Move(State("port0", s.copy, FALSE), <<"save_host">>)
      [] c \in {"/", "?", "#"} -> Leave(s, c, <<"save_host">>)
      [] OTHER -> Error

-----------------------------------------------------------------------------
Step(s, c) ==
    CASE s.at = "pct" -> PctStep(s, c)
      [] s.at \in PlainStates -> PlainStep(s, c)
      [] s.at \in {"query0", "query"} -> QueryStep(s, c)
      [] s.at \in {"fragment0", "fragment"} -> FragmentStep(s, c)
      [] s.at = "path" -> PathStep(s, c)
      [] s.at \in {"authority", "afterat"} -> AuthorityStep(s, c)
      [] s.at = "host" -> HostStep(s, c)
      [] s.at \in {"port0", "port"} -> PortStep(s, c)
      [] s.at = "password" -> PasswordStep(s, c)
      [] s.at = "literal" -> LiteralStep(s, c)
      [] s.at = "colon" -> ColonStep(s, c)
      [] s.at = "groups" -> IF s.x.d = 0 THEN GroupStartStep(s, c) ELSE GroupStep(s, c)
      [] s.at = "v4" -> V4Step(s, c)
      [] s.at \in {"future", "future1", "future2", "future3"} -> Follow(FutureEdges, s, c)
      [] s.at = "closed" -> ClosedStep(s, c)
      [] OTHER -> Error

\* The final states: uri_parser_first_final and above.
Final(s) ==
    \/ s.at \in PlainStates \cup {"query0", "query", "fragment0", "fragment", "path", "authority",
                                  "afterat", "port0", "port", "closed"}
    \/ s.at = "host" /\ (s.x.reg \/ (s.x.v.k = 4 /\ Complete(s.x.v.o)))

\* The actions at the end of the string.
EofActions(s) ==
    LET host == CASE s.at \in {"authority", "afterat"} -> <<"markh", "save_host">>
                  [] s.at \in {"host", "closed"} -> <<"save_host">>
                  [] s.at = "port0" -> <<"markh", "save_port">>
                  [] s.at = "port" -> <<"save_port">>
                  [] OTHER -> <<>>
    IN  CASE ~Final(s) -> <<>>
          [] host # <<>> -> IF s.copy THEN Leave(s, "#", host).do ELSE host
          [] s.at = "path" -> <<"save_path">>
          [] s.at = "query0" -> <<"marku", "save_query">>
          [] s.at = "query" -> <<"save_query">>
          [] s.at = "fragment0" -> <<"marku", "save_fragment">>
          [] s.at = "fragment" -> <<"save_fragment">>
          [] OTHER -> <<>>
=============================================================================
