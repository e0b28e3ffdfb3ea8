-------------------------- MODULE RequestAutomaton --------------------------
(***************************************************************************)
(* The automaton of http_parser_execute (wyze/http/http11_parser.cpp,      *)
(* generated by ragel from http11_parser.rl): a request line and headers,  *)
(* or one of the two Mongrel socket messages (XML, JSON).  The 349 states  *)
(* fall into families; copy says that the URI is the one of a JSON         *)
(* message, for which all its states are generated once more.              *)
(*                                                                         *)
(* A character is the name of a class that no generated state splits:      *)
(* "3" is 3, 4 or 6 to 9, "HEX" A to F, "UPPER" the capital letters but H, *)
(* P, T and those, "hex" a to f, "lower" the small ones but v and those,   *)
(* "sub" one of !$&'*_~, "delim" one of (),;=, "vt" \v or \f, "ctl" other  *)
(* bytes a header name may hold, "other" the quotes and bytes above 127.   *)
(***************************************************************************)
EXTENDS Automaton

Digit == {"0", "1", "2", "3", "5"}
Upper == {"HEX", "UPPER", "H", "P", "T"}
Alpha == Upper \cup {"hex", "lower", "v"}
XDigit == Digit \cup {"HEX", "hex"}
SchemeChar == Alpha \cup Digit \cup {"+", "-", "."}
RegChar == SchemeChar \cup {"sub", "delim"}
PChar == RegChar \cup {":", "@"}
Counts == {"x02", "x03", "x04", "x05", "x06"}
Brace == {"{", "}", "^"}
RequestChar == PChar \cup Counts \cup Brace \cup
    {"nul", "ctl", "tab", "lf", "vt", "cr", "sp", "other", "#", "%", "/", "<", ">", "?", "[", "]", "del"}

\* The bytes of a header name: HTTP_CTL is written (0 - 31) | 127, which is
\* the difference of two bytes and not a range.
TokenChar == Alpha \cup Digit \cup Counts \cup
    {"ctl", "^", "lf", "cr", "vt", "sub", "#", "%", "+", "-", "."}
ValueChar == RequestChar \ {"nul", "lf", "cr", "del"}

Start == State("start", FALSE, <<>>)

StartStep(s, c) ==
    CASE c \in Upper \cup Digit -> Move(State("method", FALSE, 1), <<"mark">>)
      [] c = "<" -> Go("xml0", FALSE, <<"mark">>)
      [] c = "@" -> Go("uri0", TRUE, <<"mark">>)
      [] OTHER -> Error

MaxMethod == 20
MethodStep(s, c) ==
    CASE c \in Upper \cup Digit /\ s.x < MaxMethod -> Move([s EXCEPT !.x = @ + 1], <<>>)
      [] c = "sp" -> Go("uri0", FALSE, <<"request_method">>)
      [] OTHER -> Error

VersionText == <<"H", "T", "T", "P", "/", "1", ".">>
VersionStep(s, c) ==
    CASE Expect(s, VersionText, c) ->
             Move([s EXCEPT !.x = @ + 1], IF s.x = 0 THEN <<"mark">> ELSE <<>>)
      [] s.x = Len(VersionText) /\ c \in {"0", "1"} -> Go("version", FALSE, <<>>)
      [] OTHER -> Error

LineEdges ==
    { Edge("version", {"lf"}, "line", <<"http_version">>),
      Edge("version", {"cr"}, "linecr", <<"http_version">>),
      Edge("linecr", {"lf"}, "line", <<>>) }

\* A CR or LF may also begin a header name: the end of the header is final
\* and a name at the same time, and only fbreak in done tells them apart.
NameEdges ==
    { Edge("line", TokenChar \ {"lf", "cr"}, "name", <<"start_field">>),
      Edge("line", {"lf"}, "end", <<"start_field", "done">>),
      Edge("line", {"cr"}, "endcr", <<"start_field">>),
      Edge("name", TokenChar, "name", <<>>),
      Edge("name", {":"}, "value0", <<"write_field">>) }

EndEdges ==
    { Edge("endcr", {"lf"}, "end", <<"done">>),
      Edge("endcr", TokenChar \ {"lf"}, "name", <<>>),
      Edge("endcr", {":"}, "value0", <<"write_field">>),
      Edge("end", TokenChar, "name", <<>>),
      Edge("end", {":"}, "value0", <<"write_field">>) }

ValueEdges ==
    { Edge("value0", ValueChar \ {"sp", "tab"}, "value", <<"start_value">>),
      Edge("value0", {"sp", "tab"}, "value0", <<"start_value">>),
      Edge("value0", {"lf"}, "line", <<"start_value", "write_value">>),
      Edge("value0", {"cr"}, "linecr", <<"start_value", "write_value">>),
      Edge("value", ValueChar, "value", <<>>),
      Edge("value", {"lf"}, "line", <<"write_value">>),
      Edge("value", {"cr"}, "linecr", <<"write_value">>) }

-----------------------------------------------------------------------------
(* URI_reference.                                                          *)

\* The path is complete: a query, a fragment or the end of the URI.  A JSON
\* message has neither query nor fragment, and a blank leads to its data.
PathEnd(s, c, do) ==
    CASE c = "sp" /\ s.copy -> Go("json", TRUE, do \o <<"request_path">>)
      [] c = "sp" -> Move(State("ver", FALSE, 0), do \o <<"request_path", "request_uri">>)
      [] c = "#" /\ ~s.copy -> Go("fragment0", FALSE, do \o <<"request_path", "request_uri">>)
      [] c = "?" /\ ~s.copy -> Go("query0", FALSE, do \o <<"request_path">>)
      [] OTHER -> Error

PathStates == {"uri0", "segment", "segments", "slash", "scheme", "hier"}

\* Where a segment leads that begins or goes on at s.
SegmentEdges ==
    { Edge("uri0", PChar \ {":"}, "segment", <<>>), Edge("uri0", {"/"}, "slash", <<>>),
      Edge("segment", PChar \ {":"}, "segment", <<>>), Edge("segment", {"/"}, "segments", <<>>),
      Edge("segments", PChar \cup {"/"}, "segments", <<>>),
      Edge("slash", PChar, "segments", <<>>), Edge("slash", {"/"}, "authority", <<>>) }

SchemeEdges ==
    { Edge("scheme", SchemeChar, "scheme", <<>>), Edge("scheme", {":"}, "hier", <<>>),
      Edge("scheme", {"sub", "delim", "@"}, "segment", <<>>), Edge("scheme", {"/"}, "segments", <<>>),
      Edge("hier", PChar, "segments", <<>>), Edge("hier", {"/"}, "slash", <<>>) }

PathStep(s, c) ==
    LET mark == IF s.at = "hier" \/ (s.at = "uri0" /\ ~s.copy) THEN <<"mark">> ELSE <<>>
        back == IF s.at \in {"uri0", "segment", "scheme"} THEN "segment" ELSE "segments"
    IN  CASE c \in {"sp", "#", "?"} -> PathEnd(s, c, mark)
          [] c = "%" -> Pct(State(back, s.copy, <<>>), mark)
          [] s.at = "uri0" /\ c \in Alpha /\ ~s.copy -> Go("scheme", FALSE, mark)
          [] OTHER -> LET m == Follow(SegmentEdges \cup SchemeEdges, s, c)
                      IN  IF m = Error THEN Error ELSE Move(m.to, mark)

QueryStep(s, c) ==
    LET start == IF s.at = "query0" THEN <<"start_query">> ELSE <<>>
        done == start \o <<"query_string", "request_uri">>
    IN  CASE c \in PChar \cup {"/", "?"} -> Go("query", FALSE, start)
          [] c = "%" -> Pct(State("query", FALSE, <<>>), start)
          [] c = "sp" -> Move(State("ver", FALSE, 0), done)
          [] c = "#" -> Go("fragment0", FALSE, done)
          [] OTHER -> Error

FragmentStep(s, c) ==
    LET start == IF s.at = "fragment0" THEN <<"mark">> ELSE <<>>
    IN  CASE c \in PChar \cup {"/", "?"} -> Go("fragment", FALSE, start)
          [] c = "%" -> Pct(State("fragment", FALSE, <<>>), start)
          [] c = "sp" -> Move(State("ver", FALSE, 0), start \o <<"fragment">>)
          [] OTHER -> Error

-----------------------------------------------------------------------------
(* The authority: no action depends on it, it is only recognised.          *)

\* The host, and what may still be the user of a userinfo (authority, host).
HostStep(s, c) ==
    LET after == s.at \in {"afterat", "hostonly"}
        here == IF after THEN "hostonly" ELSE "host"
    IN  CASE c \in RegChar -> Go(here, s.copy, <<>>)
          [] c = "%" -> Pct(State(here, s.copy, <<>>), <<>>)
          [] c = ":" -> Go(IF after THEN "port" ELSE "portpass", s.copy, <<>>)
          [] c = "@" /\ ~after -> Go("afterat", s.copy, <<>>)
          [] c = "[" /\ s.at \in {"authority", "afterat"} -> Go("literal", s.copy, <<>>)
          [] c = "/" -> Go("segments", s.copy, <<>>)
          [] OTHER -> PathEnd(s, c, <<>>)

\* Behind a colon: digits of a port or of a password, a password.
PortStep(s, c) ==
    CASE c \in Digit -> Go(s.at, s.copy, <<>>)
      [] c = "/" -> Go("segments", s.copy, <<>>)
      [] s.at = "portpass" /\ c \in PChar \ {"@"} -> Go("password", s.copy, <<>>)
      [] s.at = "portpass" /\ c = "%" -> Pct(State("password", s.copy, <<>>), <<>>)
      [] s.at = "portpass" /\ c = "@" -> Go("afterat", s.copy, <<>>)
      [] OTHER -> PathEnd(s, c, <<>>)

PasswordStep(s, c) ==
    CASE c \in PChar \ {"@"} -> Go("password", s.copy, <<>>)
      [] c = "%" -> Pct(s, <<>>)
      [] c = "@" -> Go("afterat", s.copy, <<>>)
      [] OTHER -> Error

ClosedStep(s, c) ==
    CASE c = ":" -> Go("port", s.copy, <<>>)
      [] c = "/" -> Go("segments", s.copy, <<>>)
      [] OTHER -> PathEnd(s, c, <<>>)

\* dec_octet: "1"-"9", "0"-"4" and "0"-"5" are differences of two characters
\* and leave the first one: 10 to 99 begin with 1, 20x and 250 are all there
\* is above 199.
OctetEdges ==
    { Edge("new", {"0", "3", "5"}, "full", <<>>), Edge("new", {"1"}, "one", <<>>),
      Edge("new", {"2"}, "two", <<>>), Edge("one", Digit, "some", <<>>),
      Edge("some", Digit, "full", <<>>), Edge("two", {"0"}, "two0", <<>>),
      Edge("two0", Digit, "full", <<>>), Edge("two", {"5"}, "two5", <<>>),
      Edge("two5", {"0"}, "full", <<>>) }
Complete(o) == o \in {"full", "one", "two", "some"}

Fresh == [k |-> 1, o |-> "new"]
Dead == [k |-> 0, o |-> "error"]
V4Next(v, c) ==
    IF c = "." THEN IF Complete(v.o) /\ v.k < 4 THEN [k |-> v.k + 1, o |-> "new"] ELSE Dead
    ELSE LET o == Follow(OctetEdges, State(v.o, FALSE, <<>>), c).to.at
         IN  IF o = "error" THEN Dead ELSE [v EXCEPT !.o = o]

\* IPv6address, the groups in front of "::": n of them lie behind (from the
\* seventh on their number is not counted: the rules say {6,}), d digits of
\* the next have been read.
FrontGroups(s, n, d) == State("front", s.copy, [n |-> n, d |-> d])
MaxFront == 6

\* The groups behind "::": u of them lie behind, lo to 3 are allowed.  The
\* repetitions of the rules, 5( h16 ":" ), are the byte 5 and one group: it
\* forces three groups.
TailGroups(s, u, lo, d, v) == State("tail", s.copy, [u |-> u, lo |-> lo, d |-> d, v |-> v])

LiteralStep(s, c) ==
    CASE c \in XDigit -> Move(FrontGroups(s, 0, 1), <<>>)
      [] c = "x06" -> Move(TailGroups(s, 0, 3, 0, Dead), <<>>)
      [] c = ":" -> Go("colon", s.copy, <<>>)
      [] c = "v" -> Go("future", s.copy, <<>>)
      [] OTHER -> Error

FrontStep(s, c) ==
    CASE c \in XDigit /\ s.x.d \in 1..3 -> Move(FrontGroups(s, s.x.n, s.x.d + 1), <<>>)
      [] c = ":" /\ s.x.d > 0 -> Move(FrontGroups(s, s.x.n + 1, 0), <<>>)
      [] c \in XDigit /\ s.x.d = 0 -> Move(FrontGroups(s, IF s.x.n > MaxFront THEN MaxFront ELSE s.x.n, 1), <<>>)
      [] c = ":" /\ s.x.d = 0 -> Move(State("double", s.copy, s.x.n), <<>>)
      [] OTHER -> Error

\* The bytes that may follow "::" behind n groups, and the least number of
\* groups if none of them does (4: one of them must).
CountBytes(n) ==
    CASE n = 0 -> {"x02", "x03", "x04", "x05"} [] n = 1 -> {"x04"} [] n = 2 -> {"x03"}
      [] OTHER -> {"x02", "x03"}
LeastTail(n) == CASE n \in {0, 7} -> 0 [] n \in 4..6 -> 7 - n [] OTHER -> 4

TailFirst(s, u, lo, c) ==
    Move(TailGroups(s, u, lo, 1, IF u + 2 >= lo /\ u < 2 THEN V4Next(Fresh, c) ELSE Dead), <<>>)
DoubleStep(s, c) ==
    LET lo == LeastTail(s.x)
    IN  CASE c \in CountBytes(s.x) -> Move(TailGroups(s, 0, 3, 0, Dead), <<>>)
          [] c \in XDigit /\ lo <= 3 -> TailFirst(s, 0, lo, c)
          [] c = "]" /\ lo = 0 -> Go("closed", s.copy, <<>>)
          [] OTHER -> Error

TailStep(s, c) ==
    LET t == s.x
    IN  CASE c \in XDigit /\ t.d = 0 -> TailFirst(s, t.u, t.lo, c)
          [] c \in XDigit /\ t.d \in 1..3 -> Move(TailGroups(s, t.u, t.lo, t.d + 1, V4Next(t.v, c)), <<>>)
          [] c = ":" /\ t.d > 0 /\ t.u < 2 -> Move(TailGroups(s, t.u + 1, t.lo, 0, Dead), <<>>)
          [] c = "." /\ V4Next(t.v, c) # Dead -> Move(State("v4", s.copy, V4Next(t.v, c)), <<>>)
          [] c = "]" /\ t.d > 0 /\ t.u + 1 >= t.lo -> Go("closed", s.copy, <<>>)
          [] OTHER -> Error

V4Step(s, c) ==
    CASE c = "]" /\ s.x.k = 4 /\ Complete(s.x.o) -> Go("closed", s.copy, <<>>)
      [] c # "]" /\ V4Next(s.x, c) # Dead -> Move([s EXCEPT !.x = V4Next(s.x, c)], <<>>)
      [] OTHER -> Error

FutureEdges ==
    { Edge("colon", {":"}, "double0", <<>>),
      Edge("future", XDigit, "future1", <<>>), Edge("future1", XDigit, "future1", <<>>),
      Edge("future1", {"."}, "future2", <<>>), Edge("future2", RegChar \cup {":"}, "future3", <<>>),
      Edge("future3", RegChar \cup {":"}, "future3", <<>>), Edge("future3", {"]"}, "closed", <<>>) }

-----------------------------------------------------------------------------
(* The socket messages.                                                    *)

XMLEdges ==
    LET name == Alpha \cup Digit \cup {"-", "."}
    IN  { Edge("xml0", name, "xmlname", <<>>), Edge("xmlname", name, "xmlname", <<>>),
          Edge("xmlname", {"tab", "lf", "vt", "cr", "sp", "/", ">"}, "xmldata", <<"request_path">>),
          Edge("xmldata", RequestChar \ {">"}, "xmldata", <<>>), Edge("xmldata", {">"}, "xmlclose", <<>>),
          Edge("xmlclose", RequestChar \ {">", "nul"}, "xmldata", <<>>),
          Edge("xmlclose", {">"}, "xmlclose", <<>>),
          Edge("xmlclose", {"nul"}, "socketend", <<"xml", "done">>) }

JSONEdges ==
    { Edge("json", {"{"}, "jsondata", <<"mark">>),
      Edge("jsondata", RequestChar \ {"}"}, "jsondata", <<>>), Edge("jsondata", {"}"}, "jsonclose", <<>>),
      Edge("jsonclose", RequestChar \ {"}", "nul"}, "jsondata", <<>>),
      Edge("jsonclose", {"}"}, "jsonclose", <<>>),
      Edge("jsonclose", {"nul"}, "socketend", <<"json", "done">>) }

-----------------------------------------------------------------------------
UriStep(s, c) ==
    CASE s.at = "pct" -> IF c \in XDigit THEN PctDigit(s) ELSE Error
      [] s.at \in PathStates -> PathStep(s, c)
      [] s.at \in {"query0", "query"} -> QueryStep(s, c)
      [] s.at \in {"fragment0", "fragment"} -> FragmentStep(s, c)
      [] s.at \in {"authority", "host", "afterat", "hostonly"} -> HostStep(s, c)
      [] s.at \in {"portpass", "port"} -> PortStep(s, c)
      [] s.at = "password" -> PasswordStep(s, c)
      [] s.at = "literal" -> LiteralStep(s, c)
      [] s.at = "front" -> FrontStep(s, c)
      [] s.at = "double" -> DoubleStep(s, c)
      [] s.at = "double0" -> DoubleStep([s EXCEPT !.x = 0], c)
      [] s.at = "tail" -> TailStep(s, c)
      [] s.at = "v4" -> V4Step(s, c)
      [] s.at \in {"colon", "future", "future1", "future2", "future3"} -> Follow(FutureEdges, s, c)
      [] s.at = "closed" -> ClosedStep(s, c)
      [] OTHER -> Error

\* more_delims: braces and ^ count as sub_delims when uri_relaxed is set.
Step(s, c, relaxed) ==
    CASE s.at = "start" -> StartStep(s, c)
      [] s.at = "method" -> MethodStep(s, c)
      [] s.at = "ver" -> VersionStep(s, c)
      [] s.at \in {"version", "linecr", "line", "name", "end", "endcr", "value0", "value"} ->
             Follow(LineEdges \cup NameEdges \cup EndEdges \cup ValueEdges, s, c)
      [] s.at \in {"xml0", "xmlname", "xmldata", "xmlclose"} -> Follow(XMLEdges, s, c)
      [] s.at \in {"json", "jsondata", "jsonclose"} -> Follow(JSONEdges, s, c)
      [] OTHER -> UriStep(s, IF relaxed /\ c \in Brace THEN "sub" ELSE c)

\* http_parser_is_finished: http_parser_first_final and above.
Final(s) == s.at \in {"end", "socketend"}
=============================================================================
