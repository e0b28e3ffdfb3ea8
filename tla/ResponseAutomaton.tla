------------------------- MODULE ResponseAutomaton -------------------------
(***************************************************************************)
(* The automaton of httpclient_parser_execute                              *)
(* (wyze/http/httpclient_parser.cpp, generated by ragel from               *)
(* httpclient_parser.rl): a status line and headers, or the size line of a *)
(* chunk.  Three headers are told apart by name and value (Connection:     *)
(* close, Transfer-Encoding: chunked, Content-Length: digits) while they   *)
(* are read as any other header too, and the blanks in front of their      *)
(* value may include line ends: most of the 123 states keep both readings. *)
(*                                                                         *)
(* A character is the name of a class that no generated state splits:      *)
(* a small letter is that letter in both cases (except h, t and p, whose   *)
(* capitals are H, T and P), "0" a digit, "tok" another character of a     *)
(* token, "tab" a tab, \v or \f, and "other" the rest.                     *)
(***************************************************************************)
EXTENDS Automaton, SequencesExt

Letter == {"a", "b", "c", "d", "e", "f", "g", "h", "H", "i", "k", "l", "n", "o", "P", "r", "s",
           "t", "T", "u"}
XDigit == {"0", "a", "b", "c", "d", "e", "f"}
TokenChar == Letter \cup {"tok", "-", ".", "0"}
Blank == {"sp", "tab"}
Space == Blank \cup {"lf", "cr"}
ResponseChar == TokenChar \cup Space \cup {"/", ":", ";", "=", "other"}
ValueChar == ResponseChar \ {"lf", "cr"}
Fold(c) == CASE c = "H" -> "h" [] c = "T" -> "t" [] OTHER -> c

Start == State("start", FALSE, <<>>)

-----------------------------------------------------------------------------
(* The size line of a chunk.                                               *)

ChunkEdges ==
    { Edge("start", XDigit, "chunk", <<"mark">>), Edge("chunk", XDigit, "chunk", <<>>),
      Edge("chunk", {"lf"}, "end", <<"chunk_size", "done">>),
      Edge("chunk", {"cr"}, "endcr", <<"chunk_size">>),
      Edge("chunk", {";"}, "ext0", <<"chunk_size">>),
      Edge("endcr", {"lf"}, "end", <<"done">>) }

ExtensionEdges ==
    { Edge("ext0", TokenChar, "ext", <<"start_field">>), Edge("ext", TokenChar, "ext", <<>>),
      Edge("ext", {"lf"}, "end", <<"write_field", "start_value", "write_value", "done">>),
      Edge("ext", {"cr"}, "endcr", <<"write_field", "start_value", "write_value">>),
      Edge("ext", {";"}, "ext0", <<"write_field", "start_value", "write_value">>),
      Edge("ext", {"="}, "extval0", <<"write_field", "start_value">>) }

ExtensionValueEdges ==
    { Edge("extval0", TokenChar, "extval", <<"start_value">>), Edge("extval", TokenChar, "extval", <<>>),
      Edge("extval", {"lf"}, "end", <<"write_value", "done">>),
      Edge("extval", {"cr"}, "endcr", <<"write_value">>),
      Edge("extval", {";"}, "ext0", <<"write_value">>) }

-----------------------------------------------------------------------------
(* The status line.                                                        *)

VersionText == <<"H", "T", "T", "P", "/">>
VersionStep(s, c) ==
    CASE Expect(s, VersionText, c) -> Move([s EXCEPT !.x = @ + 1], <<>>)
      [] s.x = Len(VersionText) /\ c = "0" -> Go("major", FALSE, <<>>)
      [] OTHER -> Error

NumberEdges ==
    { Edge("major", {"0"}, "major", <<>>), Edge("major", {"."}, "minor0", <<>>),
      Edge("minor0", {"0"}, "minor", <<>>), Edge("minor", {"0"}, "minor", <<>>),
      Edge("minor", {"sp"}, "status0", <<"http_version">>) }

StatusEdges ==
    { Edge("status0", {"0"}, "status", <<"mark">>), Edge("status", {"0"}, "status", <<>>),
      Edge("status", {"sp"}, "reason0", <<"status_code">>),
      Edge("reason0", ResponseChar \ {"lf"}, "reason", <<"mark">>),
      Edge("reason", ValueChar, "reason", <<>>),
      Edge("reason", {"lf"}, "line", <<"reason_phrase">>),
      Edge("reason", {"cr"}, "linecr", <<"reason_phrase">>) }

-----------------------------------------------------------------------------
(* Headers.  A name that is a prefix of one of the three is in "key" and   *)
(* its x is the prefix.                                                    *)

Words == {"connection", "encoding", "length"}
Name(w) ==
    CASE w = "connection" -> <<"c", "o", "n", "n", "e", "c", "t", "i", "o", "n">>
      [] w = "encoding" -> <<"t", "r", "a", "n", "s", "f", "e", "r", "-",
                             "e", "n", "c", "o", "d", "i", "n", "g">>
      [] w = "length" -> <<"c", "o", "n", "t", "e", "n", "t", "-", "l", "e", "n", "g", "t", "h">>
Value(w) ==
    CASE w = "connection" -> <<"c", "l", "o", "s", "e">>
      [] w = "encoding" -> <<"c", "h", "u", "n", "k", "e", "d">>
      [] w = "length" -> <<"0">>
IsKey(p) == \E w \in Words : IsPrefix(p, Name(w))

\* The value of w: i characters have matched; a length is any number of digits.
Matches(w, i, c) == IF w = "length" THEN c = "0" ELSE i < Len(Value(w)) /\ Fold(c) = Value(w)[i + 1]
Advance(w, i) == IF w = "length" THEN 1 ELSE i + 1
Whole(w, i) == i = Len(Value(w))

\* The first character of a line: do are the actions that are still due.
NameStart(s, c, do) ==
    CASE c = "lf" -> Go("end", FALSE, do \o <<"done">>)
      [] c = "cr" -> Go("endcr", FALSE, do)
      [] c \in TokenChar ->
             Move(IF IsKey(<<Fold(c)>>) THEN State("key", FALSE, <<Fold(c)>>) ELSE State("name", FALSE, <<>>),
                  do \o <<"start_field">>)
      [] OTHER -> Error

HeaderEdges ==
    { Edge("linecr", {"lf"}, "line", <<>>),
      Edge("name", TokenChar, "name", <<>>), Edge("name", {":"}, "value0", <<"write_field">>),
      Edge("value0", ValueChar \ Blank, "value", <<"start_value">>),
      Edge("value0", Blank, "value0", <<"start_value">>),
      Edge("value0", {"lf"}, "line", <<"start_value", "write_value">>),
      Edge("value0", {"cr"}, "linecr", <<"start_value", "write_value">>),
      Edge("value", ValueChar, "value", <<>>),
      Edge("value", {"lf"}, "line", <<"write_value">>),
      Edge("value", {"cr"}, "linecr", <<"write_value">>) }

KeyStep(s, c) ==
    LET p == Append(s.x, Fold(c))
    IN  CASE c = ":" ->
                 Move(IF \E w \in Words : Name(w) = s.x
                      THEN State("keyvalue0", FALSE, [w |-> CHOOSE w \in Words : Name(w) = s.x, i |-> 0])
                      ELSE State("value0", FALSE, <<>>), <<"write_field">>)
          [] c \in TokenChar /\ IsKey(p) -> Move(State("key", FALSE, p), <<>>)
          [] c \in TokenChar /\ ~IsKey(p) -> Go("name", FALSE, <<>>)
          [] OTHER -> Error

\* The value of one of the three is complete and its line ends.  field says
\* that the line is also one of fields, which writes the value itself.
KeyEnd(s, c, field) ==
    LET cr == c = "cr"
    IN  CASE s.x.w = "connection" ->
                 Go(IF cr THEN "closecr" ELSE "close", FALSE, IF field THEN <<"write_value">> ELSE <<>>)
          [] s.x.w = "encoding" ->
                 IF cr THEN Go("chunkedcr", FALSE, <<"write_value">>)
                 ELSE Go("line", FALSE, <<"write_value", "trans_chunked">>)
          [] s.x.w = "length" ->
                 Go(IF cr THEN "linecr" ELSE "line", FALSE, <<"write_content_len", "write_value">>)

Key(s, at, i) == State(at, FALSE, [s.x EXCEPT !.i = i])
StartValue(s) == IF s.x.w = "connection" THEN <<>> ELSE <<"start_value">>

KeyValueStartStep(s, c) ==
    CASE c \in Blank -> Move(s, <<"start_value">>)
      [] c = "lf" -> Move(Key(s, "keyline", 0), <<"start_value", "write_value">>)
      [] c = "cr" -> Move(Key(s, "keycr", 0), <<"start_value", "write_value">>)
      [] Matches(s.x.w, 0, c) -> Move(Key(s, "keyvalue", 1), <<"start_value">>)
      [] OTHER -> Go("value", FALSE, <<"start_value">>)

\* The value, read as any value too.
KeyValueStep(s, c) ==
    CASE c \in {"lf", "cr"} /\ Whole(s.x.w, s.x.i) -> KeyEnd(s, c, TRUE)
      [] c \in {"lf", "cr"} /\ ~Whole(s.x.w, s.x.i) -> Follow(HeaderEdges, [s EXCEPT !.at = "value"], c)
      [] Matches(s.x.w, s.x.i, c) -> Move(Key(s, "keyvalue", Advance(s.x.w, s.x.i)), <<>>)
      [] OTHER -> Go("value", FALSE, <<>>)

\* Only blanks and line ends behind the colon so far.  In keycr, keyline,
\* keyendcr and keyend the last line ends may also be the end of the header
\* line (keyline) or of the header (keyend); in keyblank they cannot.
KeyBlankStep(s, c) ==
    CASE s.at = "keycr" /\ c = "lf" -> Move(Key(s, "keyline", 0), <<>>)
      [] s.at = "keyendcr" /\ c = "lf" -> Move(Key(s, "keyend", 0), <<"done">>)
      [] c \in Space /\ ~(s.at \in {"keycr", "keyendcr"} /\ c = "lf") -> Move(Key(s, "keyblank", 0), <<>>)
      [] Matches(s.x.w, 0, c) -> Move(Key(s, "keyonly", 1), StartValue(s))
      [] OTHER -> Error

KeyLineStep(s, c) ==
    CASE c \in Blank -> Move(Key(s, "keyblank", 0), <<>>)
      [] c = "lf" -> Move(Key(s, "keyend", 0), <<"done">>)
      [] c = "cr" -> Move(Key(s, "keyendcr", 0), <<>>)
      [] Matches(s.x.w, 0, c) -> Move(Key(s, "both", 1), StartValue(s) \o <<"start_field">>)
      [] OTHER -> NameStart(s, c, <<>>)

\* The value, behind a line end.
KeyOnlyStep(s, c) ==
    CASE c \in {"lf", "cr"} /\ Whole(s.x.w, s.x.i) -> KeyEnd(s, c, FALSE)
      [] Matches(s.x.w, s.x.i, c) -> Move(Key(s, "keyonly", Advance(s.x.w, s.x.i)), <<>>)
      [] OTHER -> Error

\* The value behind a line end, or the name of the next header.
BothStep(s, c) ==
    CASE c \in {"lf", "cr"} /\ Whole(s.x.w, s.x.i) -> KeyEnd(s, c, FALSE)
      [] Matches(s.x.w, s.x.i, c) -> Move(Key(s, "both", Advance(s.x.w, s.x.i)), <<>>)
      [] OTHER -> IF s.x.i = 1 /\ s.x.w # "length" THEN KeyStep([s EXCEPT !.x = <<"c">>], c)
                  ELSE Follow(HeaderEdges, [s EXCEPT !.at = "name"], c)

\* Behind Connection: close, whose action runs with the next character.
CloseStep(s, c) ==
    CASE s.at = "close" -> NameStart(s, c, <<"write_connection_close">>)
      [] s.at = "closecr" /\ c = "lf" -> Go("close", FALSE, <<>>)
      [] s.at = "chunkedcr" /\ c = "lf" -> Go("line", FALSE, <<"trans_chunked">>)
      [] OTHER -> Error

-----------------------------------------------------------------------------
Step(s, c) ==
    CASE s.at = "start" /\ c = "H" -> Move(State("ver", FALSE, 1), <<"mark">>)
      [] s.at = "ver" -> VersionStep(s, c)
      [] s.at = "line" -> NameStart(s, c, <<>>)
      [] s.at = "key" -> KeyStep(s, c)
      [] s.at = "keyvalue0" -> KeyValueStartStep(s, c)
      [] s.at = "keyvalue" -> KeyValueStep(s, c)
      [] s.at \in {"keycr", "keyendcr", "keyend", "keyblank"} -> KeyBlankStep(s, c)
      [] s.at = "keyline" -> KeyLineStep(s, c)
      [] s.at = "keyonly" -> KeyOnlyStep(s, c)
      [] s.at = "both" -> BothStep(s, c)
      [] s.at \in {"close", "closecr", "chunkedcr"} -> CloseStep(s, c)
      [] OTHER -> Follow(ChunkEdges \cup ExtensionEdges \cup ExtensionValueEdges \cup NumberEdges
                             \cup StatusEdges \cup HeaderEdges, s, c)

\* httpclient_parser_is_finished compares with the first final state: the
\* other three (keyend) do not count.
Final(s) == s.at = "end"
=============================================================================
