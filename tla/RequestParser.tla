--------------------------- MODULE RequestParser ---------------------------
(***************************************************************************)
(* HttpRequestParser (wyze/http/http_parser.cpp) over http_parser_execute: *)
(* what the actions of the automaton do to the http_parser structure and,  *)
(* through the callbacks, to the HttpRequest.  Offsets count from the      *)
(* beginning of the buffer, which keeps all of the message until it is     *)
(* parsed.                                                                 *)
(***************************************************************************)
EXTENDS RequestAutomaton, SequencesExt

\* http_parser_init and HttpRequest::HttpRequest.  uri_relaxed is not
\* initialised: it has whatever value the memory held.
NewRequest(relaxed) ==
    [cs |-> Start, uri_relaxed |-> relaxed, mark |-> 0, field_start |-> 0, field_len |-> 0,
     query_start |-> 0, body_start |-> 0, content_len |-> 0, nread |-> 0, xml_sent |-> FALSE,
     json_sent |-> FALSE, stop |-> FALSE, m_error |-> 0, m_method |-> "GET", m_version |-> "1.1",
     m_path |-> <<"/">>, m_query |-> <<>>, m_fragment |-> <<>>, m_headers |-> <<>>]

\* CharsToHttpMethod compares only as many characters as the name has.  Two
\* names stand for the table.
CharsToHttpMethod(token) ==
    CASE IsPrefix(<<"UPPER", "HEX", "T">>, token) -> "GET"
      [] IsPrefix(<<"P", "UPPER", "UPPER", "T">>, token) -> "POST"
      [] OTHER -> "INVALID_METHOD"

on_request_method(r, token) ==
    IF CharsToHttpMethod(token) = "INVALID_METHOD" THEN [r EXCEPT !.m_error = 1000]
    ELSE [r EXCEPT !.m_method = CharsToHttpMethod(token)]

on_request_version(r, token) ==
    CASE token = VersionText \o <<"1">> -> [r EXCEPT !.m_version = "1.1"]
      [] token = VersionText \o <<"0">> -> [r EXCEPT !.m_version = "1.0"]
      [] OTHER -> [r EXCEPT !.m_error = 1001]

\* A header name, without its case: the map compares names that way.
Fold(name) ==
    [i \in DOMAIN name |-> CASE name[i] = "HEX" -> "hex"
                             [] name[i] \in {"UPPER", "H", "P", "T"} -> "lower"
                             [] OTHER -> name[i]]
on_request_http_field(r, name, value) ==
    IF Len(name) = 0 THEN [r EXCEPT !.m_error = 1002]
    ELSE [r EXCEPT !.m_headers = (Fold(name) :> value) @@ @]

\* action done: of a socket message the body is what mark points to, with
\* the final NUL.
done(r, p) ==
    IF r.xml_sent \/ r.json_sent
    THEN [r EXCEPT !.body_start = r.mark, !.content_len = p - r.mark + 1, !.stop = TRUE]
    ELSE [r EXCEPT !.body_start = p + 1, !.stop = TRUE]

SetMark(r, p) == [r EXCEPT !.mark = p]

\* Mutant: the query begins at mark, where the path begins.
QueryStringAtMark(r, text, p) == [r EXCEPT !.m_query = SubSeq(text, r.mark + 1, p)]
QueryString(r, text, p) == [r EXCEPT !.m_query = SubSeq(text, r.query_start + 1, p)]

\* action name { ... } with fpc = p.
RequestAction(r, name, text, p) ==
    LET token == SubSeq(text, r.mark + 1, p)
    IN  CASE name \in {"mark", "start_value"} -> SetMark(r, p)
          [] name = "start_field" -> [r EXCEPT !.field_start = p]
          [] name = "write_field" -> [r EXCEPT !.field_len = p - r.field_start]
          [] name = "write_value" ->
                 on_request_http_field(r, SubSeq(text, r.field_start + 1, r.field_start + r.field_len), token)
          [] name = "request_method" -> on_request_method(r, token)
          [] name = "request_uri" -> r
          [] name = "fragment" -> [r EXCEPT !.m_fragment = token]
          [] name = "start_query" -> [r EXCEPT !.query_start = p]
          [] name = "query_string" -> QueryString(r, text, p)
          [] name = "http_version" -> on_request_version(r, token)
          [] name = "request_path" -> [r EXCEPT !.m_path = token]
          [] name = "xml" -> [r EXCEPT !.xml_sent = TRUE]
          [] name = "json" -> [r EXCEPT !.json_sent = TRUE]
          [] name = "done" -> done(r, p)

\* Where the loop leaves p: on the character it cannot read, behind the others.
Nread(to, p) == IF to.at = "error" THEN p ELSE p + 1

\* http_parser_execute on one more character.  After done (fbreak) and in the
\* error state nothing is read; nread is where it stopped.
RequestFeed(r, text) ==
    LET m == Step(r.cs, Last(text), r.uri_relaxed)
        p == Len(text) - 1
        v == FoldLeft(LAMBDA w, name : RequestAction(w, name, text, p), r, m.do)
    IN  IF r.stop \/ r.cs.at = "error" THEN r
        ELSE [v EXCEPT !.cs = m.to, !.nread = Nread(m.to, p)]

\* HttpRequestParser::hasError and http_parser_finish.
RequestError(r) == r.m_error # 0 \/ r.cs.at = "error"
RequestFinished(r) == r.cs.at # "error" /\ Final(r.cs)

\* The assertions at the end of http_parser_execute, for a buffer of len bytes.
RequestAsserts(r, len) ==
    /\ r.nread <= len /\ r.body_start <= len /\ r.field_len <= len
    /\ r.mark < len /\ r.field_start < len
=============================================================================
