--------------------------- MODULE ResponseParser ---------------------------
(***************************************************************************)
(* HttpResponseParser (wyze/http/http_parser.cpp) over                     *)
(* httpclient_parser_execute.  "1" stands for the digits but 0 here; a     *)
(* number is kept as its digits without leading zeros, <<>> for 0.         *)
(***************************************************************************)
EXTENDS ResponseAutomaton

Unknown == <<"-", "1">>

\* httpclient_parser_init and HttpResponse::HttpResponse; content_len = -1.
\* past: a header name was copied from behind the received data, so that it
\* holds whatever the buffer held there (the header is left out).
NewResponse ==
    [cs |-> Start, mark |-> 0, field_start |-> 0, field_len |-> 0, body_start |-> 0, nread |-> 0,
     content_len |-> Unknown, chunked |-> FALSE, chunks_done |-> FALSE, close |-> FALSE,
     past |-> FALSE, m_error |-> 0, m_status |-> <<>>, m_version |-> "1.1", m_reason |-> <<>>,
     m_headers |-> <<>>]

Class(c) == IF c = "1" THEN "0" ELSE c

\* strtol of a string of digits.
Strtol(digits) ==
    LET nonzero == {i \in DOMAIN digits : digits[i] # "0"}
    IN  IF nonzero = {} THEN <<>>
        ELSE SubSeq(digits, CHOOSE i \in nonzero : \A j \in nonzero : i <= j, Len(digits))

on_response_version(r, token) ==
    CASE token = VersionText \o <<"1", ".", "1">> -> [r EXCEPT !.m_version = "1.1"]
      [] token = VersionText \o <<"1", ".", "0">> -> [r EXCEPT !.m_version = "1.0"]
      [] OTHER -> [r EXCEPT !.m_error = 1001]

FoldName(name) == [i \in DOMAIN name |-> Fold(name[i])]
on_response_http_field(r, name, value) ==
    IF Len(name) = 0 THEN [r EXCEPT !.m_error = 1002]
    ELSE [r EXCEPT !.m_headers = (FoldName(name) :> value) @@ @]

WriteField(r, p) == [r EXCEPT !.field_len = p - r.field_start]

ChunkSize(r, token) ==
    [r EXCEPT !.chunked = TRUE, !.content_len = Strtol(token), !.chunks_done = Strtol(token) = <<>>]

ConnectionClose(r) == [r EXCEPT !.close = TRUE]

\* action name { ... } with fpc = p.
ResponseAction(r, name, text, p) ==
    LET token == SubSeq(text, r.mark + 1, p)
    IN  CASE name \in {"mark", "start_value"} -> [r EXCEPT !.mark = p]
          [] name = "start_field" -> [r EXCEPT !.field_start = p]
          [] name = "write_field" -> WriteField(r, p)
          [] name = "write_value" ->
                 IF r.field_start + r.field_len <= Len(text)
                 THEN on_response_http_field(r, SubSeq(text, r.field_start + 1, r.field_start + r.field_len), token)
                 ELSE [r EXCEPT !.past = TRUE]
          [] name = "write_content_len" -> [r EXCEPT !.content_len = Strtol(token)]
          [] name = "write_connection_close" -> ConnectionClose(r)
          [] name = "reason_phrase" -> [r EXCEPT !.m_reason = token]
          [] name = "status_code" -> [r EXCEPT !.m_status = Strtol(token)]
          [] name = "http_version" -> on_response_version(r, token)
          [] name = "chunk_size" -> ChunkSize(r, token)
          [] name = "trans_chunked" -> [r EXCEPT !.chunked = TRUE]
          [] name = "done" -> [r EXCEPT !.body_start = p + 1]

\* Where the loop leaves p: on the character it cannot read, behind the others.
Nread(to, p) == IF to.at = "error" THEN p ELSE p + 1

\* httpclient_parser_execute on one more character.  done breaks out of the
\* loop, but a later call goes on from the state it left: a final state that
\* is_finished does not know (keyend) is resumed.
ResponseFeed(r, text) ==
    LET m == Step(r.cs, Class(Last(text)))
        p == Len(text) - 1
        v == FoldLeft(LAMBDA w, name : ResponseAction(w, name, text, p), r, m.do)
    IN  IF Final(r.cs) \/ r.cs.at = "error" THEN r
        ELSE [v EXCEPT !.cs = m.to, !.nread = Nread(m.to, p)]

ResponseError(r) == r.m_error # 0 \/ r.cs.at = "error"
ResponseFinished(r) == Final(r.cs)

\* HttpResponseParser::getIsClose: an absent or empty header counts as close,
\* and so does a prefix of it.
getIsClose(r) ==
    LET name == Name("connection")
        value == IF name \in DOMAIN r.m_headers THEN r.m_headers[name] ELSE <<>>
    IN  IsPrefix(FoldName(value), Value("connection"))

\* getHeaderAs<uint64_t>("content-length"): lexical_cast of the whole value,
\* 0 if the header is not there or not a number.
getContentLength(r) ==
    LET name == Name("length")
        value == IF name \in DOMAIN r.m_headers THEN r.m_headers[name] ELSE <<>>
    IN  IF \A i \in DOMAIN value : value[i] \in {"0", "1"} THEN Strtol(value) ELSE <<>>

\* The assertions at the end of httpclient_parser_execute.
ResponseAsserts(r, len) ==
    /\ r.nread <= len /\ r.body_start <= len /\ r.field_len <= len
    /\ r.mark < len /\ r.field_start < len
=============================================================================
