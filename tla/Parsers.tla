------------------------------ MODULE Parsers ------------------------------
(***************************************************************************)
(* The three parsers of the HTTP side on the inputs that grow word by      *)
(* word: a word is a short run of characters, so that long fixed texts do  *)
(* not have to be spelled out by the model checker.  Each parser is fed    *)
(* character by character; a state of the model is a call of execute (or,  *)
(* for a URI, of Create) that ends behind a word, so the callers' reads may *)
(* cut the message at any word.                                            *)
(*                                                                         *)
(* The reference definitions split the text at its delimiters and know     *)
(* nothing of the automata.                                                *)
(***************************************************************************)
EXTENDS Integers, Sequences, SequencesExt

CONSTANTS
    Inputs,       \* the families of inputs: records of a grammar, a first word, further words
    MaxWords      \* bound: how many words are appended

VARIABLES
    input,        \* the member of Inputs that is being explored
    words,        \* how many words have been appended
    text,         \* what has been received
    parsed        \* the parser

parseVars == <<input, words, text, parsed>>

U == INSTANCE Uri
Q == INSTANCE RequestParser
S == INSTANCE ResponseParser

Feed(grammar, o, t) ==
    CASE grammar = "uri" -> U!UriFeed(o, t)
      [] grammar = "request" -> Q!RequestFeed(o, t)
      [] grammar = "response" -> S!ResponseFeed(o, t)

Failed(grammar, o) ==
    CASE grammar = "uri" -> o.cs.at = "error" \/ o.fault
      [] grammar = "request" -> Q!RequestError(o)
      [] grammar = "response" -> S!ResponseError(o)

\* The callers stop at the end of the header.
Stopped(grammar, o) ==
    CASE grammar = "uri" -> FALSE
      [] grammar = "request" -> Q!RequestFinished(o)
      [] grammar = "response" -> S!ResponseFinished(o)

\* execute: t has been read, word arrives.
Run(grammar, o, t, word) ==
    LET run[i \in 0..Len(word)] ==
            IF i = 0 THEN o ELSE Feed(grammar, run[i - 1], t \o SubSeq(word, 1, i))
    IN  run[Len(word)]

New(grammar, relaxed) ==
    CASE grammar = "uri" -> U!NewUri
      [] grammar = "request" -> Q!NewRequest(relaxed)
      [] grammar = "response" -> S!NewResponse

ParseInit ==
    /\ input \in Inputs
    /\ words = 0
    /\ text = input.first
    /\ \E relaxed \in IF input.grammar = "request" THEN BOOLEAN ELSE {FALSE} :
           parsed = Run(input.grammar, New(input.grammar, relaxed), <<>>, input.first)

Receive(word) ==
    /\ words < MaxWords
    /\ ~Failed(input.grammar, parsed) /\ ~Stopped(input.grammar, parsed)
    /\ text' = text \o word
    /\ parsed' = Run(input.grammar, parsed, text, word)
    /\ words' = words + 1
    /\ UNCHANGED input

ParseNext == \E word \in input.more : Receive(word)


-----------------------------------------------------------------------------
(* Splitting a text.                                                       *)

\* The first index from i on that holds a member of set, Len(t) + 1 if none.
At(t, i, set) ==
    LET found == {j \in i..Len(t) : t[j] \in set}
    IN  IF found = {} THEN Len(t) + 1 ELSE CHOOSE j \in found : \A k \in found : j <= k
Part(t, i, j) == SubSeq(t, i, j - 1)
From(t, i) == SubSeq(t, i, Len(t))

\* Without the leading blanks.
Trim(t) ==
    LET i == CHOOSE i \in 1..(Len(t) + 1) :
                 /\ \A j \in 1..(i - 1) : t[j] \in {"sp", "tab"}
                 /\ i <= Len(t) => t[i] \notin {"sp", "tab"}
    IN  From(t, i)
Chomp(t) == IF t # <<>> /\ Last(t) = "cr" THEN SubSeq(t, 1, Len(t) - 1) ELSE t

\* The complete lines of t, without their line ends.
Lines(t) ==
    LET split[i \in 1..(Len(t) + 1)] ==
            LET e == At(t, i, {"lf"})
            IN  IF e > Len(t) THEN <<>> ELSE <<Chomp(Part(t, i, e))>> \o split[e + 1]
    IN  split[1]

-----------------------------------------------------------------------------
(* Uri.                                                                    *)

isUri == input.grammar = "uri"
uri == U!UriFinish(parsed, text)

\* The parts of scheme "://" authority path "?" query "#" fragment.
UriParts(t) ==
    LET s == At(t, 1, {":"})
        a == At(t, s + 3, {"/", "?", "#"})
        authority == Part(t, s + 3, a)
        at == At(authority, 1, {"@"})
        hostport == IF at > Len(authority) THEN authority ELSE From(authority, at + 1)
        close == At(hostport, 1, {"]"})
        colon == At(hostport, IF close > Len(hostport) THEN 1 ELSE close, {":"})
        q == At(t, a, {"?", "#"})
        f == At(t, q, {"#"})
    IN  [scheme |-> Part(t, 1, s),
         userinfo |-> IF at > Len(authority) THEN <<>> ELSE Part(authority, 1, at),
         host |-> Part(hostport, 1, colon), port |-> From(hostport, colon + 1),
         emptyPort |-> colon = Len(hostport),
         path |-> Part(t, a, q), query |-> Part(t, q + 1, f), fragment |-> From(t, f + 1)]

HasAuthority(t) ==
    LET s == At(t, 1, {":"})
    IN  /\ s < At(t, 1, {"/", "?", "#"}) /\ s + 2 <= Len(t)
        /\ t[s + 1] = "/" /\ t[s + 2] = "/"

\* The password of a userinfo begins with a digit: it was taken for a port,
\* and what is in front of the colon is lost.
DigitPassword(userinfo) ==
    LET colon == At(userinfo, 1, {":"})
    IN  colon < Len(userinfo) /\ userinfo[colon + 1] \in U!Digit

\* Uri::Create (uri.cpp:19) gives every component of a URI with an authority
\* the characters between its delimiters; of a userinfo whose password begins
\* with a digit it keeps the password only.
UriComponents ==
    isUri /\ HasAuthority(text) /\ U!UriOk(uri) =>
        LET p == UriParts(text)
            colon == At(p.userinfo, 1, {":"})
        IN  /\ uri.m_scheme = p.scheme /\ uri.m_host = p.host /\ uri.m_port = U!Atoi(p.port)
            /\ uri.m_path = p.path /\ uri.m_query = p.query /\ uri.m_fragment = p.fragment
            /\ uri.m_userinfo = IF DigitPassword(p.userinfo) THEN From(p.userinfo, colon + 1) ELSE p.userinfo

\* Create throws (save_path without a mark, uri.cpp:10853) only where a port
\* may follow and does not, and there it always throws.
UriThrowsAtEmptyPort ==
    isUri /\ HasAuthority(text) /\ U!Final(uri.cs) => (uri.fault <=> UriParts(text).emptyPort)

\* What Uri::toString writes for a URI with an authority, Create reads back
\* as the same URI, unless
\* the userinfo is one that Create does not keep.
UriRoundTrip ==
    isUri /\ HasAuthority(text) /\ U!UriOk(uri) /\ ~DigitPassword(uri.m_userinfo) =>
        LET again == U!Create(U!toString(uri))
        IN  /\ U!UriOk(again)
            /\ again.m_scheme = uri.m_scheme /\ again.m_userinfo = uri.m_userinfo
            /\ again.m_host = uri.m_host /\ U!getPort(again) = U!getPort(uri)
            /\ U!getPath(again) = U!getPath(uri) /\ again.m_query = uri.m_query
            /\ again.m_fragment = uri.m_fragment

-----------------------------------------------------------------------------
(* IP literals.                                                            *)

\* The groups and octets of an address between brackets.
Pieces(t, sep) ==
    LET split[i \in 1..(Len(t) + 1)] ==
            LET e == At(t, i, {sep})
            IN  IF e > Len(t) THEN <<From(t, i)>> ELSE <<Part(t, i, e)>> \o split[e + 1]
    IN  split[1]
\* The largest number the digits of the class can stand for.
ClassMax(c) == CASE c = "0" -> 0 [] c = "1" -> 1 [] c = "2" -> 2 [] c = "3" -> 4 [] c = "5" -> 5 [] c = "6" -> 9
Number(t) ==
    LET n[i \in 0..Len(t)] == IF i = 0 THEN 0 ELSE 10 * n[i - 1] + ClassMax(t[i])
    IN  n[Len(t)]

\* A literal that is not the byte-2 form or an IPvFuture: at most eight groups
\* (an IPv4 address counts for two), eight if no "::" stands for the others,
\* and four octets of at most 255 in the IPv4 address.
LiteralIsAddress ==
    isUri /\ HasAuthority(text) /\ U!UriOk(uri) /\ uri.m_host # <<>> /\ Head(uri.m_host) = "[" =>
        LET inner == SubSeq(uri.m_host, 2, Len(uri.m_host) - 1)
            groups == SelectSeq(Pieces(inner, ":"), LAMBDA g : g # <<>>)
            v4 == groups # <<>> /\ Contains(Last(groups), ".")
            octets == Pieces(Last(groups), ".")
            n == Len(groups) + IF v4 THEN 1 ELSE 0
            double == \E i \in 1..(Len(inner) - 1) : inner[i] = ":" /\ inner[i + 1] = ":"
        IN  inner[1] # "v" /\ ~Contains(inner, "x02") =>
                /\ IF double THEN n <= 7 ELSE n = 8
                /\ v4 => Len(octets) = 4 /\ \A i \in 1..4 : octets[i] # <<>> /\ Number(octets[i]) <= 255

-----------------------------------------------------------------------------
(* Requests.                                                               *)

isRequest == input.grammar = "request" /\ Head(text) \notin {"<", "@"}

\* Every header line of t that is complete has a name and a colon.
HeaderLines(t) == IF Lines(t) = <<>> THEN <<>> ELSE Tail(Lines(t))
WellFormed(lines) == \A i \in DOMAIN lines : lines[i] # <<>> => At(lines[i], 2, {":"}) <= Len(lines[i])
HasEnd(lines) == \E i \in DOMAIN lines : lines[i] = <<>>

\* The fields of the lines up to the empty one: the last of a name counts.
HeaderFields(lines, Fold(_)) ==
    LET name(l) == Fold(Part(l, 1, At(l, 2, {":"})))
        value(l) == Trim(From(l, At(l, 2, {":"}) + 1))
        end == CHOOSE i \in DOMAIN lines : lines[i] = <<>> /\ \A j \in 1..(i - 1) : lines[j] # <<>>
        last(n) == CHOOSE i \in 1..(end - 1) :
                       name(lines[i]) = n /\ \A j \in (i + 1)..(end - 1) : name(lines[j]) # n
    IN  [n \in {name(lines[i]) : i \in 1..(end - 1)} |-> value(lines[last(n)])]

\* The end of the header of a request is found exactly where its empty line
\* is, however the reads cut the text (http_session.cpp:76), provided that
\* every header line has a colon: a line without one is taken for the
\* beginning of a name and swallows what follows, the empty line too.
RequestEndIsFound ==
    isRequest /\ ~Q!RequestError(parsed) /\ WellFormed(HeaderLines(text)) =>
        /\ Q!RequestFinished(parsed) <=> HasEnd(HeaderLines(text))
        /\ Q!RequestFinished(parsed) => Last(Lines(SubSeq(text, 1, parsed.nread))) = <<>>

\* The request the callbacks of http_parser.cpp built is the one the text
\* says: path, query and fragment cut out of the target at its delimiters,
\* every header with its value without leading blanks.
RequestMatchesText ==
    isRequest /\ Q!RequestFinished(parsed) /\ ~Q!RequestError(parsed) /\ WellFormed(HeaderLines(text)) =>
        LET line == Head(Lines(text))
            b == At(line, 1, {"sp"})
            target == Part(line, b + 1, At(line, b + 1, {"sp"}))
            colon == At(target, 1, {":"})
            p == IF colon < At(target, 1, {"/", "?", "#"}) THEN colon + 1 ELSE 1
            q == At(target, p, {"?", "#"})
            f == At(target, q, {"#"})
        IN  /\ parsed.m_path = Part(target, p, q)
            /\ parsed.m_query = Part(target, q + 1, f)
            /\ parsed.m_fragment = From(target, f + 1)
            /\ parsed.m_headers = HeaderFields(HeaderLines(text), Q!Fold)

-----------------------------------------------------------------------------
(* Responses.                                                              *)

isResponse == input.grammar = "response" /\ Head(text) = "H"
isChunk == input.grammar = "response" /\ Head(text) # "H"

\* One of the three headers the automaton knows, without a value.
EmptyKey(line) ==
    \E w \in S!Words :
        /\ S!FoldName(Part(line, 1, At(line, 2, {":"}))) = S!Name(w)
        /\ Trim(From(line, At(line, 2, {":"}) + 1)) = <<>>
Plain(lines) == WellFormed(lines) /\ \A i \in DOMAIN lines : lines[i] # <<>> => ~EmptyKey(lines[i])

\* The header of a response ends at its empty line, if every header line has
\* a colon and Connection, Content-Length and Transfer-Encoding have a value;
\* behind an empty one of these the parser ends in a final state that
\* httpclient_parser_is_finished (httpclient_parser.cpp:3330) does not know.
ResponseEndIsFound ==
    isResponse /\ ~S!ResponseError(parsed) /\ Plain(HeaderLines(text)) =>
        /\ S!ResponseFinished(parsed) <=> HasEnd(HeaderLines(text))
        /\ S!ResponseFinished(parsed) => Last(Lines(SubSeq(text, 1, parsed.nread))) = <<>>

\* Every header name the parser reports lies in the received text, if
\* Connection, Content-Length and Transfer-Encoding have a value: behind an
\* empty one the next line is read as a value and as a name at once, and
\* field_start moves while field_len stays (httpclient_parser.cpp:2009).
ResponseFieldsInText == isResponse /\ Plain(HeaderLines(text)) => ~parsed.past

\* The flags that decide how HttpConnection::recvResponse reads the body agree
\* with the headers it reports: chunked with Transfer-Encoding: chunked, close
\* with Connection: close, content_len with Content-Length.
ResponseFlagsMatchHeaders ==
    isResponse /\ S!ResponseFinished(parsed) /\ ~S!ResponseError(parsed) /\ Plain(HeaderLines(text)) =>
        LET value(w) == IF S!Name(w) \in DOMAIN parsed.m_headers THEN parsed.m_headers[S!Name(w)] ELSE <<>>
            lines == HeaderLines(text)
            says(w, v) == \E i \in DOMAIN lines :
                              /\ S!FoldName(Part(lines[i], 1, At(lines[i], 2, {":"}))) = S!Name(w)
                              /\ S!FoldName(Trim(From(lines[i], At(lines[i], 2, {":"}) + 1))) = v
        IN  /\ parsed.m_headers = HeaderFields(lines, S!FoldName)
            /\ parsed.chunked <=> says("encoding", S!Value("encoding"))
            /\ parsed.close <=> says("connection", S!Value("connection"))
            /\ value("length") # <<>> /\ (\A i \in DOMAIN value("length") : value("length")[i] \in {"0", "1"})
                   => parsed.content_len = S!getContentLength(parsed)

\* A chunk's size line: the size is what stands in front of extensions and
\* line end, and only a size of zero ends the body.
ChunkSizeIsRead ==
    isChunk /\ S!ResponseFinished(parsed) =>
        /\ parsed.chunked
        /\ parsed.content_len = S!Strtol(Part(text, 1, At(text, 1, {";", "cr", "lf"})))
        /\ parsed.chunks_done <=> parsed.content_len = <<>>
        /\ parsed.body_start = At(text, 1, {"lf"}) /\ parsed.nread = parsed.body_start

-----------------------------------------------------------------------------
\* The assertions at the end of both execute functions hold wherever a read
\* ends.
ParserAssertsHold ==
    CASE input.grammar = "request" -> Q!RequestAsserts(parsed, Len(text))
      [] input.grammar = "response" -> S!ResponseAsserts(parsed, Len(text))
      [] OTHER -> TRUE

-----------------------------------------------------------------------------
\* Uri::Create reads what is between the delimiters, and nothing else.
UriIsRead == UriComponents /\ UriThrowsAtEmptyPort /\ UriRoundTrip /\ LiteralIsAddress

\* HttpRequestParser and HttpResponseParser find the end of a message, and of
\* a chunk's size, wherever reads cut it; what they report is what the text
\* says and agrees with their flags; the assertions of execute hold.
MessageIsRead ==
    /\ RequestEndIsFound /\ RequestMatchesText
    /\ ResponseEndIsFound /\ ResponseFieldsInText /\ ResponseFlagsMatchHeaders /\ ChunkSizeIsRead
    /\ ParserAssertsHold
=============================================================================
