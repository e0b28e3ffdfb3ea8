---------------------------- MODULE MCStructures ----------------------------
(* Structures on small instances: the fields written to the buffer, the    *)
(* patterns of the servlets, the definitions of the loggers, and the       *)
(* families of inputs that lead to each part of the grammars.              *)
EXTENDS Structures

CONSTANTS p1, p2, g1, g2, g3

F(t, v) == [type |-> t, value |-> v]

\* Bytes of 3 bits; 32 bits are scaled to 6 and 64 to 9.
MCFields ==
  {F("F32", 11), F("I32", -32), F("U64", 64), F("SF32", <<>>), F("SVint", <<5, 1>>)}

MCPackets == {<<6, 3, 4>>}

ThePaths == {p1, p2}
TheGlobs == {g1, g2, g3}
TheMatching == (g1 :> {p1}) @@ (g2 :> {p2}) @@ (g3 :> {p1, p2})

Sink(name, fmt) == [sink |-> name, fmt |-> fmt]
TheDefinitions ==
    {[fmt |-> Inherit, sinks |-> <<Sink("file", Inherit)>>],
     [fmt |-> "plain", sinks |-> <<Sink("file", "own"), Sink("stdout", "broken")>>],
     [fmt |-> "broken", sinks |-> <<>>]}

-----------------------------------------------------------------------------
Family(grammar, first, more) == [grammar |-> grammar, first |-> first, more |-> more]
Letters(set) == {<<c>> : c \in set}

HTTP == <<"alpha", "alpha", "alpha", "alpha", ":", "/", "/">>
Authorities == Family("uri", HTTP, Letters({"alpha", "1", ":", "@", "/", "?", "#", "%", "high"}))
References == Family("uri", <<"alpha">>, Letters({"alpha", "+", ":", "/", "?", "#", "high"}))
Octets == Family("uri", HTTP \o <<"[", ":", ":", "1", ".", "0", ".", "1", ".">>,
                 Letters({"0", "1", "2", "3", "5", "6", "x02", "]", "."}))
Groups == Family("uri", HTTP \o <<"[">>,
                 {<<":">>, <<":", ":">>, <<"1">>, <<"hex", ":">>, <<"v", "1", ".">>, <<"]">>,
                  <<"1", ":", "1", ":", "1", ":", "1", ":", "1">>, <<"1", ".", "1", ".", "1", ".", "1">>})
Ports == Family("uri", HTTP \o <<"alpha", ":">>, Letters({"6", "0", "1", "/", "@", "?"}))

Version == <<"sp", "H", "T", "T", "P", "/", "1", ".", "1", "cr", "lf">>
Targets == Family("request", <<"UPPER", "HEX", "T", "sp">>,
                  {<<"/">>, <<"lower">>, <<":">>, <<"?">>, <<"#">>, <<"{">>, <<"%", "1", "hex">>,
                   <<"/", "/">>, <<"[", ":", ":", "1", "]">>, Version, <<"lf">>})
Headers == Family("request", <<"P", "UPPER", "UPPER", "T", "sp", "/">> \o Version,
                  {<<"hex", ":">>, <<"HEX", ":">>, <<"sp">>, <<"1">>, <<"cr", "lf">>, <<"lf">>, <<"cr">>,
                   <<"lower">>, <<":">>})
Methods == Family("request", <<"UPPER", "HEX">>,
                  {<<"T">>, <<"UPPER">>, <<"sp", "/">>, Version, <<"cr", "lf">>})
Sockets == Family("request", <<"@">>,
                  {<<"lower">>, <<"/">>, <<"/", "/">>, <<"[", "v", "1", ".", "lower", "]">>, <<"sp", "{">>, <<"}">>, <<"nul">>})
XML == Family("request", <<"<", "lower">>, {<<"lower">>, <<"sp">>, <<">">>, <<"nul">>, <<"/">>})

Status == <<"H", "T", "T", "P", "/", "1", ".", "1", "sp", "1", "0", "0", "sp", "o", "k", "cr", "lf">>
Keys == Family("response", Status,
               {<<"c", "o", "n", "n", "e", "c", "T", "i", "o", "n", ":">>,
                <<"c", "o", "n", "T", "e", "n", "t", "-", "l", "e", "n", "g", "t", "h", ":">>,
                <<"T", "r", "a", "n", "s", "f", "e", "r", "-", "e", "n", "c", "o", "d", "i", "n", "g", ":">>,
                <<"c", "l", "o", "s", "e">>, <<"c", "h", "u", "n", "k", "e", "d">>, <<"1", "0">>,
                <<"sp">>, <<"cr", "lf">>, <<"lf">>, <<"c", "o">>, <<":">>, <<"cr", "lf", "cr", "lf">>})
StatusLines == Family("response", <<"H", "T", "T", "P", "/">>,
                      {<<"1", ".", "1">>, <<"0">>, <<"sp">>, <<"1">>, <<"o", "k">>, <<"cr", "lf">>, <<"lf">>})
Chunks == Family("response", <<"0">>,
                 {<<"0">>, <<"1">>, <<"a">>, <<";">>, <<"c", "o">>, <<"=">>, <<"cr">>, <<"lf">>})

MCInputs == {Authorities, References, Octets, Groups, Ports, Targets, Headers, Methods, Sockets, XML,
             Keys, StatusLines, Chunks}
=============================================================================
