----------------------------- MODULE MCServices -----------------------------
(* Services on small instances: the responses a server gives.              *)
EXTENDS Services

OfLength(n) == [chunked |-> FALSE, ends |-> <<n>>]
InChunks(ends) == [chunked |-> TRUE, ends |-> ends]
TheShapes == {OfLength(0), OfLength(2), OfLength(5), OfLength(6),
              InChunks(<<1, 3>>), InChunks(<<>>), InChunks(<<3, 6>>)}
=============================================================================
