------------------------------ MODULE Automaton ------------------------------
(***************************************************************************)
(* What the three ragel-generated parsers (uri.cpp, http11_parser.cpp,     *)
(* httpclient_parser.cpp) have in common: `switch (cs)' over states, each  *)
(* of which tests the character and goes to the next state, through the    *)
(* actions of the transition if it has any, or to the error state.         *)
(*                                                                         *)
(* A state is the family of generated states it belongs to (at), which of  *)
(* two generated copies of the family it is in (copy), and what            *)
(* distinguishes the states of the family (x).                             *)
(***************************************************************************)
EXTENDS Integers, Sequences

State(at, copy, x) == [at |-> at, copy |-> copy, x |-> x]
Move(to, do) == [to |-> to, do |-> do]
Go(at, copy, do) == Move(State(at, copy, <<>>), do)
Error == Go("error", FALSE, <<>>)

\* A row of a table of transitions, and the step of a state by such a table.
Edge(from, on, to, do) == [from |-> from, on |-> on, to |-> to, do |-> do]
Follow(edges, s, c) ==
    LET row == {e \in edges : e.from = s.at /\ c \in e.on}
    IN  IF row = {} THEN Error
        ELSE LET e == CHOOSE e \in row : TRUE IN Go(e.to, s.copy, e.do)

\* "%" xdigit xdigit inside a component: back is the state to return to.
Pct(back, do) == Move(State("pct", back.copy, <<2, back>>), do)
PctDigit(s) == Move(IF s.x[1] = 2 THEN [s EXCEPT !.x[1] = 1] ELSE s.x[2], <<>>)

\* A fixed text: x counts the characters that have matched.
Expect(s, text, c) == s.x < Len(text) /\ c = text[s.x + 1]
=============================================================================
