------------------------------ MODULE MCHookIO ------------------------------
(* HookIO on small instances: fibers that share an fd number, each call    *)
(* with a timeout, without one, or with the default.                       *)
EXTENDS HookIO, TLC

CONSTANTS f1, f2, s1

OneSlot == [f \in Fibers |-> s1]

\* Each of do_io and connect is called with and without a timer, on a shared fd.
Calls ==
    [f \in Fibers |->
        IF f = f1 THEN {<<"io", "default">>, <<"connect", "default">>, <<"sleep", "set">>}
        ELSE {<<"io", "zero">>, <<"connect", "set">>}]
=============================================================================
