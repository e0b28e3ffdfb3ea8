----------------------------- MODULE Structures -----------------------------
(***************************************************************************)
(* The data structures of the library beside each other: the byte buffer,  *)
(* the parsers, the pool of connections, the list of servlets, the tables  *)
(* of event contexts and of the hooks' contexts, the directory of          *)
(* configuration files and the loggers.  They share no state, so a         *)
(* behaviour of the program is seen by its parts one at a time: part says  *)
(* which one runs, the others stay as they began.                          *)
(***************************************************************************)
EXTENDS ByteArray, Parsers, HttpPool, Servlets, FdContexts, FdManager, ConfigDir, Logging

VARIABLE part

Parts == {"array", "parsers", "pool", "servlets", "contexts", "fds", "confdir", "log"}

Init ==
    /\ part \in Parts
    /\ ArrayInit /\ ParseInit /\ PoolInit /\ ServletInit /\ TableInit /\ FdInit /\ DirInit /\ LogInit
    \* A part that does not run begins in one of its initial states only.
    /\ part # "parsers" => input = CHOOSE i \in Inputs : i.grammar = "response"
    /\ part # "pool" => \A s \in Starts : start <= s

Next ==
    \/ /\ part = "array" /\ ArrayNext
       /\ UNCHANGED <<part, parseVars, poolVars, servletVars, tableVars, fdVars, dirVars, logVars>>
    \/ /\ part = "parsers" /\ ParseNext
       /\ UNCHANGED <<part, arrayVars, poolVars, servletVars, tableVars, fdVars, dirVars, logVars>>
    \/ /\ part = "pool" /\ PoolNext
       /\ UNCHANGED <<part, arrayVars, parseVars, servletVars, tableVars, fdVars, dirVars, logVars>>
    \/ /\ part = "servlets" /\ ServletNext
       /\ UNCHANGED <<part, arrayVars, parseVars, poolVars, tableVars, fdVars, dirVars, logVars>>
    \/ /\ part = "contexts" /\ TableNext
       /\ UNCHANGED <<part, arrayVars, parseVars, poolVars, servletVars, fdVars, dirVars, logVars>>
    \/ /\ part = "fds" /\ FdNext
       /\ UNCHANGED <<part, arrayVars, parseVars, poolVars, servletVars, tableVars, dirVars, logVars>>
    \/ /\ part = "confdir" /\ DirNext
       /\ UNCHANGED <<part, arrayVars, parseVars, poolVars, servletVars, tableVars, fdVars, logVars>>
    \/ /\ part = "log" /\ LogNext
       /\ UNCHANGED <<part, arrayVars, parseVars, poolVars, servletVars, tableVars, fdVars, dirVars>>

vars == <<part, arrayVars, parseVars, poolVars, servletVars, tableVars, fdVars, dirVars, logVars>>

Spec == Init /\ [][Next]_vars
=============================================================================
