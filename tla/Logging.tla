------------------------------ MODULE Logging ------------------------------
(***************************************************************************)
(* Logger, LoggerManager and the listener of the configuration "logs"      *)
(* (wyze/log.cpp, log.h): threads log while another one loads a new set of *)
(* logger definitions.  Each operation of a logger holds its lock, but     *)
(* Logger::log looks for appenders before it takes it, and the listener is *)
(* a sequence of such operations.  Levels and the text of a line are left  *)
(* out.                                                                    *)
(***************************************************************************)
EXTENDS Integers, Sequences, FiniteSets

CONSTANTS
    LoggerNames,    \* without the root logger
    LogThreads,
    Definitions,    \* what a file says of a logger: [fmt, sinks], sinks a sequence of [sink, fmt]
    Malformed,      \* the formatters with an error, LogFormatter::isError
    MaxEvents,      \* bound: events logged
    MaxLoads        \* bound: configurations loaded

\* What LogDefine, the type of an entry of "logs", can hold.
ASSUME LogDefinitions ==
    /\ Definitions \subseteq [fmt : STRING, sinks : Seq([sink : STRING, fmt : STRING])]
    /\ Malformed \subseteq STRING /\ "default" \notin Malformed

Root == "root"
Inherit == "inherit"        \* no formatter is given
Given(fmt) == fmt # Inherit /\ fmt \notin Malformed
Undefined == [fmt |-> Inherit, sinks |-> <<[sink |-> "undefined", fmt |-> Inherit]>>]
AllLoggers == LoggerNames \cup {Root}

VARIABLES
    conf,           \* logger -> its definition in "logs", or Undefined
    m_appenders,    \* logger -> the sequence of [sink, fmt, has]
    m_format,       \* logger -> its formatter
    load,           \* the listener: [new, todo, gone, at, left]
    loads,
    emitter,        \* thread -> [at, logger, met]
    events,
    lost,           \* events no appender has written: [met, root]
    meddled,        \* loggers whose formatter the program set while a load was under way
    crashed         \* the listener used its null pointer

logVars == <<conf, m_appenders, m_format, load, loads, emitter, events, lost, meddled, crashed>>

NoLoad == [new |-> <<>>, todo |-> {}, at |-> Root, left |-> <<>>, on |-> FALSE]
Stdout == [sink |-> "stdout", fmt |-> "default", has |-> TRUE]

\* LoggerManager: the root logger has an appender, the others have none.
LogInit ==
    /\ conf = [l \in AllLoggers |-> Undefined]
    /\ m_appenders = [l \in AllLoggers |-> IF l = Root THEN <<Stdout>> ELSE <<>>]
    /\ m_format = [l \in AllLoggers |-> "default"]
    /\ load = NoLoad /\ loads = 0
    /\ emitter = [t \in LogThreads |-> [at |-> "out", logger |-> Root, met |-> FALSE]]
    /\ events = 0 /\ lost = {} /\ meddled = {} /\ crashed = FALSE

-----------------------------------------------------------------------------
(* The listener.                                                           *)

\* ConfigVar::setVal compares the values before it calls the listeners.
Differs(new) == new # conf

\* A new value of "logs": another one than the old.
\* todo: the loggers of the new value, then those only the old one has.
BeginLoad(new) ==
    /\ ~load.on /\ loads < MaxLoads /\ ~crashed
    /\ Differs(new)
    /\ loads' = loads + 1
    /\ load' = [new |-> new, at |-> Root, left |-> <<>>, on |-> TRUE,
                todo |-> {l \in AllLoggers : new[l] # Undefined \/ conf[l] # Undefined}]
    /\ emitter' = [t \in LogThreads |-> [emitter[t] EXCEPT !.met = TRUE]]
    /\ UNCHANGED <<conf, m_appenders, m_format, events, lost, meddled, crashed>>

\* Mutant: the old appenders stay.
KeptAppenders(l) == m_appenders
\* clearAppenders
ClearedAppenders(l) == [m_appenders EXCEPT ![l] = <<>>]

\* A logger of the new value: its formatter is set, unless it is invalid, and
\* its appenders are cleared.  One that is in the old value too and has not
\* changed leaves the pointer null.
DefineLogger(l) ==
    /\ load.on /\ ~crashed /\ load.left = <<>> /\ l \in load.todo /\ load.new[l] # Undefined
    /\ IF load.new[l] = conf[l]
       THEN crashed' = TRUE /\ UNCHANGED <<m_appenders, m_format, load, meddled>>
       ELSE /\ m_format' = IF Given(load.new[l].fmt)
                           THEN [m_format EXCEPT ![l] = load.new[l].fmt] ELSE m_format
            /\ m_appenders' = ClearedAppenders(l)
            /\ load' = [load EXCEPT !.todo = @ \ {l}, !.at = l, !.left = load.new[l].sinks]
            /\ meddled' = meddled \ {l}
            /\ UNCHANGED crashed
    /\ UNCHANGED <<conf, loads, emitter, events, lost>>

\* addAppender: without a valid formatter of its own the appender gets the
\* logger's, by setFormatter, which marks it as its own.
Added(l, s) ==
    [sink |-> s.sink, fmt |-> IF Given(s.fmt) THEN s.fmt ELSE m_format[l], has |-> TRUE]

addAppender ==
    /\ load.on /\ load.left # <<>>
    /\ m_appenders' = [m_appenders EXCEPT ![load.at] = Append(@, Added(load.at, Head(load.left)))]
    /\ load' = [load EXCEPT !.left = Tail(@)]
    /\ UNCHANGED <<conf, m_format, loads, emitter, events, lost, meddled, crashed>>

\* A logger only the old value has.
RemoveLogger(l) ==
    /\ load.on /\ ~crashed /\ load.left = <<>> /\ l \in load.todo /\ load.new[l] = Undefined
    /\ \A k \in load.todo : load.new[k] = Undefined
    /\ m_appenders' = [m_appenders EXCEPT ![l] = <<>>]
    /\ load' = [load EXCEPT !.todo = @ \ {l}]
    /\ UNCHANGED <<conf, m_format, loads, emitter, events, lost, meddled, crashed>>

\* The listener returns and setVal assigns.
EndLoad ==
    /\ load.on /\ load.todo = {} /\ load.left = <<>>
    /\ conf' = load.new
    /\ load' = NoLoad
    /\ UNCHANGED <<m_appenders, m_format, loads, emitter, events, lost, meddled, crashed>>

\* Logger::setFormatter, called by the program: an invalid one is refused, and
\* the appenders that do not have one of their own follow.
setFormatter(l, fmt) ==
    /\ ~crashed /\ Given(fmt) /\ m_format[l] # fmt
    /\ m_format' = [m_format EXCEPT ![l] = fmt]
    /\ m_appenders' = [m_appenders EXCEPT ![l] =
           [i \in DOMAIN @ |-> IF @[i].has THEN @[i] ELSE [@[i] EXCEPT !.fmt = fmt]]]
    /\ meddled' = IF load.on THEN meddled \cup {l} ELSE meddled
    /\ UNCHANGED <<conf, load, loads, emitter, events, lost, crashed>>

-----------------------------------------------------------------------------
(* Logger::log.                                                            *)

BeginLog(t, l) ==
    /\ emitter[t].at = "out" /\ events < MaxEvents /\ ~crashed
    /\ events' = events + 1
    /\ emitter' = [emitter EXCEPT ![t] = [at |-> "look", logger |-> l, met |-> load.on]]
    /\ UNCHANGED <<conf, m_appenders, m_format, load, loads, lost, meddled, crashed>>

\* Without appenders the root logger is asked; it has no other.
WithoutAppenders(l) == IF l = Root THEN "lost" ELSE "root"

\* m_appenders.empty(), without the lock.
Look(t) ==
    /\ emitter[t].at = "look" /\ ~crashed
    /\ LET l == emitter[t].logger
           next == IF m_appenders[l] # <<>> THEN "write" ELSE WithoutAppenders(l)
       IN  /\ emitter' = [emitter EXCEPT ![t].at = CASE next = "write" -> "write"
                                                     [] next = "root" -> "look"
                                                     [] next = "lost" -> "out",
                                         ![t].logger = IF next = "root" THEN Root ELSE l]
           /\ lost' = IF next = "lost" THEN lost \cup {[met |-> emitter[t].met, logger |-> l]} ELSE lost
    /\ UNCHANGED <<conf, m_appenders, m_format, load, loads, events, meddled, crashed>>

\* With the lock: every appender that is there now.
WriteEvent(t) ==
    /\ emitter[t].at = "write" /\ ~crashed
    /\ LET l == emitter[t].logger
       IN  lost' = IF m_appenders[l] = <<>> THEN lost \cup {[met |-> emitter[t].met, logger |-> l]}
                   ELSE lost
    /\ emitter' = [emitter EXCEPT ![t].at = "out"]
    /\ UNCHANGED <<conf, m_appenders, m_format, load, loads, events, meddled, crashed>>

LogNext ==
    \/ \E new \in [AllLoggers -> Definitions \cup {Undefined}] : BeginLoad(new)
    \/ \E l \in AllLoggers : DefineLogger(l) \/ RemoveLogger(l) \/ setFormatter(l, "plain")
    \/ addAppender \/ EndLoad
    \/ \E t \in LogThreads : Look(t) \/ WriteEvent(t) \/ \E l \in AllLoggers : BeginLog(t, l)

-----------------------------------------------------------------------------
\* When a configuration has been loaded, a logger it defines has exactly the
\* appenders of its definition, in order, whatever was there before: each with
\* the formatter given for it, or else the one given for the logger, unless
\* the program set the logger's formatter in the middle of the load.  One that
\* is invalid counts as not given (log.cpp:193-202, 870-877).
LoggersFollowConf ==
    ~load.on => \A l \in AllLoggers : conf[l] # Undefined =>
        /\ Len(m_appenders[l]) = Len(conf[l].sinks)
        /\ \A i \in DOMAIN m_appenders[l] :
               LET a == m_appenders[l][i]
                   s == conf[l].sinks[i]
               IN  /\ a.sink = s.sink
                   /\ Given(s.fmt) => a.fmt = s.fmt
                   /\ ~Given(s.fmt) /\ Given(conf[l].fmt) /\ l \notin meddled => a.fmt = conf[l].fmt

\* Whatever is loaded, nothing ever writes with an invalid formatter: each is
\* refused, of the logger and of the appender, and the logger's own stands in.
NoInvalidFormatter ==
    \A l \in AllLoggers : /\ m_format[l] \notin Malformed
                          /\ \A i \in DOMAIN m_appenders[l] : m_appenders[l][i].fmt \notin Malformed

\* An event is written by an appender of its logger or of the root logger,
\* unless the configuration changed meanwhile or the root logger has none.
LostOnlyInLoad ==
    \A e \in lost : e.met \/ (e.logger = Root /\ loads > 0)

\* The listener uses its null pointer (log.cpp:855) only when the new value
\* keeps one definition as it was and changes another: a file with a single
\* logger is always loaded, and so is a value set twice.
CrashOnlyPartialChange ==
    crashed => \E l, k \in AllLoggers : /\ load.new[l] = conf[l] /\ conf[l] # Undefined
                                        /\ load.new[k] # conf[k]

\* Loading a configuration while threads log: what is there when it is done,
\* which events may get lost meanwhile, and when the listener crashes.
LoggingInv ==
    LoggersFollowConf /\ NoInvalidFormatter /\ LostOnlyInLoad /\ CrashOnlyPartialChange
=============================================================================
