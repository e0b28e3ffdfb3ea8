# wyze: TLA+ models, model checking and proofs

wyze is a C++ framework for network servers: an N:M coroutine scheduler with an
epoll event loop and timers, hooks that turn blocking system calls into
suspensions of the calling coroutine, and on top of it sockets, a TCP and HTTP
server, an HTTP client, configuration, logging and a MySQL connection pool.

This directory models the core on which everything else stands (the scheduler,
the timers, the IO manager and the system call hooks) and, above it, the byte
buffer, the parsers, the HTTP server and client, the connection pools, the TCP
server, the configuration, the loggers and the daemon. Section 8 says what is
left out and what comes next. All paths below are
relative to the repository (`src/` here); line numbers refer to the commit next
to it.

## 1. The system

### 1.1 Components

| Component | Files (wyze/) | State | Operations | Hard because |
|---|---|---|---|---|
| Fibers | fiber.* | m_state, m_context, stack | swapIn, swapOut, call, back, YeildToReady, YeildToHold, MainFunc | state and context change in two steps, visible to other threads |
| Scheduler | scheduler.* | m_fibers, m_activeThreadCount, m_idleThreadCount, m_stopping, m_autoStop | start, stop, schedule, run, idle, stopping, tickle | every worker scans one queue; shared counters are read outside the lock |
| Timers | timer.* | m_timers, m_tickled, m_previousTime; m_ms, m_next, m_cb, m_recurring per timer | addTimer, addConditionTimer, cancel, refresh, reset, getNextTimer, listExpiredCb | clock read before the lock, wall clock set back, 64-bit sums |
| IO manager | iomanager.* | m_fdContexts, events and EventContexts per fd, m_pendingEvent, epoll, the tickle pipe | addEvent, delEvent, canceEvent, canceAll, idle, tickle, stopping | events are fetched by one thread and changed by another; fds are reused |
| System call hooks | hook.*, fdmanager.* | FdCtx per fd (timeouts, non-blocking flags) | do_io, connect, accept, close, sleep, socket, fcntl, ioctl, setsockopt | timeout, event and late callback race for one fiber |
| Sockets, streams | socket.*, stream.*, sockstream.* | fd, connected flag, addresses | bind, listen, accept, connect, send, recv, close | thin over the hooks |
| Byte buffer | bytearray.*, endian.h | list of blocks, position, size, capacity | read/write of fixed and variable length values | block boundaries, null current block |
| TCP / HTTP server | tcpserver.*, http/http_server.*, http_session.*, ws_session.*, servlet.*, application.* | listening sockets, servlets | bind, start, stop, accept loop, dispatch | accept loops against stop() |
| HTTP client and pool | http/http_connection.* | idle connections, counters | getConnection, ReleasePtr, doRequest | pool used by many fibers |
| HTTP parsers, URI | http_parser.*, http11_parser.cpp, httpclient_parser.cpp, uri.cpp | state of the automaton, marks | execute, Uri::Create | input cut at any byte, marks that outlive their use |
| HTTP messages | http/http.* | headers, parameters, cookies | set, get, dump | text only |
| Daemon | daemon.* | table of threads in shared memory | fork, detect, report | a child killed and restarted over the table of the last |
| MySQL pool | db/* | queue of connections, producer and recycler threads | getConnection, addConnection | two service threads and a condition variable |
| Configuration | config.* | variables and listeners | setVal, addListener, LoadFromYaml | listeners called while others write |
| Logging, utilities | log.*, util.*, env.*, crypto.*, address.*, thread.*, singleton.h, macro.h | appenders, files | formatting, hashing, parsing | not part of the concurrent core |

### 1.2 How the parts interact

A worker thread runs `Scheduler::run`: it takes the first entry of `m_fibers` it
may run and switches into the fiber (`swapIn`). The fiber makes hooked calls; one
that would block arms a timer, registers an fd event (`addEvent`), and yields to
HOLD. A worker without work enters `IOManager::idle`: it asks the timers how long
it may block, blocks in `epoll_wait`, collects expired timers, and turns the
reported events into entries of the queue. `tickle()` is to bring a blocked
worker back. `stop()` sets two flags, tickles, and joins all workers, each of
which leaves when `stopping()` holds: no queue, no active worker, no pending
event, no timer.

Shared state without a common lock is where things go wrong: the fiber's
`m_state` (written without the queue's mutex), the counters, the FdContext (its
own mutex) against the queue, the kernel's registration against the FdContext,
the TimerCond of a call against the fd number the callback captured.

Above the hooks every connection has a fiber of its own. `TcpServer::startAccept`
hands a socket to `HttpServer::handleClient`, which reads requests through
`HttpSession` into the parser, asks the dispatcher for a servlet and writes the
response. The client side is the mirror: `HttpConnectionPool` lends an
`HttpConnection`, whose `recvResponse` feeds the response parser. These parts
share no state with each other but the socket and meet only through calls; inside
each of them the order of reads, of threads and of calls is what is hard.

## 2. Modules

| Module | Models | Abstraction |
|---|---|---|
| `TimerManager` | timer.h, timer.cpp | callbacks are the timers themselves; the address order of the set is a number; `onTimerInsertdAtFront` calls `tickle()`, which writes to the pipe only when no thread is in `idle()` |
| `Scheduler` | scheduler.*, fiber.* | what a task does is left open: it spawns, yields, waits, ends or throws |
| `IOManager` | iomanager.* (events), hook.cpp close | the kernel is external and may report any part of what is registered |
| `FdContexts` | iomanager.cpp, the table of FdContext objects | one event per fd |
| `IdleLoop` | iomanager.cpp idle, tickle, stopping, with scheduler and timers | composes the three: a set of queued tasks, the first timer, the waiting tasks |
| `HookIO` | hook.cpp do_io, connect_with_tiemout, sleep | an fd and event are one slot; data, the connection and errors are "ok"/"error" |
| `ByteArray`, `ByteCodec` | bytearray.*, SockStream::read/write | widths scaled: bytes of GroupBits + 1 bits; operations are sequences of write()/read() calls, taken turn by turn |
| `FlatBuffer` | what a ByteArray promises: bytes and a cursor | refined by ByteArray |
| `Automaton` | how a ragel automaton runs: edges by character class, actions on the way | characters are classes |
| `UriAutomaton`, `Uri` | uri.cpp: the automaton, Uri::Create, toString, the defaults | |
| `RequestAutomaton`, `RequestParser` | http11_parser.cpp; HttpRequestParser | a request is a text of classes; callbacks keep the pieces |
| `ResponseAutomaton`, `ResponseParser` | httpclient_parser.cpp; HttpResponseParser | the same, with chunk headers |
| `Parsers` | texts that grow word by word, given to a parser at any length | composes the three grammars; holds their reference definitions |
| `HttpSession` | http_session.*, http_server.* handleClient, Stream's loops | a request is header units and body units |
| `HttpConnection` | http_connection.* recvResponse | a response is units: header, size line, data, line end, given by the ends of its chunks |
| `HttpPool` | http_connection.* the pool | an answer is the pair of caller and call |
| `Servlets` | servlet.* | paths and patterns are model values with a matching relation |
| `MysqlPool` | db/mysqlconn_pool.* | the server accepts or refuses; time is left to the scheduler |
| `FdManager` | fdmanager.*, hook.cpp socket, accept, close | a context is the file it was made for |
| `TcpServer` | tcpserver.*, application.* main_fiber | an address is a socket |
| `ConfigVar` | config.h setVal and listeners | a listener keeps a copy |
| `ConfigDir` | config.cpp LoadFromConfDir | a file is its version; the clock counts seconds |
| `Logging` | log.* loggers and the configuration's listener | appenders are a sink and a formatter |
| `Daemon` | daemon.* | a thread's last report is an age up to "late" |
| `Structures` | byte buffer, parsers, HTTP pool, servlets, the two fd tables, configuration files, loggers beside each other | one part runs, the others rest |
| `Services` | session, connection, MySQL pool, TCP server, configuration variable, daemon beside each other | the same, with fairness |
| `MC…` | instances of the above for TLC | |
| `TimerManagerProofs`, `SchedulerProofs`, `IOManagerProofs`, `IdleLoopProofs`, `HookIOProofs` | theorems about the core | |
| `StructuresProofs`, `PoolProofs`, `ServicesProofs` | theorems about the parts above it | |

Variables carry the names of the members they model. An action is a critical
section of the mutex the code takes, or what a thread does between two of them;
the comment above each says which function or part of one it is.

**TimerManager.** `NewTimer` is the Timer constructor (it reads the clock before
the lock), `AddTimer` the insertion under the lock. `OnTimerInsertdAtFront` is the
call after the unlock: IOManager's override calls `tickle()`, which asks
`hasIdleThreads()` and, only if there are none, writes to the pipe (`Tickle`, a
step of its own). `Cancel` and `Refresh` are single critical sections. `ResetCall`
is the unlocked test at the head of `reset`, `Reset`/`ResetTooLate` the rest.
A poller enters `idle()` (`EnterIdle`), runs `GetNextTimer`, blocks, returns
(`TimeoutWake`, `TickleWake`, `EventWake`), reads the clock, looks at the set under
the read lock (`CheckTimers`), collects under the write lock (`ListExpiredCb`), and goes
back to `run()` (`YieldToRun`), where it is not idle. Sums are taken modulo `Wrap`,
which stands for 2^64. Two variables are history: `readAt`, when a poller read the
clock that it collects with, and `unseen`, the timers placed since a blocked poller
looked at the set.

**Scheduler.** `TakeTask` … `Reschedule` follow the body of `run()`:
take under the lock, test for TERM/EXCEPT, `swapIn`, come back, decrement, put a
READY fiber back. `YeildToHold` sets the state, `SwapOut` saves the context: two
steps, as in the code. A wake-up comes at any moment after it was armed, also while
the fiber is still on its worker. `IOManager::stopping` reads the timers and pending
events and then the queue and the count: `Idle`/`IdleStops` are these two reads in the
idle fiber, `StopRoot`/`StopCallRoot` the same two in stop(). Two variables are
history: `early`, the fibers that were woken while a worker still had them, and
`misread`, the threads that took stopping() for true while something was out of its
sight.

**IOManager.** `AddEvent`, `DelEvent`, `CanceEvent`, `CanceAllCall` are one step
each (FdContext mutex). `AddAsserts` is addEvent of an event that is registered
already: the assertion ends the program (`aborted`), as the one of triggerEvent does.
The close hook is two steps, canceAll and close_f.
`EpollWait` fetches events, `HandleEvent` handles one of them. `EpollCtlOk` is
when epoll_ctl succeeds; each failing path leaves the state as it is.

**IdleLoop.** `GetNextTimer`, `ReadPending`, `ReadScheduler` are the three
separate reads of `stopping(timeout)`. `Wait` is the timeout, cast to int and then
capped, in that order as in the code; a negative one blocks until there is an
event (`Deaf`). `far` is history: a timer was set whose distance is negative as an
int. `Tickle` writes only when no thread is idle, as the code does.

**HookIO.** One program counter per fiber through do_io / connect / sleep; several
fibers may be in calls on one fd at the same time. A TimerCond per wait; the timer
callback is collected, run, and calls canceEvent in three steps, each of which may
come late. A call's timeout is zero, set or the default (uint64_t)-1, which do_io arms
and connect does not. `AddAsserts` is addEvent's assertion on an occupied event,
`Close` the close of the fd under a call, `robbed` history: the fibers whose
registration the delEvent of another, timed-out call took away.

**ByteArray.** The block list is a sequence and `m_cur` an index into it, 0 for
the null pointer. A typed write is a sequence of `write()` calls (`WriteField`,
`WriteCall`), each of which goes through the blocks: `WriteFillTurn` and
`WriteLastTurn` are the two branches of the loop. Typed reads are built in the
same way; `ReadThrows` is out_of_range, which leaves consumed what was consumed.
`SendFrom` and `RecvInto` are SockStream's calls with getReadBuffers and
getWriteBuffers. A dereferenced null `m_cur` sets `fault` and ends the run of the
program. `recs` is a history variable: the fields whose bytes nobody touched.

**Structures and Services.** The parts in them share no state, so what one of them
can do does not depend on the others: a behaviour of all of them together is,
for the variables of a part, a behaviour of that part. The sums therefore choose one
part (`part`) and let it run while the others stay in their initial state, which
covers every behaviour of every part at the cost of the sum of their states
instead of the product. `HttpPool` takes recvResponse as one step that succeeds or
fails; `HttpConnection` shows what is inside that step.

**Parsers.** `Automaton` runs a table of edges: a state and a class of characters
give the next state and the actions on the way. The automata name the states of
the generated switch by what they have read and fold states that differ in the
character only (the letters of a keyword, the four octets of an address). `Receive`
adds a word to the text and runs the parser on the text so far, as the code does
when a read has brought part of a message. The reference side splits the same text
at its delimiters and compares.

**HttpSession.** `BeginRequest`, `Read` and `ReadBody` follow recvRequest: take what was put aside, read,
parse, put aside the rest, read the body with readFixSize. `Dispatch` and `SendResponse` are
the servlet and sendResponse. `ioError` marks a fixed-size loop in which read or write
returned -1, after which the loop's own arithmetic is off.

**HttpConnection.** The four reads of recvResponse (header, chunk headers, the rest
of a chunk, the rest of a body) are actions of their own, each returning any part of
what is on the wire, the end of the stream or a timeout. `Response` says what stands at each
position of a response.

**HttpPool.** `GetConnection` is the critical section, with the connections it
discards; what comes after it (deleting them, connecting, counting) and every step
of doRequest and ReleasePtr is separate. `PoolSendFails` are the error returns of
sendRequest. `PoolAnswer` lets the server answer at any time, also after the caller
gave up.

**MysqlPool.** The queue's mutex is held between two waits, so an action goes from
wait to wait. The destructor is `BeginExit` (flag and notify) and `Destroy` (both
joins). A pool whose configuration could not be read has no threads: clients wait, and
the destructor joins a null pointer (`JoinNobody`).

**FdManager.** The hooks of socket and accept are two steps (the kernel hands out a
number, `get(fd, true)`), close is two (`del`, then the descriptor). Threads in
`Unhooked` call the plain functions.

**TcpServer.** `Bind` is one attempt of main_fiber; an accept fiber tests m_isStop,
accepts, or waits; each stop() sets the flag and schedules a task of its own, which
walks m_socks, cancelling and closing, and clears it. Two such tasks may run at once on
the worker's threads; one that clears the list under the other's walk leaves it `torn`,
and what the walk does then is open.

**ConfigVar, ConfigDir.** setVal notifies listener by listener under the shared
lock and then assigns. A pass over the directory stores each file's time and then reads
it; files change at any point.

**Logging.** A load runs definition by definition and appender by appender while
threads log and call setFormatter. A pattern that does not parse (`Malformed`) is
refused without a word: the logger keeps the formatter it has, and an appender gets
its logger's (`Given`).

**Daemon.** Parent and child run side by side; ages grow with `DaemonTick`. The
parent reads the interval to see whether it is over (`Look`) and again to compare the
entries with it (`Detect`).
`SetInterval` is set_detect_interval, which stores twice its argument in the shared
memory, where the next child finds it.

## 3. Runs

| Run | Module | Checks | Shows | States |
|---|---|---|---|---|
| `timer_wakeup` | MCTimerManager | DueTimerIsCollected | every due timer is collected, although tickle() wakes no thread for it | 402 k |
| `timer_asleep` | MCTimerManager | NoSleepPastDeadline (violated) | a timer inserted in front while a thread is blocked: tickle() writes nothing and the thread sleeps past the deadline | – |
| `timer_rollover` | MCTimerManager | CancelFindsTimer, BoundedLateness, NoEarlyFire, OneShotFiresOnce | with a clock that is set back and a sum that overflows, cancel finds its timer, a blocked thread is late by MAX_TIMEOUT at most, one-shots fire once and not early (overflow, roll-over and a poller held up for twelve hours excepted) | 1.4 M |
| `sched_stop` | MCScheduler | ActiveCount, OneThreadUnlessEarly, SwapInAssertion, StopDrains, EveryTaskFinishes | with tasks that yield to READY and to HOLD and wake-ups at any moment: the count is exact, a fiber is on two threads only after a wake-up that came before run() let go of it, every task ends, and stop() returns with nothing left unless every thread misread stopping() | 191 k |
| `sched_early_wake` | MCScheduler | FiberOnOneThread (violated) | a wake-up between `m_state = HOLD` and swapcontext puts a fiber on two threads | – |
| `io_pair` | MCIOManager | PendingCount, ContextMatches, WaiterInOnePlace, EpollMatches | the bookkeeping survives every order of add, delete, cancel, trigger, close and reuse | 90 k |
| `io_stale_event` | MCIOManager | TriggersRegistered (violated) | a READ\|WRITE report handled after one event was taken away aborts | – |
| `idle_progress` | MCIdleLoop | IdleInv, IdleProgress | progress rests on MAX_TIMEOUT alone: although tickle() is silent while threads idle, tasks are taken and stop() returns, unless a timer beyond 2^31 ms made the threads deaf | 346 k |
| `hook_calls` | MCHookIO | CallInv, RegistrationInv, CallReturns | two fibers on one fd: whichever of event, timer and late callback comes first, a call is woken once and leaves nothing behind; connect and sleep return, unless robbed of their registration | 457 k |
| `hook_stale_cancel` | MCHookIO | ConnectMeansConnected (violated) | a late callback cancels a later connect on the same fd | – |
| `structures` | MCStructures | see below | the data structures under every order of their operations | 1.4 M |
| `services` | MCServices | see below | the parts that wait come to their end, and what they hand on is what was sent | 115 k |

Where a part has several properties that belong together, a conjunction of them is
what the run checks (`IdleInv`, `CallInv`, …); the parts keep their names and comments
in the modules, and the tables below give them in brackets. IdleInv is TypeOK, IdleCount
and WaitIsBounded; IdleProgress is QueuedTaskIsTaken and StopReturns; CallInv is
TypeOK, WokenOnce and TimeoutOnlyIfArmed; RegistrationInv is NoDanglingRegistration
and SuspendedIsReachable; StopDrains is StopReturns and StopReturnsDrained.

`structures` asks, part by part:

| Part | Properties | Shows |
|---|---|---|
| byte buffer | ArrayInv (ArrayTypeOK, CurMatchesPosition, FaultOnlyAtEnd), ImplementsFlat, ReadBack | the block list is sound and implements a flat buffer, and fields come back as written |
| URI | UriIsRead (UriComponents, UriThrowsAtEmptyPort, UriRoundTrip, LiteralIsAddress) | a URI's parts are the texts between its delimiters; Create reads back what toString wrote; an address literal that is accepted is one |
| request, response | MessageIsRead (RequestEndIsFound, RequestMatchesText, ParserAssertsHold; ResponseEndIsFound, ResponseFieldsInText, ResponseFlagsMatchHeaders, ChunkSizeIsRead) | the end of a header is found where it is, what is reported is in the text, and the flags that choose how the body is read agree with the headers |
| client's pool | PoolInv (OneHolder, TotalIsExact, IdleAtMostMax, RetiredOnlyOld), AnswerIsMine | no count is lost, no connection has two users, no late answer reaches the next caller |
| servlets | DispatchFollowsHistory | dispatch is a function of the history of additions and removals |
| event contexts | TableInv (TableTypeOK, AddEventFindsContext, RegisteredIsReachable) | the table grows without losing an object, unless a thread resizes to a stale size |
| hook contexts | FdInv (ContextOfThisFile, BeyondOnlyWhenFull) | a socket finds its own context whatever numbers are reused |
| configuration files | ChangeIsNotLost | which changes a pass can miss, and no others |
| loggers | LoggingInv (LoggersFollowConf, NoInvalidFormatter, LostOnlyInLoad, CrashOnlyPartialChange) | a load leaves what the file says, as far as its patterns parse; when events may get lost; when the listener crashes |

`services` asks:

| Part | Properties | Shows |
|---|---|---|
| HTTP session | SessionInv (SessionTypeOK, ServedIsSent, NothingLeftInTurn, ClosedAfterLast); SessionEnds in WaitsEnd | a client that waits for its answers is served what it sent, and the fiber ends |
| HTTP connection | ConnectionInv (ConnectionTypeOK, ResponseAsSent, WholeIsReturned, OverrunOnlyShort); ResponseEnds in WaitsEnd | a response is returned whole wherever reads cut it; a call ends |
| MySQL pool | DbPoolInv (ConnectionExclusive, ProducerAwakeWhenShort, ConnectionsBounded); ClientServed in WaitsEnd, DestructorReturns in ShutdownEnds | no lost wake-up, every user is served, when the destructor returns |
| TCP server | TcpInv (OneFailureIsFinal, SpinOnlyIfRestarted, TornOnlyIfStoppedAgain); StopEndsAccept in ShutdownEnds | what the retries do, that stop() ends the accept fibers, and that only a second stop() tears the list |
| configuration variable | ConfigInv (ListenersAgree, MapStableInWalk); SetReturns in WaitsEnd | listeners and variable agree unless two setVal calls met |
| daemon | DaemonInv (KilledForCause, OverrunOnlyRaced), HungIsReplaced | a hung child is replaced, and a new one is not killed for the last one's entries |

Several properties have an exception in their statement (`unless …`). Each
names a defect of the code at its line, and the property says that the defect shows
in that case only: the run contains the case, and nothing is configured away. Section 7 lists them. The type invariants of TimerManager,
Scheduler and IOManager are in no run: they are proved (section 6), as most of the
invariants of the runs are.

Each property has a mutant of the code's model (`mutants` in PROJECT.json) under
which TLC finds it violated.

## 4. Bounds

- *Timers.* One user and two pollers: a missed wake-up needs an insertion at the
  front while a poller is blocked, collecting twice needs two pollers. `timer_wakeup` and
  `timer_asleep` have two timers (one in front of the other) and a clock that
  advances; `timer_rollover` one timer and a clock that is set back. There `Wrap = 64` with
  period 63 makes the 64-bit sum overflow,
  `Setbacks = {1, 2}` lie on both sides of the roll-over threshold `HalfDay = 1`
  (twelve hours in the code), and `MaxTime = 10` leaves room for a poller that is held
  up longer than `HalfDay` between its reading of the clock and the write lock.
  Calls begin up to `LastCall`, and `MaxTime` leaves enough time behind it for what they
  armed to expire. `MaxTime` ends time: states at the end of time may have
  no successor, so deadlock is not checked.
- *Scheduler.* The caller's thread and one worker, two tasks, unpinned or pinned to the
  caller's thread, which may yield to READY or to HOLD once (`MaxYields`) and are submitted
  up to twice (`MaxSubmits`), before or during stop(). A fiber that was woken early has two
  entries or two workers; a thread may misread stopping(), and both may.
- *IOManager.* Two threads, two fds, three waiters: both events of one fd, and a
  close and reuse of it, while another thread holds fetched events.
- *FdContexts.* Two threads; the fds are those around 32, 32·1.5 and 48·1.5.
- *FdManager.* Three threads, one without hooks, three numbers, a table of two, four
  files: a number is reused while another thread is between two steps, and one lies
  behind the table.
- *Parsers.* Thirteen families of texts: a fixed beginning that leads to a part of a
  grammar (authorities, octets and groups of an address literal, ports, request
  targets, headers, status lines, chunk sizes, …), and up to five words of it in every
  order.
- *HttpSession.* Three requests of two header units, bodies of 0, 2 and 3 with a
  maximum of 2, a buffer of six: a request and a half fit, so that reads go beyond
  a request. *HttpConnection.* Two calls, headers of two units, a buffer of five,
  seven shapes (empty, short, as long as the maximum, longer; no chunk, chunks that
  fit and chunks that do not).
- *HttpPool.* Two callers with two calls each, two connections, a maximum of one: both
  release at the same time. `Width = 6` cuts the sum of the age for one of the two
  `Starts`, and RetiredOnlyOld is stated with the cut sum. *MysqlPool.* Two clients, a minimum of one, four connections: one more than
  can exist by ConnectionsBounded.
- *TcpServer.* Two addresses, three attempts, two starts and two stops: a start between a
  stop and its task, and two stop tasks at once. *Daemon.* Two threads, a table of one, a
  default interval of one and stored ones of zero and two, ages up to three
  (`Forever`, beyond every interval), two children: both threads are first at once, and a
  child finds the table and the interval of another.
- *ConfigVar.* Two setters, two listeners, three calls. *ConfigDir.* Two files, three
  seconds, three versions. *Logging.* The root and one other logger, two loads, one event,
  and a pattern that does not parse.
- *Servlets.* Two paths, three patterns (one matching both), four changes.
- *IdleLoop.* Two threads, two tasks, `MAX_TIMEOUT = 3`, `IntWrap = 16` for 2^32, timers
  at the distances 7, which the cap cuts, and 9, which is negative as an int.
- *HookIO.* Two fibers with one fd number at the same time; between them their calls
  have all three timeouts (default, zero, set). Each has at most two waits (`MaxWaits`), so that a
  callback of the first can be late for the second.
- *ByteArray.* Blocks of two bytes, capacity up to six, two writes before, between
  and after any reads and seeks: fields start on every offset and cross up to two
  boundaries. The five fields are one of each way to code a value: fixed length with its
  byte order, zigzag, a varint beyond "32 bits", and strings behind a fixed and behind
  a varint length, the first of them empty. Bytes have three bits, "32 bits" are six and "64 bits" nine. Fresh
  memory holds one value (7) that no property depends on.

Model values stand for threads, fibers, fds and waiters; symmetry is used only
in runs without liveness properties.

## 5. Fairness

Weak fairness of a thread (`RunStep`, `IdleStep`, `FiberStep`, the pollers): the
kernel schedules a runnable thread. Weak fairness of `TimerDue`, strong fairness of
`Tick` (behind `LastCall` it waits for the calls under way): time goes on. Weak fairness of `Wake` in the Scheduler: the event a task waits for
happens; only the tasks' own waits depend on it. In IdleLoop, strong fairness of
`EventWake` and `TaskEnds`: an fd that is again and again ready is eventually
reported, and a task that runs again and again ends; both are properties of the
environment. No fairness is assumed for callers, for the peer in HookIO, for
`Cancel`, `Reset` or clock changes. `CallReturns` is claimed for connect with a
timeout and for sleep, not for reads whose peer may stay silent for ever.

In Services: the fiber of a session runs, and its read returns once the client has
closed (the kernel reports the end of the stream). A read of the client ends with data,
the end or its timeout, since every connection of the pool has one. The MySQL threads
and a waiting client run; a client may keep its connection for ever, so ClientServed
rests on the producer alone. Each task of a stop() and each accept that can
return does; no client need ever connect. A setter under way goes on. In the daemon the
parent looks and detects, time passes and a forked child starts; no thread of it need report. Nothing
is assumed of clients, peers, callers or the writers of files.

## 6. Proofs

All theorems hold for every value of the constants that the named ASSUMEs allow
(finite Threads, in Scheduler at least one, as its constructor asserts; finite Fds, callers and connections; sentinels such as NoWaiter, NoConn,
NoFile outside the sets they are added to; sizes and clocks that are numbers; sums
modulo any Wrap; paths and patterns apart; as many MySQL objects as `new` may be asked
for). A condition that only one theorem needs is a hypothesis of it, named below. The
model checker showed each inductive invariant on the runs' instances before it was
proved.

| Module | Theorem | States | Under |
|---|---|---|---|
| `TimerManagerProofs` | TypeCorrect, CancelFindsTimerHolds, OneShotFiresOnceHolds | TypeOK, CancelFindsTimer, OneShotFiresOnce | |
| | BoundedLatenessHolds | BoundedLateness | |
| | NoEarlyFireHolds | NoEarlyFire | `ClockIsModern`: the clock is more than twelve hours from 1970 and fits its width |
| `SchedulerProofs` | TypeCorrect, ActiveCountHolds | TypeOK, ActiveCount | |
| | OneThreadUnlessEarlyHolds, SwapInAssertionHolds | OneThreadUnlessEarly, SwapInAssertion | |
| | StopReturnsDrainedHolds | StopReturnsDrained, the safety part of StopDrains | |
| `IOManagerProofs` | TypeCorrect, PendingCountHolds, ContextMatchesHolds, WaiterInOnePlaceHolds, EpollMatchesHolds | the properties of `io_pair` | |
| `IdleLoopProofs` | IdleCountHolds | TypeOK, IdleCount | |
| | IdleHolds | IdleInv | |
| `HookIOProofs` | RegistrationHolds, WokenOnceHolds | RegistrationInv; TypeOK, WokenOnce | |
| | CallsHold | CallInv | |
| `StructuresProofs` | ChangeIsNotLostHolds, FdHolds, TableHolds, DispatchHolds, LoggingHolds | ChangeIsNotLost, FdInv, TableInv, DispatchFollowsHistory, LoggingInv | |
| | ArrayHolds, ImplementsFlatHolds | ArrayInv; ImplementsFlat, a refinement | |
| `PoolProofs` | PoolHolds, AnswerIsMineHolds | PoolInv, AnswerIsMine | |
| `ServicesProofs` | ConfigHolds, TcpHolds, DaemonHolds, DbPoolHolds, SessionHolds, ConnectionHolds | ConfigInv, TcpInv, DaemonInv, DbPoolInv, SessionInv, ConnectionInv | |

One theorem has a condition: ClockIsModern excludes only clocks that no machine shows.
Where the code fails in some case, the case is named in the property itself, by what has
happened before (`early`, `misread`, `far`, `robbed`, `unseen`, …), and the theorem covers
the behaviours with it and those without.

The arguments:

- *IO manager.* `IInv` puts four properties together: the count cannot be kept without
  knowing that an event which is triggered was registered (ContextMatches), and
  a waiter is not scheduled twice only if no two contexts hold it. Each action
  removes or adds one set of pairs ⟨fd, event⟩, and CountAfterRemoval relates
  its size to the counter. EpollMatches is inductive over TypeOK.
- *Scheduler.* `IInv` adds HoldsTask (a worker
  between taking a task and releasing it holds one) and NotStarted (a worker that
  main has not started, or the root thread before stop() runs it, is "off"), without which
  the decrement in run() could go below zero. That a fiber is on one thread is a matter of who
  owns it. `OwnInv` says that a fiber that has not finished and was never woken early
  (`Unfinished`) has at most one entry in the
  queue or one worker, never both and never two (OneEntry, EntryOrHolder, OneHolder), and which
  states it may have in the queue, with a worker and while a wake-up is armed
  (EntryState, HolderState, ArmedState). The states are what makes it inductive:
  run() puts back whatever it finds READY, so a fiber that is READY must have no
  other entry. For stop(), `DrainInv` adds that an unfinished fiber is always in the queue,
  awaited by a wake-up or carried by a worker (NotLost), that stopping() is false until stop()
  has set the flags (FlagsOfStop), and that a thread which left without having misread
  stopping() left at a moment that was `Quiet`: stopping() true and nothing out of its
  sight (SeenStopping). The core is that Quiet stays: neither a
  task, since none runs, nor a wake-up, nor a caller, since stop() was called, can end it; so
  what one thread saw rightly holds when the last is joined, whatever the others saw.
- *Timers.* CancelFindsTimer is not inductive: a timer has its
  callback before it is in the set, and only the addTimer that made it may put it
  there. `IInv` says so (InSetHasCallback, CallbackIsPlaced, InsertIsPrivate), and
  that an operation under way has a timer and only a recurring timer survives its
  own collection (CallsHaveTimer, FiredIsRecurring). For the wake-ups, `SleepInv` says
  that a blocked poller returns MAX_TIMEOUT from now at the latest, and in time for every
  timer of the set but those placed since it looked (`unseen`); NextTimeoutCovers is why
  this holds when it begins to wait. For early firing, `FireInv` bounds how far a reading
  of the clock lies behind the time it is used at (ReadingsAreOld) and ties m_next to the
  time a timer was armed at, modulo Wrap (Armed).
- *Idle loop.* The two counters are the numbers of threads in idle's loop and in a
  task (IdleCount, ActiveCount); what a thread keeps of getNextTimer until epoll_wait
  is a distance some timer had, or none (TimeoutIsNext), and one that is negative as an int
  was seen when its timer was set (FarSeen), so that the wait is bounded or the exception
  of WaitIsBounded applies.
- *Hooks.* `WaitInv`: only a call that waits is registered (RegisteredUses); connect
  registers before it makes its timer and do_io after
  (ConnectIsReachable, AddIsIo); a waiting fiber has a TimerCond of its own (CondIsMine), which
  alone may be cancelled (CancelledLives, DelIsTimedOut); a sleeping fiber is with
  exactly one of timer, collected callback and queue (SleepsOnce); a timer belongs to a
  call that makes one (TimersArmed). None of it needs the fd to have one user at a time.
- *Structures.* Configuration files: a stored time is not after the directory's, which is
  not after now, so a new one was never stored before (TimesInOrder). Hook contexts: an open file has one
  number, one thread at a time opens or closes it, it has no context before `get` and none
  after `del`, and the lowest free number is what the kernel gives (FilesNumbered, OneBusy, NoContextYet, PeakCovers). Event contexts: exactly the
  slots below the size are filled, and the object that a call holds without the table's lock is
  the slot's unless a stale resize happened (SlotsFilled, ArgKnown, HeldIsSlot). Servlets: the map and the list hold exactly the
  additions that no later removal or addition undid (PathsLive, GlobsLive). Loggers: how far
  a load has come determines what each logger has (LoadProgress, CrashStays, EmitterKnows).
- *Client's pool.* The counter m_total changes outside the mutex, so `PoolIInv` counts
  by stages: TotalIsExact relates it to the connections that exist and the callers
  that have yet to count or to uncount one; HeldOnce,
  ListedOnce and AliveIsKnown say that a connection that exists is with one caller or once in the list; Streams, that
  nothing is on its way on a connection that may be used again; RoomKept, that a caller
  about to push has its place.
- *Services.* Configuration variable: setVal calls the listeners in order, and unless two calls
  met, what the listeners have during and between calls (CalledInOrder, OneAtATime,
  CopiesDuring, CopiesBetween). TCP server: with a failure nothing is ever bound, and while the server runs
  every accept fiber's socket is open (FailureStays, RunsOnOpen). Daemon: a running child has cleared the
  table of the last one, and a thread that passed the test of the size finds room unless two met (OwnEntries,
  NobodyReported, RoomForInsert). MySQL: queue and holders together are bounded, since the
  producer adds only to a short queue and a client holds one (HoldersHold, SumBounded).
- *HTTP session.* The contents of the stream are stated position by position, so that no
  induction over the requests is needed: a request that begins in what has arrived is there
  as a whole, and behind it the next one begins or there is none (WholeRequests). `SessionIInv`
  says how far the current request has come and with which of its units the stream goes
  on (Following), as long as nothing was put aside and nothing failed; that what the client
  keeps to its turn leaves at most one request on the stream, so a read cannot go
  beyond it, and that after a failure in its body the session waits for a byte that never
  comes (InTurn, Starved); and that the request which is being answered is the last one
  served, so that its Connection header decides (LastIsAnswered). SessionSizes is what the
  code gives: sizes are unsigned, and the buffer holds more than a header.

- *HTTP connection.* Response and chunks are given position by position as well (BytesBefore,
  ChunkAt, ChunkEnd), from the ends of the chunks instead of their lengths, so no sum
  over them is needed. ChunkLayout and ChunkOrder show that the chunks follow each other
  without a gap, UnitOfChunk what stands where. `ConnectionIInv` then says, for each place in
  recvResponse, behind how many units of the response the buffer and the wire begin
  (IdlePlace, HeadPlace, BodyPlace, ChunkPlace, RestPlace). A call that succeeds has read its
  response to the end, so at most one is on the wire and nothing is ever put
  aside; after a failed read of a body the loop waits for more than the wire holds,
  so that what it returned then is never returned at all.
- *Byte buffer.* `ArrayIInv` has CurMatchesPosition as ArrayShape and adds where an operation under way
  is: what a write has still to put fits behind the position, because addCapacity made
  room for the whole of it (WritePlace), and what a read has still to take lies below
  m_size (ReadPlace). Without them the loops could run off the list. Grows, and the lemmas about one turn of a loop,
  say what a step does to the bytes at every position; from these follow both ArrayInv and
  the steps of the refinement, whose mapping (Content) is the bytes of the blocks by position.
  That a string's length as decoded is a number is shown by a least counterexample among the
  partial sums. Two assumptions are about the coding: the powers of two
  are positive numbers (PowersArePositive: the provers know no `^`; TLC evaluates it), and a
  field's calls of write() are given bytes, as the C++ types say.

One thing was found by failing to prove it: NoEarlyFire without its last case is
false when a poller is held up for more than twelve hours between its reading of
the clock and the write lock. Another thread's later reading is then taken for the past
of this one, and the roll-over test fires every timer. The property excepts it, and
`timer_rollover` has the bounds to reach it.

Not proved, and checked on the instances above only:

- liveness under fairness (DueTimerIsCollected, StopReturns,
  EveryTaskFinishes, QueuedTaskIsTaken, CallReturns, SessionEnds, ResponseEnds,
  ClientServed, DestructorReturns, StopEndsAccept, SetReturns, HungIsReplaced), which is
  out of the prover's reach;
- what the parsers compute (UriIsRead, MessageIsRead), and that a field decodes to what was
  coded (ReadBack): folds over sequences of any length, which take induction over data.

## 7. Where code and intention disagree

Four disagreements have a run of their own (`findings` in PROJECT.json). The others
were met while modelling. Where a property is about one, its statement contains it, and
the second column names the exception or the case.

| What | How to see it |
|---|---|
| tickle() writes only when no thread is idle, so it wakes nobody who is blocked (iomanager.cpp:273), and refresh does not even call it (timer.cpp:50): a thread sleeps past the deadline of a timer placed meanwhile, for up to MAX_TIMEOUT | `timer_asleep`; BoundedLateness states how late; `idle_progress` holds all the same |
| m_previousTime is set to a reading made before the lock: a thread held up for twelve hours in between takes a later reading for a roll-over, and every timer fires (timer.cpp:151) | the last case of NoEarlyFire |
| After an early wake-up two entries of one fiber both pass the EXEC test, and swapIn asserts (scheduler.cpp:159) | `early` in SwapInAssertion and OneThreadUnlessEarly |
| stopping() is not atomic, and a READY fiber is in neither count nor queue for a moment (scheduler.cpp:181): a thread leaves too soon; if every thread does, stop() returns without the task, and if an entry is pinned to the one that left, stop() does not return | `misread` in StopReturnsDrained, `Stranded` in StopReturns and EveryTaskFinishes |
| With two threads a resize may shrink the table of FdContexts (iomanager.cpp:107) | `structures` with the exception for a stale size dropped from RegisteredIsReachable |
| A timer farther away than 2^31 ms is cast to a negative timeout before it is compared with MAX_TIMEOUT, and epoll_wait blocks until there is an event (iomanager.cpp:313) | `far` in WaitIsBounded, `Deaf` in QueuedTaskIsTaken and StopReturns |
| addEvent asserts when another fiber waits for the same event of the fd (iomanager.cpp:120) | AddAsserts in IOManager and HookIO; CallReturns excepts it |
| An addEvent between canceAll and close_f stays registered on a closed number (hook.cpp:326) | excepted in EpollMatches: a closed fd has no registration |
| The default timeout (uint64_t)-1 of every fresh socket is armed by do_io as a timer whose deadline wraps (hook.cpp:130) | TimeoutOnlyIfArmed is stated with it (MayTimeOut) |
| A timed-out call's delEvent(fd) takes away the event that another fiber registered meanwhile; nobody wakes that fiber (hook.cpp:156, 283) | `robbed` in SuspendedIsReachable and CallReturns |
| readUint64 loses what does not fit 32 bits (bytearray.cpp:309, 313) | ReadBack is stated with it: such values never come back |
| read() of nothing, writeToFile and getReadBuffers at the end of the last block follow a null pointer (bytearray.cpp:434, 465, 593) | FaultOnlyAtEnd is stated with it |
| readFixSize and writeFixSize keep the result in a size_t and go on after -1 (stream.cpp:13, 39); SIGPIPE is not handled | `services`: `ioError` and `bodyError` in ServedIsSent, SessionEnds, ResponseEnds |
| saveLeftData copies from the head of the buffer (http_session.cpp:155) | `overread` in ServedIsSent |
| A request without a Connection header counts as close: strncasecmp compares no character (http_parser.cpp:129); a response is written with "colse" (http.cpp:178) | read only |
| The chunk loop reads before it parses (http_connection.cpp:134) | the exception of WholeIsReturned |
| memcpy of `offset` instead of `offset - nparse` bytes (http_connection.cpp:224) | OverrunOnlyShort is stated with it |
| m_maxAliveTime contains the wall clock, cut to 32 bits (http_connection.cpp:405) | RetiredOnlyOld states the cut sum |
| doPost(Uri) sends a GET, doGet(Uri) and doRequest(Uri) take the host for the path (http_connection.cpp:519, 490, 569); `errno == 0` is tested after calls that do not clear it (608) | read only |
| The producer's predicate ignores isexit, so the destructor may wait for ever (mysqlconn_pool.cpp:80); without a configuration file nobody serves a client and the destructor joins a null pointer (10, 28); m_maxSize is not used | the exception of DestructorReturns and of ClientServed, JoinNobody; ConnectionsBounded |
| An accept fiber that begins to wait between cancelAll and close is woken by nobody; a start() before the stop task ran leaves fibers that spin on closed sockets (tcpserver.cpp:95); a second stop() may clear m_socks while the task of the first walks it (93) | `stranded`, `restarted`, `torn` in StopEndsAccept, SpinOnlyIfRestarted and TornOnlyIfStoppedAgain |
| The vector of failures is kept between attempts: an address that failed once fails for good, and the program ends with exit(0) (application.cpp:211) | OneFailureIsFinal states it |
| The table of hook contexts has 1024 entries and does not grow (fdmanager.cpp:96); a close without hooks leaves the context to the next file of that number; a socket opened non-blocking is taken for a blocking one (fdmanager.cpp:33) | BeyondOnlyWhenFull, `dirty` in ContextOfThisFile |
| Two setVal calls may leave variable and listeners apart (config.h:315); a listener that sets the same variable waits for itself | `overlap` in ListenersAgree; re-entrance is not modelled |
| The time compared is the directory's, it is stored before the file is read, and `force` is not used (config.cpp:88) | `hidden` in ChangeIsNotLost |
| The daemon tests the size before the mutex (daemon.cpp:175); threads that ended stay in the table; a child slower than the interval is killed for the last one's entries (103); set_detect_interval stores twice its argument, and the next child starts with it (192) | OverrunOnlyRaced; the comment of KilledForCause; `interval` survives Fork |
| A kept logger in a changed configuration is used through a null pointer (log.cpp:855) | CrashOnlyPartialChange states it |
| The appenders are tested without the lock (log.cpp:112); addAppender makes the inherited formatter the appender's own (log.cpp:154) | LostOnlyInLoad; LoggersFollowConf demands an inherited formatter only where the definition names one for its logger |
| A pattern that does not parse is refused silently (log.cpp:193, 870): the logger keeps what it has | LoggersFollowConf is stated with it (`Given`); NoInvalidFormatter |
| A colon without a port makes Uri::Create throw (uri.cpp:10853); a password that begins with a digit loses the user's name; a response header with an empty value reports a name beyond the data (httpclient_parser.cpp:2009) and may leave the parser unfinished (3330) | UriThrowsAtEmptyPort, UriComponents, ResponseFieldsInText, ResponseEndIsFound are stated with them |
| recvFrom on a UNIX socket falls through to the error (socket.cpp:391) | read only |

## 8. Not modelled, not proved

Not modelled, because there is no state whose order matters: HTTP messages and their
text, addresses, environment, hashes, log layouts and levels, the wrappers of pthread and
of the MySQL client, Socket's functions of one system call each, fcntl, ioctl,
getsockopt and setsockopt (single reads and assignments of a context's fields), and
WebSocket, of which there is only a header. In the byte buffer, the functions that take
a position of their own are left out; nothing calls them.

Left out of modelled parts: Config::Lookup and the conversions to YAML, two
LoadFromConfDir passes at once, a listener that sets its own variable, delAppender, a
context held by a suspended call while its fd is closed and reused.

Of the properties of the runs, what is left to prove is what induction over data would
give (ReadBack, UriIsRead, MessageIsRead) and liveness (section 6).
