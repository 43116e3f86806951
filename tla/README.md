# A verification of libsimplesvr

TLA+ modules of the parts of libsimplesvr that keep state over time, the TLC
configurations that check them on small instances, and theorems about ten of them with
proofs that TLAPS checks. Paths are relative to `src/`, where the repository lies (so the
library's sources are `src/include` and `src/src`).

## The system

libsimplesvr is a header-only framework for epoll servers, with a few sources. A
program derives its servers from templates, registers them with `Application`, and
`Pool::Startup` forks processes (or starts threads) that each run one event loop. There
are almost no locks: `PoolObject<T>` gives each process or thread an object of its own.
What is concurrent is the peers, the processes that share a listening socket or a log,
the threads that share what the program built before it started them, and, inside one
thread, the callbacks: a handler or a timer's callback may call back into the component
that is calling it.

| component | state | operations | talks to | hard about it | correct when |
|---|---|---|---|---|---|
| Timer (`include/Timer.hpp`) | five vectors of lists, the tick, a map of TimerIDs | SetTimeout, Update, Clear, CheckTimer | the loop callbacks of EventScheduler call CheckTimer; callbacks of everybody else | callbacks change the list being run; TimerIDs wrap; cascades; the clock jumps | no item lost, freed twice or early; the TimerID reaches the item; every timer rings |
| Binlog (`src/Binlog.cc`) | a file of blocks; an iterator with a cached block | OpenLog, CreateLog, Write, GetIterator, Next | one process writes the file others read | the file grows under the reader; padding; failed and short writes; 32-bit offsets | records come out in order, each once, all of them, and nothing else |
| ConnectionPool (`include/ConnectionPool.hpp`) | connections, idle lists by address, a count, a limit | Attach, Detach, Erase, OnTimeout, setters | Timer (idle timeouts), TcpClient (its destructor calls the program) | a timer against Attach; calls from inside a deletion; TimerIDs never set | nobody shares a connection; the count is right; idle connections end |
| LoadBalance (`include/LoadBalance.hpp`) | quotas and counts per point, a total | Route, Failure, Success, Add/Erase, LoadConfigure | the clock | the total is kept apart from its parts; unsigned wrap; rounding | the total is the sum; weights are kept; good points recover |
| TcpServer (`include/TcpServer.hpp`) | connections with a cache of bytes | OnAcceptable, OnReadable, OnErrorable, DisconnectClient | EventScheduler calls it, it calls the program | streams cut anywhere; full caches; handlers that throw; a shared blocking socket | OnMessage sees the stream; everybody is served |
| EventScheduler, EPoll (`include/EventScheduler.hpp`, `include/EPoll.hpp`) | the epoll descriptor, lists of callbacks | Register, Update, UnRegister, Wait, Dispatch | calls all handlers and the timers | exceptions of handlers; several processes on one socket | events reach the process that owns the connection; loop callbacks run |
| ProcessPool, ThreadPool, PoolObject (`src/Pool.cc`) | started or not, startup callbacks, idle timeout, the objects of each worker | Startup, RegisterStartupCallback, SetIdleTimeout | everything registers with it; Timer joins the loop through it | what is built before, during and after the start; failing forks and callbacks; what fork copies and threads share | every worker drives its own timers and keeps to its own port |
| TcpClient (`include/TcpClient.hpp`) | a socket, a cache, a connect timer | Connect, Disconnect, Reconnect, handlers | EventScheduler, Timer, the program | timeout against late connect; calls from callbacks | an attempt ends in exactly one way |
| KeepConnectClient (`include/KeepConnectClient.hpp`) | a back-off interval, a timer | Connect, handlers | TcpClient, Timer | it does not compile when used | the interval stays in bounds |
| Session (`include/Session.hpp`) | sessions by token, their timers, callbacks | Allocate, Delete, RegisterCallback, OnSessionTimeout | Timer, the program | callbacks that allocate, delete and throw; tokens wrap | map, sessions and timers agree; sessions end |
| ConsistentHash (`include/ConsistentHash.hpp`) | a ring of points | Insert, Delete, Hash | | quotas of a key that Delete does not know; keys inserted twice | lookups move to or from the key in hand only, never to a deleted value |
| Log (`src/Log.cc`) | a file, what stdio holds back, a flush timer | Initialize, Write, Flush, ShiftLog, Close | Timer, the clock, the directory | the hour and the file change between lines; a flush is only another timer | the log is of the worker and the hour; lines reach the disk |
| IOBuffer (`src/IOBuffer.cc`) | bytes, a read and a write position | `<<`, `>>`, seeks | channels, programs | packages cut anywhere; positions that wrap | packages arrive whole |
| UdpServer, Application (`include/UdpServer.hpp`, `include/Application.hpp`) | a port; what is registered | Listen, Register..., Run | Pool, Log | each worker binds a port of its own from what the others copied or share | ports differ |
| Configure, Clock, CharsetConversion | none | | | sequential | |

`PROJECT.json` lists the same components with what is modelled of each, and every hazard at
its line with the property that covers it.

## The modules

### `TimerService`, `Timer`, `MCTimer`, `TimerProofs`

`TimerService` is what a timer promises: a tick that moves forward by one, timers armed for
a tick, and timers that ring exactly when their tick passes, once, unless they are disarmed.

`Timer` is the wheel. A `TimerItem` is a record at an address of `Items` (so an address that
is freed may be handed out again); the doubly linked list of a slot is the set of its items,
and a list is run in any order. `Unit`, `SlotFor` and `Cascading` are the geometry of the
five vectors for any sizes; `Cascading` says at once what the chain of `&&` over the
`cascade` calls in `CheckTimer` does. `SetTimeout`, `Update` and `Clear` may run outside
`CheckTimer` or inside a callback (`ProgramRuns`). `CheckTimer` is cut into `CheckTimer`
(reads the clock), `Turn` (one turn of its loop: cascade, count the tick, detach the list),
`Invoke` (the TimerID leaves the map, the callback starts), `Return` (the item is deleted)
and `CheckDone`. The wall clock moves at any time by any of `ClockSteps`, back too.

One field is not the code's: `deadline`, the moment the caller asked for. `Update` is
modelled as it would be once its `return 0;` in a `void` function is gone (line 271: a
program that instantiates it does not compile); that line is never reached, because
`InternalAddTimerItem` only returns 0.

### `Binlog`, `MCBinlog`, `BinlogProofs`

One writer and one reader of one file. `Write` changes the file in one `writev` and is one
step; `Next` of the code is cut at its `pread` and `fstat` calls: `CallNext`, then
`ReadNextBlock`, `LoadBlock`, `CheckGrowth`, `ReloadBlock` in whatever order its loop takes
them, until `Deliver` or an end of file or an error returns. The file is its size, the
offsets of block heads, and the records with the bytes of them that were written. The code
knows heads and records by one byte each (the head's magic, SMAGIC, EMAGIC), and these
tests are what the model has: a byte inside the file head, a block head or a record
(`Foreign`) may look like any of the three, so `Next` may take a head there, return what is no
record (`NoRecord`), or throw in `ReadSeek` behind a length that wraps (`NextThrows`). `Seen`,
`Lengths`, `Buffered` and `EndsThere` are its tests in their order: a record that was cut is
returned if the byte where its EMAGIC should be lies inside what a later `Write` put there.
Only holes are told apart: they are zeros. `Available` takes it that a `pread` sees a `writev`
whole or not at all, as POSIX has it.
A log begins opened by `CreateLog` or by `OpenLog` (`appending`: O_APPEND, so `writev` goes to
the end of the file wherever `lseek` put the position); `Faults` are a `writev` that fails and
one that is short. Three fields are not the code's: `sound` says that the log was created and
nothing went wrong with it so far, `overran` that `Next` met the end of the file at the end
of a block, `delivered` what the reader has seen.

### `ConnectionPool`, `MCConnectionPool`, `ConnectionPoolProofs`

The timer is used as `TimerService` describes it: a pending timer rings once, at some time,
unless cleared. Deleting a `ConnectionInfo` disconnects its client, which calls the
program's `OnDisconnected`: `Erase` and `OnTimeout` begin a deletion, `Deleted` ends it, and
other calls may come between, so `deleting` is a stack. `users` counts who holds a
connection. What the model forbids is using a connection that is being deleted, or that one
gave back.

### `LoadBalance`, `MCLoadBalance`, `RoutingProofs`

One action per method. `Prepared` is the first half of `Route` (reset and refill), `Reaches`
the walk along the map. The counters are numbers modulo `UINT_SPAN`; the rates of
`RoutePolicy` are compared as fractions. Whether `ResetTime` has passed is a choice of each
`Route`. `Duplicates` says whether the program may add an address it has added, or its file
list one twice (`Repeated`, one line at most). `RaisedSum` is a double that the code converts to
`uint32_t` before it caps it: `Raised` wraps it, as gcc's code for x86-64 does.

### `TcpServer`, `MCTcpServer`, `TcpServerProofs`

The server in its event loop and in the processes `ProcessPool::Startup` forks. Each worker
goes through `WaitEvent` or `WaitTimesOut`, one handler, and `LoopCallbacks`, which an
exception skips. `Accept` waits in a blocking `accept4` on the socket all workers share.
`OnReadable` is `CacheIsFull`, `RecvFails`, `RecvEnd` and `Recv`. The bytes of a client are
numbered, so `cPackageCache` shows what `OnMessage` is given. `Connect`, `Send` and `End` are
the peers; `Throwing` and `Faults` switch on handlers that throw and system calls that fail.
Two failures can repeat for ever: `AcceptFails`, and an `OnDisconnected` that throws before the
connection is closed (`KeepsOpen`); `Asleep` is a worker in `accept4` with nobody to accept.

### `IOBuffer`, `Packages`, `MCPackages`, `MessageProofs`

`IOBuffer` has the operators of the class on a record of its fields: `Put...` for `<<`,
`Get...` and `Skip...` for `>>`, with a `Can...` operator where the code throws
`OverflowIOException`. Integers and lengths are written most significant byte first, for any
number of values of a byte; `Power` is the powers of that number, as a function, so that what
is proved of bytes is proved for every width.

`Packages` sends an integer and a string from one program to another, on one connection: `Post`
packs them in `out` (and takes the first back with `WriteSeek` if the second overflows), `Send`
is `Channel <<`, `Receive` and `MessageReturns` are the two halves of `TcpServer::OnReadable`
around `OnMessage`, which unpacks packages (`Take`) until one is not whole. What is left of the
cache is a sequence: `TcpServer` shows that the array and its size hold that. `HandlerLoops` is
whether `OnMessage` unpacks all it can or, like `examples/tweetadsd.cc`, one package.
`spoiled` records that a send was short or that a length wrapped.

### `TcpClient`, `MCTcpClient`, `TcpClientProofs`

One client in a process whose pool has started, since its timer and its events are
independent of other clients. `Socket` is the mode it was opened with, what `connect` thinks
of it (a non-blocking `connect` that succeeded is told once more) and the state of the
connection. A handler that calls the program is cut there: `calls` is the stack of callbacks
that run, each named for what the code does on return (`Update` after `OnConnected` in
`OnWriteable`, `Register` after it in `Connect`, `Disconnect` after `OnError` and
`OnConnectTimout`, `KeepRest` after `OnMessage`). `ProgramCalls` says what the program calls
from where, at most `CallsThatWork`. `told`, what the program was told last, is not the code's.
`OnWriteableFails` is also possible on a good connection, because `errlen` is not initialised.
`OnDisconnected` calls nothing; `Disconnect` is one step.

### `Session`, `MCSession`, `MessageProofs`

The timer is used as `TimerService` describes it. A `SessionInfo` is an address of `Infos`,
the node of the map it lies in; the timer carries that address. `OnSessionTimeout` is cut at
the callbacks it makes: it begins (`CheckTimer` has taken the timer out), each callback returns
(`CallbackReturns`) or throws (`CallbackThrows`), and `TimeoutReturns` erases the session under
its own token. Between these steps the program may `Allocate`, `Delete` another session and
`RegisterCallback`. `abandoned`, the sessions a callback threw for, is not the code's: nobody
tells them again. `Allocate` with `TokenReuse` is what `insert` does when the token
comes round to a live session: the entry stays, its timer is overwritten.

### `Pool`, `Log`, `Workers`, `MCWorkers`, `WorkersProofs`

`Pool` is how a program starts. Before `Run` it registers a UDP server, a startup callback and
an idle timeout and may set a timer, in any order (`RegisterUdpServer`,
`RegisterStartupCallback`, `SetIdleTimeout`, `SetTimeoutEarly`); `Run` adds the log's callback
as the last. `Fork` brings a worker up (a process has a copy of what its parent had, a
thread has its own Timer and shares the `UdpServerStartup`), `CreateScheduler` begins its
start, and then it makes the callbacks at its `position` in the list: `CallTimerStartup`,
`CallUdpStartup` with `Bind`, `CallProgram`, `CallLog`. `ForkFails` and `StartFails` are the
failures of `fork`, `epoll_create`, `bind` and of callbacks. `UseTimer` is
`PoolObject<Timer>::Instance()` with what the constructor of `Timer` does: it puts itself at the
front of the callbacks before the start, and joins the loop at once after it.

`Log` is the `SimpleLog` of each worker: the file of an hour (a pair of hour and worker), the
directory, and whether stdio holds lines back. `Write` is the line and the `ShiftLog` that
follows it. `HourPasses` and `FileIsRemoved` are the world.

`Workers` composes both: the workers in their loops, with the timers of the program and those
that flush the log (`LogIsFlushed` rings one, and `Flush` sets the next), and `Crash`, which
takes one process, or all threads, and what stdio held back.

### `ConsistentHash`, `MCConsistentHash`, `RoutingProofs`

The ring is a function from points to `PointT` objects, which are numbered as they are allocated.
`Chain` gives the points of a key, those that `h` and `h2` (MD5) would compute; chains of two
keys do not meet. `Insert`, `Delete` and `Hash` are the methods; `freed` and `single` (no key
was inserted with more than one quota) are not the code's.

## What the runs show

Each run checks safety, steps and liveness of one component (or composition) together.
Type invariants are not listed in the runs: each component's is proved (that of `Workers`
as a part of the invariant `WorkersProofs` uses).

| run | instance | shows |
|---|---|---|
| `timer_wheel` | one item, both sizes 2, an interval of 2 ms, timeouts around 2, 4, 8, 16 and 32 ticks, beyond the wheel and negative, a clock that jumps by 3 ticks and is set back | no item is left behind (`NoItemLeftBehind`); the wheel implements `TimerService` (`ImplementsService`); a callback starts early by `Interval` - 2 ms at most (`FiresNotEarly`), 8 ms with the default interval of 10; the TimerID reaches its item (`HandlesReachTheirItems`). Items meet only in lists, so one item is enough for the geometry; the clock goes past a whole turn of the wheel (32 ticks) |
| `timer_callbacks` | three items, TimerIDs that come round after 2 calls, under `FairSpec` | an item is in one place (`EachItemInOnePlace`), the map has no dangling pointer (`MapNamesPendingItems`), whatever a callback clears, moves or adds in the list that runs, and each timer rings or is moved or cleared (`EveryTimerRings`); the clock may advance two ticks at once, so turns are caught up. Three items are a callback, the next of its list and one elsewhere |
| `binlog_tail` | blocks of 12 bytes, records that fill them exactly, need padding or fit no block, five writes to a sound log and two to another one, both openings, failed and short writes, `PollingSpec` | records come out in order and each once in every log, and nothing else out of a sound one, whatever its bytes look like (`ReadInOrder`); in a sound one the layout holds (`HeadsStartBlocks`), and a reader that follows the file skips nothing, is told the end only at the end and reads everything, until it meets the end of the file at the end of a block (`NothingSkipped`, `EndOfFileMeansAllReadBeforeOverrun`, `EverythingIsRead`). Five records fill two blocks and begin a third in every way; two writes are one that is cut and one that stands in its place |
| `pool_mixed` | two connections, two addresses, limits 1 and 2, timeouts 0 and 5, under `FairSpec` | the count (`CountIsLive`), the idle lists (`IdleListsSound`), the timers (`TimersBelongToIdle`) and the users (`OneUserEach`) agree; if there is always an idle timeout, idle connections end (`IdleEndsEventually`). Two connections share an address (a list of two) or not, and one can be deleted inside the deletion of the other |
| `balance_quotas` | two points, quotas 0, 5 and 7, 3-bit counters | the total is the sum modulo the word (`TotalIsSum`); a point that answers recovers (`AnsweringPointsRecover`); only the first point is picked beyond its quota (`OnlyTheFirstOverspends`). Three bits make every counter wrap, and the raised quota too (7 and a fifth of it); 5 is the least quota a fifth of which is not 0. The band between 0.05% and 3% of lost answers needs 34 requests and is not reached |
| `server_stream` | two workers, two clients, a cache of 2 for streams of 3 bytes, exceptions, failures, resets | `OnMessage` is given the stream (`CacheIsTheStream`) and handlers run for open connections of their own process (`EventsAreLive`). Three bytes fill and overflow the cache |
| `server_served` | two workers, two clients of which one sends two bytes into a cache of one, exceptions, failures, resets, `FairSpec` | everybody is accepted and read (`EveryClientIsAccepted`, `EveryByteIsReceived`), dead connections are closed (`DeadPeersAreClosed`), timers run (`LoopCallbacksRun`), whatever fails or throws, but for the three exceptions they name: `accept4` that fails for ever, `OnDisconnected` that throws for ever, a worker that sleeps on in `accept4`. Two workers race for one client and leave one asleep; the second byte meets a full cache |
| `package_stream` | bytes of three values, a cache of 6 and a buffer of 13 bytes, packages of 3, 6 and 12 bytes, the last with a string whose length wraps, four packages, short sends, `FairPackagesSpec` | packages arrive whole, in order and once (`PackagesArriveWhole`), and all of them (`EveryPackageArrives`), unless the stream is spoiled. Two packages of 3 bytes fill the cache, one of 6 just fits it, and the buffer overflows behind an integer that must be taken back |
| `client_calls` | one client, two TimerIDs, `FairSpec` | the one pending timer is that of the attempt under way (`TimerIsTheAttempts`); the scheduler watches for what is due (`WatchedForWhatIsDue`); `OnMessage` sees bytes of this connection only (`CacheIsThisConnections`); attempts end and ends of connections are told (`ProgramIsTold`). A client has nothing to do with another one, and two TimerIDs tell a timer that was left behind from the next |
| `session_timeouts` | two sessions, three TimerIDs, tokens that come round after four calls (to sessions that have ended), two callbacks that may throw, `FairSpec` | map, sessions and timers agree while callbacks allocate, delete and register (`SessionsAgree`), and every session ends unless a callback threw for it (`SessionsEnd`). Two sessions are the one being told and the one its callback deletes or allocates |
| `workers_startup` | two workers, processes or threads, every order of registrations, idle timeouts of the Timer's interval, above it and none, two hours, `FairSpec` | a worker in its loop drives its Timer once a turn and sleeps no longer than its interval (`TimersAreDriven`); ports and logs are the worker's own (`WorkersDoNotMeet`); the log is that of the hour (`LogFollowsTheHour`) and lines get to the disk (`LinesReachTheDisk`). Two workers are the one that forks, whose program used a Timer before, and one that inherits it |
| `hash_ring` | three keys with two points per quota that lie between one another, quotas 0 to 2, four inserts and any deletes, lookups before, at, between and past the points | an Insert moves lookups to the new value only and a Delete those of its key only (`LookupsStay`); with one quota each no lookup leads to a deleted value (`NoDanglingPoints`). Four inserts are each key and one of them again |

Bounds that are not parameters of the code: `MinClock`, `MaxClock` (Timer), `MaxWrites`,
`MaxTornWrites`, `MaxBlocks` and the bound on repeated failures in `Write` (Binlog),
`MaxCount` and the one repeated line of `LoadConfigure` (LoadBalance), `Senders` and `MaxBytes`
(TcpServer), `MaxPosts` and no packages after a spoiled
one (Packages), `MaxCallbacks` (Session), `MaxHour`, `MaxTimers`, `MaxFlushTimers`, no hour
that passes before the first log is open, one registration of each kind (Pool, Log, Workers),
`MaxInserts` and `MaxQuotas` (ConsistentHash). `IdReuse` and `TokenReuse` say whether an
identifier may come round to something that is alive.

Deadlock is checked in every run but `package_stream`, where both ends rest once all packages
are there, and `workers_startup`, where all workers may have ended.

### Fairness

- `Timer!FairSpec`: `TimerStartup::Startup` sets the idle timeout of the loop to at most
  `Interval` and registers `CheckTimer` as a loop callback, so it is called again and again
  (`TimersAreDriven` of `Workers` is this, for every order of registrations);
  the thread goes on inside it; callbacks return; time passes. Nothing is assumed of the
  program's calls.
- `Binlog!PollingSpec`: a reader that calls `Next` again whatever it returned, as
  `examples/log.cc` does. `EverythingIsRead` supposes it stops opening new iterators.
- `TcpClient!FairSpec`: ready events are dispatched, timers ring, and callbacks return whatever
  they call (strong fairness at each depth, because `OnConnectTimout` may reconnect again and
  again). Nothing is assumed of the network.
- `ConnectionPool!FairSpec`: pending timers ring (`EveryTimerRings`) and `OnDisconnected`
  returns, whatever it calls and however deep deletions nest (strong fairness at each depth).
  Ringing is strongly fair, because `OnTimeout` is called by the loop, where no
  deletion is in progress, and the loop comes back however many connections are deleted.
- `Packages!FairPackagesSpec`: the sender sends what it has packed, and the loop of the server handles
  readable events.
- `TcpServer!FairSpec`: each process runs on (a process asleep in `accept4` is not
  enabled, so nothing is assumed of it), and `epoll_wait`, called for one event at a time, moves
  a descriptor it has reported to the end of its ready list, so one that is ready again and
  again is reported (strong fairness of `WaitEvent` for each descriptor). Clients owe nothing,
  but there are finitely many and they send finitely many bytes.
- `Session!FairSpec`: pending timers ring once the loop is back (strong fairness, for the reason
  given for `ConnectionPool`), and callbacks return or throw, whatever they call.
- `Workers!FairSpec`: a loop that has an idle timeout and calls `CheckTimer` rings what is due
  (`Wakes`). A loop without idle timeout may wait for ever, so that a worker whose startup
  went wrong fails `LinesReachTheDisk`. Nothing is assumed of handlers, time or the start.

## What is proved

Each `...Proofs` module shows its properties for every value of the constants that the named
assumptions of its module allow. The shape is the same in all: an inductive invariant holds
in `Init`, each action has a lemma that it preserves it, and `PTL` puts them together.

`TimerProofs` (any sizes of the wheel, items, timeouts and clock movements):

- `TimerTypeCorrect`: `Spec => []TypeOK`.
- `TimerListsOwnHeap`: `Spec => []EachItemInOnePlace`.
- `TimerMapSound`: `Spec => []MapNamesPendingItems`.
- `TimerHandlesReach`: `Spec => []HandlesReachTheirItems`.
- `TimerNothingLeftBehind`: `Spec => []NoItemLeftBehind`.
- `TimerFiresNotEarly`: `Spec => []FiresNotEarly`.
- `TimerImplementsService`: `Spec => ImplementsService`.

`TypeOK` is inductive alone but for the slots an item is put in, which lemmas about `Index`,
`Slot` and `SlotFor` show to be slots of the wheel: `Cascade` neither loses an item nor puts
it in two slots (each item of an emptied slot goes to the one slot `SlotFor` gives).
`EachItemInOnePlace` is not inductive by itself: `Clear` and `Update` take an item from
where the map says it is, so the map must name pending items; and that needs to know that
an item is running only inside `CheckTimer`. The inductive invariant `ListsInv` is the
conjunction of these. `HandlesReachTheirItems` needs, besides, that no two live items bear one
TimerID (`DistinctIds`), which the guard with `IdReuse` gives.

The last three rest on `OrderInv`, which adds where an item lies in relation to its tick
(`WheelOnTime`). Each slot that is not empty is taken in time (`Taken`): it is the one the next turn
takes, or one that begins at a tick which has not passed and is not after the item's own, and
at which `CheckTimer` cascades its level (`CascadesWhenDue`). And a slot of the first vector is
not taken before the item's tick (`NotBefore`). `SlotForOnTime` shows this of the slot
`InternalAddTimerItem` chooses, the one for items beyond the wheel included (`ClampedSlot`), and
`CascadeOnTime` that after the cascades of a turn the slot it takes holds exactly what is due. Both
rest on quotients and remainders: `Size` slots of a level are one of the next (`UnitSteps`,
`UnitsDivide`). `RunsWhatIsDue` and `DeadlinesCut` (cutting the clock and the timeout to ticks
loses less than two ticks) give `FiresNotEarly`. For `ImplementsService` the steps are mapped as
one would expect: `SetTimeout` and `Update` to `Arm`, `Clear` to `Disarm`, `Turn` to `Tick`, `Invoke`
to `Ring`, and all others change nothing the service has.

`TcpClientProofs` (any TimerIDs and every program within `CallsThatWork`, `ClientAssumption`):

- `ClientTypeCorrect`: `Spec => []TypeOK`.
- `ClientTimerIsTheAttempts`: `Spec => []TimerIsTheAttempts`.
- `ClientIsWatched`: `Spec => []WatchedForWhatIsDue`.
- `ClientCacheIsItsOwn`: `Spec => []CacheIsThisConnections`.

The properties speak of the loop, where no callback runs, so `ClientInv` adds what is true
inside each callback: which stacks there are (`Stacks`), where a timer may still be pending
(only in `OnConnectTimout` called by `OnWriteable`), what the socket is registered for, and that
the program is told of a connection only while there is a socket with a cache of its own.
`DisconnectLeavesNothing` is the lemma most steps end in.

`ConnectionPoolProofs` (any addresses, connections, TimerIDs, limits and idle timeouts; the set
of connections is finite because the count is a cardinality):

- `PoolTypeCorrect`, `PoolCountIsLive`, `PoolIdleListsSound`, `PoolTimersBelongToIdle`,
  `PoolOneUserEach`: `Spec => []TypeOK`, and the four invariants of `pool_mixed`.

The runs' invariants speak of the lists, of timers and of users; what makes them inductive is
that lists and timers hold connections nobody uses (`ListsAreFree`, `TimersAreFree`) and that
the stack of deletions has each connection once and none in a list (`DeletionsSound`).
The first lemmas are about sequences without repetitions: what an element put in front, the
tail, and `RemoveFirst` keep.

`TcpServerProofs` (any processes, clients, size of the cache and length of the streams):

- `ServerTypeCorrect`: `Spec => []TypeOK`.
- `ServerCacheIsTheStream`: `Spec => []CacheIsTheStream`.
- `ServerEventsAreLive`: `Spec => []EventsAreLive`.

`ServerInv` adds only that no more was received than was sent; the two properties support
each other with `TypeOK`.

`MessageProofs` is about sessions (any SessionInfos, TimerIDs, tokens and callbacks, if
`~TokenReuse`, a hypothesis of both theorems)

- `SessionTypeCorrect`: `~TokenReuse => (Spec => []TypeOK)`.
- `SessionsStayAgreed`: `~TokenReuse => (Spec => []SessionsAgree)`.

and about packages (any number of values of a byte, any widths, sizes of the buffer, of the cache
and of packages, and any cuts of the stream, within `ByteAssumption`, `SizeSpanAssumption`,
`PayloadAssumption` and `BufferAssumption`):

- `ValueOfBytes`: an integer that fits its width comes back from the bytes it was written as.
- `PackagesTypeCorrect`: `PackagesSpec => []PackagesTypeOK`.
- `PackagesArrive`: `PackagesSpec => []PackagesArriveWhole`.

For sessions the invariant adds that no two sessions remember one TimerID (`DistinctTimerIds`:
otherwise `Clear` would take away another session's timer) and that a session that is being told
was not given up before (`TellingIsNew`).

For packages it looks at the bytes on their way as one flow: what `OnMessage` has not read of the
cache, the stream, and what `out` holds (`Way`, `Joins`). In this flow the packages that were packed
and not taken lie one behind the other with nothing between them (`Lies`). `ArrivalInv` says this,
that what was taken is the beginning of what was posted, and that no length has wrapped. `Send`,
`Receive` and `MessageReturns` move bytes within the flow (`JoinsSent`, `JoinsReceived`,
`FlowMoves`), `Post` makes it longer by one package (`LiesMore`) and `Take` takes the first
off (`LiesLess`); `ReadsBack` says that `Take` reads the package that lies there. A `Post` that
throws and a package that is not whole must leave everything where it was: `SeekBack` and
`GivenBackIs` show that seeking by a negative number modulo the word does, because sizes are
below `SIZE_SPAN`. `Written`, `PackageIsWritten` and `WholeIs` are what the operators of `IOBuffer`
do to the bytes.

`WorkersProofs` (any number of workers, processes or threads, any idle timeouts and hours):

- `WorkersTimersDriven`: `Spec => []TimersAreDriven`.
- `WorkersLogsFollow`: `Spec => LogFollowsTheHour`.
- `WorkersKeepApart`: `Spec => []WorkersDoNotMeet`.

`TimersAreDriven` speaks of the loop; `StartInv` says what leads there: a Timer of the program is
the first callback of the list and `LogStartup` the last (`ListSound`), workers come up after all
registrations, worker 0 after the others (`StageSound`), and a worker that has made the first
callback drives the Timer it has, whether it had it before the start, inherited it with `fork`, or
built it in a callback (`WorkerSound`). That `LogStartup` is last and uses the Timer is why
every worker that loops has one. `LogSound` says that no file is of an hour to come, and that a
worker writes to that of the hour once it exists. That ports differ is what `bind` sees to, for
processes and for threads; that a process is at the configured port plus its ID rests on
`PortInv`: there is one callback of the `UdpServer` in the list (`UdpOnce`), a process that has
still to make it has the configured port in its `m_Data`, copied by `fork`, and one that waits
for `bind` has its own, in the byte order of the network (`PortSound`, `HtonsTwice`). In these
proofs the list of callbacks is known by its domain, first and last entry: what `Append` and
putting a callback in front do is shown in lemmas of their own.

`RoutingProofs` is about the two ways to choose a server: the load balancer (any points, quotas,
width of the counters and rates)

- `BalanceTypeCorrect`: `Spec => []TypeOK`.
- `BalanceTotalIsSum`: `~Duplicates /\ Spec => []TotalIsSum`.
- `BalancePointsRecover`: `Spec => AnsweringPointsRecover` (which leaves out the quotas that wrap).
- `BalanceOnlyFirstOverspends`: `Spec => OnlyTheFirstOverspends`.

and the ring of `ConsistentHash` (any keys, chains of points that do not meet, and inserts):

- `HashTypeCorrect`: `RingSpec => []RingTypeOK`.
- `HashHasNoDanglingPoints`: `RingSpec => []NoDanglingPoints`.
- `HashLookupsStay`: `RingSpec => LookupsStay`.

`TotalIsSum` is inductive with `TypeOK`. What takes work is the sum: that adding, removing or
changing the quota of one point changes the sum over all points by that much (`SumWithout`,
`SumOfSame`, `OneQuotaChanges`), and that the total `m_dwTotalQuotas`, which wraps at every
step, agrees with the sum modulo the word (`WrappedSum`). The hypothesis `~Duplicates` is
needed: see below. `RouteIs` says which point `Route` picks: the first whose quotas, added to
those before it, reach the seed; `EmptyIsFirst` that this point has something left unless
it is the first (a seed of 0).

For the ring, the invariant adds that a point belongs to a key whose object it leads to and,
while quotas are single, is one of the points `Delete` takes out (`PointsAreOwned`). `LookupsStay`
also needs that a set of numbers has one least element at most.

`BinlogProofs` (any layout, record sizes, openings and faults):

- `BinlogTypeCorrect`: `Spec => []TypeOK`.
- `BinlogHeadsStartBlocks`: `Spec => []HeadsStartBlocks`.
- `BinlogReadInOrder`: `Spec /\ []Fits => []ReadInOrder`.
- `BinlogNothingSkipped`: `Spec /\ []Fits => []NothingSkipped`.
- `BinlogEndOfFile`: `Spec /\ []Fits => EndOfFileMeansAllReadBeforeOverrun`.

`Fits` says that the reader stands below `OFFSET_SPAN` (4 GiB): `Next` computes offsets in
`uint32_t`, and past it they wrap to the start of the file. The invariant has four parts.
`InOrder` holds of any file, torn or not: records lie one behind the other, the offset `Write`
returns is behind all records before it, the reader has passed those it was given
(`ReaderPast`), and what it has cached lies in the file (`CacheInFile`). `SoundFile` is the layout: the size ends the last record, each record starts where
the one before ended or behind the head of a later block (`Follows`), and a head is
never without a record behind it, because one `writev` writes both. `Follow` says where a
reader of a sound file stands: never beyond the next record, and past the head of its
block at it, unless it lies in a later block (`Due`); and what it has cached of the block ends where
a record ends (`Cached`), though the file has grown since. So an incomplete record in the cache
cannot be met, and `Next` gives up a block only where it holds nothing more. `Aligned` says the
same of every reader of a sound file, also one that has skipped: what lies at its place is a
record, a hole or nothing, never the inside of a record (`Clear`), so that nothing else can come
out (`OnlyRecords`, and with `InOrder` `ReadInOrder`).

The prover cannot instantiate the library's induction theorems, whose parameter is an operator.
Where a proof is about data of any size (powers and bytes of an integer, sums over a set of
points), the induction is done by hand, as a least counterexample: `InductionOnSets` with sets of
numbers, `SmallestSet` with finite sets. Recursive definitions and folds are unfolded once with
functions that satisfy their equations and agree with one another (`Powers`, `Folds`,
`Iterates`).

Every invariant and every action property of the runs is proved. Only model-checked is
liveness, which this prover does not do: `EveryTimerRings`, `EverythingIsRead`,
`IdleEndsEventually`, `EveryPackageArrives`, `EveryClientIsAccepted`, `EveryByteIsReceived`,
`DeadPeersAreClosed`, `LoopCallbacksRun`, `ProgramIsTold`, `SessionsEnd` and
`LinesReachTheDisk`.

## Where the properties end

Some properties hold only under a condition, because of what the code does otherwise:

- *Binlog.* A log opened with `OpenLog` is not padded, because `lseek` has no effect on what `writev`
  does to a file opened with `O_APPEND`: heads and records land where the reader does not look,
  and `Write` returns wrong offsets. After a failed `writev` the position stays moved and the
  next `Write` pads twice. A record that with a head does not fit a block is accepted and
  cannot be read. `HeadsStartBlocks` and the liveness of the reader are for `sound` logs. Nothing but
  the byte at its end tells a record that was cut by a short `writev` from a whole one: if one that
  lost its last 5 bytes is followed by a payload of 10 bytes, the length of that (00 00 00 0a) puts
  an EMAGIC where the first one's should be, and `Next` returns the cut record; if its length was
  cut too, a later `Write` makes one up. `ReadInOrder` says which records come out of such a log
  and in which order, not that they are whole, and also bytes that are no record may come out of it;
  a reader that meets a length near 4 GiB there throws at every call (`NextThrows`) and stays.
  What is said of a reader that follows a sound log rests on a `pread` that sees a `writev` whole or not
  at all: POSIX says so, some file systems of Linux do not keep to it across pages. `Next`
  counts `dwBlockIndex` up before it knows that the block exists, so a reader that met the
  end of a full block passes over the next one (`overran`). Offsets of blocks are 32-bit, so
  past 4 GiB the reader starts again (`OFFSET_SPAN` is out of reach in the run).
- *ConnectionPool.* `IdleConnTimerId` is not initialised, and `Attach` clears it in the shared timer: a
  connection that was detached without an idle timeout takes the timer of another one away,
  which then stays idle for ever (the condition `AlwaysTimed` of `IdleEndsEventually`).
- *LoadBalance.* A seed of 0 picks the first point even with nothing left, and what it has left becomes
  2^32 - 1 (the exception in `OnlyTheFirstOverspends`); a quota below 5 that was cut to 1 is never
  raised again. Quotas so large that what a reset raises them to is no `uint32_t` (from 5/6 of 2^32)
  wrap before they are capped, and fall instead of rising (the last condition of
  `AnsweringPointsRecover`). `AddServicePoint` for an address that is known, and `LoadConfigure` of
  a file that lists one twice, add its quota to the total only, and then the total is no sum
  (`Duplicates`).
- *TcpServer.* The listening socket blocks: a process can sleep in `accept4` for a client another
  process has taken, with its own clients and timers waiting, until somebody connects. An `accept4`
  that fails (no descriptors) throws in every turn while a client waits, and an `OnDisconnected` that
  throws keeps the connection open, dead or with a full cache, and is called again in the next turn:
  both skip the loop callbacks, so that timers ring only in the turns of other events, if any. The properties of
  `server_served` name these three cases, and each is needed: without it TLC finds the
  property violated. `LoopCallbacksRun` is about clients that come and send finitely often: an
  `OnMessage` that throws at every message of a stream without end starves the timers too.
- *Packages.* `Channel <<` forgets what `sendmsg` did not take, so on the sockets of `Connect` with a
  timeout, which do not wait, a package can lose its end (`spoiled`). An `OnMessage` that unpacks
  one package, as that of `examples/tweetadsd.cc`, leaves the second of two that arrive
  together in the cache until the client sends more (`EveryPackageArrives` fails with
  `HandlerLoops = FALSE`).
- *TcpClient.* `CallsThatWork` is as large as it can be: a `Connect` with a timeout inside
  `OnConnectTimout` leaves a timer behind (`getsockopt` took a good connection for a failed one,
  and `connect` succeeds at once); `Reconnect` inside `OnConnected` that fails leaves a dead socket
  registered; a `Connect` inside `OnDisconnected` is closed by the `Disconnect` that called it, and
  its timer stays. A `Connect` without a timeout after one with a timeout that failed gets a
  socket that does not wait, so it fails although the connection comes up unwatched.
- *Session.* A token that comes round to a live session loses that session's timer from sight
  (`TokenReuse`), and a session whose callback threw keeps its entry and has no timer (`abandoned`).
- *Pool and Log.* Threads share `m_Data` of the `UdpServerStartup`, so the second thread converts what the first
  has converted: its port is not `BasePort` + 1 but another one, which `WorkersDoNotMeet` allows for
  threads. A `Flush` the program calls begins a chain of flush timers that never ends, besides
  the one of `LogStartup` (`MaxFlushTimers`). `ShiftLog` that cannot open the file of the hour
  leaves the worker without a log for good (`NoFile` in `LogFollowsTheHour`). When `fork` fails,
  the processes that came up stay (`ForkFails`).
- *ConsistentHash.* `Delete` takes out the points of one quota only and deletes the value all points of the
  key lead to (`single`).

## Not modelled

- Writing to freed memory: `DisconnectClient` on the own channel inside `OnMessage`
  (`include/TcpServer.hpp:149`), a session deleted in its own callback. The models exclude these calls.
- Data races of threads: a Timer built before a `ThreadPool` starts is run by the loops of all
  threads; a `TcpServer` registered with a `ThreadPool` is one object whose channels all threads
  share. `Pool` leaves out such Timers (`SetTimeoutEarly`), and `TcpServer` is about processes.
- `KeepConnectClient`: it names members that `TcpClient` does not have and cannot be instantiated.
- `EventScheduler::Wait`, which polls for POLLIN whatever it is asked for, and with it the
  `Connect` with a timeout before the pool has started.
- The pid file of `Application` (its lock is not inherited by the processes `fork` makes), lines
  logged before `LogStartup`, and two programs that share a directory of logs (their files
  have the same names).
- `Log::Close`, which only the destructor calls; failing `pread` and `fstat`; opening a log that has
  records.
- `Configure`, `Clock`, `CharsetConversion`: sequential code; of `IOBuffer`, `Dump`, and `Read`
  and `Write`, which return 0 where `>>` and `<<` throw.
- The handlers' own data, and the wording of logs.

## Plan

What is left, in order of what it adds:

1. The composition of `TcpClient` with `ConnectionPool` (calls from the destructor) and with
   `EventScheduler::Wait` before `Startup`.
2. `BinlogFile`: an abstract log (a sequence and a reader's position) that `Binlog` implements
   while it is `sound` and the reader has not `overran`; `Follow` is most of the step proof.
3. A `Timer` and a `TcpServer` shared by threads, with the races as choices.
