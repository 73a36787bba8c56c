# Verification of the cold-chain relay and gateway

The repository holds a TCP framework of the one-loop-per-thread kind and what is
built on it: a relay that forwards the reports of refrigerated lorries to the
managers' screens, an HTTP gateway, and an example server. This directory holds
TLA+ models of their concurrent parts, TLC runs on small instances of them, and
theorems checked by TLAPS for all instances. Paths such as `Connection.cpp:118`
are relative to the repository's root; `PROJECT.json` maps every definition to
the lines it stands for.

## 1. The system

| part | state | operations |
|---|---|---|
| `TcpServer`, `Acceptor` | `conns_` by descriptor, under `mmutex_` | main thread: accept, build and wire a `Connection`, insert it in two maps; any IO thread: `closeconnection`, `removeconn` |
| `EventLoop`, `Epoll`, `Channel` | the epoll tree, `taskqueue_` under `mutex_`, `conns_` under another `mmutex_`, an eventfd, a timerfd | `run`: epoll_wait, then the events of the batch; `queueinloop`/`handlewakeup`; `handletimer` every 5 s |
| `Connection` | socket, channel, two buffers, `disconnect_`, `lastatime_` | `onmessage` until EAGAIN, `closecallback`, `send` from any thread, `sendinloop`, `writecallback` |
| `Buffer` | bytes | `pickmessage`, `appendwithsep` for three framings; the servers use framing 2, an empty line |
| `EchoServer` | the example application | `HandleMessage`, `OnMessage`: one answer per message |
| `ThreadPool` | `taskqueue_`, `stop_`, a mutex and a condition variable | `addtask`, the loop of a worker, `stop` |
| `RelayServer` | `all_connections_` under `mutex_`, a pool of five workers | `HandleNewConnection` (main thread), `HandleClose`, `HandleMessage` (IO thread), `OnMessage` (worker): answer, or store and broadcast |
| `relay_main` | the database and the relay, by pointer | `main` makes both; `Stop`, a signal handler, stops both |
| `DatabaseHelper` | a queue of MySQL handles, `m_isConnected`, a mutex and a condition variable | `connect`, `disconnect`, five queries |
| `GatewayServer`, `TcpClient` | `upstream_clients_` by descriptor of the client, under `mutex_`; per client a socket, a channel, later a `Connection` | `OnMessage` (worker): filter, route, connect; four upstream callbacks (IO thread) |
| `RateLimitFilter` | `tokens_`, `last_time_` under `mutex_` | `doFilter` |
| `Router` | prefixes, a round-robin index | `route` |
| driver's and manager's Qt programs | a socket, SQLite tables, the screen | event handlers of one thread |

How they interact. An IO thread reads a frame and calls the application, which
puts a call in its worker pool; a worker answers by `Connection::send`, which
queues `sendinloop` on the loop of the connection and writes the loop's eventfd.
Connections are owned by `shared_ptr`s in the server's map, the loop's map, the
application's tables and queued calls, and the descriptor is closed, and may be
given to somebody else, when the last of them goes. All tables are keyed by
descriptor. Threads meet under mutexes of the server, of each loop and of the
application.

What is hard here: the set-up of a connection by one thread while another
already serves it; a close, a timeout and a send that cross; tables keyed by a
name that is reused; wake-ups sent outside the mutex; a mutex held during a
broadcast; an edge-triggered channel that tells once; a stop that comes in any
thread while workers query; objects destroyed between `epoll_wait` and the handling of the event;
integer arithmetic on times. The list `hazards` of `PROJECT.json` gives each
place and the properties that watch it.

## 2. The modules

```
Mailbox  <-------- implements ------- Reactor <-- instance of, implements -- RelayServer
   ^-- implements -- ThreadPool <-+
                                  +-- implements both --  Shutdown
                     DbPool <-----+
TokenBucket <-- implements -- RateLimit <-- implements -- Admission -- extends --> Router
                     Stream          Gateway           Driver
```

`XProofs` modules extend X and hold its theorems, those of DbPool in `ShutdownProofs`
and those of RateLimit in `AdmissionProofs`, next to the compositions that inherit
them; `MCX` modules extend X with what TLC alone needs (symmetry, bounds on the environment, tables). The others
are run directly. Definitions marked *Mutant* are wrong variants of the
definition after them; they are used to see that the properties notice, and
occur in no specification.

**Reactor** is the framework with any application. One element of `Conns` is one
lifetime of a connection; `fdOf` gives its descriptor, and a descriptor is free
when nobody holds the connection (`Held`, `FreeFd`). A control point per thread
(`main`, `io[l]`, `sender[t]`) says where it is between two steps that other
threads can see: the constructor of `Connection` (which puts the channel on
another thread's epoll), the wiring, the insertions in the two maps, the
callback; the batch of `epoll_wait`, the messages of one `onmessage`, the close
in the application and in the server, the read of the eventfd, the drain under
the mutex, the sweep of the timer descriptor by descriptor, with the erasure from the
server's map and the one from the loop's as two steps, as they are under two mutexes;
the test of
`disconnect_`, the push and the write of the eventfd in `send`. Undefined
behaviour and exits end the process (`proc`): use of a destroyed object, the
unlocked walk through `conns_`, an unwired callback, `EPOLL_CTL_MOD` of a
channel that was deleted, SIGPIPE. Frames are counted, not spelt.

**Mailbox** is what `queueinloop` promises: a FIFO box per loop.

**Stream** looks inside one connection, where Reactor counts frames: the bytes the
peer sends, cut by the reads anywhere; `inputbuffer_` as what was read and not
picked (`got`, `start`); `pickmessage`, the workers of EchoServer, `sendinloop`,
`outputbuffer_`, the room in the kernel's buffer. `listed` is epoll's ready list
under EPOLLET: arrival of bytes, the end of the stream, room after a partial write
and `epoll_ctl` put the channel on it, `epoll_wait` takes it off. `handleevent`
tests the events the channel waits for and not those that happened, so
`HandleEvent` always leads to a read and a writable channel is never written.
Bytes are read in pieces of `Chunk`, the array of `onmessage`.

**ThreadPool** has the worker's loop with every point where it holds, lacks or
waits for the mutex. The predicate of the wait and the wait itself are two steps
(`Decide`, `Block`), because `stop()` sets `stop_` and notifies without the mutex.
A task may run for ever.

**DbPool** has the handles, who has which, and the order of `main()` and
`Stop()`. The SQL is left out. A query leaves in one of four ways, each with its own
`releaseConnection` (`GiveBack`): it has written or failed to (`Written`), its SELECT
fails (`SelectFails`), there is no result set (`NoResult`), or the rows have been read
(`RowsRead`). `Disconnect` waits for nobody: that the workers are joined before it is
Shutdown's to say.

**Shutdown** is the relay from `main()` to its end: ThreadPool's workers take the
calls that `HandleMessage` queues and run them with DbPool's queries. Its actions
conjoin one action of each, or leave one alone. A signal may come in any thread, at any
step of it, and `handler` says where in `Stop(int)` each thread is: in the stop of the
workers, in the server's `stop()`, joining the IO threads, in `delete relay`, in
`disconnect()` and `exit()`. The thread does nothing else until then. The IO threads
are a second instance of ThreadPool, with one thread whose only task is
`EventLoop::run`. `held` says that the signal found `main()` inserting a connection in
a map, with the map's mutex, which it keeps for ever: nothing says then that other
threads get on. A second signal runs the handler again, in the same thread or
another: it finds `stop_` set and goes past the joins (`SignalAgain`), or joins the same
threads (`StopsTwice`), or gets to the `delete` while they are still joinable
(`DeleteUnjoined`), or comes while the relay is being deleted (`SignalLate`). A thread
that joins itself and a signal before the relay exists end the process too (`JoinSelf`,
`SignalEarly`). `main()` may return once its loop was told to stop, and the destructor
of the database then runs beside everything else (`MainReturns`).

**RelayServer** instantiates Reactor with the workers as its application
threads, the queued calls as its payloads and the `shared_ptr`s the relay really
keeps as the application's references. Its actions conjoin an action of Reactor
with what the relay does in that callback. `mutex_` is held from `LockCast` to
`Unlock`, over all the sends of a broadcast. Frames are "request" (answered to
the sender: ping, query_history) or "report" (forwarded).

**Gateway** has the stages of a `TcpClient` from creation to destruction, the
table, the workers inside `OnMessage` and the IO thread inside a batch. One
request and its `TcpClient` have the same name. Filters, parser and router are
one choice (`Reject` or `Insert`); Admission says how it is made. The table's key,
a descriptor, is identified with the connection: the callbacks in the entry hold
the connection, so while an entry exists its descriptor is not reused. A reply comes in
chunks, each up to a separator; a worker that replaces the `TcpClient` or the close of
the client may come between any two of the IO thread's steps. A callback that has begun
goes on then, since it was given `shared_from_this()` or its own copy of the client's
pointer (`OnUpstreamMessage`, `OnUpstreamError`), but what comes after it in
`onmessage` or `handlewrite` touches a destroyed object (`TouchesDestroyed`). `connect`
may end at once, and then the worker runs `handlewrite`; and between its
`EPOLL_CTL_ADD` and `setinepoll`, or before the callbacks of the new `Connection` are
set, the IO thread may have the channel's event already (`EventTooEarly`). The queue
behind `send()` is left out, since a worker's answer is lost exactly when
`disconnect_` is set at the send, or in the way Reactor describes.

**RateLimit** has `doFilter` as one step (it runs under one mutex). Time is in
ticks, the rate is the fraction `Rate / Per`, an int has the range of `IntMax`;
the cast of a double out of range gives the smallest int, as x86-64 does, and an
addition wraps. `ideal` is a history variable: the bucket of **TokenBucket**
that sees the same clock and the same answers.

**Router** has `route` and `get_next_node` as one step, since both run under their
mutexes. `Before` is the order of `std::map`, `Chosen` the first prefix that fits
when the map is read backwards; the code never compares lengths. `spread` is a
history variable that counts the requests of each node. The round-robin index
is a number of limited width (`IndexSize`) that wraps. Pools have any size: where it does
not divide the range of the index, a wrap cuts a round short, which `cut` counts, up to
`MaxCuts` times, after which the history rests. **Admission** is what a worker of the gateway does with a
request first: the filter, then, if it passes, the router.

**Driver** is the driver's program: `DataSimulator` with its socket, the table
`offline_logs` of `OrderDatabase`, and the answers of `LLMService` under way. It
runs in one thread, so each handler is one step, but for `onConnected`, which reads
and deletes the table (`OnConnected`) and then writes to the socket (`ResendLogs`): the
program may be killed in between. The hard part is that
connection, simulation, answers and the program itself come and go in any order.
Reports are numbered as they are made. `outbox` is what the socket has not handed
to the kernel and is lost with the connection, `cache` is on disk and outlives
everything; `resend` is what `onConnected` has read and not written. An INSERT may fail,
a DELETE may fail once, a SELECT too, a process may run without its database; nobody
looks. A live report may be lost with the connection, so no
property promises its arrival.

## 3. The runs

| run | instance | what it shows |
|---|---|---|
| `reactor_safe` | two lifetimes on one descriptor, one loop, one sender, one unread frame, two queued tasks | types; no wake-up lost; both maps agree and nobody is evicted by mistake; callbacks in order |
| `reactor_fair` | one lifetime, two senders | the queue implements `Mailbox` with its fairness; a closed connection leaves both maps for good |
| `reactor_exit` | one lifetime, one sender | violation, see section 6 |
| `stream` | nine bytes, each CR or LF, in every portion; reads of three, answers of two, room for three | every message is handed on, once and whole, without the need of another byte, though the channel is edge-triggered |
| `stream_stuck` | one message, an answer of four bytes, room for three | violation, see section 6 |
| `shutdown` | two workers, an IO thread, two calls, one query each, one MySQL handle, up to two signals in any threads | tasks in order, none beside a sleeping worker; handles neither lost nor shared, none idle beside a waiter, none left open after one signal; calls end although they compete for MySQL; a stop in the main thread ends the process but for four named reasons |
| `pool_hang` | one worker, one call | violation, see section 6 |
| `relay_cast` | two connections, one sends a report, two descriptors, one worker | the broadcast skips the sender only; an entry is erased by its own close; the relay implements Reactor |
| `relay_fair` | the same peers, one sends requests and reports, and connects and closes first; no idle timer | a broadcast always ends; a registered connection whose peer closes is forgotten |
| `gateway` | one connection, two pipelined requests, two workers, replies of up to two chunks | a request is answered by the gateway, once, or by its backend, each chunk once; no callback of a replaced `TcpClient` starts; their number is bounded; a request is answered but for five named reasons |
| `admission` | capacity 3, 2/3 token per tick, ints up to 7; routes `/` (two nodes), `/a` (none), `/b` (one), `/bb` (three), an index of two bits | never more than the ideal bucket; keeps passing while no refill overflows; the longest prefix wins; nodes are used evenly, but for rounds a wrap cuts short |
| `driver` | three reports, any number of connections, stops and restarts | cached reports leave the program's hands only into a connection, or with a kill in the handler that has read them, go out in order with the live ones, and do not stay while connections are made |

Bounds, and why they are enough. `MaxFrames`, `MaxTasks`, `MaxJobs`, `MaxReq`
and `MaxCalls` cap queues and calls, `MaxChunks` the pieces of a reply, `MaxSignals` the
signals. One queued task next to one being run, and
one frame read while another arrives, make every pair of steps meet; in
`relay_cast` and `relay_fair` `MaxTasks` is 4, the number of sends the instance
can make, so that no send waits for room that the code would not wait for. Two
lifetimes and one descriptor are the least that reuse one; two connections and
two descriptors the least that can be confused by a broadcast. One sub-loop is
enough for what concerns one connection, since a connection lives on one loop and
loops share only the server's map; the theorems cover any number. `MCRelayServer`
restricts the environment where the state space demands it: `accept4` gives the
lowest free descriptor, as Linux does, and only `Talkers` send. The idle timer
fires only when it finds something (its other firings change nothing else); in
`relay_cast` it finds only closed connections, and in `relay_fair`, where the
talker connects and closes before the others do, there is no timer. The program's
threads have all their steps in every instance.

Nine bytes hold two separators with a byte between them and every near miss (CR LF
CR CR LF ..., a separator that begins in the last bytes of another message), and a
chunk of three cuts a separator of four at every place. A byte that is neither CR
nor LF only ends a near miss, as a wrong one of the two does. Answers of two
bytes fill a room of three with bytes left over. Two workers and one handle are the
least where one queries while the other waits; of two calls one can be queued while the
other runs. A second signal is the least that meets a handler under way; what a third
could add, the second does. `MaxGap` in `admission` is long enough for the overflow (`GapAssumption`),
so longer gaps are like it; an index of two bits wraps within the run, inside a round of
three nodes, and two such wraps are the least that could add up (`MaxCuts`). One
connection is enough in `gateway` because its requests meet other connections'
only in the batch; two requests are the least where one replaces another, two
workers the least where they do so from both sides, two chunks the least where a
replacement comes between them. Three reports are the least
where one is cached, one sent live and one under way.

All runs check deadlock: `Halted`, `Over`, `Ended`, `Finished` or `AllServed` steps mark
the states in which nothing is left to do, and any other state without a step is
an error; the driver's program may begin again in any state.

Fairness. Threads that can run do (weak fairness of each thread's steps, never
of a peer's or of a call nobody has to make). In RelayServer the waiters of
`mutex_` have strong fairness: a pthread mutex that is free again and again is
obtained at last. Reactor assumes that the timer, which `handletimer` re-arms,
fires again, and that a connection that is closed, and so gets no message,
becomes idle. Stream assumes that the peer reads what it is sent, never that it
sends. Shutdown assumes that MySQL answers, that main starts the relay, that workers
and IO thread run unless the signal found `main()` with a map's mutex (`held`), and that
a thread that got a signal runs the handler to its end; that a signal comes is
not assumed, nor that a spurious wake-up does. ThreadPool by itself does not even
assume that tasks return. Gateway assumes that the kernel ends each connect and
that each backend replies or closes, Admission that time passes and requests
come, at whatever distance. Driver assumes nothing: its liveness property is about
behaviours in which connections are made again and again, which takes the user
(section 6).

## 4. The theorems

All are about arbitrary constants under the modules' ASSUMEs, which say that
names differ, that bounds are numbers and that there is a sub-loop. `IInv` (or
`DbInv`) is a module's inductive invariant; `Init => IInv` and
`IInv /\ [Next]_vars => IInv'` are proved with one step per action.

*Reactor* (`ReactorProofs`): types, no lost wake-up, exclusive descriptors, safe
eviction, order of the callbacks, and that every step is a step of `Mailbox` or
a stutter. `FdExclusive` is not inductive: to know that a step of a loop
concerns the connection it thinks it does, one needs that what a batch or a
callback has in hand belongs to that loop and is on its tree (`OwnerInv`), that
what exists has a descriptor (`FdInv`), and that a thread has a connection in
hand exactly in the steps that need one (`HandsInv`). `CallbackOrder` and
`EvictsOnlyFinished` are about steps and follow from the same invariant.
`MapsAgree` is a property of connections whose set-up is over; `SetUpInv` says what the
two maps hold of the one that is being set up: nothing, then an entry in the
server's map, then one in both, unless it has closed meanwhile, in which case
nothing is claimed. The proof needs besides that a close takes out of the server's
map only its own, closed connection, and that the timer takes an open one out of the
server's map and then out of the loop's (`EntriesKept`). In between it is in the loop's
alone, and `MapsAgree` says so (`HalfErased`). `SweepInv` adds that the connection the
timer is erasing stays idle and in the loop's map, which keeps its descriptor, so that the
second erasure hits the entry that the first one meant.

*Stream* (`StreamProofs`): types, `MessagesWhole` and `NothingMissed`, for every
chunk, answer and room, every alphabet and any number of bytes. `MessagesWhole` is inductive
with the types: a byte that arrives changes no separator among the earlier ones
(`ArrivedStay`). `NothingMissed` says what holds when the thread goes back to wait;
the invariant adds that between the last read and the last pick what arrived since
is on the ready list.

*ThreadPool* (`ThreadPoolProofs`): types, FIFO, and `NoIdleHands`, which is
inductive together with `BlocksOnEmpty`: a worker in the gap between predicate
and wait has seen an empty queue, and holds the mutex. The proof counts workers
and calls, with the library's facts on cardinalities.

*DbPool* (`ShutdownProofs`): types and `HandlesKept`, for any number of workers and
handles, and `NoIdleHandle`. `StageInv` adds that a caller of `getConnection()` saw
`m_isConnected`, and that only `disconnect()` closes handles. `NoIdleHandle` counts
free handles against callers on their way to one.

*Shutdown* (`ShutdownProofs`): the relay, signals and all, implements ThreadPool and
DbPool: each of its steps is a step of each of them or a stutter. Their properties
follow for the relay (`RelayKeepsHandles` and the rest): no worker and no signal can
break what the two promise, although the calls of one run inside the other. `AllClosed`
is Shutdown's own, and of one signal: `RelayInv` says that then one handler is under way,
that the loops are told to stop after the workers were joined, so that neither it nor
`main()`, which returns when its loop stops, reaches `disconnect()` before, and that a
joined worker has no query and no handle.

*RateLimit* (`AdmissionProofs`): types and `NeverOverPasses`, for every capacity,
rate and width of int. The invariant compares what the filter can still give
(`Worth`: its tokens and the time not yet turned into tokens) with the ideal
bucket. The ideal bucket is larger than `capacity_` by less than one token:
the fraction of a token that a full bucket has in `last_time_` is kept and not
cut off with the tokens. Overflow only makes the filter stricter.

*Admission* (`AdmissionProofs`): `LongestPrefix` for every table of routes, from the
lemma that of two prefixes of one path the shorter comes first in the order of the map
(`ShorterIsBefore`); `Balanced` for pools of every size and every width of the
index. The invariant (`SpreadInv`) counts: in a round the first nodes have one request more
than the rest (`CountStep`), and each round that a wrap cut short has left one more with the
first `IndexSize % size` of them (`CutStep`). And the composition implements RateLimit,
whose `NeverOverPasses` it inherits.

*Driver* (`DriverProofs`): types, `CacheKept` and `SentInOrder` for any number of
reports. What was sent may not be judged alone: the invariant is about the `Line`, what
the kernel took, then what waits in the socket, then what is in the table, which ascends
as a whole and below the number of the next report (what `onConnected` has read stands
between socket and table), while a connected program has an empty table. A lost
connection takes the middle out of the line (`MiddleLost`), a new report goes to its end (`NewestLast`), and every other step leaves it as it is
(`WriteExtends` for the writes, however much of them the kernel takes at once). A failed
DELETE and a connection that did not read the table end the order, and nothing is
claimed from then on.

*RelayServer* (`RelayProofs`): the relay is an application of the framework as Reactor
allows it (`RunsOnReactor`): each of its steps is a step of the framework or a stutter,
for any number of peers, descriptors, loops and workers. Reactor leaves an application
free in what it keeps references to, so three lemmas say what the relay's three
callbacks do with theirs: a new connection adds itself at most
(`NewConnectionKeepsOne`), a close adds nothing (`CloseKeepsNone`) and a message adds its
sender at most (`MessageKeepsSender`). So what the framework asks of the step never stops
a callback of the relay. The relay's
share of the framework's theorems follows (`RelayMapsCoherent`, `RelayWakesLoops`).
The invariant `RelayInv` joins the relay's types, the framework's `IInv` and
`EntriesInv`, and the three must be proved together: that a callback gives the relay
a connection, and not nothing, is the framework's `HandsInv`, and that the relay keeps
references only to connections is a premise of the framework's. `EntriesInv` says that
an entry of `all_connections_` lies under its connection's descriptor, that one thread
at a time is in a broadcast, and that the entries it has still to come to stay, since
`mutex_` is held. With it `OnlySenderSkipped` is about identity: an entry and a queued
call both hold their connection, so two of the same descriptor are the same connection
(`FdExclusive`). `OnlyOwnEntryLeaves` follows in the same way for the erasure, and for
the insertion because whoever gets a descriptor finds no entry under it.

*Gateway* (`GatewayProofs`): types, `AnsweredByOne`, `ClientsBounded` and
`ReplacedFallsSilent`, for any number of connections, requests, chunks and workers. That
a request is answered from one side is a matter of where it is: not yet picked, queued
once, or with one worker (`OncePerRequest`), after which only its `TcpClient` can answer.
`StageInv` ties the stages of the client to the answers: the gateway has answered only
where no `Connection` to the backend was made, and the backend only where one was.
`ChunksInv` counts chunks: what was passed on, what the IO thread has read and what lies
unread are no more than the backend sent. `TableInv` says who keeps a client alive: its
entry or the worker that made it. So no connection has two without a worker, and a client
that is in nobody's hands is gone, which is why no callback of it begins. `ClientsInTotal`
adds the connections up: as many `TcpClient`s as connections and workers is the most
there ever are, a bound no run states.

Only model-checked: liveness (`ImplementsMailbox` beyond its safety part,
`ClosedReaped`, `MessagesServed`, `JobsEnd`, `StopEnds`, `BroadcastEnds`,
`ForgottenIfSeenOpen`, `AnsweredUnless`, `KeepsPassing`, `CacheDrained`), since liveness
under fairness and ENABLED are out of the prover's reach. Every invariant and every
action property of the passing runs is a theorem.

## 5. What is not modelled

Framings 0 and 1 of Buffer, which no `Connection` uses. JSON, HTTP and SQL: of a
message its kind is kept, of a parse or a query its outcome. The locks
of stdio and of the heap, which a signal handler may find held by the thread it interrupts,
and what the destructors that `exit()` runs do beside threads that still work. `send()` from the
loop's own thread in Reactor (the servers send from workers; Gateway, whose
callbacks do send from the loop, has it). Error callbacks, which no event reaches,
and the callback of an epoll timeout, which every application leaves empty. A
`sendinloop` that runs after the close of its connection is in Reactor and not in
Stream. `Stop()` of the gateway, which is the relay's without a database, and a second
loop there. `AuthFilter`, which has no state and is not installed. A relay with no
worker pool, which its main() never makes. Of EchoServer, the handlers that only
print. Of OrderDatabase, the orders table; the driver's pages
and OrderModel, which show tables. The manager's program: one thread, one buffer
it empties line by line, and a list on the screen. The programs that test and load
the servers. `PROJECT.json` gives the reason for each component.

## 6. Where code and comments differ

Shown by a run:

* `reactor_exit`: a send queued while the connection is open and executed after
  it closed ends the server in `Epoll::updatechannel` (`Connection.cpp:118`).
* `stream_stuck`: what a partial `::send` leaves in `outputbuffer_` is never sent
  until the next send, since `handleevent` decides by the events it waits for and not
  by those that happened (`Channel.cpp:82`).
* `pool_hang`: `stop()` may wait for ever (`ThreadPool.cpp:55`).

Modelled and reached, with no run of their own:

* the channel is armed before callbacks are set (`TcpServer.cpp:49`), and
  `handletimer` walks `conns_` without the mutex that protects it
  (`EventLoop.cpp:137`);
* `stop()` drops queued tasks (`ThreadPool.cpp:13`; the comment at line 26 says
  they are executed first);
* a signal that a worker or an IO thread catches makes it join itself, and one
  that comes before the relay exists follows a null pointer (`relay_main.cpp:12`). In
  the main thread, a stop may wait for ever for the IO threads, which it tells to stop
  right before it stops their pool, so that they enter the gap of `pool_hang`
  (`TcpServer.cpp:42`), or for threads that wait for the mutex of a map which `main()`
  held when the signal came (`RelayServer.cpp:40`). A second signal may join the same
  threads again, delete the relay with threads not joined, or end the process while
  queries run and handles are open (`ThreadPool.cpp:54`, `relay_main.cpp:14`);
* an entry of `all_connections_` made after its connection closed stays
  (`RelayServer.cpp:41`), and one whose connection the idle timer removed stays
  until the peer closes (`TcpServer.cpp:13`; `README.md:32` promises the
  clean-up of dead connections);
* after a pause whose refill does not fit an int the bucket gets no token
  (`Filters.h:59`) and, as `last_time_` does not move, never again; just below
  that the sum at line 61 wraps and the tokens are negative, and later refills bring
  them back. At the rate the gateway installs, the first takes a pause of six hours.
  `NeverOverPasses` holds with both, `KeepsPassing` for pauses without them.
  (`INTERVIEW_GUIDE.md:31` asks how negative tokens are avoided and answers by the
  mutex, which is about concurrency);
* messages in `inputbuffer_` when the stream ends are dropped (`Connection.cpp:95`);
* the driver's program never connects by itself after a failed or lost connection
  (`DataSimulator.cpp:127`, `:134`), while `README.md:33` says that cached reports
  are sent again when the network is back; and a simulation started while the last
  connection still closes is never connected (`DataSimulator.cpp:73`);
* a connect to a backend that fails at once gets no 502 (`TcpClient.cpp:36`;
  `GatewayServer.cpp:190` says it should), a reply that comes together with the
  backend's close is lost, and a `TcpClient` may be destroyed while the IO thread is
  about to use it (`GatewayServer.cpp:70`, `:140`);
* a reply that holds the separator several times is passed on in as many sends
  (`Connection.cpp:82`, `GatewayServer.cpp:178`), and a request whose `TcpClient` was
  replaced may still get the one chunk or 502 whose callback was under way
  (`Connection.cpp:89`);
* the channel of a new `TcpClient` is on the tree before `inepoll_` says so: the IO
  thread may handle its event in between, add it again and end the gateway
  (`Epoll.cpp:31`, `TcpClient.cpp:43`);
* a kill between the DELETE of the cached reports and their writes loses them
  (`OrderDatabase.cpp:83`, `DataSimulator.cpp:116`).

Met while reading, and outside the models:

* the relay cuts messages at an empty line, CR LF CR LF (`Buffer.cpp:75`), while
  the Qt programs end theirs with one line feed (`DataSimulator.cpp:196`,
  `ManagerNetwork.cpp:68`) and wait for one (`ManagerNetwork.cpp:80`): as they
  stand the two do not understand each other;
* the gateway cuts a backend's reply after its header and forwards that; the body
  stays in the buffer (`Buffer.cpp:75`, `GatewayServer.cpp:176`);
* an answer of LLMService carries the order of the moment it arrives, not of the
  moment it was asked for (`DataSimulator.cpp:171`).

## 7. Plan

Every safety property the runs check is proved. What is left are theorems that go
beyond the runs: that the relay's callbacks come in the framework's order
(`CallbackOrder`, `EvictsOnlyFinished` and `Mailbox` through `RunsOnReactor`), what ties
`all_connections_` to the framework's own maps, and how many connections, descriptors
and queued calls the relay and the gateway can hold at a time. Runs are kept few: a new
question takes the place of one that a theorem has made superfluous, or joins a run on
the same instance.
