------------------------------ MODULE Shutdown ------------------------------
(***************************************************************************)
(* The relay from main() to its end: RelayServer::threadpool_ (ThreadPool) *)
(* runs the OnMessage calls that query the database (DbPool), the IO       *)
(* threads of TcpServer (another ThreadPool, of one thread here) run the   *)
(* sub-loops, and signals stop them.  The handler runs Stop() in the       *)
(* thread the kernel picks, which does nothing else any more; a second     *)
(* signal runs it again, in that thread or another.                        *)
(***************************************************************************)
EXTENDS ThreadPool, DbPool

CONSTANTS Io,         \* an IO thread; it calls addtask
          MaxSignals  \* bound: SIGINT and SIGTERM sent

ASSUME CallersAssumption == Callers = Workers
ASSUME ThreadsAssumption == Main # Io /\ {Main, Io} \cap Workers = {}
ASSUME SignalsAssumption == MaxSignals \in Nat

VARIABLES
  signals,    \* how many came
  handler,    \* where each thread is in Stop(int)
  held,       \* the signal found main() with the mutex of a map
  loopStop,   \* EventLoop::stop_ of the main loop and the sub-loops
  ioStop, ioWorker, ioStopper,  \* the pool of IO threads
  proc        \* "up", "aborted" by an exception, or "ub"

signalVars == <<signals, handler, held>>
ioVars == <<loopStop, ioStop, ioWorker, ioStopper>>
poolVars == <<queue, stop, worker, call, stopper>>
relayVars == <<poolVars, dbVars, signalVars, ioVars, proc>>

All == Workers \cup {Main, Io}
InHandler(place) == {t \in All : handler[t] = place}

\* TcpServer::threadpool_: its thread runs EventLoop::run from the start, and
\* nothing else is queued.
IO == INSTANCE ThreadPool WITH
        Workers <- {Io}, Tasks <- {"EventLoop::run"}, queue <- <<>>, stop <- ioStop,
        worker <- ioWorker, stopper <- ioStopper,
        call <- [t \in {"EventLoop::run"} |-> "done"]

RelayInit ==
    /\ Init /\ DbInit
    /\ signals = 0 /\ handler = [t \in All |-> "out"] /\ held = FALSE
    /\ loopStop = FALSE /\ ioStop = FALSE /\ ioStopper = "out"
    /\ ioWorker = [t \in {Io} |-> WorkerAt("run", "EventLoop::run")]
    /\ proc = "up"

Up == proc = "up" /\ stage # "exit"
Serving == stage \in {"serving", "stopping", "closing"}
Free(t) == Up /\ handler[t] = "out"

-----------------------------------------------------------------------------
\* main() makes the database, then the relay, whose main loop accepts.
Start ==
    /\ Free(Main)
    /\ OpenPool \/ StartServer \/ QueryStep(Main)
    /\ UNCHANGED <<poolVars, signalVars, ioVars, proc>>

\* The main loop has been stopped: main() returns, and the destructor of the
\* DatabaseHelper closes the handles, whoever still runs.
MainReturns ==
    /\ Free(Main) /\ loopStop
    /\ Disconnect
    /\ UNCHANGED <<poolVars, signalVars, ioVars, proc>>

ProcessEnds ==
    /\ Up /\ EndProcess
    /\ UNCHANGED <<poolVars, signalVars, ioVars, proc>>

-----------------------------------------------------------------------------
\* The threads of the relay

\* HandleMessage, in the sub-loop, queues an OnMessage.
HandleMessage(t) ==
    /\ Free(Io) /\ Serving /\ ioWorker[Io].at = "run"
    /\ AddStep(t)
    /\ UNCHANGED <<dbVars, signalVars, ioVars, proc>>

\* A worker takes a task, runs it with its queries, and comes back.
BeginJob(w) == Take(w) /\ StartJob(w)
Query(w) == worker[w].at = "run" /\ QueryStep(w) /\ UNCHANGED poolVars
EndJob(w) == Finish(w) /\ at[w] = "idle" /\ calls[w] = 0 /\ UNCHANGED dbVars
Loop(w) == (Test(w) \/ Leave(w) \/ Decide(w) \/ Block(w)) /\ UNCHANGED dbVars

WorkerStep(w) ==
    /\ Free(w) /\ Serving
    /\ BeginJob(w) \/ Query(w) \/ EndJob(w) \/ Loop(w)
    /\ UNCHANGED <<signalVars, ioVars, proc>>

Wakes(w) ==
    /\ Free(w)
    /\ \/ SpuriousWake(w) /\ UNCHANGED dbVars
       \/ SleeperWakes(w) /\ UNCHANGED poolVars
    /\ UNCHANGED <<signalVars, ioVars, proc>>

\* run() returns when stop_ is set, and the IO thread goes on as a worker of its
\* pool.  (After a second signal it may do so before the other workers have been
\* joined: there is nothing for it to take, and nobody joins it then.)
IoStep ==
    /\ Free(Io) /\ stopper = "done"
    /\ \/ IO!LoopStep(Io)
       \/ loopStop /\ IO!Finish(Io)
    /\ UNCHANGED <<poolVars, dbVars, signalVars, loopStop, proc>>

IoWakes ==
    /\ Free(Io) /\ IO!SpuriousWake(Io)
    /\ UNCHANGED <<poolVars, dbVars, signalVars, loopStop, proc>>

-----------------------------------------------------------------------------
\* Stop(int), the signal handler

\* There is no relay yet.
SignalEarly ==
    /\ Up /\ stage \in {"start", "tables"}
    /\ proc' = "aborted"
    /\ UNCHANGED <<poolVars, dbVars, signalVars, ioVars>>

\* The handler begins in a thread t that has not ended.  If that is main(),
\* it may be inserting a connection in a map, under its mutex.
Enter(t, place) ==
    /\ Up /\ signals < MaxSignals /\ InHandler("exit") = {}
    /\ t \in Workers => worker[t].at # "exited"
    /\ t = Io => ioWorker[Io].at # "exited"
    /\ signals' = signals + 1
    /\ handler' = [handler EXCEPT ![t] = place]
    /\ IF t = Main /\ handler[Main] = "out" THEN held' \in BOOLEAN ELSE held' = held
    /\ UNCHANGED <<ioVars, proc>>

\* Mutant: disconnect() first.
SignalDisconnects(t) ==
    /\ stage = "serving" /\ ~stop /\ Enter(t, "workers")
    /\ StopSet
    /\ stage' = "stopping" /\ closed' = closed \cup pool /\ pool' = {}
    /\ connected' = FALSE
    /\ UNCHANGED <<opened, at, hand, calls>>

\* The first: ThreadPool::stop sets stop_ of the workers' pool ...
Signal(t) == stage = "serving" /\ Enter(t, "workers") /\ StopSet /\ StopServer

\* ... and another finds it set and goes on to the server, ...
SignalAgain(t) ==
    /\ stage = "stopping" /\ stop /\ Enter(t, "server")
    /\ UNCHANGED <<poolVars, dbVars>>

\* (A signal that the process does not survive.)
LastSignal == Up /\ signals < MaxSignals /\ signals' = signals + 1 /\ proc' = "ub"

\* ... unless it came between the test of stop_ and its assignment: then both
\* join the same threads.  So do two handlers in the stop of the IO threads.
StopsTwice ==
    /\ \/ stopper = "notify" /\ LastSignal
       \/ Up /\ ioStopper = "notify" /\ InHandler("io") # {} /\ proc' = "ub" /\ signals' = signals
    /\ UNCHANGED <<poolVars, dbVars, handler, held, ioVars>>

\* The handler of t goes on.
Goes(t, from, to) ==
    /\ Up /\ stage = "stopping" /\ handler[t] = from
    /\ handler' = [handler EXCEPT ![t] = to]
    /\ UNCHANGED <<signals, held>>

StopsWorkers == Up /\ InHandler("workers") # {}

NotifyAll ==
    /\ StopsWorkers /\ StopNotify
    /\ UNCHANGED <<dbVars, signalVars, ioVars, proc>>

JoinWorker(w) ==
    /\ StopsWorkers /\ stopper = "join" /\ worker[w].at = "exited"
    /\ Join(w)
    /\ UNCHANGED <<poolVars, signalVars, ioVars, proc>>

\* A thread that joins itself throws std::system_error.
JoinSelf ==
    /\ Up
    /\ \/ stopper = "join" /\ \E w \in Workers : handler[w] = "workers"
       \/ ioStopper = "join" /\ handler[Io] = "join"
    /\ proc' = "aborted"
    /\ UNCHANGED <<poolVars, dbVars, signalVars, ioVars>>

Joined(t) ==
    /\ Goes(t, "workers", "server") /\ (\A w \in Workers : at[w] = "joined") /\ StopJoin
    /\ UNCHANGED <<dbVars, ioVars, proc>>

\* TcpServer::stop tells the loops to stop, ...
StopLoops(t) ==
    /\ Goes(t, "server", "io")
    /\ loopStop' = TRUE
    /\ UNCHANGED <<poolVars, dbVars, ioStop, ioWorker, ioStopper, proc>>

\* ... then stops the pool of IO threads, in the same way as the workers'.  (A
\* handler that gets here before the workers are joined does not end well:
\* whatever it waits for, after it comes a delete with std::threads not joined.)
StopIo(t) ==
    /\ stopper = "done"
    /\ \/ Goes(t, "io", "join") /\ IO!StopSet
       \/ Goes(t, "io", "delete") /\ ioStop /\ UNCHANGED ioVars
    /\ UNCHANGED <<poolVars, dbVars, loopStop, proc>>

NotifyIo ==
    /\ Up /\ InHandler("join") # {} /\ IO!StopNotify
    /\ UNCHANGED <<poolVars, dbVars, signalVars, loopStop, proc>>

JoinIo(t) ==
    /\ Goes(t, "join", "delete") /\ IO!StopJoin
    /\ UNCHANGED <<poolVars, dbVars, loopStop, proc>>

\* delete relay ...
Delete(t) ==
    /\ ioStopper = "done"
    /\ Goes(t, "delete", "exit")
    /\ UNCHANGED <<poolVars, dbVars, ioVars, proc>>

\* ... where a std::thread that was not joined ends the process.
DeleteUnjoined ==
    /\ Up
    /\ \/ InHandler("io") # {} /\ stopper # "done"
       \/ InHandler("delete") # {} /\ ioStopper # "done"
    /\ proc' = "aborted"
    /\ UNCHANGED <<poolVars, dbVars, signalVars, ioVars>>

\* A signal comes when the relay is deleted or exit() runs.
SignalLate ==
    /\ InHandler("exit") # {} \/ stage = "closing"
    /\ LastSignal
    /\ UNCHANGED <<poolVars, dbVars, handler, held, ioVars>>

Exit(t) ==
    /\ Up /\ handler[t] = "exit" /\ Disconnect
    /\ UNCHANGED <<poolVars, signalVars, ioVars, proc>>

Ended ==
    /\ stage = "exit" \/ proc # "up"
    /\ UNCHANGED relayVars

-----------------------------------------------------------------------------
HandlerStep(t) ==
    \/ Joined(t) \/ StopLoops(t) \/ StopIo(t) \/ JoinIo(t) \/ Delete(t) \/ Exit(t)
StopRelay ==
    NotifyAll \/ NotifyIo \/ \E w \in Workers : JoinWorker(w)
Dies ==
    \/ SignalEarly \/ StopsTwice \/ JoinSelf
    \/ DeleteUnjoined \/ SignalLate

RelayNext ==
    \/ Start \/ MainReturns \/ ProcessEnds \/ StopRelay \/ Dies \/ Ended
    \/ IoStep \/ IoWakes
    \/ \E t \in All : Signal(t) \/ SignalAgain(t) \/ HandlerStep(t)
    \/ \E t \in Tasks : HandleMessage(t)
    \/ \E w \in Workers : WorkerStep(w) \/ Wakes(w)

RelaySpec == RelayInit /\ [][RelayNext]_relayVars

\* Threads that can run do, MySQL answers, and the thread that got the signal
\* runs the handler to its end.  Threads that end their work may need a mutex
\* which main() holds: nothing says that they get on then.
RelayFairness ==
    /\ WF_relayVars(Start) /\ WF_relayVars(StopRelay) /\ WF_relayVars(ProcessEnds)
    /\ \A t \in All : WF_relayVars(HandlerStep(t))
    /\ \A w \in Workers : WF_relayVars(~held /\ WorkerStep(w))
    /\ WF_relayVars(~held /\ IoStep)
    /\ \A t \in Tasks : WF_relayVars(NotifyOne(t) /\ HandleMessage(t))

RelayFairSpec == RelaySpec /\ RelayFairness

-----------------------------------------------------------------------------
\* Properties

\* The workers use the database as DbPool has it, stop included: its theorems
\* hold of the relay.
UsesDbPool == DbSpec

\* When the process ends after one signal, disconnect() has left no connection
\* to MySQL open and no thread with a handle: the workers were joined first.
\* (A second signal ends it with main(), in the middle of the queries.)
AllClosed ==
    stage = "exit" /\ signals <= 1 =>
        closed = opened /\ \A t \in Threads : hand[t] = NoHandle

\* An OnMessage that is queued is taken and ends, although the workers compete
\* for MySQL handles, unless the relay is stopped first.
Pending(t) == (\E i \in DOMAIN queue : queue[i] = t) \/ \E w \in Workers : worker[w].task = t

JobsEnd == \A t \in Tasks : Pending(t) ~> stop \/ ~Pending(t)

\* A stop whose notify_all comes while the IO thread is between the predicate
\* of its wait and the wait itself.
IoMissesStop == ioStopper = "join" /\ ioWorker[Io].at \in {"blocking", "waiting"}

\* A signal in the main thread ends the process with exit(), whatever the
\* workers wait for, unless a worker (when stop() notifies) or the IO thread
\* (when the server's stop() does) is between the predicate of its wait and
\* the wait itself, main() holds the mutex of a map, or a second signal comes.
StopEnds ==
    stopper = "notify" /\ MutexFree /\ handler[Main] = "workers" /\ ~held ~>
        stage = "exit" \/ IoMissesStop \/ signals > 1
==============================================================================
