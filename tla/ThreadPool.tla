------------------------------ MODULE ThreadPool ------------------------------
(***************************************************************************)
(* ThreadPool: workers that wait on a condition variable for tasks, any    *)
(* number of threads that call addtask, and one that calls stop.  TcpServer *)
(* runs its sub-loops in one (tasks that do not return), RelayServer and   *)
(* GatewayServer their message handlers in another.                        *)
(*                                                                         *)
(* An element of Tasks stands for one call of addtask and for the function *)
(* it passes.                                                              *)
(***************************************************************************)
EXTENDS Integers, Sequences, FiniteSets

CONSTANTS Workers,  \* threads_
          Tasks,    \* the calls of addtask the run may see
          NoTask

ASSUME WorkersAssumption == IsFiniteSet(Workers)
ASSUME TasksAssumption == IsFiniteSet(Tasks) /\ NoTask \notin Tasks

VARIABLES
  queue,    \* taskqueue_
  stop,     \* stop_
  worker,   \* where each worker is, and the task it runs
  call,     \* where each call of addtask is
  stopper   \* where the thread that calls ThreadPool::stop is

vars == <<queue, stop, worker, call, stopper>>

-----------------------------------------------------------------------------
\* A worker is about to test stop_, about to lock mutex_, blocking with the
\* mutex still locked, on the condition variable, in a task, or gone.
Places == {"test", "lock", "blocking", "waiting", "run", "exited"}
WorkerAt(place, t) == [at |-> place, task |-> t]

In(places) == {w \in Workers : worker[w].at \in places}
Waiting == In({"waiting"})
Awake == In({"test", "lock"})
Notifying == {t \in Tasks : call[t] = "notify"}

\* mutex_ is held between two steps only by a worker about to block.
MutexFree == In({"blocking"}) = {}

TypeOK ==
    /\ queue \in Seq(Tasks)
    /\ stop \in BOOLEAN
    /\ worker \in [Workers -> [at : Places, task : Tasks \cup {NoTask}]]
    /\ call \in [Tasks -> {"out", "notify", "done"}]
    /\ stopper \in {"out", "notify", "join", "done"}

Init ==
    /\ queue = <<>>
    /\ stop = FALSE
    /\ worker = [w \in Workers |-> WorkerAt("test", NoTask)]
    /\ call = [t \in Tasks |-> "out"]
    /\ stopper = "out"

-----------------------------------------------------------------------------
\* addtask

\* Mutant: notify only when the queue was empty.
AddTaskOnceAwake(t) ==
    /\ call[t] = "out" /\ MutexFree
    /\ queue' = Append(queue, t)
    /\ call' = [call EXCEPT ![t] = IF queue = <<>> THEN "notify" ELSE "done"]
    /\ UNCHANGED <<stop, worker, stopper>>

\* The push, under mutex_; stop_ is not looked at.
AddTask(t) ==
    /\ call[t] = "out" /\ MutexFree
    /\ queue' = Append(queue, t)
    /\ call' = [call EXCEPT ![t] = "notify"]
    /\ UNCHANGED <<stop, worker, stopper>>

\* Mutant: notify_one is forgotten.
NotifyNobody(t) ==
    /\ call[t] = "notify"
    /\ call' = [call EXCEPT ![t] = "done"]
    /\ UNCHANGED <<queue, stop, worker, stopper>>

\* notify_one, after the mutex is released; nobody may be waiting.
NotifyOne(t) ==
    /\ call[t] = "notify"
    /\ call' = [call EXCEPT ![t] = "done"]
    /\ \/ Waiting = {} /\ UNCHANGED worker
       \/ \E w \in Waiting : worker' = [worker EXCEPT ![w].at = "lock"]
    /\ UNCHANGED <<queue, stop, stopper>>

-----------------------------------------------------------------------------
\* The worker's loop

\* while (stop_ == false)
Test(w) ==
    /\ worker[w].at = "test"
    /\ worker' = [worker EXCEPT ![w].at = IF stop THEN "exited" ELSE "lock"]
    /\ UNCHANGED <<queue, stop, call, stopper>>

\* Mutant: the test that leaves when there is nothing to take is missing.
TakeUnchecked(w) ==
    /\ worker[w].at = "lock" /\ MutexFree
    /\ stop \/ queue # <<>>
    /\ IF queue = <<>>
       THEN worker' = [worker EXCEPT ![w] = WorkerAt("run", "front of empty")]
                /\ UNCHANGED queue
       ELSE worker' = [worker EXCEPT ![w] = WorkerAt("run", Head(queue))]
                /\ queue' = Tail(queue)
    /\ UNCHANGED <<stop, call, stopper>>

\* Mutant: take the youngest task.
TakeLast(w) ==
    /\ worker[w].at = "lock" /\ MutexFree /\ queue # <<>>
    /\ worker' = [worker EXCEPT ![w] = WorkerAt("run", queue[Len(queue)])]
    /\ queue' = SubSeq(queue, 1, Len(queue) - 1)
    /\ UNCHANGED <<stop, call, stopper>>

\* The predicate of wait() holds because of a task, which is taken even when
\* stop_ has been set meanwhile.
Take(w) ==
    /\ worker[w].at = "lock" /\ MutexFree /\ queue # <<>>
    /\ worker' = [worker EXCEPT ![w] = WorkerAt("run", Head(queue))]
    /\ queue' = Tail(queue)
    /\ UNCHANGED <<stop, call, stopper>>

\* It holds because of stop_ alone: the worker returns.
Leave(w) ==
    /\ worker[w].at = "lock" /\ MutexFree /\ queue = <<>> /\ stop
    /\ worker' = [worker EXCEPT ![w].at = "exited"]
    /\ UNCHANGED <<queue, stop, call, stopper>>

\* It does not hold, ...
Decide(w) ==
    /\ worker[w].at = "lock" /\ MutexFree /\ queue = <<>> /\ ~stop
    /\ worker' = [worker EXCEPT ![w].at = "blocking"]
    /\ UNCHANGED <<queue, stop, call, stopper>>

\* ... so the worker blocks and unlocks mutex_; stop() does not take mutex_.
Block(w) ==
    /\ worker[w].at = "blocking"
    /\ worker' = [worker EXCEPT ![w].at = "waiting"]
    /\ UNCHANGED <<queue, stop, call, stopper>>

\* A condition variable may wake a thread for no reason.
SpuriousWake(w) ==
    /\ worker[w].at = "waiting"
    /\ worker' = [worker EXCEPT ![w].at = "lock"]
    /\ UNCHANGED <<queue, stop, call, stopper>>

\* task() returns; nothing says that it must (EventLoop::run does not).
Finish(w) ==
    /\ worker[w].at = "run"
    /\ worker' = [worker EXCEPT ![w] = WorkerAt("test", NoTask)]
    /\ UNCHANGED <<queue, stop, call, stopper>>

-----------------------------------------------------------------------------
\* stop (the destructor calls it again, which returns at once)

StopSet ==
    /\ stopper = "out" /\ ~stop
    /\ stop' = TRUE
    /\ stopper' = "notify"
    /\ UNCHANGED <<queue, worker, call>>

\* Mutant: wake one worker only.
StopNotifyOne ==
    /\ stopper = "notify"
    /\ \/ Waiting = {} /\ UNCHANGED worker
       \/ \E w \in Waiting : worker' = [worker EXCEPT ![w].at = "lock"]
    /\ stopper' = "join"
    /\ UNCHANGED <<queue, stop, call>>

StopNotify ==
    /\ stopper = "notify"
    /\ worker' = [w \in Workers |->
                    IF w \in Waiting THEN [worker[w] EXCEPT !.at = "lock"]
                    ELSE worker[w]]
    /\ stopper' = "join"
    /\ UNCHANGED <<queue, stop, call>>

StopJoin ==
    /\ stopper = "join" /\ In({"exited"}) = Workers
    /\ stopper' = "done"
    /\ UNCHANGED <<queue, stop, worker, call>>

\* Nothing is left to do.
Finished ==
    /\ stopper = "done" /\ \A t \in Tasks : call[t] = "done"
    /\ UNCHANGED vars

-----------------------------------------------------------------------------
AddStep(t) == AddTask(t) \/ NotifyOne(t)
LoopStep(w) == Test(w) \/ Take(w) \/ Leave(w) \/ Decide(w) \/ Block(w)
StopStep == StopSet \/ StopNotify \/ StopJoin

Next == \/ \E t \in Tasks : AddStep(t)
        \/ \E w \in Workers : LoopStep(w) \/ Finish(w) \/ SpuriousWake(w)
        \/ StopStep \/ Finished

Spec == Init /\ [][Next]_vars

\* Threads that can run do: what was begun goes on.  Nobody has to add a task
\* or to stop the pool, no task has to return, no wake-up is free.
Fairness == /\ \A w \in Workers : WF_vars(LoopStep(w))
            /\ \A t \in Tasks : WF_vars(NotifyOne(t))
            /\ WF_vars(StopNotify) /\ WF_vars(StopJoin)

FairSpec == Spec /\ Fairness

-----------------------------------------------------------------------------
\* Properties

\* No worker sleeps while there are more tasks than threads coming for them:
\* the notify_one of each addtask, sent after the mutex is released and
\* received by anybody or nobody, never leaves a task behind a sleeping worker.
NoIdleHands ==
    ~stop /\ Waiting # {} =>
        Len(queue) <= Cardinality(Notifying) + Cardinality(Awake)

\* A worker that blocks does so on an empty queue (the wait and its predicate).
BlocksOnEmpty == ~MutexFree => queue = <<>>

IInv == TypeOK /\ BlocksOnEmpty /\ NoIdleHands

\* The queue is a FIFO mailbox: every task starts at most once, in the order of
\* the calls.  A stop loses tasks but never duplicates or reorders them.
Mail == INSTANCE Mailbox WITH Boxes <- {"pool"}, Items <- Tasks,
                              mail <- [b \in {"pool"} |-> queue], up <- TRUE
FifoQueue == Mail!Safe

\* ThreadPool.h:22, "set stop_ to true and all the threads will leave": the
\* workers that are not in a task do.
StopEndsAll ==
    stop ~> \A w \in Workers : worker[w].at \in {"run", "exited"}
==============================================================================
