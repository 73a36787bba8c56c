----------------------------- MODULE RelayServer -----------------------------
(***************************************************************************)
(* RelayServer on top of the framework: a frame that an IO thread picks is *)
(* queued for the worker pool; a worker answers a request to its sender or *)
(* forwards a report to every other entry of all_connections_.             *)
(*                                                                         *)
(* The framework is Reactor, instantiated: workers are its Senders and its *)
(* appRefs are the shared_ptrs the relay really keeps.  The pool's queue is *)
(* the FIFO mailbox ThreadPool implements.                                 *)
(***************************************************************************)
EXTENDS Integers, Sequences, FiniteSets

CONSTANTS Conns, Fds, threadnum, NoConn, NoFd, MaxFrames, MaxTasks,
          Workers,  \* threads of threadpool_
          Kinds,    \* kinds of frames the peers send
          NoJob,
          MaxJobs   \* bound: frames queued for the workers

ASSUME JobsAssumption == MaxJobs \in Nat

\* What OnMessage tells apart: ping and query_history are answered, everything
\* else is forwarded.
ASSUME KindsAssumption == Kinds \subseteq {"request", "report"}
Jobs == [from : Conns, kind : Kinds]
ASSUME NoJobAssumption == NoJob \notin Jobs

\* The framework's
ASSUME FrameworkAssumption ==
    /\ threadnum \in Nat \ {0} /\ Fds \subseteq Nat /\ NoFd \notin Fds
    /\ NoConn \notin Conns /\ {"wake", "timer"} \cap (Conns \cup {NoConn}) = {}
    /\ MaxFrames \in Nat /\ MaxTasks \in Nat

VARIABLES
  proc, main, fdOf, tree, inepoll, disconnect, serverConns, loopConns,
  inq, fin, edge, idle, eventfd, timer, tasks, batch, io, sender,
  allConns,  \* all_connections_
  jobs,      \* OnMessage calls queued in threadpool_
  worker     \* where each worker is in OnMessage

frameworkVars == <<proc, main, fdOf, tree, inepoll, disconnect, serverConns,
                   loopConns, inq, fin, edge, idle, eventfd, timer, tasks,
                   batch, io, sender>>
relayVars == <<allConns, jobs, worker>>
vars == <<frameworkVars, relayVars>>

-----------------------------------------------------------------------------
WorkerAt(step, j, fds) == [at |-> step, job |-> j, left |-> fds]
Resting == WorkerAt("rest", NoJob, {})
Steps == {"rest", "reply", "lock", "cast", "done"}

\* The shared_ptrs in all_connections_, bound in queued calls and held by the
\* calls that run.
Members == {allConns[f] : f \in Fds} \ {NoConn}
Refs == Members \cup {jobs[i].from : i \in DOMAIN jobs}
                \cup {worker[w].job.from : w \in {v \in Workers : worker[v].job # NoJob}}

R == INSTANCE Reactor WITH Senders <- Workers, Payloads <- Jobs, appRefs <- Refs

\* RelayServer::mutex_ is held during the whole broadcast.
MutexFree == \A w \in Workers : worker[w].at # "cast"

\* Types, and what a worker has in hand in each step of OnMessage.
TypeOK ==
    /\ R!TypeOK
    /\ allConns \in [Fds -> Conns \cup {NoConn}]
    /\ jobs \in Seq(Jobs)
    /\ worker \in [Workers -> [at : Steps, job : Jobs \cup {NoJob}, left : SUBSET Fds]]
    /\ \A w \in Workers :
         /\ worker[w].at = "rest" <=> worker[w].job = NoJob
         /\ worker[w].left # {} => worker[w].at = "cast"
         /\ sender[w] # R!Idling => worker[w].at \in {"cast", "done"}

Init ==
    /\ allConns = [f \in Fds |-> NoConn]
    /\ jobs = <<>>
    /\ worker = [w \in Workers |-> Resting]
    /\ R!Init

-----------------------------------------------------------------------------
\* Callbacks from the framework

\* HandleNewConnection, in the main thread.
HandleNewConnection ==
    /\ main.at = "inLoop" /\ MutexFree
    /\ allConns' = [allConns EXCEPT ![fdOf[main.conn]] = main.conn]
    /\ UNCHANGED <<jobs, worker>>
    /\ R!NewConnCb

\* Mutant: the entry stays.
HandleCloseKeepsEntry(l) ==
    /\ io[l].at = "closeApp" /\ MutexFree
    /\ UNCHANGED relayVars
    /\ R!CloseApp(l)

\* HandleClose, in the IO thread.
HandleClose(l) ==
    /\ io[l].at = "closeApp" /\ MutexFree
    /\ allConns' = [allConns EXCEPT ![fdOf[io[l].conn]] = NoConn]
    /\ UNCHANGED <<jobs, worker>>
    /\ R!CloseApp(l)

\* HandleMessage, in the IO thread: addtask of OnMessage.
HandleMessage(l) ==
    /\ io[l].at = "deliver" /\ Len(jobs) < MaxJobs
    /\ \E k \in Kinds : jobs' = Append(jobs, [from |-> io[l].conn, kind |-> k])
    /\ UNCHANGED <<allConns, worker>>
    /\ R!Deliver(l)

-----------------------------------------------------------------------------
\* OnMessage, in a worker

TakeJob(w) ==
    /\ R!Up
    /\ worker[w].at = "rest" /\ jobs # <<>>
    /\ worker' = [worker EXCEPT ![w] =
         WorkerAt(IF Head(jobs).kind = "request" THEN "reply" ELSE "lock",
                  Head(jobs), {})]
    /\ jobs' = Tail(jobs)
    /\ UNCHANGED <<frameworkVars, allConns>>

\* conn->send(): nothing if disconnect_ is set, else on to queueinloop.
Send(w, c) ==
    \/ R!AppSend(w, c)
    \/ R!Up /\ c \in disconnect /\ UNCHANGED frameworkVars

\* pong, or the history.
Reply(w) ==
    /\ worker[w].at = "reply"
    /\ worker' = [worker EXCEPT ![w].at = "done"]
    /\ UNCHANGED <<allConns, jobs>>
    /\ Send(w, worker[w].job.from)

\* The broadcast locks mutex_; it will skip the entries with the sender's fd.
LockCast(w) ==
    /\ R!Up
    /\ worker[w].at = "lock" /\ MutexFree
    /\ worker' = [worker EXCEPT ![w].at = "cast",
                                ![w].left = {f \in Fds : /\ allConns[f] # NoConn
                                               /\ fdOf[allConns[f]] # fdOf[worker[w].job.from]}]
    /\ UNCHANGED <<frameworkVars, allConns, jobs>>

\* target_conn->send(), in the order of the map.
CastNext(w) ==
    /\ worker[w].at = "cast" /\ sender[w] = R!Idling
    /\ \E f \in worker[w].left :
         /\ \A g \in worker[w].left : f <= g
         /\ worker' = [worker EXCEPT ![w].left = @ \ {f}]
         /\ UNCHANGED <<allConns, jobs>>
         /\ Send(w, allConns[f])

\* Mutant: write to the socket from the worker.
SendPushDirect(w) ==
    /\ UNCHANGED relayVars
    /\ R!Up /\ sender[w].at = "push"
    /\ sender' = [sender EXCEPT ![w] = R!Idling]
    /\ UNCHANGED <<main, fdOf, tree, inepoll, disconnect, serverConns, loopConns,
                   inq, fin, edge, idle, eventfd, timer, tasks, batch, io>>

\* queueinloop for the message in hand: the push, then the wake-up.
SendPush(w) == UNCHANGED relayVars /\ R!AppPush(w, worker[w].job)
SendWake(w) == UNCHANGED relayVars /\ R!AppWake(w)

\* Mutant: leave the loop at the first entry.
UnlockEarly(w) ==
    /\ R!Up
    /\ worker[w].at = "cast" /\ sender[w] = R!Idling
    /\ worker' = [worker EXCEPT ![w].at = "done"]
    /\ UNCHANGED <<frameworkVars, allConns, jobs>>

\* The lock_guard goes, ...
Unlock(w) ==
    /\ R!Up
    /\ worker[w].at = "cast" /\ worker[w].left = {} /\ sender[w] = R!Idling
    /\ worker' = [worker EXCEPT ![w].at = "done"]
    /\ UNCHANGED <<frameworkVars, allConns, jobs>>

\* ... then the call's own reference to the connection.
EndJob(w) ==
    /\ R!Up
    /\ worker[w].at = "done" /\ sender[w] = R!Idling
    /\ worker' = [worker EXCEPT ![w] = Resting]
    /\ UNCHANGED <<frameworkVars, allConns, jobs>>

-----------------------------------------------------------------------------
\* Steps of the framework that call nothing of the relay

PeerStep == UNCHANGED relayVars /\ R!PeerStep
ClockStep == UNCHANGED relayVars /\ R!ClockStep
AcceptStep == /\ UNCHANGED relayVars
              /\ R!AcceptFail \/ \E c \in Conns, f \in Fds : R!Accept(c, f)
SetUp == /\ UNCHANGED relayVars
         /\ R!Wire \/ R!InsertServer \/ R!InsertLoop \/ R!InsertLoopRace

\* Mutant: HandleSendComplete locks mutex_, under the loop's own mutex.
LoopStepLocks(l) ==
    /\ UNCHANGED relayVars
    /\ \/ R!EpollWait(l)
       \/ \E c \in Conns : \/ R!DispatchDead(l, c) \/ R!DispatchUnwired(l, c)
                           \/ R!DispatchRead(l, c) \/ R!DispatchClose(l, c)
       \/ R!DeliverDead(l) \/ R!CloseServer(l)
       \/ R!WakeRead(l) \/ R!DrainStart(l) \/ (MutexFree /\ R!WakeTask(l)) \/ R!WakeTaskFails(l)
       \/ R!DrainEnd(l)
       \/ R!HandleTimer(l) \/ (\E f \in Fds : R!TimerVisit(l, f)) \/ R!TimerErase(l)
       \/ R!TimerEnd(l)

LoopStep(l) ==
    /\ UNCHANGED relayVars
    /\ \/ R!EpollWait(l)
       \/ \E c \in Conns : \/ R!DispatchDead(l, c) \/ R!DispatchUnwired(l, c)
                           \/ R!DispatchRead(l, c) \/ R!DispatchClose(l, c)
       \/ R!DeliverDead(l) \/ R!CloseServer(l)
       \/ R!WakeRead(l) \/ R!DrainStart(l) \/ R!WakeTask(l) \/ R!WakeTaskFails(l)
       \/ R!DrainEnd(l)
       \/ R!HandleTimer(l) \/ (\E f \in Fds : R!TimerVisit(l, f)) \/ R!TimerErase(l)
       \/ R!TimerEnd(l)
Halted == proc # "up" /\ UNCHANGED vars

\* Every lifetime is over and every thread rests.
AllServed ==
    /\ proc = "up" /\ Conns \subseteq disconnect /\ main.at = "wait" /\ jobs = <<>>
    /\ \A l \in R!Loops : io[l] = R!Looping /\ tasks[l] = <<>>
    /\ \A w \in Workers : worker[w] = Resting
    /\ UNCHANGED vars

IoStep(l) == LoopStep(l) \/ HandleMessage(l) \/ HandleClose(l)
MainFinish == SetUp \/ HandleNewConnection
WorkerStep(w) == \/ TakeJob(w) \/ Reply(w) \/ LockCast(w) \/ CastNext(w)
                 \/ SendPush(w) \/ SendWake(w) \/ Unlock(w) \/ EndJob(w)

ServeStep ==
    \/ MainFinish
    \/ \E l \in R!Loops : IoStep(l)
    \/ \E w \in Workers : WorkerStep(w)
    \/ Halted \/ AllServed
Next == AcceptStep \/ ServeStep \/ PeerStep \/ ClockStep

Spec == Init /\ [][Next]_vars

\* Runnable threads run; one that waits for mutex_ gets it if it is free again
\* and again.
Fairness ==
    /\ \A l \in R!Loops : WF_vars(IoStep(l)) /\ SF_vars(HandleClose(l))
    /\ \A w \in Workers : WF_vars(WorkerStep(w)) /\ SF_vars(LockCast(w))
    /\ WF_vars(SetUp) /\ SF_vars(HandleNewConnection)

FairSpec == Spec /\ Fairness

-----------------------------------------------------------------------------
\* Safety

\* The relay is one of the applications the framework is specified for, so
\* what holds of Reactor holds of the relay.
Framework == R!Spec

\* In particular its maps of connections stay coherent under the relay's own
\* locks, references and sends.
FrameworkMaps == R!FdExclusive /\ R!MapsAgree

\* A report goes to every entry but its sender although the code compares
\* descriptors: a descriptor in all_connections_ or in a queued call is never
\* one that was closed and given to somebody else.
SkipsOnlySender ==
    [][\A w \in Workers :
         worker[w].at = "lock" /\ worker'[w].at = "cast" =>
            {allConns[f] : f \in worker'[w].left} = Members \ {worker[w].job.from}]_vars

\* An entry leaves all_connections_ only by its own connection's HandleClose:
\* neither the erase nor the insertion by descriptor hits another connection.
EvictsOwnEntry ==
    [][\A f \in Fds :
         allConns[f] \notin {NoConn, allConns'[f]} =>
            \E l \in R!Loops : io[l].at = "closeApp" /\ io[l].conn = allConns[f]]_vars

-----------------------------------------------------------------------------
\* The inductive invariant behind the safety properties

\* An entry lies under the descriptor of its connection, and mutex_ keeps the
\* entries that a broadcast has not come to.
EntriesInv ==
    /\ \A f \in Fds : allConns[f] # NoConn => fdOf[allConns[f]] = f
    /\ \A w \in Workers : \A f \in worker[w].left : allConns[f] # NoConn
    /\ \A w, v \in Workers : worker[w].at = "cast" /\ worker[v].at = "cast" => w = v

-----------------------------------------------------------------------------
\* Liveness

\* A broadcast ends and gives mutex_ back, although it queues tasks under the
\* loops' mutexes, which the loops hold while they run theirs, and the IO
\* threads wait for mutex_ in HandleClose.
BroadcastEnds ==
    \A w \in Workers : worker[w].at = "cast" ~> worker[w].at # "cast" \/ proc # "up"

\* A connection that is in all_connections_ when its peer closes leaves it,
\* whatever the workers and the other connections do.
ForgottenIfSeenOpen ==
    \A c \in Conns :
      c \in Members \ disconnect /\ c \in fin ~> c \notin Members \/ proc # "up"
==============================================================================
