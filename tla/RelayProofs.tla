------------------------------ MODULE RelayProofs ------------------------------
(***************************************************************************)
(* The relay on top of the framework, for any number of connections,       *)
(* descriptors, loops and workers.                                         *)
(***************************************************************************)
EXTENDS RelayServer, TLAPS

\* The theorems about the framework, of the framework the relay runs on.
RP == INSTANCE ReactorProofs WITH Senders <- Workers, Payloads <- Jobs, appRefs <- Refs

-----------------------------------------------------------------------------
\* The relay's constants are the framework's.

LEMMA Threadnum == threadnum \in Nat \ {0}
  BY FrameworkAssumption
LEMMA Descriptors == Fds \subseteq Nat /\ NoFd \notin Fds
  BY FrameworkAssumption
LEMMA Connections ==
  /\ NoConn \notin Conns
  /\ "wake" \notin Conns \cup {NoConn}
  /\ "timer" \notin Conns \cup {NoConn}
  BY FrameworkAssumption
LEMMA Bounds == MaxFrames \in Nat /\ MaxTasks \in Nat
  BY FrameworkAssumption

-----------------------------------------------------------------------------
\* R, which the relay's specification uses, and RP are the same framework.

LEMMA SameState ==
  /\ R!vars = RP!vars
  /\ R!TypeOK <=> RP!TypeOK
  /\ R!HandsInv <=> RP!HandsInv
  /\ R!FdInv <=> RP!FdInv
  /\ R!OwnerInv <=> RP!OwnerInv
  /\ R!FdExclusive <=> RP!FdExclusive
  /\ R!WakePending <=> RP!WakePending
  /\ R!SweepInv <=> RP!SweepInv
  /\ R!IInv <=> RP!IInv
  /\ R!MapsAgree <=> RP!MapsAgree
<1> USE DEF R!Loops, RP!Loops, R!Tasks, RP!Tasks, R!Held, RP!Held, R!LoopOf, RP!LoopOf,
        R!IoSteps, RP!IoSteps, R!IoStates, RP!IoStates
<1>1. R!vars = RP!vars
  BY DEF R!vars, RP!vars
<1>2. R!TypeOK <=> RP!TypeOK
  BY DEF R!TypeOK, RP!TypeOK
<1>3. R!HandsInv <=> RP!HandsInv
  BY DEF R!HandsInv, RP!HandsInv
<1>4. R!FdInv <=> RP!FdInv
  BY DEF R!FdInv, RP!FdInv
<1>5. R!OwnerInv <=> RP!OwnerInv
  BY DEF R!OwnerInv, RP!OwnerInv
<1>6. R!FdExclusive <=> RP!FdExclusive
  BY DEF R!FdExclusive, RP!FdExclusive
<1>7. R!WakePending <=> RP!WakePending
  BY DEF R!WakePending, RP!WakePending
<1>8. R!MapsAgree <=> RP!MapsAgree
  BY DEF R!MapsAgree, RP!MapsAgree, R!AgreeOn, RP!AgreeOn, R!HalfErased, RP!HalfErased
<1>10. R!SweepInv <=> RP!SweepInv
  BY DEF R!SweepInv, RP!SweepInv
<1>9. R!IInv <=> RP!IInv
  BY <1>2, <1>3, <1>4, <1>5, <1>6, <1>7, <1>10 DEF R!IInv, RP!IInv
<1> QED
  BY <1>1, <1>2, <1>3, <1>4, <1>5, <1>6, <1>7, <1>8, <1>9, <1>10

LEMMA SameInit == R!Init <=> RP!Init
  BY DEF R!Init, RP!Init, R!MainAt, RP!MainAt, R!At, RP!At, R!Looping, RP!Looping,
         R!SenderAt, RP!SenderAt, R!Idling, RP!Idling, R!Loops, RP!Loops

LEMMA SameNext == R!Next => RP!Next
<1> USE DEF R!Loops, RP!Loops, R!Up, RP!Up, R!Die, RP!Die,
        R!connVars, RP!connVars, R!mapVars, RP!mapVars, R!kernelVars, RP!kernelVars,
        R!MainAt, RP!MainAt, R!At, RP!At, R!Looping, RP!Looping,
        R!SenderAt, RP!SenderAt, R!Idling, RP!Idling
<1>1. \A c : /\ R!Held(c) <=> RP!Held(c)
             /\ R!LoopOf(c) = RP!LoopOf(c)
             /\ R!Watched(c) <=> RP!Watched(c)
             /\ R!Readable(c) <=> RP!Readable(c)
             /\ R!Wired(c) <=> RP!Wired(c)
             /\ R!FreeFd(c) <=> RP!FreeFd(c)
  BY DEF R!Held, RP!Held, R!LoopOf, RP!LoopOf, R!Watched, RP!Watched, R!Readable, RP!Readable,
         R!Wired, RP!Wired, R!FreeFd, RP!FreeFd
<1>2. \A l : R!Ready(l) = RP!Ready(l)
  BY <1>1 DEF R!Ready, RP!Ready
<1>3. R!PeerStep => RP!PeerStep
  BY <1>1 DEF R!PeerStep, RP!PeerStep, R!PeerSend, RP!PeerSend, R!PeerClose, RP!PeerClose
<1>4. R!ClockStep => RP!ClockStep
  BY <1>1 DEF R!ClockStep, RP!ClockStep, R!GoIdle, RP!GoIdle, R!TimerFires, RP!TimerFires
<1>5. R!MainStep => RP!MainStep
  <2>1. ASSUME NEW c \in Conns, NEW f \in Fds PROVE R!Accept(c, f) => RP!Accept(c, f)
    BY <1>1 DEF R!Accept, RP!Accept
  <2>2. R!AcceptFail => RP!AcceptFail
    BY <1>1 DEF R!AcceptFail, RP!AcceptFail
  <2>3. R!MainFinish => RP!MainFinish
    BY <1>1 DEF R!MainFinish, RP!MainFinish, R!Wire, RP!Wire, R!InsertServer, RP!InsertServer,
                R!InsertLoop, RP!InsertLoop, R!InsertLoopRace, RP!InsertLoopRace,
                R!NewConnCb, RP!NewConnCb
  <2> QED
    BY <2>1, <2>2, <2>3 DEF R!MainStep, RP!MainStep
<1>6. R!AppDrop => RP!AppDrop
  BY DEF R!AppDrop, RP!AppDrop
<1>7. ASSUME NEW t \in Workers PROVE R!SenderStep(t) => RP!SenderStep(t)
  <2>1. ASSUME NEW c \in Conns PROVE R!AppSend(t, c) => RP!AppSend(t, c)
    BY DEF R!AppSend, RP!AppSend
  <2>2. ASSUME NEW m \in Jobs PROVE R!AppPush(t, m) => RP!AppPush(t, m)
    BY <1>1 DEF R!AppPush, RP!AppPush
  <2>3. R!AppWake(t) => RP!AppWake(t)
    BY <1>1 DEF R!AppWake, RP!AppWake
  <2> QED
    BY <2>1, <2>2, <2>3 DEF R!SenderStep, RP!SenderStep
<1>8. ASSUME NEW l \in R!Loops PROVE R!IoStep(l) => RP!IoStep(l)
  <2>1. R!EpollWait(l) => RP!EpollWait(l)
    BY <1>2, <1>1 DEF R!EpollWait, RP!EpollWait
  <2>2. ASSUME NEW c \in Conns
        PROVE  /\ R!DispatchDead(l, c) => RP!DispatchDead(l, c)
               /\ R!DispatchUnwired(l, c) => RP!DispatchUnwired(l, c)
               /\ R!DispatchRead(l, c) => RP!DispatchRead(l, c)
               /\ R!DispatchClose(l, c) => RP!DispatchClose(l, c)
    BY <1>1 DEF R!DispatchDead, RP!DispatchDead, R!DispatchUnwired, RP!DispatchUnwired,
                R!DispatchRead, RP!DispatchRead, R!DispatchClose, RP!DispatchClose,
                R!Handles, RP!Handles
  <2>3. /\ R!Deliver(l) => RP!Deliver(l)
        /\ R!DeliverDead(l) => RP!DeliverDead(l)
        /\ R!CloseApp(l) => RP!CloseApp(l)
        /\ R!CloseServer(l) => RP!CloseServer(l)
    BY <1>1 DEF R!Deliver, RP!Deliver, R!DeliverDead, RP!DeliverDead,
                R!CloseApp, RP!CloseApp, R!CloseServer, RP!CloseServer
  <2>4. /\ R!WakeRead(l) => RP!WakeRead(l)
        /\ R!DrainStart(l) => RP!DrainStart(l)
        /\ R!WakeTask(l) => RP!WakeTask(l)
        /\ R!WakeTaskFails(l) => RP!WakeTaskFails(l)
        /\ R!DrainEnd(l) => RP!DrainEnd(l)
    BY <1>1 DEF R!WakeRead, RP!WakeRead, R!DrainStart, RP!DrainStart, R!WakeTask, RP!WakeTask,
                R!WakeTaskFails, RP!WakeTaskFails, R!DrainEnd, RP!DrainEnd, R!Handles, RP!Handles
  <2>5. /\ R!HandleTimer(l) => RP!HandleTimer(l)
        /\ \A f \in Fds : R!TimerVisit(l, f) => RP!TimerVisit(l, f)
        /\ R!TimerErase(l) => RP!TimerErase(l)
        /\ R!TimerEnd(l) => RP!TimerEnd(l)
    BY DEF R!HandleTimer, RP!HandleTimer, R!TimerVisit, RP!TimerVisit, R!TimerErase,
           RP!TimerErase, R!TimerEnd, RP!TimerEnd,
           R!Handles, RP!Handles
  <2> QED
    BY <2>1, <2>2, <2>3, <2>4, <2>5 DEF R!IoStep, RP!IoStep
<1>9. R!Halted => RP!Halted
  BY DEF R!Halted, RP!Halted, R!vars, RP!vars
<1> QED
  BY <1>3, <1>4, <1>5, <1>6, <1>7, <1>8, <1>9 DEF R!Next, RP!Next

-----------------------------------------------------------------------------
\* The shared_ptrs the relay keeps

\* Who keeps a connection.
Keeps(entries, queue, busy, c) ==
    \/ c # NoConn /\ \E f \in Fds : entries[f] = c
    \/ \E i \in DOMAIN queue : queue[i].from = c
    \/ \E w \in Workers : busy[w].job # NoJob /\ busy[w].job.from = c

LEMMA RefsAre ==
  /\ \A c : c \in Refs <=> Keeps(allConns, jobs, worker, c)
  /\ \A c : c \in Refs' <=> Keeps(allConns', jobs', worker', c)
<1>1. ASSUME NEW c PROVE c \in Refs <=> Keeps(allConns, jobs, worker, c)
  BY DEF Refs, Members, Keeps
<1>2. ASSUME NEW c PROVE c \in Refs' <=> Keeps(allConns', jobs', worker', c)
  BY DEF Refs, Members, Keeps
<1> QED
  BY <1>1, <1>2

\* They are connections.
LEMMA RefsType ==
  ASSUME TypeOK
  PROVE  Refs \subseteq Conns
<1> SUFFICES ASSUME NEW c \in Refs PROVE c \in Conns
  OBVIOUS
<1>1. \A f \in Fds : allConns[f] \in Conns \cup {NoConn}
  BY DEF TypeOK
<1>2. \A i \in DOMAIN jobs : jobs[i].from \in Conns
  <2>1. \A i \in DOMAIN jobs : jobs[i] \in Jobs
    BY DEF TypeOK
  <2> QED
    BY <2>1 DEF Jobs
<1>3. \A w \in Workers : worker[w].job # NoJob => worker[w].job.from \in Conns
  <2>1. \A w \in Workers : worker[w].job \in Jobs \cup {NoJob}
    BY DEF TypeOK
  <2> QED
    BY <2>1 DEF Jobs
<1> QED
  BY <1>1, <1>2, <1>3, RefsAre DEF Keeps

\* A worker that changes its step and its entries but not its job, or a call
\* that leaves the queue for a worker, changes nothing of them.
LEMMA SameRefs ==
  ASSUME TypeOK, allConns' = allConns, jobs' = jobs, NEW w \in Workers,
         worker' \in [Workers -> [at : Steps, job : Jobs \cup {NoJob}, left : SUBSET Fds]],
         worker'[w].job = worker[w].job,
         \A v \in Workers \ {w} : worker'[v] = worker[v]
  PROVE  Refs' = Refs
<1>1. \A v \in Workers : worker'[v].job = worker[v].job
  OBVIOUS
<1>2. \A c : c \in Refs' <=> c \in Refs
  BY <1>1, RefsAre DEF Keeps
<1> QED
  BY <1>2

LEMMA TakenRefs ==
  ASSUME TypeOK, NEW w \in Workers, TakeJob(w)
  PROVE  Refs' = Refs
<1> DEFINE j == Head(jobs)
<1>1. /\ jobs \in Seq(Jobs) /\ jobs # <<>> /\ jobs' = Tail(jobs) /\ allConns' = allConns
      /\ worker[w].job = NoJob /\ worker'[w].job = j
      /\ \A v \in Workers \ {w} : worker'[v] = worker[v]
  BY DEF TakeJob, TypeOK, WorkerAt
<1>2. /\ j \in Jobs /\ j # NoJob /\ j = jobs[1]
      /\ DOMAIN jobs = 1 .. Len(jobs) /\ Len(jobs) \in Nat /\ Len(jobs) > 0
      /\ DOMAIN jobs' = 1 .. Len(jobs) - 1
      /\ \A i \in DOMAIN jobs' : jobs'[i] = jobs[i + 1]
  BY <1>1, NoJobAssumption
<1>3. \A c : (\E i \in DOMAIN jobs : jobs[i].from = c)
               <=> j.from = c \/ \E i \in DOMAIN jobs' : jobs'[i].from = c
  <2> SUFFICES ASSUME NEW c, NEW i \in DOMAIN jobs, jobs[i].from = c, j.from # c
               PROVE  \E k \in DOMAIN jobs' : jobs'[k].from = c
    BY <1>2
  <2>1. i # 1 /\ i - 1 \in DOMAIN jobs'
    BY <1>2
  <2>2. jobs'[i - 1] = jobs[i]
    BY <1>2, <2>1
  <2> QED
    BY <2>1, <2>2
<1>4. \A c : (\E v \in Workers : worker'[v].job # NoJob /\ worker'[v].job.from = c)
               <=> \/ j.from = c
                   \/ \E v \in Workers : worker[v].job # NoJob /\ worker[v].job.from = c
  BY <1>1, <1>2
<1>5. ASSUME NEW c PROVE c \in Refs' <=> c \in Refs
  <2> DEFINE entry == c # NoConn /\ \E f \in Fds : allConns[f] = c
             queued == \E i \in DOMAIN jobs : jobs[i].from = c
             left == \E i \in DOMAIN jobs' : jobs'[i].from = c
             busy == \E v \in Workers : worker[v].job # NoJob /\ worker[v].job.from = c
             busier == \E v \in Workers : worker'[v].job # NoJob /\ worker'[v].job.from = c
  <2>1. c \in Refs <=> entry \/ queued \/ busy
    BY RefsAre DEF Keeps
  <2>2. c \in Refs' <=> entry \/ left \/ busier
    BY <1>1, RefsAre DEF Keeps
  <2>3. queued <=> j.from = c \/ left
    BY <1>3
  <2>4. busier <=> j.from = c \/ busy
    BY <1>4
  <2> HIDE DEF entry, queued, left, busy, busier, j
  <2> QED
    BY <2>1, <2>2, <2>3, <2>4
<1> QED
  BY <1>5

\* A call that ends gives its reference back.
LEMMA EndedRefs ==
  ASSUME TypeOK, NEW w \in Workers, EndJob(w)
  PROVE  Refs' \subseteq Refs
<1>1. /\ allConns' = allConns /\ jobs' = jobs /\ worker'[w].job = NoJob
      /\ \A v \in Workers \ {w} : worker'[v] = worker[v]
  BY DEF EndJob, TypeOK, Resting, WorkerAt
<1>2. \A c : c \in Refs' => c \in Refs
  BY <1>1, RefsAre DEF Keeps
<1> QED
  BY <1>2

-----------------------------------------------------------------------------
\* Every step of the relay is, for the framework, a step or none.

\* conn->send() of a worker that keeps its job.
LEMMA SendStep ==
  ASSUME TypeOK, NEW w \in Workers, NEW c, Send(w, c), allConns' = allConns, jobs' = jobs,
         worker' \in [Workers -> [at : Steps, job : Jobs \cup {NoJob}, left : SUBSET Fds]],
         worker'[w].job = worker[w].job,
         \A v \in Workers \ {w} : worker'[v] = worker[v]
  PROVE  [R!Next]_(R!vars)
<1>1. CASE R!AppSend(w, c)
  <2>1. c \in Conns
    BY <1>1, RefsType DEF R!AppSend
  <2> QED
    BY <1>1, <2>1 DEF R!SenderStep, R!Next
<1>2. CASE UNCHANGED frameworkVars
  <2>1. Refs' = Refs
    BY SameRefs
  <2> QED
    BY <1>2, <2>1 DEF frameworkVars, R!vars
<1> QED
  BY <1>1, <1>2 DEF Send

LEMMA WorkerRefines ==
  ASSUME TypeOK, NEW w \in Workers, WorkerStep(w)
  PROVE  [R!Next]_(R!vars)
<1>0. /\ worker \in [Workers -> [at : Steps, job : Jobs \cup {NoJob}, left : SUBSET Fds]]
      /\ \A step \in Steps : [worker EXCEPT ![w].at = step]
           \in [Workers -> [at : Steps, job : Jobs \cup {NoJob}, left : SUBSET Fds]]
  BY DEF TypeOK
<1>1. CASE TakeJob(w)
  <2>1. Refs' = Refs
    BY <1>1, TakenRefs
  <2> QED
    BY <1>1, <2>1 DEF TakeJob, frameworkVars, R!vars
<1>2. CASE Reply(w)
  <2>1. worker' = [worker EXCEPT ![w].at = "done"] /\ "done" \in Steps
    BY <1>2 DEF Reply, Steps
  <2>2. /\ worker' \in [Workers -> [at : Steps, job : Jobs \cup {NoJob}, left : SUBSET Fds]]
        /\ worker'[w].job = worker[w].job
        /\ \A v \in Workers \ {w} : worker'[v] = worker[v]
    BY <1>0, <2>1
  <2> QED
    BY <1>2, <2>2, SendStep DEF Reply
<1>3. CASE LockCast(w)
  <2> DEFINE fds == {f \in Fds : /\ allConns[f] # NoConn
                                /\ fdOf[allConns[f]] # fdOf[worker[w].job.from]}
  <2>1. worker' = [worker EXCEPT ![w].at = "cast", ![w].left = fds] /\ "cast" \in Steps
    BY <1>3 DEF LockCast, Steps
  <2>2. /\ worker' \in [Workers -> [at : Steps, job : Jobs \cup {NoJob}, left : SUBSET Fds]]
        /\ worker'[w].job = worker[w].job
        /\ \A v \in Workers \ {w} : worker'[v] = worker[v]
    BY <1>0, <2>1
  <2>3. Refs' = Refs
    BY <1>3, <2>2, SameRefs DEF LockCast
  <2> QED
    BY <1>3, <2>3 DEF LockCast, frameworkVars, R!vars
<1>4. CASE CastNext(w)
  <2>1. PICK f \in worker[w].left :
          worker' = [worker EXCEPT ![w].left = @ \ {f}] /\ Send(w, allConns[f])
    BY <1>4 DEF CastNext
  <2>2. /\ worker' \in [Workers -> [at : Steps, job : Jobs \cup {NoJob}, left : SUBSET Fds]]
        /\ worker'[w].job = worker[w].job
        /\ \A v \in Workers \ {w} : worker'[v] = worker[v]
    BY <1>0, <2>1
  <2> QED
    BY <1>4, <2>1, <2>2, SendStep DEF CastNext
<1>5. CASE SendPush(w)
  <2>1. sender[w] # R!Idling
    BY <1>5 DEF SendPush, R!AppPush, R!Idling, R!SenderAt
  <2>2. worker[w].job \in Jobs
    BY <1>0, <2>1 DEF TypeOK
  <2> QED
    BY <1>5, <2>2 DEF SendPush, R!SenderStep, R!Next
<1>6. CASE SendWake(w)
  BY <1>6 DEF SendWake, R!SenderStep, R!Next
<1>7. CASE Unlock(w)
  <2>1. worker' = [worker EXCEPT ![w].at = "done"] /\ "done" \in Steps
    BY <1>7 DEF Unlock, Steps
  <2>2. /\ worker' \in [Workers -> [at : Steps, job : Jobs \cup {NoJob}, left : SUBSET Fds]]
        /\ worker'[w].job = worker[w].job
        /\ \A v \in Workers \ {w} : worker'[v] = worker[v]
    BY <1>0, <2>1
  <2>3. Refs' = Refs
    BY <1>7, <2>2, SameRefs DEF Unlock
  <2> QED
    BY <1>7, <2>3 DEF Unlock, frameworkVars, R!vars
<1>8. CASE EndJob(w)
  <2>1. Refs' \subseteq Refs
    BY <1>8, EndedRefs
  <2>2. CASE Refs' = Refs
    BY <1>8, <2>2 DEF EndJob, frameworkVars, R!vars
  <2>3. CASE Refs' # Refs
    BY <1>8, <2>1, <2>3
       DEF EndJob, frameworkVars, R!AppDrop, R!Up, R!connVars, R!mapVars, R!kernelVars, R!Next
  <2> QED
    BY <2>2, <2>3
<1> QED
  BY <1>1, <1>2, <1>3, <1>4, <1>5, <1>6, <1>7, <1>8 DEF WorkerStep

LEMMA RelayStep ==
  ASSUME TypeOK, [Next]_vars
  PROVE  [R!Next]_(R!vars)
<1>1. CASE UNCHANGED vars
  BY <1>1 DEF vars, frameworkVars, relayVars, R!vars, Refs, Members
<1>2. CASE AcceptStep
  BY <1>2 DEF AcceptStep, R!MainStep, R!Next
<1>3. CASE MainFinish
  BY <1>3 DEF MainFinish, SetUp, HandleNewConnection, R!MainFinish, R!MainStep, R!Next
<1>4. ASSUME NEW l \in R!Loops, IoStep(l) PROVE [R!Next]_(R!vars)
  <2>1. R!IoStep(l)
    BY <1>4 DEF IoStep, LoopStep, HandleMessage, HandleClose, R!IoStep
  <2> QED
    BY <2>1 DEF R!Next
<1>5. ASSUME NEW w \in Workers, WorkerStep(w) PROVE [R!Next]_(R!vars)
  BY <1>5, WorkerRefines
<1>6. CASE Halted \/ AllServed
  BY <1>1, <1>6 DEF Halted, AllServed
<1>7. CASE PeerStep
  BY <1>7 DEF PeerStep, R!Next
<1>8. CASE ClockStep
  BY <1>8 DEF ClockStep, R!Next
<1> QED
  BY <1>1, <1>2, <1>3, <1>4, <1>5, <1>6, <1>7, <1>8 DEF Next, ServeStep

LEMMA InitRefines == Init => R!Init
  BY DEF Init

-----------------------------------------------------------------------------
\* Types

LEMMA FrameworkInvStep ==
  ASSUME TypeOK, R!IInv, [Next]_vars
  PROVE  R!IInv'
<1>1. [RP!Next]_(RP!vars)
  BY RelayStep, SameNext DEF R!vars, RP!vars
<1>2. RP!IInv
  BY SameState
<1>3. RP!IInv'
  BY <1>1, <1>2, Threadnum, Descriptors, Connections, Bounds, RP!IInvStep
<1> QED
  BY <1>3, SameState, PTL

\* Only the workers' own steps touch what they send.
LEMMA SenderKept ==
  ASSUME \/ AcceptStep \/ SetUp \/ HandleNewConnection \/ PeerStep \/ ClockStep
         \/ \E l \in R!Loops : IoStep(l)
  PROVE  sender' = sender
<1> USE DEF R!Die
<1>1. CASE AcceptStep \/ SetUp \/ HandleNewConnection
  BY <1>1 DEF AcceptStep, SetUp, HandleNewConnection, R!Accept, R!AcceptFail, R!Wire,
              R!InsertServer, R!InsertLoop, R!InsertLoopRace, R!NewConnCb
<1>2. CASE PeerStep \/ ClockStep
  BY <1>2 DEF PeerStep, ClockStep, R!PeerStep, R!PeerSend, R!PeerClose, R!ClockStep, R!GoIdle,
              R!TimerFires
<1>3. ASSUME NEW l \in R!Loops, IoStep(l) PROVE sender' = sender
  BY <1>3 DEF IoStep, LoopStep, HandleMessage, HandleClose, R!EpollWait, R!DispatchDead,
              R!DispatchUnwired, R!DispatchRead, R!DispatchClose, R!Deliver, R!DeliverDead,
              R!CloseApp, R!CloseServer, R!WakeRead, R!DrainStart, R!WakeTask, R!WakeTaskFails,
              R!DrainEnd, R!HandleTimer, R!TimerVisit, R!TimerErase, R!TimerEnd
<1> QED
  BY <1>1, <1>2, <1>3

LEMMA TypeStep ==
  ASSUME TypeOK, R!IInv, [Next]_vars
  PROVE  TypeOK'
<1>1. R!TypeOK'
  BY FrameworkInvStep DEF R!IInv
<1> DEFINE Workings == [at : Steps, job : Jobs \cup {NoJob}, left : SUBSET Fds]
           Fits(e, s) == /\ e.at = "rest" <=> e.job = NoJob
                         /\ e.left # {} => e.at = "cast"
                         /\ s # R!Idling => e.at \in {"cast", "done"}
<1>2. /\ allConns \in [Fds -> Conns \cup {NoConn}]
      /\ jobs \in Seq(Jobs)
      /\ worker \in [Workers -> Workings]
      /\ \A w \in Workers : Fits(worker[w], sender[w])
  BY DEF TypeOK
<1>3. SUFFICES /\ allConns' \in [Fds -> Conns \cup {NoConn}]
               /\ jobs' \in Seq(Jobs)
               /\ worker' \in [Workers -> Workings]
               /\ \A w \in Workers : Fits(worker'[w], sender'[w])
  BY <1>1 DEF TypeOK
<1>4. CASE UNCHANGED <<relayVars, sender>>
  BY <1>2, <1>4 DEF relayVars
<1>5. CASE HandleNewConnection
  <2>1. main.conn \in Conns \cup {NoConn} /\ sender' = sender
    BY <1>5, SenderKept DEF R!IInv, R!TypeOK
  <2> QED
    BY <1>2, <1>5, <2>1 DEF HandleNewConnection
<1>6. ASSUME NEW l \in R!Loops, HandleClose(l)
      PROVE  /\ allConns' \in [Fds -> Conns \cup {NoConn}] /\ UNCHANGED <<jobs, worker, sender>>
  <2>1. sender' = sender
    BY <1>6, SenderKept DEF IoStep
  <2> QED
    BY <1>2, <1>6, <2>1 DEF HandleClose
<1>7. ASSUME NEW l \in R!Loops, HandleMessage(l)
      PROVE  /\ jobs' \in Seq(Jobs) /\ UNCHANGED <<allConns, worker, sender>>
  <2>1. sender' = sender
    BY <1>7, SenderKept DEF IoStep
  <2>2. io[l].conn \in Conns
    <3>1. io[l].conn \in Conns \cup {NoConn}
      BY DEF R!IInv, R!TypeOK, R!IoStates
    <3> QED
      BY <1>7, <3>1 DEF HandleMessage, R!IInv, R!HandsInv
  <2>3. PICK k \in Kinds : jobs' = Append(jobs, [from |-> io[l].conn, kind |-> k])
    BY <1>7 DEF HandleMessage
  <2>4. [from |-> io[l].conn, kind |-> k] \in Jobs
    BY <2>2 DEF Jobs
  <2> QED
    BY <1>2, <1>7, <2>1, <2>3, <2>4 DEF HandleMessage
<1>8. ASSUME NEW w \in Workers, WorkerStep(w)
      PROVE  /\ allConns' = allConns
             /\ jobs' \in Seq(Jobs)
             /\ worker' \in [Workers -> Workings]
             /\ \A v \in Workers : Fits(worker'[v], sender'[v])
  <2>1. /\ worker[w] \in Workings /\ sender \in [Workers -> [at : {"idle", "push", "wake"},
                                                             conn : Conns \cup {NoConn}]]
    BY <1>2 DEF R!IInv, R!TypeOK
  <2>2. /\ allConns' = allConns /\ jobs' \in Seq(Jobs)
        /\ \A v \in Workers \ {w} : sender'[v] = sender[v]
        /\ \E e \in Workings : worker' = [worker EXCEPT ![w] = e] /\ Fits(e, sender'[w])
    <3>1. CASE TakeJob(w)
      <4>1. Head(jobs) \in Jobs /\ Tail(jobs) \in Seq(Jobs)
        BY <1>2, <3>1 DEF TakeJob
      <4> DEFINE e == WorkerAt(IF Head(jobs).kind = "request" THEN "reply" ELSE "lock",
                               Head(jobs), {})
      <4>2. e \in Workings /\ Fits(e, sender[w])
        BY <1>2, <3>1, <4>1, NoJobAssumption DEF WorkerAt, Steps, TakeJob
      <4> QED
        BY <3>1, <4>1, <4>2 DEF TakeJob, frameworkVars
    <3>2. CASE Reply(w)
      <4>1. worker' = [worker EXCEPT ![w].at = "done"] /\ worker[w].at = "reply"
        BY <3>2 DEF Reply
      <4>2. [worker[w] EXCEPT !.at = "done"] \in Workings
        BY <2>1 DEF Steps
      <4>3. Fits([worker[w] EXCEPT !.at = "done"], sender'[w])
        BY <1>2, <2>1, <4>1
      <4>4. \A v \in Workers \ {w} : sender'[v] = sender[v]
        BY <2>1, <3>2 DEF Reply, Send, R!AppSend, frameworkVars
      <4> QED
        BY <1>2, <3>2, <4>1, <4>2, <4>3, <4>4 DEF Reply
    <3>3. CASE LockCast(w)
      <4> DEFINE fds == {f \in Fds : /\ allConns[f] # NoConn
                                    /\ fdOf[allConns[f]] # fdOf[worker[w].job.from]}
                 e == [worker[w] EXCEPT !.at = "cast", !.left = fds]
      <4>1. worker' = [worker EXCEPT ![w] = e] /\ worker[w].at = "lock"
        BY <1>2, <3>3 DEF LockCast
      <4>2. e \in Workings /\ Fits(e, sender[w])
        BY <1>2, <2>1, <4>1 DEF Steps
      <4> QED
        BY <1>2, <3>3, <4>1, <4>2 DEF LockCast, frameworkVars
    <3>4. CASE CastNext(w)
      <4>1. PICK f \in worker[w].left : worker' = [worker EXCEPT ![w].left = @ \ {f}]
        BY <3>4 DEF CastNext
      <4> DEFINE e == [worker[w] EXCEPT !.left = @ \ {f}]
      <4>2. worker[w].at = "cast" /\ worker' = [worker EXCEPT ![w] = e]
        BY <1>2, <3>4, <4>1 DEF CastNext
      <4>3. e \in Workings /\ Fits(e, sender'[w])
        BY <1>2, <2>1, <4>2
      <4>4. \A v \in Workers \ {w} : sender'[v] = sender[v]
        BY <2>1, <3>4 DEF CastNext, Send, R!AppSend, frameworkVars
      <4> QED
        BY <1>2, <3>4, <4>2, <4>3, <4>4 DEF CastNext
    <3>5. CASE SendPush(w) \/ SendWake(w)
      <4>1. /\ worker' = worker /\ sender[w] # R!Idling /\ UNCHANGED <<allConns, jobs>>
            /\ \A v \in Workers \ {w} : sender'[v] = sender[v]
        BY <2>1, <3>5 DEF SendPush, SendWake, relayVars, R!AppPush, R!AppWake, R!Idling, R!SenderAt
      <4>2. worker' = [worker EXCEPT ![w] = worker[w]] /\ Fits(worker[w], sender'[w])
        BY <1>2, <4>1
      <4> QED
        BY <1>2, <2>1, <4>1, <4>2
    <3>6. CASE Unlock(w)
      <4> DEFINE e == [worker[w] EXCEPT !.at = "done"]
      <4>1. worker' = [worker EXCEPT ![w] = e] /\ worker[w].at = "cast" /\ worker[w].left = {}
        BY <1>2, <3>6 DEF Unlock
      <4>2. e \in Workings /\ Fits(e, sender[w])
        BY <1>2, <2>1, <4>1 DEF Steps
      <4> QED
        BY <1>2, <3>6, <4>1, <4>2 DEF Unlock, frameworkVars
    <3>7. CASE EndJob(w)
      <4>1. Resting \in Workings /\ sender[w] = R!Idling /\ Fits(Resting, sender[w])
        BY <3>7 DEF EndJob, Resting, WorkerAt, Steps
      <4> QED
        BY <1>2, <3>7, <4>1 DEF EndJob, frameworkVars
    <3> QED
      BY <1>8, <3>1, <3>2, <3>3, <3>4, <3>5, <3>6, <3>7 DEF WorkerStep
  <2>3. PICK e \in Workings : worker' = [worker EXCEPT ![w] = e] /\ Fits(e, sender'[w])
    BY <2>2
  <2> QED
    BY <1>2, <2>2, <2>3
<1>9. CASE AcceptStep \/ SetUp \/ PeerStep \/ ClockStep \/ \E l \in R!Loops : LoopStep(l)
  <2>1. UNCHANGED relayVars
    BY <1>9 DEF AcceptStep, SetUp, PeerStep, ClockStep, LoopStep
  <2>2. sender' = sender
    BY <1>9, SenderKept DEF IoStep
  <2> QED
    BY <1>4, <2>1, <2>2
<1>10. CASE UNCHANGED vars
  BY <1>4, <1>10 DEF vars, frameworkVars
<1>11. CASE Halted \/ AllServed
  BY <1>10, <1>11 DEF Halted, AllServed
<1> HIDE DEF Workings, Fits
<1>12. CASE \E l \in R!Loops : HandleClose(l) \/ HandleMessage(l)
  BY <1>2, <1>6, <1>7, <1>12
<1>13. CASE \E w \in Workers : WorkerStep(w)
  BY <1>2, <1>8, <1>13
<1> QED
  BY <1>5, <1>9, <1>10, <1>11, <1>12, <1>13 DEF Next, ServeStep, MainFinish, IoStep

-----------------------------------------------------------------------------
\* The entries of all_connections_

\* A descriptor once given to a connection stays its own.
LEMMA FdKept ==
  ASSUME TypeOK, R!IInv, [Next]_vars, NEW c \in Conns, fdOf[c] # NoFd
  PROVE  fdOf'[c] = fdOf[c]
<1>1. [RP!Next]_(RP!vars)
  BY RelayStep, SameNext DEF R!vars, RP!vars
<1>2. RP!TypeOK
  BY SameState DEF TypeOK
<1> QED
  BY <1>1, <1>2, Threadnum, Descriptors, Connections, Bounds, RP!FdStep

\* What the relay keeps exists, and so does what a callback is about.
LEMMA HeldRefs ==
  ASSUME TypeOK, R!IInv
  PROVE  /\ \A c \in Refs : c \in Conns /\ R!Held(c) /\ fdOf[c] \in Fds
         /\ \A f \in Fds : allConns[f] # NoConn => allConns[f] \in Refs
         /\ \A w \in Workers : worker[w].job # NoJob => worker[w].job.from \in Refs
         /\ main.at = "inLoop" =>
              main.conn \in Conns /\ R!Held(main.conn) /\ fdOf[main.conn] \in Fds
         /\ \A l \in R!Loops : io[l].at = "closeApp" =>
              io[l].conn \in Conns /\ R!Held(io[l].conn) /\ fdOf[io[l].conn] \in Fds
<1>1. \A c \in Conns : R!Held(c) => fdOf[c] \in Fds
  BY DEF R!IInv, R!FdInv, R!TypeOK
<1>2. ASSUME NEW c \in Refs PROVE c \in Conns /\ R!Held(c)
  BY RefsType DEF R!Held
<1>3. \A f \in Fds : allConns[f] # NoConn => allConns[f] \in Refs
  BY RefsAre DEF Keeps
<1>4. \A w \in Workers : worker[w].job # NoJob => worker[w].job.from \in Refs
  BY RefsAre DEF Keeps
<1>5. main.at = "inLoop" => main.conn \in Conns /\ R!Held(main.conn)
  BY DEF R!IInv, R!HandsInv, R!TypeOK, R!Held
<1>6. ASSUME NEW l \in R!Loops, io[l].at = "closeApp"
      PROVE  io[l].conn \in Conns /\ R!Held(io[l].conn)
  <2>1. io[l].conn \in Conns \cup {NoConn} /\ io[l].conn # NoConn
    BY <1>6 DEF R!IInv, R!HandsInv, R!TypeOK, R!IoStates
  <2> QED
    BY <1>6, <2>1 DEF R!Held
<1> QED
  BY <1>1, <1>2, <1>3, <1>4, <1>5, <1>6

\* Of the connections that exist each has its own descriptor.
LEMMA OneOwner ==
  ASSUME R!IInv, NEW c \in Conns, NEW d \in Conns, R!Held(c), R!Held(d), fdOf[c] = fdOf[d]
  PROVE  c = d
  BY DEF R!IInv, R!FdExclusive

\* Who writes all_connections_: two callbacks, when nobody broadcasts.
LEMMA EntriesChange ==
  ASSUME TypeOK, [Next]_vars
  PROVE  \/ allConns' = allConns
         \/ /\ HandleNewConnection
            /\ allConns' = [allConns EXCEPT ![fdOf[main.conn]] = main.conn]
         \/ \E l \in R!Loops :
              /\ HandleClose(l)
              /\ allConns' = [allConns EXCEPT ![fdOf[io[l].conn]] = NoConn]
<1>1. ASSUME NEW w \in Workers, WorkerStep(w) PROVE allConns' = allConns
  BY <1>1 DEF WorkerStep, TakeJob, Reply, LockCast, CastNext, SendPush, SendWake, Unlock,
              EndJob, relayVars
<1>2. ASSUME NEW l \in R!Loops, IoStep(l), ~HandleClose(l) PROVE allConns' = allConns
  BY <1>2 DEF IoStep, LoopStep, HandleMessage, relayVars
<1>3. CASE AcceptStep \/ SetUp \/ PeerStep \/ ClockStep \/ Halted \/ AllServed \/ UNCHANGED vars
  BY <1>3 DEF AcceptStep, SetUp, PeerStep, ClockStep, Halted, AllServed, vars, relayVars
<1> QED
  BY <1>1, <1>2, <1>3 DEF Next, ServeStep, MainFinish, HandleNewConnection, HandleClose

\* Who moves a broadcast on.
LEMMA CastChange ==
  ASSUME TypeOK, [Next]_vars, NEW w \in Workers
  PROVE  \/ worker'[w] = worker[w]
         \/ worker'[w].at # "cast" /\ worker'[w].left = {}
         \/ /\ LockCast(w) /\ worker'[w].at = "cast" /\ worker[w].at = "lock"
            /\ worker'[w].left = {f \in Fds : /\ allConns[f] # NoConn
                                              /\ fdOf[allConns[f]] # fdOf[worker[w].job.from]}
            /\ \A v \in Workers \ {w} : worker'[v] = worker[v]
         \/ worker[w].at = "cast" /\ CastNext(w) /\ worker'[w].left \subseteq worker[w].left
<1>0. /\ worker \in [Workers -> [at : Steps, job : Jobs \cup {NoJob}, left : SUBSET Fds]]
      /\ \A v \in Workers : worker[v].left # {} => worker[v].at = "cast"
  BY DEF TypeOK
<1>1. ASSUME NEW v \in Workers, WorkerStep(v), v # w PROVE worker'[w] = worker[w]
  BY <1>0, <1>1 DEF WorkerStep, TakeJob, Reply, LockCast, CastNext, SendPush, SendWake, Unlock,
                    EndJob, relayVars
<1>2. CASE TakeJob(w)
  BY <1>0, <1>2 DEF TakeJob, WorkerAt
<1>3. CASE Reply(w)
  BY <1>0, <1>3 DEF Reply
<1>4. CASE LockCast(w)
  BY <1>0, <1>4 DEF LockCast
<1>5. CASE CastNext(w)
  <2>1. PICK f \in worker[w].left : worker' = [worker EXCEPT ![w].left = @ \ {f}]
    BY <1>5 DEF CastNext
  <2>2. worker'[w].left = worker[w].left \ {f} /\ worker[w].at = "cast"
    BY <1>0, <1>5, <2>1 DEF CastNext
  <2> QED
    BY <1>5, <2>2
<1>6. CASE SendPush(w) \/ SendWake(w)
  BY <1>6 DEF SendPush, SendWake, relayVars
<1>7. CASE Unlock(w)
  BY <1>0, <1>7 DEF Unlock
<1>8. CASE EndJob(w)
  BY <1>0, <1>8 DEF EndJob, Resting, WorkerAt
<1>9. CASE \/ AcceptStep \/ MainFinish \/ PeerStep \/ ClockStep \/ Halted \/ AllServed
           \/ UNCHANGED vars \/ \E l \in R!Loops : IoStep(l)
  BY <1>9 DEF AcceptStep, MainFinish, SetUp, HandleNewConnection, PeerStep, ClockStep, Halted,
              AllServed, vars, relayVars, IoStep, LoopStep, HandleMessage, HandleClose
<1>10. CASE WorkerStep(w)
  BY <1>2, <1>3, <1>4, <1>5, <1>6, <1>7, <1>8, <1>10 DEF WorkerStep
<1> QED
  BY <1>1, <1>9, <1>10 DEF Next, ServeStep

LEMMA EntriesStep ==
  ASSUME TypeOK, R!IInv, EntriesInv, [Next]_vars
  PROVE  EntriesInv'
<1>0. TypeOK'
  BY TypeStep
<1>1. ASSUME NEW f \in Fds, allConns'[f] # NoConn
      PROVE  fdOf'[allConns'[f]] = f
  <2>1. allConns'[f] \in Conns /\ fdOf[allConns'[f]] = f
    <3>1. CASE allConns'[f] = allConns[f]
      BY <1>0, <1>1, <3>1 DEF EntriesInv, TypeOK
    <3>2. CASE allConns'[f] # allConns[f] /\ HandleNewConnection
      <4>1. main.conn \in Conns /\ fdOf[main.conn] \in Fds
        BY <3>2, HeldRefs DEF HandleNewConnection
      <4> QED
        BY <3>2, <4>1 DEF HandleNewConnection, TypeOK
    <3>3. ASSUME NEW l \in R!Loops, allConns' = [allConns EXCEPT ![fdOf[io[l].conn]] = NoConn],
                 allConns'[f] # allConns[f]
          PROVE  FALSE
      BY <1>1, <3>3 DEF TypeOK
    <3> QED
      BY <3>1, <3>2, <3>3, EntriesChange
  <2>2. fdOf[allConns'[f]] # NoFd
    BY <2>1, Descriptors
  <2> QED
    BY <2>1, <2>2, FdKept
<1>2. ASSUME NEW w \in Workers, NEW f \in worker'[w].left
      PROVE  allConns'[f] # NoConn
  <2>1. CASE worker[w].at = "cast" /\ f \in worker[w].left
    <3>1. ~MutexFree /\ f \in Fds
      BY <2>1 DEF MutexFree, TypeOK
    <3>2. allConns' = allConns
      BY <3>1, EntriesChange DEF HandleNewConnection, HandleClose
    <3> QED
      BY <2>1, <3>2 DEF EntriesInv
  <2>2. CASE LockCast(w) /\ f \in {g \in Fds : allConns[g] # NoConn}
    BY <2>2 DEF LockCast
  <2>3. worker'[w] = worker[w] => worker[w].at = "cast"
    BY <1>2 DEF TypeOK
  <2> QED
    BY <1>2, <2>1, <2>2, <2>3, CastChange
<1>3. ASSUME NEW w \in Workers, NEW v \in Workers, worker'[w].at = "cast", worker'[v].at = "cast"
      PROVE  w = v
  <2>1. ASSUME NEW u \in Workers, worker'[u].at = "cast", worker[u].at # "cast"
        PROVE  LockCast(u) /\ \A x \in Workers \ {u} : worker'[x] = worker[x]
    BY <2>1, CastChange
  <2>2. ASSUME NEW u \in Workers, NEW x \in Workers, u # x,
               worker'[u].at = "cast", worker'[x].at = "cast", worker[u].at # "cast"
        PROVE  FALSE
    <3>1. LockCast(u) /\ worker[x].at = "cast"
      BY <2>1, <2>2
    <3> QED
      BY <3>1 DEF LockCast, MutexFree
  <2> QED
    BY <1>3, <2>2 DEF EntriesInv
<1> QED
  BY <1>1, <1>2, <1>3 DEF EntriesInv

-----------------------------------------------------------------------------
\* What the callbacks do to the relay's references is what Reactor lets an
\* application do, so the framework's action beside each of them never blocks it.

LEMMA NewConnectionKeepsOne ==
  ASSUME TypeOK, R!IInv, main.at = "inLoop", UNCHANGED <<jobs, worker>>,
         allConns' = [allConns EXCEPT ![fdOf[main.conn]] = main.conn]
  PROVE  Refs' \in SUBSET (Refs \cup {main.conn})
<1>1. \A f \in Fds : allConns'[f] \in {allConns[f], main.conn}
  BY DEF TypeOK
<1>2. \A c : c \in Refs' => c \in Refs \cup {main.conn}
  BY <1>1, RefsAre DEF Keeps
<1> QED
  BY <1>2

LEMMA CloseKeepsNone ==
  ASSUME TypeOK, R!IInv, NEW l \in R!Loops, io[l].at = "closeApp", UNCHANGED <<jobs, worker>>,
         allConns' = [allConns EXCEPT ![fdOf[io[l].conn]] = NoConn]
  PROVE  Refs' \in SUBSET Refs
<1>1. \A f \in Fds : allConns'[f] \in {allConns[f], NoConn}
  BY DEF TypeOK
<1>2. \A c : c \in Refs' => c \in Refs
  BY <1>1, RefsAre DEF Keeps
<1> QED
  BY <1>2

LEMMA MessageKeepsSender ==
  ASSUME TypeOK, R!IInv, NEW l \in R!Loops, io[l].at = "deliver", UNCHANGED <<allConns, worker>>,
         NEW k \in Kinds, jobs' = Append(jobs, [from |-> io[l].conn, kind |-> k])
  PROVE  Refs' \in {Refs, Refs \cup {io[l].conn}}
<1> DEFINE j == [from |-> io[l].conn, kind |-> k]
<1>1. io[l].conn \in Conns
  <2>1. io[l].conn \in Conns \cup {NoConn}
    BY DEF R!IInv, R!TypeOK, R!IoStates
  <2> QED
    BY <2>1 DEF R!IInv, R!HandsInv
<1>2. jobs \in Seq(Jobs) /\ j \in Jobs
  BY <1>1 DEF TypeOK, Jobs
<1>3. /\ DOMAIN jobs = 1 .. Len(jobs) /\ Len(jobs) \in Nat
      /\ DOMAIN jobs' = 1 .. Len(jobs) + 1
      /\ jobs'[Len(jobs) + 1] = j
      /\ \A i \in DOMAIN jobs : jobs'[i] = jobs[i]
  BY <1>2
<1>4. \A c : (\E i \in DOMAIN jobs' : jobs'[i].from = c)
               <=> c = io[l].conn \/ \E i \in DOMAIN jobs : jobs[i].from = c
  BY <1>3
<1>5. \A c : c \in Refs' <=> c \in Refs \cup {io[l].conn}
  BY <1>4, RefsAre DEF Keeps
<1> QED
  BY <1>5

-----------------------------------------------------------------------------
\* The theorems

RelayInv == TypeOK /\ R!IInv /\ EntriesInv

LEMMA RelayInvariance == Spec => []RelayInv
<1>1. Init => RelayInv
  <2> SUFFICES ASSUME Init PROVE RelayInv
    OBVIOUS
  <2>1. RP!IInv
    BY SameInit, Threadnum, Descriptors, Connections, Bounds, RP!InitIInv DEF Init
  <2>2. R!IInv
    BY <2>1, SameState
  <2>3. \A w \in Workers : worker[w] = Resting /\ sender[w] = R!Idling
    BY DEF Init, R!Init
  <2>4. TypeOK
    BY <2>2, <2>3 DEF TypeOK, Init, Resting, WorkerAt, Steps, R!IInv
  <2>5. EntriesInv
    BY <2>3 DEF EntriesInv, Init, Resting, WorkerAt
  <2> QED
    BY <2>2, <2>4, <2>5 DEF RelayInv
<1>2. RelayInv /\ [Next]_vars => RelayInv'
  BY TypeStep, FrameworkInvStep, EntriesStep DEF RelayInv
<1> QED
  BY <1>1, <1>2, PTL DEF Spec

\* Type correctness of the relay, its framework included, and what a worker
\* has in hand in each step of OnMessage.
THEOREM RelayTypeCorrect == Spec => []TypeOK
  BY RelayInvariance, PTL DEF RelayInv

\* RelayServer is an application of the framework as Reactor describes it, for
\* any number of connections, descriptors, loops and workers.
THEOREM RunsOnReactor == Spec => Framework
<1>1. Init => R!Init
  BY DEF Init
<1>2. RelayInv /\ [Next]_vars => [R!Next]_(R!vars)
  BY RelayStep DEF RelayInv
<1> QED
  BY RelayInvariance, <1>1, <1>2, PTL DEF Spec, Framework, R!Spec

\* So what is proved of the framework holds of the relay: the owners of a
\* descriptor agree on its connection, and an open connection whose set-up is
\* over is in both maps, the server's and its loop's, or in neither, or in the
\* loop's alone between the two erasures of the idle timer.
THEOREM RelayMapsCoherent == Spec => []FrameworkMaps
<1>1. Init => RP!Init
  BY SameInit DEF Init
<1>2. RelayInv /\ [Next]_vars => [RP!Next]_(RP!vars)
  BY RelayStep, SameNext DEF RelayInv, R!vars, RP!vars
<1>3. Spec => RP!Spec
  BY RelayInvariance, <1>1, <1>2, PTL DEF Spec, RP!Spec
<1>4. RP!Spec => []RP!FdExclusive
  BY Threadnum, Descriptors, Connections, Bounds, RP!DescriptorsExclusive
<1>5. RP!Spec => []RP!MapsAgree
  BY Threadnum, Descriptors, Connections, Bounds, RP!MapsCoherent
<1>6. RP!FdExclusive /\ RP!MapsAgree => FrameworkMaps
  BY SameState DEF FrameworkMaps
<1> QED
  BY <1>3, <1>4, <1>5, <1>6, PTL

\* No reply and no broadcast waits on a loop that nobody wakes.
THEOREM RelayWakesLoops == Spec => []R!WakePending
  BY RelayInvariance, PTL DEF RelayInv, R!IInv

\* A broadcast skips the entries with its sender's descriptor, and that is its
\* sender alone: whoever is in all_connections_ or in a queued call still owns
\* its descriptor.
THEOREM OnlySenderSkipped == Spec => SkipsOnlySender
<1> DEFINE A(w) == worker[w].at = "lock" /\ worker'[w].at = "cast" =>
                      {allConns[f] : f \in worker'[w].left} = Members \ {worker[w].job.from}
<1>1. ASSUME RelayInv, [Next]_vars, NEW w \in Workers PROVE A(w)
  <2> SUFFICES ASSUME worker[w].at = "lock", worker'[w].at = "cast"
               PROVE  {allConns[f] : f \in worker'[w].left} = Members \ {worker[w].job.from}
    OBVIOUS
  <2> DEFINE s == worker[w].job.from
  <2>1. worker'[w].left = {f \in Fds : allConns[f] # NoConn /\ fdOf[allConns[f]] # fdOf[s]}
    BY <1>1, CastChange DEF RelayInv
  <2>2. s \in Refs
    BY <1>1, HeldRefs DEF RelayInv, TypeOK
  <2>3. ASSUME NEW f \in Fds, allConns[f] # NoConn
        PROVE  fdOf[allConns[f]] = fdOf[s] <=> allConns[f] = s
    BY <1>1, <2>2, <2>3, HeldRefs, OneOwner DEF RelayInv
  <2> QED
    BY <2>1, <2>3 DEF Members
<1>2. RelayInv /\ [Next]_vars => \A w \in Workers : A(w)
  BY <1>1
<1> QED
  BY RelayInvariance, <1>2, PTL DEF Spec, SkipsOnlySender

\* Neither the erase by descriptor in HandleClose nor the insertion by
\* descriptor in HandleNewConnection takes another connection out of
\* all_connections_.
THEOREM OnlyOwnEntryLeaves == Spec => EvictsOwnEntry
<1> DEFINE A(f) == allConns[f] \notin {NoConn, allConns'[f]} =>
                      \E l \in R!Loops : io[l].at = "closeApp" /\ io[l].conn = allConns[f]
<1>1. ASSUME RelayInv, [Next]_vars, NEW f \in Fds PROVE A(f)
  <2> SUFFICES ASSUME allConns[f] # NoConn, allConns[f] # allConns'[f]
               PROVE  \E l \in R!Loops : io[l].at = "closeApp" /\ io[l].conn = allConns[f]
    OBVIOUS
  <2>1. /\ allConns \in [Fds -> Conns \cup {NoConn}]
        /\ allConns[f] \in Conns /\ R!Held(allConns[f]) /\ fdOf[allConns[f]] = f
    BY <1>1, HeldRefs DEF RelayInv, EntriesInv, TypeOK
  <2>2. CASE /\ HandleNewConnection
             /\ allConns' = [allConns EXCEPT ![fdOf[main.conn]] = main.conn]
    <3>1. main.conn \in Conns /\ R!Held(main.conn)
      BY <1>1, <2>2, HeldRefs DEF RelayInv, HandleNewConnection
    <3>2. fdOf[main.conn] = f /\ allConns'[f] = main.conn
      BY <2>1, <2>2
    <3> QED
      BY <1>1, <2>1, <3>1, <3>2, OneOwner DEF RelayInv
  <2>3. ASSUME NEW l \in R!Loops, HandleClose(l),
               allConns' = [allConns EXCEPT ![fdOf[io[l].conn]] = NoConn]
        PROVE  io[l].at = "closeApp" /\ io[l].conn = allConns[f]
    <3>1. io[l].at = "closeApp" /\ io[l].conn \in Conns /\ R!Held(io[l].conn)
      BY <1>1, <2>3, HeldRefs DEF RelayInv, HandleClose
    <3>2. fdOf[io[l].conn] = f
      BY <2>1, <2>3
    <3> QED
      BY <1>1, <2>1, <3>1, <3>2, OneOwner DEF RelayInv
  <2> QED
    BY <1>1, <2>2, <2>3, EntriesChange DEF RelayInv
<1>2. RelayInv /\ [Next]_vars => \A f \in Fds : A(f)
  BY <1>1
<1> QED
  BY RelayInvariance, <1>2, PTL DEF Spec, EvictsOwnEntry

================================================================================
