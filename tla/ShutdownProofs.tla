--------------------------- MODULE ShutdownProofs ---------------------------
(***************************************************************************)
(* The pool of MySQL handles is safe for any number of workers and         *)
(* handles, and the relay from main() to its end uses its thread pool as   *)
(* ThreadPool and its database as DbPool describe, so that what is proved  *)
(* of the two is proved of the relay.                                      *)
(*                                                                         *)
(* That the relay closes every handle is not inductive: it needs that one    *)
(* signal has one handler, which joins the workers before it stops the loops *)
(* (RelayInv), so that disconnect() comes after the last query.            *)
(***************************************************************************)
EXTENDS Shutdown, ThreadPoolProofs, FiniteSetTheorems

-----------------------------------------------------------------------------
\* The pool of MySQL handles

\* The state a constructed DatabaseHelper starts in satisfies the invariant.
LEMMA DbInitInv == DbInit => DbInv
<1> SUFFICES ASSUME DbInit PROVE DbInv
  OBVIOUS
<1> USE NamesAssumption, CallsAssumption DEF DbInit, Threads
<1>1. \A t \in Threads : hand[t] = NoHandle /\ at[t] = "idle" /\ calls[t] = 0
  OBVIOUS
<1>2. DbTypeOK
  <2>1. calls \in [Threads -> 0 .. MaxCalls + 1]
    OBVIOUS
  <2>2. at \in [Threads -> {"idle", "get", "waiting", "query", "joined"}]
    OBVIOUS
  <2>3. hand \in [Threads -> Handles \cup {NoHandle}]
    OBVIOUS
  <2>4. QED
    BY <1>1, <2>1, <2>2, <2>3 DEF DbTypeOK
<1>3. HandlesKept
  <2>1. {hand[t] : t \in Threads} \ {NoHandle} = {}
    BY <1>1
  <2>2. opened = pool \cup closed \cup ({hand[t] : t \in Threads} \ {NoHandle})
    BY <2>1
  <2>3. QED
    BY <1>1, <2>2 DEF HandlesKept
<1>4. StageInv
  BY <1>1 DEF StageInv
<1>5. QED
  BY <1>2, <1>3, <1>4 DEF DbInv

\* However a query returns, its handle goes back to the pool.
LEMMA ReleaseIs ==
  ASSUME NEW t \in Threads, Release(t)
  PROVE  Return(t) /\ GiveBack(t)
BY DEF Release, Written, SelectFails, NoResult, RowsRead

\* Every step of main(), Stop() and the queries preserves it.
LEMMA DbNextInv == DbInv /\ [DbNext]_dbVars => DbInv'
<1> SUFFICES ASSUME DbInv, [DbNext]_dbVars
             PROVE  DbInv'
    OBVIOUS
<1> USE NamesAssumption, CallsAssumption
<1> USE DEF DbInv, DbTypeOK, HandlesKept, StageInv, Threads
<1>1. CASE OpenPool
  <2>1. /\ closed = {} /\ closed' = {} /\ hand' = hand /\ at' = at
        /\ \A t \in Threads : hand[t] = NoHandle /\ at[t] # "query"
    BY <1>1 DEF OpenPool
  <2>2. PICK open \in SUBSET Handles :
          /\ opened' = open /\ pool' = open
          /\ connected' = (open # {})
          /\ stage' = IF open = {} THEN "serving" ELSE "tables"
          /\ calls' = [calls EXCEPT ![Main] = IF open = {} THEN 0 ELSE 1]
    BY <1>1 DEF OpenPool
  <2>3. DbTypeOK'
    BY <2>1, <2>2
  <2>4. HandlesKept'
    <3>1. {hand'[t] : t \in Threads} \ {NoHandle} = {}
      BY <2>1
    <3>2. opened' = pool' \cup closed' \cup ({hand'[t] : t \in Threads} \ {NoHandle})
      BY <2>1, <2>2, <3>1
    <3>3. QED
      BY <2>1, <2>2, <3>2
  <2>5. StageInv'
    <3>1. \A t \in Threads : at'[t] \notin {"get", "waiting", "query"}
      BY <2>1, <1>1 DEF OpenPool
    <3>2. at'[Main] = "idle" /\ calls'[Main] = IF open = {} THEN 0 ELSE 1
      BY <2>1, <2>2, <1>1 DEF OpenPool
    <3>3. \A w \in Callers : at'[w] = "idle" /\ calls'[w] = 0
      BY <2>1, <2>2, <1>1 DEF OpenPool
    <3>4. QED
      BY <2>1, <2>2, <3>1, <3>2, <3>3
  <2>7. QED
    BY <2>3, <2>4, <2>5
<1>2. CASE StartServer
  BY <1>2 DEF StartServer
<1>3. CASE Disconnect
  <2>1. /\ hand' = hand /\ opened' = opened /\ at' = at /\ calls' = calls
        /\ stage' = "closing" /\ connected' = FALSE
    BY <1>3 DEF Disconnect
  <2>2. \/ pool' = {} /\ closed' = closed \cup pool
        \/ pool' = pool /\ closed' = closed
    BY <1>3 DEF Disconnect
  <2>3. DbTypeOK'
    BY <2>1, <2>2
  <2>4. HandlesKept'
    BY <2>1, <2>2
  <2>5. StageInv'
    BY <1>3, <2>1, <2>2 DEF Disconnect
  <2>6. QED
    BY <2>3, <2>4, <2>5
<1>4. CASE StopServer
  BY <1>4 DEF StopServer
<1>5. ASSUME NEW w \in Callers, StartJob(w)
      PROVE  DbInv'
  BY <1>5 DEF StartJob
<1>6. ASSUME NEW w \in Callers, Join(w)
      PROVE  DbInv'
  BY <1>6 DEF Join
<1>7. ASSUME NEW t \in Threads, Skip(t)
      PROVE  DbInv'
  BY <1>7 DEF Skip
<1>8. ASSUME NEW t \in Threads, Call(t)
      PROVE  DbInv'
  BY <1>8 DEF Call
<1>9. ASSUME NEW t \in Threads, Get(t)
      PROVE  DbInv'
  BY <1>9 DEF Get
<1>10. ASSUME NEW t \in Threads, Wait(t)
       PROVE  DbInv'
  BY <1>10 DEF Wait
<1>11. ASSUME NEW t \in Threads, Release(t)
       PROVE  DbInv'
  BY <1>11, ReleaseIs DEF GiveBack, Return, Sleepers
<1>12. ASSUME NEW t \in Threads, SleeperWakes(t)
       PROVE  DbInv'
  BY <1>12 DEF SleeperWakes
<1>14. ASSUME NEW t \in Threads, GetNothing(t)
       PROVE  DbInv'
  BY <1>14 DEF GetNothing
<1>15. CASE EndProcess
  BY <1>15 DEF EndProcess
<1>13. CASE UNCHANGED dbVars
  BY <1>13 DEF dbVars
<1>16. QED
  BY <1>1, <1>2, <1>3, <1>4, <1>5, <1>6, <1>7, <1>8, <1>9, <1>10, <1>11, <1>12, <1>13,
     <1>14, <1>15
     DEF DbNext, MainStep, QueryStep, Exited

\* The invariant holds in every state of every run of the pool.
THEOREM PoolInvariance == DbSpec => []DbInv
<1>1. QED
  BY DbInitInv, DbNextInv, PTL DEF DbSpec

\* The types, with the handle a thread has in each step of a query.
THEOREM PoolTypeCorrect == DbSpec => []DbTypeOK
BY PoolInvariance, PTL DEF DbInv

\* A MYSQL object is in the pool, with one thread, or closed, whatever path
\* the queries take.
THEOREM NoHandleLostOrShared == DbSpec => []HandlesKept
BY PoolInvariance, PTL DEF DbInv

-----------------------------------------------------------------------------
\* Nobody sleeps beside a free handle: handles and threads that look for one
\* are counted.

\* Both are finite sets.
LEMMA DbCounts ==
  ASSUME DbTypeOK
  PROVE  /\ IsFiniteSet(pool) /\ Cardinality(pool) \in Nat
         /\ IsFiniteSet(Looking) /\ Cardinality(Looking) \in Nat
<1>1. IsFiniteSet(pool)
  BY FiniteAssumption, FS_Subset DEF DbTypeOK
<1>2. IsFiniteSet(Threads)
  BY FiniteAssumption, FS_AddElement DEF Threads
<1>3. IsFiniteSet(Looking)
  BY <1>2, FS_Subset DEF Looking
<1> QED
  BY <1>1, <1>3, FS_CardinalityType

\* Every step keeps the balance of free handles and threads that look for one.
LEMMA HandleStep ==
  ASSUME DbInv, DbInv', NoIdleHandle, [DbNext]_dbVars
  PROVE  NoIdleHandle'
<1> SUFFICES ASSUME Sleepers' # {}
             PROVE  Cardinality(pool') <= Cardinality(Looking')
  BY DEF NoIdleHandle
<1> USE DEF DbInv
<1>count. /\ IsFiniteSet(pool) /\ Cardinality(pool) \in Nat
          /\ IsFiniteSet(Looking) /\ Cardinality(Looking) \in Nat
  BY DbCounts
<1>next. Cardinality(Looking') \in Nat
  <2>1. IsFiniteSet(Threads)
    BY FiniteAssumption, FS_AddElement DEF Threads
  <2>2. IsFiniteSet(Looking')
    BY <2>1, FS_Subset DEF Looking
  <2> QED
    BY <2>2, FS_CardinalityType
<1>old. Sleepers # {} => Cardinality(pool) <= Cardinality(Looking)
  BY DEF NoIdleHandle
<1>same. ASSUME pool' = pool, at' = at
         PROVE  Cardinality(pool') <= Cardinality(Looking')
  BY <1>old, <1>same DEF Sleepers, Looking
<1>1. CASE OpenPool
  BY <1>1, NamesAssumption DEF OpenPool, Sleepers, StageInv, Threads
<1>2. CASE StartServer \/ StopServer \/ EndProcess \/ Exited \/ UNCHANGED dbVars
  BY <1>2, <1>same DEF StartServer, StopServer, EndProcess, Exited, dbVars
<1>3. CASE Disconnect
  <2>1. CASE connected
    <3>1. Cardinality(pool') = 0
      BY <1>3, <2>1, FS_EmptySet DEF Disconnect
    <3> QED
      BY <3>1, <1>next
  <2>2. CASE ~connected
    BY <1>3, <2>2, <1>same DEF Disconnect
  <2> QED
    BY <2>1, <2>2
<1>4. ASSUME NEW w \in Callers, StartJob(w) \/ Join(w)
      PROVE  Cardinality(pool') <= Cardinality(Looking')
  <2>1. CASE StartJob(w)
    BY <2>1, <1>same DEF StartJob
  <2>2. CASE Join(w)
    <3>1. pool' = pool /\ Looking' = Looking /\ Sleepers' = Sleepers
      BY <2>2 DEF Join, Looking, Sleepers, DbTypeOK, Threads
    <3> QED
      BY <3>1, <1>old
  <2> QED
    BY <1>4, <2>1, <2>2
<1>5. ASSUME NEW t \in Threads, Skip(t)
      PROVE  Cardinality(pool') <= Cardinality(Looking')
  BY <1>5, <1>same DEF Skip
<1>6. ASSUME NEW t \in Threads, Call(t) \/ SleeperWakes(t)
      PROVE  Cardinality(pool') <= Cardinality(Looking')
  <2>1. /\ pool' = pool /\ Looking' = Looking \cup {t} /\ t \notin Looking
        /\ Sleepers' # {} => Sleepers # {}
    BY <1>6 DEF Call, SleeperWakes, Looking, Sleepers, DbTypeOK
  <2>2. Cardinality(Looking') = Cardinality(Looking) + 1
    BY <2>1, <1>count, FS_AddElement
  <2> QED
    BY <2>1, <2>2, <1>count, <1>old
<1>7. ASSUME NEW t \in Threads, Get(t)
      PROVE  Cardinality(pool') <= Cardinality(Looking')
  <2>1. PICK h \in pool : pool' = pool \ {h}
    BY <1>7 DEF Get
  <2>2. Looking' = Looking \ {t} /\ t \in Looking /\ Sleepers' = Sleepers
    BY <1>7 DEF Get, Looking, Sleepers, DbTypeOK
  <2>3. Cardinality(pool') = Cardinality(pool) - 1
    BY <2>1, <1>count, FS_RemoveElement
  <2>4. Cardinality(Looking') = Cardinality(Looking) - 1
    BY <2>2, <1>count, FS_RemoveElement
  <2> QED
    BY <2>2, <2>3, <2>4, <1>count, <1>old
<1>8. ASSUME NEW t \in Threads, Wait(t)
      PROVE  Cardinality(pool') <= Cardinality(Looking')
  <2>1. Cardinality(pool') = 0
    BY <1>8, FS_EmptySet DEF Wait
  <2> QED
    BY <2>1, <1>next
<1>9. ASSUME NEW t \in Threads, Release(t)
      PROVE  Cardinality(pool') <= Cardinality(Looking')
  <2>1. PICK s \in Sleepers : at' = [at EXCEPT ![t] = "idle", ![s] = "get"]
    BY <1>9, ReleaseIs DEF GiveBack, Return, Sleepers, DbTypeOK
  <2>2. Looking' = Looking \cup {s} /\ s \notin Looking
    BY <1>9, <2>1, ReleaseIs DEF Return, Looking, Sleepers, DbTypeOK
  <2>3. Cardinality(Looking') = Cardinality(Looking) + 1
    BY <2>2, <1>count, FS_AddElement
  <2>4. pool' = pool \cup {hand[t]} /\ hand[t] \notin pool
    BY <1>9, ReleaseIs DEF GiveBack, Return, HandlesKept, DbTypeOK
  <2>5. Cardinality(pool') = Cardinality(pool) + 1
    BY <2>4, <1>count, FS_AddElement
  <2> QED
    BY <2>1, <2>3, <2>5, <1>count, <1>old
<1>10. ASSUME NEW t \in Threads, GetNothing(t)
       PROVE  Cardinality(pool') <= Cardinality(Looking')
  <2>1. Cardinality(pool') = 0
    BY <1>10, FS_EmptySet DEF GetNothing
  <2> QED
    BY <2>1, <1>next
<1> QED
  BY <1>1, <1>2, <1>3, <1>4, <1>5, <1>6, <1>7, <1>8, <1>9, <1>10
     DEF DbNext, MainStep, QueryStep

\* No thread sleeps in getConnection() while handles lie in the pool, but for
\* those that threads already woken will take.
THEOREM NoHandleIdle == DbSpec => []NoIdleHandle
<1>1. DbInit => NoIdleHandle
  BY DEF DbInit, NoIdleHandle, Sleepers
<1>2. DbInv /\ DbInv' /\ NoIdleHandle /\ [DbNext]_dbVars => NoIdleHandle'
  BY HandleStep
<1> QED
  BY <1>1, <1>2, PoolInvariance, PTL DEF DbSpec

-----------------------------------------------------------------------------
\* The relay from main() to its end

\* A step of the relay is, for the pool of threads, a step of ThreadPool or
\* none.
LEMMA PoolStep == [RelayNext]_relayVars => [Next]_vars
<1> SUFFICES ASSUME [RelayNext]_relayVars
             PROVE  [Next]_vars
  OBVIOUS
<1> USE DEF vars, poolVars
<1>1. CASE UNCHANGED relayVars \/ Ended
  BY <1>1 DEF Ended, relayVars
<1>2. CASE Start \/ MainReturns \/ ProcessEnds \/ IoStep \/ IoWakes
  BY <1>2 DEF Start, MainReturns, ProcessEnds, IoStep, IoWakes
<1>3. ASSUME NEW t \in All, Signal(t) \/ SignalAgain(t)
      PROVE  [Next]_vars
  BY <1>3 DEF Signal, SignalAgain, Next, StopStep
<1>4. CASE Dies
  BY <1>4 DEF Dies, SignalEarly, StopsTwice, JoinSelf, DeleteUnjoined, SignalLate
<1>5. CASE StopRelay
  <2>1. CASE NotifyAll
    BY <2>1 DEF NotifyAll, Next, StopStep
  <2>2. CASE NotifyIo
    BY <2>2 DEF NotifyIo
  <2>3. ASSUME NEW w \in Workers, JoinWorker(w)
        PROVE  UNCHANGED vars
    BY <2>3 DEF JoinWorker
  <2> QED BY <1>5, <2>1, <2>2, <2>3 DEF StopRelay
<1>6. ASSUME NEW t \in All, HandlerStep(t)
      PROVE  [Next]_vars
  <2>1. CASE Joined(t)
    BY <2>1 DEF Joined, Next, StopStep
  <2>2. CASE StopLoops(t) \/ StopIo(t) \/ JoinIo(t) \/ Delete(t) \/ Exit(t)
    BY <2>2 DEF StopLoops, StopIo, JoinIo, Delete, Exit
  <2> QED BY <1>6, <2>1, <2>2 DEF HandlerStep
<1>7. ASSUME NEW t \in Tasks, HandleMessage(t)
      PROVE  Next
  BY <1>7 DEF HandleMessage, Next
<1>8. ASSUME NEW w \in Workers, WorkerStep(w)
      PROVE  [Next]_vars
  <2>1. CASE BeginJob(w)
    BY <2>1 DEF BeginJob, Next, LoopStep
  <2>2. CASE Query(w)
    BY <2>2 DEF Query
  <2>3. CASE EndJob(w)
    BY <2>3 DEF EndJob, Next
  <2>4. CASE Loop(w)
    BY <2>4 DEF Loop, Next, LoopStep
  <2> QED BY <1>8, <2>1, <2>2, <2>3, <2>4 DEF WorkerStep
<1>9. ASSUME NEW w \in Workers, Wakes(w)
      PROVE  [Next]_vars
  BY <1>9 DEF Wakes, Next
<1> QED BY <1>1, <1>2, <1>3, <1>4, <1>5, <1>6, <1>7, <1>8, <1>9 DEF RelayNext

\* The same for the database: the relay queries it, stops and closes it as
\* DbPool says.
LEMMA DbStep == [RelayNext]_relayVars => [DbNext]_dbVars
<1> SUFFICES ASSUME [RelayNext]_relayVars
             PROVE  [DbNext]_dbVars
  OBVIOUS
<1>1. CASE UNCHANGED relayVars \/ Ended
  BY <1>1 DEF Ended, relayVars
<1>2. CASE Start
  BY <1>2 DEF Start, DbNext, MainStep, Threads
<1>3. CASE MainReturns \/ ProcessEnds
  BY <1>3 DEF MainReturns, ProcessEnds, DbNext, MainStep
<1>4. CASE IoStep \/ IoWakes
  BY <1>4 DEF IoStep, IoWakes
<1>5. ASSUME NEW t \in All, Signal(t) \/ SignalAgain(t)
      PROVE  [DbNext]_dbVars
  BY <1>5 DEF Signal, SignalAgain, DbNext
<1>6. CASE Dies
  BY <1>6 DEF Dies, SignalEarly, StopsTwice, JoinSelf, DeleteUnjoined, SignalLate
<1>7. CASE StopRelay
  <2>1. CASE NotifyAll \/ NotifyIo
    BY <2>1 DEF NotifyAll, NotifyIo
  <2>2. ASSUME NEW w \in Workers, JoinWorker(w)
        PROVE  DbNext
    BY <2>2, CallersAssumption DEF JoinWorker, DbNext
  <2> QED BY <1>7, <2>1, <2>2 DEF StopRelay
<1>8. ASSUME NEW t \in All, HandlerStep(t)
      PROVE  [DbNext]_dbVars
  <2>1. CASE Exit(t)
    BY <2>1 DEF Exit, DbNext, MainStep
  <2>2. CASE Joined(t) \/ StopLoops(t) \/ StopIo(t) \/ JoinIo(t) \/ Delete(t)
    BY <2>2 DEF Joined, StopLoops, StopIo, JoinIo, Delete
  <2> QED BY <1>8, <2>1, <2>2 DEF HandlerStep
<1>9. ASSUME NEW t \in Tasks, HandleMessage(t)
      PROVE  UNCHANGED dbVars
  BY <1>9 DEF HandleMessage
<1>10. ASSUME NEW w \in Workers, WorkerStep(w)
       PROVE  [DbNext]_dbVars
  <2>1. CASE BeginJob(w)
    BY <2>1, CallersAssumption DEF BeginJob, DbNext
  <2>2. CASE Query(w)
    BY <2>2, CallersAssumption DEF Query, DbNext, Threads
  <2>3. CASE EndJob(w) \/ Loop(w)
    BY <2>3 DEF EndJob, Loop
  <2> QED BY <1>10, <2>1, <2>2, <2>3 DEF WorkerStep
<1>11. ASSUME NEW w \in Workers, Wakes(w)
       PROVE  [DbNext]_dbVars
  BY <1>11, CallersAssumption DEF Wakes, DbNext, Threads
<1> QED BY <1>1, <1>2, <1>3, <1>4, <1>5, <1>6, <1>7, <1>8, <1>9, <1>10, <1>11 DEF RelayNext

-----------------------------------------------------------------------------
\* The thread pool of the relay is a ThreadPool, whichever threads catch the
\* signals (RelayServer::threadpool_).
THEOREM UsesThreadPool == RelaySpec => Spec
<1>1. RelayInit => Init
  BY DEF RelayInit
<1> QED BY <1>1, PoolStep, PTL DEF RelaySpec, Spec

\* The relay uses the database as DbPool has it (OnMessage, Stop, disconnect).
THEOREM DatabaseUsed == RelaySpec => UsesDbPool
<1>1. RelayInit => DbInit
  BY DEF RelayInit
<1> QED BY <1>1, DbStep, PTL DEF RelaySpec, DbSpec, UsesDbPool

-----------------------------------------------------------------------------
\* One signal has one handler: when it stops the loops the workers have been
\* joined, and so they have when disconnect() is called.

AllJoined == \A w \in Workers : at[w] = "joined"

RelayInv ==
    /\ signals \in Nat
    /\ DOMAIN handler = All
    /\ signals = 0 =>
         /\ stage \in {"start", "tables", "serving"} /\ stopper = "out" /\ ~loopStop
         /\ \A t \in All : handler[t] = "out"
    /\ stopper = "done" => AllJoined
    /\ signals <= 1 =>
         /\ loopStop => stopper = "done"
         /\ \A t \in All : handler[t] \notin {"out", "workers"} => stopper = "done"
         /\ stage \in {"closing", "exit"} => AllJoined /\ pool = {}

\* Threads that have been joined are not heard of again.
LEMMA JoinedStay ==
  ASSUME DbInv, [DbNext]_dbVars, AllJoined
  PROVE  /\ AllJoined'
         /\ stage \in {"closing", "exit"} /\ pool = {} => pool' = {}
<1> USE DEF DbInv, DbTypeOK, StageInv, AllJoined, Threads
<1> USE CallersAssumption, NamesAssumption
<1>1. CASE OpenPool \/ StartServer \/ StopServer \/ Disconnect \/ EndProcess \/ Exited
  BY <1>1 DEF OpenPool, StartServer, StopServer, Disconnect, EndProcess, Exited, dbVars
<1>2. ASSUME NEW w \in Callers, StartJob(w) \/ Join(w)
      PROVE  AllJoined' /\ pool' = pool
  BY <1>2 DEF StartJob, Join
<1>3. ASSUME NEW t \in Threads, QueryStep(t) \/ SleeperWakes(t)
      PROVE  /\ AllJoined'
             /\ stage \in {"closing", "exit"} => pool' = pool
  <2>1. CASE Skip(t) \/ Call(t) \/ GetNothing(t) \/ Wait(t) \/ SleeperWakes(t)
    BY <2>1 DEF Skip, Call, GetNothing, Wait, SleeperWakes
  <2>2. CASE Get(t)
    BY <2>2 DEF Get
  <2>3. CASE Release(t)
    BY <2>3, ReleaseIs DEF Return, GiveBack, Sleepers
  <2> QED
    BY <1>3, <2>1, <2>2, <2>3 DEF QueryStep
<1>4. CASE UNCHANGED dbVars
  BY <1>4 DEF dbVars
<1> QED
  BY <1>1, <1>2, <1>3, <1>4 DEF DbNext, MainStep

\* It holds of every step: of the signals, of the handlers, and of the rest.
LEMMA RelayInvNext == DbInv /\ RelayInv /\ [RelayNext]_relayVars => RelayInv'
<1> SUFFICES ASSUME DbInv, RelayInv, [RelayNext]_relayVars
             PROVE  RelayInv'
  OBVIOUS
<1>db. [DbNext]_dbVars
  BY DbStep
<1>stay. AllJoined => /\ AllJoined'
                      /\ stage \in {"closing", "exit"} /\ pool = {} => pool' = {}
  BY <1>db, JoinedStay
<1>same. ASSUME signals' = signals, handler' = handler, loopStop' = loopStop,
                stopper' = stopper \/ (stopper = "notify" /\ stopper' = "join"),
                stage' = stage \/ (stage = "closing" /\ stage' = "exit")
                  \/ {stage, stage'} \subseteq {"start", "tables", "serving"}
         PROVE  RelayInv'
  BY <1>same, <1>stay DEF RelayInv
<1>1. CASE UNCHANGED relayVars \/ Ended
  BY <1>1, <1>same DEF Ended, relayVars, dbVars, poolVars, signalVars, ioVars
<1>2. CASE Start
  <2>1. stage' = stage \/ {stage, stage'} \subseteq {"start", "tables", "serving"}
    BY <1>2 DEF Start, OpenPool, StartServer, QueryStep, Skip, Call, Get, GetNothing, Wait,
                Release, Written, SelectFails, NoResult, RowsRead, Return
  <2> QED
    BY <1>2, <2>1, <1>same DEF Start, poolVars, signalVars, ioVars
<1>3. CASE ProcessEnds
  BY <1>3, <1>same DEF ProcessEnds, EndProcess, poolVars, signalVars, ioVars
<1>4. CASE MainReturns
  <2>1. signals' = signals /\ handler' = handler /\ loopStop' = loopStop /\ stopper' = stopper
    BY <1>4 DEF MainReturns, poolVars, signalVars, ioVars
  <2>2. loopStop /\ stage = "stopping" /\ stage' = "closing"
    BY <1>4 DEF MainReturns, Disconnect
  <2>3. pool' = {}
    BY <1>4, <2>2 DEF MainReturns, Disconnect, DbInv, StageInv, HandlesKept
  <2> QED
    BY <2>1, <2>2, <2>3, <1>stay DEF RelayInv
<1>5. CASE IoStep \/ IoWakes
  BY <1>5, <1>same DEF IoStep, IoWakes, poolVars, dbVars, signalVars
<1>6. ASSUME NEW t \in All, Signal(t)
      PROVE  RelayInv'
  <2>1. /\ signals' = signals + 1 /\ handler' = [handler EXCEPT ![t] = "workers"]
        /\ loopStop' = loopStop /\ stopper' = "notify" /\ stage' = "stopping"
    BY <1>6 DEF Signal, Enter, StopSet, StopServer, ioVars
  <2> QED
    BY <2>1 DEF RelayInv
<1>7. ASSUME NEW t \in All, SignalAgain(t)
      PROVE  RelayInv'
  <2>1. /\ signals' = signals + 1 /\ handler' = [handler EXCEPT ![t] = "server"]
        /\ stopper' = stopper /\ stage = "stopping" /\ stage' = stage
    BY <1>7 DEF SignalAgain, Enter, poolVars, dbVars
  <2> QED
    BY <2>1, <1>stay DEF RelayInv
<1>8. CASE Dies
  <2>1. CASE SignalEarly \/ JoinSelf \/ DeleteUnjoined
    BY <2>1, <1>same DEF SignalEarly, JoinSelf, DeleteUnjoined, poolVars, dbVars, signalVars, ioVars
  <2>2. CASE StopsTwice \/ SignalLate
    <3>1. /\ signals' = signals \/ signals' = signals + 1
          /\ handler' = handler /\ loopStop' = loopStop
          /\ stopper' = stopper /\ UNCHANGED dbVars
      BY <2>2 DEF StopsTwice, SignalLate, LastSignal, poolVars, ioVars
    <3>2. signals' = signals + 1 => signals > 0
      BY <2>2 DEF StopsTwice, SignalLate, LastSignal, RelayInv, InHandler
    <3> QED
      BY <3>1, <3>2, <1>stay DEF RelayInv, dbVars
  <2> QED
    BY <1>8, <2>1, <2>2 DEF Dies
<1>9. CASE StopRelay
  <2>1. CASE NotifyAll
    BY <2>1, <1>same DEF NotifyAll, StopNotify, dbVars, signalVars, ioVars
  <2>2. CASE NotifyIo
    BY <2>2, <1>same DEF NotifyIo, poolVars, dbVars, signalVars
  <2>3. ASSUME NEW w \in Workers, JoinWorker(w)
        PROVE  RelayInv'
    BY <2>3, <1>same DEF JoinWorker, Join, poolVars, signalVars, ioVars
  <2> QED BY <1>9, <2>1, <2>2, <2>3 DEF StopRelay
<1>10. ASSUME NEW t \in All, HandlerStep(t)
       PROVE  RelayInv'
  <2>1. CASE Joined(t)
    <3>1. /\ signals' = signals /\ handler' = [handler EXCEPT ![t] = "server"]
          /\ loopStop' = loopStop /\ stopper' = "done" /\ UNCHANGED dbVars
          /\ AllJoined /\ handler[t] = "workers"
      BY <2>1 DEF Joined, Goes, StopJoin, ioVars, AllJoined
    <3> QED
      BY <3>1, <1>stay DEF RelayInv, dbVars
  <2>2. CASE StopLoops(t)
    <3>1. /\ signals' = signals /\ handler' = [handler EXCEPT ![t] = "io"]
          /\ stopper' = stopper /\ UNCHANGED dbVars /\ handler[t] = "server"
      BY <2>2 DEF StopLoops, Goes, poolVars
    <3> QED
      BY <3>1, <1>stay DEF RelayInv, dbVars
  <2>3. CASE StopIo(t) \/ JoinIo(t) \/ Delete(t)
    <3>1. /\ signals' = signals /\ loopStop' = loopStop /\ stopper' = stopper /\ UNCHANGED dbVars
          /\ handler[t] \in {"io", "join", "delete"}
          /\ \E p \in {"join", "delete", "exit"} : handler' = [handler EXCEPT ![t] = p]
      BY <2>3 DEF StopIo, JoinIo, Delete, Goes, poolVars, ioVars
    <3> QED
      BY <3>1, <1>stay DEF RelayInv, dbVars
  <2>4. CASE Exit(t)
    <3>1. signals' = signals /\ handler' = handler /\ loopStop' = loopStop /\ stopper' = stopper
      BY <2>4 DEF Exit, poolVars, signalVars, ioVars
    <3>2. handler[t] = "exit" /\ stage = "stopping" /\ stage' = "closing"
      BY <2>4 DEF Exit, Disconnect
    <3>3. pool' = {}
      BY <2>4, <3>2 DEF Exit, Disconnect, DbInv, StageInv, HandlesKept
    <3> QED
      BY <3>1, <3>2, <3>3, <1>stay DEF RelayInv
  <2> QED BY <1>10, <2>1, <2>2, <2>3, <2>4 DEF HandlerStep
<1>11. ASSUME NEW t \in Tasks, HandleMessage(t)
       PROVE  RelayInv'
  BY <1>11, <1>same DEF HandleMessage, AddStep, AddTask, NotifyOne, dbVars, signalVars, ioVars
<1>12. ASSUME NEW w \in Workers, WorkerStep(w)
       PROVE  RelayInv'
  <2>1. stopper' = stopper /\ stage' = stage
    BY <1>12 DEF WorkerStep, BeginJob, Query, EndJob, Loop, Take, StartJob, Finish, Test, Leave,
                 Decide, Block, QueryStep, Skip, Call, Get, GetNothing, Wait, Release, Written,
                 SelectFails, NoResult, RowsRead, Return, poolVars, dbVars
  <2> QED
    BY <1>12, <2>1, <1>same DEF WorkerStep, signalVars, ioVars
<1>13. ASSUME NEW w \in Workers, Wakes(w)
       PROVE  RelayInv'
  <2>1. stopper' = stopper /\ stage' = stage
    BY <1>13 DEF Wakes, SpuriousWake, SleeperWakes, poolVars, dbVars
  <2> QED
    BY <1>13, <2>1, <1>same DEF Wakes, signalVars, ioVars
<1> QED
  BY <1>1, <1>2, <1>3, <1>4, <1>5, <1>6, <1>7, <1>8, <1>9, <1>10, <1>11, <1>12, <1>13
     DEF RelayNext

\* The inductive invariant of Stop(int), for any number of workers.
THEOREM RelayInvariance == RelaySpec => [](DbInv /\ RelayInv)
<1>1. RelayInit => RelayInv
  BY DEF RelayInit, Init, DbInit, RelayInv
<1>2. RelaySpec => []DbInv
  BY DatabaseUsed, PoolInvariance, PTL DEF UsesDbPool
<1> QED BY <1>1, <1>2, RelayInvNext, PTL DEF RelaySpec

-----------------------------------------------------------------------------
\* From main() to the end of the process, signals included, no MYSQL object is
\* shared or lost.
THEOREM RelayKeepsHandles == RelaySpec => []HandlesKept
BY DatabaseUsed, NoHandleLostOrShared, PTL DEF UsesDbPool

\* After one signal, in whatever thread, the relay ends with every MySQL
\* connection closed and none in use, whatever was queued or running when the
\* signal came.
THEOREM RelayClosesHandles == RelaySpec => []AllClosed
<1>1. DbInv /\ RelayInv => AllClosed
  <2> SUFFICES ASSUME DbInv, RelayInv, stage = "exit", signals <= 1
               PROVE  closed = opened /\ \A t \in Threads : hand[t] = NoHandle
    BY DEF AllClosed
  <2>1. \A t \in Threads : hand[t] = NoHandle
    BY CallersAssumption DEF RelayInv, AllJoined, DbInv, DbTypeOK, StageInv, Threads
  <2>2. {hand[t] : t \in Threads} \ {NoHandle} = {}
    BY <2>1
  <2> QED
    BY <2>1, <2>2 DEF RelayInv, DbInv, HandlesKept
<1> QED BY <1>1, RelayInvariance, PTL

\* No worker of the relay sleeps in getConnection() beside a free handle.
THEOREM RelayUsesHandles == RelaySpec => []NoIdleHandle
BY DatabaseUsed, NoHandleIdle, PTL DEF UsesDbPool

\* Nor in ThreadPool beside a task, until the relay is stopped.
THEOREM RelayWakesWorkers == RelaySpec => []NoIdleHands
BY UsesThreadPool, NoTaskLeftAsleep, PTL

\* The relay's OnMessage calls start in the order in which they were queued,
\* each at most once.
THEOREM RelayTakesInOrder == RelaySpec => FifoQueue
BY UsesThreadPool, MailboxRefined, PTL
=============================================================================
