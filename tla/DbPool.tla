-------------------------------- MODULE DbPool --------------------------------
(***************************************************************************)
(* DatabaseHelper, the pool of MySQL handles of the relay: opened by main, *)
(* shared by the workers of RelayServer, closed by Stop or after main().    *)
(* Every use of m_pool, m_cond and m_isConnected under m_mutex is one step. *)
(* The order of the queue m_pool is left out.                              *)
(***************************************************************************)
EXTENDS Integers, FiniteSets

CONSTANTS Callers,   \* threads of RelayServer::threadpool_
          Main,      \* the thread of main()
          Handles,   \* MYSQL objects connect() tries to open (m_poolSize)
          NoHandle,
          MaxCalls   \* bound: queries of one OnMessage

ASSUME NamesAssumption == Main \notin Callers /\ NoHandle \notin Handles
ASSUME CallsAssumption == MaxCalls \in Nat
ASSUME FiniteAssumption == IsFiniteSet(Callers) /\ IsFiniteSet(Handles)

Threads == Callers \cup {Main}

VARIABLES
  stage,      \* how far main() and Stop() are
  connected,  \* m_isConnected
  pool,       \* m_pool
  opened,     \* handles mysql_real_connect has opened
  closed,     \* handles mysql_close has closed
  at,         \* where each thread is in a query
  hand,       \* the handle it has
  calls       \* queries left in its OnMessage (for Main, in initTables)

dbVars == <<stage, connected, pool, opened, closed, at, hand, calls>>

Sleepers == {t \in Threads : at[t] = "waiting"}
Looking == {t \in Threads : at[t] = "get"}

\* Types, and who has a handle.
DbTypeOK ==
    /\ stage \in {"start", "tables", "serving", "stopping", "closing", "exit"}
    /\ connected \in BOOLEAN
    /\ pool \subseteq Handles /\ opened \subseteq Handles /\ closed \subseteq Handles
    /\ at \in [Threads -> {"idle", "get", "waiting", "query", "joined"}]
    /\ hand \in [Threads -> Handles \cup {NoHandle}]
    /\ calls \in [Threads -> 0 .. MaxCalls + 1]
    /\ \A t \in Threads : hand[t] # NoHandle <=> at[t] = "query"

DbInit ==
    /\ stage = "start" /\ connected = FALSE
    /\ pool = {} /\ opened = {} /\ closed = {}
    /\ at = [t \in Threads |-> "idle"]
    /\ hand = [t \in Threads |-> NoHandle]
    /\ calls = [t \in Threads |-> 0]

-----------------------------------------------------------------------------
\* main() and Stop()

\* connect(): each handle opens or does not; with none the relay serves
\* without a database, else main goes on to initTables().
OpenPool ==
    /\ stage = "start"
    /\ \E open \in SUBSET Handles :
         /\ opened' = open /\ pool' = open
         /\ connected' = (open # {})
         /\ stage' = IF open = {} THEN "serving" ELSE "tables"
         /\ calls' = [calls EXCEPT ![Main] = IF open = {} THEN 0 ELSE 1]
    /\ UNCHANGED <<closed, at, hand>>

StartServer ==
    /\ stage = "tables" /\ at[Main] = "idle" /\ calls[Main] = 0
    /\ stage' = "serving"
    /\ UNCHANGED <<connected, pool, opened, closed, at, hand, calls>>

\* ThreadPool::stop: workers end the OnMessage they are in and are joined.
StopServer ==
    /\ stage = "serving"
    /\ stage' = "stopping"
    /\ UNCHANGED <<connected, pool, opened, closed, at, hand, calls>>

Join(w) ==
    /\ stage = "stopping" /\ at[w] = "idle" /\ calls[w] = 0
    /\ at' = [at EXCEPT ![w] = "joined"]
    /\ UNCHANGED <<stage, connected, pool, opened, closed, hand, calls>>

\* disconnect(), in Stop or when main() has returned, closes the handles that
\* lie in the pool; it waits for nobody, and wakes nobody.
Disconnect ==
    /\ stage = "stopping"
    /\ stage' = "closing"
    /\ IF connected
       THEN closed' = closed \cup pool /\ pool' = {} /\ connected' = FALSE
       ELSE UNCHANGED <<closed, pool, connected>>
    /\ UNCHANGED <<opened, at, hand, calls>>

\* exit(): the process is over, with every thread that still runs.
EndProcess ==
    /\ stage = "closing"
    /\ stage' = "exit"
    /\ UNCHANGED <<connected, pool, opened, closed, at, hand, calls>>

-----------------------------------------------------------------------------
\* Queries: initTables, upsertOrder, insertTransportLog, getAllOrders,
\* getOrderHistory

\* OnMessage begins, which it may do until the process is over; it will query
\* up to MaxCalls times.
StartJob(w) ==
    /\ stage \in {"serving", "stopping", "closing"} /\ at[w] = "idle" /\ calls[w] = 0
    /\ \E n \in 0 .. MaxCalls : calls' = [calls EXCEPT ![w] = n]
    /\ UNCHANGED <<stage, connected, pool, opened, closed, at, hand>>

\* if (!m_isConnected) return
Skip(t) ==
    /\ at[t] = "idle" /\ calls[t] > 0 /\ ~connected
    /\ calls' = [calls EXCEPT ![t] = @ - 1]
    /\ UNCHANGED <<stage, connected, pool, opened, closed, at, hand>>

Call(t) ==
    /\ at[t] = "idle" /\ calls[t] > 0 /\ connected
    /\ at' = [at EXCEPT ![t] = "get"]
    /\ UNCHANGED <<stage, connected, pool, opened, closed, hand, calls>>

\* getConnection() finds a handle, ...
Get(t) ==
    /\ at[t] = "get"
    /\ \E h \in pool :
         /\ hand' = [hand EXCEPT ![t] = h]
         /\ pool' = pool \ {h}
    /\ at' = [at EXCEPT ![t] = "query"]
    /\ UNCHANGED <<stage, connected, opened, closed, calls>>

\* ... or returns nullptr when disconnect() came first, and so does the query ...
GetNothing(t) ==
    /\ at[t] = "get" /\ pool = {} /\ ~connected
    /\ at' = [at EXCEPT ![t] = "idle"]
    /\ calls' = [calls EXCEPT ![t] = @ - 1]
    /\ UNCHANGED <<stage, connected, pool, opened, closed, hand>>

\* ... or waits.
Wait(t) ==
    /\ at[t] = "get" /\ pool = {} /\ connected
    /\ at' = [at EXCEPT ![t] = "waiting"]
    /\ UNCHANGED <<stage, connected, pool, opened, closed, hand, calls>>

SleeperWakes(t) ==
    /\ at[t] = "waiting" /\ stage # "exit"
    /\ at' = [at EXCEPT ![t] = "get"]
    /\ UNCHANGED <<stage, connected, pool, opened, closed, hand, calls>>

\* Mutant: no notify_one.
GiveBackSilent(t) ==
    /\ pool' = pool \cup {hand[t]}
    /\ hand' = [hand EXCEPT ![t] = NoHandle]
    /\ at' = [at EXCEPT ![t] = "idle"]

\* releaseConnection(): the handle goes back and notify_one wakes a thread.
GiveBack(t) ==
    /\ pool' = pool \cup {hand[t]}
    /\ hand' = [hand EXCEPT ![t] = NoHandle]
    /\ \/ Sleepers = {} /\ at' = [at EXCEPT ![t] = "idle"]
       \/ \E s \in Sleepers : at' = [at EXCEPT ![t] = "idle", ![s] = "get"]

\* The query returns.
Return(t) ==
    /\ at[t] = "query"
    /\ calls' = [calls EXCEPT ![t] = @ - 1]
    /\ UNCHANGED <<stage, connected, opened, closed>>

\* initTables, upsertOrder and insertTransportLog have written, or failed to.
Written(t) == Return(t) /\ GiveBack(t)

\* Mutant: the handle is not released when the SELECT fails.
SelectFailsKeeps(t) ==
    /\ t \in Callers /\ Return(t)
    /\ hand' = [hand EXCEPT ![t] = NoHandle]
    /\ at' = [at EXCEPT ![t] = "idle"]
    /\ UNCHANGED pool

\* getAllOrders and getOrderHistory have each three ways out: mysql_query
\* fails, there is no result set, or its rows have been read.
SelectFails(t) == t \in Callers /\ Return(t) /\ GiveBack(t)
NoResult(t) == t \in Callers /\ Return(t) /\ GiveBack(t)
RowsRead(t) == t \in Callers /\ Return(t) /\ GiveBack(t)

-----------------------------------------------------------------------------
MainStep == OpenPool \/ StartServer \/ Disconnect \/ EndProcess
Release(t) == Written(t) \/ SelectFails(t) \/ NoResult(t) \/ RowsRead(t)
QueryStep(t) ==
    /\ stage # "exit"
    /\ Skip(t) \/ Call(t) \/ Get(t) \/ GetNothing(t) \/ Wait(t) \/ Release(t)

\* The process has ended.
Exited == stage = "exit" /\ UNCHANGED dbVars

DbNext ==
    \/ MainStep \/ StopServer \/ Exited
    \/ \E w \in Callers : StartJob(w) \/ Join(w)
    \/ \E t \in Threads : QueryStep(t) \/ SleeperWakes(t)

DbSpec == DbInit /\ [][DbNext]_dbVars

-----------------------------------------------------------------------------
\* Safety

\* A MYSQL object is in the pool, in the hands of one thread, or closed: two
\* threads never share one (libmysqlclient does not allow it), and no path of
\* a query loses one.
HandlesKept ==
    /\ opened = pool \cup closed \cup ({hand[t] : t \in Threads} \ {NoHandle})
    /\ pool \cap closed = {}
    /\ \A t \in Threads : hand[t] \notin pool \cup closed
    /\ \A t, u \in Threads : hand[t] = hand[u] /\ hand[t] # NoHandle => t = u

\* Nobody sleeps while handles lie in the pool, but for those that threads
\* already woken or about to look will take.
NoIdleHandle == Sleepers # {} => Cardinality(pool) <= Cardinality(Looking)

\* Handles are taken by callers that saw m_isConnected, and only disconnect()
\* closes them.
StageInv ==
    /\ connected => stage \in {"tables", "serving", "stopping"}
    /\ stage = "start" => at[Main] = "idle"
    /\ stage \in {"serving", "stopping", "closing", "exit"} => at[Main] = "idle" /\ calls[Main] = 0
    /\ stage \in {"start", "tables"} => \A w \in Callers : at[w] = "idle" /\ calls[w] = 0
    /\ stage \notin {"closing", "exit"} => closed = {}
    /\ ~connected /\ stage \notin {"closing", "exit"} => opened = {}
    /\ at[Main] # "joined"
    /\ \A t \in Threads : at[t] \in {"get", "waiting", "query"} => calls[t] > 0

DbInv == DbTypeOK /\ HandlesKept /\ StageInv
==============================================================================
