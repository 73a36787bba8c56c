-------------------------- MODULE ThreadPoolProofs --------------------------
(***************************************************************************)
(* Theorems about ThreadPool for every finite set of workers and of calls. *)
(***************************************************************************)
EXTENDS ThreadPool, FiniteSetTheorems, TLAPS

USE DEF WorkerAt

\* The initial states satisfy the inductive invariant.
LEMMA InitIInv == Init => IInv
<1> SUFFICES ASSUME Init PROVE IInv
  OBVIOUS
<1>1. TypeOK
  <2>1. worker \in [Workers -> [at : Places, task : Tasks \cup {NoTask}]]
    BY DEF Init, Places
  <2>2. queue \in Seq(Tasks)
    BY DEF Init
  <2> QED
    BY <2>1, <2>2 DEF Init, TypeOK
<1>2. \A w \in Workers : worker[w].at = "test"
  BY DEF Init
<1>3. BlocksOnEmpty
  BY DEF Init, BlocksOnEmpty
<1>4. NoIdleHands
  BY <1>2 DEF NoIdleHands, Waiting, In
<1> QED
  BY <1>1, <1>3, <1>4 DEF IInv

\* Every step keeps every variable in its type.
LEMMA TypeStep ==
  ASSUME TypeOK, [Next]_vars
  PROVE  TypeOK'
<1> USE DEF TypeOK, Places
<1>1. ASSUME NEW t \in Tasks, AddTask(t) PROVE TypeOK'
  BY <1>1 DEF AddTask
<1>2. ASSUME NEW t \in Tasks, NotifyOne(t) PROVE TypeOK'
  BY <1>2 DEF NotifyOne, Waiting, In
<1>3. ASSUME NEW w \in Workers, Test(w) PROVE TypeOK'
  BY <1>3 DEF Test
<1>4. ASSUME NEW w \in Workers, Take(w) PROVE TypeOK'
  <2>1. Head(queue) \in Tasks /\ Tail(queue) \in Seq(Tasks)
    BY <1>4 DEF Take
  <2> QED
    BY <1>4, <2>1 DEF Take
<1>5. ASSUME NEW w \in Workers, Leave(w) PROVE TypeOK'
  BY <1>5 DEF Leave
<1>6. ASSUME NEW w \in Workers, Decide(w) PROVE TypeOK'
  BY <1>6 DEF Decide
<1>7. ASSUME NEW w \in Workers, Block(w) PROVE TypeOK'
  BY <1>7 DEF Block
<1>8. ASSUME NEW w \in Workers, Finish(w) PROVE TypeOK'
  BY <1>8 DEF Finish
<1>9. ASSUME NEW w \in Workers, SpuriousWake(w) PROVE TypeOK'
  BY <1>9 DEF SpuriousWake
<1>10. CASE StopStep
  BY <1>10 DEF StopStep, StopSet, StopNotify, StopJoin
<1>11. CASE Finished \/ UNCHANGED vars
  BY <1>11 DEF Finished, vars
<1> QED
  BY <1>1, <1>2, <1>3, <1>4, <1>5, <1>6, <1>7, <1>8, <1>9, <1>10, <1>11
     DEF Next, AddStep, LoopStep

\* Only a worker that found the queue empty holds mutex_ between two steps.
LEMMA BlocksStep ==
  ASSUME TypeOK, BlocksOnEmpty, [Next]_vars
  PROVE  BlocksOnEmpty'
<1> USE DEF TypeOK, BlocksOnEmpty, MutexFree, In
<1>1. ASSUME NEW t \in Tasks, AddStep(t) PROVE BlocksOnEmpty'
  BY <1>1 DEF AddStep, AddTask, NotifyOne, Waiting
<1>2. ASSUME NEW w \in Workers, Take(w) PROVE BlocksOnEmpty'
  BY <1>2 DEF Take
<1>3. ASSUME NEW w \in Workers, LoopStep(w) \/ Finish(w) \/ SpuriousWake(w), ~Take(w)
      PROVE BlocksOnEmpty'
  BY <1>3 DEF LoopStep, SpuriousWake, Test, Leave, Decide, Block, Finish
<1>4. CASE StopStep
  BY <1>4 DEF StopStep, StopSet, StopNotify, StopJoin, Waiting
<1>5. CASE Finished \/ UNCHANGED vars
  BY <1>5 DEF Finished, vars
<1> QED
  BY <1>1, <1>2, <1>3, <1>4, <1>5 DEF Next

\* Adding or removing one member of a finite set of workers or calls.
LEMMA CountType ==
  /\ IsFiniteSet(Awake) /\ Cardinality(Awake) \in Nat
  /\ IsFiniteSet(Notifying) /\ Cardinality(Notifying) \in Nat
<1>1. IsFiniteSet(Awake) /\ IsFiniteSet(Notifying)
  BY WorkersAssumption, TasksAssumption, FS_Subset DEF Awake, Notifying, In
<1> QED
  BY <1>1, FS_CardinalityType

\* Every step keeps the balance of tasks and threads coming for them.
LEMMA IdleStep ==
  ASSUME TypeOK, TypeOK', BlocksOnEmpty, NoIdleHands, [Next]_vars
  PROVE  NoIdleHands'
<1> SUFFICES ASSUME ~stop', Waiting' # {}
             PROVE  Len(queue') <= Cardinality(Notifying') + Cardinality(Awake')
  BY DEF NoIdleHands
<1> USE DEF TypeOK
<1>count. /\ IsFiniteSet(Awake) /\ Cardinality(Awake) \in Nat
          /\ IsFiniteSet(Notifying) /\ Cardinality(Notifying) \in Nat
  BY CountType
<1>len. Len(queue) \in Nat
  OBVIOUS
<1>stop. ~stop
  BY DEF Next, AddStep, AddTask, NotifyOne, LoopStep, Test, Take, Leave,
     Decide, Block, Finish, SpuriousWake, StopStep, StopSet, StopNotify, StopJoin,
     Finished, vars
<1>old. Waiting # {} => Len(queue) <= Cardinality(Notifying) + Cardinality(Awake)
  BY <1>stop DEF NoIdleHands
<1>1. ASSUME NEW t \in Tasks, AddTask(t)
      PROVE  Len(queue') <= Cardinality(Notifying') + Cardinality(Awake')
  <2>1. Notifying' = Notifying \cup {t} /\ t \notin Notifying
    BY <1>1 DEF AddTask, Notifying
  <2>2. Cardinality(Notifying') = Cardinality(Notifying) + 1
    BY <1>count, <2>1, FS_AddElement
  <2>3. Awake' = Awake /\ Waiting' = Waiting
    BY <1>1 DEF AddTask, Awake, Waiting, In
  <2>4. Len(queue') = Len(queue) + 1
    BY <1>1 DEF AddTask
  <2> QED
    BY <1>count, <1>len, <1>old, <2>2, <2>3, <2>4
<1>2. ASSUME NEW t \in Tasks, NotifyOne(t)
      PROVE  Len(queue') <= Cardinality(Notifying') + Cardinality(Awake')
  <2>1. Notifying' = Notifying \ {t} /\ t \in Notifying
    BY <1>2 DEF NotifyOne, Notifying
  <2>2. Cardinality(Notifying') = Cardinality(Notifying) - 1
    BY <1>count, <2>1, FS_RemoveElement
  <2>3. PICK w \in Waiting : worker' = [worker EXCEPT ![w].at = "lock"]
    BY <1>2 DEF NotifyOne, Waiting, In
  <2>4. Awake' = Awake \cup {w} /\ w \notin Awake
    BY <2>3 DEF Awake, Waiting, In
  <2>5. Cardinality(Awake') = Cardinality(Awake) + 1
    BY <1>count, <2>4, FS_AddElement
  <2>6. queue' = queue
    BY <1>2 DEF NotifyOne
  <2> QED
    BY <1>count, <1>len, <1>old, <2>2, <2>3, <2>5, <2>6
<1>3. ASSUME NEW w \in Workers, Take(w)
      PROVE  Len(queue') <= Cardinality(Notifying') + Cardinality(Awake')
  <2>1. Awake' = Awake \ {w} /\ w \in Awake /\ Waiting' = Waiting
    BY <1>3 DEF Take, Awake, Waiting, In
  <2>2. Cardinality(Awake') = Cardinality(Awake) - 1
    BY <1>count, <2>1, FS_RemoveElement
  <2>3. Len(queue') = Len(queue) - 1 /\ Notifying' = Notifying
    BY <1>3 DEF Take, Notifying
  <2> QED
    BY <1>count, <1>len, <1>old, <2>1, <2>2, <2>3
<1>4. ASSUME NEW w \in Workers, Test(w) \/ Finish(w) \/ SpuriousWake(w)
      PROVE  Len(queue') <= Cardinality(Notifying') + Cardinality(Awake')
  <2>1. Awake' = Awake \cup {w} /\ (Waiting' # {} => Waiting # {})
    BY <1>4, <1>stop DEF Test, Finish, SpuriousWake, Awake, Waiting, In
  <2>2. Cardinality(Awake') >= Cardinality(Awake) /\ Cardinality(Awake') \in Nat
    <3>1. Cardinality(Awake') = IF w \in Awake THEN Cardinality(Awake)
                                ELSE Cardinality(Awake) + 1
      BY <1>count, <2>1, FS_AddElement
    <3> QED
      BY <1>count, <3>1
  <2>3. queue' = queue /\ Notifying' = Notifying
    BY <1>4 DEF Test, Finish, SpuriousWake, Notifying
  <2> QED
    BY <1>count, <1>len, <1>old, <2>1, <2>2, <2>3
<1>5. ASSUME NEW w \in Workers, Leave(w) \/ Decide(w) \/ Block(w)
      PROVE  Len(queue') <= Cardinality(Notifying') + Cardinality(Awake')
  <2>1. queue = <<>> /\ queue' = queue
    BY <1>5 DEF Leave, Decide, Block, BlocksOnEmpty, MutexFree, In
  <2>2. Cardinality(Notifying') \in Nat /\ Cardinality(Awake') \in Nat
    <3>1. IsFiniteSet(Awake') /\ IsFiniteSet(Notifying')
      BY WorkersAssumption, TasksAssumption, FS_Subset DEF Awake, Notifying, In
    <3> QED
      BY <3>1, FS_CardinalityType
  <2> QED
    BY <2>1, <2>2
<1>6. CASE StopStep
  <2>1. Waiting' = {} \/ UNCHANGED <<worker, queue, call>>
    BY <1>6 DEF StopStep, StopSet, StopNotify, StopJoin, Waiting, In
  <2> QED
    BY <1>old, <2>1 DEF Awake, Waiting, Notifying, In
<1>7. CASE Finished \/ UNCHANGED vars
  BY <1>7, <1>old DEF Finished, vars, Awake, Waiting, Notifying, In
<1> QED
  BY <1>1, <1>2, <1>3, <1>4, <1>5, <1>6, <1>7
     DEF Next, AddStep, LoopStep

\* The inductive invariant: types, who may hold mutex_, and the balance of
\* tasks and threads, for any number of workers and of addtask calls.
THEOREM Invariance == Spec => []IInv
<1>1. Init => IInv
  BY InitIInv
<1>2. IInv /\ [Next]_vars => IInv'
  BY TypeStep, BlocksStep, IdleStep DEF IInv
<1> QED
  BY <1>1, <1>2, PTL DEF Spec

\* Every variable of the pool keeps its type: in particular no worker ever runs
\* the front of an empty queue.
THEOREM TypeCorrect == Spec => []TypeOK
<1>1. IInv => TypeOK
  BY DEF IInv
<1> QED
  BY <1>1, Invariance, PTL

\* ThreadPool::addtask never leaves a task to a sleeping worker.
THEOREM NoTaskLeftAsleep == Spec => []NoIdleHands
<1>1. IInv => NoIdleHands
  BY DEF IInv
<1> QED
  BY <1>1, Invariance, PTL

\* The queue under mutex_ is a FIFO mailbox also when stop() intervenes: each
\* task is started at most once and in the order of the calls.
THEOREM MailboxRefined == Spec => FifoQueue
<1>1. Init => Mail!Init
  BY DEF Init, Mail!Init
<1>2. ASSUME [Next]_vars PROVE [Mail!Next]_(Mail!mailVars)
  <2> USE DEF Mail!mailVars
  <2>1. ASSUME NEW t \in Tasks, AddTask(t) PROVE Mail!Next
    <3>1. Mail!Post("pool", t)
      BY <2>1 DEF AddTask, Mail!Post
    <3> QED
      BY <3>1 DEF Mail!Next
  <2>2. ASSUME NEW w \in Workers, Take(w) PROVE Mail!Next
    <3>1. Mail!Take("pool")
      BY <2>2 DEF Take, Mail!Take
    <3> QED
      BY <3>1 DEF Mail!Next
  <2>3. CASE queue' = queue
    BY <2>3
  <2> QED
    BY <1>2, <2>1, <2>2, <2>3 DEF Next, AddStep, NotifyOne, LoopStep,
       Test, Leave, Decide, Block, Finish, SpuriousWake, StopStep, StopSet,
       StopNotify, StopJoin, Finished, vars
<1> QED
  BY <1>1, <1>2, PTL DEF Spec, FifoQueue, Mail!Safe
==============================================================================
