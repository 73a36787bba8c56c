---------------------------- MODULE ReactorProofs ----------------------------
(***************************************************************************)
(* Theorems about Reactor for every set of connections, descriptors, loops *)
(* and application threads.                                                *)
(***************************************************************************)
EXTENDS Reactor, TLAPS

USE DEF Looping, Idling, At, MainAt, SenderAt

LEMMA LoopingType == Looping \in IoStates
  BY BoundsAssumption DEF IoStates, IoSteps

\* Changing one field of a loop's control point.
LEMMA IoUpdate ==
  ASSUME NEW s \in IoStates
  PROVE  /\ s.conn \in Conns \cup {NoConn}
         /\ \A step \in IoSteps : [s EXCEPT !.at = step] \in IoStates
         /\ s.left > 0 => [s EXCEPT !.left = @ - 1] \in IoStates
         /\ \A fds \in SUBSET Fds, c \in Conns \cup {NoConn}, step \in {"timer", "erase"} :
              At(step, c, 0, fds) \in IoStates
<1>1. s.left \in 0 .. MaxFrames /\ s.conn \in Conns \cup {NoConn}
  BY DEF IoStates
<1>2. s.left > 0 => s.left - 1 \in 0 .. MaxFrames
  BY <1>1, BoundsAssumption
<1>3. {"timer", "erase"} \subseteq IoSteps /\ 0 \in 0 .. MaxFrames
  BY BoundsAssumption DEF IoSteps
<1> QED
  BY <1>1, <1>2, <1>3 DEF IoStates

\* The initial states satisfy the inductive invariant.
LEMMA InitIInv == Init => IInv
<1> SUFFICES ASSUME Init PROVE IInv
  OBVIOUS
<1> USE DEF Init
<1>1. TypeOK
  <2>1. Looping \in IoStates
    BY LoopingType
  <2> QED
    BY <2>1, BoundsAssumption DEF TypeOK, Tasks
<1>2. HandsInv
  BY DEF HandsInv
<1>3. \A c \in Conns : ~Held(c)
  BY ConnsAssumption DEF Held
<1>4. FdInv /\ FdExclusive
  BY <1>3 DEF FdInv, FdExclusive
<1>5. OwnerInv /\ SweepInv /\ WakePending
  BY ConnsAssumption DEF OwnerInv, SweepInv, WakePending
<1> QED
  BY <1>1, <1>2, <1>4, <1>5 DEF IInv

\* The loop of a descriptor exists.
LEMMA LoopOfType ==
  ASSUME TypeOK, NEW c \in Conns, fdOf[c] # NoFd
  PROVE  LoopOf(c) \in Loops
<1>1. fdOf[c] \in Nat
  BY FdsAssumption DEF TypeOK
<1>3. threadnum \in Nat /\ threadnum > 0
  BY ThreadnumAssumption
<1>2. \A m, n \in Nat : n > 0 => m % n \in 0 .. n - 1
  OBVIOUS
<1> QED
  BY <1>1, <1>2, <1>3 DEF LoopOf, Loops

\* Every step keeps every variable in its type.
LEMMA TypeStep ==
  ASSUME TypeOK, HandsInv, FdInv, [Next]_vars
  PROVE  TypeOK'
<1> USE DEF TypeOK, connVars, mapVars, kernelVars
<1>1. ASSUME NEW c \in Conns, PeerSend(c) PROVE TypeOK'
  <2>1. inq' \in [Conns -> 0 .. MaxFrames]
    BY <1>1, BoundsAssumption DEF PeerSend
  <2> QED
    BY <1>1, <2>1 DEF PeerSend, Up
<1>15. ASSUME NEW c \in Conns, PeerClose(c) PROVE TypeOK'
  BY <1>15 DEF PeerClose, Up
<1>2. ASSUME NEW c \in Conns, GoIdle(c) PROVE TypeOK'
  BY <1>2 DEF GoIdle, Up
<1>3. ASSUME NEW l \in Loops, TimerFires(l) PROVE TypeOK'
  BY <1>3 DEF TimerFires, Up
<1>4. ASSUME NEW c \in Conns, NEW f \in Fds, Accept(c, f) PROVE TypeOK'
  BY <1>4 DEF Accept, Up
<1>5. ASSUME NEW how \in {"abort", "exited", "killed", "ub"}, Die(how) PROVE TypeOK'
  BY <1>5 DEF Die
<1>6. CASE AcceptFail \/ InsertLoopRace
  BY <1>6, <1>5 DEF AcceptFail, InsertLoopRace
<1>7. CASE Wire
  BY <1>7 DEF Wire, Up
<1>8. CASE InsertServer
  BY <1>8 DEF InsertServer, Up
<1>9. CASE InsertLoop
  BY <1>9 DEF InsertLoop, Up
<1>10. CASE NewConnCb
  BY <1>10, ConnsAssumption DEF NewConnCb, HandsInv, Up
<1>11. ASSUME NEW t \in Senders, NEW c \in Conns, AppSend(t, c) PROVE TypeOK'
  BY <1>11 DEF AppSend, Up
<1>12. ASSUME NEW t \in Senders, NEW m \in Payloads, AppPush(t, m) PROVE TypeOK'
  <2>1. sender[t].conn \in Conns
    BY <1>12 DEF AppPush, HandsInv
  <2>2. [conn |-> sender[t].conn, msg |-> m] \in Tasks
    BY <2>1 DEF Tasks
  <2>3. tasks' \in [Loops -> Seq(Tasks)]
    <3> DEFINE task == [conn |-> sender[t].conn, msg |-> m]
    <3>1. \A q \in Seq(Tasks) : Append(q, task) \in Seq(Tasks)
      BY <2>2
    <3>2. tasks' = [tasks EXCEPT ![LoopOf(sender[t].conn)] = Append(@, task)]
      BY <1>12 DEF AppPush
    <3> QED
      BY <3>1, <3>2
  <2> QED
    BY <1>12, <2>1, <2>3 DEF AppPush, Up
<1>13. ASSUME NEW t \in Senders, AppWake(t) PROVE TypeOK'
  <2>1. sender[t].conn \in Conns
    BY <1>13 DEF AppWake, HandsInv
  <2>2. LoopOf(sender[t].conn) \in Loops
    BY <2>1, LoopOfType DEF FdInv, Held
  <2> QED
    BY <1>13, <2>2 DEF AppWake, Up
<1>14. CASE AppDrop
  BY <1>14 DEF AppDrop, Up
<1>16. ASSUME NEW l \in Loops, EpollWait(l) PROVE TypeOK'
  <2>1. Ready(l) \subseteq Conns \cup {"wake", "timer"}
    BY DEF Ready
  <2> QED
    BY <1>16, <2>1 DEF EpollWait, Up
<1>17. ASSUME NEW l \in Loops, NEW c \in Conns, DispatchRead(l, c) PROVE TypeOK'
  <2>1. At("deliver", c, inq[c], {}) \in IoStates
    BY DEF IoStates, IoSteps
  <2>2. inq' \in [Conns -> 0 .. MaxFrames]
    BY <1>17, BoundsAssumption DEF DispatchRead
  <2> QED
    BY <1>17, <2>1, <2>2 DEF DispatchRead, Handles, Up
<1>18. ASSUME NEW l \in Loops, NEW c \in Conns, DispatchClose(l, c) PROVE TypeOK'
  <2>1. At("closeApp", c, 0, {}) \in IoStates
    BY BoundsAssumption DEF IoStates, IoSteps
  <2>2. inq' \in [Conns -> 0 .. MaxFrames]
    BY <1>18, BoundsAssumption DEF DispatchClose
  <2> QED
    BY <1>18, <2>1, <2>2 DEF DispatchClose, Handles, Up
<1>19. ASSUME NEW l \in Loops, Deliver(l) PROVE TypeOK'
  <2>1. io[l] \in IoStates /\ io[l].at = "deliver"
    BY <1>19 DEF Deliver
  <2>2. io[l].conn \in Conns /\ io[l].left > 0
    BY <2>1, IoUpdate DEF HandsInv
  <2>3. [io[l] EXCEPT !.left = @ - 1] \in IoStates
    BY <2>1, <2>2, IoUpdate
  <2>4. io' \in [Loops -> IoStates]
    <3>1. io' = [io EXCEPT ![l] = IF io[l].left = 1 THEN Looping
                                  ELSE [io[l] EXCEPT !.left = @ - 1]]
      BY <1>19 DEF Deliver
    <3> QED
      BY <3>1, <2>3, LoopingType
  <2> QED
    BY <1>19, <2>2, <2>4 DEF Deliver, Up
<1>20. ASSUME NEW l \in Loops, CloseApp(l) \/ DrainStart(l) PROVE TypeOK'
  <2>1. \A step \in IoSteps : [io[l] EXCEPT !.at = step] \in IoStates
    BY IoUpdate
  <2>2. io' \in [Loops -> IoStates]
    BY <1>20, <2>1 DEF CloseApp, DrainStart, IoSteps
  <2>3. appRefs' \subseteq Conns
    BY <1>20 DEF CloseApp, DrainStart
  <2> QED
    BY <1>20, <2>2, <2>3 DEF CloseApp, DrainStart, Up
<1>21. ASSUME NEW l \in Loops, CloseServer(l) PROVE TypeOK'
  BY <1>21, LoopingType DEF CloseServer, Up
<1>28. ASSUME NEW l \in Loops, WakeRead(l) PROVE TypeOK'
  <2>1. At("woken", NoConn, 0, {}) \in IoStates
    BY BoundsAssumption DEF IoStates, IoSteps
  <2> QED
    BY <1>28, <2>1 DEF WakeRead, Handles, Up
<1>29. ASSUME NEW l \in Loops, DrainEnd(l) PROVE TypeOK'
  BY <1>29, LoopingType DEF DrainEnd, Up
<1>22. ASSUME NEW l \in Loops, WakeTask(l) PROVE TypeOK'
  <2>1. Tail(tasks[l]) \in Seq(Tasks) /\ Head(tasks[l]) \in Tasks
    BY <1>22 DEF WakeTask
  <2>2. Head(tasks[l]).conn \in Conns
    BY <2>1 DEF Tasks
  <2> QED
    BY <1>22, <2>1, <2>2 DEF WakeTask, Up
<1>23. ASSUME NEW l \in Loops, HandleTimer(l) PROVE TypeOK'
  BY <1>23, BoundsAssumption DEF HandleTimer, Handles, IoStates, IoSteps, Up
<1>24. ASSUME NEW l \in Loops, NEW f \in Fds, TimerVisit(l, f) PROVE TypeOK'
  <2>1. /\ At("erase", loopConns[f], 0, io[l].sweep \ {f}) \in IoStates
        /\ At("timer", NoConn, 0, io[l].sweep \ {f}) \in IoStates
    <3>1. io[l] \in IoStates /\ io[l].sweep \ {f} \in SUBSET Fds
      BY DEF IoStates
    <3> QED
      BY <3>1, IoUpdate
  <2>2. io' \in [Loops -> IoStates]
    BY <1>24, <2>1 DEF TimerVisit
  <2>3. serverConns' \in [Fds -> Conns \cup {NoConn}]
    BY <1>24 DEF TimerVisit
  <2> QED
    BY <1>24, <2>2, <2>3 DEF TimerVisit, Up
<1>30. ASSUME NEW l \in Loops, TimerErase(l) PROVE TypeOK'
  <2>1. At("timer", NoConn, 0, io[l].sweep) \in IoStates
    <3>1. io[l] \in IoStates /\ io[l].sweep \in SUBSET Fds
      BY DEF IoStates
    <3> QED
      BY <3>1, IoUpdate
  <2>2. io' \in [Loops -> IoStates]
    BY <1>30, <2>1 DEF TimerErase
  <2>3. loopConns' \in [Fds -> Conns \cup {NoConn}]
    BY <1>30 DEF TimerErase
  <2> QED
    BY <1>30, <2>2, <2>3 DEF TimerErase, Up
<1>25. ASSUME NEW l \in Loops, TimerEnd(l) PROVE TypeOK'
  BY <1>25, LoopingType DEF TimerEnd, Up
<1>26. ASSUME NEW l \in Loops,
              DeliverDead(l) \/ WakeTaskFails(l)
              \/ \E c \in Conns : DispatchDead(l, c) \/ DispatchUnwired(l, c)
       PROVE  TypeOK'
  BY <1>26, <1>5 DEF DeliverDead, WakeTaskFails, DispatchDead, DispatchUnwired
<1>27. CASE UNCHANGED vars
  BY <1>27 DEF vars
<1> HIDE DEF TypeOK
<1> QED
  BY <1>1, <1>2, <1>3, <1>4, <1>6, <1>7, <1>8, <1>9, <1>10, <1>11, <1>12, <1>13,
     <1>14, <1>15, <1>16, <1>17, <1>18, <1>19, <1>20, <1>21, <1>22, <1>23, <1>24,
     <1>25, <1>26, <1>27, <1>28, <1>29, <1>30
     DEF Next, PeerStep, ClockStep, MainStep, MainFinish, SenderStep, IoStep, Halted

-----------------------------------------------------------------------------
\* Who owns a descriptor

\* Only Accept gives a descriptor or adds to a tree; only DispatchClose closes.
LEMMA ConnStep ==
  ASSUME [Next]_vars
  PROVE  \/ UNCHANGED <<fdOf, tree, disconnect>>
         \/ \E c \in Conns, f \in Fds : Accept(c, f)
         \/ \E l \in Loops, c \in Conns : DispatchClose(l, c)
<1> USE DEF connVars
<1>1. CASE PeerStep \/ ClockStep \/ AppDrop
  BY <1>1 DEF PeerStep, PeerSend, PeerClose, ClockStep, GoIdle, TimerFires, AppDrop
<1>2. CASE MainStep
  BY <1>2 DEF MainStep, MainFinish, AcceptFail, Wire, InsertServer,
              InsertLoop, InsertLoopRace, NewConnCb, Die
<1>3. ASSUME NEW t \in Senders, SenderStep(t)
      PROVE  UNCHANGED <<fdOf, tree, disconnect>>
  BY <1>3 DEF SenderStep, AppSend, AppPush, AppWake
<1>4. ASSUME NEW l \in Loops, IoStep(l)
      PROVE  \/ UNCHANGED <<fdOf, tree, disconnect>>
             \/ \E c \in Conns : DispatchClose(l, c)
  BY <1>4 DEF IoStep, EpollWait, DispatchDead, DispatchUnwired, DispatchRead,
     Deliver, DeliverDead, CloseApp, CloseServer, WakeRead, DrainStart, WakeTask,
     WakeTaskFails, DrainEnd, HandleTimer, TimerVisit, TimerErase, TimerEnd, Die
<1>5. CASE Halted \/ UNCHANGED vars
  BY <1>5 DEF Halted, vars
<1> QED
  BY <1>1, <1>2, <1>3, <1>4, <1>5 DEF Next

\* A connection that nobody held is held after a step only if it was accepted.
LEMMA HeldStep ==
  ASSUME TypeOK, HandsInv, [Next]_vars, NEW c \in Conns, Held(c)', ~Held(c)
  PROVE  \E f \in Fds : Accept(c, f)
<1> USE DEF Held, connVars, mapVars, kernelVars
<1>1. CASE PeerStep \/ ClockStep \/ AppDrop
  BY <1>1 DEF PeerStep, PeerSend, PeerClose, ClockStep, GoIdle, TimerFires, AppDrop
<1>2. CASE MainFinish \/ AcceptFail
  <2>1. CASE Wire
    BY <2>1 DEF Wire
  <2>2. CASE InsertServer
    BY <2>2 DEF InsertServer, TypeOK
  <2>3. CASE InsertLoop
    BY <2>3 DEF InsertLoop, TypeOK
  <2>4. CASE NewConnCb
    BY <2>4, ConnsAssumption DEF NewConnCb
  <2>5. CASE InsertLoopRace \/ AcceptFail
    BY <2>5 DEF InsertLoopRace, AcceptFail, Die
  <2> QED
    BY <1>2, <2>1, <2>2, <2>3, <2>4, <2>5 DEF MainFinish
<1>3. ASSUME NEW d \in Conns, NEW f \in Fds, Accept(d, f) PROVE c = d
  BY <1>3 DEF Accept
<1>4. ASSUME NEW t \in Senders, SenderStep(t) PROVE FALSE
  <2>1. ASSUME NEW d \in Conns, AppSend(t, d) PROVE FALSE
    <3>1. sender' = [sender EXCEPT ![t] = SenderAt("push", d)] /\ d \in appRefs
      BY <2>1 DEF AppSend
    <3>2. \A s \in Senders : sender'[s].conn \in {sender[s].conn, d}
      BY <3>1 DEF TypeOK
    <3> QED
      BY <2>1, <3>1, <3>2 DEF AppSend
  <2>2. ASSUME NEW m \in Payloads, AppPush(t, m) PROVE FALSE
    <3>1. \A s \in Senders : sender'[s].conn = sender[s].conn
      BY <2>2 DEF AppPush, TypeOK
    <3> QED
      BY <2>2, <3>1 DEF AppPush
  <2>3. CASE AppWake(t)
    <3>1. \A s \in Senders : sender'[s].conn \in {sender[s].conn, NoConn}
      BY <2>3 DEF AppWake, TypeOK
    <3> QED
      BY <2>3, <3>1, ConnsAssumption DEF AppWake
  <2> QED
    BY <1>4, <2>1, <2>2, <2>3 DEF SenderStep
<1>5. ASSUME NEW l \in Loops, IoStep(l) PROVE FALSE
  <2>1. ASSUME NEW d \in Conns, DispatchRead(l, d) \/ DispatchClose(l, d) PROVE FALSE
    <3>1. \A k \in Loops : io'[k] = io[k] \/ (io'[k].conn = d /\ Held(d))
      BY <2>1 DEF DispatchRead, DispatchClose, TypeOK
    <3> QED
      BY <2>1, <3>1 DEF DispatchRead, DispatchClose
  <2>2. CASE Deliver(l)
    BY <2>2 DEF Deliver, TypeOK
  <2>3. CASE CloseApp(l) \/ CloseServer(l)
    <3>1. ASSUME NEW k \in Loops, io'[k].at \in {"closeApp", "closeServer"}
          PROVE  io'[k].conn = io[k].conn /\ io[k].at \in {"closeApp", "closeServer"}
      <4>1. CASE CloseApp(l)
        BY <4>1, <3>1 DEF CloseApp, TypeOK, IoStates
      <4>2. CASE CloseServer(l)
        BY <4>2, <3>1 DEF CloseServer, TypeOK
      <4> QED
        BY <2>3, <4>1, <4>2
    <3>2. \A f \in Fds : serverConns'[f] \in {serverConns[f], NoConn}
      BY <2>3 DEF CloseApp, CloseServer, TypeOK
    <3> QED
      BY <2>3, <3>1, <3>2, ConnsAssumption DEF CloseApp, CloseServer
  <2>4. CASE (\E f \in Fds : TimerVisit(l, f)) \/ TimerErase(l)
    <3>1. ASSUME NEW k \in Loops
          PROVE  io'[k] = io[k] \/ io'[k].at \notin {"closeApp", "closeServer"}
      BY <2>4 DEF TimerVisit, TimerErase, TypeOK
    <3>2. \A f \in Fds : /\ serverConns'[f] \in {serverConns[f], NoConn}
                         /\ loopConns'[f] \in {loopConns[f], NoConn}
      BY <2>4 DEF TimerVisit, TimerErase, TypeOK
    <3> QED
      BY <2>4, <3>1, <3>2, ConnsAssumption DEF TimerVisit, TimerErase
  <2>5. CASE WakeRead(l) \/ DrainStart(l) \/ DrainEnd(l) \/ HandleTimer(l) \/ TimerEnd(l)
    <3>1. ASSUME NEW k \in Loops
          PROVE  io'[k] = io[k] \/ io'[k].at \notin {"closeApp", "closeServer"}
      <4>1. CASE DrainStart(l)
        BY <4>1 DEF DrainStart, TypeOK, IoStates
      <4>2. CASE WakeRead(l) \/ HandleTimer(l)
        BY <4>2 DEF WakeRead, HandleTimer, TypeOK
      <4>3. CASE DrainEnd(l) \/ TimerEnd(l)
        BY <4>3 DEF DrainEnd, TimerEnd, TypeOK
      <4> QED
        BY <2>5, <4>1, <4>2, <4>3
    <3> QED
      BY <2>5, <3>1 DEF WakeRead, DrainStart, DrainEnd, HandleTimer, TimerEnd
  <2>6. CASE \/ EpollWait(l) \/ WakeTask(l) \/ WakeTaskFails(l) \/ DeliverDead(l)
             \/ \E d \in Conns : DispatchDead(l, d) \/ DispatchUnwired(l, d)
    BY <2>6 DEF EpollWait, WakeTask, WakeTaskFails, DeliverDead, DispatchDead,
                DispatchUnwired, Die
  <2> QED
    BY <1>5, <2>1, <2>2, <2>3, <2>4, <2>5, <2>6 DEF IoStep
<1>6. CASE Halted \/ UNCHANGED vars
  BY <1>6 DEF Halted, vars
<1> QED
  BY <1>1, <1>2, <1>3, <1>4, <1>5, <1>6 DEF Next, MainStep

\* A descriptor, once given, stays with its connection.
LEMMA FdStep ==
  ASSUME TypeOK, [Next]_vars, NEW c \in Conns
  PROVE  /\ fdOf[c] # NoFd => fdOf'[c] = fdOf[c]
         /\ (\E f \in Fds : Accept(c, f)) \/ fdOf'[c] = fdOf[c]
<1>1. CASE \/ UNCHANGED <<fdOf, tree, disconnect>>
           \/ \E l \in Loops, d \in Conns : DispatchClose(l, d)
  BY <1>1 DEF DispatchClose
<1>2. ASSUME NEW d \in Conns, NEW f \in Fds, Accept(d, f)
      PROVE  /\ fdOf[c] # NoFd => fdOf'[c] = fdOf[c]
             /\ (\E g \in Fds : Accept(c, g)) \/ fdOf'[c] = fdOf[c]
  BY <1>2 DEF Accept, TypeOK
<1> QED
  BY <1>1, <1>2, ConnStep

LEMMA FdInvStep ==
  ASSUME TypeOK, HandsInv, FdInv, [Next]_vars
  PROVE  FdInv'
<1> SUFFICES ASSUME NEW c \in Conns, Held(c)' \/ c \in tree' \cup disconnect'
             PROVE  fdOf'[c] # NoFd
  BY DEF FdInv
<1>1. ASSUME NEW f \in Fds, Accept(c, f) PROVE fdOf'[c] # NoFd
  BY <1>1, FdsAssumption DEF Accept, TypeOK
<1>2. CASE fdOf[c] # NoFd
  BY <1>2, FdStep
<1>3. CASE Held(c)' /\ fdOf[c] = NoFd
  BY <1>1, <1>3, HeldStep DEF FdInv
<1>4. CASE c \in tree' /\ fdOf[c] = NoFd
  <2>1. c \notin tree
    BY <1>4 DEF FdInv
  <2>2. PICK d \in Conns, f \in Fds : Accept(d, f)
    BY <1>4, <2>1, ConnStep DEF DispatchClose
  <2>3. tree' = tree \cup {d}
    BY <2>2 DEF Accept
  <2> QED
    BY <1>1, <1>4, <2>1, <2>2, <2>3
<1>5. CASE c \in disconnect' /\ fdOf[c] = NoFd
  <2>1. c \notin disconnect /\ ~Held(c)
    BY <1>5 DEF FdInv
  <2>2. PICK l \in Loops, d \in Conns : DispatchClose(l, d)
    BY <1>5, <2>1, ConnStep DEF Accept
  <2> QED
    BY <1>5, <2>1, <2>2 DEF DispatchClose
<1> QED
  BY <1>2, <1>3, <1>4, <1>5

\* Only five steps touch the maps keyed by descriptor.
LEMMA MapStep ==
  ASSUME [Next]_vars
  PROVE  \/ UNCHANGED mapVars
         \/ InsertServer \/ InsertLoop
         \/ \E l \in Loops : CloseServer(l) \/ TimerErase(l)
         \/ \E l \in Loops, f \in Fds : TimerVisit(l, f)
<1> USE DEF mapVars
<1>1. CASE PeerStep \/ ClockStep \/ AppDrop
  BY <1>1 DEF PeerStep, PeerSend, PeerClose, ClockStep, GoIdle, TimerFires, AppDrop
<1>2. CASE MainStep
  BY <1>2 DEF MainStep, MainFinish, Accept, AcceptFail, Wire, InsertLoopRace,
              NewConnCb, Die
<1>3. ASSUME NEW t \in Senders, SenderStep(t) PROVE UNCHANGED mapVars
  BY <1>3 DEF SenderStep, AppSend, AppPush, AppWake
<1>4. ASSUME NEW l \in Loops, IoStep(l)
      PROVE  \/ UNCHANGED mapVars \/ CloseServer(l) \/ TimerErase(l)
             \/ \E f \in Fds : TimerVisit(l, f)
  BY <1>4 DEF IoStep, EpollWait, DispatchDead, DispatchUnwired, DispatchRead,
     DispatchClose, Deliver, DeliverDead, CloseApp, WakeRead, DrainStart, WakeTask,
     WakeTaskFails, DrainEnd, HandleTimer, TimerEnd, Die
<1>5. CASE Halted \/ UNCHANGED vars
  BY <1>5 DEF Halted, vars
<1> QED
  BY <1>1, <1>2, <1>3, <1>4, <1>5 DEF Next

\* The entries after a step are old ones or the connection being set up.
LEMMA EntryStep ==
  ASSUME TypeOK, [Next]_vars, NEW f \in Fds,
         NEW c \in {serverConns'[f], loopConns'[f]} \ {NoConn}
  PROVE  \/ c \in {serverConns[f], loopConns[f]}
         \/ c = main.conn /\ fdOf[c] = f /\ main.at # "wait"
<1>1. CASE UNCHANGED mapVars
  BY <1>1 DEF mapVars
<1>2. CASE InsertServer
  BY <1>2 DEF InsertServer, TypeOK
<1>3. CASE InsertLoop
  BY <1>3 DEF InsertLoop, TypeOK
<1>4. ASSUME NEW l \in Loops, CloseServer(l) PROVE c \in {serverConns[f], loopConns[f]}
  BY <1>4 DEF CloseServer, TypeOK
<1>5. ASSUME NEW l \in Loops, NEW g \in Fds, TimerVisit(l, g)
      PROVE  c \in {serverConns[f], loopConns[f]}
  BY <1>5 DEF TimerVisit, TypeOK
<1>6. ASSUME NEW l \in Loops, TimerErase(l) PROVE c \in {serverConns[f], loopConns[f]}
  BY <1>6 DEF TimerErase, TypeOK
<1> QED
  BY <1>1, <1>2, <1>3, <1>4, <1>5, <1>6, MapStep

LEMMA FdExclusiveStep ==
  ASSUME TypeOK, HandsInv, FdInv, FdExclusive, [Next]_vars
  PROVE  FdExclusive'
<1>1. ASSUME NEW f \in Fds, NEW c \in {serverConns'[f], loopConns'[f]} \ {NoConn}
      PROVE  fdOf'[c] = f
  <2>1. main.at # "wait" => main.conn \in Conns
    BY DEF TypeOK, HandsInv
  <2>2. \/ c \in {serverConns[f], loopConns[f]}
        \/ c = main.conn /\ fdOf[c] = f /\ main.at # "wait"
    BY <1>1, EntryStep
  <2>3. fdOf[c] = f /\ c \in Conns
    <3>1. CASE c \in {serverConns[f], loopConns[f]}
      BY <1>1, <3>1 DEF FdExclusive, TypeOK
    <3> QED
      BY <2>1, <2>2, <3>1
  <2> QED
    BY <2>3, FdStep, FdsAssumption
<1>2. ASSUME NEW c \in Conns, NEW d \in Conns, Held(c)', Held(d)', fdOf'[c] = fdOf'[d]
      PROVE  c = d
  <2>1. ASSUME NEW x \in Conns, NEW y \in Conns, NEW f \in Fds, Accept(x, f),
               Held(y)', fdOf'[y] = fdOf'[x], x # y
        PROVE  FALSE
    <3>1. fdOf' = [fdOf EXCEPT ![x] = f] /\ main' = MainAt("ctor", x) /\ FreeFd(f)
      BY <2>1 DEF Accept
    <3>2. fdOf[y] = f
      BY <2>1, <3>1 DEF TypeOK
    <3>3. ~Held(y)
      BY <3>1, <3>2 DEF FreeFd
    <3>4. PICK g \in Fds : Accept(y, g)
      BY <2>1, <3>3, HeldStep
    <3> QED
      BY <3>2, <3>4, FdsAssumption DEF Accept
  <2>2. CASE Held(c) /\ Held(d)
    BY <1>2, <2>2, FdStep DEF FdExclusive, FdInv
  <2>3. CASE ~Held(c)
    BY <1>2, <2>1, <2>3, HeldStep
  <2>4. CASE ~Held(d)
    BY <1>2, <2>1, <2>4, HeldStep
  <2> QED
    BY <2>2, <2>3, <2>4
<1> QED
  BY <1>1, <1>2 DEF FdExclusive

-----------------------------------------------------------------------------
\* What each thread has in hand

\* An IO thread moves only in its own steps, and one at a time.
LEMMA IoFrame ==
  ASSUME [Next]_vars
  PROVE  \/ UNCHANGED <<io, batch>>
         \/ \E l \in Loops : IoStep(l)
<1>1. CASE PeerStep \/ ClockStep \/ AppDrop
  BY <1>1 DEF PeerStep, PeerSend, PeerClose, ClockStep, GoIdle, TimerFires, AppDrop
<1>2. CASE MainStep
  BY <1>2 DEF MainStep, MainFinish, Accept, AcceptFail, Wire, InsertServer,
              InsertLoop, InsertLoopRace, NewConnCb, Die
<1>3. ASSUME NEW t \in Senders, SenderStep(t) PROVE UNCHANGED <<io, batch>>
  BY <1>3 DEF SenderStep, AppSend, AppPush, AppWake
<1>4. CASE Halted \/ UNCHANGED vars
  BY <1>4 DEF Halted, vars
<1> QED
  BY <1>1, <1>2, <1>3, <1>4 DEF Next

\* The successors of a control point of an IO thread.
IoNext(l, old, new) ==
    \/ new = old
    \/ new = Looping
    \/ \E c \in Conns : /\ old.at = "loop" /\ c \in batch[l] /\ inq[c] > 0
                        /\ new = At("deliver", c, inq[c], {})
    \/ \E c \in Conns : /\ old.at = "loop" /\ c \in batch[l] /\ Held(c)
                        /\ DispatchClose(l, c)
                        /\ new = At("closeApp", c, 0, {})
    \/ /\ old.at = "deliver" /\ old.left # 1
       /\ new = [old EXCEPT !.left = @ - 1]
    \/ old.at = "closeApp" /\ new = [old EXCEPT !.at = "closeServer"]
    \/ old.at = "loop" /\ new = At("woken", NoConn, 0, {})
    \/ old.at = "woken" /\ new = [old EXCEPT !.at = "drain"]
    \/ /\ old.at = "loop"
       /\ \E fds \in SUBSET {f \in Fds : f % threadnum = l} : new = At("timer", NoConn, 0, fds)
    \/ \E f \in old.sweep : /\ old.at = "timer" /\ loopConns[f] \in idle
                            /\ TimerVisit(l, f)
                            /\ new = At("erase", loopConns[f], 0, old.sweep \ {f})
    \/ /\ old.at \in {"timer", "erase"}
       /\ \E fds \in SUBSET old.sweep : new = At("timer", NoConn, 0, fds)

LEMMA IoNextStep ==
  ASSUME TypeOK, NEW l \in Loops, IoStep(l)
  PROVE  /\ IoNext(l, io[l], io'[l])
         /\ \A k \in Loops \ {l} : io'[k] = io[k] /\ batch'[k] = batch[k]
<1> DEFINE P == /\ IoNext(l, io[l], io'[l])
                /\ \A k \in Loops \ {l} : io'[k] = io[k] /\ batch'[k] = batch[k]
<1> USE DEF TypeOK, IoNext
<1>1. CASE EpollWait(l)
  BY <1>1 DEF EpollWait
<1>2. CASE \/ DeliverDead(l) \/ WakeTask(l) \/ WakeTaskFails(l)
           \/ \E c \in Conns : DispatchDead(l, c) \/ DispatchUnwired(l, c)
  BY <1>2 DEF DeliverDead, WakeTask, WakeTaskFails, DispatchDead, DispatchUnwired, Die
<1>3. ASSUME NEW c \in Conns, DispatchRead(l, c) PROVE P
  BY <1>3 DEF DispatchRead, Handles
<1>4. ASSUME NEW c \in Conns, DispatchClose(l, c) PROVE P
  <2>1. /\ io'[l] = At("closeApp", c, 0, {}) /\ io[l].at = "loop"
        /\ c \in batch[l] /\ Held(c)
    BY <1>4 DEF DispatchClose, Handles
  <2>2. \A k \in Loops \ {l} : io'[k] = io[k] /\ batch'[k] = batch[k]
    BY <1>4 DEF DispatchClose, Handles
  <2> QED
    BY <1>4, <2>1, <2>2
<1>5. CASE Deliver(l)
  BY <1>5 DEF Deliver
<1>6. CASE CloseApp(l)
  BY <1>6 DEF CloseApp
<1>7. CASE CloseServer(l) \/ DrainEnd(l) \/ TimerEnd(l)
  BY <1>7 DEF CloseServer, DrainEnd, TimerEnd
<1>8. CASE WakeRead(l)
  BY <1>8 DEF WakeRead, Handles
<1>9. CASE DrainStart(l)
  BY <1>9 DEF DrainStart
<1>10. CASE HandleTimer(l)
  BY <1>10 DEF HandleTimer, Handles
<1>11. ASSUME NEW f \in Fds, TimerVisit(l, f) PROVE P
  <2>1. \A k \in Loops \ {l} : io'[k] = io[k] /\ batch'[k] = batch[k]
    BY <1>11 DEF TimerVisit
  <2>2. \/ /\ io[l].at = "timer" /\ f \in io[l].sweep /\ loopConns[f] \in idle
           /\ io'[l] = At("erase", loopConns[f], 0, io[l].sweep \ {f})
        \/ io[l].at = "timer" /\ io'[l] = At("timer", NoConn, 0, io[l].sweep \ {f})
    BY <1>11 DEF TimerVisit
  <2> QED
    BY <1>11, <2>1, <2>2
<1>12. CASE TimerErase(l)
  BY <1>12 DEF TimerErase
<1> QED
  BY <1>1, <1>2, <1>3, <1>4, <1>5, <1>6, <1>7, <1>8, <1>9, <1>10, <1>11, <1>12 DEF IoStep

\* Only the main thread moves itself.
LEMMA MainFrame ==
  ASSUME [Next]_vars
  PROVE  main' = main \/ MainStep
<1>1. CASE PeerStep \/ ClockStep \/ AppDrop
  BY <1>1 DEF PeerStep, PeerSend, PeerClose, ClockStep, GoIdle, TimerFires, AppDrop
<1>2. ASSUME NEW t \in Senders, SenderStep(t) PROVE main' = main
  BY <1>2 DEF SenderStep, AppSend, AppPush, AppWake
<1>3. ASSUME NEW l \in Loops, IoStep(l) PROVE main' = main
  BY <1>3 DEF IoStep, EpollWait, DispatchDead, DispatchUnwired, DispatchRead,
     DispatchClose, Deliver, DeliverDead, CloseApp, CloseServer, WakeRead, DrainStart,
     WakeTask, WakeTaskFails, DrainEnd, HandleTimer, TimerVisit, TimerErase, TimerEnd, Die
<1>4. CASE Halted \/ UNCHANGED vars
  BY <1>4 DEF Halted, vars
<1> QED
  BY <1>1, <1>2, <1>3, <1>4 DEF Next

\* Application threads move in their own steps; so does their side of the queue.
LEMMA SenderFrame ==
  ASSUME [Next]_vars
  PROVE  \/ sender' = sender
         \/ \E t \in Senders : SenderStep(t)
<1>1. CASE PeerStep \/ ClockStep \/ AppDrop
  BY <1>1 DEF PeerStep, PeerSend, PeerClose, ClockStep, GoIdle, TimerFires, AppDrop
<1>2. CASE MainStep
  BY <1>2 DEF MainStep, MainFinish, Accept, AcceptFail, Wire, InsertServer,
              InsertLoop, InsertLoopRace, NewConnCb, Die
<1>3. ASSUME NEW l \in Loops, IoStep(l) PROVE sender' = sender
  BY <1>3 DEF IoStep, EpollWait, DispatchDead, DispatchUnwired, DispatchRead,
     DispatchClose, Deliver, DeliverDead, CloseApp, CloseServer, WakeRead, DrainStart,
     WakeTask, WakeTaskFails, DrainEnd, HandleTimer, TimerVisit, TimerErase, TimerEnd, Die
<1>4. CASE Halted \/ UNCHANGED vars
  BY <1>4 DEF Halted, vars
<1> QED
  BY <1>1, <1>2, <1>3, <1>4 DEF Next

LEMMA HandsInvStep ==
  ASSUME TypeOK, HandsInv, [Next]_vars
  PROVE  HandsInv'
<1>1. main'.at = "wait" <=> main'.conn = NoConn
  <2>1. CASE main' = main
    BY <2>1 DEF HandsInv
  <2>2. CASE MainStep
    BY <2>2, ConnsAssumption DEF MainStep, MainFinish, Accept, AcceptFail, Wire,
       InsertServer, InsertLoop, InsertLoopRace, NewConnCb, Die, HandsInv
  <2> QED
    BY <2>1, <2>2, MainFrame
<1>2. ASSUME NEW s \in Senders
      PROVE  sender'[s].at = "idle" <=> sender'[s].conn = NoConn
  <2>1. CASE sender' = sender
    BY <2>1 DEF HandsInv
  <2>2. ASSUME NEW t \in Senders, SenderStep(t)
        PROVE  sender'[s].at = "idle" <=> sender'[s].conn = NoConn
    <3>1. ASSUME NEW d \in Conns, AppSend(t, d)
          PROVE  sender'[s] = sender[s] \/ sender'[s] = SenderAt("push", d)
      BY <3>1 DEF AppSend, TypeOK
    <3>2. ASSUME NEW m \in Payloads, AppPush(t, m)
          PROVE  \/ sender'[s] = sender[s]
                 \/ sender'[s] = SenderAt("wake", sender[s].conn) /\ sender[s].at = "push"
      BY <3>2 DEF AppPush, TypeOK
    <3>3. ASSUME AppWake(t) PROVE sender'[s] \in {sender[s], Idling}
      BY <3>3 DEF AppWake, TypeOK
    <3> QED
      <4>1. \/ sender'[s] \in {sender[s], Idling}
            \/ \E d \in Conns : sender'[s] = SenderAt("push", d)
            \/ sender'[s] = SenderAt("wake", sender[s].conn) /\ sender[s].at = "push"
        BY <2>2, <3>1, <3>2, <3>3 DEF SenderStep
      <4> QED
        <5>1. sender[s].at = "idle" <=> sender[s].conn = NoConn
          BY DEF HandsInv
        <5>2. CASE sender'[s] \in {sender[s], Idling}
          BY <5>1, <5>2
        <5>3. ASSUME NEW d \in Conns, sender'[s] = SenderAt("push", d)
              PROVE  sender'[s].at # "idle" /\ sender'[s].conn # NoConn
          BY <5>3, ConnsAssumption
        <5>4. CASE sender'[s] = SenderAt("wake", sender[s].conn) /\ sender[s].at = "push"
          BY <5>1, <5>4
        <5> QED
          BY <4>1, <5>2, <5>3, <5>4
  <2> QED
    BY <2>1, <2>2, SenderFrame
<1>3. ASSUME NEW k \in Loops
      PROVE  /\ io'[k].at \in {"deliver", "closeApp", "closeServer", "erase"}
                    <=> io'[k].conn # NoConn
             /\ io'[k].at = "deliver" => io'[k].left > 0
  <2>1. CASE io' = io
    BY <2>1 DEF HandsInv
  <2>2. ASSUME NEW l \in Loops, IoStep(l)
        PROVE  /\ io'[k].at \in {"deliver", "closeApp", "closeServer", "erase"}
                      <=> io'[k].conn # NoConn
               /\ io'[k].at = "deliver" => io'[k].left > 0
    <3>1. io[k] \in IoStates /\ io[k].left \in Nat
      BY BoundsAssumption DEF TypeOK, IoStates
    <3>2. io'[k] = io[k] \/ IoNext(k, io[k], io'[k])
      BY <2>2, IoNextStep
    <3>3. /\ io[k].at \in {"deliver", "closeApp", "closeServer", "erase"}
                <=> io[k].conn # NoConn
          /\ io[k].at = "deliver" => io[k].left > 0
      BY DEF HandsInv
    <3>4. CASE io'[k] = io[k] \/ io'[k] = Looping
      BY <3>3, <3>4
    <3>5. CASE \E c \in Conns : \/ inq[c] > 0 /\ io'[k] = At("deliver", c, inq[c], {})
                               \/ io'[k] = At("closeApp", c, 0, {})
      BY <3>5, ConnsAssumption
    <3>6. CASE /\ io[k].at = "deliver" /\ io[k].left # 1
               /\ io'[k] = [io[k] EXCEPT !.left = @ - 1]
      BY <3>1, <3>3, <3>6 DEF IoStates
    <3>7. CASE io[k].at = "closeApp" /\ io'[k] = [io[k] EXCEPT !.at = "closeServer"]
      BY <3>1, <3>3, <3>7 DEF IoStates
    <3>8. CASE io[k].at = "woken" /\ io'[k] = [io[k] EXCEPT !.at = "drain"]
      BY <3>1, <3>3, <3>8 DEF IoStates
    <3>9. CASE \/ io'[k] = At("woken", NoConn, 0, {})
               \/ \E fds : io'[k] = At("timer", NoConn, 0, fds)
      <4>1. io'[k].at \in {"woken", "timer"} /\ io'[k].conn = NoConn
        <5>1. CASE io'[k] = At("woken", NoConn, 0, {})
          BY <5>1
        <5>2. ASSUME NEW fds, io'[k] = At("timer", NoConn, 0, fds)
              PROVE  io'[k].at \in {"woken", "timer"} /\ io'[k].conn = NoConn
          BY <5>2
        <5> QED
          BY <3>9, <5>1, <5>2
      <4> QED
        BY <4>1
    <3>10. ASSUME NEW f \in io[k].sweep, loopConns[f] \in idle,
                  io'[k] = At("erase", loopConns[f], 0, io[k].sweep \ {f})
           PROVE  io'[k].at = "erase" /\ io'[k].conn # NoConn
      <4>1. loopConns[f] \in Conns
        BY <3>10 DEF TypeOK
      <4> QED
        BY <3>10, <4>1, ConnsAssumption
    <3> QED
      BY <3>2, <3>4, <3>5, <3>6, <3>7, <3>8, <3>9, <3>10 DEF IoNext
  <2> QED
    BY <2>1, <2>2, IoFrame
<1> QED
  BY <1>1, <1>2, <1>3 DEF HandsInv

\* What epoll_wait reports is on the loop's own tree; a dispatch takes it out.
LEMMA BatchStep ==
  ASSUME TypeOK, NEW l \in Loops, IoStep(l), NEW c \in Conns, c \in batch'[l]
  PROVE  /\ c \in batch[l] \/ (c \in tree /\ LoopOf(c) = l)
         /\ ~DispatchClose(l, c)
<1>1. CASE EpollWait(l)
  <2>1. batch'[l] = Ready(l) /\ batch[l] = {}
    BY <1>1 DEF EpollWait, TypeOK
  <2>2. c \in tree /\ LoopOf(c) = l
    BY <2>1, ConnsAssumption DEF Ready, Watched
  <2> QED
    BY <2>1, <2>2 DEF DispatchClose, Handles
<1>2. ASSUME NEW event, Handles(l, event) PROVE c \in batch[l]
  BY <1>2 DEF Handles, TypeOK
<1>3. DispatchClose(l, c) => c \notin batch'[l]
  BY DEF DispatchClose, Handles, TypeOK
<1>4. CASE UNCHANGED batch
  BY <1>3, <1>4
<1>5. EpollWait(l) \/ UNCHANGED batch \/ \E event : Handles(l, event)
  BY DEF IoStep, DispatchDead, DispatchUnwired, DispatchRead, DispatchClose, Deliver,
     DeliverDead, CloseApp, CloseServer, WakeRead, DrainStart, WakeTask, WakeTaskFails,
     DrainEnd, HandleTimer, TimerVisit, TimerErase, TimerEnd, Die
<1> QED
  BY <1>1, <1>2, <1>3, <1>4, <1>5

LEMMA OwnerInvStep ==
  ASSUME TypeOK, HandsInv, FdInv, OwnerInv, FdExclusive, SweepInv, [Next]_vars
  PROVE  OwnerInv'
<1>1. tree' \cap disconnect' = {}
  <2>1. ASSUME NEW c \in Conns, NEW f \in Fds, Accept(c, f)
        PROVE  tree' = tree \cup {c} /\ disconnect' = disconnect /\ c \notin disconnect
    BY <2>1 DEF Accept, FdInv
  <2>2. ASSUME NEW l \in Loops, NEW c \in Conns, DispatchClose(l, c)
        PROVE  tree' = tree \ {c} /\ disconnect' = disconnect \cup {c}
    BY <2>2 DEF DispatchClose
  <2> QED
    BY <2>1, <2>2, ConnStep DEF OwnerInv
<1>2. disconnect \subseteq disconnect'
  BY ConnStep DEF Accept, DispatchClose
<1>3. ASSUME NEW c \in Conns, c \in tree
      PROVE  c \in tree' \/ \E l \in Loops : DispatchClose(l, c)
  BY <1>3, ConnStep DEF Accept, DispatchClose
<1>4. ASSUME NEW c \in Conns, fdOf[c] # NoFd
      PROVE  fdOf'[c] # NoFd /\ LoopOf(c)' = LoopOf(c)
  BY <1>4, FdStep DEF LoopOf
<1>5. ASSUME NEW l \in Loops, NEW c \in Conns, c \in batch'[l]
      PROVE  c \in tree' /\ LoopOf(c)' = l
  <2>1. /\ c \in batch[l] \/ (c \in tree /\ LoopOf(c) = l)
        /\ ~DispatchClose(l, c)
    <3>1. CASE UNCHANGED <<io, batch>>
      BY <1>5, <3>1 DEF DispatchClose, Handles, TypeOK
    <3>2. ASSUME NEW k \in Loops, IoStep(k), k # l
          PROVE  c \in batch[l] /\ ~DispatchClose(l, c)
      <4>1. batch'[l] = batch[l]
        BY <3>2, IoNextStep
      <4> QED
        BY <1>5, <4>1 DEF DispatchClose, Handles, TypeOK
    <3> QED
      BY <1>5, <3>1, <3>2, BatchStep, IoFrame
  <2>2. c \in tree /\ LoopOf(c) = l
    BY <2>1 DEF OwnerInv
  <2>3. ASSUME NEW k \in Loops, DispatchClose(k, c) PROVE k = l
    BY <2>2, <2>3 DEF DispatchClose, Handles, OwnerInv
  <2> QED
    BY <1>3, <1>4, <2>1, <2>2, <2>3 DEF FdInv
<1>6. ASSUME NEW l \in Loops, NEW c \in Conns, io'[l].conn = c
      PROVE  /\ fdOf'[c] # NoFd /\ LoopOf(c)' = l
             /\ io'[l].at = "deliver" => c \in tree'
             /\ io'[l].at \notin {"deliver", "erase"} => c \in disconnect'
  <2>1. io'[l] = io[l] \/ IoNext(l, io[l], io'[l])
    BY IoFrame, IoNextStep
  <2>2. io[l] \in IoStates /\ NoConn # c
    BY ConnsAssumption DEF TypeOK
  <2>3. ASSUME io[l].conn = c, io'[l].at = "deliver", io[l].at = "deliver"
        PROVE  c \in tree'
    <3>1. c \in tree /\ LoopOf(c) = l
      BY <2>3 DEF OwnerInv
    <3>2. ASSUME NEW k \in Loops, DispatchClose(k, c) PROVE FALSE
      BY <2>3, <3>1, <3>2 DEF DispatchClose, Handles, OwnerInv
    <3> QED
      BY <1>3, <3>1, <3>2
  <2>4. CASE io'[l] = io[l]
    BY <1>2, <1>4, <1>6, <2>3, <2>4 DEF OwnerInv
  <2>5. CASE /\ c \in batch[l] /\ io[l].at = "loop"
             /\ io'[l].at = "deliver"
    <3>1. c \in tree /\ LoopOf(c) = l
      BY <2>5 DEF OwnerInv
    <3>2. ASSUME NEW k \in Loops, DispatchClose(k, c) PROVE FALSE
      <4>1. k = l
        BY <3>1, <3>2 DEF DispatchClose, Handles, OwnerInv
      <4>2. io'[l].at = "closeApp"
        BY <3>2, <4>1 DEF DispatchClose, TypeOK
      <4> QED
        BY <2>5, <4>2
    <3> QED
      BY <1>3, <1>4, <2>5, <3>1, <3>2 DEF FdInv
  <2>6. CASE c \in batch[l] /\ DispatchClose(l, c) /\ io'[l].at = "closeApp"
    <3>1. c \in tree /\ LoopOf(c) = l /\ c \in disconnect'
      BY <2>6 DEF OwnerInv, DispatchClose
    <3> QED
      BY <1>4, <2>6, <3>1 DEF FdInv
  <2>7. CASE /\ io[l].at = "deliver" /\ io'[l] = [io[l] EXCEPT !.left = @ - 1]
    <3>1. io'[l].conn = io[l].conn /\ io'[l].at = "deliver"
      BY <2>2, <2>7 DEF IoStates
    <3> QED
      BY <1>4, <1>6, <2>3, <2>7, <3>1 DEF OwnerInv
  <2>8. CASE io[l].at = "closeApp" /\ io'[l] = [io[l] EXCEPT !.at = "closeServer"]
    <3>1. io'[l].conn = io[l].conn /\ io'[l].at = "closeServer"
      BY <2>2, <2>8 DEF IoStates
    <3> QED
      BY <1>2, <1>4, <1>6, <2>8, <3>1 DEF OwnerInv
  <2>9. CASE /\ io[l].at = "woken" /\ io'[l] = [io[l] EXCEPT !.at = "drain"]
    <3>1. io'[l].conn = io[l].conn
      BY <2>2, <2>9 DEF IoStates
    <3> QED
      BY <1>6, <2>2, <2>9, <3>1 DEF HandsInv
  <2>10. ASSUME NEW f \in io[l].sweep, loopConns[f] \in idle,
                io'[l] = At("erase", loopConns[f], 0, io[l].sweep \ {f})
         PROVE  fdOf'[c] # NoFd /\ LoopOf(c)' = l /\ io'[l].at = "erase"
    <3>1. loopConns[f] = c /\ f \in Fds /\ f % threadnum = l
      BY <1>6, <2>2, <2>10 DEF SweepInv, IoStates
    <3>2. fdOf[c] = f
      BY <2>2, <3>1 DEF FdExclusive
    <3> QED
      BY <1>4, <2>10, <3>1, <3>2, FdsAssumption DEF LoopOf
  <2>11. io'[l].conn # NoConn
    BY <1>6, <2>2
  <2> QED
    <3>1. ASSUME NEW d \in Conns, io[l].at = "loop", d \in batch[l],
                 io'[l] = At("deliver", d, inq[d], {})
          PROVE  c = d /\ io'[l].at = "deliver"
      BY <1>6, <3>1
    <3>2. ASSUME NEW d \in Conns, io'[l] = At("closeApp", d, 0, {})
          PROVE  c = d /\ io'[l].at = "closeApp"
      BY <1>6, <3>2
    <3>3. /\ io'[l] # Looping /\ io'[l] # At("woken", NoConn, 0, {})
          /\ \A fds : io'[l] # At("timer", NoConn, 0, fds)
      BY <2>11
    <3> QED
      BY <2>1, <2>4, <2>5, <2>6, <2>7, <2>8, <2>9, <2>10, <3>1, <3>2, <3>3 DEF IoNext
<1> QED
  BY <1>1, <1>5, <1>6 DEF OwnerInv

\* Only a message takes a connection out of idle.
LEMMA IdleStep ==
  ASSUME [Next]_vars, NEW c \in idle
  PROVE  c \in idle' \/ \E l \in Loops : Deliver(l) /\ io[l].conn = c
<1> USE DEF kernelVars
<1>1. CASE PeerStep \/ ClockStep \/ AppDrop
  BY <1>1 DEF PeerStep, PeerSend, PeerClose, ClockStep, GoIdle, TimerFires, AppDrop
<1>2. CASE MainStep
  BY <1>2 DEF MainStep, MainFinish, Accept, AcceptFail, Wire, InsertServer,
              InsertLoop, InsertLoopRace, NewConnCb, Die
<1>3. ASSUME NEW t \in Senders, SenderStep(t) PROVE idle' = idle
  BY <1>3 DEF SenderStep, AppSend, AppPush, AppWake
<1>4. ASSUME NEW l \in Loops, IoStep(l) PROVE idle' = idle \/ Deliver(l)
  BY <1>4 DEF IoStep, EpollWait, DispatchDead, DispatchUnwired, DispatchRead,
     DispatchClose, DeliverDead, CloseApp, CloseServer, WakeRead, DrainStart, WakeTask,
     WakeTaskFails, DrainEnd, HandleTimer, TimerVisit, TimerErase, TimerEnd, Die
<1>5. ASSUME NEW l \in Loops, Deliver(l) PROVE c \in idle' \/ io[l].conn = c
  BY <1>5 DEF Deliver
<1>6. CASE Halted \/ UNCHANGED vars
  BY <1>6 DEF Halted, vars
<1> QED
  BY <1>1, <1>2, <1>3, <1>4, <1>5, <1>6 DEF Next

\* A loop that is erasing a connection has it, and its descriptor, to itself.
LEMMA EraseOwner ==
  ASSUME TypeOK, HandsInv, OwnerInv, SweepInv, NEW l \in Loops, io[l].at = "erase"
  PROVE  /\ io[l].conn \in Conns /\ Held(io[l].conn) /\ LoopOf(io[l].conn) = l
         /\ fdOf[io[l].conn] \in Fds /\ loopConns[fdOf[io[l].conn]] = io[l].conn
<1>1. io[l].conn \in Conns
  BY DEF HandsInv, TypeOK, IoStates
<1>2. fdOf[io[l].conn] \in Fds /\ LoopOf(io[l].conn) = l
  BY <1>1 DEF OwnerInv, TypeOK
<1> QED
  BY <1>1, <1>2 DEF SweepInv, Held

LEMMA SweepInvStep ==
  ASSUME TypeOK, HandsInv, FdInv, OwnerInv, FdExclusive, SweepInv, [Next]_vars
  PROVE  SweepInv'
<1>1. ASSUME NEW l \in Loops
      PROVE  io'[l] = io[l] \/ IoNext(l, io[l], io'[l])
  BY IoFrame, IoNextStep
<1>2. ASSUME NEW l \in Loops, NEW f \in io'[l].sweep
      PROVE  f % threadnum = l
  <2>1. \A g \in io[l].sweep : g % threadnum = l
    BY DEF SweepInv
  <2>2. io[l] \in IoStates
    BY DEF TypeOK
  <2>3. \/ io'[l].sweep \subseteq io[l].sweep
        \/ io'[l].sweep \subseteq {g \in Fds : g % threadnum = l}
    <3>1. CASE \/ io'[l] = io[l] \/ io'[l] = Looping
               \/ io'[l] = At("woken", NoConn, 0, {})
      BY <3>1
    <3>4. ASSUME NEW c \in Conns, NEW n,
                 io'[l] = At("deliver", c, n, {}) \/ io'[l] = At("closeApp", c, 0, {})
          PROVE  io'[l].sweep \subseteq io[l].sweep
      <4>1. io'[l].sweep = {}
        BY <3>4
      <4> QED
        BY <4>1
    <3>2. CASE \/ io'[l] = [io[l] EXCEPT !.left = @ - 1]
               \/ io'[l] = [io[l] EXCEPT !.at = "closeServer"]
               \/ io'[l] = [io[l] EXCEPT !.at = "drain"]
      BY <2>2, <3>2 DEF IoStates
    <3>3. ASSUME NEW fds, io'[l] = At("timer", NoConn, 0, fds)
          PROVE  io'[l].sweep = fds
      BY <3>3
    <3>5. ASSUME NEW g \in io[l].sweep,
                 io'[l] = At("erase", loopConns[g], 0, io[l].sweep \ {g})
          PROVE  io'[l].sweep \subseteq io[l].sweep
      <4>1. io'[l].sweep = io[l].sweep \ {g}
        BY <3>5
      <4> QED
        BY <4>1
    <3> QED
      BY <1>1, <3>1, <3>2, <3>3, <3>4, <3>5 DEF IoNext
  <2> QED
    BY <1>2, <2>1, <2>3
<1>3. ASSUME NEW l \in Loops, io'[l].at = "erase"
      PROVE  io'[l].conn \in idle' /\ loopConns'[fdOf'[io'[l].conn]] = io'[l].conn
  <2> DEFINE c == io'[l].conn
  <2>1. CASE io'[l] = io[l]
    <3>1. /\ c \in Conns /\ Held(c) /\ LoopOf(c) = l /\ c \in idle
          /\ fdOf[c] \in Fds /\ loopConns[fdOf[c]] = c
      BY <1>3, <2>1, EraseOwner DEF SweepInv
    <3>2. fdOf'[c] = fdOf[c]
      BY <3>1, FdStep, FdsAssumption
    <3>3. c \in idle'
      <4>1. ASSUME NEW k \in Loops, Deliver(k), io[k].conn = c PROVE FALSE
        <5>1. io[k].at = "deliver" /\ k = l
          BY <3>1, <4>1 DEF Deliver, OwnerInv
        <5> QED
          BY <1>3, <2>1, <5>1
      <4> QED
        BY <3>1, <4>1, IdleStep
    <3>4. loopConns'[fdOf[c]] = c
      <4>1. CASE UNCHANGED mapVars
        BY <3>1, <4>1 DEF mapVars
      <4>2. CASE InsertServer \/ \E k \in Loops : CloseServer(k) \/ \E f \in Fds : TimerVisit(k, f)
        BY <3>1, <4>2 DEF InsertServer, CloseServer, TimerVisit
      <4>3. CASE InsertLoop
        <5>1. main.conn \in Conns /\ Held(main.conn)
          BY <4>3 DEF InsertLoop, HandsInv, TypeOK, Held
        <5>2. main.conn = c \/ fdOf[main.conn] # fdOf[c]
          BY <3>1, <5>1 DEF FdExclusive
        <5> QED
          BY <3>1, <4>3, <5>2 DEF InsertLoop, TypeOK
      <4>4. ASSUME NEW k \in Loops, TimerErase(k) PROVE loopConns'[fdOf[c]] = c
        <5>1. io[k].at = "erase" /\ io'[k].at = "timer"
          BY <4>4 DEF TimerErase, TypeOK
        <5>2. /\ io[k].conn \in Conns /\ Held(io[k].conn) /\ LoopOf(io[k].conn) = k
          BY <5>1, EraseOwner
        <5>3. k # l
          BY <1>3, <5>1
        <5>4. fdOf[io[k].conn] # fdOf[c]
          BY <3>1, <5>2, <5>3 DEF FdExclusive
        <5> QED
          BY <3>1, <4>4, <5>4 DEF TimerErase, TypeOK
      <4> QED
        BY <4>1, <4>2, <4>3, <4>4, MapStep
    <3> QED
      BY <3>2, <3>3, <3>4
  <2>2. ASSUME NEW f \in io[l].sweep, loopConns[f] \in idle, TimerVisit(l, f),
               io'[l] = At("erase", loopConns[f], 0, io[l].sweep \ {f})
        PROVE  c \in idle' /\ loopConns'[fdOf'[c]] = c
    <3>1. loopConns[f] \in idle /\ TimerVisit(l, f) /\ c = loopConns[f]
      BY <2>2
    <3>2. f \in Fds /\ c \in Conns
      BY <3>1 DEF TypeOK, IoStates
    <3>3. fdOf[c] = f
      BY <3>1, <3>2, ConnsAssumption DEF FdExclusive
    <3>4. fdOf' = fdOf /\ idle' = idle /\ loopConns' = loopConns
      BY <3>1 DEF TimerVisit, connVars, kernelVars
    <3> QED
      BY <3>1, <3>3, <3>4
  <2>3. io[l] \in IoStates
    BY DEF TypeOK
  <2>4. /\ io'[l] # Looping /\ io'[l] # At("woken", NoConn, 0, {})
        /\ \A fds : io'[l] # At("timer", NoConn, 0, fds)
        /\ \A d, n : io'[l] # At("deliver", d, n, {}) /\ io'[l] # At("closeApp", d, 0, {})
    BY <1>3
  <2>5. /\ io'[l] # [io[l] EXCEPT !.at = "closeServer"]
        /\ io'[l] # [io[l] EXCEPT !.at = "drain"]
        /\ io[l].at = "deliver" => io'[l] # [io[l] EXCEPT !.left = @ - 1]
    BY <1>3, <2>3 DEF IoStates
  <2>6. ASSUME io'[l] # io[l]
        PROVE  \E f \in io[l].sweep : /\ loopConns[f] \in idle /\ TimerVisit(l, f)
                                      /\ io'[l] = At("erase", loopConns[f], 0, io[l].sweep \ {f})
    BY <1>1, <2>4, <2>5, <2>6 DEF IoNext
  <2> QED
    BY <2>1, <2>2, <2>6
<1> QED
  BY <1>2, <1>3 DEF SweepInv

-----------------------------------------------------------------------------
\* No lost wake-up

\* Only senders and loops touch the task queues and the eventfds.
LEMMA QueueStep ==
  ASSUME [Next]_vars
  PROVE  \/ UNCHANGED <<tasks, eventfd>>
         \/ \E t \in Senders : (\E m \in Payloads : AppPush(t, m)) \/ AppWake(t)
         \/ \E l \in Loops : WakeTask(l) \/ WakeRead(l)
<1> USE DEF kernelVars
<1>1. CASE PeerStep \/ ClockStep \/ AppDrop
  BY <1>1 DEF PeerStep, PeerSend, PeerClose, ClockStep, GoIdle, TimerFires, AppDrop
<1>2. CASE MainStep
  BY <1>2 DEF MainStep, MainFinish, Accept, AcceptFail, Wire, InsertServer,
              InsertLoop, InsertLoopRace, NewConnCb, Die
<1>3. ASSUME NEW t \in Senders, NEW c \in Conns, AppSend(t, c)
      PROVE  UNCHANGED <<tasks, eventfd>>
  BY <1>3 DEF AppSend
<1>4. ASSUME NEW l \in Loops, IoStep(l)
      PROVE  UNCHANGED <<tasks, eventfd>> \/ WakeTask(l) \/ WakeRead(l)
  BY <1>4 DEF IoStep, EpollWait, DispatchDead, DispatchUnwired, DispatchRead,
     DispatchClose, Deliver, DeliverDead, CloseApp, CloseServer, DrainStart,
     WakeTaskFails, DrainEnd, HandleTimer, TimerVisit, TimerErase, TimerEnd, Die
<1>5. CASE Halted \/ UNCHANGED vars
  BY <1>5 DEF Halted, vars
<1> QED
  BY <1>1, <1>2, <1>3, <1>4, <1>5 DEF Next, SenderStep

LEMMA WakePendingStep ==
  ASSUME TypeOK, HandsInv, FdInv, WakePending, [Next]_vars
  PROVE  WakePending'
<1> SUFFICES ASSUME NEW l \in Loops, tasks'[l] # <<>>
             PROVE  \/ l \in eventfd'
                    \/ io'[l].at \in {"woken", "drain"}
                    \/ \E t \in Senders : /\ sender'[t].at = "wake"
                                          /\ LoopOf(sender[t].conn)' = l
  BY DEF WakePending
<1>1. CASE tasks[l] # <<>> /\ l \in eventfd
  <2>1. l \in eventfd' \/ WakeRead(l)
    BY <1>1, QueueStep DEF AppPush, AppWake, WakeTask, WakeRead, kernelVars
  <2>2. WakeRead(l) => io'[l].at = "woken"
    BY DEF WakeRead, TypeOK
  <2> QED
    BY <2>1, <2>2
<1>2. CASE tasks[l] # <<>> /\ io[l].at \in {"woken", "drain"}
  <2>1. ~DrainEnd(l)
    BY <1>2 DEF DrainEnd
  <2>2. io[l] \in IoStates
    BY DEF TypeOK
  <2>3. ASSUME IoStep(l) PROVE io'[l].at \in {"woken", "drain"}
    BY <1>2, <2>1, <2>2, <2>3 DEF IoStep, EpollWait, DispatchDead, DispatchUnwired,
       DispatchRead, DispatchClose, Deliver, DeliverDead, CloseApp, CloseServer,
       WakeRead, DrainStart, WakeTask, WakeTaskFails, HandleTimer, TimerVisit,
       TimerErase, TimerEnd, Handles, Die, TypeOK, IoStates
  <2> QED
    BY <1>2, <2>3, IoFrame, IoNextStep
<1>3. ASSUME tasks[l] # <<>>, NEW t \in Senders, sender[t].at = "wake",
             LoopOf(sender[t].conn) = l
      PROVE  \/ l \in eventfd'
             \/ \E s \in Senders : sender'[s].at = "wake" /\ LoopOf(sender[s].conn)' = l
  <2>1. sender[t].conn \in Conns /\ fdOf[sender[t].conn] # NoFd
    BY <1>3 DEF HandsInv, FdInv, Held, TypeOK
  <2>2. LoopOf(sender[t].conn)' = l \/ sender'[t] # sender[t]
    BY <1>3, <2>1, FdStep DEF LoopOf
  <2>3. sender'[t] = sender[t] \/ AppWake(t)
    <3>1. ASSUME NEW s \in Senders, SenderStep(s), s # t PROVE sender'[t] = sender[t]
      BY <3>1 DEF SenderStep, AppSend, AppPush, AppWake, TypeOK
    <3>2. SenderStep(t) => AppWake(t)
      BY <1>3 DEF SenderStep, AppSend, AppPush
    <3> QED
      BY <3>1, <3>2, SenderFrame
  <2>4. AppWake(t) => l \in eventfd'
    BY <1>3 DEF AppWake
  <2> QED
    BY <1>3, <2>2, <2>3, <2>4
<1>4. CASE tasks[l] = <<>>
  <2>1. PICK t \in Senders, m \in Payloads : AppPush(t, m)
    <3>1. ASSUME NEW k \in Loops, WakeTask(k) PROVE tasks'[l] = tasks[l]
      BY <1>4, <3>1 DEF WakeTask, TypeOK
    <3> QED
      BY <1>4, <3>1, QueueStep DEF AppWake, WakeRead
  <2>2. LoopOf(sender[t].conn) = l
    BY <1>4, <2>1 DEF AppPush, TypeOK
  <2>3. sender'[t] = SenderAt("wake", sender[t].conn) /\ fdOf' = fdOf
    BY <2>1 DEF AppPush, TypeOK, connVars
  <2> QED
    BY <2>2, <2>3 DEF LoopOf
<1> QED
  BY <1>1, <1>2, <1>3, <1>4 DEF WakePending

\* Every step keeps the inductive invariant.
LEMMA IInvStep ==
  ASSUME IInv, [Next]_vars
  PROVE  IInv'
  BY TypeStep, HandsInvStep, FdInvStep, OwnerInvStep, FdExclusiveStep,
     SweepInvStep, WakePendingStep DEF IInv

-----------------------------------------------------------------------------
\* The theorems

\* The inductive invariant holds in every reachable state.
THEOREM Invariance == Spec => []IInv
<1>1. IInv /\ [Next]_vars => IInv'
  BY IInvStep
<1> QED
  BY InitIInv, <1>1, PTL DEF Spec

\* Type correctness of the framework's state.
THEOREM TypeCorrect == Spec => []TypeOK
  BY Invariance, PTL DEF IInv

\* EventLoop::queueinloop against handlewakeup: a queued task always has a
\* wake-up on its way, whatever the number of producers and loops.
THEOREM WakeupsNeverLost == Spec => []WakePending
  BY Invariance, PTL DEF IInv

\* TcpServer::conns_, EventLoop::conns_ and every other owner agree on who has
\* a descriptor, although descriptors are reused.
THEOREM DescriptorsExclusive == Spec => []FdExclusive
  BY Invariance, PTL DEF IInv

\* Erasing and inserting by descriptor never evicts a connection in use.
THEOREM EvictionSafe == Spec => EvictsOnlyFinished
<1> DEFINE
      A == \A f \in Fds, table \in {"server", "loop"} :
             LET old == IF table = "server" THEN serverConns[f] ELSE loopConns[f]
                 new == IF table = "server" THEN serverConns'[f] ELSE loopConns'[f]
             IN  old \notin {NoConn, new} => old \in disconnect \cup idle
<1>1. ASSUME IInv, [Next]_vars PROVE A
  <2> SUFFICES ASSUME NEW f \in Fds, NEW old \in {serverConns[f], loopConns[f]},
                      old # NoConn,
                      \/ old = serverConns[f] /\ old # serverConns'[f]
                      \/ old = loopConns[f] /\ old # loopConns'[f]
               PROVE  old \in disconnect \cup idle
    OBVIOUS
  <2> USE <1>1 DEF IInv
  <2>1. old \in Conns /\ fdOf[old] = f /\ Held(old)
    BY DEF TypeOK, FdExclusive, Held
  <2>2. CASE UNCHANGED mapVars
    BY <2>2 DEF mapVars
  <2>3. CASE InsertServer \/ InsertLoop
    <3>1. main.conn \in Conns /\ Held(main.conn)
      BY <2>3 DEF InsertServer, InsertLoop, HandsInv, TypeOK, Held
    <3>2. fdOf[main.conn] = f /\ main.conn # old
      BY <2>3 DEF InsertServer, InsertLoop, TypeOK
    <3> QED
      BY <2>1, <3>1, <3>2 DEF FdExclusive
  <2>4. ASSUME NEW l \in Loops, CloseServer(l) PROVE old \in disconnect
    <3> DEFINE c == io[l].conn
    <3>1. c \in Conns /\ Held(c) /\ c \in disconnect
      BY <2>4 DEF CloseServer, HandsInv, OwnerInv, TypeOK, IoStates, Held
    <3>2. fdOf[c] = f
      BY <2>4 DEF CloseServer, TypeOK, mapVars
    <3> QED
      BY <2>1, <3>1, <3>2 DEF FdExclusive
  <2>5. ASSUME NEW l \in Loops, NEW g \in Fds, TimerVisit(l, g) PROVE old \in idle
    <3> DEFINE c == loopConns[f]
    <3>1. g = f /\ c \in idle
      BY <2>5 DEF TimerVisit, TypeOK
    <3>2. c \in Conns /\ Held(c) /\ fdOf[c] = f
      BY <3>1, ConnsAssumption DEF TypeOK, Held, FdExclusive
    <3> QED
      BY <2>1, <3>1, <3>2 DEF FdExclusive
  <2>6. ASSUME NEW l \in Loops, TimerErase(l) PROVE old \in idle
    <3> DEFINE c == io[l].conn
    <3>1. c \in Conns /\ Held(c) /\ c \in idle
      BY <2>6, EraseOwner DEF TimerErase, SweepInv
    <3>2. fdOf[c] = f
      BY <2>6 DEF TimerErase, TypeOK
    <3> QED
      BY <2>1, <3>1, <3>2 DEF FdExclusive
  <2> QED
    BY <2>2, <2>3, <2>4, <2>5, <2>6, MapStep
<1> QED
  BY Invariance, <1>1, PTL DEF Spec, EvictsOnlyFinished

\* Connection::onmessage and closecallback: the application is called with
\* messages, then with at most one close, and never after it.
THEOREM CallbacksOrdered == Spec => CallbackOrder
<1> DEFINE
      A == \A l \in Loops :
             /\ io'[l].at = "deliver" => io'[l].conn \notin disconnect'
             /\ io'[l].at = "closeApp" /\ io[l].at # "closeApp" =>
                    io'[l].conn \notin disconnect
<1>1. ASSUME IInv, IInv', [Next]_vars PROVE A
  <2> SUFFICES ASSUME NEW l \in Loops
               PROVE  /\ io'[l].at = "deliver" => io'[l].conn \notin disconnect'
                      /\ io'[l].at = "closeApp" /\ io[l].at # "closeApp" =>
                             io'[l].conn \notin disconnect
    OBVIOUS
  <2> USE <1>1 DEF IInv
  <2>1. ASSUME io'[l].at = "deliver" PROVE io'[l].conn \notin disconnect'
    <3>1. io'[l].conn \in Conns
      BY <2>1 DEF HandsInv, TypeOK, IoStates
    <3> QED
      BY <2>1, <3>1 DEF OwnerInv
  <2>2. ASSUME io'[l].at = "closeApp", io[l].at # "closeApp"
        PROVE  io'[l].conn \notin disconnect
    <3>1. io[l] \in IoStates /\ io'[l] # io[l]
      BY <2>2 DEF TypeOK
    <3>2. IoNext(l, io[l], io'[l])
      BY <3>1, IoFrame, IoNextStep
    <3>3. PICK c \in Conns : c \in batch[l] /\ io'[l] = At("closeApp", c, 0, {})
      <4>1. /\ io'[l] # Looping /\ io'[l] # At("woken", NoConn, 0, {})
            /\ \A fds : io'[l] # At("timer", NoConn, 0, fds)
            /\ \A c, n : io'[l] # At("deliver", c, n, {})
        BY <2>2
      <4>2. /\ io'[l] # [io[l] EXCEPT !.at = "closeServer"]
            /\ io'[l] # [io[l] EXCEPT !.at = "drain"]
        BY <2>2, <3>1 DEF IoStates
      <4>3. /\ io'[l] # [io[l] EXCEPT !.left = @ - 1]
            /\ \A d, fds : io'[l] # At("erase", d, 0, fds)
        BY <2>2, <3>1 DEF IoStates
      <4> QED
        BY <3>1, <3>2, <4>1, <4>2, <4>3 DEF IoNext
    <3> QED
      BY <3>3 DEF OwnerInv
  <2> QED
    BY <2>1, <2>2
<1> QED
  BY Invariance, <1>1, PTL DEF Spec, CallbackOrder

\* A process that has ended does not come back.
LEMMA ProcStep ==
  ASSUME [Next]_vars
  PROVE  proc' = proc \/ proc = "up"
<1>1. CASE PeerStep \/ ClockStep \/ AppDrop
  BY <1>1 DEF PeerStep, PeerSend, PeerClose, ClockStep, GoIdle, TimerFires, AppDrop, Up
<1>2. CASE MainStep
  BY <1>2 DEF MainStep, MainFinish, Accept, AcceptFail, Wire, InsertServer,
              InsertLoop, InsertLoopRace, NewConnCb, Die, Up
<1>3. ASSUME NEW t \in Senders, SenderStep(t) PROVE proc = "up"
  BY <1>3 DEF SenderStep, AppSend, AppPush, AppWake, Up
<1>4. ASSUME NEW l \in Loops, IoStep(l) PROVE proc = "up"
  BY <1>4 DEF IoStep, EpollWait, DispatchDead, DispatchUnwired, DispatchRead,
     DispatchClose, Deliver, DeliverDead, CloseApp, CloseServer, WakeRead, DrainStart,
     WakeTask, WakeTaskFails, DrainEnd, HandleTimer, TimerVisit, TimerErase, TimerEnd, Handles,
     Die, Up
<1>5. CASE Halted \/ UNCHANGED vars
  BY <1>5 DEF Halted, vars
<1> QED
  BY <1>1, <1>2, <1>3, <1>4, <1>5 DEF Next

\* The safety half of the refinement: every behaviour of the queues is one of
\* the mailbox (its fairness is checked by TLC).
THEOREM MailboxRefined == Spec => Mail!Safe
<1>1. Init => Mail!Init
  BY DEF Init, Mail!Init
<1>2. ASSUME IInv, [Next]_vars PROVE [Mail!Next]_<<tasks, proc = "up">>
  <2> USE <1>2 DEF IInv
  <2> USE DEF Mail!Next, Mail!Post, Mail!Take, Mail!Crash
  <2>1. CASE UNCHANGED <<tasks, eventfd>> /\ (proc' = "up") = (proc = "up")
    BY <2>1
  <2>2. ASSUME NEW t \in Senders, NEW m \in Payloads, AppPush(t, m)
        PROVE  Mail!Next
    <3> DEFINE c == sender[t].conn
    <3>1. c \in Conns /\ fdOf[c] # NoFd
      BY <2>2 DEF AppPush, HandsInv, FdInv, Held, TypeOK
    <3>2. LoopOf(c) \in Loops /\ [conn |-> c, msg |-> m] \in Tasks
      BY <3>1, LoopOfType DEF Tasks
    <3> QED
      BY <2>2, <3>2 DEF AppPush, Up
  <2>3. ASSUME NEW l \in Loops, WakeTask(l) PROVE Mail!Next
    BY <2>3 DEF WakeTask, Up
  <2>4. CASE tasks' = tasks /\ proc = "up" /\ proc' # "up"
    BY <2>4
  <2> QED
    BY <2>1, <2>2, <2>3, <2>4, QueueStep, ProcStep DEF AppWake, WakeRead
<1> QED
  BY Invariance, <1>1, <1>2, PTL DEF Spec, Mail!Safe, Mail!mailVars

-----------------------------------------------------------------------------
\* The two maps agree

\* What the main thread may do with the connection in its hand.
LEMMA MainMoves ==
  ASSUME [Next]_vars
  PROVE  \/ main' = main
         \/ UNCHANGED mapVars /\ \/ \E c \in Conns, f \in Fds : Accept(c, f)
                                 \/ Wire \/ NewConnCb
         \/ InsertServer \/ InsertLoop
  BY MainFrame DEF MainStep, MainFinish, Accept, AcceptFail, Wire, InsertLoopRace,
                   NewConnCb, Die

\* An entry under the descriptor of a connection that exists is its own.
LEMMA EntryOwner ==
  ASSUME TypeOK, FdExclusive, NEW c \in Conns, Held(c), NEW d \in Conns, NEW f \in Fds,
         fdOf[c] = f, d \in {serverConns[f], loopConns[f]}
  PROVE  d = c
<1>1. Held(d)
  BY DEF Held
<1>2. fdOf[d] = f
  BY ConnsAssumption DEF FdExclusive
<1> QED
  BY <1>1, <1>2 DEF FdExclusive

\* Once closed, always closed.
LEMMA DisconnectGrows ==
  ASSUME [Next]_vars
  PROVE  disconnect \subseteq disconnect'
  BY ConnStep DEF Accept, DispatchClose

\* A connection in hand is one of Conns, and in the main thread's it is held.
LEMMA MainHand ==
  ASSUME TypeOK, HandsInv, FdInv, main.at # "wait"
  PROVE  main.conn \in Conns /\ Held(main.conn) /\ fdOf[main.conn] \in Fds
<1>1. main.conn \in Conns
  BY DEF TypeOK, HandsInv
<1>2. Held(main.conn)
  BY DEF Held
<1> QED
  BY <1>1, <1>2 DEF TypeOK, FdInv

\* A connection is half erased from the timer's first erasure to its second.
LEMMA HalfErasedStep ==
  ASSUME IInv, [Next]_vars, NEW c \in Conns
  PROVE  \/ HalfErased(c)' <=> HalfErased(c)
         \/ \E l \in Loops, f \in Fds : /\ TimerVisit(l, f)
                                        /\ loopConns[f] = c /\ serverConns'[f] = NoConn
         \/ \E l \in Loops : TimerErase(l) /\ io[l].conn = c
<1> USE DEF IInv
<1>1. CASE UNCHANGED <<io, batch>>
  BY <1>1 DEF HalfErased
<1>2. ASSUME NEW l \in Loops, IoStep(l)
      PROVE  \/ io'[l].at = "erase" /\ io'[l].conn = c
                  <=> io[l].at = "erase" /\ io[l].conn = c
             \/ \E f \in Fds : /\ TimerVisit(l, f)
                               /\ loopConns[f] = c /\ serverConns'[f] = NoConn
             \/ TimerErase(l) /\ io[l].conn = c
  <2>1. CASE io[l].at = "erase"
    <3>1. TimerErase(l)
      BY <1>2, <2>1 DEF IoStep, EpollWait, DispatchDead, DispatchUnwired, DispatchRead,
         DispatchClose, Deliver, DeliverDead, CloseApp, CloseServer, WakeRead, DrainStart,
         WakeTask, WakeTaskFails, DrainEnd, HandleTimer, TimerVisit, TimerEnd, Handles
    <3>2. io'[l].at = "timer"
      BY <3>1 DEF TimerErase, TypeOK
    <3> QED
      BY <3>1, <3>2
  <2>2. CASE io[l].at # "erase" /\ io'[l].at = "erase"
    <3>1. io[l] \in IoStates
      BY DEF TypeOK
    <3>2. IoNext(l, io[l], io'[l])
      BY <1>2, IoNextStep
    <3>3. /\ io'[l] # io[l] /\ io'[l] # Looping /\ io'[l] # At("woken", NoConn, 0, {})
          /\ \A fds : io'[l] # At("timer", NoConn, 0, fds)
          /\ \A d, n : io'[l] # At("deliver", d, n, {}) /\ io'[l] # At("closeApp", d, 0, {})
      BY <2>2
    <3>4. /\ io'[l] # [io[l] EXCEPT !.at = "closeServer"]
          /\ io'[l] # [io[l] EXCEPT !.at = "drain"]
          /\ io[l].at = "deliver" => io'[l] # [io[l] EXCEPT !.left = @ - 1]
      BY <2>2, <3>1 DEF IoStates
    <3>5. PICK f \in io[l].sweep : /\ loopConns[f] \in idle /\ TimerVisit(l, f)
                                  /\ io'[l] = At("erase", loopConns[f], 0, io[l].sweep \ {f})
      BY <3>2, <3>3, <3>4 DEF IoNext
    <3>6. f \in Fds /\ io'[l].conn = loopConns[f] /\ serverConns'[f] = NoConn
      BY <3>1, <3>5 DEF TimerVisit, TypeOK, IoStates
    <3> QED
      BY <2>2, <3>5, <3>6
  <2> QED
    BY <2>1, <2>2
<1>3. ASSUME NEW l \in Loops, IoStep(l), NEW k \in Loops, k # l PROVE io'[k] = io[k]
  BY <1>3, IoNextStep
<1> QED
  BY <1>1, <1>2, <1>3, IoFrame DEF HalfErased

\* An entry leaves one map alone only by the close of its connection, or by the
\* timer: first the server's map, then the loop's.
LEMMA EntriesKept ==
  ASSUME IInv, [Next]_vars, ~InsertServer, ~InsertLoop, NEW c \in Conns \ disconnect
  PROVE  \/ /\ HalfErased(c)' <=> HalfErased(c)
            /\ \A f \in Fds : /\ serverConns'[f] = c <=> serverConns[f] = c
                              /\ loopConns'[f] = c <=> loopConns[f] = c
         \/ /\ HalfErased(c)' /\ fdOf[c] \in Fds /\ loopConns[fdOf[c]] = c
            /\ loopConns' = loopConns
            /\ \A f \in Fds : serverConns'[f] # c
         \/ /\ HalfErased(c) /\ ~HalfErased(c)'
            /\ serverConns' = serverConns
            /\ \A f \in Fds : loopConns'[f] # c
<1> USE DEF IInv
<1>1. ASSUME NEW l \in Loops, NEW g \in Fds, TimerVisit(l, g), loopConns[g] = c, c \in idle
      PROVE  /\ HalfErased(c)' /\ fdOf[c] \in Fds /\ loopConns[fdOf[c]] = c
             /\ loopConns' = loopConns
             /\ \A f \in Fds : serverConns'[f] # c
  <2>1. /\ serverConns' = [serverConns EXCEPT ![g] = NoConn] /\ loopConns' = loopConns
        /\ io'[l].at = "erase" /\ io'[l].conn = c
    BY <1>1 DEF TimerVisit, TypeOK
  <2>2. fdOf[c] = g
    BY <1>1, ConnsAssumption DEF FdExclusive
  <2>3. ASSUME NEW f \in Fds, serverConns'[f] = c PROVE FALSE
    <3>1. f # g /\ serverConns[f] = c
      BY <2>1, <2>3, ConnsAssumption DEF TypeOK
    <3> QED
      BY <2>2, <3>1, ConnsAssumption DEF FdExclusive
  <2> QED
    BY <1>1, <2>1, <2>2, <2>3 DEF HalfErased
<1>2. ASSUME NEW l \in Loops, TimerErase(l), io[l].conn = c
      PROVE  /\ HalfErased(c) /\ ~HalfErased(c)'
             /\ serverConns' = serverConns
             /\ \A f \in Fds : loopConns'[f] # c
  <2>1. /\ io[l].at = "erase" /\ serverConns' = serverConns
        /\ io' = [io EXCEPT ![l] = At("timer", NoConn, 0, io[l].sweep)]
        /\ loopConns' = [loopConns EXCEPT ![fdOf[c]] = NoConn]
    BY <1>2 DEF TimerErase
  <2>2. fdOf[c] \in Fds /\ LoopOf(c) = l
    BY <1>2, <2>1, EraseOwner
  <2>3. ASSUME NEW k \in Loops, io'[k].at = "erase", io'[k].conn = c PROVE FALSE
    <3>1. k # l /\ io'[k] = io[k]
      BY <2>1, <2>3 DEF TypeOK
    <3> QED
      BY <2>2, <2>3, <3>1 DEF OwnerInv
  <2>4. ASSUME NEW f \in Fds, loopConns'[f] = c PROVE FALSE
    <3>1. f # fdOf[c] /\ loopConns[f] = c
      BY <2>1, <2>4, ConnsAssumption DEF TypeOK
    <3> QED
      BY <3>1, ConnsAssumption DEF FdExclusive
  <2> QED
    BY <1>2, <2>1, <2>3, <2>4 DEF HalfErased
<1>3. ASSUME /\ \A l \in Loops, g \in Fds : ~(TimerVisit(l, g) /\ loopConns[g] = c /\ c \in idle)
             /\ \A l \in Loops : ~(TimerErase(l) /\ io[l].conn = c)
      PROVE  /\ HalfErased(c)' <=> HalfErased(c)
             /\ \A f \in Fds : /\ serverConns'[f] = c <=> serverConns[f] = c
                               /\ loopConns'[f] = c <=> loopConns[f] = c
  <2>1. HalfErased(c)' <=> HalfErased(c)
    <3>1. ASSUME NEW l \in Loops, NEW g \in Fds, TimerVisit(l, g), loopConns[g] = c
          PROVE  HalfErased(c)' <=> HalfErased(c)
      <4>1. io[l].at = "timer" /\ io' = [io EXCEPT ![l] = At("timer", NoConn, 0, io[l].sweep \ {g})]
        BY <1>3, <3>1 DEF TimerVisit
      <4> QED
        BY <4>1 DEF HalfErased, TypeOK
    <3> QED
      BY <1>3, <3>1, HalfErasedStep
  <2>2. ASSUME NEW f \in Fds
        PROVE  /\ serverConns'[f] = c <=> serverConns[f] = c
               /\ loopConns'[f] = c <=> loopConns[f] = c
    <3>1. CASE UNCHANGED mapVars
      BY <3>1 DEF mapVars
    <3>2. ASSUME NEW l \in Loops, CloseServer(l)
          PROVE  /\ serverConns'[f] = c <=> serverConns[f] = c
                 /\ loopConns'[f] = c <=> loopConns[f] = c
      <4> DEFINE d == io[l].conn
      <4>1. io[l].at = "closeServer" /\ d \in Conns
        BY <3>2 DEF CloseServer, HandsInv, TypeOK, IoStates
      <4>2. Held(d) /\ d \in disconnect
        BY <4>1 DEF Held, OwnerInv
      <4>3. fdOf[d] = f => serverConns[f] # c
        BY <4>1, <4>2, EntryOwner
      <4>4. serverConns' = [serverConns EXCEPT ![fdOf[d]] = NoConn] /\ loopConns' = loopConns
        BY <3>2 DEF CloseServer
      <4> QED
        BY <4>3, <4>4, ConnsAssumption DEF TypeOK
    <3>3. ASSUME NEW l \in Loops, NEW g \in Fds, TimerVisit(l, g)
          PROVE  /\ serverConns'[f] = c <=> serverConns[f] = c
                 /\ loopConns'[f] = c <=> loopConns[f] = c
      <4>1. CASE loopConns[g] \notin idle
        BY <3>3, <4>1 DEF TimerVisit
      <4>2. CASE loopConns[g] \in idle
        <5>1. /\ serverConns' = [serverConns EXCEPT ![g] = NoConn] /\ loopConns' = loopConns
              /\ loopConns[g] # c
          BY <1>3, <3>3, <4>2 DEF TimerVisit
        <5>2. loopConns[g] \in Conns /\ Held(loopConns[g])
          BY <4>2 DEF TypeOK, Held
        <5>3. serverConns[g] # c
          <6>1. fdOf[loopConns[g]] = g
            BY <5>2, ConnsAssumption DEF FdExclusive
          <6> QED
            BY <5>1, <5>2, <6>1, EntryOwner
        <5> QED
          BY <5>1, <5>3, ConnsAssumption DEF TypeOK
      <4> QED
        BY <4>1, <4>2
    <3>4. ASSUME NEW l \in Loops, TimerErase(l)
          PROVE  /\ serverConns'[f] = c <=> serverConns[f] = c
                 /\ loopConns'[f] = c <=> loopConns[f] = c
      <4> DEFINE d == io[l].conn
      <4>1. /\ io[l].at = "erase" /\ serverConns' = serverConns /\ d # c
            /\ loopConns' = [loopConns EXCEPT ![fdOf[d]] = NoConn]
        BY <1>3, <3>4 DEF TimerErase
      <4>2. loopConns[fdOf[d]] = d /\ fdOf[d] \in Fds
        BY <4>1, EraseOwner
      <4> QED
        BY <4>1, <4>2, ConnsAssumption DEF TypeOK
    <3> QED
      BY <3>1, <3>2, <3>3, <3>4, MapStep
  <2> QED
    BY <2>1, <2>2
<1> QED
  BY <1>1, <1>2, <1>3

MapsInv == MapsAgree /\ SetUpInv

\* What a connection half erased leaves behind: nothing in the server's map.
HalfErasedGone(c) == HalfErased(c) => serverConns[fdOf[c]] # c

\* A step that inserts nothing keeps what the maps say of an open connection
\* in agreement.
LEMMA AgreeStep ==
  ASSUME IInv, [Next]_vars, ~InsertServer, ~InsertLoop, NEW c \in Conns \ disconnect,
         HalfErasedGone(c), fdOf'[c] = fdOf[c], NEW f \in Fds, AgreeOn(c, f)
  PROVE  AgreeOn(c, f)'
<1> USE DEF IInv, AgreeOn
<1>1. CASE /\ HalfErased(c)' <=> HalfErased(c)
           /\ serverConns'[f] = c <=> serverConns[f] = c
           /\ loopConns'[f] = c <=> loopConns[f] = c
  BY <1>1
<1>2. CASE /\ HalfErased(c)' /\ loopConns[fdOf[c]] = c
           /\ loopConns' = loopConns /\ serverConns'[f] # c
  <2>1. loopConns[f] = c <=> fdOf[c] = f
    BY <1>2, ConnsAssumption DEF FdExclusive
  <2> QED
    BY <1>2, <2>1
<1>3. CASE /\ HalfErased(c) /\ ~HalfErased(c)'
           /\ serverConns' = serverConns /\ loopConns'[f] # c
  <2>1. serverConns[f] # c
    BY <1>3, ConnsAssumption DEF HalfErasedGone, FdExclusive
  <2> QED
    BY <1>3, <2>1
<1> QED
  BY <1>1, <1>2, <1>3, EntriesKept

\* While the timer is between its two erasures, nobody puts the connection back
\* into the server's map: it is in the loop's, so its set-up is past that.
LEMMA GoneStep ==
  ASSUME IInv, MapsInv, [Next]_vars, NEW c \in Conns, HalfErased(c)'
  PROVE  serverConns'[fdOf'[c]] # c
<1> USE DEF IInv
<1>1. CASE HalfErased(c)
  <2>1. /\ Held(c) /\ fdOf[c] \in Fds /\ loopConns[fdOf[c]] = c
    BY <1>1, EraseOwner DEF HalfErased
  <2>2. fdOf'[c] = fdOf[c] /\ serverConns[fdOf[c]] # c
    BY <1>1, <2>1, FdStep, FdsAssumption DEF MapsInv, SetUpInv
  <2>3. InsertServer => main.conn # c
    BY <2>1 DEF InsertServer, MapsInv, SetUpInv
  <2>4. InsertServer => serverConns'[fdOf[c]] # c
    BY <2>1, <2>2, <2>3 DEF InsertServer, TypeOK
  <2>5. InsertLoop => serverConns'[fdOf[c]] # c
    BY <2>2 DEF InsertLoop
  <2>6. ASSUME NEW l \in Loops, CloseServer(l) \/ TimerErase(l) \/ \E f \in Fds : TimerVisit(l, f)
        PROVE  serverConns'[fdOf[c]] \in {serverConns[fdOf[c]], NoConn}
    BY <2>1, <2>6 DEF CloseServer, TimerErase, TimerVisit, TypeOK
  <2> QED
    BY <2>2, <2>4, <2>5, <2>6, MapStep, ConnsAssumption DEF mapVars
<1>2. CASE ~HalfErased(c)
  <2>1. PICK l \in Loops, f \in Fds : /\ TimerVisit(l, f) /\ loopConns[f] = c
                                     /\ serverConns'[f] = NoConn
    <3>1. ASSUME NEW l \in Loops, TimerErase(l), io[l].conn = c PROVE FALSE
      BY <1>2, <3>1 DEF TimerErase, HalfErased
    <3> QED
      BY <1>2, <3>1, HalfErasedStep
  <2>2. fdOf[c] = f /\ fdOf' = fdOf
    BY <2>1, ConnsAssumption DEF FdExclusive, TimerVisit, connVars
  <2> QED
    BY <2>1, <2>2, ConnsAssumption
<1> QED
  BY <1>1, <1>2

\* A step that inserts nothing keeps what each map says of an open connection,
\* or takes it out of the two, one after the other.
LEMMA MapsQuietStep ==
  ASSUME IInv, MapsInv, [Next]_vars, ~InsertServer, ~InsertLoop
  PROVE  MapsInv'
<1> USE DEF IInv, MapsInv
<1>1. disconnect \subseteq disconnect'
  BY DisconnectGrows
<1>2. ASSUME NEW c \in Conns \ disconnect, NEW f \in Fds, AgreeOn(c, f),
             fdOf'[c] = fdOf[c]
      PROVE  AgreeOn(c, f)'
  <2>1. HalfErasedGone(c)
    BY DEF SetUpInv, HalfErasedGone
  <2> QED
    BY <1>2, <2>1, AgreeStep
<1>7. \A c \in Conns : HalfErased(c)' => serverConns'[fdOf'[c]] # c
  BY GoneStep
<1>8. \A c \in Conns : (\E f \in Fds : Accept(c, f)) \/ fdOf'[c] = fdOf[c]
  BY FdStep
<1>9. ASSUME NEW c \in Conns \ disconnect, c # main.conn, fdOf'[c] = fdOf[c], NEW f \in Fds
      PROVE  AgreeOn(c, f)'
  BY <1>2, <1>9 DEF MapsAgree
<1>3. CASE main' = main
  <2>5. \A c \in Conns : fdOf'[c] = fdOf[c]
    <3>1. ASSUME NEW c \in Conns, NEW f \in Fds, Accept(c, f) PROVE FALSE
      BY <1>3, <3>1 DEF Accept
    <3> QED
      BY <1>8, <3>1
  <2>1. MapsAgree'
    BY <1>1, <1>3, <1>9, <2>5 DEF MapsAgree
  <2>2. ASSUME NEW f \in Fds, main.at # "wait"
        PROVE  /\ serverConns[f] # main.conn => serverConns'[f] # main.conn
               /\ loopConns[f] # main.conn => loopConns'[f] # main.conn
    <3>2. /\ serverConns'[f] \in {serverConns[f], NoConn}
          /\ loopConns'[f] \in {loopConns[f], NoConn}
      <4>1. CASE UNCHANGED mapVars
        BY <4>1 DEF mapVars
      <4>2. ASSUME NEW l \in Loops, CloseServer(l) \/ TimerErase(l)
            PROVE  /\ serverConns'[f] \in {serverConns[f], NoConn}
                   /\ loopConns'[f] \in {loopConns[f], NoConn}
        BY <4>2 DEF CloseServer, TimerErase, TypeOK
      <4>3. ASSUME NEW l \in Loops, NEW g \in Fds, TimerVisit(l, g)
            PROVE  /\ serverConns'[f] \in {serverConns[f], NoConn}
                   /\ loopConns'[f] \in {loopConns[f], NoConn}
        BY <4>3 DEF TimerVisit, TypeOK
      <4> QED
        BY <4>1, <4>2, <4>3, MapStep
    <3>3. main.conn # NoConn
      BY <2>2 DEF HandsInv
    <3> QED
      BY <3>2, <3>3
  <2>3. ASSUME main.at = "inServer", main.conn \notin disconnect'
        PROVE  serverConns'[fdOf'[main.conn]] = main.conn
    <3>1. main.conn \in Conns \ disconnect /\ Held(main.conn) /\ fdOf[main.conn] \in Fds
      BY <1>1, <2>3, MainHand
    <3> DEFINE f == fdOf[main.conn]
    <3>2. fdOf'[main.conn] = f
      BY <2>5, <3>1
    <3>4. loopConns[f] # main.conn /\ serverConns[f] = main.conn
      BY <1>1, <2>3, <3>1 DEF SetUpInv
    <3>5. ~HalfErased(main.conn)
      BY <3>4, EraseOwner DEF HalfErased
    <3> QED
      BY <3>1, <3>2, <3>4, <3>5, EntriesKept
  <2>4. ASSUME main.at = "inLoop", main.conn \notin disconnect', NEW f \in Fds
        PROVE  AgreeOn(main.conn, f)'
    <3>1. PICK m \in Conns \ disconnect : m = main.conn
      BY <1>1, <2>4, MainHand
    <3>2. AgreeOn(m, f)
      BY <2>4, <3>1 DEF SetUpInv
    <3>3. AgreeOn(m, f)'
      BY <1>2, <2>5, <3>1, <3>2
    <3> QED
      BY <1>3, <3>1, <3>3 DEF AgreeOn
  <2>7. /\ main'.at \in {"ctor", "wired"} => \A f \in Fds : serverConns'[f] # main'.conn
        /\ main'.at \in {"ctor", "wired", "inServer"} =>
               \A f \in Fds : loopConns'[f] # main'.conn
    BY <1>3, <2>2 DEF SetUpInv
  <2>8. SetUpInv'
    BY <1>3, <1>7, <2>3, <2>4, <2>7 DEF SetUpInv, AgreeOn
  <2> QED
    BY <2>1, <2>8
<1>4. ASSUME NEW c \in Conns, NEW f \in Fds, Accept(c, f) PROVE MapsInv'
  <2>1. /\ main' = MainAt("ctor", c) /\ main.at = "wait" /\ disconnect' = disconnect
        /\ UNCHANGED mapVars /\ fdOf[c] = NoFd /\ fdOf' = [fdOf EXCEPT ![c] = f]
    BY <1>4 DEF Accept
  <2>2. main.conn = NoConn /\ ~Held(c)
    BY <2>1 DEF HandsInv, FdInv
  <2>3. \A g \in Fds : serverConns[g] # c /\ loopConns[g] # c
    BY <2>2 DEF Held
  <2>4. \A d \in Conns \ {c} : fdOf'[d] = fdOf[d]
    BY <2>1 DEF TypeOK
  <2>5. MapsAgree'
    BY <1>9, <2>1, <2>2, <2>4, ConnsAssumption DEF MapsAgree
  <2>6. SetUpInv'
    BY <1>7, <2>1, <2>3 DEF SetUpInv, mapVars
  <2> QED
    BY <2>5, <2>6
<1>5. CASE Wire
  <2>1. /\ main' = MainAt("wired", main.conn) /\ main.at = "ctor"
        /\ UNCHANGED <<fdOf, disconnect, mapVars>>
    BY <1>5 DEF Wire, connVars
  <2>2. MapsAgree'
    BY <1>9, <2>1 DEF MapsAgree
  <2>3. SetUpInv'
    BY <1>7, <2>1 DEF SetUpInv, mapVars
  <2> QED
    BY <2>2, <2>3
<1>6. CASE NewConnCb
  <2>1. /\ main' = MainAt("wait", NoConn) /\ main.at = "inLoop"
        /\ UNCHANGED <<fdOf, disconnect, mapVars>>
    BY <1>6 DEF NewConnCb, connVars
  <2>2. MapsAgree'
    <3>1. ASSUME NEW c \in Conns \ disconnect, NEW f \in Fds PROVE AgreeOn(c, f)'
      <4>1. CASE c = main.conn
        BY <1>2, <2>1, <4>1 DEF SetUpInv
      <4> QED
        BY <1>9, <2>1, <4>1
    <3> QED
      BY <2>1, <3>1 DEF MapsAgree
  <2>3. SetUpInv'
    BY <1>7, <2>1 DEF SetUpInv
  <2> QED
    BY <2>2, <2>3
<1> QED
  BY <1>3, <1>4, <1>5, <1>6, MainMoves

LEMMA MapsInsertStep ==
  ASSUME IInv, MapsInv, InsertServer \/ InsertLoop
  PROVE  MapsInv'
<1> USE DEF IInv, MapsInv
<1> DEFINE m == main.conn
           f == fdOf[m]
<1>1. /\ main.at \in {"wired", "inServer"} /\ main'.conn = m
      /\ UNCHANGED <<connVars, io>>
  BY DEF InsertServer, InsertLoop
<1>2. m \in Conns /\ Held(m) /\ f \in Fds
  BY <1>1, MainHand
<1>3. ASSUME NEW c \in Conns \ {m} PROVE serverConns[f] # c /\ loopConns[f] # c
  BY <1>2, <1>3, EntryOwner
<1>6. /\ fdOf' = fdOf /\ disconnect' = disconnect
      /\ \A c : HalfErased(c)' <=> HalfErased(c)
  BY <1>1 DEF connVars, HalfErased
<1>7. [Next]_vars
  BY DEF Next, MainStep, MainFinish
<1>8. \A c \in Conns : HalfErased(c)' => serverConns'[fdOf'[c]] # c
  BY <1>7, GoneStep
<1>4. CASE InsertServer
  <2>1. /\ main' = MainAt("inServer", m) /\ main.at = "wired"
        /\ serverConns' = [serverConns EXCEPT ![f] = m] /\ loopConns' = loopConns
    BY <1>4 DEF InsertServer
  <2>2. ASSUME NEW c \in Conns \ {m}, NEW g \in Fds, AgreeOn(c, g) PROVE AgreeOn(c, g)'
    BY <1>2, <1>3, <1>6, <2>1, <2>2 DEF AgreeOn, TypeOK
  <2>3. MapsAgree'
    BY <1>1, <1>6, <2>2 DEF MapsAgree
  <2>4. serverConns'[f] = m
    BY <1>2, <2>1 DEF TypeOK
  <2>5. SetUpInv'
    BY <1>6, <1>8, <2>1, <2>4 DEF SetUpInv
  <2> QED
    BY <2>3, <2>5
<1>5. CASE InsertLoop
  <2>1. /\ main' = MainAt("inLoop", m) /\ main.at = "inServer"
        /\ loopConns' = [loopConns EXCEPT ![f] = m] /\ serverConns' = serverConns
    BY <1>5 DEF InsertLoop
  <2>2. ASSUME NEW c \in Conns \ {m}, NEW g \in Fds, AgreeOn(c, g) PROVE AgreeOn(c, g)'
    BY <1>2, <1>3, <1>6, <2>1, <2>2 DEF AgreeOn, TypeOK
  <2>3. MapsAgree'
    BY <1>1, <1>6, <2>2 DEF MapsAgree
  <2>4. ASSUME m \notin disconnect, NEW g \in Fds PROVE AgreeOn(m, g)'
    <3>1. serverConns[f] = m /\ loopConns'[f] = m
      BY <1>2, <2>1, <2>4 DEF TypeOK, SetUpInv
    <3>2. CASE g # f
      <4>1. serverConns[g] # m
        BY <1>2, <3>2, ConnsAssumption DEF FdExclusive
      <4>2. loopConns'[g] # m
        <5>1. loopConns[g] # m
          BY <2>1 DEF SetUpInv
        <5> QED
          BY <2>1, <3>2, <5>1 DEF TypeOK
      <4> QED
        BY <1>6, <2>1, <3>2, <4>1, <4>2 DEF AgreeOn
    <3> QED
      BY <2>1, <3>1, <3>2 DEF AgreeOn
  <2>5. SetUpInv'
    <3>1. main'.at = "inLoop" /\ main'.conn = m
      BY <2>1
    <3>2. m \notin disconnect' => \A g \in Fds : AgreeOn(m, g)'
      BY <1>6, <2>4
    <3> QED
      BY <1>8, <3>1, <3>2 DEF SetUpInv, AgreeOn
  <2> QED
    BY <2>3, <2>5
<1> QED
  BY <1>4, <1>5

\* An open connection whose set-up is over is in both maps or in neither, or in
\* the loop's alone while the idle timer is between its two erasures, for any
\* number of connections, descriptors and loops: MapsAgree, from what
\* holds during the set-up (SetUpInv) and the exclusive descriptors.
THEOREM MapsCoherent == Spec => []MapsAgree
<1>1. Init => MapsInv
  BY ConnsAssumption DEF Init, MapsInv, MapsAgree, SetUpInv, AgreeOn, HalfErased
<1>2. IInv /\ MapsInv /\ [Next]_vars => MapsInv'
  BY MapsQuietStep, MapsInsertStep
<1>3. MapsInv => MapsAgree
  BY DEF MapsInv
<1> QED
  BY Invariance, <1>1, <1>2, <1>3, PTL DEF Spec
==============================================================================
