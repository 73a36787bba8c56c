------------------------------- MODULE Reactor -------------------------------
(***************************************************************************)
(* The one-loop-per-thread TCP framework: TcpServer, Acceptor, EventLoop,  *)
(* Epoll, Channel and Connection, with any application on top of it.       *)
(*                                                                         *)
(* The main thread accepts sockets and builds Connections; IO thread l     *)
(* runs sub-loop l; application threads (Senders) call Connection::send.   *)
(* A Connection is identified by one lifetime: a descriptor that is reused *)
(* belongs to another element of Conns.  Byte streams are abstracted to a  *)
(* number of complete, unread frames and to the end of the stream.         *)
(***************************************************************************)
EXTENDS Integers, Sequences, FiniteSets

CONSTANTS Conns,      \* connection lifetimes the run may see
          Fds,        \* descriptors the process may give to clients
          threadnum,  \* number of sub-loops (TcpServer::threadnum_)
          Senders,    \* application threads outside the loops
          Payloads,   \* messages the application sends
          NoConn, NoFd,
          MaxFrames,  \* bound: unread frames of one connection
          MaxTasks    \* bound: tasks queued on one sub-loop

ASSUME ThreadnumAssumption == threadnum \in Nat \ {0}
ASSUME FdsAssumption == Fds \subseteq Nat /\ NoFd \notin Fds
ASSUME ConnsAssumption ==
    /\ NoConn \notin Conns
    /\ "wake" \notin Conns \cup {NoConn}
    /\ "timer" \notin Conns \cup {NoConn}
ASSUME BoundsAssumption == MaxFrames \in Nat /\ MaxTasks \in Nat

Loops == 0 .. threadnum - 1

\* sendinloop bound to a Connection and a message
Tasks == [conn : Conns, msg : Payloads]

VARIABLES
  proc,         \* the process: "up", or how it ended
  main,         \* main thread inside TcpServer::newconnection
  fdOf,         \* descriptor of each connection, NoFd before accept
  tree,         \* channels added to an epoll tree and not deleted from it
  inepoll,      \* Channel::inepoll_
  disconnect,   \* Connection::disconnect_
  serverConns,  \* TcpServer::conns_
  loopConns,    \* EventLoop::conns_ of the loops (fd determines the loop)
  appRefs,      \* connections the application holds a shared_ptr to
  inq,          \* complete frames in the socket, not read yet
  fin,          \* the peer closed or reset the stream
  edge,         \* connections on epoll's ready list
  idle,         \* now - lastatime_ > timeout_
  eventfd,      \* loops whose wakeupfd_ is readable
  timer,        \* loops whose timerfd_ has expired
  tasks,        \* EventLoop::taskqueue_
  batch,        \* events returned by epoll_wait and not handled yet
  io,           \* where each IO thread is
  sender        \* where each application thread is in Connection::send

kernelVars == <<inq, fin, edge, idle, eventfd, timer>>
connVars   == <<fdOf, tree, inepoll, disconnect>>
mapVars    == <<serverConns, loopConns>>
vars == <<proc, main, fdOf, tree, inepoll, disconnect, serverConns, loopConns,
          appRefs, inq, fin, edge, idle, eventfd, timer, tasks, batch, io, sender>>

-----------------------------------------------------------------------------
\* Threads' control points

At(step, c, n, fds) == [at |-> step, conn |-> c, left |-> n, sweep |-> fds]
Looping == At("loop", NoConn, 0, {})
IoSteps == {"loop", "deliver", "closeApp", "closeServer", "woken", "drain",
            "timer", "erase"}
IoStates == [at : IoSteps, conn : Conns \cup {NoConn}, left : 0 .. MaxFrames,
             sweep : SUBSET Fds]

MainAt(step, c) == [at |-> step, conn |-> c]
SenderAt(step, c) == [at |-> step, conn |-> c]
Idling == SenderAt("idle", NoConn)

\* clientsock->fd() % threadnum_
LoopOf(c) == fdOf[c] % threadnum

\* Some shared_ptr keeps the Connection, and with it its descriptor, alive.
Held(c) ==
    \/ main.conn = c
    \/ \E f \in Fds : c \in {serverConns[f], loopConns[f]}
    \/ c \in appRefs
    \/ \E l \in Loops : io[l].conn = c /\ io[l].at \in {"closeApp", "closeServer"}
    \/ \E t \in Senders : sender[t].conn = c

\* Mutant: close() the descriptor as soon as the peer has gone.
FreeFdEarly(f) == \A c \in Conns \ disconnect : Held(c) => fdOf[c] # f

\* A descriptor is free once the Socket that owned it is destroyed.
FreeFd(f) == \A c \in Conns : Held(c) => fdOf[c] # f

\* Closing a descriptor takes it off the epoll tree as EPOLL_CTL_DEL does.
Watched(c) == c \in tree /\ Held(c)

Readable(c) == inq[c] > 0 \/ c \in fin

\* Callbacks are set and a shared_ptr owns the object.
Wired(c) == main # MainAt("ctor", c)

TypeOK ==
    /\ proc \in {"up", "abort", "exited", "killed", "ub"}
    /\ main \in [at : {"wait", "ctor", "wired", "inServer", "inLoop"},
                 conn : Conns \cup {NoConn}]
    /\ fdOf \in [Conns -> Fds \cup {NoFd}]
    /\ tree \subseteq Conns /\ inepoll \subseteq Conns /\ disconnect \subseteq Conns
    /\ serverConns \in [Fds -> Conns \cup {NoConn}]
    /\ loopConns \in [Fds -> Conns \cup {NoConn}]
    /\ appRefs \subseteq Conns
    /\ inq \in [Conns -> 0 .. MaxFrames]
    /\ fin \subseteq Conns /\ edge \subseteq Conns /\ idle \subseteq Conns
    /\ eventfd \subseteq Loops /\ timer \subseteq Loops
    /\ tasks \in [Loops -> Seq(Tasks)]
    /\ batch \in [Loops -> SUBSET (Conns \cup {"wake", "timer"})]
    /\ io \in [Loops -> IoStates]
    /\ sender \in [Senders -> [at : {"idle", "push", "wake"},
                               conn : Conns \cup {NoConn}]]

Init ==
    /\ proc = "up"
    /\ main = MainAt("wait", NoConn)
    /\ fdOf = [c \in Conns |-> NoFd]
    /\ tree = {} /\ inepoll = {} /\ disconnect = {}
    /\ serverConns = [f \in Fds |-> NoConn]
    /\ loopConns = [f \in Fds |-> NoConn]
    /\ appRefs = {}
    /\ inq = [c \in Conns |-> 0]
    /\ fin = {} /\ edge = {} /\ idle = {} /\ eventfd = {} /\ timer = {}
    /\ tasks = [l \in Loops |-> <<>>]
    /\ batch = [l \in Loops |-> {}]
    /\ io = [l \in Loops |-> Looping]
    /\ sender = [t \in Senders |-> Idling]

Up == proc = "up" /\ proc' = "up"

\* The process ends; nothing else moves.
Die(how) ==
    /\ proc = "up" /\ proc' = how
    /\ UNCHANGED <<main, connVars, mapVars, appRefs, kernelVars, tasks, batch,
                   io, sender>>

-----------------------------------------------------------------------------
\* The peers and the clock

PeerSend(c) ==
    /\ Up
    /\ Watched(c) /\ c \notin fin /\ inq[c] < MaxFrames
    /\ inq' = [inq EXCEPT ![c] = @ + 1]
    /\ edge' = edge \cup {c}
    /\ UNCHANGED <<main, connVars, mapVars, appRefs, fin, idle, eventfd,
                   timer, tasks, batch, io, sender>>

PeerClose(c) ==
    /\ Up
    /\ Watched(c) /\ c \notin fin
    /\ fin' = fin \cup {c}
    /\ edge' = edge \cup {c}
    /\ UNCHANGED <<main, connVars, mapVars, appRefs, inq, idle, eventfd,
                   timer, tasks, batch, io, sender>>

\* timeout_ seconds pass without a message picked from the connection.
GoIdle(c) ==
    /\ Up
    /\ Held(c) /\ c \notin idle
    /\ idle' = idle \cup {c}
    /\ UNCHANGED <<main, connVars, mapVars, appRefs, inq, fin, edge,
                   eventfd, timer, tasks, batch, io, sender>>

TimerFires(l) ==
    /\ Up
    /\ l \notin timer
    /\ timer' = timer \cup {l}
    /\ UNCHANGED <<main, connVars, mapVars, appRefs, inq, fin, edge, idle,
                   eventfd, tasks, batch, io, sender>>

-----------------------------------------------------------------------------
\* The main thread

\* Acceptor::newconnection and the Connection constructor: the channel joins
\* the sub-loop's epoll tree before any callback is set.
Accept(c, f) ==
    /\ Up
    /\ main.at = "wait" /\ fdOf[c] = NoFd /\ FreeFd(f)
    /\ fdOf' = [fdOf EXCEPT ![c] = f]
    /\ tree' = tree \cup {c}
    /\ inepoll' = inepoll \cup {c}
    /\ main' = MainAt("ctor", c)
    /\ UNCHANGED <<disconnect, mapVars, appRefs, kernelVars, tasks, batch,
                   io, sender>>

\* Mutant: carry on with the descriptor -1.
AcceptFailIgnored ==
    /\ Up
    /\ main.at = "wait" /\ \A f \in Fds : ~FreeFd(f)
    /\ \E c \in Conns : /\ fdOf[c] = NoFd
                        /\ fdOf' = [fdOf EXCEPT ![c] = -1]
                        /\ main' = MainAt("ctor", c)
    /\ UNCHANGED <<tree, inepoll, disconnect, mapVars, appRefs, kernelVars,
                   tasks, batch, io, sender>>

\* accept4 fails for want of a descriptor; its result -1 is used unchecked:
\* subloops_[-1 % threadnum_] is outside the vector; with one loop it is that
\* loop, and adding descriptor -1 to its epoll tree exits.
AcceptFail ==
    /\ main.at = "wait"
    /\ \E c \in Conns : fdOf[c] = NoFd
    /\ \A f \in Fds : ~FreeFd(f)
    /\ Die(IF threadnum = 1 THEN "exited" ELSE "ub")

Wire ==
    /\ Up
    /\ main.at = "ctor"
    /\ main' = MainAt("wired", main.conn)
    /\ UNCHANGED <<connVars, mapVars, appRefs, kernelVars, tasks, batch,
                   io, sender>>

InsertServer ==
    /\ Up
    /\ main.at = "wired"
    /\ serverConns' = [serverConns EXCEPT ![fdOf[main.conn]] = main.conn]
    /\ main' = MainAt("inServer", main.conn)
    /\ UNCHANGED <<connVars, loopConns, appRefs, kernelVars, tasks, batch,
                   io, sender>>

InsertLoop ==
    /\ Up
    /\ main.at = "inServer"
    /\ loopConns' = [loopConns EXCEPT ![fdOf[main.conn]] = main.conn]
    /\ main' = MainAt("inLoop", main.conn)
    /\ UNCHANGED <<connVars, serverConns, appRefs, kernelVars, tasks, batch,
                   io, sender>>

\* handletimer walks the same std::map without the mutex meanwhile.
InsertLoopRace ==
    /\ main.at = "inServer"
    /\ io[LoopOf(main.conn)].at = "timer"
    /\ Die("ub")

\* newconnectioncb_: the application may keep the connection, drop others.
NewConnCb ==
    /\ Up
    /\ main.at = "inLoop"
    /\ appRefs' \in SUBSET (appRefs \cup {main.conn})
    /\ main' = MainAt("wait", NoConn)
    /\ UNCHANGED <<connVars, mapVars, kernelVars, tasks, batch, io, sender>>

-----------------------------------------------------------------------------
\* Application threads: Connection::send outside the loop thread

\* The disconnect_ test in the caller's thread; a closed connection returns.
AppSend(t, c) ==
    /\ Up
    /\ sender[t] = Idling
    /\ c \in appRefs /\ c \notin disconnect
    /\ sender' = [sender EXCEPT ![t] = SenderAt("push", c)]
    /\ UNCHANGED <<main, connVars, mapVars, appRefs, kernelVars, tasks,
                   batch, io>>

\* Mutant: queueinloop forgets wakeup().
AppPushSilent(t, m) ==
    LET c == sender[t].conn  l == LoopOf(c)
    IN  /\ Up
        /\ sender[t].at = "push"
        /\ io[l].at # "drain" /\ Len(tasks[l]) < MaxTasks
        /\ tasks' = [tasks EXCEPT ![l] = Append(@, [conn |-> c, msg |-> m])]
        /\ sender' = [sender EXCEPT ![t] = Idling]
        /\ UNCHANGED <<main, connVars, mapVars, appRefs, kernelVars, batch, io>>

\* queueinloop, under mutex_: sendinloop is bound to the raw Connection.
AppPush(t, m) ==
    LET c == sender[t].conn  l == LoopOf(c)
    IN  /\ Up
        /\ sender[t].at = "push"
        /\ io[l].at # "drain" /\ Len(tasks[l]) < MaxTasks
        /\ tasks' = [tasks EXCEPT ![l] = Append(@, [conn |-> c, msg |-> m])]
        /\ sender' = [sender EXCEPT ![t] = SenderAt("wake", c)]
        /\ UNCHANGED <<main, connVars, mapVars, appRefs, kernelVars, batch, io>>

\* wakeup(), after the mutex is released.
AppWake(t) ==
    /\ Up
    /\ sender[t].at = "wake"
    /\ eventfd' = eventfd \cup {LoopOf(sender[t].conn)}
    /\ sender' = [sender EXCEPT ![t] = Idling]
    /\ UNCHANGED <<main, connVars, mapVars, appRefs, inq, fin, edge, idle,
                   timer, tasks, batch, io>>

\* The application lets go of connections.
AppDrop ==
    /\ Up
    /\ appRefs' \in (SUBSET appRefs) \ {appRefs}
    /\ UNCHANGED <<main, connVars, mapVars, kernelVars, tasks, batch, io, sender>>

-----------------------------------------------------------------------------
\* The IO threads: EventLoop::run

Ready(l) ==
    {c \in edge : Watched(c) /\ LoopOf(c) = l /\ Readable(c)}
    \cup (IF l \in eventfd THEN {"wake"} ELSE {})
    \cup (IF l \in timer THEN {"timer"} ELSE {})

\* Epoll::loop returns every ready channel, in an order the kernel chooses.
EpollWait(l) ==
    /\ Up
    /\ io[l].at = "loop" /\ batch[l] = {} /\ Ready(l) # {}
    /\ batch' = [batch EXCEPT ![l] = Ready(l)]
    /\ edge' = {c \in edge : LoopOf(c) # l}
    /\ UNCHANGED <<main, connVars, mapVars, appRefs, inq, fin, idle,
                   eventfd, timer, tasks, io, sender>>

\* for (auto &ch : channels) ch->handleevent()
Handles(l, event) ==
    /\ Up
    /\ io[l].at = "loop" /\ event \in batch[l]
    /\ batch' = [batch EXCEPT ![l] = @ \ {event}]

\* The Channel of the batch was destroyed with its Connection.
DispatchDead(l, c) ==
    /\ io[l].at = "loop" /\ c \in batch[l] /\ ~Held(c)
    /\ Die("ub")

\* Callbacks not set yet (bad_function_call, bad_weak_ptr): std::terminate.
DispatchUnwired(l, c) ==
    /\ io[l].at = "loop" /\ c \in batch[l] /\ Held(c) /\ ~Wired(c)
    /\ Die("abort")

\* Connection::onmessage reads up to EAGAIN.
DispatchRead(l, c) ==
    /\ Handles(l, c)
    /\ Held(c) /\ Wired(c) /\ c \notin fin /\ inq[c] > 0
    /\ inq' = [inq EXCEPT ![c] = 0]
    /\ io' = [io EXCEPT ![l] = At("deliver", c, inq[c], {})]
    /\ UNCHANGED <<main, connVars, mapVars, appRefs, fin, edge, idle,
                   eventfd, timer, tasks, sender>>

\* Mutant: closecallback leaves the channel on the tree.
DispatchCloseKeepsChannel(l, c) ==
    /\ Handles(l, c)
    /\ Held(c) /\ Wired(c) /\ c \in fin
    /\ inq' = [inq EXCEPT ![c] = 0]
    /\ disconnect' = disconnect \cup {c}
    /\ io' = [io EXCEPT ![l] = At("closeApp", c, 0, {})]
    /\ UNCHANGED <<main, fdOf, tree, inepoll, mapVars, appRefs, fin, edge, idle,
                   eventfd, timer, tasks, sender>>

\* onmessage meets the end of the stream: what it read is not picked, and
\* Connection::closecallback takes the channel off the tree.
DispatchClose(l, c) ==
    /\ Handles(l, c)
    /\ Held(c) /\ Wired(c) /\ c \in fin
    /\ inq' = [inq EXCEPT ![c] = 0]
    /\ disconnect' = disconnect \cup {c}
    /\ tree' = tree \ {c}
    /\ edge' = edge \ {c}
    /\ io' = [io EXCEPT ![l] = At("closeApp", c, 0, {})]
    /\ UNCHANGED <<main, fdOf, inepoll, mapVars, appRefs, fin, idle,
                   eventfd, timer, tasks, sender>>

\* One turn of the pickmessage loop: lastatime_, then the application's
\* onmessagecallback_(shared_from_this()).
Deliver(l) ==
    /\ Up
    /\ io[l].at = "deliver" /\ Held(io[l].conn)
    /\ idle' = idle \ {io[l].conn}
    /\ appRefs' \in {appRefs, appRefs \cup {io[l].conn}}
    /\ io' = [io EXCEPT ![l] = IF io[l].left = 1 THEN Looping
                               ELSE [io[l] EXCEPT !.left = @ - 1]]
    /\ UNCHANGED <<main, connVars, mapVars, inq, fin, edge, eventfd, timer,
                   tasks, batch, sender>>

\* The Connection was destroyed under onmessage.
DeliverDead(l) ==
    /\ io[l].at = "deliver" /\ ~Held(io[l].conn)
    /\ Die("ub")

\* TcpServer::closeconnection calls the application, then erases by fd.
CloseApp(l) ==
    /\ Up
    /\ io[l].at = "closeApp"
    /\ appRefs' \in SUBSET appRefs
    /\ io' = [io EXCEPT ![l].at = "closeServer"]
    /\ UNCHANGED <<main, connVars, mapVars, kernelVars, tasks, batch, sender>>

CloseServer(l) ==
    /\ Up
    /\ io[l].at = "closeServer"
    /\ serverConns' = [serverConns EXCEPT ![fdOf[io[l].conn]] = NoConn]
    /\ io' = [io EXCEPT ![l] = Looping]
    /\ UNCHANGED <<main, connVars, loopConns, appRefs, kernelVars, tasks,
                   batch, sender>>

\* EventLoop::handlewakeup empties the eventfd, ...
WakeRead(l) ==
    /\ Handles(l, "wake")
    /\ eventfd' = eventfd \ {l}
    /\ io' = [io EXCEPT ![l] = At("woken", NoConn, 0, {})]
    /\ UNCHANGED <<main, connVars, mapVars, appRefs, inq, fin, edge, idle,
                   timer, tasks, sender>>

\* ... takes mutex_ and holds it ...
DrainStart(l) ==
    /\ Up
    /\ io[l].at = "woken"
    /\ io' = [io EXCEPT ![l].at = "drain"]
    /\ UNCHANGED <<main, connVars, mapVars, appRefs, kernelVars, tasks,
                   batch, sender>>

\* Mutant: one task per wake-up, "if" for "while".
WakeTaskOnce(l) ==
    /\ Up
    /\ io[l].at = "drain" /\ tasks[l] # <<>>
    /\ Watched(Head(tasks[l]).conn)
    /\ tasks' = [tasks EXCEPT ![l] = Tail(@)]
    /\ io' = [io EXCEPT ![l] = Looping]
    /\ UNCHANGED <<main, connVars, mapVars, appRefs, kernelVars, batch, sender>>

\* ... while it runs the tasks: Connection::sendinloop changes the events of a
\* channel still on the tree, which reports again what is readable.
WakeTask(l) ==
    /\ Up
    /\ io[l].at = "drain" /\ tasks[l] # <<>>
    /\ Watched(Head(tasks[l]).conn)
    /\ tasks' = [tasks EXCEPT ![l] = Tail(@)]
    /\ edge' = edge \cup {c \in {Head(tasks[l]).conn} : Readable(c)}
    /\ UNCHANGED <<main, connVars, mapVars, appRefs, inq, fin, idle,
                   eventfd, timer, batch, io, sender>>

\* sendinloop on a destroyed object; EPOLL_CTL_MOD of a channel that was
\* deleted from the tree, where Epoll exits; ::send without MSG_NOSIGNAL to a
\* peer that reset the stream.
WakeTaskFails(l) ==
    /\ io[l].at = "drain" /\ tasks[l] # <<>>
    /\ LET c == Head(tasks[l]).conn
       IN  \/ ~Held(c) /\ Die("ub")
           \/ Held(c) /\ c \in inepoll \ tree /\ Die("exited")
           \/ Watched(c) /\ c \in fin /\ Die("killed")

DrainEnd(l) ==
    /\ Up
    /\ io[l].at = "drain" /\ tasks[l] = <<>>
    /\ io' = [io EXCEPT ![l] = Looping]
    /\ UNCHANGED <<main, connVars, mapVars, appRefs, kernelVars, tasks,
                   batch, sender>>

\* EventLoop::handletimer re-arms timerfd_ and walks conns_, ...
HandleTimer(l) ==
    /\ Handles(l, "timer")
    /\ timer' = timer \ {l}
    /\ io' = [io EXCEPT ![l] = At("timer", NoConn, 0,
                 {f \in Fds : f % threadnum = l /\ loopConns[f] # NoConn})]
    /\ UNCHANGED <<main, connVars, mapVars, appRefs, inq, fin, edge, idle,
                   eventfd, tasks, sender>>

\* Mutant: handletimer forgets timercallback_.
TimerVisitForgetsServer(l, f) ==
    /\ Up
    /\ io[l].at = "timer" /\ f \in io[l].sweep
    /\ io' = [io EXCEPT ![l] =
                 IF loopConns[f] \in idle
                 THEN At("erase", loopConns[f], 0, io[l].sweep \ {f})
                 ELSE At("timer", NoConn, 0, io[l].sweep \ {f})]
    /\ UNCHANGED <<main, connVars, mapVars, appRefs, kernelVars, tasks, batch,
                   sender>>

\* ... asking each connection for its timeout: one that is idle is erased from
\* TcpServer::conns_ by its descriptor (removeconn), under the server's mutex, ...
TimerVisit(l, f) ==
    /\ Up
    /\ io[l].at = "timer" /\ f \in io[l].sweep
    /\ IF loopConns[f] \in idle
       THEN /\ serverConns' = [serverConns EXCEPT ![f] = NoConn]
            /\ io' = [io EXCEPT ![l] = At("erase", loopConns[f], 0, io[l].sweep \ {f})]
       ELSE /\ UNCHANGED serverConns
            /\ io' = [io EXCEPT ![l] = At("timer", NoConn, 0, io[l].sweep \ {f})]
    /\ UNCHANGED <<main, connVars, loopConns, appRefs, kernelVars, tasks, batch,
                   sender>>

\* ... and then from conns_, under the loop's.
TimerErase(l) ==
    /\ Up
    /\ io[l].at = "erase"
    /\ loopConns' = [loopConns EXCEPT ![fdOf[io[l].conn]] = NoConn]
    /\ io' = [io EXCEPT ![l] = At("timer", NoConn, 0, io[l].sweep)]
    /\ UNCHANGED <<main, connVars, serverConns, appRefs, kernelVars, tasks, batch,
                   sender>>

TimerEnd(l) ==
    /\ Up
    /\ io[l].at = "timer" /\ io[l].sweep = {}
    /\ io' = [io EXCEPT ![l] = Looping]
    /\ UNCHANGED <<main, connVars, mapVars, appRefs, kernelVars, tasks,
                   batch, sender>>

-----------------------------------------------------------------------------
\* The specification

PeerStep == \E c \in Conns : PeerSend(c) \/ PeerClose(c)
ClockStep == \/ \E c \in Conns : GoIdle(c)
             \/ \E l \in Loops : TimerFires(l)
MainFinish == Wire \/ InsertServer \/ InsertLoop \/ InsertLoopRace \/ NewConnCb
MainStep == \/ \E c \in Conns, f \in Fds : Accept(c, f)
            \/ AcceptFail
            \/ MainFinish
SenderStep(t) == \/ \E c \in Conns : AppSend(t, c)
                 \/ \E m \in Payloads : AppPush(t, m)
                 \/ AppWake(t)
IoStep(l) ==
    \/ EpollWait(l)
    \/ \E c \in Conns : \/ DispatchDead(l, c) \/ DispatchUnwired(l, c)
                        \/ DispatchRead(l, c) \/ DispatchClose(l, c)
    \/ Deliver(l) \/ DeliverDead(l) \/ CloseApp(l) \/ CloseServer(l)
    \/ WakeRead(l) \/ DrainStart(l) \/ WakeTask(l) \/ WakeTaskFails(l) \/ DrainEnd(l)
    \/ HandleTimer(l) \/ (\E f \in Fds : TimerVisit(l, f)) \/ TimerErase(l)
    \/ TimerEnd(l)

\* Once the process has ended it stays ended.
Halted == proc # "up" /\ UNCHANGED vars

Next ==
    \/ PeerStep \/ ClockStep \/ MainStep \/ AppDrop
    \/ \E t \in Senders : SenderStep(t)
    \/ \E l \in Loops : IoStep(l)
    \/ Halted

Spec == Init /\ [][Next]_vars

-----------------------------------------------------------------------------
\* Safety

\* No lost wake-up (EventLoop::queueinloop and handlewakeup): whenever tasks
\* wait on a loop, its eventfd is readable, a producer is about to write it,
\* or the loop is between reading it and the end of the drain.
WakePending ==
    \A l \in Loops : tasks[l] # <<>> =>
        \/ l \in eventfd
        \/ io[l].at \in {"woken", "drain"}
        \/ \E t \in Senders : sender[t].at = "wake" /\ LoopOf(sender[t].conn) = l

\* The two maps keyed by descriptor (TcpServer::conns_, EventLoop::conns_) and
\* every other holder agree on which connection owns a descriptor, although
\* descriptors are reused and the maps are erased at different times.
FdExclusive ==
    /\ \A f \in Fds : \A c \in {serverConns[f], loopConns[f]} \ {NoConn} : fdOf[c] = f
    /\ \A c, d \in Conns : Held(c) /\ Held(d) /\ fdOf[c] = fdOf[d] => c = d

\* The idle timer has taken the connection out of the server's map only.
HalfErased(c) == \E l \in Loops : io[l].at = "erase" /\ io[l].conn = c
AgreeOn(c, f) ==
    loopConns[f] = c <=> serverConns[f] = c \/ (HalfErased(c) /\ fdOf[c] = f)

\* While a connection is open and its set-up is over, the two maps agree on
\* it: both hold it, the idle timer took it out of both, or it is between its
\* two erasures, and then only the loop's map has it.
MapsAgree ==
    \A c \in Conns \ (disconnect \cup {main.conn}), f \in Fds : AgreeOn(c, f)

\* Erasing or overwriting by descriptor (closeconnection, removeconn,
\* handletimer, newconnection) never evicts a connection that is in use: the
\* one that leaves a map has been closed or has been idle.
EvictsOnlyFinished ==
    [][\A f \in Fds, table \in {"server", "loop"} :
         LET old == IF table = "server" THEN serverConns[f] ELSE loopConns[f]
             new == IF table = "server" THEN serverConns'[f] ELSE loopConns'[f]
         IN  old \notin {NoConn, new} => old \in disconnect \cup idle]_vars

\* The application sees of one connection any number of messages, then at most
\* one close and nothing after it (Connection::closecallback and onmessage).
CallbackOrder ==
    [][\A l \in Loops :
         /\ io'[l].at = "deliver" => io'[l].conn \notin disconnect'
         /\ io'[l].at = "closeApp" /\ io[l].at # "closeApp" =>
                io'[l].conn \notin disconnect]_vars

-----------------------------------------------------------------------------
\* The inductive invariant behind the safety properties

\* A thread has a connection in hand exactly when its step is about one.
HandsInv ==
    /\ main.at = "wait" <=> main.conn = NoConn
    /\ \A t \in Senders : sender[t].at = "idle" <=> sender[t].conn = NoConn
    /\ \A l \in Loops :
         /\ io[l].at \in {"deliver", "closeApp", "closeServer", "erase"}
                <=> io[l].conn # NoConn
         /\ io[l].at = "deliver" => io[l].left > 0

\* What exists, is watched or was closed has a descriptor.
FdInv ==
    \A c \in Conns : Held(c) \/ c \in tree \cup disconnect => fdOf[c] # NoFd

\* A loop handles only its own connections; those it may still read are on
\* its tree, and none of them is closed.
OwnerInv ==
    /\ tree \cap disconnect = {}
    /\ \A l \in Loops, c \in Conns :
         /\ c \in batch[l] => c \in tree /\ LoopOf(c) = l
         /\ io[l].conn = c => fdOf[c] # NoFd /\ LoopOf(c) = l
         /\ io[l].conn = c /\ io[l].at = "deliver" => c \in tree
         /\ io[l].conn = c /\ io[l].at \notin {"deliver", "erase"} => c \in disconnect

\* The idle timer walks its own loop's descriptors; what it is erasing is idle
\* and still in the loop's map, which keeps the object and its descriptor.
SweepInv ==
    \A l \in Loops :
        /\ \A f \in io[l].sweep : f % threadnum = l
        /\ io[l].at = "erase" =>
               io[l].conn \in idle /\ loopConns[fdOf[io[l].conn]] = io[l].conn

IInv == /\ TypeOK /\ HandsInv /\ FdInv /\ OwnerInv /\ FdExclusive /\ SweepInv
        /\ WakePending

\* The connection being set up is in the server's map before it is in the
\* loop's, and nobody takes it out of one alone while it is open, but for the
\* timer between its two erasures, which leaves nothing in the server's map.
SetUpInv ==
    /\ main.at \in {"ctor", "wired"} => \A f \in Fds : serverConns[f] # main.conn
    /\ main.at \in {"ctor", "wired", "inServer"} =>
           \A f \in Fds : loopConns[f] # main.conn
    /\ main.at = "inServer" /\ main.conn \notin disconnect =>
           serverConns[fdOf[main.conn]] = main.conn
    /\ main.at = "inLoop" /\ main.conn \notin disconnect =>
           \A f \in Fds : AgreeOn(main.conn, f)
    /\ \A c \in Conns : HalfErased(c) => serverConns[fdOf[c]] # c

-----------------------------------------------------------------------------
\* Liveness

\* Threads that are runnable run; the timer of a loop fires again and again;
\* a closed connection gets no more messages and so becomes idle.
Fairness ==
    /\ \A l \in Loops : WF_vars(IoStep(l))
    /\ \A l \in Loops : WF_vars(TimerFires(l))
    /\ \A t \in Senders : WF_vars(AppWake(t))
    /\ WF_vars(MainFinish)
    /\ \A c \in Conns : WF_vars(c \in disconnect /\ GoIdle(c))

FairSpec == Spec /\ Fairness

\* queueinloop, wakeup and handlewakeup implement a fair FIFO mailbox per loop:
\* every task queued on a loop is run, once and in order, while the process is
\* up, however producers, the eventfd and the drain interleave.
Mail == INSTANCE Mailbox WITH Boxes <- Loops, Items <- Tasks, mail <- tasks,
                              up <- proc = "up"
ImplementsMailbox == Mail!Spec

\* A closed connection leaves both maps for good, whichever of the IO thread
\* (closeconnection) and the main thread (newconnection) comes last: the idle
\* timer removes what close left behind.
ClosedReaped ==
    \A c \in Conns :
      (c \in disconnect) ~>
        [](proc # "up" \/ \A f \in Fds : c \notin {serverConns[f], loopConns[f]})

-----------------------------------------------------------------------------
\* What comments in the code say, and the code does not do

\* Connection.cpp:104, "the client has disconnected, send() returns": sending to
\* a connection that closes meanwhile does not stop the server.
SendSurvivesClose == proc # "exited"
==============================================================================
