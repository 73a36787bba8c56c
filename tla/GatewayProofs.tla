----------------------------- MODULE GatewayProofs -----------------------------
(***************************************************************************)
(* The safety of the gateway, for any number of client connections,        *)
(* requests and workers.                                                   *)
(*                                                                         *)
(* AnsweredByOne is not inductive: it needs that each request is in one    *)
(* place (OncePerRequest), that its answers and the stage of its TcpClient *)
(* go together (StageInv) and that each chunk of a reply is in one place   *)
(* (ChunksInv); ClientsBounded and ReplacedFallsSilent need that           *)
(* upstream_clients_ holds what no worker holds (TableInv).                *)
(***************************************************************************)
EXTENDS Gateway, FiniteSetTheorems, TLAPS

\* A request is of one connection and one of its first MaxReq.
LEMMA RequestType ==
  ASSUME NEW r \in Requests
  PROVE  /\ Of(r) \in Conns /\ r[2] \in 1 .. MaxReq /\ r = <<Of(r), r[2]>>
         /\ r # None
  BY NoneAssumption DEF Requests, Of

\* What a worker or the IO thread has in hand.
LEMMA InHand ==
  ASSUME TypeOK, HandsInv
  PROVE  /\ \A w \in Workers : worker[w].at # "rest" =>
              worker[w].req \in Requests /\ HeldByWorker(worker[w].req)
         /\ io.at \in {"write", "fail", "read", "send"} =>
              io.on \in Requests /\ io # Looping
         /\ io.at \in {"pick", "erase"} => io.on \in Conns /\ io # Looping
  BY DEF TypeOK, HandsInv, HeldByWorker, Looping, IoAt

-----------------------------------------------------------------------------
\* Types

LEMMA InitIInv == Init => IInv
<1> SUFFICES ASSUME Init PROVE IInv
  OBVIOUS
<1> USE DEF Init, Resting, WorkerAt, Looping, IoAt
<1>1. TypeOK
  BY MaxReqAssumption, MaxChunksAssumption DEF TypeOK, Stages, WorkerSteps, IoSteps
<1>2. HandsInv
  BY DEF HandsInv
<1>3. \A r \in Requests : ~Queued(r) /\ ~HeldByWorker(r) /\ ~Picked(r)
  BY RequestType DEF Queued, HeldByWorker, Picked
<1>4. OncePerRequest
  BY <1>3 DEF OncePerRequest
<1>5. StageInv /\ ChunksInv
  BY <1>3 DEF StageInv, RequestStage, WorkerStage, IoStage, ChunksInv, Reading
<1>6. TableInv
  BY DEF TableInv, Alive
<1> QED
  BY <1>1, <1>2, <1>4, <1>5, <1>6 DEF IInv

\* No more chunks are unread than the backend has sent.
LEMMA ChunksBound ==
  ASSUME TypeOK, HandsInv, ChunksInv, NEW r \in Requests
  PROVE  /\ passed[r] \in Nat /\ Reading(r) \in Nat /\ inbox[r] \in Nat /\ replied[r] \in Nat
         /\ inbox[r] <= replied[r] /\ passed[r] <= replied[r]
<1>1. passed[r] \in Nat /\ inbox[r] \in Nat /\ replied[r] \in Nat /\ io.left \in Nat
  BY MaxChunksAssumption DEF TypeOK
<1>2. Reading(r) \in Nat
  BY <1>1 DEF Reading
<1>3. passed[r] + Reading(r) + inbox[r] <= replied[r]
  BY DEF ChunksInv
<1> QED
  BY <1>1, <1>2, <1>3

\* A worker that goes on with its request keeps the type of worker.
LEMMA WorkerType ==
  ASSUME TypeOK, NEW w \in Workers, NEW s \in WorkerSteps,
         worker' = [worker EXCEPT ![w].at = s]
  PROVE  /\ worker' \in [Workers -> [at : WorkerSteps, req : Requests \cup {None}]]
         /\ worker'[w].at = s /\ worker'[w].req = worker[w].req
         /\ \A v \in Workers \ {w} : worker'[v] = worker[v]
<1>1. worker \in [Workers -> [at : WorkerSteps, req : Requests \cup {None}]]
  BY DEF TypeOK
<1> QED
  BY <1>1

LEMMA TypeStep ==
  ASSUME TypeOK, HandsInv, ChunksInv, [Next]_vars
  PROVE  TypeOK'
<1> USE MaxReqAssumption, MaxChunksAssumption
    DEF TypeOK, Up, WorkerAt, Resting, Looping, IoAt, Stages, WorkerSteps, IoSteps,
        peerVars, netVars, answers
<1>1. ASSUME NEW d \in Conns, PeerAsks(d) \/ PeerCloses(d) PROVE TypeOK'
  <2>1. CASE PeerAsks(d)
    <3>1. asked' \in [Conns -> 0 .. MaxReq] /\ \A e \in Conns : picked[e] <= asked'[e]
      BY <2>1 DEF PeerAsks
    <3>2. ready' \subseteq Conns \cup Requests
      BY <2>1 DEF PeerAsks
    <3> QED
      BY <2>1, <3>1, <3>2 DEF PeerAsks
  <2>2. CASE PeerCloses(d)
    BY <2>2 DEF PeerCloses
  <2> QED
    BY <1>1, <2>1, <2>2
<1>2. ASSUME NEW r \in Requests, BackendStep(r) PROVE TypeOK'
  <2>1. ready' \subseteq Conns \cup Requests
    BY <1>2 DEF BackendStep, ConnectSettles, BackendReplies, BackendCloses
  <2>2. inbox' \in [Requests -> 0 .. MaxChunks] /\ replied' \in [Requests -> 0 .. MaxChunks]
    <3>1. CASE BackendReplies(r)
      <4>1. /\ replied[r] \in 0 .. MaxChunks /\ replied[r] < MaxChunks
            /\ inbox[r] \in 0 .. MaxChunks /\ inbox[r] <= replied[r]
        BY <3>1, ChunksBound DEF BackendReplies
      <4>2. replied[r] + 1 \in 0 .. MaxChunks /\ inbox[r] + 1 \in 0 .. MaxChunks
        BY <4>1
      <4> QED
        BY <3>1, <4>2 DEF BackendReplies
    <3>2. CASE ConnectSettles(r) \/ BackendCloses(r)
      BY <3>2 DEF ConnectSettles, BackendCloses
    <3> QED
      BY <1>2, <3>1, <3>2 DEF BackendStep
  <2> QED
    BY <1>2, <2>1, <2>2 DEF BackendStep, ConnectSettles, BackendReplies, BackendCloses
<1>3. ASSUME NEW w \in Workers, WorkerStep(w) PROVE TypeOK'
  <2> DEFINE r == worker[w].req
  <2>1. CASE TakeJob(w)
    <3>1. Head(jobs) \in Requests /\ Tail(jobs) \in Seq(Requests)
      BY <2>1 DEF TakeJob
    <3> QED
      BY <2>1, <3>1 DEF TakeJob
  <2>2. ASSUME worker[w].at # "rest" PROVE r \in Requests /\ Of(r) \in Conns
    BY <2>2, InHand, RequestType
  <2>3. CASE Reject(w)
    <3>1. own' \in [Requests -> Nat] /\ passed' \in [Requests -> Nat]
      BY <2>2, <2>3 DEF Reject, Answer, Sent
    <3> QED
      BY <2>3, <3>1 DEF Reject
  <2>4. CASE Insert(w)
    <3>1. /\ table' \in [Conns -> Requests \cup {None}]
          /\ client' \in [Requests -> Stages]
          /\ ready' \subseteq Conns \cup Requests
      BY <2>2, <2>4 DEF Insert
    <3>2. worker' \in [Workers -> [at : WorkerSteps, req : Requests \cup {None}]]
      BY <2>4, WorkerType DEF Insert
    <3> QED
      BY <2>4, <3>1, <3>2 DEF Insert
  <2>5. CASE Connect(w)
    <3>1. PICK how \in {<<"armed", "register">>, <<"settling", "settle">>,
                       <<"refused", "leave">>} :
            /\ client' = [client EXCEPT ![r] = how[1]]
            /\ worker' = [worker EXCEPT ![w].at = how[2]]
      BY <2>5 DEF Connect
    <3>2. /\ how[1] \in {"armed", "settling", "refused"}
          /\ how[2] \in {"register", "settle", "leave"}
      OBVIOUS
    <3>3. client' \in [Requests -> Stages]
      BY <3>1, <3>2
    <3>4. worker' \in [Workers -> [at : WorkerSteps, req : Requests \cup {None}]]
      BY <3>1, <3>2, WorkerType
    <3> QED
      BY <2>5, <3>3, <3>4 DEF Connect
  <2>7. CASE FailAtOnce(w) \/ LinkAtOnce(w) \/ Registered(w)
    <3>1. client' \in [Requests -> Stages]
      BY <2>7 DEF FailAtOnce, LinkAtOnce, Registered
    <3>2. own' \in [Requests -> Nat] /\ passed' \in [Requests -> Nat]
      <4>1. worker[w].at # "rest"
        BY <2>7 DEF FailAtOnce, LinkAtOnce, Registered
      <4>2. CASE FailAtOnce(w)
        BY <2>2, <4>1, <4>2 DEF FailAtOnce, Answer, Sent
      <4> QED
        BY <2>7, <4>2 DEF LinkAtOnce, Registered
    <3>3. worker' \in [Workers -> [at : WorkerSteps, req : Requests \cup {None}]]
      BY <2>7, WorkerType DEF FailAtOnce, LinkAtOnce, Registered
    <3> QED
      BY <2>7, <3>1, <3>2, <3>3 DEF FailAtOnce, LinkAtOnce, Registered
  <2>6. CASE Leave(w)
    <3>1. client' \in [Requests -> Stages] /\ ready' \subseteq Conns \cup Requests
      BY <2>2, <2>6 DEF Leave
    <3> QED
      BY <2>6, <3>1 DEF Leave
  <2> QED
    BY <1>3, <2>1, <2>3, <2>4, <2>5, <2>6, <2>7 DEF WorkerStep
<1>0. Looping \in [at : IoSteps, on : Conns \cup Requests \cup {None}, left : Nat]
  OBVIOUS
<1>4. CASE EpollWait \/ PickEnd \/ HandleClose
  <2>1. CASE HandleClose
    <3>1. io.on \in Conns
      BY <2>1, InHand DEF HandleClose
    <3>2. /\ down' \in [Conns -> {"open", "closing", "closed"}]
          /\ table' \in [Conns -> Requests \cup {None}]
          /\ client' \in [Requests -> Stages]
          /\ ready' \subseteq Conns \cup Requests
      BY <2>1, <3>1 DEF HandleClose
    <3> QED
      BY <1>0, <2>1, <3>2 DEF HandleClose
  <2>2. CASE EpollWait
    BY <2>2 DEF EpollWait
  <2>3. CASE PickEnd
    <3> HIDE DEF Looping
    <3> QED
      BY <1>0, <2>3 DEF PickEnd
  <2> QED
    BY <1>4, <2>1, <2>2, <2>3
<1>5. ASSUME NEW d \in Conns, ReadClient(d) \/ ClientClosed(d) PROVE TypeOK'
  <2>1. io' \in [at : IoSteps, on : Conns \cup Requests \cup {None}, left : Nat]
    <3>1. CASE ReadClient(d)
      <4>1. asked[d] - picked[d] \in Nat
        <5>1. asked[d] \in Nat /\ picked[d] \in Nat /\ picked[d] <= asked[d]
          OBVIOUS
        <5> QED
          BY <5>1
      <4> QED
        BY <3>1, <4>1 DEF ReadClient
    <3> QED
      BY <1>5, <3>1 DEF ClientClosed
  <2>2. /\ down' \in [Conns -> {"open", "closing", "closed"}]
        /\ ready' \subseteq Conns \cup Requests /\ batch' \subseteq Conns \cup Requests
    BY <1>5 DEF ReadClient, ClientClosed, Handles
  <2> QED
    BY <1>5, <2>1, <2>2 DEF ReadClient, ClientClosed, Handles
<1>6. CASE HandleMessage
  <2> DEFINE d == io.on
  <2>1. /\ d \in Conns /\ picked[d] \in 0 .. MaxReq /\ picked[d] < asked[d]
        /\ asked[d] \in 0 .. MaxReq /\ io.left \in Nat /\ io.left > 0
    BY <1>6, InHand DEF HandleMessage, HandsInv
  <2>2. <<d, picked[d] + 1>> \in Requests /\ picked[d] + 1 \in 0 .. MaxReq
    BY <2>1 DEF Requests
  <2>3. jobs' \in Seq(Requests)
    BY <1>6, <2>2 DEF HandleMessage
  <2>4. io' \in [at : IoSteps, on : Conns \cup Requests \cup {None}, left : Nat]
    BY <1>6, <2>1 DEF HandleMessage
  <2>5. /\ picked' \in [Conns -> 0 .. MaxReq]
        /\ \A e \in Conns : picked'[e] <= asked[e]
    <3>1. /\ picked' = [picked EXCEPT ![d] = @ + 1] /\ picked[d] + 1 <= asked[d]
          /\ picked \in [Conns -> 0 .. MaxReq]
      BY <1>6, <2>1 DEF HandleMessage
    <3> QED
      BY <2>2, <3>1
  <2> HIDE DEF d, Looping
  <2> QED
    BY <1>6, <2>3, <2>4, <2>5 DEF HandleMessage
<1>7. ASSUME NEW r \in Requests, ConnectEvent(r) \/ ReadBackend(r) \/ BackendClosed(r)
      PROVE  TypeOK'
  <2>1. /\ client' \in [Requests -> Stages]
        /\ ready' \subseteq Conns \cup Requests /\ batch' \subseteq Conns \cup Requests
    BY <1>7 DEF ConnectEvent, ReadBackend, BackendClosed, Handles
  <2>0. inbox' \in [Requests -> 0 .. MaxChunks] /\ inbox[r] \in Nat
    <3>1. inbox' = inbox \/ inbox' = [inbox EXCEPT ![r] = 0]
      BY <1>7 DEF ConnectEvent, ReadBackend, BackendClosed
    <3>2. 0 \in 0 .. MaxChunks /\ 0 .. MaxChunks \subseteq Nat
      OBVIOUS
    <3>3. inbox \in [Requests -> 0 .. MaxChunks]
      OBVIOUS
    <3> HIDE DEF TypeOK, Stages, WorkerSteps, IoSteps
    <3>4. inbox[r] \in Nat
      BY <3>2, <3>3
    <3>5. inbox' \in [Requests -> 0 .. MaxChunks]
      BY <3>1, <3>2, <3>3
    <3> QED
      BY <3>4, <3>5
  <2>2. io' \in [at : IoSteps, on : Conns \cup Requests \cup {None}, left : Nat]
    BY <1>7, <2>0 DEF ConnectEvent, ReadBackend, BackendClosed, Handles
  <2> QED
    BY <1>7, <2>0, <2>1, <2>2 DEF ConnectEvent, ReadBackend, BackendClosed, Handles
<1>8. CASE \/ ConnectFails \/ OnUpstreamError \/ ConnectWorks \/ OnUpstreamConnected
           \/ PickChunk \/ OnUpstreamMessage
  <2>1. io.on \in Requests
    BY <1>8, InHand DEF ConnectFails, OnUpstreamError, ConnectWorks, OnUpstreamConnected,
                        PickChunk, OnUpstreamMessage
  <2>2. client' \in [Requests -> Stages]
    BY <1>8, <2>1 DEF ConnectFails, OnUpstreamError, ConnectWorks, OnUpstreamConnected,
                      PickChunk, OnUpstreamMessage
  <2>3. own' \in [Requests -> Nat] /\ passed' \in [Requests -> Nat]
    <3>1. CASE OnUpstreamError
      BY <2>1, <3>1 DEF OnUpstreamError, Answer, Sent
    <3>2. CASE OnUpstreamMessage
      BY <2>1, <3>2 DEF OnUpstreamMessage, Sent
    <3> QED
      BY <1>8, <3>1, <3>2 DEF ConnectFails, ConnectWorks, OnUpstreamConnected, PickChunk
  <2>4. io.at = "send" => io.left - 1 \in Nat
    BY DEF HandsInv
  <2>5. io' \in [at : IoSteps, on : Conns \cup Requests \cup {None}, left : Nat]
    BY <1>0, <1>8, <2>1, <2>4 DEF ConnectFails, OnUpstreamError, ConnectWorks,
       OnUpstreamConnected, PickChunk, OnUpstreamMessage
  <2> HIDE DEF Looping
  <2> QED
    BY <1>8, <2>2, <2>3, <2>5 DEF ConnectFails, OnUpstreamError, ConnectWorks,
       OnUpstreamConnected, PickChunk, OnUpstreamMessage
<1>9. CASE TouchesDestroyed \/ EventTooEarly
  BY <1>9 DEF TouchesDestroyed, EventTooEarly, Die
<1>10. CASE Halted \/ AllServed \/ UNCHANGED vars
  BY <1>10 DEF Halted, AllServed, vars
<1> QED
  BY <1>1, <1>2, <1>3, <1>4, <1>5, <1>6, <1>7, <1>8, <1>9, <1>10
     DEF Next, PeerStep, IoStep

-----------------------------------------------------------------------------
\* Who moves what

LEMMA WorkerFrame ==
  ASSUME [Next]_vars
  PROVE  \/ UNCHANGED <<worker, jobs, picked, table>>
         \/ HandleMessage
         \/ HandleClose /\ UNCHANGED <<worker, jobs, picked>>
         \/ \E w \in Workers : WorkerStep(w)
<1>1. CASE IoStep
  BY <1>1 DEF IoStep, EpollWait, ReadClient, ClientClosed, PickEnd, HandleClose, ConnectEvent,
              ReadBackend, BackendClosed, ConnectFails, OnUpstreamError, ConnectWorks,
              OnUpstreamConnected, PickChunk, OnUpstreamMessage, TouchesDestroyed,
              EventTooEarly, Die, peerVars
<1>2. CASE PeerStep
  BY <1>2 DEF PeerStep, PeerAsks, PeerCloses
<1>3. CASE \E r \in Requests : BackendStep(r)
  BY <1>3 DEF BackendStep, ConnectSettles, BackendReplies, BackendCloses
<1> QED
  BY <1>1, <1>2, <1>3 DEF Next, Halted, AllServed, vars

LEMMA IoFrame ==
  ASSUME [Next]_vars
  PROVE  IoStep \/ UNCHANGED <<io, picked, batch>>
<1>1. ASSUME NEW w \in Workers, WorkerStep(w) PROVE UNCHANGED <<io, picked, batch>>
  BY <1>1 DEF WorkerStep, TakeJob, Reject, Insert, Connect, FailAtOnce, LinkAtOnce,
              Registered, Leave
<1>2. CASE PeerStep
  BY <1>2 DEF PeerStep, PeerAsks, PeerCloses
<1>3. CASE \E r \in Requests : BackendStep(r)
  BY <1>3 DEF BackendStep, ConnectSettles, BackendReplies, BackendCloses
<1> QED
  BY <1>1, <1>2, <1>3 DEF Next, Halted, AllServed, vars

\* A peer only ever asks for more.
LEMMA AskedGrows ==
  ASSUME TypeOK, [Next]_vars, NEW d \in Conns
  PROVE  asked'[d] >= asked[d]
<1>1. asked[d] \in Int
  BY MaxReqAssumption DEF TypeOK
<1>2. CASE asked' = asked
  BY <1>1, <1>2
<1>3. ASSUME NEW e \in Conns, PeerAsks(e) PROVE asked'[d] >= asked[d]
  BY <1>1, <1>3, MaxReqAssumption DEF PeerAsks, TypeOK
<1>4. CASE IoStep
  BY <1>2, <1>4 DEF IoStep, EpollWait, ReadClient, ClientClosed, HandleMessage, PickEnd, HandleClose,
              ConnectEvent, ReadBackend, BackendClosed, ConnectFails, OnUpstreamError, ConnectWorks,
              OnUpstreamConnected, PickChunk, OnUpstreamMessage, TouchesDestroyed,
              EventTooEarly, Die, peerVars
<1>5. ASSUME NEW w \in Workers, WorkerStep(w) PROVE asked' = asked
  BY <1>5 DEF WorkerStep, TakeJob, Reject, Insert, Connect, FailAtOnce, LinkAtOnce,
              Registered, Leave, peerVars
<1>6. CASE \E r \in Requests : BackendStep(r)
  BY <1>2, <1>6 DEF BackendStep, ConnectSettles, BackendReplies, BackendCloses, peerVars
<1> QED
  BY <1>2, <1>3, <1>4, <1>5, <1>6 DEF Next, PeerStep, PeerCloses, Halted, AllServed, vars

\* A worker's step changes its own place alone.
LEMMA WorkerPlace ==
  ASSUME TypeOK, NEW w \in Workers, WorkerStep(w)
  PROVE  /\ \A v \in Workers \ {w} : worker'[v] = worker[v]
         /\ picked' = picked
         /\ \/ /\ TakeJob(w) /\ jobs # <<>> /\ jobs' = Tail(jobs)
               /\ worker[w].at = "rest" /\ worker'[w] = WorkerAt("check", Head(jobs))
            \/ /\ Reject(w) \/ Leave(w)
               /\ jobs' = jobs /\ worker[w].at # "rest" /\ worker'[w] = Resting
            \/ /\ Insert(w) \/ Connect(w) \/ FailAtOnce(w) \/ LinkAtOnce(w) \/ Registered(w)
               /\ jobs' = jobs /\ worker[w].at # "rest"
               /\ worker'[w].at \in {"connect", "settle", "register", "leave"}
               /\ worker'[w].req = worker[w].req
<1> USE DEF TypeOK
<1>1. CASE TakeJob(w)
  BY <1>1 DEF TakeJob
<1>2. CASE Reject(w)
  BY <1>2 DEF Reject
<1>3. CASE Leave(w)
  BY <1>3 DEF Leave
<1>4. CASE Insert(w)
  BY <1>4 DEF Insert
<1>5. CASE Connect(w)
  <2>1. \E s \in {"register", "settle", "leave"} : worker' = [worker EXCEPT ![w].at = s]
    <3>1. PICK how \in {<<"armed", "register">>, <<"settling", "settle">>,
                       <<"refused", "leave">>} :
            worker' = [worker EXCEPT ![w].at = how[2]]
      BY <1>5 DEF Connect
    <3>2. how[2] \in {"register", "settle", "leave"}
      OBVIOUS
    <3> QED
      BY <3>1, <3>2
  <2> QED
    BY <1>5, <2>1, WorkerType DEF Connect, WorkerSteps
<1>6. CASE FailAtOnce(w) \/ LinkAtOnce(w) \/ Registered(w)
  <2>1. \E s \in {"register", "leave"} : worker' = [worker EXCEPT ![w].at = s]
    BY <1>6 DEF FailAtOnce, LinkAtOnce, Registered
  <2> QED
    BY <1>6, <2>1, WorkerType DEF FailAtOnce, LinkAtOnce, Registered, WorkerSteps
<1> QED
  BY <1>1, <1>2, <1>3, <1>4, <1>5, <1>6 DEF WorkerStep

-----------------------------------------------------------------------------
\* What each thread has in hand

LEMMA HandsStep ==
  ASSUME TypeOK, HandsInv, ChunksInv, [Next]_vars
  PROVE  HandsInv'
<1>0. TypeOK'
  BY TypeStep
<1>1. ASSUME NEW w \in Workers PROVE worker'[w].at = "rest" <=> worker'[w].req = None
  <2>1. CASE worker'[w] = worker[w]
    BY <2>1 DEF HandsInv
  <2>2. CASE TakeJob(w)
    <3>1. worker'[w] = WorkerAt("check", Head(jobs)) /\ Head(jobs) \in Requests
      BY <2>2 DEF TakeJob, TypeOK
    <3> QED
      BY <3>1, RequestType DEF WorkerAt
  <2>3. CASE worker'[w] = Resting
    BY <2>3 DEF Resting, WorkerAt
  <2>4. CASE /\ worker[w].at # "rest" /\ worker'[w].at \in {"connect", "settle", "register", "leave"}
             /\ worker'[w].req = worker[w].req
    BY <2>4 DEF HandsInv
  <2>5. CASE \E v \in Workers : WorkerStep(v)
    BY <2>1, <2>2, <2>3, <2>4, <2>5, WorkerPlace
  <2> QED
    BY <2>1, <2>5, WorkerFrame DEF HandleMessage
<1> DEFINE Io(i, p, a) == /\ i.at = "loop" <=> i = Looping
                          /\ i.at \in {"pick", "erase"} => i.on \in Conns
                          /\ i.at = "pick" => p[i.on] + i.left <= a[i.on]
                          /\ i.at \in {"write", "fail", "read", "send"} => i.on \in Requests
                          /\ i.at = "send" => i.left > 0
<1>2. Io(io, picked, asked) /\ io.left \in Nat
  BY DEF HandsInv, TypeOK
<1> SUFFICES Io(io', picked', asked')
  BY <1>1 DEF HandsInv
<1>3. CASE UNCHANGED <<io, picked>>
  <2>1. ASSUME io.at = "pick" PROVE picked[io.on] + io.left <= asked'[io.on]
    <3>1. /\ io.on \in Conns /\ picked[io.on] \in Int /\ asked[io.on] \in Int
          /\ asked'[io.on] \in Int
      BY <1>0, <2>1, InHand, MaxReqAssumption DEF TypeOK
    <3>2. asked'[io.on] >= asked[io.on]
      BY <3>1, AskedGrows
    <3> QED
      BY <1>2, <2>1, <3>1, <3>2
  <2> QED
    BY <1>2, <1>3, <2>1
<1>4. CASE io' = Looping
  BY <1>4 DEF Looping, IoAt
<1>5. ASSUME NEW d \in Conns, ReadClient(d) PROVE Io(io', picked', asked')
  <2>1. /\ io' = IoAt("pick", d, asked[d] - picked[d]) /\ picked' = picked /\ asked' = asked
        /\ asked[d] \in Int /\ picked[d] \in Int
    BY <1>5, MaxReqAssumption DEF ReadClient, peerVars, TypeOK
  <2>2. picked[d] + (asked[d] - picked[d]) <= asked[d]
    BY <2>1
  <2> QED
    BY <2>1, <2>2 DEF IoAt, Looping
<1>6. ASSUME NEW d \in Conns, ClientClosed(d) PROVE Io(io', picked', asked')
  BY <1>6 DEF ClientClosed, IoAt, Looping
<1>7. ASSUME NEW r \in Requests, NEW n, io' = IoAt("write", r, n) \/ io' = IoAt("fail", r, n)
                                         \/ io' = IoAt("read", r, n)
      PROVE  Io(io', picked', asked')
  BY <1>7 DEF IoAt, Looping
<1>8. CASE HandleMessage
  <2>1. /\ io' = IoAt("pick", io.on, io.left - 1)
        /\ picked' = [picked EXCEPT ![io.on] = @ + 1] /\ asked' = asked
        /\ io.at = "pick" /\ io.left > 0
    <3>1. io' = IoAt("pick", io.on, io.left - 1)
      BY <1>8 DEF HandleMessage
    <3>2. picked' = [picked EXCEPT ![io.on] = @ + 1]
      BY <1>8 DEF HandleMessage
    <3>3. asked' = asked /\ io.at = "pick" /\ io.left > 0
      BY <1>8 DEF HandleMessage, peerVars
    <3> QED
      BY <3>1, <3>2, <3>3
  <2>2. io.on \in Conns /\ picked[io.on] \in Int /\ asked[io.on] \in Int
    <3>1. io.on \in Conns
      BY <2>1, InHand
    <3>2. picked \in [Conns -> 0 .. MaxReq] /\ asked \in [Conns -> 0 .. MaxReq]
      BY DEF TypeOK
    <3> QED
      BY <3>1, <3>2, MaxReqAssumption
  <2>3. picked'[io.on] = picked[io.on] + 1
    BY <2>1, <2>2 DEF TypeOK
  <2>4. picked'[io.on] + (io.left - 1) <= asked[io.on]
    BY <1>2, <2>1, <2>2, <2>3
  <2> QED
    BY <2>1, <2>2, <2>4 DEF IoAt, Looping
<1>9. CASE IoStep
  <2>1. CASE EpollWait \/ TouchesDestroyed \/ EventTooEarly \/ ConnectWorks
    BY <1>3, <2>1 DEF EpollWait, TouchesDestroyed, EventTooEarly, Die, ConnectWorks
  <2>2. CASE PickEnd \/ HandleClose \/ OnUpstreamError \/ OnUpstreamConnected
    BY <1>4, <2>2 DEF PickEnd, HandleClose, OnUpstreamError, OnUpstreamConnected
  <2>3. ASSUME NEW r \in Requests, ConnectEvent(r) \/ ReadBackend(r) \/ BackendClosed(r)
        PROVE  Io(io', picked', asked')
    BY <1>3, <1>7, <2>3 DEF ConnectEvent, ReadBackend, BackendClosed, Handles
  <2>4. CASE ConnectFails \/ OnUpstreamMessage
    <3>1. io.on \in Requests
      BY <2>4, InHand DEF ConnectFails, OnUpstreamMessage
    <3> QED
      BY <1>7, <2>4, <3>1 DEF ConnectFails, OnUpstreamMessage
  <2>5. CASE PickChunk
    <3>1. io.on \in Requests /\ io.left > 0 /\ io' = IoAt("send", io.on, io.left)
      BY <2>5, InHand DEF PickChunk
    <3> QED
      BY <3>1 DEF IoAt, Looping
  <2> QED
    BY <1>5, <1>6, <1>8, <1>9, <2>1, <2>2, <2>3, <2>4, <2>5 DEF IoStep
<1> QED
  BY <1>3, <1>9, IoFrame

-----------------------------------------------------------------------------
\* A request is in one place

\* HandleMessage queues a request that nobody has seen yet.
LEMMA NextRequest ==
  ASSUME TypeOK, HandsInv, HandleMessage
  PROVE  LET n == <<io.on, picked[io.on] + 1>>
         IN  /\ n \in Requests /\ ~Picked(n)
             /\ jobs' = Append(jobs, n) /\ worker' = worker
             /\ \A r \in Requests : Picked(r)' <=> Picked(r) \/ r = n
<1> DEFINE d == io.on
           n == <<d, picked[d] + 1>>
<1>1. /\ io.at = "pick" /\ io.left > 0 /\ picked' = [picked EXCEPT ![d] = @ + 1]
      /\ jobs' = Append(jobs, n) /\ worker' = worker
  BY DEF HandleMessage
<1>2. /\ d \in Conns /\ picked[d] \in 0 .. MaxReq /\ picked[d] < asked[d]
      /\ asked[d] \in 0 .. MaxReq
  <2>1. /\ d \in Conns /\ picked[d] \in 0 .. MaxReq /\ asked[d] \in 0 .. MaxReq
        /\ io.left \in Nat /\ picked[d] + io.left <= asked[d]
    BY <1>1, InHand DEF HandsInv, TypeOK
  <2> QED
    BY <1>1, <2>1, MaxReqAssumption
<1>3. n \in Requests /\ Of(n) = d /\ n[2] = picked[d] + 1
  BY <1>2, MaxReqAssumption DEF Requests, Of
<1>4. ~Picked(n)
  BY <1>2, <1>3, MaxReqAssumption DEF Picked
<1>5. ASSUME NEW r \in Requests PROVE Picked(r)' <=> Picked(r) \/ r = n
  <2>1. Of(r) \in Conns /\ r[2] \in Int /\ r = <<Of(r), r[2]>>
    BY RequestType, MaxReqAssumption
  <2>2. Picked(r)' <=> r[2] <= picked'[Of(r)]
    BY DEF Picked, Of
  <2>3. CASE Of(r) # d
    BY <1>1, <1>3, <2>1, <2>2, <2>3 DEF Picked, TypeOK
  <2>4. CASE Of(r) = d
    <3>1. picked'[d] = picked[d] + 1
      BY <1>1, <1>2 DEF TypeOK
    <3>2. r = n <=> r[2] = picked[d] + 1
      BY <1>3, <2>1, <2>4
    <3> QED
      BY <1>2, <2>1, <2>2, <2>4, <3>1, <3>2, MaxReqAssumption DEF Picked
  <2> QED
    BY <2>3, <2>4
<1> QED
  BY <1>1, <1>3, <1>4, <1>5

LEMMA OnceStep ==
  ASSUME TypeOK, HandsInv, ChunksInv, OncePerRequest, [Next]_vars
  PROVE  OncePerRequest'
<1>0. /\ TypeOK' /\ HandsInv'
      /\ jobs \in Seq(Requests) /\ DOMAIN jobs = 1 .. Len(jobs) /\ Len(jobs) \in Nat
  <2>1. TypeOK' /\ HandsInv'
    BY TypeStep, HandsStep
  <2>2. jobs \in Seq(Requests)
    BY DEF TypeOK
  <2> QED
    BY <2>1, <2>2
<1>1. CASE UNCHANGED <<jobs, worker, picked>>
  BY <1>1 DEF OncePerRequest, Queued, Picked, HeldByWorker
<1>2. CASE HandleMessage
  <2> DEFINE n == <<io.on, picked[io.on] + 1>>
  <2>1. /\ n \in Requests /\ ~Picked(n) /\ jobs' = Append(jobs, n) /\ worker' = worker
        /\ \A r \in Requests : Picked(r)' <=> Picked(r) \/ r = n
    BY <1>2, NextRequest
  <2> HIDE DEF n
  <2>2. /\ DOMAIN jobs' = 1 .. Len(jobs) + 1 /\ jobs'[Len(jobs) + 1] = n
        /\ \A i \in DOMAIN jobs : jobs'[i] = jobs[i]
    BY <1>0, <2>1
  <2>3. ~Queued(n) /\ ~HeldByWorker(n)
    BY <2>1 DEF OncePerRequest
  <2>4. \A r \in Requests : Queued(r)' <=> Queued(r) \/ r = n
    BY <1>0, <2>2 DEF Queued
  <2>5. \A r \in Requests : HeldByWorker(r)' <=> HeldByWorker(r)
    BY <2>1 DEF HeldByWorker
  <2>6. \A i, j \in DOMAIN jobs' : jobs'[i] = jobs'[j] => i = j
    <3>1. \A i \in DOMAIN jobs : jobs[i] # n
      BY <2>3 DEF Queued
    <3>2. \A i, j \in DOMAIN jobs : jobs[i] = jobs[j] => i = j
      BY DEF OncePerRequest
    <3>3. \A i \in DOMAIN jobs' : i \in DOMAIN jobs \/ i = Len(jobs) + 1
      BY <1>0, <2>2
    <3> QED
      BY <2>2, <3>1, <3>2, <3>3
  <2> QED
    BY <2>1, <2>3, <2>4, <2>5, <2>6 DEF OncePerRequest
<1>3. ASSUME NEW w \in Workers, WorkerStep(w) PROVE OncePerRequest'
  <2>1. \A r \in Requests : Picked(r)' <=> Picked(r)
    BY <1>3, WorkerPlace DEF Picked
  <2>2. ASSUME NEW x \in Workers, NEW y \in Workers, worker'[x].req = None, worker'[y].req = None
        PROVE  worker'[x] = Resting
    BY <1>0, <2>2 DEF TypeOK, HandsInv, Resting, WorkerAt
  <2>3. CASE TakeJob(w)
    <3> DEFINE h == Head(jobs)
    <3>1. /\ jobs # <<>> /\ jobs' = Tail(jobs) /\ worker[w].at = "rest"
          /\ worker'[w] = WorkerAt("check", h)
          /\ \A v \in Workers \ {w} : worker'[v] = worker[v]
      BY <1>3, <2>3, WorkerPlace DEF TakeJob, TypeOK
    <3>2. /\ h = jobs[1] /\ 1 \in DOMAIN jobs /\ h \in Requests
          /\ DOMAIN jobs' = 1 .. Len(jobs) - 1
          /\ \A i \in DOMAIN jobs' : i + 1 \in DOMAIN jobs /\ jobs'[i] = jobs[i + 1]
      BY <1>0, <3>1
    <3> HIDE DEF h
    <3>3. worker'[w].req = h /\ h # None
      BY <3>1, <3>2, RequestType DEF WorkerAt
    <3>4. Queued(h) /\ Picked(h) /\ ~HeldByWorker(h)
      BY <3>2 DEF Queued, OncePerRequest
    <3>5. \A r \in Requests : Queued(r)' => r # h
      <4>1. \A i \in DOMAIN jobs' : jobs'[i] # h
        BY <1>0, <3>2 DEF OncePerRequest
      <4> QED
        BY <4>1 DEF Queued
    <3>6. \A r \in Requests : Queued(r)' => Queued(r)
      BY <3>2 DEF Queued
    <3>7. \A r \in Requests : HeldByWorker(r)' => HeldByWorker(r) \/ r = h
      BY <3>1, <3>3 DEF HeldByWorker
    <3>8. \A i, j \in DOMAIN jobs' : jobs'[i] = jobs'[j] => i = j
      BY <1>0, <3>2 DEF OncePerRequest
    <3>9. \A x, y \in Workers : worker'[x].req = worker'[y].req => x = y \/ worker'[x] = Resting
      <4>1. ASSUME NEW x \in Workers \ {w} PROVE worker'[x].req # h
        BY <3>1, <3>4, <4>1 DEF HeldByWorker
      <4> QED
        BY <3>1, <3>3, <4>1 DEF OncePerRequest
    <3> QED
      BY <2>1, <3>4, <3>5, <3>6, <3>7, <3>8, <3>9 DEF OncePerRequest
  <2>4. CASE worker'[w] = Resting /\ jobs' = jobs /\ \A v \in Workers \ {w} : worker'[v] = worker[v]
    <3>1. \A r \in Requests : HeldByWorker(r)' => HeldByWorker(r)
      BY <2>4, RequestType DEF HeldByWorker, Resting, WorkerAt
    <3>2. \A r \in Requests : Queued(r)' <=> Queued(r)
      BY <2>4 DEF Queued
    <3>3. \A x, y \in Workers : worker'[x].req = worker'[y].req => x = y \/ worker'[x] = Resting
      <4>1. worker'[w].req = None
        BY <2>4 DEF Resting, WorkerAt
      <4> QED
        BY <2>2, <2>4, <4>1 DEF OncePerRequest
    <3> QED
      BY <2>1, <2>4, <3>1, <3>2, <3>3 DEF OncePerRequest
  <2>5. CASE /\ worker'[w].req = worker[w].req /\ jobs' = jobs
             /\ \A v \in Workers \ {w} : worker'[v] = worker[v]
    <3>1. \A v \in Workers : worker'[v].req = worker[v].req
      BY <2>5
    <3>2. \A r \in Requests : (HeldByWorker(r)' <=> HeldByWorker(r)) /\ (Queued(r)' <=> Queued(r))
      BY <2>5, <3>1 DEF HeldByWorker, Queued
    <3>3. \A x, y \in Workers : worker'[x].req = worker'[y].req => x = y \/ worker'[x] = Resting
      <4>1. \A x \in Workers : worker[x] = Resting => worker[x].req = None
        BY DEF Resting, WorkerAt
      <4> QED
        BY <2>2, <3>1, <4>1 DEF OncePerRequest
    <3> QED
      BY <2>1, <2>5, <3>2, <3>3 DEF OncePerRequest
  <2> QED
    BY <1>3, <2>3, <2>4, <2>5, WorkerPlace
<1> QED
  BY <1>1, <1>2, <1>3, WorkerFrame

-----------------------------------------------------------------------------
\* The stages of a request

\* A worker's request is picked, out of the queue and its own.
LEMMA WorkerOwns ==
  ASSUME TypeOK, HandsInv, OncePerRequest, NEW w \in Workers, worker[w].at # "rest"
  PROVE  LET r == worker[w].req
         IN  /\ r \in Requests /\ r # None /\ HeldByWorker(r) /\ Picked(r) /\ ~Queued(r)
             /\ \A v \in Workers : worker[v].req = r => v = w
<1> DEFINE r == worker[w].req
<1>1. r \in Requests /\ r # None /\ HeldByWorker(r)
  BY InHand, RequestType
<1>2. Picked(r) /\ ~Queued(r)
  BY <1>1 DEF OncePerRequest
<1>3. worker[w] # Resting
  BY DEF Resting, WorkerAt
<1> QED
  BY <1>1, <1>2, <1>3 DEF OncePerRequest

\* Who is destroyed was picked, is in no queue and in no worker's hands.
LEMMA GoneIsFree ==
  ASSUME TypeOK, StageInv, TableInv, NEW d \in Conns,
         NEW q \in {old \in {table[d]} \ {None} : ~HeldByWorker(old)}
  PROVE  q \in Requests /\ Of(q) = d /\ Alive(q) /\ Picked(q) /\ ~Queued(q)
<1>1. q \in Requests /\ Of(q) = d /\ Alive(q)
  BY DEF TypeOK, TableInv
<1> QED
  BY <1>1 DEF StageInv, RequestStage, Alive

LEMMA StageStep ==
  ASSUME TypeOK, HandsInv, OncePerRequest, StageInv, ChunksInv, TableInv, [Next]_vars
  PROVE  StageInv'
<1>1. /\ \A r \in Requests : RequestStage(r)
      /\ \A w \in Workers : WorkerStage(w)
      /\ IoStage
  BY DEF StageInv
<1> USE DEF RequestStage, WorkerStage, IoStage
<1> DEFINE Goal == /\ \A r \in Requests : RequestStage(r)'
                   /\ \A w \in Workers : WorkerStage(w)'
                   /\ IoStage'
<1>2. SUFFICES Goal
  BY DEF StageInv
<1>3. ASSUME UNCHANGED <<jobs, picked>>, NEW r \in Requests
      PROVE  (Queued(r)' <=> Queued(r)) /\ (Picked(r)' <=> Picked(r))
  BY <1>3 DEF Queued, Picked
<1>4. \A w \in Workers : worker[w].at # "rest" => worker[w].req \in Requests
  BY InHand
<1>5. io.at \in {"write", "fail", "read", "send"} => io.on \in Requests
  BY InHand
<1>6. CASE UNCHANGED <<client, own, replied, io, worker, jobs, picked>>
  BY <1>1, <1>3, <1>6
\* A request and the number of its answers, once conn->send was called.
<1>0. ASSUME NEW q \in Requests, own[q] = 0, Answer(q)
      PROVE  own'[q] \in {0, 1} /\ \A r \in Requests \ {q} : own'[r] = own[r]
  BY <1>0 DEF Answer, Sent, TypeOK
<1>7. ASSUME NEW q \in Requests, BackendReplies(q) PROVE Goal
  <2>1. /\ UNCHANGED <<client, own, io, worker, jobs, picked>> /\ client[q] = "linked"
        /\ \A r \in Requests \ {q} : replied'[r] = replied[r]
    BY <1>7 DEF BackendReplies, TypeOK, answers
  <2>2. own[q] = 0 /\ Picked(q) /\ ~Queued(q)
    BY <1>1, <2>1
  <2>3. ~(io.at = "fail" /\ io.on = q)
    BY <1>1, <2>1
  <2>4. \A r \in Requests : RequestStage(r)'
    BY <1>1, <1>3, <2>1, <2>2
  <2>5. IoStage'
    BY <1>1, <1>5, <2>1, <2>3
  <2> QED
    BY <1>1, <2>1, <2>4, <2>5
<1>8. CASE (\E d \in Conns : ReadClient(d) \/ ClientClosed(d)) \/ PickEnd
           \/ OnUpstreamConnected
  <2>1. /\ UNCHANGED <<client, own, replied, worker, jobs, picked>>
        /\ io'.at \notin {"write", "fail", "read", "send"}
    BY <1>8 DEF ReadClient, ClientClosed, PickEnd, OnUpstreamConnected, IoAt, Looping, netVars, answers
  <2> QED
    BY <1>1, <1>3, <2>1
<1>9. CASE HandleMessage
  <2> DEFINE n == <<io.on, picked[io.on] + 1>>
  <2>1. /\ n \in Requests /\ ~Picked(n) /\ jobs' = Append(jobs, n)
        /\ \A r \in Requests : Picked(r)' <=> Picked(r) \/ r = n
        /\ UNCHANGED <<client, own, replied, worker>> /\ io'.at = "pick"
    BY <1>9, NextRequest DEF HandleMessage, IoAt, netVars, answers
  <2> HIDE DEF n
  <2>2. \A r \in Requests : Queued(r)' => Queued(r) \/ r = n
    <3>1. jobs \in Seq(Requests)
      BY DEF TypeOK
    <3>2. \A i \in DOMAIN jobs' : jobs'[i] = n \/ (i \in DOMAIN jobs /\ jobs'[i] = jobs[i])
      BY <2>1, <3>1
    <3> QED
      BY <3>2 DEF Queued
  <2> QED
    BY <1>1, <2>1, <2>2
<1>10. CASE HandleClose
  <2> DEFINE gone == {old \in {table[io.on]} \ {None} : ~HeldByWorker(old)}
  <2>1. /\ client' = [q \in Requests |-> IF q \in gone THEN "gone" ELSE client[q]]
        /\ UNCHANGED <<own, replied, worker, jobs, picked>> /\ io' = Looping
        /\ io.on \in Conns
    BY <1>10, InHand DEF HandleClose, netVars, answers
  <2>2. \A q \in gone : q \in Requests /\ Picked(q) /\ ~Queued(q) /\ ~HeldByWorker(q)
    BY <2>1, GoneIsFree
  <2> HIDE DEF gone
  <2>3. \A r \in Requests : RequestStage(r)'
    BY <1>1, <1>3, <2>1, <2>2
  <2>4. \A w \in Workers : worker[w].at # "rest" => worker[w].req \notin gone
    BY <1>4, <2>2 DEF HeldByWorker
  <2>5. \A w \in Workers : WorkerStage(w)'
    BY <1>1, <1>4, <2>1, <2>4 DEF Looping, IoAt
  <2>6. IoStage'
    BY <2>1 DEF Looping, IoAt
  <2> QED
    BY <2>3, <2>5, <2>6
<1>11. ASSUME NEW q \in Requests, ConnectEvent(q) \/ ReadBackend(q) \/ BackendClosed(q) PROVE Goal
  <2>0. UNCHANGED <<own, replied, worker, jobs, picked>> /\ io = Looping
    BY <1>11 DEF ConnectEvent, ReadBackend, BackendClosed, Handles, netVars, answers
  <2>1. CASE ConnectEvent(q)
    <3>1. /\ client[q] = "armed" /\ client' = [client EXCEPT ![q] = "settling"]
          /\ io' = IoAt("write", q, 0)
      BY <2>1 DEF ConnectEvent
    <3>2. \A r \in Requests : client'[r] = IF r = q THEN "settling" ELSE client[r]
      BY <3>1 DEF TypeOK
    <3>3. \A r \in Requests : RequestStage(r)'
      BY <1>1, <1>3, <2>0, <3>1, <3>2
    <3>4. \A w \in Workers : WorkerStage(w)'
      BY <1>1, <1>4, <2>0, <3>1, <3>2 DEF IoAt
    <3> QED
      BY <3>1, <3>2, <3>3, <3>4 DEF IoAt
  <2>2. CASE ReadBackend(q)
    <3>1. client' = client /\ io' = IoAt("read", q, inbox[q]) /\ client[q] = "linked"
      BY <2>2 DEF ReadBackend
    <3>2. \A r \in Requests : RequestStage(r)'
      BY <1>1, <1>3, <2>0, <3>1
    <3> QED
      BY <1>1, <2>0, <3>1, <3>2 DEF IoAt
  <2>3. CASE BackendClosed(q)
    <3>1. client' = [client EXCEPT ![q] = "ended"] /\ client[q] = "linked" /\ io' = io
      BY <2>3 DEF BackendClosed
    <3>2. \A r \in Requests : client'[r] = IF r = q THEN "ended" ELSE client[r]
      BY <3>1 DEF TypeOK
    <3>3. \A r \in Requests : RequestStage(r)'
      BY <1>1, <1>3, <2>0, <3>1, <3>2
    <3>4. \A w \in Workers : WorkerStage(w)'
      BY <1>1, <1>4, <2>0, <3>1, <3>2
    <3> QED
      BY <2>0, <3>1, <3>3, <3>4 DEF IoAt, Looping
  <2> QED
    BY <1>11, <2>1, <2>2, <2>3
<1>12. CASE ConnectFails \/ ConnectWorks
  <2> DEFINE q == io.on
  <2>1. /\ q \in Requests /\ UNCHANGED <<own, replied, worker, jobs, picked>>
        /\ client[q] = "settling" /\ io.at = "write"
        /\ \/ client' = [client EXCEPT ![q] = "failed"] /\ io' = IoAt("fail", q, 0)
           \/ client' = [client EXCEPT ![q] = "linked"] /\ io' = io
    BY <1>5, <1>12 DEF ConnectFails, ConnectWorks, netVars, answers
  <2>2. /\ own[q] = 0 /\ replied[q] = 0 /\ client'[q] \in {"failed", "linked"}
        /\ \A r \in Requests \ {q} : client'[r] = client[r]
    BY <1>1, <2>1 DEF TypeOK
  <2>3. \A w \in Workers : worker[w].at = "settle" => worker[w].req # q
    BY <1>1, <2>1
  <2>4. io'.at = "write" => io'.on = q
    BY <2>1 DEF IoAt
  <2>5. IoStage'
    BY <2>1, <2>2 DEF IoAt, TypeOK
  <2> HIDE DEF q
  <2>6. \A r \in Requests : RequestStage(r)'
    BY <1>1, <1>3, <2>1, <2>2
  <2>7. \A w \in Workers : WorkerStage(w)'
    BY <1>1, <1>4, <2>1, <2>2, <2>3, <2>4
  <2> QED
    BY <2>5, <2>6, <2>7
<1>13. ASSUME NEW w \in Workers, WorkerStep(w) PROVE Goal
  <2> DEFINE r == worker[w].req
  <2>0. /\ picked' = picked /\ \A v \in Workers \ {w} : worker'[v] = worker[v]
        /\ UNCHANGED <<replied, io>>
    <3>1. UNCHANGED <<replied, io>>
      BY <1>13 DEF WorkerStep, TakeJob, Reject, Insert, Connect, FailAtOnce, LinkAtOnce,
                   Registered, Leave, netVars
    <3> QED
      BY <1>13, <3>1, WorkerPlace
  <2>1. CASE TakeJob(w)
    <3>1. /\ jobs # <<>> /\ jobs' = Tail(jobs) /\ UNCHANGED <<client, own>>
          /\ worker'[w] = WorkerAt("check", Head(jobs))
      BY <2>1 DEF TakeJob, TypeOK, answers
    <3>2. /\ Head(jobs) \in Requests /\ Queued(Head(jobs))
          /\ \A q \in Requests : Queued(q)' => Queued(q)
      <4>1. jobs \in Seq(Requests)
        BY DEF TypeOK
      <4>2. /\ Head(jobs) = jobs[1] /\ 1 \in DOMAIN jobs /\ Head(jobs) \in Requests
            /\ \A i \in DOMAIN jobs' : i + 1 \in DOMAIN jobs /\ jobs'[i] = jobs[i + 1]
        BY <3>1, <4>1
      <4> QED
        BY <4>2 DEF Queued
    <3>3. \A q \in Requests : Picked(q)' <=> Picked(q)
      BY <2>0 DEF Picked
    <3> QED
      BY <1>1, <2>0, <3>1, <3>2, <3>3 DEF WorkerAt
  <2>2. ASSUME worker[w].at # "rest"
        PROVE  /\ r \in Requests /\ Picked(r) /\ ~Queued(r)
               /\ \A v \in Workers \ {w} : worker[v].req # r
    BY <2>2, WorkerOwns
  <2>3. CASE Reject(w)
    <3>1. /\ worker[w].at = "check" /\ UNCHANGED <<client, jobs>> /\ worker'[w] = Resting
          /\ Answer(r)
      BY <2>3 DEF Reject, TypeOK
    <3>2. /\ client[r] = "none" /\ own'[r] \in {0, 1} /\ replied[r] = 0
          /\ \A q \in Requests \ {r} : own'[q] = own[q]
      BY <1>0, <1>1, <2>2, <3>1
    <3> HIDE DEF r
    <3>3. \A q \in Requests : RequestStage(q)'
      BY <1>1, <1>3, <2>0, <2>2, <3>1, <3>2
    <3>4. \A v \in Workers : WorkerStage(v)'
      BY <1>1, <1>4, <2>0, <2>2, <3>1, <3>2 DEF Resting, WorkerAt
    <3>5. IoStage'
      BY <1>1, <1>5, <2>0, <3>1, <3>2
    <3> QED
      BY <3>3, <3>4, <3>5
  <2>4. CASE Insert(w)
    <3> DEFINE gone == {old \in {table[Of(r)]} \ {None} : ~HeldByWorker(old)}
    <3>1. /\ worker[w].at = "check" /\ UNCHANGED <<own, jobs>>
          /\ worker'[w].at = "connect" /\ worker'[w].req = r
          /\ client' = [q \in Requests |-> IF q = r THEN "made"
                                           ELSE IF q \in gone THEN "gone" ELSE client[q]]
      BY <2>4 DEF Insert, TypeOK, answers
    <3>2. client[r] = "none" /\ own[r] = 0 /\ replied[r] = 0 /\ Of(r) \in Conns
      BY <1>1, <2>2, <3>1, RequestType
    <3>3. \A q \in gone : q \in Requests /\ Picked(q) /\ ~Queued(q) /\ ~HeldByWorker(q)
      BY <3>2, GoneIsFree
    <3> HIDE DEF gone, r
    <3>4. \A q \in Requests : RequestStage(q)'
      BY <1>1, <1>3, <2>0, <2>2, <3>1, <3>2, <3>3
    <3>5. ASSUME NEW v \in Workers PROVE WorkerStage(v)'
      <4>1. CASE v = w
        BY <2>2, <3>1, <4>1
      <4>2. CASE v # w /\ worker[v].at # "rest"
        <5>1. worker[v].req \in Requests /\ worker[v].req \notin gone /\ worker[v].req # r
          BY <1>4, <2>2, <3>1, <3>3, <4>2 DEF HeldByWorker
        <5> QED
          BY <1>1, <2>0, <3>1, <4>2, <5>1
      <4> QED
        BY <2>0, <4>1, <4>2
    <3>6. IoStage'
      BY <1>1, <1>5, <2>0, <2>2, <3>1, <3>2
    <3> QED
      BY <3>4, <3>5, <3>6
  <2>5. CASE Connect(w)
    <3>1. PICK how \in {<<"armed", "register">>, <<"settling", "settle">>,
                       <<"refused", "leave">>} :
            /\ client' = [client EXCEPT ![r] = how[1]]
            /\ worker' = [worker EXCEPT ![w].at = how[2]]
      BY <2>5 DEF Connect
    <3>2. /\ worker[w].at = "connect" /\ UNCHANGED <<own, jobs>>
          /\ worker'[w].at = how[2] /\ worker'[w].req = r
      BY <2>5, <3>1 DEF Connect, TypeOK, answers
    <3>3. /\ client[r] = "made" /\ own[r] = 0 /\ replied[r] = 0
          /\ client'[r] = how[1] /\ \A q \in Requests \ {r} : client'[q] = client[q]
      BY <1>1, <2>2, <3>1, <3>2 DEF TypeOK
    <3>4. ~(io.at \in {"write", "fail", "read", "send"} /\ io.on = r)
      BY <1>1, <3>3
    <3> HIDE DEF r
    <3>5. \A q \in Requests : RequestStage(q)'
      BY <1>1, <1>3, <2>0, <2>2, <3>2, <3>3
    <3>6. \A v \in Workers : WorkerStage(v)'
      BY <1>1, <1>4, <2>0, <2>2, <3>2, <3>3, <3>4
    <3>7. IoStage'
      BY <1>1, <1>5, <2>0, <3>2, <3>3, <3>4
    <3> QED
      BY <3>5, <3>6, <3>7
  <2>6. CASE Leave(w)
    <3> DEFINE gone == IF table[Of(r)] = r THEN {} ELSE {r}
    <3>1. /\ worker[w].at = "leave" /\ UNCHANGED <<own, jobs>> /\ worker'[w] = Resting
          /\ client' = [q \in Requests |-> IF q \in gone THEN "gone" ELSE client[q]]
      BY <2>6 DEF Leave, TypeOK, answers
    <3>2. gone \subseteq {r}
      OBVIOUS
    <3> HIDE DEF gone, r
    <3>3. \A q \in Requests : RequestStage(q)'
      BY <1>1, <1>3, <2>0, <2>2, <3>1, <3>2
    <3>4. \A v \in Workers : WorkerStage(v)'
      BY <1>1, <1>4, <2>0, <2>2, <3>1, <3>2 DEF Resting, WorkerAt
    <3>5. IoStage'
      BY <1>1, <1>5, <2>0, <3>1, <3>2
    <3> QED
      BY <3>3, <3>4, <3>5
  <2>7. CASE FailAtOnce(w) \/ LinkAtOnce(w)
    <3>1. /\ worker[w].at = "settle" /\ jobs' = jobs /\ worker'[w].req = r
          /\ \/ client' = [client EXCEPT ![r] = "failed"] /\ Answer(r) /\ worker'[w].at = "leave"
             \/ client' = [client EXCEPT ![r] = "linked"] /\ own' = own /\ worker'[w].at = "register"
      BY <2>7 DEF FailAtOnce, LinkAtOnce, TypeOK, answers
    <3>2. /\ client[r] = "settling" /\ own[r] = 0 /\ replied[r] = 0
          /\ ~(io.at \in {"write", "fail", "read", "send"} /\ io.on = r)
      BY <1>1, <2>2, <3>1
    <3>3. /\ own'[r] \in {0, 1} /\ client'[r] \in {"failed", "linked"}
          /\ client'[r] = "linked" => own'[r] = 0
          /\ \A q \in Requests \ {r} : client'[q] = client[q] /\ own'[q] = own[q]
      BY <1>0, <2>2, <3>1, <3>2 DEF TypeOK
    <3> HIDE DEF r
    <3>4. \A q \in Requests : RequestStage(q)'
      BY <1>1, <1>3, <2>0, <2>2, <3>1, <3>2, <3>3
    <3>5. \A v \in Workers : WorkerStage(v)'
      BY <1>1, <1>4, <2>0, <2>2, <3>1, <3>2, <3>3
    <3>6. IoStage'
      BY <1>1, <1>5, <2>0, <3>2, <3>3
    <3> QED
      BY <3>4, <3>5, <3>6
  <2>8. CASE Registered(w)
    <3>1. /\ worker[w].at = "register" /\ UNCHANGED <<jobs, client, own>>
          /\ worker'[w].req = r /\ worker'[w].at = "leave"
      BY <2>8 DEF Registered, TypeOK, answers
    <3>2. \A v \in Workers : WorkerStage(v)'
      BY <1>1, <1>4, <2>0, <3>1
    <3> QED
      BY <1>1, <1>3, <2>0, <3>1, <3>2
  <2> QED
    BY <1>13, <2>1, <2>3, <2>4, <2>5, <2>6, <2>7, <2>8 DEF WorkerStep
<1>14. CASE PeerStep \/ (\E q \in Requests : ConnectSettles(q) \/ BackendCloses(q)) \/ EpollWait
            \/ TouchesDestroyed \/ EventTooEarly \/ Halted \/ AllServed \/ UNCHANGED vars
  <2>1. UNCHANGED <<client, own, replied, io, worker, jobs, picked>>
    BY <1>14 DEF PeerStep, PeerAsks, PeerCloses, ConnectSettles, BackendCloses, EpollWait,
       TouchesDestroyed, EventTooEarly, Die, Halted, AllServed, vars, netVars, answers
  <2> QED
    BY <1>6, <2>1
<1>15. CASE OnUpstreamError
  <2> DEFINE q == io.on
  <2>1. /\ q \in Requests /\ io.at = "fail" /\ Answer(q) /\ io' = Looping
        /\ UNCHANGED <<client, replied, worker, jobs, picked>>
    BY <1>5, <1>15 DEF OnUpstreamError, netVars
  <2>2. /\ own[q] = 0 /\ replied[q] = 0 /\ client[q] \in {"failed", "gone"}
        /\ own'[q] \in {0, 1} /\ \A r \in Requests \ {q} : own'[r] = own[r]
    BY <1>0, <1>1, <2>1
  <2> HIDE DEF q
  <2>3. \A r \in Requests : RequestStage(r)'
    BY <1>1, <1>3, <2>1, <2>2
  <2>4. \A w \in Workers : WorkerStage(w)'
    BY <1>1, <1>4, <2>1, <2>2 DEF Looping, IoAt
  <2> QED
    BY <2>1, <2>3, <2>4 DEF Looping, IoAt
<1>16. CASE PickChunk \/ OnUpstreamMessage
  <2>1. /\ UNCHANGED <<client, own, replied, worker, jobs, picked>>
        /\ io'.at \in {"read", "send"} /\ io'.on = io.on /\ io.at \in {"read", "send"}
    BY <1>16 DEF PickChunk, OnUpstreamMessage, IoAt, netVars, answers
  <2> QED
    BY <1>1, <1>3, <2>1
<1> HIDE DEF RequestStage, WorkerStage, IoStage
<1> QED
  BY <1>7, <1>8, <1>9, <1>10, <1>11, <1>12, <1>13, <1>14, <1>15, <1>16
     DEF Next, IoStep, BackendStep

-----------------------------------------------------------------------------
\* The chunks of a reply

LEMMA ChunksStep ==
  ASSUME TypeOK, HandsInv, ChunksInv, [Next]_vars
  PROVE  ChunksInv'
<1> SUFFICES ASSUME NEW r \in Requests
             PROVE  passed'[r] + Reading(r)' + inbox'[r] <= replied'[r]
  BY DEF ChunksInv
<1>0. /\ passed[r] + Reading(r) + inbox[r] <= replied[r]
      /\ passed[r] \in Nat /\ Reading(r) \in Nat /\ inbox[r] \in Nat /\ replied[r] \in Nat
  BY ChunksBound DEF ChunksInv
<1>1. CASE UNCHANGED <<passed, inbox, replied>> /\ Reading(r)' = Reading(r)
  BY <1>0, <1>1
<1>2. CASE UNCHANGED <<passed, inbox, replied>> /\ Reading(r)' = 0
  BY <1>0, <1>2
<1>3. CASE UNCHANGED <<passed, inbox, replied, io>>
  BY <1>1, <1>3 DEF Reading
<1>4. CASE UNCHANGED <<passed, inbox, replied>> /\ io'.at \notin {"read", "send"}
  BY <1>2, <1>4 DEF Reading
<1>5. ASSUME NEW q \in Requests, BackendReplies(q)
      PROVE  passed'[r] + Reading(r)' + inbox'[r] <= replied'[r]
  <2>1. /\ Reading(r)' = Reading(r) /\ passed' = passed
        /\ inbox' = [inbox EXCEPT ![q] = @ + 1] /\ replied' = [replied EXCEPT ![q] = @ + 1]
    BY <1>5 DEF BackendReplies, Reading, answers
  <2>2. CASE q = r
    <3>1. inbox'[r] = inbox[r] + 1 /\ replied'[r] = replied[r] + 1
      BY <2>1, <2>2 DEF TypeOK
    <3> QED
      BY <1>0, <2>1, <3>1
  <2>3. CASE q # r
    <3>1. inbox'[r] = inbox[r] /\ replied'[r] = replied[r]
      BY <2>1, <2>3 DEF TypeOK
    <3> QED
      BY <1>0, <2>1, <3>1
  <2> QED
    BY <2>2, <2>3
<1>6. ASSUME NEW q \in Requests, ReadBackend(q) \/ BackendClosed(q)
      PROVE  passed'[r] + Reading(r)' + inbox'[r] <= replied'[r]
  <2>1. /\ UNCHANGED <<passed, replied>> /\ io = Looping
        /\ inbox' = [inbox EXCEPT ![q] = 0]
        /\ io' = Looping \/ io' = IoAt("read", q, inbox[q])
    BY <1>6 DEF ReadBackend, BackendClosed, Handles, answers
  <2>2. CASE q = r
    <3>1. inbox'[r] = 0 /\ Reading(r)' \in {0, inbox[r]}
      BY <2>1, <2>2 DEF TypeOK, Reading, IoAt, Looping
    <3> QED
      BY <1>0, <2>1, <3>1
  <2>3. CASE q # r
    <3>1. inbox'[r] = inbox[r] /\ Reading(r)' = 0
      BY <2>1, <2>3 DEF TypeOK, Reading, IoAt, Looping
    <3> QED
      BY <1>0, <2>1, <3>1
  <2> QED
    BY <2>2, <2>3
<1>7. CASE PickChunk
  <2>1. Reading(r)' = Reading(r)
    BY <1>7 DEF PickChunk, Reading, IoAt
  <2> QED
    BY <1>1, <1>7, <2>1 DEF PickChunk, netVars, answers
<1>8. CASE OnUpstreamMessage
  <2>1. /\ UNCHANGED <<inbox, replied>> /\ io.at = "send" /\ io.on \in Requests
        /\ io' = IoAt("read", io.on, io.left - 1) /\ passed' = Sent(passed, io.on)
        /\ io.left \in Nat
    BY <1>8, InHand DEF OnUpstreamMessage, netVars, TypeOK
  <2>2. CASE io.on = r
    <3>1. /\ Reading(r) = io.left /\ Reading(r)' = io.left - 1
          /\ passed'[r] = passed[r] \/ passed'[r] = passed[r] + 1
      BY <2>1, <2>2 DEF Reading, IoAt, Sent, TypeOK
    <3> QED
      BY <1>0, <2>1, <3>1
  <2>3. CASE io.on # r
    <3>1. Reading(r)' = 0 /\ passed'[r] = passed[r]
      BY <2>1, <2>3 DEF Reading, IoAt, Sent, TypeOK
    <3> QED
      BY <1>0, <2>1, <3>1
  <2> QED
    BY <2>2, <2>3
<1>9. CASE IoStep
  <2>1. CASE \/ \E d \in Conns : ReadClient(d) \/ ClientClosed(d)
             \/ HandleMessage \/ PickEnd \/ HandleClose
             \/ \E q \in Requests : ConnectEvent(q)
             \/ ConnectFails \/ OnUpstreamError \/ OnUpstreamConnected
    <3>1. UNCHANGED <<passed, inbox, replied>> /\ io'.at \notin {"read", "send"}
      BY <2>1 DEF ReadClient, ClientClosed, HandleMessage, PickEnd, HandleClose, ConnectEvent,
         ConnectFails, OnUpstreamError, OnUpstreamConnected, Answer, IoAt, Looping, netVars, answers
    <3> QED
      BY <1>4, <3>1
  <2>2. CASE EpollWait \/ ConnectWorks \/ TouchesDestroyed \/ EventTooEarly
    BY <1>3, <2>2 DEF EpollWait, ConnectWorks, TouchesDestroyed, EventTooEarly, Die, netVars, answers
  <2> QED
    BY <1>6, <1>7, <1>8, <1>9, <2>1, <2>2 DEF IoStep
<1>10. ASSUME NEW w \in Workers, WorkerStep(w) PROVE UNCHANGED <<passed, inbox, replied, io>>
  BY <1>10 DEF WorkerStep, TakeJob, Reject, Insert, Connect, FailAtOnce, LinkAtOnce, Registered,
     Leave, Answer, netVars, answers
<1>11. CASE PeerStep \/ (\E q \in Requests : ConnectSettles(q) \/ BackendCloses(q))
            \/ Halted \/ AllServed \/ UNCHANGED vars
  <2>1. UNCHANGED <<passed, inbox, replied, io>>
    BY <1>11 DEF PeerStep, PeerAsks, PeerCloses, ConnectSettles, BackendCloses, Halted, AllServed,
       vars, netVars, answers
  <2> QED
    BY <1>3, <2>1
<1> QED
  BY <1>3, <1>5, <1>9, <1>10, <1>11 DEF Next, BackendStep

-----------------------------------------------------------------------------
\* upstream_clients_

LEMMA TableFrame ==
  ASSUME [Next]_vars
  PROVE  \/ UNCHANGED <<client, table, worker>>
         \/ /\ UNCHANGED <<table, worker>>
            /\ \E q \in Requests :
                 \/ client' = [client EXCEPT ![q] = "settling"] /\ client[q] = "armed"
                 \/ client' = [client EXCEPT ![q] = "ended"] /\ client[q] = "linked"
         \/ ConnectFails \/ ConnectWorks \/ HandleClose
         \/ \E w \in Workers : WorkerStep(w)
<1>1. CASE IoStep
  BY <1>1 DEF IoStep, EpollWait, ReadClient, ClientClosed, HandleMessage, PickEnd, ConnectEvent,
              ReadBackend, BackendClosed, OnUpstreamError, OnUpstreamConnected, PickChunk,
              OnUpstreamMessage, TouchesDestroyed, EventTooEarly, Die
<1>2. CASE PeerStep
  BY <1>2 DEF PeerStep, PeerAsks, PeerCloses
<1>3. CASE \E r \in Requests : BackendStep(r)
  BY <1>3 DEF BackendStep, ConnectSettles, BackendReplies, BackendCloses
<1> QED
  BY <1>1, <1>2, <1>3 DEF Next, Halted, AllServed, vars

LEMMA TableStep ==
  ASSUME TypeOK, HandsInv, OncePerRequest, StageInv, TableInv, [Next]_vars
  PROVE  TableInv'
<1>1. /\ \A d \in Conns : table[d] # None => Of(table[d]) = d /\ Alive(table[d])
      /\ \A r \in Requests : Alive(r) => table[Of(r)] = r \/ HeldByWorker(r)
      /\ table \in [Conns -> Requests \cup {None}] /\ client \in [Requests -> Stages]
  BY DEF TableInv, TypeOK
<1>2. ASSUME UNCHANGED worker, NEW r \in Requests PROVE HeldByWorker(r)' <=> HeldByWorker(r)
  BY <1>2 DEF HeldByWorker
<1>3. CASE UNCHANGED <<client, table, worker>>
  BY <1>2, <1>3 DEF TableInv, Alive
<1>4. ASSUME UNCHANGED <<table, worker>>, NEW q \in Requests, Alive(q),
             NEW s \in Stages \ {"none", "gone"}, client' = [client EXCEPT ![q] = s]
      PROVE  TableInv'
  <2>1. \A r \in Requests : Alive(r)' <=> Alive(r)
    BY <1>1, <1>4 DEF Alive
  <2>2. \A d \in Conns : table[d] # None => table[d] \in Requests
    BY <1>1
  <2> QED
    BY <1>1, <1>2, <1>4, <2>1, <2>2 DEF TableInv
<1>5. CASE ConnectFails \/ ConnectWorks
  <2>1. io.on \in Requests /\ client[io.on] = "settling"
    BY <1>5, InHand DEF ConnectFails, ConnectWorks
  <2>2. \E s \in Stages \ {"none", "gone"} : client' = [client EXCEPT ![io.on] = s]
    BY <1>5 DEF ConnectFails, ConnectWorks, Stages
  <2>3. UNCHANGED <<table, worker>> /\ Alive(io.on)
    BY <1>5, <2>1 DEF ConnectFails, ConnectWorks, Alive
  <2> QED
    BY <1>4, <2>1, <2>2, <2>3
<1>6. CASE HandleClose
  <2> DEFINE d == io.on
             gone == {old \in {table[d]} \ {None} : ~HeldByWorker(old)}
  <2>1. /\ d \in Conns /\ worker' = worker
        /\ table' = [table EXCEPT ![d] = None]
        /\ client' = [q \in Requests |-> IF q \in gone THEN "gone" ELSE client[q]]
    BY <1>6, InHand DEF HandleClose
  <2>2. \A q \in gone : q \in Requests /\ Of(q) = d
    BY <2>1, GoneIsFree
  <2>3. \A q \in Requests : Alive(q) /\ table[d] = q => q \in gone \/ HeldByWorker(q)
    BY RequestType
  <2> HIDE DEF d, gone
  <2>4. ASSUME NEW e \in Conns, table'[e] # None PROVE Of(table'[e]) = e /\ client'[table'[e]] \notin {"none", "gone"}
    <3>1. e # d /\ table'[e] = table[e] /\ table[e] \in Requests /\ table[e] # None
      BY <1>1, <2>1, <2>4
    <3>2. table[e] \notin gone
      BY <1>1, <2>2, <3>1
    <3> QED
      BY <1>1, <2>1, <3>1, <3>2 DEF Alive
  <2>5. ASSUME NEW r \in Requests, Alive(r)' PROVE table'[Of(r)] = r \/ HeldByWorker(r)'
    <3>1. Alive(r) /\ r \notin gone /\ Of(r) \in Conns
      BY <1>1, <2>1, <2>5, RequestType DEF Alive
    <3>2. CASE Of(r) = d
      BY <1>1, <1>2, <2>1, <2>3, <3>1, <3>2
    <3>3. CASE Of(r) # d
      BY <1>1, <1>2, <2>1, <3>1, <3>3
    <3> QED
      BY <3>2, <3>3
  <2> QED
    BY <2>4, <2>5 DEF TableInv, Alive
<1>7. ASSUME NEW w \in Workers, WorkerStep(w) PROVE TableInv'
  <2> DEFINE r == worker[w].req
  <2>0. /\ \A v \in Workers \ {w} : worker'[v] = worker[v]
        /\ worker[w].at # "rest" => r \in Requests /\ Of(r) \in Conns
    BY <1>7, WorkerPlace, InHand, RequestType
  <2>1. CASE TakeJob(w)
    <3>1. UNCHANGED <<client, table>> /\ worker[w].at = "rest"
      BY <2>1 DEF TakeJob
    <3>2. \A q \in Requests : HeldByWorker(q) => HeldByWorker(q)'
      <4>1. worker[w].req = None
        BY <3>1 DEF HandsInv
      <4> QED
        BY <2>0, <4>1, RequestType DEF HeldByWorker
    <3> QED
      BY <1>1, <3>1, <3>2 DEF TableInv, Alive
  <2>2. CASE Reject(w)
    <3>1. UNCHANGED <<client, table>> /\ worker[w].at = "check"
      BY <2>2 DEF Reject
    <3>2. ~Alive(r)
      BY <3>1 DEF StageInv, WorkerStage, Alive
    <3>3. \A q \in Requests \ {r} : HeldByWorker(q) => HeldByWorker(q)'
      BY <2>0 DEF HeldByWorker
    <3> HIDE DEF r
    <3> QED
      BY <1>1, <3>1, <3>2, <3>3 DEF TableInv, Alive
  <2>3. CASE Insert(w)
    <3> DEFINE gone == {old \in {table[Of(r)]} \ {None} : ~HeldByWorker(old)}
    <3>1. /\ worker[w].at = "check" /\ worker'[w].req = r
          /\ table' = [table EXCEPT ![Of(r)] = r]
          /\ client' = [q \in Requests |-> IF q = r THEN "made"
                                           ELSE IF q \in gone THEN "gone" ELSE client[q]]
      BY <2>3 DEF Insert, TypeOK
    <3>2. r \in Requests /\ Of(r) \in Conns /\ ~Alive(r)
      BY <2>0, <3>1 DEF StageInv, WorkerStage, Alive
    <3>3. \A q \in gone : q \in Requests /\ Of(q) = Of(r)
      BY <3>2, GoneIsFree
    <3>4. \A q \in Requests : Alive(q) /\ table[Of(r)] = q => q \in gone \/ HeldByWorker(q)
      BY RequestType
    <3>5. \A q \in Requests : HeldByWorker(q) => HeldByWorker(q)'
      BY <2>0, <3>1 DEF HeldByWorker
    <3> HIDE DEF r, gone
    <3>6. ASSUME NEW e \in Conns, table'[e] # None PROVE Of(table'[e]) = e /\ client'[table'[e]] \notin {"none", "gone"}
      <4>1. CASE e = Of(r)
        BY <1>1, <3>1, <3>2, <4>1 DEF Alive
      <4>2. CASE e # Of(r)
        <5>1. table'[e] = table[e] /\ table[e] \in Requests /\ table[e] # None
          BY <1>1, <3>1, <3>6, <4>2
        <5>2. table[e] \notin gone /\ table[e] # r
          BY <1>1, <3>2, <3>3, <4>2, <5>1
        <5> QED
          BY <1>1, <3>1, <5>1, <5>2 DEF Alive
      <4> QED
        BY <4>1, <4>2
    <3>7. ASSUME NEW q \in Requests, Alive(q)' PROVE table'[Of(q)] = q \/ HeldByWorker(q)'
      <4>1. CASE q = r
        BY <1>1, <3>1, <3>2, <4>1
      <4>2. CASE q # r
        <5>1. Alive(q) /\ q \notin gone /\ Of(q) \in Conns
          BY <3>1, <3>7, <4>2, RequestType DEF Alive
        <5> QED
          BY <1>1, <3>1, <3>2, <3>4, <3>5, <5>1
      <4> QED
        BY <4>1, <4>2
    <3> QED
      BY <3>6, <3>7 DEF TableInv, Alive
  <2>4. CASE Connect(w) \/ FailAtOnce(w) \/ LinkAtOnce(w)
    <3>1. /\ \E s \in {"armed", "settling", "refused", "failed", "linked"} :
               client' = [client EXCEPT ![r] = s]
          /\ worker[w].at \in {"connect", "settle"} /\ table' = table /\ worker'[w].req = r
      BY <2>4 DEF Connect, FailAtOnce, LinkAtOnce, TypeOK
    <3>2. client[r] \in {"made", "settling"} /\ r \in Requests
      BY <2>0, <3>1 DEF StageInv, WorkerStage
    <3>3. \A q \in Requests : HeldByWorker(q) => HeldByWorker(q)'
      BY <2>0, <3>1 DEF HeldByWorker
    <3>4. \A q \in Requests : Alive(q)' <=> Alive(q)
      BY <1>1, <3>1, <3>2 DEF Alive
    <3>5. \A d \in Conns : table[d] # None => table[d] \in Requests
      BY <1>1
    <3> QED
      BY <1>1, <3>1, <3>3, <3>4, <3>5 DEF TableInv
  <2>6. CASE Registered(w)
    <3>1. UNCHANGED <<client, table>> /\ worker'[w].req = worker[w].req
      BY <2>6 DEF Registered, TypeOK
    <3>2. \A q \in Requests : HeldByWorker(q) => HeldByWorker(q)'
      BY <2>0, <3>1 DEF HeldByWorker
    <3> QED
      BY <1>1, <3>1, <3>2 DEF TableInv, Alive
  <2>5. CASE Leave(w)
    <3> DEFINE gone == IF table[Of(r)] = r THEN {} ELSE {r}
    <3>1. /\ worker[w].at = "leave" /\ table' = table
          /\ client' = [q \in Requests |-> IF q \in gone THEN "gone" ELSE client[q]]
      BY <2>5 DEF Leave
    <3>2. \A q \in Requests \ {r} : HeldByWorker(q) => HeldByWorker(q)'
      BY <2>0 DEF HeldByWorker
    <3>3. r \in Requests /\ Of(r) \in Conns
      BY <2>0, <3>1
    <3>4. \A q \in gone : q = r /\ table[Of(r)] # r
      OBVIOUS
    <3>5. table[Of(r)] = r \/ r \in gone
      OBVIOUS
    <3> HIDE DEF r, gone
    <3>6. ASSUME NEW e \in Conns, table[e] # None PROVE Alive(table[e])'
      <4>1. table[e] \in Requests /\ Of(table[e]) = e /\ Alive(table[e])
        BY <1>1, <3>6
      <4>2. table[e] \notin gone
        BY <3>4, <4>1
      <4> QED
        BY <3>1, <4>1, <4>2 DEF Alive
    <3>7. ASSUME NEW q \in Requests, Alive(q)' PROVE table[Of(q)] = q \/ HeldByWorker(q)'
      <4>1. Alive(q) /\ q \notin gone
        BY <3>1, <3>7 DEF Alive
      <4> QED
        BY <1>1, <3>2, <3>5, <4>1
    <3> QED
      BY <1>1, <3>1, <3>6, <3>7 DEF TableInv
  <2> QED
    BY <1>7, <2>1, <2>2, <2>3, <2>4, <2>5, <2>6 DEF WorkerStep
<1>8. CASE /\ UNCHANGED <<table, worker>>
           /\ \E q \in Requests :
                \/ client' = [client EXCEPT ![q] = "settling"] /\ client[q] = "armed"
                \/ client' = [client EXCEPT ![q] = "ended"] /\ client[q] = "linked"
  BY <1>4, <1>8 DEF Alive, Stages
<1> QED
  BY <1>3, <1>5, <1>6, <1>7, <1>8, TableFrame

-----------------------------------------------------------------------------
\* The theorems

\* The inductive invariant holds in every reachable state.
LEMMA GatewayInvariance == Spec => []IInv
<1>1. IInv /\ [Next]_vars => IInv'
  BY TypeStep, HandsStep, OnceStep, StageStep, ChunksStep, TableStep DEF IInv
<1> QED
  BY InitIInv, <1>1, PTL DEF Spec

\* Type correctness of the gateway's state.
THEOREM GatewayTypeCorrect == Spec => []TypeOK
  BY GatewayInvariance, PTL DEF IInv

\* A request is answered from one side only, whatever its connect, its backend
\* and its client do and however many pieces the reply has: by the gateway, once,
\* or by its backend, each chunk passed on at most once; for any number of
\* connections and workers.
THEOREM OneSideAnswers == Spec => []AnsweredByOne
<1>1. ASSUME IInv, NEW r \in Requests
      PROVE  own[r] <= 1 /\ (own[r] > 0 => passed[r] = 0) /\ passed[r] <= replied[r]
  <2>1. RequestStage(r) /\ TypeOK /\ HandsInv /\ ChunksInv
    BY <1>1 DEF IInv, StageInv
  <2>2. passed[r] \in Nat /\ passed[r] <= replied[r]
    BY <2>1, ChunksBound
  <2> QED
    BY <2>1, <2>2 DEF RequestStage
<1>2. IInv => AnsweredByOne
  BY <1>1 DEF AnsweredByOne
<1> QED
  BY GatewayInvariance, <1>2, PTL

\* One TcpClient per connection besides those in workers' hands, however many
\* requests the connection sends: upstream_clients_ leaks none.
THEOREM OneClientEach == Spec => []ClientsBounded
<1>1. ASSUME IInv, NEW d \in Conns
      PROVE  Cardinality({r \in Requests : Of(r) = d /\ Alive(r) /\ ~HeldByWorker(r)}) <= 1
  <2> DEFINE S == {r \in Requests : Of(r) = d /\ Alive(r) /\ ~HeldByWorker(r)}
  <2>1. S \subseteq {table[d]}
    BY <1>1 DEF IInv, TableInv
  <2>2. IsFiniteSet({table[d]}) /\ Cardinality({table[d]}) = 1
    BY FS_Singleton
  <2> HIDE DEF S
  <2>3. Cardinality(S) <= 1
    BY <2>1, <2>2, FS_Subset
  <2> QED
    BY <2>3 DEF S
<1>2. IInv => ClientsBounded
  BY <1>1 DEF ClientsBounded
<1> QED
  BY GatewayInvariance, <1>2, PTL

\* So the gateway as a whole has one TcpClient, with its socket, for each client
\* connection and each worker at most, a bound on its descriptors that its
\* traffic does not change.
THEOREM ClientsInTotal ==
  ASSUME IsFiniteSet(Conns), IsFiniteSet(Workers)
  PROVE  Spec => [](Cardinality({r \in Requests : Alive(r)})
                      <= Cardinality(Conns) + Cardinality(Workers))
<1> DEFINE Total == Cardinality({r \in Requests : Alive(r)})
                      <= Cardinality(Conns) + Cardinality(Workers)
<1>1. ASSUME IInv PROVE Total
  <2> DEFINE reqOf == [w \in Workers |-> worker[w].req]
             T == {table[d] : d \in Conns}
             H == {reqOf[w] : w \in Workers}
             S == {r \in Requests : Alive(r)}
  <2>1. IsFiniteSet(T) /\ Cardinality(T) <= Cardinality(Conns)
    <3>1. table \in Surjection(Conns, T)
      BY <1>1 DEF IInv, TypeOK, Surjection
    <3> HIDE DEF T
    <3> QED
      BY <3>1, FS_Surjection
  <2>2. IsFiniteSet(H) /\ Cardinality(H) <= Cardinality(Workers)
    <3>1. reqOf \in Surjection(Workers, H)
      BY DEF Surjection
    <3> HIDE DEF H, reqOf
    <3> QED
      BY <3>1, FS_Surjection
  <2>3. S \subseteq T \cup H
    <3>1. ASSUME NEW r \in S PROVE r \in T \cup H
      <4>1. r \in Requests /\ Of(r) \in Conns /\ (table[Of(r)] = r \/ HeldByWorker(r))
        BY <1>1, RequestType DEF IInv, TableInv
      <4> QED
        BY <4>1 DEF HeldByWorker
    <3> QED
      BY <3>1
  <2> HIDE DEF T, H, S
  <2>4. /\ IsFiniteSet(T \cup H)
        /\ Cardinality(T \cup H) = Cardinality(T) + Cardinality(H) - Cardinality(T \cap H)
    BY <2>1, <2>2, FS_Union
  <2>5. IsFiniteSet(T \cap H)
    BY <2>1, FS_Intersection
  <2>6. Cardinality(S) <= Cardinality(T \cup H) /\ IsFiniteSet(S)
    BY <2>3, <2>4, FS_Subset
  <2>7. /\ Cardinality(T) \in Nat /\ Cardinality(H) \in Nat /\ Cardinality(T \cap H) \in Nat
        /\ Cardinality(T \cup H) \in Nat /\ Cardinality(S) \in Nat
        /\ Cardinality(Conns) \in Nat /\ Cardinality(Workers) \in Nat
    BY <2>1, <2>2, <2>4, <2>5, <2>6, FS_CardinalityType
  <2>8. Cardinality(S) <= Cardinality(Conns) + Cardinality(Workers)
    BY <2>1, <2>2, <2>4, <2>6, <2>7
  <2> QED
    BY <2>8 DEF S
<1>2. IInv => Total
  BY <1>1
<1> QED
  BY GatewayInvariance, <1>2, PTL

\* Once a request was replaced in upstream_clients_ no callback of its TcpClient
\* starts, so that it gets no answer more than the one under way: the answer of
\* a backend overtakes a later request by one chunk at most.
THEOREM ReplacedGetsNoMore == Spec => ReplacedFallsSilent
<1> DEFINE A(r) == table[Of(r)] # r /\ ~HeldByWorker(r) /\ ~InCallback(r) =>
                     ~InCallback(r)' /\ UNCHANGED <<own[r], passed[r]>>
<1>1. ASSUME IInv, [Next]_vars, NEW r \in Requests,
             table[Of(r)] # r, ~HeldByWorker(r), ~InCallback(r)
      PROVE  ~InCallback(r)' /\ UNCHANGED <<own[r], passed[r]>>
  <2>0. ~Alive(r)
    BY <1>1 DEF IInv, TableInv
  <2>1. CASE UNCHANGED <<io, own, passed>>
    BY <1>1, <2>1 DEF InCallback
  <2>2. CASE UNCHANGED <<own, passed>> /\ io'.at \notin {"fail", "send"}
    BY <2>2 DEF InCallback
  <2>3. CASE ConnectFails \/ PickChunk
    <3>1. io.on # r /\ UNCHANGED <<own, passed>> /\ io'.on = io.on
      <4>1. ASSUME io.on = r PROVE FALSE
        <5>1. client[r] = "none"
          BY <2>0, <2>3, <4>1 DEF ConnectFails, PickChunk, Alive
        <5> QED
          BY <1>1, <2>3, <4>1, <5>1 DEF ConnectFails, PickChunk, IInv, StageInv, IoStage
      <4> QED
        BY <2>3, <4>1 DEF ConnectFails, PickChunk, IoAt, answers
    <3> QED
      BY <3>1 DEF InCallback
  <2>4. CASE OnUpstreamError \/ OnUpstreamMessage
    <3>1. io.on # r /\ io'.at \notin {"fail", "send"}
      BY <1>1, <2>4 DEF OnUpstreamError, OnUpstreamMessage, InCallback, IoAt, Looping
    <3>2. own'[r] = own[r] /\ passed'[r] = passed[r]
      BY <1>1, <2>4, <3>1 DEF OnUpstreamError, OnUpstreamMessage, Answer, Sent, IInv, TypeOK
    <3> QED
      BY <3>1, <3>2 DEF InCallback
  <2>5. CASE IoStep
    <3>1. CASE \/ \E d \in Conns : ReadClient(d) \/ ClientClosed(d)
               \/ HandleMessage \/ PickEnd \/ HandleClose
               \/ \E q \in Requests : ConnectEvent(q) \/ ReadBackend(q)
               \/ OnUpstreamConnected
      BY <2>2, <3>1 DEF ReadClient, ClientClosed, HandleMessage, PickEnd, HandleClose, ConnectEvent,
         ReadBackend, OnUpstreamConnected, IoAt, Looping, answers
    <3>2. CASE \/ EpollWait \/ ConnectWorks \/ TouchesDestroyed \/ EventTooEarly
               \/ \E q \in Requests : BackendClosed(q)
      BY <2>1, <3>2 DEF EpollWait, ConnectWorks, TouchesDestroyed, EventTooEarly, Die, BackendClosed,
         answers
    <3> QED
      BY <2>3, <2>4, <2>5, <3>1, <3>2 DEF IoStep
  <2>6. ASSUME NEW w \in Workers, WorkerStep(w) PROVE io' = io /\ UNCHANGED <<own[r], passed[r]>>
    <3>1. CASE Reject(w) \/ FailAtOnce(w)
      <4>1. worker[w].req # r
        BY <1>1 DEF HeldByWorker
      <4> QED
        BY <1>1, <3>1, <4>1 DEF Reject, FailAtOnce, Answer, Sent, IInv, TypeOK
    <3> QED
      BY <2>6, <3>1 DEF WorkerStep, TakeJob, Insert, Connect, LinkAtOnce, Registered, Leave, answers
  <2>7. CASE PeerStep \/ (\E q \in Requests : BackendStep(q)) \/ Halted \/ AllServed
             \/ UNCHANGED vars
    BY <2>1, <2>7 DEF PeerStep, PeerAsks, PeerCloses, BackendStep, ConnectSettles, BackendReplies,
       BackendCloses, Halted, AllServed, vars, answers
  <2> QED
    BY <1>1, <2>5, <2>6, <2>7 DEF Next, InCallback
<1>2. IInv /\ [Next]_vars => \A r \in Requests : A(r)
  BY <1>1
<1> QED
  BY GatewayInvariance, <1>2, PTL DEF Spec, ReplacedFallsSilent

================================================================================
