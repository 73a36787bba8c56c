-------------------------------- MODULE Gateway --------------------------------
(***************************************************************************)
(* GatewayServer and TcpClient: a request of a client connection is        *)
(* rejected, or forwarded over a TcpClient of its own that lives in        *)
(* upstream_clients_, one per client connection.                           *)
(*                                                                         *)
(* Of the framework the module keeps one loop with its epoll batches (a    *)
(* TcpClient runs on the loop of its client connection) and the disconnect_ *)
(* test of send().  upstream_clients_ is keyed by descriptor; an entry's   *)
(* callbacks hold the client connection, so its descriptor is not reused   *)
(* while the entry exists and a key stands for one connection.             *)
(***************************************************************************)
EXTENDS Integers, Sequences, FiniteSets

CONSTANTS Conns,    \* client connections
          MaxReq,   \* bound: requests of one connection
          MaxChunks, \* bound: pieces of one reply that end in the separator
          Workers,  \* threads of threadpool_
          None

ASSUME MaxReqAssumption == MaxReq \in Nat
ASSUME MaxChunksAssumption == MaxChunks \in Nat

\* The n-th request of a connection names the TcpClient made for it, too.
Requests == Conns \X (1 .. MaxReq)
ASSUME NoneAssumption == None \notin Conns \cup Requests

Of(r) == r[1]

VARIABLES
  proc,    \* "up", "exited", or "ub" once a destroyed object was used
  down,    \* client connections: "closing" once disconnect_ is set
  asked,   \* requests the peer has sent
  picked,  \* requests picked from the connection
  fin,     \* connections whose peer closed
  jobs,    \* OnMessage calls queued in threadpool_
  worker,  \* where each worker is in OnMessage
  table,   \* upstream_clients_
  client,  \* what each TcpClient is
  replied, \* chunks each backend has sent,
  inbox,   \* and those of them the gateway has not read
  hung,    \* backends that closed their connection
  own,     \* answers to a request by the gateway: 400, 404, 429, 502
  passed,  \* chunks of its backend passed on
  ready,   \* epoll's ready list
  batch,   \* events epoll_wait returned, not handled yet
  io       \* where the IO thread is

peerVars == <<asked, fin>>
netVars == <<replied, inbox, hung>>
answers == <<own, passed>>
vars == <<proc, down, asked, picked, fin, jobs, worker, table, client,
          replied, inbox, hung, own, passed, ready, batch, io>>

Stages == {"none", "made", "armed", "settling", "linked", "failed", "refused",
           "ended", "gone"}
Alive(r) == client[r] \notin {"none", "gone"}

WorkerSteps == {"rest", "check", "connect", "settle", "register", "leave"}
IoSteps == {"loop", "pick", "erase", "write", "fail", "read", "send"}
WorkerAt(step, r) == [at |-> step, req |-> r]
Resting == WorkerAt("rest", None)
IoAt(step, x, n) == [at |-> step, on |-> x, left |-> n]
Looping == IoAt("loop", None, 0)

TypeOK ==
    /\ proc \in {"up", "exited", "ub"}
    /\ down \in [Conns -> {"open", "closing", "closed"}]
    /\ asked \in [Conns -> 0 .. MaxReq]
    /\ picked \in [Conns -> 0 .. MaxReq]
    /\ \A d \in Conns : picked[d] <= asked[d]
    /\ fin \subseteq Conns
    /\ jobs \in Seq(Requests)
    /\ worker \in [Workers -> [at : WorkerSteps, req : Requests \cup {None}]]
    /\ table \in [Conns -> Requests \cup {None}]
    /\ client \in [Requests -> Stages]
    /\ replied \in [Requests -> 0 .. MaxChunks]
    /\ inbox \in [Requests -> 0 .. MaxChunks]
    /\ hung \subseteq Requests
    /\ own \in [Requests -> Nat] /\ passed \in [Requests -> Nat]
    /\ ready \subseteq Conns \cup Requests
    /\ batch \subseteq Conns \cup Requests
    /\ io \in [at : IoSteps, on : Conns \cup Requests \cup {None}, left : Nat]

Init ==
    /\ proc = "up"
    /\ down = [d \in Conns |-> "open"]
    /\ asked = [d \in Conns |-> 0] /\ picked = [d \in Conns |-> 0]
    /\ fin = {}
    /\ jobs = <<>>
    /\ worker = [w \in Workers |-> Resting]
    /\ table = [d \in Conns |-> None]
    /\ client = [r \in Requests |-> "none"]
    /\ replied = [r \in Requests |-> 0] /\ inbox = [r \in Requests |-> 0]
    /\ hung = {}
    /\ own = [r \in Requests |-> 0] /\ passed = [r \in Requests |-> 0]
    /\ ready = {} /\ batch = {}
    /\ io = Looping

Up == proc = "up" /\ proc' = "up"

Die(how) ==
    /\ proc = "up" /\ proc' = how
    /\ UNCHANGED <<down, peerVars, picked, jobs, worker, table, client, netVars,
                   answers, ready, batch, io>>

\* conn->send: nothing once disconnect_ is set.
Sent(count, r) == [count EXCEPT ![r] = IF down[Of(r)] = "open" THEN @ + 1 ELSE @]
Answer(r) == own' = Sent(own, r) /\ passed' = passed

\* A worker has put a channel of r in the tree, and is not done with it.
Registering(r) == \E w \in Workers : worker[w] = WorkerAt("register", r)

\* handlewrite, which ends with the request being sent, has not returned.
Connecting(r) == Registering(r) \/ (io.at = "write" /\ io.on = r)

-----------------------------------------------------------------------------
\* The clients and the backends

PeerAsks(d) ==
    /\ Up
    /\ down[d] = "open" /\ d \notin fin /\ asked[d] < MaxReq
    /\ asked' = [asked EXCEPT ![d] = @ + 1]
    /\ ready' = ready \cup {d}
    /\ UNCHANGED <<down, picked, fin, jobs, worker, table, client, netVars,
                   answers, batch, io>>

PeerCloses(d) ==
    /\ Up
    /\ down[d] = "open" /\ d \notin fin
    /\ fin' = fin \cup {d}
    /\ ready' = ready \cup {d}
    /\ UNCHANGED <<down, asked, picked, jobs, worker, table, client, netVars,
                   answers, batch, io>>

\* A connect in progress ends, one way or the other.
ConnectSettles(r) ==
    /\ Up
    /\ client[r] = "armed" /\ r \notin ready \cup batch
    /\ ready' = ready \cup {r}
    /\ UNCHANGED <<down, peerVars, picked, jobs, worker, table, client, netVars,
                   answers, batch, io>>

\* A backend sends one more piece of its reply, up to a separator: headers, or
\* a body that holds one.
BackendReplies(r) ==
    /\ Up
    /\ client[r] = "linked" /\ ~Connecting(r) /\ r \notin hung
    /\ replied[r] < MaxChunks
    /\ replied' = [replied EXCEPT ![r] = @ + 1]
    /\ inbox' = [inbox EXCEPT ![r] = @ + 1]
    /\ ready' = ready \cup {r}
    /\ UNCHANGED <<down, peerVars, picked, jobs, worker, table, client, hung,
                   answers, batch, io>>

BackendCloses(r) ==
    /\ Up
    /\ client[r] = "linked" /\ r \notin hung
    /\ hung' = hung \cup {r}
    /\ ready' = ready \cup {r}
    /\ UNCHANGED <<down, peerVars, picked, jobs, worker, table, client, replied,
                   inbox, answers, batch, io>>

-----------------------------------------------------------------------------
\* Workers: GatewayServer::OnMessage

TakeJob(w) ==
    /\ Up
    /\ worker[w].at = "rest" /\ jobs # <<>>
    /\ worker' = [worker EXCEPT ![w] = WorkerAt("check", Head(jobs))]
    /\ jobs' = Tail(jobs)
    /\ UNCHANGED <<down, peerVars, picked, table, client, netVars, answers,
                   ready, batch, io>>

\* The parser, a filter or the router says no: 400, 429 or 404.
Reject(w) ==
    /\ Up
    /\ worker[w].at = "check"
    /\ Answer(worker[w].req)
    /\ worker' = [worker EXCEPT ![w] = Resting]
    /\ UNCHANGED <<down, peerVars, picked, jobs, table, client, netVars, ready,
                   batch, io>>

\* The shared_ptr of a worker that is not done with its TcpClient
HeldByWorker(r) == \E w \in Workers : worker[w].req = r

\* Mutant: the table keeps every TcpClient it ever had.
InsertKeepsOld(w) ==
    LET r == worker[w].req
    IN  /\ Up
        /\ worker[w].at = "check"
        /\ table' = [table EXCEPT ![Of(r)] = r]
        /\ client' = [client EXCEPT ![r] = "made"]
        /\ worker' = [worker EXCEPT ![w].at = "connect"]
        /\ UNCHANGED <<down, peerVars, picked, jobs, netVars, answers, ready, batch, io>>

\* A TcpClient is made and put in upstream_clients_; the one that was there
\* is destroyed with its sockets unless its worker still holds it.
Insert(w) ==
    LET r == worker[w].req
        gone == {old \in {table[Of(r)]} \ {None} : ~HeldByWorker(old)}
    IN  /\ Up
        /\ worker[w].at = "check"
        /\ table' = [table EXCEPT ![Of(r)] = r]
        /\ client' = [q \in Requests |-> IF q = r THEN "made"
                                         ELSE IF q \in gone THEN "gone" ELSE client[q]]
        /\ ready' = ready \ gone
        /\ worker' = [worker EXCEPT ![w].at = "connect"]
        /\ UNCHANGED <<down, peerVars, picked, jobs, netVars, answers, batch, io>>

\* Mutant: enablewriting is forgotten.
ConnectUnwatched(w) ==
    /\ Up
    /\ worker[w].at = "connect"
    /\ client' = [client EXCEPT ![worker[w].req] = "settling"]
    /\ worker' = [worker EXCEPT ![w].at = "leave"]
    /\ UNCHANGED <<down, peerVars, picked, jobs, table, netVars, answers, ready,
                   batch, io>>

\* TcpClient::connect: in progress, so that EPOLL_CTL_ADD watches it; done at
\* once, so that handlewrite is called here; or an error nobody is told of.
Connect(w) ==
    /\ Up
    /\ worker[w].at = "connect"
    /\ \E how \in {<<"armed", "register">>, <<"settling", "settle">>,
                    <<"refused", "leave">>} :
         /\ client' = [client EXCEPT ![worker[w].req] = how[1]]
         /\ worker' = [worker EXCEPT ![w].at = how[2]]
    /\ UNCHANGED <<down, peerVars, picked, jobs, table, netVars, answers, ready,
                   batch, io>>

\* handlewrite in the worker: an error, and 502, ...
FailAtOnce(w) ==
    /\ Up
    /\ worker[w].at = "settle"
    /\ client' = [client EXCEPT ![worker[w].req] = "failed"]
    /\ Answer(worker[w].req)
    /\ worker' = [worker EXCEPT ![w].at = "leave"]
    /\ UNCHANGED <<down, peerVars, picked, jobs, table, netVars, ready, batch, io>>

\* ... or a Connection, whose constructor puts its channel in the tree.
LinkAtOnce(w) ==
    /\ Up
    /\ worker[w].at = "settle"
    /\ client' = [client EXCEPT ![worker[w].req] = "linked"]
    /\ worker' = [worker EXCEPT ![w].at = "register"]
    /\ UNCHANGED <<down, peerVars, picked, jobs, table, netVars, answers, ready,
                   batch, io>>

\* setinepoll, or the callbacks of the new Connection and the request.
Registered(w) ==
    /\ Up
    /\ worker[w].at = "register"
    /\ worker' = [worker EXCEPT ![w].at = "leave"]
    /\ UNCHANGED <<down, peerVars, picked, jobs, table, client, netVars, answers,
                   ready, batch, io>>

\* OnMessage returns; its shared_ptr may have been the last one.
Leave(w) ==
    LET r == worker[w].req
        gone == IF table[Of(r)] = r THEN {} ELSE {r}
    IN  /\ Up
        /\ worker[w].at = "leave"
        /\ client' = [q \in Requests |-> IF q \in gone THEN "gone" ELSE client[q]]
        /\ ready' = ready \ gone
        /\ worker' = [worker EXCEPT ![w] = Resting]
        /\ UNCHANGED <<down, peerVars, picked, jobs, table, netVars, answers,
                       batch, io>>

-----------------------------------------------------------------------------
\* The IO thread

EpollWait ==
    /\ Up
    /\ io = Looping /\ batch = {} /\ ready # {}
    /\ batch' = ready /\ ready' = {}
    /\ UNCHANGED <<down, peerVars, picked, jobs, worker, table, client, netVars,
                   answers, io>>

Handles(x) == Up /\ io = Looping /\ x \in batch /\ batch' = batch \ {x}

\* Connection::onmessage of a client: all it has sent is read, ...
ReadClient(d) ==
    /\ Handles(d) /\ d \notin fin
    /\ io' = IoAt("pick", d, asked[d] - picked[d])
    /\ UNCHANGED <<down, peerVars, picked, jobs, worker, table, client, netVars,
                   answers, ready>>

\* Mutant: pickmessage finds the last request a second time.
HandleMessageTwice ==
    LET d == io.on
    IN  /\ Up
        /\ io.at = "pick"
        /\ picked' = [picked EXCEPT ![d] = @ + 1]
        /\ jobs' = Append(jobs, <<d, picked[d] + 1>>)
        /\ io' = IF io.left = 0 THEN Looping ELSE IoAt("pick", d, io.left - 1)
        /\ UNCHANGED <<down, peerVars, worker, table, client, netVars, answers,
                       ready, batch>>

\* ... and each request picked is queued: HandleMessage.
HandleMessage ==
    LET d == io.on
    IN  /\ Up
        /\ io.at = "pick" /\ io.left > 0
        /\ picked' = [picked EXCEPT ![d] = @ + 1]
        /\ jobs' = Append(jobs, <<d, picked[d] + 1>>)
        /\ io' = IoAt("pick", d, io.left - 1)
        /\ UNCHANGED <<down, peerVars, worker, table, client, netVars, answers,
                       ready, batch>>

\* onmessage has nothing left to pick.
PickEnd ==
    /\ Up
    /\ \/ io.at = "pick"
       \/ io.at = "read" /\ client[io.on] # "gone"
    /\ io.left = 0
    /\ io' = Looping
    /\ UNCHANGED <<down, peerVars, picked, jobs, worker, table, client, netVars,
                   answers, ready, batch>>

\* The end of the stream: disconnect_, and the channel leaves the tree.
ClientClosed(d) ==
    /\ Handles(d) /\ d \in fin
    /\ down' = [down EXCEPT ![d] = "closing"]
    /\ ready' = ready \ {d}
    /\ io' = IoAt("erase", d, 0)
    /\ UNCHANGED <<peerVars, picked, jobs, worker, table, client, netVars, answers>>

\* HandleClose erases the TcpClient.
HandleClose ==
    LET d == io.on
        gone == {old \in {table[d]} \ {None} : ~HeldByWorker(old)}
    IN  /\ Up
        /\ io.at = "erase"
        /\ down' = [down EXCEPT ![d] = "closed"]
        /\ table' = [table EXCEPT ![d] = None]
        /\ client' = [q \in Requests |-> IF q \in gone THEN "gone" ELSE client[q]]
        /\ ready' = ready \ gone
        /\ io' = Looping
        /\ UNCHANGED <<peerVars, picked, jobs, worker, netVars, answers, batch>>

\* TcpClient::handlewrite takes the channel off the tree ...
ConnectEvent(r) ==
    /\ Handles(r) /\ client[r] = "armed" /\ ~Registering(r)
    /\ client' = [client EXCEPT ![r] = "settling"]
    /\ io' = IoAt("write", r, 0)
    /\ UNCHANGED <<down, peerVars, picked, jobs, worker, table, netVars, answers,
                   ready>>

\* Mutant: ... but leaves it there.
ConnectFailsAgain ==
    /\ Up
    /\ io.at = "write" /\ client[io.on] = "settling"
    /\ own[io.on] < 2
    /\ client' = [client EXCEPT ![io.on] = "armed"]
    /\ io' = IoAt("fail", io.on, 0)
    /\ UNCHANGED <<down, peerVars, picked, jobs, worker, table, netVars, answers,
                   ready, batch>>

\* ... and finds an error, ...
ConnectFails ==
    /\ Up
    /\ io.at = "write" /\ client[io.on] = "settling"
    /\ client' = [client EXCEPT ![io.on] = "failed"]
    /\ io' = IoAt("fail", io.on, 0)
    /\ UNCHANGED <<down, peerVars, picked, jobs, worker, table, netVars, answers,
                   ready, batch>>

\* ... so that OnUpstreamError, once called, sends a 502, whatever happens to the
\* TcpClient meanwhile, ...
OnUpstreamError ==
    /\ Up
    /\ io.at = "fail"
    /\ Answer(io.on)
    /\ io' = Looping
    /\ UNCHANGED <<down, peerVars, picked, jobs, worker, table, client, netVars,
                   ready, batch>>

\* ... or finds none, and makes a Connection, ...
ConnectWorks ==
    /\ Up
    /\ io.at = "write" /\ client[io.on] = "settling"
    /\ client' = [client EXCEPT ![io.on] = "linked"]
    /\ UNCHANGED <<down, peerVars, picked, jobs, worker, table, netVars, answers,
                   ready, batch, io>>

\* ... over which OnUpstreamConnected sends the request.
OnUpstreamConnected ==
    /\ Up
    /\ io.at = "write" /\ client[io.on] = "linked"
    /\ io' = Looping
    /\ UNCHANGED <<down, peerVars, picked, jobs, worker, table, client, netVars,
                   answers, ready, batch>>

\* Connection::onmessage of a backend reads what there is ...
ReadBackend(r) ==
    /\ Handles(r) /\ client[r] = "linked" /\ r \notin hung
    /\ inbox' = [inbox EXCEPT ![r] = 0]
    /\ io' = IoAt("read", r, inbox[r])
    /\ UNCHANGED <<down, peerVars, picked, jobs, worker, table, client, replied,
                   hung, answers, ready>>

\* ... and picks a chunk; the callback gets shared_from_this(), ...
PickChunk ==
    /\ Up
    /\ io.at = "read" /\ client[io.on] # "gone" /\ io.left > 0
    /\ io' = IoAt("send", io.on, io.left)
    /\ UNCHANGED <<down, peerVars, picked, jobs, worker, table, client, netVars,
                   answers, ready, batch>>

\* ... so that OnUpstreamMessage passes it on even if the TcpClient is destroyed
\* meanwhile.
OnUpstreamMessage ==
    /\ Up
    /\ io.at = "send"
    /\ passed' = Sent(passed, io.on) /\ own' = own
    /\ io' = IoAt("read", io.on, io.left - 1)
    /\ UNCHANGED <<down, peerVars, picked, jobs, worker, table, client, netVars,
                   ready, batch>>

\* The end of the backend's stream: chunks read with it are not picked, and
\* OnUpstreamClose does nothing.
BackendClosed(r) ==
    /\ Handles(r) /\ client[r] = "linked" /\ ~Registering(r) /\ r \in hung
    /\ inbox' = [inbox EXCEPT ![r] = 0]
    /\ client' = [client EXCEPT ![r] = "ended"]
    /\ ready' = ready \ {r}
    /\ UNCHANGED <<down, peerVars, picked, jobs, worker, table, replied, hung,
                   answers, io>>

\* The TcpClient was destroyed, by HandleClose or by a worker's Insert, between
\* epoll_wait and its event, or while handlewrite or onmessage has more to do.
TouchesDestroyed ==
    /\ \/ io = Looping /\ \E r \in Requests \cap batch : client[r] = "gone"
       \/ io.at \in {"write", "read"} /\ client[io.on] = "gone"
    /\ Die("ub")

\* An event of a channel that a worker is not done with: handlewrite finds
\* inepoll_ unset and a second EPOLL_CTL_ADD fails, or a callback is not there.
EventTooEarly ==
    /\ io = Looping
    /\ \E w \in Workers :
         LET r == worker[w].req
         IN  \/ worker[w].at = "register" /\ r \in batch
                /\ (client[r] = "armed" \/ r \in hung)
            \/ worker[w].at = "settle"
    /\ Die("exited")

-----------------------------------------------------------------------------
PeerStep == \E d \in Conns : PeerAsks(d) \/ PeerCloses(d)
BackendStep(r) == ConnectSettles(r) \/ BackendReplies(r) \/ BackendCloses(r)
WorkerStep(w) ==
    \/ TakeJob(w) \/ Reject(w) \/ Insert(w) \/ Connect(w)
    \/ FailAtOnce(w) \/ LinkAtOnce(w) \/ Registered(w) \/ Leave(w)
IoStep ==
    \/ EpollWait
    \/ \E d \in Conns : ReadClient(d) \/ ClientClosed(d)
    \/ HandleMessage \/ PickEnd \/ HandleClose
    \/ \E r \in Requests : ConnectEvent(r) \/ ReadBackend(r) \/ BackendClosed(r)
    \/ ConnectFails \/ OnUpstreamError \/ ConnectWorks \/ OnUpstreamConnected
    \/ PickChunk \/ OnUpstreamMessage
    \/ TouchesDestroyed \/ EventTooEarly

Halted == proc # "up" /\ UNCHANGED vars

\* Every client has gone and every thread rests.
AllServed ==
    /\ proc = "up" /\ \A d \in Conns : down[d] = "closed"
    /\ jobs = <<>> /\ batch = {} /\ io = Looping
    /\ \A w \in Workers : worker[w] = Resting
    /\ UNCHANGED vars

Next ==
    \/ PeerStep \/ IoStep
    \/ \E r \in Requests : BackendStep(r)
    \/ \E w \in Workers : WorkerStep(w)
    \/ Halted \/ AllServed

Spec == Init /\ [][Next]_vars

\* Runnable threads run; the kernel ends each connect, and each backend
\* replies or closes.
Fairness ==
    /\ WF_vars(IoStep)
    /\ \A w \in Workers : WF_vars(WorkerStep(w))
    /\ \A r \in Requests : WF_vars(BackendStep(r))

FairSpec == Spec /\ Fairness

-----------------------------------------------------------------------------
\* Safety

\* A request is answered from one side only: by the gateway, once, or by its
\* backend, and then with no chunk that it did not send or that was passed on
\* before.  (A reply that holds the separator more than once is passed on as
\* so many answers.)
AnsweredByOne ==
    \A r \in Requests :
        /\ own[r] <= 1
        /\ own[r] > 0 => passed[r] = 0
        /\ passed[r] <= replied[r]

\* A connection has at most one TcpClient, with its sockets, besides those that
\* workers are still handling, however many requests it sends.
ClientsBounded ==
    \A d \in Conns :
        Cardinality({r \in Requests : Of(r) = d /\ Alive(r) /\ ~HeldByWorker(r)}) <= 1

\* OnUpstreamMessage or OnUpstreamError runs for r.
InCallback(r) == io.at \in {"fail", "send"} /\ io.on = r

\* Once a later request of the same connection has taken the place of r in
\* upstream_clients_, or the client has gone, r is answered no more, but for the
\* one chunk or 502 whose callback is under way: no other callback starts.
ReplacedFallsSilent ==
    [][\A r \in Requests :
         table[Of(r)] # r /\ ~HeldByWorker(r) /\ ~InCallback(r) =>
           ~InCallback(r)' /\ UNCHANGED <<own[r], passed[r]>>]_vars

-----------------------------------------------------------------------------
\* The inductive invariant behind the safety properties

\* What each thread has in hand: a worker a request, the IO thread a client
\* connection, a TcpClient or nothing.
HandsInv ==
    /\ \A w \in Workers : worker[w].at = "rest" <=> worker[w].req = None
    /\ io.at = "loop" <=> io = Looping
    /\ io.at \in {"pick", "erase"} => io.on \in Conns
    /\ io.at = "pick" => picked[io.on] + io.left <= asked[io.on]
    /\ io.at \in {"write", "fail", "read", "send"} => io.on \in Requests
    /\ io.at = "send" => io.left > 0

\* A request is in one place: not picked, or queued once, or with one worker.
Picked(r) == r[2] <= picked[Of(r)]
Queued(r) == \E i \in DOMAIN jobs : jobs[i] = r
OncePerRequest ==
    /\ \A i, j \in DOMAIN jobs : jobs[i] = jobs[j] => i = j
    /\ \A w, v \in Workers : worker[w].req = worker[v].req => w = v \/ worker[w] = Resting
    /\ \A r \in Requests : Queued(r) => Picked(r) /\ ~HeldByWorker(r)
    /\ \A r \in Requests : HeldByWorker(r) => Picked(r)

\* How far a request is tells what its TcpClient and its answers can be.
RequestStage(r) ==
    /\ ~Picked(r) \/ Queued(r) => client[r] = "none" /\ own[r] = 0
    /\ client[r] \in {"made", "armed", "settling", "linked", "ended"} => own[r] = 0
    /\ client[r] \notin {"linked", "ended", "gone"} => replied[r] = 0
    /\ own[r] <= 1 /\ (own[r] > 0 => replied[r] = 0)
WorkerStage(w) ==
    LET r == worker[w].req
    IN  /\ worker[w].at = "check" => client[r] = "none" /\ own[r] = 0
        /\ worker[w].at = "connect" => client[r] = "made"
        /\ worker[w].at = "settle" =>
             client[r] = "settling" /\ ~(io.at = "write" /\ io.on = r)
        /\ worker[w].at \in {"register", "leave"} => client[r] \notin {"none", "made", "gone"}
IoStage ==
    /\ io.at = "write" => client[io.on] \in {"settling", "linked", "gone"}
    /\ io.at = "fail" => /\ client[io.on] \in {"failed", "gone"}
                         /\ own[io.on] = 0 /\ replied[io.on] = 0
    /\ io.at \in {"read", "send"} => client[io.on] \in {"linked", "gone"}
StageInv ==
    /\ \A r \in Requests : RequestStage(r)
    /\ \A w \in Workers : WorkerStage(w)
    /\ IoStage

\* A chunk is in one place: not read, with the IO thread, or passed on.
Reading(r) == IF io.at \in {"read", "send"} /\ io.on = r THEN io.left ELSE 0
ChunksInv == \A r \in Requests : passed[r] + Reading(r) + inbox[r] <= replied[r]

\* upstream_clients_ holds every TcpClient that no worker keeps alive.
TableInv ==
    /\ \A d \in Conns : table[d] # None => Of(table[d]) = d /\ Alive(table[d])
    /\ \A r \in Requests : Alive(r) => table[Of(r)] = r \/ HeldByWorker(r)

IInv == TypeOK /\ HandsInv /\ OncePerRequest /\ StageInv /\ ChunksInv /\ TableInv

-----------------------------------------------------------------------------
\* Liveness

\* A request that a worker takes is answered unless its client closes, its
\* connect is refused at once, its backend closes before a chunk is picked, its
\* TcpClient is destroyed for a later request, or the process ends.
AnsweredUnless ==
    \A r \in Requests :
        HeldByWorker(r) ~> \/ own[r] + passed[r] > 0 \/ down[Of(r)] # "open"
                           \/ client[r] \in {"refused", "ended", "gone"}
                           \/ proc # "up"
==============================================================================
