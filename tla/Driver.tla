------------------------------- MODULE Driver -------------------------------
(***************************************************************************)
(* The driver's program: DataSimulator makes a report from each answer of  *)
(* LLMService and writes it to the relay, or to the table offline_logs     *)
(* while there is no connection; OrderDatabase keeps the table.  All       *)
(* handlers run in one thread, so each is one step, but for onConnected:   *)
(* the program may be killed between its DELETE and its writes.  Reports   *)
(* are numbered in the order in which they are made.                       *)
(***************************************************************************)
EXTENDS Integers, SequencesExt

CONSTANT MaxReports  \* bound: reports the run makes

ASSUME MaxReportsAssumption == MaxReports \in Nat

Reports == 1 .. MaxReports

VARIABLES
  running,  \* m_isRunning
  socket,   \* state of m_tcpSocket
  dbOpen,   \* initDatabase() succeeded in this process
  asked,    \* answers of LLMService under way
  made,     \* reports made so far
  cache,    \* offline_logs, which outlives the process
  outbox,   \* written to m_tcpSocket, not yet taken by the kernel
  sent,     \* taken by the kernel
  resend,   \* offlineLogs of onConnected: read, deleted and not written yet
  undeleted, \* history: a DELETE FROM offline_logs has failed
  unread    \* history: a connection was made and the table not read

table == <<cache, undeleted, unread>>
wire == <<outbox, sent>>
vars == <<running, socket, dbOpen, asked, made, table, wire, resend>>

TypeOK ==
    /\ running \in BOOLEAN /\ dbOpen \in BOOLEAN /\ undeleted \in BOOLEAN
    /\ unread \in BOOLEAN
    /\ socket \in {"off", "connecting", "on", "closing"}
    /\ made \in 0 .. MaxReports /\ asked \in 0 .. MaxReports - made
    /\ {cache, outbox, sent, resend} \subseteq Seq(Reports)
    /\ outbox # <<>> => socket \in {"on", "closing"}
    /\ resend # <<>> => socket = "on" /\ outbox = <<>>

\* initDatabase() may fail; nobody looks.  Its results:
InitDatabase == BOOLEAN

\* The constructor, with the database as earlier processes left it.
Init ==
    /\ running = FALSE /\ socket = "off" /\ dbOpen \in InitDatabase
    /\ asked = 0 /\ made = 0 /\ undeleted = FALSE /\ unread = FALSE
    /\ cache = <<>> /\ outbox = <<>> /\ sent = <<>> /\ resend = <<>>

\* The thread is in no handler, and enters one that is a single step.
InEventLoop == resend = <<>> /\ resend' = <<>>

\* Bound: requests beyond MaxReports are not answered.
Ask == asked' = IF asked + made < MaxReports THEN asked + 1 ELSE asked

\* write() and flush(): the kernel takes all, a part or nothing.
Write(q) ==
    \E k \in 0 .. Len(q) :
        /\ sent' = sent \o SubSeq(q, 1, k)
        /\ outbox' = SubSeq(q, k + 1, Len(q))

\* insertOfflineLog may fail, and nobody looks.
InsertOfflineLog(r) ==
    \/ dbOpen /\ cache' = Append(cache, r)
    \/ UNCHANGED cache

\* The SELECT and the DELETE of getAndClearOfflineLogs.  Nobody looks whether
\* they work; bound: the DELETE fails once, the SELECT while all worked so far.
GetAndClearOfflineLogs ==
    \/ /\ dbOpen
       /\ resend' = cache
       /\ \/ cache' = <<>> /\ UNCHANGED undeleted
          \/ cache # <<>> /\ ~undeleted /\ undeleted' = TRUE /\ UNCHANGED cache
       /\ UNCHANGED unread
    \/ /\ ~dbOpen \/ ~unread
       /\ unread' = TRUE
       /\ UNCHANGED <<resend, cache, undeleted>>

-----------------------------------------------------------------------------
\* The driver

\* connectToHost() does nothing unless the socket is off; then generateData().
StartSimulation ==
    /\ InEventLoop
    /\ ~running /\ running' = TRUE
    /\ socket' = IF socket = "off" THEN "connecting" ELSE socket
    /\ Ask
    /\ UNCHANGED <<dbOpen, made, table, wire>>

\* A connection that is still being made is not given up.
StopSimulation ==
    /\ InEventLoop
    /\ running /\ running' = FALSE
    /\ socket' = IF socket = "on" THEN "closing" ELSE socket
    /\ UNCHANGED <<dbOpen, asked, made, table, wire>>

\* m_timer
GenerateData ==
    /\ InEventLoop
    /\ running /\ asked + made < MaxReports
    /\ Ask
    /\ UNCHANGED <<running, socket, dbOpen, made, table, wire>>

-----------------------------------------------------------------------------
\* The socket

\* Mutant: reports are read only while a simulation runs.
OnConnectedIfRunning ==
    /\ resend = <<>>
    /\ socket = "connecting" /\ socket' = "on"
    /\ IF running THEN GetAndClearOfflineLogs
       ELSE UNCHANGED <<resend, cache, undeleted, unread>>
    /\ UNCHANGED <<running, dbOpen, asked, made, wire>>

\* Mutant: clear the table first, send what is read from it then.
OnConnectedClearsFirst ==
    /\ resend = <<>>
    /\ socket = "connecting" /\ socket' = "on"
    /\ IF dbOpen THEN cache' = <<>> ELSE UNCHANGED cache
    /\ unread' = (unread \/ ~dbOpen)
    /\ UNCHANGED <<running, dbOpen, asked, made, wire, undeleted, resend>>

\* onConnected: the table is read and deleted, ...
OnConnected ==
    /\ resend = <<>>
    /\ socket = "connecting" /\ socket' = "on"
    /\ GetAndClearOfflineLogs
    /\ UNCHANGED <<running, dbOpen, asked, made, wire>>

\* ... then what was read is written to the socket.
ResendLogs ==
    /\ resend # <<>> /\ resend' = <<>>
    /\ Write(outbox \o resend)
    /\ UNCHANGED <<running, socket, dbOpen, asked, made, table>>

\* onErrorOccurred: no second attempt
ConnectFails ==
    /\ InEventLoop
    /\ socket = "connecting" /\ socket' = "off"
    /\ UNCHANGED <<running, dbOpen, asked, made, table, wire>>

\* The kernel takes more of the outbox.
SocketWrites ==
    /\ InEventLoop
    /\ outbox # <<>>
    /\ sent' = Append(sent, Head(outbox)) /\ outbox' = Tail(outbox)
    /\ UNCHANGED <<running, socket, dbOpen, asked, made, table>>

\* disconnectFromHost() is done once everything is written.
Closed ==
    /\ InEventLoop
    /\ socket = "closing" /\ outbox = <<>> /\ socket' = "off"
    /\ UNCHANGED <<running, dbOpen, asked, made, table, wire>>

\* The network or the relay goes; the outbox goes with it.  onDisconnected
\* does not connect again.
ConnectionLost ==
    /\ InEventLoop
    /\ socket \in {"on", "closing"} /\ socket' = "off"
    /\ outbox' = <<>>
    /\ UNCHANGED <<running, dbOpen, asked, made, table, sent>>

-----------------------------------------------------------------------------
\* Answers of LLMService, from the network or from generateFallbackData()

NextReport == made + 1

\* Mutant: a socket that is connecting takes the report, too.
OnDataReceivedEarly ==
    /\ InEventLoop
    /\ asked > 0
    /\ asked' = asked - 1 /\ made' = NextReport
    /\ IF socket \in {"on", "connecting"}
       THEN Write(Append(outbox, NextReport)) /\ UNCHANGED cache
       ELSE InsertOfflineLog(NextReport) /\ UNCHANGED wire
    /\ UNCHANGED <<running, socket, dbOpen, undeleted, unread>>

\* onLLMDataReceived, whether or not the simulation still runs.
OnDataReceived ==
    /\ InEventLoop
    /\ asked > 0
    /\ asked' = asked - 1 /\ made' = NextReport
    /\ IF socket = "on"
       THEN Write(Append(outbox, NextReport)) /\ UNCHANGED cache
       ELSE InsertOfflineLog(NextReport) /\ UNCHANGED wire
    /\ UNCHANGED <<running, socket, dbOpen, undeleted, unread>>

\* The program is killed, inside a handler too, or the page that owns the
\* simulator is left, and begins again.
Restart ==
    /\ running' = FALSE /\ socket' = "off" /\ dbOpen' \in InitDatabase
    /\ asked' = 0 /\ outbox' = <<>> /\ resend' = <<>>
    /\ UNCHANGED <<made, table, sent>>

-----------------------------------------------------------------------------
Next ==
    \/ StartSimulation \/ StopSimulation \/ GenerateData
    \/ OnConnected \/ ResendLogs \/ ConnectFails \/ SocketWrites \/ Closed \/ ConnectionLost
    \/ OnDataReceived \/ Restart

Spec == Init /\ [][Next]_vars

-----------------------------------------------------------------------------
\* Properties

\* A cached report leaves the program's hands, the table or the handler that
\* read it, only into a socket that is connected: no stop, failed connect,
\* lost connection or restart loses it, but for a kill that meets the handler
\* between its DELETE and its writes, and then no report but those it read.
InHand == ToSet(cache) \cup ToSet(resend)
CacheKept ==
    [][\A r \in InHand \ InHand' :
         \/ socket' = "on" /\ r \in ToSet(outbox') \cup ToSet(sent')
         \/ r \in ToSet(resend) /\ socket = "on" /\ socket' = "off"]_vars

\* Live and cached reports go out in the order in which they were made, each
\* once, over any number of connections, stops and restarts, unless a DELETE
\* failed or a connection was made without reading the table.
Ascends(q) == \A i, j \in DOMAIN q : i < j => q[i] < q[j]
SentInOrder == undeleted \/ unread \/ Ascends(sent)

\* All that is left of the reports, on their way out: the connection takes all
\* of the table before it takes a live report.
Line == ((sent \o outbox) \o resend) \o cache
IInv == /\ TypeOK
        /\ \/ undeleted \/ unread
           \/ /\ Ascends(Line) /\ \A i \in DOMAIN Line : Line[i] <= made
              /\ socket = "on" => cache = <<>>

\* No report stays in the table for ever if connections are made again and
\* again while the database is open, whether or not a simulation runs.
CacheDrained ==
    []<><<dbOpen /\ socket = "connecting" /\ socket' = "on">>_vars =>
        \A r \in Reports : r \in ToSet(cache) ~> r \notin ToSet(cache)
==============================================================================
