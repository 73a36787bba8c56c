----------------------------- MODULE DriverProofs -----------------------------
(***************************************************************************)
(* Theorems about Driver for any number of reports.                        *)
(***************************************************************************)
EXTENDS Driver, SequenceTheorems, TLAPS

LEMMA ReportsAreNumbers == Reports \subseteq Nat
  BY MaxReportsAssumption DEF Reports

\* write() and flush() put the reports behind those on their way, in their
\* order; which of them the kernel takes at once does not matter.
LEMMA WriteExtends ==
  ASSUME NEW q \in Seq(Reports), sent \in Seq(Reports), Write(q)
  PROVE  /\ sent' \in Seq(Reports) /\ outbox' \in Seq(Reports)
         /\ sent' \o outbox' = sent \o q
<1>1. PICK k \in 0 .. Len(q) : /\ sent' = sent \o SubSeq(q, 1, k)
                               /\ outbox' = SubSeq(q, k + 1, Len(q))
  BY DEF Write
<1> DEFINE a == SubSeq(q, 1, k)
           b == SubSeq(q, k + 1, Len(q))
<1>2. Len(q) \in Nat /\ k \in Nat /\ k <= Len(q)
  BY <1>1
<1>3. a \in Seq(Reports) /\ b \in Seq(Reports)
  <2>1. \A i \in 1 .. Len(q) : q[i] \in Reports
    OBVIOUS
  <2>2. \A i \in 1 .. k : q[i] \in Reports
    BY <1>2, <2>1
  <2>3. \A i \in k + 1 .. Len(q) : q[i] \in Reports
    BY <1>2, <2>1
  <2> QED
    BY <1>2, <2>2, <2>3, SubSeqProperties
<1>4. a \o b = q
  <2>1. SubSeq(q, 1, k) \o SubSeq(q, k + 1, Len(q)) = SubSeq(q, 1, Len(q))
    <3>1. 1 \in 1 .. Len(q) + 1 /\ k \in 1 - 1 .. Len(q) /\ Len(q) \in k .. Len(q)
      BY <1>2
    <3> QED
      BY <3>1, ConcatAdjacentSubSeq, Zenon
  <2> QED
    BY <2>1, SubSeqFull
<1> HIDE DEF a, b
<1>5. (sent \o a) \o b = sent \o (a \o b)
  BY <1>3, ConcatAssociative
<1> QED
  BY <1>1, <1>3, <1>4, <1>5, ConcatProperties DEF a, b

Openings(s, t) == /\ DOMAIN s \subseteq DOMAIN (s \o t)
                  /\ \A i \in DOMAIN s : (s \o t)[i] = s[i]

LEMMA ConcatStarts ==
  ASSUME NEW s \in Seq(Reports), NEW t \in Seq(Reports)
  PROVE  Openings(s, t)
  BY DEF Openings

\* Leaving out the middle of a sequence keeps its order.
LEMMA MiddleLost ==
  ASSUME NEW s \in Seq(Reports), NEW m \in Seq(Reports), NEW t \in Seq(Reports),
         NEW n \in Nat, Ascends((s \o m) \o t),
         \A i \in DOMAIN ((s \o m) \o t) : ((s \o m) \o t)[i] <= n
  PROVE  Ascends(s \o t) /\ \A i \in DOMAIN (s \o t) : (s \o t)[i] <= n
<1> DEFINE all == (s \o m) \o t
           place(i) == IF i <= Len(s) THEN i ELSE i + Len(m)
<1>1. /\ DOMAIN all = 1 .. Len(s) + Len(m) + Len(t)
      /\ DOMAIN (s \o t) = 1 .. Len(s) + Len(t)
      /\ Len(s) \in Nat /\ Len(m) \in Nat /\ Len(t) \in Nat
  OBVIOUS
<1>2. ASSUME NEW i \in DOMAIN (s \o t)
      PROVE  place(i) \in DOMAIN all /\ all[place(i)] = (s \o t)[i]
  BY <1>1, <1>2
<1>3. ASSUME NEW i \in DOMAIN (s \o t), NEW j \in DOMAIN (s \o t), i < j
      PROVE  place(i) < place(j)
  BY <1>1, <1>3
<1> HIDE DEF all, place
<1>4. ASSUME NEW i \in DOMAIN (s \o t), NEW j \in DOMAIN (s \o t), i < j
      PROVE  (s \o t)[i] < (s \o t)[j]
  <2>1. all[place(i)] < all[place(j)]
    BY <1>2, <1>3, <1>4 DEF all, Ascends
  <2> QED
    BY <1>2, <2>1
<1>5. ASSUME NEW i \in DOMAIN (s \o t) PROVE (s \o t)[i] <= n
  BY <1>2, <1>5 DEF all
<1> QED
  BY <1>4, <1>5 DEF Ascends

\* The newest report comes last.
LEMMA NewestLast ==
  ASSUME NEW s \in Seq(Reports), NEW n \in Nat, n + 1 \in Reports, Ascends(s),
         \A i \in DOMAIN s : s[i] <= n
  PROVE  /\ Ascends(Append(s, n + 1))
         /\ \A i \in DOMAIN Append(s, n + 1) : Append(s, n + 1)[i] <= n + 1
<1>1. /\ DOMAIN Append(s, n + 1) = 1 .. Len(s) + 1 /\ Len(s) \in Nat
      /\ \A i \in 1 .. Len(s) : Append(s, n + 1)[i] = s[i]
      /\ Append(s, n + 1)[Len(s) + 1] = n + 1
  OBVIOUS
<1>2. \A i \in 1 .. Len(s) : s[i] \in Nat /\ s[i] < n + 1
  <2>1. \A i \in 1 .. Len(s) : s[i] \in Reports /\ s[i] <= n
    OBVIOUS
  <2>2. \A x \in Reports : x \in Nat
    BY ReportsAreNumbers
  <2> QED
    <3>1. ASSUME NEW i \in 1 .. Len(s) PROVE s[i] \in Nat /\ s[i] <= n
      BY <2>1, <2>2
    <3> QED
      BY <3>1
<1> QED
  BY <1>1, <1>2 DEF Ascends

-----------------------------------------------------------------------------
LEMMA DriverTypeStep ==
  ASSUME TypeOK, [Next]_vars
  PROVE  TypeOK'
<1> USE DEF TypeOK, table, wire, InEventLoop
<1>1. ASSUME NEW x, x = asked, Ask PROVE asked' \in 0 .. MaxReports - made
  BY <1>1, MaxReportsAssumption DEF Ask
<1>2. CASE StartSimulation
  BY <1>1, <1>2 DEF StartSimulation
<1>3. CASE GenerateData
  BY <1>1, <1>3 DEF GenerateData
<1>4. CASE StopSimulation \/ ConnectFails \/ Closed \/ ConnectionLost
  <2>1. CASE StopSimulation
    BY <2>1 DEF StopSimulation
  <2>2. CASE ConnectFails
    BY <2>2 DEF ConnectFails
  <2>3. CASE Closed
    BY <2>3 DEF Closed
  <2>4. CASE ConnectionLost
    <3>1. outbox' = <<>> /\ outbox' \in Seq(Reports)
      BY <2>4 DEF ConnectionLost
    <3> QED
      BY <2>4, <3>1 DEF ConnectionLost
  <2> QED
    BY <1>4, <2>1, <2>2, <2>3, <2>4
<1>5. CASE OnConnected
  <2>1. outbox = <<>> /\ cache' \in Seq(Reports) /\ resend' \in Seq(Reports)
    BY <1>5 DEF OnConnected, GetAndClearOfflineLogs
  <2> QED
    BY <1>5, <2>1 DEF OnConnected, GetAndClearOfflineLogs
<1>10. CASE ResendLogs
  <2>1. outbox \o resend \in Seq(Reports)
    BY ConcatProperties
  <2>2. sent' \in Seq(Reports) /\ outbox' \in Seq(Reports)
    BY <1>10, <2>1, WriteExtends DEF ResendLogs
  <2> QED
    BY <1>10, <2>2 DEF ResendLogs
<1>6. CASE SocketWrites
  <2>1. Head(outbox) \in Reports /\ Tail(outbox) \in Seq(Reports)
    BY <1>6 DEF SocketWrites
  <2>2. Append(sent, Head(outbox)) \in Seq(Reports)
    BY <2>1
  <2> QED
    BY <1>6, <2>1, <2>2 DEF SocketWrites
<1>7. CASE OnDataReceived
  <2>1. /\ made' = made + 1 /\ made' \in Reports /\ made' \in 0 .. MaxReports
        /\ asked' \in 0 .. MaxReports - made'
    BY <1>7, MaxReportsAssumption DEF OnDataReceived, NextReport, Reports
  <2>2. CASE socket = "on"
    <3>1. Append(outbox, NextReport) \in Seq(Reports)
      BY <2>1 DEF NextReport
    <3>2. Write(Append(outbox, NextReport)) /\ UNCHANGED cache
      BY <1>7, <2>2 DEF OnDataReceived
    <3>3. sent' \in Seq(Reports) /\ outbox' \in Seq(Reports)
      BY <3>1, <3>2, WriteExtends
    <3> QED
      BY <1>7, <2>1, <2>2, <3>2, <3>3 DEF OnDataReceived
  <2>3. CASE socket # "on"
    <3>1. Append(cache, NextReport) \in Seq(Reports)
      BY <2>1 DEF NextReport
    <3> QED
      BY <1>7, <2>1, <2>3, <3>1 DEF OnDataReceived, InsertOfflineLog
  <2> QED
    BY <2>2, <2>3
<1>8. CASE Restart
  <2>1. outbox' = <<>> /\ outbox' \in Seq(Reports)
    BY <1>8 DEF Restart
  <2>2. asked' \in 0 .. MaxReports - made /\ made' = made
    BY <1>8, MaxReportsAssumption DEF Restart
  <2> QED
    BY <1>8, <2>1, <2>2 DEF Restart, InitDatabase
<1>9. CASE UNCHANGED vars
  BY <1>9 DEF vars
<1> QED
  BY <1>2, <1>3, <1>4, <1>5, <1>6, <1>7, <1>8, <1>9, <1>10 DEF Next

Ordered == /\ Ascends(Line) /\ \A i \in DOMAIN Line : Line[i] <= made
           /\ socket = "on" => cache = <<>>

\* A step that loses nothing of the order: nothing left or joined the line, or
\* the connection's part of it was lost, with what the handler had read, or the
\* newest report joined.
LEMMA LineStep ==
  ASSUME TypeOK, Ordered,
         \/ Line' = Line /\ made' = made
         \/ Line' = sent \o cache /\ made' = made
         \/ Line' = Append(Line, made + 1) /\ made' = made + 1 /\ made' \in Reports
         \/ Line' = Line /\ made' = made + 1
  PROVE  Ascends(Line)' /\ \A i \in DOMAIN Line' : Line'[i] <= made'
<1> USE DEF TypeOK, Ordered
<1>1. Line \in Seq(Reports)
  BY ConcatProperties DEF Line
<1>2. CASE Line' = Line /\ made' = made
  BY <1>2 DEF Ascends
<1>0. made \in Nat
  BY MaxReportsAssumption
<1>3. CASE Line' = sent \o cache /\ made' = made
  <2> DEFINE middle == outbox \o resend
  <2>0. middle \in Seq(Reports) /\ Line = (sent \o middle) \o cache
    <3>0. sent \in Seq(Reports) /\ outbox \in Seq(Reports) /\ resend \in Seq(Reports)
      OBVIOUS
    <3> HIDE DEF TypeOK
    <3>1. (sent \o outbox) \o resend = sent \o (outbox \o resend)
      BY <3>0, ConcatAssociative
    <3>2. outbox \o resend \in Seq(Reports)
      BY <3>0, ConcatProperties
    <3> QED
      BY <3>1, <3>2 DEF Line
  <2>2. Ascends((sent \o middle) \o cache)
        /\ \A i \in DOMAIN ((sent \o middle) \o cache) : ((sent \o middle) \o cache)[i] <= made
    BY <2>0
  <2> HIDE DEF middle
  <2>1. /\ Ascends(sent \o cache)
        /\ \A i \in DOMAIN (sent \o cache) : (sent \o cache)[i] <= made
    BY <1>0, <2>0, <2>2, MiddleLost
  <2> QED
    BY <1>3, <2>1 DEF Ascends
<1>4. CASE Line' = Append(Line, made + 1) /\ made' = made + 1 /\ made' \in Reports
  <2>1. made + 1 \in Reports
    BY <1>4
  <2> DEFINE longer == Append(Line, made + 1)
  <2>2. Ascends(longer) /\ \A i \in DOMAIN longer : longer[i] <= made + 1
    BY <1>0, <1>1, <2>1, NewestLast
  <2> HIDE DEF longer
  <2>3. Line' = longer
    BY <1>4 DEF longer
  <2> QED
    BY <1>4, <2>2, <2>3 DEF Ascends
<1>5. CASE Line' = Line /\ made' = made + 1
  <2>1. \A i \in DOMAIN Line : Line[i] \in Nat /\ Line[i] <= made
    <3>1. \A i \in DOMAIN Line : Line[i] \in Reports
      BY <1>1
    <3> QED
      BY <3>1, ReportsAreNumbers
  <2>2. \A i \in DOMAIN Line : Line[i] <= made + 1
    BY <1>0, <2>1
  <2> QED
    BY <1>5, <2>2 DEF Ascends
<1> QED
  BY <1>2, <1>3, <1>4, <1>5

LEMMA OrderStep ==
  ASSUME TypeOK, Ordered, Next, ~undeleted', ~unread'
  PROVE  Ordered'
<1> USE DEF TypeOK, table, wire, InEventLoop
<1>1. ASSUME UNCHANGED <<cache, wire, resend, made>>, socket' = "on" => socket = "on"
      PROVE  Ordered'
  <2>1. Line' = Line /\ made' = made
    BY <1>1 DEF Line
  <2> QED
    BY <1>1, <2>1, LineStep DEF Ordered
<1>2. CASE StartSimulation \/ StopSimulation \/ GenerateData \/ ConnectFails \/ Closed
  BY <1>1, <1>2 DEF StartSimulation, StopSimulation, GenerateData, ConnectFails, Closed
<1>3. CASE OnConnected
  <2>1. /\ outbox = <<>> /\ outbox' = <<>> /\ sent' = sent /\ made' = made
        /\ resend = <<>> /\ resend' = cache /\ cache' = <<>>
    BY <1>3 DEF OnConnected, GetAndClearOfflineLogs
  <2>2. Line = sent \o cache /\ Line' = sent \o cache
    BY <2>1, ConcatEmptySeq, ConcatProperties DEF Line
  <2> QED
    BY <2>1, <2>2, LineStep DEF Ordered
<1>7. CASE ResendLogs
  <2>1. /\ socket = "on" /\ cache = <<>> /\ outbox = <<>>
        /\ resend' = <<>> /\ cache' = <<>> /\ made' = made /\ Write(outbox \o resend)
    BY <1>7 DEF ResendLogs, Ordered
  <2>2. outbox \o resend \in Seq(Reports)
    BY ConcatProperties
  <2>3. sent' \o outbox' = sent \o (outbox \o resend) /\ sent' \o outbox' \in Seq(Reports)
    BY <2>1, <2>2, WriteExtends, ConcatProperties
  <2>4. Line' = Line
    BY <2>1, <2>3, ConcatAssociative, ConcatEmptySeq DEF Line
  <2> QED
    BY <2>1, <2>4, LineStep DEF Ordered
<1>4. CASE SocketWrites
  <2>1. outbox # <<>> /\ sent' = Append(sent, Head(outbox)) /\ outbox' = Tail(outbox)
        /\ resend' = resend /\ cache' = cache /\ made' = made /\ socket' = socket
    BY <1>4 DEF SocketWrites
  <2>2. Head(outbox) \in Reports /\ Tail(outbox) \in Seq(Reports)
        /\ outbox = <<Head(outbox)>> \o Tail(outbox)
    BY <2>1, HeadTailProperties
  <2>3. (sent \o <<Head(outbox)>>) \o Tail(outbox) = sent \o outbox
    <3>1. sent \in Seq(Reports) /\ <<Head(outbox)>> \in Seq(Reports)
      BY <2>2
    <3> HIDE DEF TypeOK
    <3>2. sent \o (<<Head(outbox)>> \o Tail(outbox)) = (sent \o <<Head(outbox)>>) \o Tail(outbox)
      BY <2>2, <3>1, ConcatAssociative
    <3> QED
      BY <2>2, <3>2
  <2>4. Line' = Line
    BY <2>1, <2>2, <2>3, AppendIsConcat DEF Line
  <2> QED
    BY <2>1, <2>4, LineStep DEF Ordered
<1>5. CASE ConnectionLost \/ Restart
  <2>1. /\ outbox' = <<>> /\ sent' = sent /\ cache' = cache /\ made' = made
        /\ socket' # "on" /\ resend' = <<>>
    BY <1>5 DEF ConnectionLost, Restart
  <2>2. Line' = sent \o cache
    BY <2>1, ConcatEmptySeq DEF Line
  <2> QED
    BY <2>1, <2>2, LineStep DEF Ordered
<1>6. CASE OnDataReceived
  <2>1. made' = made + 1 /\ made' \in Reports /\ socket' = socket
        /\ resend = <<>> /\ resend' = <<>>
    BY <1>6, MaxReportsAssumption DEF OnDataReceived, NextReport, Reports, InEventLoop
  <2>2. CASE socket = "on"
    <3>1. /\ Write(Append(outbox, made')) /\ cache' = cache /\ cache = <<>>
          /\ Append(outbox, made') \in Seq(Reports)
      BY <1>6, <2>1, <2>2 DEF OnDataReceived, NextReport, Ordered
    <3>2. sent' \o outbox' = sent \o Append(outbox, made')
      BY <3>1, WriteExtends
    <3>3. sent \o Append(outbox, made') = Append(sent \o outbox, made')
      <4>1. <<made'>> \in Seq(Reports) /\ sent \o outbox \in Seq(Reports)
        BY <2>1, ConcatProperties
      <4>2. sent \o (outbox \o <<made'>>) = (sent \o outbox) \o <<made'>>
        BY <4>1, ConcatAssociative
      <4> QED
        BY <2>1, <4>1, <4>2, AppendIsConcat
    <3>4. Line' = Append(Line, made')
      <4>1. sent \o outbox \in Seq(Reports)
        BY ConcatProperties
      <4>2. Append(sent \o outbox, made') \in Seq(Reports)
        BY <2>1, <4>1
      <4> QED
        <5>1. Line = sent \o outbox
          BY <2>1, <3>1, <4>1, ConcatEmptySeq DEF Line
        <5>2. sent' \o outbox' = Append(sent \o outbox, made')
          BY <3>2, <3>3
        <5>3. Line' = sent' \o outbox'
          BY <2>1, <3>1, <4>2, <5>2, ConcatEmptySeq DEF Line
        <5> QED
          BY <5>1, <5>2, <5>3
    <3> QED
      BY <2>1, <3>1, <3>4, LineStep DEF Ordered
  <2>3. CASE socket # "on"
    <3>1. /\ sent' = sent /\ outbox' = outbox
          /\ cache' = Append(cache, made') \/ cache' = cache
      BY <1>6, <2>1, <2>3 DEF OnDataReceived, InsertOfflineLog, NextReport
    <3>2. CASE cache' = cache
      BY <2>1, <2>3, <3>1, <3>2, LineStep DEF Ordered, Line
    <3>3. CASE cache' = Append(cache, made')
      <4>1. <<made'>> \in Seq(Reports) /\ sent \o outbox \in Seq(Reports)
            /\ (sent \o outbox) \o resend = sent \o outbox
            /\ (sent \o outbox) \o cache \in Seq(Reports)
        BY <2>1, ConcatProperties, ConcatEmptySeq
      <4>2. (sent \o outbox) \o (cache \o <<made'>>) = Line \o <<made'>>
        <5>1. Line = (sent \o outbox) \o cache
          BY <4>1 DEF Line
        <5>2. (sent \o outbox) \o (cache \o <<made'>>) = ((sent \o outbox) \o cache) \o <<made'>>
          <6>1. cache \in Seq(Reports)
            OBVIOUS
          <6> HIDE DEF TypeOK
          <6> QED
            BY <4>1, <6>1, ConcatAssociative
        <5> QED
          BY <5>1, <5>2
      <4>3. Line' = Append(Line, made')
        BY <2>1, <3>1, <3>3, <4>1, <4>2, AppendIsConcat DEF Line
      <4> QED
        BY <2>1, <2>3, <4>3, LineStep DEF Ordered
    <3> QED
      BY <3>1, <3>2, <3>3
  <2> QED
    BY <2>2, <2>3
<1> QED
  BY <1>2, <1>3, <1>4, <1>5, <1>6, <1>7 DEF Next

\* What is recorded of the failures stays.
LEMMA FailuresStay ==
  ASSUME Next PROVE (undeleted => undeleted') /\ (unread => unread')
<1>1. CASE OnConnected
  BY <1>1 DEF OnConnected, GetAndClearOfflineLogs
<1>2. CASE OnDataReceived
  BY <1>2 DEF OnDataReceived
<1>3. CASE UNCHANGED table
  BY <1>3 DEF table
<1>4. OnConnected \/ OnDataReceived \/ UNCHANGED table
  BY DEF Next, ResendLogs, StartSimulation, StopSimulation, GenerateData, ConnectFails, SocketWrites,
     Closed, ConnectionLost, Restart
<1> QED
  BY <1>1, <1>2, <1>3, <1>4

-----------------------------------------------------------------------------
\* The reports on their way, table included, are in the order in which they
\* were made, and a connection takes the table before a live report.
THEOREM DriverInvariance == Spec => []IInv
<1>1. Init => IInv
  <2> SUFFICES ASSUME Init PROVE IInv
    OBVIOUS
  <2>1. TypeOK
    <3>1. asked \in 0 .. MaxReports - made /\ made \in 0 .. MaxReports
      BY MaxReportsAssumption DEF Init
    <3>2. cache \in Seq(Reports) /\ outbox \in Seq(Reports) /\ sent \in Seq(Reports)
          /\ resend \in Seq(Reports)
      BY DEF Init
    <3> QED
      BY <3>1, <3>2 DEF Init, TypeOK, InitDatabase
  <2>2. Line = <<>>
    BY DEF Init, Line
  <2>3. Ascends(Line) /\ \A i \in DOMAIN Line : Line[i] <= made
    BY <2>2 DEF Ascends
  <2> QED
    BY <2>1, <2>3 DEF Init, IInv
<1>2. ASSUME IInv, [Next]_vars PROVE IInv'
  <2>1. TypeOK'
    BY <1>2, DriverTypeStep DEF IInv
  <2>2. CASE UNCHANGED vars
    BY <1>2, <2>1, <2>2 DEF IInv, vars, table, wire, Line, Ascends
  <2>3. CASE Next /\ ~undeleted' /\ ~unread'
    BY <1>2, <2>1, <2>3, OrderStep, FailuresStay DEF IInv, Ordered
  <2> QED
    BY <1>2, <2>1, <2>2, <2>3 DEF IInv
<1> QED
  BY <1>1, <1>2, PTL DEF Spec

\* Every variable of the driver's program keeps its type: nothing waits in a
\* socket that is not connected.
THEOREM DriverTypeCorrect == Spec => []TypeOK
<1>1. IInv => TypeOK
  BY DEF IInv
<1> QED
  BY DriverInvariance, <1>1, PTL

\* SentInOrder, for any number of reports.
THEOREM ReportsInOrder == Spec => []SentInOrder
<1>1. ASSUME IInv PROVE SentInOrder
  <2>1. CASE undeleted \/ unread
    BY <2>1 DEF SentInOrder
  <2>2. CASE Ascends(Line)
    <3>1. /\ DOMAIN sent \subseteq DOMAIN Line
          /\ \A i \in DOMAIN sent : Line[i] = sent[i]
      <4>1. Openings(sent, outbox) /\ Openings(sent \o outbox, resend)
            /\ Openings((sent \o outbox) \o resend, cache)
        BY <1>1, ConcatStarts, ConcatProperties DEF IInv, TypeOK
      <4> QED
        BY <4>1 DEF Openings, Line
    <3> QED
      BY <2>2, <3>1 DEF SentInOrder, Ascends
  <2> QED
    BY <1>1, <2>1, <2>2 DEF IInv
<1> QED
  BY DriverInvariance, <1>1, PTL

\* Of what a write was given, all is in the kernel or waits in the socket.
LEMMA WriteKeeps ==
  ASSUME NEW q \in Seq(Reports), sent \in Seq(Reports), Write(q), NEW i \in DOMAIN q
  PROVE  q[i] \in ToSet(outbox') \cup ToSet(sent')
<1>1. PICK k \in 0 .. Len(q) : /\ sent' = sent \o SubSeq(q, 1, k)
                               /\ outbox' = SubSeq(q, k + 1, Len(q))
  BY DEF Write
<1>2. i \in 1 .. Len(q) /\ Len(q) \in Nat /\ Len(sent) \in Nat /\ k \in Nat
  OBVIOUS
<1>3. CASE i <= k
  <2> DEFINE a == SubSeq(q, 1, k)
  <2>0. \A x \in 1 .. k : q[x] \in Reports
    BY <1>1, <1>2
  <2>1. a \in Seq(Reports) /\ Len(a) = k /\ a[i] = q[i]
    BY <1>2, <1>3, <2>0, SubSeqProperties
  <2> HIDE DEF a
  <2>2. /\ Len(sent) + i \in DOMAIN (sent \o a)
        /\ (sent \o a)[Len(sent) + i] = q[i]
    BY <1>2, <1>3, <2>1
  <2>3. sent' = sent \o a
    BY <1>1 DEF a
  <2> QED
    BY <2>2, <2>3 DEF ToSet
<1>4. CASE i > k
  <2>0. \A x \in k + 1 .. Len(q) : q[x] \in Reports
    BY <1>1, <1>2
  <2>1. i - k \in DOMAIN SubSeq(q, k + 1, Len(q)) /\ SubSeq(q, k + 1, Len(q))[i - k] = q[i]
    BY <1>2, <1>4, <2>0, SubSeqProperties
  <2> QED
    BY <1>1, <2>1 DEF ToSet
<1> QED
  BY <1>2, <1>3, <1>4

\* CacheKept: a report that was cached leaves the program's hands into a
\* connected socket, or with a kill between the DELETE and the writes.
THEOREM CacheSurvives == Spec => CacheKept
<1> DEFINE Kept(r) == \/ socket' = "on" /\ r \in ToSet(outbox') \cup ToSet(sent')
                      \/ r \in ToSet(resend) /\ socket = "on" /\ socket' = "off"
<1>1. ASSUME IInv, [Next]_vars, NEW r \in InHand \ InHand'
      PROVE  Kept(r)
  <2> USE <1>1 DEF IInv, TypeOK, table, wire
  <2>1. ~UNCHANGED <<cache, resend>>
    BY <1>1 DEF InHand
  <2>2. CASE OnDataReceived
    <3>1. cache' = Append(cache, NextReport) /\ resend = <<>> /\ resend' = <<>>
      BY <2>1, <2>2 DEF OnDataReceived, InsertOfflineLog, InEventLoop
    <3>2. ToSet(cache) \subseteq ToSet(cache')
      BY <3>1 DEF ToSet
    <3> QED
      BY <1>1, <3>1, <3>2 DEF InHand
  <2>3. CASE OnConnected
    <3>1. resend = <<>> /\ resend' = cache
      BY <2>1, <2>3 DEF OnConnected, GetAndClearOfflineLogs
    <3>2. InHand \subseteq InHand'
      BY <3>1 DEF InHand, ToSet
    <3> QED
      BY <1>1, <3>2
  <2>4. CASE ResendLogs
    <3>1. /\ socket' = "on" /\ cache' = cache /\ outbox = <<>>
          /\ Write(outbox \o resend)
      BY <2>4 DEF ResendLogs
    <3>2. Write(resend)
      BY <3>1, ConcatEmptySeq
    <3>3. r \in ToSet(resend)
      BY <1>1, <3>1 DEF InHand
    <3>4. PICK i \in DOMAIN resend : resend[i] = r
      BY <3>3 DEF ToSet
    <3> QED
      BY <3>1, <3>2, <3>4, WriteKeeps
  <2>5. CASE Restart
    <3>1. cache' = cache /\ socket' = "off"
      BY <2>5 DEF Restart
    <3>2. r \in ToSet(resend)
      BY <1>1, <3>1 DEF InHand
    <3>3. resend # <<>>
      BY <3>2 DEF ToSet
    <3> QED
      BY <3>1, <3>2, <3>3
  <2>6. OnConnected \/ OnDataReceived \/ ResendLogs \/ Restart
    BY <1>1, <2>1 DEF Next, StartSimulation, StopSimulation, GenerateData, ConnectFails,
       SocketWrites, Closed, ConnectionLost, vars, InEventLoop
  <2> QED
    BY <2>2, <2>3, <2>4, <2>5, <2>6
<1>2. IInv /\ [Next]_vars => [\A r \in InHand \ InHand' : Kept(r)]_vars
  BY <1>1
<1>3. Spec => [][\A r \in InHand \ InHand' : Kept(r)]_vars
  BY DriverInvariance, <1>2, PTL DEF Spec
<1> QED
  BY <1>3 DEF CacheKept
===============================================================================
