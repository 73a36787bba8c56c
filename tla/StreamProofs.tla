----------------------------- MODULE StreamProofs -----------------------------
(***************************************************************************)
(* What a Connection hands on is what its peer's separators make of the    *)
(* stream, and an edge-triggered event is never missed, for every size of  *)
(* the read buffer, of the answers and of the kernel's buffer.             *)
(* NothingMissed is not inductive: that nothing unread is forgotten must   *)
(* hold while messages are picked, too (IInv).                             *)
(***************************************************************************)
EXTENDS Stream, TLAPS

\* A new byte changes no separator among those that have arrived.
LEMMA ArrivedStay ==
  ASSUME TypeOK, NEW b \in Alphabet, stream' = Append(stream, b),
         NEW p \in 4 .. Len(stream)
  PROVE  SeparatorAt(p)' <=> SeparatorAt(p)
<1>1. \A q \in p - 3 .. p : q \in 1 .. Len(stream)
  OBVIOUS
<1>2. \A q \in 1 .. Len(stream) : stream'[q] = stream[q]
  BY DEF TypeOK
<1> QED
  BY <1>1, <1>2 DEF SeparatorAt

\* Types
LEMMA StreamType == TypeOK /\ [Next]_vars => TypeOK'
<1> SUFFICES ASSUME TypeOK, [Next]_vars
             PROVE  TypeOK'
  OBVIOUS
<1> USE ChunkAssumption, OutputAssumption, BytesAssumption DEF TypeOK
<1>1. CASE PeerSends
  BY <1>1 DEF PeerSends, input, output
<1>2. CASE PeerCloses
  BY <1>2 DEF PeerCloses, input, output
<1>8. CASE PeerReads
  <2>1. PICK n \in 0 .. flight - 1 : flight' = n
    BY <1>8 DEF PeerReads
  <2>2. flight' \in 0 .. Room
    BY <2>1
  <2>3. listed' \in BOOLEAN
    BY <1>8 DEF PeerReads
  <2> QED
    BY <1>8, <2>2, <2>3 DEF PeerReads, input, output
<1>9. CASE ReadSome
  <2>1. got' \in 0 .. Len(stream) /\ start \in 0 .. got'
    BY <1>9 DEF ReadSome
  <2> QED
    BY <1>9, <2>1 DEF ReadSome, output
<1>3. CASE HandleEvent \/ ReadAgain \/ ReadEnd \/ PickNone
  BY <1>3 DEF HandleEvent, ReadAgain, ReadEnd, PickNone, input, output
<1>4. CASE PickMessage
  <2>1. PICK p \in start + 4 .. got : start' = p /\ handled' = handled \cup {<<start + 1, p>>}
    BY <1>4 DEF PickMessage, Separators
  <2>2. /\ p \in Nat /\ start < p /\ <<start + 1, p>> \in (1 .. p) \X (1 .. p)
        /\ (1 .. start) \X (1 .. start) \subseteq (1 .. p) \X (1 .. p)
    BY <2>1
  <2>3. handled' \subseteq (1 .. start') \X (1 .. start') /\ start' \in 0 .. got
    BY <2>1, <2>2
  <2> QED
    BY <1>4, <2>3 DEF PickMessage, output
<1>5. CASE SendInLoop
  <2>1. listed' \in BOOLEAN
    BY <1>5 DEF SendInLoop
  <2>2. queued' \in Nat /\ out' \in Nat /\ flight' \in 0 .. Room /\ writing' \in BOOLEAN
    BY <1>5 DEF SendInLoop
  <2> QED
    BY <1>5, <2>1, <2>2 DEF SendInLoop, input
<1>6. CASE OnMessage
  BY <1>6 DEF OnMessage, input
<1>7. CASE Over \/ UNCHANGED vars
  BY <1>7 DEF Over, vars, input, output
<1> QED
  BY <1>1, <1>2, <1>3, <1>4, <1>5, <1>6, <1>7, <1>8, <1>9 DEF Next, IoStep

\* The messages stay whole: only PickMessage adds one.
LEMMA WholeStep == TypeOK /\ MessagesWhole /\ [Next]_vars => MessagesWhole'
<1> SUFFICES ASSUME TypeOK, MessagesWhole, [Next]_vars
             PROVE  MessagesWhole'
  OBVIOUS
<1> USE DEF TypeOK, MessagesWhole
<1>1. CASE PeerSends
  <2>1. PICK b \in Alphabet : stream' = Append(stream, b)
    BY <1>1 DEF PeerSends
  <2>2. \A p \in 4 .. Len(stream) : SeparatorAt(p)' <=> SeparatorAt(p)
    BY <2>1, ArrivedStay
  <2>3. start' = start /\ handled' = handled
    BY <1>1 DEF PeerSends, input
  <2>4. ASSUME NEW m \in handled PROVE Whole(m)'
    <3>1. Whole(m) /\ m[1] \in 1 .. start /\ m[2] \in 1 .. start
      OBVIOUS
    <3>2. \A p \in m[1] + 3 .. m[2] : p \in 4 .. Len(stream)
      <4>0. /\ Len(stream) \in Nat /\ got \in Nat /\ got <= Len(stream)
            /\ start \in Nat /\ start <= got
        OBVIOUS
      <4> HIDE DEF TypeOK, MessagesWhole
      <4>1. m[1] \in Nat /\ 1 <= m[1] /\ m[2] \in Nat /\ m[2] <= start
        BY <3>1, <4>0
      <4> QED
        BY <4>0, <4>1
    <3>3. m[2] \in m[1] + 3 .. m[2]
      BY <3>1 DEF Whole
    <3>4. SeparatorAt(m[2])'
      BY <3>1, <3>2, <3>3, <2>2 DEF Whole
    <3>5. ASSUME NEW p \in m[1] + 3 .. m[2] - 1
          PROVE  ~SeparatorAt(p)'
      <4>1. p \in m[1] + 3 .. m[2]
        BY <3>1
      <4>2. ~SeparatorAt(p)
        BY <3>1 DEF Whole
      <4> QED
        BY <4>1, <4>2, <3>2, <2>2
    <3> QED
      BY <3>1, <3>4, <3>5 DEF Whole
  <2> QED
    BY <2>3, <2>4
<1>2. CASE PickMessage
  <2>1. PICK p \in Separators :
          /\ \A q \in Separators : p <= q
          /\ start' = p /\ handled' = handled \cup {<<start + 1, p>>}
    BY <1>2 DEF PickMessage
  <2>2. p \in start + 4 .. got /\ SeparatorAt(p) /\ start \in Nat /\ p \in Nat
    BY <2>1 DEF Separators
  <2> DEFINE new == <<start + 1, p>>
  <2>3. Whole(new)
    <3>1. ASSUME NEW q \in start + 4 .. p - 1 PROVE ~SeparatorAt(q)
      BY <2>1, <2>2 DEF Separators
    <3> QED
      BY <2>2, <3>1 DEF Whole
  <2>4. \A m \in handled' : Whole(m)'
    <3>1. stream' = stream
      BY <1>2 DEF PickMessage
    <3> QED
      BY <2>1, <2>3, <3>1 DEF Whole, SeparatorAt
  <2>5. \A i \in 1 .. start' : \E m \in handled' : m[1] <= i /\ i <= m[2]
    <3> SUFFICES ASSUME NEW i \in 1 .. p
                 PROVE  \E m \in handled' : m[1] <= i /\ i <= m[2]
      BY <2>1
    <3>1. CASE i \in 1 .. start
      BY <2>1, <3>1
    <3>2. CASE i \notin 1 .. start
      <4>1. new \in handled' /\ new[1] = start + 1 /\ new[2] = p
        BY <2>1
      <4>2. start + 1 <= i /\ i <= p
        BY <2>2, <3>2
      <4> QED
        BY <4>1, <4>2
    <3> QED
      BY <3>1, <3>2
  <2>6. \A m \in handled : m[2] < new[1]
    BY <2>2
  <2>7. \A m, n \in handled' : m[2] < n[1] \/ n[2] < m[1] \/ m = n
    BY <2>1, <2>6
  <2> QED
    BY <2>4, <2>5, <2>7
<1>3. CASE ~PeerSends /\ ~PickMessage
  <2>1. UNCHANGED <<stream, start, handled>>
    BY <1>3 DEF Next, IoStep, PeerCloses, PeerReads, HandleEvent, ReadSome, ReadAgain,
       ReadEnd, PickNone, SendInLoop, OnMessage, Over, vars, input, output
  <2> QED
    BY <2>1 DEF Whole, SeparatorAt
<1> QED
  BY <1>1, <1>2, <1>3

\* Nothing is forgotten between two events.
LEMMA MissedStep == IInv /\ TypeOK' /\ [Next]_vars =>
    NothingMissed' /\ (io = "pick" /\ Readable => listed)'
<1> SUFFICES ASSUME IInv, TypeOK', [Next]_vars
             PROVE  NothingMissed' /\ (io = "pick" /\ Readable => listed)'
  OBVIOUS
<1> USE DEF IInv, NothingMissed, Readable
<1>1. CASE PeerSends
  <2>1. PICK b \in Alphabet : stream' = Append(stream, b)
    BY <1>1 DEF PeerSends
  <2>2. \A p \in 4 .. Len(stream) : SeparatorAt(p)' <=> SeparatorAt(p)
    BY <2>1, ArrivedStay
  <2>3. Separators' = Separators
    <3>1. \A p \in start + 4 .. got : p \in 4 .. Len(stream)
      BY DEF TypeOK
    <3> QED
      BY <1>1, <2>2, <3>1 DEF PeerSends, input, Separators
  <2> QED
    BY <1>1, <2>3 DEF PeerSends
<1>2. CASE PeerCloses \/ PeerReads
  <2>1. UNCHANGED <<stream, start, got, io>>
    BY <1>2 DEF PeerCloses, PeerReads, input
  <2>2. Separators' = Separators
    BY <2>1 DEF Separators, SeparatorAt
  <2>3. Readable' => listed' \/ Readable
    BY <1>2, <2>1 DEF PeerCloses, PeerReads
  <2>4. listed => listed'
    BY <1>2 DEF PeerCloses, PeerReads
  <2> QED
    BY <2>1, <2>2, <2>3, <2>4
<1>3. CASE HandleEvent \/ ReadSome \/ ReadEnd
  BY <1>3 DEF HandleEvent, ReadSome, ReadEnd
<1>4. CASE ReadAgain
  BY <1>4 DEF ReadAgain, input, TypeOK
<1>5. CASE PickMessage
  BY <1>5 DEF PickMessage
<1>6. CASE PickNone
  BY <1>6 DEF PickNone, input, Separators, SeparatorAt
<1>7. CASE SendInLoop
  BY <1>7 DEF SendInLoop, input, Separators, SeparatorAt
<1>8. CASE OnMessage
  BY <1>8 DEF OnMessage, input, Separators, SeparatorAt
<1>9. CASE Over \/ UNCHANGED vars
  BY <1>9 DEF Over, vars, input, output, Separators, SeparatorAt
<1> QED
  BY <1>1, <1>2, <1>3, <1>4, <1>5, <1>6, <1>7, <1>8, <1>9 DEF Next, IoStep

\* The inductive invariant of a Connection's bytes, for all sizes.
THEOREM StreamInvariance == Spec => []IInv
<1>1. ASSUME Init PROVE IInv
  <2>1. TypeOK
    <3>1. flight \in 0 .. Room
      BY <1>1, OutputAssumption DEF Init
    <3>2. stream \in Seq(Alphabet) /\ got \in 0 .. Len(stream) /\ start \in 0 .. got
      BY <1>1 DEF Init
    <3> QED
      BY <1>1, <3>1, <3>2 DEF Init, TypeOK
  <2>2. MessagesWhole
    BY <1>1 DEF Init, MessagesWhole
  <2>3. Separators = {}
    BY <1>1 DEF Init, Separators
  <2>4. ~Readable
    BY <1>1 DEF Init, Readable
  <2> QED
    BY <2>1, <2>2, <2>3, <2>4 DEF IInv, NothingMissed
<1>2. IInv /\ [Next]_vars => IInv'
  BY StreamType, WholeStep, MissedStep DEF IInv
<1> QED
  BY <1>1, <1>2, PTL DEF Spec

\* Positions, counts and control stay in their types: no more is read than
\* arrived, no more picked than read.
THEOREM StreamTypeCorrect == Spec => []TypeOK
BY StreamInvariance, PTL DEF IInv

\* pickmessage: whatever the reads cut the stream into, the messages handed on
\* are those the separators make, each byte in one of them.
THEOREM OnlyWholeMessages == Spec => []MessagesWhole
BY StreamInvariance, PTL DEF IInv

\* onmessage: the IO thread never goes back to epoll_wait with bytes unread
\* for which no event will come, or with a whole message in inputbuffer_.
THEOREM EdgeNeverMissed == Spec => []NothingMissed
BY StreamInvariance, PTL DEF IInv
===============================================================================
