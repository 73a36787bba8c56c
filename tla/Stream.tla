------------------------------- MODULE Stream -------------------------------
(***************************************************************************)
(* The bytes of one Connection: an edge-triggered channel, onmessage and   *)
(* the input Buffer, workers that answer each message, sendinloop and the  *)
(* output Buffer.  Bytes read are stream[1 .. got]; inputbuffer_ is what   *)
(* of them follows position start.  Output is counted, not spelt.          *)
(***************************************************************************)
EXTENDS Integers, Sequences, FiniteSets

CONSTANTS Alphabet,   \* bytes the peer sends: "cr", "lf" or another
          Chunk,      \* size of the array onmessage reads into
          AnswerSize, \* bytes of an answer
          Room,       \* bytes the kernel takes from us
          MaxBytes    \* bound: bytes the peer sends

ASSUME ChunkAssumption == Chunk \in Nat \ {0}
ASSUME OutputAssumption == AnswerSize \in Nat \ {0} /\ Room \in Nat \ {0}
ASSUME BytesAssumption == MaxBytes \in Nat

VARIABLES
  stream,   \* bytes from the peer, read or not
  fin,      \* the peer has closed
  got,      \* bytes read
  start,    \* bytes picked from inputbuffer_
  handled,  \* history: first and last position of each message handed on
  listed,   \* the channel is on epoll's ready list
  writing,  \* EPOLLOUT in events_
  io,       \* where the IO thread is with this connection
  tasks,    \* messages the workers have not answered
  queued,   \* sendinloop's in taskqueue_
  out,      \* bytes in outputbuffer_
  flight    \* bytes the kernel took and the peer did not read

input == <<got, start, handled>>
output == <<writing, queued, out>>
vars == <<stream, fin, input, listed, io, tasks, output, flight>>

TypeOK ==
    /\ stream \in Seq(Alphabet) /\ fin \in BOOLEAN
    /\ got \in 0 .. Len(stream) /\ start \in 0 .. got
    /\ handled \subseteq (1 .. start) \X (1 .. start)
    /\ listed \in BOOLEAN /\ writing \in BOOLEAN
    /\ io \in {"wait", "read", "pick", "closed"}
    /\ tasks \in Nat /\ queued \in Nat /\ out \in Nat /\ flight \in 0 .. Room

Init ==
    /\ stream = <<>> /\ fin = FALSE
    /\ got = 0 /\ start = 0 /\ handled = {}
    /\ listed = FALSE /\ writing = FALSE /\ io = "wait"
    /\ tasks = 0 /\ queued = 0 /\ out = 0 /\ flight = 0

Readable == got < Len(stream) \/ fin

-----------------------------------------------------------------------------
\* The peer; what it does puts the channel on the ready list.

PeerSends ==
    /\ ~fin /\ Len(stream) < MaxBytes
    /\ \E b \in Alphabet : stream' = Append(stream, b)
    /\ listed' = TRUE
    /\ UNCHANGED <<fin, input, io, tasks, output, flight>>

PeerCloses ==
    /\ ~fin /\ fin' = TRUE
    /\ listed' = TRUE
    /\ UNCHANGED <<stream, input, io, tasks, output, flight>>

PeerReads ==
    /\ flight > 0 /\ \E n \in 0 .. flight - 1 : flight' = n
    /\ listed' = (listed \/ writing)
    /\ UNCHANGED <<stream, fin, input, io, tasks, output>>

-----------------------------------------------------------------------------
\* The IO thread

\* Channel::handleevent looks at the events it waits for: EPOLLIN is always
\* one, so a channel that became writable only is read, too, and not written.
HandleEvent ==
    /\ io = "wait" /\ listed
    /\ Readable \/ (writing /\ flight < Room)
    /\ io' = "read" /\ listed' = FALSE
    /\ UNCHANGED <<stream, fin, input, tasks, output, flight>>

\* Mutant: one read for each event.
ReadSomeOnce ==
    /\ io = "read" /\ got < Len(stream)
    /\ got' = IF got + Chunk < Len(stream) THEN got + Chunk ELSE Len(stream)
    /\ io' = "pick"
    /\ UNCHANGED <<stream, fin, start, handled, listed, tasks, output, flight>>

\* Mutant: append all of the array, not what read() put there.
ReadSomeWhole ==
    /\ io = "read" /\ got < Len(stream)
    /\ got' = got + Chunk
    /\ UNCHANGED <<stream, fin, start, handled, listed, io, tasks, output, flight>>

ReadSome ==
    /\ io = "read" /\ got < Len(stream)
    /\ got' = IF got + Chunk < Len(stream) THEN got + Chunk ELSE Len(stream)
    /\ UNCHANGED <<stream, fin, start, handled, listed, io, tasks, output, flight>>

\* EAGAIN
ReadAgain ==
    /\ io = "read" /\ got = Len(stream) /\ ~fin
    /\ io' = "pick"
    /\ UNCHANGED <<stream, fin, input, listed, tasks, output, flight>>

\* read() returns 0: the messages in inputbuffer_ are not looked at.
ReadEnd ==
    /\ io = "read" /\ got = Len(stream) /\ fin
    /\ io' = "closed"
    /\ UNCHANGED <<stream, fin, input, listed, tasks, output, flight>>

\* A separator ends at position p; those places in inputbuffer_
SeparatorAt(p) ==
    \A q \in p - 3 .. p : stream[q] = IF (p - q) % 2 = 0 THEN "lf" ELSE "cr"
Separators == {p \in start + 4 .. got : SeparatorAt(p)}

\* Mutant: take all there is up to the last separator.
PickMessageLast ==
    /\ io = "pick"
    /\ \E p \in Separators :
         /\ \A q \in Separators : q <= p
         /\ start' = p /\ handled' = handled \cup {<<start + 1, p>>}
    /\ tasks' = tasks + 1
    /\ UNCHANGED <<stream, fin, got, listed, io, output, flight>>

\* pickmessage finds the first; the message goes to the workers.
PickMessage ==
    /\ io = "pick"
    /\ \E p \in Separators :
         /\ \A q \in Separators : p <= q
         /\ start' = p /\ handled' = handled \cup {<<start + 1, p>>}
    /\ tasks' = tasks + 1
    /\ UNCHANGED <<stream, fin, got, listed, io, output, flight>>

\* Mutant: back to epoll_wait after one message.
PickNoneEarly ==
    /\ io = "pick" /\ (Separators = {} \/ tasks > 0)
    /\ io' = "wait"
    /\ UNCHANGED <<stream, fin, input, listed, tasks, output, flight>>

PickNone ==
    /\ io = "pick" /\ Separators = {}
    /\ io' = "wait"
    /\ UNCHANGED <<stream, fin, input, listed, tasks, output, flight>>

\* sendinloop: append, register EPOLLOUT (epoll_ctl puts a channel that is
\* ready on the list), and writecallback: the kernel takes what it has room
\* for.  One that runs after the close is Reactor's.
SendInLoop ==
    /\ io = "wait" /\ queued > 0
    /\ queued' = queued - 1
    /\ listed' = (listed \/ Readable \/ flight < Room)
    /\ LET all == out + AnswerSize
           taken == IF all < Room - flight THEN all ELSE Room - flight
       IN  out' = all - taken /\ flight' = flight + taken /\ writing' = (taken < all)
    /\ UNCHANGED <<stream, fin, input, io, tasks>>

-----------------------------------------------------------------------------
\* A worker answers; send() returns at once on a closed connection.
OnMessage ==
    /\ tasks > 0 /\ tasks' = tasks - 1
    /\ queued' = IF io = "closed" THEN queued ELSE queued + 1
    /\ UNCHANGED <<stream, fin, input, listed, io, writing, out, flight>>

-----------------------------------------------------------------------------
IoStep == HandleEvent \/ ReadSome \/ ReadAgain \/ ReadEnd \/ PickMessage \/ PickNone

\* What is left of a closed connection
Over == io = "closed" /\ tasks = 0 /\ UNCHANGED vars

Next == \/ PeerSends \/ PeerCloses \/ PeerReads
        \/ IoStep \/ SendInLoop \/ OnMessage \/ Over

Spec == Init /\ [][Next]_vars

\* Threads run, and the peer reads what it is sent.
Fairness == WF_vars(IoStep) /\ WF_vars(SendInLoop) /\ WF_vars(OnMessage)
            /\ WF_vars(PeerReads)

FairSpec == Spec /\ Fairness

-----------------------------------------------------------------------------
\* Properties

\* The messages handed on are what the peer's separators make of its bytes,
\* whatever the reads cut them into: each ends with the only separator it
\* contains, and together they are the bytes picked, each byte once.
Whole(m) ==
    /\ m[2] >= m[1] + 3 /\ SeparatorAt(m[2])
    /\ \A p \in m[1] + 3 .. m[2] - 1 : ~SeparatorAt(p)
MessagesWhole ==
    /\ \A m \in handled : Whole(m)
    /\ \A i \in 1 .. start : \E m \in handled : m[1] <= i /\ i <= m[2]
    /\ \A m, n \in handled : m[2] < n[1] \/ n[2] < m[1] \/ m = n

\* An edge-triggered channel is told once.  When the IO thread goes back to
\* epoll_wait, nothing is unread for which no event is to come, and no whole
\* message is in inputbuffer_.
NothingMissed ==
    io = "wait" => Separators = {} /\ (Readable => listed)

\* The same while it is reading or about to pick.
IInv == /\ TypeOK /\ MessagesWhole /\ NothingMissed
        /\ io = "pick" /\ Readable => listed

\* A message that has arrived is handed on, unless the peer closes.
MessagesServed ==
    \A p \in 4 .. MaxBytes :
        (p \in DOMAIN stream /\ SeparatorAt(p)) ~> (start > p - 4 \/ io = "closed")

\* Channel.h:23, "the callback of write events: calls back
\* Connection::writecallback": what a partial send left in outputbuffer_ is
\* sent while the peer reads.
OutputDrains == out > 0 ~> out = 0 \/ io = "closed"
==============================================================================
