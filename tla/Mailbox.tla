------------------------------- MODULE Mailbox -------------------------------
(***************************************************************************)
(* What EventLoop::queueinloop promises its callers: each loop has a FIFO  *)
(* box; an item posted in it is taken, in order and once, as long as the   *)
(* process is up.  The promise says nothing of mutexes, of the eventfd or  *)
(* of epoll: those are how Reactor keeps it.                               *)
(***************************************************************************)
EXTENDS Sequences

CONSTANTS Boxes, Items
VARIABLES mail,  \* items posted and not taken, per box
          up     \* the process runs

mailVars == <<mail, up>>

Init == mail = [b \in Boxes |-> <<>>] /\ up = TRUE

Post(b, x) ==
    /\ up
    /\ mail' = [mail EXCEPT ![b] = Append(@, x)]
    /\ UNCHANGED up

Take(b) ==
    /\ up /\ mail[b] # <<>>
    /\ mail' = [mail EXCEPT ![b] = Tail(@)]
    /\ UNCHANGED up

Crash == up /\ up' = FALSE /\ UNCHANGED mail

Next == Crash \/ \E b \in Boxes : Take(b) \/ \E x \in Items : Post(b, x)

Safe == Init /\ [][Next]_mailVars

Spec == Safe /\ \A b \in Boxes : WF_mailVars(Take(b))
==============================================================================
