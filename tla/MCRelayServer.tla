---------------------------- MODULE MCRelayServer ----------------------------
(***************************************************************************)
(* Small instances of RelayServer for TLC.  Each specification below takes *)
(* only some of the peers' and the clock's steps; all the steps of the     *)
(* program's threads are there in each.                                    *)
(***************************************************************************)
EXTENDS RelayServer

CONSTANT Talkers  \* connections whose peer sends frames

\* Bound: the other peers only listen, and close.
PeerTalks ==
    /\ UNCHANGED relayVars
    /\ (\E c \in Talkers : R!PeerSend(c)) \/ (\E c \in Conns : R!PeerClose(c))

\* accept4 gives the lowest descriptor that is free.
LowestAccept ==
    /\ UNCHANGED relayVars
    /\ \/ R!AcceptFail
       \/ \E c \in Conns, f \in Fds :
            /\ \A g \in Fds : R!FreeFd(g) => f <= g
            /\ R!Accept(c, f)

\* Bound: the timer fires only when it finds an idle connection; the other
\* firings change no variable but the loop's own.
TimerFinds == \E f \in Fds : loopConns[f] \in idle /\ R!TimerFires(f % threadnum)

\* Bound: only connections that closed stay silent for timeout_.
CastClock == UNCHANGED relayVars /\ (TimerFinds \/ \E c \in disconnect : R!GoIdle(c))

CastSpec == Init /\ [][LowestAccept \/ ServeStep \/ PeerTalks \/ CastClock]_vars

\* Bounds of the liveness run: the talkers connect first and close first, and
\* nobody stays idle for timeout_.
TalkersFirst ==
    /\ UNCHANGED relayVars
    /\ \/ R!AcceptFail
       \/ \E c \in Conns, f \in Fds :
            /\ c \in Talkers \/ \A d \in Talkers : fdOf[d] # NoFd
            /\ \A g \in Fds : R!FreeFd(g) => f <= g
            /\ R!Accept(c, f)

TalkersCloseFirst ==
    /\ UNCHANGED relayVars
    /\ \/ \E c \in Talkers : R!PeerSend(c) \/ R!PeerClose(c)
       \/ Talkers \subseteq disconnect /\ \E c \in Conns : R!PeerClose(c)

TalkSpec == Init /\ [][TalkersFirst \/ ServeStep \/ TalkersCloseFirst]_vars /\ Fairness
==============================================================================
