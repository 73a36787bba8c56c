-------------------------------- MODULE Router --------------------------------
(***************************************************************************)
(* Router and RoundRobinLoadBalancer.  route() holds the router's mutex    *)
(* and the balancer's, so one call is one step.  Routes and nodes are      *)
(* registered before the first request.  A string is a sequence of byte    *)
(* values.                                                                 *)
(***************************************************************************)
EXTENDS Integers, Sequences

CONSTANTS Routes,    \* keys of routes_
          Pool,      \* nodes_ of the balancer of each
          IndexSize, \* current_index_ is a number below this
          MaxCuts    \* bound: rounds cut short that the history follows

ASSUME RoutesAssumption == Routes \subseteq Seq(Nat)
ASSUME PoolAssumption == /\ \A p \in Routes : Pool[p] \in Seq(STRING)
                         /\ IndexSize \in Nat \ {0} /\ MaxCuts \in Nat

VARIABLES
  index,  \* current_index_ of each balancer
  asked,  \* path of the last request routed
  taken,  \* its route, and the place of its node in the pool
  spread, \* history: requests each node got beyond the least of its pool
  cut     \* history: rounds of each pool that a wrap of the index cut short

routerVars == <<index, asked, taken, spread, cut>>

NoRoute == [route |-> <<>>, node |-> 0]
Nodes(p) == DOMAIN Pool[p]

\* The order of std::map: of two strings the one that has the smaller byte
\* where they first differ, or ends there, is the smaller.
Before(p, q) ==
    \E k \in 0 .. Len(p) :
        /\ k <= Len(q) /\ \A i \in 1 .. k : p[i] = q[i]
        /\ k < Len(q) /\ (k = Len(p) \/ (k < Len(p) /\ p[k + 1] < q[k + 1]))

\* request_path.find(prefix) == 0
Fits(p, path) == Len(p) <= Len(path) /\ \A i \in 1 .. Len(p) : path[i] = p[i]

RouterInit ==
    /\ index = [p \in Routes |-> 0]
    /\ asked = <<>> /\ taken = NoRoute
    /\ spread = [p \in Routes |-> [n \in Nodes(p) |-> 0]]
    /\ cut = [p \in Routes |-> 0]

\* Mutant: begin() to end().
ChosenForward(path) ==
    {p \in Routes : Fits(p, path) /\ \A q \in Routes : Fits(q, path) => ~Before(q, p)}

\* The first prefix from rbegin() to rend()
Chosen(path) ==
    {p \in Routes : Fits(p, path) /\ \A q \in Routes : Fits(q, path) => ~Before(p, q)}

\* One more for node n; history only: the least is taken off.
Count(s, n) ==
    LET more == [s EXCEPT ![n] = @ + 1]
    IN  IF \A m \in DOMAIN s : more[m] > 0 THEN [m \in DOMAIN s |-> more[m] - 1] ELSE more

\* The history of one request for node n, until MaxCuts rounds were cut short.
Record(p, n) ==
    IF cut[p] < MaxCuts
    THEN /\ spread' = [spread EXCEPT ![p] = Count(@, n)]
         /\ cut' = [cut EXCEPT ![p] = IF index'[p] = 0 /\ IndexSize % Len(Pool[p]) # 0
                                     THEN @ + 1 ELSE @]
    ELSE UNCHANGED <<spread, cut>>

\* Mutant: start over before the index can wrap around, one node too early.
NextNodeResets(p) ==
    LET n == (index[p] % Len(Pool[p])) + 1
    IN  /\ index' = [index EXCEPT ![p] = IF @ + 2 >= Len(Pool[p]) THEN 0 ELSE @ + 1]
        /\ taken' = [route |-> p, node |-> n]
        /\ Record(p, n)

\* get_next_node
NextNode(p) ==
    LET n == (index[p] % Len(Pool[p])) + 1
    IN  /\ index' = [index EXCEPT ![p] = (@ + 1) % IndexSize]
        /\ taken' = [route |-> p, node |-> n]
        /\ Record(p, n)

\* route() fails without a route, and without a node behind the one it found.
Route(path) ==
    /\ asked' = path
    /\ \/ \E p \in Chosen(path) : Pool[p] # <<>> /\ NextNode(p)
       \/ /\ \A p \in Chosen(path) : Pool[p] = <<>>
          /\ taken' = NoRoute /\ UNCHANGED <<index, spread, cut>>

-----------------------------------------------------------------------------
\* A request goes to the longest registered prefix of its path, although the
\* router never compares lengths.
LongestPrefix ==
    taken # NoRoute =>
        /\ Fits(taken.route, asked)
        /\ \A q \in Routes : Fits(q, asked) => Len(q) <= Len(taken.route)

\* The nodes of a pool of any size get the same number of requests, but for
\* one and for one more each time the index wraps around inside a round; where
\* the pool's size divides the range of the index it never does.
Balanced ==
    \A p \in Routes : \A m, n \in Nodes(p) : spread[p][m] - spread[p][n] <= 1 + cut[p]
===============================================================================
