---------------------------- MODULE AdmissionProofs ----------------------------
(***************************************************************************)
(* What the gateway does with a request before it asks a backend.  The     *)
(* rate limiter never passes more than the ideal bucket allows, for every  *)
(* capacity, rate and width of int; it does so as part of the gateway; and *)
(* the router's answer is the longest prefix, for every table of routes.   *)
(***************************************************************************)
EXTENDS Admission, TLAPS

-----------------------------------------------------------------------------
\* The rate limiter

\* Multiplication by a natural number keeps the order.
LEMMA MulMono ==
    ASSUME NEW a \in Int, NEW b \in Int, NEW p \in Nat, a <= b
    PROVE  a * p <= b * p
  OBVIOUS

\* Truncating division loses less than one divisor.
LEMMA DivBounds ==
    ASSUME NEW x \in Nat, NEW p \in Nat \ {0}
    PROVE  /\ x \div p \in Nat
           /\ (x \div p) * p <= x
           /\ x < (x \div p) * p + p
  OBVIOUS

-----------------------------------------------------------------------------

LEMMA SizeNat == Size \in Nat /\ Size = capacity * Per + (Per - 1) /\ Per - 1 \in Nat
  <1>1. capacity * Per \in Nat
    BY RateAssumption, CapacityAssumption
  <1> QED
    BY <1>1, RateAssumption, CapacityAssumption DEF Size

\* What a refill finds: whole tokens for the time since the last one.
LEMMA ElapsedBounds ==
    ASSUME since \in Nat
    PROVE  /\ Elapsed \in Nat
           /\ since * Rate \in Nat
           /\ Elapsed * Per <= since * Rate
           /\ since * Rate < Elapsed * Per + Per
  <1>1. since * Rate \in Nat
    BY RateAssumption
  <1> QED
    BY <1>1, DivBounds, RateAssumption DEF Elapsed

\* What a request finds in the bucket is worth no more than the ideal one.
LEMMA OnHandWorth ==
    ASSUME IInv
    PROVE  /\ OnHand \in IntMin .. capacity
           /\ OnHand * Per <= ideal
           /\ ~Refills => OnHand = tokens
           /\ ~Refills /\ Elapsed <= IntMax => since * Rate <= Per - 1
  <1> USE DEF IInv, TypeOK, IntMin
  <1>0. since \in Nat /\ tokens \in Int /\ ideal \in Nat /\ IntMax \in Nat /\ capacity \in Nat
        /\ Per \in Nat \ {0} /\ capacity <= IntMax
    BY GapAssumption, CapacityAssumption, RateAssumption, SizeNat
  <1>1. /\ Elapsed \in Nat
        /\ since * Rate \in Nat
        /\ Elapsed * Per <= since * Rate
        /\ since * Rate < Elapsed * Per + Per
    BY <1>0, ElapsedBounds
  <1>2. CASE Refills
    <2>1. NewTokens = Elapsed /\ Elapsed <= IntMax /\ Elapsed > 0
      BY <1>0, <1>1, <1>2 DEF Refills, NewTokens
    <2>2. Sum \in IntMin .. tokens + Elapsed
      BY <1>0, <1>1, <2>1 DEF Sum
    <2>3. OnHand \in IntMin .. capacity /\ OnHand <= tokens + Elapsed
      BY <1>0, <1>1, <1>2, <2>2 DEF OnHand
    <2>4. OnHand * Per <= (tokens + Elapsed) * Per
      BY <1>0, <1>1, <2>3, MulMono
    <2>5. (tokens + Elapsed) * Per = tokens * Per + Elapsed * Per
      BY <1>0, <1>1
    <2>6. Worth = tokens * Per + since * Rate
      BY <2>1 DEF Worth
    <2>7. OnHand * Per <= Worth
      <3>1. tokens * Per \in Int /\ Elapsed * Per \in Int /\ OnHand * Per \in Int
        BY <1>0, <1>1, <2>3
      <3> QED
        BY <3>1, <1>1, <2>4, <2>5, <2>6
    <2>8. OnHand * Per <= capacity * Per
      BY <1>0, <2>3, MulMono
    <2>9. OnHand * Per \in Int /\ Worth \in Int /\ capacity * Per \in Int
      BY <1>0, <1>1, <2>3, <2>6
    <2> QED
      BY <1>0, <1>2, <2>3, <2>7, <2>8, <2>9, SizeNat
  <1>3. CASE ~Refills
    <2>1. OnHand = tokens
      BY <1>3 DEF OnHand
    <2>2. tokens * Per <= Worth /\ Worth \in Int /\ tokens * Per \in Int
      BY <1>0, <1>1 DEF Worth
    <2>3. tokens * Per <= capacity * Per /\ capacity * Per \in Int
      BY <1>0, MulMono
    <2>4. ASSUME Elapsed <= IntMax PROVE since * Rate <= Per - 1
      <3>1. Elapsed = 0
        <4>1. CASE since = 0
          <5>1. since * Rate = 0
            BY <4>1, RateAssumption
          <5>2. Elapsed * 1 <= Elapsed * Per
            BY <1>0, <1>1
          <5> QED
            BY <5>1, <5>2, <1>0, <1>1
        <4>2. CASE since > 0
          BY <4>2, <1>1, <1>3, <2>4 DEF Refills, NewTokens
        <4> QED
          BY <4>1, <4>2, <1>0
      <3> QED
        BY <3>1, <1>0, <1>1
    <2> QED
      BY <1>0, <1>3, <2>1, <2>2, <2>3, <2>4, SizeNat
  <1> QED
    BY <1>2, <1>3

\* A longer gap is worth at least as many tokens.
LEMMA DivMono ==
    ASSUME NEW x \in Nat, NEW y \in Nat, NEW p \in Nat \ {0}, x <= y
    PROVE  x \div p <= y \div p
  OBVIOUS

-----------------------------------------------------------------------------

LEMMA InitInv == Init => IInv
  <1> SUFFICES ASSUME Init PROVE IInv
    OBVIOUS
  <1>1. tokens \in IntMin .. capacity /\ answer \in {"none", "pass", "deny"}
    BY CapacityAssumption DEF Init, IntMin
  <1>2. since \in 0 .. MaxGap
    BY GapAssumption DEF Init
  <1>3. ideal = Size /\ ideal \in 0 .. Size
    BY SizeNat DEF Init
  <1> QED
    BY <1>1, <1>2, <1>3 DEF IInv, TypeOK

\* A passed request costs both buckets one token, and the ideal one had it.
LEMMA PassInv ==
    ASSUME IInv, DoFilter, OnHand > 0
    PROVE  IInv' /\ ideal >= Per
  <1>0. /\ since \in 0 .. MaxGap /\ tokens \in Int /\ ideal \in 0 .. Size /\ ideal \in Nat
        /\ MaxGap \in Nat /\ IntMin \in Int /\ capacity \in Nat
        /\ Per \in Nat \ {0} /\ Rate \in Nat /\ IntMax \in Nat
    BY GapAssumption, CapacityAssumption, RateAssumption, SizeNat DEF IInv, TypeOK, IntMin
  <1>1. /\ OnHand \in IntMin .. capacity
        /\ OnHand * Per <= ideal
        /\ ~Refills => OnHand = tokens
        /\ ~Refills /\ Elapsed <= IntMax => since * Rate <= Per - 1
    BY OnHandWorth
  <1>2. 1 * Per <= OnHand * Per /\ OnHand * Per \in Int
    BY <1>0, <1>1, MulMono
  <1>3. ideal >= Per
    BY <1>0, <1>1, <1>2
  <1>4. /\ tokens' = OnHand - 1 /\ ideal' = ideal - Per
        /\ since' = IF Refills THEN 0 ELSE since
        /\ answer' = "pass"
    BY DEF DoFilter
  <1>5. TypeOK'
    BY <1>0, <1>1, <1>3, <1>4, CapacityAssumption DEF TypeOK, IntMin, Size
  <1>6. tokens' * Per = OnHand * Per - Per
    BY <1>0, <1>1, <1>4
  <1>7. CASE Refills
    <2>1. since' * Rate = 0
      BY <1>0, <1>4, <1>7
    <2>2. Worth' = tokens' * Per
      BY <2>1, <1>0, <1>1, <1>4 DEF Worth
    <2> QED
      BY <2>2, <1>0, <1>1, <1>2, <1>3, <1>4, <1>5, <1>6 DEF IInv
  <1>8. CASE ~Refills
    <2>1. since' = since /\ Elapsed' = Elapsed /\ since * Rate \in Int
      BY <1>0, <1>4, <1>8 DEF Elapsed
    <2>2. Worth' = Worth - Per /\ Worth \in Int
      BY <2>1, <1>0, <1>1, <1>2, <1>6, <1>8 DEF Worth
    <2>3. CASE Worth <= ideal
      BY <2>2, <2>3, <1>0, <1>3, <1>4, <1>5 DEF IInv
    <2>4. CASE ideal = Size
      <3>1. OnHand * Per <= capacity * Per /\ capacity * Per \in Int
        BY <1>0, <1>1, MulMono
      <3>2. Worth <= capacity * Per + (Per - 1)
        BY <3>1, <2>1, <1>0, <1>1, <1>2, <1>8 DEF Worth
      <3>3. Worth' <= ideal'
        BY <3>1, <3>2, <2>2, <2>4, <1>0, <1>4, SizeNat
      <3> QED
        BY <3>3, <1>3, <1>5 DEF IInv
    <2> QED
      BY <2>3, <2>4 DEF IInv
  <1> QED
    BY <1>3, <1>7, <1>8

\* A refused request costs neither bucket anything.
LEMMA DenyInv ==
    ASSUME IInv, DoFilter, ~(OnHand > 0)
    PROVE  IInv'
  <1>0. /\ since \in 0 .. MaxGap /\ tokens \in Int /\ ideal \in 0 .. Size /\ ideal \in Nat
        /\ MaxGap \in Nat /\ IntMin \in Int /\ capacity \in Nat
        /\ Per \in Nat \ {0} /\ Rate \in Nat /\ IntMax \in Nat
    BY GapAssumption, CapacityAssumption, RateAssumption, SizeNat DEF IInv, TypeOK, IntMin
  <1>1. /\ OnHand \in IntMin .. capacity
        /\ OnHand * Per <= ideal
        /\ ~Refills => OnHand = tokens
    BY OnHandWorth
  <1>2. /\ tokens' = OnHand /\ ideal' = ideal
        /\ since' = IF Refills THEN 0 ELSE since
        /\ answer' = "deny"
    BY DEF DoFilter
  <1>3. TypeOK'
    BY <1>0, <1>1, <1>2 DEF TypeOK, IntMin, Size
  <1>4. CASE Refills
    <2>1. since' * Rate = 0
      BY <1>0, <1>2, <1>4
    <2>2. Worth' = OnHand * Per
      BY <2>1, <1>0, <1>1, <1>2 DEF Worth
    <2> QED
      BY <2>2, <1>1, <1>2, <1>3 DEF IInv
  <1>5. CASE ~Refills
    <2>1. Worth' = Worth /\ Size' = Size
      BY <1>1, <1>2, <1>5 DEF Worth, Elapsed, Size
    <2> QED
      BY <2>1, <1>2, <1>3 DEF IInv
  <1> QED
    BY <1>4, <1>5

\* A tick brings the code's bucket no more than the ideal one.
LEMMA TickInv ==
    ASSUME IInv, Tick
    PROVE  IInv'
  <1>0. /\ since \in 0 .. MaxGap /\ tokens \in Int /\ ideal \in 0 .. Size /\ ideal \in Nat
        /\ MaxGap \in Nat /\ Size \in Nat /\ Per \in Nat \ {0} /\ Rate \in Nat
    BY GapAssumption, RateAssumption, SizeNat DEF IInv, TypeOK
  <1>1. /\ tokens' = tokens /\ answer' = "none"
        /\ since' = IF since < MaxGap THEN since + 1 ELSE MaxGap
        /\ ideal' = IF ideal + Rate < Size THEN ideal + Rate ELSE Size
    BY DEF Tick
  <1>2. /\ since' \in 0 .. MaxGap /\ since <= since' /\ since' <= since + 1
    BY <1>0, <1>1
  <1>3. ideal' \in 0 .. Size
    BY <1>0, <1>1
  <1>4. TypeOK'
    BY <1>1, <1>2, <1>3 DEF IInv, TypeOK, Size, IntMin
  <1>5. /\ since * Rate \in Nat /\ since' * Rate \in Nat
        /\ since * Rate <= since' * Rate
        /\ since' * Rate <= since * Rate + Rate
        /\ tokens * Per \in Int
    <2>1. since' \in Nat /\ since \in Nat /\ since <= since' /\ since' <= since + 1
      BY <1>0, <1>2
    <2>2. ASSUME NEW a \in Nat, NEW b \in Nat, a <= b, b <= a + 1
          PROVE  a * Rate <= b * Rate /\ b * Rate <= a * Rate + Rate
      <3>1. CASE b = a
        BY <2>2, <3>1, RateAssumption
      <3>2. CASE b = a + 1
        BY <2>2, <3>2, RateAssumption
      <3> QED
        BY <2>2, <3>1, <3>2
    <2>3. since * Rate <= since' * Rate /\ since' * Rate <= since * Rate + Rate
      BY <2>1, <2>2
    <2>4. ASSUME NEW a \in Nat PROVE a * Rate \in Nat
      BY RateAssumption
    <2>5. since * Rate \in Nat /\ since' * Rate \in Nat
      BY <2>1, <2>4
    <2>6. tokens * Per \in Int
      BY <1>0
    <2> QED
      BY <2>3, <2>5, <2>6
  <1>6. Elapsed <= Elapsed'
    BY <1>0, <1>5, DivMono DEF Elapsed
  <1>7. Elapsed \in Int /\ Elapsed' \in Int
    BY <1>0, <1>5, DivBounds DEF Elapsed
  <1>8. Worth \in Int /\ Worth' \in Int /\ Worth' <= Worth + Rate
    BY <1>0, <1>1, <1>5, <1>6, <1>7, CapacityAssumption DEF Worth
  <1> QED
    BY <1>0, <1>1, <1>3, <1>4, <1>8 DEF IInv, Size

LEMMA StepInv == IInv /\ [Next]_vars => IInv'
  <1> SUFFICES ASSUME IInv, [Next]_vars PROVE IInv'
    OBVIOUS
  <1>1. CASE DoFilter
    BY <1>1, PassInv, DenyInv
  <1>2. CASE Tick
    BY <1>2, TickInv
  <1>3. CASE UNCHANGED vars
    BY <1>3 DEF vars, IInv, TypeOK, Worth, Elapsed, Size
  <1> QED
    BY <1>1, <1>2, <1>3 DEF Next

-----------------------------------------------------------------------------

\* The inductive invariant: tokens_ and the time since the last refill are
\* worth no more than the ideal bucket holds, or that one is full.
THEOREM Invariance == Spec => []IInv
  BY InitInv, StepInv, PTL DEF Spec

\* tokens_ stays in int and below capacity_ (RateLimitFilter::doFilter).
THEOREM TypeCorrect == Spec => []TypeOK
  <1>1. IInv => TypeOK
    BY DEF IInv
  <1> QED
    BY <1>1, Invariance, PTL

\* doFilter passes no request that an ideal bucket would refuse, whatever the
\* capacity, the rate and the width of int are and whatever overflows.
THEOREM NeverMoreThanTheBucket == Spec => NeverOverPasses
  <1>1. Init => Bucket!Init
    BY DEF Init, Bucket!Init
  <1>2. ASSUME IInv, [Next]_vars PROVE [Bucket!Next]_(Bucket!bucketVars)
    <2>1. CASE DoFilter /\ OnHand > 0
      <3>1. ideal >= Per
        BY <1>2, <2>1, PassInv
      <3>2. Bucket!Pass
        BY <3>1, <2>1 DEF DoFilter, Bucket!Pass
      <3> QED
        BY <3>2 DEF Bucket!Next
    <2>2. CASE DoFilter /\ ~(OnHand > 0)
      <3>1. Bucket!Deny
        BY <2>2 DEF DoFilter, Bucket!Deny
      <3> QED
        BY <3>1 DEF Bucket!Next
    <2>3. CASE Tick
      <3>1. Bucket!Tick
        BY <2>3 DEF Tick, Bucket!Tick
      <3> QED
        BY <3>1 DEF Bucket!Next
    <2>4. CASE UNCHANGED vars
      BY <2>4 DEF vars, Bucket!bucketVars
    <2> QED
      BY <1>2, <2>1, <2>2, <2>3, <2>4 DEF Next
  <1> QED
    BY <1>1, <1>2, Invariance, PTL DEF Spec, NeverOverPasses, Bucket!Spec

-----------------------------------------------------------------------------
\* The router

\* Of two prefixes of one path the shorter comes first in the order of
\* std::map (Router::route relies on it).
LEMMA ShorterIsBefore ==
  ASSUME NEW path \in Seq(Nat), NEW p \in Seq(Nat), NEW q \in Seq(Nat),
         Fits(p, path), Fits(q, path), Len(p) < Len(q)
  PROVE  Before(p, q)
<1>1. Len(p) \in 0 .. Len(p) /\ Len(p) <= Len(q)
  OBVIOUS
<1>2. \A i \in 1 .. Len(p) : p[i] = path[i]
  BY DEF Fits
<1>3. \A i \in 1 .. Len(p) : q[i] = path[i]
  BY DEF Fits
<1> QED
  BY <1>1, <1>2, <1>3 DEF Before

\* So a route that no other comes after is the longest.
LEMMA ChosenIsLongest ==
  ASSUME NEW path \in Seq(Nat), NEW p \in Chosen(path)
  PROVE  /\ Fits(p, path)
         /\ \A q \in Routes : Fits(q, path) => Len(q) <= Len(p)
<1>1. p \in Routes /\ Fits(p, path) /\ \A q \in Routes : Fits(q, path) => ~Before(p, q)
  BY DEF Chosen
<1>2. ASSUME NEW q \in Routes, Fits(q, path)
      PROVE  Len(q) <= Len(p)
  <2>1. p \in Seq(Nat) /\ q \in Seq(Nat)
    BY <1>1, RoutesAssumption
  <2>2. ~(Len(p) < Len(q))
    BY <1>1, <1>2, <2>1, ShorterIsBefore
  <2> QED
    BY <2>1, <2>2
<1> QED
  BY <1>1, <1>2

\* A request, whichever route it takes, leaves the longest prefix in taken.
LEMMA RouteStep ==
  ASSUME NEW path \in Paths, Route(path)
  PROVE  LongestPrefix'
<1>1. path \in Seq(Nat) /\ asked' = path
  BY PathsAssumption DEF Route
<1>2. ASSUME NEW p \in Chosen(path), NextNode(p)
      PROVE  LongestPrefix'
  <2>1. taken'.route = p
    BY <1>2 DEF NextNode
  <2> QED
    BY <1>1, <2>1, ChosenIsLongest DEF LongestPrefix, Fits
<1>3. CASE taken' = NoRoute
  BY <1>3 DEF LongestPrefix, NoRoute
<1> QED
  BY <1>2, <1>3 DEF Route

\* A request goes to the longest prefix of its path, for every table of routes
\* and every path (Router::route).
THEOREM LongestPrefixTaken == AdmissionSpec => []LongestPrefix
<1>1. AdmissionInit => LongestPrefix
  BY DEF AdmissionInit, RouterInit, LongestPrefix
<1>2. ASSUME LongestPrefix, [AdmissionNext]_admissionVars
      PROVE  LongestPrefix'
  <2>1. ASSUME UNCHANGED routerVars
        PROVE  LongestPrefix'
    BY <1>2, <2>1 DEF routerVars, LongestPrefix, Fits, NoRoute
  <2>2. ASSUME NEW path \in Paths, Pass(path)
        PROVE  LongestPrefix'
    BY <2>2, RouteStep DEF Pass
  <2> QED
    BY <1>2, <2>1, <2>2 DEF AdmissionNext, Deny, Clock, admissionVars
<1> QED
  BY <1>1, <1>2, PTL DEF AdmissionSpec

-----------------------------------------------------------------------------
\* The balance of a pool: after index % size requests of a round, the first
\* index % size nodes have one request more than the others.  A round that the
\* wrap of the index cut short gave one to the first IndexSize % size.
Round(p) == index[p] % Len(Pool[p])
Rest(p) == IndexSize % Len(Pool[p])
Surplus(n, q, w, r) ==
    [m \in 1 .. n |-> (IF m <= q THEN w ELSE 0) + (IF m <= r THEN 1 ELSE 0)]
Followed(p) == spread[p] = Surplus(Len(Pool[p]), Rest(p), cut[p], Round(p))
SpreadInv ==
    /\ index \in [Routes -> 0 .. IndexSize - 1]
    /\ cut \in [Routes -> Nat]
    /\ DOMAIN spread = Routes
    /\ \A p \in Routes : Pool[p] # <<>> => Followed(p) \/ cut[p] >= MaxCuts
    /\ Balanced

\* Division with remainder, ...
LEMMA ModBounds ==
  ASSUME NEW x \in Nat, NEW n \in Nat \ {0}
  PROVE  /\ x % n \in Nat /\ x % n < n
         /\ x \div n \in Nat /\ x = n * (x \div n) + (x % n)
OBVIOUS

\* ... of which there is only one.
LEMMA ModUnique ==
  ASSUME NEW n \in Nat \ {0}, NEW k \in Nat, NEW r \in Nat, r < n,
         NEW x \in Nat, x = n * k + r
  PROVE  x % n = r
OBVIOUS

\* The index moves on in the round, and starts a new one where it wraps around,
\* IndexSize % n requests after the last began.
LEMMA RoundStep ==
  ASSUME NEW n \in Nat \ {0}, NEW i \in 0 .. IndexSize - 1
  PROVE  /\ i % n \in 0 .. n - 1 /\ IndexSize % n \in 0 .. n - 1
         /\ i + 1 < IndexSize =>
              /\ (i + 1) % IndexSize = i + 1
              /\ (i + 1) % n = IF (i % n) + 1 = n THEN 0 ELSE (i % n) + 1
         /\ i + 1 = IndexSize =>
              /\ (i + 1) % IndexSize = 0 /\ 0 % n = 0
              /\ IndexSize % n = IF (i % n) + 1 = n THEN 0 ELSE (i % n) + 1
<1> USE PoolAssumption
<1> DEFINE r == i % n
           k == i \div n
<1>1. r \in Nat /\ r < n /\ k \in Nat /\ i = n * k + r
  BY ModBounds
<1>2. IndexSize % n \in 0 .. n - 1
  BY ModBounds
<1>3. (i + 1) % n = IF r + 1 = n THEN 0 ELSE r + 1
  <2>1. CASE r + 1 = n
    <3> HIDE DEF r, k
    <3>1. i + 1 = n * (k + 1) + 0
      BY <1>1, <2>1
    <3>2. (i + 1) % n = 0
      BY <1>1, <3>1, ModUnique
    <3> QED
      BY <2>1, <3>2
  <2>2. CASE r + 1 # n
    <3> HIDE DEF r, k
    <3>1. i + 1 = n * k + (r + 1) /\ r + 1 < n
      BY <1>1, <2>2
    <3>2. (i + 1) % n = r + 1
      BY <1>1, <3>1, ModUnique
    <3> QED
      BY <2>2, <3>2
  <2> QED
    BY <2>1, <2>2
<1>4. ASSUME i + 1 < IndexSize PROVE (i + 1) % IndexSize = i + 1
  <2>1. i + 1 = IndexSize * 0 + (i + 1)
    OBVIOUS
  <2> QED
    BY <1>4, <2>1, ModUnique
<1>5. ASSUME i + 1 = IndexSize PROVE (i + 1) % IndexSize = 0 /\ 0 % n = 0
  <2>1. i + 1 = IndexSize * 1 + 0 /\ 0 = n * 0 + 0
    BY <1>5
  <2>2. (i + 1) % IndexSize = 0
    BY <2>1, ModUnique
  <2>3. 0 % n = 0
    BY <2>1, ModUnique
  <2> QED
    BY <2>2, <2>3
<1> QED
  BY <1>1, <1>2, <1>3, <1>4, <1>5

\* A pool that has nodes has a size.
LEMMA PoolSize ==
  ASSUME NEW p \in Routes, Pool[p] # <<>>
  PROVE  Len(Pool[p]) \in Nat \ {0} /\ Nodes(p) = 1 .. Len(Pool[p])
<1>1. Pool[p] \in Seq(STRING)
  BY PoolAssumption
<1>2. Len(Pool[p]) \in Nat /\ Len(Pool[p]) # 0
  BY <1>1
<1> QED
  BY <1>1, <1>2 DEF Nodes

\* One more for the node after the first r of n: the surplus of the round moves
\* on, and a round that is over is taken off.
LEMMA CountStep ==
  ASSUME NEW n \in Nat \ {0}, NEW r \in 0 .. n - 1, NEW w \in Nat, NEW q \in 0 .. n - 1
  PROVE  Count(Surplus(n, q, w, r), r + 1) =
           Surplus(n, q, w, IF r + 1 = n THEN 0 ELSE r + 1)
<1> DEFINE s == Surplus(n, q, w, r)
           more == [s EXCEPT ![r + 1] = @ + 1]
           base(m) == IF m <= q THEN w ELSE 0
<1>1. \A m \in 1 .. n : base(m) \in Nat
  OBVIOUS
<1>2. DOMAIN s = 1 .. n /\ r + 1 \in 1 .. n
  BY DEF Surplus
<1>3. ASSUME NEW m \in 1 .. n
      PROVE  more[m] = base(m) + (IF m <= r + 1 THEN 1 ELSE 0)
  BY <1>2 DEF Surplus
<1>4. DOMAIN more = 1 .. n /\ base(n) = 0
  BY <1>2
<1> HIDE DEF s, more, base
<1>5. CASE r + 1 = n
  <2>1. \A m \in 1 .. n : more[m] = base(m) + 1
    BY <1>3, <1>5
  <2>2. \A m \in 1 .. n : more[m] > 0 /\ more[m] - 1 = base(m) + 0
    BY <1>1, <2>1
  <2>3. Count(s, r + 1) = [m \in 1 .. n |-> more[m] - 1]
    BY <1>2, <2>2 DEF Count, more
  <2>4. [m \in 1 .. n |-> more[m] - 1] = [m \in 1 .. n |-> base(m) + 0]
    BY <2>2
  <2>5. Surplus(n, q, w, 0) = [m \in 1 .. n |-> base(m) + 0]
    <3>1. \A m \in 1 .. n : ~(m <= 0)
      OBVIOUS
    <3> QED
      BY <3>1 DEF Surplus, base
  <2> QED
    BY <1>5, <2>3, <2>4, <2>5 DEF s
<1>6. CASE r + 1 # n
  <2>1. more[n] = 0
    BY <1>3, <1>4, <1>6
  <2>2. n \in 1 .. n /\ ~(more[n] > 0)
    BY <2>1
  <2>3. Count(s, r + 1) = more
    BY <1>2, <2>2 DEF Count, more
  <2>4. more = [m \in 1 .. n |-> base(m) + (IF m <= r + 1 THEN 1 ELSE 0)]
    <3>1. more = [m \in 1 .. n |-> more[m]]
      BY <1>2 DEF more
    <3> QED
      BY <1>3, <3>1
  <2> QED
    BY <1>6, <2>3, <2>4 DEF base, s, Surplus
<1> QED
  BY <1>5, <1>6

\* A round cut short after r requests has given one to each of the first r.
LEMMA CutStep ==
  ASSUME NEW n \in Nat \ {0}, NEW r \in 1 .. n - 1, NEW w \in Nat
  PROVE  Surplus(n, r, w, r) = Surplus(n, r, w + 1, 0)
<1>1. ASSUME NEW m \in 1 .. n
      PROVE  (IF m <= r THEN w ELSE 0) + (IF m <= r THEN 1 ELSE 0)
             = (IF m <= r THEN w + 1 ELSE 0) + (IF m <= 0 THEN 1 ELSE 0)
  OBVIOUS
<1> QED
  BY <1>1 DEF Surplus

\* One more request for the next node of a pool keeps the count of its surplus.
LEMMA FollowedStep ==
  ASSUME SpreadInv, NEW p \in Routes, Pool[p] # <<>>, NextNode(p), Followed(p),
         cut[p] < MaxCuts
  PROVE  Followed(p)' /\ cut'[p] \in Nat
<1> DEFINE n == Len(Pool[p])
           i == index[p]
           r == i % n
           q == IndexSize % n
           w == cut[p]
           next == IF r + 1 = n THEN 0 ELSE r + 1
<1>1. n \in Nat \ {0}
  BY PoolSize
<1>2. i \in 0 .. IndexSize - 1 /\ w \in Nat /\ IndexSize \in Nat \ {0}
  BY PoolAssumption DEF SpreadInv
<1>3. /\ r \in 0 .. n - 1 /\ q \in 0 .. n - 1
      /\ i + 1 < IndexSize => (i + 1) % IndexSize = i + 1 /\ (i + 1) % n = next
      /\ i + 1 = IndexSize => (i + 1) % IndexSize = 0 /\ 0 % n = 0 /\ q = next
  BY <1>1, <1>2, RoundStep
<1>4. /\ index'[p] = (i + 1) % IndexSize
      /\ spread'[p] = Count(spread[p], r + 1)
      /\ cut'[p] = IF index'[p] = 0 /\ q # 0 THEN w + 1 ELSE w
  BY DEF NextNode, Record, SpreadInv
<1>5. spread[p] = Surplus(n, q, w, r)
  BY DEF Followed, Round, Rest
<1>6. Followed(p)' <=> spread'[p] = Surplus(n, q, cut'[p], index'[p] % n)
  BY DEF Followed, Round, Rest
<1>7. next \in 0 .. n - 1
  BY <1>1, <1>3
<1> HIDE DEF n, i, r, q, w
<1>8. spread'[p] = Surplus(n, q, w, next)
  BY <1>1, <1>2, <1>3, <1>4, <1>5, CountStep
<1> HIDE DEF next
<1>9. CASE i + 1 < IndexSize
  <2>1. index'[p] # 0 /\ index'[p] % n = next
    BY <1>2, <1>3, <1>4, <1>9
  <2> QED
    BY <1>2, <1>4, <1>6, <1>8, <2>1
<1>10. CASE i + 1 = IndexSize
  <2>1. index'[p] = 0 /\ index'[p] % n = 0 /\ q = next
    BY <1>3, <1>4, <1>10
  <2>2. CASE q = 0
    BY <1>2, <1>4, <1>6, <1>8, <2>1, <2>2
  <2>3. CASE q # 0
    <3>1. cut'[p] = w + 1 /\ q \in 1 .. n - 1
      BY <1>1, <1>3, <1>4, <2>1, <2>3
    <3>2. Surplus(n, q, w, q) = Surplus(n, q, w + 1, 0)
      BY <1>1, <1>2, <3>1, CutStep
    <3> QED
      BY <1>2, <1>6, <1>8, <2>1, <3>1, <3>2
  <2> QED
    BY <2>2, <2>3
<1> QED
  BY <1>2, <1>9, <1>10

LEMMA NextNodeStep ==
  ASSUME SpreadInv, NEW p \in Routes, Pool[p] # <<>>, NextNode(p)
  PROVE  SpreadInv'
<1>1. index' \in [Routes -> 0 .. IndexSize - 1]
  <2>1. index[p] \in 0 .. IndexSize - 1
    BY DEF SpreadInv
  <2>2. (index[p] + 1) % IndexSize \in 0 .. IndexSize - 1
    BY <2>1, PoolAssumption
  <2> QED
    BY <2>2 DEF NextNode, SpreadInv
<1>2. /\ DOMAIN spread' = Routes /\ DOMAIN cut' = Routes
      /\ \A q \in Routes \ {p} :
           spread'[q] = spread[q] /\ index'[q] = index[q] /\ cut'[q] = cut[q]
  BY DEF NextNode, Record, SpreadInv
<1>3. CASE cut[p] < MaxCuts
  <2>1. Followed(p)
    BY <1>3, PoolAssumption DEF SpreadInv
  <2>2. Followed(p)' /\ cut'[p] \in Nat
    BY <1>3, <2>1, FollowedStep
  <2>3. cut' \in [Routes -> Nat]
    BY <1>2, <2>2 DEF SpreadInv, NextNode, Record
  <2>4. ASSUME NEW q \in Routes, Pool[q] # <<>> PROVE Followed(q)' \/ cut'[q] >= MaxCuts
    <3>1. CASE q = p
      BY <2>2, <3>1
    <3>2. CASE q # p
      BY <1>2, <2>4, <3>2 DEF SpreadInv, Followed, Surplus, Round, Rest
    <3> QED
      BY <3>1, <3>2
  <2>5. ASSUME NEW q \in Routes, NEW m \in Nodes(q), NEW n \in Nodes(q)
        PROVE  spread'[q][m] - spread'[q][n] <= 1 + cut'[q]
    <3>1. CASE q = p
      <4>1. \A x, y \in Nodes(p) : spread'[p][x] - spread'[p][y] <= 1 + cut'[p]
        <5>1. \A x \in Nodes(p) : spread'[p][x] \in 0 .. 1 + cut'[p]
          BY <2>2, PoolSize DEF Followed, Surplus
        <5> QED
          BY <2>2, <5>1
      <4> QED
        BY <2>5, <3>1, <4>1
    <3>2. CASE q # p
      BY <1>2, <2>5, <3>2 DEF SpreadInv, Balanced
    <3> QED
      BY <3>1, <3>2
  <2> QED
    BY <1>1, <1>2, <2>3, <2>4, <2>5 DEF SpreadInv, Balanced, Nodes
<1>4. CASE ~(cut[p] < MaxCuts)
  <2>1. spread' = spread /\ cut' = cut /\ cut[p] >= MaxCuts
    BY <1>4, PoolAssumption DEF NextNode, Record, SpreadInv
  <2>2. ASSUME NEW q \in Routes, Pool[q] # <<>> PROVE Followed(q)' \/ cut'[q] >= MaxCuts
    BY <1>2, <2>1, <2>2 DEF SpreadInv, Followed, Surplus, Round, Rest
  <2> QED
    BY <1>1, <2>1, <2>2 DEF SpreadInv, Balanced, Nodes
<1> QED
  BY <1>3, <1>4

\* What the filter does leaves the balance alone.
LEMMA SpreadStep == SpreadInv /\ [AdmissionNext]_admissionVars => SpreadInv'
<1> SUFFICES ASSUME SpreadInv, [AdmissionNext]_admissionVars
             PROVE  SpreadInv'
  OBVIOUS
<1>1. ASSUME UNCHANGED <<index, spread, cut>>
      PROVE  SpreadInv'
  BY <1>1 DEF SpreadInv, Followed, Surplus, Round, Rest, Balanced
<1>2. ASSUME NEW path \in Paths, Pass(path)
      PROVE  SpreadInv'
  <2>1. CASE UNCHANGED <<index, spread, cut>>
    BY <2>1, <1>1
  <2>2. ASSUME NEW p \in Chosen(path), Pool[p] # <<>>, NextNode(p)
        PROVE  SpreadInv'
    BY <2>2, NextNodeStep DEF Chosen
  <2> QED
    BY <1>2, <2>1, <2>2 DEF Pass, Route
<1> QED
  BY <1>1, <1>2 DEF AdmissionNext, Deny, Clock, admissionVars, routerVars

\* The nodes of a pool get the same number of requests but for one, and one more
\* for each round that the index leaves by wrapping around, for pools of any
\* size and an index of any range (RoundRobinLoadBalancer::get_next_node).
THEOREM NodesBalanced == AdmissionSpec => []Balanced
<1>1. ASSUME AdmissionInit PROVE SpreadInv
  <2>1. /\ index = [p \in Routes |-> 0] /\ 0 \in 0 .. IndexSize - 1
        /\ cut = [p \in Routes |-> 0] /\ DOMAIN spread = Routes
    BY <1>1, PoolAssumption DEF AdmissionInit, RouterInit
  <2>2. ASSUME NEW p \in Routes, Pool[p] # <<>>
        PROVE  Followed(p)
    <3>1. Len(Pool[p]) \in Nat \ {0} /\ Nodes(p) = 1 .. Len(Pool[p])
      BY <2>2, PoolSize
    <3>2. 0 % Len(Pool[p]) = 0
      <4> DEFINE n == Len(Pool[p])
      <4>1. n \in Nat \ {0}
        BY <3>1
      <4> HIDE DEF n
      <4>2. 0 = n * 0 + 0
        BY <4>1
      <4>3. 0 % n = 0
        BY <4>1, <4>2, ModUnique
      <4> QED
        BY <4>3 DEF n
    <3>3. Round(p) = 0 /\ cut[p] = 0
      BY <2>1, <3>2 DEF Round
    <3>4. spread[p] = [n \in Nodes(p) |-> 0]
      BY <1>1 DEF AdmissionInit, RouterInit
    <3>5. \A n \in Nodes(p) :
            (IF n <= Rest(p) THEN cut[p] ELSE 0) + (IF n <= Round(p) THEN 1 ELSE 0) = 0
      BY <3>1, <3>3
    <3> QED
      BY <3>1, <3>4, <3>5 DEF Followed, Surplus
  <2>3. Balanced
    <3>1. \A p \in Routes : \A n \in Nodes(p) : spread[p][n] = 0
      BY <1>1 DEF AdmissionInit, RouterInit
    <3> QED
      BY <2>1, <3>1 DEF Balanced
  <2> QED
    BY <2>1, <2>2, <2>3 DEF SpreadInv
<1>2. SpreadInv => Balanced
  BY DEF SpreadInv
<1> QED
  BY <1>1, <1>2, SpreadStep, PTL DEF AdmissionSpec

-----------------------------------------------------------------------------
\* In front of the router the filter is the one RateLimit describes: every
\* call of OnMessage is one call of doFilter.
THEOREM FiltersFirst == AdmissionSpec => Spec
<1>1. AdmissionInit => Init
  BY DEF AdmissionInit
<1>2. [AdmissionNext]_admissionVars => [Next]_vars
  BY DEF AdmissionNext, Pass, Deny, Clock, admissionVars, Next
<1> QED
  BY <1>1, <1>2, PTL DEF AdmissionSpec, Spec

\* The gateway forwards no more requests than the bucket allows.
THEOREM AdmitsNoMore == AdmissionSpec => NeverOverPasses
BY FiltersFirst, NeverMoreThanTheBucket, PTL
===============================================================================
