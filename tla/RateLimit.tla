------------------------------ MODULE RateLimit ------------------------------
(***************************************************************************)
(* RateLimitFilter, the token bucket in front of the gateway.  doFilter    *)
(* holds mutex_ from the reading of the clock to its answer, so one call   *)
(* is one step, whichever worker makes it.  Time is a number of ticks; the *)
(* filter keeps the time of the last refill, the model the time since.     *)
(***************************************************************************)
EXTENDS Integers

CONSTANTS capacity,   \* capacity_
          Rate, Per,  \* rate_ is Rate / Per tokens per tick
          IntMax,     \* largest int
          MaxGap      \* bound: longer gaps count as this one

ASSUME RateAssumption == Rate \in Nat \ {0} /\ Per \in Nat \ {0}
ASSUME CapacityAssumption == capacity \in Nat /\ IntMax \in Nat /\ capacity <= IntMax
ASSUME GapAssumption == MaxGap \in Nat /\ MaxGap * Rate >= (IntMax + 1) * Per

IntMin == -IntMax - 1

VARIABLES tokens,  \* tokens_
          since,   \* now - last_time_
          answer,  \* of the last doFilter, if no tick followed it
          ideal    \* history: the bucket TokenBucket describes

vars == <<tokens, since, answer, ideal>>

\* Tokens are whole: what a full bucket has lost of the time since the last
\* refill comes on top of its capacity, and is less than one token.
Size == capacity * Per + Per - 1

TypeOK == /\ tokens \in IntMin .. capacity
          /\ since \in 0 .. MaxGap
          /\ answer \in {"none", "pass", "deny"}
          /\ ideal \in 0 .. Size

Init == tokens = capacity /\ since = 0 /\ answer = "none" /\ ideal = Size

\* elapsed.count() * rate_, truncated
Elapsed == (since * Rate) \div Per

\* static_cast<int>: a double outside int is undefined; x86-64 gives INT_MIN.
NewTokens == IF Elapsed <= IntMax THEN Elapsed ELSE IntMin

\* tokens_ + new_tokens wraps around.
Sum == IF tokens + NewTokens > IntMax THEN tokens + NewTokens - 2 * (IntMax + 1)
                                      ELSE tokens + NewTokens

Refills == since > 0 /\ NewTokens > 0

\* Mutant: no std::min with capacity_.
OnHandUncapped == IF Refills THEN Sum ELSE tokens

\* Tokens after the refill: at most capacity_
OnHand == IF ~Refills THEN tokens
          ELSE IF Sum < capacity THEN Sum ELSE capacity

\* Mutant: last_time_ moves although no token came.
DoFilterAlwaysNow ==
    /\ since' = 0
    /\ tokens' = IF OnHand > 0 THEN OnHand - 1 ELSE OnHand
    /\ answer' = IF OnHand > 0 THEN "pass" ELSE "deny"
    /\ ideal' = IF OnHand > 0 THEN ideal - Per ELSE ideal

\* Mutant: last_time_ does not move.
DoFilterNeverNow ==
    /\ since' = since
    /\ tokens' = IF OnHand > 0 THEN OnHand - 1 ELSE OnHand
    /\ answer' = IF OnHand > 0 THEN "pass" ELSE "deny"
    /\ ideal' = IF OnHand > 0 THEN ideal - Per ELSE ideal

DoFilter ==
    /\ since' = IF Refills THEN 0 ELSE since
    /\ tokens' = IF OnHand > 0 THEN OnHand - 1 ELSE OnHand
    /\ answer' = IF OnHand > 0 THEN "pass" ELSE "deny"
    /\ ideal' = IF OnHand > 0 THEN ideal - Per ELSE ideal

Tick ==
    /\ since' = IF since < MaxGap THEN since + 1 ELSE MaxGap
    /\ ideal' = IF ideal + Rate < Size THEN ideal + Rate ELSE Size
    /\ answer' = "none"
    /\ UNCHANGED tokens

Next == DoFilter \/ Tick

Spec == Init /\ [][Next]_vars

\* Time passes and requests come; either may pause for as long as it likes.
Fairness == WF_vars(Tick) /\ WF_vars(DoFilter)

FairSpec == Spec /\ Fairness

-----------------------------------------------------------------------------
\* The filter passes no more than a bucket of its capacity (and less than one
\* token more) that fills at rate_, after gaps of any length, those whose
\* refill overflows included.
Bucket == INSTANCE TokenBucket WITH level <- ideal
NeverOverPasses == Bucket!Spec

\* The bucket behind it: tokens_ and the time not yet turned into tokens are
\* worth no more than the ideal bucket holds, or that one is full.  Time that
\* no longer fits an int is worth nothing.
Worth == tokens * Per + (IF Elapsed <= IntMax THEN since * Rate ELSE 0)
IInv == TypeOK /\ (Worth <= ideal \/ ideal = Size)

\* Requests that come again and again are passed again and again, however
\* close together they are, as long as no refill overflows (after one that
\* does, last_time_ stays behind for good and the bucket only empties).
InRange == tokens + Elapsed <= IntMax
KeepsPassing == []InRange => []<>(answer = "pass")
==============================================================================
