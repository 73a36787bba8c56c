----------------------------- MODULE TokenBucket -----------------------------
(***************************************************************************)
(* What a rate limiter promises: it passes no more than a bucket would     *)
(* that holds Size drops, gains Rate drops per tick of the clock and loses *)
(* Per drops with each request it passes.                                  *)
(***************************************************************************)
EXTENDS Integers

CONSTANTS Size, Rate, Per

VARIABLES level,  \* drops in the bucket
          answer  \* what the last request got, if no tick followed it

bucketVars == <<level, answer>>

Init == level = Size /\ answer = "none"

Tick == /\ level' = IF level + Rate < Size THEN level + Rate ELSE Size
        /\ answer' = "none"

Pass == level >= Per /\ level' = level - Per /\ answer' = "pass"

Deny == level' = level /\ answer' = "deny"

Next == Tick \/ Pass \/ Deny

Spec == Init /\ [][Next]_bucketVars
==============================================================================
