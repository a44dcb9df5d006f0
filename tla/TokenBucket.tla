---------------------------- MODULE TokenBucket -----------------------------
(***************************************************************************)
(* What the comment on abuse.Limiter.Allow promises, without its table:    *)
(* every key there will ever be has a bucket of its own that starts full,  *)
(* gains Rate tokens a minute up to that many, and is never forgotten.     *)
(* The only licence an implementation with a bounded table has is to turn  *)
(* away a key whose bucket is full.                                        *)
(*                                                                         *)
(* A level is counted in 1/Minute of a token, so that a tick adds Rate.    *)
(***************************************************************************)
EXTENDS Integers

CONSTANTS
    Key,        \* the identifiers that are limited
    Rate,       \* tokens a minute of each key, and its burst
    Minute      \* ticks in a minute

VARIABLES
    level,      \* the contents of every bucket
    answer      \* the last answer: to whom, what, and after how many ticks to retry

bucketVars == <<level, answer>>

Full(k) == Rate[k] * Minute
Refilled(k, units) == IF units + Rate[k] > Full(k) THEN Full(k) ELSE units + Rate[k]

BucketInit ==
    /\ level = [k \in Key |-> Full(k)]
    /\ answer = [key |-> CHOOSE k \in Key : TRUE, says |-> "nothing", retry |-> 0]

BucketTick ==
    /\ level' = [k \in Key |-> Refilled(k, level[k])]
    /\ answer' = [answer EXCEPT !.says = "nothing", !.retry = 0]

Grant(k) ==
    /\ level[k] >= Minute
    /\ level' = [level EXCEPT ![k] = @ - Minute]
    /\ answer' = [key |-> k, says |-> "yes", retry |-> 0]

\* The announced delay is the first whole tick at which the token is there.
Deny(k) ==
    /\ level[k] < Minute
    /\ UNCHANGED level
    /\ \E wait \in 1..Minute :
         /\ level[k] + wait * Rate[k] >= Minute
         /\ level[k] + (wait - 1) * Rate[k] < Minute
         /\ answer' = [key |-> k, says |-> "no", retry |-> wait]

TurnAway(k) ==
    /\ level[k] = Full(k)
    /\ UNCHANGED level
    /\ answer' = [key |-> k, says |-> "full", retry |-> Minute]

BucketNext == BucketTick \/ \E k \in Key : Grant(k) \/ Deny(k) \/ TurnAway(k)

BucketSpec == BucketInit /\ [][BucketNext]_bucketVars

=============================================================================
