------------------------------ MODULE Limiter -------------------------------
(***************************************************************************)
(* internal/abuse/limiter.go and the two middlewares that ask it           *)
(* (server.guarded and server.oidcRoute).  Time is kept as ages: how long  *)
(* ago a bucket was updated and the table swept; an age above the last     *)
(* value that a comparison can tell apart is that value.                   *)
(***************************************************************************)
EXTENDS Integers, FiniteSets, Sequences

CONSTANTS
    Key,        \* hashed identifiers
    GlobalKey,  \* the key every request of the scope shares
    Rate,       \* rate * RateMultiplier of each key
    Capacity,   \* NewLimiter's argument
    Minute,     \* ticks in time.Minute
    Idle,       \* ticks in the 10 minutes after which an entry is swept
    Caller      \* requests inside a middleware

\* An entry idle for this long is gone at the next call whatever happens.
Recent == Idle + Minute

ASSUME LimiterAssumption ==
    /\ Minute \in Nat \ {0} /\ Idle \in Nat /\ Idle >= Minute
    /\ Capacity \in Nat \ {0}
    /\ Rate \in [Key -> Nat \ {0}]
    /\ GlobalKey \in Key

VARIABLES
    entries,    \* the map: for the keys in it, what is left and how long ago
    sinceSweep, \* ticks since swept, up to Minute
    said,       \* the last answer of Allow
    asking      \* what each request still has to ask for, in order

limiterVars == <<entries, sinceSweep, said, asking>>

\* Contents in 1/Minute of a token: elapsed*rate/60 tokens are elapsed*Rate.
Bucket == [units : Nat, age : 0..Recent]
LimiterFull(k) == Rate[k] * Minute
LimiterMin(a, b) == IF a < b THEN a ELSE b
LimiterMax(a, b) == IF a > b THEN a ELSE b

LimiterInit ==
    /\ entries = [k \in {} |-> [units |-> 0, age |-> 0]]
    /\ sinceSweep = Minute
    /\ said = [key |-> CHOOSE k \in Key : TRUE, says |-> "nothing", retry |-> 0]
    /\ asking = [c \in Caller |-> <<>>]

Tick ==
    /\ entries' = [k \in DOMAIN entries |-> [entries[k] EXCEPT !.age = LimiterMin(@ + 1, Recent)]]
    /\ sinceSweep' = LimiterMin(sinceSweep + 1, Minute)
    /\ said' = [said EXCEPT !.says = "nothing", !.retry = 0]
    /\ UNCHANGED asking

\* Mutant: forgets an entry as soon as a minute went by without a sweep.
SweptEarly == {k \in DOMAIN entries : sinceSweep >= Minute /\ entries[k].age >= Minute - 1}

\* Mutant: a full table is never swept.
SweptNever == {}

\* The entries that the call removes before anything else.
Swept == {k \in DOMAIN entries : sinceSweep >= Minute /\ entries[k].age >= Idle}

\* Mutant: the refill is not capped at the burst.
ContentsUncapped(k, b) == b.units + b.age * Rate[k]

\* What the bucket holds once the time since its last update is credited.
Contents(k, b) == LimiterMin(LimiterFull(k), b.units + b.age * Rate[k])

\* Mutant: rounds down, so that the client comes back a moment too early.
RetryAfterFloor(k, units) == LimiterMax(1, (Minute - units) \div Rate[k])

\* int(math.Ceil((1 - tokens) * 60 / rate)), at least 1.
RetryAfter(k, units) == LimiterMax(1, (Minute - units + Rate[k] - 1) \div Rate[k])

Allow(k) ==
    LET kept == [j \in DOMAIN entries \ Swept |-> entries[j]]
        known == k \in DOMAIN kept
        units == IF known THEN Contents(k, kept[k]) ELSE LimiterFull(k)
        store(u) == [j \in DOMAIN kept \cup {k} |->
                        IF j = k THEN [units |-> u, age |-> 0] ELSE kept[j]]
    IN
    /\ sinceSweep' = IF sinceSweep >= Minute THEN 0 ELSE sinceSweep
    /\ \/ /\ ~known /\ Cardinality(DOMAIN kept) >= Capacity
          /\ entries' = kept
          /\ said' = [key |-> k, says |-> "full", retry |-> Minute]
       \/ /\ known \/ Cardinality(DOMAIN kept) < Capacity
          /\ units >= Minute
          /\ entries' = store(units - Minute)
          /\ said' = [key |-> k, says |-> "yes", retry |-> 0]
       \/ /\ known \/ Cardinality(DOMAIN kept) < Capacity
          /\ units < Minute
          /\ entries' = store(units)
          /\ said' = [key |-> k, says |-> "no", retry |-> RetryAfter(k, units)]

\* guarded asks for the global key and then for the request's own; oidcRoute
\* ranges over a map of the two, whose order Go leaves open.
Arrive(c, own, order) ==
    /\ asking[c] = <<>> /\ own # GlobalKey
    /\ order \in {<<GlobalKey, own>>, <<own, GlobalKey>>}
    /\ asking' = [asking EXCEPT ![c] = order]
    /\ UNCHANGED <<entries, sinceSweep, said>>

\* One call of Allow (the mutex is free in between); a refusal ends the loop.
Ask(c) ==
    /\ asking[c] # <<>>
    /\ Allow(asking[c][1])
    /\ asking' = [asking EXCEPT ![c] =
          IF said'.says = "yes" /\ Len(@) = 2 THEN <<@[2]>> ELSE <<>>]

LimiterNext ==
    \/ Tick
    \/ \E c \in Caller : Ask(c)
    \/ \E c \in Caller, own \in Key \ {GlobalKey} :
         Arrive(c, own, <<GlobalKey, own>>) \/ Arrive(c, own, <<own, GlobalKey>>)

LimiterSpec == LimiterInit /\ [][LimiterNext]_limiterVars

-----------------------------------------------------------------------------
(* Refinement *)

Reference == INSTANCE TokenBucket WITH
    level  <- [k \in Key |-> IF k \in DOMAIN entries THEN Contents(k, entries[k])
                                                     ELSE LimiterFull(k)],
    answer <- said

\* Sweeping cannot be noticed: Allow answers as if every key had a bucket that
\* is never forgotten, and its Retry-After is exact.  Only a key whose bucket
\* is full anyway is turned away for want of room.
ForgettingIsInvisible == Reference!BucketSpec

\* A key is turned away for want of room only while Capacity other keys were
\* used within the last Idle + Minute: the table does not stay full of entries
\* nobody uses, although it is swept only by calls and at most once a minute.
RoomForNewKeys ==
    said.says = "full" =>
        Cardinality({k \in DOMAIN entries \ {said.key} : entries[k].age < Recent}) >= Capacity

=============================================================================
