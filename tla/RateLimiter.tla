----------------------------- MODULE RateLimiter -----------------------------
(***************************************************************************)
(* The gateway's token bucket of one client for one limit.  With Redis the *)
(* gateways share a bucket that a script updates, at the time the calling  *)
(* gateway says it is, and that Redis drops when it was not used for a     *)
(* while.  Without Redis each gateway keeps buckets in a map: a request    *)
(* looks its bucket up, then locks and spends, and a clean-up drops the    *)
(* buckets nobody used for a while.                                        *)
(*                                                                         *)
(* Tokens and times are whole numbers; a limit of zero, which turns the    *)
(* limiter off, is left out, as are the response headers.                  *)
(***************************************************************************)
EXTENDS Integers, FiniteSets

CONSTANTS
  Request,    \* requests a gateway serves at once
  Rate,       \* tokens per unit of time
  Burst,      \* capacity
  Keep,       \* how long an unused bucket is kept: EXPIRE, EntryTTL
  Skew,       \* how far the time at which a bucket is spent may lag behind
  MaxTime,    \* bound on time
  MaxBuckets, \* bound on buckets a gateway creates
  MaxOutages  \* bound on requests let through because Redis failed

ASSUME LimitAssumption ==
  /\ Rate \in Nat \ {0} /\ Burst \in Nat \ {0} /\ Keep \in Nat /\ Skew \in Nat
  /\ MaxTime \in Nat /\ MaxBuckets \in Nat \ {0} /\ MaxOutages \in Nat
  /\ IsFiniteSet(Request)
\* A bucket that is dropped would have been full, also for a request that holds it:
\* 1000 per second kept for a minute is far above the burst of 100.
ASSUME KeepAssumption == Rate * (Keep - Skew) >= Burst + Cardinality(Request)

VARIABLES
  shared,   \* whether the limiter uses Redis
  now,
  buckets,  \* every bucket that was made; Redis has the first only
  current,  \* the bucket the map has for the client; 0 is none
  seeker,   \* what each request is doing with which bucket
  passed,   \* how many requests were let through
  outages   \* how many of them because Redis failed

rateVars == <<shared, now, buckets, current, seeker, passed, outages>>

Looking == [at |-> "looking"]
Unmade == [tokens |-> 0, last |-> 0, used |-> -1]

RateTypeOK ==
  /\ shared \in BOOLEAN
  /\ now \in 0..MaxTime
  /\ current \in 0..MaxBuckets
  /\ buckets \in [1..MaxBuckets -> [tokens : Int, last : -Skew..now, used : -1..now]]
  /\ \A b \in 1..MaxBuckets : buckets[b].tokens <= Burst
  /\ seeker \in [Request -> [bucket : 1..MaxBuckets, clock : 0..now] \union {Looking}]
  /\ passed \in Nat
  /\ outages \in 0..MaxOutages

RateInit ==
  /\ shared \in BOOLEAN
  /\ now = 0
  /\ buckets = [b \in 1..MaxBuckets |-> Unmade]
  /\ current = 0
  /\ seeker = [q \in Request |-> Looking]
  /\ passed = 0
  /\ outages = 0

(***************************************************************************)
(* Refilling by the time that has passed, up to the capacity.  A clock     *)
(* behind the last one takes tokens away and the next one brings them      *)
(* back.                                                                   *)
(***************************************************************************)
Lesser(m, n) == IF m < n THEN m ELSE n
\* Mutant: the capacity is forgotten.
RefilledUncapped(b, clock) == b.tokens + (clock - b.last) * Rate

Refilled(b, clock) == Lesser(Burst, b.tokens + (clock - b.last) * Rate)

\* Mutant: the time of the update is not kept.
SpentUntimed(b, clock) ==
  [tokens |-> Refilled(b, clock) - (IF Refilled(b, clock) >= 1 THEN 1 ELSE 0),
   last |-> b.last, used |-> now]

Spent(b, clock) ==
  [tokens |-> Refilled(b, clock) - (IF Refilled(b, clock) >= 1 THEN 1 ELSE 0),
   last |-> clock, used |-> now]
Passes(b, clock) == passed' = passed + (IF Refilled(b, clock) >= 1 THEN 1 ELSE 0)

Full(clock) == [tokens |-> Burst, last |-> clock, used |-> now]

\* The script, with the clock of the gateway that calls it.
AskRedis ==
  /\ shared
  /\ \E clock \in (now - Skew)..now :
       LET b == IF current = 1 /\ now - buckets[1].used < Keep THEN buckets[1] ELSE Full(clock)
       IN buckets' = [buckets EXCEPT ![1] = Spent(b, clock)] /\ Passes(b, clock)
  /\ current' = 1
  /\ UNCHANGED <<shared, now, seeker, outages>>

\* The gateway lets a request pass when Redis fails.
PassOpen ==
  /\ shared
  /\ outages < MaxOutages
  /\ outages' = outages + 1
  /\ passed' = passed + 1
  /\ UNCHANGED <<shared, now, buckets, current, seeker>>

\* The map has the client's bucket or is given a full one.
Seek(q) ==
  /\ ~shared
  /\ seeker[q] = Looking
  /\ \/ /\ current # 0
        /\ seeker' = [seeker EXCEPT ![q] = [bucket |-> current, clock |-> now]]
        /\ UNCHANGED <<buckets, current>>
     \/ /\ current = 0
        /\ \E b \in 1..MaxBuckets :
             /\ buckets[b] = Unmade /\ \A c \in 1..(b - 1) : buckets[c] # Unmade
             /\ current' = b
             /\ buckets' = [buckets EXCEPT ![b] = Full(now)]
             /\ seeker' = [seeker EXCEPT ![q] = [bucket |-> b, clock |-> now]]
  /\ UNCHANGED <<shared, now, passed, outages>>

\* Under the bucket's lock, with the clock read before.
Spend(q) ==
  /\ seeker[q] # Looking
  /\ LET b == seeker[q].bucket
     IN /\ buckets' = [buckets EXCEPT ![b] = Spent(buckets[b], seeker[q].clock)]
        /\ Passes(buckets[b], seeker[q].clock)
  /\ seeker' = [seeker EXCEPT ![q] = Looking]
  /\ UNCHANGED <<shared, now, current, outages>>

\* The clean-up does not ask who has looked the bucket up.
CleanUp ==
  /\ ~shared
  /\ current # 0
  /\ buckets[current].last < now - Keep
  /\ current' = 0
  /\ UNCHANGED <<shared, now, buckets, seeker, passed, outages>>

\* A request spends at most Skew after it has read the clock.
Tick ==
  /\ now < MaxTime
  /\ \A q \in Request : seeker[q] # Looking => now - seeker[q].clock < Skew
  /\ now' = now + 1
  /\ UNCHANGED <<shared, buckets, current, seeker, passed, outages>>

RateNext ==
  \/ AskRedis \/ PassOpen \/ CleanUp \/ Tick
  \/ \E q \in Request : Seek(q) \/ Spend(q)

RateSpec == RateInit /\ [][RateNext]_rateVars

(***************************************************************************)
(* Properties                                                              *)
(***************************************************************************)
\* Whatever clocks the gateways pass, in whatever order, whoever holds a bucket
\* that was dropped, the requests let through are the burst and what the rate
\* allows since the beginning, and those of an outage of Redis.
PassesWithinRate == passed <= Burst + Rate * (now + Skew) + outages
=============================================================================
