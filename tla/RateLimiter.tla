----------------------------- MODULE RateLimiter -----------------------------
(***************************************************************************)
(* The token buckets of core/rate_limit.py behind RateLimitMiddleware.     *)
(* Time passes in ticks.  A bucket holds fractions of a token: its tokens  *)
(* are counted in units of one token over the window of its scope, so that *)
(* a tick adds limit units and a request costs window units.               *)
(***************************************************************************)
EXTENDS Naturals, FiniteSets, FiniteSetsExt

CONSTANTS Scopes,     \* of the paths: api and auth
          Addresses,  \* of the clients
          Limit, Window, \* of each scope
          MaxKeys,    \* the ceiling at which buckets are dropped
          MaxTime     \* bound: ticks

BucketKeys == Scopes \X Addresses

ASSUME RateLimiterAssumption ==
  /\ Limit \in [Scopes -> Nat \ {0}] /\ Window \in [Scopes -> Nat \ {0}]
  /\ MaxKeys \in Nat \ {0} /\ MaxTime \in Nat

VARIABLES
  now,      \* time.monotonic()
  buckets,  \* the dictionary, or NoBucket where there is no entry
  shed,     \* history: keys whose bucket was dropped before it could refill
  admitted  \* history: requests admitted in the window that begins at each
            \* tick, for every other key

rateVars == <<now, buckets, admitted, shed>>

NoBucket == [tokens |-> 0, at |-> 0, kept |-> FALSE]
LimitOf(k) == Limit[k[1]]
WindowOf(k) == Window[k[1]]
Full(k) == LimitOf(k) * WindowOf(k)
Kept == {k \in BucketKeys : buckets[k].kept}

RateLimiterTypeOK ==
  /\ now \in 0..MaxTime
  /\ buckets \in [BucketKeys -> [tokens : Nat, at : Nat, kept : BOOLEAN]]
  /\ \A k \in BucketKeys : buckets[k].tokens <= Full(k) /\ buckets[k].at <= now
  /\ admitted \in [BucketKeys -> [0..MaxTime -> Nat]]
  /\ shed \subseteq BucketKeys

\* Mutant: a bucket that was idle for long has no bound.
Refilled_Uncapped(k) == buckets[k].tokens + (now - buckets[k].at) * LimitOf(k)

\* The tokens of a bucket that is there.
Refilled(k) ==
  LET grown == buckets[k].tokens + (now - buckets[k].at) * LimitOf(k) IN
  IF grown < Full(k) THEN grown ELSE Full(k)

\* Buckets not touched for a whole window of the scope that is calling.
Stale(scope) == {k \in Kept : buckets[k].at + Window[scope] < now}

\* _evict_stale: those, or else the oldest tenth.
Evictions(scope) ==
  IF Cardinality(Kept) < MaxKeys THEN {{}}
  ELSE IF Stale(scope) # {} THEN {Stale(scope)}
  ELSE LET n == IF Cardinality(Kept) < 20 THEN 1 ELSE Cardinality(Kept) \div 10
       IN {dropped \in kSubset(n, Kept) :
             \A k \in dropped, m \in Kept \ dropped : buckets[k].at <= buckets[m].at}

\* The windows of k that are open: those that began less than a window ago.
Windows(k) == {t \in 0..now : now < t + WindowOf(k)}

\* acquire, for one request that is throttled.
Acquire(k) ==
  /\ \E dropped \in IF k \in Kept THEN {{}} ELSE Evictions(k[1]) :
       LET tokens == IF k \in Kept THEN Refilled(k) ELSE Full(k)
           allowed == tokens >= WindowOf(k)
           left == IF allowed THEN tokens - WindowOf(k) ELSE tokens
       IN
       /\ buckets' = [m \in BucketKeys |->
                        IF m = k THEN [tokens |-> left, at |-> now, kept |-> TRUE]
                        ELSE IF m \in dropped THEN NoBucket ELSE buckets[m]]
       /\ shed' = shed \cup {m \in dropped : buckets[m].at + WindowOf(m) >= now}
       /\ admitted' = [m \in BucketKeys |->
                        [t \in 0..MaxTime |->
                           IF m \in shed' THEN 0
                           ELSE IF allowed /\ m = k /\ t \in Windows(k)
                             THEN admitted[m][t] + 1
                           ELSE admitted[m][t]]]
  /\ UNCHANGED now

Tick ==
  /\ now < MaxTime
  /\ now' = now + 1
  /\ UNCHANGED <<buckets, admitted, shed>>

RateLimiterInit ==
  /\ now = 0
  /\ buckets = [k \in BucketKeys |-> NoBucket]
  /\ admitted = [k \in BucketKeys |-> [t \in 0..MaxTime |-> 0]]
  /\ shed = {}

RateLimiterNext == Tick \/ \E k \in BucketKeys : Acquire(k)

RateLimiterSpec == RateLimiterInit /\ [][RateLimiterNext]_rateVars

-----------------------------------------------------------------------------
\* "a fixed window lets a caller spend two full quotas across a window
\* boundary": a bucket never does, in any stretch of time as long as its
\* window, unless it was dropped to keep the dictionary bounded.
NoTwoQuotas ==
  \A k \in BucketKeys \ shed : \A t \in 0..now : admitted[k][t] < 2 * LimitOf(k)
=============================================================================
