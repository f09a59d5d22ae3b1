---------------------------- MODULE RateLimiter ----------------------------
(***************************************************************************)
(* middleware.RateLimit: a fixed window of requests per key, the address   *)
(* of a client and the route.  All requests of a route share one map of    *)
(* buckets behind a mutex, but each takes the time before it asks for the  *)
(* mutex, so requests enter the map in another order than their stamps.    *)
(***************************************************************************)
EXTENDS Integers, FiniteSets

CONSTANTS
  Requests,     \* the requests that arrive
  Keys,         \* addresses of clients
  Limit,        \* AUTH_RATE_LIMIT
  WindowSecs,   \* AUTH_RATE_WINDOW_SECONDS
  MaxBuckets,   \* the number of buckets from which the map is purged
  MaxDelay,     \* the longest a request waits between its stamp and the mutex
  MaxTime       \* bound: the clock stops here

ASSUME RequestsAssumption == IsFiniteSet(Requests)
ASSUME ConfigAssumption == Limit \in Int /\ WindowSecs \in Int
ASSUME BoundsAssumption == MaxBuckets \in Nat /\ MaxDelay \in Nat /\ MaxTime \in Nat

\* The values that replace a configuration that makes no sense.
EffectiveLimit == IF Limit <= 0 THEN 10 ELSE Limit
Window == IF WindowSecs <= 0 THEN 60 ELSE WindowSecs

VARIABLES
  now,          \* the clock
  pc,           \* the stage of each request
  key, stamp,   \* what a request computed before it asked for the mutex
  buckets,      \* the map, from some of the keys to their buckets
  entered,      \* history: when a request held the mutex
  counted       \* history: the requests the present bucket of a key let pass

vars == <<now, pc, key, stamp, buckets, entered, counted>>

NoKey == "none"
Stages == {"idle", "stamped", "admitted", "refused"}
Bucket == [windowStart: Nat, count: Nat]

Init ==
  /\ now = 0
  /\ pc = [r \in Requests |-> "idle"]
  /\ key = [r \in Requests |-> NoKey]
  /\ stamp = [r \in Requests |-> 0]
  /\ buckets = [k \in {} |-> [windowStart |-> 0, count |-> 0]]
  /\ entered = [r \in Requests |-> 0]
  /\ counted = [k \in Keys |-> {}]

-----------------------------------------------------------------------------
Expired_Never(b, t) == FALSE            \* mutant: the window is not compared
Expired(b, t) == t - b.windowStart >= Window

\* The buckets that are left after a purge at t.
Purged_Nothing(t) == buckets            \* mutant: the map is never purged
Purged_All(t) ==                        \* mutant: the map is replaced
  IF Cardinality(DOMAIN buckets) >= MaxBuckets
    THEN [k \in {} |-> [windowStart |-> 0, count |-> 0]]
    ELSE buckets
Purged(t) ==
  IF Cardinality(DOMAIN buckets) >= MaxBuckets
    THEN [k \in {k \in DOMAIN buckets : ~Expired(buckets[k], t)} |-> buckets[k]]
    ELSE buckets

\* Whether a request of key k stamped t opens a new bucket.
Opens(k, t) == k \notin DOMAIN Purged(t) \/ Expired(Purged(t)[k], t)

\* The bucket of k, the request included.
Counting_Early(k, t) ==                 \* mutant: the window begins before the request
  IF Opens(k, t)
    THEN [windowStart |-> t - 1, count |-> 1]
    ELSE [Purged(t)[k] EXCEPT !.count = @ + 1]
Counting(k, t) ==
  IF Opens(k, t)
    THEN [windowStart |-> t, count |-> 1]
    ELSE [Purged(t)[k] EXCEPT !.count = @ + 1]

Exceeded_ByTwo(b) == b.count > EffectiveLimit + 1  \* mutant: compared before the increment
Exceeded(b) == b.count > EffectiveLimit

-----------------------------------------------------------------------------
\* A request arrives and takes the time.
Arrive(r) ==
  /\ pc[r] = "idle"
  /\ \E k \in Keys : key' = [key EXCEPT ![r] = k]
  /\ stamp' = [stamp EXCEPT ![r] = now]
  /\ pc' = [pc EXCEPT ![r] = "stamped"]
  /\ UNCHANGED <<now, buckets, entered, counted>>

\* The request holds the mutex: it purges the map, counts itself and leaves.
Enter(r) ==
  LET k == key[r]
      b == Counting(k, stamp[r])
      before == IF Opens(k, stamp[r]) THEN {} ELSE counted[k]
  IN /\ pc[r] = "stamped"
     /\ buckets' = [j \in DOMAIN Purged(stamp[r]) \cup {k} |->
                      IF j = k THEN b ELSE buckets[j]]
     /\ pc' = [pc EXCEPT ![r] = IF Exceeded(b) THEN "refused" ELSE "admitted"]
     /\ entered' = [entered EXCEPT ![r] = now]
     /\ counted' = [counted EXCEPT ![k] =
                      IF Exceeded(b) THEN before ELSE before \cup {r}]
     /\ UNCHANGED <<now, key, stamp>>

\* Time passes, but no request waits for the mutex longer than MaxDelay.
Tick ==
  /\ now < MaxTime
  /\ \A r \in Requests : pc[r] = "stamped" => now - stamp[r] < MaxDelay
  /\ now' = now + 1
  /\ UNCHANGED <<pc, key, stamp, buckets, entered, counted>>

\* Every request was answered.
Terminating ==
  /\ \A r \in Requests : pc[r] \in {"admitted", "refused"}
  /\ UNCHANGED vars

Next == (\E r \in Requests : Arrive(r) \/ Enter(r)) \/ Tick \/ Terminating

Spec == Init /\ [][Next]_vars

-----------------------------------------------------------------------------
(* Properties.                                                             *)

TypeOK ==
  /\ now \in Nat
  /\ pc \in [Requests -> Stages]
  /\ key \in [Requests -> Keys \cup {NoKey}]
  /\ stamp \in [Requests -> Nat]
  /\ DOMAIN buckets \subseteq Keys
  /\ buckets \in [DOMAIN buckets -> Bucket]
  /\ entered \in [Requests -> Nat]
  /\ counted \in [Keys -> SUBSET Requests]

Passed(k, first, last) ==
  {r \in Requests : pc[r] = "admitted" /\ key[r] = k /\ entered[r] \in first..last}

RefusalsAreJust ==
  \A r \in Requests : pc[r] = "refused" =>
    Cardinality(Passed(key[r], stamp[r] - Window + 1, entered[r])) >= EffectiveLimit

LimitPerBucket ==
  \A k \in DOMAIN buckets :
    /\ Cardinality(counted[k]) <= EffectiveLimit
    /\ counted[k] \subseteq Passed(k, buckets[k].windowStart, now)

\* The limit is exact.  Nobody is refused below it: a client that is told to
\* slow down had its full limit of requests let through in the window before;
\* refused requests do not count, nor do those of other clients, nor those of
\* an earlier window, whatever the order in which the requests got the mutex.
\* And nobody passes above it: a bucket lets no more requests through, all of
\* them since its window began (middleware_rate_limit.go:31-47).
LimitIsExact == RefusalsAreJust /\ LimitPerBucket

\* How much a fixed window lets through at worst: less than three times the
\* limit in any stretch of a window's length.  The end of one window, a whole
\* one and, opened by a late stamp or after a purge, the beginning of a third
\* meet in it.  It takes delays of at most half the window
\* (middleware_rate_limit.go:31-46).
BurstBounded ==
  2 * MaxDelay <= Window =>
    \A k \in Keys, t \in 0..now :
      Cardinality(Passed(k, t, t + Window - 1)) < 3 * EffectiveLimit

\* The map holds more buckets than it is purged at only if as many clients
\* have been there within a window: the purge takes whatever is older
\* (middleware_rate_limit.go:33-39).
MapBoundedByTraffic ==
  Cardinality(DOMAIN buckets) > MaxBuckets =>
    \A k \in DOMAIN buckets, s \in Requests : pc[s] \in {"admitted", "refused"} =>
      \E r \in Requests : /\ key[r] = k
                          /\ pc[r] \in {"admitted", "refused"}
                          /\ entered[s] - entered[r] < Window + MaxDelay
=============================================================================
