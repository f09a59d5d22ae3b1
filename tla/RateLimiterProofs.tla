------------------------- MODULE RateLimiterProofs -------------------------
(***************************************************************************)
(* What the rate limiter guarantees for any number of requests and         *)
(* clients, any configuration and any order in which the mutex is taken.   *)
(***************************************************************************)
EXTENDS RateLimiter, TLAPS, FiniteSetTheorems

Answered == {"admitted", "refused"}

\* A request on its way has a key and a stamp, and its stages are in order.
RequestInv ==
  \A r \in Requests :
    /\ pc[r] # "idle" => key[r] \in Keys
    /\ pc[r] = "stamped" => stamp[r] <= now /\ now - stamp[r] <= MaxDelay
    /\ pc[r] \in Answered => stamp[r] <= entered[r] /\ entered[r] <= now

\* A bucket counts the requests it let pass since its window began, until it
\* has let the limit pass.
Capped(n) == IF n <= EffectiveLimit THEN n ELSE EffectiveLimit
BucketInv ==
  \A k \in DOMAIN buckets :
    /\ buckets[k].count >= 1
    /\ Cardinality(counted[k]) = Capped(buckets[k].count)
    /\ \A q \in counted[k] :
         /\ pc[q] = "admitted"
         /\ key[q] = k
         /\ buckets[k].windowStart <= entered[q]
         /\ entered[q] <= now

TypeInv == TypeOK /\ RequestInv

-----------------------------------------------------------------------------
\* The limit and the window are positive whatever the configuration says.
LEMMA Defaults ==
  EffectiveLimit \in Nat /\ EffectiveLimit >= 1 /\ Window \in Nat /\ Window >= 1
BY ConfigAssumption DEF EffectiveLimit, Window

\* A purge only takes buckets away.
LEMMA PurgeKeeps ==
  ASSUME NEW t, NEW k \in DOMAIN Purged(t)
  PROVE  k \in DOMAIN buckets /\ Purged(t)[k] = buckets[k]
BY DEF Purged

\* The bucket of a request is new, or an open one that counts one more.
LEMMA CountingCases ==
  ASSUME TypeOK, NEW k \in Keys, NEW t \in Nat
  PROVE  /\ Opens(k, t) => Counting(k, t) = [windowStart |-> t, count |-> 1]
         /\ ~Opens(k, t) =>
              /\ k \in DOMAIN buckets
              /\ t - buckets[k].windowStart < Window
              /\ Counting(k, t).windowStart = buckets[k].windowStart
              /\ Counting(k, t).count = buckets[k].count + 1
         /\ Counting(k, t) \in Bucket
<1>1. CASE Opens(k, t)
  BY <1>1 DEF Counting, Bucket
<1>2. CASE ~Opens(k, t)
  <2>1. /\ k \in DOMAIN Purged(t)
        /\ ~Expired(Purged(t)[k], t)
    BY <1>2 DEF Opens
  <2>2. k \in DOMAIN buckets /\ Purged(t)[k] = buckets[k] /\ buckets[k] \in Bucket
    BY <2>1, PurgeKeeps DEF TypeOK
  <2>3. Counting(k, t) = [buckets[k] EXCEPT !.count = @ + 1]
    BY <1>2, <2>2 DEF Counting
  <2>4. t - buckets[k].windowStart < Window
    BY <2>1, <2>2, Defaults DEF Expired, Bucket
  <2>5. QED
    BY <1>2, <2>2, <2>3, <2>4 DEF Bucket
<1>3. QED
  BY <1>1, <1>2

\* A set of passed requests is finite.
LEMMA PassedFinite ==
  ASSUME NEW k, NEW i, NEW j PROVE IsFiniteSet(Passed(k, i, j))
<1>1. Passed(k, i, j) \subseteq Requests
  BY DEF Passed
<1>2. QED
  BY <1>1, RequestsAssumption, FS_Subset

-----------------------------------------------------------------------------
(* Types.                                                                  *)

\* What entering does to the map.
LEMMA EnterBuckets ==
  ASSUME TypeInv, NEW r \in Requests, Enter(r)
  PROVE  /\ key[r] \in Keys
         /\ stamp[r] \in Nat
         /\ DOMAIN buckets' = DOMAIN Purged(stamp[r]) \cup {key[r]}
         /\ buckets'[key[r]] = Counting(key[r], stamp[r])
         /\ \A k \in DOMAIN buckets' :
              k # key[r] => k \in DOMAIN Purged(stamp[r]) /\ buckets'[k] = buckets[k]
BY DEF TypeInv, TypeOK, RequestInv, Enter, Stages

LEMMA StepTypes == TypeInv /\ [Next]_vars => TypeInv'
<1> SUFFICES ASSUME TypeInv, [Next]_vars PROVE TypeInv'
  OBVIOUS
<1> USE DEF TypeInv, TypeOK, RequestInv, Answered, Stages
<1>1. ASSUME NEW r \in Requests, Arrive(r) PROVE TypeInv'
  BY <1>1, BoundsAssumption DEF Arrive
<1>2. ASSUME NEW r \in Requests, Enter(r) PROVE TypeInv'
  <2>1. DOMAIN buckets' \subseteq Keys /\ buckets' \in [DOMAIN buckets' -> Bucket]
    <3>1. /\ DOMAIN buckets' \subseteq Keys
          /\ \A k \in DOMAIN buckets' : buckets'[k] \in Bucket
      <4>1. /\ key[r] \in Keys
            /\ stamp[r] \in Nat
            /\ DOMAIN buckets' = DOMAIN Purged(stamp[r]) \cup {key[r]}
            /\ buckets'[key[r]] = Counting(key[r], stamp[r])
            /\ \A k \in DOMAIN buckets' :
                 k # key[r] => k \in DOMAIN Purged(stamp[r]) /\ buckets'[k] = buckets[k]
        BY <1>2, EnterBuckets
      <4>2. buckets'[key[r]] \in Bucket
        BY <4>1, CountingCases
      <4>3. DOMAIN Purged(stamp[r]) \subseteq DOMAIN buckets
        BY PurgeKeeps
      <4>4. QED
        BY <4>1, <4>2, <4>3
    <3>2. buckets' = [k \in DOMAIN buckets' |-> buckets'[k]]
      BY <1>2 DEF Enter
    <3>3. QED
      BY <3>1, <3>2
  <2>2. counted' \in [Keys -> SUBSET Requests]
    BY <1>2 DEF Enter
  <2>3. QED
    BY <1>2, <2>1, <2>2 DEF Enter
<1>3. CASE Tick
  BY <1>3, BoundsAssumption DEF Tick
<1>4. CASE UNCHANGED vars
  BY <1>4 DEF vars, Passed
<1>5. QED
  BY <1>1, <1>2, <1>3, <1>4 DEF Next, Terminating

LEMMA InitTypes == Init => TypeInv
BY DEF Init, TypeInv, TypeOK, RequestInv, Answered, Stages, Bucket

\* Every variable keeps its type, and requests wait no longer than MaxDelay.
THEOREM TypeCorrect == Spec => []TypeOK
<1>1. Spec => []TypeInv
  BY InitTypes, StepTypes, PTL DEF Spec
<1>2. TypeInv => TypeOK
  BY DEF TypeInv
<1>3. QED
  BY <1>1, <1>2, PTL

-----------------------------------------------------------------------------
(* The buckets.                                                            *)

\* The bucket of the request that holds the mutex.
LEMMA EnterCounts ==
  ASSUME TypeInv, BucketInv, NEW r \in Requests, Enter(r),
         NEW k \in Keys, k = key[r]
  PROVE  /\ buckets'[k].count >= 1
         /\ Cardinality(counted'[k]) = Capped(buckets'[k].count)
         /\ \A q \in counted'[k] :
              /\ pc'[q] = "admitted"
              /\ key'[q] = k
              /\ buckets'[k].windowStart <= entered'[q]
              /\ entered'[q] <= now
<1>1. PICK t \in Nat : t = stamp[r]
  BY DEF TypeInv, TypeOK
<1>2. /\ t <= now
      /\ pc[r] = "stamped"
      /\ buckets'[k] = Counting(k, t)
      /\ key' = key
      /\ pc' = [pc EXCEPT ![r] = IF Exceeded(buckets'[k]) THEN "refused" ELSE "admitted"]
      /\ entered' = [entered EXCEPT ![r] = now]
      /\ counted'[k] = LET before == IF Opens(k, t) THEN {} ELSE counted[k]
                       IN IF Exceeded(buckets'[k]) THEN before ELSE before \cup {r}
  BY <1>1, EnterBuckets DEF Enter, TypeInv, TypeOK, RequestInv
<1>3. /\ pc \in [Requests -> Stages]
      /\ entered \in [Requests -> Nat]
      /\ now \in Nat
      /\ counted[k] \subseteq Requests
  BY DEF TypeInv, TypeOK
<1>4. CASE Opens(k, t)
  <2>1. buckets'[k] = [windowStart |-> t, count |-> 1]
    BY <1>2, <1>4, CountingCases DEF TypeInv
  <2>2. counted'[k] = {r} /\ pc'[r] = "admitted" /\ entered'[r] = now
    BY <1>2, <1>3, <1>4, <2>1, Defaults DEF Exceeded
  <2>3. Cardinality({r}) = 1
    BY FS_Singleton
  <2>4. buckets'[k].count = 1 /\ buckets'[k].windowStart = t /\ Capped(1) = 1
    BY <2>1, Defaults DEF Capped
  <2>5. \A q \in {r} : /\ pc'[q] = "admitted"
                       /\ key'[q] = k
                       /\ t <= entered'[q]
                       /\ entered'[q] <= now
    BY <1>2, <1>3, <2>2
  <2>6. QED
    BY <2>2, <2>3, <2>4, <2>5
<1>5. CASE ~Opens(k, t)
  <2>1. /\ k \in DOMAIN buckets
        /\ buckets'[k].windowStart = buckets[k].windowStart
        /\ buckets'[k].count = buckets[k].count + 1
        /\ buckets[k].windowStart \in Nat
        /\ buckets[k].count \in Nat
    BY <1>2, <1>5, CountingCases DEF TypeInv, TypeOK, Bucket
  <2>2. /\ buckets[k].count >= 1
        /\ Cardinality(counted[k]) = Capped(buckets[k].count)
        /\ \A q \in counted[k] :
             /\ pc[q] = "admitted"
             /\ key[q] = k
             /\ buckets[k].windowStart <= entered[q]
             /\ entered[q] <= now
    BY <2>1 DEF BucketInv
  <2>3. \A q \in counted[k] : q # r /\ pc'[q] = pc[q] /\ entered'[q] = entered[q]
    BY <1>2, <1>3, <2>2
  <2>4. CASE Exceeded(buckets'[k])
    <3>1. counted'[k] = counted[k] /\ buckets[k].count + 1 > EffectiveLimit
      BY <1>2, <1>5, <2>1, <2>4 DEF Exceeded
    <3>2. Capped(buckets'[k].count) = Capped(buckets[k].count)
      BY <2>1, <3>1, Defaults DEF Capped
    <3>3. QED
      BY <1>2, <2>1, <2>2, <2>3, <3>1, <3>2
  <2>5. CASE ~Exceeded(buckets'[k])
    <3>1. /\ counted'[k] = counted[k] \cup {r}
          /\ pc'[r] = "admitted"
          /\ entered'[r] = now
          /\ buckets[k].count + 1 <= EffectiveLimit
      BY <1>2, <1>3, <1>5, <2>1, <2>5, Defaults DEF Exceeded
    <3>2. IsFiniteSet(counted[k])
      BY <1>3, RequestsAssumption, FS_Subset
    <3>3. Cardinality(counted'[k]) = Cardinality(counted[k]) + 1
      BY <2>3, <3>1, <3>2, FS_AddElement
    <3>4. Cardinality(counted'[k]) = Capped(buckets'[k].count)
      BY <2>1, <2>2, <3>1, <3>3, Defaults DEF Capped
    <3>5. counted[k] # {}
      <4>1. Cardinality(counted[k]) # 0
        BY <2>1, <2>2, Defaults DEF Capped
      <4>2. QED
        BY <4>1, FS_EmptySet
    <3>6. buckets[k].windowStart <= now
      BY <1>3, <2>1, <2>2, <3>5
    <3>7. \A q \in counted'[k] :
            /\ pc'[q] = "admitted"
            /\ key'[q] = k
            /\ buckets[k].windowStart <= entered'[q]
            /\ entered'[q] <= now
      BY <1>2, <1>3, <2>2, <2>3, <3>1, <3>6
    <3>8. QED
      BY <2>1, <2>2, <3>4, <3>7
  <2>6. QED
    BY <2>4, <2>5
<1>6. QED
  BY <1>4, <1>5

\* Every step keeps the count of every bucket in line with who passed.
LEMMA StepBuckets == TypeInv /\ BucketInv /\ [Next]_vars => BucketInv'
<1> SUFFICES ASSUME TypeInv, BucketInv, [Next]_vars PROVE BucketInv'
  OBVIOUS
<1>1. ASSUME NEW r \in Requests, Enter(r) PROVE BucketInv'
  <2>1. PICK k \in Keys : k = key[r]
    BY <1>1, EnterBuckets
  <2>2. now' = now
    BY <1>1 DEF Enter
  <2>3. ASSUME NEW j \in DOMAIN buckets', j # k
        PROVE  /\ buckets'[j].count >= 1
               /\ Cardinality(counted'[j]) = Capped(buckets'[j].count)
               /\ \A q \in counted'[j] :
                    /\ pc'[q] = "admitted"
                    /\ key'[q] = j
                    /\ buckets'[j].windowStart <= entered'[q]
                    /\ entered'[q] <= now
    <3>1. j \in DOMAIN buckets /\ buckets'[j] = buckets[j]
      BY <1>1, <2>1, <2>3, EnterBuckets, PurgeKeeps
    <3>2. j \in Keys /\ counted[j] \subseteq Requests /\ counted'[j] = counted[j]
      BY <1>1, <2>1, <2>3, <3>1 DEF Enter, TypeInv, TypeOK
    <3>3. \A q \in counted[j] :
            pc[q] = "admitted" => pc'[q] = pc[q] /\ key'[q] = key[q] /\ entered'[q] = entered[q]
      BY <1>1, <3>2 DEF Enter, TypeInv, TypeOK
    <3>4. QED
      BY <3>1, <3>2, <3>3 DEF BucketInv
  <2>4. \A j \in DOMAIN buckets' :
          /\ buckets'[j].count >= 1
          /\ Cardinality(counted'[j]) = Capped(buckets'[j].count)
          /\ \A q \in counted'[j] :
               /\ pc'[q] = "admitted"
               /\ key'[q] = j
               /\ buckets'[j].windowStart <= entered'[q]
               /\ entered'[q] <= now
    BY <1>1, <2>1, <2>3, EnterCounts
  <2>5. QED
    BY <2>2, <2>4 DEF BucketInv, Capped
<1>2. ASSUME UNCHANGED <<buckets, counted>>, now' \in Nat, now' >= now,
             \A q \in Requests : pc[q] = "admitted" =>
               pc'[q] = pc[q] /\ key'[q] = key[q] /\ entered'[q] = entered[q]
      PROVE  BucketInv'
  BY <1>2 DEF BucketInv, Capped, TypeInv, TypeOK
<1>3. ASSUME NEW r \in Requests, Arrive(r) PROVE BucketInv'
  BY <1>2, <1>3 DEF Arrive, TypeInv, TypeOK
<1>4. CASE Tick
  BY <1>2, <1>4 DEF Tick, TypeInv, TypeOK
<1>5. CASE UNCHANGED vars
  BY <1>2, <1>5 DEF vars, TypeInv, TypeOK
<1>6. QED
  BY <1>1, <1>3, <1>4, <1>5 DEF Next, Terminating

LEMMA InitBuckets == Init => BucketInv
BY DEF Init, BucketInv

\* The invariant the guarantees below follow from.
LEMMA Invariant == Spec => [](TypeInv /\ BucketInv)
<1>1. Init => TypeInv /\ BucketInv
  BY InitTypes, InitBuckets
<1>2. TypeInv /\ BucketInv /\ [Next]_vars => (TypeInv /\ BucketInv)'
  BY StepTypes, StepBuckets
<1>3. QED
  BY <1>1, <1>2, PTL DEF Spec

\* No bucket lets more requests pass than the limit.
LEMMA BucketsKeepTheLimit == TypeInv /\ BucketInv => LimitPerBucket
<1> SUFFICES ASSUME TypeInv, BucketInv, NEW k \in DOMAIN buckets
             PROVE  /\ Cardinality(counted[k]) <= EffectiveLimit
                    /\ counted[k] \subseteq Passed(k, buckets[k].windowStart, now)
  BY DEF LimitPerBucket
<1>1. /\ counted[k] \subseteq Requests
      /\ buckets[k].windowStart \in Nat
      /\ buckets[k].count \in Nat
      /\ entered \in [Requests -> Nat]
      /\ now \in Nat
  BY DEF TypeInv, TypeOK, Bucket
<1>2. Cardinality(counted[k]) <= EffectiveLimit
  BY <1>1, Defaults DEF BucketInv, Capped
<1>3. counted[k] \subseteq Passed(k, buckets[k].windowStart, now)
  BY <1>1 DEF BucketInv, Passed
<1>4. QED
  BY <1>2, <1>3

-----------------------------------------------------------------------------
(* Refusals.                                                               *)

\* What was decided about a request stays.
LEMMA AnsweredStay ==
  ASSUME TypeInv, [Next]_vars, NEW r \in Requests, pc[r] \in Answered
  PROVE  pc'[r] = pc[r] /\ key'[r] = key[r] /\ stamp'[r] = stamp[r] /\ entered'[r] = entered[r]
BY DEF TypeInv, TypeOK, Answered, Next, Arrive, Enter, Tick, Terminating, vars

\* Who has just been refused had a full bucket before it.
LEMMA JustRefused ==
  ASSUME TypeInv, BucketInv, NEW r \in Requests, Enter(r), pc'[r] = "refused",
         NEW k \in Keys, k = key[r]
  PROVE  /\ Cardinality(counted[k]) = EffectiveLimit
         /\ counted[k] \subseteq Requests
         /\ \A q \in counted[k] :
              /\ pc[q] = "admitted"
              /\ key[q] = k
              /\ entered[q] >= stamp[r] - Window + 1
              /\ entered[q] <= now
<1>1. PICK t \in Nat : t = stamp[r]
  BY DEF TypeInv, TypeOK
<1>2. Exceeded(Counting(k, t))
  BY <1>1, EnterBuckets DEF Enter, TypeInv, TypeOK
<1>3. ~Opens(k, t)
  BY <1>2, CountingCases, Defaults DEF TypeInv, Exceeded
<1>4. /\ k \in DOMAIN buckets
      /\ t - buckets[k].windowStart < Window
      /\ buckets[k].count + 1 > EffectiveLimit
      /\ buckets[k].windowStart \in Nat
      /\ buckets[k].count \in Nat
  BY <1>2, <1>3, CountingCases DEF TypeInv, TypeOK, Exceeded, Bucket
<1>5. counted[k] \subseteq Requests /\ entered \in [Requests -> Nat]
  BY DEF TypeInv, TypeOK
<1>6. Cardinality(counted[k]) = EffectiveLimit
  BY <1>4, Defaults DEF BucketInv, Capped
<1>7. QED
  BY <1>1, <1>4, <1>5, <1>6, Defaults DEF BucketInv

LEMMA StepJust == TypeInv /\ BucketInv /\ RefusalsAreJust /\ [Next]_vars => RefusalsAreJust'
<1> SUFFICES ASSUME TypeInv, BucketInv, RefusalsAreJust, [Next]_vars,
                    NEW r \in Requests, pc'[r] = "refused",
                    NEW k, k = key'[r], NEW i, i = stamp'[r] - Window + 1,
                    NEW j, j = entered'[r]
             PROVE  Cardinality(Passed(k, i, j)') >= EffectiveLimit
  BY DEF RefusalsAreJust, Passed
<1>1. IsFiniteSet(Passed(k, i, j)')
  <2>1. Passed(k, i, j)' \subseteq Requests
    BY DEF Passed
  <2>2. QED
    BY <2>1, RequestsAssumption, FS_Subset
<1>2. \A S : S \subseteq Passed(k, i, j)' => Cardinality(S) <= Cardinality(Passed(k, i, j)')
  BY <1>1, FS_Subset
<1>3. \A S : IsFiniteSet(S) => Cardinality(S) \in Nat
  BY FS_CardinalityType
<1>4. CASE pc[r] = "refused"
  <2>1. k = key[r] /\ i = stamp[r] - Window + 1 /\ j = entered[r]
    BY <1>4, AnsweredStay DEF Answered
  <2>2. Passed(k, i, j) \subseteq Passed(k, i, j)'
    BY AnsweredStay DEF Passed, Answered
  <2>3. Cardinality(Passed(k, i, j)) >= EffectiveLimit
    BY <1>4, <2>1 DEF RefusalsAreJust
  <2>4. QED
    BY <1>1, <1>2, <1>3, <2>2, <2>3, PassedFinite, Defaults
<1>5. CASE pc[r] # "refused"
  <2>1. Enter(r)
    <3>1. ASSUME NEW q \in Requests, Arrive(q) PROVE pc'[r] \in {"stamped", pc[r]}
      BY <3>1 DEF Arrive, TypeInv, TypeOK
    <3>2. ASSUME NEW q \in Requests, Enter(q), q # r PROVE pc'[r] = pc[r]
      BY <3>2 DEF Enter, TypeInv, TypeOK
    <3>3. CASE Tick \/ UNCHANGED vars
      BY <1>5, <3>3 DEF Tick, vars
    <3>4. QED
      BY <1>5, <3>1, <3>2, <3>3 DEF Next, Terminating
  <2>2. k \in Keys /\ k = key[r] /\ i = stamp[r] - Window + 1 /\ j = now
    BY <2>1, EnterBuckets DEF Enter, TypeInv, TypeOK
  <2>3. counted[k] \subseteq Requests /\ Cardinality(counted[k]) = EffectiveLimit
    BY <2>1, <2>2, JustRefused
  <2>4. counted[k] \subseteq Passed(k, i, j)'
    <3>1. /\ i \in Int /\ j \in Nat
          /\ entered \in [Requests -> Nat]
      BY <2>1, <2>2, EnterBuckets, Defaults DEF TypeInv, TypeOK
    <3>2. \A q \in counted[k] :
            pc[q] = "admitted" /\ key[q] = k /\ entered[q] \in i..j
      BY <2>1, <2>2, <2>3, <3>1, JustRefused
    <3>3. \A q \in counted[k] :
            pc'[q] = "admitted" /\ key'[q] = k /\ entered'[q] \in i..j
      BY <2>3, <3>2, AnsweredStay DEF Answered
    <3>4. QED
      BY <2>3, <3>3 DEF Passed
  <2>5. QED
    BY <1>1, <1>2, <1>3, <2>3, <2>4, Defaults
<1>6. QED
  BY <1>4, <1>5

\* Nobody is refused whose window did not let the limit pass, and no bucket
\* lets more than the limit pass, for any number of requests, clients and
\* buckets and any delay.
THEOREM LimitHolds == Spec => []LimitIsExact
<1>1. Init => RefusalsAreJust
  BY DEF Init, RefusalsAreJust
<1>2. Spec => [](TypeInv /\ BucketInv /\ RefusalsAreJust)
  BY <1>1, InitTypes, InitBuckets, StepTypes, StepBuckets, StepJust, PTL DEF Spec
<1>3. TypeInv /\ BucketInv /\ RefusalsAreJust => LimitIsExact
  BY BucketsKeepTheLimit DEF LimitIsExact
<1>4. QED
  BY <1>2, <1>3, PTL

-----------------------------------------------------------------------------
(* The size of the map.                                                    *)

FiniteMap == IsFiniteSet(DOMAIN buckets)

LEMMA StepFinite == TypeInv /\ FiniteMap /\ [Next]_vars => FiniteMap'
<1> SUFFICES ASSUME TypeInv, FiniteMap, [Next]_vars PROVE IsFiniteSet(DOMAIN buckets')
  BY DEF FiniteMap
<1>1. ASSUME NEW r \in Requests, Enter(r) PROVE IsFiniteSet(DOMAIN buckets')
  <2>1. /\ DOMAIN buckets' = DOMAIN Purged(stamp[r]) \cup {key[r]}
        /\ DOMAIN Purged(stamp[r]) \subseteq DOMAIN buckets
    BY <1>1, EnterBuckets, PurgeKeeps
  <2>2. IsFiniteSet(DOMAIN Purged(stamp[r]))
    BY <2>1, FS_Subset DEF FiniteMap
  <2>3. QED
    BY <2>1, <2>2, FS_AddElement
<1>2. CASE UNCHANGED buckets
  BY <1>2 DEF FiniteMap
<1>3. QED
  BY <1>1, <1>2 DEF Next, Arrive, Tick, Terminating, vars

\* A map that has outgrown the purge holds open buckets only.
LEMMA OutgrownIsOpen ==
  ASSUME TypeInv, FiniteMap, NEW r \in Requests, Enter(r),
         Cardinality(DOMAIN buckets') > MaxBuckets,
         NEW j \in DOMAIN buckets'
  PROVE  stamp[r] - buckets'[j].windowStart < Window /\ buckets'[j].windowStart \in Nat
<1>1. PICK t \in Nat, k \in Keys : t = stamp[r] /\ k = key[r]
  BY EnterBuckets
<1>2. /\ DOMAIN buckets' = DOMAIN Purged(t) \cup {k}
      /\ buckets'[k] = Counting(k, t)
      /\ j # k => j \in DOMAIN Purged(t) /\ j \in DOMAIN buckets /\ buckets'[j] = buckets[j]
  BY <1>1, EnterBuckets, PurgeKeeps
<1>3. Cardinality(DOMAIN buckets) >= MaxBuckets
  <2>1. SUFFICES ASSUME ~(Cardinality(DOMAIN buckets) >= MaxBuckets) PROVE FALSE
    OBVIOUS
  <2>2. DOMAIN buckets' = DOMAIN buckets \cup {k}
    BY <1>2, <2>1 DEF Purged
  <2>3. /\ Cardinality(DOMAIN buckets) \in Nat
        /\ Cardinality(DOMAIN buckets') <= Cardinality(DOMAIN buckets) + 1
        /\ Cardinality(DOMAIN buckets') \in Nat
    <3>1. IsFiniteSet(DOMAIN buckets)
      BY DEF FiniteMap
    <3>2. /\ IsFiniteSet(DOMAIN buckets \cup {k})
          /\ Cardinality(DOMAIN buckets \cup {k}) =
               IF k \in DOMAIN buckets THEN Cardinality(DOMAIN buckets)
                                       ELSE Cardinality(DOMAIN buckets) + 1
      BY <3>1, FS_AddElement
    <3>3. Cardinality(DOMAIN buckets) \in Nat
      BY <3>1, FS_CardinalityType
    <3>4. QED
      BY <2>2, <3>2, <3>3
  <2>4. QED
    BY <2>1, <2>3, BoundsAssumption
<1>4. CASE j = k
  BY <1>1, <1>2, <1>4, CountingCases, Defaults DEF TypeInv, TypeOK, Bucket
<1>5. CASE j # k
  <2>1. ~Expired(buckets[j], t) /\ buckets[j] \in Bucket
    BY <1>2, <1>3, <1>5 DEF Purged, TypeInv, TypeOK
  <2>2. QED
    BY <1>1, <1>2, <1>5, <2>1, Defaults DEF Expired, Bucket
<1>6. QED
  BY <1>4, <1>5

LEMMA StepMap ==
  TypeInv /\ BucketInv /\ FiniteMap /\ MapBoundedByTraffic /\ [Next]_vars
    => MapBoundedByTraffic'
<1> SUFFICES ASSUME TypeInv, BucketInv, FiniteMap, MapBoundedByTraffic, [Next]_vars,
                    Cardinality(DOMAIN buckets') > MaxBuckets,
                    NEW k \in DOMAIN buckets', NEW s \in Requests, pc'[s] \in Answered
             PROVE  \E q \in Requests : /\ key'[q] = k
                                        /\ pc'[q] \in Answered
                                        /\ entered'[s] - entered'[q] < Window + MaxDelay
  BY DEF MapBoundedByTraffic, Answered
<1>1. TypeInv' /\ BucketInv'
  BY StepTypes, StepBuckets
<1>2. ASSUME NEW r \in Requests, Enter(r)
      PROVE  \E q \in Requests : /\ key'[q] = k
                                 /\ pc'[q] \in Answered
                                 /\ entered'[s] - entered'[q] < Window + MaxDelay
  <2>1. /\ stamp[r] - buckets'[k].windowStart < Window
        /\ buckets'[k].windowStart \in Nat
    BY <1>2, OutgrownIsOpen
  <2>2. /\ stamp[r] \in Nat
        /\ now' = now /\ now \in Nat
        /\ now - stamp[r] <= MaxDelay
    BY <1>2 DEF Enter, TypeInv, TypeOK, RequestInv
  <2>3. counted'[k] # {}
    <3>1. /\ buckets'[k].count >= 1
          /\ buckets'[k].count \in Nat
          /\ Cardinality(counted'[k]) = Capped(buckets'[k].count)
      BY <1>1 DEF BucketInv, Capped, TypeInv, TypeOK, Bucket
    <3>2. QED
      BY <3>1, Defaults, FS_EmptySet DEF Capped
  <2>4. PICK q \in counted'[k] : TRUE
    BY <2>3
  <2>5. /\ q \in Requests
        /\ pc'[q] = "admitted"
        /\ key'[q] = k
        /\ buckets'[k].windowStart <= entered'[q]
    BY <1>1, <2>4 DEF BucketInv, TypeInv, TypeOK
  <2>6. entered'[s] \in Nat /\ entered'[q] \in Nat /\ entered'[s] <= now
    BY <1>1, <2>2, <2>5 DEF TypeInv, TypeOK, RequestInv
  <2>7. QED
    BY <2>1, <2>2, <2>5, <2>6, Defaults, BoundsAssumption DEF Answered
<1>3. ASSUME buckets' = buckets, pc[s] \in Answered
      PROVE  \E q \in Requests : /\ key'[q] = k
                                 /\ pc'[q] \in Answered
                                 /\ entered'[s] - entered'[q] < Window + MaxDelay
  <2>1. PICK q \in Requests : /\ key[q] = k
                              /\ pc[q] \in Answered
                              /\ entered[s] - entered[q] < Window + MaxDelay
    BY <1>3 DEF MapBoundedByTraffic, Answered
  <2>2. QED
    BY <1>3, <2>1, AnsweredStay
<1>4. ASSUME NEW r \in Requests, Arrive(r)
      PROVE  buckets' = buckets /\ pc[s] \in Answered
  BY <1>4 DEF Arrive, Answered, TypeInv, TypeOK
<1>5. QED
  BY <1>2, <1>3, <1>4 DEF Next, Tick, Terminating, vars

\* The map never holds more than it is purged at unless that many clients
\* were there within a window and the longest delay.
THEOREM MapIsBounded == Spec => []MapBoundedByTraffic
<1>1. Init => FiniteMap /\ MapBoundedByTraffic
  <2> SUFFICES ASSUME Init PROVE DOMAIN buckets = {}
    BY FS_EmptySet DEF FiniteMap, MapBoundedByTraffic
  <2> QED
    BY DEF Init
<1>2. Spec => [](TypeInv /\ BucketInv /\ FiniteMap /\ MapBoundedByTraffic)
  BY <1>1, InitTypes, InitBuckets, StepTypes, StepBuckets, StepFinite, StepMap, PTL DEF Spec
<1>3. QED
  BY <1>2, PTL

-----------------------------------------------------------------------------
(* Bursts.  counted[k] is what the last bucket of k let pass, and stays    *)
(* after a purge took the bucket; Earlier(k) is what the buckets before it *)
(* let pass.  The invariant bounds how much of it is recent, relative to   *)
(* the request that opened the last bucket.                                *)

Admitted(k) == {q \in Requests : pc[q] = "admitted" /\ key[q] = k}
Earlier(k) == Admitted(k) \ counted[k]
Since(k, x) == {q \in Earlier(k) : entered[q] >= x}

Opener(k, o) ==
  /\ \A q \in Earlier(k) : entered[q] <= entered[o]
  /\ \A x \in Int : x > entered[o] + MaxDelay - Window =>
       Cardinality(Since(k, x)) < EffectiveLimit
  /\ \A x \in Int : x > entered[o] + 2 * MaxDelay - 2 * Window =>
       Cardinality(Since(k, x)) < 2 * EffectiveLimit
  /\ k \in DOMAIN buckets => buckets[k].windowStart >= entered[o] - MaxDelay
  /\ k \notin DOMAIN buckets => now >= entered[o] - MaxDelay + Window

KeyInv(k) ==
  /\ counted[k] \subseteq Admitted(k)
  /\ Cardinality(counted[k]) <= EffectiveLimit
  /\ counted[k] = {} => Admitted(k) = {} /\ k \notin DOMAIN buckets
  /\ counted[k] # {} => \E o \in counted[k] : Opener(k, o)

BurstInv == \A k \in Keys : KeyInv(k)

\* Requests are finite in number, and so is what passed.
LEMMA PartsFinite ==
  ASSUME NEW S, S \subseteq Requests
  PROVE  IsFiniteSet(S) /\ Cardinality(S) \in Nat
BY RequestsAssumption, FS_Subset, FS_CardinalityType

\* A set is no larger than two that cover it.
LEMMA CoveredBy ==
  ASSUME NEW S, NEW A, NEW B, A \subseteq Requests, B \subseteq Requests, S \subseteq A \cup B
  PROVE  Cardinality(S) <= Cardinality(A) + Cardinality(B)
<1>1. A \cup B \subseteq Requests /\ A \cap B \subseteq Requests /\ S \subseteq Requests
  OBVIOUS
<1>2. /\ IsFiniteSet(A) /\ IsFiniteSet(B) /\ IsFiniteSet(A \cup B)
      /\ {Cardinality(S), Cardinality(A), Cardinality(B), Cardinality(A \cap B),
          Cardinality(A \cup B)} \subseteq Nat
  BY <1>1, PartsFinite
<1>3. Cardinality(S) <= Cardinality(A \cup B)
  BY <1>2, FS_Subset
<1>4. Cardinality(A \cup B) = Cardinality(A) + Cardinality(B) - Cardinality(A \cap B)
  BY <1>2, FS_Union
<1>5. QED
  BY <1>2, <1>3, <1>4

\* Nothing was let pass for k: at most its bucket was purged, of a window
\* that is over.
LEMMA QuietKey ==
  ASSUME TypeInv, NEW k \in Keys, KeyInv(k),
         counted'[k] = counted[k], Admitted(k)' = Admitted(k),
         \A q \in Admitted(k) : entered'[q] = entered[q],
         now' \in Nat, now' >= now,
         k \in DOMAIN buckets' =>
           k \in DOMAIN buckets /\ buckets'[k].windowStart = buckets[k].windowStart,
         k \in DOMAIN buckets /\ k \notin DOMAIN buckets' =>
           now' >= buckets[k].windowStart + Window
  PROVE  KeyInv(k)'
<1>1. CASE counted[k] = {}
  BY <1>1 DEF KeyInv
<1>2. CASE counted[k] # {}
  <2>1. PICK o \in counted[k] : Opener(k, o)
    BY <1>2 DEF KeyInv
  <2>2. /\ o \in Requests /\ entered[o] \in Nat /\ entered'[o] = entered[o]
        /\ now \in Nat
        /\ k \in DOMAIN buckets => buckets[k].windowStart \in Nat
    BY <2>1 DEF KeyInv, TypeInv, TypeOK, Bucket
  <2>3. Earlier(k)' = Earlier(k) /\ \A q \in Earlier(k) : entered'[q] = entered[q]
    BY DEF Earlier
  <2>4. ASSUME NEW x \in Int PROVE Since(k, x)' = Since(k, x)
    BY <2>3 DEF Since
  <2>5. /\ k \in DOMAIN buckets' => buckets'[k].windowStart >= entered[o] - MaxDelay
        /\ k \notin DOMAIN buckets' => now' >= entered[o] - MaxDelay + Window
    BY <2>1, <2>2, Defaults, BoundsAssumption DEF Opener
  <2>6. Opener(k, o)'
    BY <2>1, <2>2, <2>3, <2>4, <2>5, Defaults DEF Opener
  <2>7. QED
    BY <1>2, <2>1, <2>6 DEF KeyInv
<1>3. QED
  BY <1>1, <1>2

\* Another request passes the last bucket, which is still open.
LEMMA JoinedKey ==
  ASSUME TypeInv, NEW k \in Keys, KeyInv(k), NEW r \in Requests, r \notin Admitted(k),
         counted'[k] = counted[k] \cup {r}, Admitted(k)' = Admitted(k) \cup {r},
         Cardinality(counted'[k]) <= EffectiveLimit,
         \A q \in Admitted(k) : entered'[q] = entered[q],
         k \in DOMAIN buckets, k \in DOMAIN buckets',
         buckets'[k].windowStart = buckets[k].windowStart
  PROVE  KeyInv(k)'
<1>1. PICK o \in counted[k] : Opener(k, o)
  BY DEF KeyInv
<1>2. o \in Admitted(k) /\ entered'[o] = entered[o]
  BY <1>1 DEF KeyInv
<1>3. Earlier(k)' = Earlier(k) /\ \A q \in Earlier(k) : entered'[q] = entered[q]
  BY DEF Earlier
<1>4. ASSUME NEW x \in Int PROVE Since(k, x)' = Since(k, x)
  BY <1>3 DEF Since
<1>5. Opener(k, o)'
  BY <1>1, <1>2, <1>3, <1>4, Defaults DEF Opener
<1>6. counted'[k] \subseteq Admitted(k)'
  BY DEF KeyInv
<1>7. QED
  BY <1>1, <1>5, <1>6 DEF KeyInv

\* A request opens a new bucket: the last window was over, so its opener
\* entered a window, but for the delay of its stamp, before this one.
LEMMA OpenedKey ==
  ASSUME TypeInv, NEW k \in Keys, KeyInv(k), NEW r \in Requests, r \notin Admitted(k),
         counted'[k] = {r}, Admitted(k)' = Admitted(k) \cup {r}, entered'[r] = now,
         \A q \in Admitted(k) : entered'[q] = entered[q],
         k \in DOMAIN buckets => now >= buckets[k].windowStart + Window,
         k \in DOMAIN buckets', buckets'[k].windowStart >= now - MaxDelay
  PROVE  KeyInv(k)'
<1>1. /\ now \in Nat
      /\ \A q \in Admitted(k) : entered[q] \in Nat /\ entered[q] <= now
  BY DEF TypeInv, TypeOK, RequestInv, Admitted, Answered
<1>2. Earlier(k)' = Admitted(k)
  BY DEF Earlier
<1>3. ASSUME NEW x \in Int
      PROVE  /\ Since(k, x)' = {q \in Admitted(k) : entered[q] >= x}
             /\ Since(k, x)' \subseteq Requests
  BY <1>2 DEF Since, Admitted
<1>4. ASSUME NEW x \in Int
      PROVE  /\ x > now + MaxDelay - Window => Cardinality(Since(k, x)') < EffectiveLimit
             /\ x > now + 2 * MaxDelay - 2 * Window =>
                  Cardinality(Since(k, x)') < 2 * EffectiveLimit
  <2>1. CASE counted[k] = {}
    <3>1. Since(k, x)' = {}
      BY <1>3, <2>1 DEF KeyInv
    <3>2. QED
      BY <3>1, FS_EmptySet, Defaults
  <2>2. CASE counted[k] # {}
    <3>1. PICK o \in counted[k] : Opener(k, o)
      BY <2>2 DEF KeyInv
    <3>2. /\ counted[k] \subseteq Admitted(k) /\ counted[k] \subseteq Requests
          /\ Cardinality(counted[k]) <= EffectiveLimit
          /\ entered[o] \in Nat
      BY <1>1, <3>1 DEF KeyInv, Admitted
    <3>3. now >= entered[o] - MaxDelay + Window
      <4>1. k \in DOMAIN buckets => buckets[k].windowStart \in Nat
        BY DEF TypeInv, TypeOK, Bucket
      <4>2. QED
        BY <1>1, <3>1, <3>2, <4>1, Defaults, BoundsAssumption DEF Opener
    <3>4. ASSUME x > now + MaxDelay - Window
          PROVE  Cardinality(Since(k, x)') < EffectiveLimit
      <4>1. x > entered[o]
        BY <1>1, <3>2, <3>3, <3>4, Defaults, BoundsAssumption
      <4>2. Since(k, x)' \subseteq counted[k] \ {o}
        BY <1>1, <1>3, <3>1, <3>2, <4>1 DEF Opener, Earlier
      <4>3. IsFiniteSet(counted[k]) /\ Cardinality(counted[k]) \in Nat
        BY <3>2, PartsFinite
      <4>4. IsFiniteSet(counted[k] \ {o}) /\ Cardinality(counted[k] \ {o}) = Cardinality(counted[k]) - 1
        BY <3>1, <4>3, FS_RemoveElement
      <4>5. Cardinality(Since(k, x)') <= Cardinality(counted[k] \ {o})
        BY <4>2, <4>4, FS_Subset
      <4>6. Cardinality(Since(k, x)') \in Nat
        BY <1>3, PartsFinite
      <4>7. QED
        BY <3>2, <4>3, <4>4, <4>5, <4>6, Defaults
    <3>5. ASSUME x > now + 2 * MaxDelay - 2 * Window
          PROVE  Cardinality(Since(k, x)') < 2 * EffectiveLimit
      <4>1. x > entered[o] + MaxDelay - Window
        BY <1>1, <3>2, <3>3, <3>5, Defaults, BoundsAssumption
      <4>2. Cardinality(Since(k, x)) < EffectiveLimit
        BY <3>1, <4>1 DEF Opener
      <4>3. Since(k, x)' \subseteq Since(k, x) \cup counted[k] /\ Since(k, x) \subseteq Requests
        BY <1>3 DEF Since, Earlier, Admitted
      <4>4. Cardinality(Since(k, x)') <= Cardinality(Since(k, x)) + Cardinality(counted[k])
        BY <3>2, <4>3, CoveredBy
      <4>5. {Cardinality(Since(k, x)'), Cardinality(Since(k, x)), Cardinality(counted[k])} \subseteq Nat
        BY <1>3, <3>2, <4>3, PartsFinite
      <4>6. QED
        BY <3>2, <4>2, <4>4, <4>5, Defaults
    <3>6. QED
      BY <3>4, <3>5
  <2>3. QED
    BY <2>1, <2>2
<1>5. \A q \in Earlier(k)' : entered'[q] <= now
  BY <1>1, <1>2
<1>6. Opener(k, r)'
  BY <1>4, <1>5, Defaults DEF Opener
<1>7. Cardinality(counted'[k]) <= EffectiveLimit
  BY FS_Singleton, Defaults
<1>8. QED
  BY <1>6, <1>7 DEF KeyInv

\* A bucket that a request stamped t replaces or purges is a window old.
LEMMA OverWhenTaken ==
  ASSUME TypeInv, NEW t \in Nat, t <= now, NEW k \in DOMAIN buckets,
         k \notin DOMAIN Purged(t) \/ Opens(k, t)
  PROVE  now >= buckets[k].windowStart + Window
<1>1. Expired(buckets[k], t)
  BY PurgeKeeps DEF Purged, Opens
<1>2. buckets[k].windowStart \in Nat /\ now \in Nat
  BY DEF TypeInv, TypeOK, Bucket
<1>3. QED
  BY <1>1, <1>2, Defaults DEF Expired

\* What entering does to who was admitted.
LEMMA EnterAdmits ==
  ASSUME TypeInv, NEW r \in Requests, Enter(r)
  PROVE  /\ key[r] \in Keys /\ stamp[r] \in Nat /\ stamp[r] <= now /\ now - stamp[r] <= MaxDelay
         /\ now' = now /\ entered'[r] = now
         /\ \A k \in Keys : r \notin Admitted(k)
         /\ \A k \in Keys : \A q \in Admitted(k) : entered'[q] = entered[q]
         /\ \A k \in Keys : Admitted(k)' =
              IF k = key[r] /\ pc'[r] = "admitted" THEN Admitted(k) \cup {r} ELSE Admitted(k)
         /\ \A k \in Keys \ {key[r]} : counted'[k] = counted[k]
<1>1. /\ pc \in [Requests -> Stages] /\ entered \in [Requests -> Nat]
      /\ counted \in [Keys -> SUBSET Requests] /\ pc[r] = "stamped"
      /\ key[r] \in Keys /\ stamp[r] \in Nat /\ stamp[r] <= now /\ now - stamp[r] <= MaxDelay
  BY DEF TypeInv, TypeOK, RequestInv, Enter
<1>2. /\ now' = now /\ key' = key
      /\ entered' = [entered EXCEPT ![r] = now]
      /\ pc' = [pc EXCEPT ![r] = pc'[r]]
      /\ \A k \in Keys \ {key[r]} : counted'[k] = counted[k]
  BY <1>1 DEF Enter
<1>3. QED
  BY <1>1, <1>2 DEF Admitted

LEMMA StepBurst == TypeInv /\ BucketInv /\ BurstInv /\ [Next]_vars => BurstInv'
<1> SUFFICES ASSUME TypeInv, BucketInv, BurstInv, [Next]_vars, NEW k \in Keys PROVE KeyInv(k)'
  BY DEF BurstInv
<1>1. KeyInv(k)
  BY DEF BurstInv
<1>2. ASSUME NEW r \in Requests, Enter(r) PROVE KeyInv(k)'
  <2>1. PICK t \in Nat : t = stamp[r]
    BY <1>2, EnterAdmits
  <2>2. /\ t <= now /\ now - t <= MaxDelay /\ now \in Nat /\ now' = now /\ r \notin Admitted(k)
        /\ \A q \in Admitted(k) : entered'[q] = entered[q]
    BY <1>2, <2>1, EnterAdmits DEF TypeInv, TypeOK
  <2>3. CASE k # key[r]
    <3>1. counted'[k] = counted[k] /\ Admitted(k)' = Admitted(k)
      BY <1>2, <2>3, EnterAdmits
    <3>2. /\ k \in DOMAIN buckets' => k \in DOMAIN buckets /\ buckets'[k] = buckets[k]
          /\ k \notin DOMAIN buckets' => k \notin DOMAIN Purged(t)
      BY <1>2, <2>1, <2>3, EnterBuckets, PurgeKeeps
    <3>3. k \in DOMAIN buckets /\ k \notin DOMAIN buckets' =>
            now' >= buckets[k].windowStart + Window
      BY <2>2, <3>2, OverWhenTaken
    <3>4. QED
      BY <1>1, <2>2, <3>1, <3>2, <3>3, QuietKey
  <2>4. CASE k = key[r]
    <3>1. /\ k \in DOMAIN buckets' /\ buckets'[k] = Counting(k, t)
          /\ pc'[r] = IF Exceeded(buckets'[k]) THEN "refused" ELSE "admitted"
          /\ counted'[k] = LET before == IF Opens(k, t) THEN {} ELSE counted[k]
                           IN IF Exceeded(buckets'[k]) THEN before ELSE before \cup {r}
          /\ entered'[r] = now
      BY <1>2, <2>1, <2>4, EnterBuckets DEF Enter, TypeInv, TypeOK
    <3>2. CASE Opens(k, t)
      <4>1. buckets'[k] = [windowStart |-> t, count |-> 1]
        BY <3>1, <3>2, CountingCases DEF TypeInv
      <4>2. pc'[r] = "admitted" /\ counted'[k] = {r}
        BY <3>1, <3>2, <4>1, Defaults DEF Exceeded
      <4>3. Admitted(k)' = Admitted(k) \cup {r}
        BY <1>2, <2>4, <4>2, EnterAdmits
      <4>4. k \in DOMAIN buckets => now >= buckets[k].windowStart + Window
        BY <2>2, <3>2, OverWhenTaken
      <4>5. buckets'[k].windowStart >= now - MaxDelay
        BY <2>2, <4>1, BoundsAssumption
      <4>6. QED
        BY <1>1, <2>2, <3>1, <4>2, <4>3, <4>4, <4>5, OpenedKey
    <3>3. CASE ~Opens(k, t)
      <4>1. k \in DOMAIN buckets /\ buckets'[k].windowStart = buckets[k].windowStart
        BY <3>1, <3>3, CountingCases DEF TypeInv
      <4>2. CASE Exceeded(buckets'[k])
        <5>1. counted'[k] = counted[k] /\ pc'[r] = "refused"
          BY <3>1, <3>3, <4>2
        <5>2. Admitted(k)' = Admitted(k)
          BY <1>2, <5>1, EnterAdmits
        <5>3. QED
          BY <1>1, <2>2, <3>1, <4>1, <5>1, <5>2, QuietKey
      <4>3. CASE ~Exceeded(buckets'[k])
        <5>1. counted'[k] = counted[k] \cup {r} /\ pc'[r] = "admitted"
          BY <3>1, <3>3, <4>3
        <5>2. Admitted(k)' = Admitted(k) \cup {r}
          BY <1>2, <2>4, <5>1, EnterAdmits
        <5>3. Cardinality(counted'[k]) <= EffectiveLimit
          <6>1. Cardinality(counted'[k]) = Capped(buckets'[k].count)
            BY <1>2, <2>4, EnterCounts
          <6>2. buckets'[k].count \in Nat
            BY <3>1, CountingCases DEF TypeInv, Bucket
          <6>3. QED
            BY <6>1, <6>2, Defaults DEF Capped
        <5>4. QED
          BY <1>1, <2>2, <3>1, <4>1, <5>1, <5>2, <5>3, JoinedKey
      <4>4. QED
        BY <4>2, <4>3
    <3>4. QED
      BY <3>2, <3>3
  <2>5. QED
    BY <2>3, <2>4
<1>3. ASSUME NEW r \in Requests, Arrive(r) PROVE KeyInv(k)'
  <2>1. Admitted(k)' = Admitted(k) /\ \A q \in Admitted(k) : entered'[q] = entered[q]
    BY <1>3 DEF Arrive, Admitted, TypeInv, TypeOK
  <2>2. counted' = counted /\ buckets' = buckets /\ now' = now /\ now \in Nat
    BY <1>3 DEF Arrive, TypeInv, TypeOK
  <2>3. QED
    BY <1>1, <2>1, <2>2, QuietKey
<1>4. CASE Tick
  <2>1. Admitted(k)' = Admitted(k) /\ \A q \in Admitted(k) : entered'[q] = entered[q]
    BY <1>4 DEF Tick, Admitted
  <2>2. counted' = counted /\ buckets' = buckets /\ now' = now + 1 /\ now \in Nat
    BY <1>4 DEF Tick, TypeInv, TypeOK
  <2>3. QED
    BY <1>1, <2>1, <2>2, QuietKey
<1>5. CASE UNCHANGED vars
  BY <1>1, <1>5 DEF vars, KeyInv, Opener, Since, Earlier, Admitted
<1>6. QED
  BY <1>2, <1>3, <1>4, <1>5 DEF Next, Terminating

\* BurstBounded of the stretches that have not ended, and of all of them,
\* those that have not begun included.
ShortOfThree(k, t) == Cardinality(Passed(k, t, t + Window - 1)) < 3 * EffectiveLimit
RecentBursts ==
  2 * MaxDelay <= Window =>
    \A k \in Keys, t \in Nat : now <= t + Window - 1 => ShortOfThree(k, t)
AllBursts == 2 * MaxDelay <= Window => \A k \in Keys, t \in Nat : ShortOfThree(k, t)

\* A stretch that has not ended yet sees what the last bucket let pass and
\* what passed shortly before it.
LEMMA RecentlyBounded == TypeInv /\ BurstInv => RecentBursts
<1> SUFFICES ASSUME TypeInv, NEW k \in Keys, KeyInv(k), 2 * MaxDelay <= Window,
                    NEW t \in Nat, now <= t + Window - 1
             PROVE  ShortOfThree(k, t)
  BY DEF BurstInv, RecentBursts
<1> USE DEF ShortOfThree
<1> DEFINE S == Passed(k, t, t + Window - 1)
<1>1. /\ now \in Nat /\ S \subseteq Admitted(k) /\ Admitted(k) \subseteq Requests
      /\ \A q \in S : entered[q] >= t
      /\ \A q \in Admitted(k) : entered[q] \in Nat /\ entered[q] <= now
  BY Defaults DEF TypeInv, TypeOK, RequestInv, Answered, Admitted, Passed
<1>2. CASE counted[k] = {}
  <2>1. S = {}
    BY <1>1, <1>2 DEF KeyInv
  <2>2. QED
    BY <2>1, FS_EmptySet, Defaults
<1>3. CASE counted[k] # {}
  <2>1. PICK o \in counted[k] : Opener(k, o)
    BY <1>3 DEF KeyInv
  <2>2. /\ counted[k] \subseteq Admitted(k) /\ counted[k] \subseteq Requests
        /\ Cardinality(counted[k]) <= EffectiveLimit
        /\ entered[o] \in Nat /\ entered[o] <= now
    BY <1>1, <2>1 DEF KeyInv
  <2>3. t > entered[o] + 2 * MaxDelay - 2 * Window
    BY <1>1, <2>2, Defaults, BoundsAssumption
  <2>4. Cardinality(Since(k, t)) < 2 * EffectiveLimit
    BY <2>1, <2>3 DEF Opener
  <2>5. S \subseteq Since(k, t) \cup counted[k] /\ Since(k, t) \subseteq Requests
    BY <1>1 DEF Since, Earlier
  <2>6. Cardinality(S) <= Cardinality(Since(k, t)) + Cardinality(counted[k])
    BY <2>2, <2>5, CoveredBy
  <2>7. {Cardinality(S), Cardinality(Since(k, t)), Cardinality(counted[k])} \subseteq Nat
    BY <1>1, <2>2, <2>5, PartsFinite
  <2>8. QED
    BY <2>2, <2>4, <2>6, <2>7, Defaults
<1>4. QED
  BY <1>2, <1>3

\* Nothing passes in a stretch that is over.
LEMMA StepBursts == TypeInv /\ AllBursts /\ [Next]_vars /\ RecentBursts' => AllBursts'
<1> SUFFICES ASSUME TypeInv, AllBursts, [Next]_vars, RecentBursts',
                    2 * MaxDelay <= Window, NEW k \in Keys, NEW t \in Nat
             PROVE  ShortOfThree(k, t)'
  BY DEF AllBursts
<1>1. CASE now' <= t + Window - 1
  BY <1>1 DEF RecentBursts
<1>2. CASE ~(now' <= t + Window - 1)
  <2>1. now \in Nat
    BY DEF TypeInv, TypeOK
  <2>2. ASSUME NEW r \in Requests, Enter(r)
        PROVE  Passed(k, t, t + Window - 1)' = Passed(k, t, t + Window - 1)
    <3>1. /\ entered'[r] = now /\ now' = now /\ r \notin Admitted(k)
          /\ \A q \in Admitted(k) : entered'[q] = entered[q]
          /\ Admitted(k)' \subseteq Admitted(k) \cup {r} /\ Admitted(k) \subseteq Admitted(k)'
      BY <2>2, EnterAdmits
    <3>2. now \notin t .. t + Window - 1
      BY <1>2, <2>1, <3>1, Defaults
    <3>3. Passed(k, t, t + Window - 1) = {q \in Admitted(k) : entered[q] \in t .. t + Window - 1}
      BY DEF Passed, Admitted
    <3>4. Passed(k, t, t + Window - 1)' = {q \in Admitted(k)' : entered'[q] \in t .. t + Window - 1}
      BY DEF Passed, Admitted
    <3>5. QED
      BY <3>1, <3>2, <3>3, <3>4
  <2>3. ASSUME NEW r \in Requests, Arrive(r)
        PROVE  Passed(k, t, t + Window - 1)' = Passed(k, t, t + Window - 1)
    BY <2>3 DEF Arrive, Passed, TypeInv, TypeOK
  <2>4. ASSUME UNCHANGED <<pc, key, entered>>
        PROVE  Passed(k, t, t + Window - 1)' = Passed(k, t, t + Window - 1)
    BY <2>4 DEF Passed
  <2>5. Passed(k, t, t + Window - 1)' = Passed(k, t, t + Window - 1)
    BY <2>2, <2>3, <2>4 DEF Next, Tick, Terminating, vars, Passed
  <2>6. ShortOfThree(k, t)
    BY DEF AllBursts
  <2>7. QED
    BY <2>5, <2>6 DEF ShortOfThree
<1>3. QED
  BY <1>1, <1>2

\* However stamps and entries are interleaved and whatever is purged, a
\* stretch of a window's length sees less than three times the limit pass, if
\* requests wait for the mutex at most half a window.
THEOREM BurstsAreBounded == Spec => []BurstBounded
<1>1. Init => BurstInv /\ AllBursts
  <2> SUFFICES ASSUME Init PROVE BurstInv /\ AllBursts
    OBVIOUS
  <2>1. ASSUME NEW k \in Keys PROVE KeyInv(k)
    <3>1. counted[k] = {} /\ Admitted(k) = {} /\ k \notin DOMAIN buckets
      BY DEF Init, Admitted
    <3>2. QED
      BY <3>1, FS_EmptySet, Defaults DEF KeyInv
  <2>2. ASSUME NEW k \in Keys, NEW t \in Nat PROVE ShortOfThree(k, t)
    <3>1. Passed(k, t, t + Window - 1) = {}
      BY DEF Init, Passed
    <3>2. QED
      BY <3>1, FS_EmptySet, Defaults DEF ShortOfThree
  <2>3. QED
    BY <2>1, <2>2 DEF BurstInv, AllBursts
<1>2. Spec => [](TypeInv /\ BucketInv /\ BurstInv /\ RecentBursts)
  BY <1>1, InitTypes, InitBuckets, StepTypes, StepBuckets, StepBurst, RecentlyBounded, PTL DEF Spec
<1>3. TypeInv /\ AllBursts => BurstBounded
  BY DEF AllBursts, ShortOfThree, BurstBounded, TypeInv, TypeOK
<1>4. QED
  BY <1>1, <1>2, <1>3, StepBursts, PTL DEF Spec
=============================================================================
