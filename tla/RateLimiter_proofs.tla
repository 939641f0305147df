------------------------- MODULE RateLimiter_proofs -------------------------
(***************************************************************************)
(* For every rate, burst, set of requests and of replicas: the types, the  *)
(* refinement of RateBudget and, with it, the bound on admitted requests.  *)
(***************************************************************************)
EXTENDS RateLimiter, TLAPS

\* Refilling for d1 + d2 seconds is refilling for d1, then for d2.
LEMMA Distribute ==
    ASSUME NEW d1 \in Int, NEW d2 \in Int, NEW k \in Int
    PROVE  (d1 + d2) * k = d1 * k + d2 * k
  OBVIOUS

LEMMA ProductNat ==
    ASSUME NEW d \in Nat, NEW k \in Nat
    PROVE  d * k \in Nat
  OBVIOUS

LEMMA ProductMonotonic ==
    ASSUME NEW d1 \in Nat, NEW d2 \in Nat, NEW k \in Nat, d1 <= d2
    PROVE  d1 * k <= d2 * k
  <1>1. d2 - d1 \in Nat
    OBVIOUS
  <1>2. (d2 - d1) * k \in Nat
    BY <1>1, ProductNat
  <1>3. (d1 + (d2 - d1)) * k = d1 * k + (d2 - d1) * k
    BY <1>1, Distribute
  <1>. QED
    BY <1>1, <1>2, <1>3

LEMMA CapacityType == Capacity \in Nat /\ Capacity >= Unit /\ Unit = 60
  BY LimitsAssumption DEF Capacity, Unit

\* The credits a call finds are between none and a full bucket.
LEMMA RefilledType ==
    ASSUME NEW b \in Buckets, NEW t \in Nat
    PROVE  Refilled(b, t) \in 0..Capacity
  <1>1. Elapsed(b, t) \in Nat
    BY DEF Elapsed, Buckets
  <1>2. Elapsed(b, t) * Rpm \in Nat
    BY <1>1, ProductNat, LimitsAssumption
  <1>. QED
    BY <1>2, CapacityType DEF Refilled, Lesser, Buckets

\* Admitted or refused, the call leaves a well-formed bucket.
LEMMA AfterType ==
    ASSUME NEW b \in Buckets, NEW t \in Nat, NEW s \in BOOLEAN
    PROVE  After(b, t, s) \in Buckets
  <1>1. Refilled(b, t) \in 0..Capacity
    BY RefilledType
  <1>2. Admits(b, t, s) => Refilled(b, t) - Unit \in 0..Capacity
    BY <1>1, CapacityType DEF Admits, Unit
  <1>3. (IF Admits(b, t, s) THEN Refilled(b, t) - Unit ELSE Refilled(b, t)) \in 0..Capacity
    BY <1>1, <1>2
  <1>. QED
    BY <1>3 DEF After, Buckets

LEMMA RoundingType ==
    ASSUME NEW b \in Buckets, NEW t \in Nat
    PROVE  /\ Shorts(b, t) \subseteq BOOLEAN
           /\ Overs(b, t) \subseteq BOOLEAN
  BY DEF Shorts, Overs, Buckets

\* Rounding up: the least number of k-credit seconds that cover x credits.
LEMMA CeilingDivision ==
    ASSUME NEW x \in 1..61, NEW k \in Nat \ {0}
    PROVE  LET q == (x + k - 1) \div k
           IN  q \in 1..61 /\ q * k >= x /\ (q - 1) * k < x
  <1>. DEFINE q == (x + k - 1) \div k
              m == (x + k - 1) % k
  <1>1. q \in Int /\ m \in 0..(k - 1) /\ x + k - 1 = k * q + m
    BY Z3
  <1>2. q * k >= x /\ (q - 1) * k < x
    BY <1>1
  <1>3. q >= 1
    BY <1>1, <1>2
  <1>4. q <= 61
    BY <1>1, <1>2
  <1>. QED
    BY <1>1, <1>2, <1>3, <1>4

(***************************************************************************)
(* A refused request waits between one second and a minute and one second. *)
(* That is what its credits lack, rounded up, or one second more where     *)
(* they lack a whole number of seconds.                                    *)
(***************************************************************************)
LEMMA RetryCovers ==
    ASSUME NEW b \in Buckets, NEW t \in Nat, NEW s \in BOOLEAN, ~Admits(b, t, s),
           NEW over \in Overs(b, t)
    PROVE  LET q == RetryAfter(b, t, over)
               x == Unit - Refilled(b, t)
           IN  /\ q \in 1..61
               /\ x \in 0..60
               /\ q * Rpm >= x
               /\ (q - 1) * Rpm <= x
  <1>. DEFINE q == RetryAfter(b, t, over)
              x == Unit - Refilled(b, t)
  <1>1. x \in 0..60 /\ Rpm \in Nat \ {0}
    BY RefilledType, CapacityType, LimitsAssumption DEF Admits, Unit
  <1>2. CASE over
    <2>1. q = ((x + 1) + Rpm - 1) \div Rpm
      BY <1>1, <1>2 DEF RetryAfter
    <2>. HIDE DEF q, x
    <2>2. x + 1 \in 1..61
      BY <1>1
    <2>3. q \in 1..61 /\ q * Rpm >= x + 1 /\ (q - 1) * Rpm < x + 1
      BY <2>1, <2>2, <1>1, CeilingDivision
    <2>4. q * Rpm \in Int /\ (q - 1) * Rpm \in Int
      BY <2>3, <1>1
    <2>5. q * Rpm >= x /\ (q - 1) * Rpm <= x
      BY <2>3, <2>4, <1>1
    <2>. QED
      BY <2>3, <2>5, <1>1 DEF q, x
  <1>3. CASE ~over
    <2>1. q = (x + Rpm - 1) \div Rpm
      BY <1>1, <1>3 DEF RetryAfter
    <2>2. x # 0
      <3>1. Refilled(b, t) # Unit
        BY <1>3 DEF Overs
      <3>. QED
        BY <3>1, RefilledType, CapacityType
    <2>. HIDE DEF q, x
    <2>3. q \in 1..61 /\ q * Rpm >= x /\ (q - 1) * Rpm < x
      BY <2>1, <2>2, <1>1, CeilingDivision
    <2>4. (q - 1) * Rpm \in Int
      BY <2>3, <1>1
    <2>5. (q - 1) * Rpm <= x
      BY <2>3, <2>4, <1>1
    <2>. QED
      BY <2>3, <2>5, <1>1 DEF q, x
  <1>. QED
    BY <1>2, <1>3

LEMMA NoKeyType == NoKey \in Buckets
  BY CapacityType DEF NoKey, Buckets

LEMMA UnsteadyType ==
    ASSUME check \in [Requests -> Checks]
    PROVE  /\ Unsteady \in [Requests -> Checks]
           /\ \A r \in Requests : /\ Unsteady[r].phase = check[r].phase
                                 /\ Unsteady[r].stamp = check[r].stamp
  <1>1. ASSUME NEW r \in Requests
        PROVE  LET c == [check[r] EXCEPT !.steady = FALSE]
               IN  c \in Checks /\ c.phase = check[r].phase /\ c.stamp = check[r].stamp
    <2>1. check[r] \in Checks
      OBVIOUS
    <2>. QED
      BY <2>1 DEF Checks
  <1>. QED
    BY <1>1 DEF Unsteady

LEMMA GrantedType == [allowed |-> TRUE, retry |-> 0] \in Answers
  BY DEF Answers

LEMMA RefusedType ==
    ASSUME NEW w \in 0..61
    PROVE  [allowed |-> FALSE, retry |-> w] \in Answers
  BY DEF Answers

LEMMA PolicyType ==
    [allowed |-> FailOpen, retry |-> IF FailOpen THEN 0 ELSE 60] \in Answers
  BY LimiterAssumption DEF Answers

LEMMA IdleType == Idle \in Checks
  BY LimiterAssumption DEF Idle, Checks, Phases

-----------------------------------------------------------------------------
(***************************************************************************)
(* Type correctness of check_rate_limit: in particular the bucket never    *)
(* holds more than Burst tokens, and Retry-After is at most 61 seconds.    *)
(***************************************************************************)
THEOREM TypeCorrect == Spec => []TypeOK
  <1>1. Init => TypeOK
    <2> SUFFICES ASSUME Init
                 PROVE  TypeOK
      OBVIOUS
    <2>1. bucket \in Buckets
      BY NoKeyType DEF Init
    <2>2. check \in [Requests -> Checks]
      BY IdleType DEF Init
    <2>3. answer \in Answers
      BY GrantedType DEF Init
    <2>. QED
      BY <2>1, <2>2, <2>3 DEF Init, TypeOK
  <1>2. TypeOK /\ [Next]_vars => TypeOK'
    <2> SUFFICES ASSUME TypeOK, [Next]_vars
                 PROVE  TypeOK'
      OBVIOUS
    <2>. USE DEF TypeOK
    <2>0. ASSUME NEW h \in Replicas
          PROVE  Reading(h) \in Nat
      BY LimiterAssumption DEF Reading
    <2>1. ASSUME NEW r \in Requests, NEW h \in Replicas, BeginCached(r, h)
          PROVE  TypeOK'
      BY <2>1, <2>0 DEF BeginCached, Checks, Phases
    <2>2. ASSUME NEW r \in Requests, NEW h \in Replicas, BeginLoading(r, h)
          PROVE  TypeOK'
      BY <2>2 DEF BeginLoading, Checks, Phases
    <2>3. ASSUME NEW r \in Requests, ScriptLoaded(r)
          PROVE  TypeOK'
      <3>1. check[r].at \in Replicas
        BY DEF Checks
      <3>2. Reading(check[r].at) \in Nat
        BY <2>0, <3>1
      <3>. QED
        BY <2>3, <3>2 DEF ScriptLoaded, Checks, Phases
    <2>4. ASSUME NEW r \in Requests, Evaluate(r)
          PROVE  TypeOK'
      <3>0. PICK t \in Nat : t = check[r].stamp
        BY DEF Checks
      <3>1. PICK s \in Shorts(bucket, t) :
              /\ bucket' = After(bucket, t, s)
              /\ \/ /\ Admits(bucket, t, s)
                    /\ admitted' = admitted + 1
                    /\ answer' = [allowed |-> TRUE, retry |-> 0]
                 \/ /\ ~Admits(bucket, t, s)
                    /\ admitted' = admitted
                    /\ \E over \in Overs(bucket, t) :
                          answer' = [allowed |-> FALSE, retry |-> RetryAfter(bucket, t, over)]
        BY <2>4, <3>0 DEF Evaluate
      <3>a. s \in BOOLEAN
        BY RoundingType
      <3>2. bucket' \in Buckets /\ expireAt' \in Nat
        BY <2>4, <3>1, <3>a, AfterType DEF Evaluate, KeyTTL
      <3>3. answer' \in Answers /\ admitted' \in Nat
        <4>1. CASE Admits(bucket, t, s)
          <5>1. answer' = [allowed |-> TRUE, retry |-> 0] /\ admitted' = admitted + 1
            BY <3>1, <4>1
          <5>. QED
            BY <5>1, GrantedType
        <4>2. CASE ~Admits(bucket, t, s)
          <5>1. PICK over \in Overs(bucket, t) :
                  answer' = [allowed |-> FALSE, retry |-> RetryAfter(bucket, t, over)]
            BY <3>1, <4>2
          <5>2. RetryAfter(bucket, t, over) \in 0..61
            BY <3>a, <4>2, RetryCovers
          <5>3. admitted' = admitted
            BY <3>1, <4>2
          <5>. QED
            BY <5>1, <5>2, <5>3, RefusedType
        <4>. QED
          BY <4>1, <4>2
      <3>4. check' \in [Requests -> Checks]
        BY <2>4, IdleType DEF Evaluate
      <3>. QED
        BY <2>4, <3>2, <3>3, <3>4 DEF Evaluate
    <2>5. ASSUME NEW r \in Requests, Fail(r)
          PROVE  TypeOK'
      <3>1. answer' \in Answers
        BY <2>5, PolicyType DEF Fail
      <3>2. check' \in [Requests -> Checks]
        BY <2>5, IdleType DEF Fail
      <3>. QED
        BY <2>5, <3>1, <3>2 DEF Fail
    <2>6. ASSUME NEW t \in Instants, Pass(t)
          PROVE  TypeOK'
      BY <2>6, LimiterAssumption, NoKeyType DEF Pass, KeyAt
    <2>7. CASE Disconnect \/ Reconnect
      BY <2>7, UnsteadyType DEF Disconnect, Reconnect
    <2>8. CASE RedisRestart
      <3>1. /\ losses' \in Nat /\ bucket' \in Buckets /\ expireAt' \in Nat
            /\ check' \in [Requests -> Checks]
        BY <2>8, NoKeyType, UnsteadyType DEF RedisRestart
      <3>. QED
        BY <2>8, <3>1 DEF RedisRestart
    <2>9. ASSUME NEW h \in Replicas, ReplicaRestart(h)
          PROVE  TypeOK'
      BY <2>9, IdleType DEF ReplicaRestart
    <2>10. CASE UNCHANGED vars
      BY <2>10 DEF vars
    <2>. QED
      BY <2>1, <2>2, <2>3, <2>4, <2>5, <2>6, <2>7, <2>8, <2>9, <2>10 DEF Next
  <1>. QED
    BY <1>1, <1>2, PTL DEF Spec
-----------------------------------------------------------------------------
(***************************************************************************)
(* Under prompt clocks a check carries the true time to the script, and the*)
(* key expires KeyTTL seconds after the time it stores.                    *)
(***************************************************************************)
StampIsNow == \A r \in Requests : check[r].phase = "stamped" => check[r].stamp = clock
KeyAge == bucket.exists => bucket.last <= clock /\ expireAt = bucket.last + KeyTTL
PromptInv == StampIsNow /\ KeyAge

\* What refilling lazily, in two calls or in one, comes to the same.
LEMMA RefillComposes ==
    ASSUME NEW tokens \in 0..Capacity, NEW a \in Nat, NEW b \in Nat, NEW c \in Nat,
           a <= b, b < c
    PROVE  Lesser(Capacity, tokens + (c - a) * Rpm)
             = Lesser(Capacity, Lesser(Capacity, tokens + (b - a) * Rpm) + (c - b) * Rpm)
  <1>1. b - a \in Nat /\ c - b \in Nat /\ c - a = (b - a) + (c - b)
    OBVIOUS
  <1>2. Rpm \in Nat
    BY LimitsAssumption
  <1>. DEFINE x == (b - a) * Rpm
              y == (c - b) * Rpm
  <1>3. x \in Nat /\ y \in Nat
    BY <1>1, <1>2, ProductNat
  <1>4. (c - a) * Rpm = x + y
    BY <1>1, <1>2, Distribute
  <1>. HIDE DEF x, y
  <1>5. Lesser(Capacity, tokens + (x + y)) = Lesser(Capacity, Lesser(Capacity, tokens + x) + y)
    BY <1>3, CapacityType DEF Lesser
  <1>. QED
    BY <1>4, <1>5 DEF x, y

\* A key that lived its KeyTTL had refilled.
LEMMA FullAtExpiry ==
    ASSUME TTLCoversRefill,
           NEW tokens \in 0..Capacity, NEW a \in Nat, NEW c \in Nat, c >= a + KeyTTL
    PROVE  Lesser(Capacity, tokens + (c - a) * Rpm) = Capacity
  <1>1. c - a \in Nat /\ KeyTTL <= c - a /\ KeyTTL \in Nat
    BY DEF KeyTTL
  <1>2. KeyTTL * Rpm <= (c - a) * Rpm /\ (c - a) * Rpm \in Nat
    BY <1>1, ProductMonotonic, ProductNat, LimitsAssumption
  <1>3. Capacity <= KeyTTL * Rpm /\ KeyTTL * Rpm \in Nat
    BY <1>1, ProductNat, LimitsAssumption DEF TTLCoversRefill
  <1>. QED
    BY <1>2, <1>3, CapacityType DEF Lesser

LEMMA PromptInvariance ==
    ASSUME PromptClocks
    PROVE  Spec => []PromptInv
  <1>0. MaxLag = 0 /\ \A h \in Replicas : Skew[h] = 0
    BY DEF PromptClocks
  <1>1. Init => PromptInv
    BY DEF Init, PromptInv, StampIsNow, KeyAge, Idle, NoKey
  <1>2. TypeOK /\ PromptInv /\ [Next]_vars => PromptInv'
    <2> SUFFICES ASSUME TypeOK, PromptInv, [Next]_vars
                 PROVE  PromptInv'
      OBVIOUS
    <2>. USE DEF PromptInv
    <2>0. clock \in Nat /\ check \in [Requests -> Checks] /\ bucket \in Buckets
      BY DEF TypeOK
    <2>a. \A h \in Replicas : Reading(h) = clock
      BY <1>0, <2>0 DEF Reading
    <2>1. ASSUME NEW r \in Requests, NEW h \in Replicas, BeginCached(r, h)
          PROVE  PromptInv'
      BY <2>1, <2>0, <2>a DEF BeginCached, StampIsNow, KeyAge
    <2>2. ASSUME NEW r \in Requests, NEW h \in Replicas, BeginLoading(r, h)
          PROVE  PromptInv'
      BY <2>2, <2>0 DEF BeginLoading, StampIsNow, KeyAge
    <2>3. ASSUME NEW r \in Requests, ScriptLoaded(r)
          PROVE  PromptInv'
      <3>1. check[r].at \in Replicas
        BY <2>0 DEF Checks
      <3>. QED
        BY <2>3, <2>0, <2>a, <3>1 DEF ScriptLoaded, StampIsNow, KeyAge
    <2>4. ASSUME NEW r \in Requests, Evaluate(r)
          PROVE  PromptInv'
      <3>1. check[r].stamp = clock
        BY <2>4 DEF Evaluate, StampIsNow
      <3>2. StampIsNow'
        BY <2>4, <2>0 DEF Evaluate, StampIsNow, Idle
      <3>3. bucket'.last = clock /\ clock' = clock /\ expireAt' = clock + KeyTTL
        <4>1. \E s : bucket' = After(bucket, clock, s)
          BY <2>4, <3>1 DEF Evaluate
        <4>. QED
          BY <2>4, <4>1 DEF Evaluate, After
      <3>4. KeyAge'
        BY <3>3, <2>0 DEF KeyAge
      <3>. QED
        BY <3>2, <3>4
    <2>5. ASSUME NEW r \in Requests, Fail(r)
          PROVE  PromptInv'
      BY <2>5, <2>0 DEF Fail, StampIsNow, KeyAge, Idle
    <2>6. ASSUME NEW t \in Instants, Pass(t)
          PROVE  PromptInv'
      <3>1. t \in Nat /\ clock < t
        BY <2>6, <2>0, LimiterAssumption DEF Pass
      <3>2. ASSUME NEW r \in Requests, check[r].phase = "stamped"
            PROVE  FALSE
        <4>1. t + Skew[check[r].at] - check[r].stamp <= 0
          BY <2>6, <3>2, <1>0 DEF Pass
        <4>2. Skew[check[r].at] = 0 /\ check[r].stamp = clock
          BY <3>2, <1>0, <2>0 DEF StampIsNow, Checks
        <4>. QED
          BY <4>1, <4>2, <3>1, <2>0
      <3>3. StampIsNow'
        BY <2>6, <3>2 DEF Pass, StampIsNow
      <3>4. CASE t >= expireAt
        <4>1. bucket' = NoKey
          BY <2>6, <3>4 DEF Pass, KeyAt
        <4>. QED
          BY <3>3, <4>1 DEF KeyAge, NoKey
      <3>5. CASE ~(t >= expireAt)
        <4>1. bucket' = bucket /\ clock' = t /\ (bucket.exists => expireAt' = expireAt)
          BY <2>6, <3>5 DEF Pass, KeyAt
        <4>2. bucket.last \in Nat
          BY <2>0 DEF Buckets
        <4>3. bucket.exists => bucket.last <= t
          BY <3>1, <4>2, <2>0 DEF KeyAge
        <4>. QED
          BY <3>3, <4>1, <4>3 DEF KeyAge
      <3>. QED
        BY <3>3, <3>4, <3>5
    <2>7. CASE Disconnect \/ Reconnect
      BY <2>7, <2>0, UnsteadyType DEF Disconnect, Reconnect, StampIsNow, KeyAge
    <2>8. CASE RedisRestart
      BY <2>8, <2>0, UnsteadyType DEF RedisRestart, StampIsNow, KeyAge, NoKey
    <2>9. ASSUME NEW h \in Replicas, ReplicaRestart(h)
          PROVE  PromptInv'
      BY <2>9, <2>0 DEF ReplicaRestart, StampIsNow, KeyAge, Idle
    <2>10. CASE UNCHANGED vars
      BY <2>10 DEF vars, StampIsNow, KeyAge
    <2>. QED
      BY <2>1, <2>2, <2>3, <2>4, <2>5, <2>6, <2>7, <2>8, <2>9, <2>10 DEF Next
  <1>. QED
    BY <1>1, <1>2, TypeCorrect, PTL DEF Spec
-----------------------------------------------------------------------------
\* With nothing elapsed, refilling adds nothing.
LEMMA RefilledNow ==
    ASSUME NEW tokens \in 0..Capacity, NEW t \in Nat, NEW s \in BOOLEAN
    PROVE  Refilled([exists |-> TRUE, short |-> s, last |-> t, tokens |-> tokens], t) = tokens
  <1>1. 0 * Rpm = 0
    BY LimitsAssumption
  <1>. QED
    BY <1>1, CapacityType DEF Refilled, Elapsed, Lesser

LEMMA SameAccount ==
    /\ Budget!Capacity = Capacity
    /\ Budget!Unit = Unit
    /\ \A x, y : Budget!Lesser(x, y) = Lesser(x, y)
  BY DEF Budget!Capacity, Budget!Unit, Budget!Lesser, Capacity, Unit, Lesser

(***************************************************************************)
(* check_rate_limit implements the continuously filling account, provided  *)
(* the replicas' clocks are prompt and the time to live covers a refill.   *)
(***************************************************************************)
THEOREM Refinement ==
    ASSUME PromptClocks, TTLCoversRefill
    PROVE  Spec => ImplementsBudget
  <1>1. Init => Budget!Init
    BY SameAccount DEF Init, Budget!Init, Credit, Refilled, NoKey
  <1>2. TypeOK /\ PromptInv /\ [Next]_vars => [Budget!Next]_(Budget!vars)
    <2> SUFFICES ASSUME TypeOK, PromptInv, [Next]_vars
                 PROVE  [Budget!Next]_(Budget!vars)
      OBVIOUS
    <2>0. clock \in Nat /\ bucket \in Buckets /\ admitted \in Nat
      BY DEF TypeOK
    <2>1. ASSUME UNCHANGED <<bucket, clock, admitted, losses>>
          PROVE  UNCHANGED Budget!vars
      BY <2>1 DEF Budget!vars, Credit
    <2>2. ASSUME NEW r \in Requests, NEW h \in Replicas,
                 BeginCached(r, h) \/ BeginLoading(r, h)
          PROVE  UNCHANGED Budget!vars
      BY <2>1, <2>2 DEF BeginCached, BeginLoading
    <2>3. ASSUME NEW r \in Requests, ScriptLoaded(r) \/ Fail(r)
          PROVE  UNCHANGED Budget!vars
      BY <2>1, <2>3 DEF ScriptLoaded, Fail
    <2>4. ASSUME NEW r \in Requests, Evaluate(r)
          PROVE  Budget!Admit \/ UNCHANGED Budget!vars
      <3>1. check[r].stamp = clock
        BY <2>4 DEF Evaluate, PromptInv, StampIsNow
      <3>2. clock' = clock /\ losses' = losses
        BY <2>4 DEF Evaluate
      <3>a. PICK s \in BOOLEAN :
              /\ bucket' = After(bucket, clock, s)
              /\ Admits(bucket, clock, s) => admitted' = admitted + 1
              /\ ~Admits(bucket, clock, s) => admitted' = admitted
        BY <2>0, <2>4, <3>1, RoundingType DEF Evaluate
      <3>3. Credit \in 0..Capacity
        BY <2>0, RefilledType DEF Credit
      <3>4. CASE Admits(bucket, clock, s)
        <4>1. Credit >= Unit /\ Credit - Unit \in 0..Capacity
          BY <3>3, <3>4, CapacityType DEF Admits, Credit
        <4>2. bucket' = [exists |-> TRUE, short |-> s, last |-> clock, tokens |-> Credit - Unit]
          BY <3>a, <3>4 DEF After, Credit
        <4>3. Credit' = Credit - Unit
          BY <2>0, <3>2, <4>1, <4>2, RefilledNow DEF Credit
        <4>4. admitted' = admitted + 1
          BY <3>a, <3>4
        <4>. QED
          BY <3>2, <4>1, <4>3, <4>4, SameAccount DEF Budget!Admit
      <3>5. CASE ~Admits(bucket, clock, s)
        <4>1. bucket' = [exists |-> TRUE, short |-> s, last |-> clock, tokens |-> Credit]
          BY <3>a, <3>5 DEF After, Credit
        <4>2. Credit' = Credit
          BY <2>0, <3>2, <3>3, <4>1, RefilledNow DEF Credit
        <4>3. admitted' = admitted
          BY <3>a, <3>5
        <4>. QED
          BY <3>2, <4>2, <4>3 DEF Budget!vars
      <3>. QED
        BY <3>4, <3>5
    <2>5. ASSUME NEW t \in Instants, Pass(t)
          PROVE  Budget!Elapse
      <3>1. t \in Nat /\ clock < t /\ clock' = t /\ admitted' = admitted /\ losses' = losses
        BY <2>5, <2>0, LimiterAssumption DEF Pass
      <3>2. bucket' = KeyAt(t)
        BY <2>5 DEF Pass
      <3>3. t - clock \in Nat /\ (t - clock) * Rpm \in Nat
        BY <2>0, <3>1, ProductNat, LimitsAssumption
      <3>4. Refilled(KeyAt(t), t) = Lesser(Capacity, Credit + (t - clock) * Rpm)
        <4>1. CASE ~bucket.exists
          BY <3>3, <4>1, CapacityType DEF KeyAt, NoKey, Refilled, Credit, Lesser
        <4>2. CASE bucket.exists
          <5>1. bucket.last \in Nat /\ bucket.last <= clock /\ bucket.tokens \in 0..Capacity
                /\ expireAt = bucket.last + KeyTTL
            BY <2>0, <4>2 DEF PromptInv, KeyAge, Buckets
          <5>2. Credit = Lesser(Capacity, bucket.tokens + (clock - bucket.last) * Rpm)
            <6>1. Elapsed(bucket, clock) = clock - bucket.last
              BY <5>1, <2>0 DEF Elapsed
            <6>. QED
              BY <6>1, <4>2 DEF Credit, Refilled
          <5>3. Lesser(Capacity, bucket.tokens + (t - bucket.last) * Rpm)
                  = Lesser(Capacity, Credit + (t - clock) * Rpm)
            <6>0. /\ bucket.tokens \in 0..Capacity /\ bucket.last \in Nat /\ clock \in Nat /\ t \in Nat
                  /\ bucket.last <= clock /\ clock < t
              BY <5>1, <3>1, <2>0
            <6>1. Lesser(Capacity, bucket.tokens + (t - bucket.last) * Rpm)
                    = Lesser(Capacity, Lesser(Capacity, bucket.tokens + (clock - bucket.last) * Rpm)
                                         + (t - clock) * Rpm)
              BY <6>0, RefillComposes
            <6>. QED
              BY <6>1, <5>2
          <5>4. CASE t >= expireAt
            <6>1. Lesser(Capacity, bucket.tokens + (t - bucket.last) * Rpm) = Capacity
              BY <5>1, <5>4, <3>1, FullAtExpiry
            <6>2. Refilled(KeyAt(t), t) = Capacity
              BY <5>4 DEF KeyAt, NoKey, Refilled
            <6>. QED
              BY <5>3, <6>1, <6>2
          <5>5. CASE ~(t >= expireAt)
            <6>1. Elapsed(bucket, t) = t - bucket.last
              BY <5>1, <2>0, <3>1 DEF Elapsed
            <6>2. Refilled(KeyAt(t), t) = Lesser(Capacity, bucket.tokens + (t - bucket.last) * Rpm)
              BY <6>1, <4>2, <5>5 DEF KeyAt, Refilled
            <6>. QED
              BY <5>3, <6>2
          <5>. QED
            BY <5>4, <5>5
        <4>. QED
          BY <4>1, <4>2
      <3>5. Credit' = Lesser(Capacity, Credit + (clock' - clock) * Rpm)
        BY <3>1, <3>2, <3>4 DEF Credit
      <3>. QED
        BY <2>0, <3>1, <3>5, SameAccount DEF Budget!Elapse
    <2>6. CASE Disconnect \/ Reconnect
      BY <2>1, <2>6 DEF Disconnect, Reconnect
    <2>7. CASE RedisRestart
      <3>1. Credit' = Budget!Capacity
        BY <2>7, SameAccount DEF RedisRestart, Credit, Refilled, NoKey
      <3>2. Budget!Lose
        BY <2>7, <3>1 DEF RedisRestart, Budget!Lose
      <3>. QED
        BY <3>2 DEF Budget!Next
    <2>8. ASSUME NEW h \in Replicas, ReplicaRestart(h)
          PROVE  UNCHANGED Budget!vars
      BY <2>1, <2>8 DEF ReplicaRestart
    <2>9. CASE UNCHANGED vars
      BY <2>1, <2>9 DEF vars
    <2>. QED
      BY <2>2, <2>3, <2>4, <2>5, <2>6, <2>7, <2>8, <2>9 DEF Next, Budget!Next
  <1>. QED
    BY <1>1, <1>2, TypeCorrect, PromptInvariance, PTL
       DEF Spec, ImplementsBudget, Budget!Spec

LEMMA Additive ==
    ASSUME NEW a \in Int, NEW b \in Int, NEW k \in Int
    PROVE  k * (a + b) = k * a + k * b
  OBVIOUS

LEMMA Difference ==
    \A c, e \in Nat : e > c => e - c \in Nat /\ e = c + (e - c)
  OBVIOUS

(***************************************************************************)
(* The account is never overdrawn and never overfull, and the requests it  *)
(* paid for are covered by what it received.                               *)
(***************************************************************************)
THEOREM BudgetConserved == Budget!Spec => [](Budget!TypeOK /\ Budget!Conservation)
  <1>. DEFINE Inv == Budget!TypeOK /\ Budget!Conservation
  <1>0. /\ Capacity \in Nat /\ Unit = 60 /\ Rpm \in Nat
        /\ Budget!Capacity = Capacity /\ Budget!Unit = Unit
        /\ \A x, y : Budget!Lesser(x, y) = Lesser(x, y)
    BY LimitsAssumption, SameAccount DEF Capacity, Unit
  <1>1. Budget!Init => Inv
    BY <1>0 DEF Budget!Init, Budget!TypeOK, Budget!Conservation
  <1>2. Inv /\ [Budget!Next]_(Budget!vars) => Inv'
    <2> SUFFICES ASSUME Budget!TypeOK, Budget!Conservation, [Budget!Next]_(Budget!vars)
                 PROVE  Budget!TypeOK' /\ Budget!Conservation'
      OBVIOUS
    <2>1. CASE Budget!Elapse
      <3>1. PICK d \in Nat : d = clock' - clock /\ clock' = clock + d /\ clock' \in Nat
        <4>1. clock' \in Nat /\ clock' > clock
          BY <2>1 DEF Budget!Elapse
        <4>2. clock \in Nat
          BY DEF Budget!TypeOK
        <4>3. clock' - clock \in Nat /\ clock' = clock + (clock' - clock)
          BY <4>1, <4>2, Difference
        <4>. QED
          BY <4>1, <4>3
      <3>2. Rpm * (clock + d) = Rpm * clock + Rpm * d /\ d * Rpm = Rpm * d
        BY <1>0, <3>1, Additive DEF Budget!TypeOK
      <3>3. Rpm * d \in Nat
        BY <1>0, <3>1
      <3>4. Credit' = Lesser(Capacity, Credit + Rpm * d)
        BY <1>0, <2>1, <3>1, <3>2 DEF Budget!Elapse
      <3>5. PICK c \in 0..Capacity : Credit' = c /\ c <= Credit + Rpm * d
        BY <1>0, <3>3, <3>4 DEF Lesser, Budget!TypeOK
      <3>6. Unit * admitted \in Nat /\ Capacity * (1 + losses) \in Nat /\ Rpm * clock \in Nat
        BY <1>0 DEF Budget!TypeOK
      <3>. QED
        <4>1. Budget!TypeOK'
          BY <1>0, <2>1, <3>1, <3>5 DEF Budget!Elapse, Budget!TypeOK
        <4>2. Unit * admitted + c <= Capacity * (1 + losses) + Rpm * (clock + d)
          BY <1>0, <3>2, <3>3, <3>5, <3>6 DEF Budget!TypeOK, Budget!Conservation
        <4>. QED
          BY <1>0, <2>1, <3>1, <3>5, <4>1, <4>2 DEF Budget!Elapse, Budget!Conservation
    <2>2. CASE Budget!Admit
      <3>1. Unit * (admitted + 1) = Unit * admitted + Unit
        BY <1>0 DEF Budget!TypeOK
      <3>. QED
        BY <1>0, <2>2, <3>1 DEF Budget!Admit, Budget!TypeOK, Budget!Conservation
    <2>3. CASE Budget!Lose
      <3>1. Capacity * (1 + (losses + 1)) = Capacity * (1 + losses) + Capacity
        BY <1>0, Additive DEF Budget!TypeOK
      <3>2. Unit * admitted \in Nat /\ Capacity * (1 + losses) \in Nat /\ Rpm * clock \in Nat
        BY <1>0 DEF Budget!TypeOK
      <3>. QED
        BY <1>0, <2>3, <3>1, <3>2 DEF Budget!Lose, Budget!TypeOK, Budget!Conservation
    <2>4. CASE UNCHANGED Budget!vars
      BY <2>4 DEF Budget!vars, Budget!TypeOK, Budget!Conservation
    <2>. QED
      BY <2>1, <2>2, <2>3, <2>4 DEF Budget!Next
  <1>. QED
    BY <1>1, <1>2, PTL DEF Budget!Spec

(***************************************************************************)
(* Hence, in such an environment, the requests the bucket admits stay      *)
(* within the rate, the burst and one more burst per loss of Redis.        *)
(***************************************************************************)
THEOREM RateIsEnforced ==
    ASSUME PromptClocks, TTLCoversRefill
    PROVE  Spec => []WithinBudget
  <1>1. Budget!Spec => []WithinBudget
    BY BudgetConserved, PTL DEF WithinBudget
  <1>. QED
    BY <1>1, Refinement, PTL DEF ImplementsBudget

-----------------------------------------------------------------------------
(***************************************************************************)
(* A refusal is honest, however doubles are rounded: the account cannot    *)
(* pay with anything to spare, at the second of Retry-After it can, and    *)
(* the second before it cannot with anything to spare (retry_after of      *)
(* check_rate_limit).  The time to live plays no part.                     *)
(***************************************************************************)
THEOREM HonestRefusals ==
    ASSUME PromptClocks
    PROVE  Spec => RefusalIsHonest
  <1>1. TypeOK /\ PromptInv =>
            [\A r \in Requests :
                (Evaluate(r) /\ ~answer'.allowed) =>
                   /\ Credit <= Unit
                   /\ Credit + answer'.retry * Rpm >= Unit
                   /\ Credit + (answer'.retry - 1) * Rpm <= Unit]_vars
    <2> SUFFICES ASSUME TypeOK, PromptInv, NEW r \in Requests, Evaluate(r), ~answer'.allowed
                 PROVE  /\ Credit <= Unit
                        /\ Credit + answer'.retry * Rpm >= Unit
                        /\ Credit + (answer'.retry - 1) * Rpm <= Unit
      OBVIOUS
    <2>1. check[r].stamp = clock
      BY DEF Evaluate, PromptInv, StampIsNow
    <2>2. bucket \in Buckets /\ clock \in Nat
      BY DEF TypeOK
    <2>3. PICK s \in BOOLEAN, over \in Overs(bucket, clock) :
            ~Admits(bucket, clock, s) /\ answer'.retry = RetryAfter(bucket, clock, over)
      BY <2>1, <2>2, RoundingType DEF Evaluate
    <2>. DEFINE x == Unit - Credit
                q == answer'.retry
    <2>4. Credit \in Int /\ Unit \in Int
      BY <2>2, RefilledType, CapacityType DEF Credit
    <2>5. x \in 0..60 /\ q \in 1..61 /\ q * Rpm >= x /\ (q - 1) * Rpm <= x
      BY <2>2, <2>3, RetryCovers DEF Credit
    <2>6. q * Rpm \in Int /\ (q - 1) * Rpm \in Int
      BY <2>5, LimitsAssumption
    <2>. QED
      BY <2>4, <2>5, <2>6
  <1>. QED
    BY <1>1, TypeCorrect, PromptInvariance, PTL DEF Spec, RefusalIsHonest

(***************************************************************************)
(* A key that Redis drops for its age had refilled: the EXPIRE of the      *)
(* script gives nothing away.                                              *)
(***************************************************************************)
THEOREM ExpiryIsFree ==
    ASSUME PromptClocks, TTLCoversRefill
    PROVE  Spec => ExpiryLosesNothing
  <1>1. TypeOK /\ PromptInv /\ [Next]_vars =>
            [(bucket.exists /\ ~bucket'.exists /\ losses' = losses) =>
                Refilled(bucket, clock') = Capacity]_vars
    <2> SUFFICES ASSUME TypeOK, PromptInv, [Next]_vars,
                        bucket.exists, ~bucket'.exists, losses' = losses
                 PROVE  Refilled(bucket, clock') = Capacity
      OBVIOUS
    <2>0. clock \in Nat /\ bucket \in Buckets /\ losses \in Nat
      BY DEF TypeOK
    <2>1. ASSUME NEW t \in Instants, Pass(t)
          PROVE  Refilled(bucket, clock') = Capacity
      <3>1. t >= expireAt /\ clock' = t /\ t \in Nat
        BY <2>1, LimiterAssumption DEF Pass, KeyAt
      <3>2. bucket.last \in Nat /\ bucket.tokens \in 0..Capacity /\ expireAt = bucket.last + KeyTTL
        BY <2>0 DEF Buckets, PromptInv, KeyAge
      <3>3. t > bucket.last /\ t >= bucket.last + KeyTTL
        BY <3>1, <3>2 DEF KeyTTL
      <3>4. Refilled(bucket, t) = Lesser(Capacity, bucket.tokens + (t - bucket.last) * Rpm)
        BY <3>3 DEF Refilled, Elapsed
      <3>. QED
        BY <3>1, <3>2, <3>3, <3>4, FullAtExpiry
    <2>2. ASSUME NEW r \in Requests, Evaluate(r)
          PROVE  FALSE
      BY <2>2 DEF Evaluate, After
    <2>3. CASE RedisRestart
      BY <2>0, <2>3 DEF RedisRestart
    <2>4. ASSUME bucket' = bucket
          PROVE  FALSE
      BY <2>4
    <2>5. ASSUME NEW r \in Requests, (\E h \in Replicas : BeginCached(r, h) \/ BeginLoading(r, h))
                                     \/ ScriptLoaded(r) \/ Fail(r)
          PROVE  FALSE
      BY <2>4, <2>5 DEF BeginCached, BeginLoading, ScriptLoaded, Fail
    <2>6. CASE Disconnect \/ Reconnect \/ (\E h \in Replicas : ReplicaRestart(h)) \/ UNCHANGED vars
      BY <2>4, <2>6 DEF Disconnect, Reconnect, ReplicaRestart, vars
    <2>. QED
      BY <2>1, <2>2, <2>3, <2>5, <2>6 DEF Next
  <1>. QED
    BY <1>1, TypeCorrect, PromptInvariance, PTL DEF Spec, ExpiryLosesNothing
=============================================================================
