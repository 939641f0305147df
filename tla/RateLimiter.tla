---------------------------- MODULE RateLimiter ----------------------------
(***************************************************************************)
(* rate_limit_service.check_rate_limit: the bucket of one organisation in  *)
(* Redis, asked by the requests that run in the API replicas.  A check     *)
(* suspends twice (SCRIPT LOAD, EVALSHA); the clock is read between the    *)
(* two, on the replica's host, and travels with the EVALSHA.  Redis keeps  *)
(* nothing on disk (docker-compose.yml: --save "" --appendonly no).        *)
(***************************************************************************)
EXTENDS TokenBucket

CONSTANTS Requests,     \* coroutines that may run a check
          Replicas,     \* API processes
          Skew,         \* Skew[h]: seconds the clock of replica h runs ahead
          FailOpen,     \* RATE_LIMIT_FAIL_OPEN
          Instants,     \* bound: the readings of the true clock considered
          MaxLag,       \* bound on the time between reading the clock and the script
          MaxLosses,    \* bound on Redis restarts
          MaxAdmitted   \* bound on the requests admitted by the bucket

ASSUME LimiterAssumption ==
    /\ Replicas # {}
    /\ Skew \in [Replicas -> Nat]
    /\ FailOpen \in BOOLEAN
    /\ Instants \subseteq Nat
    /\ MaxLag \in Nat /\ MaxLosses \in Nat /\ MaxAdmitted \in Nat

VARIABLES
    bucket,     \* the Redis key rl:{org}
    expireAt,   \* when Redis drops the key
    loaded,     \* the script is in Redis's script cache
    up,         \* Redis answers
    sha,        \* _lua_sha of each replica is set
    check,      \* per request: where its check stands
    answer,     \* the (allowed, retry_after) returned last
    clock,      \* true time, seconds
    admitted,   \* history: requests the bucket admitted
    losses      \* history: Redis restarts

vars == <<bucket, expireAt, loaded, up, sha, check, answer, clock, admitted, losses>>

(***************************************************************************)
(* A check: its phase, its replica, the clock reading it carries, and the  *)
(* history whether Redis has been up since it began.  A request without a  *)
(* check, or whose check has answered, is Idle.                            *)
(***************************************************************************)
Phases == {"idle", "loading", "stamped"}
Answers == [allowed : BOOLEAN, retry : 0..61]
Checks == [phase : Phases, at : Replicas, stamp : Nat, steady : BOOLEAN]
Idle == [phase |-> "idle", at |-> CHOOSE h \in Replicas : TRUE, stamp |-> 0, steady |-> FALSE]

Reading(h) == clock + Skew[h]

Init ==
    /\ bucket = NoKey /\ expireAt = 0
    /\ loaded = FALSE /\ up = TRUE
    /\ sha = [h \in Replicas |-> FALSE]
    /\ check = [r \in Requests |-> Idle]
    /\ answer = [allowed |-> TRUE, retry |-> 0]
    /\ clock = 0 /\ admitted = 0 /\ losses = 0

-----------------------------------------------------------------------------
\* _ensure_script finds the sha cached: the clock is read at once.
BeginCached(r, h) ==
    /\ check[r].phase = "idle" /\ sha[h] /\ admitted < MaxAdmitted
    /\ check' = [check EXCEPT ![r] = [phase |-> "stamped", at |-> h, stamp |-> Reading(h),
                                    steady |-> up]]
    /\ UNCHANGED <<bucket, expireAt, loaded, up, sha, answer, clock, admitted, losses>>

\* _ensure_script has to load the script, and waits.
BeginLoading(r, h) ==
    /\ check[r].phase = "idle" /\ ~sha[h] /\ admitted < MaxAdmitted
    /\ check' = [check EXCEPT ![r] = [phase |-> "loading", at |-> h, stamp |-> 0,
                                    steady |-> up]]
    /\ UNCHANGED <<bucket, expireAt, loaded, up, sha, answer, clock, admitted, losses>>

ScriptLoaded(r) ==
    /\ check[r].phase = "loading" /\ up
    /\ loaded' = TRUE
    /\ sha' = [sha EXCEPT ![check[r].at] = TRUE]
    /\ check' = [check EXCEPT ![r].phase = "stamped",
                              ![r].stamp = Reading(check[r].at)]
    /\ UNCHANGED <<bucket, expireAt, up, answer, clock, admitted, losses>>

\* EVALSHA on a Redis that knows the script.
Evaluate(r) ==
    LET t == check[r].stamp IN
    /\ check[r].phase = "stamped" /\ up /\ loaded
    /\ \E s \in Shorts(bucket, t) :
          /\ bucket' = After(bucket, t, s)
          /\ \/ /\ Admits(bucket, t, s)
                /\ admitted' = admitted + 1
                /\ answer' = [allowed |-> TRUE, retry |-> 0]
             \/ /\ ~Admits(bucket, t, s)
                /\ admitted' = admitted
                /\ \E over \in Overs(bucket, t) :
                      answer' = [allowed |-> FALSE, retry |-> RetryAfter(bucket, t, over)]
    /\ expireAt' = clock + KeyTTL
    /\ check' = [check EXCEPT ![r] = Idle]
    /\ UNCHANGED <<loaded, up, sha, clock, losses>>

\* The except branch: the store is out of reach, or answers NOSCRIPT.
Fail(r) ==
    /\ \/ check[r].phase \in {"loading", "stamped"} /\ ~up
       \/ check[r].phase = "stamped" /\ up /\ ~loaded
    /\ check' = [check EXCEPT ![r] = Idle]
    /\ answer' = [allowed |-> FailOpen, retry |-> IF FailOpen THEN 0 ELSE 60]
    /\ UNCHANGED <<bucket, expireAt, loaded, up, sha, clock, admitted, losses>>

-----------------------------------------------------------------------------
\* Redis drops the key when its time to live has run out.
KeyAt(t) == IF t >= expireAt THEN NoKey ELSE bucket

Pass(t) ==
    /\ t > clock
    /\ \A r \in Requests : check[r].phase = "stamped" =>
          t + Skew[check[r].at] - check[r].stamp <= MaxLag
    /\ clock' = t
    /\ bucket' = KeyAt(t)
    /\ expireAt' = IF bucket'.exists THEN expireAt ELSE 0
    /\ UNCHANGED <<loaded, up, sha, check, answer, admitted, losses>>

\* (history) no check under way has had Redis up throughout
Unsteady == [r \in Requests |-> [check[r] EXCEPT !.steady = FALSE]]

Disconnect ==
    /\ up
    /\ up' = FALSE
    /\ check' = Unsteady
    /\ UNCHANGED <<bucket, expireAt, loaded, sha, answer, clock, admitted, losses>>

Reconnect ==
    /\ ~up
    /\ up' = TRUE
    /\ UNCHANGED <<bucket, expireAt, loaded, sha, check, answer, clock, admitted, losses>>

\* Redis restarts empty: neither keys nor scripts survive.
RedisRestart ==
    /\ losses < MaxLosses
    /\ bucket' = NoKey /\ expireAt' = 0 /\ loaded' = FALSE /\ up' = TRUE
    /\ losses' = losses + 1
    /\ check' = Unsteady
    /\ UNCHANGED <<sha, answer, clock, admitted>>

\* A replica restarts: its module globals and its coroutines are gone.
ReplicaRestart(h) ==
    /\ sha' = [sha EXCEPT ![h] = FALSE]
    /\ check' = [r \in Requests |-> IF check[r].at = h
                                    THEN Idle ELSE check[r]]
    /\ UNCHANGED <<bucket, expireAt, loaded, up, answer, clock, admitted, losses>>

Next ==
    \/ \E r \in Requests, h \in Replicas : BeginCached(r, h) \/ BeginLoading(r, h)
    \/ \E r \in Requests : ScriptLoaded(r) \/ Evaluate(r) \/ Fail(r)
    \/ \E t \in Instants : Pass(t)
    \/ Disconnect \/ Reconnect \/ RedisRestart
    \/ \E h \in Replicas : ReplicaRestart(h)

Spec == Init /\ [][Next]_vars

-----------------------------------------------------------------------------
\* Every variable keeps its type; a bucket never holds more than Burst tokens.
TypeOK ==
    /\ bucket \in Buckets
    /\ expireAt \in Nat
    /\ loaded \in BOOLEAN /\ up \in BOOLEAN
    /\ sha \in [Replicas -> BOOLEAN]
    /\ check \in [Requests -> Checks]
    /\ answer \in Answers
    /\ clock \in Nat /\ admitted \in Nat /\ losses \in Nat

(***************************************************************************)
(* The environment in which the script keeps its promise: replicas agree   *)
(* on the time, a clock reading reaches Redis within its second, and the   *)
(* bucket refills within the time to live of its key.                      *)
(***************************************************************************)
PromptClocks ==
    /\ \A h \in Replicas : Skew[h] = 0
    /\ MaxLag = 0
TTLCoversRefill == Capacity <= KeyTTL * Rpm

\* The credits the organisation has by the true clock.
Credit == Refilled(bucket, clock)

Budget == INSTANCE RateBudget WITH credit <- Credit

(***************************************************************************)
(* Lazy refilling, with expiry of idle keys, implements the continuously   *)
(* filling account: check_rate_limit never admits a request the account    *)
(* does not pay for, however its doubles are rounded.  (It may refuse one  *)
(* that the account could just pay for.)                                   *)
(***************************************************************************)
ImplementsBudget == Budget!Spec

\* Requests admitted stay within the configured rate, the burst and one more
\* burst for each restart of Redis.
WithinBudget == Budget!Conservation

(***************************************************************************)
(* The answer to a refused request is honest: the account cannot pay for   *)
(* it with anything to spare, by the second named in Retry-After it can if *)
(* left alone, and the second before it could not with anything to spare.  *)
(* (To spare: a double may be a hair short of a whole token.)              *)
(***************************************************************************)
RefusalIsHonest ==
    [][\A r \in Requests :
         (Evaluate(r) /\ ~answer'.allowed) =>
            /\ Credit <= Unit
            /\ Credit + answer'.retry * Rpm >= Unit
            /\ Credit + (answer'.retry - 1) * Rpm <= Unit]_vars

(***************************************************************************)
(* A key that Redis drops for its age had long refilled, so that starting  *)
(* afresh gives nothing away: it needs TTLCoversRefill, because the TTL is *)
(* a constant and not, as research.md says, twice the time of a refill.    *)
(***************************************************************************)
ExpiryLosesNothing ==
    [][(bucket.exists /\ ~bucket'.exists /\ losses' = losses) =>
          Refilled(bucket, clock') = Capacity]_vars

-----------------------------------------------------------------------------
(***************************************************************************)
(* FR-016 (spec.md:133): rate limiting remains operational even if the     *)
(* store is momentarily degraded.  So a check that finds Redis up when it  *)
(* begins, and during all of which Redis stays up and does not restart, is *)
(* decided by the bucket and not by the failure policy.                    *)
(***************************************************************************)
OperationalWhileUp ==
    [][\A r \in Requests : Fail(r) => ~check[r].steady]_vars
=============================================================================
