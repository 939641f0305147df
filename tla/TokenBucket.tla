---------------------------- MODULE TokenBucket ----------------------------
(***************************************************************************)
(* The token-bucket script of rate_limit_service.py (TOKEN_BUCKET_LUA) as  *)
(* operators on the value of one Redis key.  The script counts tokens in   *)
(* fractions (refill_rate = rpm / 60 per second); here a token is Unit     *)
(* credits, so that one second of refill is Rpm credits and every quantity *)
(* is an integer.  The script's numbers are IEEE doubles, each a hair away *)
(* from the credits it stands for unless Exact: how it was rounded shows   *)
(* where a decision lies on a whole number, and is a choice there.         *)
(***************************************************************************)
EXTENDS Integers

CONSTANTS Rpm,      \* Org.rate_limit_rpm: requests per minute
          Burst     \* Org.rate_limit_burst: bucket capacity, in requests

ASSUME LimitsAssumption == Rpm \in Nat \ {0} /\ Burst \in Nat \ {0}

Unit == 60                \* credits of one request: seconds in rpm's minute
Capacity == Unit * Burst  \* a full bucket

\* (mutant) two seconds
KeyTTLShort == 2

KeyTTL == 120             \* seconds, the EXPIRE of the script

Lesser(a, b) == IF a < b THEN a ELSE b

\* rpm / 60.0 is a double without rounding, and so is all that follows from it.
Exact == Rpm % 15 = 0

(***************************************************************************)
(* The value of the key: absent, or the hash fields 'tokens' and           *)
(* 'last_refill'; 'short' says that the double is below the credits.       *)
(***************************************************************************)
Buckets == [exists : BOOLEAN, short : BOOLEAN, tokens : 0..Capacity, last : Nat]
NoKey == [exists |-> FALSE, short |-> FALSE, tokens |-> 0, last |-> 0]

\* The seconds credited at clock reading t: never negative.
Elapsed(b, t) == IF t > b.last THEN t - b.last ELSE 0

\* (mutant) no math.min
RefilledUncapped(b, t) ==
    IF b.exists THEN b.tokens + Elapsed(b, t) * Rpm ELSE Capacity

\* The credits found by a call that carries clock reading t.
Refilled(b, t) ==
    IF b.exists THEN Lesser(Capacity, b.tokens + Elapsed(b, t) * Rpm) ELSE Capacity

\* What 'short' may be after refilling.  A full bucket is max_tokens itself, and
\* adding nothing rounds nothing.
Shorts(b, t) ==
    IF ~b.exists \/ b.tokens + Elapsed(b, t) * Rpm > Capacity THEN {FALSE}
    ELSE IF Elapsed(b, t) = 0 \/ Exact THEN {b.short}
    ELSE BOOLEAN

\* tokens >= 1, with s what 'short' has become.
Admits(b, t, s) == Refilled(b, t) > Unit \/ (Refilled(b, t) = Unit /\ ~s)

\* (mutant) last_refill not written back
AfterForgetful(b, t, s) ==
    [exists |-> TRUE, short |-> s, last |-> b.last,
     tokens |-> IF Admits(b, t, s) THEN Refilled(b, t) - Unit ELSE Refilled(b, t)]

\* The key after the call, whether the request is admitted or refused: HMSET
\* keeps every digit of a double, and subtracting 1 rounds nothing.
After(b, t, s) ==
    [exists |-> TRUE, short |-> s, last |-> t,
     tokens |-> IF Admits(b, t, s) THEN Refilled(b, t) - Unit ELSE Refilled(b, t)]

\* Whether the double needed / refill_rate may lie above the quotient of credits.
\* With nothing needed but the hair it does.
Overs(b, t) ==
    IF Refilled(b, t) = Unit THEN {TRUE} ELSE IF Exact THEN {FALSE} ELSE BOOLEAN

\* (mutant) math.floor
RetryAfterFloor(b, t, over) == (Unit - Refilled(b, t)) \div Rpm

\* math.ceil(needed / refill_rate) of a refused call, in seconds.
RetryAfter(b, t, over) ==
    (Unit - Refilled(b, t) + (IF over THEN Rpm ELSE Rpm - 1)) \div Rpm
=============================================================================
