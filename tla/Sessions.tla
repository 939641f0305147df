------------------------------ MODULE Sessions ------------------------------
(***************************************************************************)
(* The sessions of one user: routers/auth.py (login, Google sign-in,       *)
(* refresh, logout, reset_password) and the refresh tokens auth_service keeps in    *)
(* Redis.  A request suspends at every call to Redis and to the database,  *)
(* so an action is one such call.  Access tokens are stateless and not     *)
(* modelled.  A client is an HTTP client with a cookie jar.                *)
(***************************************************************************)
EXTENDS Naturals, FiniteSets

CONSTANTS Clients,
          Requests,     \* requests that can be in flight at the same time
          Tokens,       \* bound: jtis that can be issued
          None,         \* no token, no client
          MaxResets,    \* bound on password resets
          MaxMishaps    \* bound on failures, Redis restarts and suspensions

ASSUME SessionsAssumption ==
    None \notin Tokens \cup Clients /\ MaxResets \in Nat /\ MaxMishaps \in Nat

VARIABLES
    active,     \* jtis with a key refresh_token:{user}:{jti}
    cookie,     \* refresh_token cookie of each client
    req,        \* the requests in flight
    password,   \* committed password, as the number of resets before it
    suspended,  \* is_active = FALSE is committed (or the user deleted)
    issued,     \* history: what each issued token came from
    ended,      \* history: tokens that logout revoked
    excused,    \* history: clients whose session may have been taken from them
    mishaps     \* bound: mishaps so far

vars == <<active, cookie, req, password, suspended, issued, ended, excused, mishaps>>

(***************************************************************************)
(*  idle      no request                                                   *)
(*  asked     refresh: cookie decoded, is_refresh_token_valid to be called *)
(*  valid     refresh: the token was active, to be revoked                 *)
(*  revoked   refresh: the user to be selected                             *)
(*  known     sign-in or refresh: the user is good, a token to be stored   *)
(*  stored    sign-in or refresh: answer, with the cookie, to be sent      *)
(*  alarm     refresh: token not active, KEYS to be called                 *)
(*  leaving   logout: token to be revoked                                  *)
(*  left      logout: answer to be sent                                    *)
(*  reset     reset_password: code accepted, KEYS to be called             *)
(*  sweep     KEYS was answered, DELETE to be called                       *)
(*  swept     reset_password: new password to be committed                 *)
(***************************************************************************)
Stages == {"idle", "asked", "valid", "revoked", "known", "stored", "alarm",
           "leaving", "left", "reset", "sweep", "swept"}

\* token: presented, then stored; secret: the password behind it; keys: the answer
\* of KEYS; resets: reset_password.  History: barred, a login or refresh whose user
\* has been suspended ever since it began; alone, no other request of the user was in flight meanwhile.
Idle == [stage |-> "idle", client |-> None, token |-> None, secret |-> 0, keys |-> {},
         resets |-> FALSE, barred |-> FALSE, alone |-> TRUE]

Issued == DOMAIN issued
Busy == {q \in Requests : req[q].stage # "idle"}

Init ==
    /\ active = {}
    /\ cookie = [c \in Clients |-> None]
    /\ req = [q \in Requests |-> Idle]
    /\ password = 0 /\ suspended = FALSE
    /\ issued = [t \in {} |-> Idle] /\ ended = {} /\ excused = {}
    /\ mishaps = 0

Begin(q, c, stage, token, secret, barred) ==
    /\ q \notin Busy
    /\ req' = [p \in Requests |->
                 IF p = q
                 THEN [stage |-> stage, client |-> c, token |-> token, secret |-> secret,
                       keys |-> {}, resets |-> stage = "reset", barred |-> barred,
                       alone |-> Busy = {}]
                 ELSE [req[p] EXCEPT !.alone = @ /\ p \notin Busy]]
    /\ excused' = excused \cup (IF \E p \in Busy : req[p].client = c THEN {c} ELSE {})
Goto(q, stage) == req' = [req EXCEPT ![q].stage = stage]
End(q) == req' = [req EXCEPT ![q] = Idle]
Excuse(S) == excused' = excused \cup S
Mishap == mishaps < MaxMishaps /\ mishaps' = mishaps + 1

-----------------------------------------------------------------------------
\* login, register: the committed row is read and found good, or is new.
Login(q, c) ==
    /\ ~suspended
    /\ Begin(q, c, "known", None, password, suspended)
    /\ UNCHANGED <<active, cookie, password, suspended, issued, ended, mishaps>>

\* google_auth of a user who is verified, and verify_email_otp: neither looks at
\* is_active, and the latter sets it.  (For a deleted user google_auth makes a new
\* account, whose sessions are not these.)
GoogleSignIn(q, c) ==
    /\ Begin(q, c, "known", None, password, FALSE)
    /\ UNCHANGED <<active, cookie, password, suspended, issued, ended, mishaps>>

Refresh(q, c) ==
    /\ cookie[c] # None
    /\ Begin(q, c, "asked", cookie[c], 0, suspended)
    /\ UNCHANGED <<active, cookie, password, suspended, issued, ended, mishaps>>

IsValid(q) ==
    /\ req[q].stage = "asked"
    /\ Goto(q, IF req[q].token \in active THEN "valid" ELSE "alarm")
    /\ UNCHANGED <<active, cookie, password, suspended, issued, ended, excused, mishaps>>

\* (mutant) the token that is exchanged stays valid
RevokeOldNot(q) ==
    /\ req[q].stage = "valid"
    /\ Goto(q, "revoked")
    /\ UNCHANGED <<active, cookie, password, suspended, issued, ended, excused, mishaps>>

\* revoke_refresh_token of the token that is being exchanged
RevokeOld(q) ==
    /\ req[q].stage = "valid"
    /\ active' = active \ {req[q].token}
    /\ Goto(q, "revoked")
    /\ UNCHANGED <<cookie, password, suspended, issued, ended, excused, mishaps>>

\* (mutant) is_active is not looked at
SelectAnyUser(q) ==
    /\ req[q].stage = "revoked"
    /\ req' = [req EXCEPT ![q].stage = "known", ![q].secret = issued[req[q].token].secret]
    /\ UNCHANGED <<active, cookie, password, suspended, issued, ended, excused, mishaps>>

\* A suspended user gets a 401 and keeps a cookie that is revoked.
SelectUser(q) ==
    /\ req[q].stage = "revoked"
    /\ \/ suspended /\ End(q) /\ Excuse({req[q].client})
       \/ /\ ~suspended
          /\ req' = [req EXCEPT ![q].stage = "known", ![q].secret = issued[req[q].token].secret]
          /\ UNCHANGED excused
    /\ UNCHANGED <<active, cookie, password, suspended, issued, ended, mishaps>>

\* smooth (once the answer has arrived): neither this request nor that of a token
\* before it overlapped another request or was cut off.
Issue(q, t) ==
    issued' = [u \in Issued \cup {t} |->
                 IF u = t THEN [secret |-> req[q].secret, parent |-> req[q].token,
                                barred |-> req[q].barred, smooth |-> FALSE]
                          ELSE issued[u]]

\* (mutant) the key is written under the old jti
StoreOld(q, t) ==
    /\ req[q].stage = "known" /\ t \in Tokens \ Issued
    /\ active' = active \cup {IF req[q].token = None THEN t ELSE req[q].token}
    /\ Issue(q, t)
    /\ req' = [req EXCEPT ![q].stage = "stored", ![q].token = t]
    /\ UNCHANGED <<cookie, password, suspended, ended, excused, mishaps>>

\* create_refresh_token and store_active_refresh_token
Store(q, t) ==
    /\ req[q].stage = "known" /\ t \in Tokens \ Issued
    /\ active' = active \cup {t}
    /\ Issue(q, t)
    /\ req' = [req EXCEPT ![q].stage = "stored", ![q].token = t]
    /\ UNCHANGED <<cookie, password, suspended, ended, excused, mishaps>>

\* The response, with Set-Cookie, arrives.
AnswerCookie(q) ==
    /\ req[q].stage = "stored"
    /\ cookie' = [cookie EXCEPT ![req[q].client] = req[q].token]
    /\ issued' = [issued EXCEPT ![req[q].token].smooth =
                     req[q].alone /\ \A t \in Issued : t = issued[req[q].token].parent => issued[t].smooth]
    /\ End(q)
    /\ UNCHANGED <<active, password, suspended, ended, excused, mishaps>>

-----------------------------------------------------------------------------
\* revoke_all_user_refresh_tokens: KEYS ...
FindKeys(q) ==
    /\ req[q].stage \in {"alarm", "reset"}
    /\ req' = [req EXCEPT ![q].stage = "sweep", ![q].keys = active]
    /\ UNCHANGED <<active, cookie, password, suspended, issued, ended, excused, mishaps>>

Swept(q) == IF req[q].resets THEN Goto(q, "swept") ELSE End(q)

\* (mutant) only the token presented is deleted
DeleteOne(q) ==
    /\ req[q].stage = "sweep"
    /\ active' = active \ {req[q].token}
    /\ Swept(q) /\ Excuse(Clients)
    /\ UNCHANGED <<cookie, password, suspended, issued, ended, mishaps>>

\* ... and DELETE.  The 401 that follows the alarm is a response of its own: the
\* delete_cookie of the endpoint's response is lost with it.
DeleteKeys(q) ==
    /\ req[q].stage = "sweep"
    /\ active' = active \ req[q].keys
    /\ Swept(q) /\ Excuse(Clients)
    /\ UNCHANGED <<cookie, password, suspended, issued, ended, mishaps>>

\* reset_password, its code accepted; is_active is not looked at.
Reset(q, c) ==
    /\ password + Cardinality({p \in Busy : req[p].resets}) < MaxResets
    /\ Begin(q, c, "reset", None, 0, FALSE)
    /\ UNCHANGED <<active, cookie, password, suspended, issued, ended, mishaps>>

\* The flush and the commit of the request's transaction.
CommitReset(q) ==
    /\ req[q].stage = "swept"
    /\ password' = password + 1
    /\ End(q)
    /\ UNCHANGED <<active, cookie, suspended, issued, ended, excused, mishaps>>

\* (mutant) a request without the cookie is treated like one that has it
LogoutAnyone(q, c) ==
    /\ Begin(q, c, "leaving", cookie[c], 0, FALSE)
    /\ UNCHANGED <<active, cookie, password, suspended, issued, ended, mishaps>>

Logout(q, c) ==
    /\ cookie[c] # None
    /\ Begin(q, c, "leaving", cookie[c], 0, FALSE)
    /\ UNCHANGED <<active, cookie, password, suspended, issued, ended, mishaps>>

\* (mutant) logout only clears the cookie
RevokeLeftNot(q) ==
    /\ req[q].stage = "leaving"
    /\ ended' = ended \cup {req[q].token}
    /\ Goto(q, "left")
    /\ UNCHANGED <<active, cookie, password, suspended, issued, excused, mishaps>>

RevokeLeft(q) ==
    /\ req[q].stage = "leaving"
    /\ active' = active \ {req[q].token}
    /\ ended' = ended \cup {req[q].token}
    /\ Goto(q, "left")
    /\ UNCHANGED <<cookie, password, suspended, issued, excused, mishaps>>

\* logout swallows every error, Redis' included, and answers as if it had revoked.
RevokeLeftFails(q) ==
    /\ Mishap
    /\ req[q].stage = "leaving"
    /\ Goto(q, "left")
    /\ UNCHANGED <<active, cookie, password, suspended, issued, ended, excused>>

AnswerLogout(q) ==
    /\ req[q].stage = "left"
    /\ cookie' = [cookie EXCEPT ![req[q].client] = None]
    /\ End(q)
    /\ UNCHANGED <<active, password, suspended, issued, ended, excused, mishaps>>

\* A call to Redis or to the database fails, the process dies, or the response is lost.
Abort(q) ==
    /\ Mishap
    /\ q \in Busy
    /\ End(q) /\ Excuse({req[q].client})
    /\ UNCHANGED <<active, cookie, password, suspended, issued, ended>>

-----------------------------------------------------------------------------
\* PATCH or DELETE /admin/users/{id}: the tokens stay in Redis.
Suspend ==
    /\ Mishap
    /\ ~suspended
    /\ suspended' = TRUE
    /\ UNCHANGED <<active, cookie, req, password, issued, ended, excused>>

\* PATCH again, or the commit of verify_email_otp.
Reactivate ==
    /\ suspended
    /\ suspended' = FALSE
    /\ req' = [q \in Requests |-> [req[q] EXCEPT !.barred = FALSE]]
    /\ UNCHANGED <<active, cookie, password, issued, ended, excused, mishaps>>

\* Redis restarts empty.
RedisRestart ==
    /\ Mishap
    /\ active' = {}
    /\ Excuse(Clients)
    /\ UNCHANGED <<cookie, req, password, suspended, issued, ended>>

Next ==
    \/ \E q \in Requests, c \in Clients :
          \/ Login(q, c) \/ GoogleSignIn(q, c) \/ Refresh(q, c)
          \/ Logout(q, c) \/ Reset(q, c)
    \/ \E q \in Requests, t \in Tokens : Store(q, t)
    \/ \E q \in Requests :
          \/ IsValid(q) \/ RevokeOld(q) \/ SelectUser(q) \/ AnswerCookie(q)
          \/ FindKeys(q) \/ DeleteKeys(q) \/ CommitReset(q)
          \/ RevokeLeft(q) \/ RevokeLeftFails(q) \/ AnswerLogout(q) \/ Abort(q)
    \/ Suspend \/ Reactivate \/ RedisRestart

Spec == Init /\ [][Next]_vars

-----------------------------------------------------------------------------
\* Every variable keeps its type, and every jti in use was issued.
TypeOK ==
    /\ Issued \subseteq Tokens /\ active \subseteq Issued /\ ended \subseteq Issued
    /\ issued \in [Issued -> [secret : Nat, parent : Tokens \cup {None}, barred : BOOLEAN,
                              smooth : BOOLEAN]]
    /\ cookie \in [Clients -> Issued \cup {None}]
    /\ req \in [Requests -> [stage : Stages, client : Clients \cup {None},
                             token : Issued \cup {None}, secret : Nat, keys : SUBSET Issued,
                             resets : BOOLEAN, barred : BOOLEAN, alone : BOOLEAN]]
    /\ password \in Nat /\ suspended \in BOOLEAN
    /\ excused \subseteq Clients /\ mishaps \in Nat

(***************************************************************************)
(* The reuse alarm does not end the session of a client that waits for     *)
(* each answer and receives it: the cookie of such a client is active      *)
(* whenever it is at rest, however the requests of other clients           *)
(* interleave with its own.  A client is excused once a request of its own *)
(* overlapped another or was cut off, after a sweep, or a Redis restart.   *)
(***************************************************************************)
RestingCookieIsActive ==
    \A c \in Clients \ excused :
        cookie[c] # None /\ (\A q \in Busy : req[q].client # c) => cookie[c] \in active

(***************************************************************************)
(* A login or refresh during all of which the user is suspended or deleted *)
(* issues no token, however its reads and writes interleave with those of  *)
(* others, and whatever token it presents.  Google sign-in is exempt, for  *)
(* it does not look at is_active: a suspended user gets a session there,   *)
(* but cannot refresh it.                                                  *)
(***************************************************************************)
NothingForTheBarred == \A t \in Issued : ~issued[t].barred

(***************************************************************************)
(* Once reset_password is committed, the only sessions of the old password *)
(* left are those of requests that overlapped another, and their           *)
(* successors, whatever fails half way.                                    *)
(***************************************************************************)
ResetEndsOldSessions ==
    \A t \in active : issued[t].smooth => issued[t].secret = password

(***************************************************************************)
(* Rotation: a token is exchanged once, unless the requests that exchange  *)
(* it overlap; a failure between revocation and answer loses the session   *)
(* and never doubles it.                                                   *)
(***************************************************************************)
TokenExchangedOnce ==
    \A t, u \in Issued :
        t # u /\ issued[t].parent = issued[u].parent /\ issued[t].parent # None
            => ~issued[t].smooth /\ ~issued[u].smooth

(***************************************************************************)
(* Once logout has revoked a token, neither it nor one exchanged for it is *)
(* active, unless the exchange overlapped another request or was cut off.  *)
(***************************************************************************)
LogoutEndsSession ==
    \A t \in active : t \notin ended /\ (issued[t].smooth => issued[t].parent \notin ended)

=============================================================================
