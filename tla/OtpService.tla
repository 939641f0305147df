----------------------------- MODULE OtpService -----------------------------
(***************************************************************************)
(* otp_service.py and the endpoints of routers/auth.py that use it: the    *)
(* one-time codes of one e-mail address and purpose, in the table otps.    *)
(* Every request is one transaction at READ COMMITTED, which get_db        *)
(* commits after the response is sent.  A row that was updated and not yet *)
(* committed is locked; nothing else makes a request wait.                 *)
(***************************************************************************)
EXTENDS Naturals, FiniteSets

CONSTANTS Requests,     \* requests that can be in flight at the same time
          MaxSends,     \* codes per window of 15 minutes (the code says 3)
          MaxAttempts,  \* wrong guesses per code (the code says 5)
          MaxCodes,     \* bound on the codes generated
          MaxGuesses    \* bound on the wrong guesses

ASSUME OtpAssumption ==
    /\ IsFiniteSet(Requests)
    /\ MaxSends \in Nat \ {0} /\ MaxAttempts \in Nat \ {0}
    /\ MaxCodes \in Nat /\ MaxGuesses \in Nat

VARIABLES
    rows,       \* committed rows, by number in the order of created_at
    made,       \* number of the last row inserted
    age,        \* of each row inserted: "good", "expired", "old" (out of the window)
    req,        \* the requests in flight
    wrong,      \* history: guesses found wrong
    checked,    \* history: those at each code whose request met no other
    accepted,   \* history: codes whose acceptance was committed
    spent,      \* history: codes with which a password was reset
    lost        \* history: codes mailed whose row was rolled back

vars == <<rows, made, age, req, wrong, checked, accepted, spent, lost>>

Codes == 1..MaxCodes

(***************************************************************************)
(*  idle      no request                                                   *)
(*  send      store_otp: rows of the window to be counted                  *)
(*  mail      row inserted, code mailed, answer sent: to be committed      *)
(*  verify    verify_otp, or reset_password: latest row to be read         *)
(*  found     verify_otp: row read, attempts to be written                 *)
(*  matched   verified written: answer sent, to be committed               *)
(*  consume   reset_password: row to be deleted, and committed             *)
(***************************************************************************)
Stages == {"idle", "send", "mail", "verify", "found", "matched", "consume"}

\* code: row inserted or read; attempts: as read; resets: reset_password; locks:
\* has written to the row.  History: alone, no other request was in flight meanwhile.
Idle == [stage |-> "idle", code |-> 0, attempts |-> 0, resets |-> FALSE, locks |-> FALSE,
         alone |-> TRUE]

Stored == DOMAIN rows
Busy == {q \in Requests : req[q].stage # "idle"}

Init ==
    /\ rows = [c \in {} |-> Idle]
    /\ made = 0
    /\ age = [c \in Codes |-> "good"]
    /\ req = [q \in Requests |-> Idle]
    /\ wrong = 0 /\ checked = [c \in Codes |-> 0]
    /\ accepted = {} /\ spent = {} /\ lost = {}

Begin(q, stage, resets) ==
    /\ q \notin Busy
    /\ req' = [p \in Requests |->
                 IF p = q THEN [Idle EXCEPT !.stage = stage, !.resets = resets, !.alone = Busy = {}]
                          ELSE [req[p] EXCEPT !.alone = @ /\ p \notin Busy]]
    /\ UNCHANGED <<rows, made, age, wrong, checked, accepted, spent, lost>>
End(q) == req' = [req EXCEPT ![q] = Idle]

Locked(q, c) == \E p \in Requests \ {q} : req[p].locks /\ req[p].code = c

-----------------------------------------------------------------------------
InWindow == {c \in Stored : age[c] # "old"}

\* google_auth of an address that is new or not verified, send-verification-otp
\* (purpose signup); forgot-password (purpose forgot_password)
Send(q) == Begin(q, "send", FALSE)

\* (mutant) the limit is one too high
CountOneMore(q) ==
    /\ req[q].stage = "send" /\ made < MaxCodes
    /\ IF Cardinality(InWindow) > MaxSends
       THEN End(q) /\ UNCHANGED made
       ELSE /\ made' = made + 1
            /\ req' = [req EXCEPT ![q].stage = "mail", ![q].code = made + 1]
    /\ UNCHANGED <<rows, age, wrong, checked, accepted, spent, lost>>

\* store_otp; the mail is sent, and the answer, while the row is not committed.
Count(q) ==
    /\ req[q].stage = "send" /\ made < MaxCodes
    /\ IF Cardinality(InWindow) >= MaxSends
       THEN End(q) /\ UNCHANGED made
       ELSE /\ made' = made + 1
            /\ req' = [req EXCEPT ![q].stage = "mail", ![q].code = made + 1]
    /\ UNCHANGED <<rows, age, wrong, checked, accepted, spent, lost>>

CommitSend(q) ==
    /\ req[q].stage = "mail"
    /\ rows' = [c \in Stored \cup {req[q].code} |->
                  IF c = req[q].code THEN [attempts |-> 0, verified |-> FALSE] ELSE rows[c]]
    /\ End(q)
    /\ UNCHANGED <<made, age, wrong, checked, accepted, spent, lost>>

-----------------------------------------------------------------------------
\* verify-email-otp and verify-reset-otp, or reset-password
Verify(q, resets) == Begin(q, "verify", resets)

Latest == CHOOSE c \in Stored : \A d \in Stored : d <= c

\* (mutant) the row is not asked whether it was verified
ReadAnyway(q) ==
    /\ req[q].stage = "verify"
    /\ IF Stored # {} /\ rows[Latest].attempts < MaxAttempts
       THEN req' = [req EXCEPT ![q].stage = "found", ![q].code = Latest,
                               ![q].attempts = rows[Latest].attempts]
       ELSE End(q)
    /\ UNCHANGED <<rows, made, age, wrong, checked, accepted, spent, lost>>

\* (mutant) the lockout comes one guess too late
ReadOneMore(q) ==
    /\ req[q].stage = "verify"
    /\ IF Stored # {} /\ ~rows[Latest].verified /\ rows[Latest].attempts <= MaxAttempts
       THEN req' = [req EXCEPT ![q].stage = "found", ![q].code = Latest,
                               ![q].attempts = rows[Latest].attempts]
       ELSE End(q)
    /\ UNCHANGED <<rows, made, age, wrong, checked, accepted, spent, lost>>

\* A verified row ends a verification, and carries a reset while it is good.
\* reset_password reads the latest row twice; the second read finds the values of
\* the first in its session, or a newer row, with which it then fails: the reads
\* count as one, the later.
Read(q) ==
    /\ req[q].stage = "verify"
    /\ IF Stored # {} /\ rows[Latest].verified /\ req[q].resets /\ age[Latest] = "good"
       THEN req' = [req EXCEPT ![q].stage = "consume", ![q].code = Latest]
       ELSE IF Stored # {} /\ ~rows[Latest].verified /\ rows[Latest].attempts < MaxAttempts
       THEN req' = [req EXCEPT ![q].stage = "found", ![q].code = Latest,
                               ![q].attempts = rows[Latest].attempts]
       ELSE End(q)
    /\ UNCHANGED <<rows, made, age, wrong, checked, accepted, spent, lost>>

\* The UPDATE of attempts, then expiry and digits are looked at.  The value
\* written is the one read plus one; of a row that is gone it finds nothing and
\* the request fails (StaleDataError).
Gone(q) ==
    /\ req[q].stage = "found" /\ req[q].code \notin Stored
    /\ End(q)
    /\ UNCHANGED <<rows, made, age, wrong, checked, accepted, spent, lost>>

May(q) == req[q].stage = "found" /\ req[q].code \in Stored /\ ~Locked(q, req[q].code)

\* (mutant) the error rolls back the attempt
WrongRolledBack(q) ==
    LET c == req[q].code IN
    /\ May(q) /\ wrong < MaxGuesses
    /\ wrong' = wrong + 1
    /\ checked' = [checked EXCEPT ![c] = IF req[q].alone THEN @ + 1 ELSE @]
    /\ End(q)
    /\ UNCHANGED <<rows, made, age, accepted, spent, lost>>

\* Expired or not the digits that were mailed: committed before the error is raised.
Wrong(q) ==
    LET c == req[q].code IN
    /\ May(q) /\ wrong < MaxGuesses
    /\ rows' = [rows EXCEPT ![c].attempts = req[q].attempts + 1]
    /\ wrong' = wrong + 1
    /\ checked' = [checked EXCEPT ![c] = IF req[q].alone THEN @ + 1 ELSE @]
    /\ End(q)
    /\ UNCHANGED <<made, age, accepted, spent, lost>>

Right(q) ==
    /\ May(q) /\ age[req[q].code] = "good"
    /\ req' = [req EXCEPT ![q].stage = IF req[q].resets THEN "consume" ELSE "matched",
                          ![q].locks = TRUE]
    /\ UNCHANGED <<rows, made, age, wrong, checked, accepted, spent, lost>>

CommitMatch(q) ==
    LET c == req[q].code IN
    /\ req[q].stage = "matched"
    /\ rows' = [rows EXCEPT ![c] = [attempts |-> req[q].attempts + 1, verified |-> TRUE]]
    /\ accepted' = accepted \cup {c}
    /\ End(q)
    /\ UNCHANGED <<made, age, wrong, checked, spent, lost>>

\* The new password and the deletion of the row; a row already gone is no error.
CommitReset(q) ==
    LET c == req[q].code IN
    /\ req[q].stage = "consume" /\ ~Locked(q, c)
    /\ rows' = [d \in Stored \ {c} |-> rows[d]]
    /\ spent' = spent \cup {c}
    /\ End(q)
    /\ UNCHANGED <<made, age, wrong, checked, accepted, lost>>

-----------------------------------------------------------------------------
\* A check that comes after (the token, the expiry in reset_password), the
\* commit or the database fails, or the process dies: rollback.
Abort(q) ==
    /\ q \in Busy
    /\ lost' = IF req[q].stage = "mail" THEN lost \cup {req[q].code} ELSE lost
    /\ End(q)
    /\ UNCHANGED <<rows, made, age, wrong, checked, accepted, spent>>

\* Five minutes, then fifteen, after created_at: the older row first.
Expire(c) ==
    /\ c <= made /\ age[c] = "good" /\ \A d \in 1..made : d < c => age[d] # "good"
    /\ age' = [age EXCEPT ![c] = "expired"]
    /\ UNCHANGED <<rows, made, req, wrong, checked, accepted, spent, lost>>

LeaveWindow(c) ==
    /\ c <= made /\ age[c] = "expired" /\ \A d \in 1..made : d < c => age[d] = "old"
    /\ age' = [age EXCEPT ![c] = "old"]
    /\ UNCHANGED <<rows, made, req, wrong, checked, accepted, spent, lost>>

Next ==
    \/ \E q \in Requests :
          \/ Send(q) \/ Count(q) \/ CommitSend(q)
          \/ \E resets \in BOOLEAN : Verify(q, resets)
          \/ Read(q) \/ Gone(q) \/ Wrong(q) \/ Right(q) \/ CommitMatch(q) \/ CommitReset(q)
          \/ Abort(q)
    \/ \E c \in Codes : Expire(c) \/ LeaveWindow(c)

Spec == Init /\ [][Next]_vars

-----------------------------------------------------------------------------
\* Every variable keeps its type, and a row that is locked is there.
TypeOK ==
    /\ made \in 0..MaxCodes /\ Stored \subseteq 1..made
    /\ rows \in [Stored -> [attempts : 0..MaxAttempts, verified : BOOLEAN]]
    /\ age \in [Codes -> {"good", "expired", "old"}]
    /\ req \in [Requests -> [stage : Stages, code : 0..made, attempts : 0..MaxAttempts,
                             resets : BOOLEAN, locks : BOOLEAN, alone : BOOLEAN]]
    /\ \A q \in Requests : req[q].locks => req[q].code \in Stored
    /\ wrong \in Nat /\ checked \in [Codes -> Nat]
    /\ accepted \subseteq Codes /\ spent \subseteq Codes /\ lost \subseteq Codes

(***************************************************************************)
(* How far the mails of 15 minutes, for one purpose, can exceed the limit: *)
(* a code that a reset has consumed, or whose row was rolled back after    *)
(* the mail, no longer counts; and the count does not see the rows of      *)
(* other requests in flight, which is worth one mail for each of them      *)
(* besides the last.  Nothing else lets a mail through.  (The README says  *)
(* 3 for each address, without these exceptions.)                          *)
(***************************************************************************)
Mailed == {c \in 1..made : age[c] # "old"}

SendsWithinLimit ==
    Cardinality(Mailed \ (spent \cup lost)) + 1 <= MaxSends + Cardinality(Requests)

(***************************************************************************)
(* The lockout: of the guesses whose request met no other, at most         *)
(* MaxAttempts were wrong, even when requests that did meet each other     *)
(* overwrite the count with a value they read earlier.                     *)
(***************************************************************************)
LockoutHolds == \A c \in Codes : checked[c] <= MaxAttempts

(***************************************************************************)
(* "This code has already been verified", and reset_password consumes its  *)
(* code: only a request that overlapped another one is granted with a code *)
(* that was used before.                                                   *)
(***************************************************************************)
UsedOnce ==
    [][\A q \in Requests :
         \/ CommitMatch(q) /\ req[q].code \in accepted
         \/ CommitReset(q) /\ req[q].code \in spent
         => ~req[q].alone]_vars

-----------------------------------------------------------------------------
(***************************************************************************)
(* README: accounts are locked after 5 consecutive failed verification     *)
(* attempts; so there are no more failures than that for each code.        *)
(***************************************************************************)
LockedAfterFailures == wrong <= MaxAttempts * made
=============================================================================
