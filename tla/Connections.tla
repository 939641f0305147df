---------------------------- MODULE Connections ----------------------------
(***************************************************************************)
(* The pool of database connections of one process (database.py) and all   *)
(* that holds one while it waits for something else: requests that send    *)
(* mail with a transaction open, requests that wait for each other's rows, *)
(* for Redis (which has a time limit to connect, none to answer) or for    *)
(* their client (get_db commits after the response), inference before and  *)
(* after the engine's part, probes, and the loop that collects             *)
(* metrics.  The pool is SQLAlchemy's over an asyncio.Queue: a             *)
(* connection that comes back wakes the longest waiter, and whoever asks   *)
(* before that one runs takes it instead.                                  *)
(***************************************************************************)
EXTENDS Naturals, SequencesExt

CONSTANTS Forms,        \* requests that send no mail, readiness and diagnostics
          Mailers,      \* requests that send a code by mail
          Chats,        \* chat completions
          Loop,         \* collect_periodic_metrics
          SameRow,      \* those whose transactions write the same row
          Size,         \* pool_size and max_overflow
          MaxConcurrent,
          Attempts,     \* max_retries
          None

Tasks == Forms \cup Mailers \cup Chats \cup {Loop}

ASSUME ConnectionsAssumption ==
    /\ Size \in Nat \ {0} /\ MaxConcurrent \in Nat \ {0} /\ Attempts \in Nat \ {0}
    /\ IsFiniteSet(Forms) /\ IsFiniteSet(Mailers) /\ IsFiniteSet(Chats)
    /\ Forms \cap Mailers = {} /\ Forms \cap Chats = {} /\ Mailers \cap Chats = {}
    /\ Loop \notin Forms \cup Mailers \cup Chats
    /\ SameRow \subseteq Forms \cup Mailers \cup Chats
    /\ None \notin Tasks

VARIABLES
    at,         \* stage of each task
    lap,        \* tasks that are at their second connection
    free,       \* connections that can be had
    getters,    \* who waits for one, the longest first
    owner,      \* transaction that has written the row, None if none
    slots,      \* value of the semaphore of inference
    mail,       \* what became of the mail of each
    emails      \* EMAILS_SENT_TOTAL

vars == <<at, lap, free, getters, owner, slots, mail, emails>>

Stages == {"asleep", "queued", "woken", "using", "calling", "called", "mailing",
           "mailed", "released", "running", "returned", "done"}
Waiting == {"queued", "woken"}
Holding == {"using", "calling", "called", "mailing", "mailed"}

\* Those of them whose ends lie with Redis, a client or a mail server.
Outside == {"calling", "mailing"}

NoMail == [tries |-> 0, copies |-> 0, console |-> FALSE]

Init ==
    /\ at = [t \in Tasks |-> "asleep"]
    /\ lap = {}
    /\ free = Size /\ getters = <<>>
    /\ owner = None
    /\ slots = MaxConcurrent
    /\ mail = [m \in Mailers |-> NoMail]
    /\ emails = [success |-> 0, failure |-> 0]
-----------------------------------------------------------------------------
\* Queue.get: a connection that is there is taken, whoever was woken for it.
Get(t) ==
    IF free > 0 THEN /\ at' = [at EXCEPT ![t] = "using"] /\ free' = free - 1
                     /\ UNCHANGED getters
                ELSE /\ at' = [at EXCEPT ![t] = "queued"] /\ getters' = Append(getters, t)
                     /\ UNCHANGED free

\* Queue.put, and the end of the transaction; t goes on at stage.
Put(t, stage) ==
    /\ free' = free + 1
    /\ owner' = IF owner = t THEN None ELSE owner
    /\ IF getters = <<>> THEN at' = [at EXCEPT ![t] = stage] /\ UNCHANGED getters
       ELSE /\ at' = [at EXCEPT ![t] = stage, ![Head(getters)] = "woken"]
            /\ getters' = Tail(getters)

\* The first connection of a task.  The loop sleeps for 30 s, in which whoever
\* was woken runs.
Ask(t) ==
    /\ at[t] = "asleep"
    /\ t = Loop => \A u \in Tasks : at[u] # "woken"
    /\ Get(t)
    /\ UNCHANGED <<lap, owner, slots, mail, emails>>

\* Its second: the usage log of an inference, the analytics of the loop.
AskAgain(t) ==
    /\ at[t] = "returned"
    /\ Get(t)
    /\ lap' = lap \cup {t}
    /\ UNCHANGED <<owner, slots, mail, emails>>

Wake(t) ==
    /\ at[t] = "woken"
    /\ Get(t)
    /\ UNCHANGED <<lap, owner, slots, mail, emails>>

\* Where a task goes on when it is done with a connection.
Onward(t) ==
    IF t = Loop THEN IF t \in lap THEN "asleep" ELSE "returned"
    ELSE IF t \in Chats /\ t \notin lap THEN "released" ELSE "done"

\* pool_timeout: an error to a client, no log, "unreachable" to a probe, 0 to a gauge.
TimeOut(t) ==
    /\ at[t] = "queued"
    /\ at' = [at EXCEPT ![t] = IF t = Loop THEN Onward(t) ELSE "done"]
    /\ lap' = IF t = Loop THEN lap \ {t} ELSE lap
    /\ \E i \in DOMAIN getters : getters[i] = t /\ getters' = RemoveAt(getters, i)
    /\ UNCHANGED <<free, owner, slots, mail, emails>>

\* An UPDATE of the row, or an INSERT of its key, waits for the transaction that
\* has written it: the account of an address (google_auth mails after its INSERT),
\* the last use of an API key (flushed by the query for the limits).
WriteRow(t) ==
    /\ at[t] \in {"using", "called"} /\ t \in SameRow \ lap
    /\ owner = None /\ owner' = t
    /\ UNCHANGED <<at, lap, free, getters, slots, mail, emails>>

\* The database's part of t is over.
Written(t) == at[t] \in {"using", "called"} /\ (t \in SameRow \ lap => owner = t)

\* A wait with the connection held: for Redis (check_rate_limit of a chat, once its
\* limits are known; the sessions of login, refresh and reset, the counters of a
\* login), or for a client that is slow to read a large answer.
Call(t) ==
    /\ at[t] = "using" /\ (t \in Forms \/ (t \in Chats /\ Written(t) /\ t \notin lap))
    /\ at' = [at EXCEPT ![t] = "calling"]
    /\ UNCHANGED <<lap, free, getters, owner, slots, mail, emails>>

\* Redis answers or its connection breaks (a chat then falls to the failure policy),
\* the client reads on or hangs up.
Answer(t) ==
    /\ at[t] = "calling"
    /\ at' = [at EXCEPT ![t] = "called"]
    /\ UNCHANGED <<lap, free, getters, owner, slots, mail, emails>>

\* (mutant) the session is closed by the handler and again by get_db
FinishTwice(t) ==
    /\ Written(t) /\ t \notin Chats
    /\ at' = [at EXCEPT ![t] = Onward(t)]
    /\ free' = free + 2
    /\ owner' = IF owner = t THEN None ELSE owner
    /\ lap' = lap \ {t}
    /\ UNCHANGED <<getters, slots, mail, emails>>

\* Answered and then committed, or failed and rolled back: a mailer may have nothing
\* to send (store_otp refuses, the address is unknown).
Finish(t) ==
    /\ Written(t) /\ (t \in Chats => t \in lap)
    /\ Put(t, Onward(t))
    /\ lap' = IF t = Loop THEN lap \ {t} ELSE lap
    /\ UNCHANGED <<slots, mail, emails>>
-----------------------------------------------------------------------------
\* EMAILS_SENT_TOTAL
Count(status) == emails' = [emails EXCEPT ![status] = @ + 1]

\* store_otp is flushed; the provider is chosen by the settings and, without one,
\* by the MX record of the domain: a server, or the console.
BeginMail(m) ==
    /\ Written(m)
    /\ \/ /\ at' = [at EXCEPT ![m] = "mailing"]
          /\ UNCHANGED <<mail, emails>>
       \/ /\ at' = [at EXCEPT ![m] = "mailed"]
          /\ mail' = [mail EXCEPT ![m].console = TRUE]
          /\ Count("success")
    /\ UNCHANGED <<lap, free, getters, owner, slots>>

\* The server takes the mail and says so.
Accepted(m) ==
    /\ at[m] = "mailing"
    /\ at' = [at EXCEPT ![m] = "mailed"]
    /\ mail' = [mail EXCEPT ![m].tries = @ + 1, ![m].copies = @ + 1]
    /\ Count("success")
    /\ UNCHANGED <<lap, free, getters, owner, slots>>

\* (mutant) the last attempt fails silently
FailsQuietly(m) ==
    /\ at[m] = "mailing"
    /\ LET last == mail[m].tries + 1 = Attempts IN
       /\ \E taken \in {0, 1} :
            mail' = [mail EXCEPT ![m].tries = @ + 1, ![m].copies = @ + taken]
       /\ IF last THEN /\ at' = [at EXCEPT ![m] = "mailed"]
                       /\ Count("success")
                  ELSE UNCHANGED <<at, emails>>
    /\ UNCHANGED <<lap, free, getters, owner, slots>>

\* An attempt fails, though the server may have taken the mail (the QUIT fails,
\* the answer is lost); after the last one the console gets it.
Fails(m) ==
    /\ at[m] = "mailing"
    /\ LET last == mail[m].tries + 1 = Attempts IN
       /\ \E taken \in {0, 1} :
            mail' = [mail EXCEPT ![m].tries = @ + 1, ![m].copies = @ + taken,
                                 ![m].console = last]
       /\ IF last THEN /\ at' = [at EXCEPT ![m] = "mailed"]
                       /\ Count("failure")
                  ELSE UNCHANGED <<at, emails>>
    /\ UNCHANGED <<lap, free, getters, owner, slots>>

CommitMail(m) ==
    /\ at[m] = "mailed"
    /\ Put(m, "done")
    /\ UNCHANGED <<lap, slots, mail, emails>>
-----------------------------------------------------------------------------
\* (mutant) the connection is kept while the engine answers
KeepSession(c) ==
    /\ Written(c) /\ c \notin lap
    /\ at' = [at EXCEPT ![c] = "released"]
    /\ UNCHANGED <<lap, free, getters, owner, slots, mail, emails>>

\* Rollback and close: the caller is not let in (401), or the limiter has answered
\* and it is the inference's turn, or a 429.
CloseSession(c) ==
    /\ Written(c) /\ c \notin lap
    /\ Put(c, "done") \/ (at[c] = "called" /\ Put(c, "released"))
    /\ UNCHANGED <<lap, slots, mail, emails>>

\* A full semaphore is a 503.
Enter(c) ==
    /\ at[c] = "released"
    /\ IF slots = 0 THEN at' = [at EXCEPT ![c] = "done"] /\ UNCHANGED slots
                    ELSE at' = [at EXCEPT ![c] = "running"] /\ slots' = slots - 1
    /\ UNCHANGED <<lap, free, getters, owner, mail, emails>>

\* The slot is given back before the usage is logged, in a session of its own;
\* an error is not logged.
Leave(c) ==
    /\ at[c] = "running"
    /\ \E stage \in {"returned", "done"} : at' = [at EXCEPT ![c] = stage]
    /\ slots' = slots + 1
    /\ UNCHANGED <<lap, free, getters, owner, mail, emails>>

Steps(t) ==
    \/ AskAgain(t) \/ Wake(t) \/ WriteRow(t) \/ Call(t) \/ Finish(t)
    \/ t \in Mailers /\ (BeginMail(t) \/ CommitMail(t))
    \/ t \in Chats /\ (CloseSession(t) \/ Enter(t))

\* What others decide: Redis and the clients, the mail servers, the engine.
Others(t) ==
    \/ Answer(t)
    \/ t \in Mailers /\ (Accepted(t) \/ Fails(t))
    \/ t \in Chats /\ Leave(t)

Next == \E t \in Tasks : Ask(t) \/ Steps(t) \/ TimeOut(t) \/ Others(t)

\* The event loop runs what can run, and PostgreSQL answers.  Not assumed: that
\* requests arrive, that anybody else answers (Others: Redis has no time limit, the
\* 10 s of smtplib and httpx are those of one read or write), and that the pool's
\* time limit is what ends a wait (TimeOut).
Fairness == \A t \in Tasks : WF_vars(Steps(t))

Spec == Init /\ [][Next]_vars /\ Fairness
-----------------------------------------------------------------------------
TypeOK ==
    /\ at \in [Tasks -> Stages] /\ lap \subseteq Chats \cup {Loop}
    /\ free \in 0..Size /\ slots \in 0..MaxConcurrent
    /\ owner \in SameRow \cup {None}
    /\ getters \in Seq(Tasks)
    /\ mail \in [Mailers -> [tries : 0..Attempts, copies : 0..Attempts, console : BOOLEAN]]
    /\ emails \in [success : 0..Cardinality(Mailers), failure : 0..Cardinality(Mailers)]

\* No call made with a connection in hand lasts for ever.  Nothing in the code sees
\* to it: where Redis hangs, a client stops in the middle of a large answer or a
\* mail server sends a byte every 9 s, the connection is gone for as long.
OutsideAnswers == \A t \in Tasks : []<>(at[t] \notin Outside)

\* Given that, every wait for a connection ends, though not always within the 30 s
\* the pool allows, after which TimeOut ends it with an error: engines that never
\* finish, clients of streams that never read and transactions that wait for each
\* other's rows do not use the pool up for good (chat_completions closes its session
\* before the inference, and nobody asks for a connection while it has one).
EverybodyServed == \A t \in Tasks : OutsideAnswers => []<>(at[t] \notin Waiting)

\* No mail is lost in silence: a code that was to be mailed is accepted by a server
\* or printed on the console, and the metrics count it once, as a failure when
\* the console stood in (send_otp_verification_email, send_password_reset_email).
MailAccounted ==
    LET ended == {m \in Mailers : mail[m].tries > 0 \/ mail[m].console}
                   \ {m \in Mailers : at[m] = "mailing"} IN
    /\ emails.success + emails.failure = Cardinality(ended)
    /\ \A m \in ended : mail[m].copies > 0 \/ mail[m].console
    /\ emails.failure = Cardinality({m \in ended : mail[m].tries > 0 /\ mail[m].console})
=============================================================================
