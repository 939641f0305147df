# InferVoyage: models and proofs

TLA+ models of the AI inference platform of this repository: an OpenAI-compatible gateway
(FastAPI, one asyncio process per replica) in front of an inference engine, with PostgreSQL,
Redis and a React client. TLC checks every model on small instances; TLAPS proves, for
every value of the constants, each safety property that a passing run checks.

Paths are relative to the repository; `app/` is `backend/app/`, `web/` is `frontend/src/`.

## 1. The system

One API process runs one event loop (`backend/entrypoint.sh:28` starts one uvicorn worker), so
code between two `await`s is atomic inside a process. Concurrency comes from interleaved
coroutines, from the two replicas of `deploy/kubernetes/api/deployment.yaml:9`, and from
PostgreSQL transactions at READ COMMITTED. `get_db` (`app/database.py:43`) commits after the
handler returned and, with the pinned FastAPI (`backend/pyproject.toml:8`), after the response
was sent. Redis keeps nothing on disk (`--save "" --appendonly no`).

| Component | State | Operations | Talks to | What is hard | What makes it correct |
|---|---|---|---|---|---|
| Rate limiter `app/services/rate_limit_service.py` | one Redis hash per organisation with a TTL; the cached sha of the script in each process | `check_rate_limit` | Redis (`SCRIPT LOAD`, `EVALSHA`), called by the inference router | restarts and outages of Redis, clocks of several replicas, integer seconds, doubles, expiry | never admits more than rate and burst; honest Retry-After; works whenever Redis does |
| Inference proxy `app/services/inference_service.py`, `app/routers/inference.py`, `app/services/usage_service.py` | semaphore, active counter, metrics, `usage_logs` | `complete`, `stream_complete`, usage log, drain at shutdown (`app/main.py:212`) | engine (HTTP), client (SSE), PostgreSQL | cancellation at any await, timeouts, ordering of slot, metrics, log and `[DONE]` | no slot lost; refused only when full; counted once; log and metrics agree; shutdown ends |
| Replica lifecycle `app/main.py`, `app/routers/health.py` | tables, administrator, stage of each process | `lifespan`, readiness | PostgreSQL, Redis, kubelet or docker | overlapping startups that change the schema, swallowed errors, a liveness probe that is a readiness probe | a serving platform has its tables and administrator, keeps its data, recovers from outages |
| Sessions `app/routers/auth.py`, `app/services/auth_service.py` | `refresh_token:{user}:{jti}` keys, the cookie of each client, password and status of the user | login, refresh with rotation, logout, revocation by reset, suspension | Redis, PostgreSQL, the browser | check and revocation are separate calls; lost responses; sweep by KEYS and DELETE; commit after the answer | a token is exchanged once; no alarm for the innocent; logout, reset and suspension end sessions |
| One-time codes `app/services/otp_service.py` | rows of `otps` | `store_otp`, `verify_otp`, consumption by `reset_password` | PostgreSQL, e-mail | read-modify-write across transactions, commit after mail and answer, expiry | send limit, lockout, single use |
| Conversations and chat page `app/routers/conversations.py`, `web/pages/Chat.tsx`, `web/stores/chatStore.ts` | `conversations`, `chat_messages`; the list of messages and the streaming flag in a tab | create, save, update, delete-from, load; send, edit, retry | PostgreSQL, the completion endpoint | handlers that overlap, each call of which may fail; ids that come back late; positions by count | tab and table agree; the table is a dialogue; answers stay in their row; the input comes back |
| Registration, organisations, roles `app/routers/auth.py`, `app/services/auth_service.py`, `app/dependencies/auth.py` | `users`, `orgs`; identities in access tokens | register, Google sign-in, role checks | PostgreSQL, Google; register ends in a session, Google sign-in in a code or a session | select-then-insert on unique columns, tokens handed out before the commit, tokens that outlive their user | one organisation per slug, who founds it administers it, nobody else does |
| Administration `app/routers/admin/*`, `app/services/usage_service.py` | `orgs`, `users`, `api_keys`, `usage_logs` | create, update, delete; create, rotate, revoke and look up keys; book and report usage | PostgreSQL, the proxy | several statements per request over rows that refer to each other, while other requests insert, delete and book | whole operations only; references stay inside one organisation; tenants do not write or read each other |
| Database connections `app/database.py` | the pool (15 and 10 more), its queue of waiters, row locks | every request, probe and background loop | PostgreSQL | connections held while mail is sent, or a row, Redis or a client is waited for; two connections for one request | everybody who waits is served |
| E-mail `app/services/email_service.py` | none but the caller's open transaction; a counter | send with three attempts, then the console | SMTP or Resend, DNS | slow servers while a transaction is open, repeated delivery | no mail lost in silence, each counted once |
| Metrics, logging, middleware, diagnostics, model pulling `app/observability/*`, `app/middleware/*` | counters, gauges, log lines | `collect_periodic_metrics`, error handler | PostgreSQL | a loop that competes for connections; gauges that go stale | |
| Other pages, load tests, deployment files | forms; scenarios; manifests | | | | |

The limiter and the proxy meet in `chat_completions`: a request that the limiter admits arrives
at the slot (`Arrive` of `InferenceService` starts there, `Evaluate` of `RateLimiter` ends
there), and nothing flows back, so the two are checked apart. Sessions and codes meet in
`reset_password`: `Reset` of `Sessions` begins where `CommitReset` of `OtpService` is about to
happen. `Register` and `GoogleAuth` of `Tenancy` hand over to both: the answer is a session of
`Sessions`, or a code of `OtpService` without which nobody signs in. `Infer` and `LogUsage` of
`Tenancy` are what surrounds an `InferenceService` request, and what is between them is one step
there. `Connections` composes what the other modules take for granted one by one: the connection
of a request, its mail, its row locks and its slot. The chat page uses the stream of the proxy: `StreamEnds` and `StreamFails` of `Chat` are
fair because of `SlotsFreed` in `InferenceService`.

## 2. The modules

| Module | Models | Instance, theorems |
|---|---|---|
| `TokenBucket` | the Lua script as operators on the value of one key | |
| `RateBudget` | abstract: a continuously filling account | `RateLimiter_proofs` |
| `RateLimiter` | `check_rate_limit` in several replicas, Redis, clocks | `MCRateLimiter`, `RateLimiter_proofs` |
| `SlotPool` | abstract: admission control | |
| `InferenceService` | slot, engine call, stream, metrics, usage log, shutdown | `InferenceService_proofs` |
| `Platform` | startups, schema repair, seeding, probes of all replicas | `Platform_proofs` |
| `Sessions` | the refresh tokens of one user | `MCSessions`, `Sessions_proofs` |
| `OtpService` | the codes of one address and purpose | `MCOtpService`, `OtpService_proofs` |
| `Chat` | one conversation in one tab, and its endpoints | `Chat_proofs` |
| `Directory` | abstract: organisations, users, keys and usage change by whole operations | `Tenancy_proofs` |
| `Tenancy` | the same operations as overlapping transactions, statement by statement | `MCTenancy`, `Tenancy_proofs` |
| `Connections` | the pool of connections, and all that holds one while it waits | `MCConnections`, `Connections_proofs` |

Definitions marked `(mutant)` are not part of a model: each is a plausible mistake in the code,
put in place of the definition that follows it to see that a property notices.

### RateLimiter, TokenBucket, RateBudget

`bucket` and `expireAt` are the key `rl:{org}`; `loaded` says that Redis knows the script and
`sha[h]` that replica `h` believes so. A check suspends at `SCRIPT LOAD` and at `EVALSHA`, so
it is `BeginCached` or `BeginLoading` and `ScriptLoaded` (the clock is read at the end of each),
then `Evaluate` or `Fail`. The model counts credits of 1/60 of a
request, so that one second of refill is `Rpm` credits. The script computes with doubles, and the
model says what rounding can do to it: the stored number may be a hair below the credits (`short`; which
values it may take after a refill is `Shorts`), a bucket with exactly one token may then refuse, and the
quotient of Retry-After may be a hair above a whole number of seconds and its ceiling one more (`Overs`). Where `rpm / 60.0` is a
double without rounding (`Exact`: multiples of 15) neither happens to the tokens. A hair is assumed to stay far
below one credit, however many roundings add up within 120 s. `Pass` moves
the true clock and drops an expired key; `RedisRestart` forgets key and script;
`ReplicaRestart` forgets the sha and the coroutines. `Skew` and `MaxLag` say how far the clocks
differ and how late a reading arrives.

`RateBudget` is what a user of the limiter would write down: an account that fills with time up
to the burst, pays one unit per admitted request, and starts full again when the store is lost.
The refinement maps its `credit` to the bucket refilled up to now.

### InferenceService, SlotPool

One variable per piece of state in the code (`value` and `active` for the semaphore and the
counter, `metrics`, `usage`), `pc` for the place of each coroutine, and one action per stretch
between two awaits. Each `except` clause of `complete` and `stream_complete` is an action, or a
disjunct of one where their effects agree. `HangUp` is the cancellation of a stream at any of
its awaits; a JSON request is not cancelled by its client. `pending` is the shielded
`_do_log`. `Stop` and `Exit` are the end of `lifespan`. `engine` is `INFERENCE_ENGINE`. A chunk with the engine's
count (`StreamCount`) is the last one of Ollama, behind which the loop breaks; with `openai_compatible` the loop
reads on, to `[DONE]` or the end of the body. Lines that are blank, no JSON or no data are skipped
(`SkipLine`, `ReadOn`), as many as the engine sends: the read timeout is for each read, so nothing bounds them.

`SlotPool` promises at most `MaxConcurrent` requests inside and nobody turned away while there
is room.

### Platform

A replica walks the stages of `lifespan`. The probes of the schema end in `await res.all()` on a
list; the `TypeError` is taken for an outdated schema, so `SchemaOk` is `FALSE` and `DropOtps`
and `DropChats` drop whenever they are reached (`DropChatsFails`: a request that holds the
tables makes the drop fail). `create_all` is two steps, and the loser of a race ends its process
(`CreateConflict`). Any other error of seeding is swallowed (`SeedFails`), and `unseeded` remembers which
replicas serve after one; `admin` says that an account has the super administrator's address, and
`DeleteAdmin` takes it away. `ProbeKills` is the kubelet asking `/health`, which is readiness.

### Sessions

`active` are the keys in Redis, `cookie` the jar of each client, `req` the requests in flight,
one action per call to Redis or PostgreSQL: `Refresh`, `IsValid`, `RevokeOld`, `SelectUser`,
`Store`, `AnswerCookie`; `Login` (and register) and `GoogleSignIn`, which does not look at `is_active`; `Logout`, `RevokeLeft`, `AnswerLogout`; `Reset`, `FindKeys`,
`DeleteKeys`, `CommitReset`. `Abort` is any failure, including a response that does not arrive:
what was done in Redis stays done. `RevokeLeftFails` is the error `logout` swallows. The 401 of the
reuse alarm is a response made by the error handler, so the cookie it means to delete stays.
History variables remember what each token came from (`issued`), which were revoked by logout
(`ended`), and which clients overlapped or failed (`excused`).

### OtpService

`rows` are the committed rows. A request is a transaction: `Count` reads the window and inserts a
row others cannot see, which `CommitSend` commits after mail and answer; `Read` reads the latest
row, `Wrong` and `Right` write the count read plus one, waiting for a row another transaction
has updated (`Locked`); `CommitMatch` and `CommitReset` commit. A wrong guess is committed before
the error is raised, as in the code. Codes are sent by `google_auth` of a new or unverified address,
`send-verification-otp` and `forgot-password`; register sends none. `SendsWithinLimit` counts the mails of
the window (`Mailed`) except those whose row is gone: `spent`, deleted by a reset, and `lost`, rolled back
after the mail. `Expire` and `LeaveWindow` are the passing of time.

### Chat

`view` is the list of messages in the tab, `flow` the handlers that run, `rows` the committed
table, `tx` the one answered write that is not committed yet. `Begin*` are the first, synchronous
parts of `sendMessage`, `handleEditSubmit` and `handleRetry`; `Resume` is what each does when
an awaited call is answered or fails. An endpoint is `Look` (what it reads) and `Write` (its
writes, which wait for the row of the conversation that every writer updates, and its answer); `Commit`
comes later. `Reload`, `FetchRead` and `FetchShown` load the conversation. `mishaps` counts what
went wrong: a failed call, stream or commit, an answer lost after the write, a handler begun while
another runs, a read that came before a commit, a reload under way. Properties for a calm user
are stated for `mishaps = 0`, the others for any.

### Tenancy, Directory

`Directory` is what an administrator thinks the endpoints do: `db` is the set of committed rows,
and one step adds, changes or removes what one request is about, with everything that has to go
or to be unlinked along with it. `Tenancy` has the requests: `tx[q]` is a transaction at READ
COMMITTED, with the statement it is at (`at`), the rows it has written (`w`, `None` for a deleted
one) and what it read before (`on`, `keys`); each action after `Begin` is one SQL statement, and
`Commit` comes after the answer, as in `get_db`. What a statement sees is `View(q)`: the committed
rows and its own writes. PostgreSQL is modelled by what the code relies on: an `UPDATE` or `DELETE`
waits for the transaction that has written the row (`Unlocked`); an `INSERT` locks what it refers
to, and fails when it is gone (`Insert`); a `DELETE` waits for insertions that refer to its rows
(`Contended`) and fails when a reference is left (`Refused`); a unique slug makes the second
insertion wait and fail (`InsertOrg`). The rows a `WHERE` selects are those at the moment the
statement may run. Everything else that ends a transaction, deadlocks included, is `Rollback`.
`claims` are the identities in access tokens; they are not withdrawn with the row, because
`require_role` looks at the token only. The roles that administrators give are `GivenRoles`, any of them
in the code, and `platform_admin` is among those of the run. `FounderRoles` is what a founder gets: `org_admin`
by a name, `viewer` when the default organisation is made again. `google_auth` of a new address hands out no token: its user has one once the
row is committed, by way of a verification (`Commit`). `ever`, `begun` and `alone` are history and
bound: ids are never used twice, requests are numbered, and a request is `alone` when none
overlapped it. The refinement maps nothing: the committed rows of `Tenancy` are those of
`Directory`, so `DirSpec` is checked of `Tenancy` as it stands.

### Connections

`at` is the stage of each task: a form (one connection, one transaction), a mailer (the mail is
sent inside the transaction, `app/routers/auth.py`), a chat completion (a connection until
identity and limits are known and the limiter has answered, `CloseSession`; a slot; then another connection for the usage log),
or the loop of `collect_periodic_metrics` (two connections in turn). SQLAlchemy's asyncio pool is a queue:
`Put` wakes the longest waiter, which runs later (`Wake`), and whoever asks before takes the
connection instead. `TimeOut` is `pool_timeout`, by default 30 s. It is possible and never relied upon: three
attempts of 10 s each and the waits between them make a mail hold its connection for some 33 s, so
that under load requests do fail, and readiness reports the database as unreachable.
`Call` is a wait with the connection in hand for somebody else: for Redis (the limiter of a chat, the sessions of
login, refresh and reset), whose client has a time limit to connect and none to read, or for a client to take a
large answer, for the commit comes after it. `Answer` ends it, and so do `Accepted` and `Fails` a mail.
The loop sleeps 30 s between rounds, in which whoever was woken has run (`Ask`). `WriteRow` is
the lock on a row that several transactions write (`SameRow`). A mail goes to the server or, when the
settings or the MX record ask for it, to the console; an attempt that fails may still have been
taken (`copies`), and after the last one the console stands in.

## 3. The runs

Passing runs; every property named in the cfg holds and has a mutant that breaks it.

| Run | Instance | Shows |
|---|---|---|
| `limiter_prompt` | 2 requests, 2 replicas, rate 40, burst 2, instants 0..3 and 120..123, 1 restart of Redis, 4 admissions | `WithinBudget`, `ImplementsBudget`, `RefusalIsHonest`, `ExpiryLosesNothing` through outages and restarts of Redis and of replicas |
| `inference_all` | 2 requests, 1 slot, both engines, counts up to 4, totals 0 and 3 | `SlotsConserved`, `ImplementsPool`, `StreamCountedOnce`, `UsageMatchesMetrics`, and under fairness and `FiniteStreams` `SlotsFreed`, `ShutdownCompletes` |
| `platform_outage` | 3 replicas, 1 conversation, 1 ordered restart, any number of outages, failed seedings and deletions of the administrator | `TablesWhenAllServe`, `AdminWhenServing`, and under fairness `RecoversAfterOutage` |
| `sessions_overlap` | 2 clients, 2 requests in flight, 3 tokens, 1 reset, 1 mishap | `RestingCookieIsActive`, `NothingForTheBarred`, `ResetEndsOldSessions`, `TokenExchangedOnce`, `LogoutEndsSession` |
| `otp_overlap` | 2 requests in flight, 3 codes, limits 1 and 2, 3 wrong guesses, any number of aborts | `SendsWithinLimit`, `LockoutHolds`, `UsedOnce` |
| `chat_flows` | 3 handlers, 1 mishap | `ViewMatchesTable`, `TableIsDialogue`, `AnswersStayInTheirRow`, and under fairness `InputComesBack` |
| `tenancy_overlap` | 2 requests in flight, 4 in all, 3 organisations, 3 users, 1 key, 1 usage row, 2 slugs, roles given: operator and platform_admin | `DirSpec` (whole operations only), `OneTenant`, `TenantsApart`, `FoundersAlone`, `DeletionsFit` |
| `connections_pool` | 2 connections, 1 slot, a form and a mailer that write one row, 2 chats, the loop, 3 attempts | `MailAccounted`, and under fairness and `OutsideAnswers` `EverybodyServed` |

Violation runs; each states a sentence of the repository, and TLC shows that the code does otherwise.

| Run | Sentence | What happens |
|---|---|---|
| `limiter_noscript` | FR-016, `specs/001-ai-inference-platform/spec.md:133` | after a restart of Redis the `EVALSHA` of a replica with a sha from before fails, though Redis answers |
| `inference_timeout` | FR-003, `spec.md:114` | a silent stream is recorded as an error and cut, never reported as a timeout |
| `platform_history` | `README.md:62` | a start of a replica drops conversations and messages |
| `otp_guesses` | `README.md:58` | overlapping verifications overwrite the count of attempts |

### Bounds, and why they are enough

* Rate 40 and burst 2: a token takes 1.5 s, so that readings fall on and between whole tokens and
  Retry-After has to be rounded; the bucket refills in 3 s, within the instants, and the instants around
  120 make the key expire. Two admissions at 0 and one at 2 leave a quotient that rounds up (1.0000000000000002); four
  admissions need a refill or a restart.
* Two requests and one slot: every race for a slot is between two requests. The theorems cover any
  number of both. The bound on counts is above the larger total, so that chunks go on behind it.
* Three replicas meet the case of a table dropped between another's check and creation while a
  third already serves; the theorems again cover any number.
* Two requests of two clients in flight: the hazards of sessions are pairs (refresh and refresh,
  refresh and logout, login and reset). Three tokens are a login, its exchange, and a second exchange.
* Codes: the limits are constants, 3 and 5 in the code. The run has 1 and 2, so that both are
  reached with few codes and guesses; `otp_guesses` has 3 and 5.
* Three handlers: a send, then an edit or retry, then another on what that left. One mishap at any point.
* Tenancy: every conflict is between two transactions. Four requests are what the longest case needs:
  one founds an organisation, one gives it a key or books usage, and two more delete and insert at
  once. Three organisations and users are the seeded ones and two more that race. An operator
  is a role without rights over others, platform_admin one with all. The theorems have no bounds.
* Connections: two connections are the fewest with which one can be held by a mail or a stalled row while
  the other goes round; five tasks of every kind ask for them, so the queue grows to three. One
  slot makes a chat that stalls at the engine refuse the next. Three attempts are the code's.

Clients, requests, tokens and ids of new rows are interchangeable, so `limiter_prompt`, `otp_overlap`,
`sessions_overlap` and `tenancy_overlap` use symmetry; the runs with liveness do not.
`CHECK_DEADLOCK FALSE` stands where the bounds end the behaviours (`Sessions`, `OtpService`, `Chat`,
`Tenancy`, `Connections`).

### Fairness

* `InferenceService`: weak fairness of what the event loop runs (`LoopRuns`); of the time limits
  (`TimeRuns`: `asyncio.wait_for` of a JSON request, httpx's for each read of a stream), so that nothing is
  assumed of an engine that is silent; of the client, who takes what is sent or goes away
  (`ClientTakes`). The last is an assumption about clients: the server has no write timeout. An engine that
  never stops sending is not excluded by fairness but by the premise `FiniteStreams` of `SlotsFreed` and
  `ShutdownCompletes`: without it both fail, in the code as in the model. Shutdown is reached only because no new request arrives after SIGTERM.
* `Platform`: weak fairness of each replica's lifespan (the process runs; docker's
  `restart: unless-stopped` and the kubelet start it again). `RecoversAfterOutage` assumes in
  its premise that engine and Redis stay up from some time on.
* `Chat`: calls are answered or fail, streams end, transactions end. Nothing obliges the user.
* `Connections`: the event loop runs what can run, and PostgreSQL answers (asyncpg has no time limit for
  statements either). Not assumed: that requests arrive, that a stream ever ends (its client may stop reading), and
  that the time limit of the pool ends a wait. That Redis, clients and mail servers answer somebody who
  holds a connection is the premise `OutsideAnswers` of `EverybodyServed`, not a fairness: the 10 s of
  smtplib and httpx are for each read or write, not for an attempt, and Redis and clients have no limit. Requests are finitely many; the loop goes on for ever.

## 4. What is proved

All theorems hold for every value of the constants that satisfies the named assumptions of the
module that declares them.

* `RateLimiter_proofs`: `TypeCorrect` needs no more than positive limits. `Refinement`
  (`ImplementsBudget`) and `RateIsEnforced` (`WithinBudget`) assume `PromptClocks`
  (replicas agree on the time and a reading arrives within its second) and `TTLCoversRefill`
  (the bucket refills within 120 s). The types are not inductive enough for the refinement: the
  step that drops the key must be seen to lose nothing. The strengthening `PromptInv` says that a
  stamped check carries the present time and that the key expires `KeyTTL` after its last refill;
  then a dropped key was full (`FullAtExpiry`), and two lazy refills equal one (`RefillComposes`).
  `BudgetConserved` is about `RateBudget` alone: the account never pays out more than it was given.
  The action properties are `HonestRefusals` (`RefusalIsHonest`, for any choice of `Shorts` and `Overs`), from
  `PromptInv` and the lemma on rounding up (`CeilingDivision`), and `ExpiryIsFree` (`ExpiryLosesNothing`), from `FullAtExpiry`.
* `InferenceService_proofs`: `SlotsNeverLeak` (types and `SlotsConserved`). Each action changes the
  set of requests that hold a slot by at most one, in step with semaphore and counter
  (`StepKinds`, `HoldersAfter`), so that the invariant is inductive together with the types.
  `UsageAgrees` (`UsageMatchesMetrics`, with its exception for a success without tokens) rests on `Books`: nothing is recorded or logged before the
  generator or handler ends, and at most one row exists. `AdmissionControl` (`ImplementsPool`)
  needs both: turned away are exactly the requests that ended without a record, and the semaphore
  was at zero when they were. `CountedAtTheEnd` (`StreamCountedOnce`) uses `Books` too: nothing is
  recorded inside the generator, and every action that leaves it records one status.
* `Platform_proofs`: `TypeCorrect`, `TablesThere` (`TablesWhenAllServe`) and `AdminThere`
  (`AdminWhenServing`, for the replicas that are not `unseeded`). The tables come and go while replicas serve, so `TablesWhenAllServe` is not
  inductive; `AbsentIsOwed` is: an absent table is owed by a replica that has yet to ask for it or has
  found it missing.
* `OtpService_proofs`: `TypeCorrect`; `SendLimit` (`SendsWithinLimit`); `Lockout` (`LockoutHolds`);
  `SingleUse` (`UsedOnce`). The send limit is inductive once the mails under way are counted with the
  codes of the window: a request whose code is mailed and not committed counts for one (`SendsCounted`), and a mail
  has a row, is under way, or is one of `spent` and `lost` (`Accounted`, `MailsCounted`).
  For lockout and single use, `Guarded` ties what a request has read to the row it will write: the
  count it read is not below the wrong guesses of requests that met no other, nor is the committed
  count (`Held`, `Tried`); who is alone and has found a code found it unused; a code that is only mailed
  is known to nobody (`Unseen`).
* `Sessions_proofs`: `TypeCorrect`, and one theorem for each property of the run. `BarredGetNothing` is
  inductive by itself with the types (a Google sign-in is never barred). The others speak of histories, and need `Guarded`: what a
  token in use, a request between two calls and a cookie at rest know of each other. Its parts are named:
  a request and its client (`Pair`, `Mine`), the exchange it is in the middle of (`Exchange`), the keys
  a reset has still to delete (`Sweep`), the origin of a token (`Token`, `Twins`), a client at rest
  (`Rest`).
* `Tenancy_proofs`, of `Directory`: `TenantsStayApart` (`OneTenant`), and two action properties that no
  run checks by name: `UsageStaysBooked` (a usage row keeps its organisation and
  goes only with it) and `RevocationIsFinal` (no rotation revives a revoked key). The strengthening `Sound` says of
  which table the columns of a row are set and that each reference is to a row of the right table
  and organisation.
* `Tenancy_proofs`, of `Tenancy`: `OverlapIsOneByOne` is the refinement (`DirSpec`): every commit is one
  operation of `Directory`, every other step leaves the committed rows alone. `OverlapKeepsTenants`
  carries the three theorems above over. The rows alone cannot be inductive: a commit is a whole
  operation only because of what its transaction did many statements ago and what others could
  not do since. So `TenancyInv` says, of each request, which writes it has made by the stage it is at
  (`Task`, one line per operation); of the committed rows with its writes on top, that nothing refers to
  a row that is not there (`Consistent`); and of two requests, that they write different rows, that what
  one inserts does not refer to what the other deletes, and that they bring different slugs (`Separate`:
  the row locks, foreign keys and unique index of PostgreSQL). `Vouched` ties a token to the
  organisation of its user, who may be gone but not moved. From the same invariant: `TenancyTypes`,
  `TenantsSeeTheirOwn` (`TenantsApart`), `OneFounder` (`FoundersAlone`). `LoneDeletionsFit` (`DeletionsFit`) needs
  one more, `AloneInv`: which rows a deletion that nothing overlaps has cleared by each stage.
  Overlapping ones do fail on a reference, which is an error response and a rollback.
  The assumption `None \notin Row` says that a row is never `NULL`: a written `None` is a deletion.
* `Chat_proofs`: `TypeCorrect` (`TypeInv`; that an id fits its bound needs `Allotted`: the ids given out, with
  those that running handlers may yet ask for, are at most two for each handler begun).
  `AnswersInTheirRow` (`AnswersStayInTheirRow`) holds through any overlap and failure. A stream knows
  its row by an id alone, so `Owned` says of the saved rows and of the one in an open write (`Kept`) that an
  id has one role and one maker (`Sound`), that the row a handler streams to is an answer it made, and
  the row it edits a prompt (`Held`), and that what the tab shows under an id has the role of its row
  (`Fits`), because an edit takes the id from there. `TabShowsTheTable` (`ViewMatchesTable`) and
  `DialogueIsKept` (`TableIsDialogue`) speak of rest, and hold of nothing in between: while
  a handler runs, the tab is ahead of the table or behind it. `Quiet` says by how much, at each stage
  (`Prompting`, `Answering`, `Filling`, `Filled`, `Edited`, `Cutting`), comparing the tab to the table as it will be
  when the open write commits (`Table`), that at most one handler runs, and that what the server read
  for it is still so (`Ready`). `ShownInOrder` then turns "message i is the row at position i - 1" into the
  order of the query.
* `Connections_proofs`: `TypeCorrect` and `MailsAccounted` (`MailAccounted`). The invariant says that connections and
  slots are free or in somebody's hands (`Conserved`), that who is in the queue waits and is there
  once (`Queued`: otherwise a connection could be promised twice), what a mail is at each stage
  (`Letters`: a mail in progress has attempts left and no console, and no mailer waits for Redis), and that the counters are the
  numbers of mails that are done with (`Accounted`).

Only model-checked: liveness, because fairness and `ENABLED` are outside TLAPS's reach (`SlotsFreed`,
`ShutdownCompletes`, `RecoversAfterOutage`, `InputComesBack`, `EverybodyServed`). `Owned` and
`Quiet` were checked with TLC before they were proved, on three handlers and one mishap and
on five handlers and none.

## 5. What is not modelled, and other divergences met

The components without a module are named in `PROJECT.json` with the reason. Within the modelled
ones:

* Access tokens are stateless and live on after logout, reset and suspension; `Sessions` speaks of
  refresh tokens only, and `Tenancy` lets every identity ever handed out call for ever. The expiry of
  either is left out.
* `Tenancy` leaves out `setup_password`, names, limits and status of an organisation, expiry and
  last use of a key: columns that no other operation reads. Addresses are not modelled: one that is taken
  is a `Rollback`.
* `Connections` has one process, no durations (whether a wait ends within the 30 s of the pool), no cancelled requests, and takes PostgreSQL's own limit on connections to be above the pools
  of both replicas.
* `Chat` has one tab and one conversation, without titles, creation, deletion and ownership.
  Two writers that deadlock in PostgreSQL are covered by failing calls.
* The formats of the engines, log lines, wording and the arithmetic of latency.

Divergences that need no run, because one path shows them: an answer with empty text is counted as
success and as error (`JsonEmptyAnswer`); a client that closes on `[DONE]` has its complete answer
logged as cancelled (`DoneSent`, `HangUp`); clocks out of step refill the same seconds twice
(`research.md:60` promises no races; `Skew`); the TTL is a constant where `research.md:58` makes it
depend on the rate; overlapping refreshes exchange one token twice (`contracts/auth-api.md:44`); a
refresh in flight outlives a logout (`contracts/auth-api.md:67`); the engine gauge is never 0
(`app/observability/metrics.py:103`).

More of these, met with the later modules: `app/routers/auth.py:683` ("Revoke all active user sessions/refresh
tokens to force re-authentication!") deletes the keys before the new password is committed, so a
login or refresh in flight survives (`ResetEndsOldSessions` excuses it); `app/models/conversation.py:59`
("ordering within conv") lets a prompt and an answer get the same position when their writes
overlap; `specs/001-ai-inference-platform/data-model.md:80` says `last_used_at` is "Updated on each
use", but `chat_completions` rolls it back (`app/routers/inference.py:68`); the usage row
of FR-017 is lost when its user or key is deleted during the inference (`LogUsage` ends in
`Insert`'s failure); the contract of the admin API says an administrator cannot delete itself, and nothing
checks it; `README.md:53` calls the old key invalid "instantly" after a rotation, but the commit comes
after the answer; a mail whose acceptance the code did not see is sent again (`copies`).

Where the code keeps less than a sentence promises, or less than one would expect, and a property is
stated with the exception:

* Send limit. `README.md:57` promises at most 3 codes per address in 15 minutes, and `otp_service.py:52` "a maximum of 3
  resends / requests". The count is of the rows that are there, for one purpose (`otp_service.py:60`): signup and
  password reset have 3 each; `reset_password` deletes the row it used, so that each completed reset allows another mail;
  a commit that fails after the mail leaves none to count; overlapping requests do not see each other's
  (`SendsWithinLimit` counts without the first three and allows for the last).
* Suspension. `google_auth` (`app/routers/auth.py:289-333`) signs in a verified user without looking at `is_active`, so a
  suspended user gets a refresh token and an access token there, and `verify_email_otp` sets `is_active` itself
  (line 442). Password login and refresh do ask. `NothingForTheBarred` is about these.
* Isolation. FR-009 (`spec.md:123`): "no cross-organization data access is permitted under any role". `create_user` and
  `update_user` (`app/routers/admin/users.py:90`, `:124`) take any role from an organisation's administrator, `platform_admin`
  included, and that role reads and writes every organisation. `TenantsApart` says what a request does with the role of
  its token, with that role among those given.
* Founders. A new name whose slug is `default` makes an `org_admin` of the default organisation while that is
  absent (`app/routers/auth.py:169-174`, `FounderRoles`).
* Seeding. Its errors are logged and swallowed (`app/main.py:180-181`), and the replica serves without an administrator if
  nobody else has made one; the account can be deleted like any other. `AdminWhenServing` excepts both.
* Usage log. A stream that succeeds with no tokens counted (an `openai_compatible` engine that reports no usage, or zero)
  is "success" in the metrics (`inference_service.py:439`) and "cancelled" in `usage_logs` (`inference.py:96`).
  `UsageMatchesMetrics` names this exception.
* Time limits. FR-003 wants one for inference requests; that of a stream is for each read. An engine that
  sends blank or unusable lines for ever, or an `openai_compatible` one that never ends the body behind its last chunk, keeps
  the slot, and `lifespan` (`main.py:218`) waits for it (`FiniteStreams`).
* Connections. `chat_completions` closes its session before "the slow inference call" (`inference.py:66`), but asks Redis with it
  open (line 60) and without a read timeout (`rate_limit_service.py:55-59`); login, refresh and reset do the same. Responses
  are sent before the commit, so a client that stops reading a large one keeps a connection. A mail may hold one
  for 33 s and more, above the 30 s that others wait for it (`OutsideAnswers`, `TimeOut`).
* Rounding. A request with exactly one token in its bucket may be refused, since the stored double is short of it (rate
  10 polled every second: 0.9999999999999999), and Retry-After may be one second more than needed (rate 40:
  1.0000000000000002 becomes 2). `RefusalIsHonest` allows both and no more.
* `README.md:55` says that registering sends a code; `register` makes a verified user and sends none.

## 6. Plan

Done, in this order: `TokenBucket`, `RateBudget`, `RateLimiter` and proofs; `SlotPool`,
`InferenceService` and proofs; `Platform` and proofs; `Sessions`, `OtpService`; `Chat`; `Directory`,
`Tenancy`; `Connections`; the proofs of `OtpService`, `Sessions` and `Connections`, and
the action properties of `RateLimiter` and `InferenceService`; the refinement of `Directory` by `Tenancy`
and the proofs of `Tenancy` and `Chat`.

Left, models: an abstract `Session` (a chain of tokens with one live end) that `Sessions` implements for a
client that waits, and an abstract `Dialogue` that `Chat` implements for a calm user; several
tabs on one conversation; `setup_password` and the settings of an organisation; two replicas over one
PostgreSQL in `Connections`.

Left, theorems: every safety property of a passing run has one. The refinements of `Session` and
`Dialogue` come with their modules; `Quiet` already holds what the second needs. Of what no run
checks yet: that rows of one conversation keep distinct positions while writers do not overlap,
whatever else fails.
