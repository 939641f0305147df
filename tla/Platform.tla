------------------------------ MODULE Platform ------------------------------
(***************************************************************************)
(* main.lifespan and the readiness of routers/health.py: API replicas      *)
(* (deployment.yaml: replicas 2) that start, repair the schema, seed the   *)
(* administrator, serve, and are restarted by a deployment or by the       *)
(* liveness probe.  They share one database, which stays up, one Redis and *)
(* one inference engine.                                                   *)
(***************************************************************************)
EXTENDS Naturals

CONSTANTS Replicas,
          Chats,        \* conversations that users may create
          MaxDeploys    \* bound on the restarts ordered from outside

ASSUME PlatformAssumption == MaxDeploys \in Nat

VARIABLES
    stage,      \* where the lifespan of each replica stands
    missing,    \* tables that create_all of each replica found missing
    tables,     \* tables in the database
    chats,      \* rows of conversations, with their messages
    admin,      \* an account has the address of the super administrator
    unseeded,   \* history: replicas whose seeding raised, or whose administrator
                \*   was deleted after it
    redis,      \* Redis answers
    engine,     \* the inference engine answers
    deploys     \* bound: restarts ordered so far

vars == <<stage, missing, tables, chats, admin, unseeded, redis, engine, deploys>>

(***************************************************************************)
(*  down      no process                                                   *)
(*  otps      about to probe, and drop, otps                               *)
(*  chats     about to probe, and drop, conversations and chat_messages    *)
(*  check     create_all asks which tables exist                           *)
(*  create    create_all creates the missing ones                          *)
(*  admin     looking for the super administrator                          *)
(*  seed      none found: inserting one, with the default organisation     *)
(*  redis     about to ping Redis                                          *)
(*  serving                                                                *)
(***************************************************************************)
Stages == {"down", "otps", "chats", "check", "create", "admin", "seed",
           "redis", "serving"}
\* conversations and chat_messages are dropped together; "core" is the rest.
Tables == {"core", "otps", "chats"}

Init ==
    /\ stage = [r \in Replicas |-> "down"]
    /\ missing = [r \in Replicas |-> {}]
    /\ tables = {} /\ chats = {}
    /\ admin = FALSE /\ unseeded = {}
    /\ redis = TRUE /\ engine = TRUE
    /\ deploys = 0

Goto(r, s) == stage' = [stage EXCEPT ![r] = s]

-----------------------------------------------------------------------------
\* docker restart: unless-stopped, or the kubelet.
Start(r) ==
    /\ stage[r] = "down"
    /\ Goto(r, "otps")
    /\ unseeded' = unseeded \ {r}
    /\ UNCHANGED <<missing, tables, chats, admin, redis, engine, deploys>>

\* The probes end in `await res.all()`: the rows are a list, which cannot be
\* awaited, and the TypeError is taken for a missing column.
SchemaOk(t) == FALSE

DropOtps(r) ==
    /\ stage[r] = "otps"
    /\ tables' = IF SchemaOk("otps") THEN tables ELSE tables \ {"otps"}
    /\ Goto(r, "chats")
    /\ UNCHANGED <<missing, chats, admin, unseeded, redis, engine, deploys>>

\* (mutant) the check is made before the drop
DropChatsLate(r) ==
    /\ stage[r] = "chats"
    /\ missing' = [missing EXCEPT ![r] = Tables \ tables]
    /\ tables' = tables \ {"chats"} /\ chats' = {}
    /\ Goto(r, "create")
    /\ UNCHANGED <<admin, unseeded, redis, engine, deploys>>

DropChats(r) ==
    /\ stage[r] = "chats"
    /\ IF SchemaOk("chats")
       THEN UNCHANGED <<tables, chats>>
       ELSE tables' = tables \ {"chats"} /\ chats' = {}
    /\ Goto(r, "check")
    /\ UNCHANGED <<missing, admin, unseeded, redis, engine, deploys>>

\* A request that holds the tables wins the deadlock; the error is swallowed.
DropChatsFails(r) ==
    /\ stage[r] = "chats" /\ "chats" \in tables
    /\ \E other \in Replicas : stage[other] = "serving"
    /\ Goto(r, "check")
    /\ UNCHANGED <<missing, tables, chats, admin, unseeded, redis, engine, deploys>>

\* create_all asks for all tables first ...
CheckTables(r) ==
    /\ stage[r] = "check"
    /\ missing' = [missing EXCEPT ![r] = Tables \ tables]
    /\ Goto(r, "create")
    /\ UNCHANGED <<tables, chats, admin, unseeded, redis, engine, deploys>>

\* ... and creates the missing ones in the same transaction.
CreateTables(r) ==
    /\ stage[r] = "create" /\ missing[r] \cap tables = {}
    /\ tables' = tables \cup missing[r]
    /\ missing' = [missing EXCEPT ![r] = {}]
    /\ Goto(r, "admin")
    /\ UNCHANGED <<chats, admin, unseeded, redis, engine, deploys>>

\* (mutant) the error of create_all is retried without asking again
CreateRetried(r) ==
    /\ stage[r] = "create" /\ missing[r] \cap tables # {}
    /\ UNCHANGED vars

\* (mutant) what was found missing outlives the failure
CreateConflictStale(r) ==
    /\ stage[r] = "create" /\ missing[r] \cap tables # {}
    /\ Goto(r, "down")
    /\ UNCHANGED <<missing, tables, chats, admin, unseeded, redis, engine, deploys>>

\* One of them has been created in between: the error ends the process.
CreateConflict(r) ==
    /\ stage[r] = "create" /\ missing[r] \cap tables # {}
    /\ missing' = [missing EXCEPT ![r] = {}]
    /\ Goto(r, "down")
    /\ UNCHANGED <<tables, chats, admin, unseeded, redis, engine, deploys>>

-----------------------------------------------------------------------------
LookForAdmin(r) ==
    /\ stage[r] = "admin"
    /\ Goto(r, IF admin THEN "redis" ELSE "seed")
    /\ UNCHANGED <<missing, tables, chats, admin, unseeded, redis, engine, deploys>>

\* (mutant) the commit is forgotten
SeedUncommitted(r) ==
    /\ stage[r] = "seed"
    /\ Goto(r, "redis")
    /\ UNCHANGED <<missing, tables, chats, admin, unseeded, redis, engine, deploys>>

\* The e-mail is unique: an insert that comes too late raises, the error is
\* swallowed, and the administrator is the other replica's.
Seed(r) ==
    /\ stage[r] = "seed"
    /\ admin' = TRUE
    /\ Goto(r, "redis")
    /\ UNCHANGED <<missing, tables, chats, unseeded, redis, engine, deploys>>

\* Any other error is swallowed as well: a statement that fails, a connection
\* that is lost, the slug of the default organisation that a registration has
\* taken meanwhile.  The replica goes on without having seeded.
SeedFails(r) ==
    /\ stage[r] \in {"admin", "seed"}
    /\ unseeded' = unseeded \cup {r}
    /\ Goto(r, "redis")
    /\ UNCHANGED <<missing, tables, chats, admin, redis, engine, deploys>>

\* Redis must answer, the engine need not; the background tasks start.
Ping(r) ==
    /\ stage[r] = "redis"
    /\ Goto(r, IF redis THEN "serving" ELSE "down")
    /\ UNCHANGED <<missing, tables, chats, admin, unseeded, redis, engine, deploys>>

-----------------------------------------------------------------------------
Serving == \E r \in Replicas : stage[r] = "serving"

\* POST and DELETE /conversations on whichever replica serves; without the
\* table they fail.
SaveChat(c) ==
    /\ Serving /\ "chats" \in tables /\ c \notin chats
    /\ chats' = chats \cup {c}
    /\ UNCHANGED <<stage, missing, tables, admin, unseeded, redis, engine, deploys>>

DeleteChat(c) ==
    /\ Serving /\ c \in chats
    /\ chats' = chats \ {c}
    /\ UNCHANGED <<stage, missing, tables, admin, unseeded, redis, engine, deploys>>

\* delete_user or delete_org, of the administrator's account or organisation.
DeleteAdmin ==
    /\ Serving /\ admin
    /\ admin' = FALSE
    /\ unseeded' = unseeded \cup {r \in Replicas : stage[r] \in {"redis", "serving"}}
    /\ UNCHANGED <<stage, missing, tables, chats, redis, engine, deploys>>

\* readiness: 200 only if engine, database and Redis all answer.
Ready == engine /\ redis

\* The liveness probe asks /health, which is readiness.
ProbeKills(r) ==
    /\ stage[r] = "serving" /\ ~Ready
    /\ Goto(r, "down")
    /\ UNCHANGED <<missing, tables, chats, admin, unseeded, redis, engine, deploys>>

\* A process is stopped, wherever it stands: a deployment, an eviction, a crash.
Stop(r) ==
    /\ stage[r] # "down" /\ deploys < MaxDeploys
    /\ deploys' = deploys + 1
    /\ missing' = [missing EXCEPT ![r] = {}]
    /\ Goto(r, "down")
    /\ UNCHANGED <<tables, chats, admin, unseeded, redis, engine>>

RedisChanges ==
    /\ redis' = ~redis
    /\ UNCHANGED <<stage, missing, tables, chats, admin, unseeded, engine, deploys>>

EngineChanges ==
    /\ engine' = ~engine
    /\ UNCHANGED <<stage, missing, tables, chats, admin, unseeded, redis, deploys>>

Lifespan(r) ==
    \/ Start(r) \/ DropOtps(r) \/ DropChats(r) \/ DropChatsFails(r)
    \/ CheckTables(r) \/ CreateTables(r) \/ CreateConflict(r)
    \/ LookForAdmin(r) \/ Seed(r) \/ SeedFails(r) \/ Ping(r)

Next ==
    \/ \E r \in Replicas : Lifespan(r) \/ ProbeKills(r) \/ Stop(r)
    \/ \E c \in Chats : SaveChat(c) \/ DeleteChat(c)
    \/ DeleteAdmin \/ RedisChanges \/ EngineChanges

Spec == Init /\ [][Next]_vars

(***************************************************************************)
(* Fairness: a process that has been started goes on, and one that is down *)
(* is started again.                                                       *)
(***************************************************************************)
FairSpec == Spec /\ \A r \in Replicas : WF_vars(Lifespan(r))

-----------------------------------------------------------------------------
\* Every variable keeps its type; what create_all found is used by it alone.
TypeOK ==
    /\ stage \in [Replicas -> Stages]
    /\ missing \in [Replicas -> SUBSET Tables]
    /\ \A r \in Replicas : missing[r] # {} => stage[r] = "create"
    /\ tables \subseteq Tables /\ chats \subseteq Chats
    /\ admin \in BOOLEAN /\ unseeded \subseteq Replicas
    /\ redis \in BOOLEAN /\ engine \in BOOLEAN
    /\ deploys \in 0..MaxDeploys

(***************************************************************************)
(* However the startups of the replicas overlap, and though each one drops *)
(* tables the others use: once all of them serve, every table is there.    *)
(***************************************************************************)
TablesWhenAllServe ==
    (\A r \in Replicas : stage[r] = "serving") => tables = Tables

(***************************************************************************)
(* A replica may serve without an administrator only when an error other   *)
(* than a lost race was swallowed in its own seeding, or when the account  *)
(* has been deleted since.  Losing the race of several seedings for the    *)
(* unique columns, or dying in the middle of one, leaves no such replica.  *)
(***************************************************************************)
AdminWhenServing ==
    \A r \in Replicas : stage[r] = "serving" /\ r \notin unseeded => admin

(***************************************************************************)
(* Replicas do not keep each other from starting: if engine and Redis stay *)
(* up from some time on, all of them end up serving for good.              *)
(***************************************************************************)
RecoversAfterOutage ==
    <>[](engine /\ redis) => <>[](\A r \in Replicas : stage[r] = "serving")

-----------------------------------------------------------------------------
(***************************************************************************)
(* README: full conversation sessions and chat messages are stored; so a   *)
(* conversation goes only when its owner deletes it.                       *)
(***************************************************************************)
HistoryKept ==
    [][\A c \in chats \ chats' : DeleteChat(c)]_vars
=============================================================================
