--------------------------- MODULE Platform_proofs ---------------------------
(***************************************************************************)
(* For any number of replicas: once all serve, the tables are there, and a *)
(* replica serves without an administrator only after an error of its own  *)
(* seeding or a deletion.                                                  *)
(***************************************************************************)
EXTENDS Platform, TLAPS

(***************************************************************************)
(* A table can only be absent while some replica still has to create it:   *)
(* it has not asked yet, or it has found the table missing.                *)
(***************************************************************************)
Owes(r, t) ==
    \/ stage[r] \in {"down", "otps", "chats", "check"}
    \/ stage[r] = "create" /\ t \in missing[r]

AbsentIsOwed == \A t \in Tables \ tables : \E r \in Replicas : Owes(r, t)

\* Past a seeding that met no error there is an administrator.
Seeded ==
    \A r \in Replicas : stage[r] \in {"redis", "serving"} /\ r \notin unseeded => admin

(***************************************************************************)
(* Types; what create_all of one replica found does not outlive its        *)
(* transaction.                                                            *)
(***************************************************************************)
THEOREM TypeCorrect == Spec => []TypeOK
  <1>1. Init => TypeOK
    <2> SUFFICES ASSUME Init
                 PROVE  TypeOK
      OBVIOUS
    <2>1. stage \in [Replicas -> Stages]
      BY DEF Init, Stages
    <2>2. missing \in [Replicas -> SUBSET Tables] /\ \A r \in Replicas : missing[r] = {}
      BY DEF Init
    <2>3. deploys \in 0..MaxDeploys
      BY PlatformAssumption DEF Init
    <2>. QED
      BY <2>1, <2>2, <2>3 DEF Init, TypeOK
  <1>2. TypeOK /\ [Next]_vars => TypeOK'
    <2> SUFFICES ASSUME TypeOK, [Next]_vars
                 PROVE  TypeOK'
      OBVIOUS
    <2>. USE PlatformAssumption DEF TypeOK, Stages, Goto
    <2>1. ASSUME NEW r \in Replicas, Start(r) \/ DropOtps(r) \/ DropChats(r)
          PROVE  TypeOK'
      BY <2>1 DEF Start, DropOtps, DropChats, SchemaOk
    <2>2. ASSUME NEW r \in Replicas, DropChatsFails(r)
          PROVE  TypeOK'
      BY <2>2 DEF DropChatsFails
    <2>8. ASSUME NEW r \in Replicas, CheckTables(r)
          PROVE  TypeOK'
      <3>1. Tables \ tables \in SUBSET Tables
        OBVIOUS
      <3>2. missing' \in [Replicas -> SUBSET Tables]
        BY <2>8, <3>1 DEF CheckTables
      <3>3. \A q \in Replicas : missing'[q] # {} => stage'[q] = "create"
        BY <2>8 DEF CheckTables
      <3>. QED
        BY <2>8, <3>2, <3>3 DEF CheckTables
    <2>3. ASSUME NEW r \in Replicas, CreateTables(r) \/ CreateConflict(r)
          PROVE  TypeOK'
      BY <2>3 DEF CreateTables, CreateConflict
    <2>4. ASSUME NEW r \in Replicas,
                 LookForAdmin(r) \/ Seed(r) \/ SeedFails(r) \/ Ping(r)
          PROVE  TypeOK'
      BY <2>4 DEF LookForAdmin, Seed, SeedFails, Ping
    <2>5. ASSUME NEW r \in Replicas, ProbeKills(r)
          PROVE  TypeOK'
      BY <2>5 DEF ProbeKills
    <2>11. ASSUME NEW r \in Replicas, Stop(r)
          PROVE  TypeOK'
      <3>1. deploys' \in 0..MaxDeploys
        BY <2>11 DEF Stop
      <3>2. /\ missing' \in [Replicas -> SUBSET Tables]
            /\ \A q \in Replicas : missing'[q] # {} => stage'[q] = "create"
        BY <2>11 DEF Stop
      <3>3. stage' \in [Replicas -> Stages]
        BY <2>11 DEF Stop
      <3>. QED
        BY <2>11, <3>1, <3>2, <3>3 DEF Stop
    <2>6. ASSUME NEW c \in Chats, SaveChat(c) \/ DeleteChat(c)
          PROVE  TypeOK'
      <3>1. chats' \subseteq Chats
        BY <2>6 DEF SaveChat, DeleteChat
      <3>2. UNCHANGED <<stage, missing, tables, admin, unseeded, redis, engine, deploys>>
        BY <2>6 DEF SaveChat, DeleteChat
      <3>. QED
        BY <3>1, <3>2
    <2>7. CASE RedisChanges
      <3>1. redis' \in BOOLEAN
        BY <2>7 DEF RedisChanges
      <3>. QED
        BY <2>7, <3>1 DEF RedisChanges
    <2>9. CASE EngineChanges
      <3>1. engine' \in BOOLEAN
        BY <2>9 DEF EngineChanges
      <3>. QED
        BY <2>9, <3>1 DEF EngineChanges
    <2>12. CASE DeleteAdmin
      <3>1. unseeded' \subseteq Replicas /\ admin' \in BOOLEAN
        BY <2>12 DEF DeleteAdmin
      <3>. QED
        BY <2>12, <3>1 DEF DeleteAdmin
    <2>10. CASE UNCHANGED vars
      BY <2>10 DEF vars
    <2>. QED
      BY <2>1, <2>2, <2>3, <2>4, <2>5, <2>6, <2>7, <2>8, <2>9, <2>10, <2>11,
         <2>12 DEF Next, Lifespan
  <1>. QED
    BY <1>1, <1>2, PTL DEF Spec

-----------------------------------------------------------------------------
\* A step after which replica r owes every absent table.
LEMMA OwedByOne ==
    ASSUME NEW r \in Replicas, \A t \in (Tables \ tables)' : Owes(r, t)'
    PROVE  AbsentIsOwed'
  BY DEF AbsentIsOwed

\* A step that removes no table and takes no debt over.
LEMMA DebtsKept ==
    ASSUME AbsentIsOwed, tables \subseteq tables',
           \A r \in Replicas, t \in Tables \ tables' : Owes(r, t) => Owes(r, t)'
    PROVE  AbsentIsOwed'
  BY DEF AbsentIsOwed, Tables

LEMMA AbsentIsOwedStep ==
    ASSUME TypeOK, AbsentIsOwed, [Next]_vars
    PROVE  AbsentIsOwed'
  <1>t. stage \in [Replicas -> Stages] /\ missing \in [Replicas -> SUBSET Tables]
    BY DEF TypeOK
  <1>. USE DEF Goto
  <1>1. ASSUME NEW r \in Replicas,
               Start(r) \/ DropOtps(r) \/ DropChats(r) \/ DropChatsFails(r)
                 \/ CreateConflict(r) \/ ProbeKills(r) \/ Stop(r)
        PROVE  AbsentIsOwed'
    <2>1. stage'[r] \in {"down", "otps", "chats", "check"}
      BY <1>t, <1>1 DEF Start, DropOtps, DropChats, DropChatsFails, CreateConflict,
                       ProbeKills, Stop
    <2>. QED
      BY <2>1, OwedByOne DEF Owes
  <1>2. ASSUME NEW r \in Replicas, CheckTables(r)
        PROVE  AbsentIsOwed'
    <2>1. stage'[r] = "create" /\ missing'[r] = Tables \ tables' /\ tables' = tables
      BY <1>t, <1>2 DEF CheckTables
    <2>. QED
      BY <2>1, OwedByOne DEF Owes, Tables
  <1>3. ASSUME NEW r \in Replicas, CreateTables(r)
        PROVE  AbsentIsOwed'
    <2>1. tables' = tables \cup missing[r] /\ stage[r] = "create"
      BY <1>3 DEF CreateTables
    <2>2. \A q \in Replicas \ {r} : stage'[q] = stage[q] /\ missing'[q] = missing[q]
      BY <1>t, <1>3 DEF CreateTables
    <2>3. ASSUME NEW q \in Replicas, NEW t \in Tables \ tables', Owes(q, t)
          PROVE  Owes(q, t)'
      BY <2>1, <2>2, <2>3 DEF Owes
    <2>. QED
      BY <2>1, <2>3, DebtsKept
  <1>4. ASSUME NEW r \in Replicas,
               LookForAdmin(r) \/ Seed(r) \/ SeedFails(r) \/ Ping(r)
        PROVE  AbsentIsOwed'
    <2>1. stage[r] \in {"admin", "seed", "redis"} /\ tables' = tables /\ missing' = missing
      BY <1>4 DEF LookForAdmin, Seed, SeedFails, Ping
    <2>2. \A q \in Replicas \ {r} : stage'[q] = stage[q]
      BY <1>t, <1>4 DEF LookForAdmin, Seed, SeedFails, Ping
    <2>3. ASSUME NEW q \in Replicas, NEW t \in Tables \ tables', Owes(q, t)
          PROVE  Owes(q, t)'
      BY <2>1, <2>2, <2>3 DEF Owes
    <2>. QED
      BY <2>1, <2>3, DebtsKept
  <1>5. CASE UNCHANGED <<stage, missing, tables>>
    BY <1>5 DEF AbsentIsOwed, Owes
  <1>6. ASSUME NEW c \in Chats, SaveChat(c) \/ DeleteChat(c)
        PROVE  UNCHANGED <<stage, missing, tables>>
    BY <1>6 DEF SaveChat, DeleteChat
  <1>7. ASSUME DeleteAdmin \/ RedisChanges \/ EngineChanges \/ UNCHANGED vars
        PROVE  UNCHANGED <<stage, missing, tables>>
    BY <1>7 DEF DeleteAdmin, RedisChanges, EngineChanges, vars
  <1>. QED
    BY <1>1, <1>2, <1>3, <1>4, <1>5, <1>6, <1>7 DEF Next, Lifespan

(***************************************************************************)
(* The tables are there once every replica serves, whatever the overlap of *)
(* their startups: an absent table is always owed by somebody.             *)
(***************************************************************************)
THEOREM TablesThere == ASSUME Replicas # {} PROVE Spec => []TablesWhenAllServe
  <1>1. Init => AbsentIsOwed
    BY DEF Init, AbsentIsOwed, Owes
  <1>2. TypeOK /\ AbsentIsOwed /\ [Next]_vars => AbsentIsOwed'
    BY AbsentIsOwedStep
  <1>3. TypeOK /\ AbsentIsOwed => TablesWhenAllServe
    BY DEF TypeOK, AbsentIsOwed, Owes, TablesWhenAllServe, Tables
  <1>. QED
    BY <1>1, <1>2, <1>3, TypeCorrect, PTL DEF Spec

(***************************************************************************)
(* A seeding that loses the race, dies half-way or finds the address taken *)
(* leaves no replica serving without an administrator: only another error  *)
(* of its own seeding, or a deletion since, does.                          *)
(***************************************************************************)
THEOREM AdminThere == Spec => []AdminWhenServing
  <1>1. Init => Seeded
    BY DEF Init, Seeded
  <1>2. TypeOK /\ Seeded /\ [Next]_vars => Seeded'
    <2> SUFFICES ASSUME TypeOK, Seeded, [Next]_vars
                 PROVE  Seeded'
      OBVIOUS
    <2>t. stage \in [Replicas -> Stages]
      BY DEF TypeOK
    <2>. USE DEF Seeded, Goto
    <2>1. ASSUME NEW r \in Replicas,
                 Start(r) \/ DropOtps(r) \/ DropChats(r) \/ DropChatsFails(r)
                   \/ CreateConflict(r) \/ ProbeKills(r) \/ Stop(r)
          PROVE  Seeded'
      BY <2>t, <2>1 DEF Start, DropOtps, DropChats, DropChatsFails, CreateConflict,
                       ProbeKills, Stop
    <2>2. ASSUME NEW r \in Replicas, CheckTables(r) \/ CreateTables(r)
          PROVE  Seeded'
      BY <2>t, <2>2 DEF CheckTables, CreateTables
    <2>3. ASSUME NEW r \in Replicas,
                 LookForAdmin(r) \/ Seed(r) \/ SeedFails(r) \/ Ping(r)
          PROVE  Seeded'
      BY <2>t, <2>3 DEF LookForAdmin, Seed, SeedFails, Ping
    <2>4. ASSUME NEW c \in Chats, SaveChat(c) \/ DeleteChat(c)
          PROVE  Seeded'
      BY <2>4 DEF SaveChat, DeleteChat
    <2>6. CASE DeleteAdmin
      <3>1. \A r \in Replicas : stage'[r] \in {"redis", "serving"} => r \in unseeded'
        BY <2>6 DEF DeleteAdmin
      <3>. QED
        BY <3>1
    <2>5. CASE RedisChanges \/ EngineChanges \/ UNCHANGED vars
      BY <2>5 DEF RedisChanges, EngineChanges, vars
    <2>. QED
      BY <2>1, <2>2, <2>3, <2>4, <2>5, <2>6 DEF Next, Lifespan
  <1>3. Seeded => AdminWhenServing
    BY DEF Seeded, AdminWhenServing
  <1>. QED
    BY <1>1, <1>2, <1>3, TypeCorrect, PTL DEF Spec
=============================================================================
