--------------------------- MODULE Tenancy_proofs ---------------------------
(***************************************************************************)
(* First Directory: whatever operations are carried out in whatever order, *)
(* no row refers to another tenant's.  Then Tenancy: the transactions that *)
(* overlap keep out of each other's rows, which an inductive invariant     *)
(* says, and each commit is one operation of Directory.                    *)
(***************************************************************************)
EXTENDS Tenancy, TLAPS

\* A row of the table that its id belongs to.
Shaped(i, r) ==
    /\ r \in Row
    /\ i \in Orgs  => r.org = None /\ r.user = None /\ r.key = None
    /\ i \in Users => r.org \in Orgs /\ r.user = None /\ r.key = None /\ r.role \in Roles
    /\ i \in Keys  => r.org \in Orgs /\ r.user \in Users /\ r.key = None
    /\ i \in Logs  => r.org \in Orgs

\* What r refers to is in t and of its organisation.
Linked(t, r) ==
    /\ r.org # None => r.org \in DOMAIN t
    /\ r.user # None => r.user \in DOMAIN t /\ t[r.user].org = r.org
    /\ r.key # None => r.key \in DOMAIN t /\ t[r.key].org = r.org

\* The inductive invariant, of a table t.
Sound(t) ==
    /\ t = [i \in DOMAIN t |-> t[i]]
    /\ DOMAIN t \subseteq Ids
    /\ \A i \in DOMAIN t : Shaped(i, t[i]) /\ Linked(t, t[i])

\* The ids of the four tables are told apart.
LEMMA Apart ==
    /\ Orgs \cap Users = {} /\ Orgs \cap Keys = {} /\ Orgs \cap Logs = {}
    /\ Users \cap Keys = {} /\ Users \cap Logs = {} /\ Keys \cap Logs = {}
    /\ None \notin Orgs /\ None \notin Users /\ None \notin Keys /\ None \notin Logs
  BY DirectoryAssumption DEF Ids

\* Sound tables have one tenant for a row and what it refers to.
LEMMA SoundIsOneTenant == Sound(db) => OneTenant
  <1> SUFFICES ASSUME Sound(db), NEW i \in DOMAIN db, NEW p \in Refs(db[i])
               PROVE  p \in DOMAIN db /\ Home(db, p) = Home(db, i)
    BY DEF OneTenant
  <1>1. Shaped(i, db[i]) /\ Linked(db, db[i]) /\ i \in Ids
    BY DEF Sound
  <1>2. i \notin Orgs
    BY <1>1 DEF Refs, Shaped
  <1>3. db[i].org \in Orgs
    BY <1>1, <1>2 DEF Ids, Shaped
  <1>4. Home(db, i) = db[i].org
    BY <1>2 DEF Home
  <1>5. CASE p = db[i].org
    BY <1>1, <1>3, <1>4, <1>5, Apart DEF Linked, Home
  <1>6. CASE p = db[i].user /\ p # None
    <2>1. p \in Users
      BY <1>1, <1>6 DEF Shaped, Row
    <2> QED BY <1>1, <1>4, <1>6, <2>1, Apart DEF Linked, Home
  <1>7. CASE p = db[i].key /\ p # None
    <2>1. p \in Keys
      BY <1>1, <1>7 DEF Shaped, Row
    <2> QED BY <1>1, <1>4, <1>7, <2>1, Apart DEF Linked, Home
  <1> QED BY <1>5, <1>6, <1>7 DEF Refs

\* A new row that fits leaves the table sound.
LEMMA PlusSound ==
    ASSUME NEW t, Sound(t), NEW i \in Ids \ DOMAIN t, NEW r,
           Shaped(i, r), Linked(t, r)
    PROVE  Sound(Plus(t, i, r))
  <1> DEFINE u == Plus(t, i, r)
  <1>1. /\ DOMAIN u = DOMAIN t \cup {i} /\ u[i] = r
        /\ \A j \in DOMAIN t : u[j] = t[j]
        /\ u = [j \in DOMAIN u |-> u[j]]
    BY DEF Plus
  <1>2. ASSUME NEW s, Linked(t, s) PROVE Linked(u, s)
    BY <1>1, <1>2 DEF Linked
  <1>3. \A j \in DOMAIN u : Shaped(j, u[j]) /\ Linked(u, u[j])
    <2> SUFFICES ASSUME NEW j \in DOMAIN u PROVE Shaped(j, u[j]) /\ Linked(u, u[j])
      OBVIOUS
    <2>1. CASE j = i
      BY <1>1, <1>2, <2>1
    <2>2. CASE j \in DOMAIN t
      BY <1>1, <1>2, <2>2 DEF Sound
    <2> QED BY <1>1, <2>1, <2>2
  <1>4. DOMAIN u \subseteq Ids
    BY <1>1 DEF Sound
  <1> HIDE DEF u
  <1>5. Sound(u)
    BY <1>1, <1>3, <1>4 DEF Sound
  <1> QED BY <1>5 DEF u

\* So does a change of columns that are no references.
LEMMA UpdateSound ==
    ASSUME NEW t, Sound(t), NEW i \in DOMAIN t, NEW r \in Row,
           r.org = t[i].org, r.user = t[i].user, r.key = t[i].key, i \in Users => r.role \in Roles
    PROVE  Sound([t EXCEPT ![i] = r])
  <1> DEFINE u == [t EXCEPT ![i] = r]
  <1>1. /\ DOMAIN u = DOMAIN t /\ u[i] = r
        /\ \A j \in DOMAIN t : j # i => u[j] = t[j]
        /\ u = [j \in DOMAIN u |-> u[j]]
    BY DEF Sound
  <1>2. \A j \in DOMAIN t : u[j].org = t[j].org /\ u[j].user = t[j].user /\ u[j].key = t[j].key
    BY <1>1
  <1>3. ASSUME NEW j \in DOMAIN t PROVE Shaped(j, u[j]) /\ Linked(u, u[j])
    <2>1. Shaped(j, t[j]) /\ Linked(t, t[j]) /\ u[j] \in Row
      BY <1>1 DEF Sound, Shaped
    <2>2. Shaped(j, u[j])
      BY <1>2, <2>1 DEF Shaped
    <2>3. Linked(u, u[j])
      BY <1>1, <1>2, <2>1 DEF Linked
    <2> QED BY <2>2, <2>3
  <1>4. DOMAIN u \subseteq Ids
    BY <1>1 DEF Sound
  <1> HIDE DEF u
  <1>5. Sound(u)
    BY <1>1, <1>3, <1>4 DEF Sound
  <1> QED BY <1>5 DEF u

\* A deletion takes no organisation and no user without its keys: the rest, with
\* references to what goes cleared, is sound.
LEMMA MinusSound ==
    ASSUME NEW t, Sound(t), NEW gone \in SUBSET (Users \cup Keys),
           \A u \in Users \cap gone : KeysOf(t, u) \subseteq gone
    PROVE  Sound(Minus(t, gone))
  <1> DEFINE v == Minus(t, gone)
  <1>1. /\ DOMAIN v = DOMAIN t \ gone
        /\ \A j \in DOMAIN v : v[j] = Unlinked(t[j], gone)
        /\ v = [j \in DOMAIN v |-> v[j]]
    BY DEF Minus
  <1>2. ASSUME NEW j \in DOMAIN v
        PROVE  /\ v[j] \in Row /\ v[j].org = t[j].org /\ v[j].role = t[j].role
               /\ v[j].user = IF t[j].user \in gone THEN None ELSE t[j].user
               /\ v[j].key = IF t[j].key \in gone THEN None ELSE t[j].key
    <2>1. t[j] \in Row /\ v[j] = Unlinked(t[j], gone)
      BY <1>1 DEF Sound, Shaped
    <2> QED BY <2>1 DEF Unlinked, Row
  <1>3. ASSUME NEW j \in DOMAIN v PROVE Shaped(j, v[j])
    <2>1. j \in DOMAIN t /\ j \notin gone /\ Shaped(j, t[j])
      BY <1>1 DEF Sound
    <2>2. j \in Keys => t[j].user \notin gone
      <3> SUFFICES ASSUME j \in Keys, t[j].user \in gone PROVE FALSE
        OBVIOUS
      <3>1. t[j].user \in Users
        BY <2>1 DEF Shaped
      <3> QED BY <2>1, <3>1 DEF KeysOf
    <2> QED BY <1>2, <2>1, <2>2 DEF Shaped
  <1>4. ASSUME NEW j \in DOMAIN v PROVE Linked(v, v[j])
    <2>1. Linked(t, t[j]) /\ Shaped(j, t[j])
      BY <1>1 DEF Sound
    <2>2. v[j].org # None => v[j].org \in DOMAIN v
      <3>1. v[j].org # None => v[j].org \in Orgs
        BY <1>2, <2>1 DEF Shaped, Row
      <3>2. v[j].org # None => v[j].org \notin gone
        BY <3>1, Apart
      <3> QED BY <1>1, <1>2, <2>1, <3>2 DEF Linked
    <2>3. v[j].user # None => v[j].user \in DOMAIN v /\ v[v[j].user].org = v[j].org
      BY <1>1, <1>2, <2>1 DEF Linked
    <2>4. v[j].key # None => v[j].key \in DOMAIN v /\ v[v[j].key].org = v[j].org
      BY <1>1, <1>2, <2>1 DEF Linked
    <2> QED BY <2>2, <2>3, <2>4 DEF Linked
  <1>5. DOMAIN v \subseteq Ids
    BY <1>1 DEF Sound
  <1> HIDE DEF v
  <1>6. Sound(v)
    BY <1>1, <1>3, <1>4, <1>5 DEF Sound
  <1> QED BY <1>6 DEF v

\* Without the rows of an organisation, nothing refers to them.
LEMMA RestSound ==
    ASSUME NEW t, Sound(t), NEW o \in Orgs
    PROVE  Sound([i \in {j \in DOMAIN t : Home(t, j) # o} |-> t[i]])
  <1> DEFINE v == [i \in {j \in DOMAIN t : Home(t, j) # o} |-> t[i]]
  <1>1. /\ DOMAIN v = {j \in DOMAIN t : Home(t, j) # o}
        /\ \A j \in DOMAIN v : v[j] = t[j] /\ j \in DOMAIN t /\ Home(t, j) # o
        /\ v = [j \in DOMAIN v |-> v[j]]
    OBVIOUS
  <1>2. ASSUME NEW j \in DOMAIN v PROVE Shaped(j, v[j]) /\ Linked(v, v[j])
    <2>1. Linked(t, t[j]) /\ Shaped(j, t[j]) /\ v[j] = t[j] /\ Home(t, j) # o /\ j \in Ids
      BY <1>1 DEF Sound
    <2>2. CASE j \in Orgs
      BY <2>1, <2>2 DEF Shaped, Linked
    <2>3. CASE j \notin Orgs
      <3>1. t[j].org # o /\ t[j].org \in Orgs
        BY <2>1, <2>3 DEF Home, Shaped, Ids
      <3>2. v[j].org \in DOMAIN v
        BY <1>1, <2>1, <3>1, Apart DEF Linked, Home
      <3>3. v[j].user # None => v[j].user \in DOMAIN v /\ v[v[j].user].org = v[j].org
        <4>1. t[j].user # None => t[j].user \in Users
          BY <2>1 DEF Shaped, Row
        <4> QED BY <1>1, <2>1, <3>1, <4>1, Apart DEF Linked, Home
      <3>4. v[j].key # None => v[j].key \in DOMAIN v /\ v[v[j].key].org = v[j].org
        <4>1. t[j].key # None => t[j].key \in Keys
          BY <2>1 DEF Shaped, Row
        <4> QED BY <1>1, <2>1, <3>1, <4>1, Apart DEF Linked, Home
      <3> QED BY <2>1, <3>2, <3>3, <3>4 DEF Linked
    <2> QED BY <2>2, <2>3
  <1>3. DOMAIN v \subseteq Ids
    BY <1>1 DEF Sound
  <1> HIDE DEF v
  <1>4. Sound(v)
    BY <1>1, <1>2, <1>3 DEF Sound
  <1> QED BY <1>4 DEF v

\* The rows that operations write.
LEMMA NewRows ==
    /\ \A o \in Orgs, s \in Slugs : Shaped(o, OrgRow(s))
    /\ \A u \in Users, o \in Orgs, r \in Roles : Shaped(u, UserRow(o, r))
    /\ \A k \in Keys, o \in Orgs, u \in Users, h \in Hashes : Shaped(k, KeyRow(o, u, h))
    /\ \A l \in Logs, o \in Orgs, u \in Users, k \in Keys \cup {None} : Shaped(l, LogRow(o, u, k))
  BY Apart DEF Shaped, Row, OrgRow, UserRow, KeyRow, LogRow

LEMMA SoundInit == DirInit => Sound(db)
  <1> SUFFICES ASSUME DirInit PROVE Sound(db)
    OBVIOUS
  <1>1. /\ DOMAIN db = {FirstOrg, FirstUser} /\ FirstOrg # FirstUser
        /\ db[FirstOrg] = OrgRow(DefaultSlug)
        /\ db[FirstUser] = UserRow(FirstOrg, "platform_admin")
        /\ db = [i \in DOMAIN db |-> db[i]]
    BY Apart, DirectoryAssumption DEF DirInit
  <1>2. Shaped(FirstOrg, db[FirstOrg]) /\ Shaped(FirstUser, db[FirstUser])
    BY <1>1, NewRows, DirectoryAssumption DEF Roles
  <1>3. Linked(db, db[FirstOrg]) /\ Linked(db, db[FirstUser])
    BY <1>1 DEF Linked, OrgRow, UserRow
  <1>4. DOMAIN db \subseteq Ids
    BY <1>1, DirectoryAssumption DEF Ids
  <1> QED BY <1>1, <1>2, <1>3, <1>4 DEF Sound

\* A user that is added refers to an organisation of the table.
LEMMA AddUserSound ==
    ASSUME NEW t, Sound(t), NEW u \in Users \ DOMAIN t, NEW o \in Orgs \cap DOMAIN t,
           NEW r \in Roles
    PROVE  Sound(Plus(t, u, UserRow(o, r)))
  <1>1. Linked(t, UserRow(o, r))
    BY DEF Linked, UserRow
  <1>2. Shaped(u, UserRow(o, r)) /\ u \in Ids \ DOMAIN t
    BY NewRows DEF Ids
  <1> QED BY <1>1, <1>2, PlusSound

LEMMA AddOrgSound ==
    ASSUME NEW t, Sound(t), NEW o \in Orgs \ DOMAIN t, NEW s \in Slugs
    PROVE  Sound(Plus(t, o, OrgRow(s)))
  <1>1. Linked(t, OrgRow(s))
    BY DEF Linked, OrgRow
  <1>2. Shaped(o, OrgRow(s)) /\ o \in Ids \ DOMAIN t
    BY NewRows DEF Ids
  <1> QED BY <1>1, <1>2, PlusSound

LEMMA SoundStep == Sound(db) /\ [DirNext]_db => Sound(db')
  <1> SUFFICES ASSUME Sound(db), [DirNext]_db PROVE Sound(db')
    OBVIOUS
  <1>1. ASSUME NEW o \in Orgs, NEW s \in Slugs, AddOrg(o, s) PROVE Sound(db')
    BY <1>1, AddOrgSound DEF AddOrg
  <1>2. ASSUME NEW u \in Users, NEW o \in Orgs, NEW r \in Roles, AddUser(u, o, r)
        PROVE Sound(db')
    BY <1>2, AddUserSound DEF AddUser
  <1>3. ASSUME NEW o \in Orgs, NEW s \in Slugs, NEW u \in Users, NEW r \in Roles,
               Found(o, s, u, r)
        PROVE Sound(db')
    <2> DEFINE t == Plus(db, o, OrgRow(s))
    <2>1. Sound(t) /\ o \in DOMAIN t /\ DOMAIN t = DOMAIN db \cup {o}
      BY <1>3, AddOrgSound DEF Found, Plus
    <2>2. u \notin DOMAIN t /\ db' = Plus(t, u, UserRow(o, r))
      BY <1>3, <2>1, Apart DEF Found
    <2> HIDE DEF t
    <2> QED BY <2>1, <2>2, AddUserSound
  <1>4. ASSUME NEW u \in Users, NEW r \in Roles, SetRole(u, r) PROVE Sound(db')
    <2>1. u \in DOMAIN db /\ db[u] \in Row
      BY <1>4 DEF SetRole, Sound, Shaped
    <2> DEFINE w == [db[u] EXCEPT !.role = r]
    <2>2. w \in Row /\ w.role = r /\ w.org = db[u].org /\ w.user = db[u].user /\ w.key = db[u].key
      BY <2>1 DEF Row
    <2>3. db' = [db EXCEPT ![u] = w]
      BY <1>4 DEF SetRole
    <2> HIDE DEF w
    <2> QED BY <2>1, <2>2, <2>3, UpdateSound
  <1>5. ASSUME NEW u \in Users, RemoveUser(u) PROVE Sound(db')
    <2>1. KeysOf(db, u) \subseteq Keys
      BY DEF KeysOf
    <2>2. ({u} \cup KeysOf(db, u)) \cap Users = {u}
      BY <2>1, Apart
    <2> QED BY <1>5, <2>1, <2>2, MinusSound DEF RemoveUser
  <1>6. ASSUME NEW o \in Orgs, RemoveOrg(o) PROVE Sound(db')
    BY <1>6, RestSound DEF RemoveOrg
  <1>7. ASSUME NEW k \in Keys, NEW u \in Users, NEW h \in Hashes, AddKey(k, u, h)
        PROVE Sound(db')
    <2>1. Shaped(u, db[u]) /\ Linked(db, db[u]) /\ u \in DOMAIN db
      BY <1>7 DEF AddKey, Sound
    <2>2. db[u].org \in Orgs
      BY <2>1 DEF Shaped
    <2>3. Linked(db, KeyRow(db[u].org, u, h))
      BY <2>1 DEF Linked, KeyRow
    <2>4. Shaped(k, KeyRow(db[u].org, u, h)) /\ k \in Ids \ DOMAIN db
      BY <1>7, <2>2, NewRows DEF AddKey, Ids
    <2> QED BY <1>7, <2>3, <2>4, PlusSound DEF AddKey
  <1>8. ASSUME NEW k \in Keys, NEW h \in Hashes, Rotate(k, h) PROVE Sound(db')
    <2>1. k \in DOMAIN db /\ db[k] \in Row
      BY <1>8 DEF Rotate, Sound, Shaped
    <2> DEFINE w == [db[k] EXCEPT !.hash = h]
    <2>2. w \in Row /\ w.org = db[k].org /\ w.user = db[k].user /\ w.key = db[k].key
      BY <2>1 DEF Row
    <2>3. db' = [db EXCEPT ![k] = w]
      BY <1>8 DEF Rotate
    <2> HIDE DEF w
    <2> QED BY <2>1, <2>2, <2>3, UpdateSound, Apart
  <1>9. ASSUME NEW k \in Keys, Revoke(k) PROVE Sound(db')
    <2>1. k \in DOMAIN db /\ db[k] \in Row
      BY <1>9 DEF Revoke, Sound, Shaped
    <2> DEFINE w == [db[k] EXCEPT !.active = FALSE]
    <2>2. w \in Row /\ w.org = db[k].org /\ w.user = db[k].user /\ w.key = db[k].key
      BY <2>1 DEF Row
    <2>3. db' = [db EXCEPT ![k] = w]
      BY <1>9 DEF Revoke
    <2> HIDE DEF w
    <2> QED BY <2>1, <2>2, <2>3, UpdateSound, Apart
  <1>10. ASSUME NEW k \in Keys, RemoveKey(k) PROVE Sound(db')
    <2>1. {k} \cap Users = {}
      BY Apart
    <2> QED BY <1>10, <2>1, MinusSound DEF RemoveKey
  <1>11. ASSUME NEW l \in Logs, NEW u \in Users, NEW k \in Keys \cup {None}, AddLog(l, u, k)
         PROVE Sound(db')
    <2>1. Shaped(u, db[u]) /\ Linked(db, db[u]) /\ u \in DOMAIN db
      BY <1>11 DEF AddLog, Sound
    <2>2. db[u].org \in Orgs
      BY <2>1 DEF Shaped
    <2>3. k # None => k \in DOMAIN db /\ db[k].org = db[u].org
      <3> SUFFICES ASSUME k # None PROVE k \in DOMAIN db /\ db[k].org = db[u].org
        OBVIOUS
      <3>1. k \in DOMAIN db /\ db[k].user = u
        BY <1>11 DEF AddLog, KeysOf
      <3>2. Linked(db, db[k])
        BY <3>1 DEF Sound
      <3> QED BY <3>1, <3>2, Apart DEF Linked
    <2>4. Linked(db, LogRow(db[u].org, u, k))
      BY <2>1, <2>3 DEF Linked, LogRow
    <2>5. Shaped(l, LogRow(db[u].org, u, k)) /\ l \in Ids \ DOMAIN db
      BY <1>11, <2>2, NewRows DEF AddLog, Ids
    <2> QED BY <1>11, <2>4, <2>5, PlusSound DEF AddLog
  <1>12. CASE UNCHANGED db
    BY <1>12
  <1> QED BY <1>1, <1>2, <1>3, <1>4, <1>5, <1>6, <1>7, <1>8, <1>9, <1>10, <1>11, <1>12 DEF DirNext

\* In every reachable table.
LEMMA AlwaysSound == DirSpec => []Sound(db)
  <1>1. Sound(db) /\ [DirNext]_db => Sound(db)'
    BY SoundStep
  <1> QED BY SoundInit, <1>1, PTL DEF DirSpec

(***************************************************************************)
(* No operation attaches a row to another tenant's, or to nothing.         *)
(***************************************************************************)
THEOREM TenantsStayApart == DirSpec => []OneTenant
  BY AlwaysSound, SoundIsOneTenant, PTL

\* What a deletion leaves keeps its organisation and its status.
LEMMA MinusKeeps ==
    ASSUME Sound(db), NEW gone
    PROVE  /\ DOMAIN Minus(db, gone) = DOMAIN db \ gone
           /\ \A j \in DOMAIN db \ gone : /\ Minus(db, gone)[j].org = db[j].org
                                          /\ Minus(db, gone)[j].active = db[j].active
  <1>1. ASSUME NEW j \in DOMAIN db \ gone
        PROVE  /\ Minus(db, gone)[j].org = db[j].org
               /\ Minus(db, gone)[j].active = db[j].active
    <2>1. db[j] \in Row /\ Minus(db, gone)[j] = Unlinked(db[j], gone)
      BY DEF Minus, Sound, Shaped
    <2> QED BY <2>1 DEF Unlinked, Row
  <1>2. DOMAIN Minus(db, gone) = DOMAIN db \ gone
    BY DEF Minus
  <1> QED BY <1>1, <1>2

\* What a step does to a row: it stays as it is where organisation and status are
\* concerned, but for a revocation; or it goes with its organisation, as a user, or
\* as a key.
LEMMA StepKeeps ==
    ASSUME Sound(db), DirNext
    PROVE  \A i \in DOMAIN db :
             \/ i \in DOMAIN db' /\ db'[i].org = db[i].org /\ (db'[i].active => db[i].active)
             \/ i \notin DOMAIN db' /\ (i \in Users \cup Keys \/ Home(db, i) \notin DOMAIN db')
  <1> SUFFICES ASSUME NEW i \in DOMAIN db
               PROVE \/ i \in DOMAIN db' /\ db'[i].org = db[i].org /\ (db'[i].active => db[i].active)
                     \/ i \notin DOMAIN db' /\ (i \in Users \cup Keys \/ Home(db, i) \notin DOMAIN db')
    OBVIOUS
  <1>0. db[i] \in Row /\ i \in Ids /\ db = [j \in DOMAIN db |-> db[j]] /\ Shaped(i, db[i])
    BY DEF Sound, Shaped
  <1>1. ASSUME NEW o \in Orgs, NEW s \in Slugs, AddOrg(o, s)
        PROVE i \in DOMAIN db' /\ db'[i] = db[i]
    BY <1>1 DEF AddOrg, Plus
  <1>2. ASSUME NEW u \in Users, NEW o \in Orgs, NEW r \in Roles, AddUser(u, o, r)
        PROVE i \in DOMAIN db' /\ db'[i] = db[i]
    BY <1>2 DEF AddUser, Plus
  <1>3. ASSUME NEW o \in Orgs, NEW s \in Slugs, NEW u \in Users, NEW r \in Roles,
               Found(o, s, u, r)
        PROVE i \in DOMAIN db' /\ db'[i] = db[i]
    BY <1>3 DEF Found, Plus
  <1>4. ASSUME NEW u \in Users, NEW r \in Roles, SetRole(u, r)
        PROVE i \in DOMAIN db' /\ db'[i].org = db[i].org /\ db'[i].active = db[i].active
    BY <1>0, <1>4 DEF SetRole, Row
  <1>5. ASSUME NEW u \in Users, RemoveUser(u)
        PROVE \/ i \in DOMAIN db' /\ db'[i].org = db[i].org /\ db'[i].active = db[i].active
              \/ i \notin DOMAIN db' /\ i \in Users \cup Keys
    BY <1>5, MinusKeeps DEF RemoveUser, KeysOf
  <1>6. ASSUME NEW o \in Orgs, RemoveOrg(o)
        PROVE \/ i \in DOMAIN db' /\ db'[i] = db[i]
              \/ i \notin DOMAIN db' /\ Home(db, i) \notin DOMAIN db'
    BY <1>6 DEF RemoveOrg, Home
  <1>7. ASSUME NEW k \in Keys, NEW u \in Users, NEW h \in Hashes, AddKey(k, u, h)
        PROVE i \in DOMAIN db' /\ db'[i] = db[i]
    BY <1>7 DEF AddKey, Plus
  <1>8. ASSUME NEW k \in Keys, NEW h \in Hashes, Rotate(k, h)
        PROVE i \in DOMAIN db' /\ db'[i].org = db[i].org /\ db'[i].active = db[i].active
    BY <1>0, <1>8 DEF Rotate, Row
  <1>9. ASSUME NEW k \in Keys, Revoke(k)
        PROVE i \in DOMAIN db' /\ db'[i].org = db[i].org /\ (db'[i].active => db[i].active)
    BY <1>0, <1>9 DEF Revoke, Row
  <1>10. ASSUME NEW k \in Keys, RemoveKey(k)
         PROVE \/ i \in DOMAIN db' /\ db'[i].org = db[i].org /\ db'[i].active = db[i].active
               \/ i \notin DOMAIN db' /\ i \in Users \cup Keys
    <2>1. db' = Minus(db, {k})
      BY <1>10 DEF RemoveKey
    <2>2. CASE i = k
      BY <2>1, <2>2, MinusKeeps
    <2>3. CASE i # k
      BY <2>1, <2>3, MinusKeeps
    <2> QED BY <2>2, <2>3
  <1>11. ASSUME NEW l \in Logs, NEW u \in Users, NEW k \in Keys \cup {None}, AddLog(l, u, k)
         PROVE i \in DOMAIN db' /\ db'[i] = db[i]
    BY <1>11 DEF AddLog, Plus
  <1> QED BY <1>1, <1>2, <1>3, <1>4, <1>5, <1>6, <1>7, <1>8, <1>9, <1>10, <1>11 DEF DirNext

(***************************************************************************)
(* What was used stays booked on the organisation as long as it exists,    *)
(* whoever is deleted.                                                     *)
(***************************************************************************)
THEOREM UsageStaysBooked == DirSpec => UsageLasts
  <1>1. Sound(db) /\ [DirNext]_db => [UsageKept]_db
    <2> SUFFICES ASSUME Sound(db), DirNext PROVE UsageKept
      OBVIOUS
    <2> SUFFICES ASSUME NEW l \in Logs \cap DOMAIN db
                 PROVE IF l \in DOMAIN db' THEN db'[l].org = db[l].org
                                           ELSE db[l].org \notin DOMAIN db'
      BY DEF UsageKept
    <2>1. l \notin Users \cup Keys /\ Home(db, l) = db[l].org
      BY Apart DEF Home
    <2> QED BY <2>1, StepKeeps
  <1> QED BY <1>1, AlwaysSound, PTL DEF DirSpec, UsageLasts

(***************************************************************************)
(* Nothing brings a revoked key back.                                      *)
(***************************************************************************)
THEOREM RevocationIsFinal == DirSpec => RevocationLasts
  <1>1. Sound(db) /\ [DirNext]_db => [RevokedStays]_db
    <2> SUFFICES ASSUME Sound(db), DirNext PROVE RevokedStays
      OBVIOUS
    <2> SUFFICES ASSUME NEW k \in Keys \cap DOMAIN db, ~db[k].active
                 PROVE k \notin DOMAIN db' \/ ~db'[k].active
      BY DEF RevokedStays
    <2> QED BY StepKeeps
  <1> QED BY <1>1, AlwaysSound, PTL DEF DirSpec, RevocationLasts
-----------------------------------------------------------------------------
(***************************************************************************)
(* Tenancy.  A request in flight has written w over the table t; e are the *)
(* ids that were ever used.                                                *)
(***************************************************************************)
Writes == UNION {[S -> Row \cup {None}] : S \in SUBSET Ids}
Tx == [op : Ops, at : Stages, home : Orgs \cup {None}, user : Users \cup {None},
       on : Ids \cup {None}, slug : Slugs \cup {None}, role : Roles \cup {None},
       keys : SUBSET Keys, w : Writes]

\* Row b is what updates have made of row a.
Later(a, b) ==
    /\ b.org = a.org /\ b.slug = a.slug
    /\ b.user \in {a.user, None} /\ b.key \in {a.key, None}
    /\ b.active => a.active

\* What is written fits the row it is written over; a new row has a new id.
Fits(t, e, w) ==
    \A i \in DOMAIN w :
        /\ i \notin DOMAIN t => w[i] # None /\ i \notin e
        /\ w[i] # None => Shaped(i, w[i])
        /\ w[i] # None /\ i \in DOMAIN t => Later(t[i], w[i]) /\ i \notin Orgs
\* Nothing refers to a row that is not there.
Whole(v) == \A i \in DOMAIN v : Refs(v[i]) \subseteq DOMAIN v
\* The slug of a new organisation is new.
NewSlugs(t, w) ==
    \A o \in Orgs \cap DOMAIN w : w[o] # None => ~SlugTaken(t, w[o].slug)
Consistent(t, e, w) == Fits(t, e, w) /\ Whole(Overlay(t, w)) /\ NewSlugs(t, w)

\* Two requests write different rows; nothing that one writes refers to what the
\* other deletes, and they do not bring organisations of the same slug.
Separate(v, w) ==
    /\ DOMAIN v \cap DOMAIN w = {}
    /\ \A i \in DOMAIN v : v[i] # None =>
         /\ \A j \in Refs(v[i]) \cap DOMAIN w : w[j] # None
         /\ i \in Orgs => \A o \in Orgs \cap DOMAIN w : w[o] # None => w[o].slug # v[i].slug

\* The writes w and then those of one more statement.
Put(w, new) == [i \in DOMAIN w \cup DOMAIN new |-> IF i \in DOMAIN new THEN new[i] ELSE w[i]]

LEMMA Overlaid ==
    ASSUME NEW t, NEW w
    PROVE  /\ \A j : j \in DOMAIN Overlay(t, w) <=>
                      (j \in DOMAIN w /\ w[j] # None) \/ (j \in DOMAIN t /\ j \notin DOMAIN w)
           /\ \A i \in DOMAIN w : w[i] # None => Overlay(t, w)[i] = w[i]
           /\ \A i \in DOMAIN t : i \notin DOMAIN w => Overlay(t, w)[i] = t[i]
           /\ Overlay(t, w) = [i \in DOMAIN Overlay(t, w) |-> Overlay(t, w)[i]]
  BY DEF Overlay

LEMMA WritesAre ==
    ASSUME NEW w \in Writes
    PROVE  /\ DOMAIN w \subseteq Ids /\ \A i \in DOMAIN w : w[i] \in Row \cup {None}
           /\ w = [i \in DOMAIN w |-> w[i]]
  BY DEF Writes

LEMMA AreWrites ==
    ASSUME NEW w, DOMAIN w \subseteq Ids, \A i \in DOMAIN w : w[i] \in Row \cup {None},
           w = [i \in DOMAIN w |-> w[i]]
    PROVE  w \in Writes
  <1>1. w \in [DOMAIN w -> Row \cup {None}]
    OBVIOUS
  <1> QED BY <1>1 DEF Writes

LEMMA PutIsWrites ==
    ASSUME NEW w \in Writes, NEW new \in Writes
    PROVE  Put(w, new) \in Writes
  <1>1. /\ DOMAIN Put(w, new) \subseteq Ids
        /\ \A i \in DOMAIN Put(w, new) : Put(w, new)[i] \in Row \cup {None}
        /\ Put(w, new) = [i \in DOMAIN Put(w, new) |-> Put(w, new)[i]]
    BY WritesAre DEF Put
  <1> QED BY <1>1, AreWrites

\* Updates clear references and add none.
LEMMA LaterRefs ==
    ASSUME NEW a, NEW b, Later(a, b)
    PROVE  Refs(b) \subseteq Refs(a)
  BY DEF Later, Refs

LEMMA LaterLater ==
    ASSUME NEW a, NEW b, NEW c, Later(a, b), Later(b, c)
    PROVE  Later(a, c)
  BY DEF Later

LEMMA InsertFits ==
    ASSUME NEW t, NEW e, NEW w, Consistent(t, e, w),
           NEW i \in Ids, i \notin DOMAIN t, i \notin e, i \notin DOMAIN w,
           NEW r, Shaped(i, r), Refs(r) \subseteq DOMAIN Overlay(t, w),
           i \in Orgs => ~SlugTaken(t, r.slug),
           NEW new, DOMAIN new = {i}, new[i] = r
    PROVE  Consistent(t, e, Put(w, new))
  <1> DEFINE v == Put(w, new)
  <1>1. /\ DOMAIN v = DOMAIN w \cup {i} /\ v[i] = r
        /\ \A j \in DOMAIN w : v[j] = w[j]
    BY DEF Put
  <1>2. r # None
    BY TenancyAssumption DEF Shaped
  <1> HIDE DEF v
  <1>3. Fits(t, e, v)
    BY <1>1, <1>2 DEF Fits, Consistent
  <1>4. /\ DOMAIN Overlay(t, v) = DOMAIN Overlay(t, w) \cup {i} /\ Overlay(t, v)[i] = r
        /\ \A j \in DOMAIN Overlay(t, w) : Overlay(t, v)[j] = Overlay(t, w)[j]
    <2>1. ASSUME NEW j PROVE j \in DOMAIN Overlay(t, v) <=> j \in DOMAIN Overlay(t, w) \cup {i}
      BY <1>1, <1>2, Overlaid
    <2>2. \A j \in DOMAIN Overlay(t, w) : Overlay(t, v)[j] = Overlay(t, w)[j]
      BY <1>1, Overlaid
    <2>3. Overlay(t, v)[i] = r
      BY <1>1, <1>2, Overlaid
    <2> QED BY <2>1, <2>2, <2>3
  <1>5. Whole(Overlay(t, v))
    BY <1>4 DEF Whole, Consistent
  <1>6. NewSlugs(t, v)
    BY <1>1 DEF NewSlugs, Consistent
  <1>7. Consistent(t, e, v)
    BY <1>3, <1>5, <1>6 DEF Consistent
  <1> QED BY <1>7 DEF v

LEMMA UpdateFits ==
    ASSUME NEW t, NEW e, NEW w, Consistent(t, e, w),
           NEW new, DOMAIN new \subseteq DOMAIN Overlay(t, w), Orgs \cap DOMAIN new = {},
           \A i \in DOMAIN new : Shaped(i, new[i]) /\ Later(Overlay(t, w)[i], new[i])
    PROVE  Consistent(t, e, Put(w, new))
  <1> DEFINE v == Put(w, new)
  <1>1. /\ DOMAIN v = DOMAIN w \cup DOMAIN new
        /\ \A j \in DOMAIN v : v[j] = IF j \in DOMAIN new THEN new[j] ELSE w[j]
    BY DEF Put
  <1>2. \A i \in DOMAIN new : new[i] # None
    BY TenancyAssumption DEF Shaped
  <1> HIDE DEF v
  <1>3. Fits(t, e, v)
    <2> SUFFICES ASSUME NEW i \in DOMAIN v
                 PROVE  /\ i \notin DOMAIN t => v[i] # None /\ i \notin e
                        /\ v[i] # None => Shaped(i, v[i])
                        /\ v[i] # None /\ i \in DOMAIN t => Later(t[i], v[i]) /\ i \notin Orgs
      BY DEF Fits
    <2>1. CASE i \notin DOMAIN new
      BY <1>1, <2>1 DEF Fits, Consistent
    <2>2. CASE i \in DOMAIN new
      <3>1. v[i] = new[i] /\ new[i] # None /\ Shaped(i, new[i]) /\ i \notin Orgs
        BY <1>1, <1>2, <2>2
      <3>2. CASE i \in DOMAIN w
        <4>1. Overlay(t, w)[i] = w[i] /\ w[i] # None
          BY <2>2, <3>2, Overlaid
        <4>2. i \in DOMAIN t => Later(t[i], w[i])
          BY <3>2, <4>1 DEF Fits, Consistent
        <4>3. Later(w[i], new[i])
          BY <2>2, <4>1
        <4>4. i \notin DOMAIN t => i \notin e
          BY <3>2 DEF Fits, Consistent
        <4> QED BY <3>1, <4>2, <4>3, <4>4, LaterLater
      <3>3. CASE i \notin DOMAIN w
        <4>1. i \in DOMAIN t /\ Overlay(t, w)[i] = t[i]
          BY <2>2, <3>3, Overlaid
        <4> QED BY <2>2, <3>1, <4>1
      <3> QED BY <3>2, <3>3
    <2> QED BY <2>1, <2>2
  <1>4. /\ DOMAIN Overlay(t, v) = DOMAIN Overlay(t, w)
        /\ \A j \in DOMAIN Overlay(t, w) :
             Overlay(t, v)[j] = IF j \in DOMAIN new THEN new[j] ELSE Overlay(t, w)[j]
    <2>1. DOMAIN Overlay(t, v) = DOMAIN Overlay(t, w)
      BY <1>1, <1>2, Overlaid
    <2> QED BY <2>1, <1>1, Overlaid
  <1>5. Whole(Overlay(t, v))
    BY <1>4, LaterRefs DEF Whole, Consistent
  <1>6. NewSlugs(t, v)
    BY <1>1 DEF NewSlugs, Consistent
  <1>7. Consistent(t, e, v)
    BY <1>3, <1>5, <1>6 DEF Consistent
  <1> QED BY <1>7 DEF v

LEMMA DeleteFits ==
    ASSUME NEW t, NEW e, NEW w, Consistent(t, e, w),
           NEW rows, rows \subseteq DOMAIN Overlay(t, w) \cap DOMAIN t,
           \A j \in DOMAIN Overlay(t, w) \ rows : Refs(Overlay(t, w)[j]) \cap rows = {}
    PROVE  Consistent(t, e, Put(w, [i \in rows |-> None]))
  <1> DEFINE v == Put(w, [i \in rows |-> None])
  <1>1. /\ DOMAIN v = DOMAIN w \cup rows
        /\ \A j \in DOMAIN v : v[j] = IF j \in rows THEN None ELSE w[j]
    BY DEF Put
  <1> HIDE DEF v
  <1>3. Fits(t, e, v)
    BY <1>1 DEF Fits, Consistent
  <1>4. /\ DOMAIN Overlay(t, v) = DOMAIN Overlay(t, w) \ rows
        /\ \A j \in DOMAIN Overlay(t, w) \ rows : Overlay(t, v)[j] = Overlay(t, w)[j]
    <2>1. ASSUME NEW j PROVE j \in DOMAIN Overlay(t, v) <=> j \in DOMAIN Overlay(t, w) \ rows
      BY <1>1, Overlaid
    <2> QED BY <2>1, <1>1, Overlaid
  <1>5. Whole(Overlay(t, v))
    BY <1>4 DEF Whole, Consistent
  <1>6. NewSlugs(t, v)
    BY <1>1 DEF NewSlugs, Consistent
  <1>7. Consistent(t, e, v)
    BY <1>3, <1>5, <1>6 DEF Consistent
  <1> QED BY <1>7 DEF v

\* What one statement writes stays apart from what another request, v, has written.
LEMMA InsertSeparate ==
    ASSUME NEW w, NEW v, Separate(w, v), Separate(v, w),
           NEW i, i \notin DOMAIN w, i \notin DOMAIN v, NEW r, r # None,
           \A j \in Refs(r) \cap DOMAIN v : v[j] # None,
           i \in Orgs => \A o \in Orgs \cap DOMAIN v : v[o] # None => v[o].slug # r.slug,
           NEW new, DOMAIN new = {i}, new[i] = r
    PROVE  Separate(Put(w, new), v) /\ Separate(v, Put(w, new))
  <1> DEFINE u == Put(w, new)
  <1>1. /\ DOMAIN u = DOMAIN w \cup {i} /\ u[i] = r
        /\ \A j \in DOMAIN w : u[j] = w[j]
    BY DEF Put
  <1> HIDE DEF u
  <1>2. Separate(u, v)
    BY <1>1 DEF Separate
  <1>3. Separate(v, u)
    BY <1>1 DEF Separate
  <1>4. Separate(u, v) /\ Separate(v, u)
    BY <1>2, <1>3
  <1> QED BY <1>4 DEF u

LEMMA UpdateSeparate ==
    ASSUME NEW t, NEW e, NEW w, NEW v, Separate(w, v), Separate(v, w), Consistent(t, e, v),
           NEW new, DOMAIN new \subseteq DOMAIN Overlay(t, w), Orgs \cap DOMAIN new = {},
           \A i \in DOMAIN new : new[i] # None /\ Later(Overlay(t, w)[i], new[i]),
           DOMAIN new \cap DOMAIN v = {}
    PROVE  Separate(Put(w, new), v) /\ Separate(v, Put(w, new))
  <1> DEFINE u == Put(w, new)
  <1>1. /\ DOMAIN u = DOMAIN w \cup DOMAIN new
        /\ \A j \in DOMAIN u : u[j] = IF j \in DOMAIN new THEN new[j] ELSE w[j]
    BY DEF Put
  <1>2. ASSUME NEW i \in DOMAIN new, NEW j \in Refs(new[i]) \cap DOMAIN v PROVE v[j] # None
    <2>1. j \in Refs(Overlay(t, w)[i])
      BY <1>2, LaterRefs
    <2>2. CASE i \in DOMAIN w
      <3>1. w[i] # None /\ Overlay(t, w)[i] = w[i]
        BY <2>2, Overlaid
      <3> QED BY <2>1, <2>2, <3>1 DEF Separate
    <2>3. CASE i \notin DOMAIN w
      <3>1. i \in DOMAIN t /\ i \notin DOMAIN v /\ Overlay(t, w)[i] = t[i]
        BY <2>3, Overlaid
      <3>2. i \in DOMAIN Overlay(t, v) /\ Overlay(t, v)[i] = t[i]
        BY <3>1, Overlaid
      <3>3. j \in DOMAIN Overlay(t, v)
        BY <2>1, <3>1, <3>2 DEF Consistent, Whole
      <3> QED BY <3>3, Overlaid
    <2> QED BY <2>2, <2>3
  <1> HIDE DEF u
  <1>3. Separate(u, v)
    BY <1>1, <1>2 DEF Separate
  <1>4. Separate(v, u)
    BY <1>1 DEF Separate
  <1>5. Separate(u, v) /\ Separate(v, u)
    BY <1>3, <1>4
  <1> QED BY <1>5 DEF u

LEMMA DeleteSeparate ==
    ASSUME NEW w, NEW v, Separate(w, v), Separate(v, w),
           NEW rows, rows \cap DOMAIN v = {},
           \A i \in DOMAIN v : v[i] # None => Refs(v[i]) \cap rows = {}
    PROVE  LET u == Put(w, [i \in rows |-> None]) IN Separate(u, v) /\ Separate(v, u)
  <1> DEFINE u == Put(w, [i \in rows |-> None])
  <1>1. /\ DOMAIN u = DOMAIN w \cup rows
        /\ \A j \in DOMAIN u : u[j] = IF j \in rows THEN None ELSE w[j]
    BY DEF Put
  <1> HIDE DEF u
  <1>2. Separate(u, v)
    BY <1>1 DEF Separate
  <1>3. Separate(v, u)
    BY <1>1 DEF Separate
  <1>4. Separate(u, v) /\ Separate(v, u)
    BY <1>2, <1>3
  <1> QED BY <1>4 DEF u

\* A request commits w; another has written v.
LEMMA CommitFits ==
    ASSUME NEW t, NEW e, NEW v, NEW w, Separate(w, v), Separate(v, w), Whole(t),
           Consistent(t, e, v), Consistent(t, e, w),
           NEW u, u = Overlay(t, w)
    PROVE  Consistent(u, e \cup DOMAIN u, v)
  <1>1. Fits(u, e \cup DOMAIN u, v)
    BY Overlaid DEF Fits, Consistent, Separate
  <1>2. Whole(Overlay(u, v))
    <2> SUFFICES ASSUME NEW i \in DOMAIN Overlay(u, v), NEW j \in Refs(Overlay(u, v)[i])
                 PROVE  j \in DOMAIN Overlay(u, v)
      BY DEF Whole
    <2>1. CASE i \in DOMAIN v
      <3>1. v[i] # None /\ Overlay(u, v)[i] = v[i] /\ i \in DOMAIN Overlay(t, v) /\ Overlay(t, v)[i] = v[i]
        BY <2>1, Overlaid
      <3>2. j \in DOMAIN Overlay(t, v)
        BY <3>1 DEF Consistent, Whole
      <3>3. j \in DOMAIN w => w[j] # None
        BY <2>1, <3>1 DEF Separate
      <3> QED BY <3>2, <3>3, Overlaid
    <2>2. CASE i \notin DOMAIN v
      <3>1. i \in DOMAIN u /\ Overlay(u, v)[i] = u[i]
        BY <2>2, Overlaid
      <3>2. j \in DOMAIN u
        BY <3>1 DEF Consistent, Whole
      <3>3. j \in DOMAIN v => v[j] # None
        <4>1. CASE i \in DOMAIN w
          <5>1. w[i] # None /\ u[i] = w[i]
            BY <3>1, <4>1, Overlaid
          <5> QED BY <3>1, <4>1, <5>1 DEF Separate
        <4>2. CASE i \notin DOMAIN w
          <5>1. i \in DOMAIN t /\ u[i] = t[i]
            BY <3>1, <4>2, Overlaid
          <5>2. i \in DOMAIN Overlay(t, v) /\ Overlay(t, v)[i] = t[i]
            BY <2>2, <5>1, Overlaid
          <5>3. j \in DOMAIN Overlay(t, v)
            BY <3>1, <5>1, <5>2 DEF Consistent, Whole
          <5> QED BY <5>3, Overlaid
        <4> QED BY <4>1, <4>2
      <3> QED BY <3>2, <3>3, Overlaid
    <2> QED BY <2>1, <2>2
  <1>3. NewSlugs(u, v)
    <2> SUFFICES ASSUME NEW o \in Orgs \cap DOMAIN v, v[o] # None,
                        NEW p \in Orgs \cap DOMAIN u, u[p].slug = v[o].slug
                 PROVE  FALSE
      BY DEF NewSlugs, SlugTaken
    <2>1. CASE p \in DOMAIN w
      <3>1. w[p] # None /\ u[p] = w[p]
        BY <2>1, Overlaid
      <3> QED BY <2>1, <3>1 DEF Separate
    <2>2. CASE p \notin DOMAIN w
      <3>1. p \in DOMAIN t /\ u[p] = t[p]
        BY <2>2, Overlaid
      <3> QED BY <3>1 DEF Consistent, NewSlugs, SlugTaken
    <2> QED BY <2>1, <2>2
  <1> QED BY <1>1, <1>2, <1>3 DEF Consistent

-----------------------------------------------------------------------------
(***************************************************************************)
(* What a request x has written when it is at a stage: over the table t,   *)
(* where e are the ids ever used and c the identities that tokens claim.   *)
(***************************************************************************)
\* create_user, and what brings an organisation of its own: its rows are new.
Founding(t, x) ==
    /\ x.at \in {"addOrg", "addUser", "commit"}
    /\ x.at = "addOrg" =>
         DOMAIN x.w = {} /\ x.slug \in Slugs /\ x.home = None /\ x.op # "create_user"
    /\ x.at # "addOrg" => x.on \in Orgs /\ (x.home # None => x.on = x.home)
    /\ x.at = "addUser" => DOMAIN x.w \subseteq {x.on} /\ x.op # "create_org"
    /\ x.at # "addOrg" /\ x.op # "create_org" => x.role \in Roles
    /\ x.at = "commit" =>
         IF x.op = "create_org" THEN DOMAIN x.w = {x.on}
         ELSE \E u \in Users : u \in DOMAIN x.w /\ DOMAIN x.w \subseteq {u, x.on}
    /\ \A i \in DOMAIN x.w :
         i \notin DOMAIN t /\ x.w[i] = IF i \in Orgs THEN OrgRow(x.slug) ELSE UserRow(x.on, x.role)
    /\ Orgs \cap DOMAIN x.w # {} => x.slug \in Slugs
    /\ x.op \in SignUps => x.role = "viewer" \/ x.on \in DOMAIN x.w

\* The row that was looked up is of the organisation that the caller is kept to.
Kept(t, e, x) == x.on \in e /\ (x.home # None /\ x.on \in DOMAIN t => t[x.on].org = x.home)

\* A change of one row, r is what it becomes: written by the only statement.
Edited(t, x, r) == x.on \in DOMAIN t /\ DOMAIN x.w = {x.on} /\ x.w[x.on] = r

SettingRole(t, e, x) ==
    /\ x.at \in {"setRole", "commit"} /\ Kept(t, e, x) /\ x.on \in Users /\ x.role \in Roles
    /\ x.at = "setRole" => DOMAIN x.w = {}
    /\ x.at = "commit" => Edited(t, x, [t[x.on] EXCEPT !.role = x.role])

Rotating(t, e, x) ==
    /\ x.at \in {"rotate", "commit"} /\ Kept(t, e, x) /\ x.on \in Keys
    /\ x.at = "rotate" => DOMAIN x.w = {}
    /\ x.at = "commit" => \E h \in Hashes : Edited(t, x, [t[x.on] EXCEPT !.hash = h])

Deactivating(t, e, x) ==
    /\ x.at \in {"deactivate", "commit"} /\ Kept(t, e, x) /\ x.on \in Keys
    /\ x.at = "deactivate" => DOMAIN x.w = {}
    /\ x.at = "commit" => Edited(t, x, [t[x.on] EXCEPT !.active = FALSE])

\* A usage row of a, cleared of references to what x deletes, is b.
Unlogged(x, a, b) ==
    /\ a.user = x.on \/ a.key \in x.keys \cup {x.on}
    /\ b = [a EXCEPT !.user = b.user, !.key = b.key]
    /\ b.user = a.user \/ (b.user = None /\ a.user = x.on)
    /\ b.key = a.key \/ (b.key = None /\ a.key \in x.keys \cup {x.on})

\* delete_user, and revoke_api_key of a revoked key: usage rows are cleared, the row
\* and the keys of the user are deleted.
Removing(t, e, x) ==
    /\ Kept(t, e, x) /\ x.keys \subseteq e
    /\ \A k \in x.keys \cap DOMAIN t : t[k].user = x.on
    /\ \A i \in DOMAIN x.w :
         /\ i \in DOMAIN t
         /\ \/ x.w[i] = None /\ (i = x.on \/ (i \in Keys /\ t[i].user = x.on))
            \/ x.w[i] # None /\ i \in Logs /\ Unlogged(x, t[i], x.w[i])
    /\ x.at = "commit" /\ x.on \in DOMAIN t => x.on \in DOMAIN x.w

RemovingUser(t, e, x) ==
    /\ x.at \in {"unlogUser", "pickKeys", "unlogKeys", "dropKeys", "dropUser", "commit"}
    /\ x.on \in Users /\ Removing(t, e, x)
    /\ x.at \in {"unlogUser", "pickKeys"} => x.keys = {}

RemovingKey(t, e, x) ==
    /\ x.at \in {"unlogKeys", "dropKey", "commit"}
    /\ x.on \in Keys /\ x.keys = {} /\ Removing(t, e, x)
    /\ x.on \in DOMAIN t => ~t[x.on].active

RemovingOrg(t, e, x) ==
    /\ x.at \in {"dropLogs", "dropOrgKeys", "dropOrgUsers", "dropOrg", "commit"}
    /\ x.on \in Orgs \cap e /\ x.home = None
    /\ \A i \in DOMAIN x.w : i \in DOMAIN t /\ x.w[i] = None /\ Home(t, i) = x.on
    /\ x.at = "commit" /\ x.on \in DOMAIN t => x.on \in DOMAIN x.w

\* The user and the organisation that a new row names are those of a token.
Known(c, x) == \E d \in c : d.user = x.user /\ d.org = x.home

AddingKey(t, c, x) ==
    /\ x.at \in {"addKey", "commit"} /\ Known(c, x)
    /\ x.at = "addKey" => DOMAIN x.w = {}
    /\ x.at = "commit" => \E k \in Keys \ DOMAIN t, h \in Hashes :
         DOMAIN x.w = {k} /\ x.w[k] = KeyRow(x.home, x.user, h)

Booking(t, e, c, x) ==
    /\ x.at \in {"known", "commit"} /\ Known(c, x)
    /\ x.on # None => x.on \in Keys \cap e /\ (x.on \in DOMAIN t => t[x.on].user = x.user)
    /\ x.at = "known" => DOMAIN x.w = {}
    /\ x.at = "commit" => \E l \in Logs \ DOMAIN t :
         DOMAIN x.w = {l} /\ x.w[l] = LogRow(x.home, x.user, x.on)

Task(t, e, c, x) ==
    \/ x = Idle
    \/ x.op \in SignUps \cup {"create_org", "create_user"} /\ Founding(t, x)
    \/ x.op = "update_user" /\ SettingRole(t, e, x)
    \/ x.op = "rotate_api_key" /\ Rotating(t, e, x)
    \/ x.op = "revoke_api_key" /\ Deactivating(t, e, x)
    \/ x.op = "revoke_api_key" /\ RemovingKey(t, e, x)
    \/ x.op = "delete_user" /\ RemovingUser(t, e, x)
    \/ x.op = "delete_org" /\ RemovingOrg(t, e, x)
    \/ x.op = "create_api_key" /\ AddingKey(t, c, x)
    \/ x.op = "chat_completions" /\ Booking(t, e, c, x)

\* From table t to table u, rows with an id of e were updated or deleted.
Onward(e, t, u) ==
    \A i \in e \cap DOMAIN u : i \in DOMAIN t /\ Later(t[i], u[i]) /\ Shaped(i, t[i]) /\ Shaped(i, u[i])

\* The rows that w writes are in u what they are in t.
Untouched(w, t, u) ==
    \A i \in DOMAIN w : (i \in DOMAIN u <=> i \in DOMAIN t) /\ (i \in DOMAIN t => u[i] = t[i])

\* The task of a request is not disturbed by what others commit.
LEMMA TaskGoesOn ==
    ASSUME NEW x, NEW t, NEW u, NEW e, NEW f, NEW c, NEW d, e \subseteq f, c \subseteq d,
           Onward(e, t, u), Untouched(x.w, t, u), x.keys \subseteq Keys, Task(t, e, c, x)
    PROVE  Task(u, f, d, x)
  <1>0. ASSUME Kept(t, e, x) PROVE Kept(u, f, x)
    BY <1>0 DEF Kept, Onward, Later
  <1>1. CASE x = Idle
    BY <1>1 DEF Task
  <1>2. CASE x.op \in SignUps \cup {"create_org", "create_user"} /\ Founding(t, x)
    BY <1>2 DEF Task, Founding, Untouched
  <1>3. CASE x.op = "update_user" /\ SettingRole(t, e, x)
    BY <1>0, <1>3 DEF Task, SettingRole, Edited, Untouched
  <1>4. CASE x.op = "rotate_api_key" /\ Rotating(t, e, x)
    BY <1>0, <1>4 DEF Task, Rotating, Edited, Untouched
  <1>5. CASE x.op = "revoke_api_key" /\ Deactivating(t, e, x)
    BY <1>0, <1>5 DEF Task, Deactivating, Edited, Untouched
  <1>6. ASSUME Removing(t, e, x) PROVE Removing(u, f, x)
    <2>1. \A k \in x.keys \cap DOMAIN u : u[k].user = x.on
      <3> SUFFICES ASSUME NEW k \in x.keys \cap DOMAIN u PROVE u[k].user = x.on
        OBVIOUS
      <3>1. k \in e /\ k \in DOMAIN t /\ t[k].user = x.on /\ Later(t[k], u[k]) /\ Shaped(k, u[k])
        BY <1>6 DEF Removing, Onward
      <3> QED BY <3>1, Apart DEF Later, Shaped
    <2>2. x.at = "commit" /\ x.on \in DOMAIN u => x.on \in DOMAIN x.w
      BY <1>6 DEF Removing, Kept, Onward
    <2>3. \A i \in DOMAIN x.w :
            /\ i \in DOMAIN u
            /\ \/ x.w[i] = None /\ (i = x.on \/ (i \in Keys /\ u[i].user = x.on))
               \/ x.w[i] # None /\ i \in Logs /\ Unlogged(x, u[i], x.w[i])
      BY <1>6 DEF Removing, Untouched
    <2> QED BY <1>0, <1>6, <2>1, <2>2, <2>3 DEF Removing
  <1>7. CASE x.op = "revoke_api_key" /\ RemovingKey(t, e, x)
    <2>1. x.on \in DOMAIN u => ~u[x.on].active
      BY <1>7 DEF RemovingKey, Removing, Kept, Onward, Later
    <2> QED BY <1>6, <1>7, <2>1 DEF Task, RemovingKey
  <1>8. CASE x.op = "delete_user" /\ RemovingUser(t, e, x)
    BY <1>6, <1>8 DEF Task, RemovingUser
  <1>9. CASE x.op = "delete_org" /\ RemovingOrg(t, e, x)
    BY <1>9 DEF Task, RemovingOrg, Untouched, Onward, Home
  <1>10. CASE x.op = "create_api_key" /\ AddingKey(t, c, x)
    BY <1>10 DEF Task, AddingKey, Known, Untouched
  <1>11. CASE x.op = "chat_completions" /\ Booking(t, e, c, x)
    <2>1. x.on # None /\ x.on \in DOMAIN u => u[x.on].user = x.user
      <3> SUFFICES ASSUME x.on # None, x.on \in DOMAIN u PROVE u[x.on].user = x.user
        OBVIOUS
      <3>1. x.on \in Keys \cap e /\ x.on \in DOMAIN t /\ Later(t[x.on], u[x.on]) /\ Shaped(x.on, u[x.on])
        BY <1>11 DEF Booking, Onward
      <3>2. u[x.on].user # None
        BY <3>1, Apart DEF Shaped
      <3> QED BY <1>11, <3>1, <3>2 DEF Booking, Later
    <2> QED BY <1>11, <2>1 DEF Task, Booking, Known, Untouched
  <1> QED BY <1>1, <1>2, <1>3, <1>4, <1>5, <1>7, <1>8, <1>9, <1>10, <1>11 DEF Task

-----------------------------------------------------------------------------
(***************************************************************************)
(* The commit of a request is one operation of Directory.                  *)
(***************************************************************************)
LEMMA SameFunction ==
    ASSUME NEW f, NEW g, f = [i \in DOMAIN f |-> f[i]], g = [i \in DOMAIN g |-> g[i]],
           \A i : i \in DOMAIN f <=> i \in DOMAIN g, \A i \in DOMAIN f : f[i] = g[i]
    PROVE  f = g
  <1>1. DOMAIN f = DOMAIN g
    OBVIOUS
  <1> QED BY <1>1

\* One new row
LEMMA OverlayOfOne ==
    ASSUME NEW t, NEW w, NEW i, DOMAIN w = {i}, i \notin DOMAIN t, w[i] # None
    PROVE  Overlay(t, w) = Plus(t, i, w[i])
  <1> DEFINE u == Overlay(t, w)
             v == Plus(t, i, w[i])
  <1>1. /\ DOMAIN v = DOMAIN t \cup {i} /\ v[i] = w[i]
        /\ \A j \in DOMAIN t : v[j] = t[j]
        /\ v = [j \in DOMAIN v |-> v[j]]
    BY DEF Plus
  <1>2. /\ \A j : j \in DOMAIN u <=> j = i \/ j \in DOMAIN t
        /\ u[i] = w[i] /\ \A j \in DOMAIN t : u[j] = t[j]
        /\ u = [j \in DOMAIN u |-> u[j]]
    BY Overlaid
  <1> HIDE DEF u, v
  <1>3. u = v
    BY <1>1, <1>2, SameFunction
  <1> QED BY <1>3 DEF u, v

LEMMA CommitOfFounding ==
    ASSUME NEW x, NEW e, Founding(db, x), x.at = "commit", Consistent(db, e, x.w),
           db' = Overlay(db, x.w)
    PROVE  DirNext
  <1>0. db' = [i \in DOMAIN db' |-> db'[i]]
    BY Overlaid
  <1>1. /\ x.on \in Orgs
        /\ \A i \in DOMAIN x.w : /\ i \notin DOMAIN db /\ x.w[i] # None
                                 /\ x.w[i] = IF i \in Orgs THEN OrgRow(x.slug) ELSE UserRow(x.on, x.role)
    BY DEF Founding, Consistent, Fits
  <1>2. x.on \in DOMAIN x.w => x.slug \in Slugs /\ \A p \in Orgs \cap DOMAIN db : db[p].slug # x.slug
    <2>1. OrgRow(x.slug).slug = x.slug
      BY DEF OrgRow
    <2> QED BY <1>1, <2>1 DEF Founding, Consistent, NewSlugs, SlugTaken
  <1>3. CASE x.op = "create_org"
    <2>1. DOMAIN x.w = {x.on} /\ x.w[x.on] = OrgRow(x.slug)
      BY <1>1, <1>3 DEF Founding
    <2>2. db' = Plus(db, x.on, OrgRow(x.slug))
      BY <1>1, <2>1, OverlayOfOne
    <2>3. AddOrg(x.on, x.slug)
      BY <1>1, <1>2, <2>1, <2>2 DEF AddOrg
    <2> QED BY <1>1, <1>2, <2>1, <2>3 DEF DirNext
  <1>4. CASE x.op # "create_org"
    <2>1. PICK u \in Users : u \in DOMAIN x.w /\ DOMAIN x.w \subseteq {u, x.on}
      BY <1>4 DEF Founding
    <2>2. u # x.on /\ u \notin Orgs /\ x.w[u] = UserRow(x.on, x.role) /\ x.role \in Roles
      <3>1. u \notin Orgs
        BY Apart
      <3>2. x.role \in Roles
        BY <1>4 DEF Founding
      <3> QED BY <1>1, <2>1, <3>1, <3>2
    <2>3. CASE x.on \in DOMAIN x.w
      <3> DEFINE v == Plus(Plus(db, x.on, OrgRow(x.slug)), u, UserRow(x.on, x.role))
      <3>1. /\ DOMAIN v = DOMAIN db \cup {x.on, u}
            /\ v[x.on] = OrgRow(x.slug) /\ v[u] = UserRow(x.on, x.role)
            /\ \A i \in DOMAIN db : i \notin {x.on, u} => v[i] = db[i]
            /\ v = [i \in DOMAIN v |-> v[i]]
        BY <2>2 DEF Plus
      <3> HIDE DEF v
      <3>2. \A i : i \in DOMAIN db' <=> i \in DOMAIN v
        BY <1>1, <2>1, <2>3, <3>1, Overlaid
      <3>3. \A i \in DOMAIN db' : db'[i] = v[i]
        BY <1>1, <2>1, <2>2, <2>3, <3>1, <3>2, Overlaid
      <3>4. db' = v
        BY <1>0, <3>1, <3>2, <3>3, SameFunction
      <3>5. Found(x.on, x.slug, u, x.role)
        BY <1>1, <1>2, <2>1, <2>3, <3>4 DEF Found, v
      <3> QED BY <1>1, <1>2, <2>2, <2>3, <3>5 DEF DirNext
    <2>4. CASE x.on \notin DOMAIN x.w
      <3>4. db' = Plus(db, u, UserRow(x.on, x.role))
        <4>1. DOMAIN x.w = {u}
          BY <2>1, <2>4
        <4> QED BY <1>1, <2>1, <2>2, <4>1, OverlayOfOne
      <3>5. x.on \in Refs(UserRow(x.on, x.role))
        BY <1>1, Apart DEF Refs, UserRow
      <3>6. u \in DOMAIN Overlay(db, x.w) /\ Overlay(db, x.w)[u] = UserRow(x.on, x.role)
        BY <1>1, <2>1, <2>2, Overlaid
      <3>7. x.on \in DOMAIN Overlay(db, x.w)
        BY <3>5, <3>6 DEF Consistent, Whole
      <3>8. x.on \in DOMAIN db
        BY <2>4, <3>7, Overlaid
      <3>9. AddUser(u, x.on, x.role)
        BY <1>1, <2>1, <3>4, <3>8 DEF AddUser
      <3> QED BY <1>1, <2>2, <3>9 DEF DirNext
    <2> QED BY <2>3, <2>4
  <1> QED BY <1>3, <1>4

\* A change of one row
LEMMA CommitOfEdit ==
    ASSUME Sound(db), NEW x, NEW r, r # None, Edited(db, x, r), db' = Overlay(db, x.w)
    PROVE  x.on \in DOMAIN db /\ db' = [db EXCEPT ![x.on] = r]
  <1> DEFINE v == [db EXCEPT ![x.on] = r]
  <1>1. x.on \in DOMAIN db /\ DOMAIN x.w = {x.on} /\ x.w[x.on] = r
    BY DEF Edited
  <1>2. /\ DOMAIN v = DOMAIN db /\ v[x.on] = r /\ \A i \in DOMAIN db : i # x.on => v[i] = db[i]
        /\ v = [i \in DOMAIN v |-> v[i]]
    BY <1>1
  <1> HIDE DEF v
  <1>3. \A i : i \in DOMAIN db' <=> i \in DOMAIN v
    BY <1>1, <1>2, Overlaid
  <1>4. \A i \in DOMAIN db' : db'[i] = v[i]
    BY <1>1, <1>2, <1>3, Overlaid
  <1>5. db' = v
    BY <1>2, <1>3, <1>4, SameFunction, Overlaid
  <1> QED BY <1>1, <1>5 DEF v

LEMMA CommitOfChange ==
    ASSUME Sound(db), NEW x, NEW e, x.at = "commit", db' = Overlay(db, x.w),
           SettingRole(db, e, x) \/ Rotating(db, e, x) \/ Deactivating(db, e, x)
    PROVE  DirNext
  <1>0. ASSUME NEW r \in Row, Edited(db, x, r)
        PROVE  x.on \in DOMAIN db /\ db' = [db EXCEPT ![x.on] = r]
    BY <1>0, TenancyAssumption, CommitOfEdit
  <1> x.on \in DOMAIN db => db[x.on] \in Row
    BY DEF Sound, Shaped
  <1>1. CASE SettingRole(db, e, x)
    <2>1. Edited(db, x, [db[x.on] EXCEPT !.role = x.role]) /\ x.on \in Users /\ x.role \in Roles
      BY <1>1 DEF SettingRole
    <2>2. [db[x.on] EXCEPT !.role = x.role] \in Row
      BY <2>1 DEF Edited, Row
    <2>3. SetRole(x.on, x.role)
      BY <2>1, <2>2, <1>0 DEF SetRole
    <2> QED BY <2>1, <2>3 DEF DirNext
  <1>2. CASE Rotating(db, e, x)
    <2>1. PICK h \in Hashes : Edited(db, x, [db[x.on] EXCEPT !.hash = h])
      BY <1>2 DEF Rotating
    <2>2. [db[x.on] EXCEPT !.hash = h] \in Row
      BY <2>1 DEF Edited, Row
    <2>3. Rotate(x.on, h)
      BY <2>1, <2>2, <1>0 DEF Rotate
    <2> QED BY <1>2, <2>1, <2>3 DEF DirNext, Rotating
  <1>3. CASE Deactivating(db, e, x)
    <2>1. Edited(db, x, [db[x.on] EXCEPT !.active = FALSE]) /\ x.on \in Keys
      BY <1>3 DEF Deactivating
    <2>2. [db[x.on] EXCEPT !.active = FALSE] \in Row
      BY <2>1 DEF Edited, Row
    <2>3. Revoke(x.on)
      BY <2>1, <2>2, <1>0 DEF Revoke
    <2> QED BY <2>1, <2>3 DEF DirNext
  <1> QED BY <1>1, <1>2, <1>3

\* A deletion of a user or of a key: nothing refers to it any more, and only what
\* referred to it was changed.
LEMMA CommitOfRemoving ==
    ASSUME Sound(db), NEW x, NEW e, Removing(db, e, x), x.at = "commit",
           x.on \in Users \cup Keys, x.keys \subseteq Keys, x.on \in DOMAIN db,
           Consistent(db, e, x.w), db' = Overlay(db, x.w)
    PROVE  db' = Minus(db, {x.on} \cup KeysOf(db, x.on))
  <1> DEFINE gone == {x.on} \cup KeysOf(db, x.on)
             v == Minus(db, gone)
  <1>1. /\ DOMAIN v = DOMAIN db \ gone /\ \A i \in DOMAIN v : v[i] = Unlinked(db[i], gone)
        /\ v = [i \in DOMAIN v |-> v[i]]
    BY DEF Minus
  <1>2. /\ \A i \in Keys \cap DOMAIN db : db[i].user = x.on => i \in gone
        /\ \A i \in gone : i = x.on \/ (i \in Keys /\ i \in DOMAIN db /\ db[i].user = x.on)
        /\ x.on \in gone /\ None \notin gone /\ gone \cap Logs = {}
    BY Apart DEF KeysOf
  <1> HIDE DEF gone, v
  <1>3. /\ x.on \in DOMAIN x.w
        /\ \A i \in DOMAIN x.w :
             /\ i \in DOMAIN db
             /\ \/ x.w[i] = None /\ (i = x.on \/ (i \in Keys /\ db[i].user = x.on))
                \/ x.w[i] # None /\ i \in Logs /\ Unlogged(x, db[i], x.w[i])
    BY DEF Removing
  <1>4. x.w[x.on] = None /\ x.on # None
    BY <1>3, Apart
  <1>5. ASSUME NEW i PROVE i \in DOMAIN db' <=> i \in DOMAIN v
    <2>1. ASSUME i \in DOMAIN db' PROVE i \in DOMAIN db /\ i \notin gone
      <3>1. CASE i \in DOMAIN x.w
        BY <1>2, <1>3, <2>1, <3>1, Overlaid
      <3>2. CASE i \notin DOMAIN x.w
        <4>1. i \in DOMAIN db /\ i \in DOMAIN Overlay(db, x.w) /\ Overlay(db, x.w)[i] = db[i]
          BY <2>1, <3>2, Overlaid
        <4>2. Refs(db[i]) \subseteq DOMAIN Overlay(db, x.w)
          BY <4>1 DEF Consistent, Whole
        <4>3. x.on \notin DOMAIN Overlay(db, x.w)
          BY <1>3, <1>4, Overlaid
        <4>4. x.on \notin Refs(db[i])
          BY <4>2, <4>3
        <4>5. db[i].user # x.on
          BY <4>4, <1>4 DEF Refs
        <4> QED BY <1>2, <1>3, <3>2, <4>1, <4>5
      <3> QED BY <3>1, <3>2
    <2>2. ASSUME i \in DOMAIN db, i \notin gone PROVE i \in DOMAIN db'
      BY <1>2, <1>3, <2>2, Overlaid
    <2> QED BY <1>1, <2>1, <2>2
  <1>6. ASSUME NEW i \in DOMAIN db' PROVE db'[i] = v[i]
    <2>1. i \in DOMAIN db /\ i \notin gone /\ v[i] = Unlinked(db[i], gone) /\ db[i] \in Row /\ Linked(db, db[i])
      BY <1>1, <1>5 DEF Sound, Shaped
    <2>2. Refs(db'[i]) \cap gone = {}
      <3>1. Refs(db'[i]) \subseteq DOMAIN db'
        BY DEF Consistent, Whole
      <3> QED BY <1>1, <1>5, <3>1
    <2>3. (db'[i].user # None => db'[i].user \notin gone) /\ (db'[i].key # None => db'[i].key \notin gone)
      BY <2>2 DEF Refs
    <2>4. CASE i \notin DOMAIN x.w
      <3>1. db'[i] = db[i]
        BY <2>1, <2>4, Overlaid
      <3>2. db[i].user \notin gone /\ db[i].key \notin gone
        BY <1>2, <2>3, <3>1
      <3>3. Unlinked(db[i], gone) = [db[i] EXCEPT !.user = db[i].user, !.key = db[i].key]
        BY <3>2 DEF Unlinked
      <3>4. [db[i] EXCEPT !.user = db[i].user, !.key = db[i].key] = db[i]
        BY <2>1 DEF Row
      <3> QED BY <2>1, <3>1, <3>3, <3>4
    <2>5. CASE i \in DOMAIN x.w
      <3> DEFINE b == x.w[i]
      <3>1. db'[i] = b /\ Unlogged(x, db[i], b)
        BY <1>3, <2>5, Overlaid
      <3>2. b.user = IF db[i].user \in gone THEN None ELSE db[i].user
        BY <1>2, <2>3, <3>1 DEF Unlogged
      <3>3. db[i].key \in x.keys => db[i].key \in gone
        <4> SUFFICES ASSUME db[i].key \in x.keys PROVE db[i].key \in gone
          OBVIOUS
        <4>1. db[i].key \in Keys /\ db[i].key # None
          BY Apart
        <4>2. db[i].key \in DOMAIN db
          BY <2>1, <4>1 DEF Linked
        <4>3. db[db[i].key].user = x.on
          BY <4>2 DEF Removing
        <4> QED BY <1>2, <4>1, <4>2, <4>3
      <3>4. b.key = IF db[i].key \in gone THEN None ELSE db[i].key
        BY <1>2, <2>3, <3>1, <3>3 DEF Unlogged
      <3>5. b = [db[i] EXCEPT !.user = b.user, !.key = b.key]
        BY <3>1 DEF Unlogged
      <3> HIDE DEF b
      <3> QED BY <2>1, <3>1, <3>2, <3>4, <3>5 DEF Unlinked, Row
    <2> QED BY <2>4, <2>5
  <1>7. db' = v
    BY <1>1, <1>5, <1>6, SameFunction, Overlaid
  <1> QED BY <1>7 DEF v, gone

\* Another request has deleted the row before: nothing was left to change.
LEMMA CommitOfNothing ==
    ASSUME Sound(db), NEW x, NEW e, Removing(db, e, x),
           x.on \in Users \cup Keys, x.keys \subseteq Keys, x.on \notin DOMAIN db,
           db' = Overlay(db, x.w)
    PROVE  UNCHANGED db
  <1>0. x.on # None
    BY Apart
  <1>1. ASSUME NEW i \in DOMAIN db PROVE Linked(db, db[i]) /\ db[i] \in Row /\ db[i].user # x.on
    BY <1>0 DEF Sound, Shaped, Linked
  <1>2. ASSUME NEW i \in DOMAIN db PROVE db[i].key \notin x.keys \cup {x.on}
    <2> SUFFICES ASSUME db[i].key \in x.keys PROVE FALSE
      BY <1>0, <1>1 DEF Linked
    <2>1. db[i].key \in DOMAIN db
      BY <1>1, Apart DEF Linked
    <2>2. db[db[i].key].user = x.on
      BY <2>1 DEF Removing
    <2> QED BY <1>1, <2>1, <2>2
  <1>3. ASSUME NEW i \in DOMAIN x.w PROVE i \in DOMAIN db /\ x.w[i] # None /\ x.w[i] = db[i]
    <2>1. /\ i \in DOMAIN db
          /\ \/ x.w[i] = None /\ (i = x.on \/ (i \in Keys /\ db[i].user = x.on))
             \/ x.w[i] # None /\ i \in Logs /\ Unlogged(x, db[i], x.w[i])
      BY DEF Removing
    <2>2. x.w[i] # None /\ Unlogged(x, db[i], x.w[i])
      BY <2>1, <1>1
    <2> QED BY <1>1, <1>2, <2>1, <2>2 DEF Unlogged, Row
  <1>4. \A i : i \in DOMAIN db' <=> i \in DOMAIN db
    BY <1>3, Overlaid
  <1>5. \A i \in DOMAIN db' : db'[i] = db[i]
    BY <1>3, <1>4, Overlaid
  <1>6. db = [i \in DOMAIN db |-> db[i]] /\ db' = [i \in DOMAIN db' |-> db'[i]]
    BY Overlaid DEF Sound
  <1> QED BY <1>4, <1>5, <1>6, SameFunction

LEMMA CommitOfRemoval ==
    ASSUME Sound(db), NEW x, NEW e, x.keys \subseteq Keys,
           RemovingUser(db, e, x) \/ RemovingKey(db, e, x), x.at = "commit",
           Consistent(db, e, x.w), db' = Overlay(db, x.w)
    PROVE  [DirNext]_db
  <1>1. Removing(db, e, x) /\ x.on \in Users \cup Keys
    BY DEF RemovingUser, RemovingKey
  <1>2. CASE x.on \notin DOMAIN db
    BY <1>1, <1>2, CommitOfNothing
  <1>3. CASE x.on \in DOMAIN db /\ RemovingUser(db, e, x)
    <2>1. RemoveUser(x.on)
      BY <1>1, <1>3, CommitOfRemoving DEF RemoveUser
    <2> QED BY <1>3, <2>1 DEF DirNext, RemovingUser
  <1>4. CASE x.on \in DOMAIN db /\ RemovingKey(db, e, x)
    <2>1. x.on \in Keys
      BY <1>4 DEF RemovingKey
    <2>2. KeysOf(db, x.on) = {}
      BY <2>1, Apart DEF KeysOf, Sound, Shaped
    <2>3. {x.on} \cup KeysOf(db, x.on) = {x.on}
      BY <2>2
    <2>4. db' = Minus(db, {x.on})
      BY <1>1, <1>4, <2>3, CommitOfRemoving
    <2>5. RemoveKey(x.on)
      BY <1>4, <2>4 DEF RemoveKey, RemovingKey
    <2> QED BY <2>1, <2>5 DEF DirNext
  <1> QED BY <1>2, <1>3, <1>4

LEMMA CommitOfRemovingOrg ==
    ASSUME Sound(db), NEW x, NEW e, RemovingOrg(db, e, x), x.at = "commit",
           Consistent(db, e, x.w), db' = Overlay(db, x.w)
    PROVE  [DirNext]_db
  <1>0. /\ x.on \in Orgs
        /\ \A i \in DOMAIN x.w : i \in DOMAIN db /\ x.w[i] = None /\ Home(db, i) = x.on
    BY DEF RemovingOrg
  <1>1. db = [i \in DOMAIN db |-> db[i]] /\ db' = [i \in DOMAIN db' |-> db'[i]]
    BY Overlaid DEF Sound
  <1>2. CASE x.on \notin DOMAIN db
    <2>1. ASSUME NEW i \in DOMAIN x.w PROVE FALSE
      <3>1. i \in DOMAIN db /\ Home(db, i) = x.on /\ Linked(db, db[i])
        BY <1>0 DEF Sound
      <3>2. i \notin Orgs /\ db[i].org = x.on
        BY <1>2, <3>1 DEF Home
      <3> QED BY <1>0, <1>2, <3>1, <3>2, Apart DEF Linked
    <2>2. (\A i : i \in DOMAIN db' <=> i \in DOMAIN db) /\ \A i \in DOMAIN db : db'[i] = db[i]
      BY <2>1, Overlaid
    <2> QED BY <1>1, <2>2, SameFunction
  <1>3. CASE x.on \in DOMAIN db
    <2> DEFINE v == [i \in {j \in DOMAIN db : Home(db, j) # x.on} |-> db[i]]
    <2>1. /\ \A i : i \in DOMAIN v <=> i \in DOMAIN db /\ Home(db, i) # x.on
          /\ \A i \in DOMAIN v : v[i] = db[i]
          /\ v = [i \in DOMAIN v |-> v[i]]
      OBVIOUS
    <2> HIDE DEF v
    <2>2. x.on \notin DOMAIN db'
      BY <1>0, <1>3, Overlaid DEF RemovingOrg
    <2>3. ASSUME NEW i \in DOMAIN db' PROVE i \in DOMAIN db /\ i \notin DOMAIN x.w /\ db'[i] = db[i]
      BY <1>0, Overlaid
    <2>4. ASSUME NEW i \in DOMAIN db' PROVE Home(db, i) # x.on
      <3>1. CASE i \in Orgs
        BY <2>2, <3>1 DEF Home
      <3>2. CASE i \notin Orgs
        <4>1. x.on \notin Refs(db'[i])
          BY <2>2 DEF Consistent, Whole
        <4>2. db[i].org # x.on
          BY <1>0, <2>3, <4>1, Apart DEF Refs
        <4> QED BY <3>2, <4>2 DEF Home
      <3> QED BY <3>1, <3>2
    <2>5. ASSUME NEW i \in DOMAIN v PROVE i \in DOMAIN db'
      BY <1>0, <2>1, Overlaid
    <2>6. db' = v
      <3>1. \A i : i \in DOMAIN db' <=> i \in DOMAIN v
        BY <2>1, <2>3, <2>4, <2>5
      <3>2. \A i \in DOMAIN db' : db'[i] = v[i]
        BY <2>1, <2>3, <3>1
      <3> QED BY <1>1, <2>1, <3>1, <3>2, SameFunction
    <2>7. RemoveOrg(x.on)
      BY <1>3, <2>6 DEF RemoveOrg, v
    <2> QED BY <1>0, <2>7 DEF DirNext
  <1> QED BY <1>2, <1>3

\* A key or a usage row, for a user that a token vouches for
LEMMA CommitOfRow ==
    ASSUME Sound(db), NEW x \in Tx, NEW e, NEW c, x.at = "commit",
           AddingKey(db, c, x) \/ Booking(db, e, c, x),
           x.user \in Users, x.user \in DOMAIN db => db[x.user].org = x.home,
           Consistent(db, e, x.w), db' = Overlay(db, x.w)
    PROVE  DirNext
  <1>0. ASSUME NEW i \in (Keys \cup Logs) \ DOMAIN db, NEW r, DOMAIN x.w = {i}, x.w[i] = r, r.user = x.user
        PROVE  /\ db' = Plus(db, i, r) /\ x.user \in DOMAIN db
               /\ \A j \in Refs(r) : j \in Users \cup Keys => j \in DOMAIN db \cup {i}
    <2>1. x.w[i] # None /\ i \in DOMAIN Overlay(db, x.w) /\ Overlay(db, x.w)[i] = r
      BY <1>0, Overlaid DEF Consistent, Fits
    <2>2. Refs(r) \subseteq DOMAIN Overlay(db, x.w)
      BY <2>1 DEF Consistent, Whole
    <2>3. Refs(r) \subseteq DOMAIN db \cup {i}
      BY <1>0, <2>2, Overlaid
    <2>4. x.user \in Refs(r) /\ x.user # i
      BY <1>0, Apart DEF Refs
    <2> QED BY <1>0, <2>1, <2>3, <2>4, OverlayOfOne
  <1>1. CASE AddingKey(db, c, x)
    <2>1. PICK k \in Keys \ DOMAIN db, h \in Hashes :
            DOMAIN x.w = {k} /\ x.w[k] = KeyRow(x.home, x.user, h)
      BY <1>1 DEF AddingKey
    <2>2. db' = Plus(db, k, KeyRow(x.home, x.user, h)) /\ x.user \in DOMAIN db
      BY <1>0, <2>1 DEF KeyRow
    <2>3. AddKey(k, x.user, h)
      BY <2>1, <2>2 DEF AddKey
    <2> QED BY <2>1, <2>3 DEF DirNext
  <1>2. CASE Booking(db, e, c, x)
    <2>1. PICK l \in Logs \ DOMAIN db : DOMAIN x.w = {l} /\ x.w[l] = LogRow(x.home, x.user, x.on)
      BY <1>2 DEF Booking
    <2>2. /\ db' = Plus(db, l, LogRow(x.home, x.user, x.on)) /\ x.user \in DOMAIN db
          /\ \A j \in Refs(LogRow(x.home, x.user, x.on)) : j \in Users \cup Keys => j \in DOMAIN db \cup {l}
      BY <1>0, <2>1 DEF LogRow
    <2>3. x.on # None => x.on \in KeysOf(db, x.user)
      <3> SUFFICES ASSUME x.on # None PROVE x.on \in KeysOf(db, x.user)
        OBVIOUS
      <3>1. x.on \in Keys /\ (x.on \in DOMAIN db => db[x.on].user = x.user)
        BY <1>2 DEF Booking
      <3>2. x.on \in Refs(LogRow(x.home, x.user, x.on)) /\ x.on # l
        BY <2>1, <3>1, Apart DEF Refs, LogRow
      <3> QED BY <2>2, <3>1, <3>2 DEF KeysOf
    <2>4. AddLog(l, x.user, x.on)
      BY <2>1, <2>2, <2>3 DEF AddLog
    <2>5. x.on \in Keys \cup {None}
      BY <1>2 DEF Booking
    <2> QED BY <2>1, <2>4, <2>5 DEF DirNext
  <1> QED BY <1>1, <1>2

LEMMA CommitOfTask ==
    ASSUME Sound(db), NEW x \in Tx, NEW e, NEW c, Task(db, e, c, x), x.at = "commit",
           Consistent(db, e, x.w), db' = Overlay(db, x.w),
           \A d \in c : d.user \in Users /\ (d.user \in DOMAIN db => db[d.user].org = d.org)
    PROVE  [DirNext]_db
  <1>1. x # Idle /\ x.keys \subseteq Keys
    BY DEF Idle, Tx
  <1>2. ASSUME Known(c, x)
        PROVE  x.user \in Users /\ (x.user \in DOMAIN db => db[x.user].org = x.home)
    BY <1>2 DEF Known
  <1>3. ASSUME AddingKey(db, c, x) \/ Booking(db, e, c, x) PROVE DirNext
    BY <1>2, <1>3, CommitOfRow DEF AddingKey, Booking
  <1> QED BY <1>1, <1>3, CommitOfFounding, CommitOfChange, CommitOfRemoval, CommitOfRemovingOrg DEF Task

-----------------------------------------------------------------------------
(***************************************************************************)
(* The inductive invariant of Tenancy.                                     *)
(***************************************************************************)
\* The organisation that a token claims for its user is that of the row.
Vouched(c) ==
    /\ c.user \in DOMAIN db => db[c.user].org = c.org
    /\ \A q \in Requests : c.user \in DOMAIN tx[q].w /\ tx[q].w[c.user] # None
                             => tx[q].w[c.user].org = c.org

TenancyInv ==
    /\ tx \in [Requests -> Tx]
    /\ claims \subseteq [user : Users, org : Orgs, role : Roles]
    /\ DOMAIN db \subseteq ever /\ ever \subseteq Ids
    /\ Sound(db)
    /\ Identities(db) \subseteq claims /\ \A c \in claims : Vouched(c)
    /\ \A q \in Requests : Consistent(db, ever, tx[q].w) /\ Task(db, ever, claims, tx[q])
    /\ \A p, q \in Requests : p # q => Separate(tx[p].w, tx[q].w)

LEMMA SoundIsWhole == ASSUME NEW t, Sound(t) PROVE Whole(t)
  <1> SUFFICES ASSUME NEW i \in DOMAIN t, NEW j \in Refs(t[i]) PROVE j \in DOMAIN t
    BY DEF Whole
  <1> QED BY DEF Sound, Linked, Refs

LEMMA IdleIsTx == Idle \in Tx /\ Idle.w \in Writes /\ DOMAIN Idle.w = {}
  <1>1. [i \in {} |-> None] \in Writes
    <2> DEFINE w == [i \in {} |-> None]
    <2>1. DOMAIN w = {} /\ w = [i \in DOMAIN w |-> w[i]]
      OBVIOUS
    <2> HIDE DEF w
    <2>2. w \in Writes
      BY <2>1, AreWrites
    <2> QED BY <2>2 DEF w
  <1>2. /\ Idle.w = [i \in {} |-> None]
        /\ Idle = [op |-> "register", at |-> "idle", home |-> None, user |-> None, on |-> None,
                   slug |-> None, role |-> None, keys |-> {}, w |-> Idle.w]
    BY DEF Idle
  <1>3. DOMAIN Idle.w = {}
    BY <1>2
  <1>4. "register" \in Ops /\ "idle" \in Stages
    BY DEF Ops, Stages
  <1>5. Idle.w \in Writes
    BY <1>1, <1>2
  <1>6. Idle \in Tx
    BY <1>2, <1>4, <1>5 DEF Tx
  <1> QED BY <1>3, <1>5, <1>6

\* Nothing written
LEMMA EmptyFits ==
    ASSUME NEW t, NEW e, NEW w, DOMAIN w = {}, Sound(t)
    PROVE  Consistent(t, e, w) /\ \A v : Separate(v, w) /\ Separate(w, v)
  <1>1. /\ \A i : i \in DOMAIN Overlay(t, w) <=> i \in DOMAIN t
        /\ \A i \in DOMAIN t : Overlay(t, w)[i] = t[i]
    BY Overlaid
  <1>2. Whole(Overlay(t, w))
    BY <1>1, SoundIsWhole DEF Whole
  <1>3. Consistent(t, e, w)
    BY <1>2 DEF Consistent, Fits, NewSlugs
  <1>4. ASSUME NEW v PROVE Separate(v, w) /\ Separate(w, v)
    BY DEF Separate
  <1> QED BY <1>3, <1>4

LEMMA Same ==
    ASSUME NEW e, NEW t, Sound(t)
    PROVE  Onward(e, t, t) /\ \A w : Untouched(w, t, t)
  BY DEF Onward, Untouched, Later, Sound

\* A step of request q that leaves the tables alone: it is enough to look at q.
LEMMA OwnStep ==
    ASSUME TenancyInv, NEW q \in Requests, UNCHANGED <<db, ever>>, claims \subseteq claims',
           claims' \subseteq [user : Users, org : Orgs, role : Roles],
           \A c \in claims' : Vouched(c)',
           NEW x \in Tx, tx' = [tx EXCEPT ![q] = x],
           Consistent(db, ever, x.w), Task(db, ever, claims', x),
           \A p \in Requests \ {q} : Separate(tx[p].w, x.w) /\ Separate(x.w, tx[p].w)
    PROVE  TenancyInv'
  <1>1. /\ tx' \in [Requests -> Tx] /\ tx'[q] = x
        /\ \A p \in Requests \ {q} : tx'[p] = tx[p]
    BY DEF TenancyInv
  <1>2. ASSUME NEW p \in Requests
        PROVE  Consistent(db, ever, tx'[p].w) /\ Task(db, ever, claims', tx'[p])
    <2>1. CASE p = q
      BY <1>1, <2>1
    <2>2. CASE p # q
      <3>1. /\ Consistent(db, ever, tx[p].w) /\ Task(db, ever, claims, tx[p])
            /\ tx[p].keys \subseteq Keys /\ Sound(db)
        BY DEF TenancyInv, Tx
      <3>2. Task(db, ever, claims', tx[p])
        BY <3>1, Same, TaskGoesOn
      <3> QED BY <1>1, <2>2, <3>1, <3>2
    <2> QED BY <2>1, <2>2
  <1>3. \A p, r \in Requests : p # r => Separate(tx'[p].w, tx'[r].w)
    BY <1>1 DEF TenancyInv
  <1>4. /\ DOMAIN db' \subseteq ever' /\ ever' \subseteq Ids /\ Sound(db')
        /\ Identities(db') \subseteq claims'
    BY DEF TenancyInv
  <1>5. \A p \in Requests : Consistent(db', ever', tx'[p].w) /\ Task(db', ever', claims', tx'[p])
    BY <1>2
  <1> QED BY <1>1, <1>3, <1>4, <1>5 DEF TenancyInv

\* The tokens are still right when q writes only what they vouch for.
LEMMA StillVouched ==
    ASSUME TenancyInv, NEW q \in Requests, UNCHANGED db, NEW x, tx' = [tx EXCEPT ![q] = x],
           NEW c \in claims,
           c.user \in DOMAIN x.w /\ x.w[c.user] # None => x.w[c.user].org = c.org
    PROVE  Vouched(c)'
  <1>1. tx'[q] = x /\ \A p \in Requests \ {q} : tx'[p] = tx[p]
    BY DEF TenancyInv
  <1>2. Vouched(c)
    BY DEF TenancyInv
  <1>3. ASSUME NEW p \in Requests, c.user \in DOMAIN tx'[p].w, tx'[p].w[c.user] # None
        PROVE  tx'[p].w[c.user].org = c.org
    BY <1>1, <1>2, <1>3 DEF Vouched
  <1> QED BY <1>2, <1>3 DEF Vouched

LEMMA EndKeeps ==
    ASSUME TenancyInv, NEW q \in Requests, End(q), UNCHANGED <<db, ever, claims>>
    PROVE  TenancyInv'
  <1>1. tx' = [tx EXCEPT ![q] = Idle]
    BY DEF End
  <1>2. Idle \in Tx /\ DOMAIN Idle.w = {} /\ Sound(db)
    BY IdleIsTx DEF TenancyInv
  <1>3. /\ Consistent(db, ever, Idle.w)
        /\ \A p \in Requests \ {q} : Separate(tx[p].w, Idle.w) /\ Separate(Idle.w, tx[p].w)
    BY <1>2, EmptyFits
  <1>4. Task(db, ever, claims', Idle)
    BY DEF Task
  <1>5. \A c \in claims' : Vouched(c)'
    BY <1>1, <1>2, StillVouched
  <1>6. claims \subseteq claims' /\ claims' \subseteq [user : Users, org : Orgs, role : Roles]
    BY DEF TenancyInv
  <1> QED BY <1>1, <1>2, <1>3, <1>4, <1>5, <1>6, OwnStep

\* What Write makes of a request.
Wrote(x, new, at) == [x EXCEPT !.at = at, !.w = Put(x.w, new)]

\* y is x but for the stage, at, and for what it has written.
Goes(x, y, at) ==
    /\ y.op = x.op /\ y.at = at /\ y.home = x.home /\ y.user = x.user /\ y.on = x.on
    /\ y.slug = x.slug /\ y.role = x.role /\ y.keys = x.keys

LEMMA WroteIs ==
    ASSUME NEW x \in Tx, NEW new \in Writes, NEW at \in Stages
    PROVE  /\ Wrote(x, new, at) \in Tx /\ Goes(x, Wrote(x, new, at), at)
           /\ Wrote(x, new, at).w = Put(x.w, new)
  <1>1. x.w \in Writes
    BY DEF Tx
  <1>2. Put(x.w, new) \in Writes
    BY <1>1, PutIsWrites
  <1> QED BY <1>2 DEF Wrote, Tx, Goes

LEMMA WriteIs ==
    ASSUME TenancyInv, NEW q \in Requests, NEW new, NEW at, Write(q, new, at)
    PROVE  tx' = [tx EXCEPT ![q] = Wrote(tx[q], new, at)]
  <1>1. tx \in [Requests -> Tx]
    BY DEF TenancyInv
  <1> QED BY <1>1 DEF Write, Wrote, Put

LEMMA CommitKeeps ==
    ASSUME TenancyInv, NEW q \in Requests, Commit(q)
    PROVE  TenancyInv' /\ [DirNext]_db
  <1> DEFINE w == tx[q].w
  <1>1. /\ db' = Overlay(db, w) /\ ever' = ever \cup DOMAIN db'
        /\ claims' = claims \cup Identities(db') /\ tx' = [tx EXCEPT ![q] = Idle]
        /\ tx[q].at = "commit"
    BY DEF Commit, View, End
  <1>2. /\ Sound(db) /\ Consistent(db, ever, w) /\ Task(db, ever, claims, tx[q]) /\ tx[q] \in Tx
        /\ \A c \in claims : c.user \in Users /\ Vouched(c)
    BY DEF TenancyInv
  <1>3. [DirNext]_db
    BY <1>1, <1>2, CommitOfTask DEF Vouched
  <1>4. Sound(db') /\ Whole(db)
    BY <1>2, <1>3, SoundStep, SoundIsWhole
  <1>5. /\ tx' \in [Requests -> Tx] /\ tx'[q] = Idle
        /\ \A p \in Requests \ {q} : tx'[p] = tx[p]
    BY <1>1, IdleIsTx DEF TenancyInv
  <1>6. Onward(ever, db, db')
    <2> SUFFICES ASSUME NEW i \in ever \cap DOMAIN db'
                 PROVE  i \in DOMAIN db /\ Later(db[i], db'[i]) /\ Shaped(i, db[i]) /\ Shaped(i, db'[i])
      BY DEF Onward
    <2>1. i \in DOMAIN db /\ Later(db[i], db'[i])
      <3>1. CASE i \in DOMAIN w
        BY <1>1, <1>2, <3>1, Overlaid DEF Consistent, Fits
      <3>2. CASE i \notin DOMAIN w
        BY <1>1, <3>2, Overlaid DEF Later
      <3> QED BY <3>1, <3>2
    <2> QED BY <1>2, <1>4, <2>1 DEF Sound
  <1>7. ASSUME NEW p \in Requests \ {q} PROVE Untouched(tx[p].w, db, db')
    <2>1. DOMAIN tx[p].w \cap DOMAIN w = {}
      BY DEF TenancyInv, Separate
    <2> QED BY <1>1, <2>1, Overlaid DEF Untouched
  <1>8. ASSUME NEW p \in Requests
        PROVE  Consistent(db', ever', tx'[p].w) /\ Task(db', ever', claims', tx'[p])
    <2>1. CASE p = q
      <3>1. Consistent(db', ever', Idle.w)
        BY <1>4, EmptyFits, IdleIsTx
      <3> QED BY <1>5, <2>1, <3>1 DEF Task
    <2>2. CASE p # q
      <3>1. /\ Separate(w, tx[p].w) /\ Separate(tx[p].w, w) /\ tx[p].keys \subseteq Keys
            /\ Consistent(db, ever, tx[p].w) /\ Task(db, ever, claims, tx[p])
        BY <2>2 DEF TenancyInv, Tx
      <3>2. Consistent(db', ever', tx[p].w)
        BY <1>1, <1>2, <1>4, <3>1, CommitFits
      <3>3. ever \subseteq ever' /\ claims \subseteq claims'
        BY <1>1
      <3>4. Untouched(tx[p].w, db, db')
        BY <1>7, <2>2
      <3>5. Task(db', ever', claims', tx[p])
        BY <1>6, <3>1, <3>3, <3>4, TaskGoesOn
      <3> QED BY <1>5, <2>2, <3>2, <3>5
    <2> QED BY <2>1, <2>2
  <1>9. \A p, r \in Requests : p # r => Separate(tx'[p].w, tx'[r].w)
    <2> SUFFICES ASSUME NEW p \in Requests, NEW r \in Requests, p # r
                 PROVE  Separate(tx'[p].w, tx'[r].w)
      OBVIOUS
    <2>1. CASE p = q \/ r = q
      BY <1>2, <1>5, <2>1, IdleIsTx, EmptyFits
    <2>2. CASE p # q /\ r # q
      BY <1>5, <2>2 DEF TenancyInv
    <2> QED BY <2>1, <2>2
  <1>10. ASSUME NEW u \in Users \cap DOMAIN db'
         PROVE  Claim(u, db'[u].org, db'[u].role) \in [user : Users, org : Orgs, role : Roles]
    BY <1>4 DEF Sound, Shaped, Claim
  <1>11. claims' \subseteq [user : Users, org : Orgs, role : Roles]
    BY <1>1, <1>10 DEF TenancyInv, Identities
  <1>12. ASSUME NEW c \in claims' PROVE Vouched(c)'
    <2>1. CASE c \in claims
      <3>1. c.user \in DOMAIN db' => db'[c.user].org = c.org
        BY <1>1, <1>2, <2>1, Overlaid DEF Vouched
      <3>2. ASSUME NEW p \in Requests, c.user \in DOMAIN tx'[p].w, tx'[p].w[c.user] # None
            PROVE  tx'[p].w[c.user].org = c.org
        BY <1>2, <1>5, <2>1, <3>2, IdleIsTx DEF Vouched
      <3> QED BY <3>1, <3>2 DEF Vouched
    <2>2. CASE c \in Identities(db')
      <3>1. PICK u \in Users \cap DOMAIN db' : c = Claim(u, db'[u].org, db'[u].role)
        BY <2>2 DEF Identities
      <3>2. c.user = u /\ c.org = db'[u].org
        BY <3>1 DEF Claim
      <3>3. ASSUME NEW p \in Requests, u \in DOMAIN tx'[p].w, tx'[p].w[u] # None
            PROVE  tx'[p].w[u].org = db'[u].org
        <4>1. p # q /\ tx'[p] = tx[p]
          BY <1>5, <3>3, IdleIsTx
        <4>2. u \in DOMAIN db /\ db'[u] = db[u]
          BY <1>7, <3>3, <4>1 DEF Untouched
        <4>3. Later(db[u], tx[p].w[u])
          BY <3>3, <4>1, <4>2 DEF TenancyInv, Consistent, Fits
        <4> QED BY <4>1, <4>2, <4>3 DEF Later
      <3> QED BY <3>2, <3>3 DEF Vouched
    <2> QED BY <1>1, <2>1, <2>2
  <1>13. DOMAIN db' \subseteq ever' /\ ever' \subseteq Ids /\ Identities(db') \subseteq claims'
    BY <1>1, <1>4 DEF TenancyInv, Sound
  <1>14. TenancyInv'
    BY <1>4, <1>5, <1>8, <1>9, <1>11, <1>12, <1>13 DEF TenancyInv
  <1> QED BY <1>3, <1>14

\* A request that has not written anything
Started(x, op, at, home, user, on, slug, role) ==
    /\ x.op = op /\ x.at = at /\ x.home = home /\ x.user = user /\ x.on = on
    /\ x.slug = slug /\ x.role = role /\ x.keys = {} /\ DOMAIN x.w = {}

\* What Begin makes of a request.
Begun(op, at, home, user, on, slug, role) ==
    [Idle EXCEPT !.op = op, !.at = at, !.home = home, !.user = user,
                 !.on = on, !.slug = slug, !.role = role]

LEMMA BegunIs ==
    ASSUME NEW op \in Ops, NEW at \in Stages, NEW home \in Orgs \cup {None},
           NEW user \in Users \cup {None}, NEW on \in Ids \cup {None},
           NEW slug \in Slugs \cup {None}, NEW role \in Roles \cup {None}
    PROVE  LET x == Begun(op, at, home, user, on, slug, role) IN
           x \in Tx /\ Started(x, op, at, home, user, on, slug, role)
  <1>1. Idle \in Tx /\ DOMAIN Idle.w = {} /\ Idle.keys = {}
    BY IdleIsTx DEF Idle
  <1> QED BY <1>1 DEF Begun, Started, Tx

LEMMA BeginKeeps ==
    ASSUME TenancyInv, NEW q \in Requests,
           NEW op \in Ops, NEW at \in Stages, NEW home \in Orgs \cup {None},
           NEW user \in Users \cup {None}, NEW on \in Ids \cup {None},
           NEW slug \in Slugs \cup {None}, NEW role \in Roles \cup {None},
           Begin(q, op, at, home, user, on, slug, role),
           Task(db, ever, claims, Begun(op, at, home, user, on, slug, role))
    PROVE  TenancyInv'
  <1> DEFINE x == Begun(op, at, home, user, on, slug, role)
  <1>1. tx' = [tx EXCEPT ![q] = x] /\ UNCHANGED <<db, ever, claims>>
    BY DEF Begin, Begun
  <1>2. x \in Tx /\ DOMAIN x.w = {}
    <2>1. x \in Tx /\ Started(x, op, at, home, user, on, slug, role)
      BY BegunIs
    <2> HIDE DEF x
    <2> QED BY <2>1 DEF Started
  <1> HIDE DEF x
  <1>3. Sound(db) /\ claims \subseteq claims' /\ claims' \subseteq [user : Users, org : Orgs, role : Roles]
    BY <1>1 DEF TenancyInv
  <1>4. /\ Consistent(db, ever, x.w)
        /\ \A p \in Requests \ {q} : Separate(tx[p].w, x.w) /\ Separate(x.w, tx[p].w)
    BY <1>2, <1>3, EmptyFits
  <1>5. \A c \in claims' : Vouched(c)'
    BY <1>1, <1>2, StillVouched
  <1>6. Task(db, ever, claims', x)
    BY <1>1 DEF x
  <1> QED BY <1>1, <1>2, <1>3, <1>4, <1>5, <1>6, OwnStep

-----------------------------------------------------------------------------
(***************************************************************************)
(* The statements keep the invariant, whatever request they belong to.     *)
(***************************************************************************)
LEMMA InsertKeeps ==
    ASSUME TenancyInv, NEW q \in Requests, NEW S \in SUBSET (Users \cup Keys \cup Logs),
           NEW i \in Fresh(S), NEW r, Shaped(i, r), NEW at \in Stages, Insert(q, i, r, at),
           UNCHANGED <<db, ever>>,
           NEW new, new = [j \in {i} |-> r],
           Write(q, new, at) =>
             /\ claims \subseteq claims'
             /\ claims' \subseteq [user : Users, org : Orgs, role : Roles]
             /\ \A c \in claims' \ claims : c.user = i /\ c.org = r.org
             /\ Task(db, ever, claims', Wrote(tx[q], new, at)),
           End(q) => UNCHANGED claims
    PROVE  TenancyInv'
  <1>0. r \in Row /\ r # None
    BY TenancyAssumption DEF Shaped
  <1>1. CASE End(q)
    BY <1>1, EndKeeps
  <1>2. CASE /\ Write(q, new, at)
             /\ Refs(r) \subseteq DOMAIN View(q)
             /\ \A p \in Requests \ {q} : \A j \in Refs(r) \cap DOMAIN tx[p].w : tx[p].w[j] # None
    <2> DEFINE x == Wrote(tx[q], new, at)
    <2>1. /\ i \in Ids /\ i \notin Orgs /\ i \notin ever /\ i \notin DOMAIN db
          /\ \A p \in Requests : i \notin DOMAIN tx[p].w
          /\ \A c \in claims : c.user # i
      BY Apart DEF Fresh, Ids, TenancyInv
    <2>0. DOMAIN new = {i} /\ new[i] = r /\ new = [j \in DOMAIN new |-> new[j]]
      OBVIOUS
    <2>5. tx' = [tx EXCEPT ![q] = x]
      BY <1>2, WriteIs
    <2>10. /\ claims \subseteq claims' /\ claims' \subseteq [user : Users, org : Orgs, role : Roles]
           /\ Task(db, ever, claims', x)
      BY <1>2
    <2>2. new \in Writes
      BY <1>0, <2>0, <2>1, AreWrites
    <2>3. tx[q] \in Tx /\ Consistent(db, ever, tx[q].w)
      BY DEF TenancyInv
    <2>4. x \in Tx /\ x.w = Put(tx[q].w, new)
      BY <2>2, <2>3, WroteIs
    <2>6. Consistent(db, ever, Put(tx[q].w, new))
      BY <1>2, <2>0, <2>1, <2>3, InsertFits DEF View
    <2>7. ASSUME NEW p \in Requests \ {q}
          PROVE  Separate(tx[p].w, Put(tx[q].w, new)) /\ Separate(Put(tx[q].w, new), tx[p].w)
      <3>1. Separate(tx[q].w, tx[p].w) /\ Separate(tx[p].w, tx[q].w)
        BY DEF TenancyInv
      <3>2. \A j \in Refs(r) \cap DOMAIN tx[p].w : tx[p].w[j] # None
        BY <1>2
      <3>3. i \notin DOMAIN tx[q].w /\ i \notin DOMAIN tx[p].w /\ i \notin Orgs
        BY <2>1
      <3> QED BY <1>0, <2>0, <3>1, <3>2, <3>3, InsertSeparate
    <2>8. DOMAIN x.w = DOMAIN tx[q].w \cup {i} /\ x.w[i] = r /\ \A j \in DOMAIN tx[q].w : x.w[j] = tx[q].w[j]
      BY <2>0, <2>1, <2>4 DEF Put
    <2> HIDE DEF x
    <2>9. ASSUME NEW c \in claims' PROVE Vouched(c)'
      <3>1. CASE c \in claims
        <4>1. c.user \in DOMAIN x.w /\ x.w[c.user] # None => x.w[c.user].org = c.org
          BY <2>1, <2>8, <3>1 DEF TenancyInv, Vouched
        <4> QED BY <2>5, <3>1, <4>1, StillVouched
      <3>2. CASE c \notin claims
        <4>1. c.user = i /\ c.org = r.org
          BY <1>2, <3>2
        <4>2. \A p \in Requests : tx'[p] = IF p = q THEN x ELSE tx[p]
          BY <2>5 DEF TenancyInv
        <4> QED BY <2>1, <2>8, <4>1, <4>2 DEF Vouched
      <3> QED BY <3>1, <3>2
    <2> QED BY <2>4, <2>5, <2>6, <2>7, <2>9, <2>10, OwnStep
  <1> QED BY <1>1, <1>2 DEF Insert

LEMMA UpdateKeeps ==
    ASSUME TenancyInv, NEW q \in Requests, NEW new \in Writes, NEW at \in Stages,
           Update(q, new, at), UNCHANGED <<db, ever, claims>>,
           DOMAIN new \subseteq DOMAIN View(q), Orgs \cap DOMAIN new = {},
           \A i \in DOMAIN new : Shaped(i, new[i]) /\ Later(View(q)[i], new[i]),
           Task(db, ever, claims, Wrote(tx[q], new, at))
    PROVE  TenancyInv'
  <1> DEFINE x == Wrote(tx[q], new, at)
  <1>0. \A i \in DOMAIN new : new[i] # None
    BY TenancyAssumption DEF Shaped
  <1>1. tx[q] \in Tx /\ Consistent(db, ever, tx[q].w)
    BY DEF TenancyInv
  <1>2. x \in Tx /\ x.w = Put(tx[q].w, new)
    BY <1>1, WroteIs
  <1>3. tx' = [tx EXCEPT ![q] = x]
    BY WriteIs DEF Update
  <1>4. Task(db, ever, claims', x)
    OBVIOUS
  <1> HIDE DEF x
  <1>5. Consistent(db, ever, x.w)
    BY <1>1, <1>2, UpdateFits DEF View
  <1>6. ASSUME NEW p \in Requests \ {q} PROVE Separate(tx[p].w, x.w) /\ Separate(x.w, tx[p].w)
    <2>1. DOMAIN new \cap DOMAIN tx[p].w = {}
      BY DEF Update, Unlocked
    <2>2. /\ Separate(tx[q].w, tx[p].w) /\ Separate(tx[p].w, tx[q].w)
          /\ Consistent(db, ever, tx[p].w)
      BY DEF TenancyInv
    <2> QED BY <1>0, <1>2, <2>1, <2>2, UpdateSeparate DEF View
  <1>7. ASSUME NEW c \in claims' PROVE Vouched(c)'
    <2>1. Vouched(c)
      BY DEF TenancyInv
    <2>2. ASSUME c.user \in DOMAIN x.w, x.w[c.user] # None PROVE x.w[c.user].org = c.org
      <3>1. CASE c.user \notin DOMAIN new
        BY <1>2, <2>1, <2>2, <3>1 DEF Put, Vouched
      <3>2. CASE c.user \in DOMAIN new
        <4>1. x.w[c.user] = new[c.user] /\ new[c.user].org = View(q)[c.user].org
          BY <1>2, <3>2 DEF Put, Later
        <4>2. View(q)[c.user].org = c.org
          <5>1. CASE c.user \in DOMAIN tx[q].w
            BY <2>1, <3>2, <5>1, Overlaid DEF Vouched, View
          <5>2. CASE c.user \notin DOMAIN tx[q].w
            BY <2>1, <3>2, <5>2, Overlaid DEF Vouched, View
          <5> QED BY <5>1, <5>2
        <4> QED BY <4>1, <4>2
      <3> QED BY <3>1, <3>2
    <2> QED BY <1>3, <2>2, StillVouched
  <1>8. claims \subseteq claims' /\ claims' \subseteq [user : Users, org : Orgs, role : Roles]
    BY DEF TenancyInv
  <1> QED BY <1>2, <1>3, <1>4, <1>5, <1>6, <1>7, <1>8, OwnStep

LEMMA DeleteKeeps ==
    ASSUME TenancyInv, NEW q \in Requests, NEW rows, NEW at \in Stages,
           Delete(q, rows, at), UNCHANGED <<db, ever, claims>>,
           rows \subseteq DOMAIN View(q) \cap DOMAIN db,
           Task(db, ever, claims, Wrote(tx[q], [i \in rows |-> None], at))
    PROVE  TenancyInv'
  <1> DEFINE new == [i \in rows |-> None]
             x == Wrote(tx[q], new, at)
  <1>1. CASE End(q)
    BY <1>1, EndKeeps
  <1>2. CASE ~Refused(q, rows) /\ Write(q, new, at)
    <2>1. tx[q] \in Tx /\ Consistent(db, ever, tx[q].w)
      BY DEF TenancyInv
    <2>2. new \in Writes
      <3>1. DOMAIN new = rows /\ (\A i \in rows : new[i] = None) /\ new = [i \in DOMAIN new |-> new[i]]
        OBVIOUS
      <3>2. rows \subseteq Ids
        BY DEF TenancyInv
      <3> HIDE DEF new
      <3> QED BY <3>1, <3>2, AreWrites
    <2>3. x \in Tx /\ x.w = Put(tx[q].w, new)
      BY <2>1, <2>2, WroteIs
    <2>4. tx' = [tx EXCEPT ![q] = x]
      BY <1>2, WriteIs
    <2>5. Task(db, ever, claims', x)
      OBVIOUS
    <2> HIDE DEF x
    <2>6. Consistent(db, ever, x.w)
      BY <1>2, <2>1, <2>3, DeleteFits DEF View, Refused
    <2>7. ASSUME NEW p \in Requests \ {q} PROVE Separate(tx[p].w, x.w) /\ Separate(x.w, tx[p].w)
      <3>1. /\ Separate(tx[q].w, tx[p].w) /\ Separate(tx[p].w, tx[q].w)
            /\ Consistent(db, ever, tx[p].w)
        BY DEF TenancyInv
      <3>2. rows \cap DOMAIN tx[p].w = {}
        BY DEF Delete, Unlocked
      <3>3. ASSUME NEW i \in DOMAIN tx[p].w, tx[p].w[i] # None
            PROVE  Refs(tx[p].w[i]) \cap rows = {}
        <4>1. CASE i \notin DOMAIN db
          BY <3>3, <4>1 DEF Delete, Contended
        <4>2. CASE i \in DOMAIN db
          <5>1. i \notin DOMAIN tx[q].w /\ i \notin rows
            BY <3>1, <3>2 DEF Separate
          <5>2. i \in DOMAIN View(q) /\ View(q)[i] = db[i]
            BY <4>2, <5>1, Overlaid DEF View
          <5>3. Refs(db[i]) \cap rows = {}
            BY <1>2, <5>1, <5>2 DEF Refused
          <5>4. Later(db[i], tx[p].w[i])
            BY <3>1, <3>3, <4>2 DEF Consistent, Fits
          <5> QED BY <5>3, <5>4, LaterRefs
        <4> QED BY <4>1, <4>2
      <3> QED BY <2>3, <3>1, <3>2, <3>3, DeleteSeparate
    <2>8. ASSUME NEW c \in claims' PROVE Vouched(c)'
      <3>1. c.user \in DOMAIN x.w /\ x.w[c.user] # None => x.w[c.user].org = c.org
        BY <2>3 DEF Put, TenancyInv, Vouched
      <3> QED BY <2>4, <3>1, StillVouched
    <2>9. claims \subseteq claims' /\ claims' \subseteq [user : Users, org : Orgs, role : Roles]
      BY DEF TenancyInv
    <2> QED BY <2>3, <2>4, <2>5, <2>6, <2>7, <2>8, <2>9, OwnStep
  <1> QED BY <1>1, <1>2 DEF Delete

-----------------------------------------------------------------------------
(***************************************************************************)
(* So do the requests, one lemma per action.                               *)
(***************************************************************************)
\* What a request is doing shows in its stage.
LEMMA TaskAt ==
    ASSUME NEW t, NEW e, NEW c, NEW x, Task(t, e, c, x)
    PROVE  /\ x.at = "addOrg" => x.op \in SignUps \cup {"create_org"} /\ Founding(t, x)
           /\ x.at = "addUser" => x.op \in SignUps \cup {"create_user"} /\ Founding(t, x)
           /\ x.at = "setRole" => x.op = "update_user" /\ SettingRole(t, e, x)
           /\ x.at \in {"unlogUser", "pickKeys", "dropKeys", "dropUser"} =>
                x.op = "delete_user" /\ RemovingUser(t, e, x)
           /\ x.at = "unlogKeys" => \/ x.op = "delete_user" /\ RemovingUser(t, e, x)
                                    \/ x.op = "revoke_api_key" /\ RemovingKey(t, e, x)
           /\ x.at = "dropKey" => x.op = "revoke_api_key" /\ RemovingKey(t, e, x)
           /\ x.at \in {"dropLogs", "dropOrgKeys", "dropOrgUsers", "dropOrg"} =>
                x.op = "delete_org" /\ RemovingOrg(t, e, x)
           /\ x.at = "addKey" => x.op = "create_api_key" /\ AddingKey(t, c, x)
           /\ x.at = "rotate" => x.op = "rotate_api_key" /\ Rotating(t, e, x)
           /\ x.at = "deactivate" => x.op = "revoke_api_key" /\ Deactivating(t, e, x)
           /\ x.at = "known" => x.op = "chat_completions" /\ Booking(t, e, c, x)
  <1>1. x = Idle => x.at = "idle"
    BY DEF Idle
  <1>2. Founding(t, x) => /\ x.at \in {"addOrg", "addUser", "commit"}
                          /\ x.at = "addOrg" => x.op # "create_user"
                          /\ x.at = "addUser" => x.op # "create_org"
    BY DEF Founding
  <1>3. SettingRole(t, e, x) => x.at \in {"setRole", "commit"}
    BY DEF SettingRole
  <1>4. Rotating(t, e, x) => x.at \in {"rotate", "commit"}
    BY DEF Rotating
  <1>5. Deactivating(t, e, x) => x.at \in {"deactivate", "commit"}
    BY DEF Deactivating
  <1>6. RemovingUser(t, e, x) =>
          x.at \in {"unlogUser", "pickKeys", "unlogKeys", "dropKeys", "dropUser", "commit"}
    BY DEF RemovingUser
  <1>7. RemovingKey(t, e, x) => x.at \in {"unlogKeys", "dropKey", "commit"}
    BY DEF RemovingKey
  <1>8. RemovingOrg(t, e, x) =>
          x.at \in {"dropLogs", "dropOrgKeys", "dropOrgUsers", "dropOrg", "commit"}
    BY DEF RemovingOrg
  <1>9. AddingKey(t, c, x) => x.at \in {"addKey", "commit"}
    BY DEF AddingKey
  <1>10. Booking(t, e, c, x) => x.at \in {"known", "commit"}
    BY DEF Booking
  <1> QED BY <1>1, <1>2, <1>3, <1>4, <1>5, <1>6, <1>7, <1>8, <1>9, <1>10 DEF Task, SignUps

LEMMA StageNames ==
    /\ "commit" \in Stages /\ "addUser" \in Stages /\ "pickKeys" \in Stages
    /\ "dropKeys" \in Stages /\ "unlogKeys" \in Stages /\ "dropKey" \in Stages
  BY DEF Stages

LEMMA ViewIs ==
    ASSUME TenancyInv, NEW q \in Requests
    PROVE  /\ \A i : i \in DOMAIN View(q) <=>
                \/ i \in DOMAIN tx[q].w /\ tx[q].w[i] # None
                \/ i \in DOMAIN db /\ i \notin DOMAIN tx[q].w
           /\ \A i \in DOMAIN tx[q].w : tx[q].w[i] # None => View(q)[i] = tx[q].w[i]
           /\ \A i \in DOMAIN db : i \notin DOMAIN tx[q].w => View(q)[i] = db[i]
           /\ \A i \in DOMAIN View(q) : Shaped(i, View(q)[i]) /\ i \in Ids
           /\ DOMAIN View(q) \subseteq ever \cup DOMAIN tx[q].w
  <1>1. /\ \A i : i \in DOMAIN View(q) <=>
                \/ i \in DOMAIN tx[q].w /\ tx[q].w[i] # None
                \/ i \in DOMAIN db /\ i \notin DOMAIN tx[q].w
        /\ \A i \in DOMAIN tx[q].w : tx[q].w[i] # None => View(q)[i] = tx[q].w[i]
        /\ \A i \in DOMAIN db : i \notin DOMAIN tx[q].w => View(q)[i] = db[i]
    BY Overlaid DEF View
  <1>2. /\ Fits(db, ever, tx[q].w) /\ Sound(db) /\ DOMAIN tx[q].w \subseteq Ids
        /\ DOMAIN db \subseteq ever
    BY WritesAre DEF TenancyInv, Consistent, Tx
  <1>3. \A i \in DOMAIN View(q) : Shaped(i, View(q)[i]) /\ i \in Ids
    BY <1>1, <1>2 DEF Fits, Sound
  <1> QED BY <1>1, <1>2, <1>3

LEMMA RollbackKeeps ==
    ASSUME TenancyInv, NEW q \in Requests, Rollback(q)
    PROVE  TenancyInv'
  BY EndKeeps DEF Rollback

LEMMA InsertUserKeeps ==
    ASSUME TenancyInv, NEW q \in Requests, InsertUser(q)
    PROVE  TenancyInv'
  <1> DEFINE x == tx[q]
  <1>1. /\ x \in Tx /\ Task(db, ever, claims, x) /\ x.at = "addUser"
        /\ claims \subseteq [user : Users, org : Orgs, role : Roles]
    BY DEF TenancyInv, InsertUser
  <1>2. x.op \in SignUps \cup {"create_user"} /\ Founding(db, x)
    BY <1>1, TaskAt
  <1>3. x.on \in Orgs /\ x.role \in Roles /\ DOMAIN x.w \subseteq {x.on}
    BY <1>1, <1>2 DEF Founding
  <1>4. PICK u \in Fresh(Users) :
          /\ Insert(q, u, UserRow(x.on, x.role), "commit")
          /\ claims' = IF x.op = "register" /\ tx'[q].at = "commit"
                       THEN claims \cup {Claim(u, x.on, x.role)} ELSE claims
    BY DEF InsertUser
  <1> DEFINE r == UserRow(x.on, x.role)
             new == [j \in {u} |-> r]
             y == Wrote(x, new, "commit")
  <1>5. u \in Users /\ u \notin DOMAIN db /\ u \notin DOMAIN x.w /\ u \notin Orgs
    BY Apart DEF Fresh, TenancyInv
  <1>6. Shaped(u, r) /\ r.org = x.on
    BY <1>3, <1>5, NewRows DEF UserRow
  <1>7. DOMAIN new = {u} /\ new[u] = r /\ new = [j \in DOMAIN new |-> new[j]]
    OBVIOUS
  <1>8. new \in Writes
    <2> HIDE DEF new, r
    <2> QED BY <1>5, <1>6, <1>7, AreWrites DEF Shaped, Ids
  <1>9. Goes(x, y, "commit") /\ y.w = Put(x.w, new)
    <2> HIDE DEF new, x
    <2> QED BY <1>1, <1>8, StageNames, WroteIs
  <1>10. Task(db, ever, claims', y)
    <2>1. /\ DOMAIN y.w = DOMAIN x.w \cup {u} /\ y.w[u] = r
          /\ \A i \in DOMAIN x.w : y.w[i] = x.w[i]
      BY <1>5, <1>7, <1>9 DEF Put
    <2> HIDE DEF y, new
    <2>2. Founding(db, y)
      BY <1>1, <1>2, <1>3, <1>5, <1>9, <2>1 DEF Founding, SignUps, Goes
    <2> QED BY <1>2, <1>9, <2>2 DEF Task, Goes
  <1>11. Write(q, new, "commit") =>
           /\ claims \subseteq claims'
           /\ claims' \subseteq [user : Users, org : Orgs, role : Roles]
           /\ \A c \in claims' \ claims : c.user = u /\ c.org = r.org
    <2>1. /\ Claim(u, x.on, x.role) \in [user : Users, org : Orgs, role : Roles]
          /\ Claim(u, x.on, x.role).user = u /\ Claim(u, x.on, x.role).org = x.on
      BY <1>3, <1>5 DEF Claim
    <2> QED BY <1>1, <1>4, <1>6, <2>1
  <1>12. End(q) => UNCHANGED claims
    <2>1. End(q) => tx'[q].at = "idle"
      BY DEF End, Idle, TenancyInv
    <2> QED BY <1>4, <2>1
  <1>13. UNCHANGED <<db, ever>> /\ "commit" \in Stages /\ Users \in SUBSET (Users \cup Keys \cup Logs)
    BY StageNames DEF InsertUser
  <1>14. Insert(q, u, r, "commit")
    BY <1>4
  <1>15. new = [j \in {u} |-> r]
    OBVIOUS
  <1>16. Write(q, new, "commit") => Task(db, ever, claims', Wrote(tx[q], new, "commit"))
    BY <1>10
  <1> HIDE DEF r, new, y
  <1> QED BY <1>6, <1>11, <1>12, <1>13, <1>14, <1>15, <1>16, InsertKeeps

\* A request that inserts one row and no more
LEMMA InsertRowKeeps ==
    ASSUME TenancyInv, NEW q \in Requests, NEW S \in SUBSET (Users \cup Keys \cup Logs),
           NEW i \in Fresh(S), NEW r, Shaped(i, r), Insert(q, i, r, "commit"),
           UNCHANGED <<db, ever, claims>>, DOMAIN tx[q].w = {},
           \A y : Goes(tx[q], y, "commit") /\ DOMAIN y.w = {i} /\ y.w[i] = r
                    => Task(db, ever, claims, y)
    PROVE  TenancyInv'
  <1> DEFINE new == [j \in {i} |-> r]
             y == Wrote(tx[q], new, "commit")
  <1>1. new = [j \in {i} |-> r] /\ DOMAIN new = {i} /\ new[i] = r /\ new = [j \in DOMAIN new |-> new[j]]
    OBVIOUS
  <1>2. i \in Ids /\ r \in Row
    BY DEF Fresh, Ids, Shaped
  <1> HIDE DEF new, y
  <1>3. new \in Writes
    BY <1>1, <1>2, AreWrites
  <1>4. Goes(tx[q], y, "commit") /\ y.w = Put(tx[q].w, new)
    BY <1>3, WroteIs, StageNames DEF TenancyInv, y
  <1>5. DOMAIN y.w = {i} /\ y.w[i] = r
    BY <1>1, <1>4 DEF Put
  <1>6. Task(db, ever, claims', Wrote(tx[q], new, "commit"))
    BY <1>4, <1>5 DEF y
  <1>7. /\ claims \subseteq claims' /\ claims' \subseteq [user : Users, org : Orgs, role : Roles]
        /\ claims' \ claims = {}
    BY DEF TenancyInv
  <1> QED BY <1>1, <1>6, <1>7, StageNames, InsertKeeps

LEMMA InsertKeyKeeps ==
    ASSUME TenancyInv, NEW q \in Requests, InsertKey(q)
    PROVE  TenancyInv'
  <1> DEFINE x == tx[q]
  <1>1. PICK k \in Fresh(Keys), h \in Hashes : Insert(q, k, KeyRow(x.home, x.user, h), "commit")
    BY DEF InsertKey
  <1>2. x.op = "create_api_key" /\ AddingKey(db, claims, x) /\ x.at = "addKey" /\ DOMAIN x.w = {}
    <2>1. x.at = "addKey" /\ Task(db, ever, claims, x)
      BY DEF InsertKey, TenancyInv
    <2>2. x.op = "create_api_key" /\ AddingKey(db, claims, x)
      BY <2>1, TaskAt
    <2> QED BY <2>1, <2>2 DEF AddingKey
  <1>3. x.user \in Users /\ x.home \in Orgs
    BY <1>2 DEF AddingKey, Known, TenancyInv
  <1>4. k \in Keys \ DOMAIN db
    BY DEF Fresh, TenancyInv
  <1>5. Shaped(k, KeyRow(x.home, x.user, h))
    BY <1>3, <1>4, NewRows
  <1>6. ASSUME NEW y, Goes(x, y, "commit"), DOMAIN y.w = {k}, y.w[k] = KeyRow(x.home, x.user, h)
        PROVE  Task(db, ever, claims, y)
    <2>1. AddingKey(db, claims, y)
      BY <1>2, <1>4, <1>6 DEF AddingKey, Known, Goes
    <2> QED BY <1>2, <1>6, <2>1 DEF Task, Goes
  <1>7. UNCHANGED <<db, ever, claims>> /\ Keys \in SUBSET (Users \cup Keys \cup Logs)
    BY DEF InsertKey
  <1> HIDE DEF x
  <1>8. DOMAIN tx[q].w = {}
    BY <1>2 DEF x
  <1> QED BY <1>1, <1>5, <1>6, <1>7, <1>8, InsertRowKeeps DEF x

LEMMA LogUsageKeeps ==
    ASSUME TenancyInv, NEW q \in Requests, LogUsage(q)
    PROVE  TenancyInv'
  <1> DEFINE x == tx[q]
  <1>1. PICK l \in Fresh(Logs) : Insert(q, l, LogRow(x.home, x.user, x.on), "commit")
    BY DEF LogUsage
  <1>2. x.op = "chat_completions" /\ Booking(db, ever, claims, x) /\ x.at = "known" /\ DOMAIN x.w = {}
    <2>1. x.at = "known" /\ Task(db, ever, claims, x)
      BY DEF LogUsage, TenancyInv
    <2>2. x.op = "chat_completions" /\ Booking(db, ever, claims, x)
      BY <2>1, TaskAt
    <2> QED BY <2>1, <2>2 DEF Booking
  <1>3. x.user \in Users /\ x.home \in Orgs /\ x.on \in Keys \cup {None}
    BY <1>2 DEF Booking, Known, TenancyInv
  <1>4. l \in Logs \ DOMAIN db
    BY DEF Fresh, TenancyInv
  <1>5. Shaped(l, LogRow(x.home, x.user, x.on))
    BY <1>3, <1>4, NewRows
  <1>6. ASSUME NEW y, Goes(x, y, "commit"), DOMAIN y.w = {l}, y.w[l] = LogRow(x.home, x.user, x.on)
        PROVE  Task(db, ever, claims, y)
    <2>1. Booking(db, ever, claims, y)
      BY <1>2, <1>4, <1>6 DEF Booking, Known, Goes
    <2> QED BY <1>2, <1>6, <2>1 DEF Task, Goes
  <1>7. UNCHANGED <<db, ever, claims>> /\ Logs \in SUBSET (Users \cup Keys \cup Logs)
    BY DEF LogUsage
  <1>8. DOMAIN tx[q].w = {}
    BY <1>2
  <1> QED BY <1>1, <1>5, <1>6, <1>7, <1>8, InsertRowKeeps

\* A request that updates the one row it looked up
LEMMA EditKeeps ==
    ASSUME TenancyInv, NEW q \in Requests, NEW r, UpdateOne(q, r, "commit"),
           UNCHANGED <<db, ever, claims>>, DOMAIN tx[q].w = {}, tx[q].on \in Users \cup Keys,
           tx[q].on \in DOMAIN db => Shaped(tx[q].on, r) /\ Later(db[tx[q].on], r),
           \A y : Goes(tx[q], y, "commit") /\ Edited(db, y, r) => Task(db, ever, claims, y)
    PROVE  TenancyInv'
  <1> DEFINE on == tx[q].on
             new == [i \in {on} |-> r]
             y == Wrote(tx[q], new, "commit")
  <1>1. CASE on \notin DOMAIN View(q)
    BY <1>1, EndKeeps DEF UpdateOne
  <1>2. CASE on \in DOMAIN View(q)
    <2>1. Update(q, new, "commit")
      BY <1>2 DEF UpdateOne
    <2>2. on \in DOMAIN db /\ View(q)[on] = db[on]
      BY <1>2, ViewIs
    <2>3. on \in Ids /\ on \notin Orgs /\ r \in Row /\ Shaped(on, r) /\ Later(View(q)[on], r)
      BY <2>2, Apart DEF Ids, Shaped
    <2>4. DOMAIN new = {on} /\ new[on] = r /\ new = [j \in DOMAIN new |-> new[j]]
      OBVIOUS
    <2> HIDE DEF on, new, y
    <2>5. new \in Writes
      BY <2>3, <2>4, AreWrites
    <2>6. Goes(tx[q], y, "commit") /\ y.w = Put(tx[q].w, new)
      BY <2>5, WroteIs, StageNames DEF TenancyInv, y
    <2>7. Edited(db, y, r)
      BY <2>2, <2>4, <2>6 DEF Edited, Put, Goes, on
    <2>8. Task(db, ever, claims, Wrote(tx[q], new, "commit"))
      BY <2>6, <2>7 DEF y
    <2> QED BY <1>2, <2>1, <2>3, <2>4, <2>5, <2>8, StageNames, UpdateKeeps
  <1> QED BY <1>1, <1>2

LEMMA WriteRoleKeeps ==
    ASSUME TenancyInv, NEW q \in Requests, WriteRole(q)
    PROVE  TenancyInv'
  <1> DEFINE x == tx[q]
             r == [View(q)[x.on] EXCEPT !.role = x.role]
  <1>1. x.op = "update_user" /\ SettingRole(db, ever, x) /\ x.at = "setRole" /\ DOMAIN x.w = {}
    <2>1. x.at = "setRole" /\ Task(db, ever, claims, x)
      BY DEF WriteRole, TenancyInv
    <2>2. x.op = "update_user" /\ SettingRole(db, ever, x)
      BY <2>1, TaskAt
    <2> QED BY <2>1, <2>2 DEF SettingRole
  <1>2. x.on \in Users /\ x.role \in Roles
    BY <1>1 DEF SettingRole
  <1>3. ASSUME x.on \in DOMAIN db PROVE r = [db[x.on] EXCEPT !.role = x.role]
    BY <1>1, <1>3, ViewIs
  <1>4. ASSUME x.on \in DOMAIN db PROVE Shaped(x.on, r) /\ Later(db[x.on], r)
    <2>1. Shaped(x.on, db[x.on])
      BY <1>4 DEF TenancyInv, Sound
    <2> QED BY <1>2, <1>3, <1>4, <2>1, Apart DEF Shaped, Later, Row
  <1>5. ASSUME NEW y, Goes(x, y, "commit"), Edited(db, y, r) PROVE Task(db, ever, claims, y)
    <2>1. SettingRole(db, ever, y)
      BY <1>1, <1>3, <1>5 DEF SettingRole, Kept, Goes, Edited
    <2> QED BY <1>1, <1>5, <2>1 DEF Task, Goes
  <1>6. UNCHANGED <<db, ever, claims>> /\ UpdateOne(q, r, "commit") /\ tx[q].on \in Users \cup Keys
    BY <1>2 DEF WriteRole
  <1> HIDE DEF r
  <1> QED BY <1>1, <1>4, <1>5, <1>6, EditKeeps

LEMMA WriteHashKeeps ==
    ASSUME TenancyInv, NEW q \in Requests, WriteHash(q)
    PROVE  TenancyInv'
  <1> DEFINE x == tx[q]
  <1>0. PICK h \in Hashes : UpdateOne(q, [View(q)[x.on] EXCEPT !.hash = h], "commit")
    BY DEF WriteHash
  <1> DEFINE r == [View(q)[x.on] EXCEPT !.hash = h]
  <1>1. x.op = "rotate_api_key" /\ Rotating(db, ever, x) /\ x.at = "rotate" /\ DOMAIN x.w = {}
    <2>1. x.at = "rotate" /\ Task(db, ever, claims, x)
      BY DEF WriteHash, TenancyInv
    <2>2. x.op = "rotate_api_key" /\ Rotating(db, ever, x)
      BY <2>1, TaskAt
    <2> QED BY <2>1, <2>2 DEF Rotating
  <1>2. x.on \in Keys
    BY <1>1 DEF Rotating
  <1>3. ASSUME x.on \in DOMAIN db PROVE r = [db[x.on] EXCEPT !.hash = h]
    BY <1>1, <1>3, ViewIs
  <1>4. ASSUME x.on \in DOMAIN db PROVE Shaped(x.on, r) /\ Later(db[x.on], r)
    <2>1. Shaped(x.on, db[x.on])
      BY <1>4 DEF TenancyInv, Sound
    <2> QED BY <1>2, <1>3, <1>4, <2>1, Apart DEF Shaped, Later, Row
  <1>5. ASSUME NEW y, Goes(x, y, "commit"), Edited(db, y, r) PROVE Task(db, ever, claims, y)
    <2>1. Rotating(db, ever, y)
      BY <1>1, <1>3, <1>5 DEF Rotating, Kept, Goes, Edited
    <2> QED BY <1>1, <1>5, <2>1 DEF Task, Goes
  <1>6. UNCHANGED <<db, ever, claims>> /\ UpdateOne(q, r, "commit") /\ tx[q].on \in Users \cup Keys
    BY <1>0, <1>2 DEF WriteHash
  <1> HIDE DEF r
  <1> QED BY <1>1, <1>4, <1>5, <1>6, EditKeeps

LEMMA DeactivateKeeps ==
    ASSUME TenancyInv, NEW q \in Requests, Deactivate(q)
    PROVE  TenancyInv'
  <1> DEFINE x == tx[q]
             r == [View(q)[x.on] EXCEPT !.active = FALSE]
  <1>1. x.op = "revoke_api_key" /\ Deactivating(db, ever, x) /\ x.at = "deactivate" /\ DOMAIN x.w = {}
    <2>1. x.at = "deactivate" /\ Task(db, ever, claims, x)
      BY DEF Deactivate, TenancyInv
    <2>2. x.op = "revoke_api_key" /\ Deactivating(db, ever, x)
      BY <2>1, TaskAt
    <2> QED BY <2>1, <2>2 DEF Deactivating
  <1>2. x.on \in Keys
    BY <1>1 DEF Deactivating
  <1>3. ASSUME x.on \in DOMAIN db PROVE r = [db[x.on] EXCEPT !.active = FALSE]
    BY <1>1, <1>3, ViewIs
  <1>4. ASSUME x.on \in DOMAIN db PROVE Shaped(x.on, r) /\ Later(db[x.on], r)
    <2>1. Shaped(x.on, db[x.on])
      BY <1>4 DEF TenancyInv, Sound
    <2> QED BY <1>2, <1>3, <1>4, <2>1, Apart DEF Shaped, Later, Row
  <1>5. ASSUME NEW y, Goes(x, y, "commit"), Edited(db, y, r) PROVE Task(db, ever, claims, y)
    <2>1. Deactivating(db, ever, y)
      BY <1>1, <1>3, <1>5 DEF Deactivating, Kept, Goes, Edited
    <2> QED BY <1>1, <1>5, <2>1 DEF Task, Goes
  <1>6. UNCHANGED <<db, ever, claims>> /\ UpdateOne(q, r, "commit") /\ tx[q].on \in Users \cup Keys
    BY <1>2 DEF Deactivate
  <1> HIDE DEF r
  <1> QED BY <1>1, <1>4, <1>5, <1>6, EditKeeps

LEMMA FoundKeeps ==
    ASSUME TenancyInv, NEW q \in Requests, tx[q].at = "addOrg", UNCHANGED <<db, ever, claims>>,
           \A p \in Requests \ {q} : ~SlugTaken(Overlay(<<>>, tx[p].w), tx[q].slug),
           ~SlugTaken(db, tx[q].slug), NEW o \in Fresh(Orgs),
           NEW role \in FounderRoles(tx[q].slug), tx' = [tx EXCEPT ![q] = Founded(tx[q], o, role)]
    PROVE  TenancyInv'
  <1> DEFINE x == tx[q]
             new == [i \in {o} |-> OrgRow(x.slug)]
             at == IF x.op = "create_org" THEN "commit" ELSE "addUser"
             y == Founded(x, o, role)
  <1>0. tx' = [tx EXCEPT ![q] = y]
    OBVIOUS
  <1>1. /\ x \in Tx /\ Founding(db, x) /\ x.op \in SignUps \cup {"create_org"}
        /\ Sound(db) /\ DOMAIN x.w = {}
    <2>1. x \in Tx /\ Task(db, ever, claims, x) /\ Sound(db)
      BY DEF TenancyInv
    <2>2. x.op \in SignUps \cup {"create_org", "create_user"} /\ Founding(db, x)
      BY <2>1, TaskAt DEF SignUps
    <2>3. DOMAIN x.w = {} /\ x.op # "create_user"
      BY <2>2 DEF Founding
    <2> QED BY <2>1, <2>2, <2>3
  <1>2. /\ o \in Orgs /\ o \in Ids /\ o \notin DOMAIN db /\ o \notin ever /\ o \notin Users
        /\ \A p \in Requests : o \notin DOMAIN tx[p].w
    BY Apart DEF Fresh, Ids, TenancyInv
  <1>3. x.slug \in Slugs /\ x.home = None /\ (x.op \in SignUps => x.role = "viewer")
    BY <1>1 DEF Founding
  <1> DEFINE r == OrgRow(x.slug)
  <1>4. Shaped(o, r) /\ r.slug = x.slug /\ Refs(r) = {} /\ r # None /\ r \in Row
    BY <1>2, <1>3, NewRows, TenancyAssumption DEF OrgRow, Refs, Shaped
  <1>5. DOMAIN new = {o} /\ new[o] = r /\ new = [i \in DOMAIN new |-> new[i]]
    OBVIOUS
  <1>6. at \in {"commit", "addUser"} /\ (at = "commit" <=> x.op = "create_org")
    OBVIOUS
  <1>7. role \in Roles \cup {None} /\ (x.op \in SignUps => role \in Roles)
    BY DEF FounderRoles, Roles
  <1> HIDE DEF new, at, r
  <1>8. new \in Writes
    BY <1>2, <1>4, <1>5, AreWrites
  <1>9. /\ y \in Tx /\ y.op = x.op /\ y.at = at /\ y.home = x.home /\ y.user = x.user /\ y.on = o
        /\ y.slug = x.slug /\ y.role = role /\ y.keys = x.keys /\ y.w = new
    <2>1. y = [x EXCEPT !.w = new, !.on = o, !.at = at, !.role = role]
      BY DEF Founded, new, at
    <2> HIDE DEF x, y
    <2> QED BY <1>1, <1>2, <1>6, <1>7, <1>8, <2>1, StageNames DEF Tx
  <1>10. Put(x.w, new) = new
    <2>1. \A i : i \in DOMAIN Put(x.w, new) <=> i \in DOMAIN new
      BY <1>1 DEF Put
    <2>2. \A i \in DOMAIN Put(x.w, new) : Put(x.w, new)[i] = new[i]
      BY <2>1 DEF Put
    <2>3. Put(x.w, new) = [i \in DOMAIN Put(x.w, new) |-> Put(x.w, new)[i]]
      BY DEF Put
    <2> QED BY <1>5, <2>1, <2>2, <2>3, SameFunction
  <1> HIDE DEF y
  <1>11. Consistent(db, ever, y.w)
    <2>1. Consistent(db, ever, x.w)
      BY DEF TenancyInv
    <2>2. /\ o \in Ids /\ o \notin DOMAIN db /\ o \notin ever /\ o \notin DOMAIN x.w
          /\ Shaped(o, r) /\ Refs(r) \subseteq DOMAIN Overlay(db, x.w) /\ ~SlugTaken(db, r.slug)
      BY <1>2, <1>4
    <2> HIDE DEF x
    <2>3. Consistent(db, ever, Put(x.w, new))
      BY <1>5, <2>1, <2>2, InsertFits
    <2> QED BY <1>9, <1>10, <2>3
  <1>12. ASSUME NEW p \in Requests \ {q} PROVE Separate(tx[p].w, y.w) /\ Separate(y.w, tx[p].w)
    <2>1. Separate(x.w, tx[p].w) /\ Separate(tx[p].w, x.w)
      BY DEF TenancyInv
    <2>2. \A i \in Orgs \cap DOMAIN tx[p].w : tx[p].w[i] # None => tx[p].w[i].slug # r.slug
      BY <1>4, Overlaid DEF SlugTaken
    <2> HIDE DEF x
    <2>3. o \notin DOMAIN x.w /\ o \notin DOMAIN tx[p].w
      BY <1>2 DEF x
    <2>4. r # None /\ Refs(r) = {} /\ DOMAIN new = {o} /\ new[o] = r
      BY <1>4, <1>5
    <2>5. Separate(Put(x.w, new), tx[p].w) /\ Separate(tx[p].w, Put(x.w, new))
      BY <2>1, <2>2, <2>3, <2>4, InsertSeparate
    <2> QED BY <1>9, <1>10, <2>5
  <1>13. Founding(db, y)
    BY <1>1, <1>2, <1>3, <1>5, <1>6, <1>7, <1>9 DEF Founding, r, SignUps
  <1>14. Task(db, ever, claims', y)
    BY <1>1, <1>9, <1>13 DEF Task
  <1>15. ASSUME NEW c \in claims' PROVE Vouched(c)'
    <2>1. c \in claims /\ c.user \in Users /\ UNCHANGED db
      BY DEF TenancyInv
    <2> QED BY <1>2, <1>5, <1>9, <1>0, <2>1, StillVouched
  <1>16. claims \subseteq claims' /\ claims' \subseteq [user : Users, org : Orgs, role : Roles]
    BY <1>1 DEF TenancyInv
  <1> QED BY <1>9, <1>11, <1>12, <1>14, <1>15, <1>16, <1>0, OwnStep

LEMMA InsertOrgKeeps ==
    ASSUME TenancyInv, NEW q \in Requests, InsertOrg(q)
    PROVE  TenancyInv'
  <1>1. CASE SlugTaken(db, tx[q].slug)
    BY <1>1, EndKeeps DEF InsertOrg
  <1>2. CASE ~SlugTaken(db, tx[q].slug)
    BY <1>2, FoundKeeps DEF InsertOrg
  <1> QED BY <1>1, <1>2

\* A usage row that is cleared is still one.
LEMMA UnloggedIs ==
    ASSUME NEW x \in Tx, x.on # None, NEW l \in Logs, NEW a, Shaped(l, a), NEW b, Unlogged(x, a, b)
    PROVE  /\ Shaped(l, b) /\ Later(a, b)
           /\ \A c : Unlogged(x, b, c) => Unlogged(x, a, c)
  <1>1. /\ a \in Row /\ b = [a EXCEPT !.user = b.user, !.key = b.key]
        /\ b.user \in {a.user, None} /\ b.key \in {a.key, None}
    BY DEF Shaped, Unlogged
  <1>2. /\ b \in Row /\ b.org = a.org /\ b.slug = a.slug /\ b.active = a.active
        /\ b.role = a.role /\ b.hash = a.hash
    BY <1>1 DEF Row
  <1>3. Shaped(l, b)
    BY <1>2, Apart DEF Shaped
  <1>4. Later(a, b)
    BY <1>1, <1>2 DEF Later
  <1>5. ASSUME NEW c, Unlogged(x, b, c) PROVE Unlogged(x, a, c)
    <2>1. None \notin x.keys \cup {x.on}
      BY Apart DEF Tx
    <2>2. c = [b EXCEPT !.user = c.user, !.key = c.key]
      BY <1>5 DEF Unlogged
    <2>3. c = [a EXCEPT !.user = c.user, !.key = c.key]
      BY <1>1, <1>2, <2>2 DEF Row
    <2>4. c.user = a.user \/ (c.user = None /\ a.user = x.on)
      BY <1>5, <2>1 DEF Unlogged
    <2>5. c.key = a.key \/ (c.key = None /\ a.key \in x.keys \cup {x.on})
      BY <1>5, <2>1 DEF Unlogged
    <2> QED BY <2>3, <2>4, <2>5 DEF Unlogged
  <1> QED BY <1>3, <1>4, <1>5

\* A statement of a deletion that clears usage rows
LEMMA UnlogKeeps ==
    ASSUME TenancyInv, NEW q \in Requests, NEW at \in Stages, at # "commit",
           NEW new, new = [l \in DOMAIN new |-> new[l]], DOMAIN new \subseteq Logs \cap DOMAIN View(q),
           \A l \in DOMAIN new : Unlogged(tx[q], View(q)[l], new[l]),
           Update(q, new, at), UNCHANGED <<db, ever, claims>>, Removing(db, ever, tx[q]), tx[q].on # None,
           \A y : Goes(tx[q], y, at) /\ Removing(db, ever, y) => Task(db, ever, claims, y)
    PROVE  TenancyInv'
  <1> DEFINE x == tx[q]
             y == Wrote(x, new, at)
  <1>1. x \in Tx
    BY DEF TenancyInv
  <1>2. ASSUME NEW l \in DOMAIN new
        PROVE  /\ Shaped(l, new[l]) /\ Later(View(q)[l], new[l]) /\ l \in Logs /\ l \in DOMAIN View(q)
               /\ l \in Ids /\ new[l] \in Row
    BY <1>1, ViewIs, UnloggedIs DEF Shaped
  <1>3. new \in Writes
    BY <1>2, AreWrites
  <1>4. Goes(x, y, at) /\ y.w = Put(x.w, new)
    BY <1>1, <1>3, WroteIs
  <1>5. /\ DOMAIN y.w = DOMAIN x.w \cup DOMAIN new
        /\ \A i \in DOMAIN y.w : y.w[i] = IF i \in DOMAIN new THEN new[i] ELSE x.w[i]
    BY <1>4 DEF Put
  <1> HIDE DEF x, y
  <1>6. ASSUME NEW i \in DOMAIN new
        PROVE  i \in DOMAIN db /\ new[i] # None /\ Unlogged(x, db[i], new[i])
    <2>1. i \in DOMAIN View(q) /\ i \in Logs /\ Unlogged(x, View(q)[i], new[i])
      BY <1>2 DEF x
    <2>2. new[i] # None
      BY <1>2, TenancyAssumption
    <2>3. CASE i \in DOMAIN x.w
      <3>1. x.w[i] # None /\ View(q)[i] = x.w[i]
        BY <2>1, <2>3, ViewIs DEF x
      <3>2. i \in DOMAIN db /\ Unlogged(x, db[i], x.w[i])
        BY <2>3, <3>1 DEF Removing, x
      <3>3. Shaped(i, db[i])
        BY <3>2 DEF TenancyInv, Sound
      <3> QED BY <1>1, <2>1, <2>2, <3>1, <3>2, <3>3, UnloggedIs DEF x
    <2>4. CASE i \notin DOMAIN x.w
      BY <2>1, <2>2, <2>4, ViewIs DEF x
    <2> QED BY <2>3, <2>4
  <1>7. Removing(db, ever, y)
    <2>1. ASSUME NEW i \in DOMAIN y.w
          PROVE  /\ i \in DOMAIN db
                 /\ \/ y.w[i] = None /\ (i = y.on \/ (i \in Keys /\ db[i].user = y.on))
                    \/ y.w[i] # None /\ i \in Logs /\ Unlogged(y, db[i], y.w[i])
      <3>1. ASSUME NEW a, NEW b, Unlogged(x, a, b) PROVE Unlogged(y, a, b)
        <4>1. y.on = x.on /\ y.keys = x.keys
          BY <1>4 DEF Goes
        <4> QED BY <3>1, <4>1, Zenon DEF Unlogged
      <3>2. CASE i \in DOMAIN new
        BY <1>2, <1>5, <1>6, <3>1, <3>2
      <3>3. CASE i \notin DOMAIN new
        BY <1>4, <1>5, <3>1, <3>3 DEF Removing, Goes, x
      <3> QED BY <3>2, <3>3
    <2>2. Kept(db, ever, y) /\ y.keys \subseteq ever /\ \A k \in y.keys \cap DOMAIN db : db[k].user = y.on
      BY <1>4 DEF Removing, Kept, Goes, x
    <2>3. y.at # "commit"
      BY <1>4 DEF Goes
    <2> QED BY <2>1, <2>2, <2>3 DEF Removing
  <1>8. Task(db, ever, claims, Wrote(tx[q], new, at))
    BY <1>4, <1>7 DEF x, y
  <1>9. Orgs \cap DOMAIN new = {}
    BY Apart
  <1> QED BY <1>2, <1>3, <1>8, <1>9, UpdateKeeps

LEMMA UnlogUserKeeps ==
    ASSUME TenancyInv, NEW q \in Requests, UnlogUser(q)
    PROVE  TenancyInv'
  <1> DEFINE x == tx[q]
             new == [l \in Selected(q, Logs, LAMBDA r : r.user = tx[q].on) |->
                       [View(q)[l] EXCEPT !.user = None]]
  <1>1. x.op = "delete_user" /\ RemovingUser(db, ever, x) /\ x.at = "unlogUser"
    BY TaskAt DEF UnlogUser, TenancyInv
  <1>2. x.on \in Users /\ Removing(db, ever, x) /\ x.on # None /\ x.keys = {}
    BY <1>1, Apart DEF RemovingUser
  <1>3. ASSUME NEW y, Goes(x, y, "pickKeys"), Removing(db, ever, y) PROVE Task(db, ever, claims, y)
    BY <1>1, <1>2, <1>3 DEF Task, RemovingUser, Goes
  <1>4. /\ DOMAIN new \subseteq Logs \cap DOMAIN View(q)
        /\ \A l \in DOMAIN new : View(q)[l].user = x.on /\ new[l] = [View(q)[l] EXCEPT !.user = None]
        /\ new = [l \in DOMAIN new |-> new[l]]
    BY DEF Selected
  <1>5. Update(q, new, "pickKeys") /\ UNCHANGED <<db, ever, claims>>
    BY DEF UnlogUser
  <1> HIDE DEF new
  <1>6. \A l \in DOMAIN new : Unlogged(x, View(q)[l], new[l])
    <2> SUFFICES ASSUME NEW l \in DOMAIN new PROVE Unlogged(x, View(q)[l], new[l])
      OBVIOUS
    <2>1. View(q)[l] \in Row
      BY <1>4, ViewIs DEF Shaped
    <2>2. /\ new[l].user = None /\ new[l].key = View(q)[l].key
          /\ new[l] = [View(q)[l] EXCEPT !.user = None, !.key = View(q)[l].key]
      BY <1>4, <2>1 DEF Row
    <2> QED BY <1>4, <2>2 DEF Unlogged
  <1> QED BY <1>2, <1>3, <1>4, <1>5, <1>6, StageNames, UnlogKeeps

LEMMA UnlogKeysKeeps ==
    ASSUME TenancyInv, NEW q \in Requests, UnlogKeys(q)
    PROVE  TenancyInv'
  <1> DEFINE x == tx[q]
             keys == x.keys \cup {x.on}
             new == [l \in Selected(q, Logs, LAMBDA r : r.key \in keys) |->
                       [View(q)[l] EXCEPT !.key = None]]
             at == IF x.op = "delete_user" THEN "dropKeys" ELSE "dropKey"
  <1>1. /\ \/ x.op = "delete_user" /\ RemovingUser(db, ever, x)
           \/ x.op = "revoke_api_key" /\ RemovingKey(db, ever, x)
        /\ x.at = "unlogKeys"
    BY TaskAt DEF UnlogKeys, TenancyInv
  <1>2. x.on \in Users \cup Keys /\ Removing(db, ever, x) /\ x.on # None
    BY <1>1, Apart DEF RemovingUser, RemovingKey
  <1>3. ASSUME NEW y, Goes(x, y, at), Removing(db, ever, y) PROVE Task(db, ever, claims, y)
    <2>1. CASE x.op = "delete_user" /\ RemovingUser(db, ever, x)
      <3>1. RemovingUser(db, ever, y)
        BY <1>3, <2>1 DEF RemovingUser, Goes
      <3> QED BY <1>3, <2>1, <3>1 DEF Task, Goes
    <2>2. CASE x.op = "revoke_api_key" /\ RemovingKey(db, ever, x)
      <3>1. RemovingKey(db, ever, y)
        BY <1>3, <2>2 DEF RemovingKey, Goes
      <3> QED BY <1>3, <2>2, <3>1 DEF Task, Goes
    <2> QED BY <1>1, <2>1, <2>2
  <1>4. /\ DOMAIN new \subseteq Logs \cap DOMAIN View(q)
        /\ \A l \in DOMAIN new : View(q)[l].key \in keys /\ new[l] = [View(q)[l] EXCEPT !.key = None]
        /\ new = [l \in DOMAIN new |-> new[l]]
    BY DEF Selected
  <1>5. Update(q, new, at) /\ UNCHANGED <<db, ever, claims>>
    BY DEF UnlogKeys
  <1>6. at \in Stages /\ at # "commit"
    BY StageNames
  <1> HIDE DEF new, at
  <1>7. \A l \in DOMAIN new : Unlogged(x, View(q)[l], new[l])
    <2> SUFFICES ASSUME NEW l \in DOMAIN new PROVE Unlogged(x, View(q)[l], new[l])
      OBVIOUS
    <2>1. View(q)[l] \in Row
      BY <1>4, ViewIs DEF Shaped
    <2>2. /\ new[l].key = None /\ new[l].user = View(q)[l].user
          /\ new[l] = [View(q)[l] EXCEPT !.user = View(q)[l].user, !.key = None]
      BY <1>4, <2>1 DEF Row
    <2> QED BY <1>4, <2>2 DEF Unlogged
  <1> QED BY <1>2, <1>3, <1>4, <1>5, <1>6, <1>7, UnlogKeeps

LEMMA PickKeysKeeps ==
    ASSUME TenancyInv, NEW q \in Requests, PickKeys(q)
    PROVE  TenancyInv'
  <1> DEFINE x == tx[q]
             keys == KeysOf(View(q), x.on)
             at == IF keys = {} THEN "dropKeys" ELSE "unlogKeys"
             y == [x EXCEPT !.keys = keys, !.at = at]
  <1>1. x.op = "delete_user" /\ RemovingUser(db, ever, x) /\ x.at = "pickKeys" /\ x \in Tx
    BY TaskAt DEF PickKeys, TenancyInv
  <1>2. x.on \in Users /\ Removing(db, ever, x) /\ x.on # None /\ x.keys = {}
    BY <1>1, Apart DEF RemovingUser
  <1>3. /\ tx' = [tx EXCEPT ![q] = y] /\ UNCHANGED <<db, ever, claims>>
    BY DEF PickKeys, TenancyInv
  <1>4. \A k \in keys : k \in Keys /\ k \in ever /\ (k \in DOMAIN db => db[k].user = x.on)
    <2> SUFFICES ASSUME NEW k \in keys
                 PROVE  k \in Keys /\ k \in ever /\ (k \in DOMAIN db => db[k].user = x.on)
      OBVIOUS
    <2>1. k \in Keys /\ k \in DOMAIN View(q) /\ View(q)[k].user = x.on
      BY DEF KeysOf
    <2>2. k \notin DOMAIN x.w
      BY <1>2, <2>1, ViewIs, Apart DEF Removing
    <2> QED BY <2>1, <2>2, ViewIs DEF TenancyInv
  <1>5. at \in Stages /\ at \in {"dropKeys", "unlogKeys"}
    BY StageNames
  <1> HIDE DEF keys, at
  <1>6. /\ y \in Tx /\ y.op = x.op /\ y.at = at /\ y.on = x.on /\ y.home = x.home
        /\ y.keys = keys /\ y.w = x.w
    BY <1>1, <1>4, <1>5 DEF Tx
  <1> HIDE DEF y
  <1>7. Removing(db, ever, y)
    <2>1. ASSUME NEW i \in DOMAIN y.w
          PROVE  /\ i \in DOMAIN db
                 /\ \/ y.w[i] = None /\ (i = y.on \/ (i \in Keys /\ db[i].user = y.on))
                    \/ y.w[i] # None /\ i \in Logs /\ Unlogged(y, db[i], y.w[i])
      <3>1. ASSUME NEW a, NEW b, Unlogged(x, a, b) PROVE Unlogged(y, a, b)
        <4>1. x.keys \subseteq y.keys /\ y.on = x.on
          BY <1>2, <1>6
        <4> QED BY <3>1, <4>1, Zenon DEF Unlogged
      <3> QED BY <1>2, <1>6, <3>1 DEF Removing
    <2>2. Kept(db, ever, y) /\ y.keys \subseteq ever /\ \A k \in y.keys \cap DOMAIN db : db[k].user = y.on
      BY <1>2, <1>4, <1>6 DEF Removing, Kept
    <2> QED BY <1>5, <1>6, <2>1, <2>2 DEF Removing
  <1>8. Task(db, ever, claims', y)
    BY <1>1, <1>2, <1>5, <1>6, <1>7 DEF Task, RemovingUser
  <1>9. /\ Consistent(db, ever, y.w)
        /\ \A p \in Requests \ {q} : Separate(tx[p].w, y.w) /\ Separate(y.w, tx[p].w)
    BY <1>6 DEF TenancyInv
  <1>10. ASSUME NEW c \in claims' PROVE Vouched(c)'
    <2>1. c \in claims /\ UNCHANGED db /\ (c.user \in DOMAIN y.w /\ y.w[c.user] # None => y.w[c.user].org = c.org)
      BY <1>3, <1>6 DEF TenancyInv, Vouched
    <2> QED BY <1>3, <2>1, StillVouched
  <1>11. claims \subseteq claims' /\ claims' \subseteq [user : Users, org : Orgs, role : Roles]
    BY <1>3 DEF TenancyInv
  <1> QED BY <1>3, <1>6, <1>8, <1>9, <1>10, <1>11, OwnStep

\* What a request is after it deleted rows
LEMMA DroppedIs ==
    ASSUME TenancyInv, NEW q \in Requests, NEW rows \in SUBSET DOMAIN View(q), NEW at \in Stages
    PROVE  LET y == Wrote(tx[q], [i \in rows |-> None], at) IN
           /\ Goes(tx[q], y, at) /\ DOMAIN y.w = DOMAIN tx[q].w \cup rows
           /\ \A i \in DOMAIN y.w : y.w[i] = IF i \in rows THEN None ELSE tx[q].w[i]
  <1> DEFINE new == [i \in rows |-> None]
             y == Wrote(tx[q], new, at)
  <1>1. DOMAIN new = rows /\ (\A i \in rows : new[i] = None) /\ new = [i \in DOMAIN new |-> new[i]]
    OBVIOUS
  <1> HIDE DEF new, y
  <1>2. new \in Writes
    BY <1>1, ViewIs, AreWrites
  <1>3. Goes(tx[q], y, at) /\ y.w = Put(tx[q].w, new)
    BY <1>2, WroteIs DEF y, TenancyInv
  <1>4. /\ Goes(tx[q], y, at) /\ DOMAIN y.w = DOMAIN tx[q].w \cup rows
        /\ \A i \in DOMAIN y.w : y.w[i] = IF i \in rows THEN None ELSE tx[q].w[i]
    BY <1>1, <1>3 DEF Put
  <1> QED BY <1>4 DEF y, new

\* A statement that deletes a user, a key, or the keys of a user
LEMMA DropOneKeeps ==
    ASSUME TenancyInv, NEW q \in Requests, NEW rows \in SUBSET DOMAIN View(q), NEW at \in Stages,
           Delete(q, rows, at), UNCHANGED <<db, ever, claims>>,
           Removing(db, ever, tx[q]), tx[q].on \in Users \cup Keys,
           \A i \in rows : i = tx[q].on \/ (i \in Keys /\ View(q)[i].user = tx[q].on),
           at = "commit" /\ tx[q].on \in DOMAIN View(q) => tx[q].on \in rows,
           \A y : Goes(tx[q], y, at) /\ Removing(db, ever, y) => Task(db, ever, claims, y)
    PROVE  TenancyInv'
  <1> DEFINE x == tx[q]
             y == Wrote(x, [i \in rows |-> None], at)
  <1>1. /\ Goes(x, y, at) /\ DOMAIN y.w = DOMAIN x.w \cup rows
        /\ \A i \in DOMAIN y.w : y.w[i] = IF i \in rows THEN None ELSE x.w[i]
    BY DroppedIs
  <1> HIDE DEF y
  <1>2. ASSUME NEW i \in rows
        PROVE  i \in DOMAIN db /\ (i = x.on \/ (i \in Keys /\ db[i].user = x.on))
    <2>1. i \in DOMAIN View(q) /\ i \in Users \cup Keys
      OBVIOUS
    <2>2. i \notin Logs
      BY <2>1, Apart
    <2>3. i \notin DOMAIN x.w
      BY <2>1, <2>2, ViewIs DEF Removing
    <2> QED BY <2>1, <2>3, ViewIs
  <1>3. Removing(db, ever, y)
    <2>1. ASSUME NEW i \in DOMAIN y.w
          PROVE  /\ i \in DOMAIN db
                 /\ \/ y.w[i] = None /\ (i = y.on \/ (i \in Keys /\ db[i].user = y.on))
                    \/ y.w[i] # None /\ i \in Logs /\ Unlogged(y, db[i], y.w[i])
      <3>0. y.on = x.on /\ y.keys = x.keys
        BY <1>1 DEF Goes
      <3>1. ASSUME NEW a, NEW b, Unlogged(x, a, b) PROVE Unlogged(y, a, b)
        BY <3>0, <3>1, Zenon DEF Unlogged
      <3>2. CASE i \in rows
        BY <1>1, <1>2, <3>0, <3>2
      <3>3. CASE i \notin rows
        BY <1>1, <3>0, <3>1, <3>3 DEF Removing
      <3> QED BY <3>2, <3>3
    <2>2. Kept(db, ever, y) /\ y.keys \subseteq ever /\ \A k \in y.keys \cap DOMAIN db : db[k].user = y.on
      BY <1>1 DEF Removing, Kept, Goes
    <2>3. y.at = "commit" /\ y.on \in DOMAIN db => y.on \in DOMAIN y.w
      BY <1>1, ViewIs DEF Goes
    <2> QED BY <2>1, <2>2, <2>3 DEF Removing
  <1>4. Task(db, ever, claims, y)
    BY <1>1, <1>3
  <1> QED BY <1>2, <1>4, DeleteKeeps DEF y

\* A statement that deletes rows of an organisation, or the organisation
LEMMA DropOfOrgKeeps ==
    ASSUME TenancyInv, NEW q \in Requests, NEW rows \in SUBSET DOMAIN View(q), NEW at \in Stages,
           Delete(q, rows, at), UNCHANGED <<db, ever, claims>>,
           tx[q].op = "delete_org", RemovingOrg(db, ever, tx[q]),
           at \in {"dropOrgKeys", "dropOrgUsers", "dropOrg", "commit"},
           \A i \in rows : IF i \in Orgs THEN i = tx[q].on ELSE View(q)[i].org = tx[q].on,
           at = "commit" /\ tx[q].on \in DOMAIN View(q) => tx[q].on \in rows
    PROVE  TenancyInv'
  <1> DEFINE x == tx[q]
             y == Wrote(x, [i \in rows |-> None], at)
  <1>1. /\ Goes(x, y, at) /\ DOMAIN y.w = DOMAIN x.w \cup rows
        /\ \A i \in DOMAIN y.w : y.w[i] = IF i \in rows THEN None ELSE x.w[i]
    BY DroppedIs
  <1> HIDE DEF y
  <1>2. ASSUME NEW i \in rows PROVE i \in DOMAIN db /\ Home(db, i) = x.on
    <2>1. i \in DOMAIN View(q) /\ i \notin DOMAIN x.w
      BY ViewIs DEF RemovingOrg
    <2> QED BY <2>1, ViewIs DEF Home
  <1>3. RemovingOrg(db, ever, y)
    <2>1. ASSUME NEW i \in DOMAIN y.w PROVE i \in DOMAIN db /\ y.w[i] = None /\ Home(db, i) = y.on
      BY <1>1, <1>2 DEF RemovingOrg, Goes
    <2>2. y.at = "commit" /\ y.on \in DOMAIN db => y.on \in DOMAIN y.w
      BY <1>1, ViewIs DEF Goes
    <2> QED BY <1>1, <2>1, <2>2 DEF RemovingOrg, Goes
  <1>4. Task(db, ever, claims, y)
    BY <1>1, <1>3 DEF Task, Goes
  <1> QED BY <1>2, <1>4, DeleteKeeps DEF y

LEMMA DropKeeps ==
    ASSUME TenancyInv, NEW q \in Requests, Drop(q)
    PROVE  TenancyInv'
  <1> DEFINE x == tx[q]
             rows == Doomed(q)
             at == After[x.at]
  <1>1. /\ x.at \in {"dropKeys", "dropUser", "dropKey", "dropLogs", "dropOrgKeys", "dropOrgUsers", "dropOrg"}
        /\ Delete(q, rows, at) /\ UNCHANGED <<db, ever, claims>>
    BY DEF Drop, After
  <1>2. /\ at = "dropUser" \/ at \in {"commit", "dropOrgKeys", "dropOrgUsers", "dropOrg"}
        /\ x.at = "dropKeys" => at = "dropUser"
        /\ x.at \in {"dropUser", "dropKey", "dropOrg"} => at = "commit"
        /\ x.at \in {"dropLogs", "dropOrgKeys", "dropOrgUsers"} =>
             at \in {"dropOrgKeys", "dropOrgUsers", "dropOrg"}
    BY <1>1 DEF After
  <1>3. at \in Stages
    BY <1>2 DEF Stages
  <1>4. Task(db, ever, claims, x)
    BY DEF TenancyInv
  <1> HIDE DEF at
  <1>5. CASE x.at = "dropKeys"
    <2>1. x.op = "delete_user" /\ RemovingUser(db, ever, x)
      BY <1>4, <1>5, TaskAt
    <2>2. x.on \in Users \cup Keys /\ Removing(db, ever, x)
      BY <2>1 DEF RemovingUser
    <2>3. rows = KeysOf(View(q), x.on)
      BY <1>5 DEF Doomed
    <2>4. rows \in SUBSET DOMAIN View(q) /\ \A i \in rows : i \in Keys /\ View(q)[i].user = x.on
      BY <2>3 DEF KeysOf
    <2>5. ASSUME NEW y, Goes(x, y, at), Removing(db, ever, y) PROVE Task(db, ever, claims, y)
      BY <1>2, <1>5, <2>1, <2>5 DEF Task, RemovingUser, Goes
    <2>6. at # "commit"
      BY <1>2, <1>5
    <2> HIDE DEF rows, x
    <2> QED BY <1>1, <1>3, <2>2, <2>4, <2>5, <2>6, DropOneKeeps DEF x
  <1>6. CASE x.at \in {"dropUser", "dropKey"}
    <2>1. \/ x.op = "delete_user" /\ RemovingUser(db, ever, x)
          \/ x.op = "revoke_api_key" /\ RemovingKey(db, ever, x)
      BY <1>4, <1>6, TaskAt
    <2>2. x.on \in Users \cup Keys /\ Removing(db, ever, x)
      BY <2>1 DEF RemovingUser, RemovingKey
    <2>3. rows = {x.on} \cap DOMAIN View(q)
      BY <1>6 DEF Doomed
    <2>4. /\ rows \in SUBSET DOMAIN View(q) /\ \A i \in rows : i = x.on
          /\ x.on \in DOMAIN View(q) => x.on \in rows
      BY <2>3
    <2>5. ASSUME NEW y, Goes(x, y, at), Removing(db, ever, y) PROVE Task(db, ever, claims, y)
      <3>1. CASE x.op = "delete_user" /\ RemovingUser(db, ever, x)
        <4>1. RemovingUser(db, ever, y)
          BY <1>2, <1>6, <2>5, <3>1 DEF RemovingUser, Goes
        <4> QED BY <2>5, <3>1, <4>1 DEF Task, Goes
      <3>2. CASE x.op = "revoke_api_key" /\ RemovingKey(db, ever, x)
        <4>1. RemovingKey(db, ever, y)
          BY <1>2, <1>6, <2>5, <3>2 DEF RemovingKey, Goes
        <4> QED BY <2>5, <3>2, <4>1 DEF Task, Goes
      <3> QED BY <2>1, <3>1, <3>2
    <2> HIDE DEF rows, x
    <2> QED BY <1>1, <1>3, <2>2, <2>4, <2>5, DropOneKeeps DEF x
  <1>7. CASE x.at \in {"dropLogs", "dropOrgKeys", "dropOrgUsers", "dropOrg"}
    <2>1. x.op = "delete_org" /\ RemovingOrg(db, ever, x)
      BY <1>4, <1>7, TaskAt
    <2>2. /\ rows \in SUBSET DOMAIN View(q)
          /\ \A i \in rows : IF i \in Orgs THEN i = x.on ELSE View(q)[i].org = x.on
          /\ at = "commit" /\ x.on \in DOMAIN View(q) => x.on \in rows
      <3>1. CASE x.at = "dropLogs"
        <4>1. rows = Selected(q, Logs, LAMBDA r : r.org = x.on)
          BY <3>1 DEF Doomed
        <4> QED BY <1>2, <3>1, <4>1, Apart DEF Selected
      <3>2. CASE x.at = "dropOrgKeys"
        <4>1. rows = Selected(q, Keys, LAMBDA r : r.org = x.on)
          BY <3>2 DEF Doomed
        <4> QED BY <1>2, <3>2, <4>1, Apart DEF Selected
      <3>3. CASE x.at = "dropOrgUsers"
        <4>1. rows = Selected(q, Users, LAMBDA r : r.org = x.on)
          BY <3>3 DEF Doomed
        <4> QED BY <1>2, <3>3, <4>1, Apart DEF Selected
      <3>4. CASE x.at = "dropOrg"
        <4>1. rows = {x.on} \cap DOMAIN View(q)
          BY <3>4 DEF Doomed
        <4>2. x.on \in Orgs
          BY <2>1 DEF RemovingOrg
        <4> QED BY <4>1, <4>2
      <3> QED BY <1>7, <3>1, <3>2, <3>3, <3>4
    <2>3. at \in {"dropOrgKeys", "dropOrgUsers", "dropOrg", "commit"}
      BY <1>2, <1>7
    <2> HIDE DEF rows
    <2> QED BY <1>1, <1>3, <2>1, <2>2, <2>3, DropOfOrgKeeps
  <1> QED BY <1>1, <1>5, <1>6, <1>7

LEMMA StartKeeps ==
    ASSUME TenancyInv, NEW q \in Requests,
           NEW op \in Ops, NEW at \in Stages, NEW home \in Orgs \cup {None},
           NEW user \in Users \cup {None}, NEW on \in Ids \cup {None},
           NEW slug \in Slugs \cup {None}, NEW role \in Roles \cup {None},
           Begin(q, op, at, home, user, on, slug, role),
           \A x : Started(x, op, at, home, user, on, slug, role) => Task(db, ever, claims, x)
    PROVE  TenancyInv'
  <1>1. Started(Begun(op, at, home, user, on, slug, role), op, at, home, user, on, slug, role)
    BY BegunIs
  <1> QED BY <1>1, BeginKeeps

LEMMA SignUpKeeps ==
    ASSUME TenancyInv, NEW q \in Requests, NEW op \in SignUps, NEW s \in Slugs, SignUp(q, op, s)
    PROVE  TenancyInv'
  <1>0. /\ op \in Ops /\ "addOrg" \in Stages /\ "addUser" \in Stages /\ "viewer" \in Roles
        /\ op \in SignUps \cup {"create_org", "create_user"} /\ op \notin {"create_org", "create_user"}
    BY DEF SignUps, Ops, Stages, Roles
  <1>1. CASE Begin(q, op, "addOrg", None, None, None, s, "viewer")
    <2>1. ASSUME NEW x, Started(x, op, "addOrg", None, None, None, s, "viewer")
          PROVE  Task(db, ever, claims, x)
      <3>1. Founding(db, x)
        BY <1>0, <2>1 DEF Founding, Started
      <3> QED BY <1>0, <2>1, <3>1 DEF Task, Started
    <2> QED BY <1>0, <1>1, <2>1, StartKeeps
  <1>2. CASE \E o \in Orgs : Begin(q, op, "addUser", None, None, o, s, "viewer")
    <2> PICK o \in Orgs : Begin(q, op, "addUser", None, None, o, s, "viewer")
      BY <1>2
    <2>1. ASSUME NEW x, Started(x, op, "addUser", None, None, o, s, "viewer")
          PROVE  Task(db, ever, claims, x)
      <3>1. Founding(db, x)
        BY <1>0, <2>1 DEF Founding, Started
      <3> QED BY <1>0, <2>1, <3>1 DEF Task, Started
    <2>2. o \in Ids
      BY DEF Ids
    <2> QED BY <1>0, <2>1, <2>2, StartKeeps
  <1> QED BY <1>1, <1>2 DEF SignUp

\* The callers, and the organisation they are kept to
LEMMA CallerIs ==
    ASSUME TenancyInv, NEW c \in claims
    PROVE  /\ c.user \in Users /\ c.org \in Orgs /\ HomeOf(c) \in Orgs \cup {None}
           /\ \A o : InScope(c, o) /\ HomeOf(c) # None => o = HomeOf(c)
           /\ \A x : x.user = c.user /\ x.home = c.org => Known(claims, x)
  <1>1. c.user \in Users /\ c.org \in Orgs
    BY DEF TenancyInv
  <1> QED BY <1>1 DEF HomeOf, InScope, Known

LEMMA CreateOrgKeeps ==
    ASSUME TenancyInv, NEW q \in Requests, NEW c \in claims, NEW s \in Slugs, CreateOrg(q, c, s)
    PROVE  TenancyInv'
  <1>1. ASSUME NEW x, Started(x, "create_org", "addOrg", None, None, None, s, None)
        PROVE  Task(db, ever, claims, x)
    <2>1. Founding(db, x)
      BY <1>1 DEF Founding, Started, SignUps
    <2> QED BY <1>1, <2>1 DEF Task, Started
  <1>2. "create_org" \in Ops /\ "addOrg" \in Stages
    BY DEF Ops, Stages
  <1> QED BY <1>1, <1>2, StartKeeps DEF CreateOrg

LEMMA CreateUserKeeps ==
    ASSUME TenancyInv, NEW q \in Requests, NEW c \in claims, NEW o \in Orgs, NEW r \in GivenRoles,
           CreateUser(q, c, o, r)
    PROVE  TenancyInv'
  <1>0. r \in Roles /\ o \in Ids /\ HomeOf(c) \in Orgs \cup {None} /\ (HomeOf(c) # None => o = HomeOf(c))
    BY TenancyAssumption, CallerIs DEF CreateUser, Ids
  <1>1. ASSUME NEW x, Started(x, "create_user", "addUser", HomeOf(c), None, o, None, r)
        PROVE  Task(db, ever, claims, x)
    <2>1. Founding(db, x)
      BY <1>0, <1>1 DEF Founding, Started, SignUps
    <2> QED BY <1>1, <2>1 DEF Task, Started
  <1>2. "create_user" \in Ops /\ "addUser" \in Stages
    BY DEF Ops, Stages
  <1>3. Begin(q, "create_user", "addUser", HomeOf(c), None, o, None, r)
    BY DEF CreateUser
  <1> QED BY <1>0, <1>1, <1>2, <1>3, StartKeeps

LEMMA DeleteOrgKeeps ==
    ASSUME TenancyInv, NEW q \in Requests, NEW c \in claims, NEW o \in Orgs, DeleteOrg(q, c, o)
    PROVE  TenancyInv'
  <1>0. o \in ever /\ o \in Ids
    BY DEF DeleteOrg, TenancyInv, Ids
  <1>1. ASSUME NEW x, Started(x, "delete_org", "dropLogs", None, None, o, None, None)
        PROVE  Task(db, ever, claims, x)
    <2>1. RemovingOrg(db, ever, x)
      BY <1>0, <1>1 DEF RemovingOrg, Started
    <2> QED BY <1>1, <2>1 DEF Task, Started
  <1>2. "delete_org" \in Ops /\ "dropLogs" \in Stages
    BY DEF Ops, Stages
  <1> QED BY <1>0, <1>1, <1>2, StartKeeps DEF DeleteOrg

\* A caller looks up a row of its own organisation.
LEMMA LookedUp ==
    ASSUME TenancyInv, NEW c \in claims, NEW i \in (Users \cup Keys) \cap DOMAIN db, InScope(c, db[i].org)
    PROVE  /\ i \in Ids /\ HomeOf(c) \in Orgs \cup {None}
           /\ \A x : x.on = i /\ x.home = HomeOf(c) => Kept(db, ever, x)
           /\ \A x : x.on = i /\ x.home = HomeOf(c) /\ x.keys = {} /\ DOMAIN x.w = {} /\ x.at # "commit"
                       => Removing(db, ever, x)
  <1>1. i \in Ids /\ i \in ever /\ HomeOf(c) \in Orgs \cup {None}
    BY CallerIs DEF TenancyInv, Ids
  <1>2. ASSUME NEW x, x.on = i, x.home = HomeOf(c) PROVE Kept(db, ever, x)
    BY <1>1, <1>2, CallerIs DEF Kept
  <1>3. ASSUME NEW x, x.on = i, x.home = HomeOf(c), x.keys = {}, DOMAIN x.w = {}, x.at # "commit"
        PROVE  Removing(db, ever, x)
    BY <1>2, <1>3 DEF Removing
  <1> QED BY <1>1, <1>2, <1>3

LEMMA UpdateUserKeeps ==
    ASSUME TenancyInv, NEW q \in Requests, NEW c \in claims, NEW u \in Users, NEW r \in GivenRoles,
           UpdateUser(q, c, u, r)
    PROVE  TenancyInv'
  <1>0. /\ Begin(q, "update_user", "setRole", HomeOf(c), None, u, None, r)
        /\ u \in (Users \cup Keys) \cap DOMAIN db /\ InScope(c, db[u].org)
    BY DEF UpdateUser
  <1>1. /\ r \in Roles /\ u \in Ids /\ HomeOf(c) \in Orgs \cup {None}
        /\ \A x : x.on = u /\ x.home = HomeOf(c) => Kept(db, ever, x)
    BY <1>0, TenancyAssumption, LookedUp
  <1>2. ASSUME NEW x, Started(x, "update_user", "setRole", HomeOf(c), None, u, None, r)
        PROVE  Task(db, ever, claims, x)
    <2>1. SettingRole(db, ever, x)
      BY <1>1, <1>2 DEF SettingRole, Started
    <2> QED BY <1>2, <2>1 DEF Task, Started
  <1>3. "update_user" \in Ops /\ "setRole" \in Stages
    BY DEF Ops, Stages
  <1> QED BY <1>0, <1>1, <1>2, <1>3, StartKeeps

LEMMA DeleteUserKeeps ==
    ASSUME TenancyInv, NEW q \in Requests, NEW c \in claims, NEW u \in Users, DeleteUser(q, c, u)
    PROVE  TenancyInv'
  <1>0. /\ Begin(q, "delete_user", "unlogUser", HomeOf(c), None, u, None, None)
        /\ u \in (Users \cup Keys) \cap DOMAIN db /\ InScope(c, db[u].org)
    BY DEF DeleteUser
  <1>1. /\ u \in Ids /\ HomeOf(c) \in Orgs \cup {None}
        /\ \A x : x.on = u /\ x.home = HomeOf(c) /\ x.keys = {} /\ DOMAIN x.w = {} /\ x.at # "commit"
                       => Removing(db, ever, x)
    BY <1>0, LookedUp
  <1>2. ASSUME NEW x, Started(x, "delete_user", "unlogUser", HomeOf(c), None, u, None, None)
        PROVE  Task(db, ever, claims, x)
    <2>1. RemovingUser(db, ever, x)
      BY <1>1, <1>2 DEF RemovingUser, Started
    <2> QED BY <1>2, <2>1 DEF Task, Started
  <1>3. "delete_user" \in Ops /\ "unlogUser" \in Stages
    BY DEF Ops, Stages
  <1> QED BY <1>0, <1>1, <1>2, <1>3, StartKeeps

LEMMA CreateApiKeyKeeps ==
    ASSUME TenancyInv, NEW q \in Requests, NEW c \in claims, CreateApiKey(q, c)
    PROVE  TenancyInv'
  <1>1. ASSUME NEW x, Started(x, "create_api_key", "addKey", c.org, c.user, None, None, None)
        PROVE  Task(db, ever, claims, x)
    <2>1. AddingKey(db, claims, x)
      BY <1>1, CallerIs DEF AddingKey, Started
    <2> QED BY <1>1, <2>1 DEF Task, Started
  <1>2. "create_api_key" \in Ops /\ "addKey" \in Stages
    BY DEF Ops, Stages
  <1>3. Begin(q, "create_api_key", "addKey", c.org, c.user, None, None, None)
    BY DEF CreateApiKey
  <1> QED BY <1>1, <1>2, <1>3, CallerIs, StartKeeps

LEMMA RotateApiKeyKeeps ==
    ASSUME TenancyInv, NEW q \in Requests, NEW c \in claims, NEW k \in Keys, RotateApiKey(q, c, k)
    PROVE  TenancyInv'
  <1>0. /\ Begin(q, "rotate_api_key", "rotate", HomeOf(c), None, k, None, None)
        /\ k \in (Users \cup Keys) \cap DOMAIN db /\ InScope(c, db[k].org)
    BY DEF RotateApiKey, OwnKey
  <1>1. /\ k \in Ids /\ HomeOf(c) \in Orgs \cup {None}
        /\ \A x : x.on = k /\ x.home = HomeOf(c) => Kept(db, ever, x)
    BY <1>0, LookedUp
  <1>2. ASSUME NEW x, Started(x, "rotate_api_key", "rotate", HomeOf(c), None, k, None, None)
        PROVE  Task(db, ever, claims, x)
    <2>1. Rotating(db, ever, x)
      BY <1>1, <1>2 DEF Rotating, Started
    <2> QED BY <1>2, <2>1 DEF Task, Started
  <1>3. "rotate_api_key" \in Ops /\ "rotate" \in Stages
    BY DEF Ops, Stages
  <1> QED BY <1>0, <1>1, <1>2, <1>3, StartKeeps

LEMMA RevokeApiKeyKeeps ==
    ASSUME TenancyInv, NEW q \in Requests, NEW c \in claims, NEW k \in Keys, RevokeApiKey(q, c, k)
    PROVE  TenancyInv'
  <1> DEFINE at == IF db[k].active THEN "deactivate" ELSE "unlogKeys"
  <1>0. /\ Begin(q, "revoke_api_key", at, HomeOf(c), None, k, None, None)
        /\ k \in (Users \cup Keys) \cap DOMAIN db /\ InScope(c, db[k].org)
    BY DEF RevokeApiKey, OwnKey
  <1>1. /\ k \in Ids /\ HomeOf(c) \in Orgs \cup {None}
        /\ \A x : x.on = k /\ x.home = HomeOf(c) => Kept(db, ever, x)
        /\ \A x : x.on = k /\ x.home = HomeOf(c) /\ x.keys = {} /\ DOMAIN x.w = {} /\ x.at # "commit"
                       => Removing(db, ever, x)
    BY <1>0, LookedUp
  <1>2. /\ at = "deactivate" \/ (at = "unlogKeys" /\ ~db[k].active)
        /\ "revoke_api_key" \in Ops /\ at \in Stages
    BY DEF Ops, Stages
  <1> HIDE DEF at
  <1>3. ASSUME NEW x, Started(x, "revoke_api_key", at, HomeOf(c), None, k, None, None)
        PROVE  Task(db, ever, claims, x)
    <2>1. CASE at = "deactivate"
      <3>1. Deactivating(db, ever, x)
        BY <1>1, <1>3, <2>1 DEF Deactivating, Started
      <3> QED BY <1>3, <3>1 DEF Task, Started
    <2>2. CASE at = "unlogKeys" /\ ~db[k].active
      <3>1. RemovingKey(db, ever, x)
        BY <1>1, <1>3, <2>2 DEF RemovingKey, Started
      <3> QED BY <1>3, <3>1 DEF Task, Started
    <2> QED BY <1>2, <2>1, <2>2
  <1> QED BY <1>0, <1>1, <1>2, <1>3, StartKeeps

LEMMA InferKeeps ==
    ASSUME TenancyInv, NEW q \in Requests, NEW c \in claims, Infer(q, c)
    PROVE  TenancyInv'
  <1>1. ASSUME NEW x, Started(x, "chat_completions", "known", c.org, c.user, None, None, None)
        PROVE  Task(db, ever, claims, x)
    <2>1. Booking(db, ever, claims, x)
      BY <1>1, CallerIs DEF Booking, Started
    <2> QED BY <1>1, <2>1 DEF Task, Started
  <1>2. "chat_completions" \in Ops /\ "known" \in Stages
    BY DEF Ops, Stages
  <1>3. Begin(q, "chat_completions", "known", c.org, c.user, None, None, None)
    BY DEF Infer
  <1> QED BY <1>1, <1>2, <1>3, CallerIs, StartKeeps

LEMMA InferWithKeyKeeps ==
    ASSUME TenancyInv, NEW q \in Requests, NEW k \in Keys, InferWithKey(q, k)
    PROVE  TenancyInv'
  <1> DEFINE c == Claim(db[k].user, db[k].org, db[db[k].user].role)
  <1>0. /\ Begin(q, "chat_completions", "known", db[k].org, db[k].user, k, None, None)
        /\ k \in DOMAIN db
    BY DEF InferWithKey
  <1>1. k \in Ids /\ k \in ever /\ Shaped(k, db[k]) /\ Linked(db, db[k]) /\ Identities(db) \subseteq claims
    BY <1>0 DEF TenancyInv, Sound, Ids
  <1>2. db[k].user \in Users \cap DOMAIN db /\ db[db[k].user].org = db[k].org /\ db[k].org \in Orgs
    BY <1>1, Apart DEF Shaped, Linked
  <1>3. c \in claims
    BY <1>1, <1>2 DEF Identities
  <1>4. c.user = db[k].user /\ c.org = db[k].org
    BY DEF Claim
  <1>5. ASSUME NEW x, Started(x, "chat_completions", "known", db[k].org, db[k].user, k, None, None)
        PROVE  Task(db, ever, claims, x)
    <2>1. Known(claims, x)
      BY <1>3, <1>4, <1>5 DEF Known, Started
    <2>2. Booking(db, ever, claims, x)
      BY <1>1, <1>5, <2>1 DEF Booking, Started
    <2> QED BY <1>5, <2>2 DEF Task, Started
  <1>6. "chat_completions" \in Ops /\ "known" \in Stages
    BY DEF Ops, Stages
  <1> QED BY <1>0, <1>1, <1>2, <1>5, <1>6, StartKeeps

LEMMA ArriveKeeps ==
    ASSUME TenancyInv, NEW q \in Requests, Arrive(q)
    PROVE  TenancyInv'
  <1>1. ASSUME NEW s \in Slugs, Register(q, s) \/ GoogleAuth(q, s) PROVE TenancyInv'
    BY <1>1, SignUpKeeps DEF Register, GoogleAuth, SignUps
  <1> QED BY <1>1, CreateOrgKeeps, DeleteOrgKeeps, CreateUserKeeps, UpdateUserKeeps, DeleteUserKeeps,
             CreateApiKeyKeeps, RotateApiKeyKeeps, RevokeApiKeyKeeps, InferKeeps, InferWithKeyKeeps
          DEF Arrive

-----------------------------------------------------------------------------
(***************************************************************************)
(* Every step keeps the invariant, and is a step of Directory or none.     *)
(***************************************************************************)
LEMMA InitKeeps == Init => TenancyInv
  <1> SUFFICES ASSUME Init PROVE TenancyInv
    OBVIOUS
  <1>1. /\ Sound(db) /\ DOMAIN db \subseteq ever /\ ever \subseteq Ids /\ claims = Identities(db)
        /\ tx = [q \in Requests |-> Idle]
    BY SoundInit DEF Init, Sound
  <1>2. tx \in [Requests -> Tx] /\ \A q \in Requests : tx[q] = Idle /\ DOMAIN tx[q].w = {}
    BY <1>1, IdleIsTx
  <1>3. ASSUME NEW q \in Requests PROVE Consistent(db, ever, tx[q].w) /\ Task(db, ever, claims, tx[q])
    BY <1>1, <1>2, EmptyFits DEF Task
  <1>4. \A p, q \in Requests : p # q => Separate(tx[p].w, tx[q].w)
    BY <1>1, <1>2, EmptyFits
  <1>5. ASSUME NEW c \in claims
        PROVE  c \in [user : Users, org : Orgs, role : Roles] /\ Vouched(c)
    <2>1. PICK u \in Users \cap DOMAIN db : c = Claim(u, db[u].org, db[u].role)
      BY <1>1 DEF Identities
    <2>2. db[u].org \in Orgs /\ db[u].role \in Roles
      BY <1>1 DEF Sound, Shaped
    <2>3. c \in [user : Users, org : Orgs, role : Roles] /\ c.user = u /\ c.org = db[u].org
      BY <2>1, <2>2 DEF Claim
    <2> QED BY <1>2, <2>3 DEF Vouched
  <1> QED BY <1>1, <1>2, <1>3, <1>4, <1>5 DEF TenancyInv

LEMMA StepKeepsInv == TenancyInv /\ [Next]_vars => TenancyInv'
  <1>1. ASSUME TenancyInv, UNCHANGED vars PROVE TenancyInv'
    <2>1. UNCHANGED <<db, tx, claims, ever>>
      BY <1>1 DEF vars
    <2> QED BY <1>1, <2>1 DEF TenancyInv, Vouched
  <1>2. ASSUME TenancyInv, NEW q \in Requests, Execute(q) PROVE TenancyInv'
    BY <1>2, InsertOrgKeeps, InsertUserKeeps, WriteRoleKeeps, UnlogUserKeeps, PickKeysKeeps,
       UnlogKeysKeeps, DropKeeps, InsertKeyKeeps, WriteHashKeeps, DeactivateKeeps, LogUsageKeeps
       DEF Execute
  <1> QED BY <1>1, <1>2, ArriveKeeps, CommitKeeps, RollbackKeeps DEF Next

LEMMA AlwaysTenancyInv == Spec => []TenancyInv
  BY InitKeeps, StepKeepsInv, PTL DEF Spec

\* What arrives as x
Arrives(q, x) ==
    /\ q \notin InFlight /\ begun < MaxRequests /\ begun' = begun + 1
    /\ tx' = [tx EXCEPT ![q] = x] /\ DOMAIN x.w = {}
    /\ x.at \in {"addOrg", "addUser", "dropLogs", "setRole", "unlogUser", "addKey", "rotate",
                 "deactivate", "unlogKeys", "known"}
    /\ x.at = "unlogKeys" => x.op = "revoke_api_key"
    /\ alone' = IF InFlight = {} THEN {q} ELSE {}
    /\ UNCHANGED <<db, claims, ever>>

LEMMA BeginIs ==
    ASSUME NEW q, NEW op, NEW at, NEW home, NEW user, NEW on, NEW slug, NEW role,
           Begin(q, op, at, home, user, on, slug, role),
           at \in {"addOrg", "addUser", "dropLogs", "setRole", "unlogUser", "addKey", "rotate",
                   "deactivate", "unlogKeys", "known"},
           at = "unlogKeys" => op = "revoke_api_key"
    PROVE  \E x : Arrives(q, x)
  <1> DEFINE x == Begun(op, at, home, user, on, slug, role)
  <1>1. x.op = op /\ x.at = at /\ DOMAIN x.w = {}
    <2>1. /\ Idle = [op |-> "register", at |-> "idle", home |-> None, user |-> None, on |-> None,
                     slug |-> None, role |-> None, keys |-> {}, w |-> Idle.w]
          /\ DOMAIN Idle.w = {}
      BY IdleIsTx DEF Idle
    <2> QED BY <2>1 DEF Begun
  <1>2. tx' = [tx EXCEPT ![q] = x]
    BY DEF Begin, Begun
  <1> HIDE DEF x
  <1>3. Arrives(q, x)
    BY <1>1, <1>2 DEF Begin, Arrives
  <1> QED BY <1>3

LEMMA ArriveIs ==
    ASSUME NEW q, Arrive(q)
    PROVE  \E x : Arrives(q, x)
  <1>1. ASSUME NEW s, Register(q, s) \/ GoogleAuth(q, s) PROVE \E x : Arrives(q, x)
    BY <1>1, BeginIs DEF Register, GoogleAuth, SignUp
  <1>2. ASSUME NEW c, NEW s, CreateOrg(q, c, s) PROVE \E x : Arrives(q, x)
    BY <1>2, BeginIs DEF CreateOrg
  <1>3. ASSUME NEW c, NEW o, DeleteOrg(q, c, o) PROVE \E x : Arrives(q, x)
    BY <1>3, BeginIs DEF DeleteOrg
  <1>4. ASSUME NEW c, NEW o, NEW r, CreateUser(q, c, o, r) PROVE \E x : Arrives(q, x)
    BY <1>4, BeginIs DEF CreateUser
  <1>5. ASSUME NEW c, NEW u, NEW r, UpdateUser(q, c, u, r) PROVE \E x : Arrives(q, x)
    BY <1>5, BeginIs DEF UpdateUser
  <1>6. ASSUME NEW c, NEW u, DeleteUser(q, c, u) PROVE \E x : Arrives(q, x)
    BY <1>6, BeginIs DEF DeleteUser
  <1>7. ASSUME NEW c, CreateApiKey(q, c) PROVE \E x : Arrives(q, x)
    BY <1>7, BeginIs DEF CreateApiKey
  <1>8. ASSUME NEW c, NEW k, RotateApiKey(q, c, k) PROVE \E x : Arrives(q, x)
    BY <1>8, BeginIs DEF RotateApiKey
  <1>9. ASSUME NEW c, NEW k, RevokeApiKey(q, c, k) PROVE \E x : Arrives(q, x)
    BY <1>9, BeginIs DEF RevokeApiKey
  <1>10. ASSUME NEW c, Infer(q, c) PROVE \E x : Arrives(q, x)
    BY <1>10, BeginIs DEF Infer
  <1>11. ASSUME NEW k, InferWithKey(q, k) PROVE \E x : Arrives(q, x)
    BY <1>11, BeginIs DEF InferWithKey
  <1> QED BY <1>1, <1>2, <1>3, <1>4, <1>5, <1>6, <1>7, <1>8, <1>9, <1>10, <1>11 DEF Arrive

LEMMA ExecuteIs ==
    ASSUME NEW q, Execute(q)
    PROVE  UNCHANGED <<db, ever, begun, alone>>
  <1>1. CASE InsertOrg(q) \/ InsertUser(q) \/ WriteRole(q)
    BY <1>1 DEF InsertOrg, InsertUser, WriteRole
  <1>2. CASE UnlogUser(q) \/ PickKeys(q) \/ UnlogKeys(q)
    BY <1>2 DEF UnlogUser, PickKeys, UnlogKeys
  <1>3. CASE Drop(q) \/ InsertKey(q) \/ WriteHash(q)
    BY <1>3 DEF Drop, InsertKey, WriteHash
  <1>4. CASE Deactivate(q) \/ LogUsage(q)
    BY <1>4 DEF Deactivate, LogUsage
  <1> QED BY <1>1, <1>2, <1>3, <1>4 DEF Execute

LEMMA StepIsOne == TenancyInv /\ [Next]_vars => [DirNext]_db
  <1>1. ASSUME UNCHANGED vars PROVE UNCHANGED db
    BY <1>1 DEF vars
  <1>2. ASSUME NEW q \in Requests, Arrive(q) PROVE UNCHANGED db
    BY <1>2, ArriveIs DEF Arrives
  <1>3. ASSUME NEW q \in Requests, Execute(q) \/ Rollback(q) PROVE UNCHANGED db
    BY <1>3, ExecuteIs DEF Rollback
  <1> QED BY <1>1, <1>2, <1>3, CommitKeeps DEF Next

(***************************************************************************)
(* The requests, statement by statement, in transactions that overlap,     *)
(* fail and are rolled back, do to the committed rows only what the whole  *)
(* operations of Directory do: registrations, the administration of        *)
(* organisations, users and keys, and log_usage.                           *)
(***************************************************************************)
THEOREM OverlapIsOneByOne == Spec => DirSpec
  <1>1. Init => DirInit
    BY DEF Init
  <1> QED BY <1>1, StepIsOne, AlwaysTenancyInv, PTL DEF Spec, DirSpec

(***************************************************************************)
(* So the committed rows have one tenant each, whatever overlaps; usage    *)
(* stays booked, and a revoked key stays revoked.                          *)
(***************************************************************************)
THEOREM OverlapKeepsTenants == Spec => []OneTenant /\ UsageLasts /\ RevocationLasts
  BY OverlapIsOneByOne, TenantsStayApart, UsageStaysBooked, RevocationIsFinal

\* The counter and the history of overlaps
LEMMA StepKeepsBounds ==
    begun \in 0..MaxRequests /\ alone \subseteq Requests /\ [Next]_vars
      => (begun \in 0..MaxRequests /\ alone \subseteq Requests)'
  <1> SUFFICES ASSUME begun \in 0..MaxRequests, alone \subseteq Requests, [Next]_vars
               PROVE  (begun \in 0..MaxRequests /\ alone \subseteq Requests)'
    OBVIOUS
  <1>1. CASE UNCHANGED vars
    BY <1>1 DEF vars
  <1>2. ASSUME NEW q \in Requests, Arrive(q)
        PROVE  (begun \in 0..MaxRequests /\ alone \subseteq Requests)'
    BY <1>2, ArriveIs, TenancyAssumption DEF Arrives
  <1>3. ASSUME NEW q \in Requests, Execute(q) \/ Commit(q) \/ Rollback(q)
        PROVE  UNCHANGED <<begun, alone>>
    BY <1>3, ExecuteIs DEF Commit, Rollback
  <1> QED BY <1>1, <1>2, <1>3 DEF Next

(***************************************************************************)
(* The types of rows, tokens and requests: what a request has written are  *)
(* rows of the tables, whatever it read before others committed.           *)
(***************************************************************************)
THEOREM TenancyTypes == Spec => []TypeOK
  <1> DEFINE Bounds == begun \in 0..MaxRequests /\ alone \subseteq Requests
  <1>1. Init => Bounds
    BY TenancyAssumption DEF Init
  <1>2. Bounds /\ [Next]_vars => Bounds'
    BY StepKeepsBounds
  <1>3. TenancyInv /\ Bounds => TypeOK
    <2> SUFFICES ASSUME TenancyInv, Bounds PROVE TypeOK
      OBVIOUS
    <2>1. \A i \in DOMAIN db : db[i] \in Row /\ i \in Ids
      BY DEF TenancyInv, Sound, Shaped
    <2>2. ASSUME NEW q \in Requests
          PROVE  /\ tx[q].op \in Ops /\ tx[q].at \in Stages /\ tx[q].keys \subseteq Keys
                 /\ tx[q].home \in Orgs \cup {None} /\ tx[q].user \in Users \cup {None}
                 /\ tx[q].on \in Ids \cup {None} /\ tx[q].slug \in Slugs \cup {None}
                 /\ tx[q].role \in Roles \cup {None}
                 /\ \A i \in DOMAIN tx[q].w : i \in Ids /\ tx[q].w[i] \in Row \cup {None}
      <3>1. tx[q] \in Tx
        BY DEF TenancyInv
      <3> QED BY <3>1, WritesAre DEF Tx
    <2> QED BY <2>1, <2>2 DEF TenancyInv, TypeOK
  <1> QED BY <1>1, <1>2, <1>3, AlwaysTenancyInv, PTL DEF Spec

\* What a request kept to an organisation has written belongs to it.
LEMMA WritesStayHome ==
    ASSUME TenancyInv, NEW q \in InFlight, tx[q].home # None, NEW i \in DOMAIN tx[q].w
    PROVE  /\ i \in DOMAIN db => Home(db, i) = tx[q].home
           /\ tx[q].w[i] # None => Home(View(q), i) = tx[q].home
  <1> DEFINE x == tx[q]
  <1>0. /\ q \in Requests /\ x.at # "idle" /\ Sound(db) /\ Fits(db, ever, x.w)
        /\ Task(db, ever, claims, x)
    BY DEF InFlight, TenancyInv, Consistent
  <1>1. ASSUME i \in DOMAIN db, Home(db, i) = x.home, x.w[i] # None
        PROVE  Home(View(q), i) = x.home
    BY <1>0, <1>1, ViewIs DEF Fits, Later, Home
  <1>2. CASE x = Idle
    BY <1>0, <1>2 DEF Idle
  <1>3. CASE Founding(db, x)
    <2>1. /\ x.at \in {"addUser", "commit"} /\ x.on \in Orgs /\ x.on = x.home
          /\ i \notin DOMAIN db /\ x.w[i] = (IF i \in Orgs THEN OrgRow(x.slug) ELSE UserRow(x.on, x.role))
      BY <1>3 DEF Founding
    <2>2. i \in Orgs => i = x.on
      BY <1>3, <2>1, Apart DEF Founding
    <2>3. i \notin Orgs /\ x.w[i] # None => View(q)[i].org = x.home
      BY <1>0, <2>1, ViewIs DEF UserRow
    <2> QED BY <2>1, <2>2, <2>3 DEF Home
  <1>4. ASSUME NEW r, Kept(db, ever, x), Edited(db, x, r), x.on \in Users \cup Keys
        PROVE  i \in DOMAIN db /\ Home(db, i) = x.home
    BY <1>4, Apart DEF Kept, Edited, Home
  <1>5. CASE SettingRole(db, ever, x) \/ Rotating(db, ever, x) \/ Deactivating(db, ever, x)
    <2>1. x.at = "commit"
      BY <1>5 DEF SettingRole, Rotating, Deactivating
    <2>2. /\ Kept(db, ever, x) /\ x.on \in Users \cup Keys
          /\ \E r : Edited(db, x, r)
      BY <1>5, <2>1 DEF SettingRole, Rotating, Deactivating
    <2> QED BY <1>1, <1>4, <2>2
  <1>6. CASE Removing(db, ever, x) /\ x.on \in Users \cup Keys /\ x.keys \subseteq Keys
    <2>0. x.on # None /\ x.on \notin Orgs
      BY <1>6, Apart
    <2>1. x.on \in DOMAIN db => db[x.on].org = x.home
      BY <1>6 DEF Removing, Kept
    <2>2. ASSUME NEW j \in DOMAIN db, db[j].user = x.on PROVE db[j].org = x.home
      BY <1>0, <2>0, <2>1, <2>2 DEF Sound, Linked
    <2>3. ASSUME NEW j \in DOMAIN db, db[j].key \in x.keys \cup {x.on} PROVE db[j].org = x.home
      <3>1. db[j].key # None /\ db[j].key \in DOMAIN db /\ db[db[j].key].org = db[j].org
        BY <1>0, <1>6, <2>0, <2>3, Apart DEF Sound, Linked
      <3>2. CASE db[j].key = x.on
        BY <2>1, <3>1, <3>2
      <3>3. CASE db[j].key \in x.keys
        BY <1>6, <2>2, <3>1, <3>3 DEF Removing
      <3> QED BY <2>3, <3>2, <3>3
    <2>4. /\ i \in DOMAIN db
          /\ \/ i = x.on \/ (i \in Keys /\ db[i].user = x.on)
             \/ i \in Logs /\ (db[i].user = x.on \/ db[i].key \in x.keys \cup {x.on})
      <3>1. /\ i \in DOMAIN db
            /\ \/ i = x.on \/ (i \in Keys /\ db[i].user = x.on)
               \/ i \in Logs /\ Unlogged(x, db[i], x.w[i])
        BY <1>6 DEF Removing
      <3> QED BY <3>1 DEF Unlogged
    <2>5. db[i].org = x.home /\ i \notin Orgs
      BY <2>0, <2>1, <2>2, <2>3, <2>4, Apart
    <2> QED BY <1>1, <2>4, <2>5 DEF Home
  <1>7. CASE RemovingOrg(db, ever, x)
    BY <1>7 DEF RemovingOrg
  <1>8. CASE AddingKey(db, claims, x) \/ Booking(db, ever, claims, x)
    <2>1. x.at = "commit"
      BY <1>8 DEF AddingKey, Booking
    <2>2. i \in Keys \cup Logs /\ i \notin DOMAIN db /\ x.w[i].org = x.home
      <3>1. CASE AddingKey(db, claims, x)
        <4>1. PICK k \in Keys \ DOMAIN db, h \in Hashes :
                DOMAIN x.w = {k} /\ x.w[k] = KeyRow(x.home, x.user, h)
          BY <2>1, <3>1 DEF AddingKey
        <4> QED BY <4>1 DEF KeyRow
      <3>2. CASE Booking(db, ever, claims, x)
        <4>1. PICK l \in Logs \ DOMAIN db :
                DOMAIN x.w = {l} /\ x.w[l] = LogRow(x.home, x.user, x.on)
          BY <2>1, <3>2 DEF Booking
        <4> QED BY <4>1 DEF LogRow
      <3> QED BY <1>8, <3>1, <3>2
    <2> QED BY <1>0, <2>2, ViewIs, Apart DEF Home
  <1>9. RemovingUser(db, ever, x) \/ RemovingKey(db, ever, x)
          => Removing(db, ever, x) /\ x.on \in Users \cup Keys /\ x.keys \subseteq Keys
    BY <1>0 DEF RemovingUser, RemovingKey, TenancyInv, Tx
  <1> QED BY <1>0, <1>2, <1>3, <1>5, <1>6, <1>7, <1>8, <1>9 DEF Task

(***************************************************************************)
(* Tenants are kept apart: list_users, list_api_keys and the usage reports *)
(* show nobody but a platform admin another tenant's rows, and no request  *)
(* of anybody else writes one, whatever changed since it looked.           *)
(***************************************************************************)
THEOREM TenantsSeeTheirOwn == Spec => []TenantsApart
  <1>1. TenancyInv => TenantsApart
    <2> SUFFICES ASSUME TenancyInv PROVE TenantsApart
      OBVIOUS
    <2>1. ASSUME NEW c \in claims, c.role # "platform_admin",
                 NEW i \in ListedUsers(c) \cup ListedKeys(c) \cup ReportedUsage(c)
          PROVE  db[i].org = c.org
      <3>1. CASE i \in ListedUsers(c) \cup ListedKeys(c)
        BY <2>1, <3>1 DEF ListedUsers, ListedKeys, OwnKey, InScope
      <3>2. CASE i \in ReportedUsage(c) /\ db[i].org # c.org
        <4>1. i \in DOMAIN db /\ db[i].user = c.user
          BY <2>1, <3>2 DEF ReportedUsage
        <4>2. c.user \in Users /\ Vouched(c) /\ Linked(db, db[i])
          BY <4>1 DEF TenancyInv, Sound
        <4>3. c.user \in DOMAIN db /\ db[c.user].org = db[i].org
          BY <4>1, <4>2, Apart DEF Linked
        <4> QED BY <4>2, <4>3 DEF Vouched
      <3> QED BY <2>1, <3>1, <3>2
    <2> QED BY <2>1, WritesStayHome DEF TenantsApart
  <1> QED BY <1>1, AlwaysTenancyInv, PTL

(***************************************************************************)
(* Of registrations that race for the name of an organisation, one founds  *)
(* it and is its admin; register and google_auth make viewers of the rest. *)
(***************************************************************************)
THEOREM OneFounder == Spec => []FoundersAlone
  <1>1. TenancyInv => FoundersAlone
    <2> SUFFICES ASSUME TenancyInv, NEW q \in InFlight, tx[q].op \in SignUps,
                        NEW u \in Users \cap DOMAIN tx[q].w, tx[q].w[u].role # "viewer"
                 PROVE  tx[q].w[u].org \in DOMAIN tx[q].w
      BY DEF FoundersAlone
    <2>1. tx[q].at # "idle" /\ Task(db, ever, claims, tx[q])
      BY DEF InFlight, TenancyInv
    <2>2. Founding(db, tx[q])
      BY <2>1 DEF Task, Idle, SignUps
    <2>3. tx[q].w[u] = UserRow(tx[q].on, tx[q].role) /\ u \notin Orgs
      BY <2>2, Apart DEF Founding
    <2>4. tx[q].role # "viewer" /\ tx[q].w[u].org = tx[q].on
      BY <2>3 DEF UserRow
    <2> QED BY <2>2, <2>4 DEF Founding
  <1> QED BY <1>1, AlwaysTenancyInv, PTL

-----------------------------------------------------------------------------
(***************************************************************************)
(* A deletion that nothing overlaps: which rows its view v has no longer,  *)
(* stage by stage.                                                         *)
(***************************************************************************)
Cleared(v, x) ==
    /\ x.op = "delete_user" /\ x.at \in {"pickKeys", "unlogKeys", "dropKeys", "dropUser"} =>
         \A l \in Logs \cap DOMAIN v : v[l].user # x.on
    /\ x.op = "delete_user" /\ x.at = "unlogKeys" => KeysOf(v, x.on) \subseteq x.keys
    /\ x.at = "dropKeys" => \A l \in Logs \cap DOMAIN v : v[l].key \notin KeysOf(v, x.on)
    /\ x.at = "dropUser" => KeysOf(v, x.on) = {}
    /\ x.at = "dropKey" => \A l \in Logs \cap DOMAIN v : v[l].key # x.on
    /\ x.at \in {"dropOrgKeys", "dropOrgUsers", "dropOrg"} =>
         \A l \in Logs \cap DOMAIN v : v[l].org # x.on
    /\ x.at \in {"dropOrgUsers", "dropOrg"} => \A k \in Keys \cap DOMAIN v : v[k].org # x.on
    /\ x.at = "dropOrg" => \A u \in Users \cap DOMAIN v : v[u].org # x.on

AloneInv == \A q \in alone : InFlight \subseteq {q} /\ Cleared(View(q), tx[q])

\* Nothing is claimed of the stages that are no part of a deletion.
LEMMA NothingToClear ==
    ASSUME NEW x, x.at \notin {"pickKeys", "unlogKeys", "dropKeys", "dropUser", "dropKey",
                               "dropOrgKeys", "dropOrgUsers", "dropOrg"}
    PROVE  \A v : Cleared(v, x)
  BY DEF Cleared

\* A step of a request in flight: it is enough to look at it.
LEMMA AloneStep ==
    ASSUME AloneInv, NEW p \in InFlight, UNCHANGED alone,
           \A r \in Requests \ {p} : tx'[r] = tx[r],
           p \in alone => Cleared(View(p)', tx'[p])
    PROVE  AloneInv'
  <1> SUFFICES ASSUME NEW q \in alone
               PROVE  InFlight' \subseteq {q} /\ Cleared(View(q)', tx'[q])
    BY DEF AloneInv
  <1>1. InFlight \subseteq {q} /\ p = q
    BY DEF AloneInv
  <1>2. InFlight' \subseteq {q}
    BY <1>1 DEF InFlight
  <1> QED BY <1>1, <1>2

\* What the statement of q that writes new makes of its view
LEMMA ViewAfter ==
    ASSUME TenancyInv, NEW q \in Requests, NEW new, NEW at, Write(q, new, at), UNCHANGED db
    PROVE  /\ Goes(tx[q], tx'[q], at) /\ \A r \in Requests \ {q} : tx'[r] = tx[r]
           /\ \A i : i \in DOMAIN View(q)' <=>
                IF i \in DOMAIN new THEN new[i] # None ELSE i \in DOMAIN View(q)
           /\ \A i \in DOMAIN View(q)' :
                View(q)'[i] = IF i \in DOMAIN new THEN new[i] ELSE View(q)[i]
  <1> DEFINE w == tx[q].w
             u == Put(w, new)
  <1>1. tx' = [tx EXCEPT ![q] = Wrote(tx[q], new, at)] /\ tx \in [Requests -> Tx]
    BY WriteIs DEF TenancyInv
  <1>2. Goes(tx[q], Wrote(tx[q], new, at), at) /\ Wrote(tx[q], new, at).w = u
    BY <1>1 DEF Wrote, Tx, Goes
  <1>3. Goes(tx[q], tx'[q], at) /\ tx'[q].w = u /\ \A r \in Requests \ {q} : tx'[r] = tx[r]
    BY <1>1, <1>2
  <1>4. View(q)' = Overlay(db, u) /\ View(q) = Overlay(db, w)
    BY <1>3 DEF View
  <1>5. /\ DOMAIN u = DOMAIN w \cup DOMAIN new
        /\ \A i \in DOMAIN u : u[i] = IF i \in DOMAIN new THEN new[i] ELSE w[i]
    BY DEF Put
  <1> HIDE DEF u, w
  <1>6. ASSUME NEW i
        PROVE  i \in DOMAIN Overlay(db, u) <=>
                 IF i \in DOMAIN new THEN new[i] # None ELSE i \in DOMAIN Overlay(db, w)
    BY <1>5, Overlaid
  <1>7. ASSUME NEW i \in DOMAIN Overlay(db, u)
        PROVE  Overlay(db, u)[i] = IF i \in DOMAIN new THEN new[i] ELSE Overlay(db, w)[i]
    <2>1. CASE i \in DOMAIN new
      BY <1>5, <1>6, <2>1, Overlaid
    <2>2. CASE i \notin DOMAIN new /\ i \in DOMAIN w
      BY <1>5, <1>6, <2>2, Overlaid
    <2>3. CASE i \notin DOMAIN new /\ i \notin DOMAIN w
      BY <1>5, <1>6, <2>3, Overlaid
    <2> QED BY <2>1, <2>2, <2>3
  <1> QED BY <1>3, <1>4, <1>6, <1>7

LEMMA AloneUnlogUser ==
    ASSUME TenancyInv, AloneInv, NEW q \in Requests, UnlogUser(q)
    PROVE  AloneInv'
  <1> DEFINE x == tx[q]
             new == [l \in Selected(q, Logs, LAMBDA r : r.user = tx[q].on) |->
                       [View(q)[l] EXCEPT !.user = None]]
  <1>1. x.at = "unlogUser" /\ Write(q, new, "pickKeys") /\ UNCHANGED <<db, alone>>
    BY DEF UnlogUser, Update
  <1>2. x.on # None
    <2>1. Task(db, ever, claims, x)
      BY DEF TenancyInv
    <2>2. RemovingUser(db, ever, x)
      BY <1>1, <2>1, TaskAt
    <2> QED BY <2>2, Apart DEF RemovingUser
  <1>3. /\ \A l : l \in DOMAIN new <=> l \in Logs /\ l \in DOMAIN View(q) /\ View(q)[l].user = x.on
        /\ \A l \in DOMAIN new : new[l] = [View(q)[l] EXCEPT !.user = None]
    BY DEF Selected
  <1> HIDE DEF new
  <1>4. /\ Goes(x, tx'[q], "pickKeys") /\ \A r \in Requests \ {q} : tx'[r] = tx[r]
        /\ \A i : i \in DOMAIN View(q)' <=>
                IF i \in DOMAIN new THEN new[i] # None ELSE i \in DOMAIN View(q)
        /\ \A i \in DOMAIN View(q)' :
                View(q)'[i] = IF i \in DOMAIN new THEN new[i] ELSE View(q)[i]
    BY <1>1, ViewAfter
  <1>5. ASSUME NEW l \in Logs \cap DOMAIN View(q)' PROVE View(q)'[l].user # x.on
    <2>1. CASE l \in DOMAIN new
      <3>1. View(q)[l] \in Row
        BY <1>3, <2>1, ViewIs DEF Shaped
      <3> QED BY <1>2, <1>3, <1>4, <2>1, <3>1 DEF Row
    <2>2. CASE l \notin DOMAIN new
      BY <1>3, <1>4, <2>2
    <2> QED BY <2>1, <2>2
  <1>6. Cleared(View(q)', tx'[q])
    BY <1>4, <1>5 DEF Cleared, Goes
  <1>7. q \in InFlight
    BY <1>1 DEF InFlight
  <1> QED BY <1>1, <1>4, <1>6, <1>7, AloneStep

LEMMA AlonePickKeys ==
    ASSUME TenancyInv, AloneInv, NEW q \in Requests, PickKeys(q)
    PROVE  AloneInv'
  <1> DEFINE x == tx[q]
             keys == KeysOf(View(q), x.on)
             at == IF keys = {} THEN "dropKeys" ELSE "unlogKeys"
             y == [x EXCEPT !.keys = keys, !.at = at]
  <1>1. /\ x.op = "delete_user" /\ x.at = "pickKeys" /\ x \in Tx
        /\ tx' = [tx EXCEPT ![q] = y] /\ tx \in [Requests -> Tx] /\ UNCHANGED <<db, alone>>
    <2>1. x.at = "pickKeys" /\ Task(db, ever, claims, x) /\ x \in Tx /\ tx \in [Requests -> Tx]
      BY DEF PickKeys, TenancyInv
    <2>2. x.op = "delete_user"
      BY <2>1, TaskAt
    <2> QED BY <2>1, <2>2 DEF PickKeys
  <1>2. at = "unlogKeys" \/ (at = "dropKeys" /\ keys = {})
    OBVIOUS
  <1> HIDE DEF at
  <1>3. /\ y.op = x.op /\ y.at = at /\ y.on = x.on /\ y.keys = keys /\ y.w = x.w
    BY <1>1 DEF Tx
  <1>4. tx'[q] = y /\ \A r \in Requests \ {q} : tx'[r] = tx[r]
    BY <1>1
  <1> HIDE DEF y
  <1>5. View(q)' = View(q)
    BY <1>1, <1>3, <1>4 DEF View
  <1>6. ASSUME q \in alone PROVE Cleared(View(q)', tx'[q])
    <2>1. \A l \in Logs \cap DOMAIN View(q) : View(q)[l].user # x.on
      BY <1>1, <1>6 DEF AloneInv, Cleared
    <2>2. Cleared(View(q), y)
      BY <1>1, <1>2, <1>3, <2>1 DEF Cleared
    <2> QED BY <1>4, <1>5, <2>2
  <1>7. q \in InFlight
    BY <1>1 DEF InFlight
  <1> QED BY <1>1, <1>4, <1>6, <1>7, AloneStep

LEMMA AloneUnlogKeys ==
    ASSUME TenancyInv, AloneInv, NEW q \in Requests, UnlogKeys(q)
    PROVE  AloneInv'
  <1> DEFINE x == tx[q]
             keys == x.keys \cup {x.on}
             new == [l \in Selected(q, Logs, LAMBDA r : r.key \in keys) |->
                       [View(q)[l] EXCEPT !.key = None]]
             at == IF x.op = "delete_user" THEN "dropKeys" ELSE "dropKey"
  <1>1. x.at = "unlogKeys" /\ Write(q, new, at) /\ UNCHANGED <<db, alone>>
    BY DEF UnlogKeys, Update
  <1>2. x.on # None /\ x.keys \subseteq Keys /\ x.on \in Users \cup Keys
    <2>1. Task(db, ever, claims, x) /\ x \in Tx
      BY DEF TenancyInv
    <2>2. RemovingUser(db, ever, x) \/ RemovingKey(db, ever, x)
      BY <1>1, <2>1, TaskAt
    <2> QED BY <2>1, <2>2, Apart DEF RemovingUser, RemovingKey, Tx
  <1>3. /\ \A l : l \in DOMAIN new <=> l \in Logs /\ l \in DOMAIN View(q) /\ View(q)[l].key \in keys
        /\ \A l \in DOMAIN new : new[l] = [View(q)[l] EXCEPT !.key = None]
    BY DEF Selected
  <1>4. (x.op = "delete_user" /\ at = "dropKeys") \/ (x.op # "delete_user" /\ at = "dropKey")
    OBVIOUS
  <1> HIDE DEF new, at
  <1>5. /\ Goes(x, tx'[q], at) /\ \A r \in Requests \ {q} : tx'[r] = tx[r]
        /\ \A i : i \in DOMAIN View(q)' <=>
                IF i \in DOMAIN new THEN new[i] # None ELSE i \in DOMAIN View(q)
        /\ \A i \in DOMAIN View(q)' :
                View(q)'[i] = IF i \in DOMAIN new THEN new[i] ELSE View(q)[i]
    BY <1>1, ViewAfter
  <1>6. ASSUME NEW l \in Logs \cap DOMAIN View(q)'
        PROVE  /\ l \in DOMAIN View(q) /\ View(q)'[l].user = View(q)[l].user
               /\ View(q)'[l].key \notin keys
    <2>1. CASE l \in DOMAIN new
      <3>1. View(q)[l] \in Row /\ None \notin keys
        BY <1>2, <1>3, <2>1, ViewIs, Apart DEF Shaped
      <3> QED BY <1>3, <1>5, <2>1, <3>1 DEF Row
    <2>2. CASE l \notin DOMAIN new
      BY <1>3, <1>5, <2>2
    <2> QED BY <2>1, <2>2
  <1>7. KeysOf(View(q)', x.on) \subseteq KeysOf(View(q), x.on)
    <2>1. \A k \in Keys : k \notin DOMAIN new
      BY <1>3, Apart
    <2> QED BY <1>5, <2>1 DEF KeysOf
  <1>8. ASSUME q \in alone PROVE Cleared(View(q)', tx'[q])
    <2>1. Cleared(View(q), x)
      BY <1>8 DEF AloneInv
    <2>2. CASE x.op = "delete_user" /\ at = "dropKeys"
      <3>1. /\ \A l \in Logs \cap DOMAIN View(q)' : View(q)'[l].user # x.on
            /\ KeysOf(View(q)', x.on) \subseteq keys
        BY <1>1, <1>6, <1>7, <2>1, <2>2 DEF Cleared
      <3> QED BY <1>5, <1>6, <2>2, <3>1 DEF Cleared, Goes
    <2>3. CASE x.op # "delete_user" /\ at = "dropKey"
      BY <1>5, <1>6, <2>3 DEF Cleared, Goes
    <2> QED BY <1>4, <2>2, <2>3
  <1>9. q \in InFlight
    BY <1>1 DEF InFlight
  <1> QED BY <1>1, <1>5, <1>8, <1>9, AloneStep

LEMMA AloneDrop ==
    ASSUME TenancyInv, AloneInv, NEW q \in Requests, Drop(q)
    PROVE  AloneInv'
  <1> DEFINE x == tx[q]
             v == View(q)
             rows == Doomed(q)
             at == After[x.at]
  <1>1. /\ x.at \in {"dropKeys", "dropUser", "dropKey", "dropLogs", "dropOrgKeys", "dropOrgUsers", "dropOrg"}
        /\ End(q) \/ Write(q, [i \in rows |-> None], at)
        /\ UNCHANGED <<db, alone>> /\ tx \in [Requests -> Tx] /\ q \in InFlight
    BY DEF Drop, After, Delete, InFlight, TenancyInv
  <1>2. CASE End(q)
    <2>1. tx'[q] = Idle /\ (\A r \in Requests \ {q} : tx'[r] = tx[r]) /\ Idle.at = "idle"
      BY <1>1, <1>2 DEF End, Idle
    <2>2. Cleared(View(q)', tx'[q])
      BY <2>1, NothingToClear
    <2> QED BY <1>1, <2>1, <2>2, AloneStep
  <1>3. CASE Write(q, [i \in rows |-> None], at)
    <2> DEFINE new == [i \in rows |-> None]
    <2>1. DOMAIN new = rows /\ \A i \in rows : new[i] = None
      OBVIOUS
    <2> HIDE DEF new, rows, at
    <2>2. /\ Goes(x, tx'[q], at) /\ \A r \in Requests \ {q} : tx'[r] = tx[r]
          /\ \A i : i \in DOMAIN View(q)' <=>
                  IF i \in DOMAIN new THEN new[i] # None ELSE i \in DOMAIN View(q)
          /\ \A i \in DOMAIN View(q)' :
                  View(q)'[i] = IF i \in DOMAIN new THEN new[i] ELSE View(q)[i]
      BY <1>1, <1>3, ViewAfter DEF new
    <2>3. \A i \in DOMAIN View(q)' : i \in DOMAIN v /\ i \notin rows /\ View(q)'[i] = v[i]
      BY <2>1, <2>2
    <2> HIDE DEF v
    <2>4. ASSUME q \in alone PROVE Cleared(View(q)', tx'[q])
      <3>1. Cleared(v, x)
        BY <2>4 DEF AloneInv, v
      <3>2. CASE x.at = "dropKeys"
        <4>1. x.op = "delete_user" /\ at = "dropUser" /\ rows = KeysOf(v, x.on)
          <5>1. Task(db, ever, claims, x)
            BY DEF TenancyInv
          <5> QED BY <3>2, <5>1, TaskAt DEF Doomed, After, at, rows, v
        <4>2. KeysOf(View(q)', x.on) = {}
          BY <2>3, <4>1 DEF KeysOf
        <4>3. \A l \in Logs \cap DOMAIN View(q)' : View(q)'[l].user # x.on
          BY <2>3, <3>1, <3>2, <4>1 DEF Cleared
        <4> QED BY <2>2, <4>1, <4>2, <4>3 DEF Cleared, Goes
      <3>3. CASE x.at \in {"dropUser", "dropKey", "dropOrg"}
        <4>1. tx'[q].at = "commit"
          BY <2>2, <3>3 DEF After, Goes, at
        <4> QED BY <4>1, NothingToClear
      <3>4. CASE x.at = "dropLogs"
        <4>1. at = "dropOrgKeys" /\ rows = Selected(q, Logs, LAMBDA r : r.org = x.on)
          BY <3>4 DEF Doomed, After, at, rows
        <4>2. \A l \in Logs \cap DOMAIN View(q)' : View(q)'[l].org # x.on
          BY <2>3, <4>1 DEF Selected, v
        <4> QED BY <2>2, <4>1, <4>2 DEF Cleared, Goes
      <3>5. CASE x.at = "dropOrgKeys"
        <4>1. at = "dropOrgUsers" /\ rows = Selected(q, Keys, LAMBDA r : r.org = x.on)
          BY <3>5 DEF Doomed, After, at, rows
        <4>2. /\ \A l \in Logs \cap DOMAIN View(q)' : View(q)'[l].org # x.on
              /\ \A k \in Keys \cap DOMAIN View(q)' : View(q)'[k].org # x.on
          BY <2>3, <3>1, <3>5, <4>1 DEF Selected, v, Cleared
        <4> QED BY <2>2, <4>1, <4>2 DEF Cleared, Goes
      <3>6. CASE x.at = "dropOrgUsers"
        <4>1. at = "dropOrg" /\ rows = Selected(q, Users, LAMBDA r : r.org = x.on)
          BY <3>6 DEF Doomed, After, at, rows
        <4>2. /\ \A l \in Logs \cap DOMAIN View(q)' : View(q)'[l].org # x.on
              /\ \A k \in Keys \cap DOMAIN View(q)' : View(q)'[k].org # x.on
              /\ \A u \in Users \cap DOMAIN View(q)' : View(q)'[u].org # x.on
          BY <2>3, <3>1, <3>6, <4>1 DEF Selected, v, Cleared
        <4> QED BY <2>2, <4>1, <4>2 DEF Cleared, Goes
      <3> QED BY <1>1, <3>2, <3>3, <3>4, <3>5, <3>6
    <2> QED BY <1>1, <2>2, <2>4, AloneStep
  <1> QED BY <1>1, <1>2, <1>3

\* The other statements are no part of a deletion, or end one.
LEMMA AloneOthers ==
    ASSUME TenancyInv, AloneInv, NEW q \in InFlight, UNCHANGED alone,
           \A r \in Requests \ {q} : tx'[r] = tx[r], tx'[q].at \in {"commit", "addUser", "idle"}
    PROVE  AloneInv'
  <1>1. Cleared(View(q)', tx'[q])
    BY NothingToClear
  <1> QED BY <1>1, AloneStep

LEMMA EndIs ==
    ASSUME TenancyInv, NEW q \in Requests, End(q)
    PROVE  (\A r \in Requests \ {q} : tx'[r] = tx[r]) /\ tx'[q].at = "idle"
  BY DEF End, Idle, TenancyInv

LEMMA WriteGoes ==
    ASSUME TenancyInv, NEW q \in Requests, NEW new, NEW at, Write(q, new, at)
    PROVE  (\A r \in Requests \ {q} : tx'[r] = tx[r]) /\ tx'[q].at = at
  <1>1. tx' = [tx EXCEPT ![q] = Wrote(tx[q], new, at)] /\ tx \in [Requests -> Tx]
    BY WriteIs DEF TenancyInv
  <1>2. Wrote(tx[q], new, at).at = at
    BY <1>1 DEF Wrote, Tx
  <1> QED BY <1>1, <1>2

LEMMA AloneExecute ==
    ASSUME TenancyInv, AloneInv, NEW q \in Requests, Execute(q)
    PROVE  AloneInv'
  <1>1. UNCHANGED alone
    BY ExecuteIs
  <1>2. CASE InsertOrg(q)
    <2>1. q \in InFlight /\ tx \in [Requests -> Tx]
      BY <1>2 DEF InsertOrg, InFlight, TenancyInv
    <2>2. CASE End(q)
      BY <1>1, <2>1, <2>2, EndIs, AloneOthers
    <2>3. ASSUME NEW o, NEW r, tx' = [tx EXCEPT ![q] = Founded(tx[q], o, r)] PROVE AloneInv'
      <3>1. Founded(tx[q], o, r).at \in {"commit", "addUser"}
        BY <2>1 DEF Founded, Tx
      <3> QED BY <1>1, <2>1, <2>3, <3>1, AloneOthers
    <2> QED BY <1>2, <2>2, <2>3 DEF InsertOrg
  <1>3. ASSUME NEW i, NEW r, Insert(q, i, r, "commit"), q \in InFlight PROVE AloneInv'
    BY <1>1, <1>3, EndIs, WriteGoes, AloneOthers DEF Insert
  <1>4. ASSUME NEW r, UpdateOne(q, r, "commit"), q \in InFlight PROVE AloneInv'
    BY <1>1, <1>4, EndIs, WriteGoes, AloneOthers DEF UpdateOne, Update
  <1>5. CASE InsertUser(q) \/ InsertKey(q) \/ LogUsage(q)
    BY <1>3, <1>5 DEF InsertUser, InsertKey, LogUsage, InFlight
  <1>6. CASE WriteRole(q) \/ WriteHash(q) \/ Deactivate(q)
    BY <1>4, <1>6 DEF WriteRole, WriteHash, Deactivate, InFlight
  <1> QED BY <1>2, <1>5, <1>6, AloneUnlogUser, AlonePickKeys, AloneUnlogKeys, AloneDrop DEF Execute

LEMMA AloneArrive ==
    ASSUME TenancyInv, AloneInv, NEW q \in Requests, Arrive(q)
    PROVE  AloneInv'
  <1>1. PICK x : Arrives(q, x)
    BY ArriveIs
  <1>2. tx' = [tx EXCEPT ![q] = x] /\ tx \in [Requests -> Tx]
        /\ alone' = IF InFlight = {} THEN {q} ELSE {}
    BY <1>1 DEF Arrives, TenancyInv
  <1> SUFFICES ASSUME NEW p \in alone'
               PROVE  InFlight' \subseteq {p} /\ Cleared(View(p)', tx'[p])
    BY DEF AloneInv
  <1>3. p = q /\ InFlight = {}
    BY <1>2
  <1>4. InFlight' \subseteq {q} /\ tx'[q] = x
    BY <1>2, <1>3 DEF InFlight
  <1>5. x.at \in {"addOrg", "addUser", "dropLogs", "setRole", "unlogUser", "addKey", "rotate",
                  "deactivate", "unlogKeys", "known"} /\ (x.at = "unlogKeys" => x.op = "revoke_api_key")
    BY <1>1 DEF Arrives
  <1>6. Cleared(View(q)', x)
    BY <1>5 DEF Cleared
  <1> QED BY <1>3, <1>4, <1>6

LEMMA AloneStays == TenancyInv /\ AloneInv /\ [Next]_vars => AloneInv'
  <1> SUFFICES ASSUME TenancyInv, AloneInv, [Next]_vars PROVE AloneInv'
    OBVIOUS
  <1>1. CASE UNCHANGED vars
    BY <1>1 DEF vars, AloneInv, InFlight, View
  <1>2. ASSUME NEW q \in Requests, Commit(q) \/ Rollback(q) PROVE AloneInv'
    <2>1. q \in InFlight /\ End(q) /\ UNCHANGED alone
      BY <1>2 DEF Commit, Rollback, InFlight
    <2> QED BY <2>1, EndIs, AloneOthers
  <1> QED BY <1>1, <1>2, AloneArrive, AloneExecute DEF Next

LEMMA AlwaysAlone == Spec => [](TenancyInv /\ AloneInv)
  <1>1. Init => AloneInv
    BY DEF Init, AloneInv
  <1> QED BY <1>1, AloneStays, AlwaysTenancyInv, PTL DEF Spec

\* What a row refers to, by the column that does
LEMMA Referring ==
    ASSUME NEW i, NEW r, Shaped(i, r), NEW p \in Refs(r), i \in Ids
    PROVE  /\ p \in Orgs => p = r.org
           /\ p \in Users => p = r.user /\ i \in Keys \cup Logs
           /\ p \in Keys => p = r.key /\ i \in Logs
           /\ p \notin Logs /\ i \notin Orgs
  <1>1. r.org \in Orgs \cup {None} /\ r.user \in Users \cup {None} /\ r.key \in Keys \cup {None}
    BY DEF Shaped, Row
  <1>2. p # None /\ (p = r.org \/ p = r.user \/ p = r.key)
    BY DEF Refs
  <1>3. i \notin Orgs
    BY <1>2 DEF Shaped
  <1>4. r.user # None => i \in Keys \cup Logs
    BY <1>3 DEF Shaped, Ids
  <1>5. r.key # None => i \in Logs
    BY <1>3 DEF Shaped, Ids
  <1> QED BY <1>1, <1>2, <1>3, <1>4, <1>5, Apart

\* Of an organisation that is being deleted, what is left belongs together.
LEMMA LeftOfOrg ==
    ASSUME TenancyInv, NEW q \in Requests, RemovingOrg(db, ever, tx[q]),
           NEW j \in DOMAIN View(q), NEW p \in Refs(View(q)[j]), p \notin Orgs
    PROVE  p \in DOMAIN View(q) /\ View(q)[p].org = View(q)[j].org
  <1>1. \A i \in DOMAIN tx[q].w : tx[q].w[i] = None
    BY DEF RemovingOrg
  <1>2. Sound(db) /\ Consistent(db, ever, tx[q].w)
    BY DEF TenancyInv
  <1>3. j \in DOMAIN db /\ View(q)[j] = db[j]
    BY <1>1, ViewIs
  <1>4. p \in DOMAIN View(q)
    BY <1>2 DEF Consistent, Whole, View
  <1>5. View(q)[p] = db[p]
    BY <1>1, <1>4, ViewIs
  <1>6. Linked(db, db[j]) /\ Shaped(j, db[j]) /\ p \in Refs(db[j])
    BY <1>2, <1>3 DEF Sound
  <1>7. p = db[j].org \/ p = db[j].user \/ p = db[j].key
    BY <1>6 DEF Refs
  <1>8. p # None /\ db[j].org \in Orgs \cup {None}
    BY <1>6 DEF Refs, Shaped, Row
  <1>9. db[p].org = db[j].org
    BY <1>6, <1>7, <1>8 DEF Linked
  <1> QED BY <1>3, <1>4, <1>5, <1>9

LEMMA NothingLeft == TypeOK /\ TenancyInv /\ AloneInv => DeletionsFit
  <1> SUFFICES ASSUME TypeOK, TenancyInv, AloneInv, NEW q \in alone, q \in Requests,
                      tx[q].at \in DOMAIN After,
                      NEW j \in DOMAIN View(q), j \notin Doomed(q),
                      NEW p \in Refs(View(q)[j]), p \in Doomed(q)
               PROVE  FALSE
    BY DEF TypeOK, DeletionsFit, Refused
  <1> DEFINE x == tx[q]
             v == View(q)
             rows == Doomed(q)
  <1>1. x.at \in {"dropKeys", "dropUser", "dropKey", "dropLogs", "dropOrgKeys", "dropOrgUsers", "dropOrg"}
    BY DEF After
  <1>2. Cleared(v, x) /\ Task(db, ever, claims, x)
    BY DEF AloneInv, TenancyInv
  <1>3. Shaped(j, v[j]) /\ j \in Ids
    BY ViewIs
  <1>4. /\ p \in Orgs => p = v[j].org
        /\ p \in Users => p = v[j].user /\ j \in Keys \cup Logs
        /\ p \in Keys => p = v[j].key /\ j \in Logs
        /\ p \notin Logs /\ j \notin Orgs
    BY <1>3, Referring
  <1>5. CASE x.at = "dropKeys"
    <2>1. rows = KeysOf(v, x.on)
      BY <1>5 DEF Doomed
    <2>2. p \in Keys
      BY <2>1 DEF KeysOf
    <2> QED BY <1>2, <1>4, <1>5, <2>1, <2>2 DEF Cleared
  <1>6. CASE x.at = "dropUser"
    <2>1. rows = {x.on} \cap DOMAIN v
      BY <1>6 DEF Doomed
    <2>2. x.op = "delete_user" /\ x.on \in Users
      BY <1>2, <1>6, TaskAt DEF RemovingUser
    <2>3. p = x.on /\ v[j].user = x.on /\ (j \in Keys \/ j \in Logs)
      BY <1>4, <2>1, <2>2
    <2> QED BY <1>2, <1>6, <2>2, <2>3 DEF Cleared, KeysOf
  <1>7. CASE x.at = "dropKey"
    <2>1. rows = {x.on} \cap DOMAIN v
      BY <1>7 DEF Doomed
    <2>2. x.on \in Keys
      BY <1>2, <1>7, TaskAt DEF RemovingKey
    <2> QED BY <1>2, <1>4, <1>7, <2>1, <2>2 DEF Cleared
  <1>8. CASE x.at \in {"dropLogs", "dropOrgKeys", "dropOrgUsers", "dropOrg"}
    <2>1. RemovingOrg(db, ever, x) /\ x.on \in Orgs
      BY <1>2, <1>8, TaskAt DEF RemovingOrg
    <2>2. CASE x.at = "dropLogs"
      <3>1. rows = Selected(q, Logs, LAMBDA r : r.org = x.on)
        BY <2>2 DEF Doomed
      <3>2. p \in Logs
        BY <3>1 DEF Selected
      <3> QED BY <1>4, <3>2
    <2>3. CASE x.at = "dropOrgKeys"
      <3>1. rows = Selected(q, Keys, LAMBDA r : r.org = x.on)
        BY <2>3 DEF Doomed
      <3>2. p \in Keys /\ v[p].org = x.on
        BY <3>1 DEF Selected
      <3>3. v[j].org = x.on /\ j \in Logs
        BY <1>4, <2>1, <3>2, LeftOfOrg, Apart
      <3> QED BY <1>2, <2>3, <3>3 DEF Cleared
    <2>4. CASE x.at = "dropOrgUsers"
      <3>1. rows = Selected(q, Users, LAMBDA r : r.org = x.on)
        BY <2>4 DEF Doomed
      <3>2. p \in Users /\ v[p].org = x.on
        BY <3>1 DEF Selected
      <3>3. v[j].org = x.on /\ j \in Keys \cup Logs
        BY <1>4, <2>1, <3>2, LeftOfOrg, Apart
      <3> QED BY <1>2, <2>4, <3>3 DEF Cleared
    <2>5. CASE x.at = "dropOrg"
      <3>1. rows = {x.on} \cap DOMAIN v
        BY <2>5 DEF Doomed
      <3>2. v[j].org = x.on /\ j \in Users \cup Keys \cup Logs
        BY <1>3, <1>4, <2>1, <3>1 DEF Ids
      <3> QED BY <1>2, <2>5, <3>2 DEF Cleared
    <2> QED BY <1>8, <2>2, <2>3, <2>4, <2>5
  <1> QED BY <1>1, <1>5, <1>6, <1>7, <1>8

(***************************************************************************)
(* No deletion that runs alone is refused by a foreign key: delete_user,   *)
(* delete_org and revoke_api_key clear the tables in an order that leaves  *)
(* nothing behind that refers to a row they delete.                        *)
(***************************************************************************)
THEOREM LoneDeletionsFit == Spec => []DeletionsFit
  BY AlwaysAlone, TenancyTypes, NothingLeft, PTL
=============================================================================
