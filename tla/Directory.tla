----------------------------- MODULE Directory -----------------------------
(***************************************************************************)
(* What the administration of organisations promises: the committed rows   *)
(* of orgs, users, api_keys and usage_logs change by whole operations, one *)
(* at a time.  Tenancy has the requests that carry the operations out      *)
(* statement by statement, in overlapping transactions.                    *)
(***************************************************************************)
EXTENDS Naturals, FiniteSets

CONSTANTS Orgs, Users, Keys, Logs,  \* ids a row can get
          Slugs, DefaultSlug,       \* an organisation is found by its slug
          Hashes,                   \* of the plaintexts of API keys
          None,                     \* NULL
          FirstOrg, FirstUser       \* rows that the start of the program seeds

Roles == {"platform_admin", "org_admin", "operator", "viewer"}
Ids == Orgs \cup Users \cup Keys \cup Logs

ASSUME DirectoryAssumption ==
    /\ Orgs \cap (Users \cup Keys \cup Logs) = {} /\ Users \cap (Keys \cup Logs) = {}
    /\ Keys \cap Logs = {}
    /\ None \notin Ids /\ None \notin Slugs /\ None \notin Roles /\ None \notin Hashes
    /\ FirstOrg \in Orgs /\ FirstUser \in Users /\ DefaultSlug \in Slugs

VARIABLE db     \* committed rows: a function from the ids that have a row

\* Columns that properties tell apart, None where a table has no such column.
Row == [org : Orgs \cup {None}, user : Users \cup {None}, key : Keys \cup {None},
        slug : Slugs \cup {None}, role : Roles \cup {None},
        hash : Hashes \cup {None}, active : BOOLEAN]

OrgRow(s) == [org |-> None, user |-> None, key |-> None, slug |-> s, role |-> None,
              hash |-> None, active |-> TRUE]
UserRow(o, r) == [org |-> o, user |-> None, key |-> None, slug |-> None, role |-> r,
                  hash |-> None, active |-> TRUE]
KeyRow(o, u, h) == [org |-> o, user |-> u, key |-> None, slug |-> None, role |-> None,
                    hash |-> h, active |-> TRUE]
LogRow(o, u, k) == [org |-> o, user |-> u, key |-> k, slug |-> None, role |-> None,
                    hash |-> None, active |-> TRUE]

\* What the foreign keys of a row refer to.
Refs(r) == {r.org, r.user, r.key} \ {None}
\* The organisation that a row belongs to.
Home(t, i) == IF i \in Orgs THEN i ELSE t[i].org
KeysOf(t, u) == {k \in Keys \cap DOMAIN t : t[k].user = u}
\* References to rows that go are set to NULL.
Unlinked(r, gone) == [r EXCEPT !.user = IF @ \in gone THEN None ELSE @,
                               !.key = IF @ \in gone THEN None ELSE @]
\* Table t with the row r at i.
Plus(t, i, r) == [j \in DOMAIN t \cup {i} |-> IF j = i THEN r ELSE t[j]]
Minus(t, gone) == [j \in DOMAIN t \ gone |-> Unlinked(t[j], gone)]
-----------------------------------------------------------------------------
DirInit == db = [i \in {FirstOrg, FirstUser} |->
                   IF i = FirstOrg THEN OrgRow(DefaultSlug)
                   ELSE UserRow(FirstOrg, "platform_admin")]

AddOrg(o, s) ==
    /\ o \notin DOMAIN db
    /\ \A p \in Orgs \cap DOMAIN db : db[p].slug # s
    /\ db' = Plus(db, o, OrgRow(s))

AddUser(u, o, r) ==
    /\ u \notin DOMAIN db /\ o \in DOMAIN db
    /\ db' = Plus(db, u, UserRow(o, r))

\* A registration that names no organisation of the table brings one with it.
Found(o, s, u, r) ==
    /\ {o, u} \cap DOMAIN db = {}
    /\ \A p \in Orgs \cap DOMAIN db : db[p].slug # s
    /\ db' = Plus(Plus(db, o, OrgRow(s)), u, UserRow(o, r))

SetRole(u, r) ==
    /\ u \in DOMAIN db
    /\ db' = [db EXCEPT ![u].role = r]

\* The keys of the user go too, the usage of both stays.
RemoveUser(u) ==
    /\ u \in DOMAIN db
    /\ db' = Minus(db, {u} \cup KeysOf(db, u))

RemoveOrg(o) ==
    /\ o \in DOMAIN db
    /\ db' = [i \in {j \in DOMAIN db : Home(db, j) # o} |-> db[i]]

AddKey(k, u, h) ==
    /\ k \notin DOMAIN db /\ u \in DOMAIN db
    /\ db' = Plus(db, k, KeyRow(db[u].org, u, h))

Rotate(k, h) ==
    /\ k \in DOMAIN db
    /\ db' = [db EXCEPT ![k].hash = h]

Revoke(k) ==
    /\ k \in DOMAIN db
    /\ db' = [db EXCEPT ![k].active = FALSE]

RemoveKey(k) ==
    /\ k \in DOMAIN db /\ ~db[k].active
    /\ db' = Minus(db, {k})

\* k is the key that the user was known by, or None.
AddLog(l, u, k) ==
    /\ l \notin DOMAIN db /\ u \in DOMAIN db
    /\ k = None \/ k \in KeysOf(db, u)
    /\ db' = Plus(db, l, LogRow(db[u].org, u, k))

DirNext ==
    \/ \E o \in Orgs, s \in Slugs : AddOrg(o, s)
    \/ \E u \in Users, o \in Orgs, r \in Roles : AddUser(u, o, r)
    \/ \E o \in Orgs, s \in Slugs, u \in Users, r \in Roles : Found(o, s, u, r)
    \/ \E u \in Users, r \in Roles : SetRole(u, r)
    \/ \E u \in Users : RemoveUser(u)
    \/ \E o \in Orgs : RemoveOrg(o)
    \/ \E k \in Keys, u \in Users, h \in Hashes : AddKey(k, u, h)
    \/ \E k \in Keys, h \in Hashes : Rotate(k, h)
    \/ \E k \in Keys : Revoke(k)
    \/ \E k \in Keys : RemoveKey(k)
    \/ \E l \in Logs, u \in Users, k \in Keys \cup {None} : AddLog(l, u, k)

DirSpec == DirInit /\ [][DirNext]_db
-----------------------------------------------------------------------------
\* Every row that a committed row refers to exists, and is of the same
\* organisation: no sequence of overlapping requests leaves a user, a key or a
\* usage row of one tenant attached to another's, or to nothing (the foreign
\* keys alone do not say so).
OneTenant ==
    \A i \in DOMAIN db : \A p \in Refs(db[i]) :
        p \in DOMAIN db /\ Home(db, p) = Home(db, i)

\* Usage rows outlive the users and the keys they are about, with the
\* organisation they were booked on, and go only when it goes (delete_user and
\* revoke_api_key set references to NULL).
UsageKept ==
    \A l \in Logs \cap DOMAIN db :
        IF l \in DOMAIN db' THEN db'[l].org = db[l].org
                            ELSE db[l].org \notin DOMAIN db'
UsageLasts == [][UsageKept]_db

\* A revoked key is never accepted again, whatever rotation overlaps the
\* revocation (revoke_api_key, rotate_api_key).
RevokedStays ==
    \A k \in Keys \cap DOMAIN db :
        ~db[k].active => k \notin DOMAIN db' \/ ~db'[k].active
RevocationLasts == [][RevokedStays]_db
=============================================================================
