------------------------------ MODULE Tenancy ------------------------------
(***************************************************************************)
(* The requests that administer organisations, users and API keys and book *)
(* usage, over a PostgreSQL at READ COMMITTED: routers/admin, registration *)
(* (routers/auth.py) and log_usage.  A request is a transaction; an action *)
(* is one statement of it, and get_db commits after the answer was given.  *)
(* A statement waits for rows that another transaction has written, and a  *)
(* foreign key is checked by the statement that inserts or deletes.        *)
(***************************************************************************)
EXTENDS Directory

CONSTANTS Requests,
          GivenRoles,   \* roles that create_user and update_user are asked for
          MaxRequests   \* bound: requests that arrive

ASSUME TenancyAssumption ==
    GivenRoles \subseteq Roles /\ MaxRequests \in Nat /\ None \notin Row

VARIABLES
    tx,         \* the requests in flight
    claims,     \* identities in access tokens, which outlive the rows
    ever,       \* history: ids of rows that were committed
    begun,      \* bound: requests so far
    alone       \* history: requests that no other request overlapped

vars == <<db, tx, claims, ever, begun, alone>>

Ops == {"register", "google_auth", "create_org", "delete_org", "create_user",
        "update_user", "delete_user", "create_api_key", "rotate_api_key",
        "revoke_api_key", "chat_completions"}
SignUps == {"register", "google_auth"}
Stages == {"idle", "addOrg", "addUser", "setRole", "unlogUser", "pickKeys", "unlogKeys",
           "dropKeys", "dropUser", "dropLogs", "dropOrgKeys", "dropOrgUsers", "dropOrg",
           "addKey", "rotate", "deactivate", "dropKey", "known", "commit"}

Claim(u, o, r) == [user |-> u, org |-> o, role |-> r]
\* home: the organisation that the caller is kept to, None for all; user: whom the
\* new row names; on: the row that was read, then written; keys: user_key_ids; w:
\* rows written and not committed, None for a row deleted.
Idle == [op |-> "register", at |-> "idle", home |-> None, user |-> None, on |-> None,
         slug |-> None, role |-> None, keys |-> {}, w |-> [i \in {} |-> None]]

InFlight == {q \in Requests : tx[q].at # "idle"}
\* Table t with the writes w.
Overlay(t, w) == [i \in {j \in DOMAIN t \cup DOMAIN w : j \in DOMAIN w => w[j] # None} |->
                    IF i \in DOMAIN w THEN w[i] ELSE t[i]]
View(q) == Overlay(db, tx[q].w)
Identities(t) == {Claim(u, t[u].org, t[u].role) : u \in Users \cap DOMAIN t}
\* uuid4: ids that no row ever had.
Fresh(S) == S \ (ever \cup {c.user : c \in claims} \cup (UNION {DOMAIN tx[q].w : q \in Requests}))

Init ==
    /\ DirInit
    /\ tx = [q \in Requests |-> Idle]
    /\ claims = Identities(db)
    /\ ever = DOMAIN db
    /\ begun = 0 /\ alone = {}
-----------------------------------------------------------------------------
Begin(q, op, at, home, user, on, slug, role) ==
    /\ q \notin InFlight
    /\ begun < MaxRequests /\ begun' = begun + 1
    /\ tx' = [tx EXCEPT ![q] = [Idle EXCEPT !.op = op, !.at = at, !.home = home, !.user = user,
                                            !.on = on, !.slug = slug, !.role = role]]
    /\ alone' = IF InFlight = {} THEN {q} ELSE {}
    /\ UNCHANGED <<db, claims, ever>>

End(q) == tx' = [tx EXCEPT ![q] = Idle]

\* The statement that writes the rows new, then stage at.
Write(q, new, at) ==
    tx' = [tx EXCEPT ![q].at = at,
                     ![q].w = [i \in DOMAIN @ \cup DOMAIN new |->
                                 IF i \in DOMAIN new THEN new[i] ELSE @[i]]]

Unlocked(q, rows) == \A p \in Requests \ {q} : rows \cap DOMAIN tx[p].w = {}

\* (mutant) the tables have no foreign keys
InsertAny(q, i, r, at) == Write(q, [j \in {i} |-> r], at)

\* INSERT locks the rows it refers to against deletion.
Insert(q, i, r, at) ==
    /\ \A p \in Requests \ {q} : \A j \in Refs(r) \cap DOMAIN tx[p].w : tx[p].w[j] # None
    /\ IF Refs(r) \subseteq DOMAIN View(q) THEN Write(q, [j \in {i} |-> r], at) ELSE End(q)

Update(q, new, at) == Unlocked(q, DOMAIN new) /\ Write(q, new, at)

\* The row that an UPDATE by primary key is for may be gone: StaleDataError.
UpdateOne(q, r, at) ==
    IF tx[q].on \in DOMAIN View(q) THEN Update(q, [i \in {tx[q].on} |-> r], at) ELSE End(q)

\* Rows that refer to one of rows and are inserted or deleted by another request.
Contended(q, rows) ==
    \E p \in Requests \ {q} : \E j \in DOMAIN tx[p].w :
        /\ (j \in DOMAIN db) = (tx[p].w[j] = None)
        /\ Refs(IF j \in DOMAIN db THEN db[j] ELSE tx[p].w[j]) \cap rows # {}

\* DELETE of rows would leave references behind.
Refused(q, rows) ==
    \E j \in DOMAIN View(q) \ rows : Refs(View(q)[j]) \cap rows # {}

Delete(q, rows, at) ==
    /\ Unlocked(q, rows) /\ ~Contended(q, rows)
    /\ IF Refused(q, rows) THEN End(q) ELSE Write(q, [i \in rows |-> None], at)

Selected(q, S, P(_)) == {i \in S \cap DOMAIN View(q) : P(View(q)[i])}
-----------------------------------------------------------------------------
\* (mutant) a target is looked up whatever its organisation
InAnyScope(c, o) == TRUE

\* The filter on the organisation of everybody but a platform admin.
InScope(c, o) == c.role = "platform_admin" \/ c.org = o
HomeOf(c) == IF c.role = "platform_admin" THEN None ELSE c.org

\* require_role: a claim is all there is to it, the row is not looked at.
Callers(roles) == {c \in claims : c.role \in roles}

\* get_or_create_default_org, get_or_create_custom_org: the organisation with
\* the slug is read, and inserted if there is none.
SignUp(q, op, s) ==
    LET found == {o \in Orgs \cap DOMAIN db : db[o].slug = s} IN
    IF found = {} THEN Begin(q, op, "addOrg", None, None, None, s, "viewer")
    ELSE \E o \in found : Begin(q, op, "addUser", None, None, o, s, "viewer")
Register(q, s) == SignUp(q, "register", s)
\* The first sign-in with an account of Google's
GoogleAuth(q, s) == SignUp(q, "google_auth", s)

CreateOrg(q, c, s) ==
    /\ c \in Callers({"platform_admin"})
    /\ \A o \in Orgs \cap DOMAIN db : db[o].slug # s
    /\ Begin(q, "create_org", "addOrg", None, None, None, s, None)

DeleteOrg(q, c, o) ==
    /\ c \in Callers({"platform_admin"})
    /\ o \in Orgs \cap DOMAIN db
    /\ Begin(q, "delete_org", "dropLogs", None, None, o, None, None)

CreateUser(q, c, o, r) ==
    /\ c \in Callers({"platform_admin", "org_admin"}) /\ InScope(c, o)
    /\ Begin(q, "create_user", "addUser", HomeOf(c), None, o, None, r)

UpdateUser(q, c, u, r) ==
    /\ c \in Callers({"platform_admin", "org_admin"})
    /\ u \in Users \cap DOMAIN db /\ InScope(c, db[u].org) /\ db[u].role # r
    /\ Begin(q, "update_user", "setRole", HomeOf(c), None, u, None, r)

DeleteUser(q, c, u) ==
    /\ c \in Callers({"platform_admin", "org_admin"})
    /\ u \in Users \cap DOMAIN db /\ InScope(c, db[u].org)
    /\ Begin(q, "delete_user", "unlogUser", HomeOf(c), None, u, None, None)

KeyCallers == Callers({"platform_admin", "org_admin", "operator"})
\* An operator has the keys that it created.
OwnKey(c, k) == InScope(c, db[k].org) /\ (c.role = "operator" => db[k].user = c.user)

CreateApiKey(q, c) ==
    /\ c \in KeyCallers
    /\ Begin(q, "create_api_key", "addKey", c.org, c.user, None, None, None)

RotateApiKey(q, c, k) ==
    /\ c \in KeyCallers /\ k \in Keys \cap DOMAIN db /\ OwnKey(c, k)
    /\ Begin(q, "rotate_api_key", "rotate", HomeOf(c), None, k, None, None)

\* A key that is revoked already is deleted.
RevokeApiKey(q, c, k) ==
    /\ c \in KeyCallers /\ k \in Keys \cap DOMAIN db /\ OwnKey(c, k)
    /\ Begin(q, "revoke_api_key", IF db[k].active THEN "deactivate" ELSE "unlogKeys",
             HomeOf(c), None, k, None, None)

\* get_current_user_or_api_key: the identity is that of a token, or what the row
\* of an active key says (lookup_api_key).  The transaction is rolled back and
\* the inference begins.
Infer(q, c) ==
    /\ c \in claims
    /\ Begin(q, "chat_completions", "known", c.org, c.user, None, None, None)
InferWithKey(q, k) ==
    /\ k \in Keys \cap DOMAIN db /\ db[k].active
    /\ Begin(q, "chat_completions", "known", db[k].org, db[k].user, k, None, None)
-----------------------------------------------------------------------------
SlugTaken(t, s) == \E o \in Orgs \cap DOMAIN t : t[o].slug = s

\* Who founds an organisation by a name is its admin; who names none is a viewer of
\* the default one, though it be the first.  (A name may have the default's slug.)
FounderRoles(s) ==
    {"org_admin"} \cup IF s = DefaultSlug THEN {"viewer"} ELSE {}

\* Request x brings the organisation o.
Founded(x, o, r) ==
    [x EXCEPT !.w = [i \in {o} |-> OrgRow(x.slug)], !.on = o,
              !.at = IF x.op = "create_org" THEN "commit" ELSE "addUser",
              !.role = r]

\* (mutant) the slug of an organisation is not unique
InsertOrgTwice(q) ==
    /\ tx[q].at = "addOrg"
    /\ \E o \in Fresh(Orgs), r \in FounderRoles(tx[q].slug) :
              tx' = [tx EXCEPT ![q] = Founded(tx[q], o, r)]
    /\ UNCHANGED <<db, claims, ever, begun, alone>>

\* (mutant) who loses the race for a slug founds the organisation all the same
InsertOrgOrTake(q) ==
    /\ tx[q].at = "addOrg"
    /\ \A p \in Requests \ {q} : ~SlugTaken(Overlay(<<>>, tx[p].w), tx[q].slug)
    /\ IF SlugTaken(db, tx[q].slug)
       THEN \E o \in Orgs \cap DOMAIN db :
              /\ db[o].slug = tx[q].slug
              /\ tx' = [tx EXCEPT ![q].on = o, ![q].at = "addUser", ![q].role = "org_admin"]
       ELSE \E o \in Fresh(Orgs), r \in FounderRoles(tx[q].slug) :
              tx' = [tx EXCEPT ![q] = Founded(tx[q], o, r)]
    /\ UNCHANGED <<db, claims, ever, begun, alone>>

\* The unique slug: waits for another request that inserts it, and fails if it
\* is there now.
InsertOrg(q) ==
    /\ tx[q].at = "addOrg"
    /\ \A p \in Requests \ {q} : ~SlugTaken(Overlay(<<>>, tx[p].w), tx[q].slug)
    /\ IF SlugTaken(db, tx[q].slug) THEN End(q)
       ELSE \E o \in Fresh(Orgs), r \in FounderRoles(tx[q].slug) :
              tx' = [tx EXCEPT ![q] = Founded(tx[q], o, r)]
    /\ UNCHANGED <<db, claims, ever, begun, alone>>

\* register answers with the tokens of a user that is not committed yet.
InsertUser(q) ==
    /\ tx[q].at = "addUser"
    /\ \E u \in Fresh(Users) :
         /\ Insert(q, u, UserRow(tx[q].on, tx[q].role), "commit")
         /\ claims' = IF tx[q].op = "register" /\ tx'[q].at = "commit"
                      THEN claims \cup {Claim(u, tx[q].on, tx[q].role)} ELSE claims
    /\ UNCHANGED <<db, ever, begun, alone>>

WriteRole(q) ==
    /\ tx[q].at = "setRole"
    /\ UpdateOne(q, [View(q)[tx[q].on] EXCEPT !.role = tx[q].role], "commit")
    /\ UNCHANGED <<db, claims, ever, begun, alone>>

UnlogUser(q) ==
    /\ tx[q].at = "unlogUser"
    /\ Update(q, [l \in Selected(q, Logs, LAMBDA r : r.user = tx[q].on) |->
                     [View(q)[l] EXCEPT !.user = None]], "pickKeys")
    /\ UNCHANGED <<db, claims, ever, begun, alone>>

\* (mutant) the usage rows keep the keys of a user that is deleted
PickNoKeys(q) ==
    /\ tx[q].at = "pickKeys"
    /\ tx' = [tx EXCEPT ![q].at = "dropKeys"]
    /\ UNCHANGED <<db, claims, ever, begun, alone>>

PickKeys(q) ==
    /\ tx[q].at = "pickKeys"
    /\ tx' = [tx EXCEPT ![q].keys = KeysOf(View(q), tx[q].on),
                        ![q].at = IF KeysOf(View(q), tx[q].on) = {} THEN "dropKeys" ELSE "unlogKeys"]
    /\ UNCHANGED <<db, claims, ever, begun, alone>>

\* Before keys are deleted: those of a user, or the one that is revoked.
UnlogKeys(q) ==
    /\ tx[q].at = "unlogKeys"
    /\ LET keys == tx[q].keys \cup {tx[q].on} IN
       Update(q, [l \in Selected(q, Logs, LAMBDA r : r.key \in keys) |->
                     [View(q)[l] EXCEPT !.key = None]],
              IF tx[q].op = "delete_user" THEN "dropKeys" ELSE "dropKey")
    /\ UNCHANGED <<db, claims, ever, begun, alone>>

\* The rows that the DELETE of a stage is for, and the stage after it.  A row
\* that is gone already is no error.
Doomed(q) ==
    LET on == tx[q].on IN
    CASE tx[q].at = "dropKeys"     -> KeysOf(View(q), on)
      [] tx[q].at = "dropLogs"     -> Selected(q, Logs, LAMBDA r : r.org = on)
      [] tx[q].at = "dropOrgKeys"  -> Selected(q, Keys, LAMBDA r : r.org = on)
      [] tx[q].at = "dropOrgUsers" -> Selected(q, Users, LAMBDA r : r.org = on)
      [] tx[q].at \in {"dropUser", "dropOrg", "dropKey"} -> {on} \cap DOMAIN View(q)
      [] OTHER -> {}
After == [dropKeys |-> "dropUser", dropUser |-> "commit", dropKey |-> "commit",
          dropLogs |-> "dropOrgKeys", dropOrgKeys |-> "dropOrgUsers",
          dropOrgUsers |-> "dropOrg", dropOrg |-> "commit"]
Drop(q) ==
    /\ tx[q].at \in DOMAIN After
    /\ Delete(q, Doomed(q), After[tx[q].at])
    /\ UNCHANGED <<db, claims, ever, begun, alone>>

InsertKey(q) ==
    /\ tx[q].at = "addKey"
    /\ \E k \in Fresh(Keys), h \in Hashes :
         Insert(q, k, KeyRow(tx[q].home, tx[q].user, h), "commit")
    /\ UNCHANGED <<db, claims, ever, begun, alone>>

\* Of the row, the ORM writes the columns that were assigned.
WriteHash(q) ==
    /\ tx[q].at = "rotate"
    /\ \E h \in Hashes \ {db[i].hash : i \in {tx[q].on} \cap DOMAIN db} :
         UpdateOne(q, [View(q)[tx[q].on] EXCEPT !.hash = h], "commit")
    /\ UNCHANGED <<db, claims, ever, begun, alone>>

Deactivate(q) ==
    /\ tx[q].at = "deactivate"
    /\ UpdateOne(q, [View(q)[tx[q].on] EXCEPT !.active = FALSE], "commit")
    /\ UNCHANGED <<db, claims, ever, begun, alone>>

\* (mutant) user and key are swapped
LogUsageSwapped(q) ==
    /\ tx[q].at = "known"
    /\ \E l \in Fresh(Logs) :
         Insert(q, l, LogRow(tx[q].home, tx[q].on, tx[q].user), "commit")
    /\ UNCHANGED <<db, claims, ever, begun, alone>>

\* log_usage, in a session of its own after the inference: a failure is logged
\* and the usage is lost.
LogUsage(q) ==
    /\ tx[q].at = "known"
    /\ \E l \in Fresh(Logs) :
         Insert(q, l, LogRow(tx[q].home, tx[q].user, tx[q].on), "commit")
    /\ UNCHANGED <<db, claims, ever, begun, alone>>

\* get_db after the answer.  Who has a row has logged in.
Commit(q) ==
    /\ tx[q].at = "commit"
    /\ db' = View(q)
    /\ ever' = ever \cup DOMAIN db'
    /\ claims' = claims \cup Identities(db')
    /\ End(q)
    /\ UNCHANGED <<begun, alone>>

\* An error before the commit, or of it: a taken address or name, a connection
\* that breaks, a deadlock that PostgreSQL ends, an inference that fails.
Rollback(q) ==
    /\ q \in InFlight
    /\ End(q)
    /\ UNCHANGED <<db, claims, ever, begun, alone>>

Arrive(q) ==
    \/ \E s \in Slugs : Register(q, s) \/ GoogleAuth(q, s)
    \/ \E c \in claims :
         \/ \E s \in Slugs : CreateOrg(q, c, s)
         \/ \E o \in Orgs : DeleteOrg(q, c, o)
         \/ \E o \in Orgs, r \in GivenRoles : CreateUser(q, c, o, r)
         \/ \E u \in Users, r \in GivenRoles : UpdateUser(q, c, u, r)
         \/ \E u \in Users : DeleteUser(q, c, u)
         \/ CreateApiKey(q, c)
         \/ \E k \in Keys : RotateApiKey(q, c, k)
         \/ \E k \in Keys : RevokeApiKey(q, c, k)
         \/ Infer(q, c)
    \/ \E k \in Keys : InferWithKey(q, k)
Execute(q) ==
    \/ InsertOrg(q) \/ InsertUser(q) \/ WriteRole(q)
    \/ UnlogUser(q) \/ PickKeys(q) \/ UnlogKeys(q) \/ Drop(q)
    \/ InsertKey(q) \/ WriteHash(q) \/ Deactivate(q) \/ LogUsage(q)

Next == \E q \in Requests : Arrive(q) \/ Execute(q) \/ Commit(q) \/ Rollback(q)

Spec == Init /\ [][Next]_vars
-----------------------------------------------------------------------------
\* Read-only requests: the rows that lists and reports are drawn from.
ListedUsers(c) ==
    {u \in Users \cap DOMAIN db : c \in Callers({"platform_admin", "org_admin"}) /\ InScope(c, db[u].org)}
ListedKeys(c) == {k \in Keys \cap DOMAIN db : c \in KeyCallers /\ OwnKey(c, k)}

ReportedUsage(c) ==
    {l \in Logs \cap DOMAIN db :
       \/ c.role = "platform_admin"
       \/ IF c.role = "org_admin" THEN db[l].org = c.org ELSE db[l].user = c.user}

TypeOK ==
    /\ DOMAIN db \subseteq Ids
    /\ \A i \in DOMAIN db : db[i] \in Row
    /\ \A c \in claims : c \in [user : Users, org : Orgs, role : Roles]
    /\ DOMAIN db \subseteq ever /\ ever \subseteq Ids
    /\ alone \subseteq Requests /\ begun \in 0..MaxRequests
    /\ \A q \in Requests :
         /\ tx[q].op \in Ops /\ tx[q].at \in Stages /\ tx[q].keys \subseteq Keys
         /\ tx[q].home \in Orgs \cup {None} /\ tx[q].user \in Users \cup {None}
         /\ tx[q].on \in Ids \cup {None} /\ tx[q].slug \in Slugs \cup {None}
         /\ tx[q].role \in Roles \cup {None}
         /\ \A i \in DOMAIN tx[q].w : i \in Ids /\ tx[q].w[i] \in Row \cup {None}

\* Tenants are kept apart.  Nobody whose token does not say platform_admin writes or
\* deletes a row of an organisation other than its own, be it directly or by what a
\* deletion takes along; and what it is shown is of its own, though the reports of
\* operators and viewers only ask for the user.  (An org_admin can have that role
\* given to a user of its organisation, itself included: update_user takes any.)
TenantsApart ==
    /\ \A q \in InFlight : tx[q].home # None =>
         \A i \in DOMAIN tx[q].w :
             /\ i \in DOMAIN db => Home(db, i) = tx[q].home
             /\ tx[q].w[i] # None => Home(View(q), i) = tx[q].home
    /\ \A c \in claims : c.role # "platform_admin" =>
         \A i \in ListedUsers(c) \cup ListedKeys(c) \cup ReportedUsage(c) : db[i].org = c.org

\* Of registrations that race for the name of a new organisation, only the one
\* that the organisation is committed with makes an admin of it.
FoundersAlone ==
    \A q \in InFlight : tx[q].op \in SignUps =>
        \A u \in Users \cap DOMAIN tx[q].w :
            tx[q].w[u].role # "viewer" => tx[q].w[u].org \in DOMAIN tx[q].w

\* A deletion that nothing overlaps does not fail on a reference left behind:
\* delete_user, delete_org and revoke_api_key clear every table in the order
\* that the foreign keys ask for.
DeletionsFit ==
    \A q \in alone : tx[q].at \in DOMAIN After => ~Refused(q, Doomed(q))
=============================================================================
