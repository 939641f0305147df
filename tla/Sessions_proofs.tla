-------------------------- MODULE Sessions_proofs --------------------------
(***************************************************************************)
(* The sessions of a user, for any number of clients, requests and tokens. *)
(***************************************************************************)
EXTENDS Sessions, TLAPS

\* Requests when the tokens of I are issued.
Record(I) == [stage : Stages, client : Clients \cup {None}, token : I \cup {None},
              secret : Nat, keys : SUBSET I, resets : BOOLEAN, barred : BOOLEAN,
              alone : BOOLEAN]

Origins(I) == [secret : Nat, parent : I \cup {None}, barred : BOOLEAN, smooth : BOOLEAN]

\* What a request has at its stage.
Shaped(r) ==
    /\ r.stage = "idle" => r.token = None
    /\ r.stage # "idle" => r.client \in Clients
    /\ r.stage \in {"asked", "valid", "revoked", "stored", "leaving", "left"} => r.token # None
    /\ r.barred => r.stage \notin {"known", "stored"}

Typed ==
    /\ TypeOK
    /\ issued \in [Issued -> Origins(Issued)]
    /\ \A q \in Requests : Shaped(req[q]) /\ (req[q].barred => suspended)

LEMMA TypedFacts ==
    ASSUME Typed
    PROVE  /\ Issued \subseteq Tokens /\ None \notin Issued /\ active \subseteq Issued
           /\ ended \subseteq Issued
           /\ issued \in [Issued -> Origins(Issued)]
           /\ cookie \in [Clients -> Issued \cup {None}] /\ None \notin Clients
           /\ req \in [Requests -> Record(Issued)]
           /\ \A q \in Requests : req[q] \in Record(Issued) /\ Shaped(req[q])
                                  /\ (req[q].barred => suspended)
           /\ password \in Nat /\ suspended \in BOOLEAN
           /\ excused \subseteq Clients /\ mishaps \in Nat
  BY SessionsAssumption DEF Typed, TypeOK, Record

LEMMA IdleRecord == \A I : Idle \in Record(I)
  BY DEF Idle, Record, Stages

LEMMA IdleShaped == Shaped(Idle) /\ Idle.stage = "idle" /\ Idle.token = None /\ ~Idle.barred
  BY DEF Shaped, Idle

\* More tokens are issued.
LEMMA MoreRecords == ASSUME NEW I, NEW J, I \subseteq J PROVE Record(I) \subseteq Record(J)
  BY DEF Record

\* A step of one request that gets the record r.
LEMMA OneMoves ==
    ASSUME Typed, NEW q \in Requests, NEW r, req' = [req EXCEPT ![q] = r],
           Issued \subseteq Issued', Issued' \subseteq Tokens,
           issued' \in [Issued' -> Origins(Issued')],
           r \in Record(Issued'), Shaped(r), r.barred => suspended,
           active' \subseteq Issued', ended' \subseteq Issued',
           cookie' \in [Clients -> Issued' \cup {None}],
           password' \in Nat, UNCHANGED suspended, excused' \subseteq Clients, mishaps' \in Nat
    PROVE  Typed'
  <1>1. req' \in [Requests -> Record(Issued')]
    <2>1. Record(Issued) \subseteq Record(Issued')
      BY MoreRecords
    <2> QED BY <2>1, TypedFacts
  <1>2. req'[q] = r /\ \A p \in Requests \ {q} : req'[p] = req[p]
    BY TypedFacts
  <1>3. \A p \in Requests : Shaped(req'[p]) /\ (req'[p].barred => suspended')
    BY <1>2, TypedFacts
  <1>4. (\A p \in Requests : Shaped(req[p]))'
    BY <1>3 DEF Shaped
  <1>5. TypeOK'
    <2>1. issued' \in [Issued' -> [secret : Nat, parent : Tokens \cup {None}, barred : BOOLEAN,
                                   smooth : BOOLEAN]]
      BY DEF Origins
    <2>2. suspended' \in BOOLEAN
      BY TypedFacts
    <2> QED BY <1>1, <2>1, <2>2 DEF TypeOK, Record
  <1> QED BY <1>3, <1>4, <1>5 DEF Typed

LEMMA BeginKeeps ==
    ASSUME Typed, NEW q \in Requests, NEW c \in Clients, NEW stage \in Stages,
           NEW token \in Issued \cup {None}, NEW secret \in Nat,
           NEW barred \in BOOLEAN, barred => suspended,
           Begin(q, c, stage, token, secret, barred)
    PROVE  /\ req' \in [Requests -> Record(Issued)]
           /\ req'[q].stage = stage /\ req'[q].client = c /\ req'[q].token = token
           /\ req'[q].secret = secret
           /\ (req'[q].barred <=> barred) /\ (req'[q].barred => suspended)
           /\ req'[q].alone => Busy = {}
           /\ \A p \in Requests \ {q} : /\ req'[p].stage = req[p].stage
                                        /\ req'[p].client = req[p].client
                                        /\ req'[p].token = req[p].token
                                        /\ req'[p].secret = req[p].secret
                                        /\ req'[p].keys = req[p].keys
                                        /\ req'[p].barred <=> req[p].barred
                                        /\ req'[p].alone => req[p].alone /\ p \notin Busy
  <1>1. req' = [p \in Requests |->
                 IF p = q
                 THEN [stage |-> stage, client |-> c, token |-> token, secret |-> secret,
                       keys |-> {}, resets |-> stage = "reset", barred |-> barred,
                       alone |-> Busy = {}]
                 ELSE [req[p] EXCEPT !.alone = @ /\ p \notin Busy]]
    BY DEF Begin
  <1>2. /\ req'[q] \in Record(Issued)
        /\ req'[q].stage = stage /\ req'[q].client = c /\ req'[q].token = token
        /\ req'[q].secret = secret /\ req'[q].barred = barred /\ req'[q].alone = (Busy = {})
    <2>1. req'[q] = [stage |-> stage, client |-> c, token |-> token, secret |-> secret,
                     keys |-> {}, resets |-> (stage = "reset"), barred |-> barred,
                     alone |-> (Busy = {})]
      BY <1>1
    <2> QED BY <2>1 DEF Record
  <1>3. ASSUME NEW p \in Requests \ {q}
        PROVE  /\ req'[p] \in Record(Issued)
               /\ req'[p].stage = req[p].stage /\ req'[p].client = req[p].client
               /\ req'[p].token = req[p].token /\ req'[p].secret = req[p].secret
               /\ req'[p].keys = req[p].keys /\ req'[p].barred = req[p].barred
               /\ req'[p].alone = (req[p].alone /\ p \notin Busy)
    <2>1. req[p] \in Record(Issued) /\ req'[p] = [req[p] EXCEPT !.alone = @ /\ p \notin Busy]
      BY <1>1, TypedFacts
    <2> QED BY <2>1 DEF Record
  <1>4. req' \in [Requests -> Record(Issued)]
    BY <1>1, <1>2, <1>3
  <1>5. (req'[q].barred <=> barred) /\ (req'[q].barred => suspended)
        /\ (req'[q].alone => Busy = {})
    BY <1>2
  <1> QED BY <1>2, <1>3, <1>4, <1>5

LEMMA TypedInit == Init => Typed
  <1> SUFFICES ASSUME Init PROVE Typed
    OBVIOUS
  <1>1. Issued = {}
    BY DEF Init, Issued
  <1>2. req \in [Requests -> Record(Issued)] /\ \A q \in Requests : req[q] = Idle
    BY IdleRecord DEF Init
  <1>3. TypeOK
    BY <1>1, <1>2, SessionsAssumption DEF Init, TypeOK, Record, Issued
  <1> QED BY <1>1, <1>2, <1>3, IdleShaped DEF Init, Typed, Issued

LEMMA TypedStep == Typed /\ [Next]_vars => Typed'
  <1> SUFFICES ASSUME Typed, [Next]_vars PROVE Typed'
    OBVIOUS
  <1> USE TypedFacts
  <1>1. ASSUME NEW q \in Requests, NEW c \in Clients,
               Login(q, c) \/ GoogleSignIn(q, c) \/ Refresh(q, c) \/ Logout(q, c)
                 \/ Reset(q, c)
        PROVE  Typed'
    <2>1. PICK stage \in {"known", "asked", "leaving", "reset"}, token \in Issued \cup {None},
               secret \in Nat, barred \in BOOLEAN :
               /\ Begin(q, c, stage, token, secret, barred)
               /\ barred => suspended
               /\ stage \in {"asked", "leaving"} => token # None
               /\ stage = "known" => ~barred
      <3> DEFINE Asked(stage, token, secret, barred) ==
                   /\ Begin(q, c, stage, token, secret, barred)
                   /\ barred => suspended
                   /\ stage \in {"asked", "leaving"} => token # None
                   /\ stage = "known" => ~barred
      <3>1. CASE Login(q, c)
        <4>1. Asked("known", None, password, suspended)
          BY <3>1 DEF Login
        <4> HIDE DEF Asked
        <4>2. \E barred \in BOOLEAN : Asked("known", None, password, barred)
          BY <4>1
        <4> QED BY <4>2 DEF Asked
      <3>2. CASE Refresh(q, c)
        <4>1. Asked("asked", cookie[c], 0, suspended) /\ cookie[c] \in Issued \cup {None}
          BY <3>2 DEF Refresh
        <4> HIDE DEF Asked
        <4>2. \E barred \in BOOLEAN : Asked("asked", cookie[c], 0, barred)
          BY <4>1
        <4> QED BY <4>1, <4>2 DEF Asked
      <3>3. CASE GoogleSignIn(q, c)
        BY <3>3 DEF GoogleSignIn
      <3>4. CASE Logout(q, c)
        BY <3>4 DEF Logout
      <3>5. CASE Reset(q, c)
        BY <3>5 DEF Reset
      <3> QED BY <1>1, <3>1, <3>2, <3>3, <3>4, <3>5
    <2>2. stage \in Stages
      BY DEF Stages
    <2>3. UNCHANGED <<active, cookie, password, suspended, issued, ended, mishaps>>
      BY <1>1 DEF Login, GoogleSignIn, Refresh, Logout, Reset
    <2>4. excused' \subseteq Clients
      BY <2>1 DEF Begin
    <2>5. req' \in [Requests -> Record(Issued)] /\ req'[q].stage = stage
          /\ req'[q].client = c /\ req'[q].token = token
          /\ (req'[q].barred <=> barred) /\ (req'[q].barred => suspended)
      BY <2>1, <2>2, BeginKeeps
    <2>6. \A p \in Requests \ {q} : /\ req'[p].stage = req[p].stage
                                    /\ req'[p].client = req[p].client
                                    /\ req'[p].token = req[p].token
                                    /\ req'[p].barred <=> req[p].barred
      BY <2>1, <2>2, BeginKeeps
    <2>7. ASSUME NEW p \in Requests PROVE Shaped(req'[p]) /\ (req'[p].barred => suspended)
      <3>1. CASE p = q
        BY <2>1, <2>5, <3>1 DEF Shaped
      <3>2. CASE p # q
        <4>1. p \in Requests \ {q} /\ Shaped(req[p]) /\ (req[p].barred => suspended)
          BY <3>2
        <4> QED BY <2>6, <4>1 DEF Shaped
      <3> QED BY <3>1, <3>2
    <2>8. Issued' = Issued
      BY <2>3 DEF Issued
    <2>9. TypeOK'
      BY <2>3, <2>4, <2>5, <2>8 DEF Typed, TypeOK, Record
    <2>10. (\A p \in Requests : Shaped(req[p]))'
      BY <2>7 DEF Shaped
    <2> QED BY <2>3, <2>7, <2>8, <2>9, <2>10 DEF Typed
  <1>2. ASSUME NEW q \in Requests, NEW r, req' = [req EXCEPT ![q] = r],
               r \in Record(Issued), Shaped(r), r.barred => suspended,
               UNCHANGED <<issued, password, suspended>>,
               active' \subseteq active, ended' \subseteq Issued,
               cookie' \in [Clients -> Issued \cup {None}],
               excused' \subseteq Clients, mishaps' \in Nat
        PROVE  Typed'
    <2>1. Issued' = Issued
      BY <1>2 DEF Issued
    <2> QED BY <1>2, <2>1, OneMoves
  <1>3. ASSUME NEW q \in Requests, End(q), UNCHANGED <<issued, suspended>>,
               password' \in Nat, active' \subseteq active, UNCHANGED ended,
               cookie' \in [Clients -> Issued \cup {None}],
               excused' \subseteq Clients, mishaps' \in Nat
        PROVE  Typed'
    <2>1. Issued' = Issued
      BY <1>3 DEF Issued
    <2> QED BY <1>3, <2>1, OneMoves, IdleRecord, IdleShaped DEF End
  <1>4. ASSUME NEW q \in Requests, NEW stage \in Stages \ {"idle"}, Goto(q, stage),
               q \in Busy,
               stage \in {"asked", "valid", "revoked", "stored", "leaving", "left"} =>
                  req[q].stage \in {"asked", "valid", "revoked", "stored", "leaving", "left"},
               stage \notin {"known", "stored"},
               UNCHANGED <<issued, password, suspended, cookie>>,
               active' \subseteq active, ended' \subseteq Issued,
               excused' \subseteq Clients, mishaps' \in Nat
        PROVE  Typed'
    <2> DEFINE r == [req[q] EXCEPT !.stage = stage]
    <2>1. req' = [req EXCEPT ![q] = r]
      BY <1>4 DEF Goto
    <2>2. req[q] \in Record(Issued) /\ Shaped(req[q]) /\ req[q].stage # "idle"
          /\ (req[q].barred => suspended)
      BY <1>4 DEF Busy
    <2>3. r \in Record(Issued) /\ Shaped(r) /\ (r.barred => suspended)
      BY <1>4, <2>2 DEF Record, Shaped
    <2> HIDE DEF r
    <2> QED BY <1>2, <1>4, <2>1, <2>3
  <1>5. ASSUME NEW q \in Requests, IsValid(q) PROVE Typed'
    <2>1. PICK stage \in {"valid", "alarm"} : Goto(q, stage)
      BY <1>5 DEF IsValid
    <2> QED BY <1>4, <1>5, <2>1 DEF IsValid, Busy, Stages
  <1>6. ASSUME NEW q \in Requests, RevokeOld(q) PROVE Typed'
    BY <1>4, <1>6 DEF RevokeOld, Busy, Stages
  <1>7. ASSUME NEW q \in Requests, SelectUser(q) PROVE Typed'
    <2>1. UNCHANGED <<active, cookie, password, suspended, issued, ended, mishaps>>
          /\ req[q].stage = "revoked"
      BY <1>7 DEF SelectUser
    <2>2. req[q] \in Record(Issued) /\ Shaped(req[q]) /\ req[q].client \in Clients
          /\ (req[q].barred => suspended)
      BY <2>1 DEF Shaped
    <2>3. CASE End(q) /\ Excuse({req[q].client})
      BY <1>3, <2>1, <2>2, <2>3 DEF Excuse
    <2>4. CASE /\ ~suspended /\ UNCHANGED excused
               /\ req' = [req EXCEPT ![q].stage = "known", ![q].secret = issued[req[q].token].secret]
      <3> DEFINE secret == issued[req[q].token].secret
      <3>1. secret \in Nat
        <4>1. req[q].token \in Issued
          BY <2>1, <2>2 DEF Shaped, Record
        <4> QED BY <4>1 DEF Origins
      <3>2. req' = [req EXCEPT ![q].stage = "known", ![q].secret = secret]
        BY <2>4
      <3> HIDE DEF secret
      <3> DEFINE r == [req[q] EXCEPT !.stage = "known", !.secret = secret]
      <3>3. req' = [req EXCEPT ![q] = r]
        BY <3>2
      <3>4. r \in Record(Issued) /\ Shaped(r) /\ (r.barred => suspended)
        BY <2>2, <2>4, <3>1 DEF Record, Shaped, Stages
      <3> HIDE DEF r
      <3> QED BY <1>2, <2>1, <2>4, <3>3, <3>4
    <2> QED BY <1>7, <2>3, <2>4 DEF SelectUser
  <1>8. ASSUME NEW q \in Requests, NEW t \in Tokens, Store(q, t) PROVE Typed'
    <2> DEFINE r == [req[q] EXCEPT !.stage = "stored", !.token = t]
    <2>1. /\ req[q].stage = "known" /\ t \in Tokens \ Issued /\ active' = active \cup {t}
          /\ req' = [req EXCEPT ![q].stage = "stored", ![q].token = t]
          /\ issued' = [u \in Issued \cup {t} |->
                          IF u = t THEN [secret |-> req[q].secret, parent |-> req[q].token,
                                         barred |-> req[q].barred, smooth |-> FALSE]
                                   ELSE issued[u]]
          /\ UNCHANGED <<cookie, password, suspended, ended, excused, mishaps>>
      BY <1>8 DEF Store, Issue
    <2>2. req[q] \in Record(Issued) /\ Shaped(req[q]) /\ ~req[q].barred
      BY <2>1 DEF Shaped
    <2>3. Issued' = Issued \cup {t} /\ t # None
      BY <2>1, SessionsAssumption DEF Issued
    <2>4. issued' \in [Issued' -> Origins(Issued')]
      <3>1. [secret |-> req[q].secret, parent |-> req[q].token, barred |-> req[q].barred,
             smooth |-> FALSE] \in Origins(Issued')
        BY <2>2, <2>3 DEF Record, Origins
      <3>2. \A u \in Issued : issued[u] \in Origins(Issued')
        BY <2>3 DEF Origins
      <3> QED BY <2>1, <2>3, <3>1, <3>2
    <2>5. req' = [req EXCEPT ![q] = r]
      BY <2>1
    <2>6. r \in Record(Issued') /\ Shaped(r) /\ ~r.barred
      BY <2>2, <2>1, <2>3 DEF Record, Shaped, Stages
    <2> HIDE DEF r
    <2>7. /\ Issued \subseteq Issued' /\ Issued' \subseteq Tokens /\ ended' \subseteq Issued'
          /\ active' \subseteq Issued' /\ cookie' \in [Clients -> Issued' \cup {None}]
      BY <2>1, <2>3
    <2>8. password' \in Nat /\ UNCHANGED suspended /\ excused' \subseteq Clients /\ mishaps' \in Nat
      BY <2>1
    <2> QED BY <2>4, <2>5, <2>6, <2>7, <2>8, OneMoves
  <1>9. ASSUME NEW q \in Requests, AnswerCookie(q) PROVE Typed'
    <2> DEFINE smooth == req[q].alone
                         /\ \A t \in Issued : t = issued[req[q].token].parent => issued[t].smooth
    <2>1. /\ req[q].stage = "stored" /\ End(q)
          /\ cookie' = [cookie EXCEPT ![req[q].client] = req[q].token]
          /\ issued' = [issued EXCEPT ![req[q].token].smooth = smooth]
          /\ UNCHANGED <<active, password, suspended, ended, excused, mishaps>>
      BY <1>9 DEF AnswerCookie
    <2>2. req[q] \in Record(Issued) /\ req[q].token \in Issued /\ req[q].client \in Clients
      BY <2>1 DEF Shaped, Record
    <2>3. cookie' \in [Clients -> Issued \cup {None}]
      BY <2>1, <2>2
    <2>4. smooth \in BOOLEAN
      OBVIOUS
    <2> HIDE DEF smooth
    <2>5. Issued' = Issued /\ issued' \in [Issued -> Origins(Issued)]
      BY <2>1, <2>2, <2>4 DEF Issued, Origins
    <2> QED BY <2>1, <2>3, <2>5, OneMoves, IdleRecord, IdleShaped DEF End
  <1>10. ASSUME NEW q \in Requests, FindKeys(q) PROVE Typed'
    <2> DEFINE r == [req[q] EXCEPT !.stage = "sweep", !.keys = active]
    <2>1. /\ req[q].stage \in {"alarm", "reset"}
          /\ req' = [req EXCEPT ![q].stage = "sweep", ![q].keys = active]
          /\ UNCHANGED <<active, cookie, password, suspended, issued, ended, excused, mishaps>>
      BY <1>10 DEF FindKeys
    <2>2. req[q] \in Record(Issued) /\ Shaped(req[q]) /\ (req[q].barred => suspended)
      OBVIOUS
    <2>3. req' = [req EXCEPT ![q] = r]
      BY <2>1
    <2>4. r \in Record(Issued) /\ Shaped(r) /\ (r.barred => suspended)
      BY <2>1, <2>2 DEF Record, Shaped, Stages
    <2> HIDE DEF r
    <2> QED BY <1>2, <2>1, <2>3, <2>4
  <1>11. ASSUME NEW q \in Requests, DeleteKeys(q) PROVE Typed'
    <2>1. /\ q \in Busy /\ active' \subseteq active /\ excused' \subseteq Clients
          /\ UNCHANGED <<cookie, password, suspended, issued, ended, mishaps>>
          /\ End(q) \/ Goto(q, "swept")
      BY <1>11 DEF DeleteKeys, Swept, Excuse, Busy
    <2>2. CASE End(q)
      BY <1>3, <2>1, <2>2
    <2>3. CASE Goto(q, "swept")
      <3>1. "swept" \in Stages \ {"idle"}
        BY DEF Stages
      <3>2. ended' \subseteq Issued /\ mishaps' \in Nat
        BY <2>1
      <3> QED BY <1>4, <2>1, <2>3, <3>1, <3>2
    <2> QED BY <2>1, <2>2, <2>3
  <1>12. ASSUME NEW q \in Requests, CommitReset(q) PROVE Typed'
    BY <1>3, <1>12 DEF CommitReset
  <1>13. ASSUME NEW q \in Requests, RevokeLeft(q) PROVE Typed'
    <2>1. req[q].token \in Issued
      BY <1>13 DEF RevokeLeft, Shaped, Record
    <2> QED BY <1>4, <1>13, <2>1 DEF RevokeLeft, Busy, Stages
  <1>14. ASSUME NEW q \in Requests, RevokeLeftFails(q) PROVE Typed'
    BY <1>4, <1>14 DEF RevokeLeftFails, Busy, Stages, Mishap
  <1>15. ASSUME NEW q \in Requests, AnswerLogout(q) PROVE Typed'
    BY <1>3, <1>15 DEF AnswerLogout
  <1>16. ASSUME NEW q \in Requests, Abort(q) PROVE Typed'
    <2>1. req[q].client \in Clients
      BY <1>16 DEF Abort, Busy, Shaped
    <2> QED BY <1>3, <1>16, <2>1 DEF Abort, Excuse, Mishap
  <1>17. CASE Suspend
    BY <1>17 DEF Suspend, Mishap, Typed, TypeOK, Shaped, Issued
  <1>18. CASE Reactivate
    <2>1. /\ req' = [q \in Requests |-> [req[q] EXCEPT !.barred = FALSE]] /\ ~suspended'
          /\ UNCHANGED <<active, cookie, password, issued, ended, excused, mishaps>>
          /\ suspended' \in BOOLEAN
      BY <1>18 DEF Reactivate
    <2>2. \A q \in Requests : req'[q] \in Record(Issued) /\ Shaped(req'[q]) /\ ~req'[q].barred
      <3> TAKE q \in Requests
      <3>1. req[q] \in Record(Issued) /\ Shaped(req[q]) /\ req'[q] = [req[q] EXCEPT !.barred = FALSE]
        BY <2>1
      <3> QED BY <3>1 DEF Record, Shaped
    <2>3. req' \in [Requests -> Record(Issued)] /\ Issued' = Issued
      BY <2>1, <2>2 DEF Issued
    <2>4. (\A q \in Requests : Shaped(req[q]))'
      BY <2>2 DEF Shaped
    <2>5. TypeOK'
      BY <2>1, <2>3 DEF Typed, TypeOK, Record
    <2> QED BY <2>1, <2>2, <2>3, <2>4, <2>5 DEF Typed
  <1>19. CASE RedisRestart
    BY <1>19 DEF RedisRestart, Mishap, Excuse, Typed, TypeOK, Shaped, Issued
  <1>20. CASE UNCHANGED vars
    BY <1>20 DEF vars, Typed, TypeOK, Shaped, Issued
  <1> QED
    BY <1>1, <1>5, <1>6, <1>7, <1>8, <1>9, <1>10, <1>11, <1>12, <1>13, <1>14, <1>15, <1>16,
       <1>17, <1>18, <1>19, <1>20 DEF Next

(***************************************************************************)
(* Every variable keeps its type, and every jti in use was issued.         *)
(***************************************************************************)
THEOREM TypeCorrect == Spec => []TypeOK
  <1>1. Spec => []Typed
    BY TypedInit, TypedStep, PTL DEF Spec
  <1>2. Typed => TypeOK
    BY DEF Typed
  <1> QED BY <1>1, <1>2, PTL

LEMMA BarredStep == Typed /\ NothingForTheBarred /\ [Next]_vars => NothingForTheBarred'
  <1> SUFFICES ASSUME Typed, NothingForTheBarred, [Next]_vars PROVE NothingForTheBarred'
    OBVIOUS
  <1> USE TypedFacts
  <1>1. ASSUME UNCHANGED issued PROVE NothingForTheBarred'
    BY <1>1 DEF NothingForTheBarred, Issued
  <1>2. ASSUME NEW q \in Requests, NEW t \in Tokens, Store(q, t) PROVE NothingForTheBarred'
    <2>1. ~req[q].barred
      BY <1>2 DEF Store, Shaped
    <2>2. /\ Issued' = Issued \cup {t} /\ ~issued'[t].barred
          /\ \A u \in Issued \ {t} : issued'[u] = issued[u]
      BY <1>2, <2>1 DEF Store, Issue, Issued
    <2> QED BY <2>2 DEF NothingForTheBarred
  <1>3. ASSUME NEW q \in Requests, AnswerCookie(q) PROVE NothingForTheBarred'
    <2> DEFINE smooth == req[q].alone
                         /\ \A t \in Issued : t = issued[req[q].token].parent => issued[t].smooth
    <2>1. issued' = [issued EXCEPT ![req[q].token].smooth = smooth]
      BY <1>3 DEF AnswerCookie
    <2> HIDE DEF smooth
    <2>2. Issued' = Issued /\ \A u \in Issued : issued'[u].barred <=> issued[u].barred
      BY <2>1 DEF Issued, Origins
    <2> QED BY <2>2 DEF NothingForTheBarred
  <1> QED
    BY <1>1, <1>2, <1>3 DEF Next, vars, Login, GoogleSignIn, Refresh, Logout, Reset, IsValid,
       RevokeOld, SelectUser,
       FindKeys, DeleteKeys, CommitReset, RevokeLeft, RevokeLeftFails, AnswerLogout, Abort,
       Suspend, Reactivate, RedisRestart

(***************************************************************************)
(* No token is issued to a login or refresh that was begun and served      *)
(* while the user was suspended or deleted (google_auth does not ask).     *)
(***************************************************************************)
THEOREM BarredGetNothing == Spec => []NothingForTheBarred
  <1>1. Init => NothingForTheBarred
    BY DEF Init, NothingForTheBarred, Issued
  <1> QED BY <1>1, TypedInit, TypedStep, BarredStep, PTL DEF Spec

-----------------------------------------------------------------------------
\* Not smooth, and whoever is about to answer with it is not alone.
Rough(t) ==
    /\ ~issued[t].smooth
    /\ \A r \in Requests : req[r].stage = "stored" /\ req[r].token = t => ~req[r].alone

\* Two requests: the one that is alone is the only one; a client that overlaps itself
\* is excused; tokens of different clients differ.
Pair(p, q) ==
    /\ req[p].alone /\ p \in Busy => q \notin Busy
    /\ p \in Busy /\ q \in Busy /\ req[p].client = req[q].client => req[p].client \in excused
    /\ req[p].token # None /\ req[p].client # req[q].client => req[p].token # req[q].token

Exchanging == {"valid", "revoked", "known"}

\* The token of a request is its client's.
Mine(q) ==
    /\ req[q].token # None =>
          \A d \in Clients : d # req[q].client => cookie[d] # req[q].token
    /\ req[q].alone /\ req[q].stage \in Exchanging \cup {"asked"} /\ req[q].token # None =>
          cookie[req[q].client] = req[q].token
    /\ req[q].alone /\ req[q].stage = "stored" /\ issued[req[q].token].parent # None =>
          cookie[req[q].client] = issued[req[q].token].parent
    /\ q \in Busy /\ req[q].client \notin excused =>
          /\ req[q].stage \notin {"alarm", "swept"}
          /\ req[q].stage \in {"asked", "stored"} => req[q].token \in active

\* What is being exchanged is not exchanged by another, and is not out of date.
Exchange(q) ==
    /\ req[q].stage \in {"revoked", "known"} => req[q].token \notin active
    /\ req[q].stage \in Exchanging /\ req[q].token # None =>
          \A t \in Issued : issued[t].parent = req[q].token => ~req[q].alone /\ Rough(t)
    /\ req[q].alone /\ req[q].stage \in Exchanging /\ req[q].token # None =>
          /\ req[q].token \notin ended
          /\ issued[req[q].token].smooth => issued[req[q].token].secret = password
    /\ req[q].alone /\ req[q].stage = "known" =>
          ((req[q].token # None => issued[req[q].token].smooth) => req[q].secret = password)
    /\ req[q].alone /\ req[q].stage = "stored" =>
          LET parent == issued[req[q].token].parent IN
          /\ parent \notin ended
          /\ (parent # None => issued[parent].smooth) => issued[req[q].token].secret = password

\* A sweep misses only what overlapped it.
Sweep(q) ==
    /\ req[q].stage = "sweep" => \A t \in active : issued[t].smooth => t \in req[q].keys
    /\ req[q].stage = "swept" => \A t \in active : ~issued[t].smooth

\* What is active is not ended nor out of date.
Standing(t) ==
    t \in active =>
       /\ t \notin ended
       /\ issued[t].smooth => issued[t].parent \notin ended /\ issued[t].secret = password

\* Nobody has the token any more that was exchanged for t.
Superseded(t) ==
    issued[t].parent # None =>
       /\ \A c \in Clients : cookie[c] # issued[t].parent
       /\ \A q \in Requests : req[q].token # issued[t].parent

Token(t) ==
    /\ issued[t].parent # t /\ issued[t].parent \notin active
    /\ Standing(t)
    /\ issued[t].smooth => Superseded(t)

Twins(t, u) ==
    t # u /\ issued[t].parent = issued[u].parent /\ issued[t].parent # None => Rough(t)

Rest(c) ==
    /\ cookie[c] # None => \A d \in Clients : d # c => cookie[d] # cookie[c]
    /\ c \notin excused /\ (\A q \in Busy : req[q].client # c) => cookie[c] \in active \cup {None}

Guarded ==
    /\ \A p, q \in Requests : p # q => Pair(p, q)
    /\ \A q \in Requests : Mine(q) /\ Exchange(q) /\ Sweep(q)
    /\ \A t \in Issued : Token(t)
    /\ \A t, u \in Issued : Twins(t, u)
    /\ \A c \in Clients : Rest(c)

\* One request gets the record r; what changes besides belongs to it.
LEMMA OneGuards ==
    ASSUME Typed, Typed', Guarded, NEW q \in Requests, q \in Busy,
           NEW r, req' = [req EXCEPT ![q] = r],
           r.stage # "idle" => r.client = req[q].client /\ (r.alone => req[q].alone),
           r.stage = "idle" => r.token = None,
           r.token \in {req[q].token, None} \/ r.token \notin Issued,
           r.stage = "stored" => r.token \notin Issued,
           r.stage = "idle" => \/ req[q].client \in excused'
                               \/ cookie'[req[q].client] \in active' \cup {None},
           excused \subseteq excused',
           \A d \in Clients : \/ cookie'[d] \in {cookie[d], None}
                              \/ d = req[q].client /\ cookie'[d] = req[q].token,
           Issued \subseteq Issued',
           \A t \in Issued : t \in active' => t \in active,
           \A t \in active : t \notin active' => t = req[q].token \/ excused' = Clients,
           \A t \in Issued :
              /\ issued'[t].parent = issued[t].parent /\ issued'[t].secret = issued[t].secret
              /\ issued'[t].smooth =>
                    issued[t].smooth
                    \/ /\ req[q].stage = "stored" /\ req[q].token = t /\ req[q].alone
                       /\ Superseded(t)'
              /\ Standing(t)',
           \A t \in Issued' \ Issued :
              /\ ~issued'[t].smooth /\ Token(t)'
              /\ \A u \in Issued' : Twins(t, u)' /\ Twins(u, t)',
           Mine(q)', Exchange(q)', Sweep(q)'
    PROVE  Guarded'
  <1> USE TypedFacts
  <1>1. req'[q] = r /\ \A p \in Requests \ {q} : req'[p] = req[p]
    OBVIOUS
  <1>2. \A p \in Requests : p \in Busy' => p \in Busy
    BY <1>1 DEF Busy
  <1>3. \A p \in Requests : req[p].token \in Issued \cup {None}
    BY DEF Record
  <1>4. \A t \in Issued : issued[t].parent \in Issued \cup {None}
    BY DEF Origins
  <1>0. None \notin Issued' /\ active' \subseteq Issued'
    BY SessionsAssumption DEF Typed, TypeOK
  <1>5. ASSUME NEW o \in Requests, NEW p \in Requests, o # p PROVE Pair(o, p)'
    <2>1. Pair(o, p) /\ Pair(p, o)
      BY <1>5 DEF Guarded
    <2>2. CASE o # q /\ p # q
      <3>1. req'[o] = req[o] /\ req'[p] = req[p]
        BY <1>1, <2>2
      <3> QED BY <1>2, <2>1, <3>1 DEF Pair
    <2>3. CASE o = q
      <3>1. req'[o] = r /\ req'[p] = req[p]
        BY <1>1, <1>5, <2>3
      <3>2. o \in Busy' => r.stage # "idle"
        BY <3>1 DEF Busy
      <3>3. (req'[o].alone /\ o \in Busy') => p \notin Busy'
        BY <1>2, <2>1, <2>3, <3>1, <3>2 DEF Pair
      <3>4. o \in Busy' /\ p \in Busy' /\ req'[o].client = req'[p].client => req'[o].client \in excused'
        BY <1>2, <2>1, <2>3, <3>1, <3>2 DEF Pair
      <3>5. req'[o].token # None /\ req'[o].client # req'[p].client => req'[o].token # req'[p].token
        BY <1>3, <2>1, <2>3, <3>1 DEF Pair
      <3> QED BY <3>3, <3>4, <3>5 DEF Pair
    <2>4. CASE p = q
      <3>1. req'[p] = r /\ req'[o] = req[o]
        BY <1>1, <1>5, <2>4
      <3>2. p \in Busy' => r.stage # "idle"
        BY <3>1 DEF Busy
      <3>3. (req'[o].alone /\ o \in Busy') => p \notin Busy'
        BY <1>2, <2>1, <2>4, <3>1, <3>2 DEF Pair
      <3>4. o \in Busy' /\ p \in Busy' /\ req'[o].client = req'[p].client => req'[o].client \in excused'
        BY <1>2, <2>1, <2>4, <3>1, <3>2 DEF Pair
      <3>5. req'[o].token # None /\ req'[o].client # req'[p].client => req'[o].token # req'[p].token
        BY <1>3, <2>1, <2>4, <3>1 DEF Pair
      <3> QED BY <3>3, <3>4, <3>5 DEF Pair
    <2> QED BY <2>2, <2>3, <2>4
  <1>6. ASSUME NEW t \in Issued, Rough(t) PROVE Rough(t)'
    <2>1. ~issued'[t].smooth
      BY <1>6 DEF Rough
    <2>2. ASSUME NEW p \in Requests, req'[p].stage = "stored", req'[p].token = t PROVE ~req'[p].alone
      <3>1. p # q
        BY <1>1, <2>2
      <3> QED BY <1>1, <1>6, <2>2, <3>1 DEF Rough
    <2> QED BY <2>1, <2>2 DEF Rough
  <1>7. ASSUME NEW p \in Requests \ {q} PROVE Mine(p)' /\ Exchange(p)' /\ Sweep(p)'
    <2>1. req'[p] = req[p] /\ Mine(p) /\ Exchange(p) /\ Sweep(p) /\ Pair(p, q) /\ Pair(q, p)
      BY <1>1 DEF Guarded
    <2>2. CASE p \notin Busy
      <3>1. req[p].stage = "idle" /\ req[p].token = None /\ p \notin Busy'
        BY <1>2, <2>2 DEF Busy, Shaped
      <3> QED BY <2>1, <3>1 DEF Mine, Exchange, Exchanging, Sweep
    <2>3. CASE p \in Busy
      <3>1. ~req[p].alone /\ ~req[q].alone
        BY <2>1, <2>3 DEF Pair
      <3>2. \A t \in Issued : issued'[t].smooth => issued[t].smooth
        BY <3>1
      <3>3. Mine(p)'
        <4>1. ASSUME req[p].token # None, NEW d \in Clients, d # req[p].client
              PROVE  cookie'[d] # req[p].token
          BY <2>1, <4>1 DEF Mine, Pair
        <4>2. ASSUME req[p].client \notin excused'
              PROVE  /\ req[p].stage \notin {"alarm", "swept"}
                     /\ req[p].stage \in {"asked", "stored"} => req[p].token \in active'
          <5>1. req[p].client \notin excused /\ excused' # Clients /\ req[p].client # req[q].client
            BY <2>1, <2>3, <4>2 DEF Pair, Shaped, Busy
          <5>2. req[p].token # None => req[p].token # req[q].token
            BY <2>1, <5>1 DEF Pair
          <5>3. req[p].stage \in {"asked", "stored"} => req[p].token \in active
            BY <2>1, <2>3, <5>1 DEF Mine
          <5>4. req[p].stage \notin {"alarm", "swept"}
            BY <2>1, <2>3, <5>1 DEF Mine
          <5>5. None \notin active
            OBVIOUS
          <5> QED BY <5>1, <5>2, <5>3, <5>4, <5>5
        <4> QED BY <2>1, <3>1, <4>1, <4>2 DEF Mine
      <3>4. Exchange(p)'
        <4>1. req[p].stage \in {"revoked", "known"} => req[p].token \notin active'
          <5>1. req[p].token \in Issued \cup {None} /\ None \notin active'
            BY <1>0, <1>3
          <5> QED BY <2>1, <5>1 DEF Exchange
        <4>2. ASSUME req[p].stage \in Exchanging, req[p].token # None, NEW t \in Issued',
                     issued'[t].parent = req[p].token
              PROVE  Rough(t)'
          <5>1. CASE t \in Issued
            <6>1. Rough(t)
              BY <2>1, <4>2, <5>1 DEF Exchange
            <6> QED BY <1>6, <5>1, <6>1
          <5>2. CASE t \notin Issued
            <6>1. ~issued'[t].smooth
              BY <5>2
            <6>2. ASSUME NEW o \in Requests, req'[o].stage = "stored", req'[o].token = t
                  PROVE  ~req'[o].alone
              <7>1. t # None
                BY <1>0
              <7>2. o = q
                BY <1>1, <1>3, <5>2, <6>2, <7>1
              <7> QED BY <1>1, <3>1, <6>2, <7>2
            <6> QED BY <6>1, <6>2 DEF Rough
          <5> QED BY <5>1, <5>2
        <4> QED BY <2>1, <3>1, <4>1, <4>2 DEF Exchange
      <3>5. Sweep(p)'
        <4>1. active' \subseteq Issued'
          BY DEF Typed, TypeOK
        <4>2. \A t \in active' : issued'[t].smooth => t \in active /\ issued[t].smooth
          BY <3>2, <4>1
        <4> QED BY <2>1, <4>2 DEF Sweep
      <3> QED BY <3>3, <3>4, <3>5
    <2> QED BY <2>2, <2>3
  <1>8. ASSUME NEW t \in Issued PROVE Token(t)'
    <2>1. Token(t)
      BY DEF Guarded
    <2>2. issued'[t].parent # t /\ issued'[t].parent \notin active'
      <3>1. None \notin active' /\ issued'[t].parent = issued[t].parent
        BY <1>0
      <3> QED BY <1>4, <2>1, <3>1 DEF Token
    <2>3. issued'[t].smooth => Superseded(t)'
      <3>1. CASE issued[t].smooth /\ issued[t].parent # None
        <4>1. issued'[t].parent = issued[t].parent /\ issued[t].parent \in Issued
          BY <1>4, <3>1
        <4>2. \A c \in Clients : cookie[c] # issued[t].parent
          BY <2>1, <3>1 DEF Token, Superseded
        <4>3. \A p \in Requests : req[p].token # issued[t].parent
          BY <2>1, <3>1 DEF Token, Superseded
        <4>4. \A c \in Clients : cookie'[c] # issued[t].parent
          BY <3>1, <4>2, <4>3
        <4>5. \A p \in Requests : req'[p].token # issued[t].parent
          BY <1>1, <3>1, <4>1, <4>3
        <4> QED BY <4>1, <4>4, <4>5 DEF Superseded
      <3>2. CASE issued[t].parent = None
        BY <3>2 DEF Superseded
      <3> QED BY <3>1, <3>2
    <2> QED BY <2>2, <2>3 DEF Token
  <1>9. ASSUME NEW t \in Issued', NEW u \in Issued' PROVE Twins(t, u)'
    <2>1. CASE t \in Issued /\ u \in Issued
      <3>1. Twins(t, u)
        BY <2>1 DEF Guarded
      <3> QED BY <1>6, <2>1, <3>1 DEF Twins
    <2>2. CASE t \notin Issued
      BY <2>2
    <2>3. CASE u \notin Issued
      BY <2>3
    <2> QED BY <2>1, <2>2, <2>3
  <1>10. ASSUME NEW c \in Clients PROVE Rest(c)'
    <2>1. Mine(q) /\ req[q].client \in Clients /\ \A d \in Clients : Rest(d)
      BY DEF Guarded, Busy, Shaped
    <2>2. ASSUME NEW d \in Clients, d # c, cookie'[c] # None PROVE cookie'[d] # cookie'[c]
      BY <2>1, <2>2 DEF Mine, Rest
    <2>3. ASSUME c \notin excused', \A p \in Busy' : req'[p].client # c
          PROVE  cookie'[c] \in active' \cup {None}
      <3>1. CASE c = req[q].client
        <4>1. r.stage = "idle"
          BY <1>1, <2>3, <3>1 DEF Busy
        <4> QED BY <2>3, <3>1, <4>1
      <3>2. CASE c # req[q].client
        <4>1. \A p \in Busy : req[p].client # c
          BY <1>1, <2>3, <3>2 DEF Busy
        <4>2. cookie[c] \in active \cup {None}
          BY <2>1, <2>3, <4>1 DEF Rest
        <4>3. cookie[c] # None => cookie[c] # req[q].token
          BY <2>1, <3>2 DEF Mine
        <4> QED BY <2>3, <3>2, <4>2, <4>3
      <3> QED BY <3>1, <3>2
    <2> QED BY <2>2, <2>3 DEF Rest
  <1>11. \A t \in Issued' : Token(t)'
    BY <1>8
  <1>12. \A p \in Requests : Mine(p)' /\ Exchange(p)' /\ Sweep(p)'
    BY <1>7
  <1> QED BY <1>5, <1>9, <1>10, <1>11, <1>12 DEF Guarded

\* The same where no token is issued or answered.
LEMMA SameTokens ==
    ASSUME Typed, Typed', Guarded, NEW q \in Requests, q \in Busy,
           NEW r, req' = [req EXCEPT ![q] = r],
           r.stage # "idle" => r.client = req[q].client /\ (r.alone => req[q].alone),
           r.stage = "idle" => r.token = None,
           r.token \in {req[q].token, None},
           r.stage # "stored",
           r.stage = "idle" => \/ req[q].client \in excused'
                               \/ cookie'[req[q].client] = None,
           excused \subseteq excused',
           \A d \in Clients : cookie'[d] \in {cookie[d], None},
           active' \subseteq active,
           \A t \in active : t \notin active' => t = req[q].token \/ excused' = Clients,
           UNCHANGED issued,
           \A t \in Issued : Standing(t)',
           Mine(q)', Exchange(q)', Sweep(q)'
    PROVE  Guarded'
  <1>1. Issued' = Issued
    BY DEF Issued
  <1> QED BY <1>1, OneGuards

LEMMA GuardedInit == Init => Guarded
  <1> SUFFICES ASSUME Init PROVE Guarded
    OBVIOUS
  <1>1. Issued = {} /\ active = {} /\ \A c \in Clients : cookie[c] = None
    BY DEF Init, Issued
  <1>2. \A q \in Requests : req[q].stage = "idle" /\ req[q].token = None /\ q \notin Busy
    BY DEF Init, Idle, Busy
  <1>3. \A p, q \in Requests : Pair(p, q)
    BY <1>2 DEF Pair
  <1>4. \A q \in Requests : Mine(q) /\ Exchange(q) /\ Sweep(q)
    BY <1>2 DEF Mine, Exchange, Exchanging, Sweep
  <1>5. \A c \in Clients : Rest(c)
    BY <1>1 DEF Rest
  <1> QED BY <1>1, <1>3, <1>4, <1>5 DEF Guarded

\* A request begins: with the cookie of its client, or with none.
LEMMA BeginGuards ==
    ASSUME Typed, Typed', Guarded, NEW q \in Requests, NEW c \in Clients,
           NEW stage \in {"known", "asked", "leaving", "reset"},
           NEW token \in Issued \cup {None}, NEW secret \in Nat,
           NEW barred \in BOOLEAN, barred => suspended,
           Begin(q, c, stage, token, secret, barred),
           stage \in {"asked", "leaving"} => token = cookie[c] /\ token # None,
           stage \in {"known", "reset"} => token = None,
           stage = "known" => secret = password,
           UNCHANGED <<active, cookie, password, issued, ended>>
    PROVE  Guarded'
  <1> USE TypedFacts
  <1>1. stage \in Stages
    BY DEF Stages
  <1>2. q \notin Busy /\ Issued' = Issued
    BY DEF Begin, Issued
  <1>3. /\ req'[q].stage = stage /\ req'[q].client = c /\ req'[q].token = token
        /\ req'[q].secret = secret
        /\ req'[q].alone => Busy = {}
    BY <1>1, BeginKeeps
  <1>4. \A p \in Requests \ {q} : /\ req'[p].stage = req[p].stage
                                  /\ req'[p].client = req[p].client
                                  /\ req'[p].token = req[p].token
                                  /\ req'[p].secret = req[p].secret
                                  /\ req'[p].keys = req[p].keys
                                  /\ req'[p].alone => req[p].alone /\ p \notin Busy
    BY <1>1, BeginKeeps
  <1>5. \A p \in Requests \ {q} : p \in Busy' <=> p \in Busy
    BY <1>4 DEF Busy
  <1>6. excused' = excused \cup (IF \E p \in Busy : req[p].client = c THEN {c} ELSE {})
    BY DEF Begin
  <1>7. token # None => token = cookie[c]
    OBVIOUS
  <1>8. ASSUME NEW o \in Requests, NEW p \in Requests, o # p PROVE Pair(o, p)'
    <2>1. Pair(o, p)
      BY <1>8 DEF Guarded
    <2>2. CASE o # q /\ p # q
      <3>1. o \in Requests \ {q} /\ p \in Requests \ {q}
        BY <2>2
      <3>2. (req'[o].alone /\ o \in Busy') => p \notin Busy'
        BY <1>4, <1>5, <3>1
      <3>3. o \in Busy' /\ p \in Busy' /\ req'[o].client = req'[p].client => req'[o].client \in excused'
        BY <1>4, <1>5, <1>6, <2>1, <3>1 DEF Pair
      <3>4. req'[o].token # None /\ req'[o].client # req'[p].client => req'[o].token # req'[p].token
        BY <1>4, <2>1, <3>1 DEF Pair
      <3> QED BY <3>2, <3>3, <3>4 DEF Pair
    <2>3. CASE o = q
      <3>1. p \in Requests \ {q} /\ Mine(p)
        BY <1>8, <2>3 DEF Guarded
      <3>2. (req'[o].alone /\ o \in Busy') => p \notin Busy'
        <4>1. req'[q].alone => p \notin Busy
          BY <1>3
        <4> QED BY <1>5, <2>3, <3>1, <4>1
      <3>3. p \in Busy' /\ req'[o].client = req'[p].client => req'[o].client \in excused'
        BY <1>3, <1>4, <1>5, <1>6, <2>3, <3>1
      <3>4. req'[o].token # None /\ req'[o].client # req'[p].client => req'[o].token # req'[p].token
        <4>1. req'[o].token = token /\ req'[o].client = c /\ req'[p].token = req[p].token
              /\ req'[p].client = req[p].client
          BY <1>3, <1>4, <2>3, <3>1
        <4> QED BY <1>7, <3>1, <4>1 DEF Mine
      <3> QED BY <3>2, <3>3, <3>4 DEF Pair
    <2>4. CASE p = q
      <3>1. o \in Requests \ {q} /\ Mine(o)
        BY <1>8, <2>4 DEF Guarded
      <3>2. ~(req'[o].alone /\ o \in Busy')
        BY <1>4, <1>5, <3>1
      <3>3. o \in Busy' /\ req'[o].client = req'[p].client => req'[o].client \in excused'
        BY <1>3, <1>4, <1>5, <1>6, <2>4, <3>1
      <3>4. req'[o].token # None /\ req'[o].client # req'[p].client => req'[o].token # req'[p].token
        <4>1. req'[p].token = token /\ req'[p].client = c /\ req'[o].token = req[o].token
              /\ req'[o].client = req[o].client
          BY <1>3, <1>4, <2>4, <3>1
        <4> QED BY <1>7, <3>1, <4>1 DEF Mine
      <3> QED BY <3>2, <3>3, <3>4 DEF Pair
    <2> QED BY <2>2, <2>3, <2>4
  <1>9. ASSUME NEW t \in Issued, Rough(t) PROVE Rough(t)'
    <2>1. ASSUME NEW p \in Requests, req'[p].stage = "stored", req'[p].token = t PROVE ~req'[p].alone
      <3>1. p # q
        BY <1>3, <2>1
      <3>2. p \in Requests \ {q}
        BY <3>1
      <3> QED BY <1>4, <1>9, <2>1, <3>2 DEF Rough
    <2> QED BY <1>9, <2>1 DEF Rough
  <1>10. ASSUME NEW p \in Requests \ {q} PROVE Mine(p)' /\ Exchange(p)' /\ Sweep(p)'
    <2>1. Mine(p) /\ Exchange(p) /\ Sweep(p)
      BY DEF Guarded
    <2>2. Mine(p)'
      <3>1. req'[p].alone => req[p].stage = "idle"
        BY <1>4 DEF Busy
      <3>2. req[p].client \notin excused' => req[p].client \notin excused
        BY <1>6
      <3> QED BY <1>4, <1>5, <2>1, <3>1, <3>2 DEF Mine, Exchanging
    <2>3. Exchange(p)'
      <3>1. req'[p].alone => req[p].stage = "idle"
        BY <1>4 DEF Busy
      <3>2. req[p].stage \in {"revoked", "known"} => req[p].token \notin active
        BY <2>1 DEF Exchange
      <3>3. ASSUME req[p].stage \in Exchanging, req[p].token # None, NEW t \in Issued,
                   issued[t].parent = req[p].token
            PROVE  ~req[p].alone /\ Rough(t)'
        BY <1>9, <2>1, <3>3 DEF Exchange
      <3> QED BY <1>2, <1>4, <3>1, <3>2, <3>3 DEF Exchange, Exchanging
    <2>4. Sweep(p)'
      BY <1>4, <2>1 DEF Sweep
    <2> QED BY <2>2, <2>3, <2>4
  <1>11. Mine(q)' /\ Exchange(q)' /\ Sweep(q)'
    <2>1. Rest(c)
      BY DEF Guarded
    <2>2. Mine(q)'
      <3>1. c \notin excused' => c \notin excused /\ \A p \in Busy : req[p].client # c
        BY <1>6
      <3>2. c \notin excused' /\ stage = "asked" => token \in active
        BY <2>1, <3>1 DEF Rest
      <3>3. token # None => \A d \in Clients : d # c => cookie[d] # token
        BY <1>7, <2>1 DEF Rest
      <3> QED BY <1>3, <1>7, <3>2, <3>3 DEF Mine, Exchanging
    <2>3. Exchange(q)'
      <3>1. req'[q].stage \notin {"valid", "revoked", "stored"} /\ None \notin active
        BY <1>3
      <3>2. req'[q].stage = "known" => req'[q].token = None /\ req'[q].secret = password
        BY <1>3
      <3> QED BY <3>1, <3>2 DEF Exchange, Exchanging
    <2>4. Sweep(q)'
      BY <1>3 DEF Sweep
    <2> QED BY <2>2, <2>3, <2>4
  <1>12. ASSUME NEW t \in Issued PROVE Token(t)'
    <2>1. Token(t)
      BY DEF Guarded
    <2>2. ASSUME issued[t].smooth, issued[t].parent # None, NEW p \in Requests
          PROVE  req'[p].token # issued[t].parent
      <3>1. Superseded(t)
        BY <2>1, <2>2 DEF Token
      <3>2. CASE p = q
        BY <1>3, <1>7, <2>2, <3>1, <3>2 DEF Superseded
      <3>3. CASE p # q
        <4>1. req'[p].token = req[p].token
          BY <1>4, <3>3
        <4> QED BY <2>2, <3>1, <4>1 DEF Superseded
      <3> QED BY <3>2, <3>3
    <2> QED BY <2>1, <2>2 DEF Token, Standing, Superseded
  <1>13. ASSUME NEW t \in Issued, NEW u \in Issued PROVE Twins(t, u)'
    <2>1. Twins(t, u)
      BY DEF Guarded
    <2> QED BY <1>9, <2>1 DEF Twins
  <1>14. ASSUME NEW d \in Clients PROVE Rest(d)'
    <2>1. Rest(d)
      BY DEF Guarded
    <2>2. d \notin excused' /\ (\A p \in Busy' : req'[p].client # d)
            => d \notin excused /\ \A p \in Busy : req[p].client # d
      BY <1>2, <1>4, <1>5, <1>6 DEF Busy
    <2> QED BY <2>1, <2>2 DEF Rest
  <1>15. \A p \in Requests : Mine(p)' /\ Exchange(p)' /\ Sweep(p)'
    BY <1>10, <1>11
  <1> QED BY <1>2, <1>8, <1>12, <1>13, <1>14, <1>15 DEF Guarded

LEMMA GuardedStep == Typed /\ Typed' /\ Guarded /\ [Next]_vars => Guarded'
  <1> SUFFICES ASSUME Typed, Typed', Guarded, [Next]_vars PROVE Guarded'
    OBVIOUS
  <1> USE TypedFacts
  <1>0. /\ \A q \in Requests : Mine(q) /\ Exchange(q) /\ Sweep(q)
        /\ \A t \in Issued : Token(t)
        /\ \A p, q \in Requests : p # q => Pair(p, q)
        /\ None \notin active
    BY DEF Guarded
  <1>1. ASSUME NEW q \in Requests, NEW c \in Clients,
               Login(q, c) \/ GoogleSignIn(q, c) \/ Refresh(q, c) \/ Logout(q, c)
                 \/ Reset(q, c)
        PROVE  Guarded'
    <2>1. UNCHANGED <<active, cookie, password, issued, ended>>
      BY <1>1 DEF Login, GoogleSignIn, Refresh, Logout, Reset
    <2>2. CASE Login(q, c)
      BY <2>1, <2>2, BeginGuards DEF Login
    <2>6. CASE GoogleSignIn(q, c)
      BY <2>1, <2>6, BeginGuards DEF GoogleSignIn
    <2>3. CASE Refresh(q, c)
      BY <2>1, <2>3, BeginGuards DEF Refresh
    <2>4. CASE Logout(q, c)
      BY <2>1, <2>4, BeginGuards DEF Logout
    <2>5. CASE Reset(q, c)
      BY <2>1, <2>5, BeginGuards DEF Reset
    <2> QED BY <1>1, <2>2, <2>3, <2>4, <2>5, <2>6
  <1>2. ASSUME UNCHANGED <<issued, ended, password>>, active' \subseteq active,
               NEW t \in Issued
        PROVE  Standing(t)'
    BY <1>0, <1>2 DEF Token, Standing
  \* A request ends.
  <1>3. ASSUME NEW q \in Requests, q \in Busy, End(q), UNCHANGED issued,
               req[q].client \in excused' \/ cookie'[req[q].client] = None,
               excused \subseteq excused',
               \A d \in Clients : cookie'[d] \in {cookie[d], None},
               active' \subseteq active,
               \A t \in active : t \notin active' => t = req[q].token \/ excused' = Clients,
               \A t \in Issued : Standing(t)'
        PROVE  Guarded'
    <2>1. req' = [req EXCEPT ![q] = Idle] /\ Idle.stage = "idle" /\ Idle.token = None
      BY <1>3, IdleShaped DEF End
    <2>2. req'[q].stage = "idle" /\ req'[q].token = None /\ q \notin Busy'
      BY <2>1 DEF Busy
    <2>3. Mine(q)' /\ Exchange(q)' /\ Sweep(q)'
      BY <2>2 DEF Mine, Exchange, Exchanging, Sweep
    <2> QED BY <1>3, <2>1, <2>3, SameTokens
  \* A request goes on with the token it has.
  <1>4. ASSUME NEW q \in Requests, q \in Busy, NEW r, req' = [req EXCEPT ![q] = r],
               r.stage \notin {"idle", "stored"}, r.client = req[q].client,
               r.alone => req[q].alone, r.token = req[q].token,
               UNCHANGED <<issued, cookie>>, excused \subseteq excused', active' \subseteq active,
               \A t \in active : t \notin active' => t = req[q].token \/ excused' = Clients,
               \A t \in Issued : Standing(t)',
               r.stage \in {"alarm", "swept"} => r.client \in excused',
               r.stage = "asked" => FALSE,
               r.stage \in Exchanging => req[q].stage \in Exchanging \cup {"asked"},
               Exchange(q)', Sweep(q)'
        PROVE  Guarded'
    <2>1. req'[q] = r /\ Mine(q)
      BY <1>0, <1>4
    <2>2. Mine(q)'
      BY <1>4, <2>1 DEF Mine
    <2> QED BY <1>4, <2>2, SameTokens
  <1>5. ASSUME NEW q \in Requests, IsValid(q) PROVE Guarded'
    <2> DEFINE stage == IF req[q].token \in active THEN "valid" ELSE "alarm"
               r == [req[q] EXCEPT !.stage = stage]
    <2>1. /\ req[q].stage = "asked" /\ q \in Busy
          /\ UNCHANGED <<active, cookie, password, suspended, issued, ended, excused, mishaps>>
          /\ req' = [req EXCEPT ![q].stage = stage]
      BY <1>5 DEF IsValid, Goto, Busy
    <2>2. req' = [req EXCEPT ![q] = r] /\ req'[q] = r
      BY <2>1
    <2>3. /\ stage \in {"valid", "alarm"}
          /\ stage = "valid" <=> req[q].token \in active
      OBVIOUS
    <2> HIDE DEF stage
    <2>4. /\ r.stage = stage /\ r.client = req[q].client /\ r.token = req[q].token
          /\ r.alone <=> req[q].alone
      BY DEF Record
    <2> HIDE DEF r
    <2>5. r.stage = "alarm" => r.client \in excused'
      BY <1>0, <2>1, <2>3, <2>4 DEF Mine, Busy
    <2>6. Exchange(q)'
      <3>1. ASSUME req[q].token \in active
            PROVE  /\ \A t \in Issued : issued[t].parent # req[q].token
                   /\ req[q].token \notin ended
                   /\ issued[req[q].token].smooth => issued[req[q].token].secret = password
        BY <1>0, <3>1 DEF Token, Standing
      <3>2. Issued' = Issued
        BY <2>1 DEF Issued
      <3> QED BY <2>1, <2>2, <2>3, <2>4, <3>1, <3>2 DEF Exchange, Exchanging
    <2>7. Sweep(q)'
      BY <2>2, <2>3, <2>4 DEF Sweep
    <2>8. \A t \in Issued : Standing(t)'
      BY <1>2, <2>1
    <2> QED BY <1>4, <2>1, <2>2, <2>3, <2>4, <2>5, <2>6, <2>7, <2>8 DEF Exchanging
  <1>6. ASSUME NEW q \in Requests, RevokeOld(q) PROVE Guarded'
    <2> DEFINE r == [req[q] EXCEPT !.stage = "revoked"]
    <2>1. /\ req[q].stage = "valid" /\ q \in Busy /\ active' = active \ {req[q].token}
          /\ UNCHANGED <<cookie, password, suspended, issued, ended, excused, mishaps>>
          /\ req' = [req EXCEPT ![q].stage = "revoked"]
      BY <1>6 DEF RevokeOld, Goto, Busy
    <2>2. req' = [req EXCEPT ![q] = r] /\ req'[q] = r
      BY <2>1
    <2>3. /\ r.stage = "revoked" /\ r.client = req[q].client /\ r.token = req[q].token
          /\ r.alone <=> req[q].alone
      BY DEF Record
    <2> HIDE DEF r
    <2>4. Exchange(q)'
      <3>1. Issued' = Issued
        BY <2>1 DEF Issued
      <3>2. \A t \in Issued : Rough(t) => Rough(t)'
        BY <2>1, <2>2, <2>3 DEF Rough
      <3> QED BY <1>0, <2>1, <2>2, <2>3, <3>1, <3>2 DEF Exchange, Exchanging
    <2>5. Sweep(q)'
      BY <2>2, <2>3 DEF Sweep
    <2>6. \A t \in Issued : Standing(t)'
      BY <1>2, <2>1
    <2> QED BY <1>4, <2>1, <2>2, <2>3, <2>4, <2>5, <2>6 DEF Exchanging
  <1>7. ASSUME NEW q \in Requests, SelectUser(q) PROVE Guarded'
    <2>1. /\ req[q].stage = "revoked" /\ q \in Busy
          /\ UNCHANGED <<active, cookie, password, suspended, issued, ended, mishaps>>
      BY <1>7 DEF SelectUser, Busy
    <2>2. \A t \in Issued : Standing(t)'
      BY <1>2, <2>1
    <2>3. CASE End(q) /\ Excuse({req[q].client})
      BY <1>3, <2>1, <2>2, <2>3 DEF Excuse
    <2>4. CASE /\ UNCHANGED excused
               /\ req' = [req EXCEPT ![q].stage = "known", ![q].secret = issued[req[q].token].secret]
      <3> DEFINE secret == issued[req[q].token].secret
                 r == [req[q] EXCEPT !.stage = "known", !.secret = secret]
      <3>1. req' = [req EXCEPT ![q] = r] /\ req'[q] = r
        BY <2>4
      <3>2. secret = issued[req[q].token].secret
        OBVIOUS
      <3> HIDE DEF secret
      <3>3. /\ r.stage = "known" /\ r.client = req[q].client /\ r.token = req[q].token
            /\ r.secret = secret
            /\ r.alone <=> req[q].alone
        BY DEF Record
      <3> HIDE DEF r
      <3>4. Exchange(q)'
        <4>1. Issued' = Issued
          BY <2>1 DEF Issued
        <4>2. \A t \in Issued : Rough(t) => Rough(t)'
          BY <2>1, <2>4, <3>1, <3>3 DEF Rough
        <4>3. req[q].token # None
          BY <2>1 DEF Shaped
        <4> QED BY <1>0, <2>1, <3>1, <3>2, <3>3, <4>1, <4>2, <4>3 DEF Exchange, Exchanging
      <3>5. Sweep(q)'
        BY <3>1, <3>3 DEF Sweep
      <3> QED BY <1>4, <2>1, <2>2, <2>4, <3>1, <3>3, <3>4, <3>5 DEF Exchanging
    <2> QED BY <1>7, <2>3, <2>4 DEF SelectUser
  <1>8. ASSUME NEW q \in Requests, NEW t \in Tokens, Store(q, t) PROVE Guarded'
    <2> DEFINE r == [req[q] EXCEPT !.stage = "stored", !.token = t]
               token == req[q].token
    <2>1. /\ req[q].stage = "known" /\ q \in Busy /\ t \notin Issued
          /\ active' = active \cup {t}
          /\ req' = [req EXCEPT ![q].stage = "stored", ![q].token = t]
          /\ UNCHANGED <<cookie, password, suspended, ended, excused, mishaps>>
      BY <1>8 DEF Store, Busy
    <2>2. req' = [req EXCEPT ![q] = r] /\ req'[q] = r
      BY <2>1
    <2>3. /\ r.stage = "stored" /\ r.client = req[q].client /\ r.token = t
          /\ r.alone <=> req[q].alone
      BY DEF Record
    <2> HIDE DEF r
    <2>4. /\ Issued' = Issued \cup {t}
          /\ ~issued'[t].smooth /\ issued'[t].parent = token /\ issued'[t].secret = req[q].secret
          /\ \A u \in Issued : issued'[u] = issued[u]
      BY <1>8, <2>1 DEF Store, Issue, Issued
    <2>5. token \in Issued \cup {None} /\ t # None /\ token # t
      BY <2>1, SessionsAssumption DEF Record
    <2>6. \A u \in Issued : issued[u].parent \in Issued \cup {None}
      BY DEF Origins
    <2>7. \A p \in Requests \ {q} : req'[p] = req[p] /\ req[p].token # t
      <3>1. \A p \in Requests : req[p].token \in Issued \cup {None}
        BY DEF Record
      <3> QED BY <2>1, <2>5, <3>1
    <2>8. token # None => \A u \in Issued : issued[u].parent = token => ~req[q].alone /\ Rough(u)
      BY <1>0, <2>1 DEF Exchange, Exchanging
    <2>9. ASSUME NEW u \in Issued, Rough(u) PROVE Rough(u)'
      BY <2>1, <2>2, <2>3, <2>4, <2>7, <2>9 DEF Rough
    <2>10. ~req[q].alone => Rough(t)'
      BY <2>1, <2>2, <2>3, <2>4, <2>7 DEF Rough
    <2>11. Token(t)'
      <3>1. token \notin active'
        BY <1>0, <2>1, <2>5 DEF Exchange
      <3>2. t \notin ended'
        BY <2>1
      <3> QED BY <2>4, <2>5, <3>1, <3>2 DEF Token, Standing
    <2>12. ASSUME NEW u \in Issued' PROVE Twins(t, u)' /\ Twins(u, t)'
      <3>1. CASE u = t
        BY <3>1 DEF Twins
      <3>2. CASE u # t
        <4>1. u \in Issued /\ issued'[u].parent = issued[u].parent
          BY <2>4, <3>2
        <4>2. ASSUME issued[u].parent = token, token # None PROVE Rough(t)' /\ Rough(u)'
          BY <2>8, <2>9, <2>10, <4>1, <4>2
        <4> QED BY <2>4, <4>1, <4>2 DEF Twins
      <3> QED BY <3>1, <3>2
    <2>13. Mine(q)'
      <3>1. \A d \in Clients : cookie'[d] # t
        BY <2>1, <2>5
      <3>2. req[q].alone /\ token # None => cookie[req[q].client] = token
        BY <1>0, <2>1 DEF Mine, Exchanging
      <3> QED BY <2>1, <2>2, <2>3, <2>4, <3>1, <3>2 DEF Mine, Exchanging
    <2>14. Exchange(q)'
      <3>1. token \notin ended \/ ~req[q].alone
        BY <1>0, <2>1, <2>5 DEF Exchange, Exchanging
      <3>2. token # None => issued'[token] = issued[token]
        BY <2>4, <2>5
      <3>3. req[q].alone => ((token # None => issued[token].smooth) => req[q].secret = password)
        BY <1>0, <2>1 DEF Exchange
      <3> QED BY <2>1, <2>2, <2>3, <2>4, <3>1, <3>2, <3>3 DEF Exchange, Exchanging
    <2>15. Sweep(q)'
      BY <2>2, <2>3 DEF Sweep
    <2>16. ASSUME NEW u \in Issued PROVE Standing(u)'
      <3>1. u \in active' => u \in active
        BY <2>1
      <3> QED BY <1>0, <2>1, <2>4, <3>1 DEF Token, Standing
    <2>17. \A u \in Issued : /\ issued'[u].parent = issued[u].parent
                             /\ issued'[u].secret = issued[u].secret
                             /\ issued'[u].smooth => issued[u].smooth
                             /\ Standing(u)'
                             /\ u \in active' => u \in active
      BY <2>1, <2>4, <2>16
    <2>18. ASSUME NEW u \in Issued' \ Issued
           PROVE  /\ ~issued'[u].smooth /\ Token(u)'
                  /\ \A v \in Issued' : Twins(u, v)' /\ Twins(v, u)'
      <3>1. u = t
        BY <2>4
      <3> QED BY <2>4, <2>11, <2>12, <3>1
    <2>19. /\ Issued \subseteq Issued' /\ excused \subseteq excused'
           /\ \A d \in Clients : cookie'[d] \in {cookie[d], None}
           /\ \A u \in active : u \in active'
      BY <2>1, <2>4
    <2>20. /\ r.stage # "idle" /\ r.token \notin Issued
           /\ r.client = req[q].client
           /\ r.alone => req[q].alone
      BY <2>1, <2>3
    <2>21. q \in Busy /\ req' = [req EXCEPT ![q] = r]
      BY <2>1, <2>2
    <2> QED BY <2>13, <2>14, <2>15, <2>17, <2>18, <2>19, <2>20, <2>21, OneGuards
  <1>9. ASSUME NEW q \in Requests, AnswerCookie(q) PROVE Guarded'
    <2>1. PICK t \in Issued : t = req[q].token
      BY <1>9 DEF AnswerCookie, Shaped, Record
    <2>2. PICK parent \in Issued \cup {None} : parent = issued[t].parent
      BY DEF Origins
    <2> DEFINE smooth == req[q].alone /\ \A u \in Issued : u = parent => issued[u].smooth
    <2>3. /\ req[q].stage = "stored" /\ q \in Busy /\ req' = [req EXCEPT ![q] = Idle]
          /\ cookie' = [cookie EXCEPT ![req[q].client] = t]
          /\ issued' = [issued EXCEPT ![t].smooth = smooth]
          /\ UNCHANGED <<active, password, suspended, ended, excused, mishaps>>
      BY <1>9, <2>1, <2>2 DEF AnswerCookie, End, Busy
    <2>4. req[q].client \in Clients
      BY <2>3 DEF Shaped
    <2>5. /\ smooth \in BOOLEAN
          /\ smooth => req[q].alone
          /\ smooth /\ parent # None => issued[parent].smooth
      OBVIOUS
    <2> HIDE DEF smooth
    <2>6. /\ Issued' = Issued
          /\ \A u \in Issued : /\ issued'[u].parent = issued[u].parent
                               /\ issued'[u].secret = issued[u].secret
                               /\ issued'[u].smooth => issued[u].smooth \/ (u = t /\ smooth)
      BY <2>3, <2>5 DEF Issued, Origins
    <2>7. req'[q] = Idle /\ \A p \in Requests \ {q} : req'[p] = req[p]
      BY <2>3
    <2>8. req'[q].stage = "idle" /\ req'[q].token = None /\ q \notin Busy'
      BY <2>7, IdleShaped DEF Busy
    <2>9. Mine(q)' /\ Exchange(q)' /\ Sweep(q)'
      BY <2>8 DEF Mine, Exchange, Exchanging, Sweep
    <2>10. smooth => parent \notin ended /\ issued[t].secret = password
      BY <1>0, <2>1, <2>2, <2>3, <2>5 DEF Exchange
    <2>11. ASSUME NEW u \in Issued PROVE Standing(u)'
      BY <1>0, <2>2, <2>3, <2>6, <2>10, <2>11 DEF Token, Standing
    <2>12. ASSUME smooth PROVE Superseded(t)'
      <3>1. CASE parent = None
        BY <2>2, <2>6, <3>1 DEF Superseded
      <3>2. CASE parent # None
        <4>1. cookie[req[q].client] = parent
          BY <1>0, <2>1, <2>2, <2>3, <2>5, <2>12, <3>2 DEF Mine
        <4>2. t # parent
          BY <1>0, <2>2 DEF Token
        <4>3. \A c \in Clients : c # req[q].client => cookie[c] # parent
          BY <2>4, <3>2, <4>1 DEF Guarded, Rest
        <4>4. \A c \in Clients : cookie'[c] # parent
          BY <2>3, <4>2, <4>3
        <4>5. ASSUME NEW p \in Requests \ {q} PROVE req'[p].token = None
          <5>1. p \notin Busy
            BY <1>0, <2>3, <2>5, <2>12 DEF Pair
          <5> QED BY <2>7, <4>5, <5>1 DEF Busy, Shaped
        <4>6. \A p \in Requests : req'[p].token # parent
          BY <2>8, <3>2, <4>5
        <4> QED BY <2>2, <2>6, <4>4, <4>6 DEF Superseded
      <3> QED BY <3>1, <3>2
    <2>13. req[q].client \in excused' \/ cookie'[req[q].client] \in active'
      BY <1>0, <2>1, <2>3, <2>4 DEF Mine
    <2>14. ASSUME NEW u \in Issued
           PROVE  /\ issued'[u].parent = issued[u].parent /\ issued'[u].secret = issued[u].secret
                  /\ issued'[u].smooth =>
                        issued[u].smooth
                        \/ /\ req[q].stage = "stored" /\ req[q].token = u /\ req[q].alone
                           /\ Superseded(u)'
                  /\ Standing(u)'
      <3>1. u = t /\ smooth => Superseded(u)'
        BY <2>12
      <3> QED BY <2>1, <2>3, <2>5, <2>6, <2>11, <3>1
    <2>15. \A d \in Clients : \/ cookie'[d] \in {cookie[d], None}
                              \/ d = req[q].client /\ cookie'[d] = req[q].token
      BY <2>1, <2>3
    <2> QED BY <2>3, <2>6, <2>9, <2>13, <2>14, <2>15, IdleShaped, OneGuards
  <1>10. ASSUME NEW q \in Requests, FindKeys(q) PROVE Guarded'
    <2> DEFINE r == [req[q] EXCEPT !.stage = "sweep", !.keys = active]
    <2>1. /\ req[q].stage \in {"alarm", "reset"} /\ q \in Busy
          /\ req' = [req EXCEPT ![q].stage = "sweep", ![q].keys = active]
          /\ UNCHANGED <<active, cookie, password, suspended, issued, ended, excused, mishaps>>
      BY <1>10 DEF FindKeys, Busy
    <2>2. req' = [req EXCEPT ![q] = r] /\ req'[q] = r
      BY <2>1
    <2>3. /\ r.stage = "sweep" /\ r.client = req[q].client /\ r.token = req[q].token
          /\ r.keys = active
          /\ r.alone <=> req[q].alone
      BY DEF Record
    <2> HIDE DEF r
    <2>4. Exchange(q)'
      BY <2>2, <2>3 DEF Exchange, Exchanging
    <2>5. Sweep(q)'
      BY <2>1, <2>2, <2>3 DEF Sweep
    <2>6. \A t \in Issued : Standing(t)'
      BY <1>2, <2>1
    <2> QED BY <1>4, <2>1, <2>2, <2>3, <2>4, <2>5, <2>6 DEF Exchanging
  <1>11. ASSUME NEW q \in Requests, DeleteKeys(q) PROVE Guarded'
    <2>1. /\ req[q].stage = "sweep" /\ q \in Busy /\ active' = active \ req[q].keys
          /\ excused' = Clients /\ excused \subseteq excused'
          /\ UNCHANGED <<cookie, password, suspended, issued, ended, mishaps>>
          /\ End(q) \/ Goto(q, "swept")
      BY <1>11 DEF DeleteKeys, Swept, Excuse, Busy
    <2>2. \A t \in Issued : Standing(t)'
      BY <1>2, <2>1
    <2>3. req[q].client \in Clients
      BY <2>1 DEF Shaped
    <2>4. CASE End(q)
      BY <1>3, <2>1, <2>2, <2>3, <2>4
    <2>5. CASE Goto(q, "swept")
      <3> DEFINE r == [req[q] EXCEPT !.stage = "swept"]
      <3>1. req' = [req EXCEPT ![q] = r] /\ req'[q] = r
        BY <2>5 DEF Goto
      <3>2. /\ r.stage = "swept" /\ r.client = req[q].client /\ r.token = req[q].token
            /\ r.alone <=> req[q].alone
        BY DEF Record
      <3> HIDE DEF r
      <3>3. Exchange(q)'
        BY <3>1, <3>2 DEF Exchange, Exchanging
      <3>4. Sweep(q)'
        BY <1>0, <2>1, <3>1, <3>2 DEF Sweep
      <3> QED BY <1>4, <2>1, <2>2, <2>3, <3>1, <3>2, <3>3, <3>4 DEF Exchanging
    <2> QED BY <2>1, <2>4, <2>5
  <1>12. ASSUME NEW q \in Requests, CommitReset(q) PROVE Guarded'
    <2>1. /\ req[q].stage = "swept" /\ q \in Busy /\ End(q)
          /\ UNCHANGED <<active, cookie, suspended, issued, ended, excused, mishaps>>
      BY <1>12 DEF CommitReset, Busy
    <2>2. ASSUME NEW t \in Issued PROVE Standing(t)'
      <3>1. t \in active => ~issued[t].smooth
        BY <1>0, <2>1 DEF Sweep
      <3> QED BY <1>0, <2>1, <3>1 DEF Token, Standing
    <2>3. req[q].client \in excused
      BY <1>0, <2>1 DEF Mine
    <2> QED BY <1>3, <2>1, <2>2, <2>3
  <1>13. ASSUME NEW q \in Requests, RevokeLeft(q) \/ RevokeLeftFails(q) PROVE Guarded'
    <2> DEFINE r == [req[q] EXCEPT !.stage = "left"]
    <2>1. /\ req[q].stage = "leaving" /\ q \in Busy
          /\ req' = [req EXCEPT ![q].stage = "left"]
          /\ UNCHANGED <<cookie, password, suspended, issued, excused>>
          /\ \/ active' = active \ {req[q].token} /\ ended' = ended \cup {req[q].token}
             \/ UNCHANGED <<active, ended>>
      BY <1>13 DEF RevokeLeft, RevokeLeftFails, Goto, Busy
    <2>2. req' = [req EXCEPT ![q] = r] /\ req'[q] = r
      BY <2>1
    <2>3. /\ r.stage = "left" /\ r.client = req[q].client /\ r.token = req[q].token
          /\ r.alone <=> req[q].alone
      BY DEF Record
    <2> HIDE DEF r
    <2>4. Exchange(q)' /\ Sweep(q)'
      BY <2>2, <2>3 DEF Exchange, Exchanging, Sweep
    <2>5. ASSUME NEW t \in Issued PROVE Standing(t)'
      <3>1. Token(t) /\ req[q].token # None
        BY <1>0, <2>1 DEF Shaped
      <3>2. issued[t].smooth => issued[t].parent # req[q].token
        BY <3>1 DEF Token, Superseded
      <3> QED BY <2>1, <3>1, <3>2 DEF Token, Standing
    <2>6. active' \subseteq active /\ \A t \in active : t \notin active' => t = req[q].token
      BY <2>1
    <2> QED BY <1>4, <2>1, <2>2, <2>3, <2>4, <2>5, <2>6 DEF Exchanging
  <1>14. ASSUME NEW q \in Requests, AnswerLogout(q) PROVE Guarded'
    <2>1. /\ req[q].stage = "left" /\ q \in Busy /\ End(q)
          /\ cookie' = [cookie EXCEPT ![req[q].client] = None]
          /\ UNCHANGED <<active, password, suspended, issued, ended, excused, mishaps>>
      BY <1>14 DEF AnswerLogout, Busy
    <2>2. req[q].client \in Clients
      BY <2>1 DEF Shaped
    <2>3. cookie'[req[q].client] = None /\ \A d \in Clients : cookie'[d] \in {cookie[d], None}
      BY <2>1, <2>2
    <2>4. \A t \in Issued : Standing(t)'
      BY <1>2, <2>1
    <2> QED BY <1>3, <2>1, <2>3, <2>4
  <1>15. ASSUME NEW q \in Requests, Abort(q) PROVE Guarded'
    <2>1. /\ q \in Busy /\ End(q) /\ excused' = excused \cup {req[q].client}
          /\ UNCHANGED <<active, cookie, password, suspended, issued, ended>>
      BY <1>15 DEF Abort, Excuse
    <2>2. \A t \in Issued : Standing(t)'
      BY <1>2, <2>1
    <2> QED BY <1>3, <2>1, <2>2
  \* Nothing but the marks barred of requests, the status of the user or Redis changes.
  <1>16. ASSUME UNCHANGED <<cookie, password, issued, ended>>,
                \/ active' = active /\ excused' = excused
                \/ active' = {} /\ excused' = Clients,
                \A q \in Requests : /\ req'[q].stage = req[q].stage
                                    /\ req'[q].client = req[q].client
                                    /\ req'[q].token = req[q].token
                                    /\ req'[q].secret = req[q].secret
                                    /\ req'[q].keys = req[q].keys
                                    /\ req'[q].alone <=> req[q].alone
         PROVE  Guarded'
    <2>1. Busy' = Busy /\ Issued' = Issued
      BY <1>16 DEF Busy, Issued
    <2>2. active' \subseteq active /\ excused \subseteq excused'
      BY <1>16
    <2>3. \A p, q \in Requests : p # q => Pair(p, q)'
      BY <1>0, <1>16, <2>1, <2>2 DEF Pair
    <2>4. \A t \in Issued : Rough(t) => Rough(t)'
      BY <1>16 DEF Rough
    <2>5. ASSUME NEW q \in Requests PROVE Mine(q)' /\ Exchange(q)' /\ Sweep(q)'
      <3>1. Mine(q)'
        <4>1. q \in Busy => req[q].client \in Clients
          BY DEF Busy, Shaped
        <4> QED BY <1>0, <1>16, <2>1, <4>1 DEF Mine, Exchanging
      <3>2. Exchange(q)'
        BY <1>0, <1>16, <2>1, <2>2, <2>4 DEF Exchange, Exchanging
      <3>3. Sweep(q)'
        BY <1>0, <1>16, <2>2 DEF Sweep
      <3> QED BY <3>1, <3>2, <3>3
    <2>6. \A t \in Issued : Token(t)'
      BY <1>0, <1>16, <2>2 DEF Token, Standing, Superseded
    <2>7. \A t, u \in Issued : Twins(t, u)'
      BY <1>16, <2>4 DEF Guarded, Twins
    <2>8. ASSUME NEW c \in Clients PROVE Rest(c)'
      <3>1. Rest(c) /\ \A q \in Busy : req'[q].client = req[q].client
        BY <1>16 DEF Guarded, Busy
      <3> QED BY <1>16, <2>1, <3>1 DEF Rest
    <2> QED BY <2>1, <2>3, <2>5, <2>6, <2>7, <2>8 DEF Guarded
  <1>17. CASE Suspend
    BY <1>16, <1>17 DEF Suspend
  <1>18. CASE Reactivate
    <2>1. \A q \in Requests : req'[q] = [req[q] EXCEPT !.barred = FALSE]
      BY <1>18 DEF Reactivate
    <2>2. ASSUME NEW q \in Requests
          PROVE  /\ req'[q].stage = req[q].stage
                 /\ req'[q].client = req[q].client
                 /\ req'[q].token = req[q].token
                 /\ req'[q].secret = req[q].secret
                 /\ req'[q].keys = req[q].keys
                 /\ req'[q].alone <=> req[q].alone
      <3>1. req[q] \in Record(Issued) /\ req'[q] = [req[q] EXCEPT !.barred = FALSE]
        BY <2>1
      <3> QED BY <3>1 DEF Record
    <2> QED BY <1>16, <1>18, <2>2 DEF Reactivate
  <1>19. CASE RedisRestart
    BY <1>16, <1>19 DEF RedisRestart, Excuse
  <1>20. CASE UNCHANGED vars
    BY <1>16, <1>20 DEF vars
  <1> QED
    BY <1>1, <1>5, <1>6, <1>7, <1>8, <1>9, <1>10, <1>11, <1>12, <1>13, <1>14, <1>15, <1>17,
       <1>18, <1>19, <1>20 DEF Next

LEMMA GuardedAlways == Spec => [](Typed /\ Guarded)
  <1>1. Typed /\ Guarded /\ [Next]_vars => (Typed /\ Guarded)'
    BY TypedStep, GuardedStep
  <1> QED BY <1>1, TypedInit, GuardedInit, PTL DEF Spec

(***************************************************************************)
(* A client that waits for its answers and gets them is not logged out by  *)
(* the requests of others: its cookie is active whenever it rests.         *)
(***************************************************************************)
THEOREM RestingSafe == Spec => []RestingCookieIsActive
  <1>1. Typed /\ Guarded => RestingCookieIsActive
    BY DEF Guarded, Rest, RestingCookieIsActive
  <1> QED BY <1>1, GuardedAlways, PTL

(***************************************************************************)
(* No active session of an old password outlives a committed reset, but    *)
(* those of requests that overlapped another.                              *)
(***************************************************************************)
THEOREM ResetEnds == Spec => []ResetEndsOldSessions
  <1>1. Typed /\ Guarded => ResetEndsOldSessions
    BY TypedFacts DEF Guarded, Token, Standing, ResetEndsOldSessions
  <1> QED BY <1>1, GuardedAlways, PTL

(***************************************************************************)
(* Two tokens for the same one: their requests overlapped.                 *)
(***************************************************************************)
THEOREM ExchangedOnce == Spec => []TokenExchangedOnce
  <1>1. Typed /\ Guarded => TokenExchangedOnce
    BY DEF Guarded, Twins, Rough, TokenExchangedOnce
  <1> QED BY <1>1, GuardedAlways, PTL

(***************************************************************************)
(* What logout revoked stays revoked, and so does what was exchanged for   *)
(* it without an overlap.                                                  *)
(***************************************************************************)
THEOREM LogoutEnds == Spec => []LogoutEndsSession
  <1>1. Typed /\ Guarded => LogoutEndsSession
    BY TypedFacts DEF Guarded, Token, Standing, LogoutEndsSession
  <1> QED BY <1>1, GuardedAlways, PTL
=============================================================================
