------------------------- MODULE OtpService_proofs -------------------------
(***************************************************************************)
(* Types, the send limit, the lockout and single use of one-time codes,    *)
(* for any number of requests and any limits.                              *)
(***************************************************************************)
EXTENDS OtpService, FiniteSetTheorems, WellFoundedInduction, TLAPS

\* A set of numbers up to m has a last one.
LEMMA LastOne ==
    ASSUME NEW m \in Nat, NEW S \in SUBSET (1..m), S # {}
    PROVE  \E c \in S : \A d \in S : d <= c
  <1> DEFINE R == OpToRel(<, Nat)
             T == {m - c : c \in S}
  <1>1. T \subseteq Nat
    OBVIOUS
  <1>2. T # {}
    <2>1. PICK c \in S : TRUE
      OBVIOUS
    <2>2. m - c \in T
      BY <2>1
    <2> QED BY <2>2
  <1>3. IsWellFoundedOn(R, Nat)
    BY NatLessThanWellFounded
  <1>4. PICK x \in T : \A y \in T : ~(<<y, x>> \in R)
    <2> HIDE DEF R, T
    <2> QED BY <1>1, <1>2, <1>3, WFMin
  <1>5. \A y \in T : ~(y < x)
    BY <1>1, <1>4 DEF OpToRel
  <1>6. PICK c \in S : x = m - c
    OBVIOUS
  <1>7. ASSUME NEW d \in S PROVE d <= c
    <2>1. m - d \in T
      OBVIOUS
    <2> QED BY <2>1, <1>5, <1>6
  <1> QED BY <1>7

LEMMA LatestStored == TypeOK /\ Stored # {} => Latest \in Stored
  <1> SUFFICES ASSUME TypeOK, Stored # {} PROVE Latest \in Stored
    OBVIOUS
  <1>1. Stored \in SUBSET (1..made) /\ made \in Nat
    BY OtpAssumption DEF TypeOK
  <1>2. \E c \in Stored : \A d \in Stored : d <= c
    BY <1>1, LastOne
  <1> QED BY <1>2 DEF Latest

\* Requests when m codes were made.
Record(m) == [stage : Stages, code : 0..m, attempts : 0..MaxAttempts,
              resets : BOOLEAN, locks : BOOLEAN, alone : BOOLEAN]

LEMMA IdleRecord == \A m \in Nat : Idle \in Record(m)
  BY OtpAssumption DEF Idle, Record, Stages

Rows == [attempts : 0..MaxAttempts, verified : BOOLEAN]

\* Who has read a row has one more attempt at it, and locks it only afterwards.
Counted(r) ==
    /\ r.stage \in {"found", "matched"} => r.attempts < MaxAttempts
    /\ r.stage \in {"mail", "found", "matched", "consume"} => r.code # 0
    /\ r.locks => r.stage \in {"matched", "consume"}

Typed == TypeOK /\ \A q \in Requests : Counted(req[q])

LEMMA TypedFacts ==
    ASSUME Typed
    PROVE  /\ made \in 0..MaxCodes /\ made \in Nat /\ MaxCodes \in Nat /\ MaxAttempts \in Nat \ {0}
           /\ req \in [Requests -> Record(made)]
           /\ Stored \subseteq 1..made /\ rows \in [Stored -> Rows]
           /\ \A q \in Requests : /\ req[q] \in Record(made) /\ Counted(req[q])
                                  /\ req[q].locks => req[q].code \in Stored
  BY OtpAssumption DEF Typed, TypeOK, Record, Rows

\* A step of one request that gets the record r.
LEMMA OneMoves ==
    ASSUME Typed, NEW q \in Requests, NEW r, req' = [req EXCEPT ![q] = r],
           made' \in made..MaxCodes, r \in Record(made'), Counted(r),
           Stored' \subseteq 1..made', rows' \in [Stored' -> Rows],
           r.locks => r.code \in Stored',
           \A p \in Requests \ {q} : req[p].locks => req[p].code \in Stored',
           wrong' \in Nat, checked' \in [Codes -> Nat], UNCHANGED age,
           accepted' \subseteq Codes, spent' \subseteq Codes, lost' \subseteq Codes
    PROVE  Typed'
  <1>1. req' \in [Requests -> Record(made')]
    <2>1. Record(made) \subseteq Record(made')
      BY TypedFacts DEF Record
    <2> QED BY <2>1, TypedFacts
  <1>2. req'[q] = r /\ \A p \in Requests \ {q} : req'[p] = req[p]
    BY TypedFacts
  <1>3. \A p \in Requests : Counted(req'[p]) /\ (req'[p].locks => req'[p].code \in Stored')
    BY <1>2, TypedFacts
  <1>4. made' \in 0..MaxCodes
    BY TypedFacts
  <1>5. (\A p \in Requests : Counted(req[p]))'
    BY <1>3 DEF Counted
  <1>6. TypeOK'
    BY <1>1, <1>3, <1>4 DEF Typed, TypeOK, Record, Rows
  <1> QED BY <1>5, <1>6 DEF Typed

LEMMA IdleCounted == Counted(Idle) /\ ~Idle.locks
  BY DEF Counted, Idle

LEMMA BeginKeeps ==
    ASSUME Typed, NEW q \in Requests, NEW stage \in Stages, NEW resets \in BOOLEAN,
           Begin(q, stage, resets)
    PROVE  /\ req' \in [Requests -> Record(made)]
           /\ req'[q].stage = stage /\ req'[q].code = 0 /\ ~req'[q].locks
           /\ req'[q].alone => Busy = {}
           /\ \A p \in Requests \ {q} : /\ req'[p].stage = req[p].stage
                                        /\ req'[p].code = req[p].code
                                        /\ req'[p].attempts = req[p].attempts
                                        /\ req'[p].locks <=> req[p].locks
                                        /\ req'[p].alone => req[p].alone /\ p \notin Busy
  <1>1. req \in [Requests -> Record(made)] /\ made \in Nat
    BY TypedFacts
  <1>2. req' = [p \in Requests |->
                 IF p = q THEN [Idle EXCEPT !.stage = stage, !.resets = resets, !.alone = (Busy = {})]
                          ELSE [req[p] EXCEPT !.alone = @ /\ p \notin Busy]]
    BY DEF Begin
  <1>3. /\ req'[q] \in Record(made)
        /\ req'[q].stage = stage /\ req'[q].code = 0 /\ req'[q].locks = FALSE
        /\ req'[q].alone = (Busy = {})
    <2>1. req'[q] = [Idle EXCEPT !.stage = stage, !.resets = resets, !.alone = (Busy = {})]
      BY <1>2
    <2>2. Idle \in Record(made)
      BY <1>1, IdleRecord
    <2> QED BY <2>1, <2>2 DEF Record, Idle
  <1>4. ASSUME NEW p \in Requests \ {q}
        PROVE  /\ req'[p] \in Record(made)
               /\ req'[p].stage = req[p].stage /\ req'[p].code = req[p].code
               /\ req'[p].attempts = req[p].attempts
               /\ req'[p].locks = req[p].locks
               /\ req'[p].alone = (req[p].alone /\ p \notin Busy)
    <2>1. req[p] \in Record(made) /\ req'[p] = [req[p] EXCEPT !.alone = @ /\ p \notin Busy]
      BY <1>1, <1>2
    <2> QED BY <2>1 DEF Record
  <1> QED BY <1>2, <1>3, <1>4

LEMMA TypedInit == Init => Typed
  <1> SUFFICES ASSUME Init PROVE Typed
    OBVIOUS
  <1>1. DOMAIN rows = {} /\ made = 0 /\ made \in 0..MaxCodes
    BY OtpAssumption DEF Init
  <1>2. req \in [Requests -> Record(made)] /\ \A q \in Requests : req[q] = Idle
    BY <1>1, IdleRecord DEF Init
  <1> QED BY <1>1, <1>2, IdleCounted DEF Init, Typed, TypeOK, Record, Stored, Codes

LEMMA TypedStep == Typed /\ [Next]_vars => Typed'
  <1> SUFFICES ASSUME Typed, [Next]_vars PROVE Typed'
    OBVIOUS
  <1>0. /\ wrong \in Nat /\ checked \in [Codes -> Nat]
        /\ accepted \subseteq Codes /\ spent \subseteq Codes /\ lost \subseteq Codes
        /\ made \in made..MaxCodes
    BY TypedFacts DEF Typed, TypeOK
  <1>1. ASSUME NEW q \in Requests, NEW stage \in {"send", "verify"}, NEW resets \in BOOLEAN,
               Begin(q, stage, resets)
        PROVE  Typed'
    <2>1. stage \in Stages
      BY DEF Stages
    <2>2. UNCHANGED <<rows, made, age, wrong, checked, accepted, spent, lost>>
      BY <1>1 DEF Begin
    <2>3. \A p \in Requests : Counted(req'[p]) /\ (req'[p].locks => req'[p].code \in Stored)
      <3>1. Counted(req'[q]) /\ ~req'[q].locks
        <4>1. req'[q].stage \in {"send", "verify"} /\ ~req'[q].locks
          BY <1>1, <2>1, BeginKeeps
        <4> QED BY <4>1 DEF Counted
      <3>2. ASSUME NEW p \in Requests \ {q}
            PROVE  Counted(req'[p]) /\ (req'[p].locks => req'[p].code \in Stored)
        <4>1. /\ req'[p].stage = req[p].stage /\ req'[p].code = req[p].code
              /\ req'[p].attempts = req[p].attempts /\ (req'[p].locks <=> req[p].locks)
          BY <1>1, <2>1, BeginKeeps
        <4>2. Counted(req[p]) /\ (req[p].locks => req[p].code \in Stored)
          BY TypedFacts
        <4> QED BY <4>1, <4>2 DEF Counted
      <3> QED BY <3>1, <3>2
    <2>4. TypeOK'
      <3>1. req' \in [Requests -> Record(made)]
        BY <1>1, <2>1, BeginKeeps
      <3> QED BY <2>2, <2>3, <3>1 DEF Typed, TypeOK, Record, Stored
    <2> QED BY <2>3, <2>4 DEF Typed, Counted
  <1>2. ASSUME NEW q \in Requests, End(q), lost' \subseteq Codes,
               UNCHANGED <<rows, made, age, accepted, spent, checked, wrong>>
        PROVE  Typed'
    BY <1>0, <1>2, TypedFacts, OneMoves, IdleRecord, IdleCounted DEF End, Stored
  <1>3. ASSUME NEW q \in Requests, Count(q) PROVE Typed'
    <2>1. CASE End(q) /\ UNCHANGED made
      <3>1. UNCHANGED <<rows, made, age, accepted, spent, lost, checked, wrong>>
        BY <1>3, <2>1 DEF Count
      <3> QED BY <1>0, <2>1, <3>1, <1>2
    <2>2. CASE /\ made' = made + 1
               /\ req' = [req EXCEPT ![q].stage = "mail", ![q].code = made + 1]
      <3> DEFINE r == [req[q] EXCEPT !.stage = "mail", !.code = made + 1]
      <3>1. UNCHANGED <<rows, age, wrong, checked, accepted, spent, lost>> /\ made' \in made..MaxCodes
        BY <1>3, <2>2, TypedFacts DEF Count
      <3>2. req[q] \in Record(made) /\ ~req[q].locks
        BY <1>3, TypedFacts DEF Count, Counted
      <3>3. r \in Record(made') /\ Counted(r) /\ ~r.locks
        BY <2>2, <3>2, TypedFacts DEF Record, Counted, Stages
      <3>4. req' = [req EXCEPT ![q] = r]
        BY <2>2, TypedFacts
      <3>5. Stored' \subseteq 1..made' /\ rows' \in [Stored' -> Rows] /\ Stored' = Stored
        BY <2>2, <3>1, TypedFacts DEF Stored
      <3> HIDE DEF r
      <3> QED BY <1>0, <3>1, <3>3, <3>4, <3>5, TypedFacts, OneMoves
    <2> QED BY <1>3, <2>1, <2>2 DEF Count
  <1>4. ASSUME NEW q \in Requests, CommitSend(q) PROVE Typed'
    <2>1. /\ rows' = [c \in Stored \cup {req[q].code} |->
                        IF c = req[q].code THEN [attempts |-> 0, verified |-> FALSE] ELSE rows[c]]
          /\ End(q) /\ UNCHANGED <<made, age, wrong, checked, accepted, spent, lost>>
      BY <1>4 DEF CommitSend
    <2>2. req[q].code \in 1..made
      <3>1. req[q] \in Record(made) /\ req[q].code # 0
        BY <1>4, TypedFacts DEF CommitSend, Counted
      <3> QED BY <3>1, TypedFacts DEF Record
    <2>3. Stored' = Stored \cup {req[q].code} /\ Stored' \subseteq 1..made
      BY <2>1, <2>2, TypedFacts DEF Stored
    <2>4. rows' \in [Stored' -> Rows]
      BY <2>1, <2>3, TypedFacts DEF Rows
    <2> QED BY <1>0, <2>1, <2>3, <2>4, TypedFacts, OneMoves, IdleRecord, IdleCounted DEF End
  <1>5. ASSUME NEW q \in Requests, Read(q) PROVE Typed'
    <2>1. UNCHANGED <<rows, made, age, wrong, checked, accepted, spent, lost>> /\ Stored' = Stored
      BY <1>5 DEF Read, Stored
    <2>2. CASE End(q)
      BY <1>0, <2>1, <2>2, <1>2
    <2>3. CASE Stored # {} /\ req' = [req EXCEPT ![q].stage = "consume", ![q].code = Latest]
      <3> DEFINE r == [req[q] EXCEPT !.stage = "consume", !.code = Latest]
      <3>1. Latest \in Stored /\ Latest \in 1..made
        BY <2>3, LatestStored, TypedFacts DEF Typed
      <3>2. req[q] \in Record(made) /\ ~req[q].locks
        BY <1>5, TypedFacts DEF Read, Counted
      <3>3. r \in Record(made) /\ Counted(r) /\ r.code \in Stored
        <4> DEFINE last == Latest
        <4>1. last \in 0..made /\ last # 0 /\ last \in Stored
          BY <3>1, TypedFacts
        <4> HIDE DEF last
        <4>2. [req[q] EXCEPT !.stage = "consume", !.code = last] \in Record(made)
          BY <3>2, <4>1 DEF Record, Stages
        <4>3. Counted([req[q] EXCEPT !.stage = "consume", !.code = last])
          BY <3>2, <4>1 DEF Record, Counted
        <4>4. [req[q] EXCEPT !.stage = "consume", !.code = last].code \in Stored
          BY <3>2, <4>1 DEF Record
        <4> QED BY <4>2, <4>3, <4>4 DEF last
      <3>4. req' = [req EXCEPT ![q] = r]
        BY <2>3, TypedFacts
      <3> HIDE DEF r
      <3> QED BY <1>0, <2>1, <3>3, <3>4, TypedFacts, OneMoves
    <2>4. CASE /\ Stored # {} /\ rows[Latest].attempts < MaxAttempts
               /\ req' = [req EXCEPT ![q].stage = "found", ![q].code = Latest,
                                     ![q].attempts = rows[Latest].attempts]
      <3> DEFINE r == [req[q] EXCEPT !.stage = "found", !.code = Latest,
                                     !.attempts = rows[Latest].attempts]
      <3>1. Latest \in Stored /\ Latest \in 1..made
        BY <2>4, LatestStored, TypedFacts DEF Typed
      <3>2. rows[Latest].attempts \in 0..MaxAttempts
        BY <3>1, TypedFacts DEF Rows
      <3>3. req[q] \in Record(made) /\ ~req[q].locks
        BY <1>5, TypedFacts DEF Read, Counted
      <3>4. r \in Record(made) /\ Counted(r) /\ r.code \in Stored
        <4> DEFINE last == Latest
                   tries == rows[Latest].attempts
        <4>1. last \in 0..made /\ last # 0 /\ last \in Stored /\ tries \in 0..MaxAttempts
              /\ tries < MaxAttempts
          BY <2>4, <3>1, <3>2, TypedFacts
        <4> HIDE DEF last, tries
        <4>2. [req[q] EXCEPT !.stage = "found", !.code = last, !.attempts = tries] \in Record(made)
          BY <3>3, <4>1 DEF Record, Stages
        <4>3. Counted([req[q] EXCEPT !.stage = "found", !.code = last, !.attempts = tries])
          BY <3>3, <4>1 DEF Record, Counted
        <4>4. [req[q] EXCEPT !.stage = "found", !.code = last, !.attempts = tries].code \in Stored
          BY <3>3, <4>1 DEF Record
        <4> QED BY <4>2, <4>3, <4>4 DEF last, tries
      <3>5. req' = [req EXCEPT ![q] = r]
        BY <2>4, TypedFacts
      <3> HIDE DEF r
      <3> QED BY <1>0, <2>1, <3>4, <3>5, TypedFacts, OneMoves
    <2> QED BY <1>5, <2>2, <2>3, <2>4 DEF Read
  <1>6. ASSUME NEW q \in Requests, Gone(q) \/ Abort(q) PROVE Typed'
    <2>1. CASE Gone(q)
      BY <1>0, <1>2, <2>1 DEF Gone
    <2>2. CASE Abort(q)
      <3>1. req[q] \in Record(made) /\ (req[q].stage = "mail" => req[q].code # 0)
        BY TypedFacts DEF Counted
      <3>2. req[q].stage = "mail" => req[q].code \in Codes
        BY <3>1, TypedFacts DEF Record, Codes
      <3>3. lost' \subseteq Codes
        BY <1>0, <2>2, <3>2 DEF Abort
      <3> QED BY <1>2, <2>2, <3>3 DEF Abort
    <2> QED BY <1>6, <2>1, <2>2
  <1>7. ASSUME NEW q \in Requests, Wrong(q) PROVE Typed'
    <2> DEFINE c == req[q].code
    <2>1. /\ c \in Stored /\ req[q].stage = "found"
          /\ rows' = [rows EXCEPT ![c].attempts = req[q].attempts + 1]
          /\ wrong' = wrong + 1
          /\ checked' = [checked EXCEPT ![c] = IF req[q].alone THEN @ + 1 ELSE @]
          /\ End(q) /\ UNCHANGED <<made, age, accepted, spent, lost>>
      BY <1>7 DEF Wrong, May
    <2>2. req[q].attempts + 1 \in 0..MaxAttempts
      <3>1. req[q] \in Record(made) /\ req[q].attempts < MaxAttempts
        BY <2>1, TypedFacts DEF Counted
      <3> QED BY <3>1, TypedFacts DEF Record
    <2>3. Stored' = Stored /\ rows' \in [Stored -> Rows]
      BY <2>1, <2>2, TypedFacts DEF Stored, Rows
    <2>4. checked' \in [Codes -> Nat]
      <3>1. \A d \in Codes : checked'[d] \in Nat
        BY <1>0, <2>1
      <3> QED BY <1>0, <2>1, <3>1
    <2>5. wrong' \in Nat
      BY <1>0, <2>1
    <2> QED BY <1>0, <2>1, <2>3, <2>4, <2>5, TypedFacts, OneMoves, IdleRecord, IdleCounted DEF End
  <1>8. ASSUME NEW q \in Requests, Right(q) PROVE Typed'
    <2> DEFINE stage == IF req[q].resets THEN "consume" ELSE "matched"
               r == [req[q] EXCEPT !.stage = stage, !.locks = TRUE]
    <2>1. /\ req[q].stage = "found" /\ req[q].code \in Stored
          /\ req' = [req EXCEPT ![q].stage = stage, ![q].locks = TRUE]
          /\ UNCHANGED <<rows, made, age, wrong, checked, accepted, spent, lost>> /\ Stored' = Stored
      BY <1>8 DEF Right, May, Stored
    <2>2. req[q] \in Record(made) /\ req[q].attempts < MaxAttempts /\ req[q].code # 0
      BY <2>1, TypedFacts DEF Counted
    <2>3. stage \in {"consume", "matched"}
      OBVIOUS
    <2>4. req' = [req EXCEPT ![q] = r]
      BY <2>1, TypedFacts
    <2> HIDE DEF stage
    <2>5. r \in Record(made) /\ Counted(r) /\ r.code \in Stored
      BY <2>1, <2>2, <2>3 DEF Record, Counted, Stages
    <2> HIDE DEF r
    <2> QED BY <1>0, <2>1, <2>4, <2>5, TypedFacts, OneMoves
  <1>9. ASSUME NEW q \in Requests, CommitMatch(q) PROVE Typed'
    <2> DEFINE c == req[q].code
    <2>1. /\ req[q].stage = "matched"
          /\ rows' = [rows EXCEPT ![c] = [attempts |-> req[q].attempts + 1, verified |-> TRUE]]
          /\ accepted' = accepted \cup {c}
          /\ End(q) /\ UNCHANGED <<made, age, wrong, checked, spent, lost>>
      BY <1>9 DEF CommitMatch
    <2>2. req[q].attempts + 1 \in 0..MaxAttempts /\ c \in Codes
      <3>1. req[q] \in Record(made) /\ req[q].attempts < MaxAttempts /\ c # 0
        BY <2>1, TypedFacts DEF Counted
      <3> QED BY <3>1, TypedFacts DEF Record, Codes
    <2>3. Stored' = Stored /\ rows' \in [Stored -> Rows]
      BY <2>1, <2>2, TypedFacts DEF Stored, Rows
    <2> QED BY <1>0, <2>1, <2>2, <2>3, TypedFacts, OneMoves, IdleRecord, IdleCounted DEF End
  <1>10. ASSUME NEW q \in Requests, CommitReset(q) PROVE Typed'
    <2> DEFINE c == req[q].code
    <2>1. /\ ~Locked(q, c) /\ req[q].stage = "consume"
          /\ rows' = [d \in Stored \ {c} |-> rows[d]]
          /\ spent' = spent \cup {c}
          /\ End(q) /\ UNCHANGED <<made, age, wrong, checked, accepted, lost>>
      BY <1>10 DEF CommitReset
    <2>2. c \in Codes
      <3>1. req[q] \in Record(made) /\ c # 0
        BY <2>1, TypedFacts DEF Counted
      <3> QED BY <3>1, TypedFacts DEF Record, Codes
    <2>3. Stored' = Stored \ {c} /\ rows' \in [Stored' -> Rows]
      BY <2>1, TypedFacts DEF Stored
    <2>4. \A p \in Requests \ {q} : req[p].locks => req[p].code \in Stored'
      BY <2>1, <2>3, TypedFacts DEF Locked
    <2> QED BY <1>0, <2>1, <2>2, <2>3, <2>4, TypedFacts, OneMoves, IdleRecord, IdleCounted DEF End
  <1>11. ASSUME NEW c \in Codes, Expire(c) \/ LeaveWindow(c) PROVE Typed'
    <2>1. /\ age' \in [Codes -> {"good", "expired", "old"}]
          /\ UNCHANGED <<rows, made, req, wrong, checked, accepted, spent, lost>>
      BY <1>11 DEF Expire, LeaveWindow, Typed, TypeOK
    <2> QED BY <2>1 DEF Typed, TypeOK, Counted, Stored
  <1>12. CASE UNCHANGED vars
    BY <1>12 DEF vars, Typed, TypeOK, Counted, Stored
  <1> QED
    BY <1>1, <1>3, <1>4, <1>5, <1>6, <1>7, <1>8, <1>9, <1>10, <1>11, <1>12
    DEF Next, Send, Verify

(***************************************************************************)
(* Every variable keeps its type, and a locked row is there.               *)
(***************************************************************************)
THEOREM TypeCorrect == Spec => []TypeOK
  <1>1. Spec => []Typed
    BY TypedInit, TypedStep, PTL DEF Spec
  <1>2. Typed => TypeOK
    BY DEF Typed
  <1> QED BY <1>1, <1>2, PTL

-----------------------------------------------------------------------------
\* Requests that hold a code nobody else sees.
Mail == {q \in Requests : req[q].stage = "mail"}

\* What is committed and what is about to be: the count sees only the first.
SendsCounted == Cardinality(InWindow) + Cardinality(Mail) + 1 <= MaxSends + Cardinality(Requests)

LEMMA AtMostOneMore ==
    ASSUME NEW S, IsFiniteSet(S), NEW x
    PROVE  /\ IsFiniteSet(S \cup {x}) /\ Cardinality(S \cup {x}) \in Nat
           /\ Cardinality(S \cup {x}) <= Cardinality(S) + 1
  <1>1. Cardinality(S) \in Nat
    BY FS_CardinalityType
  <1>2. CASE x \in S
    <2>1. S \cup {x} = S
      BY <1>2
    <2>2. IsFiniteSet(S \cup {x}) /\ Cardinality(S \cup {x}) = Cardinality(S)
      BY <2>1, Zenon
    <2> QED BY <1>1, <2>2
  <1>3. CASE x \notin S
    <2>1. IsFiniteSet(S \cup {x}) /\ Cardinality(S \cup {x}) = Cardinality(S) + 1
      BY <1>3, FS_AddElement
    <2> QED BY <1>1, <2>1
  <1> QED BY <1>2, <1>3

LEMMA Sizes ==
    ASSUME Typed
    PROVE  /\ IsFiniteSet(InWindow) /\ IsFiniteSet(Mail)
           /\ Cardinality(InWindow) \in Nat /\ Cardinality(Mail) \in Nat
           /\ Cardinality(Requests) \in Nat /\ MaxSends \in Nat \ {0}
  <1>1. IsFiniteSet(1..made)
    <2>1. 1 \in Int /\ made \in Int
      BY TypedFacts
    <2> QED BY <2>1, FS_Interval
  <1>2. IsFiniteSet(InWindow)
    <2>1. InWindow \subseteq 1..made
      BY TypedFacts DEF InWindow
    <2> QED BY <1>1, <2>1, FS_Subset
  <1>3. IsFiniteSet(Mail)
    BY OtpAssumption, FS_Subset DEF Mail
  <1> QED BY <1>2, <1>3, OtpAssumption, FS_CardinalityType

\* Nothing is sent: the window and the mails can only shrink.
LEMMA NothingSent ==
    ASSUME Typed, SendsCounted, InWindow' \subseteq InWindow, Mail' \subseteq Mail
    PROVE  SendsCounted'
  <1>1. /\ Cardinality(InWindow') <= Cardinality(InWindow) /\ Cardinality(InWindow') \in Nat
        /\ Cardinality(Mail') <= Cardinality(Mail) /\ Cardinality(Mail') \in Nat
    BY Sizes, FS_Subset, FS_CardinalityType
  <1> QED BY <1>1, Sizes DEF SendsCounted

LEMMA SendsInit == Init => SendsCounted
  <1> SUFFICES ASSUME Init PROVE SendsCounted
    OBVIOUS
  <1>1. InWindow = {} /\ Mail = {}
    BY DEF Init, InWindow, Stored, Mail, Idle
  <1>2. Cardinality(InWindow) = 0 /\ Cardinality(Mail) = 0
    BY <1>1, FS_EmptySet
  <1> QED BY <1>2, TypedInit, Sizes DEF SendsCounted

LEMMA SendsStep == Typed /\ SendsCounted /\ [Next]_vars => SendsCounted'
  <1> SUFFICES ASSUME Typed, SendsCounted, [Next]_vars PROVE SendsCounted'
    OBVIOUS
  <1>0. req \in [Requests -> Record(made)]
    BY TypedFacts
  <1>1. ASSUME NEW q \in Requests, NEW stage \in {"send", "verify"}, NEW resets \in BOOLEAN,
               Begin(q, stage, resets)
        PROVE  SendsCounted'
    <2>1. stage \in Stages
      BY DEF Stages
    <2>2. UNCHANGED <<rows, age>>
      BY <1>1 DEF Begin
    <2>3. Mail' \subseteq Mail
      <3>1. req'[q].stage # "mail" /\ \A p \in Requests \ {q} : req'[p].stage = req[p].stage
        BY <1>1, <2>1, BeginKeeps
      <3> QED BY <3>1 DEF Mail
    <2>4. InWindow' = InWindow
      BY <2>2 DEF InWindow, Stored
    <2> QED BY <2>3, <2>4, NothingSent
  <1>2. ASSUME NEW q \in Requests, NEW r, req' = [req EXCEPT ![q] = r], r.stage # "mail",
               Stored' \subseteq Stored, UNCHANGED age
        PROVE  SendsCounted'
    <2>1. Mail' \subseteq Mail
      BY <1>0, <1>2 DEF Mail
    <2>2. InWindow' \subseteq InWindow
      BY <1>2 DEF InWindow
    <2> QED BY <2>1, <2>2, NothingSent
  <1>3. Idle.stage # "mail"
    BY DEF Idle
  <1>4. ASSUME NEW q \in Requests, Count(q) PROVE SendsCounted'
    <2>1. UNCHANGED <<rows, age>> /\ Stored' = Stored
      BY <1>4 DEF Count, Stored
    <2>2. CASE End(q)
      BY <1>2, <1>3, <2>1, <2>2 DEF End
    <2>3. CASE /\ ~(Cardinality(InWindow) >= MaxSends)
               /\ req' = [req EXCEPT ![q].stage = "mail", ![q].code = made + 1]
      <3>1. q \notin Mail
        BY <1>4 DEF Count, Mail
      <3>2. Mail' = Mail \cup {q}
        BY <1>0, <2>3 DEF Mail, Record
      <3>3. Cardinality(Mail') = Cardinality(Mail) + 1
        BY <3>1, <3>2, Sizes, FS_AddElement
      <3>4. Cardinality(Mail') <= Cardinality(Requests)
        <4>1. Mail' \subseteq Requests
          BY DEF Mail
        <4> QED BY <4>1, OtpAssumption, FS_Subset
      <3>5. InWindow' = InWindow
        BY <2>1 DEF InWindow, Stored
      <3> QED BY <2>3, <3>3, <3>4, <3>5, Sizes DEF SendsCounted
    <2> QED BY <1>4, <2>2, <2>3 DEF Count
  <1>5. ASSUME NEW q \in Requests, CommitSend(q) PROVE SendsCounted'
    <2>1. /\ req' = [req EXCEPT ![q] = Idle] /\ UNCHANGED age /\ q \in Mail
          /\ Stored' = Stored \cup {req[q].code}
      BY <1>5 DEF CommitSend, End, Stored, Mail
    <2>2. Mail' = Mail \ {q}
      BY <1>0, <1>3, <2>1 DEF Mail
    <2>3. Cardinality(Mail') = Cardinality(Mail) - 1
      BY <2>1, <2>2, Sizes, FS_RemoveElement
    <2>4. InWindow' \subseteq InWindow \cup {req[q].code}
      BY <2>1 DEF InWindow
    <2>5. Cardinality(InWindow') <= Cardinality(InWindow) + 1 /\ Cardinality(InWindow') \in Nat
      <3>1. IsFiniteSet(InWindow \cup {req[q].code})
        BY Sizes, FS_AddElement
      <3>2. Cardinality(InWindow \cup {req[q].code}) <= Cardinality(InWindow) + 1
            /\ Cardinality(InWindow \cup {req[q].code}) \in Nat
        BY Sizes, AtMostOneMore
      <3>3. Cardinality(InWindow') <= Cardinality(InWindow \cup {req[q].code})
            /\ Cardinality(InWindow') \in Nat
        BY <2>4, <3>1, FS_Subset, FS_CardinalityType
      <3> QED BY <3>2, <3>3, Sizes
    <2> QED BY <2>3, <2>5, Sizes DEF SendsCounted
  <1>6. ASSUME NEW q \in Requests, Read(q) PROVE SendsCounted'
    <2>1. UNCHANGED <<rows, age>> /\ Stored' = Stored
      BY <1>6 DEF Read, Stored
    <2>2. PICK r : req' = [req EXCEPT ![q] = r] /\ r.stage # "mail"
      <3>1. CASE End(q)
        BY <1>3, <3>1 DEF End
      <3>2. CASE req' = [req EXCEPT ![q].stage = "consume", ![q].code = Latest]
        <4> DEFINE r == [req[q] EXCEPT !.stage = "consume", !.code = Latest]
        <4>1. req' = [req EXCEPT ![q] = r]
          BY <1>0, <3>2
        <4>2. r.stage = "consume"
          BY <1>0 DEF Record
        <4> HIDE DEF r
        <4> QED BY <4>1, <4>2
      <3>3. CASE req' = [req EXCEPT ![q].stage = "found", ![q].code = Latest,
                                    ![q].attempts = rows[Latest].attempts]
        <4> DEFINE r == [req[q] EXCEPT !.stage = "found", !.code = Latest,
                                       !.attempts = rows[Latest].attempts]
        <4>1. req' = [req EXCEPT ![q] = r]
          BY <1>0, <3>3
        <4>2. r.stage = "found"
          BY <1>0 DEF Record
        <4> HIDE DEF r
        <4> QED BY <4>1, <4>2
      <3> QED BY <1>6, <3>1, <3>2, <3>3 DEF Read
    <2> QED BY <1>2, <2>1, <2>2
  <1>7. ASSUME NEW q \in Requests, Gone(q) \/ Abort(q) PROVE SendsCounted'
    BY <1>2, <1>3, <1>7 DEF Gone, Abort, End, Stored
  <1>8. ASSUME NEW q \in Requests, Right(q) PROVE SendsCounted'
    <2> DEFINE stage == IF req[q].resets THEN "consume" ELSE "matched"
               r == [req[q] EXCEPT !.stage = stage, !.locks = TRUE]
    <2>1. req' = [req EXCEPT ![q] = r] /\ UNCHANGED <<rows, age>>
      BY <1>0, <1>8 DEF Right
    <2>2. r.stage # "mail"
      BY <1>0 DEF Record
    <2> HIDE DEF r
    <2> QED BY <1>2, <2>1, <2>2 DEF Stored
  <1>9. ASSUME NEW q \in Requests, Wrong(q) \/ CommitMatch(q) \/ CommitReset(q)
        PROVE  SendsCounted'
    <2>1. req' = [req EXCEPT ![q] = Idle] /\ UNCHANGED age
      BY <1>9 DEF Wrong, CommitMatch, CommitReset, End
    <2>2. Stored' \subseteq Stored
      BY <1>9 DEF Wrong, CommitMatch, CommitReset, Stored
    <2> QED BY <1>2, <1>3, <2>1, <2>2
  <1>10. ASSUME NEW c \in Codes, Expire(c) \/ LeaveWindow(c) PROVE SendsCounted'
    <2>1. InWindow' \subseteq InWindow
      <3>1. /\ \A d \in Stored : age'[d] # "old" => age[d] # "old"
            /\ UNCHANGED rows
        BY <1>10, TypedFacts DEF Expire, LeaveWindow, Typed, TypeOK, Codes
      <3> QED BY <3>1 DEF InWindow, Stored
    <2>2. Mail' = Mail
      BY <1>10 DEF Expire, LeaveWindow, Mail
    <2> QED BY <2>1, <2>2, NothingSent
  <1>11. CASE UNCHANGED vars
    BY <1>11, NothingSent DEF vars, InWindow, Stored, Mail
  <1> QED
    BY <1>1, <1>4, <1>5, <1>6, <1>7, <1>8, <1>9, <1>10, <1>11 DEF Next, Send, Verify

\* A mail leaves a row: stored, to be stored, consumed or rolled back.
InTransit == {req[q].code : q \in Mail}
Accounted == 1..made \subseteq Stored \cup InTransit \cup spent \cup lost

LEMMA AccountedStep == Typed /\ Accounted /\ [Next]_vars => Accounted'
  <1> SUFFICES ASSUME Typed, Accounted, [Next]_vars PROVE Accounted'
    OBVIOUS
  <1>0. req \in [Requests -> Record(made)] /\ made \in Nat
    BY TypedFacts
  \* What every step but one keeps.
  <1>a. ASSUME made' = made, Stored \subseteq Stored' \cup spent', spent \subseteq spent',
               lost \subseteq lost',
               \A q \in Mail : \/ q \in Mail' /\ req'[q].code = req[q].code
                              \/ req[q].code \in Stored' \cup lost'
        PROVE  Accounted'
    BY <1>a DEF Accounted, InTransit
  <1>1. ASSUME NEW q \in Requests, NEW stage \in {"send", "verify"}, NEW resets \in BOOLEAN,
               Begin(q, stage, resets)
        PROVE  Accounted'
    <2>1. stage \in Stages
      BY DEF Stages
    <2>2. UNCHANGED <<rows, made, spent, lost>> /\ q \notin Mail
      BY <1>1 DEF Begin, Busy, Mail
    <2>3. \A p \in Requests \ {q} : req'[p].stage = req[p].stage /\ req'[p].code = req[p].code
      BY <1>1, <2>1, BeginKeeps
    <2>4. \A p \in Mail : p \in Mail' /\ req'[p].code = req[p].code
      BY <2>2, <2>3 DEF Mail
    <2> QED BY <1>a, <2>2, <2>4 DEF Stored
  \* A request that has sent no mail moves.
  <1>2. ASSUME NEW q \in Requests \ Mail, NEW r, req' = [req EXCEPT ![q] = r], made' = made,
               Stored \subseteq Stored' \cup spent', spent \subseteq spent', UNCHANGED lost
        PROVE  Accounted'
    <2>1. \A p \in Mail : p \in Mail' /\ req'[p].code = req[p].code
      BY <1>0, <1>2 DEF Mail
    <2> QED BY <1>a, <1>2, <2>1
  <1>3. ASSUME NEW q \in Requests, Count(q) PROVE Accounted'
    <2>1. UNCHANGED <<rows, spent, lost>> /\ Stored' = Stored /\ q \notin Mail
      BY <1>3 DEF Count, Stored, Mail
    <2>2. CASE End(q) /\ UNCHANGED made
      BY <1>2, <2>1, <2>2 DEF End
    <2>3. CASE /\ made' = made + 1
               /\ req' = [req EXCEPT ![q].stage = "mail", ![q].code = made + 1]
      <3>1. /\ q \in Mail' /\ req'[q].code = made + 1
            /\ \A p \in Mail : p \in Mail' /\ req'[p].code = req[p].code
        BY <1>0, <2>1, <2>3 DEF Mail, Record
      <3>2. InTransit \cup {made + 1} \subseteq InTransit'
        BY <3>1 DEF InTransit
      <3>3. 1..made' \subseteq (1..made) \cup {made + 1}
        BY <1>0, <2>3
      <3> QED BY <2>1, <3>2, <3>3 DEF Accounted
    <2> QED BY <1>3, <2>2, <2>3 DEF Count
  <1>4. ASSUME NEW q \in Requests, CommitSend(q) PROVE Accounted'
    <2>1. /\ req' = [req EXCEPT ![q] = Idle] /\ UNCHANGED <<made, spent, lost>>
          /\ Stored' = Stored \cup {req[q].code}
      BY <1>4 DEF CommitSend, End, Stored
    <2>2. \A p \in Mail : \/ p \in Mail' /\ req'[p].code = req[p].code
                         \/ req[p].code \in Stored'
      BY <1>0, <2>1 DEF Mail
    <2> QED BY <1>a, <2>1, <2>2
  <1>5. ASSUME NEW q \in Requests, Abort(q) PROVE Accounted'
    <2>1. /\ req' = [req EXCEPT ![q] = Idle] /\ UNCHANGED <<rows, made, spent>>
          /\ lost' = IF q \in Mail THEN lost \cup {req[q].code} ELSE lost
      BY <1>5 DEF Abort, End, Mail
    <2>2. \A p \in Mail : \/ p \in Mail' /\ req'[p].code = req[p].code
                         \/ req[p].code \in lost'
      BY <1>0, <2>1 DEF Mail
    <2> QED BY <1>a, <2>1, <2>2 DEF Stored
  <1>6. ASSUME NEW q \in Requests, Read(q) PROVE Accounted'
    <2>1. UNCHANGED <<rows, made, spent, lost>> /\ Stored' = Stored /\ q \notin Mail
      BY <1>6 DEF Read, Stored, Mail
    <2>2. \A p \in Requests \ {q} : req'[p] = req[p]
      BY <1>0, <1>6 DEF Read, End
    <2>3. \A p \in Mail : p \in Mail' /\ req'[p].code = req[p].code
      BY <2>1, <2>2 DEF Mail
    <2> QED BY <1>a, <2>1, <2>3
  <1>7. ASSUME NEW q \in Requests, Right(q) PROVE Accounted'
    <2>1. UNCHANGED <<rows, made, spent, lost>> /\ Stored' = Stored /\ q \notin Mail
      BY <1>7 DEF Right, May, Stored, Mail
    <2>2. \A p \in Requests \ {q} : req'[p] = req[p]
      BY <1>0, <1>7 DEF Right
    <2>3. \A p \in Mail : p \in Mail' /\ req'[p].code = req[p].code
      BY <2>1, <2>2 DEF Mail
    <2> QED BY <1>a, <2>1, <2>3
  <1>8. ASSUME NEW q \in Requests, Gone(q) \/ Wrong(q) \/ CommitMatch(q) \/ CommitReset(q)
        PROVE  Accounted'
    <2>1. req' = [req EXCEPT ![q] = Idle] /\ UNCHANGED <<made, lost>> /\ q \notin Mail
      BY <1>8 DEF Gone, Wrong, May, CommitMatch, CommitReset, End, Mail
    <2>2. Stored \subseteq Stored' \cup spent' /\ spent \subseteq spent'
      BY <1>8 DEF Gone, Wrong, CommitMatch, CommitReset, Stored
    <2> QED BY <1>2, <2>1, <2>2
  <1>9. CASE UNCHANGED <<rows, made, req, spent, lost>>
    BY <1>a, <1>9 DEF Mail, Stored
  <1>10. ASSUME NEW c \in Codes, Expire(c) \/ LeaveWindow(c)
         PROVE  UNCHANGED <<rows, made, req, spent, lost>>
    BY <1>10 DEF Expire, LeaveWindow
  <1>11. UNCHANGED vars => UNCHANGED <<rows, made, req, spent, lost>>
    BY DEF vars
  <1> QED
    BY <1>1, <1>3, <1>4, <1>5, <1>6, <1>7, <1>8, <1>9, <1>10, <1>11 DEF Next, Send, Verify

\* The mails that count are stored rows of the window or in transit.
LEMMA MailsCounted ==
    ASSUME Typed, Accounted
    PROVE  LET Open == Mailed \ (spent \cup lost)
           IN  /\ Cardinality(Open) \in Nat
               /\ Cardinality(Open) <= Cardinality(InWindow) + Cardinality(Mail)
  <1> DEFINE Open == Mailed \ (spent \cup lost)
  <1>1. IsFiniteSet(InTransit) /\ Cardinality(InTransit) <= Cardinality(Mail)
        /\ Cardinality(InTransit) \in Nat
    <2> DEFINE f == [q \in Mail |-> req[q].code]
    <2>1. f \in Surjection(Mail, InTransit)
      BY DEF Surjection, InTransit
    <2> HIDE DEF f
    <2> QED BY <2>1, Sizes, FS_Surjection, FS_CardinalityType
  <1>2. IsFiniteSet(InWindow \cup InTransit) /\ Cardinality(InWindow \cup InTransit) \in Nat
        /\ Cardinality(InWindow \cup InTransit) <= Cardinality(InWindow) + Cardinality(InTransit)
    <2>1. IsFiniteSet(InWindow \cap InTransit) /\ Cardinality(InWindow \cap InTransit) \in Nat
      BY <1>1, FS_Subset, FS_CardinalityType
    <2>2. /\ IsFiniteSet(InWindow \cup InTransit)
          /\ Cardinality(InWindow \cup InTransit)
               = Cardinality(InWindow) + Cardinality(InTransit) - Cardinality(InWindow \cap InTransit)
      <3>1. IsFiniteSet(InWindow) /\ IsFiniteSet(InTransit)
        BY <1>1, Sizes
      <3> QED BY <3>1, FS_Union, Zenon
    <2>3. Cardinality(InWindow \cup InTransit) \in Nat
      BY <2>2, FS_CardinalityType
    <2> QED BY <1>1, <2>1, <2>2, <2>3, Sizes
  <1>3. Open \subseteq InWindow \cup InTransit
    BY DEF Accounted, Mailed, InWindow
  <1>4. Cardinality(Open) \in Nat /\ Cardinality(Open) <= Cardinality(InWindow \cup InTransit)
    BY <1>2, <1>3, FS_Subset, FS_CardinalityType
  <1> HIDE DEF Open
  <1>5. Cardinality(Open) <= Cardinality(InWindow) + Cardinality(Mail)
    BY <1>1, <1>2, <1>4, Sizes
  <1> QED BY <1>4, <1>5 DEF Open

(***************************************************************************)
(* The mails of the window exceed the limit by no more than those whose    *)
(* row is gone and the requests in flight besides the last.                *)
(***************************************************************************)
THEOREM SendLimit == Spec => []SendsWithinLimit
  <1>1. Init => Accounted
    BY DEF Init, Accounted
  <1>2. Spec => [](Typed /\ SendsCounted /\ Accounted)
    BY <1>1, TypedInit, TypedStep, SendsInit, SendsStep, AccountedStep, PTL DEF Spec
  <1>3. Typed /\ SendsCounted /\ Accounted => SendsWithinLimit
    BY Sizes, MailsCounted DEF SendsCounted, SendsWithinLimit
  <1> QED BY <1>2, <1>3, PTL

-----------------------------------------------------------------------------
\* A request that met no other has the table for itself.
Apart(p, q) ==
    /\ req[p].alone /\ p \in Busy => q \notin Busy
    /\ req[p].stage = "mail" /\ req[q].stage \in {"mail", "found", "matched", "consume"}
         => req[p].code # req[q].code

\* A code that nobody can have used.
Unseen(c) == c \notin Stored /\ c \notin accepted /\ c \notin spent /\ checked[c] = 0

Held(q) ==
    /\ req[q].stage = "mail" => Unseen(req[q].code)
    /\ req[q].stage \in {"found", "matched"} =>
          /\ checked[req[q].code] <= req[q].attempts
          /\ req[q].alone => /\ req[q].code \in Stored /\ ~rows[req[q].code].verified
                             /\ req[q].code \notin accepted
    /\ req[q].stage = "consume" /\ req[q].alone => req[q].code \in Stored

Tried(c) ==
    /\ checked[c] <= MaxAttempts
    /\ c \in Stored => /\ checked[c] <= rows[c].attempts
                       /\ c \in accepted => rows[c].verified
                       /\ c \notin spent
    /\ c > made => Unseen(c)

Guarded ==
    /\ \A p, q \in Requests : p # q => Apart(p, q)
    /\ \A q \in Requests : Held(q)
    /\ \A c \in Codes : Tried(c)

LEMMA GuardedInit == Init => Guarded
  <1> SUFFICES ASSUME Init PROVE Guarded
    OBVIOUS
  <1>1. \A q \in Requests : req[q].stage = "idle" /\ q \notin Busy
    BY DEF Init, Idle, Busy
  <1>2. Stored = {} /\ made = 0 /\ accepted = {} /\ spent = {} /\ \A c \in Codes : checked[c] = 0
    BY DEF Init, Stored
  <1>3. \A p, q \in Requests : Apart(p, q)
    BY <1>1 DEF Apart
  <1>4. \A q \in Requests : Held(q)
    BY <1>1 DEF Held
  <1>5. \A c \in Codes : Tried(c)
    BY <1>2, OtpAssumption DEF Tried, Unseen
  <1> QED BY <1>3, <1>4, <1>5 DEF Guarded

\* One request gets the record r, and the rest is as good as it was.
LEMMA OneGuards ==
    ASSUME Typed, Guarded, NEW q \in Requests, NEW r, req' = [req EXCEPT ![q] = r],
           r.alone /\ r.stage # "idle" => req[q].alone /\ q \in Busy,
           r.stage # "idle" => q \in Busy,
           r.stage = "mail" =>
              \A p \in Requests \ {q} :
                 req[p].stage \in {"mail", "found", "matched", "consume"} => r.code # req[p].code,
           r.stage \in {"found", "matched", "consume"} =>
              \A p \in Requests \ {q} : req[p].stage = "mail" => r.code # req[p].code,
           Held(q)',
           \A p \in Requests \ {q} : Held(p) /\ Apart(p, q) /\ Apart(q, p) => Held(p)',
           \A c \in Codes : Tried(c)'
    PROVE  Guarded'
  <1>1. req'[q] = r /\ \A p \in Requests \ {q} : req'[p] = req[p]
    BY TypedFacts
  <1>2. \A p \in Requests : p \in Busy' => p \in Busy
    BY <1>1 DEF Busy
  <1>3. ASSUME NEW o \in Requests, NEW p \in Requests, o # p PROVE Apart(o, p)'
    <2>1. Apart(o, p) /\ Apart(p, o)
      BY <1>3 DEF Guarded
    <2>2. CASE o # q /\ p # q
      <3>1. req'[o] = req[o] /\ req'[p] = req[p]
        BY <1>1, <2>2
      <3> QED BY <1>2, <2>1, <3>1 DEF Apart, Busy
    <2>3. CASE o = q
      <3>1. req'[o] = r /\ req'[p] = req[p]
        BY <1>1, <1>3, <2>3
      <3>2. req'[o].alone /\ o \in Busy' => p \notin Busy'
        BY <1>2, <2>1, <2>3, <3>1 DEF Apart, Busy
      <3>3. (req'[o].stage = "mail" /\ req'[p].stage \in {"mail", "found", "matched", "consume"})
              => req'[o].code # req'[p].code
        BY <1>3, <2>3, <3>1
      <3> QED BY <3>2, <3>3 DEF Apart
    <2>4. CASE p = q
      <3>1. req'[p] = r /\ req'[o] = req[o]
        BY <1>1, <1>3, <2>4
      <3>2. req'[o].alone /\ o \in Busy' => p \notin Busy'
        BY <1>2, <2>1, <2>4, <3>1 DEF Apart, Busy
      <3>3. (req'[o].stage = "mail" /\ req'[p].stage \in {"mail", "found", "matched", "consume"})
              => req'[o].code # req'[p].code
        BY <1>3, <2>4, <3>1
      <3> QED BY <3>2, <3>3 DEF Apart
    <2> QED BY <2>2, <2>3, <2>4
  <1>4. \A p \in Requests : Held(p)'
    <2>1. \A p \in Requests \ {q} : Held(p) /\ Apart(p, q) /\ Apart(q, p)
      BY DEF Guarded
    <2> QED BY <2>1
  <1> QED BY <1>3, <1>4 DEF Guarded

\* A request ends, and the rows are as they were.
LEMMA EndGuards ==
    ASSUME Typed, Guarded, NEW q \in Requests, End(q),
           UNCHANGED <<rows, made, checked, accepted, spent>>
    PROVE  Guarded'
  <1>1. req' = [req EXCEPT ![q] = Idle] /\ Idle.stage = "idle"
    BY DEF End, Idle
  <1>2. req'[q] = Idle /\ \A p \in Requests \ {q} : req'[p] = req[p]
    BY <1>1, TypedFacts
  <1>3. Stored' = Stored
    BY DEF Stored
  <1>4. Held(q)'
    BY <1>1, <1>2 DEF Held
  <1>5. \A p \in Requests \ {q} : Held(p) => Held(p)'
    BY <1>2, <1>3 DEF Held, Unseen
  <1>6. \A c \in Codes : Tried(c)'
    BY <1>3 DEF Guarded, Tried, Unseen
  <1> QED BY <1>1, <1>4, <1>5, <1>6, OneGuards

LEMMA GuardedStep == Typed /\ Guarded /\ [Next]_vars => Guarded'
  <1> SUFFICES ASSUME Typed, Guarded, [Next]_vars PROVE Guarded'
    OBVIOUS
  <1>0. /\ req \in [Requests -> Record(made)]
        /\ checked \in [Codes -> Nat]
        /\ accepted \subseteq Codes /\ spent \subseteq Codes
        /\ Idle.stage = "idle"
    BY TypedFacts DEF Typed, TypeOK, Idle
  <1>1. ASSUME NEW q \in Requests, NEW stage \in {"send", "verify"}, NEW resets \in BOOLEAN,
               Begin(q, stage, resets)
        PROVE  Guarded'
    <2>1. stage \in Stages
      BY DEF Stages
    <2>2. UNCHANGED <<rows, made, checked, accepted, spent>> /\ Stored' = Stored /\ q \notin Busy
      BY <1>1 DEF Begin, Stored
    <2>3. /\ req'[q].stage \in {"send", "verify"}
          /\ req'[q].alone => Busy = {}
      BY <1>1, <2>1, BeginKeeps
    <2>4. \A p \in Requests \ {q} : /\ req'[p].stage = req[p].stage
                                    /\ req'[p].code = req[p].code
                                    /\ req'[p].attempts = req[p].attempts
                                    /\ req'[p].alone => req[p].alone /\ p \notin Busy
      BY <1>1, <2>1, BeginKeeps
    <2>5. \A p \in Requests \ {q} : p \in Busy' <=> p \in Busy
      BY <2>4 DEF Busy
    <2>6. ASSUME NEW o \in Requests, NEW p \in Requests, o # p PROVE Apart(o, p)'
      <3>1. Apart(o, p)
        BY <2>6 DEF Guarded
      <3>2. req'[o].alone /\ o \in Busy' => p \notin Busy'
        BY <2>2, <2>3, <2>4, <2>5, <2>6
      <3>3. (req'[o].stage = "mail" /\ req'[p].stage \in {"mail", "found", "matched", "consume"})
              => req'[o].code # req'[p].code
        BY <2>3, <2>4, <2>6, <3>1 DEF Apart
      <3> QED BY <3>2, <3>3 DEF Apart
    <2>7. ASSUME NEW p \in Requests PROVE Held(p)'
      <3>1. CASE p = q
        BY <2>3, <3>1 DEF Held
      <3>2. CASE p # q
        <4>1. Held(p)
          BY DEF Guarded
        <4>2. p \in Requests \ {q}
          BY <3>2
        <4> QED BY <2>2, <2>4, <4>1, <4>2 DEF Held, Unseen
      <3> QED BY <3>1, <3>2
    <2>8. \A c \in Codes : Tried(c)'
      BY <2>2 DEF Guarded, Tried, Unseen
    <2> QED BY <2>6, <2>7, <2>8 DEF Guarded
  <1>2. ASSUME NEW q \in Requests, Count(q) PROVE Guarded'
    <2>1. UNCHANGED <<rows, checked, accepted, spent>> /\ Stored' = Stored
          /\ req[q].stage = "send" /\ made < MaxCodes
      BY <1>2 DEF Count, Stored
    <2>2. CASE End(q) /\ UNCHANGED made
      BY <2>1, <2>2, EndGuards
    <2>3. CASE /\ made' = made + 1
               /\ req' = [req EXCEPT ![q].stage = "mail", ![q].code = made + 1]
      <3> DEFINE r == [req[q] EXCEPT !.stage = "mail", !.code = made + 1]
      <3>1. req' = [req EXCEPT ![q] = r] /\ req'[q] = r
        BY <1>0, <2>3
      <3>2. r.stage = "mail" /\ r.code = made + 1 /\ (r.alone <=> req[q].alone) /\ q \in Busy
        BY <1>0, <2>1 DEF Record, Busy
      <3> HIDE DEF r
      <3>3. made + 1 \in Codes /\ Unseen(made + 1)
        <4>1. made + 1 \in Codes /\ made + 1 > made
          BY <2>1, TypedFacts DEF Codes
        <4> QED BY <4>1 DEF Guarded, Tried
      <3>4. Held(q)'
        BY <2>1, <3>1, <3>2, <3>3 DEF Held, Unseen
      <3>5. \A p \in Requests \ {q} : Held(p) => Held(p)'
        <4>1. \A p \in Requests \ {q} : req'[p] = req[p]
          BY <1>0, <3>1
        <4> QED BY <2>1, <4>1 DEF Held, Unseen
      <3>6. \A c \in Codes : Tried(c)'
        <4>1. \A c \in Codes : c > made' => c > made
          BY <2>3, TypedFacts DEF Codes
        <4> QED BY <2>1, <4>1 DEF Guarded, Tried, Unseen
      <3>7. \A p \in Requests : r.code # req[p].code
        <4>1. \A p \in Requests : req[p].code \in 0..made
          BY <1>0 DEF Record
        <4> QED BY <3>2, <4>1, TypedFacts
      <3> QED BY <3>1, <3>2, <3>4, <3>5, <3>6, <3>7, OneGuards DEF Busy
    <2> QED BY <1>2, <2>2, <2>3 DEF Count
  <1>3. ASSUME NEW q \in Requests, CommitSend(q) PROVE Guarded'
    <2> DEFINE c == req[q].code
    <2>1. /\ req[q].stage = "mail" /\ req' = [req EXCEPT ![q] = Idle]
          /\ rows' = [d \in Stored \cup {c} |->
                        IF d = c THEN [attempts |-> 0, verified |-> FALSE] ELSE rows[d]]
          /\ UNCHANGED <<made, checked, accepted, spent>> /\ Stored' = Stored \cup {c}
      BY <1>3 DEF CommitSend, End, Stored
    <2>2. Unseen(c) /\ c \in 1..made
      <3>1. Unseen(c)
        BY <2>1 DEF Guarded, Held
      <3>2. req[q] \in Record(made) /\ req[q].code # 0
        BY <2>1, TypedFacts DEF Counted
      <3> QED BY <3>1, <3>2, TypedFacts DEF Record
    <2>3. req'[q] = Idle /\ \A p \in Requests \ {q} : req'[p] = req[p]
      BY <1>0, <2>1
    <2>4. Held(q)'
      BY <1>0, <2>3 DEF Held
    <2>5. rows'[c].attempts = 0 /\ ~rows'[c].verified /\ \A d \in Stored : d # c /\ rows'[d] = rows[d]
      BY <2>1, <2>2 DEF Unseen
    <2>6. ASSUME NEW p \in Requests \ {q}, Held(p), Apart(q, p) PROVE Held(p)'
      <3>1. req[p].stage \in {"mail", "found", "matched", "consume"} => req[p].code # c
        BY <2>1, <2>6 DEF Apart
      <3>2. req[p].stage = "mail" => Unseen(req[p].code)'
        BY <2>1, <2>6, <3>1 DEF Held, Unseen
      <3>3. req[p].code \in Stored => rows'[req[p].code] = rows[req[p].code]
        BY <2>5
      <3> QED BY <2>1, <2>3, <2>6, <3>1, <3>2, <3>3 DEF Held
    <2>7. ASSUME NEW d \in Codes PROVE Tried(d)'
      <3>1. Tried(d)
        BY DEF Guarded
      <3>2. CASE d = c
        BY <2>1, <2>2, <2>5, <3>1, <3>2, TypedFacts DEF Tried, Unseen, Codes
      <3>3. CASE d # c
        BY <2>1, <2>5, <3>1, <3>3 DEF Tried, Unseen
      <3> QED BY <3>2, <3>3
    <2> QED BY <1>0, <2>1, <2>4, <2>6, <2>7, OneGuards
  <1>4. ASSUME NEW q \in Requests, NEW r, req' = [req EXCEPT ![q] = r], q \in Busy,
               UNCHANGED <<rows, made, checked, accepted, spent>>,
               r.alone <=> req[q].alone, r.code \in Stored,
               r.stage \in {"found", "matched", "consume"},
               r.stage \in {"found", "matched"} =>
                  /\ checked[r.code] <= r.attempts
                  /\ r.alone => ~rows[r.code].verified
        PROVE  Guarded'
    <2>1. req'[q] = r /\ \A p \in Requests \ {q} : req'[p] = req[p]
      BY <1>0, <1>4
    <2>2. Stored' = Stored
      BY <1>4 DEF Stored
    <2>3. r.code \in Codes
      BY <1>4, TypedFacts DEF Codes
    <2>4. Tried(r.code)
      BY <2>3 DEF Guarded
    <2>5. Held(q)'
      BY <1>4, <2>1, <2>2, <2>4 DEF Held, Tried
    <2>6. \A p \in Requests \ {q} : Held(p) => Held(p)'
      BY <1>4, <2>1, <2>2 DEF Held, Unseen
    <2>7. \A c \in Codes : Tried(c)'
      BY <1>4, <2>2 DEF Guarded, Tried, Unseen
    <2>8. \A p \in Requests : req[p].stage = "mail" => r.code # req[p].code
      BY <1>4 DEF Guarded, Held, Unseen
    <2> QED BY <1>4, <2>5, <2>6, <2>7, <2>8, OneGuards
  <1>5. ASSUME NEW q \in Requests, Read(q) PROVE Guarded'
    <2> DEFINE last == Latest
               tries == rows[Latest].attempts
    <2>1. UNCHANGED <<rows, made, checked, accepted, spent>> /\ q \in Busy /\ req[q].stage = "verify"
      BY <1>5 DEF Read, Busy
    <2>2. CASE End(q)
      BY <2>1, <2>2, EndGuards
    <2>3. CASE Stored # {} /\ req' = [req EXCEPT ![q].stage = "consume", ![q].code = Latest]
      <3>1. last \in Stored
        BY <2>3, LatestStored DEF Typed
      <3>2. req' = [req EXCEPT ![q].stage = "consume", ![q].code = last]
        BY <2>3
      <3> HIDE DEF last
      <3> DEFINE r == [req[q] EXCEPT !.stage = "consume", !.code = last]
      <3>3. req' = [req EXCEPT ![q] = r]
        BY <1>0, <3>2
      <3>4. r.stage = "consume" /\ r.code = last /\ (r.alone <=> req[q].alone)
        BY <1>0 DEF Record
      <3> HIDE DEF r
      <3> QED BY <1>4, <2>1, <3>1, <3>3, <3>4
    <2>4. CASE /\ Stored # {} /\ ~rows[Latest].verified
               /\ req' = [req EXCEPT ![q].stage = "found", ![q].code = Latest,
                                     ![q].attempts = rows[Latest].attempts]
      <3>1. last \in Stored
        BY <2>4, LatestStored DEF Typed
      <3>2. checked[last] <= tries
        <4>1. last \in Codes
          BY <3>1, TypedFacts DEF Codes
        <4> QED BY <3>1, <4>1 DEF Guarded, Tried
      <3>3. req' = [req EXCEPT ![q].stage = "found", ![q].code = last, ![q].attempts = tries]
            /\ ~rows[last].verified
        BY <2>4
      <3> HIDE DEF last, tries
      <3> DEFINE r == [req[q] EXCEPT !.stage = "found", !.code = last, !.attempts = tries]
      <3>4. req' = [req EXCEPT ![q] = r]
        BY <1>0, <3>3
      <3>5. r.stage = "found" /\ r.code = last /\ r.attempts = tries /\ (r.alone <=> req[q].alone)
        BY <1>0 DEF Record
      <3> HIDE DEF r
      <3> QED BY <1>4, <2>1, <3>1, <3>2, <3>3, <3>4, <3>5
    <2> QED BY <1>5, <2>2, <2>3, <2>4 DEF Read
  <1>6. ASSUME NEW q \in Requests, Gone(q) \/ Abort(q) PROVE Guarded'
    BY <1>6, EndGuards DEF Gone, Abort
  <1>7. ASSUME NEW q \in Requests, Wrong(q) PROVE Guarded'
    <2> DEFINE c == req[q].code
    <2>1. /\ c \in Stored /\ req[q].stage = "found" /\ q \in Busy
          /\ rows' = [rows EXCEPT ![c].attempts = req[q].attempts + 1]
          /\ checked' = [checked EXCEPT ![c] = IF req[q].alone THEN @ + 1 ELSE @]
          /\ req' = [req EXCEPT ![q] = Idle] /\ UNCHANGED <<made, accepted, spent>>
          /\ Stored' = Stored
      BY <1>7, TypedFacts DEF Wrong, May, End, Busy, Stored
    <2>2. req'[q] = Idle /\ \A p \in Requests \ {q} : req'[p] = req[p]
      BY <1>0, <2>1
    <2>3. Held(q)'
      BY <1>0, <2>2 DEF Held
    <2>4. /\ c \in Codes /\ req[q].attempts \in Nat /\ req[q].attempts + 1 <= MaxAttempts
          /\ checked[c] <= req[q].attempts
      <3>1. req[q] \in Record(made) /\ req[q].attempts < MaxAttempts
        BY <2>1, TypedFacts DEF Counted
      <3>2. checked[c] <= req[q].attempts
        BY <2>1 DEF Guarded, Held
      <3> QED BY <2>1, <3>1, <3>2, TypedFacts DEF Record, Codes
    <2>5. /\ rows'[c].attempts = req[q].attempts + 1 /\ (rows'[c].verified <=> rows[c].verified)
          /\ \A d \in Stored : d # c => rows'[d] = rows[d]
      BY <2>1, TypedFacts DEF Rows
    <2>6. /\ checked'[c] <= req[q].attempts + 1
          /\ ~req[q].alone => checked'[c] = checked[c]
          /\ \A d \in Codes : d # c => checked'[d] = checked[d]
      BY <1>0, <2>1, <2>4
    <2>7. ASSUME NEW p \in Requests \ {q}, Held(p), Apart(p, q), Apart(q, p) PROVE Held(p)'
      <3>1. CASE req[q].alone
        <4>1. req[p].stage = "idle"
          BY <2>1, <2>7, <3>1 DEF Apart, Busy
        <4> QED BY <2>2, <4>1 DEF Held
      <3>2. CASE ~req[q].alone
        <4>1. checked' = checked
          BY <1>0, <2>1, <2>4, <3>2
        <4>2. \A d \in Stored : rows'[d].verified <=> rows[d].verified
          BY <2>5
        <4> QED BY <2>1, <2>2, <2>7, <4>1, <4>2 DEF Held, Unseen
      <3> QED BY <3>1, <3>2
    <2>8. ASSUME NEW d \in Codes PROVE Tried(d)'
      <3>1. Tried(d)
        BY DEF Guarded
      <3>2. CASE d = c
        <4>1. ~(c > made)
          BY <2>1, TypedFacts
        <4>2. checked'[c] \in Nat
          BY <1>0, <2>1, <2>4
        <4> QED BY <2>1, <2>4, <2>5, <2>6, <3>1, <3>2, <4>1, <4>2, TypedFacts DEF Tried
      <3>3. CASE d # c
        BY <2>1, <2>5, <2>6, <3>1, <3>3 DEF Tried, Unseen
      <3> QED BY <3>2, <3>3
    <2> QED BY <1>0, <2>1, <2>3, <2>7, <2>8, OneGuards
  <1>8. ASSUME NEW q \in Requests, Right(q) PROVE Guarded'
    <2> DEFINE stage == IF req[q].resets THEN "consume" ELSE "matched"
               r == [req[q] EXCEPT !.stage = stage, !.locks = TRUE]
    <2>1. /\ req[q].stage = "found" /\ req[q].code \in Stored /\ q \in Busy
          /\ req' = [req EXCEPT ![q].stage = stage, ![q].locks = TRUE]
          /\ UNCHANGED <<rows, made, checked, accepted, spent>>
      BY <1>8 DEF Right, May, Busy
    <2>2. req' = [req EXCEPT ![q] = r]
      BY <1>0, <2>1
    <2>3. stage \in {"consume", "matched"}
      OBVIOUS
    <2> HIDE DEF stage
    <2>4. /\ r.stage = stage /\ r.code = req[q].code /\ r.attempts = req[q].attempts
          /\ r.alone <=> req[q].alone
      BY <1>0 DEF Record
    <2>5. /\ checked[req[q].code] <= req[q].attempts
          /\ req[q].alone => ~rows[req[q].code].verified
      BY <2>1 DEF Guarded, Held
    <2> HIDE DEF r
    <2> QED BY <1>4, <2>1, <2>2, <2>3, <2>4, <2>5
  <1>9. ASSUME NEW q \in Requests, CommitMatch(q) PROVE Guarded'
    <2> DEFINE c == req[q].code
    <2>1. /\ req[q].stage = "matched" /\ q \in Busy
          /\ rows' = [rows EXCEPT ![c] = [attempts |-> req[q].attempts + 1, verified |-> TRUE]]
          /\ accepted' = accepted \cup {c}
          /\ req' = [req EXCEPT ![q] = Idle] /\ UNCHANGED <<made, checked, spent>>
          /\ Stored' = Stored
      BY <1>9, TypedFacts DEF CommitMatch, End, Busy, Stored
    <2>2. req'[q] = Idle /\ \A p \in Requests \ {q} : req'[p] = req[p]
      BY <1>0, <2>1
    <2>3. Held(q)'
      BY <1>0, <2>2 DEF Held
    <2>4. /\ c \in 1..made /\ checked[c] <= req[q].attempts /\ req[q].attempts \in Nat
      <3>1. req[q] \in Record(made) /\ req[q].code # 0
        BY <2>1, TypedFacts DEF Counted
      <3>2. checked[c] <= req[q].attempts
        BY <2>1 DEF Guarded, Held
      <3> QED BY <3>1, <3>2, TypedFacts DEF Record
    <2>5. /\ c \in Stored => rows'[c].attempts = req[q].attempts + 1 /\ rows'[c].verified
          /\ \A d \in Stored : d # c => rows'[d] = rows[d]
      BY <2>1, TypedFacts
    <2>6. ASSUME NEW p \in Requests \ {q}, Held(p), Apart(p, q), Apart(q, p) PROVE Held(p)'
      <3>1. req[p].stage = "mail" => req[p].code # c
        BY <2>1, <2>6 DEF Apart
      <3>2. req[p].alone => req[p].stage = "idle"
        BY <2>1, <2>6 DEF Apart, Busy
      <3> QED BY <2>1, <2>2, <2>6, <3>1, <3>2 DEF Held, Unseen
    <2>7. ASSUME NEW d \in Codes PROVE Tried(d)'
      <3>1. Tried(d)
        BY DEF Guarded
      <3>2. CASE d = c
        <4>1. checked[c] \in Nat /\ ~(c > made)
          BY <1>0, <2>4, <3>2, TypedFacts
        <4> QED BY <2>1, <2>4, <2>5, <3>1, <3>2, <4>1 DEF Tried
      <3>3. CASE d # c
        BY <2>1, <2>5, <3>1, <3>3 DEF Tried, Unseen
      <3> QED BY <3>2, <3>3
    <2> QED BY <1>0, <2>1, <2>3, <2>6, <2>7, OneGuards
  <1>10. ASSUME NEW q \in Requests, CommitReset(q) PROVE Guarded'
    <2> DEFINE c == req[q].code
    <2>1. /\ req[q].stage = "consume" /\ q \in Busy
          /\ rows' = [d \in Stored \ {c} |-> rows[d]]
          /\ spent' = spent \cup {c}
          /\ req' = [req EXCEPT ![q] = Idle] /\ UNCHANGED <<made, checked, accepted>>
          /\ Stored' = Stored \ {c}
      BY <1>10 DEF CommitReset, End, Busy, Stored
    <2>2. req'[q] = Idle /\ \A p \in Requests \ {q} : req'[p] = req[p]
      BY <1>0, <2>1
    <2>3. Held(q)'
      BY <1>0, <2>2 DEF Held
    <2>4. c \in 1..made
      <3>1. req[q] \in Record(made) /\ req[q].code # 0
        BY <2>1, TypedFacts DEF Counted
      <3> QED BY <3>1, TypedFacts DEF Record
    <2>5. ASSUME NEW p \in Requests \ {q}, Held(p), Apart(p, q), Apart(q, p) PROVE Held(p)'
      <3>1. req[p].stage = "mail" => req[p].code # c
        BY <2>1, <2>5 DEF Apart
      <3>2. req[p].alone => req[p].stage = "idle"
        BY <2>1, <2>5 DEF Apart, Busy
      <3> QED BY <2>1, <2>2, <2>5, <3>1, <3>2 DEF Held, Unseen
    <2>6. ASSUME NEW d \in Codes PROVE Tried(d)'
      <3>1. Tried(d)
        BY DEF Guarded
      <3>2. d \in Stored' => d # c /\ d \in Stored /\ rows'[d] = rows[d]
        BY <2>1
      <3>3. d > made => d # c
        BY <2>4, TypedFacts
      <3> QED BY <2>1, <3>1, <3>2, <3>3 DEF Tried, Unseen
    <2> QED BY <1>0, <2>1, <2>3, <2>5, <2>6, OneGuards
  <1>11. ASSUME UNCHANGED <<rows, made, req, checked, accepted, spent>> PROVE Guarded'
    <2>1. Stored' = Stored /\ Busy' = Busy
      BY <1>11 DEF Stored, Busy
    <2>2. \A p, q \in Requests : Apart(p, q) => Apart(p, q)'
      BY <1>11, <2>1 DEF Apart
    <2>3. \A q \in Requests : Held(q) => Held(q)'
      BY <1>11, <2>1 DEF Held, Unseen
    <2>4. \A c \in Codes : Tried(c)'
      BY <1>11, <2>1 DEF Guarded, Tried, Unseen
    <2> QED BY <2>2, <2>3, <2>4 DEF Guarded
  <1>12. ASSUME NEW c \in Codes, Expire(c) \/ LeaveWindow(c) PROVE Guarded'
    BY <1>11, <1>12 DEF Expire, LeaveWindow
  <1>13. CASE UNCHANGED vars
    BY <1>11, <1>13 DEF vars
  <1> QED
    BY <1>1, <1>2, <1>3, <1>5, <1>6, <1>7, <1>8, <1>9, <1>10, <1>12, <1>13
    DEF Next, Send, Verify

(***************************************************************************)
(* At most MaxAttempts of the guesses whose request met no other were      *)
(* wrong, for each code.                                                   *)
(***************************************************************************)
THEOREM Lockout == Spec => []LockoutHolds
  <1>1. Spec => [](Typed /\ Guarded)
    BY TypedInit, TypedStep, GuardedInit, GuardedStep, PTL DEF Spec
  <1>2. Guarded => LockoutHolds
    BY DEF Guarded, Tried, LockoutHolds
  <1> QED BY <1>1, <1>2, PTL

(***************************************************************************)
(* A code that was used before is granted only to a request that met       *)
(* another one.                                                            *)
(***************************************************************************)
THEOREM SingleUse == Spec => UsedOnce
  <1>1. Spec => [](Typed /\ Guarded)
    BY TypedInit, TypedStep, GuardedInit, GuardedStep, PTL DEF Spec
  <1>2. ASSUME Typed, Guarded, NEW q \in Requests,
               \/ CommitMatch(q) /\ req[q].code \in accepted
               \/ CommitReset(q) /\ req[q].code \in spent
        PROVE  ~req[q].alone
    <2>1. req[q].stage \in {"matched", "consume"} /\ Held(q) /\ req[q].code \in Codes
      <3>1. req[q].stage \in {"matched", "consume"} /\ req[q] \in Record(made) /\ req[q].code # 0
        BY <1>2, TypedFacts DEF CommitMatch, CommitReset, Counted
      <3>2. Held(q)
        BY <1>2 DEF Guarded
      <3>3. req[q].code \in Codes
        BY <1>2, <3>1, TypedFacts DEF Record, Codes
      <3> QED BY <3>1, <3>2, <3>3
    <2>2. Tried(req[q].code)
      BY <1>2, <2>1 DEF Guarded
    <2> QED BY <1>2, <2>1, <2>2 DEF CommitMatch, CommitReset, Held, Tried
  <1>3. Typed /\ Guarded =>
          [\A q \in Requests : \/ CommitMatch(q) /\ req[q].code \in accepted
                               \/ CommitReset(q) /\ req[q].code \in spent
                               => ~req[q].alone]_vars
    BY <1>2
  <1> QED BY <1>1, <1>3, PTL DEF UsedOnce, Spec
=============================================================================
