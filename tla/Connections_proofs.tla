------------------------- MODULE Connections_proofs -------------------------
(***************************************************************************)
(* The pool and the mails, for any tasks, any size and any number of       *)
(* attempts: connections and slots are neither lost nor given back twice,  *)
(* and no mail is lost in silence.                                         *)
(***************************************************************************)
EXTENDS Connections, FiniteSetTheorems, SequenceTheorems, TLAPS

LEMMA FiniteTasks == IsFiniteSet(Tasks) /\ IsFiniteSet(Mailers)
  <1>1. IsFiniteSet(Forms \cup Mailers)
    BY ConnectionsAssumption, FS_Union
  <1>2. IsFiniteSet((Forms \cup Mailers) \cup Chats)
    BY <1>1, ConnectionsAssumption, FS_Union
  <1>3. IsFiniteSet(((Forms \cup Mailers) \cup Chats) \cup {Loop})
    BY <1>2, FS_AddElement
  <1>4. Tasks = ((Forms \cup Mailers) \cup Chats) \cup {Loop}
    BY DEF Tasks
  <1> QED BY <1>3, <1>4, ConnectionsAssumption

\* A set that gets one element more, or loses one.
LEMMA OneMore ==
    ASSUME NEW S, IsFiniteSet(S), NEW x, x \notin S
    PROVE  /\ IsFiniteSet(S \cup {x}) /\ Cardinality(S) \in Nat
           /\ Cardinality(S \cup {x}) = Cardinality(S) + 1
  BY FS_AddElement, FS_CardinalityType

LEMMA OneLess ==
    ASSUME NEW S, IsFiniteSet(S), NEW x \in S
    PROVE  /\ IsFiniteSet(S \ {x}) /\ Cardinality(S) \in Nat
           /\ Cardinality(S \ {x}) = Cardinality(S) - 1 /\ Cardinality(S \ {x}) \in Nat
  BY FS_RemoveElement, FS_CardinalityType

LEMMA Removed ==
    ASSUME NEW T, NEW s \in Seq(T), NEW i \in 1..Len(s)
    PROVE  /\ RemoveAt(s, i) \in Seq(T)
           /\ Len(RemoveAt(s, i)) = Len(s) - 1
           /\ \A j \in 1..(Len(s) - 1) : RemoveAt(s, i)[j] = IF j < i THEN s[j] ELSE s[j + 1]
  <1> DEFINE a == SubSeq(s, 1, i - 1)
             b == SubSeq(s, i + 1, Len(s))
  <1>1. a \in Seq(T) /\ Len(a) = i - 1 /\ \A j \in 1..(i - 1) : a[j] = s[j]
    OBVIOUS
  <1>2. b \in Seq(T) /\ Len(b) = Len(s) - i /\ \A j \in 1..(Len(s) - i) : b[j] = s[i + j]
    OBVIOUS
  <1>3. RemoveAt(s, i) = a \o b
    BY DEF RemoveAt
  <1>4. Len(s) \in Nat
    OBVIOUS
  <1> HIDE DEF a, b
  <1>5. /\ a \o b \in Seq(T) /\ Len(a \o b) = Len(a) + Len(b)
        /\ \A j \in 1..(Len(a) + Len(b)) : (a \o b)[j] = IF j <= Len(a) THEN a[j] ELSE b[j - Len(a)]
    BY <1>1, <1>2, ConcatProperties
  <1>6. ASSUME NEW j \in 1..(Len(s) - 1)
        PROVE  RemoveAt(s, i)[j] = IF j < i THEN s[j] ELSE s[j + 1]
    <2>1. CASE j < i
      <3>1. (a \o b)[j] = a[j]
        BY <1>1, <1>2, <1>4, <1>5, <2>1
      <3> QED BY <1>1, <1>3, <2>1, <3>1
    <2>2. CASE ~(j < i)
      <3>1. (a \o b)[j] = b[j - (i - 1)]
        BY <1>1, <1>2, <1>4, <1>5, <2>2
      <3>2. j - (i - 1) \in 1..(Len(s) - i) /\ i + (j - (i - 1)) = j + 1
        BY <1>4, <2>2
      <3> QED BY <1>2, <1>3, <2>2, <3>1, <3>2
    <2> QED BY <2>1, <2>2
  <1> QED BY <1>1, <1>2, <1>3, <1>4, <1>5, <1>6

-----------------------------------------------------------------------------
Holders == {t \in Tasks : at[t] \in Holding}
Running == {t \in Tasks : at[t] = "running"}

MailRecord == [tries : 0..Attempts, copies : 0..Attempts, console : BOOLEAN]

\* Who is in the queue waits, and is there once.
Queued ==
    /\ \A i \in 1..Len(getters) : at[getters[i]] = "queued"
    /\ \A i, j \in 1..Len(getters) : getters[i] = getters[j] => i = j

\* A mail of a task at a stage: none before, no console while attempts are left.
Letter(stage, m) ==
    /\ stage \in {"asleep", "queued", "woken", "using"} => m.tries = 0 /\ m.copies = 0 /\ ~m.console
    /\ stage = "mailing" => m.tries < Attempts /\ ~m.console
    /\ stage \notin {"calling", "called", "released", "running", "returned"}
    /\ m.copies <= m.tries

Typed ==
    /\ at \in [Tasks -> Stages] /\ lap \subseteq Chats \cup {Loop}
    /\ free \in Nat /\ slots \in Nat
    /\ owner \in SameRow \cup {None}
    /\ getters \in Seq(Tasks)
    /\ mail \in [Mailers -> MailRecord]
    /\ emails \in [success : Nat, failure : Nat]

\* Connections and slots are free or in somebody's hands.
Conserved ==
    /\ free + Cardinality(Holders) = Size
    /\ slots + Cardinality(Running) = MaxConcurrent

\* Who may want a second connection.
Kinds == \A t \in Tasks : at[t] = "returned" => t \in Chats \cup {Loop}

Letters == \A m \in Mailers : Letter(at[m], mail[m])

\* The mails that are done with, and those the console stood in for.
Ended == {m \in Mailers : mail[m].tries > 0 \/ mail[m].console}
           \ {m \in Mailers : at[m] = "mailing"}
Fallback == {m \in Ended : mail[m].tries > 0 /\ mail[m].console}

Accounted ==
    /\ emails.success + emails.failure = Cardinality(Ended)
    /\ emails.failure = Cardinality(Fallback)
    /\ \A m \in Ended : mail[m].copies > 0 \/ mail[m].console

Sound == Typed /\ Queued /\ Conserved /\ Kinds /\ Letters /\ Accounted

LEMMA Sizes ==
    /\ IsFiniteSet(Holders) /\ IsFiniteSet(Running)
    /\ Cardinality(Holders) \in Nat /\ Cardinality(Running) \in Nat
  <1>1. Holders \subseteq Tasks /\ Running \subseteq Tasks
    BY DEF Holders, Running
  <1> QED BY <1>1, FiniteTasks, FS_Subset, FS_CardinalityType

\* Queue.get by a task that has nothing and waits nowhere.
LEMMA GetKeeps ==
    ASSUME Typed, Queued, Conserved, NEW t \in Tasks, Get(t), UNCHANGED slots,
           at[t] \in {"asleep", "woken", "returned"}
    PROVE  /\ at' \in [Tasks -> Stages] /\ free' \in Nat /\ getters' \in Seq(Tasks)
           /\ Queued' /\ Conserved'
           /\ at'[t] \in {"using", "queued"} /\ \A u \in Tasks \ {t} : at'[u] = at[u]
  <1>1. CASE /\ free > 0 /\ at' = [at EXCEPT ![t] = "using"] /\ free' = free - 1
             /\ UNCHANGED getters
    <2>1. /\ at' \in [Tasks -> Stages] /\ at'[t] = "using" /\ \A u \in Tasks \ {t} : at'[u] = at[u]
          /\ free' \in Nat
      BY <1>1 DEF Typed, Stages
    <2>2. Queued'
      BY <1>1, <2>1 DEF Queued, Typed
    <2>3. Holders' = Holders \cup {t} /\ t \notin Holders /\ Running' = Running
      BY <2>1 DEF Holders, Holding, Running
    <2>4. Conserved'
      <3>1. Cardinality(Holders') = Cardinality(Holders) + 1 /\ Cardinality(Running') = Cardinality(Running)
        BY <2>3, Sizes, OneMore
      <3>2. free \in Nat /\ Cardinality(Holders) \in Nat /\ free + Cardinality(Holders) = Size
        BY Sizes DEF Conserved, Typed
      <3>3. free' + Cardinality(Holders') = Size
        BY <1>1, <3>1, <3>2
      <3> QED BY <3>1, <3>3 DEF Conserved
    <2> QED BY <1>1, <2>1, <2>2, <2>4 DEF Typed
  <1>2. CASE /\ at' = [at EXCEPT ![t] = "queued"] /\ getters' = Append(getters, t)
             /\ UNCHANGED free
    <2>1. at' \in [Tasks -> Stages] /\ at'[t] = "queued" /\ \A u \in Tasks \ {t} : at'[u] = at[u]
      BY <1>2 DEF Typed, Stages
    <2>2. /\ getters' \in Seq(Tasks) /\ Len(getters') = Len(getters) + 1
          /\ \A i \in 1..Len(getters) : getters'[i] = getters[i] /\ getters[i] \in Tasks
          /\ getters'[Len(getters) + 1] = t /\ Len(getters) \in Nat
      BY <1>2, AppendProperties, ElementOfSeq DEF Typed
    <2>3. \A i \in 1..Len(getters) : getters[i] # t
      BY DEF Queued
    <2>4. \A i \in 1..Len(getters') : at'[getters'[i]] = "queued"
      BY <2>1, <2>2, <2>3 DEF Queued
    <2>5. \A i, j \in 1..Len(getters') : getters'[i] = getters'[j] => i = j
      BY <2>2, <2>3 DEF Queued
    <2>6. Holders' = Holders /\ Running' = Running
      BY <2>1 DEF Holders, Holding, Running
    <2>7. Conserved'
      BY <1>2, <2>6 DEF Conserved
    <2> QED BY <1>2, <2>1, <2>2, <2>4, <2>5, <2>7 DEF Typed, Queued
  <1> QED BY <1>1, <1>2 DEF Get

\* Queue.put by a task that has a connection.
LEMMA PutKeeps ==
    ASSUME Typed, Queued, Conserved, NEW t \in Tasks, NEW stage \in Stages, Put(t, stage),
           UNCHANGED slots, at[t] \in Holding,
           stage \notin Holding \cup {"queued", "running"}
    PROVE  /\ at' \in [Tasks -> Stages] /\ free' \in Nat /\ getters' \in Seq(Tasks)
           /\ owner' \in SameRow \cup {None} /\ Queued' /\ Conserved'
           /\ at'[t] = stage
           /\ \A u \in Tasks \ {t} : at'[u] = at[u] \/ (at[u] = "queued" /\ at'[u] = "woken")
  <1>1. free' = free + 1 /\ owner' \in {owner, None}
    BY DEF Put
  <1>2. /\ at' \in [Tasks -> Stages] /\ at'[t] = stage /\ getters' \in Seq(Tasks)
        /\ \A u \in Tasks \ {t} : at'[u] = at[u] \/ (at[u] = "queued" /\ at'[u] = "woken")
        /\ Queued'
    <2>1. CASE getters = <<>>
      <3>1. at' = [at EXCEPT ![t] = stage] /\ getters' = getters
        BY <2>1 DEF Put
      <3>2. Queued'
        <4>1. Len(getters') = 0
          BY <2>1, <3>1
        <4> QED BY <4>1 DEF Queued
      <3>3. /\ at' \in [Tasks -> Stages] /\ at'[t] = stage
            /\ \A u \in Tasks \ {t} : at'[u] = at[u]
        BY <3>1 DEF Typed
      <3> QED BY <3>1, <3>2, <3>3 DEF Typed
    <2>2. CASE getters # <<>>
      <3> DEFINE h == Head(getters)
      <3>1. at' = [at EXCEPT ![t] = stage, ![h] = "woken"] /\ getters' = Tail(getters)
        BY <2>2 DEF Put
      <3>2. /\ h \in Tasks /\ Tail(getters) \in Seq(Tasks) /\ Len(Tail(getters)) = Len(getters) - 1
            /\ \A i \in 1..Len(Tail(getters)) : Tail(getters)[i] = getters[i + 1]
            /\ h = getters[1] /\ Len(getters) \in Nat \ {0}
        BY <2>2, HeadTailProperties DEF Typed
      <3>3. at[h] = "queued" /\ h # t
        BY <3>2 DEF Queued, Holding
      <3> HIDE DEF h
      <3>4. /\ at' \in [Tasks -> Stages] /\ at'[t] = stage /\ at'[h] = "woken"
            /\ \A u \in Tasks \ {t, h} : at'[u] = at[u]
        BY <3>1, <3>2, <3>3 DEF Typed, Stages
      <3>5. ASSUME NEW i \in 1..Len(getters')
            PROVE  /\ i + 1 \in 1..Len(getters) /\ getters'[i] = getters[i + 1]
                   /\ getters[i + 1] \in Tasks \ {t, h} /\ at[getters[i + 1]] = "queued"
        <4>1. i + 1 \in 1..Len(getters) /\ i + 1 # 1 /\ getters'[i] = getters[i + 1]
              /\ 1 \in 1..Len(getters)
          BY <3>1, <3>2
        <4>2. at[getters[i + 1]] = "queued" /\ getters[i + 1] # h
          BY <3>2, <4>1 DEF Queued
        <4>3. getters[i + 1] \in Tasks
          BY <4>1, ElementOfSeq DEF Typed
        <4> QED BY <4>1, <4>2, <4>3 DEF Holding
      <3>6. \A i \in 1..Len(getters') : at'[getters'[i]] = "queued"
        BY <3>4, <3>5
      <3>7. ASSUME NEW i \in 1..Len(getters'), NEW j \in 1..Len(getters'), getters'[i] = getters'[j]
            PROVE  i = j
        <4>1. i + 1 = j + 1
          BY <3>5, <3>7 DEF Queued
        <4>2. i \in Int /\ j \in Int
          BY <3>2
        <4> QED BY <4>1, <4>2
      <3>8. Queued'
        BY <3>6, <3>7 DEF Queued
      <3>9. \A u \in Tasks \ {t} : at'[u] = at[u] \/ (at[u] = "queued" /\ at'[u] = "woken")
        BY <3>3, <3>4
      <3>10. getters' \in Seq(Tasks)
        BY <3>1, <3>2
      <3> QED BY <3>4, <3>8, <3>9, <3>10
    <2> QED BY <2>1, <2>2
  <1>3. Holders' = Holders \ {t} /\ t \in Holders /\ Running' = Running
    BY <1>2 DEF Holders, Holding, Running
  <1>4. Conserved'
    <2>1. Cardinality(Holders') = Cardinality(Holders) - 1 /\ Cardinality(Running') = Cardinality(Running)
      BY <1>3, Sizes, OneLess
    <2>2. free \in Nat /\ Cardinality(Holders) \in Nat /\ free + Cardinality(Holders) = Size
      BY Sizes DEF Conserved, Typed
    <2>3. free' + Cardinality(Holders') = Size
      BY <1>1, <2>1, <2>2
    <2> QED BY <2>1, <2>3 DEF Conserved
  <1>5. owner' \in SameRow \cup {None}
    BY <1>1 DEF Typed
  <1>6. free' \in Nat
    BY <1>1 DEF Typed
  <1> QED BY <1>2, <1>4, <1>5, <1>6

\* A task goes from one stage to another, and nobody waits less or more.
LEMMA MoveKeeps ==
    ASSUME Typed, Queued, NEW t \in Tasks, NEW stage \in Stages \ {"queued"},
           at' = [at EXCEPT ![t] = stage], UNCHANGED getters, at[t] # "queued"
    PROVE  /\ at' \in [Tasks -> Stages] /\ Queued'
           /\ at'[t] = stage /\ \A u \in Tasks \ {t} : at'[u] = at[u]
           /\ (at[t] \in Holding <=> stage \in Holding) => Holders' = Holders
           /\ (at[t] = "running" <=> stage = "running") => Running' = Running
  <1>1. /\ at' \in [Tasks -> Stages]
        /\ at'[t] = stage /\ \A u \in Tasks \ {t} : at'[u] = at[u]
    BY DEF Typed
  <1>2. \A i \in 1..Len(getters) : getters[i] \in Tasks \ {t}
    BY ElementOfSeq DEF Typed, Queued
  <1>3. Queued'
    BY <1>1, <1>2 DEF Queued
  <1> QED BY <1>1, <1>3 DEF Holders, Running

LEMMA MailSizes ==
    /\ IsFiniteSet(Ended) /\ IsFiniteSet(Fallback)
    /\ Cardinality(Ended) \in Nat /\ Cardinality(Fallback) \in Nat
    /\ Cardinality(Ended) <= Cardinality(Mailers) /\ Cardinality(Mailers) \in Nat
  <1>1. Ended \subseteq Mailers /\ Fallback \subseteq Mailers
    BY DEF Ended, Fallback
  <1> QED BY <1>1, FiniteTasks, FS_Subset, FS_CardinalityType

LEMMA TaskKinds ==
    /\ Mailers \subseteq Tasks /\ Chats \subseteq Tasks /\ Loop \in Tasks
    /\ Loop \notin Mailers /\ Loop \notin Chats /\ Mailers \cap Chats = {}
  BY ConnectionsAssumption DEF Tasks

\* No mail is begun, tried or done with.
LEMMA NoNews ==
    ASSUME Sound, NEW t \in Tasks,
           \A u \in Tasks \ {t} : at'[u] = at[u] \/ (at[u] = "queued" /\ at'[u] = "woken"),
           UNCHANGED <<mail, emails>>, at'[t] = "returned" => t \in Chats \cup {Loop},
           t \in Mailers => /\ Letter(at'[t], mail[t])
                            /\ at[t] # "mailing" /\ at'[t] # "mailing"
    PROVE  Kinds' /\ Letters' /\ Accounted'
  <1> USE TaskKinds
  <1>1. ASSUME NEW m \in Mailers
        PROVE  Letter(at'[m], mail'[m]) /\ (at'[m] = "mailing" <=> at[m] = "mailing")
    <2>1. Letter(at[m], mail[m])
      BY DEF Sound, Letters
    <2>2. CASE m = t
      BY <2>2
    <2>3. CASE m # t
      <3>1. m \in Tasks \ {t}
        BY <2>3
      <3>2. at'[m] = at[m] \/ (at[m] = "queued" /\ at'[m] = "woken")
        BY <3>1
      <3> QED BY <2>1, <3>2 DEF Letter
    <2> QED BY <2>2, <2>3
  <1>2. Ended' = Ended
    BY <1>1 DEF Ended
  <1>3. Fallback' = Fallback
    BY <1>2 DEF Fallback
  <1>4. Letters'
    BY <1>1 DEF Letters
  <1>5. Accounted'
    BY <1>2, <1>3 DEF Sound, Accounted
  <1>6. Kinds'
    BY DEF Sound, Kinds
  <1> QED BY <1>4, <1>5, <1>6

LEMMA SoundInit == Init => Sound
  <1> SUFFICES ASSUME Init PROVE Sound
    OBVIOUS
  <1> USE ConnectionsAssumption
  <1>1. Typed
    BY DEF Init, Typed, Stages, MailRecord, NoMail
  <1>2. Queued
    <2>1. Len(getters) = 0
      BY DEF Init
    <2> QED BY <2>1 DEF Queued
  <1>3. Conserved
    <2>1. Holders = {} /\ Running = {}
      BY DEF Init, Holders, Holding, Running
    <2>2. Cardinality(Holders) = 0 /\ Cardinality(Running) = 0
      BY <2>1, FS_EmptySet
    <2> QED BY <2>2 DEF Conserved, Init
  <1>4. Letters
    BY TaskKinds DEF Init, Letters, Letter, NoMail
  <1>5. Accounted
    <2>1. Ended = {} /\ Fallback = {}
      BY DEF Init, Ended, Fallback, NoMail
    <2>2. Cardinality(Ended) = 0 /\ Cardinality(Fallback) = 0
      BY <2>1, FS_EmptySet
    <2> QED BY <2>1, <2>2 DEF Accounted, Init
  <1>6. Kinds
    BY DEF Init, Kinds
  <1> QED BY <1>1, <1>2, <1>3, <1>4, <1>5, <1>6 DEF Sound

\* A chat moves without its connection.
LEMMA Moved ==
    ASSUME Sound, NEW c \in Chats, NEW stage \in {"running", "returned", "done"},
           at[c] \in {"released", "running"},
           at' = [at EXCEPT ![c] = stage], UNCHANGED <<lap, free, getters, owner, mail, emails>>,
           slots' \in Nat, slots' + Cardinality(Running') = MaxConcurrent
    PROVE  Sound'
  <1> USE TaskKinds
  <1>1. Typed /\ Queued /\ Conserved /\ stage \in Stages \ {"queued"} /\ at[c] # "queued"
    BY DEF Sound, Stages
  <1>2. /\ at' \in [Tasks -> Stages] /\ Queued' /\ at'[c] = stage
        /\ \A u \in Tasks \ {c} : at'[u] = at[u]
        /\ (at[c] \in Holding <=> stage \in Holding) => Holders' = Holders
    BY <1>1, MoveKeeps
  <1>3. Conserved'
    <2>1. Holders' = Holders
      BY <1>2 DEF Holding
    <2> QED BY <1>1, <2>1 DEF Conserved
  <1>4. Kinds' /\ Letters' /\ Accounted'
    BY <1>2, NoNews
  <1> QED BY <1>1, <1>2, <1>3, <1>4 DEF Sound, Typed

LEMMA SlotKept ==
    ASSUME Sound, NEW c \in Chats, at[c] = "released", at' = [at EXCEPT ![c] = "done"],
           UNCHANGED <<lap, free, getters, owner, slots, mail, emails>>
    PROVE  Sound'
  <1>1. Running' = Running
    BY TaskKinds DEF Sound, Typed, Running
  <1>2. slots' \in Nat /\ slots' + Cardinality(Running') = MaxConcurrent
    BY <1>1 DEF Sound, Typed, Conserved
  <1> QED BY <1>2, Moved

LEMMA SlotTaken ==
    ASSUME Sound, NEW c \in Chats, at[c] = "released", at' = [at EXCEPT ![c] = "running"],
           slots # 0, slots' = slots - 1, UNCHANGED <<lap, free, getters, owner, mail, emails>>
    PROVE  Sound'
  <1>1. Running' = Running \cup {c} /\ c \notin Running
    BY TaskKinds DEF Sound, Typed, Running
  <1>2. Cardinality(Running') = Cardinality(Running) + 1 /\ Cardinality(Running) \in Nat
    BY <1>1, Sizes, OneMore
  <1>3. slots' \in Nat /\ slots' + Cardinality(Running') = MaxConcurrent
    BY <1>2 DEF Sound, Typed, Conserved
  <1> QED BY <1>3, Moved

LEMMA SlotGiven ==
    ASSUME Sound, NEW c \in Chats, at[c] = "running",
           \E stage \in {"returned", "done"} : at' = [at EXCEPT ![c] = stage],
           slots' = slots + 1, UNCHANGED <<lap, free, getters, owner, mail, emails>>
    PROVE  Sound'
  <1>1. PICK stage \in {"returned", "done"} : at' = [at EXCEPT ![c] = stage]
    OBVIOUS
  <1>2. Running' = Running \ {c} /\ c \in Running
    BY <1>1, TaskKinds DEF Sound, Typed, Running
  <1>3. Cardinality(Running') = Cardinality(Running) - 1 /\ Cardinality(Running) \in Nat
    BY <1>2, Sizes, OneLess
  <1>4. slots' \in Nat /\ slots' + Cardinality(Running') = MaxConcurrent
    BY <1>3 DEF Sound, Typed, Conserved
  <1> QED BY <1>1, <1>4, Moved

\* What holds of a mailer's step whatever becomes of the mail.
LEMMA MailMoved ==
    ASSUME Sound, NEW m \in Mailers, at[m] \in {"using", "mailing"},
           NEW stage \in {"mailing", "mailed"}, at' = [at EXCEPT ![m] = stage],
           NEW r \in MailRecord, mail' = [mail EXCEPT ![m] = r], Letter(stage, r),
           emails' \in [success : Nat, failure : Nat],
           UNCHANGED <<lap, free, getters, owner, slots>>
    PROVE  /\ Typed' /\ Queued' /\ Conserved' /\ Kinds' /\ Letters'
           /\ m \notin Ended /\ at'[m] = stage /\ mail'[m] = r
           /\ \A n \in Mailers \ {m} : at'[n] = at[n] /\ mail'[n] = mail[n]
  <1> USE TaskKinds
  <1>1. Typed /\ Queued /\ Conserved /\ stage \in Stages \ {"queued"} /\ at[m] # "queued"
    BY DEF Sound, Stages
  <1>2. /\ at' \in [Tasks -> Stages] /\ Queued' /\ at'[m] = stage
        /\ \A u \in Tasks \ {m} : at'[u] = at[u]
        /\ (at[m] \in Holding <=> stage \in Holding) => Holders' = Holders
        /\ (at[m] = "running" <=> stage = "running") => Running' = Running
    BY <1>1, MoveKeeps
  <1>3. Conserved'
    <2>1. Holders' = Holders /\ Running' = Running
      BY <1>2 DEF Holding
    <2> QED BY <1>1, <2>1 DEF Conserved
  <1>4. /\ mail' \in [Mailers -> MailRecord] /\ mail'[m] = r
        /\ \A n \in Mailers \ {m} : mail'[n] = mail[n]
    BY <1>1 DEF Typed
  <1>5. \A n \in Mailers \ {m} : at'[n] = at[n]
    BY <1>2
  <1>6. Letters'
    BY <1>2, <1>4, <1>5 DEF Sound, Letters
  <1>7. Kinds'
    BY <1>2 DEF Sound, Kinds
  <1>8. m \notin Ended
    <2>1. Letter(at[m], mail[m]) /\ mail[m] \in MailRecord
      BY DEF Sound, Letters, Typed
    <2> QED BY <2>1 DEF Letter, Ended, MailRecord
  <1>9. Typed'
    BY <1>1, <1>2, <1>4 DEF Typed
  <1> QED BY <1>2, <1>3, <1>4, <1>5, <1>6, <1>7, <1>8, <1>9

\* The mail is not over.
LEMMA MailGoesOn ==
    ASSUME Sound, NEW m \in Mailers, at[m] \in {"using", "mailing"},
           at' = [at EXCEPT ![m] = "mailing"],
           NEW r \in MailRecord, mail' = [mail EXCEPT ![m] = r], Letter("mailing", r),
           UNCHANGED <<lap, free, getters, owner, slots, emails>>
    PROVE  Sound'
  <1>1. /\ Typed' /\ Queued' /\ Conserved' /\ Kinds' /\ Letters'
        /\ m \notin Ended /\ at'[m] = "mailing" /\ mail'[m] = r
        /\ \A n \in Mailers \ {m} : at'[n] = at[n] /\ mail'[n] = mail[n]
    <2>1. emails' \in [success : Nat, failure : Nat]
      BY DEF Sound, Typed
    <2> QED BY <2>1, MailMoved
  <1>2. Ended' = Ended
    BY <1>1 DEF Ended
  <1>3. \A n \in Ended : mail'[n] = mail[n]
    BY <1>1 DEF Ended
  <1>4. Fallback' = Fallback
    BY <1>2, <1>3 DEF Fallback
  <1>5. Accounted'
    BY <1>2, <1>3, <1>4 DEF Sound, Accounted
  <1> QED BY <1>1, <1>5 DEF Sound

\* The mail is over: taken by the server or printed.
LEMMA MailEnds ==
    ASSUME Sound, NEW m \in Mailers, at[m] \in {"using", "mailing"},
           at' = [at EXCEPT ![m] = "mailed"],
           NEW r \in MailRecord, mail' = [mail EXCEPT ![m] = r], Letter("mailed", r),
           r.tries > 0 \/ r.console, r.copies > 0 \/ r.console,
           emails' = IF r.tries > 0 /\ r.console THEN [emails EXCEPT !.failure = @ + 1]
                                                ELSE [emails EXCEPT !.success = @ + 1],
           UNCHANGED <<lap, free, getters, owner, slots>>
    PROVE  Sound'
  <1>0. emails \in [success : Nat, failure : Nat]
    BY DEF Sound, Typed
  <1>1. /\ Typed' /\ Queued' /\ Conserved' /\ Kinds' /\ Letters'
        /\ m \notin Ended /\ at'[m] = "mailed" /\ mail'[m] = r
        /\ \A n \in Mailers \ {m} : at'[n] = at[n] /\ mail'[n] = mail[n]
    <2>1. emails' \in [success : Nat, failure : Nat]
      BY <1>0
    <2> QED BY <2>1, MailMoved
  <1>2. Ended' = Ended \cup {m}
    BY <1>1 DEF Ended
  <1>3. \A n \in Ended : mail'[n] = mail[n]
    BY <1>1 DEF Ended
  <1>4. Fallback' = (IF r.tries > 0 /\ r.console THEN Fallback \cup {m} ELSE Fallback)
    BY <1>1, <1>2, <1>3 DEF Fallback
  <1>5. m \notin Fallback
    BY <1>1 DEF Fallback
  <1>6. /\ Cardinality(Ended') = Cardinality(Ended) + 1 /\ Cardinality(Ended) \in Nat
        /\ Cardinality(Fallback \cup {m}) = Cardinality(Fallback) + 1 /\ Cardinality(Fallback) \in Nat
    BY <1>1, <1>2, <1>5, MailSizes, OneMore
  <1>7. /\ emails.success + emails.failure = Cardinality(Ended)
        /\ emails.failure = Cardinality(Fallback)
        /\ \A n \in Ended : mail[n].copies > 0 \/ mail[n].console
    BY DEF Sound, Accounted
  <1>8. /\ emails'.success + emails'.failure = Cardinality(Ended')
        /\ emails'.failure = Cardinality(Fallback')
    <2>1. CASE r.tries > 0 /\ r.console
      <3>1. emails'.failure = emails.failure + 1 /\ emails'.success = emails.success
        BY <1>0, <2>1
      <3>2. Fallback' = Fallback \cup {m}
        BY <1>4, <2>1
      <3> QED BY <1>0, <1>6, <1>7, <3>1, <3>2
    <2>2. CASE ~(r.tries > 0 /\ r.console)
      <3>1. emails'.success = emails.success + 1 /\ emails'.failure = emails.failure
        BY <1>0, <2>2
      <3>2. Fallback' = Fallback
        BY <1>4, <2>2
      <3> QED BY <1>0, <1>6, <1>7, <3>1, <3>2
    <2> QED BY <2>1, <2>2
  <1>9. \A n \in Ended' : mail'[n].copies > 0 \/ mail'[n].console
    BY <1>1, <1>2, <1>3, <1>7
  <1>10. Accounted'
    BY <1>8, <1>9 DEF Accounted
  <1> QED BY <1>1, <1>10 DEF Sound

\* A mail record after an attempt.
LEMMA Tried ==
    ASSUME NEW f \in [Mailers -> MailRecord], NEW m \in Mailers, NEW k \in Nat, NEW b \in BOOLEAN
    PROVE  [f EXCEPT ![m].tries = @ + 1, ![m].copies = @ + k, ![m].console = b]
              = [f EXCEPT ![m] = [tries |-> f[m].tries + 1, copies |-> f[m].copies + k, console |-> b]]
  <1> DEFINE x == f[m]
             y == [tries |-> x.tries + 1, copies |-> x.copies + k, console |-> b]
             g == [f EXCEPT ![m] = [x EXCEPT !.tries = @ + 1]]
             h == [g EXCEPT ![m] = [g[m] EXCEPT !.copies = @ + k]]
             e == [h EXCEPT ![m] = [h[m] EXCEPT !.console = b]]
  <1>1. x = [tries |-> x.tries, copies |-> x.copies, console |-> x.console]
    BY DEF MailRecord
  <1>2. g[m] = [tries |-> x.tries + 1, copies |-> x.copies, console |-> x.console]
    BY <1>1
  <1>3. h[m] = [tries |-> x.tries + 1, copies |-> x.copies + k, console |-> x.console]
    BY <1>2
  <1>4. e[m] = y
    BY <1>3
  <1>5. e = [f EXCEPT ![m] = y]
    BY <1>4
  <1> QED BY <1>5

LEMMA SoundStep == Sound /\ [Next]_vars => Sound'
  <1> SUFFICES ASSUME Sound, [Next]_vars PROVE Sound'
    OBVIOUS
  <1> USE TaskKinds
  <1>0. /\ Typed /\ Queued /\ Conserved /\ Kinds /\ Letters /\ Accounted
        /\ \A m \in Mailers : Letter(at[m], mail[m]) /\ mail[m] \in MailRecord
    BY DEF Sound, Letters, Typed
  <1>1. ASSUME NEW t \in Tasks, Ask(t) \/ AskAgain(t) \/ Wake(t) PROVE Sound'
    <2>1. /\ Get(t) /\ at[t] \in {"asleep", "woken", "returned"}
          /\ UNCHANGED <<owner, slots, mail, emails>>
      BY <1>1 DEF Ask, AskAgain, Wake
    <2>2. lap' \subseteq Chats \cup {Loop}
      <3>1. CASE AskAgain(t)
        <4>1. t \in Chats \cup {Loop} /\ lap' = lap \cup {t}
          BY <1>0, <3>1 DEF AskAgain, Kinds
        <4> QED BY <1>0, <4>1 DEF Typed
      <3>2. CASE Ask(t) \/ Wake(t)
        BY <1>0, <3>2 DEF Ask, Wake, Typed
      <3> QED BY <1>1, <3>1, <3>2
    <2>3. /\ at' \in [Tasks -> Stages] /\ free' \in Nat /\ getters' \in Seq(Tasks)
          /\ Queued' /\ Conserved'
          /\ at'[t] \in {"using", "queued"} /\ \A u \in Tasks \ {t} : at'[u] = at[u]
      BY <1>0, <2>1, GetKeeps
    <2>4. t \in Mailers => Letter(at'[t], mail[t]) /\ at[t] # "mailing" /\ at'[t] # "mailing"
      BY <1>0, <2>1, <2>3 DEF Letter
    <2>5. Kinds' /\ Letters' /\ Accounted'
      BY <2>1, <2>3, <2>4, NoNews
    <2> QED BY <1>0, <2>1, <2>2, <2>3, <2>5 DEF Sound, Typed
  <1>2. ASSUME NEW t \in Tasks, TimeOut(t) PROVE Sound'
    <2> DEFINE stage == IF t = Loop THEN Onward(t) ELSE "done"
    <2>1. /\ at[t] = "queued" /\ at' = [at EXCEPT ![t] = stage]
          /\ lap' \subseteq lap
          /\ UNCHANGED <<free, owner, slots, mail, emails>>
      BY <1>2 DEF TimeOut
    <2>2. PICK i \in 1..Len(getters) : getters[i] = t /\ getters' = RemoveAt(getters, i)
      BY <1>0, <1>2, LenProperties DEF TimeOut, Typed
    <2>3. stage \in {"asleep", "returned", "done"} /\ (stage = "returned" => t = Loop)
          /\ (t # Loop => stage = "done")
      BY DEF Onward
    <2> HIDE DEF stage
    <2>4. /\ at' \in [Tasks -> Stages] /\ at'[t] = stage
          /\ \A u \in Tasks \ {t} : at'[u] = at[u]
      BY <1>0, <2>1, <2>3 DEF Typed, Stages
    <2>5. /\ getters' \in Seq(Tasks) /\ Len(getters') = Len(getters) - 1
          /\ \A j \in 1..(Len(getters) - 1) : getters'[j] = IF j < i THEN getters[j] ELSE getters[j + 1]
          /\ Len(getters) \in Nat
      <3>1. getters \in Seq(Tasks)
        BY <1>0 DEF Typed
      <3>2. Len(getters) \in Nat
        BY <3>1
      <3> QED BY <2>2, <3>1, <3>2, Removed
    <2>6. ASSUME NEW j \in 1..Len(getters')
          PROVE  \E k \in 1..Len(getters) :
                    k = (IF j < i THEN j ELSE j + 1) /\ k # i /\ getters'[j] = getters[k]
      BY <2>2, <2>5
    <2>7. ASSUME NEW j \in 1..Len(getters') PROVE at'[getters'[j]] = "queued"
      <3>1. PICK k \in 1..Len(getters) : k # i /\ getters'[j] = getters[k]
        BY <2>6
      <3>2. getters[k] # t /\ getters[k] \in Tasks /\ at[getters[k]] = "queued"
        BY <1>0, <2>2, <3>1, ElementOfSeq DEF Queued, Typed
      <3> QED BY <2>4, <3>1, <3>2
    <2>8. ASSUME NEW j \in 1..Len(getters'), NEW k \in 1..Len(getters'), getters'[j] = getters'[k]
          PROVE  j = k
      <3>1. (IF j < i THEN j ELSE j + 1) = (IF k < i THEN k ELSE k + 1)
        BY <1>0, <2>6, <2>8 DEF Queued
      <3>2. i \in Int /\ j \in Int /\ k \in Int
        BY <2>5
      <3> QED BY <3>1, <3>2
    <2>9. Queued'
      BY <2>7, <2>8 DEF Queued
    <2>10. Holders' = Holders /\ Running' = Running
      BY <2>1, <2>3, <2>4 DEF Holders, Holding, Running
    <2>11. Conserved'
      BY <1>0, <2>1, <2>10 DEF Conserved
    <2>12. t \in Mailers => Letter(at'[t], mail[t]) /\ at[t] # "mailing" /\ at'[t] # "mailing"
      BY <1>0, <2>1, <2>3, <2>4 DEF Letter
    <2>13. Kinds' /\ Letters' /\ Accounted'
      BY <2>1, <2>3, <2>4, <2>12, NoNews
    <2> QED BY <1>0, <2>1, <2>4, <2>5, <2>9, <2>11, <2>13 DEF Sound, Typed
  <1>3. ASSUME NEW t \in Tasks, WriteRow(t) PROVE Sound'
    <2>1. /\ owner' \in SameRow \cup {None} /\ UNCHANGED <<at, lap, free, getters, slots, mail, emails>>
      BY <1>3 DEF WriteRow
    <2> QED BY <1>0, <2>1 DEF Sound, Typed, Queued, Conserved, Kinds, Letters, Accounted, Holders,
               Running, Ended, Fallback
  \* A connection comes back.
  <1>4. ASSUME NEW t \in Tasks, NEW stage \in {"asleep", "returned", "released", "done"},
               Put(t, stage), at[t] \in {"using", "called", "mailed"},
               stage = "returned" => t \in Chats \cup {Loop}, t \in Mailers => stage = "done",
               lap' \subseteq lap, UNCHANGED <<slots, mail, emails>>
        PROVE  Sound'
    <2>1. stage \in Stages /\ stage \notin Holding \cup {"queued", "running"} /\ at[t] \in Holding
      BY <1>4 DEF Stages, Holding
    <2>2. /\ at' \in [Tasks -> Stages] /\ free' \in Nat /\ getters' \in Seq(Tasks)
          /\ owner' \in SameRow \cup {None} /\ Queued' /\ Conserved'
          /\ at'[t] = stage
          /\ \A u \in Tasks \ {t} : at'[u] = at[u] \/ (at[u] = "queued" /\ at'[u] = "woken")
      BY <1>0, <1>4, <2>1, PutKeeps
    <2>3. t \in Mailers => Letter(at'[t], mail[t]) /\ at[t] # "mailing" /\ at'[t] # "mailing"
      BY <1>0, <1>4, <2>2 DEF Letter
    <2>4. Kinds' /\ Letters' /\ Accounted'
      BY <1>4, <2>2, <2>3, NoNews
    <2> QED BY <1>0, <1>4, <2>2, <2>4 DEF Sound, Typed
  <1>5. ASSUME NEW t \in Tasks, Finish(t) PROVE Sound'
    <2>1. /\ at[t] \in {"using", "called"} /\ Put(t, Onward(t)) /\ lap' \subseteq lap
          /\ UNCHANGED <<slots, mail, emails>>
      BY <1>5 DEF Finish, Written
    <2>2. PICK stage \in {"asleep", "returned", "released", "done"} :
               /\ stage = Onward(t) /\ (stage = "returned" => t = Loop)
               /\ t \in Mailers => stage = "done"
      BY DEF Onward
    <2> QED BY <1>4, <2>1, <2>2
  <1>6. ASSUME NEW c \in Chats, CloseSession(c) PROVE Sound'
    <2>1. /\ at[c] \in {"using", "called"} /\ c \in Tasks /\ c \notin Mailers
          /\ lap' \subseteq lap /\ UNCHANGED <<slots, mail, emails>>
      BY <1>6 DEF CloseSession, Written
    <2>2. CASE Put(c, "released")
      BY <1>4, <2>1, <2>2
    <2>3. CASE Put(c, "done")
      BY <1>4, <2>1, <2>3
    <2> QED BY <1>6, <2>2, <2>3 DEF CloseSession
  <1>7. ASSUME NEW m \in Mailers, CommitMail(m) PROVE Sound'
    BY <1>4, <1>7 DEF CommitMail
  <1>8. ASSUME NEW m \in Mailers, BeginMail(m) PROVE Sound'
    <2>1. at[m] = "using" /\ UNCHANGED <<lap, free, getters, owner, slots>>
      BY <1>0, <1>8 DEF BeginMail, Written, Letter
    <2>2. mail[m].tries = 0 /\ mail[m].copies = 0 /\ ~mail[m].console
      BY <1>0, <2>1 DEF Letter
    <2>3. CASE at' = [at EXCEPT ![m] = "mailing"] /\ UNCHANGED <<mail, emails>>
      <3>1. Letter("mailing", mail[m]) /\ mail' = [mail EXCEPT ![m] = mail[m]]
        BY <1>0, <2>2, <2>3, ConnectionsAssumption DEF Letter, Typed
      <3> QED BY <1>0, <2>1, <2>3, <3>1, MailGoesOn
    <2>4. CASE /\ at' = [at EXCEPT ![m] = "mailed"] /\ Count("success")
               /\ mail' = [mail EXCEPT ![m].console = TRUE]
      <3> DEFINE r == [mail[m] EXCEPT !.console = TRUE]
      <3>1. /\ r \in MailRecord /\ r.tries = 0 /\ r.copies = 0 /\ r.console
            /\ mail' = [mail EXCEPT ![m] = r]
        BY <1>0, <2>2, <2>4 DEF MailRecord
      <3> HIDE DEF r
      <3>2. Letter("mailed", r)
        BY <3>1 DEF Letter
      <3>3. emails' = [emails EXCEPT !.success = @ + 1]
        BY <2>4 DEF Count
      <3>4. emails' = IF r.tries > 0 /\ r.console THEN [emails EXCEPT !.failure = @ + 1]
                                                  ELSE [emails EXCEPT !.success = @ + 1]
        BY <3>1, <3>3
      <3>5. (r.tries > 0 \/ r.console) /\ (r.copies > 0 \/ r.console)
        BY <3>1
      <3> QED BY <2>1, <2>4, <3>1, <3>2, <3>4, <3>5, MailEnds
    <2> QED BY <1>8, <2>3, <2>4 DEF BeginMail
  <1>9. ASSUME NEW m \in Mailers, Accepted(m) PROVE Sound'
    <2>1. /\ at[m] = "mailing" /\ at' = [at EXCEPT ![m] = "mailed"]
          /\ UNCHANGED <<lap, free, getters, owner, slots>>
      BY <1>9 DEF Accepted
    <2>2. /\ mail[m].tries \in Nat /\ mail[m].tries < Attempts /\ ~mail[m].console
          /\ mail[m].copies \in Nat /\ mail[m].copies <= mail[m].tries
      BY <1>0, <2>1 DEF Letter, MailRecord
    <2> DEFINE r == [tries |-> mail[m].tries + 1, copies |-> mail[m].copies + 1, console |-> FALSE]
    <2>3. r.tries = mail[m].tries + 1 /\ r.copies = mail[m].copies + 1 /\ ~r.console /\ r \in MailRecord
      <3>1. mail[m].tries + 1 \in 0..Attempts /\ mail[m].copies + 1 \in 0..Attempts
        BY <2>2, ConnectionsAssumption
      <3> QED BY <3>1 DEF MailRecord
    <2>4. mail' = [mail EXCEPT ![m] = r]
      BY <1>0, <1>9, <2>2 DEF Accepted, Typed, MailRecord
    <2> HIDE DEF r
    <2>5. Letter("mailed", r) /\ r.tries > 0 /\ r.copies > 0
      BY <2>2, <2>3 DEF Letter
    <2>6. emails' = [emails EXCEPT !.success = @ + 1]
      BY <1>9 DEF Accepted, Count
    <2> QED BY <2>1, <2>3, <2>4, <2>5, <2>6, MailEnds
  <1>10. ASSUME NEW m \in Mailers, Fails(m) PROVE Sound'
    <2> DEFINE last == mail[m].tries + 1 = Attempts
    <2>1. /\ at[m] = "mailing" /\ UNCHANGED <<lap, free, getters, owner, slots>>
          /\ IF last THEN /\ at' = [at EXCEPT ![m] = "mailed"] /\ Count("failure")
                     ELSE UNCHANGED <<at, emails>>
      BY <1>10 DEF Fails
    <2>2. PICK taken \in {0, 1} :
             mail' = [mail EXCEPT ![m].tries = @ + 1, ![m].copies = @ + taken, ![m].console = last]
      BY <1>10 DEF Fails
    <2>3. /\ mail[m].tries \in Nat /\ mail[m].tries < Attempts /\ ~mail[m].console
          /\ mail[m].copies \in Nat /\ mail[m].copies <= mail[m].tries
      BY <1>0, <2>1 DEF Letter, MailRecord
    <2>4. mail[m].tries + 1 \in 0..Attempts /\ mail[m].copies + taken \in 0..Attempts
      BY <2>3, ConnectionsAssumption
    <2>6. CASE last
      <3> DEFINE r == [tries |-> mail[m].tries + 1, copies |-> mail[m].copies + taken, console |-> TRUE]
      <3>1. /\ r \in MailRecord /\ r.tries = mail[m].tries + 1 /\ r.copies = mail[m].copies + taken
            /\ r.console
        BY <2>4 DEF MailRecord
      <3>2. mail' = [mail EXCEPT ![m] = r]
        <4>1. last = TRUE
          BY <2>6
        <4> HIDE DEF last
        <4>2. mail' = [mail EXCEPT ![m].tries = @ + 1, ![m].copies = @ + taken, ![m].console = TRUE]
          BY <2>2, <4>1, Zenon
        <4>3. taken \in Nat /\ TRUE \in BOOLEAN /\ mail \in [Mailers -> MailRecord]
          BY <1>0 DEF Typed
        <4>4. [mail EXCEPT ![m].tries = @ + 1, ![m].copies = @ + taken, ![m].console = TRUE]
                 = [mail EXCEPT ![m] = r]
          <5>1. \A f \in [Mailers -> MailRecord], k \in Nat, b \in BOOLEAN :
                   [f EXCEPT ![m].tries = @ + 1, ![m].copies = @ + k, ![m].console = b]
                      = [f EXCEPT ![m] = [tries |-> f[m].tries + 1, copies |-> f[m].copies + k, console |-> b]]
            BY Tried
          <5> QED BY <4>3, <5>1
        <4> QED BY <4>2, <4>4, Zenon
      <3> HIDE DEF r
      <3>3. Letter("mailed", r) /\ r.tries > 0
        BY <2>3, <3>1 DEF Letter
      <3>4. emails' = [emails EXCEPT !.failure = @ + 1] /\ at' = [at EXCEPT ![m] = "mailed"]
        BY <2>1, <2>6 DEF Count
      <3>5. emails' = IF r.tries > 0 /\ r.console THEN [emails EXCEPT !.failure = @ + 1]
                                                  ELSE [emails EXCEPT !.success = @ + 1]
        BY <3>1, <3>3, <3>4
      <3>6. (r.tries > 0 \/ r.console) /\ (r.copies > 0 \/ r.console)
        BY <3>1
      <3> QED BY <2>1, <3>1, <3>2, <3>3, <3>4, <3>5, <3>6, MailEnds
    <2>7. CASE ~last
      <3> DEFINE r == [tries |-> mail[m].tries + 1, copies |-> mail[m].copies + taken, console |-> FALSE]
      <3>1. /\ r \in MailRecord /\ r.tries = mail[m].tries + 1 /\ r.copies = mail[m].copies + taken
            /\ ~r.console
        BY <2>4 DEF MailRecord
      <3>2. mail' = [mail EXCEPT ![m] = r]
        <4>1. last = FALSE
          BY <2>7
        <4> HIDE DEF last
        <4>2. mail' = [mail EXCEPT ![m].tries = @ + 1, ![m].copies = @ + taken, ![m].console = FALSE]
          BY <2>2, <4>1, Zenon
        <4>3. taken \in Nat /\ FALSE \in BOOLEAN /\ mail \in [Mailers -> MailRecord]
          BY <1>0 DEF Typed
        <4>4. [mail EXCEPT ![m].tries = @ + 1, ![m].copies = @ + taken, ![m].console = FALSE]
                 = [mail EXCEPT ![m] = r]
          <5>1. \A f \in [Mailers -> MailRecord], k \in Nat, b \in BOOLEAN :
                   [f EXCEPT ![m].tries = @ + 1, ![m].copies = @ + k, ![m].console = b]
                      = [f EXCEPT ![m] = [tries |-> f[m].tries + 1, copies |-> f[m].copies + k, console |-> b]]
            BY Tried
          <5> QED BY <4>3, <5>1
        <4> QED BY <4>2, <4>4, Zenon
      <3> HIDE DEF r
      <3>3. r.tries < Attempts
        BY <2>3, <2>7, <3>1, ConnectionsAssumption
      <3>4. Letter("mailing", r)
        BY <2>3, <3>1, <3>3 DEF Letter
      <3>5. at' = [at EXCEPT ![m] = "mailing"] /\ UNCHANGED emails
        BY <1>0, <2>1, <2>7 DEF Typed
      <3> QED BY <2>1, <3>1, <3>2, <3>4, <3>5, MailGoesOn
    <2> QED BY <2>6, <2>7
  <1>11. ASSUME NEW c \in Chats, Enter(c) PROVE Sound'
    <2>1. at[c] = "released" /\ UNCHANGED <<lap, free, getters, owner, mail, emails>>
      BY <1>11 DEF Enter
    <2>2. CASE slots = 0 /\ at' = [at EXCEPT ![c] = "done"] /\ slots' = slots
      BY <2>1, <2>2, SlotKept
    <2>3. CASE slots # 0 /\ at' = [at EXCEPT ![c] = "running"] /\ slots' = slots - 1
      BY <2>1, <2>3, SlotTaken
    <2> QED BY <1>11, <2>2, <2>3 DEF Enter
  <1>12. ASSUME NEW c \in Chats, Leave(c) PROVE Sound'
    BY <1>12, SlotGiven DEF Leave
  <1>13. ASSUME UNCHANGED vars PROVE Sound'
    BY <1>0, <1>13 DEF vars, Sound, Typed, Queued, Conserved, Kinds, Letters, Accounted, Holders,
          Running, Ended, Fallback
  <1>14. ASSUME NEW t \in Tasks, NEW before \in {"using", "calling"}, NEW stage \in {"calling", "called"},
                at[t] = before, t \notin Mailers, at' = [at EXCEPT ![t] = stage],
                UNCHANGED <<lap, free, getters, owner, slots, mail, emails>>
         PROVE  Sound'
    <2>1. /\ stage \in Stages \ {"queued"} /\ stage \in Holding /\ before \in Holding
          /\ before \notin {"queued", "running"} /\ stage \notin {"running", "returned"}
      BY DEF Stages, Holding
    <2>2. /\ at' \in [Tasks -> Stages] /\ Queued'
          /\ at'[t] = stage /\ \A u \in Tasks \ {t} : at'[u] = at[u]
          /\ Holders' = Holders /\ Running' = Running
      BY <1>0, <1>14, <2>1, MoveKeeps
    <2>3. Kinds' /\ Letters' /\ Accounted'
      BY <1>14, <2>1, <2>2, NoNews
    <2> QED BY <1>0, <1>14, <2>2, <2>3 DEF Sound, Typed, Conserved
  <1>15. ASSUME NEW t \in Tasks, Call(t) PROVE Sound'
    BY <1>14, <1>15, ConnectionsAssumption DEF Call
  <1>16. ASSUME NEW t \in Tasks, Answer(t) PROVE Sound'
    <2>1. t \notin Mailers
      BY <1>0, <1>16 DEF Answer, Letter
    <2> QED BY <1>14, <1>16, <2>1 DEF Answer
  <1>17. ASSUME NEW t \in Tasks, Steps(t) \/ Others(t) PROVE Sound'
    BY <1>1, <1>3, <1>5, <1>6, <1>7, <1>8, <1>9, <1>10, <1>11, <1>12, <1>17, <1>15, <1>16
       DEF Steps, Others
  <1>18. ASSUME Next PROVE Sound'
    BY <1>1, <1>2, <1>17, <1>18 DEF Next
  <1> QED BY <1>13, <1>18

THEOREM Soundness == Spec => []Sound
  BY SoundInit, SoundStep, PTL DEF Spec

-----------------------------------------------------------------------------
\* The pool never has more connections to give than it has, the semaphore no more
\* slots, and a mail is neither tried nor counted too often (database.py,
\* inference_service.py, email_service.py).
THEOREM TypeCorrect == Spec => []TypeOK
  <1>1. Sound => TypeOK
    <2> SUFFICES ASSUME Sound PROVE TypeOK
      OBVIOUS
    <2>1. Typed /\ Conserved /\ Accounted
      BY DEF Sound
    <2>2. free \in 0..Size /\ slots \in 0..MaxConcurrent
      BY <2>1, Sizes, ConnectionsAssumption DEF Typed, Conserved
    <2>3. emails \in [success : 0..Cardinality(Mailers), failure : 0..Cardinality(Mailers)]
      <3>1. /\ emails.success + emails.failure <= Cardinality(Mailers)
            /\ Cardinality(Mailers) \in Nat
        BY <2>1, MailSizes DEF Accounted
      <3> QED BY <2>1, <3>1 DEF Typed
    <2> QED BY <2>1, <2>2, <2>3 DEF Typed, TypeOK, MailRecord
  <1> QED BY <1>1, Soundness, PTL

\* A code that was to be mailed is accepted by a server or printed on the console,
\* and counted once, as a failure when the console stood in: whatever servers do
\* and however many requests mail at once (send_otp_verification_email,
\* send_password_reset_email).
THEOREM MailsAccounted == Spec => []MailAccounted
  <1>1. Sound => MailAccounted
    BY DEF Sound, Accounted, Ended, Fallback, MailAccounted
  <1> QED BY <1>1, Soundness, PTL
=============================================================================
