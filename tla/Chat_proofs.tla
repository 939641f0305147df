---------------------------- MODULE Chat_proofs ----------------------------
(***************************************************************************)
(* For every number of handlers and of mishaps: the types, whose row an    *)
(* answer is saved in, and that a tab in which nothing went wrong shows    *)
(* the table.                                                              *)
(***************************************************************************)
EXTENDS Chat, FiniteSetTheorems, SequenceTheorems, TLAPS

\* What messages, handlers and rows are like when ids up to n were given out
Parts == {"user", "assistant"}
UpTo(n) == [role : Parts, id : 0..n, text : 0..Error]
Handlers(n) == [stage : Stages, keep : Nat, id : 0..n, got : BOOLEAN,
                seen : BOOLEAN, count : 0..n, doomed : SUBSET Nat]
Records(n) == [id : 1..n, pos : Nat, by : Flows, role : Parts, text : 0..MaxFlows]

\* A handler that has come to a stage.
Flow(stage, keep, id) == [NoFlow EXCEPT !.stage = stage, !.keep = keep, !.id = id]

TypeInv ==
    /\ view \in Seq(UpTo(made)) /\ streaming \in BOOLEAN
    /\ loading \in [asked : BOOLEAN, answer : Seq(Seq(UpTo(made)))]
    /\ Len(loading.answer) <= 1 /\ (~loading.asked => loading.answer = <<>>)
    /\ flow \in [Flows -> Handlers(made)]
    /\ begun \in 0..MaxFlows /\ made \in Nat /\ mishaps \in 0..MaxMishaps
    /\ \A f \in Flows :
         /\ f > begun => flow[f].stage = "none"
         /\ flow[f].stage = "done" => flow[f] = Flow("done", 0, 0)
    /\ Saved \subseteq 1..made
    /\ \A m \in Saved : rows[m] \in Records(made) /\ rows[m].id = m
    /\ tx \in [put : Seq(Records(made)), doomed : SUBSET Nat] /\ Len(tx.put) <= 1
    /\ streaming => \E f \in Flows : flow[f].stage \in {"stream", "patchAnswer"}

\* Handlers that may yet save an answer, and those that may save a prompt too
Owing == {f \in Flows : flow[f].stage \in {"patchUser", "delete", "saveUser", "saveAnswer"}}
Asking == {f \in Flows : flow[f].stage = "saveUser"}
\* A handler gives out two ids at most.
Allotted == made + Cardinality(Owing) + Cardinality(Asking) <= 2 * begun

LEMMA StageNames ==
    /\ "none" \in Stages /\ "done" \in Stages /\ "stream" \in Stages
    /\ "saveUser" \in Stages /\ "saveAnswer" \in Stages /\ "patchUser" \in Stages
    /\ "delete" \in Stages /\ "patchAnswer" \in Stages
  BY DEF Stages, Calls

LEMMA NoFlowIs ==
    /\ NoFlow.stage = "none" /\ NoFlow.keep = 0 /\ NoFlow.id = 0 /\ NoFlow.got = FALSE
    /\ NoFlow.seen = FALSE /\ NoFlow.count = 0 /\ NoFlow.doomed = {}
    /\ \A n \in Nat : NoFlow \in Handlers(n)
  BY StageNames DEF NoFlow, Handlers

LEMMA FlowIs ==
    ASSUME NEW stage, NEW keep, NEW id
    PROVE  /\ Flow(stage, keep, id).stage = stage
           /\ Flow(stage, keep, id).keep = keep
           /\ Flow(stage, keep, id).id = id
           /\ ~Flow(stage, keep, id).got /\ ~Flow(stage, keep, id).seen
  <1>1. NoFlow.got = FALSE /\ NoFlow.seen = FALSE /\ NoFlow \in Handlers(0)
    BY NoFlowIs
  <1> QED BY <1>1 DEF Flow, Handlers

LEMMA FlowFits ==
    ASSUME NEW n \in Nat, NEW stage \in Stages, NEW keep \in Nat, NEW id \in 0..n
    PROVE  Flow(stage, keep, id) \in Handlers(n)
  <1>1. NoFlow \in Handlers(n)
    BY NoFlowIs
  <1> QED BY <1>1 DEF Flow, Handlers

\* A handler that is done leaves no trace.
LEMMA Finished ==
    ASSUME NEW n \in Nat, NEW x \in Handlers(n), x.stage = "done"
    PROVE  x = Flow("done", 0, 0) => x = [NoFlow EXCEPT !.stage = "done"]
  <1> DEFINE y == [NoFlow EXCEPT !.stage = "done"]
  <1>1. NoFlow \in Handlers(n)
    BY NoFlowIs
  <1>2. y \in Handlers(n)
    BY <1>1, StageNames DEF Handlers
  <1>3. /\ y.stage = "done" /\ y.keep = 0 /\ y.id = 0
        /\ y.got = FALSE /\ y.seen = FALSE /\ y.count = 0 /\ y.doomed = {}
    BY <1>1, NoFlowIs DEF Handlers
  <1> HIDE DEF y
  <1>4. ASSUME x = Flow("done", 0, 0)
        PROVE  /\ y.stage = x.stage /\ y.keep = x.keep /\ y.id = x.id
               /\ y.got = x.got /\ y.seen = x.seen /\ y.count = x.count /\ y.doomed = x.doomed
    <2>1. /\ x.stage = "done" /\ x.keep = 0 /\ x.id = 0
          /\ x.got = FALSE /\ x.seen = FALSE /\ x.count = 0 /\ x.doomed = {}
      BY <1>1, <1>4, NoFlowIs DEF Flow, Handlers
    <2> QED BY <1>3, <2>1
  <1>5. ASSUME x = Flow("done", 0, 0) PROVE x = y
    BY <1>2, <1>4, <1>5 DEF Handlers
  <1> QED BY <1>5 DEF y

LEMMA Grown ==
    ASSUME NEW a \in Nat, NEW b \in Nat, a <= b
    PROVE  /\ UpTo(a) \subseteq UpTo(b) /\ Handlers(a) \subseteq Handlers(b)
           /\ Records(a) \subseteq Records(b)
           /\ \A s \in Seq(UpTo(a)) : s \in Seq(UpTo(b))
           /\ \A s \in Seq(Seq(UpTo(a))) : s \in Seq(Seq(UpTo(b)))
           /\ \A s \in Seq(Records(a)) : s \in Seq(Records(b))
  <1>1. UpTo(a) \subseteq UpTo(b) /\ Handlers(a) \subseteq Handlers(b) /\ Records(a) \subseteq Records(b)
    BY DEF UpTo, Handlers, Records
  <1>2. Seq(UpTo(a)) \subseteq Seq(UpTo(b))
    BY <1>1, SeqMonotonic
  <1>3. \A s \in Seq(Seq(UpTo(a))) : s \in Seq(Seq(UpTo(b)))
    BY <1>2, SeqMonotonic
  <1> QED BY <1>1, <1>2, <1>3, SeqMonotonic

LEMMA InitTypes == Init => TypeInv /\ Allotted
  <1> SUFFICES ASSUME Init PROVE TypeInv /\ Allotted
    OBVIOUS
  <1>1. NoFlow \in Handlers(0) /\ NoFlow.stage = "none"
    BY StageNames DEF NoFlow, Handlers
  <1>2. <<>> \in Seq(UpTo(0)) /\ <<>> \in Seq(Seq(UpTo(0))) /\ <<>> \in Seq(Records(0)) /\ Len(<<>>) = 0
    BY EmptySeq
  <1>3. /\ flow \in [Flows -> Handlers(0)] /\ \A f \in Flows : flow[f].stage = "none"
    BY <1>1 DEF Init
  <1>4. Saved = {}
    BY DEF Init, Saved
  <1>5. loading = [asked |-> FALSE, answer |-> <<>>] /\ tx = [put |-> <<>>, doomed |-> {}]
    BY DEF Init, NotLoading, NoTx
  <1>6. /\ loading \in [asked : BOOLEAN, answer : Seq(Seq(UpTo(made)))]
        /\ Len(loading.answer) <= 1 /\ (~loading.asked => loading.answer = <<>>)
        /\ tx \in [put : Seq(Records(made)), doomed : SUBSET Nat] /\ Len(tx.put) <= 1
    BY <1>2, <1>5 DEF Init
  <1>7. TypeInv
    <2>1. view \in Seq(UpTo(made)) /\ flow \in [Flows -> Handlers(made)] /\ made = 0
      BY <1>2, <1>3 DEF Init
    <2>2. begun \in 0..MaxFlows /\ mishaps \in 0..MaxMishaps /\ streaming = FALSE
      BY ChatAssumption DEF Init
    <2>3. \A f \in Flows : flow[f].stage = "none"
      BY <1>3
    <2> QED BY <1>4, <1>6, <2>1, <2>2, <2>3 DEF TypeInv
  <1>8. Owing = {} /\ Asking = {}
    BY <1>3 DEF Owing, Asking
  <1> QED BY <1>7, <1>8, FS_EmptySet DEF Allotted, Init

\* What a handler at a stage may still save
Owes(s) == s \in {"patchUser", "delete", "saveUser", "saveAnswer"}

LEMMA FlowsAreFinite == IsFiniteSet(Flows)
  BY FS_Interval, ChatAssumption DEF Flows

LEMMA Step ==
    ASSUME NEW S \in SUBSET Flows, NEW T \in SUBSET Flows, NEW f \in Flows,
           \A g \in Flows \ {f} : g \in S <=> g \in T
    PROVE  /\ Cardinality(S) \in Nat /\ Cardinality(T) \in Nat
           /\ f \in S /\ f \in T => Cardinality(T) = Cardinality(S)
           /\ f \in S /\ f \notin T => Cardinality(T) = Cardinality(S) - 1
           /\ f \notin S /\ f \in T => Cardinality(T) = Cardinality(S) + 1
           /\ f \notin S /\ f \notin T => Cardinality(T) = Cardinality(S)
  <1>1. IsFiniteSet(Flows)
    BY FlowsAreFinite
  <1>2. IsFiniteSet(S) /\ IsFiniteSet(T)
    BY <1>1, FS_Subset
  <1>3. Cardinality(S) \in Nat /\ Cardinality(T) \in Nat
    BY <1>2, FS_CardinalityType
  <1>4. CASE f \in S <=> f \in T
    <2>1. S = T
      BY <1>4
    <2> QED BY <1>3, <1>4, <2>1
  <1>5. CASE f \in S /\ f \notin T
    <2>1. T = S \ {f}
      BY <1>5
    <2> QED BY <1>2, <1>3, <1>5, <2>1, FS_RemoveElement
  <1>6. CASE f \notin S /\ f \in T
    <2>1. T = S \cup {f}
      BY <1>6
    <2> QED BY <1>2, <1>3, <1>6, <2>1, FS_AddElement
  <1> QED BY <1>4, <1>5, <1>6

\* A handler goes on to a stage at which it owes no more than it gave out.
LEMMA Allots ==
    ASSUME TypeInv, Allotted, NEW f \in Flows,
           \A g \in Flows \ {f} : flow'[g].stage = flow[g].stage,
           \/ /\ made' = made /\ begun' = begun
              /\ Owes(flow'[f].stage) => Owes(flow[f].stage)
              /\ flow'[f].stage = "saveUser" => flow[f].stage = "saveUser"
           \/ /\ made' = made + 1 /\ begun' = begun
              /\ Owes(flow[f].stage) /\ flow'[f].stage # "saveUser"
              /\ Owes(flow'[f].stage) => flow[f].stage = "saveUser"
           \/ made' = made /\ begun' = begun + 1 /\ flow[f].stage = "none"
    PROVE  Allotted'
  <1>1. /\ \A g \in Flows : g \in Owing <=> Owes(flow[g].stage)
        /\ \A g \in Flows : g \in Owing' <=> Owes(flow'[g].stage)
        /\ \A g \in Flows : g \in Asking <=> flow[g].stage = "saveUser"
        /\ \A g \in Flows : g \in Asking' <=> flow'[g].stage = "saveUser"
        /\ Owing \in SUBSET Flows /\ Owing' \in SUBSET Flows
        /\ Asking \in SUBSET Flows /\ Asking' \in SUBSET Flows
    BY DEF Owing, Asking, Owes
  <1>2. /\ \A g \in Flows \ {f} : g \in Owing <=> g \in Owing'
        /\ \A g \in Flows \ {f} : g \in Asking <=> g \in Asking'
    BY <1>1
  <1>3. /\ Cardinality(Owing) \in Nat /\ Cardinality(Owing') \in Nat
        /\ f \in Owing /\ f \in Owing' => Cardinality(Owing') = Cardinality(Owing)
        /\ f \in Owing /\ f \notin Owing' => Cardinality(Owing') = Cardinality(Owing) - 1
        /\ f \notin Owing /\ f \in Owing' => Cardinality(Owing') = Cardinality(Owing) + 1
        /\ f \notin Owing /\ f \notin Owing' => Cardinality(Owing') = Cardinality(Owing)
    BY <1>1, <1>2, Step
  <1>4. /\ Cardinality(Asking) \in Nat /\ Cardinality(Asking') \in Nat
        /\ f \in Asking /\ f \in Asking' => Cardinality(Asking') = Cardinality(Asking)
        /\ f \in Asking /\ f \notin Asking' => Cardinality(Asking') = Cardinality(Asking) - 1
        /\ f \notin Asking /\ f \in Asking' => Cardinality(Asking') = Cardinality(Asking) + 1
        /\ f \notin Asking /\ f \notin Asking' => Cardinality(Asking') = Cardinality(Asking)
    BY <1>1, <1>2, Step
  <1>5. Owes("saveUser") /\ ~Owes("none")
    BY DEF Owes
  <1>6. /\ f \in Asking => f \in Owing
        /\ f \in Asking' => f \in Owing'
    BY <1>1, <1>5
  <1>7. made \in Nat /\ begun \in Nat
    BY DEF TypeInv
  <1> QED BY <1>1, <1>3, <1>4, <1>5, <1>6, <1>7 DEF Allotted

LEMMA Numbering ==
    ASSUME NEW n \in Nat, NEW k \in 0..n, view \in Seq(UpTo(n)), NEW role
    PROVE  /\ Numbered(role, k) \in Seq(UpTo(n)) /\ Len(Numbered(role, k)) = Len(view)
           /\ \A i \in 1..Len(view) :
                /\ Numbered(role, k)[i].role = view[i].role /\ Numbered(role, k)[i].text = view[i].text
                /\ Numbered(role, k)[i].id =
                     IF view[i].role = role /\ view[i].id = 0 THEN k ELSE view[i].id
  <1> DEFINE s == Numbered(role, k)
  <1>1. DOMAIN view = 1..Len(view) /\ Len(view) \in Nat /\ \A i \in 1..Len(view) : view[i] \in UpTo(n)
    BY LenProperties, ElementOfSeq
  <1>2. s = [i \in 1..Len(view) |-> s[i]]
    BY <1>1 DEF Numbered
  <1>3. ASSUME NEW i \in 1..Len(view)
        PROVE  /\ s[i] \in UpTo(n) /\ s[i].role = view[i].role /\ s[i].text = view[i].text
               /\ s[i].id = IF view[i].role = role /\ view[i].id = 0 THEN k ELSE view[i].id
    <2>1. view[i] \in UpTo(n)
      BY <1>1
    <2>2. s[i] = IF view[i].role = role /\ view[i].id = 0 THEN [view[i] EXCEPT !.id = k] ELSE view[i]
      BY <1>1 DEF Numbered
    <2> HIDE DEF s
    <2> QED BY <2>1, <2>2 DEF UpTo
  <1> HIDE DEF s
  <1>4. s \in Seq(UpTo(n)) /\ Len(s) = Len(view)
    BY <1>1, <1>2, <1>3
  <1> QED BY <1>3, <1>4 DEF s

\* The view of Restart
Truncated(k) == Append(SubSeq(view, 1, Min({k, Len(view)})), Message("assistant", 0, 0))

LEMMA Lesser ==
    ASSUME NEW a \in Nat, NEW b \in Nat
    PROVE  Min({a, b}) = IF a <= b THEN a ELSE b
  <1> DEFINE c == IF a <= b THEN a ELSE b
  <1>1. c \in {a, b} /\ \A y \in {a, b} : c <= y
    OBVIOUS
  <1>2. \A x \in {a, b} : (\A y \in {a, b} : x <= y) => x = c
    OBVIOUS
  <1> QED BY <1>1, <1>2 DEF Min

LEMMA Truncating ==
    ASSUME NEW n \in Nat, NEW k \in Nat, view \in Seq(UpTo(n))
    PROVE  LET c == IF k <= Len(view) THEN k ELSE Len(view) IN
           /\ Truncated(k) \in Seq(UpTo(n)) /\ Len(Truncated(k)) = c + 1 /\ c \in 0..Len(view)
           /\ \A i \in 1..c : Truncated(k)[i] = view[i]
           /\ Truncated(k)[c + 1] = Message("assistant", 0, 0)
  <1> DEFINE c == IF k <= Len(view) THEN k ELSE Len(view)
             s == SubSeq(view, 1, c)
             m == Message("assistant", 0, 0)
  <1>1. Len(view) \in Nat /\ \A i \in 1..Len(view) : view[i] \in UpTo(n)
    BY LenProperties, ElementOfSeq
  <1>2. c \in 0..Len(view) /\ Min({k, Len(view)}) = c
    BY <1>1, Lesser
  <1> HIDE DEF c
  <1>3. s \in Seq(UpTo(n)) /\ Len(s) = c /\ \A i \in 1..c : s[i] = view[i]
    BY <1>1, <1>2
  <1>4. m \in UpTo(n)
    BY ChatAssumption DEF Message, UpTo, Parts, Error
  <1> HIDE DEF s, m
  <1>5. Truncated(k) = Append(s, m)
    BY <1>2 DEF Truncated, s, m
  <1>6. /\ Append(s, m) \in Seq(UpTo(n)) /\ Len(Append(s, m)) = c + 1
        /\ \A i \in 1..c : Append(s, m)[i] = s[i]
        /\ Append(s, m)[c + 1] = m
    BY <1>2, <1>3, <1>4
  <1>7. /\ Truncated(k) \in Seq(UpTo(n)) /\ Len(Truncated(k)) = c + 1 /\ c \in 0..Len(view)
        /\ \A i \in 1..c : Truncated(k)[i] = view[i]
        /\ Truncated(k)[c + 1] = m
    BY <1>2, <1>3, <1>5, <1>6
  <1> QED BY <1>7 DEF c, m

LEMMA Mishaps ==
    ASSUME TypeInv, NEW c, MishapIf(c) \/ Mishap \/ UNCHANGED mishaps
    PROVE  mishaps' \in 0..MaxMishaps /\ (mishaps' = 0 => UNCHANGED mishaps /\ ~Mishap)
           /\ (MishapIf(c) /\ mishaps' = 0 => ~c)
  <1>1. mishaps \in 0..MaxMishaps /\ MaxMishaps \in Nat
    BY ChatAssumption DEF TypeInv
  <1>2. Mishap => mishaps' \in 0..MaxMishaps /\ mishaps' # 0
    BY <1>1 DEF Mishap
  <1>3. MishapIf(c) => Mishap \/ (~c /\ UNCHANGED mishaps)
    BY DEF MishapIf
  <1> QED BY <1>1, <1>2, <1>3

Streams == {"stream", "patchAnswer"}

\* A step of the handler f, which becomes x, keeps the types.
LEMMA TypesStay ==
    ASSUME TypeInv, NEW f \in Flows, NEW x \in Handlers(made'), flow' = [flow EXCEPT ![f] = x],
           made' \in Nat, made <= made', begun' \in Nat, begun <= begun', begun' <= MaxFlows, f <= begun',
           x.stage = "done" => x = Flow("done", 0, 0),
           view' \in Seq(UpTo(made')), mishaps' \in 0..MaxMishaps, UNCHANGED <<loading, rows>>,
           tx' \in [put : Seq(Records(made')), doomed : SUBSET Nat], Len(tx'.put) <= 1,
           streaming' \in BOOLEAN,
           streaming' => x.stage \in Streams \/ (streaming /\ flow[f].stage \notin Streams)
    PROVE  TypeInv'
  <1>1. /\ made \in Nat /\ begun \in Nat /\ flow \in [Flows -> Handlers(made)]
        /\ Flows \subseteq Nat
    BY DEF TypeInv, Flows
  <1>2. flow' \in [Flows -> Handlers(made')] /\ flow'[f] = x /\ \A g \in Flows \ {f} : flow'[g] = flow[g]
    <2>1. Handlers(made) \subseteq Handlers(made')
      BY <1>1, Grown
    <2> QED BY <1>1, <2>1
  <1>3. \A g \in Flows : /\ g > begun' => flow'[g].stage = "none"
                         /\ flow'[g].stage = "done" => flow'[g] = Flow("done", 0, 0)
    <2> SUFFICES ASSUME NEW g \in Flows
                 PROVE  /\ g > begun' => flow'[g].stage = "none"
                        /\ flow'[g].stage = "done" => flow'[g] = Flow("done", 0, 0)
      OBVIOUS
    <2>1. CASE g = f
      BY <1>1, <1>2, <2>1
    <2>2. CASE g # f
      BY <1>1, <1>2, <2>2 DEF TypeInv
    <2> QED BY <2>1, <2>2
  <1>4. loading' \in [asked : BOOLEAN, answer : Seq(Seq(UpTo(made')))]
    <2>1. /\ loading \in [asked : BOOLEAN, answer : Seq(Seq(UpTo(made)))]
          /\ \A s \in Seq(Seq(UpTo(made))) : s \in Seq(Seq(UpTo(made')))
      BY <1>1, Grown DEF TypeInv
    <2> QED BY <2>1
  <1>5. Saved' \subseteq 1..made' /\ \A m \in Saved' : rows'[m] \in Records(made') /\ rows'[m].id = m
    <2>1. Records(made) \subseteq Records(made')
      BY <1>1, Grown
    <2>2. Saved \subseteq 1..made /\ \A m \in Saved : rows[m] \in Records(made) /\ rows[m].id = m
      BY DEF TypeInv
    <2> QED BY <1>1, <2>1, <2>2 DEF Saved
  <1>6. streaming' => \E g \in Flows : flow'[g].stage \in {"stream", "patchAnswer"}
    <2>1. streaming => \E g \in Flows : flow[g].stage \in {"stream", "patchAnswer"}
      BY DEF TypeInv
    <2> QED BY <1>2, <2>1 DEF Streams
  <1>7. Len(loading'.answer) <= 1 /\ (~loading'.asked => loading'.answer = <<>>)
    BY DEF TypeInv
  <1>8. begun' \in 0..MaxFlows
    BY ChatAssumption
  <1> QED BY <1>2, <1>3, <1>4, <1>5, <1>6, <1>7, <1>8 DEF TypeInv

\* What Resume makes of the handler f.
Resumed(f, id, x) ==
    CASE flow[f].stage = "saveUser" -> x = Flow("saveAnswer", 0, 0)
      [] flow[f].stage = "patchUser" ->
            \/ /\ Len(view) > flow[f].keep /\ view[flow[f].keep + 1].id # 0
               /\ x = Flow("delete", flow[f].keep, view[flow[f].keep + 1].id)
            \/ x = Flow("saveAnswer", 0, 0)
      [] flow[f].stage = "delete" -> x = Flow("saveAnswer", 0, 0)
      [] flow[f].stage = "saveAnswer" -> x = Flow("stream", 0, id)
      [] OTHER -> x = Flow("done", 0, 0)

ResumesTo(f, id, n, x) ==
    /\ Resumed(f, id, x) /\ flow' = [flow EXCEPT ![f] = x]
    /\ x.stage = "done" => x = Flow("done", 0, 0)
    /\ x.stage \notin {"saveUser", "none"} /\ (Owes(x.stage) => Owes(flow[f].stage))
    /\ flow[f].stage = "saveAnswer" => ~Owes(x.stage)
    /\ view' \in Seq(UpTo(n)) /\ streaming' \in BOOLEAN
    /\ streaming' => x.stage \in Streams \/ (streaming /\ flow[f].stage \notin Streams)

LEMMA ResumeIs ==
    ASSUME TypeInv, NEW f \in Flows, flow[f].stage \in Calls, NEW n \in Nat, made <= n,
           NEW id \in 0..n, Resume(f, id)
    PROVE  \E x \in Handlers(n) : ResumesTo(f, id, n, x)
  <1>1. /\ flow \in [Flows -> Handlers(made)] /\ view \in Seq(UpTo(n)) /\ streaming \in BOOLEAN
        /\ made \in Nat
    BY Grown DEF TypeInv
  <1>2. flow[f].keep \in Nat
    BY <1>1 DEF Handlers
  <1> DEFINE k == flow[f].keep
  <1>3. CASE Restart(f) /\ flow[f].stage \in {"patchUser", "delete"}
    <2> DEFINE x == Flow("saveAnswer", 0, 0)
    <2>1. x \in Handlers(n) /\ x.stage = "saveAnswer"
      BY FlowIs, FlowFits, StageNames
    <2>2. flow' = [flow EXCEPT ![f] = x] /\ view' = Truncated(k) /\ streaming' = streaming
      BY <1>3 DEF Restart, To, Flow, Truncated
    <2>3. view' \in Seq(UpTo(n))
      BY <1>1, <1>2, <2>2, Truncating
    <2>4. Resumed(f, id, x)
      BY <1>3 DEF Resumed
    <2> HIDE DEF x
    <2>5. ResumesTo(f, id, n, x)
      BY <1>1, <1>3, <2>1, <2>2, <2>3, <2>4 DEF ResumesTo, Owes, Streams
    <2> QED BY <2>1, <2>5
  <1>4. CASE flow[f].stage = "saveUser"
    <2> DEFINE x == Flow("saveAnswer", 0, 0)
    <2>1. x \in Handlers(n) /\ x.stage = "saveAnswer"
      BY FlowIs, FlowFits, StageNames
    <2>2. /\ flow' = [flow EXCEPT ![f] = x] /\ streaming' = streaming
          /\ view' = view \/ view' = Numbered("user", id)
      BY <1>4 DEF Resume, To, Flow
    <2>3. view' \in Seq(UpTo(n))
      BY <1>1, <2>2, Numbering
    <2>4. Resumed(f, id, x)
      BY <1>4 DEF Resumed
    <2> HIDE DEF x
    <2>5. ResumesTo(f, id, n, x)
      BY <1>1, <1>4, <2>1, <2>2, <2>3, <2>4 DEF ResumesTo, Owes, Streams
    <2> QED BY <2>1, <2>5
  <1>5. CASE flow[f].stage = "saveAnswer"
    <2> DEFINE x == Flow("stream", 0, id)
    <2>1. x \in Handlers(n) /\ x.stage = "stream"
      BY FlowIs, FlowFits, StageNames
    <2>2. /\ flow' = [flow EXCEPT ![f] = x] /\ streaming' = TRUE
          /\ view' = view \/ view' = Numbered("assistant", id)
      BY <1>5 DEF Resume, To, Flow
    <2>3. view' \in Seq(UpTo(n))
      BY <1>1, <2>2, Numbering
    <2>4. Resumed(f, id, x)
      BY <1>5 DEF Resumed
    <2> HIDE DEF x
    <2>5. ResumesTo(f, id, n, x)
      BY <1>1, <1>5, <2>1, <2>2, <2>3, <2>4 DEF ResumesTo, Owes, Streams
    <2> QED BY <2>1, <2>5
  <1>6. CASE flow[f].stage = "patchAnswer"
    <2> DEFINE x == Flow("done", 0, 0)
    <2>1. x \in Handlers(n) /\ x.stage = "done"
      BY FlowIs, FlowFits, StageNames
    <2>2. flow' = [flow EXCEPT ![f] = x] /\ streaming' = FALSE /\ view' = view
      BY <1>6 DEF Resume, Finish, To, Flow
    <2>3. Resumed(f, id, x) /\ x = Flow("done", 0, 0)
      BY <1>6 DEF Resumed
    <2> HIDE DEF x
    <2>4. ResumesTo(f, id, n, x)
      BY <1>1, <1>6, <2>1, <2>2, <2>3 DEF ResumesTo, Owes, Streams
    <2> QED BY <2>1, <2>4
  <1>7. CASE /\ flow[f].stage = "patchUser" /\ Len(view) > k /\ view[k + 1].id # 0
             /\ To(f, "delete", k, view[k + 1].id) /\ UNCHANGED <<view, streaming>>
    <2> DEFINE i == view[k + 1].id
               x == Flow("delete", k, i)
    <2>1. view[k + 1] \in UpTo(n)
      <3>1. k + 1 \in 1..Len(view)
        BY <1>1, <1>2, <1>7
      <3> QED BY <1>1, <3>1, ElementOfSeq
    <2>2. i \in 0..n /\ k \in Nat
      BY <1>2, <2>1 DEF UpTo
    <2> HIDE DEF i, k
    <2>3. x \in Handlers(n) /\ x.stage = "delete"
      BY <2>2, FlowIs, FlowFits, StageNames
    <2>4. flow' = [flow EXCEPT ![f] = x] /\ streaming' = streaming /\ view' = view
      BY <1>7 DEF To, Flow, i
    <2>5. Resumed(f, id, x)
      BY <1>7 DEF Resumed, i, k
    <2> HIDE DEF x
    <2>6. ResumesTo(f, id, n, x)
      BY <1>1, <1>7, <2>3, <2>4, <2>5 DEF ResumesTo, Owes, Streams
    <2> QED BY <2>3, <2>6
  <1>8. \/ flow[f].stage \in {"saveUser", "saveAnswer", "patchAnswer"}
        \/ flow[f].stage \in {"patchUser", "delete"} /\ Restart(f)
        \/ /\ flow[f].stage = "patchUser" /\ Len(view) > k /\ view[k + 1].id # 0
           /\ To(f, "delete", k, view[k + 1].id) /\ UNCHANGED <<view, streaming>>
    BY DEF Resume, Calls
  <1> QED BY <1>3, <1>4, <1>5, <1>6, <1>7, <1>8

TxFits(t, n) == t \in [put : Seq(Records(n)), doomed : SUBSET Nat] /\ Len(t.put) <= 1

LEMMA ResumeTypes ==
    ASSUME TypeInv, Allotted, NEW f \in Flows, flow[f].stage \in Calls, NEW id \in 0..made', Resume(f, id),
           mishaps' \in 0..MaxMishaps, UNCHANGED <<loading, begun, rows>>, TxFits(tx', made'),
           made' = made \/ (made' = made + 1 /\ Saves(f))
    PROVE  TypeInv' /\ Allotted'
  <1>1. /\ made \in Nat /\ made' \in Nat /\ made <= made' /\ begun \in Nat /\ begun <= MaxFlows
        /\ flow \in [Flows -> Handlers(made)] /\ f \in Nat
    BY DEF TypeInv, Flows
  <1>2. PICK x \in Handlers(made') : ResumesTo(f, id, made', x)
    BY <1>1, ResumeIs
  <1>3. /\ flow' = [flow EXCEPT ![f] = x]
        /\ x.stage = "done" => x = Flow("done", 0, 0)
        /\ x.stage \notin {"saveUser", "none"} /\ (Owes(x.stage) => Owes(flow[f].stage))
        /\ flow[f].stage = "saveAnswer" => ~Owes(x.stage)
        /\ view' \in Seq(UpTo(made')) /\ streaming' \in BOOLEAN
        /\ streaming' => x.stage \in Streams \/ (streaming /\ flow[f].stage \notin Streams)
    BY <1>2 DEF ResumesTo
  <1>4. f <= begun
    <2>1. flow[f].stage # "none"
      BY DEF Calls
    <2> QED BY <1>1, <2>1 DEF TypeInv
  <1>5. TypeInv'
    <2>1. /\ tx' \in [put : Seq(Records(made')), doomed : SUBSET Nat] /\ Len(tx'.put) <= 1
          /\ begun' \in Nat /\ begun <= begun' /\ begun' <= MaxFlows /\ f <= begun'
          /\ UNCHANGED <<loading, rows>>
      BY <1>1, <1>4 DEF TxFits
    <2> QED BY <1>1, <1>3, <2>1, TypesStay
  <1>6. flow'[f] = x /\ \A g \in Flows \ {f} : flow'[g] = flow[g]
    BY <1>1, <1>3
  <1>7. Saves(f) => Owes(flow[f].stage) /\ (Owes(x.stage) => flow[f].stage = "saveUser")
    BY <1>3 DEF Saves, Owes
  <1>8. Allotted'
    BY <1>3, <1>6, <1>7, Allots
  <1> QED BY <1>5, <1>8

LEMMA TxNow == TypeInv => TxFits(tx, made) /\ made \in Nat
  BY DEF TypeInv, TxFits

LEMMA NotFoundTypes ==
    ASSUME TypeInv, Allotted, NEW f \in Flows, NotFound(f) \/ CallFails(f)
    PROVE  TypeInv' /\ Allotted'
  <1>1. /\ flow[f].stage \in Calls /\ Resume(f, 0) /\ UNCHANGED <<loading, begun, rows, made, tx>>
        /\ MishapIf(tx # NoTx) \/ Mishap
    BY DEF NotFound, CallFails
  <1>2. mishaps' \in 0..MaxMishaps
    BY <1>1, Mishaps
  <1>3. TxFits(tx', made') /\ 0 \in 0..made'
    BY <1>1, TxNow
  <1> QED BY <1>1, <1>2, <1>3, ResumeTypes

LEMMA PutFits ==
    ASSUME TypeInv, NEW f \in Flows, flow[f].stage \in Calls, Saves(f) \/ flow[f].id \in Saved
    PROVE  /\ Put(f) \in Records(IF Saves(f) THEN made + 1 ELSE made)
           /\ Saves(f) => /\ Put(f).id = made + 1 /\ Put(f).pos = flow[f].count /\ Put(f).by = f
                          /\ Put(f).role = (IF flow[f].stage = "saveUser" THEN "user" ELSE "assistant")
                          /\ Put(f).text = (IF flow[f].stage = "saveUser" THEN f ELSE 0)
           /\ ~Saves(f) => LET r == rows[flow[f].id] IN
                           /\ Put(f).id = flow[f].id /\ Put(f).pos = r.pos /\ Put(f).by = r.by
                           /\ Put(f).role = r.role /\ Put(f).text = f
  <1>1. /\ flow[f] \in Handlers(made) /\ made \in Nat /\ f \in 0..MaxFlows
        /\ \A m \in Saved : rows[m] \in Records(made) /\ rows[m].id = m
    BY DEF TypeInv, Flows
  <1>2. CASE Saves(f)
    <2> DEFINE role == IF flow[f].stage = "saveUser" THEN "user" ELSE "assistant"
               text == IF flow[f].stage = "saveUser" THEN f ELSE 0
    <2>1. Put(f) = [id |-> made + 1, pos |-> flow[f].count, by |-> f, role |-> role, text |-> text]
      BY <1>2 DEF Put
    <2>2. role \in Parts /\ text \in 0..MaxFlows /\ flow[f].count \in Nat
      BY <1>1, ChatAssumption DEF Parts, Handlers
    <2>3. Put(f).role = role /\ Put(f).text = text
      BY <2>1
    <2>4. Put(f) \in Records(made + 1) /\ Put(f).id = made + 1 /\ Put(f).pos = flow[f].count /\ Put(f).by = f
      <3> HIDE DEF role, text
      <3> QED BY <1>1, <2>1, <2>2 DEF Records
    <2> QED BY <1>2, <2>3, <2>4
  <1>3. CASE ~Saves(f)
    <2> DEFINE r == rows[flow[f].id]
    <2>1. Put(f) = [r EXCEPT !.text = f] /\ r \in Records(made) /\ r.id = flow[f].id
      BY <1>1, <1>3 DEF Put
    <2> HIDE DEF r
    <2>2. /\ Put(f) \in Records(made) /\ Put(f).id = r.id /\ Put(f).pos = r.pos /\ Put(f).by = r.by
          /\ Put(f).role = r.role /\ Put(f).text = f
      BY <1>1, <2>1 DEF Records
    <2> QED BY <1>3, <2>1, <2>2 DEF r
  <1> QED BY <1>2, <1>3

LEMMA WriteTypes ==
    ASSUME TypeInv, Allotted, NEW f \in Flows, Write(f)
    PROVE  TypeInv' /\ Allotted'
  <1>1. flow[f].stage \in Calls /\ made \in Nat /\ UNCHANGED <<loading, begun, rows>>
    BY DEF Write, TypeInv
  <1>2. mishaps' \in 0..MaxMishaps
    BY Mishaps DEF Write
  <1>3. CASE flow[f].stage = "delete"
    <2>1. tx' = [put |-> <<>>, doomed |-> flow[f].doomed] /\ made' = made /\ ~Saves(f)
      BY <1>3 DEF Write, Saves
    <2>2. flow[f].doomed \in SUBSET Nat
      BY DEF TypeInv, Handlers
    <2>3. TxFits(tx', made')
      <3>1. <<>> \in Seq(Records(made)) /\ Len(<<>>) = 0
        BY EmptySeq
      <3> QED BY <2>1, <2>2, <3>1 DEF TxFits
    <2>4. Resume(f, 0) /\ 0 \in 0..made'
      BY <1>1, <2>1 DEF Write
    <2> QED BY <1>1, <1>2, <2>1, <2>3, <2>4, ResumeTypes
  <1>4. CASE flow[f].stage # "delete"
    <2>1. /\ Saves(f) \/ flow[f].id \in Saved
          /\ tx' = [put |-> <<Put(f)>>, doomed |-> {}]
          /\ made' = IF Saves(f) THEN made + 1 ELSE made
          /\ Resume(f, IF Saves(f) THEN made + 1 ELSE 0) \/ Resume(f, 0)
      BY <1>4 DEF Write
    <2>2. Put(f) \in Records(made')
      BY <1>1, <2>1, PutFits
    <2>3. TxFits(tx', made')
      <3>1. <<Put(f)>> \in Seq(Records(made')) /\ Len(<<Put(f)>>) = 1
        BY <2>2
      <3> QED BY <2>1, <3>1 DEF TxFits
    <2>4. PICK id \in 0..made' : Resume(f, id)
      BY <1>1, <2>1
    <2>5. made' = made \/ (made' = made + 1 /\ Saves(f))
      BY <2>1
    <2> QED BY <1>1, <1>2, <2>3, <2>4, <2>5, ResumeTypes
  <1> QED BY <1>3, <1>4

LEMMA BeginTypes ==
    ASSUME TypeInv, Allotted, NEW f \in Flows, NEW stage \in Stages \ {"none", "done"}, NEW keep \in Nat,
           NEW id \in 0..made, Begin(f, stage, keep, id), view' \in Seq(UpTo(made))
    PROVE  TypeInv' /\ Allotted' /\ flow' = [flow EXCEPT ![f] = Flow(stage, keep, id)]
  <1> DEFINE x == Flow(stage, keep, id)
  <1>1. /\ made \in Nat /\ f = begun + 1 /\ begun \in 0..MaxFlows /\ f \in 1..MaxFlows /\ MaxFlows \in Nat
        /\ begun' = f /\ UNCHANGED <<streaming, loading, rows, made, tx>> /\ flow' = [flow EXCEPT ![f] = x]
        /\ flow \in [Flows -> Handlers(made)] /\ streaming = FALSE
    BY ChatAssumption DEF Begin, TypeInv, Flow, Flows
  <1>2. x \in Handlers(made) /\ x.stage = stage
    BY <1>1, FlowIs, FlowFits
  <1>3. mishaps' \in 0..MaxMishaps
    BY Mishaps DEF Begin
  <1>4. TxFits(tx', made')
    BY <1>1, TxNow
  <1> HIDE DEF x
  <1>5. TypeInv'
    <2>1. /\ tx' \in [put : Seq(Records(made')), doomed : SUBSET Nat] /\ Len(tx'.put) <= 1
          /\ begun' \in Nat /\ begun <= begun' /\ begun' <= MaxFlows /\ f <= begun'
          /\ made' = made /\ made <= made' /\ streaming' = FALSE
          /\ UNCHANGED <<loading, rows>>
      BY <1>1, <1>4 DEF TxFits
    <2> QED BY <1>1, <1>2, <1>3, <2>1, TypesStay
  <1>6. flow[f].stage = "none"
    BY <1>1 DEF TypeInv
  <1>7. \A g \in Flows \ {f} : flow'[g].stage = flow[g].stage
    BY <1>1
  <1>8. Allotted'
    BY <1>1, <1>6, <1>7, Allots
  <1> QED BY <1>1, <1>5, <1>8 DEF x

LEMMA ViewIs ==
    TypeInv => /\ made \in Nat /\ Len(view) \in Nat /\ DOMAIN view = 1..Len(view)
               /\ \A i \in 1..Len(view) : view[i] \in UpTo(made)
               /\ \A f \in Flows : f \in 1..MaxFlows /\ f \in 0..Error
               /\ MaxFlows \in Nat /\ Error \in Nat
  <1>1. MaxFlows \in Nat /\ Error \in Nat /\ \A f \in Flows : f \in 1..MaxFlows /\ f \in 0..Error
    BY ChatAssumption DEF Flows, Error
  <1>2. TypeInv => made \in Nat /\ view \in Seq(UpTo(made))
    BY DEF TypeInv
  <1> QED BY <1>1, <1>2, LenProperties, ElementOfSeq

\* What the tab shows when a handler begins
Unsaved(m, role, text) == m.role = role /\ m.id = 0 /\ m.text = text

LEMMA EditIs ==
    ASSUME TypeInv, NEW f \in Flows, NEW i \in DOMAIN view, BeginEdit(f, i)
    PROVE  /\ i \in 1..Len(view) /\ Len(view') = Len(view) /\ view' \in Seq(UpTo(made)) /\ view[i].id \in 0..made
           /\ \A j \in 1..Len(view) : /\ view'[j].id = view[j].id /\ view'[j].role = view[j].role
                                      /\ view'[j].text = IF j = i THEN f ELSE view[j].text
  <1>1. i \in 1..Len(view) /\ view[i] \in UpTo(made) /\ view \in Seq(UpTo(made))
    BY ViewIs DEF TypeInv
  <1> DEFINE m == [view[i] EXCEPT !.text = f]
  <1>2. m \in UpTo(made) /\ m.id = view[i].id /\ m.role = view[i].role /\ m.text = f
    BY <1>1, ViewIs DEF UpTo
  <1>3. view' = [view EXCEPT ![i] = m]
    BY DEF BeginEdit
  <1> HIDE DEF m
  <1>4. /\ view' \in Seq(UpTo(made)) /\ Len(view') = Len(view)
        /\ \A j \in 1..Len(view) : view'[j] = IF j = i THEN m ELSE view[j]
    BY <1>1, <1>2, <1>3, ExceptSeq
  <1>5. view[i].id \in 0..made
    BY <1>1 DEF UpTo
  <1> QED BY <1>1, <1>2, <1>4, <1>5

LEMMA SendIs ==
    ASSUME TypeInv, NEW f \in Flows, BeginSend(f)
    PROVE  /\ view' \in Seq(UpTo(made)) /\ Len(view') = Len(view) + 2
           /\ \A i \in 1..Len(view) : view'[i] = view[i]
           /\ Unsaved(view'[Len(view) + 1], "user", f) /\ Unsaved(view'[Len(view) + 2], "assistant", 0)
  <1> DEFINE u == Message("user", 0, f)
             a == Message("assistant", 0, 0)
             n == Len(view)
  <1>1. u \in UpTo(made) /\ a \in UpTo(made) /\ Unsaved(u, "user", f) /\ Unsaved(a, "assistant", 0) /\ n \in Nat
    BY ViewIs DEF Message, UpTo, Parts, Unsaved
  <1> HIDE DEF u, a
  <1>2. <<u, a>> \in Seq(UpTo(made)) /\ view \in Seq(UpTo(made)) /\ Len(<<u, a>>) = 2
        /\ <<u, a>>[1] = u /\ <<u, a>>[2] = a
    BY <1>1 DEF TypeInv
  <1>3. view' = view \o <<u, a>>
    BY DEF BeginSend, u, a
  <1>4. /\ view' \in Seq(UpTo(made)) /\ Len(view') = n + 2
        /\ \A i \in 1..(n + 2) : view'[i] = IF i <= n THEN view[i] ELSE <<u, a>>[i - n]
    BY <1>2, <1>3, ConcatProperties
  <1> HIDE DEF n
  <1>5. view'[n + 1] = u /\ view'[n + 2] = a
    <2>1. n + 1 \in 1..(n + 2) /\ n + 2 \in 1..(n + 2)
          /\ ~(n + 1 <= n) /\ ~(n + 2 <= n) /\ (n + 1) - n = 1 /\ (n + 2) - n = 2
      BY <1>1
    <2> QED BY <1>2, <1>4, <2>1
  <1>6. \A i \in 1..n : view'[i] = view[i]
    <2>1. \A i \in 1..n : i \in 1..(n + 2) /\ i <= n
      BY <1>1
    <2> QED BY <1>4, <2>1
  <1> QED BY <1>1, <1>4, <1>5, <1>6 DEF n

LEMMA BeginsTypes ==
    ASSUME TypeInv, Allotted, NEW f \in Flows,
           BeginSend(f) \/ \E i \in DOMAIN view : BeginEdit(f, i) \/ BeginRetry(f, i)
    PROVE  TypeInv' /\ Allotted'
  <1>1. CASE BeginSend(f)
    <2>1. view' \in Seq(UpTo(made)) /\ Begin(f, "saveUser", 0, 0)
      BY <1>1, SendIs DEF BeginSend
    <2> QED BY <2>1, BeginTypes, StageNames, ViewIs
  <1>2. ASSUME NEW i \in DOMAIN view, BeginEdit(f, i) PROVE TypeInv' /\ Allotted'
    <2>1. i \in 1..Len(view) /\ view[i].id \in 0..made /\ view' \in Seq(UpTo(made))
      BY <1>2, EditIs
    <2>2. Begin(f, "patchUser", i, view[i].id) /\ i \in Nat
      BY <1>2, <2>1 DEF BeginEdit
    <2> QED BY <2>1, <2>2, BeginTypes, StageNames
  <1>3. ASSUME NEW i \in DOMAIN view, BeginRetry(f, i) PROVE TypeInv' /\ Allotted'
    <2>1. i \in 1..Len(view) /\ view[i] \in UpTo(made) /\ i - 1 \in Nat
      BY <1>3, ViewIs
    <2>2. view[i].id \in 0..made
      BY <2>1 DEF UpTo
    <2>3. view' \in Seq(UpTo(made)) /\ Begin(f, "delete", i - 1, view[i].id)
      BY <1>3 DEF BeginRetry, TypeInv
    <2> QED BY <2>1, <2>2, <2>3, BeginTypes, StageNames
  <1> QED BY <1>1, <1>2, <1>3

LEMMA Counting ==
    ASSUME TypeInv
    PROVE  IsFiniteSet(Saved) /\ Cardinality(Saved) \in 0..made /\ Saved \subseteq Nat
  <1>1. Saved \subseteq 1..made /\ made \in Nat
    BY DEF TypeInv
  <1>2. IsFiniteSet(1..made) /\ Cardinality(1..made) = made
    BY <1>1, FS_Interval
  <1>3. IsFiniteSet(Saved) /\ Cardinality(Saved) <= made
    BY <1>1, <1>2, FS_Subset
  <1>4. Cardinality(Saved) \in Nat
    BY <1>3, FS_CardinalityType
  <1> QED BY <1>1, <1>3, <1>4

\* What Look makes of the handler f.
Looked(f, x) ==
    /\ x.stage = flow[f].stage /\ x.keep = flow[f].keep /\ x.id = flow[f].id /\ x.got = flow[f].got
    /\ x.seen = TRUE /\ x.count = Cardinality(Saved)
    /\ x.doomed = IF flow[f].stage = "delete" THEN Doomed(flow[f].id) ELSE {}

LEMMA LookIs ==
    ASSUME TypeInv, NEW f \in Flows, Look(f)
    PROVE  \E x \in Handlers(made) : Looked(f, x) /\ flow' = [flow EXCEPT ![f] = x]
  <1> DEFINE y == flow[f]
             c == Cardinality(Saved)
             d == IF flow[f].stage = "delete" THEN Doomed(flow[f].id) ELSE {}
             x == [y EXCEPT !.seen = TRUE, !.count = c, !.doomed = d]
  <1>1. y \in Handlers(made) /\ flow \in [Flows -> Handlers(made)]
    BY DEF TypeInv
  <1>2. c \in 0..made /\ d \in SUBSET Nat
    BY Counting DEF Doomed
  <1>3. flow' = [flow EXCEPT ![f] = x]
    BY <1>1 DEF Look
  <1> HIDE DEF c, d, y
  <1>4. /\ x \in Handlers(made)
        /\ x.stage = y.stage /\ x.keep = y.keep /\ x.id = y.id /\ x.got = y.got
        /\ x.seen = TRUE /\ x.count = c /\ x.doomed = d
    BY <1>1, <1>2 DEF Handlers
  <1> HIDE DEF x
  <1>5. Looked(f, x)
    BY <1>4 DEF Looked, c, d, y
  <1> QED BY <1>3, <1>4, <1>5

\* A step of the handler f that gives out no id and begins nothing
LEMMA ShowTypes ==
    ASSUME TypeInv, Allotted, NEW f \in Flows, NEW x \in Handlers(made), flow' = [flow EXCEPT ![f] = x],
           flow[f].stage \notin {"none", "done"}, x.stage # "none", x.stage = "done" => x = Flow("done", 0, 0),
           x.stage = flow[f].stage \/ ~Owes(x.stage),
           view' \in Seq(UpTo(made)), mishaps' \in 0..MaxMishaps,
           UNCHANGED <<loading, begun, rows, made, tx>>, streaming' \in BOOLEAN,
           streaming' => x.stage \in Streams \/ (streaming /\ flow[f].stage \notin Streams)
    PROVE  TypeInv' /\ Allotted'
  <1>1. /\ made \in Nat /\ begun \in Nat /\ begun <= MaxFlows /\ f \in Nat
        /\ flow \in [Flows -> Handlers(made)]
    BY DEF TypeInv, Flows
  <1>2. f <= begun
    BY <1>1 DEF TypeInv
  <1>3. TypeInv'
    <2>1. /\ tx' \in [put : Seq(Records(made')), doomed : SUBSET Nat] /\ Len(tx'.put) <= 1
          /\ begun' \in Nat /\ begun <= begun' /\ begun' <= MaxFlows /\ f <= begun'
          /\ made' = made /\ made <= made' /\ UNCHANGED <<loading, rows>>
      BY <1>1, <1>2, TxNow DEF TxFits
    <2> QED BY <1>1, <2>1, TypesStay
  <1>4. flow'[f] = x /\ \A g \in Flows \ {f} : flow'[g].stage = flow[g].stage
    BY <1>1
  <1>5. x.stage = "saveUser" => flow[f].stage = "saveUser"
    BY DEF Owes
  <1>6. Allotted'
    <2>1. made' = made /\ begun' = begun
      OBVIOUS
    <2>2. Owes(x.stage) => Owes(flow[f].stage)
      OBVIOUS
    <2> QED BY <1>4, <1>5, <2>1, <2>2, Allots
  <1> QED BY <1>3, <1>6

LEMMA LookTypes ==
    ASSUME TypeInv, Allotted, NEW f \in Flows, Look(f)
    PROVE  TypeInv' /\ Allotted'
  <1>1. PICK x \in Handlers(made) : Looked(f, x) /\ flow' = [flow EXCEPT ![f] = x]
    BY LookIs
  <1>2. /\ flow[f].stage \in Calls /\ x.stage = flow[f].stage
        /\ UNCHANGED <<view, streaming, loading, begun, rows, made, tx>>
    BY <1>1 DEF Look, Looked
  <1>3. mishaps' \in 0..MaxMishaps
    BY Mishaps DEF Look
  <1>4. flow[f].stage \notin {"none", "done"}
    BY <1>2 DEF Calls
  <1>5. view' \in Seq(UpTo(made)) /\ streaming' \in BOOLEAN /\ streaming' = streaming
    BY <1>2 DEF TypeInv
  <1>6. streaming' => x.stage \in Streams \/ (streaming /\ flow[f].stage \notin Streams)
    BY <1>2, <1>5
  <1>7. x.stage # "none" /\ (x.stage = "done" => x = Flow("done", 0, 0))
    BY <1>2, <1>4
  <1> QED BY <1>1, <1>2, <1>3, <1>4, <1>5, <1>6, <1>7, ShowTypes

LEMMA Showing ==
    ASSUME TypeInv, NEW text \in 0..Error
    PROVE  /\ Shown(text) \in Seq(UpTo(made)) /\ Len(Shown(text)) = Len(view)
           /\ \A i \in 1..Len(view) :
                /\ Shown(text)[i].role = view[i].role /\ Shown(text)[i].id = view[i].id
                /\ Shown(text)[i].text =
                     IF i = Len(view) /\ view[i].role = "assistant" THEN text ELSE view[i].text
  <1>1. /\ Len(view) \in Nat /\ (view # <<>> => Len(view) \in 1..Len(view))
        /\ \A i \in 1..Len(view) : view[i] \in UpTo(made)
        /\ view \in Seq(UpTo(made))
    BY ViewIs DEF TypeInv
  <1>2. CASE view # <<>> /\ Last(view).role = "assistant"
    <2> DEFINE n == Len(view)
               m == [view[n] EXCEPT !.text = text]
    <2>1. n \in 1..n /\ view[n].role = "assistant" /\ view[n] \in UpTo(made)
      BY <1>1, <1>2 DEF Last
    <2>2. m \in UpTo(made) /\ m.role = view[n].role /\ m.id = view[n].id /\ m.text = text
      BY <2>1 DEF UpTo
    <2>3. Shown(text) = [view EXCEPT ![n] = m]
      BY <1>2 DEF Shown
    <2> HIDE DEF m
    <2>4. /\ [view EXCEPT ![n] = m] \in Seq(UpTo(made)) /\ Len([view EXCEPT ![n] = m]) = n
          /\ \A j \in 1..n : [view EXCEPT ![n] = m][j] = IF j = n THEN m ELSE view[j]
      BY <1>1, <2>1, <2>2, ExceptSeq
    <2> QED BY <2>1, <2>2, <2>3, <2>4
  <1>3. CASE ~(view # <<>> /\ Last(view).role = "assistant")
    <2>1. Shown(text) = view
      BY <1>3 DEF Shown
    <2>2. \A i \in 1..Len(view) : i = Len(view) => view[i].role # "assistant"
      <3>1. view = <<>> => Len(view) = 0
        BY EmptySeq
      <3> QED BY <1>1, <1>3, <3>1 DEF Last
    <2> QED BY <1>1, <2>1, <2>2
  <1> QED BY <1>2, <1>3

LEMMA StreamTypes ==
    ASSUME TypeInv, Allotted, NEW f \in Flows, Chunk(f) \/ Streamed(f)
    PROVE  TypeInv' /\ Allotted'
  <1>1. /\ flow[f].stage = "stream" /\ flow \in [Flows -> Handlers(made)] /\ flow[f] \in Handlers(made)
        /\ UNCHANGED <<loading, begun, rows, made, tx>> /\ streaming \in BOOLEAN
        /\ view \in Seq(UpTo(made))
    BY DEF Chunk, Streamed, StreamEnds, StreamFails, TypeInv
  <1>2. mishaps' \in 0..MaxMishaps
    BY Mishaps DEF Chunk, Streamed, StreamEnds, StreamFails
  <1>3. f \in 0..Error /\ Error \in 0..Error /\ made \in Nat
    BY ViewIs
  <1>4. CASE Chunk(f)
    <2> DEFINE x == [flow[f] EXCEPT !.got = TRUE]
    <2>1. x \in Handlers(made) /\ x.stage = "stream"
      BY <1>1 DEF Handlers
    <2>2. flow' = [flow EXCEPT ![f] = x] /\ streaming' = streaming /\ view' \in Seq(UpTo(made))
      BY <1>3, <1>4, Showing DEF Chunk
    <2> HIDE DEF x
    <2>3. x.stage = flow[f].stage /\ x.stage \in Streams /\ flow[f].stage \notin {"none", "done"}
      BY <1>1, <2>1 DEF Streams
    <2>4. x.stage # "none" /\ (x.stage = "done" => x = Flow("done", 0, 0))
      BY <2>1
    <2> QED BY <1>1, <1>2, <2>1, <2>2, <2>3, <2>4, ShowTypes
  <1>5. CASE To(f, "patchAnswer", 0, flow[f].id) /\ UNCHANGED <<streaming, view>>
    <2> DEFINE x == Flow("patchAnswer", 0, flow[f].id)
    <2>1. flow[f].id \in 0..made
      BY <1>1 DEF Handlers
    <2>2. x \in Handlers(made) /\ x.stage = "patchAnswer"
      BY <1>3, <2>1, FlowIs, FlowFits, StageNames
    <2>3. flow' = [flow EXCEPT ![f] = x]
      BY <1>5 DEF To, Flow
    <2> HIDE DEF x
    <2>4. x.stage \in Streams /\ ~Owes(x.stage) /\ flow[f].stage \notin {"none", "done"}
      BY <1>1, <2>2 DEF Streams, Owes
    <2>5. x.stage # "none" /\ (x.stage = "done" => x = Flow("done", 0, 0))
      BY <2>2
    <2> QED BY <1>1, <1>2, <1>5, <2>2, <2>3, <2>4, <2>5, ShowTypes
  <1>6. CASE Finish(f) /\ (view' = view \/ view' = Shown(Error))
    <2> DEFINE x == Flow("done", 0, 0)
    <2>1. x \in Handlers(made) /\ x.stage = "done"
      BY <1>3, FlowIs, FlowFits, StageNames
    <2>2. flow' = [flow EXCEPT ![f] = x] /\ streaming' = FALSE /\ view' \in Seq(UpTo(made)) /\ x = Flow("done", 0, 0)
      BY <1>1, <1>3, <1>6, Showing DEF Finish, To, Flow
    <2> HIDE DEF x
    <2>3. ~Owes(x.stage) /\ flow[f].stage \notin {"none", "done"}
      BY <1>1, <2>1 DEF Owes
    <2> QED BY <1>1, <1>2, <2>1, <2>2, <2>3, ShowTypes
  <1> QED BY <1>4, <1>5, <1>6 DEF Streamed, StreamEnds, StreamFails
-----------------------------------------------------------------------------
\* The table t with the write x committed.
Committed(t, x) ==
    [m \in (DOMAIN t \cup {x.put[i].id : i \in DOMAIN x.put}) \ x.doomed |->
        IF \E i \in DOMAIN x.put : x.put[i].id = m THEN x.put[1] ELSE t[m]]

LEMMA CommitIs ==
    ASSUME TypeInv
    PROVE  /\ Commit => rows' = Committed(rows, tx)
           /\ tx.put = <<>> =>
                /\ \A m : m \in DOMAIN Committed(rows, tx) <=> m \in Saved /\ m \notin tx.doomed
                /\ \A m \in DOMAIN Committed(rows, tx) : Committed(rows, tx)[m] = rows[m]
           /\ tx.put # <<>> =>
                /\ tx.put[1] \in Records(made)
                /\ \A m : m \in DOMAIN Committed(rows, tx) <=>
                            (m \in Saved \/ m = tx.put[1].id) /\ m \notin tx.doomed
                /\ \A m \in DOMAIN Committed(rows, tx) :
                     Committed(rows, tx)[m] = IF m = tx.put[1].id THEN tx.put[1] ELSE rows[m]
  <1>1. Commit => rows' = Committed(rows, tx)
    BY DEF Commit, Committed, Saved
  <1>2. tx.put \in Seq(Records(made)) /\ Len(tx.put) <= 1
    BY DEF TypeInv
  <1>3. CASE tx.put = <<>>
    <2>1. DOMAIN tx.put = {}
      BY <1>3
    <2> QED BY <1>1, <1>3, <2>1 DEF Committed, Saved
  <1>4. CASE tx.put # <<>>
    <2>1. Len(tx.put) = 1
      <3> DEFINE n == Len(tx.put)
      <3>1. n \in Nat /\ n # 0 /\ n <= 1
        BY <1>2, <1>4, EmptySeq
      <3> HIDE DEF n
      <3>2. n = 1
        BY <3>1
      <3> QED BY <3>2 DEF n
    <2>2. DOMAIN tx.put = {1} /\ tx.put[1] \in Records(made)
      BY <1>2, <2>1, LenProperties, ElementOfSeq
    <2> QED BY <1>1, <1>4, <2>2 DEF Committed, Saved
  <1> QED BY <1>3, <1>4

\* Steps of no handler
LEMMA RestTypes ==
    ASSUME TypeInv, Allotted, UNCHANGED <<made, begun>>,
           flow' \in [Flows -> Handlers(made)],
           \A g \in Flows : flow'[g] = flow[g] \/ (flow'[g] = Flow("done", 0, 0) /\ g <= begun),
           view' \in Seq(UpTo(made)), mishaps' \in 0..MaxMishaps,
           streaming' = FALSE \/ UNCHANGED <<streaming, flow>>,
           loading' \in [asked : BOOLEAN, answer : Seq(Seq(UpTo(made)))],
           Len(loading'.answer) <= 1, ~loading'.asked => loading'.answer = <<>>,
           TxFits(tx', made), Saved' \subseteq 1..made,
           \A m \in Saved' : rows'[m] \in Records(made) /\ rows'[m].id = m
    PROVE  TypeInv' /\ Allotted'
  <1>1. made \in Nat /\ begun \in 0..MaxFlows /\ Flow("done", 0, 0).stage = "done" /\ begun \in Nat
        /\ \A g \in Flows : g \in Nat
    BY FlowIs DEF TypeInv, Flows
  <1>2. \A g \in Flows : /\ g > begun' => flow'[g].stage = "none"
                         /\ flow'[g].stage = "done" => flow'[g] = Flow("done", 0, 0)
    BY <1>1 DEF TypeInv
  <1>3. streaming' \in BOOLEAN /\ (streaming' => \E g \in Flows : flow'[g].stage \in {"stream", "patchAnswer"})
    <2>1. CASE streaming' = FALSE
      BY <2>1
    <2>2. CASE streaming' = streaming /\ flow' = flow
      BY <2>2 DEF TypeInv
    <2> QED BY <2>1, <2>2
  <1>4. TypeInv'
    BY <1>1, <1>2, <1>3 DEF TypeInv, TxFits
  <1>5. Allotted'
    <2>1. \A g \in Flows : flow'[g].stage = flow[g].stage \/ flow'[g].stage = "done"
      BY <1>1
    <2>2. Owing' \subseteq Owing /\ Asking' \subseteq Asking
      BY <2>1 DEF Owing, Asking
    <2>3. IsFiniteSet(Owing) /\ IsFiniteSet(Asking)
      <3>1. IsFiniteSet(Flows) /\ Owing \subseteq Flows /\ Asking \subseteq Flows
        BY FlowsAreFinite DEF Owing, Asking
      <3> QED BY <3>1, FS_Subset
    <2>4. /\ IsFiniteSet(Owing') /\ IsFiniteSet(Asking')
          /\ Cardinality(Owing') <= Cardinality(Owing) /\ Cardinality(Asking') <= Cardinality(Asking)
      BY <2>2, <2>3, FS_Subset
    <2>5. /\ Cardinality(Owing) \in Nat /\ Cardinality(Asking) \in Nat
          /\ Cardinality(Owing') \in Nat /\ Cardinality(Asking') \in Nat
      BY <2>3, <2>4, FS_CardinalityType
    <2> QED BY <1>1, <2>4, <2>5 DEF Allotted
  <1> QED BY <1>4, <1>5

LEMMA CommitTypes ==
    ASSUME TypeInv, Allotted, Commit \/ CommitFails
    PROVE  TypeInv' /\ Allotted'
  <1>1. /\ UNCHANGED <<view, streaming, loading, flow, begun, made>> /\ tx' = NoTx
        /\ Mishap \/ UNCHANGED mishaps
    BY DEF Commit, CommitFails
  <1>2. mishaps' \in 0..MaxMishaps
    BY <1>1, Mishaps
  <1>3. TxFits(tx', made)
    <2>1. <<>> \in Seq(Records(made)) /\ Len(<<>>) = 0
      BY EmptySeq
    <2> QED BY <1>1, <2>1 DEF TxFits, NoTx
  <1>4. /\ Saved \subseteq 1..made /\ made \in Nat
        /\ \A m \in Saved : rows[m] \in Records(made) /\ rows[m].id = m
    BY DEF TypeInv
  <1>5. Saved' \subseteq 1..made /\ \A m \in Saved' : rows'[m] \in Records(made) /\ rows'[m].id = m
    <2>1. CASE CommitFails
      BY <1>4, <2>1 DEF CommitFails, Saved
    <2>2. CASE Commit /\ tx.put = <<>>
      BY <1>4, <2>2, CommitIs DEF Saved
    <2>3. CASE Commit /\ tx.put # <<>>
      <3>1. tx.put[1] \in Records(made) /\ tx.put[1].id \in 1..made
        BY <2>3, CommitIs DEF Records
      <3> QED BY <1>4, <2>3, <3>1, CommitIs DEF Saved
    <2> QED BY <2>1, <2>2, <2>3
  <1>6. /\ flow' \in [Flows -> Handlers(made)] /\ view' \in Seq(UpTo(made))
        /\ loading' \in [asked : BOOLEAN, answer : Seq(Seq(UpTo(made)))]
        /\ Len(loading'.answer) <= 1 /\ (~loading'.asked => loading'.answer = <<>>)
    BY <1>1 DEF TypeInv
  <1> QED BY <1>1, <1>2, <1>3, <1>5, <1>6, RestTypes
-----------------------------------------------------------------------------
\* The rows before b
Below(b) == {a \in Saved : Before(a, b)}

LEMMA BelowIs ==
    ASSUME TypeInv, NEW a \in Saved, NEW b \in Saved
    PROVE  /\ IsFiniteSet(Below(a)) /\ Cardinality(Below(a)) \in Nat
           /\ Cardinality(Below(a)) < Cardinality(Saved)
           /\ Before(a, b) => Cardinality(Below(a)) < Cardinality(Below(b))
           /\ a # b => Before(a, b) \/ Before(b, a)
  <1>1. /\ Saved \subseteq Nat /\ IsFiniteSet(Saved) /\ Cardinality(Saved) \in Nat
        /\ \A m \in Saved : rows[m].pos \in Nat
    BY Counting DEF TypeInv, Records
  <1>2. ASSUME NEW c \in Saved
        PROVE  c \notin Below(c) /\ Below(c) \subseteq Saved /\ IsFiniteSet(Below(c)) /\ Cardinality(Below(c)) \in Nat
    <2>1. c \notin Below(c) /\ Below(c) \subseteq Saved
      BY <1>1 DEF Below, Before
    <2>2. IsFiniteSet(Below(c))
      BY <1>1, <2>1, FS_Subset
    <2> QED BY <2>1, <2>2, FS_CardinalityType
  <1>3. ASSUME NEW S, IsFiniteSet(S), Below(a) \cup {a} \subseteq S
        PROVE  Cardinality(Below(a)) < Cardinality(S)
    <2>1. Cardinality(Below(a) \cup {a}) = Cardinality(Below(a)) + 1
      BY <1>2, FS_AddElement
    <2>2. Cardinality(Below(a) \cup {a}) <= Cardinality(S)
      BY <1>3, FS_Subset
    <2>3. Cardinality(S) \in Nat /\ Cardinality(Below(a)) \in Nat
      BY <1>2, <1>3, FS_CardinalityType
    <2> QED BY <2>1, <2>2, <2>3
  <1>4. Cardinality(Below(a)) < Cardinality(Saved)
    <2>1. Below(a) \cup {a} \subseteq Saved
      BY <1>2
    <2> QED BY <1>1, <1>3, <2>1
  <1>5. ASSUME Before(a, b) PROVE Cardinality(Below(a)) < Cardinality(Below(b))
    <2>1. \A c \in Below(a) : c \in Below(b)
      BY <1>1, <1>5 DEF Below, Before
    <2>2. a \in Below(b)
      BY <1>5 DEF Below
    <2>3. Below(a) \cup {a} \subseteq Below(b)
      BY <2>1, <2>2
    <2> QED BY <1>2, <1>3, <2>3
  <1>6. a # b => Before(a, b) \/ Before(b, a)
    <2> DEFINE p == rows[a].pos
               q == rows[b].pos
    <2>1. p \in Nat /\ q \in Nat /\ a \in Nat /\ b \in Nat
      BY <1>1
    <2>2. /\ Before(a, b) <=> p < q \/ (p = q /\ a < b)
          /\ Before(b, a) <=> q < p \/ (q = p /\ b < a)
      BY DEF Before
    <2> HIDE DEF p, q
    <2> QED BY <2>1, <2>2
  <1>7. IsFiniteSet(Below(a)) /\ Cardinality(Below(a)) \in Nat
    BY <1>2
  <1> QED BY <1>4, <1>5, <1>6, <1>7

\* Each place in the order is taken by one row.
LEMMA Ranked ==
    ASSUME TypeInv, NEW i \in 1..Cardinality(Saved)
    PROVE  \E b \in Saved : Cardinality(Below(b)) = i - 1
  <1> DEFINE n == Cardinality(Saved)
             rank == [b \in Saved |-> Cardinality(Below(b))]
  <1>1. n \in Nat /\ IsFiniteSet(Saved)
    BY Counting DEF TypeInv
  <1>2. \A b \in Saved : rank[b] = Cardinality(Below(b))
    OBVIOUS
  <1>3. \A b \in Saved : rank[b] \in 0..(n - 1)
    <2>1. \A b \in Saved : Cardinality(Below(b)) \in Nat /\ Cardinality(Below(b)) < n
      BY BelowIs
    <2> HIDE DEF n, rank
    <2> QED BY <1>1, <1>2, <2>1
  <1>4. \A a, b \in Saved : rank[a] = rank[b] => a = b
    <2> SUFFICES ASSUME NEW a \in Saved, NEW b \in Saved, a # b PROVE rank[a] # rank[b]
      OBVIOUS
    <2>1. Cardinality(Below(a)) \in Nat /\ Cardinality(Below(b)) \in Nat
      BY BelowIs
    <2>2. Before(a, b) \/ Before(b, a)
      BY BelowIs
    <2>3. Cardinality(Below(a)) < Cardinality(Below(b)) \/ Cardinality(Below(b)) < Cardinality(Below(a))
      BY <2>2, BelowIs
    <2> QED BY <1>2, <2>1, <2>3
  <1>5. rank \in [Saved -> 0..(n - 1)]
    BY <1>3
  <1> HIDE DEF n, rank
  <1>6. IsFiniteSet(0..(n - 1)) /\ Cardinality(0..(n - 1)) = n
    <2>1. 0 \in Int /\ n - 1 \in Int /\ ~(0 > n) /\ (n - 1) - 0 + 1 = n /\ (0 > n - 1 => n = 0)
      BY <1>1
    <2>2. IsFiniteSet(0..(n - 1)) /\ Cardinality(0..(n - 1)) = IF 0 > n - 1 THEN 0 ELSE (n - 1) - 0 + 1
      BY <2>1, FS_Interval
    <2> QED BY <2>1, <2>2
  <1>7. rank \in Injection(Saved, 0..(n - 1))
    BY <1>4, <1>5 DEF Injection, IsInjective
  <1>8. rank \in Surjection(Saved, 0..(n - 1))
    BY <1>6, <1>7, FS_Injection DEF n
  <1>9. i - 1 \in 0..(n - 1)
    BY <1>1 DEF n
  <1>10. \E b \in Saved : rank[b] = i - 1
    BY <1>8, <1>9 DEF Surjection
  <1> QED BY <1>2, <1>10

\* The i-th row that is shown
At(i) == CHOOSE b \in Saved : Cardinality({a \in Saved : Before(a, b)}) = i - 1

LEMMA OrderedIs ==
    ASSUME TypeInv
    PROVE  /\ Ordered = [i \in 1..Cardinality(Saved) |-> Message(rows[At(i)].role, At(i), rows[At(i)].text)]
           /\ \A i \in 1..Cardinality(Saved) : At(i) \in Saved /\ Cardinality(Below(At(i))) = i - 1
           /\ Ordered \in Seq(UpTo(made)) /\ Len(Ordered) = Cardinality(Saved)
  <1>1. Ordered = [i \in 1..Cardinality(Saved) |-> Message(rows[At(i)].role, At(i), rows[At(i)].text)]
    BY DEF Ordered, At
  <1>2. ASSUME NEW i \in 1..Cardinality(Saved)
        PROVE  At(i) \in Saved /\ Cardinality(Below(At(i))) = i - 1
    BY Ranked DEF At, Below
  <1>3. ASSUME NEW i \in 1..Cardinality(Saved)
        PROVE  Message(rows[At(i)].role, At(i), rows[At(i)].text) \in UpTo(made)
    <2>1. At(i) \in Saved /\ At(i) \in 1..made /\ rows[At(i)] \in Records(made)
      BY <1>2 DEF TypeInv
    <2>2. /\ rows[At(i)].role \in Parts /\ rows[At(i)].text \in 0..Error /\ At(i) \in 0..made
          /\ made \in Nat
      BY <2>1, ViewIs DEF Records, Error
    <2> QED BY <2>2 DEF Message, UpTo
  <1>4. Cardinality(Saved) \in Nat
    BY Counting DEF TypeInv
  <1> QED BY <1>1, <1>2, <1>3, <1>4

LEMMA ReloadTypes ==
    ASSUME TypeInv, Allotted, Reload
    PROVE  TypeInv' /\ Allotted'
  <1>1. /\ view' = <<>> /\ streaming' = FALSE /\ loading' = Asked /\ UNCHANGED <<begun, rows, made, tx>>
        /\ flow' = [f \in Flows |-> IF f \in Running THEN [NoFlow EXCEPT !.stage = "done"] ELSE flow[f]]
        /\ flow \in [Flows -> Handlers(made)] /\ made \in Nat
    BY DEF Reload, TypeInv
  <1>2. mishaps' \in 0..MaxMishaps
    BY Mishaps DEF Reload
  <1> DEFINE y == [NoFlow EXCEPT !.stage = "done"]
             x == Flow("done", 0, 0)
  <1>3. y \in Handlers(made) /\ x = y
    <2>1. NoFlow \in Handlers(made) /\ x \in Handlers(made) /\ x.stage = "done"
      BY <1>1, NoFlowIs, FlowFits, FlowIs, StageNames
    <2>2. y \in Handlers(made)
      BY <2>1, StageNames DEF Handlers
    <2>3. x = y
      <3> HIDE DEF x
      <3>1. x = x => x = y
        BY <1>1, <2>1, Finished DEF x
      <3> QED BY <3>1
    <2> QED BY <2>2, <2>3
  <1> HIDE DEF x, y
  <1>4. \A g \in Flows : flow'[g] = IF g \in Running THEN x ELSE flow[g]
    BY <1>1, <1>3 DEF y
  <1>5. flow' = [f \in Flows |-> IF f \in Running THEN x ELSE flow[f]]
    BY <1>1, <1>3 DEF y
  <1>6. flow' \in [Flows -> Handlers(made)]
    BY <1>1, <1>3, <1>5
  <1>7. \A g \in Flows : flow'[g] = flow[g] \/ (flow'[g] = Flow("done", 0, 0) /\ g <= begun)
    <2> SUFFICES ASSUME NEW g \in Flows, g \in Running PROVE g <= begun
      BY <1>4 DEF x
    <2>1. flow[g].stage # "none" /\ g \in Nat /\ begun \in Nat
      BY DEF Running, TypeInv, Flows
    <2> QED BY <2>1 DEF TypeInv
  <1>8. /\ view' \in Seq(UpTo(made)) /\ loading' \in [asked : BOOLEAN, answer : Seq(Seq(UpTo(made)))]
        /\ Len(loading'.answer) <= 1 /\ (~loading'.asked => loading'.answer = <<>>)
    <2>1. <<>> \in Seq(UpTo(made)) /\ <<>> \in Seq(Seq(UpTo(made))) /\ Len(<<>>) = 0
      BY EmptySeq
    <2> QED BY <1>1, <2>1 DEF Asked
  <1>9. /\ TxFits(tx', made) /\ Saved' \subseteq 1..made
        /\ \A m \in Saved' : rows'[m] \in Records(made) /\ rows'[m].id = m
    BY <1>1, TxNow DEF TypeInv, Saved
  <1>10. UNCHANGED <<made, begun>>
    BY <1>1
  <1> QED BY <1>1, <1>2, <1>6, <1>7, <1>8, <1>9, <1>10, RestTypes

LEMMA FetchTypes ==
    ASSUME TypeInv, Allotted, FetchRead \/ FetchShown
    PROVE  TypeInv' /\ Allotted'
  <1>1. /\ UNCHANGED <<streaming, flow, begun, rows, made, tx>> /\ made \in Nat
        /\ flow \in [Flows -> Handlers(made)] /\ view \in Seq(UpTo(made))
        /\ loading.answer \in Seq(Seq(UpTo(made))) /\ Len(loading.answer) <= 1
    BY DEF FetchRead, FetchShown, TypeInv
  <1>2. mishaps' \in 0..MaxMishaps
    BY Mishaps DEF FetchRead, FetchShown
  <1>3. /\ TxFits(tx', made) /\ Saved' \subseteq 1..made /\ flow' \in [Flows -> Handlers(made)]
        /\ \A m \in Saved' : rows'[m] \in Records(made) /\ rows'[m].id = m
        /\ \A g \in Flows : flow'[g] = flow[g]
        /\ UNCHANGED <<made, begun>> /\ UNCHANGED <<streaming, flow>>
    BY <1>1, TxNow DEF TypeInv, Saved
  <1>4. /\ view' \in Seq(UpTo(made)) /\ loading' \in [asked : BOOLEAN, answer : Seq(Seq(UpTo(made)))]
        /\ Len(loading'.answer) <= 1 /\ (~loading'.asked => loading'.answer = <<>>)
    <2>1. CASE FetchRead
      <3>1. loading' = [asked |-> TRUE, answer |-> <<Ordered>>] /\ view' = view
        BY <2>1 DEF FetchRead, Asked
      <3>2. <<Ordered>> \in Seq(Seq(UpTo(made))) /\ Len(<<Ordered>>) = 1
        BY OrderedIs
      <3> QED BY <1>1, <3>1, <3>2
    <2>2. CASE FetchShown
      <3>1. loading' = [asked |-> FALSE, answer |-> <<>>] /\ view' = loading.answer[1] /\ loading.answer # <<>>
        BY <2>2 DEF FetchShown, NotLoading
      <3>2. loading.answer[1] \in Seq(UpTo(made))
        <4>1. 1 \in 1..Len(loading.answer)
          BY <1>1, <3>1, EmptySeq
        <4> QED BY <1>1, <4>1, ElementOfSeq
      <3>3. <<>> \in Seq(Seq(UpTo(made))) /\ Len(<<>>) = 0
        BY EmptySeq
      <3> QED BY <3>1, <3>2, <3>3
    <2> QED BY <2>1, <2>2
  <1> QED BY <1>1, <1>2, <1>3, <1>4, RestTypes

LEMMA StepTypes == TypeInv /\ Allotted /\ [Next]_vars => TypeInv' /\ Allotted'
  <1> SUFFICES ASSUME TypeInv, Allotted, [Next]_vars PROVE TypeInv' /\ Allotted'
    OBVIOUS
  <1>1. CASE UNCHANGED vars
    BY <1>1 DEF vars, TypeInv, Allotted, Saved, Owing, Asking
  <1>2. ASSUME NEW f \in Flows, BeginSend(f) \/ \E i \in DOMAIN view : BeginEdit(f, i) \/ BeginRetry(f, i)
        PROVE  TypeInv' /\ Allotted'
    BY <1>2, BeginsTypes
  <1>3. ASSUME NEW f \in Flows, Served(f) PROVE TypeInv' /\ Allotted'
    BY <1>3, LookTypes, NotFoundTypes, WriteTypes DEF Served
  <1>4. ASSUME NEW f \in Flows, Chunk(f) \/ Streamed(f) PROVE TypeInv' /\ Allotted'
    BY <1>4, StreamTypes
  <1>5. CASE Commit \/ CommitFails
    BY <1>5, CommitTypes
  <1>6. CASE Reload \/ FetchRead \/ FetchShown
    BY <1>6, ReloadTypes, FetchTypes
  <1> QED BY <1>1, <1>2, <1>3, <1>4, <1>5, <1>6 DEF Next

LEMMA AlwaysTypes == Spec => [](TypeInv /\ Allotted)
  <1>1. Init => TypeInv /\ Allotted
    BY InitTypes
  <1>2. (TypeInv /\ Allotted) /\ [Next]_vars => (TypeInv /\ Allotted)'
    BY StepTypes
  <1> QED BY <1>1, <1>2, PTL DEF Spec

(***************************************************************************)
(* Every variable keeps its type.  That no id exceeds twice the number of  *)
(* handlers rests on Allotted: a handler saves one answer, and one prompt  *)
(* if it is a send, whatever overlaps and fails.                           *)
(***************************************************************************)
THEOREM TypeCorrect == Spec => []TypeOK
  <1>1. TypeInv /\ Allotted => TypeOK
    <2> SUFFICES ASSUME TypeInv, Allotted PROVE TypeOK
      OBVIOUS
    <2>1. made \in 0..(2 * MaxFlows) /\ begun \in 0..MaxFlows /\ MaxFlows \in Nat
      <3>1. IsFiniteSet(Owing) /\ IsFiniteSet(Asking)
        <4>1. Owing \subseteq Flows /\ Asking \subseteq Flows
          BY DEF Owing, Asking
        <4> QED BY <4>1, FlowsAreFinite, FS_Subset
      <3> DEFINE o == Cardinality(Owing)
                 a == Cardinality(Asking)
      <3>2. o \in Nat /\ a \in Nat
        BY <3>1, FS_CardinalityType
      <3>3. made \in Nat /\ begun \in 0..MaxFlows /\ MaxFlows \in Nat /\ made + o + a <= 2 * begun
        BY ChatAssumption DEF TypeInv, Allotted
      <3> HIDE DEF o, a
      <3> QED BY <3>2, <3>3
    <2>2. UpTo(made) \subseteq Messages
      BY <2>1 DEF UpTo, Messages, Parts, Ids
    <2>3. view \in Seq(Messages) /\ loading \in [asked : BOOLEAN, answer : Seq(Seq(Messages))]
      <3>1. Seq(UpTo(made)) \subseteq Seq(Messages)
        BY <2>2, SeqMonotonic
      <3>2. Seq(Seq(UpTo(made))) \subseteq Seq(Seq(Messages))
        BY <3>1, SeqMonotonic
      <3>3. view \in Seq(UpTo(made)) /\ loading \in [asked : BOOLEAN, answer : Seq(Seq(UpTo(made)))]
        BY DEF TypeInv
      <3> QED BY <3>1, <3>2, <3>3
    <2>4. ASSUME NEW f \in Flows
          PROVE  /\ flow[f].stage \in Stages /\ flow[f].id \in 0..made /\ flow[f].count \in 0..made
                 /\ flow[f].stage = "done" => flow[f] = [NoFlow EXCEPT !.stage = "done"]
      <3>1. flow[f] \in Handlers(made) /\ (flow[f].stage = "done" => flow[f] = Flow("done", 0, 0))
        BY DEF TypeInv
      <3>2. flow[f].stage = "done" => flow[f] = [NoFlow EXCEPT !.stage = "done"]
        <4> DEFINE x == flow[f]
        <4>1. x \in Handlers(made) /\ (x.stage = "done" => x = Flow("done", 0, 0)) /\ made \in Nat
          BY <2>1, <3>1
        <4> HIDE DEF x
        <4>2. x.stage = "done" => x = [NoFlow EXCEPT !.stage = "done"]
          BY <4>1, Finished
        <4> QED BY <4>2 DEF x
      <3> QED BY <3>1, <3>2 DEF Handlers
    <2> QED BY <2>1, <2>3, <2>4 DEF TypeOK, TypeInv
  <1> QED BY <1>1, AlwaysTypes, PTL
-----------------------------------------------------------------------------
(***************************************************************************)
(* The rows that are saved, or will be when the open write commits, and    *)
(* what the handlers and the tab know of them.                             *)
(***************************************************************************)
Kept == {rows[m] : m \in Saved} \cup {tx.put[i] : i \in DOMAIN tx.put}

\* A row has one role and one maker, and an answer has its maker's text.
Sound(K) ==
    /\ \A r \in K : r.role = "assistant" => r.text \in {0, r.by}
    /\ \A r, s \in K : r.id = s.id => r.role = s.role /\ r.by = s.by

\* The row a handler streams to is an answer it made, the row it edits a prompt.
Held(K, x, f) ==
    /\ x.stage \in Streams => \A r \in K : r.id = x.id => r.role = "assistant" /\ r.by = f
    /\ x.stage = "patchUser" => \A r \in K : r.id = x.id => r.role = "user"

\* What the tab shows as a prompt is no answer.
Fits(K, s) == \A i \in 1..Len(s) : \A r \in K : r.id = s[i].id => r.role = s[i].role

Owned ==
    /\ Sound(Kept) /\ Fits(Kept, view)
    /\ \A f \in Flows : Held(Kept, flow[f], f)
    /\ loading.answer # <<>> => Fits(Kept, loading.answer[1])

LEMMA KeptIs ==
    ASSUME TypeInv
    PROVE  Kept \subseteq Records(made) /\ \A r \in Kept : r.id \in 1..made
  <1>1. \A m \in Saved : rows[m] \in Records(made)
    BY DEF TypeInv
  <1>2. \A i \in DOMAIN tx.put : tx.put[i] \in Records(made)
    <2>1. tx.put \in Seq(Records(made))
      BY DEF TypeInv
    <2> QED BY <2>1, LenProperties, ElementOfSeq
  <1> QED BY <1>1, <1>2 DEF Kept, Records

LEMMA Fewer ==
    ASSUME NEW K, NEW L, L \subseteq K
    PROVE  /\ Sound(K) => Sound(L)
           /\ \A x, f : Held(K, x, f) => Held(L, x, f)
           /\ \A s : Fits(K, s) => Fits(L, s)
  BY DEF Sound, Held, Fits

\* A row of the same id, role and maker changes nothing.
LEMMA Alike ==
    ASSUME NEW K, NEW p, NEW q \in K, p.id = q.id, p.role = q.role, p.by = q.by
    PROVE  /\ \A x, f : Held(K, x, f) => Held(K \cup {p}, x, f)
           /\ \A s : Fits(K, s) => Fits(K \cup {p}, s)
           /\ Sound(K) /\ (p.role = "assistant" => p.text \in {0, p.by}) => Sound(K \cup {p})
  <1>1. \A x, f : Held(K, x, f) => Held(K \cup {p}, x, f)
    BY DEF Held
  <1>2. \A s : Fits(K, s) => Fits(K \cup {p}, s)
    BY DEF Fits
  <1>3. Sound(K) /\ (p.role = "assistant" => p.text \in {0, p.by}) => Sound(K \cup {p})
    BY DEF Sound
  <1> QED BY <1>1, <1>2, <1>3

\* Nobody knows the id of a row that is new.
LEMMA Unknown ==
    ASSUME NEW n \in Nat, NEW K, \A r \in K : r.id \in 1..n, NEW p, p.id = n + 1
    PROVE  /\ \A x \in Handlers(n), f \in Flows : Held(K, x, f) => Held(K \cup {p}, x, f)
           /\ \A s \in Seq(UpTo(n)) : Fits(K, s) => Fits(K \cup {p}, s)
           /\ Sound(K) /\ (p.role = "assistant" => p.text \in {0, p.by}) => Sound(K \cup {p})
  <1>1. ASSUME NEW x \in Handlers(n), NEW f \in Flows, Held(K, x, f) PROVE Held(K \cup {p}, x, f)
    <2>1. x.id # p.id
      BY DEF Handlers
    <2> QED BY <1>1, <2>1 DEF Held
  <1>2. ASSUME NEW s \in Seq(UpTo(n)), Fits(K, s) PROVE Fits(K \cup {p}, s)
    <2>1. \A i \in 1..Len(s) : s[i].id # p.id
      <3>1. \A i \in 1..Len(s) : s[i] \in UpTo(n)
        BY ElementOfSeq
      <3>2. \A i \in 1..Len(s) : s[i].id \in 0..n
        BY <3>1 DEF UpTo
      <3>3. p.id \notin 0..n
        OBVIOUS
      <3> QED BY <3>2, <3>3
    <2> QED BY <1>2, <2>1 DEF Fits
  <1>3. Sound(K) /\ (p.role = "assistant" => p.text \in {0, p.by}) => Sound(K \cup {p})
    <2>1. \A r \in K : r.id # p.id
      OBVIOUS
    <2> QED BY <2>1 DEF Sound
  <1> QED BY <1>1, <1>2, <1>3

\* A handler that goes on knows its row, or none.
LEMMA ResumeHolds ==
    ASSUME TypeInv, NEW f \in Flows, flow[f].stage \in Calls, NEW n \in Nat, made <= n, NEW id \in 0..n,
           Resume(f, id), NEW K, \A r \in K : r.id \in 1..n,
           Fits(K, view), \A g \in Flows : Held(K, flow[g], g),
           \A r \in K : r.id = id =>
              /\ flow[f].stage = "saveUser" => r.role = "user"
              /\ flow[f].stage = "saveAnswer" => r.role = "assistant" /\ r.by = f
    PROVE  Fits(K, view') /\ \A g \in Flows : Held(K, flow'[g], g)
  <1>1. PICK x \in Handlers(n) : ResumesTo(f, id, n, x)
    BY ResumeIs
  <1>2. flow' = [flow EXCEPT ![f] = x] /\ Resumed(f, id, x) /\ flow \in [Flows -> Handlers(made)]
    BY <1>1 DEF ResumesTo, TypeInv
  <1>3. Held(K, x, f)
    <2>1. /\ x.stage \in {"saveAnswer", "delete", "stream", "done"}
          /\ x.stage = "stream" => flow[f].stage = "saveAnswer" /\ x.id = id
      BY <1>2, FlowIs DEF Resumed
    <2>2. \A r \in K : r.id # 0
      OBVIOUS
    <2> QED BY <2>1, <2>2 DEF Held, Streams
  <1>4. \A g \in Flows : Held(K, flow'[g], g)
    <2>1. flow'[f] = x /\ \A g \in Flows \ {f} : flow'[g] = flow[g]
      BY <1>2
    <2> QED BY <1>3, <2>1
  <1>5. view \in Seq(UpTo(n)) /\ flow[f].keep \in Nat
    BY <1>2, Grown DEF TypeInv, Handlers
  <1>6. Fits(K, view')
    <2>1. CASE view' = view
      BY <2>1
    <2>2. ASSUME NEW role, view' = Numbered(role, id), \A r \in K : r.id = id => r.role = role
          PROVE  Fits(K, view')
      <3>1. /\ Len(view') = Len(view)
            /\ \A i \in 1..Len(view) :
                 /\ view'[i].role = view[i].role
                 /\ view'[i].id = IF view[i].role = role /\ view[i].id = 0 THEN id ELSE view[i].id
        BY <1>5, <2>2, Numbering
      <3> QED BY <2>2, <3>1 DEF Fits
    <2>3. CASE view' = Truncated(flow[f].keep)
      <3> DEFINE k == flow[f].keep
                 c == IF k <= Len(view) THEN k ELSE Len(view)
      <3>1. /\ Len(view') = c + 1 /\ c \in 0..Len(view)
            /\ \A i \in 1..c : view'[i] = view[i]
            /\ view'[c + 1] = Message("assistant", 0, 0)
        BY <1>5, <2>3, Truncating
      <3> HIDE DEF c
      <3>2. view'[c + 1].id = 0 /\ \A r \in K : r.id # 0
        BY <3>1 DEF Message
      <3>3. \A i \in 1..Len(view') : i = c + 1 \/ (i \in 1..c /\ i \in 1..Len(view))
        <4>1. Len(view) \in Nat
          BY <1>5, LenProperties
        <4> QED BY <3>1, <4>1
      <3> QED BY <3>1, <3>2, <3>3 DEF Fits
    <2>4. \/ view' = view \/ view' = Truncated(flow[f].keep)
          \/ flow[f].stage = "saveUser" /\ view' = Numbered("user", id)
          \/ flow[f].stage = "saveAnswer" /\ view' = Numbered("assistant", id)
      BY DEF Resume, Restart, Truncated, Calls
    <2> QED BY <2>1, <2>2, <2>3, <2>4
  <1> QED BY <1>4, <1>6

\* Steps that put no row
LEMMA OwnedStays ==
    ASSUME Owned, Kept' \subseteq Kept, Fits(Kept, view'), \A g \in Flows : Held(Kept, flow'[g], g),
           loading'.answer # <<>> => Fits(Kept, loading'.answer[1])
    PROVE  Owned'
  <1> DEFINE K == Kept
             L == Kept'
  <1>1. L \subseteq K
    OBVIOUS
  <1> HIDE DEF K, L
  <1>2. /\ Sound(K) => Sound(L)
        /\ \A x, f : Held(K, x, f) => Held(L, x, f)
        /\ \A s : Fits(K, s) => Fits(L, s)
    BY <1>1, Fewer
  <1>3. Sound(K)
    BY DEF Owned, K
  <1>4. Sound(L) /\ Fits(L, view') /\ (\A g \in Flows : Held(L, flow'[g], g))
        /\ (loading'.answer # <<>> => Fits(L, loading'.answer[1]))
    BY <1>2, <1>3 DEF K
  <1> QED BY <1>4 DEF Owned, L, Sound, Held, Fits

\* A handler that only changes its stage holds its row
LEMMA OwnedMoves ==
    ASSUME TypeInv, Owned, NEW f \in Flows, NEW x \in Handlers(made), flow' = [flow EXCEPT ![f] = x],
           Held(Kept, x, f), Fits(Kept, view'), UNCHANGED <<loading, rows, tx>>
    PROVE  Owned'
  <1>1. \A g \in Flows : Held(Kept, flow'[g], g)
    <2>1. flow'[f] = x /\ \A g \in Flows \ {f} : flow'[g] = flow[g]
      BY DEF TypeInv
    <2> QED BY <2>1 DEF Owned
  <1>2. Kept' = Kept
    BY DEF Kept, Saved
  <1>3. loading'.answer # <<>> => Fits(Kept, loading'.answer[1])
    BY DEF Owned
  <1> QED BY <1>1, <1>2, <1>3, OwnedStays

LEMMA BeginsOwned ==
    ASSUME TypeInv, Allotted, Owned, NEW f \in Flows,
           BeginSend(f) \/ \E i \in DOMAIN view : BeginEdit(f, i) \/ BeginRetry(f, i)
    PROVE  Owned'
  <1>1. /\ made \in Nat /\ DOMAIN view = 1..Len(view) /\ Len(view) \in Nat /\ Fits(Kept, view)
        /\ \A i \in 1..Len(view) : view[i] \in UpTo(made)
        /\ \A r \in Kept : r.id # 0
    BY ViewIs, KeptIs DEF Owned
  <1>2. ASSUME NEW stage \in Stages \ {"none", "done"}, NEW keep \in Nat, NEW id \in 0..made,
               Begin(f, stage, keep, id), view' \in Seq(UpTo(made)), Fits(Kept, view'), stage \notin Streams,
               stage = "patchUser" => \A r \in Kept : r.id = id => r.role = "user"
        PROVE  Owned'
    <2> DEFINE x == Flow(stage, keep, id)
    <2>1. x \in Handlers(made) /\ x.stage = stage /\ x.id = id
      BY <1>1, FlowIs, FlowFits
    <2>2. flow' = [flow EXCEPT ![f] = x] /\ UNCHANGED <<loading, rows, tx>>
      BY <1>2 DEF Begin, Flow
    <2> HIDE DEF x
    <2>3. Held(Kept, x, f)
      BY <1>2, <2>1 DEF Held
    <2> QED BY <1>2, <2>1, <2>2, <2>3, OwnedMoves
  <1>3. CASE BeginSend(f)
    <2> DEFINE n == Len(view)
    <2>1. Begin(f, "saveUser", 0, 0)
      BY <1>3 DEF BeginSend
    <2>2. /\ view' \in Seq(UpTo(made)) /\ Len(view') = n + 2
          /\ \A i \in 1..n : view'[i] = view[i]
          /\ view'[n + 1].id = 0 /\ view'[n + 2].id = 0
      BY <1>3, SendIs DEF Unsaved
    <2>3. Fits(Kept, view')
      <3>1. \A i \in 1..(n + 2) : i = n + 1 \/ i = n + 2 \/ i \in 1..n
        BY <1>1
      <3> QED BY <1>1, <2>2, <3>1 DEF Fits
    <2>4. "saveUser" \in Stages \ {"none", "done"} /\ "saveUser" \notin Streams /\ 0 \in 0..made /\ 0 \in Nat
      BY <1>1, StageNames DEF Streams
    <2> QED BY <1>2, <2>1, <2>2, <2>3, <2>4
  <1>4. ASSUME NEW i \in DOMAIN view, BeginEdit(f, i) PROVE Owned'
    <2>1. /\ i \in 1..Len(view) /\ Len(view') = Len(view) /\ view' \in Seq(UpTo(made)) /\ view[i].id \in 0..made
          /\ \A j \in 1..Len(view) : view'[j].id = view[j].id /\ view'[j].role = view[j].role
      BY <1>4, EditIs
    <2>2. i \in Nat /\ view[i].role = "user" /\ Begin(f, "patchUser", i, view[i].id)
      BY <1>4, <2>1 DEF BeginEdit
    <2>3. \A r \in Kept : r.id = view[i].id => r.role = "user"
      BY <1>1, <2>1, <2>2 DEF Fits
    <2>4. Fits(Kept, view')
      BY <1>1, <2>1 DEF Fits
    <2> QED BY <1>2, <2>1, <2>2, <2>3, <2>4, StageNames DEF Streams
  <1>5. ASSUME NEW i \in DOMAIN view, BeginRetry(f, i) PROVE Owned'
    <2>1. i \in 1..Len(view) /\ view[i] \in UpTo(made) /\ i - 1 \in Nat
      BY <1>1, <1>5
    <2>2. view[i].id \in 0..made
      BY <2>1 DEF UpTo
    <2>3. view' = view /\ view' \in Seq(UpTo(made)) /\ Begin(f, "delete", i - 1, view[i].id)
      BY <1>5 DEF BeginRetry, TypeInv
    <2> QED BY <1>1, <1>2, <2>1, <2>2, <2>3, StageNames DEF Streams
  <1> QED BY <1>3, <1>4, <1>5

LEMMA FailsOwned ==
    ASSUME TypeInv, Allotted, Owned, NEW f \in Flows, NotFound(f) \/ CallFails(f)
    PROVE  Owned'
  <1>1. flow[f].stage \in Calls /\ Resume(f, 0) /\ UNCHANGED <<loading, rows, made, tx>> /\ made \in Nat
    BY DEF NotFound, CallFails, TypeInv
  <1>2. Kept' = Kept
    BY <1>1 DEF Kept, Saved
  <1>3. \A r \in Kept : r.id \in 1..made /\ r.id # 0
    BY KeptIs, <1>1
  <1>4. Fits(Kept, view) /\ \A g \in Flows : Held(Kept, flow[g], g)
    BY DEF Owned
  <1>5. Fits(Kept, view') /\ \A g \in Flows : Held(Kept, flow'[g], g)
    BY <1>1, <1>3, <1>4, ResumeHolds
  <1>6. loading'.answer # <<>> => Fits(Kept, loading'.answer[1])
    BY <1>1 DEF Owned
  <1> QED BY <1>2, <1>5, <1>6, OwnedStays

LEMMA WriteOwned ==
    ASSUME TypeInv, Allotted, Owned, NEW f \in Flows, Write(f)
    PROVE  Owned'
  <1>1. /\ flow[f].stage \in Calls /\ made \in Nat /\ UNCHANGED <<loading, rows>>
        /\ \A g \in Flows : flow[g] \in Handlers(made)
        /\ view \in Seq(UpTo(made)) /\ loading.answer \in Seq(Seq(UpTo(made)))
    BY DEF Write, TypeInv
  <1>2. /\ Sound(Kept) /\ Fits(Kept, view) /\ \A g \in Flows : Held(Kept, flow[g], g)
        /\ loading.answer # <<>> => Fits(Kept, loading.answer[1])
    BY DEF Owned
  <1>3. \A r \in Kept : r.id \in 1..made /\ r.id # 0
    BY KeptIs, <1>1
  <1>4. CASE flow[f].stage = "delete"
    <2>1. tx' = [put |-> <<>>, doomed |-> flow[f].doomed] /\ ~Saves(f) /\ Resume(f, 0)
      BY <1>4 DEF Write, Saves
    <2>2. Kept' \subseteq Kept
      <3>1. DOMAIN tx'.put = {}
        BY <2>1
      <3> QED BY <1>1, <3>1 DEF Kept, Saved
    <2>3. Fits(Kept, view') /\ \A g \in Flows : Held(Kept, flow'[g], g)
      BY <1>1, <1>2, <1>3, <2>1, ResumeHolds
    <2>4. loading'.answer # <<>> => Fits(Kept, loading'.answer[1])
      BY <1>1, <1>2
    <2> QED BY <2>2, <2>3, <2>4, OwnedStays
  <1>5. CASE flow[f].stage # "delete"
    <2> DEFINE p == Put(f)
               K == Kept \cup {p}
    <2>1. /\ Saves(f) \/ flow[f].id \in Saved
          /\ tx' = [put |-> <<p>>, doomed |-> {}]
          /\ made' = IF Saves(f) THEN made + 1 ELSE made
          /\ Resume(f, IF Saves(f) THEN made + 1 ELSE 0) \/ Resume(f, 0)
      BY <1>5 DEF Write
    <2>2. Kept' \subseteq K
      <3>1. DOMAIN tx'.put = {1} /\ tx'.put[1] = p
        BY <2>1
      <3>2. {tx'.put[i] : i \in DOMAIN tx'.put} = {p}
        BY <3>1
      <3> QED BY <1>1, <3>2 DEF Kept, Saved
    <2>3. /\ p \in Records(IF Saves(f) THEN made + 1 ELSE made)
          /\ Saves(f) => /\ p.id = made + 1 /\ p.by = f
                         /\ p.role = (IF flow[f].stage = "saveUser" THEN "user" ELSE "assistant")
                         /\ p.text = (IF flow[f].stage = "saveUser" THEN f ELSE 0)
          /\ ~Saves(f) => LET r == rows[flow[f].id] IN
                          p.id = flow[f].id /\ p.by = r.by /\ p.role = r.role /\ p.text = f
      BY <1>1, <2>1, PutFits
    <2> HIDE DEF p
    <2>4. /\ Sound(K) /\ Fits(K, view) /\ \A g \in Flows : Held(K, flow[g], g)
          /\ loading.answer # <<>> => Fits(K, loading.answer[1])
          /\ \A r \in K : r.id \in 1..made'
          /\ \A r \in K : r.id = made + 1 => r = p
      <3>1. CASE Saves(f)
        <4>1. p.role = "assistant" => p.text \in {0, p.by}
          BY <2>3, <3>1
        <4>2. loading.answer # <<>> => loading.answer[1] \in Seq(UpTo(made))
          <5>1. loading.answer # <<>> => 1 \in 1..Len(loading.answer)
            BY <1>1, EmptySeq
          <5> QED BY <1>1, <5>1, ElementOfSeq
        <4>3. p.id = made + 1 /\ made' = made + 1
          BY <2>1, <2>3, <3>1
        <4>4. /\ \A x \in Handlers(made), g \in Flows : Held(Kept, x, g) => Held(K, x, g)
              /\ \A s \in Seq(UpTo(made)) : Fits(Kept, s) => Fits(K, s)
              /\ Sound(Kept) /\ (p.role = "assistant" => p.text \in {0, p.by}) => Sound(K)
          BY <1>1, <1>3, <4>3, Unknown
        <4>5. /\ \A r \in K : r.id \in 1..made'
              /\ \A r \in K : r.id = made + 1 => r = p
          BY <1>1, <1>3, <4>3
        <4> HIDE DEF K
        <4> QED BY <1>1, <1>2, <4>1, <4>2, <4>4, <4>5
      <3>2. CASE ~Saves(f)
        <4> DEFINE q == rows[flow[f].id]
        <4>1. q \in Kept /\ q.id = flow[f].id /\ made' = made
          BY <2>1, <3>2 DEF Kept, TypeInv
        <4>2. p.id = q.id /\ p.by = q.by /\ p.role = q.role /\ p.text = f
          BY <2>3, <3>2, <4>1
        <4>3. p.role = "assistant" => p.text \in {0, p.by}
          <5>1. flow[f].stage \in {"patchUser", "patchAnswer"}
            BY <1>1, <1>5, <3>2 DEF Calls, Saves
          <5>2. flow[f].stage = "patchUser" => q.role = "user"
            BY <1>2, <4>1 DEF Held
          <5>3. flow[f].stage = "patchAnswer" => q.by = f
            BY <1>2, <4>1 DEF Held, Streams
          <5> QED BY <4>2, <5>1, <5>2, <5>3
        <4> HIDE DEF q
        <4>4. /\ \A x, g : Held(Kept, x, g) => Held(K, x, g)
              /\ \A s : Fits(Kept, s) => Fits(K, s)
              /\ Sound(Kept) /\ (p.role = "assistant" => p.text \in {0, p.by}) => Sound(K)
          BY <4>1, <4>2, Alike
        <4>5. /\ \A r \in K : r.id \in 1..made'
              /\ \A r \in K : r.id = made + 1 => r = p
          BY <1>1, <1>3, <4>1, <4>2
        <4> HIDE DEF K
        <4> QED BY <1>2, <4>3, <4>4, <4>5
      <3> QED BY <3>1, <3>2
    <2> HIDE DEF K
    <2>5. Fits(K, view') /\ \A g \in Flows : Held(K, flow'[g], g)
      <3>1. /\ made' \in Nat /\ made <= made' /\ \A r \in K : r.id # 0
            /\ 0 \in 0..made' /\ (Saves(f) => made + 1 \in 0..made')
        BY <1>1, <2>1, <2>4
      <3>2. CASE Resume(f, 0)
        BY <1>1, <2>4, <3>1, <3>2, ResumeHolds
      <3>3. CASE Saves(f) /\ Resume(f, made + 1)
        <4>1. \A r \in K : r.id = made + 1 =>
                 /\ flow[f].stage = "saveUser" => r.role = "user"
                 /\ flow[f].stage = "saveAnswer" => r.role = "assistant" /\ r.by = f
          BY <2>3, <2>4, <3>3
        <4> QED BY <1>1, <2>4, <3>1, <3>3, <4>1, ResumeHolds
      <3> QED BY <2>1, <3>2, <3>3
    <2>6. Owned'
      <3> DEFINE L == Kept'
      <3>1. L \subseteq K
        BY <2>2
      <3> HIDE DEF L
      <3>2. /\ Sound(K) => Sound(L)
            /\ \A x, g : Held(K, x, g) => Held(L, x, g)
            /\ \A s : Fits(K, s) => Fits(L, s)
        BY <3>1, Fewer
      <3>3. /\ Sound(L) /\ Fits(L, view') /\ (\A g \in Flows : Held(L, flow'[g], g))
            /\ loading'.answer # <<>> => Fits(L, loading'.answer[1])
        BY <1>1, <2>4, <2>5, <3>2
      <3> QED BY <3>3 DEF Owned, L, Sound, Held, Fits
    <2> QED BY <2>6
  <1> QED BY <1>4, <1>5

LEMMA ServedOwned ==
    ASSUME TypeInv, Allotted, Owned, NEW f \in Flows, Look(f) \/ Chunk(f) \/ Streamed(f)
    PROVE  Owned'
  <1>1. /\ made \in Nat /\ flow \in [Flows -> Handlers(made)] /\ Fits(Kept, view) /\ Held(Kept, flow[f], f)
        /\ UNCHANGED <<loading, rows, tx>> /\ \A r \in Kept : r.id # 0
    BY KeptIs DEF Owned, TypeInv, Look, Chunk, Streamed, StreamEnds, StreamFails
  <1>2. CASE Look(f)
    <2>1. PICK x \in Handlers(made) : Looked(f, x) /\ flow' = [flow EXCEPT ![f] = x]
      BY <1>2, LookIs
    <2>2. Held(Kept, x, f) /\ view' = view
      BY <1>1, <1>2, <2>1 DEF Held, Looked, Look
    <2> QED BY <1>1, <2>1, <2>2, OwnedMoves
  <1>3. \A text \in 0..Error : Fits(Kept, Shown(text))
    BY <1>1, Showing DEF Fits
  <1>4. CASE Chunk(f)
    <2> DEFINE x == [flow[f] EXCEPT !.got = TRUE]
    <2>1. x \in Handlers(made) /\ x.stage = flow[f].stage /\ x.id = flow[f].id /\ flow' = [flow EXCEPT ![f] = x]
      BY <1>1, <1>4 DEF Handlers, Chunk
    <2> HIDE DEF x
    <2>2. Held(Kept, x, f)
      BY <1>1, <2>1 DEF Held
    <2>3. Fits(Kept, view')
      BY <1>3, <1>4, ViewIs DEF Chunk
    <2> QED BY <1>1, <2>1, <2>2, <2>3, OwnedMoves
  <1>5. CASE /\ flow[f].stage = "stream" /\ To(f, "patchAnswer", 0, flow[f].id) /\ view' = view
    <2> DEFINE x == Flow("patchAnswer", 0, flow[f].id)
    <2>1. flow[f].id \in 0..made
      BY <1>1 DEF Handlers
    <2>2. x \in Handlers(made) /\ x.stage = "patchAnswer" /\ x.id = flow[f].id
      BY <1>1, <2>1, FlowIs, FlowFits, StageNames
    <2>3. flow' = [flow EXCEPT ![f] = x]
      BY <1>5 DEF To, Flow
    <2> HIDE DEF x
    <2>4. Held(Kept, x, f)
      BY <1>1, <1>5, <2>2 DEF Held, Streams
    <2> QED BY <1>1, <1>5, <2>2, <2>3, <2>4, OwnedMoves
  <1>6. CASE To(f, "done", 0, 0) /\ (view' = view \/ view' = Shown(Error))
    <2> DEFINE x == Flow("done", 0, 0)
    <2>1. x \in Handlers(made) /\ x.stage = "done"
      BY <1>1, FlowIs, FlowFits, StageNames
    <2>2. flow' = [flow EXCEPT ![f] = x]
      BY <1>6 DEF To, Flow
    <2> HIDE DEF x
    <2>3. Held(Kept, x, f)
      BY <2>1 DEF Held, Streams
    <2>4. Fits(Kept, view')
      BY <1>1, <1>3, <1>6, ViewIs
    <2> QED BY <1>1, <2>1, <2>2, <2>3, <2>4, OwnedMoves
  <1> QED BY <1>2, <1>4, <1>5, <1>6 DEF Streamed, StreamEnds, StreamFails, Finish

LEMMA RestOwned ==
    ASSUME TypeInv, Allotted, Owned, Commit \/ CommitFails \/ Reload \/ FetchRead \/ FetchShown
    PROVE  Owned'
  <1>1. /\ Fits(Kept, view) /\ \A g \in Flows : Held(Kept, flow[g], g)
        /\ loading.answer # <<>> => Fits(Kept, loading.answer[1])
        /\ loading.asked \in BOOLEAN
    BY DEF Owned, TypeInv
  <1>2. CASE Commit \/ CommitFails
    <2>1. UNCHANGED <<view, loading, flow>> /\ tx'.put = <<>>
      BY <1>2 DEF Commit, CommitFails, NoTx
    <2>2. DOMAIN tx'.put = {}
      BY <2>1
    <2>3. \A m \in Saved' : rows'[m] \in Kept
      <3>1. CASE CommitFails
        BY <3>1 DEF CommitFails, Saved, Kept
      <3>2. CASE Commit /\ tx.put = <<>>
        BY <3>2, CommitIs DEF Saved, Kept
      <3>3. CASE Commit /\ tx.put # <<>>
        <4>1. tx.put[1] \in Kept
          <5>1. tx.put \in Seq(Records(made))
            BY DEF TypeInv
          <5>2. 1 \in DOMAIN tx.put
            BY <3>3, <5>1, EmptySeq, LenProperties
          <5> QED BY <5>2 DEF Kept
        <4>2. \A m \in Saved' : m = tx.put[1].id \/ m \in Saved
          BY <3>3, CommitIs DEF Saved
        <4>3. \A m \in Saved' : rows'[m] = IF m = tx.put[1].id THEN tx.put[1] ELSE rows[m]
          BY <3>3, CommitIs DEF Saved
        <4> QED BY <4>1, <4>2, <4>3 DEF Kept
      <3> QED BY <1>2, <3>1, <3>2, <3>3
    <2>4. Kept' \subseteq Kept
      BY <2>2, <2>3 DEF Kept
    <2>5. Fits(Kept, view') /\ (\A g \in Flows : Held(Kept, flow'[g], g))
          /\ (loading'.answer # <<>> => Fits(Kept, loading'.answer[1]))
      BY <1>1, <2>1
    <2> QED BY <2>4, <2>5, OwnedStays
  <1>3. CASE Reload
    <2>1. /\ view' = <<>> /\ loading'.answer = <<>> /\ UNCHANGED <<rows, tx>>
          /\ \A g \in Flows : flow'[g] = flow[g] \/ flow'[g] = [NoFlow EXCEPT !.stage = "done"]
      BY <1>3 DEF Reload, Asked
    <2>2. [NoFlow EXCEPT !.stage = "done"].stage = "done"
      BY NoFlowIs DEF NoFlow
    <2>3. \A g \in Flows : Held(Kept, flow'[g], g)
      <3> SUFFICES ASSUME NEW g \in Flows PROVE Held(Kept, flow'[g], g)
        OBVIOUS
      <3>1. flow'[g] = flow[g] \/ flow'[g].stage = "done"
        BY <2>1, <2>2
      <3> QED BY <1>1, <3>1 DEF Held, Streams
    <2>4. Fits(Kept, view') /\ Kept' = Kept
      <3>1. Len(view') = 0
        BY <2>1, EmptySeq
      <3> QED BY <2>1, <3>1 DEF Fits, Kept, Saved
    <2> QED BY <2>1, <2>3, <2>4, OwnedStays
  <1>4. CASE FetchRead
    <2>1. loading'.answer = <<Ordered>> /\ UNCHANGED <<view, flow, rows, tx>>
      BY <1>4 DEF FetchRead, Asked
    <2>2. Kept' = Kept
      BY <2>1 DEF Kept, Saved
    <2>3. Fits(Kept, Ordered)
      <3> DEFINE n == Cardinality(Saved)
      <3>1. /\ \A i \in 1..n : At(i) \in Saved /\ Ordered[i] = Message(rows[At(i)].role, At(i), rows[At(i)].text)
            /\ Len(Ordered) = n
        BY OrderedIs
      <3>2. ASSUME NEW i \in 1..n, NEW r \in Kept, r.id = Ordered[i].id PROVE r.role = Ordered[i].role
        <4>1. /\ Ordered[i].id = At(i) /\ Ordered[i].role = rows[At(i)].role
              /\ rows[At(i)] \in Kept /\ rows[At(i)].id = At(i)
          <5> DEFINE m == At(i)
          <5>1. m \in Saved /\ Ordered[i] = Message(rows[m].role, m, rows[m].text)
            BY <3>1
          <5>2. rows[m].id = m
            BY <5>1 DEF TypeInv
          <5> HIDE DEF m
          <5>3. Ordered[i].id = m /\ Ordered[i].role = rows[m].role
            BY <5>1 DEF Message
          <5>4. rows[m] \in Kept
            BY <5>1 DEF Kept
          <5> QED BY <5>2, <5>3, <5>4 DEF m
        <4> QED BY <3>2, <4>1 DEF Owned, Sound
      <3> QED BY <3>1, <3>2 DEF Fits
    <2> QED BY <1>1, <2>1, <2>2, <2>3, OwnedStays
  <1>5. CASE FetchShown
    <2>1. /\ loading.answer # <<>> /\ view' = loading.answer[1] /\ loading'.answer = <<>>
          /\ UNCHANGED <<flow, rows, tx>>
      BY <1>5 DEF FetchShown, NotLoading
    <2>2. Kept' = Kept
      BY <2>1 DEF Kept, Saved
    <2> QED BY <1>1, <2>1, <2>2, OwnedStays
  <1> QED BY <1>2, <1>3, <1>4, <1>5

LEMMA InitOwned == Init => Owned
  <1> SUFFICES ASSUME Init PROVE Owned
    OBVIOUS
  <1>1. view = <<>> /\ loading.answer = <<>> /\ tx.put = <<>> /\ rows = <<>>
    BY DEF Init, NotLoading, NoTx
  <1>2. Kept = {}
    BY <1>1 DEF Kept, Saved
  <1> QED BY <1>1, <1>2 DEF Owned, Sound, Held, Fits

(***************************************************************************)
(* However handlers overlap and whatever fails, the row of an answer is    *)
(* only ever filled by the handler that made it: ids are given out once,   *)
(* a handler streams to the id its own call was answered with, and an edit *)
(* starts from a message that the tab shows as a prompt.                   *)
(***************************************************************************)
THEOREM AnswersInTheirRow == Spec => []AnswersStayInTheirRow
  <1>1. Init => Owned
    BY InitOwned
  <1>2. TypeInv /\ Allotted /\ Owned /\ [Next]_vars => Owned'
    <2> SUFFICES ASSUME TypeInv, Allotted, Owned, [Next]_vars PROVE Owned'
      OBVIOUS
    <2>1. CASE UNCHANGED vars
      BY <2>1 DEF vars, Owned, Sound, Held, Fits, Kept, Saved
    <2>2. ASSUME NEW f \in Flows, BeginSend(f) \/ \E i \in DOMAIN view : BeginEdit(f, i) \/ BeginRetry(f, i)
          PROVE  Owned'
      BY <2>2, BeginsOwned
    <2>3. ASSUME NEW f \in Flows, Served(f) PROVE Owned'
      BY <2>3, ServedOwned, FailsOwned, WriteOwned DEF Served
    <2>4. ASSUME NEW f \in Flows, Chunk(f) \/ Streamed(f) PROVE Owned'
      BY <2>4, ServedOwned
    <2>5. CASE Commit \/ CommitFails \/ Reload \/ FetchRead \/ FetchShown
      BY <2>5, RestOwned
    <2> QED BY <2>1, <2>2, <2>3, <2>4, <2>5 DEF Next
  <1>3. Owned => AnswersStayInTheirRow
    BY DEF Owned, Sound, Kept, AnswersStayInTheirRow
  <1> QED BY <1>1, <1>2, <1>3, AlwaysTypes, PTL DEF Spec
-----------------------------------------------------------------------------
(***************************************************************************)
(* The first n messages of the tab are the table, row by row, but for the  *)
(* text of the x-th.                                                       *)
(***************************************************************************)
Speaker(i) == IF i % 2 = 1 THEN "user" ELSE "assistant"

Shows(s, n, t, x) ==
    /\ \A i \in 1..n :
         /\ s[i].id \in DOMAIN t /\ t[s[i].id].pos = i - 1
         /\ s[i].role = Speaker(i) /\ t[s[i].id].role = Speaker(i)
         /\ i # x => s[i].text = t[s[i].id].text
    /\ \A m \in DOMAIN t : \E i \in 1..n : s[i].id = m

LEMMA Turns ==
    /\ Speaker(0) = "assistant"
    /\ \A i \in Nat : /\ Speaker(i) \in Parts /\ Speaker(i + 2) = Speaker(i)
                      /\ Speaker(i + 1) = "user" <=> Speaker(i) = "assistant"
  <1>1. ASSUME NEW i \in Nat
        PROVE  (i % 2 = 0 \/ i % 2 = 1) /\ ((i + 1) % 2 = 1 <=> i % 2 = 0) /\ (i + 2) % 2 = i % 2
    OBVIOUS
  <1>2. 0 % 2 = 0
    OBVIOUS
  <1> QED BY <1>1, <1>2 DEF Speaker, Parts

\* The tab alters its messages, or adds to them.
LEMMA Agrees ==
    ASSUME NEW s, NEW n \in Nat, NEW t, NEW x \in Nat, NEW y \in Nat, Shows(s, n, t, y), NEW v,
           \A i \in 1..n : /\ v[i].id = s[i].id /\ v[i].role = s[i].role
                           /\ i # x => i # y /\ v[i].text = s[i].text
    PROVE  Shows(v, n, t, x)
  BY DEF Shows

LEMMA Settles ==
    ASSUME NEW s, NEW n \in Nat, NEW t, NEW x \in Nat, Shows(s, n, t, x),
           \A i \in 1..n : i = x => s[i].text = t[s[i].id].text
    PROVE  Shows(s, n, t, 0)
  BY DEF Shows

\* The table is read with the open write done.
LEMMA SameTable ==
    ASSUME NEW s, NEW n, NEW t, NEW x, NEW u, DOMAIN u = DOMAIN t, \A m \in DOMAIN t : u[m] = t[m]
    PROVE  Shows(s, n, t, x) <=> Shows(s, n, u, x)
  BY DEF Shows

\* The writes that put a row, and that drop rows
Putting(p) == [put |-> <<p>>, doomed |-> {}]
Dropping(d) == [put |-> <<>>, doomed |-> d]

LEMMA Writing ==
    ASSUME NEW p, NEW d
    PROVE  /\ DOMAIN Putting(p).put = {1} /\ Putting(p).put[1] = p /\ Putting(p).doomed = {}
           /\ DOMAIN Dropping(d).put = {} /\ Dropping(d).doomed = d
  BY DEF Putting, Dropping

LEMMA PutSaved == ASSUME NEW t, NEW p PROVE DOMAIN Committed(t, Putting(p)) = DOMAIN t \cup {p.id}
  <1> DEFINE w == Putting(p)
  <1>1. DOMAIN w.put = {1} /\ w.put[1] = p /\ w.doomed = {}
    BY Writing
  <1> HIDE DEF w
  <1>2. DOMAIN Committed(t, w) = DOMAIN t \cup {p.id}
    BY <1>1 DEF Committed
  <1> QED BY <1>2 DEF w

LEMMA PutRows ==
    ASSUME NEW t, NEW p, NEW m \in DOMAIN t \cup {p.id}
    PROVE  Committed(t, Putting(p))[m] = IF m = p.id THEN p ELSE t[m]
  <1> DEFINE w == Putting(p)
  <1>1. DOMAIN w.put = {1} /\ w.put[1] = p /\ w.doomed = {}
    BY Writing
  <1> HIDE DEF w
  <1>2. (\E i \in DOMAIN w.put : w.put[i].id = m) <=> m = p.id
    BY <1>1
  <1>3. {w.put[i].id : i \in DOMAIN w.put} = {p.id}
    BY <1>1
  <1>4. Committed(t, w)[m] = IF m = p.id THEN p ELSE t[m]
    BY <1>1, <1>2, <1>3 DEF Committed
  <1> QED BY <1>4 DEF w

LEMMA DropSaved == ASSUME NEW t, NEW d PROVE DOMAIN Committed(t, Dropping(d)) = DOMAIN t \ d
  <1> DEFINE w == Dropping(d)
  <1>1. DOMAIN w.put = {} /\ w.doomed = d
    BY Writing
  <1> HIDE DEF w
  <1>2. DOMAIN Committed(t, w) = DOMAIN t \ d
    BY <1>1 DEF Committed
  <1> QED BY <1>2 DEF w

LEMMA DropRows ==
    ASSUME NEW t, NEW d, NEW m \in DOMAIN t \ d PROVE Committed(t, Dropping(d))[m] = t[m]
  <1> DEFINE w == Dropping(d)
  <1>1. DOMAIN w.put = {} /\ w.doomed = d
    BY Writing
  <1> HIDE DEF w
  <1>2. Committed(t, w)[m] = t[m]
    BY <1>1 DEF Committed
  <1> QED BY <1>2 DEF w

\* A row is added at the end.
LEMMA Extends ==
    ASSUME NEW s, NEW n \in Nat, NEW t, Shows(s, n, t, 0), NEW p, p.id \notin DOMAIN t, p.pos = n,
           p.role = Speaker(n + 1), NEW v,
           \A i \in 1..n : v[i].id = s[i].id /\ v[i].role = s[i].role /\ v[i].text = s[i].text,
           v[n + 1].id = p.id, v[n + 1].role = p.role, v[n + 1].text = p.text
    PROVE  Shows(v, n + 1, Committed(t, Putting(p)), 0)
  <1> DEFINE u == Committed(t, Putting(p))
  <1>0. u = Committed(t, Putting(p))
    OBVIOUS
  <1> HIDE DEF u
  <1>1. DOMAIN u = DOMAIN t \cup {p.id} /\ \A m \in DOMAIN u : u[m] = IF m = p.id THEN p ELSE t[m]
    <2>1. DOMAIN u = DOMAIN t \cup {p.id}
      BY <1>0, PutSaved
    <2>2. \A m \in DOMAIN t \cup {p.id} : u[m] = IF m = p.id THEN p ELSE t[m]
      BY <1>0, PutRows
    <2> QED BY <2>1, <2>2
  <1>2. \A i \in 1..(n + 1) : i \in 1..n \/ i = n + 1
    OBVIOUS
  <1>3. ASSUME NEW i \in 1..(n + 1)
        PROVE  /\ v[i].id \in DOMAIN u /\ u[v[i].id].pos = i - 1
               /\ v[i].role = Speaker(i) /\ u[v[i].id].role = Speaker(i)
               /\ v[i].text = u[v[i].id].text
    <2>1. CASE i \in 1..n
      <3>1. /\ s[i].id \in DOMAIN t /\ t[s[i].id].pos = i - 1
            /\ s[i].role = Speaker(i) /\ t[s[i].id].role = Speaker(i)
            /\ s[i].text = t[s[i].id].text
        BY <2>1 DEF Shows
      <3>2. u[s[i].id] = t[s[i].id]
        BY <1>1, <3>1
      <3> QED BY <1>1, <2>1, <3>1, <3>2
    <2>2. CASE i = n + 1
      <3>1. (n + 1) - 1 = n
        OBVIOUS
      <3> QED BY <1>1, <2>2, <3>1
    <2> QED BY <1>2, <2>1, <2>2
  <1>4. \A m \in DOMAIN u : \E i \in 1..(n + 1) : v[i].id = m
    <2>1. \A m \in DOMAIN t : \E i \in 1..n : v[i].id = m
      BY DEF Shows
    <2>2. n + 1 \in 1..(n + 1) /\ 1..n \subseteq 1..(n + 1)
      OBVIOUS
    <2> QED BY <1>1, <2>1, <2>2
  <1>5. Shows(v, n + 1, u, 0)
    BY <1>3, <1>4 DEF Shows
  <1> QED BY <1>5 DEF u

\* The row of the x-th message gets the text of the tab.
LEMMA Patches ==
    ASSUME NEW s, NEW n \in Nat, NEW t, NEW x \in 1..n, Shows(s, n, t, x), NEW p, p.id = s[x].id,
           p.pos = t[p.id].pos, p.role = t[p.id].role, p.text = s[x].text
    PROVE  Shows(s, n, Committed(t, Putting(p)), 0)
  <1> DEFINE u == Committed(t, Putting(p))
  <1>0. u = Committed(t, Putting(p))
    OBVIOUS
  <1> HIDE DEF u
  <1>1. DOMAIN u = DOMAIN t \cup {p.id} /\ \A m \in DOMAIN u : u[m] = IF m = p.id THEN p ELSE t[m]
    <2>1. DOMAIN u = DOMAIN t \cup {p.id}
      BY <1>0, PutSaved
    <2>2. \A m \in DOMAIN t \cup {p.id} : u[m] = IF m = p.id THEN p ELSE t[m]
      BY <1>0, PutRows
    <2> QED BY <2>1, <2>2
  <1>2. p.id \in DOMAIN t /\ DOMAIN u = DOMAIN t /\ p.pos = x - 1
    BY <1>1 DEF Shows
  <1>3. ASSUME NEW i \in 1..n
        PROVE  /\ s[i].id \in DOMAIN u /\ u[s[i].id].pos = i - 1
               /\ s[i].role = Speaker(i) /\ u[s[i].id].role = Speaker(i)
               /\ s[i].text = u[s[i].id].text
    <2>1. /\ s[i].id \in DOMAIN t /\ t[s[i].id].pos = i - 1
          /\ s[i].role = Speaker(i) /\ t[s[i].id].role = Speaker(i)
          /\ i # x => s[i].text = t[s[i].id].text
      BY DEF Shows
    <2>2. s[i].id = p.id => i = x
      <3>1. s[i].id = p.id => i - 1 = x - 1
        BY <1>2, <2>1
      <3>2. i - 1 = x - 1 => i = x
        OBVIOUS
      <3> QED BY <3>1, <3>2
    <2>3. CASE i = x
      BY <1>1, <1>2, <2>1, <2>3
    <2>4. CASE i # x
      BY <1>1, <1>2, <2>1, <2>2, <2>4
    <2> QED BY <2>3, <2>4
  <1>4. \A m \in DOMAIN u : \E i \in 1..n : s[i].id = m
    BY <1>2 DEF Shows
  <1>5. Shows(s, n, u, 0)
    BY <1>3, <1>4 DEF Shows
  <1> QED BY <1>5 DEF u

\* All rows from the position k on go.
LEMMA Cuts ==
    ASSUME NEW s, NEW n \in Nat, NEW t, Shows(s, n, t, 0), NEW k \in 0..n,
           NEW d, d = {m \in DOMAIN t : t[m].pos >= k},
           NEW v, \A i \in 1..k : v[i] = s[i]
    PROVE  Shows(v, k, Committed(t, Dropping(d)), 0)
  <1> DEFINE u == Committed(t, Dropping(d))
  <1>0. u = Committed(t, Dropping(d))
    OBVIOUS
  <1> HIDE DEF u
  <1>1. DOMAIN u = DOMAIN t \ d /\ \A m \in DOMAIN u : u[m] = t[m]
    <2>1. DOMAIN u = DOMAIN t \ d
      BY <1>0, DropSaved
    <2>2. \A m \in DOMAIN t \ d : u[m] = t[m]
      BY <1>0, DropRows
    <2> QED BY <2>1, <2>2
  <1>2. ASSUME NEW i \in 1..k
        PROVE  /\ v[i].id \in DOMAIN u /\ u[v[i].id].pos = i - 1
               /\ v[i].role = Speaker(i) /\ u[v[i].id].role = Speaker(i)
               /\ v[i].text = u[v[i].id].text
    <2>1. /\ s[i].id \in DOMAIN t /\ t[s[i].id].pos = i - 1
          /\ s[i].role = Speaker(i) /\ t[s[i].id].role = Speaker(i)
          /\ s[i].text = t[s[i].id].text
      BY DEF Shows
    <2>2. ~(i - 1 >= k)
      OBVIOUS
    <2> QED BY <1>1, <2>1, <2>2
  <1>3. ASSUME NEW m \in DOMAIN u PROVE \E i \in 1..k : v[i].id = m
    <2>1. m \in DOMAIN t /\ ~(t[m].pos >= k)
      BY <1>1, <1>3
    <2>2. PICK i \in 1..n : s[i].id = m
      BY <2>1 DEF Shows
    <2>3. t[m].pos = i - 1
      BY <2>2 DEF Shows
    <2>4. i \in 1..k
      BY <2>1, <2>3
    <2> QED BY <2>2, <2>4
  <1>4. Shows(v, k, u, 0)
    BY <1>2, <1>3 DEF Shows
  <1> QED BY <1>4 DEF u

\* As many rows as messages, and before the j-th as many as before it in the tab
LEMMA Ranks ==
    ASSUME TypeInv, NEW s, NEW n \in Nat, NEW x, Shows(s, n, rows, x), NEW j \in 0..n
    PROVE  Cardinality({m \in Saved : rows[m].pos < j}) = j
  <1> DEFINE P == {m \in Saved : rows[m].pos < j}
             F == [i \in 1..j |-> s[i].id]
  <1>1. \A i \in 1..n : s[i].id \in Saved /\ rows[s[i].id].pos = i - 1
    BY DEF Shows, Saved
  <1>2. 1..j \subseteq 1..n
    OBVIOUS
  <1>3. F \in [1..j -> P]
    <2>1. ASSUME NEW i \in 1..j PROVE s[i].id \in P
      <3>1. s[i].id \in Saved /\ rows[s[i].id].pos = i - 1 /\ i - 1 < j
        BY <1>1, <1>2
      <3> QED BY <3>1
    <2> QED BY <2>1
  <1>4. \A a, b \in 1..j : F[a] = F[b] => a = b
    <2> SUFFICES ASSUME NEW a \in 1..j, NEW b \in 1..j, s[a].id = s[b].id PROVE a = b
      OBVIOUS
    <2>1. a - 1 = b - 1
      BY <1>1, <1>2
    <2> QED BY <2>1
  <1>5. \A m \in P : \E i \in 1..j : F[i] = m
    <2> SUFFICES ASSUME NEW m \in Saved, rows[m].pos < j PROVE \E i \in 1..j : s[i].id = m
      OBVIOUS
    <2>1. PICK i \in 1..n : s[i].id = m
      BY DEF Shows, Saved
    <2>2. rows[m].pos = i - 1
      BY <1>1, <2>1
    <2>3. i \in 1..j
      BY <2>2
    <2> QED BY <2>1, <2>3
  <1> HIDE DEF F, P
  <1>6. F \in Bijection(1..j, P)
    BY <1>3, <1>4, <1>5 DEF Bijection, Injection, Surjection, IsInjective
  <1>7. ExistsBijection(1..j, P)
    BY <1>6 DEF ExistsBijection
  <1>8. IsFiniteSet(1..j) /\ Cardinality(1..j) = j
    BY FS_Interval
  <1>9. Cardinality(P) = j
    BY <1>7, <1>8, FS_Bijection
  <1> QED BY <1>9 DEF P

LEMMA Counted ==
    ASSUME TypeInv, NEW s, NEW n \in Nat, NEW x, Shows(s, n, rows, x)
    PROVE  Cardinality(Saved) = n
  <1>1. \A m \in Saved : rows[m].pos < n
    <2> SUFFICES ASSUME NEW m \in Saved PROVE rows[m].pos < n
      OBVIOUS
    <2>1. PICK i \in 1..n : s[i].id = m
      BY DEF Shows, Saved
    <2>2. rows[m].pos = i - 1
      BY <2>1 DEF Shows
    <2> QED BY <2>2
  <1>2. {m \in Saved : rows[m].pos < n} = Saved
    BY <1>1
  <1>3. n \in 0..n
    OBVIOUS
  <1> QED BY <1>2, <1>3, Ranks

\* What shows the whole table is the list the endpoint answers with.
LEMMA ShownInOrder ==
    ASSUME TypeInv, NEW s \in Seq(UpTo(made)), Shows(s, Len(s), rows, 0)
    PROVE  s = Ordered
  <1> DEFINE n == Len(s)
  <1>1. n \in Nat /\ (\A i \in 1..n : s[i] \in UpTo(made))
    BY LenProperties, ElementOfSeq
  <1>2. \A i \in 1..n : /\ s[i].id \in Saved /\ rows[s[i].id].pos = i - 1
                        /\ s[i].role = rows[s[i].id].role /\ s[i].text = rows[s[i].id].text
    BY <1>1 DEF Shows, Saved
  <1>3. \A m \in Saved : \E i \in 1..n : s[i].id = m
    BY DEF Shows, Saved
  <1>4. Shows(s, n, rows, 0)
    OBVIOUS
  <1> HIDE DEF n
  <1>5. Cardinality(Saved) = n
    BY <1>1, <1>4, Counted
  <1>6. ASSUME NEW j \in 1..n PROVE s[j].id = At(j)
    <2> DEFINE b == s[j].id
               a == At(j)
    <2>1. Below(b) = {m \in Saved : rows[m].pos < j - 1}
      <3>1. b \in Saved /\ rows[b].pos = j - 1
        BY <1>2
      <3>2. \A m \in Saved : rows[m].pos = j - 1 => m = b
        <4> SUFFICES ASSUME NEW m \in Saved, rows[m].pos = j - 1 PROVE m = b
          OBVIOUS
        <4>1. PICK i \in 1..n : s[i].id = m
          BY <1>3
        <4>2. i - 1 = j - 1
          BY <1>2, <4>1
        <4>3. i = j
          BY <4>2
        <4> QED BY <4>1, <4>3
      <3> HIDE DEF b
      <3>3. ~(b < b)
        BY <3>1, Counting
      <3> QED BY <3>1, <3>2, <3>3 DEF Below, Before
    <2>2. Cardinality(Below(b)) = j - 1
      <3>1. j - 1 \in 0..n
        BY <1>1
      <3> QED BY <1>1, <1>4, <2>1, <3>1, Ranks
    <2>3. a \in Saved /\ Cardinality(Below(a)) = j - 1
      BY <1>5, OrderedIs
    <2>4. b \in Saved
      BY <1>2
    <2> HIDE DEF a, b
    <2>5. a # b => Before(a, b) \/ Before(b, a)
      BY <2>3, <2>4, BelowIs
    <2>6. Before(a, b) => Cardinality(Below(a)) < Cardinality(Below(b))
      BY <2>3, <2>4, BelowIs
    <2>7. Before(b, a) => Cardinality(Below(b)) < Cardinality(Below(a))
      BY <2>3, <2>4, BelowIs
    <2>8. ~(j - 1 < j - 1)
      OBVIOUS
    <2>9. a = b
      BY <2>2, <2>3, <2>5, <2>6, <2>7, <2>8
    <2> QED BY <2>9 DEF a, b
  <1>7. Ordered \in Seq(UpTo(made)) /\ Len(Ordered) = n
    BY <1>5, OrderedIs
  <1>8. ASSUME NEW j \in 1..n PROVE s[j] = Ordered[j]
    <2> DEFINE b == s[j].id
    <2>1. Ordered[j] = Message(rows[b].role, b, rows[b].text)
      <3>1. Ordered[j] = Message(rows[At(j)].role, At(j), rows[At(j)].text)
        BY <1>5, OrderedIs
      <3> QED BY <1>6, <3>1
    <2>2. s[j].role = rows[b].role /\ s[j].text = rows[b].text /\ s[j] \in UpTo(made)
      BY <1>1, <1>2
    <2>3. s[j] = [role |-> s[j].role, id |-> s[j].id, text |-> s[j].text]
      BY <2>2 DEF UpTo
    <2> QED BY <2>1, <2>2, <2>3 DEF Message
  <1> QED BY <1>7, <1>8, SeqEqual DEF n
-----------------------------------------------------------------------------
(***************************************************************************)
(* While nothing went wrong: what the tab shows of the table, the open     *)
(* write included, at each stage of the one handler that runs.             *)
(***************************************************************************)
Table == Committed(rows, tx)

\* All of it, but for the text of the x-th message; the last message is an answer.
Whole(v, t, x) == Speaker(Len(v)) = "assistant" /\ Shows(v, Len(v), t, x)

\* saveUser: a prompt and an answer more
Prompting(f, v, t) ==
    /\ Len(v) - 2 \in Nat /\ Speaker(Len(v) - 2) = "assistant" /\ Shows(v, Len(v) - 2, t, 0)
    /\ Unsaved(v[Len(v) - 1], "user", f) /\ Unsaved(v[Len(v)], "assistant", 0)

\* saveAnswer: an answer more
Answering(v, t) ==
    /\ Len(v) - 1 \in Nat /\ Speaker(Len(v) - 1) = "user" /\ Shows(v, Len(v) - 1, t, 0)
    /\ Unsaved(v[Len(v)], "assistant", 0)

\* stream: the answer is saved empty
Filling(h, f, v, t) ==
    /\ Len(v) # 0 /\ Whole(v, t, Len(v)) /\ v[Len(v)].id = h.id /\ t[h.id].text = 0
    /\ v[Len(v)].text = IF h.got THEN f ELSE 0

\* patchAnswer: it is about to be filled
Filled(h, f, v, t) == Len(v) # 0 /\ Whole(v, t, Len(v)) /\ v[Len(v)].id = h.id /\ v[Len(v)].text = f

\* patchUser: the prompt is about to be replaced
Edited(h, f, v, t) ==
    /\ h.keep \in 1..Len(v) /\ Speaker(h.keep) = "user" /\ Whole(v, t, h.keep)
    /\ v[h.keep].id = h.id /\ v[h.keep].text = f

\* delete: what follows the prompt is about to go
Cutting(h, v, t) ==
    /\ h.keep \in 1..Len(v) /\ h.keep + 1 \in 1..Len(v) /\ Speaker(h.keep) = "user" /\ Whole(v, t, 0)
    /\ v[h.keep + 1].id = h.id

Stands(h, f, v, t) ==
    /\ h.stage = "saveUser" => Prompting(f, v, t)
    /\ h.stage = "saveAnswer" => Answering(v, t)
    /\ h.stage = "stream" => Filling(h, f, v, t)
    /\ h.stage = "patchAnswer" => Filled(h, f, v, t)
    /\ h.stage = "patchUser" => Edited(h, f, v, t)
    /\ h.stage = "delete" => Cutting(h, v, t)

\* What the server has read for the handler is so still.
Ready(h, t, x) ==
    h.seen => /\ x = NoTx /\ h.count = Cardinality(DOMAIN t)
              /\ h.stage = "delete" => h.doomed = {m \in DOMAIN t : t[m].pos >= h.keep}

Quiet ==
    mishaps = 0 =>
        /\ \A f, g \in Running : f = g
        /\ Running # {} => ~loading.asked
        /\ \A f \in Running : Stands(flow[f], f, view, Table) /\ Ready(flow[f], rows, tx)
        /\ Running = {} /\ ~loading.asked => Whole(view, Table, 0)
        /\ loading.asked =>
             \E s \in Seq(UpTo(made)) :
                Whole(s, Table, 0) /\ (loading.answer # <<>> => s = loading.answer[1])

LEMMA Settled ==
    ASSUME NEW t, NEW s, NEW n, NEW x
    PROVE  Shows(s, n, Committed(t, NoTx), x) <=> Shows(s, n, t, x)
  <1> DEFINE u == Committed(t, Dropping({}))
  <1>1. DOMAIN u = DOMAIN t
    BY DropSaved
  <1>2. \A m \in DOMAIN t : u[m] = t[m]
    BY DropRows
  <1>3. u = Committed(t, NoTx)
    BY DEF Dropping, NoTx
  <1> HIDE DEF u
  <1>4. Shows(s, n, t, x) <=> Shows(s, n, u, x)
    BY <1>1, <1>2, SameTable
  <1> QED BY <1>3, <1>4

LEMMA TableIs == TypeInv => \A m \in DOMAIN Table : m \in 1..made /\ m # 0
  <1> SUFFICES ASSUME TypeInv PROVE \A m \in DOMAIN Table : m \in 1..made
    OBVIOUS
  <1>1. Saved \subseteq 1..made
    BY DEF TypeInv
  <1>2. tx.put # <<>> => tx.put[1].id \in 1..made
    BY CommitIs DEF Records
  <1> QED BY <1>1, <1>2, CommitIs DEF Table

\* The handler that acts is alone.
LEMMA Acting ==
    ASSUME TypeInv, Quiet, mishaps = 0, NEW f \in Flows, flow[f].stage \notin {"none", "done"}
    PROVE  /\ f \in Running /\ (\A g \in Running : g = f) /\ ~loading.asked
           /\ Stands(flow[f], f, view, Table) /\ Ready(flow[f], rows, tx)
  <1>1. f \in Running
    BY DEF Running
  <1> QED BY <1>1 DEF Quiet

LEMMA QuietMoves ==
    ASSUME TypeInv, NEW f \in Flows, NEW x, flow' = [flow EXCEPT ![f] = x], \A g \in Running : g = f,
           x.stage # "none", ~loading'.asked,
           x.stage # "done" => Stands(x, f, view', Table') /\ Ready(x, rows', tx'),
           x.stage = "done" => Whole(view', Table', 0)
    PROVE  Quiet'
  <1>1. flow'[f] = x /\ \A g \in Flows \ {f} : flow'[g] = flow[g] /\ flow[g].stage \in {"none", "done"}
    BY DEF TypeInv, Running
  <1>2. \A g \in Running' : g = f /\ x.stage # "done"
    BY <1>1 DEF Running
  <1>3. x.stage # "done" => f \in Running'
    BY <1>1 DEF Running
  <1>4. \A g, h \in Running' : g = h
    BY <1>2
  <1>5. \A g \in Running' : Stands(flow'[g], g, view', Table') /\ Ready(flow'[g], rows', tx')
    BY <1>1, <1>2
  <1>6. Running' = {} => Whole(view', Table', 0)
    BY <1>3
  <1> QED BY <1>4, <1>5, <1>6 DEF Quiet

\* A handler that has just come to its stage has read nothing.
LEMMA FreshIsReady == ASSUME NEW stage, NEW keep, NEW id, NEW t, NEW x PROVE Ready(Flow(stage, keep, id), t, x)
  BY FlowIs DEF Ready

LEMMA BeginsQuiet ==
    ASSUME TypeInv, Quiet, mishaps' = 0, NEW f \in Flows,
           BeginSend(f) \/ \E i \in DOMAIN view : BeginEdit(f, i) \/ BeginRetry(f, i)
    PROVE  Quiet'
  <1>1. \A i \in 1..Len(view) : i \in Nat /\ i # 0
    OBVIOUS
  <1>2. Len(view) \in Nat /\ DOMAIN view = 1..Len(view)
    BY ViewIs
  <1>3. ASSUME NEW stage \in Stages \ {"none", "done"}, NEW keep, NEW id, Begin(f, stage, keep, id)
        PROVE  /\ Whole(view, Table, 0) /\ Table' = Table
               /\ Stands(Flow(stage, keep, id), f, view', Table) => Quiet'
    <2>1. /\ MishapIf(Running # {} \/ loading # NotLoading) /\ flow' = [flow EXCEPT ![f] = Flow(stage, keep, id)]
          /\ UNCHANGED <<loading, rows, tx>>
      BY <1>3 DEF Begin, Flow
    <2>2. Running = {} /\ loading = NotLoading /\ mishaps = 0
      BY <2>1, Mishaps
    <2>3. ~loading.asked
      BY <2>2 DEF NotLoading
    <2>4. Whole(view, Table, 0) /\ Table' = Table
      BY <2>1, <2>2, <2>3 DEF Quiet, Table
    <2>5. ASSUME Stands(Flow(stage, keep, id), f, view', Table) PROVE Quiet'
      <3> DEFINE x == Flow(stage, keep, id)
      <3>1. x.stage = stage /\ Ready(x, rows', tx') /\ Stands(x, f, view', Table')
        BY <2>4, <2>5, FlowIs, FreshIsReady
      <3> HIDE DEF x
      <3>2. flow' = [flow EXCEPT ![f] = x] /\ ~loading'.asked
        BY <2>1, <2>3 DEF x
      <3>3. \A g \in Running : g = f
        BY <2>2
      <3> QED BY <3>1, <3>2, <3>3, QuietMoves
    <2> QED BY <2>4, <2>5
  <1>4. CASE BeginSend(f)
    <2>1. Begin(f, "saveUser", 0, 0) /\ "saveUser" \in Stages \ {"none", "done"}
      BY <1>4, StageNames DEF BeginSend
    <2>2. /\ Len(view') = Len(view) + 2 /\ \A i \in 1..Len(view) : view'[i] = view[i]
          /\ Unsaved(view'[Len(view) + 1], "user", f) /\ Unsaved(view'[Len(view) + 2], "assistant", 0)
      BY <1>4, SendIs
    <2>3. Speaker(Len(view)) = "assistant" /\ Shows(view, Len(view), Table, 0)
      BY <1>3, <2>1 DEF Whole
    <2>4. Shows(view', Len(view), Table, 0)
      <3>1. \A i \in 1..Len(view) : /\ view'[i].id = view[i].id /\ view'[i].role = view[i].role
                                    /\ i # 0 => i # 0 /\ view'[i].text = view[i].text
        BY <2>2
      <3> QED BY <1>2, <2>3, <3>1, Agrees
    <2>5. Prompting(f, view', Table)
      <3>1. Len(view') - 2 = Len(view) /\ Len(view') - 1 = Len(view) + 1
        BY <1>2, <2>2
      <3> QED BY <1>2, <2>2, <2>3, <2>4, <3>1 DEF Prompting
    <2>6. Stands(Flow("saveUser", 0, 0), f, view', Table)
      BY <2>5, FlowIs DEF Stands
    <2> QED BY <1>3, <2>1, <2>6
  <1>5. ASSUME NEW i \in DOMAIN view, BeginEdit(f, i) PROVE Quiet'
    <2> DEFINE id == view[i].id
    <2>1. Begin(f, "patchUser", i, id) /\ "patchUser" \in Stages \ {"none", "done"} /\ view[i].role = "user"
      BY <1>5, StageNames DEF BeginEdit
    <2>2. /\ i \in 1..Len(view) /\ Len(view') = Len(view)
          /\ \A j \in 1..Len(view) : /\ view'[j].id = view[j].id /\ view'[j].role = view[j].role
                                     /\ view'[j].text = IF j = i THEN f ELSE view[j].text
      BY <1>5, EditIs
    <2>3. Speaker(Len(view)) = "assistant" /\ Shows(view, Len(view), Table, 0)
      BY <1>3, <2>1 DEF Whole
    <2>4. Speaker(i) = "user"
      BY <2>1, <2>2, <2>3 DEF Shows
    <2>5. Shows(view', Len(view), Table, i)
      <3>1. \A j \in 1..Len(view) : /\ view'[j].id = view[j].id /\ view'[j].role = view[j].role
                                    /\ j # i => j # 0 /\ view'[j].text = view[j].text
        BY <2>2
      <3>2. i \in Nat
        BY <2>2
      <3> QED BY <1>2, <2>3, <3>1, <3>2, Agrees
    <2> DEFINE x == Flow("patchUser", i, id)
    <2>6. x.stage = "patchUser" /\ x.keep = i /\ x.id = id
      BY FlowIs
    <2> HIDE DEF x
    <2>7. Edited(x, f, view', Table)
      BY <2>2, <2>3, <2>4, <2>5, <2>6 DEF Edited, Whole
    <2>8. Stands(x, f, view', Table)
      BY <2>6, <2>7 DEF Stands
    <2> QED BY <1>3, <2>1, <2>8 DEF x
  <1>6. ASSUME NEW i \in DOMAIN view, BeginRetry(f, i) PROVE Quiet'
    <2> DEFINE id == view[i].id
               k == i - 1
    <2>1. /\ Begin(f, "delete", k, id) /\ "delete" \in Stages \ {"none", "done"}
          /\ view[i].role = "assistant" /\ view' = view
      BY <1>6, StageNames DEF BeginRetry
    <2>2. i \in 1..Len(view) /\ k \in Nat /\ k + 1 = i
      BY <1>2
    <2>3. Whole(view, Table, 0)
      BY <1>3, <2>1
    <2>4. Speaker(i) = "assistant"
      BY <2>1, <2>2, <2>3 DEF Shows, Whole
    <2>5. Speaker(k) = "user" /\ k \in 1..Len(view)
      <3> HIDE DEF k
      <3>1. Speaker(k) = "user"
        BY <2>2, <2>4, Turns DEF Parts
      <3>2. k # 0
        BY <3>1, Turns
      <3> QED BY <1>2, <2>2, <3>1, <3>2
    <2> DEFINE x == Flow("delete", k, id)
    <2>6. x.stage = "delete" /\ x.keep = k /\ x.id = id
      BY FlowIs
    <2> HIDE DEF x, k
    <2>7. Cutting(x, view', Table)
      BY <2>1, <2>2, <2>3, <2>5, <2>6 DEF Cutting
    <2>8. Stands(x, f, view', Table)
      BY <2>6, <2>7 DEF Stands
    <2> QED BY <1>3, <2>1, <2>8 DEF x, k
  <1> QED BY <1>4, <1>5, <1>6

LEMMA LookQuiet ==
    ASSUME TypeInv, Quiet, mishaps' = 0, NEW f \in Flows, Look(f)
    PROVE  Quiet'
  <1>1. /\ flow[f].stage \in Calls /\ MishapIf(tx # NoTx)
        /\ UNCHANGED <<view, loading, rows, tx>>
    BY DEF Look
  <1>2. mishaps = 0 /\ tx = NoTx
    BY <1>1, Mishaps
  <1>3. flow[f].stage \notin {"none", "done"}
    BY <1>1 DEF Calls
  <1>4. (\A g \in Running : g = f) /\ ~loading.asked /\ Stands(flow[f], f, view, Table)
    BY <1>2, <1>3, Acting
  <1>5. PICK x \in Handlers(made) : Looked(f, x) /\ flow' = [flow EXCEPT ![f] = x]
    BY LookIs
  <1>6. /\ x.stage = flow[f].stage /\ x.keep = flow[f].keep /\ x.id = flow[f].id /\ x.got = flow[f].got
        /\ x.count = Cardinality(Saved) /\ (x.stage = "delete" => x.doomed = Doomed(flow[f].id))
    BY <1>5 DEF Looked
  <1>7. Stands(x, f, view', Table')
    <2>1. Stands(x, f, view, Table)
      BY <1>4, <1>6 DEF Stands, Filling, Filled, Edited, Cutting
    <2>2. Table' = Table
      BY <1>1 DEF Table
    <2> QED BY <1>1, <2>1, <2>2
  <1>8. Ready(x, rows', tx')
    <2>1. ASSUME x.stage = "delete" PROVE x.doomed = {m \in DOMAIN rows : rows[m].pos >= x.keep}
      <3> DEFINE h == flow[f]
                 k == h.keep
                 n == Len(view)
      <3>1. k + 1 \in 1..n /\ Shows(view, n, Table, 0) /\ view[k + 1].id = h.id
        BY <1>4, <1>6, <2>1 DEF Stands, Cutting, Whole
      <3>2. Shows(view, n, rows, 0)
        BY <1>2, <3>1, Settled DEF Table
      <3>3. k \in Nat
        BY DEF TypeInv, Handlers
      <3>4. rows[h.id].pos = k
        <4>1. rows[view[k + 1].id].pos = (k + 1) - 1
          BY <3>1, <3>2 DEF Shows
        <4>2. (k + 1) - 1 = k
          BY <3>3
        <4> QED BY <3>1, <4>1, <4>2
      <3> QED BY <1>6, <2>1, <3>4 DEF Doomed, Saved
    <2>2. x.count = Cardinality(DOMAIN rows)
      BY <1>6 DEF Saved
    <2> QED BY <1>1, <1>2, <2>1, <2>2 DEF Ready
  <1>9. x.stage \notin {"none", "done"} /\ ~loading'.asked
    BY <1>1, <1>3, <1>4, <1>6
  <1> QED BY <1>4, <1>5, <1>7, <1>8, <1>9, QuietMoves

\* With every commit in time, the row a call is about is there.
LEMMA FailsQuiet ==
    ASSUME TypeInv, Quiet, mishaps' = 0, NEW f \in Flows, NotFound(f) \/ CallFails(f)
    PROVE  FALSE
  <1>1. NotFound(f)
    BY Mishaps DEF CallFails
  <1>2. /\ flow[f].stage \in Calls /\ ~Saves(f) /\ MishapIf(tx # NoTx) /\ flow[f].id \notin Saved
    BY <1>1 DEF NotFound
  <1>3. mishaps = 0 /\ tx = NoTx
    BY <1>2, Mishaps
  <1>4. flow[f].stage \in {"patchUser", "delete", "patchAnswer"}
    BY <1>2 DEF Calls, Saves
  <1>5. Stands(flow[f], f, view, Table) /\ Len(view) \in Nat
    BY <1>3, <1>4, Acting, ViewIs
  <1>6. \E x \in 0..Len(view), i \in 1..Len(view) : Shows(view, Len(view), Table, x) /\ view[i].id = flow[f].id
    BY <1>4, <1>5 DEF Stands, Filled, Edited, Cutting, Whole
  <1>7. PICK x \in 0..Len(view), i \in 1..Len(view) : Shows(view, Len(view), Table, x) /\ view[i].id = flow[f].id
    BY <1>6
  <1>8. Shows(view, Len(view), rows, x)
    BY <1>3, <1>7, Settled DEF Table
  <1> QED BY <1>2, <1>7, <1>8 DEF Shows, Saved

\* The call is answered with what the table will hold.
LEMMA WriteIs ==
    ASSUME TypeInv, Quiet, mishaps' = 0, NEW f \in Flows, Write(f)
    PROVE  /\ tx = NoTx /\ rows' = rows /\ ~loading'.asked /\ (\A g \in Running : g = f)
           /\ Stands(flow[f], f, view, Table) /\ flow[f].stage \in Calls
           /\ Resume(f, IF Saves(f) THEN made + 1 ELSE 0)
           /\ flow[f].count = Cardinality(Saved)
           /\ flow[f].stage = "delete" =>
                /\ Table' = Committed(rows, Dropping(flow[f].doomed))
                /\ flow[f].doomed = {m \in DOMAIN rows : rows[m].pos >= flow[f].keep}
           /\ flow[f].stage # "delete" =>
                Table' = Committed(rows, Putting(Put(f))) /\ (Saves(f) \/ flow[f].id \in Saved)
           /\ \A n, x : Shows(view, n, Table, x) <=> Shows(view, n, rows, x)
  <1>1. /\ flow[f].stage \in Calls /\ flow[f].seen /\ tx = NoTx /\ UNCHANGED <<loading, rows>>
        /\ Resume(f, IF Saves(f) THEN made + 1 ELSE 0) /\ UNCHANGED mishaps
    BY Mishaps DEF Write
  <1>2. flow[f].stage \notin {"none", "done"}
    BY <1>1 DEF Calls
  <1>3. /\ (\A g \in Running : g = f) /\ ~loading.asked
        /\ Stands(flow[f], f, view, Table) /\ Ready(flow[f], rows, tx)
    BY <1>1, <1>2, Acting
  <1>4. \A n, x : Shows(view, n, Table, x) <=> Shows(view, n, rows, x)
    BY <1>1, Settled DEF Table
  <1>5. /\ flow[f].count = Cardinality(Saved)
        /\ flow[f].stage = "delete" => flow[f].doomed = {m \in DOMAIN rows : rows[m].pos >= flow[f].keep}
    BY <1>1, <1>3 DEF Ready, Saved
  <1>6. flow[f].stage = "delete" => Table' = Committed(rows, Dropping(flow[f].doomed))
    BY <1>1 DEF Write, Table, Dropping
  <1>7. flow[f].stage # "delete" =>
           Table' = Committed(rows, Putting(Put(f))) /\ (Saves(f) \/ flow[f].id \in Saved)
    BY <1>1 DEF Write, Table, Putting
  <1> QED BY <1>1, <1>3, <1>4, <1>5, <1>6, <1>7

\* saveUser, saveAnswer: the row goes to the end, its id to the message that had none.
LEMMA SaveQuiet ==
    ASSUME TypeInv, Quiet, mishaps' = 0, NEW f \in Flows, Write(f), Saves(f)
    PROVE  Quiet'
  <1> DEFINE p == Put(f)
             ask == flow[f].stage = "saveUser"
             role == IF ask THEN "user" ELSE "assistant"
             n == IF ask THEN Len(view) - 2 ELSE Len(view) - 1
             id == made + 1
  <1>1. /\ ~loading'.asked /\ (\A g \in Running : g = f) /\ Stands(flow[f], f, view, Table) /\ flow[f].stage \in Calls
        /\ Resume(f, id) /\ flow[f].count = Cardinality(Saved) /\ Table' = Committed(rows, Putting(p))
        /\ \A k, x : Shows(view, k, Table, x) <=> Shows(view, k, rows, x)
    <2>1. flow[f].stage # "delete"
      BY DEF Saves
    <2> QED BY <2>1, WriteIs
  <1>2. /\ p.id = id /\ p.pos = flow[f].count /\ p.role = role /\ p.text = (IF ask THEN f ELSE 0)
    BY <1>1, PutFits
  <1> HIDE DEF p
  <1>3. /\ made \in Nat /\ Len(view) \in Nat /\ view \in Seq(UpTo(made))
        /\ ~ask => flow[f].stage = "saveAnswer"
    BY ViewIs DEF TypeInv, Saves
  <1>4. /\ n \in Nat /\ Shows(view, n, rows, 0) /\ Unsaved(view[n + 1], role, IF ask THEN f ELSE 0)
        /\ Speaker(n + 1) = role
        /\ ask => Len(view) = n + 2 /\ Unsaved(view[n + 2], "assistant", 0)
        /\ ~ask => Len(view) = n + 1
    <2>1. CASE ask
      <3>1. Prompting(f, view, Table)
        BY <1>1, <2>1 DEF Stands
      <3>2. (Len(view) - 2) + 1 = Len(view) - 1 /\ (Len(view) - 2) + 2 = Len(view)
        BY <1>3
      <3>3. Speaker((Len(view) - 2) + 1) = "user"
        BY <3>1, Turns DEF Prompting
      <3> QED BY <1>1, <2>1, <3>1, <3>2, <3>3 DEF Prompting
    <2>2. CASE ~ask
      <3>1. Answering(view, Table)
        BY <1>1, <2>2 DEF Stands, Saves
      <3>2. (Len(view) - 1) + 1 = Len(view)
        BY <1>3
      <3>3. Speaker((Len(view) - 1) + 1) = "assistant"
        BY <3>1, Turns DEF Answering, Parts
      <3> QED BY <1>1, <2>2, <3>1, <3>2, <3>3 DEF Answering
    <2> QED BY <2>1, <2>2
  <1>5. view' = Numbered(role, id) /\ flow' = [flow EXCEPT ![f] = IF ask THEN Flow("saveAnswer", 0, 0) ELSE Flow("stream", 0, id)]
    <2>1. id # 0
      BY <1>3
    <2> QED BY <1>1, <2>1 DEF Resume, To, Flow, Saves
  <1>6. /\ Len(view') = Len(view)
        /\ \A i \in 1..Len(view) :
             /\ view'[i].role = view[i].role /\ view'[i].text = view[i].text
             /\ view'[i].id = IF view[i].role = role /\ view[i].id = 0 THEN id ELSE view[i].id
    <2>1. view \in Seq(UpTo(id)) /\ id \in 0..id /\ id \in Nat
      BY <1>3, Grown
    <2> HIDE DEF id, role
    <2> QED BY <1>5, <2>1, Numbering
  <1>7. n + 1 \in 1..Len(view) /\ 1..n \subseteq 1..Len(view)
    BY <1>3, <1>4
  <1>8. \A i \in 1..n : view'[i].id = view[i].id /\ view'[i].role = view[i].role /\ view'[i].text = view[i].text
    <2> SUFFICES ASSUME NEW i \in 1..n PROVE view[i].id # 0
      BY <1>6, <1>7
    <2>1. view[i].id \in DOMAIN rows
      BY <1>4 DEF Shows
    <2> QED BY <2>1 DEF TypeInv, Saved
  <1>9. view'[n + 1].id = id /\ view'[n + 1].role = role /\ view'[n + 1].text = IF ask THEN f ELSE 0
    BY <1>4, <1>6, <1>7 DEF Unsaved
  <1>10. Cardinality(Saved) = n
    BY <1>4, Counted
  <1>11. Shows(view', n + 1, Table', 0)
    <2>1. id \notin DOMAIN rows
      BY <1>3 DEF TypeInv, Saved
    <2> HIDE DEF n, id, role, ask
    <2> QED BY <1>1, <1>2, <1>4, <1>8, <1>9, <1>10, <2>1, Extends
  <1>12. CASE ask
    <2> DEFINE x == Flow("saveAnswer", 0, 0)
    <2>1. x.stage = "saveAnswer" /\ Ready(x, rows', tx')
      BY FlowIs, FreshIsReady
    <2>2. flow' = [flow EXCEPT ![f] = x]
      BY <1>5, <1>12
    <2> HIDE DEF x
    <2>3. Len(view') - 1 = n + 1 /\ n + 2 \in 1..Len(view) /\ Len(view') = n + 2
      BY <1>4, <1>6, <1>12
    <2>4. Unsaved(view'[n + 2], "assistant", 0)
      BY <1>4, <1>6, <1>12, <2>3 DEF Unsaved
    <2>5. Answering(view', Table')
      <3>1. Len(view') - 1 \in Nat /\ Speaker(Len(view') - 1) = "user"
        BY <1>4, <1>12, <2>3
      <3>2. Shows(view', Len(view') - 1, Table', 0)
        BY <1>11, <2>3
      <3> QED BY <2>3, <2>4, <3>1, <3>2 DEF Answering
    <2>6. Stands(x, f, view', Table')
      BY <2>1, <2>5 DEF Stands
    <2> QED BY <1>1, <2>1, <2>2, <2>6, QuietMoves
  <1>13. CASE ~ask
    <2> DEFINE x == Flow("stream", 0, id)
    <2>1. x.stage = "stream" /\ x.id = id /\ ~x.got /\ Ready(x, rows', tx')
      BY FlowIs, FreshIsReady
    <2>2. flow' = [flow EXCEPT ![f] = x]
      BY <1>5, <1>13
    <2> HIDE DEF x
    <2>3. Len(view') = n + 1 /\ n + 1 # 0
      BY <1>4, <1>6, <1>13
    <2>4. Table'[id].text = 0
      <3>1. view'[n + 1].text = Table'[view'[n + 1].id].text
        <4> HIDE DEF n
        <4>1. n + 1 \in 1..(n + 1) /\ n + 1 # 0
          BY <1>4
        <4> QED BY <1>11, <4>1 DEF Shows
      <3> QED BY <1>9, <1>13, <3>1
    <2>5. Shows(view', n + 1, Table', n + 1)
      <3> DEFINE c == n + 1
                 t == Table'
                 v == view'
      <3>1. c \in Nat /\ Shows(v, c, t, 0)
        BY <1>4, <1>11
      <3> HIDE DEF c, t, v
      <3>2. Shows(v, c, t, c)
        BY <3>1, Agrees
      <3> QED BY <3>2 DEF c, t, v
    <2>6. Filling(x, f, view', Table')
      BY <1>4, <1>9, <1>13, <2>1, <2>3, <2>4, <2>5 DEF Filling, Whole
    <2>7. Stands(x, f, view', Table')
      BY <2>1, <2>6 DEF Stands
    <2> QED BY <1>1, <2>1, <2>2, <2>7, QuietMoves
  <1> QED BY <1>12, <1>13

\* patchUser, patchAnswer: the row gets the text that the tab shows already.
LEMMA PatchQuiet ==
    ASSUME TypeInv, Quiet, mishaps' = 0, NEW f \in Flows, Write(f), flow[f].stage \in {"patchUser", "patchAnswer"}
    PROVE  Quiet'
  <1> DEFINE p == Put(f)
             ask == flow[f].stage = "patchUser"
             k == IF ask THEN flow[f].keep ELSE Len(view)
             n == Len(view)
  <1>1. /\ ~loading'.asked /\ (\A g \in Running : g = f) /\ Stands(flow[f], f, view, Table) /\ flow[f].stage \in Calls
        /\ Resume(f, 0) /\ Table' = Committed(rows, Putting(p)) /\ flow[f].id \in Saved
        /\ \A i, x : Shows(view, i, Table, x) <=> Shows(view, i, rows, x)
    <2>1. flow[f].stage # "delete" /\ ~Saves(f)
      BY DEF Saves
    <2> QED BY <2>1, WriteIs
  <1>2. p.id = flow[f].id /\ p.pos = rows[p.id].pos /\ p.role = rows[p.id].role /\ p.text = f
    <2>1. ~Saves(f)
      BY DEF Saves
    <2> QED BY <1>1, <2>1, PutFits
  <1> HIDE DEF p
  <1>3. n \in Nat
    BY ViewIs
  <1>4. /\ k \in 1..n /\ Shows(view, n, rows, k) /\ view[k].id = flow[f].id /\ view[k].text = f
        /\ Speaker(n) = "assistant" /\ (ask => Speaker(k) = "user")
    <2>1. CASE ask
      BY <1>1, <2>1 DEF Stands, Edited, Whole
    <2>2. CASE ~ask
      BY <1>1, <1>3, <2>2 DEF Stands, Filled, Whole
    <2> QED BY <2>1, <2>2
  <1>5. Shows(view, n, Table', 0)
    <2> HIDE DEF k, n, ask
    <2> QED BY <1>1, <1>2, <1>3, <1>4, Patches
  <1>6. CASE ~ask
    <2> DEFINE x == Flow("done", 0, 0)
    <2>1. flow[f].stage = "patchAnswer" /\ x.stage = "done"
      BY <1>6, FlowIs
    <2>2. flow' = [flow EXCEPT ![f] = x] /\ view' = view
      BY <1>1, <2>1 DEF Resume, Finish, To, Flow
    <2> HIDE DEF x
    <2>3. Whole(view', Table', 0)
      BY <1>4, <1>5, <2>2 DEF Whole
    <2> QED BY <1>1, <2>1, <2>2, <2>3, QuietMoves
  <1>7. CASE ask
    <2> DEFINE keep == flow[f].keep
               id == view[keep + 1].id
               x == Flow("delete", keep, id)
    <2>1. keep \in 1..n /\ Speaker(keep) = "user"
      BY <1>4, <1>7
    <2>2. keep + 1 \in 1..n /\ n > keep
      <3>1. keep # n
        BY <1>4, <2>1
      <3> HIDE DEF keep, n
      <3> QED BY <1>3, <2>1, <3>1
    <2>3. id # 0
      <3>1. id \in DOMAIN rows
        BY <1>4, <2>2 DEF Shows
      <3> QED BY <3>1 DEF TypeInv, Saved
    <2>4. flow' = [flow EXCEPT ![f] = x] /\ view' = view
      BY <1>1, <1>7, <2>2, <2>3 DEF Resume, To, Flow
    <2> HIDE DEF id
    <2>5. x.stage = "delete" /\ x.keep = keep /\ x.id = id /\ Ready(x, rows', tx')
      BY FlowIs, FreshIsReady
    <2> HIDE DEF x, keep
    <2>6. Cutting(x, view', Table')
      BY <1>4, <1>5, <2>1, <2>2, <2>4, <2>5 DEF Cutting, Whole, id
    <2>7. Stands(x, f, view', Table')
      BY <2>5, <2>6 DEF Stands
    <2> QED BY <1>1, <2>4, <2>5, <2>7, QuietMoves
  <1> QED BY <1>6, <1>7

\* delete: the rows go that the tab no longer shows.
LEMMA CutQuiet ==
    ASSUME TypeInv, Quiet, mishaps' = 0, NEW f \in Flows, Write(f), flow[f].stage = "delete"
    PROVE  Quiet'
  <1> DEFINE d == flow[f].doomed
             k == flow[f].keep
             n == Len(view)
             x == Flow("saveAnswer", 0, 0)
  <1>1. /\ ~loading'.asked /\ (\A g \in Running : g = f) /\ Stands(flow[f], f, view, Table)
        /\ Resume(f, 0) /\ Table' = Committed(rows, Dropping(d))
        /\ d = {m \in DOMAIN rows : rows[m].pos >= k}
        /\ \A i, y : Shows(view, i, Table, y) <=> Shows(view, i, rows, y)
    <2>1. ~Saves(f)
      BY DEF Saves
    <2> QED BY <2>1, WriteIs
  <1>2. Cutting(flow[f], view, Table)
    BY <1>1 DEF Stands
  <1>3. k \in 1..n /\ Speaker(k) = "user" /\ Shows(view, n, rows, 0) /\ n \in Nat
    BY <1>1, <1>2, ViewIs DEF Cutting, Whole
  <1>4. flow' = [flow EXCEPT ![f] = x] /\ view' = Truncated(k)
    BY <1>1 DEF Resume, Restart, To, Flow, Truncated
  <1>5. x.stage = "saveAnswer" /\ Ready(x, rows', tx')
    BY FlowIs, FreshIsReady
  <1> HIDE DEF x
  <1>6. /\ Len(view') = k + 1 /\ \A i \in 1..k : view'[i] = view[i]
        /\ view'[k + 1] = Message("assistant", 0, 0)
    <2>1. view \in Seq(UpTo(made)) /\ made \in Nat /\ k \in Nat
      BY <1>3 DEF TypeInv
    <2>2. k <= Len(view)
      BY <1>3
    <2> HIDE DEF k
    <2> QED BY <1>4, <2>1, <2>2, Truncating
  <1>7. Shows(view', k, Table', 0)
    <2> HIDE DEF d, k, n
    <2>1. k \in 0..n
      BY <1>3
    <2> QED BY <1>1, <1>3, <1>6, <2>1, Cuts
  <1>8. Answering(view', Table')
    <2>1. Unsaved(view'[k + 1], "assistant", 0)
      BY <1>6 DEF Unsaved, Message
    <2>2. Len(view') - 1 = k /\ Len(view') = k + 1 /\ k \in Nat
      <3>1. k \in Nat
        BY <1>3
      <3> HIDE DEF k
      <3> QED BY <1>6, <3>1
    <2> HIDE DEF k
    <2> QED BY <1>3, <1>7, <2>1, <2>2 DEF Answering
  <1>9. Stands(x, f, view', Table')
    BY <1>5, <1>8 DEF Stands
  <1> QED BY <1>1, <1>4, <1>5, <1>9, QuietMoves

LEMMA WriteQuiet == ASSUME TypeInv, Quiet, mishaps' = 0, NEW f \in Flows, Write(f) PROVE Quiet'
  <1>1. Saves(f) \/ flow[f].stage \in {"patchUser", "patchAnswer"} \/ flow[f].stage = "delete"
    BY DEF Write, Calls, Saves
  <1> QED BY <1>1, SaveQuiet, PatchQuiet, CutQuiet

\* The answer streams in, and is saved if there is any.
LEMMA StreamQuiet ==
    ASSUME TypeInv, Quiet, mishaps' = 0, NEW f \in Flows, Chunk(f) \/ Streamed(f)
    PROVE  Quiet'
  <1> DEFINE n == Len(view)
             h == flow[f]
  <1>1. Chunk(f) \/ StreamEnds(f)
    BY Mishaps DEF Streamed, StreamFails
  <1>2. h.stage = "stream" /\ UNCHANGED <<loading, rows, tx, mishaps>>
    BY <1>1 DEF Chunk, StreamEnds
  <1>3. /\ (\A g \in Running : g = f) /\ ~loading'.asked /\ Stands(h, f, view, Table) /\ Ready(h, rows, tx)
    BY <1>2, Acting
  <1>4. /\ n \in 1..n /\ Speaker(n) = "assistant" /\ Shows(view, n, Table, n) /\ n \in Nat
        /\ view[n].id = h.id /\ Table[h.id].text = 0 /\ view[n].text = (IF h.got THEN f ELSE 0)
    <2>1. Len(view) \in Nat
      BY ViewIs
    <2> QED BY <1>2, <1>3, <2>1 DEF Stands, Filling, Whole
  <1>5. view[n].role = "assistant" /\ h.id # 0 /\ Table' = Table
    <2>1. view[n].role = Speaker(n) /\ view[n].id \in DOMAIN Table
      BY <1>4 DEF Shows
    <2>2. Table' = Table
      BY <1>2 DEF Table
    <2> QED BY <1>4, <2>1, <2>2, TableIs
  <1>6. CASE Chunk(f)
    <2> DEFINE x == [h EXCEPT !.got = TRUE]
    <2>1. h \in Handlers(made) /\ flow' = [flow EXCEPT ![f] = x]
      BY <1>6 DEF Chunk, TypeInv
    <2>2. /\ x.stage = h.stage /\ x.id = h.id /\ x.keep = h.keep /\ x.got
          /\ x.seen = h.seen /\ x.count = h.count /\ x.doomed = h.doomed
      <3> HIDE DEF h
      <3> QED BY <2>1 DEF Handlers
    <2> HIDE DEF x
    <2>3. /\ Len(view') = n
          /\ \A i \in 1..n : /\ view'[i].role = view[i].role /\ view'[i].id = view[i].id
                             /\ view'[i].text = IF i = n /\ view[i].role = "assistant" THEN f ELSE view[i].text
      BY <1>6, Showing, ViewIs DEF Chunk
    <2>4. Shows(view', n, Table', n)
      <3>1. \A i \in 1..n : /\ view'[i].id = view[i].id /\ view'[i].role = view[i].role
                            /\ i # n => i # n /\ view'[i].text = view[i].text
        BY <2>3
      <3> HIDE DEF n
      <3> QED BY <1>4, <1>5, <3>1, Agrees
    <2>5. Filling(x, f, view', Table')
      <3>1. view'[n].text = f /\ view'[n].id = h.id /\ n # 0
        BY <1>4, <1>5, <2>3
      <3> HIDE DEF n, h
      <3> QED BY <1>4, <1>5, <2>2, <2>3, <2>4, <3>1 DEF Filling, Whole
    <2>6. Stands(x, f, view', Table') /\ Ready(x, rows', tx')
      BY <1>2, <1>3, <2>2, <2>5 DEF Stands, Ready
    <2> QED BY <1>2, <1>3, <2>1, <2>2, <2>6, QuietMoves
  <1>7. CASE StreamEnds(f) /\ h.got
    <2> DEFINE x == Flow("patchAnswer", 0, h.id)
    <2>1. flow' = [flow EXCEPT ![f] = x] /\ view' = view
      BY <1>5, <1>7 DEF StreamEnds, To, Flow
    <2>2. x.stage = "patchAnswer" /\ x.id = h.id /\ Ready(x, rows', tx')
      BY FlowIs, FreshIsReady
    <2> HIDE DEF x
    <2>3. Filled(x, f, view', Table')
      BY <1>4, <1>5, <1>7, <2>1, <2>2 DEF Filled, Whole
    <2>4. Stands(x, f, view', Table')
      BY <2>2, <2>3 DEF Stands
    <2> QED BY <1>3, <2>1, <2>2, <2>4, QuietMoves
  <1>8. CASE StreamEnds(f) /\ ~h.got
    <2> DEFINE x == Flow("done", 0, 0)
    <2>1. flow' = [flow EXCEPT ![f] = x] /\ view' = view /\ x.stage = "done"
      BY <1>8, FlowIs DEF StreamEnds, Finish, To, Flow
    <2> HIDE DEF x
    <2>2. Shows(view, n, Table, 0)
      <3>1. \A i \in 1..n : i = n => view[i].text = Table[view[i].id].text
        BY <1>4, <1>8
      <3> HIDE DEF n
      <3> QED BY <1>4, <3>1, Settles
    <2>3. Whole(view', Table', 0)
      BY <1>4, <1>5, <2>1, <2>2 DEF Whole
    <2> QED BY <1>3, <2>1, <2>3, QuietMoves
  <1> QED BY <1>1, <1>6, <1>7, <1>8

LEMMA CommitQuiet ==
    ASSUME TypeInv, Quiet, mishaps' = 0, Commit \/ CommitFails
    PROVE  Quiet'
  <1>1. Commit
    BY Mishaps DEF CommitFails
  <1>2. /\ tx # NoTx /\ UNCHANGED <<view, streaming, loading, flow, begun, made, mishaps>>
        /\ rows' = Table /\ tx' = NoTx
    BY <1>1, CommitIs DEF Commit, Table
  <1>3. Table' = Committed(Table, NoTx)
    BY <1>2 DEF Table
  <1>4. \A s, n, x : Shows(s, n, Table', x) <=> Shows(s, n, Table, x)
    BY <1>3, Settled
  <1>5. \A s, x : Whole(s, Table', x) <=> Whole(s, Table, x)
    BY <1>4 DEF Whole
  <1>6. Running' = Running /\ mishaps = 0
    BY <1>2 DEF Running
  <1>7. \A f \in Running : Stands(flow[f], f, view, Table) /\ Ready(flow[f], rows, tx)
    BY <1>6 DEF Quiet
  <1>8. \A m \in DOMAIN Table : Table'[m] = Table[m]
    <2> DEFINE u == Committed(Table, Dropping({}))
    <2>1. \A m \in DOMAIN Table : u[m] = Table[m]
      BY DropRows
    <2> QED BY <1>3, <2>1 DEF Dropping, NoTx
  <1>9. ASSUME NEW f \in Running PROVE Stands(flow'[f], f, view', Table') /\ Ready(flow'[f], rows', tx')
    <2> DEFINE h == flow[f]
    <2>1. Stands(h, f, view, Table) /\ ~h.seen /\ flow'[f] = h /\ view' = view
      BY <1>2, <1>7 DEF Ready
    <2> HIDE DEF h
    <2>2. Stands(h, f, view, Table')
      <3>1. Prompting(f, view, Table) => Prompting(f, view, Table')
        BY <1>4 DEF Prompting
      <3>2. Answering(view, Table) => Answering(view, Table')
        BY <1>4 DEF Answering
      <3>3. Filling(h, f, view, Table) => Filling(h, f, view, Table')
        <4> SUFFICES ASSUME Filling(h, f, view, Table) PROVE Filling(h, f, view, Table')
          OBVIOUS
        <4>1. Len(view) \in Nat
          BY ViewIs
        <4>2. h.id \in DOMAIN Table
          <5> DEFINE n == Len(view)
          <5>1. n \in 1..n /\ Shows(view, n, Table, n) /\ view[n].id = h.id
            BY <4>1 DEF Filling, Whole
          <5> QED BY <5>1 DEF Shows
        <4>3. Table'[h.id].text = Table[h.id].text
          BY <1>8, <4>2
        <4> QED BY <1>5, <4>3 DEF Filling
      <3>4. Filled(h, f, view, Table) => Filled(h, f, view, Table')
        BY <1>5 DEF Filled
      <3>5. Edited(h, f, view, Table) => Edited(h, f, view, Table')
        BY <1>5 DEF Edited
      <3>6. Cutting(h, view, Table) => Cutting(h, view, Table')
        BY <1>5 DEF Cutting
      <3> QED BY <2>1, <3>1, <3>2, <3>3, <3>4, <3>5, <3>6 DEF Stands
    <2> QED BY <2>1, <2>2 DEF Ready
  <1>10. loading.asked => \E s \in Seq(UpTo(made)) :
                            Whole(s, Table, 0) /\ (loading.answer # <<>> => s = loading.answer[1])
    BY <1>6 DEF Quiet
  <1>11. loading'.asked => \E s \in Seq(UpTo(made')) :
                            Whole(s, Table', 0) /\ (loading'.answer # <<>> => s = loading'.answer[1])
    BY <1>2, <1>5, <1>10
  <1>12. /\ \A f, g \in Running' : f = g
         /\ Running' # {} => ~loading'.asked
         /\ Running' = {} /\ ~loading'.asked => Whole(view', Table', 0)
    BY <1>2, <1>5, <1>6 DEF Quiet
  <1> QED BY <1>6, <1>9, <1>11, <1>12 DEF Quiet

\* The page is loaded afresh: the list is what the tab showed before.
LEMMA FetchQuiet ==
    ASSUME TypeInv, Quiet, mishaps' = 0, Reload \/ FetchRead \/ FetchShown
    PROVE  Quiet'
  <1>1. view \in Seq(UpTo(made))
    BY DEF TypeInv
  <1>2. CASE Reload
    <2>1. mishaps = 0 /\ Running = {}
      BY <1>2, Mishaps DEF Reload
    <2>2. /\ loading'.asked /\ loading'.answer = <<>> /\ UNCHANGED <<made, rows, tx>>
          /\ \A f \in Flows : flow'[f] = flow[f]
      BY <1>2, <2>1 DEF Reload, Asked
    <2>3. Running' = {} /\ Table' = Table
      BY <2>1, <2>2 DEF Running, Table
    <2>4. \E s \in Seq(UpTo(made)) : Whole(s, Table, 0)
      BY <1>1, <2>1 DEF Quiet
    <2> QED BY <2>2, <2>3, <2>4 DEF Quiet
  <1>3. CASE FetchRead
    <2>1. mishaps = 0 /\ Running = {} /\ tx = NoTx
      BY <1>3, Mishaps DEF FetchRead
    <2>2. /\ loading.asked /\ loading'.asked /\ loading'.answer = <<Ordered>> /\ UNCHANGED <<made, rows, tx, flow>>
      BY <1>3 DEF FetchRead, Asked
    <2>3. PICK s \in Seq(UpTo(made)) : Whole(s, Table, 0)
      BY <2>1, <2>2 DEF Quiet
    <2>4. s = Ordered
      <3>1. Shows(s, Len(s), rows, 0)
        BY <2>1, <2>3, Settled DEF Whole, Table
      <3> QED BY <3>1, ShownInOrder
    <2>5. Running' = {} /\ Table' = Table
      BY <2>1, <2>2 DEF Running, Table
    <2>6. loading'.answer[1] = s
      BY <2>2, <2>4
    <2>7. \E r \in Seq(UpTo(made')) : Whole(r, Table', 0) /\ (loading'.answer # <<>> => r = loading'.answer[1])
      BY <2>2, <2>3, <2>5, <2>6
    <2> QED BY <2>2, <2>5, <2>7 DEF Quiet
  <1>4. CASE FetchShown
    <2>1. /\ loading.answer # <<>> /\ view' = loading.answer[1] /\ ~loading'.asked
          /\ UNCHANGED <<made, rows, tx, flow, mishaps>>
      BY <1>4 DEF FetchShown, NotLoading
    <2>2. mishaps = 0 /\ loading.asked
      BY <2>1 DEF TypeInv
    <2>3. Running = {} /\ Whole(loading.answer[1], Table, 0)
      BY <2>1, <2>2 DEF Quiet
    <2>4. Running' = {} /\ Table' = Table
      BY <2>1, <2>3 DEF Running, Table
    <2> QED BY <2>1, <2>3, <2>4 DEF Quiet
  <1> QED BY <1>2, <1>3, <1>4

LEMMA InitQuiet == Init => Quiet
  <1> SUFFICES ASSUME Init PROVE Quiet
    OBVIOUS
  <1>1. view = <<>> /\ rows = <<>> /\ tx = NoTx /\ ~loading.asked
    BY DEF Init, NotLoading
  <1>2. Running = {}
    BY NoFlowIs DEF Init, Running
  <1>3. Shows(view, 0, rows, 0)
    BY <1>1 DEF Shows
  <1>4. Whole(view, Table, 0)
    <2>1. Len(view) = 0
      BY <1>1, EmptySeq
    <2>2. Shows(view, 0, Table, 0)
      BY <1>1, <1>3, Settled DEF Table
    <2> QED BY <2>1, <2>2, Turns DEF Whole
  <1> QED BY <1>1, <1>2, <1>4 DEF Quiet

LEMMA StepQuiet == TypeInv /\ Quiet /\ [Next]_vars => Quiet'
  <1> SUFFICES ASSUME TypeInv, Quiet, [Next]_vars PROVE Quiet'
    OBVIOUS
  <1>1. CASE UNCHANGED vars
    BY <1>1 DEF vars, Quiet, Running, Table
  <1>2. CASE Next /\ mishaps' = 0
    <2>1. ASSUME NEW f \in Flows, BeginSend(f) \/ \E i \in DOMAIN view : BeginEdit(f, i) \/ BeginRetry(f, i)
          PROVE  Quiet'
      BY <1>2, <2>1, BeginsQuiet
    <2>2. ASSUME NEW f \in Flows, Served(f) PROVE Quiet'
      BY <1>2, <2>2, LookQuiet, FailsQuiet, WriteQuiet DEF Served
    <2>3. ASSUME NEW f \in Flows, Chunk(f) \/ Streamed(f) PROVE Quiet'
      BY <1>2, <2>3, StreamQuiet
    <2>4. CASE Commit \/ CommitFails
      BY <1>2, <2>4, CommitQuiet
    <2>5. CASE Reload \/ FetchRead \/ FetchShown
      BY <1>2, <2>5, FetchQuiet
    <2> QED BY <1>2, <2>1, <2>2, <2>3, <2>4, <2>5 DEF Next
  <1>3. CASE mishaps' # 0
    BY <1>3 DEF Quiet
  <1> QED BY <1>1, <1>2, <1>3

LEMMA AlwaysQuiet == Spec => [](TypeInv /\ Quiet)
  <1>1. Init => Quiet
    BY InitQuiet
  <1>2. TypeInv /\ Quiet /\ [Next]_vars => Quiet'
    BY StepQuiet
  <1> QED BY <1>1, <1>2, AlwaysTypes, PTL DEF Spec

\* At rest the tab shows the committed rows.
LEMMA AtRestShown ==
    ASSUME TypeInv, Quiet, mishaps = 0, AtRest
    PROVE  view = Ordered /\ Shows(view, Len(view), rows, 0)
  <1>1. Running = {} /\ ~loading.asked /\ tx = NoTx
    BY DEF AtRest, NotLoading
  <1>2. Whole(view, Table, 0)
    BY <1>1 DEF Quiet
  <1>3. Shows(view, Len(view), rows, 0)
    BY <1>1, <1>2, Settled DEF Whole, Table
  <1> QED BY <1>3, ShownInOrder DEF TypeInv

(***************************************************************************)
(* If the user waits for each answer, nothing fails and commits are in     *)
(* time, the tab at rest shows the table, message by message, after any    *)
(* number of sends, edits and retries.                                     *)
(***************************************************************************)
THEOREM TabShowsTheTable == Spec => []ViewMatchesTable
  <1>1. TypeInv /\ Quiet => ViewMatchesTable
    BY AtRestShown DEF ViewMatchesTable
  <1> QED BY <1>1, AlwaysQuiet, PTL

(***************************************************************************)
(* Under the same conditions the table holds one row at each position, and *)
(* prompts and answers take turns.                                         *)
(***************************************************************************)
THEOREM DialogueIsKept == Spec => []TableIsDialogue
  <1>1. TypeInv /\ Quiet => TableIsDialogue
    <2> SUFFICES ASSUME TypeInv, Quiet, mishaps = 0, AtRest, NEW i \in DOMAIN Ordered
                 PROVE  /\ rows[Ordered[i].id].pos = i - 1
                        /\ rows[Ordered[i].id].role = IF i % 2 = 1 THEN "user" ELSE "assistant"
      BY DEF TableIsDialogue
    <2>1. view = Ordered /\ Shows(view, Len(view), rows, 0)
      BY AtRestShown
    <2>2. i \in 1..Len(view)
      BY <2>1, ViewIs
    <2>3. rows[view[i].id].pos = i - 1 /\ rows[view[i].id].role = Speaker(i)
      BY <2>1, <2>2 DEF Shows
    <2> QED BY <2>1, <2>3 DEF Speaker
  <1> QED BY <1>1, AlwaysQuiet, PTL
=============================================================================
