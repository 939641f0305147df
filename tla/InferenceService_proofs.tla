----------------------- MODULE InferenceService_proofs -----------------------
(***************************************************************************)
(* For every set of requests and every size of the semaphore: the types,   *)
(* the conservation of slots, and the refinement of SlotPool.              *)
(***************************************************************************)
EXTENDS InferenceService, FiniteSetTheorems, TLAPS

LEMMA AppendNotEmpty ==
    ASSUME NEW s \in Seq(Statuses), NEW e \in Statuses
    PROVE  Append(s, e) \in Seq(Statuses) /\ Append(s, e) # <<>>
  <1>1. Append(s, e) \in Seq(Statuses) /\ Len(Append(s, e)) = Len(s) + 1 /\ Len(s) \in Nat
    OBVIOUS
  <1>2. Len(<<>>) = 0
    OBVIOUS
  <1>. QED
    BY <1>1, <1>2

LEMMA TwoRecords ==
    ASSUME NEW s \in Seq(Statuses)
    PROVE  s \o <<"success", "error">> \in Seq(Statuses) /\ s \o <<"success", "error">> # <<>>
  <1>1. <<"success", "error">> \in Seq(Statuses)
    BY DEF Statuses
  <1>2. Len(s \o <<"success", "error">>) = Len(s) + 2 /\ Len(s) \in Nat
    BY <1>1
  <1>3. Len(<<>>) = 0
    OBVIOUS
  <1>. QED
    BY <1>1, <1>2, <1>3

LEMMA RowTypes ==
    ASSUME NEW n \in Nat
    PROVE  {Row(n)} \in SUBSET Rows /\ {[status |-> "success", tokens |-> n]} \in SUBSET Rows
  BY DEF Row, Rows

-----------------------------------------------------------------------------
(***************************************************************************)
(* A step gives one slot, takes one back, or leaves holders, semaphore and *)
(* counter alone.                                                          *)
(***************************************************************************)
Gives(r) ==
    /\ pc[r] \notin Holding /\ value > 0
    /\ \E stage \in Holding : pc' = [pc EXCEPT ![r] = stage]
    /\ value' = value - 1 /\ active' = active + 1

TakesBack(r) ==
    /\ pc[r] \in Holding
    /\ \E stage \in Stages \ Holding : pc' = [pc EXCEPT ![r] = stage]
    /\ Release

Keeps ==
    /\ \/ UNCHANGED pc
       \/ \E r \in Requests, stage \in Stages :
             /\ stage \in Holding <=> pc[r] \in Holding
             /\ pc' = [pc EXCEPT ![r] = stage]
    /\ UNCHANGED <<value, active>>

LEMMA HangUpKinds ==
    ASSUME NEW r \in Requests, HangUp(r)
    PROVE  Keeps \/ TakesBack(r)
  <1>1. CASE pc[r] = "closing"
    BY <1>1 DEF HangUp, Keeps, Goto, Holding, Stages
  <1>2. CASE pc[r] # "closing"
    BY <1>2 DEF HangUp, TakesBack, Goto, Holding, Stages
  <1>. QED
    BY <1>1, <1>2

\* Every action is of one of the three kinds.
LEMMA StepKinds ==
    ASSUME [Next]_vars
    PROVE  Keeps \/ \E r \in Requests : Gives(r) \/ TakesBack(r)
  <1>. USE DEF Goto, Holding, Stages
  <1>1. ASSUME NEW r \in Requests, EnterSlot(r)
        PROVE  Gives(r)
    BY <1>1 DEF EnterSlot, Gives
  <1>2. ASSUME NEW r \in Requests, JsonTimeout(r) \/ JsonError(r) \/ StreamError(r) \/ StreamTimeout(r) \/ LeaveLoop(r)
        PROVE  TakesBack(r)
    BY <1>2 DEF JsonTimeout, JsonError, StreamError, StreamTimeout, LeaveLoop, TakesBack
  <1>3. ASSUME NEW r \in Requests, NEW n \in Reported, JsonAnswer(r, n) \/ JsonEmptyAnswer(r, n)
        PROVE  TakesBack(r)
    BY <1>3 DEF JsonAnswer, JsonEmptyAnswer, TakesBack
  <1>4. ASSUME NEW r \in Requests, NEW n \in Reported, StreamCount(r, n)
        PROVE  Keeps
    BY <1>4 DEF StreamCount, Keeps
  <1>5. ASSUME NEW r \in Requests, NEW m \in {"json", "stream"}, Arrive(r, m)
        PROVE  Keeps
    BY <1>5 DEF Arrive, Keeps
  <1>6. ASSUME NEW r \in Requests,
               \/ Busy(r) \/ StreamOpen(r) \/ StreamChunk(r) \/ ChunkTaken(r) \/ DoneSent(r)
               \/ SkipLine(r) \/ ReadOn(r)
        PROVE  Keeps
    BY <1>6 DEF Busy, StreamOpen, StreamChunk, ChunkTaken, DoneSent, SkipLine, ReadOn, Keeps
  <1>7. ASSUME NEW r \in Requests,
               StreamComplete(r) \/ HangUpOutside(r) \/ WriteUsage(r) \/ Return(r)
        PROVE  Keeps
    BY <1>7 DEF StreamComplete, HangUpOutside, WriteUsage, Return, Keeps
  <1>8. ASSUME Stop \/ Exit \/ Exited \/ UNCHANGED vars
        PROVE  Keeps
    BY <1>8 DEF Stop, Exit, Exited, vars, Keeps
  <1>. QED
    BY <1>1, <1>2, <1>3, <1>4, <1>5, <1>6, <1>7, <1>8, HangUpKinds DEF Next

-----------------------------------------------------------------------------
LEMMA HoldersFinite == IsFiniteSet(Holders) /\ Cardinality(Holders) \in Nat
  BY ServiceAssumption, FS_Subset, FS_CardinalityType DEF Holders

\* What the three kinds do to the set of holders.
LEMMA HoldersAfter ==
    ASSUME TypeOK
    PROVE  /\ Keeps => Holders' = Holders
           /\ \A r \in Requests :
                 /\ Gives(r) => r \notin Holders /\ Holders' = Holders \cup {r}
                 /\ TakesBack(r) => r \in Holders /\ Holders' = Holders \ {r}
  <1>1. pc \in [Requests -> Stages]
    BY DEF TypeOK
  <1>2. Keeps => Holders' = Holders
    BY <1>1 DEF Keeps, Holders
  <1>3. ASSUME NEW r \in Requests, Gives(r)
        PROVE  r \notin Holders /\ Holders' = Holders \cup {r}
    BY <1>1, <1>3 DEF Gives, Holders
  <1>4. ASSUME NEW r \in Requests, TakesBack(r)
        PROVE  r \in Holders /\ Holders' = Holders \ {r}
    BY <1>1, <1>4 DEF TakesBack, Holders
  <1>. QED
    BY <1>2, <1>3, <1>4

\* The slots add up after a step if they did before it.
LEMMA SlotsStep ==
    ASSUME TypeOK, SlotsConserved, [Next]_vars
    PROVE  /\ SlotsConserved'
           /\ value' \in 0..MaxConcurrent /\ active' \in Nat
  <1>1. value \in 0..MaxConcurrent /\ MaxConcurrent \in Nat
    BY ServiceAssumption DEF TypeOK
  <1>2. value + Cardinality(Holders) = MaxConcurrent /\ active = Cardinality(Holders)
    BY DEF SlotsConserved
  <1>3. CASE Keeps
    <2>1. Holders' = Holders /\ value' = value /\ active' = active
      BY <1>3, HoldersAfter DEF Keeps
    <2>. QED
      BY <2>1, <1>1, <1>2, HoldersFinite DEF SlotsConserved
  <1>4. ASSUME NEW r \in Requests, Gives(r)
        PROVE  SlotsConserved' /\ value' \in 0..MaxConcurrent /\ active' \in Nat
    <2>1. Cardinality(Holders') = Cardinality(Holders) + 1
      BY <1>4, HoldersAfter, HoldersFinite, FS_AddElement
    <2>2. value' = value - 1 /\ active' = active + 1 /\ value > 0
      BY <1>4 DEF Gives
    <2>. QED
      BY <2>1, <2>2, <1>1, <1>2, HoldersFinite DEF SlotsConserved
  <1>5. ASSUME NEW r \in Requests, TakesBack(r)
        PROVE  SlotsConserved' /\ value' \in 0..MaxConcurrent /\ active' \in Nat
    <2>1. r \in Holders /\ Cardinality(Holders') = Cardinality(Holders) - 1
      BY <1>5, HoldersAfter, HoldersFinite, FS_RemoveElement
    <2>2. Cardinality(Holders) > 0
      BY <2>1, HoldersFinite, FS_EmptySet
    <2>3. value' = value + 1 /\ active' = active - 1
      BY <1>5 DEF TakesBack, Release
    <2>. QED
      BY <2>1, <2>2, <2>3, <1>1, <1>2, HoldersFinite DEF SlotsConserved
  <1>. QED
    BY <1>3, <1>4, <1>5, StepKinds

-----------------------------------------------------------------------------
\* TypeOK without the two slot variables, whose ranges need SlotsConserved.
RestTyped ==
    /\ engine \in Engines
    /\ mode \in [Requests -> {"json", "stream"}]
    /\ pc \in [Requests -> Stages]
    /\ tokens \in [Requests -> Nat]
    /\ metrics \in [Requests -> Seq(Statuses)]
    /\ wire \in [Requests -> Wires]
    /\ pending \in [Requests -> SUBSET Rows]
    /\ usage \in [Requests -> SUBSET Rows]
    /\ server \in {"up", "stopping", "exited"}
    /\ silent \subseteq Requests

LEMMA RestTypedStep ==
    ASSUME RestTyped, [Next]_vars
    PROVE  RestTyped'
  <1>. USE DEF RestTyped, Goto, Send, Stages, Wires
  <1>0. Reported \subseteq Nat
    BY ServiceAssumption
  <1>a. ASSUME NEW r \in Requests, NEW status \in Statuses, Record(r, status)
        PROVE  metrics' \in [Requests -> Seq(Statuses)]
    BY <1>a, AppendNotEmpty DEF Record
  <1>b. ASSUME NEW r \in Requests, NEW n \in Nat, pending' = [pending EXCEPT ![r] = {Row(n)}]
        PROVE  pending' \in [Requests -> SUBSET Rows]
    BY <1>b, RowTypes
  <1>1. ASSUME NEW r \in Requests, EnterSlot(r)
        PROVE  RestTyped'
    BY <1>1 DEF EnterSlot
  <1>2. ASSUME NEW r \in Requests, Busy(r)
        PROVE  RestTyped'
    BY <1>2 DEF Busy
  <1>3. ASSUME NEW r \in Requests, StreamOpen(r)
        PROVE  RestTyped'
    BY <1>3 DEF StreamOpen
  <1>4. ASSUME NEW r \in Requests, StreamChunk(r)
        PROVE  RestTyped'
    BY <1>4 DEF StreamChunk
  <1>5. ASSUME NEW r \in Requests, ChunkTaken(r)
        PROVE  RestTyped'
    BY <1>5 DEF ChunkTaken
  <1>6. ASSUME NEW r \in Requests, LeaveLoop(r)
        PROVE  RestTyped'
    BY <1>6 DEF LeaveLoop
  <1>7. ASSUME NEW r \in Requests, DoneSent(r)
        PROVE  RestTyped'
    BY <1>7 DEF DoneSent
  <1>8. ASSUME NEW r \in Requests, HangUpOutside(r)
        PROVE  RestTyped'
    BY <1>8 DEF HangUpOutside
  <1>9. ASSUME NEW r \in Requests, WriteUsage(r)
        PROVE  RestTyped'
    BY <1>9 DEF WriteUsage
  <1>10. ASSUME NEW r \in Requests, Return(r)
        PROVE  RestTyped'
    BY <1>10 DEF Return
  <1>11. ASSUME NEW r \in Requests, JsonTimeout(r)
        PROVE  RestTyped'
    <2>1. metrics' \in [Requests -> Seq(Statuses)]
      BY <1>11, <1>a DEF JsonTimeout, Statuses
    <2>. QED
      BY <1>11, <2>1 DEF JsonTimeout
  <1>12. ASSUME NEW r \in Requests, JsonError(r)
        PROVE  RestTyped'
    <2>1. metrics' \in [Requests -> Seq(Statuses)]
      BY <1>12, <1>a DEF JsonError, Statuses
    <2>. QED
      BY <1>12, <2>1 DEF JsonError
  <1>13. ASSUME NEW r \in Requests, StreamError(r)
        PROVE  RestTyped'
    <2>1. metrics' \in [Requests -> Seq(Statuses)]
      BY <1>13, <1>a DEF StreamError, Statuses
    <2>. QED
      BY <1>13, <2>1 DEF StreamError
  <1>14. ASSUME NEW r \in Requests, StreamTimeout(r)
        PROVE  RestTyped'
    <2>1. metrics' \in [Requests -> Seq(Statuses)]
      BY <1>14, <1>a DEF StreamTimeout, Statuses
    <2>. QED
      BY <1>14, <2>1 DEF StreamTimeout
  <1>15. ASSUME NEW r \in Requests, StreamComplete(r)
        PROVE  RestTyped'
    <2>1. metrics' \in [Requests -> Seq(Statuses)]
      BY <1>15, <1>a DEF StreamComplete, Statuses
    <2>2. pending' \in [Requests -> SUBSET Rows]
      BY <1>15, <1>b DEF StreamComplete
    <2>. QED
      BY <1>15, <2>1, <2>2 DEF StreamComplete
  <1>16. ASSUME NEW r \in Requests, HangUp(r)
        PROVE  RestTyped'
    <2>1. metrics' \in [Requests -> Seq(Statuses)]
      BY <1>16, <1>a DEF HangUp, Statuses
    <2>2. pending' \in [Requests -> SUBSET Rows]
      BY <1>16, <1>b DEF HangUp
    <2>. QED
      BY <1>16, <2>1, <2>2 DEF HangUp
  <1>17. ASSUME NEW r \in Requests, NEW n \in Reported, JsonAnswer(r, n)
        PROVE  RestTyped'
    <2>1. metrics' \in [Requests -> Seq(Statuses)]
      BY <1>17, <1>a DEF JsonAnswer, Statuses
    <2>2. pending' \in [Requests -> SUBSET Rows]
      BY <1>17, <1>0, RowTypes DEF JsonAnswer
    <2>. QED
      BY <1>0, <1>17, <2>1, <2>2 DEF JsonAnswer
  <1>18. ASSUME NEW r \in Requests, NEW n \in Reported, JsonEmptyAnswer(r, n)
        PROVE  RestTyped'
    <2>1. metrics' \in [Requests -> Seq(Statuses)]
      BY <1>18, TwoRecords DEF JsonEmptyAnswer
    <2>. QED
      BY <1>18, <2>1 DEF JsonEmptyAnswer
  <1>19. ASSUME NEW r \in Requests, NEW n \in Reported, StreamCount(r, n)
        PROVE  RestTyped'
    BY <1>0, <1>19 DEF StreamCount
  <1>20. ASSUME NEW r \in Requests, NEW m \in {"json", "stream"}, Arrive(r, m)
        PROVE  RestTyped'
    BY <1>20 DEF Arrive
  <1>21. ASSUME Stop \/ Exit \/ Exited \/ UNCHANGED vars
        PROVE  RestTyped'
    BY <1>21 DEF Stop, Exit, Exited, vars
  <1>22. ASSUME NEW r \in Requests, SkipLine(r) \/ ReadOn(r)
        PROVE  RestTyped'
    BY <1>22 DEF SkipLine, ReadOn
  <1>. QED
    BY <1>22, <1>1, <1>2, <1>3, <1>4, <1>5, <1>6, <1>7, <1>8, <1>9, <1>10, <1>11, <1>12, <1>13, <1>14, <1>15, <1>16, <1>17, <1>18, <1>19, <1>20, <1>21 DEF Next

(***************************************************************************)
(* Types and slot accounting hold together: the range of the semaphore     *)
(* needs that the slots add up, and that they add up after a step needs the*)
(* types.                                                                  *)
(***************************************************************************)
THEOREM SlotsNeverLeak == Spec => [](TypeOK /\ SlotsConserved)
  <1>1. Init => TypeOK /\ SlotsConserved
    <2> SUFFICES ASSUME Init
                 PROVE  TypeOK /\ SlotsConserved
      OBVIOUS
    <2>1. Holders = {}
      BY DEF Init, Holders, Holding
    <2>2. SlotsConserved
      BY <2>1, FS_EmptySet, ServiceAssumption DEF Init, SlotsConserved
    <2>3. <<>> \in Seq(Statuses)
      OBVIOUS
    <2>. QED
      BY <2>2, <2>3, ServiceAssumption DEF Init, TypeOK, Stages, Wires
  <1>2. TypeOK /\ SlotsConserved /\ [Next]_vars => TypeOK' /\ SlotsConserved'
    <2> SUFFICES ASSUME TypeOK, SlotsConserved, [Next]_vars
                 PROVE  TypeOK' /\ SlotsConserved'
      OBVIOUS
    <2>1. RestTyped'
      BY RestTypedStep DEF TypeOK, RestTyped
    <2>. QED
      BY <2>1, SlotsStep DEF TypeOK, RestTyped
  <1>. QED
    BY <1>1, <1>2, PTL DEF Spec

-----------------------------------------------------------------------------
(***************************************************************************)
(* What the books of a request say about where it stands: nothing is       *)
(* recorded or logged before its generator or handler ends, something is   *)
(* recorded before anything is logged, and there is one row at most.       *)
(***************************************************************************)
Ended(r) == pc[r] \in {"logging", "end"}
Streaming == {"reading", "chunk", "last", "skipped", "closing"}

Book(r) ==
    /\ ~Ended(r) => /\ metrics[r] = <<>> /\ pending[r] = {} /\ usage[r] = {}
                    /\ wire[r] \in {"nothing", "started", "[DONE]"}
    /\ pc[r] = "logging" => metrics[r] # <<>>
    /\ pc[r] \in Streaming => mode[r] = "stream"

\* What UsageMatchesMetrics says of a row.
Agrees(r, row) ==
    \/ /\ metrics[r] = <<row.status>>
       /\ row.tokens = IF row.status = "success" THEN tokens[r] ELSE 0
    \/ /\ metrics[r] = <<"success">> /\ row.status = "cancelled"
       /\ mode[r] = "stream" /\ tokens[r] = 0 /\ row.tokens = 0

Ledger(r) ==
    /\ \E row : usage[r] \cup pending[r] \subseteq {row}
    /\ \A row \in usage[r] \cup pending[r] : Agrees(r, row)

Books == \A r \in Requests : Book(r) /\ Ledger(r)

LEMMA FirstRecord ==
    ASSUME NEW e
    PROVE  Append(<<>>, e) = <<e>> /\ <<e>> # <<>>
  OBVIOUS

LEMMA RowFields ==
    ASSUME NEW n
    PROVE  /\ Row(n).tokens = n
           /\ Row(n).status = IF n > 0 THEN "success" ELSE "cancelled"
  BY DEF Row

\* The step of request r touches nothing of another request.
Local(r) == \A q \in Requests \ {r} :
    /\ pc'[q] = pc[q] /\ metrics'[q] = metrics[q] /\ wire'[q] = wire[q]
    /\ pending'[q] = pending[q] /\ usage'[q] = usage[q] /\ tokens'[q] = tokens[q]
    /\ mode'[q] = mode[q]

\* So the books of the others stay in order, and only those of r need a look.
LEMMA BooksOf ==
    ASSUME Books, NEW r \in Requests, Local(r), Book(r)' /\ Ledger(r)'
    PROVE  Books'
  <1>1. ASSUME NEW q \in Requests, q # r
        PROVE  Book(q)' /\ Ledger(q)'
    <2>1. Book(q) /\ Ledger(q)
      BY <1>1 DEF Books
    <2>2. /\ pc'[q] = pc[q] /\ metrics'[q] = metrics[q] /\ wire'[q] = wire[q]
          /\ pending'[q] = pending[q] /\ usage'[q] = usage[q] /\ tokens'[q] = tokens[q]
          /\ mode'[q] = mode[q]
      BY <1>1 DEF Local
    <2>3. Book(q)'
      BY <2>1, <2>2 DEF Book, Ended, Streaming
    <2>4. Ledger(q)'
      BY <2>1, <2>2 DEF Ledger, Agrees
    <2>. QED
      BY <2>3, <2>4
  <1>. QED
    BY <1>1 DEF Books

LEMMA BooksStep ==
    ASSUME TypeOK, Books, [Next]_vars
    PROVE  Books'
  <1>. USE DEF Goto, Send, Record, Streaming
  <1>t. /\ pc \in [Requests -> Stages] /\ metrics \in [Requests -> Seq(Statuses)]
        /\ wire \in [Requests -> Wires] /\ tokens \in [Requests -> Nat]
        /\ pending \in [Requests -> SUBSET Rows] /\ usage \in [Requests -> SUBSET Rows]
        /\ mode \in [Requests -> {"json", "stream"}]
    BY DEF TypeOK
  <1>b. ASSUME NEW r \in Requests
        PROVE  Book(r) /\ Ledger(r)
    BY DEF Books
  <1>1. ASSUME NEW r \in Requests, EnterSlot(r)
        PROVE  Books'
    <2>1. Local(r)
      BY <1>t, <1>1 DEF EnterSlot, Local
    <2>2. Book(r)'
      BY <1>t, <1>b, <1>1, FirstRecord DEF EnterSlot, Book, Ended, Holding
    <2>3. Ledger(r)'
      BY <1>t, <1>b, <1>1 DEF EnterSlot, Book, Ledger, Agrees, Ended, Holding
    <2>. QED
      BY <2>1, <2>2, <2>3, BooksOf
  <1>2. ASSUME NEW r \in Requests, Busy(r)
        PROVE  Books'
    <2>1. Local(r)
      BY <1>t, <1>2 DEF Busy, Local
    <2>2. Book(r)'
      BY <1>t, <1>b, <1>2, FirstRecord DEF Busy, Book, Ended, Holding
    <2>3. Ledger(r)'
      BY <1>t, <1>b, <1>2 DEF Busy, Book, Ledger, Agrees, Ended, Holding
    <2>. QED
      BY <2>1, <2>2, <2>3, BooksOf
  <1>3. ASSUME NEW r \in Requests, JsonTimeout(r)
        PROVE  Books'
    <2>1. Local(r)
      BY <1>t, <1>3 DEF JsonTimeout, Local
    <2>2. Book(r)'
      BY <1>t, <1>b, <1>3, FirstRecord DEF JsonTimeout, Book, Ended, Holding
    <2>3. Ledger(r)'
      BY <1>t, <1>b, <1>3 DEF JsonTimeout, Book, Ledger, Agrees, Ended, Holding
    <2>. QED
      BY <2>1, <2>2, <2>3, BooksOf
  <1>4. ASSUME NEW r \in Requests, JsonError(r)
        PROVE  Books'
    <2>1. Local(r)
      BY <1>t, <1>4 DEF JsonError, Local
    <2>2. Book(r)'
      BY <1>t, <1>b, <1>4, FirstRecord DEF JsonError, Book, Ended, Holding
    <2>3. Ledger(r)'
      BY <1>t, <1>b, <1>4 DEF JsonError, Book, Ledger, Agrees, Ended, Holding
    <2>. QED
      BY <2>1, <2>2, <2>3, BooksOf
  <1>5. ASSUME NEW r \in Requests, StreamOpen(r)
        PROVE  Books'
    <2>1. Local(r)
      BY <1>t, <1>5 DEF StreamOpen, Local
    <2>2. Book(r)'
      BY <1>t, <1>b, <1>5, FirstRecord DEF StreamOpen, Book, Ended, Holding
    <2>3. Ledger(r)'
      BY <1>t, <1>b, <1>5 DEF StreamOpen, Book, Ledger, Agrees, Ended, Holding
    <2>. QED
      BY <2>1, <2>2, <2>3, BooksOf
  <1>6. ASSUME NEW r \in Requests, StreamError(r)
        PROVE  Books'
    <2>1. Local(r)
      BY <1>t, <1>6 DEF StreamError, Local
    <2>2. Book(r)'
      BY <1>t, <1>b, <1>6, FirstRecord DEF StreamError, Book, Ended, Holding
    <2>3. Ledger(r)'
      BY <1>t, <1>b, <1>6 DEF StreamError, Book, Ledger, Agrees, Ended, Holding
    <2>. QED
      BY <2>1, <2>2, <2>3, BooksOf
  <1>7. ASSUME NEW r \in Requests, StreamTimeout(r)
        PROVE  Books'
    <2>1. Local(r)
      BY <1>t, <1>7 DEF StreamTimeout, Local
    <2>2. Book(r)'
      BY <1>t, <1>b, <1>7, FirstRecord DEF StreamTimeout, Book, Ended, Holding
    <2>3. Ledger(r)'
      BY <1>t, <1>b, <1>7 DEF StreamTimeout, Book, Ledger, Agrees, Ended, Holding
    <2>. QED
      BY <2>1, <2>2, <2>3, BooksOf
  <1>8. ASSUME NEW r \in Requests, StreamChunk(r)
        PROVE  Books'
    <2>1. Local(r)
      BY <1>t, <1>8 DEF StreamChunk, Local
    <2>2. Book(r)'
      BY <1>t, <1>b, <1>8, FirstRecord DEF StreamChunk, Book, Ended, Holding
    <2>3. Ledger(r)'
      BY <1>t, <1>b, <1>8 DEF StreamChunk, Book, Ledger, Agrees, Ended, Holding
    <2>. QED
      BY <2>1, <2>2, <2>3, BooksOf
  <1>9. ASSUME NEW r \in Requests, ChunkTaken(r)
        PROVE  Books'
    <2>1. Local(r)
      BY <1>t, <1>9 DEF ChunkTaken, Local
    <2>2. Book(r)'
      BY <1>t, <1>b, <1>9, FirstRecord DEF ChunkTaken, Book, Ended, Holding
    <2>3. Ledger(r)'
      BY <1>t, <1>b, <1>9 DEF ChunkTaken, Book, Ledger, Agrees, Ended, Holding
    <2>. QED
      BY <2>1, <2>2, <2>3, BooksOf
  <1>10. ASSUME NEW r \in Requests, LeaveLoop(r)
        PROVE  Books'
    <2>1. Local(r)
      BY <1>t, <1>10 DEF LeaveLoop, Local
    <2>2. Book(r)'
      BY <1>t, <1>b, <1>10, FirstRecord DEF LeaveLoop, Book, Ended, Holding
    <2>3. Ledger(r)'
      BY <1>t, <1>b, <1>10 DEF LeaveLoop, Book, Ledger, Agrees, Ended, Holding
    <2>. QED
      BY <2>1, <2>2, <2>3, BooksOf
  <1>11. ASSUME NEW r \in Requests, DoneSent(r)
        PROVE  Books'
    <2>1. Local(r)
      BY <1>t, <1>11 DEF DoneSent, Local
    <2>2. Book(r)'
      BY <1>t, <1>b, <1>11, FirstRecord DEF DoneSent, Book, Ended, Holding
    <2>3. Ledger(r)'
      BY <1>t, <1>b, <1>11 DEF DoneSent, Book, Ledger, Agrees, Ended, Holding
    <2>. QED
      BY <2>1, <2>2, <2>3, BooksOf
  <1>12. ASSUME NEW r \in Requests, HangUpOutside(r)
        PROVE  Books'
    <2>1. Local(r)
      BY <1>t, <1>12 DEF HangUpOutside, Local
    <2>2. Book(r)'
      BY <1>t, <1>b, <1>12, FirstRecord DEF HangUpOutside, Book, Ended, Holding
    <2>3. Ledger(r)'
      BY <1>t, <1>b, <1>12 DEF HangUpOutside, Book, Ledger, Agrees, Ended, Holding
    <2>. QED
      BY <2>1, <2>2, <2>3, BooksOf
  <1>13. ASSUME NEW r \in Requests, Return(r)
        PROVE  Books'
    <2>1. Local(r)
      BY <1>t, <1>13 DEF Return, Local
    <2>2. Book(r)'
      BY <1>t, <1>b, <1>13, FirstRecord DEF Return, Book, Ended, Holding
    <2>3. Ledger(r)'
      BY <1>t, <1>b, <1>13 DEF Return, Book, Ledger, Agrees, Ended, Holding
    <2>. QED
      BY <2>1, <2>2, <2>3, BooksOf
  <1>14. ASSUME NEW r \in Requests, StreamComplete(r)
        PROVE  Books'
    <2>1. Local(r)
      BY <1>t, <1>14 DEF StreamComplete, Local
    <2>0. Book(r)
      BY <1>b
    <2>2. Book(r)'
      BY <1>t, <2>0, <1>14, FirstRecord DEF StreamComplete, Book, Ended, Holding
    <2>4. metrics[r] = <<>> /\ usage[r] = {}
      BY <2>0, <1>14 DEF StreamComplete, Book, Ended, Holding
    <2>5. /\ metrics'[r] = <<"success">> /\ usage'[r] = {}
          /\ tokens'[r] = tokens[r] /\ pending'[r] = {Row(tokens[r])}
      BY <1>t, <2>4, <1>14, FirstRecord DEF StreamComplete
    <2>6. mode'[r] = "stream"
      BY <2>0, <1>t, <1>14 DEF StreamComplete, Book
    <2>7. tokens[r] \in Nat
      BY <1>t
    <2>8. Agrees(r, Row(tokens[r]))'
      BY <2>5, <2>6, <2>7, RowFields DEF Agrees
    <2>3. Ledger(r)'
      BY <2>5, <2>8 DEF Ledger
    <2>. QED
      BY <2>1, <2>2, <2>3, BooksOf
  <1>15. ASSUME NEW r \in Requests, HangUp(r)
        PROVE  Books'
    <2>1. Local(r)
      BY <1>t, <1>15 DEF HangUp, Local
    <2>0. Book(r)
      BY <1>b
    <2>2. Book(r)'
      BY <1>t, <2>0, <1>15, FirstRecord DEF HangUp, Book, Ended, Holding
    <2>4. metrics[r] = <<>> /\ usage[r] = {}
      BY <2>0, <1>15 DEF HangUp, Book, Ended, Holding
    <2>5. /\ metrics'[r] = <<"cancelled">> /\ usage'[r] = {}
          /\ tokens'[r] = tokens[r] /\ pending'[r] = {Row(0)}
      BY <1>t, <2>4, <1>15, FirstRecord DEF HangUp
    <2>8. Agrees(r, Row(0))'
      BY <2>5, RowFields DEF Agrees
    <2>3. Ledger(r)'
      BY <2>5, <2>8 DEF Ledger
    <2>. QED
      BY <2>1, <2>2, <2>3, BooksOf
  <1>16. ASSUME NEW r \in Requests, WriteUsage(r)
        PROVE  Books'
    <2>1. Local(r)
      BY <1>t, <1>16 DEF WriteUsage, Local
    <2>2. Book(r)'
      BY <1>t, <1>b, <1>16 DEF WriteUsage, Book, Ended
    <2>4. usage'[r] \cup pending'[r] \subseteq usage[r] \cup pending[r]
      BY <1>t, <1>16 DEF WriteUsage
    <2>5. tokens'[r] = tokens[r] /\ metrics'[r] = metrics[r] /\ mode'[r] = mode[r]
      BY <1>t, <1>16 DEF WriteUsage
    <2>6. Ledger(r)
      BY <1>b
    <2>7. PICK row : usage[r] \cup pending[r] \subseteq {row}
      BY <2>6 DEF Ledger
    <2>8. usage'[r] \cup pending'[r] \subseteq {row}
      BY <2>4, <2>7
    <2>3. Ledger(r)'
      BY <2>4, <2>5, <2>6, <2>8 DEF Ledger, Agrees
    <2>. QED
      BY <2>1, <2>2, <2>3, BooksOf
  <1>17. ASSUME NEW r \in Requests, NEW n \in Reported, JsonAnswer(r, n)
        PROVE  Books'
    <2>1. Local(r)
      BY <1>t, <1>17 DEF JsonAnswer, Local
    <2>0. Book(r)
      BY <1>b
    <2>2. Book(r)'
      BY <1>t, <2>0, <1>17, FirstRecord DEF JsonAnswer, Book, Ended
    <2>4. metrics[r] = <<>> /\ usage[r] = {}
      BY <2>0, <1>17 DEF JsonAnswer, Book, Ended
    <2>5. /\ metrics'[r] = <<"success">> /\ usage'[r] = {}
          /\ tokens'[r] = n /\ pending'[r] = {[status |-> "success", tokens |-> n]}
      BY <1>t, <2>4, <1>17, FirstRecord DEF JsonAnswer
    <2>6. Agrees(r, [status |-> "success", tokens |-> n])'
      BY <2>5 DEF Agrees
    <2>3. Ledger(r)'
      BY <2>5, <2>6 DEF Ledger
    <2>. QED
      BY <2>1, <2>2, <2>3, BooksOf
  <1>18. ASSUME NEW r \in Requests, NEW n \in Reported, JsonEmptyAnswer(r, n)
        PROVE  Books'
    <2>1. Local(r)
      BY <1>t, <1>18 DEF JsonEmptyAnswer, Local
    <2>0. Book(r)
      BY <1>b
    <2>4. pc'[r] = "end" /\ usage'[r] = usage[r] /\ pending'[r] = pending[r]
      BY <1>t, <1>18 DEF JsonEmptyAnswer
    <2>5. pending[r] = {} /\ usage[r] = {}
      BY <2>0, <1>18 DEF JsonEmptyAnswer, Book, Ended
    <2>2. Book(r)'
      BY <2>4 DEF Book, Ended
    <2>3. Ledger(r)'
      BY <2>4, <2>5 DEF Ledger
    <2>. QED
      BY <2>1, <2>2, <2>3, BooksOf
  <1>19. ASSUME NEW r \in Requests, NEW n \in Reported, StreamCount(r, n)
        PROVE  Books'
    <2>1. Local(r)
      BY <1>t, <1>19 DEF StreamCount, Local
    <2>2. Book(r)'
      BY <1>t, <1>b, <1>19, FirstRecord DEF StreamCount, Book, Ended
    <2>3. Ledger(r)'
      BY <1>t, <1>b, <1>19 DEF StreamCount, Book, Ledger, Agrees, Ended
    <2>. QED
      BY <2>1, <2>2, <2>3, BooksOf
  <1>20. ASSUME NEW r \in Requests, NEW m \in {"json", "stream"}, Arrive(r, m)
        PROVE  Books'
    <2>1. Local(r)
      BY <1>t, <1>20 DEF Arrive, Local
    <2>2. Book(r)'
      BY <1>t, <1>b, <1>20, FirstRecord DEF Arrive, Book, Ended
    <2>3. Ledger(r)'
      BY <1>t, <1>b, <1>20 DEF Arrive, Book, Ledger, Agrees, Ended
    <2>. QED
      BY <2>1, <2>2, <2>3, BooksOf
  <1>21. CASE Stop \/ Exited \/ UNCHANGED vars
    BY <1>21 DEF Stop, Exited, vars, Books, Book, Ledger, Agrees, Ended
  <1>22. CASE Exit
    <2>1. /\ UNCHANGED <<pc, metrics, wire, usage, tokens, mode>>
          /\ \A r \in Requests : pending'[r] = {}
      BY <1>22 DEF Exit
    <2>. QED
      BY <1>b, <2>1 DEF Books, Book, Ledger, Agrees, Ended
  <1>23. ASSUME NEW r \in Requests, SkipLine(r) \/ ReadOn(r)
        PROVE  Books'
    <2>1. Local(r)
      BY <1>t, <1>23 DEF SkipLine, ReadOn, Local
    <2>2. Book(r)'
      BY <1>t, <1>b, <1>23, FirstRecord DEF SkipLine, ReadOn, Book, Ended, Holding
    <2>3. Ledger(r)'
      BY <1>t, <1>b, <1>23 DEF SkipLine, ReadOn, Book, Ledger, Agrees, Ended, Holding
    <2>. QED
      BY <2>1, <2>2, <2>3, BooksOf
  <1>. QED
    BY <1>23, <1>1, <1>2, <1>3, <1>4, <1>5, <1>6, <1>7, <1>8, <1>9, <1>10, <1>11, <1>12, <1>13, <1>14, <1>15, <1>16, <1>17, <1>18, <1>19, <1>20, <1>21, <1>22 DEF Next

LEMMA BooksFromInit == Init => Books
  <1> SUFFICES ASSUME Init, NEW r \in Requests
               PROVE  Book(r) /\ Ledger(r)
    BY DEF Books
  <1>1. /\ pc[r] = "new" /\ metrics[r] = <<>> /\ pending[r] = {} /\ usage[r] = {}
        /\ wire[r] = "nothing"
    BY DEF Init
  <1>. QED
    BY <1>1 DEF Book, Ledger, Agrees, Ended, Streaming

(***************************************************************************)
(* The strengthened invariant: types, slots and books.                     *)
(***************************************************************************)
THEOREM BooksKept == Spec => []Books
  <1>1. TypeOK /\ Books /\ [Next]_vars => Books'
    BY BooksStep
  <1>. QED
    BY <1>1, BooksFromInit, SlotsNeverLeak, PTL DEF Spec

(***************************************************************************)
(* The row of a request has the status that was counted for it, and the    *)
(* tokens that go with it, however the request ended; but for a stream that*)
(* ends well without tokens (UsageMatchesMetrics, on_complete_callback).   *)
(***************************************************************************)
THEOREM UsageAgrees == Spec => []UsageMatchesMetrics
  <1>1. Books => UsageMatchesMetrics
    <2> SUFFICES ASSUME Books, NEW r \in Requests
                 PROVE  /\ Cardinality(usage[r] \cup pending[r]) <= 1
                        /\ \A row \in usage[r] \cup pending[r] : Agrees(r, row)
      BY DEF UsageMatchesMetrics, Agrees
    <2>1. Ledger(r)
      BY DEF Books
    <2>2. PICK row : usage[r] \cup pending[r] \subseteq {row}
      BY <2>1 DEF Ledger
    <2>3. IsFiniteSet({row}) /\ Cardinality({row}) = 1
      BY FS_Singleton
    <2>4. Cardinality(usage[r] \cup pending[r]) <= 1
      BY <2>2, <2>3, FS_Subset
    <2>. QED
      BY <2>1, <2>4 DEF Ledger
  <1>. QED
    BY <1>1, BooksKept, PTL

-----------------------------------------------------------------------------
(***************************************************************************)
(* Types alone: the semaphore never goes below zero nor above its size.    *)
(***************************************************************************)
THEOREM TypeCorrect == Spec => []TypeOK
  BY SlotsNeverLeak, PTL

\* What StreamCountedOnce says of one request.
CountedOnce(r) ==
    mode[r] = "stream" =>
        IF InGenerator(r) /\ ~InGenerator(r)'
        THEN Len(metrics[r]) = 0 /\ Len(metrics'[r]) = 1
        ELSE metrics'[r] = metrics[r]

\* A step that records nothing, and leaves no generator.
LEMMA NothingCounted ==
    ASSUME NEW r \in Requests, metrics'[r] = metrics[r],
           InGenerator(r) => InGenerator(r)'
    PROVE  CountedOnce(r)
  BY DEF CountedOnce

\* A step that leaves the generator and records its first status.
LEMMA FirstCounted ==
    ASSUME TypeOK, Books, NEW r \in Requests, NEW status, Record(r, status),
           InGenerator(r), ~InGenerator(r)'
    PROVE  CountedOnce(r)
  <1>1. metrics[r] = <<>>
    BY DEF Books, Book, Ended, InGenerator, Holding
  <1>2. metrics'[r] = Append(<<>>, status)
    BY <1>1 DEF Record, TypeOK
  <1>3. Len(metrics[r]) = 0 /\ Len(metrics'[r]) = 1
    BY <1>1, <1>2
  <1>. QED
    BY <1>3 DEF CountedOnce

LEMMA CountedStep ==
    ASSUME TypeOK, Books, [Next]_vars, NEW r \in Requests
    PROVE  CountedOnce(r)
  <1>. USE DEF Goto
  <1>t. pc \in [Requests -> Stages] /\ metrics \in [Requests -> Seq(Statuses)]
    BY DEF TypeOK
  <1>m. ASSUME metrics' = metrics, pc'[r] = pc[r]
        PROVE  CountedOnce(r)
    BY <1>m, NothingCounted DEF InGenerator
  <1>o. ASSUME NEW q \in Requests, q # r, NEW stage, pc' = [pc EXCEPT ![q] = stage],
               \A s \in Requests \ {q} : metrics'[s] = metrics[s]
        PROVE  CountedOnce(r)
    <2>1. pc'[r] = pc[r] /\ metrics'[r] = metrics[r]
      BY <1>t, <1>o
    <2>. QED
      BY <2>1, NothingCounted DEF InGenerator
  <1>1. ASSUME NEW q \in Requests,
               \/ EnterSlot(q) \/ Busy(q) \/ StreamOpen(q) \/ StreamChunk(q) \/ ChunkTaken(q)
               \/ LeaveLoop(q) \/ HangUpOutside(q) \/ Return(q) \/ SkipLine(q) \/ ReadOn(q)
               \/ (\E n \in Reported : StreamCount(q, n))
               \/ (\E m \in {"json", "stream"} : Arrive(q, m))
        PROVE  CountedOnce(r)
    <2>1. PICK stage : pc' = [pc EXCEPT ![q] = stage]
      BY <1>1 DEF EnterSlot, Busy, StreamOpen, StreamChunk, ChunkTaken, LeaveLoop, HangUpOutside,
           Return, StreamCount, Arrive, SkipLine, ReadOn
    <2>2. metrics' = metrics
      BY <1>1 DEF EnterSlot, Busy, StreamOpen, StreamChunk, ChunkTaken, LeaveLoop, HangUpOutside,
           Return, StreamCount, Arrive, SkipLine, ReadOn
    <2>3. InGenerator(q) => InGenerator(q)'
      BY <1>t, <1>1 DEF EnterSlot, Busy, StreamOpen, StreamChunk, ChunkTaken, LeaveLoop,
           HangUpOutside, Return, StreamCount, Arrive, SkipLine, ReadOn, InGenerator, Holding
    <2>4. CASE q = r
      BY <2>2, <2>3, <2>4, NothingCounted
    <2>5. CASE q # r
      BY <2>1, <2>2, <2>5, <1>o
    <2>. QED
      BY <2>4, <2>5
  <1>2. ASSUME NEW q \in Requests,
               StreamError(q) \/ StreamTimeout(q) \/ StreamComplete(q) \/ HangUp(q)
        PROVE  CountedOnce(r)
    <2>1. PICK status : Record(q, status)
      BY <1>2 DEF StreamError, StreamTimeout, StreamComplete, HangUp
    <2>2. PICK stage \in {"end", "logging"} : pc' = [pc EXCEPT ![q] = stage]
      BY <1>2 DEF StreamError, StreamTimeout, StreamComplete, HangUp
    <2>3. InGenerator(q) /\ ~InGenerator(q)'
      <3>1. InGenerator(q)
        BY <1>2 DEF StreamError, StreamTimeout, StreamComplete, HangUp, InGenerator, Holding
      <3>2. pc'[q] \in {"end", "logging"}
        BY <1>t, <2>2
      <3>. QED
        BY <3>1, <3>2 DEF InGenerator, Holding
    <2>4. CASE q = r
      BY <2>1, <2>3, <2>4, FirstCounted
    <2>5. CASE q # r
      BY <1>t, <2>1, <2>2, <2>5, <1>o DEF Record
    <2>. QED
      BY <2>4, <2>5
  <1>3. ASSUME NEW q \in Requests,
               \/ JsonTimeout(q) \/ JsonError(q)
               \/ (\E n \in Reported : JsonAnswer(q, n) \/ JsonEmptyAnswer(q, n))
        PROVE  CountedOnce(r)
    <2>1. /\ mode[q] = "json" /\ \E stage : pc' = [pc EXCEPT ![q] = stage]
          /\ \A s \in Requests \ {q} : metrics'[s] = metrics[s]
      BY <1>t, <1>3 DEF JsonTimeout, JsonError, JsonAnswer, JsonEmptyAnswer, Record
    <2>2. CASE q = r
      BY <2>1, <2>2 DEF CountedOnce
    <2>3. CASE q # r
      BY <2>1, <2>3, <1>o
    <2>. QED
      BY <2>2, <2>3
  <1>4. CASE \/ \E q \in Requests : DoneSent(q) \/ WriteUsage(q)
             \/ Stop \/ Exit \/ Exited \/ UNCHANGED vars
    <2>1. metrics' = metrics /\ pc' = pc
      BY <1>4 DEF DoneSent, WriteUsage, Stop, Exit, Exited, vars
    <2>. QED
      BY <2>1, <1>m
  <1>5. ASSUME NEW q \in Requests,
               \/ EnterSlot(q) \/ Busy(q) \/ JsonTimeout(q) \/ JsonError(q)
               \/ StreamOpen(q) \/ StreamError(q) \/ StreamTimeout(q) \/ StreamChunk(q)
               \/ SkipLine(q) \/ ReadOn(q)
               \/ ChunkTaken(q) \/ LeaveLoop(q) \/ DoneSent(q) \/ StreamComplete(q)
               \/ HangUp(q) \/ HangUpOutside(q) \/ WriteUsage(q) \/ Return(q)
        PROVE  CountedOnce(r)
    BY <1>1, <1>2, <1>3, <1>4, <1>5
  <1>. QED
    BY <1>1, <1>3, <1>4, <1>5 DEF Next

(***************************************************************************)
(* A stream that got its slot is counted once, when it ends, whichever of  *)
(* its handlers ends it (stream_complete, _record_metrics).                *)
(***************************************************************************)
THEOREM CountedAtTheEnd == Spec => StreamCountedOnce
  <1>1. TypeOK /\ Books /\ [Next]_vars =>
            [\A r \in Requests : mode[r] = "stream" =>
                IF InGenerator(r) /\ ~InGenerator(r)'
                THEN Len(metrics[r]) = 0 /\ Len(metrics'[r]) = 1
                ELSE metrics'[r] = metrics[r]]_vars
    BY CountedStep DEF CountedOnce
  <1>. QED
    BY <1>1, TypeCorrect, BooksKept, PTL DEF Spec, StreamCountedOnce

-----------------------------------------------------------------------------
(***************************************************************************)
(* The refinement.  Only Busy turns a request away: every other way to end *)
(* leaves a status in the metrics or cuts nothing.                         *)
(***************************************************************************)
LEMMA TurnedAwayKept ==
    ASSUME TypeOK, Books, [Next]_vars, \A r \in Requests : ~Busy(r)
    PROVE  TurnedAway' = TurnedAway
  <1>. DEFINE Gone(q) == pc[q] = "end" /\ wire[q] \in {"503", "truncated"} /\ metrics[q] = <<>>
  <1>. USE DEF Goto, Send, Record
  <1>t. /\ pc \in [Requests -> Stages] /\ metrics \in [Requests -> Seq(Statuses)]
        /\ wire \in [Requests -> Wires]
    BY DEF TypeOK
  <1>b. ASSUME NEW q \in Requests
        PROVE  Book(q)
    BY DEF Books
  <1>s. ASSUME NEW q \in Requests, NEW e \in Statuses
        PROVE  Append(metrics[q], e) # <<>> /\ metrics[q] \o <<"success", "error">> # <<>>
    BY <1>t, AppendNotEmpty, TwoRecords
  <1>c. ASSUME NEW r \in Requests,
               \A q \in Requests \ {r} :
                  pc'[q] = pc[q] /\ wire'[q] = wire[q] /\ metrics'[q] = metrics[q],
               Gone(r)' <=> Gone(r)
        PROVE  TurnedAway' = TurnedAway
    BY <1>c DEF TurnedAway
  <1>1. ASSUME NEW r \in Requests, EnterSlot(r)
        PROVE  TurnedAway' = TurnedAway
    <2>1. \A q \in Requests \ {r} :
             pc'[q] = pc[q] /\ wire'[q] = wire[q] /\ metrics'[q] = metrics[q]
      BY <1>t, <1>1 DEF EnterSlot
    <2>2. Gone(r)' <=> Gone(r)
      BY <1>t, <1>b, <1>s, <1>1 DEF EnterSlot, Book, Ended, Statuses, Holding
    <2>. QED
      BY <2>1, <2>2, <1>c
  <1>2. ASSUME NEW r \in Requests, JsonTimeout(r)
        PROVE  TurnedAway' = TurnedAway
    <2>1. \A q \in Requests \ {r} :
             pc'[q] = pc[q] /\ wire'[q] = wire[q] /\ metrics'[q] = metrics[q]
      BY <1>t, <1>2 DEF JsonTimeout
    <2>2. Gone(r)' <=> Gone(r)
      BY <1>t, <1>b, <1>s, <1>2 DEF JsonTimeout, Book, Ended, Statuses, Holding
    <2>. QED
      BY <2>1, <2>2, <1>c
  <1>3. ASSUME NEW r \in Requests, JsonError(r)
        PROVE  TurnedAway' = TurnedAway
    <2>1. \A q \in Requests \ {r} :
             pc'[q] = pc[q] /\ wire'[q] = wire[q] /\ metrics'[q] = metrics[q]
      BY <1>t, <1>3 DEF JsonError
    <2>2. Gone(r)' <=> Gone(r)
      BY <1>t, <1>b, <1>s, <1>3 DEF JsonError, Book, Ended, Statuses, Holding
    <2>. QED
      BY <2>1, <2>2, <1>c
  <1>4. ASSUME NEW r \in Requests, StreamOpen(r)
        PROVE  TurnedAway' = TurnedAway
    <2>1. \A q \in Requests \ {r} :
             pc'[q] = pc[q] /\ wire'[q] = wire[q] /\ metrics'[q] = metrics[q]
      BY <1>t, <1>4 DEF StreamOpen
    <2>2. Gone(r)' <=> Gone(r)
      BY <1>t, <1>b, <1>s, <1>4 DEF StreamOpen, Book, Ended, Statuses, Holding
    <2>. QED
      BY <2>1, <2>2, <1>c
  <1>5. ASSUME NEW r \in Requests, StreamError(r)
        PROVE  TurnedAway' = TurnedAway
    <2>1. \A q \in Requests \ {r} :
             pc'[q] = pc[q] /\ wire'[q] = wire[q] /\ metrics'[q] = metrics[q]
      BY <1>t, <1>5 DEF StreamError
    <2>2. Gone(r)' <=> Gone(r)
      BY <1>t, <1>b, <1>s, <1>5 DEF StreamError, Book, Ended, Statuses, Holding
    <2>. QED
      BY <2>1, <2>2, <1>c
  <1>6. ASSUME NEW r \in Requests, StreamTimeout(r)
        PROVE  TurnedAway' = TurnedAway
    <2>1. \A q \in Requests \ {r} :
             pc'[q] = pc[q] /\ wire'[q] = wire[q] /\ metrics'[q] = metrics[q]
      BY <1>t, <1>6 DEF StreamTimeout
    <2>2. Gone(r)' <=> Gone(r)
      BY <1>t, <1>b, <1>s, <1>6 DEF StreamTimeout, Book, Ended, Statuses, Holding
    <2>. QED
      BY <2>1, <2>2, <1>c
  <1>7. ASSUME NEW r \in Requests, StreamChunk(r)
        PROVE  TurnedAway' = TurnedAway
    <2>1. \A q \in Requests \ {r} :
             pc'[q] = pc[q] /\ wire'[q] = wire[q] /\ metrics'[q] = metrics[q]
      BY <1>t, <1>7 DEF StreamChunk
    <2>2. Gone(r)' <=> Gone(r)
      BY <1>t, <1>b, <1>s, <1>7 DEF StreamChunk, Book, Ended, Statuses, Holding
    <2>. QED
      BY <2>1, <2>2, <1>c
  <1>8. ASSUME NEW r \in Requests, ChunkTaken(r)
        PROVE  TurnedAway' = TurnedAway
    <2>1. \A q \in Requests \ {r} :
             pc'[q] = pc[q] /\ wire'[q] = wire[q] /\ metrics'[q] = metrics[q]
      BY <1>t, <1>8 DEF ChunkTaken
    <2>2. Gone(r)' <=> Gone(r)
      BY <1>t, <1>b, <1>s, <1>8 DEF ChunkTaken, Book, Ended, Statuses, Holding
    <2>. QED
      BY <2>1, <2>2, <1>c
  <1>9. ASSUME NEW r \in Requests, LeaveLoop(r)
        PROVE  TurnedAway' = TurnedAway
    <2>1. \A q \in Requests \ {r} :
             pc'[q] = pc[q] /\ wire'[q] = wire[q] /\ metrics'[q] = metrics[q]
      BY <1>t, <1>9 DEF LeaveLoop
    <2>2. Gone(r)' <=> Gone(r)
      BY <1>t, <1>b, <1>s, <1>9 DEF LeaveLoop, Book, Ended, Statuses, Holding
    <2>. QED
      BY <2>1, <2>2, <1>c
  <1>10. ASSUME NEW r \in Requests, DoneSent(r)
        PROVE  TurnedAway' = TurnedAway
    <2>1. \A q \in Requests \ {r} :
             pc'[q] = pc[q] /\ wire'[q] = wire[q] /\ metrics'[q] = metrics[q]
      BY <1>t, <1>10 DEF DoneSent
    <2>2. Gone(r)' <=> Gone(r)
      BY <1>t, <1>b, <1>s, <1>10 DEF DoneSent, Book, Ended, Statuses, Holding
    <2>. QED
      BY <2>1, <2>2, <1>c
  <1>11. ASSUME NEW r \in Requests, StreamComplete(r)
        PROVE  TurnedAway' = TurnedAway
    <2>1. \A q \in Requests \ {r} :
             pc'[q] = pc[q] /\ wire'[q] = wire[q] /\ metrics'[q] = metrics[q]
      BY <1>t, <1>11 DEF StreamComplete
    <2>2. Gone(r)' <=> Gone(r)
      BY <1>t, <1>b, <1>s, <1>11 DEF StreamComplete, Book, Ended, Statuses, Holding
    <2>. QED
      BY <2>1, <2>2, <1>c
  <1>12. ASSUME NEW r \in Requests, HangUp(r)
        PROVE  TurnedAway' = TurnedAway
    <2>1. \A q \in Requests \ {r} :
             pc'[q] = pc[q] /\ wire'[q] = wire[q] /\ metrics'[q] = metrics[q]
      BY <1>t, <1>12 DEF HangUp
    <2>2. Gone(r)' <=> Gone(r)
      BY <1>t, <1>b, <1>s, <1>12 DEF HangUp, Book, Ended, Statuses, Holding
    <2>. QED
      BY <2>1, <2>2, <1>c
  <1>13. ASSUME NEW r \in Requests, HangUpOutside(r)
        PROVE  TurnedAway' = TurnedAway
    <2>1. \A q \in Requests \ {r} :
             pc'[q] = pc[q] /\ wire'[q] = wire[q] /\ metrics'[q] = metrics[q]
      BY <1>t, <1>13 DEF HangUpOutside
    <2>2. Gone(r)' <=> Gone(r)
      BY <1>t, <1>b, <1>s, <1>13 DEF HangUpOutside, Book, Ended, Statuses, Holding
    <2>. QED
      BY <2>1, <2>2, <1>c
  <1>14. ASSUME NEW r \in Requests, WriteUsage(r)
        PROVE  TurnedAway' = TurnedAway
    <2>1. \A q \in Requests \ {r} :
             pc'[q] = pc[q] /\ wire'[q] = wire[q] /\ metrics'[q] = metrics[q]
      BY <1>t, <1>14 DEF WriteUsage
    <2>2. Gone(r)' <=> Gone(r)
      BY <1>t, <1>b, <1>s, <1>14 DEF WriteUsage, Book, Ended, Statuses, Holding
    <2>. QED
      BY <2>1, <2>2, <1>c
  <1>15. ASSUME NEW r \in Requests, Return(r)
        PROVE  TurnedAway' = TurnedAway
    <2>1. \A q \in Requests \ {r} :
             pc'[q] = pc[q] /\ wire'[q] = wire[q] /\ metrics'[q] = metrics[q]
      BY <1>t, <1>15 DEF Return
    <2>2. Gone(r)' <=> Gone(r)
      BY <1>t, <1>b, <1>s, <1>15 DEF Return, Book, Ended, Statuses, Holding
    <2>. QED
      BY <2>1, <2>2, <1>c
  <1>16. ASSUME NEW r \in Requests, NEW n \in Reported, JsonAnswer(r, n)
        PROVE  TurnedAway' = TurnedAway
    <2>1. \A q \in Requests \ {r} :
             pc'[q] = pc[q] /\ wire'[q] = wire[q] /\ metrics'[q] = metrics[q]
      BY <1>t, <1>16 DEF JsonAnswer
    <2>2. Gone(r)' <=> Gone(r)
      BY <1>t, <1>b, <1>s, <1>16 DEF JsonAnswer, Book, Ended, Statuses, Holding
    <2>. QED
      BY <2>1, <2>2, <1>c
  <1>17. ASSUME NEW r \in Requests, NEW n \in Reported, JsonEmptyAnswer(r, n)
        PROVE  TurnedAway' = TurnedAway
    <2>1. \A q \in Requests \ {r} :
             pc'[q] = pc[q] /\ wire'[q] = wire[q] /\ metrics'[q] = metrics[q]
      BY <1>t, <1>17 DEF JsonEmptyAnswer
    <2>2. Gone(r)' <=> Gone(r)
      BY <1>t, <1>b, <1>s, <1>17 DEF JsonEmptyAnswer, Book, Ended, Statuses, Holding
    <2>. QED
      BY <2>1, <2>2, <1>c
  <1>18. ASSUME NEW r \in Requests, NEW n \in Reported, StreamCount(r, n)
        PROVE  TurnedAway' = TurnedAway
    <2>1. \A q \in Requests \ {r} :
             pc'[q] = pc[q] /\ wire'[q] = wire[q] /\ metrics'[q] = metrics[q]
      BY <1>t, <1>18 DEF StreamCount
    <2>2. Gone(r)' <=> Gone(r)
      BY <1>t, <1>b, <1>s, <1>18 DEF StreamCount, Book, Ended, Statuses, Holding
    <2>. QED
      BY <2>1, <2>2, <1>c
  <1>19. ASSUME NEW r \in Requests, NEW m \in {"json", "stream"}, Arrive(r, m)
        PROVE  TurnedAway' = TurnedAway
    <2>1. \A q \in Requests \ {r} :
             pc'[q] = pc[q] /\ wire'[q] = wire[q] /\ metrics'[q] = metrics[q]
      BY <1>t, <1>19 DEF Arrive
    <2>2. Gone(r)' <=> Gone(r)
      BY <1>t, <1>b, <1>s, <1>19 DEF Arrive, Book, Ended, Statuses, Holding
    <2>. QED
      BY <2>1, <2>2, <1>c
  <1>20. CASE Stop \/ Exit \/ Exited \/ UNCHANGED vars
    BY <1>20 DEF Stop, Exit, Exited, vars, TurnedAway
  <1>21. ASSUME NEW r \in Requests, SkipLine(r) \/ ReadOn(r)
        PROVE  TurnedAway' = TurnedAway
    <2>1. \A q \in Requests \ {r} :
             pc'[q] = pc[q] /\ wire'[q] = wire[q] /\ metrics'[q] = metrics[q]
      BY <1>t, <1>21 DEF SkipLine, ReadOn
    <2>2. Gone(r)' <=> Gone(r)
      BY <1>t, <1>b, <1>s, <1>21 DEF SkipLine, ReadOn, Book, Ended, Statuses, Holding
    <2>. QED
      BY <2>1, <2>2, <1>c
  <1>. QED
    BY <1>21, <1>1, <1>2, <1>3, <1>4, <1>5, <1>6, <1>7, <1>8, <1>9, <1>10, <1>11, <1>12, <1>13, <1>14, <1>15, <1>16, <1>17, <1>18, <1>19, <1>20 DEF Next

LEMMA SameCardinality == Pool!Cardinality(Holders) = Cardinality(Holders)
  BY DEF Pool!Cardinality, Cardinality, Pool!IsFiniteSet, IsFiniteSet

\* A request that is turned away finds every slot taken.
LEMMA BusyTurnsAway ==
    ASSUME TypeOK, SlotsConserved, Books, NEW r \in Requests, Busy(r)
    PROVE  Pool!TurnAway(r)
  <1>t. /\ pc \in [Requests -> Stages] /\ wire \in [Requests -> Wires]
    BY DEF TypeOK
  <1>1. r \notin Holders /\ r \notin TurnedAway
    BY DEF Busy, Holders, Holding, TurnedAway
  <1>2. Cardinality(Holders) = MaxConcurrent
    BY ServiceAssumption, HoldersFinite DEF Busy, SlotsConserved
  <1>3. Holders' = Holders
    BY <1>t DEF Busy, Goto, Holders, Holding
  <1>4. metrics[r] = <<>>
    BY DEF Books, Book, Ended, Busy
  <1>5. TurnedAway' = TurnedAway \cup {r}
    BY <1>t, <1>4 DEF Busy, Goto, Send, TurnedAway
  <1>. QED
    BY <1>1, <1>2, <1>3, <1>5, SameCardinality DEF Pool!TurnAway

(***************************************************************************)
(* complete and stream_complete, with every error path, implement the pool:*)
(* at most MaxConcurrent requests at the engine, and "server too busy" is  *)
(* the truth.                                                              *)
(***************************************************************************)
THEOREM AdmissionControl == Spec => ImplementsPool
  <1>1. Init => Pool!Init
    BY DEF Init, Pool!Init, Holders, Holding, TurnedAway
  <1>2. TypeOK /\ SlotsConserved /\ Books /\ [Next]_vars => [Pool!Next]_(Pool!vars)
    <2> SUFFICES ASSUME TypeOK, SlotsConserved, Books, [Next]_vars
                 PROVE  [Pool!Next]_(Pool!vars)
      OBVIOUS
    <2>1. ASSUME NEW r \in Requests, Busy(r)
          PROVE  Pool!Next
      BY <2>1, BusyTurnsAway DEF Pool!Next
    <2>2. CASE \A r \in Requests : ~Busy(r)
      <3>1. TurnedAway' = TurnedAway
        BY <2>2, TurnedAwayKept
      <3>2. CASE Keeps
        BY <3>1, <3>2, HoldersAfter DEF Pool!vars
      <3>3. ASSUME NEW r \in Requests, Gives(r)
            PROVE  Pool!Next
        <4>1. r \notin Holders /\ Holders' = Holders \cup {r}
          BY <3>3, HoldersAfter
        <4>2. Cardinality(Holders) < MaxConcurrent
          BY <3>3, HoldersFinite, ServiceAssumption DEF Gives, SlotsConserved, TypeOK
        <4>3. r \notin TurnedAway
          <5>1. pc'[r] \in Holding
            BY <3>3 DEF Gives, TypeOK
          <5>2. r \notin TurnedAway'
            BY <5>1 DEF TurnedAway, Holding
          <5>. QED
            BY <5>2, <3>1
        <4>4. Pool!Enter(r)
          BY <4>1, <4>2, <4>3, <3>1, SameCardinality DEF Pool!Enter
        <4>. QED
          BY <4>4 DEF Pool!Next
      <3>4. ASSUME NEW r \in Requests, TakesBack(r)
            PROVE  Pool!Next
        <4>1. Pool!Leave(r)
          BY <3>1, <3>4, HoldersAfter DEF Pool!Leave
        <4>. QED
          BY <4>1 DEF Pool!Next
      <3>. QED
        BY <3>2, <3>3, <3>4, StepKinds
    <2>. QED
      BY <2>1, <2>2
  <1>. QED
    BY <1>1, <1>2, SlotsNeverLeak, BooksKept, PTL DEF Spec, ImplementsPool, Pool!Spec
=============================================================================
