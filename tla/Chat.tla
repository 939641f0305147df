-------------------------------- MODULE Chat --------------------------------
(***************************************************************************)
(* One conversation in one browser tab: the handlers of pages/Chat.tsx and *)
(* the actions of stores/chatStore.ts, which await each call they make, and*)
(* the endpoints of routers/conversations.py that answer them.  get_db     *)
(* commits after the response is sent, so the tab may be a call ahead of   *)
(* the table.  Every endpoint that writes updates the row of the           *)
(* conversation, which makes writers wait for each other until they commit.*)
(***************************************************************************)
EXTENDS Naturals, Sequences, SequencesExt, FiniteSets, FiniteSetsExt

CONSTANTS MaxFlows,     \* bound on the sends, edits and retries of the user
          MaxMishaps    \* bound on mishaps: failures, overlaps and late commits

ASSUME ChatAssumption == MaxFlows \in Nat /\ MaxMishaps \in Nat

VARIABLES
    view,       \* messages of the conversation in the tab
    streaming,  \* the flag that blocks the input
    loading,    \* fetchConversation: is it asked for, and the answer on its way
    flow,       \* the handlers that run
    begun,      \* handlers started so far
    rows,       \* chat_messages, committed, by id
    made,       \* last id given out
    tx,         \* the answered write that is not committed yet
    mishaps     \* what failed, overlapped or came before a commit, so far

vars == <<view, streaming, loading, flow, begun, rows, made, tx, mishaps>>

Flows == 1..MaxFlows
Ids == 1..(2 * MaxFlows)

(***************************************************************************)
(* A text is the number of the handler that asked or was answered; 0 is    *)
(* the empty text and Error a message of the tab's own.  Id 0 is none yet. *)
(***************************************************************************)
Error == MaxFlows + 1
Message(role, id, text) == [role |-> role, id |-> id, text |-> text]

(***************************************************************************)
(*  patchUser   edit: PATCH of the prompt                                  *)
(*  delete      edit, retry: DELETE of the answer and what follows         *)
(*  saveUser    send: POST of the prompt                                   *)
(*  saveAnswer  POST of the empty answer                                   *)
(*  stream      the completion streams in                                  *)
(*  patchAnswer PATCH of the empty answer with what has streamed in        *)
(*  none, done  not started, finished                                      *)
(* Before the server has read what the call needs, seen is FALSE.          *)
(***************************************************************************)
Calls == {"patchUser", "delete", "saveUser", "saveAnswer", "patchAnswer"}
Stages == Calls \cup {"stream", "none", "done"}

\* keep: local messages an edit or retry keeps; id: message the call or the stream is
\* about; got: something streamed in; count, doomed: what the server read.
NoFlow == [stage |-> "none", keep |-> 0, id |-> 0, got |-> FALSE,
           seen |-> FALSE, count |-> 0, doomed |-> {}]
\* answer: a sequence of one list of messages, once the server has read it
NotLoading == [asked |-> FALSE, answer |-> <<>>]
Asked == [asked |-> TRUE, answer |-> <<>>]
NoTx == [put |-> <<>>, doomed |-> {}]

Running == {f \in Flows : flow[f].stage \notin {"none", "done"}}
Saved == DOMAIN rows

Init ==
    /\ view = <<>> /\ streaming = FALSE /\ loading = NotLoading
    /\ flow = [f \in Flows |-> NoFlow] /\ begun = 0
    /\ rows = <<>> /\ made = 0 /\ tx = NoTx
    /\ mishaps = 0

Mishap == mishaps < MaxMishaps /\ mishaps' = mishaps + 1
MishapIf(condition) == IF condition THEN Mishap ELSE UNCHANGED mishaps

-----------------------------------------------------------------------------
\* The handlers begin: the input is checked against streaming, and streaming is
\* only set when the calls before the stream have been answered.
Begin(f, stage, keep, id) ==
    /\ ~streaming /\ f = begun + 1
    /\ begun' = f
    /\ flow' = [flow EXCEPT ![f] = [NoFlow EXCEPT !.stage = stage, !.keep = keep, !.id = id]]
    /\ MishapIf(Running # {} \/ loading # NotLoading)
    /\ UNCHANGED <<streaming, loading, rows, made, tx>>

BeginSend(f) ==
    /\ Begin(f, "saveUser", 0, 0)
    /\ view' = view \o <<Message("user", 0, f), Message("assistant", 0, 0)>>

BeginEdit(f, i) ==
    /\ view[i].role = "user"
    /\ Begin(f, "patchUser", i, view[i].id)
    /\ view' = [view EXCEPT ![i].text = f]

BeginRetry(f, i) ==
    /\ view[i].role = "assistant" /\ view[i].id # 0
    /\ Begin(f, "delete", i - 1, view[i].id)
    /\ UNCHANGED view

-----------------------------------------------------------------------------
\* (mutant) whatever its role
NumberedAll(role, id) ==
    [i \in DOMAIN view |-> IF view[i].id = 0 THEN [view[i] EXCEPT !.id = id] ELSE view[i]]

\* saveMessage numbers every local message of the role that has no id yet.
Numbered(role, id) ==
    [i \in DOMAIN view |->
        IF view[i].role = role /\ view[i].id = 0 THEN [view[i] EXCEPT !.id = id] ELSE view[i]]

To(f, stage, keep, id) ==
    flow' = [flow EXCEPT ![f] = [NoFlow EXCEPT !.stage = stage, !.keep = keep, !.id = id]]

\* (mutant) the flag is left as it is
FinishOnly(f) == To(f, "done", 0, 0) /\ UNCHANGED streaming

Finish(f) == To(f, "done", 0, 0) /\ streaming' = FALSE

\* truncateLocalMessages, addLocalMessage; then the new answer is saved.
Restart(f) ==
    /\ view' = Append(SubSeq(view, 1, Min({flow[f].keep, Len(view)})), Message("assistant", 0, 0))
    /\ To(f, "saveAnswer", 0, 0)
    /\ UNCHANGED streaming

\* What a handler does when its call is answered, with the id of a new row, or
\* with 0 if the call failed; every failure is caught.
Resume(f, id) ==
    LET keep == flow[f].keep IN
    CASE flow[f].stage = "saveUser" ->
            /\ view' = IF id = 0 THEN view ELSE Numbered("user", id)
            /\ To(f, "saveAnswer", 0, 0)
            /\ UNCHANGED streaming
      [] flow[f].stage = "patchUser" ->
            IF Len(view) > keep /\ view[keep + 1].id # 0
            THEN To(f, "delete", keep, view[keep + 1].id) /\ UNCHANGED <<view, streaming>>
            ELSE Restart(f)
      [] flow[f].stage = "delete" -> Restart(f)
      [] flow[f].stage = "saveAnswer" ->
            /\ view' = IF id = 0 THEN view ELSE Numbered("assistant", id)
            /\ To(f, "stream", 0, id)
            /\ streaming' = TRUE
      [] flow[f].stage = "patchAnswer" ->
            Finish(f) /\ UNCHANGED view

Saves(f) == flow[f].stage \in {"saveUser", "saveAnswer"}

\* (mutant) the message itself survives
DoomedAfter(id) == {m \in Saved : rows[m].pos > rows[id].pos}

\* delete_messages_from: the message and all with a position after it
Doomed(id) == {m \in Saved : rows[m].pos >= rows[id].pos}

\* The endpoint reads what is committed: the number of messages, or the message.
Look(f) ==
    /\ flow[f].stage \in Calls /\ ~flow[f].seen
    /\ Saves(f) \/ flow[f].id \in Saved
    /\ flow' = [flow EXCEPT ![f].seen = TRUE, ![f].count = Cardinality(Saved),
                            ![f].doomed = IF flow[f].stage = "delete" THEN Doomed(flow[f].id) ELSE {}]
    /\ MishapIf(tx # NoTx)
    /\ UNCHANGED <<view, streaming, loading, begun, rows, made, tx>>

\* 404; or the row to be patched vanished since it was read, and the flush fails
NotFound(f) ==
    /\ flow[f].stage \in Calls /\ ~Saves(f)
    /\ flow[f].id \notin Saved
    /\ flow[f].stage = "delete" => ~flow[f].seen
    /\ Resume(f, 0)
    /\ MishapIf(tx # NoTx)
    /\ UNCHANGED <<loading, begun, rows, made, tx>>

\* The row an answered call leaves to be committed.
Put(f) ==
    CASE Saves(f) ->
            [id |-> made + 1, pos |-> flow[f].count, by |-> f,
             role |-> IF flow[f].stage = "saveUser" THEN "user" ELSE "assistant",
             text |-> IF flow[f].stage = "saveUser" THEN f ELSE 0]
      [] OTHER -> [rows[flow[f].id] EXCEPT !.text = f]

\* The endpoint writes, when no other write is open, and answers.
Write(f) ==
    /\ flow[f].stage \in Calls /\ flow[f].seen /\ tx = NoTx
    /\ IF flow[f].stage = "delete"
       THEN tx' = [put |-> <<>>, doomed |-> flow[f].doomed] /\ UNCHANGED made
       ELSE /\ Saves(f) \/ flow[f].id \in Saved
            /\ tx' = [put |-> <<Put(f)>>, doomed |-> {}]
            /\ made' = IF Saves(f) THEN made + 1 ELSE made
    /\ \/ Resume(f, IF Saves(f) THEN made + 1 ELSE 0) /\ UNCHANGED mishaps
       \/ Resume(f, 0) /\ Mishap
    /\ UNCHANGED <<loading, begun, rows>>

\* The call fails, on the way or in the endpoint.
CallFails(f) ==
    /\ flow[f].stage \in Calls
    /\ Resume(f, 0)
    /\ Mishap
    /\ UNCHANGED <<loading, begun, rows, made, tx>>

Commit ==
    /\ tx # NoTx
    /\ rows' = [m \in (Saved \cup {tx.put[i].id : i \in DOMAIN tx.put}) \ tx.doomed |->
                  IF \E i \in DOMAIN tx.put : tx.put[i].id = m THEN tx.put[1] ELSE rows[m]]
    /\ tx' = NoTx
    /\ UNCHANGED <<view, streaming, loading, flow, begun, made, mishaps>>

CommitFails ==
    /\ tx # NoTx
    /\ tx' = NoTx
    /\ Mishap
    /\ UNCHANGED <<view, streaming, loading, flow, begun, rows, made>>

-----------------------------------------------------------------------------
\* updateLocalMessage: the last message, if it is an answer
Shown(text) ==
    IF view # <<>> /\ Last(view).role = "assistant"
    THEN [view EXCEPT ![Len(view)].text = text] ELSE view

Chunk(f) ==
    /\ flow[f].stage = "stream"
    /\ view' = Shown(f)
    /\ flow' = [flow EXCEPT ![f].got = TRUE]
    /\ UNCHANGED <<streaming, loading, begun, rows, made, tx, mishaps>>

\* (mutant) the id of the last message in the tab
StreamEndsLast(f) ==
    /\ flow[f].stage = "stream"
    /\ IF view # <<>> /\ Last(view).id # 0 /\ flow[f].got
       THEN To(f, "patchAnswer", 0, Last(view).id) /\ UNCHANGED streaming
       ELSE Finish(f)
    /\ UNCHANGED <<view, loading, begun, rows, made, tx, mishaps>>

\* onDone, at [DONE] or at the end of the body
StreamEnds(f) ==
    /\ flow[f].stage = "stream"
    /\ IF flow[f].id # 0 /\ flow[f].got
       THEN To(f, "patchAnswer", 0, flow[f].id) /\ UNCHANGED streaming
       ELSE Finish(f)
    /\ UNCHANGED <<view, loading, begun, rows, made, tx, mishaps>>

\* (mutant) the handler forgets the flag
StreamFailsQuietly(f) ==
    /\ flow[f].stage = "stream"
    /\ view' = Shown(Error)
    /\ To(f, "done", 0, 0)
    /\ Mishap
    /\ UNCHANGED <<streaming, loading, begun, rows, made, tx>>

\* onError, or an exception of the reader
StreamFails(f) ==
    /\ flow[f].stage = "stream"
    /\ view' = Shown(Error)
    /\ Finish(f)
    /\ Mishap
    /\ UNCHANGED <<loading, begun, rows, made, tx>>

-----------------------------------------------------------------------------
\* The row a goes before b: order_by position; the database breaks ties as it likes,
\* here by id.
Before(a, b) == rows[a].pos < rows[b].pos \/ (rows[a].pos = rows[b].pos /\ a < b)

Ordered ==
    [i \in 1..Cardinality(Saved) |->
        LET m == CHOOSE b \in Saved : Cardinality({a \in Saved : Before(a, b)}) = i - 1
        IN  Message(rows[m].role, m, rows[m].text)]

\* The page is loaded afresh, whatever its handlers were doing; at rest, the sidebar's
\* selection of a conversation that shows nothing is the same step.
Reload ==
    /\ MishapIf(Running # {})
    /\ view' = <<>> /\ streaming' = FALSE /\ loading' = Asked
    /\ flow' = [f \in Flows |-> IF f \in Running THEN [NoFlow EXCEPT !.stage = "done"] ELSE flow[f]]
    /\ UNCHANGED <<begun, rows, made, tx>>

FetchRead ==
    /\ loading = Asked
    /\ loading' = [Asked EXCEPT !.answer = <<Ordered>>]
    /\ MishapIf(tx # NoTx \/ Running # {})
    /\ UNCHANGED <<view, streaming, flow, begun, rows, made, tx>>

FetchShown ==
    /\ loading.answer # <<>>
    /\ view' = loading.answer[1] /\ loading' = NotLoading
    /\ UNCHANGED <<streaming, flow, begun, rows, made, tx, mishaps>>

Served(f) == Look(f) \/ NotFound(f) \/ Write(f) \/ CallFails(f)
Streamed(f) == StreamEnds(f) \/ StreamFails(f)

Next ==
    \/ \E f \in Flows :
          \/ BeginSend(f)
          \/ \E i \in DOMAIN view : BeginEdit(f, i) \/ BeginRetry(f, i)
          \/ Served(f) \/ Chunk(f) \/ Streamed(f)
    \/ Commit \/ CommitFails
    \/ Reload \/ FetchRead \/ FetchShown

(***************************************************************************)
(* Fairness: calls are answered, transactions end, and so do streams (for  *)
(* which InferenceService has SlotsFreed).                                 *)
(***************************************************************************)
Spec ==
    /\ Init /\ [][Next]_vars
    /\ \A f \in Flows : WF_vars(Served(f)) /\ WF_vars(Streamed(f))
    /\ WF_vars(Commit \/ CommitFails)

-----------------------------------------------------------------------------
Messages == [role : {"user", "assistant"}, id : Ids \cup {0}, text : 0..Error]

\* Every variable keeps its type, a handler that is done leaves no trace, and the input is
\* only blocked while a handler streams or saves what it streamed.
TypeOK ==
    /\ view \in Seq(Messages)
    /\ streaming \in BOOLEAN
    /\ loading \in [asked : BOOLEAN, answer : Seq(Seq(Messages))]
    /\ \A f \in Flows :
          /\ flow[f].stage \in Stages /\ flow[f].id \in 0..made /\ flow[f].count \in 0..made
          /\ flow[f].stage = "done" => flow[f] = [NoFlow EXCEPT !.stage = "done"]
    /\ streaming => \E f \in Flows : flow[f].stage \in {"stream", "patchAnswer"}
    /\ begun \in 0..MaxFlows /\ made \in 0..(2 * MaxFlows) /\ mishaps \in 0..MaxMishaps
    /\ Saved \subseteq 1..made
    /\ \A m \in Saved : rows[m].id = m

AtRest == Running = {} /\ tx = NoTx /\ loading = NotLoading

(***************************************************************************)
(* If the user waits for each answer, nothing fails, and commits are in    *)
(* time, then whenever the tab is at rest it shows what the table holds,   *)
(* message by message, id by id, through any sends, edits and retries.     *)
(***************************************************************************)
ViewMatchesTable == mishaps = 0 /\ AtRest => view = Ordered

(***************************************************************************)
(* Under the same conditions the table is a dialogue: positions 0, 1, 2... *)
(* and prompts and answers in turn.                                        *)
(***************************************************************************)
TableIsDialogue ==
    mishaps = 0 /\ AtRest =>
        \A i \in DOMAIN Ordered :
            LET row == rows[Ordered[i].id] IN
            row.pos = i - 1 /\ row.role = IF i % 2 = 1 THEN "user" ELSE "assistant"

(***************************************************************************)
(* However handlers overlap and whatever fails, the row of an answer is    *)
(* only ever filled by the handler that made it.                           *)
(***************************************************************************)
AnswersStayInTheirRow ==
    \A m \in Saved : rows[m].role = "assistant" => rows[m].text \in {0, rows[m].by}

(***************************************************************************)
(* The input that streaming blocks comes back, also after errors.          *)
(***************************************************************************)
InputComesBack == streaming ~> ~streaming

=============================================================================
