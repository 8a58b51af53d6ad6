------------------------ MODULE FlyReportInteraction ------------------------
(***************************************************************************)
(* One streamed interaction of a FlyReport session: the task that runs it  *)
(* (_run_streaming_interaction), the requests that cancel it, and the SSE  *)
(* reader that started it.                                                 *)
(*                                                                         *)
(* All of them are tasks of one event loop and share the interaction       *)
(* object.  _update_interaction assigns before it first awaits, so a       *)
(* status change is atomic with the check in front of it; storing it       *)
(* cannot fail (errors are swallowed), storing a message can.              *)
(***************************************************************************)
EXTENDS Naturals, FiniteSets

CONSTANTS
  Cancellers,   \* requests POST /interactions/{id}/cancel
  MaxFaults     \* bound: messages that cannot be stored

ASSUME FaultsAssumption == MaxFaults \in Nat /\ IsFiniteSet(Cancellers)

Kinds    == {"plain_text", "data_query", "report"}
Terminal == {"completed", "failed", "cancelled"}

\* How often a branch looks whether it is cancelled.
Checks == [plain_text |-> 1, data_query |-> 3, report |-> 3]

VARIABLES
  status,     \* interaction.status
  cancelSet,  \* runtime.cancel_event
  runner,     \* where the runner task is
  kind,       \* the branch the classifier chose ("none": not yet)
  left,       \* its checks still to come
  canceller,  \* where each cancel request is
  reader,     \* where the SSE reader is
  told,       \* the terminal event it was sent, or "none"
  ends,       \* the None marks in its queue
  faults      \* messages not stored so far

vars == <<status, cancelSet, runner, kind, left, canceller, reader, told, ends,
          faults>>

\* start_streaming_message has made and stored the interaction.
Init ==
  /\ status = "pending"
  /\ cancelSet = FALSE
  /\ runner = "none"
  /\ kind = "none" /\ left = 0
  /\ canceller = [c \in Cancellers |-> "idle"]
  /\ reader = "away"
  /\ told = "none"
  /\ ends = 0
  /\ faults = 0

\* _record_interaction_message: the message is stored, or storing it raises.
Stored     == UNCHANGED faults
StoreFails == faults < MaxFaults /\ faults' = faults + 1

-----------------------------------------------------------------------------
(* The reader *)

\* The event named after the status; any other status counts as completed.
TerminalEvent(s) == IF s \in Terminal THEN s ELSE "completed"

\* The generator starts: it subscribes, then starts the runner, whatever the
\* status is by now.
Connect ==
  /\ reader = "away"
  /\ reader' = "connected"
  /\ runner' = "created"
  /\ UNCHANGED <<status, cancelSet, kind, left, canceller, told, ends, faults>>

\* interaction.started is sent; a finished interaction needs no queue.
Started ==
  /\ reader = "connected"
  /\ IF status \in Terminal
       THEN reader' = "gone" /\ told' = TerminalEvent(status)
       ELSE reader' = "reading" /\ UNCHANGED told
  /\ UNCHANGED <<status, cancelSet, runner, kind, left, canceller, ends, faults>>

\* The None mark: the reader is told what the status is now.
ReadEnd ==
  /\ reader = "reading" /\ ends > 0
  /\ reader' = "gone"
  /\ told' = TerminalEvent(status)
  /\ ends' = 0
  /\ UNCHANGED <<status, cancelSet, runner, kind, left, canceller, faults>>

\* The client closes the connection.
Disconnect ==
  /\ reader \in {"connected", "reading"}
  /\ reader' = "gone"
  /\ ends' = 0
  /\ UNCHANGED <<status, cancelSet, runner, kind, left, canceller, told, faults>>

\* _finish_interaction_stream: a None mark for every subscriber.
Close == ends' = IF reader \in {"connected", "reading"} THEN ends + 1 ELSE ends

-----------------------------------------------------------------------------
(* cancel_interaction *)

Cancel(c) ==
  /\ canceller[c] = "idle"
  /\ IF status \in Terminal
       THEN /\ canceller' = [canceller EXCEPT ![c] = "done"]
            /\ UNCHANGED <<cancelSet, status>>
       ELSE /\ canceller' = [canceller EXCEPT ![c] = "telling"]
            /\ cancelSet' = TRUE
            /\ status' = "cancelled"
  /\ UNCHANGED <<runner, kind, left, reader, told, ends, faults>>

TellCancelled(c) ==
  /\ canceller[c] = "telling"
  /\ \/ Stored /\ canceller' = [canceller EXCEPT ![c] = "closing"]
     \/ StoreFails /\ canceller' = [canceller EXCEPT ![c] = "done"]
  /\ UNCHANGED <<status, cancelSet, runner, kind, left, reader, told, ends>>

CloseCancelled(c) ==
  /\ canceller[c] = "closing"
  /\ Close
  /\ canceller' = [canceller EXCEPT ![c] = "done"]
  /\ UNCHANGED <<status, cancelSet, runner, kind, left, reader, told, faults>>

-----------------------------------------------------------------------------
(* The runner *)

\* The status is set without looking at what it was.
Run ==
  /\ runner = "created"
  /\ status' = "streaming"
  /\ runner' = "placeholder"
  /\ UNCHANGED <<cancelSet, kind, left, canceller, reader, told, ends, faults>>

\* The placeholder is stored outside the try statement.
Placeholder ==
  /\ runner = "placeholder"
  /\ \/ Stored /\ runner' = "classifying"
     \/ StoreFails /\ runner' = "dead"
  /\ UNCHANGED <<status, cancelSet, kind, left, canceller, reader, told, ends>>

\* The classifier chooses a branch; its heartbeat stores a message first.
Classified ==
  /\ runner = "classifying"
  /\ kind' \in Kinds
  /\ left' = Checks[kind']
  /\ runner' = "checking"
  /\ UNCHANGED <<status, cancelSet, canceller, reader, told, ends, faults>>

\* Mutant: the status alone is looked at.
CheckStatusOnly ==
  /\ runner = "checking"
  /\ IF status = "cancelled"
       THEN runner' = "cancelling" /\ UNCHANGED left
       ELSE runner' = "working" /\ left' = left - 1
  /\ UNCHANGED <<status, cancelSet, kind, canceller, reader, told, ends, faults>>

\* _ensure_not_cancelled
Check ==
  /\ runner = "checking"
  /\ IF cancelSet \/ status = "cancelled"
       THEN runner' = "cancelling" /\ UNCHANGED left
       ELSE runner' = "working" /\ left' = left - 1
  /\ UNCHANGED <<status, cancelSet, kind, canceller, reader, told, ends, faults>>

\* The work up to the next check.
WorkOn ==
  /\ runner = "working" /\ left > 0
  /\ runner' = "checking"
  /\ UNCHANGED <<status, cancelSet, kind, left, canceller, reader, told, ends,
                 faults>>

\* The work after the last check, or a report that needs clarification first.
Complete ==
  /\ runner = "working"
  /\ (left = 0 \/ (kind = "report" /\ left = 1))
  /\ status' = "completed"
  /\ runner' = "closing"
  /\ UNCHANGED <<cancelSet, kind, left, canceller, reader, told, ends, faults>>

\* Mutant: the error is told, the status left as it was.
AnswerFailsUnmarked ==
  /\ runner = "working" /\ kind = "data_query"
  /\ runner' = "closing"
  /\ UNCHANGED <<status, cancelSet, kind, left, canceller, reader, told, ends,
                 faults>>

\* A data query ends without an answer: Text-to-SQL is disabled, raises, or
\* finds no SQL.
AnswerFails ==
  /\ runner = "working" /\ kind = "data_query"
  /\ status' = "failed"
  /\ runner' = "closing"
  /\ UNCHANGED <<cancelSet, kind, left, canceller, reader, told, ends, faults>>

\* Mutant: the status of a failed interaction is left as it was.
RaisesUnmarked ==
  /\ runner \in {"classifying", "working"}
  /\ runner' = "failing"
  /\ UNCHANGED <<status, cancelSet, kind, left, canceller, reader, told, ends,
                 faults>>

\* The classifier, the work or the store raises: the status is set at once.
Raises ==
  /\ runner \in {"classifying", "working"}
  /\ status' = "failed"
  /\ runner' = "failing"
  /\ UNCHANGED <<cancelSet, kind, left, canceller, reader, told, ends, faults>>

\* Mutant: the error is reported, the stream left open.
TellFailedOnly ==
  /\ runner = "failing"
  /\ \/ Stored /\ runner' = "done"
     \/ StoreFails /\ runner' = "unclosed"
  /\ UNCHANGED <<status, cancelSet, kind, left, canceller, reader, told, ends>>

\* except Exception: the error message, which may not be stored either.
TellFailed ==
  /\ runner = "failing"
  /\ \/ Stored /\ runner' = "closing"
     \/ StoreFails /\ runner' = "unclosed"
  /\ UNCHANGED <<status, cancelSet, kind, left, canceller, reader, told, ends>>

\* except CancelledError
Cancelled ==
  /\ runner = "cancelling"
  /\ status' = "cancelled"
  /\ runner' = "closing"
  /\ UNCHANGED <<cancelSet, kind, left, canceller, reader, told, ends, faults>>

CloseStream ==
  /\ runner = "closing"
  /\ Close
  /\ runner' = "done"
  /\ UNCHANGED <<status, cancelSet, kind, left, canceller, reader, told, faults>>

-----------------------------------------------------------------------------
RunnerStep ==
  \/ Run \/ Placeholder \/ Classified \/ Check \/ WorkOn \/ Complete
  \/ AnswerFails \/ Raises \/ TellFailed \/ Cancelled \/ CloseStream

CancellerStep(c) == TellCancelled(c) \/ CloseCancelled(c)

ReaderStep == Started \/ ReadEnd

Next ==
  \/ Connect \/ Disconnect \/ ReaderStep
  \/ RunnerStep
  \/ \E c \in Cancellers : Cancel(c) \/ CancellerStep(c)

Spec == Init /\ [][Next]_vars

\* The event loop runs every task; what a task awaits returns or raises.  No
\* client has to connect, cancel or disconnect.
FairSpec ==
  /\ Spec
  /\ WF_vars(RunnerStep) /\ WF_vars(ReaderStep)
  /\ \A c \in Cancellers : WF_vars(CancellerStep(c))

-----------------------------------------------------------------------------
(* Properties *)

BeforeLastCheck ==
  \/ runner \in {"none", "created", "placeholder", "classifying", "checking"}
  \/ runner = "working" /\ left > 0 /\ ~(kind = "report" /\ left = 1)

\* A cancel accepted before the runner's last look at it is honoured, even if
\* the runner has not started and then sets the status back to "streaming":
\* the interaction never completes (it may still fail on the way to the check).
CancelIsHonoured ==
  [](cancelSet /\ BeforeLastCheck => [](status # "completed"))

\* A runner that is over has left its interaction over, also when it could not
\* store the message about its failure: only a placeholder that could not be
\* stored leaves it "streaming".
QuietIsTerminal == runner \in {"done", "unclosed"} => status \in Terminal

\* What the reader is told is how the interaction ended; only after a cancel
\* may it be told "cancelled" or "completed" of one that ends otherwise, and
\* "failed" is true even then.
ToldIsTrue ==
  told # "none" => status = told \/ (cancelSet /\ told # "failed")

\* Whoever ends an interaction leaves it over, and tells its end.
EndIsTrue == QuietIsTerminal /\ ToldIsTrue

\* Every connected reader gets a terminal event and its connection ends, in
\* whatever order the runner and the cancels end: only a message that could not
\* be stored leaves the connection open.
ReaderIsTold == reader = "connected" ~> reader = "gone" \/ faults > 0
=============================================================================
