------------------------------ MODULE RunStream ------------------------------
(***************************************************************************)
(* The replay of one run: the recorder that appends every published event  *)
(* to it, and a reader of GET /v1/runs/{id}/stream that follows it.        *)
(*                                                                         *)
(* publish awaits the handlers of an event's topic before the recorder,    *)
(* which subscribes to "*": an event is recorded when everything it set    *)
(* off is over, "task.created" last of all.  The recorder reads the        *)
(* replay, appends and saves it.  In memory that is one step on a shared   *)
(* object; in Postgres it is a copy that is written back.  The planner's   *)
(* candidate agents publish concurrently, those that a failed one leaves   *)
(* behind also beside the run; the rest of the run is one chain of calls,  *)
(* whose subtasks are RunOrchestration's matter.                           *)
(***************************************************************************)
EXTENDS Naturals, FiniteSets, SequencesExt

CONSTANTS
  Candidates,       \* planner agents that run concurrently (asyncio.gather)
  CandidateEvents,  \* bound: events each of them publishes
  RunEvents,        \* bound: events the run publishes besides its verdict
  PageLimit,        \* entries the reader takes at once (256 in the code)
  MaxCursor,        \* bound: the cursor a client may ask for
  Repositories      \* the replay repositories considered

ASSUME StreamAssumption ==
  /\ IsFiniteSet(Candidates) /\ "run" \notin Candidates
  /\ {CandidateEvents, RunEvents, MaxCursor} \subseteq Nat
  /\ PageLimit \in Nat \ {0}
  /\ Repositories \subseteq {"memory", "postgres"}

Writers  == Candidates \cup {"run"}
Events   == [by : Writers, n : Nat]
Verdicts == {"succeeded", "failed"}

VARIABLES
  repository, \* the one that is configured
  replay,    \* the entries of the run's replay, as stored
  pending,   \* the run's events whose handlers are not over, innermost last
  sent,      \* how many events each writer has published
  copy,      \* the replay a recorder call has read, <<FALSE, <<>>>> if none
  planned,   \* the planner has returned
  status,    \* the run's status
  owed,      \* run.updated, run.terminal, run.summary still to be published
  reader,    \* where the reader is
  from,      \* the cursor it asked for
  cursor,    \* its next cursor
  got        \* the entries it was sent

runVars    == <<replay, pending, sent, copy, planned, status, owed>>
readerVars == <<reader, from, cursor, got>>
vars       == <<runVars, readerVars, repository>>

NoCopy == <<FALSE, <<>>>>

\* submit_task has made the replay; "task.created" is being handled.
Init ==
  /\ repository \in Repositories
  /\ replay = <<>>
  /\ pending = <<[by |-> "run", n |-> 1]>>
  /\ sent = [w \in Writers |-> IF w = "run" THEN 1 ELSE 0]
  /\ copy = [w \in Writers |-> NoCopy]
  /\ planned = FALSE
  /\ status = "running"
  /\ owed = 0
  /\ reader = "reading"
  /\ from \in 0 .. MaxCursor
  /\ cursor = from
  /\ got = <<>>

-----------------------------------------------------------------------------
(* ReplayRecorder.handle_event *)

\* get_by_run: a copy of the stored replay.
Read(w) ==
  /\ repository = "postgres" /\ ~copy[w][1]
  /\ copy' = [copy EXCEPT ![w] = <<TRUE, replay>>]

\* append and save; without copies nothing else runs since get_by_run.
Record(w, e) ==
  \/ /\ repository = "memory"
     /\ replay' = Append(replay, e)
     /\ UNCHANGED copy
  \/ /\ copy[w][1]
     /\ replay' = Append(copy[w][2], e)
     /\ copy' = [copy EXCEPT ![w] = NoCopy]

-----------------------------------------------------------------------------
(* The planner's candidate agents: their events have no other handler *)

CandidateRead(c) ==
  /\ sent[c] < CandidateEvents
  /\ Read(c)
  /\ UNCHANGED <<replay, pending, sent, planned, status, owed>>

CandidateRecord(c) ==
  /\ sent[c] < CandidateEvents
  /\ Record(c, [by |-> c, n |-> sent[c] + 1])
  /\ sent' = [sent EXCEPT ![c] = @ + 1]
  /\ UNCHANGED <<pending, planned, status, owed>>

\* gather: every candidate has returned, or one of them has raised, and the
\* others go on behind the fallback plan.
PlanDone ==
  /\ ~planned
  /\ \/ \A c \in Candidates : sent[c] = CandidateEvents
     \/ \E c \in Candidates : sent[c] = CandidateEvents
  /\ planned' = TRUE
  /\ UNCHANGED <<replay, pending, sent, copy, status, owed>>

-----------------------------------------------------------------------------
(* The run *)

\* The run's next step is its own: no recorder call is in progress.
Free == planned /\ pending # <<>> /\ ~copy["run"][1]

Pushed == Append(pending, [by |-> "run", n |-> sent["run"] + 1])

\* A handler publishes an event, whose own handlers may publish others.
Publish ==
  /\ Free /\ owed = 0
  /\ sent["run"] < RunEvents + (IF status = "running" THEN 1 ELSE 4)
  /\ pending' = Pushed
  /\ sent' = [sent EXCEPT !["run"] = @ + 1]
  /\ UNCHANGED <<replay, copy, planned, status, owed>>

\* reconcile stores the verdict, then publishes three events no topic handler
\* waits for.
Settle ==
  /\ Free /\ status = "running"
  /\ status' \in Verdicts
  /\ owed' = 3
  /\ UNCHANGED <<replay, pending, sent, copy, planned>>

RunRead ==
  /\ Free /\ owed = 0
  /\ Len(pending) = 1 => status \in Verdicts
  /\ Read("run")
  /\ UNCHANGED <<replay, pending, sent, planned, status, owed>>

VerdictRead ==
  /\ Free /\ owed > 0
  /\ Read("run")
  /\ UNCHANGED <<replay, pending, sent, planned, status, owed>>

\* The handlers of the innermost event are over: it is recorded.
RunRecord ==
  /\ planned /\ pending # <<>> /\ owed = 0
  /\ Len(pending) = 1 => status \in Verdicts
  /\ Record("run", Last(pending))
  /\ pending' = Front(pending)
  /\ UNCHANGED <<sent, planned, status, owed>>

VerdictRecord ==
  /\ owed > 0
  /\ Record("run", [by |-> "run", n |-> sent["run"] + 1])
  /\ sent' = [sent EXCEPT !["run"] = @ + 1]
  /\ owed' = owed - 1
  /\ UNCHANGED <<pending, planned, status>>

-----------------------------------------------------------------------------
(* The reader *)

\* _build_event_page: at most PageLimit entries from the cursor on.
Entries ==
  LET last == IF cursor + PageLimit < Len(replay) THEN cursor + PageLimit
              ELSE Len(replay)
  IN  SubSeq(replay, cursor + 1, last)

\* Mutant: the next cursor counts a whole page, full or not.
PageByLimit ==
  /\ got' = got \o Entries
  /\ cursor' = cursor + PageLimit

Page ==
  /\ got' = got \o Entries
  /\ cursor' = cursor + Len(Entries)

ReadPage ==
  /\ reader = "reading"
  /\ Page
  /\ reader' = "asking"
  /\ UNCHANGED from

\* Mutant: a failed run is waited for.
AskSucceeded ==
  /\ reader = "asking"
  /\ reader' = IF status = "succeeded" THEN "last" ELSE "reading"
  /\ UNCHANGED <<from, cursor, got>>

\* A run with a verdict gets one more page, any other is polled again.
Ask ==
  /\ reader = "asking"
  /\ reader' = IF status \in Verdicts THEN "last" ELSE "reading"
  /\ UNCHANGED <<from, cursor, got>>

\* The last page, and the reader's own "run.terminal".
ReadLast ==
  /\ reader = "last"
  /\ Page
  /\ reader' = "done"
  /\ UNCHANGED from

-----------------------------------------------------------------------------
CandidateStep(c) == CandidateRead(c) \/ CandidateRecord(c)
RunStep ==
  PlanDone \/ Publish \/ Settle \/ RunRead \/ VerdictRead \/ RunRecord
  \/ VerdictRecord
ReaderStep == ReadPage \/ Ask \/ ReadLast

RunSteps    == (RunStep \/ \E c \in Candidates : CandidateStep(c))
                 /\ UNCHANGED <<readerVars, repository>>
ReaderSteps == ReaderStep /\ UNCHANGED <<runVars, repository>>

Next == RunSteps \/ ReaderSteps

Spec == Init /\ [][Next]_vars

-----------------------------------------------------------------------------
(* Properties *)

\* With the in-memory repository the reader is sent the replay from its cursor
\* on: nothing twice, nothing left out, in order.
StreamIsReplay ==
  repository = "memory" =>
    \/ cursor > Len(replay) /\ got = <<>>
    \/ /\ cursor = from + Len(got)
       /\ got = SubSeq(replay, from + 1, cursor)

\* ReplayRecorder adds every event to the replay: when the run is over every
\* event it published is there.
EveryEventRecorded ==
  pending = <<>> =>
    \A w \in Writers : \A n \in 1 .. sent[w] :
      Contains(replay, [by |-> w, n |-> n])
=============================================================================
