-------------------------- MODULE FlyReportSession --------------------------
(***************************************************************************)
(* One FlyReport session: the requests that drive it from a question to a  *)
(* report file, its record in memory, its row in Postgres and its files.   *)
(*                                                                         *)
(* Every request loads the session (the cached record, or a new record     *)
(* made from the row), then holds that record's asyncio.Lock.  Several     *)
(* records of the one session can exist: two requests that both miss the   *)
(* cache each make one, and DELETE drops the cached one without its lock.  *)
(* A request is an asyncio task; it can be interrupted at every await.     *)
(***************************************************************************)
EXTENDS Naturals, Sequences, FiniteSets

CONSTANTS
  Clients,         \* concurrent requests
  Ops,             \* the operations they call
  MaxOps,          \* bound: requests of a behaviour
  MaxRestarts,     \* bound: restarts of the server
  MaxLostWrites    \* bound: session writes that fail (they are swallowed)

AllOps == {"send", "confirm", "cancel", "report", "delete"}

NoClient  == "nobody"
NoSession == [state |-> "none"]

ASSUME ClientsAssumption ==
  Clients # {} /\ NoClient \notin Clients /\ Ops \subseteq AllOps
ASSUME BoundsAssumption == {MaxOps, MaxRestarts, MaxLostWrites} \subseteq Nat

VARIABLES
  records,   \* the _SessionRecord objects, in creation order
  cached,    \* the one in _sessions (0: none)
  stored,    \* the row of fly_report_session, or NoSession
  files,     \* fly-report-r<revision>: the report it holds (0: no file)
  late,      \* renders that timed out and whose thread still writes
  req,       \* the clients' requests
  runs,      \* reports composed so far; a report is its number
  ops, restarts, lost

vars == <<records, cached, stored, files, late, req, runs, ops, restarts, lost>>

States == {"parsing", "clarifying", "authorizing", "fetching", "analyzing",
           "previewing", "rendering", "archived", "cancelled", "failed"}
Terminal == {"archived", "cancelled", "failed"}
\* Where a session waits for its user.
Resting  == {"parsing", "clarifying", "previewing"} \cup Terminal

File == [revision : Nat, run : Nat]

\* ctx: the composed report (0: none); text: last_user_text is known; lock:
\* the holder of the record's lock.
Record == [state : States, revision : Nat, ctx : Nat, text : BOOLEAN,
           artifacts : SUBSET File, lock : Clients \cup {NoClient}]

\* What _session_payload stores and _rehydrate restores: not ctx.
Row(r) == [state |-> r.state, revision |-> r.revision, text |-> r.text,
           artifacts |-> r.artifacts]

\* Mutant: the revision starts again.
RehydratedRevisionless(row) == [state |-> row.state, revision |-> 0, ctx |-> 0,
                    text |-> row.text, artifacts |-> row.artifacts,
                    lock |-> NoClient]
Rehydrated(row) == [state |-> row.state, revision |-> row.revision, ctx |-> 0,
                    text |-> row.text, artifacts |-> row.artifacts,
                    lock |-> NoClient]

NewRecord == [state |-> "parsing", revision |-> 0, ctx |-> 0, text |-> FALSE,
              artifacts |-> {}, lock |-> NoClient]

\* A request: rec is its record, row the row it read, run the report it makes.
Idle == [pc |-> "idle", op |-> "send", rec |-> 0, row |-> NoSession, run |-> 0]

\* start_session has created and stored the session.
Init ==
  /\ records = <<NewRecord>>
  /\ cached = 1
  /\ stored = Row(NewRecord)
  /\ files = [n \in 1 .. MaxOps |-> 0]
  /\ late = {}
  /\ req = [c \in Clients |-> Idle]
  /\ runs = 0 /\ ops = 0 /\ restarts = 0 /\ lost = 0

-----------------------------------------------------------------------------
(* The state machine of the session *)

\* Mutant: a finished session may fail.
AllowedFailedAlways(from) ==
  CASE from = "parsing"     -> {"clarifying", "authorizing", "cancelled", "failed"}
    [] from = "clarifying"  -> {"parsing", "authorizing", "cancelled", "failed"}
    [] from = "authorizing" -> {"fetching", "cancelled", "failed"}
    [] from = "fetching"    -> {"analyzing", "cancelled", "failed"}
    [] from = "analyzing"   -> {"previewing", "cancelled", "failed"}
    [] from = "previewing"  -> {"parsing", "rendering", "cancelled", "failed"}
    [] from = "rendering"   -> {"archived", "cancelled", "failed"}
    [] from \in Terminal    -> {"failed"}

\* ALLOWED_TRANSITIONS, with "failed" from every unfinished state.
Allowed(from) ==
  CASE from = "parsing"     -> {"clarifying", "authorizing", "cancelled", "failed"}
    [] from = "clarifying"  -> {"parsing", "authorizing", "cancelled", "failed"}
    [] from = "authorizing" -> {"fetching", "cancelled", "failed"}
    [] from = "fetching"    -> {"analyzing", "cancelled", "failed"}
    [] from = "analyzing"   -> {"previewing", "cancelled", "failed"}
    [] from = "previewing"  -> {"parsing", "rendering", "cancelled", "failed"}
    [] from = "rendering"   -> {"archived", "cancelled", "failed"}
    [] from \in Terminal    -> {}

\* _enter: staying is always allowed; any other illegal move raises.
MayEnter(r, state) == r.state = state \/ state \in Allowed(r.state)
Entered(r, state)  == [r EXCEPT !.state = state]
\* The except clauses enter "failed"; where that raises too the state stays.
FailedFrom(r)      == IF MayEnter(r, "failed") THEN Entered(r, "failed") ELSE r

-----------------------------------------------------------------------------
(* Requests *)

At(c, pc)  == req[c].pc = pc
Rec(c)     == records[req[c].rec]
Goto(c, pc) == req' = [req EXCEPT ![c].pc = pc]
Keep(c, r) == records' = [records EXCEPT ![req[c].rec] = r]

\* The request is over and leaves the record as r, unlocked.
Finish(c, r) ==
  /\ Keep(c, [r EXCEPT !.lock = NoClient])
  /\ req' = [req EXCEPT ![c] = Idle]

\* _persist_session swallows errors.
Persist(r) ==
  \/ stored' = Row(r) /\ UNCHANGED lost
  \/ /\ lost < MaxLostWrites
     /\ lost' = lost + 1
     /\ UNCHANGED stored

\* The request found the record n of recs: finished sessions refuse send and
\* confirm, before the lock is taken.
Found(c, op, recs, n) ==
  req' = [req EXCEPT ![c] =
            IF op \in {"send", "confirm"} /\ recs[n].state \in Terminal THEN Idle
            ELSE [pc |-> IF op = "delete" THEN "deleting" ELSE "locking",
                  op |-> op, rec |-> n, row |-> NoSession, run |-> 0]]

\* A request arrives and looks in _sessions; on a miss it reads the row.
Load(c, op) ==
  /\ At(c, "idle")
  /\ op \in Ops
  /\ ops < MaxOps
  /\ ops' = ops + 1
  /\ IF cached # 0
       THEN Found(c, op, records, cached)
       ELSE /\ stored # NoSession
            /\ req' = [req EXCEPT ![c] = [Idle EXCEPT !.pc = "install", !.op = op,
                                                      !.row = stored]]
  /\ UNCHANGED <<records, cached, stored, files, late, runs, restarts, lost>>

\* The row is there: a new record replaces whatever is cached by now.
Install(c) ==
  /\ At(c, "install")
  /\ records' = Append(records, Rehydrated(req[c].row))
  /\ cached' = Len(records')
  /\ Found(c, req[c].op, records', Len(records'))
  /\ UNCHANGED <<stored, files, late, runs, ops, restarts, lost>>

Lock(c) ==
  /\ At(c, "locking")
  /\ Rec(c).lock = NoClient
  /\ Keep(c, [Rec(c) EXCEPT !.lock = c])
  /\ Goto(c, "locked")
  /\ UNCHANGED <<cached, stored, files, late, runs, ops, restarts, lost>>

\* Chitchat and data queries only answer.
Answer(c) ==
  /\ At(c, "locked") /\ req[c].op = "send"
  /\ Finish(c, Rec(c))
  /\ Persist(Rec(c))
  /\ UNCHANGED <<cached, files, late, runs, ops, restarts>>

\* Mutant: the lock is kept when the cancel is refused.
CancelSessionKeepingLock(c) ==
  /\ At(c, "locked") /\ req[c].op = "cancel"
  /\ IF MayEnter(Rec(c), "cancelled")
       THEN /\ Finish(c, Entered(Rec(c), "cancelled"))
            /\ Persist(Entered(Rec(c), "cancelled"))
       ELSE /\ req' = [req EXCEPT ![c] = Idle]
            /\ UNCHANGED <<records, stored, lost>>
  /\ UNCHANGED <<cached, files, late, runs, ops, restarts>>

\* cancel: refused by the state machine when the session is archived or failed.
CancelSession(c) ==
  /\ At(c, "locked") /\ req[c].op = "cancel"
  /\ IF MayEnter(Rec(c), "cancelled")
       THEN /\ Finish(c, Entered(Rec(c), "cancelled"))
            /\ Persist(Entered(Rec(c), "cancelled"))
       ELSE Finish(c, Rec(c)) /\ UNCHANGED <<stored, lost>>
  /\ UNCHANGED <<cached, files, late, runs, ops, restarts>>

-----------------------------------------------------------------------------
(* _drive_pipeline *)

\* What enters the pipeline: a report question, a streamed report request
\* (which reopens a finished session), or a confirm that has no preview.
Drives(c) ==
  \/ req[c].op = "send"
  \/ req[c].op = "report"
  \/ req[c].op = "confirm" /\ Rec(c).ctx = 0 /\ Rec(c).text

StartPipeline(c) ==
  /\ At(c, "locked") /\ Drives(c)
  /\ LET r == [Rec(c) EXCEPT !.text = TRUE,
                             !.state = IF req[c].op = "report" /\ @ \in Terminal
                                         THEN "parsing" ELSE @]
     IN  IF MayEnter(r, "parsing")
           THEN Keep(c, Entered(r, "parsing")) /\ Goto(c, "parsing")
           ELSE Finish(c, FailedFrom(r))
  /\ UNCHANGED <<cached, stored, files, late, runs, ops, restarts, lost>>

\* The question is incomplete: the user is asked back.
Clarify(c) ==
  /\ At(c, "parsing")
  /\ LET r == Entered(Rec(c), "clarifying")
     IN  /\ IF req[c].op = "confirm" THEN Keep(c, r) /\ Goto(c, "checked")
                                     ELSE Finish(c, r)
         /\ Persist(r)
  /\ UNCHANGED <<cached, files, late, runs, ops, restarts>>

\* The stages up to the analysis, each entered when the one before is done.
Following == [parsing |-> "authorizing", authorizing |-> "fetching",
              fetching |-> "analyzing"]

\* Mutant: every stage is stored.
AdvanceStored(c) ==
  /\ req[c].pc \in DOMAIN Following
  /\ Keep(c, Entered(Rec(c), Following[req[c].pc]))
  /\ Goto(c, Following[req[c].pc])
  /\ Persist(Entered(Rec(c), Following[req[c].pc]))
  /\ UNCHANGED <<cached, files, late, runs, ops, restarts>>

Advance(c) ==
  /\ req[c].pc \in DOMAIN Following
  /\ Keep(c, Entered(Rec(c), Following[req[c].pc]))
  /\ Goto(c, Following[req[c].pc])
  /\ UNCHANGED <<cached, stored, files, late, runs, ops, restarts, lost>>

\* The report is composed and counted; run is the one this request makes.
Analyzed(c) ==
  /\ At(c, "analyzing")
  /\ Keep(c, [Entered(Rec(c), "previewing") EXCEPT !.revision = @ + 1])
  /\ runs' = runs + 1
  /\ req' = [req EXCEPT ![c].pc = "composing", ![c].run = runs']
  /\ UNCHANGED <<cached, stored, files, late, ops, restarts, lost>>

\* The preview is stored.  A confirm goes on to its file, and a streamed
\* report too unless its interaction was cancelled or it cannot tell the user.
Composed(c) ==
  /\ At(c, "composing")
  /\ LET r == [Rec(c) EXCEPT !.ctx = req[c].run]
     IN  /\ \/ req[c].op \in {"send", "report"} /\ Finish(c, r)
            \/ req[c].op = "confirm" /\ Keep(c, r) /\ Goto(c, "checked")
            \/ req[c].op = "report" /\ Keep(c, r) /\ Goto(c, "rendering")
         /\ Persist(r)
  /\ UNCHANGED <<cached, files, late, runs, ops, restarts>>

\* Any stage raises (no permission, an upstream error): the session fails in
\* memory; nothing is stored.
PipelineRaises(c) ==
  /\ req[c].pc \in {"parsing", "authorizing", "fetching", "analyzing", "composing"}
  /\ Finish(c, FailedFrom(Rec(c)))
  /\ UNCHANGED <<cached, stored, files, late, runs, ops, restarts, lost>>

-----------------------------------------------------------------------------
(* confirm, and the file of a streamed report *)

\* A confirm whose preview is there skips the pipeline.
HasPreview(c) ==
  /\ At(c, "locked") /\ req[c].op = "confirm"
  /\ Rec(c).ctx # 0
  /\ Goto(c, "checked")
  /\ UNCHANGED <<records, cached, stored, files, late, runs, ops, restarts, lost>>

\* The request ends before it changes anything: nothing to confirm, the intent
\* classifier raises, the interaction is cancelled or its message is not
\* stored, the row cannot be deleted.
Refused(c) ==
  /\ \/ At(c, "locked") /\ req[c].op \in {"send", "report"}
     \/ At(c, "locked") /\ req[c].op = "confirm" /\ Rec(c).ctx = 0 /\ ~Rec(c).text
     \/ At(c, "deleting")
  /\ IF req[c].op = "delete" THEN /\ req' = [req EXCEPT ![c] = Idle]
                                  /\ UNCHANGED records
                             ELSE Finish(c, Rec(c))
  /\ UNCHANGED <<cached, stored, files, late, runs, ops, restarts, lost>>

\* The assertion that there is a preview, then the state "rendering"; either
\* may raise, outside every except clause.
StartRender(c) ==
  /\ At(c, "checked")
  /\ IF Rec(c).ctx # 0 /\ MayEnter(Rec(c), "rendering")
       THEN Keep(c, Entered(Rec(c), "rendering")) /\ Goto(c, "rendering")
       ELSE Finish(c, Rec(c))
  /\ UNCHANGED <<cached, stored, files, late, runs, ops, restarts, lost>>

TheFile(r) == [revision |-> r.revision, run |-> r.ctx]

\* Mutant: the session is archived before its report is listed.
RenderedUnlisted(c) ==
  /\ At(c, "rendering")
  /\ files' = [files EXCEPT ![Rec(c).revision] = Rec(c).ctx]
  /\ LET r == IF req[c].op = "confirm" THEN Entered(Rec(c), "archived") ELSE Rec(c)
     IN  Finish(c, r) /\ Persist(r)
  /\ UNCHANGED <<cached, late, runs, ops, restarts>>

\* The file is written and listed; a confirm archives the session.
Rendered(c) ==
  /\ At(c, "rendering")
  /\ files' = [files EXCEPT ![Rec(c).revision] = Rec(c).ctx]
  /\ LET listed == [Rec(c) EXCEPT !.artifacts = @ \cup {TheFile(Rec(c))}]
         r == IF req[c].op = "confirm" THEN Entered(listed, "archived") ELSE listed
     IN  Finish(c, r) /\ Persist(r)
  /\ UNCHANGED <<cached, late, runs, ops, restarts>>

\* The streamed report was cancelled meanwhile: its file is not listed.
RenderedCancelled(c) ==
  /\ At(c, "rendering") /\ req[c].op = "report"
  /\ files' = [files EXCEPT ![Rec(c).revision] = Rec(c).ctx]
  /\ Finish(c, Rec(c))
  /\ UNCHANGED <<cached, stored, late, runs, ops, restarts, lost>>

\* Mutant: a confirm whose rendering fails leaves the session rendering.
RenderRaisesInPlace(c) ==
  /\ At(c, "rendering")
  /\ Finish(c, Rec(c))
  /\ UNCHANGED <<cached, stored, files, late, runs, ops, restarts, lost>>

\* Rendering fails, or times out while its thread goes on.  A confirm fails the
\* session in memory; a streamed report leaves it at its preview.
RenderRaises(c) ==
  /\ At(c, "rendering")
  /\ late' \in {late, late \cup {TheFile(Rec(c))}}
  /\ Finish(c, IF req[c].op = "confirm" THEN FailedFrom(Rec(c)) ELSE Rec(c))
  /\ UNCHANGED <<cached, stored, files, runs, ops, restarts, lost>>

\* The thread of a render that timed out writes its file.
LateWrite ==
  \E f \in late :
    /\ files' = [files EXCEPT ![f.revision] = f.run]
    /\ late' = late \ {f}
    /\ UNCHANGED <<records, cached, stored, req, runs, ops, restarts, lost>>

-----------------------------------------------------------------------------
(* delete_session: the row, then the cached record and the files *)

DeleteRow(c) ==
  /\ At(c, "deleting")
  /\ stored' = NoSession
  /\ Goto(c, "popping")
  /\ UNCHANGED <<records, cached, files, late, runs, ops, restarts, lost>>

Pop(c) ==
  /\ At(c, "popping")
  /\ cached' = 0
  /\ files' = [n \in 1 .. MaxOps |-> 0]
  /\ req' = [req EXCEPT ![c] = Idle]
  /\ UNCHANGED <<records, stored, late, runs, ops, restarts, lost>>

\* The server stops and starts: what is in memory is gone, threads included.
Restart ==
  /\ restarts < MaxRestarts
  /\ restarts' = restarts + 1
  /\ records' = <<>>
  /\ cached' = 0
  /\ late' = {}
  /\ req' = [c \in Clients |-> Idle]
  /\ UNCHANGED <<stored, files, runs, ops, lost>>

-----------------------------------------------------------------------------
(* What a request does once it has arrived. *)
Step(c) ==
  \/ Install(c) \/ Lock(c) \/ Answer(c) \/ CancelSession(c) \/ Refused(c)
  \/ StartPipeline(c) \/ Clarify(c) \/ Advance(c) \/ Analyzed(c) \/ Composed(c)
  \/ PipelineRaises(c)
  \/ HasPreview(c) \/ StartRender(c) \/ Rendered(c) \/ RenderedCancelled(c)
  \/ RenderRaises(c)
  \/ DeleteRow(c) \/ Pop(c)

Next ==
  \/ \E c \in Clients : Step(c) \/ \E op \in Ops : Load(c, op)
  \/ LateWrite
  \/ Restart

Spec == Init /\ [][Next]_vars

\* The event loop runs every task; what a task awaits returns or raises.
FairSpec == Spec /\ \A c \in Clients : WF_vars(Step(c))

-----------------------------------------------------------------------------
(* Properties *)

Held == 1 .. Len(records)

\* Whatever fails and however requests overlap, a record that nobody holds is
\* where the user can go on from: never in the middle of the pipeline, where
\* _enter would refuse the next message.
NeverStranded ==
  \A n \in Held : records[n].lock = NoClient => records[n].state \in Resting

\* A row is never written in the middle of the pipeline, so a session found
\* after a restart is one the user can go on with.
StoredIsResting == stored # NoSession => stored.state \in Resting

\* An archived session lists a report of its own revision, the one download
\* serves, also after a restart that lost a write and next to a second record.
ArchivedHasReport ==
  \A n \in Held : records[n].state = "archived" =>
    \E f \in records[n].artifacts : f.revision = records[n].revision

\* A report is listed once its file holds it, and from then on nothing replaces
\* it: no later report, late render, or report after a restart.  delete_session
\* removes it, and two records of one session, made by requests that both
\* missed the cache or around a delete, may write the same file.
Holds(f)  == files[f.revision] = f.run
Listed(f) == \/ \E n \in Held : f \in records[n].artifacts
             \/ stored # NoSession /\ f \in stored.artifacts
ArtifactsIntact ==
  [][/\ \A n \in Held \cap DOMAIN records' :
          \A f \in records'[n].artifacts \ records[n].artifacts : Holds(f)'
     /\ \A revision \in DOMAIN files :
          LET f == [revision |-> revision, run |-> files[revision]]
          IN  Listed(f) => \/ files'[revision] \in {f.run, 0}
                           \/ Len(records) > 1]_vars

\* send and confirm look at the state before they wait for the lock, so it can
\* be stale when they get it.  The state machine still keeps a finished session
\* finished: only a streamed report leaves it, and to "parsing".
FinishedIsLeftByReportsOnly ==
  [][\A n \in Held \cap DOMAIN records' :
       records[n].state \in Terminal /\ records'[n].state # records[n].state =>
         /\ records'[n].state = "parsing"
         /\ \E c \in Clients : records[n].lock = c /\ req[c].op = "report"]_vars

\* Every request ends: no path leaves a record locked.
RequestsEnd == \A c \in Clients : ~At(c, "idle") ~> At(c, "idle")

\* confirm asserts that there is a report once the pipeline has run again.
ConfirmHasPreview == \A c \in Clients : At(c, "checked") => Rec(c).ctx # 0
=============================================================================
