---------------------------- MODULE SessionArchive ----------------------------
(***************************************************************************)
(* What one FlyReport session keeps: its turns, its artifacts and the      *)
(* decisions of the permission gate, in the memory of the process, in      *)
(* their tables and as files, and what a client that asks for them gets.   *)
(*                                                                         *)
(* A request changes the record in memory and stores the pieces one after  *)
(* the other, each best effort.  Meanwhile others view the session, which  *)
(* may load it again, delete it or clean its folder up.  Requests on one   *)
(* record wait for its lock: FlyReportSession has their overlaps.          *)
(***************************************************************************)
EXTENDS Integers, FiniteSets, Sequences, SequencesExt

CONSTANTS
  ArchiveStores,     \* kinds of repositories: "memory" keeps nothing
  ReportFormats,     \* formats clients ask for
  AuditPage,         \* how many decisions a client is given
  MaxTurns,          \* bound: turns when a request may still begin
  MaxLoads,          \* bound: rows of the session that are read at a time
  MaxArchiveFaults   \* bound: writes that fail, deletes, clean-ups

ASSUME ArchiveAssumption ==
  /\ ArchiveStores \subseteq {"memory", "postgres"}
  /\ ReportFormats \subseteq {"docx", "markdown"}
  /\ AuditPage \in Nat \ {0} /\ {MaxTurns, MaxLoads, MaxArchiveFaults} \subseteq Nat

VARIABLES
  keeping,       \* the kind of _repo
  memos,         \* the two _SessionRecord objects that can be in use
  current,       \* the one in _sessions (0: none)
  row,           \* fly_report_session, or NoSession
  turnRows,      \* fly_report_chat_turn
  artifactRows,  \* fly_report_artifact
  auditRows,     \* fly_report_audit
  folder,        \* files of the session
  task,          \* the request that holds the lock
  loads,         \* rows that somebody has read and not yet put into _sessions
  removing,      \* delete_session has deleted the row
  turnNo,        \* turns so far
  announced,     \* artifacts a client was told of and may ask for
  unsaid,        \* turns that are not stored, or no longer
  unaudited,     \* questions whose decision is not stored
  stale,         \* the last write of the session did not work
  archiveFaults

archiveVars == <<keeping, memos, current, row, turnRows, artifactRows, auditRows,
                 folder, task, loads, removing, turnNo, announced, unsaid, unaudited,
                 stale, archiveFaults>>

tables == <<row, turnRows, artifactRows, auditRows>>
notes == <<announced, unsaid, unaudited, stale>>

Ended == {"archived", "cancelled", "failed"}
NoSession == [state |-> "none"]
NoTask == [pc |-> "idle"]

\* asked: last_user_text; ctx: the composed report, named by the turn that asks
\* for it (0: none).
NewMemo == [turns |-> <<>>, artifacts |-> <<>>, state |-> "parsing",
            revision |-> 0, ctx |-> 0, asked |-> FALSE]

Unused == <<NewMemo, NewMemo>>

\* _session_payload
SessionPayload(r) == [artifacts |-> r.artifacts, state |-> r.state,
               revision |-> r.revision, asked |-> r.asked]

\* Mutant: the artifacts are left to their table.
RestoredBare(payload) ==
  [NewMemo EXCEPT !.state = payload.state, !.revision = payload.revision,
                  !.asked = payload.asked]

\* _rehydrate: the turns are not restored, and nobody reads their table.
Restored(payload) ==
  [NewMemo EXCEPT !.artifacts = payload.artifacts, !.state = payload.state,
                  !.revision = payload.revision, !.asked = payload.asked]

ArchiveInit ==
  /\ keeping \in ArchiveStores
  /\ memos = Unused /\ current = 1
  /\ row = IF keeping = "postgres" THEN SessionPayload(NewMemo) ELSE NoSession
  /\ turnRows = <<>> /\ artifactRows = <<>> /\ auditRows = <<>>
  /\ folder = {}
  /\ task = NoTask
  /\ loads = {}
  /\ removing = FALSE
  /\ turnNo = 0
  /\ announced = {} /\ unsaid = {} /\ unaudited = {} /\ stale = FALSE
  /\ archiveFaults = 0

-----------------------------------------------------------------------------
(* The tables *)

\* Turns and artifacts refer to the session's row, decisions do not.
TurnInserted(t) == turnRows' = IF row # NoSession THEN Append(turnRows, t) ELSE turnRows

ReportName(a) == [revision |-> a.revision, format |-> a.format]

\* append_artifact: a row with that file name is overwritten where it is.
Filed(rows, a) ==
  IF \E k \in DOMAIN rows : ReportName(rows[k]) = ReportName(a)
  THEN [k \in DOMAIN rows |-> IF ReportName(rows[k]) = ReportName(a) THEN a ELSE rows[k]]
  ELSE Append(rows, a)

\* A write that may fail, which is swallowed; in memory nothing is kept.
Tried(ok) ==
  /\ ~ok => keeping = "memory" \/ archiveFaults < MaxArchiveFaults
  /\ keeping = "memory" => ~ok
  /\ archiveFaults' = IF ok \/ keeping = "memory" THEN archiveFaults
                      ELSE archiveFaults + 1

-----------------------------------------------------------------------------
(* Storing what a request leaves *)

Mine == memos[task.rec]

\* The next of the writes that the request still has to make.
Writing(what) == task.pc = "writing" /\ Head(task.writes) = what

Written ==
  task' = IF Len(task.writes) > 1 THEN [task EXCEPT !.writes = Tail(@)]
          ELSE IF task.then = "idle" THEN NoTask
          ELSE [task EXCEPT !.writes = <<>>, !.pc = task.then]

\* _persist_turn
PersistTurn ==
  /\ Writing("turn") /\ Written
  /\ \E ok \in BOOLEAN :
       /\ Tried(ok)
       /\ IF ok THEN TurnInserted(task.turn) ELSE UNCHANGED turnRows
       /\ unsaid' = IF ok /\ row # NoSession THEN unsaid ELSE unsaid \cup {task.turn}
  /\ UNCHANGED <<keeping, memos, current, row, artifactRows, auditRows, folder, loads,
                 removing, turnNo, announced, unaudited, stale>>

\* _persist_artifact
PersistArtifact ==
  /\ Writing("artifact") /\ Written
  /\ \E ok \in BOOLEAN :
       /\ Tried(ok)
       /\ artifactRows' = IF ok /\ row # NoSession THEN Filed(artifactRows, task.artifact)
                          ELSE artifactRows
  /\ UNCHANGED <<keeping, memos, current, row, turnRows, auditRows, folder, loads,
                 removing, turnNo, notes>>

\* _persist_audit
PersistAudit ==
  /\ Writing("audit") /\ Written
  /\ \E ok \in BOOLEAN :
       /\ Tried(ok)
       /\ auditRows' = IF ok THEN Append(auditRows, [question |-> task.question,
                                                     allowed |-> task.then = "allowed"])
                       ELSE auditRows
       /\ unaudited' = IF ok THEN unaudited ELSE unaudited \cup {task.question}
  /\ UNCHANGED <<keeping, memos, current, row, turnRows, artifactRows, folder, loads,
                 removing, turnNo, announced, unsaid, stale>>

\* _persist_session: an upsert, which brings a deleted row back.
PersistSession ==
  /\ Writing("session") /\ Written
  /\ \E ok \in BOOLEAN :
       /\ Tried(ok)
       /\ row' = IF ok THEN SessionPayload(Mine) ELSE row
       /\ stale' = ~ok
  /\ UNCHANGED <<keeping, memos, current, turnRows, artifactRows, auditRows, folder,
                 loads, removing, turnNo, announced, unsaid, unaudited>>

-----------------------------------------------------------------------------
(* Requests *)

\* The record n says something, after which r is stored by the writes.
Says(n, r, of, writes, then) ==
  /\ turnNo' = turnNo + 1
  /\ memos' = [memos EXCEPT ![n] = [r EXCEPT !.turns = Append(@, turnNo + 1)]]
  /\ task' = [of EXCEPT !.pc = "writing", !.turn = turnNo + 1, !.writes = writes,
                        !.then = then]

RequestFor(op, format) ==
  [pc |-> "begin", op |-> op, rec |-> current, format |-> format,
   question |-> turnNo + 1, turn |-> 0, writes |-> <<>>, then |-> "idle",
   artifact |-> <<>>]

MayBegin == task = NoTask /\ current # 0 /\ turnNo < MaxTurns

Elsewhere == <<keeping, current, tables, loads, removing, notes, archiveFaults>>

\* Small talk and data queries: only the answer becomes a turn.  The model that
\* makes small talk may fail, which the user is told as an answer.
Chat ==
  /\ MayBegin /\ memos[current].state \notin Ended
  /\ Says(current, memos[current], RequestFor("send", "none"), <<"turn", "session">>, "idle")
  /\ UNCHANGED <<folder, Elsewhere>>

CancelArchive ==
  /\ MayBegin /\ memos[current].state \notin {"archived", "failed"}
  /\ Says(current, [memos[current] EXCEPT !.state = "cancelled"],
          RequestFor("cancel", "none"), <<"turn", "session">>, "idle")
  /\ UNCHANGED <<folder, Elsewhere>>

\* _drive_pipeline begins: for a message, for a streamed report (which reopens
\* what has ended), or for a confirm without a report.
Drive(op, format) ==
  /\ MayBegin
  /\ LET r == memos[current]
     IN /\ op # "report" => r.state \notin Ended
        /\ op = "confirm" => r.ctx = 0 /\ r.asked
        /\ Says(current, [r EXCEPT !.state = "parsing", !.asked = TRUE],
                RequestFor(op, format), <<"turn">>, "parsing")
  /\ UNCHANGED <<folder, Elsewhere>>

\* The question is incomplete.
AskBack ==
  /\ task.pc = "parsing"
  /\ Says(task.rec, [Mine EXCEPT !.state = "clarifying"], task, <<"turn", "session">>,
          "idle")
  /\ UNCHANGED <<folder, Elsewhere>>

\* Mutant: what is denied is answered from what there is.
GateOpen ==
  /\ task.pc = "parsing"
  /\ task' = [task EXCEPT !.pc = "allowed"]
  /\ UNCHANGED <<memos, folder, turnNo, Elsewhere>>

\* The permission gate decides, and that is stored before anything else.
Gate ==
  /\ task.pc = "parsing"
  /\ \E decision \in {"allowed", "denied"} :
       task' = [task EXCEPT !.pc = "writing", !.writes = <<"audit">>, !.then = decision]
  /\ UNCHANGED <<memos, folder, turnNo, Elsewhere>>

\* A stage raises, or the gate has denied: the session has failed, in memory
\* only.  Composing may fail when the revision has been counted.
PipelineFails ==
  /\ task.pc \in {"parsing", "allowed", "denied"}
  /\ \E counted \in IF task.pc = "allowed" THEN {0, 1} ELSE {0} :
       memos' = [memos EXCEPT ![task.rec].state = "failed",
                              ![task.rec].revision = @ + counted]
  /\ task' = NoTask
  /\ UNCHANGED <<folder, turnNo, Elsewhere>>

\* The report is composed under the next revision and its preview announced.
Compose ==
  /\ task.pc = "allowed"
  /\ Says(task.rec,
          [Mine EXCEPT !.state = "previewing", !.ctx = task.question, !.revision = @ + 1],
          task, <<"turn", "session">>, IF task.op = "send" THEN "idle" ELSE "rendering")
  /\ UNCHANGED <<folder, Elsewhere>>

\* confirm, when there is a report to be confirmed.
ConfirmPreview(format) ==
  /\ MayBegin /\ memos[current].ctx # 0 /\ memos[current].state = "previewing"
  /\ task' = [RequestFor("confirm", format) EXCEPT !.pc = "rendering"]
  /\ UNCHANGED <<memos, folder, turnNo, Elsewhere>>

\* _content_type_for_format; the types of downloads are named by the suffix.
ContentType(format) ==
  CASE format = "docx" -> "wordprocessing" [] format = "markdown" -> "markdown"
MediaType(format) ==
  CASE format = "docx" -> "wordprocessing" [] format = "markdown" -> "markdown"

\* What is listed of the file: a confirm says neither interaction nor type.
ArtifactRecord ==
  [revision |-> Mine.revision, format |-> task.format, report |-> Mine.ctx,
   of |-> IF task.op = "report" THEN task.question ELSE 0,
   type |-> IF task.op = "report" THEN ContentType(task.format) ELSE "none"]

\* The file replaces one of that name.
FilesWith(a) ==
  {f \in folder : f.name # ReportName(a)} \cup {[name |-> ReportName(a), report |-> a.report]}

RenderReport ==
  /\ task.pc = "rendering" /\ task.op = "report"
  /\ folder' = FilesWith(ArtifactRecord)
  /\ memos' = [memos EXCEPT ![task.rec].artifacts = Append(@, ArtifactRecord)]
  /\ task' = [task EXCEPT !.pc = "writing", !.artifact = ArtifactRecord,
                          !.writes = <<"artifact", "session">>, !.then = "delivering"]
  /\ UNCHANGED <<turnNo, Elsewhere>>

RenderConfirmed ==
  /\ task.pc = "rendering" /\ task.op = "confirm"
  /\ folder' = FilesWith(ArtifactRecord)
  /\ Says(task.rec,
          [Mine EXCEPT !.state = "archived", !.artifacts = Append(@, ArtifactRecord)],
          [task EXCEPT !.artifact = ArtifactRecord],
          <<"artifact", "turn", "session">>, "delivering")
  /\ UNCHANGED Elsewhere

\* Rendering fails, or the interaction was cancelled meanwhile, perhaps when
\* the file is there: it is not listed.
RenderFails ==
  /\ task.pc = "rendering"
  /\ folder' \in {folder} \cup IF task.op = "report" THEN {FilesWith(ArtifactRecord)} ELSE {}
  /\ memos' = IF task.op = "confirm" THEN [memos EXCEPT ![task.rec].state = "failed"]
              ELSE memos
  /\ task' = NoTask
  /\ UNCHANGED <<turnNo, Elsewhere>>

\* The reply, or the interaction's message, if that can be stored.  It is good
\* as long as the session in memory is the one that was worked on.
DeliverArtifact ==
  /\ task.pc = "delivering"
  /\ announced' \in IF current = task.rec THEN {announced \cup {task.artifact}} ELSE {announced}
  /\ task' = NoTask
  /\ UNCHANGED <<keeping, memos, current, tables, folder, loads, removing, turnNo,
                 unsaid, unaudited, stale, archiveFaults>>

-----------------------------------------------------------------------------
(* What happens meanwhile *)

\* Any call finds the session in memory, or reads its row.
ReadRow ==
  /\ current = 0 /\ row # NoSession /\ Cardinality(loads \cup {row}) <= MaxLoads
  /\ loads' = loads \cup {row}
  /\ UNCHANGED <<keeping, memos, current, tables, folder, task, removing, turnNo, notes,
                 archiveFaults>>

\* A row has come, perhaps to others as well: its record takes the place of any
\* that is there by now.
InstallRow ==
  \E r \in loads :
    /\ current' = IF task # NoTask /\ task.rec = 1 THEN 2 ELSE 1
    /\ memos' = [memos EXCEPT ![current'] = Restored(r)]
    /\ loads' \in {loads, loads \ {r}}
    /\ announced' = IF current = 0 THEN announced ELSE {}
    /\ UNCHANGED <<keeping, tables, folder, task, removing, turnNo, unsaid, unaudited,
                   stale, archiveFaults>>

\* delete_session: the rows that refer to the session's go with it.
RemoveRow ==
  /\ current # 0 /\ ~removing /\ archiveFaults < MaxArchiveFaults
  /\ archiveFaults' = archiveFaults + 1
  /\ removing' = TRUE
  /\ row' = NoSession /\ turnRows' = <<>> /\ artifactRows' = <<>>
  /\ unsaid' = unsaid \cup Range(turnRows)
  /\ announced' = {}
  /\ UNCHANGED <<keeping, memos, current, auditRows, folder, task, loads, turnNo,
                 unaudited, stale>>

\* The request that is under way keeps its record.
Popped == memos' = IF task = NoTask THEN Unused ELSE memos

RemoveRecord ==
  /\ removing /\ removing' = FALSE
  /\ current' = 0 /\ folder' = {} /\ announced' = {} /\ Popped
  /\ UNCHANGED <<keeping, tables, task, loads, turnNo, unsaid, unaudited, stale,
                 archiveFaults>>

\* cleanup_old_sessions: the folder is old.
CleanFolder ==
  /\ folder # {} /\ archiveFaults < MaxArchiveFaults
  /\ archiveFaults' = archiveFaults + 1
  /\ folder' = {} /\ current' = 0 /\ announced' = {} /\ Popped
  /\ UNCHANGED <<keeping, tables, task, loads, removing, turnNo, unsaid, unaudited, stale>>

\* After a restart only what the stored session lists is announced, if its last
\* write did not work.
ArchiveRestart ==
  /\ memos' = Unused /\ current' = 0
  /\ task' = NoTask /\ loads' = {} /\ removing' = FALSE
  /\ announced' = IF row = NoSession THEN {}
                  ELSE IF stale THEN announced \cap Range(row.artifacts) ELSE announced
  /\ UNCHANGED <<keeping, tables, folder, turnNo, unsaid, unaudited, stale,
                 archiveFaults>>

ArchiveNext ==
  \/ Chat \/ CancelArchive
  \/ \E f \in ReportFormats :
       Drive("report", f) \/ Drive("confirm", f) \/ ConfirmPreview(f)
  \/ Drive("send", "none")
  \/ AskBack \/ Gate \/ PipelineFails \/ Compose
  \/ RenderReport \/ RenderConfirmed \/ RenderFails \/ DeliverArtifact
  \/ PersistTurn \/ PersistArtifact \/ PersistAudit \/ PersistSession
  \/ ReadRow \/ InstallRow \/ RemoveRow \/ RemoveRecord \/ CleanFolder \/ ArchiveRestart

ArchiveSpec == ArchiveInit /\ [][ArchiveNext]_archiveVars

-----------------------------------------------------------------------------
(* What a client is given of the session in memory *)

ListTurns == memos[current].turns

\* Only if the record lists none is the table read.
Recorded == IF memos[current].artifacts # <<>> THEN memos[current].artifacts
            ELSE artifactRows

\* Those of an interaction, or all; their order is left out.
ListArtifacts(of) == {a \in Range(Recorded) : of # 0 => a.of = of}

\* get_artifact_path: the file of the name, if it is listed and there.
Download(name) ==
  {f \in folder : f.name = name /\ \E a \in Range(Recorded) : ReportName(a) = name}

\* The composed report is not restored, whatever the state says.
Previewable == memos[current].ctx # 0

\* The preview, by its report; a session without one is a conflict.
ShowPreview == IF Previewable THEN {memos[current].ctx} ELSE {}

\* list_audits: the oldest.
ListAudits ==
  SubSeq(auditRows, 1, IF Len(auditRows) < AuditPage THEN Len(auditRows) ELSE AuditPage)

-----------------------------------------------------------------------------
(* Properties *)

Rising(seq) == \A i, j \in DOMAIN seq : i < j => seq[i] < seq[j]

\* The turns are stored in the order in which they were said, each once, and
\* none of a session that is not stored.  What a client reads is not all of
\* them, but the end of what is stored: the earlier ones were said before the
\* session was loaded.  A turn that it reads and that is not stored failed to
\* be, or is about to be.
HistoryIsKept ==
  /\ Rising(turnRows)
  /\ row = NoSession => turnRows = <<>> /\ artifactRows = <<>>
  /\ current # 0 =>
       /\ Rising(ListTurns)
       /\ \A t \in Range(ListTurns) :
            \/ t \in Range(turnRows) \cup unsaid
            \/ task # NoTask /\ task.turn = t /\ "turn" \in Range(task.writes)
       /\ \A t \in Range(turnRows) \ Range(ListTurns) : \A u \in Range(ListTurns) : t < u

\* A report that a client was told of can be listed by its interaction and
\* downloaded as what it was, by the type it was announced with, also after a
\* restart, next to reports made later and although two records and a table say
\* what there is: until the session is deleted or cleaned up, a failed write is
\* lost in a restart, or a slow load replaces the record in memory.  The preview
\* of the same revision shows the same report.
ArtifactsAreFound ==
  \A a \in announced :
    /\ current = 0 => row # NoSession
    /\ current # 0 =>
         /\ a \in ListArtifacts(a.of)
         /\ Download(ReportName(a)) = {[name |-> ReportName(a), report |-> a.report]}
         /\ a.revision = memos[current].revision => ShowPreview \subseteq {a.report}
    /\ a.type # "none" => a.type = MediaType(a.format)

\* No report is there without a decision that allows it, stored before, unless
\* that could not be stored; decisions outlive the session, and each question
\* has one.  Who asks for them sees that of his report, or more than a page of
\* older ones.
ReportsAreAllowed ==
  LET decisions == Range(auditRows)
      allowed == {d.question : d \in {x \in decisions : x.allowed}} \cup unaudited
      seen == {d.question : d \in Range(ListAudits)} \cup unaudited
  IN /\ \A i, j \in DOMAIN auditRows : i < j => auditRows[i].question < auditRows[j].question
     /\ \A k \in DOMAIN memos : memos[k].ctx \in allowed \cup {0}
     /\ \A f \in folder : f.report \in allowed
     /\ \A a \in announced : a.report \in seen \/ Len(ListAudits) = AuditPage

\* What is kept of a session is what was said in it, made and allowed: the three
\* parts above.
ArchiveIsTrue == HistoryIsKept /\ ArtifactsAreFound /\ ReportsAreAllowed
=============================================================================
