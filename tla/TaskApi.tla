------------------------------ MODULE TaskApi -------------------------------
(***************************************************************************)
(* What clients of the task API see: a task is submitted step by step,     *)
(* its run records events and stores artifacts, and its clients read them  *)
(* by pages and filters, from repositories in memory, in files (artifacts  *)
(* and replays only) or in Postgres, across a restart.                     *)
(*                                                                         *)
(* How a run goes is RunOrchestration, how its events get into the replay  *)
(* RunStream; here an event is recorded when it is published.              *)
(***************************************************************************)
EXTENDS Integers, FiniteSets, Sequences, SequencesExt

CONSTANTS
  Runs,          \* submitted tasks, each with its run
  SubtaskIds,    \* subtasks of a run
  ApiPageLimit,  \* what the reader asks for
  MaxRecorded,   \* bound: events of a run
  MaxStored,     \* bound: artifacts of a run
  MaxApiFaults   \* bound: writes of a submission that fail

ASSUME ApiAssumption ==
  /\ "none" \notin Runs
  /\ ApiPageLimit \in Int /\ {MaxRecorded, MaxStored, MaxApiFaults} \subseteq Nat

VARIABLES
  durable,    \* what is kept where a restart does not touch it
  step,       \* how far submit_task has come
  kept,       \* what of a task the repositories have
  replayed,   \* the entries of the replay of its run
  artifacts,  \* its artifacts, as created
  happened,   \* what was recorded and created, also before a restart
  restarted,
  pageReader  \* a client of GET .../events

apiVars == <<durable, step, kept, replayed, artifacts, happened, restarted, pageReader>>

\* submit_task saves these in this order, then publishes task.created.
Saves == <<"session", "task", "attached", "run", "replay">>
Published == Len(Saves) + 1

\* _build_repositories: all in Postgres, or the artifacts and the replays in
\* files or not, each as configured, and the rest in memory.
Everything == ToSet(Saves) \cup {"subtasks", "artifacts"}
Stores == {Everything} \cup SUBSET {"replay", "artifacts"}
Postgres == durable = Everything

Topics == {"tool.completed", "subtask.completed"}
Events == [topic : Topics, subtask : SubtaskIds \cup {"none"}]

\* _create_sandbox_file_artifact: only what its name says is a text is decoded.
FileArtifact(isText, payload) ==
  [of |-> IF isText THEN "text file" ELSE "binary file",
   payload |-> payload,
   content |-> IF ~isText THEN "none" ELSE IF payload = "" THEN "" ELSE "text"]

\* What creates an artifact: of a command its summary, what it printed and its
\* files, the files of a skill's script, and the traces of audited events.
Artifacts ==
  {[of |-> "summary", payload |-> "none", content |-> "none"],
   [of |-> "stdout", payload |-> "none", content |-> "text"],
   FileArtifact(TRUE, "bytes"), FileArtifact(TRUE, ""),
   FileArtifact(FALSE, "bytes"), FileArtifact(FALSE, ""),
   [of |-> "skill file", payload |-> "bytes", content |-> "text"],
   [of |-> "trace", payload |-> "none", content |-> "none"]}

NoFilter == [topic |-> "any", subtask |-> "any"]
Filters == {NoFilter} \cup [topic : {"any"}, subtask : SubtaskIds]
             \cup [topic : Topics, subtask : {"any"}]

NoReader == [run |-> "none", filter |-> NoFilter, cursor |-> 0, got |-> <<>>]

ApiInit ==
  /\ durable \in Stores
  /\ step = [r \in Runs |-> 0]
  /\ kept = [r \in Runs |-> {}]
  /\ replayed = [r \in Runs |-> <<>>]
  /\ artifacts = [r \in Runs |-> {}]
  /\ happened = [events |-> replayed, artifacts |-> artifacts]
  /\ restarted = FALSE
  /\ pageReader = NoReader

-----------------------------------------------------------------------------
(* The gateway *)

\* One step of submit_task; the request is admitted, its identity has a tenant
\* and the scopes.  The run goes on in a task of its own.
Submit(r) ==
  /\ step[r] \in 0 .. Published - 1
  /\ step' = [step EXCEPT ![r] = @ + 1]
  /\ kept' = IF step'[r] = Published THEN kept
             ELSE [kept EXCEPT ![r] = @ \cup {Saves[step'[r]]}]
  /\ UNCHANGED <<durable, replayed, artifacts, happened, restarted, pageReader>>

\* A goal that is blank, or a write that raises: the client is told 500, and
\* what has been written stays.
SubmitRaises(r) ==
  /\ \/ step[r] = 0
     \/ /\ step[r] \in 0 .. Len(Saves) - 1
        /\ {Saves[step[r] + 1]} \subseteq durable
        /\ Cardinality({q \in Runs : step[q] < 0}) < MaxApiFaults
  /\ step' = [step EXCEPT ![r] = -1]
  /\ UNCHANGED <<durable, kept, replayed, artifacts, happened, restarted, pageReader>>

Running(r) == step[r] = Published /\ ~restarted

\* The plan is made and its subtasks are stored.
StoreSubtasks(r) ==
  /\ Running(r) /\ "subtasks" \notin kept[r]
  /\ kept' = [kept EXCEPT ![r] = @ \cup {"subtasks"}]
  /\ UNCHANGED <<durable, step, replayed, artifacts, happened, restarted, pageReader>>

Known(r, s) == s = "none" \/ "subtasks" \in kept[r]

\* ReplayRecorder.handle_event
RecordEvent(r, e) ==
  /\ Running(r) /\ Known(r, e.subtask) /\ Len(replayed[r]) < MaxRecorded
  /\ replayed' = [replayed EXCEPT ![r] = Append(@, e)]
  /\ happened' = [happened EXCEPT !.events = replayed']
  /\ UNCHANGED <<durable, step, kept, artifacts, restarted, pageReader>>

CreateArtifact(r, s, a) ==
  /\ Running(r) /\ Known(r, s) /\ Cardinality(artifacts[r]) < MaxStored
  /\ artifacts' = [artifacts EXCEPT ![r] = @ \cup {[subtask |-> s, artifact |-> a]}]
  /\ happened' = [happened EXCEPT !.artifacts = artifacts']
  /\ UNCHANGED <<durable, step, kept, replayed, restarted, pageReader>>

\* The process ends and begins anew; no run goes on, and no submission.
RestartApi ==
  /\ ~restarted /\ restarted' = TRUE
  /\ kept' = [r \in Runs |-> kept[r] \cap durable]
  /\ replayed' = [r \in Runs |-> IF "replay" \in durable THEN replayed[r] ELSE <<>>]
  /\ artifacts' = [r \in Runs |-> IF "artifacts" \in durable THEN artifacts[r] ELSE {}]
  /\ step' = [r \in Runs |-> IF step[r] = Published THEN Published ELSE -1]
  /\ pageReader' = IF "replay" \in durable THEN pageReader ELSE NoReader
  /\ UNCHANGED <<durable, happened>>

-----------------------------------------------------------------------------
(* What the routes answer: a status, or a status with what is asked for. *)

NotFound == [status |-> 404, body |-> {}]
Found(body) == [status |-> 200, body |-> body]

\* GET /v1/tasks, with the run of each
ListTasks == {[task |-> r, run |-> "run" \in kept[r]] : r \in {q \in Runs : "task" \in kept[q]}}

\* GET /v1/tasks/{id}/detail, GET /v1/runs/{id} and .../status
TaskDetail(r) ==
  IF "task" \notin kept[r] THEN NotFound ELSE Found(kept[r] \cap {"session", "run"})
RunDetail(r) == IF "run" \notin kept[r] THEN NotFound ELSE Found(artifacts[r])

Matches(e, filter) ==
  filter.topic \in {"any", e.topic} /\ filter.subtask \in {"any", e.subtask}

\* The entries of a sequence at some of its places, in order.
Rank(places, i) == Cardinality({j \in places : j <= i})
PlaceOf(places, n) == CHOOSE i \in places : Rank(places, i) = n
Picked(s, places) == [n \in 1 .. Cardinality(places) |-> s[PlaceOf(places, n)]]

Filtered(r, filter) ==
  Picked(replayed[r], {i \in DOMAIN replayed[r] : Matches(replayed[r][i], filter)})

\* list[start:][:max(1, limit)]
Page(entries, start, limit) ==
  SubSeq(entries, start + 1, Min({Len(entries), start + (IF limit > 1 THEN limit ELSE 1)}))

\* Mutant: the cursor counts the entries before they are filtered.
PageOfAll(r, filter, cursor, limit) ==
  LET start == IF cursor > 0 THEN cursor ELSE 0
      events == SelectSeq(Page(replayed[r], start, limit), LAMBDA e : Matches(e, filter))
  IN [events |-> events, next |-> start + Len(events)]

\* build_run_events_response and build_subtask_events_response: the cursor is a
\* place among the entries that pass the filter.
EventPage(r, filter, cursor, limit) ==
  LET start == IF cursor > 0 THEN cursor ELSE 0
      events == Page(Filtered(r, filter), start, limit)
  IN [events |-> events, next |-> start + Len(events)]

\* GET /v1/runs/{id}/events, and .../subtasks/{id}/events of a subtask that has
\* events or is known: a run without a replay has no events.
GetEvents(r, filter, cursor, limit) ==
  IF "replay" \notin kept[r]
    THEN IF "run" \in kept[r] THEN Found([events |-> <<>>, next |-> cursor]) ELSE NotFound
  ELSE IF /\ filter.subtask # "any" /\ "subtasks" \notin kept[r]
          /\ \A e \in ToSet(replayed[r]) : e.subtask # filter.subtask
    THEN NotFound
  ELSE Found(EventPage(r, filter, cursor, limit))

OfSubtask(r, s) == {a \in artifacts[r] : a.subtask = s}

\* GET .../subtasks/{id}/artifacts: without any, the run has to be known, or at
\* least its replay, and the subtask if the run is.
GetArtifacts(r, s) ==
  IF /\ OfSubtask(r, s) = {}
     /\ \/ {"run", "replay"} \cap kept[r] = {}
        \/ "run" \in kept[r] /\ "subtasks" \notin kept[r]
    THEN NotFound ELSE Found(OfSubtask(r, s))

\* read_content of the three repositories: Postgres takes an empty payload for
\* none.
ReadContent(fromPostgres, a) ==
  LET none == IF fromPostgres THEN {"none", ""} ELSE {"none"}
  IN IF a.payload \notin none THEN a.payload ELSE a.content

\* GET .../artifacts/{id}/content
Download(r, a) ==
  IF a \notin artifacts[r] \/ ReadContent(Postgres, a.artifact) = "none" THEN NotFound
  ELSE Found(ReadContent(Postgres, a.artifact))

\* A client reads on where its last page ended, with the same filter.
ReadEvents(r, filter) ==
  /\ pageReader.run = "none" \/ (pageReader.run = r /\ pageReader.filter = filter)
  /\ LET answer == GetEvents(r, filter, pageReader.cursor, ApiPageLimit)
     IN /\ answer.status = 200
        /\ answer.body.next > pageReader.cursor
        /\ pageReader' = [run |-> r, filter |-> filter, cursor |-> answer.body.next,
                          got |-> pageReader.got \o answer.body.events]
  /\ UNCHANGED <<durable, step, kept, replayed, artifacts, happened, restarted>>

ApiNext ==
  \/ \E r \in Runs :
       \/ Submit(r) \/ SubmitRaises(r) \/ StoreSubtasks(r)
       \/ \E e \in Events : RecordEvent(r, e)
       \/ \E s \in SubtaskIds \cup {"none"}, a \in Artifacts : CreateArtifact(r, s, a)
       \/ \E filter \in Filters : ReadEvents(r, filter)
  \/ RestartApi

ApiSpec == ApiInit /\ [][ApiNext]_apiVars

-----------------------------------------------------------------------------
(* Properties *)

\* Whatever was interrupted or failed: a run is one of a task that is stored and
\* listed in its session, a replay is one of a run, and nothing happens before
\* all of them are stored.  What is in files outlives the rest.
NothingDangles ==
  \A r \in Runs :
    /\ ~restarted \/ Postgres =>
         \A i \in DOMAIN Saves : \A j \in 1 .. i :
           Saves[i] \in kept[r] => Saves[j] \in kept[r]
    /\ Running(r) => ToSet(Saves) \subseteq kept[r]
    /\ step[r] # Published => happened.events[r] = <<>> /\ happened.artifacts[r] = {}

\* Who reads the events of a run, or of a subtask, or of a topic, page by page
\* while they are recorded, gets each of them once and in order.
EventsReadOnce ==
  pageReader.run # "none" =>
    LET all == Filtered(pageReader.run, pageReader.filter)
    IN pageReader.cursor <= Len(all) /\ pageReader.got = SubSeq(all, 1, pageReader.cursor)

\* What a client could read before the server was restarted it can read after,
\* from files and from Postgres; from memory it is told that there is nothing.
\* A file is the same from all three, except one of no bytes that is not a text:
\* Postgres has no content of it.
ReadableAfterRestart ==
  \A r \in Runs :
    /\ step[r] = Published /\ ("replay" \in durable \/ ~restarted) =>
         /\ GetEvents(r, NoFilter, 0, MaxRecorded) =
              Found([events |-> happened.events[r], next |-> Len(happened.events[r])])
         /\ \A e \in ToSet(happened.events[r]) : e.subtask \in SubtaskIds =>
              GetEvents(r, [NoFilter EXCEPT !.subtask = e.subtask], 0, 1).status = 200
    /\ "artifacts" \in durable \/ ~restarted =>
         \A a \in happened.artifacts[r] :
           /\ a.subtask \in SubtaskIds => a \in GetArtifacts(r, a.subtask).body
           /\ LET there == ReadContent(FALSE, a.artifact)
              IN \/ Download(r, a) = (IF there = "none" THEN NotFound ELSE Found(there))
                 \/ Postgres /\ a.artifact.payload = "" /\ a.artifact.content = "none"
    /\ restarted /\ "replay" \notin durable => GetEvents(r, NoFilter, 0, 1) = NotFound
    /\ restarted /\ ~Postgres => TaskDetail(r) = NotFound /\ RunDetail(r) = NotFound
    /\ [task |-> r, run |-> TRUE] \in ListTasks <=> RunDetail(r) # NotFound

\* A client of the task API is told of no run that is not stored with all that
\* belongs to it, reads every event once, and after a restart what it could
\* read before, as far as it is kept in files or in Postgres.
ApiIsTrue == NothingDangles /\ EventsReadOnce /\ ReadableAfterRestart
=============================================================================
