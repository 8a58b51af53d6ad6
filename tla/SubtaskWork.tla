---------------------------- MODULE SubtaskWork ----------------------------
(***************************************************************************)
(* How a subtask in a sandbox comes to its result.  A planned command runs *)
(* in the sandbox the subtask leases; or an agent is asked, twice at most, *)
(* to make files with the scripts of its skills, each script in a sandbox  *)
(* of its own.  Either way the files that were made are read and stored    *)
(* one by one, and they decide the result.                                 *)
(*                                                                         *)
(* The agent framework is external: an error of a tool is answered to the  *)
(* model, which goes on, or ends the agent's step.                         *)
(***************************************************************************)
EXTENDS SandboxLease, Sequences

CONSTANTS
  Command,      \* the use of a sandbox by the command
  Scripts,      \* the uses by skill scripts
  Paths,        \* files the command or the script is expected to make
  MaxAttempts,  \* max_attempts of the materialised rendering
  MaxFaults     \* bound: artifacts that cannot be stored

ASSUME WorkAssumption ==
  /\ Command \in Leasing /\ Scripts \subseteq Calls \ Leasing
  /\ MaxAttempts \in Nat \ {0} /\ MaxFaults \in Nat

Uses == {Command} \cup Scripts

VARIABLES
  work,   \* where the execution is, its attempt, whether a file is required,
          \* and whether run_skill_script was heard of in this attempt
  job,    \* what goes on in each sandbox: where it is, the exit code, the
          \* files written there and those read, and whether it has raised
  trail,  \* the events of each use; "artifact.created" is that of a file, and
          \* "failure.created" the one of the report on a tool that failed
  files,  \* the files stored in the artifact repository, by use
  faults

workVars == <<work, job, trail, files, faults>>
allVars == <<vars, workVars>>

NoJob ==
  [pc |-> "idle", exit |-> 0, written |-> {}, read |-> {}, raised |-> FALSE]

WorkInit ==
  /\ work \in [pc : {"idle"}, attempt : {0}, heard : {FALSE}, required : BOOLEAN]
  /\ job = [u \in Uses |-> NoJob]
  /\ trail = [u \in Uses |-> <<>>]
  /\ files = [u \in Uses |-> {}]
  /\ faults = 0

-----------------------------------------------------------------------------
(* Both ways *)

Doing(u, pc) == job[u].pc = pc
Note(u, events) == trail' = [trail EXCEPT ![u] = @ \o events]

\* The adapter knows the sandbox, and it is still there.
Reachable(u) == call[u].box \in sandboxes \cap live

\* An exception in the sandbox; the finally clause gives the sandbox back.
Leave(u) == job' = [job EXCEPT ![u].pc = "leaving", ![u].raised = TRUE]

\* The except clause of _run_tool: the failure is told, and a report on it is
\* stored as an artifact, which is no file of the subtask, and announced.
ToolFailed(u, events) ==
  \/ /\ Note(u, events \o <<"tool.failed", "failure.created">>)
     /\ UNCHANGED faults
  \/ /\ faults < MaxFaults /\ faults' = faults + 1
     /\ Note(u, events \o <<"tool.failed">>)

\* execute_command: sandbox_exec through _run_tool, or the script's command
\* line.  An exit code other than 0 is a result, and may come with files.
RunCommand(u) ==
  /\ Doing(u, "running")
  /\ UNCHANGED <<vars, work, files>>
  /\ \/ /\ Reachable(u)
        /\ \E exit \in {0, 1}, written \in SUBSET Paths :
             job' = [job EXCEPT ![u].pc = "reading", ![u].exit = exit,
                                ![u].written = written]
        /\ Note(u, IF u = Command THEN <<"tool.completed">> ELSE <<>>)
        /\ UNCHANGED faults
     \/ /\ Leave(u)
        /\ IF u = Command THEN ToolFailed(u, <<>>) ELSE UNCHANGED <<trail, faults>>

\* _collect_sandbox_file_artifacts and _collect_artifacts: a file that cannot
\* be read is left out without an error.  The command's files are stored while
\* it has its sandbox, a script's afterwards.
Collect(u) ==
  /\ Doing(u, "reading")
  /\ \E read \in SUBSET job[u].written :
       /\ read # {} => Reachable(u)
       /\ job' = [job EXCEPT ![u].read = read,
                             ![u].pc = IF u = Command THEN "storing"
                                                      ELSE "leaving"]
  /\ UNCHANGED <<vars, work, trail, files, faults>>

\* Mutant: files are stored as they were asked for.
StoreExpected(u) ==
  /\ Doing(u, "storing")
  /\ \E path \in Paths \ files[u] :
       files' = [files EXCEPT ![u] = @ \cup {path}]
  /\ Note(u, <<"artifact.created">>)
  /\ UNCHANGED <<vars, work, job, faults>>

\* _store_artifact and _persist_artifacts, one file.
Store(u) ==
  /\ Doing(u, "storing")
  /\ \E path \in job[u].read \ files[u] :
       files' = [files EXCEPT ![u] = @ \cup {path}]
  /\ Note(u, <<"artifact.created">>)
  /\ UNCHANGED <<vars, work, job, faults>>

Stored(u) == Doing(u, "storing") /\ job[u].read \subseteq files[u]

-----------------------------------------------------------------------------
(* _execute_sandbox_subtask *)

StartCommand ==
  /\ work.pc = "idle"
  /\ work' = [work EXCEPT !.pc = "command"]
  /\ job' = [job EXCEPT ![Command].pc = "entering"]
  /\ Create(Command) \/ UnknownProfile(Command)
  /\ UNCHANGED <<trail, files, faults>>

\* _build_command_request: the model plans a command, or none.
PlanCommand ==
  /\ Doing(Command, "entering") /\ At(Command, "working")
  /\ \/ /\ job' = [job EXCEPT ![Command].pc = "running"]
        /\ Note(Command, <<"tool.started">>)
     \/ Leave(Command) /\ UNCHANGED trail
  /\ UNCHANGED <<vars, work, files, faults>>

\* Mutant: the exit code alone decides.
ExitDecides ==
  /\ Stored(Command)
  /\ work' = [work EXCEPT !.pc = IF job[Command].exit = 0 THEN "completed"
                                                         ELSE "failed"]
  /\ job' = [job EXCEPT ![Command].pc = "leaving"]
  /\ UNCHANGED <<vars, trail, files, faults>>

Decide ==
  /\ Stored(Command)
  /\ work' = [work EXCEPT !.pc =
                IF job[Command].exit = 0
                     /\ (work.required => job[Command].read # {})
                  THEN "completed" ELSE "failed"]
  /\ job' = [job EXCEPT ![Command].pc = "leaving"]
  /\ UNCHANGED <<vars, trail, files, faults>>

\* The artifact repository raises.
CommandStoreFails ==
  /\ Doing(Command, "storing") /\ faults < MaxFaults
  /\ faults' = faults + 1
  /\ Leave(Command)
  /\ UNCHANGED <<vars, work, trail, files>>

\* The sandbox was given back, or never came; without a decision the subtask
\* fails.
CommandEnds ==
  /\ Doing(Command, "leaving") \/ Doing(Command, "entering")
  /\ At(Command, "done") \/ At(Command, "failed")
  /\ job' = [job EXCEPT ![Command].pc = "ended"]
  /\ work' = [work EXCEPT !.pc = IF @ = "command" THEN "failed" ELSE @]
  /\ UNCHANGED <<vars, trail, files, faults>>

-----------------------------------------------------------------------------
(* _execute_omni_agent_subtask, for a subtask whose file a skill must make *)

StartAgent ==
  /\ work.pc = "idle" /\ work.required
  /\ work' = [work EXCEPT !.pc = "agent", !.attempt = 1]
  /\ UNCHANGED <<vars, job, trail, files, faults>>

Busy == \E s \in Scripts : job[s].pc \notin {"idle", "ended"}

\* Mutant: the last call of the tool is the one that counts.
HearLast(raises) ==
  work' = [work EXCEPT !.heard = ~raises, !.pc = IF raises THEN "judging" ELSE @]

\* What OmniAgent._acting publishes of the call: tool.completed also for an
\* error that was answered to the model.
Hear(raises) ==
  work' = [work EXCEPT !.heard = @ \/ ~raises,
                       !.pc = IF raises THEN "judging" ELSE @]

\* The agent calls run_skill_script in vain: the call names no script, or is
\* not allowed.
Refusals == {<<>>, <<"policy.denied">>}

\* The tool fails at once: the call names no skill, or asks for what the script
\* does not declare.
Rejections ==
  {<<"tool.started">>, <<"tool.started", "script.started", "script.failed">>}

RefusedScript(s) ==
  /\ work.pc = "agent" /\ ~Busy /\ Doing(s, "idle") /\ At(s, "idle")
  /\ \/ (\E events \in Refusals : Note(s, events)) /\ UNCHANGED faults
     \/ \E events \in Rejections : ToolFailed(s, events)
  /\ job' = [job EXCEPT ![s].pc = "ended", ![s].raised = TRUE]
  /\ \E raises \in BOOLEAN : Hear(raises)
  /\ UNCHANGED <<vars, files>>

\* run_skill_script, up to the sandbox of SkillScriptExecutor.execute.
StartScript(s) ==
  /\ work.pc = "agent" /\ ~Busy /\ Doing(s, "idle")
  /\ Create(s) \/ UnknownProfile(s)
  /\ job' = [job EXCEPT ![s].pc = "entering"]
  /\ Note(s, <<"tool.started", "script.started">>)
  /\ UNCHANGED <<work, files, faults>>

\* The skill's files are written into the sandbox.
WriteFiles(s) ==
  /\ Doing(s, "entering") /\ At(s, "working")
  /\ \/ /\ Reachable(s)
        /\ job' = [job EXCEPT ![s].pc = "running"]
     \/ Leave(s)
  /\ UNCHANGED <<vars, work, trail, files, faults>>

\* The sandbox is destroyed and the script has a result.
Executed(s) ==
  /\ Doing(s, "leaving") /\ At(s, "done") /\ ~job[s].raised
  /\ job' = [job EXCEPT ![s].pc = "storing"]
  /\ UNCHANGED <<vars, work, trail, files, faults>>

Raised(s) == At(s, "failed") \/ (At(s, "done") /\ job[s].raised)

\* Mutant: only what the script raises is recorded, not what its sandbox does.
FailSilently(s) ==
  /\ Doing(s, "leaving") \/ Doing(s, "entering")
  /\ Raised(s)
  /\ job' = [job EXCEPT ![s].pc = "ended", ![s].raised = TRUE]
  /\ ToolFailed(s, IF At(s, "failed") THEN <<>> ELSE <<"script.failed">>)
  /\ \E raises \in BOOLEAN : Hear(raises)
  /\ UNCHANGED <<vars, files>>

\* The executor raises: its sandbox did not come, the script could not be run,
\* or destroying the sandbox failed after it had run.
ScriptRaises(s) ==
  /\ Doing(s, "leaving") \/ Doing(s, "entering")
  /\ Raised(s)
  /\ job' = [job EXCEPT ![s].pc = "ended", ![s].raised = TRUE]
  /\ ToolFailed(s, <<"script.failed">>)
  /\ \E raises \in BOOLEAN : Hear(raises)
  /\ UNCHANGED <<vars, files>>

\* A file cannot be stored: the script's own events end without a word of how
\* it went.  The report on the failure goes to the same repository.
ScriptStoreFails(s) ==
  /\ Doing(s, "storing") /\ ~Stored(s) /\ faults < MaxFaults
  /\ faults' = faults + 1
  /\ job' = [job EXCEPT ![s].pc = "ended", ![s].raised = TRUE]
  /\ \/ Note(s, <<"tool.failed", "failure.created">>)
     \/ Note(s, <<"tool.failed">>)
  /\ \E raises \in BOOLEAN : Hear(raises)
  /\ UNCHANGED <<vars, files>>

ScriptEnds(s) ==
  /\ Stored(s)
  /\ job' = [job EXCEPT ![s].pc = "ended"]
  /\ Note(s, <<IF job[s].exit = 0 THEN "script.completed" ELSE "script.failed",
               "tool.completed">>)
  /\ Hear(FALSE)
  /\ UNCHANGED <<vars, files, faults>>

\* The agent replies, fails, or is at its last step.
AgentEnds ==
  /\ work.pc = "agent" /\ ~Busy
  /\ work' = [work EXCEPT !.pc = "judging"]
  /\ UNCHANGED <<vars, job, trail, files, faults>>

Delivered == \E s \in Scripts : files[s] # {}

\* The attempt counts when run_skill_script was heard of; then a file must be
\* there.  Otherwise the agent is asked once more.
Judge ==
  /\ work.pc = "judging"
  /\ work' = IF work.heard
               THEN [work EXCEPT !.pc =
                       IF Delivered THEN "completed" ELSE "failed"]
             ELSE IF work.attempt < MaxAttempts
               THEN [work EXCEPT !.pc = "agent", !.attempt = @ + 1]
             ELSE [work EXCEPT !.pc = "failed"]
  /\ UNCHANGED <<vars, job, trail, files, faults>>

-----------------------------------------------------------------------------
ScriptStep(s) ==
  \/ RefusedScript(s) \/ StartScript(s) \/ WriteFiles(s) \/ Executed(s)
  \/ ScriptRaises(s) \/ ScriptStoreFails(s) \/ ScriptEnds(s)

WorkStep ==
  \/ PlanCommand \/ Decide \/ CommandStoreFails \/ CommandEnds
  \/ \E u \in Uses : RunCommand(u) \/ Collect(u) \/ Store(u)
  \/ \E s \in Scripts : ScriptStep(s)
  \/ AgentEnds \/ Judge

\* A use of a sandbox goes on; the work in it says when it is given back.
CallStep(c) ==
  /\ Step(c)
  /\ c \in Uses /\ call[c].pc = "working" => job[c].pc \in {"idle", "leaving"}
  /\ UNCHANGED workVars

\* Whoever else uses sandboxes: other subtasks, BashTool, the CLI.
OtherStep ==
  /\ \/ \E c \in Calls : /\ c \in Uses => job[c].pc = "idle"
                         /\ Create(c) \/ UnknownProfile(c)
     \/ StartCleaning \/ Clean \/ CleanKilled \/ CleanFails \/ CleanEnds
     \/ Expire
  /\ UNCHANGED workVars

WorkNext ==
  \/ StartCommand \/ StartAgent \/ WorkStep \/ OtherStep
  \/ \E c \in Calls : CallStep(c)

WorkSpec == Init /\ WorkInit /\ [][WorkNext]_allVars

\* Requests to the server, the model and the repositories return or raise.
WorkFairness == WF_allVars(WorkStep) /\ \A c \in Calls : WF_allVars(CallStep(c))

-----------------------------------------------------------------------------
(* Properties *)

Count(u, topics) == Cardinality({i \in DOMAIN trail[u] : trail[u][i] \in topics})

\* Whatever raises where (the sandbox, the script, the destruction of the
\* sandbox, the repository), the audit trail of a finished use tells its end:
\* a tool or a script that started ends once, "completed" is said of a script
\* that exited with 0 and whose files are all stored, every stored file was
\* announced, every tool that failed left a report on it, and nothing but that
\* report follows the end of a script's tool call.  Only when the repository
\* fails is the script's own end missing, or the report.
TrailIsTrue ==
  \A u \in Uses : Doing(u, "ended") =>
    /\ Count(u, {"tool.started"}) = Count(u, {"tool.completed", "tool.failed"})
    /\ \/ Count(u, {"script.started"}) = Count(u, {"script.completed", "script.failed"})
       \/ faults > 0 /\ Count(u, {"tool.failed"}) = 1
    /\ Count(u, {"script.completed"}) > 0 =>
         job[u].exit = 0 /\ ~job[u].raised /\ files[u] = job[u].read
    /\ Count(u, {"artifact.created"}) = Cardinality(files[u])
    /\ faults > 0 \/ Count(u, {"failure.created"}) = Count(u, {"tool.failed"})
    /\ u \in Scripts /\ trail[u] # <<>> =>
         \/ trail[u][Len(trail[u])] \in
              {"tool.completed", "failure.created", "policy.denied"}
         \/ faults > 0 /\ trail[u][Len(trail[u])] = "tool.failed"

\* A subtask that must deliver a file completes only with one that was made in
\* a sandbox of its own and read while that sandbox was there.
CompletedIsBacked ==
  /\ work.pc = "completed" /\ work.required => \E u \in Uses : files[u] # {}
  /\ \A u \in Uses : files[u] \subseteq job[u].written

\* The agent is not asked again once a script of its has ended well, so no
\* delivery is made twice.
NotRedone ==
  [][work'.attempt > work.attempt =>
       \A s \in Scripts : Count(s, {"script.completed"}) = 0]_allVars

\* However creates are retried and whatever fails, every use of a sandbox ends,
\* and the subtask it was for has a result.
EveryUseEnds ==
  /\ \A c \in Calls : At(c, "creating") ~> call[c].pc \in Ended
  /\ work.pc # "idle" ~> work.pc \in {"completed", "failed"}
=============================================================================
