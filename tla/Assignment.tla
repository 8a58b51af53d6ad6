----------------------------- MODULE Assignment -----------------------------
(***************************************************************************)
(* From the planner's execution configuration of a subtask to what its     *)
(* agent may call: the planner proposes tool groups and runtimes, the      *)
(* coordinator resolves them against the role's profile, the execution     *)
(* runner checks the result, picks the tools and the way the subtask is    *)
(* executed, and the agent factory assembles the toolkit.  Four files read *)
(* the same text with keyword lists of their own, so `hints' says what     *)
(* each list finds in the goal, the name and the description:              *)
(*   dynamic  planner:     the page needs a real browser;                  *)
(*   browser  coordinator: the same;                                       *)
(*   file     coordinator: a file (pptx, pdf file, slides) must come out;  *)
(*   output   runner:      the same, and whether the goal or the subtask   *)
(*                         itself says so, or "none".                      *)
(***************************************************************************)
EXTENDS Capabilities, FiniteSets, SequencesExt

Hints == [dynamic : BOOLEAN, browser : BOOLEAN, file : BOOLEAN,
          output : {"none", "goal", "subtask"}]

NoCandidate == [groups |-> {}, runtimes |-> <<"none">>, skills |-> FALSE]

-----------------------------------------------------------------------------
(* Planner *)

\* _allowed_tool_groups_for_role
AllowedGroups(role) ==
  LET p == DefaultAgentProfiles[role]
      scoped == IF p.allowed # {} THEN p.allowed ELSE p.default
  IN IF scoped # {} THEN scoped ELSE DefaultRoleToolGroups[role]

\* Mutant: the candidate is taken as the model wrote it.
KeepAllGroups(role, candidate) == candidate

\* _filter_execution_candidate_for_role: groups the role may not use are
\* dropped; a candidate that keeps none of its groups is dropped as a whole.
FilterForRole(role, candidate) ==
  LET kept == candidate.groups \cap AllowedGroups(role)
  IN IF candidate.groups # {} /\ kept = {} THEN NoCandidate
     ELSE [candidate EXCEPT !.groups = kept]

\* _candidate_to_execution_configuration
CandidateConfiguration(candidate) ==
  LET runtime == IF candidate.runtimes = <<>> THEN "none"
                 ELSE Head(candidate.runtimes)
  IN [runtime |-> runtime, groups |-> candidate.groups,
      sandbox |-> runtime = "sandbox", skills |-> candidate.skills,
      runtimes |-> candidate.runtimes]

\* _default_execution_configuration
DefaultConfiguration(role) ==
  LET p == DefaultAgentProfiles[role]
      sandboxed == Head(p.runtimes) = "sandbox"
  IN [runtime |-> Head(p.runtimes),
      groups |-> IF p.default # {} THEN p.default
                 ELSE DefaultRoleToolGroups[role],
      sandbox |-> /\ sandboxed
                  /\ \/ p.sandbox
                     \/ "code_exec" \in DefaultRoleToolGroups[role],
      skills |-> p.skills,
      runtimes |-> <<>>]

\* _apply_browser_playwright_preference
PreferBrowser(role, hints, config) ==
  LET groups == config.groups \cup
        (IF role \in {"researcher", "writer"} THEN {"browser"} ELSE {})
  IN IF ~hints.dynamic \/ "browser" \notin groups THEN config
     ELSE [config EXCEPT !.groups = groups, !.runtime = "sandbox",
                         !.sandbox = TRUE]

\* _merge_execution_configurations, for a subtask of `role' whose candidate
\* was filtered for the role `filtered'.
Configuration(role, filtered, candidate, hints) ==
  LET kept == FilterForRole(filtered, candidate)
  IN PreferBrowser(role, hints,
       IF candidate = NoCandidate \/ kept = NoCandidate
         THEN DefaultConfiguration(role)
         ELSE CandidateConfiguration(kept))

-----------------------------------------------------------------------------
(* Coordinator.assign: a subtask is its role, configuration, hints, whether
   it has dependencies, and whether a long-term memory is configured.     *)

WantsFile(st) == st.role \in FileMakers /\ st.hints.file

HasSkills(st) ==
  st.config.skills \/ DefaultAgentProfiles[st.role].skills

\* _resolve_required_tool_groups
RequiredGroups(st) ==
  LET p == DefaultAgentProfiles[st.role]
      base == IF st.config.groups # {} THEN st.config.groups
              ELSE IF p.default # {} THEN p.default
              ELSE DefaultRoleToolGroups[st.role]
  IN base \cup (IF st.deps THEN {"artifact"} ELSE {})
          \cup (IF WantsFile(st) THEN {"file_system", "code_exec"} ELSE {})

\* _prefers_browser_playwright
WantsBrowser(st, required) == "browser" \in required /\ st.hints.browser

\* _resolve_candidate_runtime_kinds: earlier is preferred.
CandidateRuntimes(st, required) ==
  LET sandboxIf(b) == IF b THEN <<"sandbox">> ELSE <<>>
  IN sandboxIf(WantsFile(st) \/ WantsBrowser(st, required))
     \o st.config.runtimes
     \o (IF st.config.runtime = "none" THEN <<>> ELSE <<st.config.runtime>>)
     \o DefaultAgentProfiles[st.role].runtimes
     \o (IF "code_exec" \in required THEN <<"sandbox", "host_tools">>
         ELSE IF required # {} THEN <<"host_tools", "llm_only">>
         ELSE <<"llm_only", "host_tools">>)

\* The conditions of the loop of _resolve_runtime_kind.
Serves(st, required, runtime) ==
  CASE runtime = "sandbox" ->
         \/ WantsBrowser(st, required)
         \/ "code_exec" \in required
         \/ st.config.sandbox
         \/ DefaultAgentProfiles[st.role].sandbox
    [] runtime = "llm_only" ->
         required \cap {"file_system", "workspace", "browser",
                        "code_exec", "communication"} = {}
    [] runtime = "host_tools" -> TRUE

\* _resolve_runtime_kind: the first candidate that serves.  host_tools is
\* always among the candidates and always serves, so the code's fallbacks
\* after the loop are never taken.
ResolvedRuntime(st, required, candidates) ==
  candidates[SelectInSeq(candidates, LAMBDA r : Serves(st, required, r))]

\* Its backup_runtimes.
BackupRuntimes(resolved, candidates) ==
  FoldSeq(LAMBDA r, chain : IF r \in ToSet(chain) \cup {resolved} THEN chain
                            ELSE Append(chain, r),
          <<>>, candidates)

Resolved(st, required, candidates) ==
  [subtask |-> st, groups |-> required,
   runtime |-> ResolvedRuntime(st, required, candidates),
   candidates |-> candidates]

\* Coordinator.assign: the subtask with what is resolved for it.
Assigned(st) ==
  LET candidates(required) == CandidateRuntimes(st, required)
      given(required) == Resolved(st, required, candidates(required))
  IN given(RequiredGroups(st))

-----------------------------------------------------------------------------
(* ExecutionRunner, for an assignment a *)

\* _validate_execution_policy
PolicyAllows(a) ==
  LET allowed == DefaultAgentProfiles[a.subtask.role].allowed
  IN allowed = {} \/ a.groups \subseteq allowed

\* _requires_materialized_output of the runner.
MustMaterialize(st) == st.role \in FileMakers /\ st.hints.output # "none"

\* The sandbox is for commands.
Commands(a) == a.runtime = "sandbox" /\ "code_exec" \in a.groups

\* _subtask_requires_skill_script_execution; it is asked without the task,
\* so a goal that calls for a file does not count.
RunsSkillScript(a) ==
  /\ HasSkills(a.subtask)
  /\ "code_exec" \in a.groups
  /\ \/ a.subtask.role \in FileMakers /\ a.subtask.hints.output = "subtask"
     \/ a.runtime = "sandbox"

\* Mutant: nothing is added to what the configuration selects.
NothingRequired(a) == {}

\* _runtime_required_tool_names
RuntimeRequiredTools(a) ==
  LET whenever(b, tools) == IF b THEN tools ELSE {}
      st == a.subtask
  IN whenever(Commands(a), {"sandbox_exec"})
     \cup whenever(st.role \in Validators, {"artifact_read"})
     \cup whenever(/\ st.memory
                   /\ st.role \in {"planner", "coder", "writer",
                                   "researcher", "reviewer"},
                   {"memory_lookup", "memory_write"})
     \cup whenever(HasSkills(st), {"list_skill_scripts", "get_skill_details"})
     \cup whenever(RunsSkillScript(a), {"run_skill_script"})

\* _select_tool_names; no built-in profile names tools explicitly.
SelectedTools(a) ==
  LET allowed == DefaultAgentProfiles[a.subtask.role].allowed
      permitted(t) == allowed = {} \/ Tool(t).group \in allowed
      required == RuntimeRequiredTools(a)
  IN {t \in ToolNames :
        /\ permitted(t)
        /\ \/ a.runtime \in Tool(t).runtimes /\ Tool(t).group \in a.groups
           \/ t \in required}

\* _ensure_tool_allowed: an empty selection allows everything.
ToolAllowed(tools, t) == tools = {} \/ t \in tools

\* _execute_subtask and the first checks of what it calls: how the subtask
\* is executed, or why it fails before any work is done.
Path(a, tools) ==
  LET st == a.subtask
      scripted == /\ MustMaterialize(st)
                  /\ HasSkills(st)
                  /\ "run_skill_script" \in tools
  IN IF ~PolicyAllows(a) THEN "denied"
     ELSE IF st.role \in Validators THEN "validation"
     ELSE IF Commands(a) THEN IF scripted THEN "scripted" ELSE "command"
     ELSE IF MustMaterialize(st) /\ a.runtime # "sandbox" THEN "refused"
     ELSE "agent"

\* _build_agent_tool_functions: each calls _run_tool, which checks the
\* selection again and publishes the tool events.
AuditedFunctions(tools) == tools \ {"sandbox_exec"}

\* AgentFactory._assemble_tooling: the built-in functions, the audited ones
\* over those of the same name, and of these the ones of an equipped group
\* that the runtime may execute.
Toolkit(a, tools) ==
  {t \in DOMAIN CommonTools \cup AuditedFunctions(tools) :
     Tool(t).group \in a.groups /\ a.runtime \in Tool(t).runtimes}

HandledWith(a, tools) ==
  [assigned |-> a, tools |-> tools, path |-> Path(a, tools),
   toolkit |-> Toolkit(a, tools)]

\* What becomes of a subtask.
Handled(st) == LET with(a) == HandledWith(a, SelectedTools(a))
               IN with(Assigned(st))

-----------------------------------------------------------------------------
(* Properties of one subtask and what became of it *)

\* A subtask is turned away before it works only where two of the four files
\* disagree: the coordinator adds file tools the researcher's profile does
\* not allow, or the runner reads a file request the coordinator's shorter
\* list of words does not know.
TurnedAwayOnlyByDisagreement(st, h) ==
  /\ h.path = "denied" => st.role = "researcher" /\ st.hints.file
  /\ h.path = "refused" => ~st.hints.file /\ st.hints.output # "none"

\* Whatever the path, the tool it cannot do without is there: a validator
\* reads its evidence, a command is run in a sandbox, a file is produced by
\* a skill script the agent can call.
EquippedForPath(h) ==
  /\ h.path = "validation" => ToolAllowed(h.tools, "artifact_read")
  /\ h.path = "command" => ToolAllowed(h.tools, "sandbox_exec")
  /\ h.path = "scripted" => "run_skill_script" \in h.toolkit

\* An agent is never handed a built-in function behind the runner's back:
\* every tool it can call is one the runner selected, checks and audits, and
\* none that needs a sandbox is called outside one.
OnlyAuditedTools(h) ==
  h.path # "denied" =>
    /\ h.toolkit \subseteq AuditedFunctions(h.tools)
    /\ \A t \in h.toolkit :
         Tool(t).runtimes = {"sandbox"} => h.assigned.runtime = "sandbox"
=============================================================================
