---------------------------- MODULE AgentAssembly ----------------------------
(***************************************************************************)
(* How the factory assembles an agent, and what the agent then says of     *)
(* itself: the toolkit its model chooses from, the capability bundle its   *)
(* events are made of, and the skills in its prompt are three readings of  *)
(* one request, made one after another.                                    *)
(*                                                                         *)
(* A request is what create_main_agent (no profile) or                     *)
(* create_profile_agent is given:                                          *)
(*   profile    groups, names, sandbox, skills, mode, or NoProfile;        *)
(*   execution  the coordinator's groups, names, runtime, chain and        *)
(*              skills, or NoExecution;                                    *)
(*   config     groups and skills of the AgentConfig, and its role;        *)
(*   tools      the functions that come with the request;                  *)
(*   equipped   allow_tools and allow_skills;                              *)
(*   packages   the skills that are installed, by name.                    *)
(***************************************************************************)
EXTENDS Assignment

NoProfile == [groups |-> {}, names |-> {}, sandbox |-> FALSE, skills |-> {},
              mode |-> "none"]
NoExecution == [groups |-> {}, names |-> {}, runtime |-> "none", chain |-> <<>>,
                skills |-> {}]

\* The first that is not empty.
FirstSet(sets) ==
  IF \A n \in DOMAIN sets : sets[n] = {} THEN {}
  ELSE sets[SelectInSeq(sets, LAMBDA S : S # {})]

-----------------------------------------------------------------------------
(* Registry *)

\* A tool of the registry: the __name__ of its function, its groups and which of
\* them comes first, its contract.
RegistryTool(called, primary, groups, runtimes, default) ==
  [called |-> called, primary |-> primary, groups |-> groups,
   runtimes |-> runtimes, default |-> default]

\* register_builtin_tools; the function of web_search is called search.
BuiltinTool(name) ==
  LET t == CommonTools[name]
  IN RegistryTool(IF name = "web_search" THEN "search" ELSE name,
                  t.group, {t.group}, t.runtimes, "host_tools")

\* A function brought along; it has groups and a contract, or has none.
Function(called, groups, runtimes, default, sandboxOnly) ==
  [called |-> called, groups |-> groups, runtimes |-> runtimes,
   default |-> default, sandboxOnly |-> sandboxOnly]

\* _resolve_tool_groups, in their order; of the equipped groups, which have an
\* order as well, any may come first.
GroupsOfFunction(f, equippedGroups) ==
  IF f.groups # <<>> THEN [primary |-> Head(f.groups), all |-> Range(f.groups)]
  ELSE IF f.called \in {"run_skill_script", "sandbox_exec"}
    THEN [primary |-> "code_exec", all |-> {"code_exec"}]
  ELSE [primary |-> CHOOSE g \in equippedGroups : TRUE, all |-> equippedGroups]

\* _normalize_contract
NormalizedContract(f) ==
  IF f.sandboxOnly THEN [runtimes |-> {"sandbox"}, default |-> "sandbox"]
  ELSE [runtimes |-> IF f.runtimes = {} THEN {f.default} ELSE f.runtimes,
        default |-> f.default]

\* register
RegisteredFunction(f, equippedGroups) ==
  LET c == NormalizedContract(f)
      g == GroupsOfFunction(f, equippedGroups)
  IN RegistryTool(f.called, g.primary, g.all, c.runtimes, c.default)

-----------------------------------------------------------------------------
(* What a request asks for *)

\* _resolve_equipped_tool_groups
EquippedGroups(q) ==
  FirstSet(<<q.execution.groups, q.profile.groups, q.config.groups,
             DefaultRoleToolGroups[q.config.role]>>)

\* _resolve_active_tool_names
ActiveNames(q) == FirstSet(<<q.execution.names, q.profile.names>>)

\* _build_tool_registry: what comes with the request replaces what is built in.
ToolRegistry(q) ==
  LET groups == EquippedGroups(q)
      given == {f.called : f \in q.tools}
  IN [name \in given \cup DOMAIN CommonTools |->
        IF name \in given
          THEN RegisteredFunction(CHOOSE f \in q.tools : f.called = name, groups)
          ELSE BuiltinTool(name)]

\* Mutant: names are taken whatever the runtime may execute.
SelectedAnywhere(q, registry) ==
  LET explicit == ActiveNames(q) \cap DOMAIN registry
  IN IF explicit # {} THEN explicit
     ELSE {t \in DOMAIN registry : EquippedGroups(q) \cap registry[t].groups # {}}

\* _select_tool_names: the names that are registered select by themselves; if
\* there is none, the groups do.
SelectedNames(q, registry) ==
  LET explicit == ActiveNames(q) \cap DOMAIN registry
      groups == EquippedGroups(q)
      mayRun(t) == q.execution.runtime \in registry[t].runtimes \cup {"none"}
  IN {t \in DOMAIN registry :
        mayRun(t) /\ IF explicit # {} THEN t \in explicit
                                      ELSE groups \cap registry[t].groups # {}}

\* build_toolkit: a tool is under its primary group, and of the groups those
\* equipped are active; the model sees the tools of active groups.
ToolsSeen(q) ==
  LET registry == ToolRegistry(q)
      groups == EquippedGroups(q)
  IN IF ~q.equipped THEN {}
     ELSE {t \in SelectedNames(q, registry) : registry[t].primary \in groups}

\* get_functions_for_groups, by __name__: what the resolver and the skills go by.
FunctionNames(q) ==
  LET registry == ToolRegistry(q)
  IN IF ~q.equipped THEN {}
     ELSE {registry[t].called : t \in SelectedNames(q, registry)}

-----------------------------------------------------------------------------
(* Skills *)

\* A package: whether it is valid, enabled, runs on this machine (environment,
\* binaries, platform), and the tools it demands.
Package(valid, disabled, runs, demands) ==
  [valid |-> valid, disabled |-> disabled, runs |-> runs, demands |-> demands]

\* Mutant: a skill is offered whatever tools it demands.
UsableAnyhow(package, names) == package.valid /\ ~package.disabled /\ package.runs

\* _is_skill_entry_usable
UsablePackage(package, names) ==
  /\ package.valid /\ ~package.disabled /\ package.runs
  /\ package.demands \subseteq names

\* normalize_skill_profile_names and resolve_agent_skill_entries
SkillsOffered(q, profiles) ==
  {s \in profiles \cap DOMAIN q.packages : UsablePackage(q.packages[s], FunctionNames(q))}

-----------------------------------------------------------------------------
(* The agent and its capability bundle *)

\* _resolve_runtime_policy
RuntimePolicy(q) ==
  LET policy(default, chain) == [default |-> default, chain |-> chain,
                                 switch |-> Len(chain) > 1]
  IN IF q.execution.runtime # "none"
       THEN policy(q.execution.runtime, <<q.execution.runtime>> \o q.execution.chain)
     ELSE IF q.profile.sandbox THEN policy("sandbox", <<"sandbox", "host_tools">>)
     ELSE policy("host_tools", <<"host_tools">>)

\* allowed_tool_names: the functions, and the names that were asked for.
NamesTold(q) == FunctionNames(q) \cup ActiveNames(q)

\* _resolve_tool_contracts: the runtimes of the functions, by the function's name.
Contracts(q) ==
  LET registry == ToolRegistry(q)
      selected == SelectedNames(q, registry)
  IN [called \in FunctionNames(q) |->
        registry[CHOOSE t \in selected : registry[t].called = called].default]

\* CapabilityResolver.resolve
CapabilityBundle(q, profiles) ==
  [names |-> NamesTold(q), skills |-> SkillsOffered(q, profiles),
   policy |-> RuntimePolicy(q), runtimes |-> Contracts(q)]

\* _assemble_tooling, and the bundle on top of it.
Equipped(q, profiles) ==
  LET wanted == IF q.equipped THEN profiles ELSE {}
  IN [seen |-> ToolsSeen(q), bundle |-> CapabilityBundle(q, wanted)]

\* create_agent: the configuration has the skills unless the execution names some.
MainAgent(q) == Equipped(q, FirstSet(<<q.execution.skills, q.config.skills>>))

\* create_profile_agent: the profile has them, if its mode lets it.
ProfileAgent(q) ==
  LET own == IF q.profile.mode \in {"all", "inclusive"} THEN q.profile.skills ELSE {}
  IN Equipped(q, FirstSet(<<q.execution.skills, own>>))

Agent(q) == IF q.profile = NoProfile THEN MainAgent(q) ELSE ProfileAgent(q)

\* Mutant: every tool is said to run where the agent does.
PolicyRuntime(bundle, name) == bundle.policy.default

\* What tool.selected and tool.started say of a tool.
RuntimeTold(bundle, name) ==
  IF name \in DOMAIN bundle.runtimes THEN bundle.runtimes[name]
  ELSE bundle.policy.default

-----------------------------------------------------------------------------
(* The agent of a subtask *)

\* What the runner has an agent made of: the functions that it audits, over the
\* execution profile of the coordinator's assignment.
AgentRequest(a, tools) ==
  LET p == DefaultAgentProfiles[a.subtask.role]
      audited(t) == LET only == Tool(t).runtimes = {"sandbox"}
                    IN Function(t, <<Tool(t).group>>, Tool(t).runtimes,
                                IF only THEN "sandbox" ELSE "host_tools", only)
  IN [profile |-> [groups |-> p.default, names |-> {}, sandbox |-> p.sandbox,
                   skills |-> {}, mode |-> "all"],
      execution |-> [groups |-> a.groups, names |-> {}, runtime |-> a.runtime,
                     chain |-> BackupRuntimes(a.runtime, a.candidates),
                     skills |-> {}],
      config |-> [groups |-> {}, skills |-> {}, role |-> a.subtask.role],
      tools |-> {audited(t) : t \in AuditedFunctions(tools)},
      equipped |-> TRUE, packages |-> <<>>]

-----------------------------------------------------------------------------
(* Properties *)

\* What an agent says it has is what its model can call.  A name that is told and
\* cannot be called was asked for by name, and is unknown, bound to another
\* runtime, or its group is not equipped; or it is in the equipped groups with a
\* group that is not its first.  The built-in web_search is told as "search".
ToolsAreAsTold(q, agent) ==
  LET registry == ToolRegistry(q)
      told == agent.bundle.names
      misnamed(t) == registry[t].called # t
      hidden(t) == registry[t].primary \notin EquippedGroups(q)
      bound(t) == q.execution.runtime \notin registry[t].runtimes \cup {"none"}
  IN /\ \A t \in agent.seen : t \in told \/ (t = "web_search" /\ misnamed(t))
     /\ \A name \in told \ agent.seen :
          \/ /\ name \in ActiveNames(q)
             /\ name \in DOMAIN registry => bound(name) \/ hidden(name) \/ ~q.equipped
          \/ name \in DOMAIN registry /\ hidden(name)
          \/ name = "search" /\ misnamed("web_search")

\* A tool that an agent calls is said to run where its contract lets it run,
\* and a tool that needs a sandbox is seen only by an agent that runs in one or
\* was given no runtime; an agent may switch only to a runtime that is another.
\* The built-in web_search is said to run where the agent does.
RuntimesAreAsTold(q, agent) ==
  LET registry == ToolRegistry(q)
      policy == agent.bundle.policy
      unknown(t) == registry[t].called # t /\ policy.default = "sandbox"
  IN /\ \A t \in agent.seen :
          /\ RuntimeTold(agent.bundle, t) \in registry[t].runtimes \/ unknown(t)
          /\ registry[t].runtimes = {"sandbox"} =>
               q.execution.runtime \in {"sandbox", "none"}
     /\ policy.switch <=> \E n \in DOMAIN policy.chain : policy.chain[n] # policy.default

\* A skill is offered only if it can be used: what it demands is selected, and
\* can be called unless it is hidden in a group that is not equipped.
SkillsCanBeUsed(q, agent) ==
  LET registry == ToolRegistry(q)
  IN \A s \in agent.bundle.skills :
       /\ q.packages[s].valid
       /\ \A name \in q.packages[s].demands :
            /\ name \in DOMAIN registry
            /\ name \in agent.seen \/ registry[name].primary \notin EquippedGroups(q)

AgentIsAsTold(q) ==
  LET told(agent) == /\ ToolsAreAsTold(q, agent)
                     /\ RuntimesAreAsTold(q, agent)
                     /\ SkillsCanBeUsed(q, agent)
  IN told(Agent(q))

\* The agent of a subtask is told without exception: it says that it has the
\* tools its model can call, which are the ones Assignment derives.
SubtaskAgentIsAsTold(h) ==
  LET told(q, agent) == /\ agent.bundle.names = agent.seen
                        /\ agent.seen = h.toolkit
                        /\ RuntimesAreAsTold(q, agent)
      made(q) == told(q, Agent(q))
  IN h.path # "denied" => made(AgentRequest(h.assigned, h.tools))
=============================================================================
