---------------------------- MODULE Capabilities ----------------------------
(***************************************************************************)
(* What the roles may use: the built-in agent profiles and the tools the   *)
(* application registers.  Every skill a profile names is installed, so of *)
(* a profile's skills only "has some" is kept; of its sandbox profile only *)
(* "has one".  Tools with the same groups and the same contract are one    *)
(* tool here: read_file stands for list_files and file_exists, write_file  *)
(* for delete_file, rename_file and make_directory, grep_search for        *)
(* glob_search, browser_playwright for browser_screenshot.                 *)
(***************************************************************************)
EXTENDS Sequences

\* The roles a planned subtask can have (PLANNER_ALLOWED_ROLES).
Roles == {"planner", "coder", "verifier", "tester", "reviewer",
          "researcher", "writer"}
Validators == {"verifier", "tester", "reviewer"}
FileMakers == {"coder", "writer", "researcher"}

ToolGroup == {"file_system", "workspace", "web_search", "browser",
              "code_exec", "memory", "artifact", "communication"}
RuntimeKind == {"llm_only", "host_tools", "sandbox"}

DefaultRoleToolGroups ==
  [planner    |-> {"workspace", "memory"},
   researcher |-> {"web_search", "browser", "workspace", "artifact"},
   coder      |-> {"workspace", "code_exec"},
   verifier   |-> {"workspace", "code_exec", "artifact", "memory"},
   tester     |-> {"workspace", "code_exec", "artifact", "memory"},
   reviewer   |-> {"artifact", "memory", "workspace"},
   writer     |-> {"workspace", "file_system", "artifact", "web_search",
                   "browser"}]

\* default_tool_groups, allowed_tool_groups, recommended_runtime_kinds,
\* default_sandbox_profile and skill_profiles.
AgentProfile(default, allowed, runtimes, sandbox, skills) ==
  [default |-> default, allowed |-> allowed, runtimes |-> runtimes,
   sandbox |-> sandbox, skills |-> skills]

CheckerProfile ==
  AgentProfile({"workspace", "code_exec", "artifact"},
               {"workspace", "code_exec", "artifact", "memory"},
               <<"sandbox", "host_tools">>, TRUE, FALSE)

DefaultAgentProfiles ==
  [planner    |-> AgentProfile({}, {}, <<"llm_only">>, FALSE, FALSE),
   researcher |-> AgentProfile(DefaultRoleToolGroups["researcher"],
                    DefaultRoleToolGroups["researcher"] \cup {"code_exec"},
                    <<"host_tools", "sandbox">>, TRUE, TRUE),
   coder      |-> AgentProfile({"workspace", "code_exec"},
                    {"file_system", "workspace", "code_exec", "artifact"},
                    <<"sandbox", "host_tools">>, TRUE, FALSE),
   verifier   |-> CheckerProfile,
   tester     |-> CheckerProfile,
   reviewer   |-> AgentProfile(DefaultRoleToolGroups["reviewer"],
                    DefaultRoleToolGroups["reviewer"],
                    <<"llm_only", "host_tools">>, FALSE, FALSE),
   writer     |-> AgentProfile(DefaultRoleToolGroups["writer"],
                    DefaultRoleToolGroups["writer"] \cup {"code_exec", "memory"},
                    <<"host_tools", "sandbox">>, FALSE, TRUE)]

Contract(group, runtimes) == [group |-> group, runtimes |-> runtimes]

\* register_builtin_tools without a skill service.
CommonTools ==
  [read_file   |-> Contract("file_system", {"host_tools"}),
   write_file  |-> Contract("file_system", {"host_tools", "sandbox"}),
   grep_search |-> Contract("workspace", {"host_tools"}),
   web_search  |-> Contract("web_search", {"host_tools"}),
   browser_get |-> Contract("browser", {"host_tools"}),
   send_mail   |-> Contract("communication", {"host_tools"})]

\* The tools of the skill service.
SkillTools ==
  [list_skill_scripts |-> Contract("workspace", {"host_tools"}),
   get_skill_details  |-> Contract("workspace", {"host_tools"}),
   run_skill_script   |-> Contract("code_exec", {"sandbox"})]

\* The tools the execution runner adds.
RuntimeTools ==
  [sandbox_exec       |-> Contract("code_exec", {"sandbox"}),
   browser_playwright |-> Contract("browser", {"sandbox"}),
   artifact_read      |-> Contract("artifact", {"host_tools"}),
   memory_lookup      |-> Contract("memory", {"host_tools"}),
   memory_write       |-> Contract("memory", {"host_tools"})]

ToolNames ==
  DOMAIN CommonTools \cup DOMAIN SkillTools \cup DOMAIN RuntimeTools

\* ToolRegistry: name |-> group and allowed_runtimes.
Tool(t) == IF t \in DOMAIN CommonTools THEN CommonTools[t]
           ELSE IF t \in DOMAIN SkillTools THEN SkillTools[t]
           ELSE RuntimeTools[t]
=============================================================================
