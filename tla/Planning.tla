------------------------------ MODULE Planning ------------------------------
(***************************************************************************)
(* The planner: the plan of the model's reply, one execution candidate per *)
(* subtask from a few more replies, and the task graph built from both.    *)
(*                                                                         *)
(* A name the model writes is a record: `norm' is what _normalize_name     *)
(* makes of it, a sequence of its parts ("" is <<>>: nothing in a-z0-9 was *)
(* left), and `exact' says whether it is spelled that way already.  A      *)
(* planned subtask has a name, a role, the names it depends on, whether    *)
(* its text asks for a real browser, and the replies the model would give  *)
(* when asked for its execution candidate.                                 *)
(***************************************************************************)
EXTENDS Assignment

CONSTANT MaxAttempts  \* constraints["planner_execution_candidate_max_attempts"]

ASSUME AttemptsAssumption == MaxAttempts \in Nat \ {0}

Name(norm, exact) == [norm |-> norm, exact |-> exact]

\* Mutant: duplicates are numbered by how many names there are, taken or not.
NumberDuplicates(base, used) ==
  IF base \in used THEN Append(base, Cardinality(used) + 1) ELSE base

\* The first of name, name-2, name-3... that is not used yet.
FreshName(base, used) ==
  IF base \notin used THEN base
  ELSE LET suffixes == {n \in 2 .. Cardinality(used) + 2 :
                          Append(base, n) \notin used}
       IN Append(base, CHOOSE n \in suffixes : \A k \in suffixes : n <= k)

\* The loop of _build_subtasks_from_plan that names the subtasks.
SubtaskNames(plan) ==
  FoldLeft(LAMBDA names, spec :
             LET base == IF spec.name.norm = <<>> THEN <<"subtask">>
                         ELSE spec.name.norm
             IN Append(names, FreshName(base, ToSet(names))),
           <<>>, plan)

\* name_to_id.get: a dependency counts when it is spelled like the final name
\* of another subtask, and is dropped otherwise.
Dependencies(plan, i) ==
  LET names == SubtaskNames(plan)
  IN {j \in DOMAIN plan \ {i} :
        \E d \in plan[i].deps : d.exact /\ d.norm = names[j]}

-----------------------------------------------------------------------------
(* Execution candidates.  A reply is a candidate with the name the model
   gives it, or "invalid": no JSON object, or one the schema rejects.      *)

Usable(reply, spec) ==
  reply.valid /\ reply.name.norm = spec.name.norm

\* Mutant: one attempt more than the constraint says.
OneMoreAttempt(spec) == 1 .. MaxAttempts + 1

Attempts(spec) == 1 .. MaxAttempts

\* _plan_execution_candidate_for_subtask: the first usable reply, 0 if none
\* within the attempts.
CandidateAttempt(spec) ==
  LET usable == {k \in Attempts(spec) \cap DOMAIN spec.replies :
                   Usable(spec.replies[k], spec)}
  IN IF usable = {} THEN 0
     ELSE CHOOSE k \in usable : \A n \in usable : k <= n

\* How often the model is asked.
Asked(spec) == IF CandidateAttempt(spec) # 0 THEN CandidateAttempt(spec)
               ELSE MaxAttempts

\* _plan_execution_configurations, _merge_execution_configurations: both
\* dictionaries are keyed by the normalised name, so the last subtask of a
\* name stands for all of them: its role filters, its candidate is used.
MergedConfiguration(plan, i) ==
  LET same == {j \in DOMAIN plan : plan[j].name.norm = plan[i].name.norm}
      answered == {j \in same : CandidateAttempt(plan[j]) # 0}
      last(S) == CHOOSE j \in S : \A k \in S : k <= j
  IN IF plan[i].name.norm = <<>> \/ answered = {}
       THEN Configuration(plan[i].role, plan[i].role, NoCandidate,
                          plan[i].hints)
       ELSE LET a == plan[last(answered)]
            IN Configuration(plan[i].role, plan[last(same)].role,
                             a.replies[CandidateAttempt(a)].candidate,
                             plan[i].hints)

-----------------------------------------------------------------------------
(* The task graph *)

\* _fallback_subtasks
FallbackPlan ==
  LET step(name, role, deps) ==
        [name |-> Name(<<name>>, TRUE), role |-> role,
         deps |-> {Name(<<d>>, TRUE) : d \in deps},
         hints |-> [dynamic |-> FALSE, browser |-> FALSE, file |-> FALSE,
                    output |-> "none"],
         replies |-> <<>>]
  IN <<step("analyze-requirement", "planner", {}),
       step("prepare-implementation", "coder", {"analyze-requirement"}),
       step("verify-result", "tester", {"prepare-implementation"}),
       step("review-result", "reviewer", {"verify-result"})>>

\* plan: a plan without subtasks (no reply, no JSON, any exception on the
\* way) is replaced by the fallback.
Planned(reply) == IF reply = <<>> THEN FallbackPlan ELSE reply

\* What the coordinator gets for the i-th subtask.
Subtask(plan, i, memory) ==
  [role |-> plan[i].role,
   config |-> MergedConfiguration(plan, i),
   hints |-> plan[i].hints,
   deps |-> Dependencies(plan, i) # {},
   memory |-> memory]

\* The graph as the orchestrator sees it.
TaskGraph(reply, memory) ==
  LET plan == Planned(reply)
  IN [i \in DOMAIN plan |->
        [role |-> plan[i].role,
         deps |-> Dependencies(plan, i),
         sandbox |-> Commands(Assigned(Subtask(plan, i, memory)))]]

-----------------------------------------------------------------------------
(* Properties of one reply *)

\* What the prompt asks of the model: kebab-case names, no two the same.
ObeysPrompt(plan) ==
  /\ \A i \in DOMAIN plan : plan[i].name.exact /\ plan[i].name.norm # <<>>
  /\ \A i, j \in DOMAIN plan : plan[i].name = plan[j].name => i = j
  /\ \A i \in DOMAIN plan : \A d \in plan[i].deps : d.exact

\* Whatever the model replies, the orchestrator gets a graph it can work on:
\* at least one subtask, names that tell the subtasks apart, and no subtask
\* that waits for itself.
GraphIsUsable(reply) ==
  LET plan == Planned(reply)
  IN /\ plan # <<>>
     /\ IsInjective(SubtaskNames(plan))
     /\ \A i \in DOMAIN plan : i \notin TaskGraph(reply, FALSE)[i].deps

\* When the reply obeys the prompt, every subtask waits for exactly the ones
\* it names, and is configured by its own candidate: by the first usable
\* reply, limited to what its role may use.
PlanIsKept(reply) ==
  ObeysPrompt(reply) =>
    \A i \in DOMAIN reply :
      /\ Dependencies(reply, i) =
           {j \in DOMAIN reply \ {i} : reply[j].name \in reply[i].deps}
      /\ MergedConfiguration(reply, i).groups \subseteq
           AllowedGroups(reply[i].role)
      /\ Asked(reply[i]) <= MaxAttempts
=============================================================================
