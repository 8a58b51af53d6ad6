---------------------------- MODULE TaskGraphs ----------------------------
(* Small task graphs for TLC. *)

Item(role, deps, sandbox) == [role |-> role, deps |-> deps, sandbox |-> sandbox]

\* The fallback plan of the planner from its second step on: prepare, verify,
\* review.
PipelinePlan ==
  <<Item("coder", {}, TRUE), Item("tester", {1}, FALSE),
    Item("reviewer", {2}, FALSE)>>

\* Two ready siblings, and a subtask that waits for both.
ForkPlan ==
  <<Item("coder", {}, TRUE), Item("writer", {}, FALSE),
    Item("reviewer", {1, 2}, FALSE)>>

\* A repairable subtask below another one.
CascadePlan ==
  <<Item("researcher", {}, FALSE), Item("coder", {1}, TRUE),
    Item("writer", {1}, FALSE)>>

\* A cycle next to a subtask that can run.
CyclicPlan ==
  <<Item("writer", {}, FALSE), Item("coder", {3}, FALSE),
    Item("tester", {2}, FALSE)>>

AllPlans == {PipelinePlan, ForkPlan, CascadePlan, CyclicPlan}
ForkOnly == {ForkPlan}
===========================================================================
