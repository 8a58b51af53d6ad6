-------------------------- MODULE RunOrchestration --------------------------
(***************************************************************************)
(* One run of one task, from "task.created" to the verdict.                *)
(*                                                                         *)
(* publish() of the event bus awaits every handler of the topic, so the    *)
(* orchestrator, the execution runner and the run-state service call each  *)
(* other depth first inside ONE asyncio task: finishing a subtask runs its *)
(* dependents before the call returns.  `stack' is that chain of pending   *)
(* calls, the running one last:                                            *)
(*   - "planning"  handle_task_created, awaiting planner.plan;             *)
(*   - "dispatch"  the for loop of _dispatch_ready_subtasks, with the      *)
(*                 subtasks it has still to publish in todo;               *)
(*   - the other pcs: handle_subtask_assigned for the subtask `sub'.       *)
(* Concurrent with it there is only DELETE /v1/tasks/{id}.                 *)
(***************************************************************************)
EXTENDS Naturals, Sequences, FiniteSets, SequencesExt

CONSTANTS
  Plans,                \* the task graphs the planner may return
  MaxRepairAttempts,    \* task.constraints["max_repair_attempts"]
  EnableFailureRepair,  \* task.constraints["enable_failure_repair"]
  SharedObjects,        \* TRUE: in-memory repositories, get() returns the
                        \* stored object; FALSE: Postgres, a fresh copy
  MayDelete,            \* whether clients call DELETE /v1/tasks/{id}
  MaxFaults             \* bound on the infrastructure errors of a behaviour

Makers       == {"coder", "writer", "researcher"}
Repairable   == Makers \cup {"planner"}
Verification == {"verifier", "tester"}
Validation   == Verification \cup {"reviewer"}
Roles        == Repairable \cup Validation

PlanItem == [role : Roles, deps : SUBSET (Nat \ {0}), sandbox : BOOLEAN]

ASSUME PlansAssumption ==
  \A p \in Plans : /\ p \in Seq(PlanItem)
                   /\ p # <<>>
                   /\ \A i \in 1 .. Len(p) : p[i].deps \subseteq 1 .. Len(p)
ASSUME BudgetAssumption == MaxRepairAttempts \in Nat /\ MaxFaults \in Nat
ASSUME ModeAssumption ==
  /\ EnableFailureRepair \in BOOLEAN
  /\ SharedObjects \in BOOLEAN
  /\ MayDelete \in BOOLEAN
  /\ MayDelete => SharedObjects  \* copies: DELETE inside a read and its save
                                 \* is not modelled

VARIABLES
  task,       \* Task.status
  run,        \* Run.status and Run.phase
  sub,        \* the subtasks of the run, in creation order
  stack,      \* pending calls of the run's asyncio task, innermost last
  raised,     \* an exception is propagating out of the last call
  active,     \* SandboxManager._active_sandboxes: the subtasks' sandboxes
  announced,  \* the status of the last "run.terminal" event, or "none"
  faults      \* infrastructure errors so far

vars == <<task, run, sub, stack, raised, active, announced, faults>>

TaskStatus == {"pending", "planning", "running", "reviewing", "succeeded",
               "failed", "cancelled"}
RunStatus  == {"pending", "running", "succeeded", "failed", "cancelled"}
RunPhase   == {"intake", "planning", "coordinating", "executing",
               "reviewing", "delivering"}
SubTaskStatus == {"queued", "ready", "assigned", "sandbox_creating",
                  "executing", "verifying", "succeeded", "failed",
                  "cancelled"}
Finished  == {"succeeded", "failed", "cancelled"}
Decisions == {"accept", "rework", "escalate"}

\* deps: dependencies; attempt: metadata repair_attempt; source: metadata
\* repair_source_subtask_id (0: absent); decision and verdict: the keys
\* "decision" and "verification_passed" of result; reworked, repaired:
\* metadata rework_generated and repair_generated.
SubTask ==
  [role : Roles, deps : SUBSET (Nat \ {0}), sandbox : BOOLEAN,
   attempt : Nat, source : Nat, status : SubTaskStatus,
   decision : Decisions \cup {"none"}, verdict : {"none", "pass", "fail"},
   reworked : BOOLEAN, repaired : BOOLEAN]

NewSubTask(role, deps, sandbox, attempt, source) ==
  [role |-> role, deps |-> deps, sandbox |-> sandbox,
   attempt |-> attempt, source |-> source, status |-> "queued",
   decision |-> "none", verdict |-> "none",
   reworked |-> FALSE, repaired |-> FALSE]

ExecPc == {"begin", "acquire", "work", "stored", "returned", "unwind",
           "caught", "handled", "reconcile", "reraise"}
Frame  == [pc : ExecPc \cup {"planning", "dispatch"}, sub : Nat,
           todo : SUBSET (Nat \ {0}), lease : BOOLEAN]

PlanningFrame       == [pc |-> "planning", sub |-> 0, todo |-> {}, lease |-> FALSE]
DispatchFrame(todo) == [pc |-> "dispatch", sub |-> 0, todo |-> todo, lease |-> FALSE]
ExecFrame(s)        == [pc |-> "begin", sub |-> s, todo |-> {}, lease |-> FALSE]

Running  == stack # <<>> /\ ~raised
Top      == Last(stack)
At(pc)   == Running /\ Top.pc = pc
GoTo(pc) == [stack EXCEPT ![Len(stack)].pc = pc]

TypeOK ==
  /\ task \in TaskStatus
  /\ run \in [status : RunStatus, phase : RunPhase]
  /\ sub \in Seq(SubTask)
  /\ \A s \in 1 .. Len(sub) : sub[s].deps \subseteq 1 .. Len(sub)
  /\ stack \in Seq(Frame)
  /\ \A i \in 1 .. Len(stack) :
       /\ stack[i].pc \in ExecPc => stack[i].sub \in 1 .. Len(sub)
       /\ stack[i].todo \subseteq 1 .. Len(sub)
  /\ raised \in BOOLEAN
  /\ active \subseteq 1 .. Len(sub)
  /\ announced \in {"none", "succeeded", "failed"}
  /\ faults \in 0 .. MaxFaults

Init ==
  /\ task = "pending"
  /\ run = [status |-> "pending", phase |-> "intake"]
  /\ sub = <<>>
  /\ stack = <<>>
  /\ raised = FALSE
  /\ active = {}
  /\ announced = "none"
  /\ faults = 0

-----------------------------------------------------------------------------
(* Scheduling *)

\* Mutants: an assigned subtask counts as waiting; one finished dependency is
\* enough.
ReadyAssignedToo(subs) ==
  {s \in 1 .. Len(subs) :
     /\ subs[s].status \in {"queued", "ready", "assigned"}
     /\ \A d \in subs[s].deps : subs[d].status = "succeeded"}
ReadyAnyDep(subs) ==
  {s \in 1 .. Len(subs) :
     /\ subs[s].status \in {"queued", "ready"}
     /\ subs[s].deps # {} =>
          \E d \in subs[s].deps : subs[d].status = "succeeded"}

\* get_ready_subtasks: waiting, and every dependency succeeded.
Ready(subs) ==
  {s \in 1 .. Len(subs) :
     /\ subs[s].status \in {"queued", "ready"}
     /\ \A d \in subs[s].deps : subs[d].status = "succeeded"}

SetStatus(subs, S, status) ==
  [s \in 1 .. Len(subs) |->
     IF s \in S THEN [subs[s] EXCEPT !.status = status] ELSE subs[s]]

\* _dispatch_ready_subtasks up to its loop, for the graph subs, called from
\* the frames in callers.  coordinator.assign changes the stored subtasks
\* only when the repositories share their objects.
Dispatch(callers, subs, phase) ==
  LET ready == Ready(subs) IN
  /\ IF ready = {}
       THEN /\ stack' = callers
            /\ sub' = subs
            /\ run' = [run EXCEPT !.phase = phase]
            /\ UNCHANGED task
       ELSE /\ stack' = Append(callers, DispatchFrame(ready))
            /\ sub' = IF SharedObjects THEN SetStatus(subs, ready, "assigned")
                                       ELSE subs
            /\ run' = [run EXCEPT !.phase = "executing"]
            /\ task' = "running"
  /\ UNCHANGED <<raised, faults>>

\* The same call, interrupted by an exception at the ready subtask k: no
\* default profile for its role, or an error of the repository.  Shared
\* objects before k stay assigned, the others stay ready.
DispatchRaises(callers, subs, phase) ==
  \E k \in Ready(subs) :
    LET before == {s \in Ready(subs) : s < k}
    IN  /\ faults < MaxFaults
        /\ faults' = faults + 1
        /\ raised' = TRUE
        /\ stack' = callers
        /\ sub' = IF SharedObjects
                    THEN SetStatus(SetStatus(subs, Ready(subs), "ready"),
                                   before, "assigned")
                    ELSE subs
        /\ run' = [run EXCEPT !.phase = phase]
        /\ UNCHANGED task

DispatchReady(callers, subs, phase) ==
  \/ Dispatch(callers, subs, phase)
  \/ DispatchRaises(callers, subs, phase)

-----------------------------------------------------------------------------
(* Repair chains: repair -> verify -> review, appended to the graph *)

Chain(first, role, deps, sandbox, attempt, sources) ==
  <<NewSubTask(role, deps, sandbox, attempt, sources[1]),
    NewSubTask("tester", {first}, FALSE, attempt, sources[2]),
    NewSubTask("reviewer", {first + 1}, FALSE, attempt, sources[3])>>

\* The subtasks reachable from s over dependencies in at most k steps
\* (the search does not look behind a maker: it returns there).
Within(subs, s) ==
  LET W[k \in Nat] ==
        IF k = 0 THEN subs[s].deps
        ELSE UNION {{d} \cup subs[d].deps : d \in W[k - 1]}
  IN  W

\* _find_rework_target: the makers nearest to s in its dependencies.
ReworkTargets(subs, s) ==
  LET Found(k) == {d \in Within(subs, s)[k] : subs[d].role \in Makers}
  IN  {t \in 1 .. Len(subs) :
         \E k \in 0 .. Len(subs) :
           t \in Found(k) /\ (k > 0 => Found(k - 1) = {})}

\* _maybe_generate_rework_chain goes past its early returns.
WantsRework(s) ==
  /\ sub[s].role = "reviewer"
  /\ sub[s].decision = "rework"
  /\ sub[s].attempt < MaxRepairAttempts
  /\ ReworkTargets(sub, s) # {}

WithRework(s, target) ==
  [sub EXCEPT ![s].reworked = TRUE]
    \o Chain(Len(sub) + 1, sub[target].role, {s}, sub[target].sandbox,
             sub[s].attempt + 1, <<0, target, 0>>)

\* _collect_descendant_subtask_ids
Descendants(subs, s) ==
  LET Below(d) == {c \in 1 .. Len(subs) : d \in subs[c].deps}
      D[k \in Nat] ==
        IF k = 0 THEN {s} ELSE UNION {{d} \cup Below(d) : d \in D[k - 1]}
  IN  UNION {Below(d) : d \in D[Len(subs)]}

\* Mutant: the mark repair_generated is not consulted.
WantsRepairAgain(subs, s) ==
  /\ EnableFailureRepair
  /\ subs[s].role \in Repairable
  /\ subs[s].attempt < MaxRepairAttempts

\* _maybe_generate_failure_repair_chain goes past its early returns.
WantsRepair(subs, s) ==
  /\ EnableFailureRepair
  /\ subs[s].role \in Repairable
  /\ ~subs[s].repaired
  /\ subs[s].attempt < MaxRepairAttempts

\* Mutant: finished descendants are cancelled as well.
WithRepairCancellingAll(subs, s) ==
  SetStatus([subs EXCEPT ![s].repaired = TRUE], Descendants(subs, s), "cancelled")
    \o Chain(Len(subs) + 1, subs[s].role, subs[s].deps, subs[s].sandbox,
             subs[s].attempt + 1, <<s, s, s>>)

WithRepair(subs, s) ==
  LET doomed == {c \in Descendants(subs, s) : subs[c].status \notin Finished}
  IN  SetStatus([subs EXCEPT ![s].repaired = TRUE], doomed, "cancelled")
        \o Chain(Len(subs) + 1, subs[s].role, subs[s].deps, subs[s].sandbox,
                 subs[s].attempt + 1, <<s, s, s>>)

\* handle_subtask_terminal for "subtask.completed" and "subtask.failed",
\* called by the frames in callers.  (graph is bound, not defined, so that
\* TLC computes it once.)
OnCompleted(callers, s) ==
  IF WantsRework(s)
    THEN \E t \in ReworkTargets(sub, s) :
           DispatchReady(callers, WithRework(s, t), run.phase)
    ELSE DispatchReady(callers, sub, run.phase)

OnFailed(callers, subs, s) ==
  \E graph \in {IF WantsRepair(subs, s) THEN WithRepair(subs, s) ELSE subs} :
    DispatchReady(callers, graph, run.phase)

-----------------------------------------------------------------------------
(* The orchestrator's own steps *)

HandleTaskCreated ==
  /\ run.status = "pending"
  /\ task' = "planning"
  /\ run' = [status |-> "running", phase |-> "planning"]
  /\ stack' = <<PlanningFrame>>
  /\ UNCHANGED <<sub, raised, active, announced, faults>>

\* planner.plan returns: the graph is stored and the first batch assigned.
PlanReady ==
  /\ At("planning")
  /\ \E p \in Plans :
       DispatchReady(<<>>,
                     [i \in 1 .. Len(p) |->
                        NewSubTask(p[i].role, p[i].deps, p[i].sandbox, 0, 0)],
                     "coordinating")
  /\ UNCHANGED <<active, announced>>

\* The planner or the repository raises: "task.created" fails, the run stays.
PlanRaises ==
  /\ At("planning")
  /\ faults < MaxFaults
  /\ faults' = faults + 1
  /\ stack' = <<>>
  /\ raised' = TRUE
  /\ UNCHANGED <<task, run, sub, active, announced>>

\* One turn of the loop: save the (possibly stale) copy of s as assigned and
\* publish "subtask.assigned".  A stored object is in creation order, a
\* Postgres result set in the order of the random ids.
RunNext(s) ==
  /\ At("dispatch")
  /\ s \in Top.todo
  /\ SharedObjects => \A t \in Top.todo : s <= t
  /\ IF SharedObjects
       THEN UNCHANGED sub
       ELSE sub' = [sub EXCEPT ![s] =
                      [NewSubTask(@.role, @.deps, @.sandbox, @.attempt, @.source)
                         EXCEPT !.status = "assigned"]]
  /\ LET looping == [stack EXCEPT ![Len(stack)].todo = @ \ {s}]
     IN  stack' = IF sub'[s].status = "assigned"
                    THEN Append(looping, ExecFrame(s))
                    ELSE looping
  /\ UNCHANGED <<task, run, raised, active, announced, faults>>

\* Mutant: the loop waits until no subtask is pending.
LoopEndsWhenSettled ==
  /\ At("dispatch")
  /\ Top.todo = {}
  /\ \A s \in 1 .. Len(sub) : sub[s].status \in Finished
  /\ stack' = Front(stack)
  /\ UNCHANGED <<task, run, sub, raised, active, announced, faults>>

LoopEnds ==
  /\ At("dispatch")
  /\ Top.todo = {}
  /\ stack' = Front(stack)
  /\ UNCHANGED <<task, run, sub, raised, active, announced, faults>>

-----------------------------------------------------------------------------
(* The execution runner: handle_subtask_assigned for s = Top.sub *)

UsesSandbox(s) == sub[s].sandbox /\ sub[s].role \notin Validation

StartStatus(s) == IF sub[s].role \in Validation THEN "verifying"
                  ELSE IF UsesSandbox(s) THEN "sandbox_creating"
                  ELSE "executing"

\* The policy check passed: the kind of execution is chosen.
Begin ==
  /\ At("begin")
  /\ sub' = [sub EXCEPT ![Top.sub].status = StartStatus(Top.sub)]
  /\ stack' = GoTo(IF UsesSandbox(Top.sub) THEN "acquire" ELSE "work")
  /\ UNCHANGED <<task, run, raised, active, announced, faults>>

\* SandboxManager.acquire
Acquire ==
  /\ At("acquire")
  /\ active' = active \cup {Top.sub}
  /\ sub' = [sub EXCEPT ![Top.sub].status = "executing"]
  /\ stack' = [stack EXCEPT ![Len(stack)].pc = "work",
                            ![Len(stack)].lease = TRUE]
  /\ UNCHANGED <<task, run, raised, announced, faults>>

\* What the body can store for s, by role and runtime.
Outcomes(s) ==
  LET done(r) == [sub[s] EXCEPT !.status = "succeeded",
                                !.verdict = r.verdict, !.decision = r.decision]
      judged == IF \A d \in sub[s].deps : sub[d].role \in Verification
                                            => sub[d].verdict = "pass"
                  THEN "pass" ELSE "fail"
  IN  IF sub[s].role \in Verification
        THEN {done([verdict |-> "pass", decision |-> "none"]),
              [sub[s] EXCEPT !.status = "failed", !.verdict = "fail"]}
      ELSE IF sub[s].role = "reviewer"
        THEN {done([verdict |-> judged, decision |-> d]) : d \in Decisions}
      ELSE {done([verdict |-> "none", decision |-> "none"])}
             \cup (IF UsesSandbox(s)
                     THEN {[sub[s] EXCEPT !.status = "failed"]} ELSE {})

\* The work is done and its result saved; artifacts and memory follow.
Work ==
  /\ At("work")
  /\ \E result \in Outcomes(Top.sub) : sub' = [sub EXCEPT ![Top.sub] = result]
  /\ stack' = GoTo("stored")
  /\ UNCHANGED <<task, run, raised, active, announced, faults>>

\* Mutant: a failing body leaves without releasing its sandbox.
BodyRaisesKeepingSandbox ==
  /\ Running /\ Top.pc \in {"begin", "acquire", "work", "stored"}
  /\ stack' = [stack EXCEPT ![Len(stack)].pc = "caught",
                            ![Len(stack)].lease = FALSE]
  /\ UNCHANGED <<task, run, sub, raised, active, announced, faults>>

\* The body raises: policy denied, no sandbox, tool or model error, missing
\* artifact, or an error storing artifacts or memory after the result.
BodyRaises ==
  /\ Running /\ Top.pc \in {"begin", "acquire", "work", "stored"}
  /\ stack' = GoTo(IF Top.lease THEN "unwind" ELSE "caught")
  /\ UNCHANGED <<task, run, sub, raised, active, announced, faults>>

\* "subtask.completed" or "subtask.failed" is published: its handler and
\* everything that handler starts runs before the call returns.
Publish ==
  /\ At("stored")
  /\ IF sub[Top.sub].status = "succeeded"
       THEN OnCompleted(GoTo("returned"), Top.sub)
       ELSE OnFailed(GoTo("returned"), sub, Top.sub)
  /\ UNCHANGED <<active, announced>>

\* Without a sandbox the handler goes straight to its finally clause.
Return ==
  /\ At("returned")
  /\ ~Top.lease
  /\ stack' = GoTo("reconcile")
  /\ UNCHANGED <<task, run, sub, raised, active, announced, faults>>

\* SandboxManager.release in the finally clause of the sandbox execution.
Release ==
  /\ Running /\ Top.pc \in {"returned", "unwind"}
  /\ Top.lease
  /\ active' = active \ {Top.sub}
  /\ stack' = [stack EXCEPT ![Len(stack)].pc = IF @ = "unwind" THEN "caught"
                                                               ELSE "reconcile",
                            ![Len(stack)].lease = FALSE]
  /\ UNCHANGED <<task, run, sub, raised, announced, faults>>

\* provider.kill raises: the lease is gone, the sandbox stays registered.
ReleaseRaises ==
  /\ Running /\ Top.pc \in {"returned", "unwind"}
  /\ Top.lease
  /\ faults < MaxFaults
  /\ faults' = faults + 1
  /\ stack' = [stack EXCEPT ![Len(stack)].pc = "caught",
                            ![Len(stack)].lease = FALSE]
  /\ UNCHANGED <<task, run, sub, raised, active, announced>>

\* subtask.fail and its save, whatever the status was.  A copied subtask is
\* saved without the marks its own handlers made since.
SavedAsFailed(s) ==
  IF SharedObjects
    THEN [sub EXCEPT ![s].status = "failed"]
    ELSE [sub EXCEPT ![s].status = "failed",
                     ![s].reworked = FALSE, ![s].repaired = FALSE]

\* The except clause: the subtask fails and "subtask.failed" is published.
Caught ==
  /\ At("caught")
  /\ OnFailed(GoTo("handled"), SavedAsFailed(Top.sub), Top.sub)
  /\ UNCHANGED <<active, announced>>

\* The save of a copy or a subscriber of "execution.failed" raises inside the
\* except clause: no handler learns of the failure.
CaughtRaises ==
  /\ At("caught")
  /\ faults < MaxFaults
  /\ faults' = faults + 1
  /\ sub' \in {SavedAsFailed(Top.sub)} \cup (IF SharedObjects THEN {} ELSE {sub})
  /\ stack' = GoTo("reraise")
  /\ UNCHANGED <<task, run, raised, active, announced>>

\* A subscriber of the summary events raises, before or inside the except
\* clause.
SummaryRaises ==
  /\ Running /\ Top.pc \in {"returned", "handled"}
  /\ faults < MaxFaults
  /\ faults' = faults + 1
  /\ stack' = GoTo(IF Top.pc = "handled" THEN "reraise"
                   ELSE IF Top.lease THEN "unwind" ELSE "caught")
  /\ UNCHANGED <<task, run, sub, raised, active, announced>>

\* Mutant: no reconcile after a failure.
HandledWithoutReconcile ==
  /\ At("handled")
  /\ stack' = Front(stack)
  /\ UNCHANGED <<task, run, sub, raised, active, announced, faults>>

Handled ==
  /\ At("handled")
  /\ stack' = GoTo("reconcile")
  /\ UNCHANGED <<task, run, sub, raised, active, announced, faults>>

\* An exception reaches the innermost pending call: a loop is abandoned, an
\* execution goes to its finally and except clauses.
Unwind ==
  /\ raised /\ stack # <<>>
  /\ \/ /\ Top.pc = "dispatch"
        /\ stack' = Front(stack)
        /\ UNCHANGED raised
     \/ /\ Top.pc = "returned"
        /\ stack' = GoTo(IF Top.lease THEN "unwind" ELSE "caught")
        /\ raised' = FALSE
     \/ /\ Top.pc = "handled"
        /\ stack' = GoTo("reraise")
        /\ raised' = FALSE
  /\ UNCHANGED <<task, run, sub, active, announced, faults>>

-----------------------------------------------------------------------------
(* RunStateService.reconcile, in the finally clause *)

Covered(subs) == {subs[s].source : s \in 1 .. Len(subs)}

Failed(subs) ==
  {s \in 1 .. Len(subs) : subs[s].status = "failed" /\ s \notin Covered(subs)}
Succeeded(subs) == {s \in 1 .. Len(subs) : subs[s].status = "succeeded"}
VerificationFailed(subs) ==
  {s \in Succeeded(subs) : subs[s].verdict = "fail" /\ ~subs[s].reworked}
Pending(subs) == {s \in 1 .. Len(subs) : subs[s].status \notin Finished}
UnresolvedRework(subs) ==
  {s \in Succeeded(subs) : subs[s].decision = "rework" /\ ~subs[s].reworked}

\* Mutant: a rework request nobody can serve is forgotten.
VerdictIgnoringRework(subs) ==
  IF Failed(subs) \cup VerificationFailed(subs) # {} THEN "failed"
  ELSE IF Pending(subs) # {} THEN "open"
  ELSE "succeeded"

\* Mutant: a verdict before everything is done.
VerdictIgnoringPending(subs) ==
  IF Failed(subs) \cup VerificationFailed(subs) \cup UnresolvedRework(subs) # {}
    THEN "failed"
  ELSE "succeeded"

\* The aggregate: the verdict and the phase, or "open".
Verdict(subs) ==
  IF Failed(subs) \cup VerificationFailed(subs) # {} THEN "failed"
  ELSE IF Pending(subs) # {} THEN "open"
  ELSE IF UnresolvedRework(subs) # {} THEN "failed"
  ELSE "succeeded"

Settle(verdict) ==
  IF verdict = "open"
    THEN /\ task' = IF task = "planning" THEN "running" ELSE task
         /\ run' = [status |-> IF run.status = "pending" THEN "running"
                               ELSE run.status,
                    phase |-> "executing"]
    ELSE /\ task' = verdict
         /\ run' = [status |-> verdict,
                    phase |-> IF verdict = "failed" THEN "reviewing"
                              ELSE "delivering"]

\* "run.terminal" goes out when something changed and the run has a verdict.
\* (task.error is not modelled: it only changes together with task.)
Announce ==
  announced' = IF /\ <<run', task'>> # <<run, task>>
                  /\ run'.status \in {"succeeded", "failed"}
                 THEN run'.status
                 ELSE announced

Reconcile ==
  /\ Running /\ Top.pc \in {"reconcile", "reraise"}
  /\ Settle(Verdict(sub))
  /\ Announce
  /\ stack' = Front(stack)
  /\ raised' = (Top.pc = "reraise")
  /\ UNCHANGED <<sub, active, faults>>

\* A "run.updated" subscriber (replay or audit store) raises after the saves.
ReconcileRaises ==
  /\ Running /\ Top.pc \in {"reconcile", "reraise"}
  /\ faults < MaxFaults
  /\ faults' = faults + 1
  /\ Settle(Verdict(sub))
  /\ <<run', task'>> # <<run, task>>
  /\ stack' = Front(stack)
  /\ raised' = TRUE
  /\ UNCHANGED <<sub, active, announced>>

-----------------------------------------------------------------------------
\* DELETE /v1/tasks/{id}: the task is marked, the run is not told.
DeleteTask ==
  /\ MayDelete
  /\ task # "cancelled"
  /\ task' = "cancelled"
  /\ UNCHANGED <<run, sub, stack, raised, active, announced, faults>>

\* The run's asyncio task has ended.
Ended == stack = <<>> /\ run.status # "pending"

Step ==
  \/ HandleTaskCreated \/ PlanReady \/ PlanRaises
  \/ \E s \in 1 .. Len(sub) : RunNext(s)
  \/ LoopEnds
  \/ Begin \/ Acquire \/ Work \/ BodyRaises \/ Publish \/ Return
  \/ Release \/ ReleaseRaises \/ SummaryRaises \/ Caught \/ CaughtRaises
  \/ Handled \/ Unwind
  \/ Reconcile \/ ReconcileRaises

Next == Step \/ DeleteTask

Spec == Init /\ [][Next]_vars

\* The event loop keeps scheduling the run's task and every call it awaits
\* (model, sandbox, repository) returns or raises.
FairSpec == Spec /\ WF_vars(Step)

-----------------------------------------------------------------------------
(* Properties *)

Executions == {i \in 1 .. Len(stack) : stack[i].pc \in ExecPc}

\* No subtask is executed by two pending calls, waits in two dispatch loops,
\* or waits in a loop while it is executed: the finished, nested dispatch
\* never races the loop that is still running below it
\* (_dispatch_ready_subtasks assigns a whole batch before it starts any).
OneActivation ==
  /\ \A i, j \in Executions : i # j => stack[i].sub # stack[j].sub
  /\ \A i, j \in 1 .. Len(stack) :
       i # j => stack[i].todo \cap stack[j].todo = {}
  /\ \A i \in Executions, j \in 1 .. Len(stack) :
       stack[i].sub \notin stack[j].todo

\* A subtask that has finished is never put back to work; at most the except
\* clause turns a success into a failure.
FinishedStaysFinished ==
  [][\A s \in 1 .. Len(sub) :
       sub[s].status \in Finished =>
         \/ sub'[s].status = sub[s].status
         \/ sub[s].status = "succeeded" /\ sub'[s].status = "failed"]_vars

\* A subtask starts only while every subtask it depends on is a success,
\* however long it waited in a loop after the scheduler found it ready.
StartsOnFinishedInputs ==
  [][\A s \in 1 .. Len(sub) :
       sub'[s].status \in {"verifying", "executing", "sandbox_creating"} =>
         \A d \in sub[s].deps : sub[d].status = "succeeded"]_vars

\* A failed subtask gets at most one repair chain, although a sandbox subtask
\* can publish "subtask.failed" twice (exit code, then failed release).
OneChainPerFailure ==
  \A s, t \in 1 .. Len(sub) :
    /\ sub[s].source # 0 /\ sub[s].source = sub[t].source
    /\ sub[s].role \in Repairable /\ sub[t].role \in Repairable
    => s = t

\* A run that ended as a success has nothing open: no failure without a
\* repair chain, none of a verification at all (no chain covers it,
\* tests/test_v2_execution_flow.py), no rework request without a chain,
\* nothing pending, and what was cancelled depended on a failure that is
\* being repaired.  Only an exception that escapes the run's last call can
\* leave a subtask waiting behind a success (a failed release after the
\* verdict starts a repair, whose scheduling raises).
SucceededRunIsClean ==
  Ended /\ ~raised /\ run.status = "succeeded" =>
    \A s \in 1 .. Len(sub) :
      /\ sub[s].status \in Finished
      /\ sub[s].status = "failed" => /\ s \in Covered(sub)
                                     /\ sub[s].role \notin Verification
      /\ sub[s].status = "succeeded" /\ sub[s].decision = "rework"
           => sub[s].reworked
      /\ sub[s].status = "cancelled" =>
           \E f \in 1 .. Len(sub) : /\ sub[f].status = "failed"
                                    /\ s \in Descendants(sub, f)

\* The graph has no cycle.  Only planned subtasks (attempt 0) can be on one:
\* a chain depends on what was there before it.
Acyclic ==
  \A S \in SUBSET {s \in 1 .. Len(sub) : sub[s].attempt = 0} :
    S # {} => \E s \in S : sub[s].deps \cap S = {}

\* When the run's asyncio task is over, the run has a verdict, the task
\* shows the same one (unless a client deleted it), and it was announced:
\* only an exception that escaped or a cyclic plan leaves a run hanging, or,
\* with failure repair off, an error whose failed subtask a rework chain
\* covers although nothing was repaired.
EndedRunIsDecided ==
  Ended /\ ~raised /\ Acyclic /\ (faults = 0 \/ EnableFailureRepair) =>
    /\ run.status \in {"succeeded", "failed"}
    /\ task \in {run.status} \cup (IF MayDelete THEN {"cancelled"} ELSE {})
    /\ faults = 0 => announced = run.status

\* Every registered sandbox belongs to a pending execution that holds its
\* lease, save one per infrastructure error; none outlives the run otherwise.
SandboxesAccountedFor ==
  Cardinality(active \ {stack[i].sub : i \in {e \in Executions : stack[e].lease}})
    <= faults

\* Every run that is started ends: repair and rework are bounded.
RunEnds == run.status # "pending" ~> Ended

\* The run keeps the promise of RunLifecycle.
Lifecycle == INSTANCE RunLifecycle WITH
  status <- run.status, disturbed <- faults > 0 \/ ~Acyclic

\* Without infrastructure errors a run has one verdict, announced when it is
\* reached and final: depth-first execution lets no verdict be computed while
\* a repair or a rework that could overturn it is still possible.  After an
\* error only a success may still become a failure: of runs with failure
\* repair on, that is.  With it off a rework chain of a failed subtask's work
\* hides the failure and a failed run may succeed.
VerdictIsFinal == Lifecycle!Spec

\* And the verdict is eventually reached, unless an error strikes or the plan
\* has a cycle.
VerdictIsReached == Lifecycle!FairSpec

\* What orchestration/state_machine.py says of a succeeded task: no transition
\* leaves that status.
SucceededTaskIsFinal == [][task = "succeeded" => task' = "succeeded"]_vars
=============================================================================
