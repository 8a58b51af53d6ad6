----------------------------- MODULE MCPostgres -----------------------------
(***************************************************************************)
(* One at a time over Postgres: the requests of a FlyReport session, whose *)
(* row outlives the server, and a run whose repositories return copies.    *)
(* The first state chooses, and the other stays as it is.                  *)
(***************************************************************************)
EXTENDS FlyReportSession, TaskGraphs

CONSTANTS
  Plans,            \* the task graphs the planner may return
  MaxRunFaults      \* bound on the infrastructure errors of the run

VARIABLES task, run, sub, stack, raised, active, announced, faults, focus

runVars == <<task, run, sub, stack, raised, active, announced, faults>>

Orchestration == INSTANCE RunOrchestration WITH
  MaxRepairAttempts <- 1, EnableFailureRepair <- FALSE,
  SharedObjects <- FALSE, MayDelete <- FALSE, MaxFaults <- MaxRunFaults

UseSession == focus = "session" /\ Next /\ UNCHANGED <<runVars, focus>>

RunTask == focus = "run" /\ Orchestration!Step /\ UNCHANGED <<vars, focus>>

PostgresInit == Init /\ Orchestration!Init /\ focus \in {"session", "run"}

PostgresNext == UseSession \/ RunTask

\* The fairness of FlyReportSession and of RunOrchestration.
PostgresSpec ==
  /\ PostgresInit /\ [][PostgresNext]_<<vars, runVars, focus>>
  /\ \A c \in Clients :
       WF_<<vars, runVars, focus>>(/\ focus = "session" /\ Step(c)
                                   /\ UNCHANGED <<runVars, focus>>)
  /\ WF_<<vars, runVars, focus>>(RunTask)

\* A run over copies ends too, although subtasks can be executed twice: repair
\* and rework are bounded (RunOrchestration, scheduler.py and
\* execution_runner.py).
RunOverCopiesEnds == focus = "run" => Orchestration!RunEnds
=============================================================================
