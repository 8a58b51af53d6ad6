---------------------------- MODULE RunLifecycle ----------------------------
(***************************************************************************)
(* What a run promises its clients (GET /v1/runs/{id}, the run.terminal    *)
(* event): it starts once, it gets one verdict, the verdict is announced   *)
(* when it is reached, and it never changes afterwards.                    *)
(*                                                                         *)
(* An infrastructure error takes a part of this away, and no more: the     *)
(* verdict may be stored without being announced, and a success may still  *)
(* become a failure.  A failure never becomes a success, and no verdict is *)
(* taken back to "running".                                                *)
(***************************************************************************)
VARIABLES
  status,     \* Run.status
  announced,  \* the status of the last "run.terminal" event, or "none"
  disturbed   \* an infrastructure error has struck, or the plan has a cycle

vars == <<status, announced, disturbed>>

Init == status = "pending" /\ announced = "none" /\ ~disturbed

Start ==
  /\ status = "pending"
  /\ status' = "running"
  /\ UNCHANGED <<announced, disturbed>>

Decide ==
  /\ status = "running"
  /\ status' \in {"succeeded", "failed"}
  /\ announced' = status'
  /\ UNCHANGED disturbed

\* An error strikes, or something happens after one did.
Disturb ==
  /\ disturbed'
  /\ \/ UNCHANGED <<status, announced>>
     \/ /\ \/ status = "running" /\ status' \in {"succeeded", "failed"}
           \/ status \in {"succeeded", "failed"} /\ status' \in {status, "failed"}
        /\ announced' \in {announced, status'}

Next == Start \/ Decide \/ Disturb

Spec == Init /\ [][Next]_vars

\* A run that has started is decided, unless something disturbs it.
FairSpec == Spec /\ WF_status(Decide /\ ~disturbed)
=============================================================================
