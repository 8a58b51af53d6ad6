---------------------------- MODULE MCSubtaskWork ----------------------------
(***************************************************************************)
(* Two instances in one run: sandboxes used by anybody next to destroy_all *)
(* and failing requests, and the work of one subtask in them.              *)
(***************************************************************************)
EXTENDS SubtaskWork

CONSTANT Uncalled  \* a use that only the work of a subtask makes

VARIABLE focus

MCInit ==
  /\ Init /\ WorkInit
  /\ focus \in {"sandboxes", "work"}
  /\ focus = "sandboxes" => ~work.required

Bound ==
  /\ focus = "sandboxes" => work'.pc = "idle" /\ call'[Uncalled].pc = "idle"
  /\ focus = "work" =>
       /\ strays' = {} /\ cleaner'.pc = "idle"
       /\ \A c \in Calls : call'[c].tries = 0
       /\ \A u \in Uses : job'[u].pc = "idle" => call'[u].pc = "idle"

MCNext == WorkNext /\ Bound /\ UNCHANGED focus

MCSpec == MCInit /\ [][MCNext]_<<allVars, focus>> /\ WorkFairness
=============================================================================
