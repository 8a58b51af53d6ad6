----------------------- MODULE MCRunOrchestration -----------------------
(* Runs over small task graphs. *)
EXTENDS RunOrchestration, TaskGraphs
=========================================================================
