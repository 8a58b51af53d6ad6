---------------------------- MODULE MCInteraction ----------------------------
(***************************************************************************)
(* Two instances of a streamed interaction in one run: with everything its *)
(* clients and its store can do, and with the questions of other sessions. *)
(***************************************************************************)
EXTENDS StreamedQuery

VARIABLE focus

MCInit == InitAll /\ focus \in {"clients", "queries"}

Bound ==
  /\ focus = "clients" => \A q \in Others : query'[q] = "idle"
  /\ focus = "queries" =>
       /\ ~cancelSet' /\ faults' = 0 /\ (reader' = "gone" => told' # "none")
       /\ kind' \in {"none", "data_query"}
       /\ Cardinality({q \in Others : query'[q] # "idle"}) <= 1

MCNext == NextAll /\ Bound /\ UNCHANGED focus

MCSpec == MCInit /\ [][MCNext]_<<allVars, focus>> /\ Fairness
=============================================================================
