---------------------------- MODULE TrackingGateMC ----------------------------
(***************************************************************************)
(* Values for the constants of TrackingGate: an employee at work, one      *)
(* whose company has dropped the plan, and one off work whose policy       *)
(* forbids tracking; and a minimum version that the current one misses by  *)
(* a part it does not even have.                                           *)
(***************************************************************************)
EXTENDS TrackingGate

ThisVersion == {<<0, 1>>}
RequiredVersions == {<<0, 1, 2>>}

AtWork == [plan |-> TRUE, policy |-> TRUE, attendance |-> "WORKING", result |-> "positive"]
NoPlan == [AtWork EXCEPT !.plan = FALSE]
OffWork == [plan |-> TRUE, policy |-> FALSE, attendance |-> "AFTER_WORK", result |-> "zero"]

Answers == {AtWork, NoPlan, OffWork}

=============================================================================
