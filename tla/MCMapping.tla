----------------------------- MODULE MCMapping -----------------------------
(* Three scenarios of one mapping.  "calls": a call of any kind, without      *)
(* approvals.  "approvals": two administrators grant and revoke at the same  *)
(* time while the clock runs, without calls or updates.  "updates": the same *)
(* with updates, at one instant.                                             *)
EXTENDS MappingSession, TLC

VARIABLE scenario

MCInit == Init /\ scenario \in {"calls", "approvals", "updates"}

MCNext ==
    /\ Next
    /\ scenario = "calls" => \A t \in Approvers : thread'[t].pc = "idle"
    /\ scenario # "approvals" => now' = 0
    /\ scenario = "approvals" => updates' = 0
    /\ scenario # "calls" => \A t \in Calls : thread'[t].pc = "idle"
    /\ UNCHANGED scenario

Symmetry == Permutations(Approvers)

MCSpec == MCInit /\ [][MCNext]_<<vars, scenario>>
=============================================================================
