-------------------------- MODULE MCSchedulerLive --------------------------
(***************************************************************************)
(* Scheduler under fairness, for TLC.  Disturbances are shared out between *)
(* HTTP requests, restarts of the service and calls that raise.            *)
(***************************************************************************)
EXTENDS Scheduler

CONSTANT MaxEvents      \* bound: requests, restarts and failing calls together

VARIABLE requests

Arrives == \E h \in Handlers : pc[h] = "idle" /\ (pc'[h] # "idle" \/ token' # token)

MCInit == SchedulerInit /\ requests = 0

MCNext ==
    /\ SchedulerNext
    /\ requests' = requests + IF Arrives THEN 1 ELSE 0
    /\ requests' + restarts' + faults' <= MaxEvents

MCSpec == MCInit /\ [][MCNext]_<<vars, requests>> /\ Fairness
=============================================================================
