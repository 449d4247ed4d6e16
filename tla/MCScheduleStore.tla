-------------------------- MODULE MCScheduleStore --------------------------
(***************************************************************************)
(* ScheduleStore for TLC.  Two scenarios share one run: "history" is one   *)
(* schedule whose runs exceed the history limit, "quota" is two schedules  *)
(* of one app with room for one active schedule.                           *)
(***************************************************************************)
EXTENDS ScheduleRefinement, TLC

CONSTANTS s1, s2, a1

VARIABLE scenario

InHistory == status'[s2] = "none"
InQuota   == clock' <= 1 /\ lastRun' <= 1 /\ \A s \in Schedules : revision'[s] <= 3

MCInit == StoreInit /\ scenario \in {"history", "quota"}

MCNext ==
    /\ StoreNext
    /\ IF scenario = "history" THEN InHistory ELSE InQuota
    /\ UNCHANGED scenario

MCSpec == MCInit /\ [][MCNext]_<<storeVars, scenario>>
=============================================================================
