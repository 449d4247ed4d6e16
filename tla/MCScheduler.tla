---------------------------- MODULE MCScheduler ----------------------------
(***************************************************************************)
(* Scheduler for TLC.  Two scenarios share the safety run: "restart" is    *)
(* one HTTP thread, a restart and a failing store call; "handlers" is two  *)
(* HTTP threads that edit, run and administer the same schedule.           *)
(***************************************************************************)
EXTENDS Scheduler, TLC

CONSTANTS s1, a1, h1, h2

VARIABLE scenario

InRestart  == pc'[h2] = "idle" /\ subject'[h2] = subject[h2] /\ claimed'[h2] = claimed[h2]
InHandlers == restarts' = 0 /\ faults' = 0

MCInit == SchedulerInit /\ scenario \in {"restart", "handlers"}

MCNext ==
    /\ SchedulerNext
    /\ IF scenario = "restart" THEN InRestart ELSE InHandlers
    /\ UNCHANGED scenario

Threads == Permutations({h1, h2})

MCSpec == MCInit /\ [][MCNext]_<<vars, scenario>>
=============================================================================
