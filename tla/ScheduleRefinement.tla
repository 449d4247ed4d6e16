------------------------- MODULE ScheduleRefinement -------------------------
(* The schedule store implements ScheduleLifecycle. *)
EXTENDS ScheduleStore

Phase == [s \in Schedules |->
            IF status[s] \in {"active", "paused", "stopped"} THEN "open" ELSE status[s]]

Live == [s \in Schedules |-> LiveRuns(s)]

Lifecycle == INSTANCE ScheduleLifecycle WITH phase <- Phase, live <- Live, issued <- lastRun

\* claim_due, bind_task, finish_run, abandon_running and delete_app, called in
\* any order by any caller, never make a second run of a schedule live, never
\* revive a finished run and never start one of a completed schedule.
RefinesLifecycle == Lifecycle!Spec
=============================================================================
