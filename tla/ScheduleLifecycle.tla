------------------------- MODULE ScheduleLifecycle -------------------------
(***************************************************************************)
(* What a schedule promises its owner, without tables, clocks or markers:  *)
(* a schedule is opened once, may have at most one live run, each run      *)
(* being a new one, and after it is completed or deleted no run starts.    *)
(***************************************************************************)
EXTENDS Naturals

CONSTANTS Schedules

VARIABLES
    phase,      \* "none", "open", "completed" or "deleted"
    live,       \* the live runs of each schedule
    issued      \* the number of runs issued so far

lifecycleVars == <<phase, live, issued>>

Init ==
    /\ phase = [s \in Schedules |-> "none"]
    /\ live = [s \in Schedules |-> {}]
    /\ issued = 0

Open(s) ==
    /\ phase[s] = "none"
    /\ phase' = [phase EXCEPT ![s] = "open"]
    /\ UNCHANGED <<live, issued>>

\* An occurrence of an open schedule becomes run issued + 1: live when no other
\* run is, otherwise skipped.  It may be the schedule's last one.
Occur(s) ==
    /\ phase[s] = "open"
    /\ issued' = issued + 1
    /\ \/ live' = live
       \/ live[s] = {} /\ live' = [live EXCEPT ![s] = {issued + 1}]
    /\ phase' \in {phase, [phase EXCEPT ![s] = "completed"]}

\* Runs end, in one schedule or in several at once (a restart).
RunsEnd(S) ==
    /\ live' = [s \in Schedules |-> IF s \in S THEN {} ELSE live[s]]
    /\ UNCHANGED <<phase, issued>>

Complete(s) ==
    /\ phase[s] = "open"
    /\ phase' = [phase EXCEPT ![s] = "completed"]
    /\ UNCHANGED <<live, issued>>

\* The schedules of an app are deleted together, with their runs.
Delete(S) ==
    /\ \A s \in S : phase[s] \in {"open", "completed"}
    /\ phase' = [s \in Schedules |-> IF s \in S THEN "deleted" ELSE phase[s]]
    /\ live' = [s \in Schedules |-> IF s \in S THEN {} ELSE live[s]]
    /\ UNCHANGED issued

Next ==
    \/ \E s \in Schedules : Open(s) \/ Occur(s) \/ Complete(s)
    \/ \E S \in SUBSET Schedules : RunsEnd(S) \/ Delete(S)

Spec == Init /\ [][Next]_lifecycleVars
=============================================================================
