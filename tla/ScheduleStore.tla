--------------------------- MODULE ScheduleStore ---------------------------
(***************************************************************************)
(* The persistent schedule store of one workspace (execution/              *)
(* scheduler_store.py).  Every method of ScheduleStore that writes is one  *)
(* SQLite transaction under BEGIN IMMEDIATE, so it is one action here.     *)
(* The two tables are modelled column by column; a refused call (an        *)
(* exception before the commit) changes nothing and is a stuttering step.  *)
(*                                                                         *)
(* Names, commands, cwd, plan ids and messages are opaque to the store and *)
(* are left out.  The cron calendar is abstracted to "some later instant". *)
(***************************************************************************)
EXTENDS Naturals, FiniteSets

CONSTANTS
    Schedules,      \* schedule ids that create() may hand out
    Apps,           \* application identities
    Kinds,          \* schedule types that requests use
    Misfires,       \* misfire policies that requests use
    None,           \* SQL NULL
    MaxActive,      \* MAX_ACTIVE_SCHEDULES_PER_APP
    HistoryLimit,   \* MAX_SCHEDULE_RUNS_PER_SCHEDULE
    Retention,      \* SCHEDULE_RUN_RETENTION_DAYS
    Grace,          \* schedule_misfire_grace_seconds
    MinLead,        \* MINIMUM_INTERVAL: earliest occurrence after "now"
    Spread,         \* how far beyond MinLead a timing may place an occurrence
    Delay,          \* bound: age of a validated timing when create or update uses it
    Finals,         \* terminal statuses callers pass to finish_run
    MaxRuns,        \* bound: run ids handed out
    MaxTime,        \* bound: the clock
    MaxRevision     \* bound: revision of one schedule

ASSUME StoreAssumption ==
    /\ Kinds \subseteq {"once", "interval", "cron"}
    /\ Misfires \subseteq {"skip", "coalesce"}
    /\ MaxActive \in Nat \ {0}
    /\ HistoryLimit \in Nat \ {0}
    /\ Retention \in Nat
    /\ Grace \in Nat
    /\ MinLead \in Nat \ {0}
    /\ Spread \in Nat
    /\ Delay \in Nat
    /\ MaxRuns \in Nat
    /\ MaxTime \in Nat
    /\ MaxRevision \in Nat

RunIds == 1 .. MaxRuns
Terminal == {"succeeded", "failed", "skipped_overlap", "skipped_capacity",
             "skipped_permission", "missed", "abandoned"}
LiveStatus == {"claimed", "running"}

ClaimBare(r) == [by |-> "bare", run |-> r]       \* Mutant: the prefix is missing

\* running_task_id is NULL, "claim:<run_id>" or the id of the run's task.  A
\* task id belongs to one run, so a task marker names the run as well.
Claim(r) == [by |-> "claim", run |-> r]
Task(r) == [by |-> "task", run |-> r]
Marker == [by : {"claim", "task"}, run : RunIds]

ASSUME NoneAssumption == None \notin Nat /\ None \notin Marker /\ None \notin Schedules
ASSUME FinalsAssumption == Finals \subseteq Terminal

VARIABLES
    clock,          \* utc_now()
    status,         \* schedules.status; "none" before, "deleted" after the row
    app,            \* schedules.app_id
    kind,           \* schedules.type
    timing,         \* interval_minutes of an interval, run_at of a once
    misfire,        \* schedules.misfire_policy
    nextRun,        \* schedules.next_run_at
    marker,         \* schedules.running_task_id
    revision,       \* schedules.revision
    runStatus,      \* schedule_runs.status; "none" before, "gone" after the row
    runOf,          \* schedule_runs.schedule_id
    scheduledAt,    \* schedule_runs.scheduled_at
    bound,          \* schedule_runs.task_id IS NOT NULL
    lastRun         \* run ids handed out so far (run ids are never reused)

config == <<status, app, kind, timing, misfire, nextRun, revision>>
rows == <<runStatus, runOf, scheduledAt, bound, lastRun>>
storeVars == <<clock, status, app, kind, timing, misfire, nextRun, revision,
               marker, runStatus, runOf, scheduledAt, bound, lastRun>>

Exists(s) == status[s] \in {"active", "paused", "stopped", "completed"}
RunExists(r) == runStatus[r] \in LiveStatus \cup Terminal
LiveRuns(s) == {r \in RunIds : runOf[r] = s /\ runStatus[r] \in LiveStatus}

StoreInit ==
    /\ clock = 0
    /\ status = [s \in Schedules |-> "none"]
    /\ app = [s \in Schedules |-> None]
    /\ kind = [s \in Schedules |-> "interval"]
    /\ timing = [s \in Schedules |-> MinLead]
    /\ misfire = [s \in Schedules |-> "skip"]
    /\ nextRun = [s \in Schedules |-> None]
    /\ marker = [s \in Schedules |-> None]
    /\ revision = [s \in Schedules |-> 0]
    /\ runStatus = [r \in RunIds |-> "none"]
    /\ runOf = [r \in RunIds |-> None]
    /\ scheduledAt = [r \in RunIds |-> 0]
    /\ bound = [r \in RunIds |-> FALSE]
    /\ lastRun = 0

-----------------------------------------------------------------------------
(* Timing *)

\* The next_run_at values validate_timing can return at time t: none for a once
\* schedule whose run_at is not far enough ahead (the call is refused).
Occurrences(k, w, t) ==
    CASE k = "once"     -> {n \in {w} : n >= t + MinLead}
      [] k = "interval" -> {t + w}
      [] k = "cron"     -> (t + 1) .. (t + MinLead + Spread)

\* The timings a request may ask for at time t.
Requested(t) ==
    [kind : Kinds \cap {"interval"}, when : MinLead .. (MinLead + Spread)]
      \cup [kind : Kinds \cap {"once"}, when : (t + MinLead) .. (t + MinLead + Spread)]
      \cup [kind : Kinds \cap {"cron"}, when : {0}]

\* The handlers call validate_timing before the store's transaction, so create
\* and update may be given a next_run_at computed a while ago.
Validated(t) ==
    UNION {{[kind |-> q.kind, when |-> q.when, next |-> n] :
              n \in Occurrences(q.kind, q.when, t)} : q \in Requested(t)}

Timings == UNION {Validated(t) : t \in {x \in 0 .. clock : x + Delay >= clock}}

\* Mutant: occurrences stay on their grid, so a late claim leaves a due one.
NextOnGrid(s) ==
    IF kind[s] = "once" THEN {None}
    ELSE IF nextRun[s] = None THEN {None} ELSE {nextRun[s] + MinLead}

NextUnmoved(s) == {nextRun[s]}      \* Mutant: the claimed occurrence stays due

NextAfterClaim(s) ==
    IF kind[s] = "once" THEN {None} ELSE Occurrences(kind[s], timing[s], clock)

-----------------------------------------------------------------------------
(* Schedule transactions *)

ActiveCount(a) ==
    Cardinality({s \in Schedules : app[s] = a /\ status[s] \in {"active", "paused"}})

BumpMissing(s) == UNCHANGED revision       \* Mutant

Bump(s) == /\ revision[s] < MaxRevision
           /\ revision' = [revision EXCEPT ![s] = @ + 1]

Create(s, a, w, m) ==
    /\ status[s] = "none"
    /\ ActiveCount(a) < MaxActive
    /\ nextRun' = [nextRun EXCEPT ![s] = w.next]
    /\ status' = [status EXCEPT ![s] = "active"]
    /\ app' = [app EXCEPT ![s] = a]
    /\ kind' = [kind EXCEPT ![s] = w.kind]
    /\ timing' = [timing EXCEPT ![s] = w.when]
    /\ misfire' = [misfire EXCEPT ![s] = m]
    /\ Bump(s)
    /\ UNCHANGED <<clock, marker, rows>>

Updatable(s, expected) ==
    /\ Exists(s)
    /\ status[s] # "completed"
    /\ revision[s] = expected
    /\ marker[s] = None

\* An update that leaves the timing alone (misfire_policy or an opaque field).
UpdateFields(s, expected, m) ==
    /\ Updatable(s, expected)
    /\ misfire' = [misfire EXCEPT ![s] = m]
    /\ Bump(s)
    /\ UNCHANGED <<clock, status, app, kind, timing, nextRun, marker, rows>>

\* Mutant: an update gives a paused schedule a next occurrence.
RescheduledAlways(s, w) == w.next

Rescheduled(s, w) == IF status[s] = "active" THEN w.next ELSE None

UpdateTiming(s, expected, w) ==
    /\ Updatable(s, expected)
    /\ nextRun' = [nextRun EXCEPT ![s] = Rescheduled(s, w)]
    /\ kind' = [kind EXCEPT ![s] = w.kind]
    /\ timing' = [timing EXCEPT ![s] = w.when]
    /\ Bump(s)
    /\ UNCHANGED <<clock, status, app, misfire, marker, rows>>

Pause(s) ==
    /\ status[s] = "active"
    /\ status' = [status EXCEPT ![s] = "paused"]
    /\ nextRun' = [nextRun EXCEPT ![s] = None]
    /\ Bump(s)
    /\ UNCHANGED <<clock, app, kind, timing, misfire, marker, rows>>

Resumable(s) ==
    /\ status[s] \in {"paused", "stopped"}
    /\ status[s] = "stopped" => kind[s] # "once" /\ ActiveCount(app[s]) < MaxActive

Resume(s) ==
    /\ Resumable(s)
    /\ \E n \in Occurrences(kind[s], timing[s], clock) :
          nextRun' = [nextRun EXCEPT ![s] = n]
    /\ status' = [status EXCEPT ![s] = "active"]
    /\ Bump(s)
    /\ UNCHANGED <<clock, app, kind, timing, misfire, marker, rows>>

End(s, final) ==
    /\ Exists(s)
    /\ kind[s] # "once"
    /\ status[s] \notin {"completed", final}
    /\ status' = [status EXCEPT ![s] = final]
    /\ nextRun' = [nextRun EXCEPT ![s] = None]
    /\ Bump(s)
    /\ UNCHANGED <<clock, app, kind, timing, misfire, marker, rows>>

PauseApp(a) ==
    LET hit == {s \in Schedules : app[s] = a /\ status[s] = "active"} IN
    /\ \A s \in hit : revision[s] < MaxRevision
    /\ status' = [s \in Schedules |-> IF s \in hit THEN "paused" ELSE status[s]]
    /\ nextRun' = [s \in Schedules |-> IF s \in hit THEN None ELSE nextRun[s]]
    /\ revision' = [s \in Schedules |-> IF s \in hit THEN revision[s] + 1 ELSE revision[s]]
    /\ UNCHANGED <<clock, app, kind, timing, misfire, marker, rows>>

\* Deleting the schedules cascades to their runs.
DeleteApp(a) ==
    LET hit == {s \in Schedules : app[s] = a /\ Exists(s)} IN
    /\ status' = [s \in Schedules |-> IF s \in hit THEN "deleted" ELSE status[s]]
    /\ nextRun' = [s \in Schedules |-> IF s \in hit THEN None ELSE nextRun[s]]
    /\ marker' = [s \in Schedules |-> IF s \in hit THEN None ELSE marker[s]]
    /\ runStatus' = [r \in RunIds |-> IF runOf[r] \in hit THEN "gone" ELSE runStatus[r]]
    /\ UNCHANGED <<clock, app, kind, timing, misfire, revision,
                   runOf, scheduledAt, bound, lastRun>>
-----------------------------------------------------------------------------
(* Run transactions *)

\* The run rows of s that _prune_runs may delete, when the rows stand at rs/at:
\* finished ones that are not kept, either expired or beyond the newest
\* `limit`.  Rows with equal scheduled_at are ordered arbitrarily.
Prunable(rs, of, s, keep) ==
    {r \in RunIds : of[r] = s /\ rs[r] \in Terminal /\ r # keep}

Pruned(rs, of, at, s, keep) ==
    LET old == {r \in Prunable(rs, of, s, keep) : at[r] + Retention < clock}
        rest == Prunable(rs, of, s, keep) \ old
        limit == IF keep = None THEN HistoryLimit ELSE HistoryLimit - 1
        excess == {d \in SUBSET rest :
                     /\ Cardinality(rest) - Cardinality(d) =
                          IF Cardinality(rest) < limit THEN Cardinality(rest) ELSE limit
                     /\ \A x \in d, y \in rest \ d : at[x] <= at[y]}
    IN  {old \cup d : d \in excess}

Forget(rs, dead) == [r \in RunIds |-> IF r \in dead THEN "gone" ELSE rs[r]]

Claimable(s, force) ==
    IF force THEN status[s] \in {"active", "paused"} /\ marker[s] = None
    ELSE status[s] = "active" /\ nextRun[s] # None /\ nextRun[s] <= clock

\* Mutant: the overlap test is missing.
OutcomeOverlapping(s, force) ==
    IF ~force /\ misfire[s] = "skip" /\ nextRun[s] + Grace < clock THEN "missed" ELSE "claimed"

\* The status the claimed occurrence gets; only "claimed" is executed.
Outcome(s, force) ==
    IF marker[s] # None THEN "skipped_overlap"
    ELSE IF ~force /\ misfire[s] = "skip" /\ nextRun[s] + Grace < clock THEN "missed"
    ELSE "claimed"

ClaimDue(s, force) ==
    LET r == lastRun + 1
        of == [runOf EXCEPT ![r] = s]
        at == [scheduledAt EXCEPT ![r] = IF force THEN clock ELSE nextRun[s]]
        rs == [runStatus EXCEPT ![r] = Outcome(s, force)]
    IN
    /\ Claimable(s, force)
    /\ lastRun < MaxRuns
    /\ \E n \in IF force THEN {nextRun[s]} ELSE NextAfterClaim(s) :
          nextRun' = [nextRun EXCEPT ![s] = n]
    /\ status' = [status EXCEPT ![s] = IF ~force /\ kind[s] = "once" THEN "completed" ELSE @]
    /\ marker' = [marker EXCEPT ![s] = IF Outcome(s, force) = "claimed" THEN Claim(r) ELSE @]
    /\ \E dead \in Pruned(rs, of, at, s, None) : runStatus' = Forget(rs, dead)
    /\ runOf' = of
    /\ scheduledAt' = at
    /\ lastRun' = r
    /\ Bump(s)
    /\ UNCHANGED <<clock, app, kind, timing, misfire, bound>>

BindTask(r) ==
    /\ runStatus[r] = "claimed"
    /\ runStatus' = [runStatus EXCEPT ![r] = "running"]
    /\ bound' = [bound EXCEPT ![r] = TRUE]
    /\ marker' = [s \in Schedules |->
                    IF s = runOf[r] /\ marker[s] = Claim(r) THEN Task(r) ELSE marker[s]]
    /\ UNCHANGED <<clock, config, runOf, scheduledAt, lastRun>>

ReleasedAny(r) ==       \* Mutant: whichever run the marker names
    [s \in Schedules |-> IF s = runOf[r] THEN None ELSE marker[s]]

\* finish_run clears running_task_id only when it is the run's own.
Released(r) ==
    LET mine == IF bound[r] THEN Task(r) ELSE Claim(r) IN
    [s \in Schedules |-> IF s = runOf[r] /\ marker[s] = mine THEN None ELSE marker[s]]

FinishRun(r, final) ==
    LET rs == [runStatus EXCEPT ![r] = final] IN
    /\ RunExists(r)
    /\ \E dead \in Pruned(rs, runOf, scheduledAt, runOf[r], r) : runStatus' = Forget(rs, dead)
    /\ marker' = Released(r)
    /\ UNCHANGED <<clock, config, runOf, scheduledAt, bound, lastRun>>

AbandonRunning ==
    /\ runStatus' = [r \in RunIds |->
                       IF runStatus[r] \in LiveStatus THEN "abandoned" ELSE runStatus[r]]
    /\ marker' = [s \in Schedules |-> None]
    /\ UNCHANGED <<clock, config, runOf, scheduledAt, bound, lastRun>>

Tick == /\ clock < MaxTime
        /\ clock' = clock + 1
        /\ UNCHANGED <<config, marker, rows>>

-----------------------------------------------------------------------------
(* The store on its own: any caller may issue any call at any time, with any *)
(* arguments, including a finish_run repeated or issued for a finished run.   *)

ScheduleStep ==
    \E s \in Schedules :
        \/ \E a \in Apps, w \in Timings, m \in Misfires : Create(s, a, w, m)
        \/ \E e \in 1 .. MaxRevision, m \in Misfires : UpdateFields(s, e, m)
        \/ \E e \in 1 .. MaxRevision, w \in Timings : UpdateTiming(s, e, w)
        \/ Pause(s)
        \/ Resume(s)
        \/ \E final \in {"stopped", "completed"} : End(s, final)
        \/ \E force \in BOOLEAN : ClaimDue(s, force)

RunStep ==
    \E r \in RunIds :
        \/ BindTask(r)
        \/ \E final \in Finals : FinishRun(r, final)

AppStep == \E a \in Apps : PauseApp(a) \/ DeleteApp(a)

StoreNext == ScheduleStep \/ RunStep \/ AppStep \/ AbandonRunning \/ Tick

StoreSpec == StoreInit /\ [][StoreNext]_storeVars

-----------------------------------------------------------------------------
(* What the store guarantees *)

StoreTypeOK ==
    /\ clock \in Nat
    /\ status \in [Schedules -> {"none", "active", "paused", "stopped", "completed", "deleted"}]
    /\ app \in [Schedules -> Apps \cup {None}]
    /\ kind \in [Schedules -> {"once", "interval", "cron"}]
    /\ timing \in [Schedules -> Nat]
    /\ misfire \in [Schedules -> {"skip", "coalesce"}]
    /\ nextRun \in [Schedules -> Nat \cup {None}]
    /\ marker \in [Schedules -> Marker \cup {None}]
    /\ revision \in [Schedules -> Nat]
    /\ runStatus \in [RunIds -> LiveStatus \cup Terminal \cup {"none", "gone"}]
    /\ runOf \in [RunIds -> Schedules \cup {None}]
    /\ scheduledAt \in [RunIds -> Nat]
    /\ bound \in [RunIds -> BOOLEAN]
    /\ lastRun \in 0 .. MaxRuns

\* running_task_id names the schedule's one live run, and says whether that run
\* already has a task: claim_due, bind_task, finish_run, abandon_running and
\* delete_app keep the two tables in step.  A marker without a live run would
\* block the schedule for ever; a live run without a marker would let the next
\* occurrence overlap it.
MarkerNamesLiveRun ==
    \A s \in Schedules :
        /\ LiveRuns(s) = IF marker[s] = None THEN {} ELSE {marker[s].run}
        /\ marker[s] # None =>
              runStatus[marker[s].run] = IF marker[s].by = "claim" THEN "claimed" ELSE "running"

\* A schedule has a next occurrence exactly while it is active, whatever order
\* pause, resume, end, update, claim and pause_app come in.
ActiveIffNextRun ==
    \A s \in Schedules : status[s] = "active" <=> nextRun[s] # None

\* Whatever changes what an editor of the schedule reads also changes the
\* revision that editor must present to update().
RevisionCoversConfig ==
    [][\A s \in Schedules :
          Exists(s) /\ Exists(s)' /\ revision'[s] = revision[s]
            => /\ status'[s] = status[s]
               /\ kind'[s] = kind[s]
               /\ timing'[s] = timing[s]
               /\ misfire'[s] = misfire[s]
               /\ nextRun'[s] = nextRun[s]]_storeVars

\* A due occurrence is dispatched at most once, however late: the next_run_at
\* that its claim leaves behind, and the one that a resume computes, lie in the
\* future, so there is one catch-up run and no burst.  A forced claim (run_now)
\* is no occurrence and leaves next_run_at alone, overdue or not; an update may
\* store a timing that fell due since it was validated.
NextRunMovesAhead ==
    [][\A s \in Schedules :
          ClaimDue(s, FALSE) \/ Resume(s) =>
              nextRun'[s] = None \/ nextRun'[s] > clock]_storeVars

\* The assertion at the end of claim_due: the run it has just recorded is in the
\* table.
ClaimedRunRecorded ==
    [][lastRun' # lastRun => runStatus'[lastRun'] # "gone"]_storeVars
=============================================================================
