------------------------- MODULE ScheduleStoreProofs -------------------------
(***************************************************************************)
(* Proofs about ScheduleStore, for any number of schedules, apps and runs  *)
(* and any calls in any order.                                             *)
(***************************************************************************)
EXTENDS ScheduleStore, TLAPS

\* The two tables, row by row: the marker of a schedule points to a live run of
\* that schedule, and every live run is pointed to by its schedule's marker.
MarkerToRun ==
    \A s \in Schedules : marker[s] # None =>
        /\ runOf[marker[s].run] = s
        /\ runStatus[marker[s].run] = IF marker[s].by = "claim" THEN "claimed" ELSE "running"

RunToMarker ==
    \A r \in RunIds : runStatus[r] \in LiveStatus =>
        /\ runOf[r] \in Schedules
        /\ Exists(runOf[r])
        /\ marker[runOf[r]] = IF runStatus[r] = "claimed" THEN Claim(r) ELSE Task(r)

\* A task is recorded exactly by bind_task, and run ids are handed out in order.
RunRows ==
    \A r \in RunIds :
        /\ runStatus[r] = "claimed" => ~bound[r]
        /\ runStatus[r] = "running" => bound[r]
        /\ r > lastRun => runStatus[r] = "none" /\ ~bound[r] /\ runOf[r] = None

StoreInv ==
    /\ StoreTypeOK
    /\ MarkerToRun
    /\ RunToMarker
    /\ RunRows
    /\ ActiveIffNextRun

-----------------------------------------------------------------------------
(* Lemmas about the operators *)

\* validate_timing and _next_after_claim only produce instants.
LEMMA OccurrencesAreInstants ==
    ASSUME NEW k \in {"once", "interval", "cron"}, NEW w \in Nat, NEW t \in Nat
    PROVE  Occurrences(k, w, t) \subseteq Nat
BY StoreAssumption DEF Occurrences

\* A timing that passes validation has one of the three types, a number and a
\* next occurrence.
LEMMA TimingsAreTyped ==
    ASSUME clock \in Nat, NEW w \in Timings
    PROVE  w.kind \in {"once", "interval", "cron"} /\ w.when \in Nat /\ w.next \in Nat
<1>1. PICK t \in 0 .. clock : w \in Validated(t)
  BY DEF Timings
<1>2. PICK q \in Requested(t) :
         w \in {[kind |-> q.kind, when |-> q.when, next |-> n] : n \in Occurrences(q.kind, q.when, t)}
  BY <1>1 DEF Validated
<1>3. q.kind \in {"once", "interval", "cron"} /\ q.when \in Nat
  BY StoreAssumption DEF Requested
<1>4. PICK n \in Occurrences(q.kind, q.when, t) : w = [kind |-> q.kind, when |-> q.when, next |-> n]
  BY <1>2
<1>5. n \in Nat
  BY <1>3, <1>4, OccurrencesAreInstants
<1> QED BY <1>3, <1>4, <1>5

\* _prune_runs selects only finished runs of the one schedule, never the kept one.
LEMMA PrunedArePrunable ==
    ASSUME NEW rs, NEW of, NEW at, NEW s, NEW keep, NEW dead \in Pruned(rs, of, at, s, keep)
    PROVE  dead \subseteq Prunable(rs, of, s, keep)
BY DEF Pruned

-----------------------------------------------------------------------------
LEMMA InitInv == StoreInit => StoreInv
BY StoreAssumption, NoneAssumption
   DEF StoreInit, StoreInv, StoreTypeOK, MarkerToRun, RunToMarker, RunRows, ActiveIffNextRun,
       LiveStatus, Terminal, RunIds

\* Creating, editing, pausing, resuming and ending touch no run and no marker.
LEMMA ConfigSteps ==
    ASSUME StoreInv, NEW s \in Schedules,
           \/ \E a \in Apps, w \in Timings, m \in Misfires : Create(s, a, w, m)
           \/ \E e \in 1 .. MaxRevision, m \in Misfires : UpdateFields(s, e, m)
           \/ \E e \in 1 .. MaxRevision, w \in Timings : UpdateTiming(s, e, w)
           \/ Pause(s)
           \/ Resume(s)
           \/ \E final \in {"stopped", "completed"} : End(s, final)
    PROVE  StoreInv'
<1> USE StoreAssumption, NoneAssumption DEF StoreInv
<1>1. /\ UNCHANGED <<clock, marker, runStatus, runOf, scheduledAt, bound, lastRun>>
      /\ revision' \in [Schedules -> Nat]
      /\ \A x \in Schedules : Exists(x) => Exists(x)'
  BY DEF StoreTypeOK, Create, UpdateFields, UpdateTiming, Pause, Resume, Resumable, End,
         Bump, rows, Exists
<1>2. StoreTypeOK' /\ ActiveIffNextRun'
  <2>1. ASSUME NEW a \in Apps, NEW w \in Timings, NEW m \in Misfires, Create(s, a, w, m)
        PROVE  StoreTypeOK' /\ ActiveIffNextRun'
    <3>1. w.kind \in {"once", "interval", "cron"} /\ w.when \in Nat /\ w.next \in Nat
      BY TimingsAreTyped DEF StoreTypeOK
    <3> QED BY <1>1, <2>1, <3>1 DEF StoreTypeOK, ActiveIffNextRun, Create
  <2>2. ASSUME NEW e \in 1 .. MaxRevision, NEW m \in Misfires, UpdateFields(s, e, m)
        PROVE  StoreTypeOK' /\ ActiveIffNextRun'
    BY <1>1, <2>2 DEF StoreTypeOK, ActiveIffNextRun, UpdateFields
  <2>3. ASSUME NEW e \in 1 .. MaxRevision, NEW w \in Timings, UpdateTiming(s, e, w)
        PROVE  StoreTypeOK' /\ ActiveIffNextRun'
    <3>1. w.kind \in {"once", "interval", "cron"} /\ w.when \in Nat /\ w.next \in Nat
      BY TimingsAreTyped DEF StoreTypeOK
    <3> QED BY <1>1, <2>3, <3>1 DEF StoreTypeOK, ActiveIffNextRun, UpdateTiming, Rescheduled
  <2>4. CASE Pause(s)
    BY <1>1, <2>4 DEF StoreTypeOK, ActiveIffNextRun, Pause
  <2>5. CASE Resume(s)
    <3>1. PICK n \in Occurrences(kind[s], timing[s], clock) : nextRun' = [nextRun EXCEPT ![s] = n]
      BY <2>5 DEF Resume
    <3>2. n \in Nat
      BY <3>1, OccurrencesAreInstants DEF StoreTypeOK
    <3> QED BY <1>1, <2>5, <3>1, <3>2 DEF StoreTypeOK, ActiveIffNextRun, Resume, Resumable
  <2>6. ASSUME NEW final \in {"stopped", "completed"}, End(s, final)
        PROVE  StoreTypeOK' /\ ActiveIffNextRun'
    BY <1>1, <2>6 DEF StoreTypeOK, ActiveIffNextRun, End
  <2> QED BY <2>1, <2>2, <2>3, <2>4, <2>5, <2>6
<1>3. MarkerToRun' /\ RunRows'
  BY <1>1 DEF MarkerToRun, RunRows
<1>4. RunToMarker'
  BY <1>1 DEF RunToMarker
<1> QED BY <1>2, <1>3, <1>4

\* pause_app and delete_app.
LEMMA AppSteps ==
    ASSUME StoreInv, NEW a \in Apps, PauseApp(a) \/ DeleteApp(a)
    PROVE  StoreInv'
<1> USE StoreAssumption, NoneAssumption DEF StoreInv
<1>1. CASE PauseApp(a)
  <2>1. StoreTypeOK' /\ ActiveIffNextRun'
    BY <1>1 DEF StoreTypeOK, ActiveIffNextRun, PauseApp, rows
  <2>2. MarkerToRun' /\ RunRows'
    BY <1>1 DEF MarkerToRun, RunRows, PauseApp, rows
  <2>3. RunToMarker'
    BY <1>1 DEF RunToMarker, PauseApp, rows, Exists
  <2> QED BY <2>1, <2>2, <2>3
<1>2. CASE DeleteApp(a)
  <2>1. StoreTypeOK' /\ ActiveIffNextRun'
    BY <1>2 DEF StoreTypeOK, ActiveIffNextRun, DeleteApp, Exists
  <2>2. RunRows'
    BY <1>2 DEF RunRows, StoreTypeOK, DeleteApp
  <2>3. MarkerToRun'
    BY <1>2 DEF MarkerToRun, StoreTypeOK, DeleteApp, Marker
  <2>4. RunToMarker'
    BY <1>2 DEF RunToMarker, StoreTypeOK, DeleteApp, Exists, LiveStatus
  <2> QED BY <2>1, <2>2, <2>3, <2>4
<1> QED BY <1>1, <1>2

\* claim_due records the next run id and, when it is to be executed, marks the
\* schedule with it; it prunes finished runs only.
LEMMA ClaimStep ==
    ASSUME StoreInv, NEW s \in Schedules, NEW force \in BOOLEAN, ClaimDue(s, force)
    PROVE  StoreInv'
<1> USE StoreAssumption, NoneAssumption DEF StoreInv
<1> DEFINE r == lastRun + 1
           of == [runOf EXCEPT ![r] = s]
           at == [scheduledAt EXCEPT ![r] = IF force THEN clock ELSE nextRun[s]]
           o == Outcome(s, force)
           rs == [runStatus EXCEPT ![r] = o]
<1>1. /\ r \in RunIds
      /\ runStatus[r] = "none" /\ ~bound[r]
      /\ o \in {"skipped_overlap", "missed", "claimed"}
      /\ o = "claimed" <=> o \notin Terminal
      /\ o = "claimed" => marker[s] = None
      /\ status[s] \in {"active", "paused"}
      /\ ~force => nextRun[s] \in Nat
  <2>1. r \in RunIds /\ r > lastRun
    BY DEF ClaimDue, StoreTypeOK, RunIds
  <2>2. runStatus[r] = "none" /\ ~bound[r]
    BY <2>1 DEF RunRows
  <2>3. /\ o \in {"skipped_overlap", "missed", "claimed"}
        /\ o = "claimed" <=> o \notin Terminal
        /\ o = "claimed" => marker[s] = None
    BY DEF Outcome, Terminal
  <2>4. status[s] \in {"active", "paused"} /\ (~force => nextRun[s] \in Nat)
    BY DEF ClaimDue, Claimable, StoreTypeOK
  <2> QED BY <2>1, <2>2, <2>3, <2>4
<1>2. PICK dead \in Pruned(rs, of, at, s, None) : runStatus' = Forget(rs, dead)
  BY DEF ClaimDue
<1>3. dead \subseteq Prunable(rs, of, s, None)
  BY <1>2, PrunedArePrunable
<1>4. /\ dead \subseteq RunIds
      /\ \A x \in dead : rs[x] \in Terminal
      /\ \A x \in RunIds : runStatus'[x] = IF x \in dead THEN "gone" ELSE rs[x]
  BY <1>2, <1>3 DEF Prunable, Forget
<1>5. /\ runOf' = of /\ scheduledAt' = at /\ lastRun' = r
      /\ UNCHANGED <<clock, app, kind, timing, misfire, bound>>
      /\ marker' = [marker EXCEPT ![s] = IF o = "claimed" THEN Claim(r) ELSE @]
      /\ status' = [status EXCEPT ![s] = IF ~force /\ kind[s] = "once" THEN "completed" ELSE @]
  BY DEF ClaimDue
<1>6. PICK n \in IF force THEN {nextRun[s]} ELSE NextAfterClaim(s) :
         nextRun' = [nextRun EXCEPT ![s] = n]
  BY DEF ClaimDue
<1>7. /\ n \in Nat \cup {None}
      /\ ~force => (n = None <=> kind[s] = "once")
      /\ force => n = nextRun[s]
  <2>1. CASE force
    BY <1>6, <2>1 DEF StoreTypeOK
  <2>2. CASE ~force /\ kind[s] = "once"
    BY <1>6, <2>2 DEF NextAfterClaim
  <2>3. CASE ~force /\ kind[s] # "once"
    <3>1. n \in Occurrences(kind[s], timing[s], clock)
      BY <1>6, <2>3 DEF NextAfterClaim
    <3>2. n \in Nat
      BY <3>1, OccurrencesAreInstants DEF StoreTypeOK
    <3> QED BY <2>3, <3>2
  <2> QED BY <2>1, <2>2, <2>3
<1>8. runStatus' = [x \in RunIds |-> IF x \in dead THEN "gone" ELSE rs[x]]
  BY <1>2 DEF Forget
<1>9. StoreTypeOK'
  <2>1. runStatus' \in [RunIds -> LiveStatus \cup Terminal \cup {"none", "gone"}]
    BY <1>1, <1>8 DEF StoreTypeOK, LiveStatus, Terminal
  <2>2. marker' \in [Schedules -> Marker \cup {None}]
    BY <1>1, <1>5 DEF StoreTypeOK, Marker, Claim
  <2>3. runOf' \in [RunIds -> Schedules \cup {None}] /\ scheduledAt' \in [RunIds -> Nat]
    BY <1>1, <1>5 DEF StoreTypeOK
  <2>4. lastRun' \in 0 .. MaxRuns /\ revision' \in [Schedules -> Nat]
    BY <1>1, <1>5 DEF StoreTypeOK, ClaimDue, Bump, RunIds
  <2> QED BY <1>5, <1>6, <1>7, <2>1, <2>2, <2>3, <2>4 DEF StoreTypeOK
<1>10. ActiveIffNextRun'
  BY <1>1, <1>5, <1>6, <1>7 DEF ActiveIffNextRun, StoreTypeOK, ClaimDue, Claimable
<1>11. \A x \in RunIds : /\ x # r => rs[x] = runStatus[x] /\ of[x] = runOf[x]
                         /\ rs[r] = o /\ of[r] = s
  BY <1>1 DEF StoreTypeOK
<1>12. MarkerToRun'
  <2> SUFFICES ASSUME NEW x \in Schedules, marker'[x] # None
               PROVE  /\ runOf'[marker'[x].run] = x
                      /\ runStatus'[marker'[x].run] =
                           IF marker'[x].by = "claim" THEN "claimed" ELSE "running"
    BY DEF MarkerToRun
  <2>1. CASE x = s /\ o = "claimed"
    <3>1. marker'[x] = Claim(r)
      BY <1>5, <2>1 DEF StoreTypeOK
    <3>2. r \notin dead
      BY <1>1, <1>4, <1>11, <2>1
    <3> QED BY <1>1, <1>4, <1>5, <1>11, <2>1, <3>1, <3>2 DEF Claim
  <2>2. CASE ~(x = s /\ o = "claimed")
    <3>1. marker'[x] = marker[x]
      BY <1>5, <2>2 DEF StoreTypeOK
    <3>2. marker[x].run \in RunIds /\ runStatus[marker[x].run] \in {"claimed", "running"}
      BY <3>1 DEF MarkerToRun, StoreTypeOK, Marker
    <3>3. marker[x].run # r /\ marker[x].run \notin dead
      <4>1. marker[x].run # r
        BY <1>1, <3>2
      <4>2. rs[marker[x].run] \notin Terminal
        BY <1>11, <3>2, <4>1 DEF Terminal
      <4> QED BY <1>4, <4>1, <4>2
    <3> QED BY <1>4, <1>5, <1>11, <3>1, <3>2, <3>3 DEF MarkerToRun
  <2> QED BY <2>1, <2>2
<1>13. RunToMarker'
  <2> SUFFICES ASSUME NEW x \in RunIds, runStatus'[x] \in LiveStatus
               PROVE  /\ runOf'[x] \in Schedules
                      /\ Exists(runOf[x])'
                      /\ marker'[runOf'[x]] = IF runStatus'[x] = "claimed" THEN Claim(x) ELSE Task(x)
    BY DEF RunToMarker
  <2>1. x \notin dead /\ runStatus'[x] = rs[x]
    BY <1>4 DEF LiveStatus
  <2>2. \A y \in Schedules : Exists(y) => Exists(y)'
    BY <1>5 DEF StoreTypeOK, Exists
  <2>3. CASE x = r
    <3>1. o = "claimed" /\ runOf'[x] = s /\ runStatus'[x] = "claimed"
      BY <1>1, <1>5, <1>11, <2>1, <2>3 DEF LiveStatus
    <3>2. Exists(s)' /\ marker'[s] = Claim(r)
      BY <1>1, <1>5, <2>2, <3>1 DEF StoreTypeOK, Exists
    <3> QED BY <2>3, <3>1, <3>2
  <2>4. CASE x # r
    <3>1. runStatus[x] \in LiveStatus /\ runOf'[x] = runOf[x] /\ rs[x] = runStatus[x]
      BY <1>5, <1>11, <2>1, <2>4
    <3>2. runOf[x] \in Schedules /\ Exists(runOf[x]) /\ marker[runOf[x]] # None
      <4>1. Claim(x) \in Marker /\ Task(x) \in Marker
        BY DEF Claim, Task, Marker
      <4> QED BY <3>1, <4>1 DEF RunToMarker
    <3>3. marker'[runOf[x]] = marker[runOf[x]]
      BY <1>1, <1>5, <3>2 DEF StoreTypeOK
    <3> QED BY <2>1, <2>2, <3>1, <3>2, <3>3 DEF RunToMarker
  <2> QED BY <2>3, <2>4
<1>14. RunRows'
  <2> SUFFICES ASSUME NEW x \in RunIds
               PROVE  /\ runStatus'[x] = "claimed" => ~bound'[x]
                      /\ runStatus'[x] = "running" => bound'[x]
                      /\ x > lastRun' => runStatus'[x] = "none" /\ ~bound'[x] /\ runOf'[x] = None
    BY DEF RunRows
  <2>1. CASE x = r
    BY <1>1, <1>4, <1>5, <1>11, <2>1 DEF StoreTypeOK
  <2>2. CASE x # r
    <3>1. /\ runOf'[x] = runOf[x] /\ bound'[x] = bound[x]
          /\ runStatus'[x] = runStatus[x] \/ (runStatus[x] \in Terminal /\ runStatus'[x] = "gone")
      BY <1>4, <1>5, <1>11, <2>2
    <3>2. x > lastRun' => x > lastRun
      BY <1>5 DEF StoreTypeOK, RunIds
    <3> QED BY <3>1, <3>2 DEF RunRows, Terminal
  <2> QED BY <2>1, <2>2
<1> QED BY <1>9, <1>10, <1>12, <1>13, <1>14

\* bind_task moves the claimed run to running and its marker from claim to task.
LEMMA BindStep ==
    ASSUME StoreInv, NEW r \in RunIds, BindTask(r)
    PROVE  StoreInv'
<1> USE StoreAssumption, NoneAssumption DEF StoreInv
<1>1. /\ runStatus[r] = "claimed"
      /\ runOf[r] \in Schedules /\ Exists(runOf[r]) /\ marker[runOf[r]] = Claim(r)
      /\ r <= lastRun
  BY DEF BindTask, RunToMarker, LiveStatus, RunRows, StoreTypeOK, RunIds
<1>2. Claim(r) \in Marker /\ Task(r) \in Marker
  BY DEF Claim, Task, Marker
<1>3. marker' = [marker EXCEPT ![runOf[r]] = Task(r)]
  BY <1>1 DEF BindTask, StoreTypeOK
<1>4. StoreTypeOK' /\ ActiveIffNextRun'
  BY <1>2, <1>3 DEF BindTask, StoreTypeOK, ActiveIffNextRun, config, LiveStatus
<1>5. MarkerToRun'
  <2> SUFFICES ASSUME NEW x \in Schedules, marker'[x] # None
               PROVE  /\ runOf'[marker'[x].run] = x
                      /\ runStatus'[marker'[x].run] =
                           IF marker'[x].by = "claim" THEN "claimed" ELSE "running"
    BY DEF MarkerToRun
  <2>1. CASE x = runOf[r]
    <3>1. marker'[x] = Task(r)
      BY <1>1, <1>3, <2>1 DEF StoreTypeOK
    <3> QED BY <2>1, <3>1 DEF BindTask, StoreTypeOK, Task
  <2>2. CASE x # runOf[r]
    <3>1. marker'[x] = marker[x] /\ marker[x].run # r
      BY <1>3, <2>2 DEF StoreTypeOK, MarkerToRun
    <3>2. marker[x].run \in RunIds
      BY <3>1 DEF StoreTypeOK, Marker
    <3>3. runStatus'[marker[x].run] = runStatus[marker[x].run] /\ runOf' = runOf
      BY <3>1, <3>2 DEF BindTask, StoreTypeOK
    <3> QED BY <3>1, <3>3 DEF MarkerToRun
  <2> QED BY <2>1, <2>2
<1>6. RunToMarker'
  <2> SUFFICES ASSUME NEW x \in RunIds, runStatus'[x] \in LiveStatus
               PROVE  /\ runOf'[x] \in Schedules
                      /\ Exists(runOf[x])'
                      /\ marker'[runOf'[x]] = IF runStatus'[x] = "claimed" THEN Claim(x) ELSE Task(x)
    BY DEF RunToMarker
  <2>1. UNCHANGED <<status, runOf>>
    BY DEF BindTask, config
  <2>2. CASE x = r
    BY <1>1, <1>3, <2>1, <2>2 DEF BindTask, StoreTypeOK, Exists
  <2>3. CASE x # r
    <3>1. runStatus'[x] = runStatus[x]
      BY <2>3 DEF BindTask, StoreTypeOK
    <3>2. runOf[x] # runOf[r]
      <4>1. marker[runOf[x]] \in {Claim(x), Task(x)}
        BY <3>1 DEF RunToMarker
      <4>2. Claim(x) # Claim(r) /\ Task(x) # Claim(r)
        BY <2>3 DEF Claim, Task
      <4> QED BY <1>1, <4>1, <4>2
    <3> QED BY <1>3, <2>1, <3>1, <3>2 DEF RunToMarker, StoreTypeOK, Exists
  <2> QED BY <2>2, <2>3
<1>7. RunRows'
  BY <1>1 DEF BindTask, RunRows, StoreTypeOK, RunIds
<1> QED BY <1>4, <1>5, <1>6, <1>7

\* finish_run clears the marker only when it is the finishing run's own.
LEMMA FinishStep ==
    ASSUME StoreInv, NEW r \in RunIds, NEW final \in Finals, FinishRun(r, final)
    PROVE  StoreInv'
<1> USE StoreAssumption, NoneAssumption DEF StoreInv
<1> DEFINE rs == [runStatus EXCEPT ![r] = final]
           mine == IF bound[r] THEN Task(r) ELSE Claim(r)
<1>1. /\ final \in Terminal
      /\ UNCHANGED <<clock, config, runOf, scheduledAt, bound, lastRun>>
      /\ runStatus[r] \in LiveStatus \cup Terminal
      /\ marker' = [s \in Schedules |->
                      IF s = runOf[r] /\ marker[s] = mine THEN None ELSE marker[s]]
  BY FinalsAssumption DEF FinishRun, RunExists, Released
<1>2. PICK dead \in Pruned(rs, runOf, scheduledAt, runOf[r], r) : runStatus' = Forget(rs, dead)
  BY DEF FinishRun
<1>3. dead \subseteq Prunable(rs, runOf, runOf[r], r)
  BY <1>2, PrunedArePrunable
<1>4. /\ runStatus' = [x \in RunIds |-> IF x \in dead THEN "gone" ELSE rs[x]]
      /\ \A x \in dead : x \in RunIds /\ x # r /\ rs[x] \in Terminal
  BY <1>2, <1>3 DEF Forget, Prunable
<1>5. /\ runStatus'[r] = final
      /\ \A x \in RunIds \ {r} :
            \/ runStatus'[x] = runStatus[x]
            \/ runStatus[x] \in Terminal /\ runStatus'[x] = "gone"
  BY <1>4 DEF StoreTypeOK
<1>6. StoreTypeOK' /\ ActiveIffNextRun'
  <2>1. runStatus' \in [RunIds -> LiveStatus \cup Terminal \cup {"none", "gone"}]
    BY <1>1, <1>4 DEF StoreTypeOK
  <2>2. marker' \in [Schedules -> Marker \cup {None}]
    BY <1>1 DEF StoreTypeOK
  <2> QED BY <1>1, <2>1, <2>2 DEF StoreTypeOK, ActiveIffNextRun, config
<1>7. MarkerToRun'
  <2> SUFFICES ASSUME NEW x \in Schedules, marker'[x] # None
               PROVE  /\ runOf'[marker'[x].run] = x
                      /\ runStatus'[marker'[x].run] =
                           IF marker'[x].by = "claim" THEN "claimed" ELSE "running"
    BY DEF MarkerToRun
  <2>1. marker'[x] = marker[x] /\ ~(x = runOf[r] /\ marker[x] = mine)
    BY <1>1
  <2>2. /\ marker[x] \in Marker /\ runOf[marker[x].run] = x
        /\ runStatus[marker[x].run] = IF marker[x].by = "claim" THEN "claimed" ELSE "running"
    BY <2>1 DEF MarkerToRun, StoreTypeOK
  <2>3. marker[x].run # r
    <3> SUFFICES ASSUME marker[x].run = r PROVE FALSE
      OBVIOUS
    <3>1. runStatus[r] \in LiveStatus /\ x = runOf[r]
      BY <2>2 DEF LiveStatus
    <3>2. marker[x] = IF runStatus[r] = "claimed" THEN Claim(r) ELSE Task(r)
      BY <3>1 DEF RunToMarker
    <3> QED BY <2>1, <3>1, <3>2 DEF RunRows, LiveStatus
  <2> QED BY <1>1, <1>5, <2>1, <2>2, <2>3 DEF Marker, Terminal
<1>8. RunToMarker'
  <2> SUFFICES ASSUME NEW x \in RunIds, runStatus'[x] \in LiveStatus
               PROVE  /\ runOf'[x] \in Schedules
                      /\ Exists(runOf[x])'
                      /\ marker'[runOf'[x]] = IF runStatus'[x] = "claimed" THEN Claim(x) ELSE Task(x)
    BY DEF RunToMarker
  <2>1. x # r /\ runStatus'[x] = runStatus[x]
    BY <1>1, <1>5 DEF LiveStatus, Terminal
  <2>2. /\ runOf[x] \in Schedules /\ Exists(runOf[x])
        /\ marker[runOf[x]] = IF runStatus[x] = "claimed" THEN Claim(x) ELSE Task(x)
    BY <2>1 DEF RunToMarker
  <2>3. marker[runOf[x]] # mine
    BY <2>1, <2>2 DEF Claim, Task
  <2>4. marker'[runOf[x]] = marker[runOf[x]]
    BY <1>1, <2>2, <2>3
  <2> QED BY <1>1, <2>1, <2>2, <2>4 DEF config, Exists
<1>9. RunRows'
  <2> SUFFICES ASSUME NEW x \in RunIds
               PROVE  /\ runStatus'[x] = "claimed" => ~bound'[x]
                      /\ runStatus'[x] = "running" => bound'[x]
                      /\ x > lastRun' => runStatus'[x] = "none" /\ ~bound'[x] /\ runOf'[x] = None
    BY DEF RunRows
  <2>1. CASE x = r
    BY <1>1, <1>5, <2>1 DEF RunRows, LiveStatus, Terminal
  <2>2. CASE x # r
    BY <1>1, <1>5, <2>2 DEF RunRows, Terminal
  <2> QED BY <2>1, <2>2
<1> QED BY <1>6, <1>7, <1>8, <1>9

\* abandon_running clears every marker and finishes every live run.
LEMMA AbandonStep == StoreInv /\ AbandonRunning => StoreInv'
BY StoreAssumption, NoneAssumption
   DEF StoreInv, AbandonRunning, StoreTypeOK, MarkerToRun, RunToMarker, RunRows,
       ActiveIffNextRun, config, LiveStatus, Terminal

LEMMA QuietStep == StoreInv /\ (Tick \/ UNCHANGED storeVars) => StoreInv'
BY StoreAssumption, NoneAssumption
   DEF StoreInv, Tick, storeVars, StoreTypeOK, MarkerToRun, RunToMarker, RunRows,
       ActiveIffNextRun, config, rows, Exists

LEMMA NextInv == StoreInv /\ [StoreNext]_storeVars => StoreInv'
BY ConfigSteps, AppSteps, ClaimStep, BindStep, FinishStep, AbandonStep, QuietStep
   DEF StoreNext, ScheduleStep, RunStep, AppStep

\* The inductive invariant holds throughout.
THEOREM StoreInvariance == StoreSpec => []StoreInv
BY InitInv, NextInv, PTL DEF StoreSpec

-----------------------------------------------------------------------------
(* What follows from it *)

\* Every column keeps its type under all calls in any order.
THEOREM StoreTypeCorrect == StoreSpec => []StoreTypeOK
BY StoreInvariance, PTL DEF StoreInv

\* running_task_id names exactly the schedule's live run.
THEOREM MarkerCorrect == StoreSpec => []MarkerNamesLiveRun
<1>1. StoreInv => MarkerNamesLiveRun
  <2> SUFFICES ASSUME StoreInv, NEW s \in Schedules
               PROVE  /\ LiveRuns(s) = IF marker[s] = None THEN {} ELSE {marker[s].run}
                      /\ marker[s] # None =>
                            runStatus[marker[s].run] =
                              IF marker[s].by = "claim" THEN "claimed" ELSE "running"
    BY DEF MarkerNamesLiveRun
  <2> USE NoneAssumption DEF StoreInv
  <2>1. \A r \in LiveRuns(s) : marker[s] # None /\ marker[s].run = r
    <3> SUFFICES ASSUME NEW r \in LiveRuns(s) PROVE marker[s] # None /\ marker[s].run = r
      OBVIOUS
    <3>1. r \in RunIds /\ marker[s] \in {Claim(r), Task(r)}
      BY DEF LiveRuns, RunToMarker
    <3>2. Claim(r) \in Marker /\ Task(r) \in Marker /\ Claim(r).run = r /\ Task(r).run = r
      BY <3>1 DEF Claim, Task, Marker
    <3> QED BY <3>1, <3>2
  <2>2. ASSUME marker[s] # None PROVE marker[s].run \in LiveRuns(s)
    <3>1. marker[s].run \in RunIds
      BY <2>2 DEF StoreTypeOK, Marker
    <3> QED BY <2>2, <3>1 DEF MarkerToRun, LiveRuns, LiveStatus
  <2> QED BY <2>1, <2>2 DEF MarkerToRun
<1> QED BY <1>1, StoreInvariance, PTL

\* A schedule has a next occurrence exactly while it is active.
THEOREM NextRunCorrect == StoreSpec => []ActiveIffNextRun
BY StoreInvariance, PTL DEF StoreInv
=============================================================================
