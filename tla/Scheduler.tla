----------------------------- MODULE Scheduler -----------------------------
(***************************************************************************)
(* The scheduler of one workspace (execution/scheduler.py) over its        *)
(* ScheduleStore: the dispatcher thread, the HTTP threads that call the    *)
(* schedule API (execution/schedule_handlers.py) or administer the token   *)
(* (auth/admin_handlers.py), one watcher thread per bound task, the tasks  *)
(* themselves, and restarts of the service.                                *)
(*                                                                         *)
(* A step of a thread is one store transaction, one read of the token      *)
(* registry, or one call of another component; between two steps of a      *)
(* thread every other thread may run.                                      *)
(***************************************************************************)
EXTENDS ScheduleStore

CONSTANTS
    Handlers,       \* HTTP request threads
    Dispatcher,     \* the "openkapsel-scheduler" thread
    MaxRestarts,    \* bound: restarts of the service
    MaxFaults       \* bound: calls of the stores and of the task registry that raise

ASSUME SchedulerAssumption ==
    /\ Dispatcher \notin Handlers
    /\ MaxRestarts \in Nat
    /\ MaxFaults \in Nat

Executors == Handlers \cup {Dispatcher}

VARIABLES
    pc,         \* where each thread stands; an exception has ended a "dead" one
    subject,    \* the app an HTTP thread acts for
    target,     \* the schedule the dispatcher popped from the heap
    claimed,    \* the run a thread is executing
    token,      \* the app's token record: "granted", "revoked" or "deleted"
    heap,       \* the heap's entry for this workspace, [when, sched] or None
    dirty,      \* SchedulerManager._dirty
    task,       \* the Shell task of each run: "none", "live", "killed", "done"
    context,    \* the Context operation of each run: "none", "running", "finished"
    watcher,    \* the watcher thread of each run
    mishaps,    \* history: the calls that raised for each run, and "restart" if
                \* a restart cut the thread that saw to it
    restarts,
    faults

threadVars == <<pc, subject, target, claimed, heap, dirty, watcher>>
worldVars == <<token, task, context, mishaps>>
vars == <<storeVars, threadVars, worldVars, restarts, faults>>

SchedulerInit ==
    /\ StoreInit
    /\ pc = [e \in Executors |-> IF e = Dispatcher THEN "wait" ELSE "idle"]
    /\ subject = [h \in Handlers |-> None]
    /\ target = None
    /\ claimed = [e \in Executors |-> None]
    /\ token = [a \in Apps |-> "granted"]
    /\ heap = None
    /\ dirty = TRUE
    /\ task = [r \in RunIds |-> "none"]
    /\ context = [r \in RunIds |-> "none"]
    /\ watcher = [r \in RunIds |-> "none"]
    /\ mishaps = [r \in RunIds |-> {}]
    /\ restarts = 0
    /\ faults = 0

Goto(e, l) == pc' = [pc EXCEPT ![e] = l]

Fault == faults < MaxFaults /\ faults' = faults + 1

Mishap(r, what) == mishaps' = [mishaps EXCEPT ![r] = @ \cup {what}]

-----------------------------------------------------------------------------
(* The dispatcher: _run and _rebuild_heap_locked *)

NextDue ==
    {x \in [when : {nextRun[s] : s \in Schedules} \ {None}, sched : Schedules] :
        /\ status[x.sched] = "active"
        /\ x.when = nextRun[x.sched]
        /\ \A s \in Schedules : status[s] = "active" /\ nextRun[s] # None => x.when <= nextRun[s]}

\* next_due is called outside any try block: when it raises, the dispatcher
\* thread is over.
RebuildHeap ==
    /\ pc[Dispatcher] = "wait"
    /\ dirty
    /\ \/ /\ heap' \in IF NextDue = {} THEN {None} ELSE NextDue
          /\ dirty' = FALSE
          /\ UNCHANGED <<pc, faults>>
       \/ Fault /\ Goto(Dispatcher, "dead") /\ UNCHANGED <<heap, dirty>>
    /\ UNCHANGED <<storeVars, subject, target, claimed, watcher, worldVars, restarts>>

PopDue ==
    /\ pc[Dispatcher] = "wait"
    /\ ~dirty
    /\ heap # None
    /\ heap.when <= clock
    /\ target' = heap.sched
    /\ heap' = None
    /\ Goto(Dispatcher, "claim")
    /\ UNCHANGED <<storeVars, subject, claimed, dirty, watcher, worldVars, restarts, faults>>

\* claim_due returns None for a schedule that is no longer due, or raises;
\* otherwise the claimed run goes on to _execute, and a skipped or missed one is
\* over.
DispatchClaim ==
    /\ pc[Dispatcher] = "claim"
    /\ \/ /\ (~Claimable(target, FALSE) /\ UNCHANGED faults) \/ Fault
          /\ Goto(Dispatcher, "notify")
          /\ UNCHANGED <<storeVars, claimed>>
       \/ /\ ClaimDue(target, FALSE)
          /\ IF Outcome(target, FALSE) = "claimed"
             THEN /\ Goto(Dispatcher, "check")
                  /\ claimed' = [claimed EXCEPT ![Dispatcher] = lastRun + 1]
             ELSE Goto(Dispatcher, "notify") /\ UNCHANGED claimed
          /\ UNCHANGED faults
    /\ target' = None
    /\ UNCHANGED <<subject, heap, dirty, watcher, worldVars, restarts>>

ChangedDropped(e) ==        \* Mutant: the notification is lost
    /\ pc[e] = "notify"
    /\ Goto(e, IF e = Dispatcher THEN "wait" ELSE "idle")
    /\ claimed' = [claimed EXCEPT ![e] = None]
    /\ UNCHANGED <<storeVars, subject, target, heap, dirty, watcher, worldVars, restarts, faults>>

\* changed(): in the dispatcher's finally clause, at the end of run_now and
\* after every schedule mutation of a handler.
Changed(e) ==
    /\ pc[e] = "notify"
    /\ dirty' = TRUE
    /\ Goto(e, IF e = Dispatcher THEN "wait" ELSE "idle")
    /\ claimed' = [claimed EXCEPT ![e] = None]
    /\ UNCHANGED <<storeVars, subject, target, heap, watcher, worldVars, restarts, faults>>

-----------------------------------------------------------------------------
(* _execute, by the dispatcher or by the HTTP thread in run_now *)

\* An exception: the dispatcher logs it and still calls changed(); run_now
\* passes it to its caller without calling changed().
Raise(e) ==
    /\ Goto(e, IF e = Dispatcher THEN "notify" ELSE "idle")
    /\ claimed' = [claimed EXCEPT ![e] = IF e = Dispatcher THEN @ ELSE None]

\* A store call for run r raises: its row is gone (KeyError, ScheduleError) or
\* SQLite fails.
StoreRaises(r) ==
    /\ (~RunExists(r) /\ UNCHANGED faults) \/ Fault
    /\ UNCHANGED storeVars

\* finish_run raises for run r.
FinishRaises(r) == StoreRaises(r) /\ Mishap(r, "finish_run")

CheckPermission(e) ==
    LET a == app[runOf[claimed[e]]] IN
    /\ pc[e] = "check"
    /\ Goto(e, CASE token[a] = "granted" -> "context"
                 [] token[a] = "revoked" -> "deny"
                 [] token[a] = "deleted" -> "deny_unknown")
    /\ UNCHANGED <<storeVars, subject, target, claimed, heap, dirty, watcher, worldVars,
                   restarts, faults>>

Deny(e) ==
    /\ pc[e] \in {"deny", "deny_unknown"}
    /\ \/ /\ FinishRun(claimed[e], "skipped_permission")
          /\ Goto(e, IF pc[e] = "deny" THEN "pause_app" ELSE "notify")
          /\ UNCHANGED <<claimed, faults, mishaps>>
       \/ FinishRaises(claimed[e]) /\ Raise(e)
    /\ UNCHANGED <<subject, target, heap, dirty, watcher, token, task, context, restarts>>

DenyPause(e) ==
    /\ pc[e] = "pause_app"
    /\ \/ /\ PauseApp(app[runOf[claimed[e]]])
          /\ Goto(e, "notify")
          /\ UNCHANGED <<claimed, faults>>
       \/ Fault /\ Raise(e) /\ UNCHANGED storeVars
    /\ UNCHANGED <<subject, target, heap, dirty, watcher, worldVars, restarts>>

\* Adding the Context operation fails when the plan is closed or the Context
\* store is unavailable.
AddContext(e) ==
    /\ pc[e] = "context"
    /\ \/ /\ context' = [context EXCEPT ![claimed[e]] = "running"]
          /\ Goto(e, "start")
       \/ UNCHANGED context /\ Goto(e, "no_context")
    /\ UNCHANGED <<storeVars, subject, target, claimed, heap, dirty, watcher, token, task,
                   mishaps, restarts, faults>>

FailContext(e) ==
    /\ pc[e] = "no_context"
    /\ \/ /\ FinishRun(claimed[e], "failed")
          /\ Goto(e, "notify")
          /\ UNCHANGED <<claimed, faults, mishaps>>
       \/ FinishRaises(claimed[e]) /\ Raise(e)
    /\ UNCHANGED <<subject, target, heap, dirty, watcher, token, task, context, restarts>>

StartTask(e) ==
    /\ pc[e] = "start"
    /\ \/ task' = [task EXCEPT ![claimed[e]] = "live"] /\ Goto(e, "bind")
       \/ UNCHANGED task /\ Goto(e, "no_task")
    /\ UNCHANGED <<storeVars, subject, target, claimed, heap, dirty, watcher, token, context,
                   mishaps, restarts, faults>>

FailStartForgetsContext(e) ==       \* Mutant
    /\ pc[e] = "no_task"
    /\ \E final \in Finals \cap {"failed", "skipped_capacity"} : FinishRun(claimed[e], final)
    /\ Goto(e, "notify")
    /\ UNCHANGED <<claimed, faults, subject, target, heap, dirty, watcher, worldVars, restarts>>

FailStart(e) ==
    /\ pc[e] = "no_task"
    /\ \/ /\ \E final \in Finals \cap {"failed", "skipped_capacity"} : FinishRun(claimed[e], final)
          /\ Goto(e, "close_context")
          /\ UNCHANGED <<claimed, faults, mishaps>>
       \/ FinishRaises(claimed[e]) /\ Raise(e)
    /\ UNCHANGED <<subject, target, heap, dirty, watcher, token, task, context, restarts>>

\* _finish_context: when finish_operation raises, that is logged and the
\* operation stays as it is.
FinishContext(r) ==
    \/ context' = [context EXCEPT ![r] = "finished"] /\ UNCHANGED <<faults, mishaps>>
    \/ Fault /\ Mishap(r, "finish_operation") /\ UNCHANGED context

CloseContext(e) ==
    /\ pc[e] = "close_context"
    /\ FinishContext(claimed[e])
    /\ Goto(e, "notify")
    /\ UNCHANGED <<storeVars, subject, target, claimed, heap, dirty, watcher, token, task,
                   restarts>>

BindWithoutKill(e) ==       \* Mutant: the task of a run that cannot be bound lives on
    /\ pc[e] = "bind"
    /\ \/ /\ BindTask(claimed[e])
          /\ watcher' = [watcher EXCEPT ![claimed[e]] = "waiting"]
          /\ Goto(e, "notify")
          /\ UNCHANGED faults
       \/ StoreRaises(claimed[e]) /\ Goto(e, "unbound") /\ UNCHANGED watcher
    /\ UNCHANGED <<subject, target, claimed, heap, dirty, worldVars, restarts>>

BindUnwatched(e) ==         \* Mutant: no watcher is started
    /\ pc[e] = "bind"
    /\ BindTask(claimed[e])
    /\ Goto(e, "notify")
    /\ UNCHANGED <<faults, watcher, subject, target, claimed, heap, dirty, worldVars, restarts>>

Bind(e) ==
    /\ pc[e] = "bind"
    /\ \/ /\ BindTask(claimed[e])
          /\ watcher' = [watcher EXCEPT ![claimed[e]] = "waiting"]
          /\ Goto(e, "notify")
          /\ UNCHANGED faults
       \/ StoreRaises(claimed[e]) /\ Goto(e, "kill") /\ UNCHANGED watcher
    /\ UNCHANGED <<subject, target, claimed, heap, dirty, worldVars, restarts>>

\* tasks.kill is not in a try block of its own: it raises when the task is over
\* and its archive cannot be read.
KillUnbound(e) ==
    /\ pc[e] = "kill"
    /\ \/ /\ task' = [task EXCEPT ![claimed[e]] = IF @ = "live" THEN "killed" ELSE @]
          /\ Goto(e, "unbound")
          /\ UNCHANGED <<claimed, faults, mishaps>>
       \/ /\ task[claimed[e]] = "done"
          /\ Fault /\ Mishap(claimed[e], "kill") /\ Raise(e)
          /\ UNCHANGED task
    /\ UNCHANGED <<storeVars, subject, target, heap, dirty, watcher, token, context, restarts>>

\* The failure of this finish_run is only logged.
FailBind(e) ==
    /\ pc[e] = "unbound"
    /\ \/ FinishRun(claimed[e], "failed") /\ UNCHANGED <<faults, mishaps>>
       \/ FinishRaises(claimed[e])
    /\ Goto(e, "close_context")
    /\ UNCHANGED <<subject, target, claimed, heap, dirty, watcher, token, task, context, restarts>>

Execute(e) ==
    \/ CheckPermission(e) \/ Deny(e) \/ DenyPause(e)
    \/ AddContext(e) \/ FailContext(e)
    \/ StartTask(e) \/ FailStart(e)
    \/ Bind(e) \/ KillUnbound(e) \/ FailBind(e)
    \/ CloseContext(e)

-----------------------------------------------------------------------------
(* Tasks and their watchers *)

TaskEnds(r) ==
    /\ task[r] \in {"live", "killed"}
    /\ task' = [task EXCEPT ![r] = "done"]
    /\ UNCHANGED <<storeVars, threadVars, token, context, mishaps, restarts, faults>>

\* _watch_task: finish_run and _finish_context share one try block, so when the
\* first raises the Context operation is left as it is.
WatchFinish(r) ==
    /\ watcher[r] = "waiting"
    /\ task[r] = "done"
    /\ \/ /\ \E final \in Finals \cap {"succeeded", "failed"} : FinishRun(r, final)
          /\ watcher' = [watcher EXCEPT ![r] = "close_context"]
          /\ UNCHANGED <<faults, mishaps>>
       \/ FinishRaises(r) /\ watcher' = [watcher EXCEPT ![r] = "notify"]
    /\ UNCHANGED <<pc, subject, target, claimed, heap, dirty, token, task, context, restarts>>

WatchContext(r) ==
    /\ watcher[r] = "close_context"
    /\ FinishContext(r)
    /\ watcher' = [watcher EXCEPT ![r] = "notify"]
    /\ UNCHANGED <<storeVars, pc, subject, target, claimed, heap, dirty, token, task, restarts>>

WatchChanged(r) ==
    /\ watcher[r] = "notify"
    /\ dirty' = TRUE
    /\ watcher' = [watcher EXCEPT ![r] = "none"]
    /\ UNCHANGED <<storeVars, pc, subject, target, claimed, heap, worldVars, restarts, faults>>

Watch(r) == WatchFinish(r) \/ WatchContext(r) \/ WatchChanged(r)

-----------------------------------------------------------------------------
(* HTTP threads: the schedule API *)

\* Authentication and the permission check precede the body, so the token may
\* have changed by the time the request reaches the store.
Authorize(h, a) ==
    /\ pc[h] = "idle"
    /\ token[a] = "granted"
    /\ subject' = [subject EXCEPT ![h] = a]
    /\ Goto(h, "request")
    /\ UNCHANGED <<storeVars, target, claimed, heap, dirty, watcher, worldVars, restarts, faults>>

Mutate(h) ==
    /\ pc[h] = "request"
    /\ \E s \in Schedules :
          \/ \E w \in Timings, m \in Misfires : Create(s, subject[h], w, m)
          \/ /\ app[s] = subject[h]
             /\ \/ \E m \in Misfires : UpdateFields(s, revision[s], m)
                \/ \E w \in Timings : UpdateTiming(s, revision[s], w)
                \/ Pause(s)
                \/ Resume(s)
                \/ \E final \in {"stopped", "completed"} : End(s, final)
    /\ Goto(h, "notify")
    /\ UNCHANGED <<subject, target, claimed, heap, dirty, watcher, worldVars, restarts, faults>>

\* run_now: claim with force, which always executes.
RunNow(h) ==
    /\ pc[h] = "request"
    /\ \E s \in Schedules : app[s] = subject[h] /\ ClaimDue(s, TRUE)
    /\ claimed' = [claimed EXCEPT ![h] = lastRun + 1]
    /\ Goto(h, "check")
    /\ UNCHANGED <<subject, target, heap, dirty, watcher, worldVars, restarts, faults>>

\* A read-only or refused request.
Refused(h) ==
    /\ pc[h] = "request"
    /\ Goto(h, "idle")
    /\ UNCHANGED <<storeVars, subject, target, claimed, heap, dirty, watcher, worldVars,
                   restarts, faults>>

-----------------------------------------------------------------------------
(* HTTP threads: administration of a token *)

\* tokens.update first, then pause_app in the workspace, then changed(); taking
\* only the Shell away pauses nothing.
Revoke(h, a) ==
    /\ pc[h] = "idle"
    /\ token[a] = "granted"
    /\ token' = [token EXCEPT ![a] = "revoked"]
    /\ subject' = [subject EXCEPT ![h] = a]
    /\ \E l \in {"revoke", "idle"} : Goto(h, l)
    /\ UNCHANGED <<storeVars, target, claimed, heap, dirty, watcher, task, context, mishaps,
                   restarts, faults>>

\* When pause_app raises, the request fails before changed() and the token stays
\* revoked.
RevokePause(h) ==
    /\ pc[h] = "revoke"
    /\ \/ PauseApp(subject[h]) /\ Goto(h, "notify") /\ UNCHANGED faults
       \/ Fault /\ Goto(h, "idle") /\ UNCHANGED storeVars
    /\ UNCHANGED <<subject, target, claimed, heap, dirty, watcher, worldVars, restarts>>

Restore(h, a) ==
    /\ pc[h] = "idle"
    /\ token[a] = "revoked"
    /\ token' = [token EXCEPT ![a] = "granted"]
    /\ UNCHANGED <<storeVars, threadVars, task, context, mishaps, restarts, faults>>

\* delete_app and changed() first, then tokens.delete.
Remove(h, a) ==
    /\ pc[h] = "idle"
    /\ token[a] # "deleted"
    /\ DeleteApp(a)
    /\ subject' = [subject EXCEPT ![h] = a]
    /\ Goto(h, "remove")
    /\ UNCHANGED <<target, claimed, heap, dirty, watcher, worldVars, restarts, faults>>

RemoveChanged(h) ==
    /\ pc[h] = "remove"
    /\ dirty' = TRUE
    /\ Goto(h, "forget")
    /\ UNCHANGED <<storeVars, subject, target, claimed, heap, watcher, worldVars, restarts, faults>>

RemoveToken(h) ==
    /\ pc[h] = "forget"
    /\ token' = [token EXCEPT ![subject[h]] = "deleted"]
    /\ Goto(h, "idle")
    /\ UNCHANGED <<storeVars, subject, target, claimed, heap, dirty, watcher, task, context,
                   mishaps, restarts, faults>>

-----------------------------------------------------------------------------
\* The service stops and starts again: threads and tasks end with it, the store
\* and the Context entries stay, and store_for() abandons the live runs before
\* the new dispatcher runs.
Restart ==
    /\ restarts < MaxRestarts
    /\ restarts' = restarts + 1
    /\ AbandonRunning
    /\ pc' = [e \in Executors |-> IF e = Dispatcher THEN "wait" ELSE "idle"]
    /\ subject' = [h \in Handlers |-> None]
    /\ target' = None
    /\ claimed' = [e \in Executors |-> None]
    /\ heap' = None
    /\ dirty' = TRUE
    /\ task' = [r \in RunIds |-> IF task[r] = "none" THEN "none" ELSE "done"]
    /\ watcher' = [r \in RunIds |-> "none"]
    /\ mishaps' = [r \in RunIds |->
          mishaps[r] \cup IF \E e \in Executors : claimed[e] = r THEN {"restart"}
                          ELSE IF watcher[r] # "none" THEN {"restart"} ELSE {}]
    /\ UNCHANGED <<token, context, faults>>

TimePasses == Tick /\ UNCHANGED <<threadVars, worldVars, restarts, faults>>

Dispatch == RebuildHeap \/ PopDue \/ DispatchClaim

Request(h) ==
    \/ \E a \in Apps : Authorize(h, a) \/ Revoke(h, a) \/ Restore(h, a) \/ Remove(h, a)
    \/ Mutate(h) \/ RunNow(h) \/ Refused(h)

Admin(h) == RevokePause(h) \/ RemoveChanged(h) \/ RemoveToken(h)

SchedulerNext ==
    \/ Dispatch
    \/ \E e \in Executors : Changed(e) \/ Execute(e)
    \/ \E h \in Handlers : Request(h) \/ Admin(h)
    \/ \E r \in RunIds : TaskEnds(r) \/ Watch(r)
    \/ Restart
    \/ TimePasses

SchedulerSpec == SchedulerInit /\ [][SchedulerNext]_vars

\* Threads that have work do it; commands end (every schedule has a timeout or
\* ends by itself).  Requests, restarts and the clock are not forced.
Fairness ==
    /\ WF_vars(Dispatch)
    /\ \A e \in Executors : WF_vars(Changed(e) \/ Execute(e))
    /\ \A h \in Handlers : WF_vars(Admin(h))
    /\ \A r \in RunIds : WF_vars(TaskEnds(r)) /\ WF_vars(Watch(r))

FairSchedulerSpec == SchedulerSpec /\ Fairness

-----------------------------------------------------------------------------
(* Properties *)

\* The overlap policy "skip": at most one command of a schedule runs at a time,
\* whichever of the dispatcher and the run_now requests started it, and however
\* the schedule was paused, edited, deleted or its service restarted meanwhile.
NoOverlap ==
    \A p, q \in RunIds :
        task[p] = "live" /\ task[q] = "live" /\ runOf[p] = runOf[q] => p = q

\* A running command is never orphaned: some watcher waits for it, or the thread
\* that started it is about to bind or to kill it.
TaskAttended ==
    \A r \in RunIds : task[r] = "live" =>
        \/ watcher[r] = "waiting"
        \/ \E e \in Executors : claimed[e] = r /\ pc[e] \in {"bind", "kill"}

\* No lost wakeup: when the dispatcher sleeps on a clean heap, the heap's entry
\* is the earliest occurrence in the store, or some thread is about to call
\* changed().
HeapFresh ==
    pc[Dispatcher] = "wait" /\ ~dirty =>
        \/ heap \in IF NextDue = {} THEN {None} ELSE NextDue
        \/ \E h \in Handlers : pc[h] \in {"notify", "remove"}

Exhausted(s) == lastRun = MaxRuns \/ \E x \in Schedules : revision[x] = MaxRevision

Due(s) == status[s] = "active" /\ nextRun[s] # None /\ nextRun[s] <= clock

\* A due occurrence is eventually claimed (or its schedule paused, ended, moved
\* or deleted), although calls of the store fail: the dispatcher never sleeps
\* through it.  The exception is a next_due that raised, which ends the
\* dispatcher until the service is restarted (_run, _rebuild_heap_locked).
DueIsDispatched ==
    \A s \in Schedules :
        Due(s) ~> ~Due(s) \/ Exhausted(s) \/ pc[Dispatcher] = "dead"

\* A claimed run reaches a terminal status, so its schedule is not blocked for
\* ever by its own marker, unless the finish_run that was to record its end, or
\* the kill before it, raised: nobody calls it again (_execute, _watch_task).
RunEnds ==
    \A r \in RunIds : runStatus[r] \in LiveStatus ~>
        runStatus[r] \notin LiveStatus \/ mishaps[r] \cap {"finish_run", "kill"} # {}

\* The Context operation of a run is closed, with four exceptions, after which
\* nothing closes it: finish_run raised (SQLite failed, or the schedule had been
\* deleted), finish_operation raised, the kill of a task that could not be bound
\* raised, or a restart cut the thread that was to close it (_execute,
\* _watch_task, _finish_context).
ContextCloses ==
    \A r \in RunIds : context[r] = "running" ~> context[r] = "finished" \/ mishaps[r] # {}
=============================================================================
