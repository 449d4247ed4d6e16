# OpenKapsel: models, checks and proofs

This directory holds TLA+ models of OpenKapsel (`src/openkapsel`), the TLC
configurations that check them on small instances, and TLAPS proofs about them.
`PROJECT.json` maps every definition to the lines it models, lists the parts of
the system with what is modelled of each, and lists the hazards with the
properties that cover them.

## The system

OpenKapsel is an HTTP server that gives callers with a workspace token access to
files, Shell commands, schedules, a context log and plugins, and a Client program
that connects to it by WebSocket to offer a directory ("mapping") of another
machine. The parts, and where their state lives:

| Part | Source | State | Modelled by |
|---|---|---|---|
| Schedules | `execution/scheduler_store.py` | SQLite per workspace | `ScheduleStore`, `ScheduleLifecycle` |
| Scheduler | `execution/scheduler.py`, `schedule_handlers.py` | one dispatcher thread, watchers | `Scheduler` |
| Shell tasks | `execution/tasks.py`, `task_history.py`, `mapping/mapping_process.py` | registry under a lock, one thread per task, archive files | `TaskRegistry` |
| Job Manager | `job_manager.py` | a daemon per OS user, SQLite, spool files | `JobManager`, `JobSpool` |
| File mutation | `files/mutation.py`, `safe_paths.py` | the file system only | `Mutation` |
| Uploads | `files/uploads.py`, `file_handlers.py`, `mapping/mapping_uploads.py` | memory, metadata and part files | `Uploads` |
| Mapping sessions | `mapping/mapping_manager.py`, `mapping_transport.py`, `client.py`, `client_runtime/client_rpc.py` | sessions on both sides, approvals | `MappingSession` |
| Mapping mounts, transfers, recycle bin, API workers, context, memory, tokens, OAuth, grants, Client files, Storage Providers, workspace images, filename index, git, plugins, HTTP, pages | see `PROJECT.json` | | not yet, see "Plan" |

The parts interact as follows. The scheduler claims an occurrence in the store,
starts a Shell task and leaves a watcher with it. A Shell task may hold a lease on
the mount of a mapping. Long commands of a Client run in the Job Manager, whose
output is read through the mapping. File requests and uploads go to local
directories, to Storage Provider mounts or to a mapping.

## Modules

A step of a model is one database transaction, one critical section, one system
call or one message; a thread may be interrupted between any two of them. A
request that the code refuses changes nothing and is a stuttering step unless
something else depends on it.

* **ScheduleStore**: the two tables column by column; one action per public
  method, because each is one `BEGIN IMMEDIATE` transaction. Time is a counter,
  and a cron expression is a set of possible next instants.
* **ScheduleLifecycle** is what a schedule promises its owner: it is opened once,
  has at most one live run at a time, each run is a new one, and none starts after
  it is completed or deleted. **ScheduleRefinement** maps the store onto it.
* **Scheduler** adds the threads: the dispatcher with its heap and dirty flag,
  `run_now`, the watchers, the HTTP requests that edit schedules or revoke
  tokens, failing calls, and a restart. The history variable `mishaps` records
  which failures a run has met, for the exceptions of the liveness properties.
* **TaskRegistry**: `start`, `get`, `interrupt`, `kill`, `write_stdin` and `close`
  against the thread of each task, with the process group as the set of its living
  members, the archive, its retention, and the mount lease. The thread dies where
  the code lets an exception escape: the close of a stdin with unflushed data, and
  a lease whose release raises.
* **JobManager**: Clients that launch, upgrade, use and stop daemons; the lock
  file; rows; collectors; crashes; a start that fails before or after its row is
  written. **JobSpool**: the output and input of one job,
  byte by byte, with trimming, pages, lost answers and a crash between a file and
  its row.
* **Mutation**: prepare, revalidate, back up, publish, recycle, roll back and
  clean up of concurrent requests of several items, beside another program that
  writes to the same paths, failing calls (a partial staging write, a rename that
  takes effect and still raises, an unlink that ends the cleanup) and a death of
  the process. A version of a file is a number; paths are model values.
* **Uploads**: create, append, status, cancel, commit, expiry and reload, and the
  publication on the three kinds of destination. `acked` is the highest offset a
  caller was told, by an append, a status or a refusal; `unsaved` and `orphans`
  record the uploads whose save failed and the part files that no record owns.
* **MappingSession**: connections of one mapping on both sides, calls with their
  one retry, the full approval, the administrator's disconnect and update, and the
  disconnect by a call that finds the workspace unavailable.
* **ScheduleStoreProofs**: theorems about `ScheduleStore`.

Modules that begin with `MC` give TLC its instances. Where one question needs
several shapes of instance, the module has a variable `scenario`, chosen in the
initial state and never changed, and a filter on steps for each value: the steps
themselves are those of the component.

## Runs

Sizes are distinct states.

| Run | Shows | Instance |
|---|---|---|
| `store` (0.4 M) | The marker names the one live run; active means a next run; no configuration change escapes the revision; the next run that a claim or a resume leaves lies ahead; the store implements `ScheduleLifecycle` | one schedule with three runs and a history of one; two schedules under a quota of one |
| `scheduler` (2.0 M) | Commands of one schedule never overlap, none is orphaned, no wakeup is lost | a restart and a failing call with one HTTP thread; two HTTP threads |
| `scheduler_live` (0.15 M) | Due occurrences are dispatched, runs end, Context operations are closed | one schedule; up to three of: two failing calls, a restart, edits |
| `tasks` (1.4 M) | A task is registered or archived at every look; no kill or interrupt is lost; a lease outlives its group; `close` leaves no command | one task with two callers and children; two tasks with reused ids |
| `jobs` (0.8 M) | A new daemon never disowns jobs of a live one; a graceful stop meets no running job; a retried start runs no recorded command twice; an orderly exit saves its rows | two Clients of two releases with a crash or a failing start; two jobs at the limit of one mapping |
| `execution_live` (78 k) | Output arrives once and in order or is reported as a gap; pruning costs at most the page whose answer was lost; input arrives in order; both arrive in the end; tasks and jobs with a timeout end | one task, one job, seven bytes with a cap of three |
| `files` (0.9 M) | No lost update; all or nothing; content is lost only in the windows and by the failures named below; offsets that were told survive; an upload is within the quota, published whole and never over a file | two requests; one request of two items; one and two requests on a Storage Provider; two uploads; two commits of one upload |
| `mapping` (1.3 M) | No replay of a change; handles stay in their session; an approval that is shown is honoured; it ends with its connection; no open session is forgotten | one call; two approvals with a clock; two approvals with an update; two connections each |

Three runs expect a violation; each is a disagreement between code and document:

* `missed_pruned`: `claim_due` records a missed occurrence and prunes it in the
  same transaction when it is older than the retention period, so the assertion
  at the end of `claim_due` fails.
* `job_output_crash`: `_append` replaces the output file before it commits the new
  `output_base`. A crash in between shifts all later reads, while
  `docs/client-mappings.md` says that the output survives.
* `mutation_remote`: on a Storage Provider the backup is compared with a digest
  taken after revalidation, not with `expected_etag`, so a write in between is
  discarded by a successful commit.

### Bounds

The hazards need two actors on one object, one failure between any two steps, and
one more object than a limit admits. The bounds are the smallest that give those:
two threads or requests, one or two failures, limits of one or two with two or
three candidates. In `jobs` a Client makes three requests (a start, its retry or a
read, and a start that prunes); four give 1.25 million states and the same
answers. Runs, revisions, requests, faults, restarts, sessions and clock
are capped by constants whose names begin with `Max`; a capped counter only stops
new activity. Deadlock is not checked: with the counters used up the systems rest.
Symmetry is used only in safety runs and only over interchangeable identities.

### Fairness

Weak fairness is given to threads that are running and never blocked for good
(the dispatcher, HTTP threads in the middle of a request, task threads,
collectors, the spool's worker, a Client that goes on reading), and to the kernel's
delivery of SIGKILL. Nothing forces new requests, faults, crashes or the end of a
command by itself, except in `Scheduler`, where a task ends because it has a
timeout. `TaskRegistry` shows that it does, unless its leader has exited and a
child keeps the pipes open, or the task's thread has died; `scheduler_live` does
not cover those two cases (scheduled tasks have no stdin, so only a lease whose
release raises can end their thread).

### What the properties except

Some failures are not handled by the code. The properties name them one by one,
so that everything else is still claimed:

* `DueIsDispatched`: a dispatcher whose `next_due` raised. The thread ends and
  stays ended until the service is restarted (`execution/scheduler.py:84`).
* `RunEnds`, `ContextCloses`: a run whose `finish_run`, or the kill of its unbound
  task, raised; for the Context operation also a failing `finish_operation` and a
  service that stopped in between.
* `TaskEnds`, `JobEnds`: a group of which only a child is left, and for a task the
  dead thread.
* `OneCommandPerJob`: a command whose INSERT failed is on no record, and the retry
  runs it again (`job_manager.py:620`).
* `OutputDelivered`: a job that was pruned after the answer with its last page was
  lost. `PruneCostsOnePage` bounds what is missing then.
* `NothingLostOutsideWindows`: a file that appears between a look and a rename
  and, on a Storage Provider, between revalidation and the digest; an original
  whose rename took effect and still raised, because the cleanup unlinks it.
* `AllOrNothing`: a rollback that failed or met one of those two cases, and the
  hidden files left by a failed staging write or an unlink that ended the cleanup.
* `NoLostUpdate`: on a Storage Provider, a second request at whose path something
  is put between its revalidation and its digest.
* `AckedBytesKept`, `DiskWithinQuota`: an upload whose save failed, and the part
  files left by a failed unlink or by a record that `_load` dropped on an error.

## Proofs

`ScheduleStoreProofs` proves, for any number of schedules, apps, runs and any
limits that satisfy `StoreAssumption` (limits and periods are naturals, the quota,
the history limit and the lead time positive) and `NoneAssumption` (`None` is no
instant, marker or schedule):

* `StoreTypeCorrect`: every column keeps its type;
* `MarkerCorrect`: `running_task_id` names exactly the live run of its schedule,
  and says whether a task is bound to it;
* `NextRunCorrect`: a schedule has a next occurrence exactly while it is active;
* `StoreInvariance`: the inductive invariant `StoreInv` they follow from.

`MarkerNamesLiveRun` alone is not inductive. `finish_run` clears the marker only
when it names the finished run, so one must know that a live run is pointed to by
its own schedule and by no other (`RunToMarker`, `MarkerToRun`); `bind_task` and
`abandon_running` need that a run is bound exactly when it is running, and `claim`
that a new run number is unused (`RunRows`). The proof has a lemma for the
configuration calls, one for the calls on a whole app, and one each for claim, bind,
finish and abandon.

Everything else is model-checked only. Liveness is out of the prover's reach, and
so is induction over data.

## Divergences without a run

Met while reading; the models follow the code.

* After a restart `abandon_running` adds terminal runs without pruning, so the
  history may exceed its limit until the next claim (`docs/schedules.md`).
* `kill` and the timeout look at the leader of a group. When it has exited and a
  child lives on, the child is not signalled (`execution/tasks.py:857`), although
  `docs/shell-and-mcp.md:147` speaks of the process group.
* A forced stop of the Job Manager does not wait for the rows of the jobs it kills
  (`job_manager.py:647`, `docs/client-mappings.md:474`).
* A create-only publication and a rollback look before they rename. Another
  program that writes in that window is overwritten (`files/safe_paths.py:171`,
  `files/mutation.py:787`, `docs/rest-files-and-transfers.md:221`).
  `NothingLostOutsideWindows` says what else is.
* On a Storage Provider a rename that takes effect and still raises is taken for
  one that did not happen; the finally clause then unlinks the backup, which is
  the only copy (`files/mutation.py:1014`).
* `append` moves the offset in memory before it saves (`files/uploads.py:215`).
  When the save fails, status tells an offset that a restart takes back.
* An administrator's update of a mapping disconnects the Client before it writes
  the row, so a Client that reconnects in between stays connected under the old
  row; each call reads the row again.

## Not modelled

Formatting, validation of text, HTTP routing, pages, generated descriptions,
command lines of sandboxes, and what external programs do. The components in
`PROJECT.json` give the reason for each part.

Simplifications inside the modelled parts: `claim_due` reads the clock before its
transaction begins, the model at one instant with it; pruning a job removes its
spool and its row in one step, so a crash between the unlink and the commit is
left out; an upload registry whose first purge raises does not start, and is not
a state of the model.

## Plan

1. Mapping mounts: leases with rollback, the mount limit, reaping, relocation and
   deletion, composed with `TaskRegistry` and `MappingSession`; file transfers
   between roots; the recycle bin.
2. Context and plan store, memory store: optimistic revisions and operations that
   other threads finish, composed with `Scheduler`.
3. Tokens, OAuth and grants: one lifecycle module each, with requests in progress
   during a revocation.
4. API workers, the filename index, Storage Providers with their shutdown,
   workspace images, and the order of `server_close` that joins them.
5. The Client's tasks, file approvals and reload; the SSH pool; `BoundedOutput`
   and the cron arithmetic as operators checked against a definition.
6. Proofs: `RevisionCoversConfig`, `NextRunMovesAhead` and the refinement of
   `ScheduleLifecycle` from `StoreInv`; then `OpenSessionReachable` and
   `GrantBelongsToSession` for any number of connections, `DiskWithinQuota` of
   `Uploads` for any number of uploads, and `KillNotLost` of `TaskRegistry`.
