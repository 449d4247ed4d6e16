---------------------------- MODULE TaskRegistry ----------------------------
(***************************************************************************)
(* Server Shell tasks (execution/tasks.py), the archive of finished tasks  *)
(* (execution/task_history.py) and the wait for tasks that hold a native   *)
(* mount (mapping/mapping_process.py).                                     *)
(*                                                                         *)
(* A step is what a thread does under one lock, one signal, or one poll of *)
(* a process.  A command is a process group: its leader, and possibly a    *)
(* child that keeps the output pipes open after the leader is gone.        *)
(* Processes exit when they like; SIGTERM only asks them to, so it changes *)
(* no state; SIGKILL dooms the whole group.  A sandbox controller only asks *)
(* once more (its errors are swallowed), so it changes no state either.    *)
(***************************************************************************)
EXTENDS Naturals, Sequences, FiniteSets, SequencesExt

CONSTANTS
    Tasks,          \* task objects
    Owners,         \* owner tokens
    Ids,            \* public job ids
    Controllers,    \* HTTP threads that interrupt or kill
    Leases,         \* subset of BOOLEAN: may a task hold a mount lease
    Interactive,    \* subset of BOOLEAN: may a task have a stdin pipe
    None,
    MaxPerToken,    \* max_concurrent_shell_tasks_per_token
    MaxGlobal,      \* max_concurrent_shell_tasks
    Keep,           \* max_finished_tasks_per_token
    FaultKinds,     \* which of "spawn", "readers", "lease", "save" may fail
    MaxFaults,      \* bound: failures
    Closes,         \* bound: does the server ever close the registry
    Forks           \* bound: do commands ever leave children behind

ASSUME RegistryAssumption ==
    /\ Leases \subseteq BOOLEAN /\ Interactive \subseteq BOOLEAN
    /\ MaxPerToken \in Nat \ {0} /\ MaxGlobal \in Nat \ {0} /\ Keep \in Nat \ {0}
    /\ MaxFaults \in Nat /\ Closes \in BOOLEAN /\ Forks \in BOOLEAN
    /\ None \notin Tasks \cup Owners \cup Ids

VARIABLES
    pc,             \* where each task's thread stands; "dead" after an exception in
                    \* its finally clause
    id, owner,      \* ShellTask.id, owner_token
    lease,          \* mount_lease: "none", "held" or "closed"
    group,          \* live members of the process group
    doomed,         \* the group has been sent SIGKILL
    published,      \* ShellTask.process is set
    stdin,          \* process.stdin: "none", "open", "unflushed" (data that could
                    \* not be flushed is still in its buffer) or "closed"
    interrupted, forced, timedOut,      \* ShellTask's flags
    grace,          \* wait_for_native_task has set kill_at
    history,        \* archived tasks of each owner, oldest first
    lost,           \* tasks whose archive failed, expired or was pruned
    closing,        \* TaskRegistry._closing
    ctl,            \* where each controller stands
    closer,         \* where close() stands
    faults

flags == <<interrupted, forced, timedOut, grace>>
process == <<group, doomed>>
identity == <<id, owner, stdin>>
archive == <<history, lost>>
actors == <<closing, ctl, closer>>
vars == <<pc, identity, lease, process, published, flags, archive, actors, faults>>

Idle == [stage |-> "idle", task |-> None, force |-> FALSE]

Init ==
    /\ pc = [t \in Tasks |-> "absent"]
    /\ id = [t \in Tasks |-> None]
    /\ owner = [t \in Tasks |-> None]
    /\ lease = [t \in Tasks |-> "none"]
    /\ group = [t \in Tasks |-> {}]
    /\ doomed = [t \in Tasks |-> FALSE]
    /\ published = [t \in Tasks |-> FALSE]
    /\ stdin = [t \in Tasks |-> "none"]
    /\ interrupted = [t \in Tasks |-> FALSE]
    /\ forced = [t \in Tasks |-> FALSE]
    /\ timedOut = [t \in Tasks |-> FALSE]
    /\ grace = [t \in Tasks |-> FALSE]
    /\ history = [o \in Owners |-> <<>>]
    /\ lost = {}
    /\ closing = FALSE
    /\ ctl = [c \in Controllers |-> Idle]
    /\ closer = [stage |-> "open", todo |-> {}, task |-> None]
    /\ faults = 0

Goto(t, l) == pc' = [pc EXCEPT ![t] = l]
Fails(kind) == kind \in FaultKinds /\ faults < MaxFaults /\ faults' = faults + 1

InRegistry(t) == pc[t] \notin {"absent", "gone"}
Running(t) == pc[t] \notin {"absent", "archive", "remove", "gone"}
Archived(o) == ToSet(history[o])
Alive(t) == "leader" \in group[t]

-----------------------------------------------------------------------------
(* Starting a task *)

Free(i, o) ==
    /\ \A u \in Tasks : InRegistry(u) => id[u] # i
    /\ \A u \in Archived(o) : id[u] # i

Admits(o) ==
    /\ ~closing
    /\ Cardinality({u \in Tasks : Running(u) /\ owner[u] = o}) < MaxPerToken
    /\ Cardinality({u \in Tasks : Running(u)}) < MaxGlobal

Start(t, o, i, leased, interactive) ==
    /\ pc[t] = "absent"
    /\ Admits(o)
    /\ Free(i, o)
    /\ id' = [id EXCEPT ![t] = i]
    /\ owner' = [owner EXCEPT ![t] = o]
    /\ lease' = [lease EXCEPT ![t] = IF leased THEN "held" ELSE "none"]
    /\ stdin' = [stdin EXCEPT ![t] = IF interactive THEN "open" ELSE "none"]
    /\ Goto(t, "spawn")
    /\ UNCHANGED <<process, published, flags, archive, actors, faults>>

-----------------------------------------------------------------------------
(* Signals *)

\* _kill_process_group: nothing is sent once the leader has been reaped.
KillGroup(t) == doomed' = [doomed EXCEPT ![t] = @ \/ Alive(t)]

\* _terminate_process_group, in the thread that stands at stage s: poll, wait
\* two seconds, SIGKILL.  When the group is gone by then, killpg raises if
\* another thread has reaped the leader, and reaches a zombie if not.
TermNext(t, s) ==
    CASE s = "term"    -> {IF Alive(t) THEN "grace" ELSE "done"}
      [] s = "grace"   -> {IF Alive(t) THEN "sigkill" ELSE "done"}
      [] s = "sigkill" -> IF group[t] = {} THEN {"raise", "done"} ELSE {"done"}
TermStages == {"term", "grace", "sigkill"}
TermSignal(t, s) == doomed' = [doomed EXCEPT ![t] = @ \/ (s = "sigkill" /\ group[t] # {})]

-----------------------------------------------------------------------------
(* The task's thread: _run *)

Spawn(t) ==
    /\ pc[t] = "spawn"
    /\ \/ /\ group' = [group EXCEPT ![t] = {"leader"}]
          /\ Goto(t, "publish")
          /\ UNCHANGED faults
       \/ /\ Fails("spawn")
          /\ Goto(t, "cleanup")
          /\ UNCHANGED group
    /\ UNCHANGED <<identity, lease, doomed, published, flags, archive, actors>>

PublishOnly(t) ==       \* Mutant: the flags are not looked at again
    /\ pc[t] = "publish"
    /\ published' = [published EXCEPT ![t] = TRUE]
    /\ Goto(t, "readers")
    /\ UNCHANGED <<identity, lease, process, flags, archive, actors, faults>>

PublishUninterrupted(t) ==      \* Mutant: only force_killed is looked at again
    /\ pc[t] = "publish"
    /\ published' = [published EXCEPT ![t] = TRUE]
    /\ Goto(t, IF forced[t] THEN "kill" ELSE "readers")
    /\ UNCHANGED <<identity, lease, process, flags, archive, actors, faults>>

\* The process and the flags change hands under the task's lock: a kill that
\* came before is carried out here, one that comes later sees the process.
Publish(t) ==
    /\ pc[t] = "publish"
    /\ published' = [published EXCEPT ![t] = TRUE]
    /\ Goto(t, IF forced[t] THEN "kill" ELSE IF interrupted[t] THEN "term" ELSE "readers")
    /\ UNCHANGED <<identity, lease, process, flags, archive, actors, faults>>

RunKill(t) ==
    /\ pc[t] = "kill"
    /\ KillGroup(t)
    /\ Goto(t, "readers")
    /\ UNCHANGED <<identity, lease, group, published, flags, archive, actors, faults>>

RunTermOnce(t) ==       \* Mutant: SIGTERM is not escalated
    /\ pc[t] \in TermStages
    /\ Goto(t, IF timedOut[t] THEN "reap" ELSE "readers")
    /\ UNCHANGED <<identity, lease, process, published, flags, archive, actors, faults>>

RunTerm(t) ==
    /\ pc[t] \in TermStages
    /\ TermSignal(t, pc[t])
    /\ \E n \in TermNext(t, pc[t]) :
       Goto(t, CASE n = "done"  -> IF timedOut[t] THEN "reap" ELSE "readers"
                 [] n = "raise" -> "cleanup"
                 [] OTHER       -> n)
    /\ UNCHANGED <<identity, lease, group, published, flags, archive, actors, faults>>

StartReaders(t) ==
    /\ pc[t] = "readers"
    /\ \/ Goto(t, IF lease[t] = "none" THEN "wait" ELSE "native") /\ UNCHANGED faults
       \/ Fails("readers") /\ Goto(t, "cleanup")
    /\ UNCHANGED <<identity, lease, process, published, flags, archive, actors>>

\* process.wait(timeout): the leader exits, or the deadline passes first.
Wait(t) ==
    /\ pc[t] \in {"wait", "reap"}
    /\ \/ ~Alive(t) /\ Goto(t, "drain") /\ UNCHANGED timedOut
       \/ /\ Alive(t)
          /\ pc[t] = "wait"
          /\ timedOut' = [timedOut EXCEPT ![t] = TRUE]
          /\ Goto(t, "term")
    /\ UNCHANGED <<identity, lease, process, published, interrupted, forced, grace, archive,
                   actors, faults>>

\* The loop of wait_for_native_task, which watches the whole group.
NativeWait(t) ==
    /\ pc[t] = "native"
    /\ \/ group[t] = {} /\ Goto(t, "drain") /\ UNCHANGED <<timedOut, grace, doomed>>
       \/ /\ group[t] # {}
          /\ ~timedOut[t]
          /\ timedOut' = [timedOut EXCEPT ![t] = TRUE]
          /\ UNCHANGED <<pc, grace, doomed>>
       \/ /\ group[t] # {}
          /\ \/ /\ forced[t] \/ grace[t]
                /\ doomed' = [doomed EXCEPT ![t] = TRUE]
                /\ UNCHANGED grace
             \/ /\ ~forced[t] /\ ~grace[t]
                /\ interrupted[t] \/ timedOut[t]
                /\ grace' = [grace EXCEPT ![t] = TRUE]
                /\ UNCHANGED doomed
          /\ UNCHANGED <<pc, timedOut>>
    /\ UNCHANGED <<identity, lease, group, published, interrupted, forced, archive, actors, faults>>

\* The reader threads end when nobody holds the pipes any more.
Drain(t) ==
    /\ pc[t] = "drain"
    /\ group[t] = {}
    /\ Goto(t, "cleanup")
    /\ UNCHANGED <<identity, lease, process, published, flags, archive, actors, faults>>

CleanupAtOnce(t) ==       \* Mutant: the lease is closed without looking at the group
    /\ pc[t] = "cleanup"
    /\ lease' = [lease EXCEPT ![t] = IF @ = "held" THEN "closed" ELSE @]
    /\ Goto(t, "finish")
    /\ UNCHANGED <<identity, process, published, flags, archive, actors, faults>>

\* mount_lease.close: it counts as closed before its mounts are released.  When
\* the release raises, nothing catches it and the task's thread is over.
CloseLease(t) ==
    /\ lease' = [lease EXCEPT ![t] = "closed"]
    /\ \/ Goto(t, "finish") /\ UNCHANGED faults
       \/ Fails("lease") /\ Goto(t, "dead")

\* release_native_task: a group that is still alive is killed and given three
\* seconds, after which the lease is kept.
Cleanup(t) ==
    /\ pc[t] = "cleanup"
    /\ \/ /\ lease[t] # "held"
          /\ Goto(t, "finish")
          /\ UNCHANGED <<lease, doomed, faults>>
       \/ /\ lease[t] = "held"
          /\ published[t] => group[t] = {}
          /\ CloseLease(t)
          /\ UNCHANGED doomed
       \/ /\ lease[t] = "held" /\ published[t] /\ group[t] # {}
          /\ doomed' = [doomed EXCEPT ![t] = TRUE]
          /\ Goto(t, "release")
          /\ UNCHANGED <<lease, faults>>
    /\ UNCHANGED <<identity, group, published, flags, archive, actors>>

Release(t) ==
    /\ pc[t] = "release"
    /\ IF group[t] = {} THEN CloseLease(t) ELSE Goto(t, "finish") /\ UNCHANGED <<lease, faults>>
    /\ UNCHANGED <<identity, process, published, flags, archive, actors>>

FinishPopped(t) ==       \* Mutant: the task leaves the registry before it is archived
    /\ pc[t] = "finish"
    /\ Goto(t, "gone")
    /\ UNCHANGED <<identity, lease, process, published, flags, archive, actors, faults>>

\* process.stdin.close() flushes once more: data left by a broken pipe makes it
\* raise, and the thread is over.  Otherwise status = "finished", under the
\* task's lock.
Finish(t) ==
    /\ pc[t] = "finish"
    /\ stdin' = [stdin EXCEPT ![t] = IF published[t] /\ @ # "none" THEN "closed" ELSE @]
    /\ Goto(t, IF published[t] /\ stdin[t] = "unflushed" THEN "dead" ELSE "archive")
    /\ UNCHANGED <<id, owner, lease, process, published, flags, archive, actors, faults>>

\* history.save, with the cap on retained tasks; then _finished_event.
Save(t) ==
    /\ pc[t] = "archive"
    /\ LET all == Append(history[owner[t]], t)
           kept == IF Len(all) > Keep THEN SubSeq(all, Len(all) - Keep + 1, Len(all)) ELSE all
       IN  \/ /\ history' = [history EXCEPT ![owner[t]] = kept]
              /\ lost' = lost \cup (ToSet(all) \ ToSet(kept))
              /\ UNCHANGED faults
           \/ /\ Fails("save")
              /\ lost' = lost \cup {t}
              /\ UNCHANGED history
    /\ Goto(t, "remove")
    /\ UNCHANGED <<identity, lease, process, published, flags, actors>>

Retire(t) ==
    /\ pc[t] = "remove"
    /\ Goto(t, "gone")
    /\ UNCHANGED <<identity, lease, process, published, flags, archive, actors, faults>>

Run(t) ==
    \/ Spawn(t) \/ Publish(t) \/ RunKill(t) \/ RunTerm(t) \/ StartReaders(t)
    \/ Wait(t) \/ NativeWait(t) \/ Drain(t)
    \/ Cleanup(t) \/ Release(t) \/ Finish(t) \/ Save(t) \/ Retire(t)

\* write_stdin, under the task's lock: the pipe is closed on request, or nobody
\* reads it any more and the data stays in the buffer.
WriteStdin(t) ==
    /\ Running(t) /\ published[t]
    /\ stdin[t] \in {"open", "unflushed"}
    /\ \E s \in {"closed", "unflushed"} : stdin' = [stdin EXCEPT ![t] = s]
    /\ UNCHANGED <<pc, id, owner, lease, process, published, flags, archive, actors, faults>>

-----------------------------------------------------------------------------
(* Controllers: interrupt and kill *)

\* get() reads the registry and, when the id is not there, the archive.
Call(c, t, force) ==
    LET found == {u \in Tasks : InRegistry(u) /\ owner[u] = owner[t] /\ id[u] = id[t]} IN
    /\ ctl[c] = Idle
    /\ pc[t] # "absent"
    /\ ctl' = [ctl EXCEPT ![c] =
                 IF found = {} THEN [stage |-> "load", task |-> t, force |-> force]
                 ELSE [stage |-> "flag", task |-> CHOOSE u \in found : TRUE, force |-> force]]
    /\ UNCHANGED <<pc, identity, lease, process, published, flags, archive, closing, closer, faults>>

\* A finished task is answered from the archive, or not found.
Load(c) ==
    /\ ctl[c].stage = "load"
    /\ ctl' = [ctl EXCEPT ![c] = Idle]
    /\ UNCHANGED <<pc, identity, lease, process, published, flags, archive, closing, closer, faults>>

Flag(c) ==
    LET t == ctl[c].task
        force == ctl[c].force
    IN
    /\ ctl[c].stage = "flag"
    /\ IF Running(t)
       THEN /\ interrupted' = [interrupted EXCEPT ![t] = TRUE]
            /\ forced' = [forced EXCEPT ![t] = @ \/ force]
            /\ ctl' = [ctl EXCEPT ![c] = IF published[t]
                                         THEN [@ EXCEPT !.stage = IF force THEN "kill" ELSE "term"]
                                         ELSE Idle]
       ELSE UNCHANGED <<interrupted, forced>> /\ ctl' = [ctl EXCEPT ![c] = Idle]
    /\ UNCHANGED <<pc, identity, lease, process, published, timedOut, grace, archive, closing,
                   closer, faults>>

CtlKill(c) ==
    /\ ctl[c].stage = "kill"
    /\ KillGroup(ctl[c].task)
    /\ ctl' = [ctl EXCEPT ![c] = Idle]
    /\ UNCHANGED <<pc, identity, lease, group, published, flags, archive, closing, closer, faults>>

CtlTerm(c) ==
    LET t == ctl[c].task IN
    /\ ctl[c].stage \in TermStages
    /\ TermSignal(t, ctl[c].stage)
    /\ \E n \in TermNext(t, ctl[c].stage) :
          ctl' = [ctl EXCEPT ![c] =
                    IF n \in {"done", "raise"} THEN Idle ELSE [@ EXCEPT !.stage = n]]
    /\ UNCHANGED <<pc, identity, lease, group, published, flags, archive, closing, closer, faults>>

Control(c) == Load(c) \/ Flag(c) \/ CtlKill(c) \/ CtlTerm(c)

-----------------------------------------------------------------------------
(* close() *)

Registered == {t \in Tasks : InRegistry(t)}

CloseBegins ==
    /\ Closes
    /\ closer.stage = "open"
    /\ closing' = TRUE
    /\ closer' = [stage |-> "flag", todo |-> Registered, task |-> None]
    /\ UNCHANGED <<pc, identity, lease, process, published, flags, archive, ctl, faults>>

CloseFlag(t) ==
    /\ closer.stage = "flag"
    /\ t \in closer.todo
    /\ interrupted' = [interrupted EXCEPT ![t] = TRUE]
    /\ closer' = [stage |-> IF published[t] /\ Alive(t) THEN "term" ELSE "flag",
                  todo |-> closer.todo \ {t}, task |-> t]
    /\ UNCHANGED <<pc, identity, lease, process, published, forced, timedOut, grace, archive,
                   closing, ctl, faults>>

\* A killpg that raises leaves close() there and then.
CloseTerm ==
    /\ closer.stage \in TermStages
    /\ TermSignal(closer.task, closer.stage)
    /\ \E n \in TermNext(closer.task, closer.stage) :
          closer' = [closer EXCEPT !.stage = CASE n = "done"  -> "flag"
                                               [] n = "raise" -> "aborted"
                                               [] OTHER       -> n]
    /\ UNCHANGED <<pc, identity, lease, group, published, flags, archive, closing, ctl,
                   faults>>

\* Joining the threads, for two seconds at most; then whatever is left.
CloseJoined ==
    /\ closer.stage = "flag"
    /\ closer.todo = {}
    /\ closer' = [stage |-> "force", todo |-> Registered, task |-> None]
    /\ UNCHANGED <<pc, identity, lease, process, published, flags, archive, closing, ctl, faults>>

CloseForceSilent(t) ==      \* Mutant: tasks without a process are left alone
    /\ closer.stage = "force"
    /\ t \in closer.todo
    /\ forced' = [forced EXCEPT ![t] = @ \/ published[t]]
    /\ closer' = [closer EXCEPT !.todo = @ \ {t}]
    /\ IF published[t] THEN KillGroup(t) ELSE UNCHANGED doomed
    /\ UNCHANGED <<pc, identity, lease, group, published, interrupted, timedOut, grace, archive,
                   closing, ctl, faults>>

CloseForce(t) ==
    /\ closer.stage = "force"
    /\ t \in closer.todo
    /\ forced' = [forced EXCEPT ![t] = TRUE]
    /\ closer' = [closer EXCEPT !.todo = @ \ {t}]
    /\ IF published[t] THEN KillGroup(t) ELSE UNCHANGED doomed
    /\ UNCHANGED <<pc, identity, lease, group, published, interrupted, timedOut, grace, archive,
                   closing, ctl, faults>>

CloseEnds ==
    /\ closer.stage = "force"
    /\ closer.todo = {}
    /\ closer' = [closer EXCEPT !.stage = "closed"]
    /\ UNCHANGED <<pc, identity, lease, process, published, flags, archive, closing, ctl, faults>>

Close ==
    \/ CloseTerm \/ CloseJoined \/ CloseEnds
    \/ \E t \in Tasks : CloseFlag(t) \/ CloseForce(t)
-----------------------------------------------------------------------------
(* Processes and the archive's cleanup thread *)

Fork(t) ==
    /\ Forks
    /\ Alive(t)
    /\ ~doomed[t]
    /\ "child" \notin group[t]
    /\ group' = [group EXCEPT ![t] = @ \cup {"child"}]
    /\ UNCHANGED <<pc, identity, lease, doomed, published, flags, archive, actors, faults>>

Exit(t) ==
    /\ \E p \in group[t] : group' = [group EXCEPT ![t] = @ \ {p}]
    /\ UNCHANGED <<pc, identity, lease, doomed, published, flags, archive, actors, faults>>

Die(t) == doomed[t] /\ Exit(t)

\* finished_task_retention_seconds has passed for the oldest archived task.
Expire(o) ==
    /\ history[o] # <<>>
    /\ lost' = lost \cup {Head(history[o])}
    /\ history' = [history EXCEPT ![o] = Tail(@)]
    /\ UNCHANGED <<pc, identity, lease, process, published, flags, actors, faults>>

Next ==
    \/ \E t \in Tasks : \/ \E o \in Owners, i \in Ids, l \in Leases, s \in Interactive :
                              Start(t, o, i, l, s)
                        \/ Run(t) \/ WriteStdin(t) \/ Fork(t) \/ Exit(t)
                        \/ \E c \in Controllers, force \in BOOLEAN : Call(c, t, force)
    \/ \E c \in Controllers : Control(c)
    \/ \E o \in Owners : Expire(o)
    \/ CloseBegins
    \/ Close

Spec == Init /\ [][Next]_vars

\* The task's threads, the callers and close() go on; a process that has been
\* sent SIGKILL dies.  Nothing forces a process to exit on its own.
Fairness ==
    /\ \A t \in Tasks : WF_vars(Run(t)) /\ WF_vars(Die(t))
    /\ \A c \in Controllers : WF_vars(Control(c))
    /\ WF_vars(Close)

FairSpec == Spec /\ Fairness

-----------------------------------------------------------------------------
(* Properties *)

TypeOK ==
    /\ pc \in [Tasks -> {"absent", "spawn", "publish", "kill", "term", "grace", "sigkill",
                         "readers", "wait", "reap", "native", "drain", "cleanup", "release",
                         "finish", "dead", "archive", "remove", "gone"}]
    /\ stdin \in [Tasks -> {"none", "open", "unflushed", "closed"}]
    /\ id \in [Tasks -> Ids \cup {None}] /\ owner \in [Tasks -> Owners \cup {None}]
    /\ lease \in [Tasks -> {"none", "held", "closed"}]
    /\ group \in [Tasks -> SUBSET {"leader", "child"}]
    /\ {doomed, published, interrupted, forced, timedOut, grace} \subseteq [Tasks -> BOOLEAN]
    /\ \A o \in Owners : Archived(o) \subseteq Tasks /\ Len(history[o]) <= Keep

\* get() finds every task that has been started: when the registry does not
\* have it, the archive already does, unless it has expired or could not be
\* written.  save() comes before the removal.
LookupNeverMisses ==
    \A c \in Controllers : ctl[c].stage = "load" =>
        \/ ctl[c].task \in Archived(owner[ctl[c].task])
        \/ ctl[c].task \in lost

\* The thread has given up on a running command: a reader thread could not be
\* started.  Such a command outlives its task.
Abandoned(t) == pc[t] \in {"cleanup", "release", "finish", "dead", "archive", "remove", "gone"}

\* A kill or an interrupt is never lost between the caller, who sees no process
\* yet, and the thread, which is about to publish it: while the leader lives on
\* without having been sent SIGKILL, some thread is still to send it (kill), or
\* to wait for it after SIGTERM and then send it (interrupt, close).
KillNotLost ==
    \A t \in Tasks : Alive(t) /\ ~doomed[t] /\ ~Abandoned(t) =>
        /\ forced[t] => \/ pc[t] \in {"publish", "kill"}
                        \/ \E c \in Controllers : ctl[c].task = t /\ ctl[c].stage = "kill"
        /\ interrupted[t] =>
              \/ pc[t] \in {"publish", "kill"} \cup TermStages
              \/ \E c \in Controllers : ctl[c].task = t /\ ctl[c].stage \in {"kill"} \cup TermStages
              \/ closer.task = t /\ closer.stage \in TermStages

\* A mount lease outlives the process group that uses the mount.
LeaseOutlivesGroup ==
    \A t \in Tasks : lease[t] = "closed" => group[t] = {}

\* After close() has returned no command lives on, except one whose thread has
\* not published it, or not looked at its flags, yet and will kill it then.
CloseLeavesNoLeader ==
    closer.stage = "closed" =>
        \A t \in Tasks : Alive(t) =>
            \/ doomed[t]
            \/ forced[t] /\ pc[t] \in {"publish", "kill"}
            \/ Abandoned(t)

\* The timeout ends every command in the end: its task is finished, archived
\* and removed, unless the leader has gone and a child keeps the pipes open.  A
\* task that holds a mount lease ends even then.  The exception is a thread that
\* an exception in the finally clause of _run has ended, when stdin holds data
\* that cannot be flushed or the release of the mounts raises: its task is
\* neither finished nor archived and keeps its place in the registry.
TaskEnds ==
    \A t \in Tasks :
        /\ pc[t] # "absent" ~> pc[t] \in {"gone", "dead"} \/ (group[t] = {"child"} /\ ~doomed[t])
        /\ lease[t] = "held" ~> pc[t] \in {"gone", "dead"}
=============================================================================
