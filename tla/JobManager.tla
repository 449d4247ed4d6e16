----------------------------- MODULE JobManager -----------------------------
(***************************************************************************)
(* The per-user Job Manager (job_manager.py): a singleton daemon that      *)
(* Clients start on demand, replace when it is older than they are, stop,  *)
(* and ask to start, read, signal and list Shell jobs.                     *)
(*                                                                         *)
(* request() runs under one lock, so a request is one step, except that    *)
(* the daemon may crash, or SQLite and the disk may fail, between the      *)
(* spawn of a job and its record.                                          *)
(* Rows survive the daemon; its table of processes and its collector       *)
(* threads do not.  A job is a process group as in TaskRegistry.           *)
(***************************************************************************)
EXTENDS Naturals, FiniteSets

CONSTANTS
    Clients, Daemons, Procs,    \* Client processes, daemon processes, spawned groups
    Jobs,                       \* (mapping, public id) keys
    MappingOf,                  \* the mapping of each key
    Digests,                    \* request digests
    Release,                    \* release of each Client's code
    None,
    MaxRunning,                 \* MAX_RUNNING
    MaxPerMapping,              \* MAX_PER_MAPPING
    Operations,                 \* bound: the requests that Clients make
    MaxCrashes,                 \* bound: daemon crashes
    MaxFailures,                \* bound: starts whose record fails
    MaxRequests                 \* bound: requests of each Client, retries included

ASSUME ManagerAssumption ==
    /\ MaxRunning \in Nat \ {0} /\ MaxPerMapping \in Nat \ {0}
    /\ MaxCrashes \in Nat /\ MaxFailures \in Nat /\ MaxRequests \in Nat
    /\ Release \in [Clients -> Nat]
    /\ Operations \subseteq {"start", "get", "interrupt", "kill", "stop", "force"}

VARIABLES
    daemon,         \* where each daemon process stands
    release,        \* release of the code each daemon runs
    holder,         \* who holds manager.lock
    stopping,       \* "no", "idle", "graceful" or "forced"
    row,            \* table jobs
    proc,           \* the operating system's process groups
    processes,      \* Manager.processes: the group of each job
    collector,      \* where each collector thread stands
    spawned,        \* a start between spawn and INSERT: [job, digest, proc], or None
    client,         \* where each Client stands and what it wants
    requests,       \* requests made by each Client
    crashes, failures

server == <<daemon, release, holder, stopping>>
memory == <<processes, collector, spawned>>
accidents == <<crashes, failures>>
vars == <<server, row, proc, memory, client, requests, accidents>>

NoRow == [state |-> "none", digest |-> None, collected |-> FALSE]
NoProc == [job |-> None, group |-> {}, doomed |-> FALSE, by |-> None]
\* cold: the Client has launched a daemon and polls for one that answers.
AtRest == [stage |-> "idle", op |-> None, job |-> None, digest |-> None, cold |-> FALSE]

Init ==
    /\ daemon = [d \in Daemons |-> "absent"]
    /\ release = [d \in Daemons |-> 0]
    /\ holder = None
    /\ stopping = "no"
    /\ row = [j \in Jobs |-> NoRow]
    /\ proc = [p \in Procs |-> NoProc]
    /\ processes = [j \in Jobs |-> None]
    /\ collector = [j \in Jobs |-> "none"]
    /\ spawned = None
    /\ client = [c \in Clients |-> AtRest]
    /\ requests = [c \in Clients |-> 0]
    /\ crashes = 0 /\ failures = 0

Listening == holder # None /\ daemon[holder] = "serving"
Unfinished(j) == row[j].state = "running"
Alive(p) == "leader" \in proc[p].group

\* os.killpg(SIGKILL) through _signal: only while the leader has not exited.
Kills(S) == [p \in Procs |-> IF p \in S /\ Alive(p) THEN [proc[p] EXCEPT !.doomed = TRUE]
                             ELSE proc[p]]

-----------------------------------------------------------------------------
(* The daemon process: main, Manager.__init__, serve *)

LaunchUnlocked(d) ==       \* Mutant: the singleton lock is not tried
    /\ daemon[d] = "launched"
    /\ daemon' = [daemon EXCEPT ![d] = "serving"]
    /\ holder' = d
    /\ stopping' = "no"
    /\ row' = [j \in Jobs |-> IF Unfinished(j) THEN [row[j] EXCEPT !.state = "finished"]
                              ELSE row[j]]
    /\ UNCHANGED <<release, proc, memory, client, requests, accidents>>

\* A daemon that loses the race for the lock exits.  The winner marks the jobs
\* of its predecessor as interrupted.
Launch(d) ==
    /\ daemon[d] = "launched"
    /\ IF holder = None
       THEN /\ daemon' = [daemon EXCEPT ![d] = "serving"]
            /\ holder' = d
            /\ stopping' = "no"
            /\ row' = [j \in Jobs |-> IF Unfinished(j)
                                      THEN [row[j] EXCEPT !.state = "finished"]
                                      ELSE row[j]]
       ELSE /\ daemon' = [daemon EXCEPT ![d] = "absent"]
            /\ UNCHANGED <<holder, stopping, row>>
    /\ UNCHANGED <<release, proc, memory, client, requests, accidents>>

\* _check_idle, ten minutes after the last request.
IdleExit ==
    /\ Listening
    /\ spawned = None
    /\ stopping = "no"
    /\ \A j \in Jobs : ~Unfinished(j)
    /\ stopping' = "idle"
    /\ UNCHANGED <<daemon, release, holder, row, proc, memory, client, requests, accidents>>

\* The accept loop sees the flag; every process that is still in the table is killed.
ServeEnds(d) ==
    /\ daemon[d] = "serving"
    /\ stopping # "no"
    /\ spawned = None
    /\ daemon' = [daemon EXCEPT ![d] = "closing"]
    /\ proc' = Kills({processes[j] : j \in Jobs} \ {None})
    /\ UNCHANGED <<release, holder, stopping, row, memory, client, requests, accidents>>

Gone(d) ==
    /\ daemon' = [daemon EXCEPT ![d] = "absent"]
    /\ holder' = IF holder = d THEN None ELSE holder
    /\ processes' = [j \in Jobs |-> None]
    /\ collector' = [j \in Jobs |-> "none"]
    /\ spawned' = None
    \* What it has spawned and not reaped lives on without it.
    /\ proc' = [p \in Procs |-> IF proc[p].by = d THEN [proc[p] EXCEPT !.by = None] ELSE proc[p]]

DaemonExitsEarly(d) ==       \* Mutant: the collectors are not joined
    /\ daemon[d] = "closing"
    /\ Gone(d)
    /\ UNCHANGED <<release, stopping, row, client, requests, accidents>>

\* Collectors that do not end within fifteen seconds make serve() raise.  A
\* process that was sent SIGKILL is taken to die within that time.
DaemonExits(d) ==
    LET stuck == {j \in Jobs : /\ collector[j] = "join"
                               /\ proc[processes[j]].group # {}
                               /\ ~proc[processes[j]].doomed}
    IN
    /\ daemon[d] = "closing"
    /\ spawned = None
    /\ \A j \in Jobs \ stuck : collector[j] = "none"
    /\ Gone(d)
    /\ UNCHANGED <<release, stopping, row, client, requests, accidents>>

Crash(d) ==
    /\ crashes < MaxCrashes
    /\ daemon[d] \in {"serving", "closing"}
    /\ Gone(d)
    /\ crashes' = crashes + 1
    /\ UNCHANGED <<release, stopping, row, client, requests, failures>>

-----------------------------------------------------------------------------
(* Collector threads *)

Collecting(j, from, to) ==
    /\ collector[j] = from
    /\ spawned = None
    /\ collector' = [collector EXCEPT ![j] = to]
    /\ UNCHANGED <<server, client, requests, accidents, spawned>>

CollectWait(j) ==
    /\ Collecting(j, "wait", IF Alive(processes[j]) THEN "signal" ELSE "join")
    /\ UNCHANGED <<row, proc, processes>>

CollectSignalNone(j) ==       \* Mutant: nothing is signalled
    /\ Collecting(j, "signal", "reap")
    /\ UNCHANGED <<row, proc, processes>>

\* The timeout: _signal(force), then wait() without a limit.
CollectSignal(j) ==
    /\ Collecting(j, "signal", "reap")
    /\ proc' = Kills({processes[j]})
    /\ UNCHANGED <<row, processes>>

CollectReap(j) ==
    /\ Collecting(j, "reap", "join")
    /\ ~Alive(processes[j])
    /\ UNCHANGED <<row, proc, processes>>

\* The reader ends when nobody holds the pipe; then the row is finished.
CollectJoin(j) ==
    /\ Collecting(j, "join", "done")
    /\ proc[processes[j]].group = {}
    /\ row' = [row EXCEPT ![j].state = "finished"]
    /\ UNCHANGED <<proc, processes>>

CollectDone(j) ==
    /\ Collecting(j, "done", "none")
    /\ processes' = [processes EXCEPT ![j] = None]
    /\ UNCHANGED <<row, proc>>

Collect(j) ==
    CollectWait(j) \/ CollectSignal(j) \/ CollectReap(j) \/ CollectJoin(j) \/ CollectDone(j)

-----------------------------------------------------------------------------
(* Clients: ensure_running, request, shutdown *)

Wants(c, op, j, g) ==
    /\ client[c].stage = "idle"
    /\ requests[c] < MaxRequests
    /\ requests' = [requests EXCEPT ![c] = @ + 1]
    \* A stop never launches a missing Manager.
    /\ client' = [client EXCEPT ![c] = [stage |-> IF op \in {"stop", "force"} THEN "send" ELSE "ensure",
                                        op |-> op, job |-> j, digest |-> g, cold |-> FALSE]]
    /\ UNCHANGED <<server, row, proc, memory, accidents>>

Move(c, stage) ==
    client' = [client EXCEPT ![c] = IF stage = "idle" THEN AtRest ELSE [@ EXCEPT !.stage = stage]]

\* Stopping, when nothing runs, on behalf of whoever asks without force.
Quiet == \A j \in Jobs : ~Unfinished(j)

\* The answer to a ping, which takes no lock: a Manager that stops is waited
\* for, an older one is asked to stop, any other is used.
Pinged(c) ==
    /\ Listening
    /\ Move(c, IF stopping # "no" THEN "exit"
               ELSE IF release[holder] < Release[c] THEN "upgrade" ELSE "send")

Ensure(c) ==
    /\ client[c].stage = "ensure"
    /\ Pinged(c) \/ (~Listening /\ Move(c, "launch"))
    /\ UNCHANGED <<server, row, proc, memory, requests, accidents>>

UpgradeVetoless(c) ==       \* Mutant: jobs do not veto an upgrade
    /\ client[c].stage = "upgrade"
    /\ Listening /\ spawned = None
    /\ stopping' = IF stopping = "no" THEN "graceful" ELSE stopping
    /\ Move(c, "exit")
    /\ UNCHANGED <<daemon, release, holder, row, proc, memory, requests, accidents>>

\* The shutdown request of _upgrade_if_older: when jobs veto it only task_start
\* is refused.  The Manager may have gone since the ping.
Upgrade(c) ==
    /\ client[c].stage = "upgrade"
    /\ \/ /\ ~Listening
          /\ Move(c, IF client[c].cold THEN "await" ELSE "idle")
          /\ UNCHANGED stopping
       \/ /\ Listening /\ spawned = None
          /\ IF stopping = "no" /\ ~Quiet
             THEN /\ Move(c, IF client[c].op = "start" THEN "idle" ELSE "send")
                  /\ UNCHANGED stopping
             ELSE /\ stopping' = IF stopping = "no" THEN "graceful" ELSE stopping
                  /\ Move(c, "exit")
    /\ UNCHANGED <<daemon, release, holder, row, proc, memory, requests, accidents>>

\* _await_manager_exit tries the lock itself, or times out.  A Client that has
\* launched a daemon already does not launch another one.
AwaitExit(c) ==
    /\ client[c].stage = "exit"
    /\ holder = None
    /\ Move(c, IF client[c].cold THEN "send" ELSE "launch")
    /\ UNCHANGED <<server, row, proc, memory, requests, accidents>>

LaunchDaemon(c) ==
    /\ client[c].stage = "launch"
    /\ \E d \in Daemons :
          /\ daemon[d] = "absent"
          /\ daemon' = [daemon EXCEPT ![d] = "launched"]
          /\ release' = [release EXCEPT ![d] = Release[c]]
    /\ client' = [client EXCEPT ![c].stage = "await", ![c].cold = TRUE]
    /\ UNCHANGED <<holder, stopping, row, proc, memory, requests, accidents>>

\* Polling for a Manager; the one that answers may again be an older one.
Await(c) ==
    /\ client[c].stage = "await"
    /\ Pinged(c)
    /\ UNCHANGED <<server, row, proc, memory, requests, accidents>>

\* Time limits and failed connections.
GiveUp(c) ==
    /\ \/ client[c].stage \in {"exit", "await"}
       \/ client[c].stage = "send" /\ ~Listening
    /\ Move(c, "idle")
    /\ UNCHANGED <<server, row, proc, memory, requests, accidents>>

-----------------------------------------------------------------------------
(* Manager.request *)

\* The answer reaches the Client, or is lost and the same request is made again.
Answer(c) ==
    \/ Move(c, "idle") /\ UNCHANGED requests
    \/ /\ requests[c] < MaxRequests
       /\ requests' = [requests EXCEPT ![c] = @ + 1]
       /\ client' = [client EXCEPT ![c].stage = "ensure", ![c].cold = FALSE]

Accepted(c) == Listening /\ spawned = None /\ client[c].stage = "send"

StopVetoless(c) ==       \* Mutant: jobs do not veto a stop
    /\ Accepted(c)
    /\ client[c].op \in {"stop", "force"}
    /\ stopping' = IF stopping # "no" THEN stopping
                   ELSE IF client[c].op = "force" THEN "forced" ELSE "graceful"
    /\ Move(c, "idle")
    /\ UNCHANGED <<daemon, release, holder, row, proc, memory, requests, accidents>>

Stop(c) ==
    LET force == client[c].op = "force" IN
    /\ Accepted(c)
    /\ client[c].op \in {"stop", "force"}
    /\ IF stopping = "no" /\ (Quiet \/ force)
       THEN /\ stopping' = IF force THEN "forced" ELSE "graceful"
            /\ proc' = IF force THEN Kills({processes[j] : j \in {k \in Jobs : Unfinished(k)}} \ {None})
                       ELSE proc
       ELSE UNCHANGED <<stopping, proc>>
    /\ Move(c, "idle")
    /\ UNCHANGED <<daemon, release, holder, row, memory, requests, accidents>>

Refuse(c) ==
    /\ Accepted(c)
    /\ client[c].op \notin {"stop", "force"}
    /\ stopping # "no"
    /\ Move(c, "idle")
    /\ UNCHANGED <<server, row, proc, memory, requests, accidents>>

PrunableAny(m) == {j \in Jobs : MappingOf[j] = m /\ row[j].state # "none"}       \* Mutant

\* _prune removes only finished jobs whose output has been read to its end.
Prunable(m) == {j \in Jobs : MappingOf[j] = m /\ row[j].state = "finished" /\ row[j].collected}

\* The tables that the pruning every request begins with may leave: how many
\* of the removable rows go depends on their age and on the four newest.
Pruned(m) ==
    {[j \in Jobs |-> IF j \in S THEN NoRow ELSE row[j]] : S \in SUBSET Prunable(m)}

Capacity(m, rows) ==
    /\ Cardinality({k \in Jobs : rows[k].state = "running"}) < MaxRunning
    /\ Cardinality({k \in Jobs : rows[k].state = "running" /\ MappingOf[k] = m}) < MaxPerMapping

\* A job id that is taken is never started again.
Known(j, rows) == rows[j].state # "none"

Start(c) ==
    LET j == client[c].job IN
    /\ Accepted(c)
    /\ stopping = "no"
    /\ client[c].op = "start"
    /\ \E rows \in Pruned(MappingOf[j]) :
          /\ row' = rows
          /\ \/ /\ Known(j, rows)
                /\ IF rows[j].digest = client[c].digest THEN Answer(c)
                   ELSE Move(c, "idle") /\ UNCHANGED requests
                /\ UNCHANGED <<proc, spawned>>
             \/ /\ ~Known(j, rows)
                /\ ~Capacity(MappingOf[j], rows)
                /\ Move(c, "idle")
                /\ UNCHANGED <<proc, spawned, requests>>
             \/ /\ ~Known(j, rows)
                /\ Capacity(MappingOf[j], rows)
                /\ \E p \in Procs :
                      /\ proc[p] = NoProc
                      /\ proc' = [proc EXCEPT ![p] = [job |-> j, group |-> {"leader"},
                                                      doomed |-> FALSE, by |-> holder]]
                      /\ spawned' = [job |-> j, digest |-> client[c].digest, proc |-> p, client |-> c]
                /\ UNCHANGED <<client, requests>>
    /\ UNCHANGED <<server, processes, collector, accidents>>

InsertTwice(c) ==       \* Mutant: a row whose commit has failed is taken back
    LET j == spawned.job IN
    /\ spawned # None
    /\ spawned.client = c
    /\ \/ /\ row' = [row EXCEPT ![j] = [state |-> "running", digest |-> spawned.digest,
                                        collected |-> FALSE]]
          /\ processes' = [processes EXCEPT ![j] = spawned.proc]
          /\ collector' = [collector EXCEPT ![j] = "wait"]
          /\ UNCHANGED <<proc, failures>>
       \/ /\ failures < MaxFailures
          /\ failures' = failures + 1
          /\ UNCHANGED <<row, proc, processes, collector>>
    /\ spawned' = None
    /\ Answer(c)
    /\ UNCHANGED <<server, crashes>>

\* Still under the lock: INSERT, the spool files, the threads, the answer.
\* Nothing undoes the spawn when the INSERT raises: the command lives on
\* nobody's record.  When the commit or a spool file raises, the row stays in
\* the connection's transaction, and the job has no process and no threads.
Insert(c) ==
    LET j == spawned.job
        Recorded == row' = [row EXCEPT ![j] = [state |-> "running", digest |-> spawned.digest,
                                               collected |-> FALSE]]
        Fails == failures < MaxFailures /\ failures' = failures + 1 /\ UNCHANGED <<processes, collector>>
    IN
    /\ spawned # None
    /\ spawned.client = c
    /\ \/ /\ Recorded
          /\ processes' = [processes EXCEPT ![j] = spawned.proc]
          /\ collector' = [collector EXCEPT ![j] = "wait"]
          /\ UNCHANGED <<proc, failures>>
       \/ Fails /\ proc' = [proc EXCEPT ![spawned.proc].by = None] /\ UNCHANGED row
       \/ Fails /\ Recorded /\ UNCHANGED proc
    /\ spawned' = None
    /\ Answer(c)
    /\ UNCHANGED <<server, crashes>>

\* task_get: a read to the end of a finished job marks it as collected.
Get(c) ==
    LET j == client[c].job IN
    /\ Accepted(c)
    /\ stopping = "no"
    /\ client[c].op = "get"
    /\ \E rows \in Pruned(MappingOf[j]), whole \in BOOLEAN :
          row' = [rows EXCEPT ![j].collected = @ \/ (whole /\ rows[j].state = "finished")]
    /\ Move(c, "idle")
    /\ UNCHANGED <<server, proc, memory, requests, accidents>>

\* task_interrupt and task_kill; SIGINT only asks.
Signal(c) ==
    LET j == client[c].job IN
    /\ Accepted(c)
    /\ stopping = "no"
    /\ client[c].op \in {"interrupt", "kill"}
    /\ row' \in Pruned(MappingOf[j])
    /\ proc' = IF client[c].op = "kill" THEN Kills({processes[j]}) ELSE proc
    /\ Move(c, "idle")
    /\ UNCHANGED <<server, memory, requests, accidents>>

Request(c) == Stop(c) \/ Refuse(c) \/ Start(c) \/ Insert(c) \/ Get(c) \/ Signal(c)
ClientStep(c) ==
    \/ Ensure(c) \/ Upgrade(c) \/ AwaitExit(c) \/ LaunchDaemon(c) \/ Await(c) \/ GiveUp(c)
    \/ Request(c)

-----------------------------------------------------------------------------
(* Processes *)

Fork(p) ==
    /\ Alive(p)
    /\ ~proc[p].doomed
    /\ "child" \notin proc[p].group
    /\ proc' = [proc EXCEPT ![p].group = @ \cup {"child"}]
    /\ UNCHANGED <<server, row, memory, client, requests, accidents>>

Exit(p) ==
    /\ \E q \in proc[p].group : proc' = [proc EXCEPT ![p].group = @ \ {q}]
    /\ UNCHANGED <<server, row, memory, client, requests, accidents>>

Die(p) == proc[p].doomed /\ Exit(p)

Next ==
    \/ \E d \in Daemons : Launch(d) \/ ServeEnds(d) \/ DaemonExits(d) \/ Crash(d)
    \/ IdleExit
    \/ \E j \in Jobs : Collect(j)
    \/ \E c \in Clients : \/ \E op \in Operations, j \in Jobs, g \in Digests : Wants(c, op, j, g)
                          \/ ClientStep(c)
    \/ \E p \in Procs : Fork(p) \/ Exit(p)

Spec == Init /\ [][Next]_vars

Fairness ==
    /\ \A d \in Daemons : WF_vars(Launch(d)) /\ WF_vars(ServeEnds(d)) /\ WF_vars(DaemonExits(d))
    /\ \A j \in Jobs : WF_vars(Collect(j))
    /\ \A c \in Clients : WF_vars(ClientStep(c))
    /\ \A p \in Procs : WF_vars(Die(p))

FairSpec == Spec /\ Fairness
-----------------------------------------------------------------------------
(* Properties *)

ManagerTypeOK ==
    /\ daemon \in [Daemons -> {"absent", "launched", "serving", "closing"}]
    /\ holder \in Daemons \cup {None}
    /\ stopping \in {"no", "idle", "graceful", "forced"}
    /\ \A j \in Jobs : /\ row[j].state \in {"none", "running", "finished"}
                       /\ processes[j] \in Procs \cup {None}
                       /\ collector[j] \in {"none", "wait", "signal", "reap", "join", "done"}
                       /\ (collector[j] = "none") = (processes[j] = None)
    /\ \A p \in Procs : proc[p].group \subseteq {"leader", "child"}

\* A daemon that starts never marks as interrupted a job that another daemon
\* still runs: main() takes manager.lock before Manager() and keeps it until
\* the collectors are gone.
RestartSparesLiveJobs ==
    \A j \in Jobs : collector[j] \in {"wait", "signal", "reap", "join"} => Unfinished(j)

\* "Duplicate starts with an already-owned ID return the existing job": two
\* commands of one job that a daemon has on its record never run at once,
\* although answers are lost, starts are retried and rows are pruned.  A
\* command whose INSERT has raised is on no record: the retry of that start,
\* like one after a crash, does run the command a second time.
OneCommandPerJob ==
    \A p, q \in Procs : p # q /\ proc[p].job = proc[q].job /\ proc[p].by = proc[q].by /\ Alive(p)
                        => ~Alive(q) \/ proc[p].by = None

\* A stop without force, an upgrade and the idle timer wait for the jobs:
\* once they have been accepted nothing runs and nothing is started.
GracefulStopIsQuiet ==
    holder # None /\ stopping \in {"idle", "graceful"} =>
        spawned = None /\ \A j \in Jobs : ~Unfinished(j)

\* An orderly exit leaves an unfinished row only for a job whose pipe is held
\* by a process that outlived its command, and for one whose start failed
\* between its INSERT and its collector.
ExitSavesState ==
    [][holder # None /\ holder' = None /\ crashes' = crashes =>
            \A j \in Jobs : row'[j].state = "running" =>
                IF processes[j] = None THEN failures > 0
                ELSE proc[processes[j]].group = {"child"}]_vars

\* The timeout ends every job that has a collector, unless a child that
\* outlives it keeps the pipe.
JobEnds ==
    \A j \in Jobs : collector[j] # "none" ~>
        collector[j] = "none" \/ (processes[j] # None /\ proc[processes[j]].group = {"child"})

=============================================================================
