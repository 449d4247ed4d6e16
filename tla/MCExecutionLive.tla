--------------------------- MODULE MCExecutionLive ---------------------------
(***************************************************************************)
(* The command side under fair threads, one part at a time: a Server Shell *)
(* task, a Job Manager job, and the job's output and input spools.  The    *)
(* parts share no state here; the one that is explored is chosen first.    *)
(***************************************************************************)
EXTENDS JobSpool, TLC

CONSTANTS None, t1, o1, i1, c1, d1, p1, p2, j1, m1, g1

VARIABLES
    part,
    pc, id, owner, stdin, lease, group, doomed, published, interrupted, forced, timedOut,
    grace, history, lost, closing, ctl, closer, faults,
    daemon, release, holder, stopping, jobRow, proc, processes, collector, spawned,
    client, requests, crashes, failures

Task == INSTANCE TaskRegistry WITH
    Tasks <- {t1}, Owners <- {o1}, Ids <- {i1}, Controllers <- {c1}, Leases <- BOOLEAN,
    Interactive <- BOOLEAN,
    MaxPerToken <- 1, MaxGlobal <- 1, Keep <- 1,
    FaultKinds <- {"spawn", "readers", "lease", "save"}, MaxFaults <- 1, Closes <- TRUE, Forks <- TRUE

Job == INSTANCE JobManager WITH
    Clients <- {c1}, Daemons <- {d1}, Procs <- {p1, p2}, Jobs <- {j1},
    MappingOf <- (j1 :> m1), Digests <- {g1}, Release <- (c1 :> 1),
    MaxRunning <- 2, MaxPerMapping <- 1, Operations <- {"start", "kill", "force"},
    MaxCrashes <- 0, MaxFailures <- 1, MaxRequests <- 3, row <- jobRow

taskVars == <<pc, id, owner, stdin, lease, group, doomed, published, interrupted, forced,
              timedOut, grace, history, lost, closing, ctl, closer, faults>>
jobVars  == <<daemon, release, holder, stopping, jobRow, proc, processes, collector, spawned,
              client, requests, crashes, failures>>

LiveInit ==
    /\ part \in {"task", "job", "output", "input"}
    /\ Init /\ Task!Init /\ Job!Init

\* The task either has an open standard input or meets close() and faults.
TaskPart   == /\ part = "task" /\ Task!Next
              /\ stdin'[t1] # "none" => ~closing' /\ faults' = 0
              /\ UNCHANGED <<part, jobVars, vars>>
JobPart    == part = "job" /\ Job!Next /\ UNCHANGED <<part, taskVars, vars>>
\* The output spool without crashes (MCJobCrash shows what they do), and the
\* input spool with them.
OutputPart == /\ part = "output" /\ Next /\ accepted' = 0 /\ ~inRow'.closed /\ ~Restart
              /\ UNCHANGED <<part, taskVars, jobVars>>
InputPart  == /\ part = "input" /\ Next /\ produced' = 0
              /\ UNCHANGED <<part, taskVars, jobVars>>

LiveNext == TaskPart \/ JobPart \/ OutputPart \/ InputPart

SpoolPart(A) == part \in {"output", "input"} /\ A

LiveSpec ==
    /\ LiveInit /\ [][LiveNext]_<<part, vars, taskVars, jobVars>>
    /\ Task!Fairness /\ Job!Fairness
    /\ WF_vars(SpoolPart(Commit)) /\ WF_vars(SpoolPart(Read)) /\ WF_vars(SpoolPart(Worker))

\* The variables of the three components keep their types.
ExecutionTypeOK == SpoolTypeOK /\ Task!TypeOK /\ Job!ManagerTypeOK

\* A command that outlives its timeout ends, and with a mount lease its whole
\* process group does (ShellTask._run, terminate).
TaskEnds == Task!TaskEnds

\* Every job of the Manager ends by its timeout (Manager._collect).
JobEnds == Job!JobEnds

=============================================================================
