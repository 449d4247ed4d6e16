------------------------------ MODULE Mutation ------------------------------
(***************************************************************************)
(* execute_mutation (files/mutation.py): one request edits several paths   *)
(* as a transaction without a lock.  Originals are renamed to hidden       *)
(* backups, staged after-images are renamed into place, deleted paths go   *)
(* to the recycle bin, and a failure undoes the published items in         *)
(* reverse.  Other requests and other programs work on the same paths      *)
(* between any two file-system calls.                                      *)
(*                                                                         *)
(* A file is its version, which is also its ETag (device, inode, size and  *)
(* mtime of the file, kept by a rename).  A Storage Provider may give a    *)
(* renamed file another ETag, so there the content that was measured just  *)
(* before the rename is compared instead.                                  *)
(***************************************************************************)
EXTENDS Naturals, Sequences, FiniteSets

CONSTANTS
    Paths,       \* files of one transaction domain
    Txns,        \* concurrent mutation requests
    Present,     \* the paths that exist at the start
    MaxItems,    \* bound: items of a request
    MaxWrites,   \* bound: writes and removals by other programs
    MaxFaults,   \* bound: file-system calls that fail for no modelled reason
    Remotes,     \* subset of BOOLEAN: may the domain be a Storage Provider mount
    Crashes,     \* the server process may die
    Missing      \* no file at a location

ASSUME MutationAssumption ==
    /\ Present \subseteq Paths
    /\ MaxItems \in Nat /\ MaxWrites \in Nat /\ MaxFaults \in Nat
    /\ Remotes \subseteq BOOLEAN /\ Crashes \in BOOLEAN

Indices == 1 .. MaxItems
Ops     == {"create", "replace", "same", "delete"}

VARIABLES
    disk,      \* location -> version or Missing
    remote,    \* _is_storage_provider_path, for the domain of these requests
    tx,        \* request -> its phase, item index, plans and outcome
    writes,    \* writes made so far by other programs
    faults,    \* unexplained failures so far
    replaced,  \* history: versions somebody replaced or removed knowingly
    raced,     \* history: versions put at a path inside a look-then-rename window
    unheard    \* history: versions moved by a rename that was reported as failed

vars == <<disk, remote, tx, writes, faults, replaced, raced, unheard>>

Stage(t, i)  == <<"stage", t, i>>
Backup(t, i) == <<"backup", t, i>>
Bin(t, i)    == <<"bin", t, i>>
At(p)        == <<"path", p, 0>>
Locations    == {At(p) : p \in Paths}
                    \cup {l \in {"stage", "backup", "bin"} \X Txns \X Indices : TRUE}

Old(p)       == <<"old", p, 0>>
New(t, i)    == <<"new", t, i>>
Own(n)       == <<"own", "program", n>>
Versions     == {Old(p) : p \in Paths} \cup {New(t, i) : t \in Txns, i \in Indices}
                    \cup {Own(n) : n \in 1 .. MaxWrites}

\* MutationPlan: the fields that the commit and the rollback read.
Plan(p, op, etag) ==
    [path |-> p, op |-> op, expected |-> etag, staged |-> FALSE, seen |-> Missing,
     backedUp |-> FALSE, published |-> FALSE, recycled |-> FALSE]

Idle == [phase |-> "idle", i |-> 0, plans |-> <<>>, outcome |-> "none",
         failed |-> FALSE]

Init ==
    /\ disk = [l \in Locations |->
                 IF \E p \in Present : l = At(p) THEN Old(l[2]) ELSE Missing]
    /\ remote \in Remotes
    /\ tx = [t \in Txns |-> Idle]
    /\ writes = 0 /\ faults = 0
    /\ replaced = {} /\ raced = {} /\ unheard = {}

-----------------------------------------------------------------------------
Phases == {"idle", "plan", "stage", "revalidate", "backup", "verify", "publish",
           "publishMove", "recycle", "undo", "undoMove", "undoBackup",
           "undoBackupMove", "undoRestore", "results", "cleanup", "done"}

In(t, phase) == tx[t].phase = phase
Current(t)   == tx[t].plans[tx[t].i]
Last(t)      == tx[t].i = Len(tx[t].plans)

HasOriginal(plan) == plan.op \in {"replace", "delete"}

\* A request has examined p (lstat or ETag) and its rename of p is still to come.
\* On a Storage Provider the ETag is examined by _revalidate for the last time,
\* and what is at p when its digest is taken will be replaced.
InWindow(p, others) ==
    \E t \in others :
       \/ /\ tx[t].phase \in {"publishMove", "undoMove", "undoBackupMove", "undoRestore"}
          /\ Current(t).path = p
       \/ /\ remote
          /\ \E k \in DOMAIN tx[t].plans :
                /\ tx[t].plans[k].path = p /\ HasOriginal(tx[t].plans[k])
                /\ \/ tx[t].phase = "revalidate" /\ k < tx[t].i
                   \/ /\ tx[t].phase \in {"backup", "verify", "publish", "publishMove"}
                      /\ k >= tx[t].i /\ tx[t].plans[k].seen = Missing

Go(t, phase, i)       == tx' = [tx EXCEPT ![t].phase = phase, ![t].i = i]
\* Go, setting fields of the current plan.
GoWith(t, phase, i, plan) ==
    tx' = [tx EXCEPT ![t].phase = phase, ![t].i = i, ![t].plans[tx[t].i] = plan]
End(t, outcome)       == tx' = [tx EXCEPT ![t].phase = "cleanup", ![t].outcome = outcome]

\* os.rename: replaces dst when it exists.  SafePathAccess.rename with
\* overwrite=False looks at dst first, in a call of its own.
Rename(src, dst)      == disk' = [disk EXCEPT ![dst] = disk[src], ![src] = Missing]
\* A version arrives at p: remembered when it falls into a window of another.
Arrive(p, v, others)  == raced' = IF InWindow(p, others) THEN raced \cup {v} ELSE raced

Unseen  == UNCHANGED <<remote, writes, faults, replaced, raced, unheard>>
Fault   == faults < MaxFaults /\ faults' = faults + 1

\* Items of a request: the client names the version it last read.
Items == [path : Paths, op : Ops]
Request(t, items) ==
    /\ In(t, "idle")
    /\ \A k \in DOMAIN items :
          items[k].op = "create" \/ disk[At(items[k].path)] # Missing
    /\ tx' = [tx EXCEPT ![t] =
          [Idle EXCEPT !.phase = "plan", !.i = 1,
             !.plans = [k \in DOMAIN items |->
                Plan(items[k].path, items[k].op,
                     IF items[k].op = "create" THEN Missing
                     ELSE disk[At(items[k].path)])]]]
    /\ UNCHANGED disk /\ Unseen

-----------------------------------------------------------------------------
(* Preflight: _plan_item, _stage_bytes, _revalidate                         *)

Unchanged(plan) == plan.op = "same"
Staged(plan)    == plan.op \in {"create", "replace"}

\* The precondition of one item, as _plan_item and _revalidate test it.
AsExpected(plan) == disk[At(plan.path)] = plan.expected

\* A path named twice is refused when its second item is planned.
Duplicate(t) ==
    \E k \in 1 .. tx[t].i - 1 : tx[t].plans[k].path = Current(t).path

PlanItem(t) ==
    /\ In(t, "plan")
    /\ IF AsExpected(Current(t)) /\ ~Duplicate(t)
       THEN Go(t, IF Last(t) THEN "stage" ELSE "plan", IF Last(t) THEN 1 ELSE tx[t].i + 1)
       ELSE End(t, "rejected")
    /\ UNCHANGED disk /\ Unseen

\* A dry run revalidates and answers; it leaves nothing to clean up.
DryRun(t) ==
    /\ In(t, "stage") /\ tx[t].i = 1
    /\ End(t, IF \A k \in DOMAIN tx[t].plans : AsExpected(tx[t].plans[k])
              THEN "dry_run" ELSE "rejected")
    /\ UNCHANGED disk /\ Unseen

StageItem(t) ==
    /\ In(t, "stage")
    /\ disk' = IF Staged(Current(t))
               THEN [disk EXCEPT ![Stage(t, tx[t].i)] = New(t, tx[t].i)]
               ELSE disk
    /\ GoWith(t, IF Last(t) THEN "revalidate" ELSE "stage", IF Last(t) THEN 1 ELSE tx[t].i + 1,
              [Current(t) EXCEPT !.staged = Staged(Current(t))])
    /\ Unseen

\* A write or fsync that fails after the open: the file is there, and plan.stage
\* does not name it yet.
StageFails(t) ==
    /\ In(t, "stage") /\ Staged(Current(t))
    /\ Fault
    /\ disk' = [disk EXCEPT ![Stage(t, tx[t].i)] = New(t, tx[t].i)]
    /\ End(t, "rejected")
    /\ UNCHANGED <<remote, writes, replaced, raced, unheard>>

Revalidate(t) ==
    /\ In(t, "revalidate")
    /\ IF AsExpected(Current(t))
       THEN Go(t, IF Last(t) THEN "backup" ELSE "revalidate",
                  IF Last(t) THEN 1 ELSE tx[t].i + 1)
       ELSE End(t, "rejected")
    /\ UNCHANGED disk /\ Unseen

\* check_deadline, and a stage that cannot be opened: nothing is published yet.
GiveUp(t) ==
    /\ tx[t].phase \in {"plan", "stage", "revalidate"}
    /\ Fault
    /\ End(t, "rejected")
    /\ UNCHANGED <<remote, disk, writes, replaced, raced, unheard>>

-----------------------------------------------------------------------------
(* Commit: originals to backups, after-images into place, deletes recycled  *)

\* The first item that is still to be published, or the recycle loop.
NextPhase(t) == IF Last(t) THEN "recycle" ELSE "backup"
NextItemRunsOn(t) == tx[t].i + 1
NextItem(t)  == IF Last(t) THEN 1 ELSE tx[t].i + 1

\* An exception inside the commit starts the rollback at the last item.
Raise(t) == Go(t, "undo", Len(tx[t].plans))

Skip(t) ==
    /\ In(t, "backup") /\ Unchanged(Current(t))
    /\ Go(t, NextPhase(t), NextItem(t))
    /\ UNCHANGED disk /\ Unseen

\* A create has no original.
NoOriginal(t) ==
    /\ In(t, "backup") /\ Current(t).op = "create"
    /\ Go(t, "publish", tx[t].i)
    /\ UNCHANGED disk /\ Unseen

\* On a Storage Provider the size and digest of the source are taken first.
Measure(t) ==
    /\ In(t, "backup") /\ HasOriginal(Current(t)) /\ remote
    /\ Current(t).seen = Missing
    /\ IF disk[At(Current(t).path)] = Missing
       THEN Raise(t)
       ELSE GoWith(t, "backup", tx[t].i,
                   [Current(t) EXCEPT !.seen = disk[At(Current(t).path)]])
    /\ UNCHANGED disk /\ Unseen

BackUp(t) ==
    /\ In(t, "backup") /\ HasOriginal(Current(t))
    /\ remote => Current(t).seen # Missing
    /\ IF disk[At(Current(t).path)] = Missing
       THEN Raise(t) /\ UNCHANGED disk
       ELSE /\ Rename(At(Current(t).path), Backup(t, tx[t].i))
            /\ GoWith(t, "verify", tx[t].i, [Current(t) EXCEPT !.backedUp = TRUE])
    /\ Unseen

AlwaysVerified(t) == TRUE

Verified(t) ==
    disk[Backup(t, tx[t].i)] = IF remote THEN Current(t).seen ELSE Current(t).expected

Verify(t) ==
    /\ In(t, "verify")
    /\ IF ~Verified(t) THEN Raise(t)
       ELSE IF Current(t).op = "delete"
       THEN GoWith(t, NextPhase(t), NextItem(t), [Current(t) EXCEPT !.published = TRUE])
       ELSE Go(t, "publish", tx[t].i)
    /\ UNCHANGED disk /\ Unseen

PublishLook(t) ==
    /\ In(t, "publish")
    /\ IF disk[At(Current(t).path)] # Missing THEN Raise(t)
                                              ELSE Go(t, "publishMove", tx[t].i)
    /\ UNCHANGED disk /\ Unseen

PublishMove(t) ==
    /\ In(t, "publishMove")
    /\ Rename(Stage(t, tx[t].i), At(Current(t).path))
    /\ Arrive(Current(t).path, New(t, tx[t].i), Txns \ {t})
    /\ GoWith(t, NextPhase(t), NextItem(t), [Current(t) EXCEPT !.published = TRUE])
    /\ UNCHANGED <<remote, writes, faults, replaced, unheard>>

\* The commit is complete: what the client expected to replace is replaced.
Commit(t, plans) ==
    /\ tx' = [tx EXCEPT ![t] = [@ EXCEPT !.phase = "results", !.i = 1,
                                          !.plans = plans, !.outcome = "committed"]]
    /\ replaced' = replaced \cup
          {plans[k].expected : k \in {j \in DOMAIN plans : plans[j].op = "replace"}}

RecycleItem(t) ==
    /\ In(t, "recycle")
    /\ LET i    == tx[t].i
           gone == Current(t).op = "delete"
           plan == IF gone THEN [Current(t) EXCEPT !.recycled = TRUE, !.backedUp = FALSE]
                           ELSE Current(t)
       IN  /\ IF gone THEN Rename(Backup(t, i), Bin(t, i)) ELSE UNCHANGED disk
           /\ IF Last(t) THEN Commit(t, [tx[t].plans EXCEPT ![i] = plan])
                         ELSE GoWith(t, "recycle", i + 1, plan) /\ UNCHANGED replaced
    /\ UNCHANGED <<remote, writes, faults, raced, unheard>>

\* A call of the commit fails for a reason outside the model, without effect.
CommitFault(t) ==
    /\ tx[t].phase \in {"backup", "verify", "publish", "publishMove", "recycle"}
    /\ Fault
    /\ Raise(t)
    /\ UNCHANGED <<remote, disk, writes, replaced, raced, unheard>>

\* The rename that is due, as source and destination; none in other phases.
DueRename(t) ==
    LET i == tx[t].i
        p == At(Current(t).path)
    IN  CASE tx[t].phase = "publishMove" -> {<<Stage(t, i), p>>}
          [] tx[t].phase = "backup" /\ Current(t).seen # Missing -> {<<p, Backup(t, i)>>}
          [] tx[t].phase = "recycle" /\ Current(t).op = "delete" -> {<<Backup(t, i), Bin(t, i)>>}
          [] OTHER -> {}

\* A Storage Provider performs the rename and its answer is lost: the call
\* raises, and the flag that the rollback reads stays unset.
RenameUnheard(t) ==
    /\ remote /\ tx[t].phase \in {"backup", "publishMove", "recycle"}
    /\ Fault
    /\ \E x \in DueRename(t) :
          /\ disk[x[1]] # Missing
          /\ Rename(x[1], x[2])
          /\ unheard' = unheard \cup {disk[x[1]]}
          /\ IF x[2] = At(Current(t).path) THEN Arrive(x[2][2], disk[x[1]], Txns \ {t})
                                            ELSE UNCHANGED raced
    /\ Raise(t)
    /\ UNCHANGED <<remote, writes, replaced>>

-----------------------------------------------------------------------------
(* _rollback: the items in reverse; a failure is noted and the loop goes on *)

\* The request after undoing its current item, whose plan is now plan.
Undone(t, plan, failed) ==
    LET bad == tx[t].failed \/ failed
    IN  tx' = [tx EXCEPT ![t] =
          [@ EXCEPT !.plans[tx[t].i] = plan, !.failed = bad, !.i = @ - 1,
                    !.phase = IF tx[t].i > 1 THEN "undo"
                              ELSE IF bad THEN "done" ELSE "cleanup",
                    !.outcome = IF tx[t].i > 1 THEN @
                                ELSE IF bad THEN "rollback_failed" ELSE "rolled_back"]]

UndoFails(t) == Undone(t, Current(t), TRUE)

PathIs(t, v) == disk[At(Current(t).path)] = v

\* What the item needs: restore from the bin (refused when its path exists),
\* withdraw the after-image (only when the path still holds it), or only the
\* original back.
Undo(t) ==
    /\ In(t, "undo")
    /\ LET plan == Current(t)
       IN  CASE plan.recycled ->
                  IF PathIs(t, Missing) THEN Go(t, "undoRestore", tx[t].i) ELSE UndoFails(t)
             [] plan.published /\ Staged(plan) ->
                  IF PathIs(t, New(t, tx[t].i)) THEN Go(t, "undoMove", tx[t].i)
                                                ELSE UndoFails(t)
             [] plan.backedUp /\ ~(plan.published /\ Staged(plan)) ->
                  Go(t, "undoBackup", tx[t].i)
             [] OTHER -> Undone(t, plan, FALSE)
    /\ UNCHANGED disk /\ Unseen

\* Withdraw whatever is at the path by now.
UndoMove(t) ==
    /\ In(t, "undoMove")
    /\ IF PathIs(t, Missing) THEN UndoFails(t) /\ UNCHANGED disk
       ELSE /\ Rename(At(Current(t).path), Stage(t, tx[t].i))
            /\ LET plan == [Current(t) EXCEPT !.published = FALSE]
               IN  IF plan.backedUp THEN GoWith(t, "undoBackup", tx[t].i, plan)
                                    ELSE Undone(t, plan, FALSE)
    /\ Unseen

UndoBackup(t) ==
    /\ In(t, "undoBackup")
    /\ IF PathIs(t, Missing) /\ disk[Backup(t, tx[t].i)] # Missing
       THEN Go(t, "undoBackupMove", tx[t].i) ELSE UndoFails(t)
    /\ UNCHANGED disk /\ Unseen

UndoBackupMove(t) ==
    /\ In(t, "undoBackupMove")
    /\ Rename(Backup(t, tx[t].i), At(Current(t).path))
    /\ Arrive(Current(t).path, disk[Backup(t, tx[t].i)], Txns \ {t})
    /\ Undone(t, [Current(t) EXCEPT !.backedUp = FALSE, !.published = FALSE], FALSE)
    /\ UNCHANGED <<remote, writes, faults, replaced, unheard>>

\* RecycleBin.restore after its look at the target.
UndoRestore(t) ==
    /\ In(t, "undoRestore")
    /\ Rename(Bin(t, tx[t].i), At(Current(t).path))
    /\ Arrive(Current(t).path, disk[Bin(t, tx[t].i)], Txns \ {t})
    /\ Undone(t, [Current(t) EXCEPT !.recycled = FALSE, !.published = FALSE], FALSE)
    /\ UNCHANGED <<remote, writes, faults, replaced, unheard>>

UndoFault(t) ==
    /\ tx[t].phase \in {"undo", "undoMove", "undoBackup", "undoBackupMove", "undoRestore"}
    /\ Fault
    /\ UndoFails(t)
    /\ UNCHANGED <<remote, disk, writes, replaced, raced, unheard>>

-----------------------------------------------------------------------------
(* The answer, the finally clause, and the world around                     *)

\* The results are read back from the paths; a path that is gone by now makes
\* the committed request answer with an error.
Results(t) ==
    /\ In(t, "results")
    /\ IF Current(t).op # "delete" /\ PathIs(t, Missing) THEN End(t, "late_error")
       ELSE IF Last(t) THEN End(t, "committed")
       ELSE Go(t, "results", tx[t].i + 1)
    /\ UNCHANGED disk /\ Unseen

CleanupStages(t) ==
    /\ In(t, "cleanup")
    /\ disk' = [l \in Locations |->
                  IF l \in {Stage(t, k) : k \in Indices} THEN Missing ELSE disk[l]]
    /\ Go(t, "done", tx[t].i)
    /\ Unseen

\* The hidden files that item k's plan names.
Artifacts(t, k) == {Backup(t, k)} \cup (IF tx[t].plans[k].staged THEN {Stage(t, k)} ELSE {})

\* The disk without the hidden files of the first n items.
Swept(t, n) ==
    [l \in Locations |-> IF \E k \in 1 .. n : l \in Artifacts(t, k) THEN Missing ELSE disk[l]]

Cleanup(t) ==
    /\ In(t, "cleanup")
    /\ disk' = Swept(t, Len(tx[t].plans))
    /\ Go(t, "done", tx[t].i)
    /\ Unseen

\* An unlink that raises ends the finally clause; the answer is an error.
CleanupAborts(t) ==
    /\ In(t, "cleanup")
    /\ Fault
    /\ \E k \in DOMAIN tx[t].plans, stages \in BOOLEAN :
          disk' = [Swept(t, k - 1) EXCEPT
                     ![Stage(t, k)] = IF stages /\ tx[t].plans[k].staged THEN Missing ELSE @]
    /\ tx' = [tx EXCEPT ![t].phase = "done", ![t].failed = TRUE]
    /\ UNCHANGED <<remote, writes, replaced, raced, unheard>>

\* The server process dies; nothing recovers its requests.
Crash ==
    /\ Crashes
    /\ \E t \in Txns : tx[t].phase \notin {"idle", "done"}
    /\ tx' = [t \in Txns |-> IF tx[t].phase \in {"idle", "done"} THEN tx[t]
                             ELSE [tx[t] EXCEPT !.phase = "done", !.outcome = "crashed"]]
    /\ UNCHANGED disk /\ Unseen

\* Another program replaces, creates or removes the file at p.
Write(p) ==
    /\ writes < MaxWrites
    /\ writes' = writes + 1
    /\ disk' = [disk EXCEPT ![At(p)] = Own(writes + 1)]
    /\ replaced' = replaced \cup ({disk[At(p)]} \ {Missing})
    /\ Arrive(p, Own(writes + 1), Txns)
    /\ UNCHANGED <<remote, tx, faults, unheard>>

Remove(p) ==
    /\ MaxWrites > 0 /\ disk[At(p)] # Missing
    /\ disk' = [disk EXCEPT ![At(p)] = Missing]
    /\ replaced' = replaced \cup {disk[At(p)]}
    /\ UNCHANGED <<remote, tx, writes, faults, raced, unheard>>

Step(t) ==
    \/ PlanItem(t) \/ DryRun(t) \/ StageItem(t) \/ StageFails(t) \/ Revalidate(t) \/ GiveUp(t)
    \/ Skip(t) \/ NoOriginal(t) \/ Measure(t) \/ BackUp(t) \/ Verify(t)
    \/ PublishLook(t) \/ PublishMove(t) \/ RecycleItem(t) \/ CommitFault(t) \/ RenameUnheard(t)
    \/ Undo(t) \/ UndoMove(t) \/ UndoBackup(t) \/ UndoBackupMove(t)
    \/ UndoRestore(t) \/ UndoFault(t) \/ Results(t) \/ Cleanup(t) \/ CleanupAborts(t)

Next ==
    \/ \E t \in Txns, n \in Indices : \E items \in [1 .. n -> Items] : Request(t, items)
    \/ \E t \in Txns : Step(t)
    \/ \E p \in Paths : Write(p) \/ Remove(p)
    \/ Crash

Spec == Init /\ [][Next]_vars

-----------------------------------------------------------------------------
(* Properties                                                               *)

Outcomes == {"none", "rejected", "dry_run", "committed", "late_error",
             "rolled_back", "rollback_failed", "crashed"}

PlanType == [path : Paths, op : Ops, expected : Versions \cup {Missing},
             staged : BOOLEAN, seen : Versions \cup {Missing},
             backedUp : BOOLEAN, published : BOOLEAN, recycled : BOOLEAN]

\* Every location holds a version or nothing, and every request has a phase,
\* an item index and plans of the declared shapes.
MutationTypeOK ==
    /\ disk \in [Locations -> Versions \cup {Missing}]
    /\ \A t \in Txns : /\ tx[t].phase \in Phases
                       /\ tx[t].outcome \in Outcomes
                       /\ tx[t].i \in 0 .. Len(tx[t].plans)
                       /\ \A k \in DOMAIN tx[t].plans : tx[t].plans[k] \in PlanType
    /\ remote \in BOOLEAN /\ writes \in 0 .. MaxWrites /\ faults \in 0 .. MaxFaults
    /\ replaced \subseteq Versions /\ raced \subseteq Versions /\ unheard \subseteq Versions

Committed(t) == tx[t].outcome \in {"committed", "late_error"}

\* Content somebody may still count on: what was there at the start, what other
\* programs wrote, and the after-images of committed requests.
Owed == {Old(p) : p \in Present} \cup {Own(n) : n \in 1 .. writes}
          \cup {New(t, i) : <<t, i>> \in {x \in Txns \X Indices :
                   Committed(x[1]) /\ x[2] \in DOMAIN tx[x[1]].plans
                     /\ Staged(tx[x[1]].plans[x[2]])}}

Lost == Owed \ (replaced \cup {disk[l] : l \in Locations})

\* Whatever fails, races or crashes, content is destroyed only by somebody who
\* named it: another program, or a committed request that expected exactly that
\* version.  There are two exceptions.  Content that arrived at a path between a
\* request's look at it and its rename of it is lost (SafePathAccess.rename, the
\* ETag test of _rollback, RecycleBin.restore); on a Storage Provider that
\* window reaches from _revalidate to the digest.  And an original whose rename
\* to its backup took effect but raised is lost: nothing restores it, and the
\* finally clause unlinks the backup.
NothingLostOutsideWindows == Lost \subseteq raced \cup unheard

\* A finished request is all or nothing.  Refused or rolled back, it left no
\* after-image at a path (unless content arrived in a look-then-rename window,
\* or the rename that published it raised) and nothing in the recycle bin.
\* Committed, every original it deleted is in the recycle bin.  Either way no
\* hidden file is left, except by a cleanup whose unlink raised and except the
\* stage whose own write failed.
AllOrNothing ==
    \A t \in Txns : tx[t].phase = "done" =>
        /\ tx[t].outcome \in {"rejected", "dry_run", "rolled_back"} =>
              \A i \in Indices :
                 /\ disk[Bin(t, i)] = Missing
                 /\ raced = {} /\ New(t, i) \notin unheard =>
                       \A p \in Paths : disk[At(p)] # New(t, i)
        /\ Committed(t) =>
              \A i \in DOMAIN tx[t].plans : tx[t].plans[i].op = "delete" =>
                 disk[Bin(t, i)] = IF remote THEN tx[t].plans[i].seen
                                             ELSE tx[t].plans[i].expected
        /\ tx[t].outcome \notin {"crashed", "rollback_failed"} /\ ~tx[t].failed =>
              \A i \in Indices :
                 /\ disk[Backup(t, i)] = Missing
                 /\ disk[Stage(t, i)] # Missing => tx[t].outcome = "rejected" /\ i = tx[t].i

\* Two requests that both read one version of a path and both change it cannot
\* both commit: the second is refused or rolled back (the ETag test of the
\* backup after the rename).  On a Storage Provider they can, when something is
\* put at the path between the second one's _revalidate and its digest.
NoLostUpdate ==
    \A t, u \in Txns : t # u /\ Committed(t) /\ Committed(u) =>
        \A i \in DOMAIN tx[t].plans, j \in DOMAIN tx[u].plans :
            LET mine == tx[t].plans[i]
                theirs == tx[u].plans[j]
            IN  HasOriginal(mine) /\ HasOriginal(theirs) /\ mine.expected = theirs.expected
                => remote /\ \E plan \in {mine, theirs} :
                                 plan.seen # plan.expected /\ plan.seen \in raced

\* docs/rest-files-and-transfers.md: "exact expected_etag is required".  The
\* original that a committed request set aside, and is about to discard, is the
\* version its client named.
CommitReplacesExpected ==
    \A t \in Txns : tx[t].phase = "results" =>
        \A i \in DOMAIN tx[t].plans : tx[t].plans[i].op = "replace" =>
            disk[Backup(t, i)] = tx[t].plans[i].expected
=============================================================================
