------------------------------ MODULE Uploads ------------------------------
(***************************************************************************)
(* Resumable uploads: UploadRegistry (files/uploads.py) and the commit     *)
(* handlers that publish a complete upload (files/file_handlers.py,        *)
(* mapping/mapping_uploads.py).  HTTP threads share the registry under one *)
(* lock, which append holds while it reads the request body; the commit    *)
(* handler takes it three times and works on the destination in between.   *)
(*                                                                         *)
(* A file is its length: bytes are only ever written at the record's       *)
(* offset, so a length says which prefix of the upload the file holds.     *)
(***************************************************************************)
EXTENDS Integers, FiniteSets, FiniteSetsExt

CONSTANTS
    Ids,         \* upload ids that may be drawn
    Threads,     \* HTTP threads
    Size,        \* expected_size of every upload
    Quota,       \* max_incomplete_bytes
    Kinds,       \* where the destination may lie: local, storage, mapping
    MaxFaults,   \* bound: calls that fail for no modelled reason
    MaxRestarts, \* bound: deaths of the server process
    MaxWrites,   \* bound: steps of another program at the destination
    None         \* no thread, no upload

Absent  == -1                   \* no record, no file
Offsets == Absent .. Size

VARIABLES
    records,   \* _records: id -> offset, in memory
    metadata,  \* <id>.json: id -> offset, on disk
    part,      \* .<id>.part: id -> length, on disk
    expired,   \* ids whose expires_at has passed
    used,      \* ids drawn so far
    lock,      \* the thread that holds UploadRegistry._lock
    th,        \* thread -> where it is and what it works on
    stage,     \* thread -> length of its .openkapsel-put- file
    kind,      \* local directory, Storage Provider mount or Client mapping
    target,    \* the destination: who wrote it and its length
    writes, faults, restarts,
    acked,     \* history: id -> the offset last told to the Client
    closed,    \* history: ids that a cancel or a commit began to remove
    unsaved,   \* history: ids whose last append could not save its offset
    orphans    \* history: ids whose file an error left without a record

vars == <<records, metadata, part, expired, used, lock, th, stage, kind, target,
          writes, faults, restarts, acked, closed, unsaved, orphans>>

Free  == [pc |-> "idle", op |-> "none", id |-> None, n |-> 0, victim |-> None]
Empty == [by |-> None, len |-> 0]

Init ==
    /\ records = [u \in Ids |-> Absent]
    /\ metadata = [u \in Ids |-> Absent]
    /\ part = [u \in Ids |-> Absent]
    /\ expired = {} /\ used = {} /\ lock = None
    /\ th = [t \in Threads |-> Free]
    /\ stage = [t \in Threads |-> Absent]
    /\ kind \in Kinds /\ target = Empty
    /\ writes = 0 /\ faults = 0 /\ restarts = 0
    /\ acked = [u \in Ids |-> Absent]
    /\ closed = {} /\ unsaved = {} /\ orphans = {}

Live == {u \in Ids : records[u] # Absent}
Id(t) == th[t].id

In(t, pc)    == th[t].pc = pc
Body(t, op)  == In(t, "body") /\ th[t].op = op
Goto(t, pc)  == th' = [th EXCEPT ![t].pc = pc]
Answer(t)    == th' = [th EXCEPT ![t] = Free]
Unlock       == lock' = None
Fault        == faults < MaxFaults /\ faults' = faults + 1

Registry == <<records, metadata, part, expired, used, closed, orphans>>
Place    == <<stage, kind, target, writes>>
Told     == <<acked, unsaved>>
Counters == <<faults, restarts, Told>>

----------------------------------------------------------------------------
(* The lock, and the purge that create and get run first.                  *)

\* A request arrives: create, append, status, cancel or commit of an upload.
\* The handler of create looks at the destination before it calls create.
Request(t, op, u) ==
    /\ In(t, "idle") /\ lock = None
    /\ IF op = "create" THEN u \notin used /\ target = Empty ELSE u \in used
    /\ lock' = t
    /\ th' = [th EXCEPT ![t] = [Free EXCEPT !.pc = "purge", !.op = op, !.id = u]]
    /\ UNCHANGED <<Registry, Place, Counters>>

\* The commit handler comes back for the lock, in copy_to.
Relock(t) ==
    /\ In(t, "looked") /\ lock = None
    /\ lock' = t
    /\ th' = [th EXCEPT ![t].pc = "purge", ![t].op = "copy"]
    /\ UNCHANGED <<Registry, Place, Counters>>

\* _remove_locked up to the unlink of the temporary file; Forget is the rest.
RemoveLocked(t, u, reply) ==
    /\ records' = [records EXCEPT ![u] = Absent]
    /\ part' = [part EXCEPT ![u] = Absent]
    /\ th' = [th EXCEPT ![t].pc = reply, ![t].victim = u]
    /\ UNCHANGED metadata

Purge(t) ==
    /\ In(t, "purge")
    /\ \E u \in expired \cap Live : RemoveLocked(t, u, "purging")
    /\ UNCHANGED <<expired, used, lock, closed, orphans, Place, Counters>>

\* The uploads whose removal is the thread's next call.
Removing(t) ==
    CASE In(t, "purge") -> expired \cap Live
      [] Body(t, "cancel") -> {Id(t)} \cap Live
      [] In(t, "inspected") /\ lock = None -> {Id(t)} \cap Live
      [] OTHER -> {}

\* The first unlink raises: the record has gone from memory and both files stay.
RemoveFails(t) ==
    /\ \E u \in Removing(t) :
          /\ records' = [records EXCEPT ![u] = Absent]
          /\ orphans' = orphans \cup {u}
          /\ closed' = IF In(t, "purge") THEN closed ELSE closed \cup {u}
    /\ Fault
    /\ Answer(t) /\ Unlock
    /\ stage' = [stage EXCEPT ![t] = Absent]
    /\ UNCHANGED <<metadata, part, expired, used, kind, target, writes, restarts, Told>>

\* The rest of _remove_locked, which leaves neither file, and the end of
\* cancel and finish.
Forget(t) ==
    /\ th[t].pc \in {"purging", "cancelling", "finishing"}
    /\ metadata' = [metadata EXCEPT ![th[t].victim] = Absent]
    /\ part' = [part EXCEPT ![th[t].victim] = Absent]
    /\ IF In(t, "purging")
       THEN th' = [th EXCEPT ![t].pc = "purge", ![t].victim = None] /\ UNCHANGED lock
       ELSE Answer(t) /\ Unlock
    /\ UNCHANGED <<records, expired, used, closed, orphans, Place, Counters>>

\* The second unlink raises: a metadata file without its upload stays.
ForgetFails(t) ==
    /\ th[t].pc \in {"purging", "cancelling", "finishing"}
    /\ Fault
    /\ Answer(t) /\ Unlock
    /\ stage' = [stage EXCEPT ![t] = Absent]
    /\ UNCHANGED <<Registry, kind, target, writes, restarts, Told>>

Purged(t) ==
    /\ In(t, "purge") /\ expired \cap Live = {}
    /\ Goto(t, "body")
    /\ UNCHANGED <<Registry, lock, Place, Counters>>

\* 404, 409, 413 and 507: the answer is an error and nothing changes.
Refuse(t) ==
    /\ Answer(t) /\ Unlock
    /\ UNCHANGED <<Registry, kind, target, writes, Counters>>
    /\ stage' = [stage EXCEPT ![t] = Absent]

\* Answers that carry the offset in memory: status, a 409 of append, an
\* upload_incomplete of commit.
Tell(t) ==
    /\ Answer(t) /\ Unlock
    /\ acked' = [acked EXCEPT ![Id(t)] = records[Id(t)]]
    /\ UNCHANGED <<Registry, Place, faults, restarts, unsaved>>

----------------------------------------------------------------------------
(* create, append, status and cancel.                                      *)

Reserved == Size * Cardinality(Live)

\* Mutant: the new upload itself is not counted
FitsWithoutNew == Reserved <= Quota

\* reserved + expected_size <= max_incomplete_bytes
Fits == Reserved + Size <= Quota

Create(t) ==
    /\ Body(t, "create")
    /\ IF ~Fits THEN Refuse(t)
       ELSE /\ part' = [part EXCEPT ![Id(t)] = 0]
            /\ records' = [records EXCEPT ![Id(t)] = 0]
            /\ used' = used \cup {Id(t)}
            /\ Goto(t, "save")
            /\ UNCHANGED <<metadata, expired, closed, orphans, lock, Place, Counters>>

\* append checks the offset and the size, then reads the body from the socket.
Append(t) ==
    /\ Body(t, "append")
    /\ IF records[Id(t)] = Absent THEN Refuse(t)
       ELSE \/ Refuse(t) \/ Tell(t)
            \/ \E n \in 0 .. Size - records[Id(t)] :
                 /\ th' = [th EXCEPT ![t].pc = "stream", ![t].n = n]
                 /\ UNCHANGED <<Registry, lock, Place, Counters>>

Grow(t) == [part EXCEPT ![Id(t)] = Max({@, records[Id(t)] + th[t].n})]

\* The chunk is written and synced, and the offset moves in memory.
Stream(t) ==
    /\ In(t, "stream")
    /\ part' = Grow(t)
    /\ records' = [records EXCEPT ![Id(t)] = @ + th[t].n]
    /\ Goto(t, "save")
    /\ UNCHANGED <<metadata, expired, used, closed, orphans, lock, Place, Counters>>

\* Some bytes arrive: a death here leaves them beyond the saved offset.
StreamSome(t) ==
    /\ In(t, "stream")
    /\ part' = [part EXCEPT ![Id(t)] = Max({@, records[Id(t)] + 1})]
    /\ th[t].n > 1 /\ part' # part
    /\ UNCHANGED <<records, metadata, expired, used, closed, orphans, lock, th, Place, Counters>>

\* The body ends early: truncate to the offset, 400.
StreamEnds(t) ==
    /\ In(t, "stream") /\ th[t].n > 0
    /\ part' = [part EXCEPT ![Id(t)] = records[Id(t)]]
    /\ Answer(t) /\ Unlock
    /\ UNCHANGED <<records, metadata, expired, used, closed, orphans, Place, Counters>>

\* OSError while writing: what was written stays beyond the offset, 500.
StreamFails(t) ==
    /\ In(t, "stream") /\ Fault
    /\ Answer(t) /\ Unlock
    /\ UNCHANGED <<Registry, Place, restarts, Told>>

\* A save that only happens once the upload is complete.
SaveWhenComplete(t) ==
    /\ In(t, "save")
    /\ metadata' = IF records[Id(t)] \in {0, Size}
                   THEN [metadata EXCEPT ![Id(t)] = records[Id(t)]] ELSE metadata
    /\ acked' = [acked EXCEPT ![Id(t)] = records[Id(t)]]
    /\ unsaved' = unsaved \ {Id(t)}
    /\ Answer(t) /\ Unlock
    /\ UNCHANGED <<records, part, expired, used, closed, orphans, Place, faults, restarts>>

\* _save_locked replaces the metadata file, then the answer goes out.
Save(t) ==
    /\ In(t, "save")
    /\ metadata' = [metadata EXCEPT ![Id(t)] = records[Id(t)]]
    /\ acked' = [acked EXCEPT ![Id(t)] = records[Id(t)]]
    /\ unsaved' = unsaved \ {Id(t)}
    /\ Answer(t) /\ Unlock
    /\ UNCHANGED <<records, part, expired, used, closed, orphans, Place, faults, restarts>>

\* _save_locked raises: create takes everything back, append does not.
SaveFails(t) ==
    /\ In(t, "save") /\ Fault
    /\ IF th[t].op = "create"
       THEN /\ records' = [records EXCEPT ![Id(t)] = Absent]
            /\ part' = [part EXCEPT ![Id(t)] = Absent]
            /\ UNCHANGED unsaved
       ELSE /\ unsaved' = unsaved \cup {Id(t)}
            /\ UNCHANGED <<records, part>>
    /\ Answer(t) /\ Unlock
    /\ UNCHANGED <<metadata, expired, used, closed, orphans, Place, restarts, acked>>

Status(t) ==
    /\ Body(t, "status")
    /\ IF records[Id(t)] = Absent THEN Refuse(t) ELSE Tell(t)

Cancel(t) ==
    /\ Body(t, "cancel")
    /\ IF records[Id(t)] = Absent THEN Refuse(t)
       ELSE /\ RemoveLocked(t, Id(t), "cancelling")
            /\ closed' = closed \cup {Id(t)}
            /\ UNCHANGED <<expired, used, orphans, lock, Place, Counters>>

----------------------------------------------------------------------------
(* commit: verify, look, stage a copy, look again, publish, finish.        *)

IsComplete(u) == records[u] = Size

\* verify: the whole file is read under the lock; the checksum may differ.
Verify(t) ==
    /\ Body(t, "commit")
    /\ \/ (records[Id(t)] = Absent \/ IsComplete(Id(t))) /\ Refuse(t)
       \/ records[Id(t)] # Absent /\ ~IsComplete(Id(t)) /\ Tell(t)
       \/ /\ IsComplete(Id(t))
          /\ Goto(t, "verified") /\ Unlock
          /\ UNCHANGED <<Registry, Place, Counters>>

\* parent.lstat() (exists() on a mapping), then the hidden file is created.
Look(t) ==
    /\ In(t, "verified")
    /\ IF target # Empty THEN Answer(t) /\ UNCHANGED stage
       ELSE Goto(t, "looked") /\ stage' = [stage EXCEPT ![t] = 0]
    /\ UNCHANGED <<Registry, lock, kind, target, writes, Counters>>

CopyUnchecked(t) ==
    /\ Body(t, "copy")
    /\ IF records[Id(t)] = Absent THEN Refuse(t)
       ELSE /\ stage' = [stage EXCEPT ![t] = Min({part[Id(t)], Size - 1})]
            /\ Goto(t, "copied") /\ Unlock
            /\ UNCHANGED <<Registry, kind, target, writes, Counters>>

\* copy_to: get again, copy all of the temporary file, compare the lengths.
CopyTo(t) ==
    /\ Body(t, "copy")
    /\ IF records[Id(t)] = Absent \/ part[Id(t)] # Size THEN Refuse(t)
       ELSE /\ stage' = [stage EXCEPT ![t] = part[Id(t)]]
            /\ Goto(t, "copied") /\ Unlock
            /\ UNCHANGED <<Registry, kind, target, writes, Counters>>

CopyFails(t) ==
    /\ Body(t, "copy") /\ Fault
    /\ Answer(t) /\ Unlock
    /\ stage' = [stage EXCEPT ![t] = Absent]
    /\ UNCHANGED <<Registry, kind, target, writes, restarts, Told>>

\* The handler's finally clause: remove the hidden file and answer an error.
Abort(t) ==
    /\ Answer(t)
    /\ stage' = [stage EXCEPT ![t] = Absent]

\* The second parent.lstat(); a mapping leaves the test to its rename.
LookAgain(t) ==
    /\ In(t, "copied")
    /\ IF kind # "mapping" /\ target # Empty THEN Abort(t)
       ELSE Goto(t, "publish") /\ UNCHANGED stage
    /\ UNCHANGED <<Registry, lock, kind, target, writes, Counters>>

\* rename() in place of link(): it replaces what appeared since the look.
PublishReplacing(t) ==
    /\ In(t, "publish")
    /\ target' = [by |-> Id(t), len |-> stage[t]]
    /\ stage' = [stage EXCEPT ![t] = Absent]
    /\ Goto(t, "published")
    /\ UNCHANGED <<Registry, lock, kind, writes, Counters>>

\* os.link, rename_exclusive or the mapping's rename without overwrite.
Publish(t) ==
    /\ In(t, "publish")
    /\ IF target # Empty THEN Abort(t) /\ UNCHANGED target
       ELSE /\ target' = [by |-> Id(t), len |-> stage[t]]
            /\ stage' = [stage EXCEPT ![t] = Absent]
            /\ Goto(t, "published")
    /\ UNCHANGED <<Registry, lock, kind, writes, Counters>>

\* The mapping has renamed, and its answer is lost.
PublishUnheard(t) ==
    /\ In(t, "publish") /\ kind = "mapping" /\ target = Empty /\ Fault
    /\ target' = [by |-> Id(t), len |-> stage[t]]
    /\ Abort(t)
    /\ UNCHANGED <<Registry, lock, kind, writes, restarts, Told>>

\* _publish_vfs_exclusive: O_EXCL, stream, check, unlink by name on a failure.
\* That the unlink fails too, which the code leaves to an operator, is left out.
VfsCreate(t) ==
    /\ In(t, "publish") /\ kind = "storage" /\ target = Empty
    /\ target' = [by |-> Id(t), len |-> 0]
    /\ Goto(t, "vfs")
    /\ UNCHANGED <<Registry, lock, stage, kind, writes, Counters>>

VfsCopy(t) ==
    /\ In(t, "vfs")
    /\ target' = IF target.by = Id(t) THEN [target EXCEPT !.len = stage[t]] ELSE target
    /\ Goto(t, "vfs_check")
    /\ UNCHANGED <<Registry, lock, stage, kind, writes, Counters>>

VfsFails(t) ==
    /\ In(t, "vfs") /\ Fault
    /\ target' = Empty
    /\ Abort(t)
    /\ UNCHANGED <<Registry, lock, kind, writes, restarts, Told>>

VfsCheck(t) ==
    /\ In(t, "vfs_check")
    /\ IF target = [by |-> Id(t), len |-> Size]
       THEN /\ Goto(t, "published")
            /\ stage' = [stage EXCEPT ![t] = Absent] /\ UNCHANGED target
       ELSE target' = Empty /\ Abort(t)
    /\ UNCHANGED <<Registry, lock, kind, writes, Counters>>

\* The destination is opened, or its stat read, for the answer.
Inspect(t) ==
    /\ In(t, "published")
    /\ IF target = Empty THEN Answer(t) ELSE Goto(t, "inspected")
    /\ UNCHANGED <<Registry, lock, Place, Counters>>

\* finish does not purge; a record that is gone is a 404 after publication.
Finish(t) ==
    /\ In(t, "inspected") /\ lock = None
    /\ IF records[Id(t)] = Absent
       THEN Answer(t) /\ UNCHANGED <<records, metadata, part, closed, lock>>
       ELSE /\ RemoveLocked(t, Id(t), "finishing")
            /\ closed' = closed \cup {Id(t)} /\ lock' = t
    /\ UNCHANGED <<expired, used, orphans, Place, Counters>>

----------------------------------------------------------------------------
(* The clock, other programs, and the death of the server.                 *)

Expire(u) ==
    /\ u \in used \ expired
    /\ expired' = expired \cup {u}
    /\ UNCHANGED <<records, metadata, part, used, closed, orphans, lock, th, Place, Counters>>

OtherWrites ==
    /\ writes < MaxWrites /\ writes' = writes + 1
    /\ target' = IF target = Empty THEN [by |-> "other", len |-> Size] ELSE Empty
    /\ UNCHANGED <<Registry, lock, th, stage, kind, Counters>>

\* _load keeps a record whose temporary file has at least offset bytes, and
\* cuts the file to the offset; any other metadata file is removed.
Loaded(u) == metadata[u] # Absent /\ part[u] >= metadata[u]

\* The metadata file is also removed when reading it, or its upload, raises.
Restart ==
    /\ restarts < MaxRestarts /\ restarts' = restarts + 1
    /\ lock' = None /\ th' = [t \in Threads |-> Free]
    /\ stage' = [t \in Threads |-> Absent]
    /\ \E dropped \in {{}} \cup {{u} : u \in {v \in Ids : Loaded(v)}} :
       LET good == {u \in Ids : Loaded(u)} \ dropped
           kept == good \ expired
       IN  /\ IF dropped = {} THEN UNCHANGED faults ELSE Fault
           /\ orphans' = orphans \cup dropped
           /\ records' = [u \in Ids |-> IF u \in kept THEN metadata[u] ELSE Absent]
           /\ metadata' = records'
           /\ part' = [u \in Ids |-> IF u \in kept THEN metadata[u]
                                     ELSE IF u \in good THEN Absent ELSE part[u]]
    /\ UNCHANGED <<expired, used, closed, kind, target, writes, Told>>

Ops == {"create", "append", "status", "cancel", "commit"}

Step(t) ==
    \/ \E op \in Ops, u \in Ids : Request(t, op, u)
    \/ Relock(t) \/ Purge(t) \/ RemoveFails(t) \/ Forget(t) \/ ForgetFails(t) \/ Purged(t)
    \/ Create(t) \/ Append(t) \/ Stream(t) \/ StreamSome(t) \/ StreamEnds(t)
    \/ StreamFails(t) \/ Save(t) \/ SaveFails(t) \/ Status(t) \/ Cancel(t)
    \/ Verify(t) \/ Look(t) \/ CopyTo(t) \/ CopyFails(t) \/ LookAgain(t)
    \/ Publish(t) \/ PublishUnheard(t)
    \/ VfsCreate(t) \/ VfsCopy(t) \/ VfsFails(t) \/ VfsCheck(t)
    \/ Inspect(t) \/ Finish(t)

Next ==
    \/ \E t \in Threads : Step(t)
    \/ \E u \in Ids : Expire(u)
    \/ OtherWrites \/ Restart

Spec == Init /\ [][Next]_vars

----------------------------------------------------------------------------
(* Properties.                                                             *)

\* Every record, file and thread has its type; the lock is held exactly by
\* the thread that is inside the registry.
UploadTypeOK ==
    /\ records \in [Ids -> Offsets] /\ metadata \in [Ids -> Offsets]
    /\ part \in [Ids -> Offsets] /\ stage \in [Threads -> Offsets]
    /\ expired \subseteq used /\ used \subseteq Ids
    /\ unsaved \subseteq used /\ orphans \subseteq used
    /\ \A t \in Threads : (lock = t) <=>
         th[t].pc \in {"purge", "purging", "body", "stream", "save", "cancelling", "finishing"}

\* The bytes below an offset that the Client was told, by append, by status or
\* by a refusal, are still there, in the record and in the file, until the
\* upload expires, is cancelled or is committed.  Two errors excuse a server that
\* has restarted since: the last append could not save the offset that a
\* later answer told, or _load could not read the upload and dropped it.
AckedBytesKept ==
    \A u \in Ids \ (expired \cup closed) :
        \/ records[u] >= acked[u] /\ part[u] >= acked[u]
        \/ restarts > 0 /\ u \in unsaved \cup orphans

\* The temporary files never hold more than max_incomplete_bytes, whatever
\* order of removals and restarts came before: no file is left unaccounted,
\* except one whose unlink raised or whose record _load dropped.
DiskWithinQuota == MapThenSumSet(LAMBDA u : Max({part[u], 0}), Ids \ orphans) <= Quota

\* A file that stands at the destination is never replaced by an upload, even
\* if it appeared after the handler looked.
NeverReplaces ==
    [][target # Empty /\ target' # target =>
          target' = Empty \/ (target'.by = target.by /\ target'.len > target.len)]_vars

\* A reader of the destination sees a whole upload; only the fallback of a
\* Storage Provider may show a part of it, while it runs or after a restart.
PublishedWhole ==
    target.by \in Ids /\ target.len # Size =>
        /\ kind = "storage"
        /\ restarts > 0 \/ \E t \in Threads : th[t].pc = "vfs" /\ Id(t) = target.by

=============================================================================
