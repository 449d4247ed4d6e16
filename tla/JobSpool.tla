------------------------------ MODULE JobSpool ------------------------------
(***************************************************************************)
(* The disk spools of one job of the Job Manager (job_manager.py): output  *)
(* that the collector appends and a Client reads by offset, and input that *)
(* requests append and the input worker writes to the command.             *)
(*                                                                         *)
(* Bytes are numbered 1, 2, ... in the order in which they are produced,   *)
(* so that a spool is a sequence of numbers and offset k stands before     *)
(* byte k + 1.  The Manager's lock makes each operation atomic for the     *)
(* others; a crash may still fall between the file and the row.            *)
(***************************************************************************)
EXTENDS Integers, Sequences, FiniteSets, SequencesExt

CONSTANTS
    Cap,            \* MAX_OUTPUT
    Page,           \* bytes of one read (65536)
    TrimAt,         \* consumed bytes that are worth a rewrite (1 MiB)
    Slots,          \* size of the input queue (16)
    MaxOut, MaxIn,  \* bounds: bytes produced, bytes accepted
    MaxLost,        \* bound: responses lost on their way
    Crashes         \* bound: may the Manager crash

ASSUME SpoolAssumption ==
    /\ Cap \in Nat \ {0} /\ Page \in Nat \ {0} /\ TrimAt \in Nat \ {0} /\ Slots \in Nat \ {0}
    /\ MaxOut \in Nat /\ MaxIn \in Nat /\ MaxLost \in Nat /\ Crashes \in BOOLEAN

VARIABLES
    produced,       \* bytes the command has written
    row,            \* the job's row: [there, base, end, finished, collected]
    file,           \* output/<id>.bin
    commit,         \* the row that the operation in progress will write, or {}
    cursor,         \* the Client's offset
    received,       \* bytes the Client has received, in order
    told,           \* bytes that a gap has told the Client are lost
    mislabelled,    \* some read has returned bytes of another offset
    losses,
    inRow,          \* input_base, input_end, stdin_closed
    inFile,         \* input/<id>.bin
    inQueue,        \* the worker's queue: [start, count, eof]
    worker,         \* the worker's item and the input_base it has read, or idle/done
    accepted,       \* bytes accepted by task_stdin
    written         \* bytes the command has been given

outVars == <<produced, row, file, commit, cursor, received, told, mislabelled, losses>>
inVars == <<inRow, inFile, inQueue, worker, accepted, written>>
vars == <<outVars, inVars>>

SliceShort(s, from, n) ==       \* Mutant: the last byte of the file is left out
    SubSeq(s, from + 1, IF from + n < Len(s) THEN from + n ELSE Len(s) - 1)

\* n bytes of a file from an offset, or as many as there are.
Slice(s, from, n) == SubSeq(s, from + 1, IF from + n < Len(s) THEN from + n ELSE Len(s))
Bytes(a, b) == [i \in 1 .. b - a |-> a + i]
NoItem == [stage |-> "idle", start |-> 0, count |-> 0, eof |-> FALSE, base |-> 0]

Init ==
    /\ produced = 0
    /\ row = [there |-> TRUE, base |-> 0, end |-> 0, finished |-> FALSE, collected |-> FALSE]
    /\ file = <<>>
    /\ commit = {}
    /\ cursor = 0 /\ received = <<>> /\ told = {} /\ mislabelled = FALSE /\ losses = 0
    /\ inRow = [base |-> 0, end |-> 0, closed |-> FALSE]
    /\ inFile = <<>> /\ inQueue = <<>>
    /\ worker = NoItem
    /\ accepted = 0 /\ written = <<>>

-----------------------------------------------------------------------------
(* Output: _append, _read *)

AppendOvercounts(n) ==       \* Mutant: discarded bytes move the end as well
    LET spool == file \o Bytes(produced, produced + n)
        discard == row.end + n - row.base - Cap
        cut == IF discard > 0 THEN discard ELSE 0
    IN
    /\ row.there /\ ~row.finished /\ commit = {}
    /\ produced + n <= MaxOut
    /\ produced' = produced + n
    /\ file' = SubSeq(spool, cut + 1, Len(spool))
    /\ commit' = {[row EXCEPT !.end = @ + n + cut, !.base = @ + cut]}
    /\ UNCHANGED <<row, cursor, received, told, mislabelled, losses, inVars>>

\* The file is appended to and cut to the cap, then the row follows.
AppendOutput(n) ==
    LET spool == file \o Bytes(produced, produced + n)
        discard == row.end + n - row.base - Cap
    IN
    /\ row.there /\ ~row.finished /\ commit = {}
    /\ produced + n <= MaxOut
    /\ produced' = produced + n
    /\ file' = IF discard > 0 THEN SubSeq(spool, discard + 1, Len(spool)) ELSE spool
    /\ commit' = {[row EXCEPT !.end = @ + n, !.base = @ + (IF discard > 0 THEN discard ELSE 0)]}
    /\ UNCHANGED <<row, cursor, received, told, mislabelled, losses, inVars>>

Commit ==
    /\ commit # {}
    /\ row' \in commit
    /\ commit' = {}
    /\ UNCHANGED <<produced, file, cursor, received, told, mislabelled, losses, inVars>>

\* Where a read at this offset begins.
Actual(offset) == IF offset > row.end THEN row.end ELSE IF offset < row.base THEN row.base ELSE offset

\* An offset beyond the base says that what comes before it has arrived.
Trims(offset) ==
    /\ offset > row.base
    /\ Actual(offset) = row.end \/ Actual(offset) - row.base >= TrimAt

ReadReclaims ==       \* Mutant: what an answer carries is reclaimed at once
    LET from == Actual(cursor)
        data == Slice(file, from - row.base, Page)
        next == from + Len(data)
    IN
    /\ row.there /\ commit = {}
    /\ file' = SubSeq(file, next - row.base + 1, Len(file))
    /\ commit' = {[row EXCEPT !.base = next, !.collected = @ \/ (row.finished /\ next = row.end)]}
    /\ \/ cursor' = next /\ received' = received \o data /\ UNCHANGED losses
       \/ losses < MaxLost /\ losses' = losses + 1 /\ UNCHANGED <<cursor, received>>
    /\ UNCHANGED <<produced, row, told, mislabelled, inVars>>

ReadCollects ==       \* Mutant: the first read of a finished job collects it
    LET from == Actual(cursor)
        data == Slice(file, from - row.base, Page)
    IN
    /\ row.there /\ commit = {}
    /\ commit' = {[row EXCEPT !.collected = @ \/ row.finished]}
    /\ \/ /\ cursor' = from + Len(data)
          /\ received' = received \o data
          /\ told' = told \cup (IF cursor < row.base THEN cursor + 1 .. row.base ELSE {})
          /\ UNCHANGED losses
       \/ losses < MaxLost /\ losses' = losses + 1 /\ UNCHANGED <<cursor, received, told>>
    /\ UNCHANGED <<produced, row, file, mislabelled, inVars>>

\* task_get at the Client's cursor; the answer arrives or is lost.
Read ==
    LET from == Actual(cursor)
        skip == from - row.base
        data == Slice(file, skip, Page)
        trims == Trims(cursor)
        kept == IF trims THEN Actual(cursor) ELSE row.base
    IN
    /\ row.there /\ commit = {}
    /\ file' = IF trims THEN SubSeq(file, kept - row.base + 1, Len(file)) ELSE file
    /\ commit' = {[row EXCEPT !.base = kept,
                              !.collected = @ \/ (row.finished /\ from + Len(data) = row.end)]}
    /\ mislabelled' = (mislabelled \/ data # Bytes(from, from + Len(data)))
    /\ \/ /\ cursor' = from + Len(data)
          /\ received' = received \o data
          /\ told' = told \cup (IF cursor < row.base THEN cursor + 1 .. row.base ELSE {})
          /\ UNCHANGED losses
       \/ /\ losses < MaxLost
          /\ losses' = losses + 1
          /\ UNCHANGED <<cursor, received, told>>
    /\ UNCHANGED <<produced, row, inVars>>

\* The command has exited and its pipe is empty.
Finish ==
    /\ row.there /\ ~row.finished /\ commit = {}
    /\ row' = [row EXCEPT !.finished = TRUE]
    /\ UNCHANGED <<produced, file, commit, cursor, received, told, mislabelled, losses, inVars>>

\* _prune, for a job that is old enough.
Prune ==
    /\ row.there /\ row.finished /\ row.collected /\ commit = {}
    /\ row' = [row EXCEPT !.there = FALSE]
    /\ file' = <<>>
    /\ UNCHANGED <<produced, commit, cursor, received, told, mislabelled, losses, inVars>>

\* The Manager crashes; the next one finishes a job that was running.  A job
\* that had finished may be in the middle of a trim.
Restart ==
    /\ Crashes
    /\ row.there
    /\ row' = [row EXCEPT !.finished = TRUE]
    /\ commit' = {}
    /\ worker' = [worker EXCEPT !.stage = "done"]
    /\ UNCHANGED <<produced, file, cursor, received, told, mislabelled, losses, inRow, inFile,
                   inQueue, accepted, written>>

-----------------------------------------------------------------------------
(* Input: task_stdin and _input_worker *)

Stdin(n, eof) ==
    /\ row.there /\ ~row.finished /\ ~inRow.closed
    /\ Len(inQueue) < Slots
    /\ n > 0 \/ eof
    /\ accepted + n <= MaxIn
    /\ accepted' = accepted + n
    /\ inFile' = inFile \o Bytes(accepted, accepted + n)
    /\ inQueue' = Append(inQueue, [start |-> inRow.end, count |-> n, eof |-> eof])
    /\ inRow' = [inRow EXCEPT !.end = @ + n, !.closed = eof]
    /\ UNCHANGED <<worker, written, outVars>>

TakeInput ==
    LET item == Head(inQueue) IN
    /\ worker.stage = "idle"
    /\ inQueue # <<>>
    /\ inQueue' = Tail(inQueue)
    /\ worker' = [stage |-> "write", start |-> item.start, count |-> item.count, eof |-> item.eof,
                  base |-> inRow.base]
    /\ UNCHANGED <<inRow, inFile, accepted, written, outVars>>

\* The read from the spool and the write to the pipe; a short read or a
\* command that has gone ends the worker.
WriteInput ==
    LET skip == worker.start - worker.base
        data == Slice(inFile, skip, worker.count)
    IN
    /\ worker.stage = "write"
    /\ \/ /\ Len(data) = worker.count
          /\ written' = written \o data
          /\ worker' = [worker EXCEPT !.stage = "cut"]
       \/ /\ Len(data) # worker.count \/ row.finished
          /\ worker' = [worker EXCEPT !.stage = "done"]
          /\ UNCHANGED written
    /\ UNCHANGED <<inRow, inFile, inQueue, accepted, outVars>>

CutInputAll ==       \* Mutant: what was appended during the write is dropped
    /\ worker.stage = "cut"
    /\ inFile' = <<>>
    /\ inRow' = [inRow EXCEPT !.base = worker.start + worker.count]
    /\ worker' = IF worker.eof THEN [worker EXCEPT !.stage = "done"] ELSE NoItem
    /\ UNCHANGED <<inQueue, accepted, written, outVars>>

\* The written prefix is cut off, by the input_base read before the write.
CutInput ==
    LET skip == worker.start - worker.base + worker.count IN
    /\ worker.stage = "cut"
    /\ inFile' = SubSeq(inFile, skip + 1, Len(inFile))
    /\ inRow' = [inRow EXCEPT !.base = worker.start + worker.count]
    /\ worker' = IF worker.eof THEN [worker EXCEPT !.stage = "done"] ELSE NoItem
    /\ UNCHANGED <<inQueue, accepted, written, outVars>>

Worker == TakeInput \/ WriteInput \/ CutInput

Next ==
    \/ \E n \in 1 .. MaxOut : AppendOutput(n)
    \/ Commit \/ Read \/ Finish \/ Prune \/ Restart
    \/ \E n \in 0 .. MaxIn, eof \in BOOLEAN : Stdin(n, eof)
    \/ Worker

Spec == Init /\ [][Next]_vars

\* The Manager's threads go on and the Client keeps reading.
FairSpec == Spec /\ WF_vars(Commit) /\ WF_vars(Read) /\ WF_vars(Worker)

-----------------------------------------------------------------------------
(* Properties *)

SpoolTypeOK ==
    /\ row.base \in 0 .. MaxOut /\ row.end \in 0 .. MaxOut
    /\ cursor \in 0 .. MaxOut
    /\ Len(file) <= Cap + MaxOut /\ ToSet(file) \subseteq 1 .. MaxOut
    /\ Len(inQueue) <= Slots /\ inRow.base <= inRow.end
    /\ worker.stage \in {"idle", "write", "cut", "done"}

\* Paging through the output with next_offset delivers every byte once and in
\* order, except bytes that a gap has reported, although answers are lost and
\* asked for again: nothing is trimmed that has not arrived.
DeliveredOnce ==
    /\ \A i \in 1 .. Len(received) - 1 : received[i] < received[i + 1]
    /\ ToSet(received) \cup told = 1 .. cursor

\* The command's standard input is what task_stdin has accepted, in order,
\* although requests append while the worker writes and cuts.
InputInOrder == written = Bytes(0, Len(written)) /\ Len(written) <= accepted

\* Everything that has been accepted reaches a command that goes on reading.
InputDelivered == (accepted = MaxIn /\ MaxIn > 0) ~> (Len(written) = accepted \/ row.finished)

\* A Client that keeps reading catches up with a finished job, unless the job
\* is pruned after its last answer was lost.
OutputDelivered == row.finished ~> (cursor = row.end \/ (~row.there /\ losses > 0))

\* _prune removes a job that was read to its end, and the read counts when it is
\* answered, not when the answer arrives: pruning costs a Client nothing as
\* long as its answers arrive, and never more than the last page.
PruneCostsOnePage ==
    ~row.there => /\ row.end - Actual(cursor) <= Page
                  /\ losses = 0 => cursor = row.end

\* docs/client-mappings.md: "If **the Manager itself** crashes or restarts, its
\* SQLite records and output survive".
OutputSurvives == ~mislabelled
=============================================================================
