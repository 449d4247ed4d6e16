------------------------------ MODULE MCFiles ------------------------------
(***************************************************************************)
(* Mutation and Uploads for TLC.  The two components share no state, so    *)
(* one run checks them side by side, one scenario at a time:               *)
(*   requests  two concurrent one-item mutation requests                   *)
(*   items     one mutation request of two items                           *)
(*   storage   one request on a Storage Provider mount                     *)
(*   shared    two concurrent one-item requests on such a mount            *)
(*   resume    two uploads of one thread, with a restart                   *)
(*   publish   one upload that two threads commit, expire and cancel       *)
(*             beside another program at the destination                   *)
(***************************************************************************)
EXTENDS Mutation, TLC

CONSTANTS t1, t2, h1, h2, u1, u2,
          Ids, Threads, Size, Quota, Kinds, MaxRestarts, None

VARIABLES scenario,
          records, metadata, part, expired, used, lock, th, stage, kind, target,
          others, failures, restarts, acked, closed, unsaved, orphans

uploadVars == <<records, metadata, part, expired, used, lock, th, stage, kind, target,
                others, failures, restarts, acked, closed, unsaved, orphans>>

U == INSTANCE Uploads WITH writes <- others, faults <- failures

MutationScenarios == {"requests", "items", "storage", "shared"}
UploadScenarios   == {"resume", "publish"}

Single == Cardinality({t \in Txns : tx'[t] # Idle}) <= 1

\* Two requests of one item each; a crash is left to the other scenarios.
Pair == \A t \in Txns : Len(tx'[t].plans) <= 1 /\ tx'[t].outcome # "crashed"

InScenario ==
    CASE scenario = "requests" -> Pair /\ writes' <= 1 /\ faults' <= 1
      [] scenario = "items"    -> Single
      [] scenario = "storage"  -> Single /\ writes' + faults' <= 2
      [] scenario = "shared"   -> Pair /\ writes' + faults' <= 1
      [] scenario = "resume"   -> th'[h2] = U!Free /\ others' = 0 /\ failures' <= 1
      [] scenario = "publish"  -> used' \subseteq {u1} /\ failures' + restarts' <= 1

MCInit ==
    /\ Init /\ U!Init
    /\ scenario \in MutationScenarios \cup UploadScenarios
    /\ remote = (scenario \in {"storage", "shared"})
    /\ scenario # "publish" => kind = "local"

MCNext ==
    /\ \/ scenario \in MutationScenarios /\ Next /\ UNCHANGED uploadVars
       \/ scenario \in UploadScenarios /\ U!Next /\ UNCHANGED vars
    /\ InScenario
    /\ UNCHANGED scenario

Requests == Permutations({t1, t2})

MCSpec == MCInit /\ [][MCNext]_<<vars, uploadVars, scenario>>

\* The variables of the two components keep their types.
FilesTypeOK == MutationTypeOK /\ U!UploadTypeOK

\* Bytes that append acknowledged survive failures and restarts (_save_locked, _load).
AckedBytesKept == U!AckedBytesKept

\* Temporary files stay within the quota of create() (_remove_locked).
DiskWithinQuota == U!DiskWithinQuota

\* The destination never shows a part of an upload (copy_to, _publish_new_upload).
PublishedWhole == U!PublishedWhole

\* An upload never replaces a file (_publish_new_upload).
NeverReplaces == U!NeverReplaces
=============================================================================
