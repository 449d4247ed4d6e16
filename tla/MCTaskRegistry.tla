--------------------------- MODULE MCTaskRegistry ---------------------------
(***************************************************************************)
(* TaskRegistry for TLC.  Two scenarios share one run: "control" is one    *)
(* command with two callers, close(), children and mount leases; "lookup"  *)
(* is two commands of two owners under reused ids, without those.          *)
(***************************************************************************)
EXTENDS TaskRegistry, TLC

CONSTANTS t1, t2, o1, o2, i1, i2, c1, c2

VARIABLE scenario

InControl == Cardinality({t \in Tasks : pc'[t] # "absent"}) <= 1

InLookup ==
    /\ ~closing' /\ ctl'[c2] = Idle
    /\ \A t \in Tasks : group'[t] \subseteq {"leader"} /\ lease'[t] = "none" /\ stdin'[t] = "none"

MCInit == Init /\ scenario \in {"control", "lookup"}

MCNext ==
    /\ Next
    /\ IF scenario = "control" THEN InControl ELSE InLookup
    /\ UNCHANGED scenario

MCSpec == MCInit /\ [][MCNext]_<<vars, scenario>>

Interchangeable ==
    Permutations({t1, t2}) \cup Permutations({i1, i2}) \cup Permutations({o1, o2})
=============================================================================
