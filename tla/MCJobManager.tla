---------------------------- MODULE MCJobManager ----------------------------
(***************************************************************************)
(* JobManager for TLC.  Two scenarios share one run: "releases" is one job *)
(* started and stopped by Clients of two releases, with a crash or a start *)
(* whose record fails; "requests" is two jobs of one Client that makes     *)
(* every request.                                                          *)
(***************************************************************************)
EXTENDS JobManager, TLC

CONSTANTS c1, c2, d1, d2, p1, p2, j1, j2, m1, g1, g2

VARIABLE scenario

OneMapping == (j1 :> m1) @@ (j2 :> m1)
NewerClient == (c1 :> 1) @@ (c2 :> 2)

InReleases ==
    /\ crashes' + failures' <= 1
    /\ \A c \in Clients :
        /\ requests'[c] <= 2
        /\ client'[c].op \in {None, "start", "stop"}
        /\ client'[c].job \in {None, j1} /\ client'[c].digest \in {None, g1}

InRequests ==
    /\ crashes' = 0
    /\ client'[c2] = AtRest /\ client'[c1].op # "stop"
    /\ Cardinality({d \in Daemons : daemon'[d] # "absent"}) <= 1

MCInit == Init /\ scenario \in {"releases", "requests"}

MCNext ==
    /\ Next
    /\ IF scenario = "releases" THEN InReleases ELSE InRequests
    /\ UNCHANGED scenario

MCSpec == MCInit /\ [][MCNext]_<<vars, scenario>>

Interchangeable == Permutations({p1, p2}) \cup Permutations({d1, d2})
=============================================================================
