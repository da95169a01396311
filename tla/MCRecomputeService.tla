------------------------ MODULE MCRecomputeService ------------------------
(* Instances of RecomputeService for TLC. *)
EXTENDS RecomputeService, TLC

CONSTANTS j1, j2, j3

Req(slug, window, from, to) ==
    [slug |-> slug, window |-> window, from |-> from, to |-> to]

(* j1 and j2 ask for the same scope, j3 for a longer range than            *)
(* MaxRangeDays allows.                                                    *)
MCRequest == [j \in Jobs |->
    Req("volume-by-period", "day", 1, IF j = j3 THEN 3 ELSE 1)]

MCCatalog == {"volume-by-period", "status-counts", "top-entities"}

AllFaults == FaultKinds
OnlyLapse == {"lapse"}
OnlyContext == {"ctx"}
OnlyCalls == {"call"}
ContextLapseCrash == {"ctx", "lapse", "crash"}

Interchangeable == Permutations({j1, j2} \cap Jobs) \cup Permutations(Workers)
=============================================================================
