--------------------------- MODULE MCReportCache ---------------------------
(* Instances of ReportCache for TLC. *)
EXTENDS ReportCache, TLC

CONSTANTS r1, r2, r3, r4, r5, c1, c2

Page(limit, offset) ==
    [window |-> "day", from |-> 1, to |-> 2, breakdown |-> "", limit |-> limit,
     offset |-> offset, source |-> "", status |-> ""]

(* r1, r2 and r3 ask for the same rows, r4 for the next page of them; r5   *)
(* for a report that is never cached.                                      *)
MCQuery == [r \in Readers |->
    [slug |-> IF r = r5 THEN "top-entities" ELSE "volume-by-period",
     params |-> IF r = r4 THEN Page(1, 1) ELSE Page(1, 0)]]

MCTarget == [c \in Recomputes |-> "volume-by-period"]
MCCacheTTL == [s \in {"volume-by-period", "top-entities"} |->
    IF s = "top-entities" THEN 0 ELSE 300]

AllFaults == CacheFaults
NoFaults == {}

Interchangeable ==
    Permutations({r1, r2, r3} \cap Readers) \cup Permutations(Recomputes)
=============================================================================
