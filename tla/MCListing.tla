----------------------------- MODULE MCListing -----------------------------
(* An instance of Listing for TLC: as after the migrations, three reports,   *)
(* all updated at the same moment.                                           *)
EXTENDS Listing, TLC

Audit(limit, from, filtered) ==
    [list |-> "audit", limit |-> limit, offset |-> from, filtered |-> filtered]

Reports(limit, from, filtered, sort, desc) ==
    [list |-> "reports", limit |-> limit, offset |-> from,
     filtered |-> filtered, sort |-> sort, desc |-> desc]

(* Limits that are left out, too small, in range and too large; walks from   *)
(* the first row and from the second.                                        *)
MCAsked ==
    {Audit(NoInt, NoInt, FALSE), Audit(0, NoInt, TRUE), Audit(1, -1, FALSE),
     Audit(3, NoInt, FALSE), Audit(1, 1, FALSE),
     Reports(NoInt, NoInt, FALSE, "name", TRUE), Reports(1, NoInt, FALSE, "updated", FALSE),
     Reports(1, 0, TRUE, "name", FALSE), Reports(0, NoInt, FALSE, "name", FALSE),
     Reports(3, -1, FALSE, "name", FALSE)}

MCCatalog ==
    {[id |-> i, name |-> i, updated |-> 0, match |-> i # 2] : i \in 1..3}
=============================================================================
