-------------------------- MODULE MCSnapshotStore --------------------------
(* Instances of SnapshotStore for TLC: days 5 to 7 are a Saturday, a Sunday  *)
(* and the Monday of the next week.                                          *)
EXTENDS SnapshotStore, TLC

CONSTANTS a, b, c, stripe, paypal

(* a and b rebuild overlapping days, c the week both start in. *)
MCRequest == [t \in Runs |->
    CASE t = a -> [window |-> "day", from |-> 5, to |-> 6]
      [] t = b -> [window |-> "day", from |-> 6, to |-> 7]
      [] t = c -> [window |-> "week", from |-> 0, to |-> 6]]

(* The day a and b share is empty at first: the one event that arrives     *)
(* later may fall on it.                                                   *)
MCEvents == [p \in Days \X Dims |->
    IF p \in {<<5, stripe>>, <<7, stripe>>, <<7, paypal>>} THEN 1 ELSE 0]
=============================================================================
