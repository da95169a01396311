--------------------------- MODULE RunLifecycle ---------------------------
(***************************************************************************)
(* What a caller of the recompute API may rely on about a recompute_runs   *)
(* row, whatever the queue, the workers, the lock and the faults do: the   *)
(* row is created once, its status only moves forward, the snapshots are   *)
(* rebuilt at most once for it and only after it was marked running, and   *)
(* it is marked completed only after its rebuild was committed.  A row may *)
(* stop moving at any point (a crash, a dead context), so no progress is   *)
(* promised here.                                                          *)
(***************************************************************************)
CONSTANT Runs           \* the runs a client can ask for

VARIABLES
    status,             \* recompute_runs.status, "absent" before the INSERT
    rebuilt             \* the runs whose snapshot rebuild is committed

lifecycleVars == <<status, rebuilt>>

(* Values of recompute_runs.status, with "absent" for no row. *)
Status == {"absent", "pending", "running", "completed", "failed"}

(* No row exists and nothing was rebuilt. *)
LInit ==
    /\ status = [r \in Runs |-> "absent"]
    /\ rebuilt = {}

(* A run's row takes the status `to' from one of the statuses `from'. *)
Move(r, from, to) ==
    /\ status[r] \in from
    /\ status' = [status EXCEPT ![r] = to]
    /\ UNCHANGED rebuilt

(* The row is inserted. *)
Create(r) == Move(r, {"absent"}, "pending")

(* A worker takes the run. *)
Start(r) == Move(r, {"pending"}, "running")

(* The transaction that replaces the snapshots commits. *)
Rebuild(r) ==
    /\ status[r] = "running"
    /\ r \notin rebuilt
    /\ rebuilt' = rebuilt \cup {r}
    /\ UNCHANGED status

(* The summary is stored. *)
Complete(r) ==
    /\ r \in rebuilt
    /\ Move(r, {"running"}, "completed")

(* The error is stored: of a worker's run, or of one the queue refused. *)
Fail(r) == Move(r, {"pending", "running"}, "failed")

LNext == \E r \in Runs :
    Create(r) \/ Start(r) \/ Rebuild(r) \/ Complete(r) \/ Fail(r)

LSpec == LInit /\ [][LNext]_lifecycleVars
=============================================================================
