--------------------------- MODULE SnapshotStore ---------------------------
(***************************************************************************)
(* The snapshots of one report and the transaction that rebuilds them:     *)
(* Store.RecomputeReport (internal/infrastructure/postgres/store.go) run   *)
(* by several workers at once, on PostgreSQL at its default isolation.     *)
(*                                                                         *)
(* Days are numbered from a Monday; a bucket is named by its first day.    *)
(* Under READ COMMITTED each statement sees what was committed when it     *)
(* began, and takes its rows one at a time: it waits for a row another     *)
(* open transaction deletes, or for a key another one inserts.             *)
(***************************************************************************)
EXTENDS Integers, FiniteSets, FiniteSetsExt, Relation, Sequences

CONSTANTS
    Runs,           \* the rebuilds, one transaction each
    Request,        \* run -> [window, from, to]
    LastDay,        \* days of the model: 0..LastDay
    Dims,           \* values of the report's dimension (source, status, entity)
    FirstEvents,    \* day, dimension -> events at the start
    MaxIngest,      \* bound on the events that arrive later
    Seed            \* the run of the seeder, which built the first rows

Days == 0..LastDay
Windows == {"day", "week"}

ASSUME DaysAssumption == LastDay \in Nat /\ MaxIngest \in Nat
ASSUME EventsAssumption == FirstEvents \in [Days \X Dims -> Nat]
ASSUME SnapshotRequests ==
    Request \in [Runs -> [window : Windows, from : Days, to : Days]]
ASSUME SeedAssumption == Seed \notin Runs

VARIABLES
    events,     \* analytics_events: day, dimension -> count
    table,      \* the committed rows of metric_snapshots
    stage,      \* run -> where its transaction is
    todo,       \* run -> rows the current statement has still to visit
    dead,       \* run -> rows its open transaction deleted
    fresh,      \* run -> rows its open transaction inserted
    commits,    \* history: the runs in the order they committed
    saw         \* history: run -> the events its INSERT saw

vars == <<events, table, stage, todo, dead, fresh, commits, saw>>
-----------------------------------------------------------------------------
(* Buckets *)

(* date_trunc(window, day) *)
Bucket(window, day) == IF window = "week" THEN day - (day % 7) ELSE day

Length(window) == IF window = "week" THEN 7 ELSE 1

BucketDays(window, b) == {d \in Days : Bucket(window, d) = b}

(* The buckets the DELETE covers: from the first day's bucket up to the    *)
(* one after the last day, that one included.                              *)
DeleteRange(t) ==
    LET w == Request[t].window IN
    Bucket(w, Request[t].from) .. Bucket(w, Request[t].to + 1) + Length(w) - 1

(* The buckets the requested days fall in. *)
Affected(t) ==
    {Bucket(Request[t].window, d) : d \in Request[t].from .. Request[t].to}

(* One row of metric_snapshots. *)
Row(window, b, x, n, run) ==
    [window |-> window, bucket |-> b, dim |-> x, value |-> n, run |-> run]

(* The events of dimension x on some days; those of a day are numbered.    *)
EventsOn(evs, x, days) == UNION {{d} \X (1..evs[<<d, x>>]) : d \in days}

(* COUNT of them. *)
Count(evs, x, days) == Cardinality(EventsOn(evs, x, days))

(* SELECT ... GROUP BY date_trunc(window, occurred_at), dimension: one row *)
(* for each group that has events on the days from..to.                    *)
Grouped(evs, window, from, to, run) ==
    LET group(b, x) ==
            Row(window, b, x, Count(evs, x, BucketDays(window, b) \cap (from..to)), run)
    IN  {row \in {group(b, x) : b \in Days, x \in Dims} : row.value > 0}

(* Mutant: the last day is left out. *)
InsertRowsExclusive(evs, t) ==
    Grouped(evs, Request[t].window, Request[t].from, Request[t].to - 1, t)

(* Mutant: run_id is left empty. *)
InsertRowsNoLineage(evs, t) ==
    Grouped(evs, Request[t].window, Request[t].from, Request[t].to, "none")

(* The rows the INSERT of run t makes of the events it sees. *)
InsertRows(evs, t) ==
    Grouped(evs, Request[t].window, Request[t].from, Request[t].to, t)

(* A report's SELECT: the rows whose bucket starts on the days from..to. *)
ReportRows(window, from, to) ==
    {row \in table : row.window = window /\ row.bucket \in from..to}

(* SUM(metric_value) of those rows for one dimension value: the number of  *)
(* units the rows stand for together.                                      *)
ReportTotal(window, from, to, x) ==
    Cardinality(UNION {{row} \X (1..row.value) :
        row \in {r \in ReportRows(window, from, to) : r.dim = x}})
-----------------------------------------------------------------------------
(* The transaction *)

Open(u) == stage[u] \in {"delete", "insert"}

(* The columns of the UNIQUE constraint (the report is fixed). *)
SameKey(row, other) ==
    /\ row.window = other.window
    /\ row.bucket = other.bucket
    /\ row.dim = other.dim

(* Open transactions whose end t waits for before it deletes this row. *)
DeleteWaitsFor(t, row) == {u \in Runs \ {t} : Open(u) /\ row \in dead[u]}

(* Open transactions whose end t waits for before it inserts this row: one *)
(* that inserted the key, or one that deletes the row that has it.         *)
InsertWaitsFor(t, row) ==
    {u \in Runs \ {t} : Open(u) /\ \E r \in fresh[u] \cup dead[u] : SameKey(r, row)}

(* Mutant: the table has no UNIQUE constraint. *)
NeverTaken(t, row) == FALSE

(* A live committed row has the key: unique_violation. *)
KeyTaken(t, row) == \E r \in table \ dead[t] : SameKey(r, row)

(* BeginTx; the DELETE begins, on the rows it finds committed. *)
BeginDelete(t) ==
    /\ stage[t] = "idle"
    /\ stage' = [stage EXCEPT ![t] = "delete"]
    /\ todo' = [todo EXCEPT ![t] =
          {row \in table : row.window = Request[t].window /\ row.bucket \in DeleteRange(t)}]
    /\ UNCHANGED <<events, table, dead, fresh, commits, saw>>

(* It takes one of them; a row deleted meanwhile is skipped. *)
DeleteRow(t) ==
    /\ stage[t] = "delete"
    /\ \E row \in todo[t] :
          /\ DeleteWaitsFor(t, row) = {}
          /\ todo' = [todo EXCEPT ![t] = @ \ {row}]
          /\ dead' = [dead EXCEPT ![t] = IF row \in table THEN @ \cup {row} ELSE @]
    /\ UNCHANGED <<events, table, stage, fresh, commits, saw>>

(* The INSERT begins, on the events it finds committed. *)
BeginInsert(t) ==
    /\ stage[t] = "delete"
    /\ todo[t] = {}
    /\ stage' = [stage EXCEPT ![t] = "insert"]
    /\ todo' = [todo EXCEPT ![t] = InsertRows(events, t)]
    /\ saw' = [saw EXCEPT ![t] = events]
    /\ UNCHANGED <<events, table, dead, fresh, commits>>

(* The transaction is undone and RecomputeReport returns an error. *)
Undone(t) ==
    /\ stage' = [stage EXCEPT ![t] = "aborted"]
    /\ todo' = [todo EXCEPT ![t] = {}]
    /\ dead' = [dead EXCEPT ![t] = {}]
    /\ fresh' = [fresh EXCEPT ![t] = {}]
    /\ UNCHANGED <<events, table, commits, saw>>

(* Mutant: a taken key is waited for instead of reported. *)
InsertRowPatient(t) ==
    /\ stage[t] = "insert"
    /\ \E row \in todo[t] :
          /\ InsertWaitsFor(t, row) = {} /\ ~KeyTaken(t, row)
          /\ todo' = [todo EXCEPT ![t] = @ \ {row}]
          /\ fresh' = [fresh EXCEPT ![t] = @ \cup {row}]
          /\ UNCHANGED <<events, table, stage, dead, commits, saw>>

(* It inserts one row, or fails on the UNIQUE constraint. *)
InsertRow(t) ==
    /\ stage[t] = "insert"
    /\ \E row \in todo[t] :
          /\ InsertWaitsFor(t, row) = {}
          /\ \/ KeyTaken(t, row) /\ Undone(t)
             \/ /\ ~KeyTaken(t, row)
                /\ todo' = [todo EXCEPT ![t] = @ \ {row}]
                /\ fresh' = [fresh EXCEPT ![t] = @ \cup {row}]
                /\ UNCHANGED <<events, table, stage, dead, commits, saw>>

(* The bucket count and COMMIT. *)
Commit(t) ==
    /\ stage[t] = "insert"
    /\ todo[t] = {}
    /\ table' = (table \ dead[t]) \cup fresh[t]
    /\ stage' = [stage EXCEPT ![t] = "committed"]
    /\ dead' = [dead EXCEPT ![t] = {}]
    /\ fresh' = [fresh EXCEPT ![t] = {}]
    /\ commits' = Append(commits, t)
    /\ UNCHANGED <<events, todo, saw>>

(* The job's context ends, or a statement fails: the deferred Rollback. *)
Rollback(t) == Open(t) /\ Undone(t)

(* The transactions t cannot go on without. *)
WaitsFor(t) ==
    CASE stage[t] = "delete" /\ todo[t] # {} ->
            IF \E row \in todo[t] : DeleteWaitsFor(t, row) = {} THEN {}
            ELSE UNION {DeleteWaitsFor(t, row) : row \in todo[t]}
      [] stage[t] = "insert" /\ todo[t] # {} ->
            IF \E row \in todo[t] : InsertWaitsFor(t, row) = {} THEN {}
            ELSE UNION {InsertWaitsFor(t, row) : row \in todo[t]}
      [] OTHER -> {}

(* PostgreSQL's deadlock detector rolls one of a waiting cycle back. *)
DetectDeadlock(t) ==
    /\ WaitsFor(t) # {}
    /\ TransitiveClosure([p \in Runs \X Runs |-> p[2] \in WaitsFor(p[1])], Runs)[t, t]
    /\ Undone(t)

(* The events of all dimensions. *)
AllEvents(evs) == UNION {{x} \X EventsOn(evs, x, Days) : x \in Dims}

(* An event arrives: nothing in the service deletes one.  Bound: MaxIngest *)
(* of them do.                                                             *)
Ingest(d, x) ==
    /\ Cardinality(AllEvents(events)) < Cardinality(AllEvents(FirstEvents)) + MaxIngest
    /\ events' = [events EXCEPT ![<<d, x>>] = @ + 1]
    /\ UNCHANGED <<table, stage, todo, dead, fresh, commits, saw>>
-----------------------------------------------------------------------------
(* A fresh database, or one the seeder rebuilt in full. *)
Init ==
    /\ events = FirstEvents
    /\ table \in {{}, UNION {Grouped(FirstEvents, w, 0, LastDay, Seed) : w \in Windows}}
    /\ stage = [t \in Runs |-> "idle"]
    /\ todo = [t \in Runs |-> {}]
    /\ dead = [t \in Runs |-> {}]
    /\ fresh = [t \in Runs |-> {}]
    /\ commits = <<>>
    /\ saw = [t \in Runs |-> FirstEvents]

(* Every rebuild is over. *)
Quiescent ==
    /\ \A t \in Runs : stage[t] \in {"committed", "aborted"}
    /\ UNCHANGED vars

TxStep(t) ==
    \/ DeleteRow(t) \/ BeginInsert(t) \/ InsertRow(t) \/ Commit(t)

Next ==
    \/ \E t \in Runs : BeginDelete(t) \/ TxStep(t) \/ Rollback(t) \/ DetectDeadlock(t)
    \/ \E d \in Days, x \in Dims : Ingest(d, x)
    \/ Quiescent

Spec == Init /\ [][Next]_vars

(* A transaction that can go on does, and a deadlock is detected. *)
FairSpec ==
    /\ Spec
    /\ \A t \in Runs : WF_vars(TxStep(t)) /\ WF_vars(DetectDeadlock(t))
-----------------------------------------------------------------------------
(* Properties *)

Rows == [window : Windows, bucket : Days, dim : Dims, value : Nat, run : Runs \cup {Seed}]

(* The state stays within its types. *)
TypeOK ==
    /\ events \in [Days \X Dims -> Nat]
    /\ table \subseteq Rows
    /\ stage \in [Runs -> {"idle", "delete", "insert", "committed", "aborted"}]
    /\ todo \in [Runs -> SUBSET Rows]
    /\ dead \in [Runs -> SUBSET Rows]
    /\ fresh \in [Runs -> SUBSET Rows]
    /\ commits \in Seq(Runs)
    /\ saw \in [Runs -> [Days \X Dims -> Nat]]

(* However rebuilds of overlapping ranges interleave, fail or race with    *)
(* new events, no report counts an event twice: what it sums over any days *)
(* is at most the events in the buckets it read.                           *)
NeverOvercounts ==
    \A w \in Windows, x \in Dims, from, to \in Days :
        ReportTotal(w, from, to, x)
            <= Count(events, x, {d \in Days : Bucket(w, d) \in from..to})

(* The last run that committed over bucket b, or Seed. *)
LastOver(w, b) ==
    LET over == {i \in DOMAIN commits :
                    Request[commits[i]].window = w /\ b \in DeleteRange(commits[i])}
    IN  IF over = {} THEN Seed ELSE commits[Max(over)]

(* While run t is the last that committed over a bucket that lies wholly   *)
(* within the days it asked for, the bucket holds exactly the count of     *)
(* every group t saw, and no row of an earlier run: a row of a group it    *)
(* did not see was left by a concurrent run whose INSERT saw more.         *)
LastRebuildWins ==
    \A w \in Windows, b \in Days, x \in Dims :
        LET t == LastOver(w, b)
            days == BucketDays(w, b)
            n == Count(saw[t], x, days)
            found == {row \in ReportRows(w, b, b) : row.dim = x}
        IN  t \in Runs /\ days # {} /\ days \subseteq Request[t].from .. Request[t].to
            => IF n > 0 THEN found = {Row(w, b, x, n, t)}
               ELSE \A row \in found : row.run \in Runs /\ Count(saw[row.run], x, days) > 0

(* Every rebuild that began ends, though transactions may wait for each    *)
(* other in a cycle.                                                       *)
RebuildEnds ==
    \A t \in Runs : stage[t] = "delete" ~> stage[t] \in {"committed", "aborted"}
-----------------------------------------------------------------------------
(* What the documentation says of the code and the code does not do *)

(* docs/domain-model.md:70: a rebuild deletes only buckets the requested   *)
(* days fall in.                                                           *)
NeighboursKept ==
    [][\A t \in Runs : commits' = Append(commits, t) =>
          \A row \in table \ table' : row.bucket \in Affected(t)]_vars
=============================================================================
