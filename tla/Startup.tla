------------------------------- MODULE Startup -------------------------------
(***************************************************************************)
(* What happens before a process serves: Migrator.Up and Seeder.Seed       *)
(* (internal/infrastructure/postgres) as cmd/api, cmd/migrate and cmd/seed *)
(* call them, in several processes that start together on one database,    *)
(* lose races, fail, die and are started again.                            *)
(*                                                                         *)
(* Migration files are numbered in the order of their names.  A statement  *)
(* outside a transaction is one step; so is the rebuild of one scope,      *)
(* whose own statements SnapshotStore has.                                 *)
(***************************************************************************)
EXTENDS Integers, FiniteSets, Sequences

CONSTANTS
    Procs,      \* places a process can run in
    Releases,   \* numbers of migration files the releases ship
    Scopes,     \* number of (report, window) pairs Seed rebuilds
    MaxStarts,  \* bound on the processes started
    MaxFaults   \* bound on the statements that fail and processes that die

ASSUME ReleasesAssumption == Releases \subseteq Nat
ASSUME StartupBounds == Scopes \in Nat \ {0} /\ MaxStarts \in Nat /\ MaxFaults \in Nat

VARIABLES
    ledger,     \* the table schema_migrations exists
    recorded,   \* its versions
    schema,     \* the files whose changes are committed, in order
    events,     \* copies of the demo events in analytics_events
    snaps,      \* scope -> copies its snapshots count
    runs,       \* recompute_runs: <<start, scope>> -> status of its row
    command,    \* process -> what it was started to do
    at,         \* process -> its stage
    next,       \* process -> the file or the scope it is at
    life,       \* process -> the number of its start
    starts,     \* processes started
    faults,     \* faults so far
    batch       \* history: who inserted the events, and how far it got

db == <<ledger, recorded, schema, events, snaps, runs>>
vars == <<ledger, recorded, schema, events, snaps, runs,
          command, at, next, life, starts, faults, batch>>
-----------------------------------------------------------------------------
(* The commands *)

(* cmd/api: APP_AUTO_MIGRATE, APP_AUTO_SEED (never forced), then it serves. *)
Api(autoMigrate, autoSeed, files) ==
    [migrate |-> autoMigrate, seed |-> autoSeed, force |-> FALSE,
     serve |-> TRUE, files |-> IF autoMigrate THEN files ELSE 0]

(* cmd/migrate *)
Migrate(files) ==
    [migrate |-> TRUE, seed |-> FALSE, force |-> FALSE, serve |-> FALSE, files |-> files]

(* cmd/seed: SEED_FORCE_RESET *)
SeedCommand(force) ==
    [migrate |-> FALSE, seed |-> TRUE, force |-> force, serve |-> FALSE, files |-> 0]

Commands ==
    {Api(m, s, n) : m \in BOOLEAN, s \in BOOLEAN, n \in Releases}
        \cup {Migrate(n) : n \in Releases}
        \cup {SeedCommand(f) : f \in BOOLEAN}

(* No process: what it was started to do is forgotten. *)
None == SeedCommand(FALSE)

(* The stages between the start and the end of main. *)
Migrating == {"create", "check", "exec", "record", "commit"}
Rebuilding == {"run", "rebuild", "complete", "fail"}
Working == Migrating \cup {"reset", "count", "insert"} \cup Rebuilding

Resting == {"off", "done"}

(* Process p goes on to this stage, and file or scope n. *)
GoTo(p, stage, n) ==
    /\ at' = [at EXCEPT ![p] = stage]
    /\ next' = [next EXCEPT ![p] = n]
    /\ UNCHANGED <<command, life, starts>>

(* Process p is no more. *)
Leave(p, stage) ==
    /\ at' = [at EXCEPT ![p] = stage]
    /\ next' = [next EXCEPT ![p] = 1]
    /\ command' = [command EXCEPT ![p] = None]
    /\ life' = [life EXCEPT ![p] = 0]
    /\ UNCHANGED starts

(* Nothing is left to prepare: cmd/api serves, the others return. *)
Ready(p) == IF command[p].serve THEN GoTo(p, "serving", 1) ELSE Leave(p, "done")

(* What p does after the migrations. *)
AfterUp(p) ==
    IF command[p].seed THEN GoTo(p, IF command[p].force THEN "reset" ELSE "count", 1)
    ELSE Ready(p)

(* If p inserted the events, it rebuilds no more scopes. *)
Abandon(p) == batch' = IF batch.by = life[p] THEN [batch EXCEPT !.state = "cut"] ELSE batch

(* os.Exit(1) on an error that no fault caused. *)
Exit(p) == Leave(p, "off") /\ Abandon(p) /\ UNCHANGED faults

(* listMigrationFiles: the .sql files, sorted by name. *)
Files(c) == 1..c.files

isApplied(file) == file \in recorded

(* 0001_init.sql makes the tables, 0002_reference_data.sql the sources and *)
(* the report definitions.                                                 *)
HasTables == isApplied(1)
HasReference == isApplied(2)
-----------------------------------------------------------------------------
(* Migrator.Up *)

(* Where main begins.  CREATE TABLE IF NOT EXISTS ends at once if it finds *)
(* the table, and otherwise makes it in a step of its own.                 *)
FirstStage(c) ==
    CASE c.migrate -> IF ledger THEN "check" ELSE "create"
      [] ~c.migrate /\ c.seed -> IF c.force THEN "reset" ELSE "count"
      [] OTHER -> "serving"

(* A process is started with command c. *)
Start(p, c) ==
    /\ at[p] \in Resting /\ starts < MaxStarts
    /\ starts' = starts + 1
    /\ life' = [life EXCEPT ![p] = starts + 1]
    /\ command' = [command EXCEPT ![p] = c]
    /\ next' = [next EXCEPT ![p] = 1]
    /\ at' = [at EXCEPT ![p] = FirstStage(c)]
    /\ UNCHANGED <<db, faults, batch>>

(* Of two that create the table at once one fails on the catalog's key. *)
EnsureTable(p) ==
    /\ at[p] = "create"
    /\ \/ ledger /\ Exit(p) /\ UNCHANGED db
       \/ /\ ~ledger /\ ledger' = TRUE
          /\ GoTo(p, "check", 1)
          /\ UNCHANGED <<recorded, schema, events, snaps, runs, faults, batch>>

(* Mutant: only the number of applied files is looked at. *)
CheckFileByCount(p) ==
    /\ at[p] = "check"
    /\ IF next[p] \notin Files(command[p]) THEN AfterUp(p)
       ELSE IF next[p] <= Cardinality(recorded) + 1 /\ recorded # {}
            THEN GoTo(p, "check", next[p] + 1)
       ELSE GoTo(p, "exec", next[p])
    /\ UNCHANGED <<db, faults, batch>>

(* Mutant: an applied file is tried again. *)
CheckFileNever(p) ==
    /\ at[p] = "check"
    /\ IF next[p] \notin Files(command[p]) THEN AfterUp(p)
       ELSE GoTo(p, "exec", next[p])
    /\ UNCHANGED <<db, faults, batch>>

(* isApplied of the next file, outside the transaction that applies it;    *)
(* after the last file Up returns.                                         *)
CheckFile(p) ==
    /\ at[p] = "check"
    /\ IF next[p] \notin Files(command[p]) THEN AfterUp(p)
       ELSE IF isApplied(next[p]) THEN GoTo(p, "check", next[p] + 1)
       ELSE GoTo(p, "exec", next[p])
    /\ UNCHANGED <<db, faults, batch>>

(* Begin and the file's statements, which wait for the end of another open *)
(* transaction that ran them.                                              *)
ExecFile(p) ==
    /\ at[p] = "exec"
    /\ \A q \in Procs \ {p} : at[q] \in {"record", "commit"} => next[q] # next[p]
    /\ GoTo(p, "record", next[p])
    /\ UNCHANGED <<db, faults, batch>>

(* Mutant: schema_migrations has no primary key. *)
RecordFileNoKey(p) ==
    /\ at[p] = "record"
    /\ GoTo(p, "commit", next[p])
    /\ UNCHANGED <<db, faults, batch>>

(* Mutant: a version recorded meanwhile is waited for. *)
RecordFilePatient(p) ==
    /\ at[p] = "record"
    /\ next[p] \notin recorded
    /\ GoTo(p, "commit", next[p])
    /\ UNCHANGED <<db, faults, batch>>

(* INSERT INTO schema_migrations: a version recorded since the check fails *)
(* on the primary key, and the transaction is rolled back.                 *)
RecordFile(p) ==
    /\ at[p] = "record"
    /\ \/ next[p] \in recorded /\ Exit(p)
       \/ next[p] \notin recorded /\ GoTo(p, "commit", next[p]) /\ UNCHANGED <<faults, batch>>
    /\ UNCHANGED db

(* COMMIT *)
CommitFile(p) ==
    /\ at[p] = "commit"
    /\ recorded' = recorded \cup {next[p]}
    /\ schema' = Append(schema, next[p])
    /\ GoTo(p, "check", next[p] + 1)
    /\ UNCHANGED <<ledger, events, snaps, runs, faults, batch>>
-----------------------------------------------------------------------------
(* Seeder.Seed *)

NoRuns == [r \in (1..MaxStarts) \X (1..Scopes) |-> "absent"]
NoSnaps == [s \in 1..Scopes |-> 0]
NoBatch == [by |-> 0, state |-> "none"]

(* The run row process p writes for the scope it is at. *)
Run(p) == <<life[p], next[p]>>

(* TRUNCATE of snapshots, runs, audit entries and events. *)
Reset(p) ==
    /\ at[p] = "reset"
    /\ \/ ~HasTables /\ Exit(p) /\ UNCHANGED db
       \/ /\ HasTables
          /\ events' = 0 /\ snaps' = NoSnaps /\ runs' = NoRuns /\ batch' = NoBatch
          /\ GoTo(p, "count", 1)
          /\ UNCHANGED <<ledger, recorded, schema, faults>>

(* SELECT COUNT: seeding is skipped when there are events. *)
CountEvents(p) ==
    /\ at[p] = "count"
    /\ \/ ~HasTables /\ Exit(p)
       \/ /\ HasTables
          /\ IF events > 0 THEN Ready(p) ELSE GoTo(p, "insert", 1)
          /\ UNCHANGED <<faults, batch>>
    /\ UNCHANGED db

(* INSERT of the demo events: it fails without the reference rows, and on  *)
(* external_ref if another process has inserted them since the count.      *)
InsertEvents(p) ==
    /\ at[p] = "insert"
    /\ \/ (~HasReference \/ events > 0) /\ Exit(p) /\ UNCHANGED db
       \/ /\ HasReference /\ events = 0
          /\ events' = events + 1
          /\ batch' = [by |-> life[p], state |-> "open"]
          /\ GoTo(p, "run", 1)
          /\ UNCHANGED <<ledger, recorded, schema, snaps, runs, faults>>

(* CreateRun, with status running. *)
CreateRun(p) ==
    /\ at[p] = "run"
    /\ runs' = [runs EXCEPT ![Run(p)] = "running"]
    /\ GoTo(p, "rebuild", next[p])
    /\ UNCHANGED <<ledger, recorded, schema, events, snaps, faults, batch>>

(* The snapshots would refer to a run row that a reset has removed. *)
NoRunRow(p) == events > 0 /\ runs[Run(p)] = "absent"

(* Another seeder's rebuild of the scope may commit first and take the     *)
(* keys: unique_violation.                                                 *)
Clash(p) ==
    /\ events > 0
    /\ \E q \in Procs \ {p} : at[q] = "rebuild" /\ next[q] = next[p] /\ ~NoRunRow(q)

(* RecomputeReport's transaction commits: without events it has no rows to *)
(* insert, and no run row to refer to.                                     *)
Rebuild(p) ==
    /\ at[p] = "rebuild" /\ ~NoRunRow(p)
    /\ snaps' = [snaps EXCEPT ![next[p]] = events]
    /\ GoTo(p, "complete", next[p])
    /\ UNCHANGED <<ledger, recorded, schema, events, runs, faults, batch>>

(* Mutant: the error is returned without MarkRunFailed. *)
RebuildFailsUnmarked(p) ==
    /\ at[p] = "rebuild" /\ (NoRunRow(p) \/ Clash(p))
    /\ Exit(p)
    /\ UNCHANGED db

(* Mutant: the error is logged, and the next scope follows. *)
RebuildFailsGoesOn(p) ==
    /\ at[p] = "rebuild" /\ (NoRunRow(p) \/ Clash(p))
    /\ GoTo(p, "complete", next[p])
    /\ UNCHANGED <<db, faults, batch>>

(* It fails on one of its constraints. *)
RebuildFails(p) ==
    /\ at[p] = "rebuild" /\ (NoRunRow(p) \/ Clash(p))
    /\ GoTo(p, "fail", next[p])
    /\ UNCHANGED <<db, faults, batch>>

(* UPDATE recompute_runs ... WHERE id: a row that is gone is not an error. *)
SetStatus(p, status) ==
    runs' = [runs EXCEPT ![Run(p)] = IF @ = "absent" THEN @ ELSE status]

(* MarkRunCompleted; after the last scope Seed returns. *)
MarkRunCompleted(p) ==
    /\ at[p] = "complete"
    /\ SetStatus(p, "completed")
    /\ \/ next[p] < Scopes /\ GoTo(p, "run", next[p] + 1) /\ UNCHANGED batch
       \/ /\ next[p] = Scopes /\ Ready(p)
          /\ batch' = IF batch.by = life[p] THEN [batch EXCEPT !.state = "done"] ELSE batch
    /\ UNCHANGED <<ledger, recorded, schema, events, snaps, faults>>

(* Mutant: a status the column's CHECK does not know. *)
MarkRunFailedUnknown(p) ==
    /\ at[p] = "fail"
    /\ SetStatus(p, "error")
    /\ Exit(p)
    /\ UNCHANGED <<ledger, recorded, schema, events, snaps>>

(* MarkRunFailed, and the error ends the process. *)
MarkRunFailed(p) ==
    /\ at[p] = "fail"
    /\ SetStatus(p, "failed")
    /\ Exit(p)
    /\ UNCHANGED <<ledger, recorded, schema, events, snaps>>
-----------------------------------------------------------------------------
(* Faults *)

Fault == faults < MaxFaults /\ faults' = faults + 1

(* A statement fails, a signal cancels the context or the process dies; an *)
(* open transaction is undone.  An answer lost on its way back is the same *)
(* one stage later.                                                        *)
Die(p) ==
    /\ at[p] \in Working
    /\ Fault
    /\ Leave(p, "off")
    /\ Abandon(p)
    /\ UNCHANGED db

(* The rebuild fails, or the answer to its COMMIT is lost. *)
RebuildError(p) ==
    /\ at[p] = "rebuild"
    /\ Fault
    /\ \/ UNCHANGED snaps
       \/ ~NoRunRow(p) /\ snaps' = [snaps EXCEPT ![next[p]] = events]
    /\ GoTo(p, "fail", next[p])
    /\ UNCHANGED <<ledger, recorded, schema, events, runs, batch>>

(* A serving process is stopped. *)
Stop(p) ==
    /\ at[p] = "serving"
    /\ Leave(p, "off")
    /\ UNCHANGED <<db, faults, batch>>
-----------------------------------------------------------------------------
(* A fresh database, nothing running. *)
Init ==
    /\ ledger = FALSE
    /\ recorded = {}
    /\ schema = <<>>
    /\ events = 0
    /\ snaps = NoSnaps
    /\ runs = NoRuns
    /\ command = [p \in Procs |-> None]
    /\ at = [p \in Procs |-> "off"]
    /\ next = [p \in Procs |-> 1]
    /\ life = [p \in Procs |-> 0]
    /\ starts = 0
    /\ faults = 0
    /\ batch = NoBatch

UpStep(p) ==
    \/ EnsureTable(p) \/ CheckFile(p) \/ ExecFile(p) \/ RecordFile(p) \/ CommitFile(p)

SeedStep(p) ==
    \/ Reset(p) \/ CountEvents(p) \/ InsertEvents(p)
    \/ CreateRun(p) \/ Rebuild(p) \/ RebuildFails(p)
    \/ MarkRunCompleted(p) \/ MarkRunFailed(p)

(* Nothing is left to start. *)
Settled ==
    /\ starts = MaxStarts /\ \A p \in Procs : at[p] \in Resting
    /\ UNCHANGED vars

Next ==
    \/ \E p \in Procs :
          \/ UpStep(p) \/ SeedStep(p) \/ Die(p) \/ RebuildError(p) \/ Stop(p)
          \/ \E c \in Commands : Start(p, c)
    \/ Settled

Spec == Init /\ [][Next]_vars

(* main runs on: nothing is promised of when a process starts or dies. *)
FairSpec == Spec /\ \A p \in Procs : WF_vars(UpStep(p) \/ SeedStep(p))
-----------------------------------------------------------------------------
(* Properties *)

Statuses == {"absent", "running", "completed", "failed"}

(* The state stays within its types. *)
TypeOK ==
    /\ ledger \in BOOLEAN
    /\ recorded \subseteq Nat
    /\ schema \in Seq(Nat)
    /\ events \in Nat
    /\ snaps \in [1..Scopes -> Nat]
    /\ runs \in [(1..MaxStarts) \X (1..Scopes) -> Statuses]
    /\ command \in [Procs -> Commands]
    /\ at \in [Procs -> Working \cup Resting \cup {"serving"}]
    /\ next \in [Procs -> Nat \ {0}]
    /\ life \in [Procs -> 0..MaxStarts]
    /\ starts \in 0..MaxStarts
    /\ faults \in 0..MaxFaults
    /\ batch \in [by : 0..MaxStarts, state : {"none", "open", "cut", "done"}]

(* However starts race, fail and die, every migration file takes effect at *)
(* most once and after all files before it, and schema_migrations lists    *)
(* exactly the files that did.                                             *)
MigratedInOrder ==
    /\ schema = [i \in 1..Len(schema) |-> i]
    /\ recorded = 1..Len(schema)

(* A process that migrates goes on to seed or to serve only when all the   *)
(* files of its release are in the schema, whoever applied them; an older  *)
(* release may find more.                                                  *)
ReadyMeansMigrated ==
    \A p \in Procs :
        command[p].migrate /\ at[p] \notin Migrating \cup Resting
            => command[p].files <= Len(schema)

(* Unless its inserter was cut short, the events in the table have the     *)
(* snapshots of every scope the inserter has passed, and of all of them    *)
(* once it is done: no reset, rival seeder or failed rebuild leaves a      *)
(* hole.  (A cut batch is never repaired: the next start finds events and  *)
(* skips.)                                                                 *)
SeededScopes ==
    /\ batch.state = "done" => \A s \in 1..Scopes : snaps[s] = events
    /\ batch.state = "open" =>
          \E p \in Procs :
              /\ life[p] = batch.by /\ at[p] \in Rebuilding
              /\ \A s \in 1..Scopes :
                    s < next[p] \/ (s = next[p] /\ at[p] = "complete") => snaps[s] = events

(* A run row of the start that inserted the events says `completed' only   *)
(* if the snapshots of its scope count them: also when that start was cut  *)
(* short, and whatever resets and rival seeders did to its rows and to its *)
(* scopes meanwhile.                                                       *)
CompletedRunsTrue ==
    \A s \in 1..Scopes :
        batch.by # 0 /\ runs[<<batch.by, s>>] = "completed" => snaps[s] = events

(* Without a fault no run row of the seeder is left running: it belongs to *)
(* a process that is still at it, even when resets and rivals make the     *)
(* rebuild fail.                                                           *)
NoRunLeftRunning ==
    faults = 0 =>
        \A l \in 1..MaxStarts, s \in 1..Scopes :
            runs[<<l, s>>] = "running" =>
                \E p \in Procs :
                    Run(p) = <<l, s>> /\ at[p] \in {"rebuild", "complete", "fail"}

(* Every process that starts comes to serve, to finish or to exit, though  *)
(* migrations wait for each other.                                         *)
StartEnds == \A p \in Procs : at[p] \in Working ~> at[p] \notin Working

(* A process that loses a race exits; without a fault the losers are never *)
(* all of them: once one begins to look at a full set of migrations, it or *)
(* a rival comes to serve or to finish.                                    *)
SomeoneWins ==
    [](faults = 0) =>
        ((\E p \in Procs : at[p] = "check" /\ next[p] = 1 /\ command[p].files >= 2)
            ~> (\E p \in Procs : at[p] \in {"serving", "done"}))
=============================================================================
