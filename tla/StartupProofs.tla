---------------------------- MODULE StartupProofs ----------------------------
(* Theorems about Startup for any number of places, starts, scopes and       *)
(* faults, and releases with any number of migration files.                  *)
EXTENDS Startup, SequenceTheorems, TLAPS

AllStages == Working \cup Resting \cup {"serving"}

(* A command carries the number of migration files of its release. *)
LEMMA CommandFields ==
    ASSUME NEW c \in Commands
    PROVE  c.files \in Nat
  <1>1. CASE \E m, s \in BOOLEAN, n \in Releases : c = Api(m, s, n)
    <2>1. PICK m \in BOOLEAN, s \in BOOLEAN, n \in Releases : c = Api(m, s, n)
      BY <1>1, Zenon
    <2>2. c.files = IF m THEN n ELSE 0
      BY <2>1, Zenon DEF Api
    <2>3. n \in Nat
      BY ReleasesAssumption
    <2> QED  BY <2>2, <2>3
  <1>2. CASE \E n \in Releases : c = Migrate(n)
    BY <1>2, ReleasesAssumption DEF Migrate
  <1>3. CASE \E f \in BOOLEAN : c = SeedCommand(f)
    <2>1. PICK f \in BOOLEAN : c = SeedCommand(f)
      BY <1>3, Zenon
    <2>2. c.files = 0
      BY <2>1, Zenon DEF SeedCommand
    <2> QED  BY <2>2
  <1>4. \/ c \in {Api(m, s, n) : m \in BOOLEAN, s \in BOOLEAN, n \in Releases}
        \/ c \in {Migrate(n) : n \in Releases}
        \/ c \in {SeedCommand(f) : f \in BOOLEAN}
    BY DEF Commands
  <1>5. c \in {Api(m, s, n) : m \in BOOLEAN, s \in BOOLEAN, n \in Releases}
          => \E m \in BOOLEAN, s \in BOOLEAN, n \in Releases : c = Api(m, s, n)
    OBVIOUS
  <1>6. /\ c \in {Migrate(n) : n \in Releases} => \E n \in Releases : c = Migrate(n)
        /\ c \in {SeedCommand(f) : f \in BOOLEAN} => \E f \in BOOLEAN : c = SeedCommand(f)
    BY Zenon
  <1> QED  BY <1>1, <1>2, <1>3, <1>4, <1>5, <1>6

(* So does the one that stands for no process. *)
LEMMA NoneIsCommand == None \in Commands
  <1>1. FALSE \in BOOLEAN
    OBVIOUS
  <1>2. SeedCommand(FALSE) \in {SeedCommand(f) : f \in BOOLEAN}
    BY <1>1, Zenon
  <1> DEFINE A == {Api(m, s, n) : m \in BOOLEAN, s \in BOOLEAN, n \in Releases}
             M == {Migrate(n) : n \in Releases}
             S == {SeedCommand(f) : f \in BOOLEAN}
  <1>3. Commands = A \cup M \cup S
    BY DEF Commands
  <1> HIDE DEF A, M
  <1>4. SeedCommand(FALSE) \in Commands
    BY <1>2, <1>3, Zenon
  <1> QED  BY <1>4, Zenon DEF None

(* The place of a process: the variables that only its own steps change. *)
Place(p) == <<at[p], next[p], life[p], command[p]>>

(* A step of process p leaves the places of the others alone. *)
Alone(p) == \A q \in Procs \ {p} : UNCHANGED Place(q)

(* The places are well formed after a step that starts no process. *)
PlacesOK ==
    /\ at' \in [Procs -> AllStages]
    /\ next' \in [Procs -> Nat \ {0}]
    /\ life' \in [Procs -> 0..MaxStarts]
    /\ command' \in [Procs -> Commands]
    /\ starts' = starts

(* Process p keeps its start and its command, or it is gone. *)
Keeps(p) == life'[p] = life[p] /\ command'[p] = command[p]
Gone(p) == life'[p] = 0 /\ command'[p] = None

(* Process p goes on. *)
LEMMA GoToPlace ==
    ASSUME TypeOK, NEW p \in Procs, NEW stage \in AllStages, NEW n \in Nat \ {0},
           GoTo(p, stage, n)
    PROVE  Alone(p) /\ PlacesOK /\ Keeps(p) /\ at'[p] = stage /\ next'[p] = n
  BY DEF GoTo, TypeOK, Alone, Place, AllStages, PlacesOK, Keeps

(* Process p is gone. *)
LEMMA LeavePlace ==
    ASSUME TypeOK, NEW p \in Procs, NEW stage \in Resting, Leave(p, stage)
    PROVE  Alone(p) /\ PlacesOK /\ Gone(p) /\ at'[p] = stage
  BY NoneIsCommand, StartupBounds
     DEF Leave, TypeOK, Alone, Place, AllStages, PlacesOK, Gone

(* Process p has nothing left to prepare. *)
LEMMA ReadyPlace ==
    ASSUME TypeOK, NEW p \in Procs, Ready(p)
    PROVE  /\ Alone(p) /\ PlacesOK
           /\ \/ at'[p] = "serving" /\ Keeps(p)
              \/ at'[p] = "done" /\ Gone(p)
  <1>1. CASE GoTo(p, "serving", 1)
    BY <1>1, GoToPlace DEF AllStages
  <1>2. CASE Leave(p, "done")
    BY <1>2, LeavePlace DEF Resting
  <1> QED  BY <1>1, <1>2 DEF Ready

(* Process p is through with the migrations. *)
LEMMA AfterUpPlace ==
    ASSUME TypeOK, NEW p \in Procs, AfterUp(p)
    PROVE  /\ Alone(p) /\ PlacesOK
           /\ \/ at'[p] \in {"reset", "count", "serving"} /\ Keeps(p)
              \/ at'[p] = "done" /\ Gone(p)
  <1>1. CASE \E stage \in {"reset", "count"} : GoTo(p, stage, 1)
    BY <1>1, GoToPlace DEF AllStages, Working
  <1>2. CASE Ready(p)
    BY <1>2, ReadyPlace
  <1> QED  BY <1>1, <1>2 DEF AfterUp

(* An exit leaves no other trace than a batch that is cut short. *)
LEMMA ExitPlace ==
    ASSUME TypeOK, NEW p \in Procs, Exit(p)
    PROVE  Alone(p) /\ PlacesOK /\ Gone(p) /\ at'[p] = "off" /\ faults' = faults
  BY LeavePlace DEF Exit, Resting

Batches == [by : 0..MaxStarts, state : {"none", "open", "cut", "done"}]

LEMMA AbandonBatch ==
    ASSUME TypeOK, NEW p \in Procs, Abandon(p)
    PROVE  batch' \in Batches
  BY DEF TypeOK, Abandon, Batches

-----------------------------------------------------------------------------
(* Types *)

(* What a process goes to next, for each of its statements. *)
LEMMA UpPlaces ==
    ASSUME TypeOK, NEW p \in Procs, UpStep(p)
    PROVE  /\ Alone(p) /\ PlacesOK
           /\ at[p] \in Migrating
           /\ \/ at'[p] \in Migrating \cup {"reset", "count", "serving"} /\ Keeps(p)
              \/ at'[p] \in Resting /\ Gone(p)
  <1> USE DEF Resting
  <1>0. at[p] \in Migrating
    BY DEF UpStep, EnsureTable, CheckFile, ExecFile, RecordFile, CommitFile, Migrating
  <1>1. CASE EnsureTable(p)
    <2>1. CASE Exit(p)
      BY <1>0, <2>1, ExitPlace
    <2>2. CASE GoTo(p, "check", 1)
      BY <1>0, <2>2, GoToPlace DEF AllStages, Working, Migrating
    <2> QED  BY <1>1, <2>1, <2>2 DEF EnsureTable, Migrating
  <1>2. CASE CheckFile(p)
    <2>1. next[p] + 1 \in Nat \ {0} /\ next[p] \in Nat \ {0}
      BY DEF TypeOK
    <2>2. CASE AfterUp(p)
      BY <1>0, <2>2, AfterUpPlace
    <2>3. CASE GoTo(p, "check", next[p] + 1) \/ GoTo(p, "exec", next[p])
      BY <1>0, <2>1, <2>3, GoToPlace DEF AllStages, Working, Migrating
    <2> QED  BY <1>2, <2>2, <2>3 DEF CheckFile, Migrating
  <1>3. CASE ExecFile(p)
    <2>1. next[p] \in Nat \ {0}
      BY DEF TypeOK
    <2> QED  BY <1>0, <1>3, <2>1, GoToPlace DEF ExecFile, AllStages, Working, Migrating
  <1>4. CASE RecordFile(p)
    <2>1. CASE Exit(p)
      BY <1>0, <2>1, ExitPlace
    <2>2. CASE GoTo(p, "commit", next[p])
      <3>1. next[p] \in Nat \ {0}
        BY DEF TypeOK
      <3> QED  BY <1>0, <2>2, <3>1, GoToPlace DEF AllStages, Working, Migrating
    <2> QED  BY <1>4, <2>1, <2>2 DEF RecordFile, Migrating
  <1>5. CASE CommitFile(p)
    <2>1. next[p] + 1 \in Nat \ {0}
      BY DEF TypeOK
    <2> QED  BY <1>0, <1>5, <2>1, GoToPlace DEF CommitFile, AllStages, Working, Migrating
  <1> QED  BY <1>1, <1>2, <1>3, <1>4, <1>5 DEF UpStep

Seeding == {"reset", "count", "insert"} \cup Rebuilding

(* So it is when it seeds: it goes on seeding, serves, or is gone. *)
LEMMA SeedPlaces ==
    ASSUME TypeOK, NEW p \in Procs, SeedStep(p) \/ RebuildError(p)
    PROVE  /\ Alone(p) /\ PlacesOK
           /\ at[p] \in Seeding
           /\ \/ at'[p] \in Seeding \cup {"serving"} /\ Keeps(p)
              \/ at'[p] \in Resting /\ Gone(p)
  <1>1. next[p] \in Nat \ {0} /\ next[p] + 1 \in Nat \ {0}
    BY DEF TypeOK
  <1>2. at[p] \in Seeding
    BY DEF SeedStep, Reset, CountEvents, InsertEvents, CreateRun, Rebuild, RebuildFails,
           RebuildError, MarkRunCompleted, MarkRunFailed, Seeding, Rebuilding
  <1>3. CASE Exit(p)
    BY <1>2, <1>3, ExitPlace DEF Resting
  <1>4. CASE Ready(p)
    BY <1>2, <1>4, ReadyPlace DEF Resting
  <1>5. CASE \E stage \in Seeding, n \in {1, next[p], next[p] + 1} : GoTo(p, stage, n)
    BY <1>1, <1>2, <1>5, GoToPlace DEF AllStages, Working, Seeding
  <1>6. \/ Exit(p) \/ Ready(p)
        \/ \E stage \in Seeding, n \in {1, next[p], next[p] + 1} : GoTo(p, stage, n)
    <2>1. CASE Reset(p) \/ CountEvents(p) \/ InsertEvents(p)
      BY <2>1 DEF Reset, CountEvents, InsertEvents, Seeding, Rebuilding
    <2>2. CASE CreateRun(p) \/ Rebuild(p) \/ RebuildFails(p) \/ RebuildError(p)
      BY <2>2 DEF CreateRun, Rebuild, RebuildFails, RebuildError, Seeding, Rebuilding
    <2>3. CASE MarkRunCompleted(p) \/ MarkRunFailed(p)
      BY <2>3 DEF MarkRunCompleted, MarkRunFailed, Seeding, Rebuilding
    <2> QED  BY <2>1, <2>2, <2>3 DEF SeedStep
  <1> QED  BY <1>3, <1>4, <1>5, <1>6

(* When it dies or is stopped, it is gone. *)
LEMMA EndPlaces ==
    ASSUME TypeOK, NEW p \in Procs, Die(p) \/ Stop(p)
    PROVE  Alone(p) /\ PlacesOK /\ Gone(p) /\ at'[p] = "off"
  BY LeavePlace DEF Die, Stop, Resting

(* The first statement of a process. *)
LEMMA StartPlaces ==
    ASSUME TypeOK, NEW p \in Procs, NEW c \in Commands, Start(p, c)
    PROVE  /\ Alone(p)
           /\ at'[p] = FirstStage(c) /\ next'[p] = 1
           /\ life'[p] = starts + 1 /\ command'[p] = c
           /\ FirstStage(c) \in {"check", "create", "reset", "count", "serving"}
           /\ FirstStage(c) \in {"check", "create"} <=> c.migrate
           /\ at' \in [Procs -> AllStages] /\ next' \in [Procs -> Nat \ {0}]
           /\ life' \in [Procs -> 0..MaxStarts] /\ command' \in [Procs -> Commands]
           /\ starts' \in 0..MaxStarts
  <1>1. /\ FirstStage(c) \in {"check", "create", "reset", "count", "serving"}
        /\ FirstStage(c) \in {"check", "create"} <=> c.migrate
    BY DEF FirstStage
  <1>2. FirstStage(c) \in AllStages
    BY <1>1 DEF AllStages, Working, Migrating
  <1>3. starts + 1 \in 0..MaxStarts
    BY StartupBounds DEF Start, TypeOK
  <1> QED  BY <1>1, <1>2, <1>3, StartupBounds DEF Start, TypeOK, Alone, Place, AllStages

(* The tables stay well formed when one process takes a step. *)
DbOK ==
    /\ ledger' \in BOOLEAN
    /\ recorded' \subseteq Nat
    /\ schema' \in Seq(Nat)
    /\ events' \in Nat
    /\ snaps' \in [1..Scopes -> Nat]
    /\ runs' \in [(1..MaxStarts) \X (1..Scopes) -> Statuses]

LEMMA DbKept == TypeOK /\ UNCHANGED db => DbOK
  BY DEF TypeOK, db, DbOK

LEMMA DbUp == ASSUME TypeOK, NEW p \in Procs, UpStep(p) PROVE DbOK
  <1>1. CASE UNCHANGED db
    BY <1>1, DbKept
  <1>2. CASE EnsureTable(p) /\ ~UNCHANGED db
    BY <1>2 DEF EnsureTable, TypeOK, DbOK
  <1>3. CASE CommitFile(p)
    <2>1. next[p] \in Nat
      BY DEF TypeOK
    <2>2. Append(schema, next[p]) \in Seq(Nat)
      BY <2>1, AppendProperties DEF TypeOK
    <2> QED  BY <1>3, <2>1, <2>2 DEF CommitFile, TypeOK, DbOK
  <1> QED  BY <1>1, <1>2, <1>3 DEF UpStep, CheckFile, ExecFile, RecordFile

(* The status of a run row that is there is replaced. *)
LEMMA StatusTypes ==
    ASSUME TypeOK, NEW p \in Procs, NEW status \in Statuses, SetStatus(p, status)
    PROVE  runs' \in [(1..MaxStarts) \X (1..Scopes) -> Statuses]
  BY DEF TypeOK, SetStatus

LEMMA DbSeed ==
    ASSUME TypeOK, NEW p \in Procs, SeedStep(p) \/ RebuildError(p)
    PROVE  DbOK
  <1>1. CASE UNCHANGED db
    BY <1>1, DbKept
  <1>2. CASE Reset(p) /\ ~UNCHANGED db
    <2>1. /\ NoRuns \in [(1..MaxStarts) \X (1..Scopes) -> Statuses]
          /\ NoSnaps \in [1..Scopes -> Nat]
      BY DEF NoRuns, NoSnaps, Statuses
    <2>2. /\ events' = 0 /\ snaps' = NoSnaps /\ runs' = NoRuns
          /\ UNCHANGED <<ledger, recorded, schema>>
      BY <1>2, Zenon DEF Reset
    <2> QED  BY <2>1, <2>2 DEF TypeOK, DbOK
  <1>3. CASE InsertEvents(p) /\ ~UNCHANGED db
    <2>1. events' = events + 1 /\ UNCHANGED <<ledger, recorded, schema, snaps, runs>>
      BY <1>3, Zenon DEF InsertEvents
    <2> QED  BY <2>1 DEF TypeOK, DbOK
  <1>4. CASE CreateRun(p)
    BY <1>4 DEF CreateRun, TypeOK, DbOK, Statuses
  <1>5. CASE Rebuild(p) \/ RebuildError(p)
    BY <1>5 DEF Rebuild, RebuildError, TypeOK, DbOK
  <1>6. CASE MarkRunCompleted(p) \/ MarkRunFailed(p)
    <2>1. runs' \in [(1..MaxStarts) \X (1..Scopes) -> Statuses]
      BY <1>6, StatusTypes DEF MarkRunCompleted, MarkRunFailed, Statuses
    <2> QED  BY <1>6, <2>1 DEF MarkRunCompleted, MarkRunFailed, TypeOK, DbOK
  <1> QED  BY <1>1, <1>2, <1>3, <1>4, <1>5, <1>6
           DEF SeedStep, CountEvents, RebuildFails, Reset, InsertEvents

(* Every step keeps the state within its types. *)
LEMMA TypeStep == TypeOK /\ [Next]_vars => TypeOK'
  <1> SUFFICES ASSUME TypeOK, [Next]_vars PROVE TypeOK'
    OBVIOUS
  <1>1. ASSUME NEW p \in Procs, UpStep(p)
        PROVE  TypeOK'
    <2>1. PlacesOK /\ DbOK
      BY <1>1, UpPlaces, DbUp
    <2>2. batch' \in Batches /\ faults' = faults
      BY <1>1, AbandonBatch
         DEF UpStep, EnsureTable, CheckFile, ExecFile, RecordFile, CommitFile, Exit, TypeOK, Batches
    <2> QED  BY <2>1, <2>2 DEF TypeOK, PlacesOK, DbOK, AllStages, Batches
  <1>2. ASSUME NEW p \in Procs, SeedStep(p) \/ RebuildError(p)
        PROVE  TypeOK'
    <2>1. PlacesOK /\ DbOK
      BY <1>2, SeedPlaces, DbSeed
    <2>2. batch' \in Batches
      <3>1. CASE Abandon(p) \/ UNCHANGED batch
        BY <3>1, AbandonBatch DEF TypeOK, Batches
      <3>2. CASE Reset(p) /\ batch' = NoBatch
        BY <3>2, StartupBounds DEF NoBatch, Batches
      <3>3. CASE InsertEvents(p) /\ batch' = [by |-> life[p], state |-> "open"]
        BY <3>3 DEF Batches, TypeOK
      <3>4. CASE MarkRunCompleted(p)
        BY <3>4 DEF MarkRunCompleted, Batches, TypeOK
      <3> QED  BY <1>2, <3>1, <3>2, <3>3, <3>4
               DEF SeedStep, Reset, CountEvents, InsertEvents, CreateRun, Rebuild,
                   RebuildFails, RebuildError, MarkRunFailed, Exit
    <2>3. faults' \in 0..MaxFaults
      BY <1>2, StartupBounds
         DEF SeedStep, Reset, CountEvents, InsertEvents, CreateRun, Rebuild, RebuildFails,
             RebuildError, MarkRunCompleted, MarkRunFailed, Exit, Fault, TypeOK
    <2> QED  BY <2>1, <2>2, <2>3 DEF TypeOK, PlacesOK, DbOK, AllStages, Batches
  <1>3. ASSUME NEW p \in Procs, Die(p) \/ Stop(p)
        PROVE  TypeOK'
    <2>1. PlacesOK
      BY <1>3, EndPlaces
    <2>2. UNCHANGED db
      BY <1>3 DEF Die, Stop
    <2>3. batch' \in Batches
      BY <1>3, AbandonBatch DEF Die, Stop, TypeOK, Batches
    <2>4. faults' \in 0..MaxFaults
      BY <1>3, StartupBounds DEF Die, Stop, Fault, TypeOK
    <2> QED  BY <2>1, <2>2, <2>3, <2>4, DbKept DEF TypeOK, PlacesOK, DbOK, AllStages, Batches
  <1>4. ASSUME NEW p \in Procs, NEW c \in Commands, Start(p, c)
        PROVE  TypeOK'
    <2>1. DbOK /\ UNCHANGED <<faults, batch>>
      BY <1>4, DbKept DEF Start
    <2> QED  BY <1>4, <2>1, StartPlaces DEF TypeOK, DbOK, AllStages
  <1>5. ASSUME UNCHANGED vars
        PROVE  TypeOK'
    BY <1>5 DEF TypeOK, vars
  <1> QED  BY <1>1, <1>2, <1>3, <1>4, <1>5 DEF Next, Settled

LEMMA TypeInit == Init => TypeOK
  <1> SUFFICES ASSUME Init PROVE TypeOK
    OBVIOUS
  <1>1. /\ schema \in Seq(Nat)
        /\ runs \in [(1..MaxStarts) \X (1..Scopes) -> Statuses]
        /\ snaps \in [1..Scopes -> Nat]
    BY EmptySeq DEF Init, NoRuns, NoSnaps, Statuses
  <1>2. /\ command \in [Procs -> Commands]
        /\ at \in [Procs -> AllStages]
        /\ next \in [Procs -> Nat \ {0}] /\ life \in [Procs -> 0..MaxStarts]
    BY NoneIsCommand, StartupBounds DEF Init, AllStages, Resting
  <1>3. /\ starts \in 0..MaxStarts /\ faults \in 0..MaxFaults
        /\ batch \in [by : 0..MaxStarts, state : {"none", "open", "cut", "done"}]
    BY StartupBounds DEF Init, NoBatch
  <1> QED  BY <1>1, <1>2, <1>3 DEF Init, TypeOK, AllStages

(* The state of the starting processes and of the database they prepare *)
(* stays within its types.                                              *)
THEOREM StartupTypes == Spec => []TypeOK
  BY TypeInit, TypeStep, PTL DEF Spec

-----------------------------------------------------------------------------
(* Migrations *)

(* A process that migrates has all files before the one it is at, and one  *)
(* that is about to commit has the file the schema lacks.                  *)
Progress(p) ==
    /\ at[p] \in {"check", "exec", "record", "commit"} => next[p] <= Len(schema) + 1
    /\ at[p] = "commit" => next[p] = Len(schema) + 1

(* A file's statements run in one open transaction at a time. *)
OneOpen ==
    \A p, q \in Procs :
        /\ p # q
        /\ at[p] \in {"record", "commit"} /\ at[q] \in {"record", "commit"}
        => next[p] # next[q]

MigrationInv ==
    /\ MigratedInOrder
    /\ ReadyMeansMigrated
    /\ \A p \in Procs : Progress(p)
    /\ OneOpen

(* A step of p outside CommitFile keeps the invariant if p's own part is. *)
LEMMA MigrationFrame ==
    ASSUME TypeOK, MigrationInv, NEW p \in Procs, Alone(p), UNCHANGED <<recorded, schema>>,
           Progress(p)',
           command'[p].migrate /\ at'[p] \notin Migrating \cup Resting
               => command'[p].files <= Len(schema),
           \A q \in Procs \ {p} :
               at'[p] \in {"record", "commit"} /\ at[q] \in {"record", "commit"}
                   => next'[p] # next[q]
    PROVE  MigrationInv'
  <1>1. MigratedInOrder'
    BY DEF MigrationInv, MigratedInOrder
  <1>2. ReadyMeansMigrated'
    BY DEF MigrationInv, ReadyMeansMigrated, Alone, Place
  <1>3. \A q \in Procs : Progress(q)'
    BY DEF MigrationInv, Progress, Alone, Place
  <1>4. OneOpen'
    BY DEF MigrationInv, OneOpen, Alone, Place
  <1> QED  BY <1>1, <1>2, <1>3, <1>4 DEF MigrationInv

(* CommitFile appends the file that comes next. *)
LEMMA CommitAppends ==
    ASSUME TypeOK, MigrationInv, NEW p \in Procs, CommitFile(p)
    PROVE  /\ Len(schema') = Len(schema) + 1
           /\ MigratedInOrder'
  <1>1. next[p] = Len(schema) + 1 /\ next[p] \in Nat
    BY DEF MigrationInv, Progress, CommitFile, TypeOK
  <1>2. /\ Len(schema) \in Nat /\ Len(schema') = Len(schema) + 1
        /\ \A i \in 1..Len(schema) : schema'[i] = schema[i]
        /\ schema'[Len(schema) + 1] = next[p]
        /\ DOMAIN schema' = 1..Len(schema')
        /\ schema' \in Seq(Nat)
    BY <1>1, AppendProperties, LenProperties DEF TypeOK, CommitFile
  <1>3. \A i \in 1..Len(schema') : schema'[i] = i
    BY <1>1, <1>2 DEF MigrationInv, MigratedInOrder
  <1>4. schema' = [i \in 1..Len(schema') |-> i]
    <2>1. schema' = [i \in 1..Len(schema') |-> schema'[i]]
      BY <1>2, LenProperties
    <2> QED  BY <1>3, <2>1
  <1>5. recorded' = 1..Len(schema')
    BY <1>1, <1>2 DEF CommitFile, MigrationInv, MigratedInOrder
  <1> QED  BY <1>2, <1>4, <1>5 DEF MigratedInOrder

(* Every step keeps the migrations in order. *)
LEMMA MigrationStep == TypeOK /\ MigrationInv /\ [Next]_vars => MigrationInv'
  <1> SUFFICES ASSUME TypeOK, MigrationInv, [Next]_vars PROVE MigrationInv'
    OBVIOUS
  <1> USE DEF Migrating, Resting
  <1>1. Len(schema) \in Nat /\ \A p \in Procs : next[p] \in Nat \ {0}
    BY LenProperties DEF TypeOK
  <1>2. ASSUME NEW p \in Procs, EnsureTable(p)
        PROVE  MigrationInv'
    <2>1. UNCHANGED <<recorded, schema>>
      BY <1>2 DEF EnsureTable, db
    <2>2. CASE Exit(p)
      BY <1>1, <2>1, <2>2, ExitPlace, MigrationFrame DEF Progress
    <2>3. CASE GoTo(p, "check", 1)
      <3>1. Alone(p) /\ at'[p] = "check" /\ next'[p] = 1
        BY <2>3, GoToPlace DEF AllStages, Working
      <3> QED  BY <1>1, <2>1, <3>1, MigrationFrame DEF Progress
    <2> QED  BY <1>2, <2>2, <2>3 DEF EnsureTable
  <1>3. ASSUME NEW p \in Procs, CheckFile(p)
        PROVE  MigrationInv'
    <2>1. UNCHANGED <<recorded, schema>> /\ at[p] = "check" /\ next[p] <= Len(schema) + 1
      BY <1>3 DEF CheckFile, db, MigrationInv, Progress
    <2>2. CASE next[p] \notin Files(command[p]) /\ AfterUp(p)
      <3>1. command[p].files <= Len(schema)
        <4>1. command[p].files \in Nat
          BY CommandFields DEF TypeOK
        <4> QED  BY <1>1, <2>1, <2>2, <4>1 DEF Files
      <3> QED  BY <2>1, <2>2, <3>1, AfterUpPlace, MigrationFrame DEF Progress, Keeps, Gone
    <2>3. CASE isApplied(next[p]) /\ GoTo(p, "check", next[p] + 1)
      <3>1. Alone(p) /\ at'[p] = "check" /\ next'[p] = next[p] + 1
        BY <1>1, <2>3, GoToPlace DEF AllStages, Working
      <3>2. next[p] <= Len(schema)
        BY <1>1, <2>3 DEF isApplied, MigrationInv, MigratedInOrder
      <3> QED  BY <1>1, <2>1, <3>1, <3>2, MigrationFrame DEF Progress
    <2>4. CASE GoTo(p, "exec", next[p])
      <3>1. Alone(p) /\ at'[p] = "exec" /\ next'[p] = next[p]
        BY <1>1, <2>4, GoToPlace DEF AllStages, Working
      <3> QED  BY <1>1, <2>1, <3>1, MigrationFrame DEF Progress
    <2> QED  BY <1>3, <2>2, <2>3, <2>4 DEF CheckFile
  <1>4. ASSUME NEW p \in Procs, ExecFile(p)
        PROVE  MigrationInv'
    <2>1. /\ UNCHANGED <<recorded, schema>> /\ at[p] = "exec" /\ next[p] <= Len(schema) + 1
          /\ GoTo(p, "record", next[p])
          /\ \A q \in Procs \ {p} : at[q] \in {"record", "commit"} => next[q] # next[p]
      BY <1>4 DEF ExecFile, db, MigrationInv, Progress
    <2>2. Alone(p) /\ at'[p] = "record" /\ next'[p] = next[p]
      BY <1>1, <2>1, GoToPlace DEF AllStages, Working
    <2> QED  BY <1>1, <2>1, <2>2, MigrationFrame DEF Progress
  <1>5. ASSUME NEW p \in Procs, RecordFile(p)
        PROVE  MigrationInv'
    <2>1. UNCHANGED <<recorded, schema>> /\ at[p] = "record" /\ next[p] <= Len(schema) + 1
      BY <1>5 DEF RecordFile, db, MigrationInv, Progress
    <2>2. CASE Exit(p)
      BY <1>1, <2>1, <2>2, ExitPlace, MigrationFrame DEF Progress
    <2>3. CASE next[p] \notin recorded /\ GoTo(p, "commit", next[p])
      <3>1. Alone(p) /\ at'[p] = "commit" /\ next'[p] = next[p]
        BY <1>1, <2>3, GoToPlace DEF AllStages, Working
      <3>2. next[p] = Len(schema) + 1
        BY <1>1, <2>1, <2>3 DEF MigrationInv, MigratedInOrder
      <3>3. \A q \in Procs \ {p} : at[q] \in {"record", "commit"} => next[q] # next[p]
        BY <2>1 DEF MigrationInv, OneOpen
      <3> QED  BY <1>1, <2>1, <3>1, <3>2, <3>3, MigrationFrame DEF Progress
    <2> QED  BY <1>5, <2>2, <2>3 DEF RecordFile
  <1>6. ASSUME NEW p \in Procs, CommitFile(p)
        PROVE  MigrationInv'
    <2>1. Len(schema') = Len(schema) + 1 /\ MigratedInOrder'
      BY <1>6, CommitAppends
    <2>2. at[p] = "commit" /\ next[p] = Len(schema) + 1
      BY <1>6 DEF CommitFile, MigrationInv, Progress
    <2>3. Alone(p) /\ at'[p] = "check" /\ next'[p] = next[p] + 1
      BY <1>1, <1>6, GoToPlace DEF CommitFile, AllStages, Working
    <2>4. ReadyMeansMigrated'
      <3>1. \A q \in Procs : command[q].files \in Nat
        BY CommandFields DEF TypeOK
      <3> QED  BY <1>1, <2>1, <2>3, <3>1 DEF MigrationInv, ReadyMeansMigrated, Alone, Place
    <2>5. ASSUME NEW q \in Procs
          PROVE  Progress(q)'
      <3>1. CASE q = p
        BY <1>1, <2>1, <2>2, <2>3, <3>1 DEF Progress
      <3>2. CASE q # p
        <4>1. at[q] # "commit"
          BY <2>2, <3>2 DEF MigrationInv, OneOpen, Progress
        <4>2. at'[q] = at[q] /\ next'[q] = next[q]
          BY <2>3, <3>2 DEF Alone, Place
        <4> QED  BY <1>1, <2>1, <4>1, <4>2 DEF MigrationInv, Progress
      <3> QED  BY <3>1, <3>2
    <2>6. OneOpen'
      BY <2>3 DEF MigrationInv, OneOpen, Alone, Place
    <2> QED  BY <2>1, <2>4, <2>5, <2>6 DEF MigrationInv
  <1>7. ASSUME NEW p \in Procs, SeedStep(p) \/ RebuildError(p)
        PROVE  MigrationInv'
    <2>1. UNCHANGED <<recorded, schema>>
      BY <1>7 DEF SeedStep, Reset, CountEvents, InsertEvents, CreateRun, Rebuild, RebuildFails,
                  RebuildError, MarkRunCompleted, MarkRunFailed, db
    <2>2. at[p] \notin Migrating \cup Resting /\ at'[p] \notin Migrating
      BY <1>7, SeedPlaces DEF Seeding, Rebuilding
    <2>3. at'[p] \notin Resting => command'[p] = command[p]
      BY <1>7, SeedPlaces DEF Seeding, Rebuilding, Keeps
    <2>4. Alone(p)
      BY <1>7, SeedPlaces
    <2> QED  BY <2>1, <2>2, <2>3, <2>4, MigrationFrame
             DEF Progress, MigrationInv, ReadyMeansMigrated
  <1>8. ASSUME NEW p \in Procs, Die(p) \/ Stop(p)
        PROVE  MigrationInv'
    <2>1. UNCHANGED <<recorded, schema>>
      BY <1>8 DEF Die, Stop, db
    <2> QED  BY <1>8, <2>1, EndPlaces, MigrationFrame DEF Progress
  <1>9. ASSUME NEW p \in Procs, NEW c \in Commands, Start(p, c)
        PROVE  MigrationInv'
    <2>1. UNCHANGED <<recorded, schema>>
      BY <1>9 DEF Start, db
    <2>2. /\ Alone(p) /\ at'[p] \in {"check", "create", "reset", "count", "serving"}
          /\ next'[p] = 1
          /\ command'[p].migrate => at'[p] \in Migrating
      BY <1>9, StartPlaces
    <2>3. Progress(p)'
      BY <1>1, <2>1, <2>2 DEF Progress
    <2> QED  BY <2>1, <2>2, <2>3, MigrationFrame
  <1>10. ASSUME UNCHANGED vars
         PROVE  MigrationInv'
    BY <1>10 DEF vars, MigrationInv, MigratedInOrder, ReadyMeansMigrated, Progress, OneOpen
  <1> QED  BY <1>2, <1>3, <1>4, <1>5, <1>6, <1>7, <1>8, <1>9, <1>10
           DEF Next, UpStep, Settled

LEMMA MigrationInit == Init => MigrationInv
  <1> SUFFICES ASSUME Init PROVE MigrationInv
    OBVIOUS
  <1>1. Len(schema) = 0 /\ schema = [i \in 1..Len(schema) |-> i] /\ recorded = 1..Len(schema)
    <2>1. schema = <<>> /\ Len(schema) = 0
      BY DEF Init
    <2>2. [i \in 1..0 |-> i] = <<>>
      BY SMT
    <2> QED  BY <2>1, <2>2 DEF Init
  <1> QED  BY <1>1 DEF Init, MigrationInv, MigratedInOrder, ReadyMeansMigrated, Progress, OneOpen,
                       Resting

(* Migrator.Up: however starts race, fail and die, files take effect once *)
(* and in order, and schema_migrations lists exactly those that did.      *)
THEOREM MigratedInOrderCorrect == Spec => []MigratedInOrder
  <1>1. MigrationInv => MigratedInOrder
    BY DEF MigrationInv
  <1> QED  BY <1>1, TypeInit, TypeStep, MigrationInit, MigrationStep, PTL DEF Spec

(* A process that migrates goes on only when the files of its release are *)
(* in the schema, whoever applied them.                                   *)
THEOREM ReadyMeansMigratedCorrect == Spec => []ReadyMeansMigrated
  <1>1. MigrationInv => ReadyMeansMigrated
    BY DEF MigrationInv
  <1> QED  BY <1>1, TypeInit, TypeStep, MigrationInit, MigrationStep, PTL DEF Spec

-----------------------------------------------------------------------------
(* Seeding *)

(* A process that runs has a start of its own. *)
Starts ==
    /\ \A p \in Procs : life[p] <= starts /\ (at[p] \in Resting <=> life[p] = 0)
    /\ \A p, q \in Procs : life[p] # 0 /\ life[p] = life[q] => p = q

(* The start that inserted the events belongs to one that is still at      *)
(* their scopes, to one that went on to serve, or to none.                 *)
Owner ==
    /\ batch.by <= starts
    /\ batch.state = "open" => batch.by # 0
    /\ \A p \in Procs :
          life[p] # 0 /\ life[p] = batch.by =>
              \/ at[p] \in Rebuilding /\ batch.state = "open"
              \/ at[p] = "serving" /\ batch.state = "done"

SeedInv == Starts /\ Owner /\ SeededScopes

(* A process keeps its start until it is gone. *)
LEMMA StartsStep == TypeOK /\ Starts /\ [Next]_vars => Starts'
  <1> SUFFICES ASSUME TypeOK, Starts, [Next]_vars PROVE Starts'
    OBVIOUS
  <1>1. ASSUME NEW p \in Procs,
               UpStep(p) \/ SeedStep(p) \/ RebuildError(p) \/ Die(p) \/ Stop(p)
        PROVE  Starts'
    <2>1. /\ Alone(p) /\ starts' = starts
          /\ \/ at'[p] \notin Resting /\ Keeps(p)
             \/ at'[p] \in Resting /\ Gone(p)
      BY <1>1, UpPlaces, SeedPlaces, EndPlaces
         DEF PlacesOK, Resting, Migrating, Seeding, Rebuilding
    <2>2. at[p] \notin Resting
      BY <1>1, UpPlaces, SeedPlaces
         DEF Die, Stop, Resting, Working, Migrating, Seeding, Rebuilding
    <2>3. starts \in Nat /\ \A q \in Procs : life[q] \in Nat
      BY StartupBounds DEF TypeOK
    <2>4. \A q \in Procs : life'[q] <= starts /\ (at'[q] \in Resting <=> life'[q] = 0)
      BY <2>1, <2>2, <2>3 DEF Starts, Alone, Place, Keeps, Gone
    <2>5. \A q \in Procs : life'[q] = life[q] \/ life'[q] = 0
      BY <2>1 DEF Alone, Place, Keeps, Gone
    <2>6. \A q, r \in Procs : life'[q] # 0 /\ life'[q] = life'[r] => q = r
      BY <2>5 DEF Starts
    <2> QED  BY <2>1, <2>4, <2>6 DEF Starts
  <1>2. ASSUME NEW p \in Procs, NEW c \in Commands, Start(p, c)
        PROVE  Starts'
    <2>1. Alone(p) /\ at'[p] \notin Resting /\ life'[p] = starts + 1 /\ starts' = starts + 1
      BY <1>2, StartPlaces DEF Start, Resting
    <2>2. starts \in Nat /\ \A q \in Procs : life[q] \in Nat
      BY StartupBounds DEF TypeOK
    <2> QED  BY <2>1, <2>2 DEF Starts, Alone, Place
  <1>3. ASSUME UNCHANGED vars PROVE Starts'
    BY <1>3 DEF vars, Starts
  <1> QED  BY <1>1, <1>2, <1>3 DEF Next, Settled

(* The scopes that process p is past have their snapshots. *)
Passed(p) ==
    \A s \in 1..Scopes :
        s < next[p] \/ (s = next[p] /\ at[p] = "complete") => snaps[s] = events

Owns(p) == life[p] # 0 /\ life[p] = batch.by

(* The snapshots of the scope p is at count the events, or none change. *)
Rebuilds(p) == snaps' = snaps \/ snaps' = [snaps EXCEPT ![next[p]] = events]

(* The inserter has passed the scopes it says it has. *)
LEMMA OwnerPassed ==
    ASSUME TypeOK, SeedInv, NEW p \in Procs, Owns(p), at[p] # "serving"
    PROVE  batch.state = "open" /\ at[p] \in Rebuilding /\ Passed(p)
  BY DEF SeedInv, Starts, Owner, SeededScopes, Owns, Passed

(* A step of a process that inserted nothing leaves no hole. *)
LEMMA OtherKeepsScopes ==
    ASSUME TypeOK, SeedInv, NEW p \in Procs, Alone(p), ~Owns(p), ~Owns(p)',
           UNCHANGED <<events, batch>>, starts <= starts', starts' \in Nat, Rebuilds(p)
    PROVE  Owner' /\ SeededScopes'
  <1>1. starts \in Nat /\ batch.by \in Nat /\ batch.by <= starts'
    BY StartupBounds DEF TypeOK, SeedInv, Owner
  <1>2. \A s \in 1..Scopes : snaps[s] = events => snaps'[s] = events
    BY DEF TypeOK, Rebuilds
  <1>3. \A q \in Procs \ {p} : UNCHANGED <<at[q], next[q], life[q]>>
    BY DEF Alone, Place
  <1>4. Owner'
    BY <1>1, <1>3 DEF SeedInv, Owner, Owns
  <1>5. batch.state = "done" => \A s \in 1..Scopes : snaps'[s] = events
    BY <1>2 DEF SeedInv, SeededScopes
  <1>6. CASE batch.state = "open"
    <2>1. PICK w \in Procs : life[w] = batch.by /\ at[w] \in Rebuilding /\ Passed(w)
      BY <1>6 DEF SeedInv, SeededScopes, Passed
    <2>2. w # p
      BY <1>6, <2>1 DEF SeedInv, Owner, Owns
    <2>3. life'[w] = batch.by /\ at'[w] \in Rebuilding /\ Passed(w)'
      BY <1>2, <1>3, <2>1, <2>2 DEF Passed
    <2> QED  BY <1>4, <1>5, <2>3 DEF SeededScopes, Passed
  <1> QED  BY <1>4, <1>5, <1>6 DEF SeededScopes

(* So does a step of the inserter that takes it on through its scopes. *)
LEMMA OwnerGoesOn ==
    ASSUME TypeOK, SeedInv, NEW p \in Procs, Alone(p), Owns(p), Keeps(p),
           UNCHANGED <<events, batch, starts>>,
           at[p] # "serving", at'[p] \in Rebuilding, Passed(p)'
    PROVE  Owner' /\ SeededScopes'
  <1>1. batch.state = "open"
    BY OwnerPassed
  <1>2. \A q \in Procs \ {p} : UNCHANGED <<at[q], next[q], life[q]>>
    BY DEF Alone, Place
  <1>3. Owner'
    BY <1>1, <1>2 DEF SeedInv, Owner, Owns, Keeps
  <1>4. SeededScopes'
    BY <1>1 DEF SeededScopes, Passed, Owns, Keeps
  <1> QED  BY <1>3, <1>4

(* The inserter is gone before its last scope: the batch is cut short. *)
LEMMA OwnerCut ==
    ASSUME TypeOK, SeedInv, NEW p \in Procs, Alone(p), Owns(p), Gone(p), Abandon(p),
           UNCHANGED starts
    PROVE  Owner' /\ SeededScopes'
  <1>1. batch'.state = "cut" /\ batch'.by = batch.by
    BY DEF Abandon, Owns, TypeOK
  <1>2. \A q \in Procs : life'[q] # 0 => q # p /\ life'[q] = life[q]
    BY DEF Alone, Place, Gone
  <1>3. \A q \in Procs : life'[q] # 0 => life'[q] # batch.by
    BY <1>2 DEF SeedInv, Starts, Owns
  <1> QED  BY <1>1, <1>3 DEF SeedInv, Owner, SeededScopes

(* Any other process that is gone leaves the batch as it is. *)
LEMMA OtherGone ==
    ASSUME TypeOK, SeedInv, NEW p \in Procs, Alone(p), ~Owns(p), Gone(p), Abandon(p),
           at[p] \notin Resting, UNCHANGED <<starts, events, snaps>>
    PROVE  Owner' /\ SeededScopes'
  <1>1. batch' = batch
    BY DEF Abandon, Owns, SeedInv, Starts
  <1>2. ~Owns(p)' /\ Rebuilds(p)
    BY DEF Owns, Gone, Rebuilds
  <1>3. starts <= starts' /\ starts' \in Nat
    BY StartupBounds DEF TypeOK
  <1> QED  BY <1>1, <1>2, <1>3, OtherKeepsScopes

(* Whoever exits. *)
LEMMA ExitKeepsScopes ==
    ASSUME TypeOK, SeedInv, NEW p \in Procs, Alone(p), Gone(p), Abandon(p),
           at[p] \notin Resting, UNCHANGED <<starts, events, snaps>>
    PROVE  Owner' /\ SeededScopes'
  BY OwnerCut, OtherGone

(* The calls of Seed before it is at a scope. *)
LEMMA FirstCallsKeepScopes ==
    ASSUME TypeOK, SeedInv, NEW p \in Procs, Reset(p) \/ CountEvents(p) \/ InsertEvents(p)
    PROVE  Owner' /\ SeededScopes'
  <1>1. at[p] \in {"reset", "count", "insert"} /\ ~Owns(p) /\ life[p] # 0
    BY DEF Reset, CountEvents, InsertEvents, SeedInv, Starts, Owner, Owns, Rebuilding, Resting
  <1>2. /\ Alone(p) /\ starts' = starts
        /\ \/ at'[p] \in Seeding \cup {"serving"} /\ Keeps(p)
           \/ at'[p] \in Resting /\ Gone(p)
    BY SeedPlaces DEF SeedStep, PlacesOK
  <1>3. starts \in Nat
    BY StartupBounds DEF TypeOK
  <1>4. CASE Exit(p) /\ UNCHANGED db
    <2>1. UNCHANGED <<events, snaps>>
      BY <1>4 DEF db
    <2> QED  BY <1>1, <1>2, <1>4, <2>1, ExitPlace, ExitKeepsScopes DEF Exit, Resting
  <1>5. CASE CountEvents(p) /\ ~Exit(p)
    <2>1. UNCHANGED <<events, snaps, batch>>
      BY <1>5 DEF CountEvents, db
    <2>2. ~Owns(p)' /\ Rebuilds(p)
      BY <1>1, <1>2, <2>1 DEF Owns, Keeps, Gone, Rebuilds
    <2> QED  BY <1>1, <1>2, <1>3, <2>1, <2>2, OtherKeepsScopes
  <1>6. CASE batch' = NoBatch /\ Reset(p)
    BY <1>2, <1>3, <1>6 DEF NoBatch, Owner, SeededScopes
  <1>7. CASE InsertEvents(p) /\ batch' = [by |-> life[p], state |-> "open"] /\ GoTo(p, "run", 1)
    <2>1. at'[p] = "run" /\ next'[p] = 1 /\ Keeps(p)
      BY <1>7, GoToPlace DEF AllStages, Working, Rebuilding
    <2>2. \A q \in Procs : life'[q] = life[q]
      BY <1>2, <2>1 DEF Alone, Place, Keeps
    <2>3. Owner'
      BY <1>1, <1>2, <1>7, <2>1, <2>2 DEF SeedInv, Starts, Owner, Rebuilding
    <2>4. Passed(p)'
      BY <2>1 DEF Passed
    <2>5. SeededScopes'
      BY <1>7, <2>1, <2>2, <2>4 DEF SeededScopes, Passed, Rebuilding
    <2> QED  BY <2>3, <2>5
  <1> QED  BY <1>4, <1>5, <1>6, <1>7 DEF Reset, CountEvents, InsertEvents

(* The calls of Seed for one scope. *)
LEMMA ScopeCallsKeepScopes ==
    ASSUME TypeOK, SeedInv, NEW p \in Procs,
           \/ CreateRun(p) \/ Rebuild(p) \/ RebuildFails(p) \/ RebuildError(p)
           \/ MarkRunCompleted(p) \/ MarkRunFailed(p)
    PROVE  Owner' /\ SeededScopes'
  <1>1. at[p] \in Rebuilding /\ life[p] # 0 /\ at[p] \notin Resting
    BY DEF CreateRun, Rebuild, RebuildFails, RebuildError, MarkRunCompleted, MarkRunFailed,
           Rebuilding, SeedInv, Starts, Resting
  <1>2. /\ Alone(p) /\ starts' = starts
        /\ \/ at'[p] \in Seeding \cup {"serving"} /\ Keeps(p)
           \/ at'[p] \in Resting /\ Gone(p)
    BY SeedPlaces DEF SeedStep, PlacesOK
  <1>3. starts \in Nat /\ next[p] \in Nat \ {0}
    BY StartupBounds DEF TypeOK
  <1>4. events' = events /\ Rebuilds(p)
    BY DEF CreateRun, Rebuild, RebuildFails, RebuildError, MarkRunCompleted, MarkRunFailed,
           Rebuilds, db
  <1>5. CASE MarkRunFailed(p)
    <2>1. UNCHANGED <<events, snaps>>
      BY <1>5 DEF MarkRunFailed
    <2> QED  BY <1>1, <1>2, <1>5, <2>1, ExitPlace, ExitKeepsScopes DEF MarkRunFailed, Exit
  <1>6. CASE ~Owns(p) /\ ~MarkRunFailed(p)
    <2>1. batch' = batch
      BY <1>1, <1>6
         DEF CreateRun, Rebuild, RebuildFails, RebuildError, MarkRunCompleted, Owns
    <2>2. ~Owns(p)'
      BY <1>2, <1>6, <2>1 DEF Owns, Keeps, Gone
    <2> QED  BY <1>2, <1>3, <1>4, <1>6, <2>1, <2>2, OtherKeepsScopes
  <1>7. CASE Owns(p) /\ (CreateRun(p) \/ Rebuild(p) \/ RebuildFails(p) \/ RebuildError(p))
    <2>1. batch' = batch /\ at[p] \in {"run", "rebuild"}
      BY <1>7 DEF CreateRun, Rebuild, RebuildFails, RebuildError
    <2>2. Passed(p)
      BY <1>7, <2>1, OwnerPassed
    <2>3. \E stage \in {"rebuild", "complete", "fail"} : GoTo(p, stage, next[p])
      BY <1>7 DEF CreateRun, Rebuild, RebuildFails, RebuildError
    <2>4. /\ at'[p] \in {"rebuild", "complete", "fail"} /\ next'[p] = next[p] /\ Keeps(p)
          /\ at'[p] = "complete" => Rebuild(p)
      BY <1>3, <1>7, <2>3, GoToPlace
         DEF AllStages, Working, Rebuilding, CreateRun, RebuildFails, RebuildError
    <2>5. at[p] # "complete"
      BY <2>1
    <2>6. Passed(p)'
      <3>1. \A s \in 1..Scopes : s < next[p] => snaps'[s] = events
        BY <1>3, <1>4, <2>2 DEF Passed, Rebuilds, TypeOK
      <3>2. Rebuild(p) => \A s \in 1..Scopes : s = next[p] => snaps'[s] = events
        BY DEF Rebuild, TypeOK
      <3> QED  BY <1>4, <2>4, <3>1, <3>2 DEF Passed
    <2> QED  BY <1>2, <1>4, <1>7, <2>1, <2>4, <2>6, OwnerGoesOn DEF Rebuilding
  <1>8. CASE Owns(p) /\ MarkRunCompleted(p)
    <2>1. Passed(p) /\ at[p] = "complete" /\ snaps' = snaps
      BY <1>8, OwnerPassed DEF MarkRunCompleted
    <2>2. CASE next[p] < Scopes /\ GoTo(p, "run", next[p] + 1) /\ UNCHANGED batch
      <3>1. at'[p] = "run" /\ next'[p] = next[p] + 1 /\ Keeps(p)
        BY <1>3, <2>2, GoToPlace DEF AllStages, Working, Rebuilding
      <3>2. Passed(p)'
        BY <1>3, <1>4, <2>1, <3>1 DEF Passed
      <3> QED  BY <1>2, <1>4, <1>8, <2>1, <2>2, <3>1, <3>2, OwnerGoesOn DEF Rebuilding
    <2>3. CASE next[p] = Scopes /\ Ready(p) /\ batch' = [batch EXCEPT !.state = "done"]
      <3>1. batch'.by = batch.by /\ batch'.state = "done"
        BY <2>3 DEF TypeOK
      <3>2. \A s \in 1..Scopes : snaps'[s] = events'
        BY <1>4, <2>1, <2>3, StartupBounds DEF Passed
      <3>3. \A q \in Procs : life'[q] # 0 /\ life'[q] = batch.by => q = p /\ at'[p] = "serving"
        BY <1>2, <1>8, <2>3, ReadyPlace
           DEF Alone, Place, Keeps, Gone, Owns, SeedInv, Starts
      <3> QED  BY <1>2, <3>1, <3>2, <3>3 DEF Owner, SeededScopes, SeedInv
    <2> QED  BY <1>8, <2>2, <2>3 DEF MarkRunCompleted, Owns
  <1> QED  BY <1>5, <1>6, <1>7, <1>8

(* Every step keeps the batch's owner and what it says of the scopes. *)
LEMMA SeedInvStep == TypeOK /\ SeedInv /\ [Next]_vars => SeedInv'
  <1> SUFFICES ASSUME TypeOK, SeedInv, [Next]_vars PROVE SeedInv'
    OBVIOUS
  <1>1. Starts'
    BY StartsStep DEF SeedInv
  <1>2. starts \in Nat
    BY StartupBounds DEF TypeOK
  <1>3. ASSUME NEW p \in Procs, UpStep(p)
        PROVE  Owner' /\ SeededScopes'
    <2>1. /\ Alone(p) /\ starts' = starts /\ at[p] \in Migrating /\ (Keeps(p) \/ Gone(p))
      BY <1>3, UpPlaces DEF PlacesOK
    <2>2. ~Owns(p) /\ life[p] # 0
      BY <2>1 DEF SeedInv, Starts, Owner, Owns, Migrating, Rebuilding, Resting
    <2>3. UNCHANGED <<events, snaps, batch>>
      BY <1>3, <2>2 DEF UpStep, EnsureTable, CheckFile, ExecFile, RecordFile, CommitFile,
                        Exit, Abandon, Owns, db
    <2>4. ~Owns(p)' /\ Rebuilds(p)
      BY <2>1, <2>2, <2>3 DEF Owns, Keeps, Gone, Rebuilds
    <2> QED  BY <1>2, <2>1, <2>2, <2>3, <2>4, OtherKeepsScopes
  <1>4. ASSUME NEW p \in Procs, SeedStep(p) \/ RebuildError(p)
        PROVE  Owner' /\ SeededScopes'
    BY <1>4, FirstCallsKeepScopes, ScopeCallsKeepScopes DEF SeedStep
  <1>5. ASSUME NEW p \in Procs, Die(p)
        PROVE  Owner' /\ SeededScopes'
    <2>1. UNCHANGED <<events, snaps>> /\ at[p] \notin Resting /\ Abandon(p)
      BY <1>5 DEF Die, db, Working, Migrating, Rebuilding, Resting
    <2> QED  BY <1>5, <2>1, EndPlaces, ExitKeepsScopes DEF PlacesOK
  <1>6. ASSUME NEW p \in Procs, Stop(p)
        PROVE  Owner' /\ SeededScopes'
    <2>1. Alone(p) /\ Gone(p) /\ starts' = starts
      BY <1>6, EndPlaces DEF PlacesOK
    <2>2. UNCHANGED <<events, snaps, batch>> /\ at[p] = "serving"
      BY <1>6 DEF Stop, db
    <2>3. ~Owns(p)' /\ Rebuilds(p)
      BY <2>1, <2>2 DEF SeedInv, Starts, Owner, Owns, Gone, Rebuilds, Resting
    <2>4. CASE ~Owns(p)
      BY <1>2, <2>1, <2>2, <2>3, <2>4, OtherKeepsScopes
    <2>5. CASE Owns(p)
      <3>1. batch.state = "done"
        BY <2>2, <2>5 DEF SeedInv, Owner, Owns, Rebuilding
      <3>2. Owner'
        BY <2>1, <2>2, <2>3 DEF SeedInv, Owner, Owns, Alone, Place, Gone
      <3> QED  BY <2>2, <3>1, <3>2 DEF SeedInv, SeededScopes
    <2> QED  BY <2>4, <2>5
  <1>7. ASSUME NEW p \in Procs, NEW c \in Commands, Start(p, c)
        PROVE  Owner' /\ SeededScopes'
    <2>1. /\ UNCHANGED <<events, snaps, batch>> /\ at[p] \in Resting /\ starts' = starts + 1
          /\ Alone(p) /\ life'[p] = starts + 1
      BY <1>7, StartPlaces DEF Start, db
    <2>2. ~Owns(p) /\ ~Owns(p)' /\ Rebuilds(p)
      <3>1. batch.by <= starts /\ batch.by \in Nat
        BY StartupBounds DEF SeedInv, Owner, TypeOK
      <3> QED  BY <1>2, <2>1, <3>1 DEF SeedInv, Starts, Owns, Rebuilds
    <2> QED  BY <1>2, <2>1, <2>2, OtherKeepsScopes
  <1>8. ASSUME UNCHANGED vars
        PROVE  Owner' /\ SeededScopes'
    BY <1>8 DEF vars, SeedInv, Owner, SeededScopes
  <1> QED  BY <1>1, <1>3, <1>4, <1>5, <1>6, <1>7, <1>8 DEF Next, Settled, SeedInv

(* A fresh database holds no batch. *)
LEMMA SeedInit == Init => SeedInv
  BY DEF Init, SeedInv, Starts, Owner, SeededScopes, NoBatch, Resting

(* Seeder.Seed: unless its inserter was cut short, the demo events have   *)
(* the snapshots of every scope the inserter is past; no reset, rival or  *)
(* failed rebuild leaves a hole.                                          *)
THEOREM SeededScopesCorrect == Spec => []SeededScopes
  <1>1. SeedInv => SeededScopes
    BY DEF SeedInv
  <1> QED  BY <1>1, TypeInit, TypeStep, SeedInit, SeedInvStep, PTL DEF Spec

-----------------------------------------------------------------------------
(* Completed scopes *)

(* A start has rows only once it is at the scopes. *)
RowsOfStarts ==
    \A l \in 1..MaxStarts, s \in 1..Scopes :
        runs[<<l, s>>] # "absent" =>
            /\ l <= starts
            /\ \A p \in Procs : life[p] = l => at[p] \in Rebuilding \cup {"serving"}

(* Process p is where rows may be of its start, or nowhere, or new. *)
LEMMA RowsFrame ==
    ASSUME TypeOK, SeedInv, RowsOfStarts, NEW p \in Procs, Alone(p),
           starts' \in Nat, starts <= starts',
           \/ life'[p] = 0
           \/ life'[p] = starts + 1
           \/ /\ life'[p] = life[p]
              /\ at[p] \in Rebuilding \cup {"serving"} => at'[p] \in Rebuilding \cup {"serving"},
           \A l \in 1..MaxStarts, s \in 1..Scopes :
               runs'[<<l, s>>] # "absent" =>
                   runs[<<l, s>>] # "absent" \/ (l = life[p] /\ at[p] \in Rebuilding)
    PROVE  RowsOfStarts'
  <1> SUFFICES ASSUME NEW l \in 1..MaxStarts, NEW s \in 1..Scopes, runs'[<<l, s>>] # "absent"
               PROVE  /\ l <= starts'
                      /\ \A q \in Procs :
                            life'[q] = l => at'[q] \in Rebuilding \cup {"serving"}
    BY DEF RowsOfStarts
  <1>1. starts \in Nat /\ l \in Nat \ {0} /\ \A q \in Procs : life[q] \in Nat
    BY StartupBounds DEF TypeOK
  <1>2. /\ l <= starts
        /\ \A q \in Procs : life[q] = l => at[q] \in Rebuilding \cup {"serving"}
    <2>1. CASE runs[<<l, s>>] # "absent"
      BY <2>1 DEF RowsOfStarts
    <2>2. CASE l = life[p] /\ at[p] \in Rebuilding
      BY <1>1, <2>2 DEF SeedInv, Starts
    <2> QED  BY <2>1, <2>2
  <1>3. ASSUME NEW q \in Procs, life'[q] = l
        PROVE  at'[q] \in Rebuilding \cup {"serving"}
    <2>1. CASE q = p
      BY <1>1, <1>2, <1>3, <2>1
    <2>2. CASE q # p
      BY <1>2, <1>3, <2>2 DEF Alone, Place
    <2> QED  BY <2>1, <2>2
  <1> QED  BY <1>1, <1>2, <1>3

LEMMA RowsStep == TypeOK /\ SeedInv /\ RowsOfStarts /\ [Next]_vars => RowsOfStarts'
  <1> SUFFICES ASSUME TypeOK, SeedInv, RowsOfStarts, [Next]_vars PROVE RowsOfStarts'
    OBVIOUS
  <1>1. starts \in Nat
    BY StartupBounds DEF TypeOK
  <1>2. ASSUME NEW p \in Procs, UpStep(p) \/ Die(p) \/ Stop(p)
        PROVE  RowsOfStarts'
    <2>1. runs' = runs
      BY <1>2 DEF UpStep, EnsureTable, CheckFile, ExecFile, RecordFile, CommitFile, Die, Stop, db
    <2>2. Alone(p) /\ starts' = starts
      BY <1>2, UpPlaces, EndPlaces DEF PlacesOK
    <2>3. \/ life'[p] = 0
          \/ life'[p] = life[p] /\ at[p] \in Migrating
      BY <1>2, UpPlaces, EndPlaces DEF Gone, Keeps
    <2> QED  BY <1>1, <2>1, <2>2, <2>3, RowsFrame DEF Migrating, Rebuilding
  <1>3. ASSUME NEW p \in Procs, SeedStep(p) \/ RebuildError(p)
        PROVE  RowsOfStarts'
    <2>1. /\ Alone(p) /\ starts' = starts
          /\ \/ life'[p] = 0
             \/ life'[p] = life[p] /\ at'[p] \in Seeding \cup {"serving"}
      BY <1>3, SeedPlaces DEF PlacesOK, Gone, Keeps
    <2>2. CASE Reset(p) \/ CountEvents(p) \/ InsertEvents(p)
      <3>1. runs' = NoRuns \/ runs' = runs
        BY <2>2 DEF Reset, CountEvents, InsertEvents, db
      <3>2. at[p] \notin Rebuilding \cup {"serving"}
        BY <2>2 DEF Reset, CountEvents, InsertEvents, Rebuilding
      <3> QED  BY <1>1, <2>1, <3>1, <3>2, RowsFrame DEF NoRuns
    <2>3. CASE ~(Reset(p) \/ CountEvents(p) \/ InsertEvents(p))
      <3>1. at[p] \in Rebuilding /\ at'[p] \notin {"reset", "count", "insert"}
        <4>1. CASE MarkRunCompleted(p)
          <5>1. (next[p] < Scopes /\ GoTo(p, "run", next[p] + 1)) \/ Ready(p)
            BY <4>1 DEF MarkRunCompleted
          <5>2. next[p] + 1 \in Nat \ {0}
            BY DEF TypeOK
          <5>3. at'[p] \in {"run", "serving", "done"}
            BY <5>1, <5>2, GoToPlace, ReadyPlace DEF AllStages, Working, Rebuilding
          <5> QED  BY <4>1, <5>3 DEF MarkRunCompleted, Rebuilding
        <4>2. CASE MarkRunFailed(p)
          BY <4>2, ExitPlace DEF MarkRunFailed, Rebuilding
        <4>3. CASE CreateRun(p) \/ Rebuild(p) \/ RebuildFails(p) \/ RebuildError(p)
          <5>1. next[p] \in Nat \ {0}
            BY DEF TypeOK
          <5>2. \E stage \in {"rebuild", "complete", "fail"} : GoTo(p, stage, next[p])
            BY <4>3 DEF CreateRun, Rebuild, RebuildFails, RebuildError
          <5>3. at'[p] \in {"rebuild", "complete", "fail"}
            BY <5>1, <5>2, GoToPlace DEF AllStages, Working, Rebuilding
          <5> QED  BY <4>3, <5>3 DEF CreateRun, Rebuild, RebuildFails, RebuildError, Rebuilding
        <4> QED  BY <1>3, <2>3, <4>1, <4>2, <4>3 DEF SeedStep
      <3>2. \A l \in 1..MaxStarts, s \in 1..Scopes :
                runs'[<<l, s>>] # "absent" => runs[<<l, s>>] # "absent" \/ l = life[p]
        <4>1. CASE runs' = runs
          BY <4>1
        <4>2. CASE \E status \in Statuses : SetStatus(p, status)
          BY <4>2 DEF SetStatus, Run, TypeOK
        <4>3. CASE CreateRun(p)
          BY <4>3 DEF CreateRun, Run, TypeOK
        <4> QED  BY <1>3, <2>3, <4>1, <4>2, <4>3
                 DEF SeedStep, Rebuild, RebuildFails, RebuildError, MarkRunCompleted,
                     MarkRunFailed, Statuses, db
      <3> QED  BY <1>1, <2>1, <3>1, <3>2, RowsFrame DEF Seeding
    <2> QED  BY <2>2, <2>3
  <1>4. ASSUME NEW p \in Procs, NEW c \in Commands, Start(p, c)
        PROVE  RowsOfStarts'
    <2>1. Alone(p) /\ life'[p] = starts + 1 /\ starts' = starts + 1 /\ runs' = runs
      BY <1>4, StartPlaces DEF Start, db
    <2> QED  BY <1>1, <2>1, RowsFrame
  <1>5. ASSUME UNCHANGED vars
        PROVE  RowsOfStarts'
    BY <1>5 DEF vars, RowsOfStarts
  <1> QED  BY <1>2, <1>3, <1>4, <1>5 DEF Next, Settled

(* The rows of the inserter and the snapshots of its scopes.               *)
LEMMA CompletedStep ==
    TypeOK /\ SeedInv /\ RowsOfStarts /\ CompletedRunsTrue /\ [Next]_vars => CompletedRunsTrue'
  <1> SUFFICES ASSUME TypeOK, SeedInv, RowsOfStarts, CompletedRunsTrue, [Next]_vars
               PROVE  CompletedRunsTrue'
    OBVIOUS
  <1>1. batch.by \in 0..MaxStarts
    BY DEF TypeOK
  <1>2. ASSUME batch'.by = batch.by, events' = events, runs' = runs, snaps' = snaps
        PROVE  CompletedRunsTrue'
    BY <1>2 DEF CompletedRunsTrue
  <1>3. ASSUME NEW p \in Procs, Abandon(p)
        PROVE  batch'.by = batch.by
    BY <1>3 DEF Abandon, TypeOK
  <1>4. ASSUME NEW p \in Procs,
               UpStep(p) \/ Die(p) \/ Stop(p) \/ CountEvents(p) \/ RebuildFails(p)
        PROVE  CompletedRunsTrue'
    <2>1. UNCHANGED <<events, runs, snaps>>
      BY <1>4 DEF UpStep, EnsureTable, CheckFile, ExecFile, RecordFile, CommitFile, Die, Stop,
                  CountEvents, RebuildFails, db
    <2>2. batch' = batch \/ Abandon(p)
      BY <1>4 DEF UpStep, EnsureTable, CheckFile, ExecFile, RecordFile, CommitFile, Die, Stop,
                  CountEvents, RebuildFails, Exit
    <2> QED  BY <1>2, <1>3, <2>1, <2>2
  <1>5. ASSUME NEW p \in Procs, Reset(p)
        PROVE  CompletedRunsTrue'
    BY <1>2, <1>3, <1>5 DEF Reset, Exit, NoBatch, CompletedRunsTrue, db
  <1>6. ASSUME NEW p \in Procs, InsertEvents(p)
        PROVE  CompletedRunsTrue'
    <2>1. CASE Exit(p) /\ UNCHANGED db
      BY <1>2, <1>3, <2>1 DEF Exit, db
    <2>2. CASE runs' = runs /\ batch' = [by |-> life[p], state |-> "open"]
      <3>1. life[p] \in 1..MaxStarts /\ at[p] \notin Rebuilding \cup {"serving"}
        <4>1. at[p] = "insert"
          BY <1>6 DEF InsertEvents
        <4>2. life[p] # 0
          BY <4>1 DEF SeedInv, Starts, Resting
        <4>3. life[p] \in 0..MaxStarts /\ MaxStarts \in Nat
          BY StartupBounds DEF TypeOK
        <4> QED  BY <4>1, <4>2, <4>3 DEF Rebuilding
      <3>2. \A s \in 1..Scopes : runs[<<life[p], s>>] = "absent"
        BY <3>1 DEF RowsOfStarts
      <3> QED  BY <2>2, <3>2 DEF CompletedRunsTrue
    <2> QED  BY <1>6, <2>1, <2>2 DEF InsertEvents
  <1>7. ASSUME NEW p \in Procs, Rebuild(p) \/ RebuildError(p)
        PROVE  CompletedRunsTrue'
    <2>1. UNCHANGED <<events, runs, batch>> /\ Rebuilds(p)
      BY <1>7 DEF Rebuild, RebuildError, Rebuilds
    <2>2. \A s \in 1..Scopes : snaps'[s] = snaps[s] \/ snaps'[s] = events
      BY <2>1 DEF Rebuilds, TypeOK
    <2> QED  BY <2>1, <2>2 DEF CompletedRunsTrue
  <1>8. ASSUME NEW p \in Procs, CreateRun(p) \/ MarkRunFailed(p)
        PROVE  CompletedRunsTrue'
    <2>1. UNCHANGED <<events, snaps>> /\ batch'.by = batch.by
      BY <1>3, <1>8 DEF CreateRun, MarkRunFailed, Exit
    <2>2. \A l \in 1..MaxStarts, s \in 1..Scopes :
              runs'[<<l, s>>] = "completed" => runs[<<l, s>>] = "completed"
      BY <1>8 DEF CreateRun, MarkRunFailed, SetStatus, TypeOK
    <2> QED  BY <1>1, <2>1, <2>2 DEF CompletedRunsTrue
  <1>9. ASSUME NEW p \in Procs, MarkRunCompleted(p)
         PROVE  CompletedRunsTrue'
    <2>1. UNCHANGED <<events, snaps>> /\ batch'.by = batch.by /\ at[p] = "complete"
      BY <1>9 DEF MarkRunCompleted, TypeOK
    <2>2. \A l \in 1..MaxStarts, s \in 1..Scopes :
              runs'[<<l, s>>] = "completed" =>
                  runs[<<l, s>>] = "completed" \/ (l = life[p] /\ s = next[p])
      BY <1>9 DEF MarkRunCompleted, SetStatus, Run, TypeOK
    <2>3. ASSUME NEW s \in 1..Scopes, batch.by # 0, batch.by = life[p], s = next[p]
          PROVE  snaps[s] = events
      <3>1. Passed(p)
        BY <2>1, <2>3, OwnerPassed DEF Owns
      <3> QED  BY <2>1, <2>3, <3>1 DEF Passed
    <2> QED  BY <1>1, <2>1, <2>2, <2>3 DEF CompletedRunsTrue
  <1>10. ASSUME NEW p \in Procs, NEW c \in Commands, Start(p, c)
         PROVE  CompletedRunsTrue'
    BY <1>2, <1>10 DEF Start, db
  <1>11. ASSUME UNCHANGED vars
         PROVE  CompletedRunsTrue'
    BY <1>2, <1>11 DEF vars
  <1> QED  BY <1>4, <1>5, <1>6, <1>7, <1>8, <1>9, <1>10, <1>11 DEF Next, SeedStep, Settled

(* Seeder.Seed: a run row of the start that inserted the events says       *)
(* `completed' only if the snapshots of its scope count them, also when    *)
(* that start was cut short, among resets and rival seeders.               *)
THEOREM CompletedRunsTrueCorrect == Spec => []CompletedRunsTrue
  <1>1. Init => RowsOfStarts /\ CompletedRunsTrue
    BY DEF Init, RowsOfStarts, CompletedRunsTrue, NoRuns, NoBatch
  <1> QED  BY <1>1, TypeInit, TypeStep, SeedInit, SeedInvStep, RowsStep, CompletedStep, PTL
           DEF Spec

-----------------------------------------------------------------------------
(* Run rows of the seeder *)

Busy == {"rebuild", "complete", "fail"}

(* A step of p leaves no row behind that says `running'. *)
LEMMA RunFrame ==
    ASSUME NoRunLeftRunning, NEW p \in Procs, Alone(p), faults' = faults,
           \A l \in 1..MaxStarts, s \in 1..Scopes :
               runs'[<<l, s>>] = "running" =>
                   \/ runs[<<l, s>>] = "running" /\ ~(Run(p) = <<l, s>> /\ at[p] \in Busy)
                   \/ Run(p)' = <<l, s>> /\ at'[p] \in Busy
    PROVE  NoRunLeftRunning'
  <1> SUFFICES ASSUME faults = 0, NEW l \in 1..MaxStarts, NEW s \in 1..Scopes,
                      runs'[<<l, s>>] = "running"
               PROVE  \E q \in Procs : (Run(q) = <<l, s>> /\ at[q] \in Busy)'
    BY DEF NoRunLeftRunning, Busy
  <1>1. CASE Run(p)' = <<l, s>> /\ at'[p] \in Busy
    BY <1>1
  <1>2. CASE runs[<<l, s>>] = "running" /\ ~(Run(p) = <<l, s>> /\ at[p] \in Busy)
    <2>1. PICK q \in Procs : Run(q) = <<l, s>> /\ at[q] \in Busy
      BY <1>2 DEF NoRunLeftRunning, Busy
    <2>2. q # p
      BY <1>2, <2>1
    <2>3. Run(q)' = Run(q) /\ at'[q] = at[q]
      BY <2>2 DEF Alone, Place, Run
    <2> QED  BY <2>1, <2>3
  <1> QED  BY <1>1, <1>2

(* After a fault nothing is said. *)
LEMMA FaultFrame == TypeOK /\ Fault => NoRunLeftRunning'
  <1> SUFFICES ASSUME TypeOK, Fault PROVE faults' # 0
    BY DEF NoRunLeftRunning
  <1> QED  BY StartupBounds DEF TypeOK, Fault

(* An UPDATE to another status takes a row out of `running'. *)
LEMMA StatusEnds ==
    ASSUME TypeOK, NEW p \in Procs, NEW status, status # "running", SetStatus(p, status)
    PROVE  \A l \in 1..MaxStarts, s \in 1..Scopes :
               runs'[<<l, s>>] = "running" => runs[<<l, s>>] = "running" /\ Run(p) # <<l, s>>
  BY DEF TypeOK, SetStatus

(* Every step without a fault leaves the running rows to their processes. *)
LEMMA RunsStep == TypeOK /\ NoRunLeftRunning /\ [Next]_vars => NoRunLeftRunning'
  <1> SUFFICES ASSUME TypeOK, NoRunLeftRunning, [Next]_vars PROVE NoRunLeftRunning'
    OBVIOUS
  <1>1. ASSUME NEW p \in Procs, UpStep(p)
        PROVE  NoRunLeftRunning'
    <2>1. UNCHANGED <<runs, faults>>
      BY <1>1 DEF UpStep, EnsureTable, CheckFile, ExecFile, RecordFile, CommitFile, Exit, db
    <2>2. Alone(p) /\ at[p] \notin Busy
      BY <1>1, UpPlaces DEF Migrating, Busy
    <2> QED  BY <2>1, <2>2, RunFrame
  <1>2. ASSUME NEW p \in Procs, Reset(p) \/ CountEvents(p) \/ InsertEvents(p)
        PROVE  NoRunLeftRunning'
    <2>1. runs' = NoRuns \/ runs' = runs
      BY <1>2 DEF Reset, CountEvents, InsertEvents, db
    <2>2. Alone(p) /\ at[p] \notin Busy /\ faults' = faults
      BY <1>2, SeedPlaces DEF SeedStep, Reset, CountEvents, InsertEvents, Exit, Busy
    <2> QED  BY <2>1, <2>2, RunFrame DEF NoRuns
  <1>3. ASSUME NEW p \in Procs, CreateRun(p)
        PROVE  NoRunLeftRunning'
    <2>1. /\ runs' = [runs EXCEPT ![Run(p)] = "running"] /\ faults' = faults
          /\ at[p] = "run" /\ GoTo(p, "rebuild", next[p])
      BY <1>3 DEF CreateRun
    <2>2. next[p] \in Nat \ {0}
      BY DEF TypeOK
    <2>3. Alone(p) /\ at'[p] = "rebuild" /\ Run(p)' = Run(p)
      BY <2>1, <2>2, GoToPlace DEF AllStages, Working, Rebuilding, Run, Keeps
    <2>4. \A l \in 1..MaxStarts, s \in 1..Scopes :
              runs'[<<l, s>>] = "running" => runs[<<l, s>>] = "running" \/ Run(p) = <<l, s>>
      BY <2>1 DEF TypeOK
    <2> QED  BY <2>1, <2>3, <2>4, RunFrame DEF Busy
  <1>4. ASSUME NEW p \in Procs, Rebuild(p) \/ RebuildFails(p)
        PROVE  NoRunLeftRunning'
    <2>1. UNCHANGED <<runs, faults>> /\ \E stage \in {"complete", "fail"} : GoTo(p, stage, next[p])
      BY <1>4 DEF Rebuild, RebuildFails, db
    <2>2. next[p] \in Nat \ {0}
      BY DEF TypeOK
    <2>3. Alone(p) /\ at'[p] \in Busy /\ Run(p)' = Run(p)
      BY <2>1, <2>2, GoToPlace DEF AllStages, Working, Rebuilding, Run, Keeps, Busy
    <2> QED  BY <2>1, <2>3, RunFrame
  <1>5. ASSUME NEW p \in Procs, MarkRunCompleted(p) \/ MarkRunFailed(p)
        PROVE  NoRunLeftRunning'
    <2>1. Alone(p) /\ faults' = faults
      BY <1>5, SeedPlaces DEF SeedStep, MarkRunCompleted, MarkRunFailed, Exit
    <2> QED  BY <1>5, <2>1, StatusEnds, RunFrame DEF MarkRunCompleted, MarkRunFailed
  <1>6. ASSUME NEW p \in Procs, Die(p) \/ RebuildError(p)
        PROVE  NoRunLeftRunning'
    BY <1>6, FaultFrame DEF Die, RebuildError
  <1>7. ASSUME NEW p \in Procs, Stop(p)
        PROVE  NoRunLeftRunning'
    BY <1>7, EndPlaces, RunFrame DEF Stop, db, Busy
  <1>8. ASSUME NEW p \in Procs, NEW c \in Commands, Start(p, c)
        PROVE  NoRunLeftRunning'
    BY <1>8, StartPlaces, RunFrame DEF Start, db, Resting, Busy
  <1>9. ASSUME UNCHANGED vars
        PROVE  NoRunLeftRunning'
    BY <1>9 DEF vars, NoRunLeftRunning, Run
  <1> QED  BY <1>1, <1>2, <1>3, <1>4, <1>5, <1>6, <1>7, <1>8, <1>9
           DEF Next, SeedStep, Settled

(* seedSnapshots: without a fault a run row says `running' only while its *)
(* process is at it, even when rivals and resets make the rebuild fail.   *)
THEOREM NoRunLeftRunningCorrect == Spec => []NoRunLeftRunning
  <1>1. Init => NoRunLeftRunning
    BY DEF Init, NoRunLeftRunning, NoRuns
  <1> QED  BY <1>1, TypeInit, TypeStep, RunsStep, PTL DEF Spec
=============================================================================
