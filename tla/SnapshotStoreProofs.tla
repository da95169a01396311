------------------------ MODULE SnapshotStoreProofs ------------------------
(* Theorems about SnapshotStore for every number of days, every set of     *)
(* dimension values and every set of rebuilds of any ranges.               *)
EXTENDS SnapshotStore, SequenceTheorems, FiniteSetTheorems, FunctionTheorems, TLAPS

(* A database of events. *)
EventTables == [Days \X Dims -> Nat]

-----------------------------------------------------------------------------
(* The inductive invariants *)

(* Events are only added: what an INSERT saw is still there. *)
AtMost(evs, more) == \A p \in Days \X Dims : evs[p] <= more[p]

Growth ==
    /\ AtMost(FirstEvents, events)
    /\ \A t \in Runs : AtMost(FirstEvents, saw[t]) /\ AtMost(saw[t], events)

(* What a transaction holds: nothing once it is over; until its INSERT     *)
(* begins, rows of its range to delete; from then on, the rows of the      *)
(* events it saw, inserted or still to insert.                             *)
InRange(t, row) == row.window = Request[t].window /\ row.bucket \in DeleteRange(t)

HoldingsOf(t) ==
    /\ ~Open(t) => fresh[t] = {} /\ dead[t] = {} /\ todo[t] = {}
    /\ stage[t] = "delete" => fresh[t] = {} /\ \A row \in todo[t] : InRange(t, row)
    /\ stage[t] = "insert" => todo[t] \cup fresh[t] = InsertRows(saw[t], t)
    /\ \A row \in dead[t] : InRange(t, row)

Holdings == \A t \in Runs : HoldingsOf(t)

(* A committed row is the seeder's or one its committed run made of the    *)
(* events it saw.                                                          *)
RowSource ==
    \A row \in table :
        \/ row \in Grouped(FirstEvents, row.window, 0, LastDay, Seed)
        \/ /\ row.run \in Runs
           /\ stage[row.run] = "committed"
           /\ row \in InsertRows(saw[row.run], row.run)

(* No two rows of one key, in the table or about to be.                    *)
Keys ==
    /\ \A r, s \in table : SameKey(r, s) => r = s
    /\ \A t \in Runs : \A r \in fresh[t], s \in table \ dead[t] : ~SameKey(r, s)
    /\ \A t, u \in Runs : t # u => \A r \in fresh[t], s \in fresh[u] : ~SameKey(r, s)

(* The commits over a bucket. *)
Over(w, b) ==
    {i \in DOMAIN commits : Request[commits[i]].window = w /\ b \in DeleteRange(commits[i])}

(* Whoever is in the history committed, and its last entry over a bucket   *)
(* is one of them.                                                         *)
History ==
    /\ \A i \in DOMAIN commits : stage[commits[i]] = "committed"
    /\ \A w \in Windows, b \in Days :
          Over(w, b) # {} => \E m \in Over(w, b) : \A i \in Over(w, b) : m >= i

(* The last run that committed over a bucket wholly within its days: its   *)
(* row of each group it saw is in the table.                               *)
Kept ==
    \A w \in Windows, b \in Days, x \in Dims :
        LET t == LastOver(w, b)
            days == BucketDays(w, b)
            n == Count(saw[t], x, days)
        IN  t \in Runs /\ days # {} /\ days \subseteq Request[t].from .. Request[t].to /\ n > 0
            => Row(w, b, x, n, t) \in table

-----------------------------------------------------------------------------
(* Counting *)

LEMMA DaysFinite == IsFiniteSet(Days) /\ Days \subseteq Nat
  <1>1. IsFiniteSet(0..LastDay)
    BY DaysAssumption, FS_Interval
  <1> QED  BY <1>1 DEF Days

(* The events of some days are finitely many. *)
LEMMA EventsFinite ==
    ASSUME NEW evs \in EventTables, NEW x \in Dims, NEW days \in SUBSET Days
    PROVE  /\ IsFiniteSet(EventsOn(evs, x, days))
           /\ Count(evs, x, days) \in Nat
           /\ Count(evs, x, days) > 0 <=> \E d \in days : evs[<<d, x>>] > 0
  <1> DEFINE On(d) == {d} \X (1..evs[<<d, x>>])
             All == {On(d) : d \in days}
  <1>1. IsFiniteSet(days)
    BY DaysFinite, FS_Subset
  <1>2. \A d \in days : evs[<<d, x>>] \in Nat
    BY DEF EventTables
  <1>3. ASSUME NEW d \in days
        PROVE  IsFiniteSet(On(d))
    <2> DEFINE n == evs[<<d, x>>]
    <2>0. n \in Int /\ 1 \in Int
      BY <1>2
    <2> HIDE DEF n
    <2>1. IsFiniteSet(1..n)
      BY <2>0, FS_Interval
    <2>2. IsFiniteSet({d})
      BY FS_Singleton
    <2> QED  BY <2>1, <2>2, FS_Product DEF n
  <1>4. IsFiniteSet(All)
    <2> DEFINE f == [d \in days |-> On(d)]
    <2>1. f \in Surjection(days, All)
      BY Fun_IsSurj
    <2> QED  BY <1>1, <2>1, FS_Surjection
  <1>5. \A T \in All : IsFiniteSet(T)
    BY <1>3
  <1>6. IsFiniteSet(UNION All)
    BY <1>4, <1>5, FS_UNION
  <1>7. EventsOn(evs, x, days) = UNION All
    BY DEF EventsOn
  <1>8. Count(evs, x, days) \in Nat /\ (Count(evs, x, days) = 0 <=> UNION All = {})
    BY <1>6, <1>7, FS_CardinalityType, FS_EmptySet DEF Count
  <1>9. UNION All = {} <=> \A d \in days : ~(evs[<<d, x>>] > 0)
    <2>1. ASSUME NEW d \in days, evs[<<d, x>>] > 0
          PROVE  UNION All # {}
      <3>1. <<d, 1>> \in On(d)
        BY <1>2, <2>1
      <3> QED  BY <3>1
    <2>2. ASSUME UNION All # {}
          PROVE  \E d \in days : evs[<<d, x>>] > 0
      <3>1. PICK d \in days : On(d) # {}
        BY <2>2
      <3>2. 1..evs[<<d, x>>] # {}
        BY <3>1
      <3> QED  BY <1>2, <3>2
    <2> QED  BY <2>1, <2>2
  <1> HIDE DEF All
  <1>10. Count(evs, x, days) > 0 <=> UNION All # {}
    <2>1. \A n \in Nat : n > 0 <=> n # 0
      OBVIOUS
    <2> QED  BY <1>8, <2>1
  <1>11. Count(evs, x, days) > 0 <=> \E d \in days : evs[<<d, x>>] > 0
    BY <1>9, <1>10
  <1> QED  BY <1>6, <1>7, <1>8, <1>11

(* More events and more days make no smaller count. *)
LEMMA CountGrows ==
    ASSUME NEW evs \in EventTables, NEW more \in EventTables, NEW x \in Dims,
           NEW days \in SUBSET Days, NEW wider \in SUBSET Days, days \subseteq wider,
           \A d \in days : evs[<<d, x>>] <= more[<<d, x>>]
    PROVE  /\ EventsOn(evs, x, days) \subseteq EventsOn(more, x, wider)
           /\ Count(evs, x, days) <= Count(more, x, wider)
  <1>1. EventsOn(evs, x, days) \subseteq EventsOn(more, x, wider)
    <2> SUFFICES ASSUME NEW e \in EventsOn(evs, x, days)
                 PROVE  e \in EventsOn(more, x, wider)
      OBVIOUS
    <2>1. PICK d \in days : e \in {d} \X (1..evs[<<d, x>>])
      BY DEF EventsOn
    <2>2. 1..evs[<<d, x>>] \subseteq 1..more[<<d, x>>]
      BY DEF EventTables
    <2>3. e \in {d} \X (1..more[<<d, x>>])
      BY <2>1, <2>2
    <2> QED  BY <2>3 DEF EventsOn
  <1> QED  BY <1>1, EventsFinite, FS_Subset DEF Count

(* Buckets *)

LEMMA BucketFacts ==
    ASSUME NEW w \in Windows, NEW d \in Nat
    PROVE  /\ Bucket(w, d) \in Nat
           /\ Bucket(w, d) <= d
           /\ d <= Bucket(w, d) + Length(w) - 1
           /\ \A e \in Nat : d <= e => Bucket(w, d) <= Bucket(w, e)
  <1>1. ASSUME NEW n \in Nat
        PROVE  n % 7 \in 0..6 /\ n = 7 * (n \div 7) + (n % 7) /\ n \div 7 \in Nat
    OBVIOUS
  <1>2. \A e \in Nat : d <= e => d - (d % 7) <= e - (e % 7)
    <2> SUFFICES ASSUME NEW e \in Nat, d <= e
                 PROVE  d - (d % 7) <= e - (e % 7)
      OBVIOUS
    <2>1. d \div 7 <= e \div 7
      BY <1>1
    <2> QED  BY <1>1, <2>1
  <1> QED  BY <1>1, <1>2 DEF Windows, Bucket, Length

(* A row the INSERT makes: one for each bucket and dimension value that    *)
(* has events on the days asked for.                                       *)
LEMMA GroupedRows ==
    ASSUME NEW evs, NEW w, NEW from, NEW to, NEW run, NEW r
    PROVE  r \in Grouped(evs, w, from, to, run)
             <=> \E b \in Days, x \in Dims :
                    LET n == Count(evs, x, BucketDays(w, b) \cap (from..to)) IN
                    n > 0 /\ r = Row(w, b, x, n, run)
  <1> DEFINE Value(b, x) == Count(evs, x, BucketDays(w, b) \cap (from..to))
             Group(b, x) == Row(w, b, x, Value(b, x), run)
  <1>1. r \in Grouped(evs, w, from, to, run)
          <=> /\ \E b \in Days, x \in Dims : r = Group(b, x)
              /\ r.value > 0
    BY DEF Grouped
  <1>2. \A b \in Days, x \in Dims : Group(b, x).value = Value(b, x)
    BY DEF Row
  <1> HIDE DEF Value
  <1>3. (\E b \in Days, x \in Dims : r = Group(b, x)) /\ r.value > 0
          <=> \E b \in Days, x \in Dims : Value(b, x) > 0 /\ r = Group(b, x)
    BY <1>2
  <1> QED  BY <1>1, <1>3 DEF Value

LEMMA GroupedFacts ==
    ASSUME NEW evs \in EventTables, NEW w \in Windows, NEW from \in Days, NEW to \in Days,
           NEW run \in Runs \cup {Seed}
    PROVE  /\ Grouped(evs, w, from, to, run) \subseteq Rows
           /\ \A r \in Grouped(evs, w, from, to, run) :
                 /\ r.window = w /\ r.run = run
                 /\ r.value = Count(evs, r.dim, BucketDays(w, r.bucket) \cap (from..to))
                 /\ r.value > 0
                 /\ BucketDays(w, r.bucket) \cap (from..to) # {}
           /\ \A r, s \in Grouped(evs, w, from, to, run) : SameKey(r, s) => r = s
  <1> DEFINE G == Grouped(evs, w, from, to, run)
             On(b) == BucketDays(w, b) \cap (from..to)
  <1>1. ASSUME NEW r \in G
        PROVE  /\ r \in Rows /\ r.window = w /\ r.run = run
               /\ r.value = Count(evs, r.dim, On(r.bucket)) /\ r.value > 0
               /\ On(r.bucket) # {}
    <2>1. PICK b \in Days, x \in Dims :
             Count(evs, x, On(b)) > 0 /\ r = Row(w, b, x, Count(evs, x, On(b)), run)
      BY GroupedRows
    <2>2. On(b) \in SUBSET Days
      BY DEF BucketDays
    <2>3. Count(evs, x, On(b)) \in Nat
      BY <2>2, EventsFinite
    <2>4. \E d \in On(b) : evs[<<d, x>>] > 0
      BY <2>1, <2>2, EventsFinite
    <2>5. On(b) # {}
      BY <2>4
    <2> HIDE DEF On
    <2> DEFINE n == Count(evs, x, On(b))
    <2>6. n \in Nat /\ n > 0 /\ r = Row(w, b, x, n, run)
      BY <2>1, <2>3
    <2>7. n = Count(evs, x, On(b))
      OBVIOUS
    <2> HIDE DEF n
    <2>8. r \in Rows /\ r.window = w /\ r.run = run /\ r.bucket = b /\ r.dim = x /\ r.value = n
      BY <2>6 DEF Rows, Row
    <2> QED  BY <2>5, <2>6, <2>7, <2>8
  <1>2. ASSUME NEW r \in G, NEW s \in G, SameKey(r, s)
        PROVE  r = s
    <2>1. r.bucket = s.bucket /\ r.dim = s.dim
      BY <1>2 DEF SameKey
    <2>2. r.value = s.value /\ r.window = s.window /\ r.run = s.run
      BY <1>1, <2>1
    <2>3. r \in Rows /\ s \in Rows
      BY <1>1
    <2> HIDE DEF G
    <2> QED  BY <2>1, <2>2, <2>3 DEF Rows
  <1> QED  BY <1>1, <1>2

(* The rows a run inserts: one for each group it saw, all of them within   *)
(* the buckets it deletes.                                                 *)
LEMMA InsertRowsFacts ==
    ASSUME NEW evs \in EventTables, NEW t \in Runs
    PROVE  /\ InsertRows(evs, t) \subseteq Rows
           /\ \A r \in InsertRows(evs, t) :
                 /\ r.run = t
                 /\ InRange(t, r)
                 /\ r.value = Count(evs, r.dim,
                       BucketDays(r.window, r.bucket) \cap (Request[t].from .. Request[t].to))
                 /\ r.value > 0
           /\ \A r, s \in InsertRows(evs, t) : SameKey(r, s) => r = s
  <1> DEFINE w == Request[t].window
             from == Request[t].from
             to == Request[t].to
             G == Grouped(evs, w, from, to, t)
  <1>1. w \in Windows /\ from \in Days /\ to \in Days
    BY SnapshotRequests
  <1>2. InsertRows(evs, t) = G
    BY DEF InsertRows
  <1> HIDE DEF G, w, from, to
  <1>3. /\ G \subseteq Rows
        /\ \A r \in G : /\ r.window = w /\ r.run = t /\ r.value > 0
                        /\ r.value = Count(evs, r.dim, BucketDays(w, r.bucket) \cap (from..to))
                        /\ BucketDays(w, r.bucket) \cap (from..to) # {}
        /\ \A r, s \in G : SameKey(r, s) => r = s
    BY <1>1, GroupedFacts DEF G
  <1>4. ASSUME NEW r \in G
        PROVE  InRange(t, r)
    <2>1. PICK d \in Days : d \in from..to /\ Bucket(w, d) = r.bucket
      BY <1>3 DEF BucketDays
    <2>2. r.window = w
      BY <1>3
    <2>3. from \in Nat /\ to \in Nat /\ d \in Nat /\ to + 1 \in Nat
      BY <1>1, DaysFinite
    <2>4. from <= d /\ d <= to + 1
      BY <2>1, <2>3
    <2>5. Bucket(w, from) <= r.bucket /\ r.bucket <= Bucket(w, to + 1)
      BY <1>1, <2>1, <2>3, <2>4, BucketFacts
    <2>6. Bucket(w, from) \in Nat /\ r.bucket \in Nat /\ Bucket(w, to + 1) \in Nat
      BY <1>1, <2>1, <2>3, BucketFacts
    <2>7. Length(w) \in 1..7
      BY DEF Length
    <2>8. r.bucket \in Bucket(w, from) .. Bucket(w, to + 1) + Length(w) - 1
      BY <2>5, <2>6, <2>7
    <2> QED  BY <2>2, <2>8 DEF InRange, DeleteRange, w, from, to
  <1> USE DEF from, to
  <1> QED  BY <1>2, <1>3, <1>4 DEF w

-----------------------------------------------------------------------------
(* Types *)

LEMMA InitTypes == Init => TypeOK
  <1> SUFFICES ASSUME Init PROVE TypeOK
    OBVIOUS
  <1>1. FirstEvents \in EventTables
    BY EventsAssumption DEF EventTables
  <1>2. ASSUME NEW w \in Windows
        PROVE  Grouped(FirstEvents, w, 0, LastDay, Seed) \subseteq Rows
    <2>1. 0 \in Days /\ LastDay \in Days
      BY DaysAssumption DEF Days
    <2> QED  BY <1>1, <2>1, GroupedFacts
  <1>3. table \subseteq Rows
    BY <1>2 DEF Init
  <1>4. commits \in Seq(Runs)
    BY DEF Init
  <1> QED  BY <1>1, <1>3, <1>4 DEF Init, TypeOK, EventTables

(* A step of the system; the deadlock detector undoes an open transaction. *)
LEMMA Steps ==
    ASSUME Next
    PROVE  \/ \E t \in Runs :
                 \/ BeginDelete(t) \/ DeleteRow(t) \/ BeginInsert(t)
                 \/ InsertRow(t) \/ Commit(t) \/ (Open(t) /\ Undone(t))
           \/ \E d \in Days, x \in Dims : Ingest(d, x)
           \/ UNCHANGED vars
  <1>1. ASSUME NEW t \in Runs, DetectDeadlock(t)
        PROVE  Open(t) /\ Undone(t)
    <2>1. WaitsFor(t) # {} /\ Undone(t)
      BY <1>1, Zenon DEF DetectDeadlock
    <2>2. CASE stage[t] = "delete" \/ stage[t] = "insert"
      BY <2>1, <2>2 DEF Open
    <2>3. CASE ~(stage[t] = "delete" \/ stage[t] = "insert")
      BY <2>1, <2>3 DEF WaitsFor
    <2> QED  BY <2>2, <2>3
  <1> QED  BY <1>1, Zenon DEF Next, TxStep, Rollback, Quiescent

LEMMA StepTypes == TypeOK /\ [Next]_vars => TypeOK'
  <1> SUFFICES ASSUME TypeOK, [Next]_vars PROVE TypeOK'
    OBVIOUS
  <1> USE DEF TypeOK
  <1>1. ASSUME NEW t \in Runs, BeginDelete(t)
        PROVE  TypeOK'
    BY <1>1 DEF BeginDelete
  <1>2. ASSUME NEW t \in Runs, DeleteRow(t)
        PROVE  TypeOK'
    <2>1. PICK row \in todo[t] :
             /\ todo' = [todo EXCEPT ![t] = @ \ {row}]
             /\ dead' = [dead EXCEPT ![t] = IF row \in table THEN @ \cup {row} ELSE @]
             /\ UNCHANGED <<events, table, stage, fresh, commits, saw>>
      BY <1>2 DEF DeleteRow
    <2> QED  BY <2>1
  <1>3. ASSUME NEW t \in Runs, BeginInsert(t)
        PROVE  TypeOK'
    <2>1. InsertRows(events, t) \subseteq Rows
      BY InsertRowsFacts DEF EventTables
    <2> QED  BY <1>3, <2>1 DEF BeginInsert
  <1>4. ASSUME NEW t \in Runs, Undone(t)
        PROVE  TypeOK'
    BY <1>4 DEF Undone
  <1>5. ASSUME NEW t \in Runs, InsertRow(t)
        PROVE  TypeOK'
    <2>1. PICK row \in todo[t] :
             \/ Undone(t)
             \/ /\ todo' = [todo EXCEPT ![t] = @ \ {row}]
                /\ fresh' = [fresh EXCEPT ![t] = @ \cup {row}]
                /\ UNCHANGED <<events, table, stage, dead, commits, saw>>
      BY <1>5 DEF InsertRow
    <2>2. CASE Undone(t)
      BY <1>4, <2>2
    <2>3. CASE /\ todo' = [todo EXCEPT ![t] = @ \ {row}]
               /\ fresh' = [fresh EXCEPT ![t] = @ \cup {row}]
               /\ UNCHANGED <<events, table, stage, dead, commits, saw>>
      BY <2>3
    <2> QED  BY <2>1, <2>2, <2>3
  <1>6. ASSUME NEW t \in Runs, Commit(t)
        PROVE  TypeOK'
    <2>1. commits' \in Seq(Runs)
      BY <1>6, AppendProperties DEF Commit
    <2> QED  BY <1>6, <2>1 DEF Commit
  <1>7. ASSUME NEW d \in Days, NEW x \in Dims, Ingest(d, x)
        PROVE  TypeOK'
    <2>1. events' \in [Days \X Dims -> Nat]
      BY <1>7 DEF Ingest
    <2> QED  BY <1>7, <2>1 DEF Ingest
  <1>8. CASE UNCHANGED vars
    BY <1>8 DEF vars
  <1> QED
    BY <1>1, <1>2, <1>3, <1>4, <1>5, <1>6, <1>7, <1>8, Steps

(* TypeOK of every reachable state: counts stay natural numbers and rows   *)
(* stay rows of metric_snapshots, whatever rebuilds and events come.       *)
THEOREM SnapshotTypes == Spec => []TypeOK
  BY InitTypes, StepTypes, PTL DEF Spec

-----------------------------------------------------------------------------
(* What the steps leave alone *)

(* A run that committed stays so, and what it saw does not change. *)
LEMMA CommittedStays ==
    ASSUME TypeOK, Next, NEW u \in Runs, stage[u] = "committed"
    PROVE  stage'[u] = "committed" /\ saw'[u] = saw[u]
  <1> USE DEF TypeOK
  <1>1. ASSUME NEW t \in Runs, BeginDelete(t)
        PROVE  stage'[u] = stage[u] /\ saw'[u] = saw[u]
    BY <1>1 DEF BeginDelete
  <1>2. ASSUME NEW t \in Runs, DeleteRow(t)
        PROVE  stage'[u] = stage[u] /\ saw'[u] = saw[u]
    BY <1>2 DEF DeleteRow
  <1>3. ASSUME NEW t \in Runs, BeginInsert(t)
        PROVE  stage'[u] = stage[u] /\ saw'[u] = saw[u]
    BY <1>3 DEF BeginInsert
  <1>4. ASSUME NEW t \in Runs, Open(t) /\ Undone(t)
        PROVE  stage'[u] = stage[u] /\ saw'[u] = saw[u]
    BY <1>4 DEF Open, Undone
  <1>5. ASSUME NEW t \in Runs, InsertRow(t)
        PROVE  stage'[u] = stage[u] /\ saw'[u] = saw[u]
    BY <1>5 DEF InsertRow, Undone
  <1>6. ASSUME NEW t \in Runs, Commit(t)
        PROVE  stage'[u] = stage[u] /\ saw'[u] = saw[u]
    BY <1>6 DEF Commit
  <1>7. ASSUME NEW d \in Days, NEW x \in Dims, Ingest(d, x)
        PROVE  stage'[u] = stage[u] /\ saw'[u] = saw[u]
    BY <1>7 DEF Ingest
  <1>8. CASE UNCHANGED vars
    BY <1>8 DEF vars
  <1>9. stage'[u] = stage[u] /\ saw'[u] = saw[u]
    BY <1>1, <1>2, <1>3, <1>4, <1>5, <1>6, <1>7, <1>8, Steps
  <1> QED  BY <1>9

(* Only a commit changes the table and the history. *)
LEMMA OnlyCommits ==
    ASSUME Next
    PROVE  \/ table' = table /\ commits' = commits
           \/ \E t \in Runs : Commit(t)
  BY Steps
  DEF BeginDelete, DeleteRow, BeginInsert, InsertRow, Undone, Ingest, vars

-----------------------------------------------------------------------------
(* Events, holdings and the rows of the table *)

LEMMA StepGrowth ==
    ASSUME TypeOK, Growth, Next
    PROVE  Growth'
  <1> USE DEF TypeOK
  <1>1. CASE UNCHANGED <<events, saw>>
    BY <1>1 DEF Growth, AtMost
  <1>2. ASSUME NEW t \in Runs, BeginInsert(t)
        PROVE  Growth'
    <2>1. events' = events /\ saw' = [saw EXCEPT ![t] = events]
      BY <1>2 DEF BeginInsert
    <2>2. AtMost(events, events)
      BY DEF AtMost
    <2>3. AtMost(FirstEvents, events')
      BY <2>1 DEF Growth
    <2>4. ASSUME NEW u \in Runs
          PROVE  AtMost(FirstEvents, saw'[u]) /\ AtMost(saw'[u], events')
      BY <2>1, <2>2 DEF Growth
    <2> QED  BY <2>3, <2>4 DEF Growth
  <1>3. ASSUME NEW d \in Days, NEW x \in Dims, Ingest(d, x)
        PROVE  Growth'
    <2>1. saw' = saw /\ events' = [events EXCEPT ![<<d, x>>] = @ + 1]
      BY <1>3 DEF Ingest
    <2>2. ASSUME NEW p \in Days \X Dims
          PROVE  events[p] \in Nat /\ events[p] <= events'[p] /\ events'[p] \in Nat
      <3>1. events[p] \in Nat
        OBVIOUS
      <3>2. events'[p] = IF p = <<d, x>> THEN events[p] + 1 ELSE events[p]
        BY <2>1
      <3> HIDE DEF TypeOK
      <3> QED  BY <3>1, <3>2
    <2>3. ASSUME NEW evs \in EventTables, AtMost(evs, events)
          PROVE  AtMost(evs, events')
      <3>1. \A p \in Days \X Dims : evs[p] \in Nat /\ evs[p] <= events[p]
        BY <2>3 DEF AtMost, EventTables
      <3>2. ASSUME NEW p \in Days \X Dims
            PROVE  evs[p] <= events'[p]
        BY <2>2, <3>1
      <3> QED  BY <3>2 DEF AtMost
    <2>4. FirstEvents \in EventTables /\ \A u \in Runs : saw[u] \in EventTables
      BY EventsAssumption DEF EventTables
    <2> QED  BY <2>1, <2>3, <2>4 DEF Growth
  <1>4. ASSUME NEW t \in Runs,
               \/ BeginDelete(t) \/ DeleteRow(t) \/ InsertRow(t) \/ Commit(t) \/ Undone(t)
        PROVE  UNCHANGED <<events, saw>>
    BY <1>4 DEF BeginDelete, DeleteRow, InsertRow, Commit, Undone
  <1>5. CASE UNCHANGED vars
    BY <1>1, <1>5 DEF vars
  <1> QED  BY <1>1, <1>2, <1>3, <1>4, <1>5, Steps

LEMMA StepHoldings ==
    ASSUME TypeOK, Holdings, Next
    PROVE  Holdings'
  <1> SUFFICES ASSUME NEW u \in Runs
               PROVE  HoldingsOf(u)'
    BY DEF Holdings
  <1>0. HoldingsOf(u)
    BY DEF Holdings
  <1> USE <1>0 DEF TypeOK
  <1>1. ASSUME NEW t \in Runs, BeginDelete(t)
        PROVE  HoldingsOf(u)'
    <2>1. CASE u = t
      <3>1. /\ stage[t] = "idle"
            /\ stage'[t] = "delete"
            /\ todo'[t] = {row \in table : row.window = Request[t].window
                                           /\ row.bucket \in DeleteRange(t)}
            /\ dead' = dead /\ fresh' = fresh
        BY <1>1 DEF BeginDelete
      <3>2. \A row \in todo'[t] : InRange(t, row)
        BY <3>1 DEF InRange
      <3>3. fresh[t] = {} /\ dead[t] = {}
        BY <2>1, <3>1 DEF HoldingsOf, Open
      <3> QED  BY <2>1, <3>1, <3>2, <3>3 DEF HoldingsOf, Open
    <2>2. CASE u # t
      BY <1>1, <2>2 DEF BeginDelete, HoldingsOf, Open
    <2> QED  BY <2>1, <2>2
  <1>2. ASSUME NEW t \in Runs, DeleteRow(t)
        PROVE  HoldingsOf(u)'
    <2>1. PICK row \in todo[t] :
             /\ todo' = [todo EXCEPT ![t] = @ \ {row}]
             /\ dead' = [dead EXCEPT ![t] = IF row \in table THEN @ \cup {row} ELSE @]
             /\ UNCHANGED <<stage, fresh, saw>>
             /\ stage[t] = "delete"
      BY <1>2 DEF DeleteRow
    <2> QED  BY <2>1 DEF HoldingsOf, Open
  <1>3. ASSUME NEW t \in Runs, BeginInsert(t)
        PROVE  HoldingsOf(u)'
    <2>1. /\ stage[t] = "delete"
          /\ stage' = [stage EXCEPT ![t] = "insert"]
          /\ todo' = [todo EXCEPT ![t] = InsertRows(events, t)]
          /\ saw' = [saw EXCEPT ![t] = events]
          /\ UNCHANGED <<dead, fresh>>
      BY <1>3 DEF BeginInsert
    <2>2. CASE u = t
      <3>1. todo'[t] = InsertRows(events, t) /\ saw'[t] = events /\ stage'[t] = "insert"
        BY <2>1
      <3> QED  BY <2>1, <2>2, <3>1 DEF HoldingsOf, Open
    <2>3. CASE u # t
      BY <2>1, <2>3 DEF HoldingsOf, Open
    <2> QED  BY <2>2, <2>3
  <1>4. ASSUME NEW t \in Runs, Undone(t)
        PROVE  HoldingsOf(u)'
    BY <1>4 DEF Undone, HoldingsOf, Open
  <1>5. ASSUME NEW t \in Runs, InsertRow(t)
        PROVE  HoldingsOf(u)'
    <2>1. PICK row \in todo[t] :
             \/ Undone(t)
             \/ /\ todo' = [todo EXCEPT ![t] = @ \ {row}]
                /\ fresh' = [fresh EXCEPT ![t] = @ \cup {row}]
                /\ UNCHANGED <<stage, dead, saw>>
                /\ stage[t] = "insert"
      BY <1>5 DEF InsertRow
    <2>2. CASE Undone(t)
      BY <1>4, <2>2
    <2>3. CASE /\ todo' = [todo EXCEPT ![t] = @ \ {row}]
               /\ fresh' = [fresh EXCEPT ![t] = @ \cup {row}]
               /\ UNCHANGED <<stage, dead, saw>>
               /\ stage[t] = "insert"
      <3>1. todo'[t] \cup fresh'[t] = todo[t] \cup fresh[t]
        BY <2>3
      <3> QED  BY <2>3, <3>1 DEF HoldingsOf, Open
    <2> QED  BY <2>1, <2>2, <2>3
  <1>6. ASSUME NEW t \in Runs, Commit(t)
        PROVE  HoldingsOf(u)'
    BY <1>6 DEF Commit, HoldingsOf, Open
  <1>7. ASSUME NEW d \in Days, NEW x \in Dims, Ingest(d, x)
        PROVE  HoldingsOf(u)'
    BY <1>7 DEF Ingest, HoldingsOf, Open
  <1>8. CASE UNCHANGED vars
    BY <1>8 DEF vars, HoldingsOf, Open
  <1> QED
    BY <1>1, <1>2, <1>3, <1>4, <1>5, <1>6, <1>7, <1>8, Steps

(* What a commit adds are the rows the run made of the events it saw. *)
LEMMA CommitAdds ==
    ASSUME TypeOK, Holdings, NEW t \in Runs, Commit(t)
    PROVE  /\ fresh[t] = InsertRows(saw[t], t)
           /\ table' = (table \ dead[t]) \cup fresh[t]
           /\ \A r \in fresh[t] : r.run = t /\ InRange(t, r)
           /\ \A r \in dead[t] : InRange(t, r)
  <1>1. fresh[t] = InsertRows(saw[t], t) /\ \A r \in dead[t] : InRange(t, r)
    BY DEF Commit, Holdings, HoldingsOf
  <1>2. saw[t] \in EventTables
    BY DEF TypeOK, EventTables
  <1>3. \A r \in fresh[t] : r.run = t /\ InRange(t, r)
    <2>1. \A r \in InsertRows(saw[t], t) : r.run = t /\ InRange(t, r)
      BY <1>2, InsertRowsFacts
    <2> QED  BY <1>1, <2>1
  <1>4. table' = (table \ dead[t]) \cup fresh[t]
    BY DEF Commit
  <1> QED  BY <1>1, <1>3, <1>4

LEMMA StepRowSource ==
    ASSUME TypeOK, Holdings, RowSource, Next
    PROVE  RowSource'
  <1> SUFFICES ASSUME NEW row \in table'
               PROVE  \/ row \in Grouped(FirstEvents, row.window, 0, LastDay, Seed)
                      \/ /\ row.run \in Runs
                         /\ stage'[row.run] = "committed"
                         /\ row \in InsertRows(saw'[row.run], row.run)
    BY DEF RowSource
  <1>1. CASE row \in table
    BY <1>1, CommittedStays DEF RowSource
  <1>2. CASE row \notin table
    <2>1. PICK t \in Runs : Commit(t)
      BY <1>2, OnlyCommits
    <2>2. row \in fresh[t]
      BY <1>2, <2>1, CommitAdds
    <2>3. stage'[t] = "committed" /\ saw' = saw
      BY <2>1 DEF Commit, TypeOK
    <2>4. row.run = t /\ row \in InsertRows(saw[t], t)
      BY <2>1, <2>2, CommitAdds
    <2> QED  BY <2>3, <2>4
  <1> QED  BY <1>1, <1>2

-----------------------------------------------------------------------------
(* Keys *)

LEMMA StepKeys ==
    ASSUME TypeOK, Holdings, Keys, Next
    PROVE  Keys'
  <1> USE DEF TypeOK
  <1>1. CASE UNCHANGED <<table, dead, fresh>>
    BY <1>1 DEF Keys, SameKey
  <1>2. ASSUME NEW t \in Runs, DeleteRow(t)
        PROVE  Keys'
    <2>1. /\ UNCHANGED <<table, fresh>>
          /\ \A u \in Runs : dead[u] \subseteq dead'[u]
      BY <1>2 DEF DeleteRow
    <2> QED  BY <2>1 DEF Keys
  <1>3. ASSUME NEW t \in Runs, Undone(t)
        PROVE  Keys'
    <2>1. /\ UNCHANGED table
          /\ \A u \in Runs : \/ fresh'[u] = {}
                             \/ fresh'[u] = fresh[u] /\ dead'[u] = dead[u]
      BY <1>3 DEF Undone
    <2> QED  BY <2>1 DEF Keys
  <1>4. ASSUME NEW t \in Runs, InsertRow(t)
        PROVE  Keys'
    <2>1. PICK row \in todo[t] :
             /\ InsertWaitsFor(t, row) = {}
             /\ \/ Undone(t)
                \/ /\ ~KeyTaken(t, row)
                   /\ fresh' = [fresh EXCEPT ![t] = @ \cup {row}]
                   /\ UNCHANGED <<table, stage, dead>>
      BY <1>4 DEF InsertRow
    <2>2. CASE Undone(t)
      BY <1>3, <2>2
    <2>3. CASE /\ ~KeyTaken(t, row)
               /\ fresh' = [fresh EXCEPT ![t] = @ \cup {row}]
               /\ UNCHANGED <<table, stage, dead>>
      <3>1. \A s \in table \ dead[t] : ~SameKey(s, row)
        BY <2>3 DEF KeyTaken
      <3>2. ASSUME NEW u \in Runs \ {t}, NEW s \in fresh[u]
            PROVE  ~SameKey(s, row)
        <4>1. Open(u)
          BY <3>2 DEF Holdings, HoldingsOf
        <4> QED  BY <2>1, <3>2, <4>1 DEF InsertWaitsFor
      <3>3. \A r, s : SameKey(r, s) <=> SameKey(s, r)
        BY DEF SameKey
      <3>4. \A u \in Runs : fresh'[u] = IF u = t THEN fresh[t] \cup {row} ELSE fresh[u]
        BY <2>3
      <3>5. \A r, s \in table' : SameKey(r, s) => r = s
        BY <2>3 DEF Keys
      <3>6. \A u \in Runs : \A r \in fresh'[u], s \in table' \ dead'[u] : ~SameKey(r, s)
        BY <2>3, <3>1, <3>3, <3>4 DEF Keys
      <3>7. ASSUME NEW u \in Runs, NEW v \in Runs, u # v, NEW r \in fresh'[u], NEW s \in fresh'[v]
            PROVE  ~SameKey(r, s)
        <4>1. CASE r \in fresh[u] /\ s \in fresh[v]
          BY <3>7, <4>1 DEF Keys
        <4>2. CASE u = t /\ r = row
          BY <3>2, <3>3, <3>4, <3>7, <4>2
        <4>3. CASE v = t /\ s = row
          BY <3>2, <3>3, <3>4, <3>7, <4>3
        <4> QED  BY <3>4, <3>7, <4>1, <4>2, <4>3
      <3> QED  BY <3>5, <3>6, <3>7 DEF Keys
    <2> QED  BY <2>1, <2>2, <2>3
  <1>5. ASSUME NEW t \in Runs, Commit(t)
        PROVE  Keys'
    <2>1. /\ table' = (table \ dead[t]) \cup fresh[t]
          /\ fresh[t] = InsertRows(saw[t], t)
      BY <1>5, CommitAdds
    <2>2. \A u \in Runs : \/ fresh'[u] = {}
                          \/ u # t /\ fresh'[u] = fresh[u] /\ dead'[u] = dead[u]
      BY <1>5 DEF Commit
    <2>3. \A r, s \in fresh[t] : SameKey(r, s) => r = s
      <3>1. saw[t] \in EventTables
        BY DEF EventTables
      <3> QED  BY <2>1, <3>1, InsertRowsFacts
    <2>4. \A r, s : SameKey(r, s) <=> SameKey(s, r)
      BY DEF SameKey
    <2>5. \A r, s \in table' : SameKey(r, s) => r = s
      BY <2>1, <2>3, <2>4 DEF Keys
    <2>6. \A u \in Runs : \A r \in fresh'[u], s \in table' \ dead'[u] : ~SameKey(r, s)
      BY <2>1, <2>2 DEF Keys
    <2>7. \A u, v \in Runs : u # v => \A r \in fresh'[u], s \in fresh'[v] : ~SameKey(r, s)
      BY <2>2 DEF Keys
    <2> QED  BY <2>5, <2>6, <2>7 DEF Keys
  <1>6. ASSUME NEW t \in Runs, BeginDelete(t) \/ BeginInsert(t)
        PROVE  Keys'
    BY <1>1, <1>6 DEF BeginDelete, BeginInsert
  <1>7. ASSUME NEW d \in Days, NEW x \in Dims, Ingest(d, x)
        PROVE  Keys'
    BY <1>1, <1>7 DEF Ingest
  <1>8. CASE UNCHANGED vars
    BY <1>1, <1>8 DEF vars
  <1> QED
    BY <1>2, <1>3, <1>4, <1>5, <1>6, <1>7, <1>8, Steps

-----------------------------------------------------------------------------
(* The history of commits *)

LEMMA LastOverIs ==
    ASSUME TypeOK, History, NEW w \in Windows, NEW b \in Days
    PROVE  \/ Over(w, b) = {} /\ LastOver(w, b) = Seed
           \/ \E m \in Over(w, b) :
                /\ \A i \in Over(w, b) : m >= i
                /\ LastOver(w, b) = commits[m]
                /\ commits[m] \in Runs
  <1>1. LastOver(w, b) = IF Over(w, b) = {} THEN Seed ELSE commits[Max(Over(w, b))]
    BY DEF LastOver, Over
  <1>2. CASE Over(w, b) # {}
    <2> DEFINE m == Max(Over(w, b))
    <2>1. \E k \in Over(w, b) : \A i \in Over(w, b) : k >= i
      BY <1>2 DEF History
    <2>2. m \in Over(w, b) /\ \A i \in Over(w, b) : m >= i
      BY <2>1 DEF Max
    <2>3. commits[m] \in Runs
      BY <2>2 DEF Over, TypeOK
    <2> QED  BY <1>1, <1>2, <2>2, <2>3
  <1> QED  BY <1>1, <1>2

(* A commit over the bucket becomes the last; another changes nothing.     *)
LEMMA StepHistory ==
    ASSUME TypeOK, History, NEW t \in Runs, Commit(t)
    PROVE  /\ History'
           /\ \A w \in Windows, b \in Days :
                 LastOver(w, b)' = IF Request[t].window = w /\ b \in DeleteRange(t)
                                   THEN t ELSE LastOver(w, b)
  <1> DEFINE n == Len(commits)
  <1>1. /\ n \in Nat /\ DOMAIN commits = 1..n
        /\ DOMAIN commits' = 1..(n + 1)
        /\ commits'[n + 1] = t
        /\ \A i \in 1..n : commits'[i] = commits[i] /\ commits[i] \in Runs
    <2>1. commits' = Append(commits, t) /\ commits \in Seq(Runs)
      BY DEF Commit, TypeOK
    <2> QED  BY <2>1, AppendProperties
  <1> HIDE DEF n
  <1>2. \A u \in Runs : stage'[u] = IF u = t THEN "committed" ELSE stage[u]
    BY DEF Commit, TypeOK
  <1>3. \A i \in DOMAIN commits' : stage'[commits'[i]] = "committed"
    BY <1>1, <1>2 DEF History
  <1>4. ASSUME NEW w \in Windows, NEW b \in Days
        PROVE  /\ Over(w, b)' # {} => \E m \in Over(w, b)' : \A i \in Over(w, b)' : m >= i
               /\ LastOver(w, b)' = IF Request[t].window = w /\ b \in DeleteRange(t)
                                    THEN t ELSE LastOver(w, b)
    <2>1. LastOver(w, b) = IF Over(w, b) = {} THEN Seed ELSE commits[Max(Over(w, b))]
      BY DEF LastOver, Over
    <2>2. LastOver(w, b)' = IF Over(w, b)' = {} THEN Seed ELSE commits'[Max(Over(w, b)')]
      BY DEF LastOver, Over
    <2>3. Over(w, b) \subseteq 1..n
      BY <1>1 DEF Over
    <2>4. CASE Request[t].window = w /\ b \in DeleteRange(t)
      <3>1. Over(w, b)' \subseteq 1..(n + 1) /\ n + 1 \in Over(w, b)'
        BY <1>1, <2>4 DEF Over
      <3>2. \A i \in Over(w, b)' : n + 1 >= i
        BY <1>1, <3>1
      <3>3. Max(Over(w, b)') = n + 1
        <4>1. ASSUME NEW m \in Over(w, b)', \A i \in Over(w, b)' : m >= i
              PROVE  m = n + 1
          <5>1. m >= n + 1 /\ n + 1 >= m /\ m \in Nat
            BY <1>1, <3>1, <3>2, <4>1
          <5> QED  BY <1>1, <5>1
        <4> QED  BY <3>1, <3>2, <4>1 DEF Max
      <3> QED  BY <1>1, <2>2, <2>4, <3>1, <3>2, <3>3
    <2>5. CASE ~(Request[t].window = w /\ b \in DeleteRange(t))
      <3>1. Over(w, b)' = Over(w, b)
        BY <1>1, <2>5 DEF Over
      <3>2. CASE Over(w, b) = {}
        BY <2>1, <2>2, <2>5, <3>1, <3>2
      <3>3. CASE Over(w, b) # {}
        <4>1. \E m \in Over(w, b) : \A i \in Over(w, b) : m >= i
          BY <3>3 DEF History
        <4>2. Max(Over(w, b)) \in Over(w, b)
          BY <4>1 DEF Max
        <4>3. commits'[Max(Over(w, b))] = commits[Max(Over(w, b))]
          BY <1>1, <2>3, <4>2
        <4> QED  BY <2>1, <2>2, <2>5, <3>1, <4>1, <4>3
      <3> QED  BY <3>2, <3>3
    <2> QED  BY <2>4, <2>5
  <1> QED  BY <1>3, <1>4 DEF History

(* The row of a group that t saw on days it asked for. *)
LEMMA InsertsGroup ==
    ASSUME TypeOK, NEW t \in Runs, NEW b \in Days, NEW x \in Dims,
           BucketDays(Request[t].window, b) \subseteq Request[t].from .. Request[t].to,
           Count(saw[t], x, BucketDays(Request[t].window, b)) > 0
    PROVE  LET w == Request[t].window IN
           Row(w, b, x, Count(saw[t], x, BucketDays(w, b)), t) \in InsertRows(saw[t], t)
  <1> DEFINE w == Request[t].window
             on == BucketDays(w, b) \cap (Request[t].from .. Request[t].to)
             n == Count(saw[t], x, BucketDays(w, b))
  <1>1. on = BucketDays(w, b)
    OBVIOUS
  <1>2. Count(saw[t], x, on) = n
    BY <1>1
  <1>3. Row(w, b, x, n, t) \in Grouped(saw[t], w, Request[t].from, Request[t].to, t)
    BY <1>2, GroupedRows
  <1> QED  BY <1>3 DEF InsertRows

LEMMA StepKept ==
    ASSUME TypeOK, Holdings, History, Kept, Next
    PROVE  Kept'
  <1> SUFFICES ASSUME NEW w \in Windows, NEW b \in Days, NEW x \in Dims,
                      NEW t \in Runs, t = LastOver(w, b)',
                      BucketDays(w, b) # {},
                      BucketDays(w, b) \subseteq Request[t].from .. Request[t].to,
                      Count(saw'[t], x, BucketDays(w, b)) > 0
               PROVE  Row(w, b, x, Count(saw'[t], x, BucketDays(w, b)), t) \in table'
    BY DEF Kept
  <1> DEFINE n == Count(saw[t], x, BucketDays(w, b))
  <1>1. t = LastOver(w, b) /\ saw'[t] = saw[t] => Row(w, b, x, n, t) \in table
    BY DEF Kept
  <1>2. CASE commits' = commits /\ table' = table
    <2>1. LastOver(w, b)' = LastOver(w, b)
      BY <1>2 DEF LastOver
    <2>2. stage[t] = "committed"
      <3>1. PICK m \in Over(w, b) : LastOver(w, b) = commits[m]
        BY <2>1, LastOverIs, SeedAssumption
      <3> QED  BY <2>1, <3>1 DEF History, Over
    <2>3. saw'[t] = saw[t]
      BY <2>2, CommittedStays
    <2> QED  BY <1>1, <1>2, <2>1, <2>3
  <1>3. ASSUME NEW u \in Runs, Commit(u)
        PROVE  Row(w, b, x, Count(saw'[t], x, BucketDays(w, b)), t) \in table'
    <2>1. saw' = saw
      BY <1>3 DEF Commit
    <2>2. LastOver(w, b)' = IF Request[u].window = w /\ b \in DeleteRange(u)
                            THEN u ELSE LastOver(w, b)
      BY <1>3, StepHistory
    <2>3. /\ fresh[u] = InsertRows(saw[u], u)
          /\ table' = (table \ dead[u]) \cup fresh[u]
          /\ \A r \in dead[u] : InRange(u, r)
      BY <1>3, CommitAdds
    <2>4. CASE Request[u].window = w /\ b \in DeleteRange(u)
      <3>1. t = u
        BY <2>2, <2>4
      <3>2. Row(w, b, x, n, t) \in InsertRows(saw[t], t)
        BY <2>1, <2>4, <3>1, InsertsGroup
      <3> QED  BY <2>1, <2>3, <3>1, <3>2
    <2>5. CASE ~(Request[u].window = w /\ b \in DeleteRange(u))
      <3>1. Row(w, b, x, n, t) \in table
        BY <1>1, <2>1, <2>2, <2>5
      <3>2. ~InRange(u, Row(w, b, x, n, t))
        BY <2>5 DEF InRange, Row
      <3> QED  BY <2>1, <2>3, <3>1, <3>2
    <2> QED  BY <2>4, <2>5
  <1> QED  BY <1>2, <1>3, OnlyCommits

-----------------------------------------------------------------------------
(* The inductive invariant *)

SnapshotInv ==
    /\ TypeOK /\ Growth /\ Holdings /\ RowSource
    /\ Keys /\ History /\ Kept

LEMMA InitSnapshotInv == Init => SnapshotInv
  <1> SUFFICES ASSUME Init PROVE SnapshotInv
    OBVIOUS
  <1>1. TypeOK
    BY InitTypes
  <1>2. Growth
    <2>1. \A p \in Days \X Dims : FirstEvents[p] \in Nat
      BY EventsAssumption
    <2>2. AtMost(FirstEvents, FirstEvents)
      BY <2>1 DEF AtMost
    <2> QED  BY <2>2 DEF Init, Growth
  <1>3. Holdings
    BY DEF Init, Holdings, HoldingsOf, Open
  <1>4. FirstEvents \in EventTables /\ 0 \in Days /\ LastDay \in Days
    BY EventsAssumption, DaysAssumption DEF EventTables, Days
  <1>5. ASSUME NEW row \in table
        PROVE  /\ row.window \in Windows
               /\ row \in Grouped(FirstEvents, row.window, 0, LastDay, Seed)
    <2>1. PICK w \in Windows : row \in Grouped(FirstEvents, w, 0, LastDay, Seed)
      BY <1>5 DEF Init
    <2>2. row.window = w
      BY <1>4, <2>1, GroupedFacts
    <2> QED  BY <2>1, <2>2
  <1>6. RowSource
    BY <1>5 DEF RowSource
  <1>7. Keys
    <2>1. ASSUME NEW r \in table, NEW s \in table, SameKey(r, s)
          PROVE  r = s
      <3>1. r.window = s.window
        BY <2>1 DEF SameKey
      <3>2. /\ r \in Grouped(FirstEvents, r.window, 0, LastDay, Seed)
            /\ s \in Grouped(FirstEvents, r.window, 0, LastDay, Seed)
        BY <1>5, <3>1
      <3> QED  BY <1>4, <1>5, <2>1, <3>2, GroupedFacts
    <2>2. \A t \in Runs : fresh[t] = {}
      BY DEF Init
    <2> QED  BY <2>1, <2>2 DEF Keys
  <1>8. commits = <<>>
    BY DEF Init
  <1>9. History
    BY <1>8 DEF History, Over
  <1>10. Kept
    <2>1. \A w \in Windows, b \in Days : LastOver(w, b) = Seed
      BY <1>8 DEF LastOver
    <2> QED  BY <2>1, SeedAssumption DEF Kept
  <1> QED  BY <1>1, <1>2, <1>3, <1>6, <1>7, <1>9, <1>10 DEF SnapshotInv

LEMMA StepSnapshotInv == SnapshotInv /\ [Next]_vars => SnapshotInv'
  <1> SUFFICES ASSUME SnapshotInv, [Next]_vars PROVE SnapshotInv'
    OBVIOUS
  <1> USE DEF SnapshotInv
  <1>1. CASE Next
    <2>1. TypeOK'
      BY StepTypes
    <2>2. Growth' /\ Holdings' /\ RowSource' /\ Keys' /\ Kept'
      BY <1>1, StepGrowth, StepHoldings, StepRowSource, StepKeys, StepKept
    <2>3. History'
      <3>1. CASE commits' = commits
        <4>1. ASSUME NEW i \in DOMAIN commits
              PROVE  stage'[commits[i]] = "committed"
          <5>1. commits[i] \in Runs /\ stage[commits[i]] = "committed"
            BY DEF History, TypeOK
          <5> QED  BY <1>1, <5>1, CommittedStays
        <4>2. \A w \in Windows, b \in Days : Over(w, b)' = Over(w, b)
          BY <3>1 DEF Over
        <4> QED  BY <3>1, <4>1, <4>2 DEF History
      <3>2. ASSUME NEW t \in Runs, Commit(t)
            PROVE  History'
        BY <3>2, StepHistory
      <3> QED  BY <1>1, <3>1, <3>2, OnlyCommits
    <2> QED  BY <2>1, <2>2, <2>3
  <1>2. CASE UNCHANGED vars
    <2>1. UNCHANGED <<events, table, stage, todo, dead, fresh, commits, saw>>
      BY <1>2 DEF vars
    <2>2. TypeOK' /\ Growth'
      BY <2>1 DEF TypeOK, Growth, AtMost
    <2>3. Holdings'
      BY <2>1 DEF Holdings, HoldingsOf, Open
    <2>4. RowSource' /\ Keys'
      BY <2>1 DEF RowSource, Keys
    <2>5. History'
      BY <2>1 DEF History, Over
    <2>6. Kept'
      <3>1. \A w \in Windows, b \in Days : LastOver(w, b)' = LastOver(w, b)
        BY <2>1 DEF LastOver
      <3>2. saw' = saw /\ table' = table
        BY <2>1
      <3> HIDE DEF SnapshotInv
      <3>3. Kept
        BY DEF SnapshotInv
      <3> QED  BY <3>1, <3>2, <3>3 DEF Kept
    <2> QED  BY <2>2, <2>3, <2>4, <2>5, <2>6
  <1> QED  BY <1>1, <1>2

LEMMA SnapshotInvHolds == Spec => []SnapshotInv
  BY InitSnapshotInv, StepSnapshotInv, PTL DEF Spec

-----------------------------------------------------------------------------
(* The last rebuild of a bucket *)

LEMMA InvLastRebuildWins == SnapshotInv => LastRebuildWins
  <1> SUFFICES ASSUME SnapshotInv,
                      NEW w \in Windows, NEW b \in Days, NEW x \in Dims,
                      NEW t \in Runs, t = LastOver(w, b),
                      BucketDays(w, b) # {},
                      BucketDays(w, b) \subseteq Request[t].from .. Request[t].to
               PROVE  LET n == Count(saw[t], x, BucketDays(w, b))
                          found == {row \in ReportRows(w, b, b) : row.dim = x}
                      IN  IF n > 0 THEN found = {Row(w, b, x, n, t)}
                          ELSE \A row \in found :
                                  /\ row.run \in Runs
                                  /\ Count(saw[row.run], x, BucketDays(w, b)) > 0
    BY DEF LastRebuildWins
  <1> USE DEF SnapshotInv
  <1> DEFINE days == BucketDays(w, b)
             n == Count(saw[t], x, days)
             found == {row \in ReportRows(w, b, b) : row.dim = x}
  <1>1. days \in SUBSET Days
    BY DEF BucketDays
  <1>2. n \in Nat
    BY <1>1, EventsFinite DEF TypeOK, EventTables
  <1>3. \A row \in table : row \in found <=> row.window = w /\ row.bucket = b /\ row.dim = x
    BY DEF ReportRows, TypeOK, Rows, Days
  <1>4. found \subseteq table
    BY DEF ReportRows
  <1> HIDE DEF days, n, found
  <1>5. CASE n > 0
    <2> DEFINE mine == Row(w, b, x, n, t)
    <2>1. mine \in table
      BY <1>5 DEF Kept, days, n
    <2>2. mine.window = w /\ mine.bucket = b /\ mine.dim = x
      BY DEF Row
    <2> HIDE DEF mine
    <2>3. \A row \in found : row = mine
      BY <1>3, <1>4, <2>1, <2>2 DEF Keys, SameKey
    <2>4. found = {mine}
      BY <1>3, <2>1, <2>2, <2>3
    <2> QED  BY <1>5, <2>4 DEF mine, found, n, days
  <1>6. CASE ~(n > 0)
    <2>1. ASSUME NEW row \in found
          PROVE  row.run \in Runs /\ Count(saw[row.run], x, days) > 0
      <3>1. row \in table /\ row.window = w /\ row.bucket = b /\ row.dim = x
        BY <1>3, <1>4
      <3>2. CASE row \in Grouped(FirstEvents, row.window, 0, LastDay, Seed)
        <4> DEFINE on == days \cap (0..LastDay)
        <4>1. FirstEvents \in EventTables /\ 0 \in Days /\ LastDay \in Days
          BY EventsAssumption, DaysAssumption DEF EventTables, Days
        <4>2. row.value = Count(FirstEvents, x, on) /\ row.value > 0
          BY <3>1, <3>2, <4>1, GroupedFacts DEF days
        <4>3. saw[t] \in EventTables
          BY DEF TypeOK, EventTables
        <4>4. \A d \in on : FirstEvents[<<d, x>>] <= saw[t][<<d, x>>]
          BY <1>1 DEF Growth, AtMost
        <4>5. on \in SUBSET Days /\ on \subseteq days
          BY <1>1
        <4> HIDE DEF on
        <4>6. Count(FirstEvents, x, on) <= n /\ Count(FirstEvents, x, on) \in Nat
          BY <1>1, <4>1, <4>3, <4>4, <4>5, CountGrows, EventsFinite DEF n
        <4> QED  BY <1>2, <1>6, <4>2, <4>6
      <3>3. CASE row.run \in Runs /\ row \in InsertRows(saw[row.run], row.run)
        <4> DEFINE u == row.run
                   on == days \cap (Request[u].from .. Request[u].to)
        <4>1. saw[u] \in EventTables
          BY <3>3 DEF TypeOK, EventTables
        <4>2. row.value = Count(saw[u], x, on) /\ row.value > 0
          BY <3>1, <3>3, <4>1, InsertRowsFacts DEF days
        <4>3. on \in SUBSET Days /\ on \subseteq days
          BY <1>1
        <4>4. \A d \in on : saw[u][<<d, x>>] <= saw[u][<<d, x>>]
          BY <1>1, <4>1 DEF EventTables
        <4> HIDE DEF on
        <4>5. /\ Count(saw[u], x, on) <= Count(saw[u], x, days)
              /\ Count(saw[u], x, on) \in Nat /\ Count(saw[u], x, days) \in Nat
          BY <1>1, <4>1, <4>3, <4>4, CountGrows, EventsFinite
        <4> QED  BY <3>3, <4>2, <4>5
      <3> QED  BY <3>1, <3>2, <3>3 DEF RowSource
    <2> QED  BY <1>6, <2>1 DEF found, n, days
  <1> QED  BY <1>5, <1>6

(* LastRebuildWins of every reachable state: however the transactions of   *)
(* overlapping rebuilds interleave, the bucket of the last to commit holds *)
(* its counts, each group once (Keys), and a row it did not make is of a   *)
(* group it did not see: events are only added, so that row's run saw      *)
(* more.                                                                   *)
THEOREM LastRebuildWinsCorrect == Spec => []LastRebuildWins
  BY SnapshotInvHolds, InvLastRebuildWins, PTL

-----------------------------------------------------------------------------
(* No event is counted twice *)

(* A row counts events that are still there, of its own bucket's days. *)
LEMMA RowCounts ==
    ASSUME SnapshotInv, NEW row \in table
    PROVE  /\ row \in Rows
           /\ row.value <= Count(events, row.dim, BucketDays(row.window, row.bucket))
  <1> USE DEF SnapshotInv
  <1>1. row \in Rows
    BY DEF TypeOK
  <1> DEFINE x == row.dim
             days == BucketDays(row.window, row.bucket)
  <1>2. x \in Dims /\ row.window \in Windows /\ days \in SUBSET Days
    BY <1>1 DEF Rows, BucketDays
  <1>3. ASSUME NEW evs \in EventTables, AtMost(evs, events), NEW on \in SUBSET days,
               row.value = Count(evs, x, on)
        PROVE  row.value <= Count(events, x, days)
    <2> HIDE DEF days, x
    <2>1. \A d \in on : evs[<<d, x>>] <= events[<<d, x>>]
      BY <1>2, <1>3 DEF AtMost
    <2>2. events \in EventTables /\ on \in SUBSET Days
      BY <1>2 DEF TypeOK, EventTables
    <2>3. Count(evs, x, on) <= Count(events, x, days)
      BY <1>2, <2>1, <2>2, CountGrows
    <2> QED  BY <1>3, <2>3
  <1>4. CASE row \in Grouped(FirstEvents, row.window, 0, LastDay, Seed)
    <2> DEFINE on == days \cap (0..LastDay)
    <2>1. FirstEvents \in EventTables /\ 0 \in Days /\ LastDay \in Days
      BY EventsAssumption, DaysAssumption DEF EventTables, Days
    <2>2. row.value = Count(FirstEvents, x, on)
      BY <1>2, <1>4, <2>1, GroupedFacts
    <2>3. on \in SUBSET days /\ AtMost(FirstEvents, events)
      BY DEF Growth
    <2> HIDE DEF on, days, x
    <2>4. row.value <= Count(events, x, days)
      BY <1>3, <2>1, <2>2, <2>3
    <2> QED  BY <1>1, <2>4 DEF days, x
  <1>5. CASE row.run \in Runs /\ row \in InsertRows(saw[row.run], row.run)
    <2> DEFINE t == row.run
               on == days \cap (Request[t].from .. Request[t].to)
    <2>1. saw[t] \in EventTables /\ AtMost(saw[t], events)
      BY <1>5 DEF TypeOK, EventTables, Growth
    <2>2. row.value = Count(saw[t], x, on)
      BY <1>5, <2>1, InsertRowsFacts
    <2>3. on \in SUBSET days
      OBVIOUS
    <2> HIDE DEF on, days, x, t
    <2>4. row.value <= Count(events, x, days)
      BY <1>3, <2>1, <2>2, <2>3
    <2> QED  BY <1>1, <2>4 DEF days, x
  <1> QED  BY <1>4, <1>5 DEF RowSource

(* The units of a report's rows are numbered within their rows; each maps  *)
(* to an event of its row's bucket, and two of them never to the same.     *)
LEMMA InvNeverOvercounts == SnapshotInv => NeverOvercounts
  <1> SUFFICES ASSUME SnapshotInv, NEW w \in Windows, NEW x \in Dims,
                      NEW from \in Days, NEW to \in Days
               PROVE  ReportTotal(w, from, to, x)
                        <= Count(events, x, {d \in Days : Bucket(w, d) \in from..to})
    BY DEF NeverOvercounts
  <1> DEFINE Selected == {r \in ReportRows(w, from, to) : r.dim = x}
             Units == UNION {{row} \X (1..row.value) : row \in Selected}
             read == {d \in Days : Bucket(w, d) \in from..to}
             On(row) == EventsOn(events, x, BucketDays(w, row.bucket))
             Number(row) == CHOOSE g \in Bijection(1..Cardinality(On(row)), On(row)) : TRUE
             f == [u \in Units |-> Number(u[1])[u[2]]]
  <1>1. events \in EventTables
    BY DEF SnapshotInv, TypeOK, EventTables
  <1>2. \A row \in Selected :
           row \in table /\ row.window = w /\ row.dim = x /\ row.bucket \in from..to
    BY DEF ReportRows
  <1>3. \A r, s \in Selected : r.bucket = s.bucket => r = s
    BY <1>2 DEF SnapshotInv, Keys, SameKey
  <1>4. ASSUME NEW row \in Selected
        PROVE  /\ row.value \in Nat
               /\ row.value <= Cardinality(On(row))
               /\ Cardinality(On(row)) \in Nat
               /\ Number(row) \in Bijection(1..Cardinality(On(row)), On(row))
               /\ On(row) \subseteq EventsOn(events, x, read)
               /\ \A e \in On(row) : Bucket(w, e[1]) = row.bucket
    <2>1. BucketDays(w, row.bucket) \in SUBSET Days
      BY DEF BucketDays
    <2>2. BucketDays(w, row.bucket) \subseteq read
      BY <1>2 DEF BucketDays
    <2>3. ASSUME NEW e \in On(row)
          PROVE  Bucket(w, e[1]) = row.bucket
      <3>1. PICK d \in BucketDays(w, row.bucket) : e \in {d} \X (1..events[<<d, x>>])
        BY <2>3 DEF EventsOn
      <3>2. e[1] = d
        BY <3>1
      <3> QED  BY <3>1, <3>2 DEF BucketDays
    <2>4. On(row) \subseteq EventsOn(events, x, read)
      BY <2>2 DEF EventsOn
    <2>5. IsFiniteSet(On(row))
      BY <1>1, <2>1, EventsFinite
    <2>6. row.value \in Nat /\ row.value <= Cardinality(On(row))
      BY <1>2, RowCounts DEF Rows, Count
    <2> HIDE DEF On
    <2>7. /\ Cardinality(On(row)) \in Nat
          /\ Bijection(1..Cardinality(On(row)), On(row)) # {}
      BY <2>5, FS_CardinalityType DEF ExistsBijection
    <2>8. Number(row) \in Bijection(1..Cardinality(On(row)), On(row))
      BY <2>7
    <2> QED  BY <2>3, <2>4, <2>6, <2>7, <2>8
  <1>5. ASSUME NEW u \in Units
        PROVE  /\ u[1] \in Selected
               /\ u = <<u[1], u[2]>>
               /\ u[2] \in 1..u[1].value
    BY <1>5
  <1> HIDE DEF Selected, Units, read, On, Number
  <1>6. ASSUME NEW u \in Units
        PROVE  /\ u[2] \in 1..Cardinality(On(u[1]))
               /\ f[u] = Number(u[1])[u[2]]
               /\ f[u] \in On(u[1])
    <2>1. u[2] \in 1..Cardinality(On(u[1]))
      BY <1>4, <1>5
    <2>2. Number(u[1]) \in [1..Cardinality(On(u[1])) -> On(u[1])]
      BY <1>4, <1>5, Fun_BijectionProperties
    <2> QED  BY <2>1, <2>2
  <1>7. f \in [Units -> EventsOn(events, x, read)]
    BY <1>4, <1>5, <1>6
  <1>8. ASSUME NEW u \in Units, NEW v \in Units, f[u] = f[v]
        PROVE  u = v
    <2>1. u[1].bucket = v[1].bucket
      BY <1>4, <1>5, <1>6, <1>8
    <2>2. u[1] = v[1]
      BY <1>3, <1>5, <2>1
    <2>3. u[2] = v[2]
      BY <1>4, <1>5, <1>6, <1>8, <2>2, Fun_BijectionProperties
    <2> QED  BY <1>5, <2>2, <2>3
  <1> HIDE DEF f
  <1>9. f \in Injection(Units, EventsOn(events, x, read))
    BY <1>7, <1>8, Fun_IsInj
  <1>10. IsFiniteSet(EventsOn(events, x, read))
    <2>1. read \in SUBSET Days
      BY DEF read
    <2> QED  BY <1>1, <2>1, EventsFinite
  <1>11. Cardinality(Units) <= Cardinality(EventsOn(events, x, read))
    BY <1>9, <1>10, FS_Injection
  <1> QED  BY <1>11 DEF ReportTotal, Count, Units, Selected, read

(* NeverOvercounts of every reachable state: whatever rebuilds of          *)
(* overlapping ranges do, what a report sums over any days is at most the  *)
(* events of the buckets it read: rows have different keys (Keys), and     *)
(* each counts events of its own bucket that are still there (RowSource,   *)
(* Growth).                                                                *)
THEOREM NeverOvercountsCorrect == Spec => []NeverOvercounts
  BY SnapshotInvHolds, InvNeverOvercounts, PTL
=============================================================================
