------------------------- MODULE ReportCacheProofs -------------------------
(* Theorems about ReportCache for every finite set of rebuilds and every   *)
(* set of requests, reports, parameters and faults.                        *)
EXTENDS ReportCache, FiniteSetTheorems, TLAPS

(* How many rebuilds are past their version bump. *)
Bumped == {c \in Recomputes : cstage[c] = "done"}

LEMMA IncrementsNat == MaxIncrements \in {1, 2}
  BY DEF MaxIncrements

LEMMA MaxVersionNat == MaxVersion \in Nat /\ 1 \in Versions /\ Versions \subseteq 0..MaxVersion
  <1>1. Cardinality(Recomputes) \in Nat
    BY RecomputesAssumption, FS_CardinalityType
  <1>2. MaxVersion \in Nat /\ MaxVersion >= 1
    BY <1>1, IncrementsNat DEF MaxVersion
  <1> QED  BY <1>2 DEF Versions

LEMMA SlugsAsked == \A r \in Readers : slugOf(r) \in Slugs
  BY QueryAssumption DEF slugOf

(* The keys a request may work with are keys of the cache. *)
LEMMA KeysInCache ==
    ASSUME NEW r \in Readers, NEW v \in Versions
    PROVE  cacheKey(r, v) \in CacheKeys
  BY DEF CacheKeys

(* The rows a query returns. *)
LEMMA RowsType ==
    ASSUME NEW r \in Readers, NEW g \in Nat
    PROVE  /\ Rows(r, g) \in Results
           /\ Rows(r, g).gen = g
           /\ Rows(r, g).slug = slugOf(r)
           /\ Rows(r, g).params = Query[r].params
  BY QueryAssumption DEF Rows, Results, slugOf

(* The larger of two numbers. *)
LEMMA MaxOfTwo ==
    ASSUME NEW a \in Nat, NEW b \in Nat
    PROVE  Max({a, b}) \in Nat /\ Max({a, b}) \in {a, b} /\ Max({a, b}) >= a /\ Max({a, b}) >= b
  <1>1. \E x \in {a, b} : \A y \in {a, b} : x >= y
    <2>1. CASE a >= b
      BY <2>1
    <2>2. CASE ~(a >= b)
      BY <2>2
    <2> QED  BY <2>1, <2>2
  <1>2. Max({a, b}) \in {a, b} /\ \A y \in {a, b} : Max({a, b}) >= y
    BY <1>1 DEF Max
  <1> QED  BY <1>2

(* Stages in which a request works with a key it was given. *)
Keyed == {"getEntry", "setEntry"}

(* The version grows by what the bumps so far could add, and a request     *)
(* that works with a key was given a version of it.                        *)
VersionInv ==
    /\ TypeOK
    /\ \A s \in Slugs : version[s] <= MaxIncrements * Cardinality(Bumped) + 1
    /\ \A r \in Readers : stage[r] \in Keyed => key[r] \in Versions

(* No bound is passed as long as only finished rebuilds have bumped. *)
LEMMA BumpedBound ==
    ASSUME TypeOK
    PROVE  /\ IsFiniteSet(Bumped) /\ Cardinality(Bumped) \in Nat
           /\ MaxIncrements * Cardinality(Bumped) + 1 <= MaxVersion
           /\ \A c \in Recomputes \ Bumped :
                 /\ Cardinality(Bumped \cup {c}) = Cardinality(Bumped) + 1
                 /\ MaxIncrements * (Cardinality(Bumped) + 1) + 1 <= MaxVersion
  <1>1. Bumped \in SUBSET Recomputes
    BY DEF Bumped
  <1>2. /\ IsFiniteSet(Bumped) /\ Cardinality(Bumped) \in Nat
        /\ Cardinality(Bumped) <= Cardinality(Recomputes) /\ Cardinality(Recomputes) \in Nat
    BY <1>1, RecomputesAssumption, FS_Subset, FS_CardinalityType
  <1>3. MaxIncrements * Cardinality(Bumped) + 1 <= MaxVersion
    BY <1>2, IncrementsNat DEF MaxVersion
  <1>4. ASSUME NEW c \in Recomputes \ Bumped
        PROVE  /\ Cardinality(Bumped \cup {c}) = Cardinality(Bumped) + 1
               /\ MaxIncrements * (Cardinality(Bumped) + 1) + 1 <= MaxVersion
    <2>1. Cardinality(Bumped \cup {c}) = Cardinality(Bumped) + 1
      BY <1>2, FS_AddElement
    <2>2. Bumped \cup {c} \in SUBSET Recomputes
      BY <1>1
    <2>3. Cardinality(Bumped \cup {c}) <= Cardinality(Recomputes)
      BY <2>2, RecomputesAssumption, FS_Subset
    <2>4. Cardinality(Bumped) + 1 <= Cardinality(Recomputes)
      BY <2>1, <2>3
    <2> QED  BY <1>2, <2>1, <2>4, IncrementsNat DEF MaxVersion
  <1> QED  BY <1>2, <1>3, <1>4

(* A request's calls: its stage, its key and what it read stay well        *)
(* formed, and so does what it leaves in Redis.                            *)
LEMMA ReaderTypes ==
    ASSUME VersionInv, NEW r \in Readers, ReaderStep(r)
    PROVE  VersionInv'
  <1> USE DEF Move, RedisErr, ReaderStages
  <1>1. /\ slugOf(r) \in Slugs /\ TypeOK
        /\ version[slugOf(r)] \in 0..MaxVersion
        /\ MaxVersion \in Nat /\ 1 \in Versions
    BY QueryAssumption, MaxVersionNat DEF VersionInv, TypeOK, slugOf
  <1>2. ASSUME stage' \in [Readers -> ReaderStages],
               key' \in [Readers -> 0..MaxVersion],
               rows' \in [Readers -> Results \cup {NoRows}],
               cache' \in [CacheKeys -> Results \cup {NoRows}],
               floor' \in [Readers -> Nat],
               reset' \subseteq Slugs,
               \A q \in Readers : stage'[q] \in Keyed => key'[q] \in Versions,
               version' = version \/ version' = [version EXCEPT ![slugOf(r)] = 1],
               UNCHANGED <<cstage, gen, db, promised, overtaken>>
        PROVE  VersionInv'
    <2>1. Bumped' = Bumped
      BY <1>2 DEF Bumped
    <2>2. Cardinality(Bumped) \in Nat /\ MaxIncrements * Cardinality(Bumped) + 1 >= 1
      BY <1>1, BumpedBound, IncrementsNat
    <2>3. version' \in [Slugs -> 0..MaxVersion]
      BY <1>1, <1>2 DEF TypeOK, Versions
    <2>4. \A s \in Slugs : version'[s] <= MaxIncrements * Cardinality(Bumped') + 1
      BY <1>1, <1>2, <2>1, <2>2 DEF VersionInv, TypeOK
    <2>5. TypeOK'
      BY <1>1, <1>2, <2>3 DEF TypeOK
    <2>6. MaxIncrements' = MaxIncrements
      OBVIOUS
    <2> QED  BY <1>2, <2>4, <2>5 DEF VersionInv
  <1>3. CASE Start(r)
    BY <1>1, <1>2, <1>3 DEF Start, VersionInv, TypeOK, Keyed, redis
  <1>4. CASE GetVersion(r)
    <2>1. /\ stage' \in [Readers -> ReaderStages]
          /\ key' \in [Readers -> 0..MaxVersion]
          /\ \A q \in Readers : stage'[q] \in Keyed => key'[q] \in Versions
      BY <1>1, <1>4 DEF GetVersion, VersionInv, TypeOK, Keyed, WithVersion, WithoutVersion, Versions
    <2>2. UNCHANGED <<rows, cstage, gen, db, version, cache, promised, floor, overtaken, reset>>
      BY <1>4 DEF GetVersion, redis, history
    <2> QED  BY <1>1, <1>2, <2>1, <2>2 DEF TypeOK
  <1>5. CASE InitVersion(r)
    <2>1. /\ stage' \in [Readers -> ReaderStages]
          /\ key' \in [Readers -> 0..MaxVersion]
          /\ \A q \in Readers : stage'[q] \in Keyed => key'[q] \in Versions
      BY <1>1, <1>5 DEF InitVersion, VersionInv, TypeOK, Keyed, WithVersion, WithoutVersion, Versions
    <2>2. UNCHANGED <<rows, cstage, gen, db, cache, promised, floor, overtaken>>
      BY <1>5 DEF InitVersion
    <2>3. version' = version \/ version' = [version EXCEPT ![slugOf(r)] = 1]
      BY <1>5 DEF InitVersion
    <2>4. reset' \subseteq Slugs
      BY <1>1, <1>5 DEF InitVersion, TypeOK
    <2> QED  BY <1>1, <1>2, <2>1, <2>2, <2>3, <2>4 DEF TypeOK
  <1>6. CASE GetEntry(r)
    <2>1. cacheKey(r, key[r]) \in CacheKeys
      BY <1>6, KeysInCache DEF GetEntry, VersionInv, Keyed
    <2>2. cache[cacheKey(r, key[r])] \in Results \cup {NoRows}
      BY <1>1, <2>1 DEF TypeOK
    <2>3. /\ stage' \in [Readers -> ReaderStages]
          /\ rows' \in [Readers -> Results \cup {NoRows}]
          /\ \A q \in Readers : stage'[q] \in Keyed => stage[q] \in Keyed
      BY <1>1, <1>6, <2>2 DEF GetEntry, TypeOK, Keyed
    <2>4. UNCHANGED <<key, cstage, gen, db, version, cache, promised, floor, overtaken, reset>>
      BY <1>6 DEF GetEntry, redis, history
    <2> QED  BY <1>1, <1>2, <2>3, <2>4 DEF TypeOK, VersionInv
  <1>7. CASE ExecuteReportQuery(r)
    <2>1. Rows(r, db[slugOf(r)]) \in Results
      BY <1>1, RowsType DEF TypeOK
    <2>2. /\ stage' \in [Readers -> ReaderStages]
          /\ rows' \in [Readers -> Results \cup {NoRows}]
          /\ \A q \in Readers : stage'[q] \in Keyed => stage[q] \in Keyed
      BY <1>1, <1>7, <2>1 DEF ExecuteReportQuery, TypeOK, Keyed
    <2>3. UNCHANGED <<key, cstage, gen, db, version, cache, promised, floor, overtaken, reset>>
      BY <1>7 DEF ExecuteReportQuery, redis, history
    <2> QED  BY <1>1, <1>2, <2>2, <2>3 DEF TypeOK, VersionInv
  <1>8. CASE SetEntry(r)
    <2>1. cacheKey(r, key[r]) \in CacheKeys
      BY <1>8, KeysInCache DEF SetEntry, VersionInv, Keyed
    <2>2. /\ stage' \in [Readers -> ReaderStages]
          /\ cache' \in [CacheKeys -> Results \cup {NoRows}]
          /\ \A q \in Readers : stage'[q] \in Keyed => stage[q] \in Keyed
      BY <1>1, <1>8, <2>1 DEF SetEntry, TypeOK, Keyed
    <2>3. UNCHANGED <<rows, key, cstage, gen, db, version, promised, floor, overtaken, reset>>
      BY <1>8 DEF SetEntry, history
    <2> QED  BY <1>1, <1>2, <2>2, <2>3 DEF TypeOK, VersionInv
  <1> QED  BY <1>3, <1>4, <1>5, <1>6, <1>7, <1>8 DEF ReaderStep

(* Every step keeps the types and the bound on the version. *)
LEMMA VersionStep == VersionInv /\ [Next]_vars => VersionInv'
  <1> SUFFICES ASSUME VersionInv, [Next]_vars
               PROVE  VersionInv'
    OBVIOUS
  <1> USE MaxVersionNat, IncrementsNat
  <1>1. ASSUME NEW r \in Readers, ReaderStep(r)
        PROVE  VersionInv'
    BY <1>1, ReaderTypes
  <1>2. ASSUME NEW c \in Recomputes, CommitRebuild(c)
        PROVE  VersionInv'
    <2>1. Target[c] \in Slugs
      BY TargetAssumption
    <2>2. TypeOK'
      BY <1>2, <2>1 DEF CommitRebuild, VersionInv, TypeOK, redis
    <2>3. Bumped' = Bumped
      BY <1>2 DEF CommitRebuild, VersionInv, TypeOK, Bumped
    <2>4. UNCHANGED <<stage, key, version>>
      BY <1>2 DEF CommitRebuild, redis
    <2> QED  BY <2>2, <2>3, <2>4 DEF VersionInv
  <1>3. ASSUME NEW c \in Recomputes, BumpVersion(c)
        PROVE  VersionInv'
    <2> DEFINE s == Target[c]
    <2>1. s \in Slugs /\ TypeOK
      BY TargetAssumption DEF VersionInv
    <2>2. c \in Recomputes \ Bumped /\ Bumped' = Bumped \cup {c}
      BY <1>3, <2>1 DEF BumpVersion, TypeOK, Bumped
    <2>3. /\ Cardinality(Bumped') = Cardinality(Bumped) + 1
          /\ Cardinality(Bumped) \in Nat
          /\ MaxIncrements * Cardinality(Bumped') + 1 <= MaxVersion
      BY <2>1, <2>2, BumpedBound
    <2>4. PICK n \in 0..MaxIncrements : version' = [version EXCEPT ![s] = @ + n]
      <3>1. CASE version' = version
        BY <3>1, <2>1 DEF TypeOK
      <3>2. CASE version' # version
        BY <1>3, <3>2 DEF BumpVersion
      <3> QED  BY <3>1, <3>2
    <2>5. \A t \in Slugs : /\ version'[t] \in Nat
                           /\ version'[t] <= MaxIncrements * Cardinality(Bumped') + 1
      BY <2>1, <2>3, <2>4 DEF VersionInv, TypeOK
    <2>6. version' \in [Slugs -> 0..MaxVersion]
      <3>1. \A t \in Slugs : version'[t] \in 0..MaxVersion
        BY <2>3, <2>5
      <3> QED  BY <3>1, <2>1, <2>4 DEF TypeOK
    <2>7. promised' \in [Slugs -> Nat]
      <3>1. Max({promised[s], gen[c]}) \in Nat
        BY <2>1, MaxOfTwo DEF TypeOK
      <3> QED  BY <3>1, <1>3, <2>1 DEF BumpVersion, TypeOK
    <2>8. /\ cstage' = [cstage EXCEPT ![c] = "done"]
          /\ UNCHANGED <<stage, key, rows, gen, db, cache, floor, overtaken, reset>>
      BY <1>3 DEF BumpVersion
    <2>9. TypeOK'
      BY <2>1, <2>6, <2>7, <2>8 DEF TypeOK
    <2> QED  BY <2>5, <2>8, <2>9 DEF VersionInv
  <1>4. ASSUME NEW k \in CacheKeys, EntryExpire(k)
        PROVE  VersionInv'
    <2>1. TypeOK' /\ UNCHANGED <<stage, key, cstage, version>>
      BY <1>4 DEF EntryExpire, VersionInv, TypeOK, history
    <2> QED  BY <2>1 DEF VersionInv, Bumped
  <1>5. ASSUME Flush
        PROVE  VersionInv'
    <2>1. TypeOK' /\ UNCHANGED <<stage, key, cstage>>
      BY <1>5 DEF Flush, VersionInv, TypeOK
    <2>2. Bumped' = Bumped /\ Cardinality(Bumped) \in Nat
      BY <2>1, BumpedBound DEF Bumped, VersionInv
    <2>3. \A s \in Slugs : version'[s] = 0
      BY <1>5 DEF Flush
    <2> QED  BY <2>1, <2>2, <2>3 DEF VersionInv
  <1>6. ASSUME UNCHANGED vars
        PROVE  VersionInv'
    BY <1>6 DEF VersionInv, TypeOK, Bumped, vars, redis, history
  <1> QED  BY <1>1, <1>2, <1>3, <1>4, <1>5, <1>6 DEF Next, Quiescent

LEMMA VersionCorrect == Spec => []VersionInv
  <1>1. Init => VersionInv
    <2> SUFFICES ASSUME Init PROVE VersionInv
      OBVIOUS
    <2>1. TypeOK
      BY MaxVersionNat DEF Init, TypeOK, ReaderStages
    <2>2. Cardinality(Bumped) \in Nat
      BY <2>1, BumpedBound
    <2>3. /\ \A s \in Slugs : version[s] = 0
          /\ \A r \in Readers : stage[r] = "start"
      BY DEF Init
    <2> QED  BY <2>1, <2>2, <2>3, IncrementsNat DEF VersionInv, Keyed
  <1> QED  BY <1>1, VersionStep, PTL DEF Spec

(* The state of the read path stays within its types: no version passes    *)
(* one more than what the rebuilds can add to it, however often its key is *)
(* lost and set again.                                                     *)
THEOREM CacheTypes == Spec => []TypeOK
  <1>1. VersionInv => TypeOK
    BY DEF VersionInv
  <1> QED  BY <1>1, VersionCorrect, PTL


-----------------------------------------------------------------------------
(* Rows under their own key *)

(* What is stored under a key are rows of the report and the parameters in *)
(* the key.                                                                *)
KeyedRows ==
    \A r \in Readers, v \in Versions :
        LET entry == cache[cacheKey(r, v)] IN
        entry # NoRows => entry.slug = slugOf(r) /\ entry.params = Query[r].params

RowsInv == RightRows /\ KeyedRows

(* Every step keeps each request to its own rows. *)
LEMMA RowsStep == VersionInv /\ RowsInv /\ [Next]_vars => RowsInv'
  <1> SUFFICES ASSUME VersionInv, RowsInv, [Next]_vars
               PROVE  RowsInv'
    OBVIOUS
  <1> USE KeysInCache
  <1>1. TypeOK /\ RightRows /\ KeyedRows
    BY DEF VersionInv, RowsInv
  <1>2. ASSUME NEW r \in Readers, GetEntry(r)
        PROVE  RowsInv'
    <2>1. key[r] \in Versions
      BY <1>2 DEF GetEntry, VersionInv, Keyed
    <2>2. KeyedRows'
      BY <1>1, <1>2 DEF GetEntry, RedisErr, redis, KeyedRows
    <2>3. rows' = rows \/ rows' = [rows EXCEPT ![r] = cache[cacheKey(r, key[r])]]
      BY <1>2 DEF GetEntry
    <2>4. RightRows'
      BY <1>1, <2>1, <2>3 DEF TypeOK, RightRows, KeyedRows
    <2> QED  BY <2>2, <2>4 DEF RowsInv
  <1>3. ASSUME NEW r \in Readers, ExecuteReportQuery(r)
        PROVE  RowsInv'
    <2>1. cache' = cache
      BY <1>3 DEF ExecuteReportQuery, redis
    <2>2. rows' = rows \/ rows' = [rows EXCEPT ![r] = Rows(r, db[slugOf(r)])]
      BY <1>3 DEF ExecuteReportQuery
    <2>3. db[slugOf(r)] \in Nat
      BY <1>1, QueryAssumption DEF TypeOK, slugOf
    <2>4. RightRows'
      BY <1>1, <2>2, <2>3, RowsType DEF TypeOK, RightRows
    <2> QED  BY <1>1, <2>1, <2>4 DEF RowsInv, KeyedRows
  <1>4. ASSUME NEW r \in Readers, SetEntry(r)
        PROVE  RowsInv'
    <2>1. rows' = rows
      BY <1>4 DEF SetEntry
    <2>2. cache' = cache \/ cache' = [cache EXCEPT ![cacheKey(r, key[r])] = rows[r]]
      BY <1>4 DEF SetEntry, RedisErr
    <2>3. KeyedRows'
      <3> SUFFICES ASSUME NEW q \in Readers, NEW v \in Versions,
                          cache'[cacheKey(q, v)] # NoRows
                   PROVE  /\ cache'[cacheKey(q, v)].slug = slugOf(q)
                          /\ cache'[cacheKey(q, v)].params = Query[q].params
        BY DEF KeyedRows
      <3>1. CASE cache'[cacheKey(q, v)] = cache[cacheKey(q, v)]
        BY <1>1, <3>1 DEF KeyedRows
      <3>2. CASE cache'[cacheKey(q, v)] # cache[cacheKey(q, v)]
        <4>1. cacheKey(q, v) = cacheKey(r, key[r]) /\ cache'[cacheKey(q, v)] = rows[r]
          BY <1>1, <2>2, <3>2 DEF TypeOK
        <4>2. slugOf(q) = slugOf(r) /\ Query[q].params = Query[r].params
          BY <4>1 DEF cacheKey
        <4> QED  BY <1>1, <4>1, <4>2 DEF RightRows
      <3> QED  BY <3>1, <3>2
    <2> QED  BY <1>1, <2>1, <2>3 DEF RowsInv, RightRows
  <1>5. ASSUME \/ \E k \in CacheKeys : EntryExpire(k)
               \/ Flush
        PROVE  RowsInv'
    <2>1. rows' = rows
      BY <1>5 DEF EntryExpire, Flush
    <2>2. \A r \in Readers, v \in Versions :
              \/ cache'[cacheKey(r, v)] = cache[cacheKey(r, v)]
              \/ cache'[cacheKey(r, v)] = NoRows
      BY <1>1, <1>5 DEF EntryExpire, Flush, TypeOK
    <2> QED  BY <1>1, <2>1, <2>2 DEF RowsInv, RightRows, KeyedRows
  <1>6. ASSUME \/ \E r \in Readers : Start(r) \/ GetVersion(r) \/ InitVersion(r)
               \/ \E c \in Recomputes : CommitRebuild(c) \/ BumpVersion(c)
               \/ UNCHANGED vars
        PROVE  RowsInv'
    <2>1. UNCHANGED <<rows, cache>>
      BY <1>6 DEF Start, GetVersion, InitVersion, CommitRebuild, BumpVersion, RedisErr, redis, vars
    <2> QED  BY <1>1, <2>1 DEF RowsInv, RightRows, KeyedRows
  <1> QED
    BY <1>2, <1>3, <1>4, <1>5, <1>6 DEF Next, ReaderStep, Quiescent

(* A request is only ever answered with the rows of its own report and its *)
(* own parameters, from the table and from the cache.                      *)
THEOREM RightRowsCorrect == Spec => []RightRows
  <1>1. Init => RowsInv
    BY KeysInCache DEF Init, RowsInv, RightRows, KeyedRows
  <1>2. RowsInv => RightRows
    BY DEF RowsInv
  <1> QED  BY <1>1, <1>2, VersionCorrect, RowsStep, PTL DEF Spec

-----------------------------------------------------------------------------
(* Stale answers *)

(* Stages of a request that holds rows it read and has not stored yet. *)
Storing == {"getVersion2", "initVersion2", "setEntry"}

(* A bump promises no more than was committed, and a request is promised   *)
(* no more than what was promised so far.                                  *)
Generations ==
    /\ \A s \in Slugs : promised[s] <= db[s]
    /\ \A c \in Recomputes : gen[c] <= db[Target[c]]
    /\ \A r \in Readers : floor[r] <= promised[slugOf(r)]

(* Rows read from the table are as new as promised, and the newest until a *)
(* rebuild overtakes them.                                                 *)
ReadRows(r) ==
    stage[r] \in Storing =>
        /\ rows[r] \in Results
        /\ rows[r].gen >= floor[r]
        /\ r \in overtaken \/ rows[r].gen = db[slugOf(r)]

(* Unless the version went back, no request works with one still to come.  *)
GivenKey(r) == slugOf(r) \in reset \/ key[r] <= version[slugOf(r)]

(* Nor is anything stored under one; and what is stored under the current  *)
(* one is as new as promised, or some fill for these rows raced.           *)
CurrentEntry(r, v) ==
    LET entry == cache[cacheKey(r, v)] IN
    entry # NoRows /\ slugOf(r) \notin reset =>
        /\ v <= version[slugOf(r)]
        /\ v = version[slugOf(r)] => Raced(r) \/ entry.gen >= promised[slugOf(r)]

(* What a request is about to find was not stale when it started. *)
FreshLookup(r) ==
    LET entry == cache[cacheKey(r, key[r])] IN
    stage[r] = "getEntry" /\ entry # NoRows => Raced(r) \/ entry.gen >= floor[r]

(* Nor is what it was answered. *)
FreshAnswer(r) ==
    stage[r] = "done" => rows[r] \in Results /\ (Raced(r) \/ rows[r].gen >= floor[r])

FreshInv ==
    /\ Generations
    /\ \A r \in Readers : ReadRows(r) /\ GivenKey(r) /\ FreshLookup(r) /\ FreshAnswer(r)
    /\ \A r \in Readers, v \in Versions : CurrentEntry(r, v)


LEMMA GenNat == \A x \in Results : x.gen \in Nat
  BY DEF Results

(* A race is never forgotten. *)
LEMMA RacedStays ==
    ASSUME [Next]_vars, NEW r \in Readers, Raced(r)
    PROVE  Raced(r)'
  <1>1. overtaken \subseteq overtaken' /\ reset \subseteq reset'
    <2>1. ASSUME NEW q \in Readers, ReaderStep(q)
          PROVE  overtaken \subseteq overtaken' /\ reset \subseteq reset'
      BY <2>1 DEF ReaderStep, Start, GetVersion, InitVersion, GetEntry, ExecuteReportQuery,
                  SetEntry, history
    <2>2. ASSUME \/ \E c \in Recomputes : CommitRebuild(c) \/ BumpVersion(c)
                 \/ \E k \in CacheKeys : EntryExpire(k)
                 \/ Flush \/ UNCHANGED vars
          PROVE  overtaken \subseteq overtaken' /\ reset \subseteq reset'
      BY <2>2 DEF CommitRebuild, BumpVersion, EntryExpire, Flush, vars, history
    <2> QED  BY <2>1, <2>2 DEF Next, Quiescent
  <1> QED  BY <1>1 DEF Raced

(* What the request of r does not touch. *)
LEMMA ReaderFrame ==
    ASSUME TypeOK, NEW r \in Readers, ReaderStep(r)
    PROVE  /\ UNCHANGED <<cstage, gen, db, promised, overtaken>>
           /\ \A q \in Readers \ {r} : /\ stage'[q] = stage[q] /\ key'[q] = key[q]
                                       /\ rows'[q] = rows[q] /\ floor'[q] = floor[q]
  <1> USE DEF TypeOK, Move, RedisErr, history
  <1>1. CASE Start(r)
    BY <1>1 DEF Start
  <1>2. CASE GetVersion(r)
    BY <1>2 DEF GetVersion
  <1>3. CASE InitVersion(r)
    BY <1>3 DEF InitVersion
  <1>4. CASE GetEntry(r)
    BY <1>4 DEF GetEntry
  <1>5. CASE ExecuteReportQuery(r)
    BY <1>5 DEF ExecuteReportQuery
  <1>6. CASE SetEntry(r)
    BY <1>6 DEF SetEntry
  <1> QED  BY <1>1, <1>2, <1>3, <1>4, <1>5, <1>6 DEF ReaderStep

(* A request that leaves Redis alone, but for an entry it looks at, keeps  *)
(* every entry and every other request fresh.                              *)
LEMMA QuietReader ==
    ASSUME VersionInv, FreshInv, [Next]_vars, NEW r \in Readers, ReaderStep(r),
           UNCHANGED <<redis, reset>>,
           floor'[r] <= promised[slugOf(r)],
           ReadRows(r)', GivenKey(r)', FreshLookup(r)', FreshAnswer(r)'
    PROVE  FreshInv'
  <1>1. /\ UNCHANGED <<cstage, gen, db, promised, overtaken>>
        /\ \A q \in Readers \ {r} : /\ stage'[q] = stage[q] /\ key'[q] = key[q]
                                    /\ rows'[q] = rows[q] /\ floor'[q] = floor[q]
    BY ReaderFrame DEF VersionInv
  <1>2. version' = version /\ cache' = cache /\ reset' = reset
    BY DEF redis
  <1>3. \A q \in Readers : Raced(q)' <=> Raced(q)
    BY <1>1, <1>2 DEF Raced
  <1>4. Generations'
    BY <1>1 DEF FreshInv, Generations
  <1>5. ASSUME NEW q \in Readers
        PROVE  ReadRows(q)' /\ GivenKey(q)' /\ FreshLookup(q)' /\ FreshAnswer(q)'
    <2>1. CASE q = r
      BY <2>1
    <2>2. CASE q # r
      <3>1. /\ stage'[q] = stage[q] /\ key'[q] = key[q]
            /\ rows'[q] = rows[q] /\ floor'[q] = floor[q]
        BY <1>1, <2>2
      <3> QED  BY <3>1, <1>1, <1>2, <1>3 DEF FreshInv, ReadRows, GivenKey, FreshLookup, FreshAnswer
    <2> QED  BY <2>1, <2>2
  <1>6. ASSUME NEW q \in Readers, NEW v \in Versions
        PROVE  CurrentEntry(q, v)'
    BY <1>1, <1>2, <1>3 DEF FreshInv, CurrentEntry
  <1> QED  BY <1>4, <1>5, <1>6 DEF FreshInv

(* A request gets the current version, or none. *)
LEMMA GetVersionFresh ==
    ASSUME VersionInv, FreshInv, [Next]_vars, NEW r \in Readers, GetVersion(r)
    PROVE  FreshInv'
  <1> DEFINE s == slugOf(r)
  <1>1. ReaderStep(r) /\ TypeOK /\ s \in Slugs
    BY QueryAssumption DEF ReaderStep, VersionInv, slugOf
  <1>2. /\ stage[r] \in {"getVersion", "getVersion2"}
        /\ UNCHANGED <<rows, version, cache, db, promised, floor, overtaken, reset>>
    BY DEF GetVersion, RedisErr, redis, history
  <1>3. \/ stage'[r] \in {"query", "initVersion"} /\ stage[r] = "getVersion" /\ key'[r] = key[r]
        \/ stage'[r] \in {"done", "initVersion2"} /\ stage[r] = "getVersion2" /\ key'[r] = key[r]
        \/ stage'[r] = "getEntry" /\ key'[r] = version[s] /\ version[s] # 0
        \/ stage'[r] = "setEntry" /\ stage[r] = "getVersion2" /\ key'[r] = version[s]
    BY <1>1 DEF GetVersion, RedisErr, Move, WithVersion, WithoutVersion, TypeOK
  <1>4. version[s] \in Nat /\ (version[s] # 0 => version[s] \in Versions)
    BY <1>1, MaxVersionNat DEF TypeOK, Versions
  <1>5. floor'[r] <= promised[s] /\ floor[r] \in Nat /\ promised[s] \in Nat
    BY <1>1, <1>2 DEF FreshInv, Generations, TypeOK
  <1>6. Raced(r)' <=> Raced(r)
    BY <1>2 DEF Raced
  <1>7. GivenKey(r)'
    BY <1>2, <1>3, <1>4 DEF FreshInv, GivenKey
  <1>8. /\ ReadRows(r)
        /\ stage[r] \in Storing <=> stage[r] = "getVersion2"
    BY <1>2 DEF FreshInv, Storing
  <1>9. ReadRows(r)' /\ FreshAnswer(r)'
    BY <1>2, <1>3, <1>6, <1>8 DEF FreshInv, ReadRows, FreshAnswer, Storing
  <1>10. FreshLookup(r)'
    <2> SUFFICES ASSUME stage'[r] = "getEntry", cache[cacheKey(r, key'[r])] # NoRows, ~Raced(r)
                 PROVE  cache[cacheKey(r, key'[r])].gen >= floor[r]
      BY <1>2, <1>6 DEF FreshLookup, cacheKey
    <2>1. key'[r] = version[s] /\ version[s] \in Versions
      BY <1>3, <1>4
    <2>2. CurrentEntry(r, version[s])
      BY <2>1 DEF FreshInv
    <2>3. cache[cacheKey(r, version[s])].gen >= promised[s]
      BY <2>1, <2>2 DEF CurrentEntry, Raced
    <2>4. cache[cacheKey(r, version[s])] \in Results
      BY <2>1, <1>1, KeysInCache DEF TypeOK
    <2> QED  BY <2>1, <2>3, <2>4, <1>2, <1>5, GenNat
  <1> QED  BY <1>1, <1>2, <1>5, <1>7, <1>9, <1>10, QuietReader DEF redis


(* The first version of a missing key: nothing is stored under it, unless  *)
(* the key went back.                                                      *)
LEMMA InitVersionFresh ==
    ASSUME VersionInv, FreshInv, [Next]_vars, NEW r \in Readers, InitVersion(r)
    PROVE  FreshInv'
  <1> DEFINE s == slugOf(r)
  <1>1. ReaderStep(r) /\ TypeOK /\ s \in Slugs
    BY QueryAssumption DEF ReaderStep, VersionInv, slugOf
  <1>2. /\ UNCHANGED <<cstage, gen, db, promised, overtaken>>
        /\ \A q \in Readers \ {r} : /\ stage'[q] = stage[q] /\ key'[q] = key[q]
                                    /\ rows'[q] = rows[q] /\ floor'[q] = floor[q]
    BY <1>1, ReaderFrame
  <1>3. /\ stage[r] \in {"initVersion", "initVersion2"}
        /\ UNCHANGED <<rows, cache, floor>>
    BY DEF InitVersion, RedisErr
  <1>4. \/ version' = version /\ reset' = reset
        \/ /\ version' = [version EXCEPT ![s] = 1]
           /\ reset' = IF version[s] > 1 THEN reset \cup {s} ELSE reset
    BY DEF InitVersion, RedisErr
  <1>5. \/ stage'[r] = "query" /\ stage[r] = "initVersion" /\ key'[r] = key[r]
        \/ stage'[r] = "done" /\ stage[r] = "initVersion2" /\ key'[r] = key[r]
        \/ stage'[r] = "getEntry" /\ key'[r] = 1 /\ version'[s] = 1
        \/ stage'[r] = "setEntry" /\ stage[r] = "initVersion2" /\ key'[r] = 1 /\ version'[s] = 1
    BY <1>1 DEF InitVersion, RedisErr, Move, WithVersion, WithoutVersion, TypeOK
  <1>6. \A q \in Readers : Raced(q) => Raced(q)'
    BY RacedStays
  <1>7. \A t \in Slugs : /\ version[t] \in Nat /\ version'[t] \in Nat
                         /\ t \notin reset' => /\ t \notin reset /\ version[t] <= version'[t]
                                               /\ \/ version'[t] = version[t]
                                                  \/ version[t] = 0 /\ version'[t] = 1
    BY <1>1, <1>4 DEF TypeOK
  <1>8. \A q \in Readers : slugOf(q) \in Slugs /\ key[q] \in Nat /\ floor[q] \in Nat
    <2>1. \A q \in Readers : key[q] \in Nat
      BY <1>1, MaxVersionNat DEF TypeOK
    <2>2. \A q \in Readers : floor[q] \in Nat
      BY <1>1 DEF TypeOK
    <2> QED  BY <2>1, <2>2, SlugsAsked
  <1>9. Generations'
    BY <1>2, <1>3 DEF FreshInv, Generations
  <1>10. ASSUME NEW q \in Readers, NEW v \in Versions
         PROVE  CurrentEntry(q, v)'
    <2>1. CurrentEntry(q, v) /\ v >= 1 /\ v \in Nat
      BY MaxVersionNat DEF FreshInv, Versions
    <2> QED  BY <2>1, <1>2, <1>3, <1>6, <1>7, <1>8 DEF CurrentEntry
  <1>11. ASSUME NEW q \in Readers
         PROVE  GivenKey(q)'
    <2>1. GivenKey(q)
      BY DEF FreshInv
    <2>2. CASE key'[q] = key[q]
      BY <2>1, <2>2, <1>7, <1>8 DEF GivenKey
    <2>3. CASE key'[q] # key[q]
      <3>1. q = r /\ key'[q] = 1 /\ version'[s] = 1
        BY <2>3, <1>2, <1>5
      <3> QED  BY <3>1 DEF GivenKey
    <2> QED  BY <2>2, <2>3
  <1>12. ASSUME NEW q \in Readers
         PROVE  ReadRows(q)' /\ FreshAnswer(q)'
    <2>1. ReadRows(q) /\ FreshAnswer(q)
      BY DEF FreshInv
    <2>2. stage'[q] \in Storing => stage[q] \in Storing
      BY <1>2, <1>5 DEF Storing
    <2>3. stage'[q] = "done" => stage[q] = "done" \/ stage[q] \in Storing
      BY <1>2, <1>5 DEF Storing
    <2> QED  BY <2>1, <2>2, <2>3, <1>2, <1>3, <1>6 DEF ReadRows, FreshAnswer
  <1>13. ASSUME NEW q \in Readers
         PROVE  FreshLookup(q)'
    <2>1. CASE key'[q] = key[q] /\ stage'[q] = stage[q]
      BY <2>1, <1>2, <1>3, <1>6 DEF FreshInv, FreshLookup
    <2>2. CASE ~(key'[q] = key[q] /\ stage'[q] = stage[q])
      <3> SUFFICES ASSUME stage'[q] = "getEntry", cache'[cacheKey(q, key'[q])] # NoRows, ~Raced(q)'
                   PROVE  cache'[cacheKey(q, key'[q])].gen >= floor'[q]
        BY DEF FreshLookup, cacheKey
      <3>1. q = r
        BY <2>2, <1>2
      <3>2. key'[q] = 1 /\ version'[slugOf(q)] = 1 /\ 1 \in Versions
        BY <3>1, <1>5, MaxVersionNat
      <3>3. CurrentEntry(q, 1)'
        BY <3>2, <1>10
      <3>4. cache'[cacheKey(q, 1)].gen >= promised'[slugOf(q)]
        BY <3>2, <3>3 DEF CurrentEntry, Raced
      <3>5. cache'[cacheKey(q, 1)] \in Results
        BY <3>2, <1>1, <1>3, KeysInCache DEF TypeOK
      <3>6. floor'[q] <= promised'[slugOf(q)] /\ promised'[slugOf(q)] \in Nat /\ floor'[q] \in Nat
        BY <1>1, <1>2, <1>3, <1>8 DEF FreshInv, Generations, TypeOK
      <3> QED  BY <3>2, <3>4, <3>5, <3>6, GenNat
    <2> QED  BY <2>1, <2>2
  <1> QED  BY <1>9, <1>10, <1>11, <1>12, <1>13 DEF FreshInv

(* The other calls that read. *)
LEMMA ReadingFresh ==
    ASSUME VersionInv, FreshInv, [Next]_vars, NEW r \in Readers,
           Start(r) \/ GetEntry(r) \/ ExecuteReportQuery(r)
    PROVE  FreshInv'
  <1> DEFINE s == slugOf(r)
  <1>1. ReaderStep(r) /\ TypeOK /\ s \in Slugs
    BY QueryAssumption DEF ReaderStep, VersionInv, slugOf
  <1>2. UNCHANGED <<version, cache, reset, db, promised, overtaken>>
    BY DEF Start, GetEntry, ExecuteReportQuery, RedisErr, redis, history
  <1>3. key' = key
    BY DEF Start, GetEntry, ExecuteReportQuery, RedisErr
  <1>4. (Raced(r)' <=> Raced(r)) /\ GivenKey(r)'
    BY <1>2, <1>3 DEF FreshInv, Raced, GivenKey
  <1>5. /\ promised[s] \in Nat /\ db[s] \in Nat /\ floor[r] \in Nat
        /\ promised[s] <= db[s] /\ floor[r] <= promised[s]
    BY <1>1 DEF TypeOK, FreshInv, Generations
  <1>6. CASE Start(r)
    <2>1. stage'[r] \in {"failed", "getVersion", "query"} /\ floor'[r] = promised[s]
      BY <1>1, <1>6 DEF Start, Move, TypeOK
    <2>2. ReadRows(r)' /\ FreshLookup(r)' /\ FreshAnswer(r)'
      BY <2>1 DEF ReadRows, FreshLookup, FreshAnswer, Storing
    <2> QED  BY <1>1, <1>2, <1>4, <1>5, <2>1, <2>2, QuietReader DEF redis
  <1>7. CASE GetEntry(r)
    <2>1. /\ stage[r] = "getEntry" /\ floor' = floor
          /\ \/ stage'[r] = "query"
             \/ /\ stage'[r] = "done" /\ rows'[r] = cache[cacheKey(r, key[r])]
                /\ rows'[r] # NoRows
      BY <1>1, <1>7 DEF GetEntry, RedisErr, Move, TypeOK, history
    <2>2. cache[cacheKey(r, key[r])] \in Results \cup {NoRows}
      BY <1>1, <2>1, KeysInCache DEF VersionInv, Keyed, TypeOK
    <2>3. FreshAnswer(r)'
      BY <2>1, <2>2, <1>4 DEF FreshInv, FreshLookup, FreshAnswer
    <2>4. ReadRows(r)' /\ FreshLookup(r)'
      BY <2>1 DEF ReadRows, FreshLookup, Storing
    <2> QED  BY <1>1, <1>2, <1>4, <1>5, <2>1, <2>3, <2>4, QuietReader DEF redis
  <1>8. CASE ExecuteReportQuery(r)
    <2>1. /\ floor' = floor
          /\ \/ stage'[r] = "failed"
             \/ stage'[r] \in {"getVersion2", "done"} /\ rows'[r] = Rows(r, db[s])
      BY <1>1, <1>8 DEF ExecuteReportQuery, Move, TypeOK, history
    <2>2. Rows(r, db[s]) \in Results /\ Rows(r, db[s]).gen = db[s]
      BY <1>5, RowsType
    <2>3. ReadRows(r)' /\ FreshAnswer(r)'
      BY <1>2, <1>5, <2>1, <2>2 DEF ReadRows, FreshAnswer, Storing
    <2>4. FreshLookup(r)'
      BY <2>1 DEF FreshLookup
    <2> QED  BY <1>1, <1>2, <1>4, <1>5, <2>1, <2>3, <2>4, QuietReader DEF redis
  <1> QED  BY <1>6, <1>7, <1>8


(* What is stored is as new as promised, or its fill raced. *)
LEMMA SetEntryFresh ==
    ASSUME VersionInv, FreshInv, [Next]_vars, NEW r \in Readers, SetEntry(r)
    PROVE  FreshInv'
  <1> DEFINE s == slugOf(r)
             k == cacheKey(r, key[r])
  <1>1. ReaderStep(r) /\ TypeOK /\ s \in Slugs
    BY SlugsAsked DEF ReaderStep, VersionInv
  <1>2. /\ UNCHANGED <<cstage, gen, db, promised, overtaken>>
        /\ UNCHANGED <<key, rows, version, floor, reset>>
        /\ \A q \in Readers \ {r} : stage'[q] = stage[q]
    BY <1>1, ReaderFrame DEF SetEntry, RedisErr, history
  <1>3. /\ stage[r] = "setEntry" /\ stage'[r] = "done"
        /\ cache' = cache \/ cache' = [cache EXCEPT ![k] = rows[r]]
    BY <1>1 DEF SetEntry, RedisErr, Move, TypeOK
  <1>4. \A q \in Readers : Raced(q)' <=> Raced(q)
    BY <1>2 DEF Raced
  <1>5. ReadRows(r) /\ GivenKey(r) /\ stage[r] \in Storing
    BY <1>3 DEF FreshInv, Storing
  <1>6. /\ rows[r] \in Results /\ rows[r].gen >= floor[r]
        /\ r \in overtaken \/ rows[r].gen = db[s]
    BY <1>5 DEF ReadRows
  <1>7. /\ promised[s] \in Nat /\ db[s] \in Nat /\ promised[s] <= db[s]
        /\ \A q \in Readers : slugOf(q) = s => floor[q] \in Nat /\ floor[q] <= promised[s]
    BY <1>1 DEF TypeOK, FreshInv, Generations
  <1>8. ASSUME NEW q \in Readers, NEW v \in Versions, cacheKey(q, v) = k
        PROVE  /\ slugOf(q) = s /\ v = key[r]
               /\ Raced(q) \/ rows[r].gen = db[s]
    <2>1. slugOf(q) = s /\ v = key[r] /\ Query[q].params = Query[r].params
      BY <1>8 DEF cacheKey
    <2>2. Query[q].slug = Query[r].slug
      BY <2>1 DEF slugOf
    <2>3. /\ Query[q] = [slug |-> Query[q].slug, params |-> Query[q].params]
          /\ Query[r] = [slug |-> Query[r].slug, params |-> Query[r].params]
      BY QueryAssumption
    <2>4. Query[q] = Query[r]
      BY <2>1, <2>2, <2>3
    <2> QED  BY <1>6, <2>1, <2>4 DEF Raced
  <1>9. ASSUME NEW q \in Readers, NEW v \in Versions
        PROVE  \/ cache'[cacheKey(q, v)] = cache[cacheKey(q, v)]
               \/ cacheKey(q, v) = k /\ cache'[cacheKey(q, v)] = rows[r]
    BY <1>1, <1>3, KeysInCache DEF TypeOK
  <1> HIDE DEF k
  <1>10. Generations'
    BY <1>2 DEF FreshInv, Generations
  <1>11. ASSUME NEW q \in Readers, NEW v \in Versions
         PROVE  CurrentEntry(q, v)'
    <2>1. CASE cache'[cacheKey(q, v)] = cache[cacheKey(q, v)]
      BY <2>1, <1>2, <1>4 DEF FreshInv, CurrentEntry
    <2>2. CASE cacheKey(q, v) = k /\ cache'[cacheKey(q, v)] = rows[r]
      <3>1. slugOf(q) = s /\ v = key[r] /\ (Raced(q) \/ rows[r].gen = db[s])
        BY <2>2, <1>8
      <3>2. s \in reset \/ v <= version[s]
        BY <1>5, <3>1 DEF GivenKey
      <3> QED  BY <2>2, <3>1, <3>2, <1>2, <1>4, <1>7 DEF CurrentEntry
    <2> QED  BY <2>1, <2>2, <1>9
  <1>12. ASSUME NEW q \in Readers
         PROVE  FreshLookup(q)'
    <2> SUFFICES ASSUME stage[q] = "getEntry", cache'[cacheKey(q, key[q])] # NoRows
                 PROVE  Raced(q) \/ cache'[cacheKey(q, key[q])].gen >= floor[q]
      BY <1>2, <1>3, <1>4 DEF FreshLookup, cacheKey
    <2>1. key[q] \in Versions
      BY DEF VersionInv, Keyed
    <2>2. CASE cache'[cacheKey(q, key[q])] = cache[cacheKey(q, key[q])]
      BY <2>2 DEF FreshInv, FreshLookup
    <2>3. CASE cacheKey(q, key[q]) = k /\ cache'[cacheKey(q, key[q])] = rows[r]
      <3>1. slugOf(q) = s /\ (Raced(q) \/ rows[r].gen = db[s])
        BY <2>1, <2>3, <1>8
      <3> QED  BY <2>3, <3>1, <1>7
    <2> QED  BY <2>1, <2>2, <2>3, <1>9
  <1>13. ASSUME NEW q \in Readers
         PROVE  ReadRows(q)' /\ GivenKey(q)' /\ FreshAnswer(q)'
    <2>1. ReadRows(q) /\ GivenKey(q) /\ FreshAnswer(q)
      BY DEF FreshInv
    <2>2. CASE q = r
      BY <2>1, <2>2, <1>2, <1>3, <1>6 DEF ReadRows, GivenKey, FreshAnswer, Storing
    <2>3. CASE q # r
      BY <2>1, <2>3, <1>2, <1>4 DEF ReadRows, GivenKey, FreshAnswer
    <2> QED  BY <2>2, <2>3
  <1> QED  BY <1>10, <1>11, <1>12, <1>13 DEF FreshInv

(* A rebuild that commits overtakes whoever holds rows of its report. *)
LEMMA CommitFresh ==
    ASSUME VersionInv, FreshInv, [Next]_vars, NEW c \in Recomputes, CommitRebuild(c)
    PROVE  FreshInv'
  <1> DEFINE s == Target[c]
  <1>1. TypeOK /\ s \in Slugs
    BY TargetAssumption DEF VersionInv
  <1>2. /\ UNCHANGED <<stage, key, rows, version, cache, promised, floor, reset>>
        /\ db' = [db EXCEPT ![s] = @ + 1] /\ gen' = [gen EXCEPT ![c] = db[s] + 1]
    BY DEF CommitRebuild, redis
  <1>3. \A r \in Readers : slugOf(r) = s /\ stage[r] \in Storing => r \in overtaken'
    BY DEF CommitRebuild, Storing
  <1>4. overtaken \subseteq overtaken' /\ \A r \in Readers : Raced(r) => Raced(r)'
    BY RacedStays DEF CommitRebuild
  <1>5. /\ \A t \in Slugs : /\ db[t] \in Nat /\ db'[t] \in Nat /\ promised[t] \in Nat
                            /\ db'[t] >= db[t] /\ (t # s => db'[t] = db[t])
        /\ db'[s] = db[s] + 1
    BY <1>1, <1>2 DEF TypeOK
  <1>6. Generations'
    <2>1. \A t \in Slugs : promised'[t] <= db'[t]
      BY <1>2, <1>5 DEF FreshInv, Generations
    <2>2. ASSUME NEW d \in Recomputes
          PROVE  gen'[d] <= db'[Target[d]]
      <3>1. Target[d] \in Slugs /\ gen[d] \in Nat /\ gen[d] <= db[Target[d]]
        BY <1>1, TargetAssumption DEF TypeOK, FreshInv, Generations
      <3>2. gen'[d] = IF d = c THEN db[s] + 1 ELSE gen[d]
        BY <1>1, <1>2 DEF TypeOK
      <3> QED  BY <3>1, <3>2, <1>1, <1>5
    <2>3. \A r \in Readers : floor'[r] <= promised'[slugOf(r)]
      BY <1>2 DEF FreshInv, Generations
    <2> QED  BY <2>1, <2>2, <2>3 DEF Generations
  <1>7. ASSUME NEW r \in Readers
        PROVE  ReadRows(r)' /\ GivenKey(r)' /\ FreshLookup(r)' /\ FreshAnswer(r)'
    <2>1. ReadRows(r) /\ GivenKey(r) /\ FreshLookup(r) /\ FreshAnswer(r) /\ slugOf(r) \in Slugs
      BY SlugsAsked DEF FreshInv
    <2>2. ReadRows(r)'
      BY <2>1, <1>2, <1>3, <1>4, <1>5 DEF ReadRows
    <2>3. GivenKey(r)'
      BY <2>1, <1>2 DEF GivenKey
    <2>4. FreshLookup(r)'
      BY <2>1, <1>2, <1>4 DEF FreshLookup
    <2>5. FreshAnswer(r)'
      BY <2>1, <1>2, <1>4 DEF FreshAnswer
    <2> QED  BY <2>2, <2>3, <2>4, <2>5
  <1>8. ASSUME NEW r \in Readers, NEW v \in Versions
        PROVE  CurrentEntry(r, v)'
    BY <1>2, <1>4 DEF FreshInv, CurrentEntry
  <1> QED  BY <1>6, <1>7, <1>8 DEF FreshInv

(* A bump promises what was committed, under a version nothing is stored   *)
(* under.                                                                  *)
LEMMA BumpFresh ==
    ASSUME VersionInv, FreshInv, [Next]_vars, NEW c \in Recomputes, BumpVersion(c)
    PROVE  FreshInv'
  <1> DEFINE s == Target[c]
  <1>1. TypeOK /\ s \in Slugs /\ promised[s] \in Nat /\ gen[c] \in Nat
    BY TargetAssumption DEF VersionInv, TypeOK
  <1>2. UNCHANGED <<stage, key, rows, gen, db, cache, floor, overtaken, reset>>
    BY DEF BumpVersion
  <1>3. \A r \in Readers : Raced(r)' <=> Raced(r)
    BY <1>2 DEF Raced
  <1>4. /\ \A t \in Slugs : /\ version[t] \in Nat /\ version'[t] \in Nat /\ version[t] <= version'[t]
                            /\ promised[t] \in Nat /\ promised'[t] \in Nat
                            /\ promised[t] <= promised'[t]
                            /\ version'[t] = version[t] => promised'[t] = promised[t]
        /\ promised'[s] \in {promised[s], gen[c]}
        /\ \A t \in Slugs \ {s} : promised'[t] = promised[t]
    <2>1. CASE version' = version /\ promised' = promised
      BY <2>1, <1>1, MaxVersionNat DEF TypeOK
    <2>2. CASE ~(version' = version /\ promised' = promised)
      <3>1. PICK n \in 1..MaxIncrements : version' = [version EXCEPT ![s] = @ + n]
        BY <2>2 DEF BumpVersion
      <3>2. promised' = [promised EXCEPT ![s] = Max({promised[s], gen[c]})]
        BY <2>2 DEF BumpVersion
      <3>3. n \in Nat /\ n >= 1
        BY IncrementsNat
      <3>4. \A t \in Slugs : /\ version[t] \in Nat
                             /\ version'[t] = IF t = s THEN version[t] + n ELSE version[t]
        BY <1>1, <3>1, MaxVersionNat DEF TypeOK
      <3>5. \A t \in Slugs :
                /\ promised[t] \in Nat
                /\ promised'[t] = IF t = s THEN Max({promised[s], gen[c]}) ELSE promised[t]
        BY <1>1, <3>2 DEF TypeOK
      <3> QED  BY <1>1, <3>3, <3>4, <3>5, MaxOfTwo
    <2> QED  BY <2>1, <2>2
  <1>5. Generations'
    <2>1. gen[c] <= db[s] /\ promised[s] <= db[s]
      BY <1>1 DEF FreshInv, Generations
    <2>2. \A t \in Slugs : promised'[t] <= db'[t]
      BY <2>1, <1>2, <1>4 DEF FreshInv, Generations
    <2>3. \A r \in Readers : slugOf(r) \in Slugs /\ floor[r] \in Nat
      BY <1>1, SlugsAsked DEF TypeOK
    <2>4. \A r \in Readers : floor'[r] <= promised'[slugOf(r)]
      BY <2>3, <1>2, <1>4 DEF FreshInv, Generations
    <2> QED  BY <2>2, <2>4, <1>2 DEF FreshInv, Generations
  <1>6. ASSUME NEW r \in Readers
        PROVE  ReadRows(r)' /\ GivenKey(r)' /\ FreshLookup(r)' /\ FreshAnswer(r)'
    <2>1. ReadRows(r)' /\ FreshLookup(r)' /\ FreshAnswer(r)'
      BY <1>2, <1>3 DEF FreshInv, ReadRows, FreshLookup, FreshAnswer
    <2>2. GivenKey(r) /\ slugOf(r) \in Slugs /\ key[r] \in Nat
      BY <1>1, SlugsAsked, MaxVersionNat DEF FreshInv, TypeOK
    <2>3. GivenKey(r)'
      BY <2>2, <1>2, <1>4 DEF GivenKey
    <2> QED  BY <2>1, <2>3
  <1>7. ASSUME NEW r \in Readers, NEW v \in Versions
        PROVE  CurrentEntry(r, v)'
    <2>1. CurrentEntry(r, v) /\ slugOf(r) \in Slugs /\ v \in Nat
      BY SlugsAsked, MaxVersionNat DEF FreshInv
    <2> QED  BY <2>1, <1>2, <1>3, <1>4 DEF CurrentEntry
  <1> QED  BY <1>5, <1>6, <1>7 DEF FreshInv

(* An entry that expires and a Redis that starts empty take entries away;  *)
(* with them goes the version of every report that had one.                *)
LEMMA LossFresh ==
    ASSUME VersionInv, FreshInv, [Next]_vars, Flush \/ \E k \in CacheKeys : EntryExpire(k)
    PROVE  FreshInv'
  <1>1. /\ UNCHANGED <<stage, key, rows, gen, db, promised, floor, overtaken>>
        /\ TypeOK
    BY DEF Flush, EntryExpire, history, VersionInv
  <1>2. \A r \in Readers, v \in Versions :
            \/ cache'[cacheKey(r, v)] = cache[cacheKey(r, v)]
            \/ cache'[cacheKey(r, v)] = NoRows
    BY <1>1, KeysInCache DEF Flush, EntryExpire, TypeOK
  <1>3. \A s \in Slugs : s \in reset' \/ (s \notin reset /\ version'[s] = version[s])
    BY <1>1, MaxVersionNat DEF Flush, EntryExpire, history, TypeOK
  <1>4. \A r \in Readers : Raced(r) => Raced(r)'
    BY RacedStays
  <1>5. Generations'
    BY <1>1 DEF FreshInv, Generations
  <1>6. ASSUME NEW r \in Readers
        PROVE  ReadRows(r)' /\ GivenKey(r)' /\ FreshLookup(r)' /\ FreshAnswer(r)'
    <2>1. ReadRows(r)' /\ FreshAnswer(r)'
      BY <1>1, <1>4 DEF FreshInv, ReadRows, FreshAnswer
    <2>2. GivenKey(r)'
      BY <1>1, <1>3, SlugsAsked DEF FreshInv, GivenKey
    <2>3. stage[r] = "getEntry" => key[r] \in Versions
      BY DEF VersionInv, Keyed
    <2>4. FreshLookup(r)'
      BY <2>3, <1>1, <1>2, <1>4 DEF FreshInv, FreshLookup
    <2> QED  BY <2>1, <2>2, <2>4
  <1>7. ASSUME NEW r \in Readers, NEW v \in Versions
        PROVE  CurrentEntry(r, v)'
    <2>1. CurrentEntry(r, v) /\ slugOf(r) \in Slugs
      BY SlugsAsked DEF FreshInv
    <2> QED  BY <2>1, <1>1, <1>2, <1>3, <1>4 DEF CurrentEntry
  <1> QED  BY <1>5, <1>6, <1>7 DEF FreshInv

LEMMA FreshStep == VersionInv /\ FreshInv /\ [Next]_vars => FreshInv'
  <1> SUFFICES ASSUME VersionInv, FreshInv, [Next]_vars
               PROVE  FreshInv'
    OBVIOUS
  <1>1. ASSUME UNCHANGED vars
        PROVE  FreshInv'
    BY <1>1 DEF FreshInv, Generations, ReadRows, GivenKey, FreshLookup, FreshAnswer,
                CurrentEntry, Raced, vars, redis, history
  <1> QED
    BY <1>1, GetVersionFresh, InitVersionFresh, ReadingFresh, SetEntryFresh, CommitFresh,
       BumpFresh, LossFresh DEF Next, ReaderStep, Quiescent

(* A request that starts after a rebuild's version bump is answered from   *)
(* older snapshots only if a fill for the same rows raced with a rebuild   *)
(* or the version key went back.                                           *)
THEOREM StaleNeedsRaceCorrect == Spec => []StaleNeedsRace
  <1>1. Init => FreshInv
    <2> SUFFICES ASSUME Init PROVE FreshInv
      OBVIOUS
    <2>1. Generations
      BY SlugsAsked, TargetAssumption DEF Init, Generations
    <2>2. \A r \in Readers : ReadRows(r) /\ GivenKey(r) /\ FreshLookup(r) /\ FreshAnswer(r)
      BY SlugsAsked DEF Init, ReadRows, GivenKey, FreshLookup, FreshAnswer, Storing
    <2>3. \A r \in Readers, v \in Versions : CurrentEntry(r, v)
      BY KeysInCache DEF Init, CurrentEntry
    <2> QED  BY <2>1, <2>2, <2>3 DEF FreshInv
  <1>2. VersionInv /\ FreshInv => StaleNeedsRace
    <2> SUFFICES ASSUME VersionInv, FreshInv, NEW r \in Readers, stage[r] = "done", ~Raced(r)
                 PROVE  ~(rows[r].gen < floor[r])
      BY DEF StaleNeedsRace
    <2>1. rows[r] \in Results /\ rows[r].gen >= floor[r]
      BY DEF FreshInv, FreshAnswer
    <2>2. floor[r] \in Nat
      BY DEF VersionInv, TypeOK
    <2> QED  BY <2>1, <2>2, GenNat
  <1> QED  BY <1>1, <1>2, VersionCorrect, FreshStep, PTL DEF Spec
=============================================================================
