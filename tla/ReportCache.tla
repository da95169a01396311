---------------------------- MODULE ReportCache ----------------------------
(***************************************************************************)
(* The read path: ReportService.RunReport, the versioned result cache in   *)
(* Redis, and the recompute workers that commit a new snapshot generation  *)
(* and then retire the cached one (internal/application/report_service.go, *)
(* internal/infrastructure/redis/store.go).                                *)
(*                                                                         *)
(* The snapshots of a report are abstracted to their generation, the       *)
(* number of rebuilds committed for it.  Every call to Redis is one step:  *)
(* GetVersion is two when the key is missing, and RunReport calls it once  *)
(* to look up and once more to store.                                      *)
(***************************************************************************)
EXTENDS Integers, FiniteSets, FiniteSetsExt

CONSTANTS
    Readers,        \* the GET /reports/{slug}/run requests
    Query,          \* reader -> [slug, params]
    Recomputes,     \* the rebuilds that will commit
    Target,         \* rebuild -> the report it rebuilds
    CacheTTL,       \* report -> cache_ttl_seconds of its definition
    MaxRangeDays,   \* MAX_REPORT_RANGE_DAYS
    Faults,         \* the faults that may happen, a subset of CacheFaults
    NoRows          \* a missing cache entry, no result yet

(* "redis":    a call to Redis errs, with or without its effect *)
(* "postgres": a query errs                                     *)
(* "flush":    Redis loses its data (a restart, FlushAll)       *)
CacheFaults == {"redis", "postgres", "flush"}

Slugs == DOMAIN CacheTTL

ParamFields == {"window", "from", "to", "breakdown", "limit", "offset",
                "source", "status"}

ASSUME QueryAssumption ==
    \A r \in Readers : /\ Query[r] = [slug |-> Query[r].slug, params |-> Query[r].params]
                       /\ Query[r].slug \in Slugs
                       /\ DOMAIN Query[r].params = ParamFields
ASSUME TargetAssumption == Target \in [Recomputes -> Slugs]
ASSUME CacheFaultsAssumption == Faults \subseteq CacheFaults
ASSUME TTLAssumption == \A s \in Slugs : CacheTTL[s] \in Nat
ASSUME RecomputesAssumption == IsFiniteSet(Recomputes)

(* How often one BumpVersion may increment; bounded by one retry. *)
MaxIncrements == IF "redis" \in Faults THEN 2 ELSE 1

(* The version starts at 1, or at nothing, and grows with each rebuild. *)
MaxVersion == MaxIncrements * Cardinality(Recomputes) + 1
Versions == 1..MaxVersion

VARIABLES
    stage,      \* reader -> the next call it makes
    key,        \* reader -> the version in the cache key it works with
    rows,       \* reader -> what it read or will answer
    cstage,     \* rebuild -> "rebuild", "bump" or "done"
    gen,        \* rebuild -> the generation it committed, 0 before
    db,         \* report -> generation of its snapshots
    version,    \* Redis: report -> its version key, 0 if missing
    cache,      \* Redis: cache key -> rows
    promised,   \* history: report -> newest generation whose bump returned
    floor,      \* history: reader -> promised when it started
    overtaken,  \* history: readers whose rows were replaced before they stored them
    reset       \* history: reports whose version key went back

redis == <<version, cache>>
history == <<promised, floor, overtaken, reset>>
vars == <<stage, key, rows, cstage, gen, db, redis, history>>

ReaderStages == {"start", "getVersion", "initVersion", "getEntry", "query",
                 "getVersion2", "initVersion2", "setEntry", "done", "failed"}

slugOf(r) == Query[r].slug
-----------------------------------------------------------------------------
(* Mutant: limit and offset left out of the hashed parameters. *)
cacheKeyNoPage(r, v) ==
    <<slugOf(r), v, [Query[r].params EXCEPT !.limit = 1, !.offset = 0]>>

(* The key: slug, version and a hash of every parameter that shapes the rows. *)
cacheKey(r, v) == <<slugOf(r), v, Query[r].params>>

validateRunParams(r) ==
    LET p == Query[r].params IN
    /\ p.window \in {"day", "week"}
    /\ p.from <= p.to
    /\ p.to - p.from + 1 <= MaxRangeDays
    /\ p.breakdown \in {"", "source", "status", "period"}
    /\ p.limit \in 1..100
    /\ p.offset >= 0

CacheKeys == {cacheKey(r, v) : r \in Readers, v \in Versions}

(* The rows a query of r returns from snapshots of generation g. *)
Rows(r, g) == [gen |-> g, slug |-> slugOf(r), params |-> Query[r].params]

Move(r, next) == stage' = [stage EXCEPT ![r] = next]

(* A Redis call errs without effect; RunReport goes on without the cache. *)
RedisErr(r, next) ==
    /\ "redis" \in Faults
    /\ Move(r, next)
    /\ UNCHANGED <<key, version, cache>>

-----------------------------------------------------------------------------
(* RunReport *)

(* The catalog lookup and validation.  A report without a TTL is never     *)
(* cached.                                                                 *)
Start(r) ==
    /\ stage[r] = "start"
    /\ \/ /\ "postgres" \in Faults \/ ~validateRunParams(r)
          /\ Move(r, "failed")
       \/ /\ validateRunParams(r)
          /\ Move(r, IF CacheTTL[slugOf(r)] > 0 THEN "getVersion" ELSE "query")
    /\ floor' = [floor EXCEPT ![r] = promised[slugOf(r)]]
    /\ UNCHANGED <<key, rows, cstage, gen, db, redis, promised, overtaken, reset>>

(* GetVersion is called by the lookup and again by the store: what follows *)
(* it when it returns a version, and when it errs.                         *)
WithVersion(r) == IF stage[r] \in {"getVersion", "initVersion"} THEN "getEntry" ELSE "setEntry"
WithoutVersion(r) == IF stage[r] \in {"getVersion", "initVersion"} THEN "query" ELSE "done"

(* GetVersion's GET. *)
GetVersion(r) ==
    LET current == version[slugOf(r)] IN
    /\ stage[r] \in {"getVersion", "getVersion2"}
    /\ \/ RedisErr(r, WithoutVersion(r))
       \/ /\ current = 0
          /\ Move(r, IF stage[r] = "getVersion" THEN "initVersion" ELSE "initVersion2")
          /\ UNCHANGED <<key, redis>>
       \/ /\ current # 0
          /\ Move(r, WithVersion(r))
          /\ key' = [key EXCEPT ![r] = current]
          /\ UNCHANGED redis
    /\ UNCHANGED <<rows, cstage, gen, db, history>>

(* GetVersion's SET "1" after a miss.  It overwrites what came meanwhile.  *)
InitVersion(r) ==
    LET s == slugOf(r) IN
    /\ stage[r] \in {"initVersion", "initVersion2"}
    /\ \/ RedisErr(r, WithoutVersion(r)) /\ UNCHANGED reset
       \/ /\ version' = [version EXCEPT ![s] = 1]
          /\ reset' = IF version[s] > 1 THEN reset \cup {s} ELSE reset
          /\ \/ Move(r, WithVersion(r)) /\ key' = [key EXCEPT ![r] = 1]
             \/ "redis" \in Faults /\ Move(r, WithoutVersion(r)) /\ UNCHANGED key
          /\ UNCHANGED cache
    /\ UNCHANGED <<rows, cstage, gen, db, promised, floor, overtaken>>

(* The lookup: a hit is the answer. *)
GetEntry(r) ==
    /\ stage[r] = "getEntry"
    /\ \/ RedisErr(r, "query") /\ UNCHANGED rows
       \/ /\ LET hit == cache[cacheKey(r, key[r])] IN
             IF hit = NoRows
             THEN Move(r, "query") /\ UNCHANGED rows
             ELSE Move(r, "done") /\ rows' = [rows EXCEPT ![r] = hit]
          /\ UNCHANGED <<key, redis>>
    /\ UNCHANGED <<cstage, gen, db, history>>

(* executeReportQuery, one statement on the snapshots. *)
ExecuteReportQuery(r) ==
    /\ stage[r] = "query"
    /\ \/ /\ "postgres" \in Faults
          /\ Move(r, "failed")
          /\ UNCHANGED rows
       \/ /\ rows' = [rows EXCEPT ![r] = Rows(r, db[slugOf(r)])]
          /\ Move(r, IF CacheTTL[slugOf(r)] > 0 THEN "getVersion2" ELSE "done")
    /\ UNCHANGED <<key, cstage, gen, db, redis, history>>

(* storeCachedResult's SET; an error is logged and the rows are returned. *)
SetEntry(r) ==
    /\ stage[r] = "setEntry"
    /\ \/ RedisErr(r, "done")
       \/ /\ cache' = [cache EXCEPT ![cacheKey(r, key[r])] = rows[r]]
          /\ Move(r, "done")
          /\ UNCHANGED <<key, version>>
    /\ UNCHANGED <<rows, cstage, gen, db, history>>

-----------------------------------------------------------------------------
(* The recompute worker, as far as readers can see it *)

(* A rebuild commits. *)
CommitRebuild(c) ==
    LET s == Target[c] IN
    /\ cstage[c] = "rebuild"
    /\ cstage' = [cstage EXCEPT ![c] = "bump"]
    /\ db' = [db EXCEPT ![s] = @ + 1]
    /\ gen' = [gen EXCEPT ![c] = db[s] + 1]
    /\ overtaken' = overtaken \cup
          {r \in Readers : /\ slugOf(r) = s
                           /\ stage[r] \in {"getVersion2", "initVersion2", "setEntry"}}
    /\ UNCHANGED <<stage, key, rows, redis, promised, floor, reset>>

(* Mutant: the version is a timestamp. *)
BumpToTimestamp(c) ==
    /\ cstage[c] = "bump"
    /\ cstage' = [cstage EXCEPT ![c] = "done"]
    /\ version' = [version EXCEPT ![Target[c]] = MaxVersion + 1]
    /\ UNCHANGED <<stage, key, rows, gen, db, cache, history>>

(* Mutant: the key of another report is incremented. *)
BumpWrongKey(c) ==
    /\ cstage[c] = "bump"
    /\ cstage' = [cstage EXCEPT ![c] = "done"]
    /\ version' = [s \in Slugs |-> IF s = Target[c] THEN version[s] ELSE version[s] + 1]
    /\ promised' = [promised EXCEPT ![Target[c]] = Max({@, gen[c]})]
    /\ UNCHANGED <<stage, key, rows, gen, db, cache, floor, overtaken, reset>>

(* INCR of the version key, which counts a missing key as 0.  An error is  *)
(* logged and the old generation stays current; a lost answer is retried   *)
(* by the client and increments again.                                     *)
BumpVersion(c) ==
    LET s == Target[c] IN
    /\ cstage[c] = "bump"
    /\ cstage' = [cstage EXCEPT ![c] = "done"]
    /\ \/ /\ "redis" \in Faults
          /\ UNCHANGED <<version, promised>>
       \/ /\ \E n \in 1..MaxIncrements :
                version' = [version EXCEPT ![s] = @ + n]
          /\ promised' = [promised EXCEPT ![s] = Max({@, gen[c]})]
    /\ UNCHANGED <<stage, key, rows, gen, db, cache, floor, overtaken, reset>>

-----------------------------------------------------------------------------
(* Redis *)

(* An entry reaches its TTL. *)
EntryExpire(k) ==
    /\ cache[k] # NoRows
    /\ cache' = [cache EXCEPT ![k] = NoRows]
    /\ UNCHANGED <<stage, key, rows, cstage, gen, db, version, history>>

(* Redis starts empty again. *)
Flush ==
    /\ "flush" \in Faults
    /\ version' = [s \in Slugs |-> 0]
    /\ cache' = [k \in CacheKeys |-> NoRows]
    /\ reset' = reset \cup {s \in Slugs : version[s] > 0}
    /\ UNCHANGED <<stage, key, rows, cstage, gen, db, promised, floor, overtaken>>

(* Every request was answered and every rebuild is over. *)
Quiescent ==
    /\ \A r \in Readers : stage[r] \in {"done", "failed"}
    /\ \A c \in Recomputes : cstage[c] = "done"
    /\ UNCHANGED vars

-----------------------------------------------------------------------------
Init ==
    /\ stage = [r \in Readers |-> "start"]
    /\ key = [r \in Readers |-> 0]
    /\ rows = [r \in Readers |-> NoRows]
    /\ cstage = [c \in Recomputes |-> "rebuild"]
    /\ gen = [c \in Recomputes |-> 0]
    /\ db = [s \in Slugs |-> 0]
    /\ version = [s \in Slugs |-> 0]
    /\ cache = [k \in CacheKeys |-> NoRows]
    /\ promised = [s \in Slugs |-> 0]
    /\ floor = [r \in Readers |-> 0]
    /\ overtaken = {}
    /\ reset = {}

ReaderStep(r) ==
    \/ Start(r) \/ GetVersion(r) \/ InitVersion(r) \/ GetEntry(r)
    \/ ExecuteReportQuery(r) \/ SetEntry(r)

Next ==
    \/ \E r \in Readers : ReaderStep(r)
    \/ \E c \in Recomputes : CommitRebuild(c) \/ BumpVersion(c)
    \/ \E k \in CacheKeys : EntryExpire(k)
    \/ Flush
    \/ Quiescent

Spec == Init /\ [][Next]_vars

-----------------------------------------------------------------------------
(* Properties *)

Results == [gen : Nat, slug : Slugs, params : {Query[r].params : r \in Readers}]

(* The state stays within its types. *)
TypeOK ==
    /\ stage \in [Readers -> ReaderStages]
    /\ key \in [Readers -> 0..MaxVersion]
    /\ rows \in [Readers -> Results \cup {NoRows}]
    /\ cstage \in [Recomputes -> {"rebuild", "bump", "done"}]
    /\ gen \in [Recomputes -> Nat]
    /\ db \in [Slugs -> Nat]
    /\ version \in [Slugs -> 0..MaxVersion]
    /\ cache \in [CacheKeys -> Results \cup {NoRows}]
    /\ promised \in [Slugs -> Nat]
    /\ floor \in [Readers -> Nat]
    /\ overtaken \subseteq Readers
    /\ reset \subseteq Slugs

(* A request is only ever answered, from the table or from the cache, with *)
(* the rows of its own report and its own parameters, page included.       *)
RightRows ==
    \A r \in Readers :
        rows[r] # NoRows => /\ rows[r].slug = slugOf(r)
                            /\ rows[r].params = Query[r].params

(* Some request for the same rows was overtaken by a rebuild between its   *)
(* query and its store, or the version key went back.                      *)
Raced(r) ==
    \/ slugOf(r) \in reset
    \/ \E q \in overtaken : Query[q] = Query[r]

(* A request that starts after a rebuild's version bump is answered from   *)
(* older snapshots only if a fill raced with that rebuild or the version   *)
(* key went back: with neither, the bump retires every cached generation.  *)
StaleNeedsRace ==
    \A r \in Readers :
        stage[r] = "done" /\ rows[r].gen < floor[r] => Raced(r)

-----------------------------------------------------------------------------
(* What the documentation says of the code and the code does not do *)

(* README.md:145: the increment retires old cache generations, so that a   *)
(* request that starts after it sees the rebuild.                          *)
RetiredNotServed ==
    \A r \in Readers : stage[r] = "done" => rows[r].gen >= floor[r]

(* README.md:145: completion increments the version, which retires old     *)
(* generations: the version never returns to one it left.                  *)
VersionGrows == [][\A s \in Slugs : version'[s] >= version[s]]_vars
=============================================================================
