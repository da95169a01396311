------------------------- MODULE RecomputeService -------------------------
(***************************************************************************)
(* The recompute path of the API process: Trigger, the bounded in-process  *)
(* queue, the worker goroutines, the Redis scope lock and the rows the     *)
(* path writes in PostgreSQL (internal/application/recompute_service.go).  *)
(*                                                                         *)
(* A job is one POST /api/v1/recomputations.  It stands for the request,   *)
(* for the run row created for it and for its lock token, which are made   *)
(* one per request.  pc[j] names the next call the goroutine that carries  *)
(* job j will make; every call to Redis or PostgreSQL is one step.         *)
(***************************************************************************)
EXTENDS Integers, Sequences, FiniteSets

CONSTANTS
    Jobs,           \* the requests that will be made
    Request,        \* job -> [slug, window, from, to], dates as day numbers
    Catalog,        \* slugs of the active report definitions
    MaxRangeDays,   \* MAX_REPORT_RANGE_DAYS
    Workers,        \* worker goroutines (RECOMPUTE_WORKERS)
    QueueSize,      \* capacity of the channel (RECOMPUTE_QUEUE_SIZE)
    Faults,         \* the faults that may happen, a subset of FaultKinds
    NoJob,          \* "nobody": a free lock, an idle worker
    Exited          \* a worker goroutine that returned

(* "call":  a call errs without effect, or has its effect and still errs   *)
(* "ctx":   a request's or a job's context ends (disconnect, timeout)      *)
(* "lapse": a lock's TTL runs out while its owner is still at work         *)
(* "crash": the process dies and is restarted                              *)
(* "stop":  SIGTERM                                                        *)
FaultKinds == {"call", "ctx", "lapse", "crash", "stop"}

ASSUME RequestAssumption ==
    \A j \in Jobs : /\ DOMAIN Request[j] = {"slug", "window", "from", "to"}
                    /\ Request[j].from \in Int
                    /\ Request[j].to \in Int
ASSUME ConfigAssumption == /\ QueueSize \in Nat \ {0}
                           /\ MaxRangeDays \in Nat \ {0}
                           /\ Workers # {}
ASSUME FaultsAssumption == Faults \subseteq FaultKinds
ASSUME NullAssumption == /\ NoJob \notin Jobs
                         /\ Exited \notin Jobs
                         /\ NoJob # Exited

VARIABLES
    pc,         \* job -> the next call of the goroutine carrying it
    expired,    \* job -> has the context it passes on ended under it?
    resp,       \* job -> what Trigger returned
    queue,      \* the channel of jobs
    worker,     \* worker -> the job it processes, NoJob or Exited
    stopping,   \* was SIGTERM received by this process?
    lock,       \* Redis: lock key -> the token stored under it
    lapsed,     \* history: tokens that vanished from Redis by TTL
    runs,       \* recompute_runs: job -> status
    committed,  \* jobs whose snapshot transaction committed
    bumped,     \* jobs that incremented their report's cache version
    audits      \* audit_entries, as <<action, job>>

vars == <<pc, expired, resp, queue, worker, stopping, lock, lapsed, runs,
          committed, bumped, audits>>

TriggerStages == {"acquire", "create", "undoCreate", "auditTriggered",
                  "enqueue", "markFull", "undoFull"}
WorkerStages == {"markRunning", "rebuild", "markFailed", "auditFailed",
                 "markCompleted", "bump", "auditCompleted", "release"}
Stages == {"idle", "queued", "done", "gone"} \cup TriggerStages \cup WorkerStages
Responses == {"none", "accepted", "invalid", "conflict", "unavailable", "error"}
RunStatus == {"absent", "pending", "running", "completed", "failed"}
AuditActions == {"recompute.triggered", "recompute.completed", "recompute.failed"}

-----------------------------------------------------------------------------
(* The request *)

(* The checks Trigger makes before it touches the catalog. *)
ValidRequest(j) ==
    /\ Request[j].window \in {"day", "week"}
    /\ Request[j].from <= Request[j].to
    /\ Request[j].to - Request[j].from + 1 <= MaxRangeDays

(* The lock key: equal for two requests iff all four fields are. *)
lockKey(j) ==
    <<Request[j].slug, Request[j].window, Request[j].from, Request[j].to>>

LockKeys == {lockKey(j) : j \in Jobs}

-----------------------------------------------------------------------------
(* Calls to the stores *)

(* How a PostgreSQL call on j's context may end.  On a done context it errs *)
(* before it is sent.  "err": nothing happened; "lost": it happened and the *)
(* answer was lost; "late": it happened, and the context ended under it.    *)
PgOutcomes(j) == {o \in {"ok", "err", "lost", "late"} :
    \/ o = "ok"   /\ ~expired[j]
    \/ o = "err"  /\ (expired[j] \/ "call" \in Faults)
    \/ o = "lost" /\ ~expired[j] /\ "call" \in Faults
    \/ o = "late" /\ ~expired[j] /\ "ctx" \in Faults}

(* go-redis looks at the context only before it sends. *)
RedisOutcomes(j) == PgOutcomes(j) \ {"late"}

(* The rebuild may also fail on its own: a unique violation, a deadlock. *)
RebuildOutcomes(j) == PgOutcomes(j) \cup {"err"}

Applied(o) == o # "err"

(* Mutant: SET without NX. *)
SetOverwrites(j) == TRUE

(* SET key token NX: does it set the key? *)
SetNX(j) == lock[lockKey(j)] = NoJob

(* The content of Redis after it. *)
TryAcquire(j) == IF SetNX(j) THEN [lock EXCEPT ![lockKey(j)] = j] ELSE lock

(* Mutant: DEL without looking at the token. *)
ReleaseDeletes(j) == [lock EXCEPT ![lockKey(j)] = NoJob]

(* releaseLockScript: delete the key if it still holds this token. *)
Release(j) ==
    IF lock[lockKey(j)] = j THEN [lock EXCEPT ![lockKey(j)] = NoJob] ELSE lock

(* A write of j's run row, when the call has its effect.  The UPDATEs do   *)
(* not look at the status they replace.                                    *)
SetStatus(j, o, status) ==
    runs' = IF Applied(o) THEN [runs EXCEPT ![j] = status] ELSE runs

(* The INSERT of the run row. *)
InsertRun(j, o) == SetStatus(j, o, "pending")

(* CreateEntry, when the call has its effect. *)
CreateEntry(j, o, action) ==
    audits' = IF Applied(o) THEN audits \cup {<<action, j>>} ELSE audits

(* The goroutine carrying j moves on.  A job in the channel has left the   *)
(* request's context behind; at the end it stays known whether the context *)
(* of the last goroutine lasted.                                           *)
Goto(j, next, o) ==
    /\ pc' = [pc EXCEPT ![j] = next]
    /\ expired' = [expired EXCEPT ![j] = next # "queued" /\ (@ \/ o = "late")]

(* Trigger returns. *)
Return(j, answer) ==
    /\ Goto(j, "done", "ok")
    /\ resp' = [resp EXCEPT ![j] = answer]
-----------------------------------------------------------------------------
(* Trigger *)

(* Validation and the catalog lookup. *)
Trigger(j) ==
    /\ pc[j] = "idle"
    /\ ~stopping
    /\ \/ /\ ~ValidRequest(j) \/ Request[j].slug \notin Catalog
          /\ Return(j, "invalid")
       \/ /\ ValidRequest(j)
          /\ \E o \in PgOutcomes(j) \ {"ok"} : Return(j, "error")
       \/ /\ ValidRequest(j) /\ Request[j].slug \in Catalog
          /\ "ok" \in PgOutcomes(j)
          /\ Goto(j, "acquire", "ok")
          /\ UNCHANGED resp
    /\ UNCHANGED <<queue, worker, stopping, lock, lapsed, runs, committed,
                   bumped, audits>>

(* The lock call.  A lost answer makes the client retry: the retry finds   *)
(* the key set, by this very request, or fails as well.                    *)
AcquireLock(j) ==
    /\ pc[j] = "acquire"
    /\ \E o \in RedisOutcomes(j) :
          /\ lock' = IF Applied(o) THEN TryAcquire(j) ELSE lock
          /\ \/ /\ o = "ok" /\ SetNX(j)
                /\ Goto(j, "create", o)
                /\ UNCHANGED resp
             \/ /\ o = "lost" \/ (o = "ok" /\ ~SetNX(j))
                /\ Return(j, "conflict")
             \/ /\ o # "ok"
                /\ Return(j, "error")
    /\ UNCHANGED <<queue, worker, stopping, lapsed, runs, committed, bumped, audits>>

CreateRun(j) ==
    /\ pc[j] = "create"
    /\ \E o \in PgOutcomes(j) :
          /\ InsertRun(j, o)
          /\ Goto(j, IF o = "ok" THEN "auditTriggered" ELSE "undoCreate", o)
    /\ UNCHANGED <<resp, queue, worker, stopping, lock, lapsed, committed,
                   bumped, audits>>

AuditTriggered(j) ==
    /\ pc[j] = "auditTriggered"
    /\ \E o \in PgOutcomes(j) :
          /\ CreateEntry(j, o, "recompute.triggered")
          /\ Goto(j, "enqueue", o)
    /\ UNCHANGED <<resp, queue, worker, stopping, lock, lapsed, runs,
                   committed, bumped>>

(* Mutant: the job is sent before the capacity is checked. *)
EnqueueFirst(j) ==
    /\ pc[j] = "enqueue"
    /\ queue' = Append(queue, j)
    /\ IF Len(queue) < QueueSize
       THEN /\ Goto(j, "queued", "ok")
            /\ resp' = [resp EXCEPT ![j] = "accepted"]
       ELSE Goto(j, "markFull", "ok") /\ UNCHANGED resp
    /\ UNCHANGED <<worker, stopping, lock, lapsed, runs, committed, bumped, audits>>

(* The non-blocking send on the channel. *)
Enqueue(j) ==
    /\ pc[j] = "enqueue"
    /\ IF Len(queue) < QueueSize
       THEN /\ queue' = Append(queue, j)
            /\ Goto(j, "queued", "ok")
            /\ resp' = [resp EXCEPT ![j] = "accepted"]
       ELSE /\ Goto(j, "markFull", "ok")
            /\ UNCHANGED <<queue, resp>>
    /\ UNCHANGED <<worker, stopping, lock, lapsed, runs, committed, bumped, audits>>

(* Mutant: a status the CHECK constraint does not know. *)
MarkFullUnknown(j) ==
    /\ pc[j] = "markFull"
    /\ \E o \in PgOutcomes(j) : SetStatus(j, o, "rejected") /\ Goto(j, "undoFull", o)
    /\ UNCHANGED <<resp, queue, worker, stopping, lock, lapsed, committed,
                   bumped, audits>>

(* Mutant: the refusal forgets to release. *)
MarkFullKeepsLock(j) ==
    /\ pc[j] = "markFull"
    /\ \E o \in PgOutcomes(j) : SetStatus(j, o, "failed")
    /\ Return(j, "unavailable")
    /\ UNCHANGED <<queue, worker, stopping, lock, lapsed, committed, bumped, audits>>

MarkFull(j) ==
    /\ pc[j] = "markFull"
    /\ \E o \in PgOutcomes(j) :
          /\ SetStatus(j, o, "failed")
          /\ Goto(j, "undoFull", o)
    /\ UNCHANGED <<resp, queue, worker, stopping, lock, lapsed, committed,
                   bumped, audits>>

(* The release before a refusal: its own error is ignored. *)
Undo(j) ==
    /\ pc[j] \in {"undoCreate", "undoFull"}
    /\ \E o \in RedisOutcomes(j) : lock' = IF Applied(o) THEN Release(j) ELSE lock
    /\ Return(j, IF pc[j] = "undoFull" THEN "unavailable" ELSE "error")
    /\ UNCHANGED <<queue, worker, stopping, lapsed, runs, committed, bumped, audits>>

-----------------------------------------------------------------------------
(* The workers *)

(* Mutant: the job is read and not removed. *)
DequeuePeeks(w) ==
    /\ worker[w] = NoJob
    /\ queue # <<>>
    /\ worker' = [worker EXCEPT ![w] = Head(queue)]
    /\ pc' = [pc EXCEPT ![Head(queue)] = "markRunning"]
    /\ expired' = [expired EXCEPT ![Head(queue)] = stopping]
    /\ UNCHANGED <<resp, queue, stopping, lock, lapsed, runs, committed, bumped, audits>>

(* A worker receives a job; processJob derives its context from the one    *)
(* SIGTERM cancels.                                                        *)
Dequeue(w) ==
    /\ worker[w] = NoJob
    /\ queue # <<>>
    /\ worker' = [worker EXCEPT ![w] = Head(queue)]
    /\ queue' = Tail(queue)
    /\ pc' = [pc EXCEPT ![Head(queue)] = "markRunning"]
    /\ expired' = [expired EXCEPT ![Head(queue)] = stopping]
    /\ UNCHANGED <<resp, stopping, lock, lapsed, runs, committed, bumped, audits>>

(* With its context done the loop may return instead. *)
WorkerExit(w) ==
    /\ worker[w] = NoJob
    /\ stopping
    /\ worker' = [worker EXCEPT ![w] = Exited]
    /\ UNCHANGED <<pc, expired, resp, queue, stopping, lock, lapsed, runs,
                   committed, bumped, audits>>

(* Mutant: an error is retried until it works. *)
MarkRunRunningRetries(j) ==
    /\ pc[j] = "markRunning"
    /\ \E o \in PgOutcomes(j) :
          /\ SetStatus(j, o, "running")
          /\ Goto(j, IF o = "ok" THEN "rebuild" ELSE "markRunning", o)
    /\ UNCHANGED <<resp, queue, worker, stopping, lock, lapsed, committed,
                   bumped, audits>>

(* Mutant: an error is ignored. *)
MarkRunRunningIgnored(j) ==
    /\ pc[j] = "markRunning"
    /\ \E o \in PgOutcomes(j) :
          /\ SetStatus(j, o, "running")
          /\ Goto(j, "rebuild", o)
    /\ UNCHANGED <<resp, queue, worker, stopping, lock, lapsed, committed,
                   bumped, audits>>

MarkRunRunning(j) ==
    /\ pc[j] = "markRunning"
    /\ \E o \in PgOutcomes(j) :
          /\ SetStatus(j, o, "running")
          /\ Goto(j, IF o = "ok" THEN "rebuild" ELSE "release", o)
    /\ UNCHANGED <<resp, queue, worker, stopping, lock, lapsed, committed,
                   bumped, audits>>

(* Mutant: the rebuild's error is ignored. *)
RecomputeIgnoresError(j) ==
    /\ pc[j] = "rebuild"
    /\ \E o \in RebuildOutcomes(j) :
          /\ committed' = IF Applied(o) THEN committed \cup {j} ELSE committed
          /\ Goto(j, "markCompleted", o)
    /\ UNCHANGED <<resp, queue, worker, stopping, lock, lapsed, runs, bumped, audits>>

(* Mutant: on an error the run is not marked failed. *)
RecomputeDropsError(j) ==
    /\ pc[j] = "rebuild"
    /\ \E o \in RebuildOutcomes(j) :
          /\ committed' = IF Applied(o) THEN committed \cup {j} ELSE committed
          /\ Goto(j, IF o = "ok" THEN "markCompleted" ELSE "release", o)
    /\ UNCHANGED <<resp, queue, worker, stopping, lock, lapsed, runs, bumped, audits>>

(* The snapshot transaction, as one step: see SnapshotStore for its inside. *)
RecomputeReport(j) ==
    /\ pc[j] = "rebuild"
    /\ \E o \in RebuildOutcomes(j) :
          /\ committed' = IF Applied(o) THEN committed \cup {j} ELSE committed
          /\ Goto(j, IF o = "ok" THEN "markCompleted" ELSE "markFailed", o)
    /\ UNCHANGED <<resp, queue, worker, stopping, lock, lapsed, runs, bumped, audits>>

MarkRunFailed(j) ==
    /\ pc[j] = "markFailed"
    /\ \E o \in PgOutcomes(j) :
          /\ SetStatus(j, o, "failed")
          /\ Goto(j, "auditFailed", o)
    /\ UNCHANGED <<resp, queue, worker, stopping, lock, lapsed, committed,
                   bumped, audits>>

AuditFailed(j) ==
    /\ pc[j] = "auditFailed"
    /\ \E o \in PgOutcomes(j) :
          /\ CreateEntry(j, o, "recompute.failed")
          /\ Goto(j, "release", o)
    /\ UNCHANGED <<resp, queue, worker, stopping, lock, lapsed, runs,
                   committed, bumped>>

(* Mutant: a finalization error takes the failure path. *)
MarkCompletedOrFailed(j) ==
    /\ pc[j] = "markCompleted"
    /\ \E o \in PgOutcomes(j) :
          /\ SetStatus(j, o, "completed")
          /\ Goto(j, IF o = "ok" THEN "bump" ELSE "markFailed", o)
    /\ UNCHANGED <<resp, queue, worker, stopping, lock, lapsed, committed,
                   bumped, audits>>

(* Mutant: the cache version is not bumped. *)
MarkCompletedNoBump(j) ==
    /\ pc[j] = "markCompleted"
    /\ \E o \in PgOutcomes(j) :
          /\ SetStatus(j, o, "completed")
          /\ Goto(j, "auditCompleted", o)
    /\ UNCHANGED <<resp, queue, worker, stopping, lock, lapsed, committed,
                   bumped, audits>>

(* An error of this call is logged and nothing else. *)
MarkRunCompleted(j) ==
    /\ pc[j] = "markCompleted"
    /\ \E o \in PgOutcomes(j) :
          /\ SetStatus(j, o, "completed")
          /\ Goto(j, "bump", o)
    /\ UNCHANGED <<resp, queue, worker, stopping, lock, lapsed, committed,
                   bumped, audits>>

BumpVersion(j) ==
    /\ pc[j] = "bump"
    /\ \E o \in RedisOutcomes(j) :
          /\ bumped' = IF Applied(o) THEN bumped \cup {j} ELSE bumped
          /\ Goto(j, "auditCompleted", o)
    /\ UNCHANGED <<resp, queue, worker, stopping, lock, lapsed, runs,
                   committed, audits>>

AuditCompleted(j) ==
    /\ pc[j] = "auditCompleted"
    /\ \E o \in PgOutcomes(j) :
          /\ CreateEntry(j, o, "recompute.completed")
          /\ Goto(j, "release", o)
    /\ UNCHANGED <<resp, queue, worker, stopping, lock, lapsed, runs,
                   committed, bumped>>

(* Mutant: the worker does not return to its loop. *)
ReleaseKeepsWorker(j) ==
    /\ pc[j] = "release"
    /\ \E o \in RedisOutcomes(j) : lock' = IF Applied(o) THEN Release(j) ELSE lock
    /\ Goto(j, "done", "ok")
    /\ UNCHANGED <<resp, queue, worker, stopping, lapsed, runs, committed, bumped, audits>>

(* The release all three ends of processJob make; the worker loops. *)
ReleaseLock(j) ==
    /\ pc[j] = "release"
    /\ \E o \in RedisOutcomes(j) : lock' = IF Applied(o) THEN Release(j) ELSE lock
    /\ Goto(j, "done", "ok")
    /\ worker' = [w \in Workers |-> IF worker[w] = j THEN NoJob ELSE worker[w]]
    /\ UNCHANGED <<resp, queue, stopping, lapsed, runs, committed, bumped, audits>>

-----------------------------------------------------------------------------
(* The environment *)

(* A request is cancelled or times out; a job's two minutes are over. *)
Expire(j) ==
    /\ "ctx" \in Faults
    /\ pc[j] \in TriggerStages \cup WorkerStages
    /\ ~expired[j]
    /\ expired' = [expired EXCEPT ![j] = TRUE]
    /\ UNCHANGED <<pc, resp, queue, worker, stopping, lock, lapsed, runs,
                   committed, bumped, audits>>

(* Nobody will release this lock any more. *)
Abandoned(k) == lock[k] # NoJob /\ pc[lock[k]] \in {"done", "gone"}

(* Mutant: the key is set without a TTL. *)
LockNeverExpires(k) == FALSE /\ UNCHANGED vars

(* A lock key reaches its TTL. *)
LockExpire(k) ==
    /\ lock[k] # NoJob
    /\ Abandoned(k) \/ "lapse" \in Faults
    /\ lapsed' = lapsed \cup {lock[k]}
    /\ lock' = [lock EXCEPT ![k] = NoJob]
    /\ UNCHANGED <<pc, expired, resp, queue, worker, stopping, runs,
                   committed, bumped, audits>>

(* SIGTERM: the listener closes, the context of the workers ends. *)
Shutdown ==
    /\ "stop" \in Faults
    /\ ~stopping
    /\ stopping' = TRUE
    /\ expired' = [j \in Jobs |-> expired[j] \/ pc[j] \in WorkerStages]
    /\ UNCHANGED <<pc, resp, queue, worker, lock, lapsed, runs, committed,
                   bumped, audits>>

(* main returns without waiting for the workers, or the process dies.  The *)
(* queue and every goroutine are lost; a fresh process starts.             *)
ProcessExit ==
    /\ stopping \/ "crash" \in Faults
    /\ pc' = [j \in Jobs |-> IF pc[j] \in {"idle", "done"} THEN pc[j] ELSE "gone"]
    /\ expired' = [j \in Jobs |-> pc[j] = "done" /\ expired[j]]
    /\ queue' = <<>>
    /\ worker' = [w \in Workers |-> NoJob]
    /\ stopping' = FALSE
    /\ UNCHANGED <<resp, lock, lapsed, runs, committed, bumped, audits>>

(* Every request was served: the system idles. *)
Quiescent ==
    /\ \A j \in Jobs : pc[j] \in {"done", "gone"}
    /\ UNCHANGED vars

-----------------------------------------------------------------------------
Init ==
    /\ pc = [j \in Jobs |-> "idle"]
    /\ expired = [j \in Jobs |-> FALSE]
    /\ resp = [j \in Jobs |-> "none"]
    /\ queue = <<>>
    /\ worker = [w \in Workers |-> NoJob]
    /\ stopping = FALSE
    /\ lock = [k \in LockKeys |-> NoJob]
    /\ lapsed = {}
    /\ runs = [j \in Jobs |-> "absent"]
    /\ committed = {}
    /\ bumped = {}
    /\ audits = {}

(* The next call of the goroutine that handles request j. *)
TriggerStep(j) ==
    \/ Trigger(j) \/ AcquireLock(j) \/ CreateRun(j) \/ AuditTriggered(j)
    \/ Enqueue(j) \/ MarkFull(j) \/ Undo(j)

(* The next call of the worker that processes j. *)
WorkerStep(j) ==
    \/ MarkRunRunning(j) \/ RecomputeReport(j) \/ MarkRunFailed(j)
    \/ AuditFailed(j) \/ MarkRunCompleted(j) \/ BumpVersion(j)
    \/ AuditCompleted(j) \/ ReleaseLock(j)

Next ==
    \/ \E j \in Jobs : TriggerStep(j) \/ WorkerStep(j) \/ Expire(j)
    \/ \E w \in Workers : Dequeue(w) \/ WorkerExit(w)
    \/ \E k \in LockKeys : LockExpire(k)
    \/ Shutdown
    \/ ProcessExit
    \/ Quiescent

Spec == Init /\ [][Next]_vars

(* A goroutine that can go on does, an idle worker receives from a         *)
(* non-empty channel, and a key nobody releases reaches its TTL.  Nothing  *)
(* forces a client to call, a context to end or a process to stop.         *)
Fairness ==
    /\ \A j \in Jobs : /\ WF_vars(TriggerStep(j) /\ pc[j] # "idle")
                       /\ WF_vars(WorkerStep(j))
    /\ \A w \in Workers : WF_vars(Dequeue(w))
    /\ \A k \in LockKeys : WF_vars(LockExpire(k) /\ Abandoned(k))

FairSpec == Spec /\ Fairness

-----------------------------------------------------------------------------
(* Properties *)

(* Job j holds, or believes it holds, the lock of its scope: from the      *)
(* successful SETNX to its release.                                        *)
InProgress(j) == pc[j] \notin {"idle", "acquire", "done", "gone"}

(* The state stays within its types. *)
TypeOK ==
    /\ pc \in [Jobs -> Stages]
    /\ expired \in [Jobs -> BOOLEAN]
    /\ resp \in [Jobs -> Responses]
    /\ queue \in Seq(Jobs)
    /\ worker \in [Workers -> Jobs \cup {NoJob, Exited}]
    /\ stopping \in BOOLEAN
    /\ lock \in [LockKeys -> Jobs \cup {NoJob}]
    /\ lapsed \subseteq Jobs
    /\ runs \in [Jobs -> RunStatus]
    /\ committed \subseteq Jobs
    /\ bumped \subseteq Jobs
    /\ audits \subseteq AuditActions \X Jobs

(* A job has one carrier: it sits in the channel once and with no worker,  *)
(* or exactly one worker processes it, or its request goroutine does; and  *)
(* the channel never exceeds its capacity.  Through the queue-full branch, *)
(* shutdown and restart, no job is delivered twice or left with a worker.  *)
SingleOwner ==
    /\ Len(queue) <= QueueSize
    /\ \A a, b \in 1..Len(queue) : queue[a] = queue[b] => a = b
    /\ \A a \in 1..Len(queue) : pc[queue[a]] = "queued"
    /\ \A j \in Jobs : pc[j] = "queued" => \E a \in 1..Len(queue) : queue[a] = j
    /\ \A w \in Workers : worker[w] \in Jobs => pc[worker[w]] \in WorkerStages
    /\ \A w, v \in Workers : worker[w] \in Jobs /\ worker[w] = worker[v] => w = v
    /\ \A j \in Jobs : pc[j] \in WorkerStages => \E w \in Workers : worker[w] = j

(* A job in progress whose lock did not reach its TTL owns the key of its  *)
(* scope: no other job's release, refusal or crash takes it away.          *)
LockHeld ==
    \A j \in Jobs : InProgress(j) /\ j \notin lapsed => lock[lockKey(j)] = j

(* Two requests with the same report, window and dates are in progress     *)
(* together only if the lock of one of them reached its TTL under it: no   *)
(* release, refusal, error, shutdown or crash lets a second one in.        *)
ScopeMutex ==
    \A i, j \in Jobs :
        i # j /\ lockKey(i) = lockKey(j) /\ InProgress(i) /\ InProgress(j)
            => i \in lapsed \/ j \in lapsed

(* What the goroutine carrying job j has done so far, its run row, its     *)
(* rebuild, its version bump and its audit entries agree.  Nothing is said *)
(* of the row once its finalization was tried: see FinalizationRecorded.   *)
Matches(j) ==
    /\ pc[j] \in {"idle", "acquire", "create"} => runs[j] = "absent"
    /\ pc[j] = "undoCreate" => runs[j] \in {"absent", "pending"}
    /\ pc[j] \in {"auditTriggered", "enqueue", "markFull", "queued", "markRunning"}
          => runs[j] = "pending"
    /\ pc[j] = "undoFull" => runs[j] \in {"pending", "failed"}
    /\ pc[j] \in {"rebuild", "markFailed", "markCompleted"} => runs[j] = "running"
    /\ pc[j] \in {"idle", "queued", "markRunning", "rebuild"} \cup TriggerStages
          => j \notin committed
    /\ pc[j] \in {"markCompleted", "bump", "auditCompleted"} => j \in committed
    /\ j \in bumped => pc[j] \in {"auditCompleted", "release", "done", "gone"}
    /\ audits \cap {<<"recompute.completed", j>>, <<"recompute.failed", j>>} # {}
          => pc[j] \in {"release", "done", "gone"}

(* They agree at every point between two calls, after every failed one and *)
(* through a crash.                                                        *)
StageMatchesRows == \A j \in Jobs : Matches(j)

(* What the run row, the audit trail and the cache version say of a job    *)
(* is true of its transaction, also when any call may fail or lie: it is   *)
(* completed, audited as completed or bumped only when its rebuild was     *)
(* committed, and a failure audited is never followed by either.           *)
OutcomeTruthful ==
    \A j \in Jobs :
        /\ (runs[j] = "completed" \/ j \in bumped \/ <<"recompute.completed", j>> \in audits)
              => j \in committed
        /\ <<"recompute.failed", j>> \in audits
              => <<"recompute.completed", j>> \notin audits /\ j \notin bumped

(* Only a request that was answered 202 is ever executed: one answered     *)
(* 409, 503, 4xx or 500 leaves no job behind that a worker could run.      *)
OnlyAcceptedRun ==
    \A j \in Jobs :
        (\/ pc[j] \in {"queued"} \cup WorkerStages
         \/ runs[j] \in {"running", "completed"}
         \/ j \in committed)
            => resp[j] = "accepted"

(* Unless a call fails, a key is held only by a job in progress, or by one *)
(* whose context ended under it or whose process died: every way out of    *)
(* Trigger and of processJob releases.                                     *)
LockReleased ==
    "call" \notin Faults =>
        \A k \in LockKeys : lock[k] # NoJob =>
            LET j == lock[k] IN InProgress(j) \/ expired[j] \/ pc[j] = "gone"

(* Unless a call fails, an accepted job whose worker came to its end under *)
(* a context that lasted ends in one of two states: completed, committed,  *)
(* invalidated and audited as completed; or failed, rolled back and        *)
(* audited as failed.                                                      *)
CleanOutcome ==
    \A j \in Jobs :
        /\ "call" \notin Faults
        /\ resp[j] = "accepted" /\ pc[j] = "done" /\ ~expired[j]
        => LET ends == {a \in AuditActions \ {"recompute.triggered"} : <<a, j>> \in audits}
           IN  \/ /\ runs[j] = "completed" /\ j \in committed /\ j \in bumped
                  /\ ends = {"recompute.completed"}
               \/ /\ runs[j] = "failed" /\ j \notin committed /\ j \notin bumped
                  /\ ends = {"recompute.failed"}

(* A held lock key changes hands only through its TTL or the release of    *)
(* the job whose token it holds; a job whose lock lapsed never deletes the *)
(* key of the job that took the scope after it.                            *)
LockHandOver ==
    [][\A k \in LockKeys :
          lock[k] # NoJob /\ lock'[k] # lock[k] =>
              /\ lock'[k] = NoJob
              /\ \/ lapsed' = lapsed \cup {lock[k]}
                 \/ /\ pc[lock[k]] \in {"undoCreate", "undoFull", "release"}
                    /\ pc'[lock[k]] = "done"]_vars

RL == INSTANCE RunLifecycle WITH Runs <- Jobs, status <- runs, rebuilt <- committed

(* The run rows behave as RunLifecycle promises its clients. *)
ImplementsLifecycle == RL!LSpec

(* A job in the channel is taken and its worker comes free again, though   *)
(* its context may end at any call.                                        *)
JobDrains == \A j \in Jobs : pc[j] = "queued" ~> pc[j] \in {"done", "gone"}

(* A queued job whose context never ends and whose process survives gets a *)
(* terminal status and gives its lock back.                                *)
QueuedFinishes ==
    \A j \in Jobs :
        pc[j] = "queued" /\ [](~expired[j] /\ pc[j] # "gone")
            ~> /\ runs[j] \in {"completed", "failed"}
               /\ lock[lockKey(j)] # j

(* No scope stays locked by the same token for ever, not even one left     *)
(* behind by a dead context or a dead process.                             *)
LockFreed == \A j \in Jobs : lock[lockKey(j)] = j ~> lock[lockKey(j)] # j

-----------------------------------------------------------------------------
(* What the documentation says of the code and the code does not do *)

(* docs/api-overview.md:137: a trigger is refused while a recompute for    *)
(* the same report, window and dates is in progress.                       *)
NoDuplicateInProgress ==
    \A i, j \in Jobs :
        /\ i # j
        /\ lockKey(i) = lockKey(j)
        /\ pc[i] \in {"queued"} \cup WorkerStages
        => pc[j] \notin {"queued"} \cup WorkerStages

(* docs/architecture.md:73: "on failure, the error is stored on the run    *)
(* and written to the audit trail".  When the worker is through with the   *)
(* failure path of a rebuild that was rolled back, one of the two is there.*)
FailureStored ==
    [][\A j \in Jobs :
          pc[j] = "auditFailed" /\ pc'[j] = "release" /\ j \notin committed =>
              runs[j] = "failed" \/ <<"recompute.failed", j>> \in audits']_vars

(* docs/domain-model.md:64: the status is failed when "snapshot rebuild or *)
(* run finalization failed and the error was recorded".  A run that is     *)
(* audited as completed has a row that says completed, or failed.          *)
FinalizationRecorded ==
    \A j \in Jobs :
        <<"recompute.completed", j>> \in audits => runs[j] \in {"completed", "failed"}
=============================================================================
