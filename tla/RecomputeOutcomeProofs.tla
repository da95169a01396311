---------------------- MODULE RecomputeOutcomeProofs ----------------------
(* Theorems about the runs of RecomputeService in which no call errs of    *)
(* its own: contexts may end, locks may lapse and processes may stop or    *)
(* die.  The lock is given back on every path, and an accepted job whose   *)
(* context lasted ends clean.  Each is for every set of jobs, requests,    *)
(* workers and every queue size.                                           *)
EXTENDS RecomputeServiceProofs

(* No call errs unless its context ends. *)
CallsWork == "call" \notin Faults

(* Redis then answers, unless the context was done before. *)
LEMMA RedisAnswers ==
    ASSUME CallsWork, TypeOK, NEW j \in Jobs, NEW o \in RedisOutcomes(j)
    PROVE  (o = "ok" /\ ~expired[j]) \/ (o = "err" /\ expired[j])
  BY DEF CallsWork, RedisOutcomes, PgOutcomes, TypeOK

(* A call after which the context still lasts was answered; the rebuild    *)
(* may have failed on its own.                                             *)
LEMMA CallAnswered ==
    ASSUME CallsWork, TypeOK, NEW j \in Jobs, NEW next, next # "queued",
           NEW o, Goto(j, next, o), ~expired'[j]
    PROVE  /\ pc'[j] = next
           /\ ~expired[j]
           /\ o \in PgOutcomes(j) \cup RedisOutcomes(j) => o = "ok"
           /\ o \in RebuildOutcomes(j) => o \in {"ok", "err"}
  <1>1. pc'[j] = next /\ ~expired[j] /\ o # "late"
    BY DEF Goto, TypeOK
  <1>2. PgOutcomes(j) \subseteq {"ok", "late"}
    BY <1>1 DEF PgOutcomes, CallsWork
  <1> QED  BY <1>1, <1>2 DEF RedisOutcomes, RebuildOutcomes

(* Only the goroutine that carries a job, or its end, touches its context. *)
LEMMA ContextOwn ==
    ASSUME TypeOK, NEW j \in Jobs, TriggerStep(j) \/ WorkerStep(j), NEW i \in Jobs \ {j}
    PROVE  expired'[i] = expired[i]
  BY DEF TriggerStep, WorkerStep, Trigger, AcquireLock, CreateRun, AuditTriggered, Enqueue,
         MarkFull, Undo, MarkRunRunning, RecomputeReport, MarkRunFailed, AuditFailed,
         MarkRunCompleted, BumpVersion, AuditCompleted, ReleaseLock, Return, Goto, TypeOK

-----------------------------------------------------------------------------
(* The lock is given back *)

(* Job j may hold a key: it is in progress, or could not give it back. *)
MayHold(j) == InProgress(j) \/ (pc[j] = "done" /\ expired[j]) \/ pc[j] = "gone"

(* A held key is the key of the job whose token it holds, and that job may *)
(* hold it.                                                                *)
KeyInUse(k) ==
    lock[k] # NoJob => lockKey(lock[k]) = k /\ MayHold(lock[k])

KeysInUse == CallsWork => \A k \in LockKeys : KeyInUse(k)

(* A step that takes no key, and after which whoever might hold one still  *)
(* may, keeps the keys in use.                                             *)
LEMMA InUseFrame ==
    ASSUME TypeOK, NEW k \in LockKeys, KeyInUse(k),
           lock'[k] = lock[k] \/ lock'[k] = NoJob,
           \A i \in Jobs : MayHold(i) => MayHold(i)'
    PROVE  KeyInUse(k)'
  BY DEF TypeOK, KeyInUse, lockKey

(* A call that begins a job, or leaves it in progress, takes no right from *)
(* anyone.                                                                 *)
LEMMA MoveEndsNothing ==
    ASSUME TypeOK, NEW j \in Jobs, TriggerStep(j) \/ WorkerStep(j),
           NEW from, NEW to, Moves(j, from, to),
           to \cap {"idle", "acquire", "done", "gone"} = {} \/ from \subseteq {"idle", "acquire"}
    PROVE  \A i \in Jobs : MayHold(i) => MayHold(i)'
  <1> SUFFICES ASSUME NEW i \in Jobs, MayHold(i)
               PROVE  MayHold(i)'
    OBVIOUS
  <1>1. CASE i = j
    BY <1>1 DEF TypeOK, Moves, InProgress, MayHold
  <1>2. CASE i # j
    <2>1. expired'[i] = expired[i]
      BY <1>2, ContextOwn
    <2>2. pc'[i] = pc[i]
      BY <1>2 DEF Moves, TypeOK
    <2> QED  BY <2>1, <2>2 DEF MayHold, InProgress
  <1> QED  BY <1>1, <1>2

(* Every step keeps the keys in use: the two releases free the key of the  *)
(* job that ends, unless its context is done, and SETNX gives one to a job *)
(* that begins.                                                            *)
LEMMA KeysInUseStep ==
    TypeOK /\ SingleOwner /\ KeysInUse /\ [Next]_vars => KeysInUse'
  <1> SUFFICES ASSUME TypeOK, SingleOwner, KeysInUse, [Next]_vars, CallsWork,
                      NEW k \in LockKeys
               PROVE  KeyInUse(k)'
    BY DEF KeysInUse, CallsWork
  <1>1. KeyInUse(k)
    BY DEF KeysInUse
  <1>2. ASSUME NEW j \in Jobs, Trigger(j)
        PROVE  KeyInUse(k)'
    <2>1. lock' = lock /\ Moves(j, {"idle"}, {"acquire", "done"})
      BY <1>2, PcMoves DEF Trigger
    <2>2. \A i \in Jobs : MayHold(i) => MayHold(i)'
      BY <1>2, <2>1, MoveEndsNothing DEF TriggerStep
    <2> QED  BY <1>1, <2>1, <2>2, InUseFrame
  <1>3. ASSUME NEW j \in Jobs, AcquireLock(j)
        PROVE  KeyInUse(k)'
    <2>1. PICK o \in RedisOutcomes(j) :
             /\ lock' = IF Applied(o) THEN TryAcquire(j) ELSE lock
             /\ \/ /\ o = "ok" /\ SetNX(j)
                   /\ Goto(j, "create", o)
                \/ /\ o = "lost" \/ (o = "ok" /\ ~SetNX(j))
                \/ /\ o # "ok"
      BY <1>3 DEF AcquireLock
    <2>2. (o = "ok" /\ ~expired[j]) \/ (o = "err" /\ expired[j])
      BY <2>1, RedisAnswers
    <2>3. \/ pc'[j] = "create" /\ lock' = [lock EXCEPT ![lockKey(j)] = j]
          \/ lock' = lock
      BY <2>1, <2>2 DEF Goto, Applied, TryAcquire, TypeOK
    <2>4. Moves(j, {"acquire"}, {"create", "done"})
      BY <1>3, PcMoves
    <2>5. \A i \in Jobs : MayHold(i) => MayHold(i)'
      BY <1>3, <2>4, MoveEndsNothing DEF TriggerStep
    <2>6. CASE lock'[k] = lock[k]
      BY <1>1, <2>5, <2>6, InUseFrame
    <2>7. CASE lock'[k] # lock[k]
      <3>1. k = lockKey(j) /\ lock'[k] = j /\ pc'[j] = "create"
        BY <2>3, <2>7, KeyOfJob DEF TypeOK
      <3> QED  BY <3>1 DEF KeyInUse, MayHold, InProgress, lockKey
    <2> QED  BY <2>6, <2>7
  <1>4. ASSUME NEW j \in Jobs, Undo(j) \/ ReleaseLock(j)
        PROVE  KeyInUse(k)'
    <2>1. PICK o \in RedisOutcomes(j) : lock' = IF Applied(o) THEN Release(j) ELSE lock
      BY <1>4 DEF Undo, ReleaseLock
    <2>2. (o = "ok" /\ ~expired[j]) \/ (o = "err" /\ expired[j])
      BY <2>1, RedisAnswers
    <2>3. pc' = [pc EXCEPT ![j] = "done"] /\ expired'[j] = expired[j]
      BY <1>4 DEF Undo, ReleaseLock, Return, Goto, TypeOK
    <2>4. \A i \in Jobs \ {j} : MayHold(i) => MayHold(i)'
      BY <1>4, <2>3, ContextOwn DEF TriggerStep, WorkerStep, MayHold, InProgress, TypeOK
    <2>5. CASE lock' = lock /\ expired[j]
      <3>1. MayHold(j)'
        BY <2>3, <2>5 DEF MayHold, TypeOK
      <3> QED  BY <1>1, <2>4, <2>5, <3>1, InUseFrame
    <2>6. CASE lock' = Release(j)
      <3>1. lock'[k] # j /\ (lock'[k] = lock[k] \/ lock'[k] = NoJob)
        BY <1>1, <2>6, KeyOfJob, NullAssumption DEF Release, TypeOK, KeyInUse
      <3>2. lock[k] \in Jobs \cup {NoJob}
        BY DEF TypeOK
      <3> QED  BY <1>1, <2>4, <3>1, <3>2 DEF KeyInUse, lockKey
    <2> QED  BY <2>1, <2>2, <2>5, <2>6 DEF Applied
  <1>5. ASSUME NEW j \in Jobs,
               \/ CreateRun(j) \/ AuditTriggered(j) \/ Enqueue(j) \/ MarkFull(j)
               \/ MarkRunRunning(j) \/ RecomputeReport(j) \/ MarkRunFailed(j) \/ AuditFailed(j)
               \/ MarkRunCompleted(j) \/ BumpVersion(j) \/ AuditCompleted(j)
        PROVE  KeyInUse(k)'
    <2>1. lock' = lock
      BY <1>5 DEF CreateRun, AuditTriggered, Enqueue, MarkFull, MarkRunRunning,
                  RecomputeReport, MarkRunFailed, AuditFailed, MarkRunCompleted,
                  BumpVersion, AuditCompleted
    <2>2. Moves(j, {pc[j]}, Stages \ {"idle", "acquire", "done", "gone"})
      BY <1>5, PcMoves DEF Moves, Stages, TriggerStages, WorkerStages
    <2>3. TriggerStep(j) \/ WorkerStep(j)
      BY <1>5 DEF TriggerStep, WorkerStep
    <2>4. \A i \in Jobs : MayHold(i) => MayHold(i)'
      BY <2>2, <2>3, MoveEndsNothing
    <2> QED  BY <1>1, <2>1, <2>4, InUseFrame
  <1>6. ASSUME NEW w \in Workers, Dequeue(w)
        PROVE  KeyInUse(k)'
    <2>1. PICK j \in Jobs : Moves(j, {"queued"}, {"markRunning"})
      BY <1>6, DequeueMoves
    <2>2. lock' = lock /\ expired' = [expired EXCEPT ![Head(queue)] = stopping]
          /\ pc' = [pc EXCEPT ![Head(queue)] = "markRunning"]
      BY <1>6 DEF Dequeue
    <2>3. \A i \in Jobs : MayHold(i) => MayHold(i)'
      BY <2>1, <2>2 DEF Moves, MayHold, InProgress, TypeOK
    <2> QED  BY <1>1, <2>2, <2>3, InUseFrame
  <1>7. ASSUME \/ \E j \in Jobs : Expire(j)
               \/ Shutdown
               \/ \E w \in Workers : WorkerExit(w)
               \/ \E m \in LockKeys : LockExpire(m)
               \/ UNCHANGED vars
        PROVE  KeyInUse(k)'
    <2>1. pc' = pc
      BY <1>7 DEF Expire, Shutdown, WorkerExit, LockExpire, vars
    <2>2. lock'[k] = lock[k] \/ lock'[k] = NoJob
      BY <1>7 DEF Expire, Shutdown, WorkerExit, LockExpire, vars, TypeOK
    <2>3. \A i \in Jobs : expired[i] => expired'[i]
      BY <1>7 DEF Expire, Shutdown, WorkerExit, LockExpire, vars, TypeOK
    <2> QED  BY <1>1, <2>1, <2>2, <2>3, InUseFrame DEF MayHold, InProgress
  <1>8. ASSUME ProcessExit
        PROVE  KeyInUse(k)'
    <2>1. lock' = lock
      BY <1>8 DEF ProcessExit
    <2>2. \A i \in Jobs : MayHold(i) => MayHold(i)'
      BY <1>8 DEF ProcessExit, MayHold, InProgress
    <2> QED  BY <1>1, <2>1, <2>2, InUseFrame
  <1> QED
    BY <1>2, <1>3, <1>4, <1>5, <1>6, <1>7, <1>8
       DEF Next, TriggerStep, WorkerStep, Quiescent

(* Unless a call fails, no key stays behind a job whose context lasted and *)
(* whose process lived: every way out of Trigger and of processJob         *)
(* releases.                                                               *)
THEOREM LockReleasedCorrect == Spec => []LockReleased
  <1>1. Init => KeysInUse
    BY DEF Init, KeysInUse, KeyInUse
  <1>2. KeysInUse => LockReleased
    BY DEF KeysInUse, KeyInUse, LockReleased, CallsWork, MayHold
  <1> QED
    BY <1>1, <1>2, TypeCorrect, SingleOwnerCorrect, KeysInUseStep, PTL DEF Spec

-----------------------------------------------------------------------------
(* An accepted job ends clean *)

(* Job j is completed, committed, invalidated and audited as completed; or *)
(* failed, rolled back and audited as failed.                              *)
CleanEnd(j) ==
    \/ /\ runs[j] = "completed" /\ j \in committed /\ j \in bumped
       /\ <<"recompute.completed", j>> \in audits
       /\ <<"recompute.failed", j>> \notin audits
    \/ /\ runs[j] = "failed" /\ j \notin committed /\ j \notin bumped
       /\ <<"recompute.failed", j>> \in audits
       /\ <<"recompute.completed", j>> \notin audits

(* What each stage has left behind when every call before it was answered. *)
Answered(j) ==
    /\ pc[j] \in {"markFailed", "auditFailed"} => j \notin committed
    /\ pc[j] = "auditFailed" => runs[j] = "failed"
    /\ pc[j] \in {"bump", "auditCompleted"} => runs[j] = "completed"
    /\ pc[j] = "auditCompleted" => j \in bumped
    /\ pc[j] = "release" => CleanEnd(j)
    /\ pc[j] = "done" /\ resp[j] = "accepted" => CleanEnd(j)

(* How far job j is on the way to one of the two.                          *)
OnTheWay(j) ==
    /\ pc[j] \in {"idle"} \cup TriggerStages => resp[j] # "accepted"
    /\ ~expired[j] => Answered(j)

CleanInv == CallsWork => \A j \in Jobs : OnTheWay(j)

(* A job whose rows, stage and answer are as before is as far as before,   *)
(* or its context has ended.                                               *)
LEMMA OnTheWayFrame ==
    ASSUME NEW i \in Jobs, OnTheWay(i), RowsKept(i), pc'[i] = pc[i], resp'[i] = resp[i],
           expired[i] => expired'[i]
    PROVE  OnTheWay(i)'
  <1>1. CleanEnd(i) => CleanEnd(i)'
    BY DEF CleanEnd, RowsKept, AuditActions
  <1>2. Answered(i) => Answered(i)'
    BY <1>1 DEF Answered, RowsKept, AuditActions
  <1> QED  BY <1>2 DEF OnTheWay

(* A call of the request leaves the job with its worker to come, or over   *)
(* and refused.                                                            *)
LEMMA TriggerGoesOn ==
    ASSUME TypeOK, NEW j \in Jobs, OnTheWay(j), TriggerStep(j)
    PROVE  OnTheWay(j)'
  <1>1. CASE Trigger(j)
    <2>1. \/ pc'[j] = "acquire" /\ resp' = resp /\ pc[j] = "idle"
          \/ pc'[j] = "done" /\ resp'[j] # "accepted"
      BY <1>1 DEF Trigger, Return, Goto, TypeOK
    <2> QED  BY <2>1 DEF OnTheWay, Answered, TriggerStages
  <1>2. CASE AcquireLock(j)
    <2>1. \/ pc'[j] = "create" /\ resp' = resp /\ pc[j] = "acquire"
          \/ pc'[j] = "done" /\ resp'[j] # "accepted"
      BY <1>2 DEF AcquireLock, Return, Goto, TypeOK
    <2> QED  BY <2>1 DEF OnTheWay, Answered, TriggerStages
  <1>3. CASE CreateRun(j)
    <2>1. /\ pc[j] = "create" /\ pc'[j] \in {"auditTriggered", "undoCreate"}
          /\ resp' = resp
      BY <1>3 DEF CreateRun, Goto, TypeOK
    <2> QED  BY <2>1 DEF OnTheWay, Answered, TriggerStages
  <1>4. CASE AuditTriggered(j)
    <2>1. pc[j] = "auditTriggered" /\ pc'[j] = "enqueue" /\ resp' = resp
      BY <1>4 DEF AuditTriggered, Goto, TypeOK
    <2> QED  BY <2>1 DEF OnTheWay, Answered, TriggerStages
  <1>5. CASE Enqueue(j)
    <2>1. /\ pc[j] = "enqueue"
          /\ \/ pc'[j] = "queued"
             \/ pc'[j] = "markFull" /\ resp' = resp
      BY <1>5 DEF Enqueue, Goto, TypeOK
    <2> QED  BY <2>1 DEF OnTheWay, Answered, TriggerStages
  <1>6. CASE MarkFull(j)
    <2>1. pc[j] = "markFull" /\ pc'[j] = "undoFull" /\ resp' = resp
      BY <1>6 DEF MarkFull, Goto, TypeOK
    <2> QED  BY <2>1 DEF OnTheWay, Answered, TriggerStages
  <1>7. CASE Undo(j)
    <2>1. pc'[j] = "done" /\ resp'[j] # "accepted"
      BY <1>7 DEF Undo, Return, Goto, TypeOK
    <2> QED  BY <2>1 DEF OnTheWay, Answered, TriggerStages
  <1> QED  BY <1>1, <1>2, <1>3, <1>4, <1>5, <1>6, <1>7 DEF TriggerStep

(* A call of the worker, when the context still lasts after it, takes the  *)
(* job one stage on.                                                       *)
LEMMA WorkerGoesOn ==
    ASSUME TypeOK, CallsWork, NEW j \in Jobs, Matches(j), OnTheWay(j), WorkerStep(j)
    PROVE  OnTheWay(j)'
  <1>1. pc'[j] \notin {"idle"} \cup TriggerStages
    BY PcMoves DEF WorkerStep, Moves, TypeOK, TriggerStages
  <1> SUFFICES ASSUME ~expired'[j]
               PROVE  Answered(j)'
    BY <1>1 DEF OnTheWay
  <1>2. CASE MarkRunRunning(j)
    <2>1. PICK o \in PgOutcomes(j) : Goto(j, IF o = "ok" THEN "rebuild" ELSE "release", o)
      BY <1>2 DEF MarkRunRunning
    <2>2. pc'[j] = "rebuild"
      BY <2>1, CallAnswered
    <2> QED  BY <2>2 DEF Answered
  <1>3. CASE RecomputeReport(j)
    <2>1. PICK o \in RebuildOutcomes(j) :
             /\ committed' = IF Applied(o) THEN committed \cup {j} ELSE committed
             /\ Goto(j, IF o = "ok" THEN "markCompleted" ELSE "markFailed", o)
      BY <1>3 DEF RecomputeReport
    <2>2. o \in {"ok", "err"} /\ pc'[j] = (IF o = "ok" THEN "markCompleted" ELSE "markFailed")
      BY <2>1, CallAnswered
    <2>3. j \notin committed
      BY <1>3 DEF RecomputeReport, Matches
    <2> QED  BY <2>1, <2>2, <2>3 DEF Answered, Applied
  <1>4. CASE MarkRunFailed(j)
    <2>1. PICK o \in PgOutcomes(j) : SetStatus(j, o, "failed") /\ Goto(j, "auditFailed", o)
      BY <1>4 DEF MarkRunFailed
    <2>2. pc'[j] = "auditFailed" /\ ~expired[j] /\ o = "ok"
      BY <2>1, CallAnswered
    <2>3. runs'[j] = "failed"
      BY <2>1, <2>2 DEF SetStatus, Applied, TypeOK
    <2>4. pc[j] = "markFailed" /\ committed' = committed
      BY <1>4 DEF MarkRunFailed
    <2> QED  BY <2>2, <2>3, <2>4 DEF OnTheWay, Answered
  <1>5. CASE AuditFailed(j)
    <2>1. PICK o \in PgOutcomes(j) :
             CreateEntry(j, o, "recompute.failed") /\ Goto(j, "release", o)
      BY <1>5 DEF AuditFailed
    <2>2. pc'[j] = "release" /\ ~expired[j] /\ o = "ok"
      BY <2>1, CallAnswered
    <2>3. pc[j] = "auditFailed" /\ UNCHANGED <<runs, committed, bumped>>
      BY <1>5 DEF AuditFailed
    <2>4. audits' = audits \cup {<<"recompute.failed", j>>}
      BY <2>1, <2>2 DEF CreateEntry, Applied
    <2>5. runs[j] = "failed" /\ j \notin committed
      BY <2>2, <2>3 DEF OnTheWay, Answered
    <2>6. j \notin bumped /\ <<"recompute.completed", j>> \notin audits
      BY <2>3 DEF Matches
    <2>7. CleanEnd(j)'
      BY <2>3, <2>4, <2>5, <2>6 DEF CleanEnd
    <2> QED  BY <2>2, <2>7 DEF Answered
  <1>6. CASE MarkRunCompleted(j)
    <2>1. PICK o \in PgOutcomes(j) : SetStatus(j, o, "completed") /\ Goto(j, "bump", o)
      BY <1>6 DEF MarkRunCompleted
    <2>2. pc'[j] = "bump" /\ o = "ok"
      BY <2>1, CallAnswered
    <2>3. runs'[j] = "completed"
      BY <2>1, <2>2 DEF SetStatus, Applied, TypeOK
    <2> QED  BY <2>2, <2>3 DEF Answered
  <1>7. CASE BumpVersion(j)
    <2>1. PICK o \in RedisOutcomes(j) :
             /\ bumped' = IF Applied(o) THEN bumped \cup {j} ELSE bumped
             /\ Goto(j, "auditCompleted", o)
      BY <1>7 DEF BumpVersion
    <2>2. pc'[j] = "auditCompleted" /\ ~expired[j] /\ o = "ok"
      BY <2>1, CallAnswered
    <2>3. pc[j] = "bump" /\ runs' = runs
      BY <1>7 DEF BumpVersion
    <2> QED  BY <2>1, <2>2, <2>3 DEF OnTheWay, Answered, Applied
  <1>8. CASE AuditCompleted(j)
    <2>1. PICK o \in PgOutcomes(j) :
             CreateEntry(j, o, "recompute.completed") /\ Goto(j, "release", o)
      BY <1>8 DEF AuditCompleted
    <2>2. pc'[j] = "release" /\ ~expired[j] /\ o = "ok"
      BY <2>1, CallAnswered
    <2>3. pc[j] = "auditCompleted" /\ UNCHANGED <<runs, committed, bumped>>
      BY <1>8 DEF AuditCompleted
    <2>4. audits' = audits \cup {<<"recompute.completed", j>>}
      BY <2>1, <2>2 DEF CreateEntry, Applied
    <2>5. runs[j] = "completed" /\ j \in bumped
      BY <2>2, <2>3 DEF OnTheWay, Answered
    <2>6. j \in committed /\ <<"recompute.failed", j>> \notin audits
      BY <2>3 DEF Matches
    <2>7. CleanEnd(j)'
      BY <2>3, <2>4, <2>5, <2>6 DEF CleanEnd
    <2> QED  BY <2>2, <2>7 DEF Answered
  <1>9. CASE ReleaseLock(j)
    <2>1. /\ pc[j] = "release" /\ pc'[j] = "done" /\ ~expired[j]
          /\ UNCHANGED <<runs, committed, bumped, audits>>
      BY <1>9 DEF ReleaseLock, Goto, TypeOK
    <2>2. CleanEnd(j)'
      BY <2>1 DEF OnTheWay, Answered, CleanEnd
    <2> QED  BY <2>1, <2>2 DEF Answered
  <1> QED
    BY <1>2, <1>3, <1>4, <1>5, <1>6, <1>7, <1>8, <1>9 DEF WorkerStep

(* Every step keeps every job on its way; one that takes a job's process   *)
(* from it leaves nothing to be said of it.                                *)
LEMMA CleanStep ==
    /\ TypeOK /\ SingleOwner /\ StageMatchesRows
    /\ CleanInv /\ [Next]_vars
    => CleanInv'
  <1> SUFFICES ASSUME TypeOK, SingleOwner, StageMatchesRows, CleanInv, [Next]_vars,
                      CallsWork, NEW i \in Jobs
               PROVE  OnTheWay(i)'
    BY DEF CleanInv, CallsWork
  <1>1. Matches(i) /\ OnTheWay(i)
    BY DEF StageMatchesRows, CleanInv
  <1>2. ASSUME NEW j \in Jobs, TriggerStep(j) \/ WorkerStep(j)
        PROVE  OnTheWay(i)'
    <2>1. CASE i = j
      BY <2>1, <1>1, <1>2, TriggerGoesOn, WorkerGoesOn
    <2>2. CASE i # j
      <3>1. RowsKept(i) /\ pc'[i] = pc[i] /\ resp'[i] = resp[i] /\ expired'[i] = expired[i]
        BY <2>2, <1>2, OthersKept, AnswersOwn, ContextOwn
      <3> QED  BY <3>1, <1>1, OnTheWayFrame
    <2> QED  BY <2>1, <2>2
  <1>3. ASSUME \/ \E j \in Jobs : Expire(j)
               \/ \E w \in Workers : Dequeue(w) \/ WorkerExit(w)
               \/ \E k \in LockKeys : LockExpire(k)
               \/ Shutdown \/ ProcessExit \/ UNCHANGED vars
        PROVE  OnTheWay(i)'
    <2>1. RowsKept(i)
      BY <1>3, EnvironmentKeepsRows
    <2>2. resp' = resp
      BY <1>3 DEF Expire, Dequeue, WorkerExit, LockExpire, Shutdown, ProcessExit, vars
    <2>3. CASE \E w \in Workers : Dequeue(w)
      <3>1. PICK w \in Workers : Dequeue(w)
        BY <2>3
      <3>2. /\ pc' = [pc EXCEPT ![Head(queue)] = "markRunning"]
            /\ expired' = [expired EXCEPT ![Head(queue)] = stopping]
        BY <3>1 DEF Dequeue
      <3>3. CASE i = Head(queue)
        <4>1. pc'[i] = "markRunning"
          BY <3>2, <3>3 DEF TypeOK
        <4> QED  BY <4>1 DEF OnTheWay, Answered, TriggerStages
      <3>4. CASE i # Head(queue)
        <4>1. pc'[i] = pc[i] /\ expired'[i] = expired[i]
          BY <3>2, <3>4 DEF TypeOK
        <4> QED  BY <1>1, <2>1, <2>2, <4>1, OnTheWayFrame
      <3> QED  BY <3>3, <3>4
    <2>4. CASE ProcessExit /\ pc'[i] = "gone"
      BY <2>4 DEF OnTheWay, Answered, TriggerStages
    <2>5. CASE ProcessExit /\ pc'[i] # "gone"
      <3>1. pc'[i] = pc[i] /\ pc[i] \in {"idle", "done"}
        BY <2>5 DEF ProcessExit
      <3>2. CASE pc[i] = "done"
        <4>1. expired'[i] = expired[i]
          BY <2>5, <3>2 DEF ProcessExit, TypeOK
        <4> QED  BY <1>1, <2>1, <2>2, <3>1, <4>1, OnTheWayFrame
      <3>3. CASE pc[i] = "idle"
        BY <1>1, <2>2, <3>1, <3>3 DEF OnTheWay, Answered
      <3> QED  BY <3>1, <3>2, <3>3
    <2>6. CASE ~(\E w \in Workers : Dequeue(w)) /\ ~ProcessExit
      <3>1. pc' = pc /\ (expired[i] => expired'[i])
        BY <1>3, <2>6 DEF Expire, WorkerExit, LockExpire, Shutdown, vars, TypeOK
      <3> QED  BY <1>1, <2>1, <2>2, <3>1, OnTheWayFrame
    <2> QED  BY <2>3, <2>4, <2>5, <2>6
  <1> QED  BY <1>2, <1>3 DEF Next, Quiescent

(* Unless a call fails, a job that was accepted and processed under a      *)
(* context that lasted ends in one of two states, completed and published  *)
(* or failed and rolled back, also beside jobs whose contexts end and      *)
(* processes that stop or die.                                             *)
THEOREM CleanOutcomeCorrect == Spec => []CleanOutcome
  <1>1. Init => CleanInv
    BY DEF Init, CleanInv, OnTheWay, Answered, TriggerStages
  <1>2. CleanInv => CleanOutcome
    <2> SUFFICES ASSUME CleanInv, NEW j \in Jobs, CallsWork,
                        resp[j] = "accepted", pc[j] = "done", ~expired[j]
                 PROVE  LET ends == {a \in AuditActions \ {"recompute.triggered"} :
                                         <<a, j>> \in audits}
                        IN  \/ /\ runs[j] = "completed" /\ j \in committed /\ j \in bumped
                               /\ ends = {"recompute.completed"}
                            \/ /\ runs[j] = "failed" /\ j \notin committed /\ j \notin bumped
                               /\ ends = {"recompute.failed"}
      BY DEF CleanOutcome, CallsWork
    <2>1. CleanEnd(j)
      BY DEF CleanInv, OnTheWay, Answered
    <2> QED  BY <2>1 DEF CleanEnd, AuditActions
  <1> QED
    BY <1>1, <1>2, TypeCorrect, SingleOwnerCorrect, StageMatchesRowsCorrect,
       CleanStep, PTL DEF Spec
=============================================================================
