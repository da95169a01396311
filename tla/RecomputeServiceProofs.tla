---------------------- MODULE RecomputeServiceProofs ----------------------
(* Theorems about RecomputeService for every set of jobs, every choice of  *)
(* requests, any number of workers, any queue size and any set of faults.  *)
EXTENDS RecomputeService, SequenceTheorems, TLAPS

(* The key of a job is one of the keys of Redis. *)
LEMMA KeyOfJob == \A j \in Jobs : lockKey(j) \in LockKeys
  BY DEF LockKeys

(* Redis after a SETNX or a release is well formed. *)
LEMMA LockTypes ==
    ASSUME lock \in [LockKeys -> Jobs \cup {NoJob}], NEW j \in Jobs
    PROVE  /\ TryAcquire(j) \in [LockKeys -> Jobs \cup {NoJob}]
           /\ Release(j) \in [LockKeys -> Jobs \cup {NoJob}]
  BY KeyOfJob DEF TryAcquire, Release

(* Moving a job to a stage keeps pc and expired well formed. *)
LEMMA GotoTypes ==
    ASSUME TypeOK, NEW j \in Jobs, NEW next \in Stages, NEW o, Goto(j, next, o)
    PROVE  /\ pc' \in [Jobs -> Stages]
           /\ expired' \in [Jobs -> BOOLEAN]
  BY DEF TypeOK, Goto

(* So does returning from Trigger. *)
LEMMA ReturnTypes ==
    ASSUME TypeOK, NEW j \in Jobs, NEW answer \in Responses, Return(j, answer)
    PROVE  /\ pc' \in [Jobs -> Stages]
           /\ expired' \in [Jobs -> BOOLEAN]
           /\ resp' \in [Jobs -> Responses]
  <1>1. "done" \in Stages
    BY DEF Stages
  <1>2. Goto(j, "done", "ok")
    BY DEF Return
  <1>3. resp' \in [Jobs -> Responses]
    BY DEF TypeOK, Return
  <1> QED  BY <1>1, <1>2, <1>3, GotoTypes

(* An UPDATE of a run row keeps the table well formed. *)
LEMMA StatusTypes ==
    ASSUME TypeOK, NEW j \in Jobs, NEW o, NEW st \in RunStatus, SetStatus(j, o, st)
    PROVE  runs' \in [Jobs -> RunStatus]
  BY DEF TypeOK, SetStatus

(* So does an INSERT into the audit trail. *)
LEMMA AuditTypes ==
    ASSUME TypeOK, NEW j \in Jobs, NEW o, NEW ac \in AuditActions, CreateEntry(j, o, ac)
    PROVE  audits' \subseteq AuditActions \X Jobs
  <1>1. <<ac, j>> \in AuditActions \X Jobs
    OBVIOUS
  <1>2. audits \subseteq AuditActions \X Jobs
    BY DEF TypeOK
  <1>3. audits' = audits \/ audits' = audits \cup {<<ac, j>>}
    BY DEF CreateEntry
  <1> QED  BY <1>1, <1>2, <1>3

(* Every step keeps the state within its types. *)
LEMMA TypeStep == TypeOK /\ [Next]_vars => TypeOK'
  <1> SUFFICES ASSUME TypeOK, [Next]_vars
               PROVE  TypeOK'
    OBVIOUS
  <1> USE NullAssumption
  <1>1. ASSUME NEW j \in Jobs, Trigger(j)
        PROVE  TypeOK'
    BY <1>1, ReturnTypes, GotoTypes DEF Trigger, TypeOK, Stages, TriggerStages, Responses
  <1>2. ASSUME NEW j \in Jobs, AcquireLock(j)
        PROVE  TypeOK'
    <2>1. lock' \in [LockKeys -> Jobs \cup {NoJob}]
      BY <1>2, LockTypes DEF AcquireLock, TypeOK
    <2> QED  BY <2>1, <1>2, ReturnTypes, GotoTypes
             DEF AcquireLock, TypeOK, Stages, TriggerStages, Responses
  <1>3. ASSUME NEW j \in Jobs, CreateRun(j)
        PROVE  TypeOK'
    BY <1>3, GotoTypes, StatusTypes
       DEF CreateRun, InsertRun, TypeOK, Stages, TriggerStages, RunStatus
  <1>4. ASSUME NEW j \in Jobs, AuditTriggered(j)
        PROVE  TypeOK'
    BY <1>4, GotoTypes, AuditTypes DEF AuditTriggered, TypeOK, Stages, TriggerStages, AuditActions
  <1>5. ASSUME NEW j \in Jobs, Enqueue(j)
        PROVE  TypeOK'
    <2>1. CASE Len(queue) < QueueSize
      <3>1. queue' \in Seq(Jobs)
        <4>1. queue \in Seq(Jobs)
          BY DEF TypeOK
        <4>2. queue' = Append(queue, j)
          BY <1>5, <2>1 DEF Enqueue
        <4> QED  BY <4>1, <4>2, AppendProperties
      <3>2. resp' \in [Jobs -> Responses]
        BY <1>5, <2>1 DEF Enqueue, TypeOK, Responses
      <3>3. Goto(j, "queued", "ok") /\ "queued" \in Stages
        BY <1>5, <2>1 DEF Enqueue, Stages
      <3> QED  BY <3>1, <3>2, <3>3, <1>5, GotoTypes DEF Enqueue, TypeOK
    <2>2. CASE ~(Len(queue) < QueueSize)
      <3>1. Goto(j, "markFull", "ok") /\ "markFull" \in Stages
        BY <1>5, <2>2 DEF Enqueue, Stages, TriggerStages
      <3>2. UNCHANGED <<queue, resp>>
        BY <1>5, <2>2 DEF Enqueue
      <3> QED  BY <3>1, <3>2, <1>5, GotoTypes DEF Enqueue, TypeOK
    <2> QED  BY <2>1, <2>2
  <1>6. ASSUME NEW j \in Jobs, MarkFull(j)
        PROVE  TypeOK'
    BY <1>6, GotoTypes, StatusTypes DEF MarkFull, TypeOK, Stages, TriggerStages, RunStatus
  <1>7. ASSUME NEW j \in Jobs, Undo(j)
        PROVE  TypeOK'
    <2>1. lock' \in [LockKeys -> Jobs \cup {NoJob}]
      BY <1>7, LockTypes DEF Undo, TypeOK
    <2> QED  BY <2>1, <1>7, ReturnTypes DEF Undo, TypeOK, Responses
  <1>8. ASSUME NEW w \in Workers, Dequeue(w)
        PROVE  TypeOK'
    <2>1. Head(queue) \in Jobs /\ Tail(queue) \in Seq(Jobs)
      BY <1>8, HeadTailProperties DEF Dequeue, TypeOK
    <2> QED  BY <2>1, <1>8 DEF Dequeue, TypeOK, Stages, WorkerStages
  <1>9. ASSUME NEW w \in Workers, WorkerExit(w)
        PROVE  TypeOK'
    BY <1>9 DEF WorkerExit, TypeOK
  <1>10. ASSUME NEW j \in Jobs, MarkRunRunning(j)
         PROVE  TypeOK'
    BY <1>10, GotoTypes, StatusTypes DEF MarkRunRunning, TypeOK, Stages, WorkerStages, RunStatus
  <1>11. ASSUME NEW j \in Jobs, RecomputeReport(j)
         PROVE  TypeOK'
    BY <1>11, GotoTypes DEF RecomputeReport, TypeOK, Stages, WorkerStages
  <1>12. ASSUME NEW j \in Jobs, MarkRunFailed(j)
         PROVE  TypeOK'
    BY <1>12, GotoTypes, StatusTypes DEF MarkRunFailed, TypeOK, Stages, WorkerStages, RunStatus
  <1>13. ASSUME NEW j \in Jobs, AuditFailed(j)
         PROVE  TypeOK'
    BY <1>13, GotoTypes, AuditTypes DEF AuditFailed, TypeOK, Stages, WorkerStages, AuditActions
  <1>14. ASSUME NEW j \in Jobs, MarkRunCompleted(j)
         PROVE  TypeOK'
    BY <1>14, GotoTypes, StatusTypes DEF MarkRunCompleted, TypeOK, Stages, WorkerStages, RunStatus
  <1>15. ASSUME NEW j \in Jobs, BumpVersion(j)
         PROVE  TypeOK'
    BY <1>15, GotoTypes DEF BumpVersion, TypeOK, Stages, WorkerStages
  <1>16. ASSUME NEW j \in Jobs, AuditCompleted(j)
         PROVE  TypeOK'
    BY <1>16, GotoTypes, AuditTypes DEF AuditCompleted, TypeOK, Stages, WorkerStages, AuditActions
  <1>17. ASSUME NEW j \in Jobs, ReleaseLock(j)
         PROVE  TypeOK'
    <2>1. lock' \in [LockKeys -> Jobs \cup {NoJob}]
      BY <1>17, LockTypes DEF ReleaseLock, TypeOK
    <2>2. worker' \in [Workers -> Jobs \cup {NoJob, Exited}]
      BY <1>17 DEF ReleaseLock, TypeOK
    <2> QED  BY <2>1, <2>2, <1>17, GotoTypes DEF ReleaseLock, TypeOK, Stages
  <1>18. ASSUME NEW j \in Jobs, Expire(j)
         PROVE  TypeOK'
    BY <1>18 DEF Expire, TypeOK
  <1>19. ASSUME NEW k \in LockKeys, LockExpire(k)
         PROVE  TypeOK'
    BY <1>19 DEF LockExpire, TypeOK
  <1>20. ASSUME Shutdown
         PROVE  TypeOK'
    BY <1>20 DEF Shutdown, TypeOK
  <1>21. ASSUME ProcessExit
         PROVE  TypeOK'
    BY <1>21, EmptySeq DEF ProcessExit, TypeOK, Stages
  <1>22. ASSUME UNCHANGED vars
         PROVE  TypeOK'
    BY <1>22 DEF TypeOK, vars
  <1> QED
    BY <1>1, <1>2, <1>3, <1>4, <1>5, <1>6, <1>7, <1>8, <1>9, <1>10, <1>11, <1>12,
       <1>13, <1>14, <1>15, <1>16, <1>17, <1>18, <1>19, <1>20, <1>21, <1>22
       DEF Next, TriggerStep, WorkerStep, Quiescent

(* The state of the service stays within its types. *)
THEOREM TypeCorrect == Spec => []TypeOK
  <1>1. Init => TypeOK
    <2> SUFFICES ASSUME Init PROVE TypeOK
      OBVIOUS
    <2>1. queue \in Seq(Jobs)
      BY EmptySeq DEF Init
    <2>2. /\ pc \in [Jobs -> Stages]
          /\ expired \in [Jobs -> BOOLEAN]
          /\ resp \in [Jobs -> Responses]
          /\ runs \in [Jobs -> RunStatus]
      BY DEF Init, Stages, Responses, RunStatus
    <2>3. /\ worker \in [Workers -> Jobs \cup {NoJob, Exited}]
          /\ lock \in [LockKeys -> Jobs \cup {NoJob}]
      BY DEF Init
    <2>4. /\ stopping \in BOOLEAN
          /\ lapsed \subseteq Jobs /\ committed \subseteq Jobs /\ bumped \subseteq Jobs
          /\ audits \subseteq AuditActions \X Jobs
      BY DEF Init
    <2> QED  BY <2>1, <2>2, <2>3, <2>4 DEF TypeOK
  <1> QED  BY <1>1, TypeStep, PTL DEF Spec

-----------------------------------------------------------------------------
(* Every job has one carrier *)

(* The step moves job j, and no other, from a stage in `from' to one in `to'. *)
Moves(j, from, to) ==
    /\ pc[j] \in from
    /\ \E next \in to : pc' = [pc EXCEPT ![j] = next]

(* Where each call leads. *)
LEMMA PcMoves ==
    ASSUME NEW j \in Jobs
    PROVE  /\ Trigger(j) => Moves(j, {"idle"}, {"acquire", "done"})
           /\ AcquireLock(j) => Moves(j, {"acquire"}, {"create", "done"})
           /\ CreateRun(j) => Moves(j, {"create"}, {"auditTriggered", "undoCreate"})
           /\ AuditTriggered(j) => Moves(j, {"auditTriggered"}, {"enqueue"})
           /\ Enqueue(j) => Moves(j, {"enqueue"}, {"queued", "markFull"})
           /\ MarkFull(j) => Moves(j, {"markFull"}, {"undoFull"})
           /\ Undo(j) => Moves(j, {"undoCreate", "undoFull"}, {"done"})
           /\ MarkRunRunning(j) => Moves(j, {"markRunning"}, {"rebuild", "release"})
           /\ RecomputeReport(j) => Moves(j, {"rebuild"}, {"markCompleted", "markFailed"})
           /\ MarkRunFailed(j) => Moves(j, {"markFailed"}, {"auditFailed"})
           /\ AuditFailed(j) => Moves(j, {"auditFailed"}, {"release"})
           /\ MarkRunCompleted(j) => Moves(j, {"markCompleted"}, {"bump"})
           /\ BumpVersion(j) => Moves(j, {"bump"}, {"auditCompleted"})
           /\ AuditCompleted(j) => Moves(j, {"auditCompleted"}, {"release"})
           /\ ReleaseLock(j) => Moves(j, {"release"}, {"done"})
  <1>1. /\ Trigger(j) => Moves(j, {"idle"}, {"acquire", "done"})
        /\ AcquireLock(j) => Moves(j, {"acquire"}, {"create", "done"})
        /\ Undo(j) => Moves(j, {"undoCreate", "undoFull"}, {"done"})
    BY DEF Trigger, AcquireLock, Undo, Return, Goto, Moves
  <1>2. /\ CreateRun(j) => Moves(j, {"create"}, {"auditTriggered", "undoCreate"})
        /\ AuditTriggered(j) => Moves(j, {"auditTriggered"}, {"enqueue"})
        /\ Enqueue(j) => Moves(j, {"enqueue"}, {"queued", "markFull"})
        /\ MarkFull(j) => Moves(j, {"markFull"}, {"undoFull"})
    BY DEF CreateRun, AuditTriggered, Enqueue, MarkFull, Goto, Moves
  <1>3. /\ MarkRunRunning(j) => Moves(j, {"markRunning"}, {"rebuild", "release"})
        /\ RecomputeReport(j) => Moves(j, {"rebuild"}, {"markCompleted", "markFailed"})
        /\ MarkRunFailed(j) => Moves(j, {"markFailed"}, {"auditFailed"})
        /\ AuditFailed(j) => Moves(j, {"auditFailed"}, {"release"})
    BY DEF MarkRunRunning, RecomputeReport, MarkRunFailed, AuditFailed, Goto, Moves
  <1>4. /\ MarkRunCompleted(j) => Moves(j, {"markCompleted"}, {"bump"})
        /\ BumpVersion(j) => Moves(j, {"bump"}, {"auditCompleted"})
        /\ AuditCompleted(j) => Moves(j, {"auditCompleted"}, {"release"})
        /\ ReleaseLock(j) => Moves(j, {"release"}, {"done"})
    BY DEF MarkRunCompleted, BumpVersion, AuditCompleted, ReleaseLock, Goto, Moves
  <1> QED  BY <1>1, <1>2, <1>3, <1>4

(* A step that moves a job within Trigger or within processJob, and leaves *)
(* the channel and the workers alone, keeps the carriers.                  *)
LEMMA CarrierFrame ==
    ASSUME TypeOK, SingleOwner, UNCHANGED <<queue, worker>>,
           \A i \in Jobs : /\ pc'[i] = "queued" <=> pc[i] = "queued"
                           /\ pc'[i] \in WorkerStages <=> pc[i] \in WorkerStages
    PROVE  SingleOwner'
  <1>1. queue' = queue /\ worker' = worker
    OBVIOUS
  <1>2. \A a \in 1..Len(queue) : queue[a] \in Jobs
    BY ElementOfSeq DEF TypeOK
  <1> QED  BY <1>1, <1>2 DEF SingleOwner

(* The stages a request's calls move between are not a carrier's; *)
(* neither do the calls of processJob leave it, but the last.     *)
LEMMA MoveKeepsCarrier ==
    ASSUME TypeOK, NEW j \in Jobs,
           \/ Moves(j, {"idle"} \cup TriggerStages, TriggerStages \cup {"done"})
           \/ Moves(j, WorkerStages, WorkerStages)
    PROVE  \A i \in Jobs : /\ pc'[i] = "queued" <=> pc[i] = "queued"
                           /\ pc'[i] \in WorkerStages <=> pc[i] \in WorkerStages
  BY DEF TypeOK, Moves, TriggerStages, WorkerStages

(* Every step keeps the carriers. *)
LEMMA SingleOwnerStep == TypeOK /\ SingleOwner /\ [Next]_vars => SingleOwner'
  <1> SUFFICES ASSUME TypeOK, SingleOwner, [Next]_vars
               PROVE  SingleOwner'
    OBVIOUS
  <1>1. ASSUME NEW j \in Jobs,
               \/ Trigger(j) \/ AcquireLock(j) \/ CreateRun(j) \/ AuditTriggered(j)
               \/ MarkFull(j) \/ Undo(j)
        PROVE  SingleOwner'
    <2>1. Moves(j, {"idle"} \cup TriggerStages, TriggerStages \cup {"done"})
      BY <1>1, PcMoves DEF Moves, TriggerStages
    <2>2. UNCHANGED <<queue, worker>>
      BY <1>1 DEF Trigger, AcquireLock, CreateRun, AuditTriggered, MarkFull, Undo
    <2> QED  BY <2>1, <2>2, MoveKeepsCarrier, CarrierFrame
  <1>2. ASSUME NEW j \in Jobs,
               \/ MarkRunRunning(j) \/ RecomputeReport(j) \/ MarkRunFailed(j) \/ AuditFailed(j)
               \/ MarkRunCompleted(j) \/ BumpVersion(j) \/ AuditCompleted(j)
        PROVE  SingleOwner'
    <2>1. Moves(j, WorkerStages, WorkerStages)
      BY <1>2, PcMoves DEF Moves, WorkerStages
    <2>2. UNCHANGED <<queue, worker>>
      BY <1>2 DEF MarkRunRunning, RecomputeReport, MarkRunFailed, AuditFailed,
                  MarkRunCompleted, BumpVersion, AuditCompleted
    <2> QED  BY <2>1, <2>2, MoveKeepsCarrier, CarrierFrame
  <1>3. ASSUME NEW j \in Jobs, Enqueue(j)
        PROVE  SingleOwner'
    <2>1. CASE Len(queue) < QueueSize
      <3>1. /\ pc[j] = "enqueue" /\ pc' = [pc EXCEPT ![j] = "queued"]
            /\ queue' = Append(queue, j) /\ worker' = worker
        BY <1>3, <2>1 DEF Enqueue, Goto
      <3>2. /\ Len(queue) \in Nat /\ Len(queue') = Len(queue) + 1
            /\ \A a \in 1..Len(queue) : queue'[a] = queue[a] /\ queue[a] \in Jobs
            /\ queue'[Len(queue) + 1] = j
        BY <3>1, AppendProperties, LenProperties, ElementOfSeq DEF TypeOK
      <3>3. \A a \in 1..Len(queue) : queue[a] # j
        BY <3>1 DEF SingleOwner
      <3>4. pc'[j] = "queued" /\ \A i \in Jobs \ {j} : pc'[i] = pc[i]
        BY <3>1 DEF TypeOK
      <3>5. Len(queue') <= QueueSize
        BY <2>1, <3>2, ConfigAssumption
      <3>6. \A a, b \in 1..Len(queue') : queue'[a] = queue'[b] => a = b
        BY <3>2, <3>3 DEF SingleOwner
      <3>7. \A a \in 1..Len(queue') : pc'[queue'[a]] = "queued"
        BY <3>2, <3>3, <3>4 DEF SingleOwner
      <3>8. \A i \in Jobs : pc'[i] = "queued" => \E a \in 1..Len(queue') : queue'[a] = i
        BY <3>2, <3>4 DEF SingleOwner
      <3>9. \A i \in Jobs : pc'[i] \in WorkerStages <=> pc[i] \in WorkerStages
        BY <3>1, <3>4 DEF WorkerStages
      <3> QED  BY <3>1, <3>5, <3>6, <3>7, <3>8, <3>9 DEF SingleOwner
    <2>2. CASE ~(Len(queue) < QueueSize)
      <3>1. UNCHANGED <<queue, worker>>
        BY <1>3, <2>2 DEF Enqueue
      <3>2. Moves(j, {"idle"} \cup TriggerStages, TriggerStages \cup {"done"})
        BY <1>3, <2>2 DEF Enqueue, Goto, Moves, TriggerStages
      <3> QED  BY <3>1, <3>2, MoveKeepsCarrier, CarrierFrame
    <2> QED  BY <2>1, <2>2
  <1>4. ASSUME NEW w \in Workers, Dequeue(w)
        PROVE  SingleOwner'
    <2> DEFINE j == Head(queue)
    <2>1. /\ worker[w] = NoJob /\ queue # <<>> /\ queue' = Tail(queue)
          /\ worker' = [worker EXCEPT ![w] = j]
          /\ pc' = [pc EXCEPT ![j] = "markRunning"]
      BY <1>4 DEF Dequeue
    <2>2. /\ Len(queue) \in Nat \ {0} /\ Len(queue') = Len(queue) - 1
          /\ \A a \in 1..Len(queue') : queue'[a] = queue[a + 1]
          /\ \A a \in 1..Len(queue) : queue[a] \in Jobs
          /\ j = queue[1] /\ j \in Jobs
      BY <2>1, HeadTailProperties, LenProperties, EmptySeq, ElementOfSeq DEF TypeOK
    <2> HIDE DEF j
    <2>3. pc[j] = "queued" /\ \A v \in Workers : worker[v] # j
      BY <2>2 DEF SingleOwner, WorkerStages
    <2>4. /\ pc'[j] = "markRunning" /\ \A i \in Jobs \ {j} : pc'[i] = pc[i]
          /\ worker'[w] = j /\ \A v \in Workers \ {w} : worker'[v] = worker[v]
      BY <2>1, <2>2 DEF TypeOK
    <2>5. \A a \in 1..Len(queue') : /\ a + 1 \in 1..Len(queue) /\ queue'[a] # j
                                    /\ queue'[a] \in Jobs
      <3> SUFFICES ASSUME NEW a \in 1..Len(queue')
                   PROVE  a + 1 \in 1..Len(queue) /\ queue'[a] # j /\ queue'[a] \in Jobs
        OBVIOUS
      <3>1. a + 1 \in 1..Len(queue) /\ a + 1 # 1 /\ 1 \in 1..Len(queue)
        BY <2>2
      <3>2. queue[a + 1] # queue[1]
        BY <3>1 DEF SingleOwner
      <3> QED  BY <3>1, <3>2, <2>2
    <2>6. Len(queue') <= QueueSize
      BY <2>2, ConfigAssumption DEF SingleOwner
    <2>7. \A a, b \in 1..Len(queue') : queue'[a] = queue'[b] => a = b
      BY <2>2, <2>5 DEF SingleOwner
    <2>8. \A a \in 1..Len(queue') : pc'[queue'[a]] = "queued"
      BY <2>2, <2>4, <2>5 DEF SingleOwner
    <2>9. \A i \in Jobs : pc'[i] = "queued" => \E a \in 1..Len(queue') : queue'[a] = i
      <3> SUFFICES ASSUME NEW i \in Jobs, pc'[i] = "queued"
                   PROVE  \E a \in 1..Len(queue') : queue'[a] = i
        OBVIOUS
      <3>1. i # j /\ pc[i] = "queued"
        BY <2>4
      <3>2. PICK a \in 1..Len(queue) : queue[a] = i
        BY <3>1 DEF SingleOwner
      <3>3. a # 1 /\ a - 1 \in 1..Len(queue') /\ (a - 1) + 1 = a
        BY <3>1, <3>2, <2>2
      <3> QED  BY <3>2, <3>3, <2>2
    <2>10. \A v \in Workers : worker'[v] \in Jobs => pc'[worker'[v]] \in WorkerStages
      BY <2>2, <2>3, <2>4 DEF SingleOwner, WorkerStages
    <2>11. \A u, v \in Workers : worker'[u] \in Jobs /\ worker'[u] = worker'[v] => u = v
      BY <2>3, <2>4 DEF SingleOwner
    <2>12. \A i \in Jobs : pc'[i] \in WorkerStages => \E v \in Workers : worker'[v] = i
      BY <2>1, <2>4, NullAssumption DEF SingleOwner
    <2> QED  BY <2>6, <2>7, <2>8, <2>9, <2>10, <2>11, <2>12 DEF SingleOwner
  <1>5. ASSUME NEW w \in Workers, WorkerExit(w)
        PROVE  SingleOwner'
    <2>1. pc' = pc /\ queue' = queue /\ worker[w] = NoJob /\ worker'[w] = Exited
      BY <1>5 DEF WorkerExit, TypeOK
    <2>2. \A v \in Workers \ {w} : worker'[v] = worker[v]
      BY <1>5 DEF WorkerExit, TypeOK
    <2> QED  BY <2>1, <2>2, NullAssumption DEF SingleOwner
  <1>6. ASSUME NEW j \in Jobs, ReleaseLock(j)
        PROVE  SingleOwner'
    <2>1. /\ pc[j] = "release" /\ pc' = [pc EXCEPT ![j] = "done"] /\ queue' = queue
          /\ \A v \in Workers : worker'[v] = IF worker[v] = j THEN NoJob ELSE worker[v]
      BY <1>6 DEF ReleaseLock, Goto
    <2>2. pc'[j] = "done" /\ \A i \in Jobs \ {j} : pc'[i] = pc[i]
      BY <2>1 DEF TypeOK
    <2>3. \A a \in 1..Len(queue) : queue[a] \in Jobs /\ queue[a] # j
      BY <2>1, ElementOfSeq DEF TypeOK, SingleOwner
    <2>4. \A v \in Workers : worker'[v] \in Jobs =>
              worker'[v] = worker[v] /\ worker'[v] # j
      BY <2>1, NullAssumption
    <2>5. \A i \in Jobs : pc'[i] = "queued" <=> pc[i] = "queued"
      BY <2>1, <2>2
    <2>6. \A i \in Jobs : pc'[i] \in WorkerStages => i # j /\ pc[i] \in WorkerStages
      BY <2>2 DEF WorkerStages
    <2>7. \A v \in Workers : worker'[v] \in Jobs => pc'[worker'[v]] \in WorkerStages
      BY <2>2, <2>4 DEF SingleOwner
    <2>8. \A i \in Jobs : pc'[i] \in WorkerStages => \E v \in Workers : worker'[v] = i
      BY <2>1, <2>6 DEF SingleOwner
    <2>9. \A u, v \in Workers : worker'[u] \in Jobs /\ worker'[u] = worker'[v] => u = v
      BY <2>4 DEF SingleOwner
    <2>10. \A a \in 1..Len(queue) : pc'[queue[a]] = "queued"
      BY <2>2, <2>3 DEF SingleOwner
    <2> QED  BY <2>1, <2>5, <2>7, <2>8, <2>9, <2>10 DEF SingleOwner
  <1>7. ASSUME \/ \E j \in Jobs : Expire(j)
               \/ \E k \in LockKeys : LockExpire(k)
               \/ Shutdown
               \/ UNCHANGED vars
        PROVE  SingleOwner'
    <2>1. UNCHANGED <<pc, queue, worker>>
      BY <1>7 DEF Expire, LockExpire, Shutdown, vars
    <2> QED  BY <2>1, CarrierFrame
  <1>8. ASSUME ProcessExit
        PROVE  SingleOwner'
    <2>1. queue' = <<>> /\ \A w \in Workers : worker'[w] = NoJob
      BY <1>8 DEF ProcessExit
    <2>2. \A j \in Jobs : pc'[j] \in {"idle", "done", "gone"}
      BY <1>8 DEF ProcessExit
    <2>3. Len(queue') = 0
      BY <2>1, EmptySeq
    <2> QED  BY <2>1, <2>2, <2>3, NullAssumption, ConfigAssumption DEF SingleOwner, WorkerStages
  <1> QED
    BY <1>1, <1>2, <1>3, <1>4, <1>5, <1>6, <1>7, <1>8
       DEF Next, TriggerStep, WorkerStep, Quiescent

(* At every point each job has exactly one carrier: the request's own      *)
(* goroutine, one place in the channel, or one worker.                     *)
THEOREM SingleOwnerCorrect == Spec => []SingleOwner
  <1>1. Init => SingleOwner
    <2> SUFFICES ASSUME Init PROVE SingleOwner
      OBVIOUS
    <2>1. /\ queue = <<>> /\ Len(queue) = 0
          /\ \A w \in Workers : worker[w] = NoJob
          /\ \A j \in Jobs : pc[j] = "idle"
      BY EmptySeq DEF Init
    <2> QED  BY <2>1, NullAssumption, ConfigAssumption DEF SingleOwner, WorkerStages
  <1> QED  BY <1>1, TypeCorrect, SingleOwnerStep, PTL DEF Spec

-----------------------------------------------------------------------------
(* The scope lock *)

(* A step that touches no lock and starts no job keeps the owners. *)
LEMMA LockFrame ==
    ASSUME LockHeld, UNCHANGED <<lock, lapsed>>,
           \A i \in Jobs : InProgress(i)' => InProgress(i)
    PROVE  LockHeld'
  BY DEF LockHeld

(* A call that leads from one stage of a job in progress to another, or    *)
(* out of it, starts no job.                                               *)
LEMMA MoveStartsNothing ==
    ASSUME TypeOK, NEW j \in Jobs, NEW from, NEW to, Moves(j, from, to),
           \/ from \cap {"idle", "acquire", "done", "gone"} = {}
           \/ to \subseteq {"idle", "acquire", "done", "gone"}
    PROVE  \A i \in Jobs : InProgress(i)' => InProgress(i)
  BY DEF TypeOK, Moves, InProgress

(* What a release does to the owners: job j leaves, no other loses a lock. *)
LEMMA ReleaseKeepsOthers ==
    ASSUME TypeOK, LockHeld, NEW j \in Jobs, UNCHANGED lapsed,
           lock' = lock \/ lock' = Release(j),
           pc' = [pc EXCEPT ![j] = "done"]
    PROVE  LockHeld'
  <1> SUFFICES ASSUME NEW i \in Jobs, InProgress(i)', i \notin lapsed'
               PROVE  lock'[lockKey(i)] = i
    BY DEF LockHeld
  <1>1. i # j /\ InProgress(i)
    BY DEF TypeOK, InProgress
  <1>2. lock[lockKey(i)] = i
    BY <1>1 DEF LockHeld
  <1> QED  BY <1>1, <1>2, KeyOfJob DEF TypeOK, Release

(* Every step leaves each lock with its owner. *)
LEMMA LockHeldStep ==
    TypeOK /\ SingleOwner /\ LockHeld /\ [Next]_vars => LockHeld'
  <1> SUFFICES ASSUME TypeOK, SingleOwner, LockHeld, [Next]_vars
               PROVE  LockHeld'
    OBVIOUS
  <1>1. ASSUME NEW j \in Jobs, Trigger(j)
        PROVE  LockHeld'
    <2>1. UNCHANGED <<lock, lapsed>>
      BY <1>1 DEF Trigger
    <2>2. Moves(j, {"idle"}, {"acquire", "done"})
      BY <1>1, PcMoves
    <2>3. \A i \in Jobs : InProgress(i)' => InProgress(i)
      BY <2>2, MoveStartsNothing
    <2> QED  BY <2>1, <2>3, LockFrame
  <1>2. ASSUME NEW j \in Jobs, AcquireLock(j)
        PROVE  LockHeld'
    <2>1. PICK o \in RedisOutcomes(j) :
             /\ lock' = IF Applied(o) THEN TryAcquire(j) ELSE lock
             /\ \/ o = "ok" /\ SetNX(j) /\ Goto(j, "create", o)
                \/ Goto(j, "done", "ok")
      BY <1>2 DEF AcquireLock, Return
    <2>2. lapsed' = lapsed /\ pc[j] = "acquire"
      BY <1>2 DEF AcquireLock
    <2> SUFFICES ASSUME NEW i \in Jobs, InProgress(i)', i \notin lapsed'
                 PROVE  lock'[lockKey(i)] = i
      BY DEF LockHeld
    <2>3. CASE i = j
      <3>1. o = "ok" /\ SetNX(j)
        BY <2>1, <2>3 DEF Goto, InProgress, TypeOK
      <3> QED  BY <3>1, <2>1, <2>3, KeyOfJob DEF Applied, TryAcquire, TypeOK
    <2>4. CASE i # j
      <3>1. InProgress(i)
        BY <2>1, <2>4 DEF Goto, InProgress, TypeOK
      <3>2. lock[lockKey(i)] = i /\ i # NoJob
        BY <3>1, <2>2, NullAssumption DEF LockHeld
      <3>3. lock' = lock \/ (SetNX(j) /\ lock' = [lock EXCEPT ![lockKey(j)] = j])
        BY <2>1 DEF TryAcquire
      <3> QED  BY <3>2, <3>3, KeyOfJob DEF SetNX, TypeOK
    <2> QED  BY <2>3, <2>4
  <1>3. ASSUME NEW j \in Jobs,
               \/ CreateRun(j) \/ AuditTriggered(j) \/ Enqueue(j) \/ MarkFull(j)
               \/ MarkRunRunning(j) \/ RecomputeReport(j) \/ MarkRunFailed(j) \/ AuditFailed(j)
               \/ MarkRunCompleted(j) \/ BumpVersion(j) \/ AuditCompleted(j)
        PROVE  LockHeld'
    <2>1. UNCHANGED <<lock, lapsed>>
      BY <1>3 DEF CreateRun, AuditTriggered, Enqueue, MarkFull, MarkRunRunning,
                  RecomputeReport, MarkRunFailed, AuditFailed, MarkRunCompleted,
                  BumpVersion, AuditCompleted
    <2>2. Moves(j, {pc[j]}, Stages) /\ pc[j] \notin {"idle", "acquire", "done", "gone"}
      BY <1>3, PcMoves DEF Moves, Stages, TriggerStages, WorkerStages
    <2>3. \A i \in Jobs : InProgress(i)' => InProgress(i)
      BY <2>2, MoveStartsNothing
    <2> QED  BY <2>1, <2>3, LockFrame
  <1>4. ASSUME NEW j \in Jobs, Undo(j) \/ ReleaseLock(j)
        PROVE  LockHeld'
    <2>1. /\ lapsed' = lapsed
          /\ lock' = lock \/ lock' = Release(j)
          /\ pc' = [pc EXCEPT ![j] = "done"]
      BY <1>4 DEF Undo, ReleaseLock, Return, Goto
    <2> QED  BY <2>1, ReleaseKeepsOthers
  <1>5. ASSUME NEW w \in Workers, Dequeue(w)
        PROVE  LockHeld'
    <2>1. UNCHANGED <<lock, lapsed>> /\ queue # <<>>
          /\ pc' = [pc EXCEPT ![Head(queue)] = "markRunning"]
      BY <1>5 DEF Dequeue
    <2>2. Head(queue) \in Jobs /\ Head(queue) = queue[1] /\ 1 \in 1..Len(queue)
      BY <2>1, HeadTailProperties, EmptySeq DEF TypeOK
    <2>3. pc[Head(queue)] = "queued"
      BY <2>2 DEF SingleOwner
    <2>4. \A i \in Jobs : InProgress(i)' => InProgress(i)
      BY <2>1, <2>2, <2>3 DEF InProgress, TypeOK
    <2> QED  BY <2>1, <2>4, LockFrame
  <1>6. ASSUME NEW k \in LockKeys, LockExpire(k)
        PROVE  LockHeld'
    <2> SUFFICES ASSUME NEW i \in Jobs, InProgress(i)', i \notin lapsed'
                 PROVE  lock'[lockKey(i)] = i
      BY DEF LockHeld
    <2>1. /\ lock' = [lock EXCEPT ![k] = NoJob] /\ pc' = pc
          /\ lapsed' = lapsed \cup {lock[k]}
      BY <1>6 DEF LockExpire
    <2>2. InProgress(i) /\ i \notin lapsed /\ i # lock[k]
      BY <2>1 DEF InProgress
    <2>3. lock[lockKey(i)] = i
      BY <2>2 DEF LockHeld
    <2> QED  BY <2>1, <2>2, <2>3, KeyOfJob DEF TypeOK
  <1>7. ASSUME ProcessExit
        PROVE  LockHeld'
    <2>1. UNCHANGED <<lock, lapsed>> /\ \A i \in Jobs : ~InProgress(i)'
      BY <1>7 DEF ProcessExit, InProgress
    <2> QED  BY <2>1, LockFrame
  <1>8. ASSUME \/ \E j \in Jobs : Expire(j)
               \/ \E w \in Workers : WorkerExit(w)
               \/ Shutdown
               \/ UNCHANGED vars
        PROVE  LockHeld'
    <2>1. UNCHANGED <<pc, lock, lapsed>>
      BY <1>8 DEF Expire, WorkerExit, Shutdown, vars
    <2> QED  BY <2>1, LockFrame DEF InProgress
  <1> QED
    BY <1>1, <1>2, <1>3, <1>4, <1>5, <1>6, <1>7, <1>8
       DEF Next, TriggerStep, WorkerStep, Quiescent

(* A job in progress owns the key of its scope until the key's TTL. *)
THEOREM LockHeldCorrect == Spec => []LockHeld
  <1>1. Init => LockHeld
    BY DEF Init, LockHeld, InProgress
  <1> QED  BY <1>1, TypeCorrect, SingleOwnerCorrect, LockHeldStep, PTL DEF Spec

(* Two requests for the same report, window and dates are never in         *)
(* progress together unless a lock reached its TTL, whatever fails.        *)
THEOREM ScopeMutexCorrect == Spec => []ScopeMutex
  <1>1. LockHeld => ScopeMutex
    BY DEF LockHeld, ScopeMutex
  <1> QED  BY <1>1, LockHeldCorrect, PTL

(* A held key changes hands only by its TTL or by its owner's release. *)
THEOREM LockHandOverCorrect == Spec => LockHandOver
  <1>1. ASSUME TypeOK, [Next]_vars, NEW k \in LockKeys, lock[k] # NoJob, lock'[k] # lock[k]
        PROVE  /\ lock'[k] = NoJob
               /\ \/ lapsed' = lapsed \cup {lock[k]}
                  \/ /\ pc[lock[k]] \in {"undoCreate", "undoFull", "release"}
                     /\ pc'[lock[k]] = "done"
    <2>1. CASE \E j \in Jobs : AcquireLock(j)
      <3>1. PICK j \in Jobs : lock' = lock \/ lock' = TryAcquire(j)
        BY <2>1 DEF AcquireLock
      <3> QED  BY <3>1, <1>1, KeyOfJob DEF TryAcquire, SetNX, TypeOK
    <2>2. CASE \E j \in Jobs : Undo(j) \/ ReleaseLock(j)
      <3>1. PICK j \in Jobs : /\ lock' = lock \/ lock' = Release(j)
                              /\ pc[j] \in {"undoCreate", "undoFull", "release"}
                              /\ pc' = [pc EXCEPT ![j] = "done"]
        BY <2>2 DEF Undo, ReleaseLock, Return, Goto
      <3>2. lock[k] = j /\ lock'[k] = NoJob
        BY <3>1, <1>1, KeyOfJob DEF Release, TypeOK
      <3>3. pc'[j] = "done"
        BY <3>1, <1>1 DEF TypeOK
      <3> QED  BY <3>1, <3>2, <3>3
    <2>3. CASE \E m \in LockKeys : LockExpire(m)
      <3>1. PICK m \in LockKeys : LockExpire(m)
        BY <2>3
      <3>2. m = k
        BY <3>1, <1>1 DEF LockExpire, TypeOK
      <3>3. lock' = [lock EXCEPT ![k] = NoJob] /\ lapsed' = lapsed \cup {lock[k]}
        BY <3>1, <3>2 DEF LockExpire
      <3>4. lock'[k] = NoJob
        BY <3>3, <1>1 DEF TypeOK
      <3> QED  BY <3>3, <3>4
    <2>4. ASSUME ~(\E j \in Jobs : AcquireLock(j) \/ Undo(j) \/ ReleaseLock(j)),
                 ~(\E m \in LockKeys : LockExpire(m))
          PROVE  lock' = lock
      BY <1>1, <2>4
         DEF Next, TriggerStep, WorkerStep, Trigger, CreateRun, AuditTriggered, Enqueue,
             MarkFull, MarkRunRunning, RecomputeReport, MarkRunFailed, AuditFailed,
             MarkRunCompleted, BumpVersion, AuditCompleted, Dequeue, WorkerExit, Expire,
             Shutdown, ProcessExit, Quiescent, vars
    <2> QED  BY <1>1, <2>1, <2>2, <2>3, <2>4
  <1>2. TypeOK /\ [Next]_vars =>
          [\A k \in LockKeys :
              lock[k] # NoJob /\ lock'[k] # lock[k] =>
                  /\ lock'[k] = NoJob
                  /\ \/ lapsed' = lapsed \cup {lock[k]}
                     \/ /\ pc[lock[k]] \in {"undoCreate", "undoFull", "release"}
                        /\ pc'[lock[k]] = "done"]_vars
    BY <1>1
  <1> QED  BY <1>2, TypeCorrect, PTL DEF Spec, LockHandOver

-----------------------------------------------------------------------------
(* The rows *)

(* The rows, the version bump and the audit entries of job i are as before. *)
RowsKept(i) ==
    /\ runs'[i] = runs[i]
    /\ i \in committed' <=> i \in committed
    /\ i \in bumped' <=> i \in bumped
    /\ \A ac \in AuditActions : <<ac, i>> \in audits' <=> <<ac, i>> \in audits

(* A job nothing happens to stays as it was. *)
LEMMA MatchesFrame ==
    ASSUME NEW i \in Jobs, Matches(i), RowsKept(i), pc'[i] = pc[i]
    PROVE  Matches(i)'
  BY DEF Matches, RowsKept, AuditActions

(* The calls made for job j write no other job's rows. *)
LEMMA OthersKept ==
    ASSUME TypeOK, NEW j \in Jobs, TriggerStep(j) \/ WorkerStep(j)
    PROVE  \A i \in Jobs \ {j} : RowsKept(i) /\ pc'[i] = pc[i]
  <1> SUFFICES ASSUME NEW i \in Jobs \ {j}
               PROVE  RowsKept(i) /\ pc'[i] = pc[i]
    OBVIOUS
  <1>1. pc'[i] = pc[i]
    BY PcMoves DEF TriggerStep, WorkerStep, Moves, TypeOK
  <1>2. runs'[i] = runs[i]
    BY DEF TriggerStep, WorkerStep, Trigger, AcquireLock, CreateRun, AuditTriggered, Enqueue,
           MarkFull, Undo, MarkRunRunning, RecomputeReport, MarkRunFailed, AuditFailed,
           MarkRunCompleted, BumpVersion, AuditCompleted, ReleaseLock, InsertRun, SetStatus, TypeOK
  <1>3. i \in committed' <=> i \in committed
    BY DEF TriggerStep, WorkerStep, Trigger, AcquireLock, CreateRun, AuditTriggered, Enqueue,
           MarkFull, Undo, MarkRunRunning, RecomputeReport, MarkRunFailed, AuditFailed,
           MarkRunCompleted, BumpVersion, AuditCompleted, ReleaseLock
  <1>4. i \in bumped' <=> i \in bumped
    BY DEF TriggerStep, WorkerStep, Trigger, AcquireLock, CreateRun, AuditTriggered, Enqueue,
           MarkFull, Undo, MarkRunRunning, RecomputeReport, MarkRunFailed, AuditFailed,
           MarkRunCompleted, BumpVersion, AuditCompleted, ReleaseLock
  <1>5. \A ac \in AuditActions : <<ac, i>> \in audits' <=> <<ac, i>> \in audits
    BY DEF TriggerStep, WorkerStep, Trigger, AcquireLock, CreateRun, AuditTriggered, Enqueue,
           MarkFull, Undo, MarkRunRunning, RecomputeReport, MarkRunFailed, AuditFailed,
           MarkRunCompleted, BumpVersion, AuditCompleted, ReleaseLock, CreateEntry
  <1> QED  BY <1>1, <1>2, <1>3, <1>4, <1>5 DEF RowsKept

(* Every call made for job j leaves its stage and its rows in agreement,   *)
(* whatever its outcome.                                                   *)
LEMMA CallKeepsMatches ==
    ASSUME TypeOK, NEW j \in Jobs, Matches(j), TriggerStep(j) \/ WorkerStep(j)
    PROVE  Matches(j)'
  <1> USE DEF TypeOK, Goto, Return, TriggerStages, Matches
  <1>1. CASE Trigger(j)
    BY <1>1 DEF Trigger
  <1>2. CASE AcquireLock(j)
    BY <1>2 DEF AcquireLock
  <1>3. CASE CreateRun(j)
    BY <1>3 DEF CreateRun, InsertRun, SetStatus, Applied
  <1>4. CASE AuditTriggered(j)
    BY <1>4 DEF AuditTriggered, CreateEntry
  <1>5. CASE Enqueue(j)
    BY <1>5 DEF Enqueue
  <1>6. CASE MarkFull(j)
    BY <1>6 DEF MarkFull, SetStatus
  <1>7. CASE Undo(j)
    BY <1>7 DEF Undo
  <1>8. CASE MarkRunRunning(j)
    BY <1>8 DEF MarkRunRunning, SetStatus, Applied
  <1>9. CASE RecomputeReport(j)
    BY <1>9 DEF RecomputeReport, Applied
  <1>10. CASE MarkRunFailed(j)
    BY <1>10 DEF MarkRunFailed, SetStatus
  <1>11. CASE AuditFailed(j)
    BY <1>11 DEF AuditFailed, CreateEntry
  <1>12. CASE MarkRunCompleted(j)
    BY <1>12 DEF MarkRunCompleted, SetStatus
  <1>13. CASE BumpVersion(j)
    BY <1>13 DEF BumpVersion
  <1>14. CASE AuditCompleted(j)
    BY <1>14 DEF AuditCompleted, CreateEntry
  <1>15. CASE ReleaseLock(j)
    BY <1>15 DEF ReleaseLock
  <1> QED
    BY <1>1, <1>2, <1>3, <1>4, <1>5, <1>6, <1>7, <1>8, <1>9, <1>10, <1>11, <1>12,
       <1>13, <1>14, <1>15 DEF TriggerStep, WorkerStep

(* A step of the environment or of the channel writes no rows. *)
LEMMA EnvironmentKeepsRows ==
    ASSUME NEW i \in Jobs,
           \/ \E j \in Jobs : Expire(j)
           \/ \E w \in Workers : Dequeue(w) \/ WorkerExit(w)
           \/ \E k \in LockKeys : LockExpire(k)
           \/ Shutdown \/ ProcessExit \/ UNCHANGED vars
    PROVE  RowsKept(i)
  <1>1. UNCHANGED <<runs, committed, bumped, audits>>
    BY DEF Expire, Dequeue, WorkerExit, LockExpire, Shutdown, ProcessExit, vars
  <1> QED  BY <1>1 DEF RowsKept

(* A dequeued job was queued. *)
LEMMA DequeueMoves ==
    ASSUME TypeOK, SingleOwner, NEW w \in Workers, Dequeue(w)
    PROVE  \E j \in Jobs : Moves(j, {"queued"}, {"markRunning"})
  <1>1. queue # <<>> /\ pc' = [pc EXCEPT ![Head(queue)] = "markRunning"]
    BY DEF Dequeue
  <1>2. Head(queue) \in Jobs /\ Head(queue) = queue[1] /\ 1 \in 1..Len(queue)
    BY <1>1, HeadTailProperties, EmptySeq DEF TypeOK
  <1>3. pc[Head(queue)] = "queued"
    BY <1>2 DEF SingleOwner
  <1> QED  BY <1>1, <1>2, <1>3 DEF Moves

(* Every step leaves the stages and the rows in agreement. *)
LEMMA StageMatchesRowsStep ==
    TypeOK /\ SingleOwner /\ StageMatchesRows /\ [Next]_vars => StageMatchesRows'
  <1> SUFFICES ASSUME TypeOK, SingleOwner, StageMatchesRows, [Next]_vars,
                      NEW i \in Jobs
               PROVE  Matches(i)'
    BY DEF StageMatchesRows
  <1>1. Matches(i)
    BY DEF StageMatchesRows
  <1>2. ASSUME NEW j \in Jobs, TriggerStep(j) \/ WorkerStep(j)
        PROVE  Matches(i)'
    <2>1. CASE i = j
      BY <2>1, <1>1, <1>2, CallKeepsMatches
    <2>2. CASE i # j
      BY <2>2, <1>1, <1>2, OthersKept, MatchesFrame
    <2> QED  BY <2>1, <2>2
  <1>3. ASSUME NEW w \in Workers, Dequeue(w)
        PROVE  Matches(i)'
    <2>1. RowsKept(i)
      BY <1>3, EnvironmentKeepsRows
    <2>2. PICK j \in Jobs : Moves(j, {"queued"}, {"markRunning"})
      BY <1>3, DequeueMoves
    <2>3. pc'[i] = pc[i] \/ (pc[i] = "queued" /\ pc'[i] = "markRunning")
      BY <2>2 DEF Moves, TypeOK
    <2> QED  BY <1>1, <2>1, <2>3 DEF Matches, RowsKept, AuditActions, TriggerStages
  <1>4. ASSUME ProcessExit
        PROVE  Matches(i)'
    <2>1. RowsKept(i)
      BY <1>4, EnvironmentKeepsRows
    <2>2. pc'[i] = pc[i] \/ pc'[i] = "gone"
      BY <1>4 DEF ProcessExit
    <2> QED  BY <1>1, <2>1, <2>2 DEF Matches, RowsKept, AuditActions, TriggerStages
  <1>5. ASSUME \/ \E j \in Jobs : Expire(j)
               \/ \E w \in Workers : WorkerExit(w)
               \/ \E k \in LockKeys : LockExpire(k)
               \/ Shutdown \/ UNCHANGED vars
        PROVE  Matches(i)'
    <2>1. RowsKept(i)
      BY <1>5, EnvironmentKeepsRows
    <2>2. pc' = pc
      BY <1>5 DEF Expire, WorkerExit, LockExpire, Shutdown, vars
    <2> QED  BY <1>1, <2>1, <2>2, MatchesFrame
  <1> QED  BY <1>2, <1>3, <1>4, <1>5 DEF Next, Quiescent

(* Between any two calls of any goroutine, a job's stage and its rows      *)
(* agree, also when calls fail or lie and when processes die.              *)
THEOREM StageMatchesRowsCorrect == Spec => []StageMatchesRows
  <1>1. Init => StageMatchesRows
    BY DEF Init, StageMatchesRows, Matches
  <1> QED  BY <1>1, TypeCorrect, SingleOwnerCorrect, StageMatchesRowsStep, PTL DEF Spec

-----------------------------------------------------------------------------
(* Outcomes *)

(* What is said of job j is true of its transaction. *)
Truthful(j) ==
    /\ (runs[j] = "completed" \/ j \in bumped \/ <<"recompute.completed", j>> \in audits)
          => j \in committed
    /\ <<"recompute.failed", j>> \in audits
          => <<"recompute.completed", j>> \notin audits /\ j \notin bumped

(* Every call made for job j keeps it so. *)
LEMMA CallKeepsTruth ==
    ASSUME TypeOK, NEW j \in Jobs, Matches(j), Truthful(j), TriggerStep(j) \/ WorkerStep(j)
    PROVE  Truthful(j)'
  <1> USE DEF TypeOK, Truthful, Matches
  <1>1. CASE Trigger(j) \/ AcquireLock(j) \/ Enqueue(j) \/ Undo(j) \/ ReleaseLock(j)
    BY <1>1 DEF Trigger, AcquireLock, Enqueue, Undo, ReleaseLock
  <1>2. CASE CreateRun(j) \/ MarkFull(j) \/ MarkRunRunning(j) \/ MarkRunFailed(j)
    BY <1>2 DEF CreateRun, InsertRun, MarkFull, MarkRunRunning, MarkRunFailed, SetStatus
  <1>3. CASE MarkRunCompleted(j)
    BY <1>3 DEF MarkRunCompleted, SetStatus
  <1>4. CASE AuditTriggered(j)
    BY <1>4 DEF AuditTriggered, CreateEntry
  <1>5. CASE AuditFailed(j)
    BY <1>5 DEF AuditFailed, CreateEntry
  <1>6. CASE AuditCompleted(j)
    BY <1>6 DEF AuditCompleted, CreateEntry
  <1>7. CASE RecomputeReport(j)
    BY <1>7 DEF RecomputeReport
  <1>8. CASE BumpVersion(j)
    BY <1>8 DEF BumpVersion
  <1> QED
    BY <1>1, <1>2, <1>3, <1>4, <1>5, <1>6, <1>7, <1>8 DEF TriggerStep, WorkerStep

(* Every step keeps it so. *)
LEMMA OutcomeTruthfulStep ==
    TypeOK /\ StageMatchesRows /\ OutcomeTruthful /\ [Next]_vars => OutcomeTruthful'
  <1> SUFFICES ASSUME TypeOK, StageMatchesRows, OutcomeTruthful, [Next]_vars,
                      NEW i \in Jobs
               PROVE  Truthful(i)'
    BY DEF OutcomeTruthful, Truthful
  <1>1. Matches(i) /\ Truthful(i)
    BY DEF StageMatchesRows, OutcomeTruthful, Truthful
  <1>2. ASSUME RowsKept(i)
        PROVE  Truthful(i)'
    BY <1>1, <1>2 DEF Truthful, RowsKept, AuditActions
  <1>3. ASSUME NEW j \in Jobs, TriggerStep(j) \/ WorkerStep(j)
        PROVE  Truthful(i)'
    <2>1. CASE i = j
      BY <2>1, <1>1, <1>3, CallKeepsTruth
    <2>2. CASE i # j
      BY <2>2, <1>2, <1>3, OthersKept
    <2> QED  BY <2>1, <2>2
  <1> QED  BY <1>2, <1>3, EnvironmentKeepsRows DEF Next, Quiescent

(* A run is called completed, in its row, in the audit trail or by a       *)
(* version bump, only after its rebuild committed, and never after a       *)
(* failure was audited.                                                    *)
THEOREM OutcomeTruthfulCorrect == Spec => []OutcomeTruthful
  <1>1. Init => OutcomeTruthful
    BY DEF Init, OutcomeTruthful
  <1> QED
    BY <1>1, TypeCorrect, StageMatchesRowsCorrect, OutcomeTruthfulStep, PTL DEF Spec

-----------------------------------------------------------------------------
(* Execution needs acceptance *)

(* If job j is executed, its request was accepted. *)
Accepted(j) ==
    (\/ pc[j] \in {"queued"} \cup WorkerStages
     \/ runs[j] \in {"running", "completed"}
     \/ j \in committed)
        => resp[j] = "accepted"

(* Every call made for job j keeps it so: what Trigger answers, it answers *)
(* at a stage whose run was not started.                                   *)
LEMMA CallKeepsAccepted ==
    ASSUME TypeOK, NEW j \in Jobs, Matches(j), Accepted(j), TriggerStep(j) \/ WorkerStep(j)
    PROVE  Accepted(j)'
  <1> USE DEF TypeOK, Accepted, Matches, Goto, Return, TriggerStages, WorkerStages
  <1>1. CASE Trigger(j) \/ AcquireLock(j) \/ Undo(j)
    <2>1. UNCHANGED <<runs, committed>> /\ runs[j] \notin {"running", "completed"}
      BY <1>1 DEF Trigger, AcquireLock, Undo
    <2>2. j \notin committed
      BY <1>1 DEF Trigger, AcquireLock, Undo
    <2>3. pc'[j] \in {"acquire", "create", "done"}
      BY <1>1 DEF Trigger, AcquireLock, Undo
    <2> QED  BY <2>1, <2>2, <2>3
  <1>2. CASE CreateRun(j)
    BY <1>2 DEF CreateRun, InsertRun, SetStatus
  <1>3. CASE AuditTriggered(j)
    BY <1>3 DEF AuditTriggered
  <1>4. CASE Enqueue(j)
    BY <1>4 DEF Enqueue
  <1>5. CASE MarkFull(j)
    BY <1>5 DEF MarkFull, SetStatus
  <1>6. CASE WorkerStep(j)
    <2>1. pc[j] \in WorkerStages /\ resp' = resp
      BY <1>6 DEF WorkerStep, MarkRunRunning, RecomputeReport, MarkRunFailed, AuditFailed,
                  MarkRunCompleted, BumpVersion, AuditCompleted, ReleaseLock
    <2> QED  BY <2>1
  <1> QED  BY <1>1, <1>2, <1>3, <1>4, <1>5, <1>6 DEF TriggerStep

(* The calls made for job j answer no other request. *)
LEMMA AnswersOwn ==
    ASSUME TypeOK, NEW j \in Jobs, TriggerStep(j) \/ WorkerStep(j), NEW i \in Jobs \ {j}
    PROVE  resp'[i] = resp[i]
  BY DEF TriggerStep, WorkerStep, Trigger, AcquireLock, CreateRun, AuditTriggered, Enqueue,
         MarkFull, Undo, MarkRunRunning, RecomputeReport, MarkRunFailed, AuditFailed,
         MarkRunCompleted, BumpVersion, AuditCompleted, ReleaseLock, Return, TypeOK

(* Every step keeps it so. *)
LEMMA OnlyAcceptedRunStep ==
    /\ TypeOK /\ SingleOwner /\ StageMatchesRows
    /\ OnlyAcceptedRun /\ [Next]_vars
    => OnlyAcceptedRun'
  <1> SUFFICES ASSUME TypeOK, SingleOwner, StageMatchesRows, OnlyAcceptedRun, [Next]_vars,
                      NEW i \in Jobs
               PROVE  Accepted(i)'
    BY DEF OnlyAcceptedRun, Accepted
  <1>1. Matches(i) /\ Accepted(i)
    BY DEF StageMatchesRows, OnlyAcceptedRun, Accepted
  <1>2. ASSUME NEW j \in Jobs, TriggerStep(j) \/ WorkerStep(j)
        PROVE  Accepted(i)'
    <2>1. CASE i = j
      BY <2>1, <1>1, <1>2, CallKeepsAccepted
    <2>2. CASE i # j
      <3>1. RowsKept(i) /\ pc'[i] = pc[i] /\ resp'[i] = resp[i]
        BY <2>2, <1>2, OthersKept, AnswersOwn
      <3> QED  BY <3>1, <1>1 DEF Accepted, RowsKept
    <2> QED  BY <2>1, <2>2
  <1>3. ASSUME \/ \E j \in Jobs : Expire(j)
               \/ \E w \in Workers : Dequeue(w) \/ WorkerExit(w)
               \/ \E k \in LockKeys : LockExpire(k)
               \/ Shutdown \/ ProcessExit \/ UNCHANGED vars
        PROVE  Accepted(i)'
    <2>1. RowsKept(i)
      BY <1>3, EnvironmentKeepsRows
    <2>2. resp' = resp
      BY <1>3 DEF Expire, Dequeue, WorkerExit, LockExpire, Shutdown, ProcessExit, vars
    <2>3. CASE \E w \in Workers : Dequeue(w)
      <3>1. PICK j \in Jobs : Moves(j, {"queued"}, {"markRunning"})
        BY <2>3, DequeueMoves
      <3>2. pc'[i] = pc[i] \/ pc[i] = "queued"
        BY <3>1 DEF Moves, TypeOK
      <3> QED  BY <1>1, <2>1, <2>2, <3>2 DEF Accepted, RowsKept
    <2>4. CASE ~(\E w \in Workers : Dequeue(w))
      <3>1. pc'[i] = pc[i] \/ pc'[i] = "gone"
        BY <1>3, <2>4 DEF Expire, WorkerExit, LockExpire, Shutdown, ProcessExit, vars
      <3> QED  BY <1>1, <2>1, <2>2, <3>1 DEF Accepted, RowsKept, WorkerStages
    <2> QED  BY <2>3, <2>4
  <1> QED  BY <1>2, <1>3 DEF Next, Quiescent

(* Only a request that was answered 202 is ever executed. *)
THEOREM OnlyAcceptedRunCorrect == Spec => []OnlyAcceptedRun
  <1>1. Init => OnlyAcceptedRun
    BY DEF Init, OnlyAcceptedRun, WorkerStages
  <1> QED
    BY <1>1, TypeCorrect, SingleOwnerCorrect, StageMatchesRowsCorrect,
       OnlyAcceptedRunStep, PTL DEF Spec

-----------------------------------------------------------------------------
(* The service implements the lifecycle of its runs *)

(* Every call made for job j is a step of the lifecycle or none. *)
LEMMA CallRefines ==
    ASSUME TypeOK, NEW j \in Jobs, Matches(j), TriggerStep(j) \/ WorkerStep(j)
    PROVE  RL!LNext \/ UNCHANGED <<runs, committed>>
  <1> USE DEF Matches, RL!Move
  <1>1. CASE CreateRun(j)
    <2>1. runs[j] = "absent" /\ committed' = committed
      BY <1>1 DEF CreateRun
    <2>2. runs' = runs \/ runs' = [runs EXCEPT ![j] = "pending"]
      BY <1>1 DEF CreateRun, InsertRun, SetStatus
    <2> QED  BY <2>1, <2>2 DEF RL!LNext, RL!Create
  <1>2. CASE MarkFull(j)
    <2>1. runs[j] = "pending" /\ committed' = committed
      BY <1>2 DEF MarkFull
    <2>2. runs' = runs \/ runs' = [runs EXCEPT ![j] = "failed"]
      BY <1>2 DEF MarkFull, SetStatus
    <2> QED  BY <2>1, <2>2 DEF RL!LNext, RL!Fail
  <1>3. CASE MarkRunRunning(j)
    <2>1. runs[j] = "pending" /\ committed' = committed
      BY <1>3 DEF MarkRunRunning
    <2>2. runs' = runs \/ runs' = [runs EXCEPT ![j] = "running"]
      BY <1>3 DEF MarkRunRunning, SetStatus
    <2> QED  BY <2>1, <2>2 DEF RL!LNext, RL!Start
  <1>4. CASE RecomputeReport(j)
    <2>1. runs[j] = "running" /\ j \notin committed /\ runs' = runs
      BY <1>4 DEF RecomputeReport
    <2>2. committed' = committed \/ committed' = committed \cup {j}
      BY <1>4 DEF RecomputeReport
    <2> QED  BY <2>1, <2>2 DEF RL!LNext, RL!Rebuild
  <1>5. CASE MarkRunFailed(j)
    <2>1. runs[j] = "running" /\ committed' = committed
      BY <1>5 DEF MarkRunFailed
    <2>2. runs' = runs \/ runs' = [runs EXCEPT ![j] = "failed"]
      BY <1>5 DEF MarkRunFailed, SetStatus
    <2> QED  BY <2>1, <2>2 DEF RL!LNext, RL!Fail
  <1>6. CASE MarkRunCompleted(j)
    <2>1. runs[j] = "running" /\ j \in committed /\ committed' = committed
      BY <1>6 DEF MarkRunCompleted
    <2>2. runs' = runs \/ runs' = [runs EXCEPT ![j] = "completed"]
      BY <1>6 DEF MarkRunCompleted, SetStatus
    <2> QED  BY <2>1, <2>2 DEF RL!LNext, RL!Complete
  <1>7. CASE \/ Trigger(j) \/ AcquireLock(j) \/ AuditTriggered(j) \/ Enqueue(j) \/ Undo(j)
             \/ AuditFailed(j) \/ BumpVersion(j) \/ AuditCompleted(j) \/ ReleaseLock(j)
    BY <1>7 DEF Trigger, AcquireLock, AuditTriggered, Enqueue, Undo, AuditFailed,
                BumpVersion, AuditCompleted, ReleaseLock
  <1> QED  BY <1>1, <1>2, <1>3, <1>4, <1>5, <1>6, <1>7 DEF TriggerStep, WorkerStep

(* Every behaviour of the service is, for a client that looks at run rows, *)
(* a behaviour of RunLifecycle: statuses only move forward, a terminal one *)
(* is final, a rebuild happens once, after "running", before "completed".  *)
THEOREM LifecycleRefinement == Spec => ImplementsLifecycle
  <1>1. Init => RL!LInit
    BY DEF Init, RL!LInit
  <1>2. TypeOK /\ StageMatchesRows /\ [Next]_vars => [RL!LNext]_(RL!lifecycleVars)
    <2> SUFFICES ASSUME TypeOK, StageMatchesRows, [Next]_vars
                 PROVE  RL!LNext \/ UNCHANGED <<runs, committed>>
      BY DEF RL!lifecycleVars
    <2>1. ASSUME NEW j \in Jobs, TriggerStep(j) \/ WorkerStep(j)
          PROVE  RL!LNext \/ UNCHANGED <<runs, committed>>
      BY <2>1, CallRefines DEF StageMatchesRows
    <2>2. ASSUME ~(\E j \in Jobs : TriggerStep(j) \/ WorkerStep(j))
          PROVE  UNCHANGED <<runs, committed>>
      BY <2>2 DEF Next, Expire, Dequeue, WorkerExit, LockExpire, Shutdown, ProcessExit,
                  Quiescent, vars
    <2> QED  BY <2>1, <2>2
  <1> QED
    BY <1>1, <1>2, TypeCorrect, StageMatchesRowsCorrect, PTL
       DEF Spec, ImplementsLifecycle, RL!LSpec
=============================================================================
