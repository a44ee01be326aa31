--------------------------- MODULE WorkerLoopProofs ---------------------------
(***************************************************************************)
(* Proofs about worker loops, for any number of loops and jobs, any leases *)
(* and any speed: a loop's picture of its job agrees with the records, its *)
(* worker owns no other job, and it calls as SoleDriver of JobQueue wants. *)
(***************************************************************************)
EXTENDS WorkerLoop, JobQueueProofs

USE ParamAssumption, LoopAssumption

-------------------------------------------------------------------------------
(* The invariant *)

\* What loop w believes, and what its worker points at.
LoopKnows(w) ==
  /\ pc[w] = "dispatch" <=> exec[w] # None
  /\ exec[w] # None => exec[w] = <<w, got[w]>>
  /\ pc[w] \in {"claimed", "dispatch"} <=> got[w] # None
  /\ pc[w] \in {"claimed", "dispatch"} => current_job[w] \in {None, got[w]}
  /\ pc[w] \in {"off", "repair"} => current_job[w] = None

LoopsKnow == \A w \in Worker : LoopKnows(w)

LEMMA InitLoops == LoopInit => LoopTypeOK /\ LoopsKnow /\ OwnerHolds
<1> SUFFICES ASSUME LoopInit PROVE LoopTypeOK /\ LoopsKnow /\ OwnerHolds
  OBVIOUS
<1>1. Init /\ TypeOK
  BY InitType DEF LoopInit
<1>2. LoopTypeOK
  BY <1>1 DEF LoopInit, LoopTypeOK, At
<1>3. LoopsKnow
  BY <1>1 DEF LoopInit, Init, LoopsKnow, LoopKnows
<1>4. OwnerHolds
  BY <1>1 DEF Init, OwnerHolds, Owns
<1> QED BY <1>2, <1>3, <1>4

-------------------------------------------------------------------------------
(* Every step of a loop is a call of the queue *)

LEMMA LoopStepsCall ==
  LoopTypeOK /\ LoopsKnow /\ [LoopNext]_loopVars => [Next]_vars
<1> SUFFICES ASSUME LoopTypeOK, LoopsKnow, [LoopNext]_loopVars PROVE [Next]_vars
  OBVIOUS
<1>1. ASSUME NEW w \in Worker, Loop(w) PROVE [Next]_vars
  <2>1. pc[w] = "claimed" => got[w] \in Job
    BY DEF LoopTypeOK, LoopsKnow, LoopKnows
  <2>2. CASE StartLoop(w)
    BY <2>2 DEF StartLoop, Next, QueueNext
  <2>3. CASE RepairOnStart(w)
    BY <2>3 DEF RepairOnStart, Next, OperatorNext
  <2>4. ASSUME NEW j \in Job, PollFinds(w, j) PROVE [Next]_vars
    BY <2>4 DEF PollFinds, Next, QueueNext
  <2>5. CASE PollFindsNothing(w)
    BY <2>5 DEF PollFindsNothing, Next, QueueNext
  <2>6. CASE PollRaises(w)
    BY <2>6 DEF PollRaises, Next, QueueNext
  <2>7. CASE BeginDispatch(w)
    BY <2>1, <2>7 DEF BeginDispatch, Next, QueueNext
  <2>8. CASE RunSkips(w)
    BY <2>1, <2>8 DEF RunSkips, Next, QueueNext
  <2>9. CASE RunRaises(w)
    BY <2>1, <2>9 DEF RunRaises, Next, QueueNext
  <2>10. CASE EndDispatch(w)
    BY <2>10 DEF EndDispatch, Next, QueueNext
  <2>11. CASE EndPruned(w)
    BY <2>11 DEF EndPruned, Next, QueueNext
  <2>12. CASE IdleHeartbeat(w)
    BY <2>12 DEF IdleHeartbeat, Next, QueueNext
  <2>13. CASE IdleDies(w)
    BY <2>13 DEF IdleDies
  <2> QED BY <1>1, <2>2, <2>3, <2>4, <2>5, <2>6, <2>7, <2>8, <2>9, <2>10, <2>11,
             <2>12, <2>13 DEF Loop
<1>2. ASSUME NEW w \in Worker, Crash(w) PROVE [Next]_vars
  BY <1>2 DEF Crash, Next, CrashNext
<1>3. CASE Client
  BY <1>3 DEF Client, Next, QueueNext, OperatorNext
<1>4. CASE Repair
  BY <1>4 DEF Repair, Next, OperatorNext
<1>5. CASE LoopTick
  BY <1>5 DEF LoopTick, Next, QueueNext
<1>6. CASE UNCHANGED loopVars
  BY <1>6 DEF loopVars
<1> QED BY <1>1, <1>2, <1>3, <1>4, <1>5, <1>6 DEF LoopNext

-------------------------------------------------------------------------------
(* What the calls do to the jobs that workers hold *)

\* Calls that leave the workers' jobs alone, or take some away.
LEMMA CallsFree ==
  ASSUME TypeOK,
         \/ \E w \in Worker : RegisterWorker(w) \/ HeartbeatWorker(w) \/ ClaimNothing(w)
         \/ \E S \in SUBSET Worker : RepairOrphanedWorkers(S)
         \/ ReclaimExpiredLeases
         \/ \E w \in Worker, j \in Job : RunCanceled(w, j) \/ RunRejected(w, j)
         \/ \E j \in Job, d \in Delays : CreateJob(j, d)
         \/ \E j \in Job : CancelJob(j) \/ PruneJobs({j})
         \/ Tick
         \/ UNCHANGED vars
  PROVE  /\ exec' = exec
         /\ \A v \in Worker : current_job'[v] \in {None, current_job[v]}
<1> USE DEF TypeOK, Cleared, Released, ReclaimJobs, Requeued, workerVars, jobVars
<1>1. ASSUME NEW w \in Worker,
             RegisterWorker(w) \/ HeartbeatWorker(w) \/ ClaimNothing(w)
      PROVE  exec' = exec /\ \A v \in Worker : current_job'[v] \in {None, current_job[v]}
  BY <1>1 DEF RegisterWorker, HeartbeatWorker, ClaimNothing
<1>2. ASSUME NEW S \in SUBSET Worker, RepairOrphanedWorkers(S)
      PROVE  exec' = exec /\ \A v \in Worker : current_job'[v] \in {None, current_job[v]}
  BY <1>2 DEF RepairOrphanedWorkers
<1>3. CASE ReclaimExpiredLeases
  BY <1>3 DEF ReclaimExpiredLeases
<1>4. ASSUME NEW w \in Worker, NEW j \in Job, RunCanceled(w, j) \/ RunRejected(w, j)
      PROVE  exec' = exec /\ \A v \in Worker : current_job'[v] \in {None, current_job[v]}
  BY <1>4 DEF RunCanceled, RunRejected
<1>5. ASSUME NEW j \in Job, NEW d \in Delays, CreateJob(j, d)
      PROVE  exec' = exec /\ \A v \in Worker : current_job'[v] \in {None, current_job[v]}
  BY <1>5 DEF CreateJob
<1>6. ASSUME NEW j \in Job, CancelJob(j) \/ PruneJobs({j})
      PROVE  exec' = exec /\ \A v \in Worker : current_job'[v] \in {None, current_job[v]}
  BY <1>6 DEF CancelJob, PruneJobs
<1>7. CASE Tick \/ UNCHANGED vars
  BY <1>7 DEF Tick, vars
<1> QED BY <1>1, <1>2, <1>3, <1>4, <1>5, <1>6, <1>7

\* A claim gives w a job, and may free others.
LEMMA ClaimGives ==
  ASSUME TypeOK, NEW w \in Worker, NEW j \in Job, ClaimNextJob(w, j)
  PROVE  /\ exec' = exec /\ current_job'[w] = j
         /\ \A v \in Worker : v # w => current_job'[v] \in {None, current_job[v]}
BY DEF ClaimNextJob, TypeOK, Cleared

\* The end of an execution frees its worker only.
LEMMA EndsFree ==
  ASSUME TypeOK, NEW w \in Worker,
         CompleteRun(w) \/ FailRun(w) \/ FinishDeleted(w) \/ CrashRun(w)
  PROVE  /\ exec' = [exec EXCEPT ![w] = None]
         /\ \A v \in Worker : current_job'[v] \in {None, current_job[v]}
BY DEF CompleteRun, FailRun, FinishDeleted, CrashRun, TypeOK, Cleared, Released, workerVars

-------------------------------------------------------------------------------
(* Loops keep knowing *)

\* A loop that does nothing may lose its job, but not gain one.
LEMMA KnowsKept ==
  ASSUME NEW v \in Worker, LoopKnows(v), pc'[v] = pc[v], got'[v] = got[v],
         exec'[v] = exec[v], current_job'[v] \in {None, current_job[v]}
  PROVE  LoopKnows(v)'
BY DEF LoopKnows

\* A loop makes a call that gives no job to anybody, and goes on outside a dispatch.
LEMMA LoopGoesOn ==
  ASSUME LoopTypeOK, LoopsKnow, NEW w \in Worker, NEW p \in At \ {"off", "claimed", "dispatch"},
         pc' = [pc EXCEPT ![w] = p],
         \/ got' = [got EXCEPT ![w] = None]
         \/ got' = got /\ pc[w] \notin {"claimed", "dispatch"},
         p = "repair" => pc[w] = "off",
         \/ exec' = exec /\ exec[w] = None
         \/ exec' = [exec EXCEPT ![w] = None],
         \A v \in Worker : current_job'[v] \in {None, current_job[v]}
  PROVE  LoopsKnow'
<1>1. /\ pc'[w] = p /\ got'[w] = None /\ exec'[w] = None
      /\ p = "repair" => current_job'[w] = None
      /\ \A v \in Worker : v # w => pc'[v] = pc[v] /\ got'[v] = got[v] /\ exec'[v] = exec[v]
  BY DEF LoopTypeOK, TypeOK, LoopsKnow, LoopKnows
<1>2. LoopKnows(w)'
  BY <1>1 DEF LoopKnows, At
<1>3. ASSUME NEW v \in Worker, v # w PROVE LoopKnows(v)'
  BY <1>1, <1>3, KnowsKept DEF LoopsKnow
<1> QED BY <1>2, <1>3 DEF LoopsKnow

LEMMA StepLoops == LoopTypeOK /\ LoopsKnow /\ [LoopNext]_loopVars => LoopTypeOK' /\ LoopsKnow'
<1> SUFFICES ASSUME LoopTypeOK, LoopsKnow, [LoopNext]_loopVars
             PROVE  LoopTypeOK' /\ LoopsKnow'
  OBVIOUS
<1>0. TypeOK /\ TypeOK'
  BY LoopStepsCall, StepType DEF LoopTypeOK
<1>1. ASSUME NEW w \in Worker, Loop(w) PROVE LoopTypeOK' /\ LoopsKnow'
  <2> DEFINE Kept == LoopTypeOK' /\ LoopsKnow'
  <2>1. /\ pc[w] = "claimed" => got[w] \in Job
        /\ pc[w] \notin {"claimed", "dispatch"} => got[w] = None
        /\ pc[w] # "dispatch" => exec[w] = None
    BY DEF LoopTypeOK, LoopsKnow, LoopKnows
  <2>2. CASE StartLoop(w)
    <3>1. exec' = exec /\ \A v \in Worker : current_job'[v] \in {None, current_job[v]}
      BY <1>0, <2>2, CallsFree DEF StartLoop
    <3> QED BY <1>0, <2>1, <2>2, <3>1, LoopGoesOn DEF StartLoop, GoTo, LoopTypeOK, At
  <2>3. CASE RepairOnStart(w)
    <3>1. exec' = exec /\ \A v \in Worker : current_job'[v] \in {None, current_job[v]}
      BY <1>0, <2>3, CallsFree DEF RepairOnStart
    <3> QED BY <1>0, <2>1, <2>3, <3>1, LoopGoesOn DEF RepairOnStart, GoTo, LoopTypeOK, At
  <2>4. ASSUME NEW j \in Job, PollFinds(w, j) PROVE Kept
    <3>1. /\ exec' = exec /\ current_job'[w] = j
          /\ \A v \in Worker : v # w => current_job'[v] \in {None, current_job[v]}
      BY <1>0, <2>4, ClaimGives DEF PollFinds
    <3>2. /\ pc'[w] = "claimed" /\ got'[w] = j /\ pc[w] = "poll"
          /\ \A v \in Worker : v # w => pc'[v] = pc[v] /\ got'[v] = got[v]
      BY <2>4 DEF PollFinds, GoTo, LoopTypeOK
    <3>3. LoopKnows(w)'
      BY <2>1, <3>1, <3>2 DEF LoopKnows
    <3>4. ASSUME NEW v \in Worker, v # w PROVE LoopKnows(v)'
      BY <3>1, <3>2, <3>4, KnowsKept DEF LoopsKnow
    <3>5. LoopTypeOK'
      BY <1>0, <2>4 DEF PollFinds, GoTo, LoopTypeOK, At
    <3> QED BY <3>3, <3>4, <3>5 DEF LoopsKnow
  <2>5. CASE PollFindsNothing(w)
    <3>1. exec' = exec /\ \A v \in Worker : current_job'[v] \in {None, current_job[v]}
      BY <1>0, <2>5, CallsFree DEF PollFindsNothing
    <3> QED BY <1>0, <2>1, <2>5, <3>1, LoopGoesOn DEF PollFindsNothing, GoTo, LoopTypeOK, At
  <2>6. CASE PollRaises(w)
    <3>1. exec' = exec /\ \A v \in Worker : current_job'[v] \in {None, current_job[v]}
      BY <1>0, <2>6, CallsFree DEF PollRaises
    <3> QED BY <1>0, <2>1, <2>6, <3>1, LoopGoesOn DEF PollRaises, GoTo, LoopTypeOK, At
  <2>7. CASE BeginDispatch(w)
    <3>1. /\ exec' = [exec EXCEPT ![w] = <<w, got[w]>>] /\ current_job' = current_job
          /\ pc' = [pc EXCEPT ![w] = "dispatch"] /\ got' = got /\ pc[w] = "claimed"
      BY <2>7 DEF BeginDispatch, StartRun, GoTo
    <3>2. <<w, got[w]>> # None
      BY <2>1, <3>1
    <3>3. /\ exec'[w] = <<w, got[w]>> /\ pc'[w] = "dispatch"
          /\ \A v \in Worker : v # w => pc'[v] = pc[v] /\ exec'[v] = exec[v]
      BY <1>0, <3>1 DEF LoopTypeOK, TypeOK
    <3>4. LoopKnows(w)'
      BY <3>1, <3>2, <3>3 DEF LoopsKnow, LoopKnows
    <3>5. ASSUME NEW v \in Worker, v # w PROVE LoopKnows(v)'
      BY <3>1, <3>3, <3>5, KnowsKept DEF LoopsKnow
    <3>6. LoopTypeOK'
      BY <1>0, <3>1 DEF LoopTypeOK, At
    <3> QED BY <3>4, <3>5, <3>6 DEF LoopsKnow
  <2>8. CASE RunSkips(w)
    <3>1. exec' = exec /\ \A v \in Worker : current_job'[v] \in {None, current_job[v]}
      BY <1>0, <2>1, <2>8, CallsFree DEF RunSkips
    <3> QED BY <1>0, <2>1, <2>8, <3>1, LoopGoesOn DEF RunSkips, GoTo, LoopTypeOK, At
  <2>9. CASE RunRaises(w)
    <3>1. exec' = exec /\ \A v \in Worker : current_job'[v] \in {None, current_job[v]}
      BY <1>0, <2>1, <2>9, CallsFree DEF RunRaises
    <3> QED BY <1>0, <2>1, <2>9, <3>1, LoopGoesOn DEF RunRaises, GoTo, LoopTypeOK, At
  <2>10. CASE EndDispatch(w)
    <3>1. /\ exec' = [exec EXCEPT ![w] = None]
          /\ \A v \in Worker : current_job'[v] \in {None, current_job[v]}
      BY <1>0, <2>10, EndsFree DEF EndDispatch
    <3> QED BY <1>0, <2>10, <3>1, LoopGoesOn DEF EndDispatch, GoTo, LoopTypeOK, At
  <2>11. CASE EndPruned(w)
    <3>1. /\ exec' = [exec EXCEPT ![w] = None]
          /\ \A v \in Worker : current_job'[v] \in {None, current_job[v]}
      BY <1>0, <2>11, EndsFree DEF EndPruned
    <3> QED BY <1>0, <2>11, <3>1, LoopGoesOn DEF EndPruned, GoTo, LoopTypeOK, At
  <2>12. CASE IdleHeartbeat(w)
    <3>1. exec' = exec /\ \A v \in Worker : current_job'[v] \in {None, current_job[v]}
      BY <1>0, <2>12, CallsFree DEF IdleHeartbeat
    <3> QED BY <1>0, <2>1, <2>12, <3>1, LoopGoesOn DEF IdleHeartbeat, GoTo, LoopTypeOK, At
  <2>13. CASE IdleDies(w)
    <3>1. exec' = exec /\ \A v \in Worker : current_job'[v] \in {None, current_job[v]}
      BY <2>13 DEF IdleDies, vars
    <3> QED BY <1>0, <2>1, <2>13, <3>1, LoopGoesOn DEF IdleDies, GoTo, LoopTypeOK, At
  <2> QED BY <1>1, <2>2, <2>3, <2>4, <2>5, <2>6, <2>7, <2>8, <2>9, <2>10, <2>11,
             <2>12, <2>13 DEF Loop
<1>2. ASSUME NEW w \in Worker, Crash(w) PROVE LoopTypeOK' /\ LoopsKnow'
  <2>1. /\ \/ exec' = exec /\ exec[w] = None
           \/ exec' = [exec EXCEPT ![w] = None]
        /\ \A v \in Worker : current_job'[v] \in {None, current_job[v]}
    BY <1>0, <1>2, EndsFree DEF Crash, vars
  <2> QED BY <1>0, <1>2, <2>1, LoopGoesOn DEF Crash, GoTo, LoopTypeOK, At
<1>3. CASE Client \/ Repair \/ LoopTick \/ UNCHANGED loopVars
  <2>1. /\ exec' = exec /\ pc' = pc /\ got' = got
        /\ \A v \in Worker : current_job'[v] \in {None, current_job[v]}
    BY <1>0, <1>3, CallsFree DEF Client, Repair, LoopTick, loopVars
  <2>2. \A v \in Worker : LoopKnows(v)'
    BY <2>1, KnowsKept DEF LoopsKnow
  <2> QED BY <1>0, <2>1, <2>2 DEF LoopTypeOK, LoopsKnow
<1> QED BY <1>1, <1>2, <1>3 DEF LoopNext

-------------------------------------------------------------------------------
(* Owners hold their jobs *)

LEMMA StepOwners ==
  LoopTypeOK /\ QueueInv /\ LoopsKnow /\ OwnerHolds /\ [LoopNext]_loopVars => OwnerHolds'
<1> SUFFICES ASSUME LoopTypeOK, QueueInv, LoopsKnow, OwnerHolds, [LoopNext]_loopVars
             PROVE  OwnerHolds'
  OBVIOUS
<1>0. TypeOK /\ ClaimMatchesStatus
  BY DEF LoopTypeOK, QueueInv
<1> USE <1>0 DEF TypeOK, jobVars, workerVars, OwnerHolds, Owns, ClaimMatchesStatus,
                 JobStatus, Terminal
<1>1. ASSUME NEW w \in Worker, RegisterWorker(w) \/ HeartbeatWorker(w) PROVE OwnerHolds'
  BY <1>1 DEF RegisterWorker, HeartbeatWorker
<1>2. ASSUME NEW S \in SUBSET Worker, RepairOrphanedWorkers(S) PROVE OwnerHolds'
  BY <1>2 DEF RepairOrphanedWorkers, WithStatus, Due, Released, Cleared, Orphaned
<1>3. ASSUME NEW w \in Worker, NEW j \in Job, ClaimNextJob(w, j) PROVE OwnerHolds'
  BY <1>3 DEF ClaimNextJob, Claimable, WithStatus, Cleared, Expired, Due, ExpiredHolders,
              StillHolds
<1>4. ASSUME ReclaimJobs PROVE OwnerHolds'
  BY <1>4 DEF ReclaimJobs, Requeued, WithStatus, Cleared, Released, Expired, Due,
              ExpiredHolders
<1>5. ASSUME NEW w \in Worker, NEW j \in Job, StartRun(w, w, j) PROVE OwnerHolds'
  BY <1>5 DEF StartRun
<1>6. ASSUME NEW w \in Worker, NEW j \in Job, RunRejected(w, j) PROVE OwnerHolds'
  BY <1>6 DEF RunRejected, WithStatus, Due
<1>7. ASSUME NEW w \in Worker, NEW j \in Job, RunCanceled(w, j),
             current_job[w] \in {None, j} PROVE OwnerHolds'
  BY <1>7 DEF RunCanceled, Released, Cleared
<1>8. ASSUME NEW w \in Worker, NEW j \in Job, exec[w] = <<w, j>>,
             current_job[w] \in {None, j}, CompleteRun(w) PROVE OwnerHolds'
  BY <1>8 DEF CompleteRun, Released, Cleared
<1>9. ASSUME NEW w \in Worker, NEW j \in Job, exec[w] = <<w, j>>,
             current_job[w] \in {None, j}, FailRun(w) PROVE OwnerHolds'
  BY <1>9 DEF FailRun, Released, Cleared, StatusFor
<1>10. ASSUME NEW w \in Worker, NEW j \in Job, exec[w] = <<w, j>>,
              current_job[w] \in {None, j}, FinishDeleted(w) PROVE OwnerHolds'
  BY <1>10 DEF FinishDeleted, Released, Cleared, Exists
<1>11. ASSUME NEW w \in Worker, CrashRun(w) PROVE OwnerHolds'
  BY <1>11 DEF CrashRun
<1>12. ASSUME NEW j \in Job, NEW d \in Delays, CreateJob(j, d) PROVE OwnerHolds'
  BY <1>12 DEF CreateJob, StatusFor
<1>13. ASSUME NEW j \in Job, CancelJob(j) PROVE OwnerHolds'
  BY <1>13 DEF CancelJob, JobCanceled, Cleared, Released, Exists
<1>14. ASSUME NEW j \in Job, PruneJobs({j}) PROVE OwnerHolds'
  BY <1>14 DEF PruneJobs, WithStatus, Cleared
<1>15. CASE Tick \/ UNCHANGED vars
  BY <1>15 DEF Tick, vars
<1> HIDE DEF OwnerHolds
<1>16. ASSUME NEW w \in Worker, Loop(w) PROVE OwnerHolds'
  <2>1. pc[w] = "claimed" => got[w] \in Job /\ current_job[w] \in {None, got[w]}
    BY DEF LoopTypeOK, LoopsKnow, LoopKnows
  <2>2. pc[w] = "dispatch" =>
          got[w] \in Job /\ exec[w] = <<w, got[w]>> /\ current_job[w] \in {None, got[w]}
    BY DEF LoopTypeOK, LoopsKnow, LoopKnows
  <2>3. CASE StartLoop(w) \/ IdleHeartbeat(w)
    BY <1>1, <2>3 DEF StartLoop, IdleHeartbeat
  <2>4. CASE RepairOnStart(w)
    BY <1>2, <1>15, <2>4 DEF RepairOnStart
  <2>5. ASSUME NEW j \in Job, PollFinds(w, j) PROVE OwnerHolds'
    BY <1>3, <2>5 DEF PollFinds
  <2>6. CASE PollFindsNothing(w) \/ PollRaises(w)
    BY <1>4, <1>15, <2>6 DEF PollFindsNothing, ClaimNothing, PollRaises, ReclaimExpiredLeases
  <2>7. CASE BeginDispatch(w)
    BY <1>5, <2>1, <2>7 DEF BeginDispatch
  <2>8. CASE RunSkips(w)
    BY <1>1, <1>7, <2>1, <2>8 DEF RunSkips
  <2>9. CASE RunRaises(w)
    BY <1>1, <1>6, <1>15, <2>1, <2>9 DEF RunRaises
  <2>10. CASE EndDispatch(w)
    BY <1>8, <1>9, <2>2, <2>10 DEF EndDispatch
  <2>11. CASE EndPruned(w)
    BY <1>10, <2>2, <2>11 DEF EndPruned
  <2>12. CASE IdleDies(w)
    BY <1>15, <2>12 DEF IdleDies
  <2> QED BY <1>16, <2>3, <2>4, <2>5, <2>6, <2>7, <2>8, <2>9, <2>10, <2>11, <2>12 DEF Loop
<1>17. ASSUME NEW w \in Worker, Crash(w) PROVE OwnerHolds'
  BY <1>11, <1>15, <1>17 DEF Crash
<1>18. CASE Client
  BY <1>12, <1>13, <1>14, <1>18 DEF Client
<1>19. CASE Repair
  BY <1>2, <1>19 DEF Repair
<1>20. CASE LoopTick \/ UNCHANGED loopVars
  BY <1>15, <1>20 DEF LoopTick, loopVars
<1> QED BY <1>16, <1>17, <1>18, <1>19, <1>20 DEF LoopNext

-------------------------------------------------------------------------------
(* Loops call as SoleDriver of JobQueue wants *)

\* A worker whose loop is not in a dispatch is not dispatching.
LEMMA NotDispatching ==
  ASSUME LoopTypeOK, LoopsKnow, NEW w \in Worker, pc[w] # "dispatch"
  PROVE  ~ Dispatching(w)
<1>1. ASSUME NEW t \in Thread, exec[t] # None, exec[t][1] = w PROVE FALSE
  <2>1. t \in Worker /\ exec[t] = <<t, got[t]>> /\ pc[t] = "dispatch"
    BY <1>1 DEF LoopsKnow, LoopKnows
  <2> QED BY <1>1, <2>1
<1> QED BY <1>1 DEF Dispatching

\* The instance of JobQueue differs from the module itself in the guards of
\* ClaimNextJob, ClaimNothing and the three forms of run_claimed_job only.
LEMMA SameHelpers ==
  /\ \A S, x : Queue!WithStatus(S, x) = WithStatus(S, x)
  /\ \A f, S : Queue!Cleared(f, S) = Cleared(f, S)
  /\ \A S : Queue!Released(S) <=> Released(S)
  /\ \A w : Queue!Renewed(w) <=> Renewed(w)
  /\ \A S, T : Queue!Requeued(S, T) <=> Requeued(S, T)
  /\ Queue!Due = Due /\ Queue!Expired = Expired
  /\ Queue!ExpiredHolders = ExpiredHolders /\ Queue!Claimable = Claimable
  /\ \A w : Queue!StillHolds(w) <=> StillHolds(w)
  /\ \A w : Queue!Orphaned(w) <=> Orphaned(w)
  /\ \A w : Queue!Dispatching(w) <=> Dispatching(w)
  /\ \A w : Queue!Registered(w) <=> Registered(w)
  /\ \A w, j : Queue!Owns(w, j) <=> Owns(w, j)
  /\ \A j : Queue!Exists(j) <=> Exists(j)
BY DEF Queue!WithStatus, WithStatus, Queue!Cleared, Cleared, Queue!Released, Released,
       Queue!Renewed, Renewed, Queue!Requeued, Requeued, Queue!Due, Due,
       Queue!Expired, Expired, Queue!ExpiredHolders, ExpiredHolders,
       Queue!Claimable, Claimable, Queue!StillHolds, StillHolds, Queue!Orphaned, Orphaned,
       Queue!Dispatching, Dispatching, Queue!Registered, Registered, Queue!Owns, Owns,
       Queue!Exists, Exists

\* Calls without such a guard are the same.
LEMMA SameCalls ==
  /\ \A j \in Job, d \in Delays : CreateJob(j, d) => Queue!CreateJob(j, d)
  /\ \A j \in Job : CancelJob(j) => Queue!CancelJob(j)
  /\ \A j \in Job : PruneJobs({j}) => Queue!PruneJobs({j})
  /\ \A w \in Worker : RegisterWorker(w) => Queue!RegisterWorker(w)
  /\ \A w \in Worker : HeartbeatWorker(w) => Queue!HeartbeatWorker(w)
  /\ ReclaimExpiredLeases => Queue!ReclaimExpiredLeases
  /\ \A t \in Thread : CompleteRun(t) => Queue!CompleteRun(t)
  /\ \A t \in Thread : FailRun(t) => Queue!FailRun(t)
  /\ \A t \in Thread : FinishDeleted(t) => Queue!FinishDeleted(t)
  /\ \A t \in Thread : CrashRun(t) => Queue!CrashRun(t)
  /\ \A S \in SUBSET Worker : RepairOrphanedWorkers(S) => Queue!RepairOrphanedWorkers(S)
  /\ Tick => Queue!Tick
<1> USE SameHelpers DEF jobVars, workerVars, Queue!jobVars, Queue!workerVars
<1>1. \A j \in Job, d \in Delays : CreateJob(j, d) => Queue!CreateJob(j, d)
  BY DEF CreateJob, Queue!CreateJob, StatusFor, Queue!StatusFor
<1>2. \A j \in Job : CancelJob(j) => Queue!CancelJob(j)
  BY DEF CancelJob, Queue!CancelJob, JobCanceled, Queue!JobCanceled, Terminal, Queue!Terminal
<1>3. \A j \in Job : PruneJobs({j}) => Queue!PruneJobs({j})
  BY DEF PruneJobs, Queue!PruneJobs, Terminal, Queue!Terminal
<1>4. \A w \in Worker : RegisterWorker(w) => Queue!RegisterWorker(w)
  BY DEF RegisterWorker, Queue!RegisterWorker
<1>5. \A w \in Worker : HeartbeatWorker(w) => Queue!HeartbeatWorker(w)
  BY DEF HeartbeatWorker, Queue!HeartbeatWorker
<1>6. ReclaimExpiredLeases => Queue!ReclaimExpiredLeases
  BY DEF ReclaimExpiredLeases, Queue!ReclaimExpiredLeases, ReclaimJobs, Queue!ReclaimJobs
<1>7. \A t \in Thread : CompleteRun(t) => Queue!CompleteRun(t)
  BY DEF CompleteRun, Queue!CompleteRun
<1>8. \A t \in Thread : FailRun(t) => Queue!FailRun(t)
  BY DEF FailRun, Queue!FailRun, BudgetSpent, Queue!BudgetSpent, StatusFor, Queue!StatusFor,
         RetryDelay, Queue!RetryDelay
<1>9. \A t \in Thread : FinishDeleted(t) => Queue!FinishDeleted(t)
  BY DEF FinishDeleted, Queue!FinishDeleted
<1>10. \A t \in Thread : CrashRun(t) => Queue!CrashRun(t)
  BY DEF CrashRun, Queue!CrashRun
<1>11. \A S \in SUBSET Worker : RepairOrphanedWorkers(S) => Queue!RepairOrphanedWorkers(S)
  BY DEF RepairOrphanedWorkers, Queue!RepairOrphanedWorkers
<1>12. Tick => Queue!Tick
  BY DEF Tick, Queue!Tick, Left, Queue!Left
<1> QED BY <1>1, <1>2, <1>3, <1>4, <1>5, <1>6, <1>7, <1>8, <1>9, <1>10, <1>11, <1>12

\* The others pass the guard between dispatches.
LEMMA GuardedCalls ==
  ASSUME NEW w \in Worker, ~ Dispatching(w)
  PROVE  /\ \A j \in Job : ClaimNextJob(w, j) => Queue!ClaimNextJob(w, j)
         /\ ClaimNothing(w) => Queue!ClaimNothing(w)
         /\ \A j \in Job : current_job[w] \in {None, j} =>
              /\ StartRun(w, w, j) => Queue!StartRun(w, w, j)
              /\ RunCanceled(w, j) => Queue!RunCanceled(w, j)
              /\ RunRejected(w, j) => Queue!RunRejected(w, j)
<1> USE SameHelpers DEF jobVars, workerVars, Queue!jobVars, Queue!workerVars,
                        Queue!MayClaim, Queue!MayRun
<1>1. \A j \in Job : ClaimNextJob(w, j) => Queue!ClaimNextJob(w, j)
  BY DEF ClaimNextJob, Queue!ClaimNextJob
<1>2. ClaimNothing(w) => Queue!ClaimNothing(w)
  BY DEF ClaimNothing, Queue!ClaimNothing, ReclaimJobs, Queue!ReclaimJobs
<1>3. ASSUME NEW j \in Job, current_job[w] \in {None, j}
      PROVE  /\ StartRun(w, w, j) => Queue!StartRun(w, w, j)
             /\ RunCanceled(w, j) => Queue!RunCanceled(w, j)
             /\ RunRejected(w, j) => Queue!RunRejected(w, j)
  BY <1>3 DEF StartRun, Queue!StartRun, RunCanceled, Queue!RunCanceled,
              RunRejected, Queue!RunRejected
<1> QED BY <1>1, <1>2, <1>3

LEMMA StepAlone ==
  LoopTypeOK /\ LoopsKnow /\ [LoopNext]_loopVars => [Queue!Next]_Queue!vars
<1> SUFFICES ASSUME LoopTypeOK, LoopsKnow, [LoopNext]_loopVars
             PROVE  Queue!Next \/ UNCHANGED vars
  BY DEF vars, Queue!vars
<1> DEFINE Allowed == Queue!Next \/ UNCHANGED vars
<1> USE DEF Queue!Next, Queue!QueueNext, Queue!OperatorNext, Queue!CrashNext
<1>1. ASSUME NEW w \in Worker, Loop(w) PROVE Allowed
  <2>1. pc[w] = "claimed" => got[w] \in Job /\ current_job[w] \in {None, got[w]}
    BY DEF LoopTypeOK, LoopsKnow, LoopKnows
  <2>2. pc[w] # "dispatch" => ~ Dispatching(w)
    BY NotDispatching
  <2>3. CASE StartLoop(w) \/ IdleHeartbeat(w)
    BY <2>3, SameCalls DEF StartLoop, IdleHeartbeat
  <2>4. CASE RepairOnStart(w)
    BY <2>4, SameCalls DEF RepairOnStart
  <2>5. ASSUME NEW j \in Job, PollFinds(w, j) PROVE Allowed
    BY <2>2, <2>5, GuardedCalls DEF PollFinds
  <2>6. CASE PollFindsNothing(w)
    BY <2>2, <2>6, GuardedCalls DEF PollFindsNothing
  <2>7. CASE PollRaises(w)
    BY <2>7, SameCalls DEF PollRaises
  <2>8. CASE BeginDispatch(w)
    <3>1. Queue!StartRun(w, w, got[w])
      BY <2>1, <2>2, <2>8, GuardedCalls DEF BeginDispatch
    <3> QED BY <2>1, <2>8, <3>1 DEF BeginDispatch
  <2>9. CASE RunSkips(w)
    BY <2>1, <2>2, <2>9, SameCalls, GuardedCalls DEF RunSkips
  <2>10. CASE RunRaises(w)
    BY <2>1, <2>2, <2>10, SameCalls, GuardedCalls DEF RunRaises
  <2>11. CASE EndDispatch(w) \/ EndPruned(w)
    BY <2>11, SameCalls DEF EndDispatch, EndPruned
  <2>12. CASE IdleDies(w)
    BY <2>12 DEF IdleDies
  <2> QED BY <1>1, <2>3, <2>4, <2>5, <2>6, <2>7, <2>8, <2>9, <2>10, <2>11, <2>12 DEF Loop
<1>2. ASSUME NEW w \in Worker, Crash(w) PROVE Allowed
  BY <1>2, SameCalls DEF Crash
<1>3. CASE Client
  <2>1. ASSUME NEW j \in Job, NEW d \in Delays, CreateJob(j, d) PROVE Allowed
    <3>1. Queue!CreateJob(j, d)
      BY <2>1, SameCalls
    <3> QED BY <3>1
  <2>2. ASSUME NEW j \in Job, CancelJob(j) PROVE Allowed
    <3>1. Queue!CancelJob(j)
      BY <2>2, SameCalls
    <3> QED BY <3>1
  <2>3. ASSUME NEW j \in Job, PruneJobs({j}) PROVE Allowed
    <3>1. Queue!PruneJobs({j}) /\ {j} \in SUBSET Job
      BY <2>3, SameCalls
    <3> QED BY <3>1
  <2> QED BY <1>3, <2>1, <2>2, <2>3 DEF Client
<1>4. CASE Repair
  BY <1>4, SameCalls DEF Repair
<1>5. CASE LoopTick
  BY <1>5, SameCalls DEF LoopTick
<1>6. CASE UNCHANGED loopVars
  BY <1>6 DEF loopVars
<1> QED BY <1>1, <1>2, <1>3, <1>4, <1>5, <1>6 DEF LoopNext

-------------------------------------------------------------------------------
(* Loops that keep up with their worker's lease *)

\* No call shortens a worker's lease: only time does.
LEMMA LeaseRenewed ==
  ASSUME LoopTypeOK, [LoopNext]_loopVars
  PROVE  LoopTick \/ \A v \in Worker : wlease'[v] \in {wlease[v], LeaseSeconds[v]}
<1> DEFINE Kept == \A v \in Worker : wlease'[v] \in {wlease[v], LeaseSeconds[v]}
<1> USE DEF LoopTypeOK, TypeOK, Renewed, workerVars
<1>1. ASSUME NEW w \in Worker, HeartbeatWorker(w) PROVE Kept
  BY <1>1 DEF HeartbeatWorker
<1>2. ASSUME ReclaimExpiredLeases \/ UNCHANGED vars PROVE Kept
  BY <1>2 DEF ReclaimExpiredLeases, vars
<1>3. ASSUME NEW S \in SUBSET Worker, RepairOrphanedWorkers(S) PROVE Kept
  BY <1>3 DEF RepairOrphanedWorkers
<1>4. ASSUME NEW w \in Worker, NEW j, RunCanceled(w, j) \/ RunRejected(w, j) PROVE Kept
  BY <1>4 DEF RunCanceled, RunRejected
<1>5. ASSUME NEW w \in Worker, Loop(w) PROVE Kept
  <2>1. CASE StartLoop(w)
    BY <2>1 DEF StartLoop, RegisterWorker
  <2>2. CASE RepairOnStart(w) \/ PollRaises(w) \/ IdleHeartbeat(w) \/ IdleDies(w)
    BY <1>1, <1>2, <1>3, <2>2 DEF RepairOnStart, PollRaises, IdleHeartbeat, IdleDies
  <2>3. ASSUME NEW j \in Job, PollFinds(w, j) PROVE Kept
    BY <2>3 DEF PollFinds, ClaimNextJob
  <2>4. CASE PollFindsNothing(w)
    BY <2>4 DEF PollFindsNothing, ClaimNothing
  <2>5. CASE BeginDispatch(w)
    BY <2>5 DEF BeginDispatch, StartRun
  <2>6. CASE RunSkips(w)
    BY <1>1, <1>4, <2>6 DEF RunSkips
  <2>7. CASE RunRaises(w)
    BY <1>1, <1>2, <1>4, <2>7 DEF RunRaises
  <2>8. CASE EndDispatch(w) \/ EndPruned(w)
    BY <2>8 DEF EndDispatch, EndPruned, CompleteRun, FailRun, FinishDeleted
  <2> QED BY <1>5, <2>1, <2>2, <2>3, <2>4, <2>5, <2>6, <2>7, <2>8 DEF Loop
<1>6. ASSUME NEW w \in Worker, Crash(w) PROVE Kept
  BY <1>2, <1>6 DEF Crash, CrashRun
<1>7. CASE Client
  BY <1>7 DEF Client, CreateJob, CancelJob, PruneJobs
<1>8. CASE Repair
  BY <1>3, <1>8 DEF Repair
<1>9. CASE UNCHANGED loopVars
  BY <1>2, <1>9 DEF loopVars
<1> QED BY <1>5, <1>6, <1>7, <1>8, <1>9 DEF LoopNext

\* Outside a dispatch, a worker whose lease is gone has no job.
KeepsUp ==
  \A w \in Worker :
    /\ pc[w] # "died"
    /\ pc[w] \in {"repair", "poll", "claimed", "idle"} => wlease[w] > 0 \/ current_job[w] = None

\* What a step of the loop of w does to its own worker, and to the others.
LEMMA LoopMoves ==
  ASSUME LoopTypeOK, LoopsKnow, NEW w \in Worker, Loop(w) \/ Crash(w)
  PROVE  /\ \A v \in Worker : v # w =>
              pc'[v] = pc[v] /\ current_job'[v] \in {None, current_job[v]}
         /\ current_job'[w] \in {None, current_job[w]} \/ wlease'[w] = LeaseSeconds[w]
         /\ pc[w] = "off" => wlease'[w] = LeaseSeconds[w]
         /\ pc[w] = "dispatch" => current_job'[w] = None \/ pc'[w] = "stopped"
         /\ pc'[w] = "died" => pc[w] = "idle" /\ wlease[w] = 0 /\ current_job[w] # None
<1>0. TypeOK
  BY DEF LoopTypeOK
<1>1. /\ pc[w] = "claimed" => got[w] \in Job
      /\ pc[w] = "dispatch" => exec[w] = <<w, got[w]>>
  BY DEF LoopTypeOK, LoopsKnow, LoopKnows
<1>2. CASE StartLoop(w)
  <2>1. \A v \in Worker : current_job'[v] \in {None, current_job[v]}
    BY <1>0, <1>2, CallsFree DEF StartLoop
  <2> QED BY <1>2, <2>1 DEF StartLoop, RegisterWorker, Renewed, GoTo, LoopTypeOK, TypeOK
<1>3. CASE RepairOnStart(w)
  <2>1. \A v \in Worker : current_job'[v] \in {None, current_job[v]}
    BY <1>0, <1>3, CallsFree DEF RepairOnStart
  <2> QED BY <1>3, <2>1 DEF RepairOnStart, GoTo, LoopTypeOK
<1>4. ASSUME NEW j \in Job, PollFinds(w, j)
      PROVE  /\ \A v \in Worker : v # w =>
                  pc'[v] = pc[v] /\ current_job'[v] \in {None, current_job[v]}
             /\ wlease'[w] = LeaseSeconds[w]
             /\ pc[w] = "poll" /\ pc'[w] = "claimed"
  <2>1. \A v \in Worker : v # w => current_job'[v] \in {None, current_job[v]}
    BY <1>0, <1>4, ClaimGives DEF PollFinds
  <2> QED BY <1>4, <2>1 DEF PollFinds, ClaimNextJob, Renewed, GoTo, LoopTypeOK, TypeOK
<1>5. CASE PollFindsNothing(w)
  <2>1. \A v \in Worker : current_job'[v] \in {None, current_job[v]}
    BY <1>0, <1>5, CallsFree DEF PollFindsNothing
  <2> QED BY <1>5, <2>1 DEF PollFindsNothing, GoTo, LoopTypeOK
<1>6. CASE PollRaises(w)
  <2>1. \A v \in Worker : current_job'[v] \in {None, current_job[v]}
    BY <1>0, <1>6, CallsFree DEF PollRaises
  <2> QED BY <1>6, <2>1 DEF PollRaises, GoTo, LoopTypeOK
<1>7. CASE BeginDispatch(w)
  BY <1>7 DEF BeginDispatch, StartRun, workerVars, GoTo, LoopTypeOK
<1>8. CASE RunSkips(w)
  <2>1. \A v \in Worker : current_job'[v] \in {None, current_job[v]}
    BY <1>0, <1>1, <1>8, CallsFree DEF RunSkips
  <2> QED BY <1>8, <2>1 DEF RunSkips, GoTo, LoopTypeOK
<1>9. CASE RunRaises(w)
  <2>1. \A v \in Worker : current_job'[v] \in {None, current_job[v]}
    BY <1>0, <1>1, <1>9, CallsFree DEF RunRaises
  <2> QED BY <1>9, <2>1 DEF RunRaises, GoTo, LoopTypeOK
<1>10. CASE EndDispatch(w) \/ EndPruned(w)
  <2>1. \A v \in Worker : current_job'[v] \in {None, current_job[v]}
    BY <1>0, <1>10, EndsFree DEF EndDispatch, EndPruned
  <2>2. current_job'[w] = None
    BY <1>0, <1>1, <1>10
       DEF EndDispatch, EndPruned, CompleteRun, FailRun, FinishDeleted, Released, Cleared, TypeOK
  <2> QED BY <1>10, <2>1, <2>2 DEF EndDispatch, EndPruned, GoTo, LoopTypeOK
<1>11. CASE IdleHeartbeat(w)
  <2>1. \A v \in Worker : current_job'[v] \in {None, current_job[v]}
    BY <1>0, <1>11, CallsFree DEF IdleHeartbeat
  <2> QED BY <1>11, <2>1 DEF IdleHeartbeat, GoTo, LoopTypeOK
<1>12. CASE IdleDies(w)
  BY <1>12 DEF IdleDies, GoTo, LoopTypeOK, vars
<1>13. CASE Crash(w)
  <2>1. \A v \in Worker : current_job'[v] \in {None, current_job[v]}
    BY <1>0, <1>13, EndsFree DEF Crash, vars
  <2> QED BY <1>13, <2>1 DEF Crash, Alive, GoTo, LoopTypeOK
<1> QED BY <1>2, <1>3, <1>4, <1>5, <1>6, <1>7, <1>8, <1>9, <1>10, <1>11, <1>12, <1>13 DEF Loop

LEMMA StepKeepsUp ==
  ASSUME Prompt, LoopTypeOK, LoopsKnow, KeepsUp, [LoopNext]_loopVars
  PROVE  KeepsUp'
<1>0. /\ TypeOK
      /\ \A w \in Worker : LeaseSeconds[w] \in Nat \ {0} /\ wlease[w] \in Nat /\ pc[w] \in At
  BY DEF LoopTypeOK, TypeOK
<1>1. CASE LoopTick
  <2>1. \A w \in Worker : pc[w] \in {"repair", "poll", "claimed", "idle"} => wlease[w] # 1
    BY <1>1 DEF LoopTick, Late, Alive
  <2>2. ASSUME NEW w \in Worker
        PROVE  /\ pc'[w] = pc[w] /\ current_job'[w] = current_job[w]
               /\ wlease'[w] = IF wlease[w] = 0 THEN 0 ELSE wlease[w] - 1
    BY <1>1 DEF LoopTick, Tick, Left
  <2> QED BY <1>0, <2>1, <2>2 DEF KeepsUp
<1>2. CASE \A v \in Worker : wlease'[v] \in {wlease[v], LeaseSeconds[v]}
  <2>1. ASSUME NEW v \in Worker, pc'[v] = pc[v], current_job'[v] \in {None, current_job[v]}
        PROVE  KeepsUp!(v)'
    BY <1>0, <1>2, <2>1 DEF KeepsUp
  <2>2. ASSUME NEW w \in Worker, Loop(w) \/ Crash(w) PROVE KeepsUp'
    <3>1. /\ \A v \in Worker : v # w =>
               pc'[v] = pc[v] /\ current_job'[v] \in {None, current_job[v]}
          /\ current_job'[w] \in {None, current_job[w]} \/ wlease'[w] = LeaseSeconds[w]
          /\ pc[w] = "off" => wlease'[w] = LeaseSeconds[w]
          /\ pc[w] = "dispatch" => current_job'[w] = None \/ pc'[w] = "stopped"
          /\ pc'[w] = "died" => pc[w] = "idle" /\ wlease[w] = 0 /\ current_job[w] # None
      BY <2>2, LoopMoves
    <3>2. pc[w] \notin {"died", "stopped"}
      BY <2>2 DEF Loop, StartLoop, RepairOnStart, PollFinds, PollFindsNothing, PollRaises,
                  BeginDispatch, RunSkips, RunRaises, EndDispatch, EndPruned, IdleHeartbeat,
                  IdleDies, Crash, Alive
    <3>3. KeepsUp!(w)'
      BY <1>0, <1>2, <3>1, <3>2 DEF KeepsUp, At
    <3> QED BY <2>1, <3>1, <3>3 DEF KeepsUp
  <2>3. CASE Client \/ Repair \/ UNCHANGED loopVars
    <3>1. pc' = pc /\ \A v \in Worker : current_job'[v] \in {None, current_job[v]}
      BY <1>0, <2>3, CallsFree DEF Client, Repair, loopVars
    <3> QED BY <2>1, <3>1 DEF KeepsUp
  <2> QED BY <1>1, <2>2, <2>3 DEF LoopNext
<1> QED BY <1>1, <1>2, LeaseRenewed

-------------------------------------------------------------------------------
(* Dispatches that end within their job's lease *)

\* The execution of j by w is the one on record, or j is out of the queue for good.
Current(w, j) ==
  \/ Owns(w, j) /\ lease[j] # 0
  \/ status[j] \in {"canceled", "deleted"}

OneCurrent ==
  /\ \A w \in Worker : exec[w] # None => Current(w, exec[w][2])
  /\ \A v, w \in Worker : exec[v] # None /\ exec[w] # None /\ exec[v][2] = exec[w][2] => v = w

\* Only its end, the time and what settles it for good touch such a job.
LEMMA CurrentKept ==
  ASSUME TypeOK, NEW w \in Worker, NEW j \in Job, Current(w, j),
         \/ \E v \in Worker : RegisterWorker(v) \/ HeartbeatWorker(v) \/ ClaimNothing(v)
         \/ \E S \in SUBSET Worker : RepairOrphanedWorkers(S)
         \/ ReclaimExpiredLeases
         \/ \E v \in Worker, i \in Job :
              ClaimNextJob(v, i) \/ StartRun(v, v, i) \/ RunCanceled(v, i) \/ RunRejected(v, i)
         \/ \E v \in Worker : CrashRun(v)
         \/ \E i \in Job, d \in Delays : CreateJob(i, d)
         \/ \E i \in Job : CancelJob(i) \/ PruneJobs({i})
         \/ UNCHANGED vars
  PROVE  Current(w, j)'
<1> USE DEF TypeOK, Current, Owns, jobVars, workerVars, WithStatus, Cleared, Expired, Due
<1>1. ASSUME NEW v \in Worker, RegisterWorker(v) \/ HeartbeatWorker(v) \/ ClaimNothing(v)
      PROVE  Current(w, j)'
  BY <1>1 DEF RegisterWorker, HeartbeatWorker, ClaimNothing, ReclaimJobs, Requeued
<1>2. ASSUME NEW S \in SUBSET Worker, RepairOrphanedWorkers(S) PROVE Current(w, j)'
  BY <1>2 DEF RepairOrphanedWorkers
<1>3. CASE ReclaimExpiredLeases
  BY <1>3 DEF ReclaimExpiredLeases, ReclaimJobs, Requeued
<1>4. ASSUME NEW v \in Worker, NEW i \in Job, ClaimNextJob(v, i) PROVE Current(w, j)'
  BY <1>4 DEF ClaimNextJob, Claimable
<1>5. ASSUME NEW v \in Worker, NEW i \in Job,
             StartRun(v, v, i) \/ RunCanceled(v, i) \/ RunRejected(v, i)
      PROVE  Current(w, j)'
  BY <1>5 DEF StartRun, RunCanceled, RunRejected
<1>6. ASSUME NEW v \in Worker, CrashRun(v) PROVE Current(w, j)'
  BY <1>6 DEF CrashRun
<1>7. ASSUME NEW i \in Job, NEW d \in Delays, CreateJob(i, d) PROVE Current(w, j)'
  BY <1>7 DEF CreateJob
<1>8. ASSUME NEW i \in Job, CancelJob(i) \/ PruneJobs({i}) PROVE Current(w, j)'
  BY <1>8 DEF CancelJob, JobCanceled, PruneJobs, Terminal
<1>9. CASE UNCHANGED vars
  BY <1>9 DEF vars
<1> QED BY <1>1, <1>2, <1>3, <1>4, <1>5, <1>6, <1>7, <1>8, <1>9

\* Executions that go on, or end, and keep their jobs current.
LEMMA CurrentStay ==
  ASSUME OneCurrent,
         \A w \in Worker : exec'[w] \in {None, exec[w]},
         \A w \in Worker : exec[w] # None => exec[w][2] \in Job,
         \A w \in Worker, j \in Job : exec'[w] # None /\ exec[w][2] = j => Current(w, j)'
  PROVE  OneCurrent'
<1>1. ASSUME NEW w \in Worker, exec'[w] # None
      PROVE  exec'[w] = exec[w] /\ exec[w] # None /\ Current(w, exec[w][2])'
  BY <1>1
<1> QED BY <1>1 DEF OneCurrent

LEMMA StepCurrent ==
  ASSUME ShortDispatch, LoopTypeOK, LoopsKnow, ClaimMatchesStatus, OneCurrent,
         [LoopNext]_loopVars
  PROVE  OneCurrent'
<1>0. /\ TypeOK
      /\ \A w \in Worker : exec[w] # None =>
           exec[w] = <<w, got[w]>> /\ got[w] \in Job /\ exec[w][2] = got[w]
  BY DEF LoopTypeOK, LoopsKnow, LoopKnows
<1>1. \A w \in Worker : exec[w] # None => Current(w, exec[w][2]) /\ exec[w][2] \in Job
  BY <1>0 DEF OneCurrent
<1>2. ASSUME NEW w \in Worker, Loop(w) PROVE OneCurrent'
  <2>1. pc[w] = "claimed" => got[w] \in Job
    BY DEF LoopTypeOK, LoopsKnow, LoopKnows
  <2>2. CASE \/ StartLoop(w) \/ RepairOnStart(w) \/ PollRaises(w) \/ IdleHeartbeat(w)
             \/ IdleDies(w) \/ PollFindsNothing(w) \/ RunSkips(w) \/ RunRaises(w)
    <3>1. \/ \E v \in Worker : RegisterWorker(v) \/ HeartbeatWorker(v) \/ ClaimNothing(v)
          \/ \E S \in SUBSET Worker : RepairOrphanedWorkers(S)
          \/ ReclaimExpiredLeases
          \/ \E v \in Worker, i \in Job : RunCanceled(v, i) \/ RunRejected(v, i)
          \/ UNCHANGED vars
      BY <2>1, <2>2 DEF StartLoop, RepairOnStart, PollRaises, IdleHeartbeat, IdleDies,
                        PollFindsNothing, RunSkips, RunRaises
    <3>2. exec' = exec
      BY <1>0, <3>1, CallsFree
    <3>3. \A v \in Worker, j \in Job : exec[v] # None /\ exec[v][2] = j => Current(v, j)'
      BY <1>0, <1>1, <3>1, CurrentKept
    <3> QED BY <1>1, <3>2, <3>3, CurrentStay
  <2>3. ASSUME NEW i \in Job, PollFinds(w, i) PROVE OneCurrent'
    <3>1. ClaimNextJob(w, i)
      BY <2>3 DEF PollFinds
    <3>2. exec' = exec
      BY <3>1 DEF ClaimNextJob
    <3>3. \A v \in Worker, j \in Job : exec[v] # None /\ exec[v][2] = j => Current(v, j)'
      BY <1>0, <1>1, <3>1, CurrentKept
    <3> QED BY <1>1, <3>2, <3>3, CurrentStay
  <2>4. CASE BeginDispatch(w)
    <3> DEFINE j == got[w]
    <3>1. StartRun(w, w, j) /\ j \in Job
      BY <2>1, <2>4 DEF BeginDispatch
    <3>2. /\ exec[w] = None /\ Owns(w, j) /\ lease[j] # 0
          /\ exec' = [exec EXCEPT ![w] = <<w, j>>]
          /\ UNCHANGED <<status, worker_id, lease>>
      BY <3>1 DEF StartRun, jobVars
    <3>3. exec'[w] = <<w, j>> /\ \A v \in Worker : v # w => exec'[v] = exec[v]
      BY <1>0, <3>2 DEF TypeOK
    <3>4. ASSUME NEW v \in Worker, v # w, exec[v] # None PROVE exec[v][2] # j
      <4>1. Current(v, exec[v][2])
        BY <1>1, <3>4
      <4> QED BY <3>2, <3>4, <4>1 DEF Current, Owns
    <3>5. ASSUME NEW v \in Worker, exec'[v] # None
          PROVE  Current(v, exec[v][2])'
      BY <1>1, <3>2, <3>3, <3>5 DEF Current, Owns
    <3> QED BY <3>3, <3>4, <3>5 DEF OneCurrent
  <2>5. CASE EndDispatch(w) \/ EndPruned(w)
    <3> DEFINE j == exec[w][2]
    <3>1. /\ exec[w] # None /\ exec' = [exec EXCEPT ![w] = None] /\ j \in Job
          /\ \A i \in Job : i # j => /\ status'[i] = status[i] /\ worker_id'[i] = worker_id[i]
                                     /\ lease'[i] = lease[i]
      <4> USE <1>0 DEF TypeOK, Cleared, jobVars
      <4>1. CASE EndDispatch(w)
        BY <4>1 DEF EndDispatch, CompleteRun, FailRun
      <4>2. CASE EndPruned(w)
        BY <4>2 DEF EndPruned, FinishDeleted
      <4> QED BY <2>5, <4>1, <4>2
    <3>2. ASSUME NEW v \in Worker, exec'[v] # None
          PROVE  exec'[v] = exec[v] /\ exec[v] # None /\ exec[v][2] # j
      BY <1>0, <3>1, <3>2 DEF OneCurrent, TypeOK
    <3>3. ASSUME NEW v \in Worker, NEW i \in Job, exec'[v] # None, exec[v][2] = i
          PROVE  Current(v, i)'
      BY <1>1, <3>1, <3>2, <3>3 DEF Current, Owns
    <3> QED BY <1>1, <3>2, <3>3, CurrentStay
  <2> QED BY <1>2, <2>2, <2>3, <2>4, <2>5 DEF Loop
<1>3. ASSUME NEW w \in Worker, Crash(w) PROVE OneCurrent'
  <2>1. CrashRun(w) \/ UNCHANGED vars
    BY <1>3 DEF Crash
  <2>2. \A v \in Worker : exec'[v] \in {None, exec[v]}
    BY <1>0, <2>1 DEF CrashRun, vars, TypeOK
  <2>3. \A v \in Worker, j \in Job : exec[v] # None /\ exec[v][2] = j => Current(v, j)'
    BY <1>0, <1>1, <2>1, CurrentKept
  <2> QED BY <1>1, <2>2, <2>3, CurrentStay
<1>4. CASE Client \/ Repair \/ UNCHANGED loopVars
  <2>1. \/ \E S \in SUBSET Worker : RepairOrphanedWorkers(S)
        \/ \E i \in Job, d \in Delays : CreateJob(i, d)
        \/ \E i \in Job : CancelJob(i) \/ PruneJobs({i})
        \/ UNCHANGED vars
    BY <1>4 DEF Client, Repair, loopVars
  <2>2. exec' = exec
    BY <1>0, <2>1, CallsFree
  <2>3. \A v \in Worker, j \in Job : exec[v] # None /\ exec[v][2] = j => Current(v, j)'
    BY <1>0, <1>1, <2>1, CurrentKept
  <2> QED BY <1>1, <2>2, <2>3, CurrentStay
<1>5. CASE LoopTick
  <2>1. exec' = exec
    BY <1>5 DEF LoopTick, Tick
  <2>2. ASSUME NEW w \in Worker, NEW j \in Job, exec'[w] # None, exec[w][2] = j
        PROVE  Current(w, j)'
    <3>1. /\ j \in Job /\ Current(w, j)
          /\ UNCHANGED <<status, worker_id>>
          /\ lease'[j] = IF lease[j] = None THEN None ELSE Left(lease[j])
      BY <1>1, <1>5, <2>1, <2>2 DEF LoopTick, Tick
    <3>2. Owns(w, j) => lease[j] # 1 /\ lease[j] \in Nat
      BY <1>0, <1>5, <2>1, <2>2, <3>1
         DEF LoopTick, Late, TypeOK, ClaimMatchesStatus, Owns
    <3> QED BY <3>1, <3>2 DEF Current, Owns, Left
  <2> QED BY <1>1, <2>1, <2>2, CurrentStay
<1> QED BY <1>2, <1>3, <1>4, <1>5 DEF LoopNext

-------------------------------------------------------------------------------
(* Theorems *)

\* The invariant of run_worker_loop.
THEOREM LoopsHold == LoopSpec => [](LoopTypeOK /\ LoopsKnow /\ QueueInv /\ OwnerHolds)
<1>1. LoopInit => LoopTypeOK /\ LoopsKnow /\ QueueInv /\ OwnerHolds
  BY InitLoops, InitInv DEF LoopInit
<1>2. LoopTypeOK /\ LoopsKnow /\ QueueInv /\ OwnerHolds /\ [LoopNext]_loopVars
        => (LoopTypeOK /\ LoopsKnow /\ QueueInv /\ OwnerHolds)'
  <2>1. LoopTypeOK => TypeOK
    BY DEF LoopTypeOK
  <2> QED BY <2>1, StepLoops, StepOwners, LoopStepsCall, StepInv
<1> QED BY <1>1, <1>2, PTL DEF LoopSpec

\* The loops use the queue as its other callers may: all that is proved of the
\* queue, its promise to clients included, holds of queue and loops together.
THEOREM LoopsUseQueue == LoopSpec => Spec /\ ImplementsPromise
<1>1. LoopInit => Init
  BY DEF LoopInit
<1>2. LoopTypeOK /\ LoopsKnow /\ [LoopNext]_loopVars => [Next]_vars
  BY LoopStepsCall
<1>3. LoopSpec => Spec
  BY <1>1, <1>2, LoopsHold, PTL DEF LoopSpec, Spec
<1> QED BY <1>3, KeepsPromise, PTL

\* What a loop believes of its job is what the records and its thread say.
THEOREM LoopsAlwaysMatch == LoopSpec => []LoopMatchesRecord
<1>1. LoopsKnow => LoopMatchesRecord
  BY DEF LoopsKnow, LoopKnows, LoopMatchesRecord
<1> QED BY <1>1, LoopsHold, PTL

\* The worker that a running job names holds it, whatever stale outcomes land.
THEOREM LoopsOwnTheirs == LoopSpec => []OwnerHolds
BY LoopsHold, PTL

\* A loop executes one job at a time, its worker assigned to that or to none.
THEOREM LoopsExecuteOne == LoopSpec => []OneExecution
<1>1. LoopTypeOK /\ LoopsKnow => OneExecution
  <2> SUFFICES ASSUME LoopTypeOK, LoopsKnow, NEW t \in Thread, exec[t] # None
               PROVE  /\ current_job[exec[t][1]] \in {None, exec[t][2]}
                      /\ \A u \in Thread \ {t} : exec[u] # None => exec[u][1] # exec[t][1]
    BY DEF OneExecution
  <2>1. \A u \in Worker : exec[u] # None =>
          exec[u] = <<u, got[u]>> /\ current_job[u] \in {None, got[u]}
    BY DEF LoopsKnow, LoopKnows
  <2> QED BY <2>1
<1> QED BY <1>1, LoopsHold, PTL

\* No loop calls for a worker in a way that SoleDriver excludes.
THEOREM LoopsDriveAlone == LoopSpec => DrivesAlone
<1>1. LoopInit => Queue!Init
  BY DEF LoopInit, Init, Queue!Init
<1>2. LoopTypeOK /\ LoopsKnow /\ [LoopNext]_loopVars => [Queue!Next]_Queue!vars
  BY StepAlone
<1> QED BY <1>1, <1>2, LoopsHold, PTL DEF LoopSpec, DrivesAlone, Queue!Spec

\* With loops that keep up with their worker's lease, no loop dies of the
\* heartbeat that run_worker_loop makes outside its try.
THEOREM PromptLoopsLive == Prompt /\ LoopSpec => []NeverDies
<1> SUFFICES ASSUME Prompt PROVE LoopSpec => []NeverDies
  OBVIOUS
<1>1. LoopInit => KeepsUp
  BY DEF LoopInit, KeepsUp
<1>2. LoopTypeOK /\ LoopsKnow /\ KeepsUp /\ [LoopNext]_loopVars => KeepsUp'
  BY StepKeepsUp
<1>3. KeepsUp => NeverDies
  BY DEF KeepsUp, NeverDies
<1> QED BY <1>1, <1>2, <1>3, LoopsHold, PTL DEF LoopSpec

\* With dispatches shorter than the lease of their job, run_claimed_job only ever
\* settles a job for the claim on record, or one that was canceled or pruned.
THEOREM ShortDispatchesCurrent == ShortDispatch /\ LoopSpec => []NoStaleExecution
<1> SUFFICES ASSUME ShortDispatch PROVE LoopSpec => []NoStaleExecution
  OBVIOUS
<1>1. LoopInit => OneCurrent
  BY DEF LoopInit, Init, OneCurrent
<1>2. LoopTypeOK /\ LoopsKnow /\ QueueInv /\ OneCurrent /\ [LoopNext]_loopVars => OneCurrent'
  BY StepCurrent DEF QueueInv
<1>3. OneCurrent => NoStaleExecution
  BY DEF OneCurrent, Current, NoStaleExecution
<1> QED BY <1>1, <1>2, <1>3, LoopsHold, PTL DEF LoopSpec

===============================================================================
