---------------------------- MODULE JobQueueProofs ----------------------------
(***************************************************************************)
(* Proofs about JobQueue for any sets of jobs, workers and threads, any    *)
(* priorities, attempts, backoffs and leases.                              *)
(***************************************************************************)
EXTENDS JobQueue, FiniteSetTheorems, TLAPS

-------------------------------------------------------------------------------
(* Facts about the helpers the actions are built from *)

\* release_worker keeps the worker records well formed, whatever it releases.
LEMMA ReleasedType ==
  ASSUME NEW S, TypeOK, Released(S)
  PROVE  /\ wstatus' \in [Worker -> {"absent", "idle", "busy"}]
         /\ current_job' \in [Worker -> Job \cup {None}]
  BY DEF TypeOK, Released, Cleared

\* So does the renewal of a lease.
LEMMA RenewedType ==
  ASSUME NEW w \in Worker, TypeOK, Renewed(w)
  PROVE  wlease' \in [Worker -> Nat]
  BY ParamAssumption DEF TypeOK, Renewed

\* Replacing the status of a set of jobs keeps the status function typed.
LEMMA WithStatusType ==
  ASSUME NEW S, NEW s \in JobStatus \cup {"absent", "deleted"}, TypeOK
  PROVE  WithStatus(S, s) \in [Job -> JobStatus \cup {"absent", "deleted"}]
  BY DEF TypeOK, WithStatus

\* Clearing claims keeps the claim functions typed.
LEMMA ClearedType ==
  ASSUME NEW S, TypeOK
  PROVE  /\ Cleared(worker_id, S) \in [Job -> Worker \cup {None}]
         /\ Cleared(lease, S) \in [Job -> Nat \cup {None}]
         /\ Cleared(current_job, S) \in [Worker -> Job \cup {None}]
  BY DEF TypeOK, Cleared

-------------------------------------------------------------------------------
(* Type correctness *)

\* The empty state is well typed.
LEMMA InitType == Init => TypeOK
  BY DEF Init, TypeOK

\* Every step keeps every record well formed, one step per call.
LEMMA StepType == TypeOK /\ [Next]_vars => TypeOK'
<1> SUFFICES ASSUME TypeOK, [Next]_vars PROVE TypeOK'
  OBVIOUS
<1> USE DEF jobVars, workerVars
<1>1. ASSUME NEW j \in Job, NEW d \in Delays, CreateJob(j, d) PROVE TypeOK'
  BY <1>1, ParamAssumption DEF CreateJob, StatusFor, TypeOK, JobStatus
<1>2. ASSUME NEW S \in SUBSET Job, PromoteDueJobs(S) PROVE TypeOK'
  BY <1>2 DEF PromoteDueJobs, WithStatus, TypeOK, JobStatus
<1>3. ASSUME NEW j \in Job, CancelJob(j) PROVE TypeOK'
  <2>1. status' \in [Job -> JobStatus \cup {"absent", "deleted"}]
    BY <1>3 DEF CancelJob, JobCanceled, TypeOK, JobStatus, Terminal
  <2>2. QED
    BY <1>3, <2>1, ClearedType, ReleasedType DEF CancelJob, JobCanceled, TypeOK
<1>4. ASSUME NEW j \in Job, NEW d \in Delays, RescheduleJob(j, d) PROVE TypeOK'
  <2>1. status' \in [Job -> JobStatus \cup {"absent", "deleted"}]
    BY <1>4 DEF RescheduleJob, StatusFor, TypeOK, JobStatus
  <2>2. QED
    BY <1>4, <2>1, ClearedType, ParamAssumption DEF RescheduleJob, TypeOK
<1>5. ASSUME NEW S \in SUBSET Job, RepairStaleJobs(S) PROVE TypeOK'
  <2>1. status' \in [Job -> JobStatus \cup {"absent", "deleted"}]
    BY <1>5, WithStatusType DEF RepairStaleJobs, JobStatus
  <2>2. QED
    BY <1>5, <2>1, ClearedType DEF RepairStaleJobs, TypeOK
<1>6. ASSUME NEW S \in SUBSET Job, PruneJobs(S) PROVE TypeOK'
  <2>1. status' \in [Job -> JobStatus \cup {"absent", "deleted"}]
    BY <1>6, WithStatusType DEF PruneJobs, JobStatus
  <2>2. QED
    BY <1>6, <2>1, ClearedType DEF PruneJobs, TypeOK
<1>7. ASSUME NEW w \in Worker, RegisterWorker(w) PROVE TypeOK'
  BY <1>7, RenewedType DEF RegisterWorker, TypeOK
<1>8. ASSUME NEW w \in Worker, HeartbeatWorker(w) PROVE TypeOK'
  BY <1>8, RenewedType DEF HeartbeatWorker, TypeOK
<1>9. ASSUME ReclaimJobs
      PROVE  /\ status' \in [Job -> JobStatus \cup {"absent", "deleted"}]
             /\ worker_id' \in [Job -> Worker \cup {None}]
             /\ lease' \in [Job -> Nat \cup {None}]
             /\ wstatus' \in [Worker -> {"absent", "idle", "busy"}]
             /\ current_job' \in [Worker -> Job \cup {None}]
  <2>1. "queued" \in JobStatus \cup {"absent", "deleted"}
    BY DEF JobStatus
  <2>2. QED
    BY <1>9, <2>1, WithStatusType, ClearedType, ReleasedType DEF ReclaimJobs,
       Requeued
<1>10. CASE ReclaimExpiredLeases
  BY <1>9, <1>10 DEF ReclaimExpiredLeases, TypeOK
<1>11. ASSUME NEW w \in Worker, NEW j \in Job, ClaimNextJob(w, j) PROVE TypeOK'
  <2>1. status' \in [Job -> JobStatus \cup {"absent", "deleted"}]
    BY <1>11 DEF ClaimNextJob, WithStatus, TypeOK, JobStatus
  <2>2. worker_id' \in [Job -> Worker \cup {None}]
    BY <1>11, ClearedType DEF ClaimNextJob
  <2>3. lease' \in [Job -> Nat \cup {None}]
    BY <1>11, ClearedType, ParamAssumption DEF ClaimNextJob
  <2>4. wstatus' \in [Worker -> {"absent", "idle", "busy"}]
    BY <1>11 DEF ClaimNextJob, TypeOK
  <2>5. current_job' \in [Worker -> Job \cup {None}]
    BY <1>11, ClearedType DEF ClaimNextJob
  <2>6. QED
    BY <1>11, <2>1, <2>2, <2>3, <2>4, <2>5, RenewedType DEF ClaimNextJob, TypeOK
<1>12. ASSUME NEW w \in Worker, ClaimNothing(w) PROVE TypeOK'
  BY <1>9, <1>12, RenewedType DEF ClaimNothing, TypeOK
<1>13. ASSUME NEW t \in Thread, NEW w \in Worker, NEW j \in Job, StartRun(t, w,
             j)
       PROVE  TypeOK'
  BY <1>13, RenewedType DEF StartRun, TypeOK
<1>14. ASSUME NEW w \in Worker, NEW j \in Job, RunCanceled(w, j) PROVE TypeOK'
  BY <1>14, RenewedType, ReleasedType DEF RunCanceled, TypeOK
<1>15. ASSUME NEW w \in Worker, NEW j \in Job, RunRejected(w, j) PROVE TypeOK'
  BY <1>15, RenewedType, WithStatusType DEF RunRejected, TypeOK, JobStatus
<1>16. ASSUME NEW t \in Thread, CompleteRun(t) PROVE TypeOK'
  <2>1. status' \in [Job -> JobStatus \cup {"absent", "deleted"}]
    BY <1>16 DEF CompleteRun, TypeOK, JobStatus, Terminal
  <2>2. QED
    BY <1>16, <2>1, ClearedType, ReleasedType DEF CompleteRun, TypeOK
<1>17. ASSUME NEW t \in Thread, FailRun(t) PROVE TypeOK'
  <2> DEFINE j == exec[t][2]
             attempted == attempts[j] + 1
  <2>1. j \in Job /\ attempted \in Nat /\ attempted \in 1..attempted
    BY <1>17 DEF FailRun, TypeOK
  <2>2. attempts' \in [Job -> Nat]
    BY <1>17, <2>1 DEF FailRun, TypeOK
  <2>3. status' \in [Job -> JobStatus \cup {"absent", "deleted"}]
    BY <1>17, <2>1 DEF FailRun, StatusFor, TypeOK, JobStatus, Terminal
  <2>4. ready' \in [Job -> Nat]
    <3>1. CASE BudgetSpent(j, attempted)
      BY <1>17, <3>1 DEF FailRun, TypeOK
    <3>2. CASE ~ BudgetSpent(j, attempted)
      <4>1. attempted \in 1..MaxAttempts[j]
        BY <2>1, <3>2, ParamAssumption DEF BudgetSpent
      <4>2. RetryDelay(j, attempted) \in Nat
        BY <2>1, <4>1, DelayAssumption
      <4>3. QED
        BY <1>17, <2>1, <3>2, <4>2 DEF FailRun, TypeOK
    <3>3. QED
      BY <3>1, <3>2
  <2>5. QED
    BY <1>17, <2>2, <2>3, <2>4, ClearedType, ReleasedType DEF FailRun, TypeOK
<1>18. ASSUME NEW t \in Thread, FinishDeleted(t) PROVE TypeOK'
  BY <1>18, ReleasedType DEF FinishDeleted, TypeOK
<1>19. ASSUME NEW t \in Thread, CrashRun(t) PROVE TypeOK'
  BY <1>19 DEF CrashRun, TypeOK
<1>20. ASSUME NEW w \in Worker, NEW force, NEW requeue, ResetWorker(w, force,
             requeue)
       PROVE  TypeOK'
  <2>1. "queued" \in JobStatus \cup {"absent", "deleted"}
    BY DEF JobStatus
  <2>2. QED
    BY <1>20, <2>1, WithStatusType, ClearedType, ReleasedType, RenewedType
    DEF ResetWorker, Requeued, TypeOK
<1>21. ASSUME NEW S \in SUBSET Worker, RepairOrphanedWorkers(S) PROVE TypeOK'
  <2>1. status' \in [Job -> JobStatus \cup {"absent", "deleted"}]
    BY <1>21, WithStatusType DEF RepairOrphanedWorkers, JobStatus
  <2>2. wlease' \in [Worker -> Nat]
    BY <1>21, ParamAssumption DEF RepairOrphanedWorkers, TypeOK
  <2>3. QED
    BY <1>21, <2>1, <2>2, ReleasedType DEF RepairOrphanedWorkers, TypeOK
<1>22. CASE Tick
  BY <1>22 DEF Tick, Left, TypeOK
<1>23. CASE UNCHANGED vars
  BY <1>23 DEF vars, TypeOK
<1>24. QED
  BY <1>1, <1>2, <1>3, <1>4, <1>5, <1>6, <1>7, <1>8, <1>10, <1>11, <1>12, <1>13,
     <1>14, <1>15, <1>16, <1>17, <1>18, <1>19, <1>20, <1>21, <1>22, <1>23
  DEF Next, QueueNext, OperatorNext, CrashNext

\* The records the code writes always have the fields and values it reads:
\* no reachable state is outside the types the modules assume.
THEOREM TypeCorrect == Spec => []TypeOK
  BY InitType, StepType, PTL DEF Spec

-------------------------------------------------------------------------------
(* The safety invariant of the job records *)

QueueInv == ClaimMatchesStatus /\ BusyMeansAssigned /\ NeverEarly /\ RetryBudget

\* The invariant holds of the empty state.
LEMMA InitInv == Init => QueueInv
  BY ParamAssumption
  DEF Init, QueueInv, ClaimMatchesStatus, BusyMeansAssigned, NeverEarly, RetryBudget

\* Every call keeps it, whatever other calls ran since a dispatch started.
LEMMA StepInv == TypeOK /\ QueueInv /\ [Next]_vars => QueueInv'
<1> SUFFICES ASSUME TypeOK, QueueInv, [Next]_vars PROVE QueueInv'
  OBVIOUS
<1> USE ParamAssumption DEF TypeOK, QueueInv, jobVars, workerVars,
            ClaimMatchesStatus, BusyMeansAssigned, NeverEarly, RetryBudget,
            JobStatus, Terminal
<1>1. ASSUME NEW j \in Job, NEW d \in Delays, CreateJob(j, d)
      PROVE  QueueInv'
  BY <1>1 DEF CreateJob, StatusFor
<1>2. ASSUME NEW S \in SUBSET Job, PromoteDueJobs(S)
      PROVE  QueueInv'
  BY <1>2 DEF PromoteDueJobs, WithStatus, Due
<1>3. ASSUME NEW j \in Job, CancelJob(j)
      PROVE  QueueInv'
  BY <1>3 DEF CancelJob, JobCanceled, Cleared, Exists, Released
<1>4. ASSUME NEW j \in Job, NEW d \in Delays, RescheduleJob(j, d)
      PROVE  QueueInv'
  BY <1>4 DEF RescheduleJob, Cleared, StatusFor
<1>5. ASSUME NEW S \in SUBSET Job, RepairStaleJobs(S)
      PROVE  QueueInv'
  BY <1>5 DEF RepairStaleJobs, WithStatus, Cleared, Due
<1>6. ASSUME NEW S \in SUBSET Job, PruneJobs(S)
      PROVE  QueueInv'
  BY <1>6 DEF PruneJobs, WithStatus, Cleared
<1>7. ASSUME NEW w \in Worker, RegisterWorker(w)
      PROVE  QueueInv'
  BY <1>7 DEF RegisterWorker, Registered
<1>8. ASSUME NEW w \in Worker, HeartbeatWorker(w)
      PROVE  QueueInv'
  BY <1>8 DEF HeartbeatWorker
<1>9. CASE ReclaimExpiredLeases
  BY <1>9 DEF ReclaimExpiredLeases, ReclaimJobs, Requeued, WithStatus, Cleared,
     Released,
     Expired, Due
<1>10. ASSUME NEW w \in Worker, NEW j \in Job, ClaimNextJob(w, j)
      PROVE  QueueInv'
  BY <1>10 DEF ClaimNextJob, Claimable, WithStatus, Cleared, Expired, Due
<1>11. ASSUME NEW w \in Worker, ClaimNothing(w)
      PROVE  QueueInv'
  BY <1>11 DEF ClaimNothing, ReclaimJobs, Requeued, WithStatus, Cleared,
     Released,
     Expired, Due
<1>12. ASSUME NEW t \in Thread, NEW w \in Worker, NEW j \in Job, StartRun(t, w,
             j)
      PROVE  QueueInv'
  BY <1>12 DEF StartRun
<1>13. ASSUME NEW w \in Worker, NEW j \in Job, RunCanceled(w, j)
      PROVE  QueueInv'
  BY <1>13 DEF RunCanceled, Released, Cleared
<1>14. ASSUME NEW w \in Worker, NEW j \in Job, RunRejected(w, j)
      PROVE  QueueInv'
  BY <1>14 DEF RunRejected, WithStatus, Due
<1>15. ASSUME NEW t \in Thread, CompleteRun(t)
      PROVE  QueueInv'
  BY <1>15 DEF CompleteRun, Cleared, Released
<1>16. ASSUME NEW t \in Thread, FailRun(t)
      PROVE  QueueInv'
  <2> DEFINE j == exec[t][2]
             attempted == attempts[j] + 1
  <2>1. j \in Job /\ attempted \in Nat
    BY <1>16 DEF FailRun
  <2>2. ClaimMatchesStatus' /\ BusyMeansAssigned' /\ NeverEarly'
    BY <1>16 DEF FailRun, Cleared, StatusFor, Released
  <2>3. CASE BudgetSpent(j, attempted)
    <3>1. /\ status' = [status EXCEPT ![j] = IF MaxAttempts[j] > 1
                                             THEN "dead_letter" ELSE "failed"]
          /\ attempts' = [attempts EXCEPT ![j] = attempted]
      BY <1>16, <2>3 DEF FailRun
    <3>2. /\ status'[j] = IF MaxAttempts[j] > 1 THEN "dead_letter" ELSE "failed"
          /\ attempts'[j] = attempted
          /\ \A k \in Job \ {j} :
               status'[k] = status[k] /\ attempts'[k] = attempts[k]
      BY <2>1, <3>1
    <3>3. MaxAttempts[j] \in Nat \ {0} /\ attempted >= MaxAttempts[j]
      BY <2>1, <2>3 DEF BudgetSpent
    <3>4. RetryBudget'
      BY <2>1, <3>2, <3>3
    <3>5. QED
      BY <2>2, <3>4
  <2>4. CASE ~ BudgetSpent(j, attempted)
    <3>1. attempted < MaxAttempts[j]
      BY <2>1, <2>4 DEF BudgetSpent
    <3>2. /\ status' = [status EXCEPT ![j] = StatusFor(RetryDelay(j, attempted))]
          /\ attempts' = [attempts EXCEPT ![j] = attempted]
      BY <1>16, <2>4 DEF FailRun
    <3>3. RetryBudget'
      BY <2>1, <3>1, <3>2 DEF StatusFor
    <3>4. QED
      BY <2>2, <3>3
  <2>5. QED
    BY <2>1, <2>3, <2>4
<1>17. ASSUME NEW t \in Thread, FinishDeleted(t)
      PROVE  QueueInv'
  BY <1>17 DEF FinishDeleted, Released, Cleared
<1>18. ASSUME NEW t \in Thread, CrashRun(t)
      PROVE  QueueInv'
  BY <1>18 DEF CrashRun
<1>19. ASSUME NEW w \in Worker, NEW force, NEW requeue, ResetWorker(w, force,
             requeue)
      PROVE  QueueInv'
  BY <1>19 DEF ResetWorker, Requeued, WithStatus, Cleared, Owns, Due, Released
<1>20. ASSUME NEW S \in SUBSET Worker, RepairOrphanedWorkers(S)
      PROVE  QueueInv'
  BY <1>20 DEF RepairOrphanedWorkers, WithStatus, Due, Released, Cleared
<1>21. CASE Tick
  BY <1>21 DEF Tick, Left
<1>22. CASE UNCHANGED vars
  BY <1>22 DEF vars
<1>23. QED
  BY <1>1, <1>2, <1>3, <1>4, <1>5, <1>6, <1>7, <1>8, <1>9, <1>10, <1>11, <1>12,
     <1>13, <1>14, <1>15, <1>16, <1>17, <1>18, <1>19, <1>20, <1>21, <1>22
  DEF Next, QueueNext, OperatorNext, CrashNext

\* It is inductive, so it holds for ever.
LEMMA InvHolds == Spec => []QueueInv
<1>1. TypeOK /\ QueueInv /\ [Next]_vars => TypeOK' /\ QueueInv'
  BY StepType, StepInv
<1>2. QED
  BY InitType, InitInv, TypeCorrect, <1>1, PTL DEF Spec

\* A record is claimed exactly while it runs, so every running job can be
\* reclaimed, however claims, cancels, repairs and late outcomes interleave.
THEOREM ClaimAlwaysMatches == Spec => []ClaimMatchesStatus
  BY InvHolds, PTL DEF QueueInv

\* The two fields that tell whether a worker is free never disagree.
THEOREM BusyAlwaysAssigned == Spec => []BusyMeansAssigned
  BY InvHolds, PTL DEF QueueInv

\* No delay and no backoff is cut short.
THEOREM NeverRunsEarly == Spec => []NeverEarly
  BY InvHolds, PTL DEF QueueInv

\* A job that used up its attempts never runs again without a reschedule.
THEOREM BudgetKept == Spec => []RetryBudget
  BY InvHolds, PTL DEF QueueInv

-------------------------------------------------------------------------------
(* What no step may do *)

StepsKeep == KeepsDeleted /\ AssignsByClaim /\ KeepsFinished

\* No call brings a pruned record back, assigns a worker without claiming for
\* it, or changes a finished job other than as FinishedStays allows.
LEMMA StepKeep == TypeOK /\ QueueInv /\ [Next]_vars => StepsKeep
<1> SUFFICES ASSUME TypeOK, QueueInv, [Next]_vars PROVE StepsKeep
  OBVIOUS
<1> USE ParamAssumption DEF Renewed, Exists, TypeOK, QueueInv, jobVars,
            workerVars, ClaimMatchesStatus, JobStatus, Terminal, StepsKeep,
            KeepsDeleted, AssignsByClaim, KeepsFinished, Settling, InFlight
<1>1. ASSUME NEW j \in Job, NEW d \in Delays, CreateJob(j, d)
      PROVE  StepsKeep
  BY <1>1 DEF CreateJob, StatusFor
<1>2. ASSUME NEW S \in SUBSET Job, PromoteDueJobs(S)
      PROVE  StepsKeep
  BY <1>2 DEF PromoteDueJobs, WithStatus, Due
<1>3. ASSUME NEW j \in Job, CancelJob(j)
      PROVE  StepsKeep
  BY <1>3 DEF CancelJob, JobCanceled, Cleared, Exists, Released
<1>4. ASSUME NEW j \in Job, NEW d \in Delays, RescheduleJob(j, d)
      PROVE  StepsKeep
  BY <1>4 DEF RescheduleJob, Cleared, StatusFor
<1>5. ASSUME NEW S \in SUBSET Job, RepairStaleJobs(S)
      PROVE  StepsKeep
  BY <1>5 DEF RepairStaleJobs, WithStatus, Cleared, Due
<1>6. ASSUME NEW S \in SUBSET Job, PruneJobs(S)
      PROVE  StepsKeep
  BY <1>6 DEF PruneJobs, WithStatus, Cleared
<1>7. ASSUME NEW w \in Worker, RegisterWorker(w)
      PROVE  StepsKeep
  BY <1>7 DEF RegisterWorker, Registered
<1>8. ASSUME NEW w \in Worker, HeartbeatWorker(w)
      PROVE  StepsKeep
  BY <1>8 DEF HeartbeatWorker
<1>9. CASE ReclaimExpiredLeases
  BY <1>9 DEF ReclaimExpiredLeases, ReclaimJobs, Requeued, WithStatus, Cleared,
     Released,
     Expired, Due
<1>10. ASSUME NEW w \in Worker, NEW j \in Job, ClaimNextJob(w, j)
      PROVE  StepsKeep
  BY <1>10 DEF ClaimNextJob, Claimable, WithStatus, Cleared, Expired, Due
<1>11. ASSUME NEW w \in Worker, ClaimNothing(w)
      PROVE  StepsKeep
  BY <1>11 DEF ClaimNothing, ReclaimJobs, Requeued, WithStatus, Cleared,
     Released,
     Expired, Due
<1>12. ASSUME NEW t \in Thread, NEW w \in Worker, NEW j \in Job, StartRun(t, w,
             j)
      PROVE  StepsKeep
  BY <1>12 DEF StartRun
<1>13. ASSUME NEW w \in Worker, NEW j \in Job, RunCanceled(w, j)
      PROVE  StepsKeep
  BY <1>13 DEF RunCanceled, Released, Cleared
<1>14. ASSUME NEW w \in Worker, NEW j \in Job, RunRejected(w, j)
      PROVE  StepsKeep
  BY <1>14 DEF RunRejected, WithStatus, Due
<1>15. ASSUME NEW t \in Thread, CompleteRun(t)
      PROVE  StepsKeep
  BY <1>15 DEF CompleteRun, Cleared, Released
<1>16. ASSUME NEW t \in Thread, FailRun(t)
      PROVE  StepsKeep
  <2> USE DEF FailRun, Cleared, StatusFor, Released
  <2>1. KeepsDeleted
    BY <1>16
  <2>2. AssignsByClaim
    BY <1>16
  <2>3. KeepsFinished
    BY <1>16
  <2> QED BY <2>1, <2>2, <2>3, Zenon DEF StepsKeep
<1>17. ASSUME NEW t \in Thread, FinishDeleted(t)
      PROVE  StepsKeep
  BY <1>17 DEF FinishDeleted, Released, Cleared
<1>18. ASSUME NEW t \in Thread, CrashRun(t)
      PROVE  StepsKeep
  BY <1>18 DEF CrashRun
<1>19. ASSUME NEW w \in Worker, NEW force, NEW requeue, ResetWorker(w, force,
             requeue)
      PROVE  StepsKeep
  BY <1>19 DEF ResetWorker, Requeued, WithStatus, Cleared, Owns, Due, Released
<1>20. ASSUME NEW S \in SUBSET Worker, RepairOrphanedWorkers(S)
      PROVE  StepsKeep
  BY <1>20 DEF RepairOrphanedWorkers, WithStatus, Due, Released, Cleared
<1>21. CASE Tick
  BY <1>21 DEF Tick, Left
<1>22. CASE UNCHANGED vars
  BY <1>22 DEF vars
<1>23. QED
  BY <1>1, <1>2, <1>3, <1>4, <1>5, <1>6, <1>7, <1>8, <1>9, <1>10, <1>11, <1>12,
     <1>13, <1>14, <1>15, <1>16, <1>17, <1>18, <1>19, <1>20, <1>21, <1>22
  DEF Next, QueueNext, OperatorNext, CrashNext

\* Only a late outcome or a reset of its worker takes a job whose lease still
\* runs: the claims and reclaims of the other workers cannot.
LEMMA StepLease == TypeOK /\ QueueInv /\ [Next]_vars => RespectsLeases
<1> SUFFICES ASSUME TypeOK, QueueInv, [Next]_vars, NEW k \in Job, Taken(k)
             PROVE  Settling(k) \/ \E w \in Worker : GivesUp(w, k)
  BY DEF RespectsLeases
<1> USE DEF TypeOK, Taken, jobVars, workerVars
<1>1. ASSUME NEW j \in Job, NEW d \in Delays, CreateJob(j, d) PROVE FALSE
  BY <1>1 DEF CreateJob
<1>2. ASSUME NEW S \in SUBSET Job, PromoteDueJobs(S) PROVE FALSE
  BY <1>2 DEF PromoteDueJobs, WithStatus, Due
<1>3. ASSUME NEW j \in Job, CancelJob(j) PROVE FALSE
  BY <1>3 DEF CancelJob, JobCanceled, Cleared
<1>4. ASSUME NEW j \in Job, NEW d \in Delays, RescheduleJob(j, d) PROVE FALSE
  BY <1>4 DEF RescheduleJob, Cleared
<1>5. ASSUME NEW S \in SUBSET Job, RepairStaleJobs(S) PROVE FALSE
  <2>1. k \notin S
    BY <1>5 DEF RepairStaleJobs, Due
  <2>2. QED
    BY <1>5, <2>1 DEF RepairStaleJobs, WithStatus, Cleared
<1>6. ASSUME NEW S \in SUBSET Job, PruneJobs(S) PROVE FALSE
  <2>1. k \notin S
    BY <1>6 DEF PruneJobs, Terminal
  <2>2. QED
    BY <1>6, <2>1 DEF PruneJobs, WithStatus, Cleared
<1>7. ASSUME NEW w \in Worker,
             RegisterWorker(w) \/ HeartbeatWorker(w) PROVE FALSE
  BY <1>7 DEF RegisterWorker, HeartbeatWorker
<1>8. k \notin Expired \cup Due
  BY DEF Expired, Due
<1>9. ASSUME ReclaimJobs PROVE FALSE
  BY <1>8, <1>9 DEF ReclaimJobs, Requeued, WithStatus, Cleared
<1>10. ASSUME NEW w \in Worker, NEW j \in Job, ClaimNextJob(w, j) PROVE FALSE
  <2>1. j # k
    BY <1>8, <1>10 DEF ClaimNextJob, Claimable
  <2>2. QED
    BY <1>8, <1>10, <2>1 DEF ClaimNextJob, WithStatus, Cleared
<1>11. ASSUME NEW t \in Thread, NEW w \in Worker, NEW j \in Job, StartRun(t, w,
             j)
       PROVE  FALSE
  BY <1>11 DEF StartRun
<1>12. ASSUME NEW w \in Worker, NEW j \in Job, RunCanceled(w,
             j) \/ RunRejected(w,
             j)
       PROVE  FALSE
  BY <1>12 DEF RunCanceled, RunRejected, WithStatus, Due
<1>13. ASSUME NEW t \in Thread, CompleteRun(t) \/ FailRun(t) PROVE Settling(k)
  <2>1. k = exec[t][2]
    BY <1>13 DEF CompleteRun, FailRun, Cleared
  <2>2. QED
    BY <1>13, <2>1 DEF CompleteRun, FailRun, Settling, InFlight
<1>14. ASSUME NEW t \in Thread, FinishDeleted(t) \/ CrashRun(t) PROVE FALSE
  BY <1>14 DEF FinishDeleted, CrashRun
<1>15. ASSUME NEW w \in Worker, NEW force, NEW requeue, ResetWorker(w, force,
             requeue)
       PROVE  GivesUp(w, k)
  <2>1. current_job[w] = k /\ Owns(w, k)
    BY <1>15 DEF ResetWorker, Requeued, WithStatus, Cleared, Due
  <2>2. QED
    BY <1>15, <2>1 DEF ResetWorker, Requeued, GivesUp, Released, Cleared
<1>16. ASSUME NEW S \in SUBSET Worker, RepairOrphanedWorkers(S) PROVE FALSE
  BY <1>16 DEF RepairOrphanedWorkers, WithStatus, Due
<1>17. CASE Tick \/ UNCHANGED vars
  BY <1>17 DEF Tick, vars
<1>18. QED
  BY <1>1, <1>2, <1>3, <1>4, <1>5, <1>6, <1>7, <1>9, <1>10, <1>11, <1>12, <1>13,
     <1>14, <1>15, <1>16, <1>17
  DEF Next, QueueNext, OperatorNext, CrashNext, ReclaimExpiredLeases, ClaimNothing


\* Every step of a behaviour satisfies the step properties.
LEMMA StepsHold == Spec => [][StepsKeep /\ RespectsLeases]_vars
<1>1. TypeOK /\ QueueInv /\ [Next]_vars => [StepsKeep /\ RespectsLeases]_vars
  BY StepKeep, StepLease
<1>2. QED
  BY TypeCorrect, InvHolds, <1>1, PTL DEF Spec

\* A pruned job never comes back, even when an execution outlives its record.
THEOREM PrunedForGood == Spec => DeletedStaysDeleted
<1>1. [StepsKeep /\ RespectsLeases]_vars => [KeepsDeleted]_vars
  BY DEF StepsKeep
<1>2. QED
  BY StepsHold, <1>1, PTL DEF DeletedStaysDeleted

\* A worker gets a job only by a claim that the record confirms.
THEOREM ClaimsAssign == Spec => AssignedByClaim
<1>1. [StepsKeep /\ RespectsLeases]_vars => [AssignsByClaim]_vars
  BY DEF StepsKeep
<1>2. QED
  BY StepsHold, <1>1, PTL DEF AssignedByClaim

\* What finished stays, but for late executions, reschedules and prunes.
THEOREM FinishedForGood == Spec => FinishedStays
<1>1. [StepsKeep /\ RespectsLeases]_vars => [KeepsFinished]_vars
  BY DEF StepsKeep
<1>2. QED
  BY StepsHold, <1>1, PTL DEF FinishedStays

\* No other worker takes a job before its lease has run out.
THEOREM LeasesKept == Spec => LeaseRespected
<1>1. [StepsKeep /\ RespectsLeases]_vars => [RespectsLeases]_vars
  OBVIOUS
<1>2. QED
  BY StepsHold, <1>1, PTL DEF LeaseRespected

-------------------------------------------------------------------------------
(* Workers that only their own loop drives *)

LoopInv == OwnerHolds /\ OneExecution

\* Every call keeps record and worker pointing at each other, as long as no
\* API client drives the loop's worker and no operator forces a reset.
LEMMA StepLoop ==
  SoleDriver /\ ~ ForceReset /\  TypeOK /\ QueueInv /\ LoopInv /\ [Next]_vars
    => LoopInv'
<1> SUFFICES ASSUME SoleDriver, ~ ForceReset, TypeOK, QueueInv /\ LoopInv, [Next]_vars
             PROVE  LoopInv'
  OBVIOUS
<1> USE ParamAssumption DEF TypeOK, LoopInv, jobVars, workerVars, QueueInv,
            ClaimMatchesStatus, BusyMeansAssigned, OwnerHolds, OneExecution,
            Owns, MayClaim, MayRun, Dispatching, ExpiredHolders, Exists,
            Orphaned, StillHolds
<1>1. ASSUME NEW j \in Job, NEW d \in Delays, CreateJob(j, d)
      PROVE  LoopInv'
  BY <1>1 DEF CreateJob, StatusFor
<1>2. ASSUME NEW S \in SUBSET Job, PromoteDueJobs(S)
      PROVE  LoopInv'
  BY <1>2 DEF PromoteDueJobs, WithStatus, Due
<1>3. ASSUME NEW j \in Job, CancelJob(j)
      PROVE  LoopInv'
  BY <1>3 DEF CancelJob, JobCanceled, Cleared, Exists, Released
<1>4. ASSUME NEW j \in Job, NEW d \in Delays, RescheduleJob(j, d)
      PROVE  LoopInv'
  BY <1>4 DEF RescheduleJob, Cleared, StatusFor
<1>5. ASSUME NEW S \in SUBSET Job, RepairStaleJobs(S)
      PROVE  LoopInv'
  BY <1>5 DEF RepairStaleJobs, WithStatus, Cleared, Due
<1>6. ASSUME NEW S \in SUBSET Job, PruneJobs(S)
      PROVE  LoopInv'
  BY <1>6 DEF PruneJobs, WithStatus, Cleared
<1>7. ASSUME NEW w \in Worker, RegisterWorker(w)
      PROVE  LoopInv'
  BY <1>7 DEF RegisterWorker, Registered
<1>8. ASSUME NEW w \in Worker, HeartbeatWorker(w)
      PROVE  LoopInv'
  BY <1>8 DEF HeartbeatWorker
<1>9. CASE ReclaimExpiredLeases
  BY <1>9 DEF ReclaimExpiredLeases, ReclaimJobs, Requeued, WithStatus, Cleared,
     Released,
     Expired, Due
<1>10. ASSUME NEW w \in Worker, NEW j \in Job, ClaimNextJob(w, j)
      PROVE  LoopInv'
  BY <1>10 DEF ClaimNextJob, Claimable, WithStatus, Cleared, Expired, Due
<1>11. ASSUME NEW w \in Worker, ClaimNothing(w)
      PROVE  LoopInv'
  BY <1>11 DEF ClaimNothing, ReclaimJobs, Requeued, WithStatus, Cleared,
     Released,
     Expired, Due
<1>12. ASSUME NEW t \in Thread, NEW w \in Worker, NEW j \in Job, StartRun(t, w,
             j)
      PROVE  LoopInv'
  BY <1>12 DEF StartRun
<1>13. ASSUME NEW w \in Worker, NEW j \in Job, RunCanceled(w, j)
      PROVE  LoopInv'
  BY <1>13 DEF RunCanceled, Released, Cleared
<1>14. ASSUME NEW w \in Worker, NEW j \in Job, RunRejected(w, j)
      PROVE  LoopInv'
  BY <1>14 DEF RunRejected, WithStatus, Due
<1>15. ASSUME NEW t \in Thread, CompleteRun(t)
      PROVE  LoopInv'
  BY <1>15 DEF CompleteRun, Cleared, Released
<1>16. ASSUME NEW t \in Thread, FailRun(t)
      PROVE  LoopInv'
  BY <1>16 DEF FailRun, Cleared, StatusFor, Released
<1>17. ASSUME NEW t \in Thread, FinishDeleted(t)
      PROVE  LoopInv'
  BY <1>17 DEF FinishDeleted, Released, Cleared
<1>18. ASSUME NEW t \in Thread, CrashRun(t)
      PROVE  LoopInv'
  BY <1>18 DEF CrashRun
<1>19. ASSUME NEW w \in Worker, NEW force \in BOOLEAN, NEW requeue \in BOOLEAN,
             ~ force, ResetWorker(w, force, requeue)
       PROVE  LoopInv'
  BY <1>19 DEF ResetWorker, Requeued, WithStatus, Cleared, Owns, Due, Released
<1>20. ASSUME NEW S \in SUBSET Worker, RepairOrphanedWorkers(S)
      PROVE  LoopInv'
  BY <1>20 DEF RepairOrphanedWorkers, WithStatus, Due, Released, Cleared
<1>21. CASE Tick
  BY <1>21 DEF Tick, Left
<1>22. CASE UNCHANGED vars
  BY <1>22 DEF vars
<1> HIDE DEF LoopInv
<1>23. QED
  BY <1>1, <1>2, <1>3, <1>4, <1>5, <1>6, <1>7, <1>8, <1>9, <1>10, <1>11, <1>12,
     <1>13, <1>14, <1>15, <1>16, <1>17, <1>18, <1>19, <1>20, <1>21, <1>22
  DEF Next, QueueNext, OperatorNext, CrashNext

\* It is inductive under these assumptions.
LEMMA LoopInvHolds == SoleDriver /\ ~ ForceReset /\ Spec => []LoopInv
<1> SUFFICES ASSUME SoleDriver, ~ ForceReset PROVE Spec => []LoopInv
  OBVIOUS
<1>1. Init => LoopInv
  BY DEF Init, LoopInv, OwnerHolds, OneExecution, Owns
<1>2. TypeOK /\ QueueInv /\ LoopInv /\ [Next]_vars => LoopInv'
  BY StepLoop
<1>3. QED
  BY TypeCorrect, InvHolds, <1>1, <1>2, PTL DEF Spec

\* Then the worker that a running job names is the one that holds it.
THEOREM OwnersHold == SoleDriver /\ ~ ForceReset /\ Spec => []OwnerHolds
  BY LoopInvHolds, PTL DEF LoopInv

\* And no worker executes two jobs at a time.
THEOREM OneAtATime == SoleDriver /\ ~ ForceReset /\ Spec => []OneExecution
  BY LoopInvHolds, PTL DEF LoopInv

-------------------------------------------------------------------------------
(* Late failures *)

\* Fewer executions in flight, and no more attempts, or a fresh budget.
LEMMA OvershootKept ==
  ASSUME IsFiniteSet(Thread), TypeOK, TypeOK', BoundedOvershoot, NEW j \in Job,
         attempts'[j] = attempts[j] \/ attempts'[j] = 0,
         InFlight(j)' \subseteq InFlight(j)
  PROVE  attempts'[j] >= MaxAttempts[j]
           => attempts'[j] + Cardinality(InFlight(j)') < MaxAttempts[j] + Cardinality(Thread)
<1>1. IsFiniteSet(InFlight(j)) /\ Cardinality(InFlight(j)') <= Cardinality(InFlight(j))
  <2>1. IsFiniteSet(InFlight(j))
    BY FS_Subset DEF InFlight
  <2> QED BY <2>1, FS_Subset
<1>2. /\ Cardinality(InFlight(j)') \in Nat /\ Cardinality(InFlight(j)) \in Nat
      /\ Cardinality(Thread) \in Nat
  BY <1>1, FS_Subset, FS_CardinalityType
<1>3. MaxAttempts[j] \in Nat \ {0} /\ attempts[j] \in Nat
  BY ParamAssumption DEF TypeOK
<1> QED BY <1>1, <1>2, <1>3 DEF BoundedOvershoot

\* An execution starts only within the budget, and a failure that exceeds it
\* ends an execution.
LEMMA StepOvershoot ==
  ASSUME IsFiniteSet(Thread)
  PROVE  TypeOK /\ QueueInv /\ BoundedOvershoot /\ [Next]_vars => BoundedOvershoot'
<1> SUFFICES ASSUME TypeOK, QueueInv, BoundedOvershoot, [Next]_vars, NEW j \in Job,
                    attempts'[j] >= MaxAttempts[j]
             PROVE  attempts'[j] + Cardinality(InFlight(j)')
                      < MaxAttempts[j] + Cardinality(Thread)
  BY DEF BoundedOvershoot
<1>1. TypeOK'
  BY StepType
<1>2. MaxAttempts[j] \in Nat \ {0} /\ attempts[j] \in Nat
  BY ParamAssumption DEF TypeOK
<1>3. ASSUME NEW t \in Thread, exec[t] # None, exec[t][2] = j, FailRun(t)
      PROVE  attempts'[j] + Cardinality(InFlight(j)') < MaxAttempts[j] + Cardinality(Thread)
  <2>1. /\ attempts'[j] = attempts[j] + 1 /\ t \in InFlight(j)
        /\ InFlight(j)' = InFlight(j) \ {t}
    BY <1>3 DEF FailRun, TypeOK, InFlight
  <2>2. IsFiniteSet(InFlight(j)) /\ Cardinality(InFlight(j)) <= Cardinality(Thread)
    <3>1. InFlight(j) \subseteq Thread
      BY DEF InFlight
    <3> QED BY <3>1, FS_Subset
  <2>3. Cardinality(InFlight(j) \ {t}) = Cardinality(InFlight(j)) - 1
    BY <2>1, <2>2, FS_RemoveElement
  <2>4. Cardinality(InFlight(j)) \in Nat /\ Cardinality(Thread) \in Nat
    BY <2>2, FS_CardinalityType
  <2>5. attempts[j] + Cardinality(InFlight(j)) < MaxAttempts[j] + Cardinality(Thread)
          \/ attempts[j] < MaxAttempts[j]
    BY <1>2 DEF BoundedOvershoot
  <2> QED BY <1>2, <2>1, <2>2, <2>3, <2>4, <2>5
<1>4. CASE InFlight(j)' \subseteq InFlight(j) /\ attempts'[j] \in {attempts[j], 0}
  BY <1>1, <1>4, OvershootKept
<1>5. ASSUME NEW t \in Thread, NEW w \in Worker, NEW k \in Job, StartRun(t, w, k)
      PROVE  attempts'[j] + Cardinality(InFlight(j)') < MaxAttempts[j] + Cardinality(Thread)
  <2>1. attempts' = attempts
    BY <1>5 DEF StartRun, jobVars
  <2>2. CASE k = j
    <3>1. status[j] = "running"
      BY <1>5, <2>2 DEF StartRun, Owns
    <3>2. attempts[j] < MaxAttempts[j]
      BY <3>1 DEF QueueInv, RetryBudget
    <3> QED BY <1>2, <2>1, <3>2
  <2>3. CASE k # j
    <3>1. InFlight(j)' \subseteq InFlight(j)
      BY <1>5, <2>3 DEF StartRun, InFlight, TypeOK
    <3> QED BY <1>4, <2>1, <3>1
  <2> QED BY <2>2, <2>3
<1>6. ASSUME NEW t \in Thread, CompleteRun(t) \/ FinishDeleted(t) \/ CrashRun(t) \/ FailRun(t)
      PROVE  attempts'[j] + Cardinality(InFlight(j)') < MaxAttempts[j] + Cardinality(Thread)
  <2>1. InFlight(j)' \subseteq InFlight(j)
    BY <1>6 DEF CompleteRun, FinishDeleted, CrashRun, FailRun, InFlight, TypeOK
  <2>2. CASE FailRun(t) /\ exec[t][2] = j
    BY <1>3, <2>2 DEF FailRun
  <2>3. CASE ~ (FailRun(t) /\ exec[t][2] = j)
    <3>1. attempts'[j] = attempts[j]
      BY <1>6, <2>3 DEF CompleteRun, FinishDeleted, CrashRun, FailRun, TypeOK, jobVars
    <3> QED BY <1>4, <2>1, <3>1
  <2> QED BY <2>2, <2>3
<1>7. CASE exec' = exec /\ attempts'[j] \in {attempts[j], 0}
  <2>1. InFlight(j)' = InFlight(j)
    BY <1>7 DEF InFlight
  <2> QED BY <1>4, <1>7, <2>1
<1>8. \/ exec' = exec /\ attempts'[j] \in {attempts[j], 0}
      \/ \E t \in Thread, w \in Worker, k \in Job : StartRun(t, w, k)
      \/ \E t \in Thread : CompleteRun(t) \/ FinishDeleted(t) \/ CrashRun(t) \/ FailRun(t)
  <2> USE DEF jobVars, workerVars, TypeOK
  <2>1. ASSUME NEW S \in SUBSET Job, RepairStaleJobs(S) \/ PruneJobs(S) \/ PromoteDueJobs(S)
        PROVE  exec' = exec /\ attempts'[j] \in {attempts[j], 0}
    BY <2>1 DEF RepairStaleJobs, PruneJobs, PromoteDueJobs
  <2>2. ASSUME NEW k \in Job, NEW d \in Delays, CreateJob(k, d) \/ RescheduleJob(k, d)
        PROVE  exec' = exec /\ attempts'[j] \in {attempts[j], 0}
    BY <2>2 DEF CreateJob, RescheduleJob
  <2>3. ASSUME NEW k \in Job, CancelJob(k)
        PROVE  exec' = exec /\ attempts'[j] \in {attempts[j], 0}
    BY <2>3 DEF CancelJob
  <2>4. ASSUME NEW w \in Worker,
               RegisterWorker(w) \/ HeartbeatWorker(w) \/ ClaimNothing(w)
        PROVE  exec' = exec /\ attempts'[j] \in {attempts[j], 0}
    BY <2>4 DEF RegisterWorker, HeartbeatWorker, ClaimNothing
  <2>5. ASSUME NEW w \in Worker, NEW k \in Job,
               ClaimNextJob(w, k) \/ RunCanceled(w, k) \/ RunRejected(w, k)
        PROVE  exec' = exec /\ attempts'[j] \in {attempts[j], 0}
    BY <2>5 DEF ClaimNextJob, RunCanceled, RunRejected
  <2>6. ASSUME NEW w \in Worker, NEW force, NEW requeue, ResetWorker(w, force, requeue)
        PROVE  exec' = exec /\ attempts'[j] \in {attempts[j], 0}
    BY <2>6 DEF ResetWorker
  <2>7. ASSUME NEW S \in SUBSET Worker, RepairOrphanedWorkers(S)
        PROVE  exec' = exec /\ attempts'[j] \in {attempts[j], 0}
    BY <2>7 DEF RepairOrphanedWorkers
  <2>8. CASE ReclaimExpiredLeases \/ Tick \/ UNCHANGED vars
    BY <2>8 DEF ReclaimExpiredLeases, Tick, vars
  <2> QED BY <2>1, <2>2, <2>3, <2>4, <2>5, <2>6, <2>7, <2>8
          DEF Next, QueueNext, OperatorNext, CrashNext
<1> QED BY <1>5, <1>6, <1>7, <1>8

\* Stale executions push the attempts of a job past max_attempts by fewer than
\* there are threads, and not at all with one thread.
THEOREM OvershootBounded == IsFiniteSet(Thread) /\ Spec => []BoundedOvershoot
<1> SUFFICES ASSUME IsFiniteSet(Thread) PROVE Spec => []BoundedOvershoot
  OBVIOUS
<1>1. Init => BoundedOvershoot
  <2>1. \A j \in Job : MaxAttempts[j] \in Nat \ {0}
    BY ParamAssumption
  <2> QED BY <2>1 DEF Init, BoundedOvershoot
<1>2. TypeOK /\ QueueInv /\ BoundedOvershoot /\ [Next]_vars => BoundedOvershoot'
  BY StepOvershoot
<1> QED BY TypeCorrect, InvHolds, <1>1, <1>2, PTL DEF Spec

-------------------------------------------------------------------------------
(* The promise to clients *)

\* An empty queue is an empty abstract queue.
LEMMA InitPromise == Init => Promise!Init
  BY DEF Init, Promise!Init, phaseBar, flightBar

\* The phase of a job that has each status.
LEMMA PhaseOf ==
  ASSUME TypeOK, NEW j \in Job
  PROVE  /\ phaseBar[j] = "new" <=> status[j] = "absent"
         /\ phaseBar[j] = "pending" <=> status[j] \in {"queued", "scheduled"}
         /\ phaseBar[j] = "running" <=> status[j] = "running"
         /\ phaseBar[j] = "completed" <=> status[j] = "completed"
         /\ phaseBar[j] = "canceled" <=> status[j] = "canceled"
         /\ phaseBar[j] = "gave_up" <=> status[j] \in {"failed", "dead_letter"}
         /\ phaseBar[j] = "removed" <=> status[j] = "deleted"
  BY DEF phaseBar, TypeOK, JobStatus, Terminal

\* A job whose status a step keeps keeps its phase.
LEMMA SamePhase ==
  ASSUME NEW j \in Job, status'[j] = status[j]
  PROVE  phaseBar'[j] = phaseBar[j]
  BY DEF phaseBar

\* A step that changes the phase of the jobs S to p, and no other phase.
LEMMA PhaseMoved ==
  ASSUME NEW S, NEW p,
         \A j \in Job : phaseBar'[j] = IF j \in S THEN p ELSE phaseBar[j]
  PROVE  phaseBar' = Promise!Moved(S, p)
  BY DEF Promise!Moved, phaseBar

\* A step that keeps every status, or swaps the two statuses of waiting jobs,
\* is invisible to clients.
LEMMA PhaseKept ==
  ASSUME TypeOK, TypeOK',
         \A j \in Job : \/ status'[j] = status[j]
                        \/ /\ status[j] \in {"queued", "scheduled"}
                           /\ status'[j] \in {"queued", "scheduled"}
  PROVE  phaseBar' = phaseBar
<1>1. \A j \in Job : phaseBar'[j] = phaseBar[j]
  BY DEF phaseBar
<1>2. QED
  BY <1>1 DEF phaseBar

\* So is one that leaves the executions alone.
LEMMA FlightKept == ASSUME exec' = exec PROVE flightBar' = flightBar
  BY DEF flightBar

\* Every call is one the abstract queue allows: a claim hands a job out, a
\* reclaim or a reset takes jobs back, an outcome finishes the execution it
\* belongs to, and the rest is invisible to clients.
LEMMA StepPromise ==
  TypeOK /\ QueueInv /\ [Next]_vars => [Promise!Next]_<<phaseBar, flightBar>>
<1> SUFFICES ASSUME TypeOK, QueueInv, [Next]_vars
             PROVE  [Promise!Next]_<<phaseBar, flightBar>>
  OBVIOUS
<1> DEFINE Step == [Promise!Next]_<<phaseBar, flightBar>>
<1>0. TypeOK'
  BY StepType
<1> USE <1>0 DEF jobVars, workerVars
<1>1. ASSUME NEW j \in Job, NEW d \in Delays, CreateJob(j, d) PROVE Step
  <2>1. \A k \in Job : phaseBar'[k] = IF k \in {j} THEN "pending" ELSE phaseBar[k]
    BY <1>1 DEF CreateJob, StatusFor, TypeOK, phaseBar
  <2>2. Promise!Submit(j)
    BY <1>1, <2>1, PhaseMoved, PhaseOf, FlightKept DEF CreateJob, Promise!Submit
  <2>3. QED
    BY <2>2 DEF Promise!Next
<1>2. ASSUME NEW S \in SUBSET Job, PromoteDueJobs(S) PROVE Step
  <2>1. phaseBar' = phaseBar
    BY <1>2, PhaseKept DEF PromoteDueJobs, WithStatus, Due
  <2>2. QED
    BY <1>2, <2>1, FlightKept DEF PromoteDueJobs
<1>3. ASSUME NEW j \in Job, CancelJob(j) PROVE Step
  <2>1. status[j] \in {"queued", "scheduled", "running"}
    BY <1>3 DEF CancelJob, JobCanceled, Exists, TypeOK, JobStatus
  <2>2. \A k \in Job : phaseBar'[k] = IF k \in {j} THEN "canceled" ELSE phaseBar[k]
    BY <1>3 DEF CancelJob, JobCanceled, TypeOK, phaseBar
  <2>3. Promise!Cancel(j)
    BY <1>3, <2>1, <2>2, PhaseMoved, PhaseOf, FlightKept DEF CancelJob,
       JobCanceled, Promise!Cancel
  <2>4. QED
    BY <2>3 DEF Promise!Next
<1>4. ASSUME NEW j \in Job, NEW d \in Delays, RescheduleJob(j, d) PROVE Step
  <2>1. CASE status[j] \in {"queued", "scheduled"}
    <3>1. phaseBar' = phaseBar
      BY <1>4, <2>1, PhaseKept DEF RescheduleJob, StatusFor, TypeOK
    <3>2. QED
      BY <1>4, <3>1, FlightKept DEF RescheduleJob
  <2>2. CASE status[j] \in {"failed", "dead_letter"}
    <3>1. \A k \in Job : phaseBar'[k] = IF k \in {j} THEN "pending" ELSE phaseBar[k]
      BY <1>4 DEF RescheduleJob, StatusFor, TypeOK, phaseBar
    <3>2. Promise!Retry(j)
      BY <1>4, <2>2, <3>1, PhaseMoved, PhaseOf, FlightKept
      DEF RescheduleJob, Promise!Retry
    <3>3. QED
      BY <3>2 DEF Promise!Next
  <2>3. QED
    BY <1>4, <2>1, <2>2 DEF RescheduleJob
<1>5. ASSUME NEW S \in SUBSET Job, RepairStaleJobs(S) PROVE Step
  <2>1. phaseBar' = phaseBar
    BY <1>5, PhaseKept DEF RepairStaleJobs, WithStatus, Due
  <2>2. QED
    BY <1>5, <2>1, FlightKept DEF RepairStaleJobs
<1>6. ASSUME NEW S \in SUBSET Job, PruneJobs(S) PROVE Step
  <2>1. \A k \in Job : phaseBar'[k] = IF k \in S THEN "removed" ELSE phaseBar[k]
    BY <1>6 DEF PruneJobs, WithStatus, phaseBar
  <2>2. \A k \in S : phaseBar[k] \in Promise!Finished
    BY <1>6, PhaseOf DEF PruneJobs, Terminal, Promise!Finished
  <2>3. Promise!Remove(S)
    BY <1>6, <2>1, <2>2, PhaseMoved, FlightKept DEF PruneJobs, Promise!Remove
  <2>4. QED
    BY <2>3 DEF Promise!Next
<1>7. ASSUME NEW w \in Worker,
             RegisterWorker(w) \/ HeartbeatWorker(w) PROVE Step
  BY <1>7, PhaseKept, FlightKept DEF RegisterWorker, HeartbeatWorker
<1>8. ASSUME ReclaimJobs, exec' = exec PROVE Step
  <2>1. CASE Expired = {}
    <3>1. phaseBar' = phaseBar
      BY <1>8, <2>1, PhaseKept DEF ReclaimJobs, Requeued, WithStatus, Due
    <3>2. QED
      BY <1>8, <3>1, FlightKept
  <2>2. CASE Expired # {}
    <3>1. \A k \in Job :
            phaseBar'[k] = IF k \in Expired THEN "pending" ELSE phaseBar[k]
      BY <1>8 DEF ReclaimJobs, Requeued, WithStatus, Expired, Due, phaseBar
    <3>2. Expired \in SUBSET Job /\ Expired \subseteq Promise!In("running")
      BY PhaseOf DEF Expired, Promise!In
    <3>3. Promise!TakeBack(Expired)
      BY <1>8, <2>2, <3>1, <3>2, PhaseMoved, FlightKept DEF Promise!TakeBack
    <3>4. QED
      BY <3>2, <3>3 DEF Promise!Next
  <2>3. QED
    BY <2>1, <2>2
<1>9. ASSUME NEW w \in Worker, NEW j \in Job, ClaimNextJob(w, j) PROVE Step
  <2>1. \A k \in Job \ {j} :
          phaseBar'[k] = IF k \in Expired THEN "pending" ELSE phaseBar[k]
    BY <1>9 DEF ClaimNextJob, WithStatus, Expired, Due, TypeOK, phaseBar
  <2>2. phaseBar'[j] = "running"
    BY <1>9, PhaseOf DEF ClaimNextJob, WithStatus, TypeOK, phaseBar
  <2>3. Expired \in SUBSET Job /\ Expired \subseteq Promise!In("running")
    BY PhaseOf DEF Expired, Promise!In
  <2>4. j \in Expired \cup Promise!In("pending")
    BY <1>9, PhaseOf DEF ClaimNextJob, Claimable, Due, Promise!In
  <2>5. phaseBar' = [Promise!Moved(Expired, "pending") EXCEPT ![j] = "running"]
    BY <2>1, <2>2 DEF Promise!Moved, phaseBar
  <2>6. Promise!HandOut(Expired, j)
    BY <1>9, <2>3, <2>4, <2>5, FlightKept DEF ClaimNextJob, Promise!HandOut
  <2>7. QED
    BY <2>3, <2>6 DEF Promise!Next
<1>10. ASSUME NEW t \in Thread, NEW w \in Worker, NEW j \in Job, StartRun(t, w,
             j)
       PROVE  Step
  <2>1. phaseBar' = phaseBar
    BY <1>10 DEF StartRun, phaseBar
  <2>2. flightBar[t] = None /\ flightBar' = [flightBar EXCEPT ![t] = j]
    <3>1. <<w, j>> # None /\ <<w, j>>[2] = j
      BY ParamAssumption
    <3>2. /\ exec[t] = None /\ exec' = [exec EXCEPT ![t] = <<w, j>>]
          /\ exec \in [Thread -> (Worker \X Job) \cup {None}]
      BY <1>10 DEF StartRun, TypeOK
    <3>3. exec'[t] = <<w, j>> /\ \A u \in Thread \ {t} : exec'[u] = exec[u]
      BY <3>2
    <3>4. flightBar'[t] = j /\ \A u \in Thread \ {t} : flightBar'[u] = flightBar[u]
      BY <3>1, <3>3 DEF flightBar
    <3>5. QED
      BY <3>2, <3>4 DEF flightBar
  <2>3. Promise!Start(t, j)
    BY <1>10, <2>1, <2>2, PhaseOf DEF StartRun, Owns, Promise!Start
  <2>4. QED
    BY <2>3 DEF Promise!Next
<1>11. ASSUME NEW w \in Worker, NEW j \in Job, RunCanceled(w, j) \/ RunRejected(w,
             j)
       PROVE  Step
  <2>1. phaseBar' = phaseBar
    BY <1>11, PhaseKept DEF RunCanceled, RunRejected, WithStatus, Due
  <2>2. QED
    BY <1>11, <2>1, FlightKept DEF RunCanceled, RunRejected
<1>12. ASSUME NEW t \in Thread, exec[t] # None,
             exec' = [exec EXCEPT ![t] = None]
       PROVE  /\ flightBar[t] = exec[t][2] /\ exec[t][2] \in Job
              /\ flightBar[t] # None
              /\ flightBar' = [flightBar EXCEPT ![t] = None]
  BY <1>12, ParamAssumption DEF TypeOK, flightBar
<1>13. ASSUME NEW t \in Thread, CompleteRun(t) \/ FailRun(t) PROVE Step
  <2> DEFINE j == exec[t][2]
  <2>1. /\ j = flightBar[t] /\ j \in Job /\ flightBar[t] # None
        /\ flightBar' = [flightBar EXCEPT ![t] = None]
    BY <1>12, <1>13 DEF CompleteRun, FailRun
  <2>2. PICK p \in {"completed", "gave_up", "pending"} :
          \A k \in Job : phaseBar'[k] = IF k \in {j} THEN p ELSE phaseBar[k]
    BY <1>13, <2>1 DEF CompleteRun, FailRun, StatusFor, TypeOK, phaseBar
  <2>3. phaseBar[j] # "removed"
    BY <1>13, <2>1, PhaseOf DEF CompleteRun, FailRun, Exists
  <2>4. Promise!Finish(t)
    BY <2>1, <2>2, <2>3, PhaseMoved DEF Promise!Finish
  <2>5. QED
    BY <2>4 DEF Promise!Next
<1>14. ASSUME NEW t \in Thread, FinishDeleted(t) \/ CrashRun(t) PROVE Step
  <2>1. phaseBar' = phaseBar
    BY <1>14 DEF FinishDeleted, CrashRun, phaseBar
  <2>2. Promise!Lose(t)
    BY <1>12, <1>14, <2>1 DEF FinishDeleted, CrashRun, Promise!Lose
  <2>3. QED
    BY <2>2 DEF Promise!Next
<1>15. ASSUME NEW w \in Worker, NEW force, NEW requeue, ResetWorker(w, force,
             requeue)
       PROVE  Step
  <2> DEFINE mine == {j \in Job : current_job[w] = j /\ Owns(w, j)}
             back == IF requeue THEN mine ELSE {}
  <2>1. exec' = exec
    BY <1>15 DEF ResetWorker, Requeued
  <2>2. back \in SUBSET Job /\ back \subseteq Promise!In("running")
    BY PhaseOf DEF Owns, Promise!In
  <2>3. \A k \in Job : phaseBar'[k] = IF k \in back THEN "pending" ELSE phaseBar[k]
    BY <1>15 DEF ResetWorker, Requeued, WithStatus, Due, phaseBar
  <2>4. CASE back = {}
    BY <2>1, <2>3, <2>4, FlightKept DEF phaseBar
  <2>5. CASE back # {}
    <3>1. Promise!TakeBack(back)
      BY <2>1, <2>2, <2>3, <2>5, PhaseMoved, FlightKept DEF Promise!TakeBack
    <3>2. QED
      BY <2>2, <3>1 DEF Promise!Next
  <2>6. QED
    BY <2>4, <2>5
<1>16. ASSUME NEW S \in SUBSET Worker, RepairOrphanedWorkers(S) PROVE Step
  <2>1. phaseBar' = phaseBar
    BY <1>16, PhaseKept DEF RepairOrphanedWorkers, WithStatus, Due
  <2>2. QED
    BY <1>16, <2>1, FlightKept DEF RepairOrphanedWorkers
<1>17. CASE Tick \/ UNCHANGED vars
  BY <1>17, PhaseKept, FlightKept DEF Tick, vars
<1>18. QED
  BY <1>1, <1>2, <1>3, <1>4, <1>5, <1>6, <1>7, <1>8, <1>9, <1>10, <1>11, <1>13,
     <1>14, <1>15, <1>16, <1>17
  DEF Next, QueueNext, OperatorNext, CrashNext, ReclaimExpiredLeases, ClaimNothing

\* The queue keeps the promise made to clients: a job accepted is kept, is
\* executed before it is completed, and what is finished stays finished but
\* for executions already under way, a retry, or its removal.
THEOREM KeepsPromise == Spec => ImplementsPromise
<1>1. TypeOK /\ QueueInv /\ [Next]_vars => [Promise!Next]_<<phaseBar, flightBar>>
  BY StepPromise
<1>2. QED
  BY InitPromise, TypeCorrect, InvHolds, <1>1, PTL
  DEF Spec, ImplementsPromise, Promise!Spec, Promise!wvars

===============================================================================
