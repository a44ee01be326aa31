------------------------------- MODULE JobQueue -------------------------------
(***************************************************************************)
(* The background-job queue: the job records of runtime/queue.py, the      *)
(* worker records of runtime/worker.py, and the threads (request handlers  *)
(* and worker loops) that execute claimed jobs.                            *)
(*                                                                         *)
(* Each call is one step, except the execution of a job: run_claimed_job   *)
(* validates the claim, dispatches the workflow for an unbounded time, and *)
(* writes its outcome unconditionally, so it is split into a start and a   *)
(* finish and everything else may happen in between.                       *)
(*                                                                         *)
(* Timestamps are kept as the time left until they pass: the code only     *)
(* ever compares them with the present.  0 means the instant has passed.   *)
(***************************************************************************)
EXTENDS Integers, FiniteSets

CONSTANTS
  Job,            \* job identifiers (uuid4: one is never used twice)
  Worker,         \* worker identifiers
  Thread,         \* threads that can be inside run_claimed_job
  None,           \* Python's None
  MaxAttempts,    \* max_attempts of each job
  Backoff,        \* retry_backoff_seconds of each job
  Priority,       \* priority of each job
  LeaseSeconds,   \* lease_seconds each worker registers with
  Delays,         \* the delay_seconds that requests pass
  SoleDriver,     \* is a worker id only used by the loop that registered it?
  ForceReset      \* do operators use reset_worker(force=True)?

RetryDelay(j, attempted) ==
  IF Backoff[j] = 0 THEN 0 ELSE Backoff[j] * 2^(attempted - 1)

ASSUME ParamAssumption ==
  /\ MaxAttempts \in [Job -> Nat \ {0}]
  /\ Backoff \in [Job -> Nat]
  /\ Priority \in [Job -> Int]
  /\ LeaseSeconds \in [Worker -> Nat \ {0}]
  /\ Delays \subseteq Nat
  /\ SoleDriver \in BOOLEAN
  /\ ForceReset \in BOOLEAN
  /\ None \notin Job \cup Worker
  /\ None \notin Nat
  /\ None \notin Worker \X Job

\* Powers of two are natural numbers (an induction the prover cannot do).
ASSUME DelayAssumption ==
  \A j \in Job : \A n \in 1..MaxAttempts[j] : RetryDelay(j, n) \in Nat

VARIABLES
  status,         \* [Job -> status]; "absent": not created, "deleted": file unlinked
  worker_id,      \* [Job -> the worker that claimed it last, or None]
  lease,          \* [Job -> time left of lease_expires_at, or None]
  ready,          \* [Job -> time left until ready_at]
  attempts,       \* [Job -> attempt_count]
  wstatus,        \* [Worker -> "absent", "idle" or "busy"]
  current_job,    \* [Worker -> current_job_id]
  wlease,         \* [Worker -> time left of the worker's lease_expires_at]
  exec            \* [Thread -> the <<worker, job>> it is dispatching, or None]

jobVars == <<status, worker_id, lease, ready, attempts>>
workerVars == <<wstatus, current_job, wlease>>
vars == <<status, worker_id, lease, ready, attempts,
          wstatus, current_job, wlease, exec>>

Terminal == {"completed", "failed", "dead_letter", "canceled"}
JobStatus == Terminal \cup {"queued", "scheduled", "running"}

TypeOK ==
  /\ status \in [Job -> JobStatus \cup {"absent", "deleted"}]
  /\ worker_id \in [Job -> Worker \cup {None}]
  /\ lease \in [Job -> Nat \cup {None}]
  /\ ready \in [Job -> Nat]
  /\ attempts \in [Job -> Nat]
  /\ wstatus \in [Worker -> {"absent", "idle", "busy"}]
  /\ current_job \in [Worker -> Job \cup {None}]
  /\ wlease \in [Worker -> Nat]
  /\ exec \in [Thread -> (Worker \X Job) \cup {None}]

Init ==
  /\ status = [j \in Job |-> "absent"]
  /\ worker_id = [j \in Job |-> None]
  /\ lease = [j \in Job |-> None]
  /\ ready = [j \in Job |-> 0]
  /\ attempts = [j \in Job |-> 0]
  /\ wstatus = [w \in Worker |-> "absent"]
  /\ current_job = [w \in Worker |-> None]
  /\ wlease = [w \in Worker |-> 0]
  /\ exec = [t \in Thread |-> None]

-------------------------------------------------------------------------------
(* Derived state *)

Exists(j) == status[j] \notin {"absent", "deleted"}
Registered(w) == wstatus[w] # "absent"

\* Mutant of StatusFor: a delayed job is queued at once.
StatusIgnoringDelay(d) == "queued"

\* job_status_for_ready_at: a job whose ready_at is d seconds away
StatusFor(d) == IF d = 0 THEN "queued" ELSE "scheduled"

\* Mutant of Due: canceled jobs are promoted too.
DueOrCanceled == {j \in Job : status[j] \in {"scheduled", "canceled"} /\ ready[j] = 0}

\* scheduled jobs that reading or promoting makes queued
Due == {j \in Job : status[j] = "scheduled" /\ ready[j] = 0}
\* Mutants of Expired: any running job; and no job, its lease being cleared.
AnyRunning == {j \in Job : status[j] = "running"}
NeverExpired == {j \in Job : status[j] = "running" /\ lease[j] = None}

\* job_lease_expired of the running jobs
Expired == {j \in Job : status[j] = "running" /\ lease[j] = 0}

\* j is running under a claim of w
Owns(w, j) == status[j] = "running" /\ worker_id[j] = w

\* workers that still point at the expired job they own
ExpiredHolders == {w \in Worker : \E j \in Expired : Owns(w, j) /\ current_job[w] = j}

Dispatching(w) == \E t \in Thread : exec[t] # None /\ exec[t][1] = w

\* A loop calls for its worker only between dispatches, and runs the job its
\* last claim returned; an API client may call for any worker at any time.
MayClaim(w) == SoleDriver => ~ Dispatching(w)
MayRun(w, j) == SoleDriver => ~ Dispatching(w) /\ current_job[w] \in {None, j}

\* Functions with the values at S replaced
WithStatus(S, s) == [j \in Job |-> IF j \in S THEN s ELSE status[j]]
Cleared(f, S) == [x \in DOMAIN f |-> IF x \in S THEN None ELSE f[x]]

\* Mutant of Requeued: lease_expires_at is left.
RequeuedKeepingLease(S, promoted) ==
  /\ status' = WithStatus(S \cup promoted, "queued")
  /\ worker_id' = Cleared(worker_id, S)
  /\ UNCHANGED lease

\* requeue_job for the jobs S, and the promotion of others that came with it
Requeued(S, promoted) ==
  /\ status' = WithStatus(S \cup promoted, "queued")
  /\ worker_id' = Cleared(worker_id, S)
  /\ lease' = Cleared(lease, S)

\* Mutants of Released: current_job_id is not cleared; and the status is
\* computed from the lease, as worker_summary does, before it is.
ReleasedKeepingJob(S) ==
  /\ wstatus' = [w \in Worker |-> IF w \in S THEN "idle" ELSE wstatus[w]]
  /\ UNCHANGED current_job
ReleasedExpired(S) ==
  /\ wstatus' = [w \in Worker |->
                   IF w \notin S THEN wstatus[w]
                   ELSE IF wlease[w] = 0 THEN "expired" ELSE "idle"]
  /\ current_job' = Cleared(current_job, S)

\* release_worker, and the part of it reset_worker and the reclaim share
Released(S) ==
  /\ wstatus' = [w \in Worker |-> IF w \in S THEN "idle" ELSE wstatus[w]]
  /\ current_job' = Cleared(current_job, S)

\* heartbeat_worker's write
Renewed(w) == wlease' = [wlease EXCEPT ![w] = LeaseSeconds[w]]

-------------------------------------------------------------------------------
(* Queue calls *)

\* POST /jobs that finds no record under its idempotency key.
CreateJob(j, d) ==
  /\ status[j] = "absent"
  /\ status' = [status EXCEPT ![j] = StatusFor(d)]
  /\ ready' = [ready EXCEPT ![j] = d]
  /\ UNCHANGED <<worker_id, lease, attempts, workerVars, exec>>

\* promote_due_jobs (with a limit it stops early), and the promotion that
\* load_job and list_jobs do as a side effect of reading.
PromoteDueJobs(S) ==
  /\ S \subseteq Due /\ S # {}
  /\ status' = WithStatus(S, "queued")
  /\ UNCHANGED <<worker_id, lease, ready, attempts, workerVars, exec>>

\* cancel_job: a job that was running keeps the name of its worker.
JobCanceled(j) ==
  /\ status' = [status EXCEPT ![j] = "canceled"]
  /\ worker_id' = IF status[j] = "running" THEN worker_id
                  ELSE Cleared(worker_id, {j})
  /\ lease' = Cleared(lease, {j})

\* cancel_job_execution: cancel_job, then the worker that claimed the job is
\* released when it still points at it.
CancelJob(j) ==
  /\ Exists(j) /\ status[j] \notin Terminal
  /\ JobCanceled(j)
  /\ Released({w \in Worker : worker_id[j] = w /\ current_job[w] = j})
  /\ UNCHANGED <<ready, attempts, wlease, exec>>

RescheduleJob(j, d) ==
  /\ status[j] \in {"queued", "scheduled", "failed", "dead_letter"}
  /\ status' = [status EXCEPT ![j] = StatusFor(d)]
  /\ ready' = [ready EXCEPT ![j] = d]
  /\ attempts' = [attempts EXCEPT ![j] = 0]
  /\ worker_id' = Cleared(worker_id, {j})
  /\ lease' = Cleared(lease, {j})
  /\ UNCHANGED <<workerVars, exec>>

\* repair_stale_job_state: promotes due jobs and clears what is left of a
\* claim on jobs that are not running; S is what its limit lets it reach.
RepairStaleJobs(S) ==
  /\ S # {}
  /\ S \subseteq Due \cup {j \in Job : /\ Exists(j) /\ status[j] # "running"
                                       /\ worker_id[j] # None \/ lease[j] # None}
  /\ status' = WithStatus(S \cap Due, "queued")
  /\ worker_id' = Cleared(worker_id, S)
  /\ lease' = Cleared(lease, S)
  /\ UNCHANGED <<ready, attempts, workerVars, exec>>

\* prune_jobs unlinks terminal jobs; which ones depends on the statuses, the
\* age and the limit asked for.
PruneJobs(S) ==
  /\ S # {} /\ S \subseteq {j \in Job : status[j] \in Terminal}
  /\ status' = WithStatus(S, "deleted")
  /\ worker_id' = Cleared(worker_id, S)
  /\ lease' = Cleared(lease, S)
  /\ ready' = [j \in Job |-> IF j \in S THEN 0 ELSE ready[j]]
  /\ attempts' = [j \in Job |-> IF j \in S THEN 0 ELSE attempts[j]]
  /\ UNCHANGED <<workerVars, exec>>

-------------------------------------------------------------------------------
(* Worker calls *)

RegisterWorker(w) ==
  /\ ~ Registered(w)
  /\ wstatus' = [wstatus EXCEPT ![w] = "idle"]
  /\ Renewed(w)
  /\ UNCHANGED <<jobVars, current_job, exec>>

\* The worker's lease is renewed, its job's lease is not.
HeartbeatWorker(w) ==
  /\ Registered(w)
  /\ ~ (wlease[w] = 0 /\ current_job[w] # None)
  /\ Renewed(w)
  /\ UNCHANGED <<jobVars, wstatus, current_job, exec>>

\* requeue_job for every expired running job; list_jobs promotes first.
ReclaimJobs ==
  /\ Requeued(Expired, Due)
  /\ Released(ExpiredHolders)

ReclaimExpiredLeases ==
  /\ Expired \cup Due # {}
  /\ ReclaimJobs
  /\ UNCHANGED <<ready, attempts, wlease, exec>>

\* Mutant of Claimable: failed jobs can be claimed too.
ClaimableOrFailed == Expired \cup Due \cup {j \in Job : status[j] \in {"queued", "failed"}}

\* What claim_next_job finds after its reclaim.
Claimable == Expired \cup Due \cup {j \in Job : status[j] = "queued"}
StillHolds(w) == current_job[w] # None /\ w \notin ExpiredHolders

\* claim_next_job takes a claimable job of the highest priority.
ClaimNextJob(w, j) ==
  /\ Registered(w) /\ MayClaim(w) /\ ~ StillHolds(w)
  /\ j \in Claimable
  /\ \A k \in Claimable : Priority[k] <= Priority[j]
  /\ status' = [WithStatus(Expired \cup Due, "queued") EXCEPT ![j] = "running"]
  /\ worker_id' = [Cleared(worker_id, Expired) EXCEPT ![j] = w]
  /\ lease' = [Cleared(lease, Expired) EXCEPT ![j] = LeaseSeconds[w]]
  /\ wstatus' = [v \in Worker |-> IF v = w THEN "busy"
                                  ELSE IF v \in ExpiredHolders THEN "idle"
                                  ELSE wstatus[v]]
  /\ current_job' = [Cleared(current_job, ExpiredHolders) EXCEPT ![w] = j]
  /\ Renewed(w)
  /\ UNCHANGED <<ready, attempts, exec>>

\* claim_next_job with nothing to claim, or for a worker that still has a job
\* (it raises, after its reclaim and its heartbeat).
ClaimNothing(w) ==
  /\ Registered(w) /\ MayClaim(w)
  /\ IF StillHolds(w) THEN wlease[w] > 0 ELSE Claimable = {}
  /\ ReclaimJobs
  /\ Renewed(w)
  /\ UNCHANGED <<ready, attempts, exec>>

\* run_claimed_job up to dispatch_job, with every check passed.
StartRun(t, w, j) ==
  /\ exec[t] = None
  /\ Registered(w) /\ MayRun(w, j) /\ wlease[w] > 0
  /\ current_job[w] = j /\ Owns(w, j) /\ lease[j] # 0
  /\ exec' = [exec EXCEPT ![t] = <<w, j>>]
  /\ Renewed(w)
  /\ UNCHANGED <<jobVars, wstatus, current_job>>

\* run_claimed_job of a canceled job: the worker is released, whichever job
\* it is busy with.
RunCanceled(w, j) ==
  /\ Registered(w) /\ MayRun(w, j) /\ wlease[w] > 0
  /\ status[j] = "canceled"
  /\ current_job[w] = j \/ wstatus[w] # "idle"
  /\ Released({w})
  /\ Renewed(w)
  /\ UNCHANGED <<jobVars, exec>>

\* run_claimed_job that fails a check: the heartbeat and the promotion that
\* load_job does stay (without a promotion it is a HeartbeatWorker step).
RunRejected(w, j) ==
  /\ Registered(w) /\ MayRun(w, j) /\ wlease[w] > 0
  /\ j \in Due
  /\ status' = WithStatus({j}, "queued")
  /\ Renewed(w)
  /\ UNCHANGED <<worker_id, lease, ready, attempts, wstatus, current_job, exec>>

\* dispatch_job returned: complete_job checks neither status nor owner.  The
\* finally clause then releases the worker, whatever it holds by now.
CompleteRun(t) ==
  /\ exec[t] # None
  /\ LET w == exec[t][1]
         j == exec[t][2]
     IN /\ Exists(j)
        /\ status' = [status EXCEPT ![j] = "completed"]
        /\ lease' = Cleared(lease, {j})
        /\ Released({w})
  /\ exec' = [exec EXCEPT ![t] = None]
  /\ UNCHANGED <<worker_id, ready, attempts, wlease>>

\* Mutants of BudgetSpent: one attempt too many; and an equality that a late
\* failure jumps over.
BudgetOverspent(j, attempted) == attempted > MaxAttempts[j]
BudgetJustSpent(j, attempted) == attempted = MaxAttempts[j]

BudgetSpent(j, attempted) == attempted >= MaxAttempts[j]

\* dispatch_job raised: record_job_failure checks neither status nor owner.
FailRun(t) ==
  /\ exec[t] # None
  /\ LET w == exec[t][1]
         j == exec[t][2]
         attempted == attempts[j] + 1
     IN /\ Exists(j)
        /\ attempts' = [attempts EXCEPT ![j] = attempted]
        /\ \/ /\ BudgetSpent(j, attempted)
              /\ status' = [status EXCEPT ![j] = IF MaxAttempts[j] > 1
                                                 THEN "dead_letter" ELSE "failed"]
              /\ UNCHANGED ready
           \/ /\ ~ BudgetSpent(j, attempted)
              /\ status' = [status EXCEPT ![j] = StatusFor(RetryDelay(j, attempted))]
              /\ ready' = [ready EXCEPT ![j] = RetryDelay(j, attempted)]
        /\ worker_id' = Cleared(worker_id, {j})
        /\ lease' = Cleared(lease, {j})
        /\ Released({w})
  /\ exec' = [exec EXCEPT ![t] = None]
  /\ UNCHANGED wlease

\* The job was pruned during the dispatch: both outcomes raise
\* FileNotFoundError and only the worker is released.
FinishDeleted(t) ==
  /\ exec[t] # None
  /\ ~ Exists(exec[t][2])
  /\ Released({exec[t][1]})
  /\ exec' = [exec EXCEPT ![t] = None]
  /\ UNCHANGED <<jobVars, wlease>>

\* The process dies during the dispatch and writes nothing.
CrashRun(t) ==
  /\ exec[t] # None
  /\ exec' = [exec EXCEPT ![t] = None]
  /\ UNCHANGED <<jobVars, workerVars>>

-------------------------------------------------------------------------------
(* Operator repair *)

\* reset_worker; a worker whose job file is gone needs no force.
ResetWorker(w, force, requeue) ==
  /\ Registered(w)
  /\ LET mine == {j \in Job : current_job[w] = j /\ Owns(w, j)}
         other == {j \in Job : current_job[w] = j /\ Exists(j) /\ ~ Owns(w, j)}
         back == IF requeue THEN mine ELSE {}
     IN /\ mine # {} => requeue \/ force
        /\ other # {} => force \/ wstatus[w] = "idle"
        /\ Requeued(back, other \cap Due)
  /\ Released({w})
  /\ Renewed(w)
  /\ UNCHANGED <<ready, attempts, exec>>

\* Mutants of Orphaned: every worker with a job; and none with a job.
AnyHolder(w) == Registered(w) /\ (current_job[w] # None \/ wstatus[w] # "idle")
\* A busy worker without a job, or a worker whose job is gone, does not run or
\* runs for another worker.
Orphaned(w) ==
  /\ Registered(w)
  /\ IF current_job[w] = None THEN wstatus[w] # "idle"
     ELSE ~ Owns(w, current_job[w])

\* repair_orphaned_workers: reset_worker(force=True) for each orphan its limit
\* lets it reach.
RepairOrphanedWorkers(S) ==
  /\ S # {} /\ S \subseteq {w \in Worker : Orphaned(w)}
  /\ status' = WithStatus({j \in Due : \E w \in S : current_job[w] = j}, "queued")
  /\ Released(S)
  /\ wlease' = [w \in Worker |-> IF w \in S THEN LeaseSeconds[w] ELSE wlease[w]]
  /\ UNCHANGED <<worker_id, lease, ready, attempts, exec>>

-------------------------------------------------------------------------------
(* Time *)

Left(n) == IF n = 0 THEN 0 ELSE n - 1

Tick ==
  /\ lease' = [j \in Job |-> IF lease[j] = None THEN None ELSE Left(lease[j])]
  /\ ready' = [j \in Job |-> Left(ready[j])]
  /\ wlease' = [w \in Worker |-> Left(wlease[w])]
  /\ UNCHANGED <<status, worker_id, attempts, wstatus, current_job, exec>>

-------------------------------------------------------------------------------

\* Clients that submit work and workers that execute it.
QueueNext ==
  \/ \E j \in Job, d \in Delays : CreateJob(j, d)
  \/ \E S \in SUBSET Job : PromoteDueJobs(S)
  \/ \E w \in Worker : RegisterWorker(w) \/ HeartbeatWorker(w) \/ ClaimNothing(w)
  \/ \E w \in Worker, j \in Job :
       ClaimNextJob(w, j) \/ RunCanceled(w, j) \/ RunRejected(w, j)
  \/ \E t \in Thread, w \in Worker, j \in Job : StartRun(t, w, j)
  \/ \E t \in Thread : CompleteRun(t) \/ FailRun(t) \/ FinishDeleted(t)
  \/ ReclaimExpiredLeases
  \/ Tick

\* What operators and failures add.
OperatorNext ==
  \/ \E j \in Job : CancelJob(j)
  \/ \E j \in Job, d \in Delays : RescheduleJob(j, d)
  \/ \E S \in SUBSET Job : RepairStaleJobs(S) \/ PruneJobs(S)
  \/ \E w \in Worker, force, requeue \in BOOLEAN :
       (force => ForceReset) /\ ResetWorker(w, force, requeue)
  \/ \E S \in SUBSET Worker : RepairOrphanedWorkers(S)

CrashNext == \E t \in Thread : CrashRun(t)

Next == QueueNext \/ OperatorNext \/ CrashNext

Spec == Init /\ [][Next]_vars

-------------------------------------------------------------------------------
(* Safety *)

\* Whatever calls raced with a dispatch, a record is never half claimed: it
\* has a lease exactly while it is running (so every running job can be
\* reclaimed), a running job names its worker, and a job that waits or has
\* failed names none.
ClaimMatchesStatus ==
  \A j \in Job :
    /\ lease[j] # None <=> status[j] = "running"
    /\ status[j] = "running" => worker_id[j] # None
    /\ status[j] \in {"absent", "queued", "scheduled", "failed", "dead_letter"}
         => worker_id[j] = None

\* A worker is busy exactly while it points at a job, so claim_next_job's test
\* of current_job_id and repair's test of the status agree.
BusyMeansAssigned ==
  \A w \in Worker : wstatus[w] = "busy" <=> current_job[w] # None

\* No job is queued or runs before its ready_at: neither a delay asked for
\* nor a retry's backoff is ever cut short, by any requeue or late failure.
NeverEarly ==
  \A j \in Job : status[j] \in {"queued", "running"} => ready[j] = 0

\* A job whose attempts are used up cannot run again without an operator's
\* reschedule, and a job is given up only when they are; "failed" is kept
\* for jobs that were never to be retried.
RetryBudget ==
  \A j \in Job :
    /\ status[j] \in {"absent", "queued", "scheduled", "running", "canceled"}
         => attempts[j] < MaxAttempts[j]
    /\ status[j] \in {"failed", "dead_letter"} => attempts[j] >= MaxAttempts[j]
    /\ status[j] = "failed" => MaxAttempts[j] = 1
    /\ status[j] = "dead_letter" => MaxAttempts[j] > 1

\* Executions of j in flight, stale ones included.
InFlight(j) == {t \in Thread : exec[t] # None /\ exec[t][2] = j}

\* Late failures of stale executions count past max_attempts, but never by
\* more than the executions that were in flight together.
BoundedOvershoot ==
  \A j \in Job :
    attempts[j] >= MaxAttempts[j]
      => attempts[j] + Cardinality(InFlight(j)) < MaxAttempts[j] + Cardinality(Thread)

\* Under SoleDriver and without ForceReset: the worker a running job names is
\* the worker that holds it, so a worker never owns two running jobs and a
\* reclaim always frees the worker it takes a job from.
OwnerHolds ==
  \A w \in Worker, j \in Job : Owns(w, j) => current_job[w] = j

\* Under SoleDriver: a worker executes one job at a time, and while it does
\* it is assigned to that job or to none.
OneExecution ==
  \A t \in Thread : exec[t] # None =>
    /\ current_job[exec[t][1]] \in {None, exec[t][2]}
    /\ \A u \in Thread \ {t} : exec[u] # None => exec[u][1] # exec[t][1]

-------------------------------------------------------------------------------
(* What no step may do *)

Settling(j) == \E t \in InFlight(j) : exec'[t] = None

KeepsDeleted ==
  \A j \in Job : status[j] = "deleted" => status'[j] = "deleted"

\* A pruned job never comes back: an execution that outlives its record
\* cannot write it again, as it can a session's.
DeletedStaysDeleted == [][KeepsDeleted]_vars

Taken(j) ==
  /\ status[j] = "running" /\ lease[j] # 0 /\ status'[j] # "canceled"
  /\ status'[j] # "running" \/ worker_id'[j] # worker_id[j]

GivesUp(w, j) == Owns(w, j) /\ current_job[w] = j /\ current_job'[w] = None

RespectsLeases ==
  \A j \in Job : Taken(j) => Settling(j) \/ \E w \in Worker : GivesUp(w, j)

\* A job is taken from a worker whose lease on it still runs only if that
\* worker gives it up in the same step (a reset) or an execution of the job
\* ends: no claim and no reclaim can take it.
LeaseRespected == [][RespectsLeases]_vars

AssignsByClaim ==
  \A w \in Worker :
    current_job'[w] # current_job[w] /\ current_job'[w] # None
      => /\ status'[current_job'[w]] = "running"
         /\ worker_id'[current_job'[w]] = w
         /\ lease'[current_job'[w]] = wlease'[w]

\* A worker is given a job only by a claim, and then the record names it and
\* expires with it.
AssignedByClaim == [][AssignsByClaim]_vars

KeepsFinished ==
  \A j \in Job :
    status[j] \in Terminal /\ status'[j] # status[j]
      => \/ Settling(j)
         \/ status'[j] = "deleted"
         \/ /\ status[j] \in {"failed", "dead_letter"}
            /\ status'[j] \in {"queued", "scheduled"}
            /\ attempts'[j] = 0

\* A finished job changes only by a late execution of it, an operator's
\* reschedule of a failure, or a prune.
FinishedStays == [][KeepsFinished]_vars

-------------------------------------------------------------------------------
(* The promise to clients that this implements *)

phaseBar ==
  [j \in Job |->
     CASE status[j] = "absent" -> "new"
       [] status[j] \in {"queued", "scheduled"} -> "pending"
       [] status[j] \in {"failed", "dead_letter"} -> "gave_up"
       [] status[j] = "deleted" -> "removed"
       [] OTHER -> status[j]]

flightBar == [t \in Thread |-> IF exec[t] = None THEN None ELSE exec[t][2]]

Promise == INSTANCE WorkQueue WITH phase <- phaseBar, flight <- flightBar

\* Every run of the queue is one the abstract queue allows.
ImplementsPromise == Promise!Spec

===============================================================================
