# A TLA+ verification of ClarityClaw

ClarityClaw (`cpgrant/clarityos`) is a runtime for LLM agents: a FastAPI
service and worker processes that share a directory of JSON records, one file
per job, worker, workflow, approval, session, memory or artifact.  There is no
database and no lock.  Every request handler, every worker loop and every
operator command reads whole records, decides, and writes whole records back.

This directory holds TLA+ models of that code, the TLC configurations that
check them, and proofs that TLAPS checks.  `PROJECT.json` is the index: runs,
mutants, the source lines behind every definition, hazards, findings, theorems.

    tlc -config queue_safety.cfg MCJobQueue.tla      model-check a run
    tlapm JobQueueProofs.tla                          check the proofs of a module

## 1. Inventory

| part | source | state it keeps | operations | talks to |
|---|---|---|---|---|
| job queue | `runtime/queue.py` | `jobs/*.json`: status, claim (worker, lease), ready_at, attempts | create, promote, cancel, reschedule, requeue, record failure, repair stale, prune | workers, API |
| workers | `runtime/worker.py` | `workers/*.json`: status, current job, lease | register, heartbeat, claim, run, complete, release, reclaim, reset, repair orphans | job queue, workflow runner |
| worker loop | `runtime/worker_loop.py` | one process: its worker id, the job in hand | register, repair, then claim and run for ever | workers |
| workflows | `runtime/workflow.py` | `workflows/*.json`: steps, status, retries, children | steps, approval wait, retry wait, succeed, fail | agent run |
| approvals | `runtime/approval.py` | `approvals/*.json` | request, approve, deny, abort, resume | agent run, API |
| agent run | `runtime/agent.py` | a run in memory, persisted as a workflow | policy check, approval, model call, tool calls, retry, budget | nearly all |
| workflow runner | `runtime/workflow_runner.py` | the parent's list of children | start, resume, start child | agent run, job queue |
| sessions | `runtime/session.py` | `sessions/*.json` | append, archive, recover, prune, compact | workflow runner |
| e-mail drafts | `runtime/email_intake.py` | triage and handoff artifacts | triage, review approval, handoff | approvals, artifacts, workflows |
| policy | `runtime/policy.py` | none (files of rules) | load, add an agent's own rules, decide | agent run |
| run budget | `runtime/budget.py` | counters of a run | consume | agent run |
| control plane | `runtime/control_plane.py` | none of its own | views, `recover_workflow` | all |
| persisted state | `runtime/state.py`, `storage.py` | the files | read, write in place, migrate | all |
| memory, artifacts | `runtime/memory.py`, `artifact.py` | records read and written singly | create, find, delete | agent run, e-mail drafts |
| tools, model, prompts, grounding, trace | `runtime/*.py` | none | calls to the outside | agent run |
| HTTP API, UI | `api/main.py`, `ui/` | none | one handler per operation | all |

What is hard about it:

- **Concurrency.** Handlers run in FastAPI's thread pool and each worker loop
  is a process.  Between reading a record and writing it, anything can happen;
  a run, a spawn and an append to a session hold their copy for as long as a
  whole agent run lasts, and then write all of it back.
- **Leases.** A claim gives a worker a job for `lease_seconds`.  A heartbeat
  renews the worker's lease and *not* the job's, so a long dispatch always loses
  its job to a reclaim, and two executions of a job overlap.
- **Unconditional outcomes.** `complete_job`, `record_job_failure` and
  `release_worker` look at neither status nor owner, so the end of a stale
  execution lands on whatever the records say by then.
- **Failure.** A process can die anywhere, also between the two writes of one
  call and in the middle of one write.  Nothing but the lease tells.
- **Reads that write.** `load_job` and `list_jobs` promote due jobs.

What makes each part correct:

- *queue and workers*: a record is claimed exactly while it runs; delays,
  backoffs and the retry budget are honoured; a lease protects its holder; a
  finished job stays finished; a worker does one job at a time; every job is
  settled in the end; repairs converge.
- *workflows and agent runs*: no gated call without an approval for exactly
  that workflow; success only with a result; one call for each attempt; a
  finished workflow is not re-entered; every run ends.
- *approvals*: one that was resumed was resumed by a run of its workflow.
- *sub-workflows*: lineage and limits over any number of generations; no child is
  missing from its parent's list, and a failure stays with the child.
- *sessions*: what is carried forward fits the messages; the history tells of
  everything; no completed append is lost; the advice to compact can be followed.
- *e-mail drafts*: one live approval and one handoff for each draft, listed by
  its workflow, however often a request is repeated.
- *policy*: an agent's own rules undo none that denies or asks for an approval.
- *persisted state*: a record can always be read.

The `hazards` of `PROJECT.json` list where in the code each of these can go
wrong, and which property would show it.

## 2. Modules

    WorkQueue                      what the queue promises its clients (abstract)
       ^  refined by
    JobQueue       <- MCJobQueue   queue.py + worker.py, one action per call
       ^  refined by
    WorkerLoop     <- MCWorkerLoop worker_loop.py over JobQueue: order of calls, crashes

    QueueFiles     <- MCQueueFiles the queue again, one action per file access

    Workflow                       workflow.py: functions on a workflow record
       ^  used by
    AgentRun       <- MCAgentRun   agent.py, approval.py and the ways a run starts
                          |
    Policy  <-------------+        policy.py: which decision an action gets

    Subrun         <- MCSubrun     start_child_workflow and its callers
    Session        <- MCSession    session.py
    EmailDraft     <- MCEmailDraft email_intake.py, artifact.py

    JobQueueProofs, WorkerLoopProofs, QueueFilesProofs, AgentRunProofs,
    SubrunProofs, SessionProofs, EmailDraftProofs, PolicyProofs
                                                       theorems about them

The components share little state: a job names the workflow it runs, a session
the workflows of its messages, and neither looks into the workflow's record.  So
the modules meet at an *outcome* (a dispatch of JobQueue, the workflow of an
append in Session), chosen freely among what `run_agent` can return or raise.

### JobQueue

| variable | in the code |
|---|---|
| `status`, `worker_id`, `lease`, `ready`, `attempts` | `status`, `worker_id`, `lease_expires_at`, `ready_at`, `attempt_count` of a job record; "absent" before it is created, "deleted" after it is pruned |
| `wstatus`, `current_job`, `wlease` | `status`, `current_job_id`, `lease_expires_at` of a worker record; "absent" before it registers |
| `exec` | the job a thread is inside `dispatch_job` with, and for which worker |

- **One action per call**, with every write the call makes: `claim_next_job`
  first reclaims all expired leases and promotes all due jobs, so
  `ClaimNextJob` does that too.
- **A dispatch is not atomic.** `run_claimed_job` is split into `StartRun` (its
  checks and the heartbeat), and `CompleteRun`, `FailRun`, `FinishDeleted` (the
  record is gone) or `CrashRun`.  In between, everything may happen, and the
  outcome is written without a check, as in the code.
- **Time** is kept as the time left until a timestamp passes: the code only
  compares timestamps with the present.  `Tick` counts all timers down to 0.
- **Who calls.** `SoleDriver` says whether only its own loop calls for a worker.
  The API lets any client call for any worker.  `ForceReset` says whether
  operators use `reset_worker(force=True)`.
- **Left out:** payloads, results, errors and histories; the wall-clock times
  that only reports use; the tie-break among jobs of one priority (any of them
  may be claimed); a limit on an operation over many records (it is a choice of
  the records reached).  A worker's persisted status "expired" cannot occur:
  it is computed from the new lease whenever a record with a job is written.

Calls are atomic in JobQueue; QueueFiles takes them apart.

### WorkQueue

A job is submitted, handed out, perhaps taken back, executed, and finished;
executions in flight can be lost.  No workers, leases, attempts or time.
`JobQueue!ImplementsPromise` is the refinement.  It says what a client may rely
on: a job is never lost, never completed without an execution, and never leaves
a final state but by an execution that was already under way, a retry of a
failure, or its removal.  A *stale* execution may end at any time: that weakness
is part of the promise, as the code is.

### WorkerLoop

Adds `pc` (where a loop is) and `got` (the job that `run_next_job` passes to
`run_claimed_job`), and one action per call of the loop and per way the call can
return or raise.  `Thread = Worker`: a loop dispatches itself.  A loop that
starts again after a crash registers a new worker, so each worker id is one life
of a process.  `DrivesAlone` shows that loops satisfy the guards that
`SoleDriver` adds to JobQueue.

Two constants say how fast the code is, by holding time back:

- `Prompt`: outside a dispatch a loop makes its next call before its worker's
  lease runs out.  Leases are 30 s by default and polls 2 s.
- `ShortDispatch`: a dispatch ends within the lease of its job.  The code does
  *not* ensure it, so it is assumed in one run only.

### QueueFiles

`file` is what a file holds, `torn` the files that hold no valid JSON: `Open`
empties a file (`open(..., "w")`), `Dump` fills it.  `pending` is the write that
a thread has begun.  A writer that opens a file which another has emptied and
filled may leave the tail of a longer record behind.

- **Loops** run from poll to poll: promote due jobs, list and requeue expired
  leases, renew the worker's lease, promote again, choose, claim, assign, renew
  once more, verify, dispatch, then complete or (`DispatchRaises`, `Fail`) record
  a failure, and release the worker.  Each write is `Open` and `Dump`, the
  heartbeats included, which write all of the worker's record back.
- **Lists grow old.** `todo` holds the jobs that a thread listed and, for
  reclaims, the workers listed with them.  They are promoted or requeued one by
  one, and the code does not look at the job again, nor does the model.
- **Requests** read (and so promote), cancel, recover a workflow's jobs and repair
  workers.  Nobody waits for anybody.
- **The clock is open**: any lease in a list may have run out or not, also while
  its worker executes the job; `Verify` may find that the lease has gone.
- **Errors.** Whoever finds an unreadable file raises where the code raises.  A
  loop catches it and goes on with its idle heartbeat, which is outside the `try`
  and may end the loop (`LoopEnds`).  `Crashes` says where a process can die.

`exposed` is not in the code.  It remembers the jobs that were *contested*: two
threads had the job in hand at once (listed it, chose it or were writing a claim or
a requeue of it), or its lease was found to have run out while its worker worked
on it.  There the code does execute a job twice, or rewrite it under its worker,
as section 3 tells; the two properties say that *nothing else* leads to it.

### Workflow, AgentRun

`Workflow` has the functions of `workflow.py` on a record: status, current step,
the status of each step, retries used, children and registered results, and for
each function that can raise the condition under which it does not.

In `AgentRun` a run is a thread with a `copy` of its workflow's record, and one
action is one file access or one call outside.  `wfile` is the workflow records,
`afile`, `aflow` and `resumed_by` the approval records.  The history of a workflow
is left out: nothing in the code decides by it.
`StartRun`, `Resume` and `RunWithApproval` are the ways in (`/run`, a resume or
safe resume by an operator or a queued job, a replay, and `/run` with an approval
that the client names); `StepNext` is `run_workflow`; `ActionRetried`,
`ActionFails` and `Refused` are the except clauses of `run_agent`;
`DecideCheck` and `DecideWrite` are an operator's decision, read-check and write.
The two writes of `mark_approval_resumed` are two actions.  A workflow and an
approval have the name of the run that created them.  The step budget is a
counter; tool calls, tokens and time are the outcome `over_budget` of a call.
`granted` is not in the code: it remembers which approvals were ever approved.

### Policy

Pure operators, no variables: which rules match (`RuleMatches`), the decision
(`Evaluate`), what production deployments refuse to load (`ValidPolicy`), and how
an agent's own rules are added (`BuildAgentPolicy`, `MayBuild`).  Both check the
rules with `ValidRules`; only the policy's own deny rules may match everything, an
agent's may not in production.  A list of patterns is the set of the names it
matches.  `MCAgentRun` computes the decisions of one of its
runs with it, from the rules of `config/policies.yaml`.

### Subrun

A request to spawn keeps `copy`, the parent's record as it was when the limits
were checked, over the whole run of the child, and writes it back with the child
added.  A child that fails is registered by the except clause, from the same stale
copy; so is one whose first write failed and that has no record at all
(`ChildNotCreated`).  `disturbed` (not in the code) marks the parents at which requests
overlapped or died.  A capability stands for a capability or a tool.

### Session

One session, as sessions share nothing.  A request loads the record, works on
`copy`, and writes it back through `write_session`, which extends the history of
the record it replaces (`WithHistory`).  An append ends with any outcome of its
workflow.  `overlapped` (not in the code) says whether requests or prunes ever
overlapped.

### EmailDraft

An intake stores its triage artifact and then registers it in its workflow's
record; a call of an operator asks for the approval of the draft, or makes the
handoff of the approved draft: look-up, create, load, write, as separate steps
with crashes between them.  Approvals and handoffs are kept in the order of their
`updated_at`, which the look-ups sort by.  A decision reads an approval and checks
it (`DecideCheck`), and later writes what it read with the new status
(`DecideWrite`), which moves the approval to the end (`Rewritten`).  Two marks are
not in the code: `overlapped`, the e-mails about which calls overlapped, and
`contested`, those with an approval on which two decisions overlapped.

## 3. What the runs check

| run | module | what it shows |
|---|---|---|
| `queue_safety` | MCJobQueue | `TypeOK` `ClaimMatchesStatus` `NeverEarly` `RetryBudget` `BoundedOvershoot` `LeaseRespected` `FinishedStays` `ImplementsPromise`: any caller for any worker, forced resets, overlapping and stale executions, crashes, repairs, prunes |
| `loop_any_speed` | MCWorkerLoop | `LoopMatchesRecord` `OwnerHolds` `OneExecution` `DrivesAlone`: loops of any speed that may all crash anywhere, with clients that cancel and prune |
| `loop_short_dispatch` | MCWorkerLoop | `NeverDies` `NoStaleExecution` `JobsSettle` `NoWorkerStuck`: progress and exclusivity when dispatches fit in the lease; `w1`'s loop survives, `w2`'s may crash |
| `files_overlap` | MCQueueFiles | `OneWorkerPerJob` `ExecutesOwn`: two loops and a client with every file access interleaved, torn and cut off: a job that was not contested has one worker, and its record is that worker's |
| `files_torn` | MCQueueFiles | `DeadOwnersReplaced` *violated*: finding 3 |
| `agent_races` | MCAgentRun | `TypeOK` `CallsApproved` `WaitsForOwnApproval` `SuccessHasResult` `ResumedByItsRun`: runs, resumes and decisions that overlap and die anywhere |
| `agent_serial` | MCAgentRun | `CallsAccounted` `FollowsLifecycle` `RunsEnd`: three runs, one per kind of decision, when a workflow has one run at a time |
| `agent_resume_retry` | MCAgentRun | `ResumeContinues` *violated*: finding 1 |
| `subrun_races` | MCSubrun | `LineageSound` `RegisteredAreChildren` `AllRegistered`: overlapping and dying spawns over three generations |
| `subrun_parent_corrupted` | MCSubrun | `FailureContained` *violated*: finding 2 |
| `session_races` | MCSession | `HistoryTells` `ContinuitySound` `RunsRecorded` `AdviceSettles`: five requests that overwrite each other's copies, with prunes |
| `email_calls` | MCEmailDraft | `OnePerDraft` `AnswersListed`: an intake, four calls and two operators, with crashes, repeated requests and overlapping decisions |

**Bounds.**

- *Queue and loops*: two jobs let a worker hold one while another waits or is
  stale; two workers let one take what the other lost; two threads let two
  executions of one job overlap.  `j1` is tried once, `j2` is more urgent and is
  retried once after a backoff of one tick, which covers the boundary of
  `max_attempts`, both backoffs and both orders of priority.  A lease of two ticks
  can be renewed before it ends, or not.  No counter needs a cap: `attempts` is
  bounded by `BoundedOvershoot`, the timers by the constants.
- *Files*: one job, two workers of which one never dies, one client.  One job is
  enough for two to meet at it, and with three threads each of the three kinds
  of schedulers (loop, promoting read, recovery) meets each other one.
  `files_overlap` does not look beyond a state in which the job was contested
  (`Unexposed`): the properties claim nothing there.  It has no other bound: 3.2
  million states.  A failure leads to "dead_letter" or "scheduled", one that is final and
  one that is tried again.  In `files_torn` the client only repairs.
- *Agent runs*: two runs let one resume the other's workflow while it works;
  two operators let two decisions overlap.  One retry and two steps reach every
  wait and the limit of the budget.  `agent_serial` has three runs, as a workflow
  can then be resumed from an approval and again from a retry.
- *Sub-workflows*: three workflows reach the depth of two that both agents allow,
  or two children of one parent; three requests let two spawns and a run overlap.
  The lead may have two children and delegate reading; a helper one.
- *Sessions*: five requests reach two compactions with appends between and after
  them.  The limits of the continuity budget are scaled down (keep 1, recent 1,
  at most 2 uncompacted and 3 in all) to be met with ten messages.
- *E-mails*: one e-mail, as calls about two touch no common record; four calls
  reach a second approval after a denial and a handoff, or a handoff asked for again
  after the call that stored it died; two operators let two decisions overlap.

The proofs of section 4 hold for any values of these constants.

**Symmetry** is used where runs check safety only and actors are
interchangeable, never with liveness.  Deadlock is not checked where the system
may stop: all requests have been answered.

**Fairness.** `WorkerLoop!FairSpec`: each loop that has not crashed goes on
(`time.sleep` returns, a dispatch returns or raises), and time passes.
`AgentRun!FairSpec`: a run that has begun goes on.  Nobody has to submit, decide,
cancel, prune or resume anything.  These are weak.  `QueueFiles!FairSpec`: the
loop that does not die goes on, and so do requests; a *strong* fairness says that
this loop, which looks at a listed lease again and again, finds in the end that it has
run out.  It stands for time going on, which QueueFiles does not have, and makes
the violation of `files_torn` one that no patience would mend.

### Findings

1. `agent_resume_retry`: docs/playbooks/workflow-recovery.md:18 says to use
   `resume-safe` for workflows in retry-wait.  `resume_workflow` passes an
   approval or nothing, so `run_agent` creates a *new* workflow; the one that was
   resumed stays in retry_wait for ever, with its retries unused.
2. `subrun_parent_corrupted`: README.md:1583 says failures in one child do not
   corrupt siblings or parent.  The except clause of `start_child_workflow` writes
   the parent back as it was before the child ran: a sibling registered meanwhile
   is lost, and so is the success of the parent.
3. `files_torn`: README.md:987 offers to reclaim the leases of a worker that
   dies.  If it dies while it writes, the file is truncated, every list over the
   jobs raises, and no lease is ever reclaimed again.

Seen while modelling, and part of the models' behaviour, with no run of its own:

- **Cancels.** A job canceled *during* its dispatch is overwritten by the outcome.
  A claim that read a queued job before a cancel wrote it puts it back to running.
- **Reopened.** An execution outlives its lease, another worker completes the job,
  then the first fails: the job is failed or queued again.
- **Stuck loops.** A loop claims a job that a stale execution settles before the
  loop runs it.  `run_claimed_job` raises, the worker keeps the job, and every
  later poll raises "already assigned" while the idle heartbeats keep the
  worker's lease alive.  Only a repair (or the start of another loop) frees it.
- **Dying loops.** The idle heartbeat is outside the loop's `try`; it raises when
  the lease of a worker with a job has run out (`IdleDies`), or when it meets the
  half-written record of its worker (`LoopEnds`), and ends the loop.
- **Old lists.** `reclaim_expired_leases` and `promote_due_jobs` queue every job
  they listed without another look: when a worker, a cancel or an outcome gets
  to the job first, a running or a completed job is queued again, or its delay is
  cut short.  At call grain (JobQueue) this cannot be seen: `NeverEarly` and
  `LeaseRespected` are about calls that do not overlap.
- **Two schedulers.** Two loops that poll at the same time both find a job
  queued, and both claim it; the later write wins.
- **Over budget.** Late failures count attempts past `max_attempts`;
  `BoundedOvershoot` says by how many at most.
- **Forced resets** leave the job running with an idle worker; then a worker can
  own two running jobs.  `OwnerHolds` is about loops, which do not force resets.
- **Look-ups before creates.** Two submissions with one idempotency key, two
  requests for one approval or two for one handoff at the same time both find
  nothing and both create one; spawns that overlap all pass the limit of
  children.  The properties above therefore speak of requests that do not
  overlap, or (`RegisteredAreChildren`) of what a record lists.  Submissions are
  one step in JobQueue, and nothing is claimed of keys.
- **Overlapping decisions.** A denial and an approval both read a pending approval;
  the denial writes, a call asks anew and creates a second approval, the approval
  writes: both are live.  Hence `contested` in `OnePerDraft`.
- **Delegation.** A delegated workflow that is resumed from a retry or replayed
  goes on without its lineage and its delegation.
- **Children without a record.** A child whose run raised before its first write is
  listed by its parent all the same.
- **Overwritten outcomes.** Two runs of one workflow overwrite each other: a
  success can become a failure.  `write_workflow` also reads the history before
  it writes the record, so two writes at once lose an entry of the history.
- **Archived sessions.** An append that began before an archive makes the session
  active again, and one that began before a prune brings it back.
- **Unlisted handoffs.** When a call dies between `create_artifact` and
  `write_workflow`, later calls return the handoff and never list it.  A handoff
  is also still returned when its approval has been aborted since.
- **Production rules.** `validate_policy_rules` asks for deny rules for some
  capabilities, and accepts one that denies a single path.  A rule of a policy may
  deny everything; an agent's own rule that does so makes its runs raise.

### Mutants

For each property of each run that passes, `PROJECT.json` names a small bug (a
forgotten field, a missing guard, an off-by-one) under which TLC finds that
property violated.  The mutated operators stand before their originals in the
modules, marked `Mutant of`.

## 4. What is proved

Each proof module extends the module it is about.  Everything below holds for
**any** sets of jobs, workers, loops, threads, runs, operators, workflows,
requests, e-mails and calls, and any limits.

| module | theorems | properties |
|---|---|---|
| `JobQueueProofs` | `TypeCorrect` `ClaimAlwaysMatches` `NeverRunsEarly` `BudgetKept` `FinishedForGood` `LeasesKept` `OvershootBounded` `KeepsPromise` | all those of `queue_safety`, the refinement of WorkQueue included |
| | `OwnersHold` `OneAtATime` | `OwnerHolds`, `OneExecution`, given `SoleDriver` and not `ForceReset` |
| | `BusyAlwaysAssigned` `PrunedForGood` `ClaimsAssign` | not in a run: `BusyMeansAssigned`, `DeletedStaysDeleted`, `AssignedByClaim` |
| `WorkerLoopProofs` | `LoopsAlwaysMatch` `LoopsOwnTheirs` `LoopsExecuteOne` `LoopsDriveAlone` | all those of `loop_any_speed` |
| | `PromptLoopsLive` `ShortDispatchesCurrent` | `NeverDies` given `Prompt`, `NoStaleExecution` given `ShortDispatch`: the invariants of `loop_short_dispatch` |
| | `LoopsHold` `LoopsUseQueue` | the invariant; loops implement JobQueue and so its promise |
| `QueueFilesProofs` | `AlwaysOneWorkerPerJob` `AlwaysExecutesOwn` | all those of `files_overlap`, with any `Operations`, `Outcomes` and `Crashes` |
| | `WorkExclusive` `TypeCorrect` | not in a run: `Claims`, the invariant behind them, and `TypeOK` |
| `AgentRunProofs` | `TypeCorrect` `CallsAlwaysApproved` `WaitsForOwnApprovalAlways` `SuccessAlwaysHasResult` `ResumedByItsRunAlways` | all those of `agent_races` |
| | `SerialFollowsLifecycle` `SerialCallsAccounted` | `FollowsLifecycle` given `Serial` (crashes allowed), `CallsAccounted` given `Serial` and no crash: the safety properties of `agent_serial` |
| | `RecordsAlwaysWellFormed` | not in a run: `RecordsWellFormed` |
| `SubrunProofs` | `LineageAlwaysSound` `RegisteredAlwaysChildren` `AlwaysAllRegistered` | all those of `subrun_races` |
| `SessionProofs` | `HistoryAlwaysTells` `ContinuityAlwaysSound` `RunsAlwaysRecorded` `AdviceAlwaysSettles` | all those of `session_races` |
| `EmailDraftProofs` | `OnePerDraftAlways` `AnswersAlwaysListed` | all those of `email_calls` |
| `PolicyProofs` | `OwnRulesUndoNothing` `ProductionPolicyHolds` `ProductionCommandsNamed` `OutsideOnlyUnrestricted` | pure facts about `Evaluate` and what production accepts |

**Assumptions.** Each module's constants have their types (`ParamAssumption`,
`LoopAssumption`, `FilesAssumption`, `AgentAssumption`, `SubrunAssumption`,
`SessionAssumption`, `EmailAssumption`), and `None` is no record and no name (`NoneAssumption`).  Of
the values: at least one attempt and one second of lease; a session keeps at
least one message and no more than its limits let it.  `DelayAssumption` says that
powers of two are natural numbers, which needs an induction the provers cannot
do; TLC evaluates it.  `OvershootBounded` asks for finitely many threads.

**The arguments.**

- *JobQueue.* `TypeOK` is inductive by itself (`StepType`).  `QueueInv` is
  inductive relative to it (`StepInv`): `ClaimMatchesStatus` is needed for
  `NeverEarly` (a job that is requeued was running, so its `ready` had passed),
  and `RetryBudget` for itself, because a late failure may find any status.  The
  action properties follow from one step in a state that satisfies both
  (`StepKeep`, `StepLease`).  `LoopInv` joins `OwnerHolds` and `OneExecution`: the
  first needs the second, as the end of an execution releases its worker whatever
  that holds, and may only find the job it ran.  For the refinement each action
  is matched with one of WorkQueue (`StepPromise`): a claim is a `HandOut` that
  takes expired jobs back on the way.  `BoundedOvershoot` counts: each step
  changes attempts and executions in flight so that their sum stays bounded
  (`StepOvershoot`).
- *WorkerLoop.* `LoopsKnow` says for each place of a loop what it may hold, what
  its thread executes and what its worker points at; it is what makes every call
  of a loop one that `SoleDriver` allows (`LoopStepsCall` and the lemmas after
  it), and then the queue's own invariants carry over.  `NeverDies` is not
  inductive: `KeepsUp` adds that a worker whose lease is gone while its loop is
  outside a dispatch has no job: at those places time does not take the last
  second of a lease, and a dispatch, which may outlive it, releases its worker.
  `NoStaleExecution` speaks of the moment of an execution's end; `OneCurrent` says
  of every moment that the execution is the one on record, with seconds of its
  lease left, or its job is out of the queue for good.
- *QueueFiles.* `Shapes` says for each place of a thread which record it is about
  to write to which file, and is inductive however threads overlap: a record
  that was read is never removed.  `Claims` is about jobs that were not contested:
  while a worker works on a job the record is its own or canceled, nobody else
  works on the job, and nobody has it in hand (`Exclusive`).  A step either leaves all that
  alone (`Modest`, for every action but `Dump`): it does not write the record, and it
  takes the job in hand only where it read a status that nobody works on.  Or it
  is a `Dump`, and then the writer had the job in hand, and so alone, or was
  the worker itself, or cancels (`DumpKeeps`).  An old list is harmless as long as
  the job in it is still its listed worker's (`InHand`); when that worker ends its
  work with the job in somebody's list, the one who requeues has it in hand, and the next
  who takes it contests it.
- *AgentRun.* A copy can be as old as its run, so an invariant about the records
  on disk must hold of every copy as well: `RunOK` says for each place of a run
  what its copy, its approval and its outcome may be, and `Good` is the part that
  records and copies share.  Approvals only ever gain history (`granted`), which
  is why a stale approval still justifies a call.  With one run at a time the
  copy *is* the record (`Alone`), so each write is one call of `workflow.py` on the
  record and moves its status as the lifecycle says (`StepFollows`).  Calls are
  counted by `Accounted`: those made for a workflow are at most its retries used
  and one for the call in progress or the finished action (`Spent`).
- *Subrun.* A stale copy is wrong about status and children only: what a record
  says of its origin never changes (`SameOrigin`), so the limits and the
  delegation computed from a stale copy are right.  A record is written by one
  run (`OneRun`), and what a copy lists was begun as a child of its record and, once
  it exists, stays one (`Kin`).
- *Session.* A compaction covers a *first part* of the messages, split in two,
  and appends only add at the end of the copy it came with (`Kept`).  So any copy
  that wins leaves a record that is sound by itself; none of it needs the copies
  to agree.  Without overlaps a copy *is* the record (`Alone`), which gives
  `RunsRecorded` and `AdviceSettles`.
- *EmailDraft.* For an e-mail whose calls do not overlap: one thread works on it
  (`Alone`), an approval that is not settled is the latest (`LiveIsLatest`), so the
  look-up of the latest finds it if there is one, and one operator at most is about
  to rewrite it; the handoff that is on disk was
  listed, or is on its way to be, or its writer is dead (`StoredListed`).  Moving
  a decided approval to the end keeps the order of the others (`MovedIndexes`).

**Only model-checked:** everything about liveness (`JobsSettle`, `NoWorkerStuck`,
`RunsEnd`), which is out of the provers' reach.  The three
properties that runs expect to be violated have their counterexamples.

## 5. Not modelled

- **Tools, models, prompts, grounding, traces**: calls to the outside and the
  assembly of text.  What they can do to a run is its outcome in AgentRun.
- **Memories**: created, read, updated and deleted one file at a time; no
  other record's correctness depends on them.
- **The views of the control plane and of the queue**, the rendering of pages,
  the UI and the scripts: they only read.
- **Migration of persisted files** (`migrate_state_payload` in `state.py`): an
  endpoint that rewrites one file after the other; the runs keep to files of
  the current version.  `storage.py` only names the directories.
- **Authentication** of the API and the wording of answers.
- **Time and tokens** of the run budget: AgentRun lets a call go over budget
  whenever it likes, which covers every way of counting.
