------------------------------ MODULE WorkerLoop ------------------------------
(***************************************************************************)
(* The worker loops of runtime/worker_loop.py over the job queue.  A loop  *)
(* is a process: it registers a worker of its own, repairs orphans, and    *)
(* then claims and runs one job after the other.  It runs jobs itself, so  *)
(* the threads that dispatch are the workers (Thread = Worker).            *)
(*                                                                         *)
(* JobQueue allows any caller at any time.  This module adds the order in  *)
(* which a loop calls, what it does when a call raises, and the crashes.   *)
(*                                                                         *)
(* The code has no clock to obey, but its speed matters.  Two assumptions  *)
(* about it hold time back (Late): Prompt says that a loop outside a       *)
(* dispatch makes its next call before its worker's lease runs out, and    *)
(* ShortDispatch that a dispatch ends before the lease of its job does.    *)
(***************************************************************************)
EXTENDS JobQueue

CONSTANTS
  Immortal,       \* workers whose loop neither crashes nor reaches a limit
  Prompt,         \* do loops keep up with their worker's lease?
  ShortDispatch   \* do dispatches end within the lease of their job?

ASSUME LoopAssumption ==
  /\ Thread = Worker
  /\ Immortal \subseteq Worker
  /\ Prompt \in BOOLEAN
  /\ ShortDispatch \in BOOLEAN

VARIABLES
  pc,             \* [Worker -> where its loop is]
  got             \* [Worker -> the job run_next_job passes on to run_claimed_job]

loopVars == <<vars, pc, got>>

At == {"off", "repair", "poll", "claimed", "dispatch", "idle", "died", "stopped"}
Alive(w) == pc[w] \notin {"off", "died", "stopped"}

LoopTypeOK ==
  /\ TypeOK
  /\ pc \in [Worker -> At]
  /\ got \in [Worker -> Job \cup {None}]

LoopInit ==
  /\ Init
  /\ pc = [w \in Worker |-> "off"]
  /\ got = [w \in Worker |-> None]

GoTo(w, p) == pc' = [pc EXCEPT ![w] = p]

-------------------------------------------------------------------------------
(* The calls of a loop, in their order *)

StartLoop(w) ==
  /\ pc[w] = "off"
  /\ RegisterWorker(w)
  /\ GoTo(w, "repair") /\ UNCHANGED got

\* repair_orphaned_workers, unless the loop was started without it.
RepairOnStart(w) ==
  /\ pc[w] = "repair"
  /\ \/ RepairOrphanedWorkers({v \in Worker : Orphaned(v)})
     \/ UNCHANGED vars
  /\ GoTo(w, "poll") /\ UNCHANGED got

PollFinds(w, j) ==
  /\ pc[w] = "poll"
  /\ ClaimNextJob(w, j)
  /\ GoTo(w, "claimed")
  /\ got' = [got EXCEPT ![w] = j]

PollFindsNothing(w) ==
  /\ pc[w] = "poll"
  /\ ClaimNothing(w)
  /\ GoTo(w, "idle") /\ UNCHANGED got

\* claim_next_job raises before its heartbeat: the lease is gone and the
\* worker still has a job.
PollRaises(w) ==
  /\ pc[w] = "poll" /\ StillHolds(w) /\ wlease[w] = 0
  /\ IF Expired \cup Due # {} THEN ReclaimExpiredLeases ELSE UNCHANGED vars
  /\ GoTo(w, "idle") /\ UNCHANGED got

\* Mutant of BeginDispatch: the dispatch runs in the background.
DispatchInBackground(w) ==
  /\ pc[w] = "claimed"
  /\ StartRun(w, w, got[w])
  /\ GoTo(w, "poll") /\ UNCHANGED got

\* run_claimed_job passes its checks.
BeginDispatch(w) ==
  /\ pc[w] = "claimed"
  /\ StartRun(w, w, got[w])
  /\ GoTo(w, "dispatch") /\ UNCHANGED got

\* The job was canceled since it was claimed; the cancel has freed the worker.
RunSkips(w) ==
  /\ pc[w] = "claimed" /\ wlease[w] > 0 /\ status[got[w]] = "canceled"
  /\ IF current_job[w] = got[w] \/ wstatus[w] # "idle"
     THEN RunCanceled(w, got[w]) ELSE HeartbeatWorker(w)
  /\ GoTo(w, "poll")
  /\ got' = [got EXCEPT ![w] = None]

\* run_claimed_job raises: the worker's lease is gone, or else, after its
\* heartbeat, the job is not its any more, or its lease is gone.
RunRaises(w) ==
  /\ pc[w] = "claimed"
  /\ LET j == got[w]
     IN IF wlease[w] = 0 THEN UNCHANGED vars
        ELSE /\ status[j] # "canceled"
             /\ current_job[w] = j /\ Owns(w, j) => lease[j] = 0
             /\ IF j \in Due THEN RunRejected(w, j) ELSE HeartbeatWorker(w)
  /\ GoTo(w, "idle")
  /\ got' = [got EXCEPT ![w] = None]

\* Mutant of EndDispatch: the loop keeps the job it is done with.
EndKeepingJob(w) ==
  /\ pc[w] = "dispatch"
  /\ CompleteRun(w) \/ FailRun(w)
  /\ GoTo(w, "poll") /\ UNCHANGED got

\* dispatch_job returns or raises; the loop goes on without an idle poll.
EndDispatch(w) ==
  /\ pc[w] = "dispatch"
  /\ CompleteRun(w) \/ FailRun(w)
  /\ GoTo(w, "poll")
  /\ got' = [got EXCEPT ![w] = None]

\* The job was pruned meanwhile: run_claimed_job raises.
EndPruned(w) ==
  /\ pc[w] = "dispatch"
  /\ FinishDeleted(w)
  /\ GoTo(w, "idle")
  /\ got' = [got EXCEPT ![w] = None]

\* The heartbeat after an idle poll.
IdleHeartbeat(w) ==
  /\ pc[w] = "idle"
  /\ HeartbeatWorker(w)
  /\ GoTo(w, "poll") /\ UNCHANGED got

\* Mutant of IdleDies: heartbeat_worker raises whenever the lease is gone.
DiesWithoutJob(w) ==
  /\ pc[w] = "idle" /\ wlease[w] = 0
  /\ GoTo(w, "died") /\ UNCHANGED <<vars, got>>

\* That heartbeat is outside the loop's try: when it raises, the loop dies.
IdleDies(w) ==
  /\ pc[w] = "idle" /\ wlease[w] = 0 /\ current_job[w] # None
  /\ GoTo(w, "died") /\ UNCHANGED <<vars, got>>

\* The process is killed, or leaves its loop at max_jobs or max_idle_polls.
Crash(w) ==
  /\ Alive(w) /\ w \notin Immortal
  /\ IF exec[w] # None THEN CrashRun(w) ELSE UNCHANGED vars
  /\ GoTo(w, "stopped")
  /\ got' = [got EXCEPT ![w] = None]

Loop(w) ==
  \/ StartLoop(w)
  \/ RepairOnStart(w)
  \/ \E j \in Job : PollFinds(w, j)
  \/ PollFindsNothing(w)
  \/ PollRaises(w)
  \/ BeginDispatch(w)
  \/ RunSkips(w)
  \/ RunRaises(w)
  \/ EndDispatch(w)
  \/ EndPruned(w)
  \/ IdleHeartbeat(w)
  \/ IdleDies(w)

-------------------------------------------------------------------------------
(* Everything around the loops *)

Client ==
  /\ \/ \E j \in Job, d \in Delays : CreateJob(j, d)
     \/ \E j \in Job : CancelJob(j)
     \/ \E j \in Job : PruneJobs({j})
  /\ UNCHANGED <<pc, got>>

\* POST /workers/repair-orphans
Repair ==
  /\ RepairOrphanedWorkers({w \in Worker : Orphaned(w)})
  /\ UNCHANGED <<pc, got>>

\* One more second would break an assumption about the speed of the code.
Late ==
  \E w \in Worker :
    \/ Prompt /\ Alive(w) /\ pc[w] # "dispatch" /\ wlease[w] = 1
    \/ ShortDispatch /\ exec[w] # None /\ Owns(w, exec[w][2]) /\ lease[exec[w][2]] = 1

LoopTick == ~ Late /\ Tick /\ UNCHANGED <<pc, got>>

LoopNext ==
  \/ \E w \in Worker : Loop(w) \/ Crash(w)
  \/ Client
  \/ Repair
  \/ LoopTick

LoopSpec == LoopInit /\ [][LoopNext]_loopVars

\* Loops that do not crash go on, dispatches end, and time passes.  Nobody has
\* to submit, cancel, prune or repair anything.
Fairness ==
  /\ \A w \in Worker : WF_loopVars(Loop(w))
  /\ WF_loopVars(LoopTick)

FairSpec == LoopSpec /\ Fairness

-------------------------------------------------------------------------------
(* Properties *)

\* What a loop believes agrees with the records: while it dispatches, its
\* thread executes the job it claimed; a job it was given and does not hold
\* any more was taken by somebody else's call, never lost by its own.
LoopMatchesRecord ==
  \A w \in Worker :
    /\ pc[w] = "dispatch" <=> exec[w] # None
    /\ pc[w] = "dispatch" => exec[w] = <<w, got[w]>>
    /\ pc[w] \in {"claimed", "dispatch"} <=> got[w] # None
    /\ pc[w] \in {"off", "repair"} => current_job[w] = None

\* With loops that keep up, a loop dies of nothing: the heartbeat that is
\* outside its try never raises.
NeverDies == \A w \in Worker : pc[w] # "died"

\* With loops that keep up and short dispatches, every execution belongs to
\* the claim that is on record, unless the job was canceled or pruned.
NoStaleExecution ==
  \A w \in Worker : exec[w] # None =>
    \/ Owns(w, exec[w][2])
    \/ status[exec[w][2]] \in {"canceled", "deleted"}

\* A loop never calls for a worker in a way that JobQueue's SoleDriver
\* excludes, so what is proved of the queue under SoleDriver holds here.
Queue == INSTANCE JobQueue WITH SoleDriver <- TRUE, ForceReset <- FALSE
DrivesAlone == Queue!Spec

\* Every job that was accepted is settled in the end.
JobsSettle ==
  \A j \in Job : Exists(j) ~> status[j] \in Terminal \cup {"deleted"}

\* No worker that still has a loop is stuck with a job.
NoWorkerStuck ==
  \A w \in Worker : current_job[w] # None ~> (current_job[w] = None \/ ~ Alive(w))

===============================================================================
