----------------------------- MODULE QueueFiles -----------------------------
(***************************************************************************)
(* The job queue at the grain of single file accesses.  JobQueue takes     *)
(* every call as one step; here update_job and update_worker read a        *)
(* record, open its file for writing, which empties it, and dump the new   *)
(* record, and other processes run in between.  A list over the directory  *)
(* is one step, and what a call does with the list are later ones.  A load *)
(* that update_job's own read follows at once is one read with it.         *)
(*                                                                         *)
(* Kept: the loops of the workers from poll to release, and the requests   *)
(* that read, cancel and recover jobs and repair workers.  Left open: the  *)
(* clock (a lease or a delay that is compared with it may have run out or  *)
(* not), the order of the queue and the budget of attempts, which JobQueue *)
(* has, and how long a dispatch takes.  The promotion of a due job by      *)
(* load_job, wherever it is called, is a Read of a client at that moment.  *)
(***************************************************************************)
EXTENDS Naturals, FiniteSets

CONSTANTS
  Job, Worker, Client,
  None,
  Operations,   \* what clients do: a subset of {"read", "cancel", "recover", "repair"}
  Outcomes,     \* what a failure leads to, by max_attempts and retry_backoff_seconds
  Survivor,     \* the worker whose loop does not end
  Crashes       \* places a process can die at: a subset of {"between", "writing"}

ASSUME FilesAssumption ==
  /\ Survivor \in Worker
  /\ Operations \subseteq {"read", "cancel", "recover", "repair"}
  /\ Outcomes \subseteq {"failed", "dead_letter", "scheduled", "queued"}
  /\ Crashes \subseteq {"between", "writing"}
  /\ Job \cap Worker = {} /\ Worker \cap Client = {} /\ None \notin Job \cup Worker

Thread == Worker \cup Client
File == Job \cup Worker

VARIABLES
  file,      \* [File -> the record it holds]
  torn,      \* files that hold no valid JSON
  pc,        \* [Thread -> where it is]
  target,    \* [Thread -> the job it works on]
  holder,    \* [Thread -> the worker that was listed with that job]
  todo,      \* [Thread -> the jobs of its list, with the workers listed with them]
  pending,   \* [Thread -> the write it has begun]
  exposed    \* history, not in the code: the jobs that were contested (see Contested)

vars == <<file, torn, pc, target, holder, todo, pending, exposed>>

JobRecord ==
  [status: {"queued", "scheduled", "running", "completed", "failed", "dead_letter", "canceled"},
   owner: Worker \cup {None}]
WorkerRecord == [job: Job \cup {None}]
WorkerPlace == {"idle", "promote", "reclaim", "free", "renew", "again", "prepare", "claim", "assign",
                "check", "verify", "disowned", "dispatch", "fail", "release", "beat", "dead"}
Place == WorkerPlace \cup {"cancel", "unassign", "judge"}
AfterWrite == {"idle", "promote", "reclaim", "free", "again", "prepare", "assign", "check", "verify",
               "disowned", "release", "beat", "unassign"}
Write == [file: Job, record: JobRecord, next: AfterWrite] \cup [file: Worker, record: WorkerRecord, next: AfterWrite]

ASSUME NoneAssumption == None \notin Write

TypeOK ==
  /\ file \in [File -> JobRecord \cup WorkerRecord]
  /\ \A j \in Job : file[j] \in JobRecord
  /\ \A w \in Worker : file[w] \in WorkerRecord
  /\ torn \subseteq File
  /\ pc \in [Thread -> Place \cup {"open", "dump"}]
  /\ target \in [Thread -> Job \cup {None}]
  /\ holder \in [Thread -> Worker \cup {None}]
  /\ todo \in [Thread -> SUBSET (Job \X (Worker \cup {None}))]
  /\ pending \in [Thread -> Write \cup {None}]
  /\ \A t \in Thread : pc[t] \in {"open", "dump"} <=> pending[t] # None
  /\ exposed \subseteq Job

NewJob == [status |-> "queued", owner |-> None]
Idle == [job |-> None]

Init ==
  /\ file = [f \in File |-> IF f \in Job THEN NewJob ELSE Idle]
  /\ torn = {}
  /\ pc = [t \in Thread |-> "idle"]
  /\ target = [t \in Thread |-> None]
  /\ holder = [t \in Thread |-> None]
  /\ todo = [t \in Thread |-> {}]
  /\ pending = [t \in Thread |-> None]
  /\ exposed = {}

-----------------------------------------------------------------------------
(* Two at one job *)

\* Where t is when the write it has begun is done
Heading(t) == IF pending[t] = None THEN pc[t] ELSE pending[t].next

\* w works on j: from its claim on until the outcome is written.
WorksOn(w, j) ==
  /\ w \in Worker /\ target[w] = j
  /\ \/ pc[w] \in {"assign", "dispatch", "fail"}
     \/ Heading(w) \in {"check", "verify"}
     \/ pending[w] # None /\ pending[w].next = "release"

Writes(t, j, places) == pending[t] # None /\ pending[t].file = j /\ pending[t].next \in places

\* t is about to queue or to claim j: it has listed j for that, and nobody works
\* on the job it has listed.
InHand(t, j) ==
  \/ \E e \in todo[t] : e[1] = j /\ ~ WorksOn(e[2], j)
  \/ pc[t] = "claim" /\ target[t] = j
  \/ Writes(t, j, {"promote", "prepare", "free", "assign"})

\* Two have a job in hand at once, or its lease is found to have run out while
\* its worker works on it.
Contested ==
  {j \in Job : \/ \E s, t \in Thread : s # t /\ InHand(s, j) /\ InHand(t, j)
               \/ \E t \in Thread : Writes(t, j, {"free"}) /\ WorksOn(holder[t], j)}

Noted == exposed' = exposed \cup Contested'

-----------------------------------------------------------------------------
(* Reading and writing files *)

Readable(f) == f \notin torn
Goto(t, place) == pc' = [pc EXCEPT ![t] = place]

\* A list over the directory raises if any file does not parse.
ListReadable == torn \cap Job = {}

\* update_job and update_worker after their read
BeginWrite(t, f, record, next) ==
  /\ pending' = [pending EXCEPT ![t] = [file |-> f, record |-> record, next |-> next]]
  /\ Goto(t, "open")

Open(t) ==
  /\ pc[t] = "open"
  /\ torn' = torn \cup {pending[t].file}
  /\ Goto(t, "dump")
  /\ UNCHANGED <<file, target, holder, todo, pending>> /\ Noted

\* A file that is not empty was written by another thread after this one
\* opened it: if that record was longer, its tail is left behind.
Dump(t) ==
  /\ pc[t] = "dump"
  /\ LET f == pending[t].file
     IN /\ file' = [file EXCEPT ![f] = pending[t].record]
        /\ torn' \in {torn \ {f}} \cup (IF f \in torn THEN {} ELSE {torn \cup {f}})
  /\ Goto(t, pending[t].next)
  /\ pending' = [pending EXCEPT ![t] = None]
  /\ UNCHANGED <<target, holder, todo>> /\ Noted

NoWrite == UNCHANGED <<file, torn>>

\* t is done with the job it worked on.
Forget(t) ==
  /\ target' = [target EXCEPT ![t] = None]
  /\ holder' = [holder EXCEPT ![t] = None]

-----------------------------------------------------------------------------
(* Lists and what is done with them, by loops and by requests *)

\* Mutant of Scheduled: the status is not looked at.
AnyStatus == Job

Scheduled == {j \in Job : file[j].status = "scheduled"}
Running == {j \in Job : file[j].status = "running"}

\* promote_due_jobs lists the scheduled jobs whose time has come.  A poll does
\* it twice: in reclaim_expired_leases and in ready_jobs.
ListDue(t) ==
  /\ \/ t \in Worker /\ pc[t] \in {"idle", "again"}
     \/ t \in Client /\ pc[t] = "idle" /\ "read" \in Operations
  /\ ListReadable
  /\ \E S \in SUBSET Scheduled : todo' = [todo EXCEPT ![t] = S \X {None}]
  /\ Goto(t, IF pc[t] = "again" THEN "prepare" ELSE "promote")
  /\ NoWrite /\ UNCHANGED <<target, holder, pending>> /\ Noted

\* ... and queues them one by one, whatever has become of them.
Promote(t) ==
  /\ pc[t] \in {"promote", "prepare"}
  /\ \E j \in Job :
       /\ <<j, None>> \in todo[t] /\ Readable(j)
       /\ todo' = [todo EXCEPT ![t] = @ \ {<<j, None>>}]
       /\ BeginWrite(t, j, [file[j] EXCEPT !.status = "queued"], pc[t])
  /\ NoWrite /\ UNCHANGED <<target, holder>> /\ Noted

\* reclaim_expired_leases lists every running job, recover_workflow those of
\* its workflow.
ListRunning(t) ==
  /\ ListReadable
  /\ \E S \in SUBSET Running :
       /\ \/ t \in Worker /\ pc[t] = "promote" /\ todo[t] = {} /\ S = Running
          \/ t \in Client /\ pc[t] = "idle" /\ "recover" \in Operations
       /\ todo' = [todo EXCEPT ![t] = {<<j, file[j].owner>> : j \in S}]
  /\ Goto(t, "reclaim")
  /\ NoWrite /\ UNCHANGED <<target, holder, pending>> /\ Noted

\* One of the listed leases has run out: requeue_job, whatever has become of
\* the job since it was listed.
Requeue(t) ==
  /\ pc[t] = "reclaim"
  /\ \E j \in Job, w \in Worker \cup {None} :
       /\ <<j, w>> \in todo[t] /\ Readable(j)
       /\ todo' = [todo EXCEPT ![t] = @ \ {<<j, w>>}]
       /\ target' = [target EXCEPT ![t] = j]
       /\ holder' = [holder EXCEPT ![t] = w]
       /\ BeginWrite(t, j, [file[j] EXCEPT !.status = "queued", !.owner = None], "free")
  /\ NoWrite /\ Noted

\* The worker that was listed with the job is freed if it still names it.
Free(t) ==
  /\ pc[t] = "free"
  /\ LET w == holder[t]
         names == w # None /\ file[w].job = target[t]
     IN /\ w # None => Readable(w)
        /\ IF names THEN BeginWrite(t, w, Idle, "reclaim") ELSE Goto(t, "reclaim") /\ UNCHANGED pending
  /\ Forget(t)
  /\ NoWrite /\ UNCHANGED todo /\ Noted

-----------------------------------------------------------------------------
(* A loop: run_next_job again and again *)

\* The leases of the jobs that are left in the list have not run out.
EndReclaim(w) ==
  /\ w \in Worker /\ pc[w] = "reclaim"
  /\ todo' = [todo EXCEPT ![w] = {}]
  /\ Goto(w, "renew")
  /\ NoWrite /\ UNCHANGED <<target, holder, pending>> /\ Noted

\* heartbeat_worker reads the worker's record and writes all of it back: in
\* claim_next_job, which then raises if the record has a job, in
\* run_claimed_job, and after a poll without a job.
Heartbeat(w) ==
  /\ pc[w] \in {"renew", "check", "beat"} /\ Readable(w)
  /\ LET next == CASE pc[w] = "renew" -> IF file[w].job = None THEN "again" ELSE "beat"
                   [] pc[w] = "check" -> IF file[w].job = target[w] THEN "verify" ELSE "disowned"
                   [] OTHER -> "idle"
     IN BeginWrite(w, w, file[w], next)
  /\ NoWrite /\ UNCHANGED <<target, holder, todo>> /\ Noted

\* Mutant of Claimable: a running job is too.
ClaimableUnfinished(j) == file[j].status \in {"queued", "running"}

Claimable(j) == file[j].status = "queued"

\* ready_jobs: one of them is taken, or there is none.
Choose(w) ==
  /\ pc[w] = "prepare" /\ todo[w] = {} /\ ListReadable
  /\ \/ \E j \in Job : Claimable(j) /\ target' = [target EXCEPT ![w] = j] /\ Goto(w, "claim")
     \/ (\A j \in Job : ~ Claimable(j)) /\ Goto(w, "beat") /\ UNCHANGED target
  /\ NoWrite /\ UNCHANGED <<holder, todo, pending>> /\ Noted

\* update_job reads the record again, but the status in it is not looked at.
Claim(w) ==
  /\ pc[w] = "claim" /\ Readable(target[w])
  /\ BeginWrite(w, target[w], [status |-> "running", owner |-> w], "assign")
  /\ NoWrite /\ UNCHANGED <<target, holder, todo>> /\ Noted

Assign(w) ==
  /\ pc[w] = "assign" /\ Readable(w)
  /\ BeginWrite(w, w, [job |-> target[w]], "check")
  /\ NoWrite /\ UNCHANGED <<target, holder, todo>> /\ Noted

\* run_claimed_job goes by the record its heartbeat wrote, and by the job's: a
\* canceled job ends the call, which frees the worker only if it had a job, and
\* a job that is not its own, or whose lease has run out, makes it raise.
Verify(w) ==
  /\ pc[w] \in {"verify", "disowned"} /\ Readable(target[w])
  /\ LET record == file[target[w]]
     IN \/ record.status = "canceled" /\ Goto(w, IF pc[w] = "verify" THEN "release" ELSE "idle") /\ Forget(w)
        \/ record.status # "canceled" /\ Goto(w, "beat") /\ Forget(w)
        \/ /\ pc[w] = "verify" /\ record = [status |-> "running", owner |-> w]
           /\ Goto(w, "dispatch") /\ UNCHANGED <<target, holder>>
  /\ NoWrite /\ UNCHANGED <<todo, pending>> /\ Noted

\* dispatch_job returns: complete_job.
Complete(w) ==
  /\ pc[w] = "dispatch" /\ Readable(target[w])
  /\ BeginWrite(w, target[w], [file[target[w]] EXCEPT !.status = "completed"], "release")
  /\ NoWrite /\ UNCHANGED <<target, holder, todo>> /\ Noted

\* dispatch_job raises, or complete_job does.
DispatchRaises(w) ==
  /\ pc[w] = "dispatch"
  /\ Goto(w, "fail")
  /\ NoWrite /\ UNCHANGED <<target, holder, todo, pending>> /\ Noted

\* record_job_failure; it raises if the record cannot be read.
Fail(w) ==
  /\ pc[w] = "fail"
  /\ \/ /\ Readable(target[w])
        /\ \E s \in Outcomes :
             BeginWrite(w, target[w], [status |-> s, owner |-> None], "release")
     \/ ~ Readable(target[w]) /\ Goto(w, "release") /\ UNCHANGED pending
  /\ NoWrite /\ UNCHANGED <<target, holder, todo>> /\ Noted

\* The finally clause releases the worker in any case; then the call returns
\* the job or raises.
Release(w) ==
  /\ pc[w] = "release" /\ Readable(w)
  /\ \E next \in {"idle", "beat"} : BeginWrite(w, w, Idle, next)
  /\ Forget(w)
  /\ NoWrite /\ UNCHANGED todo /\ Noted

\* A call raises on a file that does not parse, and a loop's also because the
\* worker's own lease has run out; the loop goes on with its heartbeat.
Raise(t) ==
  /\ \/ pc[t] \in {"idle", "again"} /\ t \in Worker /\ ~ ListReadable
     \/ pc[t] \in {"promote", "prepare"} /\ todo[t] = {} /\ ~ ListReadable
     \/ pc[t] \in {"promote", "prepare", "reclaim"} /\ \E e \in todo[t] : ~ Readable(e[1])
     \/ pc[t] \in {"claim", "verify", "disowned", "cancel", "judge"} /\ ~ Readable(target[t])
     \/ pc[t] \in {"free", "unassign", "judge"} /\ ~ Readable(holder[t])
     \/ pc[t] \in {"renew", "assign", "release"} /\ ~ Readable(t)
     \/ pc[t] = "renew" /\ file[t].job # None
     \/ pc[t] = "check"
  /\ todo' = [todo EXCEPT ![t] = {}]
  /\ Goto(t, IF t \in Worker THEN "beat" ELSE "idle")
  /\ Forget(t)
  /\ NoWrite /\ UNCHANGED pending /\ Noted

\* The heartbeat after a poll is outside the try: it raises if the record does
\* not parse, or if its lease has run out while it names a job.
LoopEnds(w) ==
  /\ w # Survivor /\ pc[w] = "beat"
  /\ ~ Readable(w) \/ file[w].job # None
  /\ Goto(w, "dead")
  /\ NoWrite /\ UNCHANGED <<target, holder, todo, pending>> /\ Noted

Crash(w) ==
  /\ w # Survivor /\ pc[w] # "dead"
  /\ (IF pc[w] = "dump" THEN "writing" ELSE "between") \in Crashes
  /\ Goto(w, "dead")
  /\ todo' = [todo EXCEPT ![w] = {}]
  /\ pending' = [pending EXCEPT ![w] = None]
  /\ Forget(w)
  /\ NoWrite /\ Noted

-----------------------------------------------------------------------------
(* Requests of clients *)

\* cancel_job_execution reads the job's worker first.
Cancel(c) ==
  /\ "cancel" \in Operations /\ pc[c] = "idle"
  /\ \E j \in Job :
       /\ Readable(j)
       /\ target' = [target EXCEPT ![c] = j]
       /\ holder' = [holder EXCEPT ![c] = file[j].owner]
  /\ Goto(c, "cancel")
  /\ NoWrite /\ UNCHANGED <<todo, pending>> /\ Noted

\* cancel_job: only the record of a running job keeps its worker.
CancelJob(c) ==
  /\ pc[c] = "cancel" /\ Readable(target[c])
  /\ LET record == file[target[c]]
         kept == IF record.status = "running" THEN record.owner ELSE None
     IN IF record.status \in {"queued", "scheduled", "running"}
        THEN /\ BeginWrite(c, target[c], [status |-> "canceled", owner |-> kept], "unassign")
             /\ UNCHANGED <<target, holder>>
        ELSE Goto(c, "idle") /\ UNCHANGED pending /\ Forget(c)
  /\ NoWrite /\ UNCHANGED todo /\ Noted

\* The worker that was read at first is released if it still names the job.
Unassign(c) ==
  /\ pc[c] = "unassign"
  /\ LET w == holder[c]
         names == w # None /\ file[w].job = target[c]
     IN /\ w # None => Readable(w)
        /\ IF names THEN BeginWrite(c, w, Idle, "idle") ELSE Goto(c, "idle") /\ UNCHANGED pending
  /\ Forget(c)
  /\ NoWrite /\ UNCHANGED todo /\ Noted

\* repair_orphaned_workers lists the workers, looks each one's job up ...
ListWorkers(c) ==
  /\ "repair" \in Operations /\ pc[c] = "idle" /\ torn \cap Worker = {}
  /\ \E w \in Worker :
       /\ file[w].job # None
       /\ target' = [target EXCEPT ![c] = file[w].job]
       /\ holder' = [holder EXCEPT ![c] = w]
  /\ Goto(c, "judge")
  /\ NoWrite /\ UNCHANGED <<todo, pending>> /\ Noted

\* ... and resets the worker unless the job runs for it.
Judge(c) ==
  /\ pc[c] = "judge" /\ Readable(target[c])
  /\ IF file[target[c]] = [status |-> "running", owner |-> holder[c]]
     THEN Goto(c, "idle") /\ UNCHANGED pending
     ELSE Readable(holder[c]) /\ BeginWrite(c, holder[c], Idle, "idle")
  /\ Forget(c)
  /\ NoWrite /\ UNCHANGED todo /\ Noted

\* Nothing of the list is left, or no other lease in it has run out.
EndRequest(c) ==
  /\ c \in Client
  /\ \/ pc[c] = "promote" /\ todo[c] = {}
     \/ pc[c] = "reclaim"
  /\ todo' = [todo EXCEPT ![c] = {}]
  /\ Goto(c, "idle")
  /\ NoWrite /\ UNCHANGED <<target, holder, pending>> /\ Noted

-----------------------------------------------------------------------------

LoopNext(w) ==
  \/ ListDue(w) \/ Promote(w) \/ ListRunning(w) \/ Requeue(w) \/ Free(w) \/ EndReclaim(w)
  \/ Heartbeat(w) \/ Choose(w) \/ Claim(w) \/ Assign(w) \/ Verify(w) \/ Complete(w)
  \/ DispatchRaises(w) \/ Fail(w) \/ Release(w) \/ Raise(w) \/ Open(w) \/ Dump(w) \/ LoopEnds(w)

RequestNext(c) ==
  \/ ListDue(c) \/ Promote(c) \/ ListRunning(c) \/ Requeue(c) \/ Free(c)
  \/ Cancel(c) \/ CancelJob(c) \/ Unassign(c) \/ ListWorkers(c) \/ Judge(c)
  \/ Raise(c) \/ Open(c) \/ Dump(c) \/ EndRequest(c)

Next == (\E w \in Worker : LoopNext(w) \/ Crash(w)) \/ (\E c \in Client : RequestNext(c))

Spec == Init /\ [][Next]_vars

\* The surviving loop goes on, requests do, and a lease that the loop looks at
\* again and again has run out in the end.
FairSpec ==
  /\ Spec
  /\ WF_vars(LoopNext(Survivor)) /\ SF_vars(Requeue(Survivor))
  /\ \A c \in Client : WF_vars(RequestNext(c))

-----------------------------------------------------------------------------

Executing(w, j) == pc[w] = "dispatch" /\ target[w] = j

\* Two workers never execute one job unless two schedulers had it in hand at once
\* or its lease ran out during the work: no torn read, failed or canceled call,
\* repair, late heartbeat or crash between two writes hands a job out twice.
OneWorkerPerJob ==
  \A v, w \in Worker, j \in Job :
    Executing(v, j) /\ Executing(w, j) /\ v # w => j \in exposed

\* Under the same condition nobody changes the record of a job while a worker
\* executes it, save the requests that cancel it.
ExecutesOwn ==
  \A w \in Worker, j \in Job :
    Executing(w, j) /\ j \notin exposed
      => file[j] = [status |-> "running", owner |-> w] \/ file[j].status = "canceled"

-----------------------------------------------------------------------------
(* What the documentation says and the code does not keep *)

\* "Reclaim expired leases if a worker dies" (README.md:987)
DeadOwnersReplaced ==
  \A j \in Job, w \in Worker :
    file[j] = [status |-> "running", owner |-> w] /\ pc[w] = "dead"
      ~> file[j] # [status |-> "running", owner |-> w]

=============================================================================
