------------------------------ MODULE AgentRun ------------------------------
(***************************************************************************)
(* Runs of an agent (runtime/agent.py) over the workflow and approval      *)
(* records they share with each other and with operators who decide        *)
(* approvals (runtime/approval.py, runtime/workflow_runner.py).            *)
(*                                                                         *)
(* A run is a thread.  It loads the workflow record once, works on that    *)
(* copy for as long as the run lasts, and writes the whole copy back at    *)
(* each persist_workflow.  Approval records are read again when needed and *)
(* rewritten by read-check-write.  One step of the model is one file       *)
(* access, or one call outside (the tool or the model).                    *)
(***************************************************************************)
EXTENDS Workflow, FiniteSets

CONSTANTS
  Operator,   \* operators (or requests of theirs) that decide approvals
  None,
  Decision,   \* evaluate_policy for the action of each run's request
  MaxSteps,   \* max_steps of the agent's budget, per run
  Direct,     \* do clients pass an approval_id to POST /run themselves?
  Serial,     \* is a workflow only resumed when no other run works on it?
  Crashes     \* can processes die?

ASSUME AgentAssumption ==
  /\ Decision \in [Run -> {"allowed", "approval", "denied"}]
  /\ MaxSteps \in Nat /\ MaxRetries \in Nat
  /\ Direct \in BOOLEAN /\ Serial \in BOOLEAN /\ Crashes \in BOOLEAN

VARIABLES
  wfile,      \* [Run -> the workflow record it created, or None]
  afile,      \* [Run -> status of the approval it asked for, or "absent"]
  aflow,      \* [Run -> workflow_id of that approval]
  resumed_by, \* [Run -> resumed_run_id of that approval]
  pc,         \* [Run -> where the run is]
  source,     \* [Run -> the workflow an operator resumed or replayed with it]
  flow,       \* [Run -> the workflow it works on]
  copy,       \* [Run -> its copy of that workflow's record]
  approval,   \* [Run -> the approval it holds a copy of]
  seen,       \* [Run -> the status in that copy]
  steps,      \* [Run -> budget.steps_used]
  outcome,    \* [Run -> how its call of the tool or model ended]
  deciding,   \* [Operator -> <<approval, new status>> it has checked]
  granted     \* approvals that were ever approved (not in the code)

approvalVars == <<afile, aflow, resumed_by, granted>>
runVars == <<source, flow, approval, seen, steps, outcome>>
vars == <<wfile, approvalVars, runVars, pc, copy, deciding>>

ApprovalTransitions ==
  [absent   |-> {}, pending |-> {"approved", "denied", "aborted"},
   approved |-> {"resumed", "aborted"},
   resumed  |-> {}, denied |-> {}, aborted |-> {}]

Ended == {"idle", "crashed", "done"}
Busy == {"open", "load", "attach", "step", "refused", "requested", "mark", "marking",
         "marked", "call", "called"}
Outcome == {"ok", "retryable", "terminal", "over_budget"}

ASSUME NoneAssumption == None \notin Run \cup Record \cup Outcome

TypeOK ==
  /\ wfile \in [Run -> Record \cup {None}]
  /\ afile \in [Run -> DOMAIN ApprovalTransitions]
  /\ aflow \in [Run -> Run \cup {None}]
  /\ resumed_by \in [Run -> Run \cup {None}]
  /\ granted \in SUBSET Run
  /\ pc \in [Run -> Ended \cup Busy]
  /\ source \in [Run -> Run \cup {None}]
  /\ flow \in [Run -> Run \cup {None}]
  /\ copy \in [Run -> Record \cup {None}]
  /\ approval \in [Run -> Run \cup {None}]
  /\ seen \in [Run -> DOMAIN ApprovalTransitions]
  /\ steps \in [Run -> Nat]
  /\ outcome \in [Run -> Outcome \cup {None}]
  /\ deciding \in [Operator -> (Run \X {"approved", "denied", "aborted"}) \cup {None}]

Init ==
  /\ wfile = [r \in Run |-> None]
  /\ afile = [r \in Run |-> "absent"]
  /\ aflow = [r \in Run |-> None]
  /\ resumed_by = [r \in Run |-> None]
  /\ granted = {}
  /\ pc = [r \in Run |-> "idle"]
  /\ source = [r \in Run |-> None]
  /\ flow = [r \in Run |-> None]
  /\ copy = [r \in Run |-> None]
  /\ approval = [r \in Run |-> None]
  /\ seen = [r \in Run |-> "absent"]
  /\ steps = [r \in Run |-> 0]
  /\ outcome = [r \in Run |-> None]
  /\ deciding = [o \in Operator |-> None]

-----------------------------------------------------------------------------
(* Writing records *)

Goto(r, label) == pc' = [pc EXCEPT ![r] = label]

\* write_workflow: the whole record is replaced, whatever it has become since
\* the copy was read.
Persisted(w, wf) == wfile' = [wfile EXCEPT ![w] = wf]

\* persist_workflow(state) with the copy changed to wf
Persist(r, wf) ==
  /\ copy' = [copy EXCEPT ![r] = wf]
  /\ Persisted(flow[r], wf)

\* run_agent returns or raises, and its copy is gone.
Ends(r) ==
  /\ Goto(r, "done")
  /\ copy' = [copy EXCEPT ![r] = None]

\* The except clause of run_agent for an error that is not retried.
Fails(r, wf) == Persisted(flow[r], FailWorkflow(wf)) /\ Ends(r)

-----------------------------------------------------------------------------
(* Starting a run *)

\* run_agent without an approval_id creates a workflow.  POST /run does so for
\* a new request; resume_workflow does so for any workflow that is not at an
\* approval (source), and replay_workflow for one that failed.
MayContinue(w) ==
  /\ wfile[w] # None
  /\ \/ wfile[w].status = "failed"
     \/ /\ wfile[w].status # "succeeded"
        /\ wfile[w].at[1] # "approval"

StartRun(r, w) ==
  /\ pc[r] = "idle"
  /\ w # None => MayContinue(w)
  /\ flow' = [flow EXCEPT ![r] = r]
  /\ source' = [source EXCEPT ![r] = w]
  /\ copy' = [copy EXCEPT ![r] = CreateWorkflowState]
  /\ Persisted(r, CreateWorkflowState)
  /\ Goto(r, "step")
  /\ UNCHANGED <<approvalVars, approval, seen, steps, outcome, deciding>>

Works(r, w) ==
  /\ pc[r] \in Busy
  /\ flow[r] = w \/ (approval[r] # None /\ aflow[approval[r]] = w)
MayResume(w) == Serial => \A r \in Run : ~ Works(r, w)

\* resume_workflow of a workflow at an approval: run_agent gets its id.
Resume(r, w) ==
  /\ pc[r] = "idle"
  /\ wfile[w] # None /\ wfile[w].status \notin {"succeeded", "failed"}
  /\ wfile[w].at[1] = "approval"
  /\ MayResume(w)
  /\ source' = [source EXCEPT ![r] = w]
  /\ approval' = [approval EXCEPT ![r] = wfile[w].at[2]]
  /\ Goto(r, "open")
  /\ UNCHANGED <<wfile, approvalVars, flow, copy, seen, steps, outcome, deciding>>

\* POST /run with an approval_id: nothing looks at the workflow first.
RunWithApproval(r, a) ==
  /\ Direct /\ pc[r] = "idle" /\ afile[a] # "absent"
  /\ MayResume(aflow[a])
  /\ approval' = [approval EXCEPT ![r] = a]
  /\ Goto(r, "open")
  /\ UNCHANGED <<wfile, approvalVars, source, flow, copy, seen, steps, outcome, deciding>>

\* initialize_workflow reads the approval, then the workflow, then writes the
\* workflow (and configure_workflow_for_agent writes it again).
ReadApproval(r) ==
  /\ pc[r] = "open"
  /\ seen' = [seen EXCEPT ![r] = afile[approval[r]]]
  /\ flow' = [flow EXCEPT ![r] = aflow[approval[r]]]
  /\ Goto(r, "load")
  /\ UNCHANGED <<wfile, approvalVars, source, copy, approval, steps, outcome, deciding>>

LoadWorkflow(r) ==
  /\ pc[r] = "load"
  /\ copy' = [copy EXCEPT ![r] = wfile[flow[r]]]
  /\ Goto(r, "attach")
  /\ UNCHANGED <<wfile, approvalVars, runVars, deciding>>

AttachRun(r) ==
  /\ pc[r] = "attach"
  /\ Persist(r, copy[r])
  /\ Goto(r, "step")
  /\ UNCHANGED <<approvalVars, runVars, deciding>>

-----------------------------------------------------------------------------
(* The wait steps of run_workflow *)

At(r, kind) == pc[r] = "step" /\ copy[r].at[1] = kind

\* execute_retry_wait_step before next_retry_at: the run ends as it was.
RetryNotDue(r) ==
  /\ At(r, "retry")
  /\ Ends(r)
  /\ UNCHANGED <<wfile, approvalVars, runVars, deciding>>

RetryDue(r) ==
  /\ At(r, "retry")
  /\ Persist(r, Resumed(copy[r], copy[r].at))
  /\ UNCHANGED <<approvalVars, runVars, pc, deciding>>

\* execute_approval_wait_step reads the approval it waits for.
ReadDecision(r) ==
  /\ At(r, "approval")
  /\ LET a == copy[r].at[2]
     IN /\ approval' = [approval EXCEPT ![r] = a]
        /\ seen' = [seen EXCEPT ![r] = afile[a]]
        /\ CASE afile[a] = "pending" -> Ends(r) /\ UNCHANGED wfile
             [] afile[a] = "approved" -> Goto(r, "mark") /\ UNCHANGED <<wfile, copy>>
             [] afile[a] = "resumed" ->
                  Persist(r, Resumed(copy[r], copy[r].at)) /\ UNCHANGED pc
             [] OTHER -> Fails(r, copy[r])
  /\ UNCHANGED <<approvalVars, source, flow, steps, outcome, deciding>>

\* mark_approval_resumed: update_approval_status reads the record again and
\* checks it, writes it, and then resumed_run_id is added by another write.
MarkCheck(r) ==
  /\ pc[r] = "mark"
  /\ IF "resumed" \in ApprovalTransitions[afile[approval[r]]]
     THEN Goto(r, "marking") /\ UNCHANGED <<wfile, copy>>
     ELSE Fails(r, copy[r])
  /\ UNCHANGED <<approvalVars, runVars, deciding>>

MarkResumed(r) ==
  /\ pc[r] = "marking"
  /\ afile' = [afile EXCEPT ![approval[r]] = "resumed"]
  /\ resumed_by' = [resumed_by EXCEPT ![approval[r]] = None]
  /\ Goto(r, "marked")
  /\ UNCHANGED <<wfile, aflow, granted, runVars, copy, deciding>>

\* Then the approval wait step is left, or the gated call is made.
MarkRun(r) ==
  /\ pc[r] = "marked"
  /\ afile' = [afile EXCEPT ![approval[r]] = "resumed"]
  /\ resumed_by' = [resumed_by EXCEPT ![approval[r]] = r]
  /\ seen' = [seen EXCEPT ![r] = "resumed"]
  /\ Goto(r, IF copy[r].at[1] = "approval" THEN "step" ELSE "call")
  /\ UNCHANGED <<wfile, aflow, granted, source, flow, approval, steps, outcome, copy, deciding>>

-----------------------------------------------------------------------------
(* The action step of run_workflow *)

BudgetLeft(r) == steps[r] < MaxSteps

\* Mutant of ApprovedActionMatchesRequest: any approval will do.
AnyApproval(r) == approval[r] # None

\* The action of the approval is that of the request it was matched with.
ApprovedActionMatchesRequest(r) == approval[r] # None /\ seen[r] \in {"approved", "resumed"}

\* What the delegation, the policy and the approval the run holds make of it.
Verdict(r) ==
  CASE Decision[flow[r]] = "denied" -> "refused"
    [] Decision[flow[r]] = "allowed" -> "call"
    [] Decision[flow[r]] = "approval" ->
         IF ~ ApprovedActionMatchesRequest(r) THEN "requested"
         ELSE IF seen[r] = "approved" THEN "mark" ELSE "call"

\* consume_step and consume_tool_call, then set_action_details is persisted,
\* then Verdict decides.
BeginAction(r) ==
  /\ At(r, "action")
  /\ BudgetLeft(r)
  /\ steps' = [steps EXCEPT ![r] = @ + 1]
  /\ Persist(r, copy[r])
  /\ Goto(r, Verdict(r))
  /\ UNCHANGED <<approvalVars, source, flow, approval, seen, outcome, deciding>>

\* DelegationDeniedError or PolicyDeniedError
Refused(r) ==
  /\ pc[r] = "refused"
  /\ Fails(r, copy[r])
  /\ UNCHANGED <<approvalVars, runVars, deciding>>

\* BudgetExceededError is not retryable.
StepsExceeded(r) ==
  /\ At(r, "action") /\ ~ BudgetLeft(r)
  /\ Fails(r, copy[r])
  /\ UNCHANGED <<approvalVars, runVars, deciding>>

\* request_approval: create_approval, and only then wait_for_approval.
CreateApproval(r) ==
  /\ pc[r] = "requested" /\ afile[r] = "absent"
  /\ afile' = [afile EXCEPT ![r] = "pending"]
  /\ aflow' = [aflow EXCEPT ![r] = flow[r]]
  /\ approval' = [approval EXCEPT ![r] = r]
  /\ seen' = [seen EXCEPT ![r] = "pending"]
  /\ UNCHANGED <<wfile, resumed_by, granted, pc, source, flow, steps, outcome, copy, deciding>>

\* Mutant of WaitForDecision: the workflow may wait before the approval exists.
WaitBeforeApproval(r) ==
  /\ pc[r] = "requested"
  /\ IF CanWait(copy[r])
     THEN Persist(r, WaitForApproval(copy[r], r)) /\ Goto(r, "step")
     ELSE Fails(r, ApprovalInserted(copy[r], r))
  /\ UNCHANGED <<approvalVars, runVars, deciding>>

WaitForDecision(r) ==
  /\ pc[r] = "requested" /\ afile[r] # "absent"
  /\ IF CanWait(copy[r])
     THEN Persist(r, WaitForApproval(copy[r], r)) /\ Goto(r, "step")
     ELSE Fails(r, ApprovalInserted(copy[r], r))
  /\ UNCHANGED <<approvalVars, runVars, deciding>>

\* call_tool or call_model: the effect outside.  It may end well, fail, or end
\* well and leave the run over its token or time budget.
CallAction(r, o) ==
  /\ pc[r] = "call"
  /\ outcome' = [outcome EXCEPT ![r] = o]
  /\ Goto(r, "called")
  /\ UNCHANGED <<wfile, approvalVars, source, flow, approval, seen, steps, copy, deciding>>

ActionSucceeds(r) ==
  /\ pc[r] = "called" /\ outcome[r] = "ok"
  /\ IF CanMarkActionCompleted(copy[r])
     THEN Persist(r, MarkActionCompleted(copy[r])) /\ Goto(r, "step")
     ELSE Fails(r, copy[r])
  /\ UNCHANGED <<approvalVars, runVars, deciding>>

\* can_schedule_retry
CanScheduleRetry(r) == outcome[r] = "retryable" /\ CanRetry(copy[r])

\* wait_for_retry raises inside the except clause when the copy says failed:
\* then nothing is written.
ActionRetried(r) ==
  /\ pc[r] = "called" /\ CanScheduleRetry(r)
  /\ IF CanWait(copy[r]) THEN Persisted(flow[r], WaitForRetry(copy[r]))
     ELSE UNCHANGED wfile
  /\ Ends(r)
  /\ UNCHANGED <<approvalVars, runVars, deciding>>

ActionFails(r) ==
  /\ pc[r] = "called" /\ outcome[r] # "ok" /\ ~ CanScheduleRetry(r)
  /\ Fails(r, copy[r])
  /\ UNCHANGED <<approvalVars, runVars, deciding>>

\* Mutant of HasResult: a run may finish what another one did.
ResultOptional(r) == TRUE

\* tool_result or model_result of this run; None has no "output"
HasResult(r) == outcome[r] = "ok"

\* execute_finish_step
Finish(r) ==
  /\ At(r, "finish")
  /\ \/ /\ ~ HasResult(r)
        /\ Fails(r, copy[r])
     \/ /\ HasResult(r) /\ CanCompleteFinishStep(copy[r])
        /\ Persisted(flow[r], CompleteFinishStep(copy[r], r))
        /\ Ends(r)
     \/ /\ HasResult(r) /\ ~ CanCompleteFinishStep(copy[r])
        /\ Fails(r, FinishStepCompleted(copy[r], r))
  /\ UNCHANGED <<approvalVars, runVars, deciding>>

Crash(r) ==
  /\ Crashes /\ pc[r] \in Busy
  /\ pc' = [pc EXCEPT ![r] = "crashed"]
  /\ copy' = [copy EXCEPT ![r] = None]
  /\ UNCHANGED <<wfile, approvalVars, runVars, deciding>>

-----------------------------------------------------------------------------
(* Operators *)

\* update_approval_status reads and checks, then writes what it read.
DecideCheck(o, a, next) ==
  /\ deciding[o] = None
  /\ next \in ApprovalTransitions[afile[a]] \ {"resumed"}
  /\ deciding' = [deciding EXCEPT ![o] = <<a, next>>]
  /\ UNCHANGED <<wfile, approvalVars, runVars, pc, copy>>

\* Mutant of DecideWrite: only the status is written.
DecideStatusOnly(o) ==
  /\ deciding[o] # None
  /\ LET a == deciding[o][1]
         next == deciding[o][2]
     IN /\ afile' = [afile EXCEPT ![a] = next]
        /\ granted' = IF next = "approved" THEN granted \cup {a} ELSE granted
  /\ deciding' = [deciding EXCEPT ![o] = None]
  /\ UNCHANGED <<wfile, aflow, resumed_by, runVars, pc, copy>>

\* The whole record is written as it was read, with the new status.
DecideWrite(o) ==
  /\ deciding[o] # None
  /\ LET a == deciding[o][1]
         next == deciding[o][2]
     IN /\ afile' = [afile EXCEPT ![a] = next]
        /\ resumed_by' = [resumed_by EXCEPT ![a] = None]
        /\ granted' = IF next = "approved" THEN granted \cup {a} ELSE granted
  /\ deciding' = [deciding EXCEPT ![o] = None]
  /\ UNCHANGED <<wfile, aflow, runVars, pc, copy>>

-----------------------------------------------------------------------------

StartNext ==
  \E r \in Run :
    \/ \E w \in Run \cup {None} : StartRun(r, w)
    \/ \E w \in Run : Resume(r, w)
    \/ \E a \in Run : RunWithApproval(r, a)

StepNext(r) ==
  \/ ReadApproval(r) \/ LoadWorkflow(r) \/ AttachRun(r)
  \/ RetryNotDue(r) \/ RetryDue(r) \/ ReadDecision(r)
  \/ MarkCheck(r) \/ MarkResumed(r) \/ MarkRun(r)
  \/ BeginAction(r) \/ Refused(r) \/ StepsExceeded(r) \/ CreateApproval(r) \/ WaitForDecision(r)
  \/ \E o \in Outcome : CallAction(r, o)
  \/ ActionSucceeds(r) \/ ActionRetried(r) \/ ActionFails(r) \/ Finish(r)

DecideNext ==
  \E o \in Operator :
    \/ \E a \in Run, next \in {"approved", "denied", "aborted"} : DecideCheck(o, a, next)
    \/ DecideWrite(o)

Next == StartNext \/ (\E r \in Run : StepNext(r) \/ Crash(r)) \/ DecideNext

Spec == Init /\ [][Next]_vars

\* A thread that runs goes on until run_agent returns or the process dies.
FairSpec == Spec /\ \A r \in Run : WF_vars(StepNext(r))

-----------------------------------------------------------------------------
(* Safety, whatever runs, operators and crashes interleave *)

Called(r) == outcome[r] # None

\* A call that the policy gates is made only by a run that holds an approval
\* for this very workflow which an operator approved at some time: no race of
\* resumes, denials and stale copies lets a gated call through on its own.
CallsApproved ==
  \A r \in Run : Called(r) =>
    /\ Decision[flow[r]] # "denied"
    /\ Decision[flow[r]] = "approval" =>
         /\ approval[r] \in granted
         /\ aflow[approval[r]] = flow[r]

\* A workflow that waits for an approval waits for one that exists and that
\* was asked for it, at whatever point the process that asked died.
WaitsForOwnApproval ==
  \A w \in Run :
    wfile[w] # None /\ wfile[w].at[1] = "approval"
      => afile[wfile[w].at[2]] # "absent" /\ aflow[wfile[w].at[2]] = w

\* A workflow that succeeded has a result, and every result registered in a
\* workflow comes from a run whose own call for this workflow ended well.
SuccessHasResult ==
  \A w \in Run : wfile[w] # None =>
    /\ wfile[w].status = "succeeded" => wfile[w].results # {}
    /\ \A r \in wfile[w].results : flow[r] = w /\ outcome[r] = "ok"

\* An approval that names the run it was resumed by is resumed, and that run
\* works on its workflow, whatever decisions and resumes wrote in between.
ResumedByItsRun ==
  \A a \in Run : resumed_by[a] # None =>
    /\ afile[a] = "resumed"
    /\ flow[resumed_by[a]] = aflow[a]

\* Every record on disk is one that the functions of workflow.py can leave,
\* also when it was written from a stale copy.
RecordsWellFormed == \A w \in Run : wfile[w] # None => WellFormed(wfile[w])

-----------------------------------------------------------------------------
(* Safety when a workflow has one run at a time (Serial) *)

\* The lifecycle in the documents: a status changes only as its table says,
\* so a workflow that succeeded or failed stays so.
FollowsLifecycle ==
  [][\A w \in Run : wfile[w] # None
       => CanReach(wfile[w], wfile'[w].status)]_vars

CallsFor(w) == {r \in Run : Called(r) /\ flow[r] = w}

\* Without crashes: until a workflow fails, its action is called once, and once
\* more for each retry on record.  A resumed approval authorises no more.
CallsAccounted ==
  \A w \in Run :
    wfile[w] # None /\ wfile[w].status # "failed"
      => Cardinality(CallsFor(w)) <= wfile[w].used + 1

-----------------------------------------------------------------------------
(* Liveness *)

\* The `while True` of run_workflow ends: a run that has started returns.
RunsEnd == \A r \in Run : pc[r] \in Busy ~> pc[r] \in Ended

-----------------------------------------------------------------------------
(* What the documentation says and the code does not keep *)

\* "Use POST /workflows/{workflow_id}/resume-safe for retry-wait or other
\* resumable waiting states" (docs/playbooks/workflow-recovery.md:18): the run
\* that a resume starts works on the workflow that was resumed.
ResumeContinues ==
  [][\A r, w \in Run :
       source'[r] = w /\ source[r] # w /\ wfile[w].status = "waiting"
         => flow'[r] # r]_vars

=============================================================================
