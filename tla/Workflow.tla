------------------------------ MODULE Workflow ------------------------------
(***************************************************************************)
(* The workflow record of runtime/workflow.py and the functions that       *)
(* change it.  They work on a copy in memory; write_workflow persists it.  *)
(* A function that can raise comes with the condition under which it does  *)
(* not: transition_step and transition_workflow refuse what their tables   *)
(* do not list.                                                            *)
(*                                                                         *)
(* Kept: the status, the current step, the status of every step, the       *)
(* retries, the children and the runs whose results are registered.        *)
(***************************************************************************)
EXTENDS Integers

CONSTANTS
  Run,          \* identifiers of runs, and of the workflow and approval each may create
  MaxRetries    \* retry_policy.max_attempts of the agent

WorkflowTransitions ==
  [running   |-> {"waiting", "succeeded", "failed"},
   waiting   |-> {"running", "failed"},
   succeeded |-> {},
   failed    |-> {}]

StepTransitions ==
  [pending     |-> {"in_progress", "blocked", "completed", "failed"},
   in_progress |-> {"blocked", "completed", "failed"},
   blocked     |-> {"in_progress", "completed", "failed"},
   completed   |-> {},
   failed      |-> {}]

WorkflowStatus == DOMAIN WorkflowTransitions
StepStatus == DOMAIN StepTransitions

\* The steps a workflow can have: the action, the finish step, and one wait
\* for each approval it asks for and each retry.
Step == {<<"action">>, <<"finish">>}
          \cup ({"approval"} \X Run) \cup ({"retry"} \X (1..MaxRetries))

ActionStep == <<"action">>
FinishStep == <<"finish">>
ApprovalStep(a) == <<"approval", a>>
RetryStep(n) == <<"retry", n>>

\* "none": the step has not been inserted
Record ==
  [status: WorkflowStatus, at: Step, steps: [Step -> StepStatus \cup {"none"}],
   used: 0..MaxRetries, children: SUBSET Run, results: SUBSET Run]

-----------------------------------------------------------------------------

CreateWorkflowState ==
  [status |-> "running", at |-> ActionStep,
   steps |-> [s \in Step |-> IF s = ActionStep THEN "in_progress"
                             ELSE IF s = FinishStep THEN "pending" ELSE "none"],
   used |-> 0, children |-> {}, results |-> {}]

CurrentStatus(wf) == wf.steps[wf.at]

CanTransition(wf, next) == next \in WorkflowTransitions[wf.status]

\* `if status != next: transition`, as most callers guard it
CanReach(wf, next) == wf.status = next \/ CanTransition(wf, next)

SetStep(wf, s, from, next) ==
  [wf EXCEPT !.steps[s] = IF @ \in from THEN next ELSE @]

Blocked(wf) == SetStep(wf, ActionStep, {"in_progress"}, "blocked")
Unblocked(wf) == SetStep(wf, ActionStep, {"blocked"}, "in_progress")

-----------------------------------------------------------------------------

CanWait(wf) == CanReach(wf, "waiting")

\* wait_for_approval up to the change of status, which can raise
ApprovalInserted(wf, a) ==
  [Blocked(wf) EXCEPT !.steps[ApprovalStep(a)] = IF @ = "none" THEN "in_progress" ELSE @]

WaitForApproval(wf, a) ==
  [ApprovalInserted(wf, a) EXCEPT !.status = "waiting", !.at = ApprovalStep(a)]

\* Mutant of CanRetry: off by one.
CanRetryOnceMore(wf) == wf.used <= MaxRetries

CanRetry(wf) == wf.used < MaxRetries

\* Mutant of WaitForRetry: the attempt is not counted.
WaitForRetryUncounted(wf) ==
  LET attempt == wf.used + 1
  IN [Blocked(wf) EXCEPT !.steps[RetryStep(attempt)] = IF @ = "none" THEN "in_progress" ELSE @,
                         !.status = "waiting",
                         !.at = RetryStep(attempt)]

WaitForRetry(wf) ==
  LET attempt == wf.used + 1
  IN [Blocked(wf) EXCEPT !.steps[RetryStep(attempt)] = IF @ = "none" THEN "in_progress" ELSE @,
                         !.used = attempt,
                         !.status = "waiting",
                         !.at = RetryStep(attempt)]

\* Mutant of Resumed: the workflow stays at the wait step.
ResumedInPlace(wf, s) ==
  [Unblocked(SetStep(wf, s, {"in_progress"}, "completed")) EXCEPT
     !.status = IF @ = "waiting" THEN "running" ELSE @]

\* resume_from_approval and resume_from_retry, at the wait step s
Resumed(wf, s) ==
  [Unblocked(SetStep(wf, s, {"in_progress"}, "completed")) EXCEPT
     !.status = IF @ = "waiting" THEN "running" ELSE @,
     !.at = ActionStep]

CanMarkActionCompleted(wf) ==
  \/ wf.steps[ActionStep] = "completed"
  \/ "completed" \in StepTransitions[wf.steps[ActionStep]]

MarkActionCompleted(wf) ==
  [SetStep(wf, FinishStep, {"pending"}, "in_progress") EXCEPT
     !.steps[ActionStep] = "completed",
     !.at = FinishStep]

\* register_artifact, and complete_finish_step up to the change of status
FinishStepCompleted(wf, r) ==
  [wf EXCEPT !.results = @ \cup {r},
             !.steps[FinishStep] = IF @ = "failed" THEN @ ELSE "completed"]

CanCompleteFinishStep(wf) ==
  wf.steps[FinishStep] # "failed" /\ CanReach(wf, "succeeded")

CompleteFinishStep(wf, r) ==
  [FinishStepCompleted(wf, r) EXCEPT !.status = "succeeded", !.at = FinishStep]

\* Mutant of FailWorkflow: it does not look at the status.
FailAnyWorkflow(wf) ==
  [SetStep(wf, wf.at, {"pending", "in_progress", "blocked"}, "failed")
     EXCEPT !.status = "failed"]

FailWorkflow(wf) ==
  [SetStep(wf, wf.at, {"pending", "in_progress", "blocked"}, "failed")
     EXCEPT !.status = IF @ \in {"waiting", "running"} THEN "failed" ELSE @]

-----------------------------------------------------------------------------

\* What any sequence of these functions leaves: a waiting workflow is at an
\* open wait step, a running one at an open action or finish step, and one
\* that succeeded has completed both.
WellFormed(wf) ==
  /\ wf.status = "waiting" =>
       wf.at \notin {ActionStep, FinishStep} /\ CurrentStatus(wf) = "in_progress"
  /\ wf.status = "running" =>
       wf.at \in {ActionStep, FinishStep} /\ CurrentStatus(wf) = "in_progress"
  /\ wf.status = "succeeded" =>
       /\ wf.at = FinishStep
       /\ wf.steps[ActionStep] = "completed" /\ wf.steps[FinishStep] = "completed"

=============================================================================
