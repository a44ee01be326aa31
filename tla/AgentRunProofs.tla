--------------------------- MODULE AgentRunProofs ---------------------------
(***************************************************************************)
(* What holds of agent runs however they, operators and crashes interleave: *)
(* no gated call is made without an approval, the records stay well formed  *)
(* and runs that share no workflow follow its lifecycle.                    *)
(***************************************************************************)
EXTENDS AgentRun, FiniteSetTheorems, TLAPS

USE AgentAssumption

-----------------------------------------------------------------------------
(* The functions of workflow.py *)

LEMMA StepFacts ==
  /\ ActionStep \in Step /\ FinishStep \in Step /\ ActionStep # FinishStep
  /\ \A a \in Run : /\ ApprovalStep(a) \in Step
                    /\ ApprovalStep(a) \notin {ActionStep, FinishStep}
                    /\ ApprovalStep(a)[1] = "approval" /\ ApprovalStep(a)[2] = a
                    /\ \A n \in 1..MaxRetries : ApprovalStep(a) # RetryStep(n)
  /\ \A n \in 1..MaxRetries : /\ RetryStep(n) \in Step
                              /\ RetryStep(n) \notin {ActionStep, FinishStep}
                              /\ RetryStep(n)[1] = "retry"
  /\ \A a, b \in Run : ApprovalStep(a) = ApprovalStep(b) => a = b
  /\ \A m, n \in 1..MaxRetries : RetryStep(m) = RetryStep(n) => m = n
  /\ ActionStep[1] = "action" /\ FinishStep[1] = "finish"
  /\ \A s \in Step :
       /\ s[1] \in {"action", "finish", "approval", "retry"}
       /\ s[1] = "action" => s = ActionStep
       /\ s[1] = "finish" => s = FinishStep
       /\ s[1] = "approval" => s[2] \in Run /\ s = ApprovalStep(s[2])
BY DEF Step, ActionStep, FinishStep, ApprovalStep, RetryStep

LEMMA SetStepFacts ==
  ASSUME NEW wf \in Record, NEW s \in Step, NEW from, NEW next \in StepStatus
  PROVE  LET new == SetStep(wf, s, from, next)
         IN /\ new \in Record
            /\ new.status = wf.status /\ new.at = wf.at /\ new.used = wf.used
            /\ new.results = wf.results
            /\ \A t \in Step : new.steps[t] = IF t = s /\ wf.steps[s] \in from THEN next
                                              ELSE wf.steps[t]
BY DEF Record, SetStep

\* A record that is sound by itself: WellFormed, made inductive.
Live(wf) ==
  /\ wf.status \in {"running", "waiting"} =>
       \A n \in 1..MaxRetries : n > wf.used => wf.steps[RetryStep(n)] = "none"
  /\ wf.status = "waiting" =>
       /\ wf.at \notin {ActionStep, FinishStep} /\ wf.steps[wf.at] = "in_progress"
       /\ wf.steps[ActionStep] = "blocked" /\ wf.steps[FinishStep] = "pending"
  /\ wf.status = "running" =>
       \/ /\ wf.at = ActionStep
          /\ wf.steps[ActionStep] = "in_progress" /\ wf.steps[FinishStep] = "pending"
       \/ /\ wf.at = FinishStep
          /\ wf.steps[ActionStep] = "completed" /\ wf.steps[FinishStep] = "in_progress"
  /\ wf.status = "succeeded" =>
       /\ wf.at = FinishStep
       /\ wf.steps[ActionStep] = "completed" /\ wf.steps[FinishStep] = "completed"

LEMMA CreateLive ==
  /\ CreateWorkflowState \in Record /\ Live(CreateWorkflowState)
  /\ CreateWorkflowState.status = "running" /\ CreateWorkflowState.at = ActionStep
  /\ CreateWorkflowState.results = {}
  /\ \A a \in Run : CreateWorkflowState.steps[ApprovalStep(a)] = "none"
<1>1. CreateWorkflowState \in Record
  BY StepFacts DEF CreateWorkflowState, Record, WorkflowStatus, WorkflowTransitions,
                   StepStatus, StepTransitions
<1> QED BY <1>1, StepFacts DEF CreateWorkflowState, Live

\* What an operation on a record keeps: the approvals it has steps for and its results.
Keeps(wf, new) ==
  /\ new \in Record
  /\ Live(new)
  /\ new.results = wf.results
  /\ \A a \in Run : new.steps[ApprovalStep(a)] = "none" <=> wf.steps[ApprovalStep(a)] = "none"
  /\ new.status = "succeeded" => wf.status = "succeeded"

LEMMA BlockedFacts ==
  ASSUME NEW wf \in Record
  PROVE  /\ Blocked(wf) \in Record
         /\ Blocked(wf).status = wf.status /\ Blocked(wf).at = wf.at /\ Blocked(wf).used = wf.used
         /\ Blocked(wf).results = wf.results
         /\ \A t \in Step : Blocked(wf).steps[t] =
              IF t = ActionStep /\ wf.steps[t] = "in_progress" THEN "blocked" ELSE wf.steps[t]
BY StepFacts, SetStepFacts DEF Blocked, StepStatus, StepTransitions

LEMMA UnblockedFacts ==
  ASSUME NEW wf \in Record
  PROVE  /\ Unblocked(wf) \in Record
         /\ Unblocked(wf).status = wf.status /\ Unblocked(wf).at = wf.at
         /\ Unblocked(wf).used = wf.used
         /\ Unblocked(wf).results = wf.results
         /\ \A t \in Step : Unblocked(wf).steps[t] =
              IF t = ActionStep /\ wf.steps[t] = "blocked" THEN "in_progress" ELSE wf.steps[t]
BY StepFacts, SetStepFacts DEF Unblocked, StepStatus, StepTransitions

LEMMA FailKeeps ==
  ASSUME NEW wf \in Record, Live(wf)
  PROVE  /\ Keeps(wf, FailWorkflow(wf))
         /\ FailWorkflow(wf).at = wf.at
<1> DEFINE set == SetStep(wf, wf.at, {"pending", "in_progress", "blocked"}, "failed")
           new == FailWorkflow(wf)
<1>1. /\ wf.at \in Step /\ wf.status \in WorkflowStatus /\ "failed" \in StepStatus
      /\ "failed" \in WorkflowStatus /\ \A t \in Step : wf.steps[t] \in StepStatus \cup {"none"}
  BY DEF Record, StepStatus, StepTransitions, WorkflowStatus, WorkflowTransitions
<1>2. /\ set \in Record
      /\ set.status = wf.status /\ set.at = wf.at /\ set.used = wf.used
      /\ set.results = wf.results
      /\ \A t \in Step : set.steps[t] =
           IF t = wf.at /\ wf.steps[t] \in {"pending", "in_progress", "blocked"} THEN "failed"
           ELSE wf.steps[t]
  BY <1>1, SetStepFacts
<1>3. new = [set EXCEPT !.status = IF @ \in {"waiting", "running"} THEN "failed" ELSE @]
  BY DEF FailWorkflow
<1> HIDE DEF set
<1>4. /\ new \in Record
      /\ new.status = (IF wf.status \in {"waiting", "running"} THEN "failed" ELSE wf.status)
      /\ new.at = wf.at /\ new.used = wf.used /\ new.results = wf.results
      /\ new.steps = set.steps
  BY <1>1, <1>2, <1>3 DEF Record
<1> HIDE DEF new
<1>5. ASSUME NEW t \in Step
      PROVE  new.steps[t] = "none" <=> wf.steps[t] = "none"
  BY <1>2, <1>4
<1>6. new.status \notin {"waiting", "running"}
  BY <1>4
<1>7. Live(new)
  <2>1. new.status = "succeeded" => wf.status = "succeeded"
    BY <1>4
  <2> QED BY <1>2, <1>4, <1>6, <2>1, StepFacts DEF Live
<1> QED BY <1>4, <1>5, <1>7, StepFacts DEF Keeps, new

\* A retry wait ends, or an approval wait ends.
LEMMA ResumedKeeps ==
  ASSUME NEW wf \in Record, Live(wf), wf.at \notin {ActionStep, FinishStep}
  PROVE  /\ Keeps(wf, Resumed(wf, wf.at))
         /\ Resumed(wf, wf.at).at = ActionStep
<1> DEFINE set == SetStep(wf, wf.at, {"in_progress"}, "completed")
           unblocked == Unblocked(set)
           new == Resumed(wf, wf.at)
<1>1. /\ wf.at \in Step /\ wf.status \in WorkflowStatus /\ "completed" \in StepStatus
      /\ "running" \in WorkflowStatus
  BY DEF Record, StepStatus, StepTransitions, WorkflowStatus, WorkflowTransitions
<1>2. /\ set \in Record
      /\ set.status = wf.status /\ set.used = wf.used /\ set.results = wf.results
      /\ \A t \in Step : set.steps[t] =
           IF t = wf.at /\ wf.steps[wf.at] \in {"in_progress"} THEN "completed" ELSE wf.steps[t]
  BY <1>1, SetStepFacts
<1> HIDE DEF set
<1>3. /\ unblocked \in Record
      /\ unblocked.status = wf.status /\ unblocked.used = wf.used
      /\ unblocked.results = wf.results
      /\ \A t \in Step : unblocked.steps[t] =
           IF t = ActionStep /\ set.steps[t] = "blocked" THEN "in_progress" ELSE set.steps[t]
  BY <1>2, UnblockedFacts
<1>4. new = [unblocked EXCEPT !.status = IF @ = "waiting" THEN "running" ELSE @,
                              !.at = ActionStep]
  BY DEF Resumed, set
<1> HIDE DEF unblocked
<1>5. /\ new \in Record
      /\ new.status = (IF wf.status = "waiting" THEN "running" ELSE wf.status)
      /\ new.at = ActionStep /\ new.used = wf.used /\ new.results = wf.results
      /\ new.steps = unblocked.steps
  <2>1. ActionStep \in Step
    BY StepFacts
  <2> HIDE DEF new
  <2> QED BY <1>1, <1>3, <1>4, <2>1 DEF Record
<1> HIDE DEF new
<1>6. ASSUME NEW t \in Step
      PROVE  /\ new.steps[t] = "none" <=> wf.steps[t] = "none"
             /\ t \notin {ActionStep, wf.at} => new.steps[t] = wf.steps[t]
  BY <1>2, <1>3, <1>5
<1>7. wf.status \in {"waiting", "failed"}
  BY <1>1 DEF Live, WorkflowStatus, WorkflowTransitions
<1>8. wf.status = "waiting" => new.steps[ActionStep] = "in_progress"
  BY <1>2, <1>3, <1>5, StepFacts DEF Live
<1>9. Live(new)
  BY <1>5, <1>6, <1>7, <1>8, StepFacts DEF Live
<1> QED BY <1>5, <1>6, <1>7, <1>9, StepFacts DEF Keeps, new

LEMMA CompletedKeeps ==
  ASSUME NEW wf \in Record, Live(wf), wf.at = ActionStep
  PROVE  /\ Keeps(wf, MarkActionCompleted(wf))
         /\ MarkActionCompleted(wf).at = FinishStep
<1> DEFINE set == SetStep(wf, FinishStep, {"pending"}, "in_progress")
           new == MarkActionCompleted(wf)
<1>1. /\ wf.status \in WorkflowStatus
      /\ "completed" \in StepStatus /\ "in_progress" \in StepStatus
  BY DEF Record, StepStatus, StepTransitions
<1>2. /\ set \in Record
      /\ set.status = wf.status /\ set.used = wf.used /\ set.results = wf.results
      /\ \A t \in Step : set.steps[t] =
           IF t = FinishStep /\ wf.steps[FinishStep] \in {"pending"} THEN "in_progress"
           ELSE wf.steps[t]
  BY <1>1, StepFacts, SetStepFacts
<1>3. new = [set EXCEPT !.steps[ActionStep] = "completed", !.at = FinishStep]
  BY DEF MarkActionCompleted
<1> HIDE DEF set
<1>4. /\ new \in Record
      /\ new.status = wf.status /\ new.at = FinishStep /\ new.used = wf.used
      /\ new.results = wf.results
      /\ \A t \in Step : new.steps[t] = IF t = ActionStep THEN "completed" ELSE set.steps[t]
  <2>1. ActionStep \in Step /\ FinishStep \in Step
    BY StepFacts
  <2> HIDE DEF new
  <2> QED BY <1>1, <1>2, <1>3, <2>1 DEF Record
<1> HIDE DEF new
<1>5. ASSUME NEW t \in Step, t \notin {ActionStep, FinishStep}
      PROVE  new.steps[t] = wf.steps[t]
  BY <1>2, <1>4, <1>5
<1>6. wf.status \in {"running", "failed"}
  BY <1>1, StepFacts DEF Live, WorkflowStatus, WorkflowTransitions
<1>7. wf.status = "running" =>
        new.steps[ActionStep] = "completed" /\ new.steps[FinishStep] = "in_progress"
  BY <1>2, <1>4, StepFacts DEF Live
<1>8. Live(new)
  BY <1>4, <1>5, <1>6, <1>7, StepFacts DEF Live
<1> QED BY <1>4, <1>5, <1>6, <1>8, StepFacts DEF Keeps, new

\* A new retry wait.
LEMMA RetryKeeps ==
  ASSUME NEW wf \in Record, Live(wf), wf.at = ActionStep, CanRetry(wf), CanWait(wf)
  PROVE  /\ Keeps(wf, WaitForRetry(wf))
         /\ WaitForRetry(wf).at[1] = "retry"
<1> DEFINE n == wf.used + 1
           blocked == Blocked(wf)
           new == WaitForRetry(wf)
<1>1. /\ wf.used \in 0..MaxRetries /\ n \in 1..MaxRetries /\ n \in 0..MaxRetries
      /\ "in_progress" \in StepStatus /\ "waiting" \in WorkflowStatus
  BY DEF Record, CanRetry, StepStatus, StepTransitions, WorkflowStatus, WorkflowTransitions
<1>2. /\ blocked \in Record
      /\ blocked.used = wf.used /\ blocked.results = wf.results
      /\ \A t \in Step : blocked.steps[t] =
           IF t = ActionStep /\ wf.steps[t] = "in_progress" THEN "blocked" ELSE wf.steps[t]
  BY BlockedFacts
<1>3. new = [blocked EXCEPT !.steps[RetryStep(n)] = IF @ = "none" THEN "in_progress" ELSE @,
                            !.used = n, !.status = "waiting", !.at = RetryStep(n)]
  BY DEF WaitForRetry
<1> HIDE DEF blocked
<1>4. RetryStep(n) \in Step /\ RetryStep(n) \notin {ActionStep, FinishStep}
  BY <1>1, StepFacts
<1>5. /\ new \in Record
      /\ new.status = "waiting" /\ new.at = RetryStep(n) /\ new.used = n
      /\ new.results = wf.results
      /\ \A t \in Step : new.steps[t] = IF t = RetryStep(n) /\ blocked.steps[t] = "none"
                                       THEN "in_progress" ELSE blocked.steps[t]
  <2> DEFINE step == RetryStep(n)
  <2>1. step \in Step
    BY <1>4
  <2>2. new = [blocked EXCEPT !.steps[step] = IF @ = "none" THEN "in_progress" ELSE @,
                              !.used = n, !.status = "waiting", !.at = step]
    BY <1>3
  <2> HIDE DEF new, step, n
  <2>3. /\ new \in Record
        /\ new.status = "waiting" /\ new.at = step /\ new.used = n
        /\ new.results = wf.results
        /\ \A t \in Step : new.steps[t] = IF t = step /\ blocked.steps[t] = "none"
                                         THEN "in_progress" ELSE blocked.steps[t]
    BY <1>1, <1>2, <2>1, <2>2 DEF Record
  <2> QED BY <2>3 DEF step
<1>6. wf.status = "running"
  BY StepFacts DEF Live, CanWait, CanReach, CanTransition, Record, WorkflowTransitions, WorkflowStatus
<1>7. /\ wf.steps[ActionStep] = "in_progress" /\ wf.steps[FinishStep] = "pending"
      /\ wf.steps[RetryStep(n)] = "none"
  BY <1>1, <1>6, StepFacts DEF Live
<1> HIDE DEF new
<1>8. /\ new.steps[ActionStep] = "blocked" /\ new.steps[FinishStep] = "pending"
      /\ new.steps[RetryStep(n)] = "in_progress"
      /\ \A t \in Step \ {ActionStep, RetryStep(n)} : new.steps[t] = wf.steps[t]
  BY <1>2, <1>4, <1>5, <1>7, StepFacts
<1>9. \A m \in 1..MaxRetries : m > new.used => new.steps[RetryStep(m)] = "none"
  <2> SUFFICES ASSUME NEW m \in 1..MaxRetries, m > n
               PROVE  new.steps[RetryStep(m)] = "none"
    BY <1>5
  <2>1. m > wf.used /\ m # n
    BY <1>1
  <2>2. wf.steps[RetryStep(m)] = "none"
    BY <1>6, <2>1 DEF Live
  <2> QED BY <1>1, <1>8, <2>1, <2>2, StepFacts
<1>10. Live(new)
  BY <1>4, <1>5, <1>8, <1>9 DEF Live
<1> HIDE DEF n
<1>11. \A a \in Run : new.steps[ApprovalStep(a)] = wf.steps[ApprovalStep(a)]
  BY <1>1, <1>8, StepFacts
<1> QED BY <1>1, <1>5, <1>10, <1>11, StepFacts DEF Keeps, new

\* A new approval wait, up to the change of the status and with it.
LEMMA InsertedFacts ==
  ASSUME NEW wf \in Record, NEW a \in Run
  PROVE  LET new == ApprovalInserted(wf, a)
         IN /\ new \in Record
            /\ new.status = wf.status /\ new.at = wf.at /\ new.used = wf.used
            /\ new.results = wf.results
            /\ \A t \in Step : new.steps[t] =
                 IF t = ApprovalStep(a)
                 THEN IF wf.steps[t] = "none" THEN "in_progress" ELSE wf.steps[t]
                 ELSE IF t = ActionStep /\ wf.steps[t] = "in_progress" THEN "blocked"
                 ELSE wf.steps[t]
<1> DEFINE blocked == Blocked(wf)
           new == ApprovalInserted(wf, a)
<1>1. /\ blocked \in Record
      /\ blocked.status = wf.status /\ blocked.at = wf.at
      /\ blocked.used = wf.used /\ blocked.results = wf.results
      /\ \A t \in Step : blocked.steps[t] =
           IF t = ActionStep /\ wf.steps[t] = "in_progress" THEN "blocked" ELSE wf.steps[t]
  BY BlockedFacts
<1>2. new = [blocked EXCEPT !.steps[ApprovalStep(a)] = IF @ = "none" THEN "in_progress" ELSE @]
  BY DEF ApprovalInserted
<1> HIDE DEF blocked
<1>3. ApprovalStep(a) \in Step /\ ApprovalStep(a) # ActionStep /\ "in_progress" \in StepStatus
  BY StepFacts DEF StepStatus, StepTransitions
<1>4. /\ new \in Record
      /\ new.status = blocked.status /\ new.at = blocked.at /\ new.used = blocked.used
      /\ new.results = blocked.results
      /\ \A t \in Step : new.steps[t] = IF t = ApprovalStep(a) /\ blocked.steps[t] = "none"
                                       THEN "in_progress" ELSE blocked.steps[t]
  BY <1>1, <1>2, <1>3 DEF Record
<1> HIDE DEF new
<1> QED BY <1>1, <1>3, <1>4 DEF new

LEMMA WaitLive ==
  ASSUME NEW wf \in Record, Live(wf), wf.at = ActionStep, CanWait(wf),
         NEW a \in Run, wf.steps[ApprovalStep(a)] = "none"
  PROVE  LET new == WaitForApproval(wf, a)
         IN /\ new \in Record /\ Live(new)
            /\ new.status = "waiting" /\ new.at = ApprovalStep(a)
            /\ new.results = wf.results
            /\ \A b \in Run \ {a} : new.steps[ApprovalStep(b)] = wf.steps[ApprovalStep(b)]
<1> DEFINE inserted == ApprovalInserted(wf, a)
           new == WaitForApproval(wf, a)
<1>1. /\ inserted \in Record
      /\ inserted.used = wf.used /\ inserted.results = wf.results
      /\ \A t \in Step : inserted.steps[t] =
           IF t = ApprovalStep(a)
           THEN IF wf.steps[t] = "none" THEN "in_progress" ELSE wf.steps[t]
           ELSE IF t = ActionStep /\ wf.steps[t] = "in_progress" THEN "blocked"
           ELSE wf.steps[t]
  BY InsertedFacts
<1>2. new = [inserted EXCEPT !.status = "waiting", !.at = ApprovalStep(a)]
  BY DEF WaitForApproval
<1> HIDE DEF inserted
<1>3. /\ ApprovalStep(a) \in Step /\ ApprovalStep(a) \notin {ActionStep, FinishStep}
      /\ "waiting" \in WorkflowStatus
  BY StepFacts DEF WorkflowStatus, WorkflowTransitions
<1>4. /\ new \in Record
      /\ new.status = "waiting" /\ new.at = ApprovalStep(a) /\ new.used = wf.used
      /\ new.results = wf.results /\ new.steps = inserted.steps
  <2> HIDE DEF new
  <2> QED BY <1>1, <1>2, <1>3 DEF Record
<1> HIDE DEF new
<1>5. wf.status = "running"
  BY StepFacts DEF Live, CanWait, CanReach, CanTransition, Record, WorkflowTransitions, WorkflowStatus
<1>6. wf.steps[ActionStep] = "in_progress" /\ wf.steps[FinishStep] = "pending"
  BY <1>5, StepFacts DEF Live
<1>7. /\ new.steps[ActionStep] = "blocked" /\ new.steps[FinishStep] = "pending"
      /\ new.steps[ApprovalStep(a)] = "in_progress"
      /\ \A t \in Step \ {ActionStep, ApprovalStep(a)} : new.steps[t] = wf.steps[t]
  BY <1>1, <1>3, <1>4, <1>6, StepFacts
<1>8. \A n \in 1..MaxRetries : n > new.used => new.steps[RetryStep(n)] = "none"
  <2> SUFFICES ASSUME NEW n \in 1..MaxRetries, n > wf.used
               PROVE  new.steps[RetryStep(n)] = "none"
    BY <1>4
  <2>1. wf.steps[RetryStep(n)] = "none"
    BY <1>5 DEF Live
  <2>2. RetryStep(n) \in Step \ {ActionStep, ApprovalStep(a)}
    BY StepFacts
  <2> QED BY <1>7, <2>1, <2>2
<1>9. Live(new)
  BY <1>3, <1>4, <1>7, <1>8 DEF Live
<1>10. \A b \in Run \ {a} : new.steps[ApprovalStep(b)] = wf.steps[ApprovalStep(b)]
  BY <1>7, StepFacts
<1> QED BY <1>4, <1>9, <1>10 DEF new

\* The approval step of a workflow that cannot wait.
LEMMA NoWaitLive ==
  ASSUME NEW wf \in Record, Live(wf), wf.at = ActionStep, ~ CanWait(wf), NEW a \in Run
  PROVE  LET new == FailWorkflow(ApprovalInserted(wf, a))
         IN /\ new \in Record /\ Live(new)
            /\ new.status = "failed" /\ new.at = ActionStep
            /\ new.results = wf.results
            /\ \A b \in Run \ {a} : new.steps[ApprovalStep(b)] = "none" <=>
                                     wf.steps[ApprovalStep(b)] = "none"
<1> DEFINE inserted == ApprovalInserted(wf, a)
<1>1. /\ inserted \in Record /\ inserted.status = wf.status /\ inserted.at = wf.at
      /\ inserted.results = wf.results
      /\ \A t \in Step : inserted.steps[t] =
           IF t = ApprovalStep(a)
           THEN IF wf.steps[t] = "none" THEN "in_progress" ELSE wf.steps[t]
           ELSE IF t = ActionStep /\ wf.steps[t] = "in_progress" THEN "blocked"
           ELSE wf.steps[t]
  BY InsertedFacts
<1>2. wf.status = "failed"
  BY StepFacts DEF Live, CanWait, CanReach, CanTransition, Record, WorkflowTransitions, WorkflowStatus
<1>3. \A b \in Run \ {a} : inserted.steps[ApprovalStep(b)] = wf.steps[ApprovalStep(b)]
  BY <1>1, StepFacts
<1> HIDE DEF inserted
<1>4. Live(inserted)
  BY <1>1, <1>2 DEF Live
<1>5. Keeps(inserted, FailWorkflow(inserted)) /\ FailWorkflow(inserted).at = inserted.at
  BY <1>1, <1>4, FailKeeps
<1>6. FailWorkflow(inserted).status = "failed"
  <2> DEFINE set == SetStep(inserted, inserted.at, {"pending", "in_progress", "blocked"}, "failed")
  <2>1. set \in Record /\ set.status = "failed"
    BY <1>1, <1>2, SetStepFacts DEF Record, StepStatus, StepTransitions
  <2>2. FailWorkflow(inserted)
          = [set EXCEPT !.status = IF @ \in {"waiting", "running"} THEN "failed" ELSE @]
    BY DEF FailWorkflow
  <2> HIDE DEF set
  <2> QED BY <2>1, <2>2 DEF Record
<1> QED BY <1>1, <1>3, <1>5, <1>6 DEF Keeps, inserted

\* The finish step, with the result of a run.
LEMMA FinishFacts ==
  ASSUME NEW wf \in Record, Live(wf), wf.at = FinishStep, NEW r \in Run
  PROVE  /\ CanCompleteFinishStep(wf) =>
              LET new == CompleteFinishStep(wf, r)
              IN /\ new \in Record /\ Live(new)
                 /\ new.at = FinishStep /\ new.results = wf.results \cup {r}
                 /\ \A b \in Run : new.steps[ApprovalStep(b)] = wf.steps[ApprovalStep(b)]
         /\ ~ CanCompleteFinishStep(wf) =>
              LET new == FailWorkflow(FinishStepCompleted(wf, r))
              IN /\ new \in Record /\ Live(new)
                 /\ new.at = FinishStep /\ new.results = wf.results \cup {r}
                 /\ \A b \in Run : new.steps[ApprovalStep(b)] = "none" <=>
                                   wf.steps[ApprovalStep(b)] = "none"
<1> DEFINE results == wf.results \cup {r}
           done == FinishStepCompleted(wf, r)
<1>1. /\ results \subseteq Run /\ "completed" \in StepStatus /\ "succeeded" \in WorkflowStatus
      /\ FinishStep \in Step
  BY StepFacts DEF Record, StepStatus, StepTransitions, WorkflowStatus, WorkflowTransitions
<1>2. done = [wf EXCEPT !.results = results,
                        !.steps[FinishStep] = IF @ = "failed" THEN @ ELSE "completed"]
  BY DEF FinishStepCompleted
<1> HIDE DEF results
<1>3. /\ done \in Record
      /\ done.status = wf.status /\ done.at = wf.at /\ done.results = results
      /\ \A t \in Step : done.steps[t] = IF t = FinishStep
                                        THEN IF wf.steps[t] = "failed" THEN "failed" ELSE "completed"
                                        ELSE wf.steps[t]
  <2> HIDE DEF done
  <2> QED BY <1>1, <1>2 DEF Record
<1>4. \A b \in Run : done.steps[ApprovalStep(b)] = wf.steps[ApprovalStep(b)]
  BY <1>3, StepFacts
<1>5. wf.status \in {"running", "succeeded", "failed"}
  BY DEF Live, Record, WorkflowStatus, WorkflowTransitions
<1>6. ASSUME CanCompleteFinishStep(wf)
      PROVE  LET new == CompleteFinishStep(wf, r)
             IN /\ new \in Record /\ Live(new)
                /\ new.at = FinishStep /\ new.results = results
                /\ \A b \in Run : new.steps[ApprovalStep(b)] = wf.steps[ApprovalStep(b)]
  <2> DEFINE new == CompleteFinishStep(wf, r)
  <2>1. new = [done EXCEPT !.status = "succeeded", !.at = FinishStep]
    BY DEF CompleteFinishStep
  <2> HIDE DEF done, new
  <2>2. /\ new \in Record /\ new.status = "succeeded" /\ new.at = FinishStep
        /\ new.steps = done.steps /\ new.results = results
    BY <1>1, <1>3, <2>1 DEF Record
  <2>3. wf.status \in {"running", "succeeded"} /\ wf.steps[FinishStep] # "failed"
    BY <1>5, <1>6 DEF CanCompleteFinishStep, CanReach, CanTransition, WorkflowTransitions
  <2>4. wf.steps[ActionStep] = "completed"
    BY <2>3, StepFacts DEF Live
  <2>5. new.steps[ActionStep] = "completed" /\ new.steps[FinishStep] = "completed"
    BY <1>3, <2>2, <2>3, <2>4, StepFacts
  <2>6. Live(new)
    BY <2>2, <2>5 DEF Live
  <2> QED BY <1>4, <2>2, <2>6 DEF new
<1>7. ASSUME ~ CanCompleteFinishStep(wf)
      PROVE  LET new == FailWorkflow(FinishStepCompleted(wf, r))
             IN /\ new \in Record /\ Live(new)
                /\ new.at = FinishStep /\ new.results = results
                /\ \A b \in Run : new.steps[ApprovalStep(b)] = "none" <=>
                                  wf.steps[ApprovalStep(b)] = "none"
  <2>1. wf.status \in {"succeeded", "failed"}
    <3>1. wf.status = "running" => wf.steps[FinishStep] = "in_progress"
      BY StepFacts DEF Live
    <3> QED BY <1>5, <1>7, <3>1 DEF CanCompleteFinishStep, CanReach, CanTransition, WorkflowTransitions
  <2>2. wf.status = "succeeded" => /\ done.steps[ActionStep] = "completed"
                                   /\ done.steps[FinishStep] = "completed"
    BY <1>3, StepFacts DEF Live
  <2>3. Live(done)
    <3> HIDE DEF done
    <3> QED BY <1>3, <2>1, <2>2 DEF Live
  <2>4. Keeps(done, FailWorkflow(done)) /\ FailWorkflow(done).at = done.at
    BY <1>3, <2>3, FailKeeps
  <2> QED BY <1>3, <1>4, <2>4 DEF Keeps
<1> QED BY <1>6, <1>7 DEF results

-----------------------------------------------------------------------------
(* The inductive invariant *)

Exists(a) == afile[a] # "absent"

\* What a record of workflow w - on disk or the copy of a run - says of approvals
\* and runs, and what it says of itself.  An approval has a step only once the
\* run that asked for it has inserted the step.
Refers(w, wf) ==
  /\ wf.at[1] = "approval" => Exists(wf.at[2]) /\ aflow[wf.at[2]] = w
  /\ wf.status = "succeeded" => wf.results # {}
  /\ \A q \in wf.results : flow[q] = w /\ outcome[q] = "ok"
Inserted(wf) ==
  \A a \in Run : wf.steps[ApprovalStep(a)] # "none" => Exists(a) /\ pc[a] # "requested"
Good(w, wf) == Live(wf) /\ Refers(w, wf) /\ Inserted(wf)

Approvals ==
  /\ \A a \in Run :
       /\ Exists(a) => aflow[a] \in Run /\ wfile[aflow[a]] # None
       /\ afile[a] \in {"approved", "resumed"} => a \in granted
       /\ resumed_by[a] # None =>
            afile[a] = "resumed" /\ flow[resumed_by[a]] = aflow[a]
  /\ \A o \in Operator : deciding[o] # None => Exists(deciding[o][1])

\* A run that has loaded its workflow and not ended
Working == {"attach", "step", "refused", "requested", "mark", "marking", "marked", "call", "called"}

MayCall(r) ==
  /\ Decision[flow[r]] # "denied"
  /\ Decision[flow[r]] = "approval" =>
       approval[r] \in granted /\ aflow[approval[r]] = flow[r]

\* How far a run is, and what it has made sure of by then.
RunOK(r) ==
  /\ pc[r] = "idle" => approval[r] = None
  /\ pc[r] \in {"idle", "open"} => flow[r] = None
  /\ pc[r] = "open" => approval[r] \in Run /\ Exists(approval[r])
  /\ pc[r] \in {"idle", "open", "load", "attach"} => ~ Exists(r)
  /\ pc[r] = "load" => flow[r] \in Run /\ approval[r] # None
  /\ flow[r] # None => wfile[flow[r]] # None
  /\ pc[r] = "requested" /\ Exists(r) => aflow[r] = flow[r]
  /\ pc[r] \in Working => /\ flow[r] \in Run /\ copy[r] # None
                         /\ Good(flow[r], copy[r])
  /\ flow[r] # None /\ approval[r] # None =>
       Exists(approval[r]) /\ aflow[approval[r]] = flow[r]
  /\ seen[r] \in {"approved", "resumed"} => approval[r] \in granted
  /\ pc[r] \in {"refused", "requested", "call", "called"} => copy[r].at = ActionStep
  /\ pc[r] \in {"mark", "marking", "marked"} =>
       /\ approval[r] \in granted
       /\ copy[r].at[1] = "approval" \/ (copy[r].at = ActionStep /\ Decision[flow[r]] # "denied")
  /\ pc[r] = "step" /\ Exists(r) =>
       \/ copy[r].at \in {ApprovalStep(r), FinishStep}
       \/ seen[r] \in {"approved", "resumed"}
  /\ pc[r] = "call" => MayCall(r)
  /\ outcome[r] # None =>
       /\ flow[r] # None /\ MayCall(r)
       /\ pc[r] \in Ended \cup {"step", "called"}
       /\ pc[r] = "step" => copy[r].at = FinishStep

Records == \A w \in Run : wfile[w] # None => Good(w, wfile[w])

IInv ==
  /\ TypeOK /\ Approvals /\ Records
  /\ \A r \in Run : RunOK(r)

LEMMA InitInvariant == Init => IInv
<1> SUFFICES ASSUME Init PROVE IInv
  OBVIOUS
<1>1. TypeOK
  BY DEF Init, TypeOK, ApprovalTransitions, Ended
<1>2. Approvals /\ Records
  BY DEF Init, Approvals, Records, Exists
<1>3. \A r \in Run : RunOK(r)
  BY DEF Init, RunOK, Exists, Working
<1> QED BY <1>1, <1>2, <1>3 DEF IInv

-----------------------------------------------------------------------------
(* What no step undoes *)

Grows ==
  /\ granted \subseteq granted'
  /\ \A a \in Run : Exists(a) => (Exists(a))' /\ aflow'[a] = aflow[a]
  /\ \A w \in Run : wfile[w] # None => wfile'[w] # None
  /\ \A q \in Run : flow[q] # None => flow'[q] = flow[q]
  /\ \A q \in Run : outcome[q] # None => outcome'[q] = outcome[q]
  /\ \A a \in Run : Exists(a) /\ pc[a] # "requested" => pc'[a] # "requested"

LEMMA RefersStays ==
  ASSUME TypeOK, Grows, NEW w \in Run, NEW wf \in Record, Refers(w, wf)
  PROVE  (Refers(w, wf))'
<1>1. wf.at[1] = "approval" => wf.at[2] \in Run
  BY StepFacts DEF Record
<1>2. wf.results \subseteq Run
  BY DEF Record
<1>3. \A q \in wf.results : flow'[q] = w /\ outcome'[q] = "ok"
  BY <1>2, NoneAssumption DEF Refers, Grows, Outcome
<1>4. wf.at[1] = "approval" => (Exists(wf.at[2]))' /\ aflow'[wf.at[2]] = w
  BY <1>1 DEF Refers, Grows
<1> QED BY <1>3, <1>4 DEF Refers

LEMMA InsertedStays ==
  ASSUME Grows, NEW wf \in Record, Inserted(wf)
  PROVE  (Inserted(wf))'
BY DEF Inserted, Grows

LEMMA GoodStays ==
  ASSUME TypeOK, Grows, NEW w \in Run, NEW wf \in Record, Good(w, wf)
  PROVE  (Good(w, wf))'
<1>1. (Refers(w, wf))' /\ (Inserted(wf))'
  BY RefersStays, InsertedStays DEF Good
<1> QED BY <1>1 DEF Good, Live

\* What one operation keeps of a record that was good.
LEMMA KeepsGood ==
  ASSUME NEW w \in Run, NEW wf \in Record, Good(w, wf), NEW new, Keeps(wf, new),
         new.at[1] = "approval" => new.at = wf.at
  PROVE  Good(w, new)
<1>1. Refers(w, new)
  BY DEF Good, Refers, Keeps
<1>2. Inserted(new)
  BY DEF Good, Inserted, Keeps
<1> QED BY <1>1, <1>2 DEF Good, Keeps

\* A step of another run disturbs no run.
LEMMA OthersStay ==
  ASSUME TypeOK, Grows, NEW q \in Run, RunOK(q),
         pc'[q] = pc[q], copy'[q] = copy[q], flow'[q] = flow[q], approval'[q] = approval[q],
         seen'[q] = seen[q], outcome'[q] = outcome[q], Exists(q) \/ ~ (Exists(q))'
  PROVE  (RunOK(q))'
<1>1. pc[q] \in Working => (Good(flow[q], copy[q]))'
  <2> SUFFICES ASSUME pc[q] \in Working
               PROVE  (Good(flow[q], copy[q]))'
    OBVIOUS
  <2>1. flow[q] \in Run /\ copy[q] \in Record /\ Good(flow[q], copy[q])
    BY DEF RunOK, TypeOK
  <2>2. PICK w \in Run, wf \in Record : w = flow[q] /\ wf = copy[q]
    BY <2>1
  <2>3. (Good(w, wf))'
    BY <2>1, <2>2, GoodStays
  <2>4. w = flow'[q] /\ wf = copy'[q]
    BY <2>2
  <2> QED BY <2>3, <2>4
<1>2. MayCall(q) /\ flow[q] # None => (MayCall(q))'
  <2>1. flow[q] \in Run \cup {None} /\ granted \subseteq Run
    BY DEF TypeOK
  <2> QED BY <2>1, NoneAssumption DEF MayCall, Grows, RunOK
<1> QED BY <1>1, <1>2, NoneAssumption DEF RunOK, Grows, TypeOK, Exists, Working, Ended

LEMMA PersistedFacts ==
  ASSUME TypeOK, NEW w \in Run, NEW wf \in Record, Persisted(w, wf)
  PROVE  /\ wfile' \in [Run -> Record \cup {None}]
         /\ wfile'[w] = wf /\ wf # None
         /\ \A v \in Run \ {w} : wfile'[v] = wfile[v]
BY NoneAssumption DEF TypeOK, Persisted, Record

LEMMA ApprovalsStay ==
  ASSUME TypeOK, Approvals, Grows, UNCHANGED <<approvalVars, deciding>>
  PROVE  Approvals'
<1>1. \A a \in Run : resumed_by[a] # None => flow'[resumed_by[a]] = aflow[a]
  BY NoneAssumption DEF TypeOK, Approvals, Grows, Exists
<1> QED BY <1>1, NoneAssumption DEF Approvals, approvalVars, Exists, Grows, TypeOK

\* A step of one run.
LEMMA RunStep ==
  ASSUME IInv, TypeOK', Grows, Approvals', NEW r \in Run, (RunOK(r))',
         \A q \in Run \ {r} :
           /\ pc'[q] = pc[q] /\ copy'[q] = copy[q] /\ flow'[q] = flow[q]
           /\ approval'[q] = approval[q] /\ seen'[q] = seen[q] /\ outcome'[q] = outcome[q]
           /\ Exists(q) \/ ~ (Exists(q))',
         \A w \in Run : wfile'[w] = wfile[w] \/ (Good(w, wfile[w]))'
  PROVE  IInv'
<1>1. ASSUME NEW w \in Run, wfile'[w] # None
      PROVE  (Good(w, wfile[w]))'
  <2> SUFFICES ASSUME wfile'[w] = wfile[w]
               PROVE  (Good(w, wfile[w]))'
    OBVIOUS
  <2>1. PICK wf \in Record : wf = wfile[w]
    BY <1>1 DEF IInv, TypeOK
  <2>2. Good(w, wf)
    BY <1>1, <2>1 DEF IInv, Records
  <2>3. (Good(w, wf))'
    BY <2>2, GoodStays DEF IInv
  <2> QED BY <2>1, <2>3
<1>2. \A q \in Run : (RunOK(q))'
  BY OthersStay DEF IInv
<1> QED BY <1>1, <1>2 DEF IInv, Records

\* The run goes on at label with the copy c, the approval a and the status s it
\* has seen, and these are what RunOK asks of a run at that label.
GoesOn(r, label, c, a, s) ==
  /\ label \in (Ended \cup Working) \ {"idle", "attach"} /\ Goto(r, label)
  /\ c \in Record \cup {None} /\ copy' = [copy EXCEPT ![r] = c]
  /\ a \in Run \cup {None} /\ approval' = [approval EXCEPT ![r] = a]
  /\ s \in DOMAIN ApprovalTransitions /\ seen' = [seen EXCEPT ![r] = s]
  /\ a # None => Exists(a) /\ aflow[a] = flow[r]
  /\ s \in {"approved", "resumed"} => a \in granted
  /\ label \in Working => c # None /\ Good(flow[r], c)
  /\ label = "requested" => ~ Exists(r)
  /\ label \in {"refused", "requested", "call", "called"} => c.at = ActionStep
  /\ label \in {"mark", "marking", "marked"} =>
       /\ a \in granted
       /\ c.at[1] = "approval" \/ (c.at = ActionStep /\ Decision[flow[r]] # "denied")
  /\ label = "step" /\ Exists(r) =>
       c.at \in {ApprovalStep(r), FinishStep} \/ s \in {"approved", "resumed"}
  /\ label = "call" => /\ Decision[flow[r]] # "denied"
                       /\ Decision[flow[r]] = "approval" => a \in granted
  /\ outcome[r] # None => /\ a = approval[r]
                          /\ label \in Ended \cup {"step", "called"}
                          /\ label = "step" => c.at = FinishStep

\* A step that makes no approval, decision or call.
LEMMA LocalStep ==
  ASSUME IInv, NEW r \in Run, pc[r] \in Working,
         UNCHANGED <<approvalVars, source, flow, outcome, deciding>>, steps' \in [Run -> Nat],
         \/ UNCHANGED wfile
         \/ \E new \in Record : Persisted(flow[r], new) /\ Good(flow[r], new),
         NEW label, NEW c, NEW a, NEW s, GoesOn(r, label, c, a, s)
  PROVE  IInv'
<1> USE DEF GoesOn
<1>1. /\ TypeOK /\ Approvals /\ RunOK(r)
      /\ flow[r] \in Run
  BY DEF IInv, RunOK
<1>2. \/ UNCHANGED wfile
      \/ /\ wfile' \in [Run -> Record \cup {None}]
         /\ wfile'[flow[r]] \in Record /\ wfile'[flow[r]] # None /\ Good(flow[r], wfile'[flow[r]])
         /\ \A v \in Run \ {flow[r]} : wfile'[v] = wfile[v]
  <2> SUFFICES ASSUME NEW new \in Record, Persisted(flow[r], new), Good(flow[r], new)
               PROVE  /\ wfile' \in [Run -> Record \cup {None}]
                      /\ wfile'[flow[r]] \in Record /\ wfile'[flow[r]] # None
                      /\ Good(flow[r], wfile'[flow[r]])
                      /\ \A v \in Run \ {flow[r]} : wfile'[v] = wfile[v]
    OBVIOUS
  <2> QED BY <1>1, PersistedFacts
<1>3. TypeOK'
  BY <1>1, <1>2 DEF TypeOK, approvalVars, Goto, Working, Busy
<1>4. /\ pc'[r] = label /\ copy'[r] = c /\ approval'[r] = a /\ seen'[r] = s
      /\ \A q \in Run \ {r} :
           /\ pc'[q] = pc[q] /\ copy'[q] = copy[q] /\ flow'[q] = flow[q]
           /\ approval'[q] = approval[q] /\ seen'[q] = seen[q] /\ outcome'[q] = outcome[q]
           /\ Exists(q) \/ ~ (Exists(q))'
  BY <1>1 DEF TypeOK, Goto, approvalVars, Exists
<1>5. Grows
  BY <1>1, <1>2, <1>4 DEF Grows, approvalVars, Exists
<1>6. Approvals'
  BY <1>1, <1>5, ApprovalsStay
<1>8. ASSUME NEW w \in Run
      PROVE  wfile'[w] = wfile[w] \/ (Good(w, wfile[w]))'
  <2> SUFFICES ASSUME wfile'[w] # wfile[w]
               PROVE  (Good(w, wfile[w]))'
    OBVIOUS
  <2>1. w = flow[r] /\ wfile'[w] \in Record /\ Good(w, wfile'[w])
    BY <1>2
  <2>2. PICK wf \in Record : wf = wfile'[w]
    BY <2>1
  <2>3. (Good(w, wf))'
    BY <1>1, <1>5, <2>1, <2>2, GoodStays
  <2> QED BY <2>2, <2>3
<1>9. label \in Working => (Good(flow[r], copy[r]))'
  <2> SUFFICES ASSUME label \in Working
               PROVE  (Good(flow[r], copy[r]))'
    OBVIOUS
  <2>1. PICK w \in Run : w = flow[r]
    BY <1>1
  <2>2. c \in Record /\ Good(w, c)
    BY <2>1
  <2>3. (Good(w, c))'
    BY <1>1, <1>5, <2>2, GoodStays
  <2> QED BY <1>4, <2>1, <2>3
<1>10. (RunOK(r))'
  <2>1. outcome[r] # None \/ label = "call" => (MayCall(r))'
    BY <1>1, <1>4, NoneAssumption DEF RunOK, MayCall, approvalVars, TypeOK
  <2>2. label \notin {"idle", "open", "load", "attach"}
    BY DEF Working, Ended
  <2>3. label \in Working => flow'[r] \in Run /\ c # None
    BY <1>1
  <2>4. flow'[r] # None /\ a # None => (Exists(a))' /\ aflow'[a] = flow'[r]
    BY DEF Exists, approvalVars
  <2>5. s \in {"approved", "resumed"} => a \in granted'
    BY DEF approvalVars
  <2>6. label \in {"mark", "marking", "marked"} =>
          /\ a \in granted'
          /\ c.at[1] = "approval" \/ (c.at = ActionStep /\ Decision[flow'[r]] # "denied")
    BY DEF approvalVars
  <2>7. label = "step" /\ (Exists(r))' =>
          c.at \in {ApprovalStep(r), FinishStep} \/ s \in {"approved", "resumed"}
    BY DEF Exists, approvalVars
  <2>8. outcome'[r] # None => /\ flow'[r] # None
                              /\ label \in Ended \cup {"step", "called"}
                              /\ label = "step" => c.at = FinishStep
    BY <1>1, NoneAssumption
  <2>9. wfile'[flow'[r]] # None /\ (label = "requested" => ~ (Exists(r))')
    BY <1>1, <1>5, NoneAssumption DEF RunOK, Grows, approvalVars, Exists
  <2> QED BY <1>4, <1>9, <2>1, <2>2, <2>3, <2>4, <2>5, <2>6, <2>7, <2>8, <2>9 DEF RunOK
<1> QED BY <1>3, <1>4, <1>5, <1>6, <1>8, <1>10, RunStep

LEMMA WorkingFacts ==
  ASSUME IInv, NEW r \in Run, pc[r] \in Working
  PROVE  /\ flow[r] \in Run /\ copy[r] \in Record /\ copy[r] # None
         /\ Good(flow[r], copy[r]) /\ Live(copy[r])
         /\ approval[r] \in Run \cup {None} /\ seen[r] \in DOMAIN ApprovalTransitions
         /\ approval[r] # None => Exists(approval[r]) /\ aflow[approval[r]] = flow[r]
         /\ seen[r] \in {"approved", "resumed"} => approval[r] \in granted
         /\ approval = [approval EXCEPT ![r] = approval[r]]
         /\ seen = [seen EXCEPT ![r] = seen[r]]
         /\ copy = [copy EXCEPT ![r] = copy[r]]
         /\ steps \in [Run -> Nat]
BY NoneAssumption DEF IInv, RunOK, TypeOK, Good

\* The run ends, with an approval it has read or the one it had.
LEMMA LocalEnd ==
  ASSUME IInv, NEW r \in Run, pc[r] \in Working, Ends(r),
         UNCHANGED <<approvalVars, source, flow, steps, outcome, deciding>>,
         NEW a \in Run \cup {None}, approval' = [approval EXCEPT ![r] = a],
         NEW s \in DOMAIN ApprovalTransitions, seen' = [seen EXCEPT ![r] = s],
         a # None => Exists(a) /\ aflow[a] = flow[r],
         s \in {"approved", "resumed"} => a \in granted,
         outcome[r] # None => a = approval[r],
         \/ UNCHANGED wfile
         \/ \E new \in Record : Persisted(flow[r], new) /\ Good(flow[r], new)
  PROVE  IInv'
<1> DEFINE label == "done"
           c == None
<1>1. /\ label \in (Ended \cup Working) \ {"idle", "attach"} /\ label \notin Working
      /\ label \in Ended
  BY DEF Ended, Working
<1>2. /\ copy' = [copy EXCEPT ![r] = c] /\ Goto(r, label) /\ c \in Record \cup {None}
      /\ steps' \in [Run -> Nat]
      /\ UNCHANGED <<approvalVars, source, flow, outcome, deciding>>
  BY WorkingFacts DEF Ends
<1>3. label \notin {"refused", "requested", "call", "called", "mark", "marking", "marked", "step"}
  OBVIOUS
<1> HIDE DEF label, c
<1>4. GoesOn(r, label, c, a, s)
  BY <1>1, <1>2, <1>3 DEF GoesOn
<1> QED BY <1>2, <1>4, LocalStep

LEMMA EndStep ==
  ASSUME IInv, NEW r \in Run, pc[r] \in Working, Ends(r),
         UNCHANGED <<approvalVars, runVars, deciding>>,
         \/ UNCHANGED wfile
         \/ \E new \in Record : Persisted(flow[r], new) /\ Good(flow[r], new)
  PROVE  IInv'
<1>1. /\ approval[r] \in Run \cup {None} /\ seen[r] \in DOMAIN ApprovalTransitions
      /\ approval[r] # None => Exists(approval[r]) /\ aflow[approval[r]] = flow[r]
      /\ seen[r] \in {"approved", "resumed"} => approval[r] \in granted
      /\ approval' = [approval EXCEPT ![r] = approval[r]]
      /\ seen' = [seen EXCEPT ![r] = seen[r]]
  BY WorkingFacts DEF runVars
<1>2. UNCHANGED <<approvalVars, source, flow, steps, outcome, deciding>>
  BY DEF runVars
<1> QED BY <1>1, <1>2, LocalEnd

LEMMA FailsStep ==
  ASSUME IInv, NEW r \in Run, pc[r] \in Working, Fails(r, copy[r]),
         UNCHANGED <<approvalVars, runVars, deciding>>
  PROVE  IInv'
<1>1. Keeps(copy[r], FailWorkflow(copy[r])) /\ FailWorkflow(copy[r]).at = copy[r].at
  BY WorkingFacts, FailKeeps
<1>2. FailWorkflow(copy[r]) \in Record /\ Good(flow[r], FailWorkflow(copy[r]))
  BY <1>1, WorkingFacts, KeepsGood DEF Keeps
<1> QED BY <1>2, EndStep DEF Fails

\* The run goes on with a new record, on disk or not.
LEMMA GoOnStep ==
  ASSUME IInv, NEW r \in Run, pc[r] \in Working,
         UNCHANGED <<approvalVars, source, flow, approval, seen, outcome, deciding>>,
         steps' \in [Run -> Nat],
         NEW c \in Record, copy' = [copy EXCEPT ![r] = c], Good(flow[r], c),
         UNCHANGED wfile \/ Persisted(flow[r], c),
         NEW label \in Working \ {"attach"}, Goto(r, label),
         label = "requested" => ~ Exists(r),
         label \in {"refused", "requested", "call", "called"} => c.at = ActionStep,
         label \in {"mark", "marking", "marked"} =>
           /\ approval[r] \in granted
           /\ c.at[1] = "approval" \/ (c.at = ActionStep /\ Decision[flow[r]] # "denied"),
         label = "step" /\ Exists(r) =>
           c.at \in {ApprovalStep(r), FinishStep} \/ seen[r] \in {"approved", "resumed"},
         label = "call" => /\ Decision[flow[r]] # "denied"
                           /\ Decision[flow[r]] = "approval" => approval[r] \in granted,
         outcome[r] # None => label = "step" /\ c.at = FinishStep
  PROVE  IInv'
<1>1. label \in (Ended \cup Working) \ {"idle", "attach"}
  BY DEF Ended, Working
<1>2. /\ approval' = [approval EXCEPT ![r] = approval[r]]
      /\ seen' = [seen EXCEPT ![r] = seen[r]]
      /\ UNCHANGED <<approvalVars, source, flow, outcome, deciding>>
      /\ c # None
  BY WorkingFacts, NoneAssumption
<1>3. \/ UNCHANGED wfile
      \/ \E new \in Record : Persisted(flow[r], new) /\ Good(flow[r], new)
  OBVIOUS
<1>4. /\ approval[r] \in Run \cup {None} /\ seen[r] \in DOMAIN ApprovalTransitions
      /\ approval[r] # None => Exists(approval[r]) /\ aflow[approval[r]] = flow[r]
      /\ seen[r] \in {"approved", "resumed"} => approval[r] \in granted
  BY WorkingFacts
<1>5. GoesOn(r, label, c, approval[r], seen[r])
  BY <1>1, <1>2, <1>4 DEF GoesOn
<1> QED BY <1>2, <1>3, <1>5, LocalStep

-----------------------------------------------------------------------------
(* One lemma for each action *)

LEMMA AttachRunInv == ASSUME IInv, NEW r \in Run, AttachRun(r) PROVE IInv'
<1>1. pc[r] \in Working /\ ~ Exists(r) /\ outcome[r] = None
  BY DEF AttachRun, Working, IInv, RunOK, Ended
<1> QED BY <1>1, WorkingFacts, GoOnStep DEF AttachRun, Persist, runVars, Working

LEMMA RetryNotDueInv == ASSUME IInv, NEW r \in Run, RetryNotDue(r) PROVE IInv'
BY EndStep DEF RetryNotDue, At, Working

\* What a wait step that is left makes of the copy.
LEMMA WaitLeft ==
  ASSUME IInv, NEW r \in Run, pc[r] = "step", copy[r].at[1] \in {"retry", "approval"}
  PROVE  LET c == Resumed(copy[r], copy[r].at)
         IN c \in Record /\ Good(flow[r], c) /\ c.at = ActionStep
<1>1. copy[r].at \notin {ActionStep, FinishStep}
  BY StepFacts
<1>2. /\ copy[r] \in Record /\ flow[r] \in Run /\ Live(copy[r]) /\ Good(flow[r], copy[r])
  BY WorkingFacts DEF Working
<1>3. Keeps(copy[r], Resumed(copy[r], copy[r].at)) /\ Resumed(copy[r], copy[r].at).at = ActionStep
  BY <1>1, <1>2, ResumedKeeps
<1> QED BY <1>2, <1>3, KeepsGood, StepFacts DEF Keeps

LEMMA RetryDueInv == ASSUME IInv, NEW r \in Run, RetryDue(r) PROVE IInv'
<1> DEFINE c == Resumed(copy[r], copy[r].at)
<1>1. c \in Record /\ Good(flow[r], c) /\ c.at = ActionStep
  BY WaitLeft DEF RetryDue, At
<1>2. /\ pc[r] = "step" /\ pc[r] \in Working /\ Goto(r, "step")
      /\ Persisted(flow[r], c) /\ copy' = [copy EXCEPT ![r] = c]
  BY DEF RetryDue, At, Persist, Working, Goto, IInv, TypeOK
<1>3. copy[r].at \notin {ApprovalStep(r), FinishStep}
  BY StepFacts DEF RetryDue, At
<1>4. /\ Exists(r) => seen[r] \in {"approved", "resumed"}
      /\ outcome[r] = None
  BY <1>2, <1>3 DEF IInv, RunOK
<1> HIDE DEF c
<1> QED BY <1>1, <1>2, <1>4, WorkingFacts, GoOnStep DEF RetryDue, runVars, Working

LEMMA MarkCheckInv == ASSUME IInv, NEW r \in Run, MarkCheck(r) PROVE IInv'
<1>1. pc[r] = "mark" /\ pc[r] \in Working
  BY DEF MarkCheck, Working
<1>2. CASE "resumed" \in ApprovalTransitions[afile[approval[r]]]
  <2>1. Goto(r, "marking") /\ UNCHANGED <<wfile, copy, approvalVars, runVars, deciding>>
    BY <1>2 DEF MarkCheck
  <2>2. /\ approval[r] \in granted
        /\ copy[r].at[1] = "approval" \/ (copy[r].at = ActionStep /\ Decision[flow[r]] # "denied")
        /\ outcome[r] = None
    BY <1>1 DEF IInv, RunOK, Ended
  <2> QED BY <1>1, <2>1, <2>2, WorkingFacts, GoOnStep DEF runVars, Working
<1>3. CASE "resumed" \notin ApprovalTransitions[afile[approval[r]]]
  BY <1>1, <1>3, FailsStep DEF MarkCheck
<1> QED BY <1>2, <1>3

LEMMA RefusedInv == ASSUME IInv, NEW r \in Run, Refused(r) PROVE IInv'
BY FailsStep DEF Refused, Working

LEMMA StepsExceededInv == ASSUME IInv, NEW r \in Run, StepsExceeded(r) PROVE IInv'
BY FailsStep DEF StepsExceeded, At, Working

LEMMA ActionFailsInv == ASSUME IInv, NEW r \in Run, ActionFails(r) PROVE IInv'
BY FailsStep DEF ActionFails, Working

LEMMA BeginActionInv == ASSUME IInv, NEW r \in Run, BeginAction(r) PROVE IInv'
<1>1. /\ pc[r] = "step" /\ pc[r] \in Working /\ copy[r].at = ActionStep
      /\ copy[r] \in Record /\ flow[r] \in Run
  BY WorkingFacts, StepFacts DEF BeginAction, At, Working, Record
<1>2. /\ Goto(r, Verdict(r)) /\ Persisted(flow[r], copy[r]) /\ copy' = [copy EXCEPT ![r] = copy[r]]
      /\ steps' \in [Run -> Nat]
      /\ UNCHANGED <<approvalVars, source, flow, approval, seen, outcome, deciding>>
  BY DEF BeginAction, Persist, IInv, TypeOK
<1>3. outcome[r] = None /\ (Exists(r) => seen[r] \in {"approved", "resumed"})
  BY <1>1, StepFacts DEF IInv, RunOK
<1>4. seen[r] \in {"approved", "resumed"} => approval[r] \in granted /\ approval[r] # None
  BY <1>1, WorkingFacts, NoneAssumption DEF IInv, TypeOK
<1>5. Decision[flow[r]] \in {"allowed", "approval", "denied"}
  BY <1>1
<1>6. /\ Verdict(r) \in {"refused", "requested", "mark", "call"}
      /\ Verdict(r) = "requested" => ~ Exists(r)
      /\ Verdict(r) = "mark" => approval[r] \in granted /\ Decision[flow[r]] # "denied"
      /\ Verdict(r) = "call" => /\ Decision[flow[r]] # "denied"
                                /\ Decision[flow[r]] = "approval" => approval[r] \in granted
  BY <1>3, <1>4, <1>5 DEF Verdict, ApprovedActionMatchesRequest
<1>7. PICK label \in {"refused", "requested", "mark", "call"} : label = Verdict(r)
  BY <1>6
<1> QED BY <1>1, <1>2, <1>3, <1>6, <1>7, WorkingFacts, GoOnStep DEF Working

LEMMA ReadDecisionInv == ASSUME IInv, NEW r \in Run, ReadDecision(r) PROVE IInv'
<1> DEFINE a == copy[r].at[2]
<1>1. /\ pc[r] = "step" /\ pc[r] \in Working /\ copy[r].at[1] = "approval"
      /\ copy[r] \in Record /\ flow[r] \in Run /\ Live(copy[r]) /\ Good(flow[r], copy[r])
  BY WorkingFacts DEF ReadDecision, At, Working
<1>2. a \in Run /\ copy[r].at = ApprovalStep(a) /\ copy[r].at \notin {ActionStep, FinishStep}
  BY <1>1, StepFacts DEF Record
<1>3. Exists(a) /\ aflow[a] = flow[r] /\ afile[a] \in DOMAIN ApprovalTransitions
  BY <1>1, <1>2 DEF Good, Refers, IInv, TypeOK
<1>4. afile[a] \in {"approved", "resumed"} => a \in granted
  BY <1>2 DEF IInv, Approvals
<1>5. /\ approval' = [approval EXCEPT ![r] = a] /\ seen' = [seen EXCEPT ![r] = afile[a]]
      /\ steps' \in [Run -> Nat]
      /\ UNCHANGED <<approvalVars, source, flow, steps, outcome, deciding>>
  BY DEF ReadDecision, IInv, TypeOK
<1>6. outcome[r] = None
  BY <1>1, <1>2 DEF IInv, RunOK
<1>7. /\ "done" \in (Ended \cup Working) \ {"idle", "attach"} /\ "done" \notin Working
      /\ "mark" \in (Ended \cup Working) \ {"idle", "attach"}
      /\ "step" \in (Ended \cup Working) \ {"idle", "attach"}
  BY DEF Ended, Working
<1>8. CASE afile[a] = "pending"
  <2>1. Ends(r) /\ UNCHANGED wfile
    BY <1>8 DEF ReadDecision
  <2> HIDE DEF a
  <2> QED BY <1>1, <1>2, <1>3, <1>4, <1>5, <1>6, <2>1, LocalEnd
<1>9. CASE afile[a] = "approved"
  <2>1. Goto(r, "mark") /\ UNCHANGED wfile /\ copy' = [copy EXCEPT ![r] = copy[r]]
    BY <1>1, <1>9, WorkingFacts DEF ReadDecision
  <2>2. copy[r] # None
    BY <1>1, WorkingFacts
  <2> HIDE DEF a
  <2>3. GoesOn(r, "mark", copy[r], a, afile[a])
    BY <1>1, <1>2, <1>3, <1>4, <1>5, <1>6, <1>7, <1>9, <2>1, <2>2 DEF GoesOn
  <2> QED BY <1>1, <1>5, <2>1, <2>3, LocalStep
<1>10. CASE afile[a] = "resumed"
  <2> DEFINE c == Resumed(copy[r], copy[r].at)
  <2>1. /\ Goto(r, "step") /\ Persisted(flow[r], c) /\ copy' = [copy EXCEPT ![r] = c]
    BY <1>1, <1>10 DEF ReadDecision, Persist, Goto, IInv, TypeOK
  <2>2. c \in Record /\ Good(flow[r], c) /\ c # None
    BY <1>1, WaitLeft, NoneAssumption
  <2>3. \E new \in Record : Persisted(flow[r], new) /\ Good(flow[r], new)
    BY <2>1, <2>2
  <2> DEFINE s == afile[a]
             label == "step"
  <2>4. /\ s \in {"approved", "resumed"} /\ Goto(r, label)
        /\ label \in (Ended \cup Working) \ {"idle", "attach"}
        /\ label \notin {"refused", "requested", "call", "called", "mark", "marking", "marked"}
    BY <1>7, <1>10, <2>1
  <2> HIDE DEF a, c, label
  <2>5. GoesOn(r, label, c, a, s)
    BY <1>1, <1>2, <1>3, <1>4, <1>5, <1>6, <2>1, <2>2, <2>4 DEF GoesOn
  <2> HIDE DEF s
  <2> QED BY <1>1, <1>5, <2>3, <2>5, LocalStep
<1>11. CASE afile[a] \notin {"pending", "approved", "resumed"}
  <2> DEFINE new == FailWorkflow(copy[r])
  <2>1. Persisted(flow[r], new) /\ Ends(r)
    BY <1>11 DEF ReadDecision, Fails
  <2>2. Keeps(copy[r], new) /\ new.at = copy[r].at
    BY <1>1, FailKeeps
  <2>3. new \in Record /\ Good(flow[r], new)
    BY <1>1, <2>2, KeepsGood DEF Keeps
  <2> HIDE DEF a, new
  <2> QED BY <1>1, <1>2, <1>3, <1>4, <1>5, <1>6, <2>1, <2>3, LocalEnd
<1> QED BY <1>8, <1>9, <1>10, <1>11

LEMMA ActionSucceedsInv == ASSUME IInv, NEW r \in Run, ActionSucceeds(r) PROVE IInv'
<1>1. /\ pc[r] = "called" /\ pc[r] \in Working /\ copy[r].at = ActionStep
      /\ copy[r] \in Record /\ flow[r] \in Run /\ Live(copy[r]) /\ Good(flow[r], copy[r])
  BY WorkingFacts DEF ActionSucceeds, Working, IInv, RunOK
<1>2. CASE CanMarkActionCompleted(copy[r])
  <2> DEFINE c == MarkActionCompleted(copy[r])
  <2>1. Keeps(copy[r], c) /\ c.at = FinishStep
    BY <1>1, CompletedKeeps
  <2>2. c \in Record /\ Good(flow[r], c)
    BY <1>1, <2>1, StepFacts, KeepsGood DEF Keeps
  <2>3. Goto(r, "step") /\ Persisted(flow[r], c) /\ copy' = [copy EXCEPT ![r] = c]
    BY <1>2 DEF ActionSucceeds, Persist
  <2> HIDE DEF c
  <2> QED BY <1>1, <2>1, <2>2, <2>3, WorkingFacts, GoOnStep DEF ActionSucceeds, runVars, Working
<1>3. CASE ~ CanMarkActionCompleted(copy[r])
  BY <1>1, <1>3, FailsStep DEF ActionSucceeds
<1> QED BY <1>2, <1>3

LEMMA ActionRetriedInv == ASSUME IInv, NEW r \in Run, ActionRetried(r) PROVE IInv'
<1>1. /\ pc[r] = "called" /\ pc[r] \in Working /\ copy[r].at = ActionStep /\ CanRetry(copy[r])
      /\ copy[r] \in Record /\ flow[r] \in Run /\ Live(copy[r]) /\ Good(flow[r], copy[r])
  BY WorkingFacts DEF ActionRetried, CanScheduleRetry, Working, IInv, RunOK
<1>2. CASE CanWait(copy[r])
  <2> DEFINE new == WaitForRetry(copy[r])
  <2>1. Keeps(copy[r], new) /\ new.at[1] = "retry"
    BY <1>1, <1>2, RetryKeeps
  <2>2. new \in Record /\ Good(flow[r], new)
    BY <1>1, <2>1, KeepsGood DEF Keeps
  <2>3. Persisted(flow[r], new)
    BY <1>2 DEF ActionRetried
  <2> HIDE DEF new
  <2> QED BY <1>1, <2>2, <2>3, EndStep DEF ActionRetried
<1>3. CASE ~ CanWait(copy[r])
  BY <1>1, <1>3, EndStep DEF ActionRetried
<1> QED BY <1>2, <1>3

LEMMA FinishInv == ASSUME IInv, NEW r \in Run, Finish(r) PROVE IInv'
<1>1. /\ pc[r] = "step" /\ pc[r] \in Working /\ copy[r].at = FinishStep
      /\ copy[r] \in Record /\ flow[r] \in Run /\ Live(copy[r]) /\ Good(flow[r], copy[r])
  BY WorkingFacts, StepFacts DEF Finish, At, Working, Record
<1>2. CASE ~ HasResult(r)
  BY <1>1, <1>2, FailsStep DEF Finish
<1>3. CASE HasResult(r)
  <2>1. /\ Ends(r) /\ UNCHANGED <<approvalVars, runVars, deciding>>
        /\ \E new \in Record :
             /\ Persisted(flow[r], new)
             /\ Live(new) /\ new.at = FinishStep /\ new.results = copy[r].results \cup {r}
             /\ \A b \in Run : new.steps[ApprovalStep(b)] = "none" <=>
                               copy[r].steps[ApprovalStep(b)] = "none"
    BY <1>1, <1>3, FinishFacts DEF Finish, Fails
  <2>2. PICK new \in Record :
             /\ Persisted(flow[r], new)
             /\ Live(new) /\ new.at = FinishStep /\ new.results = copy[r].results \cup {r}
             /\ \A b \in Run : new.steps[ApprovalStep(b)] = "none" <=>
                               copy[r].steps[ApprovalStep(b)] = "none"
    BY <2>1
  <2>3. Good(flow[r], new)
    BY <1>1, <1>3, <2>2, StepFacts DEF Good, Refers, Inserted, HasResult
  <2> QED BY <1>1, <2>1, <2>2, <2>3, EndStep
<1> QED BY <1>2, <1>3

LEMMA CallActionInv ==
  ASSUME IInv, NEW r \in Run, NEW o \in Outcome, CallAction(r, o)
  PROVE  IInv'
<1>1. /\ pc[r] = "call" /\ pc[r] \in Working /\ copy[r].at = ActionStep
      /\ outcome[r] = None /\ MayCall(r) /\ TypeOK /\ Approvals
  BY DEF CallAction, Working, Ended, IInv, RunOK
<1>2. /\ pc' = [pc EXCEPT ![r] = "called"] /\ outcome' = [outcome EXCEPT ![r] = o]
      /\ UNCHANGED <<wfile, approvalVars, source, flow, approval, seen, steps, copy, deciding>>
  BY DEF CallAction, Goto
<1>3. TypeOK'
  BY <1>1, <1>2 DEF TypeOK, approvalVars, Busy
<1>4. Grows
  BY <1>1, <1>2 DEF Grows, TypeOK, approvalVars, Exists
<1>5. Approvals'
  BY <1>1, <1>2, <1>4, ApprovalsStay
<1>7. /\ pc'[r] = "called" /\ outcome'[r] = o
      /\ \A q \in Run \ {r} :
           /\ pc'[q] = pc[q] /\ copy'[q] = copy[q] /\ flow'[q] = flow[q]
           /\ approval'[q] = approval[q] /\ seen'[q] = seen[q] /\ outcome'[q] = outcome[q]
           /\ Exists(q) \/ ~ (Exists(q))'
      /\ \A w \in Run : wfile'[w] = wfile[w]
  BY <1>1, <1>2 DEF TypeOK, approvalVars, Exists
<1>8. (Good(flow[r], copy[r]))'
  <2>1. PICK w \in Run, wf \in Record : w = flow[r] /\ wf = copy[r]
    BY <1>1, WorkingFacts
  <2>2. (Good(w, wf))'
    BY <1>1, <1>4, <2>1, WorkingFacts, GoodStays
  <2> QED BY <1>2, <2>1, <2>2
<1>9. (RunOK(r))'
  BY <1>1, <1>2, <1>7, <1>8, NoneAssumption
     DEF IInv, RunOK, MayCall, Exists, approvalVars, Working, Ended
<1> QED BY <1>3, <1>4, <1>5, <1>7, <1>9, RunStep

\* The two writes of mark_approval_resumed
LEMMA MarkStep ==
  ASSUME IInv, NEW r \in Run, pc[r] \in {"marking", "marked"},
         UNCHANGED <<wfile, aflow, granted, source, flow, approval, steps, outcome, copy, deciding>>,
         afile' = [afile EXCEPT ![approval[r]] = "resumed"],
         NEW by \in {None, r}, resumed_by' = [resumed_by EXCEPT ![approval[r]] = by],
         NEW label \in {"marked", "step", "call"}, Goto(r, label),
         label = "marked" => UNCHANGED seen,
         label # "marked" => /\ seen' = [seen EXCEPT ![r] = "resumed"]
                             /\ label = IF copy[r].at[1] = "approval" THEN "step" ELSE "call"
  PROVE  IInv'
<1>1. /\ pc[r] \in Working /\ TypeOK /\ Approvals
      /\ approval[r] \in granted /\ approval[r] \in Run
      /\ copy[r].at[1] = "approval" \/ (copy[r].at = ActionStep /\ Decision[flow[r]] # "denied")
      /\ flow[r] \in Run /\ Exists(approval[r]) /\ aflow[approval[r]] = flow[r]
      /\ outcome[r] = None
  <2>1. /\ TypeOK /\ Approvals /\ RunOK(r) /\ pc[r] \in Working
    BY DEF IInv, Working
  <2>2. /\ approval[r] \in granted
        /\ copy[r].at[1] = "approval" \/ (copy[r].at = ActionStep /\ Decision[flow[r]] # "denied")
        /\ flow[r] \in Run
    BY <2>1 DEF RunOK
  <2>3. approval[r] \in Run /\ approval[r] # None /\ flow[r] # None
    BY <2>1, <2>2, NoneAssumption DEF TypeOK
  <2>4. Exists(approval[r]) /\ aflow[approval[r]] = flow[r] /\ outcome[r] = None
    BY <2>1, <2>3 DEF RunOK, Ended
  <2> QED BY <2>1, <2>2, <2>3, <2>4
<1>2. TypeOK'
  <2>1. /\ seen' \in [Run -> DOMAIN ApprovalTransitions] /\ afile' \in [Run -> DOMAIN ApprovalTransitions]
    BY <1>1 DEF TypeOK, ApprovalTransitions
  <2>2. pc' \in [Run -> Ended \cup Busy] /\ resumed_by' \in [Run -> Run \cup {None}]
    BY <1>1 DEF TypeOK, Goto, Busy
  <2> QED BY <1>1, <2>1, <2>2 DEF TypeOK
<1>3. Grows
  BY <1>1 DEF Grows, TypeOK, Exists, Goto
<1>4. Approvals'
  <2>1. ASSUME NEW a \in Run
        PROVE  /\ afile'[a] # "absent" => aflow'[a] \in Run /\ wfile'[aflow'[a]] # None
               /\ afile'[a] \in {"approved", "resumed"} => a \in granted'
    BY <1>1 DEF Approvals, TypeOK, Exists
  <2>2. ASSUME NEW a \in Run, resumed_by'[a] # None
        PROVE  afile'[a] = "resumed" /\ flow'[resumed_by'[a]] = aflow'[a]
    <3>1. CASE a = approval[r]
      BY <1>1, <2>2, <3>1 DEF TypeOK
    <3>2. CASE a # approval[r]
      BY <1>1, <2>2, <3>2 DEF Approvals, TypeOK
    <3> QED BY <3>1, <3>2
  <2>3. \A o \in Operator : deciding'[o] # None => (Exists(deciding[o][1]))'
    BY <1>1, NoneAssumption DEF Approvals, TypeOK, Exists
  <2> QED BY <2>1, <2>2, <2>3 DEF Approvals, Exists
<1>6. /\ pc'[r] = label /\ seen'[r] = IF label = "marked" THEN seen[r] ELSE "resumed"
      /\ \A q \in Run \ {r} :
           /\ pc'[q] = pc[q] /\ copy'[q] = copy[q] /\ flow'[q] = flow[q]
           /\ approval'[q] = approval[q] /\ seen'[q] = seen[q] /\ outcome'[q] = outcome[q]
      /\ \A q \in Run : Exists(q) \/ ~ (Exists(q))'
      /\ \A w \in Run : wfile'[w] = wfile[w]
  BY <1>1 DEF TypeOK, Exists, Goto
<1>7. (Good(flow[r], copy[r]))'
  <2>1. PICK w \in Run, wf \in Record : w = flow[r] /\ wf = copy[r]
    BY <1>1, WorkingFacts
  <2>2. (Good(w, wf))'
    BY <1>1, <1>3, <2>1, WorkingFacts, GoodStays
  <2> QED BY <2>1, <2>2
<1>8. (RunOK(r))'
  <2>1. copy[r] # None /\ (Exists(approval[r]))'
    BY <1>1, WorkingFacts DEF Exists, TypeOK
  <2>2. label = "call" => (MayCall(r))'
    BY <1>1, <1>6, StepFacts DEF MayCall
  <2>3. seen'[r] \in {"approved", "resumed"} => approval[r] \in granted
    BY <1>1
  <2>4. label = "call" => copy[r].at = ActionStep
    BY <1>1
  <2>5. wfile'[flow'[r]] # None
    BY <1>1, NoneAssumption DEF IInv, RunOK
  <2> QED BY <1>1, <1>6, <1>7, <2>1, <2>2, <2>3, <2>4, <2>5 DEF RunOK, Working
<1> QED BY <1>2, <1>3, <1>4, <1>6, <1>8, RunStep

LEMMA MarkResumedInv == ASSUME IInv, NEW r \in Run, MarkResumed(r) PROVE IInv'
BY MarkStep DEF MarkResumed, runVars

LEMMA MarkRunInv == ASSUME IInv, NEW r \in Run, MarkRun(r) PROVE IInv'
<1> DEFINE label == IF copy[r].at[1] = "approval" THEN "step" ELSE "call"
<1>1. label \in {"marked", "step", "call"} /\ label # "marked" /\ Goto(r, label)
  BY DEF MarkRun
<1> HIDE DEF label
<1> QED BY <1>1, MarkStep DEF MarkRun, label

LEMMA CreateApprovalInv == ASSUME IInv, NEW r \in Run, CreateApproval(r) PROVE IInv'
<1>1. /\ pc[r] = "requested" /\ pc[r] \in Working /\ copy[r].at = ActionStep
      /\ ~ Exists(r) /\ outcome[r] = None /\ TypeOK /\ Approvals /\ RunOK(r)
      /\ flow[r] \in Run /\ flow[r] # None /\ wfile[flow[r]] # None
  BY NoneAssumption DEF CreateApproval, Working, Ended, Exists, IInv, RunOK
<1>2. /\ afile' = [afile EXCEPT ![r] = "pending"] /\ aflow' = [aflow EXCEPT ![r] = flow[r]]
      /\ approval' = [approval EXCEPT ![r] = r] /\ seen' = [seen EXCEPT ![r] = "pending"]
      /\ UNCHANGED <<wfile, resumed_by, granted, pc, source, flow, steps, outcome, copy, deciding>>
  BY DEF CreateApproval
<1>3. TypeOK'
  <2>1. /\ seen' \in [Run -> DOMAIN ApprovalTransitions] /\ afile' \in [Run -> DOMAIN ApprovalTransitions]
        /\ aflow' \in [Run -> Run \cup {None}] /\ approval' \in [Run -> Run \cup {None}]
    BY <1>1, <1>2 DEF TypeOK, ApprovalTransitions
  <2> QED BY <1>1, <1>2, <2>1 DEF TypeOK
<1>4. Grows
  BY <1>1, <1>2 DEF Grows, TypeOK, Exists
<1>5. Approvals'
  <2>1. ASSUME NEW a \in Run
        PROVE  /\ afile'[a] # "absent" => aflow'[a] \in Run /\ wfile'[aflow'[a]] # None
               /\ afile'[a] \in {"approved", "resumed"} => a \in granted'
               /\ resumed_by'[a] # None =>
                     afile'[a] = "resumed" /\ flow'[resumed_by'[a]] = aflow'[a]
    BY <1>1, <1>2 DEF Approvals, TypeOK, Exists
  <2>2. \A o \in Operator : deciding'[o] # None => (Exists(deciding[o][1]))'
    BY <1>1, <1>2, NoneAssumption DEF Approvals, TypeOK, Exists
  <2> QED BY <2>1, <2>2 DEF Approvals, Exists
<1>7. /\ approval'[r] = r /\ seen'[r] = "pending" /\ aflow'[r] = flow[r] /\ (Exists(r))'
      /\ \A q \in Run \ {r} :
           /\ pc'[q] = pc[q] /\ copy'[q] = copy[q] /\ flow'[q] = flow[q]
           /\ approval'[q] = approval[q] /\ seen'[q] = seen[q] /\ outcome'[q] = outcome[q]
           /\ Exists(q) \/ ~ (Exists(q))'
      /\ \A w \in Run : wfile'[w] = wfile[w]
  BY <1>1, <1>2 DEF TypeOK, Exists
<1>8. (Good(flow[r], copy[r]))'
  <2>1. PICK w \in Run, wf \in Record : w = flow[r] /\ wf = copy[r]
    BY <1>1, WorkingFacts
  <2>2. (Good(w, wf))'
    BY <1>1, <1>4, <2>1, WorkingFacts, GoodStays
  <2> QED BY <1>2, <2>1, <2>2
<1>9. (RunOK(r))'
  BY <1>1, <1>2, <1>7, <1>8, WorkingFacts DEF RunOK
<1> QED BY <1>3, <1>4, <1>5, <1>7, <1>9, RunStep

LEMMA WaitForDecisionInv == ASSUME IInv, NEW r \in Run, WaitForDecision(r) PROVE IInv'
<1>1. /\ pc[r] = "requested" /\ pc[r] \in Working /\ copy[r].at = ActionStep
      /\ Exists(r) /\ aflow[r] = flow[r] /\ outcome[r] = None
      /\ TypeOK /\ Approvals /\ RunOK(r)
      /\ UNCHANGED <<approvalVars, runVars, deciding>>
  BY DEF WaitForDecision, Working, Ended, Exists, IInv, RunOK
<1>2. /\ flow[r] \in Run /\ copy[r] \in Record /\ Live(copy[r]) /\ Good(flow[r], copy[r])
      /\ copy[r].steps[ApprovalStep(r)] = "none"
  BY <1>1, WorkingFacts DEF Good, Inserted
<1>3. PICK new \in Record, label \in {"step", "done"}, c \in Record \cup {None} :
        /\ Persisted(flow[r], new) /\ pc' = [pc EXCEPT ![r] = label]
        /\ copy' = [copy EXCEPT ![r] = c]
        /\ Live(new) /\ new.status # "succeeded" /\ new.results = copy[r].results
        /\ new.at \in {ApprovalStep(r), ActionStep}
        /\ \A b \in Run \ {r} : new.steps[ApprovalStep(b)] = "none" <=>
                                copy[r].steps[ApprovalStep(b)] = "none"
        /\ label = "step" => c = new /\ new.at = ApprovalStep(r)
  <2>1. CASE CanWait(copy[r])
    <3> DEFINE new == WaitForApproval(copy[r], r)
    <3>1. /\ new \in Record /\ Live(new) /\ new.status = "waiting" /\ new.at = ApprovalStep(r)
          /\ new.results = copy[r].results
          /\ \A b \in Run \ {r} : new.steps[ApprovalStep(b)] = copy[r].steps[ApprovalStep(b)]
      BY <1>1, <1>2, <2>1, WaitLive
    <3>2. /\ Persisted(flow[r], new) /\ pc' = [pc EXCEPT ![r] = "step"]
          /\ copy' = [copy EXCEPT ![r] = new]
      BY <2>1 DEF WaitForDecision, Persist, Goto
    <3> HIDE DEF new
    <3> QED BY <3>1, <3>2
  <2>2. CASE ~ CanWait(copy[r])
    <3> DEFINE new == FailWorkflow(ApprovalInserted(copy[r], r))
    <3>1. /\ new \in Record /\ Live(new) /\ new.status = "failed" /\ new.at = ActionStep
          /\ new.results = copy[r].results
          /\ \A b \in Run \ {r} : new.steps[ApprovalStep(b)] = "none" <=>
                                  copy[r].steps[ApprovalStep(b)] = "none"
      BY <1>1, <1>2, <2>2, NoWaitLive
    <3>2. /\ Persisted(flow[r], new) /\ pc' = [pc EXCEPT ![r] = "done"]
          /\ copy' = [copy EXCEPT ![r] = None]
      BY <2>2 DEF WaitForDecision, Fails, Ends, Goto
    <3> HIDE DEF new
    <3> QED BY <3>1, <3>2
  <2> QED BY <2>1, <2>2
<1>4. /\ wfile' \in [Run -> Record \cup {None}]
      /\ wfile'[flow[r]] = new /\ new # None
      /\ \A v \in Run \ {flow[r]} : wfile'[v] = wfile[v]
  BY <1>1, <1>2, <1>3, PersistedFacts
<1>5. TypeOK'
  BY <1>1, <1>3, <1>4 DEF TypeOK, approvalVars, runVars, Ended, Busy
<1>6. /\ pc'[r] = label /\ copy'[r] = c
      /\ \A q \in Run \ {r} :
           /\ pc'[q] = pc[q] /\ copy'[q] = copy[q] /\ flow'[q] = flow[q]
           /\ approval'[q] = approval[q] /\ seen'[q] = seen[q] /\ outcome'[q] = outcome[q]
      /\ \A q \in Run : Exists(q) <=> (Exists(q))'
  BY <1>1, <1>3 DEF TypeOK, runVars, approvalVars, Exists
<1>7. Grows
  BY <1>1, <1>3, <1>4, <1>6 DEF Grows, approvalVars, runVars
<1>8. Approvals'
  BY <1>1, <1>7, ApprovalsStay
<1>9. PICK w \in Run, old \in Record : w = flow[r] /\ old = copy[r]
  BY <1>2
<1>10. (Good(w, new))'
  <2>1. (Good(w, old))'
    BY <1>1, <1>2, <1>7, <1>9, GoodStays
  <2>2. (Refers(w, new))'
    BY <1>1, <1>3, <1>6, <1>9, <2>1, StepFacts DEF Good, Refers, approvalVars
  <2>3. (Inserted(new))'
    BY <1>1, <1>3, <1>6, <1>9, <2>1 DEF Good, Inserted
  <2> QED BY <1>3, <2>2, <2>3 DEF Good, Live
<1>11. \A v \in Run : wfile'[v] = wfile[v] \/ (Good(v, wfile[v]))'
  BY <1>4, <1>9, <1>10
<1>12. (RunOK(r))'
  <2>1. label = "step" => (Good(flow[r], copy[r]))'
    BY <1>1, <1>3, <1>6, <1>9, <1>10 DEF runVars
  <2> QED BY <1>1, <1>2, <1>3, <1>4, <1>6, <2>1, NoneAssumption
          DEF RunOK, approvalVars, runVars, Exists, Working
<1> QED BY <1>4, <1>5, <1>6, <1>7, <1>8, <1>11, <1>12, RunStep

LEMMA StartRunInv ==
  ASSUME IInv, NEW r \in Run, NEW w \in Run \cup {None}, StartRun(r, w)
  PROVE  IInv'
<1> DEFINE new == CreateWorkflowState
<1>1. /\ pc[r] = "idle" /\ TypeOK /\ Approvals /\ RunOK(r)
      /\ flow[r] = None /\ approval[r] = None /\ outcome[r] = None /\ ~ Exists(r)
      /\ seen[r] \notin {"approved", "resumed"}
  BY NoneAssumption DEF StartRun, IInv, RunOK, Ended, TypeOK
<1>2. /\ new \in Record /\ Live(new) /\ new.status = "running" /\ new.at = ActionStep
      /\ new.results = {} /\ \A a \in Run : new.steps[ApprovalStep(a)] = "none"
  BY CreateLive
<1>3. /\ flow' = [flow EXCEPT ![r] = r] /\ source' = [source EXCEPT ![r] = w]
      /\ copy' = [copy EXCEPT ![r] = new] /\ Persisted(r, new)
      /\ pc' = [pc EXCEPT ![r] = "step"]
      /\ UNCHANGED <<approvalVars, approval, seen, steps, outcome, deciding>>
  BY DEF StartRun, Goto
<1> HIDE DEF new
<1>4. /\ wfile' \in [Run -> Record \cup {None}]
      /\ wfile'[r] = new /\ new # None
      /\ \A v \in Run \ {r} : wfile'[v] = wfile[v]
  BY <1>1, <1>2, <1>3, PersistedFacts
<1>5. TypeOK'
  BY <1>1, <1>2, <1>3, <1>4 DEF TypeOK, approvalVars, Ended, Busy
<1>6. /\ pc'[r] = "step" /\ copy'[r] = new /\ flow'[r] = r
      /\ \A q \in Run \ {r} :
           /\ pc'[q] = pc[q] /\ copy'[q] = copy[q] /\ flow'[q] = flow[q]
           /\ approval'[q] = approval[q] /\ seen'[q] = seen[q] /\ outcome'[q] = outcome[q]
      /\ \A q \in Run : Exists(q) <=> (Exists(q))'
  BY <1>1, <1>3 DEF TypeOK, approvalVars, Exists
<1>7. Grows
  BY <1>1, <1>3, <1>4, <1>6 DEF Grows, approvalVars
<1>8. Approvals'
  BY <1>1, <1>3, <1>7, ApprovalsStay
<1>9. (Good(r, new))'
  BY <1>2, StepFacts DEF Good, Live, Refers, Inserted
<1>10. \A v \in Run : wfile'[v] = wfile[v] \/ (Good(v, wfile[v]))'
  BY <1>4, <1>9
<1>11. (RunOK(r))'
  <2>1. (Good(flow[r], copy[r]))'
    BY <1>6, <1>9
  <2> QED BY <1>1, <1>3, <1>4, <1>6, <2>1 DEF RunOK, approvalVars, Exists, Working
<1> QED BY <1>4, <1>5, <1>6, <1>7, <1>8, <1>10, <1>11, RunStep

\* A step that only moves a run which has not loaded its workflow.
LEMMA EnterStep ==
  ASSUME IInv, NEW r \in Run, pc[r] \in {"idle", "open", "load"},
         UNCHANGED <<wfile, approvalVars, steps, outcome, deciding>>,
         source' \in [Run -> Run \cup {None}],
         NEW label \in {"open", "load", "attach"}, Goto(r, label),
         NEW f \in Run \cup {None}, flow' = [flow EXCEPT ![r] = f],
         NEW a \in Run, approval' = [approval EXCEPT ![r] = a], Exists(a),
         NEW s \in DOMAIN ApprovalTransitions, seen' = [seen EXCEPT ![r] = s],
         NEW c \in Record \cup {None}, copy' = [copy EXCEPT ![r] = c],
         pc[r] = "load" => f = flow[r],
         label = "open" => f = None,
         label # "open" => f = aflow[a] /\ f \in Run,
         s \in {"approved", "resumed"} => a \in granted,
         label = "attach" => c # None /\ Good(f, c)
  PROVE  IInv'
<1>1. /\ TypeOK /\ Approvals /\ RunOK(r)
      /\ outcome[r] = None /\ ~ Exists(r) /\ (flow[r] # None => f = flow[r])
      /\ aflow[a] \in Run /\ wfile[aflow[a]] # None
  BY DEF IInv, RunOK, Ended, Approvals
<1>2. TypeOK'
  BY <1>1 DEF TypeOK, approvalVars, Goto, Busy
<1>3. /\ pc'[r] = label /\ copy'[r] = c /\ flow'[r] = f /\ approval'[r] = a /\ seen'[r] = s
      /\ \A q \in Run \ {r} :
           /\ pc'[q] = pc[q] /\ copy'[q] = copy[q] /\ flow'[q] = flow[q]
           /\ approval'[q] = approval[q] /\ seen'[q] = seen[q] /\ outcome'[q] = outcome[q]
      /\ \A q \in Run : Exists(q) <=> (Exists(q))'
      /\ \A w \in Run : wfile'[w] = wfile[w]
  BY <1>1 DEF TypeOK, Goto, approvalVars, Exists
<1>4. Grows
  BY <1>1, <1>3 DEF Grows, approvalVars
<1>5. Approvals'
  BY <1>1, <1>4, ApprovalsStay
<1>7. label = "attach" => (Good(flow[r], copy[r]))'
  <2>1. label = "attach" => (Good(f, c))'
    BY <1>1, <1>4, GoodStays
  <2> QED BY <1>3, <2>1
<1>8. (RunOK(r))'
  <2>1. (Exists(a))' /\ aflow'[a] = aflow[a] /\ ~ (Exists(r))' /\ outcome'[r] = None
    BY <1>1, <1>3 DEF approvalVars
  <2>2. f # None => f = aflow'[a] /\ f \in Run /\ wfile'[f] # None
    BY <1>1, <1>3, <2>1
  <2>3. label = "attach" => c # None /\ f \in Run
    OBVIOUS
  <2>4. label = "load" => f \in Run
    OBVIOUS
  <2>5. s \in {"approved", "resumed"} => a \in granted'
    BY DEF approvalVars
  <2>6. a # None
    BY NoneAssumption
  <2> QED BY <1>3, <1>7, <2>1, <2>2, <2>3, <2>4, <2>5, <2>6 DEF RunOK, Working
<1> QED BY <1>2, <1>3, <1>4, <1>5, <1>8, RunStep

LEMMA ResumeInv ==
  ASSUME IInv, NEW r \in Run, NEW w \in Run, Resume(r, w)
  PROVE  IInv'
<1> DEFINE a == wfile[w].at[2]
<1>1. /\ pc[r] = "idle" /\ RunOK(r) /\ TypeOK /\ wfile[w] \in Record
      /\ wfile[w].at[1] = "approval" /\ Good(w, wfile[w])
  BY DEF Resume, IInv, Records, TypeOK
<1>2. a \in Run /\ Exists(a)
  BY <1>1, StepFacts DEF Record, Good, Refers
<1>3. /\ approval' = [approval EXCEPT ![r] = a] /\ Goto(r, "open")
      /\ source' \in [Run -> Run \cup {None}]
      /\ UNCHANGED <<wfile, approvalVars, steps, outcome, deciding>>
      /\ flow' = [flow EXCEPT ![r] = None] /\ seen' = [seen EXCEPT ![r] = seen[r]]
      /\ copy' = [copy EXCEPT ![r] = copy[r]]
      /\ seen[r] \in DOMAIN ApprovalTransitions /\ seen[r] \notin {"approved", "resumed"}
      /\ copy[r] \in Record \cup {None} /\ None \in Run \cup {None}
  BY <1>1, NoneAssumption DEF Resume, TypeOK, RunOK
<1> HIDE DEF a
<1> QED BY <1>1, <1>2, <1>3, EnterStep

LEMMA RunWithApprovalInv ==
  ASSUME IInv, NEW r \in Run, NEW a \in Run, RunWithApproval(r, a)
  PROVE  IInv'
<1>1. /\ pc[r] = "idle" /\ RunOK(r) /\ TypeOK /\ Exists(a)
  BY DEF RunWithApproval, IInv, Exists
<1>2. /\ approval' = [approval EXCEPT ![r] = a] /\ Goto(r, "open")
      /\ source' \in [Run -> Run \cup {None}]
      /\ UNCHANGED <<wfile, approvalVars, steps, outcome, deciding>>
      /\ flow' = [flow EXCEPT ![r] = None] /\ seen' = [seen EXCEPT ![r] = seen[r]]
      /\ copy' = [copy EXCEPT ![r] = copy[r]]
      /\ seen[r] \in DOMAIN ApprovalTransitions /\ seen[r] \notin {"approved", "resumed"}
      /\ copy[r] \in Record \cup {None} /\ None \in Run \cup {None}
  BY <1>1, NoneAssumption DEF RunWithApproval, TypeOK, RunOK
<1> QED BY <1>1, <1>2, EnterStep

LEMMA ReadApprovalInv == ASSUME IInv, NEW r \in Run, ReadApproval(r) PROVE IInv'
<1> DEFINE a == approval[r]
           s == afile[a]
           f == aflow[a]
<1>1. /\ pc[r] = "open" /\ TypeOK /\ a \in Run /\ Exists(a)
  BY DEF ReadApproval, IInv, RunOK
<1>2. /\ f \in Run /\ (s \in {"approved", "resumed"} => a \in granted)
      /\ s \in DOMAIN ApprovalTransitions
  BY <1>1 DEF IInv, Approvals, TypeOK
<1>3. /\ approval' = [approval EXCEPT ![r] = a] /\ Goto(r, "load")
      /\ source' \in [Run -> Run \cup {None}]
      /\ UNCHANGED <<wfile, approvalVars, steps, outcome, deciding>>
      /\ flow' = [flow EXCEPT ![r] = f] /\ seen' = [seen EXCEPT ![r] = s]
      /\ copy' = [copy EXCEPT ![r] = copy[r]] /\ copy[r] \in Record \cup {None}
  BY <1>1 DEF ReadApproval, TypeOK
<1> HIDE DEF a, s, f
<1>4. f = aflow[a]
  BY DEF f
<1> QED BY <1>1, <1>2, <1>3, <1>4, EnterStep

LEMMA LoadWorkflowInv == ASSUME IInv, NEW r \in Run, LoadWorkflow(r) PROVE IInv'
<1> DEFINE a == approval[r]
           s == seen[r]
           f == flow[r]
           c == wfile[f]
<1>1. /\ pc[r] = "load" /\ TypeOK /\ f \in Run /\ f # None /\ c # None /\ c \in Record
      /\ Good(f, c)
  BY NoneAssumption DEF LoadWorkflow, IInv, RunOK, TypeOK, Records
<1>2. a \in Run /\ Exists(a) /\ aflow[a] = f /\ s \in DOMAIN ApprovalTransitions
  <2>1. a # None
    BY <1>1 DEF IInv, RunOK
  <2> QED BY <1>1, <2>1 DEF IInv, RunOK, TypeOK
<1>3. s \in {"approved", "resumed"} => a \in granted
  BY DEF IInv, RunOK
<1>4. /\ approval' = [approval EXCEPT ![r] = a] /\ Goto(r, "attach")
      /\ source' \in [Run -> Run \cup {None}]
      /\ UNCHANGED <<wfile, approvalVars, steps, outcome, deciding>>
      /\ flow' = [flow EXCEPT ![r] = f] /\ seen' = [seen EXCEPT ![r] = s]
      /\ copy' = [copy EXCEPT ![r] = c]
  BY <1>1 DEF LoadWorkflow, TypeOK, runVars
<1>5. f = flow[r]
  OBVIOUS
<1> HIDE DEF a, s, f, c
<1> QED BY <1>1, <1>2, <1>3, <1>4, <1>5, EnterStep

LEMMA CrashInv == ASSUME IInv, NEW r \in Run, Crash(r) PROVE IInv'
<1>1. /\ TypeOK /\ Approvals /\ RunOK(r) /\ pc[r] # "idle"
      /\ pc' = [pc EXCEPT ![r] = "crashed"] /\ copy' = [copy EXCEPT ![r] = None]
      /\ UNCHANGED <<wfile, approvalVars, runVars, deciding>>
  BY DEF Crash, Busy, IInv
<1>2. TypeOK'
  BY <1>1 DEF TypeOK, approvalVars, runVars, Ended
<1>3. /\ pc'[r] = "crashed"
      /\ \A q \in Run \ {r} :
           /\ pc'[q] = pc[q] /\ copy'[q] = copy[q] /\ flow'[q] = flow[q]
           /\ approval'[q] = approval[q] /\ seen'[q] = seen[q] /\ outcome'[q] = outcome[q]
      /\ \A q \in Run : Exists(q) <=> (Exists(q))'
      /\ \A w \in Run : wfile'[w] = wfile[w]
  BY <1>1 DEF TypeOK, runVars, approvalVars, Exists
<1>4. Grows
  BY <1>1, <1>3 DEF Grows, approvalVars, runVars
<1>5. Approvals'
  BY <1>1, <1>4, ApprovalsStay
<1>7. (RunOK(r))'
  BY <1>1, <1>3, NoneAssumption
     DEF RunOK, MayCall, approvalVars, runVars, Exists, Working, Ended
<1> QED BY <1>2, <1>3, <1>4, <1>5, <1>7, RunStep

\* A decision leaves the runs and the workflows alone.
LEMMA DecideStep ==
  ASSUME IInv, TypeOK', Approvals', granted \subseteq granted',
         UNCHANGED <<wfile, aflow, runVars, pc, copy>>,
         \A a \in Run : Exists(a) <=> (Exists(a))'
  PROVE  IInv'
<1>1. Grows
  BY DEF Grows, runVars
<1>2. \A r \in Run : (RunOK(r))'
  BY <1>1, OthersStay DEF IInv, runVars
<1>3. ASSUME NEW w \in Run, wfile'[w] # None
      PROVE  (Good(w, wfile[w]))'
  <2>1. PICK wf \in Record : wf = wfile[w]
    BY <1>3 DEF IInv, TypeOK
  <2>2. Good(w, wf)
    BY <1>3, <2>1 DEF IInv, Records
  <2>3. (Good(w, wf))'
    BY <1>1, <2>2, GoodStays DEF IInv
  <2> QED BY <2>1, <2>3
<1> QED BY <1>2, <1>3 DEF IInv, Records

LEMMA DecideCheckInv ==
  ASSUME IInv, NEW o \in Operator, NEW a \in Run, NEW next \in {"approved", "denied", "aborted"},
         DecideCheck(o, a, next)
  PROVE  IInv'
<1>1. /\ TypeOK /\ Approvals /\ deciding' = [deciding EXCEPT ![o] = <<a, next>>]
      /\ UNCHANGED <<wfile, approvalVars, runVars, pc, copy>>
  BY DEF DecideCheck, IInv
<1>2. Exists(a)
  BY <1>1 DEF DecideCheck, Exists, ApprovalTransitions
<1>3. TypeOK'
  BY <1>1 DEF TypeOK, approvalVars, runVars
<1>4. \A p \in Operator : deciding'[p] # None => (Exists(deciding[p][1]))'
  BY <1>1, <1>2 DEF TypeOK, Approvals, approvalVars, Exists
<1>5. Approvals'
  BY <1>1, <1>4 DEF Approvals, approvalVars, runVars, Exists
<1> QED BY <1>1, <1>3, <1>5, DecideStep DEF approvalVars, Exists

LEMMA DecideWriteInv == ASSUME IInv, NEW o \in Operator, DecideWrite(o) PROVE IInv'
<1> DEFINE a == deciding[o][1]
           next == deciding[o][2]
<1>1. /\ TypeOK /\ Approvals /\ deciding[o] # None
      /\ a \in Run /\ next \in {"approved", "denied", "aborted"} /\ Exists(a)
  BY DEF DecideWrite, IInv, TypeOK, Approvals
<1>2. /\ afile' = [afile EXCEPT ![a] = next] /\ resumed_by' = [resumed_by EXCEPT ![a] = None]
      /\ granted' = (IF next = "approved" THEN granted \cup {a} ELSE granted)
      /\ deciding' = [deciding EXCEPT ![o] = None]
      /\ UNCHANGED <<wfile, aflow, runVars, pc, copy>>
  BY DEF DecideWrite
<1> HIDE DEF a, next
<1>3. TypeOK'
  <2>1. /\ afile' \in [Run -> DOMAIN ApprovalTransitions] /\ resumed_by' \in [Run -> Run \cup {None}]
        /\ granted' \in SUBSET Run
    BY <1>1, <1>2 DEF TypeOK, ApprovalTransitions
  <2> QED BY <1>1, <1>2, <2>1 DEF TypeOK, runVars
<1>4. \A b \in Run : Exists(b) <=> (Exists(b))'
  BY <1>1, <1>2 DEF TypeOK, Exists
<1>5. ASSUME NEW b \in Run
      PROVE  /\ (Exists(b))' => aflow'[b] \in Run /\ wfile'[aflow'[b]] # None
             /\ afile'[b] \in {"approved", "resumed"} => b \in granted'
             /\ resumed_by'[b] # None =>
                   afile'[b] = "resumed" /\ flow'[resumed_by'[b]] = aflow'[b]
  BY <1>1, <1>2, <1>4 DEF TypeOK, Approvals, runVars
<1>6. \A p \in Operator : deciding'[p] # None => (Exists(deciding[p][1]))'
  <2>1. \A p \in Operator : deciding'[p] # None =>
          deciding'[p] = deciding[p] /\ deciding[p][1] \in Run /\ Exists(deciding[p][1])
    BY <1>1, <1>2 DEF TypeOK, Approvals
  <2> QED BY <1>4, <2>1
<1>7. Approvals'
  BY <1>5, <1>6 DEF Approvals
<1> QED BY <1>2, <1>3, <1>4, <1>7, DecideStep

-----------------------------------------------------------------------------

LEMMA StepInvariant ==
  ASSUME IInv, [Next]_vars
  PROVE  IInv'
<1>1. CASE StartNext
  BY <1>1, StartRunInv, ResumeInv, RunWithApprovalInv DEF StartNext
<1>2. ASSUME NEW r \in Run, StepNext(r)
      PROVE  IInv'
  BY <1>2, ReadApprovalInv, LoadWorkflowInv, AttachRunInv, RetryNotDueInv, RetryDueInv,
     ReadDecisionInv, MarkCheckInv, MarkResumedInv, MarkRunInv, BeginActionInv, RefusedInv,
     StepsExceededInv, CreateApprovalInv, WaitForDecisionInv, CallActionInv, ActionSucceedsInv,
     ActionRetriedInv, ActionFailsInv, FinishInv, Zenon DEF StepNext
<1>3. CASE DecideNext
  BY <1>3, DecideCheckInv, DecideWriteInv DEF DecideNext
<1>4. CASE UNCHANGED vars
  <2>1. /\ TypeOK' /\ Approvals' /\ granted \subseteq granted'
        /\ UNCHANGED <<wfile, aflow, runVars, pc, copy>>
        /\ \A a \in Run : Exists(a) <=> (Exists(a))'
    BY <1>4 DEF vars, approvalVars, runVars, IInv, TypeOK, Approvals, Exists
  <2> QED BY <2>1, DecideStep
<1> QED BY <1>1, <1>2, <1>3, <1>4, CrashInv DEF Next

THEOREM InvariantHolds == Spec => []IInv
<1> QED BY InitInvariant, StepInvariant, PTL DEF Spec

\* Every record, copy and approval has the shape the code gives it.
THEOREM TypeCorrect == Spec => []TypeOK
<1>1. IInv => TypeOK
  BY DEF IInv
<1> QED BY <1>1, InvariantHolds, PTL

\* No tool or model is called against the policy: a denied call is never made,
\* and a gated one only by a run that holds an approval of this very workflow
\* which an operator approved (run_action_step, mark_approval_resumed).
THEOREM CallsAlwaysApproved == Spec => []CallsApproved
<1>1. IInv => CallsApproved
  BY DEF IInv, RunOK, MayCall, CallsApproved, Called
<1> QED BY <1>1, InvariantHolds, PTL

\* At whatever point request_approval is cut off, a workflow never waits for an
\* approval that does not exist or was asked for another workflow.
THEOREM WaitsForOwnApprovalAlways == Spec => []WaitsForOwnApproval
<1>1. IInv => WaitsForOwnApproval
  BY DEF IInv, Records, Good, Refers, Exists, WaitsForOwnApproval
<1> QED BY <1>1, InvariantHolds, PTL

\* A workflow that succeeded has a result, and all its results are those of runs
\* of this workflow whose call ended well (execute_finish_step).
THEOREM SuccessAlwaysHasResult == Spec => []SuccessHasResult
<1>1. IInv => SuccessHasResult
  BY DEF IInv, Records, Good, Refers, SuccessHasResult
<1> QED BY <1>1, InvariantHolds, PTL

\* However decisions and resumes overwrite each other, an approval that names
\* its resumed_run_id is resumed and names a run of its workflow.
THEOREM ResumedByItsRunAlways == Spec => []ResumedByItsRun
<1>1. IInv => ResumedByItsRun
  BY NoneAssumption DEF IInv, Approvals, ResumedByItsRun
<1> QED BY <1>1, InvariantHolds, PTL

\* Every record on disk is one the functions of workflow.py can leave, also when
\* runs write it from stale copies.
THEOREM RecordsAlwaysWellFormed == Spec => []RecordsWellFormed
<1>1. IInv => RecordsWellFormed
  BY DEF IInv, Records, Good, Live, RecordsWellFormed, WellFormed, CurrentStatus
<1> QED BY <1>1, InvariantHolds, PTL

-----------------------------------------------------------------------------
(* What the functions of workflow.py do to the status, the step and the retries *)

LEMMA FailFacts ==
  ASSUME NEW wf \in Record
  PROVE  LET new == FailWorkflow(wf)
         IN /\ new \in Record /\ new.at = wf.at /\ new.used = wf.used
            /\ new.status = IF wf.status \in {"waiting", "running"} THEN "failed" ELSE wf.status
<1> DEFINE set == SetStep(wf, wf.at, {"pending", "in_progress", "blocked"}, "failed")
           new == FailWorkflow(wf)
<1>1. /\ wf.at \in Step /\ "failed" \in StepStatus /\ "failed" \in WorkflowStatus
  BY DEF Record, StepStatus, StepTransitions, WorkflowStatus, WorkflowTransitions
<1>2. set \in Record /\ set.status = wf.status /\ set.at = wf.at /\ set.used = wf.used
  BY <1>1, SetStepFacts
<1>3. new = [set EXCEPT !.status = IF @ \in {"waiting", "running"} THEN "failed" ELSE @]
  BY DEF FailWorkflow
<1> HIDE DEF set, new
<1>4. /\ new \in Record /\ new.at = wf.at /\ new.used = wf.used
      /\ new.status = IF wf.status \in {"waiting", "running"} THEN "failed" ELSE wf.status
  BY <1>1, <1>2, <1>3 DEF Record
<1> QED BY <1>4 DEF new

LEMMA ResumedFacts ==
  ASSUME NEW wf \in Record
  PROVE  LET new == Resumed(wf, wf.at)
         IN /\ new \in Record /\ new.at = ActionStep /\ new.used = wf.used
            /\ new.status = IF wf.status = "waiting" THEN "running" ELSE wf.status
<1> DEFINE set == SetStep(wf, wf.at, {"in_progress"}, "completed")
           unblocked == Unblocked(set)
           new == Resumed(wf, wf.at)
<1>1. wf.at \in Step /\ "completed" \in StepStatus /\ "running" \in WorkflowStatus
  BY DEF Record, StepStatus, StepTransitions, WorkflowStatus, WorkflowTransitions
<1>2. set \in Record /\ set.status = wf.status /\ set.used = wf.used
  BY <1>1, SetStepFacts
<1>3. new = [unblocked EXCEPT !.status = IF @ = "waiting" THEN "running" ELSE @,
                              !.at = ActionStep]
  BY DEF Resumed
<1> HIDE DEF set
<1>4. unblocked \in Record /\ unblocked.status = wf.status /\ unblocked.used = wf.used
  BY <1>2, UnblockedFacts
<1>5. ActionStep \in Step
  BY StepFacts
<1> HIDE DEF unblocked, new
<1>6. /\ new \in Record /\ new.at = ActionStep /\ new.used = wf.used
      /\ new.status = IF wf.status = "waiting" THEN "running" ELSE wf.status
  BY <1>1, <1>3, <1>4, <1>5 DEF Record
<1> QED BY <1>6 DEF new

LEMMA MarkedFacts ==
  ASSUME NEW wf \in Record
  PROVE  LET new == MarkActionCompleted(wf)
         IN /\ new \in Record /\ new.at = FinishStep /\ new.used = wf.used
            /\ new.status = wf.status
<1> DEFINE set == SetStep(wf, FinishStep, {"pending"}, "in_progress")
           new == MarkActionCompleted(wf)
<1>1. /\ ActionStep \in Step /\ FinishStep \in Step
      /\ "completed" \in StepStatus /\ "in_progress" \in StepStatus
  BY StepFacts DEF StepStatus, StepTransitions
<1>2. set \in Record /\ set.status = wf.status /\ set.used = wf.used
  BY <1>1, SetStepFacts
<1>3. new = [set EXCEPT !.steps[ActionStep] = "completed", !.at = FinishStep]
  BY DEF MarkActionCompleted
<1> HIDE DEF set, new
<1>4. new \in Record /\ new.at = FinishStep /\ new.used = wf.used /\ new.status = wf.status
  BY <1>1, <1>2, <1>3 DEF Record
<1> QED BY <1>4 DEF new

LEMMA RetryFacts ==
  ASSUME NEW wf \in Record, CanRetry(wf)
  PROVE  LET new == WaitForRetry(wf)
         IN /\ new \in Record /\ new.used = wf.used + 1 /\ new.status = "waiting"
<1> DEFINE n == wf.used + 1
           step == RetryStep(n)
           blocked == Blocked(wf)
           new == WaitForRetry(wf)
<1>1. /\ n \in 1..MaxRetries /\ n \in 0..MaxRetries
      /\ "in_progress" \in StepStatus /\ "waiting" \in WorkflowStatus
  BY DEF Record, CanRetry, StepStatus, StepTransitions, WorkflowStatus, WorkflowTransitions
<1>2. blocked \in Record
  BY BlockedFacts
<1>3. step \in Step
  BY <1>1, StepFacts
<1>4. new = [blocked EXCEPT !.steps[step] = IF @ = "none" THEN "in_progress" ELSE @,
                            !.used = n, !.status = "waiting", !.at = step]
  BY DEF WaitForRetry
<1> HIDE DEF n, step, blocked, new
<1>5. new \in Record /\ new.used = n /\ new.status = "waiting"
  BY <1>1, <1>2, <1>3, <1>4 DEF Record
<1> QED BY <1>5 DEF new, n

LEMMA WaitFacts ==
  ASSUME NEW wf \in Record, NEW a \in Run
  PROVE  LET new == WaitForApproval(wf, a)
         IN /\ new \in Record /\ new.used = wf.used /\ new.status = "waiting"
<1> DEFINE inserted == ApprovalInserted(wf, a)
           new == WaitForApproval(wf, a)
<1>1. inserted \in Record /\ inserted.used = wf.used
  BY InsertedFacts
<1>2. ApprovalStep(a) \in Step /\ "waiting" \in WorkflowStatus
  BY StepFacts DEF WorkflowStatus, WorkflowTransitions
<1>3. new = [inserted EXCEPT !.status = "waiting", !.at = ApprovalStep(a)]
  BY DEF WaitForApproval
<1> HIDE DEF inserted, new
<1>4. new \in Record /\ new.used = wf.used /\ new.status = "waiting"
  BY <1>1, <1>2, <1>3 DEF Record
<1> QED BY <1>4 DEF new

LEMMA CompleteFacts ==
  ASSUME NEW wf \in Record, NEW r \in Run
  PROVE  /\ LET new == FinishStepCompleted(wf, r)
            IN new \in Record /\ new.at = wf.at /\ new.used = wf.used /\ new.status = wf.status
         /\ LET new == CompleteFinishStep(wf, r)
            IN /\ new \in Record /\ new.at = FinishStep /\ new.used = wf.used
               /\ new.status = "succeeded"
<1> DEFINE results == wf.results \cup {r}
           done == FinishStepCompleted(wf, r)
           new == CompleteFinishStep(wf, r)
<1>1. /\ results \subseteq Run /\ "completed" \in StepStatus /\ "succeeded" \in WorkflowStatus
      /\ FinishStep \in Step
  BY StepFacts DEF Record, StepStatus, StepTransitions, WorkflowStatus, WorkflowTransitions
<1>2. done = [wf EXCEPT !.results = results,
                        !.steps[FinishStep] = IF @ = "failed" THEN @ ELSE "completed"]
  BY DEF FinishStepCompleted
<1>3. new = [done EXCEPT !.status = "succeeded", !.at = FinishStep]
  BY DEF CompleteFinishStep
<1> HIDE DEF results, done, new
<1>4. done \in Record /\ done.at = wf.at /\ done.used = wf.used /\ done.status = wf.status
  BY <1>1, <1>2 DEF Record
<1>5. /\ new \in Record /\ new.at = FinishStep /\ new.used = wf.used
      /\ new.status = "succeeded"
  BY <1>1, <1>3, <1>4 DEF Record
<1> QED BY <1>4, <1>5 DEF done, new

-----------------------------------------------------------------------------
(* One step of a run on its record *)

\* What a step that is taken when the record is old may leave of it.
Advances(old, new) ==
  /\ new \in Record
  /\ CanReach(old, new.status)
  /\ \/ new.status = "failed"
     \/ new.used = old.used /\ (old.at = FinishStep => new.at = FinishStep)

\* ... after a call: the action is done, or is to be done once more.
Concludes(old, new) ==
  /\ new \in Record
  /\ CanReach(old, new.status)
  /\ \/ new.status = "failed"
     \/ new.used = old.used /\ new.at = FinishStep
     \/ new.used = old.used + 1

Writes(r, new) ==
  /\ wfile' = [wfile EXCEPT ![flow[r]] = new]
  /\ copy' = [copy EXCEPT ![r] = new] \/ Ends(r)

\* The run leaves the record alone, or is about to learn how its call ended.
Rests(r) ==
  /\ pc[r] # "called" /\ wfile' = wfile
  /\ copy' = copy \/ Ends(r)
  /\ \/ outcome' = outcome /\ pc'[r] # "called"
     \/ \E o \in Outcome : CallAction(r, o)

Moves(r) ==
  /\ pc[r] # "called" /\ pc'[r] # "called" /\ outcome' = outcome
  /\ \E new : Writes(r, new) /\ Advances(copy[r], new)

Settles(r) ==
  /\ pc[r] = "called" /\ pc'[r] # "called" /\ outcome' = outcome
  /\ \/ \E new : Writes(r, new) /\ Concludes(copy[r], new)
     \/ copy[r].status = "failed" /\ wfile' = wfile /\ Ends(r)

LEMMA SameAdvances == ASSUME NEW wf \in Record PROVE Advances(wf, wf)
BY DEF Advances, CanReach

LEMMA FailAdvances ==
  ASSUME NEW wf \in Record
  PROVE  /\ Advances(wf, FailWorkflow(wf))
         /\ wf.status \in {"waiting", "running", "failed"} => FailWorkflow(wf).status = "failed"
<1>1. wf.status \in WorkflowStatus
  BY DEF Record
<1> QED BY <1>1, FailFacts
        DEF Advances, CanReach, CanTransition, WorkflowStatus, WorkflowTransitions

LEMMA FailsMoves ==
  ASSUME IInv, NEW r \in Run, pc[r] \in Working \ {"called"}, Fails(r, copy[r]), outcome' = outcome
  PROVE  Moves(r)
<1>1. copy[r] \in Record
  BY WorkingFacts
<1>2. Writes(r, FailWorkflow(copy[r])) /\ Advances(copy[r], FailWorkflow(copy[r]))
  BY <1>1, FailAdvances DEF Fails, Writes, Persisted
<1>3. pc'[r] = "done"
  BY DEF Fails, Ends, Goto, IInv, TypeOK
<1> QED BY <1>2, <1>3 DEF Moves

LEMMA WorkLeaves ==
  ASSUME IInv, NEW r \in Run, pc[r] \in Working, StepNext(r)
  PROVE  Rests(r) \/ Moves(r) \/ Settles(r)
<1> DEFINE c == copy[r]
<1>0. /\ c \in Record /\ Live(c) /\ flow[r] \in Run /\ pc \in [Run -> Ended \cup Busy]
      /\ c.status \in WorkflowStatus
  BY WorkingFacts DEF IInv, TypeOK, Record
<1>1. CASE ReadApproval(r) \/ LoadWorkflow(r)
  BY <1>1 DEF ReadApproval, LoadWorkflow, Working
<1>2. CASE AttachRun(r)
  BY <1>0, <1>2, SameAdvances DEF AttachRun, Persist, Persisted, Moves, Writes, runVars, Goto
<1>3. CASE RetryNotDue(r)
  BY <1>0, <1>3 DEF RetryNotDue, At, Rests, Ends, Goto, runVars
<1>4. ASSUME c.at[1] \in {"retry", "approval"}, pc[r] = "step", UNCHANGED <<pc, outcome>>,
             Persist(r, Resumed(c, c.at))
      PROVE  Moves(r)
  <2>1. c.at # FinishStep
    BY <1>4, StepFacts
  <2>2. Advances(c, Resumed(c, c.at))
    BY <1>0, <2>1, ResumedFacts
       DEF Advances, CanReach, CanTransition, WorkflowTransitions, WorkflowStatus
  <2> QED BY <1>4, <2>2 DEF Moves, Writes, Persist, Persisted
<1>5. CASE RetryDue(r)
  BY <1>4, <1>5 DEF RetryDue, At, runVars
<1>6. CASE ReadDecision(r)
  <2> DEFINE s == afile[c.at[2]]
  <2>1. /\ pc[r] = "step" /\ c.at[1] = "approval" /\ outcome' = outcome
        /\ CASE s = "pending" -> Ends(r) /\ UNCHANGED wfile
             [] s = "approved" -> Goto(r, "mark") /\ UNCHANGED <<wfile, copy>>
             [] s = "resumed" -> Persist(r, Resumed(c, c.at)) /\ UNCHANGED pc
             [] OTHER -> Fails(r, c)
    BY <1>6 DEF ReadDecision, At
  <2> HIDE DEF s
  <2>2. CASE s = "pending"
    BY <1>0, <2>1, <2>2 DEF Rests, Ends, Goto
  <2>3. CASE s = "approved"
    BY <1>0, <2>1, <2>3 DEF Rests, Goto
  <2>4. CASE s = "resumed"
    BY <1>4, <2>1, <2>4
  <2>5. CASE s \notin {"pending", "approved", "resumed"}
    BY <2>1, <2>5, FailsMoves DEF Working
  <2> QED BY <2>2, <2>3, <2>4, <2>5
<1>7. CASE MarkCheck(r)
  <2>1. CASE Fails(r, c)
    BY <1>7, <2>1, FailsMoves DEF MarkCheck, runVars, Working
  <2> QED BY <1>0, <1>7, <2>1 DEF MarkCheck, Rests, Goto, runVars
<1>8. CASE MarkResumed(r) \/ MarkRun(r)
  BY <1>0, <1>8 DEF MarkResumed, MarkRun, Rests, Goto, runVars
<1>9. CASE BeginAction(r)
  <2>1. Verdict(r) # "called" /\ pc'[r] = Verdict(r)
    BY <1>0, <1>9, AgentAssumption DEF BeginAction, Goto, Verdict
  <2> QED BY <1>0, <1>9, <2>1, SameAdvances DEF BeginAction, At, Persist, Persisted, Moves, Writes
<1>10. CASE Refused(r) \/ StepsExceeded(r)
  BY <1>10, FailsMoves DEF Refused, StepsExceeded, At, runVars, Working
<1>11. CASE CreateApproval(r)
  BY <1>11 DEF CreateApproval, Rests
<1>12. CASE WaitForDecision(r)
  <2>1. c.at = ActionStep /\ pc[r] = "requested" /\ outcome' = outcome
    BY <1>12 DEF WaitForDecision, IInv, RunOK, runVars
  <2>2. ActionStep # FinishStep
    BY StepFacts
  <2>3. CASE CanWait(c)
    <3>1. Advances(c, WaitForApproval(c, r))
      BY <1>0, <2>1, <2>2, <2>3, WaitFacts DEF Advances, CanWait
    <3> QED BY <1>0, <1>12, <2>1, <2>3, <3>1
            DEF WaitForDecision, Persist, Persisted, Moves, Writes, Goto
  <2>4. CASE ~ CanWait(c)
    <3> DEFINE inserted == ApprovalInserted(c, r)
               new == FailWorkflow(inserted)
    <3>1. /\ inserted \in Record /\ inserted.at = c.at /\ inserted.used = c.used
          /\ inserted.status = c.status
      BY <1>0, InsertedFacts
    <3> HIDE DEF inserted
    <3>2. Advances(c, new)
      BY <1>0, <3>1, <2>1, <2>2, FailFacts
         DEF Advances, CanReach, CanTransition, WorkflowTransitions, WorkflowStatus
    <3>3. Fails(r, inserted)
      BY <1>12, <2>4 DEF WaitForDecision, inserted
    <3> HIDE DEF new
    <3>4. Writes(r, new) /\ pc'[r] = "done"
      BY <1>0, <3>3 DEF Fails, Ends, Goto, Persisted, Writes, new
    <3> QED BY <2>1, <3>2, <3>4 DEF Moves
  <2> QED BY <2>3, <2>4
<1>13. ASSUME NEW o \in Outcome, CallAction(r, o)
       PROVE  Rests(r)
  BY <1>0, <1>13 DEF CallAction, Rests, IInv, TypeOK
<1>14. ASSUME pc[r] = "called"
       PROVE  /\ c.at = ActionStep
              /\ c.status \in {"running", "failed"}
  BY <1>0, <1>14, StepFacts
     DEF IInv, RunOK, Live, WorkflowStatus, WorkflowTransitions
<1>15. ASSUME pc[r] = "called", Fails(r, c), outcome' = outcome
       PROVE  Settles(r)
  <2>1. FailWorkflow(c).status = "failed" /\ Advances(c, FailWorkflow(c))
    BY <1>0, <1>14, <1>15, FailAdvances
  <2>2. Writes(r, FailWorkflow(c)) /\ pc'[r] = "done"
    BY <1>0, <1>15 DEF Fails, Ends, Goto, Persisted, Writes
  <2> QED BY <1>15, <2>1, <2>2 DEF Settles, Concludes, Advances
<1>16. CASE ActionSucceeds(r)
  <2>1. CASE CanMarkActionCompleted(c)
    <3>1. Concludes(c, MarkActionCompleted(c))
      BY <1>0, MarkedFacts DEF Concludes, CanReach
    <3> QED BY <1>0, <1>16, <2>1, <3>1
            DEF ActionSucceeds, Persist, Persisted, Settles, Writes, Goto, runVars
  <2>2. CASE ~ CanMarkActionCompleted(c)
    BY <1>15, <1>16, <2>2 DEF ActionSucceeds, runVars
  <2> QED BY <2>1, <2>2
<1>17. CASE ActionRetried(r)
  <2>1. /\ pc[r] = "called" /\ CanRetry(c) /\ outcome' = outcome /\ Ends(r)
        /\ IF CanWait(c) THEN Persisted(flow[r], WaitForRetry(c)) ELSE UNCHANGED wfile
    BY <1>17 DEF ActionRetried, CanScheduleRetry, runVars
  <2>2. pc'[r] = "done"
    BY <1>0, <2>1 DEF Ends, Goto
  <2>3. CASE CanWait(c)
    <3>1. Concludes(c, WaitForRetry(c))
      BY <1>0, <2>1, <2>3, RetryFacts DEF Concludes, CanWait
    <3> QED BY <2>1, <2>2, <2>3, <3>1 DEF Persisted, Settles, Writes
  <2>4. CASE ~ CanWait(c)
    <3>1. c.status = "failed"
      BY <1>14, <2>1, <2>4 DEF CanWait, CanReach, CanTransition, WorkflowTransitions
    <3> QED BY <2>1, <2>2, <2>4, <3>1 DEF Settles
  <2> QED BY <2>3, <2>4
<1>18. CASE ActionFails(r)
  BY <1>15, <1>18 DEF ActionFails, runVars
<1>19. CASE Finish(r)
  <2>1. pc[r] = "step" /\ c.at = FinishStep /\ outcome' = outcome
    BY <1>0, <1>19, StepFacts DEF Finish, At, runVars, Record
  <2>2. CASE Fails(r, c)
    BY <2>1, <2>2, FailsMoves DEF Working
  <2>3. CASE /\ CanCompleteFinishStep(c)
             /\ Persisted(flow[r], CompleteFinishStep(c, r)) /\ Ends(r)
    <3>1. Advances(c, CompleteFinishStep(c, r))
      BY <1>0, <2>3, CompleteFacts DEF Advances, CanCompleteFinishStep
    <3> QED BY <1>0, <2>1, <2>3, <3>1 DEF Moves, Writes, Persisted, Ends, Goto
  <2>4. CASE Fails(r, FinishStepCompleted(c, r))
    <3> DEFINE done == FinishStepCompleted(c, r)
               new == FailWorkflow(done)
    <3>1. done \in Record /\ done.at = c.at /\ done.used = c.used /\ done.status = c.status
      BY <1>0, CompleteFacts
    <3>2. Fails(r, done)
      BY <2>4
    <3> HIDE DEF done
    <3>3. Advances(c, new)
      BY <1>0, <3>1, FailFacts
         DEF Advances, CanReach, CanTransition, WorkflowTransitions, WorkflowStatus
    <3> HIDE DEF new
    <3>4. Writes(r, new) /\ pc'[r] = "done"
      BY <1>0, <3>2 DEF Fails, Ends, Goto, Persisted, Writes, new
    <3> QED BY <2>1, <3>3, <3>4 DEF Moves
  <2> QED BY <1>19, <2>2, <2>3, <2>4 DEF Finish
<1> QED BY <1>1, <1>2, <1>3, <1>5, <1>6, <1>7, <1>8, <1>9, <1>10, <1>11, <1>12, <1>13, <1>16,
           <1>17, <1>18, <1>19, Zenon DEF StepNext

-----------------------------------------------------------------------------
(* A workflow that is only resumed when no other run works on it *)

\* The workflow a run is on, from the moment it is given an approval of it
On(r) == IF pc[r] = "open" THEN aflow[approval[r]] ELSE flow[r]

\* What keeps copies from going stale: a workflow has one run at a time, whose
\* copy is the record on disk.
Alone ==
  /\ \A r \in Run : pc[r] = "idle" => wfile[r] = None
  /\ \A q, r \in Run : pc[q] \in Busy /\ pc[r] \in Busy /\ On(q) = On(r) => q = r
  /\ \A r \in Run : pc[r] \in Working => copy[r] = wfile[flow[r]]

LEMMA OnFacts ==
  ASSUME IInv, NEW r \in Run, pc[r] \in Busy
  PROVE  On(r) \in Run /\ wfile[On(r)] # None /\ Works(r, On(r))
<1>1. CASE pc[r] = "open"
  BY <1>1, NoneAssumption DEF IInv, RunOK, Approvals, On, Works
<1>2. CASE pc[r] # "open"
  BY <1>2, NoneAssumption DEF IInv, RunOK, On, Works, Busy, Working
<1> QED BY <1>1, <1>2

\* A step of run r leaves the other runs where they are.
Solo(r) ==
  /\ \A q \in Run \ {r} : /\ pc'[q] = pc[q] /\ copy'[q] = copy[q]
                          /\ approval'[q] = approval[q] /\ flow'[q] = flow[q]
  /\ \A a \in Run : Exists(a) => aflow'[a] = aflow[a]

LEMMA WorkFrame ==
  ASSUME IInv, NEW r \in Run, pc[r] \in Working, StepNext(r)
  PROVE  Solo(r) /\ flow' = flow /\ pc'[r] \in Working \cup {"done"}
<1> USE DEF Solo, Goto, Ends, Fails, Persist, At, runVars, approvalVars, Working
<1>0. /\ pc \in [Run -> Ended \cup Busy] /\ copy \in [Run -> Record \cup {None}]
      /\ approval \in [Run -> Run \cup {None}] /\ aflow \in [Run -> Run \cup {None}]
  BY DEF IInv, TypeOK
<1>1. CASE ReadApproval(r) \/ LoadWorkflow(r)
  BY <1>1 DEF ReadApproval, LoadWorkflow
<1>2. CASE AttachRun(r) \/ RetryNotDue(r) \/ RetryDue(r)
  BY <1>0, <1>2 DEF AttachRun, RetryNotDue, RetryDue
<1>3. CASE ReadDecision(r)
  <2>1. /\ \E a : approval' = [approval EXCEPT ![r] = a]
        /\ aflow' = aflow /\ flow' = flow /\ pc[r] = "step"
        /\ \/ Ends(r)
           \/ Goto(r, "mark") /\ copy' = copy
           \/ \E c : copy' = [copy EXCEPT ![r] = c] /\ pc' = pc
    BY <1>3 DEF ReadDecision
  <2> QED BY <1>0, <2>1
<1>4. CASE MarkCheck(r) \/ MarkResumed(r) \/ MarkRun(r)
  BY <1>0, <1>4 DEF MarkCheck, MarkResumed, MarkRun
<1>5. CASE BeginAction(r)
  <2>1. Verdict(r) \in Working
    BY AgentAssumption, WorkingFacts DEF Verdict
  <2> QED BY <1>0, <1>5, <2>1 DEF BeginAction
<1>6. CASE Refused(r) \/ StepsExceeded(r) \/ ActionFails(r)
  BY <1>0, <1>6 DEF Refused, StepsExceeded, ActionFails
<1>7. CASE CreateApproval(r)
  BY <1>0, <1>7 DEF CreateApproval, Exists
<1>8. CASE WaitForDecision(r) \/ \E o \in Outcome : CallAction(r, o)
  BY <1>0, <1>8 DEF WaitForDecision, CallAction
<1>9. CASE ActionSucceeds(r) \/ ActionRetried(r)
  BY <1>0, <1>9 DEF ActionSucceeds, ActionRetried
<1>10. CASE Finish(r)
  BY <1>0, <1>10 DEF Finish
<1> QED BY <1>1, <1>2, <1>3, <1>4, <1>5, <1>6, <1>7, <1>8, <1>9, <1>10, Zenon DEF StepNext

\* The run that moves stays on its workflow, or comes to one nobody is on.
LEMMA AloneStep ==
  ASSUME IInv, Alone, NEW r \in Run, Solo(r), pc'[r] # "idle",
         pc'[r] \in Busy => \A q \in Run \ {r} : pc[q] \in Busy => On(q) # (On(r))',
         pc'[r] \in Working => copy'[r] = wfile'[flow'[r]],
         \A w \in Run : wfile'[w] # wfile[w] =>
           /\ pc[w] = "idle" => w = r
           /\ \A q \in Run \ {r} : pc[q] \in Busy => On(q) # w
  PROVE  Alone'
<1>1. ASSUME NEW q \in Run \ {r}, pc[q] \in Busy
      PROVE  (On(q))' = On(q)
  BY <1>1 DEF On, Solo, IInv, RunOK
<1>2. \A q \in Run : pc'[q] = "idle" => wfile'[q] = None
  BY DEF Alone, Solo
<1>3. ASSUME NEW p \in Run, NEW q \in Run, pc'[p] \in Busy, pc'[q] \in Busy, (On(p))' = (On(q))'
      PROVE  p = q
  BY <1>1, <1>3 DEF Alone, Solo
<1>4. ASSUME NEW q \in Run \ {r}, pc'[q] \in Working
      PROVE  copy'[q] = wfile'[flow'[q]]
  <2>1. /\ pc[q] \in Working /\ pc[q] \in Busy /\ On(q) = flow[q] /\ flow'[q] = flow[q]
        /\ copy'[q] = copy[q] /\ flow[q] \in Run
    BY <1>4, WorkingFacts DEF Solo, Working, Busy, On
  <2> QED BY <2>1 DEF Alone
<1> QED BY <1>2, <1>3, <1>4 DEF Alone

LEMMA StepsOfWorking ==
  ASSUME NEW r \in Run, StepNext(r)
  PROVE  pc[r] \in Working \/ ReadApproval(r) \/ LoadWorkflow(r)
BY DEF StepNext, AttachRun, RetryNotDue, RetryDue, ReadDecision, MarkCheck, MarkResumed, MarkRun,
       BeginAction, Refused, StepsExceeded, CreateApproval, WaitForDecision, CallAction,
       ActionSucceeds, ActionRetried, ActionFails, Finish, At, Working

LEMMA StepAlone ==
  ASSUME Serial, IInv, Alone, [Next]_vars
  PROVE  Alone'
<1>0. /\ pc \in [Run -> Ended \cup Busy] /\ flow \in [Run -> Run \cup {None}]
      /\ approval \in [Run -> Run \cup {None}] /\ copy \in [Run -> Record \cup {None}]
      /\ wfile \in [Run -> Record \cup {None}]
  BY DEF IInv, TypeOK
<1>1. ASSUME NEW r \in Run, NEW w \in Run \cup {None}, StartRun(r, w)
      PROVE  Alone'
  <2>1. /\ pc[r] = "idle" /\ wfile[r] = None /\ pc'[r] = "step" /\ Solo(r)
        /\ flow'[r] = r /\ copy'[r] = wfile'[r] /\ \A v \in Run \ {r} : wfile'[v] = wfile[v]
    BY <1>0, <1>1 DEF StartRun, Goto, Persisted, Solo, approvalVars, Alone
  <2>2. \A q \in Run : pc[q] \in Busy => On(q) # r
    BY <2>1, OnFacts
  <2>3. (On(r))' = r
    BY <2>1 DEF On
  <2> QED BY <2>1, <2>2, <2>3, AloneStep
<1>2. ASSUME NEW r \in Run, NEW a \in Run, pc[r] = "idle", Exists(a), MayResume(aflow[a]),
             approval' = [approval EXCEPT ![r] = a], Goto(r, "open"),
             UNCHANGED <<wfile, approvalVars, flow, copy>>
      PROVE  Alone'
  <2>1. /\ pc'[r] = "open" /\ Solo(r) /\ wfile' = wfile /\ (On(r))' = aflow[a]
    BY <1>0, <1>2 DEF Goto, Solo, approvalVars, On
  <2>2. \A q \in Run : pc[q] \in Busy => On(q) # aflow[a]
    BY <1>2, OnFacts DEF MayResume
  <2> QED BY <2>1, <2>2, AloneStep DEF Working
<1>3. ASSUME NEW r \in Run, NEW w \in Run, Resume(r, w)
      PROVE  Alone'
  <2>1. /\ wfile[w] \in Record /\ wfile[w].at[1] = "approval" /\ Refers(w, wfile[w])
    BY <1>0, <1>3 DEF Resume, IInv, Records, Good
  <2>2. wfile[w].at[2] \in Run /\ Exists(wfile[w].at[2]) /\ aflow[wfile[w].at[2]] = w
    BY <2>1, StepFacts DEF Record, Refers
  <2> QED BY <1>2, <1>3, <2>2 DEF Resume
<1>4. ASSUME NEW r \in Run, NEW a \in Run, RunWithApproval(r, a)
      PROVE  Alone'
  BY <1>2, <1>4 DEF RunWithApproval, Exists
<1>5. ASSUME NEW r \in Run, ReadApproval(r)
      PROVE  Alone'
  <2>1. /\ pc[r] = "open" /\ pc'[r] = "load" /\ Solo(r) /\ wfile' = wfile
        /\ (On(r))' = On(r)
    BY <1>0, <1>5 DEF ReadApproval, Goto, Solo, approvalVars, On
  <2>2. \A q \in Run \ {r} : pc[q] \in Busy => On(q) # On(r)
    BY <2>1 DEF Alone, Busy
  <2> QED BY <2>1, <2>2, AloneStep DEF Working
<1>6. ASSUME NEW r \in Run, LoadWorkflow(r)
      PROVE  Alone'
  <2>1. /\ pc[r] = "load" /\ pc'[r] = "attach" /\ Solo(r) /\ wfile' = wfile
        /\ (On(r))' = On(r) /\ copy'[r] = wfile'[flow'[r]]
    BY <1>0, <1>6 DEF LoadWorkflow, Goto, Solo, approvalVars, runVars, On
  <2>2. \A q \in Run \ {r} : pc[q] \in Busy => On(q) # On(r)
    BY <2>1 DEF Alone, Busy
  <2> QED BY <2>1, <2>2, AloneStep
<1>7. ASSUME NEW r \in Run, pc[r] \in Working, StepNext(r)
      PROVE  Alone'
  <2>1. Solo(r) /\ flow' = flow /\ pc'[r] \in Working \cup {"done"}
    BY <1>7, WorkFrame
  <2>2. /\ pc[r] \in Busy /\ On(r) = flow[r] /\ (On(r))' = flow[r] /\ pc'[r] # "idle"
        /\ flow[r] \in Run /\ copy[r] = wfile[flow[r]] /\ wfile[flow[r]] # None
    BY <1>7, <2>1, WorkingFacts DEF Working, Busy, On, Alone
  <2>3. \A q \in Run \ {r} : pc[q] \in Busy => On(q) # flow[r]
    BY <2>2 DEF Alone
  <2>4. /\ \A w \in Run \ {flow[r]} : wfile'[w] = wfile[w]
        /\ copy'[r] = wfile'[flow[r]] \/ pc'[r] = "done"
    <3>1. Ends(r) => pc'[r] = "done"
      BY <1>0 DEF Ends, Goto
    <3>2. CASE Rests(r)
      BY <1>0, <2>2, <3>1, <3>2 DEF Rests
    <3>3. ASSUME NEW new, Writes(r, new)
          PROVE  /\ \A w \in Run \ {flow[r]} : wfile'[w] = wfile[w]
                 /\ copy'[r] = wfile'[flow[r]] \/ pc'[r] = "done"
      BY <1>0, <2>2, <3>1, <3>3 DEF Writes
    <3>4. CASE Moves(r) \/ Settles(r)
      BY <3>1, <3>3, <3>4 DEF Moves, Settles
    <3> QED BY <1>7, <3>2, <3>4, WorkLeaves
  <2>5. pc[flow[r]] # "idle"
    BY <2>2 DEF Alone
  <2> QED BY <2>1, <2>2, <2>3, <2>4, <2>5, AloneStep DEF Working
<1>8. ASSUME NEW r \in Run, Crash(r)
      PROVE  Alone'
  <2>1. pc'[r] = "crashed" /\ Solo(r) /\ wfile' = wfile
    BY <1>0, <1>8 DEF Crash, Solo, approvalVars, runVars
  <2> QED BY <2>1, AloneStep DEF Working, Busy
<1>9. CASE DecideNext \/ UNCHANGED vars
  <2>1. UNCHANGED <<wfile, pc, copy, flow, approval, aflow>>
    BY <1>9 DEF DecideNext, DecideCheck, DecideWrite, approvalVars, runVars, vars
  <2> QED BY <2>1 DEF Alone, On
<1> QED BY <1>1, <1>3, <1>4, <1>5, <1>6, <1>7, <1>8, <1>9, StepsOfWorking DEF Next, StartNext

LEMMA InitAlone == Init => Alone
BY DEF Init, Alone, Busy, Working

THEOREM AloneHolds == ASSUME Serial PROVE Spec => [](IInv /\ Alone)
<1>1. IInv /\ Alone /\ [Next]_vars => (IInv /\ Alone)'
  BY StepInvariant, StepAlone
<1> QED BY <1>1, InitInvariant, InitAlone, PTL DEF Spec

LEMMA StepFollows ==
  ASSUME IInv, Alone, Next, NEW w \in Run, wfile[w] # None
  PROVE  CanReach(wfile[w], wfile'[w].status)
<1>0. /\ wfile \in [Run -> Record \cup {None}] /\ CanReach(wfile[w], wfile[w].status)
  BY DEF IInv, TypeOK, CanReach
<1>1. ASSUME NEW r \in Run, pc[r] \in Working, StepNext(r)
      PROVE  CanReach(wfile[w], wfile'[w].status)
  <2>1. flow[r] \in Run /\ copy[r] = wfile[flow[r]]
    BY <1>1, WorkingFacts DEF Alone
  <2>2. ASSUME NEW new, Writes(r, new), CanReach(copy[r], new.status)
        PROVE  CanReach(wfile[w], wfile'[w].status)
    BY <1>0, <2>1, <2>2 DEF Writes
  <2>3. CASE Rests(r)
    BY <1>0, <2>3 DEF Rests
  <2>4. CASE Moves(r)
    BY <2>2, <2>4 DEF Moves, Advances
  <2>5. CASE Settles(r)
    BY <1>0, <2>2, <2>5 DEF Settles, Concludes
  <2> QED BY <1>1, <2>3, <2>4, <2>5, WorkLeaves
<1>2. ASSUME NEW r \in Run, NEW v \in Run \cup {None}, StartRun(r, v)
      PROVE  wfile'[w] = wfile[w]
  BY <1>0, <1>2 DEF StartRun, Persisted, Alone
<1>3. ASSUME NEW r \in Run, StepNext(r), pc[r] \notin Working
      PROVE  wfile' = wfile
  BY <1>3, StepsOfWorking DEF ReadApproval, LoadWorkflow
<1> QED BY <1>0, <1>1, <1>2, <1>3
        DEF Next, StartNext, Resume, RunWithApproval, Crash, DecideNext, DecideCheck, DecideWrite

\* A status changes only as the table of the documents says, so a workflow that
\* succeeded or failed stays so, whatever crashes and operators do: all it takes
\* is that a workflow is not resumed while a run works on it.
THEOREM SerialFollowsLifecycle == Serial /\ Spec => FollowsLifecycle
<1> SUFFICES ASSUME Serial PROVE Spec => FollowsLifecycle
  OBVIOUS
<1>1. IInv /\ Alone /\ [Next]_vars
        => [\A w \in Run : wfile[w] # None => CanReach(wfile[w], wfile'[w].status)]_vars
  BY StepFollows
<1>2. Spec => [](IInv /\ Alone)
  BY AloneHolds
<1> QED BY <1>1, <1>2, PTL DEF Spec, FollowsLifecycle

-----------------------------------------------------------------------------
(* The calls of a workflow *)

\* Its action was done with the retries on record, or is being done.
Spent(w) == wfile[w].at = FinishStep \/ \E r \in Run : pc[r] = "called" /\ flow[r] = w

Within(w) ==
  wfile[w] # None /\ wfile[w].status # "failed"
    => Cardinality(CallsFor(w)) <= wfile[w].used + IF Spent(w) THEN 1 ELSE 0

Accounted == \A w \in Run : IsFiniteSet(CallsFor(w)) /\ Within(w)

LEMMA InitAccounted == Init => Accounted
<1> SUFFICES ASSUME Init, NEW w \in Run PROVE IsFiniteSet(CallsFor(w)) /\ Within(w)
  BY DEF Accounted
<1>1. CallsFor(w) = {}
  BY DEF Init, CallsFor, Called
<1>2. wfile[w] = None
  BY DEF Init
<1> QED BY <1>1, <1>2, FS_EmptySet DEF Within

\* No call is made, and none is attributed to another workflow.
LEMMA SameCalls ==
  ASSUME IInv, outcome' = outcome, NEW w \in Run,
         \A q \in Run : flow[q] # None => flow'[q] = flow[q]
  PROVE  CallsFor(w)' = CallsFor(w)
BY DEF IInv, RunOK, CallsFor, Called

LEMMA QuietAccounted ==
  ASSUME IInv, Accounted, UNCHANGED <<outcome, wfile>>,
         \A q \in Run : flow[q] # None => flow'[q] = flow[q],
         \A q \in Run : (pc[q] = "called" <=> pc'[q] = "called")
  PROVE  Accounted'
<1> SUFFICES ASSUME NEW w \in Run PROVE (IsFiniteSet(CallsFor(w)) /\ Within(w))'
  BY DEF Accounted
<1>1. CallsFor(w)' = CallsFor(w)
  BY SameCalls
<1>2. (Spent(w))' <=> Spent(w)
  <2>1. \A q \in Run : pc[q] = "called" => flow[q] # None /\ flow'[q] = flow[q]
    BY WorkingFacts, NoneAssumption DEF Working
  <2> QED BY <2>1 DEF Spent
<1> QED BY <1>1, <1>2 DEF Accounted, Within

\* A run that has loaded its workflow and finds it not failed
LEMMA RecordFacts ==
  ASSUME IInv, Alone, NEW r \in Run, pc[r] \in Working
  PROVE  /\ flow[r] \in Run /\ wfile[flow[r]] = copy[r] /\ copy[r] \in Record
         /\ copy[r].used \in Nat
         /\ \A q \in Run \ {r} : pc[q] = "called" => flow[q] # flow[r]
         /\ pc[r] = "called" <=> \E q \in Run : pc[q] = "called" /\ flow[q] = flow[r]
<1>1. /\ flow[r] \in Run /\ wfile[flow[r]] = copy[r] /\ copy[r] \in Record
      /\ copy[r].used \in Nat
  BY WorkingFacts DEF Alone, Record
<1>2. \A q \in Run \ {r} : pc[q] = "called" => flow[q] # flow[r]
  BY DEF Alone, On, Working, Busy
<1> QED BY <1>1, <1>2

LEMMA CallAccounted ==
  ASSUME IInv, Alone, Accounted, NEW r \in Run, NEW o \in Outcome, CallAction(r, o)
  PROVE  Accounted'
<1>0. PICK f \in Run : f = flow[r]
  BY RecordFacts DEF CallAction, Working
<1>1. /\ pc[r] = "call" /\ pc[r] \in Working /\ outcome[r] = None /\ copy[r].at = ActionStep
  BY DEF CallAction, IInv, RunOK, Working, Ended
<1>2. /\ wfile' = wfile /\ flow' = flow /\ outcome'[r] # None /\ pc'[r] = "called"
      /\ \A q \in Run \ {r} : outcome'[q] = outcome[q] /\ pc'[q] = pc[q]
  BY NoneAssumption DEF CallAction, Goto, IInv, TypeOK
<1>3. /\ f \in Run /\ wfile[f] = copy[r] /\ copy[r] \in Record /\ copy[r].used \in Nat
      /\ \A q \in Run \ {r} : pc[q] = "called" => flow[q] # f
  BY <1>0, <1>1, RecordFacts
<1>4. ~ Spent(f) /\ (Spent(f))'
  BY <1>0, <1>1, <1>2, <1>3, StepFacts DEF Spent
<1>5. CallsFor(f)' = CallsFor(f) \cup {r} /\ r \notin CallsFor(f)
  BY <1>0, <1>1, <1>2, <1>3 DEF CallsFor, Called
<1>6. /\ IsFiniteSet(CallsFor(f)')
      /\ Cardinality(CallsFor(f)') = Cardinality(CallsFor(f)) + 1
      /\ Cardinality(CallsFor(f)) \in Nat
  BY <1>3, <1>5, FS_AddElement, FS_CardinalityType DEF Accounted
<1>7. (Within(f))'
  <2>1. wfile[f].status # "failed" => Cardinality(CallsFor(f)) <= wfile[f].used
    BY <1>3, <1>4, <1>6, NoneAssumption DEF Accounted, Within
  <2> QED BY <1>2, <1>3, <1>4, <1>6, <2>1 DEF Within
<1>8. ASSUME NEW w \in Run \ {f}
      PROVE  (IsFiniteSet(CallsFor(w)) /\ Within(w))'
  <2>1. CallsFor(w)' = CallsFor(w) /\ ((Spent(w))' <=> Spent(w))
    BY <1>0, <1>2, <1>8 DEF CallsFor, Called, Spent
  <2> QED BY <1>2, <2>1 DEF Accounted, Within
<1> QED BY <1>3, <1>6, <1>7, <1>8 DEF Accounted

\* What the step of a working run writes agrees with the calls there were.
LEMMA WriteAccounted ==
  ASSUME IInv, Alone, Accounted, NEW r \in Run, pc[r] \in Working, Solo(r), flow' = flow,
         pc'[r] # "called", outcome' = outcome,
         NEW new \in Record, wfile' = [wfile EXCEPT ![flow[r]] = new],
         new.status # "failed" =>
           /\ copy[r].status # "failed"
           /\ \/ new.used = copy[r].used + 1
              \/ new.used = copy[r].used /\ new.at = FinishStep
              \/ /\ new.used = copy[r].used /\ pc[r] # "called"
                 /\ copy[r].at # FinishStep
  PROVE  Accounted'
<1>0. PICK f \in Run : f = flow[r]
  BY RecordFacts
<1>1. /\ f \in Run /\ wfile[f] = copy[r] /\ copy[r] \in Record /\ copy[r].used \in Nat
      /\ \A q \in Run \ {r} : pc[q] = "called" => flow[q] # f
  BY <1>0, RecordFacts
<1>2. \A w \in Run : CallsFor(w)' = CallsFor(w)
  BY DEF CallsFor, Called
<1>3. (Within(f))'
  <2>1. wfile'[f] = new /\ new.used \in Nat
    BY <1>0, <1>1 DEF IInv, TypeOK, Record
  <2>2. Cardinality(CallsFor(f)) \in Nat
    BY <1>1, FS_CardinalityType DEF Accounted
  <2>3. copy[r].status # "failed" =>
          Cardinality(CallsFor(f)) <= copy[r].used + IF Spent(f) THEN 1 ELSE 0
    BY <1>1, NoneAssumption DEF Accounted, Within
  <2>4. new.at = FinishStep => (Spent(f))'
    BY <2>1 DEF Spent
  <2>5. pc[r] # "called" /\ copy[r].at # FinishStep => ~ Spent(f)
    BY <1>1 DEF Spent
  <2> QED BY <1>1, <1>2, <2>1, <2>2, <2>3, <2>4, <2>5 DEF Within
<1>4. ASSUME NEW w \in Run \ {f}
      PROVE  (Within(w))'
  <2>1. wfile'[w] = wfile[w]
    BY <1>0, <1>4 DEF IInv, TypeOK
  <2>2. (Spent(w))' <=> Spent(w)
    BY <1>0, <1>4, <2>1 DEF Spent, Solo
  <2> QED BY <1>2, <2>1, <2>2 DEF Accounted, Within
<1> QED BY <1>2, <1>3, <1>4 DEF Accounted

LEMMA WorkAccounted ==
  ASSUME IInv, Alone, Accounted, NEW r \in Run, pc[r] \in Working, StepNext(r)
  PROVE  Accounted'
<1>1. Solo(r) /\ flow' = flow
  BY WorkFrame
<1>2. copy[r] \in Record /\ copy[r].status \in WorkflowStatus
  BY RecordFacts DEF Record
<1>3. \A status \in {"waiting", "running", "succeeded"} : CanReach(copy[r], status) => copy[r].status # "failed"
  BY <1>2 DEF CanReach, CanTransition, WorkflowTransitions
<1>4. ASSUME NEW new \in Record, CanReach(copy[r], new.status), new.status # "failed"
      PROVE  copy[r].status # "failed"
  BY <1>3, <1>4 DEF Record, WorkflowStatus, WorkflowTransitions
<1>5. CASE Rests(r)
  BY <1>1, <1>5, CallAccounted, QuietAccounted DEF Rests, Solo
<1>6. CASE Moves(r)
  <2>1. PICK new : Writes(r, new) /\ Advances(copy[r], new)
    BY <1>6 DEF Moves
  <2> QED BY <1>1, <1>4, <1>6, <2>1, WriteAccounted DEF Moves, Advances, Writes
<1>7. CASE Settles(r)
  <2>1. CASE \E new : Writes(r, new) /\ Concludes(copy[r], new)
    <3>1. PICK new : Writes(r, new) /\ Concludes(copy[r], new)
      BY <2>1
    <3> QED BY <1>1, <1>4, <1>7, <3>1, WriteAccounted DEF Settles, Concludes, Writes
  <2>2. CASE copy[r].status = "failed" /\ wfile' = wfile
    <3>1. wfile' = [wfile EXCEPT ![flow[r]] = copy[r]]
      BY <2>2, RecordFacts DEF IInv, TypeOK
    <3> QED BY <1>1, <1>2, <1>7, <2>2, <3>1, WriteAccounted DEF Settles
  <2> QED BY <1>7, <2>1, <2>2 DEF Settles
<1> QED BY <1>5, <1>6, <1>7, WorkLeaves

LEMMA StepAccounted ==
  ASSUME ~ Crashes, IInv, Alone, Accounted, [Next]_vars
  PROVE  Accounted'
<1>0. /\ pc \in [Run -> Ended \cup Busy] /\ flow \in [Run -> Run \cup {None}]
      /\ wfile \in [Run -> Record \cup {None}]
  BY DEF IInv, TypeOK
<1>1. ASSUME NEW r \in Run, NEW v \in Run \cup {None}, StartRun(r, v)
      PROVE  Accounted'
  <2>1. /\ pc[r] = "idle" /\ wfile[r] = None /\ pc'[r] = "step" /\ outcome' = outcome
        /\ flow[r] = None /\ wfile'[r] = CreateWorkflowState
        /\ \A q \in Run \ {r} : pc'[q] = pc[q] /\ flow'[q] = flow[q] /\ wfile'[q] = wfile[q]
    BY <1>0, <1>1 DEF StartRun, Goto, Persisted, Alone, IInv, RunOK
  <2>2. \A q \in Run : flow[q] # None => flow'[q] = flow[q]
    BY <2>1
  <2>3. CallsFor(r)' = {}
    <3>1. CallsFor(r) = {}
      BY <2>1, NoneAssumption DEF CallsFor, Called, IInv, RunOK
    <3> QED BY <2>1, <2>2, <3>1, SameCalls
  <2>4. (IsFiniteSet(CallsFor(r)) /\ Within(r))'
    <3>1. wfile'[r].used = 0 /\ CreateWorkflowState # None
      BY <2>1, CreateLive, NoneAssumption DEF CreateWorkflowState
    <3> QED BY <2>3, <3>1, FS_EmptySet DEF Within
  <2>5. ASSUME NEW w \in Run \ {r}
        PROVE  (IsFiniteSet(CallsFor(w)) /\ Within(w))'
    <3>1. CallsFor(w)' = CallsFor(w) /\ wfile'[w] = wfile[w]
      BY <2>1, <2>2, <2>5, SameCalls
    <3>2. (Spent(w))' <=> Spent(w)
      BY <2>1, <2>5, <3>1 DEF Spent
    <3> QED BY <3>1, <3>2 DEF Accounted, Within
  <2> QED BY <2>4, <2>5 DEF Accounted
<1>2. ASSUME NEW r \in Run, StepNext(r), pc[r] \notin Working
      PROVE  Accounted'
  <2>1. /\ UNCHANGED <<outcome, wfile>> /\ pc[r] # "called" /\ pc'[r] # "called"
        /\ \A q \in Run \ {r} : pc'[q] = pc[q] /\ flow'[q] = flow[q]
        /\ flow[r] # None => flow'[r] = flow[r]
    BY <1>0, <1>2, StepsOfWorking
       DEF ReadApproval, LoadWorkflow, Goto, runVars, IInv, RunOK
  <2> QED BY <2>1, QuietAccounted
<1>3. ASSUME NEW r \in Run, pc[r] = "idle", Goto(r, "open"), UNCHANGED <<outcome, wfile, flow>>
      PROVE  Accounted'
  BY <1>0, <1>3, QuietAccounted DEF Goto
<1>4. CASE DecideNext \/ UNCHANGED vars
  BY <1>4, QuietAccounted
     DEF DecideNext, DecideCheck, DecideWrite, runVars, vars
<1>5. ASSUME NEW r \in Run
      PROVE  /\ \A w \in Run : Resume(r, w) => Accounted'
             /\ \A a \in Run : RunWithApproval(r, a) => Accounted'
  BY <1>3 DEF Resume, RunWithApproval
<1> QED BY <1>1, <1>2, <1>4, <1>5, WorkAccounted DEF Next, StartNext, Crash

\* Until a workflow fails, its action is called once and once more for each
\* retry on record, whatever operators decide and however resumes follow each
\* other, while processes live and a workflow has one run at a time.
THEOREM SerialCallsAccounted == Serial /\ ~ Crashes /\ Spec => []CallsAccounted
<1> SUFFICES ASSUME Serial, ~ Crashes PROVE Spec => []CallsAccounted
  OBVIOUS
<1>1. IInv /\ Alone /\ Accounted /\ [Next]_vars => Accounted'
  BY StepAccounted
<1>2. IInv /\ Accounted => CallsAccounted
  <2> SUFFICES ASSUME IInv, Accounted, NEW w \in Run, wfile[w] # None, wfile[w].status # "failed"
               PROVE  Cardinality(CallsFor(w)) <= wfile[w].used + 1
    BY DEF CallsAccounted
  <2>1. wfile[w].used \in Nat /\ Cardinality(CallsFor(w)) \in Nat
    BY FS_CardinalityType DEF IInv, TypeOK, Record, Accounted
  <2>2. Cardinality(CallsFor(w)) <= wfile[w].used + IF Spent(w) THEN 1 ELSE 0
    BY DEF Accounted, Within
  <2> QED BY <2>1, <2>2
<1>3. Spec => [](IInv /\ Alone)
  BY AloneHolds
<1> QED BY <1>1, <1>2, <1>3, InitAccounted, PTL DEF Spec

=============================================================================
