------------------------------ MODULE MCAgentRun ------------------------------
(* Values for the constants of AgentRun. *)
EXTENDS AgentRun, TLC

CONSTANTS r1, r2, r3, o1, o2

\* Every request needs an approval.
MCDecision == [r \in Run |-> "approval"]

\* No request needs one.
MCAllowed == [r \in Run |-> "allowed"]

\* The policy approval_exec of config/policies.yaml and one request of each kind:
\* it wants an approval for `echo`, allows the model, and denies the web.
P == INSTANCE Policy WITH Capability <- {"exec", "model_call", "http"}, Name <- {"echo", "site"},
                          InRepository <- {}

RuleFor(capability, keys) ==
  [capability |-> capability, keys |-> keys, names |-> [k \in P!Key |-> {"echo"}], broad |-> {}]
ApprovalExec ==
  [deny |-> {RuleFor("http", {})}, approval |-> {RuleFor("exec", {"commands"})},
   allow |-> {RuleFor("model_call", {})}]
ActionFor(capability, key, name) ==
  [capability |-> capability, target |-> [k \in P!Key |-> IF k = key THEN name ELSE None]]
ActionOf(r) ==
  CASE r = r1 -> ActionFor("exec", "commands", "echo")
    [] r = r2 -> ActionFor("model_call", "commands", None)
    [] OTHER  -> ActionFor("http", "domains", "site")

MCDecisionMixed == [r \in Run |-> P!Evaluate(ApprovalExec, ActionOf(r))]

Interchangeable == Permutations(Run) \cup Permutations(Operator)

===============================================================================
