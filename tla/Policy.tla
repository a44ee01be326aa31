------------------------------- MODULE Policy -------------------------------
(***************************************************************************)
(* The policies of agents (runtime/policy.py): which rules are accepted,   *)
(* how an agent's own rules are added to those of its policy, and what a   *)
(* policy makes of an action.  AgentRun takes the outcome as its constant  *)
(* Decision.                                                               *)
(*                                                                         *)
(* A list of patterns is the set of the names that fnmatch finds in it;    *)
(* the order of rules only decides which scope a message names.            *)
(***************************************************************************)

CONSTANTS
  Capability,   \* CAPABILITY_CLASSES
  Name,         \* paths, domains, commands, memory types and scope kinds
  InRepository, \* the names that are paths inside the repository
  None

Key == {"paths", "domains", "commands", "memory_types", "scope_kinds"}
List == {"deny", "approval", "allow"}

\* broad: the keys whose list has a pattern for everything
Rule ==
  [capability: Capability, keys: SUBSET Key, names: [Key -> SUBSET Name], broad: SUBSET Key]

Policy == [List -> SUBSET Rule]

\* PolicyAction: a field for each key, or None
Action == [capability: Capability, target: [Key -> Name \cup {None}]]

-----------------------------------------------------------------------------
(* What a policy makes of an action *)

\* The keys that rule_matches looks at: of a rule with several it takes the
\* first, but memory_types and scope_kinds together.
Regarded(rule) ==
  IF "paths" \in rule.keys THEN {"paths"}
  ELSE IF "domains" \in rule.keys THEN {"domains"}
  ELSE IF "commands" \in rule.keys THEN {"commands"}
  ELSE rule.keys \cap {"memory_types", "scope_kinds"}

\* normalize_repo_relative_path gives None for a path outside.
Names(action, key) ==
  /\ action.target[key] # None
  /\ key = "paths" => action.target[key] \in InRepository

RuleMatches(rule, action) ==
  /\ rule.capability = action.capability
  /\ \A key \in Regarded(rule) : Names(action, key) /\ action.target[key] \in rule.names[key]

Matched(rules, action) == \E rule \in rules : RuleMatches(rule, action)

\* evaluate_policy
Evaluate(policy, action) ==
  IF Matched(policy["deny"], action) THEN "denied"
  ELSE IF Matched(policy["approval"], action) THEN "approval"
  ELSE IF Matched(policy["allow"], action) THEN "allowed"
  ELSE "denied"

-----------------------------------------------------------------------------
(* Which rules an agent gets *)

\* rule_contains_broad_pattern, also of a list that is missing
Broad(rule, key) == key \notin rule.keys \/ key \in rule.broad

Explicit(rule) ==
  /\ rule.capability = "exec" => ~ Broad(rule, "commands")
  /\ rule.capability = "http" => ~ Broad(rule, "domains")
  /\ rule.capability = "file_write" => ~ Broad(rule, "paths")

\* validate_rule raises for no rule of the policy.  It exempts the lists that
\* are called "deny"; those of an agent are called "agent.deny" and so on.
ValidRules(policy, exempt, production) ==
  production => \A list \in List \ exempt : \A rule \in policy[list] : Explicit(rule)

\* validate_policy_rules does not raise.
ValidPolicy(policy, production) ==
  /\ ValidRules(policy, {"deny"}, production)
  /\ production => {"file_write", "http"} \subseteq {rule.capability : rule \in policy["deny"]}

\* build_agent_policy does not raise.
MayBuild(policy, own, production, overrides) ==
  /\ ValidPolicy(policy, production)
  /\ production /\ ~ overrides => \A list \in List : own[list] = {}
  /\ ValidRules(own, {}, production)

BuildAgentPolicy(policy, own) == [list \in List |-> policy[list] \cup own[list]]

=============================================================================
