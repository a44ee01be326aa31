---------------------------- MODULE PolicyProofs ----------------------------
(***************************************************************************)
(* What an agent's own rules cannot do, whatever the rules are, and what   *)
(* the checks of a production deployment guarantee.                        *)
(***************************************************************************)
EXTENDS Policy, TLAPS

\* More rules match whatever fewer rules match.
LEMMA MatchedMore ==
  ASSUME NEW rules, NEW more, NEW action, Matched(rules, action)
  PROVE  Matched(rules \cup more, action)
BY DEF Matched

LEMMA BuiltLists ==
  ASSUME NEW policy, NEW own, NEW list \in List
  PROVE  BuildAgentPolicy(policy, own)[list] = policy[list] \cup own[list]
BY DEF BuildAgentPolicy

\* An agent's own rules undo no rule of its policy that denies or asks for an
\* approval: what the policy denies by a rule stays denied, and what needs an
\* approval is never simply allowed.  (They may allow what no rule denies.)
THEOREM OwnRulesUndoNothing ==
  ASSUME NEW policy, NEW own, NEW action
  PROVE  /\ Matched(policy["deny"], action)
              => Evaluate(BuildAgentPolicy(policy, own), action) = "denied"
         /\ Evaluate(policy, action) = "approval"
              => Evaluate(BuildAgentPolicy(policy, own), action) \in {"approval", "denied"}
<1> DEFINE built == BuildAgentPolicy(policy, own)
<1>1. ASSUME NEW list \in {"deny", "approval"}, Matched(policy[list], action)
      PROVE  Matched(built[list], action)
  <2>1. Matched(policy[list] \cup own[list], action)
    BY <1>1, MatchedMore
  <2>2. built[list] = policy[list] \cup own[list]
    BY <1>1, BuiltLists DEF List
  <2> QED BY <2>1, <2>2
<1>2. Matched(policy["deny"], action) => Evaluate(built, action) = "denied"
  BY <1>1 DEF Evaluate
<1>3. ASSUME Evaluate(policy, action) = "approval"
      PROVE  Evaluate(built, action) \in {"approval", "denied"}
  <2>1. Matched(policy["approval"], action)
    BY <1>3 DEF Evaluate
  <2> QED BY <2>1, <1>1 DEF Evaluate
<1> QED BY <1>2, <1>3

\* In production, unless overrides are enabled, every agent is held to the
\* policy it names, and to nothing else.
THEOREM ProductionPolicyHolds ==
  ASSUME NEW policy, NEW own, NEW action, MayBuild(policy, own, TRUE, FALSE)
  PROVE  Evaluate(BuildAgentPolicy(policy, own), action) = Evaluate(policy, action)
<1>1. \A list \in List : own[list] = {}
  BY DEF MayBuild
<1>2. \A list \in List : BuildAgentPolicy(policy, own)[list] = policy[list]
  <2> TAKE list \in List
  <2>1. BuildAgentPolicy(policy, own)[list] = policy[list] \cup own[list]
    BY BuiltLists
  <2>2. own[list] = {}
    BY <1>1
  <2> QED BY <2>1, <2>2
<1> DEFINE built == BuildAgentPolicy(policy, own)
<1>3. built["deny"] = policy["deny"] /\ built["approval"] = policy["approval"]
        /\ built["allow"] = policy["allow"]
  BY <1>2 DEF List
<1> HIDE DEF built
<1>4. Evaluate(built, action) = Evaluate(policy, action)
  BY <1>3, Zenon DEF Evaluate
<1> QED BY <1>4 DEF built

\* In production a tool that is a command, without a path or a domain, runs -
\* approved or not - only under a rule that names the command and has no
\* pattern for everything, whoever wrote the rule and with overrides or not.
THEOREM ProductionCommandsNamed ==
  ASSUME NEW policy \in Policy, NEW own \in Policy, NEW overrides \in BOOLEAN,
         MayBuild(policy, own, TRUE, overrides),
         NEW action \in Action,
         action.capability = "exec",
         action.target["paths"] = None, action.target["domains"] = None,
         Evaluate(BuildAgentPolicy(policy, own), action) \in {"allowed", "approval"}
  PROVE  \E list \in {"allow", "approval"} :
           \E rule \in BuildAgentPolicy(policy, own)[list] :
             /\ action.target["commands"] \in rule.names["commands"]
             /\ "commands" \notin rule.broad
<1> DEFINE built == BuildAgentPolicy(policy, own)
<1>1. PICK list \in {"allow", "approval"} : Matched(built[list], action)
  BY DEF Evaluate
<1>2. PICK rule \in built[list] : RuleMatches(rule, action)
  BY <1>1 DEF Matched
<1>3. Explicit(rule)
  <2>1. rule \in policy[list] \/ rule \in own[list]
    BY <1>2, BuiltLists DEF List
  <2> QED BY <2>1 DEF MayBuild, ValidPolicy, ValidRules, List
<1>4. "commands" \in rule.keys /\ "commands" \notin rule.broad
  <2>1. rule.capability = "exec"
    BY <1>2 DEF RuleMatches
  <2> QED BY <1>3, <2>1 DEF Explicit, Broad
<1>5. "paths" \notin rule.keys /\ "domains" \notin rule.keys
  BY <1>2 DEF RuleMatches, Regarded, Names
<1>6. action.target["commands"] \in rule.names["commands"]
  BY <1>2, <1>4, <1>5 DEF RuleMatches, Regarded
<1> QED BY <1>2, <1>4, <1>6

\* A path outside the repository is allowed only by a rule that restricts no
\* paths.
THEOREM OutsideOnlyUnrestricted ==
  ASSUME NEW policy, NEW action,
         action.target["paths"] \notin InRepository,
         Evaluate(policy, action) # "denied"
  PROVE  \E list \in {"allow", "approval"} : \E rule \in policy[list] :
           RuleMatches(rule, action) /\ "paths" \notin rule.keys
<1>1. PICK list \in {"allow", "approval"} : Matched(policy[list], action)
  BY DEF Evaluate
<1>2. PICK rule \in policy[list] : RuleMatches(rule, action)
  BY <1>1 DEF Matched
<1>3. "paths" \notin rule.keys
  BY <1>2 DEF RuleMatches, Regarded, Names
<1> QED BY <1>2, <1>3

=============================================================================
