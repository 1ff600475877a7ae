--------------------------- MODULE PolicyDecision ---------------------------
(***************************************************************************)
(* The policy decision of AgentHQ: which policy rules apply to a call, the *)
(* rule that wins, and the effect when none applies.  A rule is a record   *)
(*                                                                         *)
(*   [id, scope, agent, tool, risk, effect, priority]                      *)
(*                                                                         *)
(* whose agent (tool) is None unless its scope needs it, which is what     *)
(* validate_scope of services/policy_rules.py lets through.  The sets of   *)
(* rules below hold the enabled, not deleted rules of one organization:    *)
(* the rows every query on policy rules asks for.                          *)
(***************************************************************************)
EXTENDS Naturals

CONSTANT None    \* the absent value: no agent, no tool, no rule, no key ...

Scopes      == {"global", "agent", "tool"}
RiskLevels  == {"low", "medium", "high", "critical"}
Effects     == {"allow", "block", "require_approval"}

RiskSeverity == [low |-> 1, medium |-> 2, high |-> 3, critical |-> 4]
ScopeRank    == [tool |-> 0, agent |-> 1, global |-> 2]

ScopeMatches(rule, agent, tool) ==
    \/ rule.scope = "global"
    \/ rule.scope = "agent" /\ rule.agent = agent
    \/ rule.scope = "tool"  /\ rule.agent = agent /\ rule.tool = tool

MatchingRules(rules, agent, tool, risk) ==
    {r \in rules : /\ ScopeMatches(r, agent, tool)
                   /\ RiskSeverity[risk] >= RiskSeverity[r.risk]}

(***************************************************************************)
(* The sort key (scope rank, priority, minus severity): r sorts strictly   *)
(* before s.  The query has no ORDER BY, so among rules with equal keys    *)
(* any may come first: BestRules is the set of the possible winners.       *)
(***************************************************************************)
SortsBefore(r, s) ==
    LET rr == ScopeRank[r.scope]
        rs == ScopeRank[s.scope]
    IN  \/ rr < rs
        \/ rr = rs /\ r.priority < s.priority
        \/ /\ rr = rs /\ r.priority = s.priority
           /\ RiskSeverity[r.risk] > RiskSeverity[s.risk]

BestRules(matching) ==
    {r \in matching : \A s \in matching : ~SortsBefore(s, r)}

DefaultEffect(risk) ==
    IF risk \in {"low", "medium"} THEN "allow" ELSE "require_approval"

\* Every response evaluate_policy_decision can give: an effect and the rule
\* it comes from.
Decisions(rules, agent, tool, risk) ==
    LET matching == MatchingRules(rules, agent, tool, risk)
    IN  IF matching = {}
        THEN {[effect |-> DefaultEffect(risk), rule |-> None]}
        ELSE {[effect |-> r.effect, rule |-> r.id] : r \in BestRules(matching)}

\* The response of the fail-closed handler of services/executions.py.
FailClosed == [effect |-> "block", rule |-> None]
=============================================================================
