------------------------------ MODULE Posture ------------------------------
(***************************************************************************)
(* What AgentHQ says of its tools, computed from the catalogue: which      *)
(* policies apply to a tool, its governance status, policy coverage and    *)
(* compliance, the alerts it calls for, the scores, and what the policy    *)
(* simulator foretells of a rule that is not written yet.                  *)
(*                                                                         *)
(* A tool is a record with the fields id, agent, reviewed, risk,           *)
(* permission and enabled; rules are the records of PolicyDecision; the    *)
(* operators take the set of enabled, not deleted rules.                   *)
(***************************************************************************)
EXTENDS PolicyDecision, FiniteSets

HighRisks == {"high", "critical"}

-----------------------------------------------------------------------------
(* Governance status and policy coverage.                                  *)

\* A rule of scope tool is recognized by its tool alone here, by its agent
\* and its tool in ScopeMatches.
AppliesTo(rule, tool) ==
    \/ rule.scope = "global"
    \/ rule.scope = "agent" /\ rule.agent = tool.agent
    \/ rule.scope = "tool"  /\ rule.tool = tool.id

ApplicablePolicies(tool, rules) == {r \in rules : AppliesTo(r, tool)}

IsCovered(tool, rules) == ApplicablePolicies(tool, rules) # {}

GovernanceStatus(tool, rules) ==
    IF ~tool.reviewed THEN "unreviewed"
    ELSE IF IsCovered(tool, rules) THEN "governed" ELSE "reviewed"

PolicyCoverage(tool, rules) ==
    LET applicable == ApplicablePolicies(tool, rules)
    IN  IF applicable = {} THEN "uncovered"
        ELSE IF \E r \in applicable : r.scope \in {"agent", "tool"} THEN "covered"
        ELSE "partially_covered"

-----------------------------------------------------------------------------
(* Compliance.  Only the built-in controls have a test, all of them are    *)
(* created enabled with these severities, and no operation changes one.    *)

ControlSeverity == [CONTROL_001 |-> "high", CONTROL_002 |-> "critical",
                    CONTROL_003 |-> "high", CONTROL_004 |-> "critical",
                    CONTROL_005 |-> "high"]

RequiresApproval(tool, rules) ==
    \E r \in ApplicablePolicies(tool, rules) :
        /\ r.effect = "require_approval"
        /\ RiskSeverity[tool.risk] >= RiskSeverity[r.risk]

Violates(control, tool, rules, governance) ==
    \/ /\ control = "CONTROL_001" /\ tool.risk = "high"
       /\ ~RequiresApproval(tool, rules)
    \/ /\ control = "CONTROL_002" /\ tool.risk = "critical"
       /\ ~RequiresApproval(tool, rules)
    \/ /\ control = "CONTROL_003" /\ tool.permission = "write"
       /\ governance # "governed"
    \/ control = "CONTROL_004" /\ tool.risk = "critical" /\ ~tool.reviewed
    \/ control = "CONTROL_005" /\ tool.enabled /\ ~IsCovered(tool, rules)

ViolatedControls(tool, rules, governance) ==
    {c \in DOMAIN ControlSeverity : Violates(c, tool, rules, governance)}

ComplianceStatusFor(violations) ==
    IF violations = {} THEN "compliant"
    ELSE IF \E c \in violations : ControlSeverity[c] \in HighRisks
    THEN "non_compliant" ELSE "warning"

\* A row of ai_risk_register; the columns that name other rows are left out.
RiskRecord(tool, rules) ==
    LET governance == GovernanceStatus(tool, rules)
    IN  [risk |-> tool.risk, governance |-> governance,
         coverage |-> PolicyCoverage(tool, rules),
         compliance |-> ComplianceStatusFor(ViolatedControls(tool, rules, governance))]

-----------------------------------------------------------------------------
(* Alerts.  An opinion on an alert of a tool: it should be active, it      *)
(* should not, or no opinion.                                              *)

ToolAlertKinds == {"high_risk_unreviewed", "ungoverned_tool", "policy_coverage_lost"}
RiskAlertKinds == {"compliance_non_compliant", "critical_policy_coverage_lost",
                   "critical_tool_unreviewed"}
EventAlertKinds == {"new_tool_discovered", "description_changed", "schema_changed",
                    "tool_removed"}

Opinion(wanted) == IF wanted THEN "active" ELSE "resolved"

\* reconcile_tool_pending; lost: the tool was covered before the rule changed.
ToolAlertOpinion(kind, tool, rules, lost) ==
    CASE kind = "high_risk_unreviewed" ->
            Opinion(~tool.reviewed /\ tool.risk \in HighRisks)
      [] kind = "ungoverned_tool" ->
            Opinion(~(tool.reviewed /\ IsCovered(tool, rules)))
      [] kind = "policy_coverage_lost" ->
            IF lost THEN "active"
            ELSE IF IsCovered(tool, rules) THEN "resolved" ELSE "none"

\* Variant: only a warning is an alert.
OpinionOnWarning(kind, tool, record) ==
    CASE kind = "compliance_non_compliant" ->
            Opinion(record.compliance = "warning")
      [] kind = "critical_policy_coverage_lost" ->
            Opinion(tool.risk = "critical" /\ record.coverage = "uncovered")
      [] kind = "critical_tool_unreviewed" ->
            Opinion(tool.risk = "critical" /\ record.governance = "unreviewed")

\* reconcile_compliance_alerts
RiskAlertOpinion(kind, tool, record) ==
    CASE kind = "compliance_non_compliant" ->
            Opinion(record.compliance = "non_compliant")
      [] kind = "critical_policy_coverage_lost" ->
            Opinion(tool.risk = "critical" /\ record.coverage = "uncovered")
      [] kind = "critical_tool_unreviewed" ->
            Opinion(tool.risk = "critical" /\ record.governance = "unreviewed")

AlertSeverity(kind, tool) ==
    CASE kind = "ungoverned_tool" -> IF tool.risk \in HighRisks THEN "high" ELSE "medium"
      [] kind \in {"critical_policy_coverage_lost", "critical_tool_unreviewed"} -> "critical"
      [] kind = "new_tool_discovered" -> "medium"
      [] kind = "description_changed" -> "low"
      [] OTHER -> "high"

-----------------------------------------------------------------------------
(* Scores.  tools: the discovered tools; critical, high: the numbers of    *)
(* active alerts of these severities; records: the rows of those tools.    *)

Floor(n) == IF n < 0 THEN 0 ELSE n
Deduct(total) == IF total > 100 THEN 0 ELSE 100 - total

\* calculate_health over what get_health counts.
HealthScore(tools, rules, critical, high) ==
    LET unreviewed == {t \in tools : ~t.reviewed}
        ungoverned == {t \in tools : GovernanceStatus(t, rules) # "governed"}
    IN  Deduct(  2 * Cardinality(unreviewed)
               + 10 * Cardinality({t \in unreviewed : t.risk \in HighRisks})
               + 5 * Cardinality(ungoverned) + 15 * critical + 8 * high)

\* calculate_risk_score over the items of the register.
RiskScore(items, critical, high) ==
    LET grave == {i \in DOMAIN items : items[i].risk = "critical"}
        Count(S) == Cardinality(S)
    IN  Deduct(  15 * Count({i \in grave : items[i].governance = "unreviewed"})
               + 12 * Count({i \in grave : items[i].governance # "governed"})
               + 5 * Count({i \in DOMAIN items : items[i].coverage = "uncovered"})
               + 8 * Count({i \in DOMAIN items : items[i].compliance = "non_compliant"})
               + 10 * critical + 5 * high)

\* evaluate_items: Python rounds a tie to the even number, this upwards.
ComplianceScore(items) ==
    LET Count(status) == Cardinality({i \in DOMAIN items : items[i].compliance = status})
        n == Cardinality(DOMAIN items)
        lost == 2 * Count("non_compliant") + Count("warning")
    IN  IF n = 0 THEN 100 ELSE (100 * (2 * n - lost) + n) \div (2 * n)

-----------------------------------------------------------------------------
(* The policy simulator.  A proposal is a rule, with enabled; base: the    *)
(* rules without the one the proposal replaces.                            *)

ProposalAffects(p, tool) ==
    /\ ScopeMatches(p, tool.agent, tool.id)
    /\ RiskSeverity[tool.risk] >= RiskSeverity[p.risk]

\* matching_rules
RulesMatching(tool, rules) ==
    {r \in ApplicablePolicies(tool, rules) :
        RiskSeverity[tool.risk] >= RiskSeverity[r.risk]}

\* current_effect: the winner among equally ranked rules may be any of them.
CurrentEffects(tool, rules) ==
    LET matching == RulesMatching(tool, rules)
    IN  IF matching = {} THEN {DefaultEffect(tool.risk)}
        ELSE {r.effect : r \in BestRules(matching)}

\* Variant: the rank of the proposal without its priority.
ProposedWinsByScope(p, tool, base) ==
    /\ p.enabled /\ ProposalAffects(p, tool)
    /\ \A r \in BestRules(RulesMatching(tool, base)) :
          ScopeRank[p.scope] <= ScopeRank[r.scope]

\* Strictly before the current winner: of equals the existing rule wins.
ProposedWins(p, tool, base) ==
    /\ p.enabled /\ ProposalAffects(p, tool)
    /\ \A r \in BestRules(RulesMatching(tool, base)) : SortsBefore(p, r)

ForetoldEffects(p, tool, base) ==
    IF ProposedWins(p, tool, base) THEN {p.effect} ELSE CurrentEffects(tool, base)

Governed(tools, rules) ==
    {t \in tools : t.reviewed /\ IsCovered(t, rules)}

ForetoldGoverned(p, tools, base) ==
    Governed(tools, base) \cup
        {t \in tools : p.enabled /\ t.reviewed /\ ScopeMatches(p, t.agent, t.id)}

\* governance_gaps_resolved: current is the set of rules in force.
GapsResolved(p, tools, current, base) ==
    ForetoldGoverned(p, tools, base) \ Governed(tools, current)

\* The conflicting overlaps the simulator warns of.
ConflictWarnings(p, tool, base) ==
    IF p.enabled /\ ProposalAffects(p, tool)
    THEN {r \in RulesMatching(tool, base) : r.effect # p.effect}
    ELSE {}
=============================================================================
