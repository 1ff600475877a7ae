------------------------ MODULE GovernanceProperties -----------------------
(***************************************************************************)
(* The governance of tools and the synchronization of servers together,    *)
(* and what is expected of them.                                           *)
(***************************************************************************)
EXTENDS ServerSync

CONSTANT ProposedBodies   \* the rules the simulator is asked about

ASSUME ProposalsAssumption == ProposedBodies \subseteq RuleBodySpace

Next == \E r \in Requests : GovernanceNext(r) \/ SyncNext(r)

Spec == GovernanceInit /\ [][Next]_governanceVars

-----------------------------------------------------------------------------
(***************************************************************************)
(* The times and users of an alert tell its status: an open alert carries  *)
(* none, an acknowledged one its acknowledgement alone, a resolved one the *)
(* time of its resolution; a transition that overlaps another request may  *)
(* leave the two apart (transition_alert of services/governance_alerts.py  *)
(* writes over whatever was committed since it loaded the row).            *)
(***************************************************************************)
FieldsMatchStatus ==
    "transition met" \in mishaps \/
    \A a \in alerts :
        /\ a.status = "open" => ~a.acked
        /\ a.status = "acknowledged" => a.acked
        /\ a.status = "resolved" <=> a.closed
        /\ a.closer => a.closed

\* Tables hold what their columns admit, and alerts times and users that agree
\* with their status.
GovernanceTypeOK ==
    /\ agents \in [Agents -> {"absent", "live", "deleted"}]
    /\ servers \in [Servers -> ServerRows]
    /\ tools \in [Tools -> ToolRows]
    /\ rules \in [RuleIds -> RuleRows \cup {None}]
    /\ alerts \subseteq AlertRows
    /\ records \in [Tools -> RecordRows \cup {None}]
    /\ {controls, snapshot, trusted} \subseteq BOOLEAN
    /\ DOMAIN requests = Requests
    /\ FieldsMatchStatus

Idle == \A r \in Requests : ~InProgress(r)

\* Alerts that have never been active twice.
IsActive(kind, t) ==
    Of(ActiveAlerts, <<kind, t, tools[t].server>>) # {}
Single(kind, t) == <<kind, t, tools[t].server>> \notin doubled

(***************************************************************************)
(* After an operation on a rule that ran alone to its end, and as long as  *)
(* whatever follows runs alone to its end, the projections agree with the  *)
(* catalogue whenever nothing is in progress: the record of each           *)
(* discovered tool is what its rules and its review make it, its alerts    *)
(* are active when they are due and only then, and no alert of lost        *)
(* coverage outlives the return of a policy.  The operations reconcile     *)
(* different things in different transactions (services/policy_rules.py,   *)
(* review_tool, update_agent_tool, sync_mcp_server): together they leave   *)
(* nothing out.  An alert that overlapping reconciliations, or people who  *)
(* reopened it, have ever doubled may outlive its cause, as one of the two *)
(* is resolved at a time; it is still active when it is due.               *)
(***************************************************************************)
PostureAgrees ==
    trusted /\ Idle =>
        \A t \in Discovered :
            LET tool == tools[t]
                record == RiskRecord(tool, EnabledRules)
                Due(kind) ==
                    CASE kind = "high_risk_unreviewed" ->
                            ~tool.reviewed /\ tool.risk \in HighRisks
                      [] kind = "ungoverned_tool" -> record.governance # "governed"
                      [] kind = "compliance_non_compliant" ->
                            record.compliance = "non_compliant"
                      [] kind = "critical_policy_coverage_lost" ->
                            tool.risk = "critical" /\ record.coverage = "uncovered"
                      [] kind = "critical_tool_unreviewed" ->
                            tool.risk = "critical" /\ ~tool.reviewed
            IN  /\ records[t] = record
                /\ \A k \in (ToolAlertKinds \cup RiskAlertKinds) \ {"policy_coverage_lost"} :
                      /\ Due(k) => IsActive(k, t)
                      /\ Single(k, t) /\ IsActive(k, t) => Due(k)
                /\ IsActive("policy_coverage_lost", t) /\ Single("policy_coverage_lost", t)
                      => record.coverage = "uncovered"

(***************************************************************************)
(* "Prevent duplicate active alerts while preserving alert history"        *)
(* (README.md:112): two active alerts of one kind for one tool and server  *)
(* take two reconciliations that overlap, a resolved alert reopened beside *)
(* the one that has replaced it, or a transition of an alert that overlaps *)
(* other operations: an acknowledgement that is committed late makes an    *)
(* alert active again that was resolved and replaced since it was loaded.  *)
(***************************************************************************)
DuplicatesNeedMishap ==
    doubled # {} =>
        mishaps \cap {"reconciliations met", "reopened", "transition met"} # {}

\* What validate_scope asks of a rule; updates that overlap can mix the
\* attributes of two rules that both passed it.
RulesAreScoped ==
    \A rule \in EnabledRules :
        rule.scope = "tool" => tools[rule.tool].agent = rule.agent

Proposals == {NewRule(i, b) : i \in RuleIds, b \in ProposedBodies}

(***************************************************************************)
(* What the simulator foretells of a rule comes true.  If a proposal       *)
(* (services/policy_simulations.py) were written as a rule, in place of    *)
(* the rule of its name or as a new one, then the governed tools would be  *)
(* the foretold ones; a reconciliation would resolve the alerts of the     *)
(* gaps it says are resolved; and the gateway would decide of each tool    *)
(* the proposal reaches what is foretold, except that a rule of equal rank *)
(* may win, the effect of the proposal then, and the simulator has warned  *)
(* of a conflicting rule on that tool.                                     *)
(***************************************************************************)
Foretells ==
    \A p \in Proposals :
        ScopeExists(p) =>
        LET base == {r \in EnabledRules : r.id # p.id}
            after == IF p.enabled THEN base \cup {p} ELSE base
            Decided(t) == {d.effect : d \in Decisions(after, t.agent, t.id, t.risk)}
        IN  /\ ForetoldGoverned(p, DiscoveredRows, base) = Governed(DiscoveredRows, after)
            /\ \A t \in GapsResolved(p, DiscoveredRows, EnabledRules, base) :
                  \A k \in {"ungoverned_tool", "policy_coverage_lost"} :
                     ToolAlertOpinion(k, t, after, FALSE) = "resolved"
            /\ \A t \in DiscoveredRows :
                  ProposalAffects(p, t) =>
                     \/ Decided(t) = ForetoldEffects(p, t, base)
                     \/ ConflictWarnings(p, t, base) # {}
                        /\ Decided(t) = ForetoldEffects(p, t, base) \cup {p.effect}

\* In every catalogue left when nothing is in progress; of a rule that overlapping
\* updates have left with a tool that is not its agent's the simulator foretells too much.
SimulationForesees == Idle /\ RulesAreScoped => Foretells

Scored(severity) == Cardinality({a \in ActiveAlerts : a.severity = severity})

(***************************************************************************)
(* The scores an administrator is shown do not contradict each other: when *)
(* the projections can be trusted, a governance health of 100 (get_health) *)
(* leaves nothing for the AI risk score (calculate_risk_score) or the      *)
(* compliance score (evaluate_items) to deduct.                            *)
(***************************************************************************)
ScoresAgree ==
    LET critical == Scored("critical")
        high == Scored("high")
        items == [t \in Discovered |-> records[t]]
    IN  trusted /\ Idle /\ HealthScore(DiscoveredRows, EnabledRules, critical, high) = 100
        => RiskScore(items, critical, high) = 100 /\ ComplianceScore(items) = 100

(***************************************************************************)
(* No request fails on a constraint, a vanished row or a missing key       *)
(* unless another request was in progress with it.                         *)
(***************************************************************************)
ConflictsNeedOverlap ==
    [][\A r \in Requests :
          requests[r].pc # "conflict" /\ requests'[r].pc = "conflict"
          => ~requests[r].alone]_governanceVars

Syncs(r) == requests[r].pc = "read" /\ requests[r].turn = "sync"

(***************************************************************************)
(* A sync that runs alone leaves the server with the tools it discovered:  *)
(* their names, schemas and descriptions, and no other tool unless two     *)
(* tools of the server had one name; and it leaves a linked server linked  *)
(* to the agent it had.                                                    *)
(***************************************************************************)
SyncReflectsDiscovery ==
    [][\A r \in Requests :
          Syncs(r) /\ requests'[r].pc = "done" /\ requests[r].alone =>
          LET s == requests[r].target
              offer == requests[r].body.offer
              own == {t \in Tools : tools[t].state = "live" /\ tools[t].server = s}
              new == {t \in Tools : tools'[t].state = "live" /\ tools'[t].server = s}
          IN  /\ \A n \in DOMAIN offer : \E t \in new :
                    /\ tools'[t].name = n
                    /\ tools'[t].schema = offer[n].schema
                    /\ tools'[t].description = offer[n].description
              /\ (\A t, u \in own : tools[t].name = tools[u].name => t = u) =>
                    Cardinality(new) = Cardinality(DOMAIN offer)
              /\ servers[s].agent # None => servers'[s].agent = servers[s].agent
      ]_governanceVars

(***************************************************************************)
(* Only people classify tools: no sync, whatever overlaps it, changes the  *)
(* risk, the permission, the review or the enablement of a tool that       *)
(* exists, and nothing takes a review back.                                *)
(***************************************************************************)
OnlyPeopleClassify ==
    [][\A t \in Tools :
          tools[t].state # "absent" =>
          /\ tools[t].reviewed => tools'[t].reviewed
          /\ (\E r \in Requests : Syncs(r) /\ requests'[r] # requests[r]) =>
                \A f \in {"risk", "permission", "reviewed", "enabled"} :
                    tools'[t][f] = tools[t][f]]_governanceVars
=============================================================================
