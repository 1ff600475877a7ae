----------------------------- MODULE MCWorkflow -----------------------------
(***************************************************************************)
(* A small organization for Workflow: two agents, an approval of the first, *)
(* a rule that blocks, and three requests of each API, as many of them as  *)
(* MaxRequests allows.                                                     *)
(***************************************************************************)
EXTENDS Workflow, TLC

CONSTANTS agent1, agent2, server1, tool1, send, a1

MCLinks      == server1 :> agent1
MCToolAgent  == tool1 :> agent1
MCNoEdits == {}
MCTools      == tool1 :> [name |-> send, server |-> server1, enabled |-> TRUE,
                          deleted |-> FALSE, reviewed |-> TRUE,
                          permission |-> "execute", risk |-> "high"]

MCRuleSpace == {[id |-> "block", scope |-> "tool", agent |-> agent1, tool |-> tool1,
                 risk |-> "medium", effect |-> "block", priority |-> 1]}
MCRules == {{}}

MCApprovalAgent  == a1 :> agent1
MCApprovalAction == a1 :> send

MCBody(agent, tool, risk, status, approval) ==
    [agent |-> agent, tool |-> tool, risk |-> risk, status |-> status,
     approval |-> approval]
MCExecutionBodies ==
    { MCBody(agent1, tool1, "medium", "running", None),
      MCBody(agent1, tool1, "high", "succeeded", None),
      MCBody(agent1, None, "high", None, a1), MCBody(agent2, None, "medium", None, a1) }
MCAmendment(status, approval, uncite) ==
    [status |-> status, approval |-> approval, uncite |-> uncite]
MCAmendments ==
    { MCAmendment("running", None, FALSE), MCAmendment("succeeded", None, FALSE),
      MCAmendment(None, a1, FALSE), MCAmendment(None, None, TRUE) }

MCIncident(execution, status, noted) ==
    [agent |-> agent1, execution |-> execution, status |-> status, noted |-> noted]
MCIncidentBodies ==
    {MCIncident(None, "open", FALSE)}
    \cup {MCIncident(x, "resolved", TRUE) : x \in Recorders}
MCIncidentChanges ==
    { [status |-> "investigating", noted |-> None], [status |-> "resolved", noted |-> TRUE],
      [status |-> "dismissed", noted |-> FALSE], [status |-> None, noted |-> FALSE] }
=============================================================================
