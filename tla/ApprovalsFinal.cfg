SPECIFICATION ApprovalsSpec
CONSTANTS
    None = None
    agent1 = agent1
    server1 = server1
    tool1 = tool1
    send = send
    a1 = a1
    a2 = a2
    d1 = d1
    d2 = d2
    d3 = d3
    d4 = d4
    Agents = {agent1}
    Servers = {server1}
    Tools = {tool1}
    Names = {send}
    Approvals = {a1, a2}
    Deciders = {d1, d2, d3, d4}
    InitialLinks <- MCLinks
    ToolAgent <- MCToolAgent
    InitialTools <- MCTools
    ToolEdits <- MCNoEdits
    ToolReviews <- MCNoEdits
    RuleSpace <- MCRuleSpace
    InitialRules <- MCRules
    MaxChanges = 1
    ApprovalAgent <- MCApprovalAgent
    ApprovalAction <- MCApprovalAction
CHECK_DEADLOCK FALSE
PROPERTY
    OnlyPendingChanges
