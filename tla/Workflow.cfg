SPECIFICATION Spec
CONSTANTS
    None = None
    agent1 = agent1
    agent2 = agent2
    server1 = server1
    tool1 = tool1
    send = send
    a1 = a1
    Agents = {agent1, agent2}
    Servers = {server1}
    Tools = {tool1}
    Names = {send}
    Approvals = {a1}
    Deciders = {1, 2, 3}
    Recorders = {1, 2, 3}
    Reporters = {1, 2, 3}
    InitialLinks <- MCLinks
    ToolAgent <- MCToolAgent
    InitialTools <- MCTools
    ToolEdits <- MCNoEdits
    ToolReviews <- MCNoEdits
    RuleSpace <- MCRuleSpace
    InitialRules <- MCRules
    MaxChanges = 1
    MaxRequests = 4
    ApprovalAgent <- MCApprovalAgent
    ApprovalAction <- MCApprovalAction
    ExecutionBodies <- MCExecutionBodies
    Amendments <- MCAmendments
    IncidentBodies <- MCIncidentBodies
    IncidentChanges <- MCIncidentChanges
CHECK_DEADLOCK FALSE
INVARIANTS
    WorkflowTypeOK
    LateDecisionRefused
    DecisionsAreAudited
    CitedWereApproved
    PolicyHoldsUntilAmended
    ExecutionsAreOnRecord
PROPERTIES
    ClosedStaysClosed
