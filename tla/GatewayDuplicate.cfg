SPECIFICATION Spec
CONSTANTS
    agent1 = agent1
    server1 = server1
    tool1 = tool1
    tool2 = tool2
    send = send
    drop = drop
    wipe = wipe
    token1 = token1
    token2 = token2
    agent2 = agent2
    server2 = server2
    tool3 = tool3
    a1 = a1
    k1 = k1
    c1 = c1
    c2 = c2
    c3 = c3
    d1 = d1
    d2 = d2
    o1 = o1
    None = None
    Agents = {agent1}
    Servers = {server1}
    Tools = {tool1}
    Names = {send, wipe}
    Tokens = {token1}
    InitialTokens = {token1}
    Approvals = {a1}
    Keys = {k1}
    Calls = {c1, c2}
    Uses = {c1, c2}
    Deciders = {}
    AdminOps = {}
    MaxSecret = 1
    MaxChanges = 0
    MaxManaged = 3
    InitialLinks <- MCLinks
    ToolAgent <- MCToolAgent
    InitialTools <- MCTools
    ToolEdits <- MCToolEdits
    ToolReviews <- MCToolReviews
    RuleSpace <- MCRuleSpace
    InitialRules <- NoRules
    TokenAgent <- MCTokenAgent
    TokenServers <- MCTokenServers
    ApprovalAgent <- MCApprovalAgent
    ApprovalAction <- MCApprovalAction
    CallSpace <- KeyedCalls
SYMMETRY CallSymmetry
CHECK_DEADLOCK FALSE
INVARIANTS
    OneUpstreamCallPerKey
