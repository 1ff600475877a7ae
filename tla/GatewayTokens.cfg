SPECIFICATION TokensSpec
CONSTANTS
    None = None
    agent1 = agent1
    server1 = server1
    tool1 = tool1
    send = send
    t1 = t1
    t2 = t2
    o1 = o1
    o2 = o2
    o3 = o3
    u1 = u1
    u2 = u2
    Agents = {agent1}
    Servers = {server1}
    Tools = {tool1}
    Names = {send}
    Tokens = {t1, t2}
    InitialTokens = {t1}
    AdminOps = {o1, o2, o3}
    Uses = {u1, u2}
    MaxSecret = 3
    MaxChanges = 1
    InitialLinks <- MCLinks
    ToolAgent <- MCToolAgent
    InitialTools <- MCTools
    ToolEdits <- MCNoEdits
    ToolReviews <- MCNoEdits
    RuleSpace <- MCRuleSpace
    InitialRules <- MCRules
    TokenAgent <- MCTokenAgent
    TokenServers <- MCTokenServers
SYMMETRY MCSymmetry
CHECK_DEADLOCK FALSE
INVARIANTS
    RetiredStaysRetired
    RevocationHolds
PROPERTY
    ReactivatedKnowingly
