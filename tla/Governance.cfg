SPECIFICATION Spec
CONSTANTS
    None = None
    ann = ann
    bob = bob
    srv = srv
    p1 = p1
    p2 = p2
    send = send
    read = read
    c1 = c1
    c2 = c2
    c3 = c3
    Agents = {ann, bob}
    Servers = {srv}
    Tools = {1, 2, 3, 4}
    RuleIds = {p1, p2}
    Requests = {c1, c2, c3}
    Names = {send, read}
    Texts = {"s1", "s2", "d1"}
    RuleBodies <- MCRuleBodies
    ProposedBodies <- MCProposals
    Reviews <- MCReviews
    ToolPatches <- MCPatches
    Operations = {"create rule", "update rule", "delete rule", "review tool", "update tool", "delete", "relink", "acknowledge", "resolve", "reopen", "register", "summary", "sync"}
    InitialCatalogs <- MCCatalogs
    MaxInProgress = 2
    Namesake <- MCNamesake
    Discoveries <- MCDiscoveries
SYMMETRY MCSymmetry
CHECK_DEADLOCK FALSE
INVARIANTS
    GovernanceTypeOK
    PostureAgrees
    DuplicatesNeedMishap
    SimulationForesees
    ScoresAgree
PROPERTIES
    ConflictsNeedOverlap
    SyncReflectsDiscovery
    OnlyPeopleClassify
