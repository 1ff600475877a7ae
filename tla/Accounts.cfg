SPECIFICATION AccountsSpec
CONSTANTS
    None = None
    ann = ann
    bob = bob
    dan = dan
    c1 = c1
    i1 = i1
    i2 = i2
    MaxRequests = 3
    People = {ann, bob, dan}
    Roles = {"admin", "agent_owner"}
    Changes = {c1}
    InitialMembers <- MCMembers
    InitialUsers = {ann, bob}
    Invites = {i1, i2}
    InviteRequests <- MCRequests
    Default = "default-organization"
    Slugs = {"default-organization", "acme"}
    Production = FALSE
    Newcomers <- MCRequests
SYMMETRY MCSymmetry
CONSTRAINT MCBound
CHECK_DEADLOCK FALSE
INVARIANTS
    AccountsTypeOK
    MembershipsHaveOneOrigin
    LateUseRefused
    UninvitedStayOut
    SomebodyIsAdmin
