SPECIFICATION MembershipSpec
CONSTANTS
    None = None
    ann = ann
    bob = bob
    c1 = c1
    c2 = c2
    c3 = c3
    People = {ann, bob}
    Roles = {"admin", "operator"}
    Changes = {c1, c2, c3}
    InitialMembers <- MCMembers
CHECK_DEADLOCK FALSE
SYMMETRY MCSymmetry
INVARIANTS
    OrganizationKeepsAnAdmin
