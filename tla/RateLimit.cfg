SPECIFICATION RateSpec
CONSTANTS
    None = None
    r1 = r1
    r2 = r2
    r3 = r3
    r4 = r4
    Requests <- MCRequests
    Calls <- MCCalls
    Limits <- MCLimits
    Window = 2
    MaxTime = 4
    Backends <- MCBackends
SYMMETRY MCSymmetry
CONSTRAINT MCBound
INVARIANTS
    RateTypeOK
    WindowBound
    AnswersAreEarned
CHECK_DEADLOCK FALSE
