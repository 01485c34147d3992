SPECIFICATION Spec
CHECK_DEADLOCK FALSE
CONSTANTS
    p1 = p1
    p2 = p2
    a = a
    b = b
    Procs = {p1, p2}
    Users = {a, b}
    NoUser = "nobody"
    MaxSessions = 2
    MaxRotations = 3
    MaxFaults = 1
    BatchSize = 1
    Plans <- MCPlans
    InFlight = FALSE
SYMMETRY MCSymmetry
INVARIANTS
    PresentedOnce
    NothingSkipped
PROPERTIES
    RefreshReplacesItsOwn
    NeverBackward
