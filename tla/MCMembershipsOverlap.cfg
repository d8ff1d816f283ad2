SPECIFICATION Spec
CONSTANTS
    r1 = r1
    r2 = r2
    u1 = u1
    x1 = x1
    x2 = x2
    User = {u1}
    Request = {r1, r2}
    Runner = {x1, x2}
    MaxSeats = 1
    MaxJobs = 1
    MaxReviews = 1
    Faults = {"overlap"}
SYMMETRY Symmetry
INVARIANTS
    LiveAccountHoldsSeat
