SPECIFICATION Spec
CONSTANTS
    u1 = u1
    u2 = u2
    r1 = r1
    r2 = r2
    x1 = x1
    x2 = x2
    User = {u1, u2}
    Request = {r1, r2}
    Runner = {x1, x2}
    MaxSeats = 1
    MaxJobs = 1
    MaxReviews = 2
    Faults = {}
SYMMETRY Symmetry
INVARIANTS
    AgreeAtRest
