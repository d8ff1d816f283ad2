SPECIFICATION Spec
CONSTANTS
    r1 = r1
    r2 = r2
    u1 = u1
    u2 = u2
    x1 = x1
    User = {u1, u2}
    Request = {r1, r2}
    Runner = {x1}
    MaxSeats = 1
    MaxJobs = 1
    MaxReviews = 0
    Faults = {"overlap", "ambiguous"}
SYMMETRY Symmetry
INVARIANTS
    SeatsWithinLimit
    NoMemberWithoutAccount
