SPECIFICATION FairSpec
CONSTANTS
    u1 = u1
    r1 = r1
    r2 = r2
    x1 = x1
    User = {u1}
    Request = {r1, r2}
    Runner = {x1}
    MaxSeats = 1
    MaxJobs = 1
    MaxReviews = 1
    Faults = {"overlap", "ambiguous"}
PROPERTIES
    ReservationEnds
