SPECIFICATION Spec
CONSTANTS
    m1 = m1
    m2 = m2
    w1 = w1
    w2 = w2
    None = None
    Message = {m1, m2}
    Worker = {w1, w2}
    EditKinds = {"save", "delete"}
SYMMETRY Symmetry
INVARIANTS
    TypeOK
    AtMostOnce
    FailedNeverAccepted
    StatusFollowsOutbox
    LateRequestIsTheOnlyOne
