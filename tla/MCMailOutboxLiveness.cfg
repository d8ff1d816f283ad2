SPECIFICATION FairSpec
CONSTANTS
    m1 = m1
    w1 = w1
    w2 = w2
    None = None
    Message = {m1}
    Worker = {w1, w2}
    EditKinds = {"save", "delete"}
PROPERTIES
    QueuedIsResolved
    KeepsPromise
