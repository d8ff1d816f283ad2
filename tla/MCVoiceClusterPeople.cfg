SPECIFICATION Spec
CONSTANTS
    n1 = n1
    n2 = n2
    p1 = p1
    p2 = p2
    None = None
    Dead = Dead
    Node = {n1}
    User = {p1, p2}
    Lease = 3
    Fence = 2
SYMMETRY Symmetry
INVARIANTS
    StaleRoomEnds
