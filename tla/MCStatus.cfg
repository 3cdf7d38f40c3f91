SPECIFICATION Spec
CONSTANTS
    MaxInput = 3
    LoopSize = 2
    Clients = {c1, c2}
SYMMETRY Symmetry
INVARIANTS
    TypeOK
    InputAccounted
    ApBitFollowsClients
CHECK_DEADLOCK FALSE
