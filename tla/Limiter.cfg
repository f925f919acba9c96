CONSTANTS
    c1 = c1
    c2 = c2
    w1 = w1
    w2 = w2
    Client <- MCClient
    Worker <- MCWorker
    Untracked = Untracked
    Idle = Idle
    Cost = 2
    Burst = 2
    IdleEvict = 3
    MaxTracked = 1
    MaxTime = 6

SPECIFICATION Spec
SYMMETRY MCSymmetry
INVARIANTS
    TypeOK
    WithinRate
    WaitIsEnough
