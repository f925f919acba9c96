CONSTANTS
    Addr = {a1}
    Token = {usdt}
    Absent = Absent
    Origin = 1
    MaxBlock = 5
    MaxBalance = 1
    MaxTouched = 1
    MaxReorgs = 0
    FinalityLag = 0
    Finalized = TRUE
    Confirmations = 0
    Chunk = 1
    Window = 0
    MaxFaults = 0
    MaxCrashes = 0
SPECIFICATION Spec
INVARIANT PirFollowsMap
