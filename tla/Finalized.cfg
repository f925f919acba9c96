CONSTANTS
    Addr = {a1}
    Token = {usdt, usdc}
    Absent = Absent
    Origin = 1
    MaxBlock = 4
    MaxBalance = 1
    MaxTouched = 1
    MaxReorgs = 1
    FinalityLag = 1
    Finalized = TRUE
    Confirmations = 0
    Chunk = 2
    Window = 0
    MaxFaults = 1
    MaxCrashes = 1
SPECIFICATION Spec
INVARIANTS MapExact SnapshotExact StampsExact HoldersCurrentUnlessFailed
