CONSTANTS
    Addr = {a1}
    Token = {usdt}
    Absent = Absent
    Origin = 3
    MaxBlock = 7
    MaxBalance = 1
    MaxTouched = 1
    MaxReorgs = 2
    FinalityLag = 2
    Finalized = FALSE
    Confirmations = 0
    Chunk = 3
    Window = 2
    MaxFaults = 0
    MaxCrashes = 0
SPECIFICATION WatchSpec
INVARIANTS TypeOK HashVouches WatchCoversWindow WatchKeepsOnlyReachable HoldersCurrentUnlessRepaired
PROPERTIES RewindNeedsReorg
