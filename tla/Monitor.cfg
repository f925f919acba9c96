CONSTANTS
    Addr = {a1}
    Token = {usdt}
    Absent = Absent
    Origin = 3
    MaxBlock = 6
    MaxBalance = 1
    MaxTouched = 1
    MaxReorgs = 1
    FinalityLag = 2
    Finalized = FALSE
    Confirmations = 1
    Chunk = 2
    Window = 2
    MaxFaults = 1
    MaxCrashes = 1
SPECIFICATION MonitorSpec
PROPERTY LagNeverHidden
