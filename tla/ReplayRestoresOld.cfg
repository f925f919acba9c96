CONSTANTS
    Proc = {p1}
    Addr = {a1}
    NoFile = NoFile
    Torn = Torn
    NoProc = NoProc
    MaxBlock = 3
    Chunk = 2
    Retries = 0
    MaxCommands = 2
    MaxOutages = 0
SPECIFICATION FairSpec
PROPERTIES ReplayRestoresNothing
CHECK_DEADLOCK FALSE
