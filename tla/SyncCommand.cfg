CONSTANTS
    Proc = {p1, p2}
    Addr = {a1}
    NoFile = NoFile
    Torn = Torn
    NoProc = NoProc
    MaxBlock = 3
    Chunk = 2
    Retries = 1
    MaxCommands = 2
    MaxOutages = 1
SPECIFICATION FairSpec
INVARIANTS TypeOK SnapshotResumable NoWorkLost
PROPERTIES OkIsSaved CommandEnds
CHECK_DEADLOCK FALSE
