CONSTANTS
    Addr = {a1, a2}
    Nobody = Nobody
    MaxRecord = 1
    CompactAfter = 1
    MaxChanges = 1
    MaxFaults = 0
    MaxCrashes = 1
SPECIFICATION LookupSpec
INVARIANT NewHashIsNoticed
