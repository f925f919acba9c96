CONSTANTS
    Addr = {a1, a2}
    Nobody = Nobody
    MaxRecord = 1
    CompactAfter = 2
    MaxChanges = 2
    MaxFaults = 1
    MaxCrashes = 1
SPECIFICATION LookupSpec
INVARIANTS LookupTypeOK CurrentMeansCurrent 
PROPERTIES ListedIsFound
