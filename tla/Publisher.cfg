CONSTANTS
    Addr = {a1, a2}
    MaxRecord = 1
    CompactAfter = 2
    MaxChanges = 3
    MaxFaults = 2
    MaxCrashes = 2
SPECIFICATION PastSpec
INVARIANTS SlotsAreStable VersionNamesHash ExposedIsRebuilt AbsorbedIsMap
PROPERTIES PublishedEventually NeverServesOlder
