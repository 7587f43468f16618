\* A room for two, three requests, two broken links, one foreign write.
CONSTANTS
    MAX_COUNT = 2
    MaxRequests = 3
    MaxInbox = 1
    MaxDrops = 2
    MaxPokes = 1
SPECIFICATION FairSpec
INVARIANTS
    Ledger
    OccupancyBound
    LampTellsOccupancy
    StatusIsCurrent
    ExitReleasesAll
PROPERTIES
    SignalStops
    Resubscribes
