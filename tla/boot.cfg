SPECIFICATION FairSpec
CONSTANTS
    Block = 2
    MaxInFlight = 2
    Wrap = 6
    Buses <- MCBuses
INVARIANTS TypeOK VINWhole DiscoveryExact
PROPERTIES DiscoveryOutcome DiscoveryEndsOrWraps
CHECK_DEADLOCK FALSE
