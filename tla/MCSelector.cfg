SPECIFICATION FairSpec
CONSTANTS
    Topologies <- MCTopologies
    InCapacity = 2
    OutCapacity = 2
    MaxItems = 3
    MaxSwitches = 1
INVARIANTS
    GapsOnlyAtSwitches
    AtMostOnce
    TagsFollowItems
PROPERTIES
    DrainsEventually
    NeverStopsUpstream
CHECK_DEADLOCK FALSE
