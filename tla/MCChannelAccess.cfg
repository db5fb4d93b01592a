SPECIFICATION FairSpec
CONSTANTS
    PacketLens = {1, 2, 3}
    MaxItems = 6
    MaxMsgs = 2
INVARIANTS
    RemainingIsExact
    NeverThrows
    CarrierFollowsLevel
PROPERTIES
    NoStartUnderCarrier
    PacketsEnd
    ClearChannelDrains
CHECK_DEADLOCK FALSE
