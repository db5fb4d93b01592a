SPECIFICATION Spec
CONSTANTS
    PacketLens = {1, 2, 3, 4}
    LengthTags <- MCLengthTags
    NoLengthTag = NoLengthTag
    ByteBits = 2
    MaxChunk = 5
    MaxItems = 9
    MaxTags = 2
INVARIANTS
    HistoryHoldsStream
    PendingInHistory
PROPERTIES
    PublishedOnce
    KeepsPromise
CHECK_DEADLOCK FALSE
