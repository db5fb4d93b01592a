SPECIFICATION FramingSpec
CONSTANTS
    Modes <- MCModes
    KissPayloads <- MCKissPayloads
    Timestamps <- MCTimestamps
    MaxFrames = 4
    MaxLosses = 1
    Frames <- MCFrames
    HdlcSettings <- MCHdlcSettings
    max_length = 1
    MaxSent = 2
    MaxLine = 1
    MaxHdlcFaults = 1
    Settings <- MCSettings
    Payloads <- MCPayloads
    GolayWords <- MCGolayWords
    ItemBits = 2
    LongHeader = 4
    IntBits = 4
    GolayLength = 4
    GolayErrors = 1
    MaxPackets = 2
    ASM = 1
    Capacity = 9
    MaxFaults = 1
    NoHeader = NoHeader
    BlockCounts = {1, 2, 3}
    MaxMobitexFrames = 2
    RsCodedLen = 5
    RsInfoLen = 3
    RsErrors = 1
    RsInterleaves = {1, 2}
    RsMessages <- MCRsMessages
    Codes <- MCCodes
    MaxMessage = 2
    MaxWrong = 2
    MaxCut = 1
    GolayBits = 3
    U482cSettings <- MCU482cSettings
    U482cPayloads <- MCU482cPayloads
    Wrong <- MCWrong
    ByteBits = 2
    CrcSettings <- MCCrcSettings
    Messages <- MCMessages
    MobitexBlocks <- MCMobitexBlocks
    HeaderSettings <- MCHeaderSettings
    MobitexControls <- MCMobitexControls
    Callsigns <- MCCallsigns
    MaxHeaderErrors = 2
    MaxShifts = 2
INVARIANTS
    FalseSyncTolerated
CHECK_DEADLOCK FALSE
