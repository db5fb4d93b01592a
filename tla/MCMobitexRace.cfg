SPECIFICATION MobitexSpec
CONSTANTS
    NoHeader = NoHeader
    BlockCounts = {1, 2, 3}
    MaxMobitexFrames = 2
PROPERTIES
    FirstPduIsBlockZero
CHECK_DEADLOCK FALSE
