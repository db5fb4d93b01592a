SPECIFICATION FuncubeSpec
CONSTANTS
    PAYLOAD_SIZE = 7
    WHOLEORBIT_SIZE = 5
    WHOLEORBIT_MAX = 4
    MaxOrbits = 2
INVARIANTS
    ConsecutiveFramesGiveAll
CHECK_DEADLOCK FALSE
