SPECIFICATION BchSpec
CONSTANTS
    MaxShifts = 1
INVARIANTS
    BchSupported
CHECK_DEADLOCK FALSE
