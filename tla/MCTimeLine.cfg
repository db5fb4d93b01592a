SPECIFICATION Spec
CONSTANTS
    SubSamples = 4
    d_fir_delay = 2
    d_taps_per_filter = 2
    NumFilters = 2
    DelayFiles <- MCDelayFiles
    DopplerFiles <- MCDopplerFiles
    Times = {0, 5}
    MaxItems = 4
    MaxTags = 2
    MaxSets = 1
INVARIANTS
    ValuesFollowFile
    ReadsWithinHistory
    EveryTagOnce
    TagsReachNextBlock
CHECK_DEADLOCK FALSE
