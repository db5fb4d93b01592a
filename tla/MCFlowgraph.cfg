SPECIFICATION FlowgraphSpec
CONSTANTS
    Descriptions <- MCDescriptions
    Outputs = {"kiss_file_sink"}
INVARIANTS
    CheckedDescriptionBuilds
    FramesReachDescribedSinks
CHECK_DEADLOCK FALSE
