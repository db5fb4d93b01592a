SPECIFICATION TransportSpec
CONSTANTS
    VirtualChannels = {v1, v2}
    OtherChannels = {v3}
    v1 = v1
    v2 = v2
    v3 = v3
    Packets <- MCPackets
    MaxPackets = 4
    TmChannels = {1, 2, 3}
    vc_outputs = {1, 2}
    OcfChannels = {2}
    ApIds = {3, 4}
    pathID_outputs = {3}
    Payloads <- MCPayloads
    TmSize = 3
    MaxSpacePackets = 3
    MaxLost = 1
    Contents <- MCContents
    MaxFrames = 3
    MaxFill = 1
    PacketContents <- MCPacketContents
    d_bits_per_byte = 2
    d_header_len = 1
    d_codec2_frame_len = 2
    d_chunk_len = 4
    Chunks = 2
    MaxRadioPackets = 4
    MaxGap = 2
    MaxFalseTags = 2
    CuteApids = {1, 2}
    SequenceCounts = 4
    MaxPieces = 6
    MaxPiecesLost = 3
    PAYLOAD_SIZE = 7
    WHOLEORBIT_SIZE = 5
    WHOLEORBIT_MAX = 4
    MaxOrbits = 2
INVARIANTS
    PacketsExtracted
CHECK_DEADLOCK FALSE
