SPECIFICATION FairSpec
CONSTANTS
    FRAME_LIMIT = 2
    BYTE_LIMIT = 3
    CONTROL_LIMIT = 1
    NAL_CHANNEL_CAPACITY = 1
    KEYFRAME_BACKOFF_MAX = 1
    KeySizes = {2}
    FrameSizes = {1, 2}
    SeqSpace = 3
    MaxMoves = 1
INVARIANT TunnelSound
PROPERTIES KeyframeComes OnlyDecodable
CHECK_DEADLOCK FALSE
