SPECIFICATION StreamSpec
CONSTANTS
    Frames <- MCFrames
    MAX_PAYLOAD_LEN = 345
    Pieces = {1, 7, 345}
    MaxFrames = 2
INVARIANTS
    FramesExact
    NoneInvented
    EofIsClean
PROPERTIES
    Delivered
CHECK_DEADLOCK FALSE
