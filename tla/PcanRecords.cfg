\* The record buffer, scaled down: 3 blocks of 16 bytes, of which the 8-bit
\* offset reaches 2, so that the end of the buffer and the wrap are both near.
CONSTANTS
    BLOCK_SIZE = 16
    BLOCKS = 3
    NEXT_BLOCKS = 2
    GAP = 9
    MaxUnsent = 7
    Frames <- SmallFrames
    Masks <- TwoMasks
SPECIFICATION Spec
INVARIANTS
    TypeOK
    BlocksLaidOut
    TimestampWidths
PROPERTIES
    ErrorsReported
    FrameStoredOrFlagged
    RecordsKept
