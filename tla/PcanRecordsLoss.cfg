\* The buffer at its real size against the comment on a full buffer.
CONSTANTS
    BLOCK_SIZE = 64
    BLOCKS = 14
    NEXT_BLOCKS = 4
    GAP = 16
    MaxUnsent = 20
    Frames <- LargeFrame
    Masks <- OneMask
SPECIFICATION Spec
INVARIANT NoRecordLost
