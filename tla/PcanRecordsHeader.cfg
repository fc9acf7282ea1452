\* The buffer at its real size against README.md on block headers.
CONSTANTS
    BLOCK_SIZE = 64
    BLOCKS = 14
    NEXT_BLOCKS = 4
    GAP = 16
    MaxUnsent = 9
    Frames <- LargeFrame
    Masks <- OneMask
SPECIFICATION Spec
INVARIANT BlocksHaveHeaders
