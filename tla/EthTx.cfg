\* Two buffers and two descriptors, each used at least twice.
CONSTANTS
    ETH_TX_QUEUE_SIZE = 2
    ETH_TX_DESC_CNT = 2
    Abilities = {"100_HALF", "10_FULL"}
    MaxFrames = 4
    MaxPlugs = 2
SPECIFICATION FairSpec
INVARIANTS
    TypeOK
    BuffersOwned
PROPERTIES
    QueueSpec
    RefusedForCause
    FrameAccepted
    LinkTold
CHECK_DEADLOCK FALSE
