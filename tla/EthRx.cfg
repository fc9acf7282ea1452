\* Four buffers for two descriptors, a ring of three slots that holds two.
CONSTANTS
    ETH_RX_POOL_SIZE = 4
    ETH_RX_DESC_CNT = 2
    ETH_FRAME_RING_SIZE = 3
    MaxFrames = 4
    None = None
SPECIFICATION FairSpec
INVARIANTS
    TypeOK
    SlotStable
    PoolAccounted
PROPERTIES
    RingSpec
    ReceiveGoesOn
CHECK_DEADLOCK FALSE
