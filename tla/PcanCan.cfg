\* The CAN transmit path: a ring of 4 slots (3 usable) wraps more than once,
\* behind the 3 mailboxes of bxCAN.
CONSTANTS
    CAN_TX_FIFO_SIZE = 4
    MAILBOXES = 3
    MaxAccepted = 7
    MaxOvfs = 1
SPECIFICATION FairSpec
INVARIANTS
    TypeOK
    FifoHoldsAccepted
    SentInOrder
PROPERTIES
    QueueSpec
    LostOnlyByBusCommand
    FramesLeave
