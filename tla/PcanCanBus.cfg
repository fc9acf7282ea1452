\* The driver's "BUS on" against what README.md says of it.
CONSTANTS
    CAN_TX_FIFO_SIZE = 3
    MAILBOXES = 3
    MaxAccepted = 2
    MaxOvfs = 1
SPECIFICATION Spec
INVARIANT BusOnMeansRunning
