\* The time wraps after 16 milliseconds.  As in the code a frame's blink is
\* longer than the slow delay, and that longer than the fast one.
CONSTANTS
    Leds = {"TX", "RX", "STAT"}
    WRAP = 16
    FAST = 2
    SLOW = 5
    BLINK = 6
    WAIT = 3
    Packets <- HostPackets
    MaxEvents = 3
    Bytes = {0, 1, 15, 16, 63, 64, 113, 128, 255}
SPECIFICATION MCSpec
INVARIANTS
    TypeOK
    AnswersAsSet
    TimingAsSet
    PacketRead
PROPERTIES
    LedsSettle
CHECK_DEADLOCK FALSE
