\* Three records of one packet may each wait for nearly a second.
CONSTANTS
    WRAP = 8
    SECOND = 3
    ZLP_TICKS = 1
    ROOM = 1
    CAPACITY = 2
    MaxRecords = 3
    MaxTime = 6
SPECIFICATION Spec
INVARIANTS
    TimesyncEverySecond
