\* The counter wraps after 3 seconds of 2 ticks each; in the code after 2.8.
CONSTANTS
    WRAP = 6
    SECOND = 2
    ZLP_TICKS = 1
    ROOM = 1
    CAPACITY = 2
    MaxRecords = 2
    MaxTime = 3
SPECIFICATION FairSpec
INVARIANTS
    TypeOK
    WaitUnderASecond
    TimesyncOnTime
PROPERTIES
    GiveUpJustified
    LoopGoesRound
    RecordsHandedOver
    ZlpFollows
