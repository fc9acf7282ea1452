\* Three transfers on each endpoint, two losses of the configuration.
CONSTANTS
    MaxTransfers = 3
    MaxResets = 2
SPECIFICATION FairSpec
INVARIANTS
    TypeOK
    AssertEpFree
    StuckOnlyAfterReset
PROPERTIES
    BufferDelivered
    EndpointsServe
