CONSTANTS
    Capacity = 4
    MaxPos = 9
    WriteSizes <- MCWriteSizes
    ReadSizes <- MCReadSizes
SPECIFICATION Spec
INVARIANTS
    TypeOK
    Occupancy
    UnreadIntact
    ReadsInOrder
    NoDataRace
    HeartbeatHonest
PROPERTIES
    NoStaleAudio
    NeverReadTwice
    ImplementsFifo
