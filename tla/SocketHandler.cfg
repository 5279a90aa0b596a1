SPECIFICATION FairSpec
CONSTANTS
    Programs <- SomePrograms
CHECK_DEADLOCK FALSE
INVARIANTS
    SocketTypeOK
    StaysInBuffer
    Framed
    PairsComplete
    ChecksDecide
    LengthsBound
PROPERTIES
    ReadsToEnd
    IsSource
