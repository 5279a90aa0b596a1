SPECIFICATION FairSpec
CONSTANTS
    r1 = r1
    low = low
    high = high
    Readers = {r1}
    Length = 2
    Words = {low, high}
    MaxMessages = 7
INVARIANTS
    TypeOK
PROPERTIES
    WholeMessages
    Broadcasts
    CatchesUp
