SPECIFICATION FairPipeline
CONSTANTS
    main = main
    low = low
    high = high
    Readers = {main}
    Consumer = main
    Length = 8
    Words = {low, high}
    MaxMessages = 6
CHECK_DEADLOCK FALSE
INVARIANTS
    PipelineTypeOK
    ProcessesPrefix
PROPERTIES
    Terminates
    ReadsSource
