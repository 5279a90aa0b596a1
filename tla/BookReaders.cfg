SPECIFICATION FairReaders
CONSTANTS
    t1 = t1
    r1 = r1
    Threads = {t1}
    Readers = {r1}
    BookLength = 2
    HalfRange = 6
    BasePrices = {1}
    Prices = {1, 2}
    Asked = {0, 1, 2, 3}
    Volumes <- UnitVolumes
    Shifts <- OneStep
    SlackValues = {1}
    MaxVolume = 1
    MaxVersion = 7
    Discipline <- Disciplines
INVARIANTS
    ReadersTypeOK
PROPERTIES
    BidAskTrue
    QuietVolumeTrue
    BidAskReturns
    UsedBookVolumeReturns
