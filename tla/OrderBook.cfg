SPECIFICATION FairSpec
CONSTANTS
    t1 = t1
    t2 = t2
    Threads = {t1, t2}
    BookLength = 3
    HalfRange = 7
    BasePrices = {1}
    Prices = {0, 1, 2, 3, 4, 5}
    Volumes <- SmallVolumes
    Shifts <- SmallShifts
    SlackValues = {1}
    MaxVolume = 2
    MaxVersion = 1
    Discipline <- Disciplines
INVARIANTS
    TypeOK
    WriterExclusion
    StatsExact
    InvariantsCheck
    RunInBounds
    RefusedResponse
PROPERTIES
    SlackUntouched
    ShiftKeepsVolume
    BaseNeverWraps
    CallReturns
    MatchesBook
