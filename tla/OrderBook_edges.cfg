SPECIFICATION Spec
CONSTANTS
    t1 = t1
    Threads = {t1}
    BookLength = 3
    HalfRange = 8
    BasePrices = {1}
    Prices = {0, 1, 2, 3, 4, 5}
    Volumes <- SmallVolumes
    Shifts <- SmallShifts
    SlackValues = {1}
    MaxVolume = 2
    MaxVersion = 1
    Discipline <- AllButClearEdges
INVARIANTS
    InvariantsCheck
