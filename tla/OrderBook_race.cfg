SPECIFICATION Spec
CONSTANTS
    t1 = t1
    t2 = t2
    Threads = {t1, t2}
    BookLength = 3
    HalfRange = 8
    BasePrices = {1}
    Prices = {0, 1, 2, 3, 4, 5}
    Volumes <- UnitVolumes
    Shifts <- DownShifts
    SlackValues = {1}
    MaxVolume = 2
    MaxVersion = 1
    Discipline <- AllButLoneShift
SYMMETRY Symmetry
PROPERTIES
    BaseNeverWraps
