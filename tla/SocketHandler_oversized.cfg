SPECIFICATION Spec
CONSTANTS
    Programs <- RealPrograms
CHECK_DEADLOCK FALSE
INVARIANTS
    UnknownRefused
