SPECIFICATION Spec
CONSTANTS
    t1 = t1
    t2 = t2
    g1 = g1
    g2 = g2
    g3 = g3
    g4 = g4
    nullptr = nullptr
    a = a
    b = b
    Threads = {t1, t2}
    Guards = {g1, g2, g3, g4}
    Owner <- TwoEach
    Flags = {a, b}
CHECK_DEADLOCK FALSE
INVARIANTS
    GuardTypeOK
    OneHolder
PROPERTIES
    MoveKeepsFlag
    DeadlockLasts
