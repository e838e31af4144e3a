SPECIFICATION Spec
CONSTANTS
    t1 = t1
    t2 = t2
    m1 = m1
    m2 = m2
    m3 = m3
    Tabs = {t1, t2}
    Bases = {m1, m2, m3}
    Notice = 1
    BatchMax = 2
    Shapes <- Cases
CHECK_DEADLOCK FALSE
INVARIANTS
    KeptUntilSettled
    NobodyWaitsInVain
PROPERTIES
    InOrder
