SPECIFICATION FairSpec
CONSTANTS
    Writers = {w1, w2, w3}
    Runners = {w1}
    Timers = {t1, t2}
    Closer = closer
    None = None
    MaxEntries = 7
INVARIANTS NothingOutlivesClose
PROPERTIES NeverBackwards EveryStateSent
CHECK_DEADLOCK FALSE
