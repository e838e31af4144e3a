\* One cached file, one without a cache, one a transaction writes through.
SPECIFICATION FairSpec
CONSTANTS
    Files = {poolMatches, scoreLog, participants}
    CachedFiles = {poolMatches}
    DirectFiles = {participants}
    Txs = {t1, t2, t3}
    Faults = {}
    MaxCrashes = 2
CHECK_DEADLOCK FALSE
INVARIANTS
    VisibleIsLogical
    AckedLanded
PROPERTIES
    ImplementsAtomicStore
    LogsAreSettled
