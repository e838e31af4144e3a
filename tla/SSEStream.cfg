SPECIFICATION FairSpec
CONSTANTS
    Writes = {w0, w1, w2}
    First = w0
    LiveWrites = {w1}
    NoWrite = NoWrite
    HistorySize = 1
    Buffer = 1
    MaxClients = 1
    ReopenRefetch = TRUE
    MaxFetches = 2
    MaxRestarts = 1
    MaxLosses = 1
    MaxResumes = 1
CHECK_DEADLOCK FALSE
INVARIANTS
    QuietIsCurrent
    StreamIsWhole
PROPERTIES
    EveryWriteHeard
