SPECIFICATION Spec
CONSTANTS
    Comps = {a, b}
    a = a
    b = b
    Requests <- MCRequests
    Settings = s
    Tokens = {t1, t2}
    Passwords = {x, y}
    ArchiveRuns = {a}
    None = None
    Startup = Startup
    Faults = {"write", "finish", "revert", "wal"}
    Overlap = FALSE
    MaxRenameFailures = 1
    MaxEdits = 1
    MaxCrashes = 2
INVARIANTS StartNeverRefused ArchiveMatchIsPending
PROPERTIES RestoreIsOneStep
CHECK_DEADLOCK FALSE
SYMMETRY Symmetry
