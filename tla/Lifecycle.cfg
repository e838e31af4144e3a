\* Two requests in flight, a draw at a time.
SPECIFICATION Spec
CONSTANTS
    a = a
    b = b
    Requests <- MCRequests
    Formats <- MCFormats
    DrawsAtOnce = 1
    MaxSaves = 2
    MaxRounds = 2
SYMMETRY MCSymmetry
CHECK_DEADLOCK FALSE
INVARIANTS
    DrawIsSound
    ScoredDrawStarts
PROPERTIES
    MovesForward
    ResultsStay
