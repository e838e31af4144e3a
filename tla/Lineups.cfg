SPECIFICATION Spec
CONSTANTS
    Pos = {p1, p2}
    LastMatch = 2
    Stamps = 5
SYMMETRY PosSymmetry
\* Every stamp may have been used and nothing sent again.
CHECK_DEADLOCK FALSE
INVARIANTS
    Converges
PROPERTIES
    OwnLineupsStand
