SPECIFICATION Spec
CONSTANTS
    Runs = {r1, r2}
    NumSources = 2
    Wheels = {w1}
    Edits = 2
    Swaps = 2
SYMMETRY Symmetric
INVARIANTS
    SnapshotBound
    WheelsBound
PROPERTIES
    SuccessIsOurs
CHECK_DEADLOCK FALSE
