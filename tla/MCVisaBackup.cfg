SPECIFICATION Spec
CONSTANTS
    Operators = {p1, p2}
    Verifiers = {v1}
    Restorers = {r1}
    Seconds = 2
    Builds = 1
SYMMETRY Interchangeable
INVARIANTS
    BackupStays
CHECK_DEADLOCK FALSE
