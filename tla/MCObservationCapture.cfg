SPECIFICATION Spec
CONSTANTS
    Captures = {c1, c2}
    Planned = 3
    LastMoment = 4
SYMMETRY Interchangeable
INVARIANTS
    EarlierKept
    ReportTrue
PROPERTIES
    ImplementsReads
CHECK_DEADLOCK FALSE
