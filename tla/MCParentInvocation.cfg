SPECIFICATION Spec
CONSTANTS
    Operators = {p1, p2}
    Late = {"claim", "invocation-attempt", "response", "index", "returned-status"}
    TailMode = TRUE
SYMMETRY Interchangeable
INVARIANTS
    DurableBeforeSend
    IndexIsBacked
    AssociationIsBound
    LauncherTruth
PROPERTIES
    ImplementsOneShot
CHECK_DEADLOCK FALSE
