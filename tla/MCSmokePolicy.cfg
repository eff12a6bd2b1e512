SPECIFICATION Spec
CONSTANTS
    Amount <- MCAmount
    Caps <- MCCaps
    Cost = {1, 2}
    ExtraCost = {1}
    Evidence = {e1}
    MaxRuns = 2
INVARIANTS
    TypeOK
    RecordedBeforeSend
    SettledIsBilled
    JournalNumbered
    CeilingSound
    Conservation
    SpendCovered
    CompleteIsClean
PROPERTIES
    ImplementsChain
CHECK_DEADLOCK FALSE
