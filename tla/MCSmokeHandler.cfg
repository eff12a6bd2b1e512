SPECIFICATION HandlerSpec
CONSTANTS
    Amount <- MCAmount
    Caps <- MCCaps
    Cost = {1, 2}
    ExtraCost = {1}
    Evidence = {}
    MaxRuns = 2
    MaxEvents = 10
INVARIANTS
    InspectorAccepts
    CertainIsExact
    EvidenceNamesAttempts
CHECK_DEADLOCK FALSE
