SPECIFICATION Spec
CONSTANTS
    Plans <- AllPlans
    InfraLimit = 2
INVARIANTS
    
    JournalCoversSpend
    OvershootIsOneCall
    LedgerSettled
    ResultTruth
PROPERTIES
    EvidenceNeverReplaced
    Concludes
CHECK_DEADLOCK FALSE
