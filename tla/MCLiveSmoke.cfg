SPECIFICATION Spec
CONSTANTS
    Runs = {r1, r2}
    Cases = 2
    Reservation <- MCReservation
    MaxBill <- MCMaxBill
    Caps <- MCCaps
SYMMETRY Interchangeable
INVARIANTS
    LedgerTruth
    EvidenceCoversSends
    CompletedIsExact
PROPERTIES
    ImplementsChain
CHECK_DEADLOCK FALSE
