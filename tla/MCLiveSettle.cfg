SPECIFICATION Spec
CONSTANTS
    Runs = {r1}
    Cases = 1
    Reservation <- MCReservation
    MaxBill <- MCReservation
    Caps <- MCCaps
INVARIANTS
    UnknownRetained
CHECK_DEADLOCK FALSE
