SPECIFICATION Spec
CONSTANTS
    Plans <- UnreportedPlans
    InfraLimit = 2
INVARIANTS
    UnknownKeptAtWorstCase
CHECK_DEADLOCK FALSE
