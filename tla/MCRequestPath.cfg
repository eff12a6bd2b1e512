SPECIFICATION Spec
CONSTANTS
    Requests = {q1, q2}
    Batch = 2
    Builds = 1
    Raised = {"throttling", "timed_out", "model", "unforeseen"}
INVARIANTS
    AnswersHonest
    AlignedUnlessOverlap
PROPERTIES
    EveryRequestAnswered
CHECK_DEADLOCK FALSE
