SPECIFICATION Spec
CONSTANTS
    s1 = s1
    s2 = s2
    Source <- One
    MaxRevision = 1
    Unanswerable <- None
    Restating <- None
    AUTOMATIC_VERDICTS = 1
    MAX_RECOVERABLE_ATTEMPTS = 3
    Acts = {"suppressed", "deleted", "paused"}
    Release = {"v1"}
    Operation = {}
    MaxTasks = 2
    MaxToken = 4
    MaxCaps = 1
INVARIANTS TypeOK RequestsWithinGrants
PROPERTY LifecycleSpec
CHECK_DEADLOCK FALSE
