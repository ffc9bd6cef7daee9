SPECIFICATION Spec
CONSTANTS
    s1 = s1
    s2 = s2
    Source <- Sources
    MaxRevision = 2
    Unanswerable <- None
    Restating <- TheSecond
    AUTOMATIC_VERDICTS = 1
    MAX_RECOVERABLE_ATTEMPTS = 3
    Acts = {"suppressed"}
    Release = {}
    Operation = {}
    MaxTasks = 1
    MaxToken = 2
    MaxCaps = 1
INVARIANTS InStep InheritedAnswered NewEvidencePosesAQuestion
CHECK_DEADLOCK FALSE
