SPECIFICATION FairSpec
CONSTANTS
    worker = worker
    hook = hook
    here = here
    there = there
    letter = letter
    quoting = quoting
    Session = {here, there}
    Words = {letter, quoting}
    Capture <- Collisions
    Quotes <- QuotedBy
    Hook <- Hooks
    Worker = worker
    DEFER_ATTEMPTS = 1
    MaxRevision = 1
    MaxNow = 2
    MaxActs = 3
    MaxFaults = 1
INVARIANT KeyHolderStoredOnce
PROPERTIES LeavesForCause NotStoredOnceForgotten WithheldNeverStored InboxSettles
CHECK_DEADLOCK FALSE
