SPECIFICATION FairSpec
CONSTANTS
    first = first
    second = second
    Source <- Messages
    Claim <- Facts
    Of <- Derived
    MaxEpoch = 4
    MaxBundles = 1
    MaxFaults = 1
INVARIANT RecoveredKeepsForgotten
PROPERTY CommittedIsMirrored
CHECK_DEADLOCK FALSE
