SPECIFICATION FairSpec
CONSTANTS
    p1 = p1
    p2 = p2
    item = item
    backup = backup
    Nobody = Nobody
    Process <- MCProcess
    Item <- MCItem
    Backup <- MCBackup
    MaxDrains = 2
    MaxFailures = 2
    MaxFaults = 2
INVARIANT TypeOK
PROPERTIES
    IdleClosesClean
    AnnouncedIsDone
    DueIsDone
CHECK_DEADLOCK FALSE
