CONSTANTS
    w1 = w1
    w2 = w2
    NoWorker = NoWorker
    Release = {}
    Operation = {}
    Item = {1, 2, 3, 4, 5}
    TypeOf <- EveryKind
    Stores <- EveryKindInTurn
    Worker = {w1}
    Ports <- AllPorts
    Legacy = {3, 5}
    MAX_RECOVERABLE_ATTEMPTS = 2
    MAX_OPERATOR_RETRIES = 1
    MaxRecoveries = 1
    LeaseSeconds = 1
    CooldownSeconds = 0
    AgingSeconds = 0
    FreshLaneSeconds = 0
    RetryFirst = 1
    RetryCeiling = 1
    CapacityFirst = 1
    CapacityCeiling = 1
    HoldSeconds = {0}
    PurgeTries = 2
    MaxLag = 0
    MaxHeld = 1
    Horizon = 0
    MaxFree = 1
SPECIFICATION FairSpec
INVARIANT AttemptBudget
PROPERTY Settles
