CONSTANTS
    w1 = w1
    w2 = w2
    NoWorker = NoWorker
    Release = {"r1"}
    Operation = {"o1"}
    Item = {1, 2}
    TypeOf <- OneConsolidation
    Stores <- OneAtATime
    Worker = {w1, w2}
    Ports <- AllPorts
    Legacy = {1}
    MAX_RECOVERABLE_ATTEMPTS = 2
    MAX_OPERATOR_RETRIES = 1
    MaxRecoveries = 1
    LeaseSeconds = 1
    CooldownSeconds = 0
    AgingSeconds = 0
    FreshLaneSeconds = 0
    RetryFirst = 1
    RetryCeiling = 1
    CapacityFirst = 1
    CapacityCeiling = 1
    HoldSeconds = {0}
    PurgeTries = 2
    MaxLag = 1
    MaxHeld = 1
    Horizon = 0
    MaxFree = 1
SPECIFICATION Spec
SYMMETRY Workers
INVARIANTS TypeOK TokensFence
PROPERTIES LeaseRespected BudgetMarksKept
