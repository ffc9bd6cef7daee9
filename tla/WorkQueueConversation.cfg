CONSTANTS
    w1 = w1
    w2 = w2
    NoWorker = NoWorker
    Release = {}
    Operation = {}
    Item = {1, 2}
    TypeOf <- Conversation
    Stores <- Together
    Worker = {w1, w2}
    Ports <- AllPorts
    Legacy = {}
    MAX_RECOVERABLE_ATTEMPTS = 1
    MAX_OPERATOR_RETRIES = 0
    MaxRecoveries = 0
    LeaseSeconds = 1
    CooldownSeconds = 0
    AgingSeconds = 0
    FreshLaneSeconds = 0
    RetryFirst = 1
    RetryCeiling = 1
    CapacityFirst = 1
    CapacityCeiling = 1
    HoldSeconds = {0}
    PurgeTries = 1
    MaxLag = 0
    MaxHeld = 1
    Horizon = 0
    MaxFree = 1
SPECIFICATION Spec
SYMMETRY Workers
PROPERTIES LeaseRespected LifecycleSpec
