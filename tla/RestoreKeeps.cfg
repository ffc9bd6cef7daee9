SPECIFICATION Spec
CONSTANTS
    message = message
    fact = fact
    Source <- Messages
    Claim <- Facts
    Of <- Derived
    MaxEpoch = 3
    MaxSnapshots = 2
    MaxRestores = 2
    Acts = {"forget", "mute", "revise", "retract", "embed", "legacy", "damage"}
INVARIANTS ForgottenNeverAnswered DecisionsKept HistoryHonest VectorsHonest WithdrawalsKept
PROPERTY ReopensAfresh
CHECK_DEADLOCK FALSE
