SPECIFICATION Spec
CONSTANTS
    office = office
    first = first
    second = second
    Fact <- Facts
    Request <- Prompts
    Value = {"old", "new"}
    First = "old"
    InjectionCap = 2
    SessionCap = 1
    MaxEvents = 3
    Counters = 2
SYMMETRY Symmetric
INVARIANTS NothingBarredShown RecordedWithinCap CountedForThisContext CorrectionDueOrTold
CHECK_DEADLOCK FALSE
