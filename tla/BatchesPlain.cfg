SPECIFICATION Spec
CONSTANTS
    w1 = w1
    w2 = w2
    N = 3
    Worker <- Workers
    Import = {2}
    Reply = {3}
    Long = {3}
    Pages = 2
    Private = {}
    MaxToken = 2
    MaxReviews = 2
SYMMETRY Interchangeable
INVARIANTS WatermarkWasRead DoneWasRead
PROPERTY OnlyLiveDerived
CHECK_DEADLOCK FALSE
