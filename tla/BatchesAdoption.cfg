SPECIFICATION Spec
CONSTANTS
    w1 = w1
    w2 = w2
    N = 2
    Worker <- Workers
    Import = {}
    Reply = {1}
    Long = {}
    Pages = 2
    Private = {2}
    MaxToken = 3
    MaxReviews = 1
SYMMETRY Interchangeable

PROPERTIES SiblingsWereRead RenewedSpared
CHECK_DEADLOCK FALSE
