SPECIFICATION Spec
CONSTANTS
    NULL = NULL
    Text = Text
    NaN = NaN
    PosInf = PosInf
    NegInf = NegInf
    Rows <- MCRows
    MaxRows = 8
CHECK_DEADLOCK FALSE
INVARIANTS
    OutliersAreRare
    DropsEndBelowZero
