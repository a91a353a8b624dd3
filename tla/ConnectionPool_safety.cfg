SPECIFICATION Spec
CONSTANTS
    c1 = c1
    c2 = c2
    c3 = c3
    c4 = c4
    t1 = t1
    t2 = t2
    t3 = t3
    NoConn = NoConn
    Threads <- ThreeThreads
    Conns <- FourConns
    MinConn = 1
    MaxConn = 2
SYMMETRY SymmetryFour
INVARIANTS
    OneHolder
    ReadersAreReadOnly
    AllOrNothing
    IdleOutsideTransaction
PROPERTY
    OnlyListingsLoseSlots
