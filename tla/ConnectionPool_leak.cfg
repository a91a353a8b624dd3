SPECIFICATION Spec
CONSTANTS
    c1 = c1
    c2 = c2
    c3 = c3
    c4 = c4
    t1 = t1
    t2 = t2
    t3 = t3
    NoConn = NoConn
    Threads <- TwoThreads
    Conns <- ThreeConns
    MinConn = 1
    MaxConn = 1
SYMMETRY SymmetryThree
INVARIANTS
    WritersCanWrite
