CONSTANTS
    t1 = t1
    t2 = t2
    c1 = c1
    c2 = c2
    NoConn = NoConn
    Threads <- MCThreads
    Conns <- MCConns
    Flushers <- MCOneFlusher
    MaxOps = 3
SPECIFICATION Spec
SYMMETRY MCSymmetry
INVARIANTS
    TypeOK
    PoolPartition
    FlushBarrier
