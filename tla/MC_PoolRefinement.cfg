CONSTANTS
    t1 = t1
    t2 = t2
    c1 = c1
    c2 = c2
    NoConn = NoConn
    Free = Free
    Closer = Closer
    Threads <- MCThreads
    Conns <- MCConns
    Flushers <- MCOneFlusher
    MaxOps = 2
SPECIFICATION Spec
PROPERTIES
    PoolRefines
