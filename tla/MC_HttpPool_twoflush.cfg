CONSTANTS
    t1 = t1
    t2 = t2
    c1 = c1
    c2 = c2
    NoConn = NoConn
    Threads <- MCThreads
    Conns <- MCConns
    Flushers <- MCTwoFlushers
    MaxOps = 2
SPECIFICATION Spec
CHECK_DEADLOCK FALSE
PROPERTIES
    OpsComplete
