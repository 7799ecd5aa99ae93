CONSTANTS
    t1 = t1
    t2 = t2
    c1 = c1
    c2 = c2
    NoConn = NoConn
    Threads <- MCThreads
    Conns <- MCConns
    Flushers <- MCOneFlusher
    MaxOps = 2
SPECIFICATION Spec
\* Deadlock is checked by the safety run; here a thread blocked for ever
\* shows up as a violation of OpsComplete.
CHECK_DEADLOCK FALSE
PROPERTIES
    OpsComplete
