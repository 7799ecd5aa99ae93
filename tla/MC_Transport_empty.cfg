CONSTANTS
    MAX_CONNECTIONS = 4
    Advertised <- MCAdvertised
    Schemes <- MCSchemes
    NoUrl = NoUrl
    Absent = Absent
    NoSocket = NoSocket
    SockPath = SockPath
    NoOptions = NoOptions
SPECIFICATION Spec
INVARIANTS
    PoolNonEmpty
