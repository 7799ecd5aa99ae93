CONSTANTS
    Timeout = 3
SPECIFICATION Spec
INVARIANTS
    TypeOK
    DiskIdMeansUsableDisk
    
PROPERTIES
    LifecycleTerminates
    SessionRefines
