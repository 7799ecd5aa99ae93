CONSTANTS
    Timeout = 3
SPECIFICATION Spec
INVARIANTS
    FailedCloseDeletesDisk
