CONSTANTS
    BufLen = 4
    MaxCount = 13
SPECIFICATION Spec
INVARIANTS
    TypeOK
    BodyMatchesSpec
