SPECIFICATION Spec
CONSTANTS
    Conn = {c1, c2, c3}
    Addr = {a1, a2, a3}
    None = None
    MaxTimeout = 1
    MaxSequence = 3
    NofServos = 2
    Vectors <- MCVectors
SYMMETRY MCSymmetry
INVARIANTS
    TypeOK
    ExclusiveControl
    RegistryConsistent
    FailsafeHeld
PROPERTIES
    AssertionNeedsStrayKey
    NoStealing
    OnlyControllerMovesServos
    FailsafeEndsWithOwnDatagram
    LostControlStaysLost
    ImplementsLock
CHECK_DEADLOCK FALSE
