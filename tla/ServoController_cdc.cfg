SPECIFICATION Spec
CONSTANTS
    Conn = {c1, c2}
    Addr = {a1, a2}
    None = None
    MaxTimeout = 1
    MaxSequence = 3
    NofServos = 1
    Vectors <- MCVectorsSmall
PROPERTIES
    CdcEndsFailsafe
CHECK_DEADLOCK FALSE
