SPECIFICATION TeleFairSpec
CONSTANTS
    Conn = {c1, c2}
    Addr = {a1, a2}
    None = None
    MaxTimeout = 1
    MaxSequence = 3
    NofServos = 1
    Vectors <- MCVectorsSmall
    Source = {video}
    Available = {video}
    Observer = {a1}
PROPERTIES
    UnregisteredFreed
    SilentClientIsForgotten
    SilenceEndsInFailsafe
    ClientsLearnWhoControls
CHECK_DEADLOCK FALSE
