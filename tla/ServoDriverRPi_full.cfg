CONSTANTS
    NofServos = 2
    UpdatePeriod = 3
    ChannelMax = 1000
    Vectors <- MCVectors
SPECIFICATION Spec
INVARIANT ServodAcceptsPosition
CHECK_DEADLOCK FALSE
