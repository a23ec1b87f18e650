CONSTANTS
    NofServos = 3
    UpdatePeriod = 4
    ChannelMax = 1000
    Vectors <- MCVectors
    NofPwm = 2
    Unreliable = {1}
    Timer = {t1, t2, t3}
    Permanent = {socket, telemetry}
    Socket = socket
    MaxEvents = 3
SPECIFICATION DevicesSpec
INVARIANTS TypeOK DeviceFollows RPiTypeOK WidthFollows ReactorTypeOK WakesAreGenuine
PROPERTIES DutyCycleIsRepaired WidthIsRestored StaleIsNotReused EveryReadyHasItsTurn
CHECK_DEADLOCK FALSE
