CONSTANTS
    Timer = {t1, t2}
    Permanent = {socket, telemetry}
    Socket = socket
    MaxEvents = 4
SPECIFICATION ReactorSpec
INVARIANT OnlyPollListIsCalled
CHECK_DEADLOCK FALSE
