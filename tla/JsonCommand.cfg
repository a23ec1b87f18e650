SPECIFICATION CmdSpec
CONSTANTS
    Object = {1, 2, 3, 4, 5, 6, 7}
    NoObject = NoObject
    Field = {v, user, sequence, cmd, channels}
    MaxIndex = 1
    MaxHeld = 1
    v = v
    user = user
    sequence = sequence
    cmd = cmd
    channels = channels
INVARIANT NoneReleasedAfterDeletion
CHECK_DEADLOCK FALSE
