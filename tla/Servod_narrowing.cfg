SPECIFICATION ServodSpec
CONSTANTS
    num_samples = 4
    servo_min_ticks = 1
    servo_max_ticks = 4
    step_time_us = 10
    Start <- MCStart
    Commands <- MCNarrowing
    idle_timeout = FALSE
PROPERTIES PulsesAreOldOrNew
CHECK_DEADLOCK FALSE
