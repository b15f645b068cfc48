SPECIFICATION FairSpec
CONSTANTS
    a = a  b = b  c = c
    Job = {a, b}
    MaxConcurrent = 2
    MaxAttempts = 2
    CanRateLimit = TRUE
    CanCancel = FALSE
    CanHoldOff = FALSE
    CanAwaitIdle = FALSE
    MaxAdds = 1
    MaxStops = 0
    MaxRestarts = 0
PROPERTY PauseEnds
CHECK_DEADLOCK FALSE
