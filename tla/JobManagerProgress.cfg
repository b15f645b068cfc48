SPECIFICATION FairSpec
CONSTANTS
    a = a  b = b  c = c
    Job = {a, b}
    MaxConcurrent = 1
    MaxAttempts = 2
    CanRateLimit = TRUE
    CanCancel = FALSE
    CanHoldOff = TRUE
    CanAwaitIdle = TRUE
    MaxAdds = 1
    MaxStops = 1
    MaxRestarts = 0
PROPERTIES StartsOnlyWhenEnabled JobsConclude IdleResolves
CHECK_DEADLOCK FALSE
