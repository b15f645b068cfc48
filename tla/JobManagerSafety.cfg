SPECIFICATION Spec
CONSTANTS
    a = a  b = b  c = c
    Job = {a, b}
    MaxConcurrent = 1
    MaxAttempts = 2
    CanRateLimit = FALSE
    CanCancel = TRUE
    CanHoldOff = FALSE
    CanAwaitIdle = FALSE
    MaxAdds = 2
    MaxStops = 0
    MaxRestarts = 1
SYMMETRY JobSymmetry
INVARIANTS TypeOK ConcurrencyBounded NoStuckRows AttemptsBounded
CHECK_DEADLOCK FALSE
