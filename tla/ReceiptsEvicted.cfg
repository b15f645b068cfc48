SPECIFICATION FairSpec
CONSTANTS
    a = a  b = b  d = d  v = v  e = e
    Recipient = {a, b}
    Self = self
    Receipt = {d}
    FromOf <- MCFrom
    TypeOf <- MCType
    Origins = {"own"}
    MaxAttempts = 2
    MaxRetries = 0
    MaxRestarts = 0
    EvictWhileHeld = TRUE
PROPERTIES NeverBackwards
CHECK_DEADLOCK FALSE
