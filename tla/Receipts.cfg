SPECIFICATION FairSpec
CONSTANTS
    a = a  b = b  d = d  v = v  e = e
    Recipient = {a, b}
    Self = self
    Receipt = {d, v}
    FromOf <- MCFrom
    TypeOf <- MCType
    Origins = {"own", "other"}
    MaxAttempts = 2
    MaxRetries = 1
    MaxRestarts = 1
    EvictWhileHeld = FALSE
INVARIANTS TypeOK ReceiptsDurable
PROPERTIES NeverBackwards ReceiptsSettle
CHECK_DEADLOCK FALSE
