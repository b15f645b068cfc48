SPECIFICATION FairSpec
CONSTANTS
    a = a  b = b  c = c  k1 = k1  k2 = k2
    Job = {a, b}
    Key = {k1, k2}
    QueueOf <- TwoKeys
    Overridden = {a}
    Unparseable = {b}
    MaxAttempts = 2
    RetryOnIdle = FALSE
    Pausable = TRUE
    AddMissesReader = TRUE
    MaxRestarts = 1
INVARIANTS OneRunPerQueue
PROPERTIES StreamedJobsConclude LedgerSpec
CHECK_DEADLOCK FALSE
