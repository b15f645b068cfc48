SPECIFICATION Spec
CONSTANTS
    a = a  b = b  c = c  k1 = k1  k2 = k2
    Job = {a}
    Key = {k1}
    QueueOf <- OneKey
    Overridden = {}
    Unparseable = {}
    MaxAttempts = 1
    RetryOnIdle = FALSE
    Pausable = FALSE
    AddMissesReader = FALSE
    MaxRestarts = 0
INVARIANT InsertReachesStream
CHECK_DEADLOCK FALSE
