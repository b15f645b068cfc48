SPECIFICATION Spec
CONSTANTS
    a = a  b = b  c = c  k1 = k1  k2 = k2
    Job = {a, b}
    Key = {k1}
    QueueOf <- OneKey
    Overridden = {}
    Unparseable = {}
    MaxAttempts = 1
    RetryOnIdle = TRUE
    Pausable = TRUE
    AddMissesReader = TRUE
    MaxRestarts = 1
INVARIANTS TypeOK NoJobLost RunsOnlyStoredJobs DrainedMeansQuiet
PROPERTIES CompletionAfterDelete StartsInOrder
CHECK_DEADLOCK FALSE
