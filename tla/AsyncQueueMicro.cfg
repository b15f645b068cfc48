SPECIFICATION FairSpec
CONSTANTS
    MaxAdds = 5
    MicrotaskAdds = TRUE
INVARIANTS TypeOK ConsumedAscending
PROPERTIES ReadableValuesArrive
CHECK_DEADLOCK FALSE
