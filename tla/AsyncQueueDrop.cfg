SPECIFICATION Spec
CONSTANTS
    MaxAdds = 2
    MicrotaskAdds = TRUE
INVARIANT ConsumedInOrder
CHECK_DEADLOCK FALSE
