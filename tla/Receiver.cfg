SPECIFICATION FairSpec
CONSTANTS
    d1 = d1  d2 = d2  m1 = m1  a = a  s1 = s1
    Delivery = {d1, d2}
    Message = {m1}
    MsgOf <- Redelivered
    Leftover = {d1}
    Address = {a}
    PeerOf <- OnePeer
    Send = {s1}
    MaxAttempts = 1
    Fragile = {m1}
    Unwanted = {m1}
    MaxUpsets = 1
INVARIANTS TypeOK AckedKept RatchetKeepsPlaintext SentRecorded ZoneOrder PendingIsOfBatch
PROPERTIES SessionsGrow RowsCleared SendsEnd
CHECK_DEADLOCK FALSE
