------------------------ MODULE MessageReceiptsProofs ------------------------
(***************************************************************************)
(* The saved send states never go backwards and no confirmed receipt is    *)
(* lost, for any recipients, receipts and bounds, provided that no send    *)
(* outlasts the eviction of its message; types, also if one does.          *)
(***************************************************************************)
EXTENDS MessageReceipts, TLAPS

\* g is reached from f without a contact losing its state or a status that
\* is Sent or more falling.
Up(f, g) ==
    \A c \in Contact :
        /\ f[c] # "Absent" => g[c] # "Absent"
        /\ isSent(f[c]) => Rank(g[c]) >= Rank(f[c])

StatesOK ==
    /\ row \in States /\ model \in States /\ apart = Nothing
    /\ batch.seen \in States

\* A cached model is at or above the row; what a batch has read is the row
\* as long as nobody cached the message; who holds the message has it cached;
\* a message sent from here is saved.
CacheOK ==
    /\ model # Nothing => Up(row, model)
    /\ batch.at = "read" /\ model = Nothing => batch.seen = row
    /\ Holding => model # Nothing
    /\ job \/ origin = "own" => row # Nothing

IInv == StatesOK /\ CacheOK

\* Nothing is a state of a message.
LEMMA NothingType == Nothing \in States
BY DEF Nothing, States, Status

\* Status numbers order the statuses.
LEMMA RankType == ASSUME NEW s \in Status PROVE Rank(s) \in Int
BY DEF Status, Rank

\* The reducer keeps the status of a contact that was sent to, or raises it,
\* and gives no contact's state away.
LEMMA ReducerUp ==
    ASSUME NEW s \in Status, NEW to \in Status
    PROVE  /\ sendStateReducer(s, to) \in Status
           /\ s # "Absent" => sendStateReducer(s, to) # "Absent"
           /\ isSent(s) => Rank(sendStateReducer(s, to)) >= Rank(s)
BY DEF Status, Rank, isSent, maxStatus, sendStateReducer

\* The order is reflexive.
LEMMA UpRefl == ASSUME NEW f \in States PROVE Up(f, f)
<1>1. ASSUME NEW c \in Contact PROVE Rank(f[c]) \in Int
    BY RankType DEF States
<1> QED BY <1>1 DEF Up

\* The order is transitive.
LEMMA UpTrans ==
    ASSUME NEW f \in States, NEW g \in States, NEW h \in States,
           Up(f, g), Up(g, h)
    PROVE  Up(f, h)
<1> SUFFICES ASSUME NEW c \in Contact
             PROVE  /\ f[c] # "Absent" => h[c] # "Absent"
                    /\ isSent(f[c]) => Rank(h[c]) >= Rank(f[c])
    BY DEF Up
<1>1. f[c] \in Status /\ g[c] \in Status /\ h[c] \in Status
    BY DEF States
<1>2. Rank(f[c]) \in Int /\ Rank(g[c]) \in Int /\ Rank(h[c]) \in Int
    BY <1>1, RankType
<1>3. f[c] # "Absent" => g[c] # "Absent"
    BY DEF Up
<1>4. g[c] # "Absent" => h[c] # "Absent"
    BY DEF Up
<1>5. isSent(f[c]) => Rank(g[c]) >= Rank(f[c])
    BY DEF Up
<1>6. isSent(g[c]) => Rank(h[c]) >= Rank(g[c])
    BY DEF Up
<1>7. Rank("Sent") \in Int
    BY RankType DEF Status
<1>8. isSent(f[c]) => isSent(g[c])
    BY <1>2, <1>5, <1>7 DEF isSent
<1> QED BY <1>2, <1>3, <1>4, <1>5, <1>6, <1>8

\* Nothing is below everything.
LEMMA NothingUp == ASSUME NEW f \in States PROVE Up(Nothing, f)
BY DEF Up, Nothing, isSent, Rank

\* A message that is there stays there.
LEMMA UpStays ==
    ASSUME NEW f \in States, NEW g \in States, Up(f, g), f # Nothing
    PROVE  g # Nothing
<1>1. PICK c \in Contact : f[c] # "Absent"
    BY DEF States, Nothing
<1>2. g[c] # "Absent"
    BY <1>1 DEF Up
<1> QED BY <1>2 DEF Nothing

\* Reducing the states of some contacts goes up.
LEMMA ReducedUp ==
    ASSUME NEW f \in States, NEW C, NEW to \in Status
    PROVE  Reduced(f, C, to) \in States /\ Up(f, Reduced(f, C, to))
<1> DEFINE g == Reduced(f, C, to)
<1>1. ASSUME NEW c \in Contact
      PROVE  /\ g[c] \in Status
             /\ f[c] # "Absent" => g[c] # "Absent"
             /\ isSent(f[c]) => Rank(g[c]) >= Rank(f[c])
    <2>1. f[c] \in Status
        BY DEF States
    <2>2. CASE c \in C /\ f[c] # "Absent"
        <3>1. g[c] = sendStateReducer(f[c], to)
            BY <2>2 DEF Reduced
        <3> QED BY <3>1, <2>1, ReducerUp
    <2>3. CASE ~(c \in C /\ f[c] # "Absent")
        <3>1. g[c] = f[c]
            BY <2>3 DEF Reduced
        <3> QED BY <3>1, <2>1, RankType
    <2> QED BY <2>2, <2>3
<1>2. g = [c \in Contact |-> g[c]]
    BY DEF Reduced
<1>3. g \in States
    BY <1>1, <1>2 DEF States
<1> QED BY <1>1, <1>3 DEF Up

\* Applying receipts goes up.
LEMMA AfterReceiptsUp ==
    ASSUME NEW f \in States, NEW R
    PROVE  AfterReceipts(f, R) \in States /\ Up(f, AfterReceipts(f, R))
<1> DEFINE g == AfterReceipts(f, R)
<1>1. ASSUME NEW c \in Contact
      PROVE  /\ g[c] \in Status
             /\ f[c] # "Absent" => g[c] # "Absent"
             /\ isSent(f[c]) => Rank(g[c]) >= Rank(f[c])
    <2>1. f[c] \in Status
        BY DEF States
    <2>2. \/ g[c] = f[c]
          \/ \E to \in Status : g[c] = sendStateReducer(f[c], to)
        BY DEF AfterReceipts, Status
    <2>3. CASE g[c] = f[c]
        BY <2>3, <2>1, RankType
    <2>4. CASE \E to \in Status : g[c] = sendStateReducer(f[c], to)
        BY <2>4, <2>1, ReducerUp
    <2> QED BY <2>2, <2>3, <2>4
<1>2. g = [c \in Contact |-> g[c]]
    BY DEF AfterReceipts
<1>3. g \in States
    BY <1>1, <1>2 DEF States
<1> QED BY <1>1, <1>3 DEF Up

\* Saving what is above the row raises the row and stays below it.
LEMMA SavedUp ==
    ASSUME StatesOK, NEW f \in States, Up(row, f)
    PROVE  Saved(f) \in States /\ Up(row, Saved(f)) /\ Up(Saved(f), f)
<1>1. CASE row = Nothing
    <2>1. Saved(f) = Nothing
        BY <1>1 DEF Saved
    <2> QED BY <1>1, <2>1, NothingUp, NothingType
<1>2. CASE row # Nothing
    <2>1. Saved(f) = f
        BY <1>2 DEF Saved
    <2> QED BY <2>1, UpRefl
<1> QED BY <1>1, <1>2

\* What the cache or the row gives is at or above the row.
LEMMA LoadedUp ==
    ASSUME IInv
    PROVE  /\ Loaded \in States /\ Up(row, Loaded)
           /\ row # Nothing => Loaded # Nothing
           /\ Holding => Loaded = model /\ Held = model
<1>1. row \in States /\ model \in States /\ apart = Nothing
    BY DEF IInv, StatesOK
<1>2. Up(row, row)
    BY <1>1, UpRefl
<1>3. Up(row, Loaded) /\ Loaded \in States
    BY <1>1, <1>2 DEF Loaded, IInv, CacheOK
<1>4. row # Nothing => Loaded # Nothing
    BY <1>1, <1>3, UpStays
<1>5. Holding => Loaded = model /\ Held = model
    BY <1>1 DEF Loaded, Held, IInv, CacheOK
<1> QED BY <1>3, <1>4, <1>5

\* A step that caches f, saves f or leaves the row, and starts no read keeps
\* the invariant and raises the row.
LEMMA WriteStep ==
    ASSUME IInv, NEW f \in States, Up(row, f), f # Nothing,
           model' = f, apart' = Nothing, origin' = origin,
           row' = row \/ row' = Saved(f),
           batch'.seen = batch.seen \/ batch'.seen = Nothing,
           job' => job \/ row # Nothing
    PROVE  IInv' /\ Up(row, row')
<1>1. row \in States /\ batch.seen \in States /\ StatesOK
    BY DEF IInv, StatesOK
<1>2. Saved(f) \in States /\ Up(row, Saved(f)) /\ Up(Saved(f), f)
    BY <1>1, SavedUp
<1>3. row' \in States /\ Up(row, row') /\ Up(row', f)
    BY <1>1, <1>2, UpRefl
<1>4. batch'.seen \in States
    BY <1>1, NothingType
<1>5. StatesOK'
    BY <1>3, <1>4 DEF StatesOK
<1>6. job' \/ origin' = "own" => row' # Nothing
    BY <1>1, <1>3, UpStays DEF IInv, CacheOK
<1>7. Up(row, model)' = Up(row', f)
    BY DEF Up
<1>8. CacheOK'
    BY <1>3, <1>6, <1>7 DEF CacheOK
<1> QED BY <1>3, <1>5, <1>8 DEF IInv

\* A step that leaves the message, the job and who holds it alone keeps the
\* invariant.
LEMMA QuietStep ==
    ASSUME IInv, row' = row, model' = model, apart' = apart, job' = job,
           origin' = origin,
           Holding' => Holding,
           \/ batch' = batch
           \/ batch'.at # "read" /\ batch'.seen = Nothing
           \/ batch'.seen = row
           \/ batch'.at # "read" /\ batch'.seen = batch.seen
    PROVE  IInv' /\ Up(row, row')
<1>1. row \in States /\ batch.seen \in States
    BY DEF IInv, StatesOK
<1>2. Up(row, row')
    BY <1>1, UpRefl
<1>3. batch'.seen \in States
    BY <1>1, NothingType
<1>4. StatesOK'
    BY <1>3 DEF IInv, StatesOK
<1>5. (batch.at = "read" /\ model = Nothing => batch.seen = row)'
    BY DEF IInv, CacheOK
<1>6. Up(row, model)' = Up(row, model)
    BY DEF Up
<1>7. CacheOK'
    BY <1>5, <1>6 DEF IInv, CacheOK
<1> QED BY <1>2, <1>4, <1>7 DEF IInv

\* The invariant holds when the app starts with the message.
LEMMA InitInv == Init => IInv
<1> SUFFICES ASSUME Init PROVE IInv
    OBVIOUS
<1>1. row \in States
    BY DEF Init, Nothing, States, Status
<1>2. batch.seen = Nothing /\ model = row /\ apart = Nothing
    BY DEF Init
<1>3. StatesOK
    BY <1>1, <1>2, NothingType DEF StatesOK
<1>4. ~Holding /\ batch.at # "read"
    BY DEF Init, Holding, Idle
<1>5. job \/ origin = "own" => row # Nothing
    BY DEF Init, Nothing, Contact
<1>6. Up(row, model)
    BY <1>1, <1>2, UpRefl
<1>7. CacheOK
    BY <1>4, <1>5, <1>6 DEF CacheOK
<1> QED BY <1>3, <1>7 DEF IInv

\* The batcher and arriving receipts keep the invariant.
LEMMA BatcherInv ==
    ASSUME IInv, BatcherStep \/ \E r \in Receipt : onReceipt(r)
    PROVE  IInv' /\ Up(row, row')
<1>1. ASSUME NEW r \in Receipt, onReceipt(r) PROVE IInv' /\ Up(row, row')
    BY <1>1, QuietStep DEF onReceipt, message, sending, syncing, Holding
<1>2. CASE KickBatchOff
    BY <1>2, QuietStep DEF KickBatchOff, message, sending, syncing, Holding
<1>3. CASE BatchRead
    <2>1. batch'.seen = row
        BY <1>3 DEF BatchRead
    <2> QED BY <1>3, <2>1, QuietStep
            DEF BatchRead, message, sending, syncing, Holding
<1>4. CASE BatchMatch
    <2> DEFINE found == {r \in batch.receipts : ~Undelivered(batch.seen, r)}
    <2>1. /\ row' = row /\ apart' = apart /\ job' = job /\ origin' = origin
          /\ send' = send /\ transcript' = transcript
          /\ batch'.seen = Nothing /\ batch'.at # "read" /\ batch.at = "read"
          /\ model' = IF found # {} /\ model = Nothing THEN batch.seen ELSE model
        BY <1>4 DEF BatchMatch, sending, syncing
    <2>2. CASE found # {} /\ model = Nothing
        <3>1. batch.seen = row /\ row \in States
            BY <2>1, <2>2 DEF IInv, CacheOK, StatesOK
        <3>2. model' = row /\ apart' = Nothing
            BY <2>1, <2>2, <3>1 DEF IInv, StatesOK
        <3>3. CASE row # Nothing
            BY <2>1, <3>1, <3>2, <3>3, UpRefl, WriteStep
        <3>4. CASE row = Nothing
            BY <2>1, <2>2, <3>2, <3>4, QuietStep DEF Holding
        <3> QED BY <3>3, <3>4
    <2>3. CASE ~(found # {} /\ model = Nothing)
        BY <2>1, <2>3, QuietStep DEF Holding
    <2> QED BY <2>2, <2>3
<1>5. CASE BatchApply
    <2> DEFINE valid == (batch.receipts \ {r \in batch.receipts :
                                  shouldDropReceipt(r)}) \cap cached
               next == AfterReceipts(Loaded, valid)
    <2>1. /\ model' = next /\ row' = Saved(next) /\ apart' = apart
          /\ job' = job /\ send' = send /\ transcript' = transcript
          /\ origin' = origin
          /\ batch'.seen = Nothing /\ batch'.at # "read"
        BY <1>5 DEF BatchApply, sending, syncing
    <2>2. Loaded \in States /\ Up(row, Loaded) /\ row \in States
        BY LoadedUp DEF IInv, StatesOK
    <2>3. next \in States /\ Up(Loaded, next)
        BY <2>2, AfterReceiptsUp
    <2>4. Up(row, next)
        BY <2>2, <2>3, UpTrans
    <2>5. apart' = Nothing
        BY <2>1 DEF IInv, StatesOK
    <2>6. CASE next # Nothing
        BY <2>1, <2>3, <2>4, <2>5, <2>6, WriteStep
    <2>7. CASE next = Nothing
        <3>1. Loaded = Nothing
            BY <2>2, <2>3, <2>7, UpStays
        <3>2. row = Nothing /\ model = Nothing
            BY <3>1 DEF Loaded
        <3>3. row' = row /\ model' = model
            BY <2>1, <2>7, <3>2 DEF Saved
        <3> QED BY <2>1, <3>3, QuietStep DEF Holding
    <2> QED BY <2>6, <2>7
<1>6. ASSUME NEW r \in Receipt, BatchRemove(r) PROVE IInv' /\ Up(row, row')
    <2>1. batch.at = "removing" /\ batch'.seen = batch.seen /\ batch'.at # "read"
        BY <1>6 DEF BatchRemove
    <2> QED BY <1>6, <2>1, QuietStep
            DEF BatchRemove, message, sending, syncing, Holding
<1> QED BY <1>1, <1>2, <1>3, <1>4, <1>5, <1>6 DEF BatcherStep

\* A holder that sets and saves its states keeps the invariant.
LEMMA HolderStep ==
    ASSUME IInv, Holding, NEW f \in States, Up(model, f),
           model' = f, apart' = Nothing, row' = row \/ row' = Saved(f),
           batch' = batch, job' => job, origin' = origin
    PROVE  IInv' /\ Up(row, row')
<1>1. row \in States /\ model \in States /\ model # Nothing /\ Up(row, model)
    BY DEF IInv, StatesOK, CacheOK
<1>2. Up(row, f) /\ f # Nothing
    BY <1>1, UpTrans, UpStays
<1> QED BY <1>2, WriteStep

\* The send job and the user's retries keep the invariant.
LEMMA SendInv ==
    ASSUME IInv, SendStep PROVE IInv' /\ Up(row, row')
<1>1. row \in States /\ model \in States /\ apart = Nothing
    BY DEF IInv, StatesOK
<1>2. Up(row, Loaded) /\ Loaded \in States /\ (row # Nothing => Loaded # Nothing)
    BY LoadedUp
<1>3. send.at # "idle" => Holding /\ Held = model
    BY LoadedUp DEF Holding
<1>4. {"Sent", "Failed", "Pending"} \subseteq Status
    BY DEF Status
<1>5. CASE SendStart
    <2>1. /\ job /\ model' = Loaded /\ apart' = Nothing /\ row' = row
          /\ batch' = batch /\ origin' = origin
        BY <1>5, <1>1 DEF SendStart, batcher
    <2>2. row # Nothing
        BY <2>1 DEF IInv, CacheOK
    <2> QED BY <2>1, <2>2, <1>2, WriteStep
<1>6. ASSUME NEW r \in Recipient, ServerAccepts(r) PROVE IInv' /\ Up(row, row')
    BY <1>6, QuietStep DEF ServerAccepts, message, batcher, syncing, Holding
<1>7. ASSUME NEW ok \in SUBSET Recipient, NEW failed \in SUBSET Recipient,
             SendAnswered(ok, failed)
      PROVE  IInv' /\ Up(row, row')
    <2>1. /\ send.at # "idle" /\ row' = Saved(Held) /\ model' = model
          /\ apart' = Nothing /\ batch' = batch /\ job' = job
          /\ origin' = origin
        BY <1>7, <1>1 DEF SendAnswered, batcher
    <2>2. Up(model, model)
        BY <1>1, UpRefl
    <2> QED BY <2>1, <2>2, <1>1, <1>3, HolderStep
<1>8. CASE SendRecorded
    <2> DEFINE next == Recorded(Held)
    <2>1. /\ send.at # "idle" /\ row' = Saved(next) /\ model' = next
          /\ apart' = Nothing /\ batch' = batch /\ job' = job
          /\ origin' = origin
        BY <1>8, <1>1 DEF SendRecorded, SetHeld, batcher
    <2>2. next \in States /\ Up(model, next)
        <3> DEFINE sent == Reduced(Held, send.ok, "Sent")
        <3>1. sent \in States /\ Up(model, sent)
            BY <1>1, <1>3, <1>4, <2>1, ReducedUp
        <3>2. /\ Reduced(sent, send.failed, "Failed") \in States
              /\ Up(sent, Reduced(sent, send.failed, "Failed"))
            BY <1>4, <3>1, ReducedUp
        <3>3. Up(model, Reduced(sent, send.failed, "Failed"))
            BY <1>1, <3>1, <3>2, UpTrans
        <3> QED BY <3>1, <3>2, <3>3 DEF Recorded
    <2> QED BY <2>1, <2>2, <1>3, HolderStep
<1>9. CASE SyncAnswered
    <2> DEFINE next == Reduced(Held, {Self}, "Sent")
    <2>1. /\ send.at # "idle" /\ row' = Saved(next) /\ model' = next
          /\ apart' = Nothing /\ batch' = batch /\ job' = job
          /\ origin' = origin
        BY <1>9, <1>1 DEF SyncAnswered, SetHeld, batcher
    <2>2. next \in States /\ Up(model, next)
        BY <1>1, <1>3, <1>4, <2>1, ReducedUp
    <2> QED BY <2>1, <2>2, <1>3, HolderStep
<1>10. CASE SyncFailed
    <2>1. /\ send.at # "idle" /\ (row' = row \/ row' = Saved(Held))
          /\ model' = model /\ apart' = Nothing /\ batch' = batch /\ job' = job
          /\ origin' = origin
        BY <1>10, <1>1 DEF SyncFailed, batcher
    <2>2. Up(model, model)
        BY <1>1, UpRefl
    <2> QED BY <2>1, <2>2, <1>1, <1>3, HolderStep
<1>11. CASE AttemptSucceeded \/ AttemptRetried
    <2>1. /\ send.at # "idle" /\ row' = row /\ model' = model
          /\ apart' = Nothing /\ batch' = batch /\ (job' => job)
          /\ origin' = origin
        BY <1>11 DEF AttemptSucceeded, AttemptRetried, batcher
    <2>2. Up(model, model)
        BY <1>1, UpRefl
    <2> QED BY <2>1, <2>2, <1>1, <1>3, HolderStep
<1>12. CASE AttemptFailed
    <2> DEFINE next == Reduced(Held, Contact, "Failed")
    <2>1. /\ send.at # "idle" /\ row' = Saved(next) /\ model' = next
          /\ apart' = Nothing /\ batch' = batch /\ (job' => job)
          /\ origin' = origin
        BY <1>12, <1>1 DEF AttemptFailed, batcher
    <2>2. next \in States /\ Up(model, next)
        BY <1>1, <1>3, <1>4, <2>1, ReducedUp
    <2> QED BY <2>1, <2>2, <1>3, HolderStep
<1>13. CASE retryMessageSend
    <2> DEFINE C == {c \in Contact : ~isSent(Loaded[c])}
               next == Reduced(Loaded, C, "Pending")
    <2>1. /\ row' = Saved(next) /\ model' = next /\ apart' = Nothing
          /\ batch' = batch /\ origin' = origin /\ origin = "own"
        BY <1>13, <1>1 DEF retryMessageSend, batcher
    <2>2. PICK c \in Contact : Loaded[c] = "Failed"
        BY <1>13 DEF retryMessageSend
    <2>3. Loaded # Nothing
        BY <2>2 DEF Nothing
    <2>4. next \in States /\ Up(Loaded, next)
        BY <1>2, <1>4, ReducedUp
    <2>5. Up(row, next) /\ next # Nothing
        BY <1>1, <1>2, <2>3, <2>4, UpTrans, UpStays
    <2>6. row # Nothing
        BY <2>1 DEF IInv, CacheOK
    <2> QED BY <2>1, <2>4, <2>5, <2>6, WriteStep
<1> QED BY <1>5, <1>6, <1>7, <1>8, <1>9, <1>10, <1>11, <1>12, <1>13
        DEF SendStep

\* The transcripts keep the invariant.
LEMMA TranscriptInv ==
    ASSUME IInv, TranscriptStep \/ \E r \in Recipient : UpdateTranscript(r)
    PROVE  IInv' /\ Up(row, row')
<1>1. row \in States /\ model \in States /\ apart = Nothing
    BY DEF IInv, StatesOK
<1>2. Up(row, Loaded) /\ Loaded \in States
    BY LoadedUp
<1>3. transcript \notin {"none", "done"} => Holding /\ Held = model
    BY LoadedUp DEF Holding
<1>4. CASE HandleTranscript
    <2>1. /\ row' = row /\ apart' = Nothing /\ batch' = batch /\ job' = job
          /\ origin' = origin /\ send' = send
        BY <1>1, <1>4 DEF HandleTranscript, batcher, sending
    <2>2. CASE Loaded = Nothing
        <3>1. row = Nothing /\ model' = SentStates
            BY <1>4, <2>2 DEF Loaded, HandleTranscript
        <3>2. SentStates \in States /\ SentStates[Self] = "Sent"
            BY DEF SentStates, States, Status, Contact
        <3>3. SentStates # Nothing
            BY <3>2 DEF Nothing, Contact
        <3> QED BY <2>1, <3>1, <3>2, <3>3, NothingUp, WriteStep
    <2>3. CASE Loaded # Nothing
        <3>1. model' = Loaded
            BY <1>4, <2>3 DEF HandleTranscript
        <3> QED BY <1>2, <2>1, <2>3, <3>1, WriteStep
    <2> QED BY <2>2, <2>3
<1>5. CASE forMessage
    <2>1. /\ row' = row /\ model' = model /\ apart' = apart /\ job' = job
          /\ origin' = origin /\ batch' = batch
          /\ transcript \notin {"none", "done"}
        BY <1>5 DEF forMessage, message, batcher, sending
    <2> QED BY <2>1, <1>3, QuietStep
<1>6. CASE modifyTargetMessage
    <2> DEFINE given == {r \in early : shouldDropReceipt(r)
                                        \/ Held[FromOf[r]] = "Absent"}
               next == AfterReceipts(Held, early \ given)
    <2>1. /\ transcript \notin {"none", "done"}
          /\ model' = next /\ apart' = Nothing
          /\ row' = row \/ row' = Saved(next)
          /\ batch' = batch /\ job' = job /\ origin' = origin
        BY <1>1, <1>6 DEF modifyTargetMessage, SetHeld, batcher, sending
    <2>2. next \in States /\ Up(model, next)
        BY <1>1, <1>3, <2>1, AfterReceiptsUp
    <2> QED BY <2>1, <2>2, <1>3, HolderStep
<1>7. CASE saveAndNotify
    <2>1. /\ transcript \notin {"none", "done"} /\ apart' = Nothing
          /\ batch' = batch /\ job' = job /\ origin' = origin
        BY <1>1, <1>7 DEF saveAndNotify, batcher, sending
    <2>2. model # Nothing /\ Up(row, model)
        BY <1>3, <2>1 DEF IInv, CacheOK
    <2>3. row' = model /\ model' = model
        BY <1>7, <2>2 DEF saveAndNotify
    <2>4. Up(row, row') /\ Up(row', model') /\ row' \in States
        BY <1>1, <2>2, <2>3, UpRefl
    <2>5. StatesOK'
        BY <1>1, <2>1, <2>3, <2>4 DEF IInv, StatesOK
    <2>6. Up(row, model)'
        BY <2>4 DEF Up
    <2>7. CacheOK'
        BY <2>2, <2>3, <2>6 DEF CacheOK
    <2> QED BY <2>4, <2>5, <2>7 DEF IInv
<1>8. ASSUME NEW r \in Recipient, UpdateTranscript(r)
      PROVE  IInv' /\ Up(row, row')
    <2> DEFINE next == [Loaded EXCEPT ![r] = sendStateReducer(@, "Sent")]
    <2>1. /\ apart' = apart /\ batch' = batch /\ job' = job
          /\ origin' = origin /\ send' = send /\ transcript' = transcript
        BY <1>8 DEF UpdateTranscript, batcher, sending
    <2>2. CASE Loaded = Nothing
        <3>1. row' = row /\ model' = model
            BY <1>8, <2>2 DEF UpdateTranscript
        <3> QED BY <2>1, <3>1, QuietStep DEF Holding
    <2>3. CASE Loaded # Nothing
        <3>1. model' = next /\ row' = Saved(next)
            BY <1>8, <2>3 DEF UpdateTranscript
        <3>2. ASSUME NEW c \in Contact
              PROVE  /\ next[c] \in Status
                     /\ Loaded[c] # "Absent" => next[c] # "Absent"
                     /\ isSent(Loaded[c]) => Rank(next[c]) >= Rank(Loaded[c])
            <4>1. Loaded[c] \in Status /\ "Sent" \in Status
                BY <1>2 DEF States, Status
            <4>2. CASE c = r
                <5>1. next[c] = sendStateReducer(Loaded[c], "Sent")
                    BY <1>2, <4>2 DEF States
                <5> QED BY <4>1, <5>1, ReducerUp
            <4>3. CASE c # r
                <5>1. next[c] = Loaded[c]
                    BY <1>2, <4>3 DEF States
                <5> QED BY <4>1, <5>1, RankType
            <4> QED BY <4>2, <4>3
        <3>3. next = [c \in Contact |-> next[c]]
            BY <1>2 DEF States
        <3>4. next \in States /\ Up(Loaded, next)
            BY <3>2, <3>3 DEF States, Up
        <3>5. Up(row, next) /\ next # Nothing
            BY <1>1, <1>2, <2>3, <3>4, UpTrans, UpStays
        <3> QED BY <1>1, <2>1, <3>1, <3>4, <3>5, WriteStep
    <2> QED BY <2>2, <2>3
<1> QED BY <1>4, <1>5, <1>6, <1>7, <1>8 DEF TranscriptStep

\* Evictions and restarts keep the invariant: nobody holds the message then.
LEMMA ForgetInv ==
    ASSUME IInv, EvictWhileHeld = FALSE, Evict \/ Restart
    PROVE  IInv' /\ Up(row, row')
<1>1. /\ row' = row /\ model' = Nothing /\ apart' = Nothing /\ job' = job
      /\ origin' = origin
      /\ batch'.at # "read" /\ batch'.seen \in {batch.seen, Nothing}
    <2>1. CASE Evict
        BY <2>1 DEF Evict, batcher, sending, IInv, StatesOK
    <2>2. CASE Restart
        BY <2>2 DEF Restart
    <2> QED BY <2>1, <2>2
<1>2. ~Holding'
    <2>1. CASE Evict
        BY <2>1 DEF Evict, sending, syncing, Holding
    <2>2. CASE Restart
        BY <2>2 DEF Restart, Holding, Idle
    <2> QED BY <2>1, <2>2
<1>3. StatesOK'
    BY <1>1, NothingType DEF IInv, StatesOK
<1>4. CacheOK'
    BY <1>1, <1>2 DEF IInv, CacheOK
<1>5. Up(row, row')
    BY <1>1, UpRefl DEF IInv, StatesOK
<1> QED BY <1>3, <1>4, <1>5 DEF IInv

\* Every step keeps the invariant and raises the saved states.
LEMMA StepUp ==
    ASSUME IInv, EvictWhileHeld = FALSE, [Next]_vars
    PROVE  IInv' /\ Up(row, row')
<1>1. CASE ToggleReadReceipts
    BY <1>1, QuietStep
       DEF ToggleReadReceipts, message, batcher, sending, syncing, Holding
<1>2. CASE UNCHANGED vars
    BY <1>2, QuietStep DEF vars, message, batcher, sending, syncing, Holding
<1> QED BY <1>1, <1>2, BatcherInv, SendInv, TranscriptInv, ForgetInv DEF Next

\* No interleaving of sends, retries, transcripts, receipts, evictions and
\* crashes lowers the saved status of a contact that has the message
\* (MessageSendState.std.ts, "never go backwards"), as long as no send or
\* transcript outlasts the eviction of its message.
THEOREM SavedNeverBackwards ==
    ASSUME EvictWhileHeld = FALSE
    PROVE  Spec => NeverBackwards
<1>1. Init => IInv
    BY InitInv
<1>2. IInv /\ [Next]_vars => IInv'
    BY StepUp
<1>3. IInv /\ [Next]_vars =>
        [\A c \in Contact : isSent(row[c]) => Rank(row'[c]) >= Rank(row[c])]_vars
    BY StepUp DEF Up
<1> QED BY <1>1, <1>2, <1>3, PTL DEF Spec, NeverBackwards

-----------------------------------------------------------------------------
(* Types, whether or not a send may outlast the eviction of its message.   *)

\* The batch that is not there.
NoBatch == [at |-> "idle", receipts |-> {}, seen |-> Nothing]

LEMMA NoBatchType ==
    NoBatch \in [at : {"idle", "read", "matched", "removing"},
                 receipts : SUBSET Receipt, seen : States]
BY NothingType DEF NoBatch

\* A send that is not there, in any attempt.
LEMMA IdleType ==
    ASSUME NEW n \in 1..MaxAttempts
    PROVE  [Idle EXCEPT !.attempt = n] \in
             [at : {"idle", "sending", "answered", "syncing", "deciding"},
              attempt : 1..MaxAttempts, targets : SUBSET Recipient,
              ok : SUBSET Recipient, failed : SUBSET Recipient, only : BOOLEAN]
BY DEF Idle

\* The first attempt is a legal one.
LEMMA IdleFirst ==
    /\ 1 \in 1..MaxAttempts
    /\ Idle \in [at : {"idle", "sending", "answered", "syncing", "deciding"},
                 attempt : 1..MaxAttempts, targets : SUBSET Recipient,
                 ok : SUBSET Recipient, failed : SUBSET Recipient,
                 only : BOOLEAN]
<1>1. 1 \in 1..MaxAttempts
    BY ReceiptsAssumption
<1>2. Idle = [Idle EXCEPT !.attempt = 1]
    BY DEF Idle
<1> QED BY <1>1, <1>2, IdleType

\* What is loaded, held or saved is a state of the message.
LEMMA ReadTypes ==
    ASSUME TypeOK
    PROVE  /\ Loaded \in States /\ Held \in States
           /\ \A f \in States : Saved(f) \in States
BY DEF TypeOK, Loaded, Held, Saved

\* Setting the states of a held message keeps the types of both objects.
LEMMA SetHeldType ==
    ASSUME TypeOK, NEW f \in States, SetHeld(f)
    PROVE  model' \in States /\ apart' \in States
BY DEF TypeOK, SetHeld

\* The batcher and arriving receipts keep the types.
LEMMA BatcherType ==
    ASSUME TypeOK, BatcherStep \/ \E r \in Receipt : onReceipt(r)
    PROVE  TypeOK'
<1> USE DEF message, inbox, batcher, sending, syncing
<1>1. ASSUME NEW r \in Receipt, onReceipt(r) PROVE TypeOK'
    BY <1>1 DEF onReceipt, TypeOK
<1>2. CASE KickBatchOff
    <2>1. queue' \in Seq(SUBSET Receipt)
        BY <1>2 DEF KickBatchOff, TypeOK
    <2> QED BY <1>2, <2>1 DEF KickBatchOff, TypeOK
<1>3. CASE BatchRead
    <2>1. Head(queue) \in SUBSET Receipt /\ queue' \in Seq(SUBSET Receipt)
        BY <1>3 DEF BatchRead, TypeOK
    <2>2. batch' \in [at : {"idle", "read", "matched", "removing"},
                      receipts : SUBSET Receipt, seen : States]
        BY <1>3, <2>1 DEF BatchRead, TypeOK
    <2> QED BY <1>3, <2>1, <2>2 DEF BatchRead, TypeOK
<1>4. CASE BatchMatch
    <2> DEFINE found == {r \in batch.receipts : ~Undelivered(batch.seen, r)}
    <2>1. found \in SUBSET Receipt /\ batch.seen \in States
        BY DEF TypeOK
    <2> HIDE DEF found
    <2>2. batch' = [at |-> IF found = {} THEN "idle" ELSE "matched",
                    receipts |-> found, seen |-> Nothing]
        BY <1>4 DEF BatchMatch, found
    <2>3. batch' \in [at : {"idle", "read", "matched", "removing"},
                      receipts : SUBSET Receipt, seen : States]
        BY <2>1, <2>2, NothingType
    <2>4. model' \in States
        BY <1>4, <2>1 DEF BatchMatch, TypeOK
    <2> QED BY <1>4, <2>3, <2>4 DEF BatchMatch, TypeOK
<1>5. CASE BatchApply
    <2> DEFINE drop == {r \in batch.receipts : shouldDropReceipt(r)}
               valid == (batch.receipts \ drop) \cap cached
               next == AfterReceipts(Loaded, valid)
    <2>1. drop \subseteq Receipt /\ valid \in SUBSET Receipt
        BY DEF TypeOK
    <2>2. next \in States /\ Saved(next) \in States
        BY ReadTypes, AfterReceiptsUp
    <2>3. /\ batch' = [at |-> IF valid = {} THEN "idle" ELSE "removing",
                       receipts |-> valid, seen |-> Nothing]
          /\ model' = next /\ row' = Saved(next) /\ tasks' = tasks \ drop
          /\ cached' = cached \ drop /\ dropped' = dropped \cup drop
        BY <1>5 DEF BatchApply
    <2> HIDE DEF drop, valid, next
    <2>4. batch' \in [at : {"idle", "read", "matched", "removing"},
                      receipts : SUBSET Receipt, seen : States]
        BY <2>1, <2>3, NothingType
    <2> QED BY <1>5, <2>1, <2>2, <2>3, <2>4 DEF BatchApply, TypeOK
<1>6. ASSUME NEW r \in Receipt, BatchRemove(r) PROVE TypeOK'
    <2>1. batch' \in [at : {"idle", "read", "matched", "removing"},
                      receipts : SUBSET Receipt, seen : States]
        BY <1>6 DEF BatchRemove, TypeOK
    <2> QED BY <1>6, <2>1 DEF BatchRemove, TypeOK
<1> QED BY <1>1, <1>2, <1>3, <1>4, <1>5, <1>6 DEF BatcherStep

\* The send job and the user's retries keep the types.
LEMMA SendType ==
    ASSUME TypeOK, SendStep PROVE TypeOK'
<1> DEFINE Sends == [at : {"idle", "sending", "answered", "syncing", "deciding"},
                     attempt : 1..MaxAttempts, targets : SUBSET Recipient,
                     ok : SUBSET Recipient, failed : SUBSET Recipient,
                     only : BOOLEAN]
<1>1. {"Sent", "Failed", "Pending"} \subseteq Status
    BY DEF Status
<1>2. Loaded \in States /\ Held \in States /\ \A f \in States : Saved(f) \in States
    BY ReadTypes
<1>3. Nothing \in States /\ Idle \in Sends
    BY NothingType, IdleFirst
<1>4. CASE SendStart
    <2> DEFINE targets == {r \in Recipient : Loaded[r] # "Absent" /\ ~isSent(Loaded[r])}
    <2>1. \/ send' = Idle
          \/ send' = [send EXCEPT !.at = IF targets = {} THEN "syncing" ELSE "sending",
                                  !.targets = targets, !.only = (targets = {})]
        BY <1>4 DEF SendStart
    <2>2. targets \in SUBSET Recipient /\ (targets = {}) \in BOOLEAN
        OBVIOUS
    <2> HIDE DEF targets
    <2>3. send' \in Sends
        BY <1>3, <2>1, <2>2 DEF TypeOK
    <2>4. job' \in BOOLEAN
        BY <1>4 DEF SendStart, TypeOK
    <2> QED BY <1>2, <1>4, <2>3, <2>4
            DEF SendStart, TypeOK, inbox, batcher, syncing
<1>5. ASSUME NEW r \in Recipient, ServerAccepts(r) PROVE TypeOK'
    BY <1>5 DEF ServerAccepts, TypeOK, message, inbox, batcher, syncing
<1>6. ASSUME NEW ok \in SUBSET Recipient, NEW failed \in SUBSET Recipient,
             SendAnswered(ok, failed) PROVE TypeOK'
    <2>1. send' \in Sends
        BY <1>6 DEF SendAnswered, TypeOK
    <2> QED BY <1>2, <1>6, <2>1 DEF SendAnswered, TypeOK, inbox, batcher, syncing
<1>7. CASE SendRecorded
    <2> DEFINE sent == Reduced(Held, send.ok, "Sent")
               next == Recorded(Held)
    <2>1. sent \in States
        BY <1>1, <1>2, ReducedUp
    <2>2. Reduced(sent, send.failed, "Failed") \in States
        BY <1>1, <2>1, ReducedUp
    <2>3. next \in States
        BY <2>1, <2>2 DEF Recorded
    <2>4. SetHeld(next) /\ row' = Saved(next)
        BY <1>7 DEF SendRecorded
    <2> HIDE DEF next
    <2>5. model' \in States /\ apart' \in States /\ row' \in States
        BY <1>2, <2>3, <2>4, SetHeldType
    <2>6. send' \in Sends
        BY <1>7 DEF SendRecorded, TypeOK
    <2> QED BY <1>7, <2>5, <2>6 DEF SendRecorded, TypeOK, inbox, batcher, syncing
<1>8. CASE SyncAnswered
    <2> DEFINE next == Reduced(Held, {Self}, "Sent")
    <2>1. next \in States
        BY <1>1, <1>2, ReducedUp
    <2>2. SetHeld(next) /\ row' = Saved(next)
        BY <1>8 DEF SyncAnswered
    <2> HIDE DEF next
    <2>3. model' \in States /\ apart' \in States /\ row' \in States
        BY <1>2, <2>1, <2>2, SetHeldType
    <2>4. send' \in Sends
        BY <1>8 DEF SyncAnswered, TypeOK
    <2> QED BY <1>8, <2>3, <2>4 DEF SyncAnswered, TypeOK, inbox, batcher, syncing
<1>9. CASE SyncFailed
    <2>1. send' \in Sends
        BY <1>9 DEF SyncFailed, TypeOK
    <2>2. row' \in States
        BY <1>2, <1>9 DEF SyncFailed, TypeOK
    <2> QED BY <1>9, <2>1, <2>2 DEF SyncFailed, TypeOK, inbox, batcher, syncing
<1>10. CASE AttemptSucceeded
    <2>1. send' = Idle /\ apart' = Nothing /\ job' \in BOOLEAN
        BY <1>10 DEF AttemptSucceeded
    <2>2. send' \in Sends
        BY <1>3, <2>1
    <2> QED BY <1>3, <1>10, <2>1, <2>2
            DEF AttemptSucceeded, TypeOK, inbox, batcher, syncing
<1>11. CASE AttemptRetried
    <2>1. send.attempt + 1 \in 1..MaxAttempts
        <3>1. send.attempt \in 1..MaxAttempts /\ send.attempt < MaxAttempts
            BY <1>11 DEF AttemptRetried, TypeOK
        <3> QED BY <3>1, ReceiptsAssumption
    <2>2. send' = [Idle EXCEPT !.attempt = send.attempt + 1] /\ apart' = Nothing
        BY <1>11 DEF AttemptRetried
    <2>3. send' \in Sends
        BY <2>1, <2>2, IdleType
    <2> QED BY <1>3, <1>11, <2>2, <2>3
            DEF AttemptRetried, TypeOK, inbox, batcher, syncing
<1>12. CASE AttemptFailed
    <2> DEFINE next == Reduced(Held, Contact, "Failed")
    <2>1. next \in States
        BY <1>1, <1>2, ReducedUp
    <2>2. /\ model' = IF apart = Nothing THEN next ELSE model
          /\ apart' = Nothing /\ row' = Saved(next) /\ send' = Idle
          /\ job' \in BOOLEAN
        BY <1>12 DEF AttemptFailed
    <2> HIDE DEF next
    <2>3. model' \in States /\ row' \in States /\ send' \in Sends
        BY <1>2, <1>3, <2>1, <2>2 DEF TypeOK
    <2> QED BY <1>3, <1>12, <2>2, <2>3
            DEF AttemptFailed, TypeOK, inbox, batcher, syncing
<1>13. CASE retryMessageSend
    <2> DEFINE C == {c \in Contact : ~isSent(Loaded[c])}
               next == Reduced(Loaded, C, "Pending")
    <2>1. next \in States
        BY <1>1, <1>2, ReducedUp
    <2>2. model' = next /\ row' = Saved(next) /\ job' \in BOOLEAN
        BY <1>13 DEF retryMessageSend
    <2>3. retries' \in 0..MaxRetries
        BY <1>13, ReceiptsAssumption DEF retryMessageSend, TypeOK
    <2> HIDE DEF next
    <2> QED BY <1>2, <1>13, <2>1, <2>2, <2>3
            DEF retryMessageSend, TypeOK, inbox, batcher, syncing
<1> QED BY <1>4, <1>5, <1>6, <1>7, <1>8, <1>9, <1>10, <1>11, <1>12, <1>13
        DEF SendStep

\* The transcripts keep the types.
LEMMA TranscriptType ==
    ASSUME TypeOK, TranscriptStep \/ \E r \in Recipient : UpdateTranscript(r)
    PROVE  TypeOK'
<1>1. Loaded \in States /\ Held \in States /\ \A f \in States : Saved(f) \in States
    BY ReadTypes
<1>2. Nothing \in States /\ SentStates \in States
    BY NothingType DEF SentStates, States, Status
<1>3. CASE HandleTranscript
    <2>1. model' \in States
        BY <1>1, <1>2, <1>3 DEF HandleTranscript
    <2> QED BY <1>3, <2>1 DEF HandleTranscript, TypeOK, inbox, batcher, sending
<1>4. CASE forMessage
    BY <1>4 DEF forMessage, TypeOK, message, batcher, sending
<1>5. CASE modifyTargetMessage
    <2> DEFINE given == {r \in early : shouldDropReceipt(r)
                                        \/ Held[FromOf[r]] = "Absent"}
               next == AfterReceipts(Held, early \ given)
    <2>1. next \in States /\ given \subseteq Receipt
        BY <1>1, AfterReceiptsUp DEF TypeOK
    <2>2. /\ IF transcript = "taken"
             THEN SetHeld(next) /\ row' = row
             ELSE /\ model' = IF apart = Nothing THEN next ELSE model
                  /\ apart' = Nothing
                  /\ row' = IF next = Held THEN row ELSE Saved(next)
          /\ dropped' = dropped \cup given
        BY <1>5 DEF modifyTargetMessage
    <2> HIDE DEF next, given
    <2>3. model' \in States /\ apart' \in States /\ row' \in States
        <3>1. CASE transcript = "taken"
            BY <2>1, <2>2, <3>1, SetHeldType DEF TypeOK
        <3>2. CASE transcript # "taken"
            BY <1>1, <1>2, <2>1, <2>2, <3>2 DEF TypeOK
        <3> QED BY <3>1, <3>2
    <2> QED BY <1>5, <2>1, <2>2, <2>3
            DEF modifyTargetMessage, TypeOK, batcher, sending
<1>6. CASE saveAndNotify
    <2>1. model' \in States /\ row' \in States
        BY <1>1, <1>6 DEF saveAndNotify, TypeOK
    <2> QED BY <1>6, <2>1 DEF saveAndNotify, TypeOK, inbox, batcher, sending
<1>7. ASSUME NEW r \in Recipient, UpdateTranscript(r) PROVE TypeOK'
    <2> DEFINE next == [Loaded EXCEPT ![r] = sendStateReducer(@, "Sent")]
    <2>1. next \in States
        <3>1. sendStateReducer(Loaded[r], "Sent") \in Status
            <4>1. Loaded[r] \in Status /\ "Sent" \in Status
                BY <1>1 DEF States, Status, Contact
            <4> QED BY <4>1, ReducerUp
        <3> QED BY <1>1, <3>1 DEF States
    <2>2. IF Loaded = Nothing THEN UNCHANGED <<row, model>>
                              ELSE model' = next /\ row' = Saved(next)
        BY <1>7 DEF UpdateTranscript
    <2> HIDE DEF next
    <2>3. model' \in States /\ row' \in States
        BY <1>1, <2>1, <2>2 DEF TypeOK
    <2> QED BY <1>7, <2>3 DEF UpdateTranscript, TypeOK, inbox, batcher, sending
<1> QED BY <1>3, <1>4, <1>5, <1>6, <1>7 DEF TranscriptStep

\* Evictions, restarts and the setting keep the types.
LEMMA ProcessType ==
    ASSUME TypeOK, Evict \/ Restart \/ ToggleReadReceipts \/ UNCHANGED vars
    PROVE  TypeOK'
<1>1. CASE Evict
    <2>1. model' \in States /\ apart' \in States
        BY <1>1, NothingType DEF Evict, TypeOK
    <2> QED BY <1>1, <2>1 DEF Evict, TypeOK, inbox, batcher, sending, syncing
<1>2. CASE Restart
    <2>1. model' \in States /\ apart' \in States
        BY <1>2, NothingType DEF Restart
    <2>2. /\ batch' = NoBatch /\ send' = Idle /\ queue' = <<>>
          /\ queue' \in Seq(SUBSET Receipt)
        BY <1>2 DEF Restart, NoBatch
    <2>3. restarts' \in 0..MaxRestarts
        BY <1>2, ReceiptsAssumption DEF Restart, TypeOK
    <2> QED BY <1>2, <2>1, <2>2, <2>3, NoBatchType, IdleFirst
            DEF Restart, TypeOK
<1>3. CASE ToggleReadReceipts
    <2>1. readReceipts' \in BOOLEAN
        BY <1>3 DEF ToggleReadReceipts
    <2> QED BY <1>3, <2>1 DEF ToggleReadReceipts, TypeOK, message, inbox,
                              batcher, sending, syncing
<1>4. CASE UNCHANGED vars
    BY <1>4 DEF vars, TypeOK, message, inbox, batcher, sending, syncing
<1> QED BY <1>1, <1>2, <1>3, <1>4

\* The app starts with values of the right types.
LEMMA InitType == Init => TypeOK
<1> SUFFICES ASSUME Init PROVE TypeOK
    OBVIOUS
<1>1. origin \in {"own", "other"}
    BY ReceiptsAssumption DEF Init
<1>2. row \in States /\ model \in States /\ apart \in States
    BY NothingType DEF Init, States, Status
<1>3. batch = NoBatch /\ send = Idle
    BY DEF Init, NoBatch
<1>4. /\ batch \in [at : {"idle", "read", "matched", "removing"},
                    receipts : SUBSET Receipt, seen : States]
      /\ send \in [at : {"idle", "sending", "answered", "syncing", "deciding"},
                   attempt : 1..MaxAttempts, targets : SUBSET Recipient,
                   ok : SUBSET Recipient, failed : SUBSET Recipient,
                   only : BOOLEAN]
    BY <1>3, NoBatchType, IdleFirst
<1>5. job \in BOOLEAN /\ readReceipts \in BOOLEAN
    BY DEF Init
<1>6. listed \subseteq Recipient /\ updates \subseteq Recipient
    BY DEF Init
<1>7. retries \in 0..MaxRetries /\ restarts \in 0..MaxRestarts
    BY ReceiptsAssumption DEF Init
<1>8. accepted \subseteq Recipient
    BY DEF Init
<1>9. transcript \in {"none", "registered", "taken", "unsaved", "saved",
                      "takenAgain", "done"}
    BY DEF Init
<1>10. /\ tasks = {} /\ cached = {} /\ received = {} /\ dropped = {}
       /\ items = {} /\ queue = <<>> /\ early = {} /\ queue \in Seq(SUBSET Receipt)
    BY DEF Init
<1> QED BY <1>1, <1>2, <1>4, <1>5, <1>6, <1>7, <1>8, <1>9, <1>10 DEF TypeOK

\* Every step keeps the types.
LEMMA TypeStep == ASSUME TypeOK, [Next]_vars PROVE TypeOK'
BY BatcherType, SendType, TranscriptType, ProcessType DEF Next

\* Every variable keeps its type, for any bounds and also when a send outlasts
\* the eviction of its message.
THEOREM TypeCorrect == Spec => []TypeOK
<1>1. TypeOK /\ [Next]_vars => TypeOK'
    BY TypeStep
<1> QED BY <1>1, InitType, PTL DEF Spec

-----------------------------------------------------------------------------
(* No confirmed receipt is lost.                                           *)

\* The status a receipt stands for, and that the states f show it.
StatusOf(r) == CASE TypeOf[r] = "Delivery" -> "Delivered"
                 [] TypeOf[r] = "Read" -> "Read"
                 [] TypeOf[r] = "View" -> "Viewed"

Shows(f, r) == Rank(f[FromOf[r]]) >= Rank(StatusOf(r))

\* A message sent from here has no transcript, one from another device no job.
OriginOK ==
    /\ origin = "own" => transcript = "done"
    /\ origin = "other" => ~job /\ send.at = "idle"

\* What the batch has read has only grown since; the receipts it matched are
\* of contacts the saved message was sent to, the ones it removes are shown.
BatchOK ==
    /\ batch.at = "read" => Up(batch.seen, row)
    /\ batch.at = "matched" => \A r \in batch.receipts : isSent(row[FromOf[r]])
    /\ batch.at = "removing" => \A r \in batch.receipts : Shows(row, r)

\* Once the message of a transcript is stored, its row is up to date until
\* the second run of modifyTargetMessage is over.
SavedOK == transcript \in {"saved", "takenAgain"} => model = row

\* forMessage has taken the receipt, or the first run of modifyTargetMessage
\* has applied it to a message that is not stored yet.
InMemory(r) ==
    \/ transcript \in {"taken", "takenAgain"} /\ r \in early
    \/ transcript = "unsaved" /\ Shows(model, r)

Kept(r) == \/ r \in tasks \/ Settled(r) \/ InMemory(r)
           \/ origin = "other" /\ restarts > 0

KeptOK == \A r \in received : Kept(r)

DurableInv == OriginOK /\ BatchOK /\ SavedOK /\ KeptOK

\* A receipt settles when the saved states show it.
LEMMA SettledShows ==
    ASSUME NEW r PROVE Settled(r) <=> r \in dropped \/ Shows(row, r)
BY DEF Settled, Shows, StatusOf

\* Receipts stand for a status above Sent.
LEMMA ReceiptStatus ==
    ASSUME NEW r \in Receipt
    PROVE  /\ StatusOf(r) \in {"Delivered", "Read", "Viewed"}
           /\ StatusOf(r) \in Status
           /\ FromOf[r] \in Recipient /\ FromOf[r] \in Contact
BY ReceiptsAssumption DEF StatusOf, Status, Contact

\* What is shown is sent, and stays shown on the way up.
LEMMA ShowsUp ==
    ASSUME NEW r \in Receipt, NEW f \in States, NEW g \in States,
           Up(f, g), Shows(f, r)
    PROVE  Shows(g, r)
<1>1. /\ StatusOf(r) \in {"Delivered", "Read", "Viewed"}
      /\ FromOf[r] \in Contact
    BY ReceiptStatus
<1>2. f[FromOf[r]] \in Status /\ g[FromOf[r]] \in Status
    BY <1>1 DEF States
<1>3. /\ Rank(f[FromOf[r]]) \in Int /\ Rank(g[FromOf[r]]) \in Int
    BY <1>2, RankType
<1>4. Rank(StatusOf(r)) \in Int /\ Rank(StatusOf(r)) >= 3 /\ Rank("Sent") = 2
    BY <1>1 DEF Rank
<1>5. isSent(f[FromOf[r]])
    BY <1>3, <1>4 DEF Shows, isSent
<1>6. Rank(g[FromOf[r]]) >= Rank(f[FromOf[r]])
    BY <1>1, <1>5 DEF Up
<1> QED BY <1>3, <1>4, <1>6 DEF Shows

\* A status that is Sent or more stays so on the way up.
LEMMA SentUp ==
    ASSUME NEW c \in Contact, NEW f \in States, NEW g \in States,
           Up(f, g), isSent(f[c])
    PROVE  isSent(g[c])
<1>1. f[c] \in Status /\ g[c] \in Status
    BY DEF States
<1>2. Rank(f[c]) \in Int /\ Rank(g[c]) \in Int /\ Rank("Sent") = 2
    BY <1>1, RankType DEF Rank
<1> QED BY <1>2 DEF Up, isSent

\* The reducer reaches the status of a receipt from every status.
LEMMA ReducerReaches ==
    ASSUME NEW s \in Status, NEW to \in {"Delivered", "Read", "Viewed"}
    PROVE  Rank(sendStateReducer(s, to)) >= Rank(to)
BY DEF Status, Rank, maxStatus, sendStateReducer

\* Applied receipts are shown, whatever was there before.
LEMMA AppliedShown ==
    ASSUME NEW f \in States, NEW R \in SUBSET Receipt, NEW r \in R
    PROVE  Shows(AfterReceipts(f, R), r)
<1> DEFINE c == FromOf[r]
           g == AfterReceipts(f, R)
<1>1. r \in Receipt /\ c \in Contact /\ f[c] \in Status
    BY ReceiptStatus DEF States
<1>2. TypeOf[r] \in {"Delivery", "Read", "View"}
    BY <1>1, ReceiptsAssumption
<1>3. HasReceipt(R, c, TypeOf[r])
    BY DEF HasReceipt
<1>4. Rank("Viewed") = 5 /\ Rank("Read") = 4 /\ Rank("Delivered") = 3
    BY DEF Rank
<1>5. \A to \in {"Delivered", "Read", "Viewed"} :
         /\ Rank(sendStateReducer(f[c], to)) \in Int
         /\ Rank(sendStateReducer(f[c], to)) >= Rank(to)
    <2> TAKE to \in {"Delivered", "Read", "Viewed"}
    <2>1. to \in Status
        BY DEF Status
    <2>2. sendStateReducer(f[c], to) \in Status
        BY <1>1, <2>1, ReducerUp
    <2> QED BY <1>1, <2>2, RankType, ReducerReaches
<1>6. CASE HasReceipt(R, c, "View")
    <2>1. g[c] = sendStateReducer(f[c], "Viewed")
        BY <1>1, <1>6 DEF AfterReceipts
    <2>2. Rank(StatusOf(r)) \in {3, 4, 5}
        BY <1>2, <1>4 DEF StatusOf
    <2> QED BY <1>4, <1>5, <2>1, <2>2 DEF Shows
<1>7. CASE ~HasReceipt(R, c, "View") /\ HasReceipt(R, c, "Read")
    <2>1. g[c] = sendStateReducer(f[c], "Read")
        BY <1>1, <1>7 DEF AfterReceipts
    <2>2. TypeOf[r] \in {"Delivery", "Read"}
        BY <1>2, <1>3, <1>7
    <2>3. Rank(StatusOf(r)) \in {3, 4}
        BY <1>4, <2>2 DEF StatusOf
    <2> QED BY <1>4, <1>5, <2>1, <2>3 DEF Shows
<1>8. CASE ~HasReceipt(R, c, "View") /\ ~HasReceipt(R, c, "Read")
    <2>1. TypeOf[r] = "Delivery"
        BY <1>2, <1>3, <1>8
    <2>2. g[c] = sendStateReducer(f[c], "Delivered")
        BY <1>1, <1>3, <1>8, <2>1 DEF AfterReceipts
    <2>3. StatusOf(r) = "Delivered"
        BY <2>1 DEF StatusOf
    <2> QED BY <1>5, <2>2, <2>3 DEF Shows
<1> QED BY <1>6, <1>7, <1>8
\* A step that raises the saved states and gives a receipt away only to the
\* saved message, to the dropped ones or to forMessage keeps the receipts.
LEMMA KeptStep ==
    ASSUME TypeOK, TypeOK', KeptOK, Up(row, row'),
           dropped \subseteq dropped', origin' = origin,
           restarts' = restarts,
           \A r \in received' : r \in received \/ r \in tasks',
           \A r \in Receipt : r \in tasks =>
               \/ r \in tasks' \/ r \in dropped' \/ Shows(row', r)
               \/ InMemory(r)',
           \A r \in Receipt : InMemory(r) =>
               InMemory(r)' \/ r \in dropped' \/ Shows(row', r)
    PROVE  KeptOK'
<1> SUFFICES ASSUME NEW r \in received' PROVE Kept(r)'
    BY DEF KeptOK
<1>1. r \in Receipt /\ row \in States /\ row' \in States
    BY DEF TypeOK
<1>2. Settled(r)' <=> r \in dropped' \/ Shows(row', r)
    BY DEF Settled, Shows, StatusOf
<1>3. CASE r \in tasks'
    BY <1>3 DEF Kept
<1>4. CASE r \in received
    <2>1. r \in tasks \/ Settled(r) \/ InMemory(r) \/ (origin = "other" /\ restarts > 0)
        BY <1>4 DEF KeptOK, Kept
    <2>2. Settled(r) => r \in dropped' \/ Shows(row', r)
        BY <1>1, ShowsUp, SettledShows
    <2> QED BY <1>1, <1>2, <2>1, <2>2 DEF Kept
<1> QED BY <1>3, <1>4

\* The batch under way is not disturbed by a step that raises the row.
LEMMA BatchKept ==
    ASSUME TypeOK, TypeOK', BatchOK, batch' = batch, Up(row, row')
    PROVE  BatchOK'
<1>1. row \in States /\ row' \in States /\ batch.seen \in States
    BY DEF TypeOK
<1>2. batch.at = "read" => Up(batch.seen, row')
    BY <1>1, UpTrans DEF BatchOK
<1>3. ASSUME NEW r \in batch.receipts
      PROVE  r \in Receipt /\ FromOf[r] \in Contact
    BY ReceiptStatus DEF TypeOK
<1>4. batch.at = "matched" =>
          \A r \in batch.receipts : isSent(row'[FromOf[r]])
    BY <1>1, <1>3, SentUp DEF BatchOK
<1>5. batch.at = "removing" => \A r \in batch.receipts : Shows(row', r)
    BY <1>1, <1>3, ShowsUp DEF BatchOK
<1>6. (Up(batch.seen, row))' <=> Up(batch.seen, row')
    BY DEF Up
<1>7. \A r : Shows(row, r)' <=> Shows(row', r)
    BY DEF Shows
<1> QED BY <1>2, <1>4, <1>5, <1>6, <1>7 DEF BatchOK

\* What forMessage holds is not disturbed by a step that raises the model of
\* a message that is not stored yet.
LEMMA MemoryKept ==
    ASSUME TypeOK, TypeOK', transcript' = transcript, early' = early,
           transcript = "unsaved" => Up(model, model')
    PROVE  \A r \in Receipt : InMemory(r) => InMemory(r)'
<1>1. model \in States /\ model' \in States
    BY DEF TypeOK
<1>2. \A r \in Receipt : transcript = "unsaved" /\ Shows(model, r)
                            => Shows(model', r)
    BY <1>1, ShowsUp
<1>3. \A r : Shows(model, r)' <=> Shows(model', r)
    BY DEF Shows
<1> QED BY <1>2, <1>3 DEF InMemory

\* A step that leaves the receipts, the batch and the transcript alone keeps
\* the invariant if it raises the row and the model of a held message.
LEMMA AloofStep ==
    ASSUME TypeOK, TypeOK', DurableInv, Up(row, row'),
           tasks' = tasks, received' = received, dropped' = dropped,
           batch' = batch, transcript' = transcript, early' = early,
           origin' = origin, restarts' = restarts,
           transcript = "unsaved" => Up(model, model'),
           OriginOK', SavedOK'
    PROVE  DurableInv'
<1>1. \A r \in Receipt : InMemory(r) => InMemory(r)'
    BY MemoryKept
<1>2. KeptOK'
    BY <1>1, KeptStep DEF DurableInv
<1>3. BatchOK'
    BY BatchKept DEF DurableInv
<1> QED BY <1>2, <1>3 DEF DurableInv

\* The send job is for messages sent from here, which have no transcript.
LEMMA SendDurable ==
    ASSUME TypeOK, TypeOK', DurableInv, Up(row, row'), SendStep
    PROVE  DurableInv'
<1>1. /\ tasks' = tasks /\ received' = received /\ dropped' = dropped
      /\ batch' = batch /\ transcript' = transcript /\ early' = early
      /\ origin' = origin /\ restarts' = restarts
    BY DEF SendStep, SendStart, ServerAccepts, SendAnswered, SendRecorded,
           SyncAnswered, SyncFailed, AttemptSucceeded, AttemptRetried,
           AttemptFailed, retryMessageSend, message, inbox, batcher, syncing
<1>2. origin = "own"
    <2>1. job \/ send.at # "idle" \/ origin = "own"
        BY DEF SendStep, SendStart, ServerAccepts, SendAnswered, SendRecorded,
               SyncAnswered, SyncFailed, AttemptSucceeded, AttemptRetried,
               AttemptFailed, retryMessageSend
    <2> QED BY <2>1 DEF DurableInv, OriginOK, TypeOK
<1>3. transcript = "done"
    BY <1>2 DEF DurableInv, OriginOK
<1>4. OriginOK' /\ SavedOK'
    BY <1>1, <1>2, <1>3 DEF OriginOK, SavedOK
<1> QED BY <1>1, <1>3, <1>4, AloofStep

\* The batcher and arriving receipts lose no receipt: the message is saved
\* before a task is removed.
LEMMA BatcherDurable ==
    ASSUME TypeOK, TypeOK', IInv, DurableInv, Up(row, row'),
           BatcherStep \/ \E r \in Receipt : onReceipt(r)
    PROVE  DurableInv'
<1>1. /\ row \in States /\ row' \in States /\ model \in States
      /\ model' \in States /\ batch.seen \in States
    BY DEF TypeOK
<1>2. Loaded \in States /\ Up(row, Loaded) /\ (Holding => Loaded = model)
    BY LoadedUp
<1>3. OriginOK /\ BatchOK /\ SavedOK /\ KeptOK
    BY DEF DurableInv
<1>4. /\ origin' = origin /\ transcript' = transcript /\ early' = early
      /\ job' = job /\ send' = send /\ restarts' = restarts
    BY DEF BatcherStep, onReceipt, KickBatchOff, BatchRead, BatchMatch,
           BatchApply, BatchRemove, message, inbox, sending, syncing
<1>5. OriginOK'
    BY <1>3, <1>4 DEF OriginOK
<1>6. transcript \in {"unsaved", "saved", "takenAgain"} => Holding /\ model # Nothing
    BY DEF IInv, CacheOK, Holding
<1>7. \A r : (Shows(row, r)' <=> Shows(row', r))
    BY DEF Shows
<1>8. ASSUME NEW r \in Receipt, onReceipt(r) PROVE DurableInv'
    <2>1. /\ row' = row /\ model' = model /\ batch' = batch
          /\ dropped' = dropped /\ received' = received \cup {r}
          /\ tasks' = tasks \cup {r}
        BY <1>8 DEF onReceipt, message
    <2>2. SavedOK'
        BY <1>3, <1>4, <2>1 DEF SavedOK
    <2>3. BatchOK'
        BY <1>3, <2>1, BatchKept
    <2>4. \A x \in Receipt : InMemory(x) => InMemory(x)'
        BY <1>1, <1>4, <2>1, UpRefl, MemoryKept
    <2>5. KeptOK'
        BY <1>3, <1>4, <2>1, <2>4, KeptStep
    <2> QED BY <1>5, <2>2, <2>3, <2>5 DEF DurableInv
<1>9. CASE KickBatchOff
    <2>1. /\ row' = row /\ model' = model /\ batch' = batch
          /\ dropped' = dropped /\ received' = received /\ tasks' = tasks
        BY <1>9 DEF KickBatchOff, message, inbox
    <2>2. SavedOK'
        BY <1>3, <1>4, <2>1 DEF SavedOK
    <2>3. Up(model, model')
        BY <1>1, <2>1, UpRefl
    <2> QED BY <1>4, <1>5, <2>1, <2>2, <2>3, AloofStep
<1>10. CASE BatchRead
    <2>1. /\ row' = row /\ model' = model
          /\ dropped' = dropped /\ received' = received /\ tasks' = tasks
          /\ batch'.at = "read" /\ batch'.seen = row
        BY <1>10 DEF BatchRead, message, inbox
    <2>2. SavedOK'
        BY <1>3, <1>4, <2>1 DEF SavedOK
    <2>3. Up(row, row)
        BY <1>1, UpRefl
    <2>4. BatchOK'
        BY <2>1, <2>3 DEF BatchOK, Up
    <2>5. \A x \in Receipt : InMemory(x) => InMemory(x)'
        BY <1>1, <1>4, <2>1, UpRefl, MemoryKept
    <2>6. KeptOK'
        BY <1>3, <1>4, <2>1, <2>5, KeptStep
    <2> QED BY <1>5, <2>2, <2>4, <2>6 DEF DurableInv
<1>11. CASE BatchMatch
    <2> DEFINE found == {r \in batch.receipts : ~Undelivered(batch.seen, r)}
    <2>1. /\ row' = row /\ batch.at = "read"
          /\ dropped' = dropped /\ received' = received /\ tasks' = tasks
          /\ batch'.at \in {"idle", "matched"} /\ batch'.receipts = found
          /\ model # Nothing => model' = model
        BY <1>11 DEF BatchMatch, inbox
    <2>2. SavedOK'
        BY <1>3, <1>4, <1>6, <2>1 DEF SavedOK
    <2>3. ASSUME NEW r \in found PROVE isSent(row[FromOf[r]])
        <3>1. r \in Receipt /\ FromOf[r] \in Contact
            BY ReceiptStatus DEF TypeOK
        <3>2. batch.seen[FromOf[r]] \in {"Sent", "Delivered", "Read", "Viewed"}
            BY <1>1, <3>1 DEF Undelivered, States, Status
        <3>3. isSent(batch.seen[FromOf[r]])
            BY <3>2 DEF isSent, Rank
        <3>4. Up(batch.seen, row)
            BY <1>3, <2>1 DEF BatchOK
        <3> QED BY <1>1, <3>1, <3>3, <3>4, SentUp
    <2>4. BatchOK'
        BY <2>1, <2>3 DEF BatchOK
    <2>5. \A x \in Receipt : InMemory(x) => InMemory(x)'
        BY <1>1, <1>4, <1>6, <2>1, UpRefl, MemoryKept
    <2>6. KeptOK'
        BY <1>3, <1>4, <2>1, <2>5, KeptStep
    <2> QED BY <1>5, <2>2, <2>4, <2>6 DEF DurableInv
<1>12. CASE BatchApply
    <2> DEFINE drop == {r \in batch.receipts : shouldDropReceipt(r)}
               valid == (batch.receipts \ drop) \cap cached
               next == AfterReceipts(Loaded, valid)
    <2>1. /\ batch.at = "matched" /\ row' = Saved(next) /\ model' = next
          /\ dropped' = dropped \cup drop /\ received' = received
          /\ tasks' = tasks \ drop
          /\ batch'.at = (IF valid = {} THEN "idle" ELSE "removing")
          /\ batch'.receipts = valid
        BY <1>12 DEF BatchApply
    <2>2. valid \in SUBSET Receipt /\ valid \subseteq batch.receipts
        BY DEF TypeOK
    <2>3. next \in States /\ Up(Loaded, next)
        BY <1>2, AfterReceiptsUp
    <2>4. \A r \in valid : Shows(next, r)
        BY <1>2, <2>2, AppliedShown
    <2>5. valid # {} => row # Nothing
        <3> SUFFICES ASSUME NEW r \in valid PROVE row # Nothing
            OBVIOUS
        <3>1. r \in Receipt /\ FromOf[r] \in Contact
            BY <2>2, ReceiptStatus
        <3>2. isSent(row[FromOf[r]])
            BY <1>3, <2>1, <2>2 DEF BatchOK
        <3>3. Rank("Absent") = -1 /\ Rank("Sent") = 2
            BY DEF Rank
        <3>4. row[FromOf[r]] # "Absent"
            BY <3>2, <3>3 DEF isSent
        <3> QED BY <3>1, <3>4 DEF Nothing
    <2> HIDE DEF drop, valid, next
    <2>6. row # Nothing => row' = next
        BY <2>1 DEF Saved
    <2>7. SavedOK'
        BY <1>3, <1>4, <1>6, <2>1, <2>6 DEF SavedOK
    <2>8. BatchOK'
        BY <1>7, <2>1, <2>4, <2>5, <2>6 DEF BatchOK
    <2>9. transcript = "unsaved" => Up(model, model')
        BY <1>2, <1>6, <2>1, <2>3
    <2>10. \A x \in Receipt : InMemory(x) => InMemory(x)'
        BY <1>4, <2>9, MemoryKept
    <2>11. KeptOK'
        BY <1>3, <1>4, <2>1, <2>10, KeptStep
    <2> QED BY <1>5, <2>7, <2>8, <2>11 DEF DurableInv
<1>13. ASSUME NEW r \in Receipt, BatchRemove(r) PROVE DurableInv'
    <2>1. /\ row' = row /\ model' = model /\ batch.at = "removing"
          /\ r \in batch.receipts /\ tasks' = tasks \ {r}
          /\ dropped' = dropped /\ received' = received
          /\ batch'.at \in {"idle", "removing"}
          /\ batch'.receipts = batch.receipts \ {r}
        BY <1>13 DEF BatchRemove, message, TypeOK
    <2>2. SavedOK'
        BY <1>3, <1>4, <2>1 DEF SavedOK
    <2>3. Shows(row', r)
        BY <1>3, <2>1 DEF BatchOK
    <2>4. BatchOK'
        BY <1>3, <1>7, <2>1 DEF BatchOK
    <2>5. \A x \in Receipt : InMemory(x) => InMemory(x)'
        BY <1>1, <1>4, <2>1, UpRefl, MemoryKept
    <2>6. KeptOK'
        BY <1>3, <1>4, <2>1, <2>3, <2>5, KeptStep
    <2> QED BY <1>5, <2>2, <2>4, <2>6 DEF DurableInv
<1> QED BY <1>8, <1>9, <1>10, <1>11, <1>12, <1>13 DEF BatcherStep
\* The transcripts lose no receipt without a crash: what forMessage takes is
\* applied to the model, and the model is stored before the handling is over.
LEMMA TranscriptDurable ==
    ASSUME TypeOK, TypeOK', IInv, DurableInv, Up(row, row'),
           TranscriptStep \/ \E r \in Recipient : UpdateTranscript(r)
    PROVE  DurableInv'
<1>1. /\ row \in States /\ row' \in States /\ model \in States
      /\ model' \in States
    BY DEF TypeOK
<1>2. Loaded \in States /\ Up(row, Loaded)
      /\ (Holding => Loaded = model /\ Held = model)
    BY LoadedUp
<1>3. OriginOK /\ BatchOK /\ SavedOK /\ KeptOK
    BY DEF DurableInv
<1>4. /\ origin' = origin /\ batch' = batch /\ received' = received
      /\ restarts' = restarts /\ job' = job /\ send' = send
    BY DEF TranscriptStep, HandleTranscript, forMessage, modifyTargetMessage,
           saveAndNotify, UpdateTranscript, message, inbox, batcher, sending
<1>5. BatchOK'
    BY <1>3, <1>4, BatchKept
<1>6. transcript \notin {"none", "done"} => Holding /\ model # Nothing
    BY DEF IInv, CacheOK, Holding
<1>7. apart = Nothing
    BY DEF IInv, StatesOK
<1>8. CASE HandleTranscript
    <2>1. /\ transcript = "none" /\ transcript' \in {"registered", "done"}
          /\ origin = "other" /\ tasks' = tasks /\ dropped' = dropped
        BY <1>8 DEF HandleTranscript, inbox
    <2>2. OriginOK' /\ SavedOK'
        BY <1>3, <1>4, <2>1 DEF OriginOK, SavedOK
    <2>3. \A r \in Receipt : ~InMemory(r)
        BY <2>1 DEF InMemory
    <2>4. KeptOK'
        BY <1>3, <1>4, <2>1, <2>3, KeptStep
    <2> QED BY <1>5, <2>2, <2>4 DEF DurableInv
<1>9. CASE forMessage
    <2>1. /\ transcript \in {"registered", "saved"} /\ row' = row
          /\ transcript' = IF transcript = "registered" THEN "taken"
                                                        ELSE "takenAgain"
          /\ early' = cached /\ tasks' = tasks \ cached
          /\ dropped' = dropped /\ model' = model
        BY <1>9 DEF forMessage, message
    <2>2. OriginOK'
        BY <1>3, <1>4, <2>1 DEF OriginOK
    <2>3. SavedOK'
        BY <1>3, <2>1 DEF SavedOK
    <2>4. \A r \in Receipt : ~InMemory(r)
        BY <2>1 DEF InMemory
    <2>5. \A r \in Receipt : r \in tasks => r \in tasks' \/ InMemory(r)'
        BY <2>1 DEF InMemory
    <2>6. KeptOK'
        BY <1>3, <1>4, <2>1, <2>4, <2>5, KeptStep
    <2> QED BY <1>5, <2>2, <2>3, <2>6 DEF DurableInv
<1>10. CASE modifyTargetMessage
    <2> DEFINE given == {r \in early : shouldDropReceipt(r)
                                        \/ Held[FromOf[r]] = "Absent"}
               next == AfterReceipts(Held, early \ given)
    <2>1. /\ transcript \in {"taken", "takenAgain"}
          /\ transcript' = IF transcript = "taken" THEN "unsaved" ELSE "done"
          /\ model' = next /\ tasks' = tasks
          /\ dropped' = dropped \cup given
          /\ transcript = "takenAgain" =>
                 row' = IF next = Held THEN row ELSE Saved(next)
        BY <1>7, <1>10 DEF modifyTargetMessage, SetHeld
    <2>2. Holding /\ model # Nothing /\ Held = model
        BY <1>2, <1>6, <2>1
    <2>3. early \ given \in SUBSET Receipt
        BY DEF TypeOK
    <2>4. \A r \in early \ given : Shows(next, r)
        BY <1>1, <2>2, <2>3, AppliedShown
    <2> HIDE DEF given, next
    <2>5. OriginOK'
        BY <1>3, <1>4, <2>1 DEF OriginOK
    <2>6. SavedOK'
        BY <2>1 DEF SavedOK
    <2>7. transcript = "takenAgain" => row' = next
        BY <1>3, <2>1, <2>2 DEF SavedOK, Saved
    <2>8. ASSUME NEW r \in Receipt, InMemory(r)
          PROVE  InMemory(r)' \/ r \in dropped' \/ Shows(row', r)
        <3>1. r \in early
            BY <2>1, <2>8 DEF InMemory
        <3>2. CASE r \in given
            BY <2>1, <3>2
        <3>3. CASE r \notin given
            <4>1. Shows(next, r)
                BY <2>4, <3>1, <3>3
            <4>2. CASE transcript = "taken"
                <5>1. Shows(model, r)'
                    BY <2>1, <4>1 DEF Shows
                <5> QED BY <2>1, <4>2, <5>1 DEF InMemory
            <4>3. CASE transcript = "takenAgain"
                BY <2>7, <4>1, <4>3
            <4> QED BY <2>1, <4>2, <4>3
        <3> QED BY <3>2, <3>3
    <2>9. KeptOK'
        BY <1>3, <1>4, <2>1, <2>8, KeptStep
    <2> QED BY <1>5, <2>5, <2>6, <2>9 DEF DurableInv
<1>11. CASE saveAndNotify
    <2>1. /\ transcript = "unsaved" /\ transcript' = "saved"
          /\ tasks' = tasks /\ dropped' = dropped
        BY <1>11 DEF saveAndNotify, inbox
    <2>2. model' = model /\ row' = model
        BY <1>6, <1>11, <2>1 DEF saveAndNotify
    <2>3. OriginOK' /\ SavedOK'
        BY <1>3, <1>4, <2>1, <2>2 DEF OriginOK, SavedOK
    <2>4. \A r \in Receipt : InMemory(r) => Shows(row', r)
        BY <2>1, <2>2 DEF InMemory
    <2>5. KeptOK'
        BY <1>3, <1>4, <2>1, <2>4, KeptStep
    <2> QED BY <1>5, <2>3, <2>5 DEF DurableInv
<1>12. ASSUME NEW r \in Recipient, UpdateTranscript(r) PROVE DurableInv'
    <2> DEFINE next == [Loaded EXCEPT ![r] = sendStateReducer(@, "Sent")]
    <2>1. /\ transcript' = transcript /\ early' = early
          /\ tasks' = tasks /\ dropped' = dropped
          /\ IF Loaded = Nothing THEN UNCHANGED <<row, model>>
             ELSE model' = next /\ row' = Saved(next)
        BY <1>12 DEF UpdateTranscript, inbox
    <2>2. Up(Loaded, next)
        <3> SUFFICES ASSUME NEW c \in Contact
                     PROVE  /\ Loaded[c] # "Absent" => next[c] # "Absent"
                            /\ isSent(Loaded[c]) => Rank(next[c]) >= Rank(Loaded[c])
            BY DEF Up
        <3>1. Loaded[c] \in Status /\ "Sent" \in Status
            BY <1>2 DEF States, Status
        <3>2. next[c] = Loaded[c] \/ next[c] = sendStateReducer(Loaded[c], "Sent")
            BY <1>2 DEF States
        <3>3. Rank(Loaded[c]) \in Int
            BY <3>1, RankType
        <3> HIDE DEF next
        <3>4. CASE next[c] = Loaded[c]
            BY <3>3, <3>4
        <3>5. CASE next[c] = sendStateReducer(Loaded[c], "Sent")
            BY <3>1, <3>5, ReducerUp
        <3> QED BY <3>2, <3>4, <3>5
    <2> HIDE DEF next
    <2>3. OriginOK'
        BY <1>3, <1>4, <2>1 DEF OriginOK
    <2>4. SavedOK'
        <3> SUFFICES ASSUME transcript \in {"saved", "takenAgain"}
                     PROVE  model' = row'
            BY <2>1 DEF SavedOK
        <3>1. Loaded = model /\ model # Nothing /\ model = row
            BY <1>2, <1>3, <1>6 DEF SavedOK
        <3> QED BY <2>1, <3>1 DEF Saved
    <2>5. transcript = "unsaved" => Up(model, model')
        BY <1>1, <1>2, <1>6, <2>1, <2>2
    <2> QED BY <1>4, <2>1, <2>3, <2>4, <2>5, AloofStep
<1> QED BY <1>8, <1>9, <1>10, <1>11, <1>12 DEF TranscriptStep

\* Evictions and restarts lose no receipt of a message sent from here: every
\* task outlives them.
LEMMA ForgetDurable ==
    ASSUME TypeOK, TypeOK', IInv, DurableInv, Up(row, row'),
           EvictWhileHeld = FALSE, Evict \/ Restart
    PROVE  DurableInv'
<1>1. OriginOK /\ BatchOK /\ SavedOK /\ KeptOK
    BY DEF DurableInv
<1>2. CASE Evict
    <2>1. /\ ~Holding /\ row' = row /\ origin' = origin /\ batch' = batch
          /\ tasks' = tasks /\ received' = received /\ dropped' = dropped
          /\ transcript' = transcript /\ early' = early /\ job' = job
          /\ send' = send /\ restarts' = restarts
        BY <1>2 DEF Evict, inbox, batcher, sending, syncing
    <2>2. transcript \in {"none", "done"}
        BY <2>1 DEF Holding
    <2>3. OriginOK' /\ SavedOK'
        BY <1>1, <2>1, <2>2 DEF OriginOK, SavedOK
    <2> QED BY <2>1, <2>2, <2>3, AloofStep
<1>3. CASE Restart
    <2>1. /\ row' = row /\ origin' = origin /\ batch'.at = "idle"
          /\ tasks' = tasks /\ received' = received /\ dropped' = dropped
          /\ transcript' = (IF transcript = "done" THEN "done" ELSE "none")
          /\ send'.at = "idle" /\ job' = job /\ restarts' = restarts + 1
        BY <1>3 DEF Restart, Idle
    <2>2. OriginOK' /\ SavedOK' /\ BatchOK'
        BY <1>1, <2>1 DEF OriginOK, SavedOK, BatchOK
    <2>3. restarts' > 0
        BY <2>1, ReceiptsAssumption DEF TypeOK
    <2>4. CASE origin = "other"
        BY <2>1, <2>2, <2>3, <2>4 DEF DurableInv, KeptOK, Kept
    <2>5. CASE origin = "own"
        <3>1. transcript = "done"
            BY <1>1, <2>5 DEF OriginOK
        <3>2. \A r \in received : r \in tasks \/ Settled(r)
            BY <1>1, <2>5, <3>1 DEF KeptOK, Kept, InMemory
        <3>3. \A r : Settled(r)' <=> Settled(r)
            BY <2>1 DEF Settled
        <3>4. KeptOK'
            BY <2>1, <3>2, <3>3 DEF KeptOK, Kept
        <3> QED BY <2>2, <3>4 DEF DurableInv
    <2> QED BY <2>4, <2>5 DEF TypeOK
<1> QED BY <1>2, <1>3

\* The app starts without receipts.
LEMMA DurableInit == Init => DurableInv
<1> SUFFICES ASSUME Init PROVE DurableInv
    OBVIOUS
<1>1. OriginOK /\ SavedOK
    BY DEF Init, OriginOK, SavedOK, Idle
<1>2. BatchOK /\ KeptOK
    BY DEF Init, BatchOK, KeptOK
<1> QED BY <1>1, <1>2 DEF DurableInv

\* Every step keeps the receipts.
LEMMA DurableStep ==
    ASSUME EvictWhileHeld = FALSE, TypeOK, IInv, DurableInv, [Next]_vars
    PROVE  DurableInv'
<1>1. TypeOK' /\ Up(row, row')
    BY TypeStep, StepUp
<1>2. CASE ToggleReadReceipts \/ UNCHANGED vars
    <2>1. /\ row' = row /\ model' = model /\ origin' = origin /\ batch' = batch
          /\ tasks' = tasks /\ received' = received /\ dropped' = dropped
          /\ transcript' = transcript /\ early' = early /\ job' = job
          /\ send' = send /\ restarts' = restarts
        BY <1>2 DEF ToggleReadReceipts, vars, message, inbox, batcher, sending,
                    syncing
    <2>2. OriginOK' /\ SavedOK'
        BY <2>1 DEF DurableInv, OriginOK, SavedOK
    <2>3. Up(model, model')
        BY <2>1, UpRefl DEF TypeOK
    <2> QED BY <1>1, <2>1, <2>2, <2>3, AloofStep
<1> QED BY <1>1, <1>2, BatcherDurable, SendDurable, TranscriptDurable,
           ForgetDurable DEF Next

\* A confirmed receipt has its task until the saved message shows it or it is
\* given up on purpose, whatever sends, batches, transcripts, evictions and
\* crashes interleave (for the message of a transcript: once its handling is
\* over and without a crash), if no send outlasts the eviction of its message.
THEOREM ConfirmedReceiptsKept ==
    ASSUME EvictWhileHeld = FALSE
    PROVE  Spec => []ReceiptsDurable
<1>1. Init => TypeOK /\ IInv /\ DurableInv
    BY InitType, InitInv, DurableInit
<1>2. TypeOK /\ IInv /\ DurableInv /\ [Next]_vars
        => (TypeOK /\ IInv /\ DurableInv)'
    BY TypeStep, StepUp, DurableStep
<1>3. TypeOK /\ IInv /\ DurableInv => ReceiptsDurable
    <2> SUFFICES ASSUME DurableInv, TypeOK, NEW r \in received
                 PROVE  \/ r \in tasks \/ Settled(r)
                        \/ origin = "other" /\ (transcript # "done" \/ restarts > 0)
        BY DEF ReceiptsDurable
    <2>1. Kept(r) /\ origin \in {"own", "other"}
        BY DEF DurableInv, KeptOK, TypeOK
    <2>2. InMemory(r) => transcript # "done"
        BY DEF InMemory
    <2>3. origin = "own" => transcript = "done"
        BY DEF DurableInv, OriginOK
    <2> QED BY <2>1, <2>2, <2>3 DEF Kept
<1> QED BY <1>1, <1>2, <1>3, PTL DEF Spec
=============================================================================
