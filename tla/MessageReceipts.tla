--------------------------- MODULE MessageReceipts ---------------------------
(***************************************************************************)
(* The send states of one outgoing message and everything that writes      *)
(* them: the send job, the transcript of a message another device sent,    *)
(* and delivery, read and viewed receipts, which are stored as sync tasks, *)
(* collected by a batcher and applied to the message.  All writers share   *)
(* one MessageModel through the MessageCache and save its attributes of    *)
(* that moment, so the question is what an interleaving, an eviction from  *)
(* the cache or a crash can undo.                                          *)
(*                                                                         *)
(* A turn without an `await` is one action.  Writes go to one SQL worker   *)
(* in order, so a write takes effect in the action that posts it; a read   *)
(* that is used later is a step of its own (BatchRead).                    *)
(***************************************************************************)
EXTENDS Integers, Sequences

CONSTANTS Recipient,       \* conversations the message is sent to
          Self,            \* our own conversation, for the sync transcript
          Receipt,         \* receipts, one sync task each
          FromOf,          \* receiptSync.sourceConversationId of a receipt
          TypeOf,          \* receiptSync.type of a receipt
          Origins,         \* may the message be sent from here ("own"), or by
                           \*   another of our devices ("other")?
          MaxAttempts,     \* bound: attempts of one send job
          MaxRetries,      \* bound: retries by the user
          MaxRestarts,     \* bound: process restarts
          EvictWhileHeld   \* may a send or a transcript outlast the ten
                           \*   minutes after which MessageCache evicts its
                           \*   message?

ASSUME ReceiptsAssumption ==
    /\ Self \notin Recipient
    /\ FromOf \in [Receipt -> Recipient]
    /\ Origins \subseteq {"own", "other"}
    /\ TypeOf \in [Receipt -> {"Delivery", "Read", "View"}]
    /\ MaxAttempts \in Nat \ {0}
    /\ MaxRetries \in Nat /\ MaxRestarts \in Nat
    /\ EvictWhileHeld \in BOOLEAN

VARIABLES
    origin,      \* "own": sent from here; "other": known from a transcript
    row,         \* sendStateByConversationId of the saved message
    model,       \* the same of the MessageModel in the MessageCache
    apart,       \* the same of the MessageModel a send or a transcript still
                 \*   holds after its eviction
    accepted,    \* recipients the server has the message for
    tasks,       \* receipts in the syncTasks table
    cached,      \* cachedReceipts
    items,       \* what the batcher collects
    queue,       \* batches waiting in its PQueue
    batch,       \* the batch under way: [at, receipts, seen]
    job,         \* the send job is stored
    send,        \* its run: [at, attempt, targets, ok, failed, only]
    listed,      \* recipients the transcript names
    updates,     \* recipients whose update transcript is still to come
    transcript,  \* handling of the transcript
    early,       \* receipts forMessage has taken and not yet returned
    readReceipts,\* the setting 'read-receipt-setting'
    received,    \* receipts that arrived so far
    dropped,     \* receipts that were given up on purpose
    retries, restarts

message == <<origin, row, model, apart>>
inbox   == <<tasks, cached, received, dropped>>
batcher == <<items, queue, batch>>
sending == <<job, send, accepted, retries>>
syncing == <<listed, updates, transcript, early>>
vars    == <<message, inbox, batcher, sending, syncing, readReceipts, restarts>>

Contact == Recipient \cup {Self}
Status  == {"Absent", "Failed", "Pending", "Sent", "Delivered", "Read",
            "Viewed"}

\* The state of a message that is not there: no contact has a send state.
Nothing == [c \in Contact |-> "Absent"]

------------------------------------------------------------------------------
(* The reducer. *)

\* STATUS_NUMBERS; a contact without a send state ranks below all.
Rank(s) == CASE s = "Absent" -> -1
             [] s = "Failed" -> 0
             [] s = "Pending" -> 1
             [] s = "Sent" -> 2
             [] s = "Delivered" -> 3
             [] s = "Read" -> 4
             [] s = "Viewed" -> 5

isSent(s) == Rank(s) >= Rank("Sent")

maxStatus(a, b) == IF Rank(a) > Rank(b) THEN a ELSE b

\* sendStateReducer for an action whose STATE_TRANSITIONS entry is `to`.
sendStateReducer(old, to) ==
    IF old = "Pending" /\ to = "Failed" THEN "Failed" ELSE maxStatus(old, to)

\* Sends of the contacts in C reduced by one action.
Reduced(states, C, to) ==
    [c \in Contact |->
        IF c \in C /\ states[c] # "Absent"
        THEN sendStateReducer(states[c], to) ELSE states[c]]

\* getNewSendStateByConversationId for the receipts in R: reduced one after
\* the other in any order, they leave each contact where the strongest of its
\* receipts takes it.
HasReceipt(R, c, type) == \E r \in R : FromOf[r] = c /\ TypeOf[r] = type

AfterReceipts(states, R) ==
    [c \in Contact |->
        CASE HasReceipt(R, c, "View") -> sendStateReducer(states[c], "Viewed")
          [] ~HasReceipt(R, c, "View") /\ HasReceipt(R, c, "Read")
               -> sendStateReducer(states[c], "Read")
          [] ~HasReceipt(R, c, "View") /\ ~HasReceipt(R, c, "Read")
                /\ HasReceipt(R, c, "Delivery")
               -> sendStateReducer(states[c], "Delivered")
          [] OTHER -> states[c]]

------------------------------------------------------------------------------
(* The message, its cache and its row. *)

\* MessageCache.saveMessage: without forceSave the statement is an UPDATE,
\* which leaves a message that is not stored yet alone.
Saved(states) == IF row = Nothing THEN row ELSE states

\* getMessageById, MessageCache.register: the cached model, or the row.
Loaded == IF model = Nothing THEN row ELSE model

\* What a long-running holder of the message sees.
Held == IF apart = Nothing THEN model ELSE apart

Holding == \/ send.at # "idle"
           \/ transcript \notin {"none", "done"}

\* message.set of a holder; the other object keeps what it has.
SetHeld(states) ==
    IF apart = Nothing THEN model' = states /\ apart' = apart
                       ELSE apart' = states /\ model' = model

\* MessageCache.deleteExpiredMessages.  A batch is assumed to take less than
\* ten minutes from its read to its save.
Evict ==
    /\ model # Nothing
    /\ batch.at \notin {"read", "matched"}
    /\ EvictWhileHeld \/ ~Holding
    /\ model' = Nothing
    /\ apart' = IF Holding /\ apart = Nothing THEN model ELSE apart
    /\ UNCHANGED <<origin, row, inbox, batcher, sending, syncing,
                   readReceipts, restarts>>

------------------------------------------------------------------------------
(* Receipts. *)

\* onDeliveryReceipt, onReadOrViewReceipt: the task is saved, the envelope
\* confirmed, and onReceipt puts the receipt into the map and the batcher.
onReceipt(r) ==
    /\ r \notin received /\ FromOf[r] \in accepted
    /\ received' = received \cup {r}
    /\ tasks' = tasks \cup {r}
    /\ cached' = cached \cup {r}
    /\ items' = items \cup {r}
    /\ UNCHANGED <<message, dropped, queue, batch, sending, syncing,
                   readReceipts, restarts>>

\* The batcher's timer, or its size limit: _kickBatchOff.
KickBatchOff ==
    /\ items # {}
    /\ queue' = Append(queue, items)
    /\ items' = {}
    /\ UNCHANGED <<message, inbox, batch, sending, syncing, readReceipts,
                   restarts>>

\* The batcher's PQueue starts processBatch, which reads the messages with
\* the receipts' timestamp.
BatchRead ==
    /\ batch.at = "idle" /\ queue # <<>>
    /\ batch' = [at |-> "read", receipts |-> Head(queue), seen |-> row]
    /\ queue' = Tail(queue)
    /\ UNCHANGED <<message, inbox, items, sending, syncing, readReceipts,
                   restarts>>

\* UNDELIVERED_SEND_STATUSES, and contacts the message was not sent to.
Undelivered(states, r) == states[FromOf[r]] \in {"Absent", "Pending", "Failed"}

\* Mutation: a register() that replaces what the cache holds by what was read.
BatchMatchReplaces ==
    LET found == {r \in batch.receipts : ~Undelivered(batch.seen, r)}
    IN  /\ batch.at = "read"
        /\ batch' = [at |-> IF found = {} THEN "idle" ELSE "matched",
                     receipts |-> found, seen |-> Nothing]
        /\ model' = IF found # {} THEN batch.seen ELSE model
        /\ UNCHANGED <<origin, row, apart, inbox, items, queue, sending,
                       syncing, readReceipts, restarts>>

\* getTargetMessage: a receipt for a send that the row says is not delivered
\* finds no message and stays in the map and in the table.
BatchMatch ==
    LET found == {r \in batch.receipts : ~Undelivered(batch.seen, r)}
    IN  /\ batch.at = "read"
        /\ batch' = [at |-> IF found = {} THEN "idle" ELSE "matched",
                     receipts |-> found, seen |-> Nothing]
        /\ model' = IF found # {} /\ model = Nothing THEN batch.seen ELSE model
        /\ UNCHANGED <<origin, row, apart, inbox, items, queue, sending,
                       syncing, readReceipts, restarts>>

shouldDropReceipt(r) == TypeOf[r] # "Delivery" /\ ~readReceipts

\* Mutation: a batch that removes the tasks and leaves the save to a later writer.
BatchApplyUnsaved ==
    LET drop  == {r \in batch.receipts : shouldDropReceipt(r)}
        valid == (batch.receipts \ drop) \cap cached
    IN  /\ batch.at = "matched"
        /\ model' = AfterReceipts(Loaded, valid)
        /\ tasks' = tasks \ batch.receipts
        /\ cached' = cached \ batch.receipts
        /\ dropped' = dropped \cup drop
        /\ batch' = [at |-> "idle", receipts |-> {}, seen |-> Nothing]
        /\ UNCHANGED <<origin, row, apart, received, items, queue, sending,
                       syncing, readReceipts, restarts>>

\* processReceiptsForMessage up to its Promise.all: receipts that were
\* handled since are skipped, dropped ones lose their task with the save.
BatchApply ==
    LET drop  == {r \in batch.receipts : shouldDropReceipt(r)}
        valid == (batch.receipts \ drop) \cap cached
        next  == AfterReceipts(Loaded, valid)
    IN  /\ batch.at = "matched"
        /\ model' = next
        /\ row' = Saved(next)
        /\ tasks' = tasks \ drop
        /\ cached' = cached \ drop
        /\ dropped' = dropped \cup drop
        /\ batch' = [at |-> IF valid = {} THEN "idle" ELSE "removing",
                     receipts |-> valid, seen |-> Nothing]
        /\ UNCHANGED <<origin, apart, received, items, queue, sending,
                       syncing, readReceipts, restarts>>

\* remove(receipt), one after the other once the message is saved.
BatchRemove(r) ==
    /\ batch.at = "removing" /\ r \in batch.receipts
    /\ tasks' = tasks \ {r}
    /\ cached' = cached \ {r}
    /\ batch' = [batch EXCEPT
                   !.at = IF batch.receipts = {r} THEN "idle" ELSE "removing",
                   !.receipts = @ \ {r}]
    /\ UNCHANGED <<message, received, dropped, items, queue, sending, syncing,
                   readReceipts, restarts>>

\* The user changes the setting that shouldDropReceipt looks at.
ToggleReadReceipts ==
    /\ readReceipts' = ~readReceipts
    /\ UNCHANGED <<message, inbox, batcher, sending, syncing, restarts>>

------------------------------------------------------------------------------
(* The send job. *)

Idle == [at |-> "idle", attempt |-> 1, targets |-> {}, ok |-> {},
         failed |-> {}, only |-> FALSE]

\* sendNormalMessage up to its network call.  getMessageRecipients leaves out
\* who has the message; with nobody but us left only the transcript is sent,
\* if we have other devices (`others`; a device can be linked at any time).
SendStart ==
    LET targets == {r \in Recipient : Loaded[r] # "Absent" /\ ~isSent(Loaded[r])}
    IN  /\ job /\ send.at = "idle"
        /\ model' = Loaded
        /\ \E others \in BOOLEAN :
             IF targets = {} /\ (isSent(Loaded[Self]) \/ ~others)
             THEN job' = FALSE /\ send' = Idle
             ELSE /\ job' = job
                  /\ send' = [send EXCEPT
                                !.at = IF targets = {} THEN "syncing" ELSE "sending",
                                !.targets = targets, !.only = (targets = {})]
        /\ UNCHANGED <<origin, row, apart, inbox, batcher, accepted, retries,
                       syncing, readReceipts, restarts>>

\* The server takes the message for one recipient, who may answer with a
\* receipt before our request is answered.
ServerAccepts(r) ==
    /\ send.at = "sending" /\ r \in send.targets \ accepted
    /\ accepted' = accepted \cup {r}
    /\ UNCHANGED <<message, inbox, batcher, job, send, retries, syncing,
                   readReceipts, restarts>>

\* The request ends, with success for some of the recipients; send() first
\* saves the message as it is.  If not even the sender key reached everyone the
\* answer is not final (sendIsNotFinal) and names nobody, failed or not.
SendAnswered(ok, failed) ==
    /\ send.at = "sending" /\ ok \subseteq send.targets \cap accepted
    /\ failed = send.targets \ ok \/ (ok = {} /\ failed = {})
    /\ row' = Saved(Held)
    /\ send' = [send EXCEPT !.at = "answered", !.ok = ok,
                            !.failed = failed]
    /\ UNCHANGED <<origin, model, apart, inbox, batcher, job, accepted,
                   retries, syncing, readReceipts, restarts>>

\* After that save: the current states are reduced and saved.  Errors become
\* Failed only in the last attempt (saveErrors is set before it).
Recorded(states) ==
    LET sent == Reduced(states, send.ok, "Sent")
    IN  IF send.attempt = MaxAttempts THEN Reduced(sent, send.failed, "Failed")
                                      ELSE sent

\* The transcript is sent if someone has the message, or if the request
\* succeeded for nobody (result.success).
SendRecorded ==
    LET next == Recorded(Held)
    IN  /\ send.at = "answered"
        /\ SetHeld(next)
        /\ row' = Saved(next)
        /\ \/ send' = [send EXCEPT !.at = "syncing"]
           \/ send.ok = {} /\ send' = [send EXCEPT !.at = "deciding"]
        /\ UNCHANGED <<origin, inbox, batcher, job, accepted, retries, syncing,
                       readReceipts, restarts>>

\* sendSyncMessage is answered: our own state is reduced and saved.
SyncAnswered ==
    LET next == Reduced(Held, {Self}, "Sent")
    IN  /\ send.at = "syncing"
        /\ SetHeld(next)
        /\ row' = Saved(next)
        /\ send' = [send EXCEPT !.at = "deciding"]
        /\ UNCHANGED <<origin, inbox, batcher, job, accepted, retries, syncing,
                       readReceipts, restarts>>

\* It fails, or returns at once because we have no other devices: our own state
\* is not reduced.  sendSyncMessageOnly saves in its finally clause.
SyncFailed ==
    /\ send.at = "syncing"
    /\ row' = IF send.only THEN Saved(Held) ELSE row
    /\ send' = [send EXCEPT !.at = "deciding"]
    /\ UNCHANGED <<origin, model, apart, inbox, batcher, job, accepted, retries,
                   syncing, readReceipts, restarts>>

\* Without other devices our own state does not count.
didSendToEveryone(others) ==
    \A c \in Contact : Held[c] # "Absent" /\ (c # Self \/ others) => isSent(Held[c])

\* The attempt is over and everyone has the message.
AttemptSucceeded ==
    /\ send.at = "deciding" /\ \E others \in BOOLEAN : didSendToEveryone(others)
    /\ job' = FALSE
    /\ send' = Idle
    /\ apart' = Nothing
    /\ UNCHANGED <<origin, row, model, inbox, batcher, accepted, retries,
                   syncing, readReceipts, restarts>>

\* Mutation: without a limit on the attempts.
AttemptRetriedAlways ==
    /\ send.at = "deciding" /\ \E others \in BOOLEAN : ~didSendToEveryone(others)
    /\ send' = [Idle EXCEPT !.attempt = send.attempt + 1]
    /\ apart' = Nothing
    /\ UNCHANGED <<origin, row, model, inbox, batcher, job, accepted, retries,
                   syncing, readReceipts, restarts>>

\* handleMultipleSendErrors throws and the queue tries again later.
AttemptRetried ==
    /\ send.at = "deciding" /\ \E others \in BOOLEAN : ~didSendToEveryone(others)
    /\ send.attempt < MaxAttempts
    /\ send' = [Idle EXCEPT !.attempt = send.attempt + 1]
    /\ apart' = Nothing
    /\ UNCHANGED <<origin, row, model, inbox, batcher, job, accepted, retries,
                   syncing, readReceipts, restarts>>

\* It gives up, in the last attempt or because the server asks us to stop:
\* markMessageFailed, and the job is done.
AttemptFailed ==
    LET next == Reduced(Held, Contact, "Failed")
    IN  /\ send.at = "deciding" /\ \E others \in BOOLEAN : ~didSendToEveryone(others)
        /\ model' = IF apart = Nothing THEN next ELSE model
        /\ apart' = Nothing
        /\ row' = Saved(next)
        /\ job' = FALSE
        /\ send' = Idle
        /\ UNCHANGED <<origin, inbox, batcher, accepted, retries, syncing,
                       readReceipts, restarts>>

\* retryMessageSend: whoever did not get the message becomes Pending, saved
\* together with the new job.  Only sends from here fail.
retryMessageSend ==
    LET next == Reduced(Loaded, {c \in Contact : ~isSent(Loaded[c])}, "Pending")
    IN  /\ origin = "own" /\ ~job /\ send.at = "idle"
        /\ retries < MaxRetries
        /\ \E c \in Contact : Loaded[c] = "Failed"
        /\ model' = next
        /\ row' = Saved(next)
        /\ job' = TRUE
        /\ retries' = retries + 1
        /\ UNCHANGED <<origin, apart, inbox, batcher, send, accepted, syncing,
                       readReceipts, restarts>>

------------------------------------------------------------------------------
(* The transcript of a message that another of our devices sent. *)

\* createSentMessage: the recipients it names have the message, and so do we.
SentStates == [c \in Contact |-> IF c \in listed \cup {Self} THEN "Sent"
                                                             ELSE "Absent"]

\* handleDataMessage up to register(); a message that is known already is
\* not handled again.
HandleTranscript ==
    /\ origin = "other" /\ transcript = "none"
    /\ IF Loaded = Nothing
       THEN model' = SentStates /\ transcript' = "registered"
       ELSE model' = Loaded /\ transcript' = "done"
    /\ UNCHANGED <<origin, row, apart, inbox, batcher, sending, listed, updates,
                   early, readReceipts, restarts>>

\* Mutation: forMessage without its second call.
forMessageOnce ==
    /\ transcript \in {"registered", "saved"}
    /\ early' = IF transcript = "registered" THEN cached ELSE {}
    /\ cached' = IF transcript = "registered" THEN {} ELSE cached
    /\ tasks' = IF transcript = "registered" THEN tasks \ cached ELSE tasks
    /\ transcript' = IF transcript = "registered" THEN "taken" ELSE "takenAgain"
    /\ UNCHANGED <<message, received, dropped, batcher, sending, listed,
                   updates, readReceipts, restarts>>

\* MessageReceipts.forMessage, called by modifyTargetMessage before and after
\* the message is saved: it takes all receipts of the message from the map
\* and removes their tasks.
forMessage ==
    /\ transcript \in {"registered", "saved"}
    /\ early' = cached
    /\ cached' = {}
    /\ tasks' = tasks \ cached
    /\ transcript' = IF transcript = "registered" THEN "taken" ELSE "takenAgain"
    /\ UNCHANGED <<message, received, dropped, batcher, sending, listed,
                   updates, readReceipts, restarts>>

\* The rest of modifyTargetMessage.  A receipt of a contact without a send
\* state is given up; the second run saves and confirms the envelope.
modifyTargetMessage ==
    LET given == {r \in early : shouldDropReceipt(r) \/ Held[FromOf[r]] = "Absent"}
        next  == AfterReceipts(Held, early \ given)
    IN  /\ transcript \in {"taken", "takenAgain"}
        /\ IF transcript = "taken"
           THEN SetHeld(next) /\ row' = row
           ELSE /\ model' = IF apart = Nothing THEN next ELSE model
                /\ apart' = Nothing
                /\ row' = IF next = Held THEN row ELSE Saved(next)
        /\ transcript' = IF transcript = "taken" THEN "unsaved" ELSE "done"
        /\ early' = {}
        /\ dropped' = dropped \cup given
        /\ UNCHANGED <<origin, tasks, cached, received, batcher, sending,
                       listed, updates, readReceipts, restarts>>

\* saveNewMessageBatcher inserts the message with its latest attributes.
saveAndNotify ==
    LET latest == IF model = Nothing THEN Held ELSE model
    IN  /\ transcript = "unsaved"
        /\ model' = latest
        /\ row' = latest
        /\ transcript' = "saved"
        /\ UNCHANGED <<origin, apart, inbox, batcher, sending, listed, updates,
                       early, readReceipts, restarts>>

\* A transcript with isRecipientUpdate: its recipient is added, or reduced.
\* It waits for the conversation's queue, which the first transcript leaves
\* when saveAndNotify takes over; without a message it is dropped.
UpdateTranscript(r) ==
    LET next == [Loaded EXCEPT ![r] = sendStateReducer(@, "Sent")]
    IN  /\ r \in updates
        /\ transcript \notin {"registered", "taken"}
        /\ updates' = updates \ {r}
        /\ IF Loaded = Nothing THEN UNCHANGED <<row, model>>
           ELSE model' = next /\ row' = Saved(next)
        /\ UNCHANGED <<origin, apart, inbox, batcher, sending, listed,
                       transcript, early, readReceipts, restarts>>

------------------------------------------------------------------------------
(* The process. *)

\* A crash and the next start.  Memory is lost; an envelope that was not
\* confirmed is handled again; runAllSyncTasks passes every stored task to
\* onReceipt; the stored job runs again.
Restart ==
    /\ restarts < MaxRestarts
    /\ restarts' = restarts + 1
    /\ model' = Nothing /\ apart' = Nothing
    /\ cached' = tasks /\ items' = tasks
    /\ queue' = <<>>
    /\ batch' = [at |-> "idle", receipts |-> {}, seen |-> Nothing]
    /\ send' = Idle
    /\ transcript' = IF transcript = "done" THEN "done" ELSE "none"
    /\ early' = {}
    /\ UNCHANGED <<origin, row, tasks, received, dropped, job, accepted,
                   retries, listed, updates, readReceipts>>

Init ==
    /\ origin \in Origins
    /\ row = IF origin = "own" THEN [c \in Contact |-> "Pending"] ELSE Nothing
    /\ model = row
    /\ apart = Nothing
    /\ job = (origin = "own")
    /\ accepted = IF origin = "own" THEN {} ELSE Recipient
    /\ listed \in IF origin = "own" THEN {{}} ELSE SUBSET Recipient
    /\ updates = IF origin = "own" THEN {} ELSE Recipient \ listed
    /\ transcript = IF origin = "own" THEN "done" ELSE "none"
    /\ tasks = {} /\ cached = {} /\ received = {} /\ dropped = {}
    /\ items = {} /\ queue = <<>>
    /\ batch = [at |-> "idle", receipts |-> {}, seen |-> Nothing]
    /\ send = Idle
    /\ early = {}
    /\ readReceipts \in BOOLEAN
    /\ retries = 0 /\ restarts = 0

BatcherStep ==
    \/ KickBatchOff \/ BatchRead \/ BatchMatch \/ BatchApply
    \/ \E r \in Receipt : BatchRemove(r)

SendStep ==
    \/ SendStart \/ SendRecorded \/ SyncAnswered \/ SyncFailed
    \/ AttemptSucceeded \/ AttemptRetried \/ AttemptFailed \/ retryMessageSend
    \/ \E r \in Recipient : ServerAccepts(r)
    \/ \E ok, failed \in SUBSET Recipient : SendAnswered(ok, failed)

TranscriptStep ==
    \/ HandleTranscript \/ forMessage \/ modifyTargetMessage \/ saveAndNotify

Next ==
    \/ BatcherStep \/ SendStep \/ TranscriptStep
    \/ \E r \in Receipt : onReceipt(r)
    \/ \E r \in Recipient : UpdateTranscript(r)
    \/ ToggleReadReceipts \/ Evict \/ Restart

Spec == Init /\ [][Next]_vars

\* The batcher's timer and queue, and the handling of a stored envelope, do
\* not stop; nothing is assumed of the network, the user or the send job.
FairSpec == Spec /\ WF_vars(BatcherStep) /\ WF_vars(TranscriptStep)

------------------------------------------------------------------------------
(* Properties. *)

States == [Contact -> Status]

\* The variables have their types.
TypeOK ==
    /\ origin \in {"own", "other"}
    /\ row \in States /\ model \in States /\ apart \in States
    /\ accepted \subseteq Recipient
    /\ tasks \subseteq Receipt /\ cached \subseteq Receipt
    /\ received \subseteq Receipt /\ dropped \subseteq Receipt
    /\ items \subseteq Receipt /\ queue \in Seq(SUBSET Receipt)
    /\ batch \in [at : {"idle", "read", "matched", "removing"},
                  receipts : SUBSET Receipt, seen : States]
    /\ job \in BOOLEAN
    /\ send \in [at : {"idle", "sending", "answered", "syncing", "deciding"},
                 attempt : 1..MaxAttempts, targets : SUBSET Recipient,
                 ok : SUBSET Recipient, failed : SUBSET Recipient,
                 only : BOOLEAN]
    /\ listed \subseteq Recipient /\ updates \subseteq Recipient
    /\ transcript \in {"none", "registered", "taken", "unsaved", "saved",
                       "takenAgain", "done"}
    /\ early \subseteq Receipt
    /\ readReceipts \in BOOLEAN
    /\ retries \in 0..MaxRetries /\ restarts \in 0..MaxRestarts

\* "We should never go backwards" (MessageSendState.std.ts): once the saved
\* status of a contact is Sent or more, no writer lowers it, however sends,
\* transcripts, batches of receipts, evictions and crashes interleave.
NeverBackwards ==
    [][\A c \in Contact : isSent(row[c]) => Rank(row'[c]) >= Rank(row[c])]_vars

\* The saved message shows a receipt, or the receipt was given up on purpose.
Settled(r) == \/ r \in dropped
              \/ Rank(row[FromOf[r]]) >= Rank(CASE TypeOf[r] = "Delivery" -> "Delivered"
                                                [] TypeOf[r] = "Read" -> "Read"
                                                [] TypeOf[r] = "View" -> "Viewed")

\* A confirmed receipt has a task until the saved message shows it, so that
\* no crash loses it; processReceiptsForMessage saves before it removes.
\* forMessage removes before the message is saved: for the message of a
\* transcript this holds without a crash, once its handling is over.
ReceiptsDurable ==
    \A r \in received :
        \/ r \in tasks \/ Settled(r)
        \/ origin = "other" /\ (transcript # "done" \/ restarts > 0)

\* A receipt that waits in the batcher is shown in the end, if the saved
\* message has its contact as sent or if the message is still to come from a
\* transcript that names the contact: one of the two runs of
\* modifyTargetMessage, or the batch, finds it.  (A crash while forMessage
\* holds it can lose it, see ReceiptsDurable.)
ReceiptsSettle ==
    \A r \in Receipt :
        ( /\ r \in items \/ \E i \in 1..Len(queue) : r \in queue[i]
          /\ isSent(row[FromOf[r]]) \/ (row = Nothing /\ FromOf[r] \in listed) )
        ~> (Settled(r) \/ (origin = "other" /\ restarts > 0))
==============================================================================
