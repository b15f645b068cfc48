# Signal Desktop: TLA+ models of its queues, its receiver and of message send states

Signal Desktop is an Electron program. Almost all of its logic runs on one
JavaScript event loop, over a SQLite database that worker threads serve. It has
no locks. Its correctness rests on what may happen between two `await`s, on the
order in which the SQL workers commit, and on what is in the database when the
process dies. A unit test fixes one such order. These modules state them all.

Paths such as `ts/jobs/...` are relative to the root of the repository.

Contents: 1 inventory, 2 modules and how they correspond to the code, 3 runs,
4 findings, 5 proofs, 6 what is only model-checked, 7 what is not modelled,
8 observations without a run, 9 plan.

## 1. Inventory

| component | state | operations | interacts with | what is hard | what makes it correct |
|---|---|---|---|---|---|
| Job queues (`ts/jobs/JobQueue.std.ts`, `JobQueueDatabaseStore`) | rows of `jobs`; completion promises; in-memory queues; paused, shutting-down flags | add, streamJobs, enqueueStoredJob, pause, resume, shutdown | primary SQL worker; AsyncQueue; eleven subclasses | initial fetch against live adds; crash between run and delete; shutdown against held items | no job is lost; runs of a queue are serial and in order; a job in the stream is concluded |
| AsyncQueue (`ts/util/AsyncQueue.std.ts`) | the array, `onAdd` | add, async iteration | JobQueueDatabaseStore, other consumers | microtasks between `yield*` and the next statement | every value once, in order; no lost wake-up |
| JobManager (`ts/jobs/JobManager.std.ts`) | active jobs, timers, enabled; rows with attempts, `retryAfter`, `active` | addJob, maybeStartJobs, startJob, start, stop, waitForIdle, cancelJobs | attachment downloads and backups; batcher; SQL | triggers dropped while one is under way; shared timer; late saves | concurrency limit; no stuck row; bounded attempts; progress |
| Send states and receipts (`ts/messages/MessageSendState.std.ts`, `ts/messageModifiers/MessageReceipts.preload.ts`, ...) | `sendStateByConversationId` in the row and in the cached model; sync tasks; receipt map; batcher | send, retry, transcript, receipt batches, early receipts, eviction | send job; MessageCache; syncTasks; SQL | three writers that save the whole message; receipts before their message; crashes | a status never goes backwards; a confirmed receipt is not lost; receipts are shown |
| Conversation send queue, captcha challenges (`ts/jobs/conversationJobQueue.preload.ts`, `ts/challenge.dom.ts`) | per-conversation retry entry, timers, verification waiters; registered challenges, start timers, pended starts, captcha token, rate limit | add, run, captureRetryAt, retryJobOnQueueIdle, retry callback; register, unregister, solve, onOnline, onOffline | JobQueue, server, the verification dialog | four ways to release parked jobs, timers that outlive their entry, state read before an `await` | no job is lost or queued twice; parked jobs are retried; every job ends |
| Session store (`ts/SignalProtocolStore.preload.ts`) | sessions, pending sessions and envelopes, the current zone and its queue | withZone, enter, leave, commit, revert, load, store | receiver, senders, SQL | several waiting zones, failing bodies, one transaction for sessions and envelopes | zones are exclusive and handed over; nothing pending outlives its zone; a session never goes back |
| Message receiver (`ts/textsecure/MessageReceiver.preload.ts`) | rows of `unprocessed`; two batchers; decrypted queue; the retry pass | handleRequest, decryptAndCacheBatch, handleDecryptedEnvelope, cacheRemoveBatch, queueAllCached, start and stop | session store, SQL, socket, application | acknowledgement against commit, retries against work under way, timed out decryptions, crashes | an acknowledged message is kept; the stored ratchet is not ahead of the stored plaintexts; rows are cleared |
| Storage service | manifest version, pending deletes, conflict counters | sync, upload, merge | conversations, server | 409 conflicts, uploads started by syncs | versions grow; retries end |
| Expiring messages | the next timer, a running cleanup | start, trigger, stop | SQL | triggers while a cleanup runs | an expired message is deleted |
| Sockets | socket, back-off, keep-alive | connect, reconnect, close | everything that uses the network | late closes of old sockets | at most one live authenticated socket |
| Other message modifiers; senders; groups; calling; backups; SQL; conversation controller; provisioning; profiles; retry placeholders; updater; UI state | see `components` in PROJECT.json | | | | |

The parts meet in this way. A send is a job of the conversation queue, a
JobQueue subclass. Its run calls the senders and records their answers in the
message's send states. The receiver stores receipts and transcripts as sync
tasks or confirms them once handled. They change the same send states. Attachments
of a received message become jobs of a JobManager. All of them write through
one primary SQL worker. Some read from other workers. Receiver and senders
share the sessions, which zones protect. A send that the server answers with a
challenge blocks its conversation until the challenge handler starts it again.

The hazards this leads to are listed, with their lines and the properties that
cover them, under `hazards` in PROJECT.json.

## 2. Modules

A turn of the event loop up to its next `await` is one action. What follows
the `await` is another action, enabled when the awaited thing has happened.
Where an `await` cannot be observed by anyone (its only effect is a write that
a FIFO keeps in order) it is merged with its turn. Each module's header says
where. Bounds are CONSTANTS and appear as guards: `MaxRestarts`, `MaxAdds`,
`MaxStops`, `MaxRetries`, `MaxUpsets` and `MaxSetbacks`. `MaxAttempts` is a
parameter of the code in JobQueue, JobManager and SessionStore (attempts to
process a cached envelope) and a bound in MessageReceipts.

**JobLedger** is what a job queue promises: rows are written once, a job is
concluded, and only a concluded job's row is erased.

**JobQueue** is `JobQueue` over `JobQueueDatabaseStore`. Durable state is `db`
(the rows) and survives `Restart`. `writes` is the FIFO of the primary SQL
worker, so that a write is posted, later committed (`CommitWrite`), and lost by
a crash in between. `stream` is the store's state from `streamJobs` through the
initial fetch (`FetchRead` and `FetchFinished` are separate, since the read
happens on another worker than the writes) to the live AsyncQueue. `adding` is
the progress of `add()`, which either takes the `insert` override or
`store.insert`. `pc`, `attempt`, `result` and `queue` are the calls of
`enqueueStoredJob` and their PQueues. A job can be produced by the fetch and by
the live stream, so a task is a job and its source. The
constants select the subclass: whether it parks jobs (`RetryOnIdle`), is paused
(`Pausable`), or rejects data (`Unparseable`). `AddMissesReader` composes the
queue with what AsyncQueue.tla shows of AsyncQueue: an add may be dropped in the
reader's gap. `MCJobQueue` gives TLC the assignments of jobs to queues.

**AsyncQueue** is the class of that name at microtask granularity. The value
added n-th is the number n. `reader` is the position of the generator, with
`"exhausted"` the gap between the end of `yield*` and the next line.

**JobManager** is the class with its table, its batcher and runs whose outcome
is free (finished, failed, updated, rate-limited). All its database calls go
to one worker; `requests` is that worker's queue, and `Reply` is the effect of
the oldest call together with the continuation that awaited it. `row` is a
job's row, with `"waiting"` and `"backoff"` for a `retryAfter` in the past and
in the future; `mem` and `began` are `job.attempts` of the object in memory and
its value when the run started. `timer` is `#tickTimeout`, shared by the tick
and the rate-limit pause as in the code. Which of several ready jobs
`getNextJobs` returns is left open: the code's order (by time of receipt or
urgency) decides nothing that a property mentions. Only one `start()` is under
way at a time, database calls do not fail, and the row of a job whose message
has been deleted is saved all the same.

**MessageReceipts** is one outgoing message and every writer of its send
states. `row`, `model` and `apart` are the states in the database, in the
cached MessageModel, and in a model that an operation still holds although the
cache evicted it. They are functions from contacts to a status, with `"Absent"`
for no entry. A message that does not exist is `Nothing`. The send job has the
actions `SendStart` to `AttemptFailed`, with `ServerAccepts` for the server
(external); an answer may be final or not, and there may be other devices or not. The transcript of another device has `HandleTranscript`,
`forMessage`, `modifyTargetMessage` and `saveAndNotify`, and an update of it
`UpdateTranscript`. Receipts have `onReceipt` and the steps of a batch. The
process has `Evict`, `ToggleReadReceipts` and `Restart`. `EvictWhileHeld` says
whether an operation may outlast the ten minutes of MessageCache.

**SessionStore** is the part of SignalProtocolStore that receiver and senders
share. `currentZone`, `frames` and `zoneQueue` are the zone, the calls of
`withZone` inside it and those that wait. A session is the set of ratchet steps
taken (messages decrypted and sends encrypted), so that overwriting a session
with an older record shows as a lost step. `sessions` and `rows` are durable;
`pendSess` and `pendRows` are what a zone has not committed yet. One commit
writes both, as `commitDecryptResult` does in one transaction. libsignal is
external: a decryption takes a message once and then calls it a duplicate.

**MessageReceiver** composes it with the receiver and with sends. A delivery is
an envelope that arrived over the socket, and each has its own id, also when
the server delivers a message twice. `batcher` and `batch` hold items with the
progress of their decryption. A batch enters its zone, decrypts one item after
the other in two steps (the session is loaded, then stored), commits,
acknowledges, and queues the plaintexts for the application, whose confirmation
leads to the removal of the row. `queueAllCached` takes three steps: the request,
the list of ids, and the rows in pages with their attempts counted. Failures are actions:
`DecryptThrows`, `DecryptTimesOut` with the decryption that goes on
(`LateDecryption`), `BatchCommitFails`, and `Restart`, which keeps `rows` and
`sessions`.

**ChallengeHandler** is the class of that name. A time is none, future or past.
`register`, `unregister` and `#startQueue` await the storage, so what follows
is a step of its own (`registering`, `toResolve`). `asking` and `answering` count
the calls of `#solve` that wait for the user and for the server.

**ConversationQueue** composes it with conversationJobQueue and with the
verification state of the redux store. `queue` is a conversation's PQueue, whose
head runs. `data` is an entry of `#perConversationData`, with the fields its
TypeScript type gives each status. A job that has returned NEEDS_RETRY is
`"returned"` until `retryJobOnQueueIdle` parks it. The stored rows, streaming and
shutdown are those of JobQueue.tla and are not repeated. Jobs are loud or silent
(`shouldSendShowCaptcha`); `Polite` and `Impatient` are those that a changed
identity key, or the wait for its verification, ends. A `retryAt` is at least a
minute ahead when it is computed, so it does not pass while a job is merely
between two microtasks (`Settled`). Without that, two silent jobs could free
each other in turn forever.

**JobQueueProofs**, **JobOrderProofs**, **JobManagerProofs**,
**MessageReceiverProofs**, **MessageKeepingProofs**, **ConversationQueueProofs**
and **MessageReceiptsProofs** hold the theorems of section 5; those about
AsyncQueue are in its module. **MCJobManager**, **MCMessageReceipts**,
**MCMessageReceiver** and **MCConversationQueue** hold the symmetry set and the
functions TLC needs.

Definitions marked `Mutation:` in a comment are plausible bugs. For each
property PROJECT.json names one that breaks it.

## 3. Runs

| run | bounds | checks |
|---|---|---|
| `jobqueue_safety` | 2 jobs of one in-memory queue, parked jobs, pauses, 1 restart, 1 attempt | types; `NoJobLost`, `RunsOnlyStoredJobs`, `CompletionAfterDelete`, `DrainedMeansQuiet`, `StartsInOrder` |
| `jobqueue_progress` | 2 queues, an insert override, 2 attempts, a job that cannot be parsed, pauses, 1 restart | `OneRunPerQueue`, `StreamedJobsConclude`; refinement `LedgerSpec` |
| `jobqueue_stranded` | as needed for the violation | `InsertReachesStream` is violated |
| `asyncqueue_micro` | 5 values, adds from any microtask | `ConsumedAscending`, `ReadableValuesArrive` |
| `asyncqueue_drop` | the same | `ConsumedInOrder` is violated |
| `jobmanager_safety` | 2 jobs added up to twice, 1 slot, 2 attempts, cancellation, 1 restart | `ConcurrencyBounded`, `NoStuckRows`, `AttemptsBounded` |
| `jobmanager_progress` | 2 jobs, 1 slot, rate limits, holding off, waitForIdle, 1 stop | `StartsOnlyWhenEnabled`, `JobsConclude`, `IdleResolves` |
| `jobmanager_pause` | 2 jobs, 2 slots, rate limits | `PauseEnds` is violated |
| `receipts` | 2 recipients, a delivery and a read receipt, own and transcript messages, 2 attempts, 1 manual retry, 1 restart | `ReceiptsDurable`, `NeverBackwards`, `ReceiptsSettle` |
| `receipts_evicted` | own messages, eviction of held messages | `NeverBackwards` is violated |
| `receiver` | 1 message delivered twice or left as a row, 1 send to the same address, 1 attempt, 1 disturbance (stop, start, retry, timeout, failed write, crash) and its recovery | `AckedKept`, `RatchetKeepsPlaintext`, `SentRecorded`, `ZoneOrder`, `PendingIsOfBatch`, `SessionsGrow`, `RowsCleared`, `SendsEnd` |
| `conversation` | 1 loud and 2 silent jobs of a conversation, a challenge from the run before or none, 2 setbacks (that challenge, 428 answers, failed sends, a refused captcha, a lost connection) | `JobsInOnePlace`, `ParkedArmed`, `BlockedIsShort`, `JobsConclude` |

Why these bounds. The interesting orders are between two jobs (or a job and
itself, streamed twice) and one other actor: the fetch, a shutdown, a timer, a
crash. `StartsInOrder` is about pairs of jobs, and two jobs can be in any two of
the fetch, the waiting adders and the live queue. One restart reaches the states after a crash, and
a second would start from states that one crash already leaves. One slot is
the limit that is easiest to exceed. Two recipients and two receipts let a
batch apply one receipt while a send fails for the other contact. Which
attempt fails is free, so two attempts contain retry, success after failure and
exhaustion. In `receiver` a message and a send contend for one session, and the
two deliveries put copies of the message in one batch or in two. A disturbance
may fall between any two steps, and its recovery (a start after a stop, a
restart after a failed commit) is free. In `conversation` the second silent job
is what finds an entry that already has jobs and a timer. Two setbacks let a
retried job be challenged again, or a loud job meet the challenge of a silent
one. Symmetry is used only in `jobmanager_safety`, which checks no
liveness property.

`CHECK_DEADLOCK FALSE` is set everywhere. The systems are driven by bounded
inputs and rightly stop when these are used up.

Fairness. The event loop runs what is ready: SQL workers answer, promises
continue, timers fire, and a run ends (every run of a job has a time limit or a
network timeout). So steps that wait only for these are weakly fair. Nothing is
assumed of what comes from outside: users, `add`, `pause`, `shutdown`, `stop`,
crashes, the network and, in MessageReceipts, the send job. A pause of a job
queue may last forever, so `StreamedJobsConclude` is conditional on it not
doing so. In the same way the two liveness properties of JobManager are
conditional on the manager staying enabled and not being held off. In
MessageReceiver the event loop is fair as a whole, since every queue there is
served in order; `RowsCleared` and `SendsEnd` except the states after a failed
commit and after `stopProcessing`, in which the code waits for a restart. In
ConversationQueue a job that is checked again and again gives up in the end (strong
fairness of `GiveUp`), because its time is limited to a day; neither the user
nor the connection is relied on.

## 4. Findings

Each is a violation run with the sentence of the repository it contradicts in
PROJECT.json.

* `jobqueue_stranded`. An insert that found no initial fetch only writes the
  row. The write may commit on the primary worker after the fetch has read the
  table on another worker. The job is then in no stream until the next start,
  while `types.std.ts` says inserting should enqueue it. `NoJobLost` still
  holds: the row remains.
* `asyncqueue_drop`. A value added from another microtask between the end of
  `yield*` and `this.#queue = []` is discarded. `InOrderOutsideTheGap` proves
  that nothing is lost if `add` is only called while the generator has no
  microtask pending, as by a callback that is the first of its macrotask.
* `jobmanager_pause`. `start()` ends with `#tick()`, which clears the timer that
  would have ended a rate-limit pause entered meanwhile. The manager stays
  disabled until the next `start()`.
* `receipts_evicted`. MessageCache evicts by time since last access, also while
  an operation holds the model across an `await`. A batch of receipts then
  loads a second model, and the later save undoes the earlier. It takes a
  request that hangs, or a computer that sleeps, for the ten minutes.

## 5. Proofs

All are for every value of the constants that the modules' ASSUMEs allow. Jobs,
keys, contacts, receipts, messages, deliveries and sends are any sets, and the
bounds any numbers. Three sets are assumed finite: the jobs of a JobManager, the
rows a process finds in `unprocessed` (`Leftover`), and the conversations. The
code counts, sorts or iterates over them. No theorem assumes fairness. Three
theorems have a hypothesis on a constant (`InOrderOutsideTheGap`,
`SavedNeverBackwards`, `ConfirmedReceiptsKept`), and three properties are stated
under a condition (`AckedKept`, `RatchetKeepsPlaintext`, and `AttemptsBounded`,
which is about managers without rate limits), as explained below.

Every safety property that a passing run checks is a theorem, and so are the
type invariants and the refinement. TLC confirms each strengthening below on
the instance of the component's safety run.

**JobQueueProofs.** `IndInv` is the inductive invariant. `NoJobLost` alone is
not inductive, because a delete that is already posted to the SQL worker
removes a row later, and a task that has finished posts it later. So
`ConcludedInv` says that every delete in `writes`, and every task that returned
with success, belongs to a concluded job, and that a task that returned with an
error is concluded or was stopped by a shutdown. A second call of
enqueueStoredJob for the same task would break this, so `StreamInv` says that a
job goes through the stream at most once from each source. `WriteInv` says that
a write is posted once and that its poster waits for it. `StoredInv` says that
whatever is in the stream has, or had, a row. `QueueInv` says that a PQueue
holds each queued or running task once and that only its head runs; this gives
serial runs and shows that the queue that is popped is never empty. Each part has one lemma for its
step, with a case per action. The theorems are `TypeCorrect`, `NoJobIsLost`,
`RunsAreStored`, `RunsAreSerial`, and `ImplementsLedger`: initial states map to
initial states and every step to a step of JobLedger or a stutter.
`ShutdownIsQuiet` needs `QuietInv`: while the queue shuts down, whatever runs is
in a queue that `shutdown()` still awaits, and nothing can start any more.
`CompletionsInOrder` is about the step that settles a completion, since a parked
job, once it runs again, has a settled completion and a row at the same time.
`SettledBy` says that this is a step of enqueueStoredJob, and `CompletionInv` that
a task whose delete has returned has no row.

**JobOrderProofs.** `StartsAreOrdered` proves `StartsInOrder`. The property looks
at two jobs that start, but the order can be lost at any place on their way,
so `OrderInv` follows them from `add()` on. `SourceInv`: a job comes from the fetch
exactly if its `add()` found no fetch, and those jobs are the earlier ones.
`AddOrder`: the adders that wait for the fetch, post their insert, and see it
committed do each of these in order, and so do the inserts in `writes`.
`StreamOrder`: the live queue is in order, and a job that came out of the stream
left no earlier one behind, nor overtook the one that a paused stream holds.
`QueueOrder`: in a PQueue a job is only behind a later one if it ran before
(a job that is retried goes to the back), and a job that started has no
earlier one still queued behind it.

**AsyncQueue.** `TypeCorrect`. `NeverReordered`: whenever `add` is called, the consumer's
values ascend. `InOrderOutsideTheGap`: if `MicrotaskAdds` is FALSE, the consumed
values followed by the unread rest of the array are exactly 1 to `count`, so
every value arrives in order.

**JobManagerProofs.** `IndInv` has four parts, and `RunsOK` is a fifth that only
its last two need. `SlotsOK`: the free slots are counted when `getNextJobs` is posted and
filled when it answers, so the bound on active jobs is not inductive; the
invariant says that the active jobs and the slots promised to the pending
request together stay within the limit (`Within`), that there is at most one such request,
and that none is pending unless `inMaybe` is set. Jobs can be started by force
meanwhile; these are not counted. `TriesOK`: without rate limits (which keep a job also after its last attempt) neither a row nor a save that is posted,
nor the counter of a run, has used up its attempts, and `addJob` can only set a counter back.
`RowsOK`: a row that is active without a run is one that a dead process
left, and then the reset is still to come, or the manager was not started yet
(`Fresh`) and has posted nothing but early requests. `RunsOK`: a run awaits at
most one call, the one its state says. The theorems are `TypeCorrect`,
`SlotsSuffice`, `ActiveRowsRun`, `AttemptsLimited` and `NoStartWhenDisabled`.

**MessageReceiverProofs.** The invariant `Inv` is about the receiver composed with
SessionStore. `ZoneInv` is about the zone: whoever is inside belongs to the current
zone, no one waits for a free zone, a batch that has committed is alone and has
nothing pending, and a session job is only under way for a caller that is
inside. `SessionInv` is about the sessions: an address has one session job at a
time (`OneJob`), and therefore what a job has loaded is not behind what is
stored or pending when it stores it. Without `OneJob` a send could overwrite
the step of a decryption. `DeliveredOK` says that finitely many envelopes have come in, so that
`queueAllCached` can put the rows it reads in order. The theorems are `TypeCorrect`, `ZonesOrdered`,
`PendingStaysInBatch`, `SendsRecorded`, and the action property
`SessionsNeverShrink`. One lemma (a set of numbers has a least element, for the
waiting callers that `#leaveZone` lets in together) uses the library's well-foundedness of
finite subsets, as induction itself is out of reach.

**MessageKeepingProofs** builds on it. `AcknowledgedKept` and `PlaintextKept` prove
`AckedKept` and `RatchetKeepsPlaintext`, which are stated for behaviours in which no
envelope is queued twice and no decryption outlives its task (`~overlapped`;
section 8 says what happens otherwise). `Keep` is the invariant. The ratchet that
is stored never gets ahead of the stored plaintexts because both are committed
at once; so `StepsOK` says that every step a session has taken, stored or pending,
belongs to a message whose plaintext is stored, settled, or about to be stored by
the running batch. `RemovalOK` says of each id that is to be removed why it may be, as a
removal waits for its zone and a crash, or a batch with the same message, can come first.
`AckOK` says that what a committed batch is about to acknowledge is held already.
`DistinctOK`, `FreshOK`, `LoadedOK` and `FrameOK` say that an envelope is queued once,
is not decrypted when its plaintext is stored, is decrypted against a session with
no unknown step, and inside the batch's zone.

**ConversationQueueProofs.** `IndInv` consists of the types, of `Placed`,
`ParkedArmed` and `BlockedIsShort`. `Placed` says for each conversation that its
PQueue, and the jobs parked in its entry, have no repetitions and are exactly
the jobs whose state says so, and that the job that is under way is the head.
`JobsKept` restates this as `JobsInOnePlace`, which counts occurrences.
`RetriesComing` and `BlockedTransient` are then inductive relative to it: an entry is
only replaced by a step that takes its jobs along with its timer, and
a job that blocked its conversation is still on its way to be parked. The type invariant
includes which fields an entry has in which status.

**MessageReceiptsProofs.** `TypeCorrect` holds in any case. `SavedNeverBackwards` and
`ConfirmedReceiptsKept` have the hypothesis `EvictWhileHeld = FALSE`, and
`receipts_evicted` shows that it is needed. For `NeverBackwards`, that one save does not lower a status is not enough:
a save writes the whole model, so what has to hold is that no model that can
still be saved is below the row. `IInv` says: a cached model is at least the
row, contact by contact; a batch that read the row while nothing was cached
still sees the row's value as long as nobody else has cached the message; an
operation under way holds the cached model; a message sent from here has a row.
Every write is then by a
`sendStateReducer` that goes up (`ReducerUp`) or by a save of a model that is
above the row (`SavedUp`). For `ReceiptsDurable`, `DurableInv` adds where a receipt
is between the removal of its task and the save that shows it: `BatchOK`, a batch
removes only tasks whose receipts the row shows, and what it has read has only grown since;
`SavedOK` and `InMemory`, the two runs of `modifyTargetMessage` for the message of a
transcript carry the early receipts they have taken, and no save from elsewhere
comes between them.

## 6. Only model-checked

Liveness (`StreamedJobsConclude`, `ReadableValuesArrive`, `JobsConclude` of JobManager
and of ConversationQueue, `IdleResolves`, `ReceiptsSettle`, `RowsCleared`, `SendsEnd`) is out of the prover's reach
because it needs fairness and ENABLED. It is checked on the instances of section 3.
The four violations are counterexamples that TLC finds; nothing is proved about them.

## 7. Not modelled

Besides the components with status `not_modelled`:

* JobQueue: log output, metrics, errors of the database, and what subclasses do
  in `run` beyond its result.
* JobManager: overlapping calls of `start()`, failing database calls, the
  message-exists check of `saveAttachmentDownloadJob`, the order of
  `getNextJobs`.
* MessageReceipts: edits, stories (status Skipped), receipts for reactions,
  the deletion of sent protos, the expiry of sync tasks (after several attempts
  and two days), deletion of the message, and the other effects of
  `modifyTargetMessage`.
* SessionStore and MessageReceiver: identity keys, pre-keys, sender keys, the
  archiving of sessions, server delivery receipts (acknowledged without a row),
  envelopes sealed for the PNI that are dropped, failures of the application's
  handlers, rows deleted because of their age, timeouts of `queueAllCached` and
  of unsealing, the `empty` event.
* ConversationQueue: shutdown, a send that fails with a challenge and an
  untrusted key at once, the back-off between attempts, the expiry of
  challenges after a day, `attempts` of an entry (only the length of the wait
  depends on it), restarts.
* libsignal, RingRTC, the server and the operating system are external.

Some actions are wider or narrower than the code:

* JobQueue: `stamp` gives every job a timestamp of its own. The code takes
  `Date.now()` and the fetch orders by it without a tie-break, so `StartsInOrder`
  is about jobs whose timestamps differ, from a clock that is not set back.
* JobManager: `StartTicks` may come any number of steps after the `maybeStartJobs`
  it waits for; in the code it follows within microtasks. The violation of
  `jobmanager_pause` does not need the delay: the pause falls into the `await` of
  `getNextJobs`.
* MessageReceiver: `DecryptTimesOut` is for a decryption that has its session
  queue. One that still waits for it can time out only behind another that
  timed out before, because sends are outside of the batch's zone. The session
  queues' own time limit of 30 minutes (`SignalProtocolStore.preload.ts:1095`) is left
  out: `SessionBusy` waits for as long as a job takes.
* ConversationQueue: `IdleCallback` finds the queue empty. In the code the callback
  runs a microtask after the `idle` event, and another microtask could add a job
  in between.
* MessageReceipts: whether there are other devices is asked anew each time
  (`others`), as a device can be linked at any time. In a group,
  `didSendToEveryone` passes over contacts known to be unregistered; the model
  has none.

## 8. Observations without a run

Seen while modelling. No sentence of the repository decides them, or they do no
harm that a property could name.

* An insert with an override may put a job in the stream twice
  (`JobQueueDatabaseStore.preload.ts:38`). It then runs twice, in sequence.
* `JobQueue.std.ts:176`: a comment says that `add` throws if `streamJobs` has not
  been called; it adds the job and logs a warning.
* `JobManager.std.ts:449`: after the wait in `cancelJobs`, `hasCompleted` is true
  when the job is still active, so a job that did not stop within a second keeps
  its slot and its promise until its run ends. The model does what the code does.
* `JobManager.std.ts:299`: `isLastAttempt` is computed before the run, while
  `addJob` may reset `attempts` during it.
* `stop()` during `getNextJobs` does not keep the returned jobs from starting
  (`StartsOnlyWhenEnabled` exempts them), and a run that is rate-limited after
  `stop()` enables the manager again.
* A crash between the removal of early receipts' tasks and the save of their
  message loses them (`MessageReceipts.preload.ts:441`).
* A receipt that overtakes the answer to the send waits for the next start of
  the app (`MessageReceipts.preload.ts:351`).
* `startProcessingQueue` or the retry timer may read an encrypted row whose
  envelope is still in the batcher. If the copies meet in a batch, the first
  decrypts and the second is a duplicate. In `decrypted.concat(failed)` the failed
  entry overwrites the plaintext and is then removed, so that an acknowledged
  message is only in memory. TLC finds this with `MaxAttempts = 3` when
  `AckedKept` is stated without its condition `~overlapped`.
* A decryption that outlives its task's time limit leaves the batch without a
  commit, and the batch acknowledges all the same (`overlapped` too).
* `SignalProtocolStore.preload.ts:1203`: the commit at the end of `withZone` is
  outside of its `try`. If it throws, the zone is not left, and sends and
  decryptions wait until the app restarts. `#revertZoneChanges` leaves
  `pendingKyberTriples` alone.
* `#decrypt` compares with "task did not complete in time", a message that
  `runTaskWithTimeout` does not produce.
* `challenge.dom.ts:192`: `onOnline` clears the pended starts and then starts what
  has a past `retryAt`. A start that was pended by a captcha's acceptance
  or by the end of a rate limit may have none, and is forgotten; its conversation
  stays registered until the next success, captcha or start of the app.
* `register` goes on after its `await` also if the conversation has been
  unregistered meanwhile, and then sets a timer or asks for a captcha that
  nobody needs.
* A waiter left behind by the five-minute timeout takes the next call of
  `resolveVerificationWaiter`, which then releases no parked jobs; their own timer does.
* `retryJobOnQueueIdle` drops `retryAtTimeout` from the entry, so its timer fires
  although it is no longer known. It finds nothing to do, or does it early.
* A job that finds a `retryAt` returns before its age is checked
  (`conversationJobQueue.preload.ts:875`). It is only given up once it is let through.

## 9. Plan

Modelled first were the parts that every message passes: the job queue, the
send states, the receiver on its session store and the conversation queue, with
the attachment manager as the second scheduler.

Every safety property of a passing run is proved. What could be stated and
proved beyond them:

1. An abstract mailbox for MessageReceiver (a message is accepted, held, handed to the
   application, forgotten) that the receiver implements while nothing
   overlaps; `Inv` and `KeepInv` contain what the step simulation needs.
2. A pool with a limit as the abstract specification of JobManager, refined for
   runs that are not forced.
3. A lattice of statuses per contact as the abstract specification of the writers of
   send states.
4. The lemmas about `ChallengeHandler` that ConversationQueueProofs needs only as
   types: a registered challenge has a timer, an answer to come or a user to ask.

Components that would come next: `StorageSync` (`services/storage.preload.ts`),
two devices against a server with manifest versions and 409 answers;
`ExpiringCleanup` (`createExpiringEntityCleanupService`), trigger, timer and
abort; and `SocketManager`.
