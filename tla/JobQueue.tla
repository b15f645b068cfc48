------------------------------ MODULE JobQueue -------------------------------
(***************************************************************************)
(* One persistent job queue: the class JobQueue (ts/jobs/JobQueue.std.ts)  *)
(* over JobQueueDatabaseStore and its AsyncQueue, with the jobs table and  *)
(* the FIFO of writes to the primary SQL worker below it.                  *)
(*                                                                         *)
(* A JavaScript turn that runs without an `await` is one action; what      *)
(* follows an `await` is another, so every order in which the event loop   *)
(* can interleave adders, the stream, the in-memory queues, the database   *)
(* and shutdown is a behaviour.                                            *)
(*                                                                         *)
(* A call of enqueueStoredJob is a task.  The stream can hand a job to     *)
(* enqueueStoredJob from the initial fetch and from the live AsyncQueue,   *)
(* so a task is a job and the source it came from.                         *)
(***************************************************************************)
EXTENDS Naturals, Sequences, FiniteSets

CONSTANTS Job,             \* jobs that can be created
          Key,             \* in-memory queues (one per conversation, or one)
          QueueOf,         \* getInMemoryQueue, a function of the parsed job
          Overridden,      \* jobs added with an `insert` override
          Unparseable,     \* jobs whose data parseData rejects
          MaxAttempts,     \* options.maxAttempts
          RetryOnIdle,     \* does the subclass implement retryJobOnQueueIdle?
          Pausable,        \* does anyone call pause() on this queue?
          AddMissesReader, \* can an add() fall between two steps of the reader?
          MaxRestarts      \* bound: process restarts in a behaviour

ASSUME JobQueueAssumption ==
    /\ QueueOf \in [Job -> Key]
    /\ Overridden \subseteq Job
    /\ Unparseable \subseteq Job
    /\ MaxAttempts \in Nat \ {0}
    /\ RetryOnIdle \in BOOLEAN
    /\ Pausable \in BOOLEAN
    /\ AddMissesReader \in BOOLEAN
    /\ MaxRestarts \in Nat

Source == {"fetched", "live"}
Task == [job : Job, src : Source]

VARIABLES
    \* durable
    db,          \* rows of the jobs table for this queue type
    stored,      \* history: jobs that ever had a row
    \* history of jobs
    stamp,       \* creation timestamps, 0 before creation
    clock,       \* last timestamp given out
    outcome,     \* how a job ended: "none" until it did
    \* this process: add()
    adding,      \* where the add() of a job stands
    saw,         \* did store.insert find an initialFetchPromise?
    completion,  \* job.completion
    \* this process: the store and the stream
    stream,      \* "off", "reading", "read", "open" or "broken"
    fetched,     \* fetched rows the stream has not produced yet
    live,        \* the AsyncQueue
    held,        \* the item streamJobs holds while the queue is paused
    paused,      \* #paused
    shutting,    \* #shuttingDown
    awaiting,    \* the in-memory queues whose onIdle() shutdown() awaits
    drained,     \* has the shutdown() promise resolved?
    writes,      \* writes posted to the primary SQL worker, oldest first
    \* this process: enqueueStoredJob
    pc,          \* where the call for a task stands
    attempt,     \* attempt number of the run loop
    result,      \* the status the queued function returned
    queue,       \* PQueues; the head of one is running or about to run
    begun,       \* history: jobs whose run() was called by this process
    restarts

addVars    == <<adding, saw, completion>>
storeVars  == <<stream, fetched, live, held>>
flagVars   == <<paused, shutting, awaiting, drained>>
taskVars   == <<pc, attempt, result, queue, begun>>
birthVars  == <<stamp, clock>>
vars == <<db, stored, birthVars, outcome, addVars, storeVars, flagVars,
          writes, taskVars, restarts>>

Outcome == {"none", "success", "exhausted", "unparsed", "dropped"}
Write   == [op : {"insert", "delete"}, task : Task]

DurableType ==
    /\ db \subseteq Job
    /\ stored \subseteq Job
    /\ stamp \in [Job -> Nat]
    /\ clock \in Nat
    /\ outcome \in [Job -> Outcome]
    /\ writes \in Seq(Write)
    /\ restarts \in Nat

AddType ==
    /\ adding \in [Job -> {"no", "wait", "insert", "stored", "done"}]
    /\ saw \in [Job -> BOOLEAN]
    /\ completion \in [Job -> {"none", "pending", "resolved", "rejected"}]

StreamType ==
    /\ stream \in {"off", "reading", "read", "open", "broken"}
    /\ fetched \subseteq Job
    /\ live \in Seq(Job)
    /\ held \subseteq Task
    /\ awaiting \subseteq Key
    /\ paused \in BOOLEAN /\ shutting \in BOOLEAN /\ drained \in BOOLEAN

TaskType ==
    /\ pc \in [Task -> {"none", "queued", "running", "ran", "deleting",
                        "deleted", "parked", "over"}]
    /\ attempt \in [Task -> Nat]
    /\ result \in [Task -> {"none", "success", "retry", "error"}]
    /\ queue \in [Key -> Seq(Task)]
    /\ begun \subseteq Job

TypeOK == DurableType /\ AddType /\ StreamType /\ TaskType

-----------------------------------------------------------------------------
Init ==
    /\ db = {}
    /\ stored = {}
    /\ stamp = [j \in Job |-> 0]
    /\ clock = 0
    /\ outcome = [j \in Job |-> "none"]
    /\ adding = [j \in Job |-> "no"]
    /\ saw = [j \in Job |-> FALSE]
    /\ completion = [j \in Job |-> "none"]
    /\ stream = "off"
    /\ fetched = {} /\ live = <<>> /\ held = {}
    /\ paused = FALSE /\ shutting = FALSE /\ awaiting = {} /\ drained = FALSE
    /\ writes = <<>>
    /\ pc = [t \in Task |-> "none"]
    /\ attempt = [t \in Task |-> 0]
    /\ result = [t \in Task |-> "none"]
    /\ queue = [k \in Key |-> <<>>]
    /\ begun = {}
    /\ restarts = 0

-----------------------------------------------------------------------------
(* add() and JobQueueDatabaseStore.insert.  Without an override the insert *)
(* waits for the initial fetch, if one has begun, and only then writes;    *)
(* with one, the caller's transaction has committed the row before         *)
(* store.insert looks for the fetch.                                       *)

FetchBegun == stream # "off"
FetchOver  == stream \in {"open", "broken"}

InsertOf(j) == [op |-> "insert", task |-> [job |-> j, src |-> "live"]]
DeleteOf(t) == [op |-> "delete", task |-> t]

\* AsyncQueue.add.  A value pushed after the reader found the array exhausted
\* and before it replaced the array is dropped (module AsyncQueue).
LiveAdd(j) ==
    \/ live' = Append(live, j)
    \/ /\ AddMissesReader
       /\ stream = "open" /\ fetched = {} /\ held = {} /\ live = <<>>
       /\ UNCHANGED live

Add(j) ==
    /\ adding[j] = "no"
    /\ clock' = clock + 1
    /\ stamp' = [stamp EXCEPT ![j] = clock + 1]
    /\ completion' = [completion EXCEPT ![j] = "pending"]
    /\ \/ /\ j \notin Overridden /\ FetchBegun
          /\ saw' = [saw EXCEPT ![j] = TRUE]
          /\ adding' = [adding EXCEPT ![j] = "wait"]
          /\ UNCHANGED writes
       \/ /\ j \in Overridden \/ ~FetchBegun
          /\ adding' = [adding EXCEPT ![j] = "insert"]
          /\ writes' = Append(writes, InsertOf(j))
          /\ UNCHANGED saw
    /\ UNCHANGED <<db, stored, outcome, storeVars, flagVars, taskVars, restarts>>

\* Mutation: the live queue is fed before the row is written.
FetchAwaitedEarlyLive(j) ==
    /\ adding[j] = "wait"
    /\ FetchOver
    /\ adding' = [adding EXCEPT ![j] = "insert"]
    /\ writes' = Append(writes, InsertOf(j))
    /\ live' = Append(live, j)
    /\ UNCHANGED <<db, stored, birthVars, outcome, saw, completion, stream,
                   fetched, held, flagVars, taskVars, restarts>>

\* `await initialFetchPromise` returns.  Adders resume in the order they began
\* to wait.
FetchAwaited(j) ==
    /\ adding[j] = "wait"
    /\ FetchOver
    /\ \A i \in Job : adding[i] = "wait" => stamp[j] <= stamp[i]
    /\ \/ /\ j \notin Overridden
          /\ adding' = [adding EXCEPT ![j] = "insert"]
          /\ writes' = Append(writes, InsertOf(j))
          /\ UNCHANGED live
       \/ /\ j \in Overridden
          /\ adding' = [adding EXCEPT ![j] = "done"]
          /\ LiveAdd(j)
          /\ UNCHANGED writes
    /\ UNCHANGED <<db, stored, birthVars, outcome, saw, completion, stream,
                   fetched, held, flagVars, taskVars, restarts>>

\* The adder resumes after the row was committed.  The worker's replies to
\* insertJob arrive in the order of the commits, which is the order of creation.
RowCommitted(j) ==
    /\ adding[j] = "stored"
    /\ j \notin Overridden => \A i \in Job : adding[i] = "stored" /\ i \notin Overridden
                                    => stamp[j] <= stamp[i]
    /\ IF j \in Overridden
       THEN /\ saw' = [saw EXCEPT ![j] = FetchBegun]
            /\ adding' = [adding EXCEPT ![j] = IF FetchBegun THEN "wait" ELSE "done"]
            /\ UNCHANGED live
       ELSE /\ adding' = [adding EXCEPT ![j] = "done"]
            /\ \/ saw[j] /\ LiveAdd(j)
               \/ ~saw[j] /\ UNCHANGED live
            /\ UNCHANGED saw
    /\ UNCHANGED <<db, stored, birthVars, outcome, completion, stream, fetched,
                   held, flagVars, writes, taskVars, restarts>>

-----------------------------------------------------------------------------
(* The database: writes run one after another on the primary worker.       *)

CommitWrite ==
    /\ writes # <<>>
    /\ writes' = Tail(writes)
    /\ LET w == Head(writes) IN
       \/ /\ w.op = "insert"
          /\ db' = db \cup {w.task.job}
          /\ stored' = stored \cup {w.task.job}
          /\ adding' = [adding EXCEPT ![w.task.job] = "stored"]
          /\ UNCHANGED pc
       \/ /\ w.op = "delete"
          /\ db' = db \ {w.task.job}
          /\ pc' = [pc EXCEPT ![w.task] = "deleted"]
          /\ UNCHANGED <<stored, adding>>
    /\ UNCHANGED <<birthVars, outcome, saw, completion, storeVars, flagVars,
                   attempt, result, queue, begun, restarts>>

-----------------------------------------------------------------------------
(* streamJobs and JobQueueDatabaseStore.stream.                            *)

StreamJobs ==
    /\ stream = "off"
    /\ stream' = "reading"
    /\ UNCHANGED <<db, stored, birthVars, outcome, addVars, fetched, live, held,
                   flagVars, writes, taskVars, restarts>>

\* getJobsInQueue runs on some reader of the pool: it sees what is committed,
\* not what is still posted to the primary worker.
FetchRead ==
    /\ stream = "reading"
    /\ stream' = "read"
    /\ fetched' = db
    /\ UNCHANGED <<db, stored, birthVars, outcome, addVars, live, held,
                   flagVars, writes, taskVars, restarts>>

\* onFinished(): waiting adders may go on, the stream starts producing.
FetchFinished ==
    /\ stream = "read"
    /\ stream' = "open"
    /\ UNCHANGED <<db, stored, birthVars, outcome, addVars, fetched, live, held,
                   flagVars, writes, taskVars, restarts>>

\* Mutation: getJobsInQueue without ORDER BY timestamp.
IsNextUnordered(t) ==
    \/ t.src = "fetched" /\ t.job \in fetched
    \/ t.src = "live" /\ fetched = {} /\ live # <<>> /\ t.job = Head(live)

\* The next item of concat([fetched rows ORDER BY timestamp, live queue]).
IsNext(t) ==
    \/ /\ t.src = "fetched"
       /\ t.job \in fetched
       /\ \A i \in fetched : stamp[t.job] <= stamp[i]
    \/ /\ t.src = "live"
       /\ fetched = {}
       /\ live # <<>>
       /\ t.job = Head(live)

Consume(t) ==
    \/ t.src = "fetched" /\ fetched' = fetched \ {t.job} /\ UNCHANGED live
    \/ t.src = "live" /\ live' = Tail(live) /\ UNCHANGED fetched

\* enqueueStoredJob up to its first await.
EnqueueStoredJob(t) ==
    \/ /\ t.job \in Unparseable
       /\ outcome' = [outcome EXCEPT ![t.job] = "unparsed"]
       /\ result' = [result EXCEPT ![t] = "error"]
       /\ pc' = [pc EXCEPT ![t] = "deleting"]
       /\ writes' = Append(writes, DeleteOf(t))
       /\ UNCHANGED queue
    \/ /\ t.job \notin Unparseable
       /\ pc' = [pc EXCEPT ![t] = "queued"]
       /\ queue' = [queue EXCEPT ![QueueOf[t.job]] = Append(@, t)]
       /\ UNCHANGED <<outcome, result, writes>>

StreamStops(t) ==
    /\ stream = "open" /\ held = {}
    /\ IsNext(t)
    /\ shutting
    /\ Consume(t)
    /\ stream' = "broken"
    /\ UNCHANGED <<db, stored, birthVars, outcome, addVars, held, flagVars,
                   writes, taskVars, restarts>>

\* Mutation: a paused queue skips the item instead of holding it.
StreamHoldsNothing(t) ==
    /\ stream = "open" /\ held = {}
    /\ IsNext(t)
    /\ ~shutting /\ paused
    /\ Consume(t)
    /\ UNCHANGED <<db, stored, birthVars, outcome, addVars, stream, held,
                   flagVars, writes, taskVars, restarts>>

StreamHolds(t) ==
    /\ stream = "open" /\ held = {}
    /\ IsNext(t)
    /\ ~shutting /\ paused
    /\ Consume(t)
    /\ held' = {t}
    /\ UNCHANGED <<db, stored, birthVars, outcome, addVars, stream, flagVars,
                   writes, taskVars, restarts>>

StreamEnqueues(t) ==
    /\ stream = "open" /\ held = {}
    /\ IsNext(t)
    /\ ~shutting /\ ~paused
    /\ Consume(t)
    /\ EnqueueStoredJob(t)
    /\ UNCHANGED <<db, stored, birthVars, addVars, stream, held, flagVars,
                   attempt, begun, restarts>>

\* The polling loop sees #paused cleared; #shuttingDown is not looked at again.
StreamResumes(t) ==
    /\ t \in held
    /\ ~paused
    /\ held' = {}
    /\ EnqueueStoredJob(t)
    /\ UNCHANGED <<db, stored, birthVars, addVars, stream, fetched, live,
                   flagVars, attempt, begun, restarts>>

-----------------------------------------------------------------------------
(* The function queue.add runs, and what enqueueStoredJob does after it.   *)

\* The slot is free for the next job of the queue as soon as the function is
\* over, before enqueueStoredJob resumes.
ReleaseSlot(t) == queue' = [queue EXCEPT ![QueueOf[t.job]] = Tail(@)]

ReturnFromQueue(t, status) ==
    /\ pc' = [pc EXCEPT ![t] = "ran"]
    /\ result' = [result EXCEPT ![t] = status]
    /\ ReleaseSlot(t)

\* Mutation: the loop does not look at isShuttingDown.
BeginAttemptAlways(t, n) ==
    /\ pc' = [pc EXCEPT ![t] = "running"]
    /\ attempt' = [attempt EXCEPT ![t] = n]
    /\ begun' = begun \cup {t.job}
    /\ UNCHANGED <<result, queue>>

\* Mutation: shutting down returns from the queued function without an error.
BeginAttemptSilentStop(t, n) ==
    \/ shutting /\ ReturnFromQueue(t, "success") /\ UNCHANGED <<attempt, begun>>
    \/ ~shutting /\ BeginAttemptAlways(t, n)

\* The top of the attempt loop.
BeginAttempt(t, n) ==
    \/ /\ shutting
       /\ ReturnFromQueue(t, "error")
       /\ UNCHANGED <<attempt, begun>>
    \/ /\ ~shutting
       /\ pc' = [pc EXCEPT ![t] = "running"]
       /\ attempt' = [attempt EXCEPT ![t] = n]
       /\ begun' = begun \cup {t.job}
       /\ UNCHANGED <<result, queue>>

\* Mutation: an in-memory queue without a concurrency limit.
StartJobAnytime(t) ==
    /\ pc[t] = "queued"
    /\ BeginAttempt(t, 1)
    /\ UNCHANGED <<db, stored, birthVars, outcome, addVars, storeVars, flagVars,
                   writes, restarts>>

StartJob(t) ==
    /\ pc[t] = "queued"
    /\ Head(queue[QueueOf[t.job]]) = t
    /\ BeginAttempt(t, 1)
    /\ UNCHANGED <<db, stored, birthVars, outcome, addVars, storeVars, flagVars,
                   writes, restarts>>

RunSucceeds(t) ==
    /\ pc[t] = "running"
    /\ ReturnFromQueue(t, "success")
    /\ outcome' = [outcome EXCEPT ![t.job] = "success"]
    /\ UNCHANGED <<db, stored, birthVars, addVars, storeVars, flagVars, writes,
                   attempt, begun, restarts>>

RunNeedsRetry(t) ==
    /\ pc[t] = "running"
    /\ ReturnFromQueue(t, "retry")
    /\ UNCHANGED <<db, stored, birthVars, outcome, addVars, storeVars, flagVars,
                   writes, attempt, begun, restarts>>

RunFails(t) ==
    /\ pc[t] = "running"
    /\ \/ /\ attempt[t] = MaxAttempts
          /\ ReturnFromQueue(t, "error")
          /\ outcome' = [outcome EXCEPT ![t.job] = "exhausted"]
          /\ UNCHANGED <<attempt, begun>>
       \/ /\ attempt[t] < MaxAttempts
          /\ BeginAttempt(t, attempt[t] + 1)
          /\ UNCHANGED outcome
    /\ UNCHANGED <<db, stored, birthVars, addVars, storeVars, flagVars, writes,
                   restarts>>

\* Mutation: the raw status is passed on.
CompleteWithStatus(t, how) ==
    completion' = [completion EXCEPT ![t.job] = result[t]]

\* Only the first call of resolve or reject has an effect, and a job of an
\* earlier process has neither.
Complete(t, how) ==
    completion' = IF completion[t.job] = "pending"
                  THEN [completion EXCEPT ![t.job] = how]
                  ELSE completion

\* Mutation: an error during shutdown counts as a failed job.
DeleteAfterAnyEnd(t) ==
    result[t] \in {"success", "error"} \/ (result[t] = "retry" /\ ~RetryOnIdle)

DeleteAfterRun(t) ==
    \/ result[t] = "success"
    \/ result[t] = "error" /\ ~shutting
    \/ result[t] = "retry" /\ ~RetryOnIdle

\* Mutation: store.delete is not awaited.
PostDeleteUnawaited(t) ==
    /\ pc[t] = "ran"
    /\ DeleteAfterRun(t)
    /\ pc' = [pc EXCEPT ![t] = "deleted"]
    /\ writes' = Append(writes, DeleteOf(t))
    /\ UNCHANGED <<db, stored, birthVars, outcome, addVars, storeVars, flagVars,
                   attempt, result, queue, begun, restarts>>

\* enqueueStoredJob resumes after queue.add and posts the delete ...
PostDelete(t) ==
    /\ pc[t] = "ran"
    /\ DeleteAfterRun(t)
    /\ pc' = [pc EXCEPT ![t] = "deleting"]
    /\ writes' = Append(writes, DeleteOf(t))
    /\ outcome' = IF result[t] = "retry"
                  THEN [outcome EXCEPT ![t.job] = "dropped"] ELSE outcome
    /\ UNCHANGED <<db, stored, birthVars, addVars, storeVars, flagVars, attempt,
                   result, queue, begun, restarts>>

\* ... or keeps the row: the job waits for the subclass to enqueue it again, or
\* for the next process.
KeepRow(t) ==
    /\ pc[t] = "ran"
    /\ ~DeleteAfterRun(t)
    /\ pc' = [pc EXCEPT ![t] = IF result[t] = "retry" THEN "parked" ELSE "over"]
    /\ Complete(t, IF result[t] = "error" THEN "rejected" ELSE "resolved")
    /\ UNCHANGED <<db, stored, birthVars, outcome, adding, saw, storeVars,
                   flagVars, writes, attempt, result, queue, begun, restarts>>

\* The delete returned.
Settle(t) ==
    /\ pc[t] = "deleted"
    /\ pc' = [pc EXCEPT ![t] = "over"]
    /\ Complete(t, IF result[t] = "error" THEN "rejected" ELSE "resolved")
    /\ UNCHANGED <<db, stored, birthVars, outcome, adding, saw, storeVars,
                   flagVars, writes, attempt, result, queue, begun, restarts>>

\* The subclass hands a parked job to enqueueStoredJob again.
EnqueueAgain(t) ==
    /\ pc[t] = "parked"
    /\ EnqueueStoredJob(t)
    /\ UNCHANGED <<db, stored, birthVars, addVars, storeVars, flagVars, attempt,
                   begun, restarts>>

-----------------------------------------------------------------------------
(* pause, resume, shutdown, and the end of the process.                    *)

Pause ==
    /\ Pausable /\ ~paused
    /\ paused' = TRUE
    /\ UNCHANGED <<db, stored, birthVars, outcome, addVars, storeVars, shutting,
                   awaiting, drained, writes, taskVars, restarts>>

Resume ==
    /\ paused
    /\ paused' = FALSE
    /\ UNCHANGED <<db, stored, birthVars, outcome, addVars, storeVars, shutting,
                   awaiting, drained, writes, taskVars, restarts>>

\* shutdown() up to its await: only the queues of this moment are awaited.
Shutdown ==
    /\ ~shutting
    /\ shutting' = TRUE
    /\ awaiting' = {k \in Key : queue[k] # <<>>}
    /\ UNCHANGED <<db, stored, birthVars, outcome, addVars, storeVars, paused,
                   drained, writes, taskVars, restarts>>

\* The onIdle() promise of one of them resolves.
QueueIdle(k) ==
    /\ k \in awaiting
    /\ queue[k] = <<>>
    /\ awaiting' = awaiting \ {k}
    /\ UNCHANGED <<db, stored, birthVars, outcome, addVars, storeVars, paused,
                   shutting, drained, writes, taskVars, restarts>>

ShutdownComplete ==
    /\ shutting /\ ~drained
    /\ awaiting = {}
    /\ drained' = TRUE
    /\ UNCHANGED <<db, stored, birthVars, outcome, addVars, storeVars, paused,
                   shutting, awaiting, writes, taskVars, restarts>>

\* The process ends, orderly or not, and the next one begins.  Writes that
\* were posted and not committed are lost with it.
Restart ==
    /\ restarts < MaxRestarts
    /\ restarts' = restarts + 1
    /\ saw' = [j \in Job |-> FALSE]
    /\ completion' = [j \in Job |-> "none"]
    /\ stream' = "off"
    /\ fetched' = {} /\ live' = <<>> /\ held' = {}
    /\ paused' = FALSE /\ shutting' = FALSE /\ awaiting' = {} /\ drained' = FALSE
    /\ writes' = <<>>
    /\ pc' = [t \in Task |-> "none"]
    /\ attempt' = [t \in Task |-> 0]
    /\ result' = [t \in Task |-> "none"]
    /\ queue' = [k \in Key |-> <<>>]
    /\ begun' = {}
    /\ adding' = [j \in Job |-> IF adding[j] = "no" THEN "no" ELSE "done"]
    /\ UNCHANGED <<db, stored, birthVars, outcome>>

-----------------------------------------------------------------------------
AddStep(j) == FetchAwaited(j) \/ RowCommitted(j)

StreamStep(t) == StreamStops(t) \/ StreamHolds(t) \/ StreamEnqueues(t)
                 \/ StreamResumes(t)

RunStep(t) == RunSucceeds(t) \/ RunNeedsRetry(t) \/ RunFails(t)

AfterRun(t) == PostDelete(t) \/ KeepRow(t) \/ Settle(t)

Next ==
    \/ \E j \in Job : Add(j) \/ AddStep(j)
    \/ \E t \in Task : StreamStep(t) \/ StartJob(t) \/ RunStep(t) \/ AfterRun(t)
                       \/ EnqueueAgain(t)
    \/ CommitWrite
    \/ StreamJobs \/ FetchRead \/ FetchFinished
    \/ \E k \in Key : QueueIdle(k)
    \/ Pause \/ Resume \/ Shutdown \/ ShutdownComplete \/ Restart

Spec == Init /\ [][Next]_vars

\* The event loop and the SQL workers do not starve what is ready, and a run()
\* settles its promise.  Nothing obliges anyone to add, pause, resume, shut
\* down or restart.
Fairness ==
    /\ WF_vars(CommitWrite)
    /\ WF_vars(FetchRead \/ FetchFinished)
    /\ \A j \in Job : WF_vars(AddStep(j))
    /\ \A t \in Task : /\ WF_vars(StreamStep(t))
                       /\ WF_vars(StartJob(t))
                       /\ WF_vars(RunStep(t))
                       /\ WF_vars(AfterRun(t))

FairSpec == Spec /\ Fairness

-----------------------------------------------------------------------------
(* Safety.                                                                 *)

\* A job whose row was once committed keeps it until some run of the job
\* succeeded, used up maxAttempts, or can never happen: no order of shutdown,
\* failure, retry, crash and restart deletes a job that was not given its runs
\* (the contract of JobQueueStore.delete).
NoJobLost == \A j \in stored : j \in db \/ outcome[j] # "none"

\* Jobs that share an in-memory queue never run at the same time; in
\* particular a job never overlaps with itself, although the stream may
\* produce it twice and a parked job is enqueued again.
OneRunPerQueue ==
    \A t, u \in Task :
        /\ pc[t] = "running"
        /\ pc[u] = "running"
        /\ QueueOf[t.job] = QueueOf[u.job]
        => t = u

\* run() is never called for a job before its row was committed, whichever of
\* add()'s two ways of inserting it was taken.
RunsOnlyStoredJobs == begun \subseteq stored

\* The step in which enqueueStoredJob leaves a job to be run again.
Parks(t) == pc[t] = "ran" /\ result[t] = "retry" /\ pc'[t] = "parked"

\* job.completion settles only when the row is gone, with two exceptions: the
\* very step that parks the job to be run again resolves it, and shutdown
\* rejects it.  A success never resolves before its delete is committed,
\* although the job may be in the stream twice and a parked job runs again.
CompletionAfterDelete ==
    [][\A j \in Job :
         completion[j] = "pending" /\ j \in db' =>
           /\ completion'[j] = "resolved" => \E t \in Task : t.job = j /\ Parks(t)
           /\ completion'[j] = "rejected" => shutting]_vars

\* Once shutdown() has resolved no job is running, even though the stream may
\* still hand over an item it held while the queue was paused and parked jobs
\* may be enqueued again: the database may be closed.
DrainedMeansQuiet == drained => \A t \in Task : pc[t] # "running"

\* Jobs added without an override to the same in-memory queue are first run in
\* the order in which they were added, within one process: fetched rows before
\* live ones, and neither pausing nor waiting for the fetch reorders them.
StartsInOrder ==
    [][\A i, j \in Job :
         /\ i \notin Overridden /\ j \notin Overridden
         /\ QueueOf[i] = QueueOf[j]
         /\ 0 < stamp[i] /\ stamp[i] < stamp[j]
         /\ j \in begun /\ i \notin begun
         => i \notin begun']_vars

\* The queue implements the ledger: rows are written once, and erased only
\* after the job was concluded.
Ledger == INSTANCE JobLedger
            WITH rows <- db, written <- stored,
                 concluded <- {j \in Job : outcome[j] # "none"}

LedgerSpec == Ledger!LedgerSpec

-----------------------------------------------------------------------------
(* Liveness, and a sentence of types.std.ts.                               *)

InStream(j) ==
    \/ j \in fetched
    \/ \E n \in DOMAIN live : live[n] = j
    \/ \E t \in held : t.job = j

\* If the queue does not stay paused, every job in the stream of a running
\* process is concluded, unless the process shuts down or dies first.
StreamedJobsConclude ==
    (<>[](~paused)) =>
        \A j \in Job :
            (FetchOver /\ InStream(j)) ~> (outcome[j] # "none" \/ shutting
                                           \/ stream = "off")

\* "Doing this should enqueue it in the stream" (types.std.ts:6): when the
\* insert of a job has returned and the fetch is over, the job is in the stream
\* or has come out of it.
InsertReachesStream ==
    \A j \in Job :
        /\ restarts = 0 /\ stream = "open"
        /\ adding[j] = "done"
        => InStream(j) \/ \E t \in Task : t.job = j /\ pc[t] # "none"
=============================================================================
