----------------------------- MODULE JobManager ------------------------------
(***************************************************************************)
(* The class JobManager (ts/jobs/JobManager.std.ts) with the parameters    *)
(* the attachment managers give it: its jobs table on the primary SQL      *)
(* worker, the batcher in front of it, and runs whose outcome is free.     *)
(*                                                                         *)
(* A turn without an `await` is one action.  All database calls of a       *)
(* manager go to one worker, which serves them in order; a call's effect   *)
(* and the continuation that awaits it are one action, Reply, since no     *)
(* other reader of the table can tell them apart.                          *)
(***************************************************************************)
EXTENDS Integers, Sequences, FiniteSets

CONSTANTS Job,             \* job ids
          MaxConcurrent,   \* params.maxConcurrentJobs
          MaxAttempts,     \* getRetryConfig(job).maxAttempts
          CanRateLimit,    \* may a run end "rate-limited"?
          CanCancel,       \* does anyone call cancelJobs?
          CanHoldOff,      \* does shouldHoldOffOnStartingQueuedJobs vary?
          CanAwaitIdle,    \* does anyone call waitForIdle?
          MaxAdds,         \* bound: calls of addJob per job
          MaxStops,        \* bound: calls of stop()
          MaxRestarts      \* bound: process restarts

ASSUME JobManagerAssumption ==
    /\ IsFiniteSet(Job)
    /\ MaxConcurrent \in Nat \ {0}
    /\ MaxAttempts \in Nat \ {0}
    /\ {CanRateLimit, CanCancel, CanHoldOff, CanAwaitIdle} \subseteq BOOLEAN
    /\ {MaxAdds, MaxStops, MaxRestarts} \subseteq Nat

VARIABLES
    row,         \* a job's row: "absent", "waiting", "backoff" or "active"
    tries,       \* its attempts column
    requests,    \* calls posted to the SQL worker, oldest first
    batch,       \* jobs in the batcher of saves
    enabled,     \* #enabled
    timer,       \* #tickTimeout: "none", "tick" or "pause"
    inMaybe,     \* #_inMaybeStartJobs
    startup,     \* start(): "no", "marking", or "starting" while it awaits
                 \*   the maybeStartJobs it called
    idle,        \* is an #idleCallback registered?
    held,        \* shouldHoldOffOnStartingQueuedJobs()
    pc,          \* startJob of a job in #activeJobs; "no" if it is not there
    began,       \* job.attempts when startJob was called
    mem,         \* job.attempts of the running job now
    forced,      \* was the running job started by forceStart?
    cancel,      \* cancelJobs for a job: "no", "waiting" or "removing"
    adds, stops, restarts

db     == <<row, tries>>
flags  == <<enabled, timer, startup, held, idle>>
runs   == <<pc, began, mem, forced>>
bounds == <<adds, stops, restarts>>
vars   == <<db, requests, batch, flags, inMaybe, runs, cancel, bounds>>

Request == [op : {"force", "flush", "active", "again", "later", "remove",
                  "cancel", "next", "reset"},
            jobs : SUBSET Job, n : Nat]

TypeOK ==
    /\ row \in [Job -> {"absent", "waiting", "backoff", "active"}]
    /\ tries \in [Job -> Nat]
    /\ requests \in Seq(Request)
    /\ batch \subseteq Job
    /\ enabled \in BOOLEAN /\ inMaybe \in BOOLEAN /\ held \in BOOLEAN /\ idle \in BOOLEAN
    /\ timer \in {"none", "tick", "pause"}
    /\ startup \in {"no", "marking", "starting"}
    /\ pc \in [Job -> {"no", "saving", "running", "ending"}]
    /\ began \in [Job -> Nat] /\ mem \in [Job -> Nat]
    /\ forced \subseteq Job
    /\ cancel \in [Job -> {"no", "waiting", "removing"}]
    /\ adds \in [Job -> Nat] /\ stops \in Nat /\ restarts \in Nat

Init ==
    /\ row = [j \in Job |-> "absent"] /\ tries = [j \in Job |-> 0]
    /\ requests = <<>> /\ batch = {}
    /\ enabled = FALSE /\ timer = "none" /\ inMaybe = FALSE
    /\ startup = "no" /\ held = FALSE /\ idle = FALSE
    /\ pc = [j \in Job |-> "no"]
    /\ began = [j \in Job |-> 0] /\ mem = [j \in Job |-> 0] /\ forced = {}
    /\ cancel = [j \in Job |-> "no"]
    /\ adds = [j \in Job |-> 0] /\ stops = 0 /\ restarts = 0

-----------------------------------------------------------------------------
Call(op, js, n) == [op |-> op, jobs |-> js, n |-> n]

Active == {j \in Job : pc[j] # "no"}
Ready  == {j \in Job : row[j] = "waiting"}

MinOf(m, n) == IF m <= n THEN m ELSE n

\* #getMaximumNumberOfJobsToStart
FreeSlots(active) == IF Cardinality(active) >= MaxConcurrent THEN 0
                     ELSE MaxConcurrent - Cardinality(active)

\* Mutation: maybeStartJobs is reentrant.
MayAskReentrant(on, active) == on /\ FreeSlots(active) > 0

\* Does maybeStartJobs get as far as calling getNextJobs?
MayAsk(on, active) == ~inMaybe /\ on /\ FreeSlots(active) > 0

\* maybeStartJobs up to its await, called when #enabled is `on`, #activeJobs is
\* `active` and `posted` are the calls the worker has not answered.
MaybeStart(on, active, posted) ==
    IF MayAsk(on, active)
    THEN /\ inMaybe' = TRUE
         /\ requests' = Append(posted, Call("next", {}, FreeSlots(active)))
    ELSE requests' = posted /\ UNCHANGED inMaybe

-----------------------------------------------------------------------------
(* addJob and the batcher.                                                 *)

AddJob(j) ==
    /\ adds[j] < MaxAdds
    /\ adds' = [adds EXCEPT ![j] = @ + 1]
    /\ \/ /\ pc[j] # "no"                             \* already running
          /\ mem' = [mem EXCEPT ![j] = 0]
          /\ UNCHANGED <<requests, batch, inMaybe>>
       \/ /\ pc[j] = "no"                             \* forceStart
          /\ requests' = Append(requests, Call("force", {j}, 0))
          /\ UNCHANGED <<mem, batch, inMaybe>>
       \/ /\ pc[j] = "no"                             \* batched save
          /\ batch' = batch \cup {j}
          /\ MaybeStart(enabled, Active, requests)
          /\ UNCHANGED mem
    /\ UNCHANGED <<db, flags, pc, began, forced, cancel, stops, restarts>>

\* The batcher's timeout.
FlushBatch ==
    /\ batch # {}
    /\ batch' = {}
    /\ requests' = Append(requests, Call("flush", batch, 0))
    /\ UNCHANGED <<db, flags, inMaybe, runs, cancel, bounds>>

-----------------------------------------------------------------------------
(* The SQL worker answers its oldest call.                                 *)

Answer(op) == requests # <<>> /\ Head(requests).op = op
Req        == Head(requests)
Rest       == Tail(requests)

\* Mutation: isLastAttempt compares with the attempt before this one.
IsLastAttemptLate(n) == n >= MaxAttempts

IsLastAttempt(n) == n + 1 >= MaxAttempts

\* startJob up to its await, for the jobs S with the attempts in `at`.
StartJobs(S, at, byForce) ==
    /\ pc' = [j \in Job |-> IF j \in S THEN "saving" ELSE pc[j]]
    /\ began' = [j \in Job |-> IF j \in S THEN at[j] ELSE began[j]]
    /\ mem' = [j \in Job |-> IF j \in S THEN at[j] ELSE mem[j]]
    /\ forced' = IF byForce THEN forced \cup S ELSE forced \ S

Orders(S) == {p \in [1..Cardinality(S) -> S] : \A m, n \in DOMAIN p : p[m] = p[n] => m = n}

ActiveSaves(p, at) == [n \in DOMAIN p |-> Call("active", {p[n]}, at[p[n]])]

\* Mutation: #enabled is not looked at again after the save.
ForceSavedStartsAnyway ==
    /\ Answer("force")
    /\ LET S == Req.jobs \ Active
           zero == [j \in Job |-> 0] IN
       /\ row' = [j \in Job |-> IF j \in Req.jobs THEN "waiting" ELSE row[j]]
       /\ tries' = [j \in Job |-> IF j \in Req.jobs THEN 0 ELSE tries[j]]
       /\ StartJobs(S, zero, TRUE)
       /\ \E p \in Orders(S) : requests' = Rest \o ActiveSaves(p, zero)
    /\ UNCHANGED <<batch, flags, inMaybe, cancel, bounds>>

\* A forced add was saved: start it unless it runs or the manager is disabled.
ForceSaved ==
    /\ Answer("force")
    /\ LET S == IF enabled THEN Req.jobs \ Active ELSE {}
           zero == [j \in Job |-> 0] IN
       /\ row' = [j \in Job |-> IF j \in Req.jobs THEN "waiting" ELSE row[j]]
       /\ tries' = [j \in Job |-> IF j \in Req.jobs THEN 0 ELSE tries[j]]
       /\ StartJobs(S, zero, TRUE)
       /\ \E p \in Orders(S) : requests' = Rest \o ActiveSaves(p, zero)
    /\ UNCHANGED <<batch, flags, inMaybe, cancel, bounds>>

\* processBatch: the saves may overwrite the row of a job that runs by now.
BatchSaved ==
    /\ Answer("flush")
    /\ row' = [j \in Job |-> IF j \in Req.jobs THEN "waiting" ELSE row[j]]
    /\ tries' = [j \in Job |-> IF j \in Req.jobs THEN 0 ELSE tries[j]]
    /\ MaybeStart(enabled, Active, Rest)
    /\ UNCHANGED <<batch, flags, runs, cancel, bounds>>

\* getNextJobs answers.  Which of the ready rows come first depends on
\* receivedAt and visibility; #enabled is not looked at again.
NextJobs ==
    /\ Answer("next")
    /\ inMaybe' = FALSE
    /\ \E found \in SUBSET Ready :
         /\ Cardinality(found) = MinOf(Req.n, Cardinality(Ready))
         /\ LET S == IF held THEN {} ELSE found \ Active IN
            /\ StartJobs(S, tries, FALSE)
            /\ \E p \in Orders(S) : requests' = Rest \o ActiveSaves(p, tries)
         /\ idle' = (idle /\ (found # {} \/ Active # {}))
    /\ UNCHANGED <<db, batch, enabled, timer, startup, held, cancel, bounds>>

\* saveJob({...job, active: true}) returned; runJob is called.
ActiveSaved ==
    /\ Answer("active")
    /\ row' = [j \in Job |-> IF j \in Req.jobs THEN "active" ELSE row[j]]
    /\ tries' = [j \in Job |-> IF j \in Req.jobs THEN Req.n ELSE tries[j]]
    /\ pc' = [j \in Job |-> IF j \in Req.jobs THEN "running" ELSE pc[j]]
    /\ requests' = Rest
    /\ UNCHANGED <<batch, flags, inMaybe, began, mem, forced, cancel, bounds>>

\* The `finally` of startJob, after the row was removed or saved for a retry.
JobEnded ==
    /\ \/ Answer("remove") \/ Answer("later") \/ Answer("again")
    /\ row' = [j \in Job |-> IF j \in Req.jobs
                             THEN CASE Req.op = "remove" -> "absent"
                                    [] Req.op = "later"  -> "backoff"
                                    [] Req.op = "again"  -> "waiting"
                             ELSE row[j]]
    /\ tries' = [j \in Job |-> IF j \in Req.jobs THEN Req.n ELSE tries[j]]
    /\ pc' = [j \in Job |-> IF j \in Req.jobs THEN "no" ELSE pc[j]]
    /\ forced' = forced \ Req.jobs
    /\ MaybeStart(enabled, Active \ Req.jobs, Rest)
    /\ UNCHANGED <<batch, flags, began, mem, cancel, bounds>>

CancelRemoved ==
    /\ Answer("cancel")
    /\ row' = [j \in Job |-> IF j \in Req.jobs THEN "absent" ELSE row[j]]
    /\ cancel' = [j \in Job |-> IF j \in Req.jobs THEN "no" ELSE cancel[j]]
    /\ requests' = Rest
    /\ UNCHANGED <<tries, batch, flags, inMaybe, runs, bounds>>

\* start() calls maybeStartJobs and, once that is over, #tick().
AwaitMaybeStart(on, posted) ==
    /\ MaybeStart(on, Active, posted)
    /\ \/ /\ MayAsk(on, Active)
          /\ startup' = "starting" /\ UNCHANGED timer
       \/ /\ ~MayAsk(on, Active)
          /\ startup' = "no" /\ timer' = "tick"

MarkedInactive ==
    /\ Answer("reset")
    /\ row' = [j \in Job |-> IF row[j] = "active" THEN "waiting" ELSE row[j]]
    /\ AwaitMaybeStart(enabled, Rest)
    /\ UNCHANGED <<tries, batch, enabled, held, idle, runs, cancel, bounds>>

Reply == ForceSaved \/ BatchSaved \/ NextJobs \/ ActiveSaved \/ JobEnded
         \/ CancelRemoved \/ MarkedInactive

-----------------------------------------------------------------------------
(* runJob settles.                                                         *)

\* Mutation: the counter runs backwards.
NextAttemptBelow(n) == n - 1

\* Attempts are only compared with maxAttempts: past it they are not counted on.
NextAttempt(n) == IF n > MaxAttempts THEN n ELSE n + 1

Post(op, j, n) ==
    /\ requests' = Append(requests, Call(op, {j}, n))
    /\ pc' = [pc EXCEPT ![j] = "ending"]

RunFinished(j) ==
    /\ pc[j] = "running"
    /\ Post("remove", j, 0)
    /\ UNCHANGED <<db, batch, flags, inMaybe, began, mem, forced, cancel, bounds>>

\* "retry" or an error: the last attempt removes the job.
RunFailed(j) ==
    /\ pc[j] = "running"
    /\ IF IsLastAttempt(began[j])
       THEN Post("remove", j, 0)
       ELSE Post("later", j, NextAttempt(mem[j]))
    /\ UNCHANGED <<db, batch, flags, inMaybe, began, mem, forced, cancel, bounds>>

\* "retry" with an updated job: without delay after the first attempt only.
RunUpdated(j) ==
    /\ pc[j] = "running" /\ ~IsLastAttempt(began[j])
    /\ Post(IF began[j] = 0 THEN "again" ELSE "later", j, NextAttempt(mem[j]))
    /\ UNCHANGED <<db, batch, flags, inMaybe, began, mem, forced, cancel, bounds>>

\* "rate-limited": #pauseForDuration, and a retry even after the last attempt.
RunRateLimited(j) ==
    /\ CanRateLimit /\ pc[j] = "running"
    /\ enabled' = FALSE /\ timer' = "pause"
    /\ Post("later", j, NextAttempt(mem[j]))
    /\ UNCHANGED <<db, batch, startup, held, idle, inMaybe, began, mem, forced, cancel, bounds>>

RunEnds(j) == RunFinished(j) \/ RunFailed(j) \/ RunUpdated(j) \/ RunRateLimited(j)

-----------------------------------------------------------------------------
(* Time, start, stop, cancelJobs, and the end of the process.              *)

BackoffOver(j) ==
    /\ row[j] = "backoff"
    /\ row' = [row EXCEPT ![j] = "waiting"]
    /\ UNCHANGED <<tries, requests, batch, flags, inMaybe, runs, cancel, bounds>>

\* Mutation: the tick does not arm the next one.
TickOnce ==
    /\ timer = "tick"
    /\ timer' = "none"
    /\ MaybeStart(enabled, Active, requests)
    /\ UNCHANGED <<db, batch, enabled, startup, held, idle, runs, cancel, bounds>>

Tick ==
    /\ timer = "tick"
    /\ MaybeStart(enabled, Active, requests)
    /\ UNCHANGED <<db, batch, flags, runs, cancel, bounds>>

PauseOver ==
    /\ timer = "pause"
    /\ enabled' = TRUE /\ timer' = "tick"
    /\ MaybeStart(TRUE, Active, requests)
    /\ UNCHANGED <<db, batch, startup, held, idle, runs, cancel, bounds>>

\* Mutation: rows a dead process left active are not reset.
StartWithoutReset ==
    /\ startup = "no"
    /\ enabled' = TRUE
    /\ AwaitMaybeStart(TRUE, requests)
    /\ UNCHANGED <<db, batch, held, idle, runs, cancel, bounds>>

\* One call of start() at a time.
Start ==
    /\ startup = "no"
    /\ \/ /\ ~enabled
          /\ enabled' = TRUE /\ startup' = "marking"
          /\ requests' = Append(requests, Call("reset", {}, 0))
          /\ UNCHANGED <<timer, inMaybe>>
       \/ /\ enabled
          /\ AwaitMaybeStart(TRUE, requests)
          /\ UNCHANGED enabled
    /\ UNCHANGED <<db, batch, held, idle, runs, cancel, bounds>>

\* The rest of start(): #tick() replaces whatever timer there is.
StartTicks ==
    /\ startup = "starting" /\ ~inMaybe
    /\ startup' = "no" /\ timer' = "tick"
    /\ MaybeStart(enabled, Active, requests)
    /\ UNCHANGED <<db, batch, enabled, held, idle, runs, cancel, bounds>>

WaitForIdle ==
    /\ CanAwaitIdle /\ ~idle
    /\ idle' = TRUE /\ timer' = "tick"
    /\ MaybeStart(enabled, Active, requests)
    /\ UNCHANGED <<db, batch, enabled, startup, held, runs, cancel, bounds>>

Stop ==
    /\ stops < MaxStops /\ stops' = stops + 1
    /\ enabled' = FALSE /\ timer' = "none"
    /\ UNCHANGED <<db, requests, batch, startup, held, idle, inMaybe, runs, cancel,
                   adds, restarts>>

HoldOff ==
    /\ CanHoldOff /\ held' = ~held
    /\ UNCHANGED <<db, requests, batch, enabled, timer, startup, idle, inMaybe, runs,
                   cancel, bounds>>

\* cancelJobs picks a job from #activeJobs and gives it a second to end ...
CancelJob(j) ==
    /\ CanCancel /\ pc[j] # "no" /\ cancel[j] = "no"
    /\ cancel' = [cancel EXCEPT ![j] = "waiting"]
    /\ UNCHANGED <<db, requests, batch, flags, inMaybe, runs, bounds>>

\* ... and then removes the row, whether the job ended or not.
CancelWaited(j) ==
    /\ cancel[j] = "waiting"
    /\ cancel' = [cancel EXCEPT ![j] = "removing"]
    /\ requests' = Append(requests, Call("cancel", {j}, 0))
    /\ UNCHANGED <<db, batch, flags, inMaybe, runs, bounds>>

\* The process ends; calls the worker has not served and batched saves are lost.
Restart ==
    /\ restarts < MaxRestarts /\ restarts' = restarts + 1
    /\ requests' = <<>> /\ batch' = {}
    /\ enabled' = FALSE /\ timer' = "none" /\ inMaybe' = FALSE
    /\ startup' = "no" /\ held' = FALSE /\ idle' = FALSE
    /\ pc' = [j \in Job |-> "no"]
    /\ began' = [j \in Job |-> 0] /\ mem' = [j \in Job |-> 0] /\ forced' = {}
    /\ cancel' = [j \in Job |-> "no"]
    /\ UNCHANGED <<db, adds, stops>>

-----------------------------------------------------------------------------
Next ==
    \/ \E j \in Job : AddJob(j) \/ RunEnds(j) \/ BackoffOver(j) \/ CancelJob(j)
                      \/ CancelWaited(j)
    \/ FlushBatch \/ Reply \/ Tick \/ PauseOver \/ Start \/ StartTicks \/ Stop
    \/ WaitForIdle \/ HoldOff \/ Restart

Spec == Init /\ [][Next]_vars

\* Calls are answered, timers fire and runs settle.  Nobody has to add, start,
\* stop, cancel or end a call.
Fairness ==
    /\ WF_vars(Reply) /\ WF_vars(FlushBatch)
    /\ WF_vars(Tick) /\ WF_vars(PauseOver) /\ WF_vars(StartTicks)
    /\ \A j \in Job : WF_vars(RunEnds(j)) /\ WF_vars(BackoffOver(j))

FairSpec == Spec /\ Fairness

-----------------------------------------------------------------------------
(* Safety.                                                                 *)

\* Jobs that are not started by force never exceed maxConcurrentJobs, although
\* the number of free slots is computed before getNextJobs is awaited and jobs
\* start, end and are forced meanwhile.
ConcurrencyBounded == Cardinality(Active \ forced) <= MaxConcurrent

\* No row stays active without a startJob that will end it: getNextJobs would
\* pass it over until the manager is started again.
NoStuckRows ==
    /\ enabled
    /\ \A n \in DOMAIN requests : requests[n].op # "reset"
    => \A j \in Job : row[j] = "active" => pc[j] # "no"

\* A row never records as many attempts as its retry configuration allows:
\* neither resets of a running job nor batched saves make a job run on after
\* its last attempt.
AttemptsBounded ==
    ~CanRateLimit => \A j \in Job : row[j] # "absent" => tries[j] < MaxAttempts

\* While the manager is stopped or paused no job starts, except those of a
\* getNextJobs that was already under way.
StartsOnlyWhenEnabled ==
    [][~enabled /\ ~inMaybe => \A j \in Job : pc[j] = "no" => pc'[j] = "no"]_vars

-----------------------------------------------------------------------------
(* Liveness.                                                               *)

\* If the manager stays enabled and is not held off, every job in the table is
\* finished or given up: a trigger of maybeStartJobs that is dropped because
\* another call is under way is made up for by the tick.
JobsConclude ==
    (<>[](enabled /\ ~held)) =>
        \A j \in Job : (row[j] # "absent") ~> (row[j] = "absent")

\* If the manager stays enabled and is not held off, waitForIdle() resolves.
IdleResolves ==
    (<>[](enabled /\ ~held)) => (idle ~> ~idle)

-----------------------------------------------------------------------------
(* What a test of the attachment managers says.                            *)

\* "pauses if it receives a retryAfter" (AttachmentBackupManager_test.preload.ts:
\* 373 to 402): after the pause the manager runs jobs again, unless it was
\* stopped.
PauseEnds == (timer = "pause") ~> (enabled \/ timer = "none")
=============================================================================
