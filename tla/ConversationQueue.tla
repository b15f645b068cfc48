-------------------------- MODULE ConversationQueue --------------------------
(***************************************************************************)
(* The queue of outgoing jobs (ts/jobs/conversationJobQueue.preload.ts)    *)
(* and the challenge handler it works with.  Jobs of a conversation run    *)
(* one after the other.  A 428 registers the conversation with the         *)
(* challenge handler; a loud job (one that may show a captcha) is tried    *)
(* again and waits in the queue, a silent one leaves the queue and is      *)
(* parked in perConversationData until its retryAt is reached or another   *)
(* job finds the conversation unblocked.                                   *)
(*                                                                         *)
(* JobQueue.tla models the storage of jobs, the stream and shutdown; here  *)
(* a job has a row from its add until it is "done".  RETRY_STATUS.UNBLOCKED*)
(* lasts for the call of the callback only and is never seen.              *)
(***************************************************************************)
EXTENDS ChallengeHandler

CONSTANTS
    Job,
    ConvOf,       \* the conversation of a job
    Loud,         \* jobs for which shouldSendShowCaptcha
    Polite,       \* jobs an untrusted identity key ends (ProfileKey, Receipts ...)
    Impatient,    \* jobs a pending verification ends (ProfileKey)
    Offered,      \* the challenges the server may send
    MaxSetbacks   \* bound on challenges (restored ones too), failed sends, refused
                  \* captchas and lost connections

ASSUME QueueAssumption ==
    /\ IsFiniteSet(Conversation)
    /\ ConvOf \in [Job -> Conversation]
    /\ Loud \subseteq Job
    /\ Impatient \subseteq Polite
    /\ Polite \subseteq Job
    /\ Restored \subseteq Challenge
    /\ Offered \subseteq Challenge
    /\ MaxSetbacks \in Nat

VARIABLES
    queue,        \* the in-memory queue of a conversation; its head runs
    at,           \* where a job is
    sawRetryAt,   \* the retryAt run() read before its first await was set
    data,         \* #perConversationData
    strayTimers,  \* timers perConversationData no longer knows of
    idleCallback, \* a callback waits for queue.onIdle()
    waiter,       \* #verificationWaitMap has an entry
    verification, \* verificationDataByConversation
    canceled,     \* jobs added before the verification was cancelled
    setbacks      \* what has gone wrong, up to MaxSetbacks

queueVars == <<queue, at, sawRetryAt, data, strayTimers, idleCallback>>
verificationVars == <<waiter, verification, canceled>>
vars == <<challengeVars, queueVars, verificationVars, setbacks>>

JobAt == {"new", "queued", "loading", "checking", "waiting", "sending", "returned",
          "parked", "done"}

\* ConversationData, an entry of #perConversationData; timer: its retryAtTimeout.
Data ==
    [status : {"NONE", "RUNNING"}, retryAt : {"none"}, jobs : {<<>>}, timer : {FALSE}]
    \cup [status : {"BLOCKED"}, retryAt : {"future", "past"}, jobs : {<<>>},
          timer : {FALSE}]
    \cup [status : {"BLOCKED_WITH_JOBS"}, retryAt : {"future", "past"},
          jobs : Seq(Job) \ {<<>>}, timer : BOOLEAN]
NoData == [status |-> "NONE", retryAt |-> "none", jobs |-> <<>>, timer |-> FALSE]
Running == [NoData EXCEPT !.status = "RUNNING"]

\* The app starts: jobs of its earlier run may be in the queues already.
Init ==
    /\ ChallengeInit
    /\ queue \in [Conversation -> {<<>>} \cup {<<j>> : j \in Job}]
    /\ \A c \in Conversation : \A i \in DOMAIN queue[c] : ConvOf[queue[c][i]] = c
    /\ at = [j \in Job |-> IF queue[ConvOf[j]] = <<j>> THEN "queued" ELSE "new"]
    /\ sawRetryAt = [j \in Job |-> FALSE]
    /\ data = [c \in Conversation |-> NoData]
    /\ strayTimers = [c \in Conversation |-> 0]
    /\ idleCallback = [c \in Conversation |-> FALSE]
    /\ waiter = [c \in Conversation |-> FALSE]
    /\ verification = [c \in Conversation |-> "none"]
    /\ canceled = [c \in Conversation |-> {}]
    /\ setbacks = Cardinality({c \in Conversation : IsRegistered(c)})

Setback ==
    /\ setbacks < MaxSetbacks
    /\ setbacks' = setbacks + 1

-----------------------------------------------------------------------------
(* Retrying parked jobs. *)

Members(q) == {q[i] : i \in DOMAIN q}

\* The jobs q go back to the queue of c, of which `left` are there; the job j
\* goes to `to`.
Requeue(c, left, q, j, to) ==
    /\ queue' = [queue EXCEPT ![c] = left \o q]
    /\ at' = [k \in Job |-> CASE k \in Members(q) -> "queued"
                              [] k = j -> to
                              [] OTHER -> at[k]]

\* What #unblockConversationRetries releases, and what it leaves.
Released(c) == IF data[c].status = "BLOCKED_WITH_JOBS" THEN data[c].jobs ELSE <<>>

\* Mutation: the entry keeps what it held.
UnblockedKeeps(c) == IF data[c].status = "NONE" THEN NoData
                     ELSE [data[c] EXCEPT !.status = "RUNNING"]

Unblocked(c) == IF data[c].status = "NONE" THEN NoData ELSE Running

\* A retry removes the challenge.
UnregisterIf(retried, c) ==
    IF retried THEN Unregister({c})
    ELSE UNCHANGED <<registered, pendingStarts, startTimers>>

\* Mutation: a pending timeout is cleared and not set again.
RetryCallbackOnce(c) ==
    IF data[c].status = "BLOCKED_WITH_JOBS" /\ data[c].retryAt = "past"
    THEN /\ data' = [data EXCEPT ![c] = Running]
         /\ queue' = [queue EXCEPT ![c] = @ \o data[c].jobs]
         /\ at' = [k \in Job |-> IF k \in Members(data[c].jobs) THEN "queued" ELSE at[k]]
         /\ Unregister({c})
    ELSE /\ data' = [data EXCEPT ![c].timer = ~@ /\ data[c].status = "BLOCKED_WITH_JOBS"]
         /\ UNCHANGED <<queue, at, registered, pendingStarts, startTimers>>

\* createRetryCallback: retry what is parked, or set a timer.
RetryCallback(c) ==
    IF data[c].status = "BLOCKED_WITH_JOBS" /\ data[c].retryAt = "past"
    THEN /\ data' = [data EXCEPT ![c] = Running]
         /\ queue' = [queue EXCEPT ![c] = @ \o data[c].jobs]
         /\ at' = [k \in Job |-> IF k \in Members(data[c].jobs) THEN "queued" ELSE at[k]]
         /\ Unregister({c})
    ELSE /\ data' = [data EXCEPT ![c].timer = data[c].status = "BLOCKED_WITH_JOBS"]
         /\ UNCHANGED <<queue, at, registered, pendingStarts, startTimers>>

IdleCallback(c) ==
    /\ idleCallback[c]
    /\ queue[c] = <<>>
    /\ idleCallback' = [idleCallback EXCEPT ![c] = FALSE]
    /\ RetryCallback(c)
    /\ UNCHANGED <<registering, isOnline, rateLimited, asking, token, answering,
                   toResolve, sawRetryAt, strayTimers, verificationVars, setbacks>>

\* A timer fires, the known one or one that was lost track of.
RetryTimeout(c) ==
    /\ \/ /\ data[c].timer
          /\ UNCHANGED strayTimers
       \/ /\ strayTimers[c] > 0
          /\ strayTimers' = [strayTimers EXCEPT ![c] = @ - 1]
    /\ RetryCallback(c)
    /\ UNCHANGED <<registering, isOnline, rateLimited, asking, token, answering,
                   toResolve, sawRetryAt, idleCallback, verificationVars, setbacks>>

\* No job of c is about to be run or parked: these are microtasks, and the
\* conversations are loaded.
Settled(c) ==
    /\ \A j \in Job : ConvOf[j] = c => at[j] \notin {"loading", "returned"}
    /\ queue[c] # <<>> => at[Head(queue[c])] # "queued"

\* The retryAt of parked jobs, a minute or more ahead when it was set, is reached.
RetryMatures(c) ==
    /\ data[c].retryAt = "future"
    /\ Settled(c)
    /\ data' = [data EXCEPT ![c].retryAt = "past"]
    /\ UNCHANGED <<challengeVars, queue, at, sawRetryAt, strayTimers, idleCallback,
                   verificationVars, setbacks>>

\* resolveVerificationWaiter: wake the job that waits, or else retry.
ResolveVerificationWaiter(c) ==
    /\ toResolve[c] > 0
    /\ toResolve' = [toResolve EXCEPT ![c] = @ - 1]
    /\ IF waiter[c]
       THEN /\ waiter' = [waiter EXCEPT ![c] = FALSE]
            /\ at' = [j \in Job |-> IF at[j] = "waiting" /\ ConvOf[j] = c
                                    THEN "checking" ELSE at[j]]
            /\ UNCHANGED <<queue, data, registered, pendingStarts, startTimers>>
       ELSE /\ data' = [data EXCEPT ![c] = Unblocked(c)]
            /\ queue' = [queue EXCEPT ![c] = @ \o Released(c)]
            /\ at' = [j \in Job |-> IF j \in Members(Released(c)) THEN "queued" ELSE at[j]]
            /\ UnregisterIf(Released(c) # <<>>, c)
            /\ UNCHANGED waiter
    /\ UNCHANGED <<registering, isOnline, rateLimited, asking, token, answering,
                   sawRetryAt, strayTimers, idleCallback, verification, canceled, setbacks>>

-----------------------------------------------------------------------------
(* A job. *)

Add(j) ==
    /\ at[j] = "new"
    /\ at' = [at EXCEPT ![j] = "queued"]
    /\ queue' = [queue EXCEPT ![ConvOf[j]] = Append(@, j)]
    /\ IF j \in Loud THEN MaybeSolve(ConvOf[j]) ELSE UNCHANGED <<asking, token>>
    /\ UNCHANGED <<registered, registering, startTimers, pendingStarts, isOnline,
                   rateLimited, answering, toResolve, sawRetryAt, data, strayTimers,
                   idleCallback, verificationVars, setbacks>>

\* run() up to its first await.
Run(j) ==
    /\ at[j] = "queued"
    /\ j = Head(queue[ConvOf[j]])
    /\ at' = [at EXCEPT ![j] = "loading"]
    /\ sawRetryAt' = [sawRetryAt EXCEPT ![j] = data[ConvOf[j]].retryAt # "none"]
    /\ UNCHANGED <<challengeVars, queue, data, strayTimers, idleCallback,
                   verificationVars, setbacks>>

\* ConversationController.load() is done.
Load(j) ==
    /\ at[j] = "loading"
    /\ sawRetryAt' = [sawRetryAt EXCEPT ![j] = FALSE]
    /\ IF sawRetryAt[j] /\ j \notin Loud
       THEN /\ at' = [at EXCEPT ![j] = "returned"]
            /\ queue' = [queue EXCEPT ![ConvOf[j]] = Tail(@)]
       ELSE /\ at' = [at EXCEPT ![j] = "checking"]
            /\ UNCHANGED queue
    /\ UNCHANGED <<challengeVars, data, strayTimers, idleCallback, verificationVars,
                   setbacks>>

\* The conversation waits for a captcha and so does a loud job.
WaitForCaptcha(j) ==
    LET c == ConvOf[j] IN
    /\ at[j] = "checking"
    /\ IsRegistered(c)
    /\ j \in Loud
    /\ MaybeSolve(c)
    /\ waiter' = [waiter EXCEPT ![c] = TRUE]
    /\ at' = [at EXCEPT ![j] = "waiting"]
    /\ UNCHANGED <<registered, registering, startTimers, pendingStarts, isOnline,
                   rateLimited, answering, toResolve, queue, sawRetryAt, data,
                   strayTimers, idleCallback, verification, canceled, setbacks>>

\* What the verification state makes of a job that needs no captcha.
Verdict(j) ==
    LET v == verification[ConvOf[j]] IN
    CASE v = "none" -> "sending"
      [] v = "pending" /\ j \in Impatient -> "done"
      [] v = "pending" /\ j \notin Impatient -> "waiting"
      [] v = "canceled" /\ j \in canceled[ConvOf[j]] -> "done"
      [] v = "canceled" /\ j \notin canceled[ConvOf[j]] -> "sending"

\* No captcha holds the job: parked jobs are released unless the conversation
\* is registered.
Check(j) ==
    LET c == ConvOf[j]
        released == IF IsRegistered(c) THEN <<>> ELSE Released(c)
        left == IF Verdict(j) = "done" THEN Tail(queue[c]) ELSE queue[c]
    IN
    /\ at[j] = "checking"
    /\ ~(IsRegistered(c) /\ j \in Loud)
    /\ Requeue(c, left, released, j, Verdict(j))
    /\ data' = IF IsRegistered(c) THEN data ELSE [data EXCEPT ![c] = Unblocked(c)]
    /\ UnregisterIf(released # <<>>, c)
    /\ waiter' = [waiter EXCEPT ![c] = @ \/ Verdict(j) = "waiting"]
    /\ IF verification[c] = "canceled" /\ Verdict(j) = "sending"
       THEN /\ verification' = [verification EXCEPT ![c] = "none"]
            /\ canceled' = [canceled EXCEPT ![c] = {}]
       ELSE UNCHANGED <<verification, canceled>>
    /\ UNCHANGED <<registering, isOnline, rateLimited, asking, token, answering,
                   toResolve, sawRetryAt, strayTimers, idleCallback, setbacks>>

\* The job is too old, or its user cancelled: it cleans up and ends.
GiveUp(j) ==
    /\ at[j] = "checking"
    /\ Requeue(ConvOf[j], Tail(queue[ConvOf[j]]), <<>>, j, "done")
    /\ UNCHANGED <<challengeVars, sawRetryAt, data, strayTimers, idleCallback,
                   verificationVars, setbacks>>

\* Five minutes are over; the waiter stays.
WaitTimesOut(j) ==
    /\ at[j] = "waiting"
    /\ at' = [at EXCEPT ![j] = "checking"]
    /\ UNCHANGED <<challengeVars, queue, sawRetryAt, data, strayTimers, idleCallback,
                   verificationVars, setbacks>>

\* Mutation: a success clears the conversation's data whatever it holds.
SentClearsAll(j) ==
    LET c == ConvOf[j] IN
    /\ at[j] = "sending"
    /\ Requeue(c, Tail(queue[c]), <<>>, j, "done")
    /\ data' = [data EXCEPT ![c] = NoData]
    /\ UNCHANGED <<challengeVars, sawRetryAt, strayTimers, idleCallback,
                   verificationVars, setbacks>>

\* The send succeeds: recordSuccessfulSend.
Sent(j) ==
    LET c == ConvOf[j] IN
    /\ at[j] = "sending"
    /\ Requeue(c, Tail(queue[c]), Released(c), j, "done")
    /\ data' = [data EXCEPT ![c] = IF Released(c) = <<>> THEN NoData ELSE Running]
    /\ UnregisterIf(Released(c) # <<>>, c)
    /\ UNCHANGED <<registering, isOnline, rateLimited, asking, token, answering,
                   toResolve, sawRetryAt, strayTimers, idleCallback, verificationVars, setbacks>>

\* An error that is thrown: the job is tried again, or this was its last try.
Throw(j) ==
    LET c == ConvOf[j] IN
    \/ at' = [at EXCEPT ![j] = "queued"] /\ UNCHANGED queue
    \/ Requeue(c, Tail(queue[c]), <<>>, j, "done")

\* captureRetryAt: what is recorded when a silent job is challenged.  An entry
\* that has a retryAt keeps it or gets a later one.
Captured(c, retryAt) ==
    CASE data[c].status = "NONE" ->
            [NoData EXCEPT !.status = "BLOCKED",
                           !.retryAt = IF retryAt = "none" THEN "future" ELSE retryAt]
      [] data[c].status = "RUNNING" ->
            [NoData EXCEPT !.status = "BLOCKED", !.retryAt = "future"]
      [] OTHER -> [data[c] EXCEPT !.retryAt = "future"]

\* Mutation: the retryAt of a loud job is recorded too.
ChallengedCaptures(j, challenge) ==
    LET c == ConvOf[j] IN
    /\ Setback
    /\ at[j] = "sending"
    /\ challenge.silent = (j \notin Loud)
    /\ Register(c, challenge)
    /\ data' = [data EXCEPT ![c] = Captured(c, challenge.retryAt)]
    /\ IF j \in Loud THEN Throw(j)
       ELSE Requeue(c, Tail(queue[c]), <<>>, j, "returned")
    /\ UNCHANGED <<startTimers, pendingStarts, isOnline, rateLimited, asking, token,
                   answering, toResolve, sawRetryAt, strayTimers, idleCallback,
                   verificationVars>>

\* The server answers 428.
Challenged(j, challenge) ==
    LET c == ConvOf[j] IN
    /\ Setback
    /\ at[j] = "sending"
    /\ challenge.silent = (j \notin Loud)
    /\ Register(c, challenge)
    /\ IF j \in Loud
       THEN /\ Throw(j)
            /\ UNCHANGED data
       ELSE /\ Requeue(c, Tail(queue[c]), <<>>, j, "returned")
            /\ data' = [data EXCEPT ![c] = Captured(c, challenge.retryAt)]
    /\ UNCHANGED <<startTimers, pendingStarts, isOnline, rateLimited, asking, token,
                   answering, toResolve, sawRetryAt, strayTimers, idleCallback,
                   verificationVars>>

\* Another error; an untrusted identity key also stops the conversation until
\* the user verifies it, but only ends a polite job.
Fail(j) ==
    /\ Setback
    /\ at[j] = "sending"
    /\ \/ /\ Throw(j)
          /\ UNCHANGED <<verification, canceled>>
       \/ /\ j \notin Polite
          /\ Throw(j)
          /\ verification' = [verification EXCEPT ![ConvOf[j]] = "pending"]
          /\ canceled' = [canceled EXCEPT ![ConvOf[j]] = {}]
       \/ /\ j \in Polite
          /\ Requeue(ConvOf[j], Tail(queue[ConvOf[j]]), <<>>, j, "done")
          /\ UNCHANGED <<verification, canceled>>
    /\ UNCHANGED <<challengeVars, sawRetryAt, data, strayTimers, idleCallback, waiter>>

\* Mutation: the callback is never registered with queue.onIdle().
ParkUncalled(j) ==
    LET c == ConvOf[j] IN
    /\ at[j] = "returned"
    /\ at' = [at EXCEPT ![j] = "parked"]
    /\ data' = [data EXCEPT ![c] =
          [status |-> "BLOCKED_WITH_JOBS",
           retryAt |-> IF @.status \in {"NONE", "RUNNING"} THEN "future" ELSE @.retryAt,
           jobs |-> Append(@.jobs, j), timer |-> FALSE]]
    /\ strayTimers' = [strayTimers EXCEPT ![c] = IF data[c].timer THEN @ + 1 ELSE @]
    /\ UNCHANGED <<challengeVars, queue, sawRetryAt, idleCallback, verificationVars, setbacks>>

\* retryJobOnQueueIdle, once the job has left the queue.  The new entry does not
\* carry over the timer of the old one.
Park(j) ==
    LET c == ConvOf[j] IN
    /\ at[j] = "returned"
    /\ at' = [at EXCEPT ![j] = "parked"]
    /\ data' = [data EXCEPT ![c] =
          [status |-> "BLOCKED_WITH_JOBS",
           retryAt |-> IF @.status \in {"NONE", "RUNNING"} THEN "future" ELSE @.retryAt,
           jobs |-> Append(@.jobs, j), timer |-> FALSE]]
    /\ idleCallback' = [idleCallback EXCEPT ![c] = @ \/ data[c].status # "BLOCKED_WITH_JOBS"]
    /\ strayTimers' = [strayTimers EXCEPT ![c] = IF data[c].timer THEN @ + 1 ELSE @]
    /\ UNCHANGED <<challengeVars, queue, sawRetryAt, verificationVars, setbacks>>

-----------------------------------------------------------------------------
(* The user's answer to a changed identity key. *)

\* The conversations of the dialog: getConversationIdsStoppedForVerification.
Stopped == {c \in Conversation : verification[c] = "pending"}

\* resolveVerificationWaiter will be called for what was stopped.
ResolveStopped ==
    /\ Stopped # {}
    /\ toResolve' = [c \in Conversation |->
                       IF c \in Stopped THEN toResolve[c] + 1 ELSE toResolve[c]]
    /\ UNCHANGED <<registered, registering, startTimers, pendingStarts, isOnline,
                   rateLimited, asking, token, answering, queueVars, waiter, setbacks>>

\* verifyConversationsStoppingSend clears every entry and, after an await, calls
\* the queues.
Verify ==
    /\ ResolveStopped
    /\ verification' = [c \in Conversation |-> "none"]
    /\ canceled' = [c \in Conversation |-> {}]

\* cancelConversationVerification; the queues are called at once, which the next
\* step stands for.
CancelVerification ==
    /\ ResolveStopped
    /\ verification' = [c \in Conversation |->
                          IF verification[c] = "none" THEN "none" ELSE "canceled"]
    /\ canceled' = [c \in Conversation |->
                      IF verification[c] = "none" THEN {}
                      ELSE {j \in Job : ConvOf[j] = c /\ at[j] # "new"}]

-----------------------------------------------------------------------------
JobStep(j) ==
    \/ Run(j) \/ Load(j) \/ WaitForCaptcha(j) \/ Check(j) \/ WaitTimesOut(j)
    \/ Sent(j) \/ Park(j)

RetryStep(c) ==
    \/ IdleCallback(c) \/ RetryTimeout(c) \/ RetryMatures(c)
    \/ ResolveVerificationWaiter(c)

ChallengeStep(c) ==
    /\ \/ \E challenge \in Challenge : Persisted(c, challenge)
       \/ StartTimer(c)
       \/ Matures(c)
    /\ UNCHANGED <<queueVars, verificationVars, setbacks>>

User ==
    \/ CaptchaSolved /\ UNCHANGED <<queueVars, verificationVars, setbacks>>
    \/ Verify
    \/ CancelVerification
    \/ \E j \in Job : Add(j)

Server ==
    \/ CaptchaAccepted /\ UNCHANGED <<queueVars, verificationVars, setbacks>>
    \/ /\ \E retryAt \in {"future", "past"} : CaptchaRefused(retryAt)
       /\ Setback
       /\ UNCHANGED <<queueVars, verificationVars>>
    \/ \E j \in Job : Fail(j)
    \/ \E j \in Job, challenge \in Offered : Challenged(j, challenge)
    \/ OnOnline /\ UNCHANGED <<queueVars, verificationVars, setbacks>>
    \/ /\ OnOffline
       /\ Setback
       /\ UNCHANGED <<queueVars, verificationVars>>

Internal ==
    \/ \E j \in Job : JobStep(j)
    \/ \E c \in Conversation : RetryStep(c) \/ ChallengeStep(c)

Next ==
    \/ Internal
    \/ \E j \in Job : GiveUp(j)
    \/ User
    \/ Server

Spec == Init /\ [][Next]_vars

\* Timers fire, awaits end and sends are answered; a job that is checked again
\* and again is too old in the end.  Neither the user nor the connection is
\* relied on.
FairSpec ==
    /\ Spec
    /\ \A j \in Job : WF_vars(JobStep(j)) /\ SF_vars(GiveUp(j))
    /\ \A c \in Conversation : WF_vars(RetryStep(c)) /\ WF_vars(ChallengeStep(c))

-----------------------------------------------------------------------------
(* Properties. *)

\* Every variable keeps its type; an entry has a retryAt exactly while it is
\* blocked and jobs exactly while it is blocked with jobs (ConversationData).
TypeOK ==
    /\ ChallengeTypeOK
    /\ queue \in [Conversation -> Seq(Job)]
    /\ at \in [Job -> JobAt]
    /\ sawRetryAt \in [Job -> BOOLEAN]
    /\ data \in [Conversation -> Data]
    /\ strayTimers \in [Conversation -> Nat]
    /\ idleCallback \in [Conversation -> BOOLEAN]
    /\ waiter \in [Conversation -> BOOLEAN]
    /\ verification \in [Conversation -> {"none", "pending", "canceled"}]
    /\ canceled \in [Conversation -> SUBSET Job]
    /\ setbacks \in Nat

Times(j, q) == Cardinality({i \in DOMAIN q : q[i] = j})

\* A stored job is in the queue or parked, once: no success, unblocking, timer
\* or late callback loses a parked job or queues it twice (recordSuccessfulSend,
\* unblockConversationRetries, createRetryCallback).
JobsInOnePlace ==
    \A j \in Job :
        LET c == ConvOf[j] IN
        /\ Times(j, queue[c]) = IF at[j] \in {"queued", "loading", "checking", "waiting",
                                              "sending"} THEN 1 ELSE 0
        /\ Times(j, data[c].jobs) = IF at[j] = "parked" THEN 1 ELSE 0

\* Something is left that will call the callback of parked jobs, although
\* entries replace each other and their timers are cleared or forgotten
\* (retryJobOnQueueIdle, createRetryCallback).
ParkedArmed ==
    \A c \in Conversation :
        data[c].jobs # <<>> => idleCallback[c] \/ data[c].timer \/ strayTimers[c] > 0

\* RETRY_STATUS.BLOCKED only stands while a job is on its way to be parked ("a
\* very short-lived state"): otherwise silent jobs would be parked behind an
\* entry nobody acts on.
BlockedIsShort ==
    \A c \in Conversation :
        data[c].status = "BLOCKED" => \E j \in Job : ConvOf[j] = c /\ at[j] = "returned"

\* Every job that is added ends, also if it is parked again and again or waits
\* for a captcha that is never solved: there is always a later state in which
\* none is under way (run, retryJobOnQueueIdle, createRetryCallback).
JobsConclude == []<>(\A j \in Job : at[j] \in {"new", "done"})
=============================================================================
