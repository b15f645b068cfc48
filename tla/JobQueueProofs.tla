-------------------------- MODULE JobQueueProofs -----------------------------
(***************************************************************************)
(* JobQueue, for any number of jobs, keys, attempts and restarts: it is    *)
(* type correct, loses no job, never runs two jobs of a queue at once,     *)
(* implements JobLedger, is quiet once it was shut down, and completes     *)
(* jobs after their rows are gone.                                         *)
(***************************************************************************)
EXTENDS JobQueue, SequenceTheorems, TLAPS

Fetched(j) == [job |-> j, src |-> "fetched"]
Live(j)    == [job |-> j, src |-> "live"]

\* A job goes through the stream at most once from each source, so the call of
\* enqueueStoredJob for a task starts at most once in a process.
StreamInv ==
    /\ ~FetchOver => held = {} /\ \A t \in Task : pc[t] = "none"
    /\ stream \in {"off", "reading"} => fetched = {}
    /\ \A j \in fetched : pc[Fetched(j)] = "none" /\ Fetched(j) \notin held
    /\ \A n \in 1..Len(live) : /\ pc[Live(live[n])] = "none"
                               /\ Live(live[n]) \notin held
                               /\ adding[live[n]] = "done"
    /\ \A m, n \in 1..Len(live) : live[m] = live[n] => m = n
    /\ \A t \in held : pc[t] = "none"
    /\ \A t, u \in held : t = u
    /\ \A j \in Job : adding[j] # "done" => /\ pc[Live(j)] = "none"
                                            /\ Live(j) \notin held

InQueue(t) == \E n \in 1..Len(queue[QueueOf[t.job]]) : queue[QueueOf[t.job]][n] = t

\* An in-memory queue holds the tasks that are queued or running, each once,
\* and only its head can be running.
QueueInv ==
    /\ \A t \in Task : pc[t] \in {"queued", "running"} => InQueue(t)
    /\ \A k \in Key : \A n \in 1..Len(queue[k]) :
         /\ pc[queue[k][n]] \in {"queued", "running"}
         /\ QueueOf[queue[k][n].job] = k
    /\ \A k \in Key : \A m, n \in 1..Len(queue[k]) :
         queue[k][m] = queue[k][n] => m = n
    /\ \A t \in Task : pc[t] = "running" => queue[QueueOf[t.job]][1] = t

\* A write is posted once, and its poster waits for it.
WriteInv ==
    /\ \A n \in 1..Len(writes) :
         LET w == writes[n] IN
         /\ w.op = "insert" => /\ w = InsertOf(w.task.job)
                               /\ adding[w.task.job] = "insert"
         /\ w.op = "delete" => pc[w.task] = "deleting"
    /\ \A m, n \in 1..Len(writes) : writes[m] = writes[n] => m = n

\* A row is written once, and only stored jobs get into the stream.
StoredInv ==
    /\ db \subseteq stored
    /\ \A j \in Job : /\ adding[j] \in {"no", "insert"} => j \notin stored
                      /\ adding[j] = "wait" => (j \in stored <=> j \in Overridden)
                      /\ adding[j] = "stored" => j \in stored
    /\ fetched \subseteq stored
    /\ \A n \in 1..Len(live) : live[n] \in stored
    /\ \A t \in held : t.job \in stored
    /\ \A t \in Task : pc[t] # "none" => t.job \in stored
    /\ begun \subseteq stored

\* A delete is posted only for a job that was concluded, and a task returns
\* from its in-memory queue with success only then, with an error only then or
\* while shutting down.
ConcludedInv ==
    /\ \A n \in 1..Len(writes) :
         writes[n].op = "delete" => outcome[writes[n].task.job] # "none"
    /\ \A t \in Task : pc[t] = "ran" =>
         /\ result[t] = "success" => outcome[t.job] # "none"
         /\ result[t] = "error" => outcome[t.job] # "none" \/ shutting

IndInv == /\ TypeOK
          /\ StreamInv
          /\ QueueInv
          /\ WriteInv
          /\ StoredInv
          /\ ConcludedInv
          /\ NoJobLost

-----------------------------------------------------------------------------
(* The records the model is built from.                                    *)

\* A task is a job and where the stream got it from.
LEMMA TaskFacts ==
    /\ \A t \in Task : /\ t.job \in Job /\ t.src \in {"fetched", "live"}
                       /\ t.src = "fetched" => t = Fetched(t.job)
                       /\ t.src = "live" => t = Live(t.job)
    /\ \A j \in Job : /\ Fetched(j) \in Task
                      /\ Fetched(j).job = j
                      /\ Fetched(j).src = "fetched"
                      /\ Live(j) \in Task
                      /\ Live(j).job = j
                      /\ Live(j).src = "live"
  BY DEF Task, Source, Fetched, Live

\* A write names an operation and a task.
LEMMA WriteFacts ==
    /\ \A w \in Write : w.op \in {"insert", "delete"} /\ w.task \in Task
    /\ \A j \in Job : /\ InsertOf(j) \in Write
                      /\ InsertOf(j).op = "insert"
                      /\ InsertOf(j).task.job = j
    /\ \A t \in Task : /\ DeleteOf(t) \in Write
                       /\ DeleteOf(t).op = "delete"
                       /\ DeleteOf(t).task = t
  BY DEF Write, Task, Source, InsertOf, DeleteOf

-----------------------------------------------------------------------------
(* Type correctness.                                                       *)

\* What appending to a sequence and taking its first element off leave.
LEMMA SeqType ==
    ASSUME NEW S, NEW s \in Seq(S)
    PROVE  /\ \A e \in S : Append(s, e) \in Seq(S)
           /\ s # <<>> => Head(s) \in S /\ Tail(s) \in Seq(S)
  BY AppendProperties, HeadTailProperties

\* enqueueStoredJob keeps the types of what it assigns.
LEMMA EnqueueType ==
    ASSUME TypeOK, NEW t \in Task, EnqueueStoredJob(t)
    PROVE  /\ outcome' \in [Job -> Outcome]
           /\ writes' \in Seq(Write)
           /\ pc' \in [Task -> {"none", "queued", "running", "ran", "deleting",
                                "deleted", "parked", "over"}]
           /\ result' \in [Task -> {"none", "success", "retry", "error"}]
           /\ queue' \in [Key -> Seq(Task)]
<1>1. t.job \in Job /\ QueueOf[t.job] \in Key
  BY TaskFacts, JobQueueAssumption
<1>2. Append(writes, DeleteOf(t)) \in Seq(Write)
  BY SeqType, WriteFacts DEF TypeOK, DurableType
<1>3. Append(queue[QueueOf[t.job]], t) \in Seq(Task)
  <2>1. queue[QueueOf[t.job]] \in Seq(Task)
    BY <1>1 DEF TypeOK, TaskType
  <2> QED BY <2>1, SeqType
<1>4. CASE t.job \in Unparseable
  <2>1. outcome' \in [Job -> Outcome]
    BY <1>1, <1>4 DEF EnqueueStoredJob, Outcome, TypeOK, DurableType
  <2>2. writes' \in Seq(Write) /\ queue' \in [Key -> Seq(Task)]
    BY <1>2, <1>4 DEF EnqueueStoredJob, TypeOK, TaskType
  <2> QED BY <1>4, <2>1, <2>2 DEF EnqueueStoredJob, TypeOK, TaskType
<1>5. CASE t.job \notin Unparseable
  <2>1. queue' = [queue EXCEPT ![QueueOf[t.job]] = Append(queue[QueueOf[t.job]], t)]
    BY <1>5 DEF EnqueueStoredJob
  <2>2. queue' \in [Key -> Seq(Task)]
    BY <1>1, <1>3, <2>1 DEF TypeOK, TaskType
  <2> QED BY <1>5, <2>2 DEF EnqueueStoredJob, TypeOK, DurableType, TaskType
<1> QED BY <1>4, <1>5

\* So does the top of the attempt loop, for a task that has a slot to free.
LEMMA AttemptType ==
    ASSUME TaskType, NEW t \in Task, NEW n \in Nat, BeginAttempt(t, n),
           queue[QueueOf[t.job]] # <<>>
    PROVE  TaskType'
<1>1. CASE shutting
  <2>1. queue' \in [Key -> Seq(Task)]
    <3>1. QueueOf[t.job] \in Key /\ Tail(queue[QueueOf[t.job]]) \in Seq(Task)
      BY TaskFacts, JobQueueAssumption, SeqType DEF TaskType
    <3> QED BY <1>1, <3>1 DEF BeginAttempt, ReturnFromQueue, ReleaseSlot, TaskType
  <2> QED BY <1>1, <2>1 DEF BeginAttempt, ReturnFromQueue, TaskType
<1>2. CASE ~shutting
  <2>1. begun' \subseteq Job
    BY <1>2, TaskFacts DEF BeginAttempt, TaskType
  <2> QED BY <1>2, <2>1 DEF BeginAttempt, TaskType
<1> QED BY <1>1, <1>2

\* Every step keeps the types; a slot is only freed where there is one.
LEMMA TypeStep == TypeOK /\ QueueInv /\ [Next]_vars => TypeOK'
<1> SUFFICES ASSUME TypeOK, QueueInv, [Next]_vars PROVE TypeOK'
  OBVIOUS
<1> USE DEF TypeOK, addVars, storeVars, flagVars, taskVars, birthVars
<1>0. \A t \in Task : pc[t] \in {"queued", "running"} => queue[QueueOf[t.job]] # <<>>
  BY TaskFacts, JobQueueAssumption DEF TaskType, QueueInv, InQueue
<1>1. ASSUME NEW j \in Job, Add(j) PROVE TypeOK'
  <2>1. StreamType' /\ TaskType'
    BY <1>1 DEF Add, StreamType, TaskType
  <2>2. DurableType'
    <3>1. writes' \in Seq(Write)
      <4>1. Append(writes, InsertOf(j)) \in Seq(Write)
        BY SeqType, WriteFacts DEF DurableType
      <4> QED BY <1>1, <4>1 DEF Add, DurableType
    <3> QED BY <1>1, <3>1 DEF Add, DurableType
  <2>3. AddType'
    BY <1>1 DEF Add, AddType
  <2> QED BY <2>1, <2>2, <2>3
<1>2. ASSUME NEW j \in Job, FetchAwaited(j) PROVE TypeOK'
  <2>1. TaskType'
    BY <1>2 DEF FetchAwaited, TaskType
  <2>2. DurableType'
    <3>1. Append(writes, InsertOf(j)) \in Seq(Write)
      BY SeqType, WriteFacts DEF DurableType
    <3> QED BY <1>2, <3>1 DEF FetchAwaited, DurableType
  <2>3. AddType'
    BY <1>2, TaskFacts, WriteFacts DEF FetchAwaited, FetchOver, AddType
  <2>4. StreamType'
    BY <1>2, TaskFacts DEF FetchAwaited, FetchOver, LiveAdd, StreamType
  <2> QED BY <2>1, <2>2, <2>3, <2>4
<1>3. ASSUME NEW j \in Job, RowCommitted(j) PROVE TypeOK'
  <2>1. DurableType' /\ TaskType'
    BY <1>3 DEF RowCommitted, DurableType, TaskType
  <2>2. AddType'
    <3>1. FetchBegun \in BOOLEAN
      BY DEF FetchBegun
    <3> QED BY <1>3, <3>1 DEF RowCommitted, AddType
  <2>3. StreamType'
    BY <1>3, TaskFacts DEF RowCommitted, FetchBegun, LiveAdd, StreamType
  <2> QED BY <2>1, <2>2, <2>3
<1>4. ASSUME NEW t \in Task, StreamStops(t) PROVE TypeOK'
  <2>1. DurableType' /\ AddType' /\ TaskType'
    BY <1>4 DEF StreamStops, DurableType, AddType, TaskType
  <2>2. StreamType'
    BY <1>4, TaskFacts DEF StreamStops, IsNext, Consume, StreamType
  <2> QED BY <2>1, <2>2
<1>5. ASSUME NEW t \in Task, StreamHolds(t) PROVE TypeOK'
  <2>1. DurableType' /\ AddType' /\ TaskType'
    BY <1>5 DEF StreamHolds, DurableType, AddType, TaskType
  <2>2. StreamType'
    BY <1>5, TaskFacts DEF StreamHolds, IsNext, Consume, StreamType
  <2> QED BY <2>1, <2>2
<1>6. ASSUME NEW t \in Task, StreamEnqueues(t) PROVE TypeOK'
  <2>1. AddType'
    BY <1>6 DEF StreamEnqueues, AddType
  <2>2. DurableType'
    BY <1>6, EnqueueType DEF StreamEnqueues, DurableType
  <2>3. StreamType'
    BY <1>6, TaskFacts DEF StreamEnqueues, IsNext, Consume, StreamType
  <2>4. TaskType'
    BY <1>6, EnqueueType DEF StreamEnqueues, TaskType
  <2> QED BY <2>1, <2>2, <2>3, <2>4
<1>7. ASSUME NEW t \in Task, StreamResumes(t) PROVE TypeOK'
  <2>1. AddType'
    BY <1>7 DEF StreamResumes, AddType
  <2>2. DurableType'
    BY <1>7, EnqueueType DEF StreamResumes, DurableType
  <2>3. StreamType'
    BY <1>7, TaskFacts DEF StreamResumes, EnqueueStoredJob, StreamType
  <2>4. TaskType'
    BY <1>7, EnqueueType DEF StreamResumes, TaskType
  <2> QED BY <2>1, <2>2, <2>3, <2>4
<1>8. ASSUME NEW t \in Task, StartJob(t) PROVE TypeOK'
  <2>1. DurableType' /\ AddType' /\ StreamType'
    BY <1>8 DEF StartJob, DurableType, AddType, StreamType
  <2>2. TaskType'
    BY <1>0, <1>8, AttemptType DEF StartJob
  <2> QED BY <2>1, <2>2
<1>9. ASSUME NEW t \in Task, RunSucceeds(t) PROVE TypeOK'
  <2>1. AddType' /\ StreamType'
    BY <1>9 DEF RunSucceeds, AddType, StreamType
  <2>2. DurableType'
    BY <1>9, TaskFacts, WriteFacts DEF RunSucceeds, ReturnFromQueue, ReleaseSlot, DurableType, Outcome
  <2>3. TaskType'
    BY <1>0, <1>9, TaskFacts, WriteFacts, JobQueueAssumption DEF RunSucceeds, ReturnFromQueue, ReleaseSlot, TaskType
  <2> QED BY <2>1, <2>2, <2>3
<1>10. ASSUME NEW t \in Task, RunNeedsRetry(t) PROVE TypeOK'
  <2>1. DurableType' /\ AddType' /\ StreamType'
    BY <1>10 DEF RunNeedsRetry, DurableType, AddType, StreamType
  <2>2. TaskType'
    BY <1>0, <1>10, TaskFacts, WriteFacts, JobQueueAssumption DEF RunNeedsRetry, ReturnFromQueue, ReleaseSlot, TaskType
  <2> QED BY <2>1, <2>2
<1>11. ASSUME NEW t \in Task, RunFails(t) PROVE TypeOK'
  <2>1. AddType' /\ StreamType'
    BY <1>11 DEF RunFails, AddType, StreamType
  <2>2. DurableType'
    BY <1>11, TaskFacts DEF RunFails, DurableType, Outcome
  <2>3. TaskType'
    <3>0. attempt[t] = MaxAttempts => /\ ReturnFromQueue(t, "error")
                                      /\ UNCHANGED <<attempt, begun>>
      BY <1>11, JobQueueAssumption DEF RunFails, TaskType
    <3>1. CASE attempt[t] = MaxAttempts
      <4>1. queue' \in [Key -> Seq(Task)]
        <5>1. QueueOf[t.job] \in Key /\ Tail(queue[QueueOf[t.job]]) \in Seq(Task)
          BY <1>0, <1>11, TaskFacts, JobQueueAssumption, SeqType DEF RunFails, TaskType
        <5>2. queue' = [queue EXCEPT ![QueueOf[t.job]] = Tail(queue[QueueOf[t.job]])]
          BY <3>0, <3>1 DEF RunFails, ReturnFromQueue, ReleaseSlot
        <5> QED BY <5>1, <5>2 DEF TaskType
      <4> QED BY <3>0, <3>1, <4>1 DEF ReturnFromQueue, TaskType
    <3>2. CASE attempt[t] < MaxAttempts
      <4>1. attempt[t] + 1 \in Nat /\ attempt[t] # MaxAttempts
        BY <3>2, JobQueueAssumption DEF TaskType
      <4> QED BY <1>0, <1>11, <3>2, <4>1, AttemptType DEF RunFails
    <3> QED BY <1>11, <3>1, <3>2 DEF RunFails
  <2> QED BY <2>1, <2>2, <2>3
<1>12. ASSUME NEW t \in Task, PostDelete(t) PROVE TypeOK'
  <2>1. AddType' /\ StreamType'
    BY <1>12 DEF PostDelete, AddType, StreamType
  <2>2. DurableType'
    <3>1. Append(writes, DeleteOf(t)) \in Seq(Write)
      BY SeqType, WriteFacts DEF DurableType
    <3> QED BY <1>12, <3>1, TaskFacts DEF PostDelete, DurableType, Outcome
  <2>3. TaskType'
    BY <1>12, TaskFacts, WriteFacts, JobQueueAssumption DEF PostDelete, DeleteAfterRun, TaskType
  <2> QED BY <2>1, <2>2, <2>3
<1>13. ASSUME NEW t \in Task, KeepRow(t) PROVE TypeOK'
  <2>1. DurableType' /\ StreamType'
    BY <1>13 DEF KeepRow, DurableType, StreamType
  <2>2. AddType'
    BY <1>13, TaskFacts, WriteFacts DEF KeepRow, DeleteAfterRun, Complete, AddType
  <2>3. TaskType'
    BY <1>13, TaskFacts, WriteFacts, JobQueueAssumption DEF KeepRow, DeleteAfterRun, Complete, TaskType
  <2> QED BY <2>1, <2>2, <2>3
<1>14. ASSUME NEW t \in Task, Settle(t) PROVE TypeOK'
  <2>1. DurableType' /\ StreamType'
    BY <1>14 DEF Settle, DurableType, StreamType
  <2>2. AddType'
    BY <1>14, TaskFacts, WriteFacts DEF Settle, Complete, AddType
  <2>3. TaskType'
    BY <1>14, TaskFacts, WriteFacts, JobQueueAssumption DEF Settle, Complete, TaskType
  <2> QED BY <2>1, <2>2, <2>3
<1>15. ASSUME NEW t \in Task, EnqueueAgain(t) PROVE TypeOK'
  <2>1. AddType' /\ StreamType'
    BY <1>15 DEF EnqueueAgain, AddType, StreamType
  <2>2. DurableType'
    BY <1>15, EnqueueType DEF EnqueueAgain, DurableType
  <2>3. TaskType'
    BY <1>15, EnqueueType DEF EnqueueAgain, TaskType
  <2> QED BY <2>1, <2>2, <2>3
<1>16. CASE CommitWrite
  <2>1. StreamType'
    BY <1>16 DEF CommitWrite, StreamType
  <2>2. DurableType'
    BY <1>16, TaskFacts, WriteFacts DEF CommitWrite, DurableType, Outcome
  <2>3. AddType'
    <3>1. Head(writes).task.job \in Job
      BY <1>16, TaskFacts, WriteFacts DEF CommitWrite, DurableType
    <3> QED BY <1>16, <3>1 DEF CommitWrite, AddType
  <2>4. TaskType'
    <3>1. Head(writes).task \in Task
      BY <1>16, WriteFacts DEF CommitWrite, DurableType
    <3> QED BY <1>16, <3>1 DEF CommitWrite, TaskType
  <2> QED BY <2>1, <2>2, <2>3, <2>4
<1>17. CASE StreamJobs
  <2>1. DurableType' /\ AddType' /\ TaskType'
    BY <1>17 DEF StreamJobs, DurableType, AddType, TaskType
  <2>2. StreamType'
    BY <1>17, TaskFacts DEF StreamJobs, StreamType
  <2> QED BY <2>1, <2>2
<1>18. CASE FetchRead
  <2>1. DurableType' /\ AddType' /\ TaskType'
    BY <1>18 DEF FetchRead, DurableType, AddType, TaskType
  <2>2. StreamType'
    BY <1>18 DEF FetchRead, StreamType, DurableType
  <2> QED BY <2>1, <2>2
<1>19. CASE FetchFinished
  <2>1. DurableType' /\ AddType' /\ TaskType'
    BY <1>19 DEF FetchFinished, DurableType, AddType, TaskType
  <2>2. StreamType'
    BY <1>19, TaskFacts DEF FetchFinished, StreamType
  <2> QED BY <2>1, <2>2
<1>20. CASE Pause
  <2>1. DurableType' /\ AddType' /\ TaskType'
    BY <1>20 DEF Pause, DurableType, AddType, TaskType
  <2>2. StreamType'
    BY <1>20, TaskFacts DEF Pause, StreamType
  <2> QED BY <2>1, <2>2
<1>21. CASE Resume
  <2>1. DurableType' /\ AddType' /\ TaskType'
    BY <1>21 DEF Resume, DurableType, AddType, TaskType
  <2>2. StreamType'
    BY <1>21, TaskFacts DEF Resume, StreamType
  <2> QED BY <2>1, <2>2
<1>22. CASE Shutdown
  <2>1. DurableType' /\ AddType' /\ TaskType'
    BY <1>22 DEF Shutdown, DurableType, AddType, TaskType
  <2>2. StreamType'
    BY <1>22, TaskFacts DEF Shutdown, StreamType
  <2> QED BY <2>1, <2>2
<1>23. CASE ShutdownComplete
  <2>1. DurableType' /\ AddType' /\ TaskType'
    BY <1>23 DEF ShutdownComplete, DurableType, AddType, TaskType
  <2>2. StreamType'
    BY <1>23, TaskFacts DEF ShutdownComplete, StreamType
  <2> QED BY <2>1, <2>2
<1>24. CASE Restart
  <2>1. DurableType'
    BY <1>24, TaskFacts, WriteFacts DEF Restart, DurableType, Outcome
  <2>2. AddType'
    BY <1>24, TaskFacts, WriteFacts DEF Restart, AddType
  <2>3. StreamType'
    <3>1. live' \in Seq(Job)
      BY <1>24 DEF Restart
    <3>2. paused' \in BOOLEAN /\ shutting' \in BOOLEAN /\ drained' \in BOOLEAN
      BY <1>24 DEF Restart
    <3> QED BY <1>24, <3>1, <3>2 DEF Restart, StreamType
  <2>4. TaskType'
    BY <1>24, TaskFacts, WriteFacts, JobQueueAssumption DEF Restart, TaskType
  <2> QED BY <2>1, <2>2, <2>3, <2>4
<1>25. ASSUME NEW k \in Key, QueueIdle(k) PROVE TypeOK'
  <2>1. DurableType' /\ AddType' /\ TaskType'
    BY <1>25 DEF QueueIdle, DurableType, AddType, TaskType
  <2>2. StreamType'
    BY <1>25, TaskFacts DEF QueueIdle, StreamType
  <2> QED BY <2>1, <2>2
<1>26. CASE UNCHANGED vars
  BY <1>26 DEF vars, DurableType, AddType, StreamType, TaskType
<1> QED
  BY <1>1, <1>2, <1>3, <1>4, <1>5, <1>6, <1>7, <1>8, <1>9, <1>10, <1>11, <1>12, <1>13, <1>14, <1>15, <1>16, <1>17, <1>18, <1>19, <1>20, <1>21, <1>22, <1>23, <1>24, <1>25, <1>26 DEF Next, AddStep, StreamStep, RunStep, AfterRun

-----------------------------------------------------------------------------
(* The stream.                                                             *)

\* Steps that put nothing into the stream and take nothing out of it.
LEMMA StreamFrame ==
    ASSUME TypeOK, StreamInv,
           \A u \in Task : pc'[u] = "none" <=> pc[u] = "none",
           \A j \in Job : adding[j] = "done" => adding'[j] = "done",
           UNCHANGED <<held, fetched, live>>,
           FetchOver => FetchOver',
           stream' \in {"off", "reading"} => stream \in {"off", "reading"}
    PROVE  StreamInv'
<1>1. /\ live \in Seq(Job) /\ fetched \subseteq Job /\ held \subseteq Task
      /\ \A n \in 1..Len(live) : live[n] \in Job
  BY DEF TypeOK, StreamType
<1> QED BY <1>1, TaskFacts DEF StreamInv

\* An adder is done without having reached the reader.
LEMMA StreamMissed ==
    ASSUME TypeOK, StreamInv, NEW j \in Job,
           adding' = [adding EXCEPT ![j] = "done"],
           UNCHANGED <<pc, live, held, fetched, stream>>
    PROVE  StreamInv'
  BY StreamFrame DEF TypeOK, AddType, FetchOver

\* An adder appends its job to the live queue and is done.
LEMMA StreamAppend ==
    ASSUME TypeOK, StreamInv, NEW j \in Job,
           adding[j] # "done",
           adding' = [adding EXCEPT ![j] = "done"],
           live' = Append(live, j),
           UNCHANGED <<pc, held, fetched, stream>>
    PROVE  StreamInv'
<1>1. /\ live \in Seq(Job) /\ fetched \subseteq Job /\ held \subseteq Task
      /\ \A n \in 1..Len(live) : live[n] \in Job
      /\ \A i \in Job : adding'[i] = IF i = j THEN "done" ELSE adding[i]
  BY DEF TypeOK, StreamType, AddType
<1>2. /\ Len(live') = Len(live) + 1 /\ Len(live) \in Nat
      /\ live'[Len(live) + 1] = j
      /\ \A n \in 1..Len(live) : live'[n] = live[n]
  BY <1>1, AppendProperties
<1>3. \A n \in 1..Len(live) : live[n] # j
  BY <1>1 DEF StreamInv
<1>4. \A n \in 1..Len(live') : n \in 1..Len(live) \/ n = Len(live) + 1
  BY <1>2
<1>5. \A n \in 1..Len(live') : /\ pc[Live(live'[n])] = "none"
                               /\ Live(live'[n]) \notin held
                               /\ adding'[live'[n]] = "done"
  BY <1>1, <1>2, <1>4 DEF StreamInv
<1>6. \A m, n \in 1..Len(live') : live'[m] = live'[n] => m = n
  BY <1>2, <1>3, <1>4 DEF StreamInv
<1>7. \A i \in Job : adding'[i] # "done" => pc[Live(i)] = "none" /\ Live(i) \notin held
  BY <1>1 DEF StreamInv
<1> QED BY <1>5, <1>6, <1>7 DEF StreamInv, FetchOver

\* The item the stream produces next was not produced before, and is not among
\* the ones that remain.
LEMMA ConsumeFacts ==
    ASSUME TypeOK, StreamInv, NEW t \in Task, IsNext(t), Consume(t)
    PROVE  /\ pc[t] = "none" /\ t \notin held
           /\ t.src = "live" => adding[t.job] = "done"
           /\ fetched' \subseteq fetched
           /\ \A j \in fetched' : Fetched(j) # t
           /\ \A n \in 1..Len(live') : /\ \E m \in 1..Len(live) : live'[n] = live[m]
                                       /\ Live(live'[n]) # t
           /\ \A m, n \in 1..Len(live') : live'[m] = live'[n] => m = n
<1>1. /\ live \in Seq(Job) /\ fetched \subseteq Job
      /\ \A n \in 1..Len(live) : live[n] \in Job
  BY DEF TypeOK, StreamType
<1>2. CASE t.src = "fetched"
  <2>1. t = Fetched(t.job) /\ t.job \in fetched
    BY <1>2, TaskFacts DEF IsNext
  <2>2. live' = live /\ fetched' = fetched \ {t.job}
    BY <1>2 DEF Consume
  <2>3. \A j \in Job : Live(j) # t
    BY <1>2, TaskFacts
  <2>4. \A j \in fetched' : Fetched(j) # t
    BY <1>1, <2>1, <2>2, TaskFacts
  <2> QED BY <1>1, <1>2, <2>1, <2>2, <2>3, <2>4 DEF StreamInv
<1>3. CASE t.src = "live"
  <2>1. t = Live(t.job) /\ fetched = {} /\ live # <<>> /\ t.job = Head(live)
    BY <1>3, TaskFacts DEF IsNext
  <2>2. live' = Tail(live) /\ fetched' = {}
    BY <1>3, <2>1 DEF Consume
  <2>3. /\ Len(live) \in Nat \ {0} /\ live[1] = t.job
        /\ Len(live') = Len(live) - 1
        /\ \A n \in 1..Len(live') : live'[n] = live[n + 1]
    BY <1>1, <2>1, <2>2, HeadTailProperties
  <2>4. \A n \in 1..Len(live') : n + 1 \in 1..Len(live) /\ n + 1 # 1
    BY <2>3
  <2>5. \A n \in 1..Len(live') : live'[n] \in Job /\ live'[n] # t.job
    BY <1>1, <2>3, <2>4 DEF StreamInv
  <2>6. \A n \in 1..Len(live') : Live(live'[n]) # t
    BY <2>5, TaskFacts
  <2>7. \A m, n \in 1..Len(live') : live'[m] = live'[n] => m = n
    <3>1. \A m, n \in 1..Len(live) : live[m] = live[n] => m = n
      BY DEF StreamInv
    <3>2. SUFFICES ASSUME NEW m \in 1..Len(live'), NEW n \in 1..Len(live'),
                          live'[m] = live'[n]
                   PROVE  m = n
      OBVIOUS
    <3>3. live[m + 1] = live[n + 1] /\ m + 1 \in 1..Len(live) /\ n + 1 \in 1..Len(live)
      BY <2>3, <2>4, <3>2
    <3>4. m + 1 = n + 1
      BY <3>1, <3>3
    <3> QED BY <3>4
  <2>8. pc[t] = "none" /\ t \notin held /\ adding[t.job] = "done"
    BY <2>1, <2>3 DEF StreamInv
  <2> QED BY <2>2, <2>3, <2>4, <2>6, <2>7, <2>8
<1> QED BY <1>2, <1>3, TaskFacts

\* enqueueStoredJob starts the task it is called for, and no other.
LEMMA EnqueueStarts ==
    ASSUME TypeOK, NEW t \in Task, EnqueueStoredJob(t)
    PROVE  /\ pc'[t] # "none"
           /\ \A u \in Task : u # t => pc'[u] = pc[u]
  BY DEF EnqueueStoredJob, TypeOK, TaskType

\* The three ways in which an item leaves the stream.
LEMMA StreamTakes ==
    ASSUME TypeOK, StreamInv, NEW t \in Task, IsNext(t), Consume(t),
           stream = "open", FetchOver', stream' \notin {"off", "reading"},
           held = {}, held' \subseteq {t}, adding' = adding,
           \A u \in Task : u # t => pc'[u] = pc[u],
           held' = {t} => pc'[t] = "none"
    PROVE  StreamInv'
<1>1. /\ live \in Seq(Job) /\ fetched \subseteq Job
      /\ \A n \in 1..Len(live) : live[n] \in Job
  BY DEF TypeOK, StreamType
<1>2. \A j \in fetched' : pc'[Fetched(j)] = "none" /\ Fetched(j) \notin held'
  BY <1>1, ConsumeFacts, TaskFacts DEF StreamInv
<1>3. \A n \in 1..Len(live') : /\ pc'[Live(live'[n])] = "none"
                               /\ Live(live'[n]) \notin held'
                               /\ adding'[live'[n]] = "done"
  <2> SUFFICES ASSUME NEW n \in 1..Len(live')
               PROVE  /\ pc'[Live(live'[n])] = "none"
                      /\ Live(live'[n]) \notin held'
                      /\ adding'[live'[n]] = "done"
    OBVIOUS
  <2>1. PICK m \in 1..Len(live) : live'[n] = live[m]
    BY ConsumeFacts
  <2>2. Live(live'[n]) \in Task /\ Live(live'[n]) # t
    BY <1>1, <2>1, ConsumeFacts, TaskFacts
  <2> QED BY <2>1, <2>2 DEF StreamInv
<1>4. \A j \in Job : adding'[j] # "done" => pc'[Live(j)] = "none" /\ Live(j) \notin held'
  <2> SUFFICES ASSUME NEW j \in Job, adding[j] # "done"
               PROVE  pc'[Live(j)] = "none" /\ Live(j) \notin held'
    OBVIOUS
  <2>1. Live(j) \in Task /\ Live(j) # t
    BY ConsumeFacts, TaskFacts
  <2> QED BY <2>1 DEF StreamInv
<1>5. \A m, n \in 1..Len(live') : live'[m] = live'[n] => m = n
  BY ConsumeFacts
<1>6. \A u \in held' : pc'[u] = "none"
  OBVIOUS
<1> QED BY <1>2, <1>3, <1>4, <1>5, <1>6 DEF StreamInv

\* Every step keeps each task out of the stream once it came out of it.
LEMMA StreamInvStep == TypeOK /\ WriteInv /\ StreamInv /\ [Next]_vars => StreamInv'
<1> SUFFICES ASSUME TypeOK, WriteInv, StreamInv, [Next]_vars PROVE StreamInv'
  OBVIOUS
<1> USE DEF addVars, storeVars, flagVars, taskVars, birthVars
<1>1. ASSUME NEW j \in Job, Add(j) PROVE StreamInv'
  BY <1>1, StreamFrame DEF Add, TypeOK, AddType, FetchOver
<1>2. ASSUME NEW j \in Job, FetchAwaited(j) PROVE StreamInv'
  <2>1. CASE j \notin Overridden
    BY <1>2, <2>1, StreamFrame DEF FetchAwaited, TypeOK, AddType, FetchOver
  <2>2. CASE j \in Overridden
    BY <1>2, <2>2, StreamAppend, StreamMissed DEF FetchAwaited, LiveAdd
  <2> QED BY <2>1, <2>2
<1>3. ASSUME NEW j \in Job, RowCommitted(j) PROVE StreamInv'
  <2>1. CASE j \notin Overridden /\ saw[j]
    BY <1>3, <2>1, StreamAppend, StreamMissed DEF RowCommitted, LiveAdd
  <2>2. CASE ~(j \notin Overridden /\ saw[j])
    BY <1>3, <2>2, StreamFrame DEF RowCommitted, TypeOK, AddType, FetchOver
  <2> QED BY <2>1, <2>2
<1>4. ASSUME NEW t \in Task, StreamStops(t) PROVE StreamInv'
  BY <1>4, StreamTakes DEF StreamStops, FetchOver
<1>5. ASSUME NEW t \in Task, StreamHolds(t) PROVE StreamInv'
  <2>1. pc[t] = "none"
    BY <1>5, ConsumeFacts DEF StreamHolds
  <2> QED BY <1>5, <2>1, StreamTakes DEF StreamHolds, FetchOver
<1>6. ASSUME NEW t \in Task, StreamEnqueues(t) PROVE StreamInv'
  <2>1. EnqueueStoredJob(t) /\ IsNext(t) /\ Consume(t) /\ held = {}
    BY <1>6 DEF StreamEnqueues
  <2> QED BY <1>6, <2>1, EnqueueStarts, StreamTakes DEF StreamEnqueues, FetchOver
<1>7. ASSUME NEW t \in Task, StreamResumes(t) PROVE StreamInv'
  <2>1. /\ pc'[t] # "none" /\ \A u \in Task : u # t => pc'[u] = pc[u]
        /\ t \in held /\ held' = {}
        /\ UNCHANGED <<adding, stream, fetched, live>>
    BY <1>7, EnqueueStarts DEF StreamResumes
  <2>2. /\ live \in Seq(Job) /\ fetched \subseteq Job
        /\ \A n \in 1..Len(live) : live[n] \in Job
    BY DEF TypeOK, StreamType
  <2>3. /\ \A j \in fetched : Fetched(j) \in Task /\ Fetched(j) # t
        /\ \A n \in 1..Len(live) : Live(live[n]) \in Task /\ Live(live[n]) # t
        /\ \A j \in Job : adding[j] # "done" => Live(j) \in Task /\ Live(j) # t
    BY <2>1, <2>2, TaskFacts DEF StreamInv
  <2>4. FetchOver /\ FetchOver'
    BY <2>1 DEF StreamInv, FetchOver
  <2> QED BY <2>1, <2>3, <2>4 DEF StreamInv
<1>8. ASSUME NEW t \in Task, StartJob(t) PROVE StreamInv'
  <2>1. \A u \in Task : pc'[u] = "none" <=> pc[u] = "none"
    BY <1>8 DEF StartJob, BeginAttempt, ReturnFromQueue, TypeOK, TaskType
  <2> QED BY <1>8, <2>1, StreamFrame DEF StartJob, FetchOver
<1>9. ASSUME NEW t \in Task, RunStep(t) PROVE StreamInv'
  <2>1. \A u \in Task : pc'[u] = "none" <=> pc[u] = "none"
    BY <1>9 DEF RunStep, RunSucceeds, RunNeedsRetry, RunFails, BeginAttempt,
                ReturnFromQueue, TypeOK, TaskType
  <2>2. UNCHANGED <<held, fetched, live, stream, adding>>
    BY <1>9 DEF RunStep, RunSucceeds, RunNeedsRetry, RunFails
  <2> QED BY <2>1, <2>2, StreamFrame DEF FetchOver
<1>10. ASSUME NEW t \in Task, AfterRun(t) PROVE StreamInv'
  <2>1. \A u \in Task : pc'[u] = "none" <=> pc[u] = "none"
    BY <1>10 DEF AfterRun, PostDelete, KeepRow, Settle, TypeOK, TaskType
  <2>2. UNCHANGED <<held, fetched, live, stream, adding>>
    BY <1>10 DEF AfterRun, PostDelete, KeepRow, Settle
  <2> QED BY <2>1, <2>2, StreamFrame DEF FetchOver
<1>11. ASSUME NEW t \in Task, EnqueueAgain(t) PROVE StreamInv'
  <2>1. pc[t] # "none" /\ EnqueueStoredJob(t)
    BY <1>11 DEF EnqueueAgain
  <2>2. \A u \in Task : pc'[u] = "none" <=> pc[u] = "none"
    BY <2>1, EnqueueStarts
  <2>3. UNCHANGED <<held, fetched, live, stream, adding>>
    BY <1>11 DEF EnqueueAgain
  <2> QED BY <2>2, <2>3, StreamFrame DEF FetchOver
<1>12. CASE CommitWrite
  <2>1. /\ Head(writes) = writes[1] /\ 1 \in 1..Len(writes)
        /\ writes[1] \in Write
    BY <1>12 DEF CommitWrite, TypeOK, DurableType
  <2>2. \A u \in Task : pc'[u] = "none" <=> pc[u] = "none"
    BY <1>12, <2>1, WriteFacts DEF CommitWrite, WriteInv, TypeOK, TaskType
  <2>3. \A j \in Job : adding[j] = "done" => adding'[j] = "done"
    BY <1>12, <2>1, WriteFacts, TaskFacts DEF CommitWrite, WriteInv, TypeOK, AddType
  <2> QED BY <1>12, <2>2, <2>3, StreamFrame DEF CommitWrite, FetchOver
<1>13. CASE StreamJobs
  BY <1>13, StreamFrame DEF StreamJobs, FetchOver
<1>14. CASE FetchRead
  BY <1>14, TaskFacts DEF FetchRead, StreamInv, FetchOver, TypeOK, DurableType
<1>15. CASE FetchFinished
  BY <1>15, StreamFrame DEF FetchFinished, FetchOver
<1>16. CASE Pause \/ Resume \/ Shutdown \/ ShutdownComplete
            \/ \E k \in Key : QueueIdle(k)
  BY <1>16, StreamFrame DEF Pause, Resume, Shutdown, QueueIdle, ShutdownComplete, FetchOver
<1>17. CASE Restart
  BY <1>17, TaskFacts DEF Restart, StreamInv
<1>18. CASE UNCHANGED vars
  BY <1>18, StreamFrame DEF vars, FetchOver
<1> QED
  BY <1>1, <1>2, <1>3, <1>4, <1>5, <1>6, <1>7, <1>8, <1>9, <1>10, <1>11, <1>12,
     <1>13, <1>14, <1>15, <1>16, <1>17, <1>18 DEF Next, AddStep, StreamStep

-----------------------------------------------------------------------------
(* In-memory queues: what a push, a pop and a move do to QueueInv.         *)

Busy == {"queued", "running"}

\* A task that is not in a queue is appended to one.
LEMMA QueuePush ==
    ASSUME TypeOK, QueueInv, NEW t \in Task, pc[t] \notin Busy,
           pc' = [pc EXCEPT ![t] = "queued"],
           queue' = [queue EXCEPT ![QueueOf[t.job]] = Append(@, t)]
    PROVE  QueueInv'
<1> DEFINE k0 == QueueOf[t.job]
<1>1. /\ pc \in [Task -> {"none", "queued", "running", "ran", "deleting",
                          "deleted", "parked", "over"}]
      /\ queue \in [Key -> Seq(Task)]
      /\ QueueOf \in [Job -> Key]
      /\ k0 \in Key
  BY TaskFacts, JobQueueAssumption DEF TypeOK, TaskType
<1>2. /\ \A u \in Task : pc'[u] = IF u = t THEN "queued" ELSE pc[u]
      /\ \A k \in Key : queue'[k] = IF k = k0 THEN Append(queue[k], t) ELSE queue[k]
  BY <1>1
<1>3. /\ Len(queue'[k0]) = Len(queue[k0]) + 1
      /\ queue'[k0][Len(queue[k0]) + 1] = t
      /\ \A n \in 1..Len(queue[k0]) : queue'[k0][n] = queue[k0][n]
      /\ Len(queue[k0]) \in Nat
  BY <1>1, <1>2
<1>4. \A n \in 1..Len(queue[k0]) : queue[k0][n] # t
  BY <1>1 DEF QueueInv, Busy
<1>5. ASSUME NEW u \in Task, pc'[u] \in Busy PROVE InQueue(u)'
  <2>1. CASE u = t
    <3>1. Len(queue[k0]) + 1 \in 1..Len(queue'[k0])
      BY <1>3
    <3> QED BY <1>3, <2>1, <3>1 DEF InQueue
  <2>2. CASE u # t
    <3>1. PICK n \in 1..Len(queue[QueueOf[u.job]]) : queue[QueueOf[u.job]][n] = u
      BY <1>2, <1>5, <2>2 DEF QueueInv, InQueue, Busy
    <3>2. QueueOf[u.job] \in Key
      BY <1>1, TaskFacts
    <3> QED BY <1>2, <1>3, <3>1, <3>2 DEF InQueue
  <2> QED BY <2>1, <2>2
<1>6. ASSUME NEW k \in Key, NEW n \in 1..Len(queue'[k])
      PROVE  /\ pc'[queue'[k][n]] \in Busy
             /\ QueueOf[queue'[k][n].job] = k
  <2>1. CASE k # k0
    <3>1. queue[k][n] \in Task /\ queue'[k] = queue[k]
      BY <1>1, <1>2, <2>1
    <3> QED BY <1>2, <2>1, <3>1 DEF QueueInv, Busy
  <2>2. CASE k = k0 /\ n = Len(queue[k0]) + 1
    BY <1>2, <1>3, <2>2 DEF Busy
  <2>3. CASE k = k0 /\ n # Len(queue[k0]) + 1
    <3>1. n \in 1..Len(queue[k0])
      BY <1>3, <2>3
    <3>2. queue[k0][n] \in Task /\ queue'[k0][n] = queue[k0][n]
      BY <1>1, <1>3, <3>1
    <3> QED BY <1>2, <2>3, <3>1, <3>2 DEF QueueInv, Busy
  <2> QED BY <2>1, <2>2, <2>3
<1>7. ASSUME NEW k \in Key, NEW m \in 1..Len(queue'[k]), NEW n \in 1..Len(queue'[k]),
             queue'[k][m] = queue'[k][n]
      PROVE  m = n
  <2>1. CASE k # k0
    BY <1>1, <1>2, <1>7, <2>1 DEF QueueInv
  <2>2. CASE k = k0
    BY <1>1, <1>3, <1>4, <1>7, <2>2 DEF QueueInv
  <2> QED BY <2>1, <2>2
<1>8. ASSUME NEW u \in Task, pc'[u] = "running" PROVE queue'[QueueOf[u.job]][1] = u
  <2>1. u # t /\ pc[u] = "running" /\ queue[QueueOf[u.job]][1] = u
    BY <1>2, <1>8 DEF QueueInv
  <2>2. QueueOf[u.job] \in Key /\ 1 \in 1..Len(queue[QueueOf[u.job]])
    BY <1>1, <2>1, TaskFacts DEF QueueInv, InQueue
  <2> QED BY <1>2, <1>3, <2>1, <2>2
<1> QED BY <1>5, <1>6, <1>7, <1>8 DEF QueueInv, Busy

\* The head of a queue leaves it.
LEMMA QueuePop ==
    ASSUME TypeOK, QueueInv, NEW t \in Task, pc[t] \in Busy,
           Head(queue[QueueOf[t.job]]) = t,
           pc' = [pc EXCEPT ![t] = "ran"],
           queue' = [queue EXCEPT ![QueueOf[t.job]] = Tail(@)]
    PROVE  QueueInv'
<1> DEFINE k0 == QueueOf[t.job]
<1>1. /\ pc \in [Task -> {"none", "queued", "running", "ran", "deleting",
                          "deleted", "parked", "over"}]
      /\ queue \in [Key -> Seq(Task)]
      /\ QueueOf \in [Job -> Key]
      /\ k0 \in Key
  BY TaskFacts, JobQueueAssumption DEF TypeOK, TaskType
<1>2. /\ \A u \in Task : pc'[u] = IF u = t THEN "ran" ELSE pc[u]
      /\ \A k \in Key : queue'[k] = IF k = k0 THEN Tail(queue[k]) ELSE queue[k]
  BY <1>1
<1>3. /\ Len(queue[k0]) \in Nat \ {0}
      /\ queue[k0][1] = t
      /\ Len(queue'[k0]) = Len(queue[k0]) - 1
      /\ \A n \in 1..(Len(queue[k0]) - 1) : queue'[k0][n] = queue[k0][n + 1]
  <2>1. queue[k0] \in Seq(Task) /\ queue[k0] # <<>>
    BY <1>1 DEF QueueInv, InQueue, Busy
  <2> QED BY <1>2, <2>1, <1>1
<1>4. \A n \in 1..(Len(queue[k0]) - 1) : queue'[k0][n] \in Task /\ queue'[k0][n] # t
  BY <1>1, <1>3 DEF QueueInv
<1>5. ASSUME NEW u \in Task, pc'[u] \in Busy PROVE InQueue(u)'
  <2>1. u # t
    BY <1>2, <1>5 DEF Busy
  <2>2. PICK n \in 1..Len(queue[QueueOf[u.job]]) : queue[QueueOf[u.job]][n] = u
    BY <1>2, <1>5, <2>1 DEF QueueInv, InQueue, Busy
  <2>3. QueueOf[u.job] \in Key
    BY <1>1, TaskFacts
  <2>4. CASE QueueOf[u.job] # k0
    BY <1>2, <2>2, <2>3, <2>4 DEF InQueue
  <2>5. CASE QueueOf[u.job] = k0
    <3>1. n # 1 /\ n - 1 \in 1..Len(queue'[k0]) /\ queue'[k0][n - 1] = u
      BY <1>3, <2>1, <2>2, <2>5
    <3> QED BY <2>5, <3>1 DEF InQueue
  <2> QED BY <2>4, <2>5
<1>6. ASSUME NEW k \in Key, NEW n \in 1..Len(queue'[k])
      PROVE  /\ pc'[queue'[k][n]] \in Busy
             /\ QueueOf[queue'[k][n].job] = k
  <2>1. CASE k # k0
    <3>1. queue[k][n] \in Task /\ queue'[k] = queue[k] /\ n \in 1..Len(queue[k])
      BY <1>1, <1>2, <2>1
    <3>2. queue[k][n] # t
      BY <2>1, <3>1 DEF QueueInv
    <3> QED BY <1>2, <3>1, <3>2 DEF QueueInv, Busy
  <2>2. CASE k = k0
    <3>1. n + 1 \in 1..Len(queue[k0]) /\ queue'[k0][n] = queue[k0][n + 1]
      BY <1>3, <2>2
    <3>2. queue'[k0][n] \in Task /\ queue'[k0][n] # t
      BY <1>3, <1>4, <2>2
    <3> QED BY <1>2, <2>2, <3>1, <3>2 DEF QueueInv, Busy
  <2> QED BY <2>1, <2>2
<1>7. ASSUME NEW k \in Key, NEW m \in 1..Len(queue'[k]), NEW n \in 1..Len(queue'[k]),
             queue'[k][m] = queue'[k][n]
      PROVE  m = n
  <2>1. CASE k # k0
    BY <1>1, <1>2, <1>7, <2>1 DEF QueueInv
  <2>2. CASE k = k0
    <3>1. /\ m + 1 \in 1..Len(queue[k0]) /\ n + 1 \in 1..Len(queue[k0])
          /\ queue[k0][m + 1] = queue[k0][n + 1]
      BY <1>3, <1>7, <2>2
    <3>2. m + 1 = n + 1
      BY <1>1, <3>1 DEF QueueInv
    <3> QED BY <1>3, <2>2, <3>2
  <2> QED BY <2>1, <2>2
<1>8. ASSUME NEW u \in Task, pc'[u] = "running" PROVE queue'[QueueOf[u.job]][1] = u
  <2>1. u # t /\ pc[u] = "running" /\ queue[QueueOf[u.job]][1] = u
    BY <1>2, <1>8 DEF QueueInv
  <2>2. QueueOf[u.job] \in Key /\ QueueOf[u.job] # k0
    BY <1>1, <1>3, <2>1, TaskFacts
  <2> QED BY <1>2, <2>1, <2>2
<1> QED BY <1>5, <1>6, <1>7, <1>8 DEF QueueInv, Busy

\* A task outside the queues changes its state, or the head of one starts.
LEMMA QueueMove ==
    ASSUME TypeOK, QueueInv, NEW t \in Task, NEW v,
           pc' = [pc EXCEPT ![t] = v], queue' = queue,
           \/ pc[t] \notin Busy /\ v \notin Busy
           \/ pc[t] \in Busy /\ v = "running" /\ Head(queue[QueueOf[t.job]]) = t
    PROVE  QueueInv'
<1>1. /\ pc \in [Task -> {"none", "queued", "running", "ran", "deleting",
                          "deleted", "parked", "over"}]
      /\ queue \in [Key -> Seq(Task)]
      /\ QueueOf[t.job] \in Key
  BY TaskFacts, JobQueueAssumption DEF TypeOK, TaskType
<1>2. \A u \in Task : /\ pc'[u] = IF u = t THEN v ELSE pc[u]
                      /\ pc'[u] \in Busy <=> pc[u] \in Busy
  BY <1>1 DEF Busy
<1>3. \A k \in Key : \A n \in 1..Len(queue[k]) : queue[k][n] \in Task
  BY <1>1
<1>4. ASSUME NEW u \in Task, pc'[u] = "running" PROVE queue[QueueOf[u.job]][1] = u
  <2>1. CASE u # t
    BY <1>2, <1>4, <2>1 DEF QueueInv
  <2>2. CASE u = t
    <3>1. pc[t] \in Busy /\ Head(queue[QueueOf[t.job]]) = t
      BY <1>2, <1>4, <2>2 DEF Busy
    <3>2. queue[QueueOf[t.job]] \in Seq(Task) /\ queue[QueueOf[t.job]] # <<>>
      BY <1>1, <3>1 DEF QueueInv, InQueue, Busy
    <3> QED BY <2>2, <3>1, <3>2
  <2> QED BY <2>1, <2>2
<1> QED BY <1>2, <1>3, <1>4 DEF QueueInv, InQueue, Busy

\* Starting an attempt moves the head of a queue to "running" or pops it.
LEMMA QueueAttempt ==
    ASSUME TypeOK, QueueInv, NEW t \in Task, NEW n, pc[t] \in Busy,
           Head(queue[QueueOf[t.job]]) = t, BeginAttempt(t, n)
    PROVE  QueueInv'
<1>1. CASE shutting
  BY <1>1, QueuePop DEF BeginAttempt, ReturnFromQueue, ReleaseSlot
<1>2. CASE ~shutting
  BY <1>2, QueueMove DEF BeginAttempt
<1> QED BY <1>1, <1>2

\* enqueueStoredJob pushes a task that is in no queue, or finishes it.
LEMMA QueueEnqueue ==
    ASSUME TypeOK, QueueInv, NEW t \in Task, pc[t] \notin Busy, EnqueueStoredJob(t)
    PROVE  QueueInv'
<1>1. CASE t.job \in Unparseable
  BY <1>1, QueueMove DEF EnqueueStoredJob, Busy
<1>2. CASE t.job \notin Unparseable
  BY <1>2, QueuePush DEF EnqueueStoredJob
<1> QED BY <1>1, <1>2

\* The running task is the head of its queue.
LEMMA RunningHead ==
    ASSUME TypeOK, QueueInv, NEW t \in Task, pc[t] = "running"
    PROVE  Head(queue[QueueOf[t.job]]) = t
<1>1. /\ queue[QueueOf[t.job]] \in Seq(Task)
      /\ queue[QueueOf[t.job]][1] = t
      /\ queue[QueueOf[t.job]] # <<>>
  BY TaskFacts, JobQueueAssumption DEF TypeOK, TaskType, QueueInv, InQueue
<1> QED BY <1>1

\* Every step keeps the in-memory queues in order.
LEMMA QueueInvStep ==
    TypeOK /\ StreamInv /\ WriteInv /\ QueueInv /\ [Next]_vars => QueueInv'
<1> SUFFICES ASSUME TypeOK, StreamInv, WriteInv, QueueInv, [Next]_vars
             PROVE  QueueInv'
  OBVIOUS
<1> USE DEF addVars, storeVars, flagVars, taskVars, birthVars
<1>1. ASSUME UNCHANGED <<pc, queue>> PROVE QueueInv'
  BY <1>1 DEF QueueInv, InQueue
<1>2. ASSUME NEW j \in Job, Add(j) \/ AddStep(j) PROVE QueueInv'
  BY <1>1, <1>2 DEF Add, AddStep, FetchAwaited, RowCommitted
<1>3. ASSUME NEW t \in Task, StreamStops(t) \/ StreamHolds(t) PROVE QueueInv'
  BY <1>1, <1>3 DEF StreamStops, StreamHolds
<1>4. ASSUME NEW t \in Task, StreamEnqueues(t) PROVE QueueInv'
  <2>1. pc[t] = "none" /\ EnqueueStoredJob(t)
    BY <1>4, ConsumeFacts DEF StreamEnqueues
  <2> QED BY <2>1, QueueEnqueue DEF Busy
<1>5. ASSUME NEW t \in Task, StreamResumes(t) PROVE QueueInv'
  <2>1. pc[t] = "none" /\ EnqueueStoredJob(t)
    BY <1>5 DEF StreamResumes, StreamInv
  <2> QED BY <2>1, QueueEnqueue DEF Busy
<1>6. ASSUME NEW t \in Task, EnqueueAgain(t) PROVE QueueInv'
  BY <1>6, QueueEnqueue DEF EnqueueAgain, Busy
<1>7. ASSUME NEW t \in Task, StartJob(t) PROVE QueueInv'
  BY <1>7, QueueAttempt DEF StartJob, Busy
<1>8. ASSUME NEW t \in Task, RunStep(t) PROVE QueueInv'
  <2>1. pc[t] = "running" /\ Head(queue[QueueOf[t.job]]) = t
    BY <1>8, RunningHead DEF RunStep, RunSucceeds, RunNeedsRetry, RunFails
  <2>2. ASSUME NEW r, ReturnFromQueue(t, r) PROVE QueueInv'
    BY <2>1, <2>2, QueuePop DEF ReturnFromQueue, ReleaseSlot, Busy
  <2>3. ASSUME NEW n, BeginAttempt(t, n) PROVE QueueInv'
    BY <2>1, <2>3, QueueAttempt DEF Busy
  <2> QED BY <1>8, <2>2, <2>3 DEF RunStep, RunSucceeds, RunNeedsRetry, RunFails
<1>9. ASSUME NEW t \in Task, AfterRun(t) PROVE QueueInv'
  <2>1. PICK v \in {"deleting", "parked", "over"} : pc' = [pc EXCEPT ![t] = v]
    BY <1>9 DEF AfterRun, PostDelete, KeepRow, Settle
  <2>2. pc[t] \notin Busy /\ queue' = queue
    BY <1>9 DEF AfterRun, PostDelete, KeepRow, Settle, Busy
  <2> QED BY <2>1, <2>2, QueueMove DEF Busy
<1>10. CASE CommitWrite
  <2>1. /\ Head(writes) = writes[1] /\ 1 \in 1..Len(writes)
        /\ writes[1] \in Write
    BY <1>10 DEF CommitWrite, TypeOK, DurableType
  <2>2. CASE Head(writes).op = "insert"
    BY <1>1, <1>10, <2>2 DEF CommitWrite
  <2>3. CASE Head(writes).op = "delete"
    <3>1. writes[1].task \in Task /\ pc[writes[1].task] = "deleting"
      BY <2>1, <2>3, WriteFacts DEF WriteInv
    <3>2. pc' = [pc EXCEPT ![writes[1].task] = "deleted"] /\ queue' = queue
      BY <1>10, <2>1, <2>3 DEF CommitWrite
    <3> QED BY <3>1, <3>2, QueueMove DEF Busy
  <2> QED BY <2>1, <2>2, <2>3, WriteFacts
<1>11. CASE StreamJobs \/ FetchRead \/ FetchFinished
  BY <1>1, <1>11 DEF StreamJobs, FetchRead, FetchFinished
<1>12. CASE Pause \/ Resume \/ Shutdown \/ ShutdownComplete
            \/ \E k \in Key : QueueIdle(k)
  BY <1>1, <1>12 DEF Pause, Resume, Shutdown, QueueIdle, ShutdownComplete
<1>13. CASE Restart
  BY <1>13, TaskFacts, JobQueueAssumption DEF Restart, QueueInv, InQueue
<1>14. CASE UNCHANGED vars
  BY <1>1, <1>14 DEF vars
<1> QED
  BY <1>2, <1>3, <1>4, <1>5, <1>6, <1>7, <1>8, <1>9, <1>10, <1>11, <1>12, <1>13,
     <1>14 DEF Next, StreamStep

-----------------------------------------------------------------------------
(* Writes in flight.                                                       *)

\* Steps that post nothing, and do not disturb those who wait for a write.
LEMMA WriteFrame ==
    ASSUME TypeOK, WriteInv, writes' = writes,
           \A j \in Job : adding[j] = "insert" => adding'[j] = "insert",
           \A u \in Task : pc[u] = "deleting" => pc'[u] = "deleting"
    PROVE  WriteInv'
<1>1. \A n \in 1..Len(writes) : writes[n] \in Write
  BY DEF TypeOK, DurableType
<1> QED BY <1>1, WriteFacts, TaskFacts DEF WriteInv

\* A write is posted by someone who was not waiting for one.
LEMMA WritePost ==
    ASSUME TypeOK, WriteInv, NEW w \in Write, writes' = Append(writes, w),
           \A n \in 1..Len(writes) : writes[n] # w,
           \A j \in Job : adding[j] = "insert" => adding'[j] = "insert",
           \A u \in Task : pc[u] = "deleting" => pc'[u] = "deleting",
           w.op = "insert" => /\ w = InsertOf(w.task.job)
                              /\ adding'[w.task.job] = "insert",
           w.op = "delete" => pc'[w.task] = "deleting"
    PROVE  WriteInv'
<1>1. /\ \A n \in 1..Len(writes) : writes[n] \in Write /\ writes'[n] = writes[n]
      /\ Len(writes) \in Nat /\ Len(writes') = Len(writes) + 1
      /\ writes'[Len(writes) + 1] = w
  BY AppendProperties DEF TypeOK, DurableType
<1>2. \A n \in 1..Len(writes') : n \in 1..Len(writes) \/ n = Len(writes) + 1
  BY <1>1
<1>3. ASSUME NEW n \in 1..Len(writes')
      PROVE  /\ writes'[n].op = "insert" =>
                   /\ writes'[n] = InsertOf(writes'[n].task.job)
                   /\ adding'[writes'[n].task.job] = "insert"
             /\ writes'[n].op = "delete" => pc'[writes'[n].task] = "deleting"
  <2>1. CASE n \in 1..Len(writes)
    <3>1. writes'[n] = writes[n] /\ writes[n].task \in Task /\ writes[n].task.job \in Job
      BY <1>1, <2>1, WriteFacts, TaskFacts
    <3> QED BY <2>1, <3>1 DEF WriteInv
  <2>2. CASE n = Len(writes) + 1
    BY <1>1, <2>2
  <2> QED BY <1>2, <2>1, <2>2
<1>4. \A m, n \in 1..Len(writes') : writes'[m] = writes'[n] => m = n
  BY <1>1, <1>2 DEF WriteInv
<1> QED BY <1>3, <1>4 DEF WriteInv

\* The write of an adder that is not at "insert" is not in flight, nor is the
\* delete of a task that is not at "deleting".
LEMMA NotPosted ==
    ASSUME TypeOK, WriteInv
    PROVE  /\ \A j \in Job : adding[j] # "insert" =>
                \A n \in 1..Len(writes) : writes[n] # InsertOf(j)
           /\ \A t \in Task : pc[t] # "deleting" =>
                \A n \in 1..Len(writes) : writes[n] # DeleteOf(t)
  BY WriteFacts DEF WriteInv

\* enqueueStoredJob posts at most the delete of its own task.
LEMMA WriteEnqueue ==
    ASSUME TypeOK, WriteInv, NEW t \in Task, pc[t] # "deleting",
           EnqueueStoredJob(t), adding' = adding
    PROVE  WriteInv'
<1>1. CASE t.job \in Unparseable
  <2>1. /\ writes' = Append(writes, DeleteOf(t)) /\ pc'[t] = "deleting"
        /\ \A u \in Task : u # t => pc'[u] = pc[u]
    BY <1>1 DEF EnqueueStoredJob, TypeOK, TaskType
  <2> QED BY <2>1, WritePost, NotPosted, WriteFacts
<1>2. CASE t.job \notin Unparseable
  <2>1. writes' = writes /\ \A u \in Task : u # t => pc'[u] = pc[u]
    BY <1>2 DEF EnqueueStoredJob, TypeOK, TaskType
  <2> QED BY <2>1, WriteFrame
<1> QED BY <1>1, <1>2

\* Every step keeps the writes in flight and those who wait for them in step.
LEMMA WriteInvStep == TypeOK /\ StreamInv /\ WriteInv /\ [Next]_vars => WriteInv'
<1> SUFFICES ASSUME TypeOK, StreamInv, WriteInv, [Next]_vars PROVE WriteInv'
  OBVIOUS
<1> USE DEF addVars, storeVars, flagVars, taskVars, birthVars
<1>1. ASSUME UNCHANGED <<writes, adding, pc>> PROVE WriteInv'
  BY <1>1, WriteFrame
<1>2. ASSUME NEW j \in Job, adding[j] # "insert",
             writes' = Append(writes, InsertOf(j)),
             adding' = [adding EXCEPT ![j] = "insert"], pc' = pc
      PROVE  WriteInv'
  <2>1. \A i \in Job : adding'[i] = IF i = j THEN "insert" ELSE adding[i]
    BY <1>2 DEF TypeOK, AddType
  <2> QED BY <1>2, <2>1, WritePost, NotPosted, WriteFacts
<1>3. ASSUME NEW j \in Job, NEW v, adding[j] # "insert", writes' = writes,
             adding' = [adding EXCEPT ![j] = v], pc' = pc
      PROVE  WriteInv'
  <2>1. \A i \in Job : i # j => adding'[i] = adding[i]
    BY <1>3 DEF TypeOK, AddType
  <2> QED BY <1>3, <2>1, WriteFrame
<1>4. ASSUME NEW j \in Job, Add(j) PROVE WriteInv'
  BY <1>2, <1>3, <1>4 DEF Add
<1>5. ASSUME NEW j \in Job, AddStep(j) PROVE WriteInv'
  <2>1. CASE FetchAwaited(j)
    BY <1>2, <1>3, <2>1 DEF FetchAwaited
  <2>2. CASE RowCommitted(j)
    BY <1>3, <2>2 DEF RowCommitted
  <2> QED BY <1>5, <2>1, <2>2 DEF AddStep
<1>6. ASSUME NEW t \in Task, StreamStops(t) \/ StreamHolds(t) PROVE WriteInv'
  BY <1>1, <1>6 DEF StreamStops, StreamHolds
<1>7. ASSUME NEW t \in Task, StreamEnqueues(t) PROVE WriteInv'
  <2>1. pc[t] = "none" /\ EnqueueStoredJob(t) /\ adding' = adding
    BY <1>7, ConsumeFacts DEF StreamEnqueues
  <2> QED BY <2>1, WriteEnqueue
<1>8. ASSUME NEW t \in Task, StreamResumes(t) PROVE WriteInv'
  <2>1. pc[t] = "none" /\ EnqueueStoredJob(t) /\ adding' = adding
    BY <1>8 DEF StreamResumes, StreamInv
  <2> QED BY <2>1, WriteEnqueue
<1>9. ASSUME NEW t \in Task, EnqueueAgain(t) PROVE WriteInv'
  BY <1>9, WriteEnqueue DEF EnqueueAgain
<1>10. ASSUME NEW t \in Task, StartJob(t) \/ RunStep(t) PROVE WriteInv'
  <2>1. \A u \in Task : pc[u] = "deleting" => pc'[u] = "deleting"
    BY <1>10 DEF StartJob, RunStep, RunSucceeds, RunNeedsRetry, RunFails,
                 BeginAttempt, ReturnFromQueue, TypeOK, TaskType
  <2>2. UNCHANGED <<writes, adding>>
    BY <1>10 DEF StartJob, RunStep, RunSucceeds, RunNeedsRetry, RunFails
  <2> QED BY <2>1, <2>2, WriteFrame
<1>11. ASSUME NEW t \in Task, PostDelete(t) PROVE WriteInv'
  <2>1. /\ writes' = Append(writes, DeleteOf(t)) /\ pc'[t] = "deleting"
        /\ \A u \in Task : u # t => pc'[u] = pc[u]
        /\ pc[t] # "deleting" /\ adding' = adding
    BY <1>11 DEF PostDelete, TypeOK, TaskType
  <2> QED BY <2>1, WritePost, NotPosted, WriteFacts
<1>12. ASSUME NEW t \in Task, KeepRow(t) \/ Settle(t) PROVE WriteInv'
  <2>1. \A u \in Task : pc[u] = "deleting" => pc'[u] = "deleting"
    BY <1>12 DEF KeepRow, Settle, TypeOK, TaskType
  <2>2. UNCHANGED <<writes, adding>>
    BY <1>12 DEF KeepRow, Settle
  <2> QED BY <2>1, <2>2, WriteFrame
<1>13. CASE CommitWrite
  <2> DEFINE w == writes[1]
  <2>1. /\ Head(writes) = w /\ 1 \in 1..Len(writes) /\ w \in Write
        /\ Len(writes') = Len(writes) - 1 /\ Len(writes) \in Nat
        /\ \A n \in 1..Len(writes') : writes'[n] = writes[n + 1]
        /\ \A n \in 1..Len(writes) : writes[n] \in Write
    BY <1>13, HeadTailProperties DEF CommitWrite, TypeOK, DurableType
  <2>2. \A n \in 1..Len(writes') : n + 1 \in 1..Len(writes) /\ n + 1 # 1
    BY <2>1
  <2>3. ASSUME NEW n \in 1..Len(writes')
        PROVE  /\ writes'[n].op = "insert" =>
                     /\ writes'[n] = InsertOf(writes'[n].task.job)
                     /\ adding'[writes'[n].task.job] = "insert"
               /\ writes'[n].op = "delete" => pc'[writes'[n].task] = "deleting"
    <3> DEFINE x == writes[n + 1]
    <3>1. writes'[n] = x /\ x \in Write /\ x # w
      BY <2>1, <2>2 DEF WriteInv
    <3>2. x.task \in Task /\ x.task.job \in Job /\ w.task \in Task /\ w.task.job \in Job
      BY <2>1, <3>1, WriteFacts, TaskFacts
    <3>3. CASE x.op = "insert"
      <4>1. x = InsertOf(x.task.job) /\ adding[x.task.job] = "insert"
        BY <2>2, <3>3 DEF WriteInv
      <4>2. w.op = "insert" => w = InsertOf(w.task.job)
        BY <2>1 DEF WriteInv
      <4>3. adding'[x.task.job] = "insert"
        BY <1>13, <2>1, <3>1, <3>2, <4>1, <4>2 DEF CommitWrite, TypeOK, AddType
      <4> QED BY <3>1, <3>3, <4>1, <4>3
    <3>4. CASE x.op = "delete"
      <4>1. pc[x.task] = "deleting"
        BY <2>2, <3>4 DEF WriteInv
      <4>2. w.op = "delete" => w.task # x.task
        BY <2>1, <3>1, <3>4 DEF Write
      <4>3. pc'[x.task] = "deleting"
        BY <1>13, <2>1, <3>2, <4>1, <4>2 DEF CommitWrite, TypeOK, TaskType
      <4> QED BY <3>1, <3>4, <4>3
    <3> QED BY <3>1, <3>3, <3>4, WriteFacts
  <2>4. \A m, n \in 1..Len(writes') : writes'[m] = writes'[n] => m = n
    BY <2>1, <2>2 DEF WriteInv
  <2> QED BY <2>3, <2>4 DEF WriteInv
<1>14. CASE StreamJobs \/ FetchRead \/ FetchFinished
  BY <1>1, <1>14 DEF StreamJobs, FetchRead, FetchFinished
<1>15. CASE Pause \/ Resume \/ Shutdown \/ ShutdownComplete
            \/ \E k \in Key : QueueIdle(k)
  BY <1>1, <1>15 DEF Pause, Resume, Shutdown, QueueIdle, ShutdownComplete
<1>16. CASE Restart
  BY <1>16 DEF Restart, WriteInv
<1>17. CASE UNCHANGED vars
  BY <1>1, <1>17 DEF vars
<1> QED
  BY <1>4, <1>5, <1>6, <1>7, <1>8, <1>9, <1>10, <1>11, <1>12, <1>13, <1>14,
     <1>15, <1>16, <1>17 DEF Next, StreamStep, AfterRun

-----------------------------------------------------------------------------
(* Rows.                                                                   *)

\* Steps that write no row and start no task.
LEMMA StoredFrame ==
    ASSUME TypeOK, StoredInv, UNCHANGED <<db, stored, adding, live>>,
           fetched' \subseteq fetched, held' = held, begun' = begun,
           \A u \in Task : pc'[u] # "none" => pc[u] # "none"
    PROVE  StoredInv'
  BY DEF StoredInv

\* A job in the stream has a row, or had one.
LEMMA NextIsStored ==
    ASSUME TypeOK, StoredInv, NEW t \in Task, IsNext(t)
    PROVE  t.job \in stored
  BY HeadTailProperties DEF IsNext, StoredInv, TypeOK, StreamType

\* Taking an item out of the stream leaves stored jobs in it.
LEMMA ConsumeStored ==
    ASSUME TypeOK, StreamInv, StoredInv, NEW t \in Task, IsNext(t), Consume(t)
    PROVE  /\ fetched' \subseteq stored
           /\ \A n \in 1..Len(live') : live'[n] \in stored
<1>1. \A n \in 1..Len(live') : \E m \in 1..Len(live) : live'[n] = live[m]
  BY ConsumeFacts
<1>2. fetched' \subseteq fetched
  BY ConsumeFacts
<1> QED BY <1>1, <1>2 DEF StoredInv

\* An adder appends its stored job to the live queue.
LEMMA AppendStored ==
    ASSUME TypeOK, StoredInv, NEW j \in Job, j \in stored, live' = Append(live, j)
    PROVE  \A n \in 1..Len(live') : live'[n] \in stored
<1>1. /\ Len(live) \in Nat /\ Len(live') = Len(live) + 1
      /\ live'[Len(live) + 1] = j
      /\ \A n \in 1..Len(live) : live'[n] = live[n]
  BY AppendProperties DEF TypeOK, StreamType
<1>2. \A n \in 1..Len(live') : n \in 1..Len(live) \/ n = Len(live) + 1
  BY <1>1
<1> QED BY <1>1, <1>2 DEF StoredInv

\* Every step writes rows of new jobs only, and feeds the stream from rows.
LEMMA StoredInvStep ==
    TypeOK /\ StreamInv /\ WriteInv /\ StoredInv /\ [Next]_vars => StoredInv'
<1> SUFFICES ASSUME TypeOK, StreamInv, WriteInv, StoredInv, [Next]_vars
             PROVE  StoredInv'
  OBVIOUS
<1> USE DEF addVars, storeVars, flagVars, taskVars, birthVars
<1>1. ASSUME NEW j \in Job, Add(j) PROVE StoredInv'
  <2>1. \A i \in Job : i # j => adding'[i] = adding[i]
    BY <1>1 DEF Add, TypeOK, AddType
  <2>2. /\ adding'[j] \in {"wait", "insert"} /\ j \notin stored
        /\ adding'[j] = "wait" => j \notin Overridden
    BY <1>1 DEF Add, TypeOK, AddType, StoredInv
  <2>3. UNCHANGED <<db, stored, fetched, live, held, pc, begun>>
    BY <1>1 DEF Add
  <2> QED BY <2>1, <2>2, <2>3 DEF StoredInv
<1>2. ASSUME NEW j \in Job, FetchAwaited(j) PROVE StoredInv'
  <2>1. \A i \in Job : i # j => adding'[i] = adding[i]
    BY <1>2 DEF FetchAwaited, TypeOK, AddType
  <2>2. UNCHANGED <<db, stored, fetched, held, pc, begun>>
    BY <1>2 DEF FetchAwaited
  <2>3. CASE j \notin Overridden
    <3>1. adding'[j] = "insert" /\ j \notin stored /\ live' = live
      BY <1>2, <2>3 DEF FetchAwaited, TypeOK, AddType, StoredInv
    <3> QED BY <2>1, <2>2, <3>1 DEF StoredInv
  <2>4. CASE j \in Overridden
    <3>1. /\ adding'[j] = "done" /\ j \in stored
          /\ live' = live \/ live' = Append(live, j)
      BY <1>2, <2>4 DEF FetchAwaited, LiveAdd, TypeOK, AddType, StoredInv
    <3> QED BY <2>1, <2>2, <3>1, AppendStored DEF StoredInv
  <2> QED BY <2>3, <2>4
<1>3. ASSUME NEW j \in Job, RowCommitted(j) PROVE StoredInv'
  <2>1. \A i \in Job : i # j => adding'[i] = adding[i]
    BY <1>3 DEF RowCommitted, TypeOK, AddType
  <2>2. UNCHANGED <<db, stored, fetched, held, pc, begun>> /\ j \in stored
    BY <1>3 DEF RowCommitted, StoredInv
  <2>3. /\ adding'[j] \in {"wait", "done"}
        /\ adding'[j] = "wait" => j \in Overridden
    BY <1>3 DEF RowCommitted, TypeOK, AddType
  <2>4. \A n \in 1..Len(live') : live'[n] \in stored
    <3>1. live' = live \/ live' = Append(live, j)
      BY <1>3 DEF RowCommitted, LiveAdd
    <3> QED BY <2>2, <3>1, AppendStored DEF StoredInv
  <2> QED BY <2>1, <2>2, <2>3, <2>4 DEF StoredInv
<1>4. ASSUME NEW t \in Task, StreamStops(t) PROVE StoredInv'
  <2>1. /\ fetched' \subseteq stored
        /\ \A n \in 1..Len(live') : live'[n] \in stored
    BY <1>4, ConsumeStored DEF StreamStops
  <2> QED BY <1>4, <2>1 DEF StreamStops, StoredInv
<1>5. ASSUME NEW t \in Task, StreamHolds(t) PROVE StoredInv'
  <2>1. /\ fetched' \subseteq stored /\ t.job \in stored
        /\ \A n \in 1..Len(live') : live'[n] \in stored
    BY <1>5, ConsumeStored, NextIsStored DEF StreamHolds
  <2> QED BY <1>5, <2>1 DEF StreamHolds, StoredInv
<1>6. ASSUME NEW t \in Task, StreamEnqueues(t) PROVE StoredInv'
  <2>1. /\ fetched' \subseteq stored /\ t.job \in stored
        /\ \A n \in 1..Len(live') : live'[n] \in stored
    BY <1>6, ConsumeStored, NextIsStored DEF StreamEnqueues
  <2>2. \A u \in Task : u # t => pc'[u] = pc[u]
    BY <1>6, EnqueueStarts DEF StreamEnqueues
  <2>3. UNCHANGED <<db, stored, adding, held, begun>>
    BY <1>6 DEF StreamEnqueues
  <2> QED BY <2>1, <2>2, <2>3 DEF StoredInv
<1>7. ASSUME NEW t \in Task, StreamResumes(t) PROVE StoredInv'
  <2>1. t.job \in stored /\ held' = {}
    BY <1>7 DEF StreamResumes, StoredInv
  <2>2. \A u \in Task : u # t => pc'[u] = pc[u]
    BY <1>7, EnqueueStarts DEF StreamResumes
  <2>3. UNCHANGED <<db, stored, adding, fetched, live, begun>>
    BY <1>7 DEF StreamResumes
  <2> QED BY <2>1, <2>2, <2>3 DEF StoredInv
<1>8. ASSUME NEW t \in Task, EnqueueAgain(t) PROVE StoredInv'
  <2>1. pc[t] # "none" /\ \A u \in Task : u # t => pc'[u] = pc[u]
    BY <1>8, EnqueueStarts DEF EnqueueAgain
  <2> QED BY <1>8, <2>1, StoredFrame DEF EnqueueAgain
<1>9. ASSUME NEW t \in Task, StartJob(t) \/ RunStep(t) PROVE StoredInv'
  <2>1. t.job \in stored /\ UNCHANGED <<db, stored, adding, fetched, live, held>>
    BY <1>9 DEF StartJob, RunStep, RunSucceeds, RunNeedsRetry, RunFails, StoredInv
  <2>2. \A u \in Task : u # t => pc'[u] = pc[u]
    BY <1>9 DEF StartJob, RunStep, RunSucceeds, RunNeedsRetry, RunFails,
                BeginAttempt, ReturnFromQueue, TypeOK, TaskType
  <2>3. begun' \subseteq begun \cup {t.job}
    BY <1>9 DEF StartJob, RunStep, RunSucceeds, RunNeedsRetry, RunFails, BeginAttempt
  <2> QED BY <2>1, <2>2, <2>3 DEF StoredInv
<1>10. ASSUME NEW t \in Task, AfterRun(t) PROVE StoredInv'
  <2>1. \A u \in Task : pc'[u] # "none" => pc[u] # "none"
    BY <1>10 DEF AfterRun, PostDelete, KeepRow, Settle, TypeOK, TaskType
  <2>2. UNCHANGED <<db, stored, adding, live, fetched, held, begun>>
    BY <1>10 DEF AfterRun, PostDelete, KeepRow, Settle
  <2> QED BY <2>1, <2>2, StoredFrame
<1>11. CASE CommitWrite
  <2> DEFINE w == writes[1]
  <2>1. Head(writes) = w /\ 1 \in 1..Len(writes) /\ w \in Write
    BY <1>11 DEF CommitWrite, TypeOK, DurableType
  <2>2. w.task \in Task /\ w.task.job \in Job
    BY <2>1, WriteFacts, TaskFacts
  <2>3. UNCHANGED <<fetched, live, held, begun>>
    BY <1>11 DEF CommitWrite
  <2>4. CASE w.op = "insert"
    <3>1. /\ db' = db \cup {w.task.job} /\ stored' = stored \cup {w.task.job}
          /\ adding' = [adding EXCEPT ![w.task.job] = "stored"] /\ pc' = pc
      BY <1>11, <2>1, <2>4 DEF CommitWrite
    <3>2. /\ adding'[w.task.job] = "stored"
          /\ \A i \in Job : i # w.task.job => adding'[i] = adding[i]
      BY <2>2, <3>1 DEF TypeOK, AddType
    <3> QED BY <2>2, <2>3, <3>1, <3>2 DEF StoredInv
  <2>5. CASE w.op = "delete"
    <3>1. /\ db' = db \ {w.task.job} /\ UNCHANGED <<stored, adding>>
          /\ pc' = [pc EXCEPT ![w.task] = "deleted"]
      BY <1>11, <2>1, <2>5 DEF CommitWrite
    <3>2. \A u \in Task : pc'[u] # "none" => pc[u] # "none"
      BY <2>1, <2>2, <2>5, <3>1 DEF WriteInv, TypeOK, TaskType
    <3> QED BY <2>3, <3>1, <3>2 DEF StoredInv
  <2> QED BY <2>1, <2>4, <2>5, WriteFacts
<1>12. CASE StreamJobs \/ FetchFinished
  BY <1>12, StoredFrame DEF StreamJobs, FetchFinished
<1>13. CASE FetchRead
  BY <1>13 DEF FetchRead, StoredInv
<1>14. CASE Pause \/ Resume \/ Shutdown \/ ShutdownComplete
            \/ \E k \in Key : QueueIdle(k)
  BY <1>14, StoredFrame DEF Pause, Resume, Shutdown, QueueIdle, ShutdownComplete
<1>15. CASE Restart
  BY <1>15 DEF Restart, StoredInv
<1>16. CASE UNCHANGED vars
  BY <1>16, StoredFrame DEF vars
<1> QED
  BY <1>1, <1>2, <1>3, <1>4, <1>5, <1>6, <1>7, <1>8, <1>9, <1>10, <1>11, <1>12,
     <1>13, <1>14, <1>15, <1>16 DEF Next, AddStep, StreamStep

-----------------------------------------------------------------------------
(* Conclusions.                                                            *)

\* A conclusion is never taken back, and only a job that is stored gets one.
LEMMA OutcomeStep ==
    ASSUME TypeOK, StreamInv, StoredInv, [Next]_vars
    PROVE  \A j \in Job : /\ outcome[j] # "none" => outcome'[j] # "none"
                          /\ outcome'[j] # outcome[j] => j \in stored
<1> USE DEF addVars, storeVars, flagVars, taskVars, birthVars
<1>1. ASSUME outcome' = outcome
      PROVE  \A j \in Job : /\ outcome[j] # "none" => outcome'[j] # "none"
                            /\ outcome'[j] # outcome[j] => j \in stored
  BY <1>1
<1>2. ASSUME NEW t \in Task, t.job \in stored, NEW v \in Outcome \ {"none"},
             outcome' = [outcome EXCEPT ![t.job] = v]
      PROVE  \A j \in Job : /\ outcome[j] # "none" => outcome'[j] # "none"
                            /\ outcome'[j] # outcome[j] => j \in stored
  BY <1>2 DEF TypeOK, DurableType
<1>3. \A t \in Task : EnqueueStoredJob(t) =>
         outcome' = outcome \/ outcome' = [outcome EXCEPT ![t.job] = "unparsed"]
  BY DEF EnqueueStoredJob
<1>4. \A t \in Task : StreamEnqueues(t) \/ StreamResumes(t) \/ EnqueueAgain(t) =>
         t.job \in stored /\ EnqueueStoredJob(t)
  BY NextIsStored DEF StreamEnqueues, StreamResumes, EnqueueAgain, StoredInv
<1>5. ASSUME NEW t \in Task, StreamStep(t) \/ EnqueueAgain(t)
      PROVE  \A j \in Job : /\ outcome[j] # "none" => outcome'[j] # "none"
                            /\ outcome'[j] # outcome[j] => j \in stored
  <2>1. CASE StreamStops(t) \/ StreamHolds(t)
    BY <1>1, <2>1 DEF StreamStops, StreamHolds
  <2>2. CASE StreamEnqueues(t) \/ StreamResumes(t) \/ EnqueueAgain(t)
    BY <1>1, <1>2, <1>3, <1>4, <2>2 DEF Outcome
  <2> QED BY <1>5, <2>1, <2>2 DEF StreamStep
<1>6. ASSUME NEW t \in Task, StartJob(t) \/ RunStep(t) \/ AfterRun(t)
      PROVE  \A j \in Job : /\ outcome[j] # "none" => outcome'[j] # "none"
                            /\ outcome'[j] # outcome[j] => j \in stored
  <2>1. t.job \in stored
    BY <1>6 DEF StartJob, RunStep, RunSucceeds, RunNeedsRetry, RunFails,
                AfterRun, PostDelete, KeepRow, Settle, StoredInv
  <2>2. \/ outcome' = outcome
        \/ \E v \in {"success", "exhausted", "dropped"} :
             outcome' = [outcome EXCEPT ![t.job] = v]
    BY <1>6 DEF StartJob, RunStep, RunSucceeds, RunNeedsRetry, RunFails,
                AfterRun, PostDelete, KeepRow, Settle
  <2> QED BY <1>1, <1>2, <2>1, <2>2 DEF Outcome
<1>7. CASE \E j \in Job : Add(j) \/ AddStep(j)
  BY <1>1, <1>7 DEF Add, AddStep, FetchAwaited, RowCommitted
<1>8. CASE CommitWrite \/ StreamJobs \/ FetchRead \/ FetchFinished
  BY <1>1, <1>8 DEF CommitWrite, StreamJobs, FetchRead, FetchFinished
<1>9. CASE Pause \/ Resume \/ Shutdown \/ ShutdownComplete \/ Restart
            \/ \E k \in Key : QueueIdle(k)
  BY <1>1, <1>9 DEF Pause, Resume, Shutdown, QueueIdle, ShutdownComplete, Restart
<1>10. CASE UNCHANGED vars
  BY <1>1, <1>10 DEF vars
<1> QED BY <1>5, <1>6, <1>7, <1>8, <1>9, <1>10 DEF Next

\* Steps that post no delete and return from no queue.
LEMMA ConcludedFrame ==
    ASSUME TypeOK, ConcludedInv,
           \A j \in Job : outcome[j] # "none" => outcome'[j] # "none",
           \A n \in 1..Len(writes') :
               \/ \E m \in 1..Len(writes) : writes'[n] = writes[m]
               \/ writes'[n].op = "delete" => outcome'[writes'[n].task.job] # "none",
           shutting => shutting',
           \A u \in Task : pc'[u] = "ran" => pc[u] = "ran" /\ result'[u] = result[u]
    PROVE  ConcludedInv'
<1>1. \A n \in 1..Len(writes) : writes[n].task.job \in Job
  BY WriteFacts, TaskFacts DEF TypeOK, DurableType
<1> QED BY <1>1, TaskFacts DEF ConcludedInv

\* Appending a write adds that write and no other.
LEMMA AppendWrite ==
    ASSUME TypeOK, NEW w \in Write, writes' = Append(writes, w)
    PROVE  \A n \in 1..Len(writes') :
               (\E m \in 1..Len(writes) : writes'[n] = writes[m]) \/ writes'[n] = w
<1>1. /\ Len(writes) \in Nat /\ Len(writes') = Len(writes) + 1
      /\ writes'[Len(writes) + 1] = w
      /\ \A n \in 1..Len(writes) : writes'[n] = writes[n]
  BY AppendProperties DEF TypeOK, DurableType
<1>2. \A n \in 1..Len(writes') : n \in 1..Len(writes) \/ n = Len(writes) + 1
  BY <1>1
<1> QED BY <1>1, <1>2

\* Every step posts deletes of concluded jobs only.
LEMMA ConcludedStep ==
    TypeOK /\ StreamInv /\ StoredInv /\ ConcludedInv /\ [Next]_vars => ConcludedInv'
<1> SUFFICES ASSUME TypeOK, StreamInv, StoredInv, ConcludedInv, [Next]_vars
             PROVE  ConcludedInv'
  OBVIOUS
<1> USE DEF addVars, storeVars, flagVars, taskVars, birthVars
<1>1. \A j \in Job : outcome[j] # "none" => outcome'[j] # "none"
  BY OutcomeStep
<1>2. ASSUME writes' = writes, shutting => shutting', UNCHANGED <<pc, result>>
      PROVE  ConcludedInv'
  BY <1>1, <1>2, ConcludedFrame
<1>3. ASSUME NEW j \in Job, writes' = Append(writes, InsertOf(j)),
             UNCHANGED <<pc, result, shutting>>
      PROVE  ConcludedInv'
  BY <1>1, <1>3, AppendWrite, WriteFacts, ConcludedFrame
<1>4. ASSUME NEW t \in Task, writes' = Append(writes, DeleteOf(t)),
             outcome'[t.job] # "none", shutting' = shutting, pc'[t] # "ran",
             \A u \in Task : u # t => pc'[u] = pc[u] /\ result'[u] = result[u]
      PROVE  ConcludedInv'
  BY <1>1, <1>4, AppendWrite, WriteFacts, ConcludedFrame
<1>5. ASSUME NEW t \in Task, writes' = writes, shutting' = shutting, pc'[t] # "ran",
             \A u \in Task : u # t => pc'[u] = pc[u] /\ result'[u] = result[u]
      PROVE  ConcludedInv'
  BY <1>1, <1>5, ConcludedFrame
<1>6. ASSUME NEW t \in Task, NEW r, ReturnFromQueue(t, r), writes' = writes,
             shutting' = shutting,
             r = "success" => outcome'[t.job] # "none",
             r = "error" => outcome'[t.job] # "none" \/ shutting
      PROVE  ConcludedInv'
  <2>1. /\ \A u \in Task : u # t => pc'[u] = pc[u] /\ result'[u] = result[u]
        /\ result'[t] = r
    BY <1>6 DEF ReturnFromQueue, TypeOK, TaskType
  <2>2. \A n \in 1..Len(writes) : writes[n].task.job \in Job
    BY WriteFacts, TaskFacts DEF TypeOK, DurableType
  <2> QED BY <1>1, <1>6, <2>1, <2>2, TaskFacts DEF ConcludedInv
<1>7. ASSUME NEW t \in Task, EnqueueStoredJob(t), shutting' = shutting
      PROVE  ConcludedInv'
  <2>1. CASE t.job \in Unparseable
    <3>1. outcome'[t.job] # "none"
      BY <1>7, <2>1, TaskFacts DEF EnqueueStoredJob, TypeOK, DurableType
    <3>2. /\ writes' = Append(writes, DeleteOf(t)) /\ pc'[t] # "ran"
          /\ \A u \in Task : u # t => pc'[u] = pc[u] /\ result'[u] = result[u]
      BY <1>7, <2>1 DEF EnqueueStoredJob, TypeOK, TaskType
    <3> QED BY <1>4, <1>7, <3>1, <3>2
  <2>2. CASE t.job \notin Unparseable
    <3>1. /\ writes' = writes /\ pc'[t] # "ran"
          /\ \A u \in Task : u # t => pc'[u] = pc[u] /\ result'[u] = result[u]
      BY <1>7, <2>2 DEF EnqueueStoredJob, TypeOK, TaskType
    <3> QED BY <1>5, <1>7, <3>1
  <2> QED BY <2>1, <2>2
<1>8. ASSUME NEW t \in Task, NEW n, BeginAttempt(t, n), writes' = writes,
             shutting' = shutting
      PROVE  ConcludedInv'
  <2>1. CASE shutting
    BY <1>6, <1>8, <2>1 DEF BeginAttempt
  <2>2. CASE ~shutting
    <3>1. /\ pc'[t] # "ran"
          /\ \A u \in Task : u # t => pc'[u] = pc[u] /\ result'[u] = result[u]
      BY <1>8, <2>2 DEF BeginAttempt, TypeOK, TaskType
    <3> QED BY <1>5, <1>8, <3>1
  <2> QED BY <2>1, <2>2
<1>9. ASSUME NEW j \in Job, Add(j) \/ AddStep(j) PROVE ConcludedInv'
  BY <1>2, <1>3, <1>9 DEF Add, AddStep, FetchAwaited, RowCommitted
<1>10. ASSUME NEW t \in Task, StreamStep(t) \/ EnqueueAgain(t) PROVE ConcludedInv'
  BY <1>2, <1>7, <1>10
  DEF StreamStep, StreamStops, StreamHolds, StreamEnqueues, StreamResumes, EnqueueAgain
<1>11. ASSUME NEW t \in Task, StartJob(t) PROVE ConcludedInv'
  BY <1>8, <1>11 DEF StartJob
<1>12. ASSUME NEW t \in Task, RunSucceeds(t) PROVE ConcludedInv'
  <2>1. outcome'[t.job] # "none"
    BY <1>12, TaskFacts DEF RunSucceeds, TypeOK, DurableType
  <2> QED BY <1>6, <1>12, <2>1 DEF RunSucceeds
<1>13. ASSUME NEW t \in Task, RunNeedsRetry(t) PROVE ConcludedInv'
  BY <1>6, <1>13 DEF RunNeedsRetry
<1>14. ASSUME NEW t \in Task, RunFails(t) PROVE ConcludedInv'
  <2>1. CASE outcome' = [outcome EXCEPT ![t.job] = "exhausted"]
             /\ ReturnFromQueue(t, "error")
    <3>1. outcome'[t.job] # "none"
      BY <2>1, TaskFacts DEF TypeOK, DurableType
    <3> QED BY <1>6, <1>14, <2>1, <3>1 DEF RunFails
  <2>2. CASE BeginAttempt(t, attempt[t] + 1)
    BY <1>8, <1>14, <2>2 DEF RunFails
  <2> QED BY <1>14, <2>1, <2>2 DEF RunFails
<1>15. ASSUME NEW t \in Task, PostDelete(t) PROVE ConcludedInv'
  <2>1. outcome'[t.job] # "none"
    BY <1>15, TaskFacts DEF PostDelete, DeleteAfterRun, ConcludedInv, TypeOK, DurableType
  <2>2. /\ pc'[t] # "ran"
        /\ \A u \in Task : u # t => pc'[u] = pc[u] /\ result'[u] = result[u]
    BY <1>15 DEF PostDelete, TypeOK, TaskType
  <2> QED BY <1>4, <1>15, <2>1, <2>2 DEF PostDelete
<1>16. ASSUME NEW t \in Task, KeepRow(t) \/ Settle(t) PROVE ConcludedInv'
  <2>1. /\ pc'[t] # "ran" /\ UNCHANGED <<writes, shutting>>
        /\ \A u \in Task : u # t => pc'[u] = pc[u] /\ result'[u] = result[u]
    BY <1>16 DEF KeepRow, Settle, TypeOK, TaskType
  <2> QED BY <1>5, <2>1
<1>17. CASE CommitWrite
  <2>1. \A n \in 1..Len(writes') : \E m \in 1..Len(writes) : writes'[n] = writes[m]
    <3>1. /\ Len(writes) \in Nat /\ Len(writes') = Len(writes) - 1
          /\ \A n \in 1..Len(writes') : writes'[n] = writes[n + 1]
      BY <1>17, HeadTailProperties DEF CommitWrite, TypeOK, DurableType
    <3>2. \A n \in 1..Len(writes') : n + 1 \in 1..Len(writes)
      BY <3>1
    <3> QED BY <3>1, <3>2
  <2>2. \A u \in Task : pc'[u] = "ran" => pc[u] = "ran" /\ result'[u] = result[u]
    BY <1>17 DEF CommitWrite, TypeOK, TaskType
  <2> QED BY <1>1, <1>17, <2>1, <2>2, ConcludedFrame DEF CommitWrite
<1>18. CASE StreamJobs \/ FetchRead \/ FetchFinished
  BY <1>2, <1>18 DEF StreamJobs, FetchRead, FetchFinished
<1>19. CASE Pause \/ Resume \/ Shutdown \/ ShutdownComplete
            \/ \E k \in Key : QueueIdle(k)
  BY <1>2, <1>19 DEF Pause, Resume, Shutdown, QueueIdle, ShutdownComplete
<1>20. CASE Restart
  BY <1>20 DEF Restart, ConcludedInv
<1>21. CASE UNCHANGED vars
  BY <1>2, <1>21 DEF vars
<1> QED
  BY <1>9, <1>10, <1>11, <1>12, <1>13, <1>14, <1>15, <1>16, <1>17, <1>18, <1>19,
     <1>20, <1>21 DEF Next, RunStep, AfterRun

-----------------------------------------------------------------------------
(* The ledger, and the theorems.                                           *)

Concluded == {j \in Job : outcome[j] # "none"}

\* Only a commit touches rows: it adds a new one or removes a concluded one.
LEMMA RowStep ==
    ASSUME IndInv, [Next]_vars
    PROVE  \/ UNCHANGED <<db, stored>>
           \/ /\ outcome' = outcome
              /\ \E j \in Job : /\ j \notin stored
                                /\ db' = db \cup {j} /\ stored' = stored \cup {j}
           \/ /\ outcome' = outcome
              /\ \E j \in Concluded : db' = db \ {j} /\ stored' = stored
<1> USE DEF addVars, storeVars, flagVars, taskVars, birthVars
<1>1. CASE CommitWrite
  <2> DEFINE w == writes[1]
  <2>1. Head(writes) = w /\ 1 \in 1..Len(writes) /\ w \in Write
    BY <1>1 DEF CommitWrite, IndInv, TypeOK, DurableType
  <2>2. w.task.job \in Job
    BY <2>1, WriteFacts, TaskFacts
  <2>3. CASE w.op = "insert"
    <3>1. w.task.job \notin stored
      BY <2>1, <2>2, <2>3 DEF IndInv, WriteInv, StoredInv
    <3> QED BY <1>1, <2>1, <2>2, <2>3, <3>1 DEF CommitWrite
  <2>4. CASE w.op = "delete"
    <3>1. w.task.job \in Concluded
      BY <2>1, <2>2, <2>4 DEF IndInv, ConcludedInv, Concluded
    <3> QED BY <1>1, <2>1, <2>4, <3>1 DEF CommitWrite
  <2> QED BY <2>1, <2>3, <2>4, WriteFacts
<1>2. CASE \E j \in Job : Add(j) \/ AddStep(j)
  BY <1>2 DEF Add, AddStep, FetchAwaited, RowCommitted
<1>3. CASE \E t \in Task : StreamStep(t) \/ StartJob(t) \/ EnqueueAgain(t)
  BY <1>3 DEF StreamStep, StreamStops, StreamHolds, StreamEnqueues, StreamResumes,
              StartJob, EnqueueAgain
<1>4. CASE \E t \in Task : RunStep(t) \/ AfterRun(t)
  BY <1>4 DEF RunStep, RunSucceeds, RunNeedsRetry, RunFails,
              AfterRun, PostDelete, KeepRow, Settle
<1>5. CASE StreamJobs \/ FetchRead \/ FetchFinished
  BY <1>5 DEF StreamJobs, FetchRead, FetchFinished
<1>6. CASE Pause \/ Resume \/ Shutdown \/ ShutdownComplete \/ Restart
            \/ \E k \in Key : QueueIdle(k)
  BY <1>6 DEF Pause, Resume, Shutdown, QueueIdle, ShutdownComplete, Restart
<1>7. CASE UNCHANGED vars
  BY <1>7 DEF vars
<1> QED BY <1>1, <1>2, <1>3, <1>4, <1>5, <1>6, <1>7 DEF Next

\* A step concludes at most one job.
LEMMA OneConclusion ==
    ASSUME IndInv, [Next]_vars
    PROVE  Concluded' = Concluded \/ \E j \in stored : Concluded' = Concluded \cup {j}
<1> USE DEF addVars, storeVars, flagVars, taskVars, birthVars
<1>1. \A j \in Job : /\ outcome[j] # "none" => outcome'[j] # "none"
                     /\ outcome'[j] # outcome[j] => j \in stored
  BY OutcomeStep DEF IndInv
<1>2. outcome' = outcome \/ \E i \in Job : \A j \in Job \ {i} : outcome'[j] = outcome[j]
  <2>1. CASE \E t \in Task : StreamStep(t) \/ EnqueueAgain(t)
    <3>1. PICK t \in Task : outcome' = outcome \/ EnqueueStoredJob(t)
      BY <2>1 DEF StreamStep, StreamStops, StreamHolds, StreamEnqueues,
                  StreamResumes, EnqueueAgain
    <3> QED BY <3>1, TaskFacts DEF EnqueueStoredJob, IndInv, TypeOK, DurableType
  <2>2. CASE \E t \in Task : StartJob(t) \/ RunStep(t) \/ AfterRun(t)
    <3>1. PICK t \in Task :
            \/ outcome' = outcome
            \/ \E v \in {"success", "exhausted", "dropped"} :
                 outcome' = [outcome EXCEPT ![t.job] = v]
      BY <2>2 DEF StartJob, RunStep, RunSucceeds, RunNeedsRetry, RunFails,
                  AfterRun, PostDelete, KeepRow, Settle
    <3> QED BY <3>1, TaskFacts DEF IndInv, TypeOK, DurableType
  <2>3. CASE \E j \in Job : Add(j) \/ AddStep(j)
    BY <2>3 DEF Add, AddStep, FetchAwaited, RowCommitted
  <2>4. CASE CommitWrite \/ StreamJobs \/ FetchRead \/ FetchFinished
    BY <2>4 DEF CommitWrite, StreamJobs, FetchRead, FetchFinished
  <2>5. CASE Pause \/ Resume \/ Shutdown \/ ShutdownComplete \/ Restart
            \/ \E k \in Key : QueueIdle(k)
    BY <2>5 DEF Pause, Resume, Shutdown, QueueIdle, ShutdownComplete, Restart
  <2>6. CASE UNCHANGED vars
    BY <2>6 DEF vars
  <2> QED BY <2>1, <2>2, <2>3, <2>4, <2>5, <2>6 DEF Next
<1> QED BY <1>1, <1>2 DEF Concluded

\* No step loses a job.
LEMMA NoJobLostStep == IndInv /\ [Next]_vars => NoJobLost'
<1> SUFFICES ASSUME IndInv, [Next]_vars PROVE NoJobLost'
  OBVIOUS
<1>1. \A j \in Job : outcome[j] # "none" => outcome'[j] # "none"
  BY OutcomeStep DEF IndInv
<1>2. stored \subseteq Job
  BY DEF IndInv, TypeOK, DurableType
<1> QED BY <1>1, <1>2, RowStep DEF NoJobLost, Concluded, IndInv

\* The invariant holds of every reachable state.
THEOREM InductiveInvariant == Spec => []IndInv
<1>1. Init => IndInv
  <2> SUFFICES ASSUME Init PROVE IndInv
    OBVIOUS
  <2> USE DEF Init
  <2>1. TypeOK
    <3>1. DurableType
      BY DEF DurableType, Outcome
    <3>2. AddType /\ TaskType
      BY DEF AddType, TaskType
    <3>3. StreamType
      <4>1. paused \in BOOLEAN /\ shutting \in BOOLEAN /\ drained \in BOOLEAN
        OBVIOUS
      <4> QED BY <4>1 DEF StreamType
    <3> QED BY <3>1, <3>2, <3>3 DEF TypeOK
  <2>2. StreamInv /\ QueueInv /\ WriteInv
    BY TaskFacts, JobQueueAssumption DEF StreamInv, QueueInv, InQueue, WriteInv
  <2>3. StoredInv /\ ConcludedInv /\ NoJobLost
    BY DEF StoredInv, ConcludedInv, NoJobLost
  <2> QED BY <2>1, <2>2, <2>3 DEF IndInv
<1>2. IndInv /\ [Next]_vars => IndInv'
  BY TypeStep, StreamInvStep, QueueInvStep, WriteInvStep, StoredInvStep,
     ConcludedStep, NoJobLostStep DEF IndInv
<1> QED BY <1>1, <1>2, PTL DEF Spec

\* Every variable keeps its type; in particular the run loop only ever frees a
\* slot that its task holds.
THEOREM TypeCorrect == Spec => []TypeOK
  BY InductiveInvariant, PTL DEF IndInv

\* No job whose row was committed disappears before it was concluded.
THEOREM NoJobIsLost == Spec => []NoJobLost
  BY InductiveInvariant, PTL DEF IndInv

\* run() is called for stored jobs only.
THEOREM RunsAreStored == Spec => []RunsOnlyStoredJobs
  BY InductiveInvariant, PTL DEF IndInv, StoredInv, RunsOnlyStoredJobs

\* Two jobs of one in-memory queue, or a job and itself, never run together.
THEOREM RunsAreSerial == Spec => []OneRunPerQueue
<1>1. IndInv => OneRunPerQueue
  BY DEF IndInv, QueueInv, OneRunPerQueue
<1> QED BY <1>1, InductiveInvariant, PTL

\* The queue implements the ledger.
THEOREM ImplementsLedger == Spec => LedgerSpec
<1>1. Init => Ledger!LedgerInit
  BY DEF Init, Ledger!LedgerInit
<1>2. IndInv /\ [Next]_vars => [Ledger!LedgerNext]_(Ledger!lvars)
  <2> SUFFICES ASSUME IndInv, [Next]_vars
               PROVE  [Ledger!LedgerNext]_(Ledger!lvars)
    OBVIOUS
  <2>1. CASE UNCHANGED <<db, stored>>
    <3>1. CASE Concluded' = Concluded
      BY <2>1, <3>1 DEF Ledger!lvars, Concluded
    <3>2. CASE \E j \in stored : Concluded' = Concluded \cup {j}
      BY <2>1, <3>2 DEF Ledger!LedgerNext, Ledger!Conclude, Concluded,
                        IndInv, TypeOK, DurableType
    <3> QED BY <3>1, <3>2, OneConclusion
  <2>2. ASSUME outcome' = outcome, NEW j \in Job, j \notin stored,
               db' = db \cup {j}, stored' = stored \cup {j}
        PROVE  Ledger!LedgerNext
    BY <2>2 DEF Ledger!LedgerNext, Ledger!Persist
  <2>3. ASSUME outcome' = outcome, NEW j \in Concluded,
               db' = db \ {j}, stored' = stored
        PROVE  Ledger!LedgerNext
    BY <2>3 DEF Ledger!LedgerNext, Ledger!Erase, Concluded
  <2> QED BY <2>1, <2>2, <2>3, RowStep
<1> QED BY <1>1, <1>2, InductiveInvariant, PTL DEF Spec, LedgerSpec, Ledger!LedgerSpec

-----------------------------------------------------------------------------
(* Shutdown and completions.                                               *)

\* What runs while the queue shuts down is in a queue shutdown() awaits.
QuietInv ==
    /\ drained => shutting /\ awaiting = {}
    /\ shutting => \A t \in Task : pc[t] = "running" => QueueOf[t.job] \in awaiting

\* A task returns from its in-memory queue with a status, and its delete is over
\* when the row is gone.
CompletionInv ==
    /\ \A t \in Task : pc[t] = "ran" => result[t] # "none"
    /\ \A t \in Task : pc[t] = "deleted" => t.job \notin db

\* Nothing starts to run while the queue shuts down, and a queue that is idle
\* runs nothing.
LEMMA QuietStep == IndInv /\ QuietInv /\ [Next]_vars => QuietInv'
<1> SUFFICES ASSUME IndInv, QuietInv, [Next]_vars PROVE QuietInv'
  OBVIOUS
<1> USE DEF addVars, storeVars, flagVars, taskVars, birthVars
<1>0. /\ pc \in [Task -> {"none", "queued", "running", "ran", "deleting",
                          "deleted", "parked", "over"}]
      /\ awaiting \subseteq Key /\ \A t \in Task : QueueOf[t.job] \in Key
  BY TaskFacts, JobQueueAssumption DEF IndInv, TypeOK, StreamType, TaskType
<1>1. ASSUME UNCHANGED <<shutting, awaiting, drained>>,
             shutting => \A t \in Task : pc'[t] = "running" => pc[t] = "running"
      PROVE  QuietInv'
  BY <1>1 DEF QuietInv
<1>2. ASSUME NEW t \in Task, EnqueueStoredJob(t), UNCHANGED <<shutting, awaiting, drained>>
      PROVE  QuietInv'
  BY <1>0, <1>1, <1>2 DEF EnqueueStoredJob
<1>3. ASSUME NEW t \in Task, NEW n, BeginAttempt(t, n), UNCHANGED <<shutting, awaiting, drained>>
      PROVE  QuietInv'
  BY <1>0, <1>1, <1>3 DEF BeginAttempt, ReturnFromQueue
<1>4. ASSUME NEW j \in Job, Add(j) \/ AddStep(j) PROVE QuietInv'
  BY <1>1, <1>4 DEF Add, AddStep, FetchAwaited, RowCommitted
<1>5. ASSUME NEW t \in Task, StreamStep(t) \/ EnqueueAgain(t) PROVE QuietInv'
  BY <1>1, <1>2, <1>5
  DEF StreamStep, StreamStops, StreamHolds, StreamEnqueues, StreamResumes, EnqueueAgain
<1>6. ASSUME NEW t \in Task, StartJob(t) PROVE QuietInv'
  BY <1>3, <1>6 DEF StartJob
<1>7. ASSUME NEW t \in Task, RunSucceeds(t) \/ RunNeedsRetry(t) PROVE QuietInv'
  BY <1>0, <1>1, <1>7 DEF RunSucceeds, RunNeedsRetry, ReturnFromQueue
<1>8. ASSUME NEW t \in Task, RunFails(t) PROVE QuietInv'
  <2>1. CASE ReturnFromQueue(t, "error")
    BY <1>0, <1>1, <1>8, <2>1 DEF RunFails, ReturnFromQueue
  <2>2. CASE BeginAttempt(t, attempt[t] + 1)
    BY <1>3, <1>8, <2>2 DEF RunFails
  <2> QED BY <1>8, <2>1, <2>2 DEF RunFails
<1>9. ASSUME NEW t \in Task, AfterRun(t) PROVE QuietInv'
  BY <1>0, <1>1, <1>9 DEF AfterRun, PostDelete, KeepRow, Settle
<1>10. CASE CommitWrite
  BY <1>0, <1>1, <1>10 DEF CommitWrite
<1>11. CASE StreamJobs \/ FetchRead \/ FetchFinished \/ Pause \/ Resume
  BY <1>1, <1>11 DEF StreamJobs, FetchRead, FetchFinished, Pause, Resume
<1>12. CASE Shutdown
  <2>1. \A t \in Task : pc[t] = "running" => queue[QueueOf[t.job]] # <<>>
    BY <1>0 DEF IndInv, TypeOK, TaskType, QueueInv, InQueue
  <2>2. /\ shutting' = TRUE /\ awaiting' = {k \in Key : queue[k] # <<>>}
        /\ UNCHANGED <<drained, pc>> /\ ~shutting
    BY <1>12 DEF Shutdown
  <2> QED BY <1>0, <2>1, <2>2 DEF QuietInv
<1>13. ASSUME NEW k \in Key, QueueIdle(k) PROVE QuietInv'
  <2>1. \A t \in Task : pc[t] = "running" => QueueOf[t.job] # k
    BY <1>0, <1>13 DEF IndInv, TypeOK, TaskType, QueueInv, InQueue, QueueIdle
  <2>2. k \in awaiting /\ awaiting' = awaiting \ {k} /\ UNCHANGED <<shutting, drained, pc>>
    BY <1>13 DEF QueueIdle
  <2> QED BY <1>0, <2>1, <2>2 DEF QuietInv
<1>14. CASE ShutdownComplete
  BY <1>14 DEF ShutdownComplete, QuietInv
<1>15. CASE Restart
  BY <1>15 DEF Restart, QuietInv
<1>16. CASE UNCHANGED vars
  BY <1>1, <1>16 DEF vars
<1> QED
  BY <1>4, <1>5, <1>6, <1>7, <1>8, <1>9, <1>10, <1>11, <1>12, <1>13, <1>14, <1>15, <1>16
  DEF Next, RunStep

\* No row comes back once a task has seen its delete return.
LEMMA CompletionStep == IndInv /\ CompletionInv /\ [Next]_vars => CompletionInv'
<1> SUFFICES ASSUME IndInv, CompletionInv, [Next]_vars PROVE CompletionInv'
  OBVIOUS
<1> USE DEF addVars, storeVars, flagVars, taskVars, birthVars
<1>0. /\ pc \in [Task -> {"none", "queued", "running", "ran", "deleting",
                          "deleted", "parked", "over"}]
      /\ result \in [Task -> {"none", "success", "retry", "error"}]
      /\ \A t \in Task : pc[t] # "none" => t.job \in stored
  BY TaskFacts DEF IndInv, TypeOK, TaskType, StoredInv
<1>1. ASSUME UNCHANGED <<db, pc, result>> PROVE CompletionInv'
  BY <1>1 DEF CompletionInv
<1>2. ASSUME NEW t \in Task, EnqueueStoredJob(t), UNCHANGED db PROVE CompletionInv'
  BY <1>0, <1>2 DEF EnqueueStoredJob, CompletionInv
<1>3. ASSUME NEW t \in Task, NEW r \in {"success", "retry", "error"},
             ReturnFromQueue(t, r), UNCHANGED db
      PROVE  CompletionInv'
  BY <1>0, <1>3 DEF ReturnFromQueue, CompletionInv
<1>4. ASSUME NEW t \in Task, NEW n, BeginAttempt(t, n), UNCHANGED db
      PROVE  CompletionInv'
  <2>1. CASE shutting
    BY <1>3, <1>4, <2>1 DEF BeginAttempt
  <2>2. CASE ~shutting
    BY <1>0, <1>4, <2>2 DEF BeginAttempt, CompletionInv
  <2> QED BY <2>1, <2>2
<1>5. ASSUME NEW j \in Job, Add(j) \/ AddStep(j) PROVE CompletionInv'
  BY <1>1, <1>5 DEF Add, AddStep, FetchAwaited, RowCommitted
<1>6. ASSUME NEW t \in Task, StreamStep(t) \/ EnqueueAgain(t) PROVE CompletionInv'
  BY <1>1, <1>2, <1>6
  DEF StreamStep, StreamStops, StreamHolds, StreamEnqueues, StreamResumes, EnqueueAgain
<1>7. ASSUME NEW t \in Task, StartJob(t) PROVE CompletionInv'
  BY <1>4, <1>7 DEF StartJob
<1>8. ASSUME NEW t \in Task, RunSucceeds(t) \/ RunNeedsRetry(t) PROVE CompletionInv'
  BY <1>3, <1>8 DEF RunSucceeds, RunNeedsRetry
<1>9. ASSUME NEW t \in Task, RunFails(t) PROVE CompletionInv'
  <2>1. CASE ReturnFromQueue(t, "error")
    BY <1>3, <1>9, <2>1 DEF RunFails
  <2>2. CASE BeginAttempt(t, attempt[t] + 1)
    BY <1>4, <1>9, <2>2 DEF RunFails
  <2> QED BY <1>9, <2>1, <2>2 DEF RunFails
<1>10. ASSUME NEW t \in Task, AfterRun(t) PROVE CompletionInv'
  BY <1>0, <1>10 DEF AfterRun, PostDelete, KeepRow, Settle, CompletionInv
<1>11. CASE CommitWrite
  <2>1. PICK w \in Write : w = Head(writes) /\ w = writes[1] /\ 1 \in 1..Len(writes)
    BY <1>11 DEF CommitWrite, IndInv, TypeOK, DurableType
  <2>2. w.task \in Task /\ w.task.job \in Job /\ w.op \in {"insert", "delete"}
    BY <2>1, WriteFacts, TaskFacts
  <2>3. CASE w.op = "insert"
    <3>1. db' = db \cup {w.task.job} /\ UNCHANGED <<pc, result>>
      BY <1>11, <2>1, <2>3 DEF CommitWrite
    <3>2. w.task.job \notin stored
      BY <2>1, <2>2, <2>3 DEF IndInv, WriteInv, StoredInv
    <3> QED BY <1>0, <3>1, <3>2 DEF CompletionInv
  <2>4. CASE w.op = "delete"
    <3>1. /\ db' = db \ {w.task.job} /\ UNCHANGED result
          /\ pc' = [pc EXCEPT ![w.task] = "deleted"]
      BY <1>11, <2>1, <2>4 DEF CommitWrite
    <3> QED BY <1>0, <2>2, <3>1 DEF CompletionInv
  <2> QED BY <2>2, <2>3, <2>4
<1>12. CASE \/ StreamJobs \/ FetchRead \/ FetchFinished \/ Pause \/ Resume \/ Shutdown
            \/ ShutdownComplete \/ \E k \in Key : QueueIdle(k)
  BY <1>1, <1>12 DEF StreamJobs, FetchRead, FetchFinished, Pause, Resume, Shutdown,
                     ShutdownComplete, QueueIdle
<1>13. CASE Restart
  BY <1>13 DEF Restart, CompletionInv
<1>14. CASE UNCHANGED vars
  BY <1>1, <1>14 DEF vars
<1> QED
  BY <1>5, <1>6, <1>7, <1>8, <1>9, <1>10, <1>11, <1>12, <1>13, <1>14
  DEF Next, RunStep

\* Only enqueueStoredJob settles a completion: when the row is kept, or when
\* its delete has returned.
LEMMA SettledBy ==
    ASSUME IndInv, [Next]_vars, NEW j \in Job, completion[j] = "pending",
           completion'[j] \in {"resolved", "rejected"}
    PROVE  \E t \in Task : t.job = j /\ (KeepRow(t) \/ Settle(t))
<1> USE DEF addVars, storeVars, flagVars, taskVars, birthVars
<1>0. completion \in [Job -> {"none", "pending", "resolved", "rejected"}]
  BY DEF IndInv, TypeOK, AddType
<1>1. completion' # completion
  OBVIOUS
<1>2. ASSUME NEW t \in Task, KeepRow(t) \/ Settle(t)
      PROVE  \E u \in Task : u.job = j /\ (KeepRow(u) \/ Settle(u))
  <2>1. completion'[j] # completion[j] => t.job = j
    BY <1>0, <1>2, TaskFacts DEF KeepRow, Settle, Complete
  <2> QED BY <1>2, <2>1
<1>3. ASSUME NEW i \in Job, Add(i) PROVE FALSE
  BY <1>0, <1>3 DEF Add
<1>4. ASSUME NEW i \in Job, AddStep(i) PROVE FALSE
  BY <1>1, <1>4 DEF AddStep, FetchAwaited, RowCommitted
<1>5. ASSUME NEW t \in Task,
             StreamStep(t) \/ StartJob(t) \/ RunStep(t) \/ PostDelete(t) \/ EnqueueAgain(t)
      PROVE  FALSE
  BY <1>1, <1>5 DEF StreamStep, StreamStops, StreamHolds, StreamEnqueues, StreamResumes,
                    StartJob, RunStep, RunSucceeds, RunNeedsRetry, RunFails, PostDelete,
                    EnqueueAgain
<1>6. CASE \/ CommitWrite \/ StreamJobs \/ FetchRead \/ FetchFinished \/ Pause \/ Resume
           \/ Shutdown \/ ShutdownComplete \/ \E k \in Key : QueueIdle(k)
  BY <1>1, <1>6 DEF CommitWrite, StreamJobs, FetchRead, FetchFinished, Pause, Resume,
                    Shutdown, ShutdownComplete, QueueIdle
<1>7. CASE Restart
  BY <1>7 DEF Restart
<1>8. CASE UNCHANGED vars
  BY <1>1, <1>8 DEF vars
<1> QED BY <1>2, <1>3, <1>4, <1>5, <1>6, <1>7, <1>8 DEF Next, AfterRun

\* Once shutdown() has resolved nothing runs, whatever was paused, parked or
\* retried meanwhile.
THEOREM ShutdownIsQuiet == Spec => []DrainedMeansQuiet
<1>1. Init => QuietInv
  BY DEF Init, QuietInv
<1>2. QuietInv => DrainedMeansQuiet
  BY DEF QuietInv, DrainedMeansQuiet
<1> QED BY <1>1, <1>2, QuietStep, InductiveInvariant, PTL DEF Spec

\* No caller that awaits a job's completion sees it settle with the row still
\* there, except in the step that parks the job and for a shutdown.
THEOREM CompletionsInOrder == Spec => CompletionAfterDelete
<1>1. Init => CompletionInv
  BY DEF Init, CompletionInv
<1>2. IndInv /\ CompletionInv /\ [Next]_vars =>
        [\A j \in Job :
           completion[j] = "pending" /\ j \in db' =>
             /\ completion'[j] = "resolved" => \E t \in Task : t.job = j /\ Parks(t)
             /\ completion'[j] = "rejected" => shutting]_vars
  <2> SUFFICES ASSUME IndInv, CompletionInv, [Next]_vars, NEW j \in Job,
                      completion[j] = "pending", j \in db',
                      completion'[j] \in {"resolved", "rejected"}
               PROVE  /\ completion'[j] = "resolved" => \E t \in Task : t.job = j /\ Parks(t)
                      /\ completion'[j] = "rejected" => shutting
    OBVIOUS
  <2>0. /\ pc \in [Task -> {"none", "queued", "running", "ran", "deleting",
                            "deleted", "parked", "over"}]
        /\ result \in [Task -> {"none", "success", "retry", "error"}]
        /\ completion \in [Job -> {"none", "pending", "resolved", "rejected"}]
    BY DEF IndInv, TypeOK, TaskType, AddType
  <2>1. PICK t \in Task : t.job = j /\ (KeepRow(t) \/ Settle(t))
    BY SettledBy
  <2>2. ~Settle(t)
    BY <2>1 DEF Settle, CompletionInv
  <2>3. KeepRow(t)
    BY <2>1, <2>2
  <2>4. result[t] = "retry" \/ (result[t] = "error" /\ shutting)
    BY <2>0, <2>3 DEF KeepRow, DeleteAfterRun, CompletionInv
  <2>5. CASE result[t] = "retry"
    <3>1. Parks(t)
      BY <2>0, <2>3, <2>5 DEF KeepRow, Parks
    <3>2. completion'[j] = "resolved"
      BY <2>0, <2>1, <2>3, <2>5 DEF KeepRow, Complete
    <3> QED BY <2>1, <3>1, <3>2
  <2>6. CASE result[t] = "error" /\ shutting
    <3>1. completion'[j] = "rejected"
      BY <2>0, <2>1, <2>3, <2>6 DEF KeepRow, Complete
    <3> QED BY <2>6, <3>1
  <2> QED BY <2>4, <2>5, <2>6
<1> QED BY <1>1, <1>2, CompletionStep, InductiveInvariant, PTL
        DEF Spec, CompletionAfterDelete
=============================================================================
