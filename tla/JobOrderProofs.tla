--------------------------- MODULE JobOrderProofs ----------------------------
(***************************************************************************)
(* Jobs that are added without an override to one in-memory queue of a     *)
(* JobQueue start in the order of the calls, for any number of jobs, keys, *)
(* attempts and restarts.                                                  *)
(*                                                                         *)
(* On its way to its first run a job waits for the fetch, for its row, in  *)
(* the rows that were fetched or in the live queue, in the stream's hand   *)
(* and in its in-memory queue.  The invariant says of each of these stages *)
(* that no job gets out of it, or into it, before an earlier one.          *)
(***************************************************************************)
EXTENDS JobQueueProofs

\* Jobs whose insert is store.insert's own.
Ordered == Job \ Overridden

\* i was created before j.
Before(i, j) == stamp[i] < stamp[j]

\* The task came out of the stream.
Came(t) == t \in held \/ pc[t] # "none"

\* A job whose insert began before the stream did comes from the fetch or not
\* at all, any other from the live queue; those are the later ones.
SourceInv ==
    /\ \A j \in Job : stamp[j] <= clock
    /\ \A j \in Ordered : saw[j] =>
          /\ adding[j] # "no" /\ stream # "off"
          /\ ~FetchOver => adding[j] = "wait"
    /\ \A j \in Ordered : j \in fetched => ~saw[j]
    /\ \A n \in 1..Len(live) : live[n] \in Ordered => saw[live[n]]
    /\ \A t \in Task : t.job \in Ordered /\ Came(t)
                          => (t.src = "live" <=> saw[t.job])
    /\ \A i, j \in Ordered : Before(i, j) /\ saw[i] => saw[j]

\* Adders that saw the fetch pass the stages of store.insert in order.
AddOrder ==
    /\ \A i, j \in Ordered : Before(i, j) /\ saw[i] =>
          /\ adding[i] = "wait" => adding[j] = "wait"
          /\ adding[i] = "insert" => adding[j] \in {"wait", "insert"}
          /\ adding[i] = "stored" => adding[j] # "done"
    /\ \A j \in Ordered : adding[j] = "insert" =>
          \E n \in 1..Len(writes) : writes[n] = InsertOf(j)
    /\ \A m, n \in 1..Len(writes) : \A i, j \in Ordered :
          /\ m < n /\ saw[i] /\ saw[j]
          /\ writes[m] = InsertOf(i) /\ writes[n] = InsertOf(j)
          => stamp[i] <= stamp[j]

InLive(j) == \E n \in 1..Len(live) : live[n] = j

\* The job may still come out of the stream.
Upstream(j) == j \in fetched \/ InLive(j) \/ (saw[j] /\ adding[j] # "done")

\* The live queue is in order, a job that came out of the stream leaves no
\* earlier one behind in it, and overtakes none that the stream holds.
StreamOrder ==
    /\ \A m, n \in 1..Len(live) :
          m < n /\ live[m] \in Ordered /\ live[n] \in Ordered
             => stamp[live[m]] <= stamp[live[n]]
    /\ \A i \in Ordered : \A u \in Task :
          u.job \in Ordered /\ Before(i, u.job) /\ Came(u) => ~Upstream(i)
    /\ \A t \in held : \A u \in Task :
          t.job \in Ordered /\ u.job \in Ordered /\ Before(t.job, u.job)
             => pc[u] = "none"

\* An in-memory queue is in order but for the jobs it runs again, and a job
\* that started leaves no earlier one behind in it.
QueueOrder ==
    /\ \A k \in Key : \A m, n \in 1..Len(queue[k]) :
          /\ m < n
          /\ queue[k][m].job \in Ordered /\ queue[k][n].job \in Ordered
          /\ Before(queue[k][n].job, queue[k][m].job)
          => queue[k][n].job \in begun
    /\ \A t \in Task : /\ pc[t] \in {"running", "parked"} => t.job \in begun
                       /\ result[t] = "retry" => t.job \in begun
    /\ \A j \in begun : \E t \in Task : t.job = j /\ pc[t] # "none"
    /\ \A t \in Task : \A j \in Ordered :
          /\ t.job \in Ordered /\ QueueOf[t.job] = QueueOf[j]
          /\ Before(t.job, j) /\ j \in begun /\ t.job \notin begun
          => pc[t] # "queued"

OrderInv == SourceInv /\ AddOrder /\ StreamOrder /\ QueueOrder

-----------------------------------------------------------------------------
(* Where a job comes from.                                                 *)

\* A job that was not added yet is nowhere.
LEMMA NotAdded ==
    ASSUME IndInv, NEW j \in Job, adding[j] = "no"
    PROVE  /\ j \notin stored /\ j \notin fetched /\ j \notin begun
           /\ \A n \in 1..Len(live) : live[n] # j
           /\ \A t \in Task : Came(t) => t.job # j
<1>1. StoredInv
  BY DEF IndInv
<1>2. j \notin stored
  BY <1>1 DEF StoredInv
<1> QED BY <1>1, <1>2 DEF StoredInv, Came

\* Steps that add nothing to the stream or take out of it what was there.
LEMMA SourceFrame ==
    ASSUME TypeOK, SourceInv, UNCHANGED <<stamp, clock>>,
           \A j \in Ordered : saw'[j] = saw[j],
           \A j \in Ordered : saw[j] => /\ adding'[j] # "no" /\ stream' # "off"
                                        /\ ~FetchOver' => adding'[j] = "wait",
           \A j \in Ordered : j \in fetched' => ~saw[j],
           \A n \in 1..Len(live') : live'[n] \in Ordered => saw[live'[n]],
           \A t \in Task : Came(t)' => \/ Came(t)
                                       \/ t.src = "live" <=> saw[t.job]
    PROVE  SourceInv'
  BY DEF SourceInv, Before, Ordered

\* The live queue has what it had, and perhaps one job more.
LEMMA LiveGrows ==
    ASSUME TypeOK, NEW j \in Job, live' = live \/ live' = Append(live, j)
    PROVE  \A n \in 1..Len(live') : \/ n \in 1..Len(live) /\ live'[n] = live[n]
                                    \/ /\ n = Len(live) + 1 /\ live'[n] = j
                                       /\ live' = Append(live, j)
<1>1. live \in Seq(Job) /\ Len(live) \in Nat
  BY DEF TypeOK, StreamType
<1>2. CASE live' = live
  BY <1>1, <1>2
<1>3. CASE live' = Append(live, j)
  <2>1. /\ Len(live') = Len(live) + 1 /\ live'[Len(live) + 1] = j
        /\ \A n \in 1..Len(live) : live'[n] = live[n]
    BY <1>1, <1>3, AppendProperties
  <2> QED BY <1>1, <1>3, <2>1
<1> QED BY <1>2, <1>3

\* What the stream produces comes from where its job's insert sent it.
LEMMA NextSource ==
    ASSUME TypeOK, SourceInv, NEW t \in Task, IsNext(t), t.job \in Ordered
    PROVE  t.src = "live" <=> saw[t.job]
<1>1. live \in Seq(Job)
  BY DEF TypeOK, StreamType
<1>2. CASE t.src = "fetched"
  BY <1>2 DEF IsNext, SourceInv
<1>3. CASE t.src = "live"
  <2>1. live # <<>> /\ t.job = Head(live)
    BY <1>3 DEF IsNext
  <2>2. 1 \in 1..Len(live) /\ live[1] = t.job
    BY <1>1, <2>1, HeadTailProperties
  <2> QED BY <1>3, <2>2 DEF SourceInv
<1> QED BY <1>2, <1>3, TaskFacts

\* Every step keeps jobs to their source.
LEMMA SourceStep ==
    ASSUME IndInv, SourceInv, [Next]_vars PROVE SourceInv'
<1> USE DEF addVars, storeVars, flagVars, taskVars, birthVars
<1>0. TypeOK /\ StreamInv /\ WriteInv /\ StoredInv
  BY DEF IndInv
<1>1. /\ stamp \in [Job -> Nat] /\ clock \in Nat
      /\ adding \in [Job -> {"no", "wait", "insert", "stored", "done"}]
      /\ saw \in [Job -> BOOLEAN] /\ Ordered \subseteq Job
      /\ live \in Seq(Job) /\ fetched \subseteq Job
      /\ \A n \in 1..Len(live) : live[n] \in Job
  BY <1>0 DEF TypeOK, DurableType, AddType, StreamType, Ordered
\* Steps of jobs that came out of the stream, and of nobody.
<1>2. ASSUME UNCHANGED <<stamp, clock, saw, adding, fetched, live, held>>,
             stream' = stream \/ (stream # "off" /\ stream' # "off"
                                  /\ (FetchOver => FetchOver'))
                              \/ (stream = "off" /\ stream' = "reading"),
             \A u \in Task : pc'[u] # "none" => pc[u] # "none"
      PROVE  SourceInv'
  <2>1. \A u \in Task : Came(u)' => Came(u)
    BY <1>2 DEF Came
  <2>2. \A j \in Ordered : saw[j] => /\ adding'[j] # "no" /\ stream' # "off"
                                     /\ ~FetchOver' => adding'[j] = "wait"
    BY <1>2 DEF SourceInv, FetchOver
  <2>3. /\ \A j \in Ordered : j \in fetched' => ~saw[j]
        /\ \A n \in 1..Len(live') : live'[n] \in Ordered => saw[live'[n]]
    BY <1>2 DEF SourceInv
  <2> QED BY <1>0, <1>2, <2>1, <2>2, <2>3, SourceFrame
<1>3. ASSUME NEW j \in Job, Add(j) PROVE SourceInv'
  <2>1. /\ adding[j] = "no" /\ clock' = clock + 1
        /\ stamp' = [stamp EXCEPT ![j] = clock + 1]
        /\ UNCHANGED <<live, fetched, held, stream, pc>>
    BY <1>3 DEF Add
  <2>2. \/ /\ j \notin Overridden /\ stream # "off"
           /\ saw' = [saw EXCEPT ![j] = TRUE]
           /\ adding' = [adding EXCEPT ![j] = "wait"]
        \/ /\ j \in Overridden \/ stream = "off"
           /\ adding' = [adding EXCEPT ![j] = "insert"]
           /\ saw' = saw
    BY <1>3 DEF Add, FetchBegun
  <2>3. /\ \A i \in Job : i # j => /\ stamp'[i] = stamp[i] /\ saw'[i] = saw[i]
                                   /\ adding'[i] = adding[i]
        /\ stamp'[j] = clock + 1
    BY <1>1, <2>1, <2>2
  <2>4. /\ j \notin fetched /\ \A n \in 1..Len(live) : live[n] # j
        /\ \A t \in Task : Came(t) => t.job # j
    BY <2>1, NotAdded
  <2>5. \A i \in Job : stamp'[i] <= clock'
    <3>1. \A i \in Job : stamp[i] \in Nat /\ stamp[i] <= clock
      BY <1>1 DEF SourceInv
    <3> QED BY <1>1, <2>1, <2>3, <3>1
  <2>6. \A i \in Ordered : saw'[i] =>
          /\ adding'[i] # "no" /\ stream' # "off"
          /\ ~FetchOver' => adding'[i] = "wait"
    <3> SUFFICES ASSUME NEW i \in Ordered, saw'[i]
                 PROVE  /\ adding'[i] # "no" /\ stream' # "off"
                        /\ ~FetchOver' => adding'[i] = "wait"
      OBVIOUS
    <3>1. CASE i # j
      BY <1>1, <2>1, <2>3, <3>1 DEF SourceInv, FetchOver
    <3>2. CASE i = j
      <4>1. ~saw[j]
        BY <1>1, <2>1, <3>2 DEF SourceInv
      <4> QED BY <1>1, <2>1, <2>2, <3>2, <4>1
    <3> QED BY <3>1, <3>2
  <2>7. \A i \in Ordered : i \in fetched' => ~saw'[i]
    BY <1>1, <2>1, <2>3, <2>4 DEF SourceInv
  <2>8. \A n \in 1..Len(live') : live'[n] \in Ordered => saw'[live'[n]]
    BY <1>1, <2>1, <2>3, <2>4 DEF SourceInv
  <2>9. \A t \in Task : t.job \in Ordered /\ Came(t)'
                           => (t.src = "live" <=> saw'[t.job])
    <3> SUFFICES ASSUME NEW t \in Task, t.job \in Ordered, Came(t)'
                 PROVE  t.src = "live" <=> saw'[t.job]
      OBVIOUS
    <3>1. Came(t)
      BY <2>1 DEF Came
    <3>2. saw'[t.job] = saw[t.job]
      BY <1>1, <2>3, <2>4, <3>1
    <3> QED BY <3>1, <3>2 DEF SourceInv
  <2>10. \A h, i \in Ordered : Before(h, i)' /\ saw'[h] => saw'[i]
    <3> SUFFICES ASSUME NEW h \in Ordered, NEW i \in Ordered,
                        stamp'[h] < stamp'[i], saw'[h]
                 PROVE  saw'[i]
      BY DEF Before
    <3>1. \A x \in Job : stamp[x] \in Nat /\ stamp[x] <= clock
      BY <1>1 DEF SourceInv
    <3>2. h # j
      <4>1. \A x \in Job : stamp'[x] <= clock + 1
        BY <2>1, <2>5
      <4>2. \A x \in Job : stamp'[x] \in Nat
        BY <1>1, <2>3
      <4> QED BY <1>1, <2>3, <4>1, <4>2
    <3>3. saw[h] /\ stamp'[h] = stamp[h]
      BY <1>1, <2>3, <3>2
    <3>4. CASE i = j
      <4>1. stream # "off"
        BY <3>3 DEF SourceInv
      <4>2. j \notin Overridden
        BY <3>4 DEF Ordered
      <4> QED BY <1>1, <2>2, <3>4, <4>1, <4>2
    <3>5. CASE i # j
      <4>1. Before(h, i)
        BY <1>1, <2>3, <3>3, <3>5 DEF Before
      <4>2. saw[i]
        BY <3>3, <4>1 DEF SourceInv
      <4> QED BY <1>1, <2>3, <3>5, <4>2
    <3> QED BY <3>4, <3>5
  <2> QED BY <2>5, <2>6, <2>7, <2>8, <2>9, <2>10 DEF SourceInv
\* add() resumes.
<1>4. ASSUME NEW j \in Job, UNCHANGED <<stamp, clock, fetched, held, stream, pc>>,
             \A i \in Ordered : saw'[i] = saw[i],
             NEW v \in {"wait", "insert", "stored", "done"},
             adding' = [adding EXCEPT ![j] = v],
             adding[j] = "wait" => FetchOver,
             live' = live \/ (live' = Append(live, j) /\ (j \in Ordered => saw[j]))
      PROVE  SourceInv'
  <2>1. \A u \in Task : Came(u)' => Came(u)
    BY <1>4 DEF Came
  <2>2. \A i \in Ordered : saw[i] => /\ adding'[i] # "no" /\ stream' # "off"
                                     /\ ~FetchOver' => adding'[i] = "wait"
    <3> SUFFICES ASSUME NEW i \in Ordered, saw[i]
                 PROVE  /\ adding'[i] # "no" /\ stream' # "off"
                        /\ ~FetchOver' => adding'[i] = "wait"
      OBVIOUS
    <3>1. /\ adding[i] # "no" /\ stream' = stream /\ stream # "off"
          /\ ~FetchOver => adding[i] = "wait"
          /\ FetchOver' <=> FetchOver
      BY <1>4 DEF SourceInv, FetchOver
    <3>2. i \in Job /\ adding'[i] = IF i = j THEN v ELSE adding[i]
      BY <1>1, <1>4
    <3> QED BY <1>4, <3>1, <3>2
  <2>3. \A n \in 1..Len(live') : live'[n] \in Ordered => saw[live'[n]]
    BY <1>0, <1>4, LiveGrows DEF SourceInv
  <2>4. \A i \in Ordered : i \in fetched' => ~saw[i]
    BY <1>4 DEF SourceInv
  <2> QED BY <1>0, <1>4, <2>1, <2>2, <2>3, <2>4, SourceFrame
<1>5. ASSUME NEW j \in Job, FetchAwaited(j) PROVE SourceInv'
  <2>1. CASE j \notin Overridden
    BY <1>4, <1>5, <2>1 DEF FetchAwaited
  <2>2. CASE j \in Overridden
    BY <1>4, <1>5, <2>2 DEF FetchAwaited, LiveAdd, Ordered
  <2> QED BY <2>1, <2>2
<1>6. ASSUME NEW j \in Job, RowCommitted(j) PROVE SourceInv'
  <2>1. CASE j \in Overridden
    <3>1. \A i \in Ordered : saw'[i] = saw[i]
      BY <1>1, <1>6, <2>1 DEF RowCommitted, Ordered
    <3> QED BY <1>4, <1>6, <2>1, <3>1 DEF RowCommitted
  <2>2. CASE j \notin Overridden
    BY <1>4, <1>6, <2>2 DEF RowCommitted, LiveAdd
  <2> QED BY <2>1, <2>2
\* The stream produces an item.
<1>7. ASSUME NEW t \in Task, IsNext(t), Consume(t), FetchOver, FetchOver',
             UNCHANGED <<stamp, clock, saw, adding>>,
             held = {}, held' \subseteq {t},
             \A u \in Task : u # t => pc'[u] = pc[u]
      PROVE  SourceInv'
  <2>1. \A u \in Task : Came(u)' => Came(u) \/ u = t
    BY <1>7 DEF Came
  <2>2. \A u \in Task : Came(u)' => \/ Came(u)
                                    \/ u.job \in Ordered => (u.src = "live" <=> saw[u.job])
    BY <1>0, <1>7, <2>1, NextSource
  <2>3. /\ fetched' \subseteq fetched
        /\ \A n \in 1..Len(live') : \E m \in 1..Len(live) : live'[n] = live[m]
    BY <1>0, <1>7, ConsumeFacts
  <2>4. \A j \in Ordered : saw[j] => adding'[j] # "no" /\ stream' # "off"
    BY <1>7 DEF SourceInv, FetchOver
  <2>5. \A n \in 1..Len(live') : live'[n] \in Ordered => saw[live'[n]]
    BY <2>3 DEF SourceInv
  <2> QED BY <1>7, <2>2, <2>3, <2>4, <2>5 DEF SourceInv, Before
<1>8. ASSUME NEW t \in Task, StreamStops(t) PROVE SourceInv'
  BY <1>7, <1>8 DEF StreamStops, FetchOver
<1>9. ASSUME NEW t \in Task, StreamHolds(t) PROVE SourceInv'
  BY <1>7, <1>9 DEF StreamHolds, FetchOver
<1>10. ASSUME NEW t \in Task, StreamEnqueues(t) PROVE SourceInv'
  <2>1. \A u \in Task : u # t => pc'[u] = pc[u]
    BY <1>0, <1>10, EnqueueStarts DEF StreamEnqueues
  <2> QED BY <1>7, <1>10, <2>1 DEF StreamEnqueues, FetchOver
<1>11. ASSUME NEW t \in Task, StreamResumes(t) PROVE SourceInv'
  <2>1. /\ \A u \in Task : u # t => pc'[u] = pc[u]
        /\ t \in held /\ held' = {}
        /\ UNCHANGED <<stamp, clock, saw, adding, fetched, live, stream>>
    BY <1>0, <1>11, EnqueueStarts DEF StreamResumes
  <2>2. \A u \in Task : Came(u)' => Came(u)
    BY <2>1 DEF Came
  <2>3. \A j \in Ordered : saw[j] => /\ adding'[j] # "no" /\ stream' # "off"
                                     /\ ~FetchOver' => adding'[j] = "wait"
    BY <2>1 DEF SourceInv, FetchOver
  <2>4. /\ \A j \in Ordered : j \in fetched' => ~saw[j]
        /\ \A n \in 1..Len(live') : live'[n] \in Ordered => saw[live'[n]]
    BY <2>1 DEF SourceInv
  <2> QED BY <1>0, <2>1, <2>2, <2>3, <2>4, SourceFrame
<1>12. ASSUME NEW t \in Task, StartJob(t) \/ RunStep(t) PROVE SourceInv'
  <2>1. \A u \in Task : pc'[u] # "none" => pc[u] # "none"
    BY <1>0, <1>12 DEF StartJob, RunStep, RunSucceeds, RunNeedsRetry, RunFails,
            BeginAttempt, ReturnFromQueue, TypeOK, TaskType
  <2>2. UNCHANGED <<stamp, clock, saw, adding, fetched, live, held, stream>>
    BY <1>12 DEF StartJob, RunStep, RunSucceeds, RunNeedsRetry, RunFails
  <2> QED BY <1>2, <2>1, <2>2
<1>13. ASSUME NEW t \in Task, AfterRun(t) PROVE SourceInv'
  <2>1. \A u \in Task : pc'[u] # "none" => pc[u] # "none"
    BY <1>0, <1>13 DEF AfterRun, PostDelete, KeepRow, Settle, TypeOK, TaskType
  <2>2. UNCHANGED <<stamp, clock, saw, adding, fetched, live, held, stream>>
    BY <1>13 DEF AfterRun, PostDelete, KeepRow, Settle
  <2> QED BY <1>2, <2>1, <2>2
<1>14. ASSUME NEW t \in Task, EnqueueAgain(t) PROVE SourceInv'
  <2>1. pc[t] # "none" /\ EnqueueStoredJob(t)
        /\ UNCHANGED <<stamp, clock, saw, adding, fetched, live, held, stream>>
    BY <1>14 DEF EnqueueAgain
  <2> QED BY <1>0, <1>2, <2>1, EnqueueStarts
<1>15. CASE CommitWrite
  <2>1. /\ writes[1] \in Write /\ 1 \in 1..Len(writes) /\ Head(writes) = writes[1]
        /\ writes[1].task \in Task /\ writes[1].task.job \in Job
    BY <1>0, <1>15, WriteFacts, TaskFacts DEF CommitWrite, TypeOK, DurableType
  <2>2. UNCHANGED <<stamp, clock, saw, fetched, live, held, stream>>
    BY <1>15 DEF CommitWrite
  <2>3. CASE writes[1].op = "insert"
    <3>1. pc' = pc /\ adding' = [adding EXCEPT ![writes[1].task.job] = "stored"]
      BY <1>15, <2>1, <2>3 DEF CommitWrite
    <3>2. adding[writes[1].task.job] # "wait"
      BY <1>0, <2>1, <2>3 DEF WriteInv
    <3> QED BY <1>4, <2>1, <2>2, <3>1, <3>2
  <2>4. CASE writes[1].op = "delete"
    <3>1. adding' = adding /\ pc' = [pc EXCEPT ![writes[1].task] = "deleted"]
      BY <1>15, <2>1, <2>4 DEF CommitWrite
    <3>2. pc[writes[1].task] = "deleting"
      BY <1>0, <2>1, <2>4 DEF WriteInv
    <3>3. \A u \in Task : pc'[u] # "none" => pc[u] # "none"
      BY <1>0, <2>1, <3>1, <3>2 DEF TypeOK, TaskType
    <3> QED BY <1>2, <2>2, <3>1, <3>3
  <2> QED BY <2>1, <2>3, <2>4, WriteFacts
<1>16. CASE StreamJobs
  BY <1>2, <1>16 DEF StreamJobs
<1>17. CASE FetchRead
  <2>1. /\ stream = "reading" /\ stream' = "read" /\ fetched' = db
        /\ UNCHANGED <<stamp, clock, saw, adding, live, held, pc>>
    BY <1>17 DEF FetchRead
  <2>2. \A j \in Ordered : j \in db => ~saw[j]
    BY <1>0, <1>1, <2>1 DEF SourceInv, StoredInv, FetchOver, Ordered
  <2>3. \A u \in Task : Came(u)' => Came(u)
    BY <2>1 DEF Came
  <2>4. \A j \in Ordered : saw[j] => /\ adding'[j] # "no" /\ stream' # "off"
                                     /\ ~FetchOver' => adding'[j] = "wait"
    BY <2>1 DEF SourceInv, FetchOver
  <2>5. \A n \in 1..Len(live') : live'[n] \in Ordered => saw[live'[n]]
    BY <2>1 DEF SourceInv
  <2> QED BY <1>0, <2>1, <2>2, <2>3, <2>4, <2>5, SourceFrame
<1>18. CASE FetchFinished
  BY <1>2, <1>18 DEF FetchFinished, FetchOver
<1>19. CASE Pause \/ Resume \/ Shutdown \/ ShutdownComplete
            \/ \E k \in Key : QueueIdle(k)
  BY <1>2, <1>19 DEF Pause, Resume, Shutdown, QueueIdle, ShutdownComplete
<1>20. CASE Restart
  <2>1. /\ UNCHANGED <<stamp, clock>> /\ saw' = [j \in Job |-> FALSE]
        /\ fetched' = {} /\ live' = <<>> /\ held' = {}
        /\ pc' = [t \in Task |-> "none"]
    BY <1>20 DEF Restart
  <2>2. \A j \in Ordered : ~saw'[j]
    BY <1>1, <2>1
  <2>3. \A t \in Task : ~Came(t)'
    BY <2>1 DEF Came
  <2>4. \A j \in Job : stamp'[j] <= clock'
    BY <2>1 DEF SourceInv
  <2>5. \A n \in 1..Len(live') : FALSE
    BY <2>1
  <2> QED BY <2>1, <2>2, <2>3, <2>4, <2>5 DEF SourceInv
<1>21. CASE UNCHANGED vars
  BY <1>2, <1>21 DEF vars
<1> QED
  BY <1>3, <1>5, <1>6, <1>8, <1>9, <1>10, <1>11, <1>12, <1>13, <1>14, <1>15,
     <1>16, <1>17, <1>18, <1>19, <1>20, <1>21 DEF Next, AddStep, StreamStep

-----------------------------------------------------------------------------
(* The stages of store.insert.                                             *)

\* Steps that commit nothing, and post at most a delete.
LEMMA AddFrame ==
    ASSUME TypeOK, AddOrder, stamp' = stamp,
           \A j \in Ordered : saw'[j] = saw[j] /\ adding'[j] = adding[j],
           writes' = writes \/ \E t \in Task : writes' = Append(writes, DeleteOf(t))
    PROVE  AddOrder'
<1>1. writes \in Seq(Write) /\ Len(writes) \in Nat
  BY DEF TypeOK, DurableType
<1>2. /\ \A n \in 1..Len(writes) : n \in 1..Len(writes') /\ writes'[n] = writes[n]
      /\ \A n \in 1..Len(writes') : n \in 1..Len(writes)
                                    \/ \A j \in Job : writes'[n] # InsertOf(j)
  <2>1. CASE writes' = writes
    BY <2>1
  <2>2. CASE writes' # writes
    <3>1. PICK t \in Task : writes' = Append(writes, DeleteOf(t))
      BY <2>2
    <3>2. /\ Len(writes') = Len(writes) + 1
          /\ writes'[Len(writes) + 1] = DeleteOf(t)
          /\ \A n \in 1..Len(writes) : writes'[n] = writes[n]
      BY <1>1, <3>1, WriteFacts, AppendProperties
    <3>3. \A j \in Job : DeleteOf(t) # InsertOf(j)
      BY WriteFacts
    <3> QED BY <1>1, <3>2, <3>3
  <2> QED BY <2>1, <2>2
<1>3. \A i, j \in Ordered : Before(i, j)' <=> Before(i, j)
  BY DEF Before
<1>4. \A j \in Ordered : adding'[j] = "insert" =>
         \E n \in 1..Len(writes') : writes'[n] = InsertOf(j)
  BY <1>2 DEF AddOrder
<1>5. \A m, n \in 1..Len(writes') : \A i, j \in Ordered :
          /\ m < n /\ saw'[i] /\ saw'[j]
          /\ writes'[m] = InsertOf(i) /\ writes'[n] = InsertOf(j)
          => stamp'[i] <= stamp'[j]
  <2> SUFFICES ASSUME NEW m \in 1..Len(writes'), NEW n \in 1..Len(writes'),
                      NEW i \in Ordered, NEW j \in Ordered, m < n,
                      saw'[i], saw'[j],
                      writes'[m] = InsertOf(i), writes'[n] = InsertOf(j)
               PROVE  stamp'[i] <= stamp'[j]
    OBVIOUS
  <2>1. m \in 1..Len(writes) /\ n \in 1..Len(writes)
    BY <1>2 DEF Ordered
  <2> QED BY <1>2, <2>1 DEF AddOrder
<1>6. \A i, j \in Ordered : Before(i, j) /\ saw[i] =>
          /\ adding'[i] = "wait" => adding'[j] = "wait"
          /\ adding'[i] = "insert" => adding'[j] \in {"wait", "insert"}
          /\ adding'[i] = "stored" => adding'[j] # "done"
  BY DEF AddOrder
<1> QED BY <1>3, <1>4, <1>5, <1>6 DEF AddOrder

\* An adder posts its insert after those of the earlier ones, or before there
\* is a fetch to wait for.
LEMMA AddPosts ==
    ASSUME TypeOK, WriteInv, AddOrder, NEW j \in Job,
           adding[j] # "insert",
           writes' = Append(writes, InsertOf(j)),
           adding' = [adding EXCEPT ![j] = "insert"],
           \A i \in Ordered : saw'[i] = saw[i],
           \/ \A i \in Ordered : ~saw[i]
           \/ /\ \A i \in Ordered : stamp'[i] = stamp[i]
              /\ j \in Ordered =>
                   /\ adding[j] = "wait"
                   /\ \A i \in Ordered : Before(i, j) => adding[i] # "wait"
    PROVE  AddOrder'
<1>1. /\ writes \in Seq(Write) /\ Len(writes) \in Nat
      /\ adding \in [Job -> {"no", "wait", "insert", "stored", "done"}]
      /\ Ordered \subseteq Job /\ stamp \in [Job -> Nat]
  BY DEF TypeOK, DurableType, AddType, Ordered
<1>2. /\ Len(writes') = Len(writes) + 1
      /\ writes'[Len(writes) + 1] = InsertOf(j)
      /\ \A n \in 1..Len(writes) : writes'[n] = writes[n]
  BY <1>1, WriteFacts, AppendProperties
<1>9. \A n \in 1..Len(writes') : n \in 1..Len(writes) \/ n = Len(writes) + 1
  <2>1. Len(writes) \in Nat /\ Len(writes') = Len(writes) + 1
    BY <1>1, <1>2
  <2> QED BY ONLY <2>1
<1>3. \A i \in Job : adding'[i] = IF i = j THEN "insert" ELSE adding[i]
  BY <1>1
<1>4. \A n \in 1..Len(writes) : writes[n] # InsertOf(j)
  BY NotPosted
<1>5. \A i \in Job : InsertOf(i) = InsertOf(j) => i = j
  BY DEF InsertOf
<1>6. \A i \in Ordered : adding'[i] = "insert" =>
         \E n \in 1..Len(writes') : writes'[n] = InsertOf(i)
  <2> SUFFICES ASSUME NEW i \in Ordered, adding'[i] = "insert"
               PROVE  \E n \in 1..Len(writes') : writes'[n] = InsertOf(i)
    OBVIOUS
  <2>1. CASE i = j
    BY <1>1, <1>2, <2>1
  <2>2. CASE i # j
    <3>1. PICK n \in 1..Len(writes) : writes[n] = InsertOf(i)
      BY <1>1, <1>3, <2>2 DEF AddOrder
    <3> QED BY <1>1, <1>2, <3>1
  <2> QED BY <2>1, <2>2
<1>7. \A m, n \in 1..Len(writes') : \A h, i \in Ordered :
          /\ m < n /\ saw'[h] /\ saw'[i]
          /\ writes'[m] = InsertOf(h) /\ writes'[n] = InsertOf(i)
          => stamp'[h] <= stamp'[i]
  <2> SUFFICES ASSUME NEW m \in 1..Len(writes'), NEW n \in 1..Len(writes'),
                      NEW h \in Ordered, NEW i \in Ordered, m < n,
                      saw'[h], saw'[i],
                      writes'[m] = InsertOf(h), writes'[n] = InsertOf(i)
               PROVE  stamp'[h] <= stamp'[i]
    OBVIOUS
  <2>1. m \in 1..Len(writes) /\ writes[m] = InsertOf(h)
    BY <1>1, <1>2
  <2>2. saw[h] /\ saw[i] /\ stamp'[h] = stamp[h] /\ stamp'[i] = stamp[i]
        /\ (j \in Ordered => adding[j] = "wait")
    OBVIOUS
  <2>3. CASE n \in 1..Len(writes)
    <3>1. writes[n] = InsertOf(i)
      BY <1>2, <2>3
    <3>2. stamp[h] <= stamp[i]
      BY <2>1, <2>2, <2>3, <3>1 DEF AddOrder
    <3> QED BY <2>2, <3>2
  <2>4. CASE n = Len(writes) + 1
    <3>1. i = j
      BY <1>1, <1>2, <1>5, <2>4
    <3>2. adding[h] = "insert"
      <4>1. writes[m].op = "insert" /\ writes[m].task.job = h
        BY <1>1, <2>1, WriteFacts
      <4> QED BY <2>1, <4>1 DEF WriteInv
    <3>3. ~Before(j, h)
      BY <2>2, <3>1, <3>2 DEF AddOrder
    <3>4. stamp[h] \in Nat /\ stamp[i] \in Nat
      BY <1>1
    <3>5. ~(stamp[i] < stamp[h])
      BY <3>1, <3>3 DEF Before
    <3>6. stamp[h] <= stamp[i]
      BY <3>4, <3>5
    <3> QED BY <2>2, <3>6
  <2> QED BY <1>9, <2>3, <2>4
<1>8. \A h, i \in Ordered : Before(h, i)' /\ saw'[h] =>
          /\ adding'[h] = "wait" => adding'[i] = "wait"
          /\ adding'[h] = "insert" => adding'[i] \in {"wait", "insert"}
          /\ adding'[h] = "stored" => adding'[i] # "done"
  <2> SUFFICES ASSUME NEW h \in Ordered, NEW i \in Ordered, Before(h, i)', saw[h]
               PROVE  /\ adding'[h] = "wait" => adding'[i] = "wait"
                      /\ adding'[h] = "insert" => adding'[i] \in {"wait", "insert"}
                      /\ adding'[h] = "stored" => adding'[i] # "done"
    OBVIOUS
  <2>1. /\ Before(h, i)
        /\ j \in Ordered => /\ adding[j] = "wait"
                            /\ \A x \in Ordered : Before(x, j) => adding[x] # "wait"
    BY <1>1 DEF Before
  <2>2. CASE h = j
    <3>1. adding[i] = "wait" /\ i # j
      BY <1>1, <2>1, <2>2 DEF AddOrder, Before
    <3> QED BY <1>1, <1>3, <2>2, <3>1
  <2>3. CASE h # j /\ i = j
    BY <1>1, <1>3, <2>1, <2>3
  <2>4. CASE h # j /\ i # j
    <3>1. adding'[h] = adding[h] /\ adding'[i] = adding[i]
      BY <1>1, <1>3, <2>4
    <3> QED BY <2>1, <3>1 DEF AddOrder
  <2> QED BY <2>2, <2>3, <2>4
<1> QED BY <1>6, <1>7, <1>8 DEF AddOrder

\* An adder that takes another step passes no earlier one.
LEMMA AddMoves ==
    ASSUME TypeOK, AddOrder, NEW j \in Job, NEW v \in {"wait", "stored", "done"},
           writes' = writes, stamp' = stamp,
           \A i \in Ordered : saw'[i] = saw[i],
           adding' = [adding EXCEPT ![j] = v],
           \A i \in Ordered : j \in Ordered /\ Before(i, j) /\ saw[i]
                  => /\ adding[i] \notin {"wait", "insert"} /\ v # "wait"
                     /\ adding[i] = "stored" => v # "done",
           j \in Ordered => v = "done"
    PROVE  AddOrder'
<1>1. /\ adding \in [Job -> {"no", "wait", "insert", "stored", "done"}]
      /\ Ordered \subseteq Job
  BY DEF TypeOK, AddType, Ordered
<1>2. \A i \in Job : adding'[i] = IF i = j THEN v ELSE adding[i]
  BY <1>1
<1>3. \A i, h \in Ordered : Before(i, h)' <=> Before(i, h)
  BY DEF Before
<1>4. \A h, i \in Ordered : Before(h, i) /\ saw[h] =>
          /\ adding'[h] = "wait" => adding'[i] = "wait"
          /\ adding'[h] = "insert" => adding'[i] \in {"wait", "insert"}
          /\ adding'[h] = "stored" => adding'[i] # "done"
  <2> SUFFICES ASSUME NEW h \in Ordered, NEW i \in Ordered, Before(h, i), saw[h]
               PROVE  /\ adding'[h] = "wait" => adding'[i] = "wait"
                      /\ adding'[h] = "insert" => adding'[i] \in {"wait", "insert"}
                      /\ adding'[h] = "stored" => adding'[i] # "done"
    OBVIOUS
  <2>1. CASE h = j
    BY <1>1, <1>2, <2>1
  <2>2. CASE h # j /\ i = j
    BY <1>1, <1>2, <2>2
  <2>3. CASE h # j /\ i # j
    BY <1>1, <1>2, <2>3 DEF AddOrder
  <2> QED BY <2>1, <2>2, <2>3
<1>5. \A i \in Ordered : adding'[i] = "insert" =>
         \E n \in 1..Len(writes') : writes'[n] = InsertOf(i)
  BY <1>1, <1>2 DEF AddOrder
<1>6. \A m, n \in 1..Len(writes') : \A h, i \in Ordered :
          /\ m < n /\ saw'[h] /\ saw'[i]
          /\ writes'[m] = InsertOf(h) /\ writes'[n] = InsertOf(i)
          => stamp'[h] <= stamp'[i]
  BY DEF AddOrder
<1> QED BY <1>3, <1>4, <1>5, <1>6 DEF AddOrder

\* The worker commits the inserts in the order in which they were posted.
LEMMA AddCommits ==
    ASSUME IndInv, AddOrder, SourceInv, CommitWrite
    PROVE  AddOrder'
<1> DEFINE w == writes[1]
<1>0. TypeOK /\ WriteInv
  BY DEF IndInv
<1>1. /\ writes \in Seq(Write) /\ writes # <<>> /\ Len(writes) \in Nat \ {0}
      /\ writes' = Tail(writes) /\ Head(writes) = w /\ w \in Write
      /\ w.task \in Task /\ w.task.job \in Job
      /\ adding \in [Job -> {"no", "wait", "insert", "stored", "done"}]
      /\ stamp \in [Job -> Nat] /\ Ordered \subseteq Job
      /\ stamp' = stamp /\ saw' = saw
  BY <1>0, WriteFacts, TaskFacts
     DEF CommitWrite, TypeOK, DurableType, AddType, Ordered, birthVars
<1>2. /\ Len(writes') = Len(writes) - 1
      /\ \A n \in 1..Len(writes') : writes'[n] = writes[n + 1]
      /\ \A n \in 1..Len(writes') : n + 1 \in 1..Len(writes)
      /\ \A n \in 1..Len(writes) : n = 1 \/ n - 1 \in 1..Len(writes')
  BY <1>1, HeadTailProperties
<1>3. \A m, n \in 1..Len(writes') : \A h, i \in Ordered :
          /\ m < n /\ saw'[h] /\ saw'[i]
          /\ writes'[m] = InsertOf(h) /\ writes'[n] = InsertOf(i)
          => stamp'[h] <= stamp'[i]
  <2> SUFFICES ASSUME NEW m \in 1..Len(writes'), NEW n \in 1..Len(writes'),
                      NEW h \in Ordered, NEW i \in Ordered, m < n, saw[h], saw[i],
                      writes'[m] = InsertOf(h), writes'[n] = InsertOf(i)
               PROVE  stamp[h] <= stamp[i]
    BY <1>1
  <2>1. /\ m + 1 \in 1..Len(writes) /\ n + 1 \in 1..Len(writes) /\ m + 1 < n + 1
        /\ writes[m + 1] = InsertOf(h) /\ writes[n + 1] = InsertOf(i)
    BY <1>2
  <2> QED BY <2>1 DEF AddOrder
<1>4. \A h, i \in Ordered : Before(h, i)' <=> Before(h, i)
  BY <1>1 DEF Before
<1>5. CASE w.op = "delete"
  <2>1. adding' = adding
    BY <1>1, <1>5 DEF CommitWrite
  <2>2. \A i \in Ordered : adding'[i] = "insert" =>
           \E n \in 1..Len(writes') : writes'[n] = InsertOf(i)
    <3> SUFFICES ASSUME NEW i \in Ordered, adding[i] = "insert"
                 PROVE  \E n \in 1..Len(writes') : writes'[n] = InsertOf(i)
      BY <2>1
    <3>1. PICK n \in 1..Len(writes) : writes[n] = InsertOf(i)
      BY DEF AddOrder
    <3>2. InsertOf(i) # w
      BY <1>1, <1>5, WriteFacts
    <3>3. n - 1 \in 1..Len(writes') /\ (n - 1) + 1 = n
      BY <1>1, <1>2, <3>1, <3>2
    <3>4. writes'[n - 1] = InsertOf(i)
      BY <1>2, <3>1, <3>3
    <3> QED BY <3>3, <3>4
  <2> QED BY <1>1, <1>3, <1>4, <2>1, <2>2 DEF AddOrder
<1>6. CASE w.op = "insert"
  <2> DEFINE j == w.task.job
  <2>1. /\ adding' = [adding EXCEPT ![j] = "stored"] /\ j \in Job
        /\ 1 \in 1..Len(writes)
    BY <1>1, <1>6 DEF CommitWrite
  <2>2. w = InsertOf(j) /\ adding[j] = "insert"
    BY <1>0, <1>6, <2>1 DEF WriteInv
  <2>3. \A i \in Job : adding'[i] = IF i = j THEN "stored" ELSE adding[i]
    BY <1>1, <2>1
  <2>4. \A i \in Ordered : adding'[i] = "insert" =>
           \E n \in 1..Len(writes') : writes'[n] = InsertOf(i)
    <3> SUFFICES ASSUME NEW i \in Ordered, adding'[i] = "insert"
                 PROVE  \E n \in 1..Len(writes') : writes'[n] = InsertOf(i)
      OBVIOUS
    <3>0. i # j /\ adding[i] = "insert"
      BY <1>1, <2>3
    <3>1. PICK n \in 1..Len(writes) : writes[n] = InsertOf(i)
      BY <3>0 DEF AddOrder
    <3>2. InsertOf(i) # w
      BY <2>2, <3>0 DEF InsertOf
    <3>3. n - 1 \in 1..Len(writes') /\ (n - 1) + 1 = n
      BY <1>1, <1>2, <3>1, <3>2
    <3>4. writes'[n - 1] = InsertOf(i)
      BY <1>2, <3>1, <3>3
    <3> QED BY <3>3, <3>4
  <2>5. ASSUME NEW h \in Ordered, j \in Ordered, Before(h, j), saw[h]
        PROVE  adding[h] \notin {"wait", "insert"}
    <3>1. saw[j]
      BY <2>5 DEF SourceInv
    <3>2. adding[h] # "wait"
      BY <2>2, <2>5 DEF AddOrder
    <3>3. SUFFICES ASSUME adding[h] = "insert" PROVE FALSE
      BY <3>2
    <3>4. PICK n \in 1..Len(writes) : writes[n] = InsertOf(h)
      BY <3>3 DEF AddOrder
    <3>5. h # j
      BY <1>1, <2>5 DEF Before
    <3>6. InsertOf(h) # InsertOf(j)
      BY <3>5 DEF InsertOf
    <3>7. 1 < n
      BY <2>2, <3>4, <3>6
    <3>8. stamp[j] <= stamp[h]
      BY <2>1, <2>2, <2>5, <3>1, <3>4, <3>7 DEF AddOrder
    <3> QED BY <1>1, <2>5, <3>8 DEF Before
  <2>6. \A h, i \in Ordered : Before(h, i) /\ saw[h] =>
          /\ adding'[h] = "wait" => adding'[i] = "wait"
          /\ adding'[h] = "insert" => adding'[i] \in {"wait", "insert"}
          /\ adding'[h] = "stored" => adding'[i] # "done"
    <3> SUFFICES ASSUME NEW h \in Ordered, NEW i \in Ordered, Before(h, i), saw[h]
                 PROVE  /\ adding'[h] = "wait" => adding'[i] = "wait"
                        /\ adding'[h] = "insert" => adding'[i] \in {"wait", "insert"}
                        /\ adding'[h] = "stored" => adding'[i] # "done"
      OBVIOUS
    <3>1. CASE h = j
      <4>1. adding[i] \in {"wait", "insert"}
        BY <2>2, <3>1 DEF AddOrder
      <4> QED BY <1>1, <2>3, <3>1, <4>1
    <3>2. CASE h # j /\ i = j
      BY <1>1, <2>3, <2>5, <3>2
    <3>3. CASE h # j /\ i # j
      <4>1. adding'[h] = adding[h] /\ adding'[i] = adding[i]
        BY <1>1, <2>3, <3>3
      <4> QED BY <4>1 DEF AddOrder
    <3> QED BY <3>1, <3>2, <3>3
  <2> QED BY <1>1, <1>3, <1>4, <2>4, <2>6 DEF AddOrder
<1> QED BY <1>1, <1>5, <1>6, WriteFacts

\* Every step keeps the adders in order.
LEMMA AddOrderStep ==
    ASSUME IndInv, SourceInv, AddOrder, [Next]_vars PROVE AddOrder'
<1> USE DEF addVars, storeVars, flagVars, taskVars, birthVars
<1>0. TypeOK /\ WriteInv
  BY DEF IndInv
<1>1. /\ stamp \in [Job -> Nat] /\ clock \in Nat
      /\ adding \in [Job -> {"no", "wait", "insert", "stored", "done"}]
      /\ saw \in [Job -> BOOLEAN] /\ Ordered \subseteq Job
  BY <1>0 DEF TypeOK, DurableType, AddType, Ordered
<1>2. ASSUME UNCHANGED <<stamp, saw, adding>>,
             writes' = writes \/ \E t \in Task : writes' = Append(writes, DeleteOf(t))
      PROVE  AddOrder'
  BY <1>0, <1>2, AddFrame
<1>3. ASSUME NEW j \in Job, Add(j) PROVE AddOrder'
  <2>1. /\ adding[j] = "no" /\ stamp' = [stamp EXCEPT ![j] = clock + 1]
    BY <1>3 DEF Add
  <2>2. \A i \in Job : i # j => stamp'[i] = stamp[i]
    BY <1>1, <2>1
  <2>3. CASE j \notin Overridden /\ FetchBegun
    <3>1. /\ saw' = [saw EXCEPT ![j] = TRUE] /\ writes' = writes
          /\ adding' = [adding EXCEPT ![j] = "wait"]
      BY <1>3, <2>3 DEF Add
    <3>2. /\ \A i \in Job : i # j => saw'[i] = saw[i] /\ adding'[i] = adding[i]
          /\ adding'[j] = "wait" /\ stamp'[j] = clock + 1
      BY <1>1, <2>1, <3>1
    <3>3. \A i \in Ordered : stamp[i] \in Nat /\ stamp[i] <= clock
      BY <1>1 DEF SourceInv
    <3>4. \A h, i \in Ordered : Before(h, i)' => h # j
      BY <1>1, <2>2, <3>2, <3>3 DEF Before
    <3>5. \A h, i \in Ordered : Before(h, i)' /\ saw'[h] =>
          /\ adding'[h] = "wait" => adding'[i] = "wait"
          /\ adding'[h] = "insert" => adding'[i] \in {"wait", "insert"}
          /\ adding'[h] = "stored" => adding'[i] # "done"
      <4> SUFFICES ASSUME NEW h \in Ordered, NEW i \in Ordered, Before(h, i)', saw'[h]
                   PROVE  /\ adding'[h] = "wait" => adding'[i] = "wait"
                          /\ adding'[h] = "insert" => adding'[i] \in {"wait", "insert"}
                          /\ adding'[h] = "stored" => adding'[i] # "done"
        OBVIOUS
      <4>1. h # j /\ saw[h] /\ adding'[h] = adding[h]
        BY <1>1, <3>2, <3>4
      <4>2. CASE i = j
        BY <3>2, <4>2
      <4>3. CASE i # j
        <5>1. Before(h, i) /\ adding'[i] = adding[i]
          BY <1>1, <2>2, <3>2, <4>1, <4>3 DEF Before
        <5> QED BY <4>1, <5>1 DEF AddOrder
      <4> QED BY <4>2, <4>3
    <3>6. \A i \in Ordered : adding'[i] = "insert" =>
             \E n \in 1..Len(writes') : writes'[n] = InsertOf(i)
      BY <1>1, <3>1, <3>2 DEF AddOrder
    <3>7. \A m, n \in 1..Len(writes') : \A h, i \in Ordered :
            /\ m < n /\ saw'[h] /\ saw'[i]
            /\ writes'[m] = InsertOf(h) /\ writes'[n] = InsertOf(i)
            => stamp'[h] <= stamp'[i]
      <4> SUFFICES ASSUME NEW m \in 1..Len(writes), NEW n \in 1..Len(writes),
                          NEW h \in Ordered, NEW i \in Ordered, m < n, saw'[h], saw'[i],
                          writes[m] = InsertOf(h), writes[n] = InsertOf(i)
                   PROVE  stamp'[h] <= stamp'[i]
        BY <3>1
      <4>1. h # j /\ i # j
        BY <1>0, <2>1, NotPosted
      <4> QED BY <1>1, <2>2, <3>2, <4>1 DEF AddOrder
    <3> QED BY <3>5, <3>6, <3>7 DEF AddOrder
  <2>4. CASE j \in Overridden \/ ~FetchBegun
    <3>1. CASE j \notin Overridden /\ FetchBegun
      BY <2>3, <3>1
    <3>2. CASE ~(j \notin Overridden /\ FetchBegun)
      <4>1. /\ saw' = saw /\ writes' = Append(writes, InsertOf(j))
            /\ adding' = [adding EXCEPT ![j] = "insert"]
        BY <1>3, <3>2 DEF Add
      <4>2. CASE j \in Overridden
        <5>1. \A i \in Ordered : stamp'[i] = stamp[i]
          BY <1>1, <2>2, <4>2 DEF Ordered
        <5> QED BY <1>0, <2>1, <4>1, <4>2, <5>1, AddPosts DEF Ordered
      <4>3. CASE ~FetchBegun
        <5>1. \A i \in Ordered : ~saw[i]
          BY <4>3 DEF FetchBegun, SourceInv
        <5> QED BY <1>0, <2>1, <4>1, <5>1, AddPosts
      <4> QED BY <3>2, <4>2, <4>3
    <3> QED BY <3>1, <3>2
  <2> QED BY <2>3, <2>4
<1>4. ASSUME NEW j \in Job, FetchAwaited(j) PROVE AddOrder'
  <2>1. /\ adding[j] = "wait" /\ UNCHANGED <<stamp, saw>>
        /\ \A i \in Job : adding[i] = "wait" => stamp[j] <= stamp[i]
    BY <1>4 DEF FetchAwaited
  <2>2. CASE j \notin Overridden
    <3>1. /\ adding' = [adding EXCEPT ![j] = "insert"]
          /\ writes' = Append(writes, InsertOf(j))
      BY <1>4, <2>2 DEF FetchAwaited
    <3>2. \A i \in Ordered : Before(i, j) => adding[i] # "wait"
      BY <1>1, <2>1 DEF Before
    <3> QED BY <1>0, <2>1, <3>1, <3>2, AddPosts
  <2>3. CASE j \in Overridden
    BY <1>0, <1>4, <2>3, AddMoves DEF FetchAwaited, Ordered
  <2> QED BY <2>2, <2>3
<1>5. ASSUME NEW j \in Job, RowCommitted(j) PROVE AddOrder'
  <2>1. adding[j] = "stored" /\ UNCHANGED <<stamp, writes>>
    BY <1>5 DEF RowCommitted
  <2>2. CASE j \in Overridden
    <3>1. \A i \in Ordered : saw'[i] = saw[i]
      BY <1>1, <1>5, <2>2 DEF RowCommitted, Ordered
    <3>2. PICK v \in {"wait", "done"} : adding' = [adding EXCEPT ![j] = v]
      BY <1>5, <2>2 DEF RowCommitted
    <3> QED BY <1>0, <2>1, <2>2, <3>1, <3>2, AddMoves DEF Ordered
  <2>3. CASE j \notin Overridden
    <3>1. /\ saw' = saw /\ adding' = [adding EXCEPT ![j] = "done"]
          /\ \A i \in Job : adding[i] = "stored" /\ i \notin Overridden
                               => stamp[j] <= stamp[i]
      BY <1>5, <2>3 DEF RowCommitted
    <3>2. ASSUME NEW i \in Ordered, j \in Ordered, Before(i, j), saw[i]
          PROVE  adding[i] \notin {"wait", "insert"} /\ adding[i] # "stored"
      <4>1. adding[i] # "stored"
        BY <1>1, <3>1, <3>2 DEF Before, Ordered
      <4>2. adding[i] \notin {"wait", "insert"}
        BY <2>1, <3>2 DEF AddOrder
      <4> QED BY <4>1, <4>2
    <3> QED BY <1>0, <2>1, <3>1, <3>2, AddMoves
  <2> QED BY <2>2, <2>3
<1>6. ASSUME NEW t \in Task, StreamStep(t) \/ EnqueueAgain(t) PROVE AddOrder'
  <2>1. UNCHANGED <<stamp, saw, adding>>
    BY <1>6 DEF StreamStep, StreamStops, StreamHolds, StreamEnqueues,
                StreamResumes, EnqueueAgain
  <2>2. writes' = writes \/ writes' = Append(writes, DeleteOf(t))
    BY <1>6 DEF StreamStep, StreamStops, StreamHolds, StreamEnqueues,
                StreamResumes, EnqueueAgain, EnqueueStoredJob
  <2> QED BY <1>2, <2>1, <2>2
<1>7. ASSUME NEW t \in Task, StartJob(t) \/ RunStep(t) PROVE AddOrder'
  BY <1>2, <1>7 DEF StartJob, RunStep, RunSucceeds, RunNeedsRetry, RunFails
<1>8. ASSUME NEW t \in Task, AfterRun(t) PROVE AddOrder'
  BY <1>2, <1>8 DEF AfterRun, PostDelete, KeepRow, Settle
<1>9. CASE CommitWrite
  BY <1>9, AddCommits
<1>10. CASE StreamJobs \/ FetchRead \/ FetchFinished
  BY <1>2, <1>10 DEF StreamJobs, FetchRead, FetchFinished
<1>11. CASE Pause \/ Resume \/ Shutdown \/ ShutdownComplete
            \/ \E k \in Key : QueueIdle(k)
  BY <1>2, <1>11 DEF Pause, Resume, Shutdown, QueueIdle, ShutdownComplete
<1>12. CASE Restart
  <2>1. /\ saw' = [j \in Job |-> FALSE] /\ writes' = <<>>
        /\ adding' = [j \in Job |-> IF adding[j] = "no" THEN "no" ELSE "done"]
    BY <1>12 DEF Restart
  <2>2. \A j \in Ordered : ~saw'[j] /\ adding'[j] # "insert"
    BY <1>1, <2>1
  <2> QED BY <2>2 DEF AddOrder
<1>13. CASE UNCHANGED vars
  BY <1>2, <1>13 DEF vars
<1> QED
  BY <1>3, <1>4, <1>5, <1>6, <1>7, <1>8, <1>9, <1>10, <1>11, <1>12, <1>13
  DEF Next, AddStep

-----------------------------------------------------------------------------
(* The order of the stream.                                                *)

\* Steps that put nothing into the stream and take nothing out of it.
LEMMA StreamOrderFrame ==
    ASSUME TypeOK, StreamOrder, stamp' = stamp, live' = live,
           \A i \in Ordered : Upstream(i)' => Upstream(i),
           \A t \in Task : Came(t)' => Came(t),
           \A t \in held' : t \in held,
           \A t \in Task : pc[t] = "none" => pc'[t] = "none"
    PROVE  StreamOrder'
<1>1. held \subseteq Task
  BY DEF TypeOK, StreamType
<1> QED BY <1>1 DEF StreamOrder, Before

\* A step of an adder, which may end by appending to the live queue.
LEMMA StreamOrderAdder ==
    ASSUME TypeOK, StreamInv, SourceInv, AddOrder, StreamOrder,
           NEW j \in Job, NEW v \in {"wait", "insert", "stored", "done"},
           UNCHANGED <<stamp, fetched, held>>,
           \A t \in Task : pc'[t] = "none" <=> pc[t] = "none",
           \A i \in Ordered : saw'[i] = saw[i],
           adding' = [adding EXCEPT ![j] = v], adding[j] # "done",
           \/ live' = live
           \/ /\ live' = Append(live, j)
              /\ j \in Ordered => saw[j] /\ adding[j] = "stored"
    PROVE  StreamOrder'
<1>1. /\ adding \in [Job -> {"no", "wait", "insert", "stored", "done"}]
      /\ stamp \in [Job -> Nat] /\ Ordered \subseteq Job
      /\ live \in Seq(Job) /\ \A n \in 1..Len(live) : live[n] \in Job
      /\ held \subseteq Task
  BY DEF TypeOK, DurableType, AddType, StreamType, Ordered
<1>2. \A i \in Job : adding'[i] # "done" => adding[i] # "done"
  BY <1>1
<1>3. \A n \in 1..Len(live') : \/ n \in 1..Len(live) /\ live'[n] = live[n]
                               \/ /\ n = Len(live) + 1 /\ live'[n] = j
                                  /\ live' = Append(live, j)
  BY LiveGrows
<1>4. \A i \in Ordered : Upstream(i)' => Upstream(i)
  <2> SUFFICES ASSUME NEW i \in Ordered, Upstream(i)' PROVE Upstream(i)
    OBVIOUS
  <2>1. CASE InLive(i)'
    <3>1. PICK n \in 1..Len(live') : live'[n] = i
      BY <2>1 DEF InLive
    <3>2. CASE n \in 1..Len(live) /\ live'[n] = live[n]
      BY <3>1, <3>2 DEF Upstream, InLive
    <3>3. CASE live'[n] = j /\ live' = Append(live, j)
      <4>1. i = j
        BY <3>1, <3>3
      <4>2. live' # live
        BY <1>1, <3>3, AppendProperties
      <4>3. saw[j]
        BY <4>1, <4>2
      <4> QED BY <4>1, <4>3 DEF Upstream
    <3> QED BY <1>3, <3>2, <3>3
  <2>2. CASE i \in fetched' \/ (saw'[i] /\ adding'[i] # "done")
    BY <1>1, <1>2, <2>2 DEF Upstream
  <2> QED BY <2>1, <2>2 DEF Upstream
<1>5. CASE live' = live
  <2>1. \A t \in Task : Came(t)' => Came(t)
    BY DEF Came
  <2> QED BY <1>4, <1>5, <2>1, StreamOrderFrame
<1>6. CASE live' = Append(live, j) /\ live' # live
  <2>1. j \in Ordered => saw[j] /\ adding[j] = "stored"
    BY <1>6
  <2>2. \A m \in 1..Len(live) :
          live[m] \in Ordered /\ j \in Ordered => stamp[live[m]] <= stamp[j]
    <3> SUFFICES ASSUME NEW m \in 1..Len(live), live[m] \in Ordered, j \in Ordered
                 PROVE  stamp[live[m]] <= stamp[j]
      OBVIOUS
    <3>1. adding[live[m]] = "done"
      BY DEF StreamInv
    <3>2. ~Before(j, live[m])
      BY <2>1, <3>1 DEF AddOrder
    <3>3. stamp[live[m]] \in Nat /\ stamp[j] \in Nat
      BY <1>1
    <3> QED BY <3>2, <3>3 DEF Before
  <2>3. \A m, n \in 1..Len(live') :
          m < n /\ live'[m] \in Ordered /\ live'[n] \in Ordered
             => stamp[live'[m]] <= stamp[live'[n]]
    <3> SUFFICES ASSUME NEW m \in 1..Len(live'), NEW n \in 1..Len(live'), m < n,
                        live'[m] \in Ordered, live'[n] \in Ordered
                 PROVE  stamp[live'[m]] <= stamp[live'[n]]
      OBVIOUS
    <3>1. m \in Nat /\ n \in Nat /\ Len(live) \in Nat
      BY <1>1
    <3>2. CASE n \in 1..Len(live) /\ live'[n] = live[n]
      <4>1. m \in 1..Len(live) /\ live'[m] = live[m]
        BY <1>3, <3>1, <3>2
      <4> QED BY <3>2, <4>1 DEF StreamOrder
    <3>3. CASE n = Len(live) + 1 /\ live'[n] = j
      <4>1. m \in 1..Len(live) /\ live'[m] = live[m]
        BY <1>3, <3>1, <3>3
      <4> QED BY <2>2, <3>3, <4>1
    <3> QED BY <1>3, <3>2, <3>3
  <2>4. \A t \in Task : Came(t)' => Came(t)
    BY DEF Came
  <2> QED BY <1>1, <1>4, <2>3, <2>4 DEF StreamOrder, Before
<1> QED BY <1>5, <1>6

\* What the stream produces could still come out of it.
LEMMA NextIsUpstream ==
    ASSUME TypeOK, NEW t \in Task, IsNext(t) PROVE Upstream(t.job)
<1>1. CASE t.src = "fetched"
  BY <1>1 DEF IsNext, Upstream
<1>2. CASE t.src = "live"
  <2>1. live \in Seq(Job) /\ live # <<>> /\ t.job = Head(live)
    BY <1>2 DEF IsNext, TypeOK, StreamType
  <2>2. 1 \in 1..Len(live) /\ live[1] = t.job
    BY <2>1, HeadTailProperties
  <2> QED BY <2>2 DEF Upstream, InLive
<1> QED BY <1>1, <1>2, TaskFacts

\* What the stream produces is the earliest of what may still come out of it.
LEMMA NextIsEarliest ==
    ASSUME TypeOK, StreamInv, SourceInv, AddOrder, StreamOrder,
           NEW t \in Task, IsNext(t), Consume(t), t.job \in Ordered,
           UNCHANGED <<saw, adding>>,
           NEW i \in Ordered, Before(i, t.job)
    PROVE  ~Upstream(i)'
<1>1. /\ stamp \in [Job -> Nat] /\ Ordered \subseteq Job /\ live \in Seq(Job)
      /\ adding \in [Job -> {"no", "wait", "insert", "stored", "done"}]
      /\ t.job \in Job /\ i \in Job
  BY TaskFacts DEF TypeOK, DurableType, AddType, StreamType, Ordered
<1>2. ~(stamp[t.job] <= stamp[i])
  BY <1>1 DEF Before
<1>3. t.src = "live" <=> saw[t.job]
  BY NextSource
<1>4. CASE t.src = "fetched"
  <2>1. ~saw[i]
    BY <1>3, <1>4 DEF SourceInv
  <2>2. /\ t.job \in fetched /\ live' = live /\ fetched' \subseteq fetched
        /\ \A h \in fetched : stamp[t.job] <= stamp[h]
    BY <1>4 DEF IsNext, Consume
  <2>3. i \notin fetched'
    BY <1>2, <2>2
  <2>4. ~InLive(i)'
    BY <2>1, <2>2 DEF InLive, SourceInv
  <2> QED BY <2>1, <2>2, <2>3, <2>4 DEF Upstream
<1>5. CASE t.src = "live"
  <2>1. fetched = {} /\ live # <<>> /\ t.job = Head(live)
    BY <1>5 DEF IsNext
  <2>2. live' = Tail(live) /\ fetched' = {}
    BY <1>5, <2>1 DEF Consume
  <2>3. /\ Len(live) \in Nat \ {0} /\ live[1] = t.job
        /\ Len(live') = Len(live) - 1
        /\ \A n \in 1..Len(live') : live'[n] = live[n + 1]
    BY <1>1, <2>1, <2>2, HeadTailProperties
  <2>4. 1 \in 1..Len(live) /\ \A n \in 1..Len(live') : n + 1 \in 1..Len(live) /\ 1 < n + 1
    BY <2>3
  <2>6. ~InLive(i)'
    <3> SUFFICES ASSUME NEW n \in 1..Len(live'), live'[n] = i PROVE FALSE
      BY DEF InLive
    <3>1. live[n + 1] = i /\ n + 1 \in 1..Len(live) /\ 1 < n + 1
      BY <2>3, <2>4
    <3>2. stamp[live[1]] <= stamp[live[n + 1]]
      BY <2>3, <2>4, <3>1 DEF StreamOrder
    <3> QED BY <1>2, <2>3, <3>1, <3>2
  <2>7. saw[i] => adding[i] = "done"
    <3> SUFFICES ASSUME saw[i] PROVE adding[i] = "done"
      OBVIOUS
    <3>1. adding[t.job] = "done"
      BY <1>5, ConsumeFacts
    <3>2. adding[i] # "no"
      BY DEF SourceInv
    <3>3. adding[i] # "wait" /\ adding[i] # "insert" /\ adding[i] # "stored"
      BY <3>1 DEF AddOrder
    <3> QED BY <1>1, <3>2, <3>3
  <2> QED BY <2>2, <2>6, <2>7 DEF Upstream
<1> QED BY <1>4, <1>5, TaskFacts

\* The stream produces an item, and holds it, hands it over or drops it.
LEMMA StreamOrderTakes ==
    ASSUME TypeOK, StreamInv, SourceInv, AddOrder, StreamOrder,
           NEW t \in Task, IsNext(t), Consume(t), held = {}, held' \subseteq {t},
           UNCHANGED <<stamp, saw, adding>>,
           \A u \in Task : u # t => pc'[u] = pc[u],
           held' = {t} => pc'[t] = "none"
    PROVE  StreamOrder'
<1>1. /\ stamp \in [Job -> Nat] /\ Ordered \subseteq Job /\ live \in Seq(Job)
      /\ fetched' \subseteq fetched
      /\ \A n \in 1..Len(live') : \E m \in 1..Len(live) : live'[n] = live[m]
  BY ConsumeFacts DEF TypeOK, DurableType, StreamType, Ordered
<1>2. \A i \in Ordered : Upstream(i)' => Upstream(i)
  <2> SUFFICES ASSUME NEW i \in Ordered, Upstream(i)' PROVE Upstream(i)
    OBVIOUS
  <2>1. InLive(i)' => InLive(i)
    BY <1>1 DEF InLive
  <2>2. i \in fetched' => i \in fetched
    BY <1>1
  <2> QED BY <2>1, <2>2 DEF Upstream
<1>3. \A m, n \in 1..Len(live') :
          m < n /\ live'[m] \in Ordered /\ live'[n] \in Ordered
             => stamp[live'[m]] <= stamp[live'[n]]
  <2>1. CASE live' = live
    BY <2>1 DEF StreamOrder
  <2>2. CASE live # <<>> /\ live' = Tail(live)
    <3>1. /\ Len(live) \in Nat \ {0} /\ Len(live') = Len(live) - 1
          /\ \A n \in 1..Len(live') : live'[n] = live[n + 1]
      BY <1>1, <2>2, HeadTailProperties
    <3>2. SUFFICES ASSUME NEW m \in 1..Len(live'), NEW n \in 1..Len(live'), m < n,
                          live'[m] \in Ordered, live'[n] \in Ordered
                   PROVE  stamp[live'[m]] <= stamp[live'[n]]
      OBVIOUS
    <3>3. /\ m + 1 \in 1..Len(live) /\ n + 1 \in 1..Len(live) /\ m + 1 < n + 1
          /\ live'[m] = live[m + 1] /\ live'[n] = live[n + 1]
      BY <3>1, <3>2
    <3> QED BY <3>2, <3>3 DEF StreamOrder
  <2> QED BY <2>1, <2>2 DEF Consume, IsNext
<1>4. ASSUME NEW i \in Ordered, NEW u \in Task, u.job \in Ordered,
             Before(i, u.job), Came(u)'
      PROVE  ~Upstream(i)'
  <2>1. CASE Came(u)
    BY <1>2, <1>4, <2>1 DEF StreamOrder
  <2>2. CASE u = t
    BY <1>4, <2>2, NextIsEarliest
  <2>3. u # t => Came(u)
    BY <1>4 DEF Came
  <2> QED BY <2>1, <2>2, <2>3
<1>5. ASSUME NEW x \in held', NEW u \in Task, x.job \in Ordered, u.job \in Ordered,
             Before(x.job, u.job)
      PROVE  pc'[u] = "none"
  <2>1. x = t /\ held' = {t}
    BY <1>5
  <2>2. CASE u = t
    BY <2>1, <2>2
  <2>3. CASE u # t
    <3>1. ~(stamp[u.job] < stamp[t.job])
      BY <1>1, <1>5, <2>1 DEF Before
    <3>2. Upstream(t.job)
      BY <1>5, <2>1, NextIsUpstream
    <3>3. ~Came(u)
      BY <1>5, <2>1, <3>2 DEF StreamOrder
    <3> QED BY <2>3, <3>3 DEF Came
  <2> QED BY <2>2, <2>3
<1>6. \A h, i \in Ordered : Before(h, i)' <=> Before(h, i)
  BY DEF Before
<1> QED BY <1>3, <1>4, <1>5, <1>6 DEF StreamOrder

\* Every step keeps the stream in order.
LEMMA StreamOrderStep ==
    ASSUME IndInv, SourceInv, AddOrder, StreamOrder, [Next]_vars
    PROVE  StreamOrder'
<1> USE DEF addVars, storeVars, flagVars, taskVars, birthVars
<1>0. TypeOK /\ StreamInv /\ WriteInv
  BY DEF IndInv
<1>1. /\ stamp \in [Job -> Nat] /\ clock \in Nat /\ Ordered \subseteq Job
      /\ adding \in [Job -> {"no", "wait", "insert", "stored", "done"}]
      /\ saw \in [Job -> BOOLEAN] /\ held \subseteq Task /\ live \in Seq(Job)
      /\ fetched \subseteq Job /\ \A n \in 1..Len(live) : live[n] \in Job
  BY <1>0 DEF TypeOK, DurableType, AddType, StreamType, Ordered
\* Steps of jobs that came out of the stream, and of nobody.
<1>2. ASSUME UNCHANGED <<stamp, saw, adding, fetched, live, held>>,
             \A u \in Task : pc'[u] = "none" <=> pc[u] = "none"
      PROVE  StreamOrder'
  <2>1. \A i \in Ordered : Upstream(i)' => Upstream(i)
    BY <1>2 DEF Upstream, InLive
  <2>2. \A u \in Task : Came(u)' => Came(u)
    BY <1>2 DEF Came
  <2> QED BY <1>0, <1>2, <2>1, <2>2, StreamOrderFrame
<1>3. ASSUME NEW j \in Job, Add(j) PROVE StreamOrder'
  <2>1. /\ adding[j] = "no" /\ stamp' = [stamp EXCEPT ![j] = clock + 1]
        /\ UNCHANGED <<fetched, live, held, pc>>
    BY <1>3 DEF Add
  <2>2. \/ /\ saw' = [saw EXCEPT ![j] = TRUE]
           /\ adding' = [adding EXCEPT ![j] = "wait"]
        \/ /\ adding' = [adding EXCEPT ![j] = "insert"]
           /\ saw' = saw
    BY <1>3 DEF Add
  <2>3. /\ \A i \in Job : i # j => /\ stamp'[i] = stamp[i] /\ saw'[i] = saw[i]
                                   /\ adding'[i] = adding[i]
        /\ stamp'[j] = clock + 1
    BY <1>1, <2>1, <2>2
  <2>4. /\ \A n \in 1..Len(live) : live[n] # j
        /\ \A t \in Task : Came(t) => t.job # j
    BY <2>1, NotAdded
  <2>5. \A i \in Job : stamp[i] \in Nat /\ stamp[i] <= clock
    BY <1>1 DEF SourceInv
  <2>6. \A m, n \in 1..Len(live') :
          m < n /\ live'[m] \in Ordered /\ live'[n] \in Ordered
             => stamp'[live'[m]] <= stamp'[live'[n]]
    BY <1>1, <2>1, <2>3, <2>4 DEF StreamOrder
  <2>7. ASSUME NEW i \in Ordered, NEW u \in Task, u.job \in Ordered,
               Before(i, u.job)', Came(u)'
        PROVE  ~Upstream(i)'
    <3>1. Came(u) /\ u.job # j
      BY <2>1, <2>4, <2>7 DEF Came
    <3>2. stamp'[u.job] = stamp[u.job] /\ stamp[u.job] \in Nat /\ stamp[u.job] <= clock
      BY <1>1, <2>3, <2>5, <2>7, <3>1
    <3>3. stamp'[i] < stamp[u.job]
      BY <2>7, <3>2 DEF Before
    <3>4. i # j
      BY <1>1, <2>3, <3>2, <3>3
    <3>5. Before(i, u.job)
      BY <1>1, <2>3, <3>3, <3>4 DEF Before
    <3>6. ~Upstream(i)
      BY <2>7, <3>1, <3>5 DEF StreamOrder
    <3> QED BY <1>1, <2>1, <2>3, <3>4, <3>6 DEF Upstream, InLive
  <2>8. ASSUME NEW t \in held', NEW u \in Task, t.job \in Ordered, u.job \in Ordered,
               Before(t.job, u.job)'
        PROVE  pc'[u] = "none"
    <3>1. t \in held /\ t \in Task /\ t.job # j
      BY <1>1, <2>1, <2>4 DEF Came
    <3>2. CASE u.job = j
      BY <2>1, <2>4, <3>2 DEF Came
    <3>3. CASE u.job # j
      <4>1. Before(t.job, u.job)
        BY <1>1, <2>3, <2>8, <3>1, <3>3 DEF Before
      <4> QED BY <2>1, <2>8, <3>1, <4>1 DEF StreamOrder
    <3> QED BY <3>2, <3>3
  <2> QED BY <2>6, <2>7, <2>8 DEF StreamOrder
<1>4. ASSUME NEW j \in Job, FetchAwaited(j) PROVE StreamOrder'
  <2>1. CASE j \notin Overridden
    BY <1>0, <1>4, <2>1, StreamOrderAdder DEF FetchAwaited
  <2>2. CASE j \in Overridden
    BY <1>0, <1>4, <2>2, StreamOrderAdder DEF FetchAwaited, LiveAdd, Ordered
  <2> QED BY <2>1, <2>2
<1>5. ASSUME NEW j \in Job, RowCommitted(j) PROVE StreamOrder'
  <2>1. CASE j \in Overridden
    <3>1. \A i \in Ordered : saw'[i] = saw[i]
      BY <1>1, <1>5, <2>1 DEF RowCommitted, Ordered
    <3>2. PICK v \in {"wait", "done"} : adding' = [adding EXCEPT ![j] = v]
      BY <1>5, <2>1 DEF RowCommitted
    <3> QED BY <1>0, <1>5, <2>1, <3>1, <3>2, StreamOrderAdder DEF RowCommitted
  <2>2. CASE j \notin Overridden
    BY <1>0, <1>5, <2>2, StreamOrderAdder DEF RowCommitted, LiveAdd
  <2> QED BY <2>1, <2>2
<1>6. ASSUME NEW t \in Task, StreamStops(t) PROVE StreamOrder'
  <2>1. pc[t] = "none"
    BY <1>0, <1>6, ConsumeFacts DEF StreamStops
  <2> QED BY <1>0, <1>6, <2>1, StreamOrderTakes DEF StreamStops
<1>7. ASSUME NEW t \in Task, StreamHolds(t) PROVE StreamOrder'
  <2>1. pc[t] = "none"
    BY <1>0, <1>7, ConsumeFacts DEF StreamHolds
  <2> QED BY <1>0, <1>7, <2>1, StreamOrderTakes DEF StreamHolds
<1>8. ASSUME NEW t \in Task, StreamEnqueues(t) PROVE StreamOrder'
  <2>1. \A u \in Task : u # t => pc'[u] = pc[u]
    BY <1>0, <1>8, EnqueueStarts DEF StreamEnqueues
  <2> QED BY <1>0, <1>8, <2>1, StreamOrderTakes DEF StreamEnqueues
<1>9. ASSUME NEW t \in Task, StreamResumes(t) PROVE StreamOrder'
  <2>1. /\ \A u \in Task : u # t => pc'[u] = pc[u]
        /\ t \in held /\ held' = {}
        /\ UNCHANGED <<stamp, saw, adding, fetched, live>>
    BY <1>0, <1>9, EnqueueStarts DEF StreamResumes
  <2>2. \A u \in Task : Came(u)' => Came(u)
    BY <2>1 DEF Came
  <2>3. \A i \in Ordered : Upstream(i)' => Upstream(i)
    BY <2>1 DEF Upstream, InLive
  <2> QED BY <2>1, <2>2, <2>3 DEF StreamOrder, Before
<1>10. ASSUME NEW t \in Task, StartJob(t) \/ RunStep(t) PROVE StreamOrder'
  <2>1. \A u \in Task : pc'[u] = "none" <=> pc[u] = "none"
    BY <1>0, <1>10 DEF StartJob, RunStep, RunSucceeds, RunNeedsRetry, RunFails,
                       BeginAttempt, ReturnFromQueue, TypeOK, TaskType
  <2> QED BY <1>2, <1>10, <2>1
          DEF StartJob, RunStep, RunSucceeds, RunNeedsRetry, RunFails
<1>11. ASSUME NEW t \in Task, AfterRun(t) PROVE StreamOrder'
  <2>1. \A u \in Task : pc'[u] = "none" <=> pc[u] = "none"
    BY <1>0, <1>11 DEF AfterRun, PostDelete, KeepRow, Settle, TypeOK, TaskType
  <2> QED BY <1>2, <1>11, <2>1 DEF AfterRun, PostDelete, KeepRow, Settle
<1>12. ASSUME NEW t \in Task, EnqueueAgain(t) PROVE StreamOrder'
  <2>1. \A u \in Task : pc'[u] = "none" <=> pc[u] = "none"
    BY <1>0, <1>12, EnqueueStarts DEF EnqueueAgain
  <2> QED BY <1>2, <1>12, <2>1 DEF EnqueueAgain
<1>13. CASE CommitWrite
  <2>1. /\ Head(writes) = writes[1] /\ 1 \in 1..Len(writes) /\ writes[1] \in Write
    BY <1>0, <1>13 DEF CommitWrite, TypeOK, DurableType
  <2>2. \A u \in Task : pc'[u] = "none" <=> pc[u] = "none"
    BY <1>0, <1>13, <2>1, WriteFacts DEF CommitWrite, WriteInv, TypeOK, TaskType
  <2>3. CASE writes[1].op = "insert"
    <3>1. /\ writes[1].task.job \in Job /\ adding[writes[1].task.job] = "insert"
          /\ adding' = [adding EXCEPT ![writes[1].task.job] = "stored"]
      BY <1>0, <1>13, <2>1, <2>3, WriteFacts, TaskFacts DEF CommitWrite, WriteInv
    <3>2. UNCHANGED <<stamp, saw, fetched, live, held>>
      BY <1>13 DEF CommitWrite
    <3> QED BY <1>0, <2>2, <3>1, <3>2, StreamOrderAdder
  <2>4. CASE writes[1].op = "delete"
    BY <1>2, <1>13, <2>1, <2>2, <2>4 DEF CommitWrite
  <2> QED BY <2>1, <2>3, <2>4, WriteFacts
<1>14. CASE FetchRead
  <2>1. \A u \in Task : ~Came(u)' /\ u \notin held'
    BY <1>0, <1>14 DEF FetchRead, StreamInv, FetchOver, Came
  <2>2. UNCHANGED <<stamp, live, held>>
    BY <1>14 DEF FetchRead
  <2> QED BY <1>1, <2>1, <2>2 DEF StreamOrder
<1>15. CASE StreamJobs \/ FetchFinished
  BY <1>2, <1>15 DEF StreamJobs, FetchFinished
<1>16. CASE Pause \/ Resume \/ Shutdown \/ ShutdownComplete
            \/ \E k \in Key : QueueIdle(k)
  BY <1>2, <1>16 DEF Pause, Resume, Shutdown, QueueIdle, ShutdownComplete
<1>17. CASE Restart
  <2>1. /\ live' = <<>> /\ held' = {} /\ \A u \in Task : ~Came(u)'
    BY <1>17 DEF Restart, Came
  <2> QED BY <2>1 DEF StreamOrder
<1>18. CASE UNCHANGED vars
  BY <1>2, <1>18 DEF vars
<1> QED
  BY <1>3, <1>4, <1>5, <1>6, <1>7, <1>8, <1>9, <1>10, <1>11, <1>12, <1>13, <1>14,
     <1>15, <1>16, <1>17, <1>18 DEF Next, AddStep, StreamStep

-----------------------------------------------------------------------------
(* The order of the in-memory queues.                                      *)

\* Steps that put nothing into a queue, take nothing out and start no job.
LEMMA QueueOrderFrame ==
    ASSUME QueueOrder, UNCHANGED <<stamp, queue, begun>>,
           \A t \in Task :
              /\ pc'[t] = "queued" => pc[t] = "queued"
              /\ pc'[t] \in {"running", "parked"} =>
                    pc[t] \in {"running", "parked"} \/ t.job \in begun
              /\ result'[t] = "retry" => result[t] = "retry" \/ t.job \in begun
              /\ pc[t] # "none" => pc'[t] # "none"
    PROVE  QueueOrder'
<1>1. \A h, i \in Ordered : Before(h, i)' <=> Before(h, i)
  BY DEF Before
<1>2. \A t \in Task : /\ pc'[t] \in {"running", "parked"} => t.job \in begun'
                      /\ result'[t] = "retry" => t.job \in begun'
  BY DEF QueueOrder
<1>3. \A j \in begun' : \E t \in Task : t.job = j /\ pc'[t] # "none"
  BY DEF QueueOrder
<1> QED BY <1>1, <1>2, <1>3 DEF QueueOrder

\* A task enters its queue: its job ran before or is later than those that came
\* out of the stream.
LEMMA QueueOrderPush ==
    ASSUME TypeOK, QueueInv, QueueOrder, NEW t \in Task,
           UNCHANGED <<stamp, begun, result>>,
           pc' = [pc EXCEPT ![t] = "queued"],
           queue' = [queue EXCEPT ![QueueOf[t.job]] = Append(@, t)],
           t.job \in Ordered /\ t.job \notin begun =>
              \A u \in Task : u.job \in Ordered /\ Before(t.job, u.job) => pc[u] = "none"
    PROVE  QueueOrder'
<1> DEFINE k0 == QueueOf[t.job]
<1>1. /\ pc \in [Task -> {"none", "queued", "running", "ran", "deleting",
                          "deleted", "parked", "over"}]
      /\ queue \in [Key -> Seq(Task)]
      /\ k0 \in Key
  BY TaskFacts, JobQueueAssumption DEF TypeOK, TaskType
<1>2. /\ \A u \in Task : pc'[u] = IF u = t THEN "queued" ELSE pc[u]
      /\ \A k \in Key : queue'[k] = IF k = k0 THEN Append(queue[k], t) ELSE queue[k]
  BY <1>1
<1>3. /\ Len(queue'[k0]) = Len(queue[k0]) + 1
      /\ queue'[k0][Len(queue[k0]) + 1] = t
      /\ \A n \in 1..Len(queue[k0]) : queue'[k0][n] = queue[k0][n]
      /\ Len(queue[k0]) \in Nat
  BY <1>1, <1>2
<1>4. \A n \in 1..Len(queue'[k0]) : n \in 1..Len(queue[k0]) \/ n = Len(queue[k0]) + 1
  BY <1>3
<1>5. \A h, i \in Ordered : Before(h, i)' <=> Before(h, i)
  BY DEF Before
<1>6. ASSUME NEW k \in Key, NEW m \in 1..Len(queue'[k]), NEW n \in 1..Len(queue'[k]),
             m < n, queue'[k][m].job \in Ordered, queue'[k][n].job \in Ordered,
             Before(queue'[k][n].job, queue'[k][m].job)
      PROVE  queue'[k][n].job \in begun
  <2>1. CASE k # k0
    <3>1. queue'[k] = queue[k]
      BY <1>2, <2>1
    <3> QED BY <1>6, <3>1 DEF QueueOrder
  <2>2. CASE k = k0 /\ n \in 1..Len(queue[k0])
    <3>1. m \in 1..Len(queue[k0])
      BY <1>3, <1>4, <1>6, <2>2
    <3>2. queue'[k][m] = queue[k][m] /\ queue'[k][n] = queue[k][n]
      BY <1>3, <2>2, <3>1
    <3> QED BY <1>6, <2>2, <3>1, <3>2 DEF QueueOrder
  <2>3. CASE k = k0 /\ n = Len(queue[k0]) + 1
    <3>1. m \in 1..Len(queue[k0])
      BY <1>3, <1>4, <1>6, <2>3
    <3>2. queue'[k][m] = queue[k0][m] /\ queue'[k][n] = t
      BY <1>3, <2>3, <3>1
    <3>3. queue[k0][m] \in Task
      BY <1>1, <3>1
    <3>4. pc[queue[k0][m]] # "none"
      BY <1>1, <3>1 DEF QueueInv
    <3> QED BY <1>6, <3>2, <3>3, <3>4
  <2> QED BY <1>4, <2>1, <2>2, <2>3
<1>7. \A u \in Task : /\ pc'[u] \in {"running", "parked"} => u.job \in begun
                      /\ result'[u] = "retry" => u.job \in begun
  BY <1>2 DEF QueueOrder
<1>8. \A j \in begun : \E u \in Task : u.job = j /\ pc'[u] # "none"
  <2> SUFFICES ASSUME NEW j \in begun PROVE \E u \in Task : u.job = j /\ pc'[u] # "none"
    OBVIOUS
  <2>1. PICK u \in Task : u.job = j /\ pc[u] # "none"
    BY DEF QueueOrder
  <2> QED BY <1>2, <2>1
<1>9. ASSUME NEW u \in Task, NEW j \in Ordered, u.job \in Ordered,
             QueueOf[u.job] = QueueOf[j], Before(u.job, j), j \in begun, u.job \notin begun
      PROVE  pc'[u] # "queued"
  <2>1. CASE u # t
    BY <1>2, <1>9, <2>1 DEF QueueOrder
  <2>2. CASE u = t
    <3>1. PICK x \in Task : x.job = j /\ pc[x] # "none"
      BY <1>9 DEF QueueOrder
    <3> QED BY <1>9, <2>2, <3>1
  <2> QED BY <2>1, <2>2
<1> QED BY <1>5, <1>6, <1>7, <1>8, <1>9 DEF QueueOrder

\* The head of a queue leaves it.
LEMMA QueueOrderPop ==
    ASSUME TypeOK, QueueOrder, NEW t \in Task, NEW v \in {"success", "retry", "error"},
           UNCHANGED <<stamp, begun>>, ReturnFromQueue(t, v),
           queue[QueueOf[t.job]] # <<>>,
           v = "retry" => t.job \in begun
    PROVE  QueueOrder'
<1> DEFINE k0 == QueueOf[t.job]
<1>1. /\ pc \in [Task -> {"none", "queued", "running", "ran", "deleting",
                          "deleted", "parked", "over"}]
      /\ result \in [Task -> {"none", "success", "retry", "error"}]
      /\ queue \in [Key -> Seq(Task)]
      /\ k0 \in Key
  BY TaskFacts, JobQueueAssumption DEF TypeOK, TaskType
<1>2. /\ \A u \in Task : /\ pc'[u] = IF u = t THEN "ran" ELSE pc[u]
                         /\ result'[u] = IF u = t THEN v ELSE result[u]
      /\ \A k \in Key : queue'[k] = IF k = k0 THEN Tail(queue[k]) ELSE queue[k]
  BY <1>1 DEF ReturnFromQueue, ReleaseSlot
<1>3. /\ Len(queue[k0]) \in Nat \ {0}
      /\ Len(queue'[k0]) = Len(queue[k0]) - 1
      /\ \A n \in 1..Len(queue'[k0]) : queue'[k0][n] = queue[k0][n + 1]
  <2>1. queue[k0] \in Seq(Task) /\ queue[k0] # <<>> /\ queue'[k0] = Tail(queue[k0])
    BY <1>1, <1>2
  <2>2. PICK q \in Seq(Task) : q = queue[k0]
    BY <2>1
  <2>3. Len(q) \in Nat \ {0} /\ Len(Tail(q)) = Len(q) - 1
        /\ \A n \in 1..Len(Tail(q)) : Tail(q)[n] = q[n + 1]
    BY <2>1, <2>2, HeadTailProperties
  <2> QED BY <2>1, <2>2, <2>3
<1>4. \A h, i \in Ordered : Before(h, i)' <=> Before(h, i)
  BY DEF Before
<1>5. ASSUME NEW k \in Key, NEW m \in 1..Len(queue'[k]), NEW n \in 1..Len(queue'[k]),
             m < n, queue'[k][m].job \in Ordered, queue'[k][n].job \in Ordered,
             Before(queue'[k][n].job, queue'[k][m].job)
      PROVE  queue'[k][n].job \in begun
  <2>1. CASE k # k0
    <3>1. queue'[k] = queue[k]
      BY <1>2, <2>1
    <3> QED BY <1>5, <3>1 DEF QueueOrder
  <2>2. CASE k = k0
    <3>1. m + 1 \in 1..Len(queue[k0]) /\ n + 1 \in 1..Len(queue[k0]) /\ m + 1 < n + 1
      BY <1>3, <1>5, <2>2
    <3>2. queue'[k][m] = queue[k0][m + 1] /\ queue'[k][n] = queue[k0][n + 1]
      BY <1>3, <2>2
    <3>3. queue[k0][n + 1].job \in begun
      BY <1>1, <1>5, <3>1, <3>2 DEF QueueOrder
    <3> QED BY <3>2, <3>3
  <2> QED BY <2>1, <2>2
<1>6. \A u \in Task : /\ pc'[u] \in {"running", "parked"} => u.job \in begun
                      /\ result'[u] = "retry" => u.job \in begun
  BY <1>2 DEF QueueOrder
<1>7. \A j \in begun : \E u \in Task : u.job = j /\ pc'[u] # "none"
  <2> SUFFICES ASSUME NEW j \in begun PROVE \E u \in Task : u.job = j /\ pc'[u] # "none"
    OBVIOUS
  <2>1. PICK u \in Task : u.job = j /\ pc[u] # "none"
    BY DEF QueueOrder
  <2> QED BY <1>2, <2>1
<1>8. \A u \in Task : pc'[u] = "queued" => pc[u] = "queued"
  BY <1>2
<1> QED BY <1>4, <1>5, <1>6, <1>7, <1>8 DEF QueueOrder

\* The head of a queue starts an attempt, or returns because of the shutdown.
LEMMA QueueOrderAttempt ==
    ASSUME TypeOK, QueueInv, QueueOrder, NEW t \in Task, NEW a, pc[t] \in Busy,
           stamp' = stamp, Head(queue[QueueOf[t.job]]) = t, BeginAttempt(t, a)
    PROVE  QueueOrder'
<1> DEFINE k0 == QueueOf[t.job]
<1>1. /\ pc \in [Task -> {"none", "queued", "running", "ran", "deleting",
                          "deleted", "parked", "over"}]
      /\ queue \in [Key -> Seq(Task)]
      /\ k0 \in Key /\ queue[k0] \in Seq(Task) /\ queue[k0] # <<>>
      /\ Ordered \subseteq Job /\ t.job \in Job
  BY TaskFacts, JobQueueAssumption
     DEF TypeOK, TaskType, QueueInv, InQueue, Busy, Ordered
<1>2. CASE shutting
  BY <1>1, <1>2, QueueOrderPop DEF BeginAttempt
<1>3. CASE ~shutting
  <2>1. /\ \A u \in Task : pc'[u] = IF u = t THEN "running" ELSE pc[u]
        /\ UNCHANGED <<result, queue>> /\ begun' = begun \cup {t.job}
    BY <1>1, <1>3 DEF BeginAttempt
  <2>2. \A h, i \in Ordered : Before(h, i)' <=> Before(h, i)
    BY DEF Before
  <2>3. \A u \in Task : /\ pc'[u] \in {"running", "parked"} => u.job \in begun'
                        /\ result'[u] = "retry" => u.job \in begun'
    BY <2>1 DEF QueueOrder
  <2>4. \A j \in begun' : \E u \in Task : u.job = j /\ pc'[u] # "none"
    <3> SUFFICES ASSUME NEW j \in begun'
                 PROVE  \E u \in Task : u.job = j /\ pc'[u] # "none"
      OBVIOUS
    <3>1. CASE j = t.job
      BY <2>1, <3>1
    <3>2. CASE j \in begun
      <4>1. PICK u \in Task : u.job = j /\ pc[u] # "none"
        BY <3>2 DEF QueueOrder
      <4> QED BY <2>1, <4>1
    <3> QED BY <2>1, <3>1, <3>2
  <2>5. ASSUME NEW u \in Task, NEW j \in Ordered, u.job \in Ordered,
               QueueOf[u.job] = QueueOf[j], Before(u.job, j), j \in begun',
               u.job \notin begun', pc'[u] = "queued"
        PROVE  FALSE
    <3>1. u # t /\ pc[u] = "queued" /\ u.job \notin begun
      BY <2>1, <2>5
    <3>2. CASE j \in begun
      BY <2>5, <3>1, <3>2 DEF QueueOrder
    <3>3. CASE j = t.job
      <4>1. PICK n \in 1..Len(queue[k0]) : queue[k0][n] = u
        BY <2>5, <3>1, <3>3 DEF QueueInv, InQueue
      <4>2. queue[k0][1] = t /\ 1 \in 1..Len(queue[k0])
        BY <1>1, HeadTailProperties
      <4>3. 1 < n
        BY <3>1, <4>1, <4>2
      <4> QED BY <1>1, <2>5, <3>1, <3>3, <4>1, <4>2, <4>3 DEF QueueOrder
    <3> QED BY <2>1, <2>5, <3>2, <3>3
  <2>6. \A k \in Key : \A m, n \in 1..Len(queue[k]) :
          /\ m < n
          /\ queue[k][m].job \in Ordered /\ queue[k][n].job \in Ordered
          /\ Before(queue[k][n].job, queue[k][m].job)
          => queue[k][n].job \in begun'
    BY <2>1 DEF QueueOrder
  <2> QED BY <2>1, <2>2, <2>3, <2>4, <2>5, <2>6 DEF QueueOrder
<1> QED BY <1>2, <1>3

\* A task from the stream is handed to enqueueStoredJob: no later one came out
\* before it.
LEMMA QueueOrderEnqueue ==
    ASSUME TypeOK, QueueInv, QueueOrder, NEW t \in Task, pc[t] \notin Busy,
           UNCHANGED <<stamp, begun>>, EnqueueStoredJob(t),
           t.job \in Ordered /\ t.job \notin begun =>
              \A u \in Task : u.job \in Ordered /\ Before(t.job, u.job) => pc[u] = "none"
    PROVE  QueueOrder'
<1>1. CASE t.job \in Unparseable
  <2>1. /\ queue' = queue
        /\ \A u \in Task : pc'[u] = IF u = t THEN "deleting" ELSE pc[u]
        /\ \A u \in Task : result'[u] = IF u = t THEN "error" ELSE result[u]
    BY <1>1 DEF EnqueueStoredJob, TypeOK, TaskType
  <2> QED BY <2>1, QueueOrderFrame
<1>2. CASE t.job \notin Unparseable
  BY <1>2, QueueOrderPush DEF EnqueueStoredJob
<1> QED BY <1>1, <1>2

\* Every step keeps the in-memory queues in order.
LEMMA QueueOrderStep ==
    ASSUME IndInv, SourceInv, StreamOrder, QueueOrder, [Next]_vars
    PROVE  QueueOrder'
<1> USE DEF addVars, storeVars, flagVars, taskVars, birthVars
<1>0. TypeOK /\ StreamInv /\ QueueInv /\ WriteInv
  BY DEF IndInv
<1>1. /\ stamp \in [Job -> Nat] /\ clock \in Nat /\ Ordered \subseteq Job
      /\ pc \in [Task -> {"none", "queued", "running", "ran", "deleting",
                          "deleted", "parked", "over"}]
      /\ queue \in [Key -> Seq(Task)]
  BY <1>0 DEF TypeOK, DurableType, TaskType, Ordered
\* Steps that do not touch the tasks.
<1>2. ASSUME UNCHANGED <<stamp, pc, result, queue, begun>> PROVE QueueOrder'
  BY <1>2, QueueOrderFrame
<1>3. ASSUME NEW j \in Job, Add(j) PROVE QueueOrder'
  <2>1. /\ adding[j] = "no" /\ stamp' = [stamp EXCEPT ![j] = clock + 1]
        /\ UNCHANGED <<pc, result, queue, begun>>
    BY <1>3 DEF Add
  <2>2. j \notin begun /\ \A t \in Task : pc[t] # "none" => t.job # j
    BY <2>1, NotAdded DEF Came
  <2>3. \A h, i \in Ordered : h # j /\ i # j => (Before(h, i)' <=> Before(h, i))
    BY <1>1, <2>1 DEF Before
  <2>4. \A k \in Key : \A n \in 1..Len(queue[k]) : queue[k][n].job # j
    <3> SUFFICES ASSUME NEW k \in Key, NEW n \in 1..Len(queue[k])
                 PROVE  queue[k][n].job # j
      OBVIOUS
    <3>1. queue[k][n] \in Task
      BY <1>1
    <3>2. pc[queue[k][n]] # "none"
      BY <1>0 DEF QueueInv
    <3> QED BY <2>2, <3>1, <3>2
  <2>5. \A k \in Key : \A m, n \in 1..Len(queue[k]) :
          /\ m < n
          /\ queue[k][m].job \in Ordered /\ queue[k][n].job \in Ordered
          /\ Before(queue[k][n].job, queue[k][m].job)'
          => queue[k][n].job \in begun
    BY <2>1, <2>3, <2>4 DEF QueueOrder
  <2>6. \A t \in Task : \A i \in Ordered :
          /\ t.job \in Ordered /\ QueueOf[t.job] = QueueOf[i]
          /\ Before(t.job, i)' /\ i \in begun /\ t.job \notin begun
          => pc[t] # "queued"
    BY <2>2, <2>3 DEF QueueOrder
  <2>7. QueueOrder' <=>
          /\ \A k \in Key : \A m, n \in 1..Len(queue[k]) :
                /\ m < n
                /\ queue[k][m].job \in Ordered /\ queue[k][n].job \in Ordered
                /\ Before(queue[k][n].job, queue[k][m].job)'
                => queue[k][n].job \in begun
          /\ \A t \in Task : /\ pc[t] \in {"running", "parked"} => t.job \in begun
                             /\ result[t] = "retry" => t.job \in begun
          /\ \A i \in begun : \E t \in Task : t.job = i /\ pc[t] # "none"
          /\ \A t \in Task : \A i \in Ordered :
                /\ t.job \in Ordered /\ QueueOf[t.job] = QueueOf[i]
                /\ Before(t.job, i)' /\ i \in begun /\ t.job \notin begun
                => pc[t] # "queued"
    BY <2>1 DEF QueueOrder
  <2> QED BY <2>5, <2>6, <2>7 DEF QueueOrder
<1>4. ASSUME NEW j \in Job, AddStep(j) PROVE QueueOrder'
  BY <1>2, <1>4 DEF AddStep, FetchAwaited, RowCommitted
<1>5. ASSUME NEW t \in Task, StreamStops(t) \/ StreamHolds(t) PROVE QueueOrder'
  BY <1>2, <1>5 DEF StreamStops, StreamHolds
<1>6. ASSUME NEW t \in Task, StreamEnqueues(t) PROVE QueueOrder'
  <2>1. pc[t] = "none" /\ Upstream(t.job)
    BY <1>0, <1>6, ConsumeFacts, NextIsUpstream DEF StreamEnqueues
  <2>2. \A u \in Task : t.job \in Ordered /\ u.job \in Ordered /\ Before(t.job, u.job)
                           => pc[u] = "none"
    BY <2>1 DEF StreamOrder, Came
  <2> QED BY <1>0, <1>6, <2>1, <2>2, QueueOrderEnqueue DEF StreamEnqueues, Busy
<1>7. ASSUME NEW t \in Task, StreamResumes(t) PROVE QueueOrder'
  <2>1. t \in held /\ pc[t] = "none"
    BY <1>0, <1>7 DEF StreamResumes, StreamInv
  <2>2. \A u \in Task : t.job \in Ordered /\ u.job \in Ordered /\ Before(t.job, u.job)
                           => pc[u] = "none"
    BY <2>1 DEF StreamOrder
  <2> QED BY <1>0, <1>7, <2>1, <2>2, QueueOrderEnqueue DEF StreamResumes, Busy
<1>8. ASSUME NEW t \in Task, EnqueueAgain(t) PROVE QueueOrder'
  <2>1. pc[t] = "parked" /\ t.job \in begun
    BY <1>8 DEF EnqueueAgain, QueueOrder
  <2> QED BY <1>0, <1>8, <2>1, QueueOrderEnqueue DEF EnqueueAgain, Busy
<1>9. ASSUME NEW t \in Task, StartJob(t) PROVE QueueOrder'
  BY <1>0, <1>9, QueueOrderAttempt DEF StartJob, Busy
<1>10. ASSUME NEW t \in Task, RunStep(t) PROVE QueueOrder'
  <2>1. /\ pc[t] = "running" /\ t.job \in begun /\ stamp' = stamp
        /\ queue[QueueOf[t.job]] # <<>> /\ Head(queue[QueueOf[t.job]]) = t
    <3>1. pc[t] = "running" /\ stamp' = stamp
      BY <1>10 DEF RunStep, RunSucceeds, RunNeedsRetry, RunFails
    <3>2. InQueue(t)
      BY <1>0, <3>1 DEF QueueInv
    <3>3. queue[QueueOf[t.job]] # <<>>
      BY <3>2 DEF InQueue
    <3> QED BY <1>0, <3>1, <3>3, RunningHead DEF QueueOrder
  <2>2. CASE \E a : BeginAttempt(t, a)
    BY <1>0, <2>1, <2>2, QueueOrderAttempt DEF Busy
  <2>3. CASE begun' = begun /\ \E v \in {"success", "retry", "error"} : ReturnFromQueue(t, v)
    BY <1>0, <2>1, <2>3, QueueOrderPop
  <2> QED BY <1>10, <2>2, <2>3 DEF RunStep, RunSucceeds, RunNeedsRetry, RunFails
<1>11. ASSUME NEW t \in Task, AfterRun(t) PROVE QueueOrder'
  <2>1. UNCHANGED <<stamp, result, queue, begun>>
    BY <1>11 DEF AfterRun, PostDelete, KeepRow, Settle
  <2>2. PICK v \in {"deleting", "parked", "over"} :
          /\ pc' = [pc EXCEPT ![t] = v]
          /\ v = "parked" => result[t] = "retry"
    BY <1>11 DEF AfterRun, PostDelete, KeepRow, Settle
  <2>3. v = "parked" => t.job \in begun
    BY <2>2 DEF QueueOrder
  <2>4. \A u \in Task : pc'[u] = IF u = t THEN v ELSE pc[u]
    BY <1>1, <2>2
  <2> QED BY <2>1, <2>3, <2>4, QueueOrderFrame
<1>12. CASE CommitWrite
  <2>1. UNCHANGED <<stamp, result, queue, begun>>
    BY <1>12 DEF CommitWrite
  <2>2. /\ Head(writes) = writes[1] /\ 1 \in 1..Len(writes) /\ writes[1] \in Write
    BY <1>0, <1>12 DEF CommitWrite, TypeOK, DurableType
  <2>3. pc' = pc \/ pc' = [pc EXCEPT ![writes[1].task] = "deleted"]
    BY <1>12, <2>2 DEF CommitWrite
  <2>4. \A u \in Task : pc'[u] = pc[u] \/ pc'[u] = "deleted"
    BY <1>1, <2>3
  <2> QED BY <2>1, <2>4, QueueOrderFrame
<1>13. CASE StreamJobs \/ FetchRead \/ FetchFinished
  BY <1>2, <1>13 DEF StreamJobs, FetchRead, FetchFinished
<1>14. CASE Pause \/ Resume \/ Shutdown \/ ShutdownComplete
            \/ \E k \in Key : QueueIdle(k)
  BY <1>2, <1>14 DEF Pause, Resume, Shutdown, QueueIdle, ShutdownComplete
<1>15. CASE Restart
  <2>1. /\ begun' = {} /\ \A k \in Key : queue'[k] = <<>>
        /\ \A t \in Task : pc'[t] = "none" /\ result'[t] = "none"
    BY <1>15 DEF Restart
  <2>2. \A k \in Key : \A m, n \in 1..Len(queue'[k]) : ~(m < n)
    BY <2>1
  <2> QED BY <2>1, <2>2 DEF QueueOrder
<1>16. CASE UNCHANGED vars
  BY <1>2, <1>16 DEF vars
<1> QED
  BY <1>3, <1>4, <1>5, <1>6, <1>7, <1>8, <1>9, <1>10, <1>11, <1>12, <1>13, <1>14,
     <1>15, <1>16 DEF Next, StreamStep

-----------------------------------------------------------------------------
(* The order of the first runs.                                            *)

\* A job that starts was the head of its queue.
LEMMA StartsFromQueue ==
    ASSUME TypeOK, QueueOrder, [Next]_vars, NEW i \in Job, i \notin begun, i \in begun'
    PROVE  \E t \in Task : t.job = i /\ pc[t] = "queued"
<1> USE DEF addVars, storeVars, flagVars, taskVars, birthVars
<1>1. begun' # begun
  OBVIOUS
<1>2. ASSUME NEW t \in Task, StartJob(t) PROVE t.job = i /\ pc[t] = "queued"
  BY <1>2 DEF StartJob, BeginAttempt
<1>3. ASSUME NEW t \in Task, RunStep(t) PROVE FALSE
  <2>1. pc[t] = "running" /\ begun' \in {begun, begun \cup {t.job}}
    BY <1>3 DEF RunStep, RunSucceeds, RunNeedsRetry, RunFails, BeginAttempt
  <2>2. t.job \in begun
    BY <2>1 DEF QueueOrder
  <2> QED BY <1>1, <2>1, <2>2
<1>4. ASSUME NEW j \in Job, Add(j) \/ AddStep(j) PROVE FALSE
  BY <1>1, <1>4 DEF Add, AddStep, FetchAwaited, RowCommitted
<1>5. ASSUME NEW t \in Task, StreamStep(t) \/ AfterRun(t) \/ EnqueueAgain(t) PROVE FALSE
  BY <1>1, <1>5 DEF StreamStep, StreamStops, StreamHolds, StreamEnqueues, StreamResumes,
                    AfterRun, PostDelete, KeepRow, Settle, EnqueueAgain
<1>6. CASE CommitWrite \/ StreamJobs \/ FetchRead \/ FetchFinished
  BY <1>1, <1>6 DEF CommitWrite, StreamJobs, FetchRead, FetchFinished
<1>7. CASE Pause \/ Resume \/ Shutdown \/ ShutdownComplete
           \/ \E k \in Key : QueueIdle(k)
  BY <1>1, <1>7 DEF Pause, Resume, Shutdown, QueueIdle, ShutdownComplete
<1>8. ~Restart /\ ~UNCHANGED vars
  BY <1>1 DEF Restart, vars
<1> QED BY <1>2, <1>3, <1>4, <1>5, <1>6, <1>7, <1>8 DEF Next

\* The order of the whole way, from add() to the in-memory queues, is kept.
LEMMA OrderInvariance == Spec => []OrderInv
<1>1. Init => OrderInv
  <2> SUFFICES ASSUME Init PROVE OrderInv
    OBVIOUS
  <2> USE DEF Init
  <2>1. SourceInv
    BY TaskFacts DEF SourceInv, Came, Ordered
  <2>2. AddOrder /\ StreamOrder
    BY TaskFacts DEF AddOrder, StreamOrder, Came, Ordered
  <2>3. \A k \in Key : \A m, n \in 1..Len(queue[k]) : ~(m < n)
    OBVIOUS
  <2>4. QueueOrder
    BY <2>3 DEF QueueOrder
  <2> QED BY <2>1, <2>2, <2>4 DEF OrderInv
<1>2. IndInv /\ OrderInv /\ [Next]_vars => OrderInv'
  BY SourceStep, AddOrderStep, StreamOrderStep, QueueOrderStep DEF OrderInv
<1> QED BY <1>1, <1>2, InductiveInvariant, PTL DEF Spec

\* Jobs added without an override to one in-memory queue are first run in the
\* order in which they were added, wherever the fetch, a pause, a retry or a
\* restart falls.
THEOREM StartsAreOrdered == Spec => StartsInOrder
<1>1. IndInv /\ OrderInv /\ [Next]_vars =>
        [\A i, j \in Job :
           /\ i \notin Overridden /\ j \notin Overridden
           /\ QueueOf[i] = QueueOf[j]
           /\ 0 < stamp[i] /\ stamp[i] < stamp[j]
           /\ j \in begun /\ i \notin begun
           => i \notin begun']_vars
  <2> SUFFICES ASSUME IndInv, OrderInv, [Next]_vars, NEW i \in Job, NEW j \in Job,
                      i \notin Overridden, j \notin Overridden,
                      QueueOf[i] = QueueOf[j], stamp[i] < stamp[j],
                      j \in begun, i \notin begun, i \in begun'
               PROVE  FALSE
    OBVIOUS
  <2>1. PICK t \in Task : t.job = i /\ pc[t] = "queued"
    BY StartsFromQueue DEF IndInv, OrderInv
  <2>2. i \in Ordered /\ j \in Ordered /\ Before(i, j)
    BY DEF Ordered, Before
  <2> QED BY <2>1, <2>2 DEF OrderInv, QueueOrder
<1> QED BY <1>1, InductiveInvariant, OrderInvariance, PTL DEF Spec, StartsInOrder
=============================================================================
