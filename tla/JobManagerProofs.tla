-------------------------- MODULE JobManagerProofs ---------------------------
(***************************************************************************)
(* The safety of JobManager for any jobs and any limits: types, the bound  *)
(* on concurrent jobs, the bound on attempts, and rows that are active.    *)
(***************************************************************************)
EXTENDS JobManager, SequenceTheorems, FiniteSetTheorems, TLAPS

-----------------------------------------------------------------------------
(* The calls the SQL worker has not answered. *)

\* Pending calls of getNextJobs.
AsksOf(q) == {n \in DOMAIN q : q[n].op = "next"}

\* At most one, and it asks for no more jobs than k running ones leave room for.
Within(q, k) == \A m, n \in AsksOf(q) : m = n /\ q[n].n + k <= MaxConcurrent

\* No pending save records as many attempts as are allowed.
TriesIn(q) ==
    \A n \in DOMAIN q : q[n].op \in {"active", "later", "again"} => q[n].n < MaxAttempts

\* Calls made before the manager was started.
Early(q) == \A n \in DOMAIN q : q[n].op \in {"force", "flush", "cancel"}

ResetIn(q) == \E n \in DOMAIN q : q[n].op = "reset"

\* The worker has answered the oldest call.
LEMMA Served ==
    ASSUME NEW q \in Seq(Request), q # <<>>
    PROVE  /\ Head(q) \in Request /\ Tail(q) \in Seq(Request)
           /\ \A k : Within(q, k) => Within(Tail(q), k)
           /\ \A k : Within(q, k) /\ Head(q).op = "next" =>
                        AsksOf(Tail(q)) = {} /\ Head(q).n + k <= MaxConcurrent
           /\ AsksOf(q) = {} => AsksOf(Tail(q)) = {} /\ Head(q).op # "next"
           /\ TriesIn(q) => /\ TriesIn(Tail(q))
                            /\ Head(q).op \in {"active", "later", "again"} => Head(q).n < MaxAttempts
           /\ Early(q) => Early(Tail(q)) /\ Head(q).op \in {"force", "flush", "cancel"}
           /\ ResetIn(q) /\ Head(q).op # "reset" => ResetIn(Tail(q))
<1>1. Len(q) \in Nat \ {0} /\ DOMAIN q = 1..Len(q) /\ 1 \in DOMAIN q
    BY EmptySeq, LenProperties
<1>2. PICK t : t = Tail(q)
    OBVIOUS
<1>3. /\ Head(q) = q[1] /\ Head(q) \in Request
      /\ t \in Seq(Request) /\ Len(t) = Len(q) - 1
      /\ \A i \in 1..Len(t) : t[i] = q[i + 1]
    BY <1>1, <1>2, HeadTailProperties, ElementOfSeq
<1>4. DOMAIN t = 1..Len(t)
    BY <1>3, LenProperties
<1>5. \A i \in DOMAIN t : i + 1 \in DOMAIN q /\ t[i] = q[i + 1] /\ i + 1 # 1 /\ i \in Nat
    BY <1>1, <1>3, <1>4
<1>6. \A n \in DOMAIN q : n = 1 \/ (n - 1 \in DOMAIN t /\ t[n - 1] = q[n])
    <2> TAKE n \in DOMAIN q
    <2>1. CASE n # 1
        <3>1. n - 1 \in DOMAIN t /\ (n - 1) + 1 = n
            BY <1>1, <1>3, <1>4, <2>1
        <3> QED BY <1>5, <3>1
    <2> QED BY <2>1
<1>7. \A i \in AsksOf(t) : i + 1 \in AsksOf(q) /\ t[i].n = q[i + 1].n /\ i + 1 # 1 /\ i \in Nat
    BY <1>5 DEF AsksOf
<1>8. \A k : Within(q, k) => Within(t, k)
    BY <1>7 DEF Within
<1>9. ASSUME NEW k, Within(q, k), Head(q).op = "next"
      PROVE  AsksOf(t) = {} /\ Head(q).n + k <= MaxConcurrent
    <2>1. 1 \in AsksOf(q)
        BY <1>1, <1>3, <1>9 DEF AsksOf
    <2>2. AsksOf(t) = {}
        BY <1>7, <1>9, <2>1 DEF Within
    <2> QED BY <1>3, <1>9, <2>1, <2>2 DEF Within
<1>10. AsksOf(q) = {} => AsksOf(t) = {} /\ Head(q).op # "next"
    BY <1>1, <1>3, <1>7 DEF AsksOf
<1>11. TriesIn(q) => /\ TriesIn(t)
                     /\ Head(q).op \in {"active", "later", "again"} => Head(q).n < MaxAttempts
    BY <1>1, <1>3, <1>5 DEF TriesIn
<1>12. Early(q) => Early(t) /\ Head(q).op \in {"force", "flush", "cancel"}
    BY <1>1, <1>3, <1>5 DEF Early
<1>13. ResetIn(q) /\ Head(q).op # "reset" => ResetIn(t)
    BY <1>3, <1>6 DEF ResetIn
<1> QED BY <1>2, <1>3, <1>8, <1>9, <1>10, <1>11, <1>12, <1>13

\* A call that is not getNextJobs is posted.
LEMMA Posted ==
    ASSUME NEW q \in Seq(Request), NEW x \in Request
    PROVE  /\ Append(q, x) \in Seq(Request)
           /\ x.op # "next" => /\ AsksOf(Append(q, x)) = AsksOf(q)
                               /\ \A k : Within(q, k) => Within(Append(q, x), k)
           /\ \A k : /\ x.op = "next" /\ AsksOf(q) = {} /\ x.n + k <= MaxConcurrent
                     => Within(Append(q, x), k)
           /\ TriesIn(q) /\ (x.op \in {"active", "later", "again"} => x.n < MaxAttempts)
                 => TriesIn(Append(q, x))
           /\ Early(q) /\ x.op \in {"force", "flush", "cancel"} => Early(Append(q, x))
           /\ ResetIn(q) \/ x.op = "reset" => ResetIn(Append(q, x))
<1>1. PICK r : r = Append(q, x)
    OBVIOUS
<1>2. /\ r \in Seq(Request) /\ Len(r) = Len(q) + 1
      /\ \A i \in 1..Len(q) : r[i] = q[i]
      /\ r[Len(q) + 1] = x
    BY <1>1, AppendProperties
<1>3. Len(q) \in Nat /\ DOMAIN q = 1..Len(q) /\ DOMAIN r = 1..Len(r)
    BY <1>2, LenProperties
<1>4. PICK l : l = Len(q) + 1
    OBVIOUS
<1>5. /\ DOMAIN r = DOMAIN q \cup {l} /\ r[l] = x
      /\ \A i \in DOMAIN q : r[i] = q[i]
    BY <1>2, <1>3, <1>4
<1>6. x.op # "next" => AsksOf(r) = AsksOf(q) /\ \A n \in AsksOf(q) : r[n] = q[n]
    BY <1>5 DEF AsksOf
<1>7. ASSUME x.op # "next" PROVE \A k : Within(q, k) => Within(r, k)
    BY <1>6, <1>7 DEF Within
<1>8. ASSUME NEW k, x.op = "next", AsksOf(q) = {}, x.n + k <= MaxConcurrent PROVE Within(r, k)
    <2>1. \A n \in AsksOf(r) : n = l /\ r[n] = x
        BY <1>5, <1>8 DEF AsksOf
    <2> QED BY <1>8, <2>1 DEF Within
<1>9. ASSUME TriesIn(q), x.op \in {"active", "later", "again"} => x.n < MaxAttempts PROVE TriesIn(r)
    BY <1>5, <1>9 DEF TriesIn
<1>10. ASSUME Early(q), x.op \in {"force", "flush", "cancel"} PROVE Early(r)
    BY <1>5, <1>10 DEF Early
<1>11. ASSUME ResetIn(q) \/ x.op = "reset" PROVE ResetIn(r)
    <2>1. CASE ResetIn(q)
        BY <1>5, <2>1 DEF ResetIn
    <2>2. CASE x.op = "reset"
        BY <1>5, <2>2 DEF ResetIn
    <2> QED BY <1>11, <2>1, <2>2
<1> QED BY <1>1, <1>2, <1>6, <1>7, <1>8, <1>9, <1>10, <1>11

\* Saves of started jobs are posted, in some order.
LEMMA SavesPosted ==
    ASSUME NEW q \in Seq(Request), NEW S \in SUBSET Job, NEW a \in [Job -> Nat],
           NEW p \in Orders(S)
    PROVE  LET r == q \o ActiveSaves(p, a)
           IN  /\ r \in Seq(Request)
               /\ AsksOf(r) = AsksOf(q)
               /\ \A k : Within(q, k) => Within(r, k)
               /\ TriesIn(q) /\ (\A j \in S : a[j] < MaxAttempts) => TriesIn(r)
               /\ Early(q) /\ S = {} => Early(r)
               /\ ResetIn(q) => ResetIn(r)
<1>1. PICK c \in Nat : c = Cardinality(S)
    BY JobManagerAssumption, FS_Subset, FS_CardinalityType
<1>2. p \in [1..c -> S] /\ DOMAIN p = 1..c
    BY <1>1 DEF Orders
<1>3. PICK s : s = ActiveSaves(p, a)
    OBVIOUS
<1>4. \A n \in 1..c : s[n] = Call("active", {p[n]}, a[p[n]]) /\ p[n] \in S
    BY <1>2, <1>3 DEF ActiveSaves
<1>5. \A n \in 1..c : s[n] \in Request /\ s[n].op = "active" /\ s[n].n = a[p[n]]
    <2> TAKE n \in 1..c
    <2>1. p[n] \in S /\ p[n] \in Job /\ a[p[n]] \in Nat
        BY <1>4
    <2>2. s[n] = [op |-> "active", jobs |-> {p[n]}, n |-> a[p[n]]]
        BY <1>4 DEF Call
    <2> QED BY <2>1, <2>2 DEF Request
<1>6. s \in [1..c -> Request]
    <2>1. DOMAIN s = 1..c /\ s = [n \in 1..c |-> s[n]]
        BY <1>2, <1>3 DEF ActiveSaves
    <2> QED BY <1>5, <2>1
<1>7. s \in Seq(Request) /\ Len(s) = c
    <2>1. \A f \in [1..c -> Request] : f \in Seq(Request) /\ Len(f) = c
        BY <1>1
    <2> QED BY <1>6, <2>1
<1>8. PICK r : r = q \o s
    OBVIOUS
<1>9. /\ r \in Seq(Request) /\ Len(r) = Len(q) + c
      /\ \A i \in 1..(Len(q) + c) : r[i] = IF i <= Len(q) THEN q[i] ELSE s[i - Len(q)]
    BY <1>7, <1>8, ConcatProperties
<1>10. Len(q) \in Nat /\ DOMAIN q = 1..Len(q) /\ DOMAIN r = 1..Len(r)
    BY <1>9, LenProperties
<1>11. DOMAIN q \subseteq DOMAIN r /\ \A i \in DOMAIN q : r[i] = q[i]
    BY <1>1, <1>9, <1>10
<1>12. ASSUME NEW i \in DOMAIN r, i \notin DOMAIN q
       PROVE  \E n \in 1..c : r[i] = s[n]
    <2>1. i - Len(q) \in 1..c
        BY <1>1, <1>9, <1>10, <1>12
    <2>2. r[i] = s[i - Len(q)]
        BY <1>9, <1>10, <1>12
    <2> QED BY <2>1, <2>2
<1>13. \A i \in DOMAIN r : i \in DOMAIN q \/ (r[i].op = "active" /\ \E j \in S : r[i].n = a[j])
    <2> SUFFICES ASSUME NEW i \in DOMAIN r, i \notin DOMAIN q
                 PROVE  r[i].op = "active" /\ \E j \in S : r[i].n = a[j]
        OBVIOUS
    <2>1. PICK n \in 1..c : r[i] = s[n]
        BY <1>12
    <2>2. s[n].op = "active" /\ s[n].n = a[p[n]] /\ p[n] \in S
        BY <1>4, <1>5
    <2> QED BY <2>1, <2>2
<1>14. AsksOf(r) = AsksOf(q) /\ \A n \in AsksOf(q) : r[n] = q[n]
    BY <1>11, <1>13 DEF AsksOf
<1>15. \A k : Within(q, k) => Within(r, k)
    BY <1>14 DEF Within
<1>16. ASSUME TriesIn(q), \A j \in S : a[j] < MaxAttempts PROVE TriesIn(r)
    BY <1>11, <1>13, <1>16 DEF TriesIn
<1>17. ASSUME Early(q), S = {} PROVE Early(r)
    BY <1>11, <1>13, <1>17 DEF Early
<1>18. ResetIn(q) => ResetIn(r)
    BY <1>11 DEF ResetIn
<1> QED BY <1>3, <1>8, <1>9, <1>14, <1>15, <1>16, <1>17, <1>18

-----------------------------------------------------------------------------
(* The invariant. *)

\* How many jobs run that were not started by force.
Busy == Cardinality(Active \ forced)

\* The slots a pending getNextJobs will fill stay free until it is answered.
SlotsOK ==
    /\ Busy <= MaxConcurrent
    /\ inMaybe \/ AsksOf(requests) = {}
    /\ Within(requests, Busy)

\* Without rate limits no row, no save and no run has used up its attempts; a
\* run's counter is only ever set back.
TriesOK ==
    ~CanRateLimit =>
        /\ \A j \in Job : row[j] # "absent" => tries[j] < MaxAttempts
        /\ TriesIn(requests)
        /\ \A j \in Job : mem[j] <= began[j]

Stuck == \E j \in Job : row[j] = "active" /\ pc[j] = "no"

\* The manager has not been started in this process.
Fresh ==
    /\ ~enabled /\ timer # "pause"
    /\ Active = {}
    /\ Early(requests)

\* Rows a dead process left active stay so only until start() resets them.
RowsOK == Stuck => ResetIn(requests) \/ Fresh

IndInv == TypeOK /\ SlotsOK /\ TriesOK /\ RowsOK

-----------------------------------------------------------------------------
(* Parts of steps. *)

\* Jobs can be counted.
LEMMA Counted ==
    /\ \A S \in SUBSET Job : IsFiniteSet(S) /\ Cardinality(S) \in Nat
    /\ \A S, T \in SUBSET Job : S \subseteq T => Cardinality(S) <= Cardinality(T)
    /\ Active \subseteq Job /\ Busy \in Nat /\ Busy <= Cardinality(Active)
    /\ \A S \in SUBSET Job : FreeSlots(S) \in Nat
    /\ \A S \in SUBSET Job : FreeSlots(S) > 0 => FreeSlots(S) + Cardinality(S) <= MaxConcurrent
<1>1. \A S \in SUBSET Job : IsFiniteSet(S) /\ Cardinality(S) \in Nat
    BY JobManagerAssumption, FS_Subset, FS_CardinalityType
<1>2. \A S, T \in SUBSET Job : S \subseteq T => Cardinality(S) <= Cardinality(T)
    BY <1>1, FS_Subset
<1>3. Active \in SUBSET Job /\ Active \ forced \in SUBSET Job
    BY DEF Active
<1>4. MaxConcurrent \in Nat
    BY JobManagerAssumption
<1>5. ASSUME NEW S \in SUBSET Job
      PROVE  /\ FreeSlots(S) \in Nat
             /\ FreeSlots(S) > 0 => FreeSlots(S) + Cardinality(S) <= MaxConcurrent
    <2>1. Cardinality(S) \in Nat
        BY <1>1
    <2> QED BY <1>4, <2>1 DEF FreeSlots
<1> QED BY <1>1, <1>2, <1>3, <1>5 DEF Busy

\* The fewer run the better.
LEMMA Fewer ==
    ASSUME NEW q, NEW k \in Nat, NEW l \in Nat, l <= k, q \in Seq(Request), Within(q, k)
    PROVE  Within(q, l)
<1>1. \A n \in AsksOf(q) : q[n].n \in Nat
    <2>1. \A n \in DOMAIN q : q[n] \in Request
        BY ElementOfSeq, LenProperties
    <2> QED BY <2>1 DEF AsksOf, Request
<1>2. \A m, n \in AsksOf(q) : m = n /\ q[n].n + l <= MaxConcurrent
    BY <1>1, JobManagerAssumption DEF Within
<1> QED BY <1>2 DEF Within

\* Calls are well-typed.
LEMMA CallType ==
    ASSUME NEW op \in {"force", "flush", "active", "again", "later", "remove", "cancel",
                       "next", "reset"},
           NEW S \in SUBSET Job, NEW n \in Nat
    PROVE  Call(op, S, n) \in Request /\ Call(op, S, n).op = op /\ Call(op, S, n).n = n
           /\ Call(op, S, n).jobs = S
BY DEF Call, Request

\* maybeStartJobs asks at most once, and for no more than what is free.
LEMMA Asked ==
    ASSUME NEW on \in BOOLEAN, NEW active \in SUBSET Job, NEW posted \in Seq(Request),
           NEW k \in Nat, k <= Cardinality(active), inMaybe \in BOOLEAN,
           Within(posted, k), inMaybe \/ AsksOf(posted) = {},
           MaybeStart(on, active, posted)
    PROVE  /\ requests' \in Seq(Request) /\ inMaybe' \in BOOLEAN
           /\ Within(requests', k) /\ (inMaybe' \/ AsksOf(requests') = {})
           /\ TriesIn(posted) => TriesIn(requests')
           /\ ResetIn(posted) => ResetIn(requests')
           /\ ~on => requests' = posted
<1>1. CASE MayAsk(on, active)
    <2>1. ~inMaybe /\ on /\ FreeSlots(active) > 0
        BY <1>1 DEF MayAsk
    <2>2. PICK x : x = Call("next", {}, FreeSlots(active))
        OBVIOUS
    <2>3. inMaybe' = TRUE /\ requests' = Append(posted, x)
        BY <1>1, <2>2 DEF MaybeStart
    <2>4. /\ FreeSlots(active) \in Nat /\ Cardinality(active) \in Nat
          /\ FreeSlots(active) + Cardinality(active) <= MaxConcurrent
        BY <2>1, Counted
    <2>5. x \in Request /\ x.op = "next" /\ x.n = FreeSlots(active)
        BY <2>2, <2>4, CallType
    <2>6. x.n + k <= MaxConcurrent
        BY <2>4, <2>5, JobManagerAssumption
    <2>7. AsksOf(posted) = {}
        BY <2>1
    <2>8. requests' \in Seq(Request) /\ Within(requests', k)
        BY <2>3, <2>5, <2>6, <2>7, Posted
    <2>9. /\ TriesIn(posted) => TriesIn(requests')
          /\ ResetIn(posted) => ResetIn(requests')
        BY <2>3, <2>5, Posted
    <2> QED BY <2>1, <2>3, <2>8, <2>9
<1>2. CASE ~MayAsk(on, active)
    BY <1>2 DEF MaybeStart
<1> QED BY <1>1, <1>2

\* Nothing started: the slots of those that ended are free again.
LEMMA SlotsKept ==
    ASSUME SlotsOK, requests' \in Seq(Request), Within(requests', Busy),
           inMaybe' \/ AsksOf(requests') = {},
           (Active \ forced)' \subseteq Active \ forced
    PROVE  SlotsOK'
<1>1. Active \ forced \in SUBSET Job /\ (Active \ forced)' \in SUBSET Job
    BY DEF Active
<1>2. Busy \in Nat /\ Busy' \in Nat /\ Busy' <= Busy
    BY <1>1, Counted DEF Busy
<1>3. Within(requests', Busy')
    BY <1>2, Fewer
<1>4. Within(requests, Busy)'
    BY <1>3 DEF Within, AsksOf
<1>5. AsksOf(requests)' = AsksOf(requests')
    BY DEF AsksOf
<1> QED BY <1>2, <1>4, <1>5, JobManagerAssumption DEF SlotsOK

\* No row became active, no job started, and the calls before a reset are kept.
LEMMA RowsKept ==
    ASSUME RowsOK, Stuck' => Stuck, ResetIn(requests) => ResetIn(requests'),
           Early(requests) => Early(requests') \/ ResetIn(requests'),
           Fresh => enabled' = enabled /\ timer' # "pause" /\ Active' = {}
    PROVE  RowsOK'
<1>1. Early(requests)' = Early(requests') /\ ResetIn(requests)' = ResetIn(requests')
    BY DEF Early, ResetIn
<1> QED BY <1>1 DEF RowsOK, Fresh

-----------------------------------------------------------------------------
(* The steps. *)

\* A step that starts no job, ends none and only posts calls.
LEMMA QuietStep ==
    ASSUME IndInv, TypeOK', UNCHANGED <<db, forced, began>>,
           \A j \in Job : pc'[j] = "no" <=> pc[j] = "no",
           Within(requests', Busy), inMaybe' \/ AsksOf(requests') = {},
           TriesIn(requests) => TriesIn(requests'),
           ResetIn(requests) => ResetIn(requests'),
           \A j \in Job : mem'[j] <= mem[j],
           Fresh => /\ Early(requests') \/ ResetIn(requests')
                    /\ ResetIn(requests') \/ enabled' = enabled
                    /\ timer' # "pause"
    PROVE  IndInv'
<1>1. Active' = Active /\ (Active \ forced)' = Active \ forced
    BY DEF Active
<1>2. SlotsOK'
    BY <1>1, SlotsKept DEF IndInv, TypeOK
<1>3. TriesOK'
    <2> SUFFICES ASSUME ~CanRateLimit PROVE TriesOK'
        BY DEF TriesOK
    <2>1. TriesIn(requests)' = TriesIn(requests')
        BY DEF TriesIn
    <2>2. \A j \in Job : mem[j] \in Nat /\ mem'[j] \in Nat /\ began[j] \in Nat /\ began' = began
        BY DEF IndInv, TypeOK
    <2>3. \A j \in Job : mem'[j] <= began'[j]
        BY <2>2 DEF IndInv, TriesOK
    <2> QED BY <2>1, <2>3 DEF IndInv, TriesOK, db
<1>4. RowsOK'
    <2>1. Stuck' = Stuck
        BY DEF Stuck, db
    <2>2. Early(requests)' = Early(requests') /\ ResetIn(requests)' = ResetIn(requests')
        BY DEF Early, ResetIn
    <2> QED BY <1>1, <2>1, <2>2 DEF IndInv, RowsOK, Fresh
<1> QED BY <1>2, <1>3, <1>4 DEF IndInv

\* Jobs are added, batched saves are flushed.
LEMMA AddSteps ==
    ASSUME IndInv, (\E j \in Job : AddJob(j)) \/ FlushBatch
    PROVE  IndInv'
<1> USE DEF db, flags, runs, bounds
<1>1. /\ TypeOK /\ requests \in Seq(Request) /\ enabled \in BOOLEAN /\ inMaybe \in BOOLEAN
      /\ Within(requests, Busy) /\ (inMaybe \/ AsksOf(requests) = {})
      /\ batch \in SUBSET Job
    BY DEF IndInv, TypeOK, SlotsOK
<1>2. /\ Active \in SUBSET Job /\ Busy \in Nat /\ Busy <= Cardinality(Active)
    BY Counted
<1>3. ASSUME NEW j \in Job, AddJob(j) PROVE IndInv'
    <2>1. adds' \in [Job -> Nat]
        BY <1>1, <1>3 DEF AddJob, TypeOK
    <2>2. UNCHANGED <<db, flags, pc, began, forced, cancel, stops, restarts>>
        BY <1>3 DEF AddJob
    <2>3. CASE mem' = [mem EXCEPT ![j] = 0] /\ UNCHANGED <<requests, batch, inMaybe>>
        <3>1. \A i \in Job : mem'[i] <= mem[i]
            BY <1>1, <2>3 DEF TypeOK
        <3>2. TypeOK'
            BY <1>1, <2>1, <2>2, <2>3 DEF TypeOK
        <3> QED BY <1>1, <2>2, <2>3, <3>1, <3>2, QuietStep DEF Fresh
    <2>4. CASE requests' = Append(requests, Call("force", {j}, 0)) /\ UNCHANGED <<mem, batch, inMaybe>>
        <3>1. PICK x \in Request : x = Call("force", {j}, 0) /\ x.op = "force"
            BY CallType
        <3>2. requests' = Append(requests, x)
            BY <2>4, <3>1
        <3>3. /\ requests' \in Seq(Request)
              /\ Within(requests', Busy) /\ AsksOf(requests') = AsksOf(requests)
              /\ TriesIn(requests) => TriesIn(requests')
              /\ ResetIn(requests) => ResetIn(requests')
              /\ Early(requests) => Early(requests')
            BY <1>1, <3>1, <3>2, Posted
        <3>4. TypeOK'
            BY <1>1, <2>1, <2>2, <2>4, <3>3 DEF TypeOK
        <3>5. \A i \in Job : mem'[i] <= mem[i]
            BY <1>1, <2>4 DEF TypeOK
        <3> QED BY <1>1, <2>2, <2>4, <3>3, <3>4, <3>5, QuietStep DEF Fresh
    <2>5. CASE batch' = batch \cup {j} /\ MaybeStart(enabled, Active, requests) /\ UNCHANGED mem
        <3>1. /\ requests' \in Seq(Request) /\ inMaybe' \in BOOLEAN
              /\ Within(requests', Busy) /\ (inMaybe' \/ AsksOf(requests') = {})
              /\ TriesIn(requests) => TriesIn(requests')
              /\ ResetIn(requests) => ResetIn(requests')
              /\ ~enabled => requests' = requests
            BY <1>1, <1>2, <2>5, Asked
        <3>2. TypeOK'
            BY <1>1, <2>1, <2>2, <2>5, <3>1 DEF TypeOK
        <3>3. \A i \in Job : mem'[i] <= mem[i]
            BY <1>1, <2>5 DEF TypeOK
        <3> QED BY <1>1, <2>2, <3>1, <3>2, <3>3, QuietStep DEF Fresh
    <2> QED BY <1>3, <2>3, <2>4, <2>5 DEF AddJob
<1>4. CASE FlushBatch
    <2>1. PICK x \in Request : x = Call("flush", batch, 0) /\ x.op = "flush"
        BY <1>1, CallType
    <2>2. requests' = Append(requests, x) /\ batch' = {}
          /\ UNCHANGED <<db, flags, inMaybe, runs, cancel, bounds>>
        BY <1>4, <2>1 DEF FlushBatch
    <2>3. /\ requests' \in Seq(Request)
          /\ Within(requests', Busy) /\ AsksOf(requests') = AsksOf(requests)
          /\ TriesIn(requests) => TriesIn(requests')
          /\ ResetIn(requests) => ResetIn(requests')
          /\ Early(requests) => Early(requests')
        BY <1>1, <2>1, <2>2, Posted
    <2>4. TypeOK'
        BY <1>1, <2>2, <2>3 DEF TypeOK
    <2>5. \A i \in Job : mem'[i] <= mem[i]
        BY <1>1, <2>2 DEF TypeOK
    <2> QED BY <1>1, <2>2, <2>3, <2>4, <2>5, QuietStep DEF Fresh
<1> QED BY <1>3, <1>4

\* Timers, start, stop and the other calls that only ask for jobs.
LEMMA ClockSteps ==
    ASSUME IndInv, \/ Tick \/ PauseOver \/ Start \/ StartTicks \/ Stop \/ WaitForIdle \/ HoldOff
                   \/ \E j \in Job : CancelJob(j) \/ CancelWaited(j)
    PROVE  IndInv'
<1> USE DEF db, flags, runs, bounds
<1>1. /\ TypeOK /\ requests \in Seq(Request) /\ enabled \in BOOLEAN /\ inMaybe \in BOOLEAN
      /\ Within(requests, Busy) /\ (inMaybe \/ AsksOf(requests) = {})
    BY DEF IndInv, TypeOK, SlotsOK
<1>2. /\ Active \in SUBSET Job /\ Busy \in Nat /\ Busy <= Cardinality(Active)
    BY Counted
<1>3. \A i \in Job : mem[i] <= mem[i]
    BY <1>1 DEF TypeOK
<1>4. ASSUME NEW on \in BOOLEAN, MaybeStart(on, Active, requests)
      PROVE  /\ requests' \in Seq(Request) /\ inMaybe' \in BOOLEAN
             /\ Within(requests', Busy) /\ (inMaybe' \/ AsksOf(requests') = {})
             /\ TriesIn(requests) => TriesIn(requests')
             /\ ResetIn(requests) => ResetIn(requests')
             /\ ~on => requests' = requests
    BY <1>1, <1>2, <1>4, Asked
<1>5. CASE Tick
    <2>1. TypeOK'
        BY <1>1, <1>4, <1>5 DEF Tick, TypeOK
    <2> QED BY <1>1, <1>3, <1>4, <1>5, <2>1, QuietStep DEF Tick, Fresh
<1>6. CASE PauseOver
    <2>1. TypeOK'
        BY <1>1, <1>4, <1>6 DEF PauseOver, TypeOK
    <2> QED BY <1>1, <1>3, <1>4, <1>6, <2>1, QuietStep DEF PauseOver, Fresh
<1>7. CASE StartTicks
    <2>1. TypeOK'
        BY <1>1, <1>4, <1>7 DEF StartTicks, TypeOK
    <2> QED BY <1>1, <1>3, <1>4, <1>7, <2>1, QuietStep DEF StartTicks, Fresh
<1>8. CASE WaitForIdle
    <2>1. TypeOK'
        BY <1>1, <1>4, <1>8 DEF WaitForIdle, TypeOK
    <2> QED BY <1>1, <1>3, <1>4, <1>8, <2>1, QuietStep DEF WaitForIdle, Fresh
<1>9. CASE Stop
    <2>1. TypeOK'
        <3>1. stops' \in Nat
            BY <1>1, <1>9 DEF Stop, TypeOK
        <3>2. enabled' = FALSE /\ timer' = "none"
              /\ UNCHANGED <<row, tries, requests, batch, startup, held, idle, inMaybe, pc, began,
                             mem, forced, cancel, adds, restarts>>
            BY <1>9 DEF Stop
        <3> QED BY <1>1, <3>1, <3>2 DEF TypeOK
    <2> QED BY <1>1, <1>3, <1>9, <2>1, QuietStep DEF Stop, Fresh
<1>10. CASE HoldOff
    <2>1. TypeOK'
        <3>1. held' \in BOOLEAN
            BY <1>10 DEF HoldOff
        <3>2. UNCHANGED <<row, tries, requests, batch, enabled, timer, startup, idle, inMaybe>>
            BY <1>10 DEF HoldOff
        <3>3. UNCHANGED <<pc, began, mem, forced, cancel, adds, stops, restarts>>
            BY <1>10 DEF HoldOff
        <3> QED BY <1>1, <3>1, <3>2, <3>3 DEF TypeOK
    <2> QED BY <1>1, <1>3, <1>10, <2>1, QuietStep DEF HoldOff, Fresh
<1>11. CASE Start
    <2>1. CASE ~enabled
        <3>1. PICK x \in Request : x = Call("reset", {}, 0) /\ x.op = "reset"
            BY CallType
        <3>2. requests' = Append(requests, x) /\ enabled' = TRUE /\ startup' = "marking"
              /\ UNCHANGED <<timer, inMaybe, db, batch, held, idle, runs, cancel, bounds>>
            BY <1>11, <2>1, <3>1 DEF Start
        <3>3. /\ requests' \in Seq(Request)
              /\ Within(requests', Busy) /\ AsksOf(requests') = AsksOf(requests)
              /\ TriesIn(requests) => TriesIn(requests')
              /\ ResetIn(requests')
            BY <1>1, <3>1, <3>2, Posted
        <3>4. TypeOK'
            BY <1>1, <3>2, <3>3 DEF TypeOK
        <3> QED BY <1>1, <1>3, <3>2, <3>3, <3>4, QuietStep DEF Fresh
    <2>2. CASE enabled
        <3>1. MaybeStart(TRUE, Active, requests) /\ enabled' = enabled
              /\ UNCHANGED <<db, batch, held, idle, runs, cancel, bounds>>
            BY <1>11, <2>2 DEF Start, AwaitMaybeStart
        <3>2. startup' \in {"no", "starting"} /\ timer' \in {timer, "tick"}
            BY <1>11, <2>2 DEF Start, AwaitMaybeStart
        <3>3. TypeOK'
            BY <1>1, <1>4, <3>1, <3>2 DEF TypeOK
        <3> QED BY <1>1, <1>3, <1>4, <2>2, <3>1, <3>3, QuietStep DEF Fresh
    <2> QED BY <1>1, <2>1, <2>2
<1>12. ASSUME NEW j \in Job, CancelJob(j) PROVE IndInv'
    <2>1. TypeOK'
        BY <1>1, <1>12 DEF CancelJob, TypeOK
    <2> QED BY <1>1, <1>3, <1>12, <2>1, QuietStep DEF CancelJob, Fresh
<1>13. ASSUME NEW j \in Job, CancelWaited(j) PROVE IndInv'
    <2>1. PICK x \in Request : x = Call("cancel", {j}, 0) /\ x.op = "cancel"
        BY CallType
    <2>2. requests' = Append(requests, x) /\ cancel' = [cancel EXCEPT ![j] = "removing"]
          /\ UNCHANGED <<db, batch, flags, inMaybe, runs, bounds>>
        BY <1>13, <2>1 DEF CancelWaited
    <2>3. /\ requests' \in Seq(Request)
          /\ Within(requests', Busy) /\ AsksOf(requests') = AsksOf(requests)
          /\ TriesIn(requests) => TriesIn(requests')
          /\ ResetIn(requests) => ResetIn(requests')
          /\ Early(requests) => Early(requests')
        BY <1>1, <2>1, <2>2, Posted
    <2>4. TypeOK'
        BY <1>1, <2>2, <2>3 DEF TypeOK
    <2> QED BY <1>1, <1>3, <2>2, <2>3, <2>4, QuietStep DEF Fresh
<1> QED BY <1>5, <1>6, <1>7, <1>8, <1>9, <1>10, <1>11, <1>12, <1>13

-----------------------------------------------------------------------------
(* The pending call of a run. *)

RunOps == {"active", "again", "later", "remove"}

\* Pending calls that startJob awaits for job j.
CallsOf(q, j) == {n \in DOMAIN q : q[n].op \in RunOps /\ j \in q[n].jobs}

StateFor(op) == IF op = "active" THEN "saving" ELSE "ending"

\* There is at most one, and the run of j, whose state is p[j], is awaiting it.
RunsIn(q, p) ==
    \A j \in Job : \A m, n \in CallsOf(q, j) : m = n /\ p[j] = StateFor(q[n].op)

RunsOK == RunsIn(requests, pc)

\* A run that awaits no call has none.
LEMMA Silent ==
    ASSUME NEW q, NEW p, RunsIn(q, p)
    PROVE  /\ \A j \in Job : p[j] \in {"no", "running"} => CallsOf(q, j) = {}
           /\ \A r : (\A j \in Job : r[j] = p[j] \/ CallsOf(q, j) = {}) => RunsIn(q, r)
<1>1. \A j \in Job : \A n \in CallsOf(q, j) : p[j] \in {"saving", "ending"}
    BY DEF RunsIn, StateFor
<1>2. ASSUME NEW r, \A j \in Job : r[j] = p[j] \/ CallsOf(q, j) = {}
      PROVE  RunsIn(q, r)
    BY <1>2 DEF RunsIn
<1> QED BY <1>1, <1>2

\* The oldest call is answered: the run that awaited it awaits nothing more.
LEMMA ServedRun ==
    ASSUME NEW q \in Seq(Request), q # <<>>, NEW p, RunsIn(q, p)
    PROVE  /\ RunsIn(Tail(q), p)
           /\ Head(q).op \in RunOps =>
                \A j \in Job : j \in Head(q).jobs =>
                    p[j] = StateFor(Head(q).op) /\ CallsOf(Tail(q), j) = {}
<1>1. Len(q) \in Nat \ {0} /\ DOMAIN q = 1..Len(q) /\ 1 \in DOMAIN q
    BY EmptySeq, LenProperties
<1>2. PICK t : t = Tail(q)
    OBVIOUS
<1>3. /\ Head(q) = q[1]
      /\ t \in Seq(Request) /\ Len(t) = Len(q) - 1
      /\ \A i \in 1..Len(t) : t[i] = q[i + 1]
    BY <1>1, <1>2, HeadTailProperties, ElementOfSeq
<1>4. DOMAIN t = 1..Len(t)
    BY <1>3, LenProperties
<1>5. \A i \in DOMAIN t : i + 1 \in DOMAIN q /\ t[i] = q[i + 1] /\ i + 1 # 1 /\ i \in Nat
    BY <1>1, <1>3, <1>4
<1>6. \A j : \A i \in CallsOf(t, j) : i + 1 \in CallsOf(q, j) /\ t[i] = q[i + 1] /\ i + 1 # 1 /\ i \in Nat
    BY <1>5 DEF CallsOf
<1>7. RunsIn(t, p)
    BY <1>6 DEF RunsIn
<1>8. ASSUME Head(q).op \in RunOps, NEW j \in Job, j \in Head(q).jobs
      PROVE  p[j] = StateFor(Head(q).op) /\ CallsOf(t, j) = {}
    <2>1. 1 \in CallsOf(q, j)
        BY <1>1, <1>3, <1>8 DEF CallsOf
    <2> QED BY <1>3, <1>6, <2>1 DEF RunsIn
<1> QED BY <1>2, <1>7, <1>8

\* A run that awaits nothing posts a call, or a call no run awaits is posted.
LEMMA PostedRun ==
    ASSUME NEW q \in Seq(Request), NEW x \in Request, NEW p, RunsIn(q, p),
           x.op \in RunOps => \A j \in x.jobs : CallsOf(q, j) = {} /\ p[j] = StateFor(x.op)
    PROVE  RunsIn(Append(q, x), p)
<1>1. PICK r : r = Append(q, x)
    OBVIOUS
<1>2. /\ r \in Seq(Request) /\ Len(r) = Len(q) + 1
      /\ \A i \in 1..Len(q) : r[i] = q[i]
      /\ r[Len(q) + 1] = x
    BY <1>1, AppendProperties
<1>3. Len(q) \in Nat /\ DOMAIN q = 1..Len(q) /\ DOMAIN r = 1..Len(r)
    BY <1>2, LenProperties
<1>4. PICK l : l = Len(q) + 1
    OBVIOUS
<1>5. /\ DOMAIN r = DOMAIN q \cup {l} /\ r[l] = x
      /\ \A i \in DOMAIN q : r[i] = q[i]
    BY <1>2, <1>3, <1>4
<1>6. \A j : \A n \in CallsOf(r, j) :
         (n \in CallsOf(q, j) /\ r[n] = q[n]) \/ (n = l /\ x.op \in RunOps /\ j \in x.jobs)
    BY <1>5 DEF CallsOf
<1>7. RunsIn(r, p)
    BY <1>5, <1>6 DEF RunsIn
<1> QED BY <1>1, <1>7

\* Each started job awaits its own save.
LEMMA SavesPostedRun ==
    ASSUME NEW q \in Seq(Request), NEW S \in SUBSET Job, NEW a \in [Job -> Nat],
           NEW o \in Orders(S), NEW p, RunsIn(q, p),
           \A j \in S : CallsOf(q, j) = {} /\ p[j] = "saving"
    PROVE  RunsIn(q \o ActiveSaves(o, a), p)
<1>1. PICK c \in Nat : c = Cardinality(S)
    BY JobManagerAssumption, FS_Subset, FS_CardinalityType
<1>2. o \in [1..c -> S] /\ DOMAIN o = 1..c /\ \A m, n \in 1..c : o[m] = o[n] => m = n
    BY <1>1 DEF Orders
<1>3. PICK s : s = ActiveSaves(o, a)
    OBVIOUS
<1>4. \A n \in 1..c : s[n] = Call("active", {o[n]}, a[o[n]]) /\ o[n] \in S
    BY <1>2, <1>3 DEF ActiveSaves
<1>5. \A n \in 1..c : s[n] \in Request /\ s[n].op = "active" /\ s[n].jobs = {o[n]}
    <2> TAKE n \in 1..c
    <2>1. o[n] \in S /\ o[n] \in Job /\ a[o[n]] \in Nat
        BY <1>4
    <2>2. s[n] = [op |-> "active", jobs |-> {o[n]}, n |-> a[o[n]]]
        BY <1>4 DEF Call
    <2> QED BY <2>1, <2>2 DEF Request
<1>6. s \in [1..c -> Request]
    <2>1. DOMAIN s = 1..c /\ s = [n \in 1..c |-> s[n]]
        BY <1>2, <1>3 DEF ActiveSaves
    <2> QED BY <1>5, <2>1
<1>7. s \in Seq(Request) /\ Len(s) = c
    <2>1. \A f \in [1..c -> Request] : f \in Seq(Request) /\ Len(f) = c
        BY <1>1
    <2> QED BY <1>6, <2>1
<1>8. PICK r : r = q \o s
    OBVIOUS
<1>9. /\ r \in Seq(Request) /\ Len(r) = Len(q) + c
      /\ \A i \in 1..(Len(q) + c) : r[i] = IF i <= Len(q) THEN q[i] ELSE s[i - Len(q)]
    BY <1>7, <1>8, ConcatProperties
<1>10. Len(q) \in Nat /\ DOMAIN q = 1..Len(q) /\ DOMAIN r = 1..Len(r)
    BY <1>9, LenProperties
<1>11. DOMAIN q \subseteq DOMAIN r /\ \A i \in DOMAIN q : r[i] = q[i]
    BY <1>1, <1>9, <1>10
<1>12. \A i \in DOMAIN r : i \in DOMAIN q \/ \E n \in 1..c : i = Len(q) + n /\ r[i] = s[n]
    <2> SUFFICES ASSUME NEW i \in DOMAIN r, i \notin DOMAIN q
                 PROVE  \E n \in 1..c : i = Len(q) + n /\ r[i] = s[n]
        OBVIOUS
    <2>1. i - Len(q) \in 1..c /\ i = Len(q) + (i - Len(q))
        BY <1>1, <1>9, <1>10
    <2>2. r[i] = s[i - Len(q)]
        BY <1>9, <1>10
    <2> QED BY <2>1, <2>2
<1>13. ASSUME NEW j \in Job, NEW i \in CallsOf(r, j)
       PROVE  \/ i \in CallsOf(q, j) /\ r[i] = q[i]
              \/ \E n \in 1..c : i = Len(q) + n /\ r[i].op = "active" /\ o[n] = j /\ j \in S
    <2>1. CASE i \in DOMAIN q
        BY <1>11, <1>13, <2>1 DEF CallsOf
    <2>2. CASE i \notin DOMAIN q
        <3>1. PICK n \in 1..c : i = Len(q) + n /\ r[i] = s[n]
            BY <1>12, <1>13, <2>2 DEF CallsOf
        <3>2. j \in {o[n]} /\ r[i].op = "active" /\ o[n] \in S
            BY <1>4, <1>5, <1>13, <3>1 DEF CallsOf
        <3> QED BY <3>1, <3>2
    <2> QED BY <2>1, <2>2
<1>14. ASSUME NEW j \in Job, NEW m \in CallsOf(r, j), NEW n \in CallsOf(r, j)
       PROVE  m = n /\ p[j] = StateFor(r[n].op)
    <2>1. CASE j \in S
        <3>1. CallsOf(q, j) = {} /\ p[j] = "saving"
            BY <2>1
        <3>2. PICK u \in 1..c : n = Len(q) + u /\ r[n].op = "active" /\ o[u] = j
            BY <1>13, <3>1
        <3>3. PICK v \in 1..c : m = Len(q) + v /\ o[v] = j
            BY <1>13, <3>1
        <3> QED BY <1>2, <3>1, <3>2, <3>3 DEF StateFor
    <2>2. CASE j \notin S
        <3>1. m \in CallsOf(q, j) /\ n \in CallsOf(q, j) /\ r[n] = q[n]
            BY <1>13, <2>2
        <3> QED BY <3>1 DEF RunsIn
    <2> QED BY <2>1, <2>2
<1> QED BY <1>3, <1>8, <1>14 DEF RunsIn

\* No run awaits getNextJobs.
LEMMA AskedRun ==
    ASSUME NEW on, NEW active \in SUBSET Job, NEW posted \in Seq(Request), NEW p,
           RunsIn(posted, p), MaybeStart(on, active, posted)
    PROVE  RunsIn(requests', p)
<1>1. CASE MayAsk(on, active)
    <2>1. PICK x : x = Call("next", {}, FreeSlots(active))
        OBVIOUS
    <2>2. requests' = Append(posted, x)
        BY <1>1, <2>1 DEF MaybeStart
    <2>3. FreeSlots(active) \in Nat
        BY Counted
    <2>4. x \in Request /\ x.op = "next"
        BY <2>1, <2>3, CallType
    <2> QED BY <2>2, <2>4, PostedRun DEF RunOps
<1>2. CASE ~MayAsk(on, active)
    BY <1>2 DEF MaybeStart
<1> QED BY <1>1, <1>2

\* runJob settles: one more call is posted for the job, which stays active.
LEMMA RunSteps ==
    ASSUME IndInv, NEW j \in Job, RunEnds(j)
    PROVE  IndInv'
<1> USE DEF db, flags, runs, bounds
<1>1. /\ TypeOK /\ requests \in Seq(Request) /\ Within(requests, Busy)
      /\ inMaybe \/ AsksOf(requests) = {}
    BY DEF IndInv, TypeOK, SlotsOK
<1>2. /\ pc[j] = "running" /\ mem[j] \in Nat /\ began[j] \in Nat /\ MaxAttempts \in Nat
      /\ \A i \in Job : mem[i] <= mem[i]
    BY <1>1, JobManagerAssumption
       DEF TypeOK, RunEnds, RunFinished, RunFailed, RunUpdated, RunRateLimited
<1>3. NextAttempt(mem[j]) \in Nat
    BY <1>2 DEF NextAttempt
<1>4. PICK op \in {"remove", "later", "again"}, n \in Nat :
         /\ Post(op, j, n)
         /\ op = "remove" \/ (n = NextAttempt(mem[j]) /\ (~IsLastAttempt(began[j]) \/ CanRateLimit))
    BY <1>3 DEF RunEnds, RunFinished, RunFailed, RunUpdated, RunRateLimited
<1>5. PICK x \in Request : x = Call(op, {j}, n) /\ x.op = op /\ x.n = n
    BY CallType
<1>6. requests' = Append(requests, x) /\ pc' = [pc EXCEPT ![j] = "ending"]
    BY <1>4, <1>5 DEF Post
<1>7. /\ UNCHANGED <<db, batch, startup, held, idle, inMaybe, began, mem, forced, cancel, bounds>>
      /\ enabled' \in BOOLEAN /\ timer' \in {"none", "tick", "pause"}
    BY <1>1 DEF TypeOK, RunEnds, RunFinished, RunFailed, RunUpdated, RunRateLimited
<1>8. /\ requests' \in Seq(Request) /\ Within(requests', Busy) /\ AsksOf(requests') = AsksOf(requests)
      /\ ResetIn(requests) => ResetIn(requests')
    BY <1>1, <1>5, <1>6, Posted
<1>9. TypeOK'
    BY <1>1, <1>6, <1>7, <1>8 DEF TypeOK
<1>10. /\ Active' = Active /\ (Active \ forced)' = Active \ forced
       /\ \A i \in Job : pc'[i] = "no" <=> pc[i] = "no"
    BY <1>1, <1>2, <1>6, <1>7 DEF Active, TypeOK
<1>11. SlotsOK'
    BY <1>1, <1>7, <1>8, <1>10, SlotsKept DEF IndInv
<1>12. TriesOK'
    <2> SUFFICES ASSUME ~CanRateLimit PROVE TriesOK'
        BY DEF TriesOK
    <2>1. op = "remove" \/ n < MaxAttempts
        <3>1. mem[j] <= began[j]
            BY DEF IndInv, TriesOK
        <3> QED BY <1>2, <1>4, <3>1 DEF NextAttempt, IsLastAttempt
    <2>2. TriesIn(requests')
        BY <1>1, <1>5, <1>6, <2>1, Posted DEF IndInv, TriesOK
    <2>3. TriesIn(requests)' = TriesIn(requests')
        BY DEF TriesIn
    <2> QED BY <1>7, <2>2, <2>3 DEF IndInv, TriesOK
<1>13. RowsOK'
    <2>1. Stuck' = Stuck
        BY <1>7, <1>10 DEF Stuck
    <2>2. ~Fresh
        BY <1>2 DEF Fresh, Active
    <2>3. ResetIn(requests)' = ResetIn(requests')
        BY DEF ResetIn
    <2> QED BY <1>8, <2>1, <2>2, <2>3 DEF IndInv, RowsOK
<1> QED BY <1>9, <1>11, <1>12, <1>13 DEF IndInv

\* A delay is over; the process ends.
LEMMA OtherSteps ==
    ASSUME IndInv, (\E j \in Job : BackoffOver(j)) \/ Restart
    PROVE  IndInv'
<1> USE DEF db, flags, runs, bounds
<1>1. TypeOK /\ requests \in Seq(Request) /\ Within(requests, Busy) /\ (inMaybe \/ AsksOf(requests) = {})
    BY DEF IndInv, TypeOK, SlotsOK
<1>2. ASSUME NEW j \in Job, BackoffOver(j) PROVE IndInv'
    <2>1. row' = [row EXCEPT ![j] = "waiting"] /\ row[j] = "backoff"
          /\ UNCHANGED <<tries, requests, batch, flags, inMaybe, runs, cancel, bounds>>
        BY <1>2 DEF BackoffOver
    <2>2. TypeOK'
        BY <1>1, <2>1 DEF TypeOK
    <2>3. (Active \ forced)' = Active \ forced /\ Active' = Active
        BY <2>1 DEF Active
    <2>4. SlotsOK'
        BY <1>1, <2>1, <2>3, SlotsKept DEF IndInv
    <2>5. TriesOK'
        <3>1. TriesIn(requests)' = TriesIn(requests)
            BY <2>1 DEF TriesIn
        <3>2. \A i \in Job : row'[i] # "absent" => row[i] # "absent"
            BY <1>1, <2>1 DEF TypeOK
        <3> QED BY <2>1, <3>1, <3>2 DEF IndInv, TriesOK
    <2>6. RowsOK'
        <3>1. Stuck' => Stuck
            BY <1>1, <2>1 DEF Stuck, TypeOK
        <3>2. requests' = requests
            BY <2>1
        <3>3. Fresh => enabled' = enabled /\ timer' # "pause" /\ Active' = {}
            BY <2>1, <2>3 DEF Fresh
        <3> QED BY <3>1, <3>2, <3>3, RowsKept DEF IndInv
    <2> QED BY <2>2, <2>4, <2>5, <2>6 DEF IndInv
<1>3. CASE Restart
    <2>1. /\ requests' = <<>> /\ batch' = {} /\ enabled' = FALSE /\ timer' = "none" /\ inMaybe' = FALSE
          /\ startup' = "no" /\ held' = FALSE /\ idle' = FALSE
          /\ pc' = [j \in Job |-> "no"] /\ began' = [j \in Job |-> 0] /\ mem' = [j \in Job |-> 0]
          /\ forced' = {} /\ cancel' = [j \in Job |-> "no"]
          /\ UNCHANGED <<row, tries, adds, stops>>
        BY <1>3 DEF Restart
    <2>2. restarts' \in Nat
        BY <1>1, <1>3 DEF Restart, TypeOK
    <2>3. TypeOK'
        <3>1. requests' \in Seq(Request)
            BY <2>1
        <3> QED BY <1>1, <2>1, <2>2, <3>1 DEF TypeOK
    <2>4. DOMAIN requests' = {}
        BY <2>1
    <2>5. Active' = {} /\ (Active \ forced)' = {}
        BY <2>1 DEF Active
    <2>6. AsksOf(requests)' = {} /\ TriesIn(requests)' /\ Early(requests)'
        BY <2>4 DEF AsksOf, TriesIn, Early
    <2>7. SlotsOK'
        <3>1. Busy' = 0
            BY <2>5, FS_EmptySet DEF Busy
        <3>2. Within(requests, Busy)'
            BY <2>6 DEF Within
        <3> QED BY <2>6, <3>1, <3>2, JobManagerAssumption DEF SlotsOK
    <2>8. TriesOK'
        BY <2>1, <2>6 DEF IndInv, TriesOK
    <2>9. Fresh'
        BY <2>1, <2>5, <2>6 DEF Fresh
    <2> QED BY <2>3, <2>7, <2>8, <2>9 DEF IndInv, RowsOK
<1> QED BY <1>2, <1>3

-----------------------------------------------------------------------------
(* The worker answers. *)

\* What is known of the oldest call and of those behind it.
LEMMA AnswerStep ==
    ASSUME IndInv, NEW op, Answer(op)
    PROVE  /\ Req \in Request /\ Req.op = op /\ Req.jobs \in SUBSET Job /\ Req.n \in Nat
           /\ Rest \in Seq(Request) /\ Within(Rest, Busy) /\ (inMaybe \/ AsksOf(Rest) = {})
           /\ op = "next" => AsksOf(Rest) = {} /\ Req.n + Busy <= MaxConcurrent /\ inMaybe
           /\ TriesIn(requests) => /\ TriesIn(Rest)
                                   /\ op \in {"active", "later", "again"} => Req.n < MaxAttempts
           /\ Early(requests) => Early(Rest) /\ op \in {"force", "flush", "cancel"}
           /\ op # "reset" /\ ResetIn(requests) => ResetIn(Rest)
<1>1. requests \in Seq(Request) /\ requests # <<>> /\ Head(requests).op = op
    BY DEF Answer, IndInv, TypeOK
<1>2. Within(requests, Busy) /\ (inMaybe \/ AsksOf(requests) = {})
    BY DEF IndInv, SlotsOK
<1>3. Req \in Request /\ Rest \in Seq(Request) /\ Req.op = op
    BY <1>1, Served DEF Req, Rest
<1>4. Req.jobs \in SUBSET Job /\ Req.n \in Nat
    BY <1>3 DEF Request
<1>5. Within(Rest, Busy) /\ (inMaybe \/ AsksOf(Rest) = {})
    BY <1>1, <1>2, Served DEF Rest
<1>6. ASSUME op = "next" PROVE AsksOf(Rest) = {} /\ Req.n + Busy <= MaxConcurrent /\ inMaybe
    BY <1>1, <1>2, <1>6, Served DEF Req, Rest
<1>7. TriesIn(requests) => /\ TriesIn(Rest)
                           /\ op \in {"active", "later", "again"} => Req.n < MaxAttempts
    BY <1>1, Served DEF Req, Rest
<1>8. Early(requests) => Early(Rest) /\ op \in {"force", "flush", "cancel"}
    BY <1>1, Served DEF Req, Rest
<1>9. op # "reset" /\ ResetIn(requests) => ResetIn(Rest)
    BY <1>1, Served DEF Req, Rest
<1> QED BY <1>3, <1>4, <1>5, <1>6, <1>7, <1>8, <1>9

\* Batched saves are done.
LEMMA BatchStep == ASSUME IndInv, BatchSaved PROVE IndInv'
<1> USE DEF db, flags, runs, bounds
<1>1. Answer("flush") /\ UNCHANGED <<batch, enabled, timer, startup, held, idle, pc, began, mem, forced, cancel, adds, stops, restarts>>
    BY DEF BatchSaved
<1>2. /\ TypeOK /\ enabled \in BOOLEAN /\ inMaybe \in BOOLEAN
      /\ Active \in SUBSET Job /\ Busy \in Nat /\ Busy <= Cardinality(Active)
    BY Counted DEF IndInv, TypeOK
<1>3. /\ Req.jobs \in SUBSET Job /\ Rest \in Seq(Request) /\ Within(Rest, Busy)
      /\ inMaybe \/ AsksOf(Rest) = {}
      /\ TriesIn(requests) => TriesIn(Rest)
      /\ Early(requests) => Early(Rest)
      /\ ResetIn(requests) => ResetIn(Rest)
    BY <1>1, AnswerStep
<1>4. MaybeStart(enabled, Active, Rest)
    BY DEF BatchSaved
<1>5. /\ requests' \in Seq(Request) /\ inMaybe' \in BOOLEAN
      /\ Within(requests', Busy) /\ (inMaybe' \/ AsksOf(requests') = {})
      /\ TriesIn(Rest) => TriesIn(requests')
      /\ ResetIn(Rest) => ResetIn(requests')
      /\ ~enabled => requests' = Rest
    BY <1>2, <1>3, <1>4, Asked
<1>6. /\ row' = [j \in Job |-> IF j \in Req.jobs THEN "waiting" ELSE row[j]]
      /\ tries' = [j \in Job |-> IF j \in Req.jobs THEN 0 ELSE tries[j]]
    BY DEF BatchSaved
<1>7. TypeOK'
    <2>1. row' \in [Job -> {"absent", "waiting", "backoff", "active"}] /\ tries' \in [Job -> Nat]
        BY <1>2, <1>6 DEF TypeOK
    <2> QED BY <1>1, <1>2, <1>5, <2>1 DEF TypeOK
<1>8. Active' = Active /\ (Active \ forced)' = Active \ forced
    BY <1>1 DEF Active
<1>9. SlotsOK'
    BY <1>5, <1>8, SlotsKept DEF IndInv
<1>10. TriesOK'
    <2>1. TriesIn(requests)' = TriesIn(requests')
        BY DEF TriesIn
    <2> QED BY <1>1, <1>3, <1>5, <1>6, <2>1, JobManagerAssumption DEF IndInv, TriesOK
<1>11. RowsOK'
    <2>1. Stuck' => Stuck
        BY <1>1, <1>6 DEF Stuck
    <2>2. Fresh => enabled' = enabled /\ timer' # "pause" /\ Active' = {} /\ ~enabled
        BY <1>1, <1>8 DEF Fresh
    <2>3. ~enabled /\ Early(requests) => Early(requests')
        BY <1>3, <1>5
    <2>4. ResetIn(requests) => ResetIn(requests')
        BY <1>3, <1>5
    <2>5. Early(requests)' = Early(requests') /\ ResetIn(requests)' = ResetIn(requests')
        BY DEF Early, ResetIn
    <2> QED BY <2>1, <2>2, <2>3, <2>4, <2>5 DEF IndInv, RowsOK, Fresh
<1> QED BY <1>7, <1>9, <1>10, <1>11 DEF IndInv

\* A cancelled row is gone.
LEMMA CancelStep == ASSUME IndInv, CancelRemoved PROVE IndInv'
<1> USE DEF db, flags, runs, bounds
<1>1. /\ Answer("cancel") /\ requests' = Rest
      /\ row' = [j \in Job |-> IF j \in Req.jobs THEN "absent" ELSE row[j]]
      /\ cancel' = [j \in Job |-> IF j \in Req.jobs THEN "no" ELSE cancel[j]]
      /\ UNCHANGED <<tries, batch, enabled, timer, startup, held, idle, inMaybe, pc, began, mem, forced, adds, stops, restarts>>
    BY DEF CancelRemoved
<1>2. TypeOK
    BY DEF IndInv
<1>3. /\ Req.jobs \in SUBSET Job /\ Rest \in Seq(Request) /\ Within(Rest, Busy)
      /\ inMaybe \/ AsksOf(Rest) = {}
      /\ TriesIn(requests) => TriesIn(Rest)
      /\ Early(requests) => Early(Rest)
      /\ ResetIn(requests) => ResetIn(Rest)
    BY <1>1, AnswerStep
<1>4. TypeOK'
    <2>1. row' \in [Job -> {"absent", "waiting", "backoff", "active"}]
          /\ cancel' \in [Job -> {"no", "waiting", "removing"}]
        BY <1>1, <1>2 DEF TypeOK
    <2> QED BY <1>1, <1>2, <1>3, <2>1 DEF TypeOK
<1>5. Active' = Active /\ (Active \ forced)' = Active \ forced
    BY <1>1 DEF Active
<1>6. SlotsOK'
    BY <1>1, <1>3, <1>5, SlotsKept DEF IndInv
<1>7. TriesOK'
    <2>1. TriesIn(requests)' = TriesIn(requests')
        BY DEF TriesIn
    <2>2. \A j \in Job : row'[j] # "absent" => row[j] # "absent"
        BY <1>1
    <2> QED BY <1>1, <1>3, <2>1, <2>2 DEF IndInv, TriesOK
<1>8. RowsOK'
    <2>1. Stuck' => Stuck
        BY <1>1 DEF Stuck
    <2>2. Fresh => enabled' = enabled /\ timer' # "pause" /\ Active' = {}
        BY <1>1, <1>5 DEF Fresh
    <2> QED BY <1>1, <1>3, <2>1, <2>2, RowsKept DEF IndInv
<1> QED BY <1>4, <1>6, <1>7, <1>8 DEF IndInv

\* A started job's row is active: its run begins.
LEMMA ActiveStep == ASSUME IndInv, RunsOK, ActiveSaved PROVE IndInv'
<1> USE DEF db, flags, runs, bounds
<1>1. /\ Answer("active") /\ requests' = Rest
      /\ row' = [j \in Job |-> IF j \in Req.jobs THEN "active" ELSE row[j]]
      /\ tries' = [j \in Job |-> IF j \in Req.jobs THEN Req.n ELSE tries[j]]
      /\ pc' = [j \in Job |-> IF j \in Req.jobs THEN "running" ELSE pc[j]]
      /\ UNCHANGED <<batch, enabled, timer, startup, held, idle, inMaybe, began, mem, forced, cancel, adds, stops, restarts>>
    BY DEF ActiveSaved
<1>2. TypeOK
    BY DEF IndInv
<1>3. /\ Req.jobs \in SUBSET Job /\ Rest \in Seq(Request) /\ Within(Rest, Busy) /\ Req.n \in Nat
      /\ inMaybe \/ AsksOf(Rest) = {}
      /\ TriesIn(requests) => TriesIn(Rest) /\ Req.n < MaxAttempts
      /\ ~Early(requests)
      /\ ResetIn(requests) => ResetIn(Rest)
    BY <1>1, AnswerStep
<1>4. TypeOK'
    <2>1. row' \in [Job -> {"absent", "waiting", "backoff", "active"}] /\ tries' \in [Job -> Nat]
          /\ pc' \in [Job -> {"no", "saving", "running", "ending"}]
        BY <1>1, <1>2, <1>3 DEF TypeOK
    <2> QED BY <1>1, <1>2, <1>3, <2>1 DEF TypeOK
<1>5. \A j \in Req.jobs : pc[j] = "saving"
    <2>1. requests \in Seq(Request) /\ requests # <<>> /\ RunsIn(requests, pc) /\ Req = Head(requests)
        BY <1>1, <1>2 DEF TypeOK, RunsOK, Answer, Req
    <2>2. Head(requests).op = "active"
        BY <1>1 DEF Answer
    <2> QED BY <1>3, <2>1, <2>2, ServedRun DEF RunOps, StateFor
<1>6. Active' = Active /\ (Active \ forced)' = Active \ forced
    BY <1>1, <1>5 DEF Active
<1>7. SlotsOK'
    BY <1>1, <1>3, <1>6, SlotsKept DEF IndInv
<1>8. TriesOK'
    <2>1. TriesIn(requests)' = TriesIn(requests')
        BY DEF TriesIn
    <2> QED BY <1>1, <1>3, <2>1 DEF IndInv, TriesOK
<1>9. RowsOK'
    <2>1. Stuck' => Stuck
        BY <1>1 DEF Stuck
    <2>2. ~Fresh
        BY <1>3 DEF Fresh
    <2> QED BY <1>1, <1>3, <2>1, <2>2, RowsKept DEF IndInv
<1> QED BY <1>4, <1>7, <1>8, <1>9 DEF IndInv

\* A run is over: its row is removed or kept for a retry.
LEMMA EndStep == ASSUME IndInv, JobEnded PROVE IndInv'
<1> USE DEF db, flags, runs, bounds
<1>1. PICK op \in {"remove", "later", "again"} : Answer(op)
    BY DEF JobEnded
<1>2. /\ pc' = [j \in Job |-> IF j \in Req.jobs THEN "no" ELSE pc[j]]
      /\ tries' = [j \in Job |-> IF j \in Req.jobs THEN Req.n ELSE tries[j]]
      /\ forced' = forced \ Req.jobs
      /\ MaybeStart(enabled, Active \ Req.jobs, Rest)
      /\ UNCHANGED <<batch, enabled, timer, startup, held, idle, began, mem, cancel, adds, stops, restarts>>
    BY DEF JobEnded
<1>3. /\ TypeOK /\ enabled \in BOOLEAN /\ inMaybe \in BOOLEAN
      /\ Active \in SUBSET Job /\ Busy \in Nat /\ Busy <= Cardinality(Active)
    BY Counted DEF IndInv, TypeOK
<1>4. /\ Req.op = op /\ Req.jobs \in SUBSET Job /\ Rest \in Seq(Request) /\ Within(Rest, Busy) /\ Req.n \in Nat
      /\ inMaybe \/ AsksOf(Rest) = {}
      /\ TriesIn(requests) => TriesIn(Rest) /\ (op # "remove" => Req.n < MaxAttempts)
      /\ ~Early(requests)
      /\ ResetIn(requests) => ResetIn(Rest)
    BY <1>1, AnswerStep
<1>5. PICK v \in {"absent", "backoff", "waiting"} :
         /\ row' = [j \in Job |-> IF j \in Req.jobs THEN v ELSE row[j]]
         /\ op = "remove" => v = "absent"
    <2>1. row' = [j \in Job |-> IF j \in Req.jobs
                                THEN CASE op = "remove" -> "absent"
                                       [] op = "later"  -> "backoff"
                                       [] op = "again"  -> "waiting"
                                ELSE row[j]]
        BY <1>4 DEF JobEnded
    <2>2. CASE op = "remove"
        BY <2>1, <2>2
    <2>3. CASE op = "later"
        BY <2>1, <2>3
    <2>4. CASE op = "again"
        BY <2>1, <2>4
    <2> QED BY <1>1, <2>2, <2>3, <2>4
<1>6. PICK rest \in SUBSET Job : rest = Active \ Req.jobs
    BY <1>3
<1>7. PICK k \in Nat : k = Cardinality(rest \ forced) /\ k <= Busy /\ k <= Cardinality(rest)
    <2>1. rest \ forced \in SUBSET Job /\ rest \ forced \subseteq Active \ forced
          /\ rest \ forced \subseteq rest /\ Active \ forced \in SUBSET Job
        BY <1>3, <1>6
    <2> QED BY <2>1, Counted DEF Busy
<1>8. Within(Rest, k)
    BY <1>3, <1>4, <1>7, Fewer
<1>9. /\ requests' \in Seq(Request) /\ inMaybe' \in BOOLEAN
      /\ Within(requests', k) /\ (inMaybe' \/ AsksOf(requests') = {})
      /\ TriesIn(Rest) => TriesIn(requests')
      /\ ResetIn(Rest) => ResetIn(requests')
    BY <1>2, <1>3, <1>4, <1>6, <1>7, <1>8, Asked
<1>10. TypeOK'
    <2>1. row' \in [Job -> {"absent", "waiting", "backoff", "active"}] /\ tries' \in [Job -> Nat]
          /\ pc' \in [Job -> {"no", "saving", "running", "ending"}]
        BY <1>2, <1>3, <1>4, <1>5 DEF TypeOK
    <2> QED BY <1>2, <1>3, <1>9, <2>1 DEF TypeOK
<1>11. SlotsOK'
    <2>1. (Active \ forced)' = rest \ forced
        BY <1>2, <1>6 DEF Active
    <2>2. Busy' = k
        BY <1>7, <2>1 DEF Busy
    <2>3. Busy' <= MaxConcurrent
        BY <1>3, <1>7, <2>2, JobManagerAssumption DEF IndInv, SlotsOK
    <2>4. AsksOf(requests)' = AsksOf(requests')
        BY DEF AsksOf
    <2>5. Within(requests, Busy)'
        BY <1>9, <2>2 DEF Within, AsksOf
    <2> QED BY <1>9, <2>3, <2>4, <2>5 DEF SlotsOK
<1>12. TriesOK'
    <2>1. TriesIn(requests)' = TriesIn(requests')
        BY DEF TriesIn
    <2> QED BY <1>2, <1>4, <1>5, <1>9, <2>1 DEF IndInv, TriesOK
<1>13. RowsOK'
    <2>1. Stuck' => Stuck
        BY <1>2, <1>5 DEF Stuck
    <2>2. ~Fresh
        BY <1>4 DEF Fresh
    <2> QED BY <1>4, <1>9, <2>1, <2>2, RowsKept DEF IndInv
<1> QED BY <1>10, <1>11, <1>12, <1>13 DEF IndInv

\* start() has reset the rows: none is active.
LEMMA ResetStep == ASSUME IndInv, MarkedInactive PROVE IndInv'
<1> USE DEF db, flags, runs, bounds
<1>1. /\ Answer("reset") /\ MaybeStart(enabled, Active, Rest)
      /\ row' = [j \in Job |-> IF row[j] = "active" THEN "waiting" ELSE row[j]]
      /\ UNCHANGED <<tries, batch, enabled, held, idle, pc, began, mem, forced, cancel, adds, stops, restarts>>
    BY DEF MarkedInactive, AwaitMaybeStart
<1>2. startup' \in {"no", "starting"} /\ timer' \in {timer, "tick"}
    BY DEF MarkedInactive, AwaitMaybeStart
<1>3. /\ TypeOK /\ enabled \in BOOLEAN /\ inMaybe \in BOOLEAN
      /\ Active \in SUBSET Job /\ Busy \in Nat /\ Busy <= Cardinality(Active)
    BY Counted DEF IndInv, TypeOK
<1>4. /\ Rest \in Seq(Request) /\ Within(Rest, Busy)
      /\ inMaybe \/ AsksOf(Rest) = {}
      /\ TriesIn(requests) => TriesIn(Rest)
    BY <1>1, AnswerStep
<1>5. /\ requests' \in Seq(Request) /\ inMaybe' \in BOOLEAN
      /\ Within(requests', Busy) /\ (inMaybe' \/ AsksOf(requests') = {})
      /\ TriesIn(Rest) => TriesIn(requests')
    BY <1>1, <1>3, <1>4, Asked
<1>6. TypeOK'
    <2>1. row' \in [Job -> {"absent", "waiting", "backoff", "active"}]
        BY <1>1, <1>3 DEF TypeOK
    <2> QED BY <1>1, <1>2, <1>3, <1>5, <2>1 DEF TypeOK
<1>7. SlotsOK'
    <2>1. (Active \ forced)' = Active \ forced
        BY <1>1 DEF Active
    <2> QED BY <1>5, <2>1, SlotsKept DEF IndInv
<1>8. TriesOK'
    <2>1. TriesIn(requests)' = TriesIn(requests')
        BY DEF TriesIn
    <2>2. \A j \in Job : row'[j] # "absent" => row[j] # "absent"
        BY <1>1
    <2> QED BY <1>1, <1>4, <1>5, <2>1, <2>2 DEF IndInv, TriesOK
<1>9. ~Stuck'
    BY <1>1 DEF Stuck
<1> QED BY <1>6, <1>7, <1>8, <1>9 DEF IndInv, RowsOK

\* A forced add was saved.
LEMMA ForceStep == ASSUME IndInv, ForceSaved PROVE IndInv'
<1> USE DEF db, flags, runs, bounds
<1>1. PICK S : S = IF enabled THEN Req.jobs \ Active ELSE {}
    OBVIOUS
<1>2. PICK zero : zero = [j \in Job |-> 0]
    OBVIOUS
<1>3. /\ Answer("force")
      /\ row' = [j \in Job |-> IF j \in Req.jobs THEN "waiting" ELSE row[j]]
      /\ tries' = [j \in Job |-> IF j \in Req.jobs THEN 0 ELSE tries[j]]
      /\ StartJobs(S, zero, TRUE)
      /\ \E p \in Orders(S) : requests' = Rest \o ActiveSaves(p, zero)
      /\ UNCHANGED <<batch, enabled, timer, startup, held, idle, inMaybe, cancel, adds, stops, restarts>>
    BY <1>1, <1>2 DEF ForceSaved
<1>4. /\ TypeOK /\ S \in SUBSET Job /\ zero \in [Job -> Nat] /\ \A j \in Job : zero[j] = 0
      /\ \A j \in S : zero[j] < MaxAttempts
    <2>1. Req.jobs \in SUBSET Job
        BY <1>3, AnswerStep
    <2> QED BY <1>1, <1>2, <2>1, JobManagerAssumption DEF IndInv
<1>5. /\ Req.jobs \in SUBSET Job /\ Rest \in Seq(Request) /\ Within(Rest, Busy)
      /\ inMaybe \/ AsksOf(Rest) = {}
      /\ TriesIn(requests) => TriesIn(Rest)
      /\ Early(requests) => Early(Rest)
      /\ ResetIn(requests) => ResetIn(Rest)
    BY <1>3, AnswerStep
<1>6. PICK p \in Orders(S) : requests' = Rest \o ActiveSaves(p, zero)
    BY <1>3
<1>7. /\ requests' \in Seq(Request) /\ AsksOf(requests') = AsksOf(Rest) /\ Within(requests', Busy)
      /\ TriesIn(Rest) => TriesIn(requests')
      /\ Early(Rest) /\ S = {} => Early(requests')
      /\ ResetIn(Rest) => ResetIn(requests')
    BY <1>4, <1>5, <1>6, SavesPosted
<1>8. /\ pc' = [j \in Job |-> IF j \in S THEN "saving" ELSE pc[j]]
      /\ began' = [j \in Job |-> IF j \in S THEN zero[j] ELSE began[j]]
      /\ mem' = [j \in Job |-> IF j \in S THEN zero[j] ELSE mem[j]]
      /\ forced' = forced \cup S
    BY <1>3 DEF StartJobs
<1>9. TypeOK'
    <2>1. row' \in [Job -> {"absent", "waiting", "backoff", "active"}] /\ tries' \in [Job -> Nat]
        BY <1>3, <1>4 DEF TypeOK
    <2>2. /\ pc' \in [Job -> {"no", "saving", "running", "ending"}]
          /\ began' \in [Job -> Nat] /\ mem' \in [Job -> Nat] /\ forced' \subseteq Job
        BY <1>4, <1>8 DEF TypeOK
    <2> QED BY <1>3, <1>4, <1>7, <2>1, <2>2 DEF TypeOK
<1>10. SlotsOK'
    <2>1. (Active \ forced)' \subseteq Active \ forced
        BY <1>8 DEF Active
    <2> QED BY <1>3, <1>5, <1>7, <2>1, SlotsKept DEF IndInv
<1>11. TriesOK'
    <2>1. TriesIn(requests)' = TriesIn(requests')
        BY DEF TriesIn
    <2>2. ~CanRateLimit => \A j \in Job : mem'[j] <= began'[j]
        BY <1>4, <1>8 DEF IndInv, TriesOK
    <2> QED BY <1>3, <1>5, <1>7, <2>1, <2>2, JobManagerAssumption DEF IndInv, TriesOK
<1>12. RowsOK'
    <2>1. Stuck' => Stuck
        BY <1>3, <1>8 DEF Stuck
    <2>2. Fresh => enabled' = enabled /\ timer' # "pause" /\ S = {} /\ Active' = Active
        BY <1>1, <1>3, <1>8 DEF Fresh, Active
    <2>3. Early(requests)' = Early(requests') /\ ResetIn(requests)' = ResetIn(requests')
        BY DEF Early, ResetIn
    <2> QED BY <1>5, <1>7, <2>1, <2>2, <2>3 DEF IndInv, RowsOK, Fresh
<1> QED BY <1>9, <1>10, <1>11, <1>12 DEF IndInv

\* Jobs found in the table start in the slots that were kept for them.
LEMMA NextStep == ASSUME IndInv, NextJobs PROVE IndInv'
<1> USE DEF db, flags, runs, bounds
<1>1. PICK found \in SUBSET Ready :
         /\ Cardinality(found) = MinOf(Req.n, Cardinality(Ready))
         /\ LET S == IF held THEN {} ELSE found \ Active IN
            /\ StartJobs(S, tries, FALSE)
            /\ \E p \in Orders(S) : requests' = Rest \o ActiveSaves(p, tries)
         /\ idle' = (idle /\ (found # {} \/ Active # {}))
    BY DEF NextJobs
<1>2. PICK S : S = IF held THEN {} ELSE found \ Active
    OBVIOUS
<1>3. /\ Answer("next") /\ inMaybe' = FALSE /\ idle' \in BOOLEAN
      /\ StartJobs(S, tries, FALSE)
      /\ \E p \in Orders(S) : requests' = Rest \o ActiveSaves(p, tries)
    BY <1>1, <1>2 DEF NextJobs
<1>4. UNCHANGED <<row, tries, batch, enabled, timer, startup, held, cancel, adds, stops, restarts>>
    BY DEF NextJobs
<1>5. /\ TypeOK /\ S \in SUBSET Job /\ S \subseteq found /\ found \in SUBSET Job /\ Ready \in SUBSET Job
      /\ S \cap Active = {} /\ \A j \in S : row[j] = "waiting"
    BY <1>1, <1>2 DEF IndInv, Ready
<1>6. /\ Req.n \in Nat /\ Rest \in Seq(Request) /\ Within(Rest, Busy) /\ AsksOf(Rest) = {}
      /\ Req.n + Busy <= MaxConcurrent
      /\ TriesIn(requests) => TriesIn(Rest)
      /\ ~Early(requests)
      /\ ResetIn(requests) => ResetIn(Rest)
    BY <1>3, AnswerStep
<1>7. tries \in [Job -> Nat]
    BY <1>5 DEF TypeOK
<1>8. PICK p \in Orders(S) : requests' = Rest \o ActiveSaves(p, tries)
    BY <1>3
<1>9. /\ requests' \in Seq(Request) /\ AsksOf(requests') = {}
      /\ TriesIn(Rest) /\ (\A j \in S : tries[j] < MaxAttempts) => TriesIn(requests')
      /\ ResetIn(Rest) => ResetIn(requests')
    BY <1>5, <1>6, <1>7, <1>8, SavesPosted
<1>10. /\ pc' = [j \in Job |-> IF j \in S THEN "saving" ELSE pc[j]]
       /\ began' = [j \in Job |-> IF j \in S THEN tries[j] ELSE began[j]]
       /\ mem' = [j \in Job |-> IF j \in S THEN tries[j] ELSE mem[j]]
       /\ forced' = forced \ S
    BY <1>3 DEF StartJobs
<1>11. TypeOK'
    <2>1. /\ pc' \in [Job -> {"no", "saving", "running", "ending"}]
          /\ began' \in [Job -> Nat] /\ mem' \in [Job -> Nat] /\ forced' \subseteq Job
        BY <1>5, <1>7, <1>10 DEF TypeOK
    <2> QED BY <1>3, <1>4, <1>5, <1>9, <2>1 DEF TypeOK
<1>12. SlotsOK'
    <2>1. PICK R \in SUBSET Job : R = Active \ forced
        BY DEF Active
    <2>2. (Active \ forced)' = R \cup S
        BY <1>5, <1>10, <2>1 DEF Active
    <2>3. /\ Cardinality(R) = Busy /\ Busy \in Nat /\ Cardinality(S) \in Nat
          /\ IsFiniteSet(R) /\ IsFiniteSet(S) /\ Cardinality(found) \in Nat
          /\ Cardinality(Ready) \in Nat /\ Cardinality(S) <= Cardinality(found)
        BY <1>5, <2>1, Counted DEF Busy
    <2>4. Cardinality(S) <= Req.n
        BY <1>1, <1>6, <2>3 DEF MinOf
    <2>5. R \cap S = {}
        BY <1>5, <2>1
    <2>6. Cardinality(R \cup S) = Busy + Cardinality(S)
        <3>1. Cardinality(R \cup S) = Cardinality(R) + Cardinality(S) - Cardinality(R \cap S)
            BY <2>3, FS_Union
        <3>2. Cardinality(R \cap S) = 0
            BY <2>5, FS_EmptySet
        <3> QED BY <2>3, <3>1, <3>2
    <2>7. Busy' <= MaxConcurrent
        <3>1. Busy' = Busy + Cardinality(S)
            BY <2>2, <2>6 DEF Busy
        <3> QED BY <1>6, <2>3, <2>4, <3>1, JobManagerAssumption
    <2>8. AsksOf(requests)' = {}
        BY <1>9 DEF AsksOf
    <2> QED BY <2>7, <2>8 DEF SlotsOK, Within
<1>13. TriesOK'
    <2> SUFFICES ASSUME ~CanRateLimit PROVE TriesOK'
        BY DEF TriesOK
    <2>1. TriesIn(requests)' = TriesIn(requests')
        BY DEF TriesIn
    <2>2. \A j \in S : tries[j] < MaxAttempts
        BY <1>5 DEF IndInv, TriesOK
    <2>3. \A j \in Job : mem'[j] <= began'[j]
        BY <1>5, <1>7, <1>10 DEF IndInv, TriesOK
    <2> QED BY <1>4, <1>6, <1>9, <2>1, <2>2, <2>3 DEF IndInv, TriesOK
<1>14. RowsOK'
    <2>1. Stuck' => Stuck
        BY <1>4, <1>10 DEF Stuck
    <2>2. ~Fresh
        BY <1>6 DEF Fresh
    <2> QED BY <1>6, <1>9, <2>1, <2>2, RowsKept DEF IndInv
<1> QED BY <1>11, <1>12, <1>13, <1>14 DEF IndInv

-----------------------------------------------------------------------------
\* Every step keeps track of the calls the runs await.
LEMMA RunsStep == ASSUME IndInv, RunsOK, Next PROVE RunsOK'
<1> USE DEF db, flags, runs, bounds
<1>1. /\ requests \in Seq(Request) /\ RunsIn(requests, pc) /\ Active \in SUBSET Job
      /\ pc \in [Job -> {"no", "saving", "running", "ending"}]
      /\ batch \in SUBSET Job
    BY DEF IndInv, TypeOK, RunsOK, Active
<1>2. RunsOK' = RunsIn(requests', pc')
    BY DEF RunsOK, RunsIn, CallsOf
<1>3. \A on : MaybeStart(on, Active, requests) => RunsIn(requests', pc)
    BY <1>1, AskedRun
<1>4. ASSUME NEW x \in Request, x.op \notin RunOps, requests' = Append(requests, x)
      PROVE  RunsIn(requests', pc)
    BY <1>1, <1>4, PostedRun
<1>5. ASSUME NEW op, Answer(op)
      PROVE  /\ Rest \in Seq(Request) /\ RunsIn(Rest, pc) /\ Req.jobs \in SUBSET Job /\ Req.op = op
             /\ op \in RunOps => \A j \in Req.jobs : CallsOf(Rest, j) = {}
    <2>1. Rest \in Seq(Request) /\ Req.jobs \in SUBSET Job /\ Req.op = op
        BY <1>5, AnswerStep
    <2>2. requests # <<>> /\ Req = Head(requests) /\ Rest = Tail(requests)
        BY <1>5 DEF Answer, Req, Rest
    <2> QED BY <1>1, <2>1, <2>2, ServedRun
<1>6. \A S \in SUBSET Job, n \in Nat, op \in {"force", "flush", "cancel", "reset"} :
         Call(op, S, n) \in Request /\ Call(op, S, n).op \notin RunOps
    BY CallType DEF RunOps
<1>7. ASSUME NEW S \in SUBSET Job, S \cap Active = {}, NEW a \in [Job -> Nat], NEW byForce,
             NEW op, Answer(op), StartJobs(S, a, byForce),
             \E p \in Orders(S) : requests' = Rest \o ActiveSaves(p, a)
      PROVE  RunsIn(requests', pc')
    <2>1. Rest \in Seq(Request) /\ RunsIn(Rest, pc)
        BY <1>5, <1>7
    <2>2. pc' = [j \in Job |-> IF j \in S THEN "saving" ELSE pc[j]]
        BY <1>7 DEF StartJobs
    <2>3. \A j \in S : CallsOf(Rest, j) = {} /\ pc'[j] = "saving"
        BY <1>7, <2>1, <2>2, Silent DEF Active
    <2>4. RunsIn(Rest, pc')
        BY <2>1, <2>2, <2>3, Silent
    <2> QED BY <1>7, <2>1, <2>3, <2>4, SavesPostedRun
<1>8. ASSUME NEW j \in Job, AddJob(j) PROVE RunsOK'
    <2>1. {j} \in SUBSET Job /\ 0 \in Nat
        OBVIOUS
    <2> QED BY <1>1, <1>2, <1>3, <1>4, <1>6, <1>8, <2>1 DEF AddJob
<1>9. ASSUME NEW j \in Job, RunEnds(j) PROVE RunsOK'
    <2>1. PICK op \in {"remove", "later", "again"}, n \in Nat : Post(op, j, n)
        <3>1. mem[j] \in Nat /\ MaxAttempts \in Nat
            BY JobManagerAssumption DEF IndInv, TypeOK
        <3>2. NextAttempt(mem[j]) \in Nat
            BY <3>1 DEF NextAttempt
        <3> QED BY <1>9, <3>2 DEF RunEnds, RunFinished, RunFailed, RunUpdated, RunRateLimited
    <2>2. pc[j] = "running"
        BY <1>9 DEF RunEnds, RunFinished, RunFailed, RunUpdated, RunRateLimited
    <2>3. PICK x \in Request : x = Call(op, {j}, n) /\ x.op = op /\ x.jobs = {j}
        BY <2>1, CallType
    <2>4. requests' = Append(requests, x) /\ pc' = [pc EXCEPT ![j] = "ending"]
        BY <2>1, <2>3 DEF Post
    <2>5. CallsOf(requests, j) = {} /\ pc'[j] = StateFor(op)
        BY <1>1, <2>1, <2>2, <2>4, Silent DEF StateFor
    <2>6. RunsIn(requests, pc')
        <3>1. \A i \in Job : pc'[i] = pc[i] \/ CallsOf(requests, i) = {}
            BY <1>1, <2>4, <2>5
        <3> QED BY <1>1, <3>1, Silent
    <2> QED BY <1>1, <1>2, <2>3, <2>4, <2>5, <2>6, PostedRun
<1>10. ASSUME NEW j \in Job, BackoffOver(j) \/ CancelJob(j) PROVE RunsOK'
    BY <1>1, <1>2, <1>10 DEF BackoffOver, CancelJob
<1>11. ASSUME NEW j \in Job, CancelWaited(j) PROVE RunsOK'
    <2>1. {j} \in SUBSET Job /\ 0 \in Nat
        OBVIOUS
    <2> QED BY <1>1, <1>2, <1>4, <1>6, <1>11, <2>1 DEF CancelWaited
<1>12. CASE FlushBatch
    <2>1. PICK x \in Request : x = Call("flush", batch, 0) /\ x.op = "flush"
        BY <1>1, CallType
    <2>2. requests' = Append(requests, x) /\ pc' = pc
        BY <1>12, <2>1 DEF FlushBatch
    <2> QED BY <1>2, <1>4, <2>1, <2>2 DEF RunOps
<1>13. CASE ForceSaved
    <2>1. PICK S : S = IF enabled THEN Req.jobs \ Active ELSE {}
        OBVIOUS
    <2>2. PICK zero : zero = [j \in Job |-> 0]
        OBVIOUS
    <2>3. /\ Answer("force") /\ StartJobs(S, zero, TRUE)
          /\ \E p \in Orders(S) : requests' = Rest \o ActiveSaves(p, zero)
        BY <1>13, <2>1, <2>2 DEF ForceSaved
    <2>4. S \in SUBSET Job /\ S \cap Active = {} /\ zero \in [Job -> Nat]
        BY <1>5, <2>1, <2>2, <2>3
    <2> QED BY <1>2, <1>7, <2>3, <2>4
<1>14. CASE BatchSaved
    <2>1. Answer("flush") /\ MaybeStart(enabled, Active, Rest) /\ pc' = pc
        BY <1>14 DEF BatchSaved
    <2> QED BY <1>1, <1>2, <1>5, <2>1, AskedRun
<1>15. CASE NextJobs
    <2>1. PICK found \in SUBSET Ready :
             LET S == IF held THEN {} ELSE found \ Active IN
               /\ StartJobs(S, tries, FALSE)
               /\ \E p \in Orders(S) : requests' = Rest \o ActiveSaves(p, tries)
        BY <1>15 DEF NextJobs
    <2>2. PICK S : S = IF held THEN {} ELSE found \ Active
        OBVIOUS
    <2>3. /\ Answer("next") /\ StartJobs(S, tries, FALSE)
          /\ \E p \in Orders(S) : requests' = Rest \o ActiveSaves(p, tries)
        BY <1>15, <2>1, <2>2 DEF NextJobs
    <2>4. S \in SUBSET Job /\ S \cap Active = {} /\ tries \in [Job -> Nat]
        BY <2>1, <2>2 DEF Ready, IndInv, TypeOK
    <2> QED BY <1>2, <1>7, <2>3, <2>4
<1>16. CASE ActiveSaved
    <2>1. Answer("active") /\ requests' = Rest
          /\ pc' = [j \in Job |-> IF j \in Req.jobs THEN "running" ELSE pc[j]]
        BY <1>16 DEF ActiveSaved
    <2>2. RunsIn(Rest, pc) /\ \A j \in Req.jobs : CallsOf(Rest, j) = {}
        BY <1>5, <2>1 DEF RunOps
    <2>3. \A j \in Job : pc'[j] = pc[j] \/ CallsOf(Rest, j) = {}
        BY <2>1, <2>2
    <2> QED BY <1>2, <2>1, <2>2, <2>3, Silent
<1>17. CASE JobEnded
    <2>1. PICK op \in {"remove", "later", "again"} : Answer(op)
        BY <1>17 DEF JobEnded
    <2>2. /\ pc' = [j \in Job |-> IF j \in Req.jobs THEN "no" ELSE pc[j]]
          /\ MaybeStart(enabled, Active \ Req.jobs, Rest)
        BY <1>17 DEF JobEnded
    <2>3. Rest \in Seq(Request) /\ RunsIn(Rest, pc) /\ \A j \in Req.jobs : CallsOf(Rest, j) = {}
        BY <1>5, <2>1 DEF RunOps
    <2>4. \A j \in Job : pc'[j] = pc[j] \/ CallsOf(Rest, j) = {}
        BY <2>2, <2>3
    <2>5. RunsIn(Rest, pc')
        BY <2>3, <2>4, Silent
    <2>6. PICK rest \in SUBSET Job : rest = Active \ Req.jobs
        BY <1>1
    <2> QED BY <1>2, <2>2, <2>3, <2>5, <2>6, AskedRun
<1>18. CASE CancelRemoved
    <2>1. Answer("cancel") /\ requests' = Rest /\ pc' = pc
        BY <1>18 DEF CancelRemoved
    <2> QED BY <1>2, <1>5, <2>1
<1>19. CASE MarkedInactive
    <2>1. Answer("reset") /\ MaybeStart(enabled, Active, Rest) /\ pc' = pc
        BY <1>19 DEF MarkedInactive, AwaitMaybeStart
    <2> QED BY <1>1, <1>2, <1>5, <2>1, AskedRun
<1>20. CASE Tick \/ PauseOver \/ StartTicks \/ WaitForIdle
    BY <1>2, <1>3, <1>20 DEF Tick, PauseOver, StartTicks, WaitForIdle
<1>21. CASE Start
    <2>1. {} \in SUBSET Job /\ 0 \in Nat
        OBVIOUS
    <2> QED BY <1>2, <1>3, <1>4, <1>6, <1>21, <2>1 DEF Start, AwaitMaybeStart
<1>22. CASE Stop \/ HoldOff
    BY <1>1, <1>2, <1>22 DEF Stop, HoldOff
<1>23. CASE Restart
    <2>1. requests' = <<>>
        BY <1>23 DEF Restart
    <2>2. \A j : CallsOf(requests', j) = {}
        BY <2>1 DEF CallsOf
    <2> QED BY <1>2, <2>2 DEF RunsIn
<1> QED BY <1>8, <1>9, <1>10, <1>11, <1>12, <1>13, <1>14, <1>15, <1>16, <1>17, <1>18, <1>19,
           <1>20, <1>21, <1>22, <1>23 DEF Next, Reply

-----------------------------------------------------------------------------
(* The theorems. *)

\* The invariant holds at first,
LEMMA Initially == ASSUME Init PROVE IndInv /\ RunsOK
<1>1. /\ DOMAIN requests = {} /\ Active = {} /\ Active \ forced = {}
      /\ requests \in Seq(Request)
    BY DEF Init, Active
<1>2. TypeOK
    BY <1>1 DEF Init, TypeOK
<1>3. AsksOf(requests) = {} /\ TriesIn(requests) /\ Early(requests) /\ \A j : CallsOf(requests, j) = {}
    BY <1>1 DEF AsksOf, TriesIn, Early, CallsOf
<1>4. Busy = 0
    BY <1>1, FS_EmptySet DEF Busy
<1>5. SlotsOK
    BY <1>3, <1>4, JobManagerAssumption DEF SlotsOK, Within
<1>6. TriesOK /\ RowsOK
    BY <1>3 DEF Init, TriesOK, RowsOK, Stuck
<1>7. RunsOK
    BY <1>3 DEF RunsOK, RunsIn
<1> QED BY <1>2, <1>5, <1>6, <1>7 DEF IndInv

\* and every step keeps it.
LEMMA Stepwise == ASSUME IndInv, RunsOK, [Next]_vars PROVE IndInv' /\ RunsOK'
<1>1. CASE Next
    <2>1. RunsOK'
        BY <1>1, RunsStep
    <2>2. IndInv'
        BY <1>1, AddSteps, ClockSteps, RunSteps, OtherSteps, BatchStep, CancelStep, ActiveStep,
           EndStep, ResetStep, ForceStep, NextStep DEF Next, Reply
    <2> QED BY <2>1, <2>2
<1>2. CASE UNCHANGED vars
    <2>1. /\ UNCHANGED <<row, tries, requests, batch, enabled, timer, startup, held, idle, inMaybe>>
          /\ UNCHANGED <<pc, began, mem, forced, cancel, adds, stops, restarts>>
        BY <1>2 DEF vars, db, flags, runs, bounds
    <2>2. TypeOK'
        BY <2>1 DEF IndInv, TypeOK
    <2>3. Active' = Active /\ Busy' = Busy /\ Stuck' = Stuck /\ AsksOf(requests)' = AsksOf(requests)
        BY <2>1 DEF Active, Busy, Stuck, AsksOf
    <2>4. /\ Within(requests, Busy)' = Within(requests, Busy)
          /\ TriesIn(requests)' = TriesIn(requests) /\ Early(requests)' = Early(requests)
          /\ ResetIn(requests)' = ResetIn(requests)
        BY <2>1, <2>3 DEF Within, AsksOf, TriesIn, Early, ResetIn
    <2>5. SlotsOK'
        BY <2>1, <2>3, <2>4 DEF IndInv, SlotsOK
    <2>6. TriesOK'
        BY <2>1, <2>4 DEF IndInv, TriesOK
    <2>7. RowsOK'
        BY <2>1, <2>3, <2>4 DEF IndInv, RowsOK, Fresh
    <2>8. RunsOK'
        BY <2>1 DEF RunsOK, RunsIn, CallsOf
    <2> QED BY <2>2, <2>5, <2>6, <2>7, <2>8 DEF IndInv
<1> QED BY <1>1, <1>2

\* The inductive invariant holds in every state of every behaviour.
THEOREM Invariance == Spec => [](IndInv /\ RunsOK)
<1>1. Init => IndInv /\ RunsOK
    BY Initially
<1>2. IndInv /\ RunsOK /\ [Next]_vars => (IndInv /\ RunsOK)'
    BY Stepwise
<1> QED BY <1>1, <1>2, PTL DEF Spec

\* The variables of the manager keep their types.
THEOREM TypeCorrect == Spec => []TypeOK
<1>1. IndInv => TypeOK
    BY DEF IndInv
<1> QED BY <1>1, Invariance, PTL

\* maybeStartJobs never starts jobs beyond maxConcurrentJobs, for any limit and
\* any set of jobs: a slot it counted free stays free until getNextJobs answers.
THEOREM SlotsSuffice == Spec => []ConcurrencyBounded
<1>1. IndInv => ConcurrencyBounded
    BY DEF IndInv, SlotsOK, Busy, ConcurrencyBounded
<1> QED BY <1>1, Invariance, PTL

\* Once started and reset, the manager has a run for every active row.
THEOREM ActiveRowsRun == Spec => []NoStuckRows
<1>1. ASSUME IndInv PROVE NoStuckRows
    <2> SUFFICES ASSUME enabled, \A n \in DOMAIN requests : requests[n].op # "reset"
                 PROVE  \A j \in Job : row[j] = "active" => pc[j] # "no"
        BY DEF NoStuckRows
    <2>1. ~Fresh
        BY DEF Fresh
    <2>2. ~ResetIn(requests)
        BY DEF ResetIn
    <2> QED BY <1>1, <2>1, <2>2 DEF IndInv, RowsOK, Stuck
<1> QED BY <1>1, Invariance, PTL

\* Without rate limits no row records as many attempts as are allowed.
THEOREM AttemptsLimited == Spec => []AttemptsBounded
<1>1. IndInv => AttemptsBounded
    BY DEF IndInv, TriesOK, AttemptsBounded
<1> QED BY <1>1, Invariance, PTL

\* A manager that is stopped or paused starts nothing but what a getNextJobs
\* under way brings back.
THEOREM NoStartWhenDisabled == Spec => StartsOnlyWhenEnabled
<1> USE DEF db, flags, runs, bounds
<1>1. ASSUME IndInv, RunsOK, [Next]_vars
      PROVE  [~enabled /\ ~inMaybe => \A j \in Job : pc[j] = "no" => pc'[j] = "no"]_vars
    <2> SUFFICES ASSUME Next, ~enabled, ~inMaybe, NEW j \in Job, pc[j] = "no"
                 PROVE  pc'[j] = "no"
        BY <1>1
    <2>1. TypeOK
        BY <1>1 DEF IndInv
    <2>2. ASSUME NEW i \in Job, AddJob(i) \/ BackoffOver(i) \/ CancelJob(i) \/ CancelWaited(i)
          PROVE  pc'[j] = "no"
        BY <2>2 DEF AddJob, BackoffOver, CancelJob, CancelWaited
    <2>3. ASSUME NEW i \in Job, RunEnds(i) PROVE pc'[j] = "no"
        <3>1. pc[i] = "running" /\ pc' = [pc EXCEPT ![i] = "ending"]
            BY <2>3 DEF RunEnds, RunFinished, RunFailed, RunUpdated, RunRateLimited, Post
        <3> QED BY <2>1, <3>1 DEF TypeOK
    <2>4. CASE \/ FlushBatch \/ Tick \/ PauseOver \/ Start \/ StartTicks \/ Stop \/ WaitForIdle
               \/ HoldOff \/ BatchSaved \/ CancelRemoved \/ MarkedInactive
        BY <2>4 DEF FlushBatch, Tick, PauseOver, Start, StartTicks, Stop, WaitForIdle, HoldOff,
                    BatchSaved, CancelRemoved, MarkedInactive
    <2>5. CASE ForceSaved
        <3>1. pc' = [i \in Job |-> IF i \in {} THEN "saving" ELSE pc[i]]
            BY <2>5 DEF ForceSaved, StartJobs
        <3> QED BY <3>1
    <2>6. CASE NextJobs
        <3>1. Answer("next")
            BY <2>6 DEF NextJobs
        <3> QED BY <1>1, <3>1, AnswerStep
    <2>7. CASE ActiveSaved
        <3>1. Answer("active") /\ pc' = [i \in Job |-> IF i \in Req.jobs THEN "running" ELSE pc[i]]
            BY <2>7 DEF ActiveSaved
        <3>2. requests \in Seq(Request) /\ requests # <<>> /\ Head(requests).op = "active"
              /\ RunsIn(requests, pc) /\ Req = Head(requests)
            BY <1>1, <2>1, <3>1 DEF Answer, Req, TypeOK, RunsOK
        <3>3. j \notin Req.jobs
            BY <3>2, ServedRun DEF RunOps, StateFor
        <3> QED BY <3>1, <3>3
    <2>8. CASE JobEnded
        BY <2>8 DEF JobEnded
    <2>9. CASE Restart
        BY <2>9 DEF Restart
    <2> QED BY <2>2, <2>3, <2>4, <2>5, <2>6, <2>7, <2>8, <2>9 DEF Next, Reply
<1> QED BY <1>1, Invariance, PTL DEF Spec, StartsOnlyWhenEnabled
=============================================================================
