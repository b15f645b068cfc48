----------------------- MODULE ConversationQueueProofs ------------------------
(***************************************************************************)
(* The safety of the conversation send queue for any conversations, jobs   *)
(* and challenges: types, no job lost or queued twice, and something left  *)
(* to retry what is parked.                                                *)
(***************************************************************************)
EXTENDS ConversationQueue, SequenceTheorems, FiniteSetTheorems, TLAPS

-----------------------------------------------------------------------------
(* Sequences of jobs. *)

NoRepeat(q) == \A m, n \in DOMAIN q : q[m] = q[n] => m = n

LEMMA EmptyJobs ==
    /\ <<>> \in Seq(Job) /\ Members(<<>>) = {} /\ NoRepeat(<<>>)
    /\ \A q \in Seq(Job) : Members(q) \subseteq Job
    /\ \A q \in Seq(Job) : Members(q) = {} => q = <<>>
<1>1. DOMAIN <<>> = {}
    OBVIOUS
<1>2. Members(<<>>) = {} /\ NoRepeat(<<>>)
    BY <1>1 DEF Members, NoRepeat
<1>3. ASSUME NEW q \in Seq(Job) PROVE Members(q) \subseteq Job
    BY <1>3, ElementOfSeq, LenProperties DEF Members
<1>4. ASSUME NEW q \in Seq(Job), q # <<>> PROVE Members(q) # {}
    <2>1. Len(q) \in Nat \ {0} /\ DOMAIN q = 1..Len(q)
        BY <1>4, EmptySeq, LenProperties
    <2>2. 1 \in DOMAIN q
        BY <2>1
    <2> QED BY <2>2 DEF Members
<1> QED BY <1>2, <1>3, <1>4

\* The head leaves.
LEMMA HeadLeaves ==
    ASSUME NEW q \in Seq(Job), q # <<>>, NoRepeat(q)
    PROVE  /\ Tail(q) \in Seq(Job) /\ NoRepeat(Tail(q))
           /\ Head(q) \in Members(q)
           /\ Members(Tail(q)) = Members(q) \ {Head(q)}
<1>1. Len(q) \in Nat \ {0} /\ DOMAIN q = 1..Len(q) /\ 1 \in DOMAIN q
    BY EmptySeq, LenProperties
<1>2. PICK t : t = Tail(q)
    OBVIOUS
<1>3. /\ Head(q) = q[1]
      /\ t \in Seq(Job) /\ Len(t) = Len(q) - 1
      /\ \A i \in 1..Len(t) : t[i] = q[i + 1]
    BY <1>1, <1>2, HeadTailProperties, ElementOfSeq
<1>4. DOMAIN t = 1..Len(t)
    BY <1>3, LenProperties
<1>5. \A i \in DOMAIN t : i + 1 \in DOMAIN q /\ t[i] = q[i + 1] /\ i + 1 # 1 /\ i \in Nat
    BY <1>1, <1>3, <1>4
<1>6. \A n \in DOMAIN q : n = 1 \/ (n - 1 \in DOMAIN t /\ t[n - 1] = q[n])
    <2> TAKE n \in DOMAIN q
    <2>1. CASE n # 1
        <3>1. n - 1 \in DOMAIN t /\ (n - 1) + 1 = n
            BY <1>1, <1>3, <1>4, <2>1
        <3> QED BY <1>5, <3>1
    <2> QED BY <2>1
<1>7. NoRepeat(t)
    BY <1>5 DEF NoRepeat
<1>8. Members(t) \subseteq Members(q) \ {q[1]}
    BY <1>1, <1>5 DEF Members, NoRepeat
<1>9. Members(q) \ {q[1]} \subseteq Members(t)
    BY <1>6 DEF Members
<1>10. q[1] \in Members(q)
    BY <1>1 DEF Members
<1> QED BY <1>2, <1>3, <1>7, <1>8, <1>9, <1>10

\* Jobs are added at the end.
LEMMA Joined ==
    ASSUME NEW p \in Seq(Job), NEW q \in Seq(Job), NoRepeat(p), NoRepeat(q),
           Members(p) \cap Members(q) = {}
    PROVE  /\ p \o q \in Seq(Job) /\ NoRepeat(p \o q)
           /\ Members(p \o q) = Members(p) \cup Members(q)
           /\ p # <<>> => Head(p \o q) = Head(p)
<1>1. PICK r : r = p \o q
    OBVIOUS
<1>2. /\ r \in Seq(Job) /\ Len(r) = Len(p) + Len(q)
      /\ \A i \in 1..(Len(p) + Len(q)) : r[i] = IF i <= Len(p) THEN p[i] ELSE q[i - Len(p)]
    BY <1>1, ConcatProperties
<1>3. /\ Len(p) \in Nat /\ Len(q) \in Nat
      /\ DOMAIN p = 1..Len(p) /\ DOMAIN q = 1..Len(q) /\ DOMAIN r = 1..Len(r)
    BY <1>2, LenProperties
<1>4. \A i \in DOMAIN p : i \in DOMAIN r /\ r[i] = p[i]
    BY <1>2, <1>3
<1>5. ASSUME NEW i \in DOMAIN q PROVE i + Len(p) \in DOMAIN r /\ r[i + Len(p)] = q[i]
    <2>1. i + Len(p) \in DOMAIN r /\ ~(i + Len(p) <= Len(p)) /\ (i + Len(p)) - Len(p) = i
        BY <1>2, <1>3
    <2> QED BY <1>2, <1>3, <2>1
<1>6. ASSUME NEW i \in DOMAIN r, i \notin DOMAIN p
      PROVE  \E n \in DOMAIN q : i = n + Len(p) /\ r[i] = q[n]
    <2>1. i - Len(p) \in DOMAIN q /\ i = (i - Len(p)) + Len(p)
        BY <1>2, <1>3, <1>6
    <2>2. r[i] = q[i - Len(p)]
        BY <1>2, <1>3, <1>6
    <2> QED BY <2>1, <2>2
<1>7. Members(r) = Members(p) \cup Members(q)
    <2>1. Members(p) \subseteq Members(r)
        BY <1>4 DEF Members
    <2>2. Members(q) \subseteq Members(r)
        BY <1>5 DEF Members
    <2>3. Members(r) \subseteq Members(p) \cup Members(q)
        <3> SUFFICES ASSUME NEW i \in DOMAIN r PROVE r[i] \in Members(p) \cup Members(q)
            BY DEF Members
        <3>1. CASE i \in DOMAIN p
            BY <1>4, <3>1 DEF Members
        <3>2. CASE i \notin DOMAIN p
            BY <1>6, <3>2 DEF Members
        <3> QED BY <3>1, <3>2
    <2> QED BY <2>1, <2>2, <2>3
<1>8. ASSUME NEW m \in DOMAIN r, NEW n \in DOMAIN r, r[m] = r[n] PROVE m = n
    <2>1. CASE m \in DOMAIN p /\ n \in DOMAIN p
        BY <1>4, <1>8, <2>1 DEF NoRepeat
    <2>2. CASE m \in DOMAIN p /\ n \notin DOMAIN p
        <3>1. r[m] \in Members(p)
            BY <1>4, <2>2 DEF Members
        <3>2. r[n] \in Members(q)
            BY <1>6, <2>2 DEF Members
        <3> QED BY <1>8, <3>1, <3>2
    <2>3. CASE m \notin DOMAIN p /\ n \in DOMAIN p
        <3>1. r[n] \in Members(p)
            BY <1>4, <2>3 DEF Members
        <3>2. r[m] \in Members(q)
            BY <1>6, <2>3 DEF Members
        <3> QED BY <1>8, <3>1, <3>2
    <2>4. CASE m \notin DOMAIN p /\ n \notin DOMAIN p
        <3>1. PICK u \in DOMAIN q : m = u + Len(p) /\ r[m] = q[u]
            BY <1>6, <2>4
        <3>2. PICK v \in DOMAIN q : n = v + Len(p) /\ r[n] = q[v]
            BY <1>6, <2>4
        <3> QED BY <1>8, <3>1, <3>2 DEF NoRepeat
    <2> QED BY <2>1, <2>2, <2>3, <2>4
<1>9. ASSUME p # <<>> PROVE Head(r) = Head(p)
    <2>1. Len(p) > 0
        BY <1>3, <1>9, EmptySeq
    <2>2. 1 \in DOMAIN p /\ r # <<>>
        BY <1>2, <1>3, <2>1, EmptySeq
    <2> QED BY <1>2, <1>4, <1>9, <2>2, HeadTailProperties
<1>10. NoRepeat(r)
    BY <1>8 DEF NoRepeat
<1> QED BY <1>1, <1>2, <1>7, <1>9, <1>10

\* One job is added at the end.
LEMMA Added ==
    ASSUME NEW q \in Seq(Job), NEW j \in Job, NoRepeat(q), j \notin Members(q)
    PROVE  /\ Append(q, j) \in Seq(Job) \ {<<>>} /\ NoRepeat(Append(q, j))
           /\ Members(Append(q, j)) = Members(q) \cup {j}
           /\ q # <<>> => Head(Append(q, j)) = Head(q)
<1>1. PICK r : r = Append(q, j)
    OBVIOUS
<1>2. /\ r \in Seq(Job) /\ Len(r) = Len(q) + 1
      /\ \A i \in 1..Len(q) : r[i] = q[i]
      /\ r[Len(q) + 1] = j
    BY <1>1, AppendProperties
<1>3. Len(q) \in Nat /\ DOMAIN q = 1..Len(q) /\ DOMAIN r = 1..Len(r)
    BY <1>2, LenProperties
<1>4. PICK l : l = Len(q) + 1 /\ l \notin DOMAIN q
    BY <1>3
<1>5. /\ DOMAIN r = DOMAIN q \cup {l} /\ r[l] = j
      /\ \A i \in DOMAIN q : r[i] = q[i]
    BY <1>2, <1>3, <1>4
<1>6. r # <<>>
    BY <1>2, <1>3, EmptySeq
<1>7. Members(r) = Members(q) \cup {j}
    BY <1>5 DEF Members
<1>8. NoRepeat(r)
    BY <1>5 DEF NoRepeat, Members
<1>9. ASSUME q # <<>> PROVE Head(r) = Head(q)
    <2>1. Len(q) > 0
        BY <1>3, <1>9, EmptySeq
    <2>2. 1 \in DOMAIN q
        BY <1>3, <2>1
    <2> QED BY <1>2, <1>5, <1>6, <1>9, <2>2, HeadTailProperties
<1> QED BY <1>1, <1>2, <1>6, <1>7, <1>8, <1>9

\* How often a job occurs.
LEMMA Occurs ==
    ASSUME NEW q \in Seq(Job), NoRepeat(q), NEW j
    PROVE  Times(j, q) = IF j \in Members(q) THEN 1 ELSE 0
<1>1. PICK S : S = {i \in DOMAIN q : q[i] = j}
    OBVIOUS
<1>2. CASE j \in Members(q)
    <2>1. PICK i \in DOMAIN q : q[i] = j
        BY <1>2 DEF Members
    <2>2. S = {i}
        BY <1>1, <2>1 DEF NoRepeat
    <2> QED BY <1>1, <1>2, <2>2, FS_Singleton DEF Times
<1>3. CASE j \notin Members(q)
    <2>1. S = {}
        BY <1>1, <1>3 DEF Members
    <2> QED BY <1>1, <1>3, <2>1, FS_EmptySet DEF Times
<1> QED BY <1>2, <1>3

-----------------------------------------------------------------------------
(* Entries of #perConversationData. *)

LEMMA DataIs ==
    ASSUME NEW d \in Data
    PROVE  /\ d.status \in {"NONE", "RUNNING", "BLOCKED", "BLOCKED_WITH_JOBS"}
           /\ d.jobs \in Seq(Job) /\ d.timer \in BOOLEAN
           /\ d.status \in {"NONE", "RUNNING"} => d.retryAt = "none"
           /\ d.status \in {"BLOCKED", "BLOCKED_WITH_JOBS"} <=> d.retryAt \in {"future", "past"}
           /\ d.status # "BLOCKED_WITH_JOBS" => d.jobs = <<>> /\ d.timer = FALSE
           /\ d.status = "BLOCKED_WITH_JOBS" => d.jobs # <<>>
BY EmptyJobs DEF Data

\* An entry made of scratch, and one with jobs.
LEMMA NewData ==
    /\ NoData \in Data /\ NoData.jobs = <<>> /\ NoData.status = "NONE" /\ NoData.retryAt = "none"
    /\ Running \in Data /\ Running.jobs = <<>> /\ Running.status = "RUNNING"
    /\ \A r \in {"future", "past"} :
          LET d == [NoData EXCEPT !.status = "BLOCKED", !.retryAt = r]
          IN  d \in Data /\ d.jobs = <<>> /\ d.status = "BLOCKED"
    /\ \A r \in {"future", "past"}, q \in Seq(Job) \ {<<>>}, b \in BOOLEAN :
          LET d == [status |-> "BLOCKED_WITH_JOBS", retryAt |-> r, jobs |-> q, timer |-> b]
          IN  d \in Data /\ d.jobs = q /\ d.status = "BLOCKED_WITH_JOBS" /\ d.timer = b
<1>1. /\ NoData \in Data /\ NoData.jobs = <<>> /\ NoData.status = "NONE" /\ NoData.retryAt = "none"
      /\ Running \in Data /\ Running.jobs = <<>> /\ Running.status = "RUNNING"
    BY DEF NoData, Running, Data
<1>2. ASSUME NEW r \in {"future", "past"}, NEW d, d = [NoData EXCEPT !.status = "BLOCKED", !.retryAt = r]
      PROVE  d \in Data /\ d.jobs = <<>> /\ d.status = "BLOCKED"
    <2>1. d = [status |-> "BLOCKED", retryAt |-> r, jobs |-> <<>>, timer |-> FALSE]
        BY <1>2 DEF NoData
    <2> QED BY <2>1 DEF Data
<1>3. ASSUME NEW r \in {"future", "past"}, NEW q \in Seq(Job) \ {<<>>}, NEW b \in BOOLEAN, NEW d,
             d = [status |-> "BLOCKED_WITH_JOBS", retryAt |-> r, jobs |-> q, timer |-> b]
      PROVE  d \in Data /\ d.jobs = q /\ d.status = "BLOCKED_WITH_JOBS" /\ d.timer = b
    BY <1>3 DEF Data
<1> QED BY <1>1, <1>2, <1>3

\* An entry whose time or timer changes.
LEMMA DataChanges ==
    ASSUME NEW d \in Data
    PROVE  /\ \A r \in {"future", "past"} :
                d.status \in {"BLOCKED", "BLOCKED_WITH_JOBS"} =>
                  LET e == [d EXCEPT !.retryAt = r]
                  IN  e \in Data /\ e.jobs = d.jobs /\ e.status = d.status /\ e.timer = d.timer
           /\ LET e == [d EXCEPT !.timer = d.status = "BLOCKED_WITH_JOBS"]
              IN  /\ e \in Data /\ e.jobs = d.jobs /\ e.status = d.status
                  /\ d.status = "BLOCKED_WITH_JOBS" => e.timer
<1>1. ASSUME NEW r \in {"future", "past"}, d.status \in {"BLOCKED", "BLOCKED_WITH_JOBS"},
             NEW e, e = [d EXCEPT !.retryAt = r]
      PROVE  e \in Data /\ e.jobs = d.jobs /\ e.status = d.status /\ e.timer = d.timer
    BY <1>1 DEF Data
<1>2. ASSUME NEW e, e = [d EXCEPT !.timer = d.status = "BLOCKED_WITH_JOBS"]
      PROVE  /\ e \in Data /\ e.jobs = d.jobs /\ e.status = d.status
             /\ d.status = "BLOCKED_WITH_JOBS" => e.timer
    <2>1. CASE d.status = "BLOCKED_WITH_JOBS"
        <3>1. e = [d EXCEPT !.timer = TRUE]
            BY <1>2, <2>1
        <3> QED BY <2>1, <3>1 DEF Data
    <2>2. CASE d.status # "BLOCKED_WITH_JOBS"
        <3>1. e = [d EXCEPT !.timer = FALSE]
            BY <1>2, <2>2
        <3> QED BY <2>2, <3>1 DEF Data
    <2> QED BY <2>1, <2>2
<1> QED BY <1>1, <1>2

\* captureRetryAt
LEMMA CaptureIs ==
    ASSUME NEW c, data[c] \in Data, NEW r \in Time
    PROVE  LET d == Captured(c, r)
           IN  /\ d \in Data /\ d.jobs = data[c].jobs /\ d.timer = data[c].timer
<1>1. PICK d : d = Captured(c, r)
    OBVIOUS
<1>2. CASE data[c].status = "NONE"
    <2>1. PICK s \in {"future", "past"} : s = IF r = "none" THEN "future" ELSE r
        BY DEF Time
    <2>2. d = [NoData EXCEPT !.status = "BLOCKED", !.retryAt = s]
        BY <1>1, <1>2, <2>1 DEF Captured
    <2>3. d \in Data /\ d.jobs = <<>> /\ d.status = "BLOCKED"
        BY <2>2, NewData
    <2>4. data[c].jobs = <<>> /\ data[c].timer = FALSE /\ d.timer = FALSE
        BY <1>2, <2>3, DataIs
    <2> QED BY <1>1, <2>3, <2>4
<1>3. CASE data[c].status = "RUNNING"
    <2>2. d = [NoData EXCEPT !.status = "BLOCKED", !.retryAt = "future"]
        BY <1>1, <1>3 DEF Captured
    <2>3. d \in Data /\ d.jobs = <<>> /\ d.status = "BLOCKED"
        BY <2>2, NewData
    <2>4. data[c].jobs = <<>> /\ data[c].timer = FALSE /\ d.timer = FALSE
        BY <1>3, <2>3, DataIs
    <2> QED BY <1>1, <2>3, <2>4
<1>4. CASE data[c].status \in {"BLOCKED", "BLOCKED_WITH_JOBS"}
    <2>1. PICK e \in Data : e = data[c]
        OBVIOUS
    <2>2. d = [e EXCEPT !.retryAt = "future"]
        BY <1>1, <1>4, <2>1 DEF Captured
    <2>3. d \in Data /\ d.jobs = e.jobs /\ d.timer = e.timer
        BY <1>4, <2>1, <2>2, DataChanges
    <2> QED BY <1>1, <2>1, <2>3
<1> QED BY <1>2, <1>3, <1>4, DataIs

-----------------------------------------------------------------------------
(* The challenge handler's types. *)

\* A registered challenge is one.
LEMMA RegisteredIs ==
    ASSUME ChallengeTypeOK, NEW c \in Conversation
    PROVE  /\ IsRegistered(c) => registered[c] \in Challenge
           /\ registered[c].retryAt # "none" => registered[c] \in Challenge
BY DEF ChallengeTypeOK, IsRegistered, Unregistered

LEMMA ChallengeParts ==
    ASSUME ChallengeTypeOK
    PROVE  /\ \A c \in Conversation : MaybeSolve(c) => asking' \in Nat /\ token' \in BOOLEAN
           /\ Solve => asking' \in Nat /\ token' \in BOOLEAN
           /\ \A c \in Conversation, challenge \in Challenge : Register(c, challenge) =>
                 /\ registered' \in [Conversation -> Challenge \cup {Unregistered}]
                 /\ registering' \in [Conversation -> SUBSET Challenge]
           /\ \A C \in SUBSET Conversation : Unregister(C) =>
                 /\ registered' \in [Conversation -> Challenge \cup {Unregistered}]
                 /\ pendingStarts' \subseteq Conversation /\ startTimers' \subseteq Conversation
           /\ \A C \in SUBSET Conversation : StartOnline(C) \/ StartQueues(C) =>
                 /\ registered' \in [Conversation -> Challenge \cup {Unregistered}]
                 /\ pendingStarts' \subseteq Conversation /\ startTimers' \subseteq Conversation
                 /\ toResolve' \in [Conversation -> Nat]
<1>1. Solve => asking' \in Nat /\ token' \in BOOLEAN
    BY DEF ChallengeTypeOK, Solve
<1>2. \A c \in Conversation : MaybeSolve(c) => asking' \in Nat /\ token' \in BOOLEAN
    BY <1>1 DEF ChallengeTypeOK, MaybeSolve
<1>3. ASSUME NEW c \in Conversation, NEW challenge \in Challenge, Register(c, challenge)
      PROVE  /\ registered' \in [Conversation -> Challenge \cup {Unregistered}]
             /\ registering' \in [Conversation -> SUBSET Challenge]
    BY <1>3 DEF ChallengeTypeOK, Register
<1>4. ASSUME NEW C \in SUBSET Conversation, Unregister(C)
      PROVE  /\ registered' \in [Conversation -> Challenge \cup {Unregistered}]
             /\ pendingStarts' \subseteq Conversation /\ startTimers' \subseteq Conversation
    BY <1>4 DEF ChallengeTypeOK, Unregister
<1>5. ASSUME NEW C \in SUBSET Conversation, StartOnline(C)
      PROVE  /\ registered' \in [Conversation -> Challenge \cup {Unregistered}]
             /\ pendingStarts' \subseteq Conversation /\ startTimers' \subseteq Conversation
             /\ toResolve' \in [Conversation -> Nat]
    BY <1>4, <1>5 DEF ChallengeTypeOK, StartOnline
<1>6. ASSUME NEW C \in SUBSET Conversation, StartQueues(C)
      PROVE  /\ registered' \in [Conversation -> Challenge \cup {Unregistered}]
             /\ pendingStarts' \subseteq Conversation /\ startTimers' \subseteq Conversation
             /\ toResolve' \in [Conversation -> Nat]
    BY <1>5, <1>6 DEF ChallengeTypeOK, StartQueues
<1> QED BY <1>1, <1>2, <1>3, <1>4, <1>5, <1>6

\* The handler's own steps.
LEMMA ChallengeSteps ==
    ASSUME ChallengeTypeOK,
           \/ \E c \in Conversation : \/ \E challenge \in Challenge : Persisted(c, challenge)
                                      \/ StartTimer(c) \/ Matures(c)
           \/ CaptchaSolved \/ CaptchaAccepted \/ OnOnline \/ OnOffline
           \/ \E retryAt \in {"future", "past"} : CaptchaRefused(retryAt)
    PROVE  ChallengeTypeOK'
<1>1. ASSUME NEW c \in Conversation, NEW challenge \in Challenge, Persisted(c, challenge)
      PROVE  ChallengeTypeOK'
    <2>1. registering' \in [Conversation -> SUBSET Challenge]
          /\ UNCHANGED <<isOnline, rateLimited, answering>>
        BY <1>1 DEF Persisted, ChallengeTypeOK
    <2>2. CASE challenge.retryAt = "past"
        <3>1. StartQueues({c}) /\ UNCHANGED <<asking, token>>
            BY <1>1, <2>2 DEF Persisted
        <3>2. {c} \in SUBSET Conversation
            OBVIOUS
        <3> QED BY <2>1, <3>1, <3>2, ChallengeParts DEF ChallengeTypeOK
    <2>3. CASE challenge.retryAt # "past"
        <3>1. /\ startTimers' \subseteq Conversation
              /\ Solve \/ UNCHANGED <<asking, token>>
              /\ UNCHANGED <<registered, pendingStarts, toResolve>>
            BY <1>1, <2>3 DEF Persisted, ChallengeTypeOK
        <3> QED BY <2>1, <3>1, ChallengeParts DEF ChallengeTypeOK
    <2> QED BY <2>2, <2>3
<1>2. ASSUME NEW c \in Conversation, StartTimer(c) PROVE ChallengeTypeOK'
    <2>1. rateLimited' \in BOOLEAN /\ UNCHANGED <<registering, isOnline, asking, token, answering>>
        BY <1>2 DEF StartTimer
    <2>2. CASE StartOnline({c})
        <3>1. {c} \in SUBSET Conversation
            OBVIOUS
        <3> QED BY <2>1, <2>2, <3>1, ChallengeParts DEF ChallengeTypeOK
    <2>3. CASE ~StartOnline({c})
        BY <1>2, <2>1, <2>3 DEF StartTimer, ChallengeTypeOK
    <2> QED BY <2>2, <2>3
<1>3. ASSUME NEW c \in Conversation, Matures(c) PROVE ChallengeTypeOK'
    <2>1. registered[c] \in Challenge
        BY <1>3, RegisteredIs DEF Matures
    <2>2. [registered[c] EXCEPT !.retryAt = "past"] \in Challenge
        BY <2>1 DEF Challenge, Time
    <2>3. registered' \in [Conversation -> Challenge \cup {Unregistered}]
        BY <1>3, <2>2 DEF Matures, ChallengeTypeOK
    <2> QED BY <1>3, <2>3 DEF Matures, ChallengeTypeOK
<1>4. CASE CaptchaSolved
    <2>1. asking' \in Nat
        BY <1>4 DEF CaptchaSolved, ChallengeTypeOK
    <2>2. answering' \in Nat /\ token' \in BOOLEAN
        <3>1. CASE token
            <4>1. token' = FALSE /\ answering' = answering + 1
                BY <1>4, <3>1 DEF CaptchaSolved
            <4>2. answering \in Nat
                BY DEF ChallengeTypeOK
            <4>3. answering' \in Nat
                BY <4>1, <4>2
            <4> QED BY <4>1, <4>3
        <3>2. CASE ~token
            <4>1. token' = token /\ answering' = answering
                BY <1>4, <3>2 DEF CaptchaSolved
            <4>2. answering \in Nat /\ token \in BOOLEAN
                BY DEF ChallengeTypeOK
            <4> QED BY <4>1, <4>2, Zenon
        <3> QED BY <3>1, <3>2
    <2> QED BY <1>4, <2>1, <2>2 DEF CaptchaSolved, ChallengeTypeOK
<1>5. CASE CaptchaAccepted
    <2>1. answering' \in Nat /\ UNCHANGED <<registering, isOnline, rateLimited, asking, token>>
        BY <1>5 DEF CaptchaAccepted, ChallengeTypeOK
    <2>2. PICK C \in SUBSET Conversation : StartQueues(C)
        BY <1>5 DEF CaptchaAccepted
    <2> QED BY <2>1, <2>2, ChallengeParts DEF ChallengeTypeOK
<1>6. CASE OnOnline
    <2>1. registered' \in [Conversation -> Challenge \cup {Unregistered}]
        BY <1>6 DEF OnOnline, ChallengeTypeOK
    <2>2. toResolve' \in [Conversation -> Nat]
        BY <1>6 DEF OnOnline, ChallengeTypeOK
    <2> QED BY <1>6, <2>1, <2>2 DEF OnOnline, ChallengeTypeOK
<1>7. CASE OnOffline
    BY <1>7 DEF OnOffline, ChallengeTypeOK
<1>8. ASSUME NEW retryAt \in {"future", "past"}, CaptchaRefused(retryAt) PROVE ChallengeTypeOK'
    <2>1. answering' \in Nat
        BY <1>8 DEF CaptchaRefused, ChallengeTypeOK
    <2>2. \A c \in Conversation : IsRegistered(c) =>
             [registered[c] EXCEPT !.retryAt = retryAt] \in Challenge
        BY RegisteredIs DEF Challenge, Time
    <2>3. registered' \in [Conversation -> Challenge \cup {Unregistered}]
        BY <1>8, <2>2 DEF CaptchaRefused, ChallengeTypeOK
    <2> QED BY <1>8, <2>1, <2>3 DEF CaptchaRefused, ChallengeTypeOK
<1> QED BY <1>1, <1>2, <1>3, <1>4, <1>5, <1>6, <1>7, <1>8

-----------------------------------------------------------------------------
(* The invariant. *)

Going   == {"loading", "checking", "waiting", "sending"}
InQueue == {"queued"} \cup Going

\* The queue and the entry of a conversation hold its jobs, each once, and only
\* the head of the queue runs.
QueuePlaced(c) ==
    /\ NoRepeat(queue[c])
    /\ Members(queue[c]) = {j \in Job : ConvOf[j] = c /\ at[j] \in InQueue}
ParkedPlaced(c) ==
    /\ NoRepeat(data[c].jobs)
    /\ Members(data[c].jobs) = {j \in Job : ConvOf[j] = c /\ at[j] = "parked"}
HeadRuns(c) ==
    \A j \in Job : ConvOf[j] = c /\ at[j] \in Going => j = Head(queue[c])

Placed == \A c \in Conversation : QueuePlaced(c) /\ ParkedPlaced(c) /\ HeadRuns(c)

IndInv == TypeOK /\ Placed /\ ParkedArmed /\ BlockedIsShort

-----------------------------------------------------------------------------
(* Parts of steps. *)

\* Only one conversation is touched.
LEMMA PlacedBy ==
    ASSUME Placed, NEW c \in Conversation,
           \A b \in Conversation \ {c} : queue'[b] = queue[b] /\ data'[b].jobs = data[b].jobs,
           \A j \in Job : ConvOf[j] # c => at'[j] = at[j],
           NoRepeat(queue'[c]), NoRepeat(data'[c].jobs),
           Members(queue'[c]) = {j \in Job : ConvOf[j] = c /\ at'[j] \in InQueue},
           Members(data'[c].jobs) = {j \in Job : ConvOf[j] = c /\ at'[j] = "parked"},
           \A j \in Job : ConvOf[j] = c /\ at'[j] \in Going => j = Head(queue'[c])
    PROVE  Placed'
<1> SUFFICES ASSUME NEW b \in Conversation
             PROVE  QueuePlaced(b)' /\ ParkedPlaced(b)' /\ HeadRuns(b)'
    BY DEF Placed
<1>1. CASE b = c
    BY <1>1 DEF QueuePlaced, ParkedPlaced, HeadRuns, NoRepeat, Members
<1>2. CASE b # c
    <2>1. queue'[b] = queue[b] /\ data'[b].jobs = data[b].jobs /\ \A j \in Job : ConvOf[j] = b => at'[j] = at[j]
        BY <1>2
    <2>2. QueuePlaced(b) /\ ParkedPlaced(b) /\ HeadRuns(b)
        BY DEF Placed
    <2>3. {j \in Job : ConvOf[j] = b /\ at'[j] \in InQueue} = {j \in Job : ConvOf[j] = b /\ at[j] \in InQueue}
          /\ {j \in Job : ConvOf[j] = b /\ at'[j] = "parked"} = {j \in Job : ConvOf[j] = b /\ at[j] = "parked"}
        BY <2>1
    <2>4. QueuePlaced(b)'
        BY <2>1, <2>2, <2>3 DEF QueuePlaced, NoRepeat, Members
    <2>5. ParkedPlaced(b)'
        BY <2>1, <2>2, <2>3 DEF ParkedPlaced, NoRepeat, Members
    <2>6. HeadRuns(b)'
        BY <2>1, <2>2 DEF HeadRuns
    <2> QED BY <2>4, <2>5, <2>6
<1> QED BY <1>1, <1>2

\* The queue of c becomes `left`, which is the queue or what its head leaves,
\* and the parked jobs `rel`, which are all or none.
Moves(c, left, rel) ==
    /\ queue'[c] = left \o rel
    /\ \A b \in Conversation \ {c} : queue'[b] = queue[b] /\ data'[b].jobs = data[b].jobs
    /\ \/ rel = <<>> /\ data'[c].jobs = data[c].jobs
       \/ rel = data[c].jobs /\ data'[c].jobs = <<>>
    /\ \A k \in Members(rel) : at'[k] = "queued"
    /\ \/ /\ left = queue[c]
          /\ \A k \in Job \ Members(rel) :
                \/ at'[k] = at[k]
                \/ /\ k = Head(queue[c]) /\ ConvOf[k] = c
                   /\ at[k] \in InQueue /\ at'[k] \in InQueue
       \/ /\ left = Tail(queue[c])
          /\ \E k \in Job : /\ ConvOf[k] = c /\ at[k] \in Going /\ at'[k] \in {"done", "returned"}
                            /\ \A i \in Job \ Members(rel) : i # k => at'[i] = at[i]

LEMMA MovesKeep ==
    ASSUME TypeOK, Placed, NEW c \in Conversation, NEW left, NEW rel, Moves(c, left, rel)
    PROVE  Placed' /\ \A k \in Job : at[k] = "returned" => at'[k] = "returned"
<1>1. /\ queue[c] \in Seq(Job) /\ data[c] \in Data /\ at \in [Job -> JobAt]
      /\ QueuePlaced(c) /\ ParkedPlaced(c) /\ HeadRuns(c)
    BY DEF TypeOK, Placed
<1>2. data[c].jobs \in Seq(Job)
    BY <1>1, DataIs
<1>3. PICK q \in Seq(Job) : q = queue[c]
    BY <1>1
<1>4. NoRepeat(q) /\ Members(q) = {j \in Job : ConvOf[j] = c /\ at[j] \in InQueue}
    BY <1>1, <1>3 DEF QueuePlaced
<1>5. /\ rel \in Seq(Job) /\ NoRepeat(rel)
      /\ Members(rel) \subseteq {j \in Job : ConvOf[j] = c /\ at[j] = "parked"}
    <2>1. CASE rel = <<>>
        BY <2>1, EmptyJobs
    <2>2. CASE rel = data[c].jobs
        BY <1>1, <1>2, <2>2 DEF ParkedPlaced
    <2> QED BY <2>1, <2>2 DEF Moves
<1>6. ASSUME NEW G \in SUBSET Job, left \in Seq(Job), NoRepeat(left),
             Members(left) = Members(q) \ G,
             \A k \in G : ConvOf[k] = c /\ at[k] \in InQueue /\ at'[k] \in {"done", "returned"},
             \A k \in Job \ (Members(rel) \cup G) :
                at'[k] = at[k] \/ (/\ k = Head(q) /\ ConvOf[k] = c /\ at[k] \in InQueue
                                   /\ at'[k] \in InQueue),
             \A k \in Job \ G : ConvOf[k] = c /\ at'[k] \in Going => k = Head(left) /\ left # <<>>
      PROVE  Placed' /\ \A k \in Job : at[k] = "returned" => at'[k] = "returned"
    <2>1. Members(left) \cap Members(rel) = {}
        BY <1>4, <1>5, <1>6 DEF InQueue, Going
    <2>2. /\ left \o rel \in Seq(Job) /\ NoRepeat(left \o rel)
          /\ Members(left \o rel) = Members(left) \cup Members(rel)
          /\ left # <<>> => Head(left \o rel) = Head(left)
        BY <1>5, <1>6, <2>1, Joined
    <2>3. PICK r : r = left \o rel
        OBVIOUS
    <2>4. queue'[c] = r
        BY <2>3 DEF Moves
    <2>5. \A k \in Members(rel) : at'[k] = "queued" /\ k \in Job /\ ConvOf[k] = c /\ k \notin G
        BY <1>5, <1>6 DEF Moves, InQueue, Going
    <2>6. Members(r) = {j \in Job : ConvOf[j] = c /\ at'[j] \in InQueue}
        <3>1. ASSUME NEW j \in Members(r) PROVE j \in Job /\ ConvOf[j] = c /\ at'[j] \in InQueue
            <4>1. CASE j \in Members(rel)
                BY <2>5, <4>1 DEF InQueue
            <4>2. CASE j \notin Members(rel)
                <5>1. j \in Members(q) /\ j \notin G
                    BY <1>6, <2>2, <2>3, <3>1, <4>2
                <5> QED BY <1>4, <1>6, <4>2, <5>1
            <4> QED BY <4>1, <4>2
        <3>2. ASSUME NEW j \in Job, ConvOf[j] = c, at'[j] \in InQueue PROVE j \in Members(r)
            <4>1. j \notin G
                BY <1>6, <3>2 DEF InQueue, Going
            <4>2. CASE j \notin Members(rel)
                <5>1. at[j] \in InQueue
                    BY <1>6, <3>2, <4>1, <4>2
                <5> QED BY <1>4, <1>6, <2>2, <2>3, <3>2, <4>1, <5>1
            <4> QED BY <2>2, <2>3, <4>2
        <3> QED BY <3>1, <3>2
    <2>7. /\ NoRepeat(data'[c].jobs)
          /\ Members(data'[c].jobs) = {j \in Job : ConvOf[j] = c /\ at'[j] = "parked"}
        <3>1. \A j \in Job : at'[j] = "parked" =>
                 at[j] = "parked" /\ j \notin Members(rel)
            BY <1>6, <2>5 DEF InQueue, Going
        <3>2. \A j \in Job : at[j] = "parked" /\ j \notin Members(rel) => at'[j] = "parked"
            BY <1>6 DEF InQueue, Going
        <3>3. CASE rel = <<>> /\ data'[c].jobs = data[c].jobs
            <4>1. Members(rel) = {}
                BY <3>3, EmptyJobs
            <4>2. \A j \in Job : at'[j] = "parked" <=> at[j] = "parked"
                BY <3>1, <3>2, <4>1
            <4> QED BY <1>1, <3>3, <4>2 DEF ParkedPlaced
        <3>4. CASE rel = data[c].jobs /\ data'[c].jobs = <<>>
            <4>1. Members(rel) = {j \in Job : ConvOf[j] = c /\ at[j] = "parked"}
                BY <1>1, <3>4 DEF ParkedPlaced
            <4>2. {j \in Job : ConvOf[j] = c /\ at'[j] = "parked"} = {}
                BY <3>1, <4>1
            <4> QED BY <3>4, <4>2, EmptyJobs
        <3> QED BY <3>3, <3>4 DEF Moves
    <2>8. \A j \in Job : ConvOf[j] = c /\ at'[j] \in Going => j = Head(r)
        <3> SUFFICES ASSUME NEW j \in Job, ConvOf[j] = c, at'[j] \in Going PROVE j = Head(r)
            OBVIOUS
        <3>1. j \notin G
            BY <1>6 DEF Going
        <3> QED BY <1>6, <2>2, <2>3, <3>1
    <2>9. \A j \in Job : ConvOf[j] # c => at'[j] = at[j]
        BY <1>5, <1>6
    <2>10. Placed'
        <3>1. /\ NoRepeat(queue'[c])
              /\ Members(queue'[c]) = {j \in Job : ConvOf[j] = c /\ at'[j] \in InQueue}
              /\ \A j \in Job : ConvOf[j] = c /\ at'[j] \in Going => j = Head(queue'[c])
            BY <2>2, <2>3, <2>4, <2>6, <2>8
        <3>2. \A b \in Conversation \ {c} : queue'[b] = queue[b] /\ data'[b].jobs = data[b].jobs
            BY DEF Moves
        <3> QED BY <2>7, <2>9, <3>1, <3>2, PlacedBy
    <2>11. \A k \in Job : at[k] = "returned" => at'[k] = "returned"
        BY <1>5, <1>6 DEF InQueue, Going
    <2> QED BY <2>10, <2>11
<1>7. CASE /\ left = queue[c]
           /\ \A k \in Job \ Members(rel) :
                 \/ at'[k] = at[k]
                 \/ /\ k = Head(queue[c]) /\ ConvOf[k] = c
                    /\ at[k] \in InQueue /\ at'[k] \in InQueue
    <2>1. PICK G : G = {} /\ G \in SUBSET Job
        OBVIOUS
    <2>2. ASSUME NEW k \in Job, ConvOf[k] = c, at'[k] \in Going PROVE k = Head(left) /\ left # <<>>
        <3>1. k \notin Members(rel)
            BY <2>2 DEF Going, Moves
        <3>2. at[k] \in InQueue /\ k = Head(q)
            <4>1. CASE at'[k] = at[k]
                BY <1>1, <1>3, <2>2, <4>1 DEF HeadRuns, InQueue
            <4>2. CASE at'[k] # at[k]
                BY <1>3, <1>7, <3>1, <4>2
            <4> QED BY <4>1, <4>2
        <3>3. k \in Members(q)
            BY <1>4, <2>2, <3>2
        <3>4. q # <<>>
            BY <3>3, EmptyJobs
        <3> QED BY <1>3, <1>7, <3>2, <3>4
    <2>3. left \in Seq(Job) /\ NoRepeat(left) /\ Members(left) = Members(q) \ G
        BY <1>3, <1>4, <1>7, <2>1
    <2>4. \A k \in Job \ (Members(rel) \cup G) :
             at'[k] = at[k] \/ (/\ k = Head(q) /\ ConvOf[k] = c /\ at[k] \in InQueue
                                /\ at'[k] \in InQueue)
        BY <1>3, <1>7, <2>1
    <2> QED BY <1>6, <2>1, <2>2, <2>3, <2>4
<1>8. CASE /\ left = Tail(queue[c])
           /\ \E k \in Job : /\ ConvOf[k] = c /\ at[k] \in Going /\ at'[k] \in {"done", "returned"}
                             /\ \A i \in Job \ Members(rel) : i # k => at'[i] = at[i]
    <2>1. PICK h \in Job : /\ ConvOf[h] = c /\ at[h] \in Going /\ at'[h] \in {"done", "returned"}
                           /\ \A i \in Job \ Members(rel) : i # h => at'[i] = at[i]
        BY <1>8
    <2>2. h = Head(q) /\ h \in Members(q)
        BY <1>1, <1>3, <1>4, <2>1 DEF HeadRuns, InQueue
    <2>3. q # <<>>
        BY <2>2, EmptyJobs
    <2>4. PICK G : G = {h} /\ G \in SUBSET Job
        BY <2>1
    <2>5. left \in Seq(Job) /\ NoRepeat(left) /\ Members(left) = Members(q) \ G
        BY <1>3, <1>4, <1>8, <2>2, <2>3, <2>4, HeadLeaves
    <2>6. ASSUME NEW k \in Job \ G, ConvOf[k] = c, at'[k] \in Going PROVE FALSE
        <3>1. k \notin Members(rel) /\ k # h
            BY <2>4, <2>6 DEF Going, Moves
        <3>2. at[k] \in Going
            BY <2>1, <2>6, <3>1
        <3> QED BY <1>1, <1>3, <2>2, <2>6, <3>1, <3>2 DEF HeadRuns
    <2>7. \A k \in G : ConvOf[k] = c /\ at[k] \in InQueue /\ at'[k] \in {"done", "returned"}
        BY <2>1, <2>4 DEF InQueue
    <2>8. \A k \in Job \ (Members(rel) \cup G) :
             at'[k] = at[k] \/ (/\ k = Head(q) /\ ConvOf[k] = c /\ at[k] \in InQueue
                                /\ at'[k] \in InQueue)
        BY <2>1, <2>4
    <2> QED BY <1>6, <2>4, <2>5, <2>6, <2>7, <2>8
<1> QED BY <1>7, <1>8 DEF Moves

\* Moves of jobs that change no callback keep the invariant.
LEMMA Kept ==
    ASSUME IndInv, TypeOK', NEW c \in Conversation, NEW left, NEW rel, Moves(c, left, rel),
           UNCHANGED <<idleCallback, strayTimers>>,
           \A b \in Conversation : data'[b].jobs # <<>> => data'[b].timer = data[b].timer,
           \A b \in Conversation : data'[b].status = "BLOCKED" =>
              data[b].status = "BLOCKED" \/ \E k \in Job : ConvOf[k] = b /\ at'[k] = "returned"
    PROVE  IndInv'
<1>1. Placed' /\ \A k \in Job : at[k] = "returned" => at'[k] = "returned"
    BY MovesKeep DEF IndInv
<1>2. \A b \in Conversation : data'[b].jobs # <<>> => data'[b].jobs = data[b].jobs
    BY DEF Moves
<1>3. ParkedArmed'
    BY <1>2 DEF IndInv, ParkedArmed
<1>4. BlockedIsShort'
    BY <1>1 DEF IndInv, BlockedIsShort
<1> QED BY <1>1, <1>3, <1>4 DEF IndInv

\* The queues and entries stay as they are.
LEMMA Unmoved ==
    ASSUME IndInv, TypeOK', UNCHANGED <<queue, data, at, idleCallback, strayTimers>>
    PROVE  IndInv'
<1>1. Placed'
    BY DEF IndInv, Placed, QueuePlaced, ParkedPlaced, HeadRuns, NoRepeat, Members
<1>2. ParkedArmed' /\ BlockedIsShort'
    BY DEF IndInv, ParkedArmed, BlockedIsShort
<1> QED BY <1>1, <1>2 DEF IndInv

\* The head of a queue goes on.
LEMMA GoesOn ==
    ASSUME IndInv, TypeOK', NEW c \in Conversation,
           UNCHANGED <<queue, data, idleCallback, strayTimers>>,
           \A k \in Job : \/ at'[k] = at[k]
                          \/ /\ k = Head(queue[c]) /\ ConvOf[k] = c
                             /\ at[k] \in InQueue /\ at'[k] \in InQueue
    PROVE  IndInv'
<1>1. queue[c] \in Seq(Job)
    BY DEF IndInv, TypeOK
<1>2. queue'[c] = queue[c] \o <<>>
    BY <1>1, ConcatEmptySeq
<1>3. PICK rel : rel = <<>> /\ Members(rel) = {}
    BY EmptyJobs
<1>4. Moves(c, queue[c], rel)
    BY <1>2, <1>3 DEF Moves
<1> QED BY <1>4, Kept

\* The head of a queue leaves it.
LEMMA Leaves ==
    ASSUME IndInv, TypeOK', NEW j \in Job, at[j] \in Going,
           queue' = [queue EXCEPT ![ConvOf[j]] = Tail(queue[ConvOf[j]])],
           at'[j] \in {"done", "returned"}, \A k \in Job : k # j => at'[k] = at[k],
           UNCHANGED <<idleCallback, strayTimers>>,
           \A b \in Conversation : data'[b].jobs = data[b].jobs /\ data'[b].timer = data[b].timer,
           at'[j] = "returned" \/ UNCHANGED data,
           \A b \in Conversation \ {ConvOf[j]} : data'[b] = data[b]
    PROVE  IndInv'
<1>1. PICK c \in Conversation : c = ConvOf[j]
    BY QueueAssumption
<1>2. queue \in [Conversation -> Seq(Job)] /\ queue[c] \in Seq(Job)
    BY <1>1 DEF IndInv, TypeOK
<1>3. PICK left : left = Tail(queue[c])
    OBVIOUS
<1>4. left \in Seq(Job)
    <2>1. QueuePlaced(c) /\ j \in Members(queue[c])
        BY <1>1 DEF IndInv, Placed, QueuePlaced, InQueue
    <2>2. queue[c] # <<>>
        BY <2>1, EmptyJobs
    <2> QED BY <1>2, <1>3, <2>1, <2>2, HeadLeaves DEF QueuePlaced
<1>5. queue'[c] = left \o <<>> /\ \A b \in Conversation \ {c} : queue'[b] = queue[b]
    BY <1>1, <1>2, <1>3, <1>4, ConcatEmptySeq
<1>6. PICK rel : rel = <<>> /\ Members(rel) = {}
    BY EmptyJobs
<1>7. Moves(c, left, rel)
    BY <1>1, <1>3, <1>5, <1>6 DEF Moves
<1>8. \A b \in Conversation : data'[b].status = "BLOCKED" =>
         data[b].status = "BLOCKED" \/ \E k \in Job : ConvOf[k] = b /\ at'[k] = "returned"
    BY <1>1
<1> QED BY <1>7, <1>8, Kept

\* What Requeue assigns.
LEMMA RequeueIs ==
    ASSUME TypeOK, NEW c \in Conversation, NEW left \in Seq(Job), NEW rel \in Seq(Job), NEW j \in Job,
           NEW to \in JobAt, j \notin Members(rel), Requeue(c, left, rel, j, to)
    PROVE  /\ queue' \in [Conversation -> Seq(Job)] /\ at' \in [Job -> JobAt]
           /\ queue'[c] = left \o rel /\ \A b \in Conversation \ {c} : queue'[b] = queue[b]
           /\ \A k \in Members(rel) : at'[k] = "queued"
           /\ at'[j] = to
           /\ \A k \in Job \ Members(rel) : k # j => at'[k] = at[k]
           /\ rel = <<>> => queue' = [queue EXCEPT ![c] = left]
<1>1. queue \in [Conversation -> Seq(Job)] /\ at \in [Job -> JobAt]
    BY DEF TypeOK
<1>2. left \o rel \in Seq(Job)
    BY ConcatProperties
<1>3. queue' = [queue EXCEPT ![c] = left \o rel]
    BY DEF Requeue
<1>4. /\ queue' \in [Conversation -> Seq(Job)]
      /\ queue'[c] = left \o rel /\ \A b \in Conversation \ {c} : queue'[b] = queue[b]
    BY <1>1, <1>2, <1>3
<1>5. \A k \in Members(rel) : k \in Job
    BY EmptyJobs
<1>6. /\ at' = [k \in Job |-> at'[k]]
      /\ \A k \in Job : at'[k] = IF k \in Members(rel) THEN "queued" ELSE IF k = j THEN to ELSE at[k]
    <2>1. at' = [k \in Job |-> CASE k \in Members(rel) -> "queued"
                                 [] k = j -> to
                                 [] OTHER -> at[k]]
        BY DEF Requeue
    <2>2. at' = [k \in Job |-> at'[k]]
        BY <2>1
    <2>3. ASSUME NEW k \in Job
          PROVE  at'[k] = IF k \in Members(rel) THEN "queued" ELSE IF k = j THEN to ELSE at[k]
        <3>1. at'[k] = CASE k \in Members(rel) -> "queued"
                         [] k = j -> to
                         [] OTHER -> at[k]
            BY <2>1
        <3>2. CASE k \in Members(rel) /\ k # j
            BY <3>1, <3>2
        <3>3. CASE k \notin Members(rel)
            BY <3>1, <3>3
        <3> QED BY <3>2, <3>3
    <2> QED BY <2>2, <2>3
<1>7. "queued" \in JobAt
    BY DEF JobAt
<1>8. at' \in [Job -> JobAt]
    BY <1>1, <1>6, <1>7
<1>9. rel = <<>> => queue' = [queue EXCEPT ![c] = left]
    BY <1>3, ConcatEmptySeq
<1> QED BY <1>4, <1>5, <1>6, <1>8, <1>9

\* The same when nothing is released.
LEMMA LeavesIs ==
    ASSUME TypeOK, NEW c \in Conversation, Tail(queue[c]) \in Seq(Job), NEW j \in Job,
           NEW to \in JobAt, Requeue(c, Tail(queue[c]), <<>>, j, to)
    PROVE  /\ queue' = [queue EXCEPT ![c] = Tail(queue[c])]
           /\ queue' \in [Conversation -> Seq(Job)]
           /\ at'[j] = to /\ \A k \in Job : k # j => at'[k] = at[k]
           /\ at' \in [Job -> JobAt]
<1>1. PICK left \in Seq(Job) : left = Tail(queue[c])
    OBVIOUS
<1>2. PICK e \in Seq(Job) : e = <<>> /\ Members(e) = {}
    BY EmptyJobs
<1>3. Requeue(c, left, e, j, to) /\ j \notin Members(e)
    BY <1>1, <1>2
<1>4. /\ queue' \in [Conversation -> Seq(Job)] /\ at' \in [Job -> JobAt]
      /\ at'[j] = to
      /\ \A k \in Job \ Members(e) : k # j => at'[k] = at[k]
      /\ e = <<>> => queue' = [queue EXCEPT ![c] = left]
    BY <1>3, RequeueIs
<1> QED BY <1>1, <1>2, <1>4

\* A job that goes is the head of its queue.
LEMMA JobHead ==
    ASSUME IndInv, NEW j \in Job, at[j] \in Going
    PROVE  /\ ConvOf[j] \in Conversation /\ queue[ConvOf[j]] \in Seq(Job)
           /\ Tail(queue[ConvOf[j]]) \in Seq(Job)
           /\ j = Head(queue[ConvOf[j]])
<1>1. PICK c \in Conversation : c = ConvOf[j]
    BY QueueAssumption
<1>2. queue[c] \in Seq(Job)
    BY DEF IndInv, TypeOK
<1>3. QueuePlaced(c) /\ HeadRuns(c)
    BY DEF IndInv, Placed
<1>4. j = Head(queue[c]) /\ j \in Members(queue[c])
    BY <1>1, <1>3 DEF HeadRuns, QueuePlaced, InQueue
<1>5. queue[c] # <<>>
    BY <1>4, EmptyJobs
<1>6. Tail(queue[c]) \in Seq(Job)
    BY <1>2, <1>3, <1>5, HeadLeaves DEF QueuePlaced
<1> QED BY <1>1, <1>2, <1>4, <1>6

\* What #unblockConversationRetries releases is what is parked.
LEMMA ReleasedIs ==
    ASSUME TypeOK, NEW c \in Conversation
    PROVE  /\ Released(c) = data[c].jobs /\ Released(c) \in Seq(Job)
           /\ Unblocked(c) \in Data /\ Unblocked(c).jobs = <<>> /\ Unblocked(c).status # "BLOCKED"
<1>1. data[c] \in Data
    BY DEF TypeOK
<1>2. Released(c) = data[c].jobs /\ data[c].jobs \in Seq(Job)
    BY <1>1, DataIs DEF Released
<1>3. Unblocked(c) \in Data /\ Unblocked(c).jobs = <<>> /\ Unblocked(c).status # "BLOCKED"
    BY NewData DEF Unblocked
<1> QED BY <1>2, <1>3

-----------------------------------------------------------------------------
(* The steps. *)

\* A job goes on in the queue.
LEMMA GoSteps ==
    ASSUME IndInv, NEW j \in Job,
           \/ Run(j) \/ WaitForCaptcha(j) \/ WaitTimesOut(j)
           \/ Load(j) /\ ~(sawRetryAt[j] /\ j \notin Loud)
    PROVE  IndInv'
<1> USE DEF challengeVars, queueVars, verificationVars
<1>1. PICK c \in Conversation : c = ConvOf[j]
    BY QueueAssumption
<1>2. TypeOK /\ at \in [Job -> JobAt] /\ sawRetryAt \in [Job -> BOOLEAN] /\ waiter \in [Conversation -> BOOLEAN]
    BY DEF IndInv, TypeOK
<1>3. PICK to \in InQueue : at' = [at EXCEPT ![j] = to]
    BY DEF Run, WaitForCaptcha, WaitTimesOut, Load, InQueue, Going
<1>4. at' \in [Job -> JobAt]
    BY <1>2, <1>3 DEF InQueue, Going, JobAt
<1>5. UNCHANGED <<queue, data, idleCallback, strayTimers, verification, canceled, setbacks>>
    BY DEF Run, WaitForCaptcha, WaitTimesOut, Load
<1>6. at[j] \in InQueue /\ j = Head(queue[c])
    <2>1. CASE Run(j)
        BY <1>1, <2>1 DEF Run, InQueue
    <2>2. CASE ~Run(j)
        <3>1. at[j] \in Going
            BY <2>2 DEF WaitForCaptcha, WaitTimesOut, Load, Going
        <3> QED BY <1>1, <3>1, JobHead DEF InQueue
    <2> QED BY <2>1, <2>2
<1>7. ChallengeTypeOK'
    <2>1. CASE WaitForCaptcha(j)
        <3>1. asking' \in Nat /\ token' \in BOOLEAN
            BY <1>1, <1>2, <2>1, ChallengeParts DEF WaitForCaptcha, TypeOK
        <3> QED BY <1>2, <2>1, <3>1 DEF WaitForCaptcha, TypeOK, ChallengeTypeOK
    <2>2. CASE ~WaitForCaptcha(j)
        BY <1>2, <2>2 DEF Run, WaitTimesOut, Load, TypeOK, ChallengeTypeOK
    <2> QED BY <2>1, <2>2
<1>8. sawRetryAt' \in [Job -> BOOLEAN]
    BY <1>2 DEF Run, WaitForCaptcha, WaitTimesOut, Load
<1>9. waiter' \in [Conversation -> BOOLEAN]
    BY <1>2 DEF Run, WaitForCaptcha, WaitTimesOut, Load
<1>10. TypeOK'
    BY <1>2, <1>4, <1>5, <1>7, <1>8, <1>9 DEF TypeOK
<1>11. \A k \in Job : \/ at'[k] = at[k]
                      \/ /\ k = Head(queue[c]) /\ ConvOf[k] = c
                         /\ at[k] \in InQueue /\ at'[k] \in InQueue
    BY <1>1, <1>2, <1>3, <1>6
<1> QED BY <1>5, <1>10, <1>11, GoesOn

\* A job leaves the queue, to be parked or because it ended.
LEMMA LeaveSteps ==
    ASSUME IndInv, NEW j \in Job,
           GiveUp(j) \/ (Load(j) /\ sawRetryAt[j] /\ j \notin Loud)
    PROVE  IndInv'
<1> USE DEF challengeVars, queueVars, verificationVars
<1>1. at[j] \in Going
    BY DEF GiveUp, Load, Going
<1>2. TypeOK /\ at \in [Job -> JobAt] /\ sawRetryAt \in [Job -> BOOLEAN]
      /\ queue \in [Conversation -> Seq(Job)]
    BY DEF IndInv, TypeOK
<1>3. PICK c \in Conversation : c = ConvOf[j] /\ Tail(queue[c]) \in Seq(Job)
    BY <1>1, JobHead
<1>5. /\ queue' = [queue EXCEPT ![c] = Tail(queue[c])]
      /\ at'[j] \in {"done", "returned"} /\ \A k \in Job : k # j => at'[k] = at[k]
      /\ at' \in [Job -> JobAt]
    <2>1. CASE GiveUp(j)
        <3>1. Requeue(c, Tail(queue[c]), <<>>, j, "done")
            BY <1>3, <2>1 DEF GiveUp
        <3>2. "done" \in JobAt
            BY DEF JobAt
        <3>3. /\ queue' = [queue EXCEPT ![c] = Tail(queue[c])]
              /\ at'[j] = "done" /\ \A k \in Job : k # j => at'[k] = at[k]
              /\ at' \in [Job -> JobAt]
            BY <1>2, <1>3, <3>1, <3>2, LeavesIs
        <3> QED BY <3>3
    <2>2. CASE Load(j) /\ sawRetryAt[j] /\ j \notin Loud
        <3>1. at' = [at EXCEPT ![j] = "returned"] /\ queue' = [queue EXCEPT ![c] = Tail(queue[c])]
            BY <1>3, <2>2 DEF Load
        <3>2. "returned" \in JobAt
            BY DEF JobAt
        <3> QED BY <1>2, <3>1, <3>2
    <2> QED BY <2>1, <2>2
<1>6. UNCHANGED <<challengeVars, data, idleCallback, strayTimers, verificationVars, setbacks>>
    BY DEF GiveUp, Load
<1>7. sawRetryAt' \in [Job -> BOOLEAN]
    BY <1>2 DEF GiveUp, Load
<1>8. TypeOK'
    <2>1. queue' \in [Conversation -> Seq(Job)]
        BY <1>2, <1>3, <1>5
    <2>2. ChallengeTypeOK'
        BY <1>2, <1>6 DEF TypeOK, ChallengeTypeOK
    <2> QED BY <1>2, <1>5, <1>6, <1>7, <2>1, <2>2 DEF TypeOK
<1> QED BY <1>1, <1>3, <1>5, <1>6, <1>8, Leaves

\* A thrown error.
LEMMA Thrown ==
    ASSUME IndInv, NEW j \in Job, at[j] = "sending", Throw(j), UNCHANGED <<data, idleCallback, strayTimers>>
    PROVE  /\ queue' \in [Conversation -> Seq(Job)] /\ at' \in [Job -> JobAt]
           /\ TypeOK' => IndInv'
<1>1. at[j] \in Going
    BY DEF Going
<1>2. TypeOK /\ at \in [Job -> JobAt] /\ queue \in [Conversation -> Seq(Job)]
    BY DEF IndInv, TypeOK
<1>3. PICK c \in Conversation : c = ConvOf[j] /\ Tail(queue[c]) \in Seq(Job) /\ j = Head(queue[c])
    BY <1>1, JobHead
<1>4. CASE at' = [at EXCEPT ![j] = "queued"] /\ UNCHANGED queue
    <2>1. at' \in [Job -> JobAt]
        BY <1>2, <1>4 DEF JobAt
    <2>2. \A k \in Job : \/ at'[k] = at[k]
                         \/ /\ k = Head(queue[c]) /\ ConvOf[k] = c
                            /\ at[k] \in InQueue /\ at'[k] \in InQueue
        BY <1>1, <1>2, <1>3, <1>4 DEF InQueue
    <2> QED BY <1>2, <1>4, <2>1, <2>2, GoesOn
<1>5. CASE Requeue(ConvOf[j], Tail(queue[ConvOf[j]]), <<>>, j, "done")
    <2>1. "done" \in JobAt
        BY DEF JobAt
    <2>2. Requeue(c, Tail(queue[c]), <<>>, j, "done")
        BY <1>3, <1>5
    <2>3. /\ queue' = [queue EXCEPT ![c] = Tail(queue[c])]
          /\ queue' \in [Conversation -> Seq(Job)]
          /\ at'[j] = "done" /\ \A k \in Job : k # j => at'[k] = at[k]
          /\ at' \in [Job -> JobAt]
        BY <1>2, <1>3, <2>1, <2>2, LeavesIs
    <2> QED BY <1>1, <1>3, <2>3, Leaves
<1> QED BY <1>4, <1>5 DEF Throw

\* The checks before a send, and the send.
LEMMA CheckStep == ASSUME IndInv, NEW j \in Job, Check(j) PROVE IndInv'
<1> USE DEF challengeVars, queueVars, verificationVars
<1>1. at[j] = "checking" /\ at[j] \in Going
    BY DEF Check, Going
<1>2. PICK c \in Conversation : c = ConvOf[j] /\ Tail(queue[c]) \in Seq(Job) /\ queue[c] \in Seq(Job)
                                /\ j = Head(queue[c])
    BY <1>1, JobHead
<1>3. /\ TypeOK /\ data \in [Conversation -> Data] /\ ParkedPlaced(c) /\ data[c] \in Data
      /\ waiter \in [Conversation -> BOOLEAN]
      /\ verification[c] \in {"none", "pending", "canceled"}
    BY DEF IndInv, TypeOK, Placed
<1>4. PICK rel : rel = IF IsRegistered(c) THEN <<>> ELSE Released(c)
    OBVIOUS
<1>5. PICK v : v = Verdict(j)
    OBVIOUS
<1>6. v \in {"sending", "waiting", "done"} /\ v \in JobAt
    <2>1. v \in {"sending", "waiting", "done"}
        <3>1. CASE verification[c] = "none"
            BY <1>2, <1>5, <3>1 DEF Verdict
        <3>2. CASE verification[c] = "pending"
            <4>1. CASE j \in Impatient
                BY <1>2, <1>5, <3>2, <4>1 DEF Verdict
            <4>2. CASE j \notin Impatient
                BY <1>2, <1>5, <3>2, <4>2 DEF Verdict
            <4> QED BY <4>1, <4>2
        <3>3. CASE verification[c] = "canceled"
            <4>1. CASE j \in canceled[c]
                BY <1>2, <1>5, <3>3, <4>1 DEF Verdict
            <4>2. CASE j \notin canceled[c]
                BY <1>2, <1>5, <3>3, <4>2 DEF Verdict
            <4> QED BY <4>1, <4>2
        <3> QED BY <1>3, <3>1, <3>2, <3>3
    <2> QED BY <2>1 DEF JobAt
<1>7. PICK left : left = IF v = "done" THEN Tail(queue[c]) ELSE queue[c]
    OBVIOUS
<1>8. left \in Seq(Job) /\ rel \in Seq(Job) /\ (rel = <<>> \/ rel = data[c].jobs)
    BY <1>2, <1>3, <1>4, <1>7, ReleasedIs, EmptyJobs
<1>9. /\ Requeue(c, left, rel, j, v)
      /\ data' = IF IsRegistered(c) THEN data ELSE [data EXCEPT ![c] = Unblocked(c)]
      /\ UnregisterIf(rel # <<>>, c)
      /\ waiter' = [waiter EXCEPT ![c] = @ \/ v = "waiting"]
    BY <1>2, <1>4, <1>5, <1>7 DEF Check
<1>10. UNCHANGED <<registering, isOnline, rateLimited, asking, token, answering, toResolve,
                   sawRetryAt, strayTimers, idleCallback, setbacks>>
    BY DEF Check
<1>11. j \notin Members(rel)
    BY <1>1, <1>3, <1>8, EmptyJobs DEF ParkedPlaced
<1>12. /\ queue' \in [Conversation -> Seq(Job)] /\ at' \in [Job -> JobAt]
       /\ queue'[c] = left \o rel /\ \A b \in Conversation \ {c} : queue'[b] = queue[b]
       /\ \A k \in Members(rel) : at'[k] = "queued"
       /\ at'[j] = v
       /\ \A k \in Job \ Members(rel) : k # j => at'[k] = at[k]
    BY <1>3, <1>6, <1>8, <1>9, <1>11, RequeueIs
<1>13. /\ data' \in [Conversation -> Data]
       /\ \A b \in Conversation : data'[b] = data[b] \/ (b = c /\ ~IsRegistered(c) /\ data'[b] = Unblocked(c))
       /\ ~IsRegistered(c) => data'[c] = Unblocked(c)
    BY <1>3, <1>9, ReleasedIs
<1>14. Moves(c, left, rel)
    <2>1. \A b \in Conversation \ {c} : queue'[b] = queue[b] /\ data'[b].jobs = data[b].jobs
        BY <1>12, <1>13
    <2>2. \/ rel = <<>> /\ data'[c].jobs = data[c].jobs
          \/ rel = data[c].jobs /\ data'[c].jobs = <<>>
        BY <1>3, <1>4, <1>13, ReleasedIs
    <2>3. CASE v = "done"
        BY <1>1, <1>2, <1>7, <1>12, <2>1, <2>2, <2>3 DEF Moves
    <2>4. CASE v # "done"
        BY <1>1, <1>2, <1>6, <1>7, <1>12, <2>1, <2>2, <2>4 DEF Moves, InQueue, Going
    <2> QED BY <2>3, <2>4
<1>15. TypeOK'
    <2>1. ChallengeTypeOK'
        <3>1. {c} \in SUBSET Conversation
            OBVIOUS
        <3>2. /\ registered' \in [Conversation -> Challenge \cup {Unregistered}]
              /\ pendingStarts' \subseteq Conversation /\ startTimers' \subseteq Conversation
            BY <1>3, <1>9, <3>1, ChallengeParts DEF UnregisterIf, TypeOK, ChallengeTypeOK
        <3> QED BY <1>3, <1>10, <3>2 DEF TypeOK, ChallengeTypeOK
    <2>2. waiter' \in [Conversation -> BOOLEAN]
        BY <1>3, <1>9
    <2>3. /\ verification' \in [Conversation -> {"none", "pending", "canceled"}]
          /\ canceled' \in [Conversation -> SUBSET Job]
        BY <1>3 DEF Check, TypeOK
    <2> QED BY <1>3, <1>10, <1>12, <1>13, <2>1, <2>2, <2>3 DEF TypeOK
<1>16. \A b \in Conversation : data'[b].jobs # <<>> => data'[b].timer = data[b].timer
    BY <1>3, <1>13, ReleasedIs
<1>17. \A b \in Conversation : data'[b].status = "BLOCKED" => data[b].status = "BLOCKED"
    BY <1>3, <1>13, ReleasedIs
<1> QED BY <1>10, <1>14, <1>15, <1>16, <1>17, Kept

LEMMA SentStep == ASSUME IndInv, NEW j \in Job, Sent(j) PROVE IndInv'
<1> USE DEF challengeVars, queueVars, verificationVars
<1>1. at[j] = "sending" /\ at[j] \in Going /\ "done" \in JobAt
    BY DEF Sent, Going, JobAt
<1>2. PICK c \in Conversation : c = ConvOf[j] /\ Tail(queue[c]) \in Seq(Job)
                                /\ j = Head(queue[c])
    BY <1>1, JobHead
<1>3. /\ TypeOK /\ data \in [Conversation -> Data] /\ ParkedPlaced(c) /\ data[c] \in Data
    BY DEF IndInv, TypeOK, Placed
<1>4. PICK rel \in Seq(Job) : rel = Released(c) /\ rel = data[c].jobs
    BY <1>3, ReleasedIs
<1>5. PICK left \in Seq(Job) : left = Tail(queue[c])
    BY <1>2
<1>6. /\ Requeue(c, left, rel, j, "done")
      /\ data' = [data EXCEPT ![c] = IF rel = <<>> THEN NoData ELSE Running]
      /\ UnregisterIf(rel # <<>>, c)
    BY <1>2, <1>4, <1>5 DEF Sent
<1>7. UNCHANGED <<registering, isOnline, rateLimited, asking, token, answering, toResolve,
                  sawRetryAt, strayTimers, idleCallback, setbacks, waiter, verification, canceled>>
    BY DEF Sent
<1>8. j \notin Members(rel)
    BY <1>1, <1>3, <1>4 DEF ParkedPlaced
<1>9. /\ queue' \in [Conversation -> Seq(Job)] /\ at' \in [Job -> JobAt]
      /\ queue'[c] = left \o rel /\ \A b \in Conversation \ {c} : queue'[b] = queue[b]
      /\ \A k \in Members(rel) : at'[k] = "queued"
      /\ at'[j] = "done"
      /\ \A k \in Job \ Members(rel) : k # j => at'[k] = at[k]
    BY <1>1, <1>3, <1>6, <1>8, RequeueIs
<1>10. /\ data' \in [Conversation -> Data] /\ data'[c].jobs = <<>> /\ data'[c].status # "BLOCKED"
       /\ \A b \in Conversation \ {c} : data'[b] = data[b]
    BY <1>3, <1>6, NewData
<1>11. Moves(c, left, rel)
    <2>1. \A b \in Conversation \ {c} : queue'[b] = queue[b] /\ data'[b].jobs = data[b].jobs
        BY <1>9, <1>10
    <2> QED BY <1>1, <1>2, <1>4, <1>5, <1>9, <1>10, <2>1 DEF Moves
<1>12. TypeOK'
    <2>1. ChallengeTypeOK'
        <3>1. {c} \in SUBSET Conversation
            OBVIOUS
        <3>2. /\ registered' \in [Conversation -> Challenge \cup {Unregistered}]
              /\ pendingStarts' \subseteq Conversation /\ startTimers' \subseteq Conversation
            BY <1>3, <1>6, <3>1, ChallengeParts DEF UnregisterIf, TypeOK, ChallengeTypeOK
        <3> QED BY <1>3, <1>7, <3>2 DEF TypeOK, ChallengeTypeOK
    <2> QED BY <1>3, <1>7, <1>9, <1>10, <2>1 DEF TypeOK
<1>13. \A b \in Conversation : data'[b].jobs # <<>> => data'[b].timer = data[b].timer
    BY <1>10
<1>14. \A b \in Conversation : data'[b].status = "BLOCKED" => data[b].status = "BLOCKED"
    BY <1>10
<1> QED BY <1>7, <1>11, <1>12, <1>13, <1>14, Kept

\* The send is answered 428.
LEMMA ChallengedStep ==
    ASSUME IndInv, NEW j \in Job, NEW challenge \in Challenge, Challenged(j, challenge)
    PROVE  IndInv'
<1> USE DEF challengeVars, queueVars, verificationVars
<1>1. at[j] = "sending" /\ at[j] \in Going /\ "returned" \in JobAt
    BY DEF Challenged, Going, JobAt
<1>2. PICK c \in Conversation : c = ConvOf[j] /\ Tail(queue[c]) \in Seq(Job)
    BY <1>1, JobHead
<1>3. TypeOK /\ data \in [Conversation -> Data] /\ data[c] \in Data
    BY DEF IndInv, TypeOK
<1>4. UNCHANGED <<startTimers, pendingStarts, isOnline, rateLimited, asking, token, answering, toResolve,
                  sawRetryAt, strayTimers, idleCallback, waiter, verification, canceled>>
      /\ Register(c, challenge)
    BY <1>2 DEF Challenged
<1>5. setbacks' \in Nat
    BY <1>3 DEF Challenged, Setback, TypeOK
<1>6. ChallengeTypeOK'
    <2>1. /\ registered' \in [Conversation -> Challenge \cup {Unregistered}]
          /\ registering' \in [Conversation -> SUBSET Challenge]
        BY <1>3, <1>4, ChallengeParts DEF TypeOK
    <2> QED BY <1>3, <1>4, <2>1 DEF TypeOK, ChallengeTypeOK
<1>7. CASE j \in Loud
    <2>1. Throw(j) /\ UNCHANGED data
        BY <1>7 DEF Challenged
    <2>2. queue' \in [Conversation -> Seq(Job)] /\ at' \in [Job -> JobAt] /\ (TypeOK' => IndInv')
        BY <1>1, <1>4, <2>1, Thrown
    <2>3. TypeOK'
        BY <1>3, <1>4, <1>5, <1>6, <2>1, <2>2 DEF TypeOK
    <2> QED BY <2>2, <2>3
<1>8. CASE j \notin Loud
    <2>1. Requeue(c, Tail(queue[c]), <<>>, j, "returned")
          /\ data' = [data EXCEPT ![c] = Captured(c, challenge.retryAt)]
        BY <1>2, <1>8 DEF Challenged
    <2>2. /\ queue' = [queue EXCEPT ![c] = Tail(queue[c])]
          /\ queue' \in [Conversation -> Seq(Job)]
          /\ at'[j] = "returned" /\ \A k \in Job : k # j => at'[k] = at[k]
          /\ at' \in [Job -> JobAt]
        BY <1>1, <1>2, <1>3, <2>1, LeavesIs
    <2>3. challenge.retryAt \in Time
        BY DEF Challenge
    <2>4. PICK d : d = Captured(c, challenge.retryAt)
        OBVIOUS
    <2>5. d \in Data /\ d.jobs = data[c].jobs /\ d.timer = data[c].timer
        BY <1>3, <2>3, <2>4, CaptureIs
    <2>6. /\ data' \in [Conversation -> Data] /\ data'[c] = d
          /\ \A b \in Conversation \ {c} : data'[b] = data[b]
        BY <1>3, <2>1, <2>4, <2>5
    <2>7. \A b \in Conversation : data'[b].jobs = data[b].jobs /\ data'[b].timer = data[b].timer
        BY <2>5, <2>6
    <2>8. TypeOK'
        BY <1>3, <1>4, <1>5, <1>6, <2>2, <2>6 DEF TypeOK
    <2> QED BY <1>1, <1>2, <1>4, <2>2, <2>6, <2>7, <2>8, Leaves
<1> QED BY <1>7, <1>8

\* The send fails otherwise.
LEMMA FailStep == ASSUME IndInv, NEW j \in Job, Fail(j) PROVE IndInv'
<1> USE DEF challengeVars, queueVars, verificationVars
<1>1. at[j] = "sending" /\ at[j] \in Going /\ "done" \in JobAt
    BY DEF Fail, Going, JobAt
<1>2. PICK c \in Conversation : c = ConvOf[j] /\ Tail(queue[c]) \in Seq(Job)
    BY <1>1, JobHead
<1>3. TypeOK
    BY DEF IndInv
<1>4. UNCHANGED <<registered, registering, startTimers, pendingStarts, isOnline, rateLimited, asking,
                  token, answering, toResolve, sawRetryAt, data, strayTimers, idleCallback, waiter>>
    BY DEF Fail
<1>5. setbacks' \in Nat
    BY <1>3 DEF Fail, Setback, TypeOK
<1>6. /\ verification' \in [Conversation -> {"none", "pending", "canceled"}]
      /\ canceled' \in [Conversation -> SUBSET Job]
    BY <1>3 DEF Fail, TypeOK
<1>7. ChallengeTypeOK'
    BY <1>3, <1>4 DEF TypeOK, ChallengeTypeOK
<1>8. CASE Throw(j)
    <2>1. queue' \in [Conversation -> Seq(Job)] /\ at' \in [Job -> JobAt] /\ (TypeOK' => IndInv')
        BY <1>1, <1>4, <1>8, Thrown
    <2>2. TypeOK'
        BY <1>3, <1>4, <1>5, <1>6, <1>7, <2>1 DEF TypeOK
    <2> QED BY <2>1, <2>2
<1>9. CASE Requeue(ConvOf[j], Tail(queue[ConvOf[j]]), <<>>, j, "done")
    BY <1>8, <1>9 DEF Throw
<1> QED BY <1>8, <1>9 DEF Fail

-----------------------------------------------------------------------------
\* A job is parked: whoever parks the first one waits for the queue to be idle.
LEMMA ParkStep == ASSUME IndInv, NEW j \in Job, Park(j) PROVE IndInv'
<1> USE DEF challengeVars, queueVars, verificationVars
<1>1. PICK c \in Conversation : c = ConvOf[j]
    BY QueueAssumption
<1>2. /\ TypeOK /\ data \in [Conversation -> Data] /\ ParkedPlaced(c) /\ data[c] \in Data /\ Placed
      /\ at \in [Job -> JobAt] /\ idleCallback \in [Conversation -> BOOLEAN]
      /\ strayTimers \in [Conversation -> Nat] /\ QueuePlaced(c) /\ HeadRuns(c)
    BY DEF IndInv, TypeOK, Placed
<1>3. at[j] = "returned" /\ at' = [at EXCEPT ![j] = "parked"]
    BY DEF Park
<1>4. PICK q \in Seq(Job) : q = data[c].jobs
    BY <1>2, DataIs
<1>5. NoRepeat(q) /\ Members(q) = {k \in Job : ConvOf[k] = c /\ at[k] = "parked"} /\ j \notin Members(q)
    BY <1>2, <1>3, <1>4 DEF ParkedPlaced
<1>6. PICK s : s = Append(q, j)
    OBVIOUS
<1>7. s \in Seq(Job) \ {<<>>} /\ NoRepeat(s) /\ Members(s) = Members(q) \cup {j}
    BY <1>5, <1>6, Added
<1>8. PICK r \in {"future", "past"} :
         r = IF data[c].status \in {"NONE", "RUNNING"} THEN "future" ELSE data[c].retryAt
    BY <1>2, DataIs
<1>9. PICK d : d = [status |-> "BLOCKED_WITH_JOBS", retryAt |-> r, jobs |-> s, timer |-> FALSE]
    OBVIOUS
<1>10. d \in Data /\ d.jobs = s /\ d.status = "BLOCKED_WITH_JOBS"
    BY <1>7, <1>9, NewData
<1>11. data' = [data EXCEPT ![c] = d]
    BY <1>1, <1>4, <1>6, <1>8, <1>9 DEF Park
<1>12. /\ data' \in [Conversation -> Data] /\ data'[c] = d
       /\ \A b \in Conversation \ {c} : data'[b] = data[b]
    BY <1>2, <1>10, <1>11
<1>13. /\ idleCallback' = [idleCallback EXCEPT ![c] = @ \/ data[c].status # "BLOCKED_WITH_JOBS"]
       /\ strayTimers' = [strayTimers EXCEPT ![c] = IF data[c].timer THEN @ + 1 ELSE @]
       /\ UNCHANGED <<queue, sawRetryAt, waiter, verification, canceled, setbacks>>
       /\ UNCHANGED challengeVars
    BY <1>1 DEF Park
<1>14. idleCallback' \in [Conversation -> BOOLEAN] /\ strayTimers' \in [Conversation -> Nat]
    BY <1>2, <1>13
<1>15. at' \in [Job -> JobAt]
    BY <1>2, <1>3 DEF JobAt
<1>16. TypeOK'
    <2>1. ChallengeTypeOK'
        BY <1>2, <1>13 DEF TypeOK, ChallengeTypeOK
    <2> QED BY <1>2, <1>12, <1>13, <1>14, <1>15, <2>1 DEF TypeOK
<1>17. Placed'
    <2>1. \A k \in Job : at'[k] \in InQueue <=> at[k] \in InQueue
        BY <1>2, <1>3 DEF InQueue, Going
    <2>2. \A k \in Job : at'[k] \in Going <=> at[k] \in Going
        BY <1>2, <1>3 DEF Going
    <2>3. \A k \in Job : at'[k] = "parked" <=> (at[k] = "parked" \/ k = j)
        BY <1>2, <1>3
    <2>4. /\ NoRepeat(queue'[c])
          /\ Members(queue'[c]) = {k \in Job : ConvOf[k] = c /\ at'[k] \in InQueue}
        BY <1>2, <1>13, <2>1 DEF QueuePlaced
    <2>5. \A k \in Job : ConvOf[k] = c /\ at'[k] \in Going => k = Head(queue'[c])
        BY <1>2, <1>13, <2>2 DEF HeadRuns
    <2>6. /\ NoRepeat(data'[c].jobs)
          /\ Members(data'[c].jobs) = {k \in Job : ConvOf[k] = c /\ at'[k] = "parked"}
        BY <1>1, <1>5, <1>7, <1>10, <1>12, <2>3
    <2>7. \A k \in Job : ConvOf[k] # c => at'[k] = at[k]
        BY <1>1, <1>2, <1>3
    <2>8. \A b \in Conversation \ {c} : queue'[b] = queue[b] /\ data'[b].jobs = data[b].jobs
        BY <1>12, <1>13
    <2> QED BY <1>2, <2>4, <2>5, <2>6, <2>7, <2>8, PlacedBy
<1>18. ParkedArmed'
    <2> SUFFICES ASSUME NEW b \in Conversation, data'[b].jobs # <<>>
                 PROVE  idleCallback'[b] \/ data'[b].timer \/ strayTimers'[b] > 0
        BY DEF ParkedArmed
    <2>1. CASE b # c
        BY <1>2, <1>12, <1>13, <2>1 DEF IndInv, ParkedArmed
    <2>2. CASE b = c /\ data[c].status # "BLOCKED_WITH_JOBS"
        BY <1>2, <1>13, <2>2
    <2>3. CASE b = c /\ data[c].status = "BLOCKED_WITH_JOBS"
        <3>1. idleCallback[c] \/ data[c].timer \/ strayTimers[c] > 0
            BY <1>2, <2>3, DataIs DEF IndInv, ParkedArmed
        <3>2. CASE idleCallback[c]
            BY <1>2, <1>13, <2>3, <3>2
        <3>3. CASE data[c].timer
            <4>1. strayTimers'[c] = strayTimers[c] + 1
                BY <1>2, <1>13, <3>3
            <4> QED BY <1>2, <2>3, <4>1
        <3>4. CASE strayTimers[c] > 0
            <4>1. strayTimers'[c] \in {strayTimers[c], strayTimers[c] + 1}
                BY <1>2, <1>13
            <4> QED BY <1>2, <2>3, <3>4, <4>1
        <3> QED BY <3>1, <3>2, <3>3, <3>4
    <2> QED BY <2>1, <2>2, <2>3
<1>19. BlockedIsShort'
    <2> SUFFICES ASSUME NEW b \in Conversation, data'[b].status = "BLOCKED"
                 PROVE  \E k \in Job : ConvOf[k] = b /\ at'[k] = "returned"
        BY DEF BlockedIsShort
    <2>1. b # c /\ data[b].status = "BLOCKED"
        BY <1>10, <1>12
    <2>2. PICK k \in Job : ConvOf[k] = b /\ at[k] = "returned"
        BY <2>1 DEF IndInv, BlockedIsShort
    <2> QED BY <1>1, <1>2, <1>3, <2>1, <2>2
<1> QED BY <1>16, <1>17, <1>18, <1>19 DEF IndInv

\* A job is added.
LEMMA AddStep == ASSUME IndInv, NEW j \in Job, Add(j) PROVE IndInv'
<1> USE DEF challengeVars, queueVars, verificationVars
<1>1. PICK c \in Conversation : c = ConvOf[j]
    BY QueueAssumption
<1>2. /\ TypeOK /\ ParkedPlaced(c) /\ Placed /\ queue \in [Conversation -> Seq(Job)]
      /\ at \in [Job -> JobAt] /\ QueuePlaced(c) /\ HeadRuns(c)
    BY DEF IndInv, TypeOK, Placed
<1>3. at[j] = "new" /\ at' = [at EXCEPT ![j] = "queued"]
    BY DEF Add
<1>4. PICK q \in Seq(Job) : q = queue[c]
    BY <1>2
<1>5. /\ NoRepeat(q) /\ Members(q) = {k \in Job : ConvOf[k] = c /\ at[k] \in InQueue}
      /\ j \notin Members(q)
    BY <1>2, <1>3, <1>4 DEF QueuePlaced, InQueue, Going
<1>6. PICK s : s = Append(q, j)
    OBVIOUS
<1>7. s \in Seq(Job) /\ NoRepeat(s) /\ Members(s) = Members(q) \cup {j} /\ (q # <<>> => Head(s) = Head(q))
    BY <1>5, <1>6, Added
<1>8. /\ queue' = [queue EXCEPT ![c] = s]
      /\ UNCHANGED <<registered, registering, startTimers, pendingStarts, isOnline, rateLimited, answering,
                     toResolve, sawRetryAt, data, strayTimers, idleCallback, waiter, verification, canceled,
                     setbacks>>
    BY <1>1, <1>4, <1>6 DEF Add
<1>9. asking' \in Nat /\ token' \in BOOLEAN
    <2>1. CASE j \in Loud
        BY <1>1, <1>2, <2>1, ChallengeParts DEF Add, TypeOK
    <2>2. CASE j \notin Loud
        <3>1. asking' = asking /\ token' = token
            BY <2>2 DEF Add
        <3> QED BY <1>2, <3>1 DEF TypeOK, ChallengeTypeOK
    <2> QED BY <2>1, <2>2
<1>10. queue' \in [Conversation -> Seq(Job)] /\ queue'[c] = s /\ \A b \in Conversation \ {c} : queue'[b] = queue[b]
    BY <1>2, <1>7, <1>8
<1>11. at' \in [Job -> JobAt]
    BY <1>2, <1>3 DEF JobAt
<1>12. TypeOK'
    <2>1. ChallengeTypeOK'
        BY <1>2, <1>8, <1>9 DEF TypeOK, ChallengeTypeOK
    <2> QED BY <1>2, <1>8, <1>10, <1>11, <2>1 DEF TypeOK
<1>13. Placed'
    <2>1. \A k \in Job : at'[k] \in InQueue <=> (at[k] \in InQueue \/ k = j)
        BY <1>2, <1>3 DEF InQueue, Going
    <2>2. \A k \in Job : at'[k] \in Going => at[k] \in Going
        BY <1>2, <1>3 DEF Going
    <2>3. \A k \in Job : at'[k] = "parked" <=> at[k] = "parked"
        BY <1>2, <1>3
    <2>4. /\ NoRepeat(queue'[c])
          /\ Members(queue'[c]) = {k \in Job : ConvOf[k] = c /\ at'[k] \in InQueue}
        BY <1>1, <1>5, <1>7, <1>10, <2>1
    <2>5. ASSUME NEW k \in Job, ConvOf[k] = c, at'[k] \in Going PROVE k = Head(queue'[c])
        <3>1. k = Head(q) /\ k \in Members(q)
            BY <1>2, <1>4, <1>5, <2>2, <2>5 DEF HeadRuns, InQueue
        <3>2. q # <<>>
            BY <3>1, EmptyJobs
        <3> QED BY <1>7, <1>10, <3>1, <3>2
    <2>6. /\ NoRepeat(data'[c].jobs)
          /\ Members(data'[c].jobs) = {k \in Job : ConvOf[k] = c /\ at'[k] = "parked"}
        BY <1>2, <1>8, <2>3 DEF ParkedPlaced
    <2>7. \A k \in Job : ConvOf[k] # c => at'[k] = at[k]
        BY <1>1, <1>2, <1>3
    <2>8. \A b \in Conversation \ {c} : queue'[b] = queue[b] /\ data'[b].jobs = data[b].jobs
        BY <1>8, <1>10
    <2> QED BY <1>2, <2>4, <2>5, <2>6, <2>7, <2>8, PlacedBy
<1>14. ParkedArmed'
    BY <1>8 DEF IndInv, ParkedArmed
<1>15. BlockedIsShort'
    BY <1>2, <1>3, <1>8 DEF IndInv, BlockedIsShort
<1> QED BY <1>12, <1>13, <1>14, <1>15 DEF IndInv

\* The callback retries what is parked or leaves a timer.
LEMMA Called ==
    ASSUME IndInv, NEW c \in Conversation, RetryCallback(c)
    PROVE  /\ queue' \in [Conversation -> Seq(Job)] /\ at' \in [Job -> JobAt]
           /\ data' \in [Conversation -> Data]
           /\ registered' \in [Conversation -> Challenge \cup {Unregistered}]
           /\ pendingStarts' \subseteq Conversation /\ startTimers' \subseteq Conversation
           /\ Placed' /\ BlockedIsShort'
           /\ data'[c].jobs # <<>> => data'[c].timer
           /\ \A b \in Conversation \ {c} : data'[b] = data[b]
<1>1. /\ TypeOK /\ data \in [Conversation -> Data] /\ Placed /\ data[c] \in Data
      /\ queue \in [Conversation -> Seq(Job)] /\ at \in [Job -> JobAt] /\ ChallengeTypeOK
    BY DEF IndInv, TypeOK
<1>2. PICK rel \in Seq(Job) : rel = data[c].jobs
    BY <1>1, DataIs
<1>3. CASE data[c].status = "BLOCKED_WITH_JOBS" /\ data[c].retryAt = "past"
    <2>1. /\ data' = [data EXCEPT ![c] = Running]
          /\ queue' = [queue EXCEPT ![c] = queue[c] \o rel]
          /\ at' = [k \in Job |-> IF k \in Members(rel) THEN "queued" ELSE at[k]]
          /\ Unregister({c})
        BY <1>2, <1>3 DEF RetryCallback
    <2>2. queue[c] \o rel \in Seq(Job)
        BY <1>1, <1>2, ConcatProperties
    <2>3. /\ queue' \in [Conversation -> Seq(Job)] /\ queue'[c] = queue[c] \o rel
          /\ \A b \in Conversation \ {c} : queue'[b] = queue[b]
        BY <1>1, <2>1, <2>2
    <2>4. /\ data' \in [Conversation -> Data] /\ data'[c].jobs = <<>> /\ data'[c].status # "BLOCKED"
          /\ \A b \in Conversation \ {c} : data'[b] = data[b]
        BY <1>1, <2>1, NewData
    <2>5. at' \in [Job -> JobAt]
        BY <1>1, <2>1 DEF JobAt
    <2>6. {c} \in SUBSET Conversation
        OBVIOUS
    <2>7. /\ registered' \in [Conversation -> Challenge \cup {Unregistered}]
          /\ pendingStarts' \subseteq Conversation /\ startTimers' \subseteq Conversation
        BY <1>1, <2>1, <2>6, ChallengeParts
    <2>8. Moves(c, queue[c], rel)
        <3>1. \A b \in Conversation \ {c} : queue'[b] = queue[b] /\ data'[b].jobs = data[b].jobs
            BY <2>3, <2>4
        <3>2. \A k \in Members(rel) : at'[k] = "queued"
            BY <2>1, EmptyJobs
        <3>3. \A k \in Job \ Members(rel) : at'[k] = at[k]
            BY <2>1
        <3> QED BY <1>2, <2>3, <2>4, <3>1, <3>2, <3>3 DEF Moves
    <2>9. Placed' /\ \A k \in Job : at[k] = "returned" => at'[k] = "returned"
        BY <1>1, <2>8, MovesKeep
    <2>10. BlockedIsShort'
        BY <2>4, <2>9 DEF IndInv, BlockedIsShort
    <2> QED BY <2>3, <2>4, <2>5, <2>7, <2>9, <2>10
<1>4. CASE ~(data[c].status = "BLOCKED_WITH_JOBS" /\ data[c].retryAt = "past")
    <2>1. /\ data' = [data EXCEPT ![c].timer = data[c].status = "BLOCKED_WITH_JOBS"]
          /\ UNCHANGED <<queue, at, registered, pendingStarts, startTimers>>
        BY <1>4 DEF RetryCallback
    <2>2. PICK d \in Data : d = data[c]
        BY <1>1
    <2>3. PICK e : e = [d EXCEPT !.timer = d.status = "BLOCKED_WITH_JOBS"]
        OBVIOUS
    <2>4. data' = [data EXCEPT ![c] = e]
        BY <2>1, <2>2, <2>3
    <2>5. e \in Data /\ e.jobs = d.jobs /\ e.status = d.status /\ (d.status = "BLOCKED_WITH_JOBS" => e.timer)
        BY <2>3, DataChanges
    <2>6. /\ data' \in [Conversation -> Data] /\ data'[c] = e
          /\ \A b \in Conversation \ {c} : data'[b] = data[b]
        BY <1>1, <2>4, <2>5
    <2>7. \A b \in Conversation : data'[b].jobs = data[b].jobs /\ data'[b].status = data[b].status
        BY <2>2, <2>5, <2>6
    <2>8. data'[c].jobs # <<>> => data'[c].timer
        BY <2>5, <2>6, DataIs
    <2>9. Placed'
        BY <1>1, <2>1, <2>7 DEF Placed, QueuePlaced, ParkedPlaced, HeadRuns, NoRepeat, Members
    <2>10. BlockedIsShort'
        BY <2>1, <2>7 DEF IndInv, BlockedIsShort
    <2> QED BY <1>1, <2>1, <2>6, <2>8, <2>9, <2>10 DEF ChallengeTypeOK
<1> QED BY <1>3, <1>4

\* Timers and idle callbacks.
LEMMA RetrySteps ==
    ASSUME IndInv, NEW c \in Conversation, IdleCallback(c) \/ RetryTimeout(c)
    PROVE  IndInv'
<1> USE DEF challengeVars, queueVars, verificationVars
<1>1. /\ TypeOK /\ idleCallback \in [Conversation -> BOOLEAN] /\ strayTimers \in [Conversation -> Nat]
    BY DEF IndInv, TypeOK
<1>2. RetryCallback(c)
    BY DEF IdleCallback, RetryTimeout
<1>3. UNCHANGED <<registering, isOnline, rateLimited, asking, token, answering, toResolve, sawRetryAt,
                  waiter, verification, canceled, setbacks>>
    BY DEF IdleCallback, RetryTimeout
<1>4. /\ queue' \in [Conversation -> Seq(Job)] /\ at' \in [Job -> JobAt]
      /\ data' \in [Conversation -> Data]
      /\ registered' \in [Conversation -> Challenge \cup {Unregistered}]
      /\ pendingStarts' \subseteq Conversation /\ startTimers' \subseteq Conversation
      /\ Placed' /\ BlockedIsShort'
      /\ data'[c].jobs # <<>> => data'[c].timer
      /\ \A b \in Conversation \ {c} : data'[b] = data[b]
    BY <1>2, Called
<1>5. /\ idleCallback' \in [Conversation -> BOOLEAN] /\ strayTimers' \in [Conversation -> Nat]
      /\ \A b \in Conversation \ {c} : idleCallback'[b] = idleCallback[b] /\ strayTimers'[b] = strayTimers[b]
    <2>1. CASE IdleCallback(c)
        BY <1>1, <2>1 DEF IdleCallback
    <2>2. CASE RetryTimeout(c)
        BY <1>1, <2>2 DEF RetryTimeout
    <2> QED BY <2>1, <2>2
<1>6. TypeOK'
    <2>1. ChallengeTypeOK'
        BY <1>1, <1>3, <1>4 DEF TypeOK, ChallengeTypeOK
    <2> QED BY <1>1, <1>3, <1>4, <1>5, <2>1 DEF TypeOK
<1>7. ParkedArmed'
    <2> SUFFICES ASSUME NEW b \in Conversation, data'[b].jobs # <<>>
                 PROVE  idleCallback'[b] \/ data'[b].timer \/ strayTimers'[b] > 0
        BY DEF ParkedArmed
    <2>1. CASE b = c
        BY <1>4, <2>1
    <2>2. CASE b # c
        BY <1>4, <1>5, <2>2 DEF IndInv, ParkedArmed
    <2> QED BY <2>1, <2>2
<1> QED BY <1>4, <1>6, <1>7 DEF IndInv

\* A retryAt is reached.
LEMMA MatureStep == ASSUME IndInv, NEW c \in Conversation, RetryMatures(c) PROVE IndInv'
<1> USE DEF challengeVars, queueVars, verificationVars
<1>1. TypeOK /\ data \in [Conversation -> Data] /\ queue \in [Conversation -> Seq(Job)]
    BY DEF IndInv, TypeOK
<1>2. /\ data[c].retryAt = "future" /\ data' = [data EXCEPT ![c].retryAt = "past"]
      /\ UNCHANGED <<challengeVars, queue, at, sawRetryAt, strayTimers, idleCallback, waiter,
                     verification, canceled, setbacks>>
    BY DEF RetryMatures
<1>3. PICK d \in Data : d = data[c] /\ d.status \in {"BLOCKED", "BLOCKED_WITH_JOBS"}
    BY <1>1, <1>2, DataIs
<1>4. PICK e : e = [d EXCEPT !.retryAt = "past"]
    OBVIOUS
<1>5. e \in Data /\ e.jobs = d.jobs /\ e.status = d.status /\ e.timer = d.timer
    BY <1>3, <1>4, DataChanges
<1>6. data' = [data EXCEPT ![c] = e]
    BY <1>2, <1>3, <1>4
<1>7. /\ data' \in [Conversation -> Data]
      /\ \A b \in Conversation : /\ data'[b].jobs = data[b].jobs /\ data'[b].status = data[b].status
                                 /\ data'[b].timer = data[b].timer
    BY <1>1, <1>3, <1>5, <1>6
<1>8. TypeOK'
    <2>1. ChallengeTypeOK'
        BY <1>1, <1>2 DEF TypeOK, ChallengeTypeOK
    <2> QED BY <1>1, <1>2, <1>7, <2>1 DEF TypeOK
<1>9. Placed'
    BY <1>2, <1>7 DEF IndInv, Placed, QueuePlaced, ParkedPlaced, HeadRuns, NoRepeat, Members
<1>10. ParkedArmed' /\ BlockedIsShort'
    BY <1>2, <1>7 DEF IndInv, ParkedArmed, BlockedIsShort
<1> QED BY <1>8, <1>9, <1>10 DEF IndInv

\* A conversation is started again.
LEMMA ResolveStep == ASSUME IndInv, NEW c \in Conversation, ResolveVerificationWaiter(c) PROVE IndInv'
<1> USE DEF challengeVars, queueVars, verificationVars
<1>1. /\ TypeOK /\ ChallengeTypeOK /\ data \in [Conversation -> Data] /\ queue \in [Conversation -> Seq(Job)]
      /\ at \in [Job -> JobAt] /\ waiter \in [Conversation -> BOOLEAN] /\ data[c] \in Data
      /\ toResolve \in [Conversation -> Nat] /\ HeadRuns(c)
    BY DEF IndInv, TypeOK, ChallengeTypeOK, Placed
<1>2. UNCHANGED <<registering, isOnline, rateLimited, asking, token, answering, sawRetryAt, strayTimers,
                  idleCallback, verification, canceled, setbacks>>
    BY DEF ResolveVerificationWaiter
<1>3. toResolve' \in [Conversation -> Nat]
    BY <1>1 DEF ResolveVerificationWaiter
<1>4. CASE waiter[c]
    <2>1. /\ waiter' = [waiter EXCEPT ![c] = FALSE]
          /\ at' = [j \in Job |-> IF at[j] = "waiting" /\ ConvOf[j] = c THEN "checking" ELSE at[j]]
          /\ UNCHANGED <<queue, data, registered, pendingStarts, startTimers>>
        BY <1>4 DEF ResolveVerificationWaiter
    <2>2. waiter' \in [Conversation -> BOOLEAN] /\ at' \in [Job -> JobAt]
        BY <1>1, <2>1 DEF JobAt
    <2>3. TypeOK'
        <3>1. ChallengeTypeOK'
            BY <1>1, <1>2, <1>3, <2>1 DEF ChallengeTypeOK
        <3> QED BY <1>1, <1>2, <2>1, <2>2, <3>1 DEF TypeOK
    <2>4. \A k \in Job : \/ at'[k] = at[k]
                         \/ /\ k = Head(queue[c]) /\ ConvOf[k] = c
                            /\ at[k] \in InQueue /\ at'[k] \in InQueue
        BY <1>1, <2>1 DEF HeadRuns, InQueue, Going
    <2> QED BY <1>2, <2>1, <2>3, <2>4, GoesOn
<1>5. CASE ~waiter[c]
    <2>1. PICK rel \in Seq(Job) : rel = Released(c) /\ rel = data[c].jobs
        BY <1>1, ReleasedIs
    <2>2. /\ data' = [data EXCEPT ![c] = Unblocked(c)]
          /\ queue' = [queue EXCEPT ![c] = queue[c] \o rel]
          /\ at' = [j \in Job |-> IF j \in Members(rel) THEN "queued" ELSE at[j]]
          /\ UnregisterIf(rel # <<>>, c)
          /\ UNCHANGED waiter
        BY <1>5, <2>1 DEF ResolveVerificationWaiter
    <2>3. queue[c] \o rel \in Seq(Job)
        BY <1>1, <2>1, ConcatProperties
    <2>4. /\ queue' \in [Conversation -> Seq(Job)] /\ queue'[c] = queue[c] \o rel
          /\ \A b \in Conversation \ {c} : queue'[b] = queue[b]
        BY <1>1, <2>2, <2>3
    <2>5. /\ data' \in [Conversation -> Data] /\ data'[c].jobs = <<>> /\ data'[c].status # "BLOCKED"
          /\ \A b \in Conversation \ {c} : data'[b] = data[b]
        BY <1>1, <2>2, ReleasedIs
    <2>6. at' \in [Job -> JobAt]
        BY <1>1, <2>2 DEF JobAt
    <2>7. {c} \in SUBSET Conversation
        OBVIOUS
    <2>8. /\ registered' \in [Conversation -> Challenge \cup {Unregistered}]
          /\ pendingStarts' \subseteq Conversation /\ startTimers' \subseteq Conversation
        BY <1>1, <2>2, <2>7, ChallengeParts DEF UnregisterIf, ChallengeTypeOK
    <2>9. TypeOK'
        <3>1. ChallengeTypeOK'
            BY <1>1, <1>2, <1>3, <2>8 DEF ChallengeTypeOK
        <3> QED BY <1>1, <1>2, <2>2, <2>4, <2>5, <2>6, <3>1 DEF TypeOK
    <2>10. Moves(c, queue[c], rel)
        <3>1. \A b \in Conversation \ {c} : queue'[b] = queue[b] /\ data'[b].jobs = data[b].jobs
            BY <2>4, <2>5
        <3>2. \A k \in Members(rel) : at'[k] = "queued"
            BY <2>1, <2>2, EmptyJobs
        <3>3. \A k \in Job \ Members(rel) : at'[k] = at[k]
            BY <2>2
        <3> QED BY <2>1, <2>4, <2>5, <3>1, <3>2, <3>3 DEF Moves
    <2>11. \A b \in Conversation : data'[b].jobs # <<>> => data'[b].timer = data[b].timer
        BY <2>5
    <2>12. \A b \in Conversation : data'[b].status = "BLOCKED" => data[b].status = "BLOCKED"
        BY <2>5
    <2> QED BY <1>2, <2>9, <2>10, <2>11, <2>12, Kept
<1> QED BY <1>1, <1>4, <1>5

\* Steps of the challenge handler, the user and the network.
LEMMA OutsideSteps ==
    ASSUME IndInv,
           \/ \E c \in Conversation : ChallengeStep(c)
           \/ (CaptchaSolved \/ CaptchaAccepted \/ OnOnline)
              /\ UNCHANGED <<queueVars, verificationVars, setbacks>>
           \/ ((\E retryAt \in {"future", "past"} : CaptchaRefused(retryAt)) \/ OnOffline)
              /\ Setback /\ UNCHANGED <<queueVars, verificationVars>>
           \/ Verify \/ CancelVerification
    PROVE  IndInv'
<1> USE DEF challengeVars, queueVars, verificationVars
<1>1. TypeOK /\ ChallengeTypeOK
    BY DEF IndInv, TypeOK
<1>2. UNCHANGED <<queue, at, sawRetryAt, data, strayTimers, idleCallback, waiter>>
    BY DEF ChallengeStep, Verify, CancelVerification, ResolveStopped
<1>3. CASE Verify \/ CancelVerification
    <2>1. ResolveStopped /\ UNCHANGED <<registered, registering, startTimers, pendingStarts, isOnline,
                                        rateLimited, asking, token, answering, setbacks>>
        BY <1>3 DEF Verify, CancelVerification, ResolveStopped
    <2>2. toResolve' \in [Conversation -> Nat]
        BY <1>1, <2>1 DEF ResolveStopped, ChallengeTypeOK
    <2>3. /\ verification' \in [Conversation -> {"none", "pending", "canceled"}]
          /\ canceled' \in [Conversation -> SUBSET Job]
        BY <1>3 DEF Verify, CancelVerification
    <2>4. ChallengeTypeOK'
        BY <1>1, <2>1, <2>2 DEF ChallengeTypeOK
    <2>5. TypeOK'
        BY <1>1, <1>2, <2>1, <2>3, <2>4 DEF TypeOK
    <2> QED BY <1>2, <2>5, Unmoved
<1>4. CASE ~(Verify \/ CancelVerification)
    <2>1. ChallengeTypeOK'
        BY <1>1, <1>4, ChallengeSteps DEF ChallengeStep
    <2>2. setbacks' \in Nat
        BY <1>1, <1>4 DEF ChallengeStep, Setback, TypeOK
    <2>3. UNCHANGED <<verification, canceled>>
        BY <1>4 DEF ChallengeStep
    <2>4. TypeOK'
        BY <1>1, <1>2, <2>1, <2>2, <2>3 DEF TypeOK
    <2> QED BY <1>2, <2>4, Unmoved
<1> QED BY <1>3, <1>4

-----------------------------------------------------------------------------
(* The theorems. *)

\* The invariant holds at first,
LEMMA Initially == ASSUME Init PROVE IndInv
<1>1. /\ queue \in [Conversation -> {<<>>} \cup {<<j>> : j \in Job}]
      /\ \A c \in Conversation : \A i \in DOMAIN queue[c] : ConvOf[queue[c][i]] = c
      /\ at = [j \in Job |-> IF queue[ConvOf[j]] = <<j>> THEN "queued" ELSE "new"]
      /\ data = [c \in Conversation |-> NoData]
    BY DEF Init
<1>2. queue \in [Conversation -> Seq(Job)] /\ at \in [Job -> JobAt]
    <2>1. \A j \in Job : <<j>> \in Seq(Job)
        OBVIOUS
    <2>2. \A c \in Conversation : queue[c] \in Seq(Job)
        <3> TAKE c \in Conversation
        <3>1. queue[c] = <<>> \/ \E j \in Job : queue[c] = <<j>>
            BY <1>1
        <3> QED BY <2>1, <3>1, EmptyJobs
    <2>3. at \in [Job -> JobAt]
        BY <1>1 DEF JobAt
    <2> QED BY <1>1, <2>2, <2>3
<1>3. data \in [Conversation -> Data] /\ \A c \in Conversation : data[c] = NoData
    BY <1>1, NewData
<1>4. ChallengeTypeOK
    <2>1. registered \in [Conversation -> Challenge \cup {Unregistered}]
        BY QueueAssumption DEF Init, ChallengeInit
    <2>2. registering \in [Conversation -> SUBSET Challenge]
        <3>1. registering = [c \in Conversation |-> IF IsRegistered(c) THEN {registered[c]} ELSE {}]
            BY DEF Init, ChallengeInit
        <3>2. \A c \in Conversation : IsRegistered(c) => registered[c] \in Challenge
            BY <2>1 DEF IsRegistered
        <3> QED BY <3>1, <3>2
    <2> QED BY <2>1, <2>2 DEF Init, ChallengeInit, ChallengeTypeOK
<1>5. setbacks \in Nat
    <2>1. PICK C \in SUBSET Conversation : setbacks = Cardinality(C)
        BY DEF Init
    <2> QED BY <2>1, QueueAssumption, FS_Subset, FS_CardinalityType
<1>6. TypeOK
    BY <1>2, <1>3, <1>4, <1>5 DEF Init, TypeOK
<1>7. ASSUME NEW c \in Conversation PROVE QueuePlaced(c) /\ ParkedPlaced(c) /\ HeadRuns(c)
    <2>1. \A j \in Job : at[j] \in {"queued", "new"} /\ (at[j] = "queued" <=> queue[ConvOf[j]] = <<j>>)
        BY <1>1
    <2>2. ParkedPlaced(c)
        BY <1>3, <2>1, NewData, EmptyJobs DEF ParkedPlaced
    <2>3. HeadRuns(c)
        BY <2>1 DEF HeadRuns, Going
    <2>4. CASE queue[c] = <<>>
        <3>1. \A j \in Job : ConvOf[j] = c => at[j] \notin InQueue
            BY <2>1, <2>4 DEF InQueue, Going
        <3> QED BY <2>2, <2>3, <2>4, <3>1, EmptyJobs DEF QueuePlaced
    <2>5. CASE queue[c] # <<>>
        <3>1. PICK j \in Job : queue[c] = <<j>>
            BY <1>1, <2>5
        <3>2. DOMAIN queue[c] = {1} /\ queue[c][1] = j
            BY <3>1
        <3>3. NoRepeat(queue[c]) /\ Members(queue[c]) = {j}
            BY <3>2 DEF NoRepeat, Members
        <3>4. ConvOf[j] = c
            BY <1>1, <3>2
        <3>5. \A k \in Job : ConvOf[k] = c /\ at[k] \in InQueue <=> k = j
            BY <2>1, <3>1, <3>4 DEF InQueue, Going
        <3> QED BY <2>2, <2>3, <3>3, <3>5 DEF QueuePlaced
    <2> QED BY <2>4, <2>5
<1>8. Placed
    BY <1>7 DEF Placed
<1>9. ParkedArmed /\ BlockedIsShort
    BY <1>3, NewData DEF ParkedArmed, BlockedIsShort
<1> QED BY <1>6, <1>8, <1>9 DEF IndInv

\* and every step keeps it.
LEMMA Stepwise == ASSUME IndInv, [Next]_vars PROVE IndInv'
<1>1. CASE \E j \in Job : JobStep(j) \/ GiveUp(j) \/ Add(j) \/ Fail(j)
    BY <1>1, GoSteps, LeaveSteps, CheckStep, SentStep, ParkStep, AddStep, FailStep DEF JobStep
<1>2. CASE \E j \in Job, challenge \in Offered : Challenged(j, challenge)
    BY <1>2, ChallengedStep, QueueAssumption
<1>3. CASE \E c \in Conversation : RetryStep(c)
    BY <1>3, RetrySteps, MatureStep, ResolveStep DEF RetryStep
<1>4. CASE \/ \E c \in Conversation : ChallengeStep(c)
           \/ (CaptchaSolved \/ CaptchaAccepted \/ OnOnline)
              /\ UNCHANGED <<queueVars, verificationVars, setbacks>>
           \/ ((\E retryAt \in {"future", "past"} : CaptchaRefused(retryAt)) \/ OnOffline)
              /\ Setback /\ UNCHANGED <<queueVars, verificationVars>>
           \/ Verify \/ CancelVerification
    BY <1>4, OutsideSteps
<1>5. CASE UNCHANGED vars
    <2>1. TypeOK'
        <3>1. ChallengeTypeOK'
            BY <1>5 DEF vars, challengeVars, IndInv, TypeOK, ChallengeTypeOK
        <3> QED BY <1>5, <3>1 DEF vars, queueVars, verificationVars, IndInv, TypeOK
    <2> QED BY <1>5, <2>1, Unmoved DEF vars, queueVars
<1> QED BY <1>1, <1>2, <1>3, <1>4, <1>5 DEF Next, Internal, User, Server

\* The inductive invariant holds in every state of every behaviour.
THEOREM Invariance == Spec => []IndInv
<1>1. Init => IndInv
    BY Initially
<1>2. IndInv /\ [Next]_vars => IndInv'
    BY Stepwise
<1> QED BY <1>1, <1>2, PTL DEF Spec

\* The variables keep their types, and an entry of #perConversationData its
\* shape.
THEOREM TypeCorrect == Spec => []TypeOK
<1>1. IndInv => TypeOK
    BY DEF IndInv
<1> QED BY <1>1, Invariance, PTL

\* No job is lost or queued twice, whatever is parked, released and retried in
\* whichever conversations.
THEOREM JobsKept == Spec => []JobsInOnePlace
<1>1. ASSUME IndInv PROVE JobsInOnePlace
    <2> SUFFICES ASSUME NEW j \in Job, NEW c \in Conversation, c = ConvOf[j]
                 PROVE  /\ Times(j, queue[c]) = IF at[j] \in {"queued", "loading", "checking", "waiting",
                                                              "sending"} THEN 1 ELSE 0
                        /\ Times(j, data[c].jobs) = IF at[j] = "parked" THEN 1 ELSE 0
        BY QueueAssumption DEF JobsInOnePlace
    <2>1. queue[c] \in Seq(Job) /\ data[c] \in Data /\ QueuePlaced(c) /\ ParkedPlaced(c)
        BY <1>1 DEF IndInv, TypeOK, Placed
    <2>2. data[c].jobs \in Seq(Job)
        BY <2>1, DataIs
    <2>3. Times(j, queue[c]) = IF j \in Members(queue[c]) THEN 1 ELSE 0
        BY <2>1, Occurs DEF QueuePlaced
    <2>4. Times(j, data[c].jobs) = IF j \in Members(data[c].jobs) THEN 1 ELSE 0
        BY <2>1, <2>2, Occurs DEF ParkedPlaced
    <2>5. j \in Members(queue[c]) <=> at[j] \in {"queued", "loading", "checking", "waiting", "sending"}
        BY <2>1 DEF QueuePlaced, InQueue, Going
    <2>6. j \in Members(data[c].jobs) <=> at[j] = "parked"
        BY <2>1 DEF ParkedPlaced
    <2> QED BY <2>3, <2>4, <2>5, <2>6
<1> QED BY <1>1, Invariance, PTL

\* Parked jobs always have a callback or a timer coming.
THEOREM RetriesComing == Spec => []ParkedArmed
<1>1. IndInv => ParkedArmed
    BY DEF IndInv
<1> QED BY <1>1, Invariance, PTL

\* RETRY_STATUS.BLOCKED only stands while a job is about to be parked.
THEOREM BlockedTransient == Spec => []BlockedIsShort
<1>1. IndInv => BlockedIsShort
    BY DEF IndInv
<1> QED BY <1>1, Invariance, PTL
=============================================================================
