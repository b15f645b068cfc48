------------------------ MODULE MessageReceiverProofs ------------------------
(***************************************************************************)
(* The zones and the sessions of the receiver, for any envelopes, messages, *)
(* addresses, sends and bounds.                                            *)
(***************************************************************************)
EXTENDS MessageReceiver, SequenceTheorems, FiniteSetTheorems, WellFoundedInduction, TLAPS

-----------------------------------------------------------------------------
(* Numbers, sequences. *)

\* A set of numbers has a least element.
LEMMA LeastNumber ==
    ASSUME NEW T \in SUBSET Nat, T # {}
    PROVE  \E n \in T : \A k \in T : n <= k
<1> DEFINE X == {0..n : n \in T}
<1>1. X \subseteq FiniteSubsetsOf(Nat)
    <2>1. ASSUME NEW n \in T PROVE IsFiniteSet(0..n)
        BY FS_Interval
    <2> QED BY <2>1 DEF FiniteSubsetsOf
<1>2. X # {}
    OBVIOUS
<1>3. IsWellFoundedOn(StrictSubsetOrdering(Nat), FiniteSubsetsOf(Nat))
    BY FS_StrictSubsetOrderingWellFounded
<1> HIDE DEF X
<1>4. \E x \in X : \A y \in X : ~(<<y, x>> \in StrictSubsetOrdering(Nat))
    BY <1>1, <1>2, <1>3, WFMin
<1> USE DEF X
<1>5. PICK n \in T : \A y \in X : ~(<<y, 0..n>> \in StrictSubsetOrdering(Nat))
    BY <1>4
<1>6. ASSUME NEW k \in T, k < n PROVE FALSE
    <2>1. 0..k \subseteq 0..n
        BY <1>6
    <2>2. n \in 0..n /\ n \notin 0..k
        BY <1>6
    <2>3. 0..k \in SUBSET Nat /\ 0..n \in SUBSET Nat
        OBVIOUS
    <2>4. <<0..k, 0..n>> \in StrictSubsetOrdering(Nat)
        BY <2>1, <2>2, <2>3 DEF StrictSubsetOrdering
    <2> QED BY <2>4, <1>5
<1> QED BY <1>6

\* A bounded set of numbers has a greatest element.
LEMMA GreatestNumber ==
    ASSUME NEW n \in Nat, NEW T \in SUBSET (1..n), T # {}
    PROVE  \E k \in T : \A j \in T : j <= k
<1> DEFINE D == {n - j : j \in T}
<1>1. D \in SUBSET Nat
    OBVIOUS
<1>0. D # {}
    OBVIOUS
<1>2. PICK d \in D : \A e \in D : d <= e
    BY <1>0, <1>1, LeastNumber
<1>3. PICK k \in T : d = n - k
    BY <1>2
<1>4. \A j \in T : n - j \in D
    OBVIOUS
<1> HIDE DEF D
<1>5. \A j \in T : n - k <= n - j
    BY <1>2, <1>3, <1>4
<1> QED BY <1>5

-----------------------------------------------------------------------------
(* Zones. *)

\* Who may wait for a zone: neither a late decryption nor an orphan.
Client == {Batch, Remover, Cacher} \cup Send

\* The zone of everyone.
LEMMA Zones ==
    /\ \A c : ZoneOf(c) \in {"batch", "global"}
    /\ \A c \in Client : ZoneOf(c) = "batch" <=> c = Batch
    /\ \A s \in Send : ZoneOf(s) = "global"
    /\ \A d \in Delivery : ZoneOf(d) = "batch"
    /\ ZoneOf(Batch) = "batch" /\ ZoneOf(Orphan) = "batch"
    /\ ZoneOf(Remover) = "global" /\ ZoneOf(Cacher) = "global"
    /\ Client \subseteq Caller
    /\ Client \cap Delivery = {} /\ Orphan \notin Client
    /\ Send \cap Delivery = {} /\ {Batch, Remover, Cacher, Orphan} \cap (Send \cup Delivery) = {}
BY CallerAssumption DEF ZoneOf, Client, Caller, Batch, Remover, Cacher, Orphan

\* #leaveZone lets in a caller whenever one waits, and only callers of one zone.
LEMMA AdmittedPrefix ==
    ASSUME zoneQueue \in Seq(Client), zoneQueue # <<>>
    PROVE  /\ Admitted \in 1..Len(zoneQueue)
           /\ \A i \in 1..Admitted : ZoneOf(zoneQueue[i]) = ZoneOf(Head(zoneQueue))
<1> DEFINE n == Len(zoneQueue)
           P(k) == /\ \A i \in 1..k : ZoneOf(zoneQueue[i]) = "global"
                   /\ k < Len(zoneQueue) => ZoneOf(zoneQueue[k + 1]) = "batch"
<1>1. n \in Nat \ {0} /\ Head(zoneQueue) = zoneQueue[1]
    BY EmptySeq, LenProperties
<1>2. CASE ZoneOf(Head(zoneQueue)) = "batch"
    BY <1>1, <1>2 DEF Admitted
<1>3. CASE ZoneOf(Head(zoneQueue)) # "batch"
    <2>1. ZoneOf(Head(zoneQueue)) = "global"
        BY <1>3, Zones
    <2> DEFINE B == {i \in 1..n : ZoneOf(zoneQueue[i]) = "batch"}
    <2>2. \E k \in 1..n : P(k)
        <3>1. CASE B = {}
            <4>1. \A i \in 1..n : ZoneOf(zoneQueue[i]) = "global"
                BY <3>1, Zones
            <4>2. n \in 1..n /\ P(n)
                BY <4>1, <1>1
            <4> QED BY <4>2
        <3>2. CASE B # {}
            <4>1. B \in SUBSET Nat
                OBVIOUS
            <4>2. PICK b \in B : \A i \in B : b <= i
                BY <3>2, <4>1, LeastNumber
            <4>3. b \in 1..n /\ ZoneOf(zoneQueue[b]) = "batch" /\ b # 1
                BY <2>1, <1>1, Zones
            <4>4. ASSUME NEW i \in 1..(b - 1) PROVE ZoneOf(zoneQueue[i]) = "global"
                <5>1. i \in 1..n /\ i \notin B
                    BY <4>2, <4>3, <1>1
                <5> QED BY <5>1, Zones
            <4>5. b - 1 \in 1..n /\ P(b - 1)
                BY <4>3, <4>4, <1>1
            <4> QED BY <4>5
        <3> QED BY <3>1, <3>2
    <2>3. Admitted = CHOOSE k \in 1..n : P(k)
        BY <1>3 DEF Admitted
    <2>4. Admitted \in 1..n /\ P(Admitted)
        BY <2>2, <2>3
    <2> QED BY <2>4, <2>1
<1> QED BY <1>2, <1>3

\* The zone and its queue, well-formed.
ZonesOK ==
    /\ currentZone \in {"none", "global", "batch"}
    /\ IsFiniteSet(frames) /\ frames \subseteq Caller
    /\ zoneQueue \in Seq(Client)
    /\ ZoneOrder

\* withZone keeps the order of zones; nobody enters the zone of a batch.
LEMMA Enters ==
    ASSUME ZonesOK, NEW c \in Client, WithZone(c)
    PROVE  /\ ZonesOK'
           /\ frames \subseteq frames' /\ frames' \subseteq frames \cup {c}
           /\ currentZone = "batch" => frames' = frames /\ currentZone' = "batch"
<1> USE DEF ZonesOK, ZoneOrder
<1>1. c \in Caller
    BY Zones
<1>2. CASE MayEnter(c)
    <2>1. frames' = frames \cup {c} /\ currentZone' = ZoneOf(c) /\ zoneQueue' = zoneQueue
        BY <1>2 DEF WithZone
    <2>2. IsFiniteSet(frames')
        BY <2>1, FS_AddElement
    <2>3. currentZone # "batch"
        BY <1>2, Zones DEF MayEnter
    <2>4. \A b \in frames : ZoneOf(b) = ZoneOf(c)
        BY <1>2, Zones DEF MayEnter
    <2> QED BY <1>1, <2>1, <2>2, <2>3, <2>4, Zones
<1>3. CASE ~MayEnter(c)
    <2>1. frames' = frames /\ currentZone' = currentZone /\ zoneQueue' = Append(zoneQueue, c)
        BY <1>3 DEF WithZone
    <2>2. currentZone # "none"
        BY <1>3 DEF MayEnter
    <2>3. zoneQueue' \in Seq(Client)
        BY <2>1, AppendProperties
    <2> QED BY <2>1, <2>2, <2>3
<1> QED BY <1>2, <1>3

\* #leaveZone keeps the order of zones: only the last one inside changes the
\* zone, and then those inside are callers that waited.
LEMMA Leaves ==
    ASSUME ZonesOK, NEW c \in frames, LeaveZone(c)
    PROVE  /\ ZonesOK'
           /\ \/ frames # {c} /\ frames' = frames \ {c} /\ currentZone' = currentZone
              \/ frames = {c} /\ frames' \subseteq Client
<1> USE DEF ZonesOK, ZoneOrder
<1>1. CASE frames # {c}
    <2>1. frames' = frames \ {c} /\ currentZone' = currentZone /\ zoneQueue' = zoneQueue
        BY <1>1 DEF LeaveZone
    <2>2. IsFiniteSet(frames')
        BY <2>1, FS_RemoveElement
    <2>3. frames' # {}
        BY <1>1, <2>1
    <2> QED BY <1>1, <2>1, <2>2, <2>3
<1>2. CASE frames = {c}
    <2>1. /\ frames' = {zoneQueue[i] : i \in 1..Admitted}
          /\ currentZone' = IF zoneQueue = <<>> THEN "none" ELSE ZoneOf(Head(zoneQueue))
          /\ zoneQueue' = SubSeq(zoneQueue, Admitted + 1, Len(zoneQueue))
        BY <1>2 DEF LeaveZone
    <2>2. CASE zoneQueue = <<>>
        <3>1. Admitted = 0
            BY <2>2 DEF Admitted
        <3>2. frames' = {}
            BY <2>1, <3>1
        <3>3. Len(zoneQueue) = 0
            BY <2>2, EmptySeq
        <3>4. zoneQueue' = <<>>
            BY <2>1, <3>1, <3>3, SubSeqEmpty
        <3>5. IsFiniteSet({})
            BY FS_EmptySet
        <3> QED BY <1>2, <2>1, <2>2, <3>2, <3>4, <3>5, EmptySeq
    <2>3. CASE zoneQueue # <<>>
        <3>1. /\ Admitted \in 1..Len(zoneQueue)
              /\ \A i \in 1..Admitted : ZoneOf(zoneQueue[i]) = ZoneOf(Head(zoneQueue))
            BY <2>3, AdmittedPrefix
        <3>2. Len(zoneQueue) \in Nat
            BY LenProperties
        <3>3. \A i \in 1..Len(zoneQueue) : zoneQueue[i] \in Client
            BY ElementOfSeq
        <3>4. frames' \subseteq Client /\ frames' # {}
            BY <2>1, <3>1, <3>2, <3>3
        <3>5. IsFiniteSet(frames')
            <4> DEFINE f == [i \in 1..Admitted |-> zoneQueue[i]]
            <4>1. f \in Surjection(1..Admitted, frames')
                BY <2>1 DEF Surjection
            <4>2. IsFiniteSet(1..Admitted)
                BY <3>1, <3>2, FS_Interval
            <4> QED BY <4>1, <4>2, FS_Surjection
        <3>6. zoneQueue' \in Seq(Client)
            <4>1. \A i \in (Admitted + 1)..Len(zoneQueue) : zoneQueue[i] \in Client
                BY <3>1, <3>2, <3>3
            <4>2. Admitted + 1 \in Int /\ Len(zoneQueue) \in Int
                BY <3>1, <3>2
            <4> QED BY <2>1, <4>1, <4>2, SubSeqProperties
        <3>7. currentZone' \in {"batch", "global"} /\ \A b \in frames' : ZoneOf(b) = currentZone'
            BY <2>1, <2>3, <3>1, Zones
        <3> QED BY <1>2, <3>4, <3>5, <3>6, <3>7, Zones
    <2> QED BY <2>2, <2>3
<1> QED BY <1>1, <1>2

\* A zone with one caller inside is the top-level zone.
LEMMA TopLevel ==
    ASSUME IsFiniteSet(frames), NEW c \in frames
    PROVE  IsInTopLevelZone <=> frames = {c}
BY FS_Singleton DEF IsInTopLevelZone

-----------------------------------------------------------------------------
(* Items and rows. *)

\* An item of the batch that is marked keeps its envelope.
LEMMA Marked ==
    ASSUME batch \in Seq(Item), NEW i \in DOMAIN batch, NEW x \in ItemAt,
           batch' = [batch EXCEPT ![i].at = x]
    PROVE  /\ batch' \in Seq(Item)
           /\ DOMAIN batch' = DOMAIN batch
           /\ \A j \in DOMAIN batch : /\ batch'[j].id = batch[j].id
                                      /\ batch'[j].att = batch[j].att
                                      /\ batch'[j].at = IF j = i THEN x ELSE batch[j].at
<1> DEFINE e == [batch[i] EXCEPT !.at = x]
<1>1. DOMAIN batch = 1..Len(batch) /\ \A j \in DOMAIN batch : batch[j] \in Item
    BY LenProperties, ElementOfSeq
<1>2. e \in Item /\ e.id = batch[i].id /\ e.att = batch[i].att /\ e.at = x
    BY <1>1 DEF Item
<1>3. batch' = [batch EXCEPT ![i] = e]
    OBVIOUS
<1> HIDE DEF e
<1>4. /\ batch' \in Seq(Item) /\ Len(batch') = Len(batch)
      /\ \A j \in 1..Len(batch) : batch'[j] = IF j = i THEN e ELSE batch[j]
    BY <1>1, <1>2, <1>3, ExceptSeq
<1>5. DOMAIN batch' = 1..Len(batch')
    BY <1>4, LenProperties
<1> QED BY <1>1, <1>2, <1>4, <1>5

\* The envelope of an item.
LEMMA ItemType ==
    ASSUME NEW q \in Seq(Item), NEW i \in DOMAIN q
    PROVE  q[i].id \in Delivery /\ q[i].att \in Nat /\ q[i].at \in ItemAt /\ q[i].id \in Ids(q)
<1>1. q[i] \in Item
    BY LenProperties, ElementOfSeq
<1> QED BY <1>1 DEF Item, Ids

\* What a batch stores: rows of its envelopes, and what was pending before.
LEMMA UnprocessedType ==
    ASSUME batch \in Seq(Item), pendRows \in [Delivery -> Row]
    PROVE  /\ Unprocessed \in [Delivery -> Row]
           /\ \A d \in Delivery : Unprocessed[d] = pendRows[d] \/ d \in Ids(batch)
           /\ \A d \in Delivery :
                 Unprocessed[d].st = IF \E i \in Failed : batch[i].id = d THEN "encrypted"
                                     ELSE IF d \in IdsHaving("plaintext") THEN "plaintext"
                                     ELSE pendRows[d].st
<1>1. ASSUME NEW among \in SUBSET (DOMAIN batch), NEW d, NEW k \in among, batch[k].id = d,
             NEW st \in {"encrypted", "plaintext"}
      PROVE  RowFrom(among, d, st) \in Row /\ RowFrom(among, d, st).st = st
    <2> DEFINE T == {i \in among : batch[i].id = d}
               P(i) == batch[i].id = d /\ \A j \in among : batch[j].id = d => j <= i
    <2>1. Len(batch) \in Nat /\ DOMAIN batch = 1..Len(batch)
        BY LenProperties
    <2>2. T \in SUBSET (1..Len(batch)) /\ T # {}
        BY <1>1, <2>1
    <2> HIDE DEF T
    <2>3. PICK i \in T : \A j \in T : j <= i
        BY <2>1, <2>2, GreatestNumber
    <2>4. i \in among /\ P(i)
        BY <2>3 DEF T
    <2>5. PICK c : c = CHOOSE j \in among : P(j)
        OBVIOUS
    <2>6. c \in among
        BY <2>4, <2>5
    <2>7. batch[c].att \in Nat
        BY <2>6, ItemType
    <2>8. RowFrom(among, d, st) = [st |-> st, att |-> batch[c].att]
        BY <2>5 DEF RowFrom
    <2> QED BY <2>7, <2>8 DEF Row
<1>2. Failed \subseteq DOMAIN batch /\ Having("plaintext") \subseteq DOMAIN batch
    BY DEF Failed, Having
<1>3. ASSUME NEW d \in Delivery
      PROVE  /\ Unprocessed[d] \in Row
             /\ Unprocessed[d] = pendRows[d] \/ d \in Ids(batch)
             /\ Unprocessed[d].st = IF \E i \in Failed : batch[i].id = d THEN "encrypted"
                                    ELSE IF d \in IdsHaving("plaintext") THEN "plaintext"
                                    ELSE pendRows[d].st
    <2>1. CASE \E i \in Failed : batch[i].id = d
        <3>1. PICK i \in Failed : batch[i].id = d
            BY <2>1
        <3>2. Unprocessed[d] = RowFrom(Failed, d, "encrypted")
            BY <2>1 DEF Unprocessed
        <3>3. d \in Ids(batch)
            BY <3>1, <1>2 DEF Ids
        <3> QED BY <2>1, <3>1, <3>2, <3>3, <1>1, <1>2
    <2>2. CASE ~(\E i \in Failed : batch[i].id = d) /\ d \in IdsHaving("plaintext")
        <3>1. PICK i \in Having("plaintext") : batch[i].id = d
            BY <2>2 DEF IdsHaving
        <3>2. Unprocessed[d] = RowFrom(Having("plaintext"), d, "plaintext")
            BY <2>2 DEF Unprocessed
        <3>3. d \in Ids(batch)
            BY <3>1, <1>2 DEF Ids
        <3> QED BY <2>2, <3>1, <3>2, <3>3, <1>1, <1>2
    <2>3. CASE ~(\E i \in Failed : batch[i].id = d) /\ d \notin IdsHaving("plaintext")
        BY <2>3 DEF Unprocessed
    <2> QED BY <2>1, <2>2, <2>3
<1>4. Unprocessed = [d \in Delivery |-> Unprocessed[d]]
    BY DEF Unprocessed
<1> QED BY <1>3, <1>4

\* Kicking off a batch splits the batcher.
LEMMA Split ==
    ASSUME batcher \in Seq(Item), NEW n \in 1..Len(batcher)
    PROVE  LET b == SubSeq(batcher, 1, n)
               r == SubSeq(batcher, n + 1, Len(batcher))
           IN  /\ b \in Seq(Item) /\ r \in Seq(Item)
               /\ \A i \in DOMAIN b : \E j \in DOMAIN batcher : b[i] = batcher[j]
               /\ \A i \in DOMAIN r : \E j \in DOMAIN batcher : r[i] = batcher[j]
               /\ Ids(b) \cup Ids(r) \subseteq Ids(batcher)
<1> DEFINE b == SubSeq(batcher, 1, n)
           r == SubSeq(batcher, n + 1, Len(batcher))
<1>1. Len(batcher) \in Nat /\ DOMAIN batcher = 1..Len(batcher)
    BY LenProperties
<1>2. \A i \in 1..Len(batcher) : batcher[i] \in Item
    BY ElementOfSeq
<1>3. /\ b \in Seq(Item) /\ Len(b) = n
      /\ \A i \in 1..n : b[i] = batcher[i]
    <2>1. /\ b \in Seq(Item)
          /\ Len(b) = IF 1 <= n THEN n - 1 + 1 ELSE 0
          /\ \A i \in 1..(n - 1 + 1) : b[i] = batcher[1 + i - 1]
        BY <1>1, <1>2, SubSeqProperties
    <2> HIDE DEF b
    <2> QED BY <2>1, <1>1
<1>4. /\ r \in Seq(Item) /\ Len(r) = Len(batcher) - n
      /\ \A i \in 1..(Len(batcher) - n) : r[i] = batcher[n + i]
    <2>1. \A i \in (n + 1)..Len(batcher) : batcher[i] \in Item
        BY <1>1, <1>2
    <2>2. /\ r \in Seq(Item)
          /\ Len(r) = IF n + 1 <= Len(batcher) THEN Len(batcher) - (n + 1) + 1 ELSE 0
          /\ \A i \in 1..(Len(batcher) - (n + 1) + 1) : r[i] = batcher[(n + 1) + i - 1]
        BY <1>1, <2>1, SubSeqProperties
    <2> HIDE DEF r
    <2>3. Len(r) = Len(batcher) - n
        <3>1. \A L \in Nat : \A k \in 1..L :
                 (IF k + 1 <= L THEN L - (k + 1) + 1 ELSE 0) = L - k
            OBVIOUS
        <3> QED BY <2>2, <3>1, <1>1
    <2>4. ASSUME NEW i \in 1..(Len(batcher) - n) PROVE r[i] = batcher[n + i]
        <3>1. i \in 1..(Len(batcher) - (n + 1) + 1) /\ (n + 1) + i - 1 = n + i
            BY <1>1
        <3> QED BY <2>2, <3>1
    <2> QED BY <2>2, <2>3, <2>4
<1> HIDE DEF b, r
<1>5. DOMAIN b = 1..Len(b) /\ DOMAIN r = 1..Len(r)
    BY <1>3, <1>4, LenProperties
<1>6. \A i \in DOMAIN b : \E j \in DOMAIN batcher : b[i] = batcher[j]
    BY <1>1, <1>3, <1>5
<1>7. \A i \in DOMAIN r : \E j \in DOMAIN batcher : r[i] = batcher[j]
    <2>1. ASSUME NEW i \in DOMAIN r PROVE n + i \in DOMAIN batcher /\ r[i] = batcher[n + i]
        BY <1>1, <1>4, <1>5
    <2> QED BY <2>1
<1>8. Ids(b) \cup Ids(r) \subseteq Ids(batcher)
    BY <1>6, <1>7 DEF Ids
<1> QED BY <1>3, <1>4, <1>6, <1>7, <1>8 DEF b, r

\* Rows that are read go behind the items of the batcher.
LEMMA Reread ==
    ASSUME batcher \in Seq(Item), rows \in [Delivery -> Row], NEW S \in SUBSET Delivery,
           IsFiniteSet(S), NEW q \in Ordering(S)
    PROVE  LET r == [i \in DOMAIN q |->
                        [id |-> q[i], att |-> rows[q[i]].att + 1, at |-> "todo"]]
           IN  /\ batcher \o r \in Seq(Item)
               /\ \A i \in DOMAIN (batcher \o r) :
                     \/ \E j \in DOMAIN batcher : (batcher \o r)[i] = batcher[j]
                     \/ /\ (batcher \o r)[i].id \in S
                        /\ (batcher \o r)[i].at = "todo"
                        /\ (batcher \o r)[i].att # 0
               /\ Ids(batcher \o r) \subseteq Ids(batcher) \cup S
<1> DEFINE r == [i \in DOMAIN q |->
                    [id |-> q[i], att |-> rows[q[i]].att + 1, at |-> "todo"]]
           k == Cardinality(S)
<1>1. k \in Nat
    BY FS_CardinalityType
<1>2. q \in [1..k -> S] /\ DOMAIN q = 1..k
    BY DEF Ordering
<1>3. \A i \in 1..k : /\ r[i] \in Item /\ r[i].id \in S /\ r[i].at = "todo"
                      /\ r[i].att # 0
    <2> TAKE i \in 1..k
    <2>1. q[i] \in S /\ q[i] \in Delivery
        BY <1>2
    <2>2. rows[q[i]].att \in Nat
        BY <2>1 DEF Row
    <2>3. r[i] = [id |-> q[i], att |-> rows[q[i]].att + 1, at |-> "todo"]
        BY <1>2
    <2> QED BY <2>1, <2>2, <2>3 DEF Item, ItemAt
<1>4. r \in [1..k -> Item]
    <2>1. DOMAIN r = 1..k /\ r = [i \in 1..k |-> r[i]]
        BY <1>2
    <2> QED BY <2>1, <1>3
<1> HIDE DEF r
<1>5. r \in Seq(Item) /\ Len(r) = k
    BY <1>1, <1>4
<1> HIDE DEF k
<1>6. /\ batcher \o r \in Seq(Item)
      /\ Len(batcher \o r) = Len(batcher) + Len(r)
      /\ \A i \in 1..(Len(batcher) + Len(r)) : (batcher \o r)[i] =
             IF i <= Len(batcher) THEN batcher[i] ELSE r[i - Len(batcher)]
    BY <1>5, ConcatProperties
<1>7. DOMAIN (batcher \o r) = 1..Len(batcher \o r)
    BY <1>6, LenProperties
<1>8. Len(batcher) \in Nat /\ DOMAIN batcher = 1..Len(batcher)
    BY LenProperties
<1>9. \A i \in DOMAIN (batcher \o r) :
         \/ \E j \in DOMAIN batcher : (batcher \o r)[i] = batcher[j]
         \/ /\ (batcher \o r)[i].id \in S
            /\ (batcher \o r)[i].at = "todo"
            /\ (batcher \o r)[i].att # 0
    <2> TAKE i \in DOMAIN (batcher \o r)
    <2>1. CASE i <= Len(batcher)
        BY <2>1, <1>6, <1>7, <1>8
    <2>2. CASE ~(i <= Len(batcher))
        <3>1. i - Len(batcher) \in 1..k
            BY <2>2, <1>5, <1>6, <1>7, <1>8
        <3>2. (batcher \o r)[i] = r[i - Len(batcher)]
            BY <2>2, <1>6, <1>7
        <3> QED BY <3>1, <3>2, <1>3
    <2> QED BY <2>1, <2>2
<1>10. Ids(batcher \o r) \subseteq Ids(batcher) \cup S
    BY <1>9 DEF Ids
<1> QED BY <1>6, <1>9, <1>10 DEF r

-----------------------------------------------------------------------------
(* Types. *)

\* The types of everything but the zone.
DataOK ==
    /\ pendSess \in [Address -> SUBSET Step]
    /\ pendRows \in [Delivery -> Row]
    /\ sessions \in [Address -> SUBSET Step]
    /\ rows \in [Delivery -> Row]
    /\ batcher \in Seq(Item)
    /\ batch \in Seq(Item)
    /\ batchAt \in {"idle", "body", "committed"}
    /\ loaded \in [Delivery \cup Send -> SUBSET Step]
    /\ sendAt \in [Send -> {"new", "queued", "loaded", "stored", "sent", "failed"}]
    /\ toHandle \subseteq Delivery
    /\ toReport \subseteq Delivery
    /\ removing \subseteq Delivery
    /\ removal \subseteq Delivery
    /\ passWanted \in BOOLEAN
    /\ passIds \subseteq Delivery
    /\ stopping \in BOOLEAN
    /\ delivered \subseteq Delivery
    /\ acked \subseteq Message
    /\ settled \subseteq Message
    /\ overlapped \in BOOLEAN
    /\ upsets \in Nat

\* Everything that is queued or stored came in at some time; so far that is a
\* finite number of envelopes.
DeliveredOK ==
    /\ IsFiniteSet(delivered)
    /\ \A d \in Delivery : rows[d] # NoRow \/ pendRows[d] # NoRow => d \in delivered
    /\ Ids(batcher) \cup Ids(batch) \cup passIds \subseteq delivered

\* The two parts are the type invariant.
LEMMA TypeParts == ASSUME DataOK, ZonesOK PROVE TypeOK
<1>1. zoneQueue \in Seq(Caller)
    BY Zones, SeqMonotonic DEF ZonesOK
<1> QED BY <1>1 DEF DataOK, ZonesOK, TypeOK, StoreTypeOK

\* Empty values.
LEMMA Empties ==
    /\ NoRow \in Row
    /\ [a \in Address |-> {}] \in [Address -> SUBSET Step]
    /\ [d \in Delivery |-> NoRow] \in [Delivery -> Row]
    /\ <<>> \in Seq(Item) /\ Ids(<<>>) = {}
    /\ \A d \in Delivery : MsgOf[d] \in Message /\ AddressOf(d) \in Address
    /\ \A s \in Send : PeerOf[s] \in Address
BY DataAssumption DEF Row, NoRow, Ids, AddressOf

\* The initial state is well-typed.
LEMMA TypeInit == Init => DataOK /\ DeliveredOK
<1> SUFFICES ASSUME Init PROVE DataOK /\ DeliveredOK
    OBVIOUS
<1> USE DEF Init, StoreInit
<1>1. rows \in [Delivery -> Row] /\ \A d \in Delivery \ Leftover : rows[d] = NoRow
    BY DEF Row, NoRow
<1>2. sessions \in [Address -> SUBSET Step]
    BY DEF Step
<1>3. delivered \in SUBSET Leftover
    BY <1>1
<1>4. IsFiniteSet(delivered)
    BY <1>3, DataAssumption, FS_Subset
<1>5. acked \subseteq Message
    BY Empties
<1>6. DataOK
    BY <1>1, <1>2, <1>5, Empties DEF DataOK
<1>7. DeliveredOK
    BY <1>1, <1>4, Empties DEF DeliveredOK
<1> QED BY <1>6, <1>7

\* A commit writes well-typed rows and sessions.
LEMMA CommitType ==
    ASSUME DataOK, NEW sess \in [Address -> SUBSET Step], NEW r \in [Delivery -> Row],
           CommitDecryptResult(sess, r)
    PROVE  /\ sessions' \in [Address -> SUBSET Step]
           /\ rows' \in [Delivery -> Row]
           /\ \A d \in Delivery : rows'[d] = rows[d] \/ (rows'[d] = r[d] /\ r[d] # NoRow)
           /\ \A a \in Address : sessions'[a] = IF sess[a] # {} THEN sess[a] ELSE sessions[a]
BY DEF DataOK, CommitDecryptResult

\* What a decryption stores is well-typed.
LEMMA StoredType ==
    ASSUME DataOK, NEW d \in Delivery
    PROVE  /\ Stored(d) \in [Address -> SUBSET Step]
           /\ Stored(d)[AddressOf(d)] = loaded[d] \cup {MsgOf[d]}
           /\ \A a \in Address : a # AddressOf(d) => Stored(d)[a] = pendSess[a]
BY Empties DEF DataOK, Stored, Step

\* The steps of a batch keep the types.
LEMMA TypeBatch ==
    ASSUME DataOK, DeliveredOK, BatchStep
    PROVE  DataOK' /\ DeliveredOK'
<1> USE DEF storeVars, zoneVars, pendVars, tableVars, batchVars, outVars, passVars, historyVars
<1>1. ASSUME NEW n \in 1..Len(batcher), KickBatch(n) PROVE DataOK' /\ DeliveredOK'
    <2>1. /\ batch' = SubSeq(batcher, 1, n)
          /\ batcher' = SubSeq(batcher, n + 1, Len(batcher))
          /\ batchAt' = "body"
          /\ UNCHANGED <<pendVars, tableVars, loaded, sendAt, outVars, passVars,
                         historyVars, upsets>>
        BY <1>1 DEF KickBatch
    <2>2. batch' \in Seq(Item) /\ batcher' \in Seq(Item)
          /\ Ids(batch') \cup Ids(batcher') \subseteq Ids(batcher)
        BY <2>1, Split DEF DataOK
    <2>3. Ids(batch)' = Ids(batch') /\ Ids(batcher)' = Ids(batcher')
        BY DEF Ids
    <2> QED BY <2>1, <2>2, <2>3 DEF DataOK, DeliveredOK
<1>2. ASSUME NEW i \in DOMAIN batch, NEW x \in ItemAt, batch' = [batch EXCEPT ![i].at = x]
      PROVE  batch' \in Seq(Item) /\ Ids(batch)' = Ids(batch)
    <2>1. /\ batch' \in Seq(Item) /\ DOMAIN batch' = DOMAIN batch
          /\ \A j \in DOMAIN batch : batch'[j].id = batch[j].id
        BY <1>2, Marked DEF DataOK
    <2> QED BY <2>1 DEF Ids
<1>3. ASSUME NEW i \in DOMAIN batch, DecryptRefused(i) PROVE DataOK' /\ DeliveredOK'
    <2>1. batch' \in Seq(Item) /\ Ids(batch)' = Ids(batch)
        BY <1>2, <1>3 DEF DecryptRefused, ItemAt
    <2>2. Ids(batcher)' = Ids(batcher)
        BY <1>3 DEF DecryptRefused, Ids
    <2> QED BY <1>3, <2>1, <2>2 DEF DecryptRefused, DataOK, DeliveredOK
<1>4. ASSUME NEW i \in DOMAIN batch, DecryptLoads(i) PROVE DataOK' /\ DeliveredOK'
    <2>1. batch' \in Seq(Item) /\ Ids(batch)' = Ids(batch)
        BY <1>2, <1>4 DEF DecryptLoads, ItemAt
    <2>2. Ids(batcher)' = Ids(batcher)
        BY <1>4 DEF DecryptLoads, Ids
    <2>3. batch[i].id \in Delivery
        BY ItemType DEF DataOK
    <2>4. LoadSession(AddressOf(batch[i].id)) \in SUBSET Step
        BY <2>3, Empties DEF DataOK, LoadSession
    <2>5. loaded' \in [Delivery \cup Send -> SUBSET Step]
        BY <1>4, <2>3, <2>4 DEF DecryptLoads, DataOK
    <2> QED BY <1>4, <2>1, <2>2, <2>5 DEF DecryptLoads, DataOK, DeliveredOK
<1>5. ASSUME NEW i \in DOMAIN batch, NEW x \in ItemAt, DecryptThrows(i, x)
      PROVE  DataOK' /\ DeliveredOK'
    <2>1. batch' \in Seq(Item) /\ Ids(batch)' = Ids(batch)
        BY <1>2, <1>5 DEF DecryptThrows
    <2>2. Ids(batcher)' = Ids(batcher)
        BY <1>5 DEF DecryptThrows, Ids
    <2>3. batch[i].id \in Delivery
        BY ItemType DEF DataOK
    <2>4. loaded' \in [Delivery \cup Send -> SUBSET Step]
        BY <1>5, <2>3 DEF DecryptThrows, DataOK
    <2>5. removing' \subseteq Delivery /\ toReport' \subseteq Delivery
        BY <1>5, <2>3 DEF DecryptThrows, Thrown, DataOK
    <2> QED BY <1>5, <2>1, <2>2, <2>4, <2>5 DEF DecryptThrows, DataOK, DeliveredOK
<1>6. ASSUME NEW i \in DOMAIN batch, NEW x \in ItemAt, DecryptSucceeds(i, x)
      PROVE  DataOK' /\ DeliveredOK'
    <2>1. batch' \in Seq(Item) /\ Ids(batch)' = Ids(batch)
        BY <1>2, <1>6 DEF DecryptSucceeds
    <2>2. Ids(batcher)' = Ids(batcher)
        BY <1>6 DEF DecryptSucceeds, Ids
    <2>3. batch[i].id \in Delivery
        BY ItemType DEF DataOK
    <2>4. loaded' \in [Delivery \cup Send -> SUBSET Step]
        BY <1>6, <2>3 DEF DecryptSucceeds, DataOK
    <2>5. removing' \subseteq Delivery /\ toReport' \subseteq Delivery
        BY <1>6, <2>3 DEF DecryptSucceeds, Decrypted, DataOK
    <2>6. pendSess' \in [Address -> SUBSET Step]
        BY <1>6, <2>3, StoredType DEF DecryptSucceeds
    <2> QED BY <1>6, <2>1, <2>2, <2>4, <2>5, <2>6 DEF DecryptSucceeds, DataOK, DeliveredOK
<1>7. CASE BatchCommits
    <2>1. /\ Unprocessed \in [Delivery -> Row]
          /\ \A d \in Delivery : Unprocessed[d] = pendRows[d] \/ d \in Ids(batch)
        BY UnprocessedType DEF DataOK
    <2>2. pendSess \in [Address -> SUBSET Step]
        BY DEF DataOK
    <2>3. /\ sessions' \in [Address -> SUBSET Step]
          /\ rows' \in [Delivery -> Row]
          /\ \A d \in Delivery : \/ rows'[d] = rows[d]
                                 \/ rows'[d] = Unprocessed[d] /\ Unprocessed[d] # NoRow
        BY <1>7, <2>1, <2>2, CommitType DEF BatchCommits
    <2>4. settled' \subseteq Message
        <3>1. IdsHaving("dropped") \cup IdsHaving("rejected") \subseteq Delivery
            BY ItemType DEF DataOK, IdsHaving, Having
        <3> QED BY <1>7, <3>1, Empties DEF BatchCommits, DataOK
    <2>5. Ids(batch)' = Ids(batch) /\ Ids(batcher)' = Ids(batcher)
        BY <1>7 DEF BatchCommits, Ids
    <2>6. DataOK'
        BY <1>7, <2>3, <2>4, Empties DEF BatchCommits, ForgetPending, DataOK
    <2>7. \A d \in Delivery : rows'[d] # NoRow \/ pendRows'[d] # NoRow => d \in delivered
        BY <1>7, <2>1, <2>3 DEF BatchCommits, ForgetPending, DeliveredOK
    <2> QED BY <1>7, <2>5, <2>6, <2>7 DEF BatchCommits, DeliveredOK
<1>8. ASSUME Acknowledge
      PROVE  /\ batch' = <<>> /\ batchAt' = "idle" /\ Ids(batch)' = {}
             /\ acked' \subseteq Message /\ toHandle' \subseteq Delivery
    <2>1. IdsHaving("plaintext") \subseteq Delivery
        BY ItemType DEF DataOK, IdsHaving, Having
    <2>2. Answered \subseteq Message
        BY ItemType, Empties DEF DataOK, Answered
    <2>3. Ids(batch)' = {}
        BY <1>8 DEF Acknowledge, Ids
    <2> QED BY <1>8, <2>1, <2>2, <2>3 DEF Acknowledge, DataOK
<1>9. CASE BatchLeavesPending
    <2>1. /\ Unprocessed \in [Delivery -> Row]
          /\ \A d \in Delivery : Unprocessed[d] = pendRows[d] \/ d \in Ids(batch)
        BY UnprocessedType DEF DataOK
    <2>2. Ids(batcher)' = Ids(batcher)
        BY <1>9 DEF BatchLeavesPending, Ids
    <2>3. DataOK'
        BY <1>8, <1>9, <2>1, Empties DEF BatchLeavesPending, DataOK
    <2>4. \A d \in Delivery : rows'[d] # NoRow \/ pendRows'[d] # NoRow => d \in delivered
        BY <1>9, <2>1 DEF BatchLeavesPending, DeliveredOK
    <2> QED BY <1>8, <1>9, <2>2, <2>3, <2>4 DEF BatchLeavesPending, DeliveredOK
<1>10. CASE BatchAcknowledges
    <2>1. Ids(batcher)' = Ids(batcher)
        BY <1>10 DEF BatchAcknowledges, Ids
    <2> QED BY <1>8, <1>10, <2>1, Empties DEF BatchAcknowledges, DataOK, DeliveredOK
<1> QED BY <1>1, <1>3, <1>4, <1>5, <1>6, <1>7, <1>9, <1>10 DEF BatchStep

\* The end of a late decryption keeps the types.
LEMMA TypeLate ==
    ASSUME DataOK, DeliveredOK, NEW d \in Delivery, LateDecryption(d)
    PROVE  DataOK' /\ DeliveredOK'
<1> USE DEF storeVars, zoneVars, pendVars, tableVars, batchVars, outVars, passVars, historyVars
<1>1. Ids(batch)' = Ids(batch) /\ Ids(batcher)' = Ids(batcher)
    BY DEF LateDecryption, Ids
<1>2. removing' \subseteq Delivery /\ toReport' \subseteq Delivery
    BY DEF LateDecryption, LateSuccess, LateThrow, Decrypted, Thrown, DataOK
<1>3. loaded' \in [Delivery \cup Send -> SUBSET Step]
    BY DEF LateDecryption, DataOK
<1>4. /\ pendSess' \in [Address -> SUBSET Step] /\ pendRows' \in [Delivery -> Row]
      /\ sessions' \in [Address -> SUBSET Step] /\ rows' \in [Delivery -> Row]
      /\ \A e \in Delivery : rows'[e] # NoRow \/ pendRows'[e] # NoRow => e \in delivered
    <2>1. CASE CommitDecryptResult(Stored(d), pendRows) /\ ForgetPending
        <3>1. pendRows \in [Delivery -> Row]
            BY DEF DataOK
        <3>2. /\ sessions' \in [Address -> SUBSET Step]
              /\ rows' \in [Delivery -> Row]
              /\ \A e \in Delivery : \/ rows'[e] = rows[e]
                                     \/ rows'[e] = pendRows[e] /\ pendRows[e] # NoRow
            BY <2>1, <3>1, StoredType, CommitType
        <3> QED BY <2>1, <3>2, Empties DEF ForgetPending, DeliveredOK
    <2>2. CASE pendSess' = Stored(d) /\ UNCHANGED <<tableVars, pendRows>>
        BY <2>2, StoredType DEF DataOK, DeliveredOK
    <2>3. CASE ForgetPending /\ UNCHANGED tableVars
        BY <2>3, Empties DEF ForgetPending, DataOK, DeliveredOK
    <2>4. CASE UNCHANGED <<pendVars, tableVars>>
        BY <2>4 DEF DataOK, DeliveredOK
    <2> QED BY <2>1, <2>2, <2>3, <2>4 DEF LateDecryption, LateSuccess, LateThrow
<1> QED BY <1>1, <1>2, <1>3, <1>4 DEF LateDecryption, DataOK, DeliveredOK

\* Handling, removal and the passes over stored rows keep the types.
LEMMA TypeCache ==
    ASSUME DataOK, DeliveredOK, CacheStep
    PROVE  DataOK' /\ DeliveredOK'
<1> USE DEF storeVars, zoneVars, pendVars, tableVars, batchVars, outVars, passVars, historyVars
<1>1. ASSUME UNCHANGED <<batch, batcher>>
      PROVE  Ids(batch)' = Ids(batch) /\ Ids(batcher)' = Ids(batcher)
    BY <1>1 DEF Ids
<1>2. ASSUME NEW d \in Delivery, Handle(d) PROVE DataOK' /\ DeliveredOK'
    <2>1. settled' \subseteq Message /\ removing' \subseteq Delivery
        <3>1. CASE stopping
            BY <1>2, <3>1 DEF Handle, DataOK
        <3>2. CASE ~stopping
            BY <1>2, <3>2, Empties DEF Handle, DataOK
        <3> QED BY <3>1, <3>2
    <2> QED BY <1>1, <1>2, <2>1 DEF Handle, DataOK, DeliveredOK
<1>3. ASSUME NEW d \in Delivery, Report(d) PROVE DataOK' /\ DeliveredOK'
    BY <1>1, <1>3, Empties DEF Report, DataOK, DeliveredOK
<1>4. CASE KickRemoval
    BY <1>1, <1>4 DEF KickRemoval, DataOK, DeliveredOK
<1>5. CASE RemoveUnprocessed
    <2>1. rows' \in [Delivery -> Row] /\ \A d \in Delivery : rows'[d] \in {NoRow, rows[d]}
        BY <1>5, Empties DEF RemoveUnprocessed, DataOK
    <2> QED BY <1>1, <1>5, <2>1 DEF RemoveUnprocessed, DataOK, DeliveredOK
<1>6. CASE QueueAllCached
    BY <1>1, <1>6 DEF QueueAllCached, DataOK, DeliveredOK
<1>7. CASE GetAllUnprocessedIds
    <2>1. rows' \in [Delivery -> Row] /\ \A d \in Delivery : rows'[d] \in {NoRow, rows[d]}
        BY <1>7, Empties DEF GetAllUnprocessedIds, DataOK
    <2>2. settled' \subseteq Message
        BY <1>7, Empties DEF GetAllUnprocessedIds, Exhausted, DataOK
    <2>3. passIds' \subseteq delivered
        BY <1>7 DEF GetAllUnprocessedIds, DeliveredOK, NoRow
    <2> QED BY <1>1, <1>7, <2>1, <2>2, <2>3 DEF GetAllUnprocessedIds, DataOK, DeliveredOK
<1>8. CASE AskForRows
    BY <1>1, <1>8 DEF AskForRows, DataOK, DeliveredOK
<1>9. ASSUME NEW q \in Ordering(Listed("encrypted")), ReadCached(q) PROVE DataOK' /\ DeliveredOK'
    <2> DEFINE S == Listed("encrypted")
               r == [i \in DOMAIN q |->
                        [id |-> q[i], att |-> rows[q[i]].att + 1, at |-> "todo"]]
    <2>1. S \subseteq passIds /\ S \subseteq delivered /\ S \in SUBSET Delivery
        BY DEF Listed, DeliveredOK, DataOK
    <2>2. IsFiniteSet(S)
        BY <2>1, FS_Subset DEF DeliveredOK
    <2>3. batcher' = batcher \o r
        BY <1>9 DEF ReadCached
    <2>4. batcher' \in Seq(Item) /\ Ids(batcher') \subseteq Ids(batcher) \cup S
        BY <2>1, <2>2, <2>3, Reread DEF DataOK
    <2>5. rows' \in [Delivery -> Row] /\ \A d \in Delivery : rows[d] = NoRow => rows'[d] = NoRow
        <3>1. ASSUME NEW d \in Delivery, rows[d] \in Row PROVE [rows[d] EXCEPT !.att = @ + 1] \in Row
            BY <3>1 DEF Row
        <3> QED BY <1>9, <3>1 DEF ReadCached, DataOK, NoRow
    <2>6. toHandle' \subseteq Delivery /\ overlapped' \in BOOLEAN
        BY <1>9 DEF ReadCached, Listed, DataOK
    <2>7. Ids(batcher)' = Ids(batcher') /\ Ids(batch)' = Ids(batch)
        BY <1>9 DEF ReadCached, Ids
    <2> HIDE DEF S, r
    <2>8. DataOK'
        BY <1>9, <2>4, <2>5, <2>6 DEF ReadCached, DataOK
    <2> QED BY <1>9, <2>1, <2>4, <2>5, <2>7, <2>8 DEF ReadCached, DeliveredOK
<1> QED BY <1>2, <1>3, <1>4, <1>5, <1>6, <1>7, <1>8, <1>9 DEF CacheStep

\* The senders keep the types.
LEMMA TypeSend ==
    ASSUME DataOK, DeliveredOK, NEW s \in Send,
           SendStep(s) \/ SendBegins(s) \/ SendFails(s)
    PROVE  DataOK' /\ DeliveredOK'
<1> USE DEF storeVars, zoneVars, pendVars, tableVars, batchVars, outVars, passVars, historyVars
<1>1. Ids(batch)' = Ids(batch) /\ Ids(batcher)' = Ids(batcher)
    BY DEF SendStep, SendLoads, SendStores, SendTransmits, SendBegins, SendFails, Ids
<1>2. CASE SendLoads(s)
    <2>1. LoadSession(PeerOf[s]) \in SUBSET Step
        BY Empties DEF DataOK, LoadSession
    <2>2. loaded' \in [Delivery \cup Send -> SUBSET Step]
        BY <1>2, <2>1 DEF SendLoads, DataOK
    <2> QED BY <1>1, <1>2, <2>2 DEF SendLoads, DataOK, DeliveredOK
<1>3. CASE SendStores(s)
    <2> DEFINE sess == [pendSess EXCEPT ![PeerOf[s]] = loaded[s] \cup {s}]
    <2>1. sess \in [Address -> SUBSET Step] /\ pendRows \in [Delivery -> Row]
        BY Empties DEF DataOK, Step
    <2>2. CommitDecryptResult(sess, pendRows)
        BY <1>3 DEF SendStores
    <2> HIDE DEF sess
    <2>3. /\ sessions' \in [Address -> SUBSET Step]
          /\ rows' \in [Delivery -> Row]
          /\ \A e \in Delivery : \/ rows'[e] = rows[e]
                                 \/ rows'[e] = pendRows[e] /\ pendRows[e] # NoRow
        BY <2>1, <2>2, CommitType
    <2>4. loaded' \in [Delivery \cup Send -> SUBSET Step]
        BY <1>3 DEF SendStores, DataOK
    <2>5. DataOK'
        BY <1>3, <2>3, <2>4, Empties DEF SendStores, ForgetPending, DataOK
    <2>6. \A e \in Delivery : rows'[e] # NoRow \/ pendRows'[e] # NoRow => e \in delivered
        BY <1>3, <2>3 DEF SendStores, ForgetPending, DeliveredOK
    <2> QED BY <1>1, <1>3, <2>5, <2>6 DEF SendStores, DeliveredOK
<1>4. CASE SendTransmits(s)
    BY <1>1, <1>4 DEF SendTransmits, DataOK, DeliveredOK
<1>5. CASE SendBegins(s)
    BY <1>1, <1>5 DEF SendBegins, DataOK, DeliveredOK
<1>6. CASE SendFails(s)
    <2>1. loaded' \in [Delivery \cup Send -> SUBSET Step]
        BY <1>6 DEF SendFails, DataOK
    <2> QED BY <1>1, <1>6, <2>1, Empties DEF SendFails, ForgetPending, Upset, DataOK, DeliveredOK
<1> QED BY <1>2, <1>3, <1>4, <1>5, <1>6 DEF SendStep

\* What comes from outside keeps the types.
LEMMA TypeEnvironment ==
    ASSUME DataOK, DeliveredOK, Environment
    PROVE  DataOK' /\ DeliveredOK'
<1> USE DEF storeVars, zoneVars, pendVars, tableVars, batchVars, outVars, passVars, historyVars
<1>1. ASSUME UNCHANGED <<batch, batcher>>
      PROVE  Ids(batch)' = Ids(batch) /\ Ids(batcher)' = Ids(batcher)
    BY <1>1 DEF Ids
<1>2. ASSUME NEW d \in Delivery, HandleRequest(d) PROVE DataOK' /\ DeliveredOK'
    <2> DEFINE e == [id |-> d, att |-> 0, at |-> "todo"]
    <2>1. e \in Item /\ e.id = d
        BY DEF Item, ItemAt
    <2>2. batcher' = Append(batcher, e)
        BY <1>2 DEF HandleRequest
    <2> HIDE DEF e
    <2>3. /\ batcher' \in Seq(Item) /\ Len(batcher') = Len(batcher) + 1
          /\ \A i \in 1..Len(batcher) : batcher'[i] = batcher[i]
          /\ batcher'[Len(batcher) + 1] = e
        BY <2>1, <2>2, AppendProperties DEF DataOK
    <2>4. /\ DOMAIN batcher' = 1..Len(batcher') /\ DOMAIN batcher = 1..Len(batcher)
          /\ Len(batcher) \in Nat
        BY <2>3, LenProperties DEF DataOK
    <2>5. Ids(batcher)' \subseteq Ids(batcher) \cup {d}
        BY <2>1, <2>3, <2>4 DEF Ids
    <2>6. IsFiniteSet(delivered')
        BY <1>2, FS_AddElement DEF HandleRequest, DeliveredOK
    <2>7. Ids(batch)' = Ids(batch)
        BY <1>2 DEF HandleRequest, Ids
    <2>8. DataOK'
        BY <1>2, <2>3 DEF HandleRequest, DataOK
    <2> QED BY <1>2, <2>5, <2>6, <2>7, <2>8 DEF HandleRequest, DeliveredOK
<1>3. ASSUME NEW i \in DOMAIN batch, DecryptTimesOut(i) PROVE DataOK' /\ DeliveredOK'
    <2>1. /\ batch' \in Seq(Item) /\ DOMAIN batch' = DOMAIN batch
          /\ \A j \in DOMAIN batch : batch'[j].id = batch[j].id
        BY <1>3, Marked DEF DataOK, DecryptTimesOut, ItemAt
    <2>2. Ids(batch)' = Ids(batch) /\ Ids(batcher)' = Ids(batcher)
        BY <1>3, <2>1 DEF DecryptTimesOut, Ids
    <2> QED BY <1>3, <2>1, <2>2 DEF DecryptTimesOut, Upset, DataOK, DeliveredOK
<1>4. CASE BatchCommitFails
    <2>1. Ids(batch)' = {} /\ Ids(batcher)' = Ids(batcher)
        BY <1>4 DEF BatchCommitFails, Ids
    <2> QED BY <1>4, <2>1, Empties DEF BatchCommitFails, ForgetPending, Upset, DataOK, DeliveredOK
<1>5. CASE StopProcessing
    BY <1>1, <1>5 DEF StopProcessing, Upset, DataOK, DeliveredOK
<1>6. CASE StartProcessingQueue
    <2>1. upsets' \in Nat
        <3>1. CASE stopping
            BY <1>6, <3>1 DEF StartProcessingQueue, DataOK
        <3>2. CASE ~stopping
            BY <1>6, <3>2 DEF StartProcessingQueue, Upset, DataOK
        <3> QED BY <3>1, <3>2
    <2> QED BY <1>1, <1>6, <2>1 DEF StartProcessingQueue, DataOK, DeliveredOK
<1>7. CASE RetryTimeout
    BY <1>1, <1>7 DEF RetryTimeout, Upset, DataOK, DeliveredOK
<1>8. CASE Restart
    <2>1. Ids(batch)' = {} /\ Ids(batcher)' = {}
        BY <1>8 DEF Restart, Ids
    <2>2. loaded' \in [Delivery \cup Send -> SUBSET Step]
        BY <1>8 DEF Restart
    <2>3. upsets' \in Nat
        BY <1>8 DEF Restart, Upset, DataOK
    <2>4. DataOK'
        BY <1>8, <2>2, <2>3, Empties DEF Restart, ForgetPending, DataOK
    <2> QED BY <1>8, <2>1, <2>4 DEF Restart, ForgetPending, DeliveredOK
<1> QED BY <1>2, <1>3, <1>4, <1>5, <1>6, <1>7, <1>8, TypeSend DEF Environment

\* Every step keeps the types.
LEMMA TypeNext ==
    ASSUME DataOK, DeliveredOK, [Next]_vars
    PROVE  DataOK' /\ DeliveredOK'
<1>1. CASE Next
    BY <1>1, TypeBatch, TypeLate, TypeCache, TypeSend, TypeEnvironment DEF Next, Internal
<1>2. CASE UNCHANGED vars
    <2>1. Ids(batch)' = Ids(batch) /\ Ids(batcher)' = Ids(batcher)
        BY <1>2 DEF vars, batchVars, Ids
    <2> QED BY <1>2, <2>1 DEF vars, storeVars, batchVars, outVars, passVars, historyVars, DataOK, DeliveredOK
<1> QED BY <1>1, <1>2

-----------------------------------------------------------------------------
(* Who is inside. *)

NonePending ==
    /\ \A a \in Address : pendSess[a] = {}
    /\ \A d \in Delivery : pendRows[d] = NoRow

Engaged(s) == sendAt[s] \in {"loaded", "stored"}

\* A batch that has committed is alone in its zone with nothing pending; while
\* it decrypts it is inside, and so is a send between its load and its
\* transmission; the batcher's items are untouched.
InsideOK ==
    /\ batchAt = "committed" => frames = {Batch} /\ NonePending
    /\ Having("loaded") # {} => Batch \in frames /\ batchAt = "body"
    /\ \A i \in DOMAIN batcher : batcher[i].at = "todo"
    /\ \A s \in Send : Engaged(s) => s \in frames

ZoneInv == ZonesOK /\ InsideOK /\ PendingIsOfBatch

\* A step that leaves the zone and the batch alone.
LEMMA InsideKept ==
    ASSUME ZoneInv, UNCHANGED <<zoneVars, batch, batchAt>>, NonePending => NonePending',
           \A i \in DOMAIN batcher' : batcher'[i].at = "todo",
           \A s \in Send : Engaged(s)' => s \in frames
    PROVE  ZoneInv'
<1>1. Having("loaded")' = Having("loaded")
    BY DEF Having
<1>2. PendingIsOfBatch'
    BY DEF ZoneInv, PendingIsOfBatch, NonePending, zoneVars
<1>3. InsideOK'
    BY <1>1 DEF ZoneInv, InsideOK, zoneVars
<1>4. ZonesOK'
    BY DEF ZoneInv, ZonesOK, ZoneOrder, zoneVars
<1> QED BY <1>2, <1>3, <1>4 DEF ZoneInv

\* A step that enters the zone or waits for it.
LEMMA InsideEnters ==
    ASSUME ZoneInv, NEW c \in Client, WithZone(c), UNCHANGED pendVars,
           \A i \in DOMAIN batcher' : batcher'[i].at = "todo",
           \/ UNCHANGED <<batch, batchAt>>
           \/ batchAt' = "body" /\ Having("loaded")' = {},
           \A s \in Send : Engaged(s)' => Engaged(s)
    PROVE  ZoneInv'
<1>1. /\ ZonesOK'
      /\ frames \subseteq frames' /\ frames' \subseteq frames \cup {c}
      /\ currentZone = "batch" => frames' = frames /\ currentZone' = "batch"
    BY Enters DEF ZoneInv
<1>2. NonePending => NonePending'
    BY DEF NonePending, pendVars
<1>3. PendingIsOfBatch'
    BY <1>1, <1>2 DEF ZoneInv, PendingIsOfBatch, NonePending
<1>4. batchAt' = "committed" => frames' = {Batch} /\ NonePending'
    <2> SUFFICES ASSUME batchAt' = "committed" PROVE frames' = {Batch} /\ NonePending'
        OBVIOUS
    <2>1. frames = {Batch} /\ NonePending
        BY DEF ZoneInv, InsideOK
    <2>2. currentZone = "batch"
        BY <2>1, Zones DEF ZoneInv, ZonesOK, ZoneOrder
    <2> QED BY <2>1, <2>2, <1>1, <1>2
<1>5. Having("loaded")' # {} => Batch \in frames' /\ batchAt' = "body"
    <2>1. CASE UNCHANGED <<batch, batchAt>>
        <3>1. Having("loaded")' = Having("loaded")
            BY <2>1 DEF Having
        <3> QED BY <2>1, <3>1, <1>1 DEF ZoneInv, InsideOK
    <2> QED BY <2>1
<1>6. InsideOK'
    BY <1>1, <1>4, <1>5 DEF ZoneInv, InsideOK
<1> QED BY <1>1, <1>3, <1>6 DEF ZoneInv

\* A step that leaves the global zone.
LEMMA InsideLeaves ==
    ASSUME ZoneInv, NEW c \in frames, ZoneOf(c) = "global", LeaveZone(c),
           UNCHANGED <<batch, batchAt>>, NonePending => NonePending',
           \A i \in DOMAIN batcher' : batcher'[i].at = "todo",
           \A s \in Send : Engaged(s)' => Engaged(s) /\ s # c
    PROVE  ZoneInv'
<1>1. /\ ZonesOK'
      /\ \/ frames # {c} /\ frames' = frames \ {c} /\ currentZone' = currentZone
         \/ frames = {c} /\ frames' \subseteq Client
    BY Leaves DEF ZoneInv
<1>2. currentZone = "global" /\ Batch \notin frames
    BY Zones DEF ZoneInv, ZonesOK, ZoneOrder
<1>3. NonePending'
    BY <1>2 DEF ZoneInv, PendingIsOfBatch, NonePending
<1>4. batchAt' # "committed"
    BY <1>2 DEF ZoneInv, InsideOK
<1>5. Having("loaded")' = {}
    BY <1>2 DEF ZoneInv, InsideOK, Having
<1>6. \A s \in Send : Engaged(s)' => s \in frames'
    BY <1>1 DEF ZoneInv, InsideOK
<1>7. InsideOK'
    BY <1>4, <1>5, <1>6 DEF InsideOK
<1>8. PendingIsOfBatch'
    BY <1>3 DEF PendingIsOfBatch, NonePending
<1> QED BY <1>1, <1>7, <1>8 DEF ZoneInv

\* The steps of a batch keep the zone.
LEMMA ZoneBatch ==
    ASSUME DataOK, ZoneInv, BatchStep
    PROVE  ZoneInv'
<1> USE DEF storeVars, zoneVars, pendVars, tableVars, batchVars, outVars, passVars, historyVars
<1>0. Batch \in Client
    BY DEF Client
<1>1. ASSUME NEW n \in 1..Len(batcher), KickBatch(n) PROVE ZoneInv'
    <2>1. /\ \A i \in DOMAIN batch' : \E j \in DOMAIN batcher : batch'[i] = batcher[j]
          /\ \A i \in DOMAIN batcher' : \E j \in DOMAIN batcher : batcher'[i] = batcher[j]
        BY <1>1, Split DEF KickBatch, DataOK
    <2>2. \A i \in DOMAIN batcher' : batcher'[i].at = "todo"
        BY <2>1 DEF ZoneInv, InsideOK
    <2>3. Having("loaded")' = {}
        BY <2>1 DEF ZoneInv, InsideOK, Having
    <2>4. \A s \in Send : Engaged(s)' => Engaged(s)
        BY <1>1 DEF KickBatch, Engaged
    <2> QED BY <1>0, <1>1, <2>2, <2>3, <2>4, InsideEnters DEF KickBatch
<1>2. ASSUME NEW i, Current(i), UNCHANGED <<zoneVars, batcher, batchAt, sendAt, pendRows>>
      PROVE  ZoneInv'
    <2>1. Batch \in frames /\ batchAt = "body"
        BY <1>2 DEF Current
    <2>2. currentZone = "batch"
        BY <2>1, Zones DEF ZoneInv, ZonesOK, ZoneOrder
    <2>3. ZonesOK'
        BY <1>2 DEF ZoneInv, ZonesOK, ZoneOrder
    <2>4. InsideOK'
        BY <1>2, <2>1 DEF ZoneInv, InsideOK, Engaged
    <2> QED BY <1>2, <2>2, <2>3, <2>4 DEF ZoneInv, PendingIsOfBatch
<1>3. ASSUME NEW i \in DOMAIN batch, NEW x \in ItemAt,
             \/ DecryptRefused(i) \/ DecryptLoads(i)
             \/ DecryptThrows(i, x) \/ DecryptSucceeds(i, x)
      PROVE  ZoneInv'
    BY <1>2, <1>3 DEF DecryptRefused, DecryptLoads, DecryptThrows, DecryptSucceeds
<1>4. CASE BatchCommits
    <2>1. Batch \in frames /\ frames = {Batch}
        BY <1>4, TopLevel DEF BatchCommits, BodyDone, ZoneInv, ZonesOK
    <2>2. NonePending'
        BY <1>4 DEF BatchCommits, ForgetPending, NonePending
    <2>3. Having("loaded")' = {}
        BY <1>4 DEF BatchCommits, BodyDone, Having
    <2>4. ZonesOK'
        BY <1>4 DEF BatchCommits, ZoneInv, ZonesOK, ZoneOrder
    <2>5. InsideOK'
        BY <1>4, <2>1, <2>2, <2>3 DEF BatchCommits, ZoneInv, InsideOK, Engaged
    <2> QED BY <2>2, <2>4, <2>5 DEF ZoneInv, PendingIsOfBatch, NonePending
<1>5. ASSUME NEW b, b = Batch, b \in frames, Acknowledge, UNCHANGED <<batcher, sendAt>>,
             frames # {Batch} \/ NonePending'
      PROVE  ZoneInv'
    <2>1. /\ ZonesOK'
          /\ \/ frames # {Batch} /\ frames' = frames \ {Batch} /\ currentZone' = currentZone
             \/ frames = {Batch} /\ frames' \subseteq Client
        BY <1>5, Leaves DEF Acknowledge, ZoneInv
    <2>2. Having("loaded")' = {} /\ batchAt' = "idle"
        BY <1>5 DEF Acknowledge, Having
    <2>3. currentZone = "batch"
        BY <1>5, Zones DEF ZoneInv, ZonesOK, ZoneOrder
    <2>4. \A s \in Send : ~Engaged(s)
        BY <2>3, Zones DEF ZoneInv, ZonesOK, ZoneOrder, InsideOK
    <2>5. InsideOK'
        BY <1>5, <2>2, <2>4 DEF ZoneInv, InsideOK, Engaged
    <2>6. PendingIsOfBatch'
        BY <1>5, <2>1, <2>3 DEF PendingIsOfBatch, NonePending
    <2> QED BY <2>1, <2>5, <2>6 DEF ZoneInv
<1>6. CASE BatchLeavesPending
    <2>1. Batch \in frames /\ frames # {Batch}
        BY <1>6, TopLevel DEF BatchLeavesPending, BodyDone, ZoneInv, ZonesOK
    <2> QED BY <1>5, <1>6, <2>1 DEF BatchLeavesPending
<1>7. CASE BatchAcknowledges
    <2>1. frames = {Batch} /\ NonePending
        BY <1>7 DEF BatchAcknowledges, ZoneInv, InsideOK
    <2>2. NonePending'
        BY <1>7, <2>1 DEF BatchAcknowledges, NonePending
    <2> QED BY <1>5, <1>7, <2>1, <2>2 DEF BatchAcknowledges
<1> QED BY <1>1, <1>3, <1>4, <1>6, <1>7 DEF BatchStep, ItemAt

\* The end of a late decryption keeps the zone: if it is the last one out, it
\* leaves nothing pending.
LEMMA ZoneLate ==
    ASSUME DataOK, ZoneInv, NEW d \in Delivery, LateDecryption(d)
    PROVE  ZoneInv'
<1> USE DEF storeVars, zoneVars, pendVars, tableVars, batchVars, outVars, passVars, historyVars
<1>1. d \in frames /\ LeaveZone(d) /\ UNCHANGED <<batcher, batch, batchAt, sendAt>>
    BY DEF LateDecryption
<1>2. /\ ZonesOK'
      /\ \/ frames # {d} /\ frames' = frames \ {d} /\ currentZone' = currentZone
         \/ frames = {d} /\ frames' \subseteq Client
    BY <1>1, Leaves DEF ZoneInv
<1>3. currentZone = "batch" /\ d # Batch
    BY <1>1, Zones DEF ZoneInv, ZonesOK, ZoneOrder
<1>4. \A s \in Send : ~Engaged(s)
    BY <1>3, Zones DEF ZoneInv, ZonesOK, ZoneOrder, InsideOK
<1>5. batchAt # "committed"
    BY <1>1, <1>3 DEF ZoneInv, InsideOK
<1>6. Having("loaded")' = Having("loaded")
    BY <1>1 DEF Having
<1>7. Having("loaded") # {} => Batch \in frames'
    BY <1>2, <1>3 DEF ZoneInv, InsideOK
<1>8. InsideOK'
    BY <1>1, <1>4, <1>5, <1>6, <1>7 DEF ZoneInv, InsideOK, Engaged
<1>9. frames = {d} => NonePending'
    <2> SUFFICES ASSUME frames = {d} PROVE NonePending'
        OBVIOUS
    <2>1. IsInTopLevelZone
        BY <1>1, TopLevel DEF ZoneInv, ZonesOK
    <2>2. ForgetPending
        BY <2>1 DEF LateDecryption, LateSuccess, LateThrow
    <2> QED BY <2>2 DEF ForgetPending, NonePending
<1>10. PendingIsOfBatch'
    BY <1>2, <1>3, <1>9 DEF PendingIsOfBatch, NonePending
<1> QED BY <1>2, <1>8, <1>10 DEF ZoneInv

\* Handling, removal and the passes over stored rows keep the zone.
LEMMA ZoneCache ==
    ASSUME DataOK, DeliveredOK, ZoneInv, CacheStep
    PROVE  ZoneInv'
<1> USE DEF storeVars, zoneVars, pendVars, tableVars, batchVars, outVars, passVars, historyVars
<1>0. Remover \in Client /\ Cacher \in Client
    BY DEF Client
<1>1. ASSUME UNCHANGED <<pendVars, batch, batcher, batchAt, sendAt>>
      PROVE  /\ NonePending => NonePending'
             /\ \A i \in DOMAIN batcher' : batcher'[i].at = "todo"
             /\ \A s \in Send : Engaged(s)' => Engaged(s) /\ s \in frames
    BY <1>1 DEF ZoneInv, InsideOK, Engaged, NonePending
<1>2. ASSUME NEW d \in Delivery, Handle(d) \/ Report(d) PROVE ZoneInv'
    BY <1>1, <1>2, InsideKept DEF Handle, Report
<1>3. CASE KickRemoval
    BY <1>0, <1>1, <1>3, InsideEnters DEF KickRemoval
<1>4. CASE RemoveUnprocessed
    <2>1. \A s \in Send : s # Remover
        BY Zones
    <2> QED BY <1>1, <1>4, <2>1, InsideLeaves, Zones DEF RemoveUnprocessed
<1>5. CASE QueueAllCached
    <2>1. CASE stopping
        BY <1>1, <1>5, <2>1, InsideKept DEF QueueAllCached
    <2>2. CASE ~stopping
        BY <1>0, <1>1, <1>5, <2>2, InsideEnters DEF QueueAllCached
    <2> QED BY <2>1, <2>2
<1>6. CASE GetAllUnprocessedIds
    <2>1. \A s \in Send : s # Cacher
        BY Zones
    <2> QED BY <1>1, <1>6, <2>1, InsideLeaves, Zones DEF GetAllUnprocessedIds
<1>7. CASE AskForRows
    BY <1>0, <1>1, <1>7, InsideEnters DEF AskForRows
<1>8. ASSUME NEW q \in Ordering(Listed("encrypted")), ReadCached(q) PROVE ZoneInv'
    <2> DEFINE S == Listed("encrypted")
    <2>1. S \subseteq delivered /\ S \in SUBSET Delivery
        BY DEF Listed, DeliveredOK, DataOK
    <2>2. IsFiniteSet(S)
        BY <2>1, FS_Subset DEF DeliveredOK
    <2>3. \A i \in DOMAIN batcher' :
             (\E j \in DOMAIN batcher : batcher'[i] = batcher[j]) \/ batcher'[i].at = "todo"
        BY <1>8, <2>1, <2>2, Reread DEF ReadCached, DataOK
    <2>4. \A i \in DOMAIN batcher' : batcher'[i].at = "todo"
        BY <2>3 DEF ZoneInv, InsideOK
    <2>5. \A s \in Send : Engaged(s)' => Engaged(s) /\ s # Cacher
        BY <1>8, Zones DEF ReadCached, Engaged
    <2>6. NonePending => NonePending'
        BY <1>8 DEF ReadCached, NonePending
    <2> QED BY <1>8, <2>4, <2>5, <2>6, InsideLeaves, Zones DEF ReadCached
<1> QED BY <1>2, <1>3, <1>4, <1>5, <1>6, <1>7, <1>8 DEF CacheStep

\* The senders keep the zone.
LEMMA ZoneSend ==
    ASSUME DataOK, ZoneInv, NEW s \in Send, SendStep(s) \/ SendBegins(s) \/ SendFails(s)
    PROVE  ZoneInv'
<1> USE DEF storeVars, zoneVars, pendVars, tableVars, batchVars, outVars, passVars, historyVars
<1>1. UNCHANGED <<batcher, batch, batchAt>>
    BY DEF SendStep, SendLoads, SendStores, SendTransmits, SendBegins, SendFails
<1>2. \A i \in DOMAIN batcher' : batcher'[i].at = "todo"
    BY <1>1 DEF ZoneInv, InsideOK
<1>3. s \in Client /\ ZoneOf(s) = "global"
    BY Zones DEF Client
<1>4. sendAt \in [Send -> {"new", "queued", "loaded", "stored", "sent", "failed"}]
    BY DEF DataOK
<1>5. CASE SendLoads(s)
    <2>1. \A t \in Send : Engaged(t)' => t \in frames
        BY <1>4, <1>5 DEF SendLoads, Engaged, ZoneInv, InsideOK
    <2>2. NonePending => NonePending'
        BY <1>5 DEF SendLoads, NonePending
    <2> QED BY <1>1, <1>2, <1>5, <2>1, <2>2, InsideKept DEF SendLoads
<1>6. CASE SendStores(s)
    <2>1. \A t \in Send : Engaged(t)' => t \in frames
        BY <1>4, <1>6 DEF SendStores, Engaged, ZoneInv, InsideOK
    <2>2. NonePending'
        BY <1>6 DEF SendStores, ForgetPending, NonePending
    <2> QED BY <1>1, <1>2, <1>6, <2>1, <2>2, InsideKept DEF SendStores
<1>7. CASE SendTransmits(s)
    <2>1. s \in frames
        BY <1>7 DEF SendTransmits, Engaged, ZoneInv, InsideOK
    <2>2. \A t \in Send : Engaged(t)' => Engaged(t) /\ t # s
        BY <1>4, <1>7 DEF SendTransmits, Engaged
    <2>3. NonePending => NonePending'
        BY <1>7 DEF SendTransmits, NonePending
    <2> QED BY <1>1, <1>2, <1>3, <1>7, <2>1, <2>2, <2>3, InsideLeaves DEF SendTransmits
<1>8. CASE SendBegins(s)
    <2>1. \A t \in Send : Engaged(t)' => Engaged(t)
        BY <1>4, <1>8 DEF SendBegins, Engaged
    <2> QED BY <1>1, <1>2, <1>3, <1>8, <2>1, InsideEnters DEF SendBegins
<1>9. CASE SendFails(s)
    <2>1. s \in frames
        BY <1>9 DEF SendFails, Engaged, ZoneInv, InsideOK
    <2>2. \A t \in Send : Engaged(t)' => Engaged(t) /\ t # s
        BY <1>4, <1>9 DEF SendFails, Engaged
    <2>3. NonePending'
        BY <1>9 DEF SendFails, ForgetPending, NonePending
    <2> QED BY <1>1, <1>2, <1>3, <1>9, <2>1, <2>2, <2>3, InsideLeaves DEF SendFails
<1> QED BY <1>5, <1>6, <1>7, <1>8, <1>9 DEF SendStep

\* What comes from outside keeps the zone.
LEMMA ZoneEnvironment ==
    ASSUME DataOK, ZoneInv, Environment
    PROVE  ZoneInv'
<1> USE DEF storeVars, zoneVars, pendVars, tableVars, batchVars, outVars, passVars, historyVars
<1>1. ASSUME UNCHANGED <<pendVars, sendAt>>
      PROVE  /\ NonePending => NonePending'
             /\ \A s \in Send : Engaged(s)' => Engaged(s) /\ s \in frames
    BY <1>1 DEF ZoneInv, InsideOK, Engaged, NonePending
<1>2. ASSUME NEW d \in Delivery, HandleRequest(d) PROVE ZoneInv'
    <2> DEFINE e == [id |-> d, att |-> 0, at |-> "todo"]
    <2>1. e \in Item /\ e.at = "todo"
        BY DEF Item, ItemAt
    <2>2. batcher' = Append(batcher, e)
        BY <1>2 DEF HandleRequest
    <2> HIDE DEF e
    <2>3. /\ batcher' \in Seq(Item) /\ Len(batcher') = Len(batcher) + 1
          /\ \A i \in 1..Len(batcher) : batcher'[i] = batcher[i]
          /\ batcher'[Len(batcher) + 1] = e
        BY <2>1, <2>2, AppendProperties DEF DataOK
    <2>4. /\ DOMAIN batcher' = 1..Len(batcher') /\ DOMAIN batcher = 1..Len(batcher)
          /\ Len(batcher) \in Nat
        BY <2>3, LenProperties DEF DataOK
    <2>5. \A i \in DOMAIN batcher' : batcher'[i].at = "todo"
        BY <2>1, <2>3, <2>4 DEF ZoneInv, InsideOK
    <2> QED BY <1>1, <1>2, <2>5, InsideKept DEF HandleRequest
<1>3. ASSUME NEW i \in DOMAIN batch, DecryptTimesOut(i) PROVE ZoneInv'
    <2>1. Batch \in frames /\ batchAt = "body"
        BY <1>3 DEF DecryptTimesOut, Current
    <2>2. currentZone = "batch" /\ currentZone' = "batch"
        BY <1>3, <2>1, Zones DEF DecryptTimesOut, ZoneInv, ZonesOK, ZoneOrder
    <2>3. batch[i].id \in Delivery
        BY ItemType DEF DataOK
    <2>4. frames' = frames \cup {batch[i].id} /\ zoneQueue' = zoneQueue
        BY <1>3 DEF DecryptTimesOut
    <2>5. IsFiniteSet(frames')
        BY <2>4, FS_AddElement DEF ZoneInv, ZonesOK
    <2>6. ZonesOK'
        BY <2>2, <2>3, <2>4, <2>5, Zones DEF ZoneInv, ZonesOK, ZoneOrder, Caller
    <2>7. InsideOK'
        BY <1>3, <2>1, <2>4 DEF DecryptTimesOut, ZoneInv, InsideOK, Engaged
    <2> QED BY <2>2, <2>6, <2>7 DEF ZoneInv, PendingIsOfBatch
<1>4. CASE BatchCommitFails
    <2>1. Batch \in frames
        BY <1>4 DEF BatchCommitFails, BodyDone
    <2>2. currentZone = "batch" /\ currentZone' = "batch"
        BY <1>4, <2>1, Zones DEF BatchCommitFails, ZoneInv, ZonesOK, ZoneOrder
    <2>3. \A s \in Send : ~Engaged(s)
        BY <2>2, Zones DEF ZoneInv, ZonesOK, ZoneOrder, InsideOK
    <2>4. frames' = {Orphan} /\ zoneQueue' = zoneQueue /\ IsFiniteSet({Orphan})
        BY <1>4, FS_Singleton DEF BatchCommitFails
    <2>5. ZonesOK'
        BY <2>2, <2>4, Zones DEF ZoneInv, ZonesOK, ZoneOrder, Caller
    <2>6. Having("loaded")' = {}
        BY <1>4 DEF BatchCommitFails, Having
    <2>7. InsideOK'
        BY <1>4, <2>3, <2>6 DEF BatchCommitFails, ZoneInv, InsideOK, Engaged
    <2> QED BY <2>2, <2>5, <2>7 DEF ZoneInv, PendingIsOfBatch
<1>5. CASE StopProcessing \/ StartProcessingQueue \/ RetryTimeout
    <2>1. UNCHANGED <<zoneVars, pendVars, batch, batcher, batchAt, sendAt>>
        BY <1>5 DEF StopProcessing, StartProcessingQueue, RetryTimeout
    <2>2. \A i \in DOMAIN batcher' : batcher'[i].at = "todo"
        BY <2>1 DEF ZoneInv, InsideOK
    <2> QED BY <1>1, <2>1, <2>2, InsideKept
<1>6. CASE Restart
    <2>1. /\ currentZone' = "none" /\ frames' = {} /\ zoneQueue' = <<>>
          /\ batchAt' = "idle" /\ batch' = <<>> /\ batcher' = <<>>
        BY <1>6 DEF Restart
    <2>2. NonePending'
        BY <1>6 DEF Restart, ForgetPending, NonePending
    <2>3. Having("loaded")' = {}
        BY <2>1 DEF Having
    <2>4. \A s \in Send : ~Engaged(s)'
        BY <1>6 DEF Restart, Engaged, DataOK
    <2>5. InsideOK'
        BY <2>1, <2>3, <2>4 DEF InsideOK
    <2>6. ZonesOK'
        BY <2>1, FS_EmptySet, EmptySeq DEF ZonesOK, ZoneOrder
    <2> QED BY <2>2, <2>5, <2>6 DEF ZoneInv, PendingIsOfBatch, NonePending
<1> QED BY <1>2, <1>3, <1>4, <1>5, <1>6, ZoneSend DEF Environment

\* Every step keeps the zone.
LEMMA ZoneNext ==
    ASSUME DataOK, DeliveredOK, ZoneInv, [Next]_vars
    PROVE  ZoneInv'
<1>1. CASE Next
    BY <1>1, ZoneBatch, ZoneLate, ZoneCache, ZoneSend, ZoneEnvironment DEF Next, Internal
<1>2. CASE UNCHANGED vars
    <2>1. NonePending => NonePending'
        BY <1>2 DEF vars, storeVars, NonePending
    <2>2. /\ \A i \in DOMAIN batcher' : batcher'[i].at = "todo"
          /\ \A s \in Send : Engaged(s)' => s \in frames
        BY <1>2 DEF vars, batchVars, Engaged, ZoneInv, InsideOK
    <2> QED BY <1>2, <2>1, <2>2, InsideKept DEF vars, storeVars, zoneVars, batchVars
<1> QED BY <1>1, <1>2

\* The zone is free when the app starts.
LEMMA ZoneInit == Init => ZoneInv
<1> SUFFICES ASSUME Init PROVE ZoneInv
    OBVIOUS
<1> USE DEF Init, StoreInit
<1>1. ZonesOK
    BY FS_EmptySet, EmptySeq DEF ZonesOK, ZoneOrder
<1>2. Having("loaded") = {}
    BY DEF Having
<1>3. InsideOK
    BY <1>2 DEF InsideOK, Engaged
<1> QED BY <1>1, <1>3 DEF ZoneInv, PendingIsOfBatch

-----------------------------------------------------------------------------
(* Sessions. *)

\* An address has one session job at a time: an item of the batch, a late
\* decryption or a send.
OneJob ==
    /\ \A i, j \in Having("loaded") :
          AddressOf(batch[i].id) = AddressOf(batch[j].id) => i = j
    /\ \A i \in Having("loaded"), d \in frames \cap Delivery :
          AddressOf(batch[i].id) # AddressOf(d)
    /\ \A d, e \in frames \cap Delivery : AddressOf(d) = AddressOf(e) => d = e
    /\ \A s, t \in Send : Engaged(s) /\ Engaged(t) /\ PeerOf[s] = PeerOf[t] => s = t

\* What is pending extends what is stored, and what a job has loaded is up to
\* date; a send that got past its store has its step in the stored session.
SessionsOK ==
    /\ \A a \in Address : pendSess[a] # {} => sessions[a] \subseteq pendSess[a]
    /\ \A i \in Having("loaded") :
          LoadSession(AddressOf(batch[i].id)) \subseteq loaded[batch[i].id]
    /\ \A d \in frames \cap Delivery : LoadSession(AddressOf(d)) \subseteq loaded[d]
    /\ \A s \in Send : sendAt[s] = "loaded" => LoadSession(PeerOf[s]) \subseteq loaded[s]
    /\ \A s \in Send : sendAt[s] \in {"stored", "sent"} => s \in sessions[PeerOf[s]]

SessionInv == OneJob /\ SessionsOK

SessionsUp == \A a \in Address : sessions[a] \subseteq sessions'[a]

\* A step that starts no job and ends those of the addresses A.
LEMMA JobsEnd ==
    ASSUME DataOK, SessionInv, NEW A, SessionsUp,
           \A a \in Address : pendSess'[a] # {} => sessions'[a] \subseteq pendSess'[a],
           \A a \in Address \ A : LoadSession(a)' \subseteq LoadSession(a),
           \A d \in Delivery : AddressOf(d) \notin A => loaded'[d] = loaded[d],
           \A s \in Send : PeerOf[s] \notin A => loaded'[s] = loaded[s],
           \A i \in Having("loaded")' : /\ i \in Having("loaded")
                                        /\ batch'[i].id = batch[i].id
                                        /\ AddressOf(batch[i].id) \notin A,
           \A d \in frames' \cap Delivery : d \in frames /\ AddressOf(d) \notin A,
           \A s \in Send : Engaged(s)' => Engaged(s),
           \A s \in Send : sendAt'[s] = "loaded" => sendAt[s] = "loaded" /\ PeerOf[s] \notin A,
           \A s \in Send : sendAt'[s] \in {"stored", "sent"} =>
                              sendAt[s] \in {"stored", "sent"} \/ s \in sessions'[PeerOf[s]]
    PROVE  SessionInv'
<1>1. OneJob'
    <2>1. \A d : AddressOf(d)' = AddressOf(d)
        BY DEF AddressOf
    <2> QED BY <2>1 DEF SessionInv, OneJob, AddressOf
<1>2. ASSUME NEW i \in Having("loaded")'
      PROVE  LoadSession(AddressOf(batch[i].id))' \subseteq loaded'[batch'[i].id]
    <2>1. /\ i \in Having("loaded") /\ batch'[i].id = batch[i].id
          /\ AddressOf(batch[i].id) \notin A
        BY <1>2
    <2>2. batch[i].id \in Delivery
        BY <2>1, ItemType DEF Having, DataOK
    <2>3. LoadSession(AddressOf(batch[i].id)) \subseteq loaded[batch[i].id]
        BY <2>1 DEF SessionInv, SessionsOK
    <2>4. AddressOf(batch[i].id) \in Address
        BY <2>2, Empties
    <2> DEFINE a == AddressOf(batch[i].id)
    <2>6. AddressOf(batch[i].id)' = a
        BY <2>1 DEF AddressOf
    <2>7. LoadSession(AddressOf(batch[i].id))' = IF pendSess'[a] # {} THEN pendSess'[a] ELSE sessions'[a]
        BY <2>6 DEF LoadSession
    <2> QED BY <2>1, <2>2, <2>3, <2>4, <2>7 DEF LoadSession
<1>3. ASSUME NEW d \in frames' \cap Delivery
      PROVE  LoadSession(AddressOf(d))' \subseteq loaded'[d]
    <2>1. d \in frames /\ AddressOf(d) \notin A /\ AddressOf(d) \in Address
        BY <1>3, Empties
    <2>2. LoadSession(AddressOf(d)) \subseteq loaded[d]
        BY <1>3, <2>1 DEF SessionInv, SessionsOK
    <2> QED BY <1>3, <2>1, <2>2 DEF AddressOf, LoadSession
<1>4. ASSUME NEW s \in Send, sendAt'[s] = "loaded"
      PROVE  LoadSession(PeerOf[s])' \subseteq loaded'[s]
    <2>1. sendAt[s] = "loaded" /\ PeerOf[s] \notin A /\ PeerOf[s] \in Address
        BY <1>4, Empties
    <2>2. LoadSession(PeerOf[s]) \subseteq loaded[s]
        BY <2>1 DEF SessionInv, SessionsOK
    <2> QED BY <2>1, <2>2 DEF LoadSession
<1>5. ASSUME NEW s \in Send, sendAt'[s] \in {"stored", "sent"}
      PROVE  s \in sessions'[PeerOf[s]]
    BY <1>5, Empties DEF SessionInv, SessionsOK, SessionsUp
<1>6. SessionsOK'
    BY <1>2, <1>3, <1>4, <1>5 DEF SessionsOK
<1> QED BY <1>1, <1>6 DEF SessionInv

\* A step that leaves the sessions alone and starts no job.
LEMMA JobsKept ==
    ASSUME DataOK, SessionInv, UNCHANGED <<pendSess, sessions, loaded>>,
           \A i \in Having("loaded")' : i \in Having("loaded") /\ batch'[i].id = batch[i].id,
           frames' \cap Delivery \subseteq frames,
           \A s \in Send : Engaged(s)' => Engaged(s),
           \A s \in Send : sendAt'[s] = "loaded" => sendAt[s] = "loaded",
           \A s \in Send : sendAt'[s] \in {"stored", "sent"} => sendAt[s] \in {"stored", "sent"}
    PROVE  SessionInv' /\ SessionsUp
<1>1. SessionsUp
    BY DEF SessionsUp
<1>2. \A a \in Address : pendSess'[a] # {} => sessions'[a] \subseteq pendSess'[a]
    BY DEF SessionInv, SessionsOK
<1>3. PICK A : A = {}
    OBVIOUS
<1>4. \A a \in Address \ A : LoadSession(a)' \subseteq LoadSession(a)
    BY DEF LoadSession
<1>5. /\ \A d \in Delivery : AddressOf(d) \notin A => loaded'[d] = loaded[d]
      /\ \A s \in Send : PeerOf[s] \notin A => loaded'[s] = loaded[s]
    OBVIOUS
<1>6. /\ \A i \in Having("loaded")' : /\ i \in Having("loaded")
                                      /\ batch'[i].id = batch[i].id
                                      /\ AddressOf(batch[i].id) \notin A
      /\ \A d \in frames' \cap Delivery : d \in frames /\ AddressOf(d) \notin A
      /\ \A s \in Send : sendAt'[s] = "loaded" => sendAt[s] = "loaded" /\ PeerOf[s] \notin A
    BY <1>3
<1> QED BY <1>1, <1>2, <1>4, <1>5, <1>6, JobsEnd

\* Who leaves a zone leaves no late decryption behind that was not there.
LEMMA LateStay ==
    ASSUME ZoneInv, NEW c \in frames, LeaveZone(c)
    PROVE  frames' \cap Delivery \subseteq frames \ {c}
BY Leaves, Zones DEF ZoneInv

\* The steps of a batch keep the sessions.
LEMMA SessionBatch ==
    ASSUME DataOK, ZoneInv, SessionInv, BatchStep
    PROVE  SessionInv' /\ SessionsUp
<1> USE DEF storeVars, zoneVars, pendVars, tableVars, batchVars, outVars, passVars, historyVars
<1>0. ASSUME UNCHANGED sendAt
      PROVE  \A s \in Send : /\ Engaged(s)' => Engaged(s)
                             /\ sendAt'[s] = "loaded" => sendAt[s] = "loaded"
                             /\ sendAt'[s] \in {"stored", "sent"} => sendAt[s] \in {"stored", "sent"}
    BY <1>0 DEF Engaged
<1>1. ASSUME NEW n \in 1..Len(batcher), KickBatch(n) PROVE SessionInv' /\ SessionsUp
    <2>1. \A i \in DOMAIN batch' : \E j \in DOMAIN batcher : batch'[i] = batcher[j]
        BY <1>1, Split DEF KickBatch, DataOK
    <2>2. Having("loaded")' = {}
        BY <2>1 DEF ZoneInv, InsideOK, Having
    <2>3. Batch \in Client /\ WithZone(Batch)
        BY <1>1 DEF KickBatch, Client
    <2>4. frames' \cap Delivery \subseteq frames
        BY <2>3, Enters, Zones DEF ZoneInv
    <2> QED BY <1>0, <1>1, <2>2, <2>4, JobsKept DEF KickBatch
<1>2. ASSUME NEW i \in DOMAIN batch, NEW x \in ItemAt, batch' = [batch EXCEPT ![i].at = x]
      PROVE  /\ \A j \in DOMAIN batch : batch'[j].id = batch[j].id
             /\ Having("loaded")' = IF x = "loaded" THEN Having("loaded") \cup {i}
                                    ELSE Having("loaded") \ {i}
             /\ \A d : AddressOf(d)' = AddressOf(d)
    <2>1. /\ DOMAIN batch' = DOMAIN batch
          /\ \A j \in DOMAIN batch : /\ batch'[j].id = batch[j].id
                                     /\ batch'[j].at = IF j = i THEN x ELSE batch[j].at
        BY <1>2, Marked DEF DataOK
    <2> QED BY <2>1 DEF Having, AddressOf
<1>3. ASSUME NEW i \in DOMAIN batch, DecryptRefused(i) PROVE SessionInv' /\ SessionsUp
    <2>1. /\ \A j \in DOMAIN batch : batch'[j].id = batch[j].id
          /\ Having("loaded")' = Having("loaded") \ {i}
        BY <1>2, <1>3 DEF DecryptRefused, ItemAt
    <2>2. \A j \in Having("loaded")' : j \in Having("loaded") /\ batch'[j].id = batch[j].id
        BY <2>1 DEF Having
    <2> QED BY <1>0, <1>3, <2>2, JobsKept DEF DecryptRefused
<1>4. ASSUME NEW i \in DOMAIN batch, DecryptLoads(i) PROVE SessionInv' /\ SessionsUp
    <2> DEFINE d == batch[i].id
               a == AddressOf(batch[i].id)
    <2>1. /\ \A j \in DOMAIN batch : batch'[j].id = batch[j].id
          /\ Having("loaded")' = Having("loaded") \cup {i}
        BY <1>2, <1>4 DEF DecryptLoads, ItemAt
    <2>2. ~SessionBusy(a) /\ UNCHANGED <<frames, sendAt, pendSess, sessions>>
        BY <1>4 DEF DecryptLoads
    <2>3. d \in Delivery /\ a \in Address
        BY ItemType, Empties DEF DataOK
    <2>4. \A c \in Delivery \cup Send : loaded'[c] = IF c = d THEN LoadSession(a) ELSE loaded[c]
        BY <1>4, <2>3 DEF DecryptLoads, DataOK
    <2>5. \A j \in Having("loaded") : AddressOf(batch[j].id) # a
        BY <2>2 DEF SessionBusy
    <2>6. \A e \in frames \cap Delivery : AddressOf(e) # a
        BY <2>2 DEF SessionBusy
    <2>7. \A j \in Having("loaded") : j \in DOMAIN batch /\ batch[j].id \in Delivery
        BY ItemType DEF Having, DataOK
    <2> HIDE DEF d, a
    <2>8. d = batch[i].id /\ a = AddressOf(d)
        BY DEF d, a
    <2>9. OneJob'
        <3>1. \A j, k \in Having("loaded")' :
                 AddressOf(batch'[j].id) = AddressOf(batch'[k].id) => j = k
            BY <2>1, <2>5, <2>7, <2>8 DEF SessionInv, OneJob
        <3>2. \A j \in Having("loaded")', e \in frames \cap Delivery :
                 AddressOf(batch'[j].id) # AddressOf(e)
            BY <2>1, <2>6, <2>7, <2>8 DEF SessionInv, OneJob
        <3>3. \A e : AddressOf(e)' = AddressOf(e)
            BY DEF AddressOf
        <3> QED BY <3>1, <3>2, <2>2 DEF SessionInv, OneJob, Engaged, AddressOf
    <2>10. \A x : LoadSession(x)' = LoadSession(x)
        BY <2>2 DEF LoadSession
    <2>11. SessionsOK'
        <3>1. \A j \in Having("loaded")' :
                 LoadSession(AddressOf(batch'[j].id)) \subseteq loaded'[batch'[j].id]
            <4> TAKE j \in Having("loaded")'
            <4>1. CASE j = i
                BY <4>1, <2>1, <2>3, <2>4, <2>8
            <4>2. CASE j # i
                <5>1. j \in Having("loaded") /\ batch'[j].id = batch[j].id /\ batch[j].id \in Delivery
                    BY <4>2, <2>1, <2>7
                <5>2. batch[j].id # d
                    BY <5>1, <2>5, <2>8
                <5>3. LoadSession(AddressOf(batch[j].id)) \subseteq loaded[batch[j].id]
                    BY <5>1 DEF SessionInv, SessionsOK
                <5> QED BY <5>1, <5>2, <5>3, <2>4
            <4> QED BY <4>1, <4>2
        <3>2. \A e \in frames \cap Delivery : LoadSession(AddressOf(e)) \subseteq loaded'[e]
            BY <2>4, <2>6, <2>8 DEF SessionInv, SessionsOK
        <3>3. \A s \in Send : sendAt[s] = "loaded" => LoadSession(PeerOf[s]) \subseteq loaded'[s]
            BY <2>3, <2>4, Zones DEF SessionInv, SessionsOK
        <3> QED BY <3>1, <3>2, <3>3, <2>2 DEF SessionInv, SessionsOK, LoadSession, AddressOf
    <2>12. SessionsUp
        BY <2>2 DEF SessionsUp
    <2> QED BY <2>9, <2>11, <2>12 DEF SessionInv
<1>5. ASSUME NEW i \in DOMAIN batch, NEW x \in ItemAt, x # "loaded",
             batch[i].at = "loaded", batch' = [batch EXCEPT ![i].at = x]
      PROVE  LET a == AddressOf(batch[i].id) IN
             /\ a \in Address /\ batch[i].id \in Delivery
             /\ LoadSession(a) \subseteq loaded[batch[i].id]
             /\ \A j \in Having("loaded")' : /\ j \in Having("loaded")
                                             /\ batch'[j].id = batch[j].id
                                             /\ AddressOf(batch[j].id) \notin {a}
             /\ \A d \in frames \cap Delivery : AddressOf(d) \notin {a}
             /\ \A s \in Send : ~Engaged(s)
    <2>1. i \in Having("loaded")
        BY <1>5 DEF Having
    <2>2. /\ \A j \in DOMAIN batch : batch'[j].id = batch[j].id
          /\ Having("loaded")' = Having("loaded") \ {i}
        BY <1>2, <1>5
    <2>3. batch[i].id \in Delivery /\ AddressOf(batch[i].id) \in Address
        BY ItemType, Empties DEF DataOK
    <2>4. LoadSession(AddressOf(batch[i].id)) \subseteq loaded[batch[i].id]
        BY <2>1 DEF SessionInv, SessionsOK
    <2>5. Batch \in frames
        BY <2>1 DEF ZoneInv, InsideOK
    <2>6. \A s \in Send : ~Engaged(s)
        BY <2>5, Zones DEF ZoneInv, ZonesOK, ZoneOrder, InsideOK
    <2>7. \A j \in Having("loaded") : j # i => AddressOf(batch[j].id) # AddressOf(batch[i].id)
        BY <2>1 DEF SessionInv, OneJob
    <2>8. \A d \in frames \cap Delivery : AddressOf(d) # AddressOf(batch[i].id)
        BY <2>1 DEF SessionInv, OneJob
    <2>9. Having("loaded") \subseteq DOMAIN batch
        BY DEF Having
    <2> QED BY <2>2, <2>3, <2>4, <2>6, <2>7, <2>8, <2>9
<1>6. ASSUME NEW i \in DOMAIN batch, NEW x \in ItemAt, x # "loaded",
             batch[i].at = "loaded", batch' = [batch EXCEPT ![i].at = x],
             loaded' = [loaded EXCEPT ![batch[i].id] = {}],
             UNCHANGED <<frames, sendAt, sessions>>,
             pendSess' = pendSess \/ pendSess' = Stored(batch[i].id)
      PROVE  SessionInv' /\ SessionsUp
    <2>1. PICK a : a = AddressOf(batch[i].id)
        OBVIOUS
    <2>2. /\ a \in Address /\ batch[i].id \in Delivery
          /\ LoadSession(a) \subseteq loaded[batch[i].id]
          /\ \A j \in Having("loaded")' : /\ j \in Having("loaded")
                                          /\ batch'[j].id = batch[j].id
                                          /\ AddressOf(batch[j].id) \notin {a}
          /\ \A d \in frames' \cap Delivery : d \in frames /\ AddressOf(d) \notin {a}
          /\ \A s \in Send : ~Engaged(s)
        BY <1>5, <1>6, <2>1
    <2>3. SessionsUp
        BY <1>6 DEF SessionsUp
    <2>4. /\ Stored(batch[i].id)[a] = loaded[batch[i].id] \cup {MsgOf[batch[i].id]}
          /\ \A b \in Address : b # a => Stored(batch[i].id)[b] = pendSess[b]
        BY <2>1, <2>2, StoredType
    <2>5. sessions[a] \subseteq LoadSession(a)
        BY <2>2 DEF SessionInv, SessionsOK, LoadSession
    <2>6. \A b \in Address : pendSess'[b] # {} => sessions'[b] \subseteq pendSess'[b]
        BY <1>6, <2>2, <2>4, <2>5 DEF SessionInv, SessionsOK
    <2>7. \A b \in Address \ {a} : LoadSession(b)' \subseteq LoadSession(b)
        BY <1>6, <2>4 DEF LoadSession
    <2>8. /\ \A d \in Delivery : AddressOf(d) \notin {a} => loaded'[d] = loaded[d]
          /\ \A s \in Send : PeerOf[s] \notin {a} => loaded'[s] = loaded[s]
        BY <1>6, <2>1, <2>2, Zones DEF DataOK
    <2>9. /\ \A s \in Send : Engaged(s)' => Engaged(s)
          /\ \A s \in Send : sendAt'[s] = "loaded" => sendAt[s] = "loaded" /\ PeerOf[s] \notin {a}
          /\ \A s \in Send : sendAt'[s] \in {"stored", "sent"} =>
                                sendAt[s] \in {"stored", "sent"} \/ s \in sessions'[PeerOf[s]]
        BY <1>6, <2>2 DEF Engaged
    <2> QED BY <2>2, <2>3, <2>6, <2>7, <2>8, <2>9, JobsEnd
<1>7. ASSUME NEW i \in DOMAIN batch, NEW x \in ItemAt, DecryptThrows(i, x)
      PROVE  SessionInv' /\ SessionsUp
    <2>1. x # "loaded"
        BY <1>7 DEF DecryptThrows, Thrown
    <2> QED BY <1>6, <1>7, <2>1 DEF DecryptThrows
<1>8. ASSUME NEW i \in DOMAIN batch, NEW x \in ItemAt, DecryptSucceeds(i, x)
      PROVE  SessionInv' /\ SessionsUp
    <2>1. x # "loaded"
        BY <1>8 DEF DecryptSucceeds, Decrypted
    <2> QED BY <1>6, <1>8, <2>1 DEF DecryptSucceeds
<1>9. CASE BatchCommits
    <2>1. PICK A : A = {}
        OBVIOUS
    <2>2. /\ \A a \in Address : sessions'[a] = IF pendSess[a] # {} THEN pendSess[a] ELSE sessions[a]
          /\ \A a \in Address : pendSess'[a] = {}
          /\ UNCHANGED <<batch, loaded, frames, sendAt>>
        BY <1>9 DEF BatchCommits, CommitDecryptResult, ForgetPending
    <2>3. SessionsUp
        BY <2>2 DEF SessionsUp, SessionInv, SessionsOK
    <2>4. \A a \in Address \ A : LoadSession(a)' \subseteq LoadSession(a)
        BY <2>2 DEF LoadSession
    <2>5. Having("loaded")' = Having("loaded")
        BY <2>2 DEF Having
    <2>6. /\ \A s \in Send : Engaged(s)' => Engaged(s)
          /\ \A s \in Send : sendAt'[s] = "loaded" => sendAt[s] = "loaded" /\ PeerOf[s] \notin A
          /\ \A s \in Send : sendAt'[s] \in {"stored", "sent"} =>
                                sendAt[s] \in {"stored", "sent"} \/ s \in sessions'[PeerOf[s]]
        BY <2>1, <2>2 DEF Engaged
    <2> QED BY <2>1, <2>2, <2>3, <2>4, <2>5, <2>6, JobsEnd
<1>10. ASSUME Batch \in frames, Acknowledge, UNCHANGED <<pendSess, sessions, loaded, sendAt>>
       PROVE  SessionInv' /\ SessionsUp
    <2>1. Having("loaded")' = {}
        BY <1>10 DEF Acknowledge, Having
    <2>2. frames' \cap Delivery \subseteq frames
        BY <1>10, LateStay DEF Acknowledge
    <2> QED BY <1>0, <1>10, <2>1, <2>2, JobsKept
<1>11. CASE BatchLeavesPending
    BY <1>10, <1>11 DEF BatchLeavesPending, BodyDone
<1>12. CASE BatchAcknowledges
    BY <1>10, <1>12 DEF BatchAcknowledges, ZoneInv, InsideOK
<1> QED BY <1>1, <1>3, <1>4, <1>7, <1>8, <1>9, <1>11, <1>12 DEF BatchStep

\* The end of a late decryption keeps the sessions: it stores what it loaded
\* and its step, or nothing.
LEMMA SessionLate ==
    ASSUME DataOK, ZoneInv, SessionInv, NEW d \in Delivery, LateDecryption(d)
    PROVE  SessionInv' /\ SessionsUp
<1> USE DEF storeVars, zoneVars, pendVars, tableVars, batchVars, outVars, passVars, historyVars
<1>1. /\ d \in frames /\ LeaveZone(d) /\ UNCHANGED <<batch, sendAt>>
      /\ loaded' = [loaded EXCEPT ![d] = {}]
    BY DEF LateDecryption
<1>2. PICK a : a = AddressOf(d)
    OBVIOUS
<1>3. a \in Address /\ LoadSession(a) \subseteq loaded[d]
    BY <1>1, <1>2, Empties DEF SessionInv, SessionsOK
<1>4. /\ Stored(d)[a] = loaded[d] \cup {MsgOf[d]}
      /\ \A b \in Address : b # a => Stored(d)[b] = pendSess[b]
    BY <1>2, StoredType
<1>5. \A b \in Address : sessions[b] \subseteq LoadSession(b)
    BY DEF SessionInv, SessionsOK, LoadSession
<1>6. /\ SessionsUp
      /\ \A b \in Address : pendSess'[b] # {} => sessions'[b] \subseteq pendSess'[b]
      /\ \A b \in Address \ {a} : LoadSession(b)' \subseteq LoadSession(b)
    <2>1. CASE CommitDecryptResult(Stored(d), pendRows) /\ ForgetPending
        <3>1. \A b \in Address : /\ pendSess'[b] = {}
                                 /\ sessions'[b] = IF Stored(d)[b] # {} THEN Stored(d)[b]
                                                   ELSE sessions[b]
            BY <2>1 DEF CommitDecryptResult, ForgetPending
        <3>2. SessionsUp
            BY <3>1, <1>3, <1>4, <1>5 DEF SessionsUp, SessionInv, SessionsOK
        <3>3. \A b \in Address \ {a} : LoadSession(b)' \subseteq LoadSession(b)
            BY <3>1, <1>4 DEF LoadSession
        <3> QED BY <3>1, <3>2, <3>3
    <2>2. CASE pendSess' = Stored(d) /\ UNCHANGED <<tableVars, pendRows>>
        <3>1. \A b \in Address : pendSess'[b] # {} => sessions'[b] \subseteq pendSess'[b]
            BY <2>2, <1>3, <1>4, <1>5 DEF SessionInv, SessionsOK
        <3> QED BY <2>2, <3>1, <1>4 DEF SessionsUp, LoadSession
    <2>3. CASE ForgetPending /\ UNCHANGED tableVars
        BY <2>3, <1>5 DEF ForgetPending, SessionsUp, LoadSession
    <2>4. CASE UNCHANGED <<pendVars, tableVars>>
        BY <2>4 DEF SessionsUp, LoadSession, SessionInv, SessionsOK
    <2> QED BY <2>1, <2>2, <2>3, <2>4 DEF LateDecryption, LateSuccess, LateThrow
<1>7. \A e \in frames' \cap Delivery : e \in frames /\ AddressOf(e) \notin {a}
    BY <1>1, <1>2, LateStay DEF SessionInv, OneJob
<1>8. Having("loaded")' = Having("loaded")
    BY <1>1 DEF Having
<1>9. \A i \in Having("loaded")' : /\ i \in Having("loaded")
                                   /\ batch'[i].id = batch[i].id
                                   /\ AddressOf(batch[i].id) \notin {a}
    BY <1>1, <1>2, <1>8 DEF SessionInv, OneJob
<1>10. /\ \A e \in Delivery : AddressOf(e) \notin {a} => loaded'[e] = loaded[e]
       /\ \A s \in Send : PeerOf[s] \notin {a} => loaded'[s] = loaded[s]
    BY <1>1, <1>2, Zones DEF DataOK
<1>11. \A s \in Send : ~Engaged(s)
    BY <1>1, Zones DEF ZoneInv, ZonesOK, ZoneOrder, InsideOK
<1>12. /\ \A s \in Send : Engaged(s)' => Engaged(s)
       /\ \A s \in Send : sendAt'[s] = "loaded" => sendAt[s] = "loaded" /\ PeerOf[s] \notin {a}
       /\ \A s \in Send : sendAt'[s] \in {"stored", "sent"} =>
                             sendAt[s] \in {"stored", "sent"} \/ s \in sessions'[PeerOf[s]]
    BY <1>1, <1>11 DEF Engaged
<1> QED BY <1>6, <1>7, <1>9, <1>10, <1>12, JobsEnd

\* Handling, removal and the passes over stored rows do not touch sessions.
LEMMA SessionCache ==
    ASSUME DataOK, ZoneInv, SessionInv, CacheStep
    PROVE  SessionInv' /\ SessionsUp
<1> USE DEF storeVars, zoneVars, pendVars, tableVars, batchVars, outVars, passVars, historyVars
<1>1. UNCHANGED <<pendSess, sessions, loaded, batch, sendAt>>
    BY DEF CacheStep, Handle, Report, KickRemoval, RemoveUnprocessed, QueueAllCached,
           GetAllUnprocessedIds, AskForRows, ReadCached
<1>2. frames' \cap Delivery \subseteq frames
    <2>1. Remover \in Client /\ Cacher \in Client
        BY DEF Client
    <2>2. ASSUME NEW c \in Client, WithZone(c) PROVE frames' \cap Delivery \subseteq frames
        BY <2>2, Enters, Zones DEF ZoneInv
    <2>3. ASSUME NEW c \in frames, LeaveZone(c) PROVE frames' \cap Delivery \subseteq frames
        BY <2>3, LateStay
    <2>4. CASE UNCHANGED frames
        BY <2>4
    <2>5. \/ UNCHANGED frames
          \/ WithZone(Remover) \/ WithZone(Cacher)
          \/ Remover \in frames /\ LeaveZone(Remover)
          \/ Cacher \in frames /\ LeaveZone(Cacher)
        BY DEF CacheStep, Handle, Report, KickRemoval, RemoveUnprocessed, QueueAllCached,
               GetAllUnprocessedIds, AskForRows, ReadCached
    <2> QED BY <2>1, <2>2, <2>3, <2>4, <2>5
<1>3. Having("loaded")' = Having("loaded")
    BY <1>1 DEF Having
<1> QED BY <1>1, <1>2, <1>3, JobsKept DEF Engaged

\* The senders keep the sessions.
LEMMA SessionSend ==
    ASSUME DataOK, ZoneInv, SessionInv, NEW s \in Send,
           SendStep(s) \/ SendBegins(s) \/ SendFails(s)
    PROVE  SessionInv' /\ SessionsUp
<1> USE DEF storeVars, zoneVars, pendVars, tableVars, batchVars, outVars, passVars, historyVars
<1>1. UNCHANGED batch
    BY DEF SendStep, SendLoads, SendStores, SendTransmits, SendBegins, SendFails
<1>2. Having("loaded")' = Having("loaded")
    BY <1>1 DEF Having
<1>3. sendAt \in [Send -> {"new", "queued", "loaded", "stored", "sent", "failed"}]
    BY DEF DataOK
<1>4. CASE SendLoads(s)
    <2>1. PICK a : a = PeerOf[s]
        OBVIOUS
    <2>2. /\ s \in frames /\ ~SessionBusy(a) /\ UNCHANGED <<frames, pendSess, sessions>>
          /\ sendAt' = [sendAt EXCEPT ![s] = "loaded"]
          /\ loaded' = [loaded EXCEPT ![s] = LoadSession(a)]
        BY <1>4, <2>1 DEF SendLoads
    <2>3. /\ \A t \in Send : Engaged(t) => PeerOf[t] # a
          /\ \A t \in Send : Engaged(t)' <=> Engaged(t) \/ t = s
        BY <2>2, <1>3 DEF SessionBusy, Engaged
    <2>4. \A c \in Delivery \cup Send : loaded'[c] = IF c = s THEN LoadSession(a) ELSE loaded[c]
        BY <2>2 DEF DataOK
    <2>5. OneJob'
        BY <1>1, <1>2, <2>1, <2>2, <2>3 DEF SessionInv, OneJob, AddressOf
    <2>6. \A i \in Having("loaded") : batch[i].id \in Delivery
        BY ItemType DEF Having, DataOK
    <2>7. \A i \in Having("loaded") :
             LoadSession(AddressOf(batch[i].id)) \subseteq loaded'[batch[i].id]
        BY <2>4, <2>6, Zones DEF SessionInv, SessionsOK
    <2>8. \A d \in frames \cap Delivery : LoadSession(AddressOf(d)) \subseteq loaded'[d]
        BY <2>4, Zones DEF SessionInv, SessionsOK
    <2>9. \A t \in Send : sendAt'[t] = "loaded" => LoadSession(PeerOf[t]) \subseteq loaded'[t]
        BY <1>3, <2>1, <2>2, <2>4 DEF SessionInv, SessionsOK
    <2>10. \A t \in Send : sendAt'[t] \in {"stored", "sent"} => t \in sessions[PeerOf[t]]
        BY <1>3, <2>2 DEF SessionInv, SessionsOK
    <2>11. SessionsOK'
        <3>2. \A i \in Having("loaded")' :
                 LoadSession(AddressOf(batch[i].id))' \subseteq loaded'[batch'[i].id]
            BY <1>1, <1>2, <2>2, <2>7 DEF LoadSession, AddressOf
        <3>3. \A d \in frames' \cap Delivery : LoadSession(AddressOf(d))' \subseteq loaded'[d]
            BY <2>2, <2>8 DEF LoadSession, AddressOf
        <3>4. \A t \in Send : sendAt'[t] = "loaded" => LoadSession(PeerOf[t])' \subseteq loaded'[t]
            BY <2>2, <2>9 DEF LoadSession
        <3>5. \A b \in Address : pendSess'[b] # {} => sessions'[b] \subseteq pendSess'[b]
            BY <2>2 DEF SessionInv, SessionsOK
        <3> QED BY <2>2, <2>10, <3>2, <3>3, <3>4, <3>5 DEF SessionsOK
    <2>12. SessionsUp
        BY <2>2 DEF SessionsUp
    <2> QED BY <2>5, <2>11, <2>12 DEF SessionInv
<1>5. CASE SendStores(s) \/ SendFails(s)
    <2>1. PICK a : a = PeerOf[s]
        OBVIOUS
    <2>2. /\ sendAt[s] = "loaded" /\ Engaged(s) /\ s \in frames
          /\ loaded' = [loaded EXCEPT ![s] = {}]
        BY <1>5 DEF SendStores, SendFails, Engaged, ZoneInv, InsideOK
    <2>3. currentZone = "global"
        BY <2>2, Zones DEF ZoneInv, ZonesOK, ZoneOrder
    <2>4. \A b \in Address : pendSess[b] = {} /\ pendSess'[b] = {}
        BY <1>5, <2>3 DEF ZoneInv, PendingIsOfBatch, SendStores, SendFails, ForgetPending
    <2>5. a \in Address /\ sessions[a] \subseteq loaded[s]
        BY <2>1, <2>2, <2>4, Empties DEF SessionInv, SessionsOK, LoadSession
    <2>6. /\ SessionsUp
          /\ \A b \in Address \ {a} : sessions'[b] = sessions[b]
          /\ SendStores(s) => s \in sessions'[a]
        <3>1. CASE SendStores(s)
            <4>1. \A b \in Address : sessions'[b] = IF b = a THEN loaded[s] \cup {s} ELSE sessions[b]
                BY <3>1, <2>1, <2>4, <2>5 DEF SendStores, CommitDecryptResult, DataOK
            <4> QED BY <4>1, <2>5 DEF SessionsUp
        <3>2. CASE SendFails(s)
            <4>1. sessions' = sessions /\ sendAt'[s] = "failed"
                BY <3>2, <1>3 DEF SendFails
            <4>2. ~SendStores(s)
                BY <4>1, <1>3 DEF SendStores
            <4> QED BY <4>1, <4>2 DEF SessionsUp
        <3> QED BY <1>5, <3>1, <3>2
    <2>7. \A b \in Address \ {a} : LoadSession(b)' \subseteq LoadSession(b)
        BY <2>4, <2>6 DEF LoadSession
    <2>8. frames \cap Delivery = {} /\ Having("loaded") = {}
        BY <2>3, Zones DEF ZoneInv, ZonesOK, ZoneOrder, InsideOK
    <2>9. frames' \cap Delivery = {}
        <3>1. CASE SendStores(s)
            BY <3>1, <2>8 DEF SendStores
        <3>2. CASE SendFails(s)
            BY <3>2, <2>2, <2>8, LateStay DEF SendFails
        <3> QED BY <1>5, <3>1, <3>2
    <2>10. /\ \A d \in Delivery : AddressOf(d) \notin {a} => loaded'[d] = loaded[d]
           /\ \A t \in Send : PeerOf[t] \notin {a} => loaded'[t] = loaded[t]
        BY <2>1, <2>2, Zones DEF DataOK
    <2>11. \A t \in Send : t # s => sendAt'[t] = sendAt[t]
        BY <1>3, <1>5 DEF SendStores, SendFails
    <2>12. sendAt'[s] # "loaded" /\ (sendAt'[s] \in {"stored", "sent"} => SendStores(s))
        BY <1>3, <1>5 DEF SendStores, SendFails
    <2>13. \A t \in Send : Engaged(t)' => Engaged(t)
        BY <2>2, <2>11 DEF Engaged
    <2>14. \A t \in Send : sendAt'[t] = "loaded" => sendAt[t] = "loaded" /\ PeerOf[t] \notin {a}
        BY <2>1, <2>2, <2>11, <2>12 DEF SessionInv, OneJob, Engaged
    <2>15. \A t \in Send : sendAt'[t] \in {"stored", "sent"} =>
                              sendAt[t] \in {"stored", "sent"} \/ t \in sessions'[PeerOf[t]]
        BY <2>1, <2>6, <2>11, <2>12
    <2>16. /\ \A b \in Address : pendSess'[b] # {} => sessions'[b] \subseteq pendSess'[b]
           /\ \A i \in Having("loaded")' : /\ i \in Having("loaded")
                                            /\ batch'[i].id = batch[i].id
                                            /\ AddressOf(batch[i].id) \notin {a}
           /\ \A d \in frames' \cap Delivery : d \in frames /\ AddressOf(d) \notin {a}
        BY <1>2, <2>4, <2>8, <2>9
    <2>17. SessionInv'
        BY <2>6, <2>7, <2>10, <2>13, <2>14, <2>15, <2>16, JobsEnd
    <2> QED BY <2>6, <2>17
<1>6. CASE SendTransmits(s)
    <2>1. s \in frames
        BY <1>6 DEF SendTransmits, Engaged, ZoneInv, InsideOK
    <2>2. frames' \cap Delivery \subseteq frames
        BY <1>6, <2>1, LateStay DEF SendTransmits
    <2>3. \A t \in Send : /\ Engaged(t)' => Engaged(t)
                          /\ sendAt'[t] = "loaded" => sendAt[t] = "loaded"
                          /\ sendAt'[t] \in {"stored", "sent"} => sendAt[t] \in {"stored", "sent"}
        BY <1>3, <1>6 DEF SendTransmits, Engaged
    <2> QED BY <1>1, <1>2, <1>6, <2>2, <2>3, JobsKept DEF SendTransmits
<1>7. CASE SendBegins(s)
    <2>1. s \in Client /\ WithZone(s)
        BY <1>7 DEF SendBegins, Client
    <2>2. frames' \cap Delivery \subseteq frames
        BY <2>1, Enters, Zones DEF ZoneInv
    <2>3. \A t \in Send : /\ Engaged(t)' => Engaged(t)
                          /\ sendAt'[t] = "loaded" => sendAt[t] = "loaded"
                          /\ sendAt'[t] \in {"stored", "sent"} => sendAt[t] \in {"stored", "sent"}
        BY <1>3, <1>7 DEF SendBegins, Engaged
    <2> QED BY <1>1, <1>2, <1>7, <2>2, <2>3, JobsKept DEF SendBegins
<1> QED BY <1>4, <1>5, <1>6, <1>7 DEF SendStep

\* What comes from outside keeps the sessions; a timeout only turns a job of
\* the batch into a late one.
LEMMA SessionEnvironment ==
    ASSUME DataOK, ZoneInv, SessionInv, Environment
    PROVE  SessionInv' /\ SessionsUp
<1> USE DEF storeVars, zoneVars, pendVars, tableVars, batchVars, outVars, passVars, historyVars
<1>1. ASSUME UNCHANGED <<zoneVars, pendSess, sessions, loaded, batch, sendAt>>
      PROVE  SessionInv' /\ SessionsUp
    <2>1. Having("loaded")' = Having("loaded")
        BY <1>1 DEF Having
    <2> QED BY <1>1, <2>1, JobsKept DEF Engaged
<1>2. CASE \/ \E d \in Delivery : HandleRequest(d)
           \/ StopProcessing \/ StartProcessingQueue \/ RetryTimeout
    BY <1>1, <1>2 DEF HandleRequest, StopProcessing, StartProcessingQueue, RetryTimeout
<1>3. ASSUME NEW i \in DOMAIN batch, DecryptTimesOut(i) PROVE SessionInv' /\ SessionsUp
    <2>1. PICK d : d = batch[i].id
        OBVIOUS
    <2>2. /\ batch[i].at = "loaded" /\ batch' = [batch EXCEPT ![i].at = "failed"]
          /\ frames' = frames \cup {d} /\ UNCHANGED <<pendSess, sessions, loaded, sendAt>>
        BY <1>3, <2>1 DEF DecryptTimesOut
    <2>3. /\ DOMAIN batch' = DOMAIN batch
          /\ \A j \in DOMAIN batch : /\ batch'[j].id = batch[j].id
                                     /\ batch'[j].at = IF j = i THEN "failed" ELSE batch[j].at
        BY <2>2, Marked DEF DataOK, ItemAt
    <2>4. i \in Having("loaded") /\ Having("loaded") \subseteq DOMAIN batch
        BY <2>2 DEF Having
    <2>5. Having("loaded")' = Having("loaded") \ {i}
        BY <2>3 DEF Having
    <2>6. d \in Delivery
        BY <2>1, ItemType DEF DataOK
    <2>7. \A j \in Having("loaded") : j # i => AddressOf(batch[j].id) # AddressOf(d)
        BY <2>1, <2>4 DEF SessionInv, OneJob
    <2>8. \A e \in frames \cap Delivery : AddressOf(e) # AddressOf(d)
        BY <2>1, <2>4 DEF SessionInv, OneJob
    <2>9. OneJob'
        <3>1. \A j, k \in Having("loaded")' :
                 AddressOf(batch'[j].id) = AddressOf(batch'[k].id) => j = k
            BY <2>3, <2>4, <2>5 DEF SessionInv, OneJob
        <3>2. \A j \in Having("loaded")', e \in frames' \cap Delivery :
                 AddressOf(batch'[j].id) # AddressOf(e)
            BY <2>2, <2>3, <2>4, <2>5, <2>7 DEF SessionInv, OneJob
        <3>3. \A e, f \in frames' \cap Delivery : AddressOf(e) = AddressOf(f) => e = f
            BY <2>2, <2>8 DEF SessionInv, OneJob
        <3> QED BY <2>2, <3>1, <3>2, <3>3 DEF SessionInv, OneJob, Engaged, AddressOf
    <2>10. SessionsOK'
        <3>1. \A j \in Having("loaded")' :
                 LoadSession(AddressOf(batch'[j].id)) \subseteq loaded[batch'[j].id]
            BY <2>3, <2>4, <2>5 DEF SessionInv, SessionsOK
        <3>2. \A e \in frames' \cap Delivery : LoadSession(AddressOf(e)) \subseteq loaded[e]
            BY <2>1, <2>2, <2>4 DEF SessionInv, SessionsOK
        <3> QED BY <2>2, <3>1, <3>2 DEF SessionInv, SessionsOK, LoadSession, AddressOf
    <2>11. SessionsUp
        BY <2>2 DEF SessionsUp
    <2> QED BY <2>9, <2>10, <2>11 DEF SessionInv
<1>4. CASE BatchCommitFails
    <2>1. PICK A : A = {}
        OBVIOUS
    <2>2. /\ \A a \in Address : pendSess'[a] = {}
          /\ frames' = {Orphan} /\ batch' = <<>> /\ UNCHANGED <<sessions, loaded, sendAt>>
        BY <1>4 DEF BatchCommitFails, ForgetPending
    <2>3. SessionsUp
        BY <2>2 DEF SessionsUp
    <2>4. \A a \in Address \ A : LoadSession(a)' \subseteq LoadSession(a)
        BY <2>2 DEF LoadSession, SessionInv, SessionsOK
    <2>5. Having("loaded")' = {} /\ frames' \cap Delivery = {}
        BY <2>2, Zones DEF Having
    <2>6. /\ \A s \in Send : Engaged(s)' => Engaged(s)
          /\ \A s \in Send : sendAt'[s] = "loaded" => sendAt[s] = "loaded" /\ PeerOf[s] \notin A
          /\ \A s \in Send : sendAt'[s] \in {"stored", "sent"} =>
                                sendAt[s] \in {"stored", "sent"} \/ s \in sessions'[PeerOf[s]]
        BY <2>1, <2>2 DEF Engaged
    <2> QED BY <2>2, <2>3, <2>4, <2>5, <2>6, JobsEnd
<1>5. CASE Restart
    <2>1. PICK A : A = Address
        OBVIOUS
    <2>2. /\ \A a \in Address : pendSess'[a] = {}
          /\ frames' = {} /\ batch' = <<>> /\ UNCHANGED sessions
        BY <1>5 DEF Restart, ForgetPending
    <2>3. SessionsUp
        BY <2>2 DEF SessionsUp
    <2>4. /\ \A a \in Address \ A : LoadSession(a)' \subseteq LoadSession(a)
          /\ \A d \in Delivery : AddressOf(d) \notin A => loaded'[d] = loaded[d]
          /\ \A s \in Send : PeerOf[s] \notin A => loaded'[s] = loaded[s]
        BY <2>1, Empties
    <2>5. Having("loaded")' = {}
        BY <2>2 DEF Having
    <2>6. \A s \in Send : sendAt'[s] = IF sendAt[s] \in {"new", "sent"} THEN sendAt[s] ELSE "failed"
        BY <1>5 DEF Restart
    <2>7. /\ \A s \in Send : Engaged(s)' => Engaged(s)
          /\ \A s \in Send : sendAt'[s] = "loaded" => sendAt[s] = "loaded" /\ PeerOf[s] \notin A
          /\ \A s \in Send : sendAt'[s] \in {"stored", "sent"} =>
                                sendAt[s] \in {"stored", "sent"} \/ s \in sessions'[PeerOf[s]]
        BY <2>6 DEF Engaged
    <2> QED BY <2>2, <2>3, <2>4, <2>5, <2>7, JobsEnd
<1> QED BY <1>2, <1>3, <1>4, <1>5, SessionSend DEF Environment

\* Every step keeps the sessions, and no stored session loses a step.
LEMMA SessionNext ==
    ASSUME DataOK, ZoneInv, SessionInv, [Next]_vars
    PROVE  SessionInv' /\ SessionsUp
<1>1. CASE Next
    BY <1>1, SessionBatch, SessionLate, SessionCache, SessionSend, SessionEnvironment
       DEF Next, Internal
<1>2. CASE UNCHANGED vars
    <2>1. Having("loaded")' = Having("loaded")
        BY <1>2 DEF vars, batchVars, Having
    <2> QED BY <1>2, <2>1, JobsKept DEF vars, storeVars, batchVars, Engaged
<1> QED BY <1>1, <1>2

\* No job has begun when the app starts.
LEMMA SessionInit == Init => SessionInv
<1> SUFFICES ASSUME Init PROVE SessionInv
    OBVIOUS
<1> USE DEF Init, StoreInit
<1>1. Having("loaded") = {}
    BY DEF Having
<1>2. OneJob
    BY <1>1 DEF OneJob, Engaged
<1>3. SessionsOK
    BY <1>1 DEF SessionsOK
<1> QED BY <1>2, <1>3 DEF SessionInv

-----------------------------------------------------------------------------
(* The results. *)

\* The inductive invariant: types, who is inside the zone and why, and what the
\* session jobs have loaded.
Inv == DataOK /\ DeliveredOK /\ ZoneInv /\ SessionInv

\* The invariant holds in every state (the whole receiver).
THEOREM Invariance == Spec => []Inv
<1>1. Init => Inv
    BY TypeInit, ZoneInit, SessionInit DEF Inv
<1>2. Inv /\ [Next]_vars => Inv'
    BY TypeNext, ZoneNext, SessionNext DEF Inv
<1> QED BY <1>1, <1>2, PTL DEF Spec

\* Every variable keeps its type.
THEOREM TypeCorrect == Spec => []TypeOK
<1>1. Inv => TypeOK
    BY TypeParts DEF Inv, ZoneInv
<1> QED BY <1>1, Invariance, PTL

\* #leaveZone and withZone keep the order of zones: whoever is inside belongs
\* to the current zone, the last one out releases it, and nobody waits for a
\* free zone.
THEOREM ZonesOrdered == Spec => []ZoneOrder
<1>1. Inv => ZoneOrder
    BY DEF Inv, ZoneInv, ZonesOK
<1> QED BY <1>1, Invariance, PTL

\* Nothing pending survives the zone of the batch that made it, so that no
\* commit in GLOBAL_ZONE carries it.
THEOREM PendingStaysInBatch == Spec => []PendingIsOfBatch
<1>1. Inv => PendingIsOfBatch
    BY DEF Inv, ZoneInv
<1> QED BY <1>1, Invariance, PTL

\* A ciphertext leaves the device only after its ratchet step is stored.
THEOREM SendsRecorded == Spec => []SentRecorded
<1>1. Inv => SentRecorded
    BY DEF Inv, SessionInv, SessionsOK, SentRecorded
<1> QED BY <1>1, Invariance, PTL

\* No step overwrites a stored session with one that was loaded before.
THEOREM SessionsNeverShrink == Spec => SessionsGrow
<1>1. Inv /\ [Next]_vars => [\A a \in Address : sessions[a] \subseteq sessions'[a]]_vars
    BY SessionNext DEF Inv, SessionsUp
<1> QED BY <1>1, Invariance, PTL DEF Spec, SessionsGrow
=============================================================================
