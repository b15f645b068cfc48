------------------------ MODULE MessageKeepingProofs -------------------------
(***************************************************************************)
(* No acknowledged message and no plaintext is lost by the receiver, for   *)
(* any envelopes, messages, addresses, sends and bounds: the argument for  *)
(* AckedKept and RatchetKeepsPlaintext, on top of the invariant of         *)
(* MessageReceiverProofs.                                                  *)
(***************************************************************************)
EXTENDS MessageReceiverProofs

-----------------------------------------------------------------------------
(* The invariant. *)

\* The plaintext of a message is not lost; the message is not lost.
Plain(m) == m \in settled \/ RowOf(m, "plaintext")
Held(m)  == Plain(m) \/ RowOf(m, "encrypted")

\* The running batch is about to store the plaintext, or drops the message.
Decided(m) ==
    /\ batchAt = "body"
    /\ \E i \in DOMAIN batch : /\ MsgOf[batch[i].id] = m
                               /\ batch[i].at \in {"plaintext", "dropped"}

Kept(m) == Plain(m) \/ Decided(m)

\* Without a timeout no decryption outlives its batch, nobody joins an orphan,
\* and an item of the batch is touched only inside the zone.
FrameOK ==
    /\ frames \cap Delivery = {}
    /\ \A d \in Delivery : pendRows[d] = NoRow
    /\ Orphan \in frames => frames = {Orphan}
    /\ \A i \in DOMAIN batch : batch[i].at # "todo" => Batch \in frames

\* Without an overlap an envelope is queued once.
DistinctOK ==
    /\ \A i, j \in DOMAIN batcher : batcher[i].id = batcher[j].id => i = j
    /\ \A i, j \in DOMAIN batch : batch[i].id = batch[j].id => i = j
    /\ Ids(batcher) \cap Ids(batch) = {}

\* An envelope that waits for its decryption is not stored as plaintext.
FreshOK ==
    /\ \A d \in Ids(batcher) : rows[d].st # "plaintext"
    /\ batchAt = "body" => \A d \in Ids(batch) : rows[d].st # "plaintext"

\* A session job knows no step that is neither stored nor pending.
LoadedOK ==
    /\ \A i \in Having("loaded") :
          loaded[batch[i].id] \subseteq LoadSession(AddressOf(batch[i].id))
    /\ \A s \in Send : sendAt[s] = "loaded" => loaded[s] \subseteq LoadSession(PeerOf[s])

\* Every step the stored ratchet took has its plaintext stored or settled,
\* every pending one will have it with the same commit.
StepsOK ==
    /\ \A a \in Address : \A m \in sessions[a] \cap Message : Plain(m)
    /\ \A a \in Address : \A m \in LoadSession(a) \cap Message : Kept(m)

\* An id that is to be removed: its message is settled or will be when the
\* batch commits, or the row is an encrypted duplicate; an orphaned zone
\* never lets the removal in.
Removable(d) ==
    \/ MsgOf[d] \in settled
    \/ /\ MsgOf[d] \in LoadSession(AddressOf(d))
       /\ rows[d].st # "plaintext"
       /\ d \notin IdsHaving("plaintext")
    \/ batchAt = "body" /\ d \in IdsHaving("rejected") \cup IdsHaving("dropped")
    \/ Orphan \in frames

RemovalOK == \A d \in removing \cup removal : Removable(d)

\* What is acknowledged, or about to be, is held.
AckOK ==
    /\ batchAt = "committed" => \A i \in DOMAIN batch : Held(MsgOf[batch[i].id])
    /\ \A m \in acked : Held(m)

Keep == FrameOK /\ DistinctOK /\ FreshOK /\ LoadedOK /\ StepsOK /\ RemovalOK /\ AckOK

KeepInv == ~overlapped => Keep

-----------------------------------------------------------------------------
(* Inside the two kinds of zone. *)

\* In the global zone nothing is pending and the batch, if there is one, waits.
LEMMA GlobalZone ==
    ASSUME Inv, FrameOK, NEW c \in frames, ZoneOf(c) = "global"
    PROVE  /\ currentZone = "global" /\ Batch \notin frames /\ Orphan \notin frames
           /\ NonePending /\ \A a \in Address : LoadSession(a) = sessions[a]
           /\ \A i \in DOMAIN batch : batch[i].at = "todo"
           /\ \A x : x # "todo" => Having(x) = {} /\ IdsHaving(x) = {}
           /\ batchAt # "committed"
<1>1. currentZone = "global" /\ Batch \notin frames /\ Orphan \notin frames
    BY Zones DEF Inv, ZoneInv, ZonesOK, ZoneOrder
<1>2. NonePending
    BY <1>1 DEF Inv, ZoneInv, PendingIsOfBatch, NonePending
<1>3. \A i \in DOMAIN batch : batch[i].at = "todo"
    BY <1>1 DEF FrameOK
<1>4. batchAt # "committed"
    BY <1>1 DEF Inv, ZoneInv, InsideOK
<1>5. \A x : x # "todo" => Having(x) = {} /\ IdsHaving(x) = {}
    BY <1>3 DEF Having, IdsHaving
<1>6. \A a \in Address : LoadSession(a) = sessions[a]
    BY <1>2 DEF NonePending, LoadSession
<1> QED BY <1>1, <1>2, <1>3, <1>4, <1>5, <1>6

\* A batch that is inside is alone there: no send, no late decryption.
LEMMA BatchZone ==
    ASSUME Inv, FrameOK, Batch \in frames
    PROVE  /\ frames = {Batch} /\ IsInTopLevelZone
           /\ currentZone = "batch"
           /\ \A s \in Send : ~Engaged(s)
<1>1. currentZone = "batch" /\ \A c \in frames : ZoneOf(c) = "batch"
    BY Zones DEF Inv, ZoneInv, ZonesOK, ZoneOrder
<1>2. \A s \in Send : ~Engaged(s)
    BY <1>1, Zones DEF Inv, ZoneInv, InsideOK
<1>3. Orphan \notin frames
    BY DEF FrameOK, Batch, Orphan
<1>4. frames \subseteq Caller /\ IsFiniteSet(frames)
    BY DEF Inv, ZoneInv, ZonesOK
<1>5. frames = {Batch}
    BY <1>1, <1>3, <1>4, Zones DEF FrameOK, Caller
<1>6. IsInTopLevelZone
    BY <1>4, <1>5, TopLevel
<1> QED BY <1>1, <1>2, <1>5, <1>6

\* withZone keeps the frames apart.
LEMMA FrameEnters ==
    ASSUME Inv, FrameOK, NEW c \in Client, WithZone(c), pendRows' = pendRows,
           \/ batch' = batch
           \/ \A i \in DOMAIN batch' : batch'[i].at = "todo"
    PROVE  FrameOK' /\ (Orphan \in frames => Orphan \in frames')
<1>1. /\ frames \subseteq frames' /\ frames' \subseteq frames \cup {c}
      /\ currentZone = "batch" => frames' = frames
    BY Enters DEF Inv, ZoneInv
<1>2. c \notin Delivery /\ c # Orphan
    BY Zones
<1>3. Orphan \in frames => currentZone = "batch"
    BY Zones DEF Inv, ZoneInv, ZonesOK, ZoneOrder
<1>4. Orphan \in frames' => frames' = {Orphan}
    BY <1>1, <1>2, <1>3 DEF FrameOK
<1>5. frames' \cap Delivery = {}
    BY <1>1, <1>2 DEF FrameOK
<1>6. \A i \in DOMAIN batch' : batch'[i].at # "todo" => Batch \in frames'
    BY <1>1 DEF FrameOK
<1> QED BY <1>1, <1>4, <1>5, <1>6 DEF FrameOK

\* So does a caller that leaves the global zone.
LEMMA FrameLeaves ==
    ASSUME Inv, FrameOK, NEW c \in frames, ZoneOf(c) = "global", LeaveZone(c),
           batch' = batch, \A d \in Delivery : pendRows'[d] = NoRow
    PROVE  FrameOK' /\ Orphan \notin frames'
<1>1. \/ frames' = frames \ {c}
      \/ frames' \subseteq Client
    BY Leaves DEF Inv, ZoneInv
<1>2. Orphan \notin frames /\ \A i \in DOMAIN batch : batch[i].at = "todo"
    BY GlobalZone
<1>3. Orphan \notin frames' /\ frames' \cap Delivery = {}
    BY <1>1, <1>2, Zones DEF FrameOK
<1> QED BY <1>2, <1>3 DEF FrameOK

-----------------------------------------------------------------------------
(* Steps that leave the tables, the pending changes and the batch alone. *)

\* What is kept stays kept while rows only change their count of attempts.
LEMMA Lasting ==
    ASSUME \A d \in Delivery : rows'[d].st = rows[d].st, settled \subseteq settled'
    PROVE  \A m : (Plain(m) => Plain(m)') /\ (Held(m) => Held(m)')
BY DEF Plain, Held, RowOf

\* Nothing changes about the queues.
LEMMA QueuesStill ==
    ASSUME DistinctOK, FreshOK, UNCHANGED batchVars, \A d \in Ids(batcher) \cup Ids(batch) : rows'[d].st = rows[d].st
    PROVE  DistinctOK' /\ FreshOK'
<1>1. Ids(batcher)' = Ids(batcher) /\ Ids(batch)' = Ids(batch)
    BY DEF batchVars, Ids
<1> QED BY <1>1 DEF DistinctOK, FreshOK, batchVars

\* Nothing changes about the session jobs, but for sends that end theirs.
LEMMA LoadedStill ==
    ASSUME LoadedOK, UNCHANGED <<batch, loaded, sessions, pendSess>>,
           \A s \in Send : sendAt'[s] = "loaded" => sendAt[s] = "loaded"
    PROVE  LoadedOK'
<1>1. Having("loaded")' = Having("loaded") /\ \A a : LoadSession(a)' = LoadSession(a)
    BY DEF Having, LoadSession
<1> QED BY <1>1 DEF LoadedOK, AddressOf

\* The rest of the invariant.
LEMMA Still ==
    ASSUME Keep, UNCHANGED <<sessions, pendSess, batch, batchAt, acked>>,
           \A d \in Delivery : rows'[d].st = rows[d].st, settled \subseteq settled',
           Orphan \in frames => Orphan \in frames',
           removing' \cup removal' \subseteq Delivery,
           \A d \in removing' \cup removal' : d \in removing \cup removal \/ MsgOf[d] \in settled'
    PROVE  StepsOK' /\ RemovalOK' /\ AckOK'
<1>1. \A m : (Plain(m) => Plain(m)') /\ (Held(m) => Held(m)')
    BY Lasting
<1>2. \A m : Kept(m) => Kept(m)'
    BY <1>1 DEF Kept, Decided
<1>3. \A a : LoadSession(a)' = LoadSession(a)
    BY DEF LoadSession
<1>4. \A x : IdsHaving(x)' = IdsHaving(x)
    BY DEF IdsHaving, Having
<1>5. StepsOK'
    BY <1>1, <1>2, <1>3 DEF Keep, StepsOK
<1>6. AckOK'
    BY <1>1 DEF Keep, AckOK
<1>7. \A d \in Delivery : Removable(d) => Removable(d)'
    BY <1>3, <1>4 DEF Removable, AddressOf
<1>8. RemovalOK'
    BY <1>7 DEF Keep, RemovalOK, Removable
<1> QED BY <1>5, <1>6, <1>8

-----------------------------------------------------------------------------
(* Handling, removal and the pass over the rows. *)

\* Rows are removed once their message is settled, or as duplicates of a
\* message whose plaintext the stored ratchet vouches for.
LEMMA KeepRemoval ==
    ASSUME Inv, Inv', Keep, RemoveUnprocessed
    PROVE  Keep'
<1> USE DEF pendVars, batchVars, historyVars
<1>1. /\ Remover \in frames /\ LeaveZone(Remover)
      /\ rows' = [d \in Delivery |-> IF d \in removal THEN NoRow ELSE rows[d]]
      /\ removal' = {} /\ removing' = removing
      /\ UNCHANGED <<pendVars, sessions, batchVars, loaded, sendAt, historyVars>>
    BY DEF RemoveUnprocessed
<1>2. /\ Orphan \notin frames /\ NonePending /\ batchAt # "committed"
      /\ \A a \in Address : LoadSession(a) = sessions[a]
      /\ \A x : x # "todo" => IdsHaving(x) = {}
      /\ \A i \in DOMAIN batch : batch[i].at = "todo"
    BY <1>1, GlobalZone, Zones DEF Keep
<1>3. FrameOK' /\ Orphan \notin frames'
    BY <1>1, <1>2, FrameLeaves, Zones DEF Keep, NonePending
<1>4. \A d \in Delivery : /\ d \notin removal => rows'[d] = rows[d]
                          /\ d \in removal => rows'[d].st = "none"
    BY <1>1 DEF NoRow
<1>5. \A d \in removal : /\ d \in Delivery
                         /\ \/ MsgOf[d] \in settled
                            \/ MsgOf[d] \in sessions[AddressOf(d)] /\ rows[d].st # "plaintext"
    BY <1>2, Empties DEF Keep, RemovalOK, Removable, Inv, DataOK
<1>6. ASSUME NEW m, Plain(m) PROVE Plain(m)'
    <2>1. CASE m \in settled
        BY <1>1, <2>1 DEF Plain
    <2>2. ASSUME NEW d \in Delivery, MsgOf[d] = m, rows[d].st = "plaintext" PROVE Plain(m)'
        <3>1. CASE d \in removal
            BY <1>1, <1>5, <2>2, <3>1 DEF Plain
        <3>2. CASE d \notin removal
            BY <1>4, <2>2, <3>2 DEF Plain, RowOf
        <3> QED BY <3>1, <3>2
    <2> QED BY <1>6, <2>1, <2>2 DEF Plain, RowOf
<1>7. ASSUME NEW m, Held(m) PROVE Held(m)'
    <2>1. CASE Plain(m)
        BY <1>6, <2>1 DEF Held
    <2>2. ASSUME NEW d \in Delivery, MsgOf[d] = m, rows[d].st = "encrypted" PROVE Held(m)'
        <3>1. CASE d \in removal
            <4>1. MsgOf[d] \in Message /\ AddressOf(d) \in Address
                BY Empties
            <4>2. Plain(m)
                BY <1>5, <2>2, <3>1, <4>1 DEF Keep, StepsOK, Plain
            <4> QED BY <4>2, <2>1
        <3>2. CASE d \notin removal
            BY <1>4, <2>2, <3>2 DEF Held, RowOf
        <3> QED BY <3>1, <3>2
    <2> QED BY <1>7, <2>1, <2>2 DEF Held, RowOf
<1>8. \A a : LoadSession(a)' = LoadSession(a)
    BY <1>1 DEF LoadSession
<1>9. StepsOK'
    BY <1>1, <1>2, <1>6, <1>8 DEF Keep, StepsOK, Kept
<1>10. AckOK'
    BY <1>1, <1>2, <1>7 DEF Keep, AckOK
<1>11. LoadedOK'
    BY <1>1, LoadedStill DEF Keep
<1>12. Ids(batch) \cup Ids(batcher) \subseteq Delivery
    BY ItemType DEF Inv, DataOK, Ids
<1>13. DistinctOK' /\ FreshOK'
    <2>1. Ids(batcher)' = Ids(batcher) /\ Ids(batch)' = Ids(batch)
        BY <1>1 DEF Ids
    <2>2. \A d \in Delivery : rows'[d].st = "plaintext" => rows[d].st = "plaintext"
        BY <1>4
    <2> QED BY <1>1, <1>12, <2>1, <2>2 DEF Keep, DistinctOK, FreshOK
<1>14. RemovalOK'
    <2>1. \A x : IdsHaving(x)' = IdsHaving(x)
        BY <1>1 DEF IdsHaving, Having
    <2>2. \A d \in Delivery : rows'[d].st = "plaintext" => rows[d].st = "plaintext"
        BY <1>4
    <2>3. \A d \in Delivery : Removable(d) => Removable(d)'
        BY <1>1, <1>2, <1>8, <2>1, <2>2 DEF Removable, AddressOf
    <2> QED BY <1>1, <2>3 DEF Keep, RemovalOK, Inv, DataOK
<1> QED BY <1>3, <1>9, <1>10, <1>11, <1>13, <1>14 DEF Keep

\* A row that was tried too often is given up, and settled by that.
LEMMA KeepExhausted ==
    ASSUME Inv, Inv', Keep, GetAllUnprocessedIds
    PROVE  Keep'
<1> USE DEF pendVars, batchVars, outVars
<1>1. /\ Cacher \in frames /\ LeaveZone(Cacher)
      /\ rows' = [d \in Delivery |-> IF d \in Exhausted THEN NoRow ELSE rows[d]]
      /\ settled' = settled \cup {MsgOf[d] : d \in Exhausted}
      /\ UNCHANGED <<pendVars, sessions, batchVars, loaded, sendAt, outVars, acked>>
    BY DEF GetAllUnprocessedIds
<1>2. Orphan \notin frames /\ NonePending
    BY <1>1, GlobalZone, Zones DEF Keep
<1>3. FrameOK' /\ Orphan \notin frames'
    BY <1>1, <1>2, FrameLeaves, Zones DEF Keep, NonePending
<1>4. \A d \in Delivery : /\ d \notin Exhausted => rows'[d] = rows[d]
                          /\ d \in Exhausted => rows'[d].st = "none" /\ MsgOf[d] \in settled'
    BY <1>1 DEF NoRow
<1>5. \A m : (Plain(m) => Plain(m)') /\ (Held(m) => Held(m)')
    BY <1>1, <1>4 DEF Plain, Held, RowOf
<1>6. \A m : Kept(m) => Kept(m)'
    BY <1>1, <1>5 DEF Kept, Decided
<1>7. \A a : LoadSession(a)' = LoadSession(a)
    BY <1>1 DEF LoadSession
<1>8. StepsOK'
    BY <1>1, <1>5, <1>6, <1>7 DEF Keep, StepsOK
<1>9. AckOK'
    BY <1>1, <1>5 DEF Keep, AckOK
<1>10. LoadedOK'
    BY <1>1, LoadedStill DEF Keep
<1>11. \A d \in Delivery : rows'[d].st = "plaintext" => rows[d].st = "plaintext"
    BY <1>4
<1>12. DistinctOK' /\ FreshOK'
    <2>1. Ids(batcher)' = Ids(batcher) /\ Ids(batch)' = Ids(batch)
        BY <1>1 DEF Ids
    <2>2. Ids(batch) \cup Ids(batcher) \subseteq Delivery
        BY ItemType DEF Inv, DataOK, Ids
    <2> QED BY <1>1, <1>11, <2>1, <2>2 DEF Keep, DistinctOK, FreshOK
<1>13. RemovalOK'
    <2>1. \A x : IdsHaving(x)' = IdsHaving(x)
        BY <1>1 DEF IdsHaving, Having
    <2>2. \A d \in Delivery : Removable(d) => Removable(d)'
        BY <1>1, <1>2, <1>7, <1>11, <2>1 DEF Removable, AddressOf
    <2> QED BY <1>1, <2>2 DEF Keep, RemovalOK, Inv, DataOK
<1> QED BY <1>3, <1>8, <1>9, <1>10, <1>12, <1>13 DEF Keep

\* A batch and the batcher it was cut from share no envelope.
LEMMA SplitDistinct ==
    ASSUME batcher \in Seq(Item), NEW n \in 1..Len(batcher),
           \A i, j \in DOMAIN batcher : batcher[i].id = batcher[j].id => i = j
    PROVE  LET b == SubSeq(batcher, 1, n)
               r == SubSeq(batcher, n + 1, Len(batcher))
           IN  /\ \A i, j \in DOMAIN b : b[i].id = b[j].id => i = j
               /\ \A i, j \in DOMAIN r : r[i].id = r[j].id => i = j
               /\ Ids(r) \cap Ids(b) = {}
<1> DEFINE b == SubSeq(batcher, 1, n)
           r == SubSeq(batcher, n + 1, Len(batcher))
<1>1. Len(batcher) \in Nat /\ DOMAIN batcher = 1..Len(batcher)
    BY LenProperties
<1>2. \A i \in 1..Len(batcher) : batcher[i] \in Item
    BY ElementOfSeq
<1>3. DOMAIN b = 1..n /\ \A i \in 1..n : b[i] = batcher[i]
    <2>1. /\ b \in Seq(Item)
          /\ Len(b) = IF 1 <= n THEN n - 1 + 1 ELSE 0
          /\ \A i \in 1..(n - 1 + 1) : b[i] = batcher[1 + i - 1]
        BY <1>1, <1>2, SubSeqProperties
    <2> HIDE DEF b
    <2>2. DOMAIN b = 1..Len(b)
        BY <2>1, LenProperties
    <2> QED BY <2>1, <2>2, <1>1
<1>4. DOMAIN r = 1..(Len(batcher) - n) /\ \A i \in DOMAIN r : r[i] = batcher[n + i]
    <2>1. \A i \in (n + 1)..Len(batcher) : batcher[i] \in Item
        BY <1>1, <1>2
    <2>2. /\ r \in Seq(Item)
          /\ Len(r) = IF n + 1 <= Len(batcher) THEN Len(batcher) - (n + 1) + 1 ELSE 0
          /\ \A i \in 1..(Len(batcher) - (n + 1) + 1) : r[i] = batcher[(n + 1) + i - 1]
        BY <1>1, <2>1, SubSeqProperties
    <2> HIDE DEF r
    <2>3. Len(r) = Len(batcher) - n
        <3>1. \A L \in Nat : \A k \in 1..L :
                 (IF k + 1 <= L THEN L - (k + 1) + 1 ELSE 0) = L - k
            OBVIOUS
        <3> QED BY <2>2, <3>1, <1>1
    <2>4. ASSUME NEW i \in 1..(Len(batcher) - n) PROVE r[i] = batcher[n + i]
        <3>1. i \in 1..(Len(batcher) - (n + 1) + 1) /\ (n + 1) + i - 1 = n + i
            BY <1>1
        <3> QED BY <2>2, <3>1
    <2>5. DOMAIN r = 1..Len(r)
        BY <2>2, LenProperties
    <2> QED BY <2>3, <2>4, <2>5
<1> HIDE DEF b, r
<1>5. \A i, j \in DOMAIN b : b[i].id = b[j].id => i = j
    BY <1>1, <1>3
<1>6. ASSUME NEW i \in DOMAIN r, NEW j \in DOMAIN r, r[i].id = r[j].id PROVE i = j
    <2>1. n + i \in DOMAIN batcher /\ n + j \in DOMAIN batcher /\ i \in Nat /\ j \in Nat
        BY <1>1, <1>4
    <2>2. n + i = n + j
        BY <1>4, <1>6, <2>1
    <2> QED BY <2>1, <2>2
<1>7. ASSUME NEW i \in DOMAIN r, NEW j \in DOMAIN b PROVE r[i].id # b[j].id
    <2>1. n + i \in DOMAIN batcher /\ j \in DOMAIN batcher /\ n + i # j
        BY <1>1, <1>3, <1>4
    <2>2. r[i] = batcher[n + i] /\ b[j] = batcher[j]
        BY <1>3, <1>4
    <2> QED BY <2>1, <2>2
<1>8. Ids(r) \cap Ids(b) = {}
    BY <1>7 DEF Ids
<1> QED BY <1>5, <1>6, <1>8 DEF b, r

\* Distinct envelopes behind distinct ones.
LEMMA ConcatDistinct ==
    ASSUME NEW b \in Seq(Item), NEW r \in Seq(Item), Ids(b) \cap Ids(r) = {},
           \A i, j \in DOMAIN b : b[i].id = b[j].id => i = j,
           \A i, j \in DOMAIN r : r[i].id = r[j].id => i = j
    PROVE  \A i, j \in DOMAIN (b \o r) : (b \o r)[i].id = (b \o r)[j].id => i = j
<1>1. PICK c : c = b \o r
    OBVIOUS
<1>2. /\ c \in Seq(Item)
      /\ Len(c) = Len(b) + Len(r)
      /\ \A i \in 1..(Len(b) + Len(r)) : c[i] = IF i <= Len(b) THEN b[i] ELSE r[i - Len(b)]
    BY <1>1, ConcatProperties
<1>3. /\ DOMAIN c = 1..Len(c) /\ DOMAIN b = 1..Len(b) /\ DOMAIN r = 1..Len(r)
      /\ Len(b) \in Nat /\ Len(r) \in Nat
    BY <1>2, LenProperties
<1>4. ASSUME NEW i \in DOMAIN c
      PROVE  \/ i \in DOMAIN b /\ c[i] = b[i] /\ c[i].id \in Ids(b)
             \/ /\ i \in Nat /\ i - Len(b) \in DOMAIN r
                /\ c[i] = r[i - Len(b)] /\ c[i].id \in Ids(r)
    <2>1. CASE i <= Len(b)
        BY <2>1, <1>2, <1>3 DEF Ids
    <2>2. CASE ~(i <= Len(b))
        <3>1. i - Len(b) \in DOMAIN r /\ i \in Nat
            BY <2>2, <1>2, <1>3
        <3>2. c[i] = r[i - Len(b)]
            BY <2>2, <1>2, <1>3
        <3> QED BY <3>1, <3>2 DEF Ids
    <2> QED BY <2>1, <2>2
<1>5. ASSUME NEW i \in DOMAIN c, NEW j \in DOMAIN c, c[i].id = c[j].id PROVE i = j
    <2>1. CASE c[i].id \in Ids(b)
        BY <1>4, <1>5, <2>1
    <2>2. CASE c[i].id \notin Ids(b)
        <3>1. /\ i \in Nat /\ j \in Nat
              /\ i - Len(b) \in DOMAIN r /\ j - Len(b) \in DOMAIN r
              /\ r[i - Len(b)].id = r[j - Len(b)].id
            BY <1>4, <1>5, <2>2
        <3>2. i - Len(b) = j - Len(b)
            BY <3>1
        <3> QED BY <3>1, <3>2, <1>3
    <2> QED BY <2>1, <2>2
<1> QED BY <1>1, <1>5

\* The items made of rows in some order are distinct.
LEMMA ReadItems ==
    ASSUME rows \in [Delivery -> Row], NEW S \in SUBSET Delivery, IsFiniteSet(S),
           NEW q \in Ordering(S)
    PROVE  LET r == [i \in DOMAIN q |->
                        [id |-> q[i], att |-> rows[q[i]].att + 1, at |-> "todo"]]
           IN  /\ r \in Seq(Item) /\ Ids(r) \subseteq S
               /\ \A i, j \in DOMAIN r : r[i].id = r[j].id => i = j
<1> DEFINE r == [i \in DOMAIN q |->
                    [id |-> q[i], att |-> rows[q[i]].att + 1, at |-> "todo"]]
           k == Cardinality(S)
<1>1. k \in Nat
    BY FS_CardinalityType
<1>2. /\ q \in [1..k -> S] /\ DOMAIN q = 1..k
      /\ \A i, j \in 1..k : i # j => q[i] # q[j]
    BY DEF Ordering
<1>3. \A i \in 1..k : r[i] \in Item /\ r[i].id = q[i] /\ q[i] \in S
    <2> TAKE i \in 1..k
    <2>1. q[i] \in S /\ q[i] \in Delivery
        BY <1>2
    <2>2. rows[q[i]].att \in Nat
        BY <2>1 DEF Row
    <2>3. r[i] = [id |-> q[i], att |-> rows[q[i]].att + 1, at |-> "todo"]
        BY <1>2
    <2> QED BY <2>1, <2>2, <2>3 DEF Item, ItemAt
<1>4. DOMAIN r = 1..k /\ r = [i \in 1..k |-> r[i]]
    BY <1>2
<1>5. r \in [1..k -> Item]
    BY <1>3, <1>4
<1> HIDE DEF r
<1>6. r \in Seq(Item)
    BY <1>1, <1>5
<1> HIDE DEF k
<1>7. Ids(r) \subseteq S
    BY <1>3, <1>4 DEF Ids
<1>8. \A i, j \in DOMAIN r : r[i].id = r[j].id => i = j
    BY <1>2, <1>3, <1>4
<1> QED BY <1>6, <1>7, <1>8 DEF r

\* Encrypted rows go back to the batcher, unless they are still there.
LEMMA KeepReread ==
    ASSUME Inv, Inv', Keep, NEW q \in Ordering(Listed("encrypted")), ReadCached(q), ~overlapped'
    PROVE  Keep'
<1> USE DEF pendVars, batchVars, outVars
<1> DEFINE S == Listed("encrypted")
           r == [i \in DOMAIN q |-> [id |-> q[i], att |-> rows[q[i]].att + 1, at |-> "todo"]]
<1>1. /\ Cacher \in frames /\ LeaveZone(Cacher)
      /\ rows' = [d \in Delivery |-> IF d \in passIds /\ rows[d].st # "none"
                                     THEN [rows[d] EXCEPT !.att = @ + 1] ELSE rows[d]]
      /\ batcher' = batcher \o r
      /\ UNCHANGED <<pendVars, sessions, batch, batchAt, loaded, sendAt, removing, removal,
                     acked, settled>>
    BY DEF ReadCached
<1>2. S \cap (Ids(batcher) \cup Ids(batch)) = {}
    BY DEF ReadCached
<1>3. Orphan \notin frames /\ NonePending
    BY <1>1, GlobalZone, Zones DEF Keep
<1>4. FrameOK' /\ Orphan \notin frames'
    BY <1>1, <1>3, FrameLeaves, Zones DEF Keep, NonePending
<1>5. \A d \in Delivery : rows'[d].st = rows[d].st
    <2>1. rows \in [Delivery -> Row]
        BY DEF Inv, DataOK
    <2> QED BY <1>1, <2>1 DEF Row
<1>6. S \in SUBSET Delivery /\ S \subseteq delivered /\ IsFiniteSet(S)
    <2>1. S \subseteq passIds /\ passIds \subseteq delivered /\ delivered \subseteq Delivery
        BY DEF Listed, Inv, DeliveredOK, DataOK
    <2>2. IsFiniteSet(delivered)
        BY DEF Inv, DeliveredOK
    <2> QED BY <2>1, <2>2, FS_Subset
<1>7. batcher \in Seq(Item) /\ rows \in [Delivery -> Row]
    BY DEF Inv, DataOK
<1>8. \A d \in S : rows[d].st = "encrypted"
    BY DEF Listed
<1> HIDE DEF S
<1>9. q \in Ordering(S)
    BY DEF S
<1>10. \A i, j \in DOMAIN batcher' : batcher'[i].id = batcher'[j].id => i = j
    <2>1. \A i, j \in DOMAIN batcher : batcher[i].id = batcher[j].id => i = j
        BY DEF Keep, DistinctOK
    <2>2. S \cap Ids(batcher) = {}
        BY <1>2
    <2>3. /\ r \in Seq(Item) /\ Ids(r) \subseteq S
          /\ \A i, j \in DOMAIN r : r[i].id = r[j].id => i = j
        BY <1>6, <1>7, <1>9, ReadItems
    <2> HIDE DEF r
    <2>4. \A i, j \in DOMAIN (batcher \o r) :
             (batcher \o r)[i].id = (batcher \o r)[j].id => i = j
        BY <1>7, <2>1, <2>2, <2>3, ConcatDistinct
    <2> QED BY <1>1, <2>4
<1>11. Ids(batcher') \subseteq Ids(batcher) \cup S
    <2>1. Ids(batcher \o r) \subseteq Ids(batcher) \cup S
        BY <1>6, <1>7, <1>9, Reread
    <2> QED BY <1>1, <2>1
<1>12. Ids(batcher)' = Ids(batcher') /\ Ids(batch)' = Ids(batch)
    BY <1>1 DEF Ids
<1>13. DistinctOK'
    BY <1>1, <1>2, <1>10, <1>11, <1>12 DEF Keep, DistinctOK
<1>14. FreshOK'
    <2>1. Ids(batch) \cup Ids(batcher) \subseteq Delivery
        BY ItemType, <1>7 DEF Inv, DataOK, Ids
    <2> QED BY <1>1, <1>5, <1>6, <1>8, <1>11, <1>12, <2>1 DEF Keep, FreshOK
<1>15. LoadedOK'
    BY <1>1, LoadedStill DEF Keep
<1>16. StepsOK' /\ RemovalOK' /\ AckOK'
    BY <1>1, <1>3, <1>5, Still DEF Inv, DataOK
<1> QED BY <1>4, <1>13, <1>14, <1>15, <1>16 DEF Keep

\* The steps of the application and of the caches.
LEMMA KeepCache ==
    ASSUME Inv, Inv', Keep, CacheStep, ~overlapped'
    PROVE  Keep'
<1> USE DEF storeVars, zoneVars, pendVars, tableVars, batchVars, outVars, passVars, historyVars
<1>1. removing' \cup removal' \subseteq Delivery
    BY DEF Inv, DataOK
<1>2. ASSUME UNCHANGED <<pendVars, tableVars, batchVars, loaded, sendAt, acked>>,
             FrameOK', Orphan \in frames => Orphan \in frames', settled \subseteq settled',
             \A d \in removing' \cup removal' : d \in removing \cup removal \/ MsgOf[d] \in settled'
      PROVE  Keep'
    <2>1. StepsOK' /\ RemovalOK' /\ AckOK'
        BY <1>1, <1>2, Still
    <2>2. DistinctOK' /\ FreshOK'
        BY <1>2, QueuesStill DEF Keep
    <2>3. LoadedOK'
        BY <1>2, LoadedStill DEF Keep
    <2> QED BY <1>2, <2>1, <2>2, <2>3 DEF Keep
<1>3. ASSUME NEW d \in Delivery, Handle(d) PROVE Keep'
    <2>1. FrameOK'
        BY <1>3 DEF Handle, Keep, FrameOK
    <2>2. settled \subseteq settled'
        BY <1>3 DEF Handle
    <2>3. \A e \in removing' \cup removal' : e \in removing \cup removal \/ MsgOf[e] \in settled'
        BY <1>3 DEF Handle
    <2> QED BY <1>2, <1>3, <2>1, <2>2, <2>3 DEF Handle
<1>4. ASSUME NEW d \in Delivery, Report(d) PROVE Keep'
    <2>1. FrameOK'
        BY <1>4 DEF Report, Keep, FrameOK
    <2>2. \A e \in removing' \cup removal' : e \in removing \cup removal \/ MsgOf[e] \in settled'
        BY <1>4 DEF Report
    <2> QED BY <1>2, <1>4, <2>1, <2>2 DEF Report
<1>5. ASSUME NEW c \in Client, WithZone(c), UNCHANGED <<pendVars, batch>>
      PROVE  FrameOK' /\ (Orphan \in frames => Orphan \in frames')
    BY <1>5, FrameEnters DEF Keep
<1>6. Remover \in Client /\ Cacher \in Client
    BY DEF Client
<1>7. CASE KickRemoval
    BY <1>2, <1>5, <1>6, <1>7 DEF KickRemoval
<1>8. CASE QueueAllCached
    <2>1. CASE stopping
        <3>1. UNCHANGED <<zoneVars, pendVars, tableVars, batchVars, loaded, sendAt, outVars, historyVars>>
            BY <1>8, <2>1 DEF QueueAllCached
        <3>2. FrameOK'
            BY <3>1 DEF Keep, FrameOK
        <3> QED BY <1>2, <3>1, <3>2
    <2>2. CASE ~stopping
        BY <1>2, <1>5, <1>6, <1>8, <2>2 DEF QueueAllCached
    <2> QED BY <2>1, <2>2
<1>9. CASE AskForRows
    BY <1>2, <1>5, <1>6, <1>9 DEF AskForRows
<1>10. CASE RemoveUnprocessed
    BY <1>10, KeepRemoval
<1>11. CASE GetAllUnprocessedIds
    BY <1>11, KeepExhausted
<1>12. ASSUME NEW q \in Ordering(Listed("encrypted")), ReadCached(q) PROVE Keep'
    BY <1>12, KeepReread
<1> QED BY <1>3, <1>4, <1>7, <1>8, <1>9, <1>10, <1>11, <1>12 DEF CacheStep

-----------------------------------------------------------------------------
(* Sends. *)

\* A send takes its step on the session it found; it never touches a batch.
LEMMA KeepSend ==
    ASSUME Inv, Inv', Keep, NEW s \in Send,
           SendStep(s) \/ SendBegins(s) \/ SendFails(s)
    PROVE  Keep'
<1> USE DEF storeVars, zoneVars, pendVars, tableVars, batchVars, outVars, passVars, historyVars
<1>0. /\ sendAt \in [Send -> {"new", "queued", "loaded", "stored", "sent", "failed"}]
      /\ loaded \in [Delivery \cup Send -> SUBSET Step]
      /\ pendSess \in [Address -> SUBSET Step] /\ sessions \in [Address -> SUBSET Step]
      /\ rows \in [Delivery -> Row] /\ pendRows \in [Delivery -> Row]
      /\ PeerOf[s] \in Address /\ ZoneOf(s) = "global" /\ s \in Client
      /\ removing' \cup removal' \subseteq Delivery
    BY Empties, Zones DEF Inv, DataOK, Client
<1>1. ASSUME UNCHANGED <<pendVars, tableVars, batchVars, outVars, acked, settled>>,
             FrameOK', LoadedOK', Orphan \in frames => Orphan \in frames'
      PROVE  Keep'
    <2>1. StepsOK' /\ RemovalOK' /\ AckOK'
        BY <1>0, <1>1, Still
    <2>2. DistinctOK' /\ FreshOK'
        BY <1>1, QueuesStill DEF Keep
    <2> QED BY <1>1, <2>1, <2>2 DEF Keep
<1>2. CASE SendBegins(s)
    <2>1. WithZone(s) /\ UNCHANGED <<pendVars, tableVars, batchVars, loaded, outVars, acked, settled>>
          /\ \A t \in Send : sendAt'[t] = "loaded" => sendAt[t] = "loaded"
        BY <1>0, <1>2 DEF SendBegins
    <2>2. FrameOK' /\ (Orphan \in frames => Orphan \in frames')
        BY <2>1, <1>0, FrameEnters DEF Keep
    <2>3. LoadedOK'
        BY <2>1, LoadedStill DEF Keep
    <2> QED BY <1>1, <2>1, <2>2, <2>3
<1>3. CASE SendLoads(s)
    <2>1. FrameOK' /\ frames' = frames
        BY <1>3 DEF SendLoads, Keep, FrameOK
    <2>2. s \in frames /\ loaded' = [loaded EXCEPT ![s] = LoadSession(PeerOf[s])]
          /\ sendAt' = [sendAt EXCEPT ![s] = "loaded"]
          /\ UNCHANGED <<storeVars, batchVars, outVars, acked, settled>>
        BY <1>3 DEF SendLoads
    <2>3. Having("loaded") = {} /\ Having("loaded")' = Having("loaded")
        BY <2>2, <1>0, GlobalZone DEF Keep, Having
    <2>4. \A a : LoadSession(a)' = LoadSession(a)
        BY <2>2 DEF LoadSession
    <2>5. LoadedOK'
        BY <1>0, <2>2, <2>3, <2>4 DEF Keep, LoadedOK
    <2> QED BY <1>1, <2>1, <2>2, <2>5
<1>4. CASE SendTransmits(s)
    <2>1. s \in frames
        BY <1>0, <1>4 DEF SendTransmits, Inv, ZoneInv, InsideOK, Engaged
    <2>2. LeaveZone(s) /\ UNCHANGED <<pendVars, tableVars, batchVars, loaded, outVars, acked, settled>>
          /\ \A t \in Send : sendAt'[t] = "loaded" => sendAt[t] = "loaded"
        BY <1>0, <1>4 DEF SendTransmits
    <2>3. Orphan \notin frames
        BY <2>1, <1>0, GlobalZone DEF Keep
    <2>4. FrameOK'
        <3>1. \A d \in Delivery : pendRows'[d] = NoRow
            BY <2>2 DEF Keep, FrameOK
        <3> QED BY <2>1, <2>2, <3>1, <1>0, FrameLeaves DEF Keep
    <2>5. LoadedOK'
        BY <2>2, LoadedStill DEF Keep
    <2> QED BY <1>1, <2>2, <2>3, <2>4, <2>5
<1>5. ASSUME sendAt[s] = "loaded"
      PROVE  /\ s \in frames /\ Orphan \notin frames /\ NonePending
             /\ Having("loaded") = {} /\ batchAt # "committed"
             /\ \A a \in Address : LoadSession(a) = sessions[a]
             /\ \A x : x # "todo" => IdsHaving(x) = {}
             /\ loaded[s] = sessions[PeerOf[s]]
             /\ \A t \in Send : sendAt[t] = "loaded" /\ t # s => PeerOf[t] # PeerOf[s]
    <2>1. s \in frames
        BY <1>5 DEF Inv, ZoneInv, InsideOK, Engaged
    <2>2. /\ Orphan \notin frames /\ NonePending /\ batchAt # "committed"
          /\ Having("loaded") = {}
          /\ \A a \in Address : LoadSession(a) = sessions[a]
          /\ \A x : x # "todo" => IdsHaving(x) = {}
        BY <2>1, <1>0, GlobalZone DEF Keep
    <2>3. loaded[s] \subseteq LoadSession(PeerOf[s]) /\ LoadSession(PeerOf[s]) \subseteq loaded[s]
        BY <1>5 DEF Keep, LoadedOK, Inv, SessionInv, SessionsOK
    <2>4. \A t \in Send : sendAt[t] = "loaded" /\ t # s => PeerOf[t] # PeerOf[s]
        BY <1>5 DEF Inv, SessionInv, OneJob, Engaged
    <2> QED BY <1>0, <2>1, <2>2, <2>3, <2>4
<1>6. CASE SendFails(s)
    <2>1. /\ sendAt[s] = "loaded" /\ LeaveZone(s) /\ ForgetPending
          /\ loaded' = [loaded EXCEPT ![s] = {}]
          /\ sendAt' = [sendAt EXCEPT ![s] = "failed"]
          /\ UNCHANGED <<tableVars, batchVars, outVars, acked, settled>>
        BY <1>6 DEF SendFails
    <2>2. pendSess' = pendSess /\ pendRows' = pendRows
        BY <1>0, <1>5, <2>1 DEF NonePending, ForgetPending
    <2>3. FrameOK'
        BY <1>0, <1>5, <2>1, <2>2, FrameLeaves DEF Keep, NonePending
    <2>4. Having("loaded")' = {} /\ \A a : LoadSession(a)' = LoadSession(a)
        BY <1>5, <2>1, <2>2 DEF Having, LoadSession
    <2>5. LoadedOK'
        BY <1>0, <2>1, <2>4 DEF Keep, LoadedOK
    <2> QED BY <1>1, <1>5, <2>1, <2>2, <2>3, <2>5
<1>7. CASE SendStores(s)
    <2> DEFINE sess == [pendSess EXCEPT ![PeerOf[s]] = loaded[s] \cup {s}]
    <2>1. /\ sendAt[s] = "loaded" /\ CommitDecryptResult(sess, pendRows) /\ ForgetPending
          /\ loaded' = [loaded EXCEPT ![s] = {}]
          /\ sendAt' = [sendAt EXCEPT ![s] = "stored"]
          /\ UNCHANGED <<zoneVars, batchVars, outVars, acked, settled>>
        BY <1>7 DEF SendStores
    <2>2. sess \in [Address -> SUBSET Step]
        BY <1>0 DEF Step
    <2>3. /\ sess[PeerOf[s]] = sessions[PeerOf[s]] \cup {s}
          /\ \A a \in Address : a # PeerOf[s] => sess[a] = {}
        BY <1>0, <1>5, <2>1 DEF NonePending
    <2> HIDE DEF sess
    <2>4. /\ \A d \in Delivery : rows'[d] = rows[d]
          /\ \A a \in Address : sessions'[a] = IF sess[a] # {} THEN sess[a] ELSE sessions[a]
        <3>1. \A d \in Delivery : pendRows[d] = NoRow
            BY <1>5, <2>1 DEF NonePending
        <3>2. DataOK
            BY DEF Inv
        <3>3. /\ \A d \in Delivery : rows'[d] = rows[d] \/ (rows'[d] = pendRows[d] /\ pendRows[d] # NoRow)
              /\ \A a \in Address : sessions'[a] = IF sess[a] # {} THEN sess[a] ELSE sessions[a]
            BY <1>0, <2>1, <2>2, <3>2, CommitType
        <3> QED BY <3>1, <3>3
    <2>5. /\ sessions'[PeerOf[s]] = sessions[PeerOf[s]] \cup {s}
          /\ \A a \in Address : a # PeerOf[s] => sessions'[a] = sessions[a]
        BY <1>0, <2>3, <2>4
    <2>6. \A a \in Address : LoadSession(a)' = sessions'[a]
        BY <2>1 DEF ForgetPending, LoadSession
    <2>7. s \notin Message
        BY DataAssumption
    <2>8. \A m : (Plain(m) => Plain(m)') /\ (Held(m) => Held(m)')
        BY <2>1, <2>4, Lasting
    <2>9. StepsOK'
        BY <2>5, <2>6, <2>7, <2>8 DEF Keep, StepsOK, Kept
    <2>10. AckOK'
        BY <2>1, <2>8 DEF Keep, AckOK
    <2>11. FrameOK'
        BY <2>1 DEF Keep, FrameOK, ForgetPending
    <2>12. DistinctOK' /\ FreshOK'
        <3>1. \A d \in Ids(batcher) \cup Ids(batch) : rows'[d].st = rows[d].st
            BY <2>4, ItemType DEF Inv, DataOK, Ids
        <3> QED BY <2>1, <3>1, QueuesStill DEF Keep
    <2>13. LoadedOK'
        <3>1. Having("loaded")' = {}
            BY <1>5, <2>1 DEF Having
        <3>2. ASSUME NEW t \in Send, sendAt'[t] = "loaded"
              PROVE  loaded'[t] \subseteq LoadSession(PeerOf[t])'
            <4>1. sendAt[t] = "loaded" /\ t # s
                BY <1>0, <2>1, <3>2
            <4>2. loaded'[t] = loaded[t] /\ PeerOf[t] # PeerOf[s] /\ PeerOf[t] \in Address
                BY <1>0, <1>5, <2>1, <4>1, Empties
            <4>3. loaded[t] \subseteq sessions[PeerOf[t]]
                BY <1>5, <2>1, <4>1, <4>2 DEF Keep, LoadedOK
            <4> QED BY <2>5, <2>6, <4>2, <4>3
        <3> QED BY <3>1, <3>2 DEF LoadedOK
    <2>14. RemovalOK'
        <3>1. \A x : IdsHaving(x)' = IdsHaving(x)
            BY <2>1 DEF IdsHaving, Having
        <3>2. ASSUME NEW d \in removing \cup removal PROVE Removable(d)'
            <4>1. d \in Delivery /\ AddressOf(d) \in Address /\ AddressOf(d)' = AddressOf(d)
                BY Empties DEF Inv, DataOK, AddressOf
            <4>2. LoadSession(AddressOf(d)) \subseteq LoadSession(AddressOf(d))'
                BY <1>5, <2>1, <2>5, <2>6, <4>1
            <4>3. rows'[d] = rows[d]
                BY <2>4, <4>1
            <4>4. Removable(d)
                BY DEF Keep, RemovalOK
            <4> QED BY <2>1, <3>1, <4>1, <4>2, <4>3, <4>4 DEF Removable
        <3> QED BY <2>1, <3>2 DEF RemovalOK
    <2> QED BY <2>9, <2>10, <2>11, <2>12, <2>13, <2>14 DEF Keep
<1> QED BY <1>2, <1>3, <1>4, <1>6, <1>7 DEF SendStep

-----------------------------------------------------------------------------
(* What comes from outside. *)

\* An envelope that comes in has an id of its own.
LEMMA KeepRequest ==
    ASSUME Inv, Inv', Keep, NEW d \in Delivery, HandleRequest(d)
    PROVE  Keep'
<1> USE DEF storeVars, pendVars, tableVars, outVars
<1> DEFINE x == [id |-> d, att |-> 0, at |-> "todo"]
<1>1. /\ batcher' = Append(batcher, x) /\ d \notin delivered
      /\ UNCHANGED <<storeVars, batch, batchAt, loaded, sendAt, outVars, acked, settled>>
    BY DEF HandleRequest
<1>2. x \in Item /\ x.id = d
    BY DEF Item, ItemAt
<1> HIDE DEF x
<1>3. /\ d \notin Ids(batcher) /\ d \notin Ids(batch) /\ rows[d] = NoRow
    BY <1>1 DEF Inv, DeliveredOK
<1>4. batcher \in Seq(Item)
    BY DEF Inv, DataOK
<1>5. /\ Len(batcher') = Len(batcher) + 1 /\ batcher' \in Seq(Item)
      /\ \A i \in 1..Len(batcher) : batcher'[i] = batcher[i]
      /\ batcher'[Len(batcher) + 1] = x
    BY <1>1, <1>2, <1>4, AppendProperties
<1>6. /\ Len(batcher) \in Nat /\ DOMAIN batcher = 1..Len(batcher)
      /\ DOMAIN batcher' = 1..Len(batcher')
    BY <1>4, <1>5, LenProperties
<1>7. \A i \in DOMAIN batcher' : \/ i \in DOMAIN batcher /\ batcher'[i] = batcher[i]
                                 \/ i = Len(batcher) + 1 /\ batcher'[i].id = d
    BY <1>2, <1>5, <1>6
<1>8. \A i \in DOMAIN batcher : batcher[i].id # d
    BY <1>3 DEF Ids
<1>9. \A i, j \in DOMAIN batcher' : batcher'[i].id = batcher'[j].id => i = j
    BY <1>7, <1>8 DEF Keep, DistinctOK
<1>10. Ids(batcher)' \subseteq Ids(batcher) \cup {d} /\ Ids(batch)' = Ids(batch)
    BY <1>1, <1>7 DEF Ids
<1>11. DistinctOK'
    BY <1>1, <1>3, <1>9, <1>10 DEF Keep, DistinctOK
<1>12. FreshOK'
    BY <1>1, <1>3, <1>10 DEF Keep, FreshOK, NoRow
<1>13. FrameOK'
    BY <1>1 DEF Keep, FrameOK
<1>14. LoadedOK'
    BY <1>1, LoadedStill DEF Keep
<1>15. StepsOK' /\ RemovalOK' /\ AckOK'
    BY <1>1, Still DEF Inv, DataOK
<1> QED BY <1>11, <1>12, <1>13, <1>14, <1>15 DEF Keep

\* A commit that throws and a crash leave the tables as they were.
LEMMA KeepAborts ==
    ASSUME Inv, Inv', Keep, BatchCommitFails \/ Restart
    PROVE  Keep'
<1> USE DEF tableVars, historyVars
<1>1. /\ UNCHANGED <<tableVars, acked, settled>> /\ ForgetPending
      /\ batch' = <<>> /\ batchAt' = "idle"
    BY DEF BatchCommitFails, Restart
<1>2. /\ Having("loaded")' = {} /\ Ids(batch)' = {}
      /\ \A a \in Address : LoadSession(a)' = sessions[a]
    BY <1>1 DEF Having, Ids, LoadSession, ForgetPending
<1>3. \A m : (Plain(m) => Plain(m)') /\ (Held(m) => Held(m)')
    BY <1>1, Lasting
<1>4. StepsOK'
    BY <1>1, <1>2, <1>3 DEF Keep, StepsOK, Kept
<1>5. AckOK'
    BY <1>1, <1>3 DEF Keep, AckOK
<1>6. CASE BatchCommitFails
    <2>1. Batch \in frames /\ frames' = {Orphan}
          /\ UNCHANGED <<batcher, sendAt, loaded, removing, removal>>
        BY <1>6 DEF BatchCommitFails, BodyDone, outVars
    <2>2. \A s \in Send : ~Engaged(s)
        BY <2>1, BatchZone DEF Keep
    <2>3. LoadedOK'
        BY <1>2, <2>1, <2>2 DEF LoadedOK, Engaged
    <2>4. FrameOK'
        <3>1. Orphan \notin Delivery
            BY Zones
        <3> QED BY <1>1, <2>1, <3>1 DEF FrameOK, ForgetPending
    <2>5. Ids(batcher)' = Ids(batcher)
        BY <2>1 DEF Ids
    <2>6. DistinctOK' /\ FreshOK'
        BY <1>1, <1>2, <2>1, <2>5 DEF Keep, DistinctOK, FreshOK
    <2>7. RemovalOK'
        BY <2>1 DEF RemovalOK, Removable
    <2> QED BY <1>4, <1>5, <2>3, <2>4, <2>6, <2>7 DEF Keep
<1>7. CASE Restart
    <2>1. /\ frames' = {} /\ batcher' = <<>> /\ removing' = {} /\ removal' = {}
          /\ \A s \in Send : sendAt'[s] # "loaded"
        BY <1>7 DEF Restart
    <2>2. LoadedOK'
        BY <1>2, <2>1 DEF LoadedOK
    <2>3. FrameOK'
        BY <1>1, <2>1 DEF FrameOK, ForgetPending
    <2>4. Ids(batcher)' = {}
        BY <2>1 DEF Ids
    <2>5. DistinctOK' /\ FreshOK'
        BY <1>1, <1>2, <2>1, <2>4 DEF Keep, DistinctOK, FreshOK
    <2>6. RemovalOK'
        BY <2>1 DEF RemovalOK
    <2> QED BY <1>4, <1>5, <2>2, <2>3, <2>5, <2>6 DEF Keep
<1> QED BY <1>6, <1>7

\* The environment.
LEMMA KeepEnvironment ==
    ASSUME Inv, Inv', Keep, Environment, ~overlapped'
    PROVE  Keep'
<1>1. ASSUME UNCHANGED <<storeVars, batchVars, loaded, sendAt, outVars, historyVars>> PROVE Keep'
    <2> USE DEF storeVars, batchVars, outVars, historyVars
    <2>1. FrameOK'
        BY <1>1 DEF Keep, FrameOK
    <2>2. DistinctOK' /\ FreshOK'
        BY <1>1, QueuesStill DEF Keep
    <2>3. LoadedOK'
        BY <1>1, LoadedStill DEF Keep
    <2>4. StepsOK' /\ RemovalOK' /\ AckOK'
        BY <1>1, Still DEF Inv, DataOK
    <2> QED BY <2>1, <2>2, <2>3, <2>4 DEF Keep
<1>2. CASE StopProcessing \/ StartProcessingQueue \/ RetryTimeout
    BY <1>1, <1>2 DEF StopProcessing, StartProcessingQueue, RetryTimeout
<1>3. ASSUME NEW i \in DOMAIN batch, DecryptTimesOut(i) PROVE FALSE
    BY <1>3 DEF DecryptTimesOut
<1> QED BY <1>2, <1>3, KeepRequest, KeepAborts, KeepSend DEF Environment

-----------------------------------------------------------------------------
(* The batch. *)

\* A new batch has only untouched envelopes, each of them once.
LEMMA KeepKick ==
    ASSUME Inv, Inv', Keep, NEW n \in 1..Len(batcher), KickBatch(n)
    PROVE  Keep'
<1> USE DEF pendVars, tableVars, outVars, historyVars
<1>1. /\ batchAt = "idle" /\ batchAt' = "body" /\ WithZone(Batch)
      /\ batch' = SubSeq(batcher, 1, n)
      /\ batcher' = SubSeq(batcher, n + 1, Len(batcher))
      /\ UNCHANGED <<pendVars, tableVars, loaded, sendAt, removing, removal, acked, settled>>
    BY DEF KickBatch
<1>2. batcher \in Seq(Item)
    BY DEF Inv, DataOK
<1>3. /\ \A i \in DOMAIN batch' : \E j \in DOMAIN batcher : batch'[i] = batcher[j]
      /\ Ids(batch') \cup Ids(batcher') \subseteq Ids(batcher)
    BY <1>1, <1>2, Split
<1>4. \A i \in DOMAIN batch' : batch'[i].at = "todo"
    BY <1>3 DEF Inv, ZoneInv, InsideOK
<1>5. FrameOK' /\ (Orphan \in frames => Orphan \in frames')
    <2>1. Batch \in Client
        BY DEF Client
    <2> QED BY <1>1, <1>4, <2>1, FrameEnters DEF Keep
<1>6. Ids(batch)' = Ids(batch') /\ Ids(batcher)' = Ids(batcher')
    BY DEF Ids
<1>7. DistinctOK'
    <2>1. \A i, j \in DOMAIN batcher : batcher[i].id = batcher[j].id => i = j
        BY DEF Keep, DistinctOK
    <2>2. /\ \A i, j \in DOMAIN batch' : batch'[i].id = batch'[j].id => i = j
          /\ \A i, j \in DOMAIN batcher' : batcher'[i].id = batcher'[j].id => i = j
          /\ Ids(batcher') \cap Ids(batch') = {}
        BY <1>1, <1>2, <2>1, SplitDistinct
    <2> QED BY <1>6, <2>2 DEF DistinctOK
<1>8. FreshOK'
    BY <1>1, <1>3, <1>6 DEF Keep, FreshOK
<1>9. \A x : x # "todo" => Having(x)' = {} /\ IdsHaving(x)' = {}
    BY <1>4 DEF Having, IdsHaving
<1>10. \A a : LoadSession(a)' = LoadSession(a)
    BY <1>1 DEF LoadSession
<1>11. LoadedOK'
    BY <1>1, <1>9, <1>10 DEF Keep, LoadedOK
<1>12. \A m : (Plain(m) => Plain(m)') /\ (Held(m) => Held(m)')
    BY <1>1, Lasting
<1>13. StepsOK'
    BY <1>1, <1>10, <1>12 DEF Keep, StepsOK, Kept, Decided
<1>14. AckOK'
    BY <1>1, <1>12 DEF Keep, AckOK
<1>15. RemovalOK'
    BY <1>1, <1>5, <1>9, <1>10 DEF Keep, RemovalOK, Removable, AddressOf
<1> QED BY <1>5, <1>7, <1>8, <1>11, <1>13, <1>14, <1>15 DEF Keep

\* A decryption that is decided: the envelope is still not a plaintext row,
\* and no other item has its id.
LEMMA KeepDecrypt ==
    ASSUME Inv, Inv', Keep, NEW i \in DOMAIN batch, Current(i), NEW x \in ItemAt,
           batch' = [batch EXCEPT ![i].at = x],
           UNCHANGED <<zoneVars, pendRows, tableVars, batcher, batchAt, acked, settled>>
    PROVE  /\ FrameOK' /\ DistinctOK' /\ FreshOK' /\ AckOK'
           /\ batch[i].id \in Delivery /\ rows[batch[i].id].st # "plaintext"
           /\ x # "plaintext" => batch[i].id \notin IdsHaving("plaintext")'
           /\ \A y \in {"rejected", "dropped"} : IdsHaving(y) \subseteq IdsHaving(y)'
           /\ batch[i].id \in IdsHaving(x)'
           /\ IdsHaving("plaintext")' \subseteq IdsHaving("plaintext") \cup {batch[i].id}
           /\ \A m : (Plain(m) <=> Plain(m)') /\ (Kept(m) => Kept(m)')
           /\ x \in {"plaintext", "dropped"} => Kept(MsgOf[batch[i].id])'
           /\ \A j \in Having("loaded")' : j # i => j \in Having("loaded") /\ batch[j].id # batch[i].id
           /\ \A j \in DOMAIN batch : batch'[j].id = batch[j].id
           /\ \A s \in Send : ~Engaged(s)
           /\ Orphan \notin frames
<1> USE DEF zoneVars, tableVars
<1>1. batch \in Seq(Item)
    BY DEF Inv, DataOK
<1>2. /\ DOMAIN batch' = DOMAIN batch
      /\ \A j \in DOMAIN batch : /\ batch'[j].id = batch[j].id
                                 /\ batch'[j].at = IF j = i THEN x ELSE batch[j].at
    BY <1>1, Marked
<1>3. batch[i].id \in Delivery /\ batch[i].id \in Ids(batch)
    BY <1>1, ItemType
<1>4. batchAt = "body" /\ Batch \in frames /\ batch[i].at \in {"todo", "loaded"}
    BY DEF Current, Having
<1>5. frames = {Batch} /\ \A s \in Send : ~Engaged(s)
    BY <1>4, BatchZone DEF Keep
<1>6. Orphan \notin frames
    BY <1>5 DEF Batch, Orphan
<1>7. rows[batch[i].id].st # "plaintext"
    BY <1>3, <1>4 DEF Keep, FreshOK
<1>8. \A j \in DOMAIN batch : j # i => batch[j].id # batch[i].id
    BY DEF Keep, DistinctOK
<1>9. Ids(batch)' = Ids(batch) /\ Ids(batcher)' = Ids(batcher)
    BY <1>2 DEF Ids
<1>10. DistinctOK' /\ FreshOK'
    <2>1. \A j, k \in DOMAIN batch' : batch'[j].id = batch'[k].id => j = k
        BY <1>2 DEF Keep, DistinctOK
    <2>2. DistinctOK'
        BY <1>9, <2>1 DEF Keep, DistinctOK
    <2>3. FreshOK'
        BY <1>9 DEF Keep, FreshOK
    <2> QED BY <2>2, <2>3
<1>11. FrameOK'
    BY <1>2, <1>4 DEF Keep, FrameOK
<1>12. \A m : (Plain(m) <=> Plain(m)') /\ (Held(m) <=> Held(m)')
    BY DEF Plain, Held, RowOf
<1>13. AckOK'
    BY <1>4, <1>12 DEF Keep, AckOK
<1>14. \A m : Kept(m) => Kept(m)'
    BY <1>2, <1>4, <1>12 DEF Kept, Decided
<1>15. x \in {"plaintext", "dropped"} => Kept(MsgOf[batch[i].id])'
    BY <1>2, <1>4 DEF Kept, Decided
<1>16. \A y : Having(y)' = {j \in DOMAIN batch : (IF j = i THEN x ELSE batch[j].at) = y}
    BY <1>2 DEF Having
<1>17. \A y : IdsHaving(y)' = {batch[j].id : j \in Having(y)'}
    BY <1>2, <1>16 DEF IdsHaving
<1>18. batch[i].id \in IdsHaving(x)'
    BY <1>16, <1>17
<1>19. x # "plaintext" => batch[i].id \notin IdsHaving("plaintext")'
    BY <1>8, <1>16, <1>17
<1>20. \A y \in {"rejected", "dropped"} : IdsHaving(y) \subseteq IdsHaving(y)'
    <2> SUFFICES ASSUME NEW y \in {"rejected", "dropped"}, NEW j \in Having(y)
                 PROVE  batch[j].id \in IdsHaving(y)'
        BY DEF IdsHaving
    <2>1. j \in DOMAIN batch /\ batch[j].at = y
        BY DEF Having
    <2>2. j # i
        BY <1>4, <2>1
    <2> QED BY <1>16, <1>17, <2>1, <2>2
<1>21. IdsHaving("plaintext")' \subseteq IdsHaving("plaintext") \cup {batch[i].id}
    <2> SUFFICES ASSUME NEW j \in Having("plaintext")', j # i
                 PROVE  batch[j].id \in IdsHaving("plaintext")
        BY <1>17
    <2> QED BY <1>16 DEF IdsHaving, Having
<1>22. \A j \in Having("loaded")' : j # i => j \in Having("loaded") /\ batch[j].id # batch[i].id
    BY <1>8, <1>16 DEF Having
<1> QED BY <1>2, <1>3, <1>5, <1>6, <1>7, <1>10, <1>11, <1>12, <1>13, <1>14, <1>15, <1>18, <1>19,
            <1>20, <1>21, <1>22

\* A decryption that ends without a step of the ratchet, or has not ended.
LEMMA KeepUndecrypted ==
    ASSUME Inv, Inv', Keep, NEW i \in DOMAIN batch, NEW x \in ItemAt,
           DecryptRefused(i) \/ DecryptLoads(i) \/ DecryptThrows(i, x)
    PROVE  Keep'
<1> USE DEF storeVars, zoneVars, pendVars, tableVars, outVars, historyVars
<1>0. PICK d : d = batch[i].id
    OBVIOUS
<1>1. PICK y \in ItemAt :
         /\ Current(i) /\ batch' = [batch EXCEPT ![i].at = y]
         /\ UNCHANGED <<storeVars, batcher, batchAt, sendAt, removal, acked, settled>>
         /\ \/ y = "failed" /\ UNCHANGED <<loaded, removing>>
            \/ /\ y = "loaded" /\ removing' = removing
               /\ loaded' = [loaded EXCEPT ![d] = LoadSession(AddressOf(d))]
            \/ /\ y \in {"failed", "rejected"} /\ batch[i].at = "loaded"
               /\ loaded' = [loaded EXCEPT ![d] = {}]
               /\ \/ removing' = removing
                  \/ removing' = removing \cup {d} /\ (MsgOf[d] \in loaded[d] \/ y = "rejected")
    <2>1. CASE DecryptRefused(i)
        BY <1>0, <2>1 DEF DecryptRefused, ItemAt
    <2>2. CASE DecryptLoads(i)
        BY <1>0, <2>2 DEF DecryptLoads, ItemAt
    <2>3. CASE DecryptThrows(i, x)
        BY <1>0, <2>3 DEF DecryptThrows, Thrown, IsDuplicate
    <2> QED BY <2>1, <2>2, <2>3
<1>2. /\ FrameOK' /\ DistinctOK' /\ FreshOK' /\ AckOK'
      /\ d \in Delivery /\ rows[d].st # "plaintext"
      /\ y # "plaintext" => d \notin IdsHaving("plaintext")'
      /\ \A z \in {"rejected", "dropped"} : IdsHaving(z) \subseteq IdsHaving(z)'
      /\ d \in IdsHaving(y)'
      /\ IdsHaving("plaintext")' \subseteq IdsHaving("plaintext") \cup {d}
      /\ \A m : (Plain(m) <=> Plain(m)') /\ (Kept(m) => Kept(m)')
      /\ \A j \in Having("loaded")' : j # i => j \in Having("loaded") /\ batch[j].id # d
      /\ \A j \in DOMAIN batch : batch'[j].id = batch[j].id
      /\ \A s \in Send : ~Engaged(s)
      /\ Orphan \notin frames
    BY <1>0, <1>1, KeepDecrypt
<1>3. \A a : LoadSession(a)' = LoadSession(a)
    BY <1>1 DEF LoadSession
<1>4. StepsOK'
    BY <1>1, <1>2, <1>3 DEF Keep, StepsOK
<1>5. batchAt = "body" /\ batch[i].at \in {"todo", "loaded"}
    BY <1>1 DEF Current, Having
<1>6. loaded \in [Delivery \cup Send -> SUBSET Step] /\ batch \in Seq(Item)
    BY DEF Inv, DataOK
<1>7. LoadedOK'
    <2>1. \A s \in Send : sendAt'[s] # "loaded"
        BY <1>1, <1>2 DEF Engaged
    <2>2. DOMAIN batch' = DOMAIN batch /\ batch'[i].at = y
        <3>1. batch' = [batch EXCEPT ![i].at = y]
            BY <1>1
        <3>2. /\ DOMAIN batch' = DOMAIN batch
              /\ \A j \in DOMAIN batch : batch'[j].at = IF j = i THEN y ELSE batch[j].at
            BY <1>6, <3>1, Marked
        <3> QED BY <3>2
    <2>3. ASSUME NEW j \in Having("loaded")'
          PROVE  /\ j \in DOMAIN batch
                 /\ loaded'[batch[j].id] \subseteq LoadSession(AddressOf(batch[j].id))
        <3>1. j \in DOMAIN batch /\ batch'[j].at = "loaded"
            BY <2>2 DEF Having
        <3>2. CASE j # i
            <4>1. j \in Having("loaded") /\ batch[j].id # d
                BY <1>2, <2>3, <3>2
            <4>2. batch[j].id \in Delivery
                BY <1>6, <3>1, ItemType
            <4>3. loaded'[batch[j].id] = loaded[batch[j].id]
                BY <1>1, <1>6, <4>1, <4>2
            <4>4. loaded[batch[j].id] \subseteq LoadSession(AddressOf(batch[j].id))
                BY <4>1 DEF Keep, LoadedOK
            <4> QED BY <3>1, <4>3, <4>4
        <3>3. CASE j = i
            <4>1. y = "loaded"
                BY <2>2, <3>1, <3>3
            <4>2. loaded'[d] = LoadSession(AddressOf(d))
                BY <1>1, <1>2, <1>6, <4>1
            <4> QED BY <1>0, <3>1, <3>3, <4>2
        <3> QED BY <3>2, <3>3
    <2>4. ASSUME NEW j \in Having("loaded")'
          PROVE  (loaded[batch[j].id] \subseteq LoadSession(AddressOf(batch[j].id)))'
        <3>1. j \in DOMAIN batch /\ batch'[j].id = batch[j].id
            BY <1>2, <2>3, <2>4
        <3>2. LoadSession(AddressOf(batch[j].id))' = LoadSession(AddressOf(batch[j].id))
            BY <1>1, <3>1 DEF LoadSession, AddressOf
        <3> QED BY <2>3, <2>4, <3>1, <3>2
    <2> QED BY <2>1, <2>4 DEF LoadedOK, AddressOf
<1>8. ASSUME NEW e \in removing \cup removal PROVE Removable(e)'
    <2>1. Removable(e)
        BY DEF Keep, RemovalOK
    <2>2. e = d => d \notin IdsHaving("plaintext")'
        BY <1>1, <1>2
    <2>3. e \in IdsHaving("plaintext")' => e \in IdsHaving("plaintext")
        BY <1>2, <2>2
    <2>4. AddressOf(e)' = AddressOf(e) /\ LoadSession(AddressOf(e))' = LoadSession(AddressOf(e))
        BY <1>3 DEF AddressOf
    <2>5. MsgOf[e] \in settled => MsgOf[e] \in settled'
        BY <1>1
    <2>6. batchAt' = "body" /\ rows' = rows
        BY <1>1, <1>5
    <2> QED BY <1>2, <2>1, <2>3, <2>4, <2>5, <2>6 DEF Removable
<1>9. ASSUME removing' = removing \cup {d}, MsgOf[d] \in loaded[d] \/ y = "rejected",
             y \in {"failed", "rejected"}, batch[i].at = "loaded"
      PROVE  Removable(d)'
    <2>1. CASE y = "rejected"
        BY <1>1, <1>2, <1>5, <2>1 DEF Removable
    <2>2. CASE MsgOf[d] \in loaded[d]
        <3>1. i \in Having("loaded")
            BY <1>9 DEF Having
        <3>2. MsgOf[d] \in LoadSession(AddressOf(d))
            BY <1>0, <2>2, <3>1 DEF Keep, LoadedOK
        <3>3. d \notin IdsHaving("plaintext")' /\ rows' = rows
            BY <1>1, <1>2, <1>9
        <3>4. LoadSession(AddressOf(d))' = LoadSession(AddressOf(d))
            BY <1>1 DEF LoadSession, AddressOf
        <3> QED BY <1>2, <3>2, <3>3, <3>4 DEF Removable
    <2> QED BY <1>9, <2>1, <2>2
<1>10. RemovalOK'
    BY <1>1, <1>8, <1>9 DEF RemovalOK
<1> QED BY <1>2, <1>4, <1>7, <1>10 DEF Keep

\* A decryption that succeeds: the ratchet's new step is pending together with
\* its plaintext, and it was no duplicate.
LEMMA KeepDecrypted ==
    ASSUME Inv, Inv', Keep, NEW i \in DOMAIN batch, NEW x \in ItemAt, DecryptSucceeds(i, x)
    PROVE  Keep'
<1> USE DEF zoneVars, tableVars, historyVars
<1>0. PICK d : d = batch[i].id
    OBVIOUS
<1>1. /\ Current(i) /\ batch[i].at = "loaded" /\ batch' = [batch EXCEPT ![i].at = x]
      /\ MsgOf[d] \notin loaded[d] /\ x \in {"plaintext", "dropped"}
      /\ x = "plaintext" => removing' = removing
      /\ x = "dropped" => removing' = removing \cup {d}
      /\ removal' = removal
      /\ pendSess' = Stored(d)
      /\ loaded' = [loaded EXCEPT ![d] = {}]
      /\ UNCHANGED <<zoneVars, tableVars, pendRows, batcher, batchAt, sendAt, acked, settled>>
    BY <1>0 DEF DecryptSucceeds, Decrypted, IsDuplicate
<1>2. /\ FrameOK' /\ DistinctOK' /\ FreshOK' /\ AckOK'
      /\ d \in Delivery /\ rows[d].st # "plaintext"
      /\ x # "plaintext" => d \notin IdsHaving("plaintext")'
      /\ \A z \in {"rejected", "dropped"} : IdsHaving(z) \subseteq IdsHaving(z)'
      /\ d \in IdsHaving(x)'
      /\ IdsHaving("plaintext")' \subseteq IdsHaving("plaintext") \cup {d}
      /\ \A m : (Plain(m) <=> Plain(m)') /\ (Kept(m) => Kept(m)')
      /\ Kept(MsgOf[d])'
      /\ \A j \in Having("loaded")' : j # i => j \in Having("loaded") /\ batch[j].id # d
      /\ \A j \in DOMAIN batch : batch'[j].id = batch[j].id
      /\ \A s \in Send : ~Engaged(s)
      /\ Orphan \notin frames
    BY <1>0, <1>1, KeepDecrypt
<1>3. /\ loaded \in [Delivery \cup Send -> SUBSET Step] /\ batch \in Seq(Item)
      /\ AddressOf(d) \in Address /\ MsgOf[d] \in Message /\ batchAt = "body"
      /\ i \in Having("loaded")
    BY <1>1, <1>2, Empties DEF Inv, DataOK, Current, Having
<1>4. loaded[d] = LoadSession(AddressOf(d))
    <2>1. loaded[d] \subseteq LoadSession(AddressOf(d))
        BY <1>0, <1>3 DEF Keep, LoadedOK
    <2>2. LoadSession(AddressOf(d)) \subseteq loaded[d]
        BY <1>0, <1>3 DEF Inv, SessionInv, SessionsOK
    <2> QED BY <2>1, <2>2
<1>5. /\ pendSess'[AddressOf(d)] = loaded[d] \cup {MsgOf[d]}
      /\ \A a \in Address : a # AddressOf(d) => pendSess'[a] = pendSess[a]
    BY <1>1, <1>2, StoredType DEF Inv
<1>6. /\ LoadSession(AddressOf(d))' = LoadSession(AddressOf(d)) \cup {MsgOf[d]}
      /\ \A a \in Address : a # AddressOf(d) => LoadSession(a)' = LoadSession(a)
    <2>1. pendSess'[AddressOf(d)] # {}
        BY <1>5
    <2>2. LoadSession(AddressOf(d))' = pendSess'[AddressOf(d)]
        BY <2>1 DEF LoadSession, AddressOf
    <2>3. \A a \in Address : a # AddressOf(d) => LoadSession(a)' = LoadSession(a)
        BY <1>1, <1>5 DEF LoadSession
    <2> QED BY <1>4, <1>5, <2>2, <2>3
<1>7. StepsOK'
    <2>1. \A a \in Address : \A m \in LoadSession(a)' \cap Message : Kept(m)'
        <3> SUFFICES ASSUME NEW a \in Address, NEW m \in Message, m \in LoadSession(a)'
                     PROVE  Kept(m)'
            OBVIOUS
        <3>1. CASE m = MsgOf[d]
            BY <1>2, <3>1
        <3>2. CASE m # MsgOf[d]
            <4>1. m \in LoadSession(a)
                BY <1>6, <3>2
            <4> QED BY <1>2, <4>1 DEF Keep, StepsOK
        <3> QED BY <3>1, <3>2
    <2>2. \A a \in Address : \A m \in sessions'[a] \cap Message : Plain(m)'
        BY <1>1, <1>2 DEF Keep, StepsOK
    <2> QED BY <2>1, <2>2 DEF StepsOK
<1>8. LoadedOK'
    <2>1. \A s \in Send : sendAt'[s] # "loaded"
        BY <1>1, <1>2 DEF Engaged
    <2>2. DOMAIN batch' = DOMAIN batch /\ batch'[i].at = x
        <3>1. batch' = [batch EXCEPT ![i].at = x]
            BY <1>1
        <3>2. /\ DOMAIN batch' = DOMAIN batch
              /\ \A j \in DOMAIN batch : batch'[j].at = IF j = i THEN x ELSE batch[j].at
            BY <1>3, <3>1, Marked
        <3> QED BY <3>2
    <2>3. ASSUME NEW j \in Having("loaded")'
          PROVE  (loaded[batch[j].id] \subseteq LoadSession(AddressOf(batch[j].id)))'
        <3>1. j \in DOMAIN batch /\ batch'[j].at = "loaded" /\ batch'[j].id = batch[j].id
            BY <1>2, <2>2 DEF Having
        <3>2. j # i
            BY <1>1, <2>2, <3>1
        <3>3. PICK e : e = batch[j].id
            OBVIOUS
        <3>4. j \in Having("loaded") /\ e # d /\ e \in Delivery /\ AddressOf(e) \in Address
            BY <1>2, <1>3, <3>1, <3>2, <3>3, ItemType, Empties
        <3>5. AddressOf(e) # AddressOf(d)
            BY <1>0, <1>3, <3>2, <3>3, <3>4 DEF Inv, SessionInv, OneJob
        <3>6. loaded'[e] = loaded[e] /\ loaded[e] \subseteq LoadSession(AddressOf(e))
            BY <1>1, <1>3, <3>3, <3>4 DEF Keep, LoadedOK
        <3>7. LoadSession(AddressOf(e))' = LoadSession(AddressOf(e))
            BY <1>6, <3>4, <3>5 DEF AddressOf
        <3> QED BY <3>1, <3>3, <3>6, <3>7 DEF AddressOf
    <2> QED BY <2>1, <2>3 DEF LoadedOK
<1>9. ASSUME NEW e \in removing \cup removal PROVE Removable(e)'
    <2>1. Removable(e)
        BY DEF Keep, RemovalOK
    <2>2. e \in Delivery /\ AddressOf(e) \in Address
        BY Empties DEF Inv, DataOK
    <2>3. LoadSession(AddressOf(e)) \subseteq LoadSession(AddressOf(e))'
        BY <1>6, <2>2 DEF AddressOf
    <2>4. batchAt' = "body" /\ rows' = rows /\ settled' = settled
        BY <1>1, <1>3
    <2>5. CASE /\ MsgOf[e] \in LoadSession(AddressOf(e)) /\ rows[e].st # "plaintext"
               /\ e \notin IdsHaving("plaintext")
        <3>1. e # d
            BY <1>1, <1>4, <2>5
        <3>2. e \notin IdsHaving("plaintext")'
            BY <1>2, <2>5, <3>1
        <3> QED BY <2>3, <2>4, <2>5, <3>2 DEF Removable
    <2>6. CASE MsgOf[e] \in settled
        BY <2>4, <2>6 DEF Removable
    <2>7. CASE e \in IdsHaving("rejected") \cup IdsHaving("dropped")
        <3>1. e \in IdsHaving("rejected")' \cup IdsHaving("dropped")'
            BY <1>2, <2>7
        <3> QED BY <2>4, <3>1 DEF Removable
    <2> QED BY <1>2, <2>1, <2>5, <2>6, <2>7 DEF Removable
<1>10. ASSUME x = "dropped" PROVE Removable(d)'
    BY <1>1, <1>2, <1>3, <1>10 DEF Removable
<1>11. RemovalOK'
    BY <1>1, <1>9, <1>10 DEF RemovalOK
<1> QED BY <1>2, <1>7, <1>8, <1>11 DEF Keep

\* A commit stores every decided plaintext with the step that made it, and
\* keeps the envelopes that failed.
LEMMA KeepCommit ==
    ASSUME Inv, Inv', Keep, BatchCommits
    PROVE  Keep'
<1> USE DEF zoneVars, outVars
<1>1. /\ batchAt = "body" /\ Batch \in frames /\ Having("todo") \cup Having("loaded") = {}
      /\ CommitDecryptResult(pendSess, Unprocessed) /\ ForgetPending
      /\ batchAt' = "committed"
      /\ settled' = settled \cup {MsgOf[d] : d \in IdsHaving("dropped") \cup IdsHaving("rejected")}
      /\ UNCHANGED <<zoneVars, batcher, batch, loaded, sendAt, removing, removal, acked>>
    BY DEF BatchCommits, BodyDone
<1>2. batch \in Seq(Item) /\ pendRows \in [Delivery -> Row] /\ DataOK
    BY DEF Inv, DataOK
<1>3. \A i \in DOMAIN batch : /\ batch[i].id \in Delivery /\ batch[i].id \in Ids(batch)
                              /\ batch[i].at \in {"plaintext", "failed", "rejected", "dropped"}
    BY <1>1, <1>2, ItemType DEF Having, ItemAt
<1>4. \A s \in Send : ~Engaged(s)
    BY <1>1, BatchZone DEF Keep
<1>5. ASSUME NEW d \in Delivery
      PROVE  /\ d \notin Ids(batch) => rows'[d] = rows[d]
             /\ (\E i \in Failed : batch[i].id = d) => rows'[d].st = "encrypted"
             /\ d \in IdsHaving("plaintext") => rows'[d].st = "plaintext"
             /\ d \in IdsHaving("dropped") => rows'[d] = rows[d]
    <2>1. /\ pendRows[d] = NoRow
          /\ rows'[d] = IF Unprocessed[d] # NoRow THEN Unprocessed[d] ELSE rows[d]
        BY <1>1 DEF Keep, FrameOK, CommitDecryptResult
    <2>2. /\ Unprocessed[d] = pendRows[d] \/ d \in Ids(batch)
          /\ Unprocessed[d].st = IF \E i \in Failed : batch[i].id = d THEN "encrypted"
                                 ELSE IF d \in IdsHaving("plaintext") THEN "plaintext"
                                 ELSE pendRows[d].st
        BY <1>2, UnprocessedType
    <2>3. NoRow.st = "none"
        BY DEF NoRow
    <2>4. ~(d \in IdsHaving("plaintext") /\ \E i \in Failed : batch[i].id = d)
        BY DEF Keep, DistinctOK, IdsHaving, Failed, Having
    <2>5. d \in IdsHaving("dropped") => Unprocessed[d] = pendRows[d]
        <3> SUFFICES ASSUME d \in IdsHaving("dropped") PROVE Unprocessed[d] = pendRows[d]
            OBVIOUS
        <3>1. ~(\E i \in Failed : batch[i].id = d) /\ d \notin IdsHaving("plaintext")
            BY DEF Keep, DistinctOK, IdsHaving, Failed, Having
        <3> QED BY <3>1 DEF Unprocessed
    <2> QED BY <2>1, <2>2, <2>3, <2>4, <2>5
<1>6. ASSUME NEW i \in DOMAIN batch, batch[i].at \in {"dropped", "rejected"}
      PROVE  MsgOf[batch[i].id] \in settled'
    BY <1>1, <1>6 DEF IdsHaving, Having
<1>7. ASSUME NEW i \in DOMAIN batch, batch[i].at = "plaintext"
      PROVE  rows'[batch[i].id].st = "plaintext"
    BY <1>3, <1>5, <1>7 DEF IdsHaving, Having
<1>8. ASSUME NEW i \in DOMAIN batch, batch[i].at \in {"failed", "rejected"}
      PROVE  rows'[batch[i].id].st = "encrypted"
    BY <1>3, <1>5, <1>8 DEF Failed, Having
<1>9. ASSUME NEW m, Plain(m) PROVE Plain(m)'
    <2>1. CASE m \in settled
        BY <1>1, <2>1 DEF Plain
    <2>2. ASSUME NEW d \in Delivery, MsgOf[d] = m, rows[d].st = "plaintext" PROVE Plain(m)'
        <3>1. d \notin Ids(batch)
            BY <1>1, <2>2 DEF Keep, FreshOK
        <3> QED BY <1>5, <2>2, <3>1 DEF Plain, RowOf
    <2> QED BY <1>9, <2>1, <2>2 DEF Plain, RowOf
<1>10. ASSUME NEW i \in DOMAIN batch, batch[i].at \in {"plaintext", "dropped"}
       PROVE  Plain(MsgOf[batch[i].id])'
    <2>1. PICK d \in Delivery : d = batch[i].id
        BY <1>3
    <2>2. MsgOf[d] \in settled' \/ rows'[d].st = "plaintext"
        BY <1>6, <1>7, <1>10, <2>1
    <2>3. Plain(MsgOf[d])'
        BY <2>2 DEF Plain, RowOf
    <2> QED BY <1>1, <2>1, <2>3
<1>11. ASSUME NEW m, Kept(m) PROVE Plain(m)'
    <2>1. CASE Plain(m)
        BY <1>9, <2>1
    <2>2. ASSUME NEW i \in DOMAIN batch, MsgOf[batch[i].id] = m,
                 batch[i].at \in {"plaintext", "dropped"}
          PROVE  Plain(m)'
        <3>1. PICK d \in Delivery : d = batch[i].id
            BY <1>3
        <3>2. MsgOf[d] \in settled' \/ rows'[d].st = "plaintext"
            BY <1>6, <1>7, <2>2, <3>1
        <3> QED BY <2>2, <3>1, <3>2 DEF Plain, RowOf
    <2> QED BY <1>11, <2>1, <2>2 DEF Kept, Decided
<1>12. ASSUME NEW m, Held(m) PROVE Held(m)'
    <2>1. CASE Plain(m)
        BY <1>9, <2>1 DEF Held
    <2>2. ASSUME NEW d \in Delivery, MsgOf[d] = m, rows[d].st = "encrypted" PROVE Held(m)'
        <3>1. CASE d \notin Ids(batch)
            BY <1>5, <2>2, <3>1 DEF Held, RowOf
        <3>2. ASSUME NEW i \in DOMAIN batch, batch[i].id = d PROVE Held(m)'
            <4>1. \/ MsgOf[d] \in settled' \/ rows'[d].st = "plaintext"
                  \/ rows'[d].st = "encrypted"
                BY <1>3, <1>6, <1>7, <1>8, <3>2
            <4> QED BY <2>2, <4>1 DEF Held, Plain, RowOf
        <3> QED BY <3>1, <3>2 DEF Ids
    <2> QED BY <1>12, <2>1, <2>2 DEF Held, RowOf
<1>13. \A a \in Address : sessions'[a] = LoadSession(a) /\ LoadSession(a)' = sessions'[a]
    BY <1>1 DEF CommitDecryptResult, ForgetPending, LoadSession
<1>14. StepsOK'
    BY <1>11, <1>13 DEF Keep, StepsOK, Kept
<1>15. AckOK'
    <2>1. ASSUME NEW i \in DOMAIN batch PROVE Held(MsgOf[batch[i].id])'
        <3>1. PICK d \in Delivery : d = batch[i].id
            BY <1>3
        <3>2. \/ MsgOf[d] \in settled' \/ rows'[d].st = "plaintext"
              \/ rows'[d].st = "encrypted"
            BY <1>3, <1>6, <1>7, <1>8, <3>1
        <3>3. Held(MsgOf[d])'
            BY <3>2 DEF Held, Plain, RowOf
        <3> QED BY <1>1, <3>1, <3>3
    <2> QED BY <1>1, <1>12, <2>1 DEF Keep, AckOK
<1>16. FrameOK'
    BY <1>1 DEF Keep, FrameOK, ForgetPending
<1>17. DistinctOK' /\ FreshOK'
    <2>1. Ids(batcher)' = Ids(batcher) /\ Ids(batch)' = Ids(batch)
        BY <1>1 DEF Ids
    <2>2. DistinctOK'
        BY <1>1, <2>1 DEF Keep, DistinctOK
    <2>3. \A d \in Ids(batcher) : d \in Delivery /\ d \notin Ids(batch)
        <3>1. Ids(batcher) \subseteq Delivery
            BY ItemType DEF Inv, DataOK, Ids
        <3> QED BY <3>1 DEF Keep, DistinctOK
    <2>4. FreshOK'
        BY <1>1, <1>5, <2>1, <2>3 DEF Keep, FreshOK
    <2> QED BY <2>2, <2>4
<1>18. LoadedOK'
    <2>1. Having("loaded")' = {}
        BY <1>1 DEF Having
    <2> QED BY <1>1, <1>4, <2>1 DEF LoadedOK, Engaged
<1>19. ASSUME NEW d \in removing \cup removal PROVE Removable(d)'
    <2>1. d \in Delivery /\ AddressOf(d) \in Address /\ Removable(d)
        BY Empties DEF Keep, RemovalOK, Inv, DataOK
    <2>2. CASE MsgOf[d] \in settled
        BY <1>1, <2>2 DEF Removable
    <2>3. CASE d \in IdsHaving("rejected") \cup IdsHaving("dropped")
        <3>1. MsgOf[d] \in settled'
            BY <1>1, <2>3
        <3> QED BY <3>1 DEF Removable
    <2>4. CASE /\ MsgOf[d] \in LoadSession(AddressOf(d)) /\ rows[d].st # "plaintext"
               /\ d \notin IdsHaving("plaintext")
        <3>1. MsgOf[d] \in LoadSession(AddressOf(d))'
            BY <1>13, <2>1, <2>4 DEF AddressOf
        <3>2. IdsHaving("plaintext")' = IdsHaving("plaintext")
            BY <1>1 DEF IdsHaving, Having
        <3>3. rows'[d].st # "plaintext"
            <4>1. CASE d \notin Ids(batch)
                BY <1>5, <2>1, <2>4, <4>1
            <4>2. ASSUME NEW i \in DOMAIN batch, batch[i].id = d PROVE rows'[d].st # "plaintext"
                <5>1. batch[i].at # "plaintext"
                    BY <2>4, <4>2 DEF IdsHaving, Having
                <5>2. batch[i].at = "dropped" => d \in IdsHaving("dropped")
                    BY <4>2 DEF IdsHaving, Having
                <5> QED BY <1>3, <1>5, <1>8, <2>1, <2>4, <4>2, <5>1, <5>2
            <4> QED BY <4>1, <4>2 DEF Ids
        <3> QED BY <2>4, <3>1, <3>2, <3>3 DEF Removable
    <2>5. CASE Orphan \in frames
        BY <1>1, <2>5 DEF Removable
    <2> QED BY <2>1, <2>2, <2>3, <2>4, <2>5 DEF Removable
<1>20. RemovalOK'
    BY <1>1, <1>19 DEF RemovalOK
<1> QED BY <1>14, <1>15, <1>16, <1>17, <1>18, <1>20 DEF Keep

\* The server is told to forget only what the commit has stored.
LEMMA KeepAcknowledge ==
    ASSUME Inv, Inv', Keep, BatchAcknowledges
    PROVE  Keep'
<1> USE DEF pendVars, tableVars
<1>1. /\ batchAt = "committed" /\ LeaveZone(Batch) /\ acked' = acked \cup Answered
      /\ batch' = <<>> /\ batchAt' = "idle"
      /\ UNCHANGED <<pendVars, tableVars, batcher, loaded, sendAt, removing, removal, settled>>
    BY DEF BatchAcknowledges, Acknowledge
<1>2. frames = {Batch} /\ NonePending
    BY <1>1 DEF Inv, ZoneInv, InsideOK
<1>3. frames' \subseteq Client
    BY <1>1, <1>2, Leaves DEF Inv, ZoneInv
<1>4. Orphan \notin frames /\ Orphan \notin frames' /\ frames' \cap Delivery = {}
    BY <1>2, <1>3, Zones DEF Batch, Orphan
<1>5. \A m : (Plain(m) => Plain(m)') /\ (Held(m) => Held(m)')
    BY <1>1, Lasting
<1>6. \A m \in Answered : Held(m)
    BY <1>1 DEF Answered, Keep, AckOK
<1>7. AckOK'
    BY <1>1, <1>5, <1>6 DEF Keep, AckOK
<1>8. \A a : LoadSession(a)' = LoadSession(a)
    BY <1>1 DEF LoadSession
<1>9. StepsOK'
    BY <1>1, <1>5, <1>8 DEF Keep, StepsOK, Kept, Decided
<1>10. /\ \A x : Having(x)' = {} /\ IdsHaving(x)' = {}
       /\ Ids(batch)' = {} /\ Ids(batcher)' = Ids(batcher)
    BY <1>1 DEF Having, IdsHaving, Ids
<1>11. LoadedOK'
    BY <1>1, <1>8, <1>10 DEF Keep, LoadedOK
<1>12. FrameOK'
    BY <1>1, <1>2, <1>4 DEF FrameOK, NonePending
<1>13. DistinctOK' /\ FreshOK'
    BY <1>1, <1>10 DEF Keep, DistinctOK, FreshOK
<1>14. RemovalOK'
    BY <1>1, <1>4, <1>8, <1>10 DEF Keep, RemovalOK, Removable, AddressOf
<1> QED BY <1>7, <1>9, <1>11, <1>12, <1>13, <1>14 DEF Keep

-----------------------------------------------------------------------------
(* The results. *)

\* Every step keeps the invariant.
LEMMA KeepNext ==
    ASSUME Inv, Inv', KeepInv, [Next]_vars
    PROVE  KeepInv'
<1> SUFFICES ASSUME ~overlapped' PROVE Keep'
    BY DEF KeepInv
<1>1. overlapped \in BOOLEAN
    BY DEF Inv, DataOK
<1>2. CASE UNCHANGED vars
    <2> USE DEF vars, storeVars, batchVars, outVars, historyVars
    <2>0. Keep
        BY <1>2 DEF KeepInv
    <2>1. FrameOK'
        BY <1>2, <2>0 DEF Keep, FrameOK
    <2>2. DistinctOK' /\ FreshOK'
        BY <1>2, <2>0, QueuesStill DEF Keep
    <2>3. LoadedOK'
        BY <1>2, <2>0, LoadedStill DEF Keep
    <2>4. StepsOK' /\ RemovalOK' /\ AckOK'
        BY <1>2, <2>0, Still DEF Inv, DataOK
    <2> QED BY <2>1, <2>2, <2>3, <2>4 DEF Keep
<1>3. CASE Next
    <2>1. ~overlapped
        <3> USE DEF historyVars
        <3>1. ASSUME NEW i, KickBatch(i) \/ DecryptRefused(i) \/ DecryptLoads(i) PROVE overlapped' = overlapped
            BY <3>1 DEF KickBatch, DecryptRefused, DecryptLoads
        <3>2. ASSUME NEW i, NEW x, DecryptThrows(i, x) \/ DecryptSucceeds(i, x) PROVE overlapped' = overlapped
            BY <3>2 DEF DecryptThrows, DecryptSucceeds
        <3>3. ASSUME BatchCommits \/ BatchLeavesPending \/ BatchAcknowledges PROVE overlapped' = overlapped
            BY <3>3 DEF BatchCommits, BatchLeavesPending, BatchAcknowledges
        <3>4. BatchStep => overlapped' = overlapped
            BY <3>1, <3>2, <3>3 DEF BatchStep
        <3>5. ASSUME NEW d, LateDecryption(d) \/ Handle(d) \/ Report(d) PROVE overlapped' = overlapped
            BY <3>5 DEF LateDecryption, Handle, Report
        <3>6. ASSUME \/ KickRemoval \/ RemoveUnprocessed \/ QueueAllCached
                     \/ GetAllUnprocessedIds \/ AskForRows
              PROVE  overlapped' = overlapped
            BY <3>6 DEF KickRemoval, RemoveUnprocessed, QueueAllCached, GetAllUnprocessedIds, AskForRows
        <3>7. ASSUME NEW q, ReadCached(q) PROVE overlapped => overlapped'
            BY <3>7 DEF ReadCached
        <3>8. CacheStep => ~overlapped
            BY <3>5, <3>6, <3>7 DEF CacheStep
        <3>9. ASSUME NEW s, SendStep(s) \/ SendBegins(s) \/ SendFails(s) PROVE overlapped' = overlapped
            BY <3>9 DEF SendStep, SendLoads, SendStores, SendTransmits, SendBegins, SendFails
        <3>10. ASSUME NEW d, HandleRequest(d) PROVE overlapped' = overlapped
            BY <3>10 DEF HandleRequest
        <3>11. ASSUME NEW i, DecryptTimesOut(i) PROVE FALSE
            BY <3>11 DEF DecryptTimesOut
        <3>12. ASSUME \/ BatchCommitFails \/ StopProcessing \/ StartProcessingQueue
                      \/ RetryTimeout \/ Restart
               PROVE  overlapped' = overlapped
            BY <3>12 DEF BatchCommitFails, StopProcessing, StartProcessingQueue, RetryTimeout, Restart
        <3>13. Environment => ~overlapped
            BY <3>9, <3>10, <3>11, <3>12 DEF Environment
        <3> QED BY <1>3, <3>4, <3>5, <3>8, <3>9, <3>13 DEF Next, Internal
    <2>2. Keep
        BY <2>1 DEF KeepInv
    <2>3. ASSUME NEW d \in Delivery, LateDecryption(d) PROVE FALSE
        BY <2>2, <2>3 DEF LateDecryption, Keep, FrameOK
    <2>4. ASSUME BatchLeavesPending PROVE FALSE
        BY <2>2, <2>4, BatchZone DEF BatchLeavesPending, BodyDone, Keep
    <2>5. CASE BatchStep
        <3>1. ASSUME NEW n \in 1..Len(batcher), KickBatch(n) PROVE Keep'
            BY <2>2, <3>1, KeepKick
        <3>2. ASSUME NEW i \in DOMAIN batch, DecryptRefused(i) \/ DecryptLoads(i) PROVE Keep'
            <4>1. "failed" \in ItemAt
                BY DEF ItemAt
            <4> QED BY <2>2, <3>2, <4>1, KeepUndecrypted
        <3>3. ASSUME NEW i \in DOMAIN batch, NEW x \in ItemAt, DecryptThrows(i, x) PROVE Keep'
            BY <2>2, <3>3, KeepUndecrypted
        <3>4. ASSUME NEW i \in DOMAIN batch, NEW x \in ItemAt, DecryptSucceeds(i, x) PROVE Keep'
            BY <2>2, <3>4, KeepDecrypted
        <3> QED BY <2>2, <2>4, <2>5, <3>1, <3>2, <3>3, <3>4, KeepCommit, KeepAcknowledge
               DEF BatchStep
    <2> QED BY <1>3, <2>2, <2>3, <2>5, KeepCache, KeepSend, KeepEnvironment DEF Next, Internal
<1> QED BY <1>2, <1>3

\* It holds when the app starts with the rows of an earlier run.
LEMMA KeepInit == Init => KeepInv
<1> SUFFICES ASSUME Init PROVE Keep
    BY DEF KeepInv
<1> USE DEF Init, StoreInit
<1>1. FrameOK
    BY DEF FrameOK
<1>2. Ids(batcher) = {} /\ Ids(batch) = {} /\ Having("loaded") = {}
    BY DEF Ids, Having
<1>3. DistinctOK /\ FreshOK
    BY <1>2 DEF DistinctOK, FreshOK
<1>4. LoadedOK
    BY <1>2 DEF LoadedOK
<1>5. \A a \in Address : \A m \in sessions[a] \cap Message : Plain(m)
    BY DEF Plain, RowOf
<1>6. \A a \in Address : LoadSession(a) = sessions[a]
    BY DEF LoadSession
<1>7. StepsOK
    BY <1>5, <1>6 DEF StepsOK, Kept
<1>8. RemovalOK
    BY DEF RemovalOK
<1>9. AckOK
    <2>1. \A d \in Delivery : rows[d] # NoRow => rows[d].st \in {"encrypted", "plaintext"}
        OBVIOUS
    <2> QED BY <2>1 DEF AckOK, Held, Plain, RowOf
<1> QED BY <1>1, <1>3, <1>4, <1>7, <1>8, <1>9 DEF Keep

\* While no envelope is queued twice and no decryption outlives its task, what
\* is queued, stored, pending, removed and acknowledged hangs together.
THEOREM KeepInvariance == Spec => []KeepInv
<1>1. Inv /\ Inv' /\ KeepInv /\ [Next]_vars => KeepInv'
    BY KeepNext
<1> QED BY <1>1, KeepInit, Invariance, PTL DEF Spec

\* A message the server was told to forget is settled or stored, through
\* crashes, failed commits, stops and retries (decryptAndCacheBatch).
THEOREM AcknowledgedKept == Spec => []AckedKept
<1>1. KeepInv => AckedKept
    BY DEF KeepInv, Keep, AckOK, Held, Plain, AckedKept
<1> QED BY <1>1, KeepInvariance, PTL

\* The stored ratchet never steps past a message whose plaintext is neither
\* settled nor stored (commitDecryptResult, removeUnprocessed).
THEOREM PlaintextKept == Spec => []RatchetKeepsPlaintext
<1>1. KeepInv => RatchetKeepsPlaintext
    BY DEF KeepInv, Keep, StepsOK, Plain, RatchetKeepsPlaintext
<1> QED BY <1>1, KeepInvariance, PTL
=============================================================================
