-------------------------- MODULE MessageReceiver ----------------------------
(***************************************************************************)
(* Incoming envelopes from the socket to the application                   *)
(* (ts/textsecure/MessageReceiver.preload.ts), on top of the session store *)
(* it shares with the senders (ts/textsecure/OutgoingMessage.preload.ts).  *)
(*                                                                         *)
(* An envelope is put in the batcher; a batch decrypts its envelopes one   *)
(* after the other inside a zone of its own, stores plaintexts and failed  *)
(* envelopes as rows of `unprocessed` in the same transaction as the       *)
(* sessions, acknowledges, and hands the plaintexts to the application,    *)
(* which confirms them so that their rows are removed.  Rows left behind   *)
(* are queued again when processing starts and by a retry timer.           *)
(*                                                                         *)
(* `settled` and `overlapped` exist for the properties only.  overlapped   *)
(* records the two situations in which the code loses what it promised to  *)
(* keep: an encrypted row read into the batcher while it is still there    *)
(* from an earlier read, and a decryption that outlives its task's timeout *)
(* inside the zone.                                                        *)
(***************************************************************************)
EXTENDS SessionStore

CONSTANTS
    Fragile,     \* messages that may fail to decrypt (no session, no sender key)
    Unwanted,    \* messages that may be dropped once decrypted (blocked sender)
    MaxUpsets    \* bound on stops, needless starts, retries, timeouts, failed
                 \* writes and crashes together; a start after a stop and a crash
                 \* after a failed commit do not count

ASSUME ReceiverAssumption ==
    /\ Fragile \subseteq Message
    /\ Unwanted \subseteq Message
    /\ MaxUpsets \in Nat

VARIABLES
    batcher,     \* items of #decryptAndCacheBatcher, in order
    batch,       \* items of the running decryptAndCacheBatch
    batchAt,     \* where it is: "idle", "body" of its zone, "committed"
    loaded,      \* the session a session job has loaded
    sendAt,      \* where a send is
    toHandle,    \* envelopes in #decryptedQueue
    toReport,    \* DecryptionErrorEvents waiting for the application
    removing,    \* ids in #cacheRemoveBatcher
    removal,     \* ids of the running cacheRemoveBatch
    passWanted,  \* queueAllCached waits in #incomingQueue
    passIds,     \* ids the running queueAllCached has yet to read
    stopping,    \* #stoppingProcessing
    delivered,   \* envelopes that came in, each with an id of its own
    acked,       \* messages the server was told to forget
    settled,     \* messages handled, reported or deliberately dropped
    overlapped,  \* an envelope was queued twice, or a decryption outlived its task
    upsets       \* how many of the disturbances above happened

batchVars   == <<batcher, batch, batchAt>>
outVars     == <<toHandle, toReport, removing, removal>>
passVars    == <<passWanted, passIds, stopping>>
historyVars == <<acked, delivered, settled, overlapped>>
vars == <<storeVars, batchVars, loaded, sendAt, outVars, passVars, historyVars, upsets>>

ItemAt == {"todo", "loaded", "plaintext", "failed", "rejected", "dropped"}
Item   == [id : Delivery, att : Nat, at : ItemAt]

\* The app has started; rows of its earlier run were acknowledged then, and
\* the first connection has called startProcessingQueue.
Init ==
    /\ StoreInit
    /\ acked = {MsgOf[d] : d \in {e \in Delivery : rows[e] # NoRow}}
    /\ batcher = <<>>
    /\ batch = <<>>
    /\ batchAt = "idle"
    /\ loaded = [c \in Delivery \cup Send |-> {}]
    /\ sendAt = [s \in Send |-> "new"]
    /\ toHandle = {}
    /\ toReport = {}
    /\ removing = {}
    /\ removal = {}
    /\ passWanted = TRUE
    /\ passIds = {}
    /\ stopping = FALSE
    /\ delivered = {d \in Delivery : rows[d] # NoRow}
    /\ settled = {}
    /\ overlapped = FALSE
    /\ upsets = 0

Upset ==
    /\ upsets < MaxUpsets
    /\ upsets' = upsets + 1

AddressOf(d) == PeerOf[MsgOf[d]]

Ids(items)     == {items[i].id : i \in DOMAIN items}
Having(at)     == {i \in DOMAIN batch : batch[i].at = at}
IdsHaving(at)  == {batch[i].id : i \in Having(at)}

\* #encryptedQueue runs one task at a time: the first unfinished one.
Current(i) ==
    /\ batchAt = "body"
    /\ Batch \in frames
    /\ i \in Having("todo") \cup Having("loaded")
    /\ \A j \in 1..(i - 1) : batch[j].at \notin {"todo", "loaded"}

\* The session queue of an address runs one job at a time.
SessionBusy(a) ==
    \/ \E i \in Having("loaded") : AddressOf(batch[i].id) = a
    \/ \E d \in frames \cap Delivery : AddressOf(d) = a
    \/ \E s \in Send : sendAt[s] \in {"loaded", "stored"} /\ PeerOf[s] = a

-----------------------------------------------------------------------------
(* From the socket to the batcher. *)

\* handleRequest, #decryptAndCache.  The server delivers what it has no
\* acknowledgement for, and delivers it again on a new connection: each time
\* the envelope is given an id of its own.
HandleRequest(d) ==
    /\ MsgOf[d] \notin acked
    /\ d \notin delivered
    /\ delivered' = delivered \cup {d}
    /\ batcher' = Append(batcher, [id |-> d, att |-> 0, at |-> "todo"])
    /\ UNCHANGED <<storeVars, batch, batchAt, loaded, sendAt, outVars,
                   passVars, acked, settled, overlapped, upsets>>

\* The batcher's queue starts decryptAndCacheBatch with the items that were
\* kicked off together.
KickBatch(n) ==
    /\ batchAt = "idle"
    /\ batch' = SubSeq(batcher, 1, n)
    /\ batcher' = SubSeq(batcher, n + 1, Len(batcher))
    /\ batchAt' = "body"
    /\ WithZone(Batch)
    /\ UNCHANGED <<pendVars, tableVars, loaded, sendAt, outVars, passVars,
                   historyVars, upsets>>

-----------------------------------------------------------------------------
(* Decryption, in the batch's zone. *)

\* Mutation: a refused envelope is given a status of its own.
DecryptRefusedUnnamed(i) ==
    /\ Current(i)
    /\ batch[i].at = "todo"
    /\ stopping
    /\ batch' = [batch EXCEPT ![i].at = "refused"]
    /\ UNCHANGED <<storeVars, batcher, batchAt, loaded, sendAt, outVars,
                   passVars, historyVars, upsets>>

\* #unsealEnvelope and #decryptEnvelope refuse while processing stops.
DecryptRefused(i) ==
    /\ Current(i)
    /\ batch[i].at = "todo"
    /\ stopping
    /\ batch' = [batch EXCEPT ![i].at = "failed"]
    /\ UNCHANGED <<storeVars, batcher, batchAt, loaded, sendAt, outVars,
                   passVars, historyVars, upsets>>

DecryptLoads(i) ==
    /\ Current(i)
    /\ batch[i].at = "todo"
    /\ ~stopping
    /\ ~SessionBusy(AddressOf(batch[i].id))
    /\ batch' = [batch EXCEPT ![i].at = "loaded"]
    /\ loaded' = [loaded EXCEPT ![batch[i].id] = LoadSession(AddressOf(batch[i].id))]
    /\ UNCHANGED <<storeVars, batcher, batchAt, sendAt, outVars, passVars,
                   historyVars, upsets>>

\* The ratchet already took this step: libsignal's DuplicatedMessage.
IsDuplicate(d) == MsgOf[d] \in loaded[d]

\* libsignal throws; #decrypt removes a duplicate and an unwanted sender's
\* envelope from the cache and reports anything else to the application.
Thrown(d, at) ==
    \/ /\ at = "failed"
       /\ IsDuplicate(d)
       /\ removing' = removing \cup {d}
       /\ UNCHANGED toReport
    \/ /\ at = "failed"
       /\ ~IsDuplicate(d) /\ MsgOf[d] \in Fragile
       /\ toReport' = toReport \cup {d}
       /\ UNCHANGED removing
    \/ /\ at = "rejected"
       /\ ~IsDuplicate(d) /\ MsgOf[d] \in Fragile \cap Unwanted
       /\ removing' = removing \cup {d}
       /\ UNCHANGED toReport

\* What becomes of a decrypted envelope: an unwanted one is dropped, also from
\* the cache.
Decrypted(d, at) ==
    /\ ~IsDuplicate(d)
    /\ \/ at = "plaintext" /\ UNCHANGED removing
       \/ at = "dropped" /\ MsgOf[d] \in Unwanted /\ removing' = removing \cup {d}
    /\ UNCHANGED toReport

\* What storeSession makes of the pending sessions.
Stored(d) == [pendSess EXCEPT ![AddressOf(d)] = loaded[d] \cup {MsgOf[d]}]

DecryptThrows(i, at) ==
    /\ Current(i)
    /\ batch[i].at = "loaded"
    /\ Thrown(batch[i].id, at)
    /\ batch' = [batch EXCEPT ![i].at = at]
    /\ loaded' = [loaded EXCEPT ![batch[i].id] = {}]
    /\ UNCHANGED <<storeVars, batcher, batchAt, sendAt, toHandle, removal,
                   passVars, historyVars, upsets>>

DecryptSucceeds(i, at) ==
    /\ Current(i)
    /\ batch[i].at = "loaded"
    /\ Decrypted(batch[i].id, at)
    /\ pendSess' = Stored(batch[i].id)
    /\ batch' = [batch EXCEPT ![i].at = at]
    /\ loaded' = [loaded EXCEPT ![batch[i].id] = {}]
    /\ UNCHANGED <<zoneVars, tableVars, pendRows, batcher, batchAt, sendAt,
                   toHandle, removal, passVars, historyVars, upsets>>

\* runTaskWithTimeout gives up on a decryption; the session job goes on,
\* keeping its frame and its place in the session queue.
DecryptTimesOut(i) ==
    /\ Upset
    /\ Current(i)
    /\ batch[i].at = "loaded"
    /\ batch' = [batch EXCEPT ![i].at = "failed"]
    /\ frames' = frames \cup {batch[i].id}
    /\ overlapped' = TRUE
    /\ UNCHANGED <<pendVars, tableVars, currentZone, zoneQueue, batcher,
                   batchAt, loaded, sendAt, outVars, passVars, acked,
                   delivered, settled>>

\* The job of a timed out decryption ends; nobody waits for its result.  The
\* last one out of the zone commits what is pending, or reverts it when it
\* throws.
LateSuccess(d) ==
    /\ \E at \in ItemAt : Decrypted(d, at)
    /\ \/ /\ IsInTopLevelZone
          /\ CommitDecryptResult(Stored(d), pendRows)
          /\ ForgetPending
       \/ /\ ~IsInTopLevelZone
          /\ pendSess' = Stored(d)
          /\ UNCHANGED <<tableVars, pendRows>>

LateThrow(d) ==
    /\ \E at \in ItemAt : Thrown(d, at)
    /\ \/ /\ IsInTopLevelZone
          /\ ForgetPending
       \/ /\ ~IsInTopLevelZone
          /\ UNCHANGED <<pendVars>>
    /\ UNCHANGED <<tableVars>>

LateDecryption(d) ==
    /\ d \in frames
    /\ LateSuccess(d) \/ LateThrow(d)
    /\ LeaveZone(d)
    /\ loaded' = [loaded EXCEPT ![d] = {}]
    /\ UNCHANGED <<batchVars, sendAt, toHandle, removal, passVars,
                   historyVars, upsets>>

-----------------------------------------------------------------------------
(* The end of a batch. *)

\* Envelopes the server has asked an answer for; cached ones were counted as
\* an attempt before they were queued again.
Answered == {MsgOf[batch[i].id] : i \in {j \in DOMAIN batch : batch[j].att = 0}}

Failed == Having("failed") \cup Having("rejected")

\* The envelope as one of the tasks `among` leaves it; the last one with its id
\* counts.
RowFrom(among, d, st) ==
    [st |-> st,
     att |-> batch[CHOOSE i \in among :
                    /\ batch[i].id = d
                    /\ \A j \in among : batch[j].id = d => j <= i].att]

\* Mutation: only decrypted envelopes are stored.
UnprocessedDecrypted ==
    [d \in Delivery |->
        IF d \in IdsHaving("plaintext")
        THEN RowFrom(Having("plaintext"), d, "plaintext") ELSE pendRows[d]]

\* addMultipleUnprocessed(decrypted.concat(failed)): of two entries with the
\* same id the later one stays.
Unprocessed ==
    [d \in Delivery |->
        IF \E i \in Failed : batch[i].id = d THEN RowFrom(Failed, d, "encrypted")
        ELSE IF d \in IdsHaving("plaintext")
        THEN RowFrom(Having("plaintext"), d, "plaintext")
        ELSE pendRows[d]]

BodyDone ==
    /\ batchAt = "body"
    /\ Batch \in frames
    /\ Having("todo") \cup Having("loaded") = {}

\* All envelopes of the batch are dealt with and nobody else is in the zone:
\* sessions and envelopes are committed.
BatchCommits ==
    /\ BodyDone
    /\ IsInTopLevelZone
    /\ CommitDecryptResult(pendSess, Unprocessed)
    /\ ForgetPending
    /\ batchAt' = "committed"
    /\ settled' = settled \cup {MsgOf[d] : d \in IdsHaving("dropped")
                                              \cup IdsHaving("rejected")}
    /\ UNCHANGED <<zoneVars, batcher, batch, loaded, sendAt, outVars,
                   passVars, acked, delivered, overlapped, upsets>>

\* The commit throws outside of withZone's try: the envelopes are refused and
\* the zone is never left.
BatchCommitFails ==
    /\ Upset
    /\ BodyDone
    /\ IsInTopLevelZone
    /\ ForgetPending
    /\ frames' = {Orphan}
    /\ batch' = <<>>
    /\ batchAt' = "idle"
    /\ UNCHANGED <<tableVars, currentZone, zoneQueue, batcher, loaded, sendAt,
                   outVars, passVars, historyVars>>

\* After withZone: acknowledge, queue the plaintexts for the application.
Acknowledge ==
    /\ LeaveZone(Batch)
    /\ acked' = acked \cup Answered
    /\ toHandle' = toHandle \cup IdsHaving("plaintext")
    /\ batch' = <<>>
    /\ batchAt' = "idle"

BatchAcknowledges ==
    /\ batchAt = "committed"
    /\ Acknowledge
    /\ UNCHANGED <<pendVars, tableVars, batcher, loaded, sendAt, toReport,
                   removing, removal, passVars, delivered, settled,
                   overlapped, upsets>>

\* A timed out decryption is still in the zone: the batch leaves without a
\* commit, and acknowledges.
BatchLeavesPending ==
    /\ BodyDone
    /\ ~IsInTopLevelZone
    /\ pendRows' = Unprocessed
    /\ Acknowledge
    /\ UNCHANGED <<tableVars, pendSess, batcher, loaded, sendAt, toReport,
                   removing, removal, passVars, delivered, settled,
                   overlapped, upsets>>

-----------------------------------------------------------------------------
(* Handling and removal. *)

\* #handleDecryptedEnvelope, the application's handler and its confirm().
Handle(d) ==
    /\ d \in toHandle
    /\ toHandle' = toHandle \ {d}
    /\ IF stopping
       THEN UNCHANGED <<settled, removing>>
       ELSE /\ settled' = settled \cup {MsgOf[d]}
            /\ removing' = removing \cup {d}
    /\ UNCHANGED <<storeVars, batchVars, loaded, sendAt, toReport, removal,
                   passVars, acked, delivered, overlapped, upsets>>

\* The handler of DecryptionErrorEvent asks for a resend or warns the user,
\* then confirms.
Report(d) ==
    /\ d \in toReport
    /\ toReport' = toReport \ {d}
    /\ settled' = settled \cup {MsgOf[d]}
    /\ removing' = removing \cup {d}
    /\ UNCHANGED <<storeVars, batchVars, loaded, sendAt, toHandle, removal,
                   passVars, acked, delivered, overlapped, upsets>>

\* Mutation: rows are removed without entering a zone.
KickRemovalUnzoned ==
    /\ removing # {}
    /\ rows' = [d \in Delivery |-> IF d \in removing THEN NoRow ELSE rows[d]]
    /\ removing' = {}
    /\ UNCHANGED <<zoneVars, pendVars, sessions, batchVars, loaded, sendAt,
                   toHandle, toReport, removal, passVars, historyVars,
                   upsets>>

KickRemoval ==
    /\ removing # {}
    /\ removal = {}
    /\ removal' = removing
    /\ removing' = {}
    /\ WithZone(Remover)
    /\ UNCHANGED <<pendVars, tableVars, batchVars, loaded, sendAt, toHandle,
                   toReport, passVars, historyVars, upsets>>

RemoveUnprocessed ==
    /\ Remover \in frames
    /\ rows' = [d \in Delivery |-> IF d \in removal THEN NoRow ELSE rows[d]]
    /\ removal' = {}
    /\ LeaveZone(Remover)
    /\ UNCHANGED <<pendVars, sessions, batchVars, loaded, sendAt, toHandle,
                   toReport, removing, passVars, historyVars, upsets>>

-----------------------------------------------------------------------------
(* Envelopes of earlier batches and earlier runs of the app. *)

StopProcessing ==
    /\ Upset
    /\ ~stopping
    /\ stopping' = TRUE
    /\ UNCHANGED <<storeVars, batchVars, loaded, sendAt, outVars, passWanted,
                   passIds, historyVars>>

\* startProcessingQueue, called whenever the authenticated socket connects.
StartProcessingQueue ==
    /\ IF stopping THEN UNCHANGED upsets ELSE Upset
    /\ stopping' = FALSE
    /\ passWanted' = TRUE
    /\ UNCHANGED <<storeVars, batchVars, loaded, sendAt, outVars, passIds,
                   historyVars>>

\* #retryCachedTimeout fires.
RetryTimeout ==
    /\ Upset
    /\ passWanted' = TRUE
    /\ UNCHANGED <<storeVars, batchVars, loaded, sendAt, outVars, passIds,
                   stopping, historyVars>>

CacherIsOn == Cacher \in frames \/ Waiting(Cacher)

\* #incomingQueue runs one queueAllCached at a time.
QueueAllCached ==
    /\ passWanted
    /\ passIds = {}
    /\ ~CacherIsOn
    /\ passWanted' = FALSE
    /\ IF stopping THEN UNCHANGED zoneVars ELSE WithZone(Cacher)
    /\ UNCHANGED <<pendVars, tableVars, batchVars, loaded, sendAt, outVars,
                   passIds, stopping, historyVars, upsets>>

Exhausted == {d \in Delivery : rows[d].st # "none" /\ rows[d].att >= MaxAttempts}

\* getAllUnprocessedIds deletes rows tried too often and lists the others.
GetAllUnprocessedIds ==
    /\ Cacher \in frames
    /\ passIds = {}
    /\ rows' = [d \in Delivery |-> IF d \in Exhausted THEN NoRow ELSE rows[d]]
    /\ settled' = settled \cup {MsgOf[d] : d \in Exhausted}
    /\ passIds' = {d \in Delivery \ Exhausted : rows[d].st # "none"}
    /\ LeaveZone(Cacher)
    /\ UNCHANGED <<pendVars, sessions, batchVars, loaded, sendAt, outVars,
                   passWanted, stopping, acked, delivered, overlapped,
                   upsets>>

\* The zone was free in between: the generator enters it again.
AskForRows ==
    /\ passIds # {}
    /\ ~CacherIsOn
    /\ WithZone(Cacher)
    /\ UNCHANGED <<pendVars, tableVars, batchVars, loaded, sendAt, outVars,
                   passVars, historyVars, upsets>>

Listed(st) == {d \in passIds : rows[d].st = st}

\* Some order of a set of rows: receivedAtCounter.
Ordering(S) == {q \in [1..Cardinality(S) -> S] : \A i, j \in 1..Cardinality(S) :
                                                    i # j => q[i] # q[j]}

\* getUnprocessedByIdsAndIncrementAttempts reads what is left of the listed
\* rows, in the order q; encrypted ones go to the batcher, plaintexts to the
\* decrypted queue (queueCached).
ReadCached(q) ==
    /\ Cacher \in frames
    /\ passIds # {}
    /\ passIds' = {}
    /\ rows' = [d \in Delivery |-> IF d \in passIds /\ rows[d].st # "none"
                                   THEN [rows[d] EXCEPT !.att = @ + 1] ELSE rows[d]]
    /\ batcher' = batcher \o [i \in DOMAIN q |->
                      [id |-> q[i], att |-> rows[q[i]].att + 1, at |-> "todo"]]
    /\ toHandle' = toHandle \cup Listed("plaintext")
    /\ overlapped' = (\/ overlapped
                      \/ Listed("encrypted") \cap (Ids(batcher) \cup Ids(batch)) # {})
    /\ LeaveZone(Cacher)
    /\ UNCHANGED <<pendVars, sessions, batch, batchAt, loaded, sendAt,
                   toReport, removing, removal, passWanted, stopping, acked,
                   delivered, settled, upsets>>

-----------------------------------------------------------------------------
(* Senders, in the global zone. *)

\* enqueueSessionJob.
SendBegins(s) ==
    /\ sendAt[s] = "new"
    /\ sendAt' = [sendAt EXCEPT ![s] = "queued"]
    /\ WithZone(s)
    /\ UNCHANGED <<pendVars, tableVars, batchVars, loaded, outVars, passVars,
                   historyVars, upsets>>

SendLoads(s) ==
    /\ sendAt[s] = "queued"
    /\ s \in frames
    /\ ~SessionBusy(PeerOf[s])
    /\ sendAt' = [sendAt EXCEPT ![s] = "loaded"]
    /\ loaded' = [loaded EXCEPT ![s] = LoadSession(PeerOf[s])]
    /\ UNCHANGED <<storeVars, batchVars, outVars, passVars, historyVars,
                   upsets>>

\* Mutation: the session stays pending until the zone is left.
SendStoresPending(s) ==
    /\ sendAt[s] = "loaded"
    /\ pendSess' = [pendSess EXCEPT ![PeerOf[s]] = loaded[s] \cup {s}]
    /\ loaded' = [loaded EXCEPT ![s] = {}]
    /\ sendAt' = [sendAt EXCEPT ![s] = "stored"]
    /\ UNCHANGED <<zoneVars, tableVars, pendRows, batchVars, outVars,
                   passVars, historyVars, upsets>>

\* storeSession in GLOBAL_ZONE: commitZoneChanges at once, with whatever else
\* is pending.
SendStores(s) ==
    /\ sendAt[s] = "loaded"
    /\ CommitDecryptResult([pendSess EXCEPT ![PeerOf[s]] = loaded[s] \cup {s}], pendRows)
    /\ ForgetPending
    /\ loaded' = [loaded EXCEPT ![s] = {}]
    /\ sendAt' = [sendAt EXCEPT ![s] = "stored"]
    /\ UNCHANGED <<zoneVars, batchVars, outVars, passVars, historyVars,
                   upsets>>

\* The write fails: the error ends the job before anything was transmitted.
SendFails(s) ==
    /\ Upset
    /\ sendAt[s] = "loaded"
    /\ ForgetPending
    /\ LeaveZone(s)
    /\ loaded' = [loaded EXCEPT ![s] = {}]
    /\ sendAt' = [sendAt EXCEPT ![s] = "failed"]
    /\ UNCHANGED <<tableVars, batchVars, outVars, passVars, historyVars>>

SendTransmits(s) ==
    /\ sendAt[s] = "stored"
    /\ LeaveZone(s)
    /\ sendAt' = [sendAt EXCEPT ![s] = "sent"]
    /\ UNCHANGED <<pendVars, tableVars, batchVars, loaded, outVars, passVars,
                   historyVars, upsets>>

-----------------------------------------------------------------------------
\* The app dies and starts again; its first connection asks for a pass.
Restart ==
    /\ IF Orphan \in frames THEN UNCHANGED upsets ELSE Upset
    /\ currentZone' = "none"
    /\ frames' = {}
    /\ zoneQueue' = <<>>
    /\ ForgetPending
    /\ batcher' = <<>>
    /\ batch' = <<>>
    /\ batchAt' = "idle"
    /\ loaded' = [c \in Delivery \cup Send |-> {}]
    /\ sendAt' = [s \in Send |-> IF sendAt[s] \in {"new", "sent"} THEN sendAt[s]
                                 ELSE "failed"]
    /\ toHandle' = {}
    /\ toReport' = {}
    /\ removing' = {}
    /\ removal' = {}
    /\ passWanted' = TRUE
    /\ passIds' = {}
    /\ stopping' = FALSE
    /\ UNCHANGED <<tableVars, historyVars>>

BatchStep ==
    \/ \E n \in 1..Len(batcher) : KickBatch(n)
    \/ \E i \in DOMAIN batch : \/ DecryptRefused(i) \/ DecryptLoads(i)
                               \/ \E at \in ItemAt : DecryptThrows(i, at)
                               \/ \E at \in ItemAt : DecryptSucceeds(i, at)
    \/ BatchCommits
    \/ BatchLeavesPending
    \/ BatchAcknowledges

CacheStep ==
    \/ \E d \in Delivery : Handle(d)
    \/ \E d \in Delivery : Report(d)
    \/ KickRemoval
    \/ RemoveUnprocessed
    \/ QueueAllCached
    \/ GetAllUnprocessedIds
    \/ AskForRows
    \/ \E q \in Ordering(Listed("encrypted")) : ReadCached(q)

SendStep(s) == SendLoads(s) \/ SendStores(s) \/ SendTransmits(s)

Environment ==
    \/ \E d \in Delivery : HandleRequest(d)
    \/ \E i \in DOMAIN batch : DecryptTimesOut(i)
    \/ BatchCommitFails
    \/ StopProcessing
    \/ StartProcessingQueue
    \/ RetryTimeout
    \/ \E s \in Send : SendBegins(s) \/ SendFails(s)
    \/ Restart

Internal ==
    \/ BatchStep
    \/ \E d \in Delivery : LateDecryption(d)
    \/ CacheStep
    \/ \E s \in Send : SendStep(s)

Next == Internal \/ Environment

Spec == Init /\ [][Next]_vars

\* The event loop and the database never stop serving what is ready; nothing
\* outside is assumed to happen.
FairSpec == Spec /\ WF_vars(Internal)

-----------------------------------------------------------------------------
(* Properties. *)

\* Every variable keeps its type.
TypeOK ==
    /\ StoreTypeOK
    /\ batcher \in Seq(Item)
    /\ batch \in Seq(Item)
    /\ batchAt \in {"idle", "body", "committed"}
    /\ loaded \in [Delivery \cup Send -> SUBSET Step]
    /\ sendAt \in [Send -> {"new", "queued", "loaded", "stored", "sent", "failed"}]
    /\ toHandle \subseteq Delivery
    /\ toReport \subseteq Delivery
    /\ removing \subseteq Delivery
    /\ removal \subseteq Delivery
    /\ passWanted \in BOOLEAN
    /\ passIds \subseteq Delivery
    /\ stopping \in BOOLEAN
    /\ delivered \subseteq Delivery
    /\ acked \subseteq Message
    /\ settled \subseteq Message
    /\ overlapped \in BOOLEAN
    /\ upsets \in Nat

RowOf(m, st) == \E d \in Delivery : MsgOf[d] = m /\ rows[d].st = st

\* A message the server was told to forget is handled, reported, dropped on
\* purpose, or still a row of `unprocessed`, through any crash, failed commit
\* or stop (the order "persist, commit, acknowledge" of decryptAndCacheBatch).
AckedKept ==
    ~overlapped => \A m \in acked :
        m \in settled \/ RowOf(m, "plaintext") \/ RowOf(m, "encrypted")

\* The stored ratchet never steps past a message whose plaintext is neither
\* settled nor stored: such a message could not be decrypted again (sessions
\* and envelopes share one transaction, commitDecryptResult).
RatchetKeepsPlaintext ==
    ~overlapped => \A a \in Address : \A m \in sessions[a] \cap Message :
        m \in settled \/ RowOf(m, "plaintext")

\* A ciphertext leaves the device only after the ratchet step that made it is
\* stored: no later run of the app encrypts with the same message key
\* (storeSession commits at once in GLOBAL_ZONE).
SentRecorded ==
    \A s \in Send : sendAt[s] = "sent" => s \in sessions[PeerOf[s]]

\* All callers inside belong to the current zone, the zone is released with
\* the last of them, and nobody waits while it is free (#leaveZone, and the
\* assertions "Should not be in the zone", "Should be in the correct zone").
ZoneOrder ==
    /\ currentZone = "none" <=> frames = {}
    /\ currentZone = "none" => zoneQueue = <<>>
    /\ \A c \in frames : ZoneOf(c) = currentZone

\* Nothing pending survives the zone that made it: a commit in GLOBAL_ZONE
\* never carries the sessions or envelopes of a batch.
PendingIsOfBatch ==
    currentZone # "batch" => /\ \A a \in Address : pendSess[a] = {}
                             /\ \A d \in Delivery : pendRows[d] = NoRow

\* No committed ratchet step is ever overwritten by a session loaded before it
\* (zones, and one session job per address at a time).
SessionsGrow == [][\A a \in Address : sessions[a] \subseteq sessions'[a]]_vars

\* A batch's failed commit holds the zone for good.
Orphaned == Orphan \in frames

\* Every row is removed in the end: the envelope is handled, reported, found
\* to be a duplicate or given up, and its id is removed after the commit that
\* stored it, unless processing stops or a failed commit keeps the zone.
RowsCleared ==
    \A d \in Delivery :
        rows[d] # NoRow ~> rows[d] = NoRow \/ stopping \/ Orphaned \/ overlapped

\* A send that waits for the zone gets in and ends: whoever leaves a zone
\* hands it over.
SendsEnd ==
    \A s \in Send : sendAt[s] = "queued" ~> sendAt[s] \in {"sent", "failed"} \/ Orphaned
=============================================================================
