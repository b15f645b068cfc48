---------------------------- MODULE SessionStore -----------------------------
(***************************************************************************)
(* The session transactions of ts/SignalProtocolStore.preload.ts: the      *)
(* re-entrant lock withZone(), the FIFO of callers it keeps waiting, the   *)
(* pending sessions and pending unprocessed envelopes of the current zone, *)
(* and the two tables they are committed to in one transaction.            *)
(*                                                                         *)
(* A session is abstracted to the set of ratchet steps it has taken: the   *)
(* messages it decrypted and the sends it encrypted.  Storing a session    *)
(* replaces the whole record, so a store made from an outdated load loses  *)
(* steps.                                                                  *)
(*                                                                         *)
(* `frames` holds one element for each outermost call of withZone that is  *)
(* inside the current zone: its cardinality tells #currentZoneDepth = 1    *)
(* from larger depths at the only place the code looks at it, the end of   *)
(* such a call.  The nested calls of loadSession, storeSession and         *)
(* addMultipleUnprocessed re-enter the zone of their caller and leave it   *)
(* without ever being the last.                                            *)
(*                                                                         *)
(* The in-memory map `sessions` and its table are one variable: the map is *)
(* set right after the write, before the committing caller leaves its zone *)
(* or its session queue, so nobody can see one without the other.          *)
(***************************************************************************)
EXTENDS Naturals, FiniteSets, Sequences

CONSTANTS
    Delivery,   \* envelopes handed to the app, each with an id of its own
    Message,    \* what the server delivers, possibly more than once
    MsgOf,      \* the message an envelope carries
    Address,    \* session addresses
    PeerOf,     \* the sender's address of a message, the receiver's of a send
    Leftover,   \* envelopes an earlier run of the app may have left as rows
    Send,       \* messages this device encrypts for one address
    MaxAttempts \* MAX_UNPROCESSED_ATTEMPTS

ASSUME DataAssumption ==
    /\ MsgOf \in [Delivery -> Message]
    /\ PeerOf \in [Message \cup Send -> Address]
    /\ Leftover \subseteq Delivery
    /\ IsFiniteSet(Leftover)
    /\ MaxAttempts \in Nat \ {0}
    /\ Message \cap Send = {}

\* The callers of withZone that are neither a send nor a late decryption.
Batch    == "decryptAndCacheBatch"
Remover  == "removeUnprocessed"
Cacher   == "queueAllCached"
\* The frame of a batch whose commit threw: nobody ever leaves it.
Orphan   == "orphan"

Caller == {Batch, Remover, Cacher, Orphan} \cup Send \cup Delivery

ASSUME CallerAssumption ==
    /\ {Batch, Remover, Cacher, Orphan} \cap (Send \cup Delivery) = {}
    /\ Send \cap Delivery = {}

VARIABLES
    currentZone, \* #currentZone, "none" while it is undefined
    frames,      \* the outermost withZone calls inside the current zone
    zoneQueue,   \* #zoneQueue
    pendSess,    \* #pendingSessions, {} where the map has no entry
    pendRows,    \* #pendingUnprocessed
    sessions,    \* the sessions table and its in-memory copy
    rows         \* the table `unprocessed`

storeVars == <<currentZone, frames, zoneQueue, pendSess, pendRows, sessions, rows>>
zoneVars  == <<currentZone, frames, zoneQueue>>
pendVars  == <<pendSess, pendRows>>
tableVars == <<sessions, rows>>

Step == Message \cup Send

\* A row of `unprocessed`: the envelope as received, or its plaintext.
Row   == [st : {"none", "encrypted", "plaintext"}, att : Nat]
NoRow == [st |-> "none", att |-> 0]

\* The app starts with the rows its earlier run left: encrypted envelopes,
\* and plaintexts, which the stored session has stepped past.
StoreInit ==
    /\ currentZone = "none"
    /\ frames = {}
    /\ zoneQueue = <<>>
    /\ pendSess = [a \in Address |-> {}]
    /\ pendRows = [d \in Delivery |-> NoRow]
    /\ rows \in {r \in [Delivery -> {NoRow} \cup [st : {"encrypted", "plaintext"}, att : {0}]] :
                    \A d \in Delivery \ Leftover : r[d] = NoRow}
    /\ sessions = [a \in Address |->
          {m \in Message : PeerOf[m] = a /\ \E d \in Delivery :
                                MsgOf[d] = m /\ rows[d].st = "plaintext"}]

StoreTypeOK ==
    /\ currentZone \in {"none", "global", "batch"}
    /\ frames \subseteq Caller
    /\ zoneQueue \in Seq(Caller)
    /\ pendSess \in [Address -> SUBSET Step]
    /\ pendRows \in [Delivery -> Row]
    /\ sessions \in [Address -> SUBSET Step]
    /\ rows \in [Delivery -> Row]

-----------------------------------------------------------------------------
(* Zones. *)

\* A batch has a zone object of its own, shared only with its decryptions;
\* everybody else uses GLOBAL_ZONE.
ZoneOf(c) == IF c \in {Batch, Orphan} \cup Delivery THEN "batch" ELSE "global"

\* Mutation: the zone locks nobody out.
MayEnterAnyway(c) == TRUE

\* The zone object of a new batch is never the current one.
MayEnter(c) ==
    \/ currentZone = "none"
    \/ currentZone = "global" /\ ZoneOf(c) = "global"

\* withZone up to its body: enter, or wait in the queue.
WithZone(c) ==
    \/ /\ MayEnter(c)
       /\ frames' = frames \cup {c}
       /\ currentZone' = ZoneOf(c)
       /\ UNCHANGED zoneQueue
    \/ /\ ~MayEnter(c)
       /\ zoneQueue' = Append(zoneQueue, c)
       /\ UNCHANGED <<frames, currentZone>>

\* Mutation: only a batch is called back.
AdmittedBatchOnly ==
    IF zoneQueue = <<>> THEN 0
    ELSE IF ZoneOf(Head(zoneQueue)) = "batch" THEN 1 ELSE 0

\* How many waiting callers the last one to leave lets in: the head of the
\* queue and those right behind it in the same zone.  A batch's zone has one
\* waiting caller, the batch.
Admitted ==
    IF zoneQueue = <<>> THEN 0
    ELSE IF ZoneOf(Head(zoneQueue)) = "batch" THEN 1
    ELSE CHOOSE n \in 1..Len(zoneQueue) :
            /\ \A i \in 1..n : ZoneOf(zoneQueue[i]) = "global"
            /\ n < Len(zoneQueue) => ZoneOf(zoneQueue[n + 1]) = "batch"

\* Mutation: the first to leave releases the zone, whoever is still inside.
LeaveZoneEarly(c) ==
    /\ frames' = {zoneQueue[i] : i \in 1..Admitted}
    /\ currentZone' = IF zoneQueue = <<>> THEN "none" ELSE ZoneOf(Head(zoneQueue))
    /\ zoneQueue' = SubSeq(zoneQueue, Admitted + 1, Len(zoneQueue))

\* Mutation: the zone is released and nobody is called.
LeaveZoneSilently(c) ==
    /\ frames' = frames \ {c}
    /\ currentZone' = IF frames = {c} THEN "none" ELSE currentZone
    /\ UNCHANGED zoneQueue

LeaveZone(c) ==
    \/ /\ frames # {c}
       /\ frames' = frames \ {c}
       /\ UNCHANGED <<currentZone, zoneQueue>>
    \/ /\ frames = {c}
       /\ frames' = {zoneQueue[i] : i \in 1..Admitted}
       /\ currentZone' = IF zoneQueue = <<>> THEN "none" ELSE ZoneOf(Head(zoneQueue))
       /\ zoneQueue' = SubSeq(zoneQueue, Admitted + 1, Len(zoneQueue))

\* #isInTopLevelZone, asked by a caller that is inside.
IsInTopLevelZone == Cardinality(frames) = 1

Waiting(c) == \E i \in DOMAIN zoneQueue : zoneQueue[i] = c

-----------------------------------------------------------------------------
(* Sessions and unprocessed envelopes. *)

\* Mutation: inside a zone only pending sessions are looked up.
LoadSessionPending(a) == pendSess[a]

LoadSession(a) == IF pendSess[a] # {} THEN pendSess[a] ELSE sessions[a]

\* commitDecryptResult: every session and every envelope given replaces the
\* one in its table, all in one transaction.
CommitDecryptResult(sess, unprocessed) ==
    /\ sessions' = [a \in Address |-> IF sess[a] # {} THEN sess[a] ELSE sessions[a]]
    /\ rows' = [d \in Delivery |->
                  IF unprocessed[d] # NoRow THEN unprocessed[d] ELSE rows[d]]

ForgetPending ==
    /\ pendSess' = [a \in Address |-> {}]
    /\ pendRows' = [d \in Delivery |-> NoRow]
=============================================================================
