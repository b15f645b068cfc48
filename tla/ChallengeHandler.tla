-------------------------- MODULE ChallengeHandler ---------------------------
(***************************************************************************)
(* The registry of conversations the server wants a captcha for            *)
(* (ts/challenge.dom.ts, one instance in                                   *)
(* ts/services/challengeHandler.preload.ts).  A conversation is registered *)
(* when a send is answered 428, and started again, by                      *)
(* conversationJobQueue.resolveVerificationWaiter, when its retryAt is     *)
(* reached, a captcha is accepted, or the queue retries on its own.        *)
(*                                                                         *)
(* A time is "none", "future" or "past"; the future becomes the past at    *)
(* some point.  #persist is an await: register and #startQueue do their    *)
(* rest in a later step, when other calls may have come in between.        *)
(***************************************************************************)
EXTENDS Naturals, FiniteSets, Sequences

CONSTANTS
    Conversation,
    Restored      \* the challenges load() may find in storage

VARIABLES
    registered,   \* #registeredConversations
    registering,  \* challenges whose register() awaits #persist
    startTimers,  \* #startTimers
    pendingStarts,\* #pendingStarts
    isOnline,     \* #isOnline
    rateLimited,  \* #challengeRateLimitRetryAt is set
    asking,       \* calls of #solve that wait for the user's captcha
    token,        \* #challengeToken is set
    answering,    \* calls of #solve that wait for the server's verdict
    toResolve     \* calls of resolveVerificationWaiter that are to follow an await

challengeVars == <<registered, registering, startTimers, pendingStarts, isOnline,
                   rateLimited, asking, token, answering, toResolve>>

Time == {"none", "future", "past"}

\* hasToken: the server sent a token and offers a captcha.
Challenge  == [retryAt : Time, hasToken : BOOLEAN, silent : BOOLEAN]
Unregistered == [retryAt |-> "none", hasToken |-> FALSE, silent |-> TRUE,
                 is |-> "unregistered"]

IsRegistered(c) == registered[c] # Unregistered

\* load(): what an earlier run of the app had registered is being registered.
ChallengeInit ==
    /\ registered \in [Conversation -> Restored \cup {Unregistered}]
    /\ registering = [c \in Conversation |->
                        IF IsRegistered(c) THEN {registered[c]} ELSE {}]
    /\ startTimers = {}
    /\ pendingStarts = {}
    /\ isOnline = FALSE
    /\ rateLimited = FALSE
    /\ asking = 0
    /\ token = FALSE
    /\ answering = 0
    /\ toResolve = [c \in Conversation |-> 0]

ChallengeTypeOK ==
    /\ registered \in [Conversation -> Challenge \cup {Unregistered}]
    /\ registering \in [Conversation -> SUBSET Challenge]
    /\ startTimers \subseteq Conversation
    /\ pendingStarts \subseteq Conversation
    /\ isOnline \in BOOLEAN
    /\ rateLimited \in BOOLEAN
    /\ asking \in Nat
    /\ token \in BOOLEAN
    /\ answering \in Nat
    /\ toResolve \in [Conversation -> Nat]

-----------------------------------------------------------------------------
(* Parts of actions. *)

\* #solve up to the request for a captcha.
Solve ==
    /\ asking' = asking + 1
    /\ token' = TRUE

MaybeSolve(c) ==
    IF /\ IsRegistered(c) /\ registered[c].hasToken
       /\ asking + answering = 0
       /\ ~rateLimited
    THEN Solve
    ELSE UNCHANGED <<asking, token>>

\* register() up to its first await.
Register(c, challenge) ==
    IF IsRegistered(c)
    THEN UNCHANGED <<registered, registering>>
    ELSE /\ registered' = [registered EXCEPT ![c] = challenge]
         /\ registering' = [registering EXCEPT ![c] = @ \cup {challenge}]

\* unregister() of the conversations C, up to its await.
Unregister(C) ==
    /\ registered' = [c \in Conversation |->
                        IF c \in C THEN Unregistered ELSE registered[c]]
    /\ pendingStarts' = pendingStarts \ C
    /\ startTimers' = startTimers \ C

\* #startQueue() of the conversations C, up to its await: while online, and in
\* general.
StartOnline(C) ==
    /\ Unregister(C)
    /\ toResolve' = [c \in Conversation |->
                       IF c \in C THEN toResolve[c] + 1 ELSE toResolve[c]]

StartQueues(C) ==
    \/ /\ isOnline
       /\ StartOnline(C)
    \/ /\ ~isOnline
       /\ pendingStarts' = pendingStarts \cup C
       /\ UNCHANGED <<registered, startTimers, toResolve>>

\* shouldStartQueue, for every registered conversation.
Matured == {c \in Conversation : registered[c].retryAt = "past"}

-----------------------------------------------------------------------------
(* Steps of the handler. *)

\* The rest of register().
Persisted(c, challenge) ==
    /\ challenge \in registering[c]
    /\ registering' = [registering EXCEPT ![c] = @ \ {challenge}]
    /\ IF challenge.retryAt = "past"
       THEN /\ StartQueues({c})
            /\ UNCHANGED <<asking, token>>
       ELSE /\ startTimers' = IF rateLimited \/ challenge.retryAt # "none"
                              THEN startTimers \cup {c} ELSE startTimers
            /\ IF challenge.hasToken /\ ~challenge.silent
               THEN Solve ELSE UNCHANGED <<asking, token>>
            /\ UNCHANGED <<registered, pendingStarts, toResolve>>
    /\ UNCHANGED <<isOnline, rateLimited, answering>>

\* The timer of scheduleRetry; it may have been set to the end of a rate limit
\* and so fire before the registered retryAt.
StartTimer(c) ==
    /\ c \in startTimers
    /\ rateLimited' = FALSE
    /\ \/ /\ isOnline
          /\ StartOnline({c})
       \/ /\ ~isOnline
          /\ startTimers' = startTimers \ {c}
          /\ pendingStarts' = pendingStarts \cup {c}
          /\ UNCHANGED <<registered, toResolve>>
    /\ UNCHANGED <<registering, isOnline, asking, token, answering>>

\* A registered retryAt is reached.
Matures(c) ==
    /\ registered[c].retryAt = "future"
    /\ registered' = [registered EXCEPT ![c].retryAt = "past"]
    /\ UNCHANGED <<registering, startTimers, pendingStarts, isOnline, rateLimited,
                   asking, token, answering, toResolve>>

OnOffline ==
    /\ isOnline
    /\ isOnline' = FALSE
    /\ UNCHANGED <<registered, registering, startTimers, pendingStarts, rateLimited,
                   asking, token, answering, toResolve>>

\* onOnline, whenever the socket has caught up, clears #pendingStarts and starts
\* what has matured.
OnOnline ==
    /\ isOnline' = TRUE
    /\ registered' = [c \in Conversation |->
                        IF c \in Matured THEN Unregistered ELSE registered[c]]
    /\ pendingStarts' = {}
    /\ startTimers' = startTimers \ Matured
    /\ toResolve' = [c \in Conversation |->
                       IF c \in Matured THEN toResolve[c] + 1 ELSE toResolve[c]]
    /\ UNCHANGED <<registering, rateLimited, asking, token, answering>>

\* onResponse: the user solved the captcha of one of the calls of #solve.
CaptchaSolved ==
    /\ asking > 0
    /\ asking' = asking - 1
    /\ IF token
       THEN /\ token' = FALSE
            /\ answering' = answering + 1
       ELSE UNCHANGED <<token, answering>>
    /\ UNCHANGED <<registered, registering, startTimers, pendingStarts, isOnline,
                   rateLimited, toResolve>>

CaptchaAccepted ==
    /\ answering > 0
    /\ answering' = answering - 1
    /\ StartQueues({c \in Conversation : IsRegistered(c)})
    /\ UNCHANGED <<registering, isOnline, rateLimited, asking, token>>

\* The server refuses the captcha: forceWaitOnAll.
CaptchaRefused(retryAt) ==
    /\ answering > 0
    /\ answering' = answering - 1
    /\ rateLimited' = TRUE
    /\ registered' = [c \in Conversation |->
                        IF IsRegistered(c) THEN [registered[c] EXCEPT !.retryAt = retryAt]
                        ELSE Unregistered]
    /\ startTimers' = startTimers \cup {c \in Conversation : IsRegistered(c)}
    /\ UNCHANGED <<registering, pendingStarts, isOnline, asking, token, toResolve>>
=============================================================================
