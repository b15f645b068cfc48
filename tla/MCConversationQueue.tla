------------------------ MODULE MCConversationQueue --------------------------
(* Instances of ConversationQueue for TLC. *)
EXTENDS ConversationQueue, TLC

CONSTANTS c1, loud, silent, silent2

Refusal428(r, t, s) == [retryAt |-> r, hasToken |-> t, silent |-> s]

\* From the run before: a challenge only a captcha ends, or one that has matured.
RestoredChallenges == {Refusal428("none", TRUE, FALSE), Refusal428("past", TRUE, FALSE)}

\* A loud job may try again at once, a silent one is to wait.
OfferedChallenges == {Refusal428("past", FALSE, FALSE), Refusal428("future", FALSE, TRUE)}

OneConversation == [j \in Job |-> c1]
=============================================================================
