------------------------- MODULE MCMessageReceiver ---------------------------
(* Instances of MessageReceiver for TLC: one message, delivered twice. *)
EXTENDS MessageReceiver, TLC

CONSTANTS d1, d2, m1, a, s1

Redelivered == [d \in Delivery |-> m1]
OnePeer     == [x \in Message \cup Send |-> a]
=============================================================================
