---------------------------- MODULE MCJobQueue -------------------------------
(* Instances of JobQueue for TLC. *)
EXTENDS JobQueue

CONSTANTS a, b, c, k1, k2

OneKey   == [j \in Job |-> k1]
TwoKeys  == [j \in Job |-> IF j = a THEN k1 ELSE k2]
=============================================================================
