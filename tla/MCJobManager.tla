--------------------------- MODULE MCJobManager ------------------------------
(* Instances of JobManager for TLC. *)
EXTENDS JobManager, TLC

CONSTANTS a, b, c

\* No action tells two jobs apart; used for safety only.
JobSymmetry == Permutations(Job)
=============================================================================
