------------------------------ MODULE JobLedger ------------------------------
(***************************************************************************)
(* What a persistent job queue promises, without saying how: a job that    *)
(* was written down stays written down until it has been concluded, and a  *)
(* row that was erased never comes back.  Concluding is at-least-once: the *)
(* same job may be concluded again, by another run or after a restart.     *)
(***************************************************************************)
CONSTANT Job

VARIABLES rows,         \* the jobs with a row in the jobs table
          written,      \* the jobs that ever had one
          concluded     \* the jobs that ran to an end, or can never run

lvars == <<rows, written, concluded>>

LedgerInit == /\ rows = {}
              /\ written = {}
              /\ concluded = {}

Persist(j) == /\ j \notin written
              /\ rows' = rows \cup {j}
              /\ written' = written \cup {j}
              /\ UNCHANGED concluded

Conclude(j) == /\ j \in written
               /\ concluded' = concluded \cup {j}
               /\ UNCHANGED <<rows, written>>

Erase(j) == /\ j \in concluded
            /\ rows' = rows \ {j}
            /\ UNCHANGED <<written, concluded>>

LedgerNext == \E j \in Job : Persist(j) \/ Conclude(j) \/ Erase(j)

LedgerSpec == LedgerInit /\ [][LedgerNext]_lvars
=============================================================================
