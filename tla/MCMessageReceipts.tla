-------------------------- MODULE MCMessageReceipts --------------------------
(* Two recipients; the first answers with two receipts, in any order. *)
EXTENDS MessageReceipts

CONSTANTS a, b, d, v, e

MCFrom == [r \in Receipt |-> IF r = e THEN b ELSE a]
MCType == [r \in Receipt |-> IF r = v THEN "Read" ELSE "Delivery"]
==============================================================================
