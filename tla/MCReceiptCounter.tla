-------------------------- MODULE MCReceiptCounter --------------------------
(***************************************************************************)
(* Instance of ReceiptCounter for TLC: three requests, so that one may     *)
(* wait while a second one inserts the row and a third one fails; two      *)
(* keys, the turn of a year or two organisations.                          *)
(***************************************************************************)
EXTENDS ReceiptCounter, TLC

\* receipt_counters starts every year at the same value.
ReceiptStart == [k \in Keys |-> 1000]

RequestSymmetry == Permutations(Requests)
=============================================================================
