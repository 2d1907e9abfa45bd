---------------------------- MODULE MCDashboard -----------------------------
(***************************************************************************)
(* The dashboard for TLC: every page, with a row that is there, one form   *)
(* for a new row and two calls the user causes (each followed by the list  *)
(* it reloads), which is enough for a save to overlap a read, a second     *)
(* save or a delete, and for their answers to come back in either order.   *)
(***************************************************************************)
EXTENDS Dashboard
=============================================================================
