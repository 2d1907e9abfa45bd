-------------------------- MODULE MCDonationLedger --------------------------
(***************************************************************************)
(* Instances of DonationLedger for TLC.                                    *)
(***************************************************************************)
EXTENDS DonationLedger, TLC

CONSTANTS r1, r2, u1, u2

Draft(status, method, ref) == [status |-> status, method |-> method, ref |-> ref]

\* Staff may record a donation that is already paid; cash needs no reference.
AllDrafts == {Draft("pending", "upi", NoRef), Draft("paid", "cash", NoRef)}
PendingUpi == {Draft("pending", "upi", NoRef)}

\* A status change, a correction of a frozen field, and one that clears it.
AllPatches == {
    [Nothing EXCEPT !.status = "refunded"],
    [Nothing EXCEPT !.status = "paid"],
    [Nothing EXCEPT !.method = "upi"],
    [Nothing EXCEPT !.ref = NoRef]}
NoPatches == {}

\* Requests are interchangeable: the model only compares them.
RequestSymmetry == Permutations({r1, r2})
=============================================================================
