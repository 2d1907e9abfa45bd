--------------------------- MODULE MCInternships ---------------------------
(***************************************************************************)
(* Instances of Internships for TLC.                                       *)
(***************************************************************************)
EXTENDS Internships, TLC

CONSTANTS r1, r2, a1, a2, y1, n1, n2

\* An applicant registers.
MCDrafts == {[name |-> n1, status |-> "registered"]}

\* Staff shortlist an application, or reject it and correct its name: both may
\* be committed while a certificate is being issued for it.
MCPatches == {[name |-> Keep, status |-> "shortlisted"],
              [name |-> n2, status |-> "rejected"]}

InternshipSymmetry == Permutations({r1, r2})
=============================================================================
