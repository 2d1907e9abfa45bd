------------------------------ MODULE MCAccess ------------------------------
(***************************************************************************)
(* One browser for TLC: three requests, two texts typed, and a clock that  *)
(* ends a bucket once.  A form can be sent twice within its limit of two;  *)
(* the other keys have a limit of one, so their second request is turned   *)
(* away until the bucket has ended.  Without RequireAuth the middleware    *)
(* admits everybody: its guard only takes behaviours away.                 *)
(***************************************************************************)
EXTENDS Access

MCKeys == {"api:public", "api:auth", "cms:public", "cms:auth"}
MCLimit == [k \in MCKeys |-> IF k = "api:public" THEN 2 ELSE 1]
=============================================================================
