---------------------------- MODULE MCRateLimit ----------------------------
(***************************************************************************)
(* The limiter alone for TLC: two keys with limits of two and three, and a *)
(* clock that runs for two windows and a step, so that a stretch of one    *)
(* window begins in one bucket and ends in the next.                       *)
(***************************************************************************)
EXTENDS RateLimit

MCKeys == {"api:public", "cms:auth"}
MCLimit == [k \in MCKeys |-> IF k = "api:public" THEN 2 ELSE 3]
=============================================================================
