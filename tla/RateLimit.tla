----------------------------- MODULE RateLimit ------------------------------
(***************************************************************************)
(* The rate limit the frontend's proxies keep in the memory of a Node      *)
(* process (memoryLimit): a bucket for each key, which counts from its     *)
(* first request and starts anew with the first request after its end.     *)
(* Time is discrete and Window is the length of a bucket in its units.     *)
(* With Upstash configured its sliding window takes the place of this one, *)
(* until a call of it fails.                                               *)
(***************************************************************************)
EXTENDS Naturals, FiniteSets

CONSTANTS
    Keys,       \* what requests are counted by
    Limit,      \* Limit[k]: requests a bucket of k lets through
    Window,     \* how long a bucket lasts
    MaxNow      \* bound: the clock stops here

ASSUME LimitAssumption == Limit \in [Keys -> Nat \ {0}]
ASSUME WindowAssumption == Window \in Nat \ {0}

VARIABLES
    now,        \* Date.now()
    bucket,     \* bucket[k]: count, resetAt, and how many buckets k has had
    passed      \* history: the requests let through

limitVars == <<now, bucket, passed>>

Bucket == [count : Nat, resetAt : Nat, no : Nat]
Passage == [key : Keys, no : Nat, seat : Nat, at : Nat]

LimitInit ==
    /\ now = 0
    /\ bucket = [k \in Keys |-> [count |-> 0, resetAt |-> 0, no |-> 0]]
    /\ passed = {}

\* Mutant: the last instant of a bucket already belongs to the next one.
EndedEarly(k) == bucket[k].no = 0 \/ bucket[k].resetAt <= now + 1

\* No bucket yet, or the last one has ended.
Ended(k) == bucket[k].no = 0 \/ bucket[k].resetAt <= now

NextBucket(k) == [count |-> 1, resetAt |-> now + Window, no |-> bucket[k].no + 1]
Counted(k) == [bucket[k] EXCEPT !.count = @ + 1]

HasRoom(k) == bucket[k].count < Limit[k]

Seated(k, b) == [key |-> k, no |-> b.no, seat |-> b.count, at |-> now]

Take(k, b) ==
    /\ bucket' = [bucket EXCEPT ![k] = b]
    /\ passed' = passed \cup {Seated(k, b)}
    /\ now' = now

\* { ok: true }
Pass(k) ==
    \/ Ended(k) /\ Take(k, NextBucket(k))
    \/ ~Ended(k) /\ HasRoom(k) /\ Take(k, Counted(k))

\* { ok: false, retryAfterSeconds }
TurnedAway(k) == ~Ended(k) /\ ~HasRoom(k)

Tick ==
    /\ now < MaxNow
    /\ now' = now + 1
    /\ UNCHANGED <<bucket, passed>>

LimitNext == Tick \/ \E k \in Keys : Pass(k)

LimitSpec == LimitInit /\ [][LimitNext]_limitVars

-----------------------------------------------------------------------------
LimitTypeOK ==
    /\ now \in Nat
    /\ bucket \in [Keys -> Bucket]
    /\ passed \subseteq Passage

\* The requests of k let through during the last Window.
Recent(k) == {p \in passed : p.key = k /\ now < p.at + Window}

\* Although the bucket is not a sliding window and a burst at its end may be
\* followed by a burst at the start of the next one, a process never lets
\* twice the limit through in any Window: the first request of a bucket has
\* aged out when the next bucket begins.
LessThanTwiceTheLimit ==
    \A k \in Keys : Cardinality(Recent(k)) < 2 * Limit[k]
=============================================================================
