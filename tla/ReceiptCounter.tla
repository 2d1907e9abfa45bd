--------------------------- MODULE ReceiptCounter ---------------------------
(***************************************************************************)
(* Allocation of receipt numbers (DonationRepository.allocate_receipt_     *)
(* number) and of internship registration and certificate numbers          *)
(* (InternshipRepository.allocate_counter).  Each runs inside the          *)
(* transaction of the request that will insert the numbered document:      *)
(* SELECT ... FOR UPDATE on the counter row, an INSERT when there is no    *)
(* row yet, then last_value + 1.  The row stays locked until the request   *)
(* commits or rolls back (app/core/db.py).                                 *)
(*                                                                         *)
(* Two requests may both find no row; the primary key then lets only one   *)
(* of them insert it and the other one fails with an IntegrityError.       *)
(***************************************************************************)
EXTENDS Naturals, Sequences

CONSTANTS
    Requests,    \* requests (transactions) that may run at the same time
    Keys,        \* primary keys of the counter table
    Start,       \* Start[k]: last_value of a new row, 1000 for receipts
    MaxGranted,  \* bound: documents committed under one key
    Nobody       \* "no request": the row is not locked

ASSUME KeysAssumption == Keys # {}
ASSUME StartAssumption == Start \in [Keys -> Nat \ {0}]
ASSUME MaxGrantedAssumption == MaxGranted \in Nat
ASSUME NobodyAssumption == Nobody \notin Requests

VARIABLES
    counter,   \* counter[k]: committed last_value, 0 when there is no row
    holder,    \* holder[k]: the request that holds the row lock, or Nobody
    stage,     \* stage[r]: how far the allocation of r has come
    key,       \* key[r]: the key r allocates under (kept when r is done)
    taken,     \* taken[r]: the number r was given, 0 before
    granted    \* history: the numbers committed under each key

counterVars == <<counter, holder, stage, key, taken, granted>>

Stages == {"none", "unseen", "held"}

TypeOK ==
    /\ counter \in [Keys -> Nat]
    /\ holder \in [Keys -> Requests \cup {Nobody}]
    /\ stage \in [Requests -> Stages]
    /\ key \in [Requests -> Keys]
    /\ taken \in [Requests -> Nat]
    /\ granted \in [Keys -> Seq(Nat)]

Init ==
    /\ counter = [k \in Keys |-> 0]
    /\ holder = [k \in Keys |-> Nobody]
    /\ stage = [r \in Requests |-> "none"]
    /\ key = [r \in Requests |-> CHOOSE k \in Keys : TRUE]
    /\ taken = [r \in Requests |-> 0]
    /\ granted = [k \in Keys |-> <<>>]

-----------------------------------------------------------------------------
Free(k) == holder[k] = Nobody

\* r holds the row (updated or inserted) with its number, uncommitted.
Take(r, k, n) ==
    /\ holder' = [holder EXCEPT ![k] = r]
    /\ stage' = [stage EXCEPT ![r] = "held"]
    /\ key' = [key EXCEPT ![r] = k]
    /\ taken' = [taken EXCEPT ![r] = n]
    /\ UNCHANGED <<counter, granted>>

\* Mutant: a plain SELECT, which neither locks the row nor waits for its lock.
IncrementWithoutLock(r, k) ==
    /\ stage[r] = "none"
    /\ Len(granted[k]) < MaxGranted
    /\ counter[k] # 0
    /\ Take(r, k, counter[k] + 1)

\* SELECT ... FOR UPDATE finds the row: wait for its lock, read the latest
\* committed value, write last_value + 1.
LockAndIncrement(r, k) ==
    /\ stage[r] = "none"
    /\ Len(granted[k]) < MaxGranted
    /\ counter[k] # 0
    /\ Free(k)
    /\ Take(r, k, counter[k] + 1)

\* SELECT ... FOR UPDATE finds no row: nothing is locked.
FindNoRow(r, k) ==
    /\ stage[r] = "none"
    /\ Len(granted[k]) < MaxGranted
    /\ counter[k] = 0
    /\ stage' = [stage EXCEPT ![r] = "unseen"]
    /\ key' = [key EXCEPT ![r] = k]
    /\ UNCHANGED <<counter, holder, taken, granted>>

\* INSERT of the missing row, which waits for another uncommitted INSERT of
\* the same key, then last_value + 1.
InsertRow(r) ==
    /\ stage[r] = "unseen"
    /\ counter[key[r]] = 0
    /\ Free(key[r])
    /\ Take(r, key[r], Start[key[r]] + 1)

\* The row was committed by somebody else after this request looked: the
\* INSERT violates the primary key and the request rolls back.
InsertConflict(r) ==
    /\ stage[r] = "unseen"
    /\ counter[key[r]] # 0
    /\ stage' = [stage EXCEPT ![r] = "none"]
    /\ UNCHANGED <<counter, holder, key, taken, granted>>

\* The request commits: the counter and the numbered document together.
CommitNumber(r) ==
    /\ stage[r] = "held"
    /\ counter' = [counter EXCEPT ![key[r]] = taken[r]]
    /\ holder' = [holder EXCEPT ![key[r]] = Nobody]
    /\ granted' = [granted EXCEPT ![key[r]] = Append(@, taken[r])]
    /\ stage' = [stage EXCEPT ![r] = "none"]
    /\ taken' = [taken EXCEPT ![r] = 0]
    /\ UNCHANGED key

\* Mutant: the failed request gives its number back by hand.
RollbackDecrements(r) ==
    /\ stage[r] # "none"
    /\ counter' = [counter EXCEPT ![key[r]] = @ - 1]
    /\ holder' = [k \in Keys |-> IF holder[k] = r THEN Nobody ELSE holder[k]]
    /\ stage' = [stage EXCEPT ![r] = "none"]
    /\ taken' = [taken EXCEPT ![r] = 0]
    /\ UNCHANGED <<key, granted>>

\* Mutant: the counter is incremented in a transaction of its own, which the
\* failing request does not undo.
RollbackKeepsNumber(r) ==
    /\ stage[r] # "none"
    /\ counter' = IF stage[r] = "held" THEN [counter EXCEPT ![key[r]] = taken[r]]
                  ELSE counter
    /\ holder' = [k \in Keys |-> IF holder[k] = r THEN Nobody ELSE holder[k]]
    /\ stage' = [stage EXCEPT ![r] = "none"]
    /\ taken' = [taken EXCEPT ![r] = 0]
    /\ UNCHANGED <<key, granted>>

\* Mutant: the transaction of a failed request stays open, with its lock.
RollbackKeepsLock(r) ==
    /\ stage[r] # "none"
    /\ stage' = [stage EXCEPT ![r] = "none"]
    /\ taken' = [taken EXCEPT ![r] = 0]
    /\ UNCHANGED <<counter, holder, key, granted>>

\* The request fails after its allocation began: everything it wrote is gone.
RollbackNumber(r) ==
    /\ stage[r] # "none"
    /\ holder' = [k \in Keys |-> IF holder[k] = r THEN Nobody ELSE holder[k]]
    /\ stage' = [stage EXCEPT ![r] = "none"]
    /\ taken' = [taken EXCEPT ![r] = 0]
    /\ UNCHANGED <<counter, key, granted>>

Allocate(r) ==
    \/ \E k \in Keys : LockAndIncrement(r, k) \/ FindNoRow(r, k)
    \/ InsertRow(r)
    \/ InsertConflict(r)

Next ==
    \E r \in Requests : Allocate(r) \/ CommitNumber(r) \/ RollbackNumber(r)

Spec == Init /\ [][Next]_counterVars

\* A request that holds a number finishes its transaction, and one that waits
\* for the row or for another INSERT is served: PostgreSQL queues the waiters
\* of a lock, and InsertRow is enabled again each time the lock is released.
Fairness ==
    \A r \in Requests :
        /\ WF_counterVars(CommitNumber(r))
        /\ SF_counterVars(InsertRow(r))
        /\ WF_counterVars(InsertConflict(r))

FairSpec == Spec /\ Fairness
-----------------------------------------------------------------------------
(***************************************************************************)
(* Properties                                                              *)
(***************************************************************************)

\* The numbers committed under a key k are Start[k] + 1, Start[k] + 2, ...
\* without a gap or a repetition, and the counter row holds the last of them:
\* failed requests, two first documents of a year and waits for the row
\* included.
GapFree ==
    \A k \in Keys :
        /\ \A i \in 1..Len(granted[k]) : granted[k][i] = Start[k] + i
        /\ counter[k] = IF granted[k] = <<>> THEN 0 ELSE Start[k] + Len(granted[k])

\* What makes GapFree inductive: a number is held only together with the lock
\* of its row, a lock only by a request that holds a number, and the number
\* is the one after the last committed number.
LockGuardsNumber ==
    /\ \A r \in Requests : stage[r] = "held" =>
           /\ holder[key[r]] = r
           /\ taken[r] = Start[key[r]] + Len(granted[key[r]]) + 1
           /\ Len(granted[key[r]]) < MaxGranted
    /\ \A k \in Keys : holder[k] # Nobody =>
           stage[holder[k]] = "held" /\ key[holder[k]] = k
    /\ \A r \in Requests : stage[r] = "unseen" => MaxGranted > 0

\* The counter implements the abstract series: every step commits the next
\* number of one series or changes nothing of it.
Series == INSTANCE NumberSeries

SeriesSpec == Series!Spec

\* A request that entered the allocation leaves it, with a number or with an
\* error: no request waits for ever on the row or on another INSERT.
AllocationEnds == \A r \in Requests : stage[r] # "none" ~> stage[r] = "none"
=============================================================================
