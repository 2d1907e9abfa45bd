--------------------------- MODULE DonationLedger ---------------------------
(***************************************************************************)
(* Donations, their status events and their receipts: DonationService and  *)
(* DonationRepository under concurrent HTTP requests and Stripe webhooks.  *)
(*                                                                         *)
(* Every request runs in one transaction (app/core/db.py, get_db) under    *)
(* READ COMMITTED.  It loads the committed row without a lock, decides on  *)
(* what it loaded, and flushes an UPDATE of the columns whose value it     *)
(* changed: the flush waits for the row lock and applies to the row as it  *)
(* is by then, not as it was loaded.  The lock is kept, and the new row is *)
(* invisible, until the commit, which comes after the answer: it is the    *)
(* exit code of get_db, and FastAPI sends the response before it runs that *)
(* code.  A request may fail at any point, between the two as well.        *)
(*                                                                         *)
(* Data kept of a row: payment_status, payment_method and                  *)
(* transaction_reference (these two stand for all RECEIPT_FROZEN_FIELDS),  *)
(* the receipt and the gateway session.  A moment in time is named by the  *)
(* request that took it (receipt_issued_at).                               *)
(***************************************************************************)
EXTENDS Naturals, Sequences, FiniteSets

CONSTANTS
    Donations,   \* identifiers (uuid4, never reused)
    Requests,    \* requests that may be served at the same time
    Years,       \* calendar years of the receipt counter
    Methods, UtrMethods,   \* payment methods, those that need a UTR
    References,  \* transaction references typed in by people
    Sessions,    \* Stripe checkout sessions; also names their payment intent
    Drafts,      \* payloads of POST /donations
    Patches,     \* payloads of PATCH /donations/{id}
    Operations,  \* the operations that are exercised
    MaxEvents,   \* bound: status events of one donation
    MaxGranted,  \* bound: receipts numbered in one year
    Nobody, NoDonation,    \* no request, no donation
    NoRef, Keep  \* a NULL column; a field that is not sent

ASSUME NobodyIsNoRequest == Nobody \notin Requests
ASSUME NoDonationIsNone == NoDonation \notin Donations
ASSUME UtrMethodsAreMethods == UtrMethods \subseteq Methods
ASSUME SomeDonation == Donations # {}
ASSUME SomeMethod == Methods # {}
ASSUME SomeYear == Years # {}
ASSUME MaxGrantedIsNatural == MaxGranted \in Nat

Statuses == {"pending", "paid", "failed", "refunded"}
Refs == References \cup Sessions \cup {NoRef}

ASSUME KeepIsNoValue == Keep \notin Statuses \cup Methods \cup Refs
ASSUME NoRefIsNoReference == NoRef \notin References \cup Sessions

Snapshot == [status : Statuses \cup {"none"}, method : Methods, ref : Refs]

Row == [status : Statuses, method : Methods, ref : Refs,
        issued : BOOLEAN, issuedAt : Requests \cup {Nobody},
        snapshot : Snapshot, session : Sessions \cup {NoRef},
        number : [year : Years, value : Nat]]

Event == [from : Statuses \cup {"none"}, to : Statuses,
          note : {"created", "status_update", "mark_paid", "stripe"}]

Payload == [status : Statuses \cup {Keep}, method : Methods \cup {Keep},
            ref : Refs \cup {Keep}]

ASSUME DraftsAreComplete ==
    Drafts \subseteq [status : Statuses, method : Methods,
                      ref : References \cup {NoRef}]
ASSUME PatchesArePayloads == Patches \subseteq Payload

VARIABLES
    live, gone,  \* donations in the table, donations deleted from it
    row,         \* row[d]: the committed row (the last one when deleted)
    trail,       \* trail[d]: its donation_status_events, oldest first
    lock,        \* lock[d]: the request that updated the row, uncommitted
    txn,         \* txn[r]: the request r and its open transaction
    counter, holder, stage, key, taken, granted,  \* see ReceiptCounter
    metadata,    \* metadata[s]: the donation a Stripe session was created
                 \* for (metadata.donation_id), NoDonation before
    payable, paid, answered,  \* sessions whose URL was returned, that the
                 \* donor completed, whose event was answered 2xx
    replied,     \* requests whose answer was sent, not committed yet
    unbacked     \* history: sessions whose URL or event was answered by a
                 \* request that has not committed, or committed too late

counterVars == <<counter, holder, stage, key, taken, granted>>
gatewayVars == <<metadata, payable, paid, answered>>
tableVars == <<live, gone, row, trail>>
answerVars == <<replied, unbacked>>
vars == <<tableVars, lock, txn, counterVars, gatewayVars, answerVars>>

\* receipt_counters: one key per year, for one organisation.
Starts == [y \in Years |-> 1000]
Numbers == INSTANCE ReceiptCounter WITH Keys <- Years, Start <- Starts

Kinds == {"create", "update", "mark_paid", "issue", "checkout", "webhook",
          "delete"}
Phases == {"idle", "loaded", "allocating", "flushed"}

NoSnapshot == [status |-> "none", method |-> CHOOSE m \in Methods : TRUE,
               ref |-> NoRef]
NoRow == [status |-> "pending", method |-> CHOOSE m \in Methods : TRUE,
          ref |-> NoRef, issued |-> FALSE, issuedAt |-> Nobody,
          snapshot |-> NoSnapshot, session |-> NoRef,
          number |-> [year |-> CHOOSE y \in Years : TRUE, value |-> 0]]
Nothing == [status |-> Keep, method |-> Keep, ref |-> Keep]

Txn == [op : Kinds, phase : Phases, don : Donations, arg : Payload,
        seen : Row, draft : Row, event : Seq(Event)]
NoTxn == [op |-> "create", phase |-> "idle",
          don |-> CHOOSE d \in Donations : TRUE, arg |-> Nothing,
          seen |-> NoRow, draft |-> NoRow, event |-> <<>>]

TablesOK ==
    /\ live \subseteq Donations /\ gone \subseteq Donations
    /\ row \in [Donations -> Row]
    /\ trail \in [Donations -> Seq(Event)]
    /\ lock \in [Donations -> Requests \cup {Nobody}]

TxnsOK ==
    /\ txn \in [Requests -> Txn]
    /\ \A r \in Requests :
           /\ txn[r].phase = "allocating" => txn[r].arg \in Drafts
           /\ txn[r].op \in {"checkout", "webhook"} => txn[r].arg.ref \in Sessions

GatewayOK ==
    /\ metadata \in [Sessions -> Donations \cup {NoDonation}]
    /\ payable \subseteq Sessions
    /\ paid \subseteq Sessions /\ answered \subseteq Sessions

AnswersOK ==
    /\ replied \subseteq Requests
    /\ \A r \in replied : txn[r].phase = "flushed"
    /\ unbacked \subseteq Sessions

TypeOK ==
    /\ TablesOK
    /\ TxnsOK
    /\ Numbers!TypeOK
    /\ GatewayOK
    /\ AnswersOK

Init ==
    /\ live = {} /\ gone = {}
    /\ row = [d \in Donations |-> NoRow]
    /\ trail = [d \in Donations |-> <<>>]
    /\ lock = [d \in Donations |-> Nobody]
    /\ txn = [r \in Requests |-> NoTxn]
    /\ Numbers!Init
    /\ metadata = [s \in Sessions |-> NoDonation]
    /\ payable = {} /\ paid = {} /\ answered = {}
    /\ replied = {} /\ unbacked = {}

-----------------------------------------------------------------------------
(***************************************************************************)
(* Transactions                                                            *)
(***************************************************************************)
Idle(r) == txn[r].phase = "idle"
Loaded(r, o) == txn[r].phase = "loaded" /\ txn[r].op = o

Finish(r) == txn' = [txn EXCEPT ![r] = NoTxn]

\* Requests that are at work on d (bounds the events d may still get).
At(d) == {r \in Requests : ~Idle(r) /\ txn[r].don = d}
MoreEvents(d) == Len(trail[d]) + Cardinality(At(d)) < MaxEvents

\* DonationRepository.get: a plain SELECT of the committed row.
LoadRow(r, o, d, p) ==
    /\ Idle(r)
    /\ o \in Operations
    /\ d \in live
    /\ MoreEvents(d)
    /\ txn' = [txn EXCEPT ![r] = [NoTxn EXCEPT !.op = o, !.phase = "loaded",
                                     !.don = d, !.arg = p, !.seen = row[d]]]
    /\ UNCHANGED <<tableVars, lock, counterVars, answerVars>>

Load(r, o, d, p) == LoadRow(r, o, d, p) /\ UNCHANGED gatewayVars

\* A column in the row an UPDATE leaves behind: the current value unless the
\* handler changed the value it had loaded.
Column(was, now, new) == IF new = was THEN now ELSE new

\* The row the flush of r leaves when its handler wants the row to be new.
After(r, new) ==
    LET was == txn[r].seen
        now == row[txn[r].don]
    IN  [status   |-> Column(was.status, now.status, new.status),
         method   |-> Column(was.method, now.method, new.method),
         ref      |-> Column(was.ref, now.ref, new.ref),
         issued   |-> Column(was.issued, now.issued, new.issued),
         issuedAt |-> Column(was.issuedAt, now.issuedAt, new.issuedAt),
         snapshot |-> Column(was.snapshot, now.snapshot, new.snapshot),
         session  |-> Column(was.session, now.session, new.session),
         number   |-> now.number]

\* Mutant: the event ends in the status the handler wanted.
TransitionWanted(r, new, why) ==
    <<[from |-> txn[r].seen.status, to |-> new.status, note |-> why]>>

\* Mutant: previous_status is read after the assignment.
TransitionReadLate(r, new, why) ==
    <<[from |-> new.status, to |-> After(r, new).status, note |-> why]>>

\* append_status_event: from the status that was loaded to the one refreshed
\* after the flush.
Transition(r, new, why) ==
    <<[from |-> txn[r].seen.status, to |-> After(r, new).status,
       note |-> why]>>

\* flush + refresh: needs the row, waits for its lock.
Flush(r, new, event) ==
    LET d == txn[r].don IN
    /\ d \in live
    /\ lock[d] = Nobody
    /\ lock' = [lock EXCEPT ![d] = r]
    /\ txn' = [txn EXCEPT ![r].phase = "flushed",
                          ![r].draft = After(r, new), ![r].event = event]
    /\ UNCHANGED <<tableVars, counterVars, answerVars>>

-----------------------------------------------------------------------------
(***************************************************************************)
(* POST /donations and /donations/public.  A public donation is a draft    *)
(* that is pending and names its reference; that it may also be refused by *)
(* the public_donations_enabled setting adds no behaviour.                 *)
(***************************************************************************)
UtrMissing(method, ref) == method \in UtrMethods /\ ref = NoRef

StartCreate(r, d, p) ==
    /\ Idle(r)
    /\ "create" \in Operations
    /\ d \notin live \cup gone
    /\ At(d) = {}
    /\ ~(p.status = "paid" /\ UtrMissing(p.method, p.ref))
    /\ txn' = [txn EXCEPT ![r] = [NoTxn EXCEPT !.phase = "allocating",
                                     !.don = d, !.arg = p]]
    /\ UNCHANGED <<tableVars, lock, counterVars, gatewayVars, answerVars>>

AllocateReceiptNumber(r) ==
    /\ txn[r].phase = "allocating"
    /\ \/ \E y \in Years : \/ Numbers!LockAndIncrement(r, y)
                           \/ Numbers!FindNoRow(r, y)
       \/ Numbers!InsertRow(r)
    /\ UNCHANGED <<tableVars, lock, txn, gatewayVars, answerVars>>

\* Two first donations of a year: the loser's INSERT fails, 500.
AllocationConflict(r) ==
    /\ txn[r].phase = "allocating"
    /\ Numbers!InsertConflict(r)
    /\ Finish(r)
    /\ UNCHANGED <<tableVars, lock, gatewayVars, answerVars>>

CreateDonation(r) ==
    /\ txn[r].phase = "allocating"
    /\ stage[r] = "held"
    /\ LET p == txn[r].arg IN
       txn' = [txn EXCEPT
           ![r].phase = "flushed",
           ![r].draft = [NoRow EXCEPT
               !.status = p.status, !.method = p.method, !.ref = p.ref,
               !.number = [year |-> key[r], value |-> taken[r]]],
           ![r].event = <<[from |-> "none", to |-> p.status,
                           note |-> "created"]>>]
    /\ UNCHANGED <<tableVars, lock, counterVars, gatewayVars, answerVars>>

-----------------------------------------------------------------------------
(***************************************************************************)
(* PATCH /donations/{id}                                                   *)
(***************************************************************************)
Given(field, old) == IF field = Keep THEN old ELSE field

\* Mutant: the frozen fields are not compared with the payload.
UpdateIgnoresFreeze(t) ==
    /\ t.arg.status = "paid"
    /\ UtrMissing(Given(t.arg.method, t.seen.method),
                  Given(t.arg.ref, t.seen.ref))

\* Mutant: a status set by PATCH is not checked for its UTR.
UpdateIgnoresUtr(t) ==
    t.seen.issued /\ (t.arg.method # Keep \/ t.arg.ref # Keep)

UpdateRefused(t) ==
    \/ t.seen.issued /\ (t.arg.method # Keep \/ t.arg.ref # Keep)
    \/ /\ t.arg.status = "paid"
       /\ UtrMissing(Given(t.arg.method, t.seen.method),
                     Given(t.arg.ref, t.seen.ref))

\* Mutant: model_dump() without exclude_unset, so that fields that were not
\* sent are written too.
PatchedUnset(t) == [t.seen EXCEPT !.status = t.arg.status,
                                  !.method = t.arg.method, !.ref = t.arg.ref]

Patched(t) == [t.seen EXCEPT !.status = Given(t.arg.status, t.seen.status),
                             !.method = Given(t.arg.method, t.seen.method),
                             !.ref = Given(t.arg.ref, t.seen.ref)]

UpdateDonation(r) ==
    LET t == txn[r] IN
    /\ Loaded(r, "update")
    /\ ~UpdateRefused(t)
    /\ Flush(r, Patched(t),
             IF t.arg.status \in {Keep, t.seen.status} THEN <<>>
             ELSE Transition(r, Patched(t), "status_update"))
    /\ UNCHANGED gatewayVars

(***************************************************************************)
(* POST /donations/{id}/mark-paid                                          *)
(***************************************************************************)
PaidReference(t) ==
    IF t.arg.ref \in {Keep, NoRef} THEN t.seen.ref ELSE t.arg.ref

MarkPaidRefused(t) ==
    \/ UtrMissing(t.seen.method, PaidReference(t))
    \/ /\ t.seen.status = "paid"
       /\ t.seen.issued
       /\ PaidReference(t) # t.seen.ref

\* Already paid under this reference: the row is returned as it is.
AlreadyPaid(t) == t.seen.status = "paid" /\ PaidReference(t) = t.seen.ref

MarkPaid(r) ==
    LET t == txn[r]
        new == [t.seen EXCEPT !.status = "paid", !.ref = PaidReference(t)]
    IN
    /\ Loaded(r, "mark_paid")
    /\ ~MarkPaidRefused(t)
    /\ ~AlreadyPaid(t)
    /\ Flush(r, new, IF t.seen.status = "paid" THEN <<>>
                     ELSE Transition(r, new, "mark_paid"))
    /\ UNCHANGED gatewayVars

(***************************************************************************)
(* POST /donations/{id}/receipt                                            *)
(***************************************************************************)
\* Mutant: a receipt may be issued in any status.
IssueNeverRefused(t) == FALSE

IssueRefused(t) == t.seen.status # "paid"

SnapshotOf(x) == [status |-> x.status, method |-> x.method, ref |-> x.ref]

\* The receipt is out: it is shown again, from the snapshot.
ReprintReceipt(r) ==
    /\ Loaded(r, "issue")
    /\ ~IssueRefused(txn[r])
    /\ txn[r].seen.issued
    /\ Finish(r)
    /\ UNCHANGED <<tableVars, lock, counterVars, gatewayVars, answerVars>>

IssueReceipt(r) ==
    LET t == txn[r] IN
    /\ Loaded(r, "issue")
    /\ ~IssueRefused(t)
    /\ ~t.seen.issued
    /\ Flush(r, [t.seen EXCEPT !.issued = TRUE, !.issuedAt = r,
                               !.snapshot = SnapshotOf(t.seen)], <<>>)
    /\ UNCHANGED gatewayVars

(***************************************************************************)
(* POST /donations/{id}/checkout: the Stripe session is created after the  *)
(* row was loaded and outlives a request that fails; its URL is returned   *)
(* before the request commits.  Bound: no more sessions than Sessions.     *)
(***************************************************************************)
StartCheckout(r, d, s) ==
    /\ metadata[s] = NoDonation
    /\ metadata' = [metadata EXCEPT ![s] = d]
    /\ LoadRow(r, "checkout", d, [Nothing EXCEPT !.ref = s])
    /\ UNCHANGED <<payable, paid, answered>>

\* Mutant: the session that was created is not kept with the donation.
CheckoutForgetsSession(r) ==
    /\ Loaded(r, "checkout")
    /\ Flush(r, txn[r].seen, <<>>)
    /\ UNCHANGED gatewayVars

CreateCheckoutSession(r) ==
    /\ Loaded(r, "checkout")
    /\ Flush(r, [txn[r].seen EXCEPT !.session = txn[r].arg.ref], <<>>)
    /\ UNCHANGED gatewayVars

(***************************************************************************)
(* Stripe: the donor completes a session whose URL was returned; its event *)
(* is delivered at least once, and again until the answer is 2xx.          *)
(***************************************************************************)
CompletePayment(s) ==
    /\ s \in payable \ paid
    /\ paid' = paid \cup {s}
    /\ UNCHANGED <<tableVars, lock, txn, counterVars, metadata, payable,
                   answered, answerVars>>

\* Mutant: an event of a donation that is paid already fails for ever.
DeliverUnpaid(r, s) ==
    \E d \in live :
        /\ s \in paid
        /\ row[d].session = s
        /\ row[d].status # "paid"
        /\ Load(r, "webhook", d, [Nothing EXCEPT !.ref = s])

DeliverEvent(r, s) ==
    \E d \in live :
        /\ s \in paid
        /\ row[d].session = s
        /\ Load(r, "webhook", d, [Nothing EXCEPT !.ref = s])

\* No donation has this session any more: 200, "donation_not_found".
IgnoreEvent(s) ==
    /\ "webhook" \in Operations
    /\ s \in paid
    /\ \A d \in live : row[d].session # s
    /\ answered' = answered \cup {s}
    /\ UNCHANGED <<tableVars, lock, txn, counterVars, metadata, payable, paid,
                   answerVars>>

MarkPaidFromGateway(r) ==
    LET t == txn[r]
        new == [t.seen EXCEPT !.status = "paid", !.ref = t.arg.ref]
    IN
    /\ Loaded(r, "webhook")
    /\ Flush(r, new, IF After(r, new).status = t.seen.status THEN <<>>
                     ELSE Transition(r, new, "stripe"))
    /\ UNCHANGED gatewayVars

(***************************************************************************)
(* DELETE /donations/{id}: its status events go with it (ON DELETE         *)
(* CASCADE).                                                               *)
(***************************************************************************)
DeleteDonation(r) ==
    /\ Loaded(r, "delete")
    /\ Flush(r, txn[r].seen, <<>>)
    /\ UNCHANGED gatewayVars

-----------------------------------------------------------------------------
(***************************************************************************)
(* How requests end                                                        *)
(***************************************************************************)
Refused(t) ==
    \/ t.op = "update" /\ UpdateRefused(t)
    \/ t.op = "mark_paid" /\ (MarkPaidRefused(t) \/ AlreadyPaid(t))
    \/ t.op = "issue" /\ IssueRefused(t)

\* A 4xx answer, nothing to do, or the row was deleted since it was loaded
\* (404, or StaleDataError from the flush): nothing is written.
EndWithoutWrite(r) ==
    /\ txn[r].phase = "loaded"
    /\ Refused(txn[r]) \/ txn[r].don \notin live
    /\ Finish(r)
    /\ UNCHANGED <<tableVars, lock, counterVars, gatewayVars, answerVars>>

\* Mutant: the session is not closed, and keeps its row lock.
StillLocked(r) == lock

Unlocked(r) == [d \in Donations |-> IF lock[d] = r THEN Nobody ELSE lock[d]]

\* The answer is sent when the handler has returned: the URL of a session, the
\* 2xx to an event, or the row to staff.
ForGateway(t) == t.op \in {"checkout", "webhook"}

Answer(r) ==
    LET t == txn[r] IN
    /\ t.phase = "flushed"
    /\ r \notin replied
    /\ replied' = replied \cup {r}
    /\ payable' = IF t.op = "checkout" THEN payable \cup {t.arg.ref}
                  ELSE payable
    /\ answered' = IF t.op = "webhook" THEN answered \cup {t.arg.ref}
                   ELSE answered
    /\ unbacked' = IF ForGateway(t) THEN unbacked \cup ({t.arg.ref} \ answered)
                   ELSE unbacked
    /\ UNCHANGED <<tableVars, lock, txn, counterVars, metadata, paid>>

CommitCreate(r) ==
    /\ txn[r].op = "create"
    /\ live' = live \cup {txn[r].don}
    /\ row' = [row EXCEPT ![txn[r].don] = txn[r].draft]
    /\ trail' = [trail EXCEPT ![txn[r].don] = txn[r].event]
    /\ Numbers!CommitNumber(r)
    /\ UNCHANGED gone

CommitDelete(r) ==
    /\ txn[r].op = "delete"
    /\ live' = live \ {txn[r].don}
    /\ gone' = gone \cup {txn[r].don}
    /\ trail' = [trail EXCEPT ![txn[r].don] = <<>>]
    /\ UNCHANGED <<row, counterVars>>

CommitUpdate(r) ==
    LET t == txn[r] IN
    /\ t.op \notin {"create", "delete"}
    /\ row' = [row EXCEPT ![t.don] = t.draft]
    /\ trail' = [trail EXCEPT ![t.don] = @ \o t.event]
    /\ UNCHANGED <<live, gone, counterVars>>

\* The session whose answer the commit of r makes good: that of an event, and
\* that of a checkout whose event has not been ignored before.
Backed(t) ==
    IF t.op = "webhook" THEN {t.arg.ref}
    ELSE IF t.op = "checkout" THEN {t.arg.ref} \ answered
    ELSE {}

\* get_db: its exit code commits, after the answer.
Commit(r) ==
    /\ txn[r].phase = "flushed"
    /\ r \in replied
    /\ CommitCreate(r) \/ CommitDelete(r) \/ CommitUpdate(r)
    /\ lock' = Unlocked(r)
    /\ replied' = replied \ {r}
    /\ unbacked' = unbacked \ Backed(txn[r])
    /\ Finish(r)
    /\ UNCHANGED gatewayVars

\* get_db: an exception, a lost connection or a cancelled request rolls back,
\* and so does a commit that fails when the answer is out.
Rollback(r) ==
    /\ ~Idle(r)
    /\ IF stage[r] = "none" THEN UNCHANGED counterVars
       ELSE Numbers!RollbackNumber(r)
    /\ lock' = Unlocked(r)
    /\ replied' = replied \ {r}
    /\ Finish(r)
    /\ UNCHANGED <<tableVars, gatewayVars, unbacked>>

Begin(r) ==
    \E d \in Donations :
        \/ \E p \in Drafts : StartCreate(r, d, p)
        \/ \E p \in Patches : Load(r, "update", d, p)
        \/ \E ref \in References \cup {NoRef} :
               Load(r, "mark_paid", d, [Nothing EXCEPT !.ref = ref])
        \/ \E s \in Sessions : StartCheckout(r, d, s)
        \/ \E o \in {"issue", "delete"} : Load(r, o, d, Nothing)

Handle(r) ==
    \/ AllocateReceiptNumber(r) \/ AllocationConflict(r) \/ CreateDonation(r)
    \/ UpdateDonation(r) \/ MarkPaid(r)
    \/ ReprintReceipt(r) \/ IssueReceipt(r)
    \/ CreateCheckoutSession(r) \/ MarkPaidFromGateway(r)
    \/ DeleteDonation(r)
    \/ EndWithoutWrite(r)

Next ==
    \/ \E r \in Requests :
           Begin(r) \/ Handle(r) \/ Answer(r) \/ Commit(r) \/ Rollback(r)
    \/ \E s \in Sessions : \/ CompletePayment(s) \/ IgnoreEvent(s)
                           \/ \E r \in Requests : DeliverEvent(r, s)

Spec == Init /\ [][Next]_vars

\* A handler that has loaded its row runs on, answers and commits: its database
\* answers, and PostgreSQL queues the waiters of a row lock.  Requests begin
\* and fail, before or after they answered, and donors pay, at will.
ServerFairness ==
    \A r \in Requests :
        SF_vars(Handle(r)) /\ WF_vars(Answer(r)) /\ WF_vars(Commit(r))

\* Stripe delivers an event until it is answered, and from some time on no
\* delivery is cut off before its answer any more.
CutsDelivery ==
    \E r \in Requests : txn[r].op = "webhook" /\ r \notin replied /\ Rollback(r)

StripeFairness ==
    /\ \A s \in Sessions :
           /\ WF_vars(IgnoreEvent(s))
           /\ SF_vars(\E r \in Requests : DeliverEvent(r, s))
    /\ <>[][~CutsDelivery]_vars

FairSpec == Spec /\ ServerFairness /\ StripeFairness
-----------------------------------------------------------------------------
(***************************************************************************)
(* Properties                                                              *)
(***************************************************************************)

\* The audit trail and the row agree: the first event of a donation is its
\* creation, and the last one ends in the payment_status of the row, whatever
\* staff requests and webhooks overlapped and read the row before it changed.
AuditTail ==
    \A d \in live :
        /\ trail[d] # <<>>
        /\ trail[d][1].note = "created"
        /\ trail[d][Len(trail[d])].to = row[d].status

\* No donation has a receipt without having been paid: the snapshot was taken
\* of a paid row, and the trail shows the payment (issue_receipt checks the
\* row it loaded, not the one it writes).
PaidInTrail(d) == \E i \in 1..Len(trail[d]) : trail[d][i].to = "paid"

ReceiptOf(x) == /\ x.issued <=> x.snapshot.status # "none"
                /\ x.issued => x.snapshot.status = "paid"

ReceiptAfterPayment ==
    \A d \in live : ReceiptOf(row[d]) /\ (row[d].issued => PaidInTrail(d))

\* What an open request may rely on, and what makes the three properties of
\* staff requests and webhooks that overlap inductive: a creator is alone with
\* its donation; what a request loaded was true of the trail then and still
\* is; a request that has written holds the row lock, and its draft differs
\* from the committed row in nothing but what its event and its checks cover.
Creating(r) == ~Idle(r) /\ txn[r].op = "create"
Changing(r) == ~Idle(r) /\ txn[r].op # "create"

CreatorAlone(r) ==
    Creating(r) =>
        /\ txn[r].phase # "loaded"
        /\ txn[r].don \notin live \cup gone
        /\ \A q \in Requests : Creating(q) /\ txn[q].don = txn[r].don => q = r
        /\ txn[r].phase = "flushed" =>
               /\ txn[r].event = <<[from |-> "none", to |-> txn[r].draft.status,
                                    note |-> "created"]>>
               /\ ~txn[r].draft.issued /\ txn[r].draft.snapshot.status = "none"

LoadedOnce(r) ==
    Changing(r) =>
        /\ txn[r].phase # "allocating"
        /\ txn[r].don \in live \cup gone
        /\ ReceiptOf(txn[r].seen)
        /\ txn[r].don \in live /\ (txn[r].seen.status = "paid" \/ txn[r].seen.issued)
           => PaidInTrail(txn[r].don)

MayUnfreeze(t) == \/ ~t.seen.issued
                  \/ t.op = "webhook"
                  \/ t.op = "mark_paid" /\ t.seen.status # "paid"

WriterLocks(r) ==
    LET t == txn[r] IN
    Changing(r) /\ t.phase = "flushed" =>
        /\ t.don \in live /\ lock[t.don] = r
        /\ \/ t.event = <<>> /\ t.draft.status = row[t.don].status
           \/ Len(t.event) = 1 /\ t.event[1].to = t.draft.status
        /\ ReceiptOf(t.draft) /\ (t.draft.issued => PaidInTrail(t.don))
        /\ MayUnfreeze(t) \/ /\ t.draft.method = row[t.don].method
                             /\ t.draft.ref = row[t.don].ref

OpenRequestsAreSound ==
    /\ live \cap gone = {}
    /\ \A r \in Requests : CreatorAlone(r) /\ LoadedOnce(r) /\ WriterLocks(r)

\* Receipt numbers are never shared, not even with a deleted donation, and
\* each was committed by the counter of its year.
NumbersAreDistinct ==
    /\ \A d, e \in live \cup gone :
           d # e => row[d].number # row[e].number
    /\ \A d \in live \cup gone :
           \E i \in 1..Len(granted[row[d].number.year]) :
               granted[row[d].number.year][i] = row[d].number.value

\* The step ends the transaction in which r wrote d.
Commits(r, d) ==
    txn[r].don = d /\ txn[r].phase = "flushed" /\ txn'[r].phase = "idle"

\* A step that changes a frozen field of a donation whose receipt is out.
FrozenChange(d) ==
    /\ d \in live \cap live'
    /\ row[d].issued
    /\ <<row[d].method, row[d].ref>> # <<row'[d].method, row'[d].ref>>

\* Frozen fields change under an issued receipt only at the hands of a request
\* that loaded the row before the receipt was committed, of the webhook, or of
\* a mark-paid of a donation that is no longer paid.
InformedChange ==
    \A d \in Donations : FrozenChange(d) =>
        \E r \in Requests : Commits(r, d) /\ MayUnfreeze(txn[r])

FrozenForInformedWriters == [][InformedChange]_vars

\* A step that makes a donation paid and leaves it without a required
\* reference.
PaysUnreferenced(d) ==
    /\ d \in live'
    /\ row'[d].status = "paid" /\ (d \in live => row[d].status # "paid")
    /\ UtrMissing(row'[d].method, row'[d].ref)

\* No step makes a donation paid and leaves it without a required reference,
\* except the commit of a request that had checked another method or reference
\* than the row has by then (a later PATCH may clear the reference as well).
InformedPayment ==
    \A d \in Donations : PaysUnreferenced(d) =>
        \E r \in Requests :
            /\ Commits(r, d)
            /\ <<txn[r].seen.method, txn[r].seen.ref>> # <<row[d].method, row[d].ref>>

UtrAtPayment == [][InformedPayment]_vars

\* A step that adds an event which does not start where the trail ended.
ChainBreaks(d) ==
    LET n == Len(trail[d]) IN
    /\ d \in live \cap live'
    /\ Len(trail'[d]) > n
    /\ trail'[d][n + 1].from # trail[d][n].to

\* Every event starts where the previous one ended, except that of a request
\* whose row changed its status between load and flush: then the trail shows
\* the status that request had decided on.
InformedEvent ==
    \A d \in Donations : ChainBreaks(d) =>
        \E r \in Requests : Commits(r, d) /\ txn[r].seen.status # row[d].status

TrailIsAChain == [][InformedEvent]_vars

\* test_stripe_webhook_completed_marks_paid: an event that was answered 2xx,
\* which Stripe will not send again, has left a payment in the trail of the
\* donation the session was created for (unless that was deleted).  It is not
\* promised of the sessions that are unbacked, for which the server answered
\* before it committed: the transaction that had answered the event, or
\* returned the URL, is still to commit or has failed, or the event came
\* before the commit of the checkout and was ignored.
AnsweredIsRecorded ==
    \A s \in answered \ unbacked :
        \/ metadata[s] \in live /\ PaidInTrail(metadata[s])
        \/ metadata[s] \in gone

\* Every completed payment is eventually answered, and every request ends.
CompletedIsAnswered ==
    \A s \in Sessions : s \in paid ~> s \in answered

RequestsEnd == \A r \in Requests : ~Idle(r) ~> Idle(r)
=============================================================================
