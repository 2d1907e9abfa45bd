------------------------ MODULE DonationLedgerProofs ------------------------
(***************************************************************************)
(* Proofs about DonationLedger for every set of donations, requests,       *)
(* methods, references, sessions and payloads.                             *)
(***************************************************************************)
EXTENDS DonationLedger, TLAPS

NumberProofs == INSTANCE ReceiptCounterProofs WITH Keys <- Years, Start <- Starts

-----------------------------------------------------------------------------
(***************************************************************************)
(* The receipt counter inside the ledger                                   *)
(***************************************************************************)
LEMMA CounterAssumptions ==
  /\ NumberProofs!KeysAssumption /\ NumberProofs!StartAssumption
  /\ NumberProofs!MaxGrantedAssumption /\ NumberProofs!NobodyAssumption
BY SomeYear, NobodyIsNoRequest, MaxGrantedIsNatural
   DEF Starts, NumberProofs!KeysAssumption, NumberProofs!StartAssumption,
       NumberProofs!MaxGrantedAssumption, NumberProofs!NobodyAssumption

\* What the requests of the ledger do to the counter, the counter's own
\* specification allows.
LEMMA StepOfCounter == [Next]_vars => [Numbers!Next]_counterVars
<1> SUFFICES ASSUME [Next]_vars PROVE [Numbers!Next]_counterVars
  OBVIOUS
<1> USE DEF Numbers!Next, Numbers!Allocate
<1>1. ASSUME NEW r \in Requests, Begin(r) PROVE UNCHANGED counterVars
  BY <1>1 DEF Begin, StartCreate, StartCheckout, Load, LoadRow
<1>2. ASSUME NEW r \in Requests, Handle(r) PROVE [Numbers!Next]_counterVars
  <2>1. CASE AllocateReceiptNumber(r)
    BY <2>1 DEF AllocateReceiptNumber
  <2>2. CASE AllocationConflict(r)
    BY <2>2 DEF AllocationConflict
  <2>3. CASE CreateDonation(r)
    BY <2>3 DEF CreateDonation
  <2>4. CASE UpdateDonation(r) \/ MarkPaid(r) \/ IssueReceipt(r)
    BY <2>4 DEF UpdateDonation, MarkPaid, IssueReceipt, Flush
  <2>5. CASE ReprintReceipt(r) \/ EndWithoutWrite(r)
    BY <2>5 DEF ReprintReceipt, EndWithoutWrite
  <2>6. CASE \/ CreateCheckoutSession(r) \/ MarkPaidFromGateway(r)
             \/ DeleteDonation(r)
    BY <2>6 DEF CreateCheckoutSession, MarkPaidFromGateway, DeleteDonation, Flush
  <2>7. QED
    BY <1>2, <2>1, <2>2, <2>3, <2>4, <2>5, <2>6 DEF Handle
<1>3. ASSUME NEW r \in Requests, Commit(r) PROVE [Numbers!Next]_counterVars
  BY <1>3 DEF Commit, CommitCreate, CommitDelete, CommitUpdate
<1>9. ASSUME NEW r \in Requests, Answer(r) PROVE UNCHANGED counterVars
  BY <1>9 DEF Answer
<1>4. ASSUME NEW r \in Requests, Rollback(r) PROVE [Numbers!Next]_counterVars
  BY <1>4 DEF Rollback
<1>5. ASSUME NEW s \in Sessions, CompletePayment(s) \/ IgnoreEvent(s)
      PROVE UNCHANGED counterVars
  BY <1>5 DEF CompletePayment, IgnoreEvent
<1>6. ASSUME NEW s \in Sessions, NEW r \in Requests, DeliverEvent(r, s)
      PROVE UNCHANGED counterVars
  BY <1>6 DEF DeliverEvent, Load, LoadRow
<1>7. CASE UNCHANGED vars
  BY <1>7 DEF vars, counterVars
<1>8. QED
  BY <1>1, <1>2, <1>3, <1>4, <1>5, <1>6, <1>7, <1>9 DEF Next

\* Every behaviour of the ledger is a behaviour of ReceiptCounter: receipts
\* are numbered the way allocate_receipt_number alone would number them.
THEOREM LedgerImplementsCounter == Spec => Numbers!Spec
<1>1. Init => Numbers!Init
  BY DEF Init
<1>2. [Next]_vars => [Numbers!Next]_(Numbers!counterVars)
  BY StepOfCounter DEF counterVars, Numbers!counterVars
<1>3. QED
  BY <1>1, <1>2, PTL DEF Spec, Numbers!Spec

\* The definitions of the counter mean the same in both instances.
LEMMA CounterTypeStep ==
  Numbers!TypeOK /\ [Next]_vars => Numbers!TypeOK'
<1>1. /\ NumberProofs!TypeOK
      /\ [NumberProofs!Next]_(NumberProofs!counterVars)
      => NumberProofs!TypeOK'
  BY NumberProofs!TypeStep, CounterAssumptions
<1>2. Numbers!TypeOK /\ [Numbers!Next]_counterVars => Numbers!TypeOK'
  BY <1>1
     DEF counterVars, NumberProofs!counterVars,
         Numbers!TypeOK, NumberProofs!TypeOK,
         Numbers!Stages, NumberProofs!Stages,
         Numbers!Next, NumberProofs!Next,
         Numbers!Allocate, NumberProofs!Allocate,
         Numbers!LockAndIncrement, NumberProofs!LockAndIncrement,
         Numbers!FindNoRow, NumberProofs!FindNoRow,
         Numbers!InsertRow, NumberProofs!InsertRow,
         Numbers!InsertConflict, NumberProofs!InsertConflict,
         Numbers!CommitNumber, NumberProofs!CommitNumber,
         Numbers!RollbackNumber, NumberProofs!RollbackNumber,
         Numbers!Take, NumberProofs!Take, Numbers!Free, NumberProofs!Free
<1>3. QED
  BY <1>2, StepOfCounter

-----------------------------------------------------------------------------
(***************************************************************************)
(* Types                                                                   *)
(***************************************************************************)
LEMMA NoRowType == NoRow \in Row /\ NoSnapshot \in Snapshot
<1>1. (CHOOSE m \in Methods : TRUE) \in Methods
  BY SomeMethod
<1>2. (CHOOSE y \in Years : TRUE) \in Years
  BY SomeYear
<1>3. NoSnapshot \in Snapshot
  BY <1>1 DEF NoSnapshot, Snapshot, Refs
<1>4. QED
  BY <1>1, <1>2, <1>3 DEF NoRow, Row, Statuses, Refs

LEMMA NoTxnType == NoTxn \in Txn
<1>1. (CHOOSE d \in Donations : TRUE) \in Donations
  BY SomeDonation
<1>2. Nothing \in Payload
  BY DEF Nothing, Payload
<1>3. <<>> \in Seq(Event)
  OBVIOUS
<1>4. "create" \in Kinds /\ "idle" \in Phases
  BY DEF Kinds, Phases
<1>5. QED
  BY <1>1, <1>2, <1>3, <1>4, NoRowType DEF NoTxn, Txn

\* The row a flush leaves has the type of a row.
LEMMA AfterType ==
  ASSUME txn \in [Requests -> Txn], row \in [Donations -> Row],
         NEW r \in Requests, NEW new \in Row
  PROVE  After(r, new) \in Row
<1>1. txn[r].seen \in Row /\ row[txn[r].don] \in Row
  BY DEF Txn
<1>2. ASSUME NEW was \in Row, NEW now \in Row
      PROVE  [status   |-> Column(was.status, now.status, new.status),
              method   |-> Column(was.method, now.method, new.method),
              ref      |-> Column(was.ref, now.ref, new.ref),
              issued   |-> Column(was.issued, now.issued, new.issued),
              issuedAt |-> Column(was.issuedAt, now.issuedAt, new.issuedAt),
              snapshot |-> Column(was.snapshot, now.snapshot, new.snapshot),
              session  |-> Column(was.session, now.session, new.session),
              number   |-> now.number] \in Row
  BY DEF Row, Column
<1>3. QED
  BY <1>1, <1>2 DEF After

LEMMA TransitionType ==
  ASSUME txn \in [Requests -> Txn], row \in [Donations -> Row],
         NEW r \in Requests, NEW new \in Row,
         NEW why \in {"created", "status_update", "mark_paid", "stripe"}
  PROVE  Transition(r, new, why) \in Seq(Event)
<1>1. txn[r].seen.status \in Statuses
  BY DEF Txn, Row
<1>2. After(r, new).status \in Statuses
  BY AfterType DEF Row
<1>3. [from |-> txn[r].seen.status, to |-> After(r, new).status,
       note |-> why] \in Event
  BY <1>1, <1>2 DEF Event
<1>4. QED
  BY <1>3 DEF Transition

\* What TypeOK says of the tables and the open transactions.
LedgerTypes == TablesOK /\ TxnsOK

LEMMA FlushType ==
  ASSUME LedgerTypes, NEW r \in Requests, NEW new \in Row,
         NEW e \in Seq(Event), Flush(r, new, e)
  PROVE  LedgerTypes'
<1>1. After(r, new) \in Row
  BY AfterType DEF LedgerTypes, TablesOK, TxnsOK
<1>2. txn' \in [Requests -> Txn]
  BY ZenonT(60), <1>1 DEF Flush, LedgerTypes, TxnsOK, Txn, Phases
<1>3. ASSUME NEW q \in Requests
      PROVE  /\ txn'[q].arg = txn[q].arg /\ txn'[q].op = txn[q].op
             /\ txn'[q].phase = "allocating" => txn[q].phase = "allocating"
  <2>1. txn[q] \in Txn /\ txn \in [Requests -> Txn]
    BY DEF LedgerTypes, TxnsOK
  <2>2. CASE q # r
    BY <2>1, <2>2 DEF Flush
  <2>3. CASE q = r
    <3>1. txn'[q] = [txn[q] EXCEPT !.phase = "flushed", !.draft = After(r, new),
                                   !.event = e]
      BY <2>1, <2>3 DEF Flush
    <3>2. QED
      BY <2>1, <3>1 DEF Txn
  <2>4. QED
    BY <2>2, <2>3
<1>4. lock' \in [Donations -> Requests \cup {Nobody}]
  BY DEF Flush, LedgerTypes, TablesOK
<1>5. QED
  BY <1>2, <1>3, <1>4 DEF Flush, tableVars, LedgerTypes, TablesOK, TxnsOK

LEMMA FinishType ==
  ASSUME TxnsOK, NEW r \in Requests, Finish(r)
  PROVE  TxnsOK'
<1>1. txn' \in [Requests -> Txn]
  BY NoTxnType DEF Finish, TxnsOK
<1>2. QED
  BY <1>1 DEF Finish, TxnsOK, NoTxn

LEMMA LoadType ==
  ASSUME LedgerTypes, NEW r \in Requests, NEW o \in Kinds,
         NEW d \in Donations, NEW p \in Payload,
         o \in {"checkout", "webhook"} => p.ref \in Sessions,
         LoadRow(r, o, d, p)
  PROVE  LedgerTypes'
<1> DEFINE x == [NoTxn EXCEPT !.op = o, !.phase = "loaded", !.don = d,
                              !.arg = p, !.seen = row[d]]
<1>1. row[d] \in Row
  BY DEF LedgerTypes, TablesOK
<1>2. x \in Txn /\ x.op = o /\ x.phase = "loaded" /\ x.arg = p
  BY <1>1, NoTxnType DEF Txn, Phases
<1>3. txn' = [txn EXCEPT ![r] = x]
  BY DEF LoadRow
<1>4. TxnsOK'
  BY <1>2, <1>3 DEF LedgerTypes, TxnsOK
<1>5. QED
  BY <1>4 DEF LoadRow, tableVars, LedgerTypes, TablesOK

LEMMA BeginType ==
  ASSUME LedgerTypes, GatewayOK, NEW r \in Requests, Begin(r)
  PROVE  LedgerTypes' /\ GatewayOK'
<1>1. Nothing \in Payload
  BY DEF Nothing, Payload
<1>2. ASSUME NEW d \in Donations, NEW p \in Drafts, StartCreate(r, d, p)
      PROVE  LedgerTypes' /\ GatewayOK'
  <2> DEFINE x == [NoTxn EXCEPT !.phase = "allocating", !.don = d, !.arg = p]
  <2>1. p \in Payload
    BY DraftsAreComplete DEF Payload, Refs
  <2>2. x \in Txn /\ x.op = "create" /\ x.arg = p
    BY <2>1, NoTxnType DEF Txn, Phases, NoTxn
  <2>3. TxnsOK'
    BY <1>2, <2>2 DEF StartCreate, LedgerTypes, TxnsOK
  <2>4. QED
    BY <1>2, <2>3 DEF StartCreate, tableVars, gatewayVars, LedgerTypes,
                      TablesOK, GatewayOK
<1>3. ASSUME NEW d \in Donations, NEW p \in Patches, Load(r, "update", d, p)
      PROVE  LedgerTypes'
  BY <1>3, LoadType, PatchesArePayloads DEF Kinds, Load
<1>4. ASSUME NEW d \in Donations, NEW ref \in References \cup {NoRef},
             Load(r, "mark_paid", d, [Nothing EXCEPT !.ref = ref])
      PROVE  LedgerTypes'
  <2>1. [Nothing EXCEPT !.ref = ref] \in Payload
    BY <1>1 DEF Payload, Refs
  <2>2. QED
    BY <1>4, <2>1, LoadType DEF Kinds, Load
<1>5. ASSUME NEW d \in Donations, NEW o \in {"issue", "delete"},
             Load(r, o, d, Nothing)
      PROVE  LedgerTypes'
  BY <1>1, <1>5, LoadType DEF Kinds, Load
<1>6. ASSUME NEW d \in Donations, NEW s \in Sessions, StartCheckout(r, d, s)
      PROVE  LedgerTypes' /\ GatewayOK'
  <2>1. [Nothing EXCEPT !.ref = s] \in Payload /\ [Nothing EXCEPT !.ref = s].ref = s
    BY <1>1 DEF Payload, Refs, Nothing
  <2>2. LedgerTypes'
    BY <1>6, <2>1, LoadType DEF StartCheckout, Kinds
  <2>3. GatewayOK'
    BY <1>6 DEF StartCheckout, GatewayOK
  <2>4. QED
    BY <2>2, <2>3
<1>7. ASSUME NEW d \in Donations, NEW o, NEW p, Load(r, o, d, p)
      PROVE  GatewayOK'
  BY <1>7 DEF Load, gatewayVars, GatewayOK
<1>8. QED
  BY <1>2, <1>3, <1>4, <1>5, <1>6, <1>7 DEF Begin

\* The new row carries the number that was just taken.
LEMMA CreateType ==
  ASSUME TypeOK, NEW r \in Requests, CreateDonation(r)
  PROVE  TxnsOK'
<1> DEFINE p == txn[r].arg
           x == [NoRow EXCEPT !.status = p.status, !.method = p.method,
                              !.ref = p.ref,
                              !.number = [year |-> key[r], value |-> taken[r]]]
           e == <<[from |-> "none", to |-> p.status, note |-> "created"]>>
<1>1. p \in Drafts /\ txn \in [Requests -> Txn]
  BY DEF CreateDonation, TypeOK, TxnsOK
<1>2. key[r] \in Years /\ taken[r] \in Nat
  BY DEF TypeOK, Numbers!TypeOK
<1>3. p.status \in Statuses /\ p.method \in Methods /\ p.ref \in Refs
  BY <1>1, DraftsAreComplete DEF Refs
<1>4. x \in Row
  BY <1>2, <1>3, NoRowType DEF Row
<1>5. e \in Seq(Event)
  BY <1>3 DEF Event
<1>6. txn' = [txn EXCEPT ![r].phase = "flushed", ![r].draft = x, ![r].event = e]
  BY DEF CreateDonation
<1>7. txn' \in [Requests -> Txn]
  BY ZenonT(60), <1>1, <1>4, <1>5, <1>6 DEF Txn, Phases
<1>8. ASSUME NEW q \in Requests
      PROVE  /\ txn'[q].arg = txn[q].arg /\ txn'[q].op = txn[q].op
             /\ txn'[q].phase = "allocating" => txn[q].phase = "allocating"
  <2>1. CASE q # r
    BY <1>1, <1>6, <2>1
  <2>2. CASE q = r
    <3> HIDE DEF x, e
    <3>1. txn'[q] = [txn[q] EXCEPT !.phase = "flushed", !.draft = x, !.event = e]
      BY <1>1, <1>6, <2>2
    <3>2. QED
      BY <1>1, <3>1 DEF Txn
  <2>3. QED
    BY <2>1, <2>2
<1>9. QED
  BY <1>7, <1>8 DEF TypeOK, TxnsOK

LEMMA HandleType ==
  ASSUME TypeOK, NEW r \in Requests, Handle(r)
  PROVE  LedgerTypes' /\ GatewayOK'
<1> USE DEF TypeOK
<1>1. LedgerTypes /\ txn[r] \in Txn /\ txn[r].seen \in Row /\ txn[r].arg \in Payload
  BY DEF LedgerTypes, TxnsOK, Txn
<1>2. ASSUME UNCHANGED gatewayVars PROVE GatewayOK'
  BY <1>2 DEF gatewayVars, GatewayOK
<1>3. CASE AllocateReceiptNumber(r)
  BY <1>1, <1>2, <1>3 DEF AllocateReceiptNumber, tableVars, LedgerTypes, TablesOK,
                          TxnsOK
<1>4. CASE AllocationConflict(r) \/ EndWithoutWrite(r)
  BY <1>1, <1>2, <1>4, FinishType
     DEF AllocationConflict, EndWithoutWrite, tableVars, LedgerTypes, TablesOK
<1>5. CASE CreateDonation(r)
  BY <1>1, <1>2, <1>5, CreateType
     DEF CreateDonation, tableVars, LedgerTypes, TablesOK
<1>6. <<>> \in Seq(Event)
  OBVIOUS
<1>7. CASE UpdateDonation(r)
  <2> DEFINE e == IF txn[r].arg.status \in {Keep, txn[r].seen.status} THEN <<>>
                  ELSE Transition(r, Patched(txn[r]), "status_update")
  <2>1. Patched(txn[r]) \in Row
    BY <1>1, KeepIsNoValue DEF Patched, Given, Row, Payload
  <2>2. e \in Seq(Event)
    BY <1>6, <2>1, TransitionType DEF TablesOK, TxnsOK
  <2>3. Flush(r, Patched(txn[r]), e) /\ UNCHANGED gatewayVars
    BY <1>7 DEF UpdateDonation
  <2> HIDE DEF e
  <2>4. QED
    BY <1>1, <1>2, <2>1, <2>2, <2>3, FlushType
<1>8. CASE MarkPaid(r)
  <2> DEFINE new == [txn[r].seen EXCEPT !.status = "paid",
                                        !.ref = PaidReference(txn[r])]
             e == IF txn[r].seen.status = "paid" THEN <<>>
                  ELSE Transition(r, new, "mark_paid")
  <2>1. new \in Row
    BY <1>1 DEF PaidReference, Row, Payload, Statuses
  <2>2. e \in Seq(Event)
    BY <1>6, <2>1, TransitionType DEF TablesOK, TxnsOK
  <2>3. Flush(r, new, e) /\ UNCHANGED gatewayVars
    BY <1>8 DEF MarkPaid
  <2> HIDE DEF e, new
  <2>4. QED
    BY <1>1, <1>2, <2>1, <2>2, <2>3, FlushType
<1>9. CASE ReprintReceipt(r)
  BY <1>1, <1>2, <1>9, FinishType
     DEF ReprintReceipt, tableVars, LedgerTypes, TablesOK
<1>10. CASE IssueReceipt(r)
  <2> DEFINE new == [txn[r].seen EXCEPT !.issued = TRUE, !.issuedAt = r,
                                        !.snapshot = SnapshotOf(txn[r].seen)]
  <2>1. SnapshotOf(txn[r].seen) \in Snapshot
    BY <1>1 DEF SnapshotOf, Snapshot, Row
  <2>2. new \in Row
    BY <1>1, <2>1 DEF Row
  <2>3. Flush(r, new, <<>>) /\ UNCHANGED gatewayVars
    BY <1>10 DEF IssueReceipt
  <2> HIDE DEF new
  <2>4. QED
    BY <1>1, <1>2, <1>6, <2>2, <2>3, FlushType
<1>11. CASE CreateCheckoutSession(r)
  <2> DEFINE new == [txn[r].seen EXCEPT !.session = txn[r].arg.ref]
  <2>1. txn[r].arg.ref \in Sessions
    BY <1>1, <1>11 DEF CreateCheckoutSession, Loaded, LedgerTypes, TxnsOK
  <2>2. new \in Row
    BY <1>1, <2>1 DEF Row
  <2>3. Flush(r, new, <<>>) /\ UNCHANGED gatewayVars
    BY <1>11 DEF CreateCheckoutSession
  <2> HIDE DEF new
  <2>4. QED
    BY <1>1, <1>2, <1>6, <2>2, <2>3, FlushType
<1>12. CASE MarkPaidFromGateway(r)
  <2> DEFINE new == [txn[r].seen EXCEPT !.status = "paid", !.ref = txn[r].arg.ref]
             e == IF After(r, new).status = txn[r].seen.status THEN <<>>
                  ELSE Transition(r, new, "stripe")
  <2>1. txn[r].arg.ref \in Sessions
    BY <1>1, <1>12 DEF MarkPaidFromGateway, Loaded, LedgerTypes, TxnsOK
  <2>2. new \in Row
    BY <1>1, <2>1 DEF Row, Refs, Statuses
  <2>3. e \in Seq(Event)
    BY <1>6, <2>2, TransitionType DEF TablesOK, TxnsOK
  <2>4. Flush(r, new, e) /\ UNCHANGED gatewayVars
    BY <1>12 DEF MarkPaidFromGateway
  <2> HIDE DEF e, new
  <2>5. QED
    BY <1>1, <1>2, <2>2, <2>3, <2>4, FlushType
<1>13. CASE DeleteDonation(r)
  BY <1>1, <1>2, <1>6, <1>13, FlushType DEF DeleteDonation
<1>14. QED
  BY <1>3, <1>4, <1>5, <1>7, <1>8, <1>9, <1>10, <1>11, <1>12, <1>13
     DEF Handle

LEMMA CommitType ==
  ASSUME TypeOK, NEW r \in Requests, Commit(r)
  PROVE  LedgerTypes' /\ GatewayOK'
<1> USE DEF TypeOK
<1> DEFINE t == txn[r]
<1>1. TablesOK /\ TxnsOK
  OBVIOUS
<1>2. t \in Txn /\ t.don \in Donations /\ t.draft \in Row /\ t.event \in Seq(Event)
  BY DEF TxnsOK, Txn
<1>3. TxnsOK'
  BY FinishType DEF Commit
<1>4. lock' \in [Donations -> Requests \cup {Nobody}]
  BY DEF Commit, Unlocked, TablesOK
<1>5. GatewayOK'
  BY DEF Commit, gatewayVars, GatewayOK
<1>6. TablesOK'
  <2>1. CASE CommitCreate(r)
    BY <1>1, <1>2, <1>4, <2>1 DEF CommitCreate, TablesOK
  <2>2. CASE CommitDelete(r)
    BY <1>1, <1>2, <1>4, <2>2 DEF CommitDelete, TablesOK
  <2>3. CASE CommitUpdate(r)
    <3>1. trail[t.don] \o t.event \in Seq(Event)
      BY <1>1, <1>2 DEF TablesOK
    <3>2. QED
      BY <1>1, <1>2, <1>4, <2>3, <3>1 DEF CommitUpdate, TablesOK
  <2>4. QED
    BY <2>1, <2>2, <2>3 DEF Commit
<1>7. QED
  BY <1>3, <1>5, <1>6 DEF LedgerTypes

LEMMA AnswerType ==
  ASSUME TypeOK, NEW r \in Requests, Answer(r)
  PROVE  LedgerTypes' /\ GatewayOK' /\ AnswersOK'
<1> USE DEF TypeOK
<1>1. LedgerTypes'
  BY DEF Answer, tableVars, LedgerTypes, TablesOK, TxnsOK
<1>2. txn[r].op \in {"checkout", "webhook"} => txn[r].arg.ref \in Sessions
  BY DEF TxnsOK
<1>3. GatewayOK'
  BY <1>2 DEF Answer, GatewayOK
<1>4. AnswersOK'
  BY <1>2 DEF Answer, AnswersOK, ForGateway
<1>5. QED
  BY <1>1, <1>3, <1>4

LEMMA RestType ==
  ASSUME TypeOK,
         \/ \E r \in Requests : Rollback(r)
         \/ \E s \in Sessions : \/ CompletePayment(s) \/ IgnoreEvent(s)
                                \/ \E r \in Requests : DeliverEvent(r, s)
  PROVE  LedgerTypes' /\ GatewayOK'
<1> USE DEF TypeOK
<1>1. ASSUME NEW r \in Requests, Rollback(r) PROVE LedgerTypes' /\ GatewayOK'
  <2>1. lock' \in [Donations -> Requests \cup {Nobody}]
    BY <1>1 DEF Rollback, Unlocked, TablesOK
  <2>2. QED
    BY <1>1, <2>1, FinishType
       DEF Rollback, tableVars, gatewayVars, LedgerTypes, TablesOK, GatewayOK
<1>2. ASSUME NEW s \in Sessions, CompletePayment(s) \/ IgnoreEvent(s)
      PROVE  LedgerTypes' /\ GatewayOK'
  BY <1>2 DEF CompletePayment, IgnoreEvent, tableVars, LedgerTypes, TablesOK,
              TxnsOK, GatewayOK
<1>3. ASSUME NEW s \in Sessions, NEW r \in Requests, DeliverEvent(r, s)
      PROVE  LedgerTypes' /\ GatewayOK'
  <2> DEFINE p == [Nothing EXCEPT !.ref = s]
  <2>1. PICK d \in live : Load(r, "webhook", d, p)
    BY <1>3 DEF DeliverEvent
  <2>2. p \in Payload /\ p.ref = s /\ d \in Donations
    BY DEF Payload, Nothing, Refs, TablesOK
  <2>3. LedgerTypes'
    BY <2>1, <2>2, LoadType DEF Load, Kinds, LedgerTypes
  <2>4. QED
    BY <2>1, <2>3 DEF Load, gatewayVars, GatewayOK
<1>4. QED
  BY <1>1, <1>2, <1>3

\* A step of r that leaves the other requests alone and has r answered only
\* with its row written leaves the answers well typed.
LEMMA AnswersKept ==
  ASSUME AnswersOK, NEW r \in Requests,
         \A q \in Requests : q # r => txn'[q] = txn[q],
         replied' \subseteq replied, r \notin replied',
         unbacked' \subseteq unbacked
  PROVE  AnswersOK'
BY DEF AnswersOK

LEMMA AnswersType ==
  ASSUME TypeOK, Next
  PROVE  AnswersOK'
<1> USE DEF TypeOK
<1>1. AnswersOK /\ TxnsOK /\ txn \in [Requests -> Txn]
  BY DEF TxnsOK
<1>2. ASSUME UNCHANGED <<txn, answerVars>> PROVE AnswersOK'
  BY <1>1, <1>2 DEF answerVars, AnswersOK
<1>3. ASSUME NEW r \in Requests, txn[r].phase # "flushed", UNCHANGED answerVars,
             \A q \in Requests : q # r => txn'[q] = txn[q]
      PROVE  AnswersOK'
  <2>1. r \notin replied'
    BY <1>1, <1>3 DEF answerVars, AnswersOK
  <2>2. QED
    BY <1>1, <1>3, <2>1, AnswersKept DEF answerVars
<1>4. ASSUME NEW r \in Requests, NEW o, NEW d, NEW p, LoadRow(r, o, d, p)
      PROVE  AnswersOK'
  <2>1. \A q \in Requests : q # r => txn'[q] = txn[q]
    BY <1>1, <1>4 DEF LoadRow
  <2>2. QED
    BY <1>3, <1>4, <2>1 DEF LoadRow, Idle
<1>5. ASSUME NEW r \in Requests, Begin(r) PROVE AnswersOK'
  <2>1. ASSUME NEW d \in Donations, NEW p \in Drafts, StartCreate(r, d, p)
        PROVE  AnswersOK'
    <3>1. \A q \in Requests : q # r => txn'[q] = txn[q]
      BY <1>1, <2>1 DEF StartCreate
    <3>2. QED
      BY <1>3, <2>1, <3>1 DEF StartCreate, Idle
  <2>2. QED
    BY <1>4, <1>5, <2>1 DEF Begin, Load, StartCheckout
<1>6. ASSUME NEW r \in Requests, NEW new, NEW e, txn[r].phase = "loaded",
             Flush(r, new, e)
      PROVE  AnswersOK'
  <2>1. \A q \in Requests : q # r => txn'[q] = txn[q]
    BY <1>1, <1>6 DEF Flush
  <2>2. QED
    BY <1>3, <1>6, <2>1 DEF Flush
<1>7. ASSUME NEW r \in Requests, Handle(r) PROVE AnswersOK'
  <2>1. CASE AllocateReceiptNumber(r)
    BY <1>2, <2>1 DEF AllocateReceiptNumber
  <2>2. ASSUME txn[r].phase # "flushed", Finish(r), UNCHANGED answerVars
        PROVE  AnswersOK'
    <3>1. \A q \in Requests : q # r => txn'[q] = txn[q]
      BY <1>1, <2>2 DEF Finish
    <3>2. QED
      BY <1>3, <2>2, <3>1
  <2>3. CASE AllocationConflict(r)
    BY <2>2, <2>3 DEF AllocationConflict
  <2>4. CASE ReprintReceipt(r) \/ EndWithoutWrite(r)
    BY <2>2, <2>4 DEF ReprintReceipt, EndWithoutWrite, Loaded
  <2>5. CASE CreateDonation(r)
    <3>1. \A q \in Requests : q # r => txn'[q] = txn[q]
      BY <1>1, <2>5 DEF CreateDonation
    <3>2. QED
      BY <1>3, <2>5, <3>1 DEF CreateDonation
  <2>6. CASE UpdateDonation(r) \/ MarkPaid(r) \/ IssueReceipt(r)
    BY <1>6, <2>6 DEF UpdateDonation, MarkPaid, IssueReceipt, Loaded
  <2>7. CASE \/ CreateCheckoutSession(r) \/ MarkPaidFromGateway(r)
             \/ DeleteDonation(r)
    BY <1>6, <2>7 DEF CreateCheckoutSession, MarkPaidFromGateway, DeleteDonation,
                      Loaded
  <2>8. QED
    BY <1>7, <2>1, <2>3, <2>4, <2>5, <2>6, <2>7 DEF Handle
<1>8. ASSUME NEW r \in Requests, Commit(r) \/ Rollback(r) PROVE AnswersOK'
  <2>1. \A q \in Requests : q # r => txn'[q] = txn[q]
    BY <1>1, <1>8 DEF Commit, Rollback, Finish
  <2>2. replied' \subseteq replied /\ r \notin replied' /\ unbacked' \subseteq unbacked
    BY <1>8 DEF Commit, Rollback
  <2>3. QED
    BY <1>1, <2>1, <2>2, AnswersKept
<1>9. ASSUME NEW s \in Sessions, CompletePayment(s) \/ IgnoreEvent(s)
      PROVE  AnswersOK'
  BY <1>2, <1>9 DEF CompletePayment, IgnoreEvent
<1>10. ASSUME NEW s \in Sessions, NEW r \in Requests, DeliverEvent(r, s)
       PROVE  AnswersOK'
  BY <1>4, <1>10 DEF DeliverEvent, Load
<1>11. QED
  BY <1>5, <1>7, <1>8, <1>9, <1>10, AnswerType DEF Next

LEMMA TypeInit == Init => TypeOK
<1> SUFFICES ASSUME Init PROVE TypeOK
  OBVIOUS
<1>1. NumberProofs!TypeOK
  BY CounterAssumptions, NumberProofs!TypeInit
     DEF Init, Numbers!Init, NumberProofs!Init
<1>2. Numbers!TypeOK
  BY <1>1 DEF Numbers!TypeOK, NumberProofs!TypeOK, Numbers!Stages,
              NumberProofs!Stages
<1>3. <<>> \in Seq(Event)
  OBVIOUS
<1>4. QED
  BY <1>2, <1>3, NoRowType, NoTxnType
     DEF Init, TypeOK, TablesOK, TxnsOK, GatewayOK, AnswersOK, NoTxn

LEMMA TypeStep == TypeOK /\ [Next]_vars => TypeOK'
<1> SUFFICES ASSUME TypeOK, [Next]_vars PROVE TypeOK'
  OBVIOUS
<1>1. Numbers!TypeOK'
  BY CounterTypeStep DEF TypeOK
<1>2. LedgerTypes' /\ GatewayOK' /\ AnswersOK'
  <2>1. CASE UNCHANGED vars
    BY <2>1 DEF vars, tableVars, gatewayVars, answerVars, TypeOK, LedgerTypes,
                TablesOK, TxnsOK, GatewayOK, AnswersOK
  <2>2. LedgerTypes /\ GatewayOK
    BY DEF TypeOK, LedgerTypes
  <2>3. CASE Next
    BY <2>2, <2>3, BeginType, HandleType, CommitType, AnswerType, RestType,
       AnswersType DEF Next
  <2>4. QED
    BY <2>1, <2>3
<1>3. QED
  BY <1>1, <1>2 DEF TypeOK, LedgerTypes

\* Every reachable state of the ledger is well typed.
THEOREM LedgerTypesHold == Spec => []TypeOK
BY TypeInit, TypeStep, PTL DEF Spec
=============================================================================
