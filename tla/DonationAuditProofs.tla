------------------------- MODULE DonationAuditProofs -------------------------
(***************************************************************************)
(* Proofs that the audit trail and the receipts of DonationLedger agree    *)
(* with the rows, for any number of donations and of overlapping requests. *)
(*                                                                         *)
(* AuditTail and ReceiptAfterPayment are not inductive: they also need     *)
(* what a request that is still open has read and locked, which            *)
(* OpenRequestsAreSound says.                                              *)
(***************************************************************************)
EXTENDS DonationLedgerProofs

Sound == AuditTail /\ ReceiptAfterPayment /\ OpenRequestsAreSound

SoundFor(r) == CreatorAlone(r) /\ LoadedOnce(r) /\ WriterLocks(r)

\* The trail of a row that says paid shows a payment.
LEMMA PaidIsInTrail ==
  ASSUME TypeOK, AuditTail, NEW d \in live, row[d].status = "paid"
  PROVE  PaidInTrail(d)
<1>1. trail[d] \in Seq(Event) /\ trail[d] # <<>>
  BY DEF TypeOK, TablesOK, AuditTail
<1>2. Len(trail[d]) \in 1..Len(trail[d])
  BY <1>1
<1>3. QED
  BY <1>2 DEF AuditTail, PaidInTrail

\* A trail that an event is appended to keeps its first event and all others.
LEMMA TrailGrows ==
  ASSUME NEW s \in Seq(Event), NEW e \in Seq(Event), s # <<>>
  PROVE  /\ s \o e # <<>> /\ (s \o e)[1] = s[1]
         /\ e = <<>> => s \o e = s
         /\ Len(e) = 1 => (s \o e)[Len(s \o e)] = e[1]
         /\ \A i \in 1..Len(s) : i \in 1..Len(s \o e) /\ (s \o e)[i] = s[i]
<1>1. Len(s) \in Nat \ {0} /\ Len(e) \in Nat /\ Len(s \o e) = Len(s) + Len(e)
  OBVIOUS
<1>2. \A i \in 1..Len(s) : i \in 1..Len(s \o e) /\ (s \o e)[i] = s[i]
  BY <1>1
<1>3. QED
  BY <1>1, <1>2

\* A step of r that leaves the tables alone can only break what is said of r.
LEMMA LocalStep ==
  ASSUME TypeOK, Sound, NEW r \in Requests, NEW x,
         txn' = [txn EXCEPT ![r] = x],
         UNCHANGED tableVars,
         \A d \in Donations : lock[d] \notin {r, Nobody} => lock'[d] = lock[d],
         SoundFor(r)',
         x.phase # "idle" /\ x.op = "create" =>
             \/ At(x.don) = {}
             \/ Creating(r) /\ txn[r].don = x.don
  PROVE  Sound'
<1>1. AuditTail' /\ ReceiptAfterPayment' /\ (live \cap gone = {})'
  BY DEF Sound, tableVars, AuditTail, ReceiptAfterPayment, PaidInTrail,
         ReceiptOf, OpenRequestsAreSound
<1>2. txn \in [Requests -> Txn]
  BY DEF TypeOK, TxnsOK
<1>3. ASSUME NEW q \in Requests, q # r PROVE SoundFor(q)'
  <2>1. txn'[q] = txn[q] /\ txn[q] \in Txn /\ txn'[r] = x
    BY <1>2, <1>3
  <2>2. SoundFor(q)
    BY DEF Sound, OpenRequestsAreSound, SoundFor
  <2>3. CreatorAlone(q)'
    <3> SUFFICES ASSUME Creating(q) PROVE CreatorAlone(q)'
      BY <2>1 DEF CreatorAlone, Creating, Idle
    <3>1. ASSUME NEW p \in Requests, Creating(p)', txn'[p].don = txn'[q].don
          PROVE  p = q
      <4>1. CASE p # r
        BY <1>2, <2>1, <2>2, <3>1, <4>1
           DEF SoundFor, CreatorAlone, Creating, Idle
      <4>2. CASE p = r
        <5>1. q \in At(txn[q].don)
          BY DEF At, Creating
        <5>2. x.don = txn[q].don /\ x.phase # "idle" /\ x.op = "create"
          BY <2>1, <3>1, <4>2 DEF Creating, Idle
        <5>3. Creating(r) /\ txn[r].don = txn[q].don
          BY <5>1, <5>2
        <5>4. QED
          BY <1>3, <2>2, <5>3 DEF SoundFor, CreatorAlone
      <4>3. QED
        BY <4>1, <4>2
    <3>2. QED
      BY <2>1, <2>2, <3>1 DEF SoundFor, CreatorAlone, Creating, Idle, tableVars
  <2>4. LoadedOnce(q)'
    BY <2>1, <2>2 DEF SoundFor, LoadedOnce, Changing, Idle, tableVars,
                      PaidInTrail, ReceiptOf
  <2>5. WriterLocks(q)'
    <3>1. lock[txn[q].don] = q => lock'[txn[q].don] = q
      BY <1>3, <2>1, NobodyIsNoRequest DEF Txn
    <3>2. QED
      BY <2>1, <2>2, <3>1
         DEF SoundFor, WriterLocks, Changing, Idle, tableVars, PaidInTrail,
             ReceiptOf, MayUnfreeze
  <2>6. QED
    BY <2>3, <2>4, <2>5 DEF SoundFor
<1>4. \A q \in Requests : SoundFor(q)'
  BY <1>3
<1>5. QED
  BY <1>1, <1>4 DEF Sound, OpenRequestsAreSound, SoundFor

\* A request that ends takes nothing with it.
LEMMA FinishStep ==
  ASSUME TypeOK, Sound, NEW r \in Requests, Finish(r), UNCHANGED tableVars,
         lock' = Unlocked(r) \/ lock' = lock
  PROVE  Sound'
<1>1. txn'[r].phase = "idle" /\ NoTxn.phase = "idle"
  BY DEF Finish, NoTxn, TypeOK, TxnsOK
<1>2. SoundFor(r)'
  BY <1>1 DEF SoundFor, CreatorAlone, LoadedOnce, WriterLocks, Creating,
              Changing, Idle
<1>3. \A d \in Donations : lock[d] \notin {r, Nobody} => lock'[d] = lock[d]
  BY DEF Unlocked
<1>4. QED
  BY <1>1, <1>2, <1>3, LocalStep DEF Finish

\* What a request loads is true of the trail.
LEMMA LoadStep ==
  ASSUME TypeOK, Sound, NEW r \in Requests, NEW o \in Kinds \ {"create"},
         NEW d \in Donations, NEW p, LoadRow(r, o, d, p)
  PROVE  Sound'
<1> DEFINE x == [NoTxn EXCEPT !.op = o, !.phase = "loaded", !.don = d,
                              !.arg = p, !.seen = row[d]]
<1>1. x.op = o /\ x.phase = "loaded" /\ x.don = d /\ x.seen = row[d]
  BY DEF NoTxn
<1>2. txn' = [txn EXCEPT ![r] = x] /\ txn'[r] = x /\ d \in live
  BY DEF LoadRow, TypeOK, TxnsOK
<1>3. ReceiptOf(row[d]) /\ (row[d].status = "paid" \/ row[d].issued => PaidInTrail(d))
  BY <1>2, PaidIsInTrail DEF Sound, ReceiptAfterPayment
<1>4. UNCHANGED <<tableVars, lock>>
  BY DEF LoadRow
<1> HIDE DEF x
<1>5. SoundFor(r)'
  BY <1>1, <1>2, <1>3, <1>4
     DEF SoundFor, CreatorAlone, LoadedOnce, WriterLocks, Creating, Changing,
         Idle, tableVars, ReceiptOf, PaidInTrail
<1>6. QED
  BY <1>1, <1>2, <1>4, <1>5, LocalStep

\* An UPDATE that leaves a row in order, whatever became of the row since it
\* was loaded.
LEMMA FlushStep ==
  ASSUME TypeOK, Sound, NEW r \in Requests, NEW new \in Row, NEW e,
         txn[r].phase = "loaded", Flush(r, new, e),
         \/ e = <<>> /\ After(r, new).status = row[txn[r].don].status
         \/ Len(e) = 1 /\ e[1].to = After(r, new).status,
         \/ new.issued = txn[r].seen.issued /\ new.snapshot = txn[r].seen.snapshot
         \/ /\ ReceiptOf(After(r, new))
            /\ After(r, new).issued => PaidInTrail(txn[r].don),
         \/ MayUnfreeze(txn[r])
         \/ new.method = txn[r].seen.method /\ new.ref = txn[r].seen.ref
  PROVE  Sound'
<1> DEFINE t == txn[r]
           x == [t EXCEPT !.phase = "flushed", !.draft = After(r, new),
                          !.event = e]
<1>1. t \in Txn /\ t.don \in live /\ txn \in [Requests -> Txn]
  BY DEF Flush, TypeOK, TxnsOK
<1>2. /\ x.phase = "flushed" /\ x.draft = After(r, new) /\ x.event = e
      /\ x.op = t.op /\ x.don = t.don /\ x.seen = t.seen
  BY <1>1 DEF Txn
<1>3. txn' = [txn EXCEPT ![r] = x] /\ txn'[r] = x
  BY <1>1 DEF Flush
<1>4. SoundFor(r) /\ t.op # "create"
  <2>1. SoundFor(r)
    BY DEF Sound, OpenRequestsAreSound, SoundFor
  <2>2. QED
    BY <2>1 DEF SoundFor, CreatorAlone, Creating, Idle
<1>5. UNCHANGED tableVars /\ lock'[t.don] = r
  BY <1>1 DEF Flush, TypeOK, TablesOK
<1>6. \A d \in Donations : lock[d] \notin {r, Nobody} => lock'[d] = lock[d]
  BY DEF Flush, TypeOK, TablesOK
<1>7. /\ ReceiptOf(After(r, new))
      /\ After(r, new).issued => PaidInTrail(t.don)
  <2> SUFFICES ASSUME new.issued = t.seen.issued, new.snapshot = t.seen.snapshot
               PROVE  /\ ReceiptOf(After(r, new))
                      /\ After(r, new).issued => PaidInTrail(t.don)
    OBVIOUS
  <2>1. /\ After(r, new).issued = row[t.don].issued
        /\ After(r, new).snapshot = row[t.don].snapshot
    BY DEF After, Column
  <2>2. ReceiptOf(row[t.don]) /\ (row[t.don].issued => PaidInTrail(t.don))
    BY <1>1 DEF Sound, ReceiptAfterPayment
  <2>3. QED
    BY <2>1, <2>2 DEF ReceiptOf
<1>8. \/ MayUnfreeze(t)
      \/ /\ After(r, new).method = row[t.don].method
         /\ After(r, new).ref = row[t.don].ref
  BY DEF After, Column
<1> HIDE DEF x
<1>9. CreatorAlone(r)' /\ LoadedOnce(r)'
  BY <1>2, <1>3, <1>4, <1>5
     DEF SoundFor, CreatorAlone, LoadedOnce, Creating, Changing, Idle,
         tableVars, ReceiptOf, PaidInTrail
<1>10. WriterLocks(r)'
  BY <1>1, <1>2, <1>3, <1>5, <1>7, <1>8
     DEF WriterLocks, Changing, Idle, tableVars, ReceiptOf, PaidInTrail,
         MayUnfreeze
<1>11. QED
  BY <1>2, <1>3, <1>4, <1>5, <1>6, <1>9, <1>10, LocalStep DEF SoundFor

\* The row and the event that POST /donations inserts.
LEMMA CreateStep ==
  ASSUME TypeOK, Sound, NEW r \in Requests, CreateDonation(r)
  PROVE  Sound'
<1> DEFINE t == txn[r]
           y == [NoRow EXCEPT !.status = t.arg.status, !.method = t.arg.method,
                              !.ref = t.arg.ref,
                              !.number = [year |-> key[r], value |-> taken[r]]]
           e == <<[from |-> "none", to |-> t.arg.status, note |-> "created"]>>
           x == [t EXCEPT !.phase = "flushed", !.draft = y, !.event = e]
<1>1. t \in Txn /\ txn \in [Requests -> Txn] /\ t.phase = "allocating"
  BY DEF CreateDonation, TypeOK, TxnsOK
<1>2. y.status = t.arg.status /\ ~y.issued /\ y.snapshot.status = "none"
  BY DEF NoRow, NoSnapshot
<1>3. /\ x.phase = "flushed" /\ x.draft = y /\ x.event = e
      /\ x.op = t.op /\ x.don = t.don
  BY <1>1 DEF Txn
<1>4. /\ txn' = [txn EXCEPT ![r] = x] /\ txn'[r] = x
      /\ \A q \in Requests \ {r} : txn'[q] = txn[q]
  BY <1>1 DEF CreateDonation
<1>5. SoundFor(r) /\ Creating(r) /\ t.op = "create"
  <2>1. SoundFor(r)
    BY DEF Sound, OpenRequestsAreSound, SoundFor
  <2>2. QED
    BY <1>1, <2>1 DEF SoundFor, LoadedOnce, Creating, Changing, Idle
<1>6. UNCHANGED <<tableVars, lock>>
  BY DEF CreateDonation
<1> HIDE DEF x, y
<1>7. CreatorAlone(r)'
  BY <1>2, <1>3, <1>4, <1>5, <1>6
     DEF SoundFor, CreatorAlone, Creating, Idle, tableVars
<1>8. LoadedOnce(r)' /\ WriterLocks(r)'
  BY <1>3, <1>4, <1>5 DEF LoadedOnce, WriterLocks, Changing
<1>9. QED
  BY <1>3, <1>4, <1>5, <1>6, <1>7, <1>8, LocalStep DEF SoundFor

LEMMA BeginStep ==
  ASSUME TypeOK, Sound, NEW r \in Requests, Begin(r)
  PROVE  Sound'
<1>1. ASSUME NEW d \in Donations, NEW p \in Drafts, StartCreate(r, d, p)
      PROVE  Sound'
  <2> DEFINE x == [NoTxn EXCEPT !.phase = "allocating", !.don = d, !.arg = p]
  <2>1. x.op = "create" /\ x.phase = "allocating" /\ x.don = d
    BY DEF NoTxn
  <2>2. txn' = [txn EXCEPT ![r] = x] /\ txn'[r] = x
    BY <1>1 DEF StartCreate, TypeOK, TxnsOK
  <2>3. /\ UNCHANGED <<tableVars, lock>> /\ d \notin live \cup gone
        /\ At(d) = {} /\ Idle(r)
    BY <1>1 DEF StartCreate
  <2> HIDE DEF x
  <2>4. ASSUME NEW q \in Requests, Creating(q)', txn'[q].don = d PROVE q = r
    <3> SUFFICES ASSUME q # r PROVE FALSE
      OBVIOUS
    <3>1. txn'[q] = txn[q]
      BY <2>2 DEF TypeOK, TxnsOK
    <3>2. q \in At(d)
      BY <2>4, <3>1 DEF At, Creating, Idle
    <3>3. QED
      BY <2>3, <3>2
  <2>5. SoundFor(r)'
    BY <2>1, <2>2, <2>3, <2>4
       DEF SoundFor, CreatorAlone, LoadedOnce, WriterLocks, Creating, Changing,
           Idle, tableVars
  <2>6. QED
    BY <2>1, <2>2, <2>3, <2>5, LocalStep
<1>2. ASSUME NEW d \in Donations, NEW p, NEW o \in Kinds \ {"create"},
             LoadRow(r, o, d, p)
      PROVE  Sound'
  BY <1>2, LoadStep
<1>3. QED
  BY <1>1, <1>2 DEF Begin, Load, StartCheckout, Kinds

LEMMA HandleStep ==
  ASSUME TypeOK, Sound, NEW r \in Requests, Handle(r)
  PROVE  Sound'
<1> DEFINE t == txn[r]
<1>1. t \in Txn /\ t.seen \in Row /\ t.arg \in Payload /\ SoundFor(r)
  BY DEF TypeOK, TxnsOK, Txn, Sound, OpenRequestsAreSound, SoundFor
<1>2. CASE AllocateReceiptNumber(r)
  BY <1>2 DEF AllocateReceiptNumber, tableVars, Sound, AuditTail,
              ReceiptAfterPayment, OpenRequestsAreSound, CreatorAlone,
              LoadedOnce, WriterLocks, Creating, Changing, Idle, MayUnfreeze,
              PaidInTrail, ReceiptOf
<1>3. CASE AllocationConflict(r) \/ ReprintReceipt(r) \/ EndWithoutWrite(r)
  BY <1>3, FinishStep
     DEF AllocationConflict, ReprintReceipt, EndWithoutWrite, tableVars
<1>4. CASE CreateDonation(r)
  BY <1>4, CreateStep
<1>5. CASE UpdateDonation(r)
  <2> DEFINE new == Patched(t)
             e == IF t.arg.status \in {Keep, t.seen.status} THEN <<>>
                  ELSE Transition(r, new, "status_update")
  <2>1. new \in Row
    BY <1>1, KeepIsNoValue DEF Patched, Given, Row, Payload
  <2>2. Flush(r, new, e) /\ t.phase = "loaded" /\ ~UpdateRefused(t)
    BY <1>5 DEF UpdateDonation, Loaded
  <2>3. \/ e = <<>> /\ After(r, new).status = row[t.don].status
        \/ Len(e) = 1 /\ e[1].to = After(r, new).status
    BY <1>1 DEF Patched, Given, After, Column, Transition, Row
  <2>4. new.issued = t.seen.issued /\ new.snapshot = t.seen.snapshot
    BY <1>1 DEF Patched, Row
  <2>5. \/ MayUnfreeze(t)
        \/ new.method = t.seen.method /\ new.ref = t.seen.ref
    BY <1>1, <2>2 DEF UpdateRefused, MayUnfreeze, Patched, Given, Row
  <2> HIDE DEF e, new
  <2>6. QED
    BY <2>1, <2>2, <2>3, <2>4, <2>5, FlushStep
<1>6. CASE MarkPaid(r)
  <2> DEFINE new == [t.seen EXCEPT !.status = "paid", !.ref = PaidReference(t)]
             e == IF t.seen.status = "paid" THEN <<>>
                  ELSE Transition(r, new, "mark_paid")
  <2>1. new \in Row /\ new.status = "paid"
    BY <1>1 DEF PaidReference, Row, Payload, Statuses
  <2>2. /\ Flush(r, new, e) /\ t.phase = "loaded" /\ t.op = "mark_paid"
        /\ ~MarkPaidRefused(t) /\ ~AlreadyPaid(t)
    BY <1>6 DEF MarkPaid, Loaded
  <2>3. \/ e = <<>> /\ After(r, new).status = row[t.don].status
        \/ Len(e) = 1 /\ e[1].to = After(r, new).status
    BY <2>1 DEF After, Column, Transition
  <2>4. new.issued = t.seen.issued /\ new.snapshot = t.seen.snapshot
    BY <1>1 DEF Row
  <2>5. MayUnfreeze(t)
    BY <2>2 DEF MarkPaidRefused, AlreadyPaid, MayUnfreeze
  <2> HIDE DEF e, new
  <2>6. QED
    BY <2>1, <2>2, <2>3, <2>4, <2>5, FlushStep
<1>7. CASE IssueReceipt(r)
  <2> DEFINE new == [t.seen EXCEPT !.issued = TRUE, !.issuedAt = r,
                                   !.snapshot = SnapshotOf(t.seen)]
  <2>1. SnapshotOf(t.seen) \in Snapshot /\ SnapshotOf(t.seen).status = t.seen.status
    BY <1>1 DEF SnapshotOf, Snapshot, Row
  <2>2. /\ new \in Row /\ new.issued /\ new.snapshot.status = t.seen.status
        /\ new.status = t.seen.status
        /\ new.method = t.seen.method /\ new.ref = t.seen.ref
    BY <1>1, <2>1 DEF Row
  <2>3. /\ Flush(r, new, <<>>) /\ t.phase = "loaded" /\ t.op = "issue"
        /\ t.seen.status = "paid" /\ ~t.seen.issued
    BY <1>7 DEF IssueReceipt, IssueRefused, Loaded
  <2>4. /\ t.don \in live /\ PaidInTrail(t.don)
        /\ t.seen.snapshot.status = "none"
    BY <1>1, <2>3
       DEF SoundFor, LoadedOnce, Changing, Idle, ReceiptOf, Flush
  <2>5. After(r, new).issued /\ After(r, new).snapshot.status = "paid"
    BY <2>2, <2>3, <2>4 DEF After, Column
  <2>6. After(r, new).status = row[t.don].status
    BY <2>2 DEF After, Column
  <2> HIDE DEF new
  <2>7. QED
    BY <2>2, <2>3, <2>4, <2>5, <2>6, FlushStep DEF ReceiptOf
<1>8. CASE CreateCheckoutSession(r)
  <2> DEFINE new == [t.seen EXCEPT !.session = t.arg.ref]
  <2>1. t.arg.ref \in Sessions
    BY <1>8 DEF CreateCheckoutSession, Loaded, TypeOK, TxnsOK
  <2>2. /\ new \in Row /\ new.status = t.seen.status
        /\ new.issued = t.seen.issued /\ new.snapshot = t.seen.snapshot
        /\ new.method = t.seen.method /\ new.ref = t.seen.ref
    BY <1>1, <2>1 DEF Row
  <2>3. Flush(r, new, <<>>) /\ t.phase = "loaded"
    BY <1>8 DEF CreateCheckoutSession, Loaded
  <2>4. After(r, new).status = row[t.don].status
    BY <2>2 DEF After, Column
  <2> HIDE DEF new
  <2>5. QED
    BY <2>2, <2>3, <2>4, FlushStep
<1>9. CASE MarkPaidFromGateway(r)
  <2> DEFINE new == [t.seen EXCEPT !.status = "paid", !.ref = t.arg.ref]
             e == IF After(r, new).status = t.seen.status THEN <<>>
                  ELSE Transition(r, new, "stripe")
  <2>1. t.arg.ref \in Sessions
    BY <1>9 DEF MarkPaidFromGateway, Loaded, TypeOK, TxnsOK
  <2>2. /\ new \in Row /\ new.status = "paid"
        /\ new.issued = t.seen.issued /\ new.snapshot = t.seen.snapshot
    BY <1>1, <2>1 DEF Row, Refs, Statuses
  <2>3. Flush(r, new, e) /\ t.phase = "loaded" /\ t.op = "webhook"
    BY <1>9 DEF MarkPaidFromGateway, Loaded
  <2>4. \/ e = <<>> /\ After(r, new).status = row[t.don].status
        \/ Len(e) = 1 /\ e[1].to = After(r, new).status
    BY <2>2 DEF After, Column, Transition
  <2>5. MayUnfreeze(t)
    BY <2>3 DEF MayUnfreeze
  <2> HIDE DEF e, new
  <2>6. QED
    BY <2>2, <2>3, <2>4, <2>5, FlushStep
<1>10. CASE DeleteDonation(r)
  <2>1. Flush(r, t.seen, <<>>) /\ t.phase = "loaded"
    BY <1>10 DEF DeleteDonation, Loaded
  <2>2. After(r, t.seen).status = row[t.don].status
    BY DEF After, Column
  <2>3. QED
    BY <1>1, <2>1, <2>2, FlushStep
<1>11. QED
  BY <1>2, <1>3, <1>4, <1>5, <1>6, <1>7, <1>8, <1>9, <1>10 DEF Handle

\* A commit makes the draft of r the row, and adds its event to the trail.
LEMMA CommitStep ==
  ASSUME TypeOK, Sound, NEW r \in Requests, Commit(r)
  PROVE  Sound'
<1>0. PICK t \in Txn, d \in Donations : t = txn[r] /\ d = txn[r].don
  BY DEF TypeOK, TxnsOK, Txn
<1>1. /\ t \in Txn /\ d = t.don /\ txn \in [Requests -> Txn]
      /\ t.phase = "flushed" /\ t.event \in Seq(Event)
      /\ row \in [Donations -> Row] /\ trail \in [Donations -> Seq(Event)]
      /\ live \subseteq Donations
  BY <1>0 DEF TypeOK, TablesOK, TxnsOK, Txn, Commit
<1>2. /\ SoundFor(r) /\ AuditTail /\ ReceiptAfterPayment
      /\ live \cap gone = {}
  BY DEF Sound, OpenRequestsAreSound, SoundFor
<1>3. txn'[r].phase = "idle" /\ \A q \in Requests \ {r} : txn'[q] = txn[q]
  BY DEF Commit, Finish, NoTxn, TypeOK, TxnsOK
<1>4. \A q \in Requests \ {r} : lock[txn[q].don] = q => lock'[txn[q].don] = q
  BY <1>0, <1>1 DEF Commit, Unlocked, Txn
<1>5. SoundFor(r)'
  BY <1>3 DEF SoundFor, CreatorAlone, LoadedOnce, WriterLocks, Creating,
              Changing, Idle
\* What a commit must keep for a request q that goes on.
<1>6. ASSUME \A c \in Donations \ {d} :
                row'[c] = row[c] /\ trail'[c] = trail[c]
                /\ (c \in live' <=> c \in live) /\ (c \in gone' <=> c \in gone),
             \A q \in Requests \ {r} : Creating(q) => txn[q].don # d,
             \A q \in Requests \ {r} : Changing(q) /\ txn[q].phase = "flushed"
                                      => txn[q].don # d,
             \A q \in Requests \ {r} : Changing(q) /\ txn[q].don = d =>
                 /\ d \in live' \cup gone'
                 /\ d \in live' => d \in live /\ (PaidInTrail(d) => PaidInTrail(d)')
      PROVE  \A q \in Requests : SoundFor(q)'
  <2> SUFFICES ASSUME NEW q \in Requests, q # r PROVE SoundFor(q)'
    BY <1>5
  <2>1. SoundFor(q) /\ txn'[q] = txn[q] /\ txn[q] \in Txn /\ txn[q].don \in Donations
    BY <1>0, <1>1, <1>3 DEF Sound, OpenRequestsAreSound, SoundFor, Txn
  <2>2. CreatorAlone(q)'
    BY <1>3, <1>6, <2>1 DEF SoundFor, CreatorAlone, Creating, Idle
  <2>3. LoadedOnce(q)'
    <3>1. CASE txn[q].don = d
      BY <1>6, <2>1, <3>1
         DEF SoundFor, LoadedOnce, Changing, Idle, ReceiptOf
    <3>2. CASE txn[q].don # d
      BY <1>6, <2>1, <3>2
         DEF SoundFor, LoadedOnce, Changing, Idle, ReceiptOf, PaidInTrail
    <3>3. QED
      BY <3>1, <3>2
  <2>4. WriterLocks(q)'
    BY <1>4, <1>6, <2>1
       DEF SoundFor, WriterLocks, Changing, Idle, ReceiptOf, PaidInTrail,
           MayUnfreeze
  <2>5. QED
    BY <2>2, <2>3, <2>4 DEF SoundFor
<1>7. CASE CommitCreate(r)
  <2>1. Creating(r) /\ d \notin live \cup gone
    BY <1>0, <1>1, <1>2, <1>7
       DEF CommitCreate, SoundFor, CreatorAlone, Creating, Idle
  <2>2. /\ row'[d] = t.draft /\ trail'[d] = t.event /\ live' = live \cup {d}
        /\ gone' = gone
        /\ \A c \in Donations \ {d} : row'[c] = row[c] /\ trail'[c] = trail[c]
    BY <1>0, <1>1, <1>7 DEF CommitCreate
  <2>3. /\ Len(t.event) = 1 /\ t.event[1].note = "created"
        /\ t.event[1].to = t.draft.status
        /\ ~t.draft.issued /\ t.draft.snapshot.status = "none"
    <3>1. /\ t.event = <<[from |-> "none", to |-> t.draft.status,
                           note |-> "created"]>>
          /\ ~t.draft.issued /\ t.draft.snapshot.status = "none"
      BY <1>0, <1>1, <1>2, <2>1 DEF SoundFor, CreatorAlone
    <3>2. QED
      BY <3>1
  <2>4. AuditTail'
    BY SMTT(30), <1>0, <1>1, <1>2, <2>2, <2>3 DEF AuditTail
  <2>5. ReceiptAfterPayment'
    BY SMTT(30), <1>0, <1>1, <1>2, <2>2, <2>3 DEF ReceiptAfterPayment, ReceiptOf, PaidInTrail
  <2>6. \A q \in Requests \ {r} : ~Idle(q) => txn[q].don # d
    BY <1>0, <1>1, <1>2, <2>1
       DEF Sound, OpenRequestsAreSound, SoundFor, CreatorAlone, LoadedOnce,
           Creating, Changing
  <2>7. \A q \in Requests : SoundFor(q)'
    BY <1>6, <2>2, <2>6 DEF Creating, Changing
  <2>8. QED
    BY <1>2, <2>1, <2>2, <2>4, <2>5, <2>7
       DEF Sound, OpenRequestsAreSound, SoundFor
<1>8. CASE t.op # "create" /\ (CommitDelete(r) \/ CommitUpdate(r))
  <2>1. Changing(r) /\ d \in live /\ lock[d] = r
    BY <1>0, <1>1, <1>2, <1>8 DEF SoundFor, WriterLocks, Changing, Idle
  <2>2. \A q \in Requests \ {r} : Creating(q) => txn[q].don # d
    BY <2>1 DEF Sound, OpenRequestsAreSound, CreatorAlone
  <2>3. \A q \in Requests \ {r} : Changing(q) /\ txn[q].phase = "flushed"
                                  => txn[q].don # d
    BY <2>1 DEF Sound, OpenRequestsAreSound, WriterLocks
  <2>4. CASE CommitDelete(r)
    <3>1. /\ live' = live \ {d} /\ gone' = gone \cup {d} /\ row' = row
          /\ \A c \in Donations \ {d} : trail'[c] = trail[c]
      BY <1>0, <1>1, <2>4 DEF CommitDelete
    <3>2. AuditTail' /\ ReceiptAfterPayment'
      BY <1>0, <1>1, <1>2, <3>1
         DEF AuditTail, ReceiptAfterPayment, PaidInTrail, ReceiptOf
    <3>3. \A q \in Requests : SoundFor(q)'
      BY <1>6, <2>2, <2>3, <3>1
    <3>4. QED
      BY <1>2, <3>1, <3>2, <3>3 DEF Sound, OpenRequestsAreSound, SoundFor
  <2>5. CASE CommitUpdate(r)
    <3>1. /\ live' = live /\ gone' = gone
          /\ row'[d] = t.draft /\ trail'[d] = trail[d] \o t.event
          /\ \A c \in Donations \ {d} : row'[c] = row[c] /\ trail'[c] = trail[c]
      BY <1>0, <1>1, <2>5 DEF CommitUpdate
    <3>2. /\ \/ t.event = <<>> /\ t.draft.status = row[d].status
             \/ Len(t.event) = 1 /\ t.event[1].to = t.draft.status
          /\ ReceiptOf(t.draft) /\ (t.draft.issued => PaidInTrail(d))
      BY <1>0, <1>1, <1>2, <2>1 DEF SoundFor, WriterLocks
    <3>3. /\ trail'[d] # <<>> /\ trail'[d][1] = trail[d][1]
          /\ t.event = <<>> => trail'[d] = trail[d]
          /\ Len(t.event) = 1 => trail'[d][Len(trail'[d])] = t.event[1]
          /\ \A i \in 1..Len(trail[d]) :
                 i \in 1..Len(trail'[d]) /\ trail'[d][i] = trail[d][i]
      <4>1. trail[d] # <<>>
        BY <1>2, <2>1 DEF AuditTail
      <4> DEFINE z == trail[d]
                 e == t.event
      <4>2. z \in Seq(Event) /\ e \in Seq(Event) /\ z # <<>>
        BY <1>1, <4>1
      <4> HIDE DEF z, e
      <4>3. /\ z \o e # <<>> /\ (z \o e)[1] = z[1]
            /\ e = <<>> => z \o e = z
            /\ Len(e) = 1 => (z \o e)[Len(z \o e)] = e[1]
            /\ \A i \in 1..Len(z) :
                   i \in 1..Len(z \o e) /\ (z \o e)[i] = z[i]
        BY <4>2, TrailGrows
      <4>4. trail'[d] = z \o e
        BY <3>1 DEF z, e
      <4>5. QED
        BY <4>3, <4>4 DEF z, e
    <3>4. PaidInTrail(d) => PaidInTrail(d)'
      BY <3>3 DEF PaidInTrail
    <3>5. /\ trail'[d] # <<>> /\ trail'[d][1].note = "created"
          /\ trail'[d][Len(trail'[d])].to = row'[d].status
      BY <1>2, <2>1, <3>1, <3>2, <3>3 DEF AuditTail
    <3>6. AuditTail'
      BY <1>1, <1>2, <3>1, <3>5 DEF AuditTail
    <3>7. ReceiptAfterPayment'
      <4> SUFFICES ASSUME NEW c \in live'
                   PROVE  ReceiptOf(row'[c]) /\ (row'[c].issued => PaidInTrail(c)')
        BY DEF ReceiptAfterPayment, ReceiptOf
      <4>1. CASE c = d
        BY <3>1, <3>2, <3>4, <4>1
      <4>2. CASE c # d
        <5>1. c \in live /\ row'[c] = row[c] /\ trail'[c] = trail[c]
          BY <1>1, <3>1, <4>2
        <5>2. ReceiptOf(row[c]) /\ (row[c].issued => PaidInTrail(c))
          BY <1>2, <5>1 DEF ReceiptAfterPayment
        <5>3. PaidInTrail(c)' = PaidInTrail(c)
          BY <5>1 DEF PaidInTrail
        <5>4. QED
          BY <5>1, <5>2, <5>3 DEF ReceiptOf
      <4>3. QED
        BY <4>1, <4>2
    <3>8. \A q \in Requests : SoundFor(q)'
      BY <1>6, <2>1, <2>2, <2>3, <3>1, <3>4
    <3>9. QED
      BY <1>2, <3>1, <3>6, <3>7, <3>8 DEF Sound, OpenRequestsAreSound, SoundFor
  <2>6. QED
    BY <1>8, <2>4, <2>5
<1>9. QED
  BY <1>0, <1>7, <1>8 DEF Commit, CommitDelete, CommitUpdate

LEMMA SoundInit == Init => Sound
BY DEF Init, Sound, AuditTail, ReceiptAfterPayment, OpenRequestsAreSound,
       CreatorAlone, LoadedOnce, WriterLocks, Creating, Changing, Idle, NoTxn

LEMMA SoundStep == TypeOK /\ Sound /\ [Next]_vars => Sound'
<1> SUFFICES ASSUME TypeOK, Sound, [Next]_vars PROVE Sound'
  OBVIOUS
<1>1. CASE UNCHANGED <<tableVars, lock, txn>>
  BY <1>1 DEF tableVars, Sound, AuditTail, ReceiptAfterPayment,
              OpenRequestsAreSound, CreatorAlone, LoadedOnce, WriterLocks,
              Creating, Changing, Idle, MayUnfreeze, PaidInTrail, ReceiptOf
<1>2. ASSUME NEW r \in Requests, Rollback(r) PROVE Sound'
  BY <1>2, FinishStep DEF Rollback
<1>3. ASSUME NEW s \in Sessions, CompletePayment(s) \/ IgnoreEvent(s)
      PROVE  Sound'
  BY <1>1, <1>3 DEF CompletePayment, IgnoreEvent
<1>4. ASSUME NEW s \in Sessions, NEW r \in Requests, DeliverEvent(r, s)
      PROVE  Sound'
  BY <1>4, LoadStep DEF DeliverEvent, Load, Kinds, TypeOK, TablesOK
<1>5. ASSUME NEW r \in Requests, Answer(r) PROVE Sound'
  BY <1>1, <1>5 DEF Answer
<1>6. QED
  BY <1>1, <1>2, <1>3, <1>4, <1>5, BeginStep, HandleStep, CommitStep DEF Next, vars

LEMMA AlwaysSound == Spec => [](TypeOK /\ Sound)
<1>1. Init => TypeOK /\ Sound
  BY TypeInit, SoundInit
<1>2. TypeOK /\ Sound /\ [Next]_vars => (TypeOK /\ Sound)'
  BY TypeStep, SoundStep
<1>3. QED
  BY <1>1, <1>2, PTL DEF Spec

\* The last status event of every donation is the status of its row, however
\* staff requests and webhooks overlap.
THEOREM TrailMatchesRow == Spec => []AuditTail
<1>1. TypeOK /\ Sound => AuditTail
  BY DEF Sound
<1>2. QED
  BY <1>1, AlwaysSound, PTL

\* No donation has a receipt unless it was paid at some time.
THEOREM NoReceiptBeforePayment == Spec => []ReceiptAfterPayment
<1>1. TypeOK /\ Sound => ReceiptAfterPayment
  BY DEF Sound
<1>2. QED
  BY <1>1, AlwaysSound, PTL

\* Every open request is sound: it is what the two theorems above rest on.
THEOREM RequestsStaySound == Spec => []OpenRequestsAreSound
<1>1. TypeOK /\ Sound => OpenRequestsAreSound
  BY DEF Sound
<1>2. QED
  BY <1>1, AlwaysSound, PTL

\* Rows and trails change by commits only.
LEMMA ChangedByCommit ==
  ASSUME Next, tableVars' # tableVars
  PROVE  \E r \in Requests : Commit(r)
<1>1. \A r \in Requests : ~Begin(r)
  BY Zenon DEF Begin, StartCreate, StartCheckout, Load, LoadRow
<1>2. \A r \in Requests : ~Handle(r)
  BY DEF Handle, AllocateReceiptNumber, AllocationConflict,
         CreateDonation, UpdateDonation, MarkPaid, ReprintReceipt,
         IssueReceipt, CreateCheckoutSession, MarkPaidFromGateway,
         DeleteDonation, EndWithoutWrite, Flush
<1>3. \A r \in Requests : ~Answer(r) /\ ~Rollback(r)
  BY DEF Answer, Rollback
<1>4. \A s \in Sessions : ~CompletePayment(s) /\ ~IgnoreEvent(s)
  BY DEF CompletePayment, IgnoreEvent
<1>5. \A s \in Sessions, r \in Requests : ~DeliverEvent(r, s)
  BY DEF DeliverEvent, Load, LoadRow
<1>6. QED
  BY Zenon, <1>1, <1>2, <1>3, <1>4, <1>5 DEF Next

\* What the commit of r does to a donation d whose row or trail it changes.
LEMMA CommitsOf ==
  ASSUME TypeOK, Sound, NEW r \in Requests, Commit(r), NEW d \in Donations,
         row'[d] # row[d] \/ trail'[d] # trail[d], d \in live'
  PROVE  /\ Commits(r, d)
         /\ row'[d] = txn[r].draft
         /\ \/ Creating(r) /\ d \notin live
            \/ Changing(r) /\ d \in live /\ trail'[d] = trail[d] \o txn[r].event
<1>1. PICK t \in Txn : /\ t = txn[r] /\ t.don \in Donations /\ t.phase = "flushed"
                      /\ txn'[r].phase = "idle"
  BY DEF Commit, Finish, NoTxn, TypeOK, TxnsOK, Txn
<1>2. /\ CreatorAlone(r) /\ WriterLocks(r)
      /\ row \in [Donations -> Row] /\ trail \in [Donations -> Seq(Event)]
  BY DEF Sound, OpenRequestsAreSound, TypeOK, TablesOK
<1>3. t.don = d
  BY <1>1, <1>2 DEF Commit, CommitCreate, CommitDelete, CommitUpdate
<1>4. ~CommitDelete(r)
  BY <1>1, <1>3 DEF CommitDelete
<1>5. CASE CommitCreate(r)
  BY <1>1, <1>2, <1>3, <1>5
     DEF CommitCreate, CreatorAlone, Creating, Idle, Commits
<1>6. CASE CommitUpdate(r)
  BY <1>1, <1>2, <1>3, <1>6
     DEF CommitUpdate, WriterLocks, Changing, Idle, Commits
<1>7. QED
  BY <1>4, <1>5, <1>6 DEF Commit

LEMMA ChangeIsInformed == TypeOK /\ Sound /\ [Next]_vars => [InformedChange]_vars
<1> SUFFICES ASSUME TypeOK, Sound, Next, NEW d \in Donations, FrozenChange(d)
             PROVE  \E r \in Requests : Commits(r, d) /\ MayUnfreeze(txn[r])
  BY DEF InformedChange
<1>1. row'[d] # row[d] /\ d \in live /\ d \in live'
  BY DEF FrozenChange
<1>2. PICK r \in Requests : Commit(r)
  BY <1>1, ChangedByCommit DEF tableVars
<1>3. Commits(r, d) /\ row'[d] = txn[r].draft /\ Changing(r)
  BY <1>1, <1>2, CommitsOf
<1>4. MayUnfreeze(txn[r])
  BY <1>3 DEF Sound, OpenRequestsAreSound, WriterLocks, Commits, FrozenChange
<1>5. QED
  BY <1>3, <1>4

\* Nobody who saw the receipt changes what it froze, except the webhook and a
\* mark-paid of a donation that is not paid any more.
THEOREM FrozenFieldsHold == Spec => FrozenForInformedWriters
BY AlwaysSound, ChangeIsInformed, PTL DEF Spec, FrozenForInformedWriters

-----------------------------------------------------------------------------
(* No two donations ever share a receipt number: what ReceiptCounter         *)
(* guarantees of the numbers it commits carries over to the donations table. *)

Counted == Numbers!TypeOK /\ Numbers!LockGuardsNumber /\ Numbers!GapFree

\* The definitions of the counter mean the same in both instances.
LEMMA CountedMeans == Counted <=> NumberProofs!CounterInv
BY DEF Counted, NumberProofs!CounterInv,
       Numbers!TypeOK, NumberProofs!TypeOK, Numbers!Stages, NumberProofs!Stages,
       Numbers!LockGuardsNumber, NumberProofs!LockGuardsNumber,
       Numbers!GapFree, NumberProofs!GapFree

LEMMA CountedInit == Init => Counted
BY CountedMeans, CounterAssumptions, NumberProofs!CounterInvInit
   DEF Init, Numbers!Init, NumberProofs!Init

LEMMA CountedStep == Counted /\ [Next]_vars => Counted'
<1>1. NumberProofs!CounterInv /\ NumberProofs!TypeOK'
      /\ [NumberProofs!Next]_(NumberProofs!counterVars)
      => NumberProofs!CounterInv'
  BY NumberProofs!CounterInvStep, CounterAssumptions
<1>2. Numbers!TypeOK' => NumberProofs!TypeOK'
  BY DEF Numbers!TypeOK, NumberProofs!TypeOK, Numbers!Stages, NumberProofs!Stages
<1>3. NumberProofs!CounterInv' => Counted'
  BY DEF Counted, NumberProofs!CounterInv,
         Numbers!TypeOK, NumberProofs!TypeOK, Numbers!Stages, NumberProofs!Stages,
         Numbers!LockGuardsNumber, NumberProofs!LockGuardsNumber,
         Numbers!GapFree, NumberProofs!GapFree
<1>4. [Numbers!Next]_counterVars => [NumberProofs!Next]_(NumberProofs!counterVars)
  BY DEF counterVars, NumberProofs!counterVars,
         Numbers!Next, NumberProofs!Next,
         Numbers!Allocate, NumberProofs!Allocate,
         Numbers!LockAndIncrement, NumberProofs!LockAndIncrement,
         Numbers!FindNoRow, NumberProofs!FindNoRow,
         Numbers!InsertRow, NumberProofs!InsertRow,
         Numbers!InsertConflict, NumberProofs!InsertConflict,
         Numbers!CommitNumber, NumberProofs!CommitNumber,
         Numbers!RollbackNumber, NumberProofs!RollbackNumber,
         Numbers!Take, NumberProofs!Take, Numbers!Free, NumberProofs!Free
<1>5. QED
  BY <1>1, <1>2, <1>3, <1>4, CountedMeans, CounterTypeStep, StepOfCounter
     DEF Counted

\* The draft of a new donation carries the number its request holds; an UPDATE
\* never touches receipt_number.
DraftNumber(r) ==
    LET t == txn[r] IN
    /\ Creating(r) /\ t.phase = "flushed" =>
           stage[r] = "held" /\ t.draft.number = [year |-> key[r], value |-> taken[r]]
    /\ Changing(r) /\ t.phase = "flushed" => t.draft.number = row[t.don].number

DraftNumbers == \A r \in Requests : DraftNumber(r)

Numbered == NumbersAreDistinct /\ DraftNumbers

\* A step of r that leaves the tables and the numbers in use alone.
LEMMA NumberedLocally ==
  ASSUME TypeOK, Numbered, NEW r \in Requests,
         UNCHANGED <<tableVars, granted>>,
         \A q \in Requests \ {r} : /\ txn'[q] = txn[q] /\ stage'[q] = stage[q]
                                   /\ key'[q] = key[q] /\ taken'[q] = taken[q],
         DraftNumber(r)'
  PROVE  Numbered'
<1>1. NumbersAreDistinct'
  BY DEF Numbered, NumbersAreDistinct, tableVars
<1>2. ASSUME NEW q \in Requests, q # r PROVE DraftNumber(q)'
  BY <1>2 DEF Numbered, DraftNumbers, DraftNumber, Creating, Changing, Idle,
              tableVars
<1>3. QED
  BY <1>1, <1>2 DEF Numbered, DraftNumbers

\* Nothing is claimed of a request that has not written.
LEMMA NotFlushed ==
  ASSUME NEW r, txn'[r].phase # "flushed" PROVE DraftNumber(r)'
BY DEF DraftNumber

LEMMA FinishNumbered ==
  ASSUME TypeOK, Numbered, NEW r \in Requests, Finish(r),
         UNCHANGED <<tableVars, granted>>,
         \A q \in Requests \ {r} : /\ stage'[q] = stage[q] /\ key'[q] = key[q]
                                   /\ taken'[q] = taken[q]
  PROVE  Numbered'
<1>1. /\ txn'[r].phase = "idle"
      /\ \A q \in Requests \ {r} : txn'[q] = txn[q]
  BY DEF Finish, NoTxn, TypeOK, TxnsOK
<1>2. QED
  BY <1>1, NotFlushed, NumberedLocally

LEMMA FlushNumbered ==
  ASSUME TypeOK, Sound, Numbered, NEW r \in Requests, NEW new, NEW e,
         txn[r].phase = "loaded", Flush(r, new, e)
  PROVE  Numbered'
<1>1. txn[r].op # "create"
  BY DEF Sound, OpenRequestsAreSound, CreatorAlone, Creating, Idle
<1>2. /\ txn'[r].draft = After(r, new) /\ txn'[r].don = txn[r].don
      /\ txn'[r].op = txn[r].op
      /\ \A q \in Requests \ {r} : txn'[q] = txn[q]
  BY DEF Flush, TypeOK, TxnsOK, Txn
<1>3. After(r, new).number = row[txn[r].don].number
  BY DEF After
<1>4. UNCHANGED <<tableVars, counterVars>>
  BY DEF Flush
<1>5. DraftNumber(r)'
  BY <1>1, <1>2, <1>3, <1>4 DEF DraftNumber, Creating, Changing, tableVars
<1>6. QED
  BY <1>2, <1>4, <1>5, NumberedLocally DEF counterVars

LEMMA BeginNumbered ==
  ASSUME TypeOK, Numbered, NEW r \in Requests, Begin(r)
  PROVE  Numbered'
<1>1. UNCHANGED <<tableVars, counterVars>>
  BY DEF Begin, StartCreate, StartCheckout, Load, LoadRow
<1>2. /\ txn'[r].phase \in {"loaded", "allocating"}
      /\ \A q \in Requests \ {r} : txn'[q] = txn[q]
  <2>1. txn \in [Requests -> Txn]
    BY DEF TypeOK, TxnsOK
  <2>2. ASSUME NEW o, NEW d, NEW p, LoadRow(r, o, d, p)
        PROVE  /\ txn'[r].phase = "loaded"
               /\ \A q \in Requests \ {r} : txn'[q] = txn[q]
    BY <2>1, <2>2 DEF LoadRow, NoTxn
  <2>3. ASSUME NEW d, NEW p, StartCreate(r, d, p)
        PROVE  /\ txn'[r].phase = "allocating"
               /\ \A q \in Requests \ {r} : txn'[q] = txn[q]
    BY <2>1, <2>3 DEF StartCreate, NoTxn
  <2>4. QED
    BY <2>2, <2>3 DEF Begin, StartCheckout, Load
<1>3. QED
  BY <1>1, <1>2, NotFlushed, NumberedLocally DEF counterVars

LEMMA HandleNumbered ==
  ASSUME TypeOK, Sound, Numbered, NEW r \in Requests, Handle(r)
  PROVE  Numbered'
<1>1. txn \in [Requests -> Txn] /\ CreatorAlone(r) /\ LoadedOnce(r)
  BY DEF TypeOK, TxnsOK, Sound, OpenRequestsAreSound
<1>2. /\ stage \in [Requests -> Numbers!Stages] /\ key \in [Requests -> Years]
      /\ taken \in [Requests -> Nat]
  BY DEF TypeOK, Numbers!TypeOK
<1>3. CASE AllocateReceiptNumber(r)
  <2>1. txn'[r].phase # "flushed" /\ txn' = txn /\ UNCHANGED tableVars
    BY <1>3 DEF AllocateReceiptNumber
  <2>2. /\ granted' = granted
        /\ \A q \in Requests \ {r} : /\ stage'[q] = stage[q] /\ key'[q] = key[q]
                                     /\ taken'[q] = taken[q]
    BY <1>2, <1>3 DEF AllocateReceiptNumber, Numbers!LockAndIncrement,
                      Numbers!FindNoRow, Numbers!InsertRow, Numbers!Take
  <2>3. QED
    BY <2>1, <2>2, NotFlushed, NumberedLocally
<1>4. CASE AllocationConflict(r)
  BY <1>2, <1>4, FinishNumbered
     DEF AllocationConflict, Numbers!InsertConflict, tableVars
<1>5. CASE ReprintReceipt(r) \/ EndWithoutWrite(r)
  BY <1>5, FinishNumbered DEF ReprintReceipt, EndWithoutWrite, counterVars
<1>6. CASE CreateDonation(r)
  <2>1. /\ txn'[r].op = "create" /\ stage[r] = "held"
        /\ txn'[r].draft.number = [year |-> key[r], value |-> taken[r]]
        /\ \A q \in Requests \ {r} : txn'[q] = txn[q]
    BY <1>1, <1>6
       DEF CreateDonation, LoadedOnce, Changing, Idle, Txn, NoRow
  <2>2. UNCHANGED <<tableVars, counterVars>>
    BY <1>6 DEF CreateDonation
  <2>3. DraftNumber(r)'
    BY <2>1, <2>2 DEF DraftNumber, Creating, Changing, counterVars
  <2>4. QED
    BY <2>1, <2>2, <2>3, NumberedLocally DEF counterVars
<1>7. CASE \/ UpdateDonation(r) \/ MarkPaid(r) \/ IssueReceipt(r)
           \/ CreateCheckoutSession(r) \/ MarkPaidFromGateway(r)
           \/ DeleteDonation(r)
  BY <1>7, FlushNumbered
     DEF UpdateDonation, MarkPaid, IssueReceipt, CreateCheckoutSession,
         MarkPaidFromGateway, DeleteDonation, Loaded
<1>8. QED
  BY <1>3, <1>4, <1>5, <1>6, <1>7 DEF Handle

\* The number a new donation brings is newer than all that were committed.
LEMMA FreshNumber ==
  ASSUME TypeOK, Counted, NumbersAreDistinct, NEW r \in Requests,
         stage[r] = "held", NEW c \in live \cup gone
  PROVE  row[c].number # [year |-> key[r], value |-> taken[r]]
<1>1. key[r] \in Years /\ granted[key[r]] \in Seq(Nat)
  BY DEF TypeOK, Numbers!TypeOK
<1>2. taken[r] = Starts[key[r]] + Len(granted[key[r]]) + 1
  BY DEF Counted, Numbers!LockGuardsNumber
<1>3. \A i \in 1..Len(granted[key[r]]) : granted[key[r]][i] = Starts[key[r]] + i
  BY <1>1 DEF Counted, Numbers!GapFree
<1>4. \A i \in 1..Len(granted[key[r]]) : granted[key[r]][i] # taken[r]
  BY <1>1, <1>2, <1>3 DEF Starts
<1>5. \E i \in 1..Len(granted[row[c].number.year]) :
          granted[row[c].number.year][i] = row[c].number.value
  BY DEF NumbersAreDistinct
<1>6. QED
  BY <1>4, <1>5

LEMMA CommitNumbered ==
  ASSUME TypeOK, Sound, Counted, Numbered, NEW r \in Requests, Commit(r)
  PROVE  Numbered'
<1>1. PICK t \in Txn, d \in Donations : t = txn[r] /\ d = txn[r].don
  BY DEF TypeOK, TxnsOK, Txn
<1>2. /\ t.phase = "flushed" /\ CreatorAlone(r) /\ WriterLocks(r)
      /\ NumbersAreDistinct /\ DraftNumber(r)
  BY <1>1 DEF Commit, Sound, OpenRequestsAreSound, Numbered, DraftNumbers
<1>3. /\ txn'[r].phase = "idle" /\ \A q \in Requests \ {r} : txn'[q] = txn[q]
  BY DEF Commit, Finish, NoTxn, TypeOK, TxnsOK
<1>4. /\ row \in [Donations -> Row] /\ live \cup gone \subseteq Donations
      /\ granted \in [Years -> Seq(Nat)]
      /\ stage \in [Requests -> Numbers!Stages] /\ key \in [Requests -> Years]
      /\ taken \in [Requests -> Nat]
  BY DEF TypeOK, TablesOK, Numbers!TypeOK
<1>5. CASE CommitCreate(r)
  <2>1. /\ Creating(r) /\ d \notin live \cup gone /\ stage[r] = "held"
        /\ t.draft.number = [year |-> key[r], value |-> taken[r]]
    BY <1>1, <1>2, <1>5
       DEF CommitCreate, Creating, Idle, CreatorAlone, DraftNumber
  <2>2. /\ row'[d] = t.draft /\ \A c \in Donations \ {d} : row'[c] = row[c]
        /\ live' \cup gone' = (live \cup gone) \cup {d}
    BY <1>1, <1>4, <1>5 DEF CommitCreate
  <2>3. /\ granted'[key[r]] = Append(granted[key[r]], taken[r])
        /\ \A y \in Years \ {key[r]} : granted'[y] = granted[y]
        /\ \A q \in Requests \ {r} : /\ stage'[q] = stage[q] /\ key'[q] = key[q]
                                     /\ taken'[q] = taken[q]
    BY <1>4, <1>5 DEF CommitCreate, Numbers!CommitNumber
  <2>4. /\ \A y \in Years : \A i \in 1..Len(granted[y]) :
               i \in 1..Len(granted'[y]) /\ granted'[y][i] = granted[y][i]
        /\ Len(granted[key[r]]) + 1 \in 1..Len(granted'[key[r]])
        /\ granted'[key[r]][Len(granted[key[r]]) + 1] = taken[r]
    <3>1. granted[key[r]] \in Seq(Nat) /\ taken[r] \in Nat
      BY <1>4
    <3>2. /\ Len(granted'[key[r]]) = Len(granted[key[r]]) + 1
          /\ \A i \in 1..Len(granted[key[r]]) :
                 granted'[key[r]][i] = granted[key[r]][i]
          /\ granted'[key[r]][Len(granted[key[r]]) + 1] = taken[r]
      BY <2>3, <3>1, NumberProofs!AppendNumber, CounterAssumptions
    <3>3. Len(granted[key[r]]) \in Nat
      BY <3>1
    <3>4. QED
      BY SMTT(30), <2>3, <3>2, <3>3
  <2>5. row'[d].number = [year |-> key[r], value |-> taken[r]]
    BY <2>1, <2>2
  <2>6. \A c \in live \cup gone : row'[c].number # row'[d].number
    BY <1>2, <1>4, <2>1, <2>2, <2>5, FreshNumber
  <2>7. \A c, e \in live' \cup gone' :
            c # e => row'[c].number # row'[e].number
    BY ZenonT(60), <1>2, <1>4, <2>1, <2>2, <2>6 DEF NumbersAreDistinct
  <2>8. \A c \in live' \cup gone' :
            \E i \in 1..Len(granted'[row'[c].number.year]) :
                granted'[row'[c].number.year][i] = row'[c].number.value
    <3> SUFFICES ASSUME NEW c \in live' \cup gone'
                 PROVE  \E i \in 1..Len(granted'[row'[c].number.year]) :
                            granted'[row'[c].number.year][i] = row'[c].number.value
      OBVIOUS
    <3>1. CASE c = d
      BY <2>4, <2>5, <3>1
    <3>2. CASE c # d
      <4>1. c \in live \cup gone /\ row'[c] = row[c] /\ row[c] \in Row
        BY <1>4, <2>2, <3>2
      <4>2. row[c].number.year \in Years
        BY <4>1 DEF Row
      <4>3. QED
        BY <1>2, <2>4, <4>1, <4>2 DEF NumbersAreDistinct
    <3>3. QED
      BY <3>1, <3>2
  <2>9. NumbersAreDistinct'
    BY <2>7, <2>8 DEF NumbersAreDistinct
  <2>10. ASSUME NEW q \in Requests, q # r PROVE DraftNumber(q)'
    <3>1. Changing(q) => txn[q].don # d /\ txn[q].don \in Donations
      BY <1>4, <2>1 DEF Sound, OpenRequestsAreSound, LoadedOnce
    <3>2. /\ txn'[q] = txn[q] /\ DraftNumber(q) /\ stage'[q] = stage[q]
          /\ key'[q] = key[q] /\ taken'[q] = taken[q]
      BY <1>3, <2>3, <2>10 DEF Numbered, DraftNumbers
    <3>3. Changing(q) => row'[txn[q].don] = row[txn[q].don]
      BY <2>2, <3>1
    <3>4. QED
      BY <3>2, <3>3 DEF DraftNumber, Creating, Changing, Idle
  <2>11. DraftNumber(r)'
    BY <1>3, NotFlushed
  <2>12. QED
    BY <2>9, <2>10, <2>11 DEF Numbered, DraftNumbers
<1>6. CASE CommitDelete(r) \/ CommitUpdate(r)
  <2>1. /\ \A c \in Donations : row'[c].number = row[c].number
        /\ live' \cup gone' = live \cup gone /\ UNCHANGED counterVars
    <3>1. CASE CommitDelete(r)
      <4>1. t.op # "create"
        BY <1>1, <3>1 DEF CommitDelete
      <4>2. d \in live
        BY <1>1, <1>2, <4>1 DEF WriterLocks, Changing, Idle
      <4>3. QED
        BY <1>1, <3>1, <4>2 DEF CommitDelete
    <3>2. CASE CommitUpdate(r)
      <4>1. t.draft.number = row[d].number
        BY <1>1, <1>2, <3>2 DEF CommitUpdate, DraftNumber, Changing, Idle
      <4>2. QED
        BY <1>1, <1>4, <3>2, <4>1 DEF CommitUpdate
    <3>3. QED
      BY <1>6, <3>1, <3>2
  <2>2. NumbersAreDistinct'
    BY <1>2, <1>4, <2>1 DEF NumbersAreDistinct, counterVars
  <2>3. ASSUME NEW q \in Requests, q # r PROVE DraftNumber(q)'
    <3>1. txn[q].don \in Donations
      BY DEF TypeOK, TxnsOK, Txn
    <3>2. QED
      BY <1>3, <2>1, <2>3, <3>1
         DEF Numbered, DraftNumbers, DraftNumber, Creating, Changing, Idle,
             counterVars
  <2>4. QED
    BY <1>3, <2>2, <2>3, NotFlushed DEF Numbered, DraftNumbers
<1>7. QED
  BY <1>5, <1>6 DEF Commit

LEMMA NumberedInit == Init => Numbered
BY DEF Init, Numbered, NumbersAreDistinct, DraftNumbers, DraftNumber, NoTxn

LEMMA NumberedStep ==
  TypeOK /\ Sound /\ Counted /\ Numbered /\ [Next]_vars => Numbered'
<1> SUFFICES ASSUME TypeOK, Sound, Counted, Numbered, [Next]_vars
             PROVE  Numbered'
  OBVIOUS
<1>1. CASE UNCHANGED <<tableVars, txn, counterVars>>
  BY <1>1 DEF tableVars, counterVars, Numbered, NumbersAreDistinct,
              DraftNumbers, DraftNumber, Creating, Changing, Idle
<1>2. ASSUME NEW r \in Requests, Rollback(r) PROVE Numbered'
  <2>1. /\ stage \in [Requests -> Numbers!Stages] /\ key \in [Requests -> Years]
        /\ taken \in [Requests -> Nat]
    BY DEF TypeOK, Numbers!TypeOK
  <2>2. QED
    BY <1>2, <2>1, FinishNumbered
       DEF Rollback, Numbers!RollbackNumber, counterVars
<1>3. ASSUME NEW s \in Sessions, CompletePayment(s) \/ IgnoreEvent(s)
      PROVE  Numbered'
  BY <1>1, <1>3 DEF CompletePayment, IgnoreEvent
<1>4. ASSUME NEW s \in Sessions, NEW r \in Requests, DeliverEvent(r, s)
      PROVE  Numbered'
  <2>1. /\ txn'[r].phase = "loaded" /\ UNCHANGED <<tableVars, counterVars>>
        /\ \A q \in Requests \ {r} : txn'[q] = txn[q]
    BY <1>4 DEF DeliverEvent, Load, LoadRow, NoTxn, TypeOK, TxnsOK
  <2>2. QED
    BY <2>1, NotFlushed, NumberedLocally DEF counterVars
<1>5. ASSUME NEW r \in Requests, Answer(r) PROVE Numbered'
  BY <1>1, <1>5 DEF Answer
<1>6. QED
  BY <1>1, <1>2, <1>3, <1>4, <1>5, BeginNumbered, HandleNumbered, CommitNumbered
     DEF Next, vars

\* Receipt numbers are never shared, whatever requests overlap, fail or delete
\* donations.
THEOREM ReceiptNumbersAreDistinct == Spec => []NumbersAreDistinct
<1> DEFINE Inv == TypeOK /\ Sound /\ Counted /\ Numbered
<1>1. Init => Inv
  BY TypeInit, SoundInit, CountedInit, NumberedInit
<1>2. Inv /\ [Next]_vars => Inv'
  BY TypeStep, SoundStep, CountedStep, NumberedStep
<1>3. Inv => NumbersAreDistinct
  BY DEF Numbered
<1>4. QED
  BY <1>1, <1>2, <1>3, PTL DEF Spec

-----------------------------------------------------------------------------
(***************************************************************************)
(* What a request checked, and the status it saw.  Nothing happens to a    *)
(* row between the flush and the commit of its writer: what the flush      *)
(* leaves was right for the row as it was loaded, and the commit finds the *)
(* row as the flush found it.                                              *)
(***************************************************************************)
PaidChecked(status, method, ref) == status = "paid" => ~UtrMissing(method, ref)

CheckedFor(r) ==
    LET t == txn[r] IN
    /\ Creating(r) /\ t.phase = "allocating" =>
           PaidChecked(t.arg.status, t.arg.method, t.arg.ref)
    /\ Creating(r) /\ t.phase = "flushed" =>
           PaidChecked(t.draft.status, t.draft.method, t.draft.ref)
    /\ Changing(r) /\ t.phase = "flushed" =>
           /\ \A i \in 1..Len(t.event) : t.event[i].from = t.seen.status
           /\ \/ row[t.don].status = "paid"
              \/ t.seen.method # row[t.don].method
              \/ t.seen.ref # row[t.don].ref
              \/ PaidChecked(t.draft.status, t.draft.method, t.draft.ref)

Checked == \A r \in Requests : CheckedFor(r)

\* A step of r that leaves the rows alone.
LEMMA CheckedLocally ==
  ASSUME TypeOK, Checked, NEW r \in Requests, UNCHANGED tableVars,
         \A q \in Requests \ {r} : txn'[q] = txn[q],
         CheckedFor(r)'
  PROVE  Checked'
BY DEF Checked, CheckedFor, Creating, Changing, Idle, tableVars

\* Nothing is claimed of a request that neither allocates nor has written.
LEMMA CheckedFinish ==
  ASSUME TypeOK, Checked, NEW r \in Requests, Finish(r), UNCHANGED tableVars
  PROVE  Checked'
<1>1. txn'[r].phase = "idle" /\ \A q \in Requests \ {r} : txn'[q] = txn[q]
  BY DEF Finish, NoTxn, TypeOK, TxnsOK
<1>2. QED
  BY <1>1, CheckedLocally DEF CheckedFor

LEMMA CheckedLoad ==
  ASSUME TypeOK, Checked, NEW r \in Requests, NEW o, NEW d, NEW p, LoadRow(r, o, d, p)
  PROVE  Checked'
<1>1. txn'[r].phase = "loaded" /\ \A q \in Requests \ {r} : txn'[q] = txn[q]
  BY DEF LoadRow, NoTxn, TypeOK, TxnsOK
<1>2. QED
  BY <1>1, CheckedLocally DEF CheckedFor, LoadRow

\* A request that sets paid has checked the method and the reference it loaded
\* or brought, and the row has no others than it loaded unless they changed.
LEMMA CheckedFlush ==
  ASSUME TypeOK, Checked, NEW r \in Requests, NEW new \in Row, NEW e,
         txn[r].phase = "loaded", txn[r].op # "create", Flush(r, new, e),
         \A i \in 1..Len(e) : e[i].from = txn[r].seen.status,
         \/ new.status = txn[r].seen.status
         \/ PaidChecked(new.status, new.method, new.ref)
  PROVE  Checked'
<1> DEFINE t == txn[r]
           now == row[t.don]
           y == After(r, new)
<1>1. /\ txn'[r].phase = "flushed" /\ txn'[r].draft = y /\ txn'[r].event = e
      /\ txn'[r].op = t.op /\ txn'[r].don = t.don /\ txn'[r].seen = t.seen
      /\ \A q \in Requests \ {r} : txn'[q] = txn[q]
  BY DEF Flush, TypeOK, TxnsOK, Txn
<1>2. \/ now.status = "paid"
      \/ t.seen.method # now.method
      \/ t.seen.ref # now.ref
      \/ PaidChecked(y.status, y.method, y.ref)
  BY DEF After, Column, PaidChecked
<1>3. UNCHANGED tableVars
  BY DEF Flush
<1> HIDE DEF y
<1>4. CheckedFor(r)'
  BY <1>1, <1>2, <1>3 DEF CheckedFor, Creating, Changing, Idle, tableVars, PaidChecked
<1>5. QED
  BY <1>1, <1>3, <1>4, CheckedLocally

LEMMA CheckedHandle ==
  ASSUME TypeOK, Sound, Checked, NEW r \in Requests, Handle(r)
  PROVE  Checked'
<1> DEFINE t == txn[r]
<1>1. /\ t \in Txn /\ t.seen \in Row /\ t.arg \in Payload /\ CheckedFor(r)
      /\ CreatorAlone(r) /\ LoadedOnce(r)
  BY DEF TypeOK, TxnsOK, Txn, Checked, Sound, OpenRequestsAreSound
<1>2. CASE AllocateReceiptNumber(r)
  BY <1>2 DEF AllocateReceiptNumber, Checked, CheckedFor, Creating, Changing,
              Idle, tableVars
<1>3. CASE AllocationConflict(r) \/ ReprintReceipt(r) \/ EndWithoutWrite(r)
  BY <1>3, CheckedFinish DEF AllocationConflict, ReprintReceipt, EndWithoutWrite
<1>4. CASE CreateDonation(r)
  <2> DEFINE y == [NoRow EXCEPT !.status = t.arg.status, !.method = t.arg.method,
                                !.ref = t.arg.ref,
                                !.number = [year |-> key[r], value |-> taken[r]]]
  <2>1. t.phase = "allocating" /\ Creating(r)
    BY <1>1, <1>4 DEF CreateDonation, LoadedOnce, Creating, Changing, Idle
  <2>2. y.status = t.arg.status /\ y.method = t.arg.method /\ y.ref = t.arg.ref
    BY DEF NoRow
  <2>3. /\ txn'[r].phase = "flushed" /\ txn'[r].draft = y /\ txn'[r].op = t.op
        /\ \A q \in Requests \ {r} : txn'[q] = txn[q]
        /\ UNCHANGED tableVars
    BY <1>4 DEF CreateDonation, TypeOK, TxnsOK, Txn
  <2> HIDE DEF y
  <2>4. CheckedFor(r)'
    BY <1>1, <2>1, <2>2, <2>3 DEF CheckedFor, Creating, Changing, Idle, PaidChecked
  <2>5. QED
    BY <2>3, <2>4, CheckedLocally
<1>5. CASE UpdateDonation(r)
  <2> DEFINE new == Patched(t)
             e == IF t.arg.status \in {Keep, t.seen.status} THEN <<>>
                  ELSE Transition(r, new, "status_update")
  <2>1. /\ new \in Row /\ new.status = Given(t.arg.status, t.seen.status)
        /\ new.method = Given(t.arg.method, t.seen.method)
        /\ new.ref = Given(t.arg.ref, t.seen.ref)
    BY <1>1, KeepIsNoValue DEF Patched, Given, Row, Payload
  <2>2. /\ Flush(r, new, e) /\ t.phase = "loaded" /\ t.op = "update"
        /\ ~UpdateRefused(t)
    BY <1>5 DEF UpdateDonation, Loaded
  <2>3. \A i \in 1..Len(e) : e[i].from = t.seen.status
    BY DEF Transition
  <2>4. new.status = t.seen.status \/ PaidChecked(new.status, new.method, new.ref)
    BY <2>1, <2>2 DEF Given, UpdateRefused, PaidChecked
  <2> HIDE DEF e, new
  <2>5. QED
    BY <2>1, <2>2, <2>3, <2>4, CheckedFlush
<1>6. CASE MarkPaid(r)
  <2> DEFINE new == [t.seen EXCEPT !.status = "paid", !.ref = PaidReference(t)]
             e == IF t.seen.status = "paid" THEN <<>>
                  ELSE Transition(r, new, "mark_paid")
  <2>1. /\ new \in Row /\ new.method = t.seen.method /\ new.ref = PaidReference(t)
    BY <1>1 DEF PaidReference, Row, Payload, Statuses
  <2>2. /\ Flush(r, new, e) /\ t.phase = "loaded" /\ t.op = "mark_paid"
        /\ ~MarkPaidRefused(t)
    BY <1>6 DEF MarkPaid, Loaded
  <2>3. \A i \in 1..Len(e) : e[i].from = t.seen.status
    BY DEF Transition
  <2>4. PaidChecked(new.status, new.method, new.ref)
    BY <2>1, <2>2 DEF MarkPaidRefused, PaidChecked
  <2> HIDE DEF e, new
  <2>5. QED
    BY <2>1, <2>2, <2>3, <2>4, CheckedFlush
<1>7. CASE IssueReceipt(r)
  <2> DEFINE new == [t.seen EXCEPT !.issued = TRUE, !.issuedAt = r,
                                   !.snapshot = SnapshotOf(t.seen)]
  <2>1. SnapshotOf(t.seen) \in Snapshot
    BY <1>1 DEF SnapshotOf, Snapshot, Row
  <2>2. new \in Row /\ new.status = t.seen.status
    BY <1>1, <2>1 DEF Row
  <2>3. Flush(r, new, <<>>) /\ t.phase = "loaded" /\ t.op = "issue"
    BY <1>7 DEF IssueReceipt, Loaded
  <2> HIDE DEF new
  <2>4. QED
    BY <2>2, <2>3, CheckedFlush
<1>8. CASE CreateCheckoutSession(r)
  <2> DEFINE new == [t.seen EXCEPT !.session = t.arg.ref]
  <2>1. t.arg.ref \in Sessions
    BY <1>8 DEF CreateCheckoutSession, Loaded, TypeOK, TxnsOK
  <2>2. new \in Row /\ new.status = t.seen.status
    BY <1>1, <2>1 DEF Row
  <2>3. Flush(r, new, <<>>) /\ t.phase = "loaded" /\ t.op = "checkout"
    BY <1>8 DEF CreateCheckoutSession, Loaded
  <2> HIDE DEF new
  <2>4. QED
    BY <2>2, <2>3, CheckedFlush
<1>9. CASE MarkPaidFromGateway(r)
  <2> DEFINE new == [t.seen EXCEPT !.status = "paid", !.ref = t.arg.ref]
             e == IF After(r, new).status = t.seen.status THEN <<>>
                  ELSE Transition(r, new, "stripe")
  <2>1. t.arg.ref \in Sessions
    BY <1>9 DEF MarkPaidFromGateway, Loaded, TypeOK, TxnsOK
  <2>2. new \in Row /\ new.ref \in Sessions
    BY <1>1, <2>1 DEF Row, Refs, Statuses
  <2>3. Flush(r, new, e) /\ t.phase = "loaded" /\ t.op = "webhook"
    BY <1>9 DEF MarkPaidFromGateway, Loaded
  <2>4. \A i \in 1..Len(e) : e[i].from = t.seen.status
    BY DEF Transition
  <2>5. PaidChecked(new.status, new.method, new.ref)
    BY <2>2, NoRefIsNoReference DEF UtrMissing, PaidChecked
  <2> HIDE DEF e, new
  <2>6. QED
    BY <2>2, <2>3, <2>4, <2>5, CheckedFlush
<1>10. CASE DeleteDonation(r)
  <2>1. Flush(r, t.seen, <<>>) /\ t.phase = "loaded" /\ t.op = "delete"
    BY <1>10 DEF DeleteDonation, Loaded
  <2>2. QED
    BY <1>1, <2>1, CheckedFlush
<1>11. QED
  BY <1>2, <1>3, <1>4, <1>5, <1>6, <1>7, <1>8, <1>9, <1>10 DEF Handle

\* The row of a request that has written changes by its own commit only.
LEMMA CheckedCommit ==
  ASSUME TypeOK, Sound, Checked, NEW r \in Requests, Commit(r)
  PROVE  Checked'
<1>1. PICK t \in Txn, d \in Donations : t = txn[r] /\ d = t.don
  BY DEF TypeOK, TxnsOK, Txn
<1>2. txn'[r].phase = "idle" /\ \A q \in Requests \ {r} : txn'[q] = txn[q]
  BY DEF Commit, Finish, NoTxn, TypeOK, TxnsOK
<1>3. \A c \in Donations \ {d} : row'[c] = row[c]
  BY <1>1 DEF Commit, CommitCreate, CommitDelete, CommitUpdate, TypeOK, TablesOK
<1>4. ASSUME NEW q \in Requests, q # r, Changing(q), txn[q].phase = "flushed"
      PROVE  txn[q].don \in Donations \ {d}
  <2>1. /\ txn[q].don \in Donations /\ txn[q].don \in live
        /\ lock[txn[q].don] = q
    BY <1>4 DEF TypeOK, TxnsOK, Txn, Sound, OpenRequestsAreSound, WriterLocks
  <2>2. t.phase = "flushed" /\ CreatorAlone(r) /\ WriterLocks(r)
    BY <1>1 DEF Commit, Sound, OpenRequestsAreSound
  <2>3. d \in live => lock[d] = r
    BY <1>1, <2>2 DEF CreatorAlone, WriterLocks, Creating, Changing, Idle
  <2>4. QED
    BY <1>4, <2>1, <2>3
<1>5. ASSUME NEW q \in Requests PROVE CheckedFor(q)'
  <2>1. CASE q = r
    BY <1>2, <2>1 DEF CheckedFor
  <2>2. CASE q # r
    <3>1. CheckedFor(q) /\ txn'[q] = txn[q]
      BY <1>2, <2>2 DEF Checked
    <3>2. Changing(q) /\ txn[q].phase = "flushed"
          => row'[txn[q].don] = row[txn[q].don]
      BY <1>3, <1>4, <2>2
    <3>3. QED
      BY <3>1, <3>2 DEF CheckedFor, Creating, Changing, Idle
  <2>3. QED
    BY <2>1, <2>2
<1>6. QED
  BY <1>5 DEF Checked

LEMMA CheckedStep == TypeOK /\ Sound /\ Checked /\ [Next]_vars => Checked'
<1> SUFFICES ASSUME TypeOK, Sound, Checked, [Next]_vars PROVE Checked'
  OBVIOUS
<1>1. CASE UNCHANGED <<tableVars, txn>>
  BY <1>1 DEF tableVars, Checked, CheckedFor, Creating, Changing, Idle
<1>2. ASSUME NEW r \in Requests, NEW d \in Donations, NEW p \in Drafts,
             StartCreate(r, d, p)
      PROVE  Checked'
  <2> DEFINE x == [NoTxn EXCEPT !.phase = "allocating", !.don = d, !.arg = p]
  <2>1. x.op = "create" /\ x.phase = "allocating" /\ x.arg = p
    BY DEF NoTxn
  <2>2. /\ txn'[r] = x /\ \A q \in Requests \ {r} : txn'[q] = txn[q]
        /\ UNCHANGED tableVars /\ PaidChecked(p.status, p.method, p.ref)
    BY <1>2 DEF StartCreate, TypeOK, TxnsOK, PaidChecked
  <2> HIDE DEF x
  <2>3. CheckedFor(r)'
    BY <2>1, <2>2 DEF CheckedFor, Creating, Changing, Idle
  <2>4. QED
    BY <2>2, <2>3, CheckedLocally
<1>3. ASSUME NEW r \in Requests, Begin(r) PROVE Checked'
  BY <1>2, <1>3, CheckedLoad DEF Begin, Load, StartCheckout
<1>4. ASSUME NEW r \in Requests, Answer(r) \/ Rollback(r) PROVE Checked'
  BY <1>1, <1>4, CheckedFinish DEF Answer, Rollback
<1>5. ASSUME NEW s \in Sessions, CompletePayment(s) \/ IgnoreEvent(s)
      PROVE  Checked'
  BY <1>1, <1>5 DEF CompletePayment, IgnoreEvent
<1>6. ASSUME NEW s \in Sessions, NEW r \in Requests, DeliverEvent(r, s)
      PROVE  Checked'
  BY <1>6, CheckedLoad DEF DeliverEvent, Load
<1>7. QED
  BY <1>1, <1>3, <1>4, <1>5, <1>6, CheckedHandle, CheckedCommit DEF Next, vars

LEMMA AlwaysChecked == Spec => [](TypeOK /\ Sound /\ Checked)
<1>1. Init => Checked
  BY DEF Init, Checked, CheckedFor, NoTxn, Creating, Changing, Idle
<1>2. QED
  BY <1>1, CheckedStep, AlwaysSound, PTL DEF Spec

LEMMA PaymentIsInformed ==
  TypeOK /\ Sound /\ Checked /\ [Next]_vars => [InformedPayment]_vars
<1> SUFFICES ASSUME TypeOK, Sound, Checked, Next,
                    NEW d \in Donations, PaysUnreferenced(d)
             PROVE  \E r \in Requests :
                        /\ Commits(r, d)
                        /\ <<txn[r].seen.method, txn[r].seen.ref>>
                               # <<row[d].method, row[d].ref>>
  BY DEF InformedPayment
<1>1. d \in live' /\ (d \notin live \/ row'[d] # row[d])
  BY DEF PaysUnreferenced
<1>2. PICK r \in Requests : Commit(r)
  BY <1>1, ChangedByCommit DEF tableVars
<1>3. CheckedFor(r) /\ txn[r].phase = "flushed"
  BY <1>2 DEF Checked, Commit
<1>4. d \notin live => row'[d] = txn[r].draft /\ Creating(r) /\ Commits(r, d)
  <2> SUFFICES ASSUME d \notin live
               PROVE  row'[d] = txn[r].draft /\ Creating(r) /\ Commits(r, d)
    OBVIOUS
  <2>1. CommitCreate(r) /\ txn[r].don = d
    BY <1>1, <1>2 DEF Commit, CommitCreate, CommitDelete, CommitUpdate
  <2>2. txn'[r].phase = "idle"
    BY <1>2 DEF Commit, Finish, NoTxn, TypeOK, TxnsOK
  <2>3. QED
    BY <1>3, <2>1, <2>2
       DEF CommitCreate, Creating, Idle, Commits, TypeOK, TablesOK
<1>5. d \in live => row'[d] = txn[r].draft /\ Changing(r) /\ Commits(r, d)
  BY <1>1, <1>2, CommitsOf
<1>6. ~PaidChecked(txn[r].draft.status, txn[r].draft.method, txn[r].draft.ref)
  BY <1>4, <1>5 DEF PaysUnreferenced, PaidChecked
<1>7. d \in live
  BY <1>3, <1>4, <1>6 DEF CheckedFor
<1>8. txn[r].don = d /\ row[d].status # "paid"
  BY <1>5, <1>7 DEF Commits, PaysUnreferenced
<1>9. txn[r].seen.method # row[d].method \/ txn[r].seen.ref # row[d].ref
  BY <1>3, <1>5, <1>6, <1>7, <1>8 DEF CheckedFor
<1>10. QED
  BY <1>5, <1>7, <1>9

\* A donation that becomes paid has the reference its method needs, unless the
\* method or the reference changed after the request that pays had read them.
THEOREM PaymentsHaveTheirUtr == Spec => UtrAtPayment
BY AlwaysChecked, PaymentIsInformed, PTL DEF Spec, UtrAtPayment

LEMMA EventIsInformed ==
  TypeOK /\ Sound /\ Checked /\ [Next]_vars => [InformedEvent]_vars
<1> SUFFICES ASSUME TypeOK, Sound, Checked, Next,
                    NEW d \in Donations, ChainBreaks(d)
             PROVE  \E r \in Requests :
                        Commits(r, d) /\ txn[r].seen.status # row[d].status
  BY DEF InformedEvent
<1> DEFINE z == trail[d]
<1>1. /\ d \in live /\ d \in live' /\ trail'[d] # trail[d]
      /\ z \in Seq(Event) /\ z # <<>> /\ z[Len(z)].to = row[d].status
  BY DEF ChainBreaks, TypeOK, TablesOK, Sound, AuditTail
<1>2. PICK r \in Requests : Commit(r)
  BY <1>1, ChangedByCommit DEF tableVars
<1> DEFINE e == txn[r].event
<1>3. Changing(r) /\ Commits(r, d) /\ trail'[d] = z \o e
  BY <1>1, <1>2, CommitsOf
<1>4. /\ e \in Seq(Event) /\ (e = <<>> \/ Len(e) = 1)
      /\ \A i \in 1..Len(e) : e[i].from = txn[r].seen.status
  BY <1>3 DEF TypeOK, TxnsOK, Txn, Sound, OpenRequestsAreSound, WriterLocks,
              Checked, CheckedFor, Commits
<1>5. trail'[d][Len(z) + 1].from # z[Len(z)].to
  BY DEF ChainBreaks
<1> HIDE DEF z, e
<1>6. e # <<>>
  BY <1>1, <1>3, <1>4 DEF z
<1>7. (z \o e)[Len(z) + 1] = e[1]
  BY <1>1, <1>4, <1>6
<1>8. e[1].from = txn[r].seen.status
  BY <1>4, <1>6
<1>9. QED
  BY <1>1, <1>3, <1>5, <1>7, <1>8

\* An event that does not start where the trail ended is that of a request
\* whose donation had changed its status since the request read it.
THEOREM TrailsAreChains == Spec => TrailIsAChain
BY AlwaysChecked, EventIsInformed, PTL DEF Spec, TrailIsAChain

-----------------------------------------------------------------------------
(***************************************************************************)
(* One checkout session for each donation.  A second session takes the     *)
(* place of the first in the row, and the event of the first finds no      *)
(* donation any more; without a second one the row names a session that is *)
(* backed until the donation is deleted.                                   *)
(***************************************************************************)
OneSessionEach ==
    \A s, t \in Sessions :
        metadata[s] = metadata[t] /\ metadata[s] # NoDonation => s = t

CheckoutOf(r) == Changing(r) /\ txn[r].op = "checkout"
AtGateway(r) == Changing(r) /\ ForGateway(txn[r])

\* A checkout is alone with its session, which is not yet in the row, and is
\* returned without being backed; an event is handled for the donation of its
\* session; what is written leaves the session of the row alone, except in a
\* checkout.
SessionFor(r) ==
    LET t == txn[r]
        s == t.arg.ref
    IN
    /\ CheckoutOf(r) =>
           /\ metadata[s] = t.don
           /\ s \in payable => s \in unbacked /\ r \in replied
           /\ t.seen.session # s /\ row[t.don].session # s
           /\ \A q \in Requests : AtGateway(q) /\ txn[q].arg.ref = s => q = r
    /\ Changing(r) /\ t.op = "webhook" =>
           /\ metadata[s] = t.don /\ s \in payable
           /\ t.don \in gone \/ row[t.don].session = s
    /\ Changing(r) /\ t.phase = "flushed" =>
           /\ t.draft.session = IF t.op = "checkout" THEN s
                                ELSE row[t.don].session
           /\ t.op = "webhook" => t.draft.status = "paid" \/ PaidInTrail(t.don)
    /\ Creating(r) /\ t.phase = "flushed" => t.draft.session = NoRef

SessionsAreFound ==
    /\ paid \subseteq payable
    /\ answered \subseteq payable
    /\ \A s \in payable : metadata[s] # NoDonation
    /\ \A s \in Sessions : metadata[s] # NoDonation => metadata[s] \in live \cup gone
    /\ \A d \in live : row[d].session # NoRef => metadata[row[d].session] = d
    /\ \A s \in payable \ unbacked :
           \/ metadata[s] \in gone
           \/ metadata[s] \in live /\ row[metadata[s]].session = s

Found == SessionsAreFound /\ AnsweredIsRecorded
         /\ \A r \in Requests : SessionFor(r)

\* A step that writes nothing and changes the transaction of one request,
\* which does not begin a checkout.
LEMMA FoundLocal ==
  ASSUME TypeOK, Found, NEW r \in Requests, NEW x,
         txn' = [txn EXCEPT ![r] = x],
         UNCHANGED <<tableVars, gatewayVars, unbacked>>,
         \A q \in Requests \ {r} : q \in replied' <=> q \in replied,
         AtGateway(r)' =>
             \/ AtGateway(r) /\ x.arg = txn[r].arg
             \/ \A q \in Requests : CheckoutOf(q) => txn[q].arg.ref # x.arg.ref,
         SessionFor(r)'
  PROVE  Found'
<1>1. SessionsAreFound' /\ AnsweredIsRecorded'
  BY DEF Found, SessionsAreFound, AnsweredIsRecorded, tableVars, gatewayVars,
         PaidInTrail
<1>2. ASSUME NEW q \in Requests, q # r PROVE SessionFor(q)'
  <2>1. txn'[q] = txn[q] /\ txn'[r] = x /\ SessionFor(q)
    BY <1>2 DEF TypeOK, TxnsOK, Found
  <2>2. ASSUME NEW p \in Requests, AtGateway(p)', CheckoutOf(q)',
               txn'[p].arg.ref = txn'[q].arg.ref
        PROVE  p = q
    <3>1. CheckoutOf(q)
      BY <2>1, <2>2 DEF CheckoutOf, Changing, Idle
    <3>2. txn'[p].arg = txn[p].arg /\ AtGateway(p)
      <4>1. CASE p = r
        BY <2>1, <2>2, <3>1, <4>1
      <4>2. CASE p # r
        BY <2>2, <4>2 DEF AtGateway, ForGateway, Changing, Idle, TypeOK, TxnsOK
      <4>3. QED
        BY <4>1, <4>2
    <3>3. QED
      BY <2>1, <2>2, <3>1, <3>2 DEF SessionFor
  <2>3. CheckoutOf(q)' = CheckoutOf(q) /\ Changing(q)' = Changing(q)
        /\ Creating(q)' = Creating(q)
    BY <2>1 DEF CheckoutOf, Changing, Creating, Idle
  <2>4. QED
    BY <1>2, <2>1, <2>2, <2>3
       DEF SessionFor, tableVars, gatewayVars, PaidInTrail
<1>3. QED
  BY <1>1, <1>2 DEF Found

LEMMA FoundFinish ==
  ASSUME TypeOK, Found, NEW r \in Requests, Finish(r),
         UNCHANGED <<tableVars, gatewayVars, unbacked>>,
         replied' = replied \/ replied' = replied \ {r}
  PROVE  Found'
<1>1. txn'[r].phase = "idle"
  BY DEF Finish, NoTxn, TypeOK, TxnsOK
<1>2. SessionFor(r)' /\ ~AtGateway(r)'
  BY <1>1 DEF SessionFor, CheckoutOf, AtGateway, Creating, Changing, Idle
<1>3. QED
  BY <1>2, FoundLocal DEF Finish

LEMMA FoundLoad ==
  ASSUME TypeOK, Found, NEW r \in Requests, NEW o \in Kinds \ {"create", "checkout"},
         NEW d \in live, NEW p, Load(r, o, d, p),
         o = "webhook" => p.ref \in paid /\ row[d].session = p.ref
  PROVE  Found'
<1> DEFINE x == [NoTxn EXCEPT !.op = o, !.phase = "loaded", !.don = d,
                              !.arg = p, !.seen = row[d]]
<1>1. x.op = o /\ x.phase = "loaded" /\ x.don = d /\ x.arg = p
  BY DEF NoTxn
<1>2. /\ txn' = [txn EXCEPT ![r] = x] /\ txn'[r] = x
      /\ UNCHANGED <<tableVars, gatewayVars, answerVars>>
  BY DEF Load, LoadRow, TypeOK, TxnsOK
<1> HIDE DEF x
<1>3. o = "webhook" => metadata[p.ref] = d /\ p.ref \in payable
  BY NoRefIsNoReference DEF Found, SessionsAreFound, TypeOK, GatewayOK
<1>4. SessionFor(r)'
  BY <1>1, <1>2, <1>3
     DEF SessionFor, CheckoutOf, Creating, Changing, Idle, tableVars, gatewayVars
<1>5. o = "webhook" => \A q \in Requests : CheckoutOf(q) => txn[q].arg.ref # p.ref
  BY <1>3 DEF Found, SessionFor
<1>6. AtGateway(r)' => o = "webhook"
  BY <1>1, <1>2 DEF AtGateway, ForGateway
<1>7. QED
  BY <1>1, <1>2, <1>4, <1>5, <1>6, FoundLocal DEF answerVars

\* A flush writes the session of the row as it is, or that of the checkout.
LEMMA FoundFlush ==
  ASSUME TypeOK, Found, NEW r \in Requests, NEW new \in Row, NEW e,
         txn[r].phase = "loaded", txn[r].op # "create", Flush(r, new, e),
         UNCHANGED gatewayVars,
         new.session = IF txn[r].op = "checkout" THEN txn[r].arg.ref
                       ELSE txn[r].seen.session,
         txn[r].op = "webhook" => \/ After(r, new).status = "paid"
                                  \/ PaidInTrail(txn[r].don)
  PROVE  Found'
<1> DEFINE t == txn[r]
           x == [t EXCEPT !.phase = "flushed", !.draft = After(r, new),
                          !.event = e]
<1>1. t \in Txn /\ txn \in [Requests -> Txn]
  BY DEF TypeOK, TxnsOK
<1>2. /\ x.phase = "flushed" /\ x.draft = After(r, new) /\ x.event = e
      /\ x.op = t.op /\ x.don = t.don /\ x.seen = t.seen /\ x.arg = t.arg
  BY <1>1 DEF Txn
<1>3. /\ txn' = [txn EXCEPT ![r] = x] /\ txn'[r] = x
      /\ UNCHANGED <<tableVars, answerVars>>
      /\ \A q \in Requests \ {r} : txn'[q] = txn[q]
  BY <1>1 DEF Flush
<1>4. Changing(r) /\ SessionFor(r)
  BY DEF Changing, Idle, Found
<1>5. After(r, new).session = IF t.op = "checkout" THEN t.arg.ref
                              ELSE row[t.don].session
  BY <1>4 DEF After, Column, SessionFor, CheckoutOf
<1> HIDE DEF x
<1>6. /\ Changing(r)' /\ ~Creating(r)' /\ CheckoutOf(r)' = CheckoutOf(r)
      /\ AtGateway(r)' = AtGateway(r)
  BY <1>2, <1>3, <1>4 DEF CheckoutOf, AtGateway, ForGateway, Changing, Creating, Idle
<1>7. ASSUME NEW q \in Requests, AtGateway(q)', q # r PROVE AtGateway(q)
  BY <1>3, <1>7 DEF AtGateway, ForGateway, Changing, Idle
<1>8. SessionFor(r)'
  BY <1>2, <1>3, <1>4, <1>5, <1>6, <1>7
     DEF SessionFor, tableVars, gatewayVars, answerVars, PaidInTrail
<1>9. QED
  BY <1>2, <1>3, <1>6, <1>8, FoundLocal DEF answerVars

\* The session of a checkout is new: no row, no request names it yet.
LEMMA FoundCheckout ==
  ASSUME TypeOK, Sound, Found, NEW r \in Requests, NEW d \in Donations,
         NEW s \in Sessions, StartCheckout(r, d, s)
  PROVE  Found'
<1> DEFINE p == [Nothing EXCEPT !.ref = s]
           x == [NoTxn EXCEPT !.op = "checkout", !.phase = "loaded", !.don = d,
                              !.arg = p, !.seen = row[d]]
<1>1. /\ x.op = "checkout" /\ x.phase = "loaded" /\ x.don = d /\ x.arg = p
      /\ p.ref = s /\ x.seen = row[d]
  BY DEF NoTxn, Nothing
<1>2. /\ txn' = [txn EXCEPT ![r] = x] /\ txn'[r] = x /\ Idle(r)
      /\ \A q \in Requests \ {r} : txn'[q] = txn[q]
      /\ UNCHANGED <<tableVars, payable, paid, answered, answerVars>> /\ d \in live
  BY DEF StartCheckout, LoadRow, TypeOK, TxnsOK
<1>3. /\ metadata[s] = NoDonation /\ metadata'[s] = d
      /\ \A t \in Sessions \ {s} : metadata'[t] = metadata[t]
  BY DEF StartCheckout, TypeOK, GatewayOK
<1> HIDE DEF x, p
<1>4. SessionsAreFound /\ AnsweredIsRecorded /\ \A q \in Requests : SessionFor(q)
  BY DEF Found
<1>5. /\ live \subseteq Donations /\ gone \subseteq Donations
      /\ payable \subseteq Sessions /\ answered \subseteq Sessions
      /\ \A c \in Donations : row[c].session \in Sessions \cup {NoRef}
  BY DEF TypeOK, TablesOK, GatewayOK, Row
<1>6. /\ \A c \in live \cup gone : c # metadata[s]
      /\ s \notin payable
      /\ \A c \in live : row[c].session # s
  <2>1. /\ \A c \in live \cup gone : c # metadata[s]
        /\ \A c \in live : row[c].session # s
    BY <1>3, <1>4, <1>5, NoDonationIsNone, NoRefIsNoReference DEF SessionsAreFound
  <2>2. QED
    BY <1>4, <2>1 DEF SessionsAreFound
<1>7. SessionsAreFound'
  BY <1>2, <1>3, <1>4, <1>5, <1>6 DEF SessionsAreFound, tableVars, answerVars
<1>8. AnsweredIsRecorded'
  BY <1>2, <1>3, <1>4, <1>5, <1>6
     DEF SessionsAreFound, AnsweredIsRecorded, tableVars, answerVars, PaidInTrail
<1>9. ASSUME NEW q \in Requests, q # r, Changing(q), txn[q].op \in {"checkout", "webhook"}
      PROVE  txn[q].arg.ref \in Sessions \ {s}
  <2>1. txn[q].arg.ref \in Sessions /\ txn[q].don \in Donations
    BY <1>9 DEF TypeOK, TxnsOK, Txn
  <2>2. metadata[txn[q].arg.ref] = txn[q].don
    BY <1>4, <1>9 DEF SessionFor, CheckoutOf
  <2>3. QED
    BY <1>3, <2>1, <2>2, NoDonationIsNone
<1>10. ASSUME NEW q \in Requests, q # r
       PROVE  SessionFor(q)' /\ (AtGateway(q)' => txn'[q].arg.ref # s)
  <2>1. txn'[q] = txn[q] /\ SessionFor(q)
    BY <1>2, <1>4, <1>10
  <2>2. CheckoutOf(q)' = CheckoutOf(q) /\ Changing(q)' = Changing(q)
        /\ Creating(q)' = Creating(q) /\ AtGateway(q)' = AtGateway(q)
    BY <2>1 DEF CheckoutOf, AtGateway, ForGateway, Changing, Creating, Idle
  <2>3. ASSUME NEW z \in Requests, AtGateway(z)', CheckoutOf(q)',
               txn'[z].arg.ref = txn'[q].arg.ref
        PROVE  z = q
    <3>1. txn'[q].arg.ref # s
      BY <1>9, <1>10, <2>1, <2>2, <2>3 DEF CheckoutOf
    <3>2. z # r
      BY <1>1, <1>2, <2>3, <3>1
    <3>3. txn'[z] = txn[z] /\ AtGateway(z)
      BY <1>2, <2>3, <3>2 DEF AtGateway, ForGateway, Changing, Idle
    <3>4. QED
      BY <2>1, <2>2, <2>3, <3>3 DEF SessionFor
  <2>4. Changing(q) /\ txn[q].op \in {"checkout", "webhook"}
        => metadata'[txn[q].arg.ref] = metadata[txn[q].arg.ref]
    BY <1>3, <1>9, <1>10
  <2>5. SessionFor(q)'
    BY <1>2, <2>1, <2>2, <2>3, <2>4
       DEF SessionFor, tableVars, answerVars, PaidInTrail, CheckoutOf
  <2>6. AtGateway(q) => txn[q].arg.ref # s
    BY <1>9, <1>10 DEF AtGateway, ForGateway
  <2>7. QED
    BY <2>1, <2>2, <2>5, <2>6
<1>11. SessionFor(r)'
  BY <1>1, <1>2, <1>3, <1>6, <1>10
     DEF SessionFor, CheckoutOf, Changing, Creating, Idle, tableVars
<1>12. QED
  BY <1>7, <1>8, <1>10, <1>11 DEF Found

LEMMA FoundBegin ==
  ASSUME TypeOK, Sound, Found, NEW r \in Requests, Begin(r)
  PROVE  Found'
<1>1. ASSUME NEW d \in Donations, NEW p \in Drafts, StartCreate(r, d, p)
      PROVE  Found'
  <2> DEFINE x == [NoTxn EXCEPT !.phase = "allocating", !.don = d, !.arg = p]
  <2>1. x.op = "create" /\ x.phase = "allocating"
    BY DEF NoTxn
  <2>2. /\ txn' = [txn EXCEPT ![r] = x] /\ txn'[r] = x
        /\ UNCHANGED <<tableVars, gatewayVars, answerVars>>
    BY <1>1 DEF StartCreate, TypeOK, TxnsOK
  <2> HIDE DEF x
  <2>3. SessionFor(r)' /\ ~AtGateway(r)'
    BY <2>1, <2>2 DEF SessionFor, CheckoutOf, AtGateway, ForGateway, Creating,
                      Changing, Idle
  <2>4. QED
    BY <2>2, <2>3, FoundLocal DEF answerVars
<1>2. ASSUME NEW d \in Donations, NEW p,
             NEW o \in Kinds \ {"create", "checkout", "webhook"}, Load(r, o, d, p)
      PROVE  Found'
  <2>1. d \in live
    BY <1>2 DEF Load, LoadRow
  <2>2. QED
    BY <1>2, <2>1, FoundLoad
<1>3. ASSUME NEW d \in Donations, NEW s \in Sessions, StartCheckout(r, d, s)
      PROVE  Found'
  BY <1>3, FoundCheckout
<1>4. QED
  BY <1>1, <1>2, <1>3 DEF Begin, Kinds

LEMMA FoundHandle ==
  ASSUME TypeOK, Sound, Found, NEW r \in Requests, Handle(r)
  PROVE  Found'
<1> DEFINE t == txn[r]
<1>1. t \in Txn /\ t.seen \in Row /\ t.arg \in Payload /\ txn \in [Requests -> Txn]
  BY DEF TypeOK, TxnsOK, Txn
<1>2. CASE AllocateReceiptNumber(r)
  BY <1>2 DEF AllocateReceiptNumber, tableVars, gatewayVars, answerVars, Found,
              SessionsAreFound, AnsweredIsRecorded, SessionFor, CheckoutOf,
              AtGateway, Creating, Changing, Idle, PaidInTrail
<1>3. CASE AllocationConflict(r) \/ ReprintReceipt(r) \/ EndWithoutWrite(r)
  BY <1>3, FoundFinish
     DEF AllocationConflict, ReprintReceipt, EndWithoutWrite, answerVars
<1>4. CASE CreateDonation(r)
  <2> DEFINE y == [NoRow EXCEPT !.status = t.arg.status, !.method = t.arg.method,
                                !.ref = t.arg.ref,
                                !.number = [year |-> key[r], value |-> taken[r]]]
             e == <<[from |-> "none", to |-> t.arg.status, note |-> "created"]>>
             x == [t EXCEPT !.phase = "flushed", !.draft = y, !.event = e]
  <2>1. t.phase = "allocating" /\ LoadedOnce(r)
    BY <1>4 DEF CreateDonation, Sound, OpenRequestsAreSound
  <2>2. t.op = "create" /\ y.session = NoRef
    BY <2>1 DEF LoadedOnce, Changing, Idle, NoRow
  <2>3. x.phase = "flushed" /\ x.draft = y /\ x.op = t.op
    BY <1>1 DEF Txn
  <2>4. /\ txn' = [txn EXCEPT ![r] = x] /\ txn'[r] = x
        /\ UNCHANGED <<tableVars, gatewayVars, answerVars>>
    BY <1>1, <1>4 DEF CreateDonation
  <2> HIDE DEF x, y
  <2>5. SessionFor(r)' /\ ~AtGateway(r)'
    BY <2>2, <2>3, <2>4
       DEF SessionFor, CheckoutOf, AtGateway, ForGateway, Creating, Changing, Idle
  <2>6. QED
    BY <2>4, <2>5, FoundLocal DEF answerVars
<1>5. CASE UpdateDonation(r)
  <2> DEFINE new == Patched(t)
             e == IF t.arg.status \in {Keep, t.seen.status} THEN <<>>
                  ELSE Transition(r, new, "status_update")
  <2>1. new \in Row /\ new.session = t.seen.session
    BY <1>1, KeepIsNoValue DEF Patched, Given, Row, Payload
  <2>2. /\ Flush(r, new, e) /\ t.phase = "loaded" /\ t.op = "update"
        /\ UNCHANGED gatewayVars
    BY <1>5 DEF UpdateDonation, Loaded
  <2> HIDE DEF e, new
  <2>3. QED
    BY <2>1, <2>2, FoundFlush
<1>6. CASE MarkPaid(r)
  <2> DEFINE new == [t.seen EXCEPT !.status = "paid", !.ref = PaidReference(t)]
             e == IF t.seen.status = "paid" THEN <<>>
                  ELSE Transition(r, new, "mark_paid")
  <2>1. new \in Row /\ new.session = t.seen.session
    BY <1>1 DEF PaidReference, Row, Payload, Statuses
  <2>2. /\ Flush(r, new, e) /\ t.phase = "loaded" /\ t.op = "mark_paid"
        /\ UNCHANGED gatewayVars
    BY <1>6 DEF MarkPaid, Loaded
  <2> HIDE DEF e, new
  <2>3. QED
    BY <2>1, <2>2, FoundFlush
<1>7. CASE IssueReceipt(r)
  <2> DEFINE new == [t.seen EXCEPT !.issued = TRUE, !.issuedAt = r,
                                   !.snapshot = SnapshotOf(t.seen)]
  <2>1. SnapshotOf(t.seen) \in Snapshot
    BY <1>1 DEF SnapshotOf, Snapshot, Row
  <2>2. new \in Row /\ new.session = t.seen.session
    BY <1>1, <2>1 DEF Row
  <2>3. /\ Flush(r, new, <<>>) /\ t.phase = "loaded" /\ t.op = "issue"
        /\ UNCHANGED gatewayVars
    BY <1>7 DEF IssueReceipt, Loaded
  <2> HIDE DEF new
  <2>4. QED
    BY <2>2, <2>3, FoundFlush
<1>8. CASE CreateCheckoutSession(r)
  <2> DEFINE new == [t.seen EXCEPT !.session = t.arg.ref]
  <2>1. t.arg.ref \in Sessions
    BY <1>8 DEF CreateCheckoutSession, Loaded, TypeOK, TxnsOK
  <2>2. new \in Row /\ new.session = t.arg.ref
    BY <1>1, <2>1 DEF Row
  <2>3. /\ Flush(r, new, <<>>) /\ t.phase = "loaded" /\ t.op = "checkout"
        /\ UNCHANGED gatewayVars
    BY <1>8 DEF CreateCheckoutSession, Loaded
  <2> HIDE DEF new
  <2>4. QED
    BY <2>2, <2>3, FoundFlush
<1>9. CASE MarkPaidFromGateway(r)
  <2> DEFINE new == [t.seen EXCEPT !.status = "paid", !.ref = t.arg.ref]
             e == IF After(r, new).status = t.seen.status THEN <<>>
                  ELSE Transition(r, new, "stripe")
  <2>1. t.arg.ref \in Sessions
    BY <1>9 DEF MarkPaidFromGateway, Loaded, TypeOK, TxnsOK
  <2>2. new \in Row /\ new.session = t.seen.session /\ new.status = "paid"
    BY <1>1, <2>1 DEF Row, Refs, Statuses
  <2>3. /\ Flush(r, new, e) /\ t.phase = "loaded" /\ t.op = "webhook"
        /\ UNCHANGED gatewayVars
    BY <1>9 DEF MarkPaidFromGateway, Loaded
  <2>4. t.seen.status = "paid" => PaidInTrail(t.don)
    <3>1. LoadedOnce(r) /\ t.don \in live
      BY <2>3 DEF Sound, OpenRequestsAreSound, Flush
    <3>2. QED
      BY <2>3, <3>1 DEF LoadedOnce, Changing, Idle
  <2>5. t.seen.status # "paid" => After(r, new).status = "paid"
    BY <2>2 DEF After, Column
  <2> HIDE DEF e, new
  <2>6. QED
    BY <2>2, <2>3, <2>4, <2>5, FoundFlush
<1>10. CASE DeleteDonation(r)
  <2>1. /\ Flush(r, t.seen, <<>>) /\ t.phase = "loaded" /\ t.op = "delete"
        /\ UNCHANGED gatewayVars
    BY <1>10 DEF DeleteDonation, Loaded
  <2>2. QED
    BY <1>1, <2>1, FoundFlush
<1>11. QED
  BY <1>2, <1>3, <1>4, <1>5, <1>6, <1>7, <1>8, <1>9, <1>10 DEF Handle

\* An answer given before the commit promises nothing yet.
LEMMA FoundAnswer ==
  ASSUME TypeOK, Sound, Found, NEW r \in Requests, Answer(r)
  PROVE  Found'
<1> DEFINE t == txn[r]
           s == t.arg.ref
<1>1. /\ t.phase = "flushed" /\ r \notin replied /\ replied' = replied \cup {r}
      /\ UNCHANGED <<tableVars, txn, metadata, paid>>
      /\ ForGateway(t) => s \in Sessions
  BY DEF Answer, TypeOK, TxnsOK, ForGateway
<1>2. ForGateway(t) => AtGateway(r)
  BY <1>1 DEF AtGateway, ForGateway, Changing, Idle
<1>3. SessionFor(r) /\ SessionsAreFound /\ AnsweredIsRecorded
  BY DEF Found
<1>4. t.op = "checkout" => /\ s \notin payable /\ s \notin answered
                          /\ metadata[s] = t.don /\ t.don \in Donations
  BY <1>1, <1>2, <1>3
     DEF SessionFor, SessionsAreFound, CheckoutOf, AtGateway, ForGateway, TypeOK,
         TxnsOK, Txn
<1>5. t.op = "webhook" => s \in payable
  BY <1>1, <1>2, <1>3 DEF SessionFor, AtGateway, ForGateway
<1>6. /\ payable \subseteq payable' /\ answered \subseteq answered'
      /\ unbacked \subseteq unbacked'
      /\ payable' \ payable \subseteq unbacked'
      /\ answered' \ answered \subseteq unbacked'
      /\ answered' \ answered \subseteq payable
  BY <1>4, <1>5 DEF Answer, ForGateway
<1>7. \A z \in payable' \ payable : t.op = "checkout" /\ z = s
  BY DEF Answer
<1>8. SessionsAreFound'
  <2>1. \A z \in payable' : metadata'[z] # NoDonation
    BY <1>1, <1>3, <1>4, <1>7, NoDonationIsNone DEF SessionsAreFound
  <2>2. answered' \subseteq payable' /\ paid' \subseteq payable'
    BY <1>1, <1>3, <1>6 DEF SessionsAreFound
  <2>3. \A z \in payable' \ unbacked' : z \in payable \ unbacked
    BY <1>6
  <2>4. QED
    BY <1>1, <1>3, <2>1, <2>2, <2>3 DEF SessionsAreFound, tableVars
<1>9. AnsweredIsRecorded'
  <2>1. \A z \in answered' \ unbacked' : z \in answered \ unbacked
    BY <1>6
  <2>2. QED
    BY <1>1, <1>3, <2>1 DEF AnsweredIsRecorded, tableVars, PaidInTrail
<1>10. ASSUME NEW q \in Requests PROVE SessionFor(q)'
  <2>1. SessionFor(q)
    BY DEF Found
  <2>2. CheckoutOf(q) /\ txn[q].arg.ref \in payable'
        => txn[q].arg.ref \in unbacked' /\ q \in replied'
    <3>1. CASE txn[q].arg.ref \in payable
      BY <1>1, <1>6, <2>1, <3>1 DEF SessionFor
    <3>2. CASE txn[q].arg.ref \notin payable
      <4> SUFFICES ASSUME CheckoutOf(q), txn[q].arg.ref \in payable'
                   PROVE  txn[q].arg.ref \in unbacked' /\ q \in replied'
        OBVIOUS
      <4>1. t.op = "checkout" /\ txn[q].arg.ref = s
        BY <1>7, <3>2
      <4>2. q = r
        BY <1>2, <2>1, <4>1 DEF SessionFor, ForGateway
      <4>3. QED
        BY <1>1, <1>6, <3>2, <4>2
    <3>3. QED
      BY <3>1, <3>2
  <2>3. QED
    BY <1>1, <1>6, <2>1, <2>2
       DEF SessionFor, CheckoutOf, AtGateway, Changing, Creating, Idle,
           tableVars, PaidInTrail
<1>11. QED
  BY <1>8, <1>9, <1>10 DEF Found

\* A commit of r: the checkout puts its session into the row, the event of a
\* session leaves its payment in the trail.
LEMMA FoundCommit ==
  ASSUME TypeOK, Sound, Sound', Found, OneSessionEach, NEW r \in Requests, Commit(r)
  PROVE  Found'
<1>0. PICK t \in Txn, d \in Donations : t = txn[r] /\ d = txn[r].don
  BY DEF TypeOK, TxnsOK, Txn
<1>1. /\ d = t.don /\ txn \in [Requests -> Txn]
      /\ t.phase = "flushed" /\ t.event \in Seq(Event)
      /\ row \in [Donations -> Row] /\ trail \in [Donations -> Seq(Event)]
      /\ live \subseteq Donations /\ gone \subseteq Donations
      /\ payable \subseteq Sessions /\ answered \subseteq Sessions
      /\ t.op \in {"checkout", "webhook"} => t.arg.ref \in Sessions
      /\ UNCHANGED <<metadata, payable, paid, answered>>
      /\ unbacked' = unbacked \ Backed(t)
      /\ \A q \in Requests \ {r} : q \in replied' <=> q \in replied
  BY <1>0 DEF TypeOK, TablesOK, TxnsOK, GatewayOK, Txn, Commit, gatewayVars
<1>2. /\ CreatorAlone(r) /\ WriterLocks(r) /\ SessionFor(r)
      /\ AuditTail /\ AuditTail'
  BY DEF Sound, OpenRequestsAreSound, Found
<1>3. /\ paid \subseteq payable /\ answered \subseteq payable
      /\ \A s \in payable : metadata[s] # NoDonation
      /\ \A s \in Sessions : metadata[s] # NoDonation => metadata[s] \in live \cup gone
      /\ \A c \in live : row[c].session # NoRef => metadata[row[c].session] = c
      /\ \A s \in payable \ unbacked :
             \/ metadata[s] \in gone
             \/ metadata[s] \in live /\ row[metadata[s]].session = s
      /\ AnsweredIsRecorded
  BY DEF Found, SessionsAreFound
<1>4. txn'[r].phase = "idle" /\ \A q \in Requests \ {r} : txn'[q] = txn[q]
  BY DEF Commit, Finish, NoTxn, TypeOK, TxnsOK
<1>5. SessionFor(r)' /\ ~AtGateway(r)'
  BY <1>4 DEF SessionFor, CheckoutOf, AtGateway, Creating, Changing, Idle
\* What a commit must keep for a request q that goes on.
<1>6. ASSUME \A c \in Donations \ {d} :
                row'[c] = row[c] /\ trail'[c] = trail[c]
                /\ (c \in gone' <=> c \in gone),
             d \in gone => d \in gone',
             \A q \in Requests \ {r} : Changing(q) /\ txn[q].phase = "flushed"
                                       => txn[q].don # d,
             \A q \in Requests \ {r} : CheckoutOf(q) /\ txn[q].don = d
                                       => row'[d].session # txn[q].arg.ref,
             \A q \in Requests \ {r} :
                 Changing(q) /\ txn[q].op = "webhook" /\ txn[q].don = d
                 => d \in gone' \/ row'[d].session = txn[q].arg.ref
      PROVE  \A q \in Requests : SessionFor(q)'
  <2> SUFFICES ASSUME NEW q \in Requests, q # r PROVE SessionFor(q)'
    BY <1>5
  <2>1. /\ txn'[q] = txn[q] /\ SessionFor(q) /\ txn[q].don \in Donations
    BY <1>1, <1>4 DEF Found, Txn
  <2>2. /\ CheckoutOf(q)' = CheckoutOf(q) /\ Changing(q)' = Changing(q)
        /\ Creating(q)' = Creating(q) /\ AtGateway(q)' = AtGateway(q)
    BY <2>1 DEF CheckoutOf, AtGateway, ForGateway, Changing, Creating, Idle
  <2>3. ASSUME NEW z \in Requests, AtGateway(z)', CheckoutOf(q),
               txn'[z].arg.ref = txn[q].arg.ref
        PROVE  z = q
    <3>1. z # r /\ txn'[z] = txn[z]
      BY <1>4, <1>5, <2>3
    <3>2. AtGateway(z)
      BY <2>3, <3>1 DEF AtGateway, ForGateway, Changing, Idle
    <3>3. QED
      BY <2>1, <2>3, <3>1, <3>2 DEF SessionFor
  <2>4. CheckoutOf(q) => /\ txn[q].arg.ref \notin Backed(t)
                         /\ row'[txn[q].don].session # txn[q].arg.ref
    <3>1. CheckoutOf(q) => txn[q].arg.ref \notin Backed(t)
      <4>1. ~Idle(r) /\ t.op \in {"checkout", "webhook"} => AtGateway(r)
        BY <1>0 DEF AtGateway, ForGateway, Changing
      <4>2. ~Idle(r)
        BY <1>0, <1>1 DEF Idle
      <4>3. QED
        BY <1>0, <2>1, <4>1, <4>2 DEF SessionFor, Backed
    <3>2. CASE txn[q].don = d
      BY <1>6, <3>1, <3>2
    <3>3. CASE txn[q].don # d
      BY <1>6, <2>1, <3>1, <3>3 DEF SessionFor
    <3>4. QED
      BY <3>2, <3>3
  <2>5. Changing(q) /\ txn[q].phase = "flushed" =>
            /\ row'[txn[q].don] = row[txn[q].don]
            /\ trail'[txn[q].don] = trail[txn[q].don]
    BY <1>6, <2>1
  <2>6. Changing(q) /\ txn[q].op = "webhook" =>
            txn[q].don \in gone' \/ row'[txn[q].don].session = txn[q].arg.ref
    <3>1. CASE txn[q].don = d
      BY <1>6, <3>1
    <3>2. CASE txn[q].don # d
      BY <1>6, <2>1, <3>2 DEF SessionFor
    <3>3. QED
      BY <3>1, <3>2
  <2>7. QED
    BY <1>1, <2>1, <2>2, <2>3, <2>4, <2>5, <2>6
       DEF SessionFor, PaidInTrail
<1>7. CASE CommitCreate(r)
  <2>1. Creating(r) /\ d \notin live \cup gone
    BY <1>0, <1>1, <1>2, <1>7
       DEF CommitCreate, CreatorAlone, Creating, Idle
  <2>2. /\ row'[d] = t.draft /\ live' = live \cup {d} /\ gone' = gone
        /\ \A c \in Donations \ {d} : row'[c] = row[c] /\ trail'[c] = trail[c]
        /\ unbacked' = unbacked
    BY <1>0, <1>1, <1>7 DEF CommitCreate, Backed
  <2>3. t.draft.session = NoRef
    BY <1>0, <1>1, <1>2, <2>1 DEF SessionFor
  <2>4. \A q \in Requests : Changing(q) => txn[q].don # d
    BY <2>1 DEF Sound, OpenRequestsAreSound, LoadedOnce
  <2>5. \A q \in Requests : SessionFor(q)'
    BY <1>6, <2>2, <2>4 DEF CheckoutOf
  <2>6. SessionsAreFound'
    BY <1>1, <1>3, <2>1, <2>2, <2>3 DEF SessionsAreFound
  <2>7. AnsweredIsRecorded'
    <3>1. ASSUME NEW c \in live PROVE trail'[c] = trail[c]
      BY <1>1, <2>1, <2>2
    <3>2. QED
      BY <1>1, <1>3, <2>2, <3>1 DEF AnsweredIsRecorded, PaidInTrail
  <2>8. QED
    BY <2>5, <2>6, <2>7 DEF Found
<1>8. CASE t.op # "create" /\ (CommitDelete(r) \/ CommitUpdate(r))
  <2>1. Changing(r) /\ d \in live /\ lock[d] = r
    BY <1>0, <1>1, <1>2, <1>8 DEF WriterLocks, Changing, Idle
  <2>2. \A q \in Requests \ {r} : Changing(q) /\ txn[q].phase = "flushed"
                                  => txn[q].don # d
    BY <2>1 DEF Sound, OpenRequestsAreSound, WriterLocks
  <2>3. CASE CommitDelete(r)
    <3>1. /\ live' = live \ {d} /\ gone' = gone \cup {d} /\ row' = row
          /\ \A c \in Donations \ {d} : trail'[c] = trail[c]
          /\ unbacked' = unbacked
      BY <1>0, <1>1, <2>3 DEF CommitDelete, Backed
    <3>2. \A q \in Requests \ {r} : CheckoutOf(q) =>
              row[txn[q].don].session # txn[q].arg.ref
      BY DEF Found, SessionFor
    <3>3. \A q \in Requests : SessionFor(q)'
      BY <1>6, <2>2, <3>1, <3>2
    <3>4. SessionsAreFound'
      BY <1>1, <1>3, <3>1 DEF SessionsAreFound
    <3>5. AnsweredIsRecorded'
      <4>1. ASSUME NEW c \in live, c # d PROVE c \in live' /\ trail'[c] = trail[c]
        BY <1>1, <3>1, <4>1
      <4>2. QED
        BY <1>1, <1>3, <3>1, <4>1 DEF AnsweredIsRecorded, PaidInTrail
    <3>6. QED
      BY <3>3, <3>4, <3>5 DEF Found
  <2>4. CASE CommitUpdate(r)
    <3>1. /\ live' = live /\ gone' = gone
          /\ row'[d] = t.draft /\ trail'[d] = trail[d] \o t.event
          /\ \A c \in Donations \ {d} : row'[c] = row[c] /\ trail'[c] = trail[c]
      BY <1>0, <1>1, <2>4 DEF CommitUpdate
    <3>2. /\ row'[d].session = IF t.op = "checkout" THEN t.arg.ref
                               ELSE row[d].session
          /\ t.op = "checkout" => metadata[t.arg.ref] = d
          /\ t.op = "webhook" => metadata[t.arg.ref] = d
          /\ t.op = "webhook" => d \in gone \/ row[d].session = t.arg.ref
          /\ t.op = "webhook" => row'[d].status = "paid" \/ PaidInTrail(d)
      BY <1>0, <1>1, <1>2, <2>1, <3>1 DEF SessionFor, CheckoutOf
    <3>3. d \notin gone
      BY <2>1 DEF Sound, OpenRequestsAreSound
    <3>4. PaidInTrail(d) => PaidInTrail(d)'
      <4> DEFINE z == trail[d]
                 e == t.event
      <4>1. z \in Seq(Event) /\ e \in Seq(Event) /\ z # <<>>
        BY <1>1, <1>2, <2>1 DEF AuditTail
      <4> HIDE DEF z, e
      <4>2. \A i \in 1..Len(z) : i \in 1..Len(z \o e) /\ (z \o e)[i] = z[i]
        BY <4>1, TrailGrows
      <4>3. trail'[d] = z \o e /\ trail[d] = z
        BY <3>1 DEF z, e
      <4>4. QED
        BY <4>2, <4>3 DEF PaidInTrail
    <3>5. row'[d].status = "paid" => PaidInTrail(d)'
      <4>1. trail'[d] # <<>> /\ trail'[d][Len(trail'[d])].to = row'[d].status
        BY <1>2, <2>1, <3>1 DEF AuditTail
      <4>2. trail'[d] \in Seq(Event)
        BY <1>1, <3>1
      <4>3. Len(trail'[d]) \in 1..Len(trail'[d])
        BY <4>1, <4>2
      <4>4. QED
        BY <4>1, <4>3 DEF PaidInTrail
    <3>6. ASSUME NEW q \in Requests \ {r}, CheckoutOf(q), txn[q].don = d
          PROVE  row'[d].session # txn[q].arg.ref
      <4>1. SessionFor(q)
        BY DEF Found
      <4>2. /\ row[d].session # txn[q].arg.ref
            /\ AtGateway(r) => txn[r].arg.ref # txn[q].arg.ref
        BY <3>6, <4>1 DEF SessionFor
      <4>3. t.op = "checkout" => t.arg.ref # txn[q].arg.ref
        BY <1>0, <2>1, <4>2 DEF AtGateway, ForGateway
      <4>4. QED
        BY <3>2, <4>2, <4>3
\* No other session was created for d, so the row names what it named.
    <3>7. ASSUME NEW s \in Sessions, metadata[s] = d, row[d].session = s
          PROVE  row'[d].session = s
      <4>1. t.op = "checkout" => s = t.arg.ref
        BY <1>1, <3>2, <3>7, NoDonationIsNone DEF OneSessionEach
      <4>2. QED
        BY <3>2, <3>7, <4>1
    <3>8. ASSUME NEW q \in Requests \ {r}, Changing(q), txn[q].op = "webhook",
                 txn[q].don = d
          PROVE  d \in gone' \/ row'[d].session = txn[q].arg.ref
      <4>1. SessionFor(q) /\ txn[q].arg.ref \in Sessions
        BY <3>8 DEF Found, TypeOK, TxnsOK
      <4>2. QED
        BY <3>3, <3>7, <3>8, <4>1 DEF SessionFor
    <3>9. \A q \in Requests : SessionFor(q)'
      BY <1>6, <2>2, <3>1, <3>6, <3>8
    <3>10. ASSUME NEW c \in live', row'[c].session # NoRef
           PROVE  metadata[row'[c].session] = c
      <4>1. CASE c = d
        BY <1>3, <2>1, <3>1, <3>2, <3>10, <4>1
      <4>2. CASE c # d
        BY <1>1, <1>3, <3>1, <3>10, <4>2
      <4>3. QED
        BY <4>1, <4>2
    <3>11. ASSUME NEW s \in payable \ unbacked'
           PROVE  \/ metadata[s] \in gone
                  \/ metadata[s] \in live /\ row'[metadata[s]].session = s
      <4>1. s \in Sessions /\ (s \in Backed(t) \/ s \notin unbacked)
        BY <1>1
      <4>2. CASE s \in Backed(t)
        BY <2>1, <3>2, <3>3, <4>2 DEF Backed
      <4>3. CASE s \notin unbacked
        <5>1. CASE metadata[s] = d
          BY <1>3, <3>3, <3>7, <4>1, <4>3, <5>1
        <5>2. CASE metadata[s] # d
          BY <1>1, <1>3, <3>1, <4>3, <5>2
        <5>3. QED
          BY <5>1, <5>2
      <4>4. QED
        BY <4>1, <4>2, <4>3
    <3>12. SessionsAreFound'
      BY <1>1, <1>3, <3>1, <3>10, <3>11 DEF SessionsAreFound
    <3>13. ASSUME NEW s \in answered \ unbacked'
           PROVE  \/ metadata[s] \in live' /\ PaidInTrail(metadata[s])'
                  \/ metadata[s] \in gone'
      <4>1. CASE t.op = "webhook" /\ s = t.arg.ref
        BY <1>1, <2>1, <3>1, <3>2, <3>4, <3>5, <4>1
      <4>2. CASE s \notin unbacked
        <5>1. CASE metadata[s] = d
          BY <1>1, <1>3, <3>1, <3>4, <4>2, <5>1 DEF AnsweredIsRecorded
        <5>2. CASE metadata[s] # d
          BY <1>1, <1>3, <3>1, <4>2, <5>2 DEF AnsweredIsRecorded, PaidInTrail
        <5>3. QED
          BY <5>1, <5>2
      <4>3. QED
        BY <1>1, <4>1, <4>2 DEF Backed
    <3>14. AnsweredIsRecorded'
      BY <1>1, <3>1, <3>13 DEF AnsweredIsRecorded, PaidInTrail
    <3>15. QED
      BY <3>9, <3>12, <3>14 DEF Found
  <2>5. QED
    BY <1>8, <2>3, <2>4
<1>9. QED
  BY <1>0, <1>7, <1>8 DEF Commit, CommitDelete, CommitUpdate

LEMMA FoundInit == Init => Found
BY DEF Init, Found, SessionsAreFound, AnsweredIsRecorded, SessionFor,
       CheckoutOf, Creating, Changing, Idle, NoTxn

LEMMA FoundStep ==
  ASSUME TypeOK, Sound, Sound', Found, OneSessionEach, [Next]_vars
  PROVE  Found'
<1>1. CASE UNCHANGED vars
  BY <1>1 DEF vars, tableVars, gatewayVars, answerVars, Found, SessionsAreFound,
              AnsweredIsRecorded, SessionFor, CheckoutOf, AtGateway, Creating,
              Changing, Idle, PaidInTrail
<1>2. ASSUME NEW r \in Requests, Rollback(r) PROVE Found'
  BY <1>2, FoundFinish DEF Rollback
<1>3. ASSUME NEW s \in Sessions, CompletePayment(s) PROVE Found'
  BY <1>3 DEF CompletePayment, tableVars, answerVars, Found, SessionsAreFound,
              AnsweredIsRecorded, SessionFor, CheckoutOf, AtGateway, Creating,
              Changing, Idle, PaidInTrail
<1>4. ASSUME NEW s \in Sessions, IgnoreEvent(s) PROVE Found'
  <2>1. s \in payable /\ (s \in unbacked \/ metadata[s] \in gone)
    BY <1>4 DEF IgnoreEvent, Found, SessionsAreFound
  <2>2. /\ UNCHANGED <<tableVars, txn, metadata, payable, paid, answerVars>>
        /\ answered' = answered \cup {s}
    BY <1>4 DEF IgnoreEvent
  <2>3. SessionsAreFound' /\ AnsweredIsRecorded'
    BY <2>1, <2>2 DEF Found, SessionsAreFound, AnsweredIsRecorded, tableVars,
                      answerVars, PaidInTrail
  <2>4. \A q \in Requests : SessionFor(q)'
    BY <2>2 DEF Found, SessionFor, CheckoutOf, AtGateway, Creating, Changing,
                Idle, PaidInTrail, tableVars, answerVars
  <2>5. QED
    BY <2>3, <2>4 DEF Found
<1>5. ASSUME NEW s \in Sessions, NEW r \in Requests, DeliverEvent(r, s)
      PROVE  Found'
  <2>1. PICK d \in live : /\ s \in paid /\ row[d].session = s
                          /\ Load(r, "webhook", d, [Nothing EXCEPT !.ref = s])
    BY <1>5 DEF DeliverEvent
  <2>2. [Nothing EXCEPT !.ref = s].ref = s
    BY DEF Nothing
  <2>3. QED
    BY <2>1, <2>2, FoundLoad DEF Kinds
<1>6. QED
  BY <1>1, <1>2, <1>3, <1>4, <1>5, FoundBegin, FoundHandle, FoundAnswer,
     FoundCommit DEF Next

\* As long as no donation gets a second checkout session, an event that was
\* answered 2xx has left a payment in the trail of the donation its session
\* was created for, or that donation was deleted: late and repeated
\* deliveries, requests that fail and staff that change the row meanwhile
\* included.  Left out are the sessions that are unbacked, because the server
\* answers before it commits: a commit that fails after the answer to the
\* event loses the payment, and so does one that fails, or comes after the
\* event, when the URL of the session is out.
THEOREM AnswersAreRecorded == Spec /\ []OneSessionEach => []AnsweredIsRecorded
<1>1. TypeOK /\ Sound /\ Sound' /\ Found /\ OneSessionEach /\ [Next]_vars => Found'
  BY FoundStep
<1>2. Found => AnsweredIsRecorded
  BY DEF Found
<1>3. QED
  BY <1>1, <1>2, FoundInit, AlwaysSound, PTL DEF Spec
=============================================================================
