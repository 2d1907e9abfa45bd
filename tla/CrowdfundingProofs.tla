------------------------- MODULE CrowdfundingProofs -------------------------
(***************************************************************************)
(* Proofs about Crowdfunding, for any number of campaigns and of requests  *)
(* that overlap.                                                           *)
(*                                                                         *)
(* What a campaign shows depends on what the requests in progress have     *)
(* read, so the invariants of the rows are proved together with the        *)
(* invariants of the objects: no object was read with more than the        *)
(* donations on record (SeenIsBehind), with exactly that many while no two *)
(* donations overlap (SeenIsExact), or with another target than the row's  *)
(* (TargetIsOpened).                                                       *)
(***************************************************************************)
EXTENDS Crowdfunding, TLAPS

RequestsSound == LocksAreHeld /\ UnbornIsBlank /\ TargetIsOpened
                 /\ SeenIsBehind /\ SeenIsExact /\ EditIsDonated
RowsSound == NeverOverstated /\ ExactWhenAlone /\ FundedIsEarned
Sound == RequestsSound /\ RowsSound

-----------------------------------------------------------------------------
LEMMA BlankIsRow == Blank \in Row /\ NoJob \in Job
BY RowsAssumption DEF Blank, Row, Statuses, NoJob, Job

LEMMA DonatedIsRow ==
  ASSUME NEW seen \in Row, NEW amount \in Nat
  PROVE  Donated(seen, amount) \in Row
BY DEF Row, Donated, Statuses

LEMMA UpdatedIsRow ==
  ASSUME NEW seen \in Row, NEW edit \in Row, NEW now \in Row
  PROVE  Updated(seen, edit, now) \in Row
BY DEF Row, Updated, Column

LEMMA GetKeepsTypes ==
  ASSUME TypeOK, NEW r \in Requests, NEW c \in Campaigns,
         NEW op \in {"donate", "update", "delete"}, NEW edit \in Row,
         NEW amount \in Nat, Get(r, c, op, edit, amount),
         overlapped' \in SUBSET Campaigns
  PROVE  TypeOK'
<1>1. [op |-> op, campaign |-> c, seen |-> rows[c], edit |-> edit,
       amount |-> amount] \in Job
  BY DEF TypeOK, Job
<1>2. job' \in [Requests -> Job]
  BY <1>1 DEF TypeOK, Get
<1>3. QED
  BY <1>2 DEF TypeOK, Get

LEMMA EndKeepsTypes ==
  ASSUME TypeOK, NEW r \in Requests, End(r),
         life' \in [Campaigns -> {"unborn", "stored", "deleted"}],
         rows' \in [Campaigns -> Row], given' \in [Campaigns -> Nat],
         staff' \in [Campaigns -> SUBSET Columns]
  PROVE  TypeOK'
BY BlankIsRow DEF TypeOK, End

LEMMA TypeStep == TypeOK /\ [Next]_vars => TypeOK'
<1> SUFFICES ASSUME TypeOK, [Next]_vars PROVE TypeOK'
  OBVIOUS
<1>1. ASSUME NEW c \in Campaigns, CreateCampaign(c) PROVE TypeOK'
  <2>1. PICK raised \in Openings, target \in Targets, status \in StaffStatuses :
          LET row == [raised |-> raised, target |-> target, status |-> status] IN
          /\ rows' = [rows EXCEPT ![c] = row]
          /\ opened' = [opened EXCEPT ![c] = row]
    BY <1>1 DEF CreateCampaign
  <2>2. [raised |-> raised, target |-> target, status |-> status] \in Row
    BY OpeningsAssumption, TargetsAssumption, StatusesAssumption DEF Row
  <2>3. QED
    BY <1>1, <2>1, <2>2 DEF TypeOK, CreateCampaign
<1>2. ASSUME NEW r \in Requests, NEW c \in Campaigns, StartDonation(r, c)
      PROVE  TypeOK'
  <2>1. PICK amount \in Amounts : Get(r, c, "donate", rows[c], amount)
    BY <1>2 DEF StartDonation
  <2>2. amount \in Nat /\ rows[c] \in Row
    BY AmountsAssumption DEF TypeOK
  <2>3. overlapped' \in SUBSET Campaigns
    BY <1>2 DEF StartDonation, TypeOK
  <2>4. QED
    BY <2>1, <2>2, <2>3, GetKeepsTypes
<1>3. ASSUME NEW r \in Requests, NEW c \in Campaigns, StartUpdate(r, c)
      PROVE  TypeOK'
  <2>1. PICK raised \in Openings \cup {rows[c].raised},
             target \in Targets \cup {rows[c].target},
             status \in StaffStatuses \cup {rows[c].status} :
          /\ Get(r, c, "update",
                 [raised |-> raised, target |-> target, status |-> status], 0)
          /\ UNCHANGED overlapped
    BY <1>3 DEF StartUpdate
  <2>2. rows[c] \in Row
    BY DEF TypeOK
  <2>3. [raised |-> raised, target |-> target, status |-> status] \in Row
    BY <2>2, OpeningsAssumption, TargetsAssumption, StatusesAssumption DEF Row
  <2>4. QED
    BY <2>1, <2>3, GetKeepsTypes DEF TypeOK
<1>4. ASSUME NEW r \in Requests, NEW c \in Campaigns, StartDelete(r, c)
      PROVE  TypeOK'
  <2>1. rows[c] \in Row
    BY DEF TypeOK
  <2>2. QED
    BY <1>4, <2>1, GetKeepsTypes DEF StartDelete, TypeOK
<1>5. ASSUME NEW r \in Requests, RecordDonation(r) PROVE TypeOK'
  <2>1. job[r] \in Job /\ Donated(job[r].seen, job[r].amount) \in Row
    BY DonatedIsRow DEF TypeOK, Job
  <2>2. job' \in [Requests -> Job]
    BY <1>5, <2>1 DEF RecordDonation, TypeOK, Job
  <2>3. QED
    BY <1>5, <2>2 DEF RecordDonation, LockRow, TypeOK
<1>6. ASSUME NEW r \in Requests, UpdateCampaign(r) \/ DeleteCampaign(r)
      PROVE  TypeOK'
  BY <1>6 DEF UpdateCampaign, DeleteCampaign, LockRow, TypeOK
<1>7. ASSUME NEW r \in Requests, RowVanished(r) \/ Rollback(r) PROVE TypeOK'
  BY <1>7, EndKeepsTypes DEF RowVanished, Rollback, TypeOK
<1>8. ASSUME NEW r \in Requests,
             CommitDonation(r) \/ CommitUpdate(r) \/ CommitDelete(r)
      PROVE  TypeOK'
  <2> DEFINE c == job[r].campaign
  <2>1. c \in Campaigns /\ job[r] \in Job
    BY DEF TypeOK, Job
  <2>2. Updated(job[r].seen, job[r].edit, rows[c]) \in Row
    BY <2>1, UpdatedIsRow DEF TypeOK, Job
  <2>3. rows' \in [Campaigns -> Row]
    BY <1>8, <2>1, <2>2, BlankIsRow
       DEF TypeOK, CommitDonation, CommitUpdate, CommitDelete, WriteRow
  <2>4. given' \in [Campaigns -> Nat]
    BY <1>8, <2>1 DEF TypeOK, CommitDonation, CommitUpdate, CommitDelete, Job
  <2>5. staff' \in [Campaigns -> SUBSET Columns]
    BY <1>8, <2>1
       DEF TypeOK, CommitDonation, CommitUpdate, CommitDelete, Changed
  <2>6. life' \in [Campaigns -> {"unborn", "stored", "deleted"}]
    BY <1>8, <2>1 DEF TypeOK, CommitDonation, CommitUpdate, CommitDelete
  <2>7. QED
    BY <1>8, <2>3, <2>4, <2>5, <2>6, EndKeepsTypes
       DEF CommitDonation, CommitUpdate, CommitDelete
<1>9. CASE UNCHANGED vars
  BY <1>9 DEF vars, TypeOK
<1>10. QED
  BY <1>1, <1>2, <1>3, <1>4, <1>5, <1>6, <1>7, <1>8, <1>9 DEF Next, Step

\* Every reachable state is well typed: no request, whatever it read, leaves a
\* campaign with a status that is not one of CampaignStatus or an amount below 0.
THEOREM CampaignTypes == Spec => []TypeOK
<1>1. Init => TypeOK
  BY BlankIsRow DEF Init, TypeOK
<1>2. QED
  BY <1>1, TypeStep, PTL DEF Spec

-----------------------------------------------------------------------------
\* Nobody is not a request, so a row that is locked is locked by a request.
LEMMA HolderIsRequest ==
  ASSUME TypeOK, NEW c \in Campaigns, holder[c] # Nobody
  PROVE  holder[c] \in Requests
BY DEF TypeOK

\* A new campaign has received nothing, and no request knows it.
LEMMA CreateKeepsSound ==
  ASSUME TypeOK, Sound, NEW c \in Campaigns, CreateCampaign(c)
  PROVE  Sound'
<1>1. rows'[c] = opened'[c] /\ given'[c] = 0 /\ staff'[c] = {}
  BY DEF CreateCampaign, Sound, RequestsSound, UnbornIsBlank, TypeOK
<1>2. \A d \in Campaigns \ {c} : rows'[d] = rows[d] /\ opened'[d] = opened[d]
                                 /\ life'[d] = life[d]
  BY DEF CreateCampaign, TypeOK
<1>3. \A r \in Requests : stage[r] # "idle" => job[r].campaign \in Campaigns \ {c}
  BY DEF CreateCampaign, Sound, RequestsSound, UnbornIsBlank, TypeOK, Job
<1>4. opened'[c] \in Row /\ life'[c] = "stored"
  BY TypeStep DEF Next, TypeOK, CreateCampaign
<1>5. LocksAreHeld'
  BY <1>2, <1>3 DEF LocksAreHeld, CreateCampaign, Sound, RequestsSound, TypeOK
<1>6. UnbornIsBlank'
  BY <1>1, <1>2, <1>4 DEF UnbornIsBlank, CreateCampaign, Sound, RequestsSound
<1>7. TargetIsOpened'
  BY <1>1, <1>2, <1>3
     DEF TargetIsOpened, Untouched, CreateCampaign, Sound, RequestsSound
<1>8. SeenIsBehind'
  BY <1>2, <1>3
     DEF SeenIsBehind, Untouched, Total, CreateCampaign, Sound, RequestsSound
<1>9. SeenIsExact'
  BY <1>2, <1>3 DEF SeenIsExact, Donating, Untouched, Total, CreateCampaign,
                    Sound, RequestsSound
<1>10. EditIsDonated'
  BY DEF EditIsDonated, CreateCampaign, Sound, RequestsSound
<1>11. RowsSound'
  BY <1>1, <1>2, <1>4 DEF RowsSound, NeverOverstated, ExactWhenAlone,
     FundedIsEarned, Untouched, Total, CreateCampaign, Sound, Row
<1>12. QED
  BY <1>5, <1>6, <1>7, <1>8, <1>9, <1>10, <1>11 DEF Sound, RequestsSound

\* What a request reads is what the row says now.
LEMMA GetKeepsSound ==
  ASSUME TypeOK, Sound, NEW r \in Requests, NEW c \in Campaigns,
         NEW op \in {"donate", "update", "delete"}, NEW edit \in Row,
         NEW amount \in Nat, Get(r, c, op, edit, amount),
         overlapped \subseteq overlapped',
         op = "donate" /\ c \notin overlapped'
             => \A q \in Requests : ~Donating(q, c)
  PROVE  Sound'
<1>1. /\ job'[r] = [op |-> op, campaign |-> c, seen |-> rows[c], edit |-> edit,
                    amount |-> amount]
      /\ stage'[r] = "read" /\ stage[r] = "idle" /\ life[c] = "stored"
  BY DEF Get, TypeOK
<1>2. \A q \in Requests \ {r} : job'[q] = job[q] /\ stage'[q] = stage[q]
  BY DEF Get, TypeOK
<1>3. UNCHANGED <<life, rows, given, holder, opened, staff>>
  BY DEF Get
<1>4. \A d \in Campaigns : holder[d] # r
  BY <1>1, HolderIsRequest, RowsAssumption DEF Sound, RequestsSound, LocksAreHeld
<1>5. LocksAreHeld'
  BY <1>1, <1>2, <1>3, <1>4, HolderIsRequest DEF Sound, RequestsSound, LocksAreHeld
<1>6. UnbornIsBlank'
  BY <1>1, <1>2, <1>3 DEF UnbornIsBlank, Sound, RequestsSound
<1>7. TargetIsOpened'
  BY <1>1, <1>2, <1>3 DEF TargetIsOpened, Untouched, Sound, RequestsSound
<1>8. SeenIsBehind'
  BY <1>1, <1>2, <1>3 DEF SeenIsBehind, Untouched, Total, NeverOverstated,
     Sound, RequestsSound, RowsSound
<1>9. SeenIsExact'
  BY <1>1, <1>2, <1>3 DEF SeenIsExact, Donating, Untouched, Total,
     ExactWhenAlone, Sound, RequestsSound, RowsSound
<1>10. EditIsDonated'
  BY <1>1, <1>2 DEF EditIsDonated, Sound, RequestsSound
<1>11. RowsSound'
  BY <1>3 DEF RowsSound, NeverOverstated, ExactWhenAlone, FundedIsEarned,
     Untouched, Total, Sound
<1>12. QED
  BY <1>5, <1>6, <1>7, <1>8, <1>9, <1>10, <1>11 DEF Sound, RequestsSound

\* The lock excludes other writers of the row; what r read stays as it was.
LEMMA LockKeepsSound ==
  ASSUME TypeOK, Sound, NEW r \in Requests, LockRow(r),
         job' = job \/ RecordDonation(r),
         job[r].op = "donate" => RecordDonation(r)
  PROVE  Sound'
<1> DEFINE c == job[r].campaign
<1>1. c \in Campaigns /\ job[r] \in Job
  BY DEF TypeOK, Job
<1>2. /\ stage'[r] = "written" /\ stage[r] = "read" /\ life[c] = "stored"
      /\ holder'[c] = r /\ holder[c] = Nobody
  BY <1>1 DEF LockRow, TypeOK
<1>3. \A q \in Requests : job'[q].op = job[q].op /\ job'[q].seen = job[q].seen
           /\ job'[q].campaign = job[q].campaign /\ job'[q].amount = job[q].amount
  BY DEF RecordDonation, TypeOK, Job
<1>4. \A q \in Requests \ {r} : job'[q] = job[q] /\ stage'[q] = stage[q]
  BY DEF RecordDonation, LockRow, TypeOK
<1>5. \A d \in Campaigns \ {c} : holder'[d] = holder[d]
  BY <1>1 DEF LockRow, TypeOK
<1>6. UNCHANGED <<life, rows, given, opened, staff, overlapped>>
  BY DEF LockRow
<1>7. \A q \in Requests : stage'[q] # "idle" <=> stage[q] # "idle"
  BY <1>2, <1>4
<1>8. LocksAreHeld'
  <2>1. \A q \in Requests \ {r} : stage[q] = "written" => job[q].campaign # c
    BY <1>2, RowsAssumption DEF Sound, RequestsSound, LocksAreHeld
  <2>2. \A d \in Campaigns \ {c} : holder[d] # r
    BY <1>2, HolderIsRequest, RowsAssumption DEF Sound, RequestsSound, LocksAreHeld
  <2>3. ASSUME NEW q \in Requests, stage'[q] = "written"
        PROVE  holder'[job'[q].campaign] = q /\ life'[job'[q].campaign] = "stored"
    <3>1. CASE q = r
      BY <1>2, <1>3, <1>6, <3>1
    <3>2. CASE q # r
      BY <1>3, <1>4, <1>5, <1>6, <2>1, <2>3, <3>2
         DEF Sound, RequestsSound, LocksAreHeld, TypeOK, Job
    <3>3. QED
      BY <3>1, <3>2
  <2>4. ASSUME NEW d \in Campaigns, holder'[d] # Nobody
        PROVE  stage'[holder'[d]] = "written" /\ job'[holder'[d]].campaign = d
    BY <1>2, <1>3, <1>4, <1>5, <2>2, <2>4, HolderIsRequest
       DEF Sound, RequestsSound, LocksAreHeld
  <2>5. QED
    BY <2>3, <2>4 DEF LocksAreHeld
<1>9. UnbornIsBlank'
  BY <1>3, <1>6, <1>7 DEF UnbornIsBlank, Sound, RequestsSound
<1>10. TargetIsOpened'
  BY <1>3, <1>6, <1>7 DEF TargetIsOpened, Untouched, Sound, RequestsSound
<1>11. SeenIsBehind'
  BY <1>3, <1>6, <1>7 DEF SeenIsBehind, Untouched, Total, Sound, RequestsSound
<1>12. SeenIsExact'
  BY <1>3, <1>6, <1>7
     DEF SeenIsExact, Donating, Untouched, Total, Sound, RequestsSound
<1>13. EditIsDonated'
  <2>1. job[r].op = "donate" => job'[r].edit = Donated(job[r].seen, job[r].amount)
    BY <1>1 DEF RecordDonation, TypeOK, Job
  <2>2. QED
    BY <1>3, <1>4, <2>1 DEF EditIsDonated, Sound, RequestsSound
<1>14. RowsSound'
  BY <1>6 DEF RowsSound, NeverOverstated, ExactWhenAlone, FundedIsEarned,
     Untouched, Total, Sound
<1>15. QED
  BY <1>8, <1>9, <1>10, <1>11, <1>12, <1>13, <1>14 DEF Sound, RequestsSound

-----------------------------------------------------------------------------
\* A request that ends releases its row, and the others keep their objects.
LEMMA EndedRequest ==
  ASSUME TypeOK, NEW r \in Requests, End(r)
  PROVE  /\ stage'[r] = "idle"
         /\ \A q \in Requests \ {r} : job'[q] = job[q] /\ stage'[q] = stage[q]
         /\ \A d \in Campaigns : holder'[d] = IF holder[d] = r THEN Nobody ELSE holder[d]
         /\ opened' = opened /\ overlapped' = overlapped
BY DEF End, TypeOK

LEMMA EndKeepsLocks ==
  ASSUME TypeOK, LocksAreHeld, NEW r \in Requests, End(r),
         \A d \in Campaigns : holder[d] # r => life'[d] = life[d]
  PROVE  LocksAreHeld'
<1>1. ASSUME NEW q \in Requests, stage'[q] = "written"
      PROVE  holder'[job'[q].campaign] = q /\ life'[job'[q].campaign] = "stored"
  <2>1. q # r /\ job'[q] = job[q] /\ stage[q] = "written"
    BY <1>1, EndedRequest
  <2>2. job[q].campaign \in Campaigns
    BY DEF TypeOK, Job
  <2>3. QED
    BY <2>1, <2>2, EndedRequest DEF LocksAreHeld
<1>2. ASSUME NEW d \in Campaigns, holder'[d] # Nobody
      PROVE  stage'[holder'[d]] = "written" /\ job'[holder'[d]].campaign = d
  BY <1>2, EndedRequest, HolderIsRequest DEF LocksAreHeld
<1>3. QED
  BY <1>1, <1>2 DEF LocksAreHeld

\* A request that fails leaves the tables as they were.
LEMMA FailureKeepsSound ==
  ASSUME TypeOK, Sound, NEW r \in Requests, RowVanished(r) \/ Rollback(r)
  PROVE  Sound'
<1>1. End(r) /\ UNCHANGED <<life, rows, given, staff>>
  BY DEF RowVanished, Rollback
<1>2. LocksAreHeld'
  BY <1>1, EndKeepsLocks DEF Sound, RequestsSound
<1>3. UnbornIsBlank' /\ TargetIsOpened' /\ SeenIsBehind' /\ EditIsDonated'
  BY <1>1, EndedRequest DEF UnbornIsBlank, TargetIsOpened, SeenIsBehind,
     EditIsDonated, Untouched, Total, Sound, RequestsSound
<1>4. SeenIsExact'
  BY <1>1, EndedRequest
     DEF SeenIsExact, Donating, Untouched, Total, Sound, RequestsSound
<1>5. RowsSound'
  BY <1>1, EndedRequest DEF RowsSound, NeverOverstated, ExactWhenAlone,
     FundedIsEarned, Untouched, Total, Sound
<1>6. QED
  BY <1>2, <1>3, <1>4, <1>5 DEF Sound, RequestsSound

\* The row a donation writes, seen from what it read and from the row it finds.
LEMMA DonatedRow ==
  ASSUME TypeOK, Sound, NEW r \in Requests, CommitDonation(r)
  PROVE  LET c == job[r].campaign IN
         /\ c \in Campaigns /\ holder[c] = r /\ life[c] = "stored"
         /\ job[r].amount \in Nat /\ job[r].seen \in Row
         /\ rows'[c].target = rows[c].target
         /\ rows'[c].raised \in {rows[c].raised, job[r].seen.raised + job[r].amount}
         /\ job[r].amount # 0 => rows'[c].raised = job[r].seen.raised + job[r].amount
         /\ \/ rows'[c].status = rows[c].status
            \/ /\ rows'[c].status = "funded"
               /\ job[r].seen.raised + job[r].amount >= job[r].seen.target
         /\ given'[c] = given[c] + job[r].amount
         /\ \A d \in Campaigns \ {c} : rows'[d] = rows[d] /\ given'[d] = given[d]
<1> DEFINE c == job[r].campaign
<1>1. c \in Campaigns /\ job[r].amount \in Nat /\ job[r].seen \in Row
  BY DEF TypeOK, Job
<1>2. holder[c] = r /\ life[c] = "stored"
  BY DEF CommitDonation, Sound, RequestsSound, LocksAreHeld
<1>3. job[r].edit = Donated(job[r].seen, job[r].amount)
  BY DEF CommitDonation, Sound, RequestsSound, EditIsDonated
<1>4. rows'[c] = Updated(job[r].seen, Donated(job[r].seen, job[r].amount), rows[c])
  BY <1>1, <1>3 DEF CommitDonation, WriteRow, TypeOK
<1>5. /\ rows'[c].target = rows[c].target
      /\ rows'[c].raised = IF job[r].amount = 0 THEN rows[c].raised
                           ELSE job[r].seen.raised + job[r].amount
      /\ \/ rows'[c].status = rows[c].status
         \/ /\ rows'[c].status = "funded"
            /\ job[r].seen.raised + job[r].amount >= job[r].seen.target
  BY <1>1, <1>4 DEF Updated, Donated, Column, Row
<1>6. /\ given'[c] = given[c] + job[r].amount
      /\ \A d \in Campaigns \ {c} : rows'[d] = rows[d] /\ given'[d] = given[d]
  BY <1>1 DEF CommitDonation, WriteRow, TypeOK
<1>7. QED
  BY <1>1, <1>2, <1>5, <1>6

LEMMA DonationKeepsSound ==
  ASSUME TypeOK, Sound, NEW r \in Requests, CommitDonation(r)
  PROVE  Sound'
<1> DEFINE c == job[r].campaign
<1>1. End(r) /\ UNCHANGED <<life, staff>>
  BY DEF CommitDonation
<1>2. LocksAreHeld'
  BY <1>1, EndKeepsLocks DEF Sound, RequestsSound
<1>3. \A d \in Campaigns : given[d] \in Nat /\ opened[d].raised \in Nat
                          /\ rows[d].raised \in Nat
  BY DEF TypeOK, Row
<1>4. \A q \in Requests : job[q].campaign \in Campaigns /\ job[q].seen.raised \in Nat
  BY DEF TypeOK, Job, Row
<1>open. stage[r] # "idle"
  BY DEF CommitDonation
<1>5. UnbornIsBlank' /\ TargetIsOpened' /\ EditIsDonated'
  BY <1>1, EndedRequest, DonatedRow DEF UnbornIsBlank, TargetIsOpened,
     EditIsDonated, Untouched, Sound, RequestsSound
<1>6. SeenIsBehind'
  BY <1>1, <1>3, <1>4, EndedRequest, DonatedRow
     DEF SeenIsBehind, Untouched, Total, Sound, RequestsSound
<1>7. SeenIsExact'
  <2>1. Donating(r, c)
    BY DEF CommitDonation, Donating
  <2>2. ASSUME NEW d \in Campaigns \ overlapped', NEW q \in Requests, Donating(q, d)'
        PROVE  d \notin overlapped /\ q # r /\ job'[q] = job[q] /\ Donating(q, d)
               /\ d # c
    <3>1. d \notin overlapped /\ q # r /\ job'[q] = job[q] /\ Donating(q, d)
      BY <1>1, <2>2, EndedRequest DEF Donating
    <3>2. d # c
      BY <2>1, <3>1, DonatedRow DEF Sound, RequestsSound, SeenIsExact
    <3>3. QED
      BY <3>1, <3>2
  <2>3. ASSUME NEW d \in Campaigns \ overlapped', NEW q \in Requests,
               NEW p \in Requests, Donating(q, d)', Donating(p, d)'
        PROVE  q = p
    BY <2>2, <2>3 DEF Sound, RequestsSound, SeenIsExact
  <2>4. ASSUME NEW d \in Campaigns \ overlapped', NEW q \in Requests,
               Donating(q, d)', Untouched(d, "raised")'
        PROVE  job'[q].seen.raised = Total(d)'
    <3>1. job[q].seen.raised = Total(d)
      BY <1>1, <2>2, <2>4 DEF Untouched, Sound, RequestsSound, SeenIsExact
    <3>2. QED
      BY <1>1, <2>2, <2>4, <3>1, EndedRequest, DonatedRow DEF Total
  <2>5. QED
    BY <2>3, <2>4 DEF SeenIsExact
<1>8. NeverOverstated'
  <2>1. Untouched(c, "raised")
           => job[r].seen.raised <= Total(c) /\ rows[c].raised <= Total(c)
    BY <1>4, <1>open DEF Sound, RequestsSound, RowsSound, SeenIsBehind, NeverOverstated
  <2>2. QED
    BY <1>1, <1>3, <1>4, <2>1, EndedRequest, DonatedRow
       DEF NeverOverstated, Untouched, Total, Sound, RowsSound
<1>9. ExactWhenAlone'
  <2>1. Donating(r, c)
    BY DEF CommitDonation, Donating
  <2>2. c \notin overlapped /\ Untouched(c, "raised")
           => job[r].seen.raised = Total(c) /\ rows[c].raised = Total(c)
    BY <2>1, DonatedRow DEF Sound, RequestsSound, RowsSound, SeenIsExact,
       ExactWhenAlone
  <2>3. QED
    BY <1>1, <1>3, <1>4, <2>2, EndedRequest, DonatedRow
       DEF ExactWhenAlone, Untouched, Total, Sound, RowsSound
<1>10. FundedIsEarned'
  <2>1. staff[c] = {} => job[r].seen.raised <= Total(c)
                         /\ job[r].seen.target = rows[c].target
    BY <1>4, <1>open, DonatedRow
       DEF Sound, RequestsSound, SeenIsBehind, TargetIsOpened, Untouched
  <2>2. rows[c].target \in Nat /\ \A d \in Campaigns : rows[d].target \in Nat
    BY DonatedRow DEF TypeOK, Row
  <2>3. QED
    BY <1>1, <1>3, <1>4, <2>1, <2>2, EndedRequest, DonatedRow
       DEF FundedIsEarned, Total, Sound, RowsSound
<1>11. QED
  BY <1>2, <1>5, <1>6, <1>7, <1>8, <1>9, <1>10 DEF Sound, RequestsSound, RowsSound

\* A column that staff did not change keeps the value it has in the row.
LEMMA UpdateKeepsSound ==
  ASSUME TypeOK, Sound, NEW r \in Requests, CommitUpdate(r)
  PROVE  Sound'
<1> DEFINE c == job[r].campaign
           new == Changed(job[r].seen, job[r].edit)
<1>1. c \in Campaigns /\ End(r) /\ UNCHANGED <<life, given>> /\ life[c] = "stored"
  BY DEF CommitUpdate, TypeOK, Job, Sound, RequestsSound, LocksAreHeld
<1>2. /\ staff'[c] = staff[c] \cup new
      /\ rows'[c] = Updated(job[r].seen, job[r].edit, rows[c])
      /\ \A d \in Campaigns \ {c} : staff'[d] = staff[d] /\ rows'[d] = rows[d]
  BY <1>1 DEF CommitUpdate, WriteRow, TypeOK
<1>3. /\ "raised" \notin new => rows'[c].raised = rows[c].raised
      /\ "target" \notin new => rows'[c].target = rows[c].target
      /\ "status" \notin new => rows'[c].status = rows[c].status
  BY <1>2 DEF Updated, Column, Changed, Columns
<1>4. \A d \in Campaigns : staff[d] \subseteq staff'[d]
  BY <1>2
<1>5. LocksAreHeld'
  BY <1>1, EndKeepsLocks DEF Sound, RequestsSound
<1>6. UnbornIsBlank' /\ EditIsDonated'
  BY <1>1, <1>2, EndedRequest DEF UnbornIsBlank, EditIsDonated, Sound, RequestsSound
<1>7. TargetIsOpened'
  BY <1>1, <1>2, <1>3, EndedRequest DEF TargetIsOpened, Untouched, Sound, RequestsSound
<1>8. SeenIsBehind'
  BY <1>1, <1>2, EndedRequest
     DEF SeenIsBehind, Untouched, Total, Sound, RequestsSound, TypeOK, Job
<1>9. SeenIsExact'
  BY <1>1, <1>4, EndedRequest
     DEF SeenIsExact, Donating, Untouched, Total, Sound, RequestsSound
<1>10. NeverOverstated' /\ ExactWhenAlone'
  BY <1>1, <1>2, <1>3, EndedRequest
     DEF NeverOverstated, ExactWhenAlone, Untouched, Total, Sound, RowsSound
<1>11. FundedIsEarned'
  BY <1>1, <1>2, <1>3, EndedRequest DEF FundedIsEarned, Total, Sound, RowsSound
<1>12. QED
  BY <1>5, <1>6, <1>7, <1>8, <1>9, <1>10, <1>11 DEF Sound, RequestsSound, RowsSound

\* Nothing is said of a campaign that is gone.
LEMMA DeleteKeepsSound ==
  ASSUME TypeOK, Sound, NEW r \in Requests, CommitDelete(r)
  PROVE  Sound'
<1> DEFINE c == job[r].campaign
<1>1. c \in Campaigns /\ End(r) /\ UNCHANGED staff /\ holder[c] = r
  BY DEF CommitDelete, TypeOK, Job, Sound, RequestsSound, LocksAreHeld
<1>2. /\ life'[c] = "deleted"
      /\ \A d \in Campaigns \ {c} : life'[d] = life[d] /\ rows'[d] = rows[d]
                                    /\ given'[d] = given[d]
  BY <1>1 DEF CommitDelete, TypeOK
<1>3. LocksAreHeld'
  BY <1>1, <1>2, EndKeepsLocks DEF Sound, RequestsSound
<1>4. UnbornIsBlank' /\ TargetIsOpened' /\ EditIsDonated'
  BY <1>1, <1>2, EndedRequest DEF UnbornIsBlank, TargetIsOpened, EditIsDonated,
     Untouched, Sound, RequestsSound
<1>5. SeenIsBehind'
  BY <1>1, <1>2, EndedRequest
     DEF SeenIsBehind, Untouched, Total, Sound, RequestsSound, TypeOK, Job
<1>6. SeenIsExact'
  BY <1>1, <1>2, EndedRequest
     DEF SeenIsExact, Donating, Untouched, Total, Sound, RequestsSound
<1>7. RowsSound'
  BY <1>1, <1>2, EndedRequest DEF RowsSound, NeverOverstated, ExactWhenAlone,
     FundedIsEarned, Untouched, Total, Sound
<1>8. QED
  BY <1>3, <1>4, <1>5, <1>6, <1>7 DEF Sound, RequestsSound

-----------------------------------------------------------------------------
LEMMA SoundStep == TypeOK /\ Sound /\ [Next]_vars => Sound'
<1> SUFFICES ASSUME TypeOK, Sound, [Next]_vars PROVE Sound'
  OBVIOUS
<1>1. ASSUME NEW c \in Campaigns, CreateCampaign(c) PROVE Sound'
  BY <1>1, CreateKeepsSound
<1>2. ASSUME NEW r \in Requests, NEW c \in Campaigns, StartDonation(r, c)
      PROVE  Sound'
  <2>1. PICK amount \in Amounts : Get(r, c, "donate", rows[c], amount)
    BY <1>2 DEF StartDonation
  <2>2. amount \in Nat /\ rows[c] \in Row
    BY AmountsAssumption DEF TypeOK
  <2>3. overlapped \subseteq overlapped'
        /\ (c \notin overlapped' => \A q \in Requests : ~Donating(q, c))
    BY <1>2 DEF StartDonation
  <2>4. QED
    BY <2>1, <2>2, <2>3, GetKeepsSound
<1>3. ASSUME NEW r \in Requests, NEW c \in Campaigns, StartUpdate(r, c)
      PROVE  Sound'
  <2>1. PICK raised \in Openings \cup {rows[c].raised},
             target \in Targets \cup {rows[c].target},
             status \in StaffStatuses \cup {rows[c].status} :
          /\ Get(r, c, "update",
                 [raised |-> raised, target |-> target, status |-> status], 0)
          /\ UNCHANGED overlapped
    BY <1>3 DEF StartUpdate
  <2>2. rows[c] \in Row
    BY DEF TypeOK
  <2>3. [raised |-> raised, target |-> target, status |-> status] \in Row
    BY <2>2, OpeningsAssumption, TargetsAssumption, StatusesAssumption DEF Row
  <2>4. QED
    BY <2>1, <2>3, GetKeepsSound
<1>4. ASSUME NEW r \in Requests, NEW c \in Campaigns, StartDelete(r, c)
      PROVE  Sound'
  <2>1. rows[c] \in Row
    BY DEF TypeOK
  <2>2. QED
    BY <1>4, <2>1, GetKeepsSound DEF StartDelete
<1>5. ASSUME NEW r \in Requests,
             RecordDonation(r) \/ UpdateCampaign(r) \/ DeleteCampaign(r)
      PROVE  Sound'
  BY <1>5, LockKeepsSound DEF RecordDonation, UpdateCampaign, DeleteCampaign
<1>6. ASSUME NEW r \in Requests, RowVanished(r) \/ Rollback(r) PROVE Sound'
  BY <1>6, FailureKeepsSound
<1>7. ASSUME NEW r \in Requests, CommitDonation(r) PROVE Sound'
  BY <1>7, DonationKeepsSound
<1>8. ASSUME NEW r \in Requests, CommitUpdate(r) PROVE Sound'
  BY <1>8, UpdateKeepsSound
<1>9. ASSUME NEW r \in Requests, CommitDelete(r) PROVE Sound'
  BY <1>9, DeleteKeepsSound
<1>10. CASE UNCHANGED vars
  BY <1>10 DEF vars, Sound, RequestsSound, LocksAreHeld, UnbornIsBlank,
     TargetIsOpened, SeenIsBehind, SeenIsExact, EditIsDonated, RowsSound,
     NeverOverstated, ExactWhenAlone, FundedIsEarned, Untouched, Total, Donating
<1>11. QED
  BY <1>1, <1>2, <1>3, <1>4, <1>5, <1>6, <1>7, <1>8, <1>9, <1>10 DEF Next, Step

LEMMA SoundAlways == Spec => [](TypeOK /\ Sound)
<1>1. Init => TypeOK
  BY BlankIsRow DEF Init, TypeOK
<1>2. Init => Sound
  BY DEF Init, Sound, RequestsSound, LocksAreHeld, UnbornIsBlank,
     TargetIsOpened, SeenIsBehind, SeenIsExact, EditIsDonated, RowsSound,
     NeverOverstated, ExactWhenAlone, FundedIsEarned, Untouched, Donating
<1>3. QED
  BY <1>1, <1>2, TypeStep, SoundStep, PTL DEF Spec

\* However many donations overlap, amount_raised is never more than the opening
\* amount and the donations on record, unless staff have set it: every error of
\* record_donation is an amount that is lost.
THEOREM RaisedIsNeverOverstated == Spec => []NeverOverstated
BY SoundAlways, PTL DEF Sound, RowsSound

\* Only two donations in progress at once lose an amount: no PATCH of another
\* column, rollback, delete or donation to another campaign makes the total wrong.
THEOREM LoneDonationsCount == Spec => []ExactWhenAlone
BY SoundAlways, PTL DEF Sound, RowsSound

\* record_donation funds no campaign whose donations on record do not reach the
\* target, although it compares values it read before it had the lock.
THEOREM FundingIsEarned == Spec => []FundedIsEarned
BY SoundAlways, PTL DEF Sound, RowsSound

\* A donation that commits after a change of status brings back no older status.
THEOREM DonationsOnlyFund == Spec => DonationOnlyFunds
<1>1. TypeOK /\ Sound /\ [Next]_vars =>
        [\A c \in Campaigns :
            given'[c] > given[c] /\ rows'[c].status # rows[c].status
            => rows'[c].status = "funded"]_vars
  <2> SUFFICES ASSUME TypeOK, Sound, Next, NEW c \in Campaigns,
                      given'[c] > given[c], rows'[c].status # rows[c].status
               PROVE  rows'[c].status = "funded"
    OBVIOUS
  <2>1. ASSUME NEW r \in Requests, CommitDonation(r)
        PROVE  rows'[c].status = "funded"
    BY <2>1, DonatedRow
  <2>2. ASSUME NEW r \in Requests, CommitDelete(r) PROVE FALSE
    <3>1. given'[c] \in {given[c], 0} /\ given[c] \in Nat
      BY <2>2 DEF CommitDelete, TypeOK
    <3>2. QED
      BY <3>1
  <2>3. given[c] \in Nat
    BY DEF TypeOK
  <2>4. QED
    BY <2>1, <2>2, <2>3 DEF Next, Step, CreateCampaign, StartDonation, StartUpdate,
       StartDelete, Get, RecordDonation, UpdateCampaign, DeleteCampaign, LockRow,
       RowVanished, CommitUpdate, Rollback
<1>2. QED
  BY <1>1, SoundAlways, PTL DEF Spec, DonationOnlyFunds
=============================================================================
