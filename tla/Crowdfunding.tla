---------------------------- MODULE Crowdfunding ----------------------------
(***************************************************************************)
(* Campaigns and the donations recorded against them                       *)
(* (CrowdfundingRepository, CrowdfundingService, one transaction for each  *)
(* request).  Every request first reads the campaign with a plain SELECT;  *)
(* the ORM keeps that object, so what the request later writes is computed *)
(* from what it read then: a second SELECT, FOR UPDATE or not, waits for   *)
(* the lock and returns the same object with the same attributes.  An      *)
(* UPDATE writes the columns that differ from the values read.  The row is *)
(* locked from the first write (or FOR UPDATE) to the end of the request.  *)
(*                                                                         *)
(* Not modelled: 404 answers (no state changes), titles, dates and texts,  *)
(* the unique slug, a null in a PATCH (the database refuses it).  Amounts  *)
(* are whole numbers.                                                      *)
(***************************************************************************)
EXTENDS Naturals

CONSTANTS
    Requests,      \* requests that may run at the same time
    Campaigns,     \* identifiers (uuid4): never used again after a delete
    Amounts,       \* amounts of a donation
    Targets,       \* target amounts staff enter
    Openings,      \* amounts raised staff enter, on creation or in a PATCH
    StaffStatuses, \* statuses staff enter
    MaxGiven,      \* bound: no donation starts beyond this total
    Nobody         \* "no request": the row is not locked

Statuses == {"draft", "review", "published", "paused", "funded", "closed"}

ASSUME AmountsAssumption == Amounts \subseteq Nat \ {0}
ASSUME TargetsAssumption == Targets \subseteq Nat \ {0}
ASSUME OpeningsAssumption == Openings \subseteq Nat
ASSUME StatusesAssumption == StaffStatuses \subseteq Statuses
ASSUME RowsAssumption == Campaigns # {} /\ Nobody \notin Requests

VARIABLES
    life,       \* life[c]: whether the row of c is unborn, stored or deleted
    rows,       \* rows[c]: the committed row of c
    given,      \* given[c]: sum of the committed campaign_donations of c
    holder,     \* holder[c]: the request that has the row locked, or Nobody
    stage,      \* stage[r]: idle, read (object loaded) or written (locked)
    job,        \* job[r]: the operation r runs and its ORM object
    opened,     \* history: the row as it was created
    staff,      \* history: columns a PATCH has changed
    overlapped  \* history: campaigns that had two donations in progress

vars == <<life, rows, given, holder, stage, job, opened, staff, overlapped>>

Columns == {"raised", "target", "status"}
Row == [raised : Nat, target : Nat \ {0}, status : Statuses]
Job == [op : {"donate", "update", "delete"}, campaign : Campaigns,
        seen : Row, edit : Row, amount : Nat]

Blank == [raised |-> 0, target |-> 1, status |-> "draft"]
NoJob == [op |-> "delete", campaign |-> CHOOSE c \in Campaigns : TRUE,
          seen |-> Blank, edit |-> Blank, amount |-> 0]

TypeOK ==
    /\ life \in [Campaigns -> {"unborn", "stored", "deleted"}]
    /\ rows \in [Campaigns -> Row]
    /\ given \in [Campaigns -> Nat]
    /\ holder \in [Campaigns -> Requests \cup {Nobody}]
    /\ stage \in [Requests -> {"idle", "read", "written"}]
    /\ job \in [Requests -> Job]
    /\ opened \in [Campaigns -> Row]
    /\ staff \in [Campaigns -> SUBSET Columns]
    /\ overlapped \in SUBSET Campaigns

Init ==
    /\ life = [c \in Campaigns |-> "unborn"]
    /\ rows = [c \in Campaigns |-> Blank]
    /\ given = [c \in Campaigns |-> 0]
    /\ holder = [c \in Campaigns |-> Nobody]
    /\ stage = [r \in Requests |-> "idle"]
    /\ job = [r \in Requests |-> NoJob]
    /\ opened = [c \in Campaigns |-> Blank]
    /\ staff = [c \in Campaigns |-> {}]
    /\ overlapped = {}

-----------------------------------------------------------------------------
\* Mutant: the test for the target counts the amount twice.
DonatedTwice(seen, amount) ==
    [raised |-> seen.raised + amount,
     target |-> seen.target,
     status |-> IF seen.raised + amount + amount >= seen.target
                THEN "funded" ELSE seen.status]

\* Mutant: a status that is not one of CampaignStatus.
DonatedStatus(seen, amount) ==
    [raised |-> seen.raised + amount,
     target |-> seen.target,
     status |-> IF seen.raised + amount >= seen.target
                THEN "completed" ELSE seen.status]

\* The amount is added to the amount read; reaching the target read funds the
\* campaign, whatever its status; nothing undoes that but staff.
Donated(seen, amount) ==
    [raised |-> seen.raised + amount,
     target |-> seen.target,
     status |-> IF seen.raised + amount >= seen.target
                THEN "funded" ELSE seen.status]

\* UPDATE: the columns whose value differs from the one read.
Changed(seen, edit) == {col \in Columns : edit[col] # seen[col]}
Column(seen, edit, now) == IF edit = seen THEN now ELSE edit

\* Mutant: an UPDATE of the whole row, with the values read for the others.
WholeRow(seen, edit, now) == edit

Updated(seen, edit, now) ==
    [raised |-> Column(seen.raised, edit.raised, now.raised),
     target |-> Column(seen.target, edit.target, now.target),
     status |-> Column(seen.status, edit.status, now.status)]

Donating(q, c) == stage[q] # "idle" /\ job[q].op = "donate" /\ job[q].campaign = c

-----------------------------------------------------------------------------
\* A new campaign is known to no other request before it is committed.
CreateCampaign(c) ==
    /\ life[c] = "unborn"
    /\ \E raised \in Openings, target \in Targets, status \in StaffStatuses :
          LET row == [raised |-> raised, target |-> target, status |-> status] IN
          /\ rows' = [rows EXCEPT ![c] = row]
          /\ opened' = [opened EXCEPT ![c] = row]
    /\ life' = [life EXCEPT ![c] = "stored"]
    /\ UNCHANGED <<given, holder, stage, job, staff, overlapped>>

\* The plain SELECT every operation starts with.
Get(r, c, op, edit, amount) ==
    /\ stage[r] = "idle"
    /\ life[c] = "stored"
    /\ stage' = [stage EXCEPT ![r] = "read"]
    /\ job' = [job EXCEPT ![r] = [op |-> op, campaign |-> c, seen |-> rows[c],
                                  edit |-> edit, amount |-> amount]]
    /\ UNCHANGED <<life, rows, given, holder, opened, staff>>

StartDonation(r, c) ==
    \E amount \in Amounts :
       /\ given[c] + amount <= MaxGiven
       /\ Get(r, c, "donate", rows[c], amount)
       /\ overlapped' = IF \E q \in Requests : Donating(q, c)
                        THEN overlapped \cup {c} ELSE overlapped

\* PATCH, or POST .../status/... when only the status differs.
StartUpdate(r, c) ==
    \E raised \in Openings \cup {rows[c].raised},
       target \in Targets \cup {rows[c].target},
       status \in StaffStatuses \cup {rows[c].status} :
          /\ Get(r, c, "update",
                 [raised |-> raised, target |-> target, status |-> status], 0)
          /\ UNCHANGED overlapped

StartDelete(r, c) == Get(r, c, "delete", rows[c], 0) /\ UNCHANGED overlapped

-----------------------------------------------------------------------------
\* FOR UPDATE, UPDATE and DELETE wait for the lock and keep it.
LockRow(r) ==
    LET c == job[r].campaign IN
    /\ stage[r] = "read"
    /\ holder[c] = Nobody
    /\ life[c] = "stored"
    /\ holder' = [holder EXCEPT ![c] = r]
    /\ stage' = [stage EXCEPT ![r] = "written"]
    /\ UNCHANGED <<life, rows, given, opened, staff, overlapped>>

RecordDonation(r) ==
    /\ job[r].op = "donate"
    /\ LockRow(r)
    /\ job' = [job EXCEPT ![r].edit = Donated(job[r].seen, job[r].amount)]

UpdateCampaign(r) == job[r].op = "update" /\ LockRow(r) /\ UNCHANGED job

DeleteCampaign(r) == job[r].op = "delete" /\ LockRow(r) /\ UNCHANGED job

-----------------------------------------------------------------------------
\* The transaction ends: its lock, if it has one, is released.
End(r) ==
    /\ stage' = [stage EXCEPT ![r] = "idle"]
    /\ job' = [job EXCEPT ![r] = NoJob]
    /\ holder' = [c \in Campaigns |-> IF holder[c] = r THEN Nobody ELSE holder[c]]
    /\ UNCHANGED <<opened, overlapped>>

\* The row is gone when the lock is free: a donation (scalar_one) and a PATCH
\* (StaleDataError) fail, a DELETE has nothing left to do.
RowVanished(r) ==
    LET c == job[r].campaign IN
    /\ stage[r] = "read"
    /\ holder[c] = Nobody
    /\ life[c] = "deleted"
    /\ End(r)
    /\ UNCHANGED <<life, rows, given, staff>>

WriteRow(r) ==
    LET c == job[r].campaign IN
    rows' = [rows EXCEPT ![c] = Updated(job[r].seen, job[r].edit, rows[c])]

\* Mutant: the new total is committed and the donation is lost.
CommitRowOnly(r) ==
    /\ stage[r] = "written"
    /\ job[r].op = "donate"
    /\ WriteRow(r)
    /\ End(r)
    /\ UNCHANGED <<life, given, staff>>

CommitDonation(r) ==
    LET c == job[r].campaign IN
    /\ stage[r] = "written"
    /\ job[r].op = "donate"
    /\ WriteRow(r)
    /\ given' = [given EXCEPT ![c] = given[c] + job[r].amount]
    /\ End(r)
    /\ UNCHANGED <<life, staff>>

CommitUpdate(r) ==
    LET c == job[r].campaign IN
    /\ stage[r] = "written"
    /\ job[r].op = "update"
    /\ WriteRow(r)
    /\ staff' = [staff EXCEPT ![c] = staff[c] \cup Changed(job[r].seen, job[r].edit)]
    /\ End(r)
    /\ UNCHANGED <<life, given>>

\* The donations of the campaign go with it (ON DELETE CASCADE).
CommitDelete(r) ==
    LET c == job[r].campaign IN
    /\ stage[r] = "written"
    /\ job[r].op = "delete"
    /\ life' = [life EXCEPT ![c] = "deleted"]
    /\ rows' = [rows EXCEPT ![c] = Blank]
    /\ given' = [given EXCEPT ![c] = 0]
    /\ End(r)
    /\ UNCHANGED staff

\* Any failure before the commit, and a client that goes away.
Rollback(r) ==
    /\ stage[r] # "idle"
    /\ End(r)
    /\ UNCHANGED <<life, rows, given, staff>>

Step(r) ==
    \/ \E c \in Campaigns : StartDonation(r, c) \/ StartUpdate(r, c) \/ StartDelete(r, c)
    \/ RecordDonation(r) \/ UpdateCampaign(r) \/ DeleteCampaign(r) \/ RowVanished(r)
    \/ CommitDonation(r) \/ CommitUpdate(r) \/ CommitDelete(r) \/ Rollback(r)

Next ==
    \/ \E c \in Campaigns : CreateCampaign(c)
    \/ \E r \in Requests : Step(r)

Spec == Init /\ [][Next]_vars

-----------------------------------------------------------------------------
Total(c) == opened[c].raised + given[c]
Untouched(c, col) == life[c] = "stored" /\ col \notin staff[c]

(***************************************************************************)
(* Until staff correct it, amount_raised is the opening amount plus the    *)
(* donations on record (campaign_donations).  The code does not promise    *)
(* it: record_donation adds to the amount it read before it had the lock,  *)
(* and a donation committed in between is lost from the total.             *)
(***************************************************************************)
RaisedIsSum == \A c \in Campaigns : Untouched(c, "raised") => rows[c].raised = Total(c)

(***************************************************************************)
(* Whatever donations, corrections of other columns and failures overlap,  *)
(* amount_raised never says more than the donations on record: the totals  *)
(* record_donation loses are all on one side.                              *)
(***************************************************************************)
NeverOverstated == \A c \in Campaigns : Untouched(c, "raised") => rows[c].raised <= Total(c)

(***************************************************************************)
(* Donations that never overlapped are all counted: only two               *)
(* record_donation in progress at once for one campaign lose an amount.  A *)
(* PATCH of other columns that overlaps a donation, a rollback or a second *)
(* campaign does not.                                                      *)
(***************************************************************************)
ExactWhenAlone ==
    \A c \in Campaigns \ overlapped :
        Untouched(c, "raised") => rows[c].raised = Total(c)

(***************************************************************************)
(* A campaign that staff left alone is funded only when the donations on   *)
(* record reach its target, although record_donation decides that on the   *)
(* total and the target it read, and amount_raised may fall afterwards     *)
(* below the target.                                                       *)
(***************************************************************************)
FundedIsEarned ==
    \A c \in Campaigns :
        /\ life[c] = "stored" /\ staff[c] = {}
        /\ opened[c].status # "funded" /\ rows[c].status = "funded"
        => Total(c) >= rows[c].target

(***************************************************************************)
(* The commit of a donation changes the status of a campaign to funded or  *)
(* not at all: it does not bring back the status record_donation read when *)
(* a PATCH (set_status) committed another one in the meantime.             *)
(***************************************************************************)
DonationOnlyFunds ==
    [][\A c \in Campaigns :
          given'[c] > given[c] /\ rows'[c].status # rows[c].status
          => rows'[c].status = "funded"]_vars

-----------------------------------------------------------------------------
\* The parts of the inductive invariant.

\* A request that has written its campaign holds the lock of a stored row.
LocksAreHeld ==
    /\ \A r \in Requests : stage[r] = "written" =>
          holder[job[r].campaign] = r /\ life[job[r].campaign] = "stored"
    /\ \A c \in Campaigns : holder[c] # Nobody =>
          stage[holder[c]] = "written" /\ job[holder[c]].campaign = c

\* Nothing is known of a campaign before it is created.
UnbornIsBlank ==
    \A c \in Campaigns : life[c] = "unborn" =>
        /\ given[c] = 0 /\ staff[c] = {}
        /\ \A r \in Requests : stage[r] # "idle" => job[r].campaign # c

\* The target moves only when staff change it, in the row and in every object.
TargetIsOpened ==
    \A c \in Campaigns : Untouched(c, "target") =>
        /\ rows[c].target = opened[c].target
        /\ \A r \in Requests : stage[r] # "idle" /\ job[r].campaign = c
                                => job[r].seen.target = opened[c].target

\* No object was read with more than the donations on record.
SeenIsBehind ==
    \A r \in Requests : stage[r] # "idle" /\ Untouched(job[r].campaign, "raised")
                         => job[r].seen.raised <= Total(job[r].campaign)

\* Until two donations overlap there is one at a time, and it read the total.
SeenIsExact ==
    \A c \in Campaigns \ overlapped :
        /\ \A q, r \in Requests : Donating(q, c) /\ Donating(r, c) => q = r
        /\ \A r \in Requests : Donating(r, c) /\ Untouched(c, "raised")
                                => job[r].seen.raised = Total(c)

\* A donation that has the lock has added its amount to what it read.
EditIsDonated ==
    \A r \in Requests : stage[r] = "written" /\ job[r].op = "donate"
                         => job[r].edit = Donated(job[r].seen, job[r].amount)
=============================================================================
