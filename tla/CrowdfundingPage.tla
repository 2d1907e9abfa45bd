-------------------------- MODULE CrowdfundingPage --------------------------
(***************************************************************************)
(* The crowdfunding page: campaigns, a form for a campaign and a form for  *)
(* a donation that share one submitting flag.  The tag of a row is its     *)
(* status, its amount_raised and the sum of its donations.  The campaign   *)
(* form copies the amount raised from the list and writes it back with     *)
(* every save; staff leave that field as they find it.  Every donation is  *)
(* of amount 1.                                                            *)
(***************************************************************************)
EXTENDS Screen

Campaign(status, raised, given) ==
    [status |-> status, raised |-> raised, given |-> given]

NewCampaign == Campaign("draft", 0, 0)

Target == 1       \* the target amount of every campaign
MaxGiven == 1     \* bound: donations recorded for a campaign

CampaignRowControls ==
    IF ui.loading \/ ui.readOnly THEN {}
    ELSE {"record", "edit", "publish", "pause", "delete"}

\* Both submit buttons are disabled while either form is being saved.
CampaignFormControls ==
    {c \in {"cancel", "submit"} : ui.form # NoForm /\ (c = "submit" => ~ui.submitting)}

CampaignDonationControls ==
    {c \in {"cancelDonation", "donate"} :
        ui.side # NoForm /\ (c = "donate" => ~ui.submitting)}

CampaignsControls ==
    {"filter", "refresh"}
        \cup CampaignRowControls
        \cup CampaignFormControls
        \cup CampaignDonationControls
        \cup {c \in {"create"} : ~ui.readOnly}

CampaignsMount == Mounted("crowdfunding", OneRow(NewCampaign), NoFilter)

CampaignsLook == "filter" \in CampaignsControls /\ View

CampaignsOpenCreate == "create" \in CampaignsControls /\ OpenCreate(NewCampaign)

\* Mutant: the form starts with no amount raised, as for a new campaign.
EditedFromBlank(shown, status) == [shown EXCEPT !.status = status, !.raised = 0]

\* The status may be edited, the amount raised is sent as the list showed it.
EditedCampaign(shown, status) == [shown EXCEPT !.status = status]

CampaignsOpenEdit ==
    /\ "edit" \in CampaignsControls
    /\ \E r \in Rows : \E s \in {ui.list.rows[r].tag.status, "draft"} :
        OpenEdit(r, EditedCampaign(ui.list.rows[r].tag, s))

CampaignsClose == "cancel" \in CampaignsControls /\ Close

SubmitCampaign ==
    /\ "submit" \in CampaignsControls
    /\ IF ui.readOnly THEN Refuse ELSE SaveForm

\* changeStatus and removeCampaign have no try: a refusal is not shown.
ChangeStatus ==
    \E r \in Rows :
        LET op == IF ui.list.rows[r].tag.status = "published" THEN "pause" ELSE "publish"
        IN  op \in CampaignsControls /\ BareAct(op, r)

RemoveCampaign ==
    /\ "delete" \in CampaignsControls
    /\ \E r \in Rows : BareAct("delete", r)

OpenDonation ==
    /\ "record" \in CampaignsControls
    /\ \E r \in Rows :
        /\ Live(ui.list.rows, r)
        /\ ui' = [ui EXCEPT !.side = r]
    /\ Still

CloseDonation ==
    /\ "cancelDonation" \in CampaignsControls
    /\ ui' = [ui EXCEPT !.side = NoForm]
    /\ Still

SubmitDonation ==
    /\ "donate" \in CampaignsControls
    /\ IF ui.readOnly THEN Refuse ELSE Submit(Call("donate", ui.side, NoForm, "save"))

CampaignsUser ==
    \/ CampaignsLook
    \/ CampaignsOpenCreate
    \/ CampaignsOpenEdit
    \/ CampaignsClose
    \/ SubmitCampaign
    \/ ChangeStatus
    \/ RemoveCampaign
    \/ OpenDonation
    \/ CloseDonation
    \/ SubmitDonation

-----------------------------------------------------------------------------
(* The answers *)

\* The donation form that is open then is closed, whichever campaign it is for.
DonationRecorded(i) ==
    /\ calls[i].op = "donate"
    /\ calls[i].state = "ok"
    /\ ui' = Loading([ui EXCEPT !.side = NoForm])
    /\ Reload(i)
    /\ Done

CampaignsAnswer(i) ==
    /\ Answered(i)
    /\ calls[i].op # "list"
    /\ \/ DonationRecorded(i)
       \/ calls[i].op \in {"create", "update"} /\ SaveSucceeds(i)
       \/ calls[i].job = "save" /\ SaveFails(i)
       \/ calls[i].job = "bare" /\ (ActSucceeds(i) \/ ActFails(i))

-----------------------------------------------------------------------------
(* The backend *)

\* Mutant: the amount is added twice.
DonatedTwice(tag) ==
    Campaign(IF tag.raised + 2 >= Target THEN "funded" ELSE tag.status,
             tag.raised + 2, tag.given + 1)

Donated(tag) ==
    Campaign(IF tag.raised + 1 >= Target THEN "funded" ELSE tag.status,
             tag.raised + 1, tag.given + 1)

Saved(tag, form) == Campaign(form.tag.status, form.tag.raised, tag.given)

ServeCampaign(i) ==
    LET r == calls[i].row
    IN  /\ Served(i)
        /\ \/ calls[i].op \in {"create", "delete"} /\ ServeRow(i)
           \/ /\ r \in Rows
              /\ Live(db, r)
              /\ LET tag == db[r].tag
                 IN  \/ /\ calls[i].op = "update"
                        /\ ServeWrite(i, Tagged(r, Saved(tag, calls[i].body)))
                     \/ /\ calls[i].op = "publish"
                        /\ ServeWrite(i, Tagged(r, [tag EXCEPT !.status = "published"]))
                     \/ /\ calls[i].op = "pause"
                        /\ ServeWrite(i, Tagged(r, [tag EXCEPT !.status = "paused"]))
                     \/ /\ calls[i].op = "donate"
                        /\ tag.given < MaxGiven
                        /\ ServeWrite(i, Tagged(r, Donated(tag)))

\* A colleague records a donation.
ColleagueDonates(r) ==
    /\ db[r].tag.given < MaxGiven
    /\ OtherWrite(r, Donated(db[r].tag))

-----------------------------------------------------------------------------
\* The amount raised of a campaign is the sum of its donations until a form
\* that was opened on another amount than the stored one is saved: the page
\* itself never makes the two differ while it shows what is stored, for all
\* that the form sends the amount with every edit (campaignToForm).
TotalDrifts(r) ==
    /\ db[r].tag.raised = db[r].tag.given
    /\ db'[r].tag.raised # db'[r].tag.given

OldAmountInFlight(r) ==
    \E c \in InFlight :
        c.op = "update" /\ c.row = r /\ c.body.base.raised # db[r].tag.raised

TotalsSurviveFreshForms ==
    [][page = "crowdfunding" =>
          \A r \in Rows : TotalDrifts(r) => OldAmountInFlight(r)]_screenVars
=============================================================================
