----------------------------- MODULE Dashboard ------------------------------
(***************************************************************************)
(* The pages of the dashboard together: whichever is open is driven by its *)
(* user, by the answers to its calls, and by what happens meanwhile at the *)
(* backend.                                                                *)
(***************************************************************************)
EXTENDS CrudPages, Generators, CrowdfundingPage, InternshipsPage, SettingsPage

Init ==
    \/ CrudMount
    \/ DonationsMount
    \/ ReceiptsMount
    \/ CardsMount
    \/ CampaignsMount
    \/ InternsMount
    \/ SettingsMount

User ==
    \/ page \in CrudPageNames /\ CrudUser
    \/ page = "donations" /\ DonationsUser
    \/ page = "receipts" /\ ReceiptsUser
    \/ page = "cards" /\ CardsUser
    \/ page = "crowdfunding" /\ CampaignsUser
    \/ page = "internships" /\ InternsUser
    \/ page = "settings" /\ SettingsUser

ShowAnswer(i) ==
    \/ page \notin {"internships", "settings"} /\ ListArrives(i)
    \/ page \in CrudPageNames /\ CrudAnswer(i)
    \/ page = "donations" /\ DonationsAnswer(i)
    \/ page = "receipts" /\ ReceiptIssued(i)
    \/ page = "crowdfunding" /\ CampaignsAnswer(i)
    \/ page = "internships" /\ InternsAnswer(i)
    \/ page = "settings" /\ SettingsAnswer(i)

Serve(i) ==
    \/ ServeList(i)
    \/ page \in CrudPageNames /\ CrudServe(i)
    \/ page \in {"donations", "receipts"} /\ ServeDonation(i)
    \/ page = "crowdfunding" /\ ServeCampaign(i)
    \/ page = "internships" /\ ServeIntern(i)
    \/ page = "settings" /\ ServeSetting(i)
    \/ Refused(i)

\* Rows that other staff, donors and the payment webhook change.
Others ==
    \E r \in Rows :
        \/ page \in CrudPageNames /\ OtherWrite(r, Edited)
        \/ page \in {"donations", "receipts"} /\ WebhookPays(r)
        \/ page = "receipts" /\ ColleagueRefunds(r)
        \/ page = "cards" /\ ColleaguePromotes(r)
        \/ page = "crowdfunding" /\ ColleagueDonates(r)
        \/ page = "internships" /\ ColleagueActivates(r)
        \/ page = "settings" /\ r = Platform /\ AdministratorSaves

Next ==
    \/ User
    \/ \E i \in DOMAIN calls : ShowAnswer(i) \/ Serve(i)
    \/ Others

Spec == Init /\ [][Next]_screenVars

-----------------------------------------------------------------------------
Jobs == {"view", "save", "act", "bare"}

Tags ==
    CASE page \in CrudPageNames -> {Plain, Edited}
      [] page = "donations" -> {"pending", "paid", "issued"}
      [] page = "receipts" -> {"pending", "paid", "issued", HandWritten}
      [] page = "cards" -> {"volunteer", "coordinator", HandWritten}
      [] page = "crowdfunding" ->
            [status : {"draft", "published", "paused", "funded"},
             raised : 0..MaxGiven, given : 0..MaxGiven]
      [] page = "internships" ->
            [status : {"registered", "active", "completed"},
             certified : BOOLEAN, track : {"own", "announced"}]
      [] page = "settings" -> {"stored", "typed", "fallback", "active", "suspended"}

\* NoForm is not one of the forms of the generators and of the settings page.
TextTags ==
    {"pending", "paid", "issued", "volunteer", "coordinator", HandWritten,
     "stored", "fallback", "active", "suspended"}

ASSUME DashboardAssumption ==
    NoForm \notin [row : 0..MaxRows, origin : 0..MaxForms, base : TextTags, tag : TextTags]

\* Type correctness.
TypeOK ==
    /\ page \in CrudPageNames \cup
           {"donations", "receipts", "cards", "crowdfunding", "internships", "settings"}
    /\ DOMAIN db = Rows
    /\ \A r \in Rows : db[r].is \in {"absent", "live", "gone"} /\ db[r].origin \in 0..MaxForms
    /\ \A r \in Rows : db[r].tag \in Tags
    /\ {ui.loading, ui.submitting, ui.error, ui.readOnly, staff, untold} \subseteq BOOLEAN
    /\ ui.form = NoForm \/ (ui.form.row \in 0..MaxRows /\ {ui.form.base, ui.form.tag} \subseteq Tags)
    /\ ui.side \in {NoForm} \cup 0..MaxRows
    /\ ui.shown \in 0..MaxRows
    /\ DOMAIN ui.list.rows = Rows
    /\ ui.list.kind \in {"view", "reload", "late"}
    /\ \A c \in InFlight : c.job \in Jobs /\ c.state \in {"sent", "ok", "failed"}
    /\ opened \in 0..MaxForms
    /\ sent \in 0..MaxCalls

Settled == calls = <<>>

\* At rest, a list that was answered in order and was asked for by the filter
\* is the list of the filter on screen.  Two kinds of list are not spoken of,
\* and the pages do show them at rest without an error: one that was answered
\* after a later read of it (kind "late": no page keeps the newest answer, so
\* the list of an old filter may stay under a new one), and the one a save or a
\* delete reads again, which is that of the filter of its closure ("reload").
ListFollows ==
    Settled /\ ~ui.error /\ ui.list.kind = "view" => ui.list.view = ui.filter

\* At rest, when no error is on screen, the page shows the rows the backend
\* holds: every write of the page is followed by a list read after it.  Three
\* cases are not spoken of: a list answered after a later read of it ("late"),
\* which may show older rows for good, and, by untold, a write whose answer was
\* lost and the writes of others, which nobody tells the page.  A write that
\* was answered with success is taken to be committed when the list is read
\* again (Screen).  The generators read their list once for all.
Fresh ==
    page \notin {"settings", "receipts", "cards"} /\ Settled /\ ~ui.error /\ ~untold
        /\ ui.list.kind # "late" =>
        ui.list.rows = db

\* One form makes one row, unless its user was told it failed when it did not:
\* the submit button is disabled from the click to the end of the reload.
NoTwins ==
    ~untold =>
        \A r, s \in Rows :
            Live(db, r) /\ Live(db, s) /\ db[r].origin = db[s].origin
                /\ db[r].origin # 0 => r = s

\* The submit button is disabled exactly while a save or its reload is under
\* way, and the page never rests with a spinner on.
FlagsTellTheTruth ==
    /\ ui.submitting <=> \E c \in InFlight : c.job = "save"
    /\ ui.loading => \E c \in InFlight : c.op = "list"
=============================================================================
