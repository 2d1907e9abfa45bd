--------------------------- MODULE InternshipsPage --------------------------
(***************************************************************************)
(* The internships page: applications, a form for an application and a     *)
(* form for an announcement.  The closure of loadInternships holds the     *)
(* announcement the application form names; while it names none, the list  *)
(* that arrives names the first one in the form and sets its track.  The   *)
(* view is therefore the filter and the announcement named ("none", or     *)
(* "this" and "that" for two of them), and naming another one reads the    *)
(* list again.  The organisation has an announcement.                      *)
(***************************************************************************)
EXTENDS Screen

Named == {"this", "that"}
Unnamed == "none"

\* A certificate and the track: the applicant's own or the announcement's.
Intern(status, certified, track) ==
    [status |-> status, certified |-> certified, track |-> track]

NewIntern == Intern("registered", FALSE, "own")

\* No button is hidden from readers: the handlers turn them away.
InternRowControls ==
    IF ui.loading THEN {} ELSE {"edit", "activate", "issue"}

InternFormControls ==
    {c \in {"cancel", "submit"} : ui.form # NoForm /\ (c = "submit" => ~ui.submitting)}

AnnouncementControls ==
    {c \in {"cancelAnnouncement", "publish"} :
        ui.side # NoForm /\ (c = "publish" => ~ui.submitting)}

InternsControls ==
    {"filter", "refresh", "create", "announce"}
        \cup InternRowControls
        \cup InternFormControls
        \cup AnnouncementControls

InternView(f, named) == [filter |-> f, named |-> named]

InternsMount ==
    Mounted("internships", OneRow(NewIntern), InternView(NoFilter, Unnamed))

InternsLook ==
    /\ "filter" \in InternsControls
    /\ Refresh \/ \E f \in Filters : Look(InternView(f, ui.filter.named))

\* The form names an announcement: the effect runs again when it is another.
Name(u, named) == [u EXCEPT !.filter.named = named]

OpenOn(form, named) ==
    IF named = ui.filter.named
    THEN ui' = [ui EXCEPT !.form = form] /\ UNCHANGED <<calls, sent>>
    ELSE /\ Room
         /\ ui' = Loading(Name([ui EXCEPT !.form = form, !.readOnly = ~staff], named))
         /\ calls' = Append(calls, List(InternView(ui.filter.filter, named), "view"))
         /\ sent' = sent + 1

OpenNewApplication ==
    /\ "create" \in InternsControls
    /\ IF ui.readOnly THEN Refuse
       ELSE /\ opened < MaxForms
            /\ \E n \in IF ui.filter.named = Unnamed THEN {Unnamed} ELSE Named :
                OpenOn(Form(0, opened + 1, NewIntern, NewIntern), n)
            /\ opened' = opened + 1
            /\ UNCHANGED <<page, db, staff, untold>>

OpenEditApplication ==
    /\ "edit" \in InternsControls
    /\ \E r \in Rows :
        /\ Live(ui.list.rows, r)
        /\ IF ui.readOnly THEN Refuse
           ELSE LET row == ui.list.rows[r]
                IN  /\ \E n \in Named : OpenOn(Form(r, row.origin, row.tag, row.tag), n)
                    /\ UNCHANGED <<page, db, staff, opened, untold>>

InternsClose == "cancel" \in InternsControls /\ Close

SubmitApplication ==
    /\ "submit" \in InternsControls
    /\ IF ui.readOnly THEN Refuse ELSE SaveForm

\* The button toggles the announcement form.
ToggleAnnouncement ==
    /\ "announce" \in InternsControls
    /\ ui' = [ui EXCEPT !.side = IF @ = NoForm THEN 0 ELSE NoForm]
    /\ Still

SubmitAnnouncement ==
    /\ "publish" \in InternsControls
    /\ IF ui.readOnly THEN Refuse ELSE Submit(Call("announce", 0, NoForm, "save"))

MarkStatus ==
    /\ "activate" \in InternsControls
    /\ \E r \in Rows :
        Live(ui.list.rows, r) /\ (IF ui.readOnly THEN Refuse ELSE Act("activate", r))

IssueCertificate ==
    /\ "issue" \in InternsControls
    /\ \E r \in Rows :
        Live(ui.list.rows, r) /\ (IF ui.readOnly THEN Refuse ELSE Act("issue", r))

InternsUser ==
    \/ InternsLook
    \/ OpenNewApplication
    \/ OpenEditApplication
    \/ InternsClose
    \/ SubmitApplication
    \/ ToggleAnnouncement
    \/ SubmitAnnouncement
    \/ MarkStatus
    \/ IssueCertificate

-----------------------------------------------------------------------------
(* The answers *)

\* Mutant: the list sets them whatever the form names.
NamesAlways(c) == c.state = "ok"

\* A closure that named no announcement sets announcement and track of the
\* form as it is when the list arrives.
NamesFirst(c) == c.view.named = Unnamed /\ c.state = "ok"

WithFirstTrack(form) ==
    IF form = NoForm THEN NoForm ELSE [form EXCEPT !.tag.track = "announced"]

InternsListArrives(i) ==
    /\ Answered(i)
    /\ calls[i].op = "list"
    /\ LET rest == RemoveAt(Overtaken(i), i)
           shown == ListShown(i)
           named == Name([shown EXCEPT !.form = WithFirstTrack(@)], "this")
       IN  IF ~NamesFirst(calls[i])
           THEN ui' = shown /\ calls' = rest
           ELSE IF ui.filter.named = "this"
           THEN ui' = named /\ calls' = rest
           ELSE /\ ui' = Loading([named EXCEPT !.readOnly = ~staff])
                /\ calls' = Append(rest, List(InternView(ui.filter.filter, "this"), "view"))
    /\ Done

Announced(i) ==
    /\ calls[i].op = "announce"
    /\ calls[i].state = "ok"
    /\ ui' = Loading([ui EXCEPT !.side = NoForm])
    /\ Reload(i)
    /\ Done

CertificateArrives(i) ==
    /\ calls[i].op = "issue"
    /\ calls[i].state = "ok"
    /\ ui' = Loading([ui EXCEPT !.shown = calls[i].row])
    /\ Reload(i)
    /\ Done

InternsAnswer(i) ==
    \/ InternsListArrives(i)
    \/ /\ Answered(i)
       /\ calls[i].op # "list"
       /\ \/ Announced(i)
          \/ CertificateArrives(i)
          \/ calls[i].op \in {"create", "update"} /\ SaveSucceeds(i)
          \/ calls[i].op = "activate" /\ ActSucceeds(i)
          \/ calls[i].job = "save" /\ SaveFails(i)
          \/ calls[i].job = "act" /\ ActFails(i)

-----------------------------------------------------------------------------
(* The backend *)

\* An update ignores the announcement and writes status and track.
Corrected(tag, form) == [form.tag EXCEPT !.certified = tag.certified]

Certified(tag) ==
    IF tag.certified THEN tag
    ELSE [tag EXCEPT !.certified = TRUE, !.status = "completed"]

\* Without an announcement the request does not validate.
ServeIntern(i) ==
    LET r == calls[i].row
    IN  /\ Served(i)
        /\ \/ /\ calls[i].op = "create"
              /\ calls[i].view.named # Unnamed
              /\ ServeRow(i)
           \/ /\ calls[i].op = "announce"
              /\ ServeWrite(i, db)
           \/ /\ r \in Rows
              /\ Live(db, r)
              /\ LET tag == db[r].tag
                 IN  \/ /\ calls[i].op = "update"
                        /\ ServeWrite(i, Tagged(r, Corrected(tag, calls[i].body)))
                     \/ /\ calls[i].op = "activate"
                        /\ ServeWrite(i, Tagged(r, [tag EXCEPT !.status = "active"]))
                     \/ /\ calls[i].op = "issue"
                        /\ tag.certified \/ tag.status # "registered"
                        /\ ServeWrite(i, Tagged(r, Certified(tag)))

\* A colleague activates the intern.
ColleagueActivates(r) == OtherWrite(r, [db[r].tag EXCEPT !.status = "active"])

-----------------------------------------------------------------------------
\* What is typed into the open application form survives the answers that
\* arrive, except the lists asked for before the page knew an announcement:
\* once none of these is in flight, an answer closes the form or leaves it.
FormKeepsTyping ==
    [][page = "internships" /\ Arrives
          /\ (\A c \in InFlight : c.op = "list" => c.view.named # Unnamed) =>
              ui'.form \in {ui.form, NoForm}]_screenVars
=============================================================================
