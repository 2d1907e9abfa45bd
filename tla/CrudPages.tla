----------------------------- MODULE CrudPages ------------------------------
(***************************************************************************)
(* The four plain list-and-form pages: members, the records of             *)
(* SimpleCrudPage (beneficiaries, enquiries, expenses, activities, events, *)
(* news), projects and designations.  A page's Controls are the buttons    *)
(* and fields it renders enabled; its handlers are its actions.            *)
(***************************************************************************)
EXTENDS Screen

Plain == "plain"      \* the content of a row nobody edited
Edited == "edited"

ViewControls == {"filter", "refresh"}

\* The open form: its submit button is disabled while a save is in flight.
FormControls ==
    IF ui.form = NoForm THEN {}
    ELSE {"cancel"} \cup {c \in {"submit"} : ~ui.submitting}

-----------------------------------------------------------------------------
(* Members *)

\* MemberList hides its buttons from readers, the page hides the list while
\* it loads.
MemberRowControls ==
    {c \in {"edit", "delete"} : ~ui.loading /\ ~ui.readOnly}

MemberFormControls == FormControls

MembersControls ==
    ViewControls \cup MemberFormControls \cup MemberRowControls
            \cup {c \in {"create"} : ~ui.readOnly}

MembersMount == Mounted("members", OneRow(Plain), NoFilter)

\* The effect on [search, status] and the Refresh button.
MembersLook == "filter" \in MembersControls /\ View

MembersOpenCreate == "create" \in MembersControls /\ OpenCreate(Plain)

MembersOpenEdit ==
    /\ "edit" \in MembersControls
    /\ \E r \in Rows : OpenEdit(r, Edited)

MembersClose == "cancel" \in MembersControls /\ Close

MembersSubmit ==
    /\ "submit" \in MembersControls
    /\ IF ui.readOnly THEN Refuse ELSE SaveForm

MembersRemove ==
    /\ "delete" \in MembersControls
    /\ \E r \in Rows : Act("delete", r)

MembersUser ==
    \/ MembersLook
    \/ MembersOpenCreate
    \/ MembersOpenEdit
    \/ MembersClose
    \/ MembersSubmit
    \/ MembersRemove

-----------------------------------------------------------------------------
(* Simple records *)

\* The row's title opens the form for readers too; openEdit turns them away.
RecordRowControls ==
    {c \in {"edit", "delete"} : ~ui.loading /\ (c = "delete" => ~ui.readOnly)}

RecordsControls ==
    ViewControls \cup FormControls \cup RecordRowControls
            \cup {c \in {"create"} : ~ui.readOnly}

RecordsMount == Mounted("records", OneRow(Plain), NoFilter)

RecordsLook == "filter" \in RecordsControls /\ View

RecordsOpenCreate == "create" \in RecordsControls /\ OpenCreate(Plain)

RecordsOpenEdit ==
    /\ "edit" \in RecordsControls
    /\ \E r \in Rows :
        /\ Live(ui.list.rows, r)
        /\ IF ui.readOnly THEN Refuse ELSE OpenEdit(r, Edited)

RecordsClose == "cancel" \in RecordsControls /\ Close

SaveRecord ==
    /\ "submit" \in RecordsControls
    /\ IF ui.readOnly THEN Refuse ELSE SaveForm

RemoveRecord ==
    /\ "delete" \in RecordsControls
    /\ \E r \in Rows : Act("delete", r)

RecordsUser ==
    \/ RecordsLook
    \/ RecordsOpenCreate
    \/ RecordsOpenEdit
    \/ RecordsClose
    \/ SaveRecord
    \/ RemoveRecord

-----------------------------------------------------------------------------
(* Projects *)

ProjectRowControls ==
    {c \in {"edit", "delete"} : ~ui.loading /\ ~ui.readOnly}

ProjectFormControls == FormControls

ProjectsControls ==
    ViewControls \cup ProjectFormControls \cup ProjectRowControls
            \cup {c \in {"create"} : ~ui.readOnly}

ProjectsMount == Mounted("projects", OneRow(Plain), NoFilter)

ProjectsLook == "filter" \in ProjectsControls /\ View

ProjectsOpenCreate == "create" \in ProjectsControls /\ OpenCreate(Plain)

ProjectsOpenEdit ==
    /\ "edit" \in ProjectsControls
    /\ \E r \in Rows : OpenEdit(r, Edited)

ProjectsClose == "cancel" \in ProjectsControls /\ Close

ProjectsSubmit ==
    /\ "submit" \in ProjectsControls
    /\ IF ui.readOnly THEN Refuse ELSE SaveForm

\* No try: a refused delete is an unhandled rejection.
RemoveProject ==
    /\ "delete" \in ProjectsControls
    /\ \E r \in Rows : BareAct("delete", r)

ProjectsUser ==
    \/ ProjectsLook
    \/ ProjectsOpenCreate
    \/ ProjectsOpenEdit
    \/ ProjectsClose
    \/ ProjectsSubmit
    \/ RemoveProject

-----------------------------------------------------------------------------
(* Designations *)

DesignationRowControls ==
    {c \in {"edit", "delete"} : ~ui.loading /\ ~ui.readOnly}

DesignationFormControls == FormControls

DesignationsControls ==
    ViewControls \cup DesignationFormControls \cup DesignationRowControls
            \cup {c \in {"create"} : ~ui.readOnly}

DesignationsMount == Mounted("designations", OneRow(Plain), NoFilter)

\* The filter is the search, the status and the department.
DesignationsLook == "filter" \in DesignationsControls /\ View

DesignationsOpenCreate ==
    "create" \in DesignationsControls /\ OpenCreate(Plain)

DesignationsOpenEdit ==
    /\ "edit" \in DesignationsControls
    /\ \E r \in Rows : OpenEdit(r, Edited)

DesignationsClose == "cancel" \in DesignationsControls /\ Close

DesignationsSubmit ==
    /\ "submit" \in DesignationsControls
    /\ IF ui.readOnly THEN Refuse ELSE SaveForm

RemoveDesignation ==
    /\ "delete" \in DesignationsControls
    /\ \E r \in Rows : BareAct("delete", r)

DesignationsUser ==
    \/ DesignationsLook
    \/ DesignationsOpenCreate
    \/ DesignationsOpenEdit
    \/ DesignationsClose
    \/ DesignationsSubmit
    \/ RemoveDesignation

-----------------------------------------------------------------------------
CrudPageNames == {"members", "records", "projects", "designations"}

CrudMount ==
    \/ MembersMount
    \/ RecordsMount
    \/ ProjectsMount
    \/ DesignationsMount

CrudUser ==
    \/ page = "members" /\ MembersUser
    \/ page = "records" /\ RecordsUser
    \/ page = "projects" /\ ProjectsUser
    \/ page = "designations" /\ DesignationsUser

\* What submit and remove do with the answer of their call.
CrudAnswer(i) ==
    /\ Answered(i)
    /\ \/ calls[i].job = "save" /\ calls[i].op # "list" /\ (SaveSucceeds(i) \/ SaveFails(i))
       \/ calls[i].op = "delete" /\ (ActSucceeds(i) \/ ActFails(i))

\* What the clients of the four resources ask for besides the list.
MembersServe(i) == page = "members" /\ ServeRow(i)
RecordsServe(i) == page = "records" /\ ServeRow(i)
ProjectsServe(i) == page = "projects" /\ ServeRow(i)
DesignationsServe(i) == page = "designations" /\ ServeRow(i)

CrudServe(i) ==
    \/ MembersServe(i)
    \/ RecordsServe(i)
    \/ ProjectsServe(i)
    \/ DesignationsServe(i)
=============================================================================
