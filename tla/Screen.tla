------------------------------- MODULE Screen -------------------------------
(***************************************************************************)
(* What the staff pages of the dashboard share.  A page is a React         *)
(* component: its handlers run to their next await, so the only            *)
(* interleavings are at the calls it has in flight.  A call is executed at *)
(* some moment after it was sent (Serve), other staff and the payment      *)
(* webhook change the same rows in between, and the answers come back in   *)
(* any order.  A handler continues with the values its closure captured:   *)
(* the row and the form it sent, and the filter of the render it belongs   *)
(* to.                                                                     *)
(*                                                                         *)
(* Of a row the model keeps whether it is there, which form created it     *)
(* (its origin) and a tag with the fields the properties are about; of a   *)
(* form, the row it edits, its origin, the tag the list showed when it was *)
(* opened and the tag it will write.                                       *)
(***************************************************************************)
EXTENDS Naturals, Sequences, SequencesExt

CONSTANTS
    MaxRows,        \* bound: rows the backend can hold; row 1 is there at first
    Filters,        \* values of the search box and the status menu together
    NoFilter,       \* the empty search and "all"
    MaxForms,       \* bound: forms opened for a new row
    MaxCalls,       \* bound: calls the user causes
    NoForm

ASSUME ScreenAssumption ==
    /\ NoFilter \in Filters
    /\ MaxRows \in Nat \ 0..2
    /\ {MaxForms, MaxCalls} \subseteq Nat \ {0}

VARIABLES
    page,       \* the page that is open
    ui,         \* its React state
    calls,      \* its calls in flight, in the order they were sent
    db,         \* the backend's rows
    staff,      \* the session's role may write
    opened,     \* forms opened for a new row
    sent,       \* calls the user caused
    untold      \* the rows changed and no answer told the page

screenVars == <<page, ui, calls, db, staff, opened, sent, untold>>

Rows == 1..MaxRows

Row(is, origin, tag) == [is |-> is, origin |-> origin, tag |-> tag]
Live(rows, r) == rows[r].is = "live"
Absent(rows) == {r \in Rows : rows[r].is = "absent"}
OneRow(tag) == [r \in Rows |-> Row(IF r = 1 THEN "live" ELSE "absent", 0, tag)]
NextId == CHOOSE r \in Absent(db) : \A s \in Absent(db) : r <= s

Form(row, origin, base, tag) ==
    [row |-> row, origin |-> origin, base |-> base, tag |-> tag]

Call(op, row, body, job) ==
    [op |-> op, row |-> row, body |-> body, view |-> ui.filter, job |-> job,
     state |-> "sent", got |-> <<>>, passed |-> FALSE]

\* A read of the list, for the filter of the closure that asks for it.
List(view, job) ==
    [op |-> "list", row |-> 0, body |-> NoForm, view |-> view, job |-> job,
     state |-> "sent", got |-> <<>>, passed |-> FALSE]

Room == sent < MaxCalls
InFlight == {calls[i] : i \in DOMAIN calls}

(***************************************************************************)
(* The state of a page whose first effect has run: the list is being read. *)
(* The effect takes the role from localStorage, where AppShell writes the  *)
(* session's role when the session arrives, so the two may differ here.    *)
(***************************************************************************)
Mounted(p, rows, view) ==
    /\ page = p
    /\ staff \in BOOLEAN
    /\ db = rows
    /\ ui \in [filter : {view}, loading : {TRUE}, submitting : {FALSE},
               error : {FALSE}, readOnly : BOOLEAN,
               form : {NoForm}, side : {NoForm}, shown : {0},
               list : {[view |-> view, kind |-> "view",
                        rows |-> [r \in Rows |-> Row("absent", 0, rows[1].tag)]]}]
    /\ calls = <<List(view, "view")>>
    /\ opened = 0
    /\ sent = 0
    /\ untold = FALSE

-----------------------------------------------------------------------------
(* The user's side of a handler, up to its first await. *)

Still == UNCHANGED <<page, calls, db, staff, opened, sent, untold>>

\* if (readOnly) { setError(...); return; }
Refuse ==
    /\ ui.readOnly
    /\ ui' = [ui EXCEPT !.error = TRUE]
    /\ Still

Send(c) ==
    /\ Room
    /\ calls' = Append(calls, c)
    /\ sent' = sent + 1
    /\ UNCHANGED <<page, db, staff, opened, untold>>

OpenCreate(tag) ==
    /\ opened < MaxForms
    /\ ui' = [ui EXCEPT !.form = Form(0, opened + 1, tag, tag)]
    /\ opened' = opened + 1
    /\ UNCHANGED <<page, calls, db, staff, sent, untold>>

\* The form is copied from the row as the list shows it, not as it is.
OpenEdit(r, tag) ==
    /\ Live(ui.list.rows, r)
    /\ ui' = [ui EXCEPT !.form = Form(r, ui.list.rows[r].origin, ui.list.rows[r].tag, tag)]
    /\ Still

Close == ui' = [ui EXCEPT !.form = NoForm] /\ Still

\* Mutant: the flag that disables the submit button is not set.
SubmitUnflagged(c) ==
    /\ ui' = [ui EXCEPT !.error = FALSE]
    /\ Send(c)

\* setSubmitting(true); setError(null); await ...
Submit(c) ==
    /\ ui' = [ui EXCEPT !.submitting = TRUE, !.error = FALSE]
    /\ Send(c)

SaveForm ==
    LET op == IF ui.form.row = 0 THEN "create" ELSE "update"
    IN  Submit(Call(op, ui.form.row, ui.form, "save"))

\* setError(null); await ... without the submitting flag.
Act(op, r) ==
    /\ Live(ui.list.rows, r)
    /\ ui' = [ui EXCEPT !.error = FALSE]
    /\ Send(Call(op, r, NoForm, "act"))

\* The same handler without setError(null), try and catch.
BareAct(op, r) ==
    /\ Live(ui.list.rows, r)
    /\ ui' = ui
    /\ Send(Call(op, r, NoForm, "bare"))

\* Mutant: the effect does not depend on the filter.
LookOnly(f) ==
    /\ f # ui.filter
    /\ ui' = [ui EXCEPT !.filter = f]
    /\ Still

\* A new filter is rendered: the effect on loadX looks up the stored role,
\* which AppShell has set by now, and reads the list again.
Look(f) ==
    /\ f # ui.filter
    /\ ui' = [ui EXCEPT !.filter = f, !.loading = TRUE, !.error = FALSE,
                        !.readOnly = ~staff]
    /\ Send(List(f, "view"))

Refresh ==
    /\ ui' = [ui EXCEPT !.loading = TRUE, !.error = FALSE]
    /\ Send(List(ui.filter, "view"))

View == Refresh \/ \E f \in Filters : Look(f)

-----------------------------------------------------------------------------
(* What follows the await. *)

Answered(i) == i \in DOMAIN calls /\ calls[i].state # "sent"

Done == UNCHANGED <<page, db, staff, opened, sent, untold>>

\* Mutant: the list is not read again.
NoReload(i) == calls' = RemoveAt(calls, i)

\* await loadX() with the filter of the closure that called it.
Reload(i) ==
    calls' = Append(RemoveAt(calls, i), List(calls[i].view, calls[i].job))

\* The value of ui when loadX is called.
Loading(u) == [u EXCEPT !.loading = TRUE, !.error = FALSE]

\* The success of a save closes the form that is open, whichever it is.
SaveSucceeds(i) ==
    /\ calls[i].state = "ok"
    /\ ui' = Loading([ui EXCEPT !.form = NoForm])
    /\ Reload(i)
    /\ Done

\* Mutant: no finally.
SaveFailsSubmitting(i) ==
    /\ calls[i].state = "failed"
    /\ ui' = [ui EXCEPT !.error = TRUE]
    /\ calls' = RemoveAt(calls, i)
    /\ Done

\* catch: setError; finally: setSubmitting(false).
SaveFails(i) ==
    /\ calls[i].state = "failed"
    /\ ui' = [ui EXCEPT !.error = TRUE, !.submitting = FALSE]
    /\ calls' = RemoveAt(calls, i)
    /\ Done

ActSucceeds(i) ==
    /\ calls[i].state = "ok"
    /\ ui' = Loading(ui)
    /\ Reload(i)
    /\ Done

\* Without a catch the rejection is unhandled and the page shows nothing.
ActFails(i) ==
    /\ calls[i].state = "failed"
    /\ ui' = [ui EXCEPT !.error = IF calls[i].job = "bare" THEN @ ELSE TRUE]
    /\ calls' = RemoveAt(calls, i)
    /\ Done

\* Reads sent before the one that arrives are answered late.  No page compares
\* an answer with a newer one: it shows the late list like any other.
Overtaken(i) ==
    [j \in DOMAIN calls |->
        [calls[j] EXCEPT !.passed = @ \/ (j < i /\ calls[j].op = "list")]]

Listed(i) ==
    [view |-> calls[i].view,
     kind |-> IF calls[i].passed THEN "late"
              ELSE IF calls[i].job = "view" THEN "view" ELSE "reload",
     rows |-> calls[i].got]

\* setX(response) or setError, then setLoading(false); the save that asked
\* for the list ends with it.
ListShown(i) ==
    [ui EXCEPT !.list = IF calls[i].state = "ok" THEN Listed(i) ELSE @,
               !.error = @ \/ calls[i].state = "failed",
               !.loading = FALSE,
               !.submitting = @ /\ calls[i].job # "save"]

ListArrives(i) ==
    /\ Answered(i)
    /\ calls[i].op = "list"
    /\ ui' = ListShown(i)
    /\ calls' = RemoveAt(Overtaken(i), i)
    /\ Done

\* A step that takes a call off the list or changes it: not a user's step.
Arrives == \E i \in DOMAIN calls : i \notin DOMAIN calls' \/ calls'[i] # calls[i]

-----------------------------------------------------------------------------
(***************************************************************************)
(* The backend.  A request is executed, refused before it changed anything *)
(* (401, 403, 404, 409, 429, 502), or executed and its answer lost; the    *)
(* page cannot tell the last two apart.  A request that was answered with  *)
(* success is taken to be committed, and a list read after that answer to  *)
(* see its write: that the backend answers before it commits is a matter   *)
(* of DonationLedger and Internships.                                      *)
(***************************************************************************)
Settle(i, state, got, rows, doubt) ==
    /\ calls' = [calls EXCEPT ![i].state = state, ![i].got = got]
    /\ db' = rows
    /\ untold' = (untold \/ doubt)
    /\ UNCHANGED <<page, ui, staff, opened, sent>>

\* The BFF turns a session without a writing role away, reads included.
Served(i) == i \in DOMAIN calls /\ calls[i].state = "sent" /\ staff

ServeList(i) ==
    /\ Served(i)
    /\ calls[i].op = "list"
    /\ Settle(i, "ok", db, db, FALSE)

\* effect is the table after the write.
ServeWrite(i, effect) ==
    \/ Settle(i, "ok", <<>>, effect, FALSE)
    \/ Settle(i, "failed", <<>>, effect, TRUE)

Refused(i) ==
    /\ i \in DOMAIN calls
    /\ calls[i].state = "sent"
    /\ Settle(i, "failed", <<>>, db, FALSE)

Tagged(r, tag) == [db EXCEPT ![r].tag = tag]

\* INSERT of a full row, UPDATE of every column the form has, DELETE.
ServeRow(i) ==
    /\ Served(i)
    /\ \/ /\ calls[i].op = "create"
          /\ Absent(db) # {}
          /\ ServeWrite(i, [db EXCEPT ![NextId] =
                               Row("live", calls[i].body.origin, calls[i].body.tag)])
       \/ /\ calls[i].op = "update"
          /\ Live(db, calls[i].row)
          /\ ServeWrite(i, Tagged(calls[i].row, calls[i].body.tag))
       \/ /\ calls[i].op = "delete"
          /\ Live(db, calls[i].row)
          /\ ServeWrite(i, [db EXCEPT ![calls[i].row].is = "gone"])

\* Somebody else, or the payment webhook, changes the row.
OtherWrite(r, tag) ==
    /\ Live(db, r)
    /\ db[r].tag # tag
    /\ db' = Tagged(r, tag)
    /\ untold' = TRUE
    /\ UNCHANGED <<page, ui, calls, staff, opened, sent>>
=============================================================================
