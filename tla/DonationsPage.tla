--------------------------- MODULE DonationsPage ----------------------------
(***************************************************************************)
(* The donations page.  The tag of a row is its payment status; "issued"   *)
(* is a paid donation whose receipt exists.  The form sends every field    *)
(* with every save, so a donation is set to paid by two calls: an update   *)
(* that repeats the status the list showed, then mark-paid.                *)
(***************************************************************************)
EXTENDS Screen

IsPaid(tag) == tag \in {"paid", "issued"}

\* "frozen" disables the first of these when the row has a receipt; status,
\* date and notes stay open, and PAN and address count as the donor's.
LockedFields == {"donor", "amount", "purpose", "method", "utr"}
OpenFields == {"status", "date", "notes"}
FormStatuses == {"pending", "paid"}

\* cleanPayload: every field of the form, whatever staff may touch.
PayloadFields == LockedFields \cup OpenFields

DonationRowControls ==
    IF ui.loading THEN {}
    ELSE {"receipt"} \cup {c \in {"edit", "delete"} : ~ui.readOnly}

DonationFormControls ==
    IF ui.form = NoForm THEN {}
    ELSE {"cancel"} \cup {c \in {"submit"} : ~ui.submitting}

DonationsControls ==
    {"filter", "refresh", "closeReceipt"}
        \cup DonationFormControls
        \cup DonationRowControls
        \cup {c \in {"create"} : ~ui.readOnly}

DonationsMount == Mounted("donations", OneRow("pending"), NoFilter)

DonationsLook == "filter" \in DonationsControls /\ View

\* Opening a form takes the receipt away.
WithoutReceipt(u) == [u EXCEPT !.shown = 0]

DonationsOpenCreate ==
    /\ "create" \in DonationsControls
    /\ opened < MaxForms
    /\ \E s \in FormStatuses :
        ui' = WithoutReceipt([ui EXCEPT !.form = Form(0, opened + 1, "pending", s)])
    /\ opened' = opened + 1
    /\ UNCHANGED <<page, calls, db, staff, sent, untold>>

DonationsOpenEdit ==
    /\ "edit" \in DonationsControls
    /\ \E r \in Rows, s \in FormStatuses :
        /\ Live(ui.list.rows, r)
        /\ ui' = WithoutReceipt(
                    [ui EXCEPT !.form = Form(r, ui.list.rows[r].origin,
                                             ui.list.rows[r].tag, s)])
    /\ Still

DonationsClose == "cancel" \in DonationsControls /\ Close

\* paid, a method that needs a UTR, and only blanks typed for it.
UtrMissing ==
    /\ ui.form.tag = "paid"
    /\ ui' = [ui EXCEPT !.error = TRUE]
    /\ Still

DonationsSubmit ==
    /\ "submit" \in DonationsControls
    /\ IF ui.readOnly THEN Refuse ELSE UtrMissing \/ SaveForm

DonationsRemove ==
    /\ "delete" \in DonationsControls
    /\ \E r \in Rows : Act("delete", r)

OpenReceipt ==
    /\ "receipt" \in DonationsControls
    /\ \E r \in Rows :
        /\ Live(ui.list.rows, r)
        /\ LET tag == ui.list.rows[r].tag
           IN  IF ~IsPaid(tag) \/ (ui.readOnly /\ tag # "issued")
               THEN ui' = [ui EXCEPT !.error = TRUE] /\ Still
               ELSE Act("receipt", r)

CloseReceipt ==
    /\ ui.shown # 0
    /\ ui' = WithoutReceipt(ui)
    /\ Still

DonationsUser ==
    \/ DonationsLook
    \/ DonationsOpenCreate
    \/ DonationsOpenEdit
    \/ DonationsClose
    \/ DonationsSubmit
    \/ DonationsRemove
    \/ OpenReceipt
    \/ CloseReceipt

-----------------------------------------------------------------------------
(* The answers *)

MarksPaid(form) == form.row # 0 /\ form.tag = "paid" /\ ~IsPaid(form.base)

\* The second call goes out with the row and the form the first one captured.
ThenMarkPaid(i) ==
    /\ calls[i].op = "update"
    /\ calls[i].state = "ok"
    /\ MarksPaid(calls[i].body)
    /\ calls' = Append(RemoveAt(calls, i),
                       [calls[i] EXCEPT !.op = "pay", !.state = "sent"])
    /\ ui' = ui
    /\ Done

\* Mutant: the update is taken for the whole save.
SaveEndsWithUpdate(i) ==
    /\ calls[i].job = "save" /\ calls[i].op # "list"
    /\ SaveSucceeds(i) \/ SaveFails(i)

DonationsSaveEnds(i) ==
    /\ calls[i].job = "save" /\ calls[i].op # "list"
    /\ \/ ThenMarkPaid(i)
       \/ ~(calls[i].op = "update" /\ MarksPaid(calls[i].body)) /\ SaveSucceeds(i)
       \/ SaveFails(i)

\* The receipt is shown, the form (whichever is open) is hidden.
ReceiptArrives(i) ==
    /\ calls[i].op = "receipt"
    /\ calls[i].state = "ok"
    /\ ui' = Loading([ui EXCEPT !.shown = calls[i].row, !.form = NoForm])
    /\ Reload(i)
    /\ Done

DonationsAnswer(i) ==
    /\ Answered(i)
    /\ \/ DonationsSaveEnds(i)
       \/ ReceiptArrives(i)
       \/ calls[i].op = "delete" /\ ActSucceeds(i)
       \/ calls[i].job = "act" /\ calls[i].op # "list" /\ ActFails(i)

-----------------------------------------------------------------------------
(* The backend *)

\* Mutant: the update of a donation to be paid always says pending.
WrittenPending(form) ==
    IF form.row # 0 /\ form.tag = "paid" THEN "pending" ELSE form.tag

\* The status the update sends: the old one when mark-paid is to follow.
WrittenStatus(form) == IF MarksPaid(form) THEN form.base ELSE form.tag

\* An update of a donation with a receipt is refused with 409 when a frozen
\* field is in it, changed or not.
Frozen(i) ==
    /\ calls[i].op = "update"
    /\ db[calls[i].row].tag = "issued"
    /\ PayloadFields \cap LockedFields # {}

ServeDonation(i) ==
    /\ Served(i)
    /\ \/ /\ calls[i].op = "create"
          /\ Absent(db) # {}
          /\ ServeWrite(i, [db EXCEPT ![NextId] =
                               Row("live", calls[i].body.origin, calls[i].body.tag)])
       \/ /\ calls[i].op \in {"update", "pay", "receipt", "delete"}
          /\ Live(db, calls[i].row)
          /\ CASE calls[i].op = "update" /\ ~Frozen(i) ->
                    ServeWrite(i, Tagged(calls[i].row, WrittenStatus(calls[i].body)))
               [] Frozen(i) ->
                    Settle(i, "failed", <<"frozen">>, db, FALSE)
               [] calls[i].op = "pay" ->
                    ServeWrite(i, IF IsPaid(db[calls[i].row].tag) THEN db
                                  ELSE Tagged(calls[i].row, "paid"))
               [] calls[i].op = "receipt" ->
                    /\ IsPaid(db[calls[i].row].tag)
                    /\ ServeWrite(i, Tagged(calls[i].row, "issued"))
               [] calls[i].op = "delete" ->
                    ServeWrite(i, [db EXCEPT ![calls[i].row].is = "gone"])

\* Stripe's webhook records the payment.
WebhookPays(r) == ~IsPaid(db[r].tag) /\ OtherWrite(r, "paid")

-----------------------------------------------------------------------------
(***************************************************************************)
(* What the page promises.                                                 *)
(***************************************************************************)

Booked(c) ==
    LET ours(r) == IF c.row = 0 THEN db[r].origin = c.body.origin ELSE r = c.row
    IN  \E r \in Rows : ours(r) /\ (db[r].is = "gone" \/ IsPaid(db[r].tag))

\* When the page takes a save that chose "paid" for done, the donation is
\* paid, although its first call repeats the old status and the webhook may
\* pay in between: the form never closes on money that is not booked.
SavedAsPaidIsPaid ==
    [][page = "donations" =>
          \A i \in DOMAIN calls :
              /\ calls[i].op \in {"create", "update", "pay"}
              /\ calls[i].body.tag = "paid"
              /\ Reload(i)
              => Booked(calls[i])]_screenVars

\* A paid donation becomes unpaid only when staff chose so, or by a form that
\* was opened while the list showed it unpaid (mark-paid is to follow).
UnpaidByForm ==
    \A r \in Rows :
        Live(db, r) /\ IsPaid(db[r].tag) /\ ~IsPaid(db'[r].tag) =>
            \E c \in InFlight :
                /\ c.op = "update" /\ c.row = r
                /\ c.body.tag = "pending" \/ ~IsPaid(c.body.base)

PaymentSurvivesInformedForms == [][page = "donations" => UnpaidByForm]_screenVars

\* "Donor, amount, purpose, payment method, and UTR fields are locked"
\* (DonationForm.tsx:82): staff cannot touch them, so no save of the form is
\* refused for touching them.
LockedFieldsAreNotTouched ==
    page = "donations" => \A c \in InFlight : c.op = "update" => c.got # <<"frozen">>
=============================================================================
