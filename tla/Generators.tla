---------------------------- MODULE Generators -----------------------------
(***************************************************************************)
(* The receipt and the id card generator under Documents.  A menu of the   *)
(* donations or members, read once and never again, chooses what is        *)
(* printed; the printed fields may be typed over.  Here ui.side is the     *)
(* choice on the menu (NoForm: manual) and ui.form the printed fields      *)
(* (NoForm: as mounted).  These pages look up no role: whoever opens them  *)
(* may choose, and to choose a donation the list shows paid issues its     *)
(* receipt.                                                                *)
(***************************************************************************)
EXTENDS DonationsPage

\* Typed over by hand.
HandWritten == "typed"

TwoRows(first, second) ==
    [r \in Rows |-> Row(IF r \in {1, 2} THEN "live" ELSE "absent", 0,
                        IF r = 1 THEN first ELSE second)]

\* The menu goes back to its first entry; the fields stay.
SelectManual ==
    /\ ui.side # NoForm
    /\ ui' = [ui EXCEPT !.side = NoForm]
    /\ Still

-----------------------------------------------------------------------------
(* Receipts *)

\* One paid donation and one that is not.
ReceiptsMount == Mounted("receipts", TwoRows("paid", "pending"), NoFilter)

\* Receipts asked for before the choice or answer that shows now.
Late(before) ==
    [j \in DOMAIN calls |->
        [calls[j] EXCEPT !.passed = @ \/ (j < before /\ calls[j].op = "receipt")]]

\* The fields are those of the donation in the closure; origin 1 marks the
\* ones a late answer filled in.
Filled(c) == [c.body EXCEPT !.origin = IF c.passed THEN 1 ELSE 0]

SelectDonation ==
    \E r \in Rows :
        LET tag == ui.list.rows[r].tag
            fields == Form(r, 0, tag, tag)
        IN  /\ Live(ui.list.rows, r)
            /\ r # ui.side
            /\ IF IsPaid(tag)
               THEN /\ ui' = [ui EXCEPT !.side = r]
                    /\ Send(Call("receipt", r, fields, "act"))
               ELSE /\ ui' = [ui EXCEPT !.side = r, !.form = fields]
                    /\ calls' = Late(Len(calls) + 1)
                    /\ UNCHANGED <<page, db, staff, opened, sent, untold>>

\* The text fields and "Refresh number", at any time; the menu stays.
UpdateReceipt ==
    /\ ui' = [ui EXCEPT !.form = Form(IF @ = NoForm THEN 0 ELSE @.row, 0,
                                      "pending", HandWritten)]
    /\ Still

ReceiptsUser == SelectDonation \/ SelectManual \/ UpdateReceipt

\* Mutant: the fields are set in the try block, by a success only.
FilledOnSuccess(i) ==
    /\ Answered(i)
    /\ calls[i].op = "receipt"
    /\ ui' = IF calls[i].state = "ok" THEN [ui EXCEPT !.form = Filled(calls[i])] ELSE ui
    /\ calls' = RemoveAt(Late(i), i)
    /\ Done

\* A refused receipt is not told: the list's number is printed instead.
ReceiptIssued(i) ==
    /\ Answered(i)
    /\ calls[i].op = "receipt"
    /\ ui' = [ui EXCEPT !.form = Filled(calls[i])]
    /\ calls' = RemoveAt(Late(i), i)
    /\ Done

\* Another browser's staff mark the donation unpaid again.
ColleagueRefunds(r) == db[r].tag = "paid" /\ OtherWrite(r, "pending")

-----------------------------------------------------------------------------
(* Id cards *)

CardsMount == Mounted("cards", TwoRows("volunteer", "volunteer"), NoFilter)

SelectMember ==
    \E r \in Rows :
        /\ Live(ui.list.rows, r)
        /\ r # ui.side
        /\ ui' = [ui EXCEPT !.side = r,
                            !.form = Form(r, 0, ui.list.rows[r].tag, ui.list.rows[r].tag)]
        /\ Still

Typed(f) == Form(IF f = NoForm THEN 0 ELSE f.row, 0, "volunteer", HandWritten)

\* A field that is typed over makes the card a manual one.
UpdateCard == ui' = [ui EXCEPT !.side = NoForm, !.form = Typed(@)] /\ Still

\* The number of the chosen member again, or a random one.
RefreshId ==
    /\ ui' = IF ui.side = NoForm THEN [ui EXCEPT !.form = Typed(@)] ELSE ui
    /\ Still

CardsUser == SelectMember \/ SelectManual \/ UpdateCard \/ RefreshId

ColleaguePromotes(r) == OtherWrite(r, "coordinator")

-----------------------------------------------------------------------------
\* What the menu says is what is printed.  An id card's menu always does.  A
\* receipt's does at rest, its receipt refused or not, unless fields were
\* typed over or receipts answered out of order: nothing orders the answers,
\* and the last one fills in the fields.
PrintsWhatIsSelected ==
    /\ page = "receipts" /\ calls = <<>> /\ ui.side # NoForm =>
           /\ ui.form # NoForm
           /\ \/ ui.form.row = ui.side
              \/ ui.form.tag = HandWritten
              \/ ui.form.origin = 1
    /\ page = "cards" /\ ui.side # NoForm =>
           ui.form.row = ui.side /\ ui.form.tag # HandWritten
=============================================================================
