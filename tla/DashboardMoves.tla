--------------------------- MODULE DashboardMoves ----------------------------
(***************************************************************************)
(* What the steps of Dashboard have in common.  The handlers of the pages  *)
(* are many, but what they do to the calls in flight, to the flags and to  *)
(* the form falls into a few kinds: a user rests, asks for the list or     *)
(* sends a write (UserMoves); an answer ends a call, reads the list again, *)
(* goes on to mark-paid, or shows a list (AnswerMoves); the backend        *)
(* executes a write, reads or refuses (ServeMoves); others change rows     *)
(* (OthersMove).  The lemmas show that each action is of these kinds and   *)
(* that it keeps the types.  DashboardProofs then reasons about the kinds  *)
(* and not about sixty actions.                                            *)
(***************************************************************************)
EXTENDS Dashboard, SequenceTheorems, WellFoundedInduction, TLAPS

\* The pages the generators of documents are not, and whose lists are read again.
PageNames ==
    CrudPageNames \cup
        {"donations", "receipts", "cards", "crowdfunding", "internships", "settings"}

Ops == {"list", "create", "update", "delete", "receipt", "pay", "donate", "publish",
        "pause", "announce", "activate", "issue", "platform", "user"}

Views ==
    IF page = "internships"
    THEN [filter : Filters, named : Named \cup {Unnamed}]
    ELSE Filters

RowSet == [is : {"absent", "live", "gone"}, origin : 0..MaxForms, tag : Tags]
TableSet == [Rows -> RowSet]
FormSet == [row : 0..MaxRows, origin : 0..MaxForms, base : Tags, tag : Tags]

CallSet ==
    [op : Ops, row : 0..MaxRows, body : {NoForm} \cup FormSet, view : Views, job : Jobs,
     state : {"sent", "ok", "failed"}, got : {<<>>, <<"frozen">>} \cup TableSet,
     passed : BOOLEAN]

ListSet == [view : Views, kind : {"view", "reload", "late"}, rows : TableSet]

UiSet ==
    [filter : Views, loading : BOOLEAN, submitting : BOOLEAN, error : BOOLEAN,
     readOnly : BOOLEAN, form : {NoForm} \cup FormSet, side : {NoForm} \cup 0..MaxRows,
     shown : 0..MaxRows, list : ListSet]

\* The types of all the variables.
WellTyped ==
    /\ page \in PageNames
    /\ db \in TableSet
    /\ ui \in UiSet
    /\ calls \in Seq(CallSet)
    /\ staff \in BOOLEAN
    /\ opened \in 0..MaxForms
    /\ sent \in 0..MaxCalls
    /\ untold \in BOOLEAN

MayCreate == CrudPageNames \cup {"donations", "crowdfunding", "internships"}

\* What a call is for is in its name.
JobOf(c) ==
    CASE c.op \in {"create", "update", "pay", "donate", "announce", "platform"} -> {"save"}
      [] c.op = "delete" -> {"act", "bare"}
      [] c.op \in {"receipt", "activate", "issue", "user"} -> {"act"}
      [] c.op \in {"publish", "pause"} -> {"bare"}
      [] c.op = "list" -> Jobs

\* A call that carries a form is about the row of that form; the one that
\* creates has none yet.
Consistent(c) ==
    /\ c.job \in JobOf(c)
    /\ c.op \in {"create", "update", "pay", "platform", "user"} =>
           c.body # NoForm /\ c.body \in FormSet
    /\ c.op = "create" => c.row = 0 /\ c.body.row = 0
    /\ c.op \in {"update", "pay"} => c.row = c.body.row
    /\ c.op \in {"update", "pay", "delete", "receipt", "platform", "user"} => c.row \in Rows
    /\ c.op = "receipt" /\ page = "receipts" => c.body \in FormSet
    /\ c.op = "list" /\ c.state = "ok" => c.got \in TableSet

\* The page that sends it.
Pages(op) ==
    CASE op = "list" -> PageNames
      [] op \in {"create", "update"} ->
             CrudPageNames \cup {"donations", "crowdfunding", "internships"}
      [] op = "delete" -> CrudPageNames \cup {"donations", "crowdfunding"}
      [] op = "pay" -> {"donations"}
      [] op = "receipt" -> {"donations", "receipts"}
      [] op \in {"donate", "publish", "pause"} -> {"crowdfunding"}
      [] op \in {"announce", "activate", "issue"} -> {"internships"}
      [] op \in {"platform", "user"} -> {"settings"}

CallsAreConsistent ==
    \A i \in DOMAIN calls : Consistent(calls[i]) /\ page \in Pages(calls[i].op)

Saves == {i \in DOMAIN calls : calls[i].job = "save"}
Lists == {i \in DOMAIN calls : calls[i].op = "list"}

\* Saves exclude each other, and the flag of the submit button tells of one.
OneSave ==
    /\ \A i, j \in Saves : i = j
    /\ ui.submitting <=> Saves # {}
    /\ ui.loading => Lists # {}
    /\ page = "settings" => \A i \in Lists : calls[i].job = "view"

-----------------------------------------------------------------------------
(* The list of calls *)

Skip(i, j) == IF j < i THEN j ELSE j + 1

LEMMA Removed ==
  ASSUME NEW S, NEW s \in Seq(S), NEW i \in DOMAIN s
  PROVE  /\ RemoveAt(s, i) \in Seq(S)
         /\ DOMAIN RemoveAt(s, i) = 1..(Len(s) - 1) /\ Len(s) - 1 \in Nat
         /\ \A j \in DOMAIN RemoveAt(s, i) :
                /\ Skip(i, j) \in DOMAIN s
                /\ RemoveAt(s, i)[j] = s[Skip(i, j)]
         /\ \A k \in DOMAIN s \ {i} :
                \E j \in DOMAIN RemoveAt(s, i) : Skip(i, j) = k
<1> DEFINE a == SubSeq(s, 1, i - 1)
           b == SubSeq(s, i + 1, Len(s))
<1>1. /\ Len(s) \in Nat /\ DOMAIN s = 1..Len(s) /\ i \in 1..Len(s)
      /\ \A j \in 1..Len(s) : s[j] \in S
  BY LenProperties, ElementOfSeq
<1>2. /\ a \in Seq(S) /\ Len(a) = i - 1
      /\ \A j \in 1..(i - 1) : a[j] = s[j]
  BY <1>1
<1>3. /\ b \in Seq(S) /\ Len(b) = Len(s) - i
      /\ \A j \in 1..(Len(s) - i) : b[j] = s[i + j]
  <2>1. i + 1 \in Int /\ Len(s) \in Int /\ \A j \in (i + 1)..Len(s) : s[j] \in S
    BY <1>1
  <2>2. /\ b \in Seq(S)
        /\ Len(b) = IF i + 1 <= Len(s) THEN Len(s) - (i + 1) + 1 ELSE 0
        /\ \A j \in 1..(Len(s) - (i + 1) + 1) : b[j] = s[(i + 1) + j - 1]
    BY <2>1, SubSeqProperties
  <2>3. \A j \in 1..(Len(s) - i) : j \in 1..(Len(s) - (i + 1) + 1) /\ (i + 1) + j - 1 = i + j
    BY <1>1
  <2> QED BY <1>1, <2>2, <2>3
<1> HIDE DEF a, b
<1>4. /\ RemoveAt(s, i) \in Seq(S)
      /\ Len(RemoveAt(s, i)) = Len(s) - 1
      /\ \A j \in 1..(Len(s) - 1) :
            RemoveAt(s, i)[j] = IF j <= i - 1 THEN a[j] ELSE b[j - (i - 1)]
  <2>1. RemoveAt(s, i) = a \o b
    BY DEF RemoveAt, a, b
  <2>2. /\ a \o b \in Seq(S)
        /\ Len(a \o b) = Len(a) + Len(b)
        /\ \A j \in 1..(Len(a) + Len(b)) :
              (a \o b)[j] = IF j <= Len(a) THEN a[j] ELSE b[j - Len(a)]
    BY <1>2, <1>3, ConcatProperties
  <2> QED BY <1>1, <1>2, <1>3, <2>1, <2>2
<1>5. DOMAIN RemoveAt(s, i) = 1..(Len(s) - 1)
  BY <1>1, <1>4, LenProperties
<1>6. \A j \in DOMAIN RemoveAt(s, i) :
         Skip(i, j) \in DOMAIN s /\ RemoveAt(s, i)[j] = s[Skip(i, j)]
  <2> SUFFICES ASSUME NEW j \in 1..(Len(s) - 1)
               PROVE  Skip(i, j) \in DOMAIN s /\ RemoveAt(s, i)[j] = s[Skip(i, j)]
    BY <1>5
  <2>1. CASE j < i
    <3>1. j \in 1..(i - 1) /\ j <= i - 1 /\ Skip(i, j) = j /\ j \in DOMAIN s
      BY <1>1, <2>1 DEF Skip
    <3>2. RemoveAt(s, i)[j] = a[j] /\ a[j] = s[j]
      BY <1>2, <1>4, <3>1
    <3> QED BY <3>1, <3>2
  <2>2. CASE ~(j < i)
    <3>1. /\ j - (i - 1) \in 1..(Len(s) - i) /\ i + (j - (i - 1)) = j + 1
          /\ ~(j <= i - 1) /\ Skip(i, j) = j + 1 /\ j + 1 \in DOMAIN s
      BY <1>1, <2>2 DEF Skip
    <3>2. RemoveAt(s, i)[j] = b[j - (i - 1)] /\ b[j - (i - 1)] = s[i + (j - (i - 1))]
      BY <1>3, <1>4, <3>1
    <3> QED BY <3>1, <3>2
  <2> QED BY <2>1, <2>2
<1>7. ASSUME NEW k \in DOMAIN s \ {i}
      PROVE  \E j \in DOMAIN RemoveAt(s, i) : Skip(i, j) = k
  <2>1. CASE k < i
    <3>1. k \in DOMAIN RemoveAt(s, i) /\ Skip(i, k) = k
      BY <1>1, <1>5, <2>1 DEF Skip
    <3> QED BY <3>1
  <2>2. CASE k > i
    <3>1. k - 1 \in DOMAIN RemoveAt(s, i) /\ Skip(i, k - 1) = k
      BY <1>1, <1>5, <2>2 DEF Skip
    <3> QED BY <3>1
  <2> QED BY <1>1, <2>1, <2>2
<1>8. Len(s) - 1 \in Nat
  BY <1>1
<1> QED BY <1>4, <1>5, <1>6, <1>7, <1>8

LEMMA Appended ==
  ASSUME NEW S, NEW s \in Seq(S), NEW e \in S
  PROVE  /\ Append(s, e) \in Seq(S)
         /\ Len(s) \in Nat /\ DOMAIN s = 1..Len(s)
         /\ DOMAIN Append(s, e) = 1..(Len(s) + 1)
         /\ \A j \in DOMAIN s : Append(s, e)[j] = s[j]
         /\ Append(s, e)[Len(s) + 1] = e
BY AppendProperties, LenProperties

-----------------------------------------------------------------------------
(* Types *)

LEMMA TagsOf ==
  /\ page \in CrudPageNames => Tags = {Plain, Edited}
  /\ page = "donations" => Tags = {"pending", "paid", "issued"}
  /\ page = "receipts" => Tags = {"pending", "paid", "issued", HandWritten}
  /\ page = "cards" => Tags = {"volunteer", "coordinator", HandWritten}
  /\ page = "crowdfunding" =>
        Tags = [status : {"draft", "published", "paused", "funded"},
                raised : 0..MaxGiven, given : 0..MaxGiven]
  /\ page = "internships" =>
        Tags = [status : {"registered", "active", "completed"},
                certified : BOOLEAN, track : {"own", "announced"}]
  /\ page = "settings" => Tags = {"stored", "typed", "fallback", "active", "suspended"}
BY DEF Tags, CrudPageNames

LEMMA SamePage ==
  ASSUME page' = page
  PROVE  /\ Tags' = Tags /\ Views' = Views /\ TableSet' = TableSet /\ FormSet' = FormSet
         /\ CallSet' = CallSet /\ UiSet' = UiSet
BY DEF Tags, Views, RowSet, TableSet, FormSet, CallSet, ListSet, UiSet

LEMMA CallsTyped ==
  ASSUME WellTyped
  PROVE  /\ Len(calls) \in Nat /\ DOMAIN calls = 1..Len(calls)
         /\ \A i \in DOMAIN calls : calls[i] \in CallSet
BY LenProperties, ElementOfSeq DEF WellTyped

LEMMA RowsAreNumbers == Rows \subseteq Nat /\ 1 \in Rows /\ 2 \in Rows /\ 0 \in 0..MaxRows
                        /\ Rows \subseteq 0..MaxRows /\ 0 \notin Rows /\ MaxRows \in Rows
BY ScreenAssumption DEF Rows

-----------------------------------------------------------------------------
(***************************************************************************)
(* The kinds of steps.  What the handlers of the seven pages have in       *)
(* common: each of them does one of these things to the calls in flight,   *)
(* to the flags, to the filter and the list, and to the form.              *)
(***************************************************************************)
\* The form of a page that creates rows: it stays or is closed, or it is opened
\* on a row, or as the next new one.
FormMoves ==
    \/ ui'.form \in {ui.form, NoForm} /\ opened' = opened
    \/ ui'.form \in FormSet /\ ui'.form.row \in Rows /\ opened' = opened
    \/ /\ ui'.form \in FormSet /\ ui'.form.row = 0 /\ ui'.form.origin = opened + 1
       /\ opened' = opened + 1

\* Nothing is sent.
Rests ==
    /\ \/ calls' = calls
       \/ page = "receipts" /\ calls' = Late(Len(calls) + 1)
    /\ ui'.filter = ui.filter /\ ui'.loading = ui.loading
    /\ ui'.submitting = ui.submitting /\ ui'.list = ui.list
    /\ ui.error => ui'.error

\* The list is asked for.
Asks(v) ==
    /\ v \in Views
    /\ page \in {"settings", "receipts", "cards"} => v = NoFilter
    /\ calls' = Append(calls, List(v, "view"))
    /\ ui'.filter = v /\ ui'.loading /\ ui'.submitting = ui.submitting /\ ui'.list = ui.list

\* A write is sent.
Writes(c) ==
    /\ c \in CallSet /\ Consistent(c) /\ page \in Pages(c.op)
    /\ c.op \notin {"list", "pay"} /\ c.state = "sent" /\ c.view = ui.filter /\ ~c.passed
    /\ c.op \in {"create", "update"} => ui.form # NoForm /\ c.body = ui.form
    /\ calls' = Append(calls, c)
    /\ c.job = "save" => ~ui.submitting
    /\ ui'.submitting = (ui.submitting \/ c.job = "save")
    /\ ui'.filter = ui.filter /\ ui'.loading = ui.loading /\ ui'.list = ui.list
    /\ c.job = "bare" => ui'.error = ui.error

UserMoves ==
    /\ UNCHANGED <<page, db, staff, untold>>
    /\ ui' \in UiSet /\ opened' \in 0..MaxForms /\ sent' \in 0..MaxCalls
    /\ page \in MayCreate => FormMoves
    /\ page \notin MayCreate => opened' = opened
    /\ Rests \/ (\E v \in Views : Asks(v)) \/ (\E c \in CallSet : Writes(c))

-----------------------------------------------------------------------------
(* What the pages' handlers are made of *)

LEMMA StillMoves ==
  ASSUME WellTyped, Still, ui' \in UiSet,
         ui'.filter = ui.filter, ui'.loading = ui.loading,
         ui'.submitting = ui.submitting, ui'.list = ui.list, ui.error => ui'.error,
         page \in MayCreate =>
             ui'.form \in {ui.form, NoForm} \/ (ui'.form \in FormSet /\ ui'.form.row \in Rows)
  PROVE  UserMoves
BY DEF Still, UserMoves, FormMoves, Rests, WellTyped

LEMMA RefuseMoves ==
  ASSUME WellTyped, Refuse
  PROVE  UserMoves
<1>1. ui' = [ui EXCEPT !.error = TRUE] /\ Still
  BY DEF Refuse
<1>2. /\ ui' \in UiSet /\ ui'.filter = ui.filter /\ ui'.loading = ui.loading
      /\ ui'.submitting = ui.submitting /\ ui'.list = ui.list /\ ui'.error
      /\ ui'.form = ui.form
  BY <1>1 DEF WellTyped, UiSet
<1> QED BY <1>1, <1>2, StillMoves

LEMMA OpenCreateMoves ==
  ASSUME WellTyped, NEW tag \in Tags, OpenCreate(tag), page \in MayCreate
  PROVE  UserMoves
<1>1. /\ opened < MaxForms /\ opened' = opened + 1
      /\ ui' = [ui EXCEPT !.form = Form(0, opened + 1, tag, tag)]
      /\ UNCHANGED <<page, calls, db, staff, sent, untold>>
  BY DEF OpenCreate
<1>2. opened' \in 0..MaxForms /\ sent' \in 0..MaxCalls /\ opened + 1 \in 0..MaxForms
  BY <1>1, ScreenAssumption DEF WellTyped
<1>3. /\ Form(0, opened + 1, tag, tag) \in FormSet
      /\ Form(0, opened + 1, tag, tag).row = 0
      /\ Form(0, opened + 1, tag, tag).origin = opened + 1
  BY <1>2, RowsAreNumbers DEF Form, FormSet
<1>4. /\ ui' \in UiSet /\ ui'.filter = ui.filter /\ ui'.loading = ui.loading
      /\ ui'.submitting = ui.submitting /\ ui'.list = ui.list /\ ui'.error = ui.error
      /\ ui'.form = Form(0, opened + 1, tag, tag)
  BY <1>1, <1>3 DEF WellTyped, UiSet
<1> QED BY <1>1, <1>2, <1>3, <1>4 DEF UserMoves, FormMoves, Rests

LEMMA ListedRow ==
  ASSUME WellTyped, NEW r \in Rows
  PROVE  /\ ui.list.rows[r] \in RowSet /\ ui.list.rows[r].tag \in Tags
         /\ ui.list.rows[r].origin \in 0..MaxForms
         /\ db[r] \in RowSet /\ db[r].tag \in Tags /\ db[r].origin \in 0..MaxForms
BY DEF WellTyped, UiSet, ListSet, TableSet, RowSet

LEMMA OpenEditMoves ==
  ASSUME WellTyped, NEW r \in Rows, NEW tag \in Tags, OpenEdit(r, tag)
  PROVE  UserMoves
<1> DEFINE f == Form(r, ui.list.rows[r].origin, ui.list.rows[r].tag, tag)
<1>1. ui' = [ui EXCEPT !.form = f] /\ Still
  BY DEF OpenEdit
<1>2. f \in FormSet /\ f.row = r
  BY ListedRow, RowsAreNumbers DEF Form, FormSet
<1> HIDE DEF f
<1>3. /\ ui' \in UiSet /\ ui'.filter = ui.filter /\ ui'.loading = ui.loading
      /\ ui'.submitting = ui.submitting /\ ui'.list = ui.list /\ ui'.error = ui.error
      /\ ui'.form = f
  BY <1>1, <1>2 DEF WellTyped, UiSet
<1> QED BY <1>1, <1>2, <1>3, StillMoves

LEMMA CloseMoves ==
  ASSUME WellTyped, Close
  PROVE  UserMoves
<1>1. ui' = [ui EXCEPT !.form = NoForm] /\ Still
  BY DEF Close
<1>2. /\ ui' \in UiSet /\ ui'.filter = ui.filter /\ ui'.loading = ui.loading
      /\ ui'.submitting = ui.submitting /\ ui'.list = ui.list /\ ui'.error = ui.error
      /\ ui'.form = NoForm
  BY <1>1 DEF WellTyped, UiSet
<1> QED BY <1>1, <1>2, StillMoves

LEMMA SentCounts ==
  ASSUME WellTyped, NEW c, Send(c)
  PROVE  /\ calls' = Append(calls, c) /\ sent' \in 0..MaxCalls
         /\ UNCHANGED <<page, db, staff, opened, untold>>
BY ScreenAssumption DEF Send, Room, WellTyped

LEMMA RefreshMoves ==
  ASSUME WellTyped, Refresh, page \in {"settings", "receipts", "cards"} => ui.filter = NoFilter
  PROVE  UserMoves
<1>1. /\ ui' = [ui EXCEPT !.loading = TRUE, !.error = FALSE]
      /\ Send(List(ui.filter, "view"))
  BY DEF Refresh
<1>2. /\ ui' \in UiSet /\ ui'.filter = ui.filter /\ ui'.loading
      /\ ui'.submitting = ui.submitting /\ ui'.list = ui.list /\ ui'.form = ui.form
      /\ ui.filter \in Views
  BY <1>1 DEF WellTyped, UiSet
<1> QED BY <1>1, <1>2, SentCounts DEF UserMoves, FormMoves, Asks, WellTyped

LEMMA LookMoves ==
  ASSUME WellTyped, NEW f \in Views, Look(f), page \notin {"settings", "receipts", "cards"}
  PROVE  UserMoves
<1>1. /\ ui' = [ui EXCEPT !.filter = f, !.loading = TRUE, !.error = FALSE, !.readOnly = ~staff]
      /\ Send(List(f, "view"))
  BY DEF Look
<1>2. /\ ui' \in UiSet /\ ui'.filter = f /\ ui'.loading
      /\ ui'.submitting = ui.submitting /\ ui'.list = ui.list /\ ui'.form = ui.form
  BY <1>1 DEF WellTyped, UiSet
<1> QED BY <1>1, <1>2, SentCounts DEF UserMoves, FormMoves, Asks, WellTyped

LEMMA ViewMoves ==
  ASSUME WellTyped, View, page \notin {"settings", "receipts", "cards", "internships"}
  PROVE  UserMoves
<1>1. Views = Filters
  BY DEF Views
<1> QED BY <1>1, RefreshMoves, LookMoves DEF View

LEMMA NewCall ==
  ASSUME WellTyped, NEW op \in Ops \ {"list", "pay"}, NEW row \in 0..MaxRows,
         NEW body \in {NoForm} \cup FormSet, NEW job \in {"save", "act", "bare"}
  PROVE  LET c == Call(op, row, body, job)
         IN  /\ c \in CallSet
             /\ c.op = op /\ c.row = row /\ c.body = body /\ c.job = job
             /\ c.view = ui.filter /\ c.state = "sent" /\ ~c.passed
BY DEF Call, CallSet, WellTyped, UiSet, Jobs

\* A write that a handler sends, with what the handler does to the flags.
LEMMA WriteMoves ==
  ASSUME WellTyped, NEW op \in Ops \ {"list", "pay"}, NEW row \in 0..MaxRows,
         NEW body \in {NoForm} \cup FormSet, NEW job \in {"save", "act", "bare"},
         Consistent(Call(op, row, body, job)), page \in Pages(op),
         op \in {"create", "update"} => ui.form # NoForm /\ body = ui.form,
         Send(Call(op, row, body, job)),
         job = "save" => ~ui.submitting,
         \/ job = "save" /\ ui' = [ui EXCEPT !.submitting = TRUE, !.error = FALSE]
         \/ job = "act" /\ ui' = [ui EXCEPT !.error = FALSE]
         \/ job = "bare" /\ ui' = ui
  PROVE  UserMoves
<1> DEFINE c == Call(op, row, body, job)
<1>1. /\ c \in CallSet
      /\ c.op = op /\ c.row = row /\ c.body = body /\ c.job = job
      /\ c.view = ui.filter /\ c.state = "sent" /\ ~c.passed
  BY NewCall
<1>2. /\ calls' = Append(calls, c) /\ sent' \in 0..MaxCalls
      /\ UNCHANGED <<page, db, staff, opened, untold>>
  BY SentCounts
<1>3. /\ ui' \in UiSet /\ ui'.filter = ui.filter /\ ui'.loading = ui.loading
      /\ ui'.list = ui.list /\ ui'.form = ui.form
      /\ ui'.submitting = (ui.submitting \/ job = "save")
      /\ job = "bare" => ui'.error = ui.error
  <2>1. ui \in UiSet
    BY DEF WellTyped
  <2>2. CASE job = "save"
    BY <2>1, <2>2 DEF UiSet
  <2>3. CASE job = "act"
    BY <2>1, <2>3 DEF UiSet
  <2>4. CASE job = "bare"
    BY <2>1, <2>4 DEF UiSet
  <2> QED BY <2>2, <2>3, <2>4
<1>4. Writes(c)
  BY <1>1, <1>2, <1>3 DEF Writes
<1> QED BY <1>1, <1>2, <1>3, <1>4 DEF UserMoves, FormMoves, WellTyped

LEMMA SaveFormMoves ==
  ASSUME WellTyped, SaveForm, ui.form # NoForm, ~ui.submitting,
         page \in CrudPageNames \cup {"donations", "crowdfunding", "internships"}
  PROVE  UserMoves
<1> DEFINE op == IF ui.form.row = 0 THEN "create" ELSE "update"
<1>1. /\ Submit(Call(op, ui.form.row, ui.form, "save"))
      /\ ui.form \in FormSet /\ ui.form.row \in 0..MaxRows
      /\ op \in Ops \ {"list", "pay"} /\ page \in Pages(op)
  BY DEF SaveForm, WellTyped, UiSet, FormSet, Ops, Pages
<1>2. Consistent(Call(op, ui.form.row, ui.form, "save"))
  <2>1. op # "create" => ui.form.row \in Rows
    BY <1>1 DEF Rows
  <2> QED BY <1>1, <2>1, NewCall DEF Consistent, JobOf
<1>3. /\ ui' = [ui EXCEPT !.submitting = TRUE, !.error = FALSE]
      /\ Send(Call(op, ui.form.row, ui.form, "save"))
  BY <1>1 DEF Submit
<1> HIDE DEF op
<1> QED BY <1>1, <1>2, <1>3, WriteMoves

LEMMA ActMoves ==
  ASSUME WellTyped, NEW r \in Rows, NEW op \in {"delete", "receipt", "activate", "issue"},
         Act(op, r), page \in Pages(op), page # "receipts"
  PROVE  UserMoves
<1>1. /\ ui' = [ui EXCEPT !.error = FALSE]
      /\ Send(Call(op, r, NoForm, "act"))
      /\ r \in 0..MaxRows /\ op \in Ops \ {"list", "pay"}
  BY RowsAreNumbers DEF Act, Ops
<1>2. Consistent(Call(op, r, NoForm, "act"))
  BY <1>1, NewCall DEF Consistent, JobOf
<1> QED BY <1>1, <1>2, WriteMoves

LEMMA BareActMoves ==
  ASSUME WellTyped, NEW r \in Rows, NEW op \in {"delete", "publish", "pause"},
         BareAct(op, r), page \in Pages(op)
  PROVE  UserMoves
<1>1. /\ ui' = ui
      /\ Send(Call(op, r, NoForm, "bare"))
      /\ r \in 0..MaxRows /\ op \in Ops \ {"list", "pay"}
  BY RowsAreNumbers DEF BareAct, Ops
<1>2. Consistent(Call(op, r, NoForm, "bare"))
  BY <1>1, NewCall DEF Consistent, JobOf
<1> QED BY <1>1, <1>2, WriteMoves

-----------------------------------------------------------------------------
(* The pages' users *)

LEMMA FormIsOpen ==
  ASSUME "submit" \in FormControls
  PROVE  ui.form # NoForm /\ ~ui.submitting
BY DEF FormControls

LEMMA CrudUserMoves ==
  ASSUME WellTyped, page \in CrudPageNames, CrudUser
  PROVE  UserMoves
<1>1. /\ Plain \in Tags /\ Edited \in Tags
      /\ page \in MayCreate /\ page \notin {"settings", "receipts", "cards", "internships"}
      /\ page \in Pages("delete")
  BY TagsOf DEF MayCreate, CrudPageNames, Pages
<1>2. CASE page = "members" /\ MembersUser
  <2>1. "submit" \in MembersControls => ui.form # NoForm /\ ~ui.submitting
    BY FormIsOpen DEF MembersControls, MemberFormControls, ViewControls, MemberRowControls
  <2> QED BY <1>1, <1>2, <2>1, ViewMoves, OpenCreateMoves, OpenEditMoves, CloseMoves, RefuseMoves,
             SaveFormMoves, ActMoves
          DEF MembersUser, MembersLook, MembersOpenCreate, MembersOpenEdit, MembersClose,
              MembersSubmit, MembersRemove
<1>3. CASE page = "records" /\ RecordsUser
  <2>1. "submit" \in RecordsControls => ui.form # NoForm /\ ~ui.submitting
    BY FormIsOpen DEF RecordsControls, ViewControls, RecordRowControls
  <2> QED BY <1>1, <1>3, <2>1, ViewMoves, OpenCreateMoves, OpenEditMoves, CloseMoves, RefuseMoves,
             SaveFormMoves, ActMoves
          DEF RecordsUser, RecordsLook, RecordsOpenCreate, RecordsOpenEdit, RecordsClose,
              SaveRecord, RemoveRecord
<1>4. CASE page = "projects" /\ ProjectsUser
  <2>1. "submit" \in ProjectsControls => ui.form # NoForm /\ ~ui.submitting
    BY FormIsOpen DEF ProjectsControls, ProjectFormControls, ViewControls, ProjectRowControls
  <2> QED BY <1>1, <1>4, <2>1, ViewMoves, OpenCreateMoves, OpenEditMoves, CloseMoves, RefuseMoves,
             SaveFormMoves, BareActMoves
          DEF ProjectsUser, ProjectsLook, ProjectsOpenCreate, ProjectsOpenEdit, ProjectsClose,
              ProjectsSubmit, RemoveProject
<1>5. CASE page = "designations" /\ DesignationsUser
  <2>1. "submit" \in DesignationsControls => ui.form # NoForm /\ ~ui.submitting
    BY FormIsOpen DEF DesignationsControls, DesignationFormControls, ViewControls,
                      DesignationRowControls
  <2> QED BY <1>1, <1>5, <2>1, ViewMoves, OpenCreateMoves, OpenEditMoves, CloseMoves, RefuseMoves,
             SaveFormMoves, BareActMoves
          DEF DesignationsUser, DesignationsLook, DesignationsOpenCreate, DesignationsOpenEdit,
              DesignationsClose, DesignationsSubmit, RemoveDesignation
<1> QED BY <1>2, <1>3, <1>4, <1>5 DEF CrudUser

LEMMA DonationsUserMoves ==
  ASSUME WellTyped, page = "donations", DonationsUser
  PROVE  UserMoves
<1>1. /\ Tags = {"pending", "paid", "issued"}
      /\ page \in MayCreate /\ page \notin {"settings", "receipts", "cards", "internships"}
      /\ page \in Pages("delete") /\ page \in Pages("receipt")
  BY TagsOf DEF MayCreate, Pages
<1>2. ui \in UiSet
  BY DEF WellTyped
<1>3. CASE DonationsOpenCreate
  <2>1. PICK s \in FormStatuses :
           ui' = WithoutReceipt([ui EXCEPT !.form = Form(0, opened + 1, "pending", s)])
    BY <1>3 DEF DonationsOpenCreate
  <2>2. /\ opened < MaxForms /\ opened' = opened + 1
        /\ UNCHANGED <<page, calls, db, staff, sent, untold>>
    BY <1>3 DEF DonationsOpenCreate
  <2>3. opened' \in 0..MaxForms /\ sent' \in 0..MaxCalls /\ opened + 1 \in 0..MaxForms
    BY <2>2, ScreenAssumption DEF WellTyped
  <2> DEFINE f == Form(0, opened + 1, "pending", s)
  <2>4. f \in FormSet /\ f.row = 0 /\ f.origin = opened + 1
    BY <1>1, <2>3, RowsAreNumbers DEF Form, FormSet, FormStatuses
  <2> HIDE DEF f
  <2>5. ui' = WithoutReceipt([ui EXCEPT !.form = f])
    BY <2>1 DEF f
  <2>6. /\ ui' \in UiSet /\ ui'.filter = ui.filter /\ ui'.loading = ui.loading
        /\ ui'.submitting = ui.submitting /\ ui'.list = ui.list /\ ui'.error = ui.error
        /\ ui'.form = f
    BY <1>2, <2>4, <2>5, RowsAreNumbers DEF WithoutReceipt, UiSet
  <2> QED BY <1>1, <2>2, <2>3, <2>4, <2>6 DEF UserMoves, FormMoves, Rests
<1>4. CASE DonationsOpenEdit
  <2>1. PICK r \in Rows, s \in FormStatuses :
           ui' = WithoutReceipt([ui EXCEPT !.form = Form(r, ui.list.rows[r].origin,
                                                         ui.list.rows[r].tag, s)])
    BY <1>4 DEF DonationsOpenEdit
  <2> DEFINE f == Form(r, ui.list.rows[r].origin, ui.list.rows[r].tag, s)
  <2>2. f \in FormSet /\ f.row = r
    BY <1>1, ListedRow, RowsAreNumbers DEF Form, FormSet, FormStatuses
  <2> HIDE DEF f
  <2>3. ui' = WithoutReceipt([ui EXCEPT !.form = f]) /\ Still
    BY <1>4, <2>1 DEF f, DonationsOpenEdit
  <2>4. /\ ui' \in UiSet /\ ui'.filter = ui.filter /\ ui'.loading = ui.loading
        /\ ui'.submitting = ui.submitting /\ ui'.list = ui.list /\ ui'.error = ui.error
        /\ ui'.form = f
    BY <1>2, <2>2, <2>3, RowsAreNumbers DEF WithoutReceipt, UiSet
  <2> QED BY <2>2, <2>3, <2>4, StillMoves
<1>5. CASE DonationsSubmit
  <2>1. ui.form # NoForm /\ ~ui.submitting
    BY <1>5 DEF DonationsSubmit, DonationsControls, DonationFormControls, DonationRowControls
  <2>2. CASE UtrMissing
    <3>1. ui' = [ui EXCEPT !.error = TRUE] /\ Still
      BY <2>2 DEF UtrMissing
    <3>2. /\ ui' \in UiSet /\ ui'.filter = ui.filter /\ ui'.loading = ui.loading
          /\ ui'.submitting = ui.submitting /\ ui'.list = ui.list /\ ui'.error
          /\ ui'.form = ui.form
      BY <1>2, <3>1 DEF UiSet
    <3> QED BY <3>1, <3>2, StillMoves
  <2> QED BY <1>5, <2>1, <2>2, SaveFormMoves, RefuseMoves DEF DonationsSubmit
<1>6. CASE OpenReceipt
  <2>1. PICK r \in Rows :
           \/ ui' = [ui EXCEPT !.error = TRUE] /\ Still
           \/ Act("receipt", r)
    BY <1>6 DEF OpenReceipt
  <2>2. CASE ui' = [ui EXCEPT !.error = TRUE] /\ Still
    <3>1. /\ ui' \in UiSet /\ ui'.filter = ui.filter /\ ui'.loading = ui.loading
          /\ ui'.submitting = ui.submitting /\ ui'.list = ui.list /\ ui'.error
          /\ ui'.form = ui.form
      BY <1>2, <2>2 DEF UiSet
    <3> QED BY <2>2, <3>1, StillMoves
  <2> QED BY <1>1, <2>1, <2>2, ActMoves
<1>7. CASE CloseReceipt
  <2>1. ui' = [ui EXCEPT !.shown = 0] /\ Still
    BY <1>7 DEF CloseReceipt, WithoutReceipt
  <2>2. /\ ui' \in UiSet /\ ui'.filter = ui.filter /\ ui'.loading = ui.loading
        /\ ui'.submitting = ui.submitting /\ ui'.list = ui.list /\ ui'.error = ui.error
        /\ ui'.form = ui.form
    BY <1>2, <2>1, RowsAreNumbers DEF UiSet
  <2> QED BY <2>1, <2>2, StillMoves
<1>8. CASE DonationsLook
  BY <1>1, <1>8, ViewMoves DEF DonationsLook
<1>9. CASE DonationsClose
  BY <1>9, CloseMoves DEF DonationsClose
<1>10. CASE DonationsRemove
  BY <1>1, <1>10, ActMoves DEF DonationsRemove
<1> QED BY <1>3, <1>4, <1>5, <1>6, <1>7, <1>8, <1>9, <1>10 DEF DonationsUser

\* Calls that only an overtaking distinguishes.
Alike(s) ==
    /\ s \in Seq(CallSet) /\ Len(s) = Len(calls) /\ DOMAIN s = DOMAIN calls
    /\ \A j \in DOMAIN calls :
          /\ s[j].op = calls[j].op /\ s[j].row = calls[j].row /\ s[j].body = calls[j].body
          /\ s[j].view = calls[j].view /\ s[j].job = calls[j].job
          /\ s[j].state = calls[j].state /\ s[j].got = calls[j].got

LEMMA PassedCalls ==
  ASSUME WellTyped, NEW P \in [DOMAIN calls -> BOOLEAN], NEW s,
         s = [j \in DOMAIN calls |-> [calls[j] EXCEPT !.passed = P[j]]]
  PROVE  Alike(s) /\ \A j \in DOMAIN calls : s[j].passed = P[j]
<1>1. /\ Len(calls) \in Nat /\ DOMAIN calls = 1..Len(calls)
      /\ \A j \in DOMAIN calls : calls[j] \in CallSet
  BY CallsTyped
<1>2. \A j \in DOMAIN calls : P[j] \in BOOLEAN
  OBVIOUS
<1>3. ASSUME NEW j \in DOMAIN calls
      PROVE  /\ s[j] \in CallSet
             /\ s[j].op = calls[j].op /\ s[j].row = calls[j].row /\ s[j].body = calls[j].body
             /\ s[j].view = calls[j].view /\ s[j].job = calls[j].job
             /\ s[j].state = calls[j].state /\ s[j].got = calls[j].got /\ s[j].passed = P[j]
  <2>1. s[j] = [calls[j] EXCEPT !.passed = P[j]] /\ calls[j] \in CallSet /\ P[j] \in BOOLEAN
    BY <1>1, <1>2
  <2> QED BY <2>1 DEF CallSet
<1>4. s = [j \in 1..Len(calls) |-> s[j]] /\ DOMAIN s = 1..Len(calls)
  BY <1>1
<1>5. s \in Seq(CallSet)
  BY <1>1, <1>3, <1>4, SeqDef
<1>6. Len(s) = Len(calls)
  BY <1>1, <1>4, <1>5, LenProperties
<1> QED BY <1>1, <1>3, <1>4, <1>5, <1>6 DEF Alike

LEMMA LateCalls ==
  ASSUME WellTyped, NEW k \in Int
  PROVE  /\ Alike(Late(k))
         /\ \A j \in DOMAIN calls :
               Late(k)[j].passed <=> (calls[j].passed \/ (j < k /\ calls[j].op = "receipt"))
<1> DEFINE P == [j \in DOMAIN calls |-> calls[j].passed \/ (j < k /\ calls[j].op = "receipt")]
<1>1. P \in [DOMAIN calls -> BOOLEAN]
  <2>1. \A j \in DOMAIN calls : calls[j].passed \in BOOLEAN
    BY CallsTyped DEF CallSet
  <2> QED BY <2>1
<1>2. Late(k) = [j \in DOMAIN calls |-> [calls[j] EXCEPT !.passed = P[j]]]
  BY DEF Late
<1>3. \A j \in DOMAIN calls :
         P[j] <=> (calls[j].passed \/ (j < k /\ calls[j].op = "receipt"))
  OBVIOUS
<1> HIDE DEF P
<1>4. Alike(Late(k)) /\ \A j \in DOMAIN calls : Late(k)[j].passed = P[j]
  BY <1>1, <1>2, PassedCalls
<1> QED BY <1>3, <1>4

LEMMA OvertakenCalls ==
  ASSUME WellTyped, NEW k \in Int
  PROVE  /\ Alike(Overtaken(k))
         /\ \A j \in DOMAIN calls :
               Overtaken(k)[j].passed <=> (calls[j].passed \/ (j < k /\ calls[j].op = "list"))
<1> DEFINE P == [j \in DOMAIN calls |-> calls[j].passed \/ (j < k /\ calls[j].op = "list")]
<1>1. P \in [DOMAIN calls -> BOOLEAN]
  <2>1. \A j \in DOMAIN calls : calls[j].passed \in BOOLEAN
    BY CallsTyped DEF CallSet
  <2> QED BY <2>1
<1>2. Overtaken(k) = [j \in DOMAIN calls |-> [calls[j] EXCEPT !.passed = P[j]]]
  BY DEF Overtaken
<1>3. \A j \in DOMAIN calls :
         P[j] <=> (calls[j].passed \/ (j < k /\ calls[j].op = "list"))
  OBVIOUS
<1> HIDE DEF P
<1>4. Alike(Overtaken(k)) /\ \A j \in DOMAIN calls : Overtaken(k)[j].passed = P[j]
  BY <1>1, <1>2, PassedCalls
<1> QED BY <1>3, <1>4

LEMMA CampaignsUserMoves ==
  ASSUME WellTyped, page = "crowdfunding", CampaignsUser
  PROVE  UserMoves
<1>1. /\ page \in MayCreate /\ page \notin {"settings", "receipts", "cards", "internships"}
      /\ page \in Pages("delete") /\ page \in Pages("publish") /\ page \in Pages("pause")
      /\ page \in Pages("donate")
      /\ NewCampaign \in Tags
      /\ \A tag \in Tags : \A s \in {tag.status, "draft"} : EditedCampaign(tag, s) \in Tags
  <2>1. Tags = [status : {"draft", "published", "paused", "funded"},
                raised : 0..MaxGiven, given : 0..MaxGiven]
    BY TagsOf
  <2>2. NewCampaign \in Tags
    BY <2>1 DEF NewCampaign, Campaign, MaxGiven
  <2>3. \A tag \in Tags : \A s \in {tag.status, "draft"} : EditedCampaign(tag, s) \in Tags
    BY <2>1 DEF EditedCampaign
  <2> QED BY <2>2, <2>3 DEF MayCreate, Pages, CrudPageNames
<1>2. ui \in UiSet
  BY DEF WellTyped
<1>3. CASE CampaignsLook
  BY <1>1, <1>3, ViewMoves DEF CampaignsLook
<1>4. CASE CampaignsOpenCreate
  BY <1>1, <1>4, OpenCreateMoves DEF CampaignsOpenCreate
<1>5. CASE CampaignsOpenEdit
  <2>1. PICK r \in Rows : \E s \in {ui.list.rows[r].tag.status, "draft"} :
           OpenEdit(r, EditedCampaign(ui.list.rows[r].tag, s))
    BY <1>5 DEF CampaignsOpenEdit
  <2>2. PICK s \in {ui.list.rows[r].tag.status, "draft"} :
           OpenEdit(r, EditedCampaign(ui.list.rows[r].tag, s))
    BY <2>1
  <2>3. EditedCampaign(ui.list.rows[r].tag, s) \in Tags
    BY <1>1, ListedRow
  <2> QED BY <2>2, <2>3, OpenEditMoves
<1>6. CASE CampaignsClose
  BY <1>6, CloseMoves DEF CampaignsClose
<1>7. CASE SubmitCampaign
  <2>1. ui.form # NoForm /\ ~ui.submitting
    BY <1>7 DEF SubmitCampaign, CampaignsControls, CampaignFormControls, CampaignRowControls,
                CampaignDonationControls
  <2> QED BY <1>7, <2>1, SaveFormMoves, RefuseMoves DEF SubmitCampaign
<1>8. CASE ChangeStatus
  BY <1>1, <1>8, BareActMoves DEF ChangeStatus
<1>9. CASE RemoveCampaign
  BY <1>1, <1>9, BareActMoves DEF RemoveCampaign
<1>10. CASE OpenDonation
  <2>1. PICK r \in Rows : ui' = [ui EXCEPT !.side = r]
    BY <1>10 DEF OpenDonation
  <2>2. /\ ui' \in UiSet /\ ui'.filter = ui.filter /\ ui'.loading = ui.loading
        /\ ui'.submitting = ui.submitting /\ ui'.list = ui.list /\ ui'.error = ui.error
        /\ ui'.form = ui.form
    BY <1>2, <2>1, RowsAreNumbers DEF UiSet
  <2> QED BY <1>10, <2>2, StillMoves DEF OpenDonation
<1>11. CASE CloseDonation
  <2>1. ui' = [ui EXCEPT !.side = NoForm]
    BY <1>11 DEF CloseDonation
  <2>2. /\ ui' \in UiSet /\ ui'.filter = ui.filter /\ ui'.loading = ui.loading
        /\ ui'.submitting = ui.submitting /\ ui'.list = ui.list /\ ui'.error = ui.error
        /\ ui'.form = ui.form
    BY <1>2, <2>1 DEF UiSet
  <2> QED BY <1>11, <2>2, StillMoves DEF CloseDonation
<1>12. CASE SubmitDonation
  <2>1. ui.side # NoForm /\ ~ui.submitting
    BY <1>12 DEF SubmitDonation, CampaignsControls, CampaignFormControls, CampaignRowControls,
                 CampaignDonationControls
  <2>2. ui.side \in 0..MaxRows /\ "donate" \in Ops \ {"list"}
    BY <1>2, <2>1 DEF UiSet, Ops
  <2>3. Consistent(Call("donate", ui.side, NoForm, "save"))
    BY <2>2, NewCall DEF Consistent, JobOf
  <2>4. CASE Submit(Call("donate", ui.side, NoForm, "save"))
    BY <1>1, <2>1, <2>2, <2>3, <2>4, WriteMoves DEF Submit
  <2> QED BY <1>12, <2>4, RefuseMoves DEF SubmitDonation
<1> QED BY <1>3, <1>4, <1>5, <1>6, <1>7, <1>8, <1>9, <1>10, <1>11, <1>12 DEF CampaignsUser

LEMMA FormsAreNotNoForm ==
  ASSUME page \in {"receipts", "cards", "settings"}
  PROVE  NoForm \notin FormSet
<1>1. Tags \subseteq TextTags
  BY TagsOf DEF TextTags, HandWritten
<1> QED BY <1>1, DashboardAssumption DEF FormSet

LEMMA InternsUserMoves ==
  ASSUME WellTyped, page = "internships", InternsUser
  PROVE  UserMoves
<1>1. /\ page \in MayCreate /\ page \notin {"settings", "receipts", "cards"}
      /\ page \in Pages("announce") /\ page \in Pages("activate") /\ page \in Pages("issue")
      /\ NewIntern \in Tags
      /\ Views = [filter : Filters, named : Named \cup {Unnamed}]
  <2>1. NewIntern \in Tags
    BY TagsOf DEF NewIntern, Intern
  <2> QED BY <2>1 DEF MayCreate, Pages, CrudPageNames, Views
<1>2. /\ ui \in UiSet /\ ui.filter \in Views
      /\ ui.filter.filter \in Filters /\ ui.filter.named \in Named \cup {Unnamed}
  BY <1>1 DEF WellTyped, UiSet
<1>3. \A f \in Filters, n \in Named \cup {Unnamed} : InternView(f, n) \in Views
  BY <1>1 DEF InternView
<1>4. ASSUME NEW f \in FormSet, NEW n \in Named \cup {Unnamed}, OpenOn(f, n),
             UNCHANGED <<page, db, staff, untold>>, opened' \in 0..MaxForms,
             \/ f.row \in Rows /\ opened' = opened
             \/ f.row = 0 /\ f.origin = opened + 1 /\ opened' = opened + 1
      PROVE  UserMoves
  <2>1. CASE n = ui.filter.named
    <3>1. ui' = [ui EXCEPT !.form = f] /\ UNCHANGED <<calls, sent>>
      BY <1>4, <2>1 DEF OpenOn
    <3>2. /\ ui' \in UiSet /\ ui'.filter = ui.filter /\ ui'.loading = ui.loading
          /\ ui'.submitting = ui.submitting /\ ui'.list = ui.list /\ ui'.error = ui.error
          /\ ui'.form = f
      BY <1>2, <3>1 DEF UiSet
    <3>3. FormMoves /\ Rests
      BY <1>4, <3>1, <3>2 DEF FormMoves, Rests
    <3> QED BY <1>1, <1>4, <3>1, <3>2, <3>3 DEF UserMoves, WellTyped
  <2>2. CASE n # ui.filter.named
    <3> DEFINE v == InternView(ui.filter.filter, n)
               u == [ui EXCEPT !.form = f, !.readOnly = ~staff]
    <3>1. /\ Room /\ ui' = Loading(Name(u, n))
          /\ calls' = Append(calls, List(v, "view")) /\ sent' = sent + 1
      BY <1>4, <2>2 DEF OpenOn
    <3>2. sent' \in 0..MaxCalls
      BY <3>1, ScreenAssumption DEF Room, WellTyped
    <3>3. /\ u \in UiSet /\ u.filter = ui.filter /\ u.submitting = ui.submitting
          /\ u.list = ui.list /\ u.form = f
      BY <1>2 DEF UiSet, WellTyped
    <3>4. [u.filter EXCEPT !.named = n] = v /\ v \in Views
      BY <1>1, <1>2, <1>3, <3>3 DEF InternView
    <3> HIDE DEF u, v
    <3>5. Name(u, n) = [u EXCEPT !.filter = v]
      BY <3>4 DEF Name
    <3>6. /\ ui' \in UiSet /\ ui'.filter = v /\ ui'.loading
          /\ ui'.submitting = ui.submitting /\ ui'.list = ui.list /\ ui'.form = f
      BY <3>1, <3>3, <3>4, <3>5 DEF Loading, UiSet
    <3>7. FormMoves /\ Asks(v)
      BY <1>1, <1>4, <3>1, <3>4, <3>6 DEF FormMoves, Asks
    <3> QED BY <1>1, <1>4, <3>2, <3>4, <3>6, <3>7 DEF UserMoves
  <2> QED BY <2>1, <2>2
<1>5. CASE InternsLook
  <2>1. CASE Refresh
    BY <1>1, <2>1, RefreshMoves
  <2>2. ASSUME NEW f \in Filters, Look(InternView(f, ui.filter.named))
        PROVE  UserMoves
    BY <1>1, <1>2, <1>3, <2>2, LookMoves
  <2> QED BY <1>5, <2>1, <2>2 DEF InternsLook
<1>6. CASE OpenNewApplication
  <2>1. CASE Refuse
    BY <2>1, RefuseMoves
  <2>2. CASE ~ui.readOnly
    <3>1. /\ opened < MaxForms /\ opened' = opened + 1
          /\ UNCHANGED <<page, db, staff, untold>>
      BY <1>6, <2>2 DEF OpenNewApplication
    <3>2. PICK n \in IF ui.filter.named = Unnamed THEN {Unnamed} ELSE Named :
              OpenOn(Form(0, opened + 1, NewIntern, NewIntern), n)
      BY <1>6, <2>2 DEF OpenNewApplication
    <3>3. n \in Named \cup {Unnamed}
      OBVIOUS
    <3>4. opened' \in 0..MaxForms /\ opened + 1 \in 0..MaxForms
      BY <3>1, ScreenAssumption DEF WellTyped
    <3> DEFINE f == Form(0, opened + 1, NewIntern, NewIntern)
    <3>5. f \in FormSet /\ f.row = 0 /\ f.origin = opened + 1 /\ OpenOn(f, n)
      BY <1>1, <3>2, <3>4, RowsAreNumbers DEF Form, FormSet
    <3> HIDE DEF f
    <3> QED BY <1>4, <3>1, <3>3, <3>4, <3>5
  <2> QED BY <1>6, <2>1, <2>2 DEF OpenNewApplication
<1>7. CASE OpenEditApplication
  <2>1. CASE Refuse
    BY <2>1, RefuseMoves
  <2>2. CASE ~ui.readOnly
    <3>1. PICK r \in Rows :
            /\ \E n \in Named : OpenOn(Form(r, ui.list.rows[r].origin, ui.list.rows[r].tag,
                                            ui.list.rows[r].tag), n)
            /\ UNCHANGED <<page, db, staff, opened, untold>>
      BY <1>7, <2>2 DEF OpenEditApplication
    <3> DEFINE f == Form(r, ui.list.rows[r].origin, ui.list.rows[r].tag, ui.list.rows[r].tag)
    <3>2. f \in FormSet /\ f.row = r
      BY ListedRow, RowsAreNumbers DEF Form, FormSet
    <3> HIDE DEF f
    <3>3. PICK n \in Named : OpenOn(f, n)
      BY <3>1 DEF f
    <3>4. opened' \in 0..MaxForms /\ opened' = opened /\ n \in Named \cup {Unnamed}
      BY <3>1 DEF WellTyped
    <3> QED BY <1>4, <3>1, <3>2, <3>3, <3>4
  <2> QED BY <1>7, <2>1, <2>2 DEF OpenEditApplication
<1>8. CASE InternsClose
  BY <1>8, CloseMoves DEF InternsClose
<1>9. CASE SubmitApplication
  <2>1. ui.form # NoForm /\ ~ui.submitting
    BY <1>9 DEF SubmitApplication, InternsControls, InternFormControls, InternRowControls,
                AnnouncementControls
  <2> QED BY <1>9, <2>1, SaveFormMoves, RefuseMoves DEF SubmitApplication
<1>10. CASE ToggleAnnouncement
  <2>1. ui' = [ui EXCEPT !.side = IF @ = NoForm THEN 0 ELSE NoForm]
    BY <1>10 DEF ToggleAnnouncement
  <2>2. /\ ui' \in UiSet /\ ui'.filter = ui.filter /\ ui'.loading = ui.loading
        /\ ui'.submitting = ui.submitting /\ ui'.list = ui.list /\ ui'.error = ui.error
        /\ ui'.form = ui.form
    BY <1>2, <2>1, RowsAreNumbers DEF UiSet
  <2> QED BY <1>10, <2>2, StillMoves DEF ToggleAnnouncement
<1>11. CASE SubmitAnnouncement
  <2>1. ui.side # NoForm /\ ~ui.submitting
    BY <1>11 DEF SubmitAnnouncement, InternsControls, InternFormControls, InternRowControls,
                 AnnouncementControls
  <2>2. 0 \in 0..MaxRows /\ "announce" \in Ops \ {"list"}
    BY RowsAreNumbers DEF Ops
  <2>3. Consistent(Call("announce", 0, NoForm, "save"))
    BY <2>2, NewCall DEF Consistent, JobOf
  <2>4. CASE Submit(Call("announce", 0, NoForm, "save"))
    BY <1>1, <2>1, <2>2, <2>3, <2>4, WriteMoves DEF Submit
  <2> QED BY <1>11, <2>4, RefuseMoves DEF SubmitAnnouncement
<1>12. CASE MarkStatus
  BY <1>1, <1>12, RefuseMoves, ActMoves DEF MarkStatus
<1>13. CASE IssueCertificate
  BY <1>1, <1>13, RefuseMoves, ActMoves DEF IssueCertificate
<1> QED BY <1>5, <1>6, <1>7, <1>8, <1>9, <1>10, <1>11, <1>12, <1>13 DEF InternsUser

LEMMA ReceiptsUserMoves ==
  ASSUME WellTyped, page = "receipts", ReceiptsUser
  PROVE  UserMoves
<1>1. /\ page \notin MayCreate /\ page \in Pages("receipt")
      /\ Tags = {"pending", "paid", "issued", HandWritten}
  BY TagsOf DEF MayCreate, CrudPageNames, Pages
<1>2. ui \in UiSet
  BY DEF WellTyped
<1>3. CASE SelectDonation
  <2>1. PICK r \in Rows :
          LET tag == ui.list.rows[r].tag
              fields == Form(r, 0, tag, tag)
          IN  IF IsPaid(tag)
              THEN /\ ui' = [ui EXCEPT !.side = r]
                   /\ Send(Call("receipt", r, fields, "act"))
              ELSE /\ ui' = [ui EXCEPT !.side = r, !.form = fields]
                   /\ calls' = Late(Len(calls) + 1)
                   /\ UNCHANGED <<page, db, staff, opened, sent, untold>>
    BY <1>3 DEF SelectDonation
  <2> DEFINE f == Form(r, 0, ui.list.rows[r].tag, ui.list.rows[r].tag)
  <2>2. f \in FormSet
    BY ListedRow, RowsAreNumbers, ScreenAssumption DEF Form, FormSet
  <2>3. \/ ui' = [ui EXCEPT !.side = r] /\ Send(Call("receipt", r, f, "act"))
        \/ /\ ui' = [ui EXCEPT !.side = r, !.form = f]
           /\ calls' = Late(Len(calls) + 1)
           /\ UNCHANGED <<page, db, staff, opened, sent, untold>>
    BY <2>1
  <2> HIDE DEF f
  <2>4. CASE ui' = [ui EXCEPT !.side = r] /\ Send(Call("receipt", r, f, "act"))
    <3> DEFINE c == Call("receipt", r, f, "act")
    <3>1. r \in 0..MaxRows /\ "receipt" \in Ops \ {"list"}
      BY RowsAreNumbers DEF Ops
    <3>2. /\ c \in CallSet
          /\ c.op = "receipt" /\ c.row = r /\ c.body = f /\ c.job = "act"
          /\ c.view = ui.filter /\ c.state = "sent" /\ ~c.passed
      BY <2>2, <3>1, NewCall
    <3>3. Consistent(c)
      BY <2>2, <3>2 DEF Consistent, JobOf
    <3>4. /\ calls' = Append(calls, c) /\ sent' \in 0..MaxCalls
          /\ UNCHANGED <<page, db, staff, opened, untold>>
      BY <2>4, SentCounts
    <3> HIDE DEF c
    <3>5. /\ ui' \in UiSet /\ ui'.filter = ui.filter /\ ui'.loading = ui.loading
          /\ ui'.submitting = ui.submitting /\ ui'.list = ui.list /\ ui'.error = ui.error
          /\ ui.submitting \in BOOLEAN
      BY <1>2, <2>4, RowsAreNumbers DEF UiSet
    <3>6. Writes(c)
      BY <1>1, <3>2, <3>3, <3>4, <3>5 DEF Writes
    <3> QED BY <1>1, <3>2, <3>4, <3>5, <3>6 DEF UserMoves, WellTyped
  <2>5. CASE /\ ui' = [ui EXCEPT !.side = r, !.form = f]
             /\ calls' = Late(Len(calls) + 1)
             /\ UNCHANGED <<page, db, staff, opened, sent, untold>>
    <3>1. /\ ui' \in UiSet /\ ui'.filter = ui.filter /\ ui'.loading = ui.loading
          /\ ui'.submitting = ui.submitting /\ ui'.list = ui.list /\ ui'.error = ui.error
      BY <1>2, <2>2, <2>5, RowsAreNumbers DEF UiSet
    <3> QED BY <1>1, <2>5, <3>1 DEF UserMoves, Rests, WellTyped
  <2> QED BY <2>3, <2>4, <2>5
<1>4. CASE SelectManual
  <2>1. ui' = [ui EXCEPT !.side = NoForm] /\ Still
    BY <1>4 DEF SelectManual
  <2>2. /\ ui' \in UiSet /\ ui'.filter = ui.filter /\ ui'.loading = ui.loading
        /\ ui'.submitting = ui.submitting /\ ui'.list = ui.list /\ ui'.error = ui.error
    BY <1>2, <2>1 DEF UiSet
  <2> QED BY <1>1, <2>1, <2>2, StillMoves
<1>5. CASE UpdateReceipt
  <2> DEFINE f == Form(IF ui.form = NoForm THEN 0 ELSE ui.form.row, 0, "pending", HandWritten)
  <2>1. ui' = [ui EXCEPT !.form = f] /\ Still
    BY <1>5 DEF UpdateReceipt
  <2>2. f \in FormSet
    BY <1>1, <1>2, RowsAreNumbers, ScreenAssumption DEF UiSet, Form, FormSet
  <2> HIDE DEF f
  <2>3. /\ ui' \in UiSet /\ ui'.filter = ui.filter /\ ui'.loading = ui.loading
        /\ ui'.submitting = ui.submitting /\ ui'.list = ui.list /\ ui'.error = ui.error
    BY <1>2, <2>1, <2>2 DEF UiSet
  <2> QED BY <1>1, <2>1, <2>3, StillMoves
<1> QED BY <1>3, <1>4, <1>5 DEF ReceiptsUser

LEMMA TypedCard ==
  ASSUME WellTyped, page = "cards"
  PROVE  Typed(ui.form) \in FormSet
<1>1. "volunteer" \in Tags /\ HandWritten \in Tags
  BY TagsOf
<1>2. ui.form \in {NoForm} \cup FormSet
  BY DEF WellTyped, UiSet
<1> QED BY <1>1, <1>2, RowsAreNumbers, ScreenAssumption DEF Typed, Form, FormSet

LEMMA CardsUserMoves ==
  ASSUME WellTyped, page = "cards", CardsUser
  PROVE  UserMoves
<1>1. page \notin MayCreate
  BY DEF MayCreate, CrudPageNames
<1>2. ui \in UiSet
  BY DEF WellTyped
<1>3. CASE SelectMember
  <2>1. PICK r \in Rows :
          ui' = [ui EXCEPT !.side = r,
                           !.form = Form(r, 0, ui.list.rows[r].tag, ui.list.rows[r].tag)]
    BY <1>3 DEF SelectMember
  <2> DEFINE f == Form(r, 0, ui.list.rows[r].tag, ui.list.rows[r].tag)
  <2>2. f \in FormSet
    BY ListedRow, RowsAreNumbers, ScreenAssumption DEF Form, FormSet
  <2>3. ui' = [ui EXCEPT !.side = r, !.form = f]
    BY <2>1
  <2> HIDE DEF f
  <2>4. /\ ui' \in UiSet /\ ui'.filter = ui.filter /\ ui'.loading = ui.loading
        /\ ui'.submitting = ui.submitting /\ ui'.list = ui.list /\ ui'.error = ui.error
    BY <1>2, <2>2, <2>3, RowsAreNumbers DEF UiSet
  <2> QED BY <1>1, <1>3, <2>4, StillMoves DEF SelectMember
<1>4. CASE SelectManual
  <2>1. ui' = [ui EXCEPT !.side = NoForm] /\ Still
    BY <1>4 DEF SelectManual
  <2>2. /\ ui' \in UiSet /\ ui'.filter = ui.filter /\ ui'.loading = ui.loading
        /\ ui'.submitting = ui.submitting /\ ui'.list = ui.list /\ ui'.error = ui.error
    BY <1>2, <2>1 DEF UiSet
  <2> QED BY <1>1, <2>1, <2>2, StillMoves
<1>5. CASE UpdateCard \/ RefreshId
  <2>1. Still /\ \/ ui' = [ui EXCEPT !.side = NoForm, !.form = Typed(@)]
                 \/ ui' = [ui EXCEPT !.form = Typed(@)]
                 \/ ui' = ui
    BY <1>5 DEF UpdateCard, RefreshId
  <2>2. /\ ui' \in UiSet /\ ui'.filter = ui.filter /\ ui'.loading = ui.loading
        /\ ui'.submitting = ui.submitting /\ ui'.list = ui.list /\ ui'.error = ui.error
    BY <1>2, <2>1, TypedCard DEF UiSet
  <2> QED BY <1>1, <2>1, <2>2, StillMoves
<1> QED BY <1>3, <1>4, <1>5 DEF CardsUser

LEMMA SettingsUserMoves ==
  ASSUME WellTyped, page = "settings", ui.filter = NoFilter, SettingsUser
  PROVE  UserMoves
<1>1. /\ page \notin MayCreate /\ page \in Pages("platform") /\ page \in Pages("user")
      /\ Tags = {"stored", "typed", "fallback", "active", "suspended"}
  BY TagsOf DEF MayCreate, CrudPageNames, Pages
<1>2. ui \in UiSet
  BY DEF WellTyped
<1>3. CASE SettingsRefresh
  BY <1>3, RefreshMoves DEF SettingsRefresh
<1>4. CASE UpdatePlatformField
  <2>1. ui' = [ui EXCEPT !.form.tag = "typed"] /\ ui.form # NoForm /\ Still
    BY <1>4 DEF UpdatePlatformField, SettingsControls
  <2> DEFINE f == [ui.form EXCEPT !.tag = "typed"]
  <2>2. ui' = [ui EXCEPT !.form = f] /\ f \in FormSet
    BY <1>1, <1>2, <2>1 DEF UiSet, FormSet
  <2> HIDE DEF f
  <2>3. /\ ui' \in UiSet /\ ui'.filter = ui.filter /\ ui'.loading = ui.loading
        /\ ui'.submitting = ui.submitting /\ ui'.list = ui.list /\ ui'.error = ui.error
    BY <1>2, <2>2 DEF UiSet
  <2> QED BY <1>1, <2>1, <2>3, StillMoves
<1>5. CASE SavePlatform
  <2>1. /\ ui.form # NoForm /\ ~ui.submitting
        /\ Submit(Call("platform", Platform, ui.form, "save"))
    BY <1>5 DEF SavePlatform, SettingsControls, PlatformControls, ThemeControls, UserControls
  <2>2. /\ ui.form \in FormSet /\ Platform \in 0..MaxRows /\ Platform \in Rows /\ "platform" \in Ops \ {"list"}
    BY <1>2, <2>1, RowsAreNumbers DEF UiSet, Ops, Platform
  <2>3. Consistent(Call("platform", Platform, ui.form, "save"))
    BY <2>1, <2>2, NewCall DEF Consistent, JobOf
  <2> QED BY <1>1, <2>1, <2>2, <2>3, WriteMoves DEF Submit
<1>6. CASE UpdateUser
  <2>1. PICK r \in Rows \ {Platform}, status \in UserMenu :
          /\ ui' = [ui EXCEPT !.error = FALSE]
          /\ Send(Call("user", r, Form(r, 0, ui.list.rows[r].tag, status), "act"))
    BY <1>6 DEF UpdateUser
  <2> DEFINE f == Form(r, 0, ui.list.rows[r].tag, status)
  <2>2. f \in FormSet /\ f # NoForm
    BY <1>1, ListedRow, RowsAreNumbers, ScreenAssumption, FormsAreNotNoForm
       DEF Form, FormSet, UserMenu
  <2>3. Send(Call("user", r, f, "act")) /\ r \in 0..MaxRows /\ "user" \in Ops \ {"list"}
    BY <2>1, RowsAreNumbers DEF Ops
  <2> HIDE DEF f
  <2>4. Consistent(Call("user", r, f, "act"))
    BY <2>2, <2>3, NewCall DEF Consistent, JobOf
  <2> QED BY <1>1, <2>1, <2>2, <2>3, <2>4, WriteMoves
<1> QED BY <1>3, <1>4, <1>5, <1>6 DEF SettingsUser

\* What every page's user does.
LEMMA TheUserMoves ==
  ASSUME WellTyped, page \in {"settings", "receipts", "cards"} => ui.filter = NoFilter, User
  PROVE  UserMoves
BY CrudUserMoves, DonationsUserMoves, ReceiptsUserMoves, CardsUserMoves, CampaignsUserMoves,
   InternsUserMoves, SettingsUserMoves
   DEF User

-----------------------------------------------------------------------------
(***************************************************************************)
(* The kinds of answers                                                    *)
(***************************************************************************)
\* The form is closed, or it stays the form of the same row and origin: as it is,
\* unless the list names the first announcement in it.
FormStays(i) ==
    \/ ui'.form \in {ui.form, NoForm}
    \/ /\ page = "internships" /\ NamesFirst(calls[i])
       /\ ui.form # NoForm /\ ui'.form \in FormSet
       /\ ui'.form.row = ui.form.row /\ ui'.form.origin = ui.form.origin

\* A call ends, and nothing is asked for.  Where rows are created it has failed.
Ends(i) ==
    /\ calls[i].op # "list"
    /\ \/ calls' = RemoveAt(calls, i)
       \/ page \notin MayCreate /\ calls' = RemoveAt(Late(i), i)
       \/ page \notin MayCreate /\ calls' = RemoveAt(Overtaken(Len(calls) + 1), i)
    /\ ui'.filter = ui.filter /\ ui'.loading = ui.loading
    /\ ui'.list.view = ui.list.view
    /\ ui'.submitting = (ui.submitting /\ calls[i].job # "save")
    /\ page \in MayCreate =>
          /\ calls[i].state = "failed" /\ ui'.form = ui.form /\ ui'.list = ui.list
          /\ IF calls[i].job = "bare" THEN ui'.error = ui.error ELSE ui'.error

\* A write ends, and the list is read again.
Reloads(i) ==
    /\ calls[i].op # "list" /\ page \in MayCreate
    /\ calls[i].state = "ok"
    /\ Reload(i)
    /\ ui'.filter = ui.filter /\ ui'.loading /\ ui'.list = ui.list
    /\ ui'.submitting = ui.submitting
    /\ ui'.form \in {ui.form, NoForm} /\ (calls[i].op = "create" => ui'.form = NoForm)

\* The update of a donation is followed by mark-paid.
Pays(i) == page = "donations" /\ ThenMarkPaid(i)

\* A list arrives.
Shows(i) ==
    /\ calls[i].op = "list"
    /\ calls' = RemoveAt(Overtaken(i), i)
    /\ ui'.filter = ui.filter /\ ~ui'.loading
    /\ ui'.submitting = (ui.submitting /\ (page = "settings" \/ calls[i].job # "save"))
    /\ ui'.list.view \in {ui.list.view, calls[i].view}
    /\ page \in MayCreate =>
          /\ ui'.list = IF calls[i].state = "ok" THEN Listed(i) ELSE ui.list
          /\ calls[i].state = "failed" => ui'.error
          /\ ui.error => ui'.error
          /\ FormStays(i)

\* A list arrives and another one is asked for.
ShowsAndAsks(i) ==
    /\ calls[i].op = "list" /\ page = "internships"
    /\ \E v \in Views :
          /\ calls' = Append(RemoveAt(Overtaken(i), i), List(v, "view"))
          /\ ui'.filter = v
    /\ ui'.loading
    /\ ui'.submitting = (ui.submitting /\ calls[i].job # "save")
    /\ FormStays(i)

AnswerMoves(i) ==
    /\ calls[i].state # "sent" /\ Done /\ ui' \in UiSet
    /\ Ends(i) \/ Reloads(i) \/ Pays(i) \/ Shows(i) \/ ShowsAndAsks(i)

LEMMA AnsweredCall ==
  ASSUME WellTyped, CallsAreConsistent, NEW i \in DOMAIN calls
  PROVE  /\ calls[i] \in CallSet /\ calls[i].row \in 0..MaxRows
         /\ calls[i].job \in JobOf(calls[i]) /\ calls[i].job \in Jobs
         /\ calls[i].view \in Views /\ calls[i].passed \in BOOLEAN
         /\ calls[i].op \in Ops /\ calls[i].state \in {"sent", "ok", "failed"}
         /\ calls[i].op = "list" /\ calls[i].state = "ok" => Listed(i) \in ListSet
         /\ page \in Pages(calls[i].op) /\ Consistent(calls[i])
<1>1. calls[i] \in CallSet
  BY CallsTyped
<1>2. /\ calls[i].row \in 0..MaxRows /\ calls[i].view \in Views /\ calls[i].passed \in BOOLEAN
      /\ calls[i].op \in Ops /\ calls[i].state \in {"sent", "ok", "failed"}
      /\ calls[i].job \in Jobs
  BY <1>1 DEF CallSet
<1>3. Consistent(calls[i]) /\ page \in Pages(calls[i].op)
  BY DEF CallsAreConsistent
<1>4. calls[i].op = "list" /\ calls[i].state = "ok" => Listed(i) \in ListSet
  BY <1>2, <1>3 DEF Consistent, Listed, ListSet
<1>5. calls[i].job \in JobOf(calls[i])
  BY <1>3 DEF Consistent
<1> QED BY <1>1, <1>2, <1>3, <1>4, <1>5

LEMMA SaveFailsMoves ==
  ASSUME WellTyped, NEW i \in DOMAIN calls, calls[i].op # "list", calls[i].job = "save",
         SaveFails(i)
  PROVE  AnswerMoves(i)
<1>1. /\ ui' = [ui EXCEPT !.error = TRUE, !.submitting = FALSE]
      /\ calls[i].state = "failed" /\ calls' = RemoveAt(calls, i) /\ Done
  BY DEF SaveFails
<1>2. /\ ui' \in UiSet /\ ui'.filter = ui.filter /\ ui'.loading = ui.loading
      /\ ui'.list = ui.list /\ ui'.form = ui.form /\ ui'.error
      /\ ui'.submitting = FALSE
  BY <1>1 DEF WellTyped, UiSet
<1>3. Ends(i)
  BY <1>1, <1>2 DEF Ends
<1> QED BY <1>1, <1>2, <1>3 DEF AnswerMoves

LEMMA ActFailsMoves ==
  ASSUME WellTyped, NEW i \in DOMAIN calls, calls[i].op # "list", calls[i].job # "save",
         ActFails(i)
  PROVE  AnswerMoves(i)
<1>1. /\ ui' = [ui EXCEPT !.error = IF calls[i].job = "bare" THEN @ ELSE TRUE]
      /\ calls[i].state = "failed" /\ calls' = RemoveAt(calls, i) /\ Done
  BY DEF ActFails
<1>2. ui \in UiSet /\ ui.submitting \in BOOLEAN
  BY DEF WellTyped, UiSet
<1>3. /\ ui' \in UiSet /\ ui'.filter = ui.filter /\ ui'.loading = ui.loading
      /\ ui'.list = ui.list /\ ui'.form = ui.form
      /\ ui'.submitting = ui.submitting
      /\ IF calls[i].job = "bare" THEN ui'.error = ui.error ELSE ui'.error
  BY <1>1, <1>2 DEF UiSet
<1>4. Ends(i)
  BY <1>1, <1>2, <1>3 DEF Ends
<1> QED BY <1>1, <1>3, <1>4 DEF AnswerMoves

\* A success that reads the list again, whatever else of the page it clears.
LEMMA ReloadMoves ==
  ASSUME WellTyped, NEW i \in DOMAIN calls, calls[i].op # "list", page \in MayCreate,
         calls[i].state = "ok", NEW u \in UiSet, ui' = Loading(u), Reload(i), Done,
         u.filter = ui.filter, u.list = ui.list, u.submitting = ui.submitting,
         u.form \in {ui.form, NoForm}, calls[i].op = "create" => u.form = NoForm
  PROVE  AnswerMoves(i)
<1>1. /\ ui' \in UiSet /\ ui'.filter = u.filter /\ ui'.loading
      /\ ui'.list = u.list /\ ui'.form = u.form /\ ui'.submitting = u.submitting
  BY DEF Loading, UiSet
<1>2. Reloads(i)
  BY <1>1 DEF Reloads
<1> QED BY <1>1, <1>2 DEF AnswerMoves

LEMMA SaveSucceedsMoves ==
  ASSUME WellTyped, NEW i \in DOMAIN calls, calls[i].op # "list", page \in MayCreate,
         SaveSucceeds(i)
  PROVE  AnswerMoves(i)
<1> DEFINE u == [ui EXCEPT !.form = NoForm]
<1>1. /\ u \in UiSet /\ u.filter = ui.filter /\ u.list = ui.list
      /\ u.submitting = ui.submitting /\ u.form = NoForm
  BY DEF WellTyped, UiSet
<1>2. ui' = Loading(u) /\ Reload(i) /\ Done /\ calls[i].state = "ok"
  BY DEF SaveSucceeds
<1> QED BY <1>1, <1>2, ReloadMoves

LEMMA ActSucceedsMoves ==
  ASSUME WellTyped, NEW i \in DOMAIN calls, calls[i].op \notin {"list", "create"},
         page \in MayCreate, ActSucceeds(i)
  PROVE  AnswerMoves(i)
<1>1. ui \in UiSet /\ ui' = Loading(ui) /\ Reload(i) /\ Done /\ calls[i].state = "ok"
  BY DEF ActSucceeds, WellTyped
<1> QED BY <1>1, ReloadMoves

LEMMA ShownList ==
  ASSUME WellTyped, CallsAreConsistent, NEW i \in DOMAIN calls, calls[i].op = "list"
  PROVE  LET u == ListShown(i)
         IN  /\ u \in UiSet /\ u.filter = ui.filter /\ ~u.loading /\ u.form = ui.form
             /\ u.submitting = (ui.submitting /\ calls[i].job # "save")
             /\ u.error = (ui.error \/ calls[i].state = "failed")
             /\ u.list = IF calls[i].state = "ok" THEN Listed(i) ELSE ui.list
             /\ u.list.view \in {ui.list.view, calls[i].view}
<1> DEFINE l == IF calls[i].state = "ok" THEN Listed(i) ELSE ui.list
           e == ui.error \/ calls[i].state = "failed"
           b == ui.submitting /\ calls[i].job # "save"
<1>1. ui \in UiSet /\ ui.list \in ListSet
  BY DEF WellTyped, UiSet
<1>2. l \in ListSet /\ l.view \in {ui.list.view, calls[i].view}
  BY <1>1, AnsweredCall DEF Listed
<1>3. e \in BOOLEAN /\ b \in BOOLEAN
  BY <1>1 DEF UiSet
<1>4. ListShown(i) = [ui EXCEPT !.list = l, !.error = e, !.loading = FALSE, !.submitting = b]
  BY DEF ListShown
<1> HIDE DEF l, e, b
<1>5. LET u == ListShown(i)
      IN  /\ u \in UiSet /\ u.filter = ui.filter /\ ~u.loading /\ u.form = ui.form
          /\ u.submitting = b /\ u.error = e /\ u.list = l
  BY <1>1, <1>2, <1>3, <1>4 DEF UiSet
<1> QED BY <1>2, <1>5 DEF l, e, b

LEMMA ListMoves ==
  ASSUME WellTyped, CallsAreConsistent, NEW i \in DOMAIN calls, ListArrives(i),
         page # "settings"
  PROVE  AnswerMoves(i)
<1>1. /\ calls[i].op = "list" /\ calls[i].state # "sent" /\ Done
      /\ ui' = ListShown(i) /\ calls' = RemoveAt(Overtaken(i), i)
  BY DEF ListArrives, Answered
<1>2. Shows(i)
  BY <1>1, ShownList DEF Shows, FormStays
<1> QED BY <1>1, <1>2, ShownList DEF AnswerMoves

LEMMA CrudAnswerMoves ==
  ASSUME WellTyped, CallsAreConsistent, page \in CrudPageNames, NEW i \in DOMAIN calls,
         CrudAnswer(i)
  PROVE  AnswerMoves(i)
<1>1. page \in MayCreate
  BY DEF MayCreate
<1>2. calls[i].op = "delete" => calls[i].job # "save"
  BY AnsweredCall DEF JobOf
<1> QED BY <1>1, <1>2, SaveSucceedsMoves, SaveFailsMoves, ActSucceedsMoves, ActFailsMoves
        DEF CrudAnswer

LEMMA DonationsAnswerMoves ==
  ASSUME WellTyped, CallsAreConsistent, page = "donations", NEW i \in DOMAIN calls,
         DonationsAnswer(i)
  PROVE  AnswerMoves(i)
<1>1. page \in MayCreate
  BY DEF MayCreate
<1>2. ui \in UiSet
  BY DEF WellTyped
<1>3. CASE DonationsSaveEnds(i)
  <2>1. CASE ThenMarkPaid(i)
    BY <1>2, <2>1 DEF AnswerMoves, Pays, ThenMarkPaid
  <2> QED BY <1>1, <1>3, <2>1, SaveSucceedsMoves, SaveFailsMoves DEF DonationsSaveEnds
<1>4. CASE ReceiptArrives(i)
  <2> DEFINE u == [ui EXCEPT !.shown = calls[i].row, !.form = NoForm]
  <2>1. /\ calls[i].op = "receipt" /\ calls[i].state = "ok"
        /\ ui' = Loading(u) /\ Reload(i) /\ Done
    BY <1>4 DEF ReceiptArrives
  <2>2. /\ u \in UiSet /\ u.filter = ui.filter /\ u.list = ui.list
        /\ u.submitting = ui.submitting /\ u.form = NoForm
    BY <1>2, AnsweredCall DEF UiSet
  <2> QED BY <1>1, <2>1, <2>2, ReloadMoves
<1> QED BY <1>1, <1>3, <1>4, ActSucceedsMoves, ActFailsMoves DEF DonationsAnswer

LEMMA ReceiptsAnswerMoves ==
  ASSUME WellTyped, CallsAreConsistent, page = "receipts", NEW i \in DOMAIN calls,
         ReceiptIssued(i)
  PROVE  AnswerMoves(i)
<1>1. page \notin MayCreate
  BY DEF MayCreate, CrudPageNames
<1>2. /\ calls[i].op = "receipt" /\ calls[i].state # "sent" /\ Done
      /\ ui' = [ui EXCEPT !.form = Filled(calls[i])] /\ calls' = RemoveAt(Late(i), i)
  BY DEF ReceiptIssued, Answered
<1>3. Filled(calls[i]) \in FormSet
  <2>1. calls[i].body \in FormSet
    BY <1>2, AnsweredCall DEF Consistent
  <2>2. 0 \in 0..MaxForms /\ 1 \in 0..MaxForms
    BY ScreenAssumption
  <2> QED BY <2>1, <2>2 DEF Filled, FormSet
<1>4. /\ ui' \in UiSet /\ ui'.filter = ui.filter /\ ui'.loading = ui.loading
      /\ ui'.list = ui.list /\ ui'.submitting = ui.submitting /\ ui.submitting \in BOOLEAN
  BY <1>2, <1>3 DEF WellTyped, UiSet
<1>5. calls[i].job # "save"
  BY <1>2, AnsweredCall DEF JobOf
<1>6. Ends(i)
  BY <1>1, <1>2, <1>4, <1>5 DEF Ends
<1> QED BY <1>2, <1>4, <1>6 DEF AnswerMoves

LEMMA CampaignsAnswerMoves ==
  ASSUME WellTyped, CallsAreConsistent, page = "crowdfunding", NEW i \in DOMAIN calls,
         CampaignsAnswer(i)
  PROVE  AnswerMoves(i)
<1>1. page \in MayCreate /\ calls[i].op # "list"
  BY DEF MayCreate, CampaignsAnswer
<1>2. ui \in UiSet
  BY DEF WellTyped
<1>3. CASE DonationRecorded(i)
  <2> DEFINE u == [ui EXCEPT !.side = NoForm]
  <2>1. /\ calls[i].op = "donate" /\ calls[i].state = "ok"
        /\ ui' = Loading(u) /\ Reload(i) /\ Done
    BY <1>3 DEF DonationRecorded
  <2>2. /\ u \in UiSet /\ u.filter = ui.filter /\ u.list = ui.list
        /\ u.submitting = ui.submitting /\ u.form = ui.form
    BY <1>2 DEF UiSet
  <2> QED BY <1>1, <2>1, <2>2, ReloadMoves
<1>4. calls[i].job = "bare" => calls[i].op # "create"
  BY AnsweredCall DEF JobOf
<1> QED BY <1>1, <1>3, <1>4, SaveSucceedsMoves, SaveFailsMoves, ActSucceedsMoves, ActFailsMoves
        DEF CampaignsAnswer

LEMMA SettingsAnswerMoves ==
  ASSUME WellTyped, CallsAreConsistent, page = "settings", NEW i \in DOMAIN calls,
         SettingsAnswer(i)
  PROVE  AnswerMoves(i)
<1>1. /\ page \notin MayCreate
      /\ Tags = {"stored", "typed", "fallback", "active", "suspended"}
  BY TagsOf DEF MayCreate, CrudPageNames
<1>2. /\ ui \in UiSet /\ ui.list \in ListSet /\ ui.submitting \in BOOLEAN
      /\ ui.list.rows \in TableSet
  BY DEF WellTyped, UiSet, ListSet
<1>3. calls[i].state # "sent"
  BY DEF SettingsAnswer, Answered
<1>4. \A rows \in TableSet : PlatformForm(rows) \in FormSet
  <2>1. Platform \in Rows /\ Platform \in 0..MaxRows /\ 0 \in 0..MaxForms
    BY RowsAreNumbers, ScreenAssumption DEF Platform
  <2> QED BY <2>1 DEF PlatformForm, Form, FormSet, TableSet, RowSet
<1>5. CASE SettingsArrive(i)
  <2>1. /\ calls[i].op = "list" /\ calls' = RemoveAt(Overtaken(i), i) /\ Done
        /\ ui' = [LoadedSettings(i) EXCEPT !.loading = FALSE]
    BY <1>5 DEF SettingsArrive
  <2>2. /\ LoadedSettings(i) \in UiSet
        /\ LoadedSettings(i).filter = ui.filter
        /\ LoadedSettings(i).submitting = ui.submitting
        /\ LoadedSettings(i).list.view \in {ui.list.view, calls[i].view}
    <3>1. CASE calls[i].state = "ok"
      <4>1. /\ Listed(i) \in ListSet /\ PlatformForm(calls[i].got) \in FormSet
            /\ Listed(i).view = calls[i].view
        BY <1>4, <2>1, <3>1, AnsweredCall DEF Consistent, Listed
      <4>2. LoadedSettings(i) = [ui EXCEPT !.list = Listed(i), !.form = PlatformForm(calls[i].got)]
        BY <3>1 DEF LoadedSettings
      <4> QED BY <1>2, <4>1, <4>2 DEF UiSet
    <3>2. CASE calls[i].state # "ok"
      <4>1. FallbackRows \in TableSet
        <5>1. \A r \in Rows : FallbackRows[r] \in RowSet
          BY <1>1, ScreenAssumption DEF FallbackRows, Row, RowSet
        <5> QED BY <5>1 DEF FallbackRows, TableSet
      <4> DEFINE l == [ui.list EXCEPT !.rows = FallbackRows]
      <4>2. l \in ListSet /\ l.view = ui.list.view
        BY <1>2, <4>1 DEF ListSet
      <4>3. PlatformForm(FallbackRows) \in FormSet
        BY <1>4, <4>1
      <4>4. LoadedSettings(i) = [ui EXCEPT !.list = l, !.form = PlatformForm(FallbackRows),
                                           !.error = TRUE]
        BY <3>2 DEF LoadedSettings
      <4> HIDE DEF l
      <4> QED BY <1>2, <4>2, <4>3, <4>4 DEF UiSet
    <3> QED BY <3>1, <3>2
  <2>3. /\ ui' \in UiSet /\ ui'.filter = ui.filter /\ ~ui'.loading
        /\ ui'.submitting = ui.submitting
        /\ ui'.list.view \in {ui.list.view, calls[i].view}
    BY <2>1, <2>2 DEF UiSet
  <2>4. Shows(i)
    BY <1>1, <1>2, <2>1, <2>3 DEF Shows
  <2> QED BY <1>3, <2>1, <2>3, <2>4 DEF AnswerMoves
<1>6. CASE PlatformSaved(i)
  <2> DEFINE tag == calls[i].body.tag
             l == [ui.list EXCEPT !.rows[Platform].tag = tag]
             f == Form(Platform, 0, tag, tag)
  <2>1. /\ calls[i].op = "platform" /\ Done
        /\ calls' = RemoveAt(Overtaken(Len(calls) + 1), i)
        /\ ui' = [ui EXCEPT !.form = f, !.list = l, !.submitting = FALSE]
    BY <1>6 DEF PlatformSaved
  <2>2. tag \in Tags /\ calls[i].job = "save"
    BY <2>1, AnsweredCall DEF Consistent, FormSet, JobOf
  <2>3. Platform \in Rows /\ Platform \in 0..MaxRows /\ 0 \in 0..MaxForms
    BY RowsAreNumbers, ScreenAssumption DEF Platform
  <2>4. f \in FormSet
    BY <2>2, <2>3 DEF Form, FormSet
  <2>5. l \in ListSet /\ l.view = ui.list.view
    <3>1. [ui.list.rows EXCEPT ![Platform].tag = tag] \in TableSet
      BY <1>2, <2>2, <2>3 DEF TableSet, RowSet
    <3>2. l = [ui.list EXCEPT !.rows = [ui.list.rows EXCEPT ![Platform].tag = tag]]
      OBVIOUS
    <3> QED BY <1>2, <3>1, <3>2 DEF ListSet
  <2> HIDE DEF f, l
  <2>6. /\ ui' \in UiSet /\ ui'.filter = ui.filter /\ ui'.loading = ui.loading
        /\ ui'.submitting = FALSE /\ ui'.list = l
    BY <1>2, <2>1, <2>4, <2>5 DEF UiSet
  <2>7. Ends(i)
    BY <1>1, <2>1, <2>2, <2>5, <2>6 DEF Ends
  <2> QED BY <1>3, <2>1, <2>6, <2>7 DEF AnswerMoves
<1>7. CASE UserUpdated(i)
  <2> DEFINE tag == calls[i].body.tag
             r == calls[i].row
             l == [ui.list EXCEPT !.rows[r].tag = tag]
  <2>1. /\ calls[i].op = "user" /\ Done
        /\ calls' = RemoveAt(Overtaken(Len(calls) + 1), i)
        /\ ui' = ui \/ ui' = [ui EXCEPT !.list = l]
    BY <1>7 DEF UserUpdated
  <2>2. tag \in Tags /\ calls[i].job # "save"
    BY <2>1, AnsweredCall DEF Consistent, FormSet, JobOf
  <2>3. l \in ListSet /\ l.view = ui.list.view
    <3>1. [ui.list.rows EXCEPT ![r].tag = tag] \in TableSet
      <4>1. CASE r \in Rows
        BY <1>2, <2>2, <4>1 DEF TableSet, RowSet
      <4>2. CASE r \notin Rows
        BY <1>2, <4>2 DEF TableSet
      <4> QED BY <4>1, <4>2
    <3>2. l = [ui.list EXCEPT !.rows = [ui.list.rows EXCEPT ![r].tag = tag]]
      OBVIOUS
    <3> QED BY <1>2, <3>1, <3>2 DEF ListSet
  <2> HIDE DEF l
  <2>4. /\ ui' \in UiSet /\ ui'.filter = ui.filter /\ ui'.loading = ui.loading
        /\ ui'.submitting = ui.submitting /\ ui'.list.view = ui.list.view
    BY <1>2, <2>1, <2>3 DEF UiSet
  <2>5. Ends(i)
    BY <1>1, <1>2, <2>1, <2>2, <2>4 DEF Ends
  <2> QED BY <1>3, <2>1, <2>4, <2>5 DEF AnswerMoves
<1>8. calls[i].op = "user" => calls[i].job # "save"
  BY AnsweredCall DEF JobOf
<1>9. calls[i].op = "platform" => calls[i].job = "save"
  BY AnsweredCall DEF JobOf
<1> QED BY <1>5, <1>6, <1>7, <1>8, <1>9, SaveFailsMoves, ActFailsMoves DEF SettingsAnswer

LEMMA NamedView ==
  ASSUME page = "internships", NEW u \in UiSet, NEW n \in Named
  PROVE  /\ Name(u, n) = [u EXCEPT !.filter = InternView(u.filter.filter, n)]
         /\ InternView(u.filter.filter, n) \in Views
         /\ u.filter.named = n => u.filter = InternView(u.filter.filter, n)
<1>1. /\ u.filter \in [filter : Filters, named : Named \cup {Unnamed}]
      /\ Views = [filter : Filters, named : Named \cup {Unnamed}]
  BY DEF UiSet, Views
<1>2. [u.filter EXCEPT !.named = n] = InternView(u.filter.filter, n)
  BY <1>1 DEF InternView
<1>3. u.filter.named = n => u.filter = InternView(u.filter.filter, n)
  BY <1>1 DEF InternView
<1>4. InternView(u.filter.filter, n) \in Views
  BY <1>1 DEF InternView
<1>5. Name(u, n) = [u EXCEPT !.filter = [u.filter EXCEPT !.named = n]]
  BY DEF Name
<1> QED BY <1>2, <1>3, <1>4, <1>5

LEMMA FirstTrack ==
  ASSUME page = "internships", NEW f \in {NoForm} \cup FormSet
  PROVE  /\ WithFirstTrack(f) \in {NoForm} \cup FormSet
         /\ f = NoForm => WithFirstTrack(f) = NoForm
         /\ f # NoForm => /\ WithFirstTrack(f) \in FormSet
                          /\ WithFirstTrack(f).row = f.row
                          /\ WithFirstTrack(f).origin = f.origin
<1>1. CASE f = NoForm
  BY <1>1 DEF WithFirstTrack
<1>2. CASE f # NoForm
  <2>1. /\ WithFirstTrack(f) = [f EXCEPT !.tag = [f.tag EXCEPT !.track = "announced"]]
        /\ f \in FormSet
    BY <1>2 DEF WithFirstTrack
  <2>2. [f.tag EXCEPT !.track = "announced"] \in Tags
    <3>1. f.tag \in [status : {"registered", "active", "completed"},
                     certified : BOOLEAN, track : {"own", "announced"}]
      BY <2>1, TagsOf DEF FormSet
    <3>2. [f.tag EXCEPT !.track = "announced"] \in
             [status : {"registered", "active", "completed"},
              certified : BOOLEAN, track : {"own", "announced"}]
      BY <3>1
    <3> QED BY <3>2, TagsOf
  <2> QED BY <1>2, <2>1, <2>2 DEF FormSet
<1> QED BY <1>1, <1>2

LEMMA InternsAnswerMoves ==
  ASSUME WellTyped, CallsAreConsistent, page = "internships", NEW i \in DOMAIN calls,
         InternsAnswer(i)
  PROVE  AnswerMoves(i)
<1>1. page \in MayCreate
  BY DEF MayCreate
<1>2. ui \in UiSet
  BY DEF WellTyped
<1>3. CASE InternsListArrives(i)
  <2> DEFINE rest == RemoveAt(Overtaken(i), i)
             shown == ListShown(i)
             u == [shown EXCEPT !.form = WithFirstTrack(@)]
             named == Name(u, "this")
  <2>1. /\ calls[i].op = "list" /\ calls[i].state # "sent" /\ Done
        /\ \/ ui' = shown /\ calls' = rest
           \/ /\ NamesFirst(calls[i])
              /\ ui.filter.named = "this" /\ ui' = named /\ calls' = rest
           \/ /\ NamesFirst(calls[i])
              /\ ui' = Loading([named EXCEPT !.readOnly = ~staff])
              /\ calls' = Append(rest, List(InternView(ui.filter.filter, "this"), "view"))
    BY <1>3 DEF InternsListArrives, Answered
  <2>2. /\ shown \in UiSet /\ shown.filter = ui.filter /\ ~shown.loading /\ shown.form = ui.form
        /\ shown.submitting = (ui.submitting /\ calls[i].job # "save")
        /\ shown.error = (ui.error \/ calls[i].state = "failed")
        /\ shown.list = IF calls[i].state = "ok" THEN Listed(i) ELSE ui.list
        /\ shown.list.view \in {ui.list.view, calls[i].view}
    BY <2>1, ShownList
  <2> HIDE DEF shown
  <2> DEFINE f == WithFirstTrack(ui.form)
  <2>3. /\ f \in {NoForm} \cup FormSet
        /\ ui.form = NoForm => f = NoForm
        /\ ui.form # NoForm =>
              f \in FormSet /\ f.row = ui.form.row /\ f.origin = ui.form.origin
    BY <1>2, FirstTrack DEF UiSet
  <2>4. u = [shown EXCEPT !.form = f]
    BY <2>2
  <2> HIDE DEF f
  <2>5. /\ u \in UiSet /\ u.filter = ui.filter /\ u.loading = shown.loading /\ u.form = f
        /\ u.submitting = shown.submitting /\ u.error = shown.error /\ u.list = shown.list
    BY <2>2, <2>3, <2>4 DEF UiSet
  <2> HIDE DEF u
  <2> DEFINE v == InternView(ui.filter.filter, "this")
  <2>6. /\ named = [u EXCEPT !.filter = v] /\ v \in Views
        /\ ui.filter.named = "this" => ui.filter = v
    BY <2>5, NamedView DEF Named
  <2> HIDE DEF v
  <2>7. /\ named \in UiSet /\ named.filter = v /\ named.loading = shown.loading /\ named.form = f
        /\ named.submitting = shown.submitting /\ named.error = shown.error
        /\ named.list = shown.list
    BY <2>5, <2>6 DEF UiSet
  <2> HIDE DEF named
  <2>8. CASE ui' = shown /\ calls' = rest
    <3>1. Shows(i)
      BY <1>1, <2>1, <2>2, <2>8 DEF Shows, FormStays
    <3> QED BY <2>1, <2>2, <2>8, <3>1 DEF AnswerMoves
  <2>9. CASE NamesFirst(calls[i]) /\ ui.filter.named = "this" /\ ui' = named /\ calls' = rest
    <3>1. Shows(i)
      BY <1>1, <2>1, <2>2, <2>3, <2>6, <2>7, <2>9 DEF Shows, FormStays
    <3> QED BY <2>1, <2>7, <2>9, <3>1 DEF AnswerMoves
  <2>10. CASE /\ NamesFirst(calls[i])
              /\ ui' = Loading([named EXCEPT !.readOnly = ~staff])
              /\ calls' = Append(rest, List(v, "view"))
    <3>1. /\ ui' \in UiSet /\ ui'.filter = v /\ ui'.loading /\ ui'.form = f
          /\ ui'.submitting = shown.submitting
      BY <2>7, <2>10 DEF UiSet, Loading, WellTyped
    <3>2. ShowsAndAsks(i)
      BY <2>1, <2>2, <2>3, <2>6, <2>10, <3>1 DEF ShowsAndAsks, FormStays
    <3> QED BY <2>1, <3>1, <3>2 DEF AnswerMoves
  <2> QED BY <2>1, <2>8, <2>9, <2>10 DEF v
<1>4. CASE Announced(i) /\ calls[i].op # "list"
  <2> DEFINE u == [ui EXCEPT !.side = NoForm]
  <2>1. /\ calls[i].op = "announce" /\ calls[i].state = "ok"
        /\ ui' = Loading(u) /\ Reload(i) /\ Done
    BY <1>4 DEF Announced
  <2>2. /\ u \in UiSet /\ u.filter = ui.filter /\ u.list = ui.list
        /\ u.submitting = ui.submitting /\ u.form = ui.form
    BY <1>2 DEF UiSet
  <2> QED BY <1>1, <2>1, <2>2, ReloadMoves
<1>5. CASE CertificateArrives(i) /\ calls[i].op # "list"
  <2> DEFINE u == [ui EXCEPT !.shown = calls[i].row]
  <2>1. /\ calls[i].op = "issue" /\ calls[i].state = "ok"
        /\ ui' = Loading(u) /\ Reload(i) /\ Done
    BY <1>5 DEF CertificateArrives
  <2>2. /\ u \in UiSet /\ u.filter = ui.filter /\ u.list = ui.list
        /\ u.submitting = ui.submitting /\ u.form = ui.form
    BY <1>2, AnsweredCall DEF UiSet
  <2> QED BY <1>1, <2>1, <2>2, ReloadMoves
<1> QED BY <1>1, <1>3, <1>4, <1>5, SaveSucceedsMoves, SaveFailsMoves, ActSucceedsMoves,
           ActFailsMoves
        DEF InternsAnswer

\* What every page does with an answer.
LEMMA TheAnswerMoves ==
  ASSUME WellTyped, CallsAreConsistent, NEW i \in DOMAIN calls, ShowAnswer(i)
  PROVE  AnswerMoves(i)
BY ListMoves, CrudAnswerMoves, DonationsAnswerMoves, ReceiptsAnswerMoves, CampaignsAnswerMoves,
   InternsAnswerMoves, SettingsAnswerMoves
   DEF ShowAnswer

-----------------------------------------------------------------------------
(* The backend *)

LEMMA NextIdIsAbsent ==
  ASSUME Absent(db) # {}
  PROVE  NextId \in Absent(db)
<1>1. Absent(db) \subseteq Nat
  BY DEF Absent, Rows
<1>2. \E n \in Absent(db) : \A m \in Absent(db) : ~(<<m, n>> \in OpToRel(<, Nat))
  BY <1>1, WFMin, NatLessThanWellFounded
<1>3. PICK n \in Absent(db) : \A m \in Absent(db) : ~(<<m, n>> \in OpToRel(<, Nat))
  BY <1>2
<1>4. ASSUME NEW m \in Absent(db)
      PROVE  n <= m
  <2>1. m \in Nat /\ n \in Nat
    BY <1>1
  <2>2. ~(m < n)
    BY <1>3, <2>1 DEF OpToRel
  <2> QED BY <2>1, <2>2
<1> QED BY <1>3, <1>4 DEF NextId

\* A write is executed: it makes a row, or it changes rows that are there.
Wrote(i) ==
    /\ calls[i].op # "list"
    /\ \/ calls'[i].state = "ok" /\ untold' = untold
       \/ calls'[i].state = "failed" /\ untold'
    /\ \/ /\ calls[i].op # "create"
          /\ \A r \in Rows : db'[r].origin = db[r].origin
       \/ /\ calls[i].op = "create"
          /\ \E n \in Absent(db) :
                db' = [db EXCEPT ![n] =
                          Row("live", calls[i].body.origin, calls[i].body.tag)]

Read(i) ==
    /\ calls[i].op = "list"
    /\ calls'[i].state = "ok" /\ calls'[i].got = db /\ db' = db /\ untold' = untold

Turned(i) ==
    /\ calls'[i].state = "failed" /\ db' = db /\ untold' = untold

ServeMoves(i) ==
    /\ UNCHANGED <<page, ui, staff, opened, sent>>
    /\ calls[i].state = "sent"
    /\ db' \in TableSet
    /\ \E state \in {"ok", "failed"}, got \in {<<>>, <<"frozen">>} \cup TableSet :
          calls' = [calls EXCEPT ![i].state = state, ![i].got = got]
    /\ Wrote(i) \/ Read(i) \/ Turned(i)

OthersMove ==
    /\ UNCHANGED <<page, ui, calls, staff, opened, sent>>
    /\ untold' = TRUE
    /\ db' \in TableSet
    /\ \A r \in Rows : db'[r].origin = db[r].origin

LEMMA SettledCall ==
  ASSUME WellTyped, NEW i \in DOMAIN calls, NEW state, NEW got,
         calls' = [calls EXCEPT ![i].state = state, ![i].got = got]
  PROVE  /\ DOMAIN calls' = DOMAIN calls
         /\ calls'[i] = [calls[i] EXCEPT !.state = state, !.got = got]
         /\ calls'[i].state = state /\ calls'[i].got = got
         /\ \A j \in DOMAIN calls : j # i => calls'[j] = calls[j]
<1>1. calls[i] \in CallSet
  BY CallsTyped
<1>2. calls'[i] = [calls[i] EXCEPT !.state = state, !.got = got]
  OBVIOUS
<1>3. calls'[i].state = state /\ calls'[i].got = got
  BY <1>1, <1>2 DEF CallSet
<1> QED BY <1>2, <1>3

\* A write of which only the effect on the table is still to be looked at.
LEMMA WriteServed ==
  ASSUME WellTyped, NEW i \in DOMAIN calls, calls[i].state = "sent", calls[i].op # "list",
         NEW effect \in TableSet, ServeWrite(i, effect),
         \/ calls[i].op # "create" /\ \A r \in Rows : effect[r].origin = db[r].origin
         \/ /\ calls[i].op = "create"
            /\ \E n \in Absent(db) :
                  effect = [db EXCEPT ![n] =
                               Row("live", calls[i].body.origin, calls[i].body.tag)]
  PROVE  ServeMoves(i)
<1>1. PICK state \in {"ok", "failed"} : Settle(i, state, <<>>, effect, state = "failed")
  BY DEF ServeWrite
<1>2. /\ calls' = [calls EXCEPT ![i].state = state, ![i].got = <<>>]
      /\ db' = effect /\ UNCHANGED <<page, ui, staff, opened, sent>>
      /\ untold' = (untold \/ state = "failed")
  BY <1>1 DEF Settle
<1>3. calls'[i].state = state
  BY <1>2, SettledCall
<1>4. state = "ok" => untold' = untold
  BY <1>2 DEF WellTyped
<1>5. Wrote(i)
  BY <1>2, <1>3, <1>4 DEF Wrote
<1> QED BY <1>2, <1>5 DEF ServeMoves

LEMMA ListServed ==
  ASSUME WellTyped, NEW i \in DOMAIN calls, ServeList(i)
  PROVE  ServeMoves(i)
<1>1. /\ calls[i].state = "sent" /\ calls[i].op = "list"
      /\ calls' = [calls EXCEPT ![i].state = "ok", ![i].got = db]
      /\ db' = db /\ UNCHANGED <<page, ui, staff, opened, sent>>
      /\ untold' = (untold \/ FALSE)
  BY DEF ServeList, Served, Settle
<1>2. calls'[i].state = "ok" /\ calls'[i].got = db /\ db \in TableSet /\ untold' = untold
  BY <1>1, SettledCall DEF WellTyped
<1>3. Read(i)
  BY <1>1, <1>2 DEF Read
<1> QED BY <1>1, <1>2, <1>3 DEF ServeMoves

LEMMA CallTurned ==
  ASSUME WellTyped, NEW i \in DOMAIN calls, calls[i].state = "sent",
         NEW got \in {<<>>, <<"frozen">>}, Settle(i, "failed", got, db, FALSE)
  PROVE  ServeMoves(i)
<1>1. /\ calls' = [calls EXCEPT ![i].state = "failed", ![i].got = got]
      /\ db' = db /\ UNCHANGED <<page, ui, staff, opened, sent>>
      /\ untold' = (untold \/ FALSE)
  BY DEF Settle
<1>2. calls'[i].state = "failed" /\ db \in TableSet /\ untold' = untold
  BY <1>1, SettledCall DEF WellTyped
<1>3. Turned(i)
  BY <1>1, <1>2 DEF Turned
<1> QED BY <1>1, <1>2, <1>3 DEF ServeMoves

LEMMA TaggedTable ==
  ASSUME WellTyped, NEW r \in Rows, NEW tag \in Tags
  PROVE  /\ Tagged(r, tag) \in TableSet
         /\ \A s \in Rows : Tagged(r, tag)[s].origin = db[s].origin /\ Tagged(r, tag)[s].is = db[s].is
         /\ \A s \in Rows : Tagged(r, tag)[s].tag = IF s = r THEN tag ELSE db[s].tag
<1>1. db \in [Rows -> RowSet]
  BY DEF WellTyped, TableSet
<1>2. [db[r] EXCEPT !.tag = tag] \in RowSet
  BY <1>1 DEF RowSet
<1>3. Tagged(r, tag) = [db EXCEPT ![r] = [db[r] EXCEPT !.tag = tag]]
  BY DEF Tagged
<1>4. /\ [db[r] EXCEPT !.tag = tag].origin = db[r].origin
      /\ [db[r] EXCEPT !.tag = tag].is = db[r].is
      /\ [db[r] EXCEPT !.tag = tag].tag = tag
  BY <1>1 DEF RowSet
<1> QED BY <1>1, <1>2, <1>3, <1>4 DEF TableSet

LEMMA GoneTable ==
  ASSUME WellTyped, NEW r \in Rows
  PROVE  LET d == [db EXCEPT ![r].is = "gone"]
         IN  /\ d \in TableSet
             /\ \A s \in Rows : d[s].origin = db[s].origin /\ d[s].tag = db[s].tag
             /\ \A s \in Rows : d[s].is = IF s = r THEN "gone" ELSE db[s].is
<1>1. db \in [Rows -> RowSet]
  BY DEF WellTyped, TableSet
<1>2. [db[r] EXCEPT !.is = "gone"] \in RowSet
  BY <1>1 DEF RowSet
<1>3. [db EXCEPT ![r].is = "gone"] = [db EXCEPT ![r] = [db[r] EXCEPT !.is = "gone"]]
  OBVIOUS
<1>4. /\ [db[r] EXCEPT !.is = "gone"].origin = db[r].origin
      /\ [db[r] EXCEPT !.is = "gone"].is = "gone"
      /\ [db[r] EXCEPT !.is = "gone"].tag = db[r].tag
  BY <1>1 DEF RowSet
<1> QED BY <1>1, <1>2, <1>3, <1>4 DEF TableSet

LEMMA NewTable ==
  ASSUME WellTyped, CallsAreConsistent, NEW i \in DOMAIN calls, calls[i].op = "create",
         Absent(db) # {}
  PROVE  LET new == Row("live", calls[i].body.origin, calls[i].body.tag)
         IN  [db EXCEPT ![NextId] = new] \in TableSet /\ NextId \in Absent(db) /\ NextId \in Rows
<1>1. db \in [Rows -> RowSet] /\ NextId \in Rows /\ NextId \in Absent(db)
  BY NextIdIsAbsent DEF WellTyped, TableSet, Absent
<1>2. Row("live", calls[i].body.origin, calls[i].body.tag) \in RowSet
  BY AnsweredCall DEF Consistent, FormSet, Row, RowSet
<1> QED BY <1>1, <1>2 DEF TableSet

\* INSERT, UPDATE and DELETE of a plain row.
LEMMA RowServed ==
  ASSUME WellTyped, CallsAreConsistent, NEW i \in DOMAIN calls, ServeRow(i)
  PROVE  ServeMoves(i)
<1>1. calls[i].state = "sent"
  BY DEF ServeRow, Served
<1>2. CASE calls[i].op = "create" /\ Absent(db) # {}
           /\ ServeWrite(i, [db EXCEPT ![NextId] =
                                Row("live", calls[i].body.origin, calls[i].body.tag)])
  BY <1>1, <1>2, NewTable, WriteServed
<1>3. CASE calls[i].op = "update"
           /\ ServeWrite(i, Tagged(calls[i].row, calls[i].body.tag))
  <2>1. calls[i].row \in Rows /\ calls[i].body.tag \in Tags
    BY <1>3, AnsweredCall DEF Consistent, FormSet
  <2> QED BY <1>1, <1>3, <2>1, TaggedTable, WriteServed
<1>4. CASE calls[i].op = "delete" /\ Live(db, calls[i].row)
           /\ ServeWrite(i, [db EXCEPT ![calls[i].row].is = "gone"])
  <2>1. calls[i].row \in Rows
    BY <1>4, AnsweredCall DEF Consistent
  <2> QED BY <1>1, <1>4, <2>1, GoneTable, WriteServed
<1> QED BY <1>2, <1>3, <1>4 DEF ServeRow

\* The amount raised of a campaign as anyone has it: at most what was given.
Within(r, tag) == tag.raised <= db[r].tag.given

AmountsAreGiven ==
    page = "crowdfunding" =>
        /\ \A r \in Rows :
              /\ Within(r, db[r].tag)
              /\ db[r].is = "absent" => db[r].tag.given = 0
              /\ Within(r, ui.list.rows[r].tag)
        /\ \A i \in DOMAIN calls :
              calls[i].op = "list" /\ calls[i].state = "ok" =>
                  \A r \in Rows : Within(r, calls[i].got[r].tag)

LEMMA DonationServed ==
  ASSUME WellTyped, CallsAreConsistent, page \in {"donations", "receipts"},
         NEW i \in DOMAIN calls, ServeDonation(i)
  PROVE  ServeMoves(i)
<1>1. calls[i].state = "sent"
  BY DEF ServeDonation, Served
<1>2. "paid" \in Tags /\ "issued" \in Tags
  BY TagsOf
<1>3. CASE calls[i].op = "create" /\ Absent(db) # {}
           /\ ServeWrite(i, [db EXCEPT ![NextId] =
                                Row("live", calls[i].body.origin, calls[i].body.tag)])
  BY <1>1, <1>3, NewTable, WriteServed
<1>4. CASE /\ calls[i].op \in {"update", "pay", "receipt", "delete"}
           /\ CASE calls[i].op = "update" /\ ~Frozen(i) ->
                    ServeWrite(i, Tagged(calls[i].row, WrittenStatus(calls[i].body)))
               [] Frozen(i) ->
                    Settle(i, "failed", <<"frozen">>, db, FALSE)
               [] calls[i].op = "pay" ->
                    ServeWrite(i, IF IsPaid(db[calls[i].row].tag) THEN db
                                  ELSE Tagged(calls[i].row, "paid"))
               [] calls[i].op = "receipt" ->
                    /\ IsPaid(db[calls[i].row].tag)
                    /\ ServeWrite(i, Tagged(calls[i].row, "issued"))
               [] calls[i].op = "delete" ->
                    ServeWrite(i, [db EXCEPT ![calls[i].row].is = "gone"])
  <2>1. calls[i].row \in Rows /\ db \in TableSet
    BY <1>4, AnsweredCall DEF Consistent, WellTyped
  <2>2. calls[i].op = "update" => WrittenStatus(calls[i].body) \in Tags
    BY AnsweredCall DEF Consistent, FormSet, WrittenStatus
  <2>3. CASE calls[i].op = "update" /\ ~Frozen(i)
    <3>1. ServeWrite(i, Tagged(calls[i].row, WrittenStatus(calls[i].body)))
      BY <1>4, <2>3
    <3> QED BY <1>1, <2>1, <2>2, <2>3, <3>1, TaggedTable, WriteServed
  <2>4. CASE Frozen(i)
    <3>1. calls[i].op = "update"
      BY <2>4 DEF Frozen
    <3>2. Settle(i, "failed", <<"frozen">>, db, FALSE)
      BY <1>4, <2>4, <3>1
    <3> QED BY <1>1, <3>2, CallTurned
  <2>5. CASE calls[i].op = "pay"
    <3>1. ~Frozen(i)
      BY <2>5 DEF Frozen
    <3>2. ServeWrite(i, IF IsPaid(db[calls[i].row].tag) THEN db
                        ELSE Tagged(calls[i].row, "paid"))
      BY <1>4, <2>5, <3>1
    <3>3. CASE ServeWrite(i, db)
      BY <1>1, <2>1, <2>5, <3>3, WriteServed
    <3>4. CASE ServeWrite(i, Tagged(calls[i].row, "paid"))
      BY <1>1, <1>2, <2>1, <2>5, <3>4, TaggedTable, WriteServed
    <3> QED BY <3>2, <3>3, <3>4
  <2>6. CASE calls[i].op = "receipt"
    <3>1. ~Frozen(i)
      BY <2>6 DEF Frozen
    <3>2. ServeWrite(i, Tagged(calls[i].row, "issued"))
      BY <1>4, <2>6, <3>1
    <3> QED BY <1>1, <1>2, <2>1, <2>6, <3>2, TaggedTable, WriteServed
  <2>7. CASE calls[i].op = "delete"
    <3>1. ~Frozen(i)
      BY <2>7 DEF Frozen
    <3>2. ServeWrite(i, [db EXCEPT ![calls[i].row].is = "gone"])
      BY <1>4, <2>7, <3>1
    <3> QED BY <1>1, <2>1, <2>7, <3>2, GoneTable, WriteServed
  <2> QED BY <1>4, <2>3, <2>4, <2>5, <2>6, <2>7
<1> QED BY <1>3, <1>4 DEF ServeDonation

CampaignTags ==
    [status : {"draft", "published", "paused", "funded"}, raised : 0..MaxGiven,
     given : 0..MaxGiven]

LEMMA CampaignWrites ==
  ASSUME NEW tag \in CampaignTags
  PROVE  /\ [tag EXCEPT !.status = "published"] \in CampaignTags
         /\ [tag EXCEPT !.status = "published"].raised = tag.raised
         /\ [tag EXCEPT !.status = "published"].given = tag.given
         /\ [tag EXCEPT !.status = "paused"] \in CampaignTags
         /\ [tag EXCEPT !.status = "paused"].raised = tag.raised
         /\ [tag EXCEPT !.status = "paused"].given = tag.given
         /\ tag.raised <= tag.given /\ tag.given < MaxGiven =>
               /\ Donated(tag) \in CampaignTags
               /\ Donated(tag).raised = tag.raised + 1 /\ Donated(tag).given = tag.given + 1
         /\ \A f \in [row : 0..MaxRows, origin : 0..MaxForms, base : CampaignTags,
                      tag : CampaignTags] :
               /\ Saved(tag, f) \in CampaignTags
               /\ Saved(tag, f).raised = f.tag.raised /\ Saved(tag, f).given = tag.given
<1>1. tag.given < MaxGiven /\ tag.raised <= tag.given =>
         tag.raised + 1 \in 0..MaxGiven /\ tag.given + 1 \in 0..MaxGiven
  BY DEF CampaignTags, MaxGiven
<1> QED BY <1>1 DEF CampaignTags, Donated, Saved, Campaign, MaxGiven

LEMMA CampaignServed ==
  ASSUME WellTyped, CallsAreConsistent, AmountsAreGiven, page = "crowdfunding",
         NEW i \in DOMAIN calls, ServeCampaign(i)
  PROVE  ServeMoves(i)
<1>1. calls[i].state = "sent" /\ Tags = CampaignTags
  BY TagsOf DEF ServeCampaign, Served, CampaignTags
<1>2. CASE ServeRow(i)
  BY <1>2, RowServed
<1> DEFINE r == calls[i].row
           tag == db[r].tag
<1>3. ASSUME r \in Rows, NEW t \in Tags, ServeWrite(i, Tagged(r, t)),
             calls[i].op \notin {"list", "create"}
      PROVE  ServeMoves(i)
  BY <1>1, <1>3, TaggedTable, WriteServed
<1>4. CASE r \in Rows
  <2>1. tag \in CampaignTags /\ tag.raised <= tag.given
    BY <1>1, <1>4, ListedRow DEF AmountsAreGiven, Within
  <2>2. calls[i].op = "update" =>
           calls[i].body \in [row : 0..MaxRows, origin : 0..MaxForms, base : CampaignTags,
                              tag : CampaignTags]
    BY <1>1, AnsweredCall DEF Consistent, FormSet
  <2>3. CASE calls[i].op = "update" /\ ServeWrite(i, Tagged(r, Saved(tag, calls[i].body)))
    BY <1>1, <1>3, <1>4, <2>1, <2>2, <2>3, CampaignWrites
  <2>4. CASE calls[i].op = "publish"
             /\ ServeWrite(i, Tagged(r, [tag EXCEPT !.status = "published"]))
    BY <1>1, <1>3, <1>4, <2>1, <2>4, CampaignWrites
  <2>5. CASE calls[i].op = "pause"
             /\ ServeWrite(i, Tagged(r, [tag EXCEPT !.status = "paused"]))
    BY <1>1, <1>3, <1>4, <2>1, <2>5, CampaignWrites
  <2>6. CASE calls[i].op = "donate" /\ tag.given < MaxGiven
             /\ ServeWrite(i, Tagged(r, Donated(tag)))
    BY <1>1, <1>3, <1>4, <2>1, <2>6, CampaignWrites
  <2> QED BY <1>2, <2>3, <2>4, <2>5, <2>6 DEF ServeCampaign
<1> QED BY <1>2, <1>4 DEF ServeCampaign

LEMMA InternServed ==
  ASSUME WellTyped, CallsAreConsistent, page = "internships",
         NEW i \in DOMAIN calls, ServeIntern(i)
  PROVE  ServeMoves(i)
<1> DEFINE InternTags == [status : {"registered", "active", "completed"},
                          certified : BOOLEAN, track : {"own", "announced"}]
           r == calls[i].row
           tag == db[r].tag
<1>1. calls[i].state = "sent" /\ Tags = InternTags /\ db \in TableSet
  BY TagsOf DEF ServeIntern, Served, WellTyped
<1>2. CASE ServeRow(i)
  BY <1>2, RowServed
<1>3. ASSUME r \in Rows, NEW t \in Tags, ServeWrite(i, Tagged(r, t)),
             calls[i].op \notin {"list", "create"}
      PROVE  ServeMoves(i)
  BY <1>1, <1>3, TaggedTable, WriteServed
<1>4. CASE calls[i].op = "announce" /\ ServeWrite(i, db)
  BY <1>1, <1>4, WriteServed
<1>5. CASE r \in Rows
  <2>1. tag \in InternTags
    BY <1>1, <1>5, ListedRow
  <2>2. calls[i].op = "update" => calls[i].body.tag \in InternTags
    BY <1>1, AnsweredCall DEF Consistent, FormSet
  <2>3. CASE calls[i].op = "update" /\ ServeWrite(i, Tagged(r, Corrected(tag, calls[i].body)))
    <3>1. Corrected(tag, calls[i].body) \in InternTags
      BY <2>1, <2>2, <2>3 DEF Corrected
    <3> QED BY <1>1, <1>3, <1>5, <2>3, <3>1
  <2>4. CASE calls[i].op = "activate"
             /\ ServeWrite(i, Tagged(r, [tag EXCEPT !.status = "active"]))
    <3>1. [tag EXCEPT !.status = "active"] \in InternTags
      BY <2>1
    <3> QED BY <1>1, <1>3, <1>5, <2>4, <3>1
  <2>5. CASE calls[i].op = "issue" /\ ServeWrite(i, Tagged(r, Certified(tag)))
    <3>1. Certified(tag) \in InternTags
      BY <2>1 DEF Certified
    <3> QED BY <1>1, <1>3, <1>5, <2>5, <3>1
  <2> QED BY <1>2, <1>4, <2>3, <2>4, <2>5 DEF ServeIntern
<1> QED BY <1>2, <1>4, <1>5 DEF ServeIntern

LEMMA SettingServed ==
  ASSUME WellTyped, CallsAreConsistent, page = "settings",
         NEW i \in DOMAIN calls, ServeSetting(i)
  PROVE  ServeMoves(i)
<1>1. /\ calls[i].state = "sent" /\ calls[i].op \in {"platform", "user"}
      /\ ServeWrite(i, Tagged(calls[i].row, calls[i].body.tag))
  BY DEF ServeSetting, Served
<1>2. calls[i].row \in Rows /\ calls[i].body.tag \in Tags
  BY <1>1, AnsweredCall DEF Consistent, FormSet
<1> QED BY <1>1, <1>2, TaggedTable, WriteServed

\* What the backend does with the calls of every page.
LEMMA TheServeMoves ==
  ASSUME WellTyped, CallsAreConsistent, AmountsAreGiven, NEW i \in DOMAIN calls, Serve(i)
  PROVE  ServeMoves(i)
<1>1. CASE Refused(i)
  BY <1>1, CallTurned DEF Refused
<1>2. CASE page \in CrudPageNames /\ CrudServe(i)
  BY <1>2, RowServed DEF CrudServe, MembersServe, RecordsServe, ProjectsServe, DesignationsServe
<1> QED BY <1>1, <1>2, ListServed, DonationServed, CampaignServed, InternServed, SettingServed
        DEF Serve

LEMMA TheOthersMove ==
  ASSUME WellTyped, AmountsAreGiven, Others
  PROVE  OthersMove
<1>1. ASSUME NEW r \in Rows, NEW t \in Tags, OtherWrite(r, t)
      PROVE  OthersMove
  <2>1. /\ db' = Tagged(r, t) /\ untold' = TRUE
        /\ UNCHANGED <<page, ui, calls, staff, opened, sent>>
    BY <1>1 DEF OtherWrite
  <2> QED BY <2>1, TaggedTable DEF OthersMove
<1>2. ASSUME NEW r \in Rows, page \in CrudPageNames, OtherWrite(r, Edited)
      PROVE  OthersMove
  BY <1>1, <1>2, TagsOf
<1>3. ASSUME NEW r \in Rows, page \in {"donations", "receipts"}, WebhookPays(r)
      PROVE  OthersMove
  BY <1>1, <1>3, TagsOf DEF WebhookPays
<1>4. ASSUME NEW r \in Rows, page = "receipts", ColleagueRefunds(r)
      PROVE  OthersMove
  BY <1>1, <1>4, TagsOf DEF ColleagueRefunds
<1>5. ASSUME NEW r \in Rows, page = "cards", ColleaguePromotes(r)
      PROVE  OthersMove
  BY <1>1, <1>5, TagsOf DEF ColleaguePromotes
<1>6. ASSUME NEW r \in Rows, page = "crowdfunding", ColleagueDonates(r)
      PROVE  OthersMove
  <2>1. Donated(db[r].tag) \in Tags
    BY <1>6, TagsOf, ListedRow, CampaignWrites
       DEF ColleagueDonates, CampaignTags, AmountsAreGiven, Within
  <2> QED BY <1>1, <1>6, <2>1 DEF ColleagueDonates
<1>7. ASSUME NEW r \in Rows, page = "internships", ColleagueActivates(r)
      PROVE  OthersMove
  <2>1. db[r].tag \in [status : {"registered", "active", "completed"},
                       certified : BOOLEAN, track : {"own", "announced"}]
    BY <1>7, TagsOf, ListedRow
  <2>2. [db[r].tag EXCEPT !.status = "active"] \in
            [status : {"registered", "active", "completed"},
             certified : BOOLEAN, track : {"own", "announced"}]
    BY <2>1
  <2> QED BY <1>1, <1>7, <2>2, TagsOf DEF ColleagueActivates
<1>8. ASSUME page = "settings", AdministratorSaves
      PROVE  OthersMove
  BY <1>1, <1>8, TagsOf, RowsAreNumbers DEF AdministratorSaves, Platform
<1> QED BY <1>2, <1>3, <1>4, <1>5, <1>6, <1>7, <1>8 DEF Others

-----------------------------------------------------------------------------
(***************************************************************************)
(* What becomes of the calls in flight.  All but call i (none, when i is   *)
(* no call) are kept, in their order, and what comes after the first m     *)
(* calls is new.                                                           *)
(***************************************************************************)
Keeps(i, m) ==
    /\ m \in Nat /\ 1..m \subseteq DOMAIN calls'
    /\ \A j \in 1..m :
          LET k == Skip(i, j)
          IN  /\ k \in DOMAIN calls \ {i}
              /\ calls'[j].op = calls[k].op /\ calls'[j].row = calls[k].row
              /\ calls'[j].body = calls[k].body /\ calls'[j].view = calls[k].view
              /\ calls'[j].job = calls[k].job
              /\ calls'[j].state = calls[k].state /\ calls'[j].got = calls[k].got
    /\ \A k \in DOMAIN calls \ {i} : \E j \in 1..m : Skip(i, j) = k

\* Nothing is overtaken, or the lists before i are.
Undisturbed(i, m) == \A j \in 1..m : calls'[j].passed = calls[Skip(i, j)].passed
Overtakes(i, m) ==
    \A j \in 1..m :
        calls'[j].passed <=>
            (calls[Skip(i, j)].passed \/ (Skip(i, j) < i /\ calls'[j].op = "list"))

\* Nothing is sent, or c is.
Nothing(m) == DOMAIN calls' = 1..m
Sends(m, c) == DOMAIN calls' = 1..(m + 1) /\ calls'[m + 1] = c

None == Len(calls) + 1

LEMMA AlikeCalls ==
  ASSUME WellTyped, Alike(calls')
  PROVE  Keeps(None, Len(calls)) /\ Nothing(Len(calls)) /\ calls' \in Seq(CallSet)
<1>1. Len(calls) \in Nat /\ DOMAIN calls = 1..Len(calls) /\ None = Len(calls) + 1
  BY CallsTyped DEF None
<1>2. \A j \in 1..Len(calls) : Skip(None, j) = j /\ j # None
  BY <1>1 DEF Skip
<1>3. None \notin DOMAIN calls
  BY <1>1
<1> QED BY <1>1, <1>2, <1>3 DEF Alike, Keeps, Nothing

LEMMA SameCalls ==
  ASSUME WellTyped, calls' = calls
  PROVE  /\ Keeps(None, Len(calls)) /\ Nothing(Len(calls)) /\ calls' \in Seq(CallSet)
         /\ Undisturbed(None, Len(calls))
<1>1. Len(calls) \in Nat /\ DOMAIN calls = 1..Len(calls) /\ None = Len(calls) + 1
  BY CallsTyped DEF None
<1>2. \A j \in 1..Len(calls) : Skip(None, j) = j /\ j # None
  BY <1>1 DEF Skip
<1>3. calls \in Seq(CallSet)
  BY DEF WellTyped
<1> QED BY <1>1, <1>2, <1>3 DEF Keeps, Nothing, Undisturbed

LEMMA OneMoreCall ==
  ASSUME WellTyped, NEW c \in CallSet, calls' = Append(calls, c)
  PROVE  /\ Keeps(None, Len(calls)) /\ Sends(Len(calls), c) /\ calls' \in Seq(CallSet)
         /\ Undisturbed(None, Len(calls))
<1>1. /\ Len(calls) \in Nat /\ DOMAIN calls = 1..Len(calls) /\ None = Len(calls) + 1
      /\ calls \in Seq(CallSet)
  BY CallsTyped DEF None, WellTyped
<1>2. \A j \in 1..Len(calls) : Skip(None, j) = j /\ j # None
  BY <1>1 DEF Skip
<1>3. /\ calls' \in Seq(CallSet) /\ DOMAIN calls' = 1..(Len(calls) + 1)
      /\ \A j \in 1..Len(calls) : calls'[j] = calls[j]
      /\ calls'[Len(calls) + 1] = c
  BY <1>1, Appended
<1> QED BY <1>1, <1>2, <1>3 DEF Keeps, Sends, Undisturbed

\* A call goes from a list of calls that is like the one there is.
LEMMA OneCallLess ==
  ASSUME WellTyped, NEW s, Alike(s), NEW i \in DOMAIN calls
  PROVE  LET t == RemoveAt(s, i)
             m == Len(calls) - 1
         IN  /\ t \in Seq(CallSet) /\ m \in Nat /\ Len(t) = m /\ DOMAIN t = 1..m
             /\ \A j \in 1..m :
                   LET k == Skip(i, j)
                   IN  /\ k \in DOMAIN calls \ {i} /\ t[j] = s[k]
                       /\ t[j].op = calls[k].op /\ t[j].row = calls[k].row
                       /\ t[j].body = calls[k].body /\ t[j].view = calls[k].view
                       /\ t[j].job = calls[k].job
                       /\ t[j].state = calls[k].state /\ t[j].got = calls[k].got
             /\ \A k \in DOMAIN calls \ {i} : \E j \in 1..m : Skip(i, j) = k
<1> DEFINE t == RemoveAt(s, i)
           m == Len(calls) - 1
<1>1. /\ Len(calls) \in Nat /\ DOMAIN calls = 1..Len(calls)
      /\ s \in Seq(CallSet) /\ i \in DOMAIN s /\ DOMAIN s = DOMAIN calls
  BY CallsTyped DEF Alike
<1>2. /\ t \in Seq(CallSet) /\ m \in Nat /\ DOMAIN t = 1..m
      /\ \A j \in 1..m : Skip(i, j) \in DOMAIN s /\ t[j] = s[Skip(i, j)]
      /\ \A k \in DOMAIN s \ {i} : \E j \in 1..m : Skip(i, j) = k
  <2>1. /\ t \in Seq(CallSet) /\ DOMAIN t = 1..(Len(s) - 1)
        /\ \A j \in DOMAIN t : Skip(i, j) \in DOMAIN s /\ t[j] = s[Skip(i, j)]
        /\ \A k \in DOMAIN s \ {i} : \E j \in DOMAIN t : Skip(i, j) = k
    BY <1>1, Removed
  <2>2. DOMAIN t = 1..m /\ m \in Nat
    BY <1>1, <2>1, Removed DEF Alike
  <2> QED BY <2>1, <2>2
<1>3. Len(t) = m
  BY <1>2, LenProperties
<1>4. \A j \in 1..m : Skip(i, j) # i
  BY <1>1 DEF Skip
<1> HIDE DEF t, m
<1>5. ASSUME NEW j \in 1..m
      PROVE  LET k == Skip(i, j)
             IN  /\ k \in DOMAIN calls \ {i} /\ t[j] = s[k]
                 /\ t[j].op = calls[k].op /\ t[j].row = calls[k].row
                 /\ t[j].body = calls[k].body /\ t[j].view = calls[k].view
                 /\ t[j].job = calls[k].job
                 /\ t[j].state = calls[k].state /\ t[j].got = calls[k].got
  BY <1>1, <1>2, <1>4 DEF Alike
<1> QED BY <1>1, <1>2, <1>3, <1>5 DEF t, m

LEMMA OneCallGone ==
  ASSUME WellTyped, NEW s, Alike(s), NEW i \in DOMAIN calls, calls' = RemoveAt(s, i)
  PROVE  /\ Keeps(i, Len(calls) - 1) /\ Nothing(Len(calls) - 1) /\ calls' \in Seq(CallSet)
         /\ \A j \in 1..(Len(calls) - 1) : calls'[j] = s[Skip(i, j)]
<1> DEFINE t == RemoveAt(s, i)
           m == Len(calls) - 1
<1>1. /\ t \in Seq(CallSet) /\ m \in Nat /\ Len(t) = m /\ DOMAIN t = 1..m
      /\ \A j \in 1..m :
            LET k == Skip(i, j)
            IN  /\ k \in DOMAIN calls \ {i} /\ t[j] = s[k]
                /\ t[j].op = calls[k].op /\ t[j].row = calls[k].row
                /\ t[j].body = calls[k].body /\ t[j].view = calls[k].view
                /\ t[j].job = calls[k].job
                /\ t[j].state = calls[k].state /\ t[j].got = calls[k].got
      /\ \A k \in DOMAIN calls \ {i} : \E j \in 1..m : Skip(i, j) = k
  BY OneCallLess
<1>2. calls' = t
  OBVIOUS
<1> HIDE DEF t, m
<1>3. Keeps(i, m)
  BY <1>1, <1>2 DEF Keeps
<1> QED BY <1>1, <1>2, <1>3 DEF Nothing, m

LEMMA OneCallReplaced ==
  ASSUME WellTyped, NEW s, Alike(s), NEW i \in DOMAIN calls, NEW c \in CallSet,
         calls' = Append(RemoveAt(s, i), c)
  PROVE  /\ Keeps(i, Len(calls) - 1) /\ Sends(Len(calls) - 1, c) /\ calls' \in Seq(CallSet)
         /\ \A j \in 1..(Len(calls) - 1) : calls'[j] = s[Skip(i, j)]
<1> DEFINE t == RemoveAt(s, i)
           m == Len(calls) - 1
<1>1. /\ t \in Seq(CallSet) /\ m \in Nat /\ Len(t) = m /\ DOMAIN t = 1..m
      /\ \A j \in 1..m :
            LET k == Skip(i, j)
            IN  /\ k \in DOMAIN calls \ {i} /\ t[j] = s[k]
                /\ t[j].op = calls[k].op /\ t[j].row = calls[k].row
                /\ t[j].body = calls[k].body /\ t[j].view = calls[k].view
                /\ t[j].job = calls[k].job
                /\ t[j].state = calls[k].state /\ t[j].got = calls[k].got
      /\ \A k \in DOMAIN calls \ {i} : \E j \in 1..m : Skip(i, j) = k
  BY OneCallLess
<1>2. calls' = Append(t, c)
  OBVIOUS
<1> HIDE DEF t, m
<1>3. /\ calls' \in Seq(CallSet) /\ DOMAIN calls' = 1..(m + 1)
      /\ \A j \in 1..m : calls'[j] = t[j]
      /\ calls'[m + 1] = c
  BY <1>1, <1>2, Appended
<1>4. 1..m \subseteq 1..(m + 1)
  BY <1>1
<1>5. Keeps(i, m)
  BY <1>1, <1>3, <1>4 DEF Keeps
<1> QED BY <1>1, <1>3, <1>5 DEF Sends, m

LEMMA CallsAreAlike ==
  ASSUME WellTyped
  PROVE  Alike(calls)
BY DEF Alike, WellTyped

LEMMA ListIsACall ==
  ASSUME WellTyped, NEW v \in Views, NEW job \in Jobs
  PROVE  /\ List(v, job) \in CallSet
         /\ List(v, job).op = "list" /\ List(v, job).view = v /\ List(v, job).job = job
         /\ List(v, job).state = "sent" /\ ~List(v, job).passed
BY RowsAreNumbers DEF List, CallSet, Ops
=============================================================================
