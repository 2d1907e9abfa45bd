--------------------------- MODULE DashboardProofs ---------------------------
(***************************************************************************)
(* Proofs about the staff pages, for any number of rows, forms, filters    *)
(* and calls in flight.                                                    *)
(*                                                                         *)
(* None of the properties is inductive: they are about a page at rest,     *)
(* and what the page will show is decided by the calls that are still in   *)
(* flight.  The invariant (Sound) therefore says of every property what    *)
(* the pending answers will do: a list that is out of date will be         *)
(* followed by one that is not (ListWillFollow, ListWillBeFresh), and the  *)
(* later of two reads is the better informed one (LooksInOrder,            *)
(* ReadsInOrder) or is shown as late; saves exclude each other (OneSave);  *)
(* a form whose row exists belongs to a save that has been executed        *)
(* (FormsMakeOneRow).  What only one page promises has an invariant of its *)
(* own beside Sound: DonationsInv, CardsInv, ReceiptsInv, SettingsInv.     *)
(***************************************************************************)
EXTENDS DashboardMoves

-----------------------------------------------------------------------------
(* What each kind of step makes of the calls *)

LEMMA RestCalls ==
  ASSUME WellTyped, Rests
  PROVE  /\ Keeps(None, Len(calls)) /\ Nothing(Len(calls)) /\ calls' \in Seq(CallSet)
         /\ page \in MayCreate => Undisturbed(None, Len(calls))
<1>1. CASE calls' = calls
  BY <1>1, SameCalls
<1>2. CASE page = "receipts" /\ calls' = Late(Len(calls) + 1)
  <2>1. Len(calls) + 1 \in Int
    BY CallsTyped
  <2>2. page \notin MayCreate
    BY <1>2 DEF MayCreate, CrudPageNames
  <2> QED BY <1>2, <2>1, <2>2, LateCalls, AlikeCalls
<1> QED BY <1>1, <1>2 DEF Rests

LEMMA AskCalls ==
  ASSUME WellTyped, NEW v \in Views, Asks(v)
  PROVE  /\ Keeps(None, Len(calls)) /\ Undisturbed(None, Len(calls))
         /\ Sends(Len(calls), List(v, "view")) /\ calls' \in Seq(CallSet)
<1>1. List(v, "view") \in CallSet
  BY ListIsACall DEF Jobs
<1> QED BY <1>1, OneMoreCall DEF Asks

LEMMA WriteCalls ==
  ASSUME WellTyped, NEW c \in CallSet, Writes(c)
  PROVE  /\ Keeps(None, Len(calls)) /\ Undisturbed(None, Len(calls))
         /\ Sends(Len(calls), c) /\ calls' \in Seq(CallSet)
BY OneMoreCall DEF Writes

LEMMA UndisturbedCalls ==
  ASSUME NEW i, NEW m, \A j \in 1..m : calls'[j] = calls[Skip(i, j)]
  PROVE  Undisturbed(i, m)
BY DEF Undisturbed

LEMMA OvertakenKept ==
  ASSUME WellTyped, NEW i \in DOMAIN calls, NEW m, Keeps(i, m),
         \A j \in 1..m : calls'[j] = Overtaken(i)[Skip(i, j)]
  PROVE  Overtakes(i, m)
<1>1. i \in Int
  BY CallsTyped
<1>2. ASSUME NEW j \in 1..m
      PROVE  calls'[j].passed <=>
                (calls[Skip(i, j)].passed \/ (Skip(i, j) < i /\ calls'[j].op = "list"))
  <2>1. Skip(i, j) \in DOMAIN calls /\ calls'[j].op = calls[Skip(i, j)].op
    BY DEF Keeps
  <2> QED BY <1>1, <2>1, OvertakenCalls
<1> QED BY <1>2 DEF Overtakes

LEMMA EndCalls ==
  ASSUME WellTyped, NEW i \in DOMAIN calls, Ends(i)
  PROVE  /\ Keeps(i, Len(calls) - 1) /\ Nothing(Len(calls) - 1) /\ calls' \in Seq(CallSet)
         /\ page \in MayCreate => Undisturbed(i, Len(calls) - 1)
<1>1. CASE calls' = RemoveAt(calls, i)
  <2>1. /\ Keeps(i, Len(calls) - 1) /\ Nothing(Len(calls) - 1) /\ calls' \in Seq(CallSet)
        /\ \A j \in 1..(Len(calls) - 1) : calls'[j] = calls[Skip(i, j)]
    BY <1>1, CallsAreAlike, OneCallGone
  <2> QED BY <2>1, UndisturbedCalls
<1>2. CASE page \notin MayCreate /\ calls' = RemoveAt(Late(i), i)
  <2>1. i \in Int
    BY CallsTyped
  <2> QED BY <1>2, <2>1, LateCalls, OneCallGone
<1>3. CASE page \notin MayCreate /\ calls' = RemoveAt(Overtaken(Len(calls) + 1), i)
  <2>1. Len(calls) + 1 \in Int
    BY CallsTyped
  <2> QED BY <1>3, <2>1, OvertakenCalls, OneCallGone
<1> QED BY <1>1, <1>2, <1>3 DEF Ends

LEMMA ReloadCalls ==
  ASSUME WellTyped, NEW i \in DOMAIN calls, Reload(i)
  PROVE  /\ Keeps(i, Len(calls) - 1) /\ Undisturbed(i, Len(calls) - 1)
         /\ Sends(Len(calls) - 1, List(calls[i].view, calls[i].job)) /\ calls' \in Seq(CallSet)
<1>1. calls[i].view \in Views /\ calls[i].job \in Jobs
  BY CallsTyped DEF CallSet
<1> DEFINE c == List(calls[i].view, calls[i].job)
<1>2. c \in CallSet /\ calls' = Append(RemoveAt(calls, i), c)
  BY <1>1, ListIsACall DEF Reload
<1> HIDE DEF c
<1>3. /\ Keeps(i, Len(calls) - 1) /\ Sends(Len(calls) - 1, c) /\ calls' \in Seq(CallSet)
      /\ \A j \in 1..(Len(calls) - 1) : calls'[j] = calls[Skip(i, j)]
  BY <1>2, CallsAreAlike, OneCallReplaced
<1> QED BY <1>3, UndisturbedCalls DEF c

LEMMA PayCalls ==
  ASSUME WellTyped, NEW i \in DOMAIN calls, ThenMarkPaid(i)
  PROVE  LET c == [calls[i] EXCEPT !.op = "pay", !.state = "sent"]
         IN  /\ Keeps(i, Len(calls) - 1) /\ Undisturbed(i, Len(calls) - 1)
             /\ Sends(Len(calls) - 1, c) /\ calls' \in Seq(CallSet)
             /\ c \in CallSet /\ c.op = "pay" /\ c.row = calls[i].row /\ c.body = calls[i].body
             /\ c.job = calls[i].job /\ c.view = calls[i].view /\ c.state = "sent"
<1> DEFINE c == [calls[i] EXCEPT !.op = "pay", !.state = "sent"]
<1>1. /\ c \in CallSet /\ c.op = "pay" /\ c.row = calls[i].row /\ c.body = calls[i].body
      /\ c.job = calls[i].job /\ c.view = calls[i].view /\ c.state = "sent"
  BY CallsTyped DEF CallSet, Ops
<1>2. calls' = Append(RemoveAt(calls, i), c)
  BY DEF ThenMarkPaid
<1> HIDE DEF c
<1>3. /\ Keeps(i, Len(calls) - 1) /\ Sends(Len(calls) - 1, c) /\ calls' \in Seq(CallSet)
      /\ \A j \in 1..(Len(calls) - 1) : calls'[j] = calls[Skip(i, j)]
  BY <1>1, <1>2, CallsAreAlike, OneCallReplaced
<1> QED BY <1>1, <1>3, UndisturbedCalls DEF c

LEMMA ShowCalls ==
  ASSUME WellTyped, NEW i \in DOMAIN calls, Shows(i)
  PROVE  /\ Keeps(i, Len(calls) - 1) /\ Overtakes(i, Len(calls) - 1)
         /\ Nothing(Len(calls) - 1) /\ calls' \in Seq(CallSet)
<1>1. i \in Int /\ calls' = RemoveAt(Overtaken(i), i)
  BY CallsTyped DEF Shows
<1>2. /\ Keeps(i, Len(calls) - 1) /\ Nothing(Len(calls) - 1) /\ calls' \in Seq(CallSet)
      /\ \A j \in 1..(Len(calls) - 1) : calls'[j] = Overtaken(i)[Skip(i, j)]
  BY <1>1, OvertakenCalls, OneCallGone
<1> QED BY <1>2, OvertakenKept

LEMMA ShowAndAskCalls ==
  ASSUME WellTyped, NEW i \in DOMAIN calls, NEW v \in Views,
         calls' = Append(RemoveAt(Overtaken(i), i), List(v, "view"))
  PROVE  /\ Keeps(i, Len(calls) - 1) /\ Overtakes(i, Len(calls) - 1)
         /\ Sends(Len(calls) - 1, List(v, "view")) /\ calls' \in Seq(CallSet)
<1>1. i \in Int /\ List(v, "view") \in CallSet
  BY CallsTyped, ListIsACall DEF Jobs
<1>2. /\ Keeps(i, Len(calls) - 1) /\ Sends(Len(calls) - 1, List(v, "view"))
      /\ calls' \in Seq(CallSet)
      /\ \A j \in 1..(Len(calls) - 1) : calls'[j] = Overtaken(i)[Skip(i, j)]
  BY <1>1, OvertakenCalls, OneCallReplaced
<1> QED BY <1>2, OvertakenKept

LEMMA ServedCalls ==
  ASSUME WellTyped, NEW i \in DOMAIN calls, ServeMoves(i)
  PROVE  /\ calls' \in Seq(CallSet) /\ DOMAIN calls' = DOMAIN calls
         /\ \A j \in DOMAIN calls : j # i => calls'[j] = calls[j]
         /\ calls'[i].op = calls[i].op /\ calls'[i].row = calls[i].row
         /\ calls'[i].body = calls[i].body /\ calls'[i].view = calls[i].view
         /\ calls'[i].job = calls[i].job /\ calls'[i].passed = calls[i].passed
         /\ calls[i].state = "sent"
<1>1. PICK state \in {"ok", "failed"}, got \in {<<>>, <<"frozen">>} \cup TableSet :
         calls' = [calls EXCEPT ![i].state = state, ![i].got = got]
  BY DEF ServeMoves
<1>2. /\ DOMAIN calls' = DOMAIN calls
      /\ calls'[i] = [calls[i] EXCEPT !.state = state, !.got = got]
      /\ \A j \in DOMAIN calls : j # i => calls'[j] = calls[j]
  BY <1>1, SettledCall
<1>3. /\ Len(calls) \in Nat /\ DOMAIN calls = 1..Len(calls)
      /\ \A j \in DOMAIN calls : calls[j] \in CallSet
  BY CallsTyped
<1>4. /\ calls'[i] \in CallSet
      /\ calls'[i].op = calls[i].op /\ calls'[i].row = calls[i].row
      /\ calls'[i].body = calls[i].body /\ calls'[i].view = calls[i].view
      /\ calls'[i].job = calls[i].job /\ calls'[i].passed = calls[i].passed
  BY <1>2, <1>3 DEF CallSet
<1>5. \A j \in DOMAIN calls : calls'[j] \in CallSet
  BY <1>2, <1>3, <1>4
<1>6. calls' = [j \in 1..Len(calls) |-> calls'[j]]
  BY <1>1, <1>3
<1>7. calls' \in Seq(CallSet)
  BY <1>3, <1>5, <1>6, SeqDef
<1> QED BY <1>2, <1>4, <1>7 DEF ServeMoves

-----------------------------------------------------------------------------
(* Types *)

LEMMA TypesStay ==
  ASSUME WellTyped, page' = page, ui' \in UiSet, db' \in TableSet, calls' \in Seq(CallSet),
         opened' \in 0..MaxForms, sent' \in 0..MaxCalls, staff' = staff, untold' \in BOOLEAN
  PROVE  WellTyped'
BY SamePage DEF WellTyped

LEMMA SameConsistent ==
  ASSUME page' = page, NEW c, NEW d, Consistent(c), page \in Pages(c.op),
         d.op = c.op, d.row = c.row, d.body = c.body, d.job = c.job,
         d.op = "list" /\ d.state = "ok" => d.got \in TableSet
  PROVE  Consistent(d) /\ page \in Pages(d.op)
BY DEF Consistent, JobOf

LEMMA KeptConsistent ==
  ASSUME WellTyped, CallsAreConsistent, page' = page, NEW i, NEW m, Keeps(i, m)
  PROVE  \A j \in 1..m : Consistent(calls'[j]) /\ page \in Pages(calls'[j].op)
<1>1. ASSUME NEW j \in 1..m
      PROVE  Consistent(calls'[j]) /\ page \in Pages(calls'[j].op)
  <2> DEFINE k == Skip(i, j)
  <2>1. /\ k \in DOMAIN calls
        /\ calls'[j].op = calls[k].op /\ calls'[j].row = calls[k].row
        /\ calls'[j].body = calls[k].body /\ calls'[j].job = calls[k].job
        /\ calls'[j].state = calls[k].state /\ calls'[j].got = calls[k].got
    BY DEF Keeps
  <2> HIDE DEF k
  <2>2. Consistent(calls[k]) /\ page \in Pages(calls[k].op)
    BY <2>1 DEF CallsAreConsistent
  <2>3. calls[k].op = "list" /\ calls[k].state = "ok" => calls[k].got \in TableSet
    BY <2>2 DEF Consistent
  <2> QED BY <2>1, <2>2, <2>3, SameConsistent
<1> QED BY <1>1

LEMMA NowConsistent ==
  ASSUME page' = page,
         \A j \in DOMAIN calls' : Consistent(calls'[j]) /\ page \in Pages(calls'[j].op)
  PROVE  CallsAreConsistent'
<1>1. ASSUME NEW j \in DOMAIN calls'
      PROVE  Consistent(calls[j])' /\ page' \in Pages(calls'[j].op)
  BY <1>1, SamePage DEF Consistent, JobOf, Jobs
<1> QED BY <1>1 DEF CallsAreConsistent, Pages, PageNames

LEMMA ListIsConsistent ==
  ASSUME NEW v, NEW job \in Jobs, page \in PageNames
  PROVE  Consistent(List(v, job)) /\ page \in Pages(List(v, job).op)
BY DEF List, Consistent, JobOf, Pages

LEMMA UserTypes ==
  ASSUME WellTyped, CallsAreConsistent, UserMoves
  PROVE  WellTyped' /\ CallsAreConsistent'
<1>1. /\ UNCHANGED <<page, db, staff, untold>> /\ ui' \in UiSet
      /\ opened' \in 0..MaxForms /\ sent' \in 0..MaxCalls
      /\ db \in TableSet /\ untold \in BOOLEAN /\ page \in PageNames
  BY DEF UserMoves, WellTyped
<1>2. CASE Rests
  <2>1. /\ Keeps(None, Len(calls)) /\ DOMAIN calls' = 1..Len(calls)
        /\ calls' \in Seq(CallSet)
    BY <1>2, RestCalls DEF Nothing
  <2> QED BY <1>1, <2>1, TypesStay, KeptConsistent, NowConsistent
<1>3. ASSUME NEW c \in CallSet, Keeps(None, Len(calls)), Sends(Len(calls), c),
             calls' \in Seq(CallSet), Consistent(c), page \in Pages(c.op)
      PROVE  WellTyped' /\ CallsAreConsistent'
  <2>1. DOMAIN calls' = 1..(Len(calls) + 1) /\ calls'[Len(calls) + 1] = c /\ Len(calls) \in Nat
    BY <1>3, CallsTyped DEF Sends
  <2>2. \A j \in 1..Len(calls) : Consistent(calls'[j]) /\ page \in Pages(calls'[j].op)
    BY <1>1, <1>3, KeptConsistent
  <2>3. \A j \in DOMAIN calls' : Consistent(calls'[j]) /\ page \in Pages(calls'[j].op)
    BY <1>3, <2>1, <2>2
  <2> QED BY <1>1, <1>3, <2>3, TypesStay, NowConsistent
<1>4. ASSUME NEW v \in Views, Asks(v)
      PROVE  WellTyped' /\ CallsAreConsistent'
  BY <1>1, <1>3, <1>4, AskCalls, ListIsACall, ListIsConsistent DEF Jobs
<1>5. ASSUME NEW c \in CallSet, Writes(c)
      PROVE  WellTyped' /\ CallsAreConsistent'
  BY <1>3, <1>5, WriteCalls DEF Writes
<1> QED BY <1>2, <1>4, <1>5 DEF UserMoves

LEMMA AnswerTypes ==
  ASSUME WellTyped, CallsAreConsistent, NEW i \in DOMAIN calls, AnswerMoves(i)
  PROVE  WellTyped' /\ CallsAreConsistent'
<1> DEFINE m == Len(calls) - 1
<1>1. /\ UNCHANGED <<page, db, staff, opened, sent, untold>> /\ ui' \in UiSet
      /\ db \in TableSet /\ untold \in BOOLEAN /\ page \in PageNames
      /\ opened' \in 0..MaxForms /\ sent' \in 0..MaxCalls
  BY DEF AnswerMoves, WellTyped, Done
<1>2. m \in Nat
  BY CallsTyped
<1> HIDE DEF m
<1>3. ASSUME Keeps(i, m), Nothing(m), calls' \in Seq(CallSet)
      PROVE  WellTyped' /\ CallsAreConsistent'
  BY <1>1, <1>3, TypesStay, KeptConsistent, NowConsistent DEF Nothing
<1>4. ASSUME NEW c \in CallSet, Keeps(i, m), Sends(m, c),
             calls' \in Seq(CallSet), Consistent(c), page \in Pages(c.op)
      PROVE  WellTyped' /\ CallsAreConsistent'
  <2>1. DOMAIN calls' = 1..(m + 1) /\ calls'[m + 1] = c
    BY <1>4 DEF Sends
  <2>2. \A j \in 1..m : Consistent(calls'[j]) /\ page \in Pages(calls'[j].op)
    BY <1>1, <1>4, KeptConsistent
  <2>3. \A j \in DOMAIN calls' : Consistent(calls'[j]) /\ page \in Pages(calls'[j].op)
    BY <1>2, <1>4, <2>1, <2>2
  <2> QED BY <1>1, <1>4, <2>3, TypesStay, NowConsistent
<1>5. CASE Ends(i)
  BY <1>3, <1>5, EndCalls DEF m
<1>6. CASE Reloads(i)
  <2>1. calls[i].view \in Views /\ calls[i].job \in Jobs
    BY AnsweredCall
  <2>2. /\ Keeps(i, m) /\ Sends(m, List(calls[i].view, calls[i].job)) /\ calls' \in Seq(CallSet)
    BY <1>6, ReloadCalls DEF Reloads, m
  <2>3. /\ List(calls[i].view, calls[i].job) \in CallSet
        /\ Consistent(List(calls[i].view, calls[i].job))
        /\ page \in Pages(List(calls[i].view, calls[i].job).op)
    BY <1>1, <2>1, ListIsACall, ListIsConsistent
  <2> QED BY <1>4, <2>2, <2>3
<1>7. CASE Pays(i)
  <2> DEFINE c == [calls[i] EXCEPT !.op = "pay", !.state = "sent"]
  <2>1. /\ Keeps(i, m) /\ Sends(m, c) /\ calls' \in Seq(CallSet)
        /\ c \in CallSet /\ c.op = "pay" /\ c.row = calls[i].row /\ c.body = calls[i].body
        /\ c.job = calls[i].job
    BY <1>7, PayCalls DEF Pays, m
  <2> HIDE DEF c
  <2>2. calls[i].op = "update" /\ Consistent(calls[i]) /\ page = "donations"
    BY <1>7, AnsweredCall DEF Pays, ThenMarkPaid
  <2>3. Consistent(c) /\ page \in Pages(c.op)
    BY <2>1, <2>2 DEF Consistent, JobOf, Pages
  <2> QED BY <1>4, <2>1, <2>3
<1>8. CASE Shows(i)
  BY <1>3, <1>8, ShowCalls DEF m
<1>9. CASE ShowsAndAsks(i)
  <2>1. PICK v \in Views : calls' = Append(RemoveAt(Overtaken(i), i), List(v, "view"))
    BY <1>9 DEF ShowsAndAsks
  <2>2. Keeps(i, m) /\ Sends(m, List(v, "view")) /\ calls' \in Seq(CallSet)
    BY <2>1, ShowAndAskCalls DEF m
  <2> QED BY <1>1, <1>4, <2>2, ListIsACall, ListIsConsistent DEF Jobs
<1> QED BY <1>5, <1>6, <1>7, <1>8, <1>9 DEF AnswerMoves

LEMMA ServeTypes ==
  ASSUME WellTyped, CallsAreConsistent, NEW i \in DOMAIN calls, ServeMoves(i)
  PROVE  WellTyped' /\ CallsAreConsistent'
<1>1. /\ UNCHANGED <<page, ui, staff, opened, sent>> /\ ui \in UiSet /\ db' \in TableSet
      /\ opened \in 0..MaxForms /\ sent \in 0..MaxCalls /\ db \in TableSet
  BY DEF ServeMoves, WellTyped
<1>2. untold' \in BOOLEAN
  BY DEF ServeMoves, Wrote, Read, Turned, WellTyped
<1>3. /\ calls' \in Seq(CallSet) /\ DOMAIN calls' = DOMAIN calls
      /\ \A j \in DOMAIN calls : j # i => calls'[j] = calls[j]
      /\ calls'[i].op = calls[i].op /\ calls'[i].row = calls[i].row
      /\ calls'[i].body = calls[i].body /\ calls'[i].job = calls[i].job
  BY ServedCalls
<1>4. calls'[i].op = "list" /\ calls'[i].state = "ok" => calls'[i].got \in TableSet
  BY <1>1, <1>3 DEF ServeMoves, Wrote, Read, Turned
<1>5. \A j \in DOMAIN calls : Consistent(calls[j]) /\ page \in Pages(calls[j].op)
  BY DEF CallsAreConsistent
<1>6. Consistent(calls'[i]) /\ page \in Pages(calls'[i].op)
  BY <1>1, <1>3, <1>4, <1>5, SameConsistent
<1>7. \A j \in DOMAIN calls' : Consistent(calls'[j]) /\ page \in Pages(calls'[j].op)
  BY <1>3, <1>5, <1>6
<1> QED BY <1>1, <1>2, <1>3, <1>7, TypesStay, NowConsistent

LEMMA OthersTypes ==
  ASSUME WellTyped, CallsAreConsistent, OthersMove
  PROVE  WellTyped' /\ CallsAreConsistent'
<1>1. /\ UNCHANGED <<page, ui, calls, staff, opened, sent>> /\ untold' /\ db' \in TableSet
  BY DEF OthersMove
<1>2. CallsAreConsistent'
  BY <1>1, NowConsistent DEF CallsAreConsistent
<1> QED BY <1>1, <1>2, TypesStay DEF WellTyped

-----------------------------------------------------------------------------
(***************************************************************************)
(* One save at a time.  A save and the list read that ends it carry the    *)
(* same job, so that the submit button is disabled as long as one of them  *)
(* is in flight.                                                           *)
(***************************************************************************)
LEMMA SaveCalls ==
  ASSUME NEW i \in Int, NEW m, Keeps(i, m), OneSave,
         \/ Nothing(m) /\ ui'.submitting = (ui.submitting /\ i \notin Saves)
         \/ \E c : /\ Sends(m, c)
                   /\ c.job # "save" /\ ui'.submitting = (ui.submitting /\ i \notin Saves)
         \/ \E c : /\ Sends(m, c) /\ c.job = "save" /\ ui'.submitting
                   /\ Saves \ {i} = {}
  PROVE  /\ \A a, b \in Saves' : a = b
         /\ ui'.submitting <=> Saves' # {}
<1>1. /\ m \in Nat /\ 1..m \subseteq DOMAIN calls'
      /\ \A j \in 1..m : Skip(i, j) \in DOMAIN calls \ {i}
                         /\ calls'[j].job = calls[Skip(i, j)].job
      /\ \A k \in DOMAIN calls \ {i} : \E j \in 1..m : Skip(i, j) = k
  BY DEF Keeps
<1>2. /\ \A a, b \in Saves : a = b
      /\ ui.submitting <=> Saves # {}
  BY DEF OneSave
<1>3. \A j \in 1..m : j \in Saves' <=> Skip(i, j) \in Saves \ {i}
  BY <1>1 DEF Saves
<1>4. \A a, b \in 1..m : Skip(i, a) = Skip(i, b) => a = b
  BY <1>1 DEF Skip
<1>5. Saves \subseteq DOMAIN calls
  BY DEF Saves
<1>6. ASSUME Saves' \subseteq 1..m, ui'.submitting = (ui.submitting /\ i \notin Saves)
      PROVE  /\ \A a, b \in Saves' : a = b
             /\ ui'.submitting <=> Saves' # {}
  <2>1. \A a, b \in Saves' : a = b
    <3> SUFFICES ASSUME NEW a \in Saves', NEW b \in Saves'
                 PROVE  a = b
      OBVIOUS
    <3>1. Skip(i, a) \in Saves /\ Skip(i, b) \in Saves /\ a \in 1..m /\ b \in 1..m
      BY <1>3, <1>6
    <3>2. Skip(i, a) = Skip(i, b)
      BY <1>2, <3>1
    <3> QED BY <1>4, <3>1, <3>2
  <2>2. CASE Saves \ {i} # {}
    <3>1. PICK k \in Saves \ {i} : TRUE
      BY <2>2
    <3>2. PICK j \in 1..m : Skip(i, j) = k
      BY <1>1, <1>5, <3>1
    <3>3. j \in Saves'
      BY <1>3, <3>1, <3>2
    <3>4. i \notin Saves /\ Saves # {}
      BY <1>2, <3>1
    <3> QED BY <1>2, <1>6, <2>1, <3>3, <3>4
  <2>3. CASE Saves \ {i} = {}
    <3>1. Saves' = {}
      BY <1>3, <1>6, <2>3
    <3>2. Saves = {} \/ i \in Saves
      BY <2>3
    <3> QED BY <1>2, <1>6, <3>1, <3>2
  <2> QED BY <2>2, <2>3
<1>7. CASE Nothing(m) /\ ui'.submitting = (ui.submitting /\ i \notin Saves)
  BY <1>6, <1>7 DEF Nothing, Saves
<1>8. ASSUME NEW c, Sends(m, c), c.job # "save",
             ui'.submitting = (ui.submitting /\ i \notin Saves)
      PROVE  /\ \A a, b \in Saves' : a = b
             /\ ui'.submitting <=> Saves' # {}
  <2>1. DOMAIN calls' = 1..(m + 1) /\ calls'[m + 1].job # "save"
    BY <1>8 DEF Sends
  <2>2. Saves' \subseteq 1..m
    BY <1>1, <2>1 DEF Saves
  <2> QED BY <1>6, <1>8, <2>2
<1>9. ASSUME NEW c, Sends(m, c), c.job = "save", ui'.submitting, Saves \ {i} = {}
      PROVE  /\ \A a, b \in Saves' : a = b
             /\ ui'.submitting <=> Saves' # {}
  <2>1. DOMAIN calls' = 1..(m + 1) /\ calls'[m + 1].job = "save"
    BY <1>9 DEF Sends
  <2>2. \A j \in 1..m : j \notin Saves'
    BY <1>3, <1>9
  <2>3. Saves' \subseteq DOMAIN calls'
    BY DEF Saves
  <2>4. m + 1 \in Saves'
    BY <1>1, <2>1 DEF Saves
  <2>5. Saves' = {m + 1}
    BY <1>1, <2>1, <2>2, <2>3, <2>4
  <2> QED BY <1>9, <2>5
<1> QED BY <1>7, <1>8, <1>9

LEMMA LoadCalls ==
  ASSUME NEW i \in Int, NEW m, Keeps(i, m), OneSave, page' = page,
         \/ Nothing(m)
         \/ \E c : Sends(m, c) /\ (page = "settings" /\ c.op = "list" => c.job = "view"),
         \/ ui'.loading = ui.loading /\ i \notin Lists
         \/ ~ui'.loading
         \/ \E c : Sends(m, c) /\ c.op = "list"
  PROVE  /\ ui'.loading => Lists' # {}
         /\ page' = "settings" => \A j \in Lists' : calls'[j].job = "view"
<1>1. /\ m \in Nat /\ 1..m \subseteq DOMAIN calls'
      /\ \A j \in 1..m : /\ Skip(i, j) \in DOMAIN calls
                         /\ calls'[j].op = calls[Skip(i, j)].op
                         /\ calls'[j].job = calls[Skip(i, j)].job
      /\ \A k \in DOMAIN calls \ {i} : \E j \in 1..m : Skip(i, j) = k
  BY DEF Keeps
<1>2. /\ ui.loading => Lists # {}
      /\ page = "settings" => \A j \in Lists : calls[j].job = "view"
  BY DEF OneSave
<1>3. \A j \in 1..m : j \in Lists' <=> Skip(i, j) \in Lists
  BY <1>1 DEF Lists
<1>4. ui'.loading => Lists' # {}
  <2>1. CASE ui'.loading = ui.loading /\ i \notin Lists
    <3>1. SUFFICES ASSUME Lists # {}
                   PROVE  Lists' # {}
      BY <1>2, <2>1
    <3>2. PICK k \in DOMAIN calls \ {i} : k \in Lists
      BY <2>1, <3>1 DEF Lists
    <3>3. PICK j \in 1..m : Skip(i, j) = k
      BY <1>1
    <3> QED BY <1>3, <3>2, <3>3
  <2>2. CASE \E c : Sends(m, c) /\ c.op = "list"
    <3>1. m + 1 \in Lists'
      BY <1>1, <2>2 DEF Sends, Lists
    <3> QED BY <3>1
  <2> QED BY <2>1, <2>2
<1>5. page' = "settings" => \A j \in Lists' : calls'[j].job = "view"
  <2> SUFFICES ASSUME page = "settings", NEW j \in Lists'
               PROVE  calls'[j].job = "view"
    OBVIOUS
  <2>1. CASE j \in 1..m
    BY <1>1, <1>2, <1>3, <2>1
  <2>2. CASE j \notin 1..m
    <3>1. j \in DOMAIN calls' /\ calls'[j].op = "list"
      BY DEF Lists
    <3>2. ~Nothing(m)
      BY <2>2, <3>1 DEF Nothing
    <3>3. PICK c : Sends(m, c) /\ (page = "settings" /\ c.op = "list" => c.job = "view")
      BY <3>2
    <3>4. j = m + 1 /\ calls'[m + 1] = c
      BY <1>1, <2>2, <3>1, <3>3 DEF Sends
    <3> QED BY <3>1, <3>3, <3>4
  <2> QED BY <2>1, <2>2
<1> QED BY <1>4, <1>5

LEMMA NoneIsNone ==
  ASSUME WellTyped
  PROVE  None \in Int /\ None \notin DOMAIN calls /\ None \notin Saves /\ None \notin Lists
BY CallsTyped DEF None, Saves, Lists

LEMMA UserSaves ==
  ASSUME WellTyped, OneSave, UserMoves
  PROVE  OneSave'
<1>1. /\ page' = page /\ ui.submitting \in BOOLEAN
      /\ None \in Int /\ None \notin Saves /\ None \notin Lists
  BY NoneIsNone DEF UserMoves, WellTyped, UiSet
<1>2. CASE Rests
  <2>1. Keeps(None, Len(calls)) /\ Nothing(Len(calls))
    BY <1>2, RestCalls
  <2>2. ui'.submitting = (ui.submitting /\ None \notin Saves) /\ ui'.loading = ui.loading
    BY <1>1, <1>2 DEF Rests
  <2> QED BY <1>1, <2>1, <2>2, SaveCalls, LoadCalls DEF OneSave
<1>3. ASSUME NEW v \in Views, Asks(v)
      PROVE  OneSave'
  <2> DEFINE c == List(v, "view")
  <2>1. Keeps(None, Len(calls)) /\ Sends(Len(calls), c)
    BY <1>3, AskCalls
  <2>2. c.op = "list" /\ c.job = "view"
    BY DEF List
  <2>3. ui'.submitting = (ui.submitting /\ None \notin Saves)
    BY <1>1, <1>3 DEF Asks
  <2> HIDE DEF c
  <2> QED BY <1>1, <2>1, <2>2, <2>3, SaveCalls, LoadCalls DEF OneSave
<1>4. ASSUME NEW c \in CallSet, Writes(c)
      PROVE  OneSave'
  <2>1. Keeps(None, Len(calls)) /\ Sends(Len(calls), c)
    BY <1>4, WriteCalls
  <2>2. /\ c.op # "list" /\ ui'.loading = ui.loading
        /\ c.job = "save" => ~ui.submitting
        /\ ui'.submitting = (ui.submitting \/ c.job = "save")
    BY <1>4 DEF Writes
  <2>3. /\ ui'.loading => Lists' # {}
        /\ page' = "settings" => \A j \in Lists' : calls'[j].job = "view"
    BY <1>1, <2>1, <2>2, LoadCalls
  <2>4. CASE c.job = "save"
    <3>1. Saves \ {None} = {} /\ ui'.submitting
      BY <2>2, <2>4 DEF OneSave
    <3> QED BY <1>1, <2>1, <2>3, <2>4, <3>1, SaveCalls DEF OneSave
  <2>5. CASE c.job # "save"
    <3>1. ui'.submitting = (ui.submitting /\ None \notin Saves)
      BY <1>1, <2>2, <2>5
    <3> QED BY <1>1, <2>1, <2>3, <2>5, <3>1, SaveCalls DEF OneSave
  <2> QED BY <2>4, <2>5
<1> QED BY <1>2, <1>3, <1>4 DEF UserMoves

LEMMA AnswerSaves ==
  ASSUME WellTyped, CallsAreConsistent, OneSave, NEW i \in DOMAIN calls, AnswerMoves(i)
  PROVE  OneSave'
<1> DEFINE m == Len(calls) - 1
<1>1. /\ page' = page /\ ui.submitting \in BOOLEAN /\ i \in Int
      /\ i \in Saves <=> calls[i].job = "save"
      /\ i \in Lists <=> calls[i].op = "list"
  BY CallsTyped DEF AnswerMoves, Done, WellTyped, UiSet, Saves, Lists
<1>2. \A a, b \in Saves : a = b
  BY DEF OneSave
<1> HIDE DEF m
<1>3. CASE Ends(i)
  <2>1. Keeps(i, m) /\ Nothing(m)
    BY <1>3, EndCalls DEF m
  <2>2. /\ ui'.submitting = (ui.submitting /\ i \notin Saves)
        /\ ui'.loading = ui.loading /\ i \notin Lists
    BY <1>1, <1>3 DEF Ends
  <2> QED BY <1>1, <2>1, <2>2, SaveCalls, LoadCalls DEF OneSave
<1>4. CASE Reloads(i)
  <2> DEFINE c == List(calls[i].view, calls[i].job)
  <2>1. Keeps(i, m) /\ Sends(m, c)
    BY <1>4, ReloadCalls DEF m, Reloads
  <2>2. c.op = "list" /\ c.job = calls[i].job
    BY DEF List
  <2> HIDE DEF c
  <2>3. ui'.submitting = ui.submitting /\ page # "settings"
    BY <1>4 DEF Reloads, MayCreate, CrudPageNames
  <2>4. /\ ui'.loading => Lists' # {}
        /\ page' = "settings" => \A j \in Lists' : calls'[j].job = "view"
    BY <1>1, <2>1, <2>2, <2>3, LoadCalls
  <2>5. CASE calls[i].job = "save"
    <3>1. Saves \ {i} = {} /\ ui'.submitting
      BY <1>1, <1>2, <2>3, <2>5 DEF OneSave
    <3> QED BY <1>1, <2>1, <2>2, <2>4, <2>5, <3>1, SaveCalls DEF OneSave
  <2>6. CASE calls[i].job # "save"
    <3>1. ui'.submitting = (ui.submitting /\ i \notin Saves)
      BY <1>1, <2>3, <2>6
    <3> QED BY <1>1, <2>1, <2>2, <2>4, <2>6, <3>1, SaveCalls DEF OneSave
  <2> QED BY <2>5, <2>6
<1>5. CASE Pays(i)
  <2> DEFINE c == [calls[i] EXCEPT !.op = "pay", !.state = "sent"]
  <2>1. Keeps(i, m) /\ Sends(m, c) /\ c.op = "pay" /\ c.job = calls[i].job
    BY <1>5, PayCalls DEF Pays, m
  <2> HIDE DEF c
  <2>2. calls[i].op = "update" /\ calls[i].job = "save" /\ ui' = ui
    BY <1>5, AnsweredCall DEF Pays, ThenMarkPaid, JobOf
  <2>3. Saves \ {i} = {} /\ ui'.submitting
    BY <1>1, <1>2, <2>2 DEF OneSave
  <2>4. i \notin Lists /\ ui'.loading = ui.loading
    BY <1>1, <2>2
  <2>5. /\ ui'.loading => Lists' # {}
        /\ page' = "settings" => \A j \in Lists' : calls'[j].job = "view"
    BY <1>1, <2>1, <2>4, LoadCalls
  <2> QED BY <1>1, <2>1, <2>2, <2>3, <2>5, SaveCalls DEF OneSave
<1>6. CASE Shows(i)
  <2>1. Keeps(i, m) /\ Nothing(m)
    BY <1>6, ShowCalls DEF m
  <2>2. calls[i].op = "list" /\ ~ui'.loading
        /\ ui'.submitting = (ui.submitting /\ (page = "settings" \/ calls[i].job # "save"))
    BY <1>6 DEF Shows
  <2>3. page = "settings" => calls[i].job = "view"
    BY <1>1, <2>2 DEF OneSave
  <2>4. ui'.submitting = (ui.submitting /\ i \notin Saves)
    BY <1>1, <2>2, <2>3
  <2> QED BY <1>1, <2>1, <2>2, <2>4, SaveCalls, LoadCalls DEF OneSave
<1>7. CASE ShowsAndAsks(i)
  <2>1. PICK v \in Views : calls' = Append(RemoveAt(Overtaken(i), i), List(v, "view"))
    BY <1>7 DEF ShowsAndAsks
  <2> DEFINE c == List(v, "view")
  <2>2. Keeps(i, m) /\ Sends(m, c)
    BY <2>1, ShowAndAskCalls DEF m
  <2>3. c.op = "list" /\ c.job = "view"
    BY DEF List
  <2> HIDE DEF c
  <2>4. ui'.submitting = (ui.submitting /\ i \notin Saves)
    BY <1>1, <1>7 DEF ShowsAndAsks
  <2> QED BY <1>1, <2>2, <2>3, <2>4, SaveCalls, LoadCalls DEF OneSave
<1> QED BY <1>3, <1>4, <1>5, <1>6, <1>7 DEF AnswerMoves

LEMMA ServeSaves ==
  ASSUME WellTyped, OneSave, NEW i \in DOMAIN calls, ServeMoves(i)
  PROVE  OneSave'
<1>1. /\ DOMAIN calls' = DOMAIN calls
      /\ \A j \in DOMAIN calls : calls'[j].op = calls[j].op /\ calls'[j].job = calls[j].job
  BY ServedCalls
<1>2. Saves' = Saves /\ Lists' = Lists /\ Lists \subseteq DOMAIN calls
  BY <1>1 DEF Saves, Lists
<1>3. ui' = ui /\ page' = page
  BY DEF ServeMoves
<1> QED BY <1>1, <1>2, <1>3 DEF OneSave

LEMMA OthersSave ==
  ASSUME OneSave, OthersMove
  PROVE  OneSave'
<1>1. ui' = ui /\ page' = page /\ calls' = calls
  BY DEF OthersMove
<1>2. Saves' = Saves /\ Lists' = Lists
  BY <1>1 DEF Saves, Lists
<1> QED BY <1>1, <1>2 DEF OneSave

-----------------------------------------------------------------------------
(***************************************************************************)
(* The list follows the filter.  A look is a list asked for by the filter  *)
(* or by "refresh" that no other list has overtaken.                       *)
(***************************************************************************)
Fixed == {"settings", "receipts", "cards"}

Looks == {i \in Lists : calls[i].job = "view" /\ ~calls[i].passed}

\* The pages that have no filter.
OneView ==
    page \in Fixed =>
        /\ ui.filter = NoFilter /\ ui.list.view = NoFilter
        /\ \A i \in DOMAIN calls : calls[i].view = NoFilter

\* After a look for an old filter comes one for the filter on screen.
LooksInOrder ==
    \A i \in Looks : calls[i].view # ui.filter =>
        \E j \in Looks : i < j /\ calls[j].view = ui.filter

\* A list of an old filter is on screen under an error, or while something is
\* in flight that changes it or shows an error.
Changes(c) == IF c.op = "list" THEN c.job # "view" ELSE c.job \in {"save", "act"}

ListWillFollow ==
    ui.list.kind = "view" /\ ui.list.view # ui.filter =>
        \/ ui.error
        \/ \E i \in Looks : calls[i].view = ui.filter
        \/ \E i \in DOMAIN calls : Changes(calls[i])

FollowInv == OneView /\ LooksInOrder /\ ListWillFollow

LEMMA SkipKeepsOrder ==
  ASSUME NEW i \in Int, NEW a \in Int, NEW b \in Int
  PROVE  /\ a < b <=> Skip(i, a) < Skip(i, b)
         /\ Skip(i, a) \in Int
BY DEF Skip

\* A look that stays: none is overtaken, or it comes after the list that arrives.
LEMMA LooksStay ==
  ASSUME WellTyped, NEW i \in Int, NEW m, Keeps(i, m),
         \/ Undisturbed(i, m) /\ i \notin Lists
         \/ Overtakes(i, m) /\ i \in Lists
  PROVE  /\ \A j \in 1..m : j \in Looks' =>
               /\ Skip(i, j) \in Looks /\ calls'[j].view = calls[Skip(i, j)].view
               /\ i \in Lists => i < Skip(i, j)
         /\ \A k \in Looks : (i \in Lists => i < k) =>
               \E j \in 1..m : Skip(i, j) = k /\ j \in Looks' /\ calls'[j].view = calls[k].view
<1>1. /\ m \in Nat /\ 1..m \subseteq DOMAIN calls'
      /\ \A j \in 1..m : /\ Skip(i, j) \in DOMAIN calls \ {i}
                         /\ calls'[j].op = calls[Skip(i, j)].op
                         /\ calls'[j].job = calls[Skip(i, j)].job
                         /\ calls'[j].view = calls[Skip(i, j)].view
      /\ \A k \in DOMAIN calls \ {i} : \E j \in 1..m : Skip(i, j) = k
  BY DEF Keeps
<1>2. DOMAIN calls \subseteq Int /\ \A k \in DOMAIN calls : calls[k].passed \in BOOLEAN
  BY CallsTyped DEF CallSet
<1>3. ASSUME NEW j \in 1..m
      PROVE  /\ j \in Looks' <=> Skip(i, j) \in Looks /\ (i \in Lists => i < Skip(i, j))
  <2> DEFINE k == Skip(i, j)
  <2>1. /\ k \in DOMAIN calls /\ k # i /\ k \in Int
        /\ calls'[j].op = calls[k].op /\ calls'[j].job = calls[k].job
        /\ j \in DOMAIN calls'
    BY <1>1, <1>2
  <2>2. j \in Looks' <=> calls'[j].op = "list" /\ calls'[j].job = "view" /\ ~calls'[j].passed
    BY <2>1 DEF Looks, Lists
  <2>3. k \in Looks <=> calls[k].op = "list" /\ calls[k].job = "view" /\ ~calls[k].passed
    BY <2>1 DEF Looks, Lists
  <2>4. CASE Undisturbed(i, m) /\ i \notin Lists
    <3>1. calls'[j].passed = calls[k].passed
      BY <2>4 DEF Undisturbed
    <3> QED BY <2>1, <2>2, <2>3, <2>4, <3>1
  <2>5. CASE Overtakes(i, m) /\ i \in Lists
    <3>1. calls'[j].passed <=> (calls[k].passed \/ (k < i /\ calls'[j].op = "list"))
      BY <2>5 DEF Overtakes
    <3>2. ~(k < i) <=> i < k
      BY <2>1
    <3> QED BY <2>1, <2>2, <2>3, <2>5, <3>1, <3>2
  <2> QED BY <2>4, <2>5
<1>4. \A j \in 1..m : j \in Looks' =>
         /\ Skip(i, j) \in Looks /\ calls'[j].view = calls[Skip(i, j)].view
         /\ i \in Lists => i < Skip(i, j)
  BY <1>1, <1>3
<1>5. ASSUME NEW k \in Looks, i \in Lists => i < k
      PROVE  \E j \in 1..m : Skip(i, j) = k /\ j \in Looks' /\ calls'[j].view = calls[k].view
  <2>1. k \in DOMAIN calls /\ k # i
    BY <1>2, <1>5 DEF Looks, Lists
  <2>2. PICK j \in 1..m : Skip(i, j) = k
    BY <1>1, <2>1
  <2> QED BY <1>1, <1>3, <1>5, <2>2
<1> QED BY <1>4, <1>5

LEMMA LooksStayInOrder ==
  ASSUME WellTyped, LooksInOrder, NEW i \in Int, NEW m, Keeps(i, m),
         \/ Undisturbed(i, m) /\ i \notin Lists
         \/ Overtakes(i, m) /\ i \in Lists,
         ui'.filter = ui.filter,
         Nothing(m) \/ \E c : Sends(m, c) /\ (c.op # "list" \/ c.job # "view")
  PROVE  LooksInOrder'
<1> SUFFICES ASSUME NEW a \in Looks', calls'[a].view # ui'.filter
             PROVE  \E b \in Looks' : a < b /\ calls'[b].view = ui'.filter
  BY DEF LooksInOrder
<1>1. m \in Nat
  BY DEF Keeps
<1>2. a \in 1..m
  <2>1. a \in DOMAIN calls' /\ calls'[a].op = "list" /\ calls'[a].job = "view"
    BY DEF Looks, Lists
  <2>2. CASE Nothing(m)
    BY <2>1, <2>2 DEF Nothing
  <2>3. CASE \E c : Sends(m, c) /\ (c.op # "list" \/ c.job # "view")
    BY <1>1, <2>1, <2>3 DEF Sends
  <2> QED BY <2>2, <2>3
<1>3. /\ Skip(i, a) \in Looks /\ calls'[a].view = calls[Skip(i, a)].view
      /\ i \in Lists => i < Skip(i, a)
  BY <1>2, LooksStay
<1>4. PICK l \in Looks : Skip(i, a) < l /\ calls[l].view = ui.filter
  BY <1>3 DEF LooksInOrder
<1>5. l \in Int /\ Skip(i, a) \in Int
  BY <1>3, CallsTyped DEF Looks, Lists
<1>6. i \in Lists => i < l
  BY <1>3, <1>4, <1>5
<1>7. PICK b \in 1..m : Skip(i, b) = l /\ b \in Looks' /\ calls'[b].view = calls[l].view
  BY <1>6, LooksStay
<1>8. a < b
  BY <1>2, <1>4, <1>7, SkipKeepsOrder
<1> QED BY <1>4, <1>7, <1>8

\* The filter on screen is asked for.
LEMMA NewLook ==
  ASSUME NEW i, NEW m, Keeps(i, m), NEW v, Sends(m, List(v, "view")), ui'.filter = v
  PROVE  LooksInOrder' /\ ListWillFollow'
<1>1. /\ m \in Nat /\ DOMAIN calls' = 1..(m + 1)
      /\ calls'[m + 1] = List(v, "view")
  BY DEF Keeps, Sends
<1>2. m + 1 \in Looks' /\ calls'[m + 1].view = ui'.filter
  BY <1>1 DEF Looks, Lists, List
<1>3. \A a \in Looks' : a # m + 1 => a < m + 1
  BY <1>1 DEF Looks, Lists
<1> QED BY <1>2, <1>3 DEF LooksInOrder, ListWillFollow

\* Something is sent that will change the list.
LEMMA NewChange ==
  ASSUME NEW i, NEW m, Keeps(i, m), NEW c, Sends(m, c), Changes(c)
  PROVE  ListWillFollow'
<1>1. m + 1 \in DOMAIN calls' /\ Changes(calls'[m + 1])
  BY DEF Keeps, Sends
<1>2. \E j \in DOMAIN calls' : Changes(calls'[j])
  BY <1>1
<1> QED BY <1>2 DEF ListWillFollow, Changes

LEMMA ListStillFollows ==
  ASSUME WellTyped, ListWillFollow, NEW i \in Int, NEW m, Keeps(i, m),
         Undisturbed(i, m), i \notin Lists,
         ui'.filter = ui.filter, ui'.list = ui.list, ui.error => ui'.error,
         i \in DOMAIN calls => ~Changes(calls[i])
  PROVE  ListWillFollow'
<1>1. ASSUME NEW k \in Looks, calls[k].view = ui.filter
      PROVE  \E j \in Looks' : calls'[j].view = ui'.filter
  BY <1>1, LooksStay
<1>2. ASSUME NEW k \in DOMAIN calls, Changes(calls[k])
      PROVE  \E j \in DOMAIN calls' : Changes(calls'[j])
  <2>1. PICK j \in 1..m : Skip(i, j) = k
    BY <1>2 DEF Keeps
  <2>2. j \in DOMAIN calls' /\ calls'[j].op = calls[k].op /\ calls'[j].job = calls[k].job
    BY <2>1 DEF Keeps
  <2> QED BY <1>2, <2>2 DEF Changes
<1> QED BY <1>1, <1>2 DEF ListWillFollow, Changes

\* A page without a filter keeps none.
LEMMA ViewStays ==
  ASSUME WellTyped, OneView, page' = page, NEW i, NEW m, Keeps(i, m),
         Nothing(m) \/ \E c : Sends(m, c) /\ (page \in Fixed => c.view = NoFilter),
         page \in Fixed => ui'.filter = NoFilter /\ ui'.list.view = NoFilter
  PROVE  OneView'
<1> SUFFICES ASSUME page \in Fixed, NEW j \in DOMAIN calls'
             PROVE  calls'[j].view = NoFilter
  BY DEF OneView, Fixed
<1>1. m \in Nat
  BY DEF Keeps
<1>2. CASE j \in 1..m
  <2>1. Skip(i, j) \in DOMAIN calls /\ calls'[j].view = calls[Skip(i, j)].view
    BY <1>2 DEF Keeps
  <2> QED BY <2>1 DEF OneView
<1>3. CASE j \notin 1..m
  <2>1. ~Nothing(m)
    BY <1>3 DEF Nothing
  <2>2. PICK c : Sends(m, c) /\ (page \in Fixed => c.view = NoFilter)
    BY <2>1
  <2> QED BY <1>1, <1>3, <2>2 DEF Sends
<1> QED BY <1>2, <1>3

LEMMA FixedFollows ==
  ASSUME OneView, page \in Fixed
  PROVE  LooksInOrder /\ ListWillFollow
BY DEF OneView, LooksInOrder, ListWillFollow, Looks, Lists

LEMMA NextFixedFollows ==
  ASSUME OneView', page' \in Fixed
  PROVE  LooksInOrder' /\ ListWillFollow'
BY DEF OneView, LooksInOrder, ListWillFollow, Looks, Lists, Fixed

LEMMA PagesAreSplit ==
  ASSUME page \in PageNames
  PROVE  page \in MayCreate <=> page \notin Fixed
BY DEF PageNames, MayCreate, Fixed, CrudPageNames

LEMMA UserFollows ==
  ASSUME WellTyped, FollowInv, UserMoves
  PROVE  FollowInv'
<1>1. /\ page' = page /\ page \in PageNames
      /\ None \in Int /\ None \notin DOMAIN calls /\ None \notin Lists
  BY NoneIsNone DEF UserMoves, WellTyped
<1>2. CASE Rests
  <2>1. /\ Keeps(None, Len(calls)) /\ Nothing(Len(calls))
        /\ page \in MayCreate => Undisturbed(None, Len(calls))
    BY <1>2, RestCalls
  <2>2. ui'.filter = ui.filter /\ ui'.list = ui.list /\ (ui.error => ui'.error)
    BY <1>2 DEF Rests
  <2>3. OneView'
    BY <1>1, <2>1, <2>2, ViewStays DEF FollowInv, OneView
  <2>4. CASE page \in Fixed
    BY <1>1, <2>3, <2>4, NextFixedFollows DEF FollowInv
  <2>5. CASE page \notin Fixed
    BY <1>1, <2>1, <2>2, <2>3, <2>5, PagesAreSplit, LooksStayInOrder, ListStillFollows
       DEF FollowInv
  <2> QED BY <2>4, <2>5
<1>3. ASSUME NEW v \in Views, Asks(v)
      PROVE  FollowInv'
  <2>1. Keeps(None, Len(calls)) /\ Sends(Len(calls), List(v, "view"))
    BY <1>3, AskCalls
  <2>2. /\ ui'.filter = v /\ ui'.list = ui.list
        /\ page \in Fixed => v = NoFilter
    BY <1>3 DEF Asks, Fixed
  <2>3. List(v, "view").view = v
    BY DEF List
  <2>4. OneView'
    BY <1>1, <2>1, <2>2, <2>3, ViewStays DEF FollowInv, OneView
  <2> QED BY <2>1, <2>2, <2>4, NewLook DEF FollowInv
<1>4. ASSUME NEW c \in CallSet, Writes(c)
      PROVE  FollowInv'
  <2>1. /\ Keeps(None, Len(calls)) /\ Sends(Len(calls), c)
        /\ Undisturbed(None, Len(calls))
    BY <1>4, WriteCalls
  <2>2. /\ c.op # "list" /\ c.view = ui.filter /\ Consistent(c)
        /\ ui'.filter = ui.filter /\ ui'.list = ui.list
        /\ c.job = "bare" => ui'.error = ui.error
    BY <1>4 DEF Writes
  <2>3. OneView'
    BY <1>1, <2>1, <2>2, ViewStays DEF FollowInv, OneView
  <2>4. LooksInOrder'
    BY <1>1, <2>1, <2>2, LooksStayInOrder DEF FollowInv
  <2>5. CASE c.job = "bare"
    BY <1>1, <2>1, <2>2, <2>3, <2>4, <2>5, ListStillFollows DEF FollowInv
  <2>6. CASE c.job # "bare"
    <3>1. c.job \in {"save", "act"}
      BY <1>4, <2>2, <2>6 DEF Consistent, JobOf, CallSet, Ops
    <3>2. Changes(c)
      BY <2>2, <3>1 DEF Changes
    <3> QED BY <2>1, <2>3, <2>4, <3>2, NewChange DEF FollowInv
  <2> QED BY <2>5, <2>6
<1> QED BY <1>2, <1>3, <1>4 DEF UserMoves

LEMMA AnswerFollows ==
  ASSUME WellTyped, CallsAreConsistent, FollowInv, NEW i \in DOMAIN calls, AnswerMoves(i)
  PROVE  FollowInv'
<1> DEFINE m == Len(calls) - 1
<1>1. /\ page' = page /\ page \in PageNames /\ i \in Int
      /\ i \in Lists <=> calls[i].op = "list"
  BY CallsTyped DEF AnswerMoves, Done, WellTyped, Lists
<1>2. calls[i].op # "list" => calls[i].job # "view"
  BY AnsweredCall DEF JobOf, Ops
<1>3. page \in Fixed => page \notin MayCreate
  BY <1>1, PagesAreSplit
<1> HIDE DEF m
<1>4. CASE Ends(i)
  <2>1. /\ Keeps(i, m) /\ Nothing(m)
        /\ page \in MayCreate => Undisturbed(i, m)
    BY <1>4, EndCalls DEF m
  <2>2. ui'.filter = ui.filter /\ ui'.list.view = ui.list.view /\ i \notin Lists
    BY <1>1, <1>4 DEF Ends
  <2>3. OneView'
    BY <1>1, <2>1, <2>2, ViewStays DEF FollowInv, OneView
  <2>4. CASE page \in Fixed
    BY <1>1, <2>3, <2>4, NextFixedFollows DEF FollowInv
  <2>5. CASE page \notin Fixed
    <3>1. /\ Undisturbed(i, m) /\ ui'.list = ui.list
          /\ IF calls[i].job = "bare" THEN ui'.error = ui.error ELSE ui'.error
      BY <1>1, <1>4, <2>1, <2>5, PagesAreSplit DEF Ends
    <3>2. LooksInOrder'
      BY <1>1, <2>1, <2>2, <3>1, LooksStayInOrder DEF FollowInv
    <3>3. CASE calls[i].job = "bare"
      <4>1. ~Changes(calls[i])
        BY <1>1, <2>2, <3>3 DEF Changes
      <4> QED BY <1>1, <2>1, <2>2, <2>3, <3>1, <3>2, <3>3, <4>1, ListStillFollows DEF FollowInv
    <3>4. CASE calls[i].job # "bare"
      BY <2>3, <3>1, <3>2, <3>4 DEF FollowInv, ListWillFollow
    <3> QED BY <3>3, <3>4
  <2> QED BY <2>4, <2>5
<1>5. CASE Reloads(i)
  <2> DEFINE c == List(calls[i].view, calls[i].job)
  <2>1. Keeps(i, m) /\ Undisturbed(i, m) /\ Sends(m, c)
    BY <1>5, ReloadCalls DEF m, Reloads
  <2>2. c.op = "list" /\ c.job = calls[i].job
    BY DEF List
  <2> HIDE DEF c
  <2>3. /\ ui'.filter = ui.filter /\ page \notin Fixed /\ i \notin Lists /\ c.job # "view"
    BY <1>1, <1>2, <1>3, <1>5, <2>2 DEF Reloads
  <2>4. OneView'
    BY <1>1, <2>3 DEF OneView, Fixed
  <2>5. Changes(c)
    BY <2>2, <2>3 DEF Changes
  <2> QED BY <1>1, <2>1, <2>3, <2>4, <2>5, LooksStayInOrder, NewChange DEF FollowInv
<1>6. CASE Pays(i)
  <2> DEFINE c == [calls[i] EXCEPT !.op = "pay", !.state = "sent"]
  <2>1. /\ Keeps(i, m) /\ Undisturbed(i, m) /\ Sends(m, c) /\ c.op = "pay"
        /\ c.job = calls[i].job
    BY <1>6, PayCalls DEF Pays, m
  <2> HIDE DEF c
  <2>2. calls[i].op = "update" /\ calls[i].job = "save" /\ ui' = ui /\ page = "donations"
    BY <1>6, AnsweredCall DEF Pays, ThenMarkPaid, JobOf
  <2>3. OneView'
    BY <1>1, <2>2 DEF OneView, Fixed
  <2>4. Changes(c) /\ i \notin Lists
    BY <1>1, <2>1, <2>2 DEF Changes
  <2> QED BY <1>1, <2>1, <2>2, <2>3, <2>4, LooksStayInOrder, NewChange DEF FollowInv
<1>7. CASE Shows(i)
  <2>1. Keeps(i, m) /\ Overtakes(i, m) /\ Nothing(m)
    BY <1>7, ShowCalls DEF m
  <2>2. /\ calls[i].op = "list" /\ ui'.filter = ui.filter
        /\ ui'.list.view \in {ui.list.view, calls[i].view} /\ i \in Lists
    BY <1>1, <1>7 DEF Shows
  <2>3. OneView'
    BY <1>1, <2>1, <2>2, ViewStays DEF FollowInv, OneView
  <2>4. CASE page \in Fixed
    BY <1>1, <2>3, <2>4, NextFixedFollows DEF FollowInv
  <2>5. CASE page \notin Fixed
    <3>1. LooksInOrder'
      BY <1>1, <2>1, <2>2, LooksStayInOrder DEF FollowInv
    <3>2. /\ ui'.list = IF calls[i].state = "ok" THEN Listed(i) ELSE ui.list
          /\ calls[i].state = "failed" => ui'.error
      BY <1>1, <1>7, <2>5, PagesAreSplit DEF Shows
    <3>3. CASE calls[i].state # "ok"
      <4>1. calls[i].state = "failed"
        BY <3>3, AnsweredCall DEF AnswerMoves
      <4> QED BY <2>3, <3>1, <3>2, <4>1 DEF FollowInv, ListWillFollow
    <3>4. CASE calls[i].state = "ok"
      <4>1. SUFFICES ASSUME ui'.list.kind = "view", ui'.list.view # ui'.filter
                     PROVE  \E b \in Looks' : calls'[b].view = ui'.filter
        BY <2>3, <3>1 DEF FollowInv, ListWillFollow
      <4>2. i \in Looks /\ calls[i].view # ui.filter
        BY <2>2, <3>2, <3>4, <4>1 DEF Listed, Looks
      <4>3. PICK l \in Looks : i < l /\ calls[l].view = ui.filter
        BY <4>2 DEF FollowInv, LooksInOrder
      <4> QED BY <1>1, <2>1, <2>2, <4>3, LooksStay
    <3> QED BY <3>3, <3>4
  <2> QED BY <2>4, <2>5
<1>8. CASE ShowsAndAsks(i)
  <2>1. PICK v \in Views : /\ calls' = Append(RemoveAt(Overtaken(i), i), List(v, "view"))
                           /\ ui'.filter = v
    BY <1>8 DEF ShowsAndAsks
  <2>2. Keeps(i, m) /\ Sends(m, List(v, "view"))
    BY <2>1, ShowAndAskCalls DEF m
  <2>3. OneView'
    BY <1>1, <1>8 DEF OneView, Fixed, ShowsAndAsks
  <2> QED BY <2>1, <2>2, <2>3, NewLook DEF FollowInv
<1> QED BY <1>4, <1>5, <1>6, <1>7, <1>8 DEF AnswerMoves

LEMMA ServeFollows ==
  ASSUME WellTyped, FollowInv, NEW i \in DOMAIN calls, ServeMoves(i)
  PROVE  FollowInv'
<1>1. /\ DOMAIN calls' = DOMAIN calls
      /\ \A j \in DOMAIN calls : /\ calls'[j].op = calls[j].op /\ calls'[j].job = calls[j].job
                                 /\ calls'[j].view = calls[j].view
                                 /\ calls'[j].passed = calls[j].passed
  BY ServedCalls
<1>2. ui' = ui /\ page' = page
  BY DEF ServeMoves
<1>3. Looks' = Looks /\ Looks \subseteq DOMAIN calls
  BY <1>1 DEF Looks, Lists
<1>4. \A j \in DOMAIN calls : Changes(calls'[j]) <=> Changes(calls[j])
  BY <1>1 DEF Changes
<1>5. OneView'
  BY <1>1, <1>2 DEF FollowInv, OneView, Fixed
<1>6. LooksInOrder'
  BY <1>1, <1>2, <1>3 DEF FollowInv, LooksInOrder
<1>7. ListWillFollow'
  <2>1. \A j \in DOMAIN calls' : Changes(calls[j])' <=> Changes(calls[j])
    BY <1>1 DEF Changes
  <2> QED BY <1>1, <1>2, <1>3, <2>1 DEF FollowInv, ListWillFollow
<1> QED BY <1>5, <1>6, <1>7 DEF FollowInv

LEMMA OthersFollow ==
  ASSUME FollowInv, OthersMove
  PROVE  FollowInv'
<1>1. ui' = ui /\ page' = page /\ calls' = calls
  BY DEF OthersMove
<1>2. Looks' = Looks
  BY <1>1 DEF Looks, Lists
<1> QED BY <1>1, <1>2 DEF FollowInv, OneView, LooksInOrder, ListWillFollow, Changes, Fixed

-----------------------------------------------------------------------------
(***************************************************************************)
(* The list is fresh.  A read is a list in flight, for whatever filter,    *)
(* that no other list has overtaken; one that is not answered yet will see *)
(* the rows as they are.                                                   *)
(***************************************************************************)
Reading == {i \in Lists : ~calls[i].passed}
ReadsFresh(i) == calls[i].state = "ok" => calls[i].got = db

\* After a read that is out of date comes one that is not.
ReadsInOrder ==
    \A i \in Reading : ~ReadsFresh(i) => \E j \in Reading : i < j /\ ReadsFresh(j)

ListWillBeFresh ==
    \/ ui.list.rows = db
    \/ ui.list.kind = "late"
    \/ \E i \in Reading : ReadsFresh(i)

\* A write whose answer makes the page read the list again or show an error.
Writing(c) == c.op # "list" /\ (c.job \in {"save", "act"} \/ c.state = "ok")
WriteInFlight == \E i \in DOMAIN calls : Writing(calls[i])

FreshInv ==
    page \notin Fixed /\ ~untold =>
        ui.error \/ WriteInFlight \/ (ReadsInOrder /\ ListWillBeFresh)

LEMMA ReadsStay ==
  ASSUME WellTyped, db' = db, NEW i \in Int, NEW m, Keeps(i, m),
         \/ Undisturbed(i, m) /\ i \notin Lists
         \/ Overtakes(i, m) /\ i \in Lists
  PROVE  /\ \A j \in 1..m : j \in Reading' =>
               /\ Skip(i, j) \in Reading /\ (ReadsFresh(j)' <=> ReadsFresh(Skip(i, j)))
               /\ i \in Lists => i < Skip(i, j)
         /\ \A k \in Reading : (i \in Lists => i < k) =>
               \E j \in 1..m : /\ Skip(i, j) = k /\ j \in Reading'
                               /\ ReadsFresh(j)' <=> ReadsFresh(k)
<1>1. /\ m \in Nat /\ 1..m \subseteq DOMAIN calls'
      /\ \A j \in 1..m : /\ Skip(i, j) \in DOMAIN calls \ {i}
                         /\ calls'[j].op = calls[Skip(i, j)].op
                         /\ calls'[j].state = calls[Skip(i, j)].state
                         /\ calls'[j].got = calls[Skip(i, j)].got
      /\ \A k \in DOMAIN calls \ {i} : \E j \in 1..m : Skip(i, j) = k
  BY DEF Keeps
<1>2. DOMAIN calls \subseteq Int /\ \A k \in DOMAIN calls : calls[k].passed \in BOOLEAN
  BY CallsTyped DEF CallSet
<1>3. ASSUME NEW j \in 1..m
      PROVE  /\ j \in Reading' <=> Skip(i, j) \in Reading /\ (i \in Lists => i < Skip(i, j))
             /\ ReadsFresh(j)' <=> ReadsFresh(Skip(i, j))
  <2> DEFINE k == Skip(i, j)
  <2>1. /\ k \in DOMAIN calls /\ k # i /\ k \in Int
        /\ calls'[j].op = calls[k].op /\ j \in DOMAIN calls'
        /\ calls'[j].state = calls[k].state /\ calls'[j].got = calls[k].got
    BY <1>1, <1>2
  <2>2. j \in Reading' <=> calls'[j].op = "list" /\ ~calls'[j].passed
    BY <2>1 DEF Reading, Lists
  <2>3. k \in Reading <=> calls[k].op = "list" /\ ~calls[k].passed
    BY <2>1 DEF Reading, Lists
  <2>4. ReadsFresh(j)' <=> ReadsFresh(k)
    BY <2>1 DEF ReadsFresh
  <2>5. CASE Undisturbed(i, m) /\ i \notin Lists
    <3>1. calls'[j].passed = calls[k].passed
      BY <2>5 DEF Undisturbed
    <3> QED BY <2>1, <2>2, <2>3, <2>4, <2>5, <3>1
  <2>6. CASE Overtakes(i, m) /\ i \in Lists
    <3>1. calls'[j].passed <=> (calls[k].passed \/ (k < i /\ calls'[j].op = "list"))
      BY <2>6 DEF Overtakes
    <3>2. ~(k < i) <=> i < k
      BY <2>1
    <3> QED BY <2>1, <2>2, <2>3, <2>4, <2>6, <3>1, <3>2
  <2> QED BY <2>5, <2>6
<1>4. ASSUME NEW k \in Reading, i \in Lists => i < k
      PROVE  \E j \in 1..m : /\ Skip(i, j) = k /\ j \in Reading'
                             /\ ReadsFresh(j)' <=> ReadsFresh(k)
  <2>1. k \in DOMAIN calls /\ k # i
    BY <1>2, <1>4 DEF Reading, Lists
  <2>2. PICK j \in 1..m : Skip(i, j) = k
    BY <1>1, <2>1
  <2> QED BY <1>3, <1>4, <2>2
<1> QED BY <1>3, <1>4

LEMMA ReadsStayInOrder ==
  ASSUME WellTyped, ReadsInOrder, db' = db, NEW i \in Int, NEW m, Keeps(i, m),
         \/ Undisturbed(i, m) /\ i \notin Lists
         \/ Overtakes(i, m) /\ i \in Lists,
         Nothing(m) \/ \E c : Sends(m, c) /\ c.op # "list"
  PROVE  ReadsInOrder'
<1> SUFFICES ASSUME NEW a \in Reading', ~ReadsFresh(a)'
             PROVE  \E b \in Reading' : a < b /\ ReadsFresh(b)'
  BY DEF ReadsInOrder
<1>1. m \in Nat
  BY DEF Keeps
<1>2. a \in 1..m
  <2>1. a \in DOMAIN calls' /\ calls'[a].op = "list"
    BY DEF Reading, Lists
  <2>2. CASE Nothing(m)
    BY <2>1, <2>2 DEF Nothing
  <2>3. CASE \E c : Sends(m, c) /\ c.op # "list"
    BY <1>1, <2>1, <2>3 DEF Sends
  <2> QED BY <2>2, <2>3
<1>3. /\ Skip(i, a) \in Reading /\ ~ReadsFresh(Skip(i, a))
      /\ i \in Lists => i < Skip(i, a)
  BY <1>2, ReadsStay
<1>4. PICK l \in Reading : Skip(i, a) < l /\ ReadsFresh(l)
  BY <1>3 DEF ReadsInOrder
<1>5. l \in Int /\ Skip(i, a) \in Int
  BY <1>3, CallsTyped DEF Reading, Lists
<1>6. i \in Lists => i < l
  BY <1>3, <1>4, <1>5
<1>7. PICK b \in 1..m : Skip(i, b) = l /\ b \in Reading' /\ (ReadsFresh(b)' <=> ReadsFresh(l))
  BY <1>6, ReadsStay
<1>8. a < b
  BY <1>2, <1>4, <1>7, SkipKeepsOrder
<1> QED BY <1>4, <1>7, <1>8

\* The list is asked for.
LEMMA NewRead ==
  ASSUME NEW i, NEW m, Keeps(i, m), NEW v, NEW job, Sends(m, List(v, job))
  PROVE  ReadsInOrder' /\ ListWillBeFresh'
<1>1. /\ m \in Nat /\ DOMAIN calls' = 1..(m + 1)
      /\ calls'[m + 1] = List(v, job)
  BY DEF Keeps, Sends
<1>2. /\ calls'[m + 1].op = "list" /\ calls'[m + 1].state = "sent"
      /\ calls'[m + 1].passed = FALSE
  BY <1>1 DEF List
<1>3. m + 1 \in Reading' /\ ReadsFresh(m + 1)'
  BY <1>1, <1>2 DEF Reading, Lists, ReadsFresh
<1>4. \A a \in Reading' : a # m + 1 => a < m + 1
  BY <1>1 DEF Reading, Lists
<1>5. ReadsInOrder'
  BY <1>3, <1>4 DEF ReadsInOrder
<1> QED BY <1>3, <1>5 DEF ListWillBeFresh

\* A write is sent.
LEMMA NewWrite ==
  ASSUME NEW i, NEW m, Keeps(i, m), NEW c, Sends(m, c), Writing(c)
  PROVE  WriteInFlight'
<1>1. m + 1 \in DOMAIN calls' /\ calls'[m + 1] = c
  BY DEF Keeps, Sends
<1>2. Writing(calls'[m + 1])
  BY <1>1
<1> QED BY <1>1, <1>2 DEF WriteInFlight, Writing

LEMMA WritesStay ==
  ASSUME NEW i, NEW m, Keeps(i, m), WriteInFlight, i \in DOMAIN calls => ~Writing(calls[i])
  PROVE  WriteInFlight'
<1>1. PICK k \in DOMAIN calls : Writing(calls[k])
  BY DEF WriteInFlight
<1>2. k # i
  BY <1>1
<1>3. PICK j \in 1..m : Skip(i, j) = k
  BY <1>2 DEF Keeps
<1>4. /\ j \in DOMAIN calls' /\ calls'[j].op = calls[k].op /\ calls'[j].job = calls[k].job
      /\ calls'[j].state = calls[k].state
  BY <1>3 DEF Keeps
<1> QED BY <1>1, <1>4 DEF WriteInFlight, Writing

\* Nothing is read and nothing arrives that was read.
LEMMA ListStaysFresh ==
  ASSUME WellTyped, db' = db, NEW i \in Int, NEW m, Keeps(i, m), Undisturbed(i, m), i \notin Lists,
         ListWillBeFresh, ui'.list = ui.list
  PROVE  ListWillBeFresh'
<1>1. ASSUME NEW k \in Reading, ReadsFresh(k)
      PROVE  \E j \in Reading' : ReadsFresh(j)'
  BY <1>1, ReadsStay
<1> QED BY <1>1 DEF ListWillBeFresh

LEMMA UserKeepsFresh ==
  ASSUME WellTyped, FreshInv, UserMoves
  PROVE  FreshInv'
<1>1. /\ page' = page /\ db' = db /\ untold' = untold /\ page \in PageNames
      /\ None \in Int /\ None \notin DOMAIN calls /\ None \notin Lists
  BY NoneIsNone DEF UserMoves, WellTyped
<1> SUFFICES ASSUME page \notin Fixed, ~untold
             PROVE  ui'.error \/ WriteInFlight' \/ (ReadsInOrder' /\ ListWillBeFresh')
  BY <1>1 DEF FreshInv, Fixed
<1>2. ui.error \/ WriteInFlight \/ (ReadsInOrder /\ ListWillBeFresh)
  BY DEF FreshInv
<1>3. CASE Rests
  <2>1. Keeps(None, Len(calls)) /\ Nothing(Len(calls)) /\ Undisturbed(None, Len(calls))
    BY <1>1, <1>3, RestCalls, PagesAreSplit
  <2>2. ui'.list = ui.list /\ (ui.error => ui'.error)
    BY <1>3 DEF Rests
  <2> QED BY <1>1, <1>2, <2>1, <2>2, WritesStay, ReadsStayInOrder, ListStaysFresh
<1>4. ASSUME NEW v \in Views, Asks(v)
      PROVE  ReadsInOrder' /\ ListWillBeFresh'
  BY <1>4, AskCalls, NewRead
<1>5. ASSUME NEW c \in CallSet, Writes(c)
      PROVE  ui'.error \/ WriteInFlight' \/ (ReadsInOrder' /\ ListWillBeFresh')
  <2>1. /\ Keeps(None, Len(calls)) /\ Sends(Len(calls), c)
        /\ Undisturbed(None, Len(calls))
    BY <1>5, WriteCalls
  <2>2. /\ c.op # "list" /\ Consistent(c) /\ ui'.list = ui.list
        /\ c.job = "bare" => ui'.error = ui.error
    BY <1>5 DEF Writes
  <2>3. CASE c.job = "bare"
    BY <1>1, <1>2, <2>1, <2>2, <2>3, WritesStay, ReadsStayInOrder, ListStaysFresh
  <2>4. CASE c.job # "bare"
    <3>1. c.job \in {"save", "act"}
      BY <1>5, <2>2, <2>4 DEF Consistent, JobOf, CallSet, Ops
    <3>2. Writing(c)
      BY <2>2, <3>1 DEF Writing
    <3> QED BY <2>1, <3>2, NewWrite
  <2> QED BY <2>3, <2>4
<1> QED BY <1>3, <1>4, <1>5 DEF UserMoves

LEMMA AnswerKeepsFresh ==
  ASSUME WellTyped, CallsAreConsistent, FreshInv, NEW i \in DOMAIN calls, AnswerMoves(i)
  PROVE  FreshInv'
<1> DEFINE m == Len(calls) - 1
<1>1. /\ page' = page /\ db' = db /\ untold' = untold /\ page \in PageNames /\ i \in Int
      /\ i \in Lists <=> calls[i].op = "list"
  BY CallsTyped DEF AnswerMoves, Done, WellTyped, Lists
<1> HIDE DEF m
<1> SUFFICES ASSUME page \notin Fixed, ~untold
             PROVE  ui'.error \/ WriteInFlight' \/ (ReadsInOrder' /\ ListWillBeFresh')
  BY <1>1 DEF FreshInv, Fixed
<1>2. ui.error \/ WriteInFlight \/ (ReadsInOrder /\ ListWillBeFresh)
  BY DEF FreshInv
<1>3. page \in MayCreate
  BY <1>1, PagesAreSplit
<1>4. CASE Ends(i)
  <2>1. Keeps(i, m) /\ Nothing(m) /\ Undisturbed(i, m)
    BY <1>3, <1>4, EndCalls DEF m
  <2>2. /\ calls[i].op # "list" /\ calls[i].state = "failed" /\ ui'.list = ui.list
        /\ IF calls[i].job = "bare" THEN ui'.error = ui.error ELSE ui'.error
    BY <1>3, <1>4 DEF Ends
  <2>3. CASE calls[i].job = "bare"
    <3>1. ~Writing(calls[i]) /\ i \notin Lists
      BY <1>1, <2>2, <2>3 DEF Writing
    <3> QED BY <1>1, <1>2, <2>1, <2>2, <2>3, <3>1, WritesStay, ReadsStayInOrder, ListStaysFresh
  <2> QED BY <2>2, <2>3
<1>5. CASE Reloads(i)
  <2>1. Keeps(i, m) /\ Sends(m, List(calls[i].view, calls[i].job))
    BY <1>5, ReloadCalls DEF m, Reloads
  <2> QED BY <2>1, NewRead
<1>6. CASE Pays(i)
  <2> DEFINE c == [calls[i] EXCEPT !.op = "pay", !.state = "sent"]
  <2>1. Keeps(i, m) /\ Sends(m, c) /\ c.op = "pay" /\ c.job = calls[i].job
    BY <1>6, PayCalls DEF Pays, m
  <2> HIDE DEF c
  <2>2. calls[i].op = "update" /\ calls[i].job = "save"
    BY <1>6, AnsweredCall DEF Pays, ThenMarkPaid, JobOf
  <2>3. Writing(c)
    BY <2>1, <2>2 DEF Writing
  <2> QED BY <2>1, <2>3, NewWrite
<1>7. CASE Shows(i)
  <2>1. Keeps(i, m) /\ Overtakes(i, m) /\ Nothing(m)
    BY <1>7, ShowCalls DEF m
  <2>2. /\ calls[i].op = "list" /\ i \in Lists
        /\ ui'.list = IF calls[i].state = "ok" THEN Listed(i) ELSE ui.list
        /\ calls[i].state = "failed" => ui'.error
        /\ ui.error => ui'.error
    BY <1>1, <1>3, <1>7 DEF Shows
  <2>3. CASE ui.error \/ calls[i].state = "failed"
    BY <2>2, <2>3
  <2>4. CASE WriteInFlight
    <3>1. ~Writing(calls[i])
      BY <2>2 DEF Writing
    <3> QED BY <2>1, <2>4, <3>1, WritesStay
  <2>5. CASE ReadsInOrder /\ calls[i].state = "ok"
    <3>1. ReadsInOrder'
      BY <1>1, <2>1, <2>2, <2>5, ReadsStayInOrder
    <3>2. ui'.list = Listed(i) /\ ui'.list.rows = calls[i].got
      BY <2>2, <2>5 DEF Listed
    <3>3. CASE calls[i].passed
      <4>1. ui'.list.kind = "late"
        BY <3>2, <3>3 DEF Listed
      <4> QED BY <3>1, <4>1 DEF ListWillBeFresh
    <3>4. CASE ~calls[i].passed /\ ReadsFresh(i)
      <4>1. ui'.list.rows = db'
        BY <1>1, <2>5, <3>2, <3>4 DEF ReadsFresh
      <4> QED BY <3>1, <4>1 DEF ListWillBeFresh
    <3>5. CASE ~calls[i].passed /\ ~ReadsFresh(i)
      <4>1. i \in Reading
        BY <2>2, <3>5 DEF Reading
      <4>2. PICK l \in Reading : i < l /\ ReadsFresh(l)
        BY <2>5, <3>5, <4>1 DEF ReadsInOrder
      <4>3. \E j \in Reading' : ReadsFresh(j)'
        BY <1>1, <2>1, <2>2, <4>2, ReadsStay
      <4> QED BY <3>1, <4>3 DEF ListWillBeFresh
    <3> QED BY <3>3, <3>4, <3>5
  <2>6. calls[i].state \in {"ok", "failed"}
    BY AnsweredCall DEF AnswerMoves
  <2> QED BY <1>2, <2>3, <2>4, <2>5, <2>6
<1>8. CASE ShowsAndAsks(i)
  <2>1. PICK v \in Views : calls' = Append(RemoveAt(Overtaken(i), i), List(v, "view"))
    BY <1>8 DEF ShowsAndAsks
  <2>2. Keeps(i, m) /\ Sends(m, List(v, "view"))
    BY <2>1, ShowAndAskCalls DEF m
  <2> QED BY <2>2, NewRead
<1> QED BY <1>4, <1>5, <1>6, <1>7, <1>8 DEF AnswerMoves

LEMMA ServeKeepsFresh ==
  ASSUME WellTyped, FreshInv, NEW i \in DOMAIN calls, ServeMoves(i)
  PROVE  FreshInv'
<1>1. /\ DOMAIN calls' = DOMAIN calls
      /\ \A j \in DOMAIN calls : j # i => calls'[j] = calls[j]
      /\ calls'[i].op = calls[i].op /\ calls'[i].job = calls[i].job
      /\ calls'[i].passed = calls[i].passed /\ calls[i].state = "sent"
  BY ServedCalls
<1>2. ui' = ui /\ page' = page
  BY DEF ServeMoves
<1> SUFFICES ASSUME page \notin Fixed, ~untold'
             PROVE  ui'.error \/ WriteInFlight' \/ (ReadsInOrder' /\ ListWillBeFresh')
  BY <1>2 DEF FreshInv, Fixed
<1>3. CASE Wrote(i)
  <2>1. calls[i].op # "list" /\ calls'[i].state = "ok"
    BY <1>3 DEF Wrote
  <2>2. Writing(calls'[i])
    BY <1>1, <2>1 DEF Writing
  <2> QED BY <1>1, <2>2 DEF WriteInFlight, Writing
<1>4. CASE Read(i) \/ Turned(i)
  <2>1. /\ db' = db /\ untold' = untold
        /\ calls'[i].state = "ok" => calls'[i].got = db
        /\ calls'[i].state = "ok" => calls[i].op = "list"
    BY <1>4 DEF Read, Turned
  <2>2. Reading' = Reading /\ Reading \subseteq DOMAIN calls
    BY <1>1 DEF Reading, Lists
  <2>3. ASSUME NEW j \in DOMAIN calls
        PROVE  ReadsFresh(j)' <=> ReadsFresh(j)
    BY <1>1, <2>1 DEF ReadsFresh
  <2>4. WriteInFlight => WriteInFlight'
    <3>1. ASSUME NEW j \in DOMAIN calls, Writing(calls[j])
          PROVE  Writing(calls'[j])
      BY <1>1, <3>1 DEF Writing
    <3> QED BY <1>1, <3>1 DEF WriteInFlight, Writing
  <2>5. ReadsInOrder => ReadsInOrder'
    BY <2>2, <2>3 DEF ReadsInOrder
  <2>6. ListWillBeFresh => ListWillBeFresh'
    BY <1>2, <2>1, <2>2, <2>3 DEF ListWillBeFresh
  <2> QED BY <1>2, <2>1, <2>4, <2>5, <2>6 DEF FreshInv
<1> QED BY <1>3, <1>4 DEF ServeMoves

LEMMA OthersKeepFresh ==
  ASSUME OthersMove
  PROVE  FreshInv'
BY DEF OthersMove, FreshInv

-----------------------------------------------------------------------------
(***************************************************************************)
(* No twins.  A form for a new row has its own origin; the row made from   *)
(* it has it too, as long as the page was told.                            *)
(***************************************************************************)
NewForm == page \in MayCreate /\ ui.form # NoForm /\ ui.form.row = 0

OriginsAreOpened ==
    /\ \A r \in Rows : db[r].origin <= opened
    /\ NewForm => ui.form.origin \in 1..opened
    /\ \A i \in DOMAIN calls : calls[i].op = "create" => calls[i].body.origin \in 1..opened

Made(o) == \E r \in Rows : db[r].origin = o

FormsMakeOneRow ==
    /\ \A r, s \in Rows : db[r].origin = db[s].origin /\ db[r].origin # 0 => r = s
    /\ NewForm /\ Made(ui.form.origin) =>
           \E i \in DOMAIN calls : calls[i].op = "create" /\ calls[i].state = "ok"
    /\ \A i \in DOMAIN calls :
           calls[i].op = "create" /\ calls[i].state = "sent" => ~Made(calls[i].body.origin)

TwinsInv == OriginsAreOpened /\ (~untold => FormsMakeOneRow)

LEMMA OriginsAreNumbers ==
  ASSUME WellTyped
  PROVE  opened \in Nat /\ \A r \in Rows : db[r].origin \in Nat
BY ScreenAssumption DEF WellTyped, TableSet, RowSet

\* The page opens and closes its form, sends and receives.
LEMMA TwinsStay ==
  ASSUME WellTyped, TwinsInv, page' = page, db' = db, untold' = untold,
         opened' \in {opened, opened + 1}, NEW i, NEW m, Keeps(i, m),
         Nothing(m) \/ \E c : /\ Sends(m, c)
                              /\ c.op = "create" =>
                                    /\ c.body.origin \in 1..opened
                                    /\ ~untold => ~Made(c.body.origin),
         NewForm' =>
            \/ /\ NewForm /\ ui'.form.origin = ui.form.origin
               /\ i \in DOMAIN calls => calls[i].op # "create" \/ calls[i].state # "ok"
            \/ ui'.form.origin = opened + 1 /\ opened' = opened + 1
  PROVE  TwinsInv'
<1>1. /\ m \in Nat /\ 1..m \subseteq DOMAIN calls'
      /\ \A j \in 1..m : /\ Skip(i, j) \in DOMAIN calls
                         /\ calls'[j].op = calls[Skip(i, j)].op
                         /\ calls'[j].body = calls[Skip(i, j)].body
                         /\ calls'[j].state = calls[Skip(i, j)].state
      /\ \A k \in DOMAIN calls \ {i} : \E j \in 1..m : Skip(i, j) = k
  BY DEF Keeps
<1>2. OriginsAreOpened /\ opened \in Nat /\ \A r \in Rows : db[r].origin \in Nat
  BY OriginsAreNumbers DEF TwinsInv
<1>3. 1..opened \subseteq 1..opened'
  BY <1>2
<1>4. ASSUME NEW j \in DOMAIN calls', calls'[j].op = "create"
      PROVE  /\ calls'[j].body.origin \in 1..opened
             /\ ~untold /\ calls'[j].state = "sent" => ~Made(calls'[j].body.origin)
  <2>1. CASE j \in 1..m
    <3>1. /\ Skip(i, j) \in DOMAIN calls /\ calls[Skip(i, j)].op = "create"
          /\ calls'[j].body = calls[Skip(i, j)].body
          /\ calls'[j].state = calls[Skip(i, j)].state
      BY <1>1, <1>4, <2>1
    <3>2. calls[Skip(i, j)].body.origin \in 1..opened
      BY <1>2, <3>1 DEF OriginsAreOpened
    <3>3. ~untold /\ calls[Skip(i, j)].state = "sent" => ~Made(calls[Skip(i, j)].body.origin)
      BY <3>1 DEF TwinsInv, FormsMakeOneRow
    <3> QED BY <3>1, <3>2, <3>3
  <2>2. CASE j \notin 1..m
    <3>1. ~Nothing(m)
      BY <2>2 DEF Nothing
    <3>2. PICK c : /\ Sends(m, c)
                   /\ c.op = "create" =>
                         /\ c.body.origin \in 1..opened
                         /\ ~untold => ~Made(c.body.origin)
      BY <3>1
    <3>3. j = m + 1 /\ calls'[m + 1] = c
      BY <1>1, <2>2, <3>2 DEF Sends
    <3> QED BY <1>4, <3>2, <3>3
  <2> QED BY <2>1, <2>2
<1>6. OriginsAreOpened'
  <2>1. \A r \in Rows : db'[r].origin <= opened'
    BY <1>2 DEF OriginsAreOpened
  <2>2. NewForm' => ui'.form.origin \in 1..opened'
    BY <1>2, <1>3 DEF OriginsAreOpened
  <2>3. \A j \in DOMAIN calls' : calls'[j].op = "create" => calls'[j].body.origin \in 1..opened'
    BY <1>3, <1>4
  <2> QED BY <2>1, <2>2, <2>3 DEF OriginsAreOpened
<1>7. ASSUME ~untold
      PROVE  FormsMakeOneRow'
  <2>1. FormsMakeOneRow
    BY <1>7 DEF TwinsInv
  <2>2. \A r, s \in Rows : db'[r].origin = db'[s].origin /\ db'[r].origin # 0 => r = s
    BY <2>1 DEF FormsMakeOneRow
  <2>3. ASSUME NewForm', Made(ui'.form.origin)
        PROVE  \E j \in DOMAIN calls' : calls'[j].op = "create" /\ calls'[j].state = "ok"
    <3>1. ui'.form.origin # opened + 1
      BY <1>2, <2>3 DEF OriginsAreOpened, Made
    <3>2. /\ NewForm /\ Made(ui.form.origin)
          /\ i \in DOMAIN calls => calls[i].op # "create" \/ calls[i].state # "ok"
      BY <2>3, <3>1
    <3>3. PICK k \in DOMAIN calls : calls[k].op = "create" /\ calls[k].state = "ok"
      BY <2>1, <3>2 DEF FormsMakeOneRow
    <3>4. k # i
      BY <3>2, <3>3
    <3>5. PICK j \in 1..m : Skip(i, j) = k
      BY <1>1, <3>4
    <3> QED BY <1>1, <3>3, <3>5
  <2>4. \A j \in DOMAIN calls' :
           calls'[j].op = "create" /\ calls'[j].state = "sent" => ~Made(calls'[j].body.origin)
    BY <1>4, <1>7
  <2>5. NewForm' /\ Made(ui.form.origin)' =>
            \E j \in DOMAIN calls' : calls'[j].op = "create" /\ calls'[j].state = "ok"
    BY <2>3 DEF Made
  <2>6. \A j \in DOMAIN calls' :
           calls'[j].op = "create" /\ calls'[j].state = "sent" => ~Made(calls[j].body.origin)'
    BY <2>4 DEF Made
  <2> QED BY <2>2, <2>5, <2>6 DEF FormsMakeOneRow
<1> QED BY <1>6, <1>7 DEF TwinsInv

LEMMA UserMakesOne ==
  ASSUME WellTyped, CallsAreConsistent, OneSave, TwinsInv, UserMoves
  PROVE  TwinsInv'
<1>1. /\ page' = page /\ db' = db /\ untold' = untold
      /\ None \notin DOMAIN calls /\ opened \in Nat
      /\ page \in MayCreate => FormMoves
      /\ page \notin MayCreate => opened' = opened
  BY NoneIsNone, OriginsAreNumbers DEF UserMoves
<1>2. opened' \in {opened, opened + 1}
  BY <1>1 DEF FormMoves
<1>3. NewForm' =>
         \/ NewForm /\ ui'.form.origin = ui.form.origin
         \/ ui'.form.origin = opened + 1 /\ opened' = opened + 1
  <2> SUFFICES ASSUME NewForm'
               PROVE  \/ NewForm /\ ui'.form.origin = ui.form.origin
                      \/ ui'.form.origin = opened + 1 /\ opened' = opened + 1
    OBVIOUS
  <2>1. page \in MayCreate /\ ui'.form # NoForm /\ ui'.form.row = 0
    BY <1>1 DEF NewForm, MayCreate, CrudPageNames
  <2> QED BY <1>1, <2>1, RowsAreNumbers DEF FormMoves, NewForm
<1>4. CASE Rests
  <2>1. Keeps(None, Len(calls)) /\ Nothing(Len(calls))
    BY <1>4, RestCalls
  <2> QED BY <1>1, <1>2, <1>3, <2>1, TwinsStay
<1>5. ASSUME NEW v \in Views, Asks(v)
      PROVE  TwinsInv'
  <2> DEFINE c == List(v, "view")
  <2>1. Keeps(None, Len(calls)) /\ Sends(Len(calls), c)
    BY <1>5, AskCalls
  <2>2. c.op # "create"
    BY DEF List
  <2> HIDE DEF c
  <2> QED BY <1>1, <1>2, <1>3, <2>1, <2>2, TwinsStay
<1>6. ASSUME NEW c \in CallSet, Writes(c)
      PROVE  TwinsInv'
  <2>1. Keeps(None, Len(calls)) /\ Sends(Len(calls), c)
    BY <1>6, WriteCalls
  <2>2. ASSUME c.op = "create"
        PROVE  /\ c.body.origin \in 1..opened
               /\ ~untold => ~Made(c.body.origin)
    <3>1. /\ Consistent(c) /\ page \in Pages("create") /\ ui.form # NoForm /\ c.body = ui.form
          /\ c.job = "save" => ~ui.submitting
      BY <1>6, <2>2 DEF Writes
    <3>2. ui.form.row = 0 /\ c.job = "save"
      BY <2>2, <3>1 DEF Consistent, JobOf
    <3>3. NewForm
      BY <3>1, <3>2 DEF NewForm, Pages, MayCreate
    <3>4. Saves = {}
      BY <3>1, <3>2 DEF OneSave
    <3>5. ASSUME ~untold, Made(ui.form.origin)
          PROVE  FALSE
      <4>0. FormsMakeOneRow
        BY <3>5 DEF TwinsInv
      <4>1. PICK k \in DOMAIN calls : calls[k].op = "create" /\ calls[k].state = "ok"
        BY <3>3, <3>5, <4>0 DEF FormsMakeOneRow
      <4>2. calls[k].job = "save"
        BY <4>1, AnsweredCall DEF JobOf
      <4> QED BY <3>4, <4>2 DEF Saves
    <3> QED BY <3>1, <3>3, <3>5 DEF TwinsInv, OriginsAreOpened
  <2> QED BY <1>1, <1>2, <1>3, <2>1, <2>2, TwinsStay
<1> QED BY <1>4, <1>5, <1>6 DEF UserMoves

LEMMA AnswerMakesOne ==
  ASSUME WellTyped, CallsAreConsistent, TwinsInv, NEW i \in DOMAIN calls, AnswerMoves(i)
  PROVE  TwinsInv'
<1> DEFINE m == Len(calls) - 1
<1>1. /\ page' = page /\ db' = db /\ untold' = untold /\ opened' = opened
  BY DEF AnswerMoves, Done
<1> HIDE DEF m
<1>2. NewForm' <=> page \in MayCreate /\ ui'.form # NoForm /\ ui'.form.row = 0
  BY <1>1 DEF NewForm, MayCreate, CrudPageNames
<1>3. FormStays(i) /\ NewForm' => NewForm /\ ui'.form.origin = ui.form.origin
  BY <1>2 DEF FormStays, NewForm
<1>4. CASE Ends(i)
  <2>1. Keeps(i, m) /\ Nothing(m)
    BY <1>4, EndCalls DEF m
  <2>2. NewForm' => NewForm /\ ui'.form = ui.form /\ calls[i].state # "ok"
    BY <1>2, <1>4 DEF Ends, NewForm
  <2> QED BY <1>1, <2>1, <2>2, TwinsStay
<1>5. CASE Reloads(i)
  <2> DEFINE c == List(calls[i].view, calls[i].job)
  <2>1. Keeps(i, m) /\ Sends(m, c)
    BY <1>5, ReloadCalls DEF m, Reloads
  <2>2. c.op # "create"
    BY DEF List
  <2> HIDE DEF c
  <2>3. NewForm' => NewForm /\ ui'.form = ui.form /\ calls[i].op # "create"
    BY <1>2, <1>5 DEF Reloads, NewForm
  <2> QED BY <1>1, <2>1, <2>2, <2>3, TwinsStay
<1>6. CASE Pays(i)
  <2> DEFINE c == [calls[i] EXCEPT !.op = "pay", !.state = "sent"]
  <2>1. Keeps(i, m) /\ Sends(m, c) /\ c.op = "pay"
    BY <1>6, PayCalls DEF Pays, m
  <2> HIDE DEF c
  <2>2. calls[i].op = "update" /\ ui' = ui
    BY <1>6 DEF Pays, ThenMarkPaid
  <2>3. NewForm' => NewForm /\ ui'.form = ui.form
    BY <1>2, <2>2 DEF NewForm
  <2> QED BY <1>1, <2>1, <2>2, <2>3, TwinsStay
<1>7. CASE Shows(i)
  <2>1. Keeps(i, m) /\ Nothing(m)
    BY <1>7, ShowCalls DEF m
  <2>2. calls[i].op = "list" /\ (NewForm' => FormStays(i))
    BY <1>2, <1>7 DEF Shows
  <2> QED BY <1>1, <1>3, <2>1, <2>2, TwinsStay
<1>8. CASE ShowsAndAsks(i)
  <2>1. PICK v \in Views : calls' = Append(RemoveAt(Overtaken(i), i), List(v, "view"))
    BY <1>8 DEF ShowsAndAsks
  <2> DEFINE c == List(v, "view")
  <2>2. Keeps(i, m) /\ Sends(m, c)
    BY <2>1, ShowAndAskCalls DEF m
  <2>3. c.op # "create"
    BY DEF List
  <2> HIDE DEF c
  <2>4. calls[i].op = "list" /\ FormStays(i)
    BY <1>8 DEF ShowsAndAsks
  <2> QED BY <1>1, <1>3, <2>2, <2>3, <2>4, TwinsStay
<1> QED BY <1>4, <1>5, <1>6, <1>7, <1>8 DEF AnswerMoves

LEMMA ServeMakesOne ==
  ASSUME WellTyped, CallsAreConsistent, OneSave, TwinsInv, NEW i \in DOMAIN calls, ServeMoves(i)
  PROVE  TwinsInv'
<1>1. /\ DOMAIN calls' = DOMAIN calls
      /\ \A j \in DOMAIN calls : j # i => calls'[j] = calls[j]
      /\ calls'[i].op = calls[i].op /\ calls'[i].body = calls[i].body
      /\ calls[i].state = "sent"
  BY ServedCalls
<1>2. ui' = ui /\ page' = page /\ opened' = opened /\ (NewForm' <=> NewForm)
  BY DEF ServeMoves, NewForm, MayCreate, CrudPageNames
<1>3. OriginsAreOpened /\ opened \in Nat /\ \A r \in Rows : db[r].origin \in Nat
  BY OriginsAreNumbers DEF TwinsInv
<1>4. \A j \in DOMAIN calls : calls'[j].op = calls[j].op /\ calls'[j].body = calls[j].body
  BY <1>1
<1>5. calls'[i].state # "sent"
  BY DEF ServeMoves, Wrote, Read, Turned
<1>6. ASSUME NEW j \in DOMAIN calls, calls'[j].state = "sent"
      PROVE  calls[j].state = "sent" /\ j # i
  BY <1>1, <1>5, <1>6
<1>7. ASSUME NEW j \in DOMAIN calls, calls[j].state = "ok"
      PROVE  calls'[j].state = "ok"
  BY <1>1, <1>7
\* No row has another origin than it had.
<1>8. ASSUME \A r \in Rows : db'[r].origin = db[r].origin, untold => untold'
      PROVE  TwinsInv'
  <2>1. OriginsAreOpened'
    BY <1>1, <1>2, <1>3, <1>4, <1>8 DEF OriginsAreOpened
  <2>2. \A o : Made(o) <=> \E r \in Rows : db'[r].origin = o
    BY <1>8 DEF Made
  <2>3. ASSUME ~untold'
        PROVE  FormsMakeOneRow'
    <3>1. FormsMakeOneRow
      BY <1>8, <2>3 DEF TwinsInv
    <3>2. \A r, s \in Rows : db'[r].origin = db'[s].origin /\ db'[r].origin # 0 => r = s
      BY <1>8, <3>1 DEF FormsMakeOneRow
    <3>3. NewForm' /\ Made(ui.form.origin)' =>
              \E j \in DOMAIN calls' : calls'[j].op = "create" /\ calls'[j].state = "ok"
      <4>1. SUFFICES ASSUME NewForm, Made(ui.form.origin)
                     PROVE  \E j \in DOMAIN calls' :
                                calls'[j].op = "create" /\ calls'[j].state = "ok"
        BY <1>2, <2>2 DEF Made
      <4>2. PICK k \in DOMAIN calls : calls[k].op = "create" /\ calls[k].state = "ok"
        BY <3>1, <4>1 DEF FormsMakeOneRow
      <4> QED BY <1>1, <1>4, <1>7, <4>2
    <3>4. ASSUME NEW j \in DOMAIN calls', calls'[j].op = "create", calls'[j].state = "sent"
          PROVE  ~Made(calls[j].body.origin)'
      <4>1. calls[j].op = "create" /\ calls[j].state = "sent" /\ calls'[j].body = calls[j].body
        BY <1>1, <1>4, <1>6, <3>4
      <4>2. ~Made(calls[j].body.origin)
        BY <1>1, <3>1, <4>1 DEF FormsMakeOneRow
      <4> QED BY <2>2, <4>1, <4>2 DEF Made
    <3> QED BY <3>2, <3>3, <3>4 DEF FormsMakeOneRow
  <2> QED BY <2>1, <2>3 DEF TwinsInv
\* A row is made.
<1>9. ASSUME NEW n \in Absent(db), calls[i].op = "create",
             db' = [db EXCEPT ![n] = Row("live", calls[i].body.origin, calls[i].body.tag)],
             \/ calls'[i].state = "ok" /\ untold' = untold
             \/ calls'[i].state = "failed" /\ untold'
      PROVE  TwinsInv'
  <2> DEFINE o == calls[i].body.origin
  <2>1. /\ n \in Rows /\ db'[n].origin = o
        /\ \A r \in Rows : r # n => db'[r].origin = db[r].origin
    BY <1>9 DEF Absent, Row, WellTyped, TableSet
  <2>2. o \in 1..opened
    BY <1>3, <1>9 DEF OriginsAreOpened
  <2> HIDE DEF o
  <2>3. OriginsAreOpened'
    <3>1. \A r \in Rows : db'[r].origin <= opened
      BY <1>3, <2>1, <2>2 DEF OriginsAreOpened
    <3> QED BY <1>1, <1>2, <1>3, <1>4, <3>1 DEF OriginsAreOpened
  <2>4. ASSUME ~untold'
        PROVE  FormsMakeOneRow'
    <3>1. FormsMakeOneRow /\ calls'[i].state = "ok"
      BY <1>9, <2>4 DEF TwinsInv
    <3>2. ~Made(o)
      BY <1>1, <1>9, <3>1 DEF FormsMakeOneRow, o
    <3>3. \A r, s \in Rows : db'[r].origin = db'[s].origin /\ db'[r].origin # 0 => r = s
      BY <2>1, <3>1, <3>2 DEF FormsMakeOneRow, Made
    <3>4. calls'[i].op = "create" /\ i \in DOMAIN calls'
      BY <1>1, <1>9
    <3>5. ASSUME NEW j \in DOMAIN calls', calls'[j].op = "create", calls'[j].state = "sent"
          PROVE  FALSE
      <4>1. j # i /\ calls[j].op = "create" /\ j \in DOMAIN calls
        BY <1>1, <1>4, <1>6, <3>5
      <4>2. calls[j].job = "save" /\ calls[i].job = "save"
        BY <1>9, <4>1, AnsweredCall DEF JobOf
      <4>3. j \in Saves /\ i \in Saves
        BY <4>1, <4>2 DEF Saves
      <4> QED BY <4>1, <4>3 DEF OneSave
    <3> QED BY <3>1, <3>3, <3>4, <3>5 DEF FormsMakeOneRow
  <2> QED BY <2>3, <2>4 DEF TwinsInv
<1>10. CASE Wrote(i)
  BY <1>8, <1>9, <1>10 DEF Wrote
<1>11. CASE Read(i) \/ Turned(i)
  BY <1>8, <1>11 DEF Read, Turned
<1> QED BY <1>10, <1>11 DEF ServeMoves

LEMMA OthersMakeOne ==
  ASSUME TwinsInv, OthersMove
  PROVE  TwinsInv'
BY DEF OthersMove, TwinsInv, OriginsAreOpened, NewForm, MayCreate, CrudPageNames

-----------------------------------------------------------------------------
(***************************************************************************)
(* The amounts of the crowdfunding page.  A form sends the amount it was   *)
(* opened on, which the list had, which the backend had: never more than   *)
(* was given since.                                                        *)
(***************************************************************************)
AmountIsCopied(f) ==
    /\ f.tag.raised = f.base.raised
    /\ f.row = 0 => f.tag.raised = 0 /\ f.tag.given = 0
    /\ f.row # 0 => Within(f.row, f.tag)

Edits(c) == c.op \in {"create", "update"}

FormsCopyAmounts ==
    page = "crowdfunding" =>
        /\ ui.form # NoForm => AmountIsCopied(ui.form)
        /\ \A i \in DOMAIN calls : Edits(calls[i]) => AmountIsCopied(calls[i].body)

LEMMA CampaignRow ==
  ASSUME WellTyped, page = "crowdfunding", NEW r \in Rows
  PROVE  /\ db[r].tag \in CampaignTags /\ ui.list.rows[r].tag \in CampaignTags
         /\ db[r].tag.given \in Nat /\ db[r].tag.raised \in Nat
<1>1. Tags = CampaignTags
  BY TagsOf DEF CampaignTags
<1>2. db[r].tag \in CampaignTags /\ ui.list.rows[r].tag \in CampaignTags
  BY <1>1, ListedRow
<1> QED BY <1>2 DEF CampaignTags, MaxGiven

LEMMA CampaignForm ==
  ASSUME page = "crowdfunding", NEW f \in FormSet
  PROVE  /\ f.tag \in CampaignTags /\ f.base \in CampaignTags
         /\ f.tag.raised \in Nat /\ f.tag.given \in Nat /\ f.base.raised \in Nat
         /\ f.row \in 0..MaxRows /\ (f.row # 0 => f.row \in Rows)
<1>1. Tags = CampaignTags
  BY TagsOf DEF CampaignTags
<1>2. f.tag \in CampaignTags /\ f.base \in CampaignTags /\ f.row \in 0..MaxRows
  BY <1>1 DEF FormSet
<1> QED BY <1>2 DEF CampaignTags, MaxGiven, Rows

\* The calls that only page and user change.
LEMMA AmountsStay ==
  ASSUME WellTyped, AmountsAreGiven, FormsCopyAmounts, page' = page, db' = db,
         NEW i, NEW m, Keeps(i, m),
         Nothing(m) \/ \E c : /\ Sends(m, c)
                              /\ c.state = "ok" => c.op # "list"
                              /\ page = "crowdfunding" /\ Edits(c) => AmountIsCopied(c.body),
         page = "crowdfunding" =>
             /\ \A r \in Rows : ui'.list.rows[r].tag.raised <= db[r].tag.given
             /\ ui'.form # NoForm => ui'.form = ui.form \/ AmountIsCopied(ui'.form)
  PROVE  AmountsAreGiven' /\ FormsCopyAmounts'
<1> SUFFICES ASSUME page = "crowdfunding"
             PROVE  AmountsAreGiven' /\ FormsCopyAmounts'
  BY DEF AmountsAreGiven, FormsCopyAmounts
<1>1. /\ m \in Nat /\ 1..m \subseteq DOMAIN calls'
      /\ \A j \in 1..m : /\ Skip(i, j) \in DOMAIN calls
                         /\ calls'[j].op = calls[Skip(i, j)].op
                         /\ calls'[j].body = calls[Skip(i, j)].body
                         /\ calls'[j].got = calls[Skip(i, j)].got
                         /\ calls'[j].state = calls[Skip(i, j)].state
  BY DEF Keeps
<1>2. ASSUME NEW j \in DOMAIN calls', j \notin 1..m
      PROVE  /\ calls'[j].state = "ok" => calls'[j].op # "list"
             /\ Edits(calls'[j]) => AmountIsCopied(calls'[j].body)
  <2>1. ~Nothing(m)
    BY <1>2 DEF Nothing
  <2>2. PICK c : /\ Sends(m, c)
                 /\ c.state = "ok" => c.op # "list"
                 /\ Edits(c) => AmountIsCopied(c.body)
    BY <2>1
  <2>3. j = m + 1 /\ calls'[m + 1] = c
    BY <1>1, <1>2, <2>2 DEF Sends
  <2> QED BY <2>2, <2>3
<1>3. ASSUME NEW j \in DOMAIN calls', calls'[j].op = "list", calls'[j].state = "ok", NEW r \in Rows
      PROVE  calls'[j].got[r].tag.raised <= db[r].tag.given
  <2>1. j \in 1..m
    BY <1>2, <1>3
  <2> QED BY <1>1, <1>3, <2>1 DEF AmountsAreGiven, Within
<1>4. ASSUME NEW j \in DOMAIN calls', Edits(calls'[j])
      PROVE  AmountIsCopied(calls'[j].body)
  <2>1. CASE j \in 1..m
    <3>1. /\ Skip(i, j) \in DOMAIN calls /\ Edits(calls[Skip(i, j)])
          /\ calls'[j].body = calls[Skip(i, j)].body
      BY <1>1, <1>4, <2>1 DEF Edits
    <3> QED BY <3>1 DEF FormsCopyAmounts
  <2> QED BY <1>2, <1>4, <2>1
<1>5. ASSUME ui'.form # NoForm
      PROVE  AmountIsCopied(ui'.form)
  BY <1>5 DEF FormsCopyAmounts
<1>6. AmountsAreGiven'
  BY <1>3 DEF AmountsAreGiven, Within
<1>7. FormsCopyAmounts'
  BY <1>4, <1>5 DEF FormsCopyAmounts, AmountIsCopied, Within, Edits
<1> QED BY <1>6, <1>7

LEMMA CampaignFormOpens ==
  ASSUME WellTyped, AmountsAreGiven, page = "crowdfunding", CampaignsUser
  PROVE  ui'.form \in {ui.form, NoForm} \/ AmountIsCopied(ui'.form)
<1>1. ui \in UiSet
  BY DEF WellTyped
<1>2. CASE CampaignsOpenCreate
  <2>1. ui' = [ui EXCEPT !.form = Form(0, opened + 1, NewCampaign, NewCampaign)]
    BY <1>2 DEF CampaignsOpenCreate, OpenCreate
  <2>2. ui'.form = Form(0, opened + 1, NewCampaign, NewCampaign)
    BY <1>1, <2>1 DEF UiSet
  <2> QED BY <2>2 DEF Form, NewCampaign, Campaign, AmountIsCopied
<1>3. CASE CampaignsOpenEdit
  <2>1. PICK r \in Rows : \E s \in {ui.list.rows[r].tag.status, "draft"} :
           OpenEdit(r, EditedCampaign(ui.list.rows[r].tag, s))
    BY <1>3 DEF CampaignsOpenEdit
  <2>2. PICK s \in {ui.list.rows[r].tag.status, "draft"} :
           OpenEdit(r, EditedCampaign(ui.list.rows[r].tag, s))
    BY <2>1
  <2> DEFINE tag == ui.list.rows[r].tag
             f == Form(r, ui.list.rows[r].origin, tag, EditedCampaign(tag, s))
  <2>3. ui' = [ui EXCEPT !.form = f]
    BY <2>2 DEF OpenEdit
  <2>4. ui'.form = f
    BY <1>1, <2>3 DEF UiSet
  <2>5. f.row = r /\ f.base = tag /\ f.tag = EditedCampaign(tag, s)
    BY DEF Form
  <2>6. EditedCampaign(tag, s).raised = tag.raised
    BY CampaignRow DEF EditedCampaign, CampaignTags
  <2>7. tag.raised <= db[r].tag.given /\ r # 0
    BY RowsAreNumbers DEF AmountsAreGiven, Within
  <2> HIDE DEF f, tag
  <2> QED BY <2>4, <2>5, <2>6, <2>7 DEF AmountIsCopied, Within
<1>4. CASE CampaignsLook \/ CampaignsClose \/ SubmitCampaign \/ ChangeStatus \/ RemoveCampaign
           \/ OpenDonation \/ CloseDonation \/ SubmitDonation
  BY <1>1, <1>4
     DEF CampaignsLook, View, Refresh, Look, CampaignsClose, Close, SubmitCampaign, Refuse,
         SaveForm, Submit, ChangeStatus, RemoveCampaign, BareAct, OpenDonation, CloseDonation,
         SubmitDonation, UiSet
<1> QED BY <1>2, <1>3, <1>4 DEF CampaignsUser

LEMMA UserKeepsAmounts ==
  ASSUME WellTyped, AmountsAreGiven, FormsCopyAmounts, UserMoves,
         page = "crowdfunding" => CampaignsUser
  PROVE  AmountsAreGiven' /\ FormsCopyAmounts'
<1>1. page' = page /\ db' = db
  BY DEF UserMoves
<1>2. page = "crowdfunding" =>
         /\ ui'.form # NoForm => ui'.form = ui.form \/ AmountIsCopied(ui'.form)
         /\ ui'.list = ui.list => \A r \in Rows : ui'.list.rows[r].tag.raised <= db[r].tag.given
  BY CampaignFormOpens DEF AmountsAreGiven, Within
<1>3. CASE Rests
  <2>1. Keeps(None, Len(calls)) /\ Nothing(Len(calls)) /\ ui'.list = ui.list
    BY <1>3, RestCalls DEF Rests
  <2> QED BY <1>1, <1>2, <2>1, AmountsStay
<1>4. ASSUME NEW v \in Views, Asks(v)
      PROVE  AmountsAreGiven' /\ FormsCopyAmounts'
  <2> DEFINE c == List(v, "view")
  <2>1. Keeps(None, Len(calls)) /\ Sends(Len(calls), c) /\ ui'.list = ui.list
    BY <1>4, AskCalls DEF Asks
  <2>2. c.state = "sent" /\ ~Edits(c)
    BY DEF List, Edits
  <2> HIDE DEF c
  <2> QED BY <1>1, <1>2, <2>1, <2>2, AmountsStay
<1>5. ASSUME NEW c \in CallSet, Writes(c)
      PROVE  AmountsAreGiven' /\ FormsCopyAmounts'
  <2>1. Keeps(None, Len(calls)) /\ Sends(Len(calls), c) /\ ui'.list = ui.list
    BY <1>5, WriteCalls DEF Writes
  <2>2. c.state = "sent" /\ (Edits(c) => ui.form # NoForm /\ c.body = ui.form)
    BY <1>5 DEF Writes, Edits
  <2>3. page = "crowdfunding" /\ Edits(c) => AmountIsCopied(c.body)
    BY <2>2 DEF FormsCopyAmounts
  <2> QED BY <1>1, <1>2, <2>1, <2>2, <2>3, AmountsStay
<1> QED BY <1>3, <1>4, <1>5 DEF UserMoves

LEMMA AnswerKeepsAmounts ==
  ASSUME WellTyped, CallsAreConsistent, AmountsAreGiven, FormsCopyAmounts,
         NEW i \in DOMAIN calls, AnswerMoves(i)
  PROVE  AmountsAreGiven' /\ FormsCopyAmounts'
<1> DEFINE m == Len(calls) - 1
<1>1. page' = page /\ db' = db /\ (page = "crowdfunding" => page \in MayCreate)
  BY DEF AnswerMoves, Done, MayCreate
<1> HIDE DEF m
<1>2. ui'.list = ui.list /\ page = "crowdfunding" =>
          \A r \in Rows : ui'.list.rows[r].tag.raised <= db[r].tag.given
  BY DEF AmountsAreGiven, Within
<1>3. CASE Ends(i)
  <2>1. Keeps(i, m) /\ Nothing(m)
    BY <1>3, EndCalls DEF m
  <2>2. page = "crowdfunding" => ui'.form = ui.form /\ ui'.list = ui.list
    BY <1>1, <1>3 DEF Ends
  <2> QED BY <1>1, <1>2, <2>1, <2>2, AmountsStay
<1>4. CASE Reloads(i)
  <2> DEFINE c == List(calls[i].view, calls[i].job)
  <2>1. Keeps(i, m) /\ Sends(m, c)
    BY <1>4, ReloadCalls DEF m, Reloads
  <2>2. c.state = "sent" /\ ~Edits(c)
    BY DEF List, Edits
  <2> HIDE DEF c
  <2>3. ui'.form \in {ui.form, NoForm} /\ ui'.list = ui.list
    BY <1>4 DEF Reloads
  <2> QED BY <1>1, <1>2, <2>1, <2>2, <2>3, AmountsStay
<1>5. CASE Pays(i)
  BY <1>1, <1>5 DEF Pays, AmountsAreGiven, FormsCopyAmounts
<1>6. CASE Shows(i)
  <2>1. Keeps(i, m) /\ Nothing(m)
    BY <1>6, ShowCalls DEF m
  <2>2. page = "crowdfunding" =>
           /\ ui'.form \in {ui.form, NoForm}
           /\ ui'.list = IF calls[i].state = "ok" THEN Listed(i) ELSE ui.list
           /\ calls[i].op = "list"
    BY <1>1, <1>6 DEF Shows, FormStays
  <2>3. page = "crowdfunding" =>
           \A r \in Rows : ui'.list.rows[r].tag.raised <= db[r].tag.given
    BY <1>2, <2>2 DEF AmountsAreGiven, Within, Listed
  <2> QED BY <1>1, <2>1, <2>2, <2>3, AmountsStay
<1>7. CASE ShowsAndAsks(i)
  BY <1>1, <1>7 DEF ShowsAndAsks, AmountsAreGiven, FormsCopyAmounts
<1> QED BY <1>3, <1>4, <1>5, <1>6, <1>7 DEF AnswerMoves

\* What the step may do to a campaign.
RowKeepsAmounts(r) ==
    /\ db[r].tag.given <= db'[r].tag.given
    /\ db'[r].tag.raised <= db'[r].tag.given
    /\ db'[r].is = "absent" => db'[r].tag.given = 0
    /\ TotalDrifts(r) => OldAmountInFlight(r)

LEMMA SameRow ==
  ASSUME WellTyped, AmountsAreGiven, page = "crowdfunding", NEW r \in Rows,
         db'[r] = db[r] \/ (db'[r].tag = db[r].tag /\ db'[r].is # "absent")
  PROVE  RowKeepsAmounts(r)
BY CampaignRow DEF RowKeepsAmounts, TotalDrifts, AmountsAreGiven, Within

LEMMA ChangedRow ==
  ASSUME WellTyped, AmountsAreGiven, page = "crowdfunding", NEW s \in Rows, Live(db, s),
         NEW tag \in CampaignTags, db' = Tagged(s, tag),
         db[s].tag.given <= tag.given, tag.raised <= tag.given,
         db[s].tag.raised = db[s].tag.given /\ tag.raised # tag.given => OldAmountInFlight(s)
  PROVE  \A r \in Rows : RowKeepsAmounts(r)
<1>1. db \in TableSet
  BY DEF WellTyped
<1>2. db[s] \in RowSet /\ db[s].is = "live"
  BY <1>1 DEF TableSet, Live
<1>3. /\ db'[s].tag = tag /\ db'[s].is = "live"
      /\ \A r \in Rows : r # s => db'[r] = db[r]
  BY <1>1, <1>2 DEF Tagged, TableSet, RowSet
<1>4. RowKeepsAmounts(s)
  BY <1>3 DEF RowKeepsAmounts, TotalDrifts
<1> QED BY <1>3, <1>4, SameRow

LEMMA CampaignTable ==
  ASSUME WellTyped, CallsAreConsistent, AmountsAreGiven, FormsCopyAmounts,
         page = "crowdfunding", NEW i \in DOMAIN calls, Serve(i)
  PROVE  \A r \in Rows : RowKeepsAmounts(r)
<1> DEFINE s == calls[i].row
           tag == db[s].tag
           body == calls[i].body
<1>1. ASSUME db' = db
      PROVE  \A r \in Rows : RowKeepsAmounts(r)
  BY <1>1, SameRow
<1>2. /\ Tags = CampaignTags /\ db \in TableSet
      /\ \A effect : ServeWrite(i, effect) => db' = effect
  BY TagsOf DEF CampaignTags, WellTyped, ServeWrite, Settle
<1>3. calls[i].op \in {"create", "update"} =>
          /\ body \in FormSet /\ AmountIsCopied(body)
          /\ calls[i].op = "create" => body.row = 0
          /\ calls[i].op = "update" => body.row = s
  BY AnsweredCall DEF Consistent, FormsCopyAmounts, Edits
<1>4. CASE calls[i].op = "create" /\ ServeRow(i)
  <2> DEFINE n == NextId
  <2>1. /\ n \in Rows /\ db[n].is = "absent"
        /\ db' = [db EXCEPT ![n] = Row("live", body.origin, body.tag)]
    BY <1>2, <1>4, NextIdIsAbsent DEF ServeRow, Absent
  <2> HIDE DEF n
  <2>2. body.tag.raised = 0 /\ body.tag.given = 0 /\ db[n].tag.given = 0
    BY <1>3, <1>4, <2>1 DEF AmountIsCopied, AmountsAreGiven
  <2>3. /\ db'[n] = Row("live", body.origin, body.tag)
        /\ \A r \in Rows : r # n => db'[r] = db[r]
    BY <1>2, <2>1 DEF TableSet
  <2>4. db'[n].tag = body.tag /\ db'[n].is = "live"
    BY <2>3 DEF Row
  <2>5. RowKeepsAmounts(n)
    BY <2>2, <2>4 DEF RowKeepsAmounts, TotalDrifts
  <2> QED BY <2>3, <2>5, SameRow
<1>5. CASE calls[i].op = "delete" /\ ServeRow(i)
  <2>1. db' = [db EXCEPT ![s].is = "gone"] /\ s \in Rows
    BY <1>2, <1>5, AnsweredCall DEF ServeRow, Consistent
  <2>2. db[s] \in RowSet
    BY <1>2, <2>1 DEF TableSet
  <2>3. /\ db'[s].tag = db[s].tag /\ db'[s].is = "gone"
        /\ \A r \in Rows : r # s => db'[r] = db[r]
    BY <1>2, <2>1, <2>2 DEF TableSet, RowSet
  <2>4. RowKeepsAmounts(s)
    BY <2>1, <2>3, SameRow
  <2> QED BY <2>3, <2>4, SameRow
<1>6. CASE db' = db
  BY <1>1, <1>6
<1>7. \/ db' = db
      \/ calls[i].op \in {"create", "delete"} /\ ServeRow(i)
      \/ /\ s \in Rows /\ Live(db, s)
         /\ \/ calls[i].op = "update" /\ ServeWrite(i, Tagged(s, Saved(tag, body)))
            \/ ServeWrite(i, Tagged(s, [tag EXCEPT !.status = "published"]))
            \/ ServeWrite(i, Tagged(s, [tag EXCEPT !.status = "paused"]))
            \/ tag.given < MaxGiven /\ ServeWrite(i, Tagged(s, Donated(tag)))
  BY DEF Serve, ServeList, Refused, Settle, CrudPageNames, ServeCampaign
<1>9. CASE s \in Rows /\ Live(db, s)
           /\ (\/ calls[i].op = "update" /\ ServeWrite(i, Tagged(s, Saved(tag, body)))
               \/ ServeWrite(i, Tagged(s, [tag EXCEPT !.status = "published"]))
               \/ ServeWrite(i, Tagged(s, [tag EXCEPT !.status = "paused"]))
               \/ tag.given < MaxGiven /\ ServeWrite(i, Tagged(s, Donated(tag))))
  <2>1. tag \in CampaignTags /\ tag.raised <= tag.given /\ tag.given \in Nat /\ tag.raised \in Nat
    BY <1>9, CampaignRow DEF AmountsAreGiven, Within
  <2>6. ASSUME NEW t \in CampaignTags, t.raised = tag.raised, t.given = tag.given,
               db' = Tagged(s, t)
        PROVE  \A r \in Rows : RowKeepsAmounts(r)
    BY <1>9, <2>1, <2>6, ChangedRow
  <2>2. CASE calls[i].op = "update" /\ ServeWrite(i, Tagged(s, Saved(tag, body)))
    <3>1. /\ body.row = s /\ s # 0 /\ body \in FormSet /\ AmountIsCopied(body)
          /\ db' = Tagged(s, Saved(tag, body))
      BY <1>2, <1>3, <1>9, <2>2, RowsAreNumbers
    <3>2. /\ Saved(tag, body) \in CampaignTags
          /\ Saved(tag, body).raised = body.tag.raised /\ Saved(tag, body).given = tag.given
      BY <1>2, <2>1, <3>1, CampaignWrites DEF FormSet
    <3>3. body.tag.raised <= tag.given /\ body.tag.raised = body.base.raised
      BY <3>1 DEF AmountIsCopied, Within
    <3>4. ASSUME tag.raised = tag.given, body.tag.raised # tag.given
          PROVE  OldAmountInFlight(s)
      <4>1. calls[i] \in InFlight /\ calls[i].op = "update" /\ calls[i].row = s
        BY <2>2 DEF InFlight
      <4>2. calls[i].body.base.raised # db[s].tag.raised
        BY <3>3, <3>4
      <4> QED BY <4>1, <4>2 DEF OldAmountInFlight
    <3> QED BY <1>9, <2>1, <3>1, <3>2, <3>3, <3>4, ChangedRow
  <2>3. CASE ServeWrite(i, Tagged(s, [tag EXCEPT !.status = "published"]))
    <3>1. /\ [tag EXCEPT !.status = "published"] \in CampaignTags
          /\ [tag EXCEPT !.status = "published"].raised = tag.raised
          /\ [tag EXCEPT !.status = "published"].given = tag.given
      BY <2>1, CampaignWrites
    <3>2. db' = Tagged(s, [tag EXCEPT !.status = "published"])
      BY <1>2, <2>3
    <3> QED BY <2>6, <3>1, <3>2
  <2>4. CASE ServeWrite(i, Tagged(s, [tag EXCEPT !.status = "paused"]))
    <3>1. /\ [tag EXCEPT !.status = "paused"] \in CampaignTags
          /\ [tag EXCEPT !.status = "paused"].raised = tag.raised
          /\ [tag EXCEPT !.status = "paused"].given = tag.given
      BY <2>1, CampaignWrites
    <3>2. db' = Tagged(s, [tag EXCEPT !.status = "paused"])
      BY <1>2, <2>4
    <3> QED BY <2>6, <3>1, <3>2
  <2>5. CASE tag.given < MaxGiven /\ ServeWrite(i, Tagged(s, Donated(tag)))
    <3>1. /\ Donated(tag) \in CampaignTags
          /\ Donated(tag).raised = tag.raised + 1 /\ Donated(tag).given = tag.given + 1
      BY <2>1, <2>5, CampaignWrites
    <3> QED BY <1>2, <1>9, <2>1, <2>5, <3>1, ChangedRow
  <2> QED BY <2>2, <2>3, <2>4, <2>5, <1>9
<1>8. CASE calls[i].op \in {"create", "delete"} /\ ServeRow(i)
  BY <1>4, <1>5, <1>8
<1> QED BY <1>6, <1>7, <1>8, <1>9

LEMMA OthersTable ==
  ASSUME WellTyped, AmountsAreGiven, page = "crowdfunding", Others
  PROVE  \A r \in Rows : RowKeepsAmounts(r)
<1>1. PICK s \in Rows : ColleagueDonates(s)
  BY DEF Others, CrudPageNames
<1>2. /\ db[s].tag \in CampaignTags /\ db[s].tag.raised <= db[s].tag.given
      /\ db[s].tag.given \in Nat /\ db[s].tag.raised \in Nat
  BY CampaignRow DEF AmountsAreGiven, Within
<1>3. /\ Donated(db[s].tag) \in CampaignTags
      /\ Donated(db[s].tag).raised = db[s].tag.raised + 1
      /\ Donated(db[s].tag).given = db[s].tag.given + 1
  BY <1>1, <1>2, CampaignWrites DEF ColleagueDonates
<1>4. Live(db, s) /\ db' = Tagged(s, Donated(db[s].tag))
  BY <1>1 DEF ColleagueDonates, OtherWrite
<1> QED BY <1>2, <1>3, <1>4, ChangedRow

LEMMA TableKeepsAmounts ==
  ASSUME WellTyped, CallsAreConsistent, AmountsAreGiven, FormsCopyAmounts,
         page' = page, ui' = ui, WellTyped',
         page = "crowdfunding" => \A r \in Rows : RowKeepsAmounts(r),
         DOMAIN calls' = DOMAIN calls,
         \A j \in DOMAIN calls : calls'[j].op = calls[j].op /\ calls'[j].body = calls[j].body,
         \A j \in DOMAIN calls : calls'[j].op = "list" /\ calls'[j].state = "ok" =>
             (calls[j].state = "ok" /\ calls'[j].got = calls[j].got) \/ calls'[j].got = db
  PROVE  AmountsAreGiven' /\ FormsCopyAmounts'
<1> SUFFICES ASSUME page = "crowdfunding"
             PROVE  AmountsAreGiven' /\ FormsCopyAmounts'
  BY DEF AmountsAreGiven, FormsCopyAmounts
<1>1. \A r \in Rows : /\ db[r].tag.given <= db'[r].tag.given
                      /\ db[r].tag.given \in Nat /\ db'[r].tag.given \in Nat
                      /\ ui.list.rows[r].tag.raised \in Nat
  <2>1. ASSUME NEW r \in Rows
        PROVE  /\ db'[r].tag.given \in Nat
               /\ ui.list.rows[r].tag.raised \in Nat
    <3>1. db'[r].tag \in Tags'
      BY DEF WellTyped, TableSet, RowSet
    <3>2. Tags' = CampaignTags
      BY SamePage, TagsOf DEF CampaignTags
    <3> QED BY <3>1, <3>2, CampaignRow DEF CampaignTags, MaxGiven
  <2> QED BY <2>1, CampaignRow DEF RowKeepsAmounts
<1>2. ASSUME NEW t, NEW r \in Rows, t.raised \in Nat, t.raised <= db[r].tag.given
      PROVE  t.raised <= db'[r].tag.given
  BY <1>1, <1>2
<1>3. ASSUME NEW f \in FormSet, AmountIsCopied(f)
      PROVE  /\ f.tag.raised = f.base.raised
             /\ f.row = 0 => f.tag.raised = 0 /\ f.tag.given = 0
             /\ f.row # 0 => f.tag.raised <= db'[f.row].tag.given
  <2>1. f.tag.raised \in Nat /\ (f.row # 0 => f.row \in Rows)
    BY <1>3, CampaignForm
  <2>2. f.row # 0 => f.tag.raised <= db[f.row].tag.given
    BY <1>3 DEF AmountIsCopied, Within
  <2>3. f.row # 0 => f.tag.raised <= db'[f.row].tag.given
    BY <1>2, <2>1, <2>2
  <2> QED BY <1>3, <2>3 DEF AmountIsCopied
<1>4. ui'.form # NoForm => ui'.form \in FormSet /\ AmountIsCopied(ui'.form)
  BY DEF FormsCopyAmounts, WellTyped, UiSet
<1>5. ASSUME NEW j \in DOMAIN calls', Edits(calls'[j])
      PROVE  calls'[j].body \in FormSet /\ AmountIsCopied(calls'[j].body)
  <2>1. Edits(calls[j]) /\ calls'[j].body = calls[j].body
    BY <1>5 DEF Edits
  <2> QED BY <1>5, <2>1, AnsweredCall DEF FormsCopyAmounts, Consistent, Edits
<1>6. ASSUME NEW j \in DOMAIN calls', calls'[j].op = "list", calls'[j].state = "ok", NEW r \in Rows
      PROVE  calls'[j].got[r].tag.raised <= db'[r].tag.given
  <2>1. CASE calls'[j].got = db
    <3>1. db[r].tag.raised \in Nat /\ db[r].tag.raised <= db[r].tag.given
      BY CampaignRow DEF AmountsAreGiven, Within
    <3> QED BY <1>2, <2>1, <3>1
  <2>2. CASE calls[j].state = "ok" /\ calls'[j].got = calls[j].got
    <3>1. calls[j].op = "list" /\ calls[j].got \in TableSet
      BY <1>6, <2>2, AnsweredCall DEF Consistent
    <3>2. calls[j].got[r].tag \in CampaignTags
      BY <3>1, TagsOf DEF TableSet, RowSet, CampaignTags
    <3>3. calls[j].got[r].tag.raised \in Nat
      BY <3>2 DEF CampaignTags, MaxGiven
    <3>4. calls[j].got[r].tag.raised <= db[r].tag.given
      BY <1>6, <2>2, <3>1 DEF AmountsAreGiven, Within
    <3> QED BY <1>2, <2>2, <3>3, <3>4
  <2> QED BY <1>6, <2>1, <2>2
<1>7. AmountsAreGiven'
  <2>1. ASSUME NEW r \in Rows
        PROVE  ui'.list.rows[r].tag.raised <= db'[r].tag.given
    <3>1. ui.list.rows[r].tag.raised <= db[r].tag.given
      BY DEF AmountsAreGiven, Within
    <3> QED BY <1>1, <1>2, <3>1
  <2>2. \A r \in Rows : /\ db'[r].tag.raised <= db'[r].tag.given
                        /\ db'[r].is = "absent" => db'[r].tag.given = 0
    BY DEF RowKeepsAmounts
  <2>3. \A j \in DOMAIN calls' :
           calls'[j].op = "list" /\ calls'[j].state = "ok" =>
               \A r \in Rows : calls'[j].got[r].tag.raised <= db'[r].tag.given
    BY <1>6
  <2>4. \A r \in Rows : Within(r, db[r].tag)' /\ Within(r, ui.list.rows[r].tag)'
    BY <2>1, <2>2 DEF Within
  <2>5. \A j \in DOMAIN calls' :
           calls'[j].op = "list" /\ calls'[j].state = "ok" =>
               \A r \in Rows : Within(r, calls[j].got[r].tag)'
    BY <2>3 DEF Within
  <2> QED BY <2>2, <2>4, <2>5 DEF AmountsAreGiven
<1>8. FormsCopyAmounts'
  <2>1. ASSUME NEW j \in DOMAIN calls', Edits(calls'[j])
        PROVE  /\ calls'[j].body.tag.raised = calls'[j].body.base.raised
               /\ calls'[j].body.row = 0 =>
                     calls'[j].body.tag.raised = 0 /\ calls'[j].body.tag.given = 0
               /\ calls'[j].body.row # 0 =>
                     calls'[j].body.tag.raised <= db'[calls'[j].body.row].tag.given
    BY <1>3, <1>5, <2>1
  <2>2. ui'.form # NoForm =>
               /\ ui'.form.tag.raised = ui'.form.base.raised
               /\ ui'.form.row = 0 => ui'.form.tag.raised = 0 /\ ui'.form.tag.given = 0
               /\ ui'.form.row # 0 => ui'.form.tag.raised <= db'[ui'.form.row].tag.given
    BY <1>3, <1>4
  <2> QED BY <2>1, <2>2 DEF FormsCopyAmounts, AmountIsCopied, Within, Edits
<1> QED BY <1>7, <1>8

LEMMA ServeKeepsAmounts ==
  ASSUME WellTyped, WellTyped', CallsAreConsistent, AmountsAreGiven, FormsCopyAmounts,
         NEW i \in DOMAIN calls, Serve(i), ServeMoves(i)
  PROVE  AmountsAreGiven' /\ FormsCopyAmounts'
<1>1. /\ page' = page /\ ui' = ui /\ DOMAIN calls' = DOMAIN calls
      /\ \A j \in DOMAIN calls : calls'[j].op = calls[j].op /\ calls'[j].body = calls[j].body
      /\ \A j \in DOMAIN calls : j # i => calls'[j] = calls[j]
  BY ServedCalls DEF ServeMoves
<1>2. calls'[i].op = "list" /\ calls'[i].state = "ok" => calls'[i].got = db
  BY <1>1 DEF ServeMoves, Wrote, Read, Turned
<1>3. \A j \in DOMAIN calls : calls'[j].op = "list" /\ calls'[j].state = "ok" =>
         (calls[j].state = "ok" /\ calls'[j].got = calls[j].got) \/ calls'[j].got = db
  BY <1>1, <1>2
<1> QED BY <1>1, <1>3, CampaignTable, TableKeepsAmounts

LEMMA OthersKeepAmounts ==
  ASSUME WellTyped, WellTyped', CallsAreConsistent, AmountsAreGiven, FormsCopyAmounts,
         Others, OthersMove
  PROVE  AmountsAreGiven' /\ FormsCopyAmounts'
<1>1. page' = page /\ ui' = ui /\ calls' = calls
  BY DEF OthersMove
<1> QED BY <1>1, OthersTable, TableKeepsAmounts

-----------------------------------------------------------------------------
(***************************************************************************)
(* The inductive invariant of all pages                                    *)
(***************************************************************************)
Sound ==
    /\ WellTyped
    /\ CallsAreConsistent
    /\ OneSave
    /\ FollowInv
    /\ FreshInv
    /\ TwinsInv
    /\ AmountsAreGiven
    /\ FormsCopyAmounts

\* A page that is mounted: its list is being read.
LEMMA MountedIsSound ==
  ASSUME NEW p \in PageNames, NEW rows, NEW view, Mounted(p, rows, view),
         rows \in TableSet, view \in Views,
         p \in Fixed => view = NoFilter,
         \A r \in Rows : rows[r].origin = 0,
         p = "crowdfunding" =>
             \A r \in Rows : rows[r].tag.raised <= rows[r].tag.given
                             /\ rows[r].tag.given = 0 /\ rows[r].tag.raised = 0
  PROVE  Sound
<1> DEFINE blank == [r \in Rows |-> Row("absent", 0, rows[1].tag)]
           c == List(view, "view")
<1>1. /\ page = p /\ staff \in BOOLEAN /\ db = rows /\ calls = <<c>>
      /\ opened = 0 /\ sent = 0 /\ untold = FALSE
      /\ ui.filter = view /\ ui.loading = TRUE /\ ui.submitting = FALSE /\ ui.error = FALSE
      /\ ui.readOnly \in BOOLEAN /\ ui.form = NoForm /\ ui.side = NoForm /\ ui.shown = 0
      /\ ui.list = [view |-> view, kind |-> "view", rows |-> blank]
      /\ ui = [filter |-> ui.filter, loading |-> ui.loading, submitting |-> ui.submitting,
               error |-> ui.error, readOnly |-> ui.readOnly, form |-> ui.form,
               side |-> ui.side, shown |-> ui.shown, list |-> ui.list]
  BY DEF Mounted
<1>2. /\ 0 \in 0..MaxRows /\ 0 \in 0..MaxForms /\ 0 \in 0..MaxCalls /\ 1 \in Rows
  BY ScreenAssumption, RowsAreNumbers
<1>3. rows[1].tag \in Tags
  BY <1>2 DEF TableSet, RowSet
<1>4. Row("absent", 0, rows[1].tag) \in RowSet
  BY <1>2, <1>3 DEF Row, RowSet
<1>5. blank \in TableSet /\ \A r \in Rows : blank[r].tag = rows[1].tag
  BY <1>4 DEF TableSet, Row
<1> HIDE DEF blank
<1>6. ui.list \in ListSet /\ ui.list.view = view /\ ui.list.rows = blank /\ ui.list.kind = "view"
  BY <1>1, <1>5 DEF ListSet
<1>7. ui \in UiSet
  BY <1>1, <1>2, <1>6 DEF UiSet
<1>8. /\ c \in CallSet /\ c.op = "list" /\ c.view = view /\ c.job = "view"
      /\ c.state = "sent" /\ c.passed = FALSE
  BY <1>2 DEF List, CallSet, Ops, Jobs
<1> HIDE DEF c
<1>9. /\ calls \in Seq(CallSet) /\ DOMAIN calls = {1} /\ calls[1] = c
  BY <1>1, <1>8
<1>10. WellTyped
  BY <1>1, <1>2, <1>7, <1>9 DEF WellTyped
<1>11. CallsAreConsistent
  BY <1>1, <1>8, <1>9 DEF CallsAreConsistent, Consistent, JobOf, Jobs, Pages
<1>12. Lists = {1} /\ Saves = {} /\ Looks = {1} /\ Reading = {1}
  BY <1>8, <1>9 DEF Lists, Saves, Looks, Reading
<1>13. OneSave
  BY <1>1, <1>8, <1>9, <1>12 DEF OneSave
<1>14. FollowInv
  BY <1>1, <1>6, <1>8, <1>9, <1>12 DEF FollowInv, OneView, LooksInOrder, ListWillFollow
<1>15. ReadsFresh(1)
  BY <1>8, <1>9 DEF ReadsFresh
<1>16. FreshInv
  BY <1>12, <1>15 DEF FreshInv, ReadsInOrder, ListWillBeFresh
<1>17. TwinsInv
  BY <1>1, <1>8, <1>9
     DEF TwinsInv, OriginsAreOpened, FormsMakeOneRow, NewForm
<1>18. AmountsAreGiven
  BY <1>1, <1>2, <1>5, <1>6, <1>8, <1>9 DEF AmountsAreGiven, Within
<1>19. FormsCopyAmounts
  BY <1>1, <1>8, <1>9 DEF FormsCopyAmounts, Edits
<1> QED BY <1>10, <1>11, <1>13, <1>14, <1>16, <1>17, <1>18, <1>19 DEF Sound

LEMMA FirstTable ==
  ASSUME NEW is \in [Rows -> {"absent", "live", "gone"}], NEW tags \in [Rows -> Tags]
  PROVE  LET rows == [r \in Rows |-> Row(is[r], 0, tags[r])]
         IN  /\ rows \in TableSet
             /\ \A r \in Rows : rows[r].origin = 0 /\ rows[r].tag = tags[r]
BY ScreenAssumption DEF TableSet, RowSet, Row

LEMMA InitIsSound == Init => Sound
<1> DEFINE is == [r \in Rows |-> IF r = 1 THEN "live" ELSE "absent"]
<1>1. ASSUME NEW p \in PageNames, page = p, NEW tag \in Tags, NEW view \in Views,
             Mounted(p, OneRow(tag), view), p \in Fixed => view = NoFilter,
             p = "crowdfunding" => tag.raised = 0 /\ tag.given = 0
      PROVE  Sound
  <2> DEFINE tags == [r \in Rows |-> tag]
             rows == [r \in Rows |-> Row(is[r], 0, tags[r])]
  <2>1. OneRow(tag) = rows
    BY DEF OneRow
  <2>2. is \in [Rows -> {"absent", "live", "gone"}] /\ tags \in [Rows -> Tags]
    OBVIOUS
  <2>3. \A r \in Rows : tags[r] = tag
    OBVIOUS
  <2> HIDE DEF is, tags
  <2>4. rows \in TableSet /\ \A r \in Rows : rows[r].origin = 0 /\ rows[r].tag = tags[r]
    BY <2>2, FirstTable
  <2> HIDE DEF rows
  <2> QED BY <1>1, <2>1, <2>3, <2>4, MountedIsSound
<1>2. NoFilter \in Filters
  BY ScreenAssumption
<1>3. page # "internships" => NoFilter \in Views
  BY <1>2 DEF Views
<1>4. CASE CrudMount
  <2>1. PICK p \in CrudPageNames : Mounted(p, OneRow(Plain), NoFilter)
    BY <1>4 DEF CrudMount, CrudPageNames, MembersMount, RecordsMount, ProjectsMount,
                DesignationsMount
  <2>2. page = p /\ p \in PageNames /\ p \notin Fixed /\ p # "crowdfunding" /\ p # "internships"
    BY <2>1 DEF Mounted, PageNames, CrudPageNames, Fixed
  <2>3. Plain \in Tags
    BY <2>1, <2>2, TagsOf
  <2> QED BY <1>1, <1>3, <2>1, <2>2, <2>3
<1>5. CASE DonationsMount
  <2>1. page = "donations" /\ Mounted("donations", OneRow("pending"), NoFilter)
    BY <1>5 DEF DonationsMount, Mounted
  <2>2. "pending" \in Tags /\ "donations" \in PageNames /\ "donations" \notin Fixed
    BY <2>1, TagsOf DEF PageNames, Fixed
  <2> QED BY <1>1, <1>3, <2>1, <2>2
<1>6. CASE CampaignsMount
  <2>1. page = "crowdfunding" /\ Mounted("crowdfunding", OneRow(NewCampaign), NoFilter)
    BY <1>6 DEF CampaignsMount, Mounted
  <2>2. /\ NewCampaign \in Tags /\ NewCampaign.raised = 0 /\ NewCampaign.given = 0
        /\ "crowdfunding" \in PageNames /\ "crowdfunding" \notin Fixed
    <3>1. Tags = CampaignTags
      BY <2>1, TagsOf DEF CampaignTags
    <3>2. NewCampaign \in CampaignTags /\ NewCampaign.raised = 0 /\ NewCampaign.given = 0
      BY DEF NewCampaign, Campaign, CampaignTags, MaxGiven
    <3> QED BY <3>1, <3>2 DEF PageNames, Fixed
  <2> QED BY <1>1, <1>3, <2>1, <2>2
<1>7. CASE InternsMount
  <2>1. /\ page = "internships"
        /\ Mounted("internships", OneRow(NewIntern), InternView(NoFilter, Unnamed))
    BY <1>7 DEF InternsMount, Mounted
  <2>2. /\ NewIntern \in Tags /\ InternView(NoFilter, Unnamed) \in Views
        /\ "internships" \in PageNames /\ "internships" \notin Fixed
    BY <1>2, <2>1, TagsOf DEF PageNames, Fixed, NewIntern, Intern, InternView, Views
  <2> QED BY <1>1, <2>1, <2>2
<1>8. ASSUME NEW p \in Fixed, NEW s \in [Rows -> {"absent", "live", "gone"}],
             NEW tags \in [Rows -> Tags], page = p,
             Mounted(p, [r \in Rows |-> Row(s[r], 0, tags[r])], NoFilter)
      PROVE  Sound
  <2>1. p \in PageNames /\ p # "crowdfunding" /\ p # "internships"
    BY DEF Fixed, PageNames
  <2> DEFINE rows == [r \in Rows |-> Row(s[r], 0, tags[r])]
  <2>2. rows \in TableSet /\ \A r \in Rows : rows[r].origin = 0
    BY FirstTable
  <2> HIDE DEF rows
  <2>3. Mounted(p, rows, NoFilter)
    BY <1>8 DEF rows
  <2> QED BY <1>3, <1>8, <2>1, <2>2, <2>3, MountedIsSound
<1>9. ASSUME NEW p \in Fixed, NEW first \in Tags, NEW second \in Tags, page = p,
             Mounted(p, TwoRows(first, second), NoFilter)
      PROVE  Sound
  <2> DEFINE s == [r \in Rows |-> IF r \in {1, 2} THEN "live" ELSE "absent"]
             tags == [r \in Rows |-> IF r = 1 THEN first ELSE second]
  <2>1. s \in [Rows -> {"absent", "live", "gone"}] /\ tags \in [Rows -> Tags]
    OBVIOUS
  <2>2. TwoRows(first, second) = [r \in Rows |-> Row(s[r], 0, tags[r])]
    BY DEF TwoRows
  <2> HIDE DEF s, tags
  <2> QED BY <1>8, <1>9, <2>1, <2>2
<1>10. CASE ReceiptsMount
  <2>1. page = "receipts" /\ Mounted("receipts", TwoRows("paid", "pending"), NoFilter)
    BY <1>10 DEF ReceiptsMount, Mounted
  <2>2. "paid" \in Tags /\ "pending" \in Tags /\ "receipts" \in Fixed
    BY <2>1, TagsOf DEF Fixed
  <2> QED BY <1>9, <2>1, <2>2
<1>11. CASE CardsMount
  <2>1. page = "cards" /\ Mounted("cards", TwoRows("volunteer", "volunteer"), NoFilter)
    BY <1>11 DEF CardsMount, Mounted
  <2>2. "volunteer" \in Tags /\ "cards" \in Fixed
    BY <2>1, TagsOf DEF Fixed
  <2> QED BY <1>9, <2>1, <2>2
<1>12. CASE SettingsMount
  <2>1. page = "settings" /\ Mounted("settings", SettingsRows, NoFilter)
    BY <1>12 DEF SettingsMount, Mounted
  <2>2. {"stored", "active"} \subseteq Tags /\ "settings" \in Fixed
    BY <2>1, TagsOf DEF Fixed
  <2> DEFINE s == [r \in Rows |-> IF r \in {Platform, Member} THEN "live" ELSE "absent"]
             tags == [r \in Rows |-> IF r = Platform THEN "stored" ELSE "active"]
  <2>3. s \in [Rows -> {"absent", "live", "gone"}] /\ tags \in [Rows -> Tags]
    BY <2>2
  <2>4. SettingsRows = [r \in Rows |-> Row(s[r], 0, tags[r])]
    BY DEF SettingsRows, Platform, Member
  <2> HIDE DEF s, tags
  <2> QED BY <1>8, <2>1, <2>2, <2>3, <2>4
<1> QED BY <1>4, <1>5, <1>6, <1>7, <1>10, <1>11, <1>12 DEF Init

LEMMA UserIsSound ==
  ASSUME Sound, User
  PROVE  Sound' /\ UserMoves
<1>1. /\ WellTyped /\ CallsAreConsistent /\ OneSave /\ FollowInv /\ FreshInv /\ TwinsInv
      /\ AmountsAreGiven /\ FormsCopyAmounts
  BY DEF Sound
<1>2. page \in {"settings", "receipts", "cards"} => ui.filter = NoFilter
  BY <1>1 DEF FollowInv, OneView, Fixed
<1>3. UserMoves
  BY <1>1, <1>2, TheUserMoves
<1>4. page = "crowdfunding" => CampaignsUser
  BY DEF User, CrudPageNames
<1>5. WellTyped' /\ CallsAreConsistent'
  BY <1>1, <1>3, UserTypes
<1>6. OneSave'
  BY <1>1, <1>3, UserSaves
<1>7. FollowInv'
  BY <1>1, <1>3, UserFollows
<1>8. FreshInv'
  BY <1>1, <1>3, UserKeepsFresh
<1>9. TwinsInv'
  BY <1>1, <1>3, UserMakesOne
<1>10. AmountsAreGiven' /\ FormsCopyAmounts'
  BY <1>1, <1>3, <1>4, UserKeepsAmounts
<1> QED BY <1>3, <1>5, <1>6, <1>7, <1>8, <1>9, <1>10 DEF Sound

LEMMA AnswerIsSound ==
  ASSUME Sound, NEW i \in DOMAIN calls, ShowAnswer(i)
  PROVE  Sound' /\ AnswerMoves(i)
<1>1. /\ WellTyped /\ CallsAreConsistent /\ OneSave /\ FollowInv /\ FreshInv /\ TwinsInv
      /\ AmountsAreGiven /\ FormsCopyAmounts
  BY DEF Sound
<1>2. AnswerMoves(i)
  BY <1>1, TheAnswerMoves
<1>3. WellTyped' /\ CallsAreConsistent'
  BY <1>1, <1>2, AnswerTypes
<1>4. OneSave'
  BY <1>1, <1>2, AnswerSaves
<1>5. FollowInv'
  BY <1>1, <1>2, AnswerFollows
<1>6. FreshInv'
  BY <1>1, <1>2, AnswerKeepsFresh
<1>7. TwinsInv'
  BY <1>1, <1>2, AnswerMakesOne
<1>8. AmountsAreGiven' /\ FormsCopyAmounts'
  BY <1>1, <1>2, AnswerKeepsAmounts
<1> QED BY <1>2, <1>3, <1>4, <1>5, <1>6, <1>7, <1>8 DEF Sound

LEMMA ServeIsSound ==
  ASSUME Sound, NEW i \in DOMAIN calls, Serve(i)
  PROVE  Sound' /\ ServeMoves(i)
<1>1. /\ WellTyped /\ CallsAreConsistent /\ OneSave /\ FollowInv /\ FreshInv /\ TwinsInv
      /\ AmountsAreGiven /\ FormsCopyAmounts
  BY DEF Sound
<1>2. ServeMoves(i)
  BY <1>1, TheServeMoves
<1>3. WellTyped' /\ CallsAreConsistent'
  BY <1>1, <1>2, ServeTypes
<1>4. OneSave'
  BY <1>1, <1>2, ServeSaves
<1>5. FollowInv'
  BY <1>1, <1>2, ServeFollows
<1>6. FreshInv'
  BY <1>1, <1>2, ServeKeepsFresh
<1>7. TwinsInv'
  BY <1>1, <1>2, ServeMakesOne
<1>8. AmountsAreGiven' /\ FormsCopyAmounts'
  BY <1>1, <1>2, <1>3, ServeKeepsAmounts
<1> QED BY <1>2, <1>3, <1>4, <1>5, <1>6, <1>7, <1>8 DEF Sound

LEMMA OthersAreSound ==
  ASSUME Sound, Others
  PROVE  Sound' /\ OthersMove
<1>1. /\ WellTyped /\ CallsAreConsistent /\ OneSave /\ FollowInv /\ FreshInv /\ TwinsInv
      /\ AmountsAreGiven /\ FormsCopyAmounts
  BY DEF Sound
<1>2. OthersMove
  BY <1>1, TheOthersMove
<1>3. WellTyped' /\ CallsAreConsistent'
  BY <1>1, <1>2, OthersTypes
<1>4. OneSave'
  BY <1>1, <1>2, OthersSave
<1>5. FollowInv'
  BY <1>1, <1>2, OthersFollow
<1>6. FreshInv'
  BY <1>1, <1>2, OthersKeepFresh
<1>7. TwinsInv'
  BY <1>1, <1>2, OthersMakeOne
<1>8. AmountsAreGiven' /\ FormsCopyAmounts'
  BY <1>1, <1>2, <1>3, OthersKeepAmounts
<1> QED BY <1>2, <1>3, <1>4, <1>5, <1>6, <1>7, <1>8 DEF Sound

LEMMA NothingIsSound ==
  ASSUME Sound, UNCHANGED screenVars
  PROVE  Sound'
<1> USE DEF screenVars
<1>1. /\ WellTyped' /\ OneSave' /\ AmountsAreGiven' /\ FormsCopyAmounts'
      /\ CallsAreConsistent'
  <2>1. WellTyped'
    BY TypesStay DEF Sound, WellTyped
  <2>2. CallsAreConsistent'
    BY NowConsistent DEF Sound, CallsAreConsistent
  <2>3. OneSave'
    BY DEF Sound, OneSave, Saves, Lists
  <2>4. AmountsAreGiven' /\ FormsCopyAmounts'
    BY DEF Sound, AmountsAreGiven, FormsCopyAmounts, Within, AmountIsCopied, Edits
  <2> QED BY <2>1, <2>2, <2>3, <2>4
<1>2. FollowInv'
  BY DEF Sound, FollowInv, OneView, LooksInOrder, ListWillFollow, Changes, Fixed, Looks, Lists
<1>3. FreshInv'
  BY DEF Sound, FreshInv, ReadsInOrder, ListWillBeFresh, WriteInFlight, Writing, ReadsFresh,
         Reading, Lists, Fixed
<1>4. TwinsInv'
  BY DEF Sound, TwinsInv, OriginsAreOpened, FormsMakeOneRow, NewForm, Made, MayCreate,
         CrudPageNames
<1> QED BY <1>1, <1>2, <1>3, <1>4 DEF Sound

LEMMA NextIsSound ==
  ASSUME Sound, [Next]_screenVars
  PROVE  Sound'
BY UserIsSound, AnswerIsSound, ServeIsSound, OthersAreSound, NothingIsSound DEF Next

\* The dashboard keeps all parts of its invariant.
THEOREM DashboardIsSound == Spec => []Sound
<1>1. Sound /\ [Next]_screenVars => Sound'
  BY NextIsSound
<1> QED BY InitIsSound, <1>1, PTL DEF Spec

\* The submit button is disabled exactly while a save or its reload is under
\* way, and the page never rests with a spinner on.
THEOREM FlagsAreTrue == Spec => []FlagsTellTheTruth
<1>1. Sound => FlagsTellTheTruth
  <2> SUFFICES ASSUME Sound
               PROVE  FlagsTellTheTruth
    OBVIOUS
  <2>1. (ui.submitting <=> Saves # {}) /\ (ui.loading => Lists # {})
    BY DEF Sound, OneSave
  <2> QED BY <2>1 DEF FlagsTellTheTruth, InFlight, Saves, Lists
<1> QED BY DashboardIsSound, <1>1, PTL

\* At rest, a list that the filter asked for and that was answered in order is
\* the list of the filter on screen.  It says nothing of a list that was
\* answered after a later read (kind "late").
THEOREM TheListFollows == Spec => []ListFollows
<1>1. Sound => ListFollows
  <2> SUFFICES ASSUME Sound, Settled, ~ui.error, ui.list.kind = "view"
               PROVE  ui.list.view = ui.filter
    BY DEF ListFollows
  <2>1. DOMAIN calls = {} /\ Looks = {}
    BY DEF Settled, Looks, Lists
  <2> QED BY <2>1 DEF Sound, FollowInv, ListWillFollow
<1> QED BY DashboardIsSound, <1>1, PTL

\* At rest, when no error is on screen, no answer was lost, nobody else wrote
\* and the list on screen was answered in order, the page shows the rows the
\* backend holds.
THEOREM TheListIsFresh == Spec => []Fresh
<1>1. Sound => Fresh
  <2> SUFFICES ASSUME Sound, page \notin {"settings", "receipts", "cards"}, Settled, ~ui.error,
                      ~untold, ui.list.kind # "late"
               PROVE  ui.list.rows = db
    BY DEF Fresh
  <2>1. DOMAIN calls = {} /\ Reading = {}
    BY DEF Settled, Reading, Lists
  <2> QED BY <2>1 DEF Sound, FreshInv, Fixed, WriteInFlight, ListWillBeFresh
<1> QED BY DashboardIsSound, <1>1, PTL

\* One form makes one row, unless its user was told it failed when it did not.
THEOREM FormsMakeNoTwins == Spec => []NoTwins
<1>1. Sound => NoTwins
  BY DEF Sound, TwinsInv, FormsMakeOneRow, NoTwins
<1> QED BY DashboardIsSound, <1>1, PTL

\* The types that the model checker is given.
THEOREM DashboardIsTyped == Spec => []TypeOK
<1>1. Sound => TypeOK
  <2> SUFFICES ASSUME Sound
               PROVE  TypeOK
    OBVIOUS
  <2>1. WellTyped
    BY DEF Sound
  <2>2. /\ page \in CrudPageNames \cup
               {"donations", "receipts", "cards", "crowdfunding", "internships", "settings"}
        /\ DOMAIN db = Rows
        /\ staff \in BOOLEAN /\ untold \in BOOLEAN
        /\ opened \in 0..MaxForms /\ sent \in 0..MaxCalls
    BY <2>1 DEF WellTyped, PageNames, TableSet
  <2>3. \A r \in Rows : /\ db[r].is \in {"absent", "live", "gone"}
                        /\ db[r].origin \in 0..MaxForms /\ db[r].tag \in Tags
    BY <2>1 DEF WellTyped, TableSet, RowSet
  <2>4. /\ ui.loading \in BOOLEAN /\ ui.submitting \in BOOLEAN /\ ui.error \in BOOLEAN
        /\ ui.readOnly \in BOOLEAN
        /\ ui.form \in {NoForm} \cup FormSet
        /\ ui.side \in {NoForm} \cup 0..MaxRows /\ ui.shown \in 0..MaxRows
        /\ ui.list \in ListSet
    BY <2>1 DEF WellTyped, UiSet
  <2>5. ui.form = NoForm \/ (ui.form.row \in 0..MaxRows /\ {ui.form.base, ui.form.tag} \subseteq Tags)
    BY <2>4 DEF FormSet
  <2>6. DOMAIN ui.list.rows = Rows /\ ui.list.kind \in {"view", "reload", "late"}
    BY <2>4 DEF ListSet, TableSet
  <2>7. \A c \in InFlight : c.job \in Jobs /\ c.state \in {"sent", "ok", "failed"}
    BY <2>1, CallsTyped DEF InFlight, CallSet
  <2> QED BY <2>2, <2>3, <2>4, <2>5, <2>6, <2>7 DEF TypeOK
<1> QED BY DashboardIsSound, <1>1, PTL

\* The amount raised differs from the donations only through a form that was
\* opened on another amount than the stored one.
THEOREM TotalsSurvive == Spec => TotalsSurviveFreshForms
<1>1. Sound /\ [Next]_screenVars =>
         [page = "crowdfunding" =>
             \A r \in Rows : TotalDrifts(r) => OldAmountInFlight(r)]_screenVars
  <2> SUFFICES ASSUME Sound, Next, page = "crowdfunding", NEW r \in Rows, TotalDrifts(r)
               PROVE  OldAmountInFlight(r)
    OBVIOUS
  <2>1. db' # db
    BY DEF TotalDrifts
  <2>2. CASE User
    BY <2>1, <2>2, UserIsSound DEF UserMoves
  <2>3. ASSUME NEW i \in DOMAIN calls, ShowAnswer(i)
        PROVE  OldAmountInFlight(r)
    BY <2>1, <2>3, AnswerIsSound DEF AnswerMoves, Done
  <2>4. ASSUME NEW i \in DOMAIN calls, Serve(i)
        PROVE  OldAmountInFlight(r)
    BY <2>4, CampaignTable DEF Sound, RowKeepsAmounts
  <2>5. CASE Others
    BY <2>5, OthersTable DEF Sound, RowKeepsAmounts
  <2> QED BY <2>2, <2>3, <2>4, <2>5 DEF Next
<1> QED BY DashboardIsSound, <1>1, PTL DEF Spec, TotalsSurviveFreshForms

\* What is typed into the open application form survives every answer once no
\* list asked for before the page knew an announcement is in flight.
THEOREM TypingIsKept == Spec => FormKeepsTyping
<1> DEFINE Known == \A c \in InFlight : c.op = "list" => c.view.named # Unnamed
<1>1. Sound /\ [Next]_screenVars =>
         [page = "internships" /\ Arrives /\ Known => ui'.form \in {ui.form, NoForm}]_screenVars
  <2> SUFFICES ASSUME Sound, Next, page = "internships", Arrives, Known
               PROVE  ui'.form \in {ui.form, NoForm}
    OBVIOUS
  <2>1. CASE User
    <3>1. UserMoves
      BY <2>1, UserIsSound
    <3>0. calls \in Seq(CallSet)
      BY DEF Sound, WellTyped
    <3>2. PICK c : calls' = calls \/ calls' = Append(calls, c)
      BY <3>1 DEF UserMoves, Rests, Asks, Writes
    <3>3. \A j \in DOMAIN calls : j \in DOMAIN calls' /\ calls'[j] = calls[j]
      BY <3>0, <3>2
    <3> QED BY <3>3 DEF Arrives
  <2>2. ASSUME NEW i \in DOMAIN calls, ShowAnswer(i)
        PROVE  ui'.form \in {ui.form, NoForm}
    <3>1. AnswerMoves(i)
      BY <2>2, AnswerIsSound
    <3>2. calls[i].op = "list" => ~NamesFirst(calls[i])
      BY DEF InFlight, NamesFirst
    <3>3. page \in MayCreate
      BY DEF MayCreate
    <3>4. ui'.form = ui.form \/ ui'.form = NoForm
      BY <3>1, <3>2, <3>3
         DEF AnswerMoves, Ends, Reloads, Pays, ThenMarkPaid, Shows, ShowsAndAsks, FormStays
    <3> QED BY <3>4
  <2>3. ASSUME NEW i \in DOMAIN calls, Serve(i)
        PROVE  ui' = ui
    BY <2>3, ServeIsSound DEF ServeMoves
  <2>4. CASE Others
    BY <2>4, OthersAreSound DEF OthersMove
  <2> QED BY <2>1, <2>2, <2>3, <2>4 DEF Next
<1> QED BY DashboardIsSound, <1>1, PTL DEF Spec, FormKeepsTyping

-----------------------------------------------------------------------------
(***************************************************************************)
(* The donations page: statuses are chosen in the form, and a save that    *)
(* chose "paid" and has been executed to its last call is booked.          *)
(***************************************************************************)
SendsForm(c) == c.op \in {"create", "update", "pay"}

\* The last call of a save.
Settles(c) == c.op \in {"create", "pay"} \/ (c.op = "update" /\ ~MarksPaid(c.body))

StatusesAreChosen ==
    page = "donations" =>
        /\ ui.form # NoForm => ui.form.tag \in FormStatuses
        /\ \A i \in DOMAIN calls : SendsForm(calls[i]) => calls[i].body.tag \in FormStatuses

SavedAsPaid(c) == c.state = "ok" /\ Settles(c) /\ c.body.tag = "paid"

PaidIsBooked ==
    page = "donations" =>
        \A i \in DOMAIN calls : SavedAsPaid(calls[i]) => Booked(calls[i])

DonationsInv == StatusesAreChosen /\ PaidIsBooked

\* Calls are kept, and one may be sent, while the table stays.
LEMMA DonationsStay ==
  ASSUME DonationsInv, page' = page, db' = db, NEW i, NEW m, Keeps(i, m),
         Nothing(m) \/ \E c : /\ Sends(m, c) /\ c.state = "sent"
                              /\ page = "donations" /\ SendsForm(c) => c.body.tag \in FormStatuses,
         page = "donations" /\ ui'.form # NoForm => ui'.form.tag \in FormStatuses
  PROVE  DonationsInv'
<1> SUFFICES ASSUME page = "donations"
             PROVE  DonationsInv'
  BY DEF DonationsInv, StatusesAreChosen, PaidIsBooked
<1>1. /\ m \in Nat
      /\ \A j \in 1..m : /\ Skip(i, j) \in DOMAIN calls
                         /\ calls'[j].op = calls[Skip(i, j)].op
                         /\ calls'[j].row = calls[Skip(i, j)].row
                         /\ calls'[j].body = calls[Skip(i, j)].body
                         /\ calls'[j].state = calls[Skip(i, j)].state
  BY DEF Keeps
<1>2. ASSUME NEW j \in DOMAIN calls', j \notin 1..m
      PROVE  /\ calls'[j].state = "sent"
             /\ SendsForm(calls'[j]) => calls'[j].body.tag \in FormStatuses
  <2>1. ~Nothing(m)
    BY <1>2 DEF Nothing
  <2>2. PICK c : /\ Sends(m, c) /\ c.state = "sent"
                 /\ SendsForm(c) => c.body.tag \in FormStatuses
    BY <2>1
  <2>3. j = m + 1 /\ calls'[m + 1] = c
    BY <1>1, <1>2, <2>2 DEF Sends
  <2> QED BY <2>2, <2>3
<1>3. ASSUME NEW j \in DOMAIN calls', SendsForm(calls'[j])
      PROVE  calls'[j].body.tag \in FormStatuses
  <2>1. CASE j \in 1..m
    <3>1. Skip(i, j) \in DOMAIN calls /\ SendsForm(calls[Skip(i, j)])
      BY <1>1, <1>3, <2>1 DEF SendsForm
    <3>2. calls[Skip(i, j)].body.tag \in FormStatuses
      BY <3>1 DEF DonationsInv, StatusesAreChosen
    <3> QED BY <1>1, <2>1, <3>2
  <2> QED BY <1>2, <1>3, <2>1
<1>4. ASSUME NEW j \in DOMAIN calls', SavedAsPaid(calls'[j])
      PROVE  Booked(calls'[j])
  <2>1. j \in 1..m
    BY <1>2, <1>4 DEF SavedAsPaid
  <2>2. Skip(i, j) \in DOMAIN calls /\ SavedAsPaid(calls[Skip(i, j)])
    BY <1>1, <1>4, <2>1 DEF SavedAsPaid, Settles
  <2>3. Booked(calls[Skip(i, j)])
    BY <2>2 DEF DonationsInv, PaidIsBooked
  <2> QED BY <1>1, <2>1, <2>3 DEF Booked
<1>5. StatusesAreChosen'
  BY <1>3 DEF StatusesAreChosen, SendsForm
<1>6. PaidIsBooked'
  BY <1>4 DEF PaidIsBooked, SavedAsPaid, Settles, Booked
<1> QED BY <1>5, <1>6 DEF DonationsInv

LEMMA DonationFormOpens ==
  ASSUME WellTyped, DonationsUser
  PROVE  ui'.form \in {ui.form, NoForm} \/ ui'.form.tag \in FormStatuses
<1>1. ui \in UiSet
  BY DEF WellTyped
<1>2. ASSUME NEW f, ui' = WithoutReceipt([ui EXCEPT !.form = f]), f.tag \in FormStatuses
      PROVE  ui'.form.tag \in FormStatuses
  BY <1>1, <1>2 DEF WithoutReceipt, UiSet
<1>3. CASE DonationsOpenCreate
  <2>1. PICK s \in FormStatuses :
           ui' = WithoutReceipt([ui EXCEPT !.form = Form(0, opened + 1, "pending", s)])
    BY <1>3 DEF DonationsOpenCreate
  <2>2. Form(0, opened + 1, "pending", s).tag \in FormStatuses
    BY DEF Form
  <2> QED BY <1>2, <2>1, <2>2
<1>4. CASE DonationsOpenEdit
  <2>1. PICK r \in Rows, s \in FormStatuses :
           ui' = WithoutReceipt([ui EXCEPT !.form = Form(r, ui.list.rows[r].origin,
                                                         ui.list.rows[r].tag, s)])
    BY <1>4 DEF DonationsOpenEdit
  <2>2. Form(r, ui.list.rows[r].origin, ui.list.rows[r].tag, s).tag \in FormStatuses
    BY DEF Form
  <2> QED BY <1>2, <2>1, <2>2
<1>5. CASE DonationsLook \/ DonationsClose \/ DonationsSubmit \/ DonationsRemove \/ OpenReceipt
           \/ CloseReceipt
  BY <1>1, <1>5
     DEF DonationsLook, View, Refresh, Look, DonationsClose, Close, DonationsSubmit, Refuse,
         UtrMissing, SaveForm, Submit, DonationsRemove, Act, OpenReceipt, CloseReceipt,
         WithoutReceipt, UiSet
<1> QED BY <1>3, <1>4, <1>5 DEF DonationsUser

LEMMA UserKeepsDonations ==
  ASSUME WellTyped, DonationsInv, UserMoves, page = "donations" => DonationsUser
  PROVE  DonationsInv'
<1>1. page' = page /\ db' = db
  BY DEF UserMoves
<1>2. page = "donations" /\ ui'.form # NoForm => ui'.form.tag \in FormStatuses
  BY DonationFormOpens DEF DonationsInv, StatusesAreChosen
<1>3. CASE Rests
  <2>1. Keeps(None, Len(calls)) /\ Nothing(Len(calls))
    BY <1>3, RestCalls
  <2> QED BY <1>1, <1>2, <2>1, DonationsStay
<1>4. ASSUME NEW v \in Views, Asks(v)
      PROVE  DonationsInv'
  <2> DEFINE c == List(v, "view")
  <2>1. Keeps(None, Len(calls)) /\ Sends(Len(calls), c)
    BY <1>4, AskCalls
  <2>2. c.state = "sent" /\ ~SendsForm(c)
    BY DEF List, SendsForm
  <2> HIDE DEF c
  <2> QED BY <1>1, <1>2, <2>1, <2>2, DonationsStay
<1>5. ASSUME NEW c \in CallSet, Writes(c)
      PROVE  DonationsInv'
  <2>1. Keeps(None, Len(calls)) /\ Sends(Len(calls), c)
    BY <1>5, WriteCalls
  <2>2. c.state = "sent" /\ (SendsForm(c) => ui.form # NoForm /\ c.body = ui.form)
    BY <1>5 DEF Writes, SendsForm
  <2>3. page = "donations" /\ SendsForm(c) => c.body.tag \in FormStatuses
    BY <2>2 DEF DonationsInv, StatusesAreChosen
  <2> QED BY <1>1, <1>2, <2>1, <2>2, <2>3, DonationsStay
<1> QED BY <1>3, <1>4, <1>5 DEF UserMoves

LEMMA AnswerKeepsDonations ==
  ASSUME WellTyped, DonationsInv, NEW i \in DOMAIN calls, AnswerMoves(i)
  PROVE  DonationsInv'
<1> DEFINE m == Len(calls) - 1
<1>1. page' = page /\ db' = db /\ (page = "donations" => page \in MayCreate)
  BY DEF AnswerMoves, Done, MayCreate
<1> HIDE DEF m
<1>2. page = "donations" /\ ui.form # NoForm => ui.form.tag \in FormStatuses
  BY DEF DonationsInv, StatusesAreChosen
<1>3. CASE Ends(i)
  <2>1. Keeps(i, m) /\ Nothing(m)
    BY <1>3, EndCalls DEF m
  <2>2. page = "donations" => ui'.form = ui.form
    BY <1>1, <1>3 DEF Ends
  <2> QED BY <1>1, <1>2, <2>1, <2>2, DonationsStay
<1>4. CASE Reloads(i)
  <2> DEFINE c == List(calls[i].view, calls[i].job)
  <2>1. Keeps(i, m) /\ Sends(m, c)
    BY <1>4, ReloadCalls DEF m, Reloads
  <2>2. c.state = "sent" /\ ~SendsForm(c)
    BY DEF List, SendsForm
  <2> HIDE DEF c
  <2>3. ui'.form \in {ui.form, NoForm}
    BY <1>4 DEF Reloads
  <2> QED BY <1>1, <1>2, <2>1, <2>2, <2>3, DonationsStay
<1>5. CASE Pays(i)
  <2> DEFINE c == [calls[i] EXCEPT !.op = "pay", !.state = "sent"]
  <2>1. ThenMarkPaid(i) /\ page = "donations" /\ ui' = ui /\ calls[i].op = "update"
    BY <1>5 DEF Pays, ThenMarkPaid
  <2>2. /\ Keeps(i, m) /\ Sends(m, c)
        /\ c.body = calls[i].body /\ c.state = "sent"
    BY <2>1, PayCalls DEF m
  <2>3. calls[i].body.tag \in FormStatuses
    BY <2>1 DEF DonationsInv, StatusesAreChosen, SendsForm
  <2> HIDE DEF c
  <2> QED BY <1>1, <1>2, <2>1, <2>2, <2>3, DonationsStay
<1>6. CASE Shows(i)
  <2>1. Keeps(i, m) /\ Nothing(m)
    BY <1>6, ShowCalls DEF m
  <2>2. page = "donations" => ui'.form \in {ui.form, NoForm}
    BY <1>1, <1>6 DEF Shows, FormStays
  <2> QED BY <1>1, <1>2, <2>1, <2>2, DonationsStay
<1>7. CASE ShowsAndAsks(i)
  BY <1>1, <1>7 DEF ShowsAndAsks, DonationsInv, StatusesAreChosen, PaidIsBooked
<1> QED BY <1>3, <1>4, <1>5, <1>6, <1>7 DEF AnswerMoves

\* What a call to the donations endpoints does when it is executed.
Executed(i) ==
    \/ /\ calls[i].op = "create"
       /\ \E n \in Absent(db) :
             db' = [db EXCEPT ![n] = Row("live", calls[i].body.origin, calls[i].body.tag)]
    \/ calls[i].op = "update" /\ db' = Tagged(calls[i].row, WrittenStatus(calls[i].body))
    \/ calls[i].op = "pay" /\ IsPaid(db[calls[i].row].tag) /\ db' = db
    \/ calls[i].op = "pay" /\ db' = Tagged(calls[i].row, "paid")
    \/ calls[i].op = "receipt" /\ db' = Tagged(calls[i].row, "issued")
    \/ calls[i].op = "delete" /\ db' = [db EXCEPT ![calls[i].row].is = "gone"]

LEMMA DonationExecuted ==
  ASSUME WellTyped, CallsAreConsistent, page = "donations", NEW i \in DOMAIN calls, Serve(i)
  PROVE  \/ Executed(i)
         \/ db' = db /\ (calls'[i].state = "ok" => calls[i].op = "list")
<1>1. ASSUME NEW effect, ServeWrite(i, effect)
      PROVE  db' = effect
  BY <1>1 DEF ServeWrite, Settle
<1>2. ASSUME NEW got, Settle(i, "failed", got, db, FALSE)
      PROVE  db' = db /\ calls'[i].state = "failed"
  BY <1>2, SettledCall DEF Settle
<1>3. CASE ServeList(i)
  BY <1>3 DEF ServeList, Settle
<1>4. CASE Refused(i)
  BY <1>2, <1>4 DEF Refused
<1>5. CASE calls[i].op = "create" /\ Absent(db) # {}
           /\ ServeWrite(i, [db EXCEPT ![NextId] =
                                Row("live", calls[i].body.origin, calls[i].body.tag)])
  <2>1. NextId \in Absent(db)
    BY <1>5, NextIdIsAbsent
  <2>2. db' = [db EXCEPT ![NextId] = Row("live", calls[i].body.origin, calls[i].body.tag)]
    BY <1>1, <1>5
  <2> QED BY <1>5, <2>1, <2>2 DEF Executed
<1>6. CASE /\ calls[i].op \in {"update", "pay", "receipt", "delete"}
           /\ CASE calls[i].op = "update" /\ ~Frozen(i) ->
                    ServeWrite(i, Tagged(calls[i].row, WrittenStatus(calls[i].body)))
               [] Frozen(i) ->
                    Settle(i, "failed", <<"frozen">>, db, FALSE)
               [] calls[i].op = "pay" ->
                    ServeWrite(i, IF IsPaid(db[calls[i].row].tag) THEN db
                                  ELSE Tagged(calls[i].row, "paid"))
               [] calls[i].op = "receipt" ->
                    /\ IsPaid(db[calls[i].row].tag)
                    /\ ServeWrite(i, Tagged(calls[i].row, "issued"))
               [] calls[i].op = "delete" ->
                    ServeWrite(i, [db EXCEPT ![calls[i].row].is = "gone"])
  <2>1. CASE calls[i].op = "update" /\ ~Frozen(i)
    <3>1. ServeWrite(i, Tagged(calls[i].row, WrittenStatus(calls[i].body)))
      BY <1>6, <2>1
    <3> QED BY <1>1, <2>1, <3>1 DEF Executed
  <2>2. CASE Frozen(i)
    <3>1. calls[i].op = "update"
      BY <2>2 DEF Frozen
    <3>2. Settle(i, "failed", <<"frozen">>, db, FALSE)
      BY <1>6, <2>2, <3>1
    <3> QED BY <1>2, <3>2
  <2>3. CASE calls[i].op = "pay"
    <3>1. ~Frozen(i)
      BY <2>3 DEF Frozen
    <3>2. ServeWrite(i, IF IsPaid(db[calls[i].row].tag) THEN db ELSE Tagged(calls[i].row, "paid"))
      BY <1>6, <2>3, <3>1
    <3>3. db' = IF IsPaid(db[calls[i].row].tag) THEN db ELSE Tagged(calls[i].row, "paid")
      BY <1>1, <3>2
    <3> QED BY <2>3, <3>3 DEF Executed
  <2>4. CASE calls[i].op = "receipt"
    <3>1. ~Frozen(i)
      BY <2>4 DEF Frozen
    <3>2. ServeWrite(i, Tagged(calls[i].row, "issued"))
      BY <1>6, <2>4, <3>1
    <3> QED BY <1>1, <2>4, <3>2 DEF Executed
  <2>5. CASE calls[i].op = "delete"
    <3>1. ~Frozen(i)
      BY <2>5 DEF Frozen
    <3>2. ServeWrite(i, [db EXCEPT ![calls[i].row].is = "gone"])
      BY <1>6, <2>5, <3>1
    <3> QED BY <1>1, <2>5, <3>2 DEF Executed
  <2> QED BY <1>6, <2>1, <2>2, <2>3, <2>4, <2>5
<1> QED BY <1>3, <1>4, <1>5, <1>6 DEF Serve, ServeDonation, CrudPageNames

LEMMA DonationTable ==
  ASSUME WellTyped, CallsAreConsistent, page = "donations", NEW i \in DOMAIN calls, Executed(i)
  PROVE  /\ ~SendsForm(calls[i]) =>
               \A r \in Rows : /\ db'[r].origin = db[r].origin
                               /\ db[r].is = "gone" => db'[r].is = "gone"
                               /\ IsPaid(db[r].tag) => IsPaid(db'[r].tag)
         /\ Settles(calls[i]) /\ calls[i].body.tag = "paid" =>
               \E r \in Rows :
                   /\ IF calls[i].row = 0 THEN db'[r].origin = calls[i].body.origin
                      ELSE r = calls[i].row
                   /\ IsPaid(db'[r].tag)
         /\ \A r \in Rows : Live(db, r) /\ IsPaid(db[r].tag) /\ ~IsPaid(db'[r].tag) =>
               /\ calls[i].op = "update" /\ calls[i].row = r
               /\ ~IsPaid(WrittenStatus(calls[i].body))
<1>1. /\ calls[i].op # "create" => SendsForm(calls[i]) \/ ~Settles(calls[i])
      /\ db \in [Rows -> RowSet] /\ "paid" \in Tags /\ "issued" \in Tags
      /\ Consistent(calls[i]) /\ 0 \notin Rows
      /\ IsPaid("paid") /\ IsPaid("issued")
  BY TagsOf, AnsweredCall, RowsAreNumbers DEF WellTyped, TableSet, SendsForm, Settles, IsPaid
<1>2. CASE /\ calls[i].op = "create"
           /\ \E n \in Absent(db) :
                 db' = [db EXCEPT ![n] = Row("live", calls[i].body.origin, calls[i].body.tag)]
  <2>1. PICK n \in Absent(db) :
           db' = [db EXCEPT ![n] = Row("live", calls[i].body.origin, calls[i].body.tag)]
    BY <1>2
  <2>2. n \in Rows /\ ~Live(db, n)
    BY DEF Absent, Live
  <2>3. /\ \A r \in Rows : r # n => db'[r] = db[r]
        /\ db'[n].origin = calls[i].body.origin /\ db'[n].tag = calls[i].body.tag
    BY <1>1, <2>1, <2>2 DEF Row
  <2>4. calls[i].row = 0
    BY <1>1, <1>2 DEF Consistent
  <2>5. SendsForm(calls[i])
    BY <1>2 DEF SendsForm
  <2> QED BY <1>1, <2>2, <2>3, <2>4, <2>5
<1>3. CASE calls[i].op = "update" /\ db' = Tagged(calls[i].row, WrittenStatus(calls[i].body))
  <2>1. calls[i].row \in Rows /\ calls[i].row # 0 /\ WrittenStatus(calls[i].body) \in Tags
    BY <1>1, <1>3 DEF Consistent, FormSet, WrittenStatus
  <2>2. \A r \in Rows : db'[r].tag =
           IF r = calls[i].row THEN WrittenStatus(calls[i].body) ELSE db[r].tag
    BY <1>3, <2>1, TaggedTable
  <2>3. SendsForm(calls[i])
    BY <1>3 DEF SendsForm
  <2>4. Settles(calls[i]) => WrittenStatus(calls[i].body) = calls[i].body.tag
    BY <1>3 DEF Settles, WrittenStatus
  <2> QED BY <1>1, <1>3, <2>1, <2>2, <2>3, <2>4
<1>4. CASE calls[i].op = "pay" /\ IsPaid(db[calls[i].row].tag) /\ db' = db
  <2>1. calls[i].row \in Rows /\ calls[i].row # 0
    BY <1>1, <1>4 DEF Consistent
  <2>2. SendsForm(calls[i])
    BY <1>4 DEF SendsForm
  <2> QED BY <1>4, <2>1, <2>2
<1>5. CASE calls[i].op = "pay" /\ db' = Tagged(calls[i].row, "paid")
  <2>1. calls[i].row \in Rows /\ calls[i].row # 0
    BY <1>1, <1>5 DEF Consistent
  <2>2. \A r \in Rows : db'[r].tag = IF r = calls[i].row THEN "paid" ELSE db[r].tag
    BY <1>1, <1>5, <2>1, TaggedTable
  <2>3. SendsForm(calls[i])
    BY <1>5 DEF SendsForm
  <2> QED BY <1>1, <2>1, <2>2, <2>3
<1>6. CASE calls[i].op = "receipt" /\ db' = Tagged(calls[i].row, "issued")
  <2>1. calls[i].row \in Rows /\ ~Settles(calls[i])
    BY <1>1, <1>6 DEF Consistent, Settles
  <2>2. \A r \in Rows : /\ db'[r].tag = IF r = calls[i].row THEN "issued" ELSE db[r].tag
                        /\ db'[r].origin = db[r].origin /\ db'[r].is = db[r].is
    BY <1>1, <1>6, <2>1, TaggedTable
  <2> QED BY <1>1, <2>1, <2>2
<1>7. CASE calls[i].op = "delete" /\ db' = [db EXCEPT ![calls[i].row].is = "gone"]
  <2>1. calls[i].row \in Rows /\ ~Settles(calls[i])
    BY <1>1, <1>7 DEF Consistent, Settles
  <2>2. \A r \in Rows : /\ db'[r].tag = db[r].tag /\ db'[r].origin = db[r].origin
                        /\ db'[r].is = IF r = calls[i].row THEN "gone" ELSE db[r].is
    BY <1>7, <2>1, GoneTable
  <2> QED BY <2>1, <2>2
<1> QED BY <1>2, <1>3, <1>4, <1>5, <1>6, <1>7 DEF Executed

LEMMA ServeKeepsDonations ==
  ASSUME WellTyped, CallsAreConsistent, OneSave, DonationsInv, NEW i \in DOMAIN calls, Serve(i),
         ServeMoves(i)
  PROVE  DonationsInv'
<1> SUFFICES ASSUME page = "donations"
             PROVE  DonationsInv'
  BY DEF DonationsInv, StatusesAreChosen, PaidIsBooked, ServeMoves
<1>1. /\ page' = page /\ ui' = ui /\ DOMAIN calls' = DOMAIN calls
      /\ \A j \in DOMAIN calls : /\ calls'[j].op = calls[j].op /\ calls'[j].row = calls[j].row
                                 /\ calls'[j].body = calls[j].body
                                 /\ calls'[j].job = calls[j].job
      /\ \A j \in DOMAIN calls : j # i => calls'[j] = calls[j]
      /\ calls[i].state = "sent"
  BY ServedCalls DEF ServeMoves
<1>2. Executed(i) \/ (db' = db /\ (calls'[i].state = "ok" => calls[i].op = "list"))
  BY DonationExecuted
<1>3. ASSUME NEW j \in DOMAIN calls, j # i, SavedAsPaid(calls[j])
      PROVE  \E r \in Rows :
                 /\ IF calls[j].row = 0 THEN db'[r].origin = calls[j].body.origin
                    ELSE r = calls[j].row
                 /\ db'[r].is = "gone" \/ IsPaid(db'[r].tag)
  <2>1. PICK r \in Rows : /\ IF calls[j].row = 0 THEN db[r].origin = calls[j].body.origin
                             ELSE r = calls[j].row
                          /\ db[r].is = "gone" \/ IsPaid(db[r].tag)
    BY <1>3 DEF DonationsInv, PaidIsBooked, Booked
  <2>2. ~SendsForm(calls[i])
    <3>1. SUFFICES ASSUME SendsForm(calls[i])
                   PROVE  FALSE
      OBVIOUS
    <3>2. SendsForm(calls[j])
      BY <1>3 DEF SavedAsPaid, Settles, SendsForm
    <3>3. i \in Saves /\ j \in Saves
      BY <3>1, <3>2, AnsweredCall DEF SendsForm, JobOf, Saves
    <3> QED BY <1>3, <3>3 DEF OneSave
  <2>3. CASE Executed(i)
    BY <2>1, <2>2, <2>3, DonationTable
  <2> QED BY <1>2, <2>1, <2>3
<1>4. ASSUME calls'[i].state = "ok", Settles(calls[i]), calls[i].body.tag = "paid"
      PROVE  \E r \in Rows :
                 /\ IF calls[i].row = 0 THEN db'[r].origin = calls[i].body.origin
                    ELSE r = calls[i].row
                 /\ IsPaid(db'[r].tag)
  <2>1. Executed(i)
    BY <1>2, <1>4 DEF Settles
  <2> QED BY <1>4, <2>1, DonationTable
<1>5. ASSUME NEW j \in DOMAIN calls', SavedAsPaid(calls'[j])
      PROVE  \E r \in Rows :
                 /\ IF calls'[j].row = 0 THEN db'[r].origin = calls'[j].body.origin
                    ELSE r = calls'[j].row
                 /\ db'[r].is = "gone" \/ IsPaid(db'[r].tag)
  <2>1. CASE j = i
    <3>1. calls'[i].state = "ok" /\ Settles(calls[i]) /\ calls[i].body.tag = "paid"
      BY <1>1, <1>5, <2>1 DEF SavedAsPaid, Settles
    <3>2. \E r \in Rows :
             /\ IF calls[i].row = 0 THEN db'[r].origin = calls[i].body.origin
                ELSE r = calls[i].row
             /\ IsPaid(db'[r].tag)
      BY <1>4, <3>1
    <3> QED BY <1>1, <2>1, <3>2
  <2>2. CASE j # i
    <3>1. j \in DOMAIN calls /\ SavedAsPaid(calls[j]) /\ calls'[j] = calls[j]
      BY <1>1, <1>5, <2>2
    <3> QED BY <1>3, <2>2, <3>1
  <2> QED BY <2>1, <2>2
<1>6. PaidIsBooked'
  BY <1>5 DEF PaidIsBooked, SavedAsPaid, Settles, Booked
<1>7. StatusesAreChosen'
  BY <1>1 DEF DonationsInv, StatusesAreChosen, SendsForm
<1> QED BY <1>6, <1>7 DEF DonationsInv

LEMMA OthersKeepDonations ==
  ASSUME WellTyped, DonationsInv, Others, OthersMove
  PROVE  DonationsInv'
<1> SUFFICES ASSUME page = "donations"
             PROVE  DonationsInv'
  BY DEF DonationsInv, StatusesAreChosen, PaidIsBooked, OthersMove
<1>1. page' = page /\ ui' = ui /\ calls' = calls
  BY DEF OthersMove
<1>2. PICK s \in Rows : ~IsPaid(db[s].tag) /\ OtherWrite(s, "paid")
  BY DEF Others, WebhookPays, CrudPageNames
<1>3. \A r \in Rows : /\ db'[r].tag = IF r = s THEN "paid" ELSE db[r].tag
                      /\ db'[r].origin = db[r].origin /\ db'[r].is = db[r].is
  BY <1>2, TagsOf, TaggedTable DEF OtherWrite
<1>4. IsPaid("paid")
  BY DEF IsPaid
<1>5. ASSUME NEW j \in DOMAIN calls, SavedAsPaid(calls[j])
      PROVE  \E r \in Rows :
                 /\ IF calls[j].row = 0 THEN db'[r].origin = calls[j].body.origin
                    ELSE r = calls[j].row
                 /\ db'[r].is = "gone" \/ IsPaid(db'[r].tag)
  <2>1. PICK r \in Rows : /\ IF calls[j].row = 0 THEN db[r].origin = calls[j].body.origin
                             ELSE r = calls[j].row
                          /\ db[r].is = "gone" \/ IsPaid(db[r].tag)
    BY <1>5 DEF DonationsInv, PaidIsBooked, Booked
  <2> QED BY <1>3, <1>4, <2>1
<1>6. PaidIsBooked'
  BY <1>1, <1>5 DEF PaidIsBooked, SavedAsPaid, Settles, Booked
<1>7. StatusesAreChosen'
  BY <1>1 DEF DonationsInv, StatusesAreChosen, SendsForm
<1> QED BY <1>6, <1>7 DEF DonationsInv

LEMMA InitKeepsDonations == Init => DonationsInv
<1> SUFFICES ASSUME Init, page = "donations"
             PROVE  DonationsInv
  BY DEF DonationsInv, StatusesAreChosen, PaidIsBooked
<1>1. Mounted("donations", OneRow("pending"), NoFilter)
  BY DEF Init, DonationsMount, CrudMount, ReceiptsMount, CardsMount, CampaignsMount, InternsMount,
         SettingsMount, MembersMount, RecordsMount, ProjectsMount, DesignationsMount, Mounted,
         CrudPageNames
<1>2. calls = <<List(NoFilter, "view")>> /\ ui.form = NoForm
  BY <1>1 DEF Mounted
<1>3. \A j \in DOMAIN calls : calls[j].state = "sent" /\ calls[j].op = "list"
  BY <1>2 DEF List
<1> QED BY <1>2, <1>3 DEF DonationsInv, StatusesAreChosen, PaidIsBooked, SavedAsPaid, SendsForm

LEMMA NextKeepsDonations ==
  ASSUME Sound, DonationsInv, [Next]_screenVars
  PROVE  DonationsInv'
<1>1. WellTyped /\ CallsAreConsistent /\ OneSave
  BY DEF Sound
<1>2. CASE User
  <2>1. page = "donations" => DonationsUser
    BY <1>2 DEF User, CrudPageNames
  <2> QED BY <1>1, <1>2, <2>1, UserIsSound, UserKeepsDonations
<1>3. ASSUME NEW i \in DOMAIN calls, ShowAnswer(i)
      PROVE  DonationsInv'
  BY <1>1, <1>3, AnswerIsSound, AnswerKeepsDonations
<1>4. ASSUME NEW i \in DOMAIN calls, Serve(i)
      PROVE  DonationsInv'
  BY <1>1, <1>4, ServeIsSound, ServeKeepsDonations
<1>5. CASE Others
  BY <1>1, <1>5, OthersAreSound, OthersKeepDonations
<1>6. CASE UNCHANGED screenVars
  BY <1>6 DEF screenVars, DonationsInv, StatusesAreChosen, PaidIsBooked, SavedAsPaid, Settles,
              SendsForm, Booked
<1> QED BY <1>2, <1>3, <1>4, <1>5, <1>6 DEF Next

\* A save that chose "paid" and was executed to its last call is booked.
THEOREM PaidSavesAreBooked == Spec => []DonationsInv
<1>1. Sound /\ DonationsInv /\ [Next]_screenVars => DonationsInv'
  BY NextKeepsDonations
<1> QED BY DashboardIsSound, InitKeepsDonations, <1>1, PTL DEF Spec

\* Only the answer to the last call of a save makes the page read the list
\* again on behalf of the save.
LEMMA ReloadEndsSave ==
  ASSUME Sound, Next, page = "donations", NEW i \in DOMAIN calls, SendsForm(calls[i]), Reload(i)
  PROVE  calls[i].state = "ok" /\ Settles(calls[i])
<1> DEFINE n == Len(calls)
<1>1. /\ WellTyped /\ OneSave /\ n \in Nat /\ DOMAIN calls = 1..n /\ n \in DOMAIN calls
      /\ calls[i].op # "list" /\ calls[i].job = "save" /\ i \in Saves
  <2>1. WellTyped /\ CallsAreConsistent /\ OneSave
    BY DEF Sound
  <2>2. calls[i].op # "list" /\ calls[i].job = "save"
    BY <2>1, AnsweredCall DEF SendsForm, JobOf
  <2>3. Len(calls) \in Nat /\ DOMAIN calls = 1..Len(calls)
    BY <2>1, CallsTyped
  <2> QED BY <2>1, <2>2, <2>3 DEF Saves
<1>2. \A k \in DOMAIN calls : ~(calls[k].op = "list" /\ calls[k].job = "save")
  BY <1>1 DEF OneSave, Saves
<1>3. DOMAIN calls' = 1..n /\ calls'[n].op = "list" /\ calls'[n].job = "save"
  <2>1. Sends(n - 1, List(calls[i].view, calls[i].job))
    BY <1>1, ReloadCalls
  <2> QED BY <1>1, <2>1 DEF Sends, List
<1> HIDE DEF n
<1>4. ~User
  <2> SUFFICES ASSUME User
               PROVE  FALSE
    OBVIOUS
  <2>1. UserMoves
    BY UserIsSound
  <2>2. CASE Rests
    BY <1>1, <1>2, <1>3, <2>2 DEF Rests
  <2>3. ASSUME NEW c, Sends(n, c)
        PROVE  FALSE
    BY <1>1, <1>3, <2>3 DEF Sends
  <2>4. ASSUME NEW v \in Views, Asks(v)
        PROVE  FALSE
    BY <1>1, <2>3, <2>4, AskCalls DEF n
  <2>5. ASSUME NEW c \in CallSet, Writes(c)
        PROVE  FALSE
    BY <1>1, <2>3, <2>5, WriteCalls DEF n
  <2> QED BY <2>1, <2>2, <2>4, <2>5 DEF UserMoves
<1>5. ~Others
  <2>1. Others => calls' = calls
    BY OthersAreSound DEF OthersMove
  <2> QED BY <1>1, <1>2, <1>3, <2>1
<1>6. ASSUME NEW k \in DOMAIN calls, Serve(k)
      PROVE  FALSE
  <2>1. /\ DOMAIN calls' = DOMAIN calls
        /\ calls'[n].op = calls[n].op /\ calls'[n].job = calls[n].job
    BY <1>1, <1>6, ServeIsSound, ServedCalls
  <2> QED BY <1>1, <1>2, <1>3, <2>1
<1>7. ASSUME NEW k \in DOMAIN calls, ThenMarkPaid(k)
      PROVE  FALSE
  <2> DEFINE c == [calls[k] EXCEPT !.op = "pay", !.state = "sent"]
  <2>1. Sends(n - 1, c) /\ c.op = "pay"
    BY <1>1, <1>7, PayCalls DEF n
  <2> HIDE DEF c
  <2>2. calls'[n].op = "pay"
    BY <1>1, <2>1 DEF Sends
  <2> QED BY <1>3, <2>2
<1>8. ASSUME NEW k \in DOMAIN calls, ShowAnswer(k)
      PROVE  k = i /\ calls[i].state = "ok"
  <2>1. AnswerMoves(k)
    BY <1>8, AnswerIsSound
  <2>0. ~Nothing(n - 1)
    BY <1>1, <1>3 DEF Nothing
  <2>2. CASE Ends(k)
    BY <1>1, <2>0, <2>2, EndCalls DEF n
  <2>3. CASE Shows(k)
    BY <1>1, <2>0, <2>3, ShowCalls DEF n
  <2>4. CASE Pays(k)
    BY <1>7, <2>4 DEF Pays
  <2>5. CASE ShowsAndAsks(k)
    BY <2>5 DEF ShowsAndAsks
  <2>6. CASE Reloads(k)
    <3>1. Sends(n - 1, List(calls[k].view, calls[k].job)) /\ calls[k].state = "ok"
      BY <1>1, <2>6, ReloadCalls DEF Reloads, n
    <3>2. calls'[n].job = calls[k].job
      BY <1>1, <3>1 DEF Sends, List
    <3>3. k \in Saves
      BY <1>3, <3>2 DEF Saves
    <3> QED BY <1>1, <3>1, <3>3 DEF OneSave
  <2> QED BY <2>1, <2>2, <2>3, <2>4, <2>5, <2>6 DEF AnswerMoves
<1>9. ShowAnswer(i) /\ calls[i].state = "ok"
  BY <1>4, <1>5, <1>6, <1>8 DEF Next
<1>10. ~(calls[i].op = "update" /\ MarksPaid(calls[i].body))
  BY <1>1, <1>7, <1>9
     DEF ShowAnswer, ListArrives, DonationsAnswer, DonationsSaveEnds, SaveFails, ReceiptArrives,
         ActFails, SendsForm, CrudPageNames
<1> QED BY <1>9, <1>10 DEF Settles, SendsForm

\* When the page takes a save that chose "paid" for done, the donation is paid.
THEOREM FormsCloseOnBookedMoney == Spec => SavedAsPaidIsPaid
<1>1. Sound /\ DonationsInv /\ [Next]_screenVars =>
         [page = "donations" =>
             \A i \in DOMAIN calls :
                 /\ calls[i].op \in {"create", "update", "pay"}
                 /\ calls[i].body.tag = "paid"
                 /\ Reload(i)
                 => Booked(calls[i])]_screenVars
  <2> SUFFICES ASSUME Sound, DonationsInv, Next, page = "donations", NEW i \in DOMAIN calls,
                      SendsForm(calls[i]), calls[i].body.tag = "paid", Reload(i)
               PROVE  Booked(calls[i])
    BY DEF SendsForm
  <2> QED BY ReloadEndsSave DEF DonationsInv, PaidIsBooked, SavedAsPaid
<1> QED BY DashboardIsSound, PaidSavesAreBooked, <1>1, PTL DEF Spec, SavedAsPaidIsPaid

\* A paid donation becomes unpaid only by a form in which staff chose so, or
\* that was opened while the list showed it unpaid.
THEOREM PaymentsSurvive == Spec => PaymentSurvivesInformedForms
<1>1. Sound /\ DonationsInv /\ [Next]_screenVars => [page = "donations" => UnpaidByForm]_screenVars
  <2> SUFFICES ASSUME Sound, DonationsInv, Next, page = "donations",
                      NEW r \in Rows, Live(db, r), IsPaid(db[r].tag), ~IsPaid(db'[r].tag)
               PROVE  \E c \in InFlight :
                          /\ c.op = "update" /\ c.row = r
                          /\ c.body.tag = "pending" \/ ~IsPaid(c.body.base)
    BY DEF UnpaidByForm
  <2>1. WellTyped /\ CallsAreConsistent /\ db' # db
    BY DEF Sound
  <2>2. ~User
    BY <2>1, UserIsSound DEF UserMoves
  <2>3. ASSUME NEW i \in DOMAIN calls
        PROVE  ~ShowAnswer(i)
    BY <2>1, AnswerIsSound DEF AnswerMoves, Done
  <2>4. ~Others
    <3> SUFFICES ASSUME Others
                 PROVE  FALSE
      OBVIOUS
    <3>1. PICK s \in Rows : OtherWrite(s, "paid")
      BY DEF Others, WebhookPays, CrudPageNames
    <3>2. db'[r].tag = IF r = s THEN "paid" ELSE db[r].tag
      BY <2>1, <3>1, TagsOf, TaggedTable DEF OtherWrite
    <3> QED BY <3>2 DEF IsPaid
  <2>5. PICK i \in DOMAIN calls : Serve(i)
    BY <2>2, <2>3, <2>4 DEF Next
  <2>6. Executed(i)
    BY <2>1, <2>5, DonationExecuted
  <2>7. calls[i].op = "update" /\ calls[i].row = r /\ ~IsPaid(WrittenStatus(calls[i].body))
    BY <2>1, <2>6, DonationTable
  <2>8. calls[i].body.tag \in FormStatuses
    BY <2>7 DEF DonationsInv, StatusesAreChosen, SendsForm
  <2>9. calls[i].body.tag = "pending" \/ ~IsPaid(calls[i].body.base)
    BY <2>7, <2>8 DEF WrittenStatus, FormStatuses, IsPaid
  <2> QED BY <2>7, <2>9 DEF InFlight
<1> QED BY DashboardIsSound, PaidSavesAreBooked, <1>1, PTL DEF Spec, PaymentSurvivesInformedForms

-----------------------------------------------------------------------------
(***************************************************************************)
(* The id card generator: the list shows no card that was typed by hand,   *)
(* so a card whose member is on the menu is that member's.                 *)
(***************************************************************************)
Printed(rows) == \A r \in Rows : rows[r].tag # HandWritten

CardsInv ==
    page = "cards" =>
        /\ Printed(db) /\ Printed(ui.list.rows)
        /\ \A i \in DOMAIN calls :
              calls[i].op = "list" /\ calls[i].state = "ok" => Printed(calls[i].got)
        /\ ui.side # NoForm =>
              ui.form # NoForm /\ ui.form.row = ui.side /\ ui.form.tag # HandWritten

\* A form of the generators and of the settings page is not the empty one.
LEMMA TextForms ==
  ASSUME page \in {"receipts", "cards", "settings"}
  PROVE  NoForm \notin FormSet
<1>1. Tags \subseteq TextTags
  BY TagsOf DEF TextTags, HandWritten
<1> QED BY <1>1, DashboardAssumption DEF FormSet

LEMMA UserKeepsCards ==
  ASSUME WellTyped, CardsInv, page = "cards", CardsUser
  PROVE  CardsInv'
<1>1. /\ ui \in UiSet /\ NoForm \notin FormSet /\ Printed(db) /\ Printed(ui.list.rows)
      /\ \A i \in DOMAIN calls :
            calls[i].op = "list" /\ calls[i].state = "ok" => Printed(calls[i].got)
  BY TextForms DEF WellTyped, CardsInv
<1>2. UNCHANGED <<page, calls, db>>
  BY DEF CardsUser, SelectMember, SelectManual, UpdateCard, RefreshId, Still
<1>3. ui'.list = ui.list
  BY <1>1 DEF CardsUser, SelectMember, SelectManual, UpdateCard, RefreshId, UiSet
<1>4. ui'.side # NoForm =>
          ui'.form # NoForm /\ ui'.form.row = ui'.side /\ ui'.form.tag # HandWritten
  <2>1. CASE SelectMember
    <3>1. PICK r \in Rows :
             ui' = [ui EXCEPT !.side = r,
                              !.form = Form(r, 0, ui.list.rows[r].tag, ui.list.rows[r].tag)]
      BY <2>1 DEF SelectMember
    <3> DEFINE f == Form(r, 0, ui.list.rows[r].tag, ui.list.rows[r].tag)
    <3>2. f \in FormSet
      BY ListedRow, RowsAreNumbers, ScreenAssumption DEF Form, FormSet
    <3>3. f.row = r /\ f.tag # HandWritten
      BY <1>1 DEF Form, Printed
    <3> HIDE DEF f
    <3>4. ui'.side = r /\ ui'.form = f
      BY <1>1, <3>1 DEF UiSet, f
    <3> QED BY <1>1, <3>2, <3>3, <3>4
  <2>2. CASE SelectManual \/ UpdateCard
    BY <1>1, <2>2 DEF SelectManual, UpdateCard, UiSet
  <2>3. CASE RefreshId
    <3>1. CASE ui.side = NoForm
      BY <1>1, <2>3, <3>1 DEF RefreshId, UiSet
    <3>2. CASE ui.side # NoForm
      BY <2>3, <3>2 DEF RefreshId, CardsInv
    <3> QED BY <3>1, <3>2
  <2> QED BY <2>1, <2>2, <2>3 DEF CardsUser
<1> QED BY <1>1, <1>2, <1>3, <1>4 DEF CardsInv, Printed

LEMMA AnswerKeepsCards ==
  ASSUME WellTyped, CallsAreConsistent, CardsInv, page = "cards", NEW i \in DOMAIN calls,
         ShowAnswer(i), AnswerMoves(i)
  PROVE  CardsInv'
<1>1. /\ calls[i].op = "list" /\ ui' = ListShown(i) /\ Done
      /\ calls' = RemoveAt(Overtaken(i), i)
  BY DEF ShowAnswer, ListArrives, CrudPageNames
<1>2. /\ ui \in UiSet /\ Printed(db) /\ Printed(ui.list.rows)
      /\ \A k \in DOMAIN calls :
            calls[k].op = "list" /\ calls[k].state = "ok" => Printed(calls[k].got)
  BY DEF WellTyped, CardsInv
<1>3. ui'.side = ui.side /\ ui'.form = ui.form
  BY <1>1, <1>2 DEF ListShown, UiSet
<1>4. Printed(ui'.list.rows)
  <2>1. ui'.list = IF calls[i].state = "ok" THEN Listed(i) ELSE ui.list
    BY <1>1, <1>2 DEF ListShown, UiSet
  <2> QED BY <1>1, <1>2, <2>1 DEF Listed
<1> DEFINE m == Len(calls) - 1
<1>5. Keeps(i, m) /\ Nothing(m)
  <2>1. i \in Int
    BY CallsTyped
  <2> QED BY <1>1, <2>1, OvertakenCalls, OneCallGone
<1> HIDE DEF m
<1>6. ASSUME NEW j \in DOMAIN calls', calls'[j].op = "list", calls'[j].state = "ok"
      PROVE  Printed(calls'[j].got)
  <2>1. /\ j \in 1..m /\ Skip(i, j) \in DOMAIN calls
        /\ calls'[j].op = calls[Skip(i, j)].op /\ calls'[j].state = calls[Skip(i, j)].state
        /\ calls'[j].got = calls[Skip(i, j)].got
    BY <1>5 DEF Keeps, Nothing
  <2> QED BY <1>2, <1>6, <2>1
<1>7. page' = page /\ db' = db
  BY <1>1 DEF Done
<1> QED BY <1>2, <1>3, <1>4, <1>6, <1>7 DEF CardsInv, Printed

LEMMA ServeKeepsCards ==
  ASSUME WellTyped, CallsAreConsistent, CardsInv, page = "cards", NEW i \in DOMAIN calls,
         Serve(i), ServeMoves(i)
  PROVE  CardsInv'
<1>1. page' = page /\ ui' = ui
  BY DEF ServeMoves
<1>2. /\ DOMAIN calls' = DOMAIN calls /\ calls'[i].op = calls[i].op
      /\ \A j \in DOMAIN calls : j # i => calls'[j] = calls[j]
  BY ServedCalls
<1>3. db' = db /\ (calls'[i].state = "ok" => calls'[i].got = db)
  <2>1. calls[i].op \in Ops /\ page \in Pages(calls[i].op)
    BY CallsTyped DEF CallsAreConsistent, CallSet
  <2>2. calls[i].op = "list"
    BY <2>1 DEF Ops, Pages, CrudPageNames
  <2> QED BY <2>2 DEF ServeMoves, Wrote, Read, Turned
<1>4. Printed(db)
  BY DEF CardsInv
<1>5. \A j \in DOMAIN calls' :
         calls'[j].op = "list" /\ calls'[j].state = "ok" => Printed(calls'[j].got)
  BY <1>2, <1>3, <1>4 DEF CardsInv
<1> QED BY <1>1, <1>3, <1>4, <1>5 DEF CardsInv, Printed

LEMMA OthersKeepCards ==
  ASSUME WellTyped, CardsInv, page = "cards", Others, OthersMove
  PROVE  CardsInv'
<1>1. page' = page /\ ui' = ui /\ calls' = calls
  BY DEF OthersMove
<1>2. PICK s \in Rows : OtherWrite(s, "coordinator")
  BY DEF Others, ColleaguePromotes, CrudPageNames
<1>3. \A r \in Rows : db'[r].tag = IF r = s THEN "coordinator" ELSE db[r].tag
  BY <1>2, TagsOf, TaggedTable DEF OtherWrite
<1>4. Printed(db')
  BY <1>3 DEF CardsInv, Printed, HandWritten
<1> QED BY <1>1, <1>4 DEF CardsInv, Printed

LEMMA InitKeepsCards == Init => CardsInv
<1> SUFFICES ASSUME Init, page = "cards"
             PROVE  CardsInv
  BY DEF CardsInv
<1>1. Mounted("cards", TwoRows("volunteer", "volunteer"), NoFilter)
  BY DEF Init, DonationsMount, CrudMount, ReceiptsMount, CardsMount, CampaignsMount, InternsMount,
         SettingsMount, MembersMount, RecordsMount, ProjectsMount, DesignationsMount, Mounted,
         CrudPageNames
<1>2. calls = <<List(NoFilter, "view")>> /\ ui.side = NoForm
      /\ db = TwoRows("volunteer", "volunteer")
      /\ ui.list.rows = [r \in Rows |-> Row("absent", 0, TwoRows("volunteer", "volunteer")[1].tag)]
  BY <1>1 DEF Mounted
<1>3. \A j \in DOMAIN calls : calls[j].state = "sent"
  BY <1>2 DEF List
<1>4. \A r \in Rows : db[r].tag = "volunteer"
  BY <1>2 DEF TwoRows, Row
<1>5. \A r \in Rows : ui.list.rows[r].tag = "volunteer"
  BY <1>2, <1>4, RowsAreNumbers DEF Row
<1> QED BY <1>2, <1>3, <1>4, <1>5 DEF CardsInv, Printed, HandWritten

-----------------------------------------------------------------------------
(***************************************************************************)
(* The receipt generator: the receipt of the donation on the menu is on    *)
(* screen or asked for, and of the receipts asked for since the last       *)
(* answer the one of that donation was asked for last.                     *)
(***************************************************************************)
Chosen(i) == calls[i].op = "receipt" /\ ~calls[i].passed
ChosenLast(i) == Chosen(i) /\ calls[i].body.row = ui.side

ChoicesAreInOrder ==
    \A i \in DOMAIN calls :
        Chosen(i) => ChosenLast(i) \/ \E j \in DOMAIN calls : i < j /\ ChosenLast(j)

ChoiceIsShown ==
    /\ ui.form # NoForm
    /\ ui.form.row = ui.side \/ ui.form.tag = HandWritten \/ ui.form.origin = 1

ReceiptsInv ==
    page = "receipts" /\ ui.side # NoForm =>
        /\ ChoicesAreInOrder
        /\ ChoiceIsShown \/ \E i \in DOMAIN calls : ChosenLast(i)

\* The calls stay as they are, but for their answers.
LEMMA SameReceipts ==
  ASSUME ReceiptsInv, page' = page, ui'.side = ui.side, DOMAIN calls' = DOMAIN calls,
         \A j \in DOMAIN calls : /\ calls'[j].op = calls[j].op /\ calls'[j].body = calls[j].body
                                 /\ calls'[j].passed = calls[j].passed,
         \/ ui'.form = ui.form
         \/ ui'.form # NoForm /\ ui'.form.tag = HandWritten
  PROVE  ReceiptsInv'
<1> SUFFICES ASSUME page = "receipts", ui.side # NoForm
             PROVE  ReceiptsInv'
  BY DEF ReceiptsInv
<1>1. ASSUME NEW j \in DOMAIN calls
      PROVE  Chosen(j)' = Chosen(j) /\ ChosenLast(j)' = ChosenLast(j)
  BY DEF Chosen, ChosenLast
<1>2. ChoicesAreInOrder'
  BY <1>1 DEF ReceiptsInv, ChoicesAreInOrder
<1>3. ChoiceIsShown => ChoiceIsShown'
  BY DEF ChoiceIsShown
<1>4. ChoiceIsShown' \/ \E i \in DOMAIN calls' : ChosenLast(i)'
  BY <1>1, <1>3 DEF ReceiptsInv, ChoiceIsShown
<1> QED BY <1>2, <1>4 DEF ReceiptsInv

LEMMA UserKeepsReceipts ==
  ASSUME WellTyped, ReceiptsInv, page = "receipts", ReceiptsUser
  PROVE  ReceiptsInv'
<1>1. /\ ui \in UiSet /\ NoForm \notin FormSet /\ calls \in Seq(CallSet)
      /\ Len(calls) \in Nat /\ DOMAIN calls = 1..Len(calls)
  BY TextForms, CallsTyped DEF WellTyped
<1>2. CASE SelectDonation
  <2>1. PICK r \in Rows :
          LET tag == ui.list.rows[r].tag
              fields == Form(r, 0, tag, tag)
          IN  IF IsPaid(tag)
              THEN /\ ui' = [ui EXCEPT !.side = r]
                   /\ Send(Call("receipt", r, fields, "act"))
              ELSE /\ ui' = [ui EXCEPT !.side = r, !.form = fields]
                   /\ calls' = Late(Len(calls) + 1)
                   /\ UNCHANGED <<page, db, staff, opened, sent, untold>>
    BY <1>2 DEF SelectDonation
  <2> DEFINE f == Form(r, 0, ui.list.rows[r].tag, ui.list.rows[r].tag)
  <2>2. f \in FormSet /\ f.row = r
    BY ListedRow, RowsAreNumbers, ScreenAssumption DEF Form, FormSet
  <2>3. \/ ui' = [ui EXCEPT !.side = r] /\ Send(Call("receipt", r, f, "act"))
        \/ /\ ui' = [ui EXCEPT !.side = r, !.form = f]
           /\ calls' = Late(Len(calls) + 1)
    BY <2>1
  <2> HIDE DEF f
  <2>4. CASE ui' = [ui EXCEPT !.side = r] /\ Send(Call("receipt", r, f, "act"))
    <3> DEFINE c == Call("receipt", r, f, "act")
    <3>0. PICK n \in Nat : n = Len(calls) + 1
      BY <1>1
    <3>1. c \in CallSet /\ c.op = "receipt" /\ c.body = f /\ ~c.passed
      <4>1. r \in 0..MaxRows /\ "receipt" \in Ops \ {"list", "pay"}
        BY RowsAreNumbers DEF Ops
      <4> QED BY <2>2, <4>1, NewCall
    <3>2. calls' = Append(calls, c)
      BY <2>4 DEF Send
    <3> HIDE DEF c
    <3>3. DOMAIN calls' = 1..n /\ calls'[n] = c /\ n \in DOMAIN calls'
      BY <1>1, <3>0, <3>1, <3>2, Appended
    <3>4. ui'.side = r
      BY <1>1, <2>4 DEF UiSet
    <3>5. ChosenLast(n)'
      BY <2>2, <3>1, <3>3, <3>4 DEF ChosenLast, Chosen
    <3>6. \A i \in DOMAIN calls' : i = n \/ i < n
      BY <3>3
    <3>7. ChoicesAreInOrder'
      BY <3>3, <3>5, <3>6 DEF ChoicesAreInOrder
    <3> QED BY <3>3, <3>5, <3>7 DEF ReceiptsInv
  <2>5. CASE /\ ui' = [ui EXCEPT !.side = r, !.form = f]
             /\ calls' = Late(Len(calls) + 1)
    <3>1. ui'.side = r /\ ui'.form = f
      BY <1>1, <2>5 DEF UiSet
    <3>2. DOMAIN calls' = DOMAIN calls
      BY <1>1, <2>5, LateCalls DEF Alike
    <3>3. ASSUME NEW j \in DOMAIN calls
          PROVE  ~Chosen(j)'
      <4>1. Len(calls) + 1 \in Int /\ j < Len(calls) + 1
        BY <1>1
      <4>2. /\ calls'[j].op = calls[j].op
            /\ calls'[j].passed <=> (calls[j].passed \/ calls[j].op = "receipt")
        BY <2>5, <4>1, LateCalls DEF Alike
      <4> QED BY <4>2 DEF Chosen
    <3>4. ChoicesAreInOrder'
      BY <3>2, <3>3 DEF ChoicesAreInOrder
    <3>5. ChoiceIsShown'
      BY <1>1, <2>2, <3>1 DEF ChoiceIsShown
    <3> QED BY <3>4, <3>5 DEF ReceiptsInv
  <2> QED BY <2>3, <2>4, <2>5
<1>3. CASE SelectManual
  BY <1>1, <1>3 DEF SelectManual, ReceiptsInv, UiSet
<1>4. CASE UpdateReceipt
  <2> DEFINE f == Form(IF ui.form = NoForm THEN 0 ELSE ui.form.row, 0, "pending", HandWritten)
  <2>1. ui' = [ui EXCEPT !.form = f] /\ UNCHANGED <<page, calls>>
    BY <1>4 DEF UpdateReceipt, Still
  <2>2. f \in FormSet
    BY <1>1, TagsOf, RowsAreNumbers, ScreenAssumption DEF UiSet, Form, FormSet
  <2>3. f.tag = HandWritten
    BY DEF Form
  <2> HIDE DEF f
  <2>4. ui'.form = f /\ ui'.side = ui.side
    BY <1>1, <2>1 DEF UiSet
  <2> QED BY <1>1, <2>1, <2>2, <2>3, <2>4, SameReceipts
<1> QED BY <1>2, <1>3, <1>4 DEF ReceiptsUser

LEMMA AnswerKeepsReceipts ==
  ASSUME WellTyped, CallsAreConsistent, ReceiptsInv, page = "receipts", NEW i \in DOMAIN calls,
         ShowAnswer(i)
  PROVE  ReceiptsInv'
<1>1. /\ page' = page /\ ui \in UiSet /\ i \in Int
      /\ Len(calls) + 1 \in Int /\ DOMAIN calls = 1..Len(calls)
  BY CallsTyped DEF WellTyped, ShowAnswer, ListArrives, ReceiptIssued, Done, CrudPageNames
<1>2. PICK m : m = Len(calls) - 1
  OBVIOUS
<1>3. CASE ListArrives(i)
  <2>1. calls[i].op = "list" /\ calls' = RemoveAt(Overtaken(i), i) /\ ui' = ListShown(i)
    BY <1>3 DEF ListArrives
  <2>2. ui'.side = ui.side /\ ui'.form = ui.form
    BY <1>1, <2>1 DEF ListShown, UiSet
  <2>3. /\ Keeps(i, m) /\ Nothing(m)
        /\ \A j \in 1..m : calls'[j] = Overtaken(i)[Skip(i, j)]
    BY <1>1, <1>2, <2>1, OvertakenCalls, OneCallGone
  <2>4. ASSUME NEW j \in DOMAIN calls'
        PROVE  /\ Skip(i, j) \in DOMAIN calls /\ j \in Int
               /\ Chosen(j)' = Chosen(Skip(i, j)) /\ ChosenLast(j)' = ChosenLast(Skip(i, j))
    <3>1. /\ j \in 1..m /\ Skip(i, j) \in DOMAIN calls
          /\ calls'[j].op = calls[Skip(i, j)].op /\ calls'[j].body = calls[Skip(i, j)].body
      BY <2>3, <2>4 DEF Keeps, Nothing
    <3>2. calls'[j].passed <=> (calls[Skip(i, j)].passed \/ (Skip(i, j) < i /\ calls'[j].op = "list"))
      BY <1>1, <2>3, <3>1, OvertakenCalls
    <3>3. (calls'[j].op = "receipt" /\ ~calls'[j].passed)
             <=> (calls[Skip(i, j)].op = "receipt" /\ ~calls[Skip(i, j)].passed)
      BY <3>1, <3>2
    <3>4. Chosen(j)' = Chosen(Skip(i, j))
      BY <3>3 DEF Chosen
    <3> QED BY <2>2, <3>1, <3>4 DEF ChosenLast
  <2>5. ASSUME NEW k \in DOMAIN calls, Chosen(k)
        PROVE  \E j \in DOMAIN calls' : Skip(i, j) = k
    <3>1. k # i
      BY <2>1, <2>5 DEF Chosen
    <3> QED BY <2>3, <3>1 DEF Keeps, Nothing
  <2>6. CASE ui.side = NoForm
    BY <2>2, <2>6 DEF ReceiptsInv
  <2>7. CASE ui.side # NoForm
    <3>1. ASSUME NEW j \in DOMAIN calls', Chosen(j)', ~ChosenLast(j)'
          PROVE  \E l \in DOMAIN calls' : j < l /\ ChosenLast(l)'
      <4>1. Chosen(Skip(i, j)) /\ ~ChosenLast(Skip(i, j)) /\ Skip(i, j) \in DOMAIN calls
        BY <2>4, <3>1
      <4>2. PICK k \in DOMAIN calls : Skip(i, j) < k /\ ChosenLast(k)
        BY <2>7, <4>1 DEF ReceiptsInv, ChoicesAreInOrder
      <4>3. PICK l \in DOMAIN calls' : Skip(i, l) = k
        BY <2>5, <4>2 DEF ChosenLast
      <4>4. j < l
        BY <1>1, <2>4, <4>2, <4>3, SkipKeepsOrder
      <4> QED BY <2>4, <4>2, <4>3, <4>4
    <3>2. ChoicesAreInOrder'
      BY <3>1 DEF ChoicesAreInOrder
    <3>3. ChoiceIsShown => ChoiceIsShown'
      BY <2>2 DEF ChoiceIsShown
    <3>4. ASSUME NEW k \in DOMAIN calls, ChosenLast(k)
          PROVE  \E l \in DOMAIN calls' : ChosenLast(l)'
      <4>1. PICK l \in DOMAIN calls' : Skip(i, l) = k
        BY <2>5, <3>4 DEF ChosenLast
      <4> QED BY <2>4, <3>4, <4>1
    <3> QED BY <2>7, <3>2, <3>3, <3>4 DEF ReceiptsInv
  <2> QED BY <2>6, <2>7
<1>4. CASE ReceiptIssued(i)
  <2>1. /\ calls[i].op = "receipt" /\ calls' = RemoveAt(Late(i), i)
        /\ ui' = [ui EXCEPT !.form = Filled(calls[i])] /\ calls[i].state # "sent"
    BY <1>4 DEF ReceiptIssued, Answered
  <2>2. calls[i].body \in FormSet /\ NoForm \notin FormSet
    BY <2>1, TextForms DEF CallsAreConsistent, Consistent
  <2>3. /\ ui'.side = ui.side /\ ui'.form = Filled(calls[i])
        /\ ui'.form \in FormSet /\ ui'.form.row = calls[i].body.row
        /\ calls[i].passed => ui'.form.origin = 1
    <3>1. 0 \in 0..MaxForms /\ 1 \in 0..MaxForms
      BY ScreenAssumption
    <3>2. /\ Filled(calls[i]) \in FormSet /\ Filled(calls[i]).row = calls[i].body.row
          /\ calls[i].passed => Filled(calls[i]).origin = 1
      BY <2>2, <3>1 DEF Filled, FormSet
    <3>3. ui'.side = ui.side /\ ui'.form = Filled(calls[i])
      BY <1>1, <2>1 DEF UiSet
    <3> QED BY <3>2, <3>3
  <2>4. /\ Keeps(i, m) /\ Nothing(m)
        /\ \A j \in 1..m : calls'[j] = Late(i)[Skip(i, j)]
    BY <1>1, <1>2, <2>1, LateCalls, OneCallGone
  <2>5. ASSUME NEW j \in DOMAIN calls'
        PROVE  /\ Skip(i, j) \in DOMAIN calls /\ j \in Int
               /\ Chosen(j)' <=> Chosen(Skip(i, j)) /\ i < Skip(i, j)
               /\ ChosenLast(j)' <=> ChosenLast(Skip(i, j)) /\ i < Skip(i, j)
    <3>1. /\ j \in 1..m /\ Skip(i, j) \in DOMAIN calls /\ Skip(i, j) # i
          /\ calls'[j].op = calls[Skip(i, j)].op /\ calls'[j].body = calls[Skip(i, j)].body
      BY <2>4, <2>5 DEF Keeps, Nothing
    <3>2. Late(i)[Skip(i, j)].passed
             <=> (calls[Skip(i, j)].passed \/ (Skip(i, j) < i /\ calls[Skip(i, j)].op = "receipt"))
      BY <1>1, <3>1, LateCalls
    <3>3. calls'[j].passed
             <=> (calls[Skip(i, j)].passed \/ (Skip(i, j) < i /\ calls[Skip(i, j)].op = "receipt"))
      BY <2>4, <3>1, <3>2
    <3>4. Skip(i, j) < i \/ i < Skip(i, j)
      BY <1>1, <3>1
    <3>5. (calls'[j].op = "receipt" /\ ~calls'[j].passed)
             <=> (calls[Skip(i, j)].op = "receipt" /\ ~calls[Skip(i, j)].passed /\ i < Skip(i, j))
      BY <1>1, <3>1, <3>3, <3>4
    <3>6. Chosen(j)' <=> Chosen(Skip(i, j)) /\ i < Skip(i, j)
      BY <3>5 DEF Chosen
    <3> QED BY <2>3, <3>1, <3>6 DEF ChosenLast
  <2>6. ASSUME NEW k \in DOMAIN calls, i < k
        PROVE  \E j \in DOMAIN calls' : Skip(i, j) = k
    <3>1. k # i
      BY <1>1, <2>6
    <3> QED BY <2>4, <3>1 DEF Keeps, Nothing
  <2>7. CASE ui.side = NoForm
    BY <2>3, <2>7 DEF ReceiptsInv
  <2>8. CASE ui.side # NoForm
    <3>1. ASSUME NEW k \in DOMAIN calls, i < k, ChosenLast(k)
          PROVE  \E l \in DOMAIN calls' : Skip(i, l) = k /\ ChosenLast(l)'
      <4>1. PICK l \in DOMAIN calls' : Skip(i, l) = k
        BY <2>6, <3>1
      <4> QED BY <2>5, <3>1, <4>1
    <3>2. ASSUME NEW j \in DOMAIN calls', Chosen(j)', ~ChosenLast(j)'
          PROVE  \E l \in DOMAIN calls' : j < l /\ ChosenLast(l)'
      <4>1. /\ Chosen(Skip(i, j)) /\ ~ChosenLast(Skip(i, j)) /\ Skip(i, j) \in DOMAIN calls
            /\ i < Skip(i, j)
        BY <2>5, <3>2
      <4>2. PICK k \in DOMAIN calls : Skip(i, j) < k /\ ChosenLast(k)
        BY <2>8, <4>1 DEF ReceiptsInv, ChoicesAreInOrder
      <4>3. i < k
        BY <1>1, <4>1, <4>2
      <4>4. PICK l \in DOMAIN calls' : Skip(i, l) = k /\ ChosenLast(l)'
        BY <3>1, <4>2, <4>3
      <4>5. j < l
        BY <1>1, <2>5, <4>2, <4>4, SkipKeepsOrder
      <4> QED BY <4>4, <4>5
    <3>3. ChoicesAreInOrder'
      BY <3>2 DEF ChoicesAreInOrder
    <3>4. ChoiceIsShown' \/ \E l \in DOMAIN calls' : ChosenLast(l)'
      <4>1. CASE calls[i].passed \/ calls[i].body.row = ui.side
        BY <2>2, <2>3, <4>1 DEF ChoiceIsShown
      <4>2. CASE ~calls[i].passed /\ calls[i].body.row # ui.side
        <5>1. PICK k \in DOMAIN calls : i < k /\ ChosenLast(k)
          BY <2>1, <2>8, <4>2 DEF ReceiptsInv, ChoicesAreInOrder, Chosen, ChosenLast
        <5> QED BY <3>1, <5>1
      <4> QED BY <4>1, <4>2
    <3> QED BY <3>3, <3>4 DEF ReceiptsInv
  <2> QED BY <2>7, <2>8
<1> QED BY <1>3, <1>4 DEF ShowAnswer, CrudPageNames

LEMMA OthersKeepReceipts ==
  ASSUME ReceiptsInv, page = "receipts", OthersMove \/ UNCHANGED <<page, ui, calls>>
  PROVE  ReceiptsInv'
<1>1. page' = page /\ ui' = ui /\ calls' = calls
  BY DEF OthersMove
<1> QED BY <1>1, SameReceipts

LEMMA ServeKeepsReceipts ==
  ASSUME WellTyped, ReceiptsInv, page = "receipts", NEW i \in DOMAIN calls, ServeMoves(i)
  PROVE  ReceiptsInv'
<1>1. page' = page /\ ui' = ui
  BY DEF ServeMoves
<1>2. /\ DOMAIN calls' = DOMAIN calls
      /\ \A j \in DOMAIN calls : /\ calls'[j].op = calls[j].op /\ calls'[j].body = calls[j].body
                                 /\ calls'[j].passed = calls[j].passed
  BY ServedCalls
<1> QED BY <1>1, <1>2, SameReceipts

LEMMA InitKeepsReceipts == Init => ReceiptsInv
<1> SUFFICES ASSUME Init
             PROVE  ui.side = NoForm
  BY DEF ReceiptsInv
<1> QED BY DEF Init, DonationsMount, CrudMount, ReceiptsMount, CardsMount, CampaignsMount,
               InternsMount, SettingsMount, MembersMount, RecordsMount, ProjectsMount,
               DesignationsMount, Mounted

LEMMA PageStays ==
  ASSUME Sound, [Next]_screenVars
  PROVE  page' = page
<1>1. CASE User
  BY <1>1, UserIsSound DEF UserMoves
<1>2. ASSUME NEW i \in DOMAIN calls, ShowAnswer(i)
      PROVE  page' = page
  BY <1>2, AnswerIsSound DEF AnswerMoves, Done
<1>3. ASSUME NEW i \in DOMAIN calls, Serve(i)
      PROVE  page' = page
  BY <1>3, ServeIsSound DEF ServeMoves
<1>4. CASE Others
  BY <1>4, OthersAreSound DEF OthersMove
<1>5. CASE UNCHANGED screenVars
  BY <1>5 DEF screenVars
<1> QED BY <1>1, <1>2, <1>3, <1>4, <1>5 DEF Next

LEMMA NextKeepsMenus ==
  ASSUME Sound, CardsInv, ReceiptsInv, [Next]_screenVars
  PROVE  CardsInv' /\ ReceiptsInv'
<1>1. WellTyped /\ CallsAreConsistent
  BY DEF Sound
<1>2. CASE page = "cards"
  <2>1. CASE User
    <3>1. CardsUser
      BY <1>2, <2>1 DEF User, CrudPageNames
    <3>2. UserMoves
      BY <2>1, UserIsSound
    <3> QED BY <1>1, <1>2, <3>1, <3>2, UserKeepsCards DEF UserMoves, ReceiptsInv
  <2>2. ASSUME NEW i \in DOMAIN calls, ShowAnswer(i)
        PROVE  CardsInv' /\ ReceiptsInv'
    <3>1. AnswerMoves(i)
      BY <2>2, AnswerIsSound
    <3> QED BY <1>1, <1>2, <2>2, <3>1, AnswerKeepsCards
            DEF AnswerMoves, Done, ReceiptsInv
  <2>3. ASSUME NEW i \in DOMAIN calls, Serve(i)
        PROVE  CardsInv' /\ ReceiptsInv'
    <3>1. ServeMoves(i)
      BY <2>3, ServeIsSound
    <3> QED BY <1>1, <1>2, <2>3, <3>1, ServeKeepsCards DEF ServeMoves, ReceiptsInv
  <2>4. CASE Others
    <3>1. OthersMove
      BY <2>4, OthersAreSound
    <3> QED BY <1>1, <1>2, <2>4, <3>1, OthersKeepCards DEF OthersMove, ReceiptsInv
  <2>5. CASE UNCHANGED screenVars
    BY <1>2, <2>5 DEF screenVars, CardsInv, ReceiptsInv, Printed
  <2> QED BY <2>1, <2>2, <2>3, <2>4, <2>5 DEF Next
<1>3. CASE page = "receipts"
  <2>1. CASE User
    <3>1. ReceiptsUser
      BY <1>3, <2>1 DEF User, CrudPageNames
    <3>2. UserMoves
      BY <2>1, UserIsSound
    <3> QED BY <1>1, <1>3, <3>1, <3>2, UserKeepsReceipts DEF UserMoves, CardsInv
  <2>2. ASSUME NEW i \in DOMAIN calls, ShowAnswer(i)
        PROVE  CardsInv' /\ ReceiptsInv'
    <3>1. AnswerMoves(i)
      BY <2>2, AnswerIsSound
    <3> QED BY <1>1, <1>3, <2>2, <3>1, AnswerKeepsReceipts DEF AnswerMoves, Done, CardsInv
  <2>3. ASSUME NEW i \in DOMAIN calls, Serve(i)
        PROVE  CardsInv' /\ ReceiptsInv'
    <3>1. ServeMoves(i)
      BY <2>3, ServeIsSound
    <3> QED BY <1>1, <1>3, <3>1, ServeKeepsReceipts DEF ServeMoves, CardsInv
  <2>4. CASE Others
    <3>1. OthersMove
      BY <2>4, OthersAreSound
    <3> QED BY <1>1, <1>3, <3>1, OthersKeepReceipts DEF OthersMove, CardsInv
  <2>5. CASE UNCHANGED screenVars
    <3>1. UNCHANGED <<page, ui, calls>>
      BY <2>5 DEF screenVars
    <3> QED BY <1>3, <3>1, OthersKeepReceipts DEF CardsInv
  <2> QED BY <2>1, <2>2, <2>3, <2>4, <2>5 DEF Next
<1>4. CASE page \notin {"cards", "receipts"}
  BY <1>4, PageStays DEF CardsInv, ReceiptsInv
<1> QED BY <1>2, <1>3, <1>4

\* What the menu of a document generator says is what it prints.
THEOREM MenusArePrinted == Spec => []PrintsWhatIsSelected
<1>1. Init => CardsInv /\ ReceiptsInv
  BY InitKeepsCards, InitKeepsReceipts
<1>2. Sound /\ (CardsInv /\ ReceiptsInv) /\ [Next]_screenVars => (CardsInv /\ ReceiptsInv)'
  BY NextKeepsMenus
<1>3. CardsInv /\ ReceiptsInv => PrintsWhatIsSelected
  <2> SUFFICES ASSUME CardsInv, ReceiptsInv
               PROVE  PrintsWhatIsSelected
    OBVIOUS
  <2>1. ASSUME page = "receipts", calls = <<>>, ui.side # NoForm
        PROVE  ChoiceIsShown
    <3>1. DOMAIN calls = {}
      BY <2>1
    <3> QED BY <2>1, <3>1 DEF ReceiptsInv
  <2> QED BY <2>1 DEF PrintsWhatIsSelected, CardsInv, ChoiceIsShown
<1> QED BY DashboardIsSound, <1>1, <1>2, <1>3, PTL DEF Spec

-----------------------------------------------------------------------------
(***************************************************************************)
(* The settings page: the platform form holds what is stored, or an answer *)
(* that will say so is to come, or it holds the fallback and the error of  *)
(* its load stands until its user asks the backend something again.  While *)
(* the fallback is shown the only user on the list is the invented one,    *)
(* whom the backend does not know.                                         *)
(***************************************************************************)
Stored == db[Platform].tag
SaveTaken(i) == calls[i].op = "platform" /\ calls[i].state = "ok"
AnswerPending == \E i \in DOMAIN calls : SaveTaken(i)

UsersAreKnown == \A r \in Rows : r \notin {Platform, Member} => ~Live(db, r)

SettingCall(i) ==
    /\ calls[i].op = "platform" =>
           /\ calls[i].row = Platform
           /\ calls[i].state = "ok" /\ ~untold => calls[i].body.tag = Stored
    /\ calls[i].op = "user" =>
           calls[i].row # Platform /\ (calls[i].state = "ok" => calls[i].row # LocalUser)

ReadIsStored(i) ==
    calls[i].op = "list" /\ calls[i].state = "ok" /\ ~calls[i].passed =>
        calls[i].got[Platform].tag = Stored \/ AnswerPending

CallsAreStored ==
    /\ UsersAreKnown
    /\ \A i \in DOMAIN calls : SettingCall(i)
    /\ ~untold => \A i \in DOMAIN calls : ReadIsStored(i)

FallbackShown ==
    /\ \A r \in Rows : Live(ui.list.rows, r) => r \in {Platform, LocalUser}
    /\ ui.form.base = "fallback"

Asked(i) ==
    calls[i].op \in {"list", "platform"} \/ (calls[i].op = "user" /\ calls[i].row = LocalUser)

FallbackIsTold ==
    \/ ui.error
    \/ ui.form.tag # "fallback"
    \/ \E i \in DOMAIN calls : Asked(i)

FormIsStored ==
    \/ ui.list.kind = "late"
    \/ ui.form.base = Stored
    \/ AnswerPending
    \/ FallbackShown /\ FallbackIsTold

FormFollows ==
    IF ui.form = NoForm THEN \E i \in DOMAIN calls : calls[i].op = "list"
    ELSE ~untold => FormIsStored

SettingsInv == page = "settings" => CallsAreStored /\ FormFollows

\* Calls are kept, and one may be sent, while the table stays.
LEMMA StoredCallsStay ==
  ASSUME CallsAreStored, db' = db, untold' = untold, NEW i, NEW m, Keeps(i, m),
         Nothing(m) \/ \E c : /\ Sends(m, c) /\ c.state = "sent"
                              /\ c.op = "platform" => c.row = Platform
                              /\ c.op = "user" => c.row # Platform,
         \A j \in 1..m : calls[Skip(i, j)].passed => calls'[j].passed,
         \/ \A k \in DOMAIN calls : SaveTaken(k) => k # i
         \/ \A j \in 1..m : calls'[j].op = "list" => calls'[j].passed
  PROVE  CallsAreStored'
<1>1. /\ m \in Nat
      /\ \A j \in 1..m : /\ j \in DOMAIN calls' /\ Skip(i, j) \in DOMAIN calls
                         /\ calls'[j].op = calls[Skip(i, j)].op
                         /\ calls'[j].row = calls[Skip(i, j)].row
                         /\ calls'[j].body = calls[Skip(i, j)].body
                         /\ calls'[j].state = calls[Skip(i, j)].state
                         /\ calls'[j].got = calls[Skip(i, j)].got
      /\ \A k \in DOMAIN calls : k # i => \E j \in 1..m : Skip(i, j) = k
  BY DEF Keeps
<1>2. ASSUME NEW j \in DOMAIN calls', j \notin 1..m
      PROVE  /\ calls'[j].state = "sent"
             /\ calls'[j].op = "platform" => calls'[j].row = Platform
             /\ calls'[j].op = "user" => calls'[j].row # Platform
  <2>1. PICK c : /\ Sends(m, c) /\ c.state = "sent"
                 /\ c.op = "platform" => c.row = Platform
                 /\ c.op = "user" => c.row # Platform
    BY <1>2 DEF Nothing
  <2>2. j = m + 1 /\ calls'[m + 1] = c
    BY <1>1, <1>2, <2>1 DEF Sends
  <2> QED BY <2>1, <2>2
<1>3. Stored' = Stored /\ UsersAreKnown'
  BY DEF Stored, UsersAreKnown, CallsAreStored, Live
<1>4. ASSUME NEW j \in DOMAIN calls'
      PROVE  SettingCall(j)'
  <2>1. CASE j \in 1..m
    <3>1. SettingCall(Skip(i, j))
      BY <1>1, <2>1 DEF CallsAreStored
    <3> QED BY <1>1, <1>3, <2>1, <3>1 DEF SettingCall
  <2>2. CASE j \notin 1..m
    BY <1>2, <2>2 DEF SettingCall
  <2> QED BY <2>1, <2>2
<1>5. ASSUME NEW j \in DOMAIN calls', ~untold
      PROVE  ReadIsStored(j)'
  <2>1. CASE j \notin 1..m \/ calls'[j].op # "list" \/ calls'[j].passed
    BY <1>2, <2>1 DEF ReadIsStored
  <2>2. CASE j \in 1..m /\ calls'[j].op = "list" /\ ~calls'[j].passed
    <3>1. ReadIsStored(Skip(i, j)) /\ ~calls[Skip(i, j)].passed
      BY <1>1, <1>5, <2>2 DEF CallsAreStored
    <3>2. AnswerPending => AnswerPending'
      <4> SUFFICES ASSUME NEW k \in DOMAIN calls, SaveTaken(k)
                   PROVE  AnswerPending'
        BY DEF AnswerPending
      <4>1. PICK l \in 1..m : Skip(i, l) = k
        BY <1>1, <2>2
      <4>2. calls'[l].op = "platform" /\ calls'[l].state = "ok" /\ l \in DOMAIN calls'
        BY <1>1, <4>1 DEF SaveTaken
      <4> QED BY <4>2 DEF AnswerPending, SaveTaken
    <3> QED BY <1>1, <1>3, <2>2, <3>1, <3>2 DEF ReadIsStored
  <2> QED BY <2>1, <2>2
<1> QED BY <1>3, <1>4, <1>5 DEF CallsAreStored

\* The form stays that of the same load.
LEMMA StoredFormStays ==
  ASSUME FormFollows, db' = db, untold' = untold, NEW i, NEW m, Keeps(i, m),
         \A k \in DOMAIN calls : k = i => calls[k].op # "list" /\ ~SaveTaken(k),
         (ui'.form = NoForm) <=> (ui.form = NoForm),
         ui'.form.base = ui.form.base, ui'.list.kind = ui.list.kind,
         \A r \in Rows : Live(ui'.list.rows, r) => Live(ui.list.rows, r),
         FallbackShown /\ FallbackIsTold => FallbackIsTold'
  PROVE  FormFollows'
<1>1. ASSUME NEW k \in DOMAIN calls, k # i
      PROVE  \E j \in DOMAIN calls' :
                calls'[j].op = calls[k].op /\ calls'[j].state = calls[k].state
  BY <1>1 DEF Keeps
<1>2. CASE ui.form = NoForm
  BY <1>1, <1>2 DEF FormFollows
<1>3. CASE ui.form # NoForm
  <2>1. AnswerPending => AnswerPending'
    BY <1>1 DEF AnswerPending, SaveTaken
  <2>2. Stored' = Stored
    BY DEF Stored
  <2>3. FallbackShown => FallbackShown'
    BY DEF FallbackShown
  <2>4. ~untold => FormIsStored'
    BY <1>3, <2>1, <2>2, <2>3 DEF FormFollows, FormIsStored
  <2> QED BY <1>3, <2>4 DEF FormFollows
<1> QED BY <1>2, <1>3

LEMMA UserKeepsSettings ==
  ASSUME WellTyped, SettingsInv, page = "settings", SettingsUser
  PROVE  SettingsInv'
<1>1. /\ ui \in UiSet /\ NoForm \notin FormSet
      /\ ui.form \in {NoForm} \cup FormSet /\ ui.filter \in Views
      /\ CallsAreStored /\ FormFollows
  BY TextForms DEF WellTyped, UiSet, SettingsInv
<1>2. /\ None \notin DOMAIN calls
      /\ Tags = {"stored", "typed", "fallback", "active", "suspended"}
  BY CallsTyped, TagsOf DEF None
\* A call is sent, and an error on screen is taken away.
<1>3. ASSUME NEW c \in CallSet, calls' = Append(calls, c), c.state = "sent",
             c.op = "platform" => c.row = Platform,
             c.op = "user" => c.row # Platform,
             FallbackShown => c.op \in {"list", "platform"} \/ (c.op = "user" /\ c.row = LocalUser),
             UNCHANGED <<page, db, untold>>, ui'.form = ui.form, ui'.list = ui.list
      PROVE  SettingsInv'
  <2>0. PICK n \in Nat : n = Len(calls)
    BY CallsTyped
  <2>1. Keeps(None, n) /\ Sends(n, c) /\ Undisturbed(None, n)
    BY <1>3, <2>0, OneMoreCall
  <2>2. \A j \in 1..n : calls[Skip(None, j)].passed => calls'[j].passed
    BY <2>1 DEF Undisturbed
  <2>3. CallsAreStored'
    BY <1>1, <1>2, <1>3, <2>1, <2>2, StoredCallsStay
  <2>4. FallbackShown => FallbackIsTold'
    <3>1. n + 1 \in DOMAIN calls' /\ calls'[n + 1] = c
      BY <2>0, <2>1 DEF Sends
    <3>2. FallbackShown => Asked(n + 1)'
      BY <1>3, <3>1 DEF Asked
    <3> QED BY <3>1, <3>2 DEF FallbackIsTold
  <2>5. FormFollows'
    BY <1>1, <1>2, <1>3, <2>1, <2>4, StoredFormStays
  <2> QED BY <2>3, <2>5 DEF SettingsInv
<1>4. CASE SettingsRefresh
  <2> DEFINE c == List(ui.filter, "view")
  <2>1. ui' = [ui EXCEPT !.loading = TRUE, !.error = FALSE] /\ Send(c)
    BY <1>4 DEF SettingsRefresh, Refresh
  <2>2. c \in CallSet /\ c.op = "list" /\ c.state = "sent"
    BY <1>1, ListIsACall DEF Jobs
  <2> HIDE DEF c
  <2>3. calls' = Append(calls, c) /\ UNCHANGED <<page, db, untold>>
    BY <2>1 DEF Send
  <2>4. ui'.form = ui.form /\ ui'.list = ui.list
    BY <1>1, <2>1 DEF UiSet
  <2> QED BY <1>3, <2>2, <2>3, <2>4
<1>5. CASE UpdatePlatformField
  <2>1. ui' = [ui EXCEPT !.form.tag = "typed"] /\ ui.form # NoForm /\ Still
    BY <1>5 DEF UpdatePlatformField, SettingsControls
  <2> DEFINE f == [ui.form EXCEPT !.tag = "typed"]
  <2>2. ui' = [ui EXCEPT !.form = f] /\ f \in FormSet /\ f.base = ui.form.base /\ f.tag = "typed"
    BY <1>1, <1>2, <2>1 DEF FormSet
  <2> HIDE DEF f
  <2>3. ui'.form = f /\ ui'.list = ui.list
    BY <1>1, <2>2 DEF UiSet
  <2>4. calls' = calls /\ UNCHANGED <<page, db, untold>>
    BY <2>1 DEF Still
  <2>5. Keeps(None, Len(calls)) /\ Nothing(Len(calls)) /\ Undisturbed(None, Len(calls))
    BY <2>4, SameCalls
  <2>6. CallsAreStored'
    BY <1>1, <1>2, <2>4, <2>5, StoredCallsStay DEF Undisturbed
  <2>7. FallbackIsTold'
    BY <2>2, <2>3 DEF FallbackIsTold
  <2>8. FormFollows'
    BY <1>1, <1>2, <2>1, <2>2, <2>3, <2>4, <2>5, <2>7, StoredFormStays
  <2> QED BY <2>6, <2>8 DEF SettingsInv
<1>6. CASE SavePlatform
  <2> DEFINE c == Call("platform", Platform, ui.form, "save")
  <2>1. ui' = [ui EXCEPT !.submitting = TRUE, !.error = FALSE] /\ Send(c)
    BY <1>6 DEF SavePlatform, Submit
  <2>2. c \in CallSet /\ c.op = "platform" /\ c.row = Platform /\ c.state = "sent"
    <3>1. Platform \in 0..MaxRows /\ "platform" \in Ops \ {"list", "pay"}
      BY RowsAreNumbers DEF Platform, Ops
    <3> QED BY <1>1, <3>1, NewCall
  <2> HIDE DEF c
  <2>3. calls' = Append(calls, c) /\ UNCHANGED <<page, db, untold>>
    BY <2>1 DEF Send
  <2>4. ui'.form = ui.form /\ ui'.list = ui.list
    BY <1>1, <2>1 DEF UiSet
  <2> QED BY <1>3, <2>2, <2>3, <2>4
<1>7. CASE UpdateUser
  <2>1. PICK r \in Rows \ {Platform}, status \in UserMenu :
          /\ Live(ui.list.rows, r)
          /\ ui' = [ui EXCEPT !.error = FALSE]
          /\ Send(Call("user", r, Form(r, 0, ui.list.rows[r].tag, status), "act"))
    BY <1>7 DEF UpdateUser
  <2> DEFINE f == Form(r, 0, ui.list.rows[r].tag, status)
             c == Call("user", r, f, "act")
  <2>2. f \in FormSet
    BY <1>2, ListedRow, RowsAreNumbers, ScreenAssumption DEF Form, FormSet, UserMenu
  <2> HIDE DEF f
  <2>3. c \in CallSet /\ c.op = "user" /\ c.row = r /\ c.state = "sent"
    <3>1. r \in 0..MaxRows /\ "user" \in Ops \ {"list", "pay"}
      BY RowsAreNumbers DEF Ops
    <3> QED BY <2>2, <3>1, NewCall
  <2>4. Send(c)
    BY <2>1 DEF f
  <2> HIDE DEF c
  <2>5. calls' = Append(calls, c) /\ UNCHANGED <<page, db, untold>>
    BY <2>4 DEF Send
  <2>6. ui'.form = ui.form /\ ui'.list = ui.list
    BY <1>1, <2>1 DEF UiSet
  <2>7. FallbackShown => r = LocalUser
    BY <2>1 DEF FallbackShown
  <2> QED BY <1>3, <2>1, <2>3, <2>5, <2>6, <2>7
<1> QED BY <1>4, <1>5, <1>6, <1>7 DEF SettingsUser

\* What is shown after the first row's tag, or another one's, has changed.
LEMMA ShownRows ==
  ASSUME WellTyped, NEW r \in Rows, NEW tag, NEW rows, rows = [ui.list.rows EXCEPT ![r].tag = tag]
  PROVE  \A s \in Rows : Live(rows, s) <=> Live(ui.list.rows, s)
<1>1. ui.list.rows \in TableSet
  BY DEF WellTyped, UiSet, ListSet
<1>2. ASSUME NEW s \in Rows
      PROVE  rows[s].is = ui.list.rows[s].is
  <2>1. ui.list.rows[s] \in RowSet
    BY <1>1 DEF TableSet
  <2>2. rows[s] = IF s = r THEN [ui.list.rows[s] EXCEPT !.tag = tag] ELSE ui.list.rows[s]
    BY <1>1 DEF TableSet
  <2> QED BY <2>1, <2>2 DEF RowSet
<1> QED BY <1>2 DEF Live

LEMMA ArrivalKeepsSettings ==
  ASSUME WellTyped, CallsAreConsistent, SettingsInv, page = "settings", NEW i \in DOMAIN calls,
         calls[i].state # "sent", SettingsArrive(i)
  PROVE  SettingsInv'
<1>1. /\ ui \in UiSet /\ ui.list \in ListSet /\ NoForm \notin FormSet
      /\ CallsAreStored /\ FormFollows
      /\ Tags = {"stored", "typed", "fallback", "active", "suspended"}
  BY TextForms, TagsOf DEF WellTyped, UiSet, SettingsInv
<1>2. /\ calls[i].op = "list" /\ calls' = RemoveAt(Overtaken(i), i)
      /\ ui' = [LoadedSettings(i) EXCEPT !.loading = FALSE]
      /\ UNCHANGED <<page, db, untold>>
  BY DEF SettingsArrive, Done
<1>3. PICK m \in Int : m = Len(calls) - 1
  <2>1. Len(calls) - 1 \in Int
    BY CallsTyped
  <2> QED BY <2>1
<1>4. Keeps(i, m) /\ Nothing(m) /\ \A j \in 1..m : calls'[j] = Overtaken(i)[Skip(i, j)]
  <2>1. i \in Int
    BY CallsTyped
  <2> QED BY <1>2, <1>3, <2>1, OvertakenCalls, OneCallGone
<1>5. \A j \in 1..m : calls[Skip(i, j)].passed => calls'[j].passed
  <2>1. i \in Int
    BY CallsTyped
  <2> QED BY <1>4, <2>1, OvertakenCalls DEF Keeps
<1>6. CallsAreStored'
  <2>1. \A k \in DOMAIN calls : SaveTaken(k) => k # i
    BY <1>2 DEF SaveTaken
  <2> QED BY <1>1, <1>2, <1>4, <1>5, <2>1, StoredCallsStay
<1>7. Platform \in Rows /\ Platform \in 0..MaxRows /\ 0 \in 0..MaxForms
  BY RowsAreNumbers, ScreenAssumption DEF Platform
<1>8. ASSUME NEW rows \in TableSet
      PROVE  PlatformForm(rows) \in FormSet /\ PlatformForm(rows).base = rows[Platform].tag
  <2>1. rows[Platform].tag \in Tags
    BY <1>7 DEF TableSet, RowSet
  <2> QED BY <1>7, <2>1 DEF PlatformForm, Form, FormSet
<1>9. CASE calls[i].state = "ok"
  <2>1. calls[i].got \in TableSet
    BY <1>2, <1>9 DEF CallsAreConsistent, Consistent
  <2>2. ui'.form = PlatformForm(calls[i].got) /\ ui'.list = Listed(i)
    <3>1. LoadedSettings(i) = [ui EXCEPT !.list = Listed(i), !.form = PlatformForm(calls[i].got)]
      BY <1>9 DEF LoadedSettings
    <3> QED BY <1>1, <1>2, <3>1 DEF UiSet
  <2>3. ui'.form # NoForm /\ ui'.form.base = calls[i].got[Platform].tag
    BY <1>1, <1>8, <2>1, <2>2
  <2>4. CASE calls[i].passed
    <3>1. ui'.list.kind = "late"
      BY <2>2, <2>4 DEF Listed
    <3> QED BY <1>6, <2>3, <3>1 DEF SettingsInv, FormFollows, FormIsStored
  <2>5. CASE ~calls[i].passed
    <3>1. ~untold => ReadIsStored(i)
      BY <1>1 DEF CallsAreStored
    <3>2. ~untold => calls[i].got[Platform].tag = Stored \/ AnswerPending
      BY <1>2, <1>9, <2>5, <3>1 DEF ReadIsStored
    <3>3. AnswerPending => AnswerPending'
      <4> SUFFICES ASSUME NEW k \in DOMAIN calls, SaveTaken(k)
                   PROVE  AnswerPending'
        BY DEF AnswerPending
      <4>1. k # i
        BY <1>2 DEF SaveTaken
      <4>2. PICK l \in DOMAIN calls' : calls'[l].op = calls[k].op /\ calls'[l].state = calls[k].state
        BY <1>4, <4>1 DEF Keeps
      <4> QED BY <4>2 DEF AnswerPending, SaveTaken
    <3>4. Stored' = Stored
      BY <1>2 DEF Stored
    <3>5. ~untold' => FormIsStored'
      BY <1>2, <2>3, <3>2, <3>3, <3>4 DEF FormIsStored
    <3> QED BY <1>6, <2>3, <3>5 DEF SettingsInv, FormFollows
  <2> QED BY <2>4, <2>5
<1>10. CASE calls[i].state # "ok"
  <2>1. FallbackRows \in TableSet /\ FallbackRows[Platform].tag = "fallback"
        /\ \A r \in Rows : Live(FallbackRows, r) => r \in {Platform, LocalUser}
    <3>1. \A r \in Rows : FallbackRows[r] \in RowSet
      BY <1>1, ScreenAssumption DEF FallbackRows, Row, RowSet
    <3>2. FallbackRows[Platform].tag = "fallback"
      <4>1. Platform # LocalUser
        BY ScreenAssumption DEF Platform, LocalUser
      <4>2. FallbackRows[Platform] = Row("live", 0, "fallback")
        BY <1>7, <4>1 DEF FallbackRows
      <4> QED BY <4>2 DEF Row
    <3>3. \A r \in Rows : r \notin {Platform, LocalUser} => FallbackRows[r].is = "absent"
      BY DEF FallbackRows, Row
    <3> QED BY <3>1, <3>2, <3>3 DEF FallbackRows, TableSet, Live
  <2> DEFINE l == [ui.list EXCEPT !.rows = FallbackRows]
  <2>2. l.rows = FallbackRows
    BY <1>1 DEF ListSet
  <2>3. LoadedSettings(i) = [ui EXCEPT !.list = l, !.form = PlatformForm(FallbackRows),
                                       !.error = TRUE]
    BY <1>10 DEF LoadedSettings
  <2> HIDE DEF l
  <2>4. ui'.form = PlatformForm(FallbackRows) /\ ui'.list = l /\ ui'.error
    BY <1>1, <1>2, <2>3 DEF UiSet
  <2>5. ui'.form # NoForm /\ ui'.form.base = "fallback"
    BY <1>1, <1>8, <2>1, <2>4
  <2>6. FallbackShown' /\ FallbackIsTold'
    BY <2>1, <2>2, <2>4, <2>5 DEF FallbackShown, FallbackIsTold
  <2> QED BY <1>6, <2>5, <2>6 DEF SettingsInv, FormFollows, FormIsStored
<1> QED BY <1>9, <1>10

LEMMA AnswerKeepsSettings ==
  ASSUME WellTyped, CallsAreConsistent, SettingsInv, page = "settings", NEW i \in DOMAIN calls,
         SettingsAnswer(i)
  PROVE  SettingsInv'
<1>1. /\ ui \in UiSet /\ ui.list \in ListSet /\ NoForm \notin FormSet
      /\ CallsAreStored /\ FormFollows
      /\ calls[i].state # "sent" /\ Len(calls) + 1 \in Int
      /\ \A j \in DOMAIN calls : j < Len(calls) + 1
  BY TextForms, CallsTyped DEF WellTyped, UiSet, SettingsInv, SettingsAnswer, Answered
<1>2. PICK m \in Int : m = Len(calls) - 1
  <2>1. Len(calls) - 1 \in Int
    BY CallsTyped
  <2> QED BY <2>1
<1>3. ASSUME calls' = RemoveAt(Overtaken(Len(calls) + 1), i)
      PROVE  /\ Keeps(i, m) /\ Nothing(m)
             /\ \A j \in 1..m : calls[Skip(i, j)].passed => calls'[j].passed
             /\ \A j \in 1..m : calls'[j].op = "list" => calls'[j].passed
  <2>1. /\ Keeps(i, m) /\ Nothing(m)
        /\ \A j \in 1..m : calls'[j] = Overtaken(Len(calls) + 1)[Skip(i, j)]
    BY <1>1, <1>2, <1>3, OvertakenCalls, OneCallGone
  <2>2. ASSUME NEW j \in 1..m
        PROVE  /\ calls[Skip(i, j)].passed => calls'[j].passed
               /\ calls'[j].op = "list" => calls'[j].passed
    <3>1. Skip(i, j) \in DOMAIN calls /\ calls'[j].op = calls[Skip(i, j)].op
      BY <2>1 DEF Keeps
    <3> QED BY <1>1, <2>1, <3>1, OvertakenCalls
  <2> QED BY <2>1, <2>2
<1>4. CASE SettingsArrive(i)
  BY <1>1, <1>4, ArrivalKeepsSettings
<1>5. CASE PlatformSaved(i)
  <2> DEFINE tag == calls[i].body.tag
             l == [ui.list EXCEPT !.rows[Platform].tag = tag]
             f == Form(Platform, 0, tag, tag)
  <2>1. /\ SaveTaken(i) /\ UNCHANGED <<page, db, untold>>
        /\ calls' = RemoveAt(Overtaken(Len(calls) + 1), i)
        /\ ui' = [ui EXCEPT !.form = f, !.list = l, !.submitting = FALSE]
    BY <1>5 DEF PlatformSaved, Done, SaveTaken
  <2>2. f \in FormSet /\ f.base = tag
    <3>1. tag \in Tags
      BY <2>1, AnsweredCall DEF Consistent, FormSet, SaveTaken
    <3>2. Platform \in 0..MaxRows /\ 0 \in 0..MaxForms
      BY RowsAreNumbers, ScreenAssumption DEF Platform
    <3> QED BY <3>1, <3>2 DEF Form, FormSet
  <2>3. ~untold => tag = Stored
    BY <1>1, <2>1 DEF CallsAreStored, SettingCall, SaveTaken
  <2> HIDE DEF f, l, tag
  <2>4. ui'.form = f
    BY <1>1, <2>1 DEF UiSet
  <2>5. CallsAreStored'
    BY <1>1, <1>3, <2>1, StoredCallsStay
  <2>6. FormFollows'
    BY <1>1, <2>1, <2>2, <2>3, <2>4 DEF FormFollows, FormIsStored, Stored
  <2> QED BY <2>5, <2>6 DEF SettingsInv
<1>6. CASE UserUpdated(i)
  <2> DEFINE tag == calls[i].body.tag
             r == calls[i].row
             rows == [ui.list.rows EXCEPT ![r].tag = tag]
             l == [ui.list EXCEPT !.rows = rows]
  <2>1. /\ calls[i].op = "user" /\ calls[i].state = "ok" /\ UNCHANGED <<page, db, untold>>
        /\ calls' = RemoveAt(Overtaken(Len(calls) + 1), i)
        /\ ui' = ui \/ ui' = [ui EXCEPT !.list = l]
    BY <1>6 DEF UserUpdated, Done
  <2>2. r \in Rows /\ r # LocalUser
    BY <1>1, <2>1, AnsweredCall DEF Consistent, CallsAreStored, SettingCall
  <2>3. \A s \in Rows : Live(rows, s) <=> Live(ui.list.rows, s)
    BY <2>2, ShownRows
  <2> HIDE DEF rows
  <2>4. l.rows = rows /\ l.kind = ui.list.kind
    BY <1>1 DEF ListSet
  <2> HIDE DEF l
  <2>5. ui'.form = ui.form /\ ui'.error = ui.error /\ (ui'.list = ui.list \/ ui'.list = l)
    BY <1>1, <2>1 DEF UiSet
  <2>6. /\ ui'.list.kind = ui.list.kind
        /\ \A s \in Rows : Live(ui'.list.rows, s) => Live(ui.list.rows, s)
    BY <2>3, <2>4, <2>5
  <2>7. Keeps(i, m)
    BY <1>3, <2>1
  <2>8. FallbackIsTold => FallbackIsTold'
    <3>1. ASSUME NEW k \in DOMAIN calls, Asked(k)
          PROVE  \E j \in DOMAIN calls' : Asked(j)'
      <4>1. k # i
        BY <2>1, <2>2, <3>1 DEF Asked
      <4>2. PICK j \in DOMAIN calls' : calls'[j].op = calls[k].op /\ calls'[j].row = calls[k].row
        BY <2>7, <4>1 DEF Keeps
      <4> QED BY <3>1, <4>2 DEF Asked
    <3> QED BY <2>5, <3>1 DEF FallbackIsTold
  <2>9. CallsAreStored'
    BY <1>1, <1>3, <2>1, StoredCallsStay
  <2>10. FormFollows'
    BY <1>1, <2>1, <2>5, <2>6, <2>7, <2>8, StoredFormStays DEF SaveTaken
  <2> QED BY <2>1, <2>9, <2>10 DEF SettingsInv
<1>7. ASSUME calls[i].op # "list", calls[i].state = "failed", calls' = RemoveAt(calls, i), Done,
             ui'.form = ui.form, ui'.list = ui.list, ui'.error
      PROVE  SettingsInv'
  <2>1. /\ Keeps(i, m) /\ Nothing(m)
        /\ \A j \in 1..m : calls'[j] = calls[Skip(i, j)]
    BY <1>2, <1>7, CallsAreAlike, OneCallGone
  <2>2. ~SaveTaken(i) /\ FallbackIsTold' /\ UNCHANGED <<page, db, untold>>
    BY <1>7 DEF SaveTaken, FallbackIsTold, Done
  <2>3. CallsAreStored'
    BY <1>1, <2>1, <2>2, StoredCallsStay
  <2>4. FormFollows'
    BY <1>1, <1>7, <2>1, <2>2, StoredFormStays
  <2> QED BY <2>3, <2>4 DEF SettingsInv
<1>8. CASE calls[i].op = "platform" /\ SaveFails(i)
  <2>1. /\ calls[i].state = "failed" /\ ui' = [ui EXCEPT !.error = TRUE, !.submitting = FALSE]
        /\ calls' = RemoveAt(calls, i) /\ Done
    BY <1>8 DEF SaveFails
  <2>2. ui'.form = ui.form /\ ui'.list = ui.list /\ ui'.error
    BY <1>1, <2>1 DEF UiSet
  <2> QED BY <1>7, <1>8, <2>1, <2>2
<1>9. CASE calls[i].op = "user" /\ ActFails(i)
  <2>1. calls[i].job # "bare"
    BY <1>1, <1>9, AnsweredCall DEF JobOf
  <2>2. /\ calls[i].state = "failed" /\ ui' = [ui EXCEPT !.error = TRUE]
        /\ calls' = RemoveAt(calls, i) /\ Done
    BY <1>9, <2>1 DEF ActFails
  <2>3. ui'.form = ui.form /\ ui'.list = ui.list /\ ui'.error
    BY <1>1, <2>2 DEF UiSet
  <2> QED BY <1>7, <1>9, <2>2, <2>3
<1> QED BY <1>4, <1>5, <1>6, <1>8, <1>9 DEF SettingsAnswer

LEMMA ServeKeepsSettings ==
  ASSUME WellTyped, CallsAreConsistent, OneSave, SettingsInv, page = "settings",
         NEW i \in DOMAIN calls, Serve(i), ServeMoves(i)
  PROVE  SettingsInv'
<1>1. /\ CallsAreStored /\ FormFollows /\ page' = page /\ ui' = ui
      /\ Platform \in Rows /\ Member \in Rows /\ Member # Platform
      /\ LocalUser \notin {Platform, Member}
  BY RowsAreNumbers, ScreenAssumption DEF SettingsInv, ServeMoves, Platform, Member, LocalUser
<1>2. /\ DOMAIN calls' = DOMAIN calls /\ calls[i].state = "sent"
      /\ \A j \in DOMAIN calls : /\ calls'[j].op = calls[j].op /\ calls'[j].row = calls[j].row
                                 /\ calls'[j].body = calls[j].body
                                 /\ calls'[j].passed = calls[j].passed
                                 /\ calls[j].state # "sent" =>
                                        calls'[j].state = calls[j].state /\ calls'[j].got = calls[j].got
      /\ \A j \in DOMAIN calls : j # i => calls'[j] = calls[j]
  BY ServedCalls
<1>3. AnswerPending => AnswerPending'
  BY <1>2 DEF AnswerPending, SaveTaken
<1>4. FallbackShown' = FallbackShown /\ FallbackIsTold' = FallbackIsTold
  BY <1>1, <1>2 DEF FallbackShown, FallbackIsTold, Asked
\* The platform settings are as they were.
<1>5. ASSUME UsersAreKnown', db'[Platform] = db[Platform], untold' = untold, ~SaveTaken(i)',
             calls[i].op = "list" /\ calls'[i].state = "ok" => calls'[i].got = db,
             calls[i].op = "user" /\ calls'[i].state = "ok" => calls[i].row # LocalUser
      PROVE  SettingsInv'
  <2>1. Stored' = Stored
    BY <1>5 DEF Stored
  <2>2. ASSUME NEW j \in DOMAIN calls
        PROVE  SettingCall(j)'
    <3>1. SettingCall(j)
      BY <1>1 DEF CallsAreStored
    <3>2. CASE j = i
      BY <1>2, <1>5, <3>1, <3>2 DEF SettingCall, SaveTaken
    <3>3. CASE j # i
      BY <1>2, <1>5, <2>1, <3>1, <3>3 DEF SettingCall
    <3> QED BY <3>2, <3>3
  <2>3. ASSUME NEW j \in DOMAIN calls, ~untold
        PROVE  ReadIsStored(j)'
    <3>1. ReadIsStored(j)
      BY <1>1, <2>3 DEF CallsAreStored
    <3>2. CASE j = i
      BY <1>2, <1>5, <2>1, <3>2 DEF ReadIsStored, Stored
    <3>3. CASE j # i
      BY <1>2, <1>3, <2>1, <3>1, <3>3 DEF ReadIsStored
    <3> QED BY <3>2, <3>3
  <2>4. CallsAreStored'
    BY <1>2, <1>5, <2>2, <2>3 DEF CallsAreStored
  <2>5. FormIsStored => FormIsStored'
    BY <1>1, <1>3, <1>4, <2>1 DEF FormIsStored
  <2>6. FormFollows'
    BY <1>1, <1>2, <1>5, <2>5 DEF FormFollows
  <2> QED BY <2>4, <2>6 DEF SettingsInv
\* They are changed by a call whose answer is to come, or nobody will tell.
<1>6. ASSUME UsersAreKnown', calls[i].op = "platform",
             \/ calls'[i].state = "ok" /\ Stored' = calls[i].body.tag
             \/ calls'[i].state = "failed" /\ untold'
      PROVE  SettingsInv'
  <2>1. untold' \/ AnswerPending'
    BY <1>2, <1>6 DEF AnswerPending, SaveTaken
  <2>2. ASSUME NEW j \in DOMAIN calls
        PROVE  SettingCall(j)'
    <3>1. SettingCall(j)
      BY <1>1 DEF CallsAreStored
    <3>2. CASE calls[j].op = "platform"
      <4>1. j = i
        <5>1. calls[i].job = "save" /\ calls[j].job = "save"
          BY <1>6, <3>2, AnsweredCall DEF JobOf
        <5> QED BY <5>1 DEF OneSave, Saves
      <4> QED BY <1>2, <1>6, <3>1, <4>1 DEF SettingCall
    <3>3. CASE calls[j].op # "platform"
      <4>1. j # i
        BY <1>6, <3>3
      <4> QED BY <1>2, <3>1, <3>3, <4>1 DEF SettingCall
    <3> QED BY <3>2, <3>3
  <2>3. \A j \in DOMAIN calls : ~untold' => ReadIsStored(j)'
    BY <2>1 DEF ReadIsStored
  <2>4. CallsAreStored'
    BY <1>2, <1>6, <2>2, <2>3 DEF CallsAreStored
  <2>5. ~untold' => FormIsStored'
    BY <2>1 DEF FormIsStored
  <2>6. FormFollows'
    BY <1>1, <1>2, <2>5 DEF FormFollows
  <2> QED BY <2>4, <2>6 DEF SettingsInv
<1>7. UsersAreKnown
  BY <1>1 DEF CallsAreStored
<1>8. CASE ServeList(i) \/ Refused(i)
  <2>1. db' = db /\ untold' = (untold \/ FALSE)
    BY <1>8 DEF ServeList, Refused, Settle
  <2>2. UsersAreKnown' /\ untold' = untold
    BY <1>7, <2>1 DEF UsersAreKnown, Live, WellTyped
  <2>3. CASE ServeList(i)
    <3>1. calls[i].op = "list"
      BY <2>3 DEF ServeList
    <3>2. calls'[i].state = "ok" => calls'[i].got = db
      BY <1>2, <3>1 DEF ServeMoves, Wrote, Read, Turned
    <3>3. ~SaveTaken(i)'
      BY <1>2, <3>1 DEF SaveTaken
    <3> QED BY <1>5, <2>1, <2>2, <3>1, <3>2, <3>3
  <2>4. CASE Refused(i)
    <3>1. calls' = [calls EXCEPT ![i].state = "failed", ![i].got = <<>>]
      BY <2>4 DEF Refused, Settle
    <3>2. calls'[i].state = "failed"
      BY <3>1, SettledCall
    <3>3. ~SaveTaken(i)'
      BY <3>2 DEF SaveTaken
    <3> QED BY <1>5, <2>1, <2>2, <3>2, <3>3
  <2> QED BY <1>8, <2>3, <2>4
<1>9. CASE ServeSetting(i)
  <2>1. /\ calls[i].op \in {"platform", "user"} /\ Live(db, calls[i].row)
        /\ ServeWrite(i, Tagged(calls[i].row, calls[i].body.tag))
    BY <1>9 DEF ServeSetting
  <2>2. calls[i].row \in Rows /\ calls[i].body.tag \in Tags
    BY <2>1, AnsweredCall DEF Consistent, FormSet
  <2>3. /\ db' = Tagged(calls[i].row, calls[i].body.tag)
        /\ (calls'[i].state = "ok" /\ untold' = untold) \/ (calls'[i].state = "failed" /\ untold')
    <3>1. db' = Tagged(calls[i].row, calls[i].body.tag)
      BY <2>1 DEF ServeWrite, Settle
    <3>2. ASSUME NEW state, NEW doubt \in BOOLEAN,
                 Settle(i, state, <<>>, Tagged(calls[i].row, calls[i].body.tag), doubt)
          PROVE  calls'[i].state = state /\ untold' = (untold \/ doubt)
      <4>1. calls' = [calls EXCEPT ![i].state = state, ![i].got = <<>>]
        BY <3>2 DEF Settle
      <4>2. calls'[i].state = state
        BY <4>1, SettledCall
      <4> QED BY <3>2, <4>2 DEF Settle
    <3>3. untold \in BOOLEAN
      BY DEF WellTyped
    <3> QED BY <2>1, <3>1, <3>2, <3>3 DEF ServeWrite
  <2>4. \A r \in Rows : /\ db'[r].tag = IF r = calls[i].row THEN calls[i].body.tag ELSE db[r].tag
                        /\ db'[r].is = db[r].is /\ (r # calls[i].row => db'[r] = db[r])
    <3>1. \A r \in Rows : r # calls[i].row => Tagged(calls[i].row, calls[i].body.tag)[r] = db[r]
      BY DEF Tagged, WellTyped, TableSet
    <3> QED BY <2>2, <2>3, <3>1, TaggedTable
  <2>5. UsersAreKnown'
    BY <1>7, <2>4 DEF UsersAreKnown, Live
  <2>6. CASE calls[i].op = "platform"
    <3>1. calls[i].row = Platform
      BY <1>1, <2>6 DEF CallsAreStored, SettingCall
    <3>2. Stored' = calls[i].body.tag
      BY <1>1, <2>4, <3>1 DEF Stored
    <3> QED BY <1>6, <2>3, <2>5, <2>6, <3>2
  <2>7. CASE calls[i].op = "user"
    <3>1. calls[i].row # Platform /\ calls[i].row # LocalUser
      <4>1. calls[i].row # Platform
        BY <1>1, <2>7 DEF CallsAreStored, SettingCall
      <4> QED BY <1>1, <1>7, <2>1, <2>2, <4>1 DEF UsersAreKnown
    <3>2. db'[Platform] = db[Platform] /\ Stored' = Stored
      BY <1>1, <2>4, <3>1 DEF Stored
    <3>3. CASE untold' = untold
      <4>1. ~SaveTaken(i)'
        BY <1>2, <2>7 DEF SaveTaken
      <4> QED BY <1>5, <2>5, <2>7, <3>1, <3>2, <3>3, <4>1
    <3>4. CASE untold'
      <4>1. ASSUME NEW j \in DOMAIN calls
            PROVE  SettingCall(j)'
        <5>1. SettingCall(j)
          BY <1>1 DEF CallsAreStored
        <5>2. calls'[j].op = calls[j].op /\ calls'[j].row = calls[j].row
              /\ (calls'[j].state = calls[j].state \/ j = i)
          BY <1>2
        <5> QED BY <2>7, <3>1, <3>4, <5>1, <5>2 DEF SettingCall
      <4>2. CallsAreStored'
        BY <1>2, <2>5, <3>4, <4>1 DEF CallsAreStored
      <4>3. FormFollows'
        BY <1>1, <1>2, <3>4 DEF FormFollows
      <4> QED BY <4>2, <4>3 DEF SettingsInv
    <3> QED BY <2>3, <3>3, <3>4
  <2> QED BY <2>1, <2>6, <2>7
<1> QED BY <1>8, <1>9 DEF Serve, CrudPageNames

LEMMA OthersKeepSettings ==
  ASSUME WellTyped, SettingsInv, page = "settings", Others, OthersMove
  PROVE  SettingsInv'
<1>1. CallsAreStored /\ FormFollows /\ UNCHANGED <<page, ui, calls>> /\ untold'
  BY DEF SettingsInv, OthersMove
<1>2. OtherWrite(Platform, "typed")
  BY DEF Others, AdministratorSaves, CrudPageNames
<1>3. \A r \in Rows : db'[r].is = db[r].is
  <2>1. Platform \in Rows /\ "typed" \in Tags
    BY TagsOf, RowsAreNumbers DEF Platform
  <2> QED BY <1>2, <2>1, TaggedTable DEF OtherWrite
<1>4. UsersAreKnown'
  BY <1>1, <1>3 DEF CallsAreStored, UsersAreKnown, Live
<1>5. CallsAreStored'
  BY <1>1, <1>4 DEF CallsAreStored, SettingCall
<1>6. FormFollows'
  BY <1>1 DEF FormFollows
<1> QED BY <1>5, <1>6 DEF SettingsInv

LEMMA InitKeepsSettings == Init => SettingsInv
<1> SUFFICES ASSUME Init, page = "settings"
             PROVE  SettingsInv
  BY DEF SettingsInv
<1>1. Mounted("settings", SettingsRows, NoFilter)
  BY DEF Init, DonationsMount, CrudMount, ReceiptsMount, CardsMount, CampaignsMount, InternsMount,
         SettingsMount, MembersMount, RecordsMount, ProjectsMount, DesignationsMount, Mounted,
         CrudPageNames
<1>2. calls = <<List(NoFilter, "view")>> /\ ui.form = NoForm /\ db = SettingsRows
  BY <1>1 DEF Mounted
<1>3. /\ 1 \in DOMAIN calls
      /\ \A j \in DOMAIN calls : calls[j].op = "list" /\ calls[j].state = "sent"
  BY <1>2 DEF List
<1>4. UsersAreKnown
  BY <1>2 DEF UsersAreKnown, Live, SettingsRows, Row
<1>5. CallsAreStored
  BY <1>3, <1>4 DEF CallsAreStored, SettingCall, ReadIsStored
<1>6. FormFollows
  BY <1>2, <1>3 DEF FormFollows
<1> QED BY <1>5, <1>6 DEF SettingsInv

LEMMA NextKeepsSettings ==
  ASSUME Sound, SettingsInv, [Next]_screenVars
  PROVE  SettingsInv'
<1>1. WellTyped /\ CallsAreConsistent /\ OneSave
  BY DEF Sound
<1>2. CASE page # "settings"
  BY <1>2, PageStays DEF SettingsInv
<1>3. CASE page = "settings"
  <2>1. CASE User
    <3>1. SettingsUser
      BY <1>3, <2>1 DEF User, CrudPageNames
    <3> QED BY <1>1, <1>3, <3>1, UserKeepsSettings
  <2>2. ASSUME NEW i \in DOMAIN calls, ShowAnswer(i)
        PROVE  SettingsInv'
    <3>1. SettingsAnswer(i)
      BY <1>3, <2>2 DEF ShowAnswer, CrudPageNames
    <3> QED BY <1>1, <1>3, <3>1, AnswerKeepsSettings
  <2>3. ASSUME NEW i \in DOMAIN calls, Serve(i)
        PROVE  SettingsInv'
    BY <1>1, <1>3, <2>3, ServeIsSound, ServeKeepsSettings
  <2>4. CASE Others
    BY <1>1, <1>3, <2>4, OthersAreSound, OthersKeepSettings
  <2>5. CASE UNCHANGED screenVars
    BY <1>3, <2>5
       DEF screenVars, SettingsInv, CallsAreStored, UsersAreKnown, SettingCall, ReadIsStored, Stored,
           AnswerPending, SaveTaken, FormFollows, FormIsStored, FallbackShown, FallbackIsTold, Asked, Live
  <2> QED BY <2>1, <2>2, <2>3, <2>4, <2>5 DEF Next
<1> QED BY <1>2, <1>3

\* At rest and without an error the platform form that nobody typed into shows
\* what is stored, unless its load was in flight when a save or a later load was
\* answered, an answer was lost, or another administrator saved.
THEOREM SettingsAreStored == Spec => []ShownSettingsAreStored
<1>1. Sound /\ SettingsInv /\ [Next]_screenVars => SettingsInv'
  BY NextKeepsSettings
<1>2. SettingsInv => ShownSettingsAreStored
  <2> SUFFICES ASSUME SettingsInv, page = "settings", calls = <<>>, ~ui.error, ~untold,
                      ui.list.kind # "late", ui.form.tag = ui.form.base
               PROVE  ui.form.tag = db[Platform].tag
    BY DEF ShownSettingsAreStored
  <2>1. DOMAIN calls = {}
    OBVIOUS
  <2>2. FormIsStored
    BY <2>1 DEF SettingsInv, FormFollows
  <2>3. ~AnswerPending /\ ~(FallbackShown /\ FallbackIsTold)
    BY <2>1 DEF AnswerPending, FallbackShown, FallbackIsTold
  <2> QED BY <2>2, <2>3 DEF FormIsStored, Stored
<1> QED BY DashboardIsSound, InitKeepsSettings, <1>1, <1>2, PTL DEF Spec
=============================================================================
