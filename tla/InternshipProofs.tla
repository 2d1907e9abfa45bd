-------------------------- MODULE InternshipProofs --------------------------
(***************************************************************************)
(* Proofs about Internships for every set of requests, applications, years *)
(* and payloads.  The counters are proved about in ReceiptCounterProofs;   *)
(* what is needed of them is carried over (Counted).                       *)
(***************************************************************************)
EXTENDS Internships, TLAPS

NumberProofs == INSTANCE ReceiptCounterProofs WITH Keys <- Series, Start <- Starts

-----------------------------------------------------------------------------
(***************************************************************************)
(* The counters inside the requests                                        *)
(***************************************************************************)
LEMMA SeriesAreNotEmpty == Series # {}
<1>1. PICK y \in Years : TRUE
  BY SomeYear
<1>2. [kind |-> "registration", year |-> y] \in Series
  BY <1>1 DEF Series
<1>3. QED
  BY <1>2

LEMMA CounterAssumptions ==
  /\ NumberProofs!KeysAssumption /\ NumberProofs!StartAssumption
  /\ NumberProofs!MaxGrantedAssumption /\ NumberProofs!NobodyAssumption
BY SeriesAreNotEmpty, NobodyIsNoRequest, MaxGrantedIsNatural
   DEF Starts, NumberProofs!KeysAssumption, NumberProofs!StartAssumption,
       NumberProofs!MaxGrantedAssumption, NumberProofs!NobodyAssumption

\* A request asks for a number in a series that exists.
LEMMA KindIsSeries ==
  ASSUME NEW op, NEW y \in Years
  PROVE  [kind |-> Kind(op), year |-> y] \in Series
BY DEF Kind, Series

LEMMA UndoOfCounter ==
  ASSUME NEW r \in Requests, Undo(r)
  PROVE  [Numbers!Next]_counterVars
BY DEF Undo, Numbers!Next

\* What the requests do to the counters, their own specification allows.
LEMMA StepOfCounter == [Next]_vars => [Numbers!Next]_counterVars
<1> SUFFICES ASSUME [Next]_vars PROVE [Numbers!Next]_counterVars
  OBVIOUS
<1>1. ASSUME NEW r \in Requests, Begin(r) PROVE UNCHANGED counterVars
  BY <1>1 DEF Begin, StartRegister, StartUpdate, Load
<1>2. ASSUME NEW r \in Requests, Handle(r) PROVE [Numbers!Next]_counterVars
  <2>1. CASE AllocateCounter(r)
    <3>1. \/ \E k \in Series : Numbers!LockAndIncrement(r, k) \/ Numbers!FindNoRow(r, k)
          \/ Numbers!InsertRow(r)
      BY <2>1, KindIsSeries DEF AllocateCounter
    <3>2. QED
      BY <3>1 DEF Numbers!Next, Numbers!Allocate
  <2>2. CASE AllocationConflict(r)
    BY <2>2 DEF AllocationConflict, Numbers!Next, Numbers!Allocate
  <2>3. CASE RowVanished(r) \/ CertificateConflict(r)
    BY <2>3, UndoOfCounter DEF RowVanished, CertificateConflict
  <2>4. CASE CreateApplication(r) \/ UpdateApplication(r) \/ DeleteApplication(r)
    BY <2>4 DEF CreateApplication, UpdateApplication, DeleteApplication, LockRow
  <2>5. CASE \/ ReturnExisting(r) \/ RefuseCertificate(r) \/ BeginCertificate(r)
             \/ IssueCertificate(r)
    BY <2>5 DEF ReturnExisting, RefuseCertificate, BeginCertificate,
                IssueCertificate, LockRow
  <2>6. QED
    BY <1>2, <2>1, <2>2, <2>3, <2>4, <2>5 DEF Handle
<1>3. ASSUME NEW r \in Requests, Commit(r) PROVE [Numbers!Next]_counterVars
  BY <1>3 DEF Commit, CommitRegister, CommitUpdate, CommitIssue, CommitDelete,
              Numbers!Next
<1>4. ASSUME NEW r \in Requests, Rollback(r) PROVE [Numbers!Next]_counterVars
  BY <1>4, UndoOfCounter DEF Rollback
<1>5. ASSUME NEW r \in Requests, Answer(r) PROVE UNCHANGED counterVars
  BY <1>5 DEF Answer
<1>6. CASE UNCHANGED vars
  BY <1>6 DEF vars, counterVars
<1>7. QED
  BY <1>1, <1>2, <1>3, <1>4, <1>5, <1>6 DEF Next

Counted == Numbers!TypeOK /\ Numbers!LockGuardsNumber /\ Numbers!GapFree

\* The definitions of the counter mean the same in both instances.
LEMMA CountedMeans == Counted <=> NumberProofs!CounterInv
BY DEF Counted, NumberProofs!CounterInv,
       Numbers!TypeOK, NumberProofs!TypeOK, Numbers!Stages, NumberProofs!Stages,
       Numbers!LockGuardsNumber, NumberProofs!LockGuardsNumber,
       Numbers!GapFree, NumberProofs!GapFree

LEMMA CountedInit == Init => Counted
BY CountedMeans, CounterAssumptions, NumberProofs!CounterInvInit
   DEF Init, Numbers!Init, NumberProofs!Init

LEMMA CountedStep == Counted /\ [Next]_vars => Counted'
<1>1. NumberProofs!TypeOK /\ [NumberProofs!Next]_(NumberProofs!counterVars)
      => NumberProofs!TypeOK'
  BY NumberProofs!TypeStep, CounterAssumptions
<1>2. NumberProofs!CounterInv /\ NumberProofs!TypeOK'
      /\ [NumberProofs!Next]_(NumberProofs!counterVars)
      => NumberProofs!CounterInv'
  BY NumberProofs!CounterInvStep, CounterAssumptions
<1>3. NumberProofs!CounterInv' => Counted'
  BY DEF Counted, NumberProofs!CounterInv,
         Numbers!TypeOK, NumberProofs!TypeOK, Numbers!Stages, NumberProofs!Stages,
         Numbers!LockGuardsNumber, NumberProofs!LockGuardsNumber,
         Numbers!GapFree, NumberProofs!GapFree
<1>4. [Numbers!Next]_counterVars => [NumberProofs!Next]_(NumberProofs!counterVars)
  BY DEF counterVars, NumberProofs!counterVars,
         Numbers!Next, NumberProofs!Next,
         Numbers!Allocate, NumberProofs!Allocate,
         Numbers!LockAndIncrement, NumberProofs!LockAndIncrement,
         Numbers!FindNoRow, NumberProofs!FindNoRow,
         Numbers!InsertRow, NumberProofs!InsertRow,
         Numbers!InsertConflict, NumberProofs!InsertConflict,
         Numbers!CommitNumber, NumberProofs!CommitNumber,
         Numbers!RollbackNumber, NumberProofs!RollbackNumber,
         Numbers!Take, NumberProofs!Take, Numbers!Free, NumberProofs!Free
<1>5. NumberProofs!CounterInv => NumberProofs!TypeOK
  BY DEF NumberProofs!CounterInv
<1>6. QED
  BY <1>1, <1>2, <1>3, <1>4, <1>5, CountedMeans, StepOfCounter

-----------------------------------------------------------------------------
(***************************************************************************)
(* Types                                                                   *)
(***************************************************************************)
LEMMA NothingTypes ==
  /\ NoNumber \in Number /\ NoApplication \in Application
  /\ NoCertificate \in Certificate /\ NoTxn \in Txn
<1>1. /\ (CHOOSE y \in Years : TRUE) \in Years
      /\ (CHOOSE n \in Names : TRUE) \in Names
      /\ (CHOOSE a \in Applications : TRUE) \in Applications
  BY SomeYear, SomeName, SomeApplication
<1>2. NoNumber \in Number
  BY <1>1 DEF NoNumber, Number
<1>3. NoApplication \in Application
  BY <1>1, <1>2 DEF NoApplication, Application, Statuses
<1>4. NoCertificate \in Certificate
  BY <1>1, <1>2 DEF NoCertificate, Certificate
<1>5. QED
  BY <1>1, <1>2, <1>3, <1>4 DEF NoTxn, Txn

LEMMA HeldType ==
  ASSUME TypeOK, NEW r \in Requests PROVE Held(r) \in Number
BY DEF TypeOK, Numbers!TypeOK, Series, Held, Number

LEMMA AfterType ==
  ASSUME NEW was \in Application, NEW now \in Application, NEW new \in Application
  PROVE  After(was, now, new) \in Application
BY DEF Application, After, Column

LEMMA CompletedType ==
  ASSUME TypeOK, NEW r \in Requests PROVE Completed(r) \in Application
<1>1. txn[r].seen \in Application /\ app[txn[r].app] \in Application
  BY DEF TypeOK, Txn
<1>2. [txn[r].seen EXCEPT !.status = "completed", !.certificate = Held(r)]
      \in Application
  BY <1>1, HeldType DEF Application, Statuses
<1>3. QED
  BY <1>1, <1>2, AfterType DEF Completed

LEMMA TypeInit == Init => TypeOK
<1> SUFFICES ASSUME Init PROVE TypeOK
  OBVIOUS
<1>1. Numbers!TypeOK
  BY CountedInit DEF Counted
<1>2. QED
  BY <1>1, NothingTypes DEF Init, TypeOK, AnswersOK

\* TypeOK but for AnswersOK.
RowTypes ==
    /\ life \in [Applications -> {"unborn", "stored", "deleted"}]
    /\ app \in [Applications -> Application]
    /\ cert \in [Applications -> Certificate]
    /\ lock \in [Applications -> Requests \cup {Nobody}]
    /\ txn \in [Requests -> Txn]
    /\ Numbers!TypeOK
    /\ earned \subseteq Applications
    /\ shown \subseteq [app : Applications, cert : Certificate]

LEMMA UndoTypes ==
  ASSUME TypeOK, NEW r \in Requests, Undo(r), Numbers!TypeOK'
  PROVE  RowTypes'
<1>1. txn' \in [Requests -> Txn]
  BY NothingTypes DEF Undo, Finish, TypeOK
<1>2. lock' \in [Applications -> Requests \cup {Nobody}]
  BY DEF Undo, Unlocked, TypeOK
<1>3. QED
  BY <1>1, <1>2 DEF Undo, TypeOK, RowTypes

LEMMA LoadTypes ==
  ASSUME TypeOK, NEW r \in Requests, NEW a \in Applications,
         NEW op \in {"update", "issue", "delete"}, NEW edit \in Application,
         Load(r, a, op, edit), Numbers!TypeOK'
  PROVE  RowTypes'
<1>1. [NoTxn EXCEPT !.op = op, !.phase = "loaded", !.app = a, !.seen = app[a],
                    !.draft = edit] \in Txn
  BY NothingTypes DEF TypeOK, Txn
<1>2. txn' \in [Requests -> Txn]
  BY <1>1 DEF Load, TypeOK
<1>3. QED
  BY <1>2 DEF Load, TypeOK, RowTypes, answerVars

LEMMA BeginTypes ==
  ASSUME TypeOK, NEW r \in Requests, Begin(r), Numbers!TypeOK'
  PROVE  RowTypes'
<1>1. PICK a \in Applications :
          \/ StartRegister(r, a) \/ StartUpdate(r, a)
          \/ \E op \in {"issue", "delete"} : Load(r, a, op, app[a])
  BY DEF Begin
<1>2. app[a] \in Application
  BY DEF TypeOK
<1>3. CASE StartRegister(r, a)
  <2>1. PICK p \in Drafts :
            txn' = [txn EXCEPT ![r] = [NoTxn EXCEPT
                      !.phase = "allocating", !.app = a,
                      !.draft = [NoApplication EXCEPT !.name = p.name,
                                                      !.status = p.status]]]
    BY <1>3 DEF StartRegister
  <2>2. [NoApplication EXCEPT !.name = p.name, !.status = p.status] \in Application
    BY DraftsAreComplete, NothingTypes DEF Application
  <2>3. txn' \in [Requests -> Txn]
    BY <2>1, <2>2, NothingTypes DEF TypeOK, Txn
  <2>4. QED
    BY <1>3, <2>3 DEF StartRegister, TypeOK, RowTypes, answerVars
<1>4. CASE StartUpdate(r, a)
  <2>1. PICK p \in Patches :
            Load(r, a, "update", [app[a] EXCEPT !.name = Given(p.name, @),
                                                !.status = Given(p.status, @)])
    BY <1>4 DEF StartUpdate
  <2>2. [app[a] EXCEPT !.name = Given(p.name, @), !.status = Given(p.status, @)]
        \in Application
    BY <1>2, PatchesArePayloads DEF Application, Given
  <2>3. QED
    BY <2>1, <2>2, LoadTypes
<1>5. CASE \E op \in {"issue", "delete"} : Load(r, a, op, app[a])
  BY <1>2, <1>5, LoadTypes
<1>6. QED
  BY <1>1, <1>3, <1>4, <1>5

LEMMA HandleTypes ==
  ASSUME TypeOK, NEW r \in Requests, Handle(r), Numbers!TypeOK'
  PROVE  RowTypes'
<1>1. txn \in [Requests -> Txn] /\ txn[r] \in Txn /\ Held(r) \in Number
  BY HeldType DEF TypeOK
<1>2. CASE AllocateCounter(r)
  BY <1>2 DEF AllocateCounter, TypeOK, RowTypes, answerVars
<1>3. CASE AllocationConflict(r) \/ RefuseCertificate(r)
  BY <1>1, <1>3, NothingTypes
     DEF AllocationConflict, RefuseCertificate, Finish, TypeOK, RowTypes, answerVars
<1>4. CASE RowVanished(r) \/ CertificateConflict(r)
  BY <1>4, UndoTypes DEF RowVanished, CertificateConflict
<1>5. CASE ReturnExisting(r)
  <2>1. [app |-> txn[r].app, cert |-> cert[txn[r].app]]
        \in [app : Applications, cert : Certificate]
    BY <1>1 DEF TypeOK, Txn
  <2>2. QED
    BY <1>1, <1>5, <2>1, NothingTypes DEF ReturnExisting, Finish, TypeOK, RowTypes
<1>6. CASE CreateApplication(r)
  <2>1. [txn[r].draft EXCEPT !.number = Held(r)] \in Application
    BY <1>1 DEF Txn, Application
  <2>2. txn' = [txn EXCEPT ![r].phase = "flushed",
                           ![r].draft = [@ EXCEPT !.number = Held(r)]]
    BY <1>1, <1>6 DEF CreateApplication
  <2>3. txn' \in [Requests -> Txn]
    BY <1>1, <2>1, <2>2 DEF Txn
  <2>4. QED
    BY <1>6, <2>3 DEF CreateApplication, TypeOK, RowTypes, answerVars
<1>7. CASE UpdateApplication(r) \/ DeleteApplication(r) \/ IssueCertificate(r)
  <2>1. lock' \in [Applications -> Requests \cup {Nobody}]
    BY <1>1, <1>7
       DEF UpdateApplication, DeleteApplication, IssueCertificate, LockRow, TypeOK
  <2>2. After(txn[r].seen, app[txn[r].app], txn[r].draft) \in Application
    BY <1>1, AfterType DEF Txn, TypeOK
  <2>3. Completed(r) \in Application
    BY CompletedType
  <2>4. [number |-> Held(r), name |-> Completed(r).name] \in Certificate
    BY <1>1, <2>3 DEF Certificate, Application
  <2>5. txn' \in [Requests -> Txn]
    BY <1>1, <1>7, <2>2, <2>3, <2>4, NothingTypes
       DEF UpdateApplication, DeleteApplication, IssueCertificate, Txn
  <2>6. QED
    BY <1>7, <2>1, <2>5
       DEF UpdateApplication, DeleteApplication, IssueCertificate, LockRow, TypeOK,
           RowTypes, answerVars
<1>8. CASE BeginCertificate(r)
  <2>1. txn' \in [Requests -> Txn]
    BY <1>1, <1>8 DEF BeginCertificate, Txn
  <2>2. QED
    BY <1>8, <2>1 DEF BeginCertificate, TypeOK, RowTypes, answerVars
<1>9. QED
  BY <1>2, <1>3, <1>4, <1>5, <1>6, <1>7, <1>8 DEF Handle

LEMMA CommitTypes ==
  ASSUME TypeOK, NEW r \in Requests, Commit(r), Numbers!TypeOK'
  PROVE  RowTypes'
<1>1. txn[r] \in Txn
  BY DEF TypeOK
<1>2. /\ txn[r].app \in Applications /\ txn[r].draft \in Application
      /\ txn[r].cert \in Certificate
  BY <1>1 DEF Txn
<1>3. /\ txn' \in [Requests -> Txn]
      /\ lock' \in [Applications -> Requests \cup {Nobody}]
  BY NothingTypes DEF Commit, Finish, Unlocked, TypeOK
<1>4. CASE CommitRegister(r) \/ CommitUpdate(r)
  BY <1>2, <1>3, <1>4
     DEF Commit, CommitRegister, CommitUpdate, Earn, TypeOK, RowTypes
<1>5. CASE CommitIssue(r)
  BY <1>2, <1>3, <1>5 DEF Commit, CommitIssue, TypeOK, RowTypes
<1>6. CASE CommitDelete(r)
  BY <1>2, <1>3, <1>6, NothingTypes DEF Commit, CommitDelete, TypeOK, RowTypes
<1>7. QED
  BY <1>4, <1>5, <1>6 DEF Commit

LEMMA AnswerTypes ==
  ASSUME TypeOK, NEW r \in Requests, Answer(r), Numbers!TypeOK'
  PROVE  RowTypes' /\ AnswersOK'
<1>1. txn[r].phase = "flushed" /\ replied' = replied \cup {r} /\ txn' = txn
  BY DEF Answer
<1>2. Issued(r) \in [app : Applications, cert : Certificate]
  BY DEF TypeOK, Txn, Issued
<1>3. \/ shown' = shown \cup {Issued(r)} /\ unbacked' = unbacked \cup {Issued(r)}
      \/ shown' = shown /\ unbacked' = unbacked
  BY DEF Answer
<1>4. AnswersOK'
  BY <1>1, <1>3 DEF TypeOK, AnswersOK
<1>5. QED
  BY <1>2, <1>3, <1>4 DEF Answer, TypeOK, RowTypes

\* A step of a request that answers nothing and has not been answered, or whose
\* answer is settled.
LEMMA AnswersKept ==
  ASSUME AnswersOK, NEW r \in Requests,
         \A q \in Requests \ {r} : txn'[q] = txn[q],
         replied' \subseteq replied, r \notin replied',
         shown \subseteq shown', unbacked' \subseteq unbacked
  PROVE  AnswersOK'
BY DEF AnswersOK

\* Before a request has written, its steps touch no answer that was sent.
LEMMA UnansweredStep ==
  ASSUME TypeOK, NEW r \in Requests, txn[r].phase # "flushed",
         \A q \in Requests \ {r} : txn'[q] = txn[q],
         UNCHANGED <<replied, unbacked>>, shown \subseteq shown'
  PROVE  AnswersOK'
<1>1. AnswersOK /\ r \notin replied
  BY DEF TypeOK, AnswersOK
<1>2. QED
  BY <1>1, AnswersKept

LEMMA UndoneAnswer ==
  ASSUME TypeOK, NEW r \in Requests, Undo(r)
  PROVE  AnswersOK'
<1>1. \A q \in Requests \ {r} : txn'[q] = txn[q]
  BY DEF Undo, Finish, TypeOK
<1>2. QED
  BY <1>1, AnswersKept DEF Undo, TypeOK

LEMMA CommittedAnswer ==
  ASSUME TypeOK, NEW r \in Requests, Commit(r)
  PROVE  AnswersOK'
<1>1. \A q \in Requests \ {r} : txn'[q] = txn[q]
  BY DEF Commit, Finish, TypeOK
<1>2. unbacked' \subseteq unbacked
  BY DEF Commit, CommitRegister, CommitUpdate, CommitIssue, CommitDelete
<1>3. QED
  BY <1>1, <1>2, AnswersKept DEF Commit, TypeOK

LEMMA BeginAnswers ==
  ASSUME TypeOK, NEW r \in Requests, Begin(r)
  PROVE  AnswersOK'
<1>1. /\ txn[r].phase = "idle" /\ UNCHANGED <<replied, unbacked, shown>>
      /\ \A q \in Requests \ {r} : txn'[q] = txn[q]
  BY DEF Begin, StartRegister, StartUpdate, Load, Idle, answerVars, TypeOK
<1>2. QED
  BY <1>1, UnansweredStep

LEMMA HandleAnswers ==
  ASSUME TypeOK, Counted, NEW r \in Requests, Handle(r)
  PROVE  AnswersOK'
<1> USE DEF TypeOK, answerVars
<1>1. CASE RowVanished(r) \/ CertificateConflict(r)
  BY <1>1, UndoneAnswer DEF RowVanished, CertificateConflict
<1>2. CASE AllocateCounter(r)
  BY <1>2 DEF AllocateCounter, AnswersOK
<1>3. CASE AllocationConflict(r) \/ RefuseCertificate(r) \/ ReturnExisting(r)
  <2>1. /\ txn[r].phase # "flushed" /\ UNCHANGED <<replied, unbacked>>
        /\ shown \subseteq shown'
        /\ \A q \in Requests \ {r} : txn'[q] = txn[q]
    BY <1>3 DEF AllocationConflict, RefuseCertificate, ReturnExisting, At, Finish
  <2>2. QED
    BY <2>1, UnansweredStep
<1>4. CASE CreateApplication(r) \/ BeginCertificate(r)
  <2>1. /\ txn[r].phase # "flushed" /\ UNCHANGED <<replied, unbacked, shown>>
        /\ \A q \in Requests \ {r} : txn'[q] = txn[q]
    BY <1>4 DEF CreateApplication, BeginCertificate, At
  <2>2. QED
    BY <2>1, UnansweredStep
<1>5. CASE UpdateApplication(r) \/ DeleteApplication(r) \/ IssueCertificate(r)
  <2>1. /\ txn[r].phase # "flushed" /\ UNCHANGED <<replied, unbacked, shown>>
        /\ \A q \in Requests \ {r} : txn'[q] = txn[q]
    BY <1>5 DEF UpdateApplication, DeleteApplication, IssueCertificate, LockRow, At
  <2>2. QED
    BY <2>1, UnansweredStep
<1>6. QED
  BY <1>1, <1>2, <1>3, <1>4, <1>5 DEF Handle

LEMMA TypeStep == TypeOK /\ Counted /\ [Next]_vars => TypeOK'
<1> SUFFICES ASSUME TypeOK, Counted, [Next]_vars PROVE TypeOK'
  OBVIOUS
<1>1. Numbers!TypeOK'
  BY CountedStep DEF Counted
<1>2. RowTypes' /\ AnswersOK' => TypeOK'
  BY DEF RowTypes, TypeOK
<1>3. ASSUME NEW r \in Requests, Begin(r) PROVE RowTypes' /\ AnswersOK'
  BY <1>1, <1>3, BeginTypes, BeginAnswers
<1>4. ASSUME NEW r \in Requests, Handle(r) PROVE RowTypes' /\ AnswersOK'
  BY <1>1, <1>4, HandleTypes, HandleAnswers
<1>5. ASSUME NEW r \in Requests, Commit(r) PROVE RowTypes' /\ AnswersOK'
  BY <1>1, <1>5, CommitTypes, CommittedAnswer
<1>6. ASSUME NEW r \in Requests, Rollback(r) PROVE RowTypes' /\ AnswersOK'
  BY <1>1, <1>6, UndoTypes, UndoneAnswer DEF Rollback
<1>7. CASE UNCHANGED vars
  BY <1>1, <1>7 DEF vars, answerVars, TypeOK, AnswersOK
<1>8. QED
  BY <1>1, <1>2, <1>3, <1>4, <1>5, <1>6, <1>7, AnswerTypes DEF Next

\* Rows, certificates and open requests keep their types in every behaviour.
THEOREM InternshipTypes == Spec => []TypeOK
<1>1. Init => TypeOK /\ Counted
  BY TypeInit, CountedInit
<1>2. TypeOK /\ Counted /\ [Next]_vars => (TypeOK /\ Counted)'
  BY TypeStep, CountedStep
<1>3. QED
  BY <1>1, <1>2, PTL DEF Spec

-----------------------------------------------------------------------------
(***************************************************************************)
(* What open requests know, and what the tables say                        *)
(***************************************************************************)
\* The part of the invariant that is about one request alone ...
Knows(r) ==
    LET t == txn[r] IN
    /\ ~Idle(r) => IF t.op = "register"
                   THEN /\ life[t.app] = "unborn" /\ t.phase # "loaded"
                        /\ t.draft.certificate = NoNumber
                   ELSE life[t.app] # "unborn"
    /\ stage[r] # "none" => /\ t.phase \in {"allocating", "flushed"}
                            /\ t.op \in {"register", "issue"}
                            /\ key[r].kind = Kind(t.op)
    /\ t.phase = "allocating" => t.op \in {"register", "issue"}
    /\ Flushed(r, "register") => stage[r] = "held" /\ t.draft.number = Held(r)
    /\ Flushed(r, "issue") => stage[r] = "held" /\ t.cert.number = Held(r)
    /\ Changing(r) =>
           /\ t.phase = "flushed" => lock[t.app] = r /\ life[t.app] = "stored"
           /\ t.seen.status \in Eligible \/ t.phase = "allocating" \/ Flushed(r, "issue")
                  => t.app \in earned
           /\ life[t.app] = "stored" /\ t.seen.certificate # NoNumber
                  => t.seen.certificate = app[t.app].certificate
           /\ At(r, "update", "loaded") => t.draft.certificate = t.seen.certificate
           /\ Flushed(r, "update") => /\ t.draft.number = app[t.app].number
                                      /\ t.draft.certificate = app[t.app].certificate
           /\ Flushed(r, "issue") => /\ cert[t.app] = NoCertificate
                                     /\ t.draft.number = app[t.app].number
                                     /\ t.draft.certificate = t.cert.number
                                     /\ t.draft.name = app[t.app].name
                                     /\ t.cert.name = app[t.app].name
    /\ r \in replied /\ t.op = "issue" => Issued(r) \in shown

\* ... about the locks and the registrations in progress ...
Exclusive ==
    /\ \A a \in Applications : lock[a] # Nobody =>
           /\ txn[lock[a]].op # "register" /\ txn[lock[a]].phase = "flushed"
           /\ txn[lock[a]].app = a
    /\ \A q, r \in Requests :
           /\ txn[q].phase # "idle" /\ txn[r].phase # "idle"
           /\ txn[r].op = "register" /\ txn[q].app = txn[r].app
           => q = r

\* ... and about the tables.
Tables ==
    /\ CertificatesAreShown /\ EligibleIsEarned
    /\ CertificateLinked /\ ShownStaysValid
    /\ CertificateEarned /\ NumbersOfTheirKind

Sound == Tables /\ Exclusive /\ \A r \in Requests : Knows(r)

LEMMA SoundMeansOpenRequestsAreSound == TypeOK /\ Sound => OpenRequestsAreSound
<1> SUFFICES ASSUME TypeOK, Sound PROVE OpenRequestsAreSound
  OBVIOUS
<1>1. LocksAreHeld
  BY DEF Sound, Exclusive, Knows, LocksAreHeld, Changing, Idle
<1>2. RegisteredOnce
  BY DEF Sound, Exclusive, Knows, RegisteredOnce, Idle
<1>3. NumbersAreHeld
  BY DEF Sound, Knows, NumbersAreHeld
<1>4. SeenIsPast
  BY DEF Sound, Knows, SeenIsPast
<1>5. DraftsAreSound
  BY DEF Sound, Knows, DraftsAreSound
<1>6. AnswersAreShown
  BY DEF Sound, Knows, AnswersAreShown, TypeOK, AnswersOK
<1>7. QED
  BY <1>1, <1>2, <1>3, <1>4, <1>5, <1>6 DEF Sound, Tables, OpenRequestsAreSound

\* A step of r alone, which leaves the tables as they are.
OwnStep(r) ==
    /\ UNCHANGED <<life, app, cert, earned, shown, unbacked, granted>>
    /\ \A q \in Requests \ {r} : /\ txn'[q] = txn[q] /\ stage'[q] = stage[q]
                                 /\ key'[q] = key[q] /\ taken'[q] = taken[q]
                                 /\ q \in replied' => q \in replied
    /\ \A a \in Applications :
           \/ lock'[a] = lock[a] /\ lock[a] # r
           \/ lock'[a] \in {r, Nobody} /\ lock[a] \in {r, Nobody}

LEMMA TablesKept ==
  ASSUME Tables, UNCHANGED <<life, app, cert, earned, shown, unbacked, granted>>
  PROVE  Tables'
BY DEF Tables, CertificatesAreShown, EligibleIsEarned, CertificateLinked,
       ShownStaysValid, CertificateEarned, NumbersOfTheirKind, FromSeries

LEMMA OthersKnow ==
  ASSUME TypeOK, Sound, NEW r \in Requests, OwnStep(r), NEW q \in Requests \ {r}
  PROVE  Knows(q)'
<1>1. Knows(q) /\ txn[q].app \in Applications
  BY DEF Sound, TypeOK, Txn
<1>2. /\ txn'[q] = txn[q] /\ stage'[q] = stage[q]
      /\ key'[q] = key[q] /\ taken'[q] = taken[q]
      /\ UNCHANGED <<life, app, cert, earned, shown>>
      /\ q \in replied' => q \in replied
  BY DEF OwnStep
<1>3. lock[txn[q].app] = q => lock'[txn[q].app] = q
  BY <1>1, NobodyIsNoRequest DEF OwnStep
<1>4. QED
  BY <1>1, <1>2, <1>3 DEF Knows, Changing, Idle, Flushed, At, Held, Issued

\* A step of r that ends it, or that touches neither locks nor registrations.
LEMMA OwnStepIsSound ==
  ASSUME TypeOK, Sound, NEW r \in Requests, OwnStep(r), Knows(r)',
         \A a \in Applications : lock'[a] = r =>
             Changing(r)' /\ txn'[r].phase = "flushed" /\ txn'[r].app = a,
         \A q \in Requests \ {r} :
             ~Idle(r)' /\ ~Idle(q) /\ txn[q].app = txn'[r].app
             => txn'[r].op # "register" /\ txn[q].op # "register"
  PROVE  Sound'
<1>1. Tables /\ Exclusive
  BY DEF Sound
<1>2. Tables'
  BY <1>1, TablesKept DEF OwnStep
<1>3. Exclusive'
  <2>1. ASSUME NEW a \in Applications, lock'[a] # Nobody
        PROVE  /\ txn'[lock'[a]].op # "register" /\ txn'[lock'[a]].phase = "flushed"
               /\ txn'[lock'[a]].app = a
    <3>1. CASE lock'[a] = r
      BY <3>1 DEF Changing, Idle
    <3>2. CASE lock'[a] # r
      <4>1. lock'[a] = lock[a] /\ lock[a] \in Requests \ {r}
        BY <2>1, <3>2 DEF OwnStep, TypeOK
      <4>2. txn'[lock[a]] = txn[lock[a]]
        BY <4>1 DEF OwnStep
      <4>3. QED
        BY <1>1, <2>1, <4>1, <4>2 DEF Exclusive, Changing, Idle
    <3>3. QED
      BY <3>1, <3>2
  <2>2. ASSUME NEW q \in Requests, NEW p \in Requests,
               txn'[q].phase # "idle", txn'[p].phase # "idle",
               txn'[p].op = "register",
               txn'[q].app = txn'[p].app
        PROVE  q = p
    BY <1>1, <2>2 DEF Exclusive, OwnStep, Idle
  <2>3. QED
    BY <2>1, <2>2 DEF Exclusive
<1>4. QED
  BY <1>2, <1>3, OthersKnow DEF Sound

-----------------------------------------------------------------------------
(***************************************************************************)
(* Steps of a request that leave the tables as they are                    *)
(***************************************************************************)

\* A request that has not written holds no lock.
LEMMA OnlyFlushedLocks ==
  ASSUME TypeOK, Sound, NEW r \in Requests, txn[r].phase # "flushed",
         NEW a \in Applications
  PROVE  lock[a] # r
BY NobodyIsNoRequest DEF Sound, Exclusive

\* ... and was not answered.
LEMMA OnlyFlushedReplied ==
  ASSUME TypeOK, NEW r \in Requests, txn[r].phase # "flushed"
  PROVE  r \notin replied
BY DEF TypeOK, AnswersOK

\* The end of a transaction without a commit.
LEMMA EndIsSound ==
  ASSUME TypeOK, Sound, NEW r \in Requests, Finish(r), lock' = Unlocked(r),
         UNCHANGED <<life, app, cert, earned, shown, unbacked, granted>>,
         replied' \subseteq replied, stage'[r] = "none",
         \A q \in Requests \ {r} : /\ stage'[q] = stage[q] /\ key'[q] = key[q]
                                   /\ taken'[q] = taken[q]
  PROVE  Sound'
<1>1. /\ txn'[r].phase = "idle" /\ txn'[r].op = "register"
      /\ \A q \in Requests \ {r} : txn'[q] = txn[q]
  BY DEF Finish, NoTxn, TypeOK
<1>2. \A a \in Applications : lock'[a] = IF lock[a] = r THEN Nobody ELSE lock[a]
  BY DEF Unlocked
<1>3. OwnStep(r)
  BY <1>1, <1>2 DEF OwnStep
<1>4. Knows(r)'
  BY <1>1 DEF Knows, Idle, Changing, Flushed, At
<1>5. \A a \in Applications : lock'[a] # r
  BY <1>2, NobodyIsNoRequest
<1>6. Idle(r)'
  BY <1>1 DEF Idle
<1>7. QED
  BY <1>3, <1>4, <1>5, <1>6, OwnStepIsSound

LEMMA UndoIsSound ==
  ASSUME TypeOK, Sound, NEW r \in Requests, Undo(r)
  PROVE  Sound'
<1>1. /\ stage'[r] = "none" /\ granted' = granted
      /\ \A q \in Requests \ {r} : /\ stage'[q] = stage[q] /\ key'[q] = key[q]
                                   /\ taken'[q] = taken[q]
  BY DEF Undo, Numbers!RollbackNumber, counterVars, TypeOK, Numbers!TypeOK
<1>2. QED
  BY <1>1, EndIsSound DEF Undo

LEMMA LoadIsSound ==
  ASSUME TypeOK, Sound, NEW r \in Requests, NEW a \in Applications,
         NEW op \in {"update", "issue", "delete"}, NEW edit \in Application,
         edit.certificate = app[a].certificate, Load(r, a, op, edit)
  PROVE  Sound'
<1>1. /\ txn'[r].op = op /\ txn'[r].phase = "loaded" /\ txn'[r].app = a
      /\ txn'[r].seen = app[a] /\ txn'[r].draft = edit
      /\ \A q \in Requests \ {r} : txn'[q] = txn[q]
  BY DEF Load, NoTxn, TypeOK
<1>2. /\ UNCHANGED <<life, app, cert, lock, counterVars, earned, answerVars>>
      /\ txn[r].phase = "idle" /\ life[a] = "stored"
  BY DEF Load, Idle
<1>3. stage[r] = "none" /\ r \notin replied /\ \A b \in Applications : lock[b] # r
  BY <1>2, OnlyFlushedLocks, OnlyFlushedReplied DEF Sound, Knows
<1>4. OwnStep(r)
  BY <1>1, <1>2, <1>3 DEF OwnStep, counterVars, answerVars
<1>5. app[a].status \in Eligible => a \in earned
  BY <1>2 DEF Sound, Tables, EligibleIsEarned
<1>6. Knows(r)'
  BY <1>1, <1>2, <1>3, <1>5
     DEF Knows, Idle, Changing, Flushed, At, counterVars, answerVars
<1>7. ASSUME NEW q \in Requests \ {r}, ~Idle(q), txn[q].app = a
      PROVE  txn[q].op # "register"
  BY <1>2, <1>7 DEF Sound, Knows
<1>8. QED
  BY <1>1, <1>2, <1>3, <1>4, <1>6, <1>7, OwnStepIsSound

LEMMA BeginIsSound ==
  ASSUME TypeOK, Sound, NEW r \in Requests, Begin(r)
  PROVE  Sound'
<1>1. PICK a \in Applications :
          \/ StartRegister(r, a) \/ StartUpdate(r, a)
          \/ \E op \in {"issue", "delete"} : Load(r, a, op, app[a])
  BY DEF Begin
<1>2. app[a] \in Application
  BY DEF TypeOK
<1>3. CASE StartRegister(r, a)
  <2>1. /\ txn'[r].op = "register" /\ txn'[r].phase = "allocating"
        /\ txn'[r].app = a /\ txn'[r].draft.certificate = NoNumber
        /\ \A q \in Requests \ {r} : txn'[q] = txn[q]
    BY <1>3 DEF StartRegister, NoTxn, NoApplication, TypeOK
  <2>2. /\ UNCHANGED <<life, app, cert, lock, counterVars, earned, answerVars>>
        /\ txn[r].phase = "idle" /\ life[a] = "unborn"
    BY <1>3 DEF StartRegister, Idle
  <2>3. stage[r] = "none" /\ \A b \in Applications : lock[b] # r
    BY <2>2, OnlyFlushedLocks DEF Sound, Knows
  <2>4. OwnStep(r)
    BY <2>1, <2>2, <2>3 DEF OwnStep, counterVars, answerVars
  <2>5. Knows(r)'
    BY <2>1, <2>2, <2>3 DEF Knows, Idle, Changing, Flushed, At, counterVars
  <2>6. \A q \in Requests : Idle(q) \/ txn[q].app # a
    BY <1>3 DEF StartRegister
  <2>7. QED
    BY <2>1, <2>2, <2>3, <2>4, <2>5, <2>6, OwnStepIsSound
<1>4. CASE StartUpdate(r, a)
  <2>1. PICK p \in Patches :
            Load(r, a, "update", [app[a] EXCEPT !.name = Given(p.name, @),
                                                !.status = Given(p.status, @)])
    BY <1>4 DEF StartUpdate
  <2> DEFINE edit == [app[a] EXCEPT !.name = Given(p.name, @),
                                    !.status = Given(p.status, @)]
  <2>2. edit \in Application /\ edit.certificate = app[a].certificate
    BY <1>2, PatchesArePayloads DEF Application, Given
  <2>3. QED
    BY <2>1, <2>2, LoadIsSound
<1>5. CASE \E op \in {"issue", "delete"} : Load(r, a, op, app[a])
  BY <1>2, <1>5, LoadIsSound
<1>6. QED
  BY <1>1, <1>3, <1>4, <1>5

\* A number that is held was never used for "none".
LEMMA HeldIsNumber ==
  ASSUME TypeOK, Counted, NEW r \in Requests, stage[r] = "held"
  PROVE  Held(r) # NoNumber
<1>1. taken[r] = Starts[key[r]] + Len(granted[key[r]]) + 1
  BY DEF Counted, Numbers!LockGuardsNumber
<1>2. key[r] \in Series /\ Len(granted[key[r]]) \in Nat
  BY DEF TypeOK, Numbers!TypeOK
<1>3. Starts[key[r]] \in Nat
  BY <1>2 DEF Starts
<1>4. QED
  BY <1>1, <1>2, <1>3 DEF Held, NoNumber

\* allocate_counter: the request comes nearer to its number, or has it.
LEMMA AllocateIsSound ==
  ASSUME TypeOK, Sound, NEW r \in Requests, AllocateCounter(r)
  PROVE  Sound'
<1>1. /\ UNCHANGED <<life, app, cert, lock, txn, earned, answerVars>>
      /\ txn[r].phase = "allocating" /\ Knows(r) /\ r \notin replied
  BY OnlyFlushedReplied DEF AllocateCounter, Sound
<1>2. /\ granted' = granted
      /\ \A q \in Requests \ {r} : /\ stage'[q] = stage[q] /\ key'[q] = key[q]
                                   /\ taken'[q] = taken[q]
  BY DEF AllocateCounter, Numbers!LockAndIncrement, Numbers!FindNoRow,
         Numbers!InsertRow, Numbers!Take, TypeOK, Numbers!TypeOK
<1>3. key'[r].kind = Kind(txn[r].op)
  <2>1. CASE Numbers!InsertRow(r)
    BY <1>1, <2>1
       DEF Numbers!InsertRow, Numbers!Take, Knows, TypeOK, Numbers!TypeOK
  <2>2. CASE \E y \in Years :
                 LET k == [kind |-> Kind(txn[r].op), year |-> y] IN
                 Numbers!LockAndIncrement(r, k) \/ Numbers!FindNoRow(r, k)
    BY <2>2 DEF Numbers!LockAndIncrement, Numbers!FindNoRow, Numbers!Take,
                TypeOK, Numbers!TypeOK
  <2>3. QED
    BY <2>1, <2>2 DEF AllocateCounter
<1>4. \A a \in Applications : lock[a] # r
  BY <1>1, OnlyFlushedLocks
<1>5. OwnStep(r)
  BY <1>1, <1>2, <1>4 DEF OwnStep, answerVars
<1>6. Knows(r)'
  BY <1>1, <1>3 DEF Knows, Idle, Changing, Flushed, At, answerVars
<1>7. ASSUME NEW q \in Requests \ {r}, ~Idle(q), txn[q].app = txn[r].app
      PROVE  txn[r].op # "register" /\ txn[q].op # "register"
  BY <1>1, <1>7 DEF Sound, Exclusive, Idle
<1>8. QED
  BY <1>1, <1>4, <1>5, <1>6, <1>7, OwnStepIsSound

\* A request that goes on to its next phase, with or without the row lock.
LEMMA AdvanceIsSound ==
  ASSUME TypeOK, Sound, NEW r \in Requests,
         UNCHANGED <<life, app, cert, counterVars, earned, answerVars>>,
         txn[r].phase \in {"loaded", "allocating"},
         txn'[r].op = txn[r].op, txn'[r].app = txn[r].app,
         \A q \in Requests \ {r} : txn'[q] = txn[q],
         \/ lock' = lock
         \/ /\ lock[txn[r].app] = Nobody
            /\ lock' = [lock EXCEPT ![txn[r].app] = r]
            /\ txn[r].op # "register" /\ txn'[r].phase = "flushed",
         Knows(r)'
  PROVE  Sound'
<1>1. \A a \in Applications : lock[a] # r
  BY OnlyFlushedLocks
<1>2. OwnStep(r)
  BY <1>1 DEF OwnStep, counterVars, answerVars, TypeOK
<1>3. ASSUME NEW a \in Applications, lock'[a] = r
      PROVE  /\ txn'[r].op # "register" /\ txn'[r].phase = "flushed"
             /\ txn'[r].app = a
  BY <1>1, <1>3 DEF TypeOK
<1>4. ASSUME NEW q \in Requests \ {r}, ~Idle(q), txn[q].app = txn[r].app
      PROVE  txn[r].op # "register" /\ txn[q].op # "register"
  BY <1>4 DEF Sound, Exclusive, Idle
<1>5. QED
  BY <1>2, <1>3, <1>4, OwnStepIsSound DEF Changing, Idle

LEMMA WriteIsSound ==
  ASSUME TypeOK, Sound, NEW r \in Requests,
         UpdateApplication(r) \/ DeleteApplication(r)
  PROVE  Sound'
<1> DEFINE t == txn[r]
           a == txn[r].app
<1>1. /\ t \in Txn /\ a \in Applications /\ app[a] \in Application
      /\ t.draft \in Application /\ t.seen \in Application
  BY DEF TypeOK, Txn
<1>2. /\ t.phase = "loaded" /\ t.op \in {"update", "delete"} /\ LockRow(r)
      /\ Knows(r)
  BY DEF UpdateApplication, DeleteApplication, At, Sound
<1>3. /\ UNCHANGED <<life, app, cert, counterVars, earned, answerVars>>
      /\ lock[a] = Nobody /\ lock' = [lock EXCEPT ![a] = r]
      /\ life[a] = "stored"
  BY <1>2 DEF LockRow
<1>4. /\ txn'[r].op = t.op /\ txn'[r].app = a /\ txn'[r].phase = "flushed"
      /\ txn'[r].seen = NoApplication
      /\ \A q \in Requests \ {r} : txn'[q] = txn[q]
  BY <1>1 DEF UpdateApplication, DeleteApplication, TypeOK, Txn
<1>5. t.op = "update" => /\ txn'[r].draft.number = app[a].number
                         /\ txn'[r].draft.certificate = app[a].certificate
  <2>1. SUFFICES ASSUME t.op = "update"
                 PROVE  /\ txn'[r].draft.number = app[a].number
                        /\ txn'[r].draft.certificate = app[a].certificate
    OBVIOUS
  <2>2. txn'[r].draft = After(t.seen, app[a], t.draft)
    BY <1>1, <2>1 DEF UpdateApplication, DeleteApplication, At, TypeOK, Txn
  <2>3. t.draft.certificate = t.seen.certificate
    BY <1>2, <2>1 DEF Knows, Changing, Idle, At
  <2>4. QED
    BY <2>2, <2>3 DEF After, Column
<1>6. stage[r] = "none" /\ life[a] # "unborn" /\ r \notin replied
  BY <1>2, <1>3, OnlyFlushedReplied DEF Knows
<1>7. NoApplication.status \notin Eligible /\ NoApplication.certificate = NoNumber
  BY DEF NoApplication, Eligible
<1>8. lock'[a] = r
  BY <1>1, <1>3 DEF TypeOK
<1>9. Knows(r)'
  BY <1>2, <1>3, <1>4, <1>5, <1>6, <1>7, <1>8
     DEF Knows, Changing, Idle, Flushed, At, counterVars, answerVars
<1>10. QED
  BY <1>2, <1>3, <1>4, <1>9, AdvanceIsSound

LEMMA IssueIsSound ==
  ASSUME TypeOK, Counted, Sound, NEW r \in Requests, IssueCertificate(r)
  PROVE  Sound'
<1> DEFINE t == txn[r]
           a == txn[r].app
           new == [t.seen EXCEPT !.status = "completed", !.certificate = Held(r)]
<1>1. /\ t \in Txn /\ a \in Applications /\ app[a] \in Application
      /\ t.seen \in Application
  BY DEF TypeOK, Txn
<1>2. /\ t.phase = "allocating" /\ t.op = "issue" /\ LockRow(r)
      /\ stage[r] = "held" /\ cert[a] = NoCertificate
      /\ Knows(r) /\ Tables
  BY DEF IssueCertificate, At, Sound
<1>3. /\ UNCHANGED <<life, app, cert, counterVars, earned, answerVars>>
      /\ lock[a] = Nobody /\ lock' = [lock EXCEPT ![a] = r]
      /\ life[a] = "stored"
  BY <1>2 DEF LockRow
<1>4. /\ txn'[r].op = "issue" /\ txn'[r].app = a /\ txn'[r].phase = "flushed"
      /\ txn'[r].seen = NoApplication /\ txn'[r].draft = Completed(r)
      /\ txn'[r].cert = [number |-> Held(r), name |-> Completed(r).name]
      /\ \A q \in Requests \ {r} : txn'[q] = txn[q]
  BY <1>1, <1>2 DEF IssueCertificate, TypeOK, Txn
<1>5. t.seen.certificate # Held(r)
  <2>1. app[a].certificate = NoNumber
    BY <1>1, <1>2, <1>3 DEF Tables, CertificateLinked, NoCertificate
  <2>2. t.seen.certificate # NoNumber => t.seen.certificate = app[a].certificate
    BY <1>2, <1>3 DEF Knows, Changing, Idle
  <2>3. QED
    BY <1>2, <2>1, <2>2, HeldIsNumber
<1>6. /\ Completed(r).number = app[a].number
      /\ Completed(r).certificate = Held(r)
      /\ Completed(r).name = app[a].name
  <2>1. /\ new.name = t.seen.name /\ new.certificate = Held(r)
    BY <1>1 DEF Application
  <2>2. Completed(r) = After(t.seen, app[a], new)
    BY DEF Completed
  <2>3. QED
    BY <1>5, <2>1, <2>2 DEF After, Column
<1>7. /\ t.app \in earned /\ r \notin replied
      /\ NoApplication.status \notin Eligible /\ NoApplication.certificate = NoNumber
      /\ key[r].kind = Kind("issue") /\ life[a] # "unborn"
  BY <1>2, <1>3, OnlyFlushedReplied
     DEF Knows, Changing, Idle, NoApplication, Eligible
<1>8. lock'[a] = r /\ Held(r)' = Held(r) /\ stage'[r] = "held" /\ key'[r] = key[r]
  BY <1>1, <1>2, <1>3 DEF TypeOK, counterVars, Held
<1>9. Knows(r)'
  BY <1>2, <1>3, <1>4, <1>6, <1>7, <1>8
     DEF Knows, Changing, Idle, Flushed, At, answerVars
<1>10. QED
  BY <1>2, <1>3, <1>4, <1>9, AdvanceIsSound

LEMMA CreateIsSound ==
  ASSUME TypeOK, Sound, NEW r \in Requests, CreateApplication(r)
  PROVE  Sound'
<1>1. /\ txn[r] \in Txn /\ txn[r].draft \in Application
      /\ txn[r].phase = "allocating" /\ txn[r].op = "register"
      /\ stage[r] = "held" /\ Knows(r) /\ r \notin replied
      /\ UNCHANGED <<life, app, cert, lock, counterVars, earned, answerVars>>
  BY OnlyFlushedReplied DEF CreateApplication, At, Sound, TypeOK, Txn
<1>2. txn' = [txn EXCEPT ![r].phase = "flushed",
                         ![r].draft = [@ EXCEPT !.number = Held(r)]]
  BY DEF CreateApplication, TypeOK
<1>3. /\ txn'[r].op = "register" /\ txn'[r].app = txn[r].app
      /\ txn'[r].phase = "flushed" /\ txn'[r].draft.number = Held(r)
      /\ txn'[r].draft.certificate = txn[r].draft.certificate
      /\ \A q \in Requests \ {r} : txn'[q] = txn[q]
  BY <1>1, <1>2 DEF TypeOK, Txn, Application
<1>4. Knows(r)'
  BY <1>1, <1>3
     DEF Knows, Changing, Idle, Flushed, At, counterVars, answerVars, Held
<1>5. QED
  BY <1>1, <1>3, <1>4, AdvanceIsSound

LEMMA BeginCertificateIsSound ==
  ASSUME TypeOK, Sound, NEW r \in Requests, BeginCertificate(r)
  PROVE  Sound'
<1>1. /\ txn[r] \in Txn
      /\ txn[r].phase = "loaded" /\ txn[r].op = "issue"
      /\ txn[r].seen.status \in Eligible /\ Knows(r) /\ r \notin replied
      /\ UNCHANGED <<life, app, cert, lock, counterVars, earned, answerVars>>
  BY OnlyFlushedReplied DEF BeginCertificate, At, Sound, TypeOK
<1>2. /\ txn'[r].op = "issue" /\ txn'[r].app = txn[r].app
      /\ txn'[r].phase = "allocating" /\ txn'[r].seen = txn[r].seen
      /\ \A q \in Requests \ {r} : txn'[q] = txn[q]
  BY <1>1 DEF BeginCertificate, TypeOK, Txn
<1>3. Knows(r)'
  BY <1>1, <1>2 DEF Knows, Changing, Idle, Flushed, At, counterVars, answerVars
<1>4. QED
  BY <1>1, <1>2, <1>3, AdvanceIsSound

\* An answer or a refusal before anything was written.
LEMMA EarlyEndIsSound ==
  ASSUME TypeOK, Sound, NEW r \in Requests,
         AllocationConflict(r) \/ RefuseCertificate(r) \/ ReturnExisting(r)
  PROVE  Sound'
<1>1. Knows(r) /\ txn[r] \in Txn /\ Tables
  BY DEF Sound, TypeOK
<1>2. txn[r].phase # "flushed"
  <2>1. CASE AllocationConflict(r)
    <3>1. stage[r] = "unseen"
      BY <2>1 DEF AllocationConflict, Numbers!InsertConflict
    <3>2. QED
      BY <1>1, <3>1 DEF Knows, Flushed, At
  <2>2. QED
    BY <2>1 DEF RefuseCertificate, ReturnExisting, At
<1>3. /\ stage'[r] = "none" /\ granted' = granted
      /\ \A q \in Requests \ {r} : /\ stage'[q] = stage[q] /\ key'[q] = key[q]
                                   /\ taken'[q] = taken[q]
  <2>1. CASE AllocationConflict(r)
    BY <2>1 DEF AllocationConflict, Numbers!InsertConflict, TypeOK, Numbers!TypeOK
  <2>2. CASE RefuseCertificate(r) \/ ReturnExisting(r)
    BY <1>1, <2>2 DEF RefuseCertificate, ReturnExisting, At, Knows, counterVars
  <2>3. QED
    BY <2>1, <2>2
<1>4. UNCHANGED <<replied, shown, unbacked>>
  <2>1. CASE ReturnExisting(r)
    <3>1. txn[r].app \in Applications /\ cert[txn[r].app] # NoCertificate
      BY <1>1, <2>1 DEF ReturnExisting, Txn
    <3>2. [app |-> txn[r].app, cert |-> cert[txn[r].app]] \in shown \ unbacked
      BY <1>1, <3>1 DEF Tables, CertificatesAreShown
    <3>3. QED
      BY <2>1, <3>2 DEF ReturnExisting
  <2>2. QED
    BY <2>1 DEF AllocationConflict, RefuseCertificate, answerVars
<1>5. lock' = Unlocked(r)
  BY <1>2, OnlyFlushedLocks
     DEF AllocationConflict, RefuseCertificate, ReturnExisting, Unlocked, TypeOK
<1>6. Finish(r) /\ UNCHANGED <<life, app, cert, earned>>
  BY DEF AllocationConflict, RefuseCertificate, ReturnExisting
<1>7. QED
  BY <1>3, <1>4, <1>5, <1>6, EndIsSound

LEMMA HandleIsSound ==
  ASSUME TypeOK, Counted, Sound, NEW r \in Requests, Handle(r)
  PROVE  Sound'
<1>1. CASE RowVanished(r) \/ CertificateConflict(r)
  BY <1>1, UndoIsSound DEF RowVanished, CertificateConflict
<1>2. QED
  BY <1>1, AllocateIsSound, EarlyEndIsSound, CreateIsSound, WriteIsSound,
     BeginCertificateIsSound, IssueIsSound DEF Handle

-----------------------------------------------------------------------------
(***************************************************************************)
(* Commits                                                                 *)
(***************************************************************************)

\* The number a request holds is newer than all that were committed.
LEMMA FreshNumber ==
  ASSUME TypeOK, Counted, NEW r \in Requests, stage[r] = "held",
         NEW n, FromSeries(granted, key[r].kind, n)
  PROVE  n # Held(r)
<1>1. key[r] \in Series /\ granted[key[r]] \in Seq(Nat)
  BY DEF TypeOK, Numbers!TypeOK
<1>2. taken[r] = Starts[key[r]] + Len(granted[key[r]]) + 1
  BY DEF Counted, Numbers!LockGuardsNumber
<1>3. \A i \in 1..Len(granted[key[r]]) : granted[key[r]][i] = Starts[key[r]] + i
  BY <1>1 DEF Counted, Numbers!GapFree
<1>4. Starts[key[r]] \in Nat
  BY <1>1 DEF Starts
<1>5. \A i \in 1..Len(granted[key[r]]) : granted[key[r]][i] # taken[r]
  <2> DEFINE len == Len(granted[key[r]])
             start == Starts[key[r]]
  <2>1. len \in Nat /\ start \in Nat
    BY <1>1, <1>4
  <2> HIDE DEF len, start
  <2>2. \A i \in 1..len : start + i # start + len + 1
    BY <2>1
  <2>3. QED
    BY <1>2, <1>3, <2>2 DEF len, start
<1>6. SUFFICES ASSUME n = Held(r) PROVE FALSE
  OBVIOUS
<1>7. n.year = key[r].year /\ n.value = taken[r]
  BY <1>6 DEF Held
<1>8. [kind |-> key[r].kind, year |-> n.year] = key[r]
  BY <1>1, <1>7 DEF Series
<1>9. QED
  BY <1>5, <1>7, <1>8 DEF FromSeries

\* A commit adds its number to the series and keeps the others.
LEMMA GrantedGrows ==
  ASSUME TypeOK, NEW r \in Requests, Numbers!CommitNumber(r)
  PROVE  /\ \A kind \in {"registration", "certificate"}, n \in Number :
                FromSeries(granted, kind, n) => FromSeries(granted', kind, n)
         /\ FromSeries(granted', key[r].kind, Held(r))
<1>1. /\ key[r] \in Series /\ taken[r] \in Nat /\ granted \in [Series -> Seq(Nat)]
      /\ granted' = [granted EXCEPT ![key[r]] = Append(@, taken[r])]
      /\ key' = key
  BY DEF TypeOK, Numbers!TypeOK, Numbers!CommitNumber
<1>2. granted[key[r]] \in Seq(Nat)
  BY <1>1
<1>3. /\ granted'[key[r]] = Append(granted[key[r]], taken[r])
      /\ \A k \in Series \ {key[r]} : granted'[k] = granted[k]
  BY <1>1
<1>4. /\ Len(granted'[key[r]]) = Len(granted[key[r]]) + 1
      /\ \A i \in 1..Len(granted[key[r]]) : granted'[key[r]][i] = granted[key[r]][i]
      /\ granted'[key[r]][Len(granted[key[r]]) + 1] = taken[r]
  BY <1>1, <1>2, <1>3, NumberProofs!AppendNumber, CounterAssumptions
<1>5. Len(granted[key[r]]) \in Nat
  BY <1>2
<1>6. ASSUME NEW kind \in {"registration", "certificate"}, NEW n \in Number,
             FromSeries(granted, kind, n)
      PROVE  FromSeries(granted', kind, n)
  <2> DEFINE k == [kind |-> kind, year |-> n.year]
  <2>1. k \in Series
    BY DEF Series, Number
  <2>2. PICK i \in 1..Len(granted[k]) : granted[k][i] = n.value
    BY <1>6 DEF FromSeries
  <2>3. i \in 1..Len(granted'[k]) /\ granted'[k][i] = n.value
    <3>1. CASE k = key[r]
      BY <1>4, <1>5, <2>2, <3>1
    <3>2. CASE k # key[r]
      BY <1>3, <2>1, <2>2, <3>2
    <3>3. QED
      BY <3>1, <3>2
  <2>4. QED
    BY <2>3 DEF FromSeries
<1>7. FromSeries(granted', key[r].kind, Held(r))
  <2>1. /\ [kind |-> key[r].kind, year |-> Held(r).year] = key[r]
        /\ Held(r).value = taken[r]
    BY <1>1 DEF Held, Series
  <2>2. Len(granted[key[r]]) + 1 \in 1..Len(granted'[key[r]])
    BY <1>4, <1>5
  <2>3. QED
    BY <1>4, <2>1, <2>2 DEF FromSeries
<1>8. QED
  BY <1>6, <1>7

\* After a commit of r the locks and registrations of the others stand.
LEMMA CommitIsExclusive ==
  ASSUME TypeOK, Sound, NEW r \in Requests, Commit(r)
  PROVE  Exclusive'
<1>1. /\ txn'[r].phase = "idle" /\ \A q \in Requests \ {r} : txn'[q] = txn[q]
  BY DEF Commit, Finish, NoTxn, TypeOK
<1>2. \A a \in Applications : lock'[a] = IF lock[a] = r THEN Nobody ELSE lock[a]
  BY DEF Commit, Unlocked
<1>3. Exclusive /\ lock \in [Applications -> Requests \cup {Nobody}]
  BY DEF Sound, TypeOK
<1>4. ASSUME NEW a \in Applications, lock'[a] # Nobody
      PROVE  /\ txn'[lock'[a]].op # "register"
             /\ txn'[lock'[a]].phase = "flushed" /\ txn'[lock'[a]].app = a
  BY <1>1, <1>2, <1>3, <1>4 DEF Exclusive
<1>5. ASSUME NEW q \in Requests, NEW p \in Requests,
             txn'[q].phase # "idle", txn'[p].phase # "idle",
             txn'[p].op = "register", txn'[q].app = txn'[p].app
      PROVE  q = p
  BY <1>1, <1>3, <1>5 DEF Exclusive
<1>6. QED
  BY <1>4, <1>5 DEF Exclusive

\* Another request that has read the application knows no more than before:
\* it has not written, and its link to a certificate, if any, is the same.
LEMMA OthersAfterCommit ==
  ASSUME TypeOK, Sound, NEW r \in Requests, Commit(r), NEW q \in Requests \ {r},
         earned \subseteq earned',
         \A b \in Applications \ {txn[r].app} :
             life'[b] = life[b] /\ app'[b] = app[b] /\ cert'[b] = cert[b],
         stage'[q] = stage[q], key'[q] = key[q], taken'[q] = taken[q],
         txn[r].op = "register"
             \/ /\ lock[txn[r].app] = r /\ life'[txn[r].app] # "unborn"
                /\ \/ life'[txn[r].app] # "stored"
                   \/ life[txn[r].app] = "stored"
                      /\ app[txn[r].app].certificate \in
                            {NoNumber, app'[txn[r].app].certificate}
  PROVE  Knows(q)'
<1> DEFINE a == txn[r].app
<1>1. /\ txn'[q] = txn[q] /\ Knows(q) /\ txn[q].app \in Applications
      /\ txn[r].phase = "flushed" /\ shown' = shown
      /\ q \in replied' => q \in replied
  BY DEF Commit, Finish, Sound, TypeOK, Txn
<1>2. lock[txn[q].app] = q => lock'[txn[q].app] = q
  BY <1>1 DEF Commit, Unlocked
<1>3. CASE txn[q].app # a \/ Idle(q)
  BY <1>1, <1>2, <1>3 DEF Knows, Changing, Idle, Flushed, At, Held, Issued
<1>4. CASE txn[q].app = a /\ ~Idle(q)
  <2>1. txn[r].op # "register" /\ txn[q].op # "register"
    BY <1>1, <1>4 DEF Sound, Exclusive, Idle
  <2>2. lock[a] = r /\ life'[a] # "unborn"
    BY <2>1
  <2>3. txn[q].phase # "flushed"
    BY <1>1, <1>4, <2>1, <2>2 DEF Knows, Changing, Idle
  <2>4. life'[a] = "stored" /\ txn[q].seen.certificate # NoNumber
        => txn[q].seen.certificate = app'[a].certificate
    BY <1>1, <1>4, <2>1 DEF Knows, Changing, Idle
  <2>5. QED
    BY <1>1, <1>4, <2>1, <2>2, <2>3, <2>4
       DEF Knows, Changing, Idle, Flushed, At, Held, Issued
<1>5. QED
  BY <1>3, <1>4

\* What is left to show of a commit.
LEMMA CommitParts ==
  ASSUME TypeOK, Sound, NEW r \in Requests, Commit(r), stage'[r] = "none",
         Tables', \A q \in Requests \ {r} : Knows(q)'
  PROVE  Sound'
<1>1. txn'[r].phase = "idle" /\ txn'[r].op = "register"
  BY DEF Commit, Finish, NoTxn, TypeOK
<1>2. Knows(r)'
  BY <1>1 DEF Knows, Idle, Changing, Flushed, At
<1>3. QED
  BY <1>2, CommitIsExclusive DEF Sound

\* Numbers do not leave their series, and a commit of a number leaves the
\* request without one.
LEMMA NumberCommitted ==
  ASSUME TypeOK, NEW r \in Requests, Numbers!CommitNumber(r)
  PROVE  /\ stage'[r] = "none"
         /\ \A q \in Requests \ {r} : /\ stage'[q] = stage[q] /\ key'[q] = key[q]
                                      /\ taken'[q] = taken[q]
BY DEF Numbers!CommitNumber, TypeOK, Numbers!TypeOK

LEMMA RegisterIsSound ==
  ASSUME TypeOK, Counted, Sound, NEW r \in Requests, Commit(r), CommitRegister(r)
  PROVE  Sound'
<1> DEFINE a == txn[r].app
           d == txn[r].draft
<1>1. /\ a \in Applications /\ d \in Application
      /\ life \in [Applications -> {"unborn", "stored", "deleted"}]
      /\ app \in [Applications -> Application]
      /\ shown \subseteq [app : Applications, cert : Certificate]
  BY DEF TypeOK, Txn
<1>2. /\ life[a] = "unborn" /\ d.certificate = NoNumber /\ d.number = Held(r)
      /\ stage[r] = "held" /\ key[r].kind = "registration"
  BY DEF Sound, Knows, Commit, CommitRegister, Flushed, At, Idle, Kind
<1>3. /\ life' = [life EXCEPT ![a] = "stored"] /\ app' = [app EXCEPT ![a] = d]
      /\ Numbers!CommitNumber(r) /\ UNCHANGED <<cert, shown, unbacked>>
      /\ earned' = IF d.status \in Eligible THEN earned \cup {a} ELSE earned
  BY DEF Commit, CommitRegister, Earn
<1>4. /\ life'[a] = "stored" /\ app'[a] = d
      /\ \A b \in Applications \ {a} : life'[b] = life[b] /\ app'[b] = app[b]
  BY <1>1, <1>3
<1>5. cert[a] = NoCertificate /\ \A s \in shown \ unbacked : s.app # a
  BY <1>1, <1>2 DEF Sound, Tables, CertificateLinked, CertificatesAreShown
<1>6. Tables'
  <2>1. CertificatesAreShown'
    BY <1>1, <1>3, <1>4, <1>5 DEF Sound, Tables, CertificatesAreShown
  <2>2. EligibleIsEarned'
    BY <1>3, <1>4 DEF Sound, Tables, EligibleIsEarned
  <2>3. CertificateLinked'
    <3>1. d.certificate = cert[a].number
      BY <1>2, <1>5 DEF NoCertificate
    <3>2. QED
      BY <1>3, <1>4, <3>1 DEF Sound, Tables, CertificateLinked
  <2>4. ShownStaysValid'
    BY <1>1, <1>3, <1>4, <1>5 DEF Sound, Tables, ShownStaysValid
  <2>5. CertificateEarned'
    BY <1>3 DEF Sound, Tables, CertificateEarned
  <2>6. NumbersOfTheirKind'
    <3>1. /\ \A kind \in {"registration", "certificate"}, n \in Number :
                 FromSeries(granted, kind, n) => FromSeries(granted', kind, n)
          /\ FromSeries(granted', "registration", Held(r))
      BY <1>2, <1>3, GrantedGrows
    <3>2. \A b \in Applications : app[b].number \in Number
      BY <1>1 DEF Application
    <3>3. \A s \in shown : s.cert.number \in Number
      BY <1>1 DEF Certificate
    <3>4. NumbersOfTheirKind
      BY DEF Sound, Tables
    <3>5. \A b \in Applications : life'[b] # "unborn" =>
              FromSeries(granted', "registration", app'[b].number)
      BY <1>2, <1>4, <3>1, <3>2, <3>4 DEF NumbersOfTheirKind
    <3>6. \A s \in shown' \ unbacked' : FromSeries(granted', "certificate", s.cert.number)
      BY <1>3, <3>1, <3>3, <3>4 DEF NumbersOfTheirKind
    <3>7. \A b \in Applications \ {a} : life[b] # "unborn" => app[b].number # d.number
      BY <1>2, <3>4, FreshNumber DEF NumbersOfTheirKind
    <3>8. \A b, c \in Applications :
              life'[b] # "unborn" /\ life'[c] # "unborn" /\ b # c
              => app'[b].number # app'[c].number
      BY <1>4, <3>4, <3>7 DEF NumbersOfTheirKind
    <3>9. QED
      BY <3>5, <3>6, <3>8 DEF NumbersOfTheirKind
  <2>7. QED
    BY <2>1, <2>2, <2>3, <2>4, <2>5, <2>6 DEF Tables
<1>7. ASSUME NEW q \in Requests \ {r} PROVE Knows(q)'
  BY <1>3, <1>4, NumberCommitted, OthersAfterCommit DEF CommitRegister
<1>8. QED
  BY <1>3, <1>6, <1>7, NumberCommitted, CommitParts

LEMMA UpdateIsSound ==
  ASSUME TypeOK, Sound, NEW r \in Requests, Commit(r), CommitUpdate(r)
  PROVE  Sound'
<1> DEFINE a == txn[r].app
           d == txn[r].draft
<1>1. /\ a \in Applications /\ app \in [Applications -> Application]
      /\ txn[r].op = "update" /\ txn[r].phase = "flushed" /\ Knows(r) /\ Tables
  BY DEF TypeOK, Txn, CommitUpdate, Commit, Sound
<1>2. /\ d.number = app[a].number /\ d.certificate = app[a].certificate
      /\ lock[a] = r /\ life[a] = "stored" /\ stage[r] = "none"
  BY <1>1 DEF Knows, Changing, Idle, Flushed, At
<1>3. /\ app' = [app EXCEPT ![a] = d]
      /\ UNCHANGED <<life, cert, counterVars, shown, unbacked>>
      /\ earned' = IF d.status \in Eligible THEN earned \cup {a} ELSE earned
  BY DEF Commit, CommitUpdate, Earn
<1>4. /\ app'[a] = d
      /\ \A b \in Applications \ {a} : app'[b] = app[b]
      /\ \A b \in Applications : app'[b].number = app[b].number
      /\ \A b \in Applications : app'[b].certificate = app[b].certificate
  BY <1>1, <1>2, <1>3
<1>5. Tables'
  <2>1. CertificatesAreShown'
    BY <1>1, <1>3 DEF Tables, CertificatesAreShown
  <2>2. EligibleIsEarned'
    BY <1>1, <1>3, <1>4 DEF Tables, EligibleIsEarned
  <2>3. CertificateLinked'
    BY <1>1, <1>3, <1>4 DEF Tables, CertificateLinked
  <2>4. ShownStaysValid'
    BY <1>1, <1>3 DEF Tables, ShownStaysValid
  <2>5. CertificateEarned'
    BY <1>1, <1>3 DEF Tables, CertificateEarned
  <2>6. NumbersOfTheirKind'
    BY <1>1, <1>3, <1>4
       DEF Tables, NumbersOfTheirKind, FromSeries, counterVars
  <2>7. QED
    BY <2>1, <2>2, <2>3, <2>4, <2>5, <2>6 DEF Tables
<1>6. ASSUME NEW q \in Requests \ {r} PROVE Knows(q)'
  BY <1>2, <1>3, <1>4, OthersAfterCommit DEF counterVars
<1>7. QED
  BY <1>2, <1>3, <1>5, <1>6, CommitParts DEF counterVars

LEMMA DeleteIsSound ==
  ASSUME TypeOK, Sound, NEW r \in Requests, Commit(r), CommitDelete(r)
  PROVE  Sound'
<1> DEFINE a == txn[r].app
<1>1. /\ a \in Applications /\ cert \in [Applications -> Certificate]
      /\ life \in [Applications -> {"unborn", "stored", "deleted"}]
      /\ txn[r].op = "delete" /\ txn[r].phase = "flushed" /\ Knows(r) /\ Tables
  BY DEF TypeOK, Txn, CommitDelete, Commit, Sound
<1>2. lock[a] = r /\ life[a] = "stored" /\ stage[r] = "none"
  BY <1>1 DEF Knows, Changing, Idle, Flushed, At
<1>3. /\ life' = [life EXCEPT ![a] = "deleted"]
      /\ cert' = [cert EXCEPT ![a] = NoCertificate]
      /\ UNCHANGED <<app, counterVars, earned, shown, unbacked>>
  BY DEF Commit, CommitDelete
<1>4. /\ life'[a] = "deleted" /\ cert'[a] = NoCertificate
      /\ \A b \in Applications \ {a} : life'[b] = life[b] /\ cert'[b] = cert[b]
      /\ \A b \in Applications : life'[b] = "unborn" <=> life[b] = "unborn"
  BY <1>1, <1>2, <1>3
<1>5. Tables'
  <2>1. CertificatesAreShown'
    BY <1>1, <1>3, <1>4 DEF Tables, CertificatesAreShown, TypeOK
  <2>2. EligibleIsEarned'
    BY <1>1, <1>3, <1>4 DEF Tables, EligibleIsEarned
  <2>3. CertificateLinked'
    BY <1>1, <1>3, <1>4 DEF Tables, CertificateLinked
  <2>4. ShownStaysValid'
    <3>1. \A s \in shown : s.app \in Applications
      BY DEF TypeOK
    <3>2. QED
      BY <1>1, <1>3, <1>4, <3>1 DEF Tables, ShownStaysValid
  <2>5. CertificateEarned'
    BY <1>1, <1>3, <1>4 DEF Tables, CertificateEarned
  <2>6. NumbersOfTheirKind'
    BY <1>1, <1>3, <1>4
       DEF Tables, NumbersOfTheirKind, FromSeries, counterVars
  <2>7. QED
    BY <2>1, <2>2, <2>3, <2>4, <2>5, <2>6 DEF Tables
<1>6. ASSUME NEW q \in Requests \ {r} PROVE Knows(q)'
  BY <1>2, <1>3, <1>4, OthersAfterCommit DEF counterVars
<1>7. QED
  BY <1>2, <1>3, <1>5, <1>6, CommitParts DEF counterVars

\* An answer that is sent is about a certificate under a new number: no
\* certificate that is stored becomes unbacked.
LEMMA AnswerIsSound ==
  ASSUME TypeOK, Counted, Sound, NEW r \in Requests, Answer(r)
  PROVE  Sound'
<1>1. /\ UNCHANGED <<life, app, cert, lock, txn, earned, counterVars>>
      /\ txn[r].phase = "flushed" /\ replied' = replied \cup {r}
      /\ Knows(r) /\ Tables /\ Exclusive
  BY DEF Answer, Sound
<1>2. CASE txn[r].op # "issue"
  <2>1. UNCHANGED <<shown, unbacked>>
    BY <1>2 DEF Answer
  <2>2. Tables'
    BY <1>1, <2>1, TablesKept DEF counterVars
  <2>3. Exclusive'
    BY <1>1 DEF Exclusive
  <2>4. \A q \in Requests : Knows(q)'
    BY <1>1, <1>2, <2>1
       DEF Sound, Knows, Changing, Idle, Flushed, At, Held, Issued, counterVars
  <2>5. QED
    BY <2>2, <2>3, <2>4 DEF Sound
<1>3. CASE txn[r].op = "issue"
  <2>1. /\ shown' = shown \cup {Issued(r)} /\ unbacked' = unbacked \cup {Issued(r)}
        /\ stage[r] = "held" /\ key[r].kind = "certificate"
        /\ Issued(r).cert.number = Held(r)
    BY <1>1, <1>3 DEF Answer, Knows, Flushed, At, Issued, Kind
  <2>2. \A s \in shown \ unbacked : s # Issued(r)
    BY <1>1, <2>1, FreshNumber DEF Tables, NumbersOfTheirKind
  <2>3. shown' \ unbacked' = shown \ unbacked
    BY <2>1, <2>2
  <2>4. Tables'
    BY <1>1, <2>3
       DEF Tables, CertificatesAreShown, EligibleIsEarned, CertificateLinked,
           ShownStaysValid, CertificateEarned, NumbersOfTheirKind, FromSeries,
           counterVars
  <2>5. Exclusive'
    BY <1>1 DEF Exclusive
  <2>6. \A q \in Requests : Knows(q)'
    BY <1>1, <2>1
       DEF Sound, Knows, Changing, Idle, Flushed, At, Held, Issued, counterVars
  <2>7. QED
    BY <2>4, <2>5, <2>6 DEF Sound
<1>4. QED
  BY <1>2, <1>3

\* The first certificate of an application, under a number of its own.
LEMMA CertificateIsSound ==
  ASSUME TypeOK, Counted, Sound, NEW r \in Requests, Commit(r), CommitIssue(r)
  PROVE  Sound'
<1> DEFINE a == txn[r].app
           d == txn[r].draft
           c == txn[r].cert
<1>1. /\ a \in Applications /\ app \in [Applications -> Application]
      /\ c \in Certificate /\ cert \in [Applications -> Certificate]
      /\ shown \subseteq [app : Applications, cert : Certificate]
      /\ txn[r].op = "issue" /\ txn[r].phase = "flushed" /\ Knows(r) /\ Tables
  BY DEF TypeOK, Txn, CommitIssue, Commit, Sound
<1>2. /\ lock[a] = r /\ life[a] = "stored" /\ a \in earned
      /\ stage[r] = "held" /\ key[r].kind = "certificate"
      /\ cert[a] = NoCertificate /\ c.number = Held(r)
      /\ d.certificate = c.number /\ d.number = app[a].number
  BY <1>1 DEF Knows, Changing, Idle, Flushed, At, Kind
<1>3. /\ app' = [app EXCEPT ![a] = d] /\ cert' = [cert EXCEPT ![a] = c]
      /\ Numbers!CommitNumber(r)
      /\ Issued(r) = [app |-> a, cert |-> c] /\ Issued(r) \in shown
      /\ shown' = shown /\ unbacked' = unbacked \ {Issued(r)}
      /\ UNCHANGED <<life, earned>>
  BY <1>1 DEF Commit, CommitIssue, Knows, Issued
<1>4. /\ app'[a] = d /\ cert'[a] = c
      /\ \A b \in Applications \ {a} : app'[b] = app[b] /\ cert'[b] = cert[b]
      /\ \A b \in Applications : app'[b].number = app[b].number
  BY <1>1, <1>2, <1>3
<1>5. c.number # NoNumber /\ c # NoCertificate
  BY <1>2, HeldIsNumber DEF NoCertificate
<1>6. \A s \in shown \ unbacked : s.app # a
  <2>1. SUFFICES ASSUME NEW s \in shown \ unbacked, s.app = a PROVE FALSE
    OBVIOUS
  <2>2. s.cert = NoCertificate
    BY <1>1, <1>2, <2>1 DEF Tables, ShownStaysValid
  <2>3. s.cert.number # NoNumber
    BY <1>1, <2>1 DEF Tables, CertificatesAreShown
  <2>4. QED
    BY <2>2, <2>3 DEF NoCertificate
<1>7. /\ \A kind \in {"registration", "certificate"}, n \in Number :
             FromSeries(granted, kind, n) => FromSeries(granted', kind, n)
      /\ FromSeries(granted', "certificate", Held(r))
  BY <1>2, <1>3, GrantedGrows
<1>8. \A s \in shown \ unbacked : s.cert.number # c.number
  BY <1>1, <1>2, FreshNumber DEF Tables, NumbersOfTheirKind
<1>9. Tables'
  <2>1. CertificatesAreShown'
    BY <1>1, <1>2, <1>3, <1>4, <1>5 DEF Tables, CertificatesAreShown
  <2>2. EligibleIsEarned'
    BY <1>1, <1>2, <1>3, <1>4 DEF Tables, EligibleIsEarned
  <2>3. CertificateLinked'
    BY <1>1, <1>2, <1>3, <1>4 DEF Tables, CertificateLinked
  <2>4. ShownStaysValid'
    <3>1. \A s \in shown' \ unbacked' : life'[s.app] = "stored" => cert'[s.app] = s.cert
      BY <1>1, <1>3, <1>4, <1>6 DEF Tables, ShownStaysValid
    <3>2. \A s, t \in shown' \ unbacked' :
              s.app = t.app \/ s.cert.number = t.cert.number => s = t
      BY <1>1, <1>3, <1>6, <1>8 DEF Tables, ShownStaysValid
    <3>3. QED
      BY <3>1, <3>2 DEF ShownStaysValid
  <2>5. CertificateEarned'
    BY <1>1, <1>2, <1>3, <1>4 DEF Tables, CertificateEarned
  <2>6. NumbersOfTheirKind'
    <3>1. \A b \in Applications : app[b].number \in Number
      BY <1>1 DEF Application
    <3>2. \A s \in shown : s.cert.number \in Number
      BY <1>1 DEF Certificate
    <3>3. \A b \in Applications : life'[b] # "unborn" =>
              FromSeries(granted', "registration", app'[b].number)
      BY <1>1, <1>3, <1>4, <1>7, <3>1 DEF Tables, NumbersOfTheirKind
    <3>4. \A s \in shown' \ unbacked' : FromSeries(granted', "certificate", s.cert.number)
      BY <1>1, <1>2, <1>3, <1>7, <3>2 DEF Tables, NumbersOfTheirKind
    <3>5. \A b, e \in Applications :
              life'[b] # "unborn" /\ life'[e] # "unborn" /\ b # e
              => app'[b].number # app'[e].number
      BY <1>1, <1>3, <1>4 DEF Tables, NumbersOfTheirKind
    <3>6. QED
      BY <3>3, <3>4, <3>5 DEF NumbersOfTheirKind
  <2>7. QED
    BY <2>1, <2>2, <2>3, <2>4, <2>5, <2>6 DEF Tables
<1>10. app[a].certificate = NoNumber
  BY <1>1, <1>2 DEF Tables, CertificateLinked, NoCertificate
<1>11. ASSUME NEW q \in Requests \ {r} PROVE Knows(q)'
  BY <1>2, <1>3, <1>4, <1>10, NumberCommitted, OthersAfterCommit
<1>12. QED
  BY <1>3, <1>9, <1>11, NumberCommitted, CommitParts

-----------------------------------------------------------------------------
(***************************************************************************)
(* Theorems                                                                *)
(***************************************************************************)
LEMMA SoundInit == Init => Sound
<1> SUFFICES ASSUME Init PROVE Sound
  OBVIOUS
<1>1. \A r \in Requests : Knows(r)
  BY DEF Init, NoTxn, Numbers!Init, Knows, Idle, Changing, Flushed, At
<1>2. Exclusive
  BY DEF Init, NoTxn, Exclusive
<1>3. Tables
  BY DEF Init, Tables, CertificatesAreShown, EligibleIsEarned, CertificateLinked,
         ShownStaysValid, CertificateEarned, NumbersOfTheirKind
<1>4. QED
  BY <1>1, <1>2, <1>3 DEF Sound

LEMMA SoundStep == TypeOK /\ Counted /\ Sound /\ [Next]_vars => Sound'
<1> SUFFICES ASSUME TypeOK, Counted, Sound, [Next]_vars PROVE Sound'
  OBVIOUS
<1>1. ASSUME NEW r \in Requests, Commit(r) PROVE Sound'
  BY <1>1, RegisterIsSound, UpdateIsSound, DeleteIsSound, CertificateIsSound
     DEF Commit
<1>2. ASSUME NEW r \in Requests, Rollback(r) PROVE Sound'
  BY <1>2, UndoIsSound DEF Rollback
<1>3. CASE UNCHANGED vars
  <2>1. Tables' /\ Exclusive'
    BY <1>3, TablesKept DEF vars, counterVars, answerVars, Sound, Exclusive
  <2>2. \A r \in Requests : Knows(r)'
    BY <1>3 DEF vars, counterVars, answerVars, Sound, Knows, Idle, Changing,
                Flushed, At, Held, Issued
  <2>3. QED
    BY <2>1, <2>2 DEF Sound
<1>4. QED
  BY <1>1, <1>2, <1>3, BeginIsSound, HandleIsSound, AnswerIsSound DEF Next

LEMMA InternshipsSound == Spec => [](TypeOK /\ Counted /\ Sound)
<1>1. Init => TypeOK /\ Counted /\ Sound
  BY TypeInit, CountedInit, SoundInit
<1>2. TypeOK /\ Counted /\ Sound /\ [Next]_vars => (TypeOK /\ Counted /\ Sound)'
  BY TypeStep, CountedStep, SoundStep
<1>3. QED
  BY <1>1, <1>2, PTL DEF Spec

\* The inductive invariant the run checks is one.
THEOREM RequestsStaySound == Spec => []OpenRequestsAreSound
BY InternshipsSound, SoundMeansOpenRequestsAreSound, PTL

\* certificate_id always names the certificate of the application, whatever
\* PATCH, DELETE and failed requests overlap issue_certificate.
THEOREM CertificatesAreLinked == Spec => []CertificateLinked
<1>1. Sound => CertificateLinked
  BY DEF Sound, Tables
<1>2. QED
  BY <1>1, InternshipsSound, PTL

\* One certificate for an application, for good: an answer of
\* issue_certificate stays true as long as the application is there, once the
\* request that sent it has committed.  The commit comes after the answer: one
\* that is unbacked, because it has not come yet or has failed, may be untrue.
THEOREM CertificatesStayValid == Spec => []ShownStaysValid
<1>1. Sound => ShownStaysValid
  BY DEF Sound, Tables
<1>2. QED
  BY <1>1, InternshipsSound, PTL

\* No certificate without a status that staff set to an eligible one.
THEOREM CertificatesAreEarned == Spec => []CertificateEarned
<1>1. Sound => CertificateEarned
  BY DEF Sound, Tables
<1>2. QED
  BY <1>1, InternshipsSound, PTL

\* Registration numbers and the numbers of committed certificates come from the
\* series of their kind, and no two registrations share one.
THEOREM DocumentsAreNumbered == Spec => []NumbersOfTheirKind
<1>1. Sound => NumbersOfTheirKind
  BY DEF Sound, Tables
<1>2. QED
  BY <1>1, InternshipsSound, PTL

\* The name on a certificate is the one of its application at the commit.
THEOREM NamesAreCurrent == Spec => NameAtIssue
<1> DEFINE Named == \A a \in Applications :
                        cert[a] = NoCertificate /\ cert'[a] # NoCertificate
                        => cert'[a].name = app[a].name /\ app'[a].name = app[a].name
<1>1. TypeOK /\ Sound /\ [Next]_vars => [Named]_vars
  <2> SUFFICES ASSUME TypeOK, Sound, Next,
                      NEW a \in Applications, cert[a] = NoCertificate,
                      cert'[a] # NoCertificate
               PROVE  cert'[a].name = app[a].name /\ app'[a].name = app[a].name
    OBVIOUS
  <2>1. PICK r \in Requests :
            Begin(r) \/ Handle(r) \/ Answer(r) \/ Commit(r) \/ Rollback(r)
    BY DEF Next
  <2>2. Commit(r)
    <3>1. ~Begin(r)
      BY Zenon DEF Begin, StartRegister, StartUpdate, Load
    <3>2. ~Rollback(r) /\ ~Undo(r) /\ ~Answer(r)
      BY DEF Rollback, Undo, Answer
    <3>3. /\ ~AllocateCounter(r) /\ ~AllocationConflict(r) /\ ~CreateApplication(r)
          /\ ~ReturnExisting(r) /\ ~RefuseCertificate(r) /\ ~BeginCertificate(r)
      BY Zenon DEF AllocateCounter, AllocationConflict, CreateApplication,
                   ReturnExisting, RefuseCertificate, BeginCertificate
    <3>4. ~UpdateApplication(r) /\ ~DeleteApplication(r) /\ ~IssueCertificate(r)
      BY Zenon DEF UpdateApplication, DeleteApplication, IssueCertificate, LockRow
    <3>5. ~RowVanished(r) /\ ~CertificateConflict(r)
      BY <3>2, Zenon DEF RowVanished, CertificateConflict
    <3>6. QED
      BY <2>1, <3>1, <3>2, <3>3, <3>4, <3>5, Zenon DEF Handle
  <2>3. CommitIssue(r) /\ txn[r].app = a
    BY <2>2 DEF Commit, CommitRegister, CommitUpdate, CommitIssue, CommitDelete,
                TypeOK
  <2>4. /\ txn[r].cert.name = app[a].name /\ txn[r].draft.name = app[a].name
    BY <2>2, <2>3 DEF Commit, CommitIssue, Sound, Knows, Changing, Idle, Flushed, At
  <2>5. cert'[a] = txn[r].cert /\ app'[a] = txn[r].draft
    BY <2>3 DEF CommitIssue, TypeOK
  <2>6. QED
    BY <2>4, <2>5
<1>2. QED
  BY <1>1, InternshipsSound, PTL DEF Spec, NameAtIssue
=============================================================================
