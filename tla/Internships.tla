---------------------------- MODULE Internships ----------------------------
(***************************************************************************)
(* Internship applications and their certificates: InternshipService and   *)
(* InternshipRepository, one transaction for each request.                 *)
(*                                                                         *)
(* issue_certificate decides on an application it read without a lock,     *)
(* looks for a certificate in a second statement, then numbers one, writes *)
(* the application and inserts the certificate; application_id is unique   *)
(* in internship_certificates, so the second of two requests that both     *)
(* found none fails as a whole.  An UPDATE writes the columns that differ  *)
(* from the values read, to the row as it is when its lock is free.        *)
(*                                                                         *)
(* The answer comes before the commit, which is the exit code of get_db: a *)
(* certificate may have been returned by a request that then fails.        *)
(*                                                                         *)
(* Data kept of an application: full_name, status, registration_number and *)
(* certificate_id.  The uuid of a certificate is represented by the number *)
(* allocated for it.  Announcements (they are never deleted), the other    *)
(* columns, QR code and HTML are not modelled, nor are 404 answers.        *)
(***************************************************************************)
EXTENDS Naturals, Sequences, FiniteSets

CONSTANTS
    Requests,       \* requests that may run at the same time
    Applications,   \* identifiers (uuid4): never used again after a delete
    Years,          \* calendar years of the counters
    Names,          \* full_name, typed in by the applicant or by staff
    Drafts,         \* payloads of POST /applications
    Patches,        \* payloads of PATCH /applications/{id}
    MaxGranted,     \* bound: numbers of one kind in one year
    MaxLost,        \* bound: certificates returned whose commit then failed
    Nobody,         \* "no request": the row is not locked
    Keep            \* a field that is not sent

Statuses == {"registered", "shortlisted", "active", "completed", "rejected"}
Eligible == {"shortlisted", "active", "completed"}

ASSUME NobodyIsNoRequest == Nobody \notin Requests
ASSUME SomeApplication == Applications # {}
ASSUME SomeYear == Years # {}
ASSUME SomeName == Names # {}
ASSUME DraftsAreComplete == Drafts \subseteq [name : Names, status : Statuses]
ASSUME PatchesArePayloads ==
    Patches \subseteq [name : Names \cup {Keep}, status : Statuses \cup {Keep}]
ASSUME MaxGrantedIsNatural == MaxGranted \in Nat

VARIABLES
    life,    \* life[a]: whether the row of a is unborn, stored or deleted
    app,     \* app[a]: the committed row of a (the last one when deleted)
    cert,    \* cert[a]: the committed certificate of a, NoCertificate if none
    lock,    \* lock[a]: the request that updated the row of a, uncommitted
    txn,     \* txn[r]: the request r and its open transaction
    counter, holder, stage, key, taken, granted,  \* see ReceiptCounter
    earned,  \* history: applications staff committed in an eligible status
    replied, \* requests whose answer was sent, not committed yet
    shown,   \* history: the certificates that were returned
    unbacked \* history: those of them returned by a request that has not
             \* committed

counterVars == <<counter, holder, stage, key, taken, granted>>
answerVars == <<replied, shown, unbacked>>
vars == <<life, app, cert, lock, txn, counterVars, earned, answerVars>>

\* internship_counters: one key per kind and year, for one organisation.
Series == [kind : {"registration", "certificate"}, year : Years]
Starts == [k \in Series |-> IF k.kind = "registration" THEN 100 ELSE 500]
Numbers == INSTANCE ReceiptCounter WITH Keys <- Series, Start <- Starts

Number == [year : Years, value : Nat]
NoNumber == [year |-> CHOOSE y \in Years : TRUE, value |-> 0]

Application == [name : Names, status : Statuses, number : Number,
                certificate : Number]
NoApplication == [name |-> CHOOSE n \in Names : TRUE, status |-> "registered",
                  number |-> NoNumber, certificate |-> NoNumber]

Certificate == [number : Number, name : Names]
NoCertificate == [number |-> NoNumber, name |-> CHOOSE n \in Names : TRUE]

\* seen: the row as it was read, until the request has written its own.
Txn == [op : {"register", "update", "issue", "delete"},
        phase : {"idle", "loaded", "allocating", "flushed"},
        app : Applications, seen : Application, draft : Application,
        cert : Certificate]
NoTxn == [op |-> "register", phase |-> "idle",
          app |-> CHOOSE a \in Applications : TRUE, seen |-> NoApplication,
          draft |-> NoApplication, cert |-> NoCertificate]

\* A certificate was returned by a request that had written it, and an answer
\* waits for the commit of a request that has written all it had to.
AnswersOK ==
    /\ unbacked \subseteq shown
    /\ replied \subseteq Requests
    /\ \A r \in replied : txn[r].phase = "flushed"

TypeOK ==
    /\ life \in [Applications -> {"unborn", "stored", "deleted"}]
    /\ app \in [Applications -> Application]
    /\ cert \in [Applications -> Certificate]
    /\ lock \in [Applications -> Requests \cup {Nobody}]
    /\ txn \in [Requests -> Txn]
    /\ Numbers!TypeOK
    /\ earned \subseteq Applications
    /\ shown \subseteq [app : Applications, cert : Certificate]
    /\ AnswersOK

Init ==
    /\ life = [a \in Applications |-> "unborn"]
    /\ app = [a \in Applications |-> NoApplication]
    /\ cert = [a \in Applications |-> NoCertificate]
    /\ lock = [a \in Applications |-> Nobody]
    /\ txn = [r \in Requests |-> NoTxn]
    /\ Numbers!Init
    /\ earned = {}
    /\ replied = {} /\ shown = {} /\ unbacked = {}

-----------------------------------------------------------------------------
Idle(r) == txn[r].phase = "idle"
At(r, op, phase) == txn[r].op = op /\ txn[r].phase = phase
Finish(r) == txn' = [txn EXCEPT ![r] = NoTxn]

Unlocked(r) == [a \in Applications |-> IF lock[a] = r THEN Nobody ELSE lock[a]]

\* The number r holds, uncommitted.
Held(r) == [year |-> key[r].year, value |-> taken[r]]

\* A column in the row an UPDATE leaves behind: the current value unless the
\* handler changed the value it had loaded.
Column(was, now, new) == IF new = was THEN now ELSE new

\* Mutant: an UPDATE of every column, with the values loaded for the others.
AfterWholeRow(was, now, new) == new

\* The row an UPDATE leaves when its handler read was and wants new.
After(was, now, new) ==
    [name        |-> Column(was.name, now.name, new.name),
     status      |-> Column(was.status, now.status, new.status),
     number      |-> now.number,
     certificate |-> Column(was.certificate, now.certificate, new.certificate)]

\* get_application: a plain SELECT of the committed row.
Load(r, a, op, edit) ==
    /\ Idle(r)
    /\ life[a] = "stored"
    /\ txn' = [txn EXCEPT ![r] = [NoTxn EXCEPT !.op = op, !.phase = "loaded",
                                     !.app = a, !.seen = app[a], !.draft = edit]]
    /\ UNCHANGED <<life, app, cert, lock, counterVars, earned, answerVars>>

\* flush: needs the row, waits for its lock and keeps it.
LockRow(r) ==
    LET a == txn[r].app IN
    /\ life[a] = "stored"
    /\ lock[a] = Nobody
    /\ lock' = [lock EXCEPT ![a] = r]
    /\ UNCHANGED <<life, app, cert, counterVars, earned, answerVars>>

-----------------------------------------------------------------------------
(***************************************************************************)
(* POST /applications and /applications/public (a draft that is always     *)
(* registered)                                                             *)
(***************************************************************************)
StartRegister(r, a) ==
    /\ Idle(r)
    /\ life[a] = "unborn"
    /\ \A q \in Requests : Idle(q) \/ txn[q].app # a
    /\ \E p \in Drafts :
           txn' = [txn EXCEPT ![r] = [NoTxn EXCEPT
                      !.phase = "allocating", !.app = a,
                      !.draft = [NoApplication EXCEPT !.name = p.name,
                                                      !.status = p.status]]]
    /\ UNCHANGED <<life, app, cert, lock, counterVars, earned, answerVars>>

\* Mutant: one series of numbers for both kinds of document.
KindIgnored(op) == "registration"

Kind(op) == IF op = "register" THEN "registration" ELSE "certificate"

\* allocate_counter, in the year of the clock.
AllocateCounter(r) ==
    /\ txn[r].phase = "allocating"
    /\ \/ \E y \in Years :
              LET k == [kind |-> Kind(txn[r].op), year |-> y] IN
              Numbers!LockAndIncrement(r, k) \/ Numbers!FindNoRow(r, k)
       \/ Numbers!InsertRow(r)
    /\ UNCHANGED <<life, app, cert, lock, txn, earned, answerVars>>

\* Two first documents of a kind and year: the loser's INSERT fails, 500.
AllocationConflict(r) ==
    /\ txn[r].phase = "allocating"
    /\ Numbers!InsertConflict(r)
    /\ Finish(r)
    /\ UNCHANGED <<life, app, cert, lock, earned, answerVars>>

CreateApplication(r) ==
    /\ At(r, "register", "allocating")
    /\ stage[r] = "held"
    /\ txn' = [txn EXCEPT ![r].phase = "flushed", ![r].draft.number = Held(r)]
    /\ UNCHANGED <<life, app, cert, lock, counterVars, earned, answerVars>>

-----------------------------------------------------------------------------
(***************************************************************************)
(* PATCH /applications/{id}, DELETE /applications/{id}                     *)
(***************************************************************************)
Given(field, old) == IF field = Keep THEN old ELSE field

StartUpdate(r, a) ==
    \E p \in Patches :
        Load(r, a, "update", [app[a] EXCEPT !.name = Given(p.name, @),
                                            !.status = Given(p.status, @)])

\* updated_at always changes, so there is an UPDATE even without new values.
UpdateApplication(r) ==
    LET t == txn[r] IN
    /\ At(r, "update", "loaded")
    /\ LockRow(r)
    /\ txn' = [txn EXCEPT ![r].phase = "flushed", ![r].seen = NoApplication,
                          ![r].draft = After(t.seen, app[t.app], t.draft)]

DeleteApplication(r) ==
    /\ At(r, "delete", "loaded")
    /\ LockRow(r)
    /\ txn' = [txn EXCEPT ![r].phase = "flushed", ![r].seen = NoApplication,
                          ![r].draft = NoApplication]

-----------------------------------------------------------------------------
(***************************************************************************)
(* POST /applications/{id}/certificate                                     *)
(***************************************************************************)

\* get_certificate_for_application finds one, possibly committed after the
\* application was read: it is the answer.
ReturnExisting(r) ==
    LET a == txn[r].app IN
    /\ At(r, "issue", "loaded")
    /\ cert[a] # NoCertificate
    /\ shown' = shown \cup {[app |-> a, cert |-> cert[a]]}
    /\ Finish(r)
    /\ UNCHANGED <<life, app, cert, lock, counterVars, earned, replied, unbacked>>

\* 409: "Certificate can be issued only for shortlisted, active, or completed
\* interns".
RefuseCertificate(r) ==
    /\ At(r, "issue", "loaded")
    /\ cert[txn[r].app] = NoCertificate
    /\ txn[r].seen.status \notin Eligible
    /\ Finish(r)
    /\ UNCHANGED <<life, app, cert, lock, counterVars, earned, answerVars>>

\* Mutant: every application has a certificate made.
BeginCertificateAnyStatus(r) ==
    /\ At(r, "issue", "loaded")
    /\ cert[txn[r].app] = NoCertificate
    /\ txn' = [txn EXCEPT ![r].phase = "allocating"]
    /\ UNCHANGED <<life, app, cert, lock, counterVars, earned, answerVars>>

BeginCertificate(r) ==
    /\ At(r, "issue", "loaded")
    /\ cert[txn[r].app] = NoCertificate
    /\ txn[r].seen.status \in Eligible
    /\ txn' = [txn EXCEPT ![r].phase = "allocating"]
    /\ UNCHANGED <<life, app, cert, lock, counterVars, earned, answerVars>>

\* Mutant: CertificateStatus.ISSUED is written to the application.
CompletedAsIssued(r) ==
    LET t == txn[r] IN
    After(t.seen, app[t.app],
          [t.seen EXCEPT !.status = "issued", !.certificate = Held(r)])

\* The application with its certificate, as save_application refreshes it.
Completed(r) ==
    LET t == txn[r] IN
    After(t.seen, app[t.app],
          [t.seen EXCEPT !.status = "completed", !.certificate = Held(r)])

\* Mutant: application_id is not unique in internship_certificates.
IssueAnother(r) ==
    /\ At(r, "issue", "allocating")
    /\ stage[r] = "held"
    /\ LockRow(r)
    /\ txn' = [txn EXCEPT ![r].phase = "flushed", ![r].seen = NoApplication,
                   ![r].draft = Completed(r),
                   ![r].cert = [number |-> Held(r), name |-> Completed(r).name]]

\* Mutant: the name is the one that was read before the number was allocated.
IssueStaleName(r) ==
    /\ At(r, "issue", "allocating")
    /\ stage[r] = "held"
    /\ cert[txn[r].app] = NoCertificate
    /\ LockRow(r)
    /\ txn' = [txn EXCEPT ![r].phase = "flushed", ![r].seen = NoApplication,
                   ![r].draft = Completed(r),
                   ![r].cert = [number |-> Held(r), name |-> txn[r].seen.name]]

\* save_application, then create_certificate under the lock of the row.
IssueCertificate(r) ==
    /\ At(r, "issue", "allocating")
    /\ stage[r] = "held"
    /\ cert[txn[r].app] = NoCertificate
    /\ LockRow(r)
    /\ txn' = [txn EXCEPT ![r].phase = "flushed", ![r].seen = NoApplication,
                   ![r].draft = Completed(r),
                   ![r].cert = [number |-> Held(r), name |-> Completed(r).name]]

-----------------------------------------------------------------------------
\* get_db: everything the transaction wrote is undone.
Undo(r) ==
    /\ IF stage[r] = "none" THEN UNCHANGED counterVars
       ELSE Numbers!RollbackNumber(r)
    /\ lock' = Unlocked(r)
    /\ replied' = replied \ {r}
    /\ Finish(r)
    /\ UNCHANGED <<life, app, cert, earned, shown, unbacked>>

\* Another request inserted a certificate since this one looked: application_id
\* is not unique, 500.
CertificateConflict(r) ==
    LET a == txn[r].app IN
    /\ At(r, "issue", "allocating")
    /\ stage[r] = "held"
    /\ lock[a] = Nobody
    /\ cert[a] # NoCertificate
    /\ Undo(r)

\* The row is gone when the lock is free: an UPDATE fails (StaleDataError),
\* a DELETE has nothing left to do.
RowVanished(r) ==
    LET a == txn[r].app IN
    /\ \/ At(r, "update", "loaded") \/ At(r, "delete", "loaded")
       \/ At(r, "issue", "allocating") /\ stage[r] = "held"
    /\ lock[a] = Nobody
    /\ life[a] = "deleted"
    /\ Undo(r)

\* The certificate a request for one has written.
Issued(r) == [app |-> txn[r].app, cert |-> txn[r].cert]

\* Certificates that were returned and will not be committed.
Lost == unbacked \ {Issued(r) : r \in replied}

\* A failure before the commit, a client that goes away, and a commit that
\* fails when the answer is out.
Rollback(r) ==
    /\ ~Idle(r)
    /\ r \in replied /\ txn[r].op = "issue" => Cardinality(Lost) < MaxLost
    /\ Undo(r)

\* The answer is sent when the handler has returned.
Answer(r) ==
    /\ txn[r].phase = "flushed"
    /\ r \notin replied
    /\ replied' = replied \cup {r}
    /\ IF txn[r].op = "issue"
       THEN shown' = shown \cup {Issued(r)} /\ unbacked' = unbacked \cup {Issued(r)}
       ELSE UNCHANGED <<shown, unbacked>>
    /\ UNCHANGED <<life, app, cert, lock, txn, counterVars, earned>>

Earn(a, row) == earned' = IF row.status \in Eligible THEN earned \cup {a} ELSE earned

CommitRegister(r) ==
    LET t == txn[r] IN
    /\ t.op = "register"
    /\ life' = [life EXCEPT ![t.app] = "stored"]
    /\ app' = [app EXCEPT ![t.app] = t.draft]
    /\ Numbers!CommitNumber(r)
    /\ Earn(t.app, t.draft)
    /\ UNCHANGED <<cert, unbacked>>

CommitUpdate(r) ==
    LET t == txn[r] IN
    /\ t.op = "update"
    /\ app' = [app EXCEPT ![t.app] = t.draft]
    /\ Earn(t.app, t.draft)
    /\ UNCHANGED <<life, cert, counterVars, unbacked>>

CommitIssue(r) ==
    LET t == txn[r] IN
    /\ t.op = "issue"
    /\ app' = [app EXCEPT ![t.app] = t.draft]
    /\ cert' = [cert EXCEPT ![t.app] = t.cert]
    /\ Numbers!CommitNumber(r)
    /\ unbacked' = unbacked \ {Issued(r)}
    /\ UNCHANGED <<life, earned>>

\* The certificate goes with its application (ON DELETE CASCADE).
CommitDelete(r) ==
    LET t == txn[r] IN
    /\ t.op = "delete"
    /\ life' = [life EXCEPT ![t.app] = "deleted"]
    /\ cert' = [cert EXCEPT ![t.app] = NoCertificate]
    /\ UNCHANGED <<app, counterVars, earned, unbacked>>

\* get_db: its exit code commits, after the answer.
Commit(r) ==
    /\ txn[r].phase = "flushed"
    /\ r \in replied
    /\ CommitRegister(r) \/ CommitUpdate(r) \/ CommitIssue(r) \/ CommitDelete(r)
    /\ lock' = Unlocked(r)
    /\ replied' = replied \ {r}
    /\ Finish(r)
    /\ UNCHANGED shown

Begin(r) ==
    \E a \in Applications :
        \/ StartRegister(r, a) \/ StartUpdate(r, a)
        \/ \E op \in {"issue", "delete"} : Load(r, a, op, app[a])

Handle(r) ==
    \/ AllocateCounter(r) \/ AllocationConflict(r) \/ CreateApplication(r)
    \/ UpdateApplication(r) \/ DeleteApplication(r) \/ RowVanished(r)
    \/ ReturnExisting(r) \/ RefuseCertificate(r) \/ BeginCertificate(r)
    \/ IssueCertificate(r) \/ CertificateConflict(r)

Next == \E r \in Requests :
            Begin(r) \/ Handle(r) \/ Answer(r) \/ Commit(r) \/ Rollback(r)

Spec == Init /\ [][Next]_vars
-----------------------------------------------------------------------------
(***************************************************************************)
(* certificate_id of an application names the certificate stored for it,   *)
(* and is null as long as there is none: a PATCH that read the application *)
(* before its certificate was issued does not unlink it, and a request     *)
(* that fails between save_application and create_certificate leaves       *)
(* neither.  A deleted application takes its certificate with it.          *)
(***************************************************************************)
CertificateLinked ==
    \A a \in Applications :
        /\ life[a] = "stored" => app[a].certificate = cert[a].number
        /\ life[a] # "stored" => cert[a] = NoCertificate

(***************************************************************************)
(* A certificate that was returned stays the one of its application, with  *)
(* the same number and name, until the application is deleted: two         *)
(* issue_certificate that both found none never hand out two, a repeated   *)
(* one returns the first, and no number is on the certificates of two      *)
(* applications.  Nothing is promised of a certificate that is unbacked:   *)
(* the request that returned it has not committed yet, or never did, and   *)
(* then its number goes to another.                                        *)
(***************************************************************************)
ShownStaysValid ==
    /\ \A s \in shown \ unbacked : life[s.app] = "stored" => cert[s.app] = s.cert
    /\ \A s, t \in shown \ unbacked :
           s.app = t.app \/ s.cert.number = t.cert.number => s = t

(***************************************************************************)
(* Only an application that staff once shortlisted, made active or         *)
(* completed has a certificate, although issue_certificate tests the       *)
(* status it read and itself sets completed.  (That the application is     *)
(* still eligible when the certificate is committed is not promised: the   *)
(* status may be rejected in between.)                                     *)
(***************************************************************************)
CertificateEarned ==
    \A a \in Applications : cert[a] # NoCertificate => a \in earned

(***************************************************************************)
(* Registration numbers and those of certificates that were returned and   *)
(* are not unbacked are each from the committed series of their kind, and  *)
(* no two applications, deleted ones included, were registered under the   *)
(* same number.                                                            *)
(***************************************************************************)
FromSeries(numbers, kind, n) ==
    \E i \in 1..Len(numbers[[kind |-> kind, year |-> n.year]]) :
        numbers[[kind |-> kind, year |-> n.year]][i] = n.value

NumbersOfTheirKind ==
    /\ \A a \in Applications :
           life[a] # "unborn" => FromSeries(granted, "registration", app[a].number)
    /\ \A s \in shown \ unbacked : FromSeries(granted, "certificate", s.cert.number)
    /\ \A a, b \in Applications :
           life[a] # "unborn" /\ life[b] # "unborn" /\ a # b
           => app[a].number # app[b].number

(***************************************************************************)
(* A certificate carries the name its application has when it is issued: a *)
(* PATCH of full_name committed after issue_certificate read the           *)
(* application is on it, because save_application refreshes the row under  *)
(* its lock.                                                               *)
(***************************************************************************)
NameAtIssue ==
    [][\A a \in Applications :
          cert[a] = NoCertificate /\ cert'[a] # NoCertificate
          => cert'[a].name = app[a].name /\ app'[a].name = app[a].name]_vars

-----------------------------------------------------------------------------
(***************************************************************************)
(* The parts of the inductive invariant: what an open request knows.       *)
(***************************************************************************)
Changing(r) == ~Idle(r) /\ txn[r].op # "register"
Flushed(r, op) == At(r, op, "flushed")

\* The lock of an application is held by a request that has written it and
\* needs no other lock any more: it only has to commit.
LocksAreHeld ==
    /\ \A r \in Requests : Changing(r) /\ txn[r].phase = "flushed" =>
           lock[txn[r].app] = r /\ life[txn[r].app] = "stored"
    /\ \A a \in Applications : lock[a] # Nobody =>
           /\ Changing(lock[a]) /\ txn[lock[a]].phase = "flushed"
           /\ txn[lock[a]].app = a

\* An application is at work in one registration, or was registered.
RegisteredOnce ==
    \A r \in Requests : ~Idle(r) =>
        IF txn[r].op = "register"
        THEN /\ life[txn[r].app] = "unborn"
             /\ txn[r].phase # "loaded"
             /\ txn[r].draft.certificate = NoNumber
             /\ \A q \in Requests : ~Idle(q) /\ txn[q].app = txn[r].app => q = r
        ELSE life[txn[r].app] # "unborn"

\* A number is held by a request that registers or issues, under its kind, and
\* what the request has written carries it.
NumbersAreHeld ==
    \A r \in Requests :
        /\ stage[r] # "none" =>
               /\ txn[r].phase \in {"allocating", "flushed"}
               /\ txn[r].op \in {"register", "issue"}
               /\ key[r].kind = Kind(txn[r].op)
        /\ txn[r].phase = "allocating" => txn[r].op \in {"register", "issue"}
        /\ Flushed(r, "register") => stage[r] = "held" /\ txn[r].draft.number = Held(r)
        /\ Flushed(r, "issue") => stage[r] = "held" /\ txn[r].cert.number = Held(r)

\* What was read of an application may be out of date, but neither its link to
\* a certificate nor that it was eligible can be taken back.
SeenIsPast ==
    \A r \in Requests : Changing(r) =>
        LET t == txn[r] IN
        /\ t.seen.status \in Eligible \/ t.phase = "allocating" \/ Flushed(r, "issue")
               => t.app \in earned
        /\ life[t.app] = "stored" /\ t.seen.certificate # NoNumber
               => t.seen.certificate = app[t.app].certificate
        /\ At(r, "update", "loaded") => t.draft.certificate = t.seen.certificate

\* What is about to be committed keeps what it must keep.
DraftsAreSound ==
    \A r \in Requests : Changing(r) =>
        LET t == txn[r] IN
        /\ Flushed(r, "update") => /\ t.draft.number = app[t.app].number
                                   /\ t.draft.certificate = app[t.app].certificate
        /\ Flushed(r, "issue") => /\ cert[t.app] = NoCertificate
                                  /\ t.draft.number = app[t.app].number
                                  /\ t.draft.certificate = t.cert.number
                                  /\ t.draft.name = app[t.app].name
                                  /\ t.cert.name = app[t.app].name

\* Every certificate was returned by the request that made it, before the
\* request committed.
CertificatesAreShown ==
    /\ \A a \in Applications : cert[a] # NoCertificate =>
           [app |-> a, cert |-> cert[a]] \in shown \ unbacked
    /\ \A s \in shown \ unbacked : s.cert.number # NoNumber /\ life[s.app] # "unborn"

\* What an answered request has issued, it has returned.
AnswersAreShown == \A r \in replied : txn[r].op = "issue" => Issued(r) \in shown

EligibleIsEarned ==
    \A a \in Applications :
        life[a] = "stored" /\ app[a].status \in Eligible => a \in earned

OpenRequestsAreSound ==
    /\ LocksAreHeld /\ RegisteredOnce /\ NumbersAreHeld
    /\ SeenIsPast /\ DraftsAreSound
    /\ CertificatesAreShown /\ AnswersAreShown /\ EligibleIsEarned
=============================================================================
