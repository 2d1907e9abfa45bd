------------------------------- MODULE Access -------------------------------
(***************************************************************************)
(* One browser in front of the backend: its session cookie, the user it    *)
(* keeps in localStorage, one tab that shows the login page, a dashboard   *)
(* page or a public form, and the requests the tab sends through the two   *)
(* proxies (/api/v1 and /cms/api), which check the session, count the      *)
(* request (RateLimit) and forward it.                                     *)
(*                                                                         *)
(* A session is an administrator's or a staff member's: authorize knows no *)
(* other user; without a session the role is GUEST.  A form's text stands  *)
(* for all its fields: 0 is the empty form, and every text typed is new.   *)
(***************************************************************************)
EXTENDS RateLimit, Sequences, SequencesExt

CONSTANTS
    RequireAuth,    \* NEXT_PUBLIC_REQUIRE_AUTH
    MaxCalls,       \* bound: requests the browser sends
    MaxTexts        \* bound: forms filled in

ASSUME KeysAssumption == Keys = {"api:public", "api:auth", "cms:public", "cms:auth"}
ASSUME BrowserAssumption == RequireAuth \in BOOLEAN /\ {MaxCalls, MaxTexts} \subseteq Nat

VARIABLES
    cookie,     \* role of the session
    stored,     \* role of the user in localStorage
    tab,        \* page, session useSession knows, role the page took, and whether
                \* it took it after its session was known; logout was asked for
    form,       \* the public form that is open
    calls,      \* requests of the browser, in the order sent
    rows,       \* rows[t]: rows the backend stored for text t
    doubt,      \* texts whose request was stored and answered with an error
    typed,      \* texts typed so far
    sent        \* requests sent so far

vars == <<now, bucket, passed, cookie, stored, tab, form, calls, rows, doubt, typed, sent>>

Roles == {"GUEST", "STAFF", "ADMIN"}
SessionRoles == {"STAFF", "ADMIN"}
CanWrite(role) == role \in {"STAFF", "ADMIN"}

PublicForms == {"donate", "contact", "register"}
Texts == 1..MaxTexts

\* open: where the announcement to register for was found.
BlankForm == [text |-> 0, submitting |-> FALSE, error |-> FALSE, thanked |-> 0,
             open |-> "none"]

Request(op, text) ==
    [op |-> op, text |-> text, open |-> IF op = "submit" THEN form.open ELSE "none",
     cookie |-> cookie, state |-> "sent", left |-> FALSE]

Ask(op, text) ==
    /\ sent < MaxCalls
    /\ calls' = Append(calls, Request(op, text))
    /\ sent' = sent + 1

Init ==
    /\ LimitInit
    /\ cookie = "GUEST"
    /\ stored = "GUEST"
    /\ tab = [at |-> "login", known |-> "GUEST", role |-> "GUEST", looked |-> FALSE,
              leaving |-> FALSE]
    /\ form = BlankForm
    /\ calls = <<>>
    /\ rows = [t \in Texts |-> 0]
    /\ doubt = {}
    /\ typed = 0
    /\ sent = 0

-----------------------------------------------------------------------------
(* Session, stored user and pages *)

\* Nobody reads the answers of the page that is left.
Left == [i \in DOMAIN calls |-> [calls[i] EXCEPT !.left = TRUE]]

\* Only the pages of the dashboard take a role.
On(at, known, role) ==
    [at |-> at, known |-> known, role |-> IF at = "page" THEN role ELSE "GUEST",
     looked |-> at = "page" /\ known # "unknown", leaving |-> FALSE]

\* A page that is loaded anew does not know its session yet: its effect takes
\* the stored role.  Within the application AppShell and its session stay.
Loaded(at, role) == On(at, "unknown", role)

\* Mutant: the page takes the role of a session that may not be known yet.
FollowedByKnown(at) == On(at, tab.known, tab.known)

Followed(at) == On(at, tab.known, stored)

\* With RequireAuth the middleware sends a browser without a session to login.
Admitted(at) == at = "page" /\ RequireAuth => cookie # "GUEST"

Opens(at, how) ==
    /\ tab' = how
    /\ form' = BlankForm
    /\ sent < MaxCalls
    /\ sent' = sent + (IF at \in {"page", "register"} THEN 1 ELSE 0)
    /\ calls' = Left \o (CASE at = "page" -> <<Request("staff", 0)>>
                           [] at = "register" -> <<Request("cms", 0)>>
                           [] OTHER -> <<>>)

Visit(at) ==
    /\ at # tab.at
    /\ Admitted(at)
    /\ \E how \in {Loaded(at, stored), Followed(at)} : Opens(at, how)
    /\ UNCHANGED <<limitVars, cookie, stored, rows, doubt, typed>>

\* The login form is there with a session too.
MaySignIn == tab.at = "login"

\* login: the answer sets the cookie, the handler stores the default staff
\* user for the default staff address and the administrator for any other,
\* and loads the dashboard.
SignIn(role) ==
    /\ MaySignIn
    /\ cookie' = role
    /\ stored' \in {role, "ADMIN"}
    /\ tab' = Loaded("page", stored')
    /\ form' = BlankForm
    /\ sent < MaxCalls
    /\ sent' = sent + 1
    /\ calls' = Append(Left, [Request("staff", 0) EXCEPT !.cookie = role])
    /\ UNCHANGED <<limitVars, rows, doubt, typed>>

\* Mutant: AppShell only sets its banner.
BannerOnly(role) == stored' = stored

\* setStoredUser with the session's role.
StoresSession(role) == stored' = role

\* AppShell's effect on [session]: useSession has answered, at first or when
\* the window gets the focus again.
SessionArrives ==
    /\ tab.known # cookie
    /\ IF cookie = "GUEST" THEN stored' = stored ELSE StoresSession(cookie)
    /\ tab' = [tab EXCEPT !.known = cookie]
    /\ UNCHANGED <<limitVars, cookie, form, calls, rows, doubt, typed, sent>>

\* A page's effect runs again (a new filter): the role is looked up again.
LookAgain ==
    /\ tab.at = "page"
    /\ tab' = Followed("page")
    /\ Ask("staff", 0)
    /\ UNCHANGED <<limitVars, cookie, stored, form, rows, doubt, typed>>

\* Logout removes the stored user, then asks for the cookie to be removed; a
\* session that arrives in between is stored again.
ForgetUser ==
    /\ tab.at \in {"page", "login"}
    /\ cookie # "GUEST"
    /\ stored' = "GUEST"
    /\ tab' = [tab EXCEPT !.leaving = TRUE]
    /\ UNCHANGED <<limitVars, cookie, form, calls, rows, doubt, typed, sent>>

SignedOut ==
    /\ tab.leaving
    /\ cookie' = "GUEST"
    /\ tab' = Loaded("login", stored)
    /\ form' = BlankForm
    /\ calls' = Left
    /\ UNCHANGED <<limitVars, stored, rows, doubt, typed, sent>>

\* The token's time is over; localStorage keeps the user.
SessionExpires ==
    /\ cookie # "GUEST"
    /\ cookie' = "GUEST"
    /\ UNCHANGED <<limitVars, stored, tab, form, calls, rows, doubt, typed, sent>>

-----------------------------------------------------------------------------
(* The public forms *)

\* The buttons that send are disabled while a form is being sent, and without
\* an announcement to register for; only ContactForm disables its fields too.
MayDonate == tab.at = "donate" /\ ~form.submitting
MayEnquire == tab.at = "contact" /\ ~form.submitting
MayRegister == tab.at = "register" /\ ~form.submitting /\ form.open # "none"

Type ==
    /\ tab.at \in PublicForms
    /\ tab.at = "contact" => MayEnquire
    /\ typed < MaxTexts
    /\ typed' = typed + 1
    /\ form' = [form EXCEPT !.text = typed + 1]
    /\ UNCHANGED <<limitVars, cookie, stored, tab, calls, rows, doubt, sent>>

\* Mutant: the flag that disables the button is not set.
SendingUnflagged(f) == [f EXCEPT !.error = FALSE]

\* setSubmitting(true); setError(null)
Sending(f) == [f EXCEPT !.submitting = TRUE, !.error = FALSE]

SubmitDonation ==
    /\ MayDonate
    /\ form.text # 0
    /\ form' = Sending(form)
    /\ Ask("submit", form.text)
    /\ UNCHANGED <<limitVars, cookie, stored, tab, rows, doubt, typed>>

\* The schema or the missing UTR stops the submission in the browser.
InvalidDonation ==
    /\ MayDonate
    /\ form' = [form EXCEPT !.error = TRUE]
    /\ UNCHANGED <<limitVars, cookie, stored, tab, calls, rows, doubt, typed, sent>>

\* Only the contact form takes its thanks away before it sends again.
SendEnquiry ==
    /\ MayEnquire
    /\ form.text # 0
    /\ form' = [Sending(form) EXCEPT !.thanked = 0]
    /\ Ask("submit", form.text)
    /\ UNCHANGED <<limitVars, cookie, stored, tab, rows, doubt, typed>>

SubmitRegistration ==
    /\ MayRegister
    /\ form.text # 0
    /\ form' = Sending(form)
    /\ Ask("submit", form.text)
    /\ UNCHANGED <<limitVars, cookie, stored, tab, rows, doubt, typed>>

-----------------------------------------------------------------------------
(* The proxies and what is behind them *)

\* A read the dashboard pages wait for (Screen) ends here; so does one that
\* nobody waits for any more.
Heard(c) == c.op = "submit" \/ ~(c.left \/ c.op = "staff")

SetState(i, state) ==
    calls' = IF Heard(calls[i]) THEN [calls EXCEPT ![i].state = state]
             ELSE RemoveAt(calls, i)

Waiting(i) == calls[i].state = "sent"

Browsing == UNCHANGED <<cookie, stored, tab, form, typed, sent>>

\* The key a request is counted by.
KeyOf(c) ==
    CASE c.op = "staff" -> "api:auth"
      [] c.op = "cms" -> IF c.cookie = "GUEST" THEN "cms:public" ELSE "cms:auth"
      [] OTHER -> "api:public"

\* 401 without a session, before the request is counted.
Unsigned(c) == c.op = "staff" /\ ~CanWrite(c.cookie)

ProxyRefuses(i) ==
    /\ Waiting(i)
    /\ Unsigned(calls[i]) \/ TurnedAway(KeyOf(calls[i]))
    /\ SetState(i, "failed")
    /\ Browsing
    /\ UNCHANGED <<limitVars, rows, doubt>>

ProxyForwards(i) ==
    /\ Waiting(i)
    /\ ~Unsigned(calls[i])
    /\ Pass(KeyOf(calls[i]))
    /\ SetState(i, "forwarded")
    /\ Browsing
    /\ UNCHANGED <<rows, doubt>>

\* An announcement of the CMS has an id of the CMS, and a registration names
\* its announcement by a UUID of the backend: it never validates.
Acceptable(c) == c.open # "cms"

\* The upstream runs the request and answers, or the answer is lost (502).  A
\* request it answered with success is taken to be committed.
Runs(i) ==
    /\ calls[i].state = "forwarded"
    /\ Acceptable(calls[i])
    /\ \E state \in {"ok", "failed"} :
        /\ SetState(i, state)
        /\ IF calls[i].op = "submit"
           THEN /\ rows' = [rows EXCEPT ![calls[i].text] = @ + 1]
                /\ doubt' = doubt \cup {t \in {calls[i].text} : state = "failed"}
           ELSE UNCHANGED <<rows, doubt>>
    /\ Browsing
    /\ UNCHANGED limitVars

\* It never reaches the upstream, or is refused there.
Fails(i) ==
    /\ calls[i].state \in {"sent", "forwarded"}
    /\ SetState(i, "failed")
    /\ Browsing
    /\ UNCHANGED <<limitVars, rows, doubt>>

-----------------------------------------------------------------------------
(* The answers *)

Answered(i) == calls[i].state \in {"ok", "failed"}

Arrive == UNCHANGED <<limitVars, cookie, stored, tab, rows, doubt, typed, sent>>

Blanked(f, text) == [f EXCEPT !.thanked = text, !.text = 0, !.submitting = FALSE]

\* Thanks and an empty form, whatever was typed meanwhile; or an error.
FormAnswered(i) ==
    /\ calls[i].op = "submit"
    /\ form' = IF calls[i].state = "ok"
               THEN Blanked(form, calls[i].text)
               ELSE [form EXCEPT !.error = TRUE, !.submitting = FALSE]
    /\ calls' = RemoveAt(calls, i)
    /\ Arrive

\* The announcements come from the CMS or, when it has none or fails, from the
\* backend, which may have none either.
AnnouncementsAnswered(i) ==
    \/ /\ calls[i].op \in {"cms", "announcements"}
       /\ calls[i].state = "ok"
       /\ form' = [form EXCEPT !.open = IF calls[i].op = "cms" THEN "cms" ELSE "backend"]
       /\ calls' = RemoveAt(calls, i)
       /\ Arrive
    \/ /\ calls[i].op = "cms"
       /\ form' = form
       /\ calls' = Append(RemoveAt(calls, i), Request("announcements", 0))
       /\ Arrive
    \/ /\ calls[i].op = "announcements"
       /\ form' = [form EXCEPT !.error = @ \/ calls[i].state = "failed"]
       /\ calls' = RemoveAt(calls, i)
       /\ Arrive

AnswerArrives(i) ==
    /\ Answered(i)
    /\ \/ ~calls[i].left /\ (FormAnswered(i) \/ AnnouncementsAnswered(i))
       \/ /\ calls[i].left
          /\ calls' = RemoveAt(calls, i)
          /\ form' = form
          /\ Arrive

Clock == Tick /\ UNCHANGED <<cookie, stored, tab, form, calls, rows, doubt, typed, sent>>

Next ==
    \/ \E at \in PublicForms \cup {"page", "login"} : Visit(at)
    \/ \E role \in SessionRoles : SignIn(role)
    \/ SessionArrives
    \/ LookAgain
    \/ ForgetUser
    \/ SignedOut
    \/ SessionExpires
    \/ Type
    \/ SubmitDonation
    \/ InvalidDonation
    \/ SendEnquiry
    \/ SubmitRegistration
    \/ \E i \in DOMAIN calls :
        ProxyRefuses(i) \/ ProxyForwards(i) \/ Runs(i) \/ Fails(i) \/ AnswerArrives(i)
    \/ Clock

Spec == Init /\ [][Next]_vars

-----------------------------------------------------------------------------
\* Type correctness.
TypeOK ==
    /\ LimitTypeOK
    /\ {cookie, stored, tab.role} \subseteq Roles
    /\ tab.known \in Roles \cup {"unknown"}
    /\ tab.at \in PublicForms \cup {"page", "login"}
    /\ form.text \in 0..MaxTexts /\ form.thanked \in 0..MaxTexts
    /\ rows \in [Texts -> Nat]
    /\ doubt \subseteq Texts
    /\ \A i \in DOMAIN calls : calls[i].state \in {"sent", "forwarded", "ok", "failed"}

\* What a visitor typed is stored once, although it can be sent again after an
\* error and the page can be left and reloaded while it is under way: a second
\* row needs an error that hid the first one.  A form that says thanks has its
\* row.
StoredOnce ==
    /\ \A t \in Texts \ doubt : rows[t] <= 1
    /\ form.thanked # 0 => rows[form.thanked] >= 1

\* A page that looked its role up after its session was known, with that
\* session still there, offers what the session allows or nothing: never an
\* administrator's or a writer's controls to somebody else, whatever the
\* login page or an earlier session left in localStorage.
OffersWhatTheSessionAllows ==
    tab.at = "page" /\ tab.looked /\ tab.known = cookie /\ cookie # "GUEST" =>
        tab.role \in {cookie, "GUEST"}
=============================================================================
