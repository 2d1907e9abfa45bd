# Raushni: formal models

TLA+ modules, TLC configurations and TLAPS proofs about Raushni: the part of
the FastAPI backend that keeps money and numbered documents right
(`src/backend/app`), and the staff pages, public forms, sessions and API proxies
of the Next.js frontend (`src/frontend`). The modules are translated from the
code; each definition's source lines are listed under `map` in `PROJECT.json`.

Run from this directory:

    tlc -workers 2 -config LedgerConcurrent.cfg MCDonationLedger.tla
    tlc -workers 2 -config Desk.cfg MCDashboard.tla
    tlapm DonationAuditProofs.tla

## 1. The system

Raushni is a platform for non-profit organisations: a Next.js frontend (with an
API proxy), a FastAPI backend on PostgreSQL, a Strapi CMS, and Stripe for card
payments. The state that has rules is in the backend's database. A request is
one coroutine with one session and one transaction (`core/db.py`, `get_db`):
the handler runs, the answer is sent, then the session commits; any exception
rolls back. The commit is the exit code of a yield dependency, which both
versions of FastAPI that this repository asks for (`^0.104.1` in
`backend/pyproject.toml:11`, `>=0.104.1,<1.0.0` in `backend/requirements.txt:1`,
so the newest) run after the response: a commit that fails leaves an answer that
is untrue. Several requests are served at once, by the event loop of one process
and by replicas (`k8s/overlays`), so every `await` of one request is a point
where others run.

In front of it, a page of the dashboard is a React component that copies rows
into its state, lets its user edit the copy and sends all of it back. Its
handlers run without interruption up to their `await`s; what follows an `await`
runs with the values its closure captured, on a page whose user has gone on.
Every call goes through a proxy route that checks the session cookie, counts the
request against a limit and forwards it (`app/api/v1`, `app/cms/api`). The pages
take the role they render for from `localStorage`, which `AppShell` keeps up
with the session.

What PostgreSQL and SQLAlchemy do under that, which all the modules rely on:

- READ COMMITTED: a plain SELECT sees the latest committed row and locks
  nothing; UPDATE, DELETE and SELECT ... FOR UPDATE wait for the row lock, which
  is kept until the transaction ends.
- A session keeps one object per row (the identity map). A second SELECT of the
  row returns that object with the values of the first; only `refresh` rereads.
- A flush writes the columns whose value differs from the one loaded, into the
  row as it is by then.
- An UPDATE of a row that is gone raises StaleDataError (500); a violated
  unique or primary key raises IntegrityError (500). Nothing retries.

### Components

| Component | State | Operations | What makes it hard | Correct when |
|---|---|---|---|---|
| Number counters (`donation_repository`, `internship_repository`) | one counter row per organisation, (kind) and year | allocate | first row of a year, row lock, rollback | committed numbers are distinct and without gaps |
| Donation ledger (`donation_service`, `donation_repository`) | donations, status events, receipt snapshot | create, update, mark-paid, issue receipt, delete | decisions on rows loaded without a lock | trail agrees with row, receipts follow payments, frozen fields stay, paid donations have their reference |
| Payment gateway and webhook (`payment_service`, `webhooks`) | Stripe sessions, gateway columns | checkout, webhook | at-least-once delivery, sessions that outlive a request, answers before the commit | every completed payment is recorded and answered |
| Crowdfunding (`crowdfunding_repository`, `crowdfunding_service`) | campaigns with a running total, donations | create, update, set status, delete, record donation | read-modify-write over a stale object | the total is the sum, funded means the target was given |
| Internships (`internship_service`) | announcements, applications, certificates | register, issue, verify, delete | two issues at once, status moved back | one certificate per application, numbers distinct |
| Staff pages (members, records, projects, designations, donations, crowdfunding, internships, settings) | list, filter, open form, flags, calls in flight | open, edit, submit, delete, filter, refresh, status buttons | answers in any order, stale copies, lost answers, handlers that differ in a catch or a flag | the list shown is the one asked for, one form makes one row, a stale form takes nothing back unseen |
| Document generators | a menu read once, printed fields | choose, type, print | choosing a donation issues its receipt and waits for it | what is printed is what the menu says |
| Browser session | cookie, user in `localStorage`, role of a page | sign in, sign out, visit, expire | the stored user outlives its session, or is written before it is known | no page offers more than the session allows |
| Public forms | one form each | type, send, send again | errors that hide a success, reloads | one text is stored once |
| API proxies, rate limit | one bucket per key and process | check, count, forward | a burst on both sides of the end of a bucket | bounded in every window |
| Platform settings in the backend | one row per organisation | get-or-create, update | id allocated by max(id) + 1 across organisations | first use never fails |
| Users, roles, tenancy in the backend | memberships; overlays in process memory | change role, change name or status | replicas, restarts, concurrent demotions | an organisation keeps an admin; all replicas agree |
| Designations, members, projects, records in the backend | single rows | create, update, delete | check-then-insert, case | codes and slugs are unique |
| CMS templates | a per-process cache | get | outage at first use, edits | the template in use is the CMS's |

Interactions: the ledger and the internships allocate numbers inside their own
transaction, so the counter is composed into them. The webhook and the checkout
work on the rows of the ledger. Crowdfunding keeps its own donations and shares
nothing with the ledger but the transaction pattern. The pages talk to the
backend only through calls, which the page modules execute in one step each at
any time after they were sent; what overlapping transactions do inside such a
step is the subject of the backend modules. The browser module composes the rate
limit into its two proxies.

The hazards, line by line, are listed in `PROJECT.json`, each with the
properties that cover it or the reason why none does.

## 2. The modules

| Module | Models | Kind |
|---|---|---|
| `NumberSeries` | what an organisation is promised of its document numbers | abstract specification |
| `ReceiptCounter` | `allocate_receipt_number`, `allocate_counter` | component, implements `NumberSeries` |
| `DonationLedger` | `DonationService` + `DonationRepository` + checkout and webhook | component, composes `ReceiptCounter` |
| `Crowdfunding` | `CrowdfundingRepository` + `CrowdfundingService` | component |
| `Internships` | applications and certificates of `InternshipService` + `InternshipRepository` | component, composes `ReceiptCounter` |
| `Screen` | what staff pages share: state of a page, calls in flight, lists, saves, the backend's rows | base of the page modules |
| `CrudPages` | members page, `SimpleCrudPage`, projects page, designations page | component, extends `Screen` |
| `DonationsPage`, `CrowdfundingPage`, `InternshipsPage`, `SettingsPage` | the page of that name with its API client | components, extend `Screen` |
| `Generators` | receipt and id card generator | component, extends `DonationsPage` |
| `Dashboard` | all pages | composition |
| `RateLimit` | `lib/security/rate-limit.ts` | component |
| `Access` | session, roles, login, public forms, both proxies | component, composes `RateLimit` |
| `MCReceiptCounter`, `MCDonationLedger`, `MCCrowdfunding`, `MCInternships`, `MCDashboard`, `MCAccess`, `MCRateLimit` | instances for TLC | model checking |
| `ReceiptCounterProofs`, `DonationLedgerProofs`, `DonationAuditProofs`, `CrowdfundingProofs`, `InternshipProofs`, `AccessProofs`, `DashboardProofs` | theorems | proofs |
| `DashboardMoves` | lemmas: the kinds of steps that all pages take | base of `DashboardProofs` |

### ReceiptCounter

`counter[k]` is the committed `last_value` (0: no row), `holder[k]` the request
that has the row locked, `stage[r]` how far the allocation of a request has
come, `taken[r]` its number. `LockAndIncrement` is SELECT ... FOR UPDATE that
finds the row; `FindNoRow` the one that does not and locks nothing; `InsertRow`
the INSERT of the missing row, `InsertConflict` the INSERT that meets the
primary key. `CommitNumber` and `RollbackNumber` are the ends of the
transaction in `get_db`. `granted` is a history variable: the numbers that
reached a committed document. `Start` gives the value a new counter row begins
with: 1000 for receipts, 100 for registrations, 500 for certificates.

### DonationLedger

`row[d]`, `trail[d]`, `live`, `gone` are the tables, `lock[d]` the row lock,
`txn[r]` the open transaction: the operation, the object as loaded (`seen`),
the row it wrote (`draft`) and the status event it inserts (`event`). Every
handler is: `Load` (the SELECT), the handler's checks, `Flush` (the UPDATE,
which waits for the lock and applies only changed columns, `After`), `Answer`
(the handler has returned, the response is sent), `Commit`. `EndWithoutWrite` is
every 4xx, the already-paid answer, and a row that went away; `Rollback` may
strike at any point, between the answer and the commit as well. One transaction
is one HTTP request.

Of a row the model keeps `payment_status`, `payment_method` and
`transaction_reference` (the last two stand for all `RECEIPT_FROZEN_FIELDS`),
the receipt columns, the gateway session and the number. `receipt_issued_at` is
named by the request that set it, so two moments differ when two requests set
them. A Stripe session also names its payment intent. `metadata`, `payable`,
`paid` and `answered` are Stripe's side: what a session was created for, whether
its URL was returned, completed by the donor, and its event answered 2xx.
`replied` are the requests between answer and commit. `unbacked` is a history:
the sessions whose URL or event was answered by a request that has not committed
(yet, or ever), or, for a URL, only after the event had been ignored.

The numbers are an instance of `ReceiptCounter` with the years as keys; its
actions are steps of `create`.

### Crowdfunding

`rows[c]`, `given[c]` (the sum of `campaign_donations`) and `life[c]` are the
tables, `holder[c]` the row lock, `job[r]` the operation of a request with the
object as it was read (`seen`) and as it was changed (`edit`). `Get` is the
plain SELECT of every operation. `RecordDonation`, `UpdateCampaign` and
`DeleteCampaign` take the lock; the donation computes its new total from
`seen`, because the SELECT ... FOR UPDATE returns the same object. The commits
write the changed columns (`Updated`). `opened`, `staff` and `overlapped` are
histories the properties speak of: the row as created, the columns staff
changed, the campaigns that had two donations in progress.

### Internships

`life[a]`, `app[a]` and `cert[a]` are the tables, `lock[a]` the row lock,
`txn[r]` the open transaction: the operation, the application as read (`seen`),
the row it wrote (`draft`), the certificate it inserts (`cert`). `Load` is
`get_application`; `ReturnExisting`, `RefuseCertificate` and `BeginCertificate`
are the three outcomes of the checks of `issue_certificate`, which read the
certificates later than the application. `AllocateCounter` is a step of
`ReceiptCounter` with kind and year as keys. `IssueCertificate` is
`save_application` (UPDATE under the row lock, refresh) with `create_certificate`:
nobody can come between the two for this application. `CertificateConflict` is
the unique `application_id`, `RowVanished` a row deleted meanwhile, `CommitDelete`
the cascade. A certificate's uuid is represented by the number allocated for it.
As in the ledger, `Answer` comes before `Commit`, and `replied` are the requests
between the two. `earned` (applications that staff committed in an eligible
status), `shown` (certificates that were returned) and `unbacked` (those returned
by a request that has not committed) are histories.

### Screen and the pages

`page` is the page that is open, `ui` its React state: `filter` (search box and
status menu together), `loading`, `submitting`, `error`, `readOnly`, the open
`form`, a second form or menu (`side`), the receipt or certificate `shown`, and
the `list` with the filter it was read for. `calls` are the calls in flight in
the order they were sent, each with the row, the form and the filter its closure
captured; `db` is the table. A handler is two or more actions: the part up to
its `await` (`Submit`, `Act`, `Look`, ...) appends a call, and once the call is
answered the part that follows (`SaveSucceeds`, `SaveFails`, `ListArrives`, ...)
takes it off. `Serve` executes a call at any time in between. A call may be
refused (any status that changed nothing) or executed with its answer lost
(`untold`); the page cannot tell the two apart. A call that was answered with
success is taken to be committed, also when its list is read again: the step
between the backend's answer and its commit is not in these modules. Each page's `Controls` are the
elements it renders enabled; an action of the user needs its control.

A row is present, absent or gone, knows the form that created it (`origin`) and
has a `tag`: what the properties of its page are about (a payment status, an
amount raised and given, a status with a certificate and a track). The pages
keep the code's differences: three of them delete without try and catch
(`BareAct`), the settings page has no
flag for its user menu, the donations page saves "paid" by two calls
(`ThenMarkPaid`), the internships page writes the first announcement into the
open form when a list arrives (`WithFirstTrack`), and the generators read their
list once.

### RateLimit and Access

`bucket[k]` is the count and the end of the bucket of key `k`, `passed` the
history of requests let through. `Access` is one browser: `cookie` (the role of
the session), `stored` (the user in `localStorage`), `tab` (what is open, what
`useSession` knows, the role the page took and whether it took it after its
session was known), `form` (the public form), `calls`, and `rows[t]`, how often
the backend stored text `t`. `ProxyRefuses` and `ProxyForwards` are the two ways
through a proxy route: session, allowlist, limit, upstream.

## 3. What is checked

| Run | Instance | Shows |
|---|---|---|
| `counter` | 3 requests, 2 keys | type correctness, gap-freeness, refinement of `NumberSeries`, and that every allocation ends |
| `ledger_concurrent` | 2 requests of all seven kinds, 1 donation, 1 session | trail and row agree and events chain; a receipt follows a payment; a payment by a UTR method has its reference when it is made; frozen fields change only through the three named writers |
| `ledger_numbering` | 2 requests, 3 donations, 2 years, create and delete | receipt numbers are never shared |
| `ledger_gateway` | 2 requests, 1 session, fair delivery | an event that was answered has its payment recorded unless the commit failed after the answer, each completed one is answered, requests end |
| `campaign_totals` | 2 requests, 1 campaign | totals are never overstated, wrong only after an overlap, funding is earned, status is never brought back |
| `certificates` | 2 requests of all four kinds, 2 applications | one certificate per application, linked both ways, never replaced once a request returned it and committed, earned, with the current name; numbers from their own series |
| `desk` | every page with its rows, 1 form for a new row, 2 calls of its user, others changing rows | see below |
| `access` | 1 browser, 3 requests, 2 texts, a clock that ends a bucket once | texts are stored once, no page that knows its session offers more than it allows |
| `rate_limit` | 2 keys with limits of 2 and 3, windows of 3 instants, 8 instants | fewer than twice the limit pass in any stretch of one window, bursts on both sides of a bucket's end included |

`desk` checks, for all pages at once: at rest the list is the one of the filter
on screen (`ListFollows`) and shows what is stored (`Fresh`); one form makes one
row (`NoTwins`); the submit button is disabled exactly while a save is under way
(`FlagsTellTheTruth`). For single pages: a fallback of the settings is never
shown without its error (`ShownSettingsAreStored`); a save the page takes for
done has booked its payment (`SavedAsPaidIsPaid`); only a form opened on an
unpaid donation, or one that says so, makes a paid one unpaid
(`PaymentSurvivesInformedForms`); only a form opened on another amount makes a
total wrong (`TotalsSurviveFreshForms`); what was typed into an application
survives the lists that arrive once no list from before an announcement was known
is in flight (`FormKeepsTyping`); generators print what their menu says
(`PrintsWhatIsSelected`).

These properties say what the pages do promise, and each leaves out what they do
not, which the model has all the same:

- No page compares an answer with a newer one (`members/page.tsx:52-67`). A list
  answered after a later read of it (`kind = "late"`) is shown and stays, without
  an error: the list of an old filter under a new one, or rows from before a save.
  `ListFollows` and `Fresh` are about lists answered in order.
- A save reloads under the filter of its closure (`kind = "reload"`), which may
  not be the one on screen: `ListFollows` is about lists the filter asked for.
- A write whose answer was lost and the writes of others (`untold`) show only
  after the next read: `Fresh`, `NoTwins` and `ShownSettingsAreStored` leave them
  out.
- A Refresh of the settings that is executed before a Save and answered after it
  puts the old values back, without an error, and the next Save stores them
  (`settings/page.tsx:98-117,149-151`): `ShownSettingsAreStored` leaves late loads
  out.
- A form opened before the webhook paid takes the payment back, a form opened
  before a donation rolls the total back, a list asked for before the announcement
  was known overwrites the form: the three properties about forms say that nothing
  else does.
- The receipt generator prints late answers and typed-over fields as they come;
  `PrintsWhatIsSelected` is about the others, and about id cards.

Three further runs are expected to fail: each shows that the code does not do
what the frontend, an error message or a test says.

| Run | What happens |
|---|---|
| `ledger_two_sessions` | two checkouts of one donation; the first session is paid, its event is answered 200 `donation_not_found` (`AnsweredIsRecorded`) |
| `campaign_lost_update` | two overlapping donations, one is missing from `amount_raised` (`RaisedIsSum`) |
| `desk_frozen_form` | any save of a donation whose receipt is issued is refused for the locked fields the form sends along (`LockedFieldsAreNotTouched`) |

Where a promise fails, the passing runs state what is left of it:
`NeverOverstated` and `ExactWhenAlone` next to `RaisedIsSum`;
`FrozenForInformedWriters` names the three ways in which a frozen field still
changes (among them a mark-paid after a refund); `TrailIsAChain` excepts the event
of a request whose row changed its status between load and flush, and
`UtrAtPayment` the payment by a request that had checked another method or
reference than the row has by then, and speaks of the moment of payment only,
because a later PATCH may clear the reference of a paid donation.
`AnsweredIsRecorded` and `ShownStaysValid` except the answers that are
`unbacked`: a 2xx or a returned certificate whose commit then fails is in the
models, and nothing makes it good. Stripe does not send the event again, and the
certificate's number goes to another. A checkout URL may even be paid, and its
event answered 200 `donation_not_found`, before the checkout commits.

Every property of a passing run has a mutant: a definition of the model changed
as a plausible bug would change the code (no lock, the whole row written, a
missing check, a session that is not kept), under which TLC finds the
property violated. They are the definitions marked "Mutant" and are no part of
any specification.

### Bounds

- Two overlapping requests: every property relates at most one request that has
  read and another that writes in between; a third one only repeats the role of
  the second. The counter, where three requests can meet at one missing row,
  has three. The proofs have no such bound.
- `MaxEvents`, `MaxGranted`, `MaxGiven` stop histories from growing: they allow
  a donation to be created, paid, refunded and paid again, two numbers in a
  year, and a campaign to be funded by one donation and to receive another.
- Sets of values hold one value for each case the code tells apart: a method
  that needs a UTR and one that does not, a reference or none, a target reached
  by one donation and one that takes two; an applicant's registration, a
  PATCH that shortlists and one that rejects and corrects the name.
- `MaxGranted` is 3 in `certificates`, where identifiers are never used again and
  two applications keep at most two numbers of a kind: it never blocks. `MaxLost`
  is 1: one returned certificate whose commit fails, whose number the next takes.
- Requests are interchangeable, so the safety runs use symmetry; the runs with
  liveness properties do not.
- `desk`: two calls of the user, each with the list it reloads, are the least
  that overlap (a save with a read, a second save, a delete) and overtake each
  other; three rows hold the one that is there, the one a form creates and the
  twin a second submit would create; one form for a new row is enough because
  `NoTwins` is about one form. A colleague may change a row as often as it has
  values. Only one page is open at a time: pages share no state but the role.
- `access`: three requests are a send, a resend and a page in between; limits of
  two and one are met by them, and the clock ends a bucket once. Without `RequireAuth` the
  middleware admits everybody, which only adds behaviours.
- `rate_limit`: the clock runs for two windows and a step, so a stretch of one
  window may begin inside a bucket, span its end and close inside the next; two
  is the least limit at which a bucket begins with one request and is filled
  later, so that 2 * limit - 1 pass within a window. The theorem
  `WindowIsBounded` has no bound.
- Deadlock is not checked: the bounds, not the code, stop the system.

### Fairness

`DonationLedger!FairSpec`: a handler that has loaded its row runs on (strong
fairness, because it may wait for a row lock that is taken and released again;
PostgreSQL queues the waiters), answers and commits (weak). Nothing forces a
request to begin, a donor to pay, or a request to fail, before or after its
answer. Stripe delivers an event until it is answered 2xx, and from some time on
no delivery is cut off before its answer (Stripe's retries go on for days).
`ReceiptCounter!FairSpec` is the same for its steps.

The pages and the browser have no fairness and no liveness property: the
frontend's `fetch` calls have no timeout, so a call may hang, and with it the
spinner and the disabled button; the user may leave at any time.

## 4. What is proved

All theorems hold for every number of requests, donations, campaigns, years and
values. The constants are assumed to be what their names say: "no request" is
not a request, "no form" is not a form, the sets are not empty, amounts and
targets are positive, drafts and patches are well-typed payloads, the rate limit
has its four keys. Bounds are natural numbers (`MaxGiven` may be anything), so
they limit no argument. One theorem also assumes something of the behaviour
(`OneSessionEach`, below).

- `ReceiptCounterProofs`: `CounterTypes`, `NumberUnderLock`,
  `NumbersAreGapFree`, and `CounterImplementsSeries`: the counter implements
  `NumberSeries`. `GapFree` alone is not inductive: a request that holds a
  number will commit it later, so the invariant also says that the number is the
  one after the last committed and is held only under the row lock
  (`LockGuardsNumber`, which the theorem `NumberUnderLock` states).
- `DonationLedgerProofs`: `LedgerTypesHold`, and `LedgerImplementsCounter`:
  each step of the ledger is a step of the counter or leaves it alone, so the
  counter's theorems hold of the ledger.
- `DonationAuditProofs`: `TrailMatchesRow`, `NoReceiptBeforePayment`,
  `FrozenFieldsHold`. The handlers decide on rows they loaded, so the inductive
  invariant is about open requests too (`OpenRequestsAreSound`): a creator is
  alone with its donation (`CreatorAlone`); what was loaded was true of the
  trail and, as trails only grow, still is (`LoadedOnce`); a request that has
  written holds the row lock and its draft differs from the committed row only
  in what its event and its checks cover (`WriterLocks`). That last part fixes
  the commit: the row changes to the draft, the trail gets the event.
  `ReceiptNumbersAreDistinct` follows from the counter's theorems and the fact
  that a number reaches a donation only in the commit that grants it.

  `TrailsAreChains` and `PaymentsHaveTheirUtr` are action properties of
  overlapping requests: what a request has checked is true of the row it loaded,
  and the step that commits it can break the chain or the UTR rule only if the row
  has changed since (`CheckedFor`, `AlwaysChecked`).

  `AnswersAreRecorded` holds only of behaviours in which no donation gets a
  second checkout session (`[]OneSessionEach`), with requests overlapping and
  failing at will. The row names a session that is backed until the donation is
  deleted (`SessionsAreFound`), because a flush writes the session column only in
  the checkout that created it (`SessionFor`); so the event of a backed session is
  ignored only when its donation is gone. The answer is a step before the commit,
  so the theorem speaks of the sessions that are not `unbacked`. Without the
  assumption it is false, as `ledger_two_sessions` shows.
- `CrowdfundingProofs`: `RaisedIsNeverOverstated`, `LoneDonationsCount`,
  `FundingIsEarned`, `DonationsOnlyFund`. Inductive because no object was ever
  read with more than the donations on record (`SeenIsBehind`), with exactly
  that many as long as no two donations overlapped (`SeenIsExact`), or with
  another target (`TargetIsOpened`); a deleted campaign is never written
  (`LocksAreHeld`).
- `InternshipProofs`: `CertificatesAreLinked`, `CertificatesStayValid`,
  `CertificatesAreEarned`, `DocumentsAreNumbered`, `NamesAreCurrent`. The
  invariant (`OpenRequestsAreSound`) says who holds a row (`LocksAreHeld`) and a
  number (`NumbersAreHeld`), that what was read may be stale but its link to a
  certificate cannot be taken back (`SeenIsPast`), and that a written draft
  agrees with the committed row in what it must keep (`DraftsAreSound`). Every
  certificate on record was returned and is backed (`CertificatesAreShown`),
  because an answered request has returned what it will commit
  (`AnswersAreShown`). That no
  two certificates share a number follows from the counter's `GapFree` and
  `LockGuardsNumber`, which hold here because each step is a step of the counter
  or leaves it alone.

- `AccessProofs`, the limiter: `LimiterIsSound`, `WindowIsBounded`. A bucket is
  no sliding window, and the count alone does not say when its requests came.
  The invariant gives each request a seat in a bucket: no seat is taken twice, no
  bucket has more seats than its limit, the first seat fixes the bucket's end,
  and a next bucket begins only after it. Of the requests of any window, then,
  those that are not in the present bucket are in the one before and not in its
  first seat; an injection into the numbers up to 2 * Limit - 1 bounds them.
  `BrowserRunsTheLimiter` shows that each step of the browser and the proxies is
  a step of the limiter or leaves it alone, so the bound holds of `Access` too
  (`BrowserIsLimited`).
- `AccessProofs`, the browser: `TextsAreStoredOnce`, `PagesOfferTheirSession`,
  `AccessIsTyped`, from the invariant of `BrowserIsSound`. What a page offers
  follows from what the cookie, `localStorage` and the page's role may be once
  its session is known (`RolesFollow`). That a text is stored once needs that a
  page left behind cannot meet the form again with the same text (`SentOnce`)
  and that a form still shows a text that has a row only while the answer that
  will clear it is on its way (`RowsFollow`).
- `DashboardProofs`, all the staff pages, for any number of rows, forms, filters
  and calls in flight. The pages have some sixty actions, but what these do to
  the calls, the flags and the form falls into a few kinds, which
  `DashboardMoves` defines and assigns each action to: the user rests, asks for a
  list or sends a write; an answer ends a call, has the list read again, goes on
  to mark-paid or shows a list; the backend executes, reads or refuses; others
  change rows. The invariant is proved for the kinds.

  None of the properties is inductive: they are about a page at rest, and what
  it will then show is decided by the calls still in flight. `Sound`
  (`DashboardIsSound`) says what the pending answers will do: an outdated list is
  followed by a better one (`ListWillFollow`, `ListWillBeFresh`), of two reads
  the one sent later knows more unless it is shown as late (`LooksInOrder`,
  `ReadsInOrder`), saves exclude each other and hold the flags (`OneSave`), a
  form whose row exists belongs to a save that was executed (`FormsMakeOneRow`),
  amounts in lists, answers and forms come from the table (`AmountsAreGiven`,
  `FormsCopyAmounts`). A list shown as late is outside all of this, and so of
  what `TheListFollows` and `TheListIsFresh` say. From it follow `FlagsAreTrue`, `TheListFollows`,
  `TheListIsFresh`, `FormsMakeNoTwins`, `TotalsSurvive`, `TypingIsKept` and
  `DashboardIsTyped`.

  What one page alone promises has its own invariant beside `Sound`. Donations
  (`DonationsInv`: `FormsCloseOnBookedMoney`, `PaymentsSurvive`): a save that
  chose "paid" and was executed to its last call is booked, and stays so because
  only a form takes a payment back and saves exclude each other. Generators
  (`CardsInv`, `ReceiptsInv`: `MenusArePrinted`): of the receipts asked for since
  the last answer, the one on the menu was asked for last. Settings
  (`SettingsInv`: `SettingsAreStored`): the form holds what is stored, or an
  answer that will say so is pending, or it holds the fallback under the error
  of its load; and while the fallback is shown, the only user there is the
  invented one, whose changes the backend refuses, so that none of them clears
  that error.

`OpenRequestsAreSound` of the ledger and of the internships are theorems
(`RequestsStaySound`); no run repeats them.

Every invariant and action property of a passing run is thus a theorem, one of
them under the assumption the run's instance makes (`ledger_gateway` has one
session). Only model-checked are the liveness
properties (`AllocationEnds`, `CompletedIsAnswered`, `RequestsEnd`), because
fairness needs ENABLED, which is out of reach of the proof system, and the runs
that expect a violation, which are counterexamples.

## 5. What is not modelled

- Backend: lists, dashboards and verification only read. Names, addresses,
  formatting of numbers, PDF and mail are data no property here is about.
  Signature checks, the webhook's choice of the tenant, PATCH of the gateway
  columns, memberships and the overlays of user names, the first settings row of
  an organisation, unique codes and slugs, internship announcements, and the
  template cache are not modelled. `Crowdfunding` has no answers, because none of
  its properties speaks of them. A certificate that was returned and lost has a
  uuid of its own; the model names a certificate by its number, so a lost one and
  one committed later with the same number and name are not told apart there.
- Frontend: the public site and landing pages are rendering; the home, profile,
  CMS and "coming soon" pages of the dashboard read what they show once and
  write nothing. The letter, certificate,
  invoice and QR generators make no calls. Upstash's sliding window, request
  bodies and headers, and the tenant a host name stands for are left out. The
  page modules do not model unmounting: a page that is left forgets its calls. A
  success the page was told of is committed by then, so a list read between the
  backend's answer and its commit, which misses the write, is left out.
- CMS, deployment, migrations, telemetry: configuration, generated code and I/O.

## 6. What could follow

1. Webhook tenant resolution and the gateway columns of PATCH, and a list read
   by a page between an answer and its commit.
2. Memberships with concurrent demotions and overlays on several processes.
3. The first settings row and the codes of designations under concurrent
   requests.
4. A run on the status rule of `issue_certificate`, which a PATCH to rejected
   between the check and the commit breaks.
