# School ERP backend: TLA+ verification project

The repository is a multi-tenant school ERP: a FastAPI application over MongoDB
(`src/app`), one database per institution, no background job runner
(`src/docs/ARCHITECTURE.md:170-172`). This directory holds TLA+ modules that model
its state-changing services, the TLC configurations that check them on small
instances, and proofs that TLAPS checks for every instance.

What makes the system hard is the same everywhere: a request handler is a
coroutine that may be preempted **at every `await`**, several processes may serve
one institution, each MongoDB operation is atomic on one document, and **nothing
spans two documents**: there are no transactions. Every multi-document operation
(a payment, a loan, a payroll run, a role change) is therefore a small concurrent
program that may also die between two of its writes.

Contents: 1 conventions, 2 inventory, 3 the modules and the code, 4 the runs,
5 bounds, 6 fairness, 7 what is proved, 8 disagreements found, 9 what is not
modelled, 10 plan.

## 1. Conventions

* **A handler is a program counter.** `pc[h]` is the next database call of handler
  `h`, `req[h]` its local variables, the documents it has read included. One
  action is what the code does from one `await` to the next: the call at which it
  stands, and the plain Python after it. Consecutive reads with no write between
  them whose results are only used for a refusal are one action only where no
  other handler's write could tell the difference.
* **Validation and refusal.** A request refused with nothing written is a disabled
  action or a step to `idle`.
* **Failure.** `Abort(h)` (`Fail(h)` in `Payroll`), for handlers in `FailProne`
  (`Fallible`), ends a handler between any two of its calls and undoes nothing. It stands
  for an exception out of the driver and for the death of the process.
* **History variables.** Many promises of this code are kept only while no two
  requests meet on one document and none dies half way. Properties do not hide
  this by removing the interleaving: the runs interleave everything, and a history
  variable (`disturbed`, `excused`, `orphaned`) records exactly *which* documents
  two requests met on or a failure left half written. The property is then claimed
  for all others. What a carve-out gives up is listed beside the property, and
  where the repository's text promises it all the same, a *violation* run shows
  the disagreement. History variables are never read by a guard of the code's
  actions, with one named exception: in `Accounts` no further request is begun
  once something has been excused (a bound, see 5).
* **Slips.** A definition that stands just above another with the same parameters
  and is used nowhere (`AppliedUncapped` above `Applied`) is a plausible slip in
  it. `PROJECT.json` pairs each with the property that catches it.
* **Data is abstract**: people, titles, devices, orders are model values; money is
  whole units; time is a day (fees, library), half a day (reports) or an hour
  (biometrics).
* **Reads.** What only reads (`Access`, `Reports`, the plan of `FeePlan`) is a
  function of the documents, translated operator by operator. A request is one
  action that answers it; its property compares the answer with a definition that
  shares none of the code's steps, or with another screen's figure.

## 2. Inventory

Paths are below `src/app/modules/` unless they start with `core/` or `db/`.

| Component | State | Operations | Hard parts | What makes it correct |
|---|---|---|---|---|
| **Fees ledger** `fees/` | invoices (total, paid, status), receipts, `students.outstanding_amount`, counters | `collect_payment`, `generate_invoices`, `mark_overdue`, `refresh_outstanding` | allocation over several invoices from a snapshot; receipt after the invoices; sweep racing a payment | credit is backed by receipts; never overpaid; oldest dues first; billed once |
| **Online payments** `payments/` | payment orders; the provider's orders | `create_order`, `confirm_payment` from callback and webhook, refusals | both confirmations at once, retries of the webhook, failure between receipt and order | captured once, captured is banked, a paid order has its receipt |
| **Counters, repository** `db/` | counters, unique indexes | `next_sequence`, CRUD primitives | atomic increment against duplicate keys | numbers never collide |
| **Library circulation** `library/` | items (copies, label), loans | `issue`, `return_item`, `renew`, `mark_overdue` | guard read, then unconditional write; two documents per operation | copies accounted for, limit respected, closed loans stay closed |
| **Payroll** `payroll/` | runs, payslips, salary structures | `generate` (delete, recreate, total), `approve`, `mark_paid` | a regeneration half done, approval meanwhile | a run says what its slips say, approval freezes, only approved months are paid |
| **Biometric attendance** `biometrics/` | punch log, device counters, person links, day rows | push, `apply_punches`, enrol | devices retry, pushes overlap, a batch marked processed in one write | nothing marked that was not applied, nothing counted twice, every punch counts in the end |
| **Sign-in and sessions** `auth/` | accounts' credentials, refresh tokens | sign-in with lock-out, rotation, sign-out, password change and reset, invitation | tokens issued across a revocation; new passwords that revoke nothing | a change, a reset or a closure ends the sessions before it |
| **Accounts and roles** `users/` | users, roles with counts | create, invite, set roles, (de)activate, roles' CRUD, sync of built-ins | last-owner guard, counts kept by deltas, sync against edits | an owner remains, counts are right, edits survive |
| **People** `people/` | students, guardians, enrolments, section strengths, ids | admission, roll numbers, promotion, leaving, guardians | four collections per operation; capacity and free-id checks | one current enrolment, strength = number, no duplicate roll |
| **Attendance registers** `attendance/` | day rows, sessions with counts, holidays | `take_register`, `set_lock`, release of holiday rows | lock read before the write; device writes the same rows | counts say what the rows say; locked stays |
| **Live classes, homework** `lms/` | classes, attendees, homework, submissions | schedule, join, submit, collect offline, grade, publish | grade while resubmitted, clash check | what is graded is what was submitted |
| **Exams** `exams/` | marks, grading scheme | enter marks, set scheme, `regrade` | regrade from a cursor against entry | a mark's grade is the scheme's |
| **Tracking** `tracking/` | trips, positions, stops | start, position, end | out-of-order positions, trip counter | distance, one trip at a time, a stop reached once |
| **Messages** `communication/` | threads, unread counts, announcements | start thread, send, mark read | read racing send | unread = messages after the last read |
| **Tenancy and guards** `core/tenancy.py`, `core/deps.py` | per process, a cache of institutions (30 s) | resolve by id or slug, authorise, forget | cached word used after a suspension; each process clears its own cache only | an institution is let in by its document, or by one replaced elsewhere less than the cache's lifetime ago |
| **Permissions, scoping** `core/permissions.py`, `core/navigation.py`, `core/scoping.py` | none (pure) | expansion, `has_permission`, sidebar, row scopes, `build_query` | wildcards, several roles, scopes, filters and search under one Mongo key | the menu is what the guard admits; a list leaves out no row that concerns the reader, shows no other unless a filter takes a condition's place, and a search only narrows it |
| **CRUD factory** `core/crud.py`, `db/repository.py` | any registered resource | create, update, delete, restore, bulk; generated numbers | limits and uniqueness checked, then written; numbers typed and generated in one list | limits and uniqueness among the living; a generated number is never refused |
| **Provisioning** `tenants/` | tenant, roles, owner, year, defaults, subscription | provision, seed, convert | a dozen inserts, no transaction | what is handed over is complete |
| **Platform console** `platform/`, `settings/` | status, plans, subscriptions, modules | suspend, allow, subscribe, save and retire plans, switch modules | two documents; the plan changes while the owner switches | nothing is switched on that was not given, where nothing overlapped |
| **Fee plan** `fees/service.py` | invoices of one family | schedule, labels, windows, concessions, runs, fines | an instalment finds its bill by a text label; lines of one instalment with different windows | the plan adds up to the account; a bill is shown by its own instalment |
| **Reports, dashboards, profile** `reports/`, `dashboard/`, `people/`, `attendance/`, `fees/` | none | some thirty queries over the same rows | each adds up on its own: windows of dates, statuses, missing marks | all screens agree, and where they do not it is by a known amount |
| Printing; documents; assistant; wiring; demo data | none of their own, or one document | layouts, external calls | none beyond their externals | not modelled (9) |
| Academic, facility and staff records | schemas only | generic CRUD | as the CRUD factory | as the CRUD factory |

How they interact: online payments call `collect_payment`; both draw from
`counters` (receipts). Biometrics and the registers write the same day rows;
People closes logins through Accounts; every request passes the tenancy guards,
which read the document that Console and Provisioning write; resources with no
service of their own are only the CRUD factory, whose lists Access narrows; reports
and plans read what the others wrote.

`PROJECT.json` lists under `hazards` each place where this goes wrong in a way a
test hardly reaches, at its line, with the properties aimed at it.

## 3. The modules and the code

### FeeLedger, FeeBook, FeeTill

`FeeLedger` is `fees/service.py` and `payments/gateway.py`, await by await.

| State | Code |
|---|---|
| `invoice` | `fee_invoices`: `total`, `paid_amount`, `late_fee_amount`, `status`, due date |
| `payments` | `payments`, the receipts with their allocation lines |
| `order`, `gateway` | `payment_orders`; external: what the provider knows |
| `outstanding` | `students.outstanding_amount`, kept by `_refresh_outstanding` |
| `invoiceSeq`, `receiptSeq` | the counters behind `next_invoice_number`, `next_receipt_number` |

| Actions | Code |
|---|---|
| `Collect`, `ApplyToInvoice`, `TakeReceiptNumber`, `WriteReceipt`, `ReadOutstanding`, `WriteOutstanding` | `collect_payment`: snapshot of the open invoices, one update per invoice, number, receipt, refresh |
| `BeginOrder`, `PlaceOrder` | `create_order` |
| `BeginConfirm`, `FetchPayment`, `CollectOnline`, `CollectNothing`, `BankOrder`, `RefuseOrder` | `confirm_payment`, from the callback and from the webhook, with both refusals |
| `BeginBilling`, `CheckBilled`, `TakeInvoiceNumber`, `RaiseInvoice` | `generate_invoices` |
| `BeginSweep`, `SweepInvoice` | `mark_overdue` with its late fee |
| `Pay`, `Refund`, `NextDay`, `Abort` | the provider, the calendar, failure |

`FeeBook` is the abstract promise: bills and a receipt book, where money is taken
in one step. `FeeTill` instantiates it with a refinement mapping (a bill's paid
figure less what a running collection has in hand) and adds the promises that hold
when requests do not overlap. `FeeTill` also states liveness.

### Library

`issue` (`BeginIssue`, `CheckLimit`, `CheckDuplicate`, `Lend`, `TakeFromShelf`),
`return_item` (`BeginReturn`, `CloseLoan`, `ReadShelf`, `Restock`, with damaged and
lost copies), `renew`, `mark_overdue`. `req[h].claims` is the set of documents a
request works on; when two requests hold the same claim, or one fails holding it,
it joins `disturbed`.

`Library` is checked inside `Office` (below), and alone in `LibraryCrash`.

### Payroll

`generate` (`BeginGenerate`, `ReadStaff`, `ClearSlips`, `CreateRun`, `WriteSlip`,
`WriteTotals`), `approve` and `mark_paid` (`BeginMark`, `MarkRun`, `StampSlips`),
`Revise` (salaries change between readings). `approvals` records what was approved.

### Biometrics

One device's day: `Push` (with re-sent punches), `StorePunch` (the upsert),
`CountPunches`, then `apply_punches`: `ReadPending`, `ReadPeople`, `ApplyDay`,
`MarkProcessed`; `BeginSync`, the manual route; `Enrol`. `Touch` and `acked` are
the reader, which keeps what it was not answered for.

### Accounts

`auth/service.py` and `users/service.py` together, because sessions depend on
accounts and accounts on roles. Sessions are live refresh tokens. `epoch` counts what
replaces an account's password or closes it, `since` the last of these that revokes its
sessions: a change, a reset, a temporary password and a closure do, accepting an
invitation and renewing one do not. `SignIn`, `RecordMiss`, `RecordSignIn`, `IssueTokens`,
`Refresh`, `RevokeRotated`, `SignOut`, `ChangePassword`, `StartReset`,
`FinishReset`, `AcceptInvite`, and behind `Ask` (the authorisation of
`core/deps.py`) the administrators' operations: `CheckAddress` to `CountNewUser`
(create and invite), `ReadHeld` to `StoreRoles` (`update_user_roles`),
`ReadAccount` to `Switch` (`set_user_active`), `StoreTemporary`, `CreateRole`,
`UpdateRole`, `CheckUnused`, `DropRole`, `ReadBuiltIn`, `SyncRole`.

### Requests and the modules of Campus

`Requests` is what the remaining components share: `pc`, `req`, who met whom
(`disturbed`), and the bound on what is asked. A component extends it, has its own
variables and an `...Step(h)`; `Campus` composes People, Registers, Learning, Exams,
Tracking, Messages, Records and the platform (Tenancy, Console, Provisioning, each
extending the one before), so that one's request can come between two calls of
another's.

`People` is `people/service.py` and the hooks of `people/router.py` over the CRUD
factory. `student`, `enrolled`, `wards`, `login` are the records, the enrolments,
the guardians' `student_ids` and the accounts; `strength` is
`sections.current_strength`.

| Actions | Code |
|---|---|
| `BeginAdmission`, `CheckSeat`, `InsertStudent`, `InsertGuardian`, `FileGuardians`, `Enrol`, `OpenLogin` | `create_item` and `create_with_guardians`: plan limit, capacity, the inserts, recount, enrolment, login |
| `CountActive`, `WriteStrength` | `recount_section`: a count, then an update |
| `BeginEdit`, `StoreEdit` | `update_item` and `after_student_update` |
| `BeginRemoval`, `Remove`, `Restore` | `delete_item`, `restore_item`, which have no hook here |
| `BeginPromotion`, `NextOfCohort`, `CloseEnrolments`, `OpenEnrolment`, `MoveUp` | `promote_students` |
| `BeginStatus`, `StoreStatus`, `CloseLogin` | `change_status` |
| `LinkChild`, `LinkGuardian` | `link_guardian` |

`unheeded` is a history variable: what the code changes and does not follow up.
A removal, a restoration and a promotion do not recount the section left; an edit of
status, year or guardians touches neither login, enrolments nor guardians. The
properties are claimed for the rest, which is what the code keeps in step.

| Module, code | Actions |
|---|---|
| `Registers`, `attendance/` | `BeginRegister`, `CheckLock`, `MarkRow`, `StoreSheet` (`take_register`: holiday, lock, rows in no order, summary); `SetLock`; `Declare`, `Withdraw` (holidays, CRUD); `BeginRelease`, `ReadHoliday`, `RestateRow`; `BeginDevice`, `DeviceMarks` (a pupil's row by `apply_punches`) |
| `Learning`, `lms/` | `EditWork`, `BeginStage`, `StoreStage`; `BeginSubmit`, `ReadExisting`, `Resubmit`, `HandIn`, `CountIn`; `BeginCollect`, `ReadRows`, `CollectOne`, `Recount`, `StoreCount`; `BeginGrade`, `StoreGrade`, `CountGraded`; `BeginSchedule`, `Schedule`, `BeginCancel`, `Cancel`, `BeginJoin`, `Join`, `Attend` |
| `Exams`, `exams/` | `EnterMark`, `RemoveMark`, `EditScale`, `EditPaper` (CRUD); `BeginScheme`, `StoreScheme`; `BeginRegrade`, `ReadScale`, `ReadMarks`, `ReadScheme`, `RegradeOne` |
| `Tracking`, `tracking/` | `BeginTrip`, `StartTrip`; `BeginPosition`, `ReadPrevious`, `InsertPosition`, `CheckStops`, `AddUp`; `BeginEnd`, `EndTrip` |
| `Messages`, `communication/` | `BeginThread`, `OpenThread`; `BeginSend`, `InsertMessage`, `MarkUnread`; `BeginRead`, `PullUnread`, `AddReader`; `Archive` |

`row` and `sheet` are the `attendance` rows and `attendance_sessions` of one day;
`listed` and `strayed` remember for whom a summary was written and whose row has
been written otherwise since (a release or the device restates no summary).
`work`, `handed`, `lesson` are the assignments, their submissions and the live
classes. `paper`, `cut`, `mark` are one subject's scheme, the scale and the marks;
`figures` remembers which marks were entered, or scales edited, since the last
regrading, which only a change through `set_marking_scheme` brings about by itself.
`trip`, `positions` are the tracker's collections; `told`, `driven` count what
families were told and what distances were found. `thread`, `messages` are the
conversations, a message known by who has read it.

The records and the platform, in `Campus` too:

| Module, code | Actions |
|---|---|
| `Records`, `core/crud.py` | `BeginCreate`, `NextNumber`, `IsFree`, `CheckUnique`, `InsertRecord` (`create_item`, with the numbering of `people/`); `BeginUpdate`, `WriteRecord`; `BeginErase`, `Erase` (one or many); `BringBack` |
| `Tenancy`, `core/tenancy.py` | `BeginVisit`, `LookUp`, `ReadTenant`, `Remember` (`load_tenant_doc`, `_load` and the guard of `require`); `Forget` (`invalidate_tenant_cache`); `Tick` |
| `Console`, `platform/service.py`, `settings/router.py` | `SetTenantStatus`, `UpdateTenant`, `BeginSubscribe`, `LookUpPlan`, `WriteTenant`, `UpsertSubscription` (`change_subscription`); `Convert`, `EndSubscriptions`; `BeginSwitch`, `Weigh` (`update_modules`); `UpsertPlan`, `BeginRetire`, `RetirePlan` |
| `Provisioning`, `tenants/provisioning.py` | `BeginProvision`, `InsertTenant`, `SeedRole`, `InsertOwner`, `CountOwner`, `InsertYear`, `SetYear`, `SeedDefaults`, `InsertSubscription`, `HandOver` |

`file` is one soft-deleting collection, `issued` its counter. `tenant` are the
institutions' documents, `cache[w]` what process `w` remembers of them, `plan` and
`subs` the catalogue and the subscriptions, `kit[i]` what was inserted for institution
`i`. The history variables: `refused` (generated numbers turned down), `restored`
(whether anything was brought back, which asks no ceiling), `replaced` (documents no
longer stored, by which process and when) and `heard` (the latest guard and what it
went by), `granted` (what an institution was given), `offered` (handed to its owner).

### Catalogue and Access

`Catalogue` is the data of `core/permissions.py` and `core/navigation.py`: modules and
their actions, role presets, the sidebar, and the expansion of wildcards. `Access` is
what is made of it: `Admits` (the guard of `require`), `Shown` (`build_navigation`),
`year_for`, the row scopes of `core/scoping.py`, `all_of`, `build_query`, and the
routes that take an id. A Mongo query is a function from its keys to the rows each
accepts, so that two conditions under one key are the collision they are in the code:
`Overlaid` writes the request's filters (`Chosen`, of those a resource takes,
`Filterable`) over the scope by key, then the search joins the "$or" that is there.
`AnswerMenu` and `AnswerList` answer one request. `Concerns` says without queries whose
row it is, `Displaced` which conditions of the scope a filter took the place of, and
`ListHonest` compares: nothing unsought is shown, nothing of theirs is left out, and
with nothing displaced the list is exactly theirs.

### FeePlan

One family's year: `generate_invoices` (labels by `period_label_for`, concessions, due
dates), `collect_payment` against one bill, `mark_overdue` with its late fee, `Pass`
(days), over `bills`; and what the family reads in between: `Schedule`, `fee_plan`,
`Totals`. Requests do not overlap here: `FeeLedger` is the place for that.

### Reports

`Reports` has one register (`book`) and draws the page all screens make of it: reports,
attendance and fees screens, the profile, the ledger, the dashboards. Each operator is
one query. `ReportsAgree` is four agreements, one per kind of register: where the code
makes two screens say the same it says so, and where it does not, by how much they differ.
The report's own list of defaulters rounds before it compares and takes a threshold of 0
for none given, the attendance screen's does neither; the report's total leaves out half
days (`overall_attendance`).

### Office

`Library`, `Payroll`, `Access`, `FeePlan` and `Reports` share no document. `Office`
composes them by opening one per behaviour: they are checked in one run on the
instances they would each have, none multiplying another's states.

## 4. The runs

| Run | Instance | What it shows |
|---|---|---|
| FeeRace | a till that bills and collects, a confirmer that also sweeps and may die anywhere; 1 student, 2 periods, 1 order | `TypeOK`; `NoReceiptCollision`; `CreditIsBacked`: no invoice shows money that was not handed over; `PaidWithinTotal`, though the late fee is recomputed from snapshots; `PaidOrderHasReceipt`; `OldestDuesFirst` |
| FeeTill | one till, 2 students, one period, two collections, fair | refinement `BookSpec`; `SettledStaysSettled`, `CapturedOnce`, `DuesInOrder` (billed once, and the cached outstanding fresh) without overlap; `CapturedIsBanked` |
| FeeCapture | callback and webhook overlapping | *violation* of `CapturedOnce` (8.1) |
| Office | one component open at a time (5) | `LendingInOrder` (copies accounted for and the limit respected where undisturbed; counts in range always), `ClosedStaysClosed`; `RunMatchesSlips`, `FrozenStaysFrozen` (undisturbed), `PaidWasApproved` (always); `AccessInOrder` (menu and guard agree; lists show what concerns the reader and is sought, and but for a displaced condition nothing else); `PlanInOrder` (plan, account and bills agree); `ReportsAgree` |
| LibraryCrash | one desk that dies | *violation* of `ShownIsThere` (8.2) |
| HolidayLetters | the reports alone | *violation* of `DayOffCountsForNobody` (8.5) |
| Biometrics | two overlapping pushes, one doubling as the manual sync, one person, three hours, one failure, fair | `ProcessedWasApplied`, `LogAndDayAgree` (the device's counter and its log; one batch, one day), `EveryPunchCounts` |
| BiometricsDay | a punch in the morning, one later, each pushed as made | *violation* of `FirstIsIn` (8.3) |
| Accounts | 2 desks (one may die), 3 people, 3 roles, 7 scenarios | `LastOwnerKept`, `SessionsAreCurrent` (a session was opened no earlier than the last change, reset or closure, unless issued across it), `RolesInOrder` (counts match holders; edited roles survive the sync) |
| Campus | 2 desks (one may die), 2 pupils, 2 sections (one with one seat), 2 years, a guardian, a holiday, an assignment, 2 classes, a vehicle with 2 trips, 3 correspondents, a staff list with a ceiling of 2, up to 3 institutions and 2 processes; 3 requests out of 37 scenarios | `OneEnrolment`, `StrengthCounted`, `AdmittedToASeat`, `LeaversShutOut`; `SheetSaysRows`, `LockAndClosureHold`; `LearningInOrder` (submission counts, no clash of classes), `GradedStays`; `MarksFollowScheme`; `TripsAreTrue`; `UnreadIsUnseen`; `ListInOrder`; `AdmittedOnRecentWord`; `NothingUnbought`; `ReadyWhenOffered` (all of what is undisturbed and followed up) |
| AccountsOwner | the same as Accounts | *violation* of `OwnerRemains` (8.4) |
| SwitchBeyond | two requests that do not fail: a switch and a change of plan | *violation* of `SwitchWithinPlan` (8.6) |

Between them the passing runs fire every action and disjunct of their next-state
relations, and
for every property of a passing run there is a definition of the code that, when
replaced by a plausible slip, makes TLC report that property (`mutants`).

Deadlock is not checked where the system really stops: in the fee runs and in
`Office` and `LibraryCrash` everything may be paid, returned, approved, answered or
drawn on the last simulated day; in
`BiometricsDay` all punches are in; in `Accounts` an institution left with no owner
can ask nothing, and sessions and epochs are bounded; in `Campus` requests are
bounded. `Biometrics` runs with deadlock checked.

## 5. Bounds, and why they are enough

Every bound is a named constant. `MaxDay`, `MaxCollections`, `MaxLoans`, `MaxRenewals`
(the code's limit), `MaxClashes`, `LastHour`, `MaxFailures`, `MaxSessions`, `MaxEpoch`,
`Filters`, `Scenarios`, `MaxRequests`, `Files`, `Numbers`, `MaxClock`, `Bundles`,
`Orders`, `Doors`, `Pages`, `Visits`, `Sums`, `Strides`, `MaxBills`, `LastDay`, `Books`.

* *Two handlers.* The code's races are between one handler's read and another's
  write; a third handler adds no new pair. The proved theorems hold for any number.
* *Fees.* `Amounts = {3}` over two invoices of 2 in `FeeRace` pays one whole and
  one in part; a late fee of 1 makes the second total move while it is being paid;
  `MaxDay = 1` makes an invoice overdue. The race instance begins one collection
  at the desk and leaves room for one more per order. `FeeTill` needs two students
  to let a payment in one's name reach the other's invoice, and amounts 1 and 3 to
  have a part and a whole payment.
* *Library.* One title with two copies, one with one; limits of two and one: the
  last copy, the limit, and the same title twice are all met by two loans.
  `MaxClashes = 0`: once a document is disturbed, no further request arrives; what
  is under way runs on (in `LibraryCrash` one more may arrive).
* *Payroll.* Two staff are the least for a run to be half written; pay of zero and
  two the least for a regeneration to change the total.
* *Biometrics.* Three hours give a punch that is on time, late and a half day, and
  first, middle and last of a day; one failure lets each call be the last one.
* *Accounts.* The scenarios limit *what is asked together and about whom*, seven
  combinations chosen to cover every pair of operations that touch the same
  documents; within one, everything interleaves. Nothing more is begun once
  something is excused: whatever follows is not claimed about that topic, but the
  bound also hides what a later request would do to another topic. `MaxEpoch = 3` lets
  an invitation be renewed and accepted and the password then be changed.
* *Campus.* Two pupils, one of them there before, meet at the one seat of a section;
  two years and two sections are what a promotion changes; three requests let a
  third follow two that overlapped. The schemes and scores let a change of the
  maximum, of the pass mark alone and of the scale each move a grade or a flag; the
  fixes hold one at the stop, one a plausible and one an impossible way off; three
  correspondents make a group and a pair. Scenarios and the stop after a meeting bound
  it as in Accounts.

* *Records.* The documents filed before are within the ceiling (`RecordsAssumption`), as
  they were when each was created. Two documents filed under numbers 1 and 2 with the
  counter at nought: the generator has to step over both, and gives up after two tries as
  it would after its limit; a ceiling of two is met by a deletion and a creation, or a
  restoration.
* *Platform.* Two processes are the least for one to go by a word the other replaced;
  a lifetime of two with two ticks lets an entry be fresh, old and lapsed. Plans
  differ by one module; a plan only the console knows, one with a trial and one for a
  licence are the three branches of provisioning. Time passes only once something is
  remembered and a visit was asked (`Tick`): nothing else reads the clock.
* *Access.* Every pair of the presets' roles, in both types of institution and three
  kinds of hosting, expired, suspended and on trial; ten people from one with no links
  to a teacher who is also a guardian; two years, one of them current or none; per
  resource, rows of every kind its scope tells apart (drafts, whole-class work, another
  year's, no class, no section). The filters take each key on which a scope has a condition
  of its own, and keys on which it has none, alone or two at once. These inputs are
  enumerated, not sampled.
* *Fee plan.* Four families: lines that share an instalment with and without windows, a
  year that starts in April, an optional line, a facility not used, none at all; every
  kind of run with and without its index; months of two days, so that a year is
  twenty-four and strides of five meet dues, grace days and the fine's cap; two bills.
* *Reports.* Three days of one pupil take every status that the queries tell apart, a
  second pupil and holidays besides; thresholds of 0, 67 and 75, two days of three being
  66.67%, and one year of 297 days whose rate rounds up to its threshold; two bills every
  state a bill can be in, receipts on both sides of midnight; marks given, missing and
  zero in two classes; loans, seats and enquiries in every state.

## 6. Fairness

* **FeeTill**: weak fairness of each handler's resumed steps (the event loop runs a
  ready coroutine), strong fairness of a genuine confirmation for each order:
  the provider repeats a webhook until it is answered with success, which the
  webhook route is written for. A handler that is busy is idle again and again,
  so the repeated delivery is enabled infinitely often, not always: hence strong.
  No fairness is given to `Pay`, to cashiers or to the calendar.
* **Biometrics**: weak fairness of each handler's steps; strong fairness of the
  reader's re-sending of what it was not answered for, as the handshake instructs
  it (`Delay`, `ErrorDelay` in `biometrics/router.py`). `EveryPunchCounts` is
  claimed for people who stay enrolled; failures are bounded by `MaxFailures`,
  since a database that always fails applies nothing.

## 7. What is proved

Eight modules hold theorems; `SumTheorems` has those about sums, `PeopleProofs`
extends `CampusProofs`, and `OfficeProofs` has those of four parts of the office.
Every theorem is of a specification the runs check: `Spec` of `FeeLedger`, `FeeTill`,
`Library`, `Biometrics`, `Accounts`, `Campus`; and `PayrollSpec`, `AccessSpec`, `PlanSpec`,
`ReportsSpec`, each of the component whose steps are its steps of `Office`. It says for
every value of the constants, that is any number of handlers, documents and days and any
registers, what a run shows on an instance. They rest on the named assumptions of the
modules (parameters are naturals, typed amounts positive, "none" values outside their
sets, collections finite; and for what Access, the plan and the reports read, the facts
about stored rows named below), on nothing else, the two hypotheses below aside, which
stand in the theorems themselves.

| Theorem | States | Inductive invariant |
|---|---|---|
| `FeeProofs!TypeCorrect` | `[]TypeOK` | `Typed == TypeOK /\ LocalsOK /\ OrdersOK` |
| `ReceiptsNeverCollide` | `[]NoReceiptCollision` | `Typed /\ Numbering` |
| `PaidOrdersHaveReceipts` | `[]PaidOrderHasReceipt` | `Typed /\ Banking` |
| `CreditsAreBacked` | `[]CreditIsBacked` | `Typed /\ Funded` |
| `DuesSettledInOrder` | `[]OldestDuesFirst` | `... /\ InOrderOfDue` |
| `PaidNeverBeyondTotal` | `OneSweeper => []PaidWithinTotal` | `... /\ BillsInOrder` |
| `TillIsBook` | `OneTill`: `BookSpec`, the refinement | `Ledger /\ Tidy` |
| `PaidStaysPaid`, `DuesStayInOrder`, `OrderCapturedOnce` | `OneTill`: `SettledStaysSettled`, `[]DuesInOrder`, `[]CapturedOnce` | `Ledger /\ Tidy`, with `Billing` and `Owing`, or `Capturing` |
| `LibraryProofs!LendingStaysInOrder`, `ReturnedIsFinal` | `[]LendingInOrder`, `ClosedStaysClosed` | `LibraryTyped /\ Circulation` |
| `OfficeProofs!TotalsAreOfPayslips`, `ApprovalFreezes`, `PaidIsApproved` | `[]RunMatchesSlips`, `FrozenStaysFrozen`, `[]PaidWasApproved` | `PayrollTyped /\ InOrder /\ ApprovalsKnown` |
| `EverybodySeesTheirOwn` | `[]AccessInOrder` | `AccessSound` |
| `PlanStaysInOrder` | `[]PlanInOrder` | `PlanSound` |
| `FiguresAgree` | `[]ReportsAgree` | `PageSound` |
| `BiometricsProofs!MarkedWasApplied`, `LogAndDayAlwaysAgree` | `[]ProcessedWasApplied`, `[]LogAndDayAgree` | `BioSound` |
| `AccountsProofs!AnOwnerIsLeft`, `RolesStayInOrder`, `SessionsStayCurrent` | `[]LastOwnerKept`, `[]RolesInOrder`, `[]SessionsAreCurrent` | `AccountsSound` |
| `CampusProofs!ListsStayInOrder` | `[]ListInOrder` | `Disciplined /\ RecordsSound` |
| `BadgesTellTheTruth` | `[]UnreadIsUnseen` | `... /\ MessagesSound` |
| `TripsStayTrue` | `[]TripsAreTrue` | `... /\ TrackingSound` |
| `RegradedByScheme` | `[]MarksFollowScheme` | `... /\ ExamsSound` |
| `SheetsAgreeWithRows`, `LocksAndClosuresHold` | `[]SheetSaysRows`, `LockAndClosureHold` | `... /\ RegistersSound` |
| `OnlyWhatWasBought` | `[]NothingUnbought` | `Disciplined /\ PlatformShaped /\ BoughtSound` |
| `InstitutionsAreReady` | `[]ReadyWhenOffered` | `... /\ ReadySound` |
| `GuardsGoByARecentWord` | `[]AdmittedOnRecentWord` | `... /\ RecentSound` |
| `PeopleProofs!EnrolledOnce` | `[]OneEnrolment` | `Disciplined /\ PeopleShaped /\ Enrolled` |
| `NoLeaverSignsIn` | `[]LeaversShutOut` | `... /\ Enrolled /\ Tended` |
| `StrengthsAreCounted` | `[]StrengthCounted` | `... /\ Enrolled /\ Tallied` |
| `AdmissionsFindASeat` | `AdmittedToASeat` | `... /\ Enrolled /\ Seating` |
| `CountsAndTimetable`, `GradesStand` | `[]LearningInOrder`, `GradedStays` | `... /\ LessonsSound /\ HomeSound` |

**Fees.** `TypeOK` alone is not inductive: what a handler writes depends on what it
holds at its program counter. `LocalsOK` says so label by label, and `OrdersOK` that a
placed order names a student and an invoice. `Numbering` adds that a receipt's number is
at most the counter, so the next increment is fresh however many handlers hold numbers
they have not written. `Banking` adds `OrderTrail`: what a handler collecting for an order
still owes the order. `BeginOrder` is the delicate step (a reference must be minted by one
handler only).

*Where the money is* (`Funded`): each invoice's paid figure is at most its `Backing`, the
lines of receipts, of running collections and of those that failed. The loop writes a
figure computed from a snapshot awaits ago; `SnapshotsBacked` says that the snapshot's
figure is backed *now*, whatever others did, because backing never shrinks: money in hand
becomes a receipt or an orphan. `BillsInOrder` says no fresh total is below what an
earlier snapshot knew. That needs `OneSweeper`: at most one handler may run overdue
sweeps. `mark_overdue` is started by hand (`POST /fees/mark-overdue`,
`fees/service.py:669`), so the code does not forbid two; begun on two days, the older
sweep may write its lower late fee back over a bill paid in full with the higher, and the
paid figure is then beyond the total. `FeeRace` has one sweeper for that reason.

*The refinement*: under `OneTill` (one handler, that does not fail), each await of
`FeeTill` maps to a step of `FeeBook` or stutters, `WriteReceipt` being the moment money is
taken, `RaiseInvoice` that of a bill, `SweepInvoice` that of a fine. The mapping takes
what is in hand off the paid figure; `Tidy` says the snapshots are the invoices and the
lines in hand are the difference. `FeeCapture` shows what two handlers do to
`CapturedOnce`.

**Sums.** `CreditIsBacked`, the refinement, `DuesInOrder`, `RunMatchesSlips`, `PlanInOrder`
and `ReportsAgree` sum over sets. The prover has no induction over data, but among the
subsets of a finite set that refute a statement one is smallest: `SumTheorems` proves of
`SumFunction` that it exists, splits off any one element, is additive, monotone and
unchanged by what does not matter, each time by removing an element from a smallest
counterexample. On that stand the regroupings: a sum is the sum of its groups' sums
(`SumGrouped`), a set as many as its groups together (`CountByGroup`), and lines that
stand one for one for their keys add up to what the keys do (`SumOfLines`).

**Library, Payroll.** Two documents are written one after the other, so a count and what it
counts differ in between. `Circulation` says by how much (`Gap`): a request at "take" has
lent a copy it has not taken off the shelf, one at "restock" the reverse; with two requests
on one title nothing is claimed and `disturbed` holds it. `InOrder` says for each call of
`generate` which payslips are written and what of the total they make up.

**Access.** A request is answered in one step, so the invariant says that an answer, once
there, is that of the request. The work is in what the answer is. The facts about the
catalogue (each page's module, permission and portals fit, no page is at two modules) are
proved from the tables of `Catalogue` themselves. A query is a function of its keys: of a
scope and a search that both want "$or", the code moves one under "$and", and the proof is
that the search loses no key, scope by scope, that filters only take the place of the keys
`Displaced` names, and that what is then found is what `Concerns` says. Assumed of the
data: an allocation names sections that exist, `None` is no year, and the four collections
read by year, and only they, carry theirs.

**Fee plan.** `PlanSound`: a bill's label is that of the run that raised it and no two bills
share one; its total lies between what it was raised for and that with today's late fee
(which only grows), what was paid is at most the total, and a paid bill is paid in full.
Then the year adds up the same instalment by instalment and line by line, because
instalments are the classes of lines under a label (`YearByInstalment`, `YearByLine`), and
what is unpaid is what may be paid now and what waits for its window. Assumed of a
structure: starts, amounts and due days are naturals, a frequency is one the code lists.

**Reports.** A page is a function of the register, so `PageSound` only says which page it
is; all else is about the screens. They group the same rows by different keys over
different windows, and each agreement is a regrouping: attendance by pupil, day, status
and month; bills by class, status and pupil, those paid in full leaving nothing; receipts
by method and day; marks by subject and by pupil. `RankingExists`: "better" compares two
fractions by cross products, is an order where nobody is marked out of nothing, and
finitely many lines can therefore be ranked, so the sheet's `CHOOSE` is one. What a
register may hold is `Kept`: one attendance row a pupil and day, dated at midnight (the
unique index, `db/indexes.py:117`); a bill paid for at most its total, and a paid one in
full; the figure kept on a pupil what the bills leave (in the ledger that is `DuesInOrder`);
a mark out of more than nought (`exams/router.py:42`); a pupil's marks of one exam in one class;
a threshold of whole percents. Rounding can keep a pupil off the report's list who is on the
other only from two hundred days on (`RoundingTakesDays`).
That the pages agree with registers in which these fail is not claimed.

**Biometrics.** `BioSound` says what each call holds: each punch a push at "apply" has
grouped was applied or is of someone it has still to reach (`Applying`); a row's in, out
and status were read from one batch applied to that person (`RowsRead`); and the log is as
long as the counter and what the pushes at "ingest" have still to add (`Counting`). The
attempt corrected the property: the settings `late_after` and `half_day_after` are two
independent fields, and if the half-day mark comes before the late one, an arrival in
between is a half day although it is not late. "Present" is to be at or before *both*.

**Accounts.** `AccountsSound` gives each property what the requests under way owe it. A
request that changes an account *crosses* the others under way: what they had read of it is
claimed no longer.
`Bearing`: the epoch a sign-in or a refresh brings is not before the account's `since`, and
the account open, unless that account crossed it or a change of it has still to revoke.
`LeavesOne`: whoever takes an owner away, by closing an account or taking the role off it,
leaves another who is open, unless anyone crossed it: it read a count of two, and only
requests that cross it can lower that. `Counted`: a role's count is its holders, less those
inserted and not counted yet, less what was taken off and is still held, plus what was added
and is not yet held; `HoldsAsRead` says that what is taken off is what the account has.
`SyncsOthers`: a role still to be synced is one nobody has edited. Holders are counted in a
finite set: `Founders` is finite and accounts come one at a time. Here too the bound of the
runs stands in the specification: no request begins once one is excused.

**Campus.** Eight components take turns at the same desks. `Disciplined` says of all what
each needs of the others: a desk stands at a call of one component, `req` fits the call, and
**two requests' claims meet only on disturbed documents**; it is proved of every operation
once (`...Moves`), and another component's step `Passes` by. On it each component has an
invariant of one form: its documents are typed; each request, at each call, holds what it has
read or written so far, as long as what it is about is undisturbed; and each document is
right, or *owed* what exactly one request at one call still has to write. A step then changes
one desk's holding and the truth of the documents it claims, and a frame lemma says the rest
stands. So `TripsAreTrue` needs that a request between inserting a position and adding up
owes the trip exactly that leg; `ReadyWhenOffered`, at each of the eight calls of a founding,
what is done (`KitAsFar`); `AdmittedOnRecentWord`, that an entry of a process's cache is the
document or one another process replaced after it was stored, and that what this process
itself replaces, it is still about to forget (`ToForget`). `ListInOrder`'s uniqueness of
numbers needs none of it: the index holds whatever overlaps.
`PeopleShaped` says of each of the seventeen calls of People what its request holds and
that what it is about is on file. `Enrolled`: a pupil admitted and not yet enrolled has no
enrolment, one between the closing and the opening of a promotion none, one still to be moved
up that of the year it moves to. `Tended`: a status is stored calls before the login is
closed, a child's side of a link a call before the guardian's. `Tallied`: the number counted
is still the number when it is written, and a section whose pupils changed is on some
request's list, or unheeded; `EditTrue` is needed since an edit recounts the section it
*remembers* the pupil in. `Seating`: while an admission holds a free seat, nobody who is not
about that section can add to it; the one danger is a request about a *pupil* of the section
(an edit or a change of status that makes one count again), and `Uncontested` says none is
under way, because such a request names the section when it begins.
`HomeSound`: a submission read before it is rewritten is still as it was read (`RowTrue`),
and a homework's counts are of its rows, once what a request between the row and the count
owes is taken off (`CountTrue`). To count, the pupils there before must be finitely many
(`PeopleAssumption`); later ones come one at a time.

Campus is proved with the bound its runs have (once two requests met or one failed, no new one
is asked, though any number may be under way), which `Requests` states in the guard `Open`.

**Only model-checked.** Liveness (`CapturedIsBanked`, `EveryPunchCounts`): fairness and
`ENABLED` are beyond the provers. The six runs that end in a violation show one behaviour
each. Everything else a passing run checks is a theorem.

## 8. Where the code and the repository's text disagree

1. **`FeeCapture`**: `confirm_payment` reads the order's status, then awaits the
   provider and the whole collection before writing `paid`; overlapping callback
   and webhook each mint a receipt. `docs/ARCHITECTURE.md:136` says capture is
   idempotent.
2. **`LibraryCrash`**: `issue` writes the loan and lowers `available_copies` in two
   awaited calls; a failure between leaves the book out and shown as available.
   `library/service.py:3-5` says a crash cannot.
3. **`BiometricsDay`**: each push applies only its new punches and sets the row
   from them alone, so a later push overwrites the in-time.
   `biometrics/service.py:14` says the first punch of the day is the in-time.
4. **`AccountsOwner`**: two owners who deactivate each other at once both count two
   owners. `docs/ARCHITECTURE.md:67` says the last owner cannot be deactivated.
5. **`HolidayLetters`**: `defaulters` counts a row restated as holiday or excused in
   the total and not among the present; a child who missed nothing is on the list.
   `attendance/service.py:129-130` says restating takes the day out of the percentage.
6. **`SwitchBeyond`**: the owner's switch is weighed against the plan as the request (or
   its process's cache) read it and written unconditionally, so after a change of plan in
   between the institution keeps what only the old plan had.
   `settings/router.py:131-132` says the plan is the ceiling.

Four more are in the modules, where no run is made of them: the properties of the passing
runs are stated so as not to claim what the text says, and here is how the two differ.

* A password that comes with an invitation ends no session: `accept_invite` and the
  renewal of an invitation store a new one and revoke nothing
  (`auth/service.py:476-487`, `users/service.py:548-553`). The repository's
  `README.md:122` says that changing a password revokes every session, and
  `users/service.py:254-255` why. In Accounts these two move `epoch` and leave `since`,
  and `SessionsAreCurrent` is about `since`.
* A sign-in or a refresh that read the account or its token before a change of password
  issues its session after the others were revoked (`auth/service.py:317`, `376`);
  `README.md:122` again. `SessionsAreCurrent` excuses it by name (`excused`).
* A filter of a request is assigned over the scope's condition on the same key
  (`core/crud.py:162-169`), so a list then shows rows the scope would not; the route that
  takes an id keeps the scope. `people/router.py:29-32` and `docs/ARCHITECTURE.md:79-81`
  say that no query parameter widens it. `Displaced` in Access names these conditions,
  and `ListHonest` claims less of a list where there is one.
* `fee_plan` merges the windows of the lines of one instalment by the openings that are
  named; a line with none, which is open at once, sets nothing, so the instalment waits
  for the other line's opening (`fees/service.py:295-304`). Lines 292-294 say the widest
  window is taken so that no family is shut out of an open bill. `Window` in FeePlan
  does what the code does; `PlanInOrder` asks of windows only that what they hold back
  is shown as held back.

Screens that differ without contradicting a line of the repository; `ReportsAgree`
states each difference as it is:

* `_between` of the reports includes the midnight after its last day, so a report
  "start to end" counts the next day's register (`reports/service.py:66-67`); the
  attendance screens do not.
* A half day counts as present in the lines of the register's report and not in its
  "Overall attendance" (`reports/service.py:383-386`), as half on the profile, and not in a
  register's own summary; a holiday counts against the pupil everywhere but on
  the profile.
* Asked for a threshold of 0, the report lists those below 75
  (`reports/service.py:412`, `or 75`) and the attendance screen nobody; the report compares
  rates rounded to two decimals, the attendance screen those computed.
* The ledger counts what was paid on a bill later cancelled, the profile does not.
* A mark not given is nought on the mark sheet and left out on the profile.

Elsewhere: two structures of one cycle share a label, so the second run finds every
student already billed; a quarterly run without an index in a year that starts in
April takes the calendar quarter's label, which the plan does not look for
(`fees/service.py:35`, `439`); an overdue invoice is not looked at again, so its late
fee stays at what it was when swept; the homework screen has no year where the list
has one, and a teacher who is also a guardian sees only the children's homework;
provisioning takes the modules of the code's catalogue (`provisioning.py:85`) where the
console's own edit of the plan is meant to count; a cancelled institution's
subscription stays active in its own document.

## 9. What is not modelled, and why

* Abstractions inside modelled components: `DueIn` is not negative, though `_due_date_for`
  can give a due day already past; a year's rollover of counters is left out; edits of
  invoices, items, runs and payslips through the generic CRUD routes are not actions of
  these modules (they belong to the CRUD factory); a confirmation that dies after the
  receipt and is repeated mints a second receipt, which `CapturedOnce` is not claimed for
  (its runs have no failure); the race of `generate` with `approve` on one month is carved
  out of `FrozenStaysFrozen`; in Accounts an administrator's authority is read once, when
  the request is made, and platform staff, impersonation, expiry of sessions and the
  contents of tokens are left out; in People roll and admission numbers, applications,
  guardians' own records and direct edits of enrolments (staff numbers are in Records); in
  Learning lateness, and in Exams practical and internal marks and absentees.
* Seen while modelling and claimed by no property: opening a conversation shows the
  oldest hundred messages and marks all read (`communication/service.py:162-168`);
  a class's attendees grow by one at each joining, `$addToSet` meeting no equal
  entry (`lms/service.py:206-210`); a position sent with the id of an ended trip is
  recorded on it (`tracking/service.py:114-115`); the release of a holiday restates
  rows that an overlapping holiday requires (`attendance/service.py:123-166`).
* Also left out: the arithmetic of a payslip and its working days; rounding of figures that are
  only shown, columns, spreadsheets and the most rows a query fetches (two hundred of a
  ledger, five hundred letters, five thousand lines of a report): the figures agree where
  nothing is cut; the staff directory, expenses
  and the teacher's day among the reports; the cache of academic years; the
  start-up of a dedicated deployment; the platform's metrics and its own staff.
* Seen and claimed by no property: two wrong passwords at once count as one
  (`auth/service.py:289`); the ceiling on staff logins is asked by `create_user` only
  and before the insert (`users/service.py:47`), as Records shows for any list
  (`Calm(List)` in `ListInOrder`); a provisioning that fails half way leaves an
  institution that the slug then keeps from being provisioned again
  (`ReadyWhenOffered` claims only what was handed over).
* Printing, documents, the assistant, wiring and demo data: layouts, fixtures, or one
  call to an external service. Academic, facility and staff records have schemas and
  no code; `Records` is what happens to them.

## 10. Plan

Done, most important behaviour first: FeeLedger with its abstract specification
FeeBook; Library, Payroll, Biometrics, Accounts; People, Registers, Learning, Exams,
Tracking, Messages; Records, Tenancy, Console, Provisioning; Access, FeePlan, Reports.
`Campus` composes those that share an institution's requests, `Office` those that share
nothing.

Left to model, of less worth: the working days and arithmetic of a payslip, report cards
and internal marks, admission enquiries, the roll numbers of a section.

Every invariant and action property of a passing run is proved; liveness stays with TLC
(7). No module declares a RECURSIVE operator.
