# TLA+ verification of the BTS credit application platform

The repository is a bank's credit platform: a Laravel API (`backend/`) on
MariaDB with queue workers and a scheduler, and four Next.js portals (`client/`
for customers, `staff/`, `admin/`, and `sc/` for security) that call it and, in
the discussions, hear its broadcasts. These modules model the parts in which
several actors act on the same data: the workflow of a credit application from
its first draft to its appointment, the row locks this workflow takes, the core
ledger with its two-person transfer requests, the discussion of a dossier, the
way of a notification through outbox and queue, and the pages of the portals,
whose requests overtake each other.

Everything below refers to files under `src/`; `S/` stands for
`backend/app/Services/`, `C/` for `backend/app/Http/Controllers/`, `J/` for
`backend/app/Jobs/`.

## 1. The system

| Part | State | Operations | Hard because | Correct when |
|---|---|---|---|---|
| Status machine (`S/CreditApplicationStateMachine.php`, `Models/CreditApplication.php`) | `credit_applications.status`, `branch_id` | `apply` | the only place where the row is locked and read again | every move is in the table, for the actor, on the locked row |
| Dossier (`S/CreditApplicationService.php`) | three section rows, their codes, a counter row per prefix | create, save ×3, confirm, cancel, delete | every check is made on the route-bound model, before the transaction | a status is earned, codes are unique, nothing moves back or after deletion |
| Validation 1 (`S/CreditApplicationValidationService.php`, `C/CreditApplication/DocumentController.php`) | documents and their verdicts, `validation_steps` | upload, delete, run | slow AI calls outside any transaction, provider failures, time budget | no status without a passed run |
| Bank review (`S/CreditApplicationReviewService.php`) | decision columns | staff approve / reject / cancel, admin approve / reject | admitted on a stale row; admin approval and first proposal in one transaction | decisions are final, made with access |
| Appointments (`S/AppointmentSchedulingService.php`) | `appointments` | propose, accept, reject, schedule by hand | four paths book slots; two tables must agree; offers are replaced while customers answer | slots exclusive, capacity kept, an answer is about what was read |
| Row locks (all of these, `S/AuditLogService.php`) | locks, waits, attempts | lock, wait, commit, deadlock | each transaction also locks the one audit head row, and shares rows by foreign keys; the orders differ | which cycles exist, none between dossiers that share nothing, all requests end |
| Ledger and transfer requests (`S/Banking/`) | `ledger_transactions`, `ledger_entries`, `banking_transfer_requests` | deposit, propose, approve, reject | balance derived under REPEATABLE READ; idempotency keys; daily limit | each approval posted once, limits hold, no overdraft |
| Discussion of a dossier (`C/CreditApplication/ReportController.php`, `C/Staff/ReportController.php`, the three chat pages) | `report_messages`, closed and banned flags; messages, draft, popups on the pages | load, send, close, reopen, ban, broadcast | a message reaches a page by load, by answer and by broadcast, in any order and twice | turns alternate; a page shows a message once and keeps it in its place |
| Async outbox (`S/AsyncOutboxService.php`, `J/ProcessAsyncOutboxEventJob.php`, `Console/Commands/DispatchAsyncOutbox.php`) | `async_outbox_events`, queued jobs, unique locks | record, dispatch, claim, process, fail | processes die anywhere; jobs are redelivered; locks outlive their job | what was committed is processed or visibly given up |
| Notification delivery (`J/DeliverNotificationJob.php`, `Console/Commands/ReconcileNotificationDeliveries.php`) | `notification_deliveries` | send, record, retry, reconcile | the sending and its record are two steps | delivered in the end; twice only when the first sending left no trace |
| Lists and dashboards of the portals (21 pages) | rows, filter, page, flags, dialogs of a page | filter, search, page, refresh, poll, act, export | nothing cancels a request: the last answer shown is the last to arrive | rows match the controls; nothing is said to be empty that is not; a polling page catches up |
| Decision pages (`staff/` and `admin/`, one dossier) | dossier on the page, dialogs | poll, decide | a poll sent before a decision is answered after it | only permitted decisions are offered; a decision taken is shown |
| Customer's appointment page (`client/app/appointments/page.tsx`) | list, dossier picked, its offer | pick, read, confirm, change | the answer is posted under the dossier alone | what is confirmed is the slot on the page |
| Customer's application form (`client/app/applications/[id]/`) | dossier read once per page, form, card of documents, dialogs | save ×3, upload, remove, validate, force, submit, resume | requests outlive the page that sent them and act on the one that is open | the dossier locked is the one shown; the portal leads to steps the server takes |
| Audit chain, branch matching, roles | own tables | | | in part, section 8 |
| OTP and sign-in, storage, analytics, security center, osquery, synthetic data, load tests, health, AI/SMS/Google clients | | | | not modelled, section 8 |

How they interact: controllers bind the route model with a plain read and check
ownership, branch access or editability on it; services open a database
transaction, and what moves a status or an appointment locks the application row
first (then the branch, then appointments) and calls the status machine, which
locks and re-reads the row; later saves, uploads and single audit events do not
lock it, their audit row only shares it by its foreign key; every one of these
transactions writes an audit event, which locks the head of the audit chain;
notifications and broadcasts are recorded in the outbox in the same transaction
and done by queued jobs. `submitCore` hands the dossier from the customer's to
the bank's side by routing it to a branch; both sides share only the application
row and its appointments. The pages talk to the API by requests whose answers
nothing orders; lists and decision pages also poll, discussions also listen to a
channel.

## 2. The modules

| Module | What it models |
|---|---|
| `CreditApplication` | the statuses, their order, the transition table, who may move what; declares `status` and `branchOf` |
| `Dossier` | the customer's side on the server (EXTENDS `CreditApplication`) |
| `Scheduling` | the bank's side: review and appointments (EXTENDS `CreditApplication`) |
| `LoanWorkflow` | `Dossier` and `Scheduling` composed on the same rows |
| `LoanLifecycle` | the abstract specification `LoanWorkflow` implements |
| `LockOrder` | row locks, queues, deadlocks, victims and attempts |
| `Transfers` | ledger and transfer requests |
| `ReportThread` | the discussion: endpoints, broadcasts, and the three pages that show it |
| `Composer` | where its messages are written: draft, commands, popups, timers |
| `Outbox` | a notification from its commit to its sending |
| `ListingPages`, `Listings` | the lists and dashboards: one profile per page, and the behaviour the profiles parameterise |
| `Review` | the decision pages (EXTENDS `CreditApplication`) |
| `AppointmentPage` | the customer's page of appointments |
| `Wizard` | the customer's form: sections, document cards, validation 1, submission |
| `MCDossier`, `MCScheduling`, `MCLoanWorkflow`, `MCLocks`, `MCTransfers`, `MCReportThread`, `MCPortals` | values of function constants, symmetry and state constraints for TLC; the last two also put independent parts into one run |
| `DossierProofs`, `SchedulingProofs`, `TransferProofs`, `OutboxProofs` | theorems about the modules they are named after |
| `WorkflowProofs`, `LockProofs` | theorems about `LoanWorkflow` and its refinement of `LoanLifecycle`, and about `LockOrder` |
| `ThreadProofs` | theorems about `ReportThread` and `Composer` |
| `PortalProofs` | theorems about `Listings`, `Review`, `AppointmentPage` and `Wizard` |

Operators in a comment beginning "Mutant of" are deliberate bugs: replacing the
operator they name by them must make TLC report the property in
`PROJECT.json`, `mutants`. They are used by nothing else.

### How actions correspond to the code: the server

*A request is two or more steps.* In `Dossier`, `Receive` is the route binding
with the checks made on the bound model (`assertEditable`,
`assertPreviousStepCompleted`, the thresholds of the controllers): the request
keeps the status it saw. `OpenTransaction` is the first plain read of a save,
which fixes its REPEATABLE READ snapshot: whether a code exists, and the client
name that will be copied. `SaveSection` is the rest of the transaction, in which
only `apply` sees the latest row; `bumpStatus` asks the stale model. The number
of a new code is read under the counter's row lock, so it is the latest.
Validation 1 is not a transaction: `CheckRequiredSections`, one `VerifyDocument`
per document, `ExhaustBudget`, `FinishValidation` are separate steps.
`ConfirmAndSubmit` is one transaction; the states `VALIDATION_2` and
`FINAL_LOCKED` inside it are never committed, so `submit()` can never find one.
`STEP_3_COMPLETED` and `APPROVED` are likewise passed through inside one
transaction, and `APPOINTMENT_LOCKED` is set nowhere.

In `Scheduling`, `AdmitStaff` / `AdmitCustomer` put a request into `inflight`
after the access check, or with the current appointment, of the bound rows. Its
transaction runs later as one step. That is justified: every transaction here
takes the application's row lock first, everything it decides about that
application is read afterwards, and bookings of other applications are read
with `lockForUpdate`, which sees the latest rows, under the branch lock. The one
plain read among these, the status of the booking's application in `whereHas`,
may be of the snapshot; it could only matter for an appointment that is still
active and whose application is cancelled, and `BankInv` shows there is none.
`Refuse` stands for every exception, early return and rollback.
`AdminApprove` includes the proposal and rolls back with it; `Reject` includes
the replacement; `ScheduleManual` includes the cancellation of earlier offers,
the rerouting and the status. `ConfigureBranches` is the moment when a first
branch exists; branches are not deleted while applications refer to them.

In `LockOrder`, `Plan` lists the locking statements of 13 kinds of transaction in
the order of the code: locking reads, writes, and what the database adds to them.
A row that refers to an application or a branch takes a shared lock on it when
it is inserted or the reference is written (`child`, `event`, `routing`); the
`INSERT IGNORE` of a counter row that is there shares it (`ignored`), and the
locking read after it raises that lock (`number`). So a later save of a section
has the audit head before it shares the application (`ResavePlan`), an upload
the other way round, and the submission has the head before it shares the branch
(`RoutePlan`). `DayRows` are the rows a locking read of a branch's day returns
(the scan covers the branch, since `whereDate` cannot use the date index).
`Acquire`, `Wait`, `Grant`, `Proceed`, `Commit`, `Victim` are InnoDB and
`DB::transaction`, external to the repository: a lock that is not free is waited
for in a queue (`ahead`), and one that conflicts with an earlier request waits
behind it, although nobody holds the row yet. `MaxTries` is the code's: 5 for
`Retried`, 1 for the others, because `DB::transaction` is called there without
attempts and a deadlock in a nested transaction is passed to the outermost one.
`CheckedAfter` is the statement behind which the code checks the status or the
current appointment (`Sensible`); `Refuse` is any other business rule. The engine
sees a `Cycle`: a deadlocked set with no deadlocked part. Left out: gap locks and
lock wait timeouts; the rows of users and staff, which these transactions only
share; section rows, which only saves lock, and for which nobody waits who holds
more than a counter; rows a transaction creates itself.

In `Transfers`, deposits, proposals and rejections read under locks only and are
one step. `Approve` locks the request row, then looks up the accounts with a
plain read, which fixes its snapshot (`seen`, the number of postings it sees);
`PostTransfer` locks the accounts and sums the entries of that snapshot.
`RollBack` is insufficient funds, a key conflict, or a lost transaction, which
`attempts: 3` may start over as a new `Approve`. One currency, accounts that are
open and active: nothing in the code freezes or closes one.

`LoanWorkflow` lets each side leave the other's variables unchanged, except
that the cancellation by the customer also cancels active appointments
(`CustomerCancel`), that a submission is routed (`Routed`), and that route
binding finds live rows only (`BankStep`).

In `Outbox`, `Record` is the commit of event and delivery; what a worker does
with a job is cut where a death matters: claimed, before and after the push of
the next job, before and after the provider's acceptance, after the record.
`EventWorkerDies` and `SendWorkerDies` leave a job reserved, to be handed out
again while tries are left, or fail it first (a timeout, which runs `failed()`)
and then die. `DispatchOutbox` is the command of every minute, `ReadUnfinished`
and `ReplayDelivery` the read and the write of the reconciliation, with the
delivery's old status in between (`listed`). A unique lock is taken by a
dispatch, given back at the job's end, and otherwise expires (`ExpireLock`).
`ReplayFailed` is the operator's `--include-failed`. Back-off times are the one bit
whether `available_at` has passed.

In `ReportThread` a request of a page is a record that is sent, served and
answered. The customer's message takes two steps on the server, as in the
controller: `AdmitCustomer` looks at the closure of the bound row, `PostCustomer`
takes the row lock, reads the turn and inserts. Each message puts a broadcast
into the outbox, which `Broadcast` takes in any order and, up to `MaxReruns`
times, again. A page
enters, loads, subscribes, loses its socket and leaves.

### How actions correspond to the code: the portals

Every page module has the same shape. A handler up to its first `await` is one
action, the server's answer is one, and what the handler does with the answer is
one: React batches the state changes between two awaits, and JavaScript runs
them without interruption. Answers arrive in any order, late, or not at all (the
request or its answer is lost). What a button's `disabled` and what a condition
of the rendered tree hide is the guard of the action.

`Listings` is written once for 21 pages: `Profile` (`ListingPages`) says of each
page which flags its loads raise, whether it polls, appends pages, loads in
parts, disables its pager, which changes it offers and what it does after them.
A profile entry is read off the page's code and mapped to it. `query` is what
the controls stand at, `shown` what the rows answer, `raced` whether requests
overlapped since the last clean load. A load that a handler sends after its own
command was answered (`ReloadAfter`) overlaps with other loads, not with that
command.

`Review` polls, opens dialogs and posts decisions; the answers follow the
transition table of `CreditApplication`, while `OthersDecide` moves the dossier.
`AppointmentPage` reads a list once and an offer each time a dossier is picked;
`StaffMoves` gives the dossier another slot. `Composer` is the field in which a
message is written, with its list of commands, popups, and timers that close
them; its requests end as `Delivered`, `Scheduled`, `Refused` and so on.

`Wizard` has one page open (`step`) and, apart from it, one save, one loop of
uploads, one removal and one validation or submission under way: leaving a page
(`Open`) drops its state and not its requests, of which `here` says whether the
page they report to is still open. `MoveOn` is the `router.push` after a save,
which happens wherever the customer is by then. `StoreDocument` takes the ids in
order; `NextFile` is the loop over the chosen files. `BeginCheck` and `EndCheck`
are the check of the sections and the end of the verification, with deletions
and uploads in between. The server's handlers are those of `Dossier`, in one
step here: their own interleavings are the matter of `Dossier`.

## 3. The runs

| Run | Instance | Question and result |
|---|---|---|
| `dossier` | 2 dossiers, 2 requests in flight, 2 documents (`MCDossier`) | statuses are earned (`ProgressEarned`), codes unique (`CodesUnique`), deleted dossiers stay deleted with their status (`TrashedStays`), no move back (`NoRegression`): hold |
| `dossier_frozen` | 1 dossier, 2 requests, 2 names | `FrozenAfterLock` is violated: a late save changes a submitted dossier |
| `scheduling_two_dossiers` | 2 dossiers, clerk and admin, 2 branches (2 slots and 1), a Sunday and a Monday, 1 request in flight | `SlotExclusive`, `CapacityRespected`, `StatusMatchesOffer` hold |
| `scheduling_one_dossier` | 1 dossier, a Monday and a Tuesday, 2 requests in flight, 2 reschedules, 3 manual appointments | `ReschedulesCounted`, `OfferAtOwnBranch`, `NeverReoffered`, `BranchIsolation`, `DecisionFinal`, `AcceptsWhatWasRead` hold |
| `loan_workflow` | both sides, 1 dossier, 2 requests of the customer's side, an admin, 1 branch with 2 slots | a decided dossier is complete (`DecidedDossierComplete`), the whole implements `LoanLifecycle` (`ImplementsLifecycle`): hold |
| `locks` | any 2 transactions of the 13 kinds, 2 applications, 2 branches, 1 counter, moves between branches | every set of transactions that wait for each other contains one that has logged before, raises a lock it shares, or crosses branches (`CyclesAreKnown`); it is about one dossier, waits for a branch or an appointment, or raises a counter (`CyclesAreLocal`); every request ends (`EveryRequestEnds`): hold |
| `transfers` | 2 accounts at 2 branches, a manager and an admin, 2 requests, 2 deposits, 2 days | `ApprovalsPostedOnce`, `DailyLimitHeld`, `DecidedOnce` hold; `OverdrawnOnlyByOverlap`: an overdraft needs two overlapping approvals |
| `transfers_overdrawn` | the same | `NeverOverdrawn` is violated by such an overlap |
| `chat` | the customer's page and one of the staff's or the admin's; apart from it a composer of each portal | `TurnsAlternate`, `ShownOnce`, `ShownStays`, `EnterRunsListed` hold |
| `outbox` | 1 notification, 3 tries of each job, 2 deaths, 2 sendings without a trace | `ResentOnlyUntraced`, `EventuallySettled`, `EventuallyDelivered` hold |
| `delivery_twice` | the same with 1 death and 1 lost trace | `SentOnce` is violated: a death after the provider's acceptance sends a second time |
| `portals` | one page of any kind: a list, a decision page, the appointment page, or the form | lists: `RowsMatchControls`, `NothingMeansNothing`, `OwnChangesShown`, `PagerAsksExistingPage`; decisions: `DecisionShown`, `OffersArePermitted`; both: `PagesCatchUp`; appointments: `ConfirmsWhatIsShown`; form: `CardShowsServer`, `TransmitsWhatIsShown`, `LedToAnOpenStep`: hold |

The violated properties state what a comment or document of the repository
says; `PROJECT.json`, `findings`, quotes it and says what the code does.

Each module also has a type invariant and `Scheduling` the invariant `BankInv`;
they are theorems (or were checked while the modules were written) and are not
listed in the runs.

**Bounds.** Every hazard of the list in `PROJECT.json` concerns two requests
about one row, or two rows that compete for one resource, so two of each reach
it: two requests in flight give every interleaving of a stale check with a
write; two dossiers and two slots with capacity 2 fill a branch, and capacity 1
fills it with one; the third appointment of a dossier is needed to tell the
count of reschedules from the count of appointments; two documents are needed
for a loop that stops between them; two days make offers expire and the daily
limit start again. `LastDay` bounds the calendar (the code looks 365 days
ahead: an exhausted calendar is `NoSlotsAvailable` there and a refusal here),
`MaxAttempt` the manual appointments, `MaxInFlight` the admitted requests,
`MaxReschedules` is 4 in the code and 1 or 2 here, `MaxRequests` and
`MaxDeposits` bound the ledger. One document at most is judged per step and ids
are never reused, as in the table. `loan_workflow` has one dossier: that
slots are exclusive between dossiers is `scheduling_two_dossiers` and, for any
number of them, a theorem. Its two requests are what lets a late save meet the
bank's decision. `locks` has two transactions, which
is enough for every pair of plans in opposite orders; cycles of three and more,
and those through a queue behind a third, are covered by the theorems.

`outbox` has one event: events share only worker and scheduler, and the
property is about each alone. Its bounds `MaxDeaths` and `MaxSlips` end the
faults, which is also what makes the liveness claims possible; 3 tries leave
one after two deaths. The bounds of a page are on the requests that are out:
`MaxLoads`, `MaxReads` and `MaxDetails` are 2, which is what it takes for one
answer to overtake another; data changes at most once (`version`), which is what
it takes for an answer to be old. `MaxMessages` is 2, the least for an order.

**State constraints.** Five instances are cut down further by a constraint that
is stated with its reason in the MC module, and that keeps each hazard reachable:
`SecondIsThin` (a second dossier without documents, entered after the first);
`OneOfEach` of `MCLocks` (of initial states that differ by an exchange of the two
requests, applications or branches only, one; it speaks of `job`, which no step
changes, so that whole behaviours are left out and the liveness claim is sound);
`Small` of `MCReportThread` (one desk at a time, the admin's with one message;
a broadcast repeated for the first message only; two requests of a composer
out); `Small` of `MCPortals` (two requests of a page out, of five kinds in the
form; the second document neither removed nor rejected; changes by others only
where a page polls). `portals` has liveness properties as well: under the
constraint TLC checks them on the behaviours that stay within it, and the mutant
of `PagesCatchUp` shows that these do include failures and overtaking answers.
Larger instances were run once without these cuts: `Listings` alone with 856,431
states, the chat with 967,802, the form with 784,240 (two entries, any verdict
for one document) and 326,119 (any verdict for both).

**Symmetry** is used only for requests, applications and branches that the
instance does not tell apart, and not in a run with a liveness property.

**Deadlock checking** is off: all systems here may legitimately come to rest
(bounded calendars, all applications decided, all requests answered, a page
left). Waiting in a circle is a property of `LockOrder` instead.

**Fairness** is assumed in three places.
`FairSpec` of `LockOrder`: each transaction that can go on (take a lock, queue for
it, be granted it, proceed, commit) does so or is refused
(a PHP worker and the database keep running), and the engine eventually rolls
back a transaction of a cycle (InnoDB's deadlock detection), both weak fairness;
nothing is assumed about which one it picks.
`OutboxFairness`: workers take queued jobs and the scheduler runs its two
commands (`routes/console.php` has them every one and five minutes; `queue:work` and
`schedule:work` are part of the running system, `backend/composer.json:49`), a
back-off passes, a unique lock that nobody gives back expires: weak fairness.
A provider that is asked again and again accepts or refuses for good: strong
fairness, without which no delivery could be promised. Deaths and lost traces
are not fair, they only end with their bounds.
`ListingFairness` and `ReviewFairness`: the timer of a polling page fires and a
settled promise is handled: weak fairness; not every poll fails: strong fairness
of the server's answer.
Everywhere else users may stop at any time and only safety is claimed.

## 4. The proofs

| Module | Theorem | Statement |
|---|---|---|
| `SchedulingProofs` | `BankTypeCorrect` | `BankSpec => []BankTypeOK` |
| | `BankInvHolds` | `BankSpec => []BankInv` |
| | `SlotsExclusive` | `BankSpec => []SlotExclusive` |
| | `StatusAndOfferAgree` | `BankSpec => [](StatusMatchesOffer /\ OnlyLatestActive)` |
| | `AppointmentsAtOwnBranch` | `BankSpec => []OfferAtOwnBranch` |
| | `DecisionsAreFinal` | `BankSpec => DecisionFinal` |
| | `BranchesIsolated` | `BankSpec => BranchIsolation` |
| | `AcceptancesAreOfWhatWasRead` | `BankSpec => AcceptsWhatWasRead` |
| | `CapacitiesRespected` | `BankSpec => []CapacityRespected` |
| | `ReschedulesAreCounted` | `BankSpec => []ReschedulesCounted` |
| | `NothingReoffered` | `BankSpec => NeverReoffered` |
| `DossierProofs` | `DossierTypeCorrect` | `Spec => []TypeOK` |
| | `CodesAreUnique` | `Spec => []CodesUnique` |
| | `ProgressIsEarned` | `Spec => []ProgressEarned` |
| | `DeletedStays` | `Spec => TrashedStays` |
| | `StatusOnlyAdvances` | `Spec => NoRegression` |
| `WorkflowProofs` | `DecidedDossiersAreComplete` | `WorkflowSpec => []DecidedDossierComplete` |
| | `PromisesCompose` | `WorkflowSpec =>` the invariants of both sides, `[]` |
| | `WorkflowImplementsLifecycle` | `WorkflowSpec => ImplementsLifecycle` |
| `LockProofs` | `LocksTyped` | `Spec => []TypeOK` |
| | `LockInvHolds` | `Spec => []LockInv` |
| | `CyclesKnown` | `Spec => []CyclesAreKnown` |
| | `CyclesLocal` | `Spec => []CyclesAreLocal` |
| `TransferProofs` | `TransfersTypeCorrect` | `Spec => []TypeOK` |
| | `PostedOnce` | `Spec => []ApprovalsPostedOnce` |
| | `DecisionsStand` | `Spec => DecidedOnce` |
| | `LimitHolds` | `Spec => []DailyLimitHeld` |
| | `OverlapOverdraws` | `Spec => OverdrawnOnlyByOverlap` |
| `OutboxProofs` | `OutboxTypeCorrect` | `OutboxSpec => []OutboxTypeOK` |
| | `ResentOnlyWhenUntraced` | `OutboxSpec => []ResentOnlyUntraced` |
| `ThreadProofs` | `CustomersWaitTheirTurn` | `ThreadSpec => []TurnsAlternate` |
| | `MessagesShownOnce` | `ThreadSpec => []ShownOnce` |
| | `MessagesStay` | `ThreadSpec => ShownStays` |
| | `EnterExecutesListed` | `ComposerSpec => []EnterRunsListed` |
| `PortalProofs` | `ListingInvHolds` | `ListingSpec => []ListingInv` |
| | `RowsMatch` | `ListingSpec => []RowsMatchControls` |
| | `NothingIsSaidEarly` | `ListingSpec => []NothingMeansNothing` |
| | `OwnChangesAreShown` | `ListingSpec => []OwnChangesShown` |
| | `PagesAskedExist` | `ListingSpec => PagerAsksExistingPage` |
| | `DecisionsAreShown` | `ReviewSpec => []DecisionShown` |
| | `OffersPermitted` | `ReviewSpec => OffersArePermitted` |
| | `ShownIsConfirmed` | `AppointmentsSpec => ConfirmsWhatIsShown` |
| | `FormInvariant` | `WizardSpec => [](Typed /\ OwnInv)` |
| | `CardsKeepUp` | `WizardSpec => []CardShowsServer` |
| | `SubmitsWhatIsShown` | `WizardSpec => TransmitsWhatIsShown` |
| | `SavesLeadOn` | `WizardSpec => LedToAnOpenStep` |

They hold for every value of the constants that meets the named assumptions of
the modules: any numbers of applications, branches, staff, documents, requests,
tabs, messages, tries, deaths, form entries and cards, transactions and transfer
requests, rows, pages and loads of a list; tables are functions of the right
kind, `NULL` is no branch, the customer is not staff, capacities are positive
(`max(1, daily_capacity)`), ids and amounts are positive. TLC evaluates every
assumption in the runs. Every invariant and every action property of the passing
runs is now a theorem.

*Scheduling.* `SlotExclusive` is not inductive. The search for a free slot
disregards appointments of cancelled applications, so a new proposal is in an
unheld slot only if no cancelled application has an active appointment. That
follows from `StatusMatchesOffer` with `OnlyLatestActive`: an active appointment
is the latest, and makes the status `APPOINTMENT_PROPOSED` or
`APPOINTMENT_CONFIRMED`. `StatusMatchesOffer` in turn is kept by the decisions
only because an undecided application has no appointment
(`UndecidedUntouched`). The second half of `UndecidedUntouched` carries
`BranchIsolation`: the five decisions do not check the access again, and are
safe because a dossier changes its branch only by an appointment fixed by hand,
after which no decision is possible; `scheduleManual` checks it itself.

`CapacityRespected` counts the booked appointments of a branch and a day as the
pairs of an application and a row (`InCapacity`). A step that books nothing
leaves the set no larger; one that books adds one pair, and found the set
smaller than the capacity under the branch lock. The bookings the code counts
are those of `Booked`, which leave out appointments of cancelled applications;
these are no longer active. `ReschedulesCounted` needs `CountsUp`: the
latest row carries the highest count, which is the number of rows turned down,
and is itself never `rejected`; an appointment fixed by hand takes the highest
count of the rows, and would start again without it. The last part of
`CountsUp` also gives `NeverReoffered`: a row that follows one turned down was
appended by the transaction that turned it down, and that one avoids the slots of
all earlier rows.

*Workflow.* Each side's invariant is kept by the other side's steps, because
they write disjoint parts of a row (`RowAgrees`): the customer moves a dossier
while it is being prepared, the bank from `SUBMITTED` on, and what the bank has
acted on cannot return. A dossier that is being prepared has no branch yet, so a
decision admitted on one is of staff without restriction
(`EarlyRequestsUnrestricted`); and the routing at submission takes no access
away from a decision in flight. `DecidedDossierComplete` follows
from `ProgressEarned` at the moment of submission. For the refinement, `Stage`,
`Held` and `Changes` are the abstract state; each action of either side leaves
them alone or makes exactly one step of `LoanLifecycle` with them, and the
step that gives a slot finds it unheld by `SlotExclusive` and counts by
`CountsUp`.

*Locks.* `LockInv` says that what a transaction has asked for is wanted by the
statement it is at (`AsksInPlan`), that every lock it holds is of a statement of its
plan it has come to (`HoldsInPlan`), that the audit head and the branch are kept
to the end (`KeepsLocks`), and that who is ahead in a queue waits for the same row
and has fewer ahead of it (`Queued`). A deadlock may run through queues; `Holders`
takes, for a row somebody of it waits for, the one with least before it
(`LeastSet`, from the library's theorem on strict subsets): it waits for a lock
that another member holds. Now rank the rows in the order counter, application,
branch, appointment, audit head. Who has not logged, does not upgrade and does not
cross branches asks for a row ranked above those it holds, unless both are
appointments (`InOrder`). In a deadlock without the three causes, a member holds a
row of the highest rank waited for, so it and, again, the holder of what it waits
for both hold and wait for appointments. Each of them has locked their common
branch for itself (`HoldsBranch`), so they are the same, and it waits for what it
holds. `LocalCause`: between different dossiers nobody waits for an application;
who waits for a counter without upgrading holds nothing; who waits for the audit head
does not hold it, and nobody else can.

*Dossier.* `CodesUnique` needs to know where codes are before they are saved: a
request that has read "no code yet" will draw a number above all saved ones
(`Drawn`), one that read a code holds the code of its own dossier and of no
other (`CodeInHand`). `ProgressInv` adds to `ProgressEarned` that a running
validation found a document (`VerifiesSomething`) and that what is deleted was
never validated (`TrashedUnfinished`), without which a late validation could
move a deleted dossier. `Kept` and `Advances` say what any step keeps and
which moves exist; `NoRegression` follows from them.

*Transfers.* That an approval is posted once depends on the row lock: a request
under review is still pending (`ReviewedIsPending`). With it an approved request
points at its own posting (`ApprovedPosted`), a transfer in the ledger belongs to
an approved request (`TransfersApproved`), and no two postings share a key
(`KeysUnique`), whatever keys clients choose for deposits.

The sums of the module are folds over finite sets. What is needed of them (the
value does not depend on the order, one more element adds its number, sets of
numbers that are not negative make no less) is proved by taking a smallest set
for which it fails (`LeastSubset`, from the library's theorem that the strict
subsets of a finite set are well-founded): a sum is then a number `Total(f, S)`
with `TotalWith`, `TotalGrows` and `TotalSame`. `WithinLimit` is the daily limit
for every account and day; a proposal adds its amount to the sum of its own
account and day, which it has compared with the limit, and a decision adds
nothing. An approval sees no more postings than there are (`SeenBefore`);
if none of those it does not see leaves the account, they add to its balance,
and the balance it compared covers the amount (`CoveredPosting`).

*Outbox.* The sendings of an event are at most the lost traces plus one if a job
is about to record its sending or the row says delivered (`Accounted`). That is
kept because a job that sends found the row undelivered (`SendsUndelivered`) and
holds the unique lock from the queue to its end (`JobHoldsLock`), so that no
second one runs beside it.

*Thread.* A page has one load out at most, and only while it is loading
(`LoadsOnce`); so no answer replaces the messages of an open page, which are
only ever appended to, unless they are there. The turn is read under the row
lock (`CustomersTurn` in `PostCustomer`), which is what `TurnsAlternate` rests
on. In the composer a list shorter than all commands is reached by typing only,
and typing selects the first of it (`SelectedListed`).

*Lists.* What the 21 profiles have in common is proved from the profiles once
(`Suits`, `RegionsSuit`, `ClaimsSuit`): which pages append rows, wait with their
pager for the load, or hide the list under it; everything after that is about the
one behaviour. Unless requests overlap, one load is out, without a command beside
it (`OneLoad`), and it asks for what the controls stand at (`ControlsLead`),
because controls change and send in one handler; hence the rows shown are the
controls'. The customer's list has all pages up to its last, and asks for
the next one only (`AppendedRows`). A load sent after a change brings it
(`OwnRead`). A page that claims to be empty hides its list before the first
answer (`HiddenAtFirst`).

*Decision pages and appointments.* A read that is out alone was sent after the last
decision was answered, so what it brings is not older than that decision
(`OneAtATime`), and the server goes on from there only (`ServerReached`).
On the customer's page a request out alone is of the dossier picked, and its
answer stands unless the staff moves the slot (`OneOut`, `ShownStands`).

*Wizard.* A page that found nothing out and had its own requests answered is
alone (`Alone`): what is out was sent from it, and nothing is sent before the
dossier is there, so that no verdict, save or removal changes the server between
the answer to the page's read and the moment it is shown. From then on the card
differs from the server by the answers on their way only, the file stored and
not listed yet and the document removed and still listed (`CardInv`), and the
page of validation 1 by the answer to its own request (`ValidationInv`), because
a check moves documents between verdicts and never files or deletes one.
`LedToAnOpenStep` needs none of this, only that the dossier never goes back
(`NeverBack`) and that neither a stored section nor a copy is ahead of it
(`LedInv`). `WizardSpec` is the wizard's part of `PortalsSpec`.

*Layout.* Each proof module has its invariant with the reason for each part, lemmas on
rows and helpers, one lemma per action or shape of action, the step lemma, then
the theorems, whose temporal steps are PTL alone. Action properties follow from
the invariant.

*Model-checked only.* All liveness (`EveryRequestEnds`, `EventuallySettled`,
`EventuallyDelivered`, `PagesCatchUp`), which with fairness is beyond the prover.
The properties of the runs that expect a violation are false and have no
theorem. The runs `portals` and `chat` combine parts that share nothing and of
which the others are idle; the theorems are about each part, which the proof
modules name `ListingSpec`, `ReviewSpec`, `AppointmentsSpec`, `WizardSpec` and
`ComposerSpec`. No module declares a RECURSIVE operator.

## 5. What was found

Findings, each with a run:

1. A save admitted before the confirmation overwrites a section of a submitted
   dossier (`dossier_frozen`).
2. Two overlapping approvals overdraw an account: the balance is read from a
   snapshot older than the account locks (`transfers_overdrawn`).
3. A worker that dies between the provider's acceptance and the update to
   `DELIVERED` sends a notification twice, which the comment of the job says
   can never happen (`delivery_twice`).

Remarks on the server, without a run of their own:

- Exhausting the verification budget lets a document that an earlier run
  rejected pass: the loop breaks before it is judged again, and only documents
  judged in this run block (`CreditApplicationValidationService.php:159`;
  `ExhaustBudget`). The comment at `:211` promises that a provider failure does
  not do this; a spent budget does.
- A dossier can be locked without any document: deletion stays possible after
  validation 1, and the confirmation checks no document.
- Lock orders differ between transactions; `CyclesAreKnown` and `CyclesAreLocal`
  name the causes. Most log before they are done with locking: a rejection and an
  admin's approval before they lock the day's appointments
  (`docs/audit/BTS_FINAL_FULL_PROJECT_AUDIT.md`, F-021, names a part of this);
  a later save and a single audit event before the audit row shares its
  application, against decisions and uploads; a submission before `branch_id`
  shares its branch, against bookings by hand. A first save raises the lock
  its section's row took on the application, and the one its `INSERT IGNORE` took on
  the counter (the comment at `ApplicationNumberService.php:27` looks at
  the duplicate key only). A plain decision, an upload, a note
  and a message are opened without attempts and can be lost as victims; the
  `catch (\Throwable)` around the routing of a staff approval
  (`CreditApplicationReviewService.php:60`) takes a deadlock for a failed match.
- Staff can fix an appointment from `STAFF_APPROVED` without the admin's
  decision (F-001 there); the approval of an unrouted dossier does not store
  the branch it matched.
- A deposit made under the key `transfer-request-<id>` makes the approval of that
  request a conflict.
- A message can land in a discussion that was closed between the check and the
  insertion (`ReportController.php:60`).
- Names copied into the credit request and the project "must always match the
  client's" (`CreditApplicationService.php:131`); they do when that section is
  saved, and not when the client's section is saved again later.

Remarks on the portals, each a named exception of a property (the sets
`StalePages`, `HastyPagers` and `HastyPages` of `Listings`, and the provisos of the
other modules):

- A new period in the staff's activity shows the first page in no filter while
  pager and filter stay; the timer after an unban loads the search and page it
  was started from (`StalePages`).
- Six pagers go on with the page count of the filter before (`HastyPagers`).
- Seven pages say that there is nothing when a load is under way or failed
  (`HastyPages`).
- The admin's discussion appends its own message without looking whether the
  broadcast has brought it, and is subscribed while it loads, so that the answer
  to the load drops what broadcasts brought. `ShownOnce` and `ShownStays` leave
  it out.
- A staff dialog that is open when a poll changes the status can still be
  confirmed; the server refuses (`OffersArePermitted`).
- The staff's and the customer's composer take text while a message is sent,
  and the answer clears it.
- In the form, a save that ends late takes the customer away from the page he
  has gone to; fields can be edited while a save is out, and what is typed then
  is lost with the page; the dialog that forces validation stays open when the
  request fails. `TransmitsWhatIsShown` and `CardShowsServer` except what requests
  of earlier pages, or unanswered ones, have changed (`strayed`): the page reads
  the dossier once and would show it only when opened again.

## 6. The abstract specification

`LoanLifecycle` knows a stage, a slot and a number of changes per application:
it is prepared, deleted, submitted once, closed, or given a slot; a slot belongs
to one application; the customer changes it at most `MaxReschedules` times and
never to the slot just turned down. The mapping in `LoanWorkflow` reads the
stage off the row and its status, the slot off the latest appointment while it
is active, the changes off its `reschedule_count`. Stale requests, snapshots,
documents and codes map to stuttering.

## 7. Plan

Done, in this order: `CreditApplication`, `Dossier`, `Scheduling`,
`LoanLifecycle` and `LoanWorkflow`, `LockOrder`, `Transfers`; then `ReportThread`
and `Composer`, `Outbox`, `Listings`, `Review`, `AppointmentPage`, `Wizard`; proofs
in parallel.

Worth doing next:

1. `Slots`: `Branch::slotTimes` as a function on hours and capacity, against the
   reference "as many distinct times within the window as the capacity".
2. `AuditChain`: events chained under the head lock, verification, key versions.
3. `Otp`: issue, verify, expiry, attempts, resend.
4. `Dossier`: the rerun of a whole save with an advanced in-memory model.
5. Proofs: the chain of invariants is complete for what the runs check; the next
   theorems come with the modules above. `ImplementsLifecycle` could be carried on
   by an abstract specification of the discussion and of the outbox.

## 8. Not modelled, and why

File storage and malware scanning, the AI, SMS, e-mail and Google clients (I/O;
their answers are choices of the model); the queries behind analytics,
dashboards, activity lists and the security center (reads of tables owned
elsewhere; their pages are in `Listings`); osquery and its terminal; synthetic
data and load testing (tools); health and heartbeats; sign-in forms, profile,
landing page and charts; tests, diagrams and design sources. One-time passwords
are apart from the workflow. The scoring of branch matching and the times of
`slotTimes()` are constants of the models, the hash chain of the audit appears
as its head lock, the permission registry as the roles the workflow tells apart.
Of the modelled pages, layout, wording, document previews, maps, local format
checks and prefilled names are left out; of a discussion, attachments' content,
read marks and the lifting of a ban. The customer's page of one appointment
(`client/app/applications/[id]/appointment/page.tsx`) is left out: it is of one
dossier, so there is nothing to pick while an answer is out, and reads once,
status and appointment by two requests; what it sends is modelled in
`AppointmentPage` and `Scheduling`.

## 9. Running

    tlc -workers 2 -config Portals.cfg MCPortals.tla
    tlapm SchedulingProofs.tla      # or any other module ending in Proofs

`PROJECT.json` gives module and configuration of each run. The longest,
`loan_workflow` and `portals`, take about two minutes each.
