# HRMS API: a verification development

Formal models of the HRMS API, a NestJS service over PostgreSQL (through Prisma)
and Redis that keeps leave requests and balances, attendance, payrolls, users and
sessions. Every HTTP request and every cron job is an async function: between two
awaits any other request can run, in the same process or in another instance of the
service, and most handlers check a row in one database round trip and write it in a
later one. The models therefore have one step per round trip, and the properties are
about what survives the interleavings. Requests may meet in any instance; of the two
nightly jobs each is modelled as running once, as if one instance had the schedule
(section 6).

Paths below are relative to the repository; `modules/` is `src/modules/` and `common/`
is `src/common/`. Line numbers of each definition are in `PROJECT.json` under `map`.

## 1. Inventory

| Component | State it keeps | Operations that write | What is hard |
|---|---|---|---|
| Leave requests (`modules/leaves`) | `leave_requests` | create, decide, delete | checks outside the transaction; two handlers on one request |
| Leave balances (`modules/leave-balances`) | `leave_balances`, unique on (employee, type, year) | initialise, create, bulk create, update, delete | upserts over deleted rows; totals changed under pending requests |
| Payrolls (`modules/payroll/payrolls`) | `payrolls`, `payroll_items`, `tax_calculations` | draft, update, finalize, pay, delete, bulk generation | stale status; unique tax calculation under soft deletion; partial failure of a bulk run |
| Currencies, rates, brackets (`modules/payroll/*`) | three tables read during a calculation | create, upsert per day, delete | rate changed in the middle of a calculation; bounds of brackets |
| Attendance (`modules/attendances`) | `attendances`, no unique key | check in, check out | two rows for a day; nightly jobs against requests |
| QR tokens (`attendances/services/qr-manager`) | nonces in Redis | verify | GET and SET are two calls, a Redis failure reads as "unused" |
| Automation (`modules/automation`) | - (writes `attendances`) | mark absent 18:00, close 23:59 | selected rows written without a second look; a failed query ends the job |
| Sessions (`common/security`, `modules/auth`) | sessions and a per-user index in Redis | create, validate, refresh, invalidate, clean up | read-modify-write, expiry, limit of five |
| Security events (`common/security`) | a bounded buffer in memory | log, flush | the older half is dropped when full |
| Notifications (`modules/notifications`) | `notifications`, a BullMQ queue, FCM token per user | send, register, mark read; worker | row without push; token cleared after it was replaced |
| Users, roles (`modules/iam`) | `users`, `roles`, `user_roles`, pictures on the disk | create, update, delete, upload | uniqueness checked before the write; three steps for a picture |
| Employees, departments, positions (`modules/employees`, `departments`, `employee-positions`) | the tables of that name | create, update, delete | a salary against a range that changes; rows kept by what was deleted |
| Company settings (`modules/settings`) | one row | created by the first read, update | the currency it needs may be deleted |
| Shifts, public holidays | flat tables | CRUD | - |
| Reports, dashboard (`modules/reports`, `dashboard`) | - | none | the same figure computed in several places; several round trips |
| Audit logs | - | none | read only |
| Prisma extension (`common/services/prisma`) | - | - | reads hide deleted rows, writes do not; `delete` marks or removes |

They interact through the database more than through calls: leaves write balances;
the absence job reads leaves and writes attendance; bulk generation reads attendance
and leaves and writes payrolls; leaves, payrolls and the jobs call the notification
service, which catches its own errors. What would make each correct:

* leaves and balances: `pendingDays` and `usedDays` are what the requests add up to, an
  approved request is always paid for, nobody books more than is left or twice the
  same day, a decision is final;
* payrolls: row, items and tax snapshot agree; PENDING, PROCESSED, PAID is followed in
  that order; one payroll per employee and period; a finalized payroll never changes;
* attendance: one row per employee and day; everyone is accounted for after 18:00; a
  check-in is not lost; hours add up; a token is used once;
* bulk generation: what the run reports is what it stored; one income is taxed by one table
  at one rate; it ends;
* sessions: an ended session stays ended, at most five, every session is in the index that
  "log out everywhere" goes by, and can be used;
* notifications: every job ends, after a bounded number of pushes; a fresh token is not lost;
* organisation: names are unique among what is not deleted, salaries lie in the range of the
  position, a picture that is shown exists;
* reports: places that tell the same figure agree, and none loses a row that moves while it counts.

The hazards, each at its line and with the properties that cover it, are in
`PROJECT.json`.

## 2. Modules and runs

A module of this project models a component with the round trips of its handlers as
steps. Process variables are called `handler`; a handler is `idle` or holds what it has
read and will act on. Handlers that fail a check go back to `idle`. Definitions marked
*Faulty variant* are not used by the specifications: they stand for bugs that the
properties have been shown to catch (`mutants` in `PROJECT.json`). Variables marked
*history* exist for the properties only; no guard reads them but those that bound them.

Three components have an abstract specification beside them, in which each operation is one
step on the tables and what the code does not prevent is said in so many words: `LeaveDesk`,
`PayrollLife` and `PushDelivery`. The detailed module states that it implements the abstract
one (`DeskIsKept`, `LifeIsKept`, `DeliveryIsKept`), TLC checks that and TLAPS proves it, but for
the liveness of the last.

A module `...Proofs` holds the theorems of a component, and `SumTheorems` what several of them
need about sums over finite sets.

A module `...Reports` EXTENDS a component with the queries over its tables: one operator per
query, and a property that relates them. Paging, sorting and the layout of exports are left
out: an operator is what all pages of a list hold together.

### Leaves (`LeaveDesk`, `Leaves`, `LeaveReports`, `MCLeaves`, `LeavesProofs`)

`requests` and `balances` are the tables, the latter indexed by its unique key, so that a
deleted row keeps the key, as in the schema. `CheckOverlap`, `ReadBalance`,
`CommitBooking` are the three stages of `LeavesService.createAsync`: the overlap query,
the read of the balance in a READ COMMITTED transaction, and its writes. `ReadForDecision`,
`CommitDecision` are `updateStatusAsync`, `ReadForDeletion`, `CommitDeletion` are
`deleteAsync`; the writes of their transactions depend on nothing read inside, so each is
one step. The operations of `LeaveBalancesService` are blind writes and one step each. Days
are integers; the one way in which the time of day matters is `Booked`, which is a day
more than `Released` when the end has the later time of day (`PartDays`).

History variables say when guarantees end that the code does not give: `contentions`
counts how often a handler takes up a request that another one holds, `crowded` says
that during a `createAsync` another one of the same employee, or HR, wrote.

| Run | Shows |
|---|---|
| `leaves` | `DeskIsKept`, `ApprovedAreCharged` under all interleavings; `LedgerIsExact` and `RequestsExplainBalances` while no request is handled twice at once; `NoOverlap` and `NeverOverbooks` while creations do not overlap |
| `leaves_decided_twice` | violated: "Only PENDING requests can be processed." Two decisions both pass the check |
| `leaves_part_day` | violated: "Return from Pending (free up)" with a single handler, for an end with a later time of day |

`LeaveDesk` is what the tables go through if each operation is one step: a leave is booked where
no other is in its way and enough days are left, it is decided or deleted while it is PENDING,
and each of these moves its days on the one balance they are on. It says what is lost, too: once
`contended` a decision may come late, once `crowded` a booking may find no room; but even then the
days that move are those of the leave, and HR never touches what is used or pending. The tables
are the same in both modules, `contended` is `contentions > 0`. So `DeskIsKept` says that nothing
between the reads and the writes of the handlers can be seen in the tables.

`LeaveReports` has the lists of both services, the personal views and the leave reports.
`RequestsExplainBalances` says that the days these count, in code of their own, are the days
the balances show as used and pending. What differs by design of the code: `total_requests`
honours the status of a query, the other counts beside it do not; and the average of the leave
report still holds leaves whose balance row was deleted.

Bounds: one employee, two days of one year, an annual and an unpaid type, two requests, two
handlers, allocations of one day, at most one contention. Two requests and two handlers are
what every hazard listed needs; one employee is enough because no operation relates the
rows of two. One contention lets a request be decided twice, with every outcome of the
second decision. The year of a request and the totals are parameters, so a second year
adds only keys that behave alike.

### Payrolls (`PayrollLife`, `Payrolls`, `PayrollReports`, `MCPayrolls`, `PayrollsProofs`)

`payrolls`, `items` (the items of a payroll added up) and `taxCalc` are the tables.
`CheckPeriod`/`CommitDraft` are `createDraftAsync`, which `generateBulkAsync` calls for
each employee; `ReadForUpdate`/`CommitUpdate`, `ReadForFinalize`/`CommitFinalize`,
`ReadForPayment`/`CommitPayment` and `ReadForDeletion`/`CommitDeletion` the others. What a
calculation arrives at is any sheet over the constants; `TaxTables` are the states of
brackets and rates it may meet. `TaxCalcUpdates` is what a transaction can leave of the tax
calculation: none when it fails, which rolls the update back. Amounts are exact; the code
rounds to cents when a row is stored, row and items each on its own.

| Run | Shows |
|---|---|
| `payrolls` | `LifeIsKept`: `Payrolls` implements `PayrollLife`; `ItemsMatchRow`, `ReportMissesNone`, `SummariesAgree` under all interleavings; `TaxCalcMatchesItems` and `FinalizedIsFrozen` while no payroll is handled twice at once; `OnePayrollPerPeriod` unless two drafts of an employee overlap or an update changes the period |
| `payrolls_payslip` | violated: "Tax from items": the deductions of a payslip leave the tax out, because the tax item bears the name of its bracket |

`PayrollLife` is the life of a payroll, each operation one step: it is drafted in a free period, edited
while PENDING, finalized and paid, or deleted before; its lines add up. Once `contended`, an edit, a
finalization or a deletion may come late and an edit may leave another tax on file; once
`doubled`, a period may have two payrolls. It never allows a payroll to be PENDING again, a payment
of what was not processed, a deleted payroll to come back, or one that changes its employee. Row,
items and tax calculation of `Payrolls` map to `stage`, `payslip` and `filed`.

`PayrollReports` has the lists, `getSummaryAsync`, the payslips and the payroll reports.
`getComprehensiveReportData` counts PENDING and PROCESSED in two round trips, so it is a process
of its own, `ReportSpec`, that the handlers interleave with: because it counts in that order, a
payroll on its way up is counted once at least. (One that is moved out of the month for the
first count and back for the second is in neither.) A period is a month and all of them a year.

Bounds: one employee, two periods, two payrolls, two handlers, two amounts, a table that takes
1 from the larger income and nothing from the smaller one, one contention. `CHECK_DEADLOCK FALSE`, because the two
ids are used up and a payroll that is paid or deleted is at its end.

### Attendance (`Attendance`, `AttendanceReports`, `MCAttendance`, `AttendanceProofs`)

`rows` are the attendance rows of one date: every lookup is by date and every write by id,
so that dates do not meet. `ReadNonce`, `SetNonce` are `QrManagerService.verifyToken`, two
Redis calls that may each fail silently (`RedisFaults`); `FindForCheckIn`/`CommitCheckIn` and
`FindForCheckOut`/`CommitCheckOut` are the handlers; the two cron jobs take one step per
query. `clock` starts them, once each, and ends the lookups of the date, while a handler or a job
that is under way goes on. `Approve` is the one thing the absence job sees of the leaves.
`Employees` are those who are employed on the day: nothing clears `isActive`, by which the job
finds them, and a deletion during the day is not modelled.

| Run | Shows |
|---|---|
| `attendance` | `EveryoneAccountedFor` under all interleavings; `HoursAddUp` of every check-out; `OneRowPerDay` and `ReportsAgree` until two of them are at the same employee at once (`raced`); `TokenServesOnce` until two scans overlap or Redis fails |
| `attendance_out_first` | violated: "Please check in first.": who was marked absent can check out |

`AttendanceReports` has the roll call, the reports, the dashboard and the personal history for
the date. All of them count rows and approved leaves of everybody, but they expect different
people, by the `status` of an employee, which HR can set to anything at any time:

| Who is expected | By |
|---|---|
| ACTIVE, PROBATION, ON_LEAVE (`OnRoll`, `Expected`) | the roll call, which is what the list is for up to 30 days (`rangeDaysCount` is then 31 at most), and the attendance report |
| ACTIVE (`Active`) | the list over more days |
| `isActive`, which nothing clears: everybody, INACTIVE and TERMINATED included | the dashboard and the absence job |

So `ReportsAgree` is about every assignment of statuses (`statusOf`), and about two roll calls: `f`, of
those on the roll, which the list shows, and `g`, of the others, which nobody is shown. It says that
each report is what the two add up to, and how they differ on who is missing. Whoever is off the
roll and came, or is on leave, makes up for somebody who is missing, in the report and in the long
list, and so do those whom the latter does not expect although they are on the roll; a row that the
night job closed as DID_NOT_CHECKOUT is absent for both and in no figure of the roll call;
`rangeDaysCount` is a day too many, so that both expect everybody once more; the dashboard expects
those off the roll too, and takes the leave of someone who came all the same off the absent.

Bounds: one employee, in each of the five statuses, two rows, two requests in flight, one token
scanned at most twice, a day of three hours of which one is work, so that overtime and a check-out
past midnight both occur. What several employees of different statuses add up to is the theorem
(`DayIsToldTheSame`). An employee has one approved leave over the day at most: the two that
creations which overlap in time may leave behind (`crowded` in `Leaves`) would count twice on the
dashboard, and are left out here. `CHECK_DEADLOCK FALSE`: the day ends and the row ids are used up.

### Generation (`Generation`, `MCGeneration`, `GenerationProofs`)

`generateBulkAsync` for the payrolls of one period, with the calculation that `Payrolls`
leaves open. `run` holds what each call has read and counted: `Start` selects, `Take` skips
an employee who has a payroll, `CheckDraft` is `createDraftAsync` up to the brackets,
`ReadDirect`, `ReadInverse` and `RateUnread` are the queries of `getLatestRateAsync` for one
bracket, `Store` the transaction, `ReadBack` the query after it, and `Fail` the failure of
any of them. Between the steps, `SaveRate`, `CreateBracket` and `DeleteBracket` edit the
tables. Rates are fractions, amounts hundredths; the currencies are the payroll's and one
other. `quoted` and `odd` of a payroll are history.

| Run | Shows |
|---|---|
| `generation` | `ReportIsStored` and `RerunIsSafe` with every query failing at any time; `TaxedAtOneRate` and `MoreGrossMoreNet` unless a rate is saved or unreadable during the calculation, the latter where the table is `Progressive`; `RunsEnd` |
| `generation_unpaid` | violated: "Calculate unpaid leave deduction": the query names a type that no request has |

Bounds: two employees, whose incomes of 99 and 100 lie on the two sides of a bracket's bound
at the rate 1 and on the same side at 2 and 1/2; a progressive table of two brackets in the
other currency and a flat fee for everybody; two runs, of which both want the second
employee; one edit, which is enough to change a table or a rate once anywhere. The run begins
with a rate and no fee, or with the fee and no rate. From the first opening one edit replaces the
rate, takes a bracket away or makes the table whole; from the second it takes the fee away, or
saves a rate that the fee does not need, or adds a bracket that no rate converts and that is passed
over.
`CHECK_DEADLOCK FALSE`: a run is called once.

`Progressive` is what a table must be for `MoreGrossMoreNet` to hold: ranges without gaps in one
currency, and no step at a bound by which the tax rises more than the income. The table of the run
is (`TableIsProgressive` in `MCGeneration`). The one that the seed writes is not: with the code's
`income * rate - fixedAmount`, the amounts 0, 0, 75, 775 of `src/prisma/seed/payroll-seed.ts:31-36`
make the tax jump by 75 at 1500 and at 3000 and by 300 at 10000 (0, 75, 225, 1225 would not), so
that in the neighbourhood of a bound a raise leaves less. It is called an example there, and no
document says more.

What the code does not promise is visible here too: an employee who counts as failed may
have a payroll (reading it back failed), and a rate that cannot be read is treated like one
that does not exist, which stores a payroll with less tax and reports it as generated. No
comment or message says otherwise, so these are hazards and not findings.

### Sessions (`Sessions`, `MCSessions`, `SessionsProofs`)

`keys` and `index` are what Redis holds, by expiry; `memory` is the store that `SessionService`
uses while the client has noticed that Redis is gone; `csrf` the tokens of `CsrfService`. Every
Redis command is a step. `CreateSession`, `AddToIndex`, `SetIndexExpiry` and `Issue` are a
sign-in, which goes through `List`, `Fetch`, `Prune` and `Drop`, `Delete`, `Unlist` for the
sessions above the limit; a logout and a logout from all go through the same steps for theirs.
`Validate` and `Touch` are `validateSession`, `Renew` and `Extend` the refresh after it. `Tick`
lets keys expire, `Break`, `Notice`, `Reconnect` are a connection that fails before the client
sees it, and `Restart` loses memory, tokens and requests in flight but not Redis. A handler
starts where credentials, roles and JWTs have been accepted, or breaks off.

The guarantees end where the code gives none, and history says so: `strayed` are sessions that
a handler touched in an outage or wrote back after they had been deleted, `unlisted` those that
were alive when the index expired (it is not extended with a session) or when a logout from all
deleted it after a sign-in had added them.

| Run | Shows |
|---|---|
| `sessions` | `EndedStaysEnded`, through later outages and restarts; `IndexCovers`; `AtMostMaxSessions` however sign-ins overlap; `LiveSessionHasToken` until a restart |

Bounds: one user with a limit of one session, two sessions, two handlers, a time to live of two
units on a clock of three, one fault. Users do not share keys. Two sessions exceed the limit, the
clock lets the first expire with the second alive, and a handler beside another one gives every
interleaving of two operations. States in which all sessions have strayed are not continued
(`SomethingToSee`): no property speaks of a session that has, and none leaves the set.
`CHECK_DEADLOCK FALSE`: the ids are used up and the clock ends.

### Notifications (`PushDelivery`, `Notifications`, `MCNotifications`, `NotificationsProofs`)

`PushDelivery` is the abstract specification: a notification is stored, queued, pushed a bounded
number of times and settled, in that order, and whatever is queued is settled in the end.
`Notifications` is what there is: `CreateNotification` and `AddJob` (which may fail) are
`sendNotification`, `TakeJob` to `ClearToken` the worker, call by call. A queue without attempts
and with the default settings runs a job once, and once more when its worker disappeared
(`RecoverStalled`, `MaxStalled`). `Phase` maps the row and the job to a phase.

| Run | Shows |
|---|---|
| `notifications` | `DeliveryIsKept`: `Notifications` implements `PushDelivery`, its liveness included; `LatestTokenKept` unless the token was registered during a push to an older one |

Bounds: one user, two devices, two notifications, two crashes, one stalled run. Two tokens make
a registration during a push, two notifications one worker with a job waiting, and two crashes
use up the run that may disappear. `CHECK_DEADLOCK FALSE`: ids, tokens and crashes are used up.

### Organisation (`Organisation`, `OrganisationReports`, `MCOrganisation`, `OrganisationProofs`)

Users, roles, positions, departments, employees, currencies, the settings row and the pictures on
the disk. The reads that a handler makes before its first write are one step, each write is one:
`CreateUser`, `AddRole`, `CheckUser`, `AddUser` are `UsersService.createAsync`, which creates a
role before it looks whether the user exists; `UploadImage`, `SaveFile`, `SetImage`, `DeleteFile`
are an upload. A row's id is its place in the table, and it is marked deleted and stays. `contended`
are names that two handlers both found free (or that are written without a look, as a department's
by an update), `raced` employees whom two updates held, `reranged` positions whose range was
changed, `pointed` pictures that a user put in the own profile. An update of an employee holds the salary
against the position, and writes the department that it is given without looking at it, so that an
employee can be moved to any department, a deleted one included. `OrganisationReports` has the
employee reports, headcounts and summaries.

| Run | Shows |
|---|---|
| `organisation` | `NamesUnique` outside `contended`, although only a currency's code has a key; `SalaryInRange` outside `raced` and `reranged`; `ImageOnDisk`; `HeadcountsAgree` |

Bounds: two handlers, three requests, so that two can meet over what a third has left; two logins,
three role names of which two differ by case, two titles, two names of departments, one currency
code, salaries in and out of two ranges. There is one department at first; three requests are enough
to create another one, move the employee and delete either. `CHECK_DEADLOCK FALSE`: the requests
end.

What the code does not promise: a role that was renamed to lower case can be assigned to nobody;
while two live roles have one name no update can assign it; a company without settings whose default currency
was deleted cannot create them, because the deleted row keeps the code and is not seen; whoever is
in a deleted department counts as "Unknown" in a report and nowhere on the dashboard.

## 3. Fairness

`Generation` and `Notifications` have liveness properties. `RunsEnd` assumes weak fairness of the steps of each run:
Node resumes a function when the awaited promise settles, and the database client settles
every promise, with an error if need be (`Fail` is such a step). Edits, requests and jobs have
no fairness: nothing says that they happen. `DeliveryIsKept` assumes weak fairness of the worker
(`Work`), which is started with the process and takes the next job when one is done, and of
`RecoverStalled`, the check that BullMQ repeats on a timer. Crashes are finitely many, or no
worker would ever finish. The safety properties use none.

## 4. What is proved

TLAPS checks these for every value of the constants, under the named assumptions of the modules
(`LeavesAssumption`, `LeaveReportsAssumption` and so on), which TLC evaluates on every run. Most of
what they say is the type of a constant and that `None` is not a value. Beyond that:

* a working day is no longer than a day, and a limit of sessions is at least one;
* what a table or Redis ever holds is finite, and so is what is counted or added up: `Requests`,
  `Sessions`, `Approved` and `Brackets`; for the reports also the employees, leave types, years,
  periods, payrolls and rows. There is no bound on how many there are, nor on the number of
  handlers or keys;
* there is a login, a role name and a title, because the seed creates a row of each;
* a role name in upper case is its own upper case.

Three theorems have a hypothesis of their own. `BalancesAddUp` and `ReportsExplainBalances` are about
requests that are sent as dates, `PartDays = {0}`: the run `leaves_part_day` shows what goes wrong
without. `HeadcountsComeToTheSame` is for companies without a department called "Unknown", which is
what the summary calls the ones that were deleted.

All proofs have one form: an invariant that is inductive implies the property, each action
preserves it in a lemma of its own, and the theorem combines the two. Below is what the
invariants add to the property, which is the reason why the property holds.

**Leaves.** `TypeCorrect` and `ApprovalCharges` (every stored request has a balance row, and an
approved one is charged) rest on `IInv`: a handler that decides holds the leave that is stored
(`HandlersKnow`), or a decision could change the wrong row or none. `Ledger` strengthens it: while
no request was handled twice at once, whoever holds a request holds it alone and finds it
pending (`HoldsAlone`), and the days of a balance row are those of its requests (`SumsAt`), which
are counted as pairs of a request and a day, so that adding a request or changing its status
changes them by its days alone. From it follow

* `ApprovedDaysAreUsed` (`ApprovedAreCharged`), however decisions and deletions interleave;
* `BalancesAddUp` (`LedgerIsExact`);
* `PendingCovers`: with any times of day, what is pending covers the requests still to decide;
* `ReportsExplainBalances` (`RequestsExplainBalances`): a list of requests adds up one number each,
  the ledger counts pairs, and the two agree by induction over the list (`DaysAddUp`).
  `HiddenIsPending` says that what was deleted was still to decide, so that the leave reports
  lose nothing that is used.

`Creation` adds what a creation in flight may rely on unless `crowded`: it is the only one of its
employee (`LoneCreator`), what the overlap query did not find has not come since
(`CheckedFree`), and the balance it read can only have grown (`BookingFits`). `NothingOverlaps`
(`NoOverlap`) and `BookingsFit` (the action property `NeverOverbooks`) follow.

`DeskIsServed` is the refinement: `Spec => DeskIsKept`, with no hypothesis on `PartDays`. `Serving` adds
that who books without a row books unpaid leave, and that the row which was found is live
unless `crowded`. A commit then is a `Book`, `Decide` or `Delete` of `LeaveDesk`, what HR does an
`Administer`, and a check or a claim no more than a `Crowd` or a `Contend`.

**Payrolls.** `TypeCorrect`, `ItemsAddUp` (`ItemsMatchRow`), `PaymentFollowsProcessing`
(`PaidWasProcessed`) and `StaysFinalized` (`NeverReopened`) hold under all interleavings: the
payroll a handler holds exists, one that is being paid has been processed, and `processed_at` is
never taken back. `PeriodsAreUnique` (`OnePayrollPerPeriod`): while `doubled` is false at most one
draft of an employee is in flight and its period is free, so that its commit finds it free.
`TaxStaysOnFile` (`TaxCalcMatchesItems`) and `FinalizedStays` (the action property
`FinalizedIsFrozen`) need `Uncontended`: while no payroll is handled twice at once, what a handler
has read of it is still so (`ReadIsTrue`), whether it has a tax calculation included, on
which `updateAsync` bases what it writes.

`LivesAreKept` is the refinement, `Spec => LifeIsKept`. Its invariant `LifeInv` joins the two above
(`PeriodsInv` for a draft, `Uncontended` for the rest) and adds that what is being paid is not
PENDING (`PaymentsWait`), whoever else holds it. A commit is then the operation of that name in
`PayrollLife`, and every other step at most sets `contended` or `doubled`.

Two theorems are about `ReportSpec`, the handlers with the report beside them. `NoneIsMissed`
(`ReportMissesNone`): what the first query did not count exists and has left PENDING, to which it
cannot return before the second one (`LeftPending`). `SummariesComeToTheSame` (`SummariesAgree`):
the summary adds up rows, the payslips add up an employee each, the trend a period each;
whichever way the set of payrolls is cut, the parts come to the whole (lemma `SumOfParts`), and row
and items agree by `ItemsMatchRow`.

**Generation.** `TypeCorrect`; `ReportsHold` (`ReportIsStored`): what each run has stored, what it
counts, whom it has in hand and what it has still to do do not overlap, and the payrolls it has
stored are those of whom it counted or has in hand (`Reckoned`), whichever query fails.
`RerunsAreSafe` (`RerunIsSafe`): an employee whom a run is drafting for has no payroll but of a run
that was at work beside it (`Together`). `TaxedOnce` (`TaxedAtOneRate`): the lines a calculation has
so far are the ones of the brackets it has gone through, at the rate quoted, if no rate was saved
or unreadable (`OneRate`).

`NetGrowsWithGross` (`MoreGrossMoreNet`) follows from `OneRate` for any `Progressive` table, any two
incomes and any rates. The lines of a payroll split into fees, which do not depend on the income
(`FeesSame`), and the line of one range at most: an income falls into no two ranges (`OneRange`) and
between none, which is found by going up from the range that begins at 0 (`SomeRange`). Within a
range the tax rises by no more than the income (`DueRises`), from the end of a range to the
beginning of a higher one neither, which is what `Progressive` says (`DueCrosses`), and rounding a
quotient down keeps the order (`QuotientRises`).

**Sessions.** Five layers. `Typed`: `TypeCorrect`, and that whoever
works on a session works on one that was created. `Ends`: what a handler knows about the
sessions it has dealt with stays so; whatever is in memory has strayed; a session that was ended
is dead in Redis. From it `LogoutIsFinal` (`EndedStaysEnded`). `Covered`: what was added and lives is
in its index, whence `IndexIsComplete` (`IndexCovers`). `Tokens`: an issued session that lives has
a CSRF token, or a handler is about to drop it, whence `TokensLast` (`LiveSessionHasToken`).
`Limited` is the one that takes an argument: for each sign-in past its listing, the set of
sessions it has read, and for each user what the last answered one that counts had read. Of two
sign-ins one has seen the other's session or all that the other has, so that what is alive and
answered is always within what one of them has seen, and has dropped down to the limit:
`LimitHolds` (`AtMostMaxSessions`). The sets are not in the model, so the invariant says that
they exist.

**Attendance.** `TypeCorrect` and `NobodyIsMissed` (`EveryoneAccountedFor`) share an invariant: rows
that handlers hold exist (`HandlersKnow`), so that writing them never changes whose they are, and
the absence job leaves nobody unaccounted for behind it (`MarkedSoFar`). `RowIsUnique`
(`OneRowPerDay`) adds that without a race what a lookup did not find is still not there and
nobody else is about to create it (`LookupsHold`), `TokenIsSpent` (`TokenServesOnce`) that a token
that is being scanned is not in Redis, and is being scanned once (`ScansHold`).
`CheckOutsAddUp` (the action property `HoursAddUp`) adds that without a race a handler that will
write a row is alone at its employee, so that the check-in it has read is the one in the row
(`Alone`); the rest is arithmetic modulo the length of a day. `DayIsToldTheSame` (`ReportsAgree`) needs
no more than `OneRowPerDay`: with one row each, counting rows is counting employees
(`CameCount`), and the hours of all rows are those of everybody's own row. That is shown of the roll
call of everybody (`ListIsWhole`), which the reports are told from (`Told`); whatever the statuses, it is the
roll call of those on the roll joined with that of the others (`JoinedList`), of which every figure
is the sum of the two (`TwoRolls`).

**Notifications.** `TypeCorrect`, `LatestTokenIsKept` (`LatestTokenKept`), `DeliveryIsSafe`. The
invariant says that a job has a row and an active one's worker is at it (`Consistent`), that
the worker holds the latest token of its user or the user is among `raced` (`TokenInHand`), and
that the pushes of a job are no more than the runs that disappeared, plus one for a run that
has pushed (`PushesCounted`). The last is what the refinement needs: with it every step of
`Next` maps to a step of `PushDelivery` or to a stutter, for any `MaxStalled`.

**Organisation.** `TypeCorrect` needs that tables only grow and that what a handler or a row refers
to is in them (`Typed`). `PicturesAreThere` (`ImageOnDisk`): a picture that nobody put in a profile
is in one row at most, and the one a handler will delete in no row but its own user's; once it is
about to delete it, in none (`Pictures`). `SalariesFit` (`SalaryInRange`): what an update will leave an employee
with fits the range, and it is the only one at that employee (`Paid`). `NamesAreUnique`
(`NamesUnique`): a name outside `contended` has at most one row and one handler that is going
to write it, and then no row but the handler's own (`Unique`). `HeadcountsComeToTheSame`
(`HeadcountsAgree`) needs that a user has one employee at most (`OneEmployee`). The schema demands it by
a unique key (`employees.user_id`), which the model need not assume: the transaction that adds an
employee adds the user, and an update does not write it. The department of an employee can be any,
and change at any time.

**Sums.** The induction theorems of the library take an operator as a parameter, which the
installed provers cannot instantiate. `SumTheorems` has induction over a set instead: a set of
naturals with 0 and all successors holds them all, or the successor would map the ones below a
missing one into fewer, against the pigeonhole principle (`AllNaturals`). From it follow induction
over the subsets of a finite set (`AllSubsets`) and what the reports need: that a sum exists and is
unique (`SumIs`), what one element adds to it (`SumStep`), sums of equal functions and of two added
up (`SumSame`, `SumPlus`), bounds, counts, and the sum over the parts of a set (`SumOfParts`).

Only model-checked:

* Liveness: `RunsEnd` and the fairness of `DeliveryIsKept`. The prover does neither ENABLED nor
  fairness. `DeliveryIsSafe` is the safety half of the latter.
* The five properties that the code violates: there TLC's counterexample is the result.

## 5. Findings

Five places where the code does not do what its own message or comment says, each with a
run that shows it and quoted in `PROJECT.json`: a request can be decided twice; a part of
a day is booked and never released; the deductions of a payslip leave the tax out; an
employee can check out without having checked in; and unpaid leave is never deducted.

## 6. Not modelled

* Drawing the payslip as PDF, the layout of exports, DTO mapping, paging and sorting: no state.
* Recent activity and the audit log: lists over a table that the audit extension of the client
  writes beside everything else.
* Forgotten, reset and changed passwords, and the routes without sessions: they write one field
  of a user, or are called by no controller. Credentials, JWTs, roles and guards decide whether a
  handler starts, which the models leave open. `cleanup` of the sessions is never called.
* The security event buffer: its count of failed logins lets a sign-in start or not.
* Shifts and public holidays: flat tables without interplay.
* Mail: one call whose outcome nothing records.
* The reply to the client: that `createAsync` of a leave reports failure when only the
  notification failed is listed as a hazard without a property.
* Several runs of a nightly job: every instance of the service that runs has its own schedule and
  nothing keeps two from doing the same night; the models have one run of each, as with one
  instance. Two absence jobs at one employee at once would double a row as a check-in beside one does.
* A deletion of an employee, and two approved leaves over one day, in the reports of attendance.
* Time zones: days are calendar days of one zone, although some handlers take the local date and
  others UTC.

## 7. Plan

Every safety property of a passing run is proved. What could be added:

1. An abstract specification of the sessions, in which a sign-in, a logout and a logout from all
   are one step each, with `strayed` and `unlisted` as what may be lost; the layers of
   `SessionsProofs` are what its refinement needs.
2. Two first rates saved for one day, which the upsert by day makes one row of.
3. The buffer of security events beside the sign-ins whose failures it counts.
