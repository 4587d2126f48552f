# EmpCloud, modelled in TLA+

EmpCloud is a multi-tenant HR platform: an Express server (`src/packages/server`)
over MySQL through knex, a React client, and a billing service beside it that is
reached by HTTP and calls back by webhooks. The server keeps no state of its own
between requests: everything the business rules are about is a row of a table,
and every rule is kept by an async handler that reads some rows, decides, and
writes some others. Several handlers run at once, in one Node process and in
replicas of it, and another handler may run at every `await`.

So the hard part of this program is not any one handler but what two of them do
to the same rows, what is left behind when one stops half-way, and what a long
sequence of legal calls adds up to. Tests call one handler at a time; these
models let TLC interleave them statement by statement, and TLAPS proves for any
number of requests what the locks and the arithmetic guarantee.

## Contents

| Module | What it is |
| --- | --- |
| `SeatLedger` | one module subscription: its status, plan size, cached counter and seat rows |
| `Positions` | one budgeted position: its row, its lock, its assignments |
| `LeaveLedger` | one employee's applications for one leave type, the balance row, the attendance they write |
| `SubscriptionLifecycle` | the dates, status and dunning stage of the subscription rows: requests, sweeps, notices, restarts |
| `Roster` | what the shift schedule promises: one shift or none per day, and changes that show exactly where they were asked for |
| `ShiftTimeline` | the shift assignment rows and the routines that reconcile, split and swap them; implements `Roster` |
| `AttendanceDay` | one employee's attendance records: punches, regularizations, grid marks |
| `Conversation` | one chat group: its messages, its last message, its members and their markers |
| `Membership` | the accounts of one organization, its invitations and its member counter |
| `MC...` | symmetry and small inputs for TLC |
| `...Proofs` | theorems about a module, checked by TLAPS |
| `*.cfg` | one TLC run each, named after the run (a few belong to no run, see below) |
| `PROJECT.json` | components, runs, mutants, the map from definitions to source lines, findings, hazards, theorems |

## The system

State is tables; "services" are the files under `src/packages/server/src/services`.

| Component | State | Operations | What is hard | What makes it correct | Here |
| --- | --- | --- | --- | --- | --- |
| Subscription seats (`subscription`, `module/module-sync`, `billing/webhook-handler`) | `org_subscriptions` row, `org_module_seats` rows, the cached `used_seats` | assign, enable, disable and revoke a seat, seat webhooks of the HR modules, face enrolment, payroll sync, count repair, create, update, cancel, billing webhooks, super-admin edits, deletion of an employee | no transaction or lock anywhere; a capacity check and an insert are two statements; a cached counter beside the rows it counts, which a cascade deletes | plan covers seats; counter equals rows, or comes back to it; no seat vanishes | modelled |
| Subscription lifecycle (`subscription`, `billing`) | status, trial end, period end, dunning stage | hourly trial expiry, overdue enforcement, dunning, webhooks in and out | a sweep acts on rows it selected earlier; webhooks reordered, repeated or lost; restarts in the middle | trials end; a cancelled row stays cancelled; nothing overdue stays in service | partly: no prices, invoices, free flag |
| Position assignments (`position`) | `positions` row with headcount, `position_assignments` | create, assign, remove, update, delete, deletion of an employee | two of four routines lock the row, two do not; a read before the lock is used after it; a cascade that counts nothing | nobody assigned twice; budget kept; headcount and status tell the truth | modelled |
| Leave (`leave`, part of `attendance`) | `leave_applications`, `leave_balances`, `attendance_records` | apply, edit, cancel, approve, reject, override a day in the attendance grid, lazy rollover of the accrual period | status checked outside the transaction that changes it; absolute totals written from stale reads; splits with rounding; rows told apart by status only | days used are days approved; balance never negative; leaves disjoint; punches kept | partly: HR's corrections of the balance row are not |
| Attendance punches, regularization (`attendance`) | `attendance_records`, `attendance_punches`, `attendance_regularizations` | punch, request, approve, reject, withdraw, mark and reset a day | record lookup across midnight; punches and approvals overwrite each other's times | a punch lands on its day; a record does not end before it starts; an approval shows | modelled, without minutes |
| Shifts (`attendance/shift`) | assignments as date intervals, swap requests | assign, bulk assign, update part of an interval, delete, swap, edit from the profile | overlapping intervals are trimmed and split in several statements | one shift per employee and date; a change shows exactly where it was asked for | modelled |
| Accounts and invitations (`user`, `import`, `auth`, `admin/data-sanity`) | `users`, `invitations`, `current_user_count` | create, import, delete, invite in four ways, resend, cancel, accept, recount | a counter beside the rows it counts; acceptance races cancellation; cancelling an invitation deletes an account | the counter does not run ahead; one open invitation; no accepted account deleted | modelled |
| Chat (`chat`) | `chat_messages`, `conversations.last_message_id`, participants with markers | send, forward, delete, notices, mark read and delivered, add, remove, leave, delete the group | ids are taken before they are visible; markers are ids the client names; one lock, of a foreign key | a new message is unread; ticks stand; the last message is there | partly: one group |
| Comp-off, headcount plans, shift definitions, assets, helpdesk | status rows, some with history | request or edit, approve, reject; assign and return | a check, then an unconditional write | status follows the history | not modelled |
| Data sanity, health, analytics, audit | none of its own | reports and one-shot fixes | - | its reports state invariants | as a source of properties; the recounts are modelled |
| Authentication, permissions, OAuth and OIDC, API keys, access policies | users, sessions, tokens | checks per request | - | callers are taken as authorised in every model | not modelled |
| Organizations, onboarding, catalogue, pricing, leave types and policies, profiles, documents, surveys, forum, wellness, events, nominations, announcements, policies, settings | content and configuration rows | create, read, update, delete | - | each operation is one statement, or a few independent ones | not modelled |
| Chatbots, legacy biometric ports, billing proxy, web client | none | queries, HTTP pass-through, user interface | - | - | not modelled |

How they interact. The HR modules and billing call in by webhook and change seats
and statuses; deleting a face and the module webhooks revoke seats by the statements of
the API's routines; deactivating an employee and cancelling an invitation delete the
`users` row, and the foreign keys take seats, assignments, leave, attendance and shift
rows along without any of those routines (below); approving and cancelling leave writes attendance,
and the attendance grid reverses leave; the count repair (`syncUsedSeats`) runs
inside module access checks and listings, so reads write. Calls between services
are plain awaits, there is no queue; emails and outgoing webhooks are sent after
the writes and their failure is swallowed, so they never feed back: except
that billing never sends notices about a subscription it was not told of,
which `SubscriptionLifecycle` has (`mapped`, `telling`).

`SeatLedger` and `SubscriptionLifecycle` are about the same row, each with
the columns its properties need: to the first, dates are the freedom of `RowWrites` to
change the status at any time; to the second, seats do not exist.
`AttendanceDay` and `LeaveLedger` share `attendance_records` in the same way:
what leave writes there is `LeaveLedger`'s, punches and times are `AttendanceDay`'s.

*The deletion of an employee* (`deactivateUser` through `purgeUserHard`, and
`cancelInvitation`) touches these components only through ON DELETE CASCADE. Where a cascade leaves a counter
that counts the rows which went, it is an action: `DeleteUser` of `SeatLedger`
(`used_seats` stays too high until the next `syncUsedSeats` or reactivation)
and of `Positions` (`headcount_filled` stays too high until the position is closed).
`LeaveLedger`, `AttendanceDay` and `ShiftTimeline` keep no total across employees: all they
relate goes at once with the employee, and what is then in flight fails or writes no row, so they
have no such step. Chat rows name users without a foreign key and stay.

## How the models are built

A request in flight is a *worker*, with a `job`: what was asked, the next SQL statement
and what it has read so far. What it has read may be stale and is used all the same, as
a JavaScript local would be. Each action is one
statement with the decisions that follow it; `Begin...` (`Arrive`) starts a routine,
`Fail` (`Abort`) is any statement that throws or a server that dies in between. Committed
statements stay, an open transaction is rolled back. A routine that opens a
transaction and locks its row has its later writes in one step, because nobody
else can see or write those rows until it commits.

The database is taken as InnoDB with its default REPEATABLE READ, which the code
assumes (`knex` is configured without an isolation level): a plain SELECT inside
a transaction reads the snapshot of its first plain SELECT, UPDATE and SELECT ...
FOR UPDATE act on the latest committed row and hold its lock.

### SeatLedger

State: `status`, `total_seats`, `used_seats` of the subscription; `seats[u]`, the
id of the seat row of employee `u` (0: none), under the unique key on module and
user; `nextSeatId`. A routine is a start statement and the order of the next ones
(`Routine`), because eleven entry points are built from the same few statements
in different orders: `assignSeat`, `enableUserForModule`, the two seat webhooks,
`revokeSeat`, `disableUserForModule`, the face enrolment that grows a full plan,
the payroll sync, `syncUsedSeats`, `createSubscription`, `updateSubscription`,
`cancelSubscription`. Billing webhooks and super-admin edits are single UPDATEs
(`RowWrites`). "lapsed" stands for every status that is neither live nor
cancelled (past due, suspended, expired), which no seat routine tells apart.

`DeleteUser(u)` is the cascade described above; a row for a deleted user is then refused by
the foreign key (`InsertSeat`), and the routines that look the user up first do not start
(`OfKnownUser`). `seatless` says that the module is one of SEATLESS_MODULE_SLUGS
(`emp-monitor`), chosen at the start: its `syncUsedSeats`, finding no rows, counts
the active users (`CountUsers`: any number of those not deleted, since no seat
routine keeps their status) and writes that.

History variables: `peak`, the largest plan ever bought; `tainted`, that requests
have overlapped, failed half-way, or an external write left rows and plan apart;
`swept`, that the rows were deleted by a cancellation and nothing revived it since;
`rowless`, how many the counter counts beyond the rows: those deleted with their seat since
it was last set, or the users a `seatless` synchronisation counted instead of rows.

### Positions

State: the committed `position` row, the `assignments` by id, the row `lock`.
`assignUserToPosition` and `removeUserFromPosition` lock the row;
`updatePosition` and `deletePosition` check first and write later, waiting for the
lock. `DeleteUser` takes the assignments of an employee along ("gone") and leaves the
headcount. `stranded` counts what the headcount may be ahead by: assignments a
deletion of the position has ended before it closed it, or without ever doing so, and those
that went with their employee; closing the position sets both to 0. Freezing a position is an update of its status.

### LeaveLedger

State: `apps` by id, the balance `row` (`used`, the legacy `balance`, `periodUsed`
and its `period`), `attendance` by date, `today`, the row locks of applications.
Days are counted in halves; a sum of days is the number of half-days, each
labelled with its application (`ApprovedDays` and the like). Entry points: `applyLeave`
with the lazy rollover of
`getBalances` in front, `updateLeave`, `cancelLeave`, `approveLeave`,
`rejectLeave`, `updateAttendanceCell` marking P or A (which may reverse and split an
approved leave), and `recordPunch`, modelled by the status it leaves. `Midnight` moves
the date. `deductBalance` and `creditBalance` are a read and a write of absolute
totals, each its own statement; approval does the same inside its transaction,
without FOR UPDATE. `calm` is history: one request at a time, none failed between
two writes, no override refunded more than was left.

Holidays and week-offs appear only as the freedom of `days` to be less than the
span. Notice periods, document rules and attachment checks refuse more requests
and change no state; refusing is already modelled, as an aborted request. The
numbers of a policy are constants.

### SubscriptionLifecycle

State: per subscription the `row` (status, trial end, period end, dunning stage),
whether billing has heard of it (`mapped`, `telling`); the day; each
request's decision (`job`); and the three sweeps: `expiring`, the trials the hourly
sweep selected and has still to convert, `enforcer` with its two passes, and
`dunner`. A sweep works through the rows its SELECT returned, one awaited lookup
and one UPDATE by id each, and anything may happen in between. Billing is outside the
repository: `Notice` is any notice about a mapped subscription at any time, in any
order, any number of times. `CallLost` is an outgoing call that never arrives,
`Backfill` the startup job that tells billing again, `Restart` forgets everything
in flight.

`settled` is history: the subscriptions cancelled while no request or sweep was at
work on them, and not subscribed again, edited or reported unpaid since.
`quiet` is history too: the collection sweep that has run alone so far.

### Roster and ShiftTimeline

`ShiftTimeline` keeps the assignment `rows` (employee, shift, first and last day,
an id that grows with `created_at`), the one swap request, and the jobs.
`assignShift` and `bulkAssignShifts` reconcile: rows inside the new window are
deleted, rows that hang over it are closed before it, cut behind it, or both, with
the tail inserted anew, and only then the new row: five kinds of statements without a
transaction. The update of part of a row, the swap and the profile edit have their own
orders. What a day shows is the row created last (`Shown`).

`Roster` is the promise: a change either shows exactly its overlay of the days
it was asked for, or at worst blanks days of its own employees; a deletion takes
one shift off one run of days, a swap exchanges two. `ImplementsRoster` instantiates it
with what the rows show; `before` records what the days showed when a change
began, from which the refinement mapping computes `pending`. The promise holds
for employees in `kept`, those whose rows were changed one change at a time and
within what the schedule shows; two changes to one employee at once void it, since
each reconciles against rows the other is moving. Nothing in the schemas or the service
refuses a window that ends before it starts, or a bulk request that names an employee twice:
`BeginAssign` takes any window and a set of users named `again`. The first puts its
employees out of `kept` (alone it leaves rows that overlap, or end before they start), the
second the one named twice (two rows of the same days); the row is inserted as the code does,
and everybody else's days are still promised. A second change to one side of a swap
that is being approved voids it for both sides (`Partners`): the other then
gets the shift of a row that is no longer shown.

### AttendanceDay

Time is a count of instants with a date each. State: a record per day with its
punches, its shown times, whether it has a shift; the regularization requests;
the jobs; whether the employee's shift crosses midnight. `recordPunch` is the
lookup (`findActiveAttendanceRecord`: an open record not too old for its kind
of shift, or today's), the insertion of a record or of the punch, and the UPDATE that
recomputes both times from the punches it has read. An approval is a
read, and a transaction that makes or overwrites the record. A request may ask for any
two times of any days, or none (`Asked` has only the date's own check): the schema compares
the two texts and lets shapes through whose order says nothing ("09:00" and a full date of
the day before), and `toTimestamp` converts each by itself, to NULL if it cannot. Grid marks and resets
replace or delete the record. `alone` is history: since nobody was at work, at
most one request has been.

### Conversation

State: the messages by id, each open, sent, deleted or lost (rolled back);
`top`, the conversation's last message; each user's participant row and two
markers. Sending is a transaction: its INSERT takes the shared lock that the
foreign key puts on the conversation's row, and the UPDATE of `last_message_id`
needs it alone, so that of two open sends one waits or is rolled back. Notices
("Ann added Bob") do the same in two bare statements. Marking as read takes any id the
client names, bounded by what the conversation holds.

### Membership

State: per email the account there is or was (`gen` numbers the rows of an email, in
place of their ids; `live`, `on` for status 1, `password`, `changed` for
password_changed_at); the invitations by id; the counter. `createUser`,
`deactivateUser`, the four ways to invite, resending, cancelling and accepting
are jobs of one or two statements after the check; an import, password and
status changes, expiry and the recount of the data-sanity fix are one step. A
cancellation writes its invitation first and holds its lock while it looks for the
account to delete (`Locked`); an acceptance writes it last, and waits.

History: who activated an account (`by`) and which cancellation deleted it
(`cut`); whether an invitation was made while others were at work (`raced`); what
the distance between counter and accounts was when a request began (`drift`) and
whether it has been `alone` since; whether a recount has already seen the account a
creation is about to count (`recounted`, `twice`).

## Runs

Ten runs hold, two are counterexamples to something the code says of itself.

| Run | Question | Bounds |
| --- | --- | --- |
| `seats_safety` | two racing requests among grants, revocations, cancellation and re-subscription, with webhooks, plan edits, deletions of employees and failures | 2 workers, 2 users, plans of 1 or 2 seats, 3 seat rows ever |
| `seats_serial` | every routine but the uncapped payroll sync, one at a time, with external writes, deletions of employees, failures, and a module with or without seats | 1 worker, 2 users, plans of 1 or 2 seats (a face enrolment may grow one to 3), 4 seat rows ever |
| `seats_liveness` | does the counter heal once only the repair runs? | 2 workers, 1 user, a plan of 1, 2 rows ever; drift from an uncapped grant, a revocation, a deletion and re-subscription; a module with or without seats |
| `positions_safety` | all four routines, two at a time, each statement able to fail, and deletions of employees | 2 workers, 2 users, budgets 1 and 2, 3 assignments ever |
| `leave` | every leave routine, with midnight, punches, failures and splits: one at a time to the end, two at a time or after a failure as far as `RacesWithinReach` goes | 2 workers, 3 dates, 3 applications, a full-span leave that counts less than its span and both halves of its middle day, with carry-forward; on the last date 2 applications; races: 1 application, on the first date |
| `lifecycle` | requests, notices, sweeps, lost calls and restarts: do cancellations hold, does enforcement finish, do trials end? | 1 request in flight, 2 subscriptions (one edited, one that only ends its trial), 6 days, 2 edits |
| `shifts` | two changes of any kind, interleaved at every statement: does the schedule implement the promise? | 2 workers, 2 employees, 2 shifts, 3 days, 2 requests; `WithinReach`: a request with its dates out of order or a name given twice is followed only as the last and alone, and does one of the two |
| `attendance` | punches, regularizations, marks and resets, two at a time | 2 workers, 2 days of 2 instants, day and night shift, 3 requests; `OneAsked`: at most one of them a regularization asked and then followed |
| `attendance_phantom` | does the lookup across midnight keep a night shift in one record, as its comment says? | the same; violated |
| `chat` | two requests at a time on one group | 2 workers, 4 users, 2 messages beside failed ones, 4 requests |
| `members` | creating, importing, deleting, inviting, cancelling, accepting and recounting | 2 workers, 2 emails, 2 accounts each, 2 invitations, 3 requests, a free plan of 2 active accounts, 3 allowed |
| `members_cancel` | does cancelling an invitation spare working accounts, as its comment says? | the same; violated |

What the properties say:

- `BoundedOvershoot`: the capacity check races, but the seats and the grants let
  in never exceed the largest plan ever bought by more than the other requests in
  flight. `SerialExact` (seats): without overlap and failures the counter is the
  number of rows plus `rowless`, so it is ahead by the deleted employees alone (or by the
  users a `seatless` count took for rows), and the plan covers the rows. `SweepBound`:
  after a cancellation's DELETE only grants that were in flight can leave rows.
  `RevokesWhatItSaw`: a seat granted between two statements of a revocation survives it,
  unless its employee is deleted.
- `DriftHeals`: if from some point on only `syncUsedSeats` runs, and it keeps
  running, the counter becomes, and stays, the number of rows, deletions of employees
  notwithstanding; a `seatless` module without rows settles on no more than the
  employees there are.
- `OneAssignmentPerUser`, `VacanciesShow`, `AssignKeepsBudget`,
  `StatusFollowsHeadcount`: what the row lock gives although updates, deletions and
  the lookup of a removal do not take it. `VacanciesShow` has the exception it needs:
  the headcount is ahead by what is `stranded` and by nothing else.
- `RowAgrees`: a lost update of the balance row is lost whole. Two routines may each
  read the row, and one write over the other; used and remaining days still add up to the
  year's days, or to more, because each writer derives both from the one row it read. Its mutant
  changes one of the two in place and breaks only under such a race.
  `SerialExact` (leave): one request at a time, days used are days approved, plus
  what a cancellation in progress still owes; this includes the rounding of splits.
  `SerialNoOverlap`: edits and splits keep live leaves disjoint.
- `CancellationHolds`: a cancellation that found no request and no sweep at work on
  the subscription holds until somebody subscribes again, edits the row or
  reports it unpaid: late renewals, late payments and sweeps do not revive it.
  `EnforcementVerdict`: a run of `enforceOverdueInvoices` that was alone leaves nothing
  that billing knows of in service past the limits of its two passes, which
  select by different statuses. `TrialsEnd`: every expired trial leaves that
  state, whatever happens to the others of the same sweep.
- `ImplementsRoster`: see `Roster` above. `CleanTimeline`: the rows of an employee whose
  changes came one at a time, with their dates in order and the employee named once,
  never overlap, nor end before they start.
- `PunchesOnTheirDay`: tomorrow's check-in of a day shift is never today's check-out.
  `InOrder`: no record ends before it starts, through races of punches, marks,
  resets and approvals, unless a decided request of that day asked for such a thing: one
  of the two times alone, or an end before its start. `LonePunchSettles`: a punch that nobody else's work met leaves the record
  with the times its punches say. `ApprovalShows`: an approval leaves the day with
  the times asked for, whatever became of the record since the request.
- `LastMessageIsThere`: the conversation never points at a message that is then
  rolled back. `MarkersBehindLog`: no marker is ahead of what the conversation holds,
  whatever id a client names. `SentUnread`: a message that becomes visible is unread for
  everybody else, unless a notice inserted later was seen earlier.
  `ReadTicksStand`: a message read by all stays so while members come and go;
  only members added on a latest id that it has overtaken can take its tick back.
- `OvercountOnlyByFix`: the member counter, with the creations still to count, never
  exceeds the accounts by more than the creations a recount took in before they
  counted themselves: no race turns away somebody for whom there is room. It
  may fall short: two deletions of one account take off two, a creation may die
  before it counts, and the recount leaves out inactive accounts.
  `LoneKeepsDrift`: a routine nobody disturbed leaves the counter as far from the accounts
  as it found it. `OneOpenInvitation`: two pending invitations of one email
  come of a race and of nothing else. `CancelSparesAccepted`: a cancellation
  never deletes the account its own invitation has activated.
- `TypeOK` of each module; in `LeaveLedger` it also says that no count of the balance
  row turns negative, in `ShiftTimeline` and `AttendanceDay` that ids are unique, in
  `Membership` that what a request refers to exists.

Every property of a passing run is checked against a mutation of the model (in
`PROJECT.json`; the mutated operators stand next to the originals, marked
"Variant"): the run fails when the code is changed as a plausible bug would.

Why the bounds are enough. A race in this code is between two routines: each
reads at most twice and writes rows of one subscription, position, employee or
conversation, so two workers meet every pair of orders. What a third adds is covered by
the proofs, which take any number, wherever there is one.
`BoundedOvershoot` needs the three rows to bite: one
seat held, two grants admitted past it. Two users separate "my row" from "somebody's
row". Row limits allow a row to be made, removed and made again. Three
dates give a split its two pieces; `leave` has two periods, hence a
rollover. Two requests that race over the balance row need one application and the row, on
any date: what a race leaves is followed that far, the serial ones to the end of the year, where the third application, a piece of a split or one
more leave, is no longer followed. Six days take a subscription from the end of its period past all three
limits, and a second subscription is one more row in the trial sweep's list, which can fail.
A window of three days meets an existing row in every way two intervals can:
inside, over its head, over its tail, over both, in its middle.
Two instants to a day put two punches before midnight and two after. Four
chat requests are two sends and two of what meets them. Two emails of two
accounts let a deleted account be made again while a request still means the old
one. `shifts` allows two requests only, so that what two
changes leave behind is not changed by a third; that a swap may be pending, of a day with another
shift, when it begins leaves both requests for its approval and what meets it; a request that
takes somebody out of `kept` by itself is worth following where it could hurt the others, which is
in its own statements. `attendance` follows one regularization with two other requests, or two
punches, marks, resets and decisions that meet; states with a second one asked are checked,
not followed. Budgets of rows and
requests are guards of the actions that start a routine (in `Conversation` also of the
insertion of a message, and in `Membership` of an account or an invitation, where
an insert beyond it is one that fails).

In `shifts`, `attendance`, `chat` and `members`, `CHECK_DEADLOCK` is off: requests are
counted and run out, after which nothing need happen. It is on in the others.

Symmetry: workers, and users, shifts, founders or emails where the model treats them alike,
are interchangeable in the safety runs; the two liveness runs use none.

### Fairness

Two runs need it.

`seats_liveness`: weak fairness of each worker's `Step` or `Abort`, since
Node settles every awaited query, with a result or an error. Strong
fairness of `CountForSync`, `CountUsers` and `WriteUsed`: a single synchronisation may fail at
any statement, any number of them may, but a statement that is tried
again and again does not fail every time, since its failures (a lost connection, a
deadlock victim, a restart) are transient. That `syncUsedSeats` keeps being called is
an assumption of the property itself (`<>[]~SyncCounting` is an alternative of it); it
holds while people use the product, as each module access check and each listing
runs it. Requests may otherwise stop for good.

`lifecycle` (`FairSpec`): weak fairness of `StartTrialSweep`, because an hourly timer
starts it; weak fairness of the sweep's next row being converted or failing, since its
awaited query settles; strong fairness of `Convert(s)` for the subscriptions in
`Priceable`, those whose price can be read at all: one that is tried every hour does not
fail every time. The others may fail for ever, and must not hold up the rest.

## Findings

Two runs show a disagreement between the code and its own words; the quotes are
in `PROJECT.json`.

1. `attendance_phantom`: the second punch of a night shift closes its record, so that
   a third punch after midnight finds no open record and starts one of
   the next day: the phantom row the comment says the lookup prevents.
2. `members_cancel`: an import may bring passwords and never sets
   `password_changed_at`; cancelling an invitation to such an employee deletes a working
   account, which the comment says the test of that column guards against.

### Counterexamples without a run

These formulas are stated in the modules, and TLC refutes each: run the cfg
named, or put the formula in place of the properties of the run named.

| Formula | Where | What TLC shows |
| --- | --- | --- |
| `NoOverAssignment` | `seats_overassign.cfg` | the count-then-insert of `assignSeat` does not stop two racing requests; its comment says it does |
| `HeadcountExact` | `positions_double_remove.cfg` | an assignment found active before the lock is ended again after it and decremented twice |
| `UsedMatchesApproved` | `leave_double_approval.cfg` | approving twice deducts twice |
| `NoOverlap` | `leave_overlap_race.cfg` | the announced second overlap check does not exist |
| `PeriodUsageKept` | `leave_period_usage.cfg` | leave approved before its period starts is charged to no period |
| `PunchesSurvive` | `leave_cancel_punched.cfg` | cancelling on the first day deletes a half day really worked |
| `NoInvertedRow` | `shifts_inverted.cfg` | a request with its dates out of order, or two changes of one employee's shifts, leave a row that ends before it starts, which a comment calls an artifact of an older bug |
| `DunningVerdict` | run `lifecycle` | `dunning_stage` is never reset: the next overdue period is neither reminded nor suspended by dunning |
| `ConvertsTrialsOnly` | run `lifecycle` | the trial sweep converts a row that has left the trial since it was selected |
| `ReadImpliesDelivered` | run `chat` | adding a member sets the read marker alone: read, not delivered |
| `LastMessageAdvances` | run `chat` | a notice's second statement can move the last message back |
| `DecisionStands` | run `attendance` | an approval and a rejection, both checked before either wrote, both go through; regularization.service.ts:354-356 says the decision is final |

Three more remarks from reading: the deletion of an employee leaves `used_seats` and
`headcount_filled` as they are, and nothing recounts the latter (`SerialExact` and `VacanciesShow`
say by how much); the seat check of an import reads `org.seat_limit`, which is no
column (import.service.ts:713), so an import is never refused for lack of seats; and
`OneOpenInvitation` needs its exception, although the comment at
user.service.ts:895-897 calls pending invitations globally unique by design.

## What is proved

TLAPS checks the proof modules completely. Assumptions are those the modules
declare: workers are a finite set (for the bounds that count them), sizes and
limits are natural numbers, requests are well formed, distinguished values are
not members of the sets beside them. Nothing bounds the number of workers,
users, rows, dates, messages, or the size of plans and budgets.

| Theorem | Says, for every value of the constants |
| --- | --- |
| `TypeCorrect` (seats, chat), `PositionTypes`, `LeaveTypes`, `LifecycleTypes`, `AttendanceTypes`, `MemberTypes`, `ShiftTypes` | `[]TypeOK` of every module but `Roster` |
| `OvershootIsBounded` | `[]BoundedOvershoot` |
| `SweepIsBounded` | `[]SweepBound` |
| `RevocationSafe` | `RevokesWhatItSaw` |
| `SerialSeats`, `SerialCounter` | `[]SerialExact` (seats) without the payroll sync; its half about the counter with it |
| `NoDoubleAssignment`, `NoHiddenVacancy` | `[]OneAssignmentPerUser`, `[]VacanciesShow` |
| `BudgetKept`, `StatusKept` | `AssignKeepsBudget`, `StatusFollowsHeadcount` |
| `RowKept` | `[]RowAgrees` |
| `LeaveSerialExact`, `LeaveSerialNoOverlap` | `[]SerialExact`, `[]SerialNoOverlap` (leave) |
| `CancellationsHold`, `EnforcementIsComplete` | `[]CancellationHolds`, `EnforcementVerdict` |
| `PunchesKeepTheirDay`, `RecordsInOrder` | `[]PunchesOnTheirDay`, `[]InOrder` |
| `LonePunchesSettle`, `ApprovalsShow` | `LonePunchSettles`, `ApprovalShows` |
| `LastMessageCommitted`, `MarkersBehind` | `[]LastMessageIsThere`, `[]MarkersBehindLog` |
| `SentIsUnread`, `ReadTicksAreFinal` | `SentUnread`, `ReadTicksStand` |
| `OvercountBounded`, `OneInvitation`, `AcceptedAreSpared` | `[]OvercountOnlyByFix`, `[]OneOpenInvitation`, `[]CancelSparesAccepted` |
| `LoneRoutinesKeepDrift` | `LoneKeepsDrift` |
| `ShiftsClean` | `[]CleanTimeline` |
| `ShiftsImplementRoster` | `ImplementsRoster`: every behaviour of `ShiftTimeline` is one of `Roster` |

The arguments.

*SeatLedger.* Counting seats alone is not inductive. The measure is seats plus
*admitted* grants, those that have passed the check: an admission needs the count
below a total that was read earlier and so is at most `peak`, and each other
admission belongs to a different worker. The invariant adds that what a grant has
read is at most `peak` and what each statement's worker holds (`job`, `seen`). For
the sweep the same is counted with the workers that may still insert. Both rest on
cardinality lemmas: adding a worker's admission, inserting a row, at most one per worker.

`SerialExact` says nothing of a request in flight, so its invariant does: unless the row
is tainted, there is a worker that all others leave alone (`Focus`), and for it
the counter is the number of rows, but for the one it has inserted or deleted and has not yet
counted (`CountedBut`, with `rowless` beside the rows); what it has read is still so (`ReadingsHold`); and if it
has been admitted, there is room (`RoomFound`). A row that is neither live nor
lapsed has no seats, unless its sweep is still to come. `PlanChecked` is a hypothesis
of `SerialSeats`, and of the run beside it: the payroll sync grants without
looking at the plan, so that with it the plan is exceeded by one routine
alone. `SerialCounter` needs no such thing.

*Positions.* `Ind` adds two things to the types: which request each statement
works for, and `UnderLock`: what the holder of the lock has read is still the
committed row, and between the check and the insertion the employee is still
unassigned and the position below its budget. It is kept because every write of
the row needs the lock free or held by the writer; the writes of assignments that
do not (a deletion's) only end some. From `Ind`, each commit preserves
uniqueness and headcount, and the two action properties follow from `UnderLock` at
`CommitAssign` and `CommitRemove`.

*LeaveLedger.* `RowAgrees` is not inductive either, since rows are written from
stale reads: `Ind` keeps it for every balance row in a worker's hand that is about
to be written back (`HasBalance`), together with `balance >= days` between the
check and the commit of an approval. Types need that an application, once there,
stays (`Stays`), and for `Reverse` that the shares of a split are natural numbers
(`SharesNat`), that pieces lie inside the year (`SplitTyped`). One lemma,
`AloneInd`, says that a step which moves one worker and leaves the tables well
formed keeps `Ind`; each action is then only its own writes.

The two serial properties have an invariant of the same form as those of the seats: while
`calm`, all workers but one are idle. For that one `Focus` says what the days used are short
of or ahead by (`Owed`, `Due`), what it has read that is still true (`Relies`),
and that the table is `Sound`: no live leaves overlap, none has more days than its dates
hold, and ids are given out in order, without which a piece could
overwrite a leave. The total moves by the days of the leave that changes
(`DaysWith`), as the half-days of two leaves are different pairs. The hard step
is `Reverse`, which splits an approved leave around a day: `ShareFits` and `PiecesFit`
say that, rounding included, neither piece gets more days than its dates hold,
and together they get all that is not refunded.

*SubscriptionLifecycle.* `IInv` adds to the types what requests and billing can be about
(`ScopeOK`), that no request and no sweep still holds a settled subscription
(`SettledOK`), and what an enforcement that was alone has done to every row billing
knows of, or will still do (`EnforceOK`): what is in its plan is planned for what
its days overdue deserve, and what is not is out of service already or not
overdue enough. The handover from the first pass to the second is the step that
needs the order of the limits.

*AttendanceDay.* The invariant turns on one idea, `Onward`: an id, once given to a
record, never comes to mean another day, because ids only grow and a day's record is only
made anew. So what a punch found before it waited is its record or nothing.
`RowsOK` adds that no record lies in the future, `RegsOK` and `JobsOK` that what is
asked for and what each request holds are of a day that has come and linked to a record of
that day, and
`AloneOK` that whoever is undisturbed still holds the punches of the record it
is about to write.

*Conversation.* `IInv` adds that each job's id is a message of the right state
(`JobsOK`) and `OnlyNoticesOvertake`: an open message is the newest but for notices,
since a send that could overtake it waits for the row. `SentIsUnread`
follows because every marker is behind the committed log.

*Membership.* `OvercountOnlyByFix` is inductive beside the types, over cardinalities: each
statement that adds to the counter comes with one account more or one account
less to count, each that subtracts with at most one account less. For the
rest `IInv` adds three parts. `CutOK`: an account that does not show a change of
password was activated by no invitation, a living one has been cut by none, and what a
cancellation is about to delete was not activated by its own invitation; it holds
because an acceptance cannot commit while the row is locked (`Locked`). `InvitingOK`: who is
still alone with an invitation to write finds no other to that email. `LoneOK`: who is
alone still finds the account it has found, and has moved the counter as much as the
accounts, but for the one it has still to count. Steps that end a
request, or disturb everybody, are one lemma (`SettlesKeeps`).

*ShiftTimeline.* `CleanTimeline` says nothing of a reconciliation in progress, in the middle of
which rows are already cut and the new one is not there. `Ind` adds, for every kept
employee (`KeptFor`), that one request at most is about them, that its window is in order
and names them once, and that their rows are
those it has read, cut as far as it has got: what it still has to delete, close or trim
covers all that meets its window, and the tails it has still to insert fit
in the place its cuts leave (`AssignHolds`). `Under` says that these rows and tails
show nothing but what the days showed before, `Outside` that they show all of it
outside the window, which is what the commit needs: with the new row the days then show
exactly the overlay. `Together` keeps both sides of a swap that is being approved.
INSERT numbers its rows in any order; a lemma (`InsertStamps`) turns its
bijection into a function from rows to ids, so that an insertion is reasoned
about as a union of sets.

For the refinement, a day of rows that do not overlap shows the one row that covers it
(`ShownCovered`), which replaces the latest of several in all that follows.
`StepFor(u)` is `Roster`'s step for one employee in terms of the rows (`Seen`, `Pending`):
each statement is a beginning, a thinning, a commit, an abandonment
or a removal for the employees it is about, and no change for everybody else; a swap is a
step for two (`SwapFor`).

Two conditions of these models are there because a proof failed or a mutant survived without
them. `Partners`: un-keeping one side of a swap in progress must un-keep the other. And
a `Swap` of `Roster` exchanges one day at least: were its runs allowed to be
empty, an approval that gives both rows the same shift would pass for a swap. Both take a
swap of different shifts that is pending when the run begins.

What stays with TLC. `DriftHeals` and `TrialsEnd` are liveness under fairness, which the
prover does not do (nor `ENABLED`). Every other property of a passing run is a theorem.
No module with a theorem uses a RECURSIVE operator, since the prover
loses its SMT backend in those.

## Not modelled

- *Comp-off requests, headcount plans*: a status check and an unconditional write each. The
  race they have (two decisions both go through: comp-off.service.ts:122,
  position.service.ts:639) is that of leave approvals and of regularizations, modelled
  there; a model of them would repeat it over another table.
- *HR's corrections of a balance* (override, bulk override, reset, archive): they
  overwrite the totals that every property of `LeaveLedger` relates, so that after one
  nothing is left to state.
- *Assets and helpdesk*: one row and a history row per operation, each a checked UPDATE; a
  reported loss leaves `assigned_to` as it was, which is as the screen shows it.
- *Shift definitions, leave types and policies, catalogue and pricing, organizations and
  onboarding, profiles, content rows* (documents, surveys, announcements and so on): plain
  creation and editing of configuration, one statement per operation.
- *Chat beyond one group's log*: direct chats, reactions, pins, edits, mute and archive flags
  and the receipt ledger are independent rows; presence and sockets are I/O.
- *Worked minutes, lateness, overtime*: arithmetic on a record's times,
  recomputed from them whenever they change, with no state of its own.
- *Prices, invoices, the free flag*: they belong to billing, outside the repository, or decide
  nothing the lifecycle's properties tell apart.
- *OAuth and OIDC, authentication, API keys, permissions, access policies*: credentials and
  lookups per request. All models take callers as authorised.
- *Data sanity, health, analytics*: reading reports; the one-shot recounts are
  in `SeatLedger` and `Membership`.
- *Chatbots, legacy biometric ports, billing proxy, web client*: an external model or
  service, queries, and a user interface over the HTTP API. They hold most of
  the repository's lines, and no shared state of their own.

## Plan

What is worth adding next, in order:

1. An abstract leave ledger (approved days, one number) that the serial use of
   `LeaveLedger` implements; HR's corrections as steps that start it anew.
2. `SubscriptionLifecycle` composed with `SeatLedger` over the shared row: what a notice
   that revives a cancelled row does to the seats.
3. Direct chats and the receipt ledger beside `Conversation`.

## Checking it

    tlasany Membership.tla
    tlc -workers 2 -config members.cfg MCMembership.tla
    tlapm MembershipProofs.tla

Each passing run takes between half a minute and three on two cores, each
violation a few seconds, each proof module one to five minutes.
