----------------------------- MODULE LeaveLedger -----------------------------
(***************************************************************************)
(* The leave applications of one employee for one leave type, the row of   *)
(* leave_balances they draw on, and the attendance records they write:     *)
(* leave-application.service.ts, leave-balance.service.ts and the grid's   *)
(* override of an approved leave in attendance.service.ts.                 *)
(*                                                                         *)
(* Every request is an async handler; each awaited statement commits on    *)
(* its own unless it is inside db.transaction, and requests interleave     *)
(* between any two statements.  The database is InnoDB under REPEATABLE    *)
(* READ: a plain SELECT in a transaction reads the snapshot its first      *)
(* plain SELECT opened, an UPDATE locks its row until the transaction ends *)
(* and acts on the latest committed one.                                   *)
(*                                                                         *)
(* Days of leave are counted in halves: a full day is 2.  Callers are      *)
(* authorised; a date is a number, and the fiscal year is Dates, cut into  *)
(* accrual periods of PeriodLength dates.                                  *)
(***************************************************************************)
EXTENDS Integers, FiniteSets

CONSTANTS
    Workers,        \* requests in flight at a time
    Nothing,        \* what an idle worker works on, or has not read
    EntryPoints,    \* the routines exercised
    LastDate,       \* the fiscal year is the dates from 1 to this
    PeriodLength,   \* dates in an accrual period
    Quota,          \* half-days a period grants
    CarryForward,   \* period_carry_forward of the policy
    Approvals,      \* values of requires_approval the leave type takes
    Cells,          \* the dates the employee punches or HR marks
    Requests,       \* what an employee may ask for
    MaxApps         \* bound: leave applications ever inserted

Routines ==
    {"apply", "update", "cancel", "approve", "reject", "override", "punch"}

Dates == 1..LastDate

\* A request for leave; days are what applyLeave counted, or what the caller of
\* updateLeave claims, and at most the span.
Halves == {"no", "first_half", "second_half"}
Shape(r) ==
    /\ DOMAIN r = {"first", "last", "half", "days"}
    /\ r.first \in Dates /\ r.last \in Dates /\ r.first <= r.last
    /\ r.half \in Halves
    /\ r.half # "no" => r.days = 1
    /\ r.days \in 1..(2 * (r.last - r.first + 1))

ASSUME WorkersFinite == IsFiniteSet(Workers) /\ Workers # {} /\ Nothing \notin Workers
ASSUME EntryPointsOK == EntryPoints \subseteq Routines
ASSUME DatesOK       == LastDate \in Nat \ {0}
ASSUME PeriodsOK     == PeriodLength \in Nat \ {0} /\ Quota \in Nat \ {0}
ASSUME PolicyOK      == CarryForward \in BOOLEAN /\ Approvals \subseteq BOOLEAN
ASSUME CellsOK       == Cells \subseteq Dates
ASSUME RequestsOK    == \A r \in Requests : Shape(r)
ASSUME AppsOK        == MaxApps \in Nat

VARIABLES
    apps,         \* leave_applications by id: Nothing, or a row
    row,          \* the row of leave_balances
    attendance,   \* attendance_records by date: [status, punched]
    today,        \* the date
    lock,         \* the transaction that holds each application row
    pc,           \* the next statement of each worker
    job,          \* its request
    seen,         \* what it has read: [app, row, attendance]
    calm          \* history: requests have come one at a time, none has failed
                  \*          between two writes, and no override has refunded
                  \*          more than was left of its leave

tables == <<apps, row, attendance>>
vars == <<tables, today, lock, pc, job, seen, calm>>

-----------------------------------------------------------------------------
Ids == 1..MaxApps

Period(d) == ((d - 1) \div PeriodLength) + 1
Periods   == {Period(d) : d \in Dates}
Annual    == Quota * Cardinality(Periods)

\* absent: no row.  A punched row has check_in set; "present" stands for every
\* status but the four the leave code tells apart.
AttendanceStatuses == {"none", "absent", "on_leave", "half_day", "present"}
NoRecord == [status |-> "none", punched |-> FALSE]

DatesOf(r) == {d \in Dates : r.first <= d /\ d <= r.last}

Live(i)     == apps[i] # Nothing /\ apps[i].status \in {"pending", "approved"}
Approved    == {i \in Ids : apps[i] # Nothing /\ apps[i].status = "approved"}

Overlap(a, b) ==
    /\ a.first <= b.last /\ b.first <= a.last
    /\ ~ /\ a.first = a.last /\ b.first = b.last
         /\ a.half # "no" /\ b.half # "no" /\ a.half # b.half

Blank == [app |-> Nothing, row |-> Nothing, attendance |-> Nothing]

Goto(w, statement) == pc' = [pc EXCEPT ![w] = statement]

Finish(w) ==
    /\ pc' = [pc EXCEPT ![w] = "idle"]
    /\ job' = [job EXCEPT ![w] = Nothing]
    /\ seen' = [seen EXCEPT ![w] = Blank]

Free(i) == lock[i] = Nothing

\* Ids are given out in order.
Fresh(i) == apps[i] = Nothing /\ \A k \in 1..(i - 1) : apps[k] # Nothing

-----------------------------------------------------------------------------
\* initializeBalances has run at the start of the fiscal year.
Init ==
    /\ apps = [i \in Ids |-> Nothing]
    /\ row = [used |-> 0, balance |-> Annual, periodUsed |-> 0, period |-> 1]
    /\ attendance = [d \in Dates |-> NoRecord]
    /\ today = 1
    /\ lock = [i \in Ids |-> Nothing]
    /\ pc = [w \in Workers |-> "idle"]
    /\ job = [w \in Workers |-> Nothing]
    /\ seen = [w \in Workers |-> Blank]
    /\ calm = TRUE

Jobs ==
    [kind : {"apply"}, request : Requests, approval : Approvals]
      \cup [kind : {"update"}, id : Ids, request : Requests]
      \cup [kind : {"cancel", "approve", "reject"}, id : Ids]
      \cup [kind : {"override"}, date : Cells, mark : {"present", "absent"}]

\* An override once it has found the leave it reverses.
Reversals == [kind : {"override"}, id : Ids, date : Cells, mark : {"present", "absent"}]

Statement == [apply |-> "checkBalance", update |-> "findOwn",
              cancel |-> "findActive",  approve |-> "findPending",
              reject |-> "findPending", override |-> "findApproved"]

\* Bound: the rows the requests in flight may still insert are there.
Inserts(j) == CASE j = Nothing -> 0
                [] j # Nothing /\ j.kind = "apply" -> 1
                [] j # Nothing /\ j.kind = "override" -> 2
                [] OTHER -> 0
Promised == {x \in Workers \X (1..2) : x[2] <= Inserts(job[x[1]])}
WithinRowBudget(j) ==
    Inserts(j) + Cardinality(Promised) <= Cardinality({i \in Ids : apps[i] = Nothing})

Arrive(w, j) ==
    /\ pc[w] = "idle"
    /\ j.kind \in EntryPoints
    /\ Inserts(j) > 0 => WithinRowBudget(j)
    /\ Goto(w, Statement[j.kind])
    /\ job' = [job EXCEPT ![w] = j]
    /\ calm' = (calm /\ \A v \in Workers : pc[v] = "idle")
    /\ UNCHANGED <<tables, today, lock, seen>>

\* A statement throws or the server dies: an open transaction is rolled back,
\* committed statements stay.
Abort(w) ==
    /\ pc[w] # "idle"
    /\ Finish(w)
    /\ lock' = [i \in Ids |-> IF lock[i] = w THEN Nothing ELSE lock[i]]
    /\ calm' = (calm /\ pc[w] \notin {"readForDeduct", "writeDeduct",
                                      "readForCredit", "writeCredit"})
    /\ UNCHANGED <<tables, today>>

Midnight ==
    /\ today + 1 \in Dates
    /\ today' = today + 1
    /\ UNCHANGED <<tables, lock, pc, job, seen, calm>>

\* recordPunch: the status of today follows the punches, whatever it was.
Punch ==
    /\ "punch" \in EntryPoints /\ today \in Cells
    /\ \E s \in {"present", "half_day", "absent"} :
          attendance' = [attendance EXCEPT ![today] = [status |-> s, punched |-> TRUE]]
    /\ UNCHANGED <<apps, row, today, lock, pc, job, seen, calm>>

(***************************************************************************)
(* getBalances, with its lazy rollover                                     *)
(***************************************************************************)
NotBelow0(n) == IF n < 0 THEN 0 ELSE n

Available(r) ==
    NotBelow0(IF CarryForward THEN Quota * Period(today) - r.used
                              ELSE Quota - r.periodUsed)

RolledOver(r) == [r EXCEPT !.period = Period(today),
                           !.periodUsed = IF CarryForward THEN @ ELSE 0]

ReadRow(w) == seen' = [seen EXCEPT ![w].row = row]

\* Insufficient balance ends the request.
GoOnIfAvailable(w, r) ==
    IF Available(r) < job[w].request.days
      THEN Finish(w)
      ELSE Goto(w, "findOverlaps") /\ UNCHANGED <<job, seen>>

CheckBalance(w) ==
    /\ pc[w] = "checkBalance"
    /\ IF row.period = Period(today)
         THEN GoOnIfAvailable(w, row)
         ELSE /\ Goto(w, "rollover") /\ UNCHANGED job
              /\ seen' = [seen EXCEPT ![w].row = RolledOver(row)]
    /\ UNCHANGED <<tables, today, lock, calm>>

\* The UPDATE names period_key, and period_used = 0 when nothing is carried.
Rollover(w) ==
    /\ pc[w] = "rollover"
    /\ row' = [row EXCEPT !.period = seen[w].row.period,
                          !.periodUsed = IF CarryForward THEN @ ELSE 0]
    /\ GoOnIfAvailable(w, seen[w].row)
    /\ UNCHANGED <<apps, attendance, today, lock, calm>>

(***************************************************************************)
(* applyLeave and updateLeave                                              *)
(***************************************************************************)
\* Variant: pending applications do not stand in the way.
ClashesWithApproved(w) ==
    \E i \in Approved : /\ Overlap(apps[i], job[w].request)
                        /\ job[w].kind = "update" => i # job[w].id

Clashes(w) ==
    \E i \in Ids : /\ Live(i) /\ Overlap(apps[i], job[w].request)
                   /\ job[w].kind = "update" => i # job[w].id

FindOwn(w) ==
    /\ pc[w] = "findOwn"
    /\ IF apps[job[w].id] # Nothing /\ apps[job[w].id].status = "pending"
         THEN Goto(w, "checkBalance") /\ UNCHANGED <<job, seen>>
         ELSE Finish(w)
    /\ UNCHANGED <<tables, today, lock, calm>>

FindOverlaps(w) ==
    /\ pc[w] = "findOverlaps"
    /\ IF Clashes(w)
         THEN Finish(w)
         ELSE /\ Goto(w, IF job[w].kind = "apply" THEN "insert" ELSE "writeUpdate")
              /\ UNCHANGED job
              /\ seen' = [seen EXCEPT ![w] = Blank]
    /\ UNCHANGED <<tables, today, lock, calm>>

Application(r, status) == [first |-> r.first, last |-> r.last, half |-> r.half,
                           days |-> r.days, status |-> status]

Insert(w) ==
    /\ pc[w] = "insert"
    /\ \E i \in Ids :
          /\ Fresh(i)
          /\ apps' = [apps EXCEPT ![i] =
                 Application(job[w].request,
                             IF job[w].approval THEN "pending" ELSE "approved")]
    /\ IF job[w].approval
         THEN Finish(w)
         ELSE Goto(w, "readForDeduct") /\ UNCHANGED <<job, seen>>
    /\ UNCHANGED <<row, attendance, today, lock, calm>>

\* The row keeps the status it has by now.
WriteUpdate(w) ==
    /\ pc[w] = "writeUpdate"
    /\ Free(job[w].id)
    /\ apps' = [apps EXCEPT ![job[w].id] = Application(job[w].request, @.status)]
    /\ Finish(w)
    /\ UNCHANGED <<row, attendance, today, lock, calm>>

(***************************************************************************)
(* deductBalance and creditBalance                                         *)
(***************************************************************************)
InPeriodOf(date) == Period(date) = Period(today)

\* Absolute values, from the row that was read; period_key is left alone.
Deducted(r, a) ==
    [row EXCEPT !.used = r.used + a.days,
                !.balance = NotBelow0(r.balance - a.days),
                !.periodUsed = IF InPeriodOf(a.first) THEN r.periodUsed + a.days
                                                      ELSE r.periodUsed]

\* Variant: the days used are counted down in place.
CreditedInPlace(r, a) ==
    [row EXCEPT !.used = NotBelow0(row.used - a.days),
                !.balance = r.balance + a.days,
                !.periodUsed = IF InPeriodOf(a.first)
                                 THEN NotBelow0(r.periodUsed - a.days)
                                 ELSE r.periodUsed]

Credited(r, a) ==
    [row EXCEPT !.used = NotBelow0(r.used - a.days),
                !.balance = r.balance + a.days,
                !.periodUsed = IF InPeriodOf(a.first)
                                 THEN NotBelow0(r.periodUsed - a.days)
                                 ELSE r.periodUsed]

ReadForDeduct(w) ==
    /\ pc[w] = "readForDeduct"
    /\ ReadRow(w) /\ Goto(w, "writeDeduct")
    /\ UNCHANGED <<tables, today, lock, job, calm>>

WriteDeduct(w) ==
    /\ pc[w] = "writeDeduct"
    /\ row' = Deducted(seen[w].row, job[w].request)
    /\ Finish(w)
    /\ UNCHANGED <<apps, attendance, today, lock, calm>>

ReadForCredit(w) ==
    /\ pc[w] = "readForCredit"
    /\ ReadRow(w) /\ Goto(w, "writeCredit")
    /\ UNCHANGED <<tables, today, lock, job, calm>>

WriteCredit(w) ==
    /\ pc[w] = "writeCredit"
    /\ row' = Credited(seen[w].row, seen[w].app)
    /\ Goto(w, "clearAttendance")
    /\ UNCHANGED <<apps, attendance, today, lock, job, seen, calm>>

(***************************************************************************)
(* cancelLeave                                                             *)
(***************************************************************************)
ReadApp(w, i) == seen' = [seen EXCEPT ![w].app = apps[i]]

FindActive(w) ==
    /\ pc[w] = "findActive"
    /\ IF Live(job[w].id) /\ apps[job[w].id].first >= today
         THEN /\ ReadApp(w, job[w].id)
              /\ Goto(w, "writeCancelled") /\ UNCHANGED job
         ELSE Finish(w)
    /\ UNCHANGED <<tables, today, lock, calm>>

WriteCancelled(w) ==
    /\ pc[w] = "writeCancelled"
    /\ Free(job[w].id)
    /\ apps' = [apps EXCEPT ![job[w].id].status = "cancelled"]
    /\ IF seen[w].app.status = "approved"
         THEN Goto(w, "readForCredit") /\ UNCHANGED <<job, seen>>
         ELSE Finish(w)
    /\ UNCHANGED <<row, attendance, today, lock, calm>>

\* The rows approval wrote are told by their status alone.
ClearAttendance(w) ==
    /\ pc[w] = "clearAttendance"
    /\ attendance' = [d \in Dates |->
           IF d \in DatesOf(seen[w].app)
                /\ attendance[d].status \in {"on_leave", "half_day"}
             THEN NoRecord ELSE attendance[d]]
    /\ Finish(w)
    /\ UNCHANGED <<apps, row, today, lock, calm>>

(***************************************************************************)
(* approveLeave and rejectLeave                                            *)
(***************************************************************************)
FindPending(w) ==
    /\ pc[w] = "findPending"
    /\ IF apps[job[w].id] # Nothing /\ apps[job[w].id].status = "pending"
         THEN /\ ReadApp(w, job[w].id) /\ UNCHANGED job
              /\ Goto(w, IF job[w].kind = "approve" THEN "readForApproval"
                                                    ELSE "writeRejected")
         ELSE Finish(w)
    /\ UNCHANGED <<tables, today, lock, calm>>

\* The transaction updates the application, which locks its row, and reads the
\* balance and the attendance from a snapshot opened after that.
ReadForApproval(w) ==
    /\ pc[w] = "readForApproval"
    /\ Free(job[w].id)
    /\ IF row.balance < seen[w].app.days
         THEN Finish(w) /\ UNCHANGED lock
         ELSE /\ lock' = [lock EXCEPT ![job[w].id] = w]
              /\ seen' = [seen EXCEPT ![w].row = row, ![w].attendance = attendance]
              /\ Goto(w, "commitApproval") /\ UNCHANGED job
    /\ UNCHANGED <<tables, today, calm>>

\* Variant: every date of the leave is marked, as half present, half leave.
MarkedLegacy(a, snapshot) ==
    [d \in Dates |-> IF d \in DatesOf(a)
                       THEN [attendance[d] EXCEPT !.status = "half_present_half_leave"]
                       ELSE attendance[d]]

\* Rows are inserted for dates without one and absent ones are overwritten, in
\* the order of the dates; a row that appeared since the snapshot makes the
\* insertion fail, and the rest of the dates are skipped.
Marked(a, snapshot) ==
    LET taken(d) == snapshot[d].status = "none" /\ attendance[d].status # "none"
        reached(d) == \A e \in DatesOf(a) : e <= d => ~taken(e)
        leave == IF a.half = "no" THEN "on_leave" ELSE "half_day"
    IN  [d \in Dates |->
            CASE d \notin DatesOf(a) \/ ~reached(d) -> attendance[d]
              [] d \in DatesOf(a) /\ reached(d) /\ snapshot[d].status = "none" ->
                    [status |-> leave, punched |-> FALSE]
              [] d \in DatesOf(a) /\ reached(d) /\ snapshot[d].status = "absent"
                    /\ attendance[d] # NoRecord ->
                    [attendance[d] EXCEPT !.status = leave]
              [] OTHER -> attendance[d]]

CommitApproval(w) ==
    LET a == seen[w].app  r == seen[w].row IN
    /\ pc[w] = "commitApproval"
    /\ apps' = [apps EXCEPT ![job[w].id].status = "approved"]
    /\ row' = [row EXCEPT
           !.used = r.used + a.days,
           !.balance = r.balance - a.days,
           !.periodUsed = IF InPeriodOf(a.first) THEN r.periodUsed + a.days
                                                 ELSE r.periodUsed]
    /\ attendance' = Marked(a, seen[w].attendance)
    /\ lock' = [lock EXCEPT ![job[w].id] = Nothing]
    /\ Finish(w)
    /\ UNCHANGED <<today, calm>>

WriteRejected(w) ==
    /\ pc[w] = "writeRejected"
    /\ Free(job[w].id)
    /\ apps' = [apps EXCEPT ![job[w].id].status = "rejected"]
    /\ Finish(w)
    /\ UNCHANGED <<row, attendance, today, lock, calm>>

(***************************************************************************)
(* updateAttendanceCell, marking a date present or absent                  *)
(***************************************************************************)
WithMark(w) == [attendance EXCEPT ![job[w].date].status = job[w].mark]

\* .first() of the approved leaves on that date.
FindApproved(w) ==
    LET onDate == {i \in Approved : job[w].date \in DatesOf(apps[i])} IN
    /\ pc[w] = "findApproved"
    /\ IF onDate = {}
         THEN Goto(w, "writeMark") /\ UNCHANGED <<job, seen>>
         ELSE \E i \in onDate :
                /\ Goto(w, "reverse")
                /\ job' = [job EXCEPT ![w] = [kind |-> "override", id |-> i,
                                    date |-> job[w].date, mark |-> job[w].mark]]
                /\ ReadApp(w, i)
    /\ UNCHANGED <<tables, today, lock, calm>>

WriteMark(w) ==
    /\ pc[w] = "writeMark"
    /\ attendance' = WithMark(w)
    /\ Finish(w)
    /\ UNCHANGED <<apps, row, today, lock, calm>>

Refund(a) == IF a.half = "no" THEN 2 ELSE 1

\* What is left of a leave before and after a date: the days that remain are
\* shared in proportion to the calendar days, rounded to whole halves.
Early(a, d) ==
    LET rest    == NotBelow0(a.days - Refund(a))
        before  == d - a.first
        after   == a.last - d
        rounded == (2 * rest * before + before + after) \div (2 * (before + after))
    IN  CASE before = 0 -> 0
          [] before > 0 /\ after = 0 -> rest
          [] OTHER -> IF rounded < rest THEN rounded ELSE rest

\* Variant: each piece gets all the days that remain.
LateInFull(a, d) == IF a.last = d THEN 0 ELSE NotBelow0(a.days - Refund(a))

Late(a, d) == IF a.last = d THEN 0 ELSE NotBelow0(a.days - Refund(a)) - Early(a, d)

Piece(a, first, last, days) == [a EXCEPT !.first = first, !.last = last, !.days = days]

\* The leave is cancelled and its pieces are inserted in its place.
Split(id, a, d) ==
    LET next  == CHOOSE i \in Ids : Fresh(i)
        early == IF Early(a, d) > 0 THEN {next} ELSE {}
        late  == IF Late(a, d) > 0 THEN {next + Cardinality(early)} ELSE {}
    IN  [i \in Ids |->
            CASE i = id      -> [apps[i] EXCEPT !.status = "cancelled"]
              [] i \in early -> Piece(a, a.first, d - 1, Early(a, d))
              [] i \in late  -> Piece(a, d + 1, a.last, Late(a, d))
              [] OTHER       -> apps[i]]

\* One transaction; the balance is read FOR UPDATE, period_used is lowered
\* whatever the period of the date.
Reverse(w) ==
    LET a == seen[w].app IN
    /\ pc[w] = "reverse"
    /\ Free(job[w].id)
    /\ apps' = Split(job[w].id, a, job[w].date)
    /\ row' = [row EXCEPT !.used = NotBelow0(@ - Refund(a)),
                          !.balance = @ + Refund(a),
                          !.periodUsed = NotBelow0(@ - Refund(a))]
    /\ attendance' = WithMark(w)
    /\ calm' = (calm /\ a.days >= Refund(a))
    /\ Finish(w)
    /\ UNCHANGED <<today, lock>>

-----------------------------------------------------------------------------
Step(w) ==
    \/ CheckBalance(w) \/ Rollover(w) \/ FindOverlaps(w)
    \/ Insert(w) \/ ReadForDeduct(w) \/ WriteDeduct(w)
    \/ FindOwn(w) \/ WriteUpdate(w)
    \/ FindActive(w) \/ WriteCancelled(w) \/ ReadForCredit(w) \/ WriteCredit(w)
    \/ ClearAttendance(w)
    \/ FindPending(w) \/ ReadForApproval(w) \/ CommitApproval(w) \/ WriteRejected(w)
    \/ FindApproved(w) \/ WriteMark(w) \/ Reverse(w)

Next == \/ \E w \in Workers : \/ \E j \in Jobs : Arrive(w, j)
                              \/ Step(w)
                              \/ Abort(w)
        \/ Midnight
        \/ Punch

Spec == Init /\ [][Next]_vars

-----------------------------------------------------------------------------
(***************************************************************************)
(* Properties.                                                             *)
(***************************************************************************)
AppRows == [first : Dates, last : Dates, half : Halves, days : Nat,
            status : {"pending", "approved", "rejected", "cancelled"}]

BalanceRows == [used : Nat, balance : Nat, periodUsed : Nat, period : Periods]

ASSUME NothingIsNone == Nothing \notin Jobs /\ Nothing \notin AppRows

\* Types.  The counts of the balance row never turn negative, whatever is
\* subtracted from values that are no longer current ("leave_balances.balance
\* should be >= 0", data-sanity.service.ts).
TypeOK ==
    /\ apps \in [Ids -> AppRows \cup {Nothing}]
    /\ row \in BalanceRows
    /\ attendance \in [Dates -> [status : AttendanceStatuses, punched : BOOLEAN]]
    /\ today \in Dates
    /\ lock \in [Ids -> Workers \cup {Nothing}]
    /\ \A w \in Workers :
          /\ job[w] \in Jobs \cup Reversals \cup {Nothing}
          /\ seen[w].app \in AppRows \cup {Nothing}
          /\ seen[w].row \in BalanceRows \cup {Nothing}
    /\ calm \in BOOLEAN

\* Leave is added up by its half-days, numbered within each application; none
\* has more than the year.
HalfDays      == 1..(2 * LastDate)
HalfDaysOf(S) == {x \in S \X HalfDays : x[2] <= apps[x[1]].days}
ApprovedDays  == Cardinality(HalfDaysOf(Approved))

\* Lost updates of the balance row are never partial: when deductions, credits,
\* approvals and overrides overwrite each other, used and remaining days never
\* both come out too low, because every writer derives both from the one row it
\* read.  (Too high is possible: the remaining balance is capped at 0 when an
\* approval-free leave overdraws it.)
RowAgrees == row.used + row.balance >= Annual

\* What an approval-free leave still has to take from the row, and what a
\* cancellation still owes it.
ToTake   == {x \in Workers \X HalfDays : /\ pc[x[1]] \in {"readForDeduct", "writeDeduct"}
                                         /\ x[2] <= job[x[1]].request.days}
ToReturn == {x \in Workers \X HalfDays : /\ pc[x[1]] \in {"readForCredit", "writeCredit"}
                                         /\ x[2] <= seen[x[1]].app.days}

\* As long as requests come one at a time, none fails half-way and an override
\* refunds what its leave still had, the days used are the days approved,
\* through every mix of applications, edits, cancellations, approvals, and
\* overrides that split a leave.
SerialExact ==
    calm => row.used + Cardinality(ToTake) = ApprovedDays + Cardinality(ToReturn)

\* The comment of applyLeave promises, on top of the overlap check, a sweep
\* after the insert "to abort duplicates that slipped through the race window":
\* no two of the employee's live leaves would cover the same half-day.
NoOverlap ==
    \A i, k \in Ids : Live(i) /\ Live(k) /\ i # k => ~Overlap(apps[i], apps[k])

\* They do not as long as requests come one at a time, through edits and
\* splits too.
SerialNoOverlap == calm => NoOverlap

\* The comment of cancelLeave on the attendance rows it deletes: "there are no
\* real punches in this window to clobber".
PunchesKept == \A d \in Dates : attendance[d].punched => attendance'[d].punched
PunchesSurvive == [][PunchesKept]_vars

\* checkLeaveBalanceIntegrity: "leave_balances.total_used should match SUM of
\* approved leave_applications days".
UsedMatchesApproved ==
    (\A w \in Workers : pc[w] = "idle") => row.used = ApprovedDays

\* deductBalance: "The deduction is applied to the period containing
\* applicationStartDate".
PeriodUsageKept ==
    (\A w \in Workers : pc[w] = "idle") /\ row.period = Period(today) =>
        row.periodUsed =
            Cardinality(HalfDaysOf({i \in Approved : InPeriodOf(apps[i].first)}))
=============================================================================
