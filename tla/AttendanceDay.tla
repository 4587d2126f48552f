---------------------------- MODULE AttendanceDay ----------------------------
(***************************************************************************)
(* The attendance of one employee: the records of some days and the        *)
(* punches they hold (recordPunch of attendance.service.ts), the marks HR  *)
(* sets in the grid (updateAttendanceCell, away from leave) and the        *)
(* requests to regularize a day (regularization.service.ts).               *)
(*                                                                         *)
(* A record shows a check-in and a check-out.  A punch recomputes both     *)
(* from the punches of its record, a regularization writes those it asks   *)
(* for, and neither looks at what the other wrote.  Only the approval of a *)
(* regularization runs in a transaction, and it decides on what was read   *)
(* before.  Every other statement stands on its own.                       *)
(*                                                                         *)
(* Late, early, overtime and worked minutes are left out, and with them    *)
(* what a change of shift recomputes.                                      *)
(*                                                                         *)
(* Time is a count of instants, each of some day.  0 is NULL.              *)
(***************************************************************************)
EXTENDS Integers, Sequences

CONSTANTS
    Workers,      \* requests in flight at a time
    LastDay,      \* bound: the days modelled
    LastInstant,  \* bound: the instants modelled
    Date,         \* the day of an instant
    DayLength,    \* 24 hours
    Window,       \* how long the record of a shift stays open
    NightLength,  \* how long a night shift takes
    MaxRequests   \* bound: requests ever made

ASSUME LastOK   == {LastDay, LastInstant} \subseteq Nat \ {0}
ASSUME DateOK   == /\ Date \in [1 .. LastInstant -> 1 .. LastDay]
                   /\ \A t, u \in 1 .. LastInstant : t <= u => Date[t] <= Date[u]
ASSUME WindowOK == /\ {DayLength, Window, NightLength} \subseteq Nat
                   /\ Window >= DayLength
ASSUME BoundOK  == MaxRequests \in Nat

VARIABLES
    now,
    overnight,  \* whether the employee's shift crosses midnight
    rows,       \* attendance_records by day, with their attendance_punches
    nextId,     \* its AUTO_INCREMENT
    regs,       \* attendance_regularizations, by id
    job,        \* what each request has read and has still to write
    requests,   \* bound: requests so far
    alone       \* history: since nobody was last at work, at most one was

vars == <<now, overnight, rows, nextId, regs, job, requests, alone>>

-----------------------------------------------------------------------------
Days     == 1 .. LastDay
Instants == 1 .. LastInstant
Times    == Instants \cup {0}

\* A record: its times, its status, whether it names a shift, and how many
\* punches it holds of each instant.
NoPunch == [t \in Instants |-> 0]
NoRow   == [id |-> 0, in |-> 0, out |-> 0, status |-> "none", shift |-> FALSE,
            punches |-> NoPunch]
Row     == [id : Nat, in : Times, out : Times,
            status : {"none", "checked_in", "scored", "present", "marked"},
            shift : BOOLEAN, punches : [Instants -> Nat]]

NoJob == [kind |-> "idle"]
Idle  == \A w \in Workers : job[w] = NoJob

\* The day of the record that has this id, as a set.
DayOf(id) == {d \in Days : id # 0 /\ rows[d].id = id}

Punched(r)  == {t \in Instants : r.punches[t] > 0}
Several(r)  == \E t \in Punched(r) : r.punches[t] > 1 \/ Punched(r) # {t}

\* check_in and check_out, "derived: check_in = first punch of the day, check_out
\* = latest punch of the day", if there is more than one.
Derived(times, r) ==
    /\ times.in \in Punched(r) /\ \A t \in Punched(r) : times.in <= t
    /\ IF Several(r) THEN times.out \in Punched(r) /\ \A t \in Punched(r) : t <= times.out
       ELSE times.out = 0

-----------------------------------------------------------------------------
Ask        == requests < MaxRequests /\ requests' = requests + 1
Begins(w, j) == /\ job[w] = NoJob
                /\ job' = [job EXCEPT ![w] = j]
                /\ alone' = Idle
Goes(w, j) == job' = [job EXCEPT ![w] = j]
Ends(w)    == Goes(w, NoJob)

\* Variant: the id of a record is not taken.
InsertUnderOneId(d, r) ==
    /\ rows[d] = NoRow
    /\ rows' = [rows EXCEPT ![d] = [r EXCEPT !.id = nextId]]
    /\ nextId' = nextId

\* One record per employee and day: a unique key.
Insert(d, r) == /\ rows[d] = NoRow
                /\ rows' = [rows EXCEPT ![d] = [r EXCEPT !.id = nextId]]
                /\ nextId' = nextId + 1


Init ==
    /\ now = 1
    /\ overnight \in BOOLEAN
    /\ rows = [d \in Days |-> NoRow]
    /\ nextId = 1
    /\ regs = <<>>
    /\ job = [w \in Workers |-> NoJob]
    /\ requests = 0
    /\ alone = TRUE

-----------------------------------------------------------------------------
(***************************************************************************)
(* recordPunch.                                                            *)
(***************************************************************************)
\* findActiveAttendanceRecord: the open record with the latest check-in, unless
\* that is too long ago or, without a night shift, of an earlier day.
Unclosed == {d \in Days : rows[d].in # 0 /\ rows[d].out = 0}

\* Variant: the age of the check-in is all that counts.
StillActiveByAge(d) ==
    now - rows[d].in <= IF rows[d].shift THEN Window ELSE DayLength

StillActive(d) ==
    /\ d >= Date[now] \/ (overnight /\ rows[d].shift)
    /\ now - rows[d].in <= IF rows[d].shift THEN Window ELSE DayLength

Active == {d \in Unclosed : /\ \A e \in Unclosed : rows[e].in <= rows[d].in
                            /\ StillActive(d)}

\* The record a punch goes to: the active one, or else today's.
BeginPunch(w) ==
    /\ Ask
    /\ \/ \E d \in Active :
             Begins(w, [kind |-> "punch", id |-> rows[d].id, at |-> now])
       \/ /\ Active = {}
          /\ rows[Date[now]] # NoRow
          /\ Begins(w, [kind |-> "punch", id |-> rows[Date[now]].id, at |-> now])
       \/ /\ Active = {}
          /\ rows[Date[now]] = NoRow
          /\ Begins(w, [kind |-> "open", at |-> now])
    /\ UNCHANGED <<now, overnight, rows, nextId, regs>>

\* The INSERT fails if somebody else's came first: see Fail.
OpenDay(w) ==
    LET t == job[w].at IN
    /\ job[w].kind = "open"
    /\ Insert(Date[t], [NoRow EXCEPT !.in = t, !.status = "checked_in",
                                     !.shift = TRUE])
    /\ Goes(w, [kind |-> "punch", id |-> nextId, at |-> t])
    /\ UNCHANGED <<now, overnight, regs, requests, alone>>

Punch(w) ==
    LET j == job[w] IN
    /\ j.kind = "punch"
    /\ \E d \in DayOf(j.id) :
          rows' = [rows EXCEPT ![d].punches[j.at] = @ + 1]
    /\ Goes(w, [kind |-> "score", id |-> j.id])
    /\ UNCHANGED <<now, overnight, nextId, regs, requests, alone>>

ReadPunches(w) ==
    LET j == job[w] IN
    /\ j.kind = "score"
    /\ \E d \in DayOf(j.id), times \in [in : Instants, out : Times] :
          /\ Derived(times, rows[d])
          /\ Goes(w, [kind |-> "write", id |-> j.id, times |-> times])
    /\ UNCHANGED <<now, overnight, rows, nextId, regs, requests, alone>>

\* Variant: a check-in that is set is "locked".
ScoredKeepingCheckIn(r, times) ==
    [r EXCEPT !.in  = IF @ = 0 THEN times.in ELSE @, !.out = times.out,
              !.status = IF times.out = 0 THEN "checked_in" ELSE "scored",
              !.shift = TRUE]

\* present, half_day or absent by the minutes between the two.
Scored(r, times) ==
    [r EXCEPT !.in  = times.in, !.out = times.out,
              !.status = IF times.out = 0 THEN "checked_in" ELSE "scored",
              !.shift = TRUE]

WriteTimes(w) ==
    LET j == job[w] IN
    /\ j.kind = "write"
    /\ rows' = [d \in Days |-> IF d \in DayOf(j.id) THEN Scored(rows[d], j.times)
                               ELSE rows[d]]
    /\ Ends(w)
    /\ UNCHANGED <<now, overnight, nextId, regs, requests, alone>>

-----------------------------------------------------------------------------
(***************************************************************************)
(* Regularization requests.                                                *)
(***************************************************************************)
\* createRegularizationSchema: the day is not in the future.  It also compares
\* the texts of the two times, but each is converted by itself afterwards: a time
\* of that day, a date and time of any day, with or without a zone; what cannot
\* be read, "9:00" say, is NULL.  Texts of different shapes pass in either order,
\* and where clocks change even alike ones may.  So any two times can be asked.
Asked(d) == d <= Date[now]

BeginSubmit(w, d, in, out) ==
    /\ Ask /\ Asked(d)
    /\ Begins(w, [kind |-> "submit", day |-> d, in |-> in, out |-> out,
                  link |-> rows[d].id])
    /\ UNCHANGED <<now, overnight, rows, nextId, regs>>

\* attendance_id is a foreign key.
Submit(w) ==
    LET j == job[w] IN
    /\ j.kind = "submit"
    /\ j.link # 0 => DayOf(j.link) # {}
    /\ regs' = Append(regs, [status |-> "pending", day |-> j.day, in |-> j.in,
                             out |-> j.out, link |-> j.link])
    /\ Ends(w)
    /\ UNCHANGED <<now, overnight, rows, nextId, requests, alone>>

\* The approval, the rejection or the withdrawal of a request found pending.
BeginDecide(w, i, verdict) ==
    /\ Ask
    /\ i \in DOMAIN regs /\ regs[i].status = "pending"
    /\ Begins(w, [kind |-> verdict, reg |-> i, link |-> regs[i].link])
    /\ UNCHANGED <<now, overnight, rows, nextId, regs>>

\* A request that has been withdrawn has no row left to decide.
Decided(i, verdict, link) ==
    [regs EXCEPT ![i].status = IF @ = "withdrawn" THEN @ ELSE verdict,
                 ![i].link   = link]

\* Variant: a time that is there stays.
RegularizedIfMissing(r, reg) ==
    [r EXCEPT !.in  = IF @ # 0 THEN @ ELSE reg.in,
              !.out = IF @ # 0 THEN @ ELSE reg.out,
              !.status = "present"]

\* What an approval makes of the record it finds: the times asked for.
Regularized(r, reg) ==
    [r EXCEPT !.in  = IF reg.in = 0 THEN @ ELSE reg.in,
              !.out = IF reg.out = 0 THEN @ ELSE reg.out,
              !.status = "present"]

\* The record an unlinked request is about, looked up again.
LookedUp(reg) == {d \in {reg.day} : rows[d] # NoRow}

Approve(w) ==
    LET i   == job[w].reg
        reg == regs[i]
        on  == IF job[w].link # 0 THEN DayOf(job[w].link) ELSE LookedUp(reg) IN
    /\ job[w].kind = "approved"
    /\ \/ /\ job[w].link # 0 \/ on # {}
          /\ rows' = [d \in Days |-> IF d \in on THEN Regularized(rows[d], reg)
                                     ELSE rows[d]]
          /\ regs' = Decided(i, "approved",
                             IF job[w].link # 0 \/ reg.status = "withdrawn"
                               THEN reg.link ELSE rows[reg.day].id)
          /\ UNCHANGED nextId
       \/ /\ job[w].link = 0 /\ on = {}
          /\ Insert(reg.day, Regularized(NoRow, reg))
          /\ regs' = Decided(i, "approved", reg.link)
    /\ Ends(w)
    /\ UNCHANGED <<now, overnight, requests, alone>>

\* Rejection and withdrawal write the row by id, whatever it says by now.
Close(w) ==
    /\ job[w].kind \in {"rejected", "withdrawn"}
    /\ regs' = Decided(job[w].reg, job[w].kind, regs[job[w].reg].link)
    /\ Ends(w)
    /\ UNCHANGED <<now, overnight, rows, nextId, requests, alone>>

-----------------------------------------------------------------------------
(***************************************************************************)
(* updateAttendanceCell on a day without leave.                            *)
(***************************************************************************)
BeginMark(w, d) ==
    /\ Ask
    /\ Begins(w, [kind |-> "mark", day |-> d, id |-> rows[d].id])
    /\ UNCHANGED <<now, overnight, rows, nextId, regs>>

Mark(w) ==
    LET j == job[w] IN
    /\ j.kind = "mark"
    /\ \/ /\ j.id # 0
          /\ rows' = [d \in Days |-> IF d \in DayOf(j.id)
                                       THEN [rows[d] EXCEPT !.status = "marked"]
                                       ELSE rows[d]]
          /\ UNCHANGED nextId
       \/ /\ j.id = 0
          /\ Insert(j.day, [NoRow EXCEPT !.status = "marked"])
    /\ Ends(w)
    /\ UNCHANGED <<now, overnight, regs, requests, alone>>

\* The DELETE takes the punches with it and unlinks the requests.
Reset(d) ==
    /\ Ask
    /\ rows[d] # NoRow
    /\ rows' = [rows EXCEPT ![d] = NoRow]
    /\ regs' = [i \in DOMAIN regs |->
                 IF regs[i].link = rows[d].id THEN [regs[i] EXCEPT !.link = 0]
                 ELSE regs[i]]
    /\ alone' = Idle
    /\ UNCHANGED <<now, overnight, nextId, job>>

\* A statement fails, and what was done before it stays.
Fail(w) ==
    /\ job[w] # NoJob
    /\ Ends(w)
    /\ UNCHANGED <<now, overnight, rows, nextId, regs, requests, alone>>

Tick ==
    /\ now + 1 \in Instants
    /\ now' = now + 1
    /\ UNCHANGED <<overnight, rows, nextId, regs, job, requests, alone>>

-----------------------------------------------------------------------------
Begin(w) ==
    \/ BeginPunch(w)
    \/ \E d \in Days, in, out \in Times : BeginSubmit(w, d, in, out)
    \/ \E i \in 1 .. MaxRequests, verdict \in {"approved", "rejected", "withdrawn"} :
          BeginDecide(w, i, verdict)
    \/ \E d \in Days : BeginMark(w, d)

Step(w) ==
    \/ OpenDay(w) \/ Punch(w) \/ ReadPunches(w) \/ WriteTimes(w)
    \/ Submit(w) \/ Approve(w) \/ Close(w)
    \/ Mark(w)

Next ==
    \/ \E w \in Workers : Begin(w) \/ Step(w) \/ Fail(w)
    \/ \E d \in Days : Reset(d)
    \/ Tick

Spec == Init /\ [][Next]_vars

-----------------------------------------------------------------------------
Reg == [status : {"pending", "approved", "rejected", "withdrawn"},
        day : Days, in : Times, out : Times, link : Nat]

TypeOK ==
    /\ now \in Instants /\ overnight \in BOOLEAN /\ alone \in BOOLEAN
    /\ rows \in [Days -> Row] /\ nextId \in Nat \ {0}
    /\ \A d \in Days : rows[d].id < nextId /\ (rows[d].id = 0 => rows[d] = NoRow)
    /\ \A d, e \in Days : rows[d].id = rows[e].id /\ d # e => rows[d] = NoRow
    /\ regs \in Seq(Reg)
    /\ requests \in 0 .. MaxRequests

\* A punch of a shift that ends on its day is only ever in the record of that
\* day: tomorrow's check-in is never today's check-out, which had to be repaired
\* once ("a single attendance day can never span" it).
PunchesOnTheirDay ==
    ~overnight => \A d \in Days : \A t \in Punched(rows[d]) : Date[t] = d

\* No record ends before it starts, however punches, marks, resets and approvals
\* interleave, unless it was asked for so: the day had a request decided that
\* gives one time only, or its end before its start.
AskedSo(d) == \E i \in DOMAIN regs : /\ regs[i].day = d
                                     /\ regs[i].status # "pending"
                                     /\ regs[i].in = 0 \/ regs[i].out < regs[i].in

InOrder ==
    \A d \in Days : rows[d].out = 0 \/ rows[d].in <= rows[d].out \/ AskedSo(d)

\* Whatever races, failures and decisions left behind, a punch that nobody else
\* runs beside makes its record show all its punches again.
LonePunchSettles ==
    [][\A w \in Workers : WriteTimes(w) /\ alone
         => \A d \in DayOf(job[w].id) :
              Derived([in |-> rows'[d].in, out |-> rows'[d].out], rows[d])]_vars

\* An approval leaves the day with the times it was asked for, be it requested
\* before the record was made, or the record reset or made again since: only a
\* reset since the approval began is too late.
ApprovalShows ==
    [][\A w \in Workers :
         LET reg == regs[job[w].reg] IN
         Approve(w) /\ (job[w].link # 0 => DayOf(job[w].link) # {})
           => LET r == rows'[reg.day] IN
              /\ r.status = "present"
              /\ reg.in = 0 \/ r.in = reg.in
              /\ reg.out = 0 \/ r.out = reg.out]_vars

\* "Once approved/rejected the decision is part of the attendance record's
\* history."
DecisionStands ==
    [][\A i \in DOMAIN regs :
         regs[i].status \in {"approved", "rejected"}
           => regs'[i].status = regs[i].status]_vars

\* "Looking up by check-in freshness fixes that": no punch within the hours of a
\* night shift opens a second record at midnight.
NoPhantomRow ==
    [][\A w \in Workers, d \in Days :
         OpenDay(w) /\ overnight /\ rows[d].shift /\ rows[d].in # 0
           => job[w].at - rows[d].in > NightLength]_vars
=============================================================================
