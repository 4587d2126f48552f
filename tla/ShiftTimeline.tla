--------------------------- MODULE ShiftTimeline ---------------------------
(***************************************************************************)
(* The shift_assignments rows of an organization and the routines of       *)
(* shift.service.ts that change them: assignShift and bulkAssignShifts     *)
(* (with reconcileOverlappingAssignments), updateShiftAssignment,          *)
(* deleteShiftAssignment, the swap requests, and the shift change of       *)
(* employee-profile.service.ts.                                            *)
(*                                                                         *)
(* Only the sub-range update and the swap run in a transaction, and both   *)
(* write what was read before it began.  Every other statement stands on   *)
(* its own: other requests run in between, and a failure leaves the ones   *)
(* before it done.                                                         *)
(*                                                                         *)
(* What the routines write last, the shift and the late minutes of         *)
(* attendance records already there, is no part of the timeline and left   *)
(* out.                                                                    *)
(*                                                                         *)
(* Days are 1 .. Horizon; the last one stands for itself and all that      *)
(* follow, so that a row whose effective_to is NULL ends at Horizon.       *)
(***************************************************************************)
EXTENDS Integers, FiniteSets, Functions

CONSTANTS
    Workers,      \* requests in flight at a time
    Users, Shifts,
    Off,          \* the shift of a day that no row covers
    Horizon,      \* bound: the days modelled
    Today,        \* the day on which profiles are edited
    EntryPoints,  \* the routines exercised
    MaxRequests   \* bound: requests ever made

Routines == {"assign", "bulk", "update", "delete", "swap", "profile"}

ASSUME FiniteSetsOK == IsFiniteSet(Users) /\ IsFiniteSet(Shifts)
ASSUME OffOK        == Off \notin Shifts
ASSUME DaysOK       == Horizon \in Nat \ {0} /\ Today \in 2 .. Horizon - 1
ASSUME EntryPointsOK == EntryPoints \subseteq Routines /\ MaxRequests \in Nat

VARIABLES
    rows,      \* shift_assignments
    nextId,    \* its AUTO_INCREMENT; created_at grows with it
    swap,      \* the row of shift_swap_requests; bound: one at a time
    job,       \* what each request has read and has still to write
    requests,  \* bound: requests so far
    before,    \* history: what each user's days showed when the change that
               \*          is being made to them began
    kept       \* history: the users whose rows were only changed by one request
               \*          at a time that had its dates in order, named them once
               \*          and moved no row beyond its days

vars == <<rows, nextId, swap, job, requests, before, kept>>

-----------------------------------------------------------------------------
Days      == 1 .. Horizon
AnyWindow == [from : Days, to : Days]
Windows   == {w \in AnyWindow : w.from <= w.to}
Row       == [id : Nat, user : Users, shift : Shifts, from : Nat, to : Nat]

NoSwap == [status |-> "none", a |-> 0, b |-> 0]
NoJob  == [kind |-> "idle"]

Covers(r, d) == r.from <= d /\ d <= r.to

\* getSchedule and getMySchedule: of the rows that cover a day, the one created
\* last is shown.
ShownShift(rs, u, d) ==
    LET here == {r \in rs : r.user = u /\ Covers(r, d)} IN
    IF here = {} THEN Off
    ELSE (CHOOSE r \in here : \A q \in here : q.id <= r.id).shift

Shown(rs, u) == [d \in Days |-> ShownShift(rs, u, d)]

\* The reconciliation of one row with the window a new assignment takes, by
\* what becomes of the row: the four overlaps of the code.
Overlaps(r, w) == r.to >= w.from /\ r.from <= w.to
StartsBefore(r, w) == r.from < w.from
EndsAfter(r, w)    == r.to > w.to

\* Variant: rows that start inside the window are left alone.
SupersededNever(rs, w) == {}

Superseded(rs, w) == {r \in rs : Overlaps(r, w) /\ ~StartsBefore(r, w)
                                                /\ ~EndsAfter(r, w)}
Closed(rs, w)     == {r \in rs : Overlaps(r, w) /\ StartsBefore(r, w)}
Trimmed(rs, w)    == {r \in rs : Overlaps(r, w) /\ ~StartsBefore(r, w)
                                                /\ EndsAfter(r, w)}
Tails(rs, w)      == {[r EXCEPT !.from = w.to + 1] :
                        r \in {q \in Closed(rs, w) : EndsAfter(q, w)}}

-----------------------------------------------------------------------------
\* The users a request in flight is about.
Concerned(w) == IF job[w] = NoJob THEN {} ELSE job[w].users

\* The users two requests would be about at the same time.
Clash(us) == us \cap UNION {Concerned(w) : w \in Workers}

\* They are no longer kept, nor is the other side of a swap being approved.
Partners(us) == UNION {Concerned(w) : w \in {v \in Workers :
                          job[v].kind = "approve" /\ Concerned(v) \cap us # {}}}
StillKept(us) == kept \ (us \cup Partners(us))

\* Bound: nothing more is asked once there is no promise left to break.
Ask(kind) == /\ kind \in EntryPoints
             /\ requests < MaxRequests /\ kept # {}
             /\ requests' = requests + 1

Begins(w, us, j) ==
    /\ job[w] = NoJob
    /\ job' = [job EXCEPT ![w] = j]
    /\ before' = [u \in Users |-> IF u \in us THEN Shown(rows, u) ELSE before[u]]

Ends(w) == job' = [job EXCEPT ![w] = NoJob]

\* Variant: an INSERT of several rows takes one id.
InsertUnderOneId(rs, new) ==
    /\ rows' = rs \cup {[r EXCEPT !.id = nextId] : r \in new}
    /\ nextId' = nextId + 1

\* One INSERT statement; the order of its rows is the caller's.
Insert(rs, new) ==
    /\ \E order \in Bijection(1 .. Cardinality(new), new) :
          rows' = rs \cup {[order[i] EXCEPT !.id = nextId + i - 1] :
                             i \in DOMAIN order}
    /\ nextId' = nextId + Cardinality(new)

\* The foreign key: swap requests go with the assignments they name.
Cascade(gone) == swap' = IF {swap.a, swap.b} \cap {r.id : r \in gone} = {}
                           THEN swap ELSE NoSwap

\* Everybody has the open-ended row of an earlier bulkAssignShifts; for one of
\* them an update may have put another shift on one day since, and they
\* may have asked to swap that day for another employee's row.
Init ==
    /\ \E order \in Bijection(1 .. Cardinality(Users), Users), s, t \in Shifts,
          overridden \in 0 .. 1 :
          rows = UNION {
            LET r == [id |-> i, user |-> order[i], shift |-> s,
                      from |-> 1, to |-> Horizon]
            IN IF i # overridden THEN {r}
               ELSE {[r EXCEPT !.shift = t, !.from = Today, !.to = Today],
                     [r EXCEPT !.id = Cardinality(Users) + 1, !.to = Today - 1],
                     [r EXCEPT !.id = Cardinality(Users) + 2, !.from = Today + 1]}
            : i \in DOMAIN order}
    /\ nextId = Cardinality(Users) + 3
    /\ swap \in {NoSwap} \cup
         UNION {{[status |-> "pending", a |-> r.id, b |-> q.id] :
                   q \in {x \in rows : x.user # r.user}} :
                 r \in {x \in rows : x.from = Today /\ x.to = Today}}
    /\ job = [w \in Workers |-> NoJob]
    /\ requests = 0
    /\ before = [u \in Users |-> [d \in Days |-> Off]]
    /\ kept = Users

-----------------------------------------------------------------------------
(***************************************************************************)
(* assignShift for one user, bulkAssignShifts for several: a SELECT of     *)
(* their rows, the statements of the reconciliation, the INSERT.  Nothing  *)
(* refuses a window whose ends are the wrong way round, nor a list that    *)
(* names a user again; bound: once again.                                  *)
(***************************************************************************)
BeginAssign(w, us, again, s, win) ==
    LET theirs == {r \in rows : r.user \in us} IN
    /\ Ask(IF Cardinality(us) = 1 /\ again = {} THEN "assign" ELSE "bulk")
    /\ Begins(w, us,
         [kind |-> "assign", users |-> us, again |-> again, shift |-> s, win |-> win,
          delete |-> Superseded(theirs, win), close |-> Closed(theirs, win),
          trim   |-> Trimmed(theirs, win),    tails |-> Tails(theirs, win)])
    /\ kept' = StillKept(Clash(us) \cup IF win \in Windows THEN again ELSE us)
    /\ UNCHANGED <<rows, nextId, swap>>

Assigning(w) == job[w].kind = "assign"

DeleteSuperseded(w) ==
    LET gone == {r \in rows : \E q \in job[w].delete : q.id = r.id} IN
    /\ Assigning(w) /\ job[w].delete # {}
    /\ rows' = rows \ gone
    /\ Cascade(gone)
    /\ job' = [job EXCEPT ![w].delete = {}]
    /\ UNCHANGED <<nextId, requests, before, kept>>

\* UPDATE ... WHERE id: nothing if the row is gone, whatever it is by now.
SetById(id, f(_)) == rows' = {IF r.id = id THEN f(r) ELSE r : r \in rows}

CloseOne(w) ==
    /\ Assigning(w) /\ job[w].delete = {}
    /\ \E q \in job[w].close :
          /\ SetById(q.id, LAMBDA r : [r EXCEPT !.to = job[w].win.from - 1])
          /\ job' = [job EXCEPT ![w].close = @ \ {q}]
    /\ UNCHANGED <<nextId, swap, requests, before, kept>>

TrimOne(w) ==
    /\ Assigning(w) /\ job[w].delete \cup job[w].close = {}
    /\ \E q \in job[w].trim :
          /\ SetById(q.id, LAMBDA r : [r EXCEPT !.from = job[w].win.to + 1])
          /\ job' = [job EXCEPT ![w].trim = @ \ {q}]
    /\ UNCHANGED <<nextId, swap, requests, before, kept>>

Cut(w) == job[w].delete \cup job[w].close \cup job[w].trim = {}

InsertTails(w) ==
    /\ Assigning(w) /\ Cut(w) /\ job[w].tails # {}
    /\ Insert(rows, job[w].tails)
    /\ job' = [job EXCEPT ![w].tails = {}]
    /\ UNCHANGED <<swap, requests, before, kept>>

\* The row of each user who is named an n-th time.
Fresh(us, n, s, win) ==
    {[id |-> n, user |-> u, shift |-> s, from |-> win.from, to |-> win.to] : u \in us}

InsertAssignments(w) ==
    LET j == job[w] IN
    /\ Assigning(w) /\ Cut(w) /\ j.tails = {}
    /\ Insert(rows, Fresh(j.users, 0, j.shift, j.win)
                       \cup Fresh(j.again, 1, j.shift, j.win))
    /\ Ends(w)
    /\ UNCHANGED <<swap, requests, before, kept>>

-----------------------------------------------------------------------------
(***************************************************************************)
(* updateShiftAssignment.  A window that shrinks on either side leaves the *)
(* old shift on what it gives up, in one transaction with the update; the  *)
(* tails are made of the row as it was read.                               *)
(***************************************************************************)
\* A request may give one date and keep the other of the row, which may turn
\* the window round; nothing refuses that.
BeginUpdate(w, r, s, win) ==
    /\ Ask("update")
    /\ win \in Windows \/ win.from = r.from \/ win.to = r.to
    /\ Begins(w, {r.user}, [kind |-> "update", users |-> {r.user}, row |-> r,
                            shift |-> s, win |-> win])
    /\ kept' = StillKept(IF win \in Windows /\ r.from <= win.from /\ win.to <= r.to
                           THEN Clash({r.user}) ELSE {r.user})
    /\ UNCHANGED <<rows, nextId, swap>>

\* Variant: the days after the new window are given up with it.
OldTailsLeftOnly(r, win) ==
    {[r EXCEPT !.to = win.from - 1] : q \in {x \in {r} : win.from > x.from}}

OldTails(r, win) ==
    {[r EXCEPT !.to = win.from - 1] : q \in {x \in {r} : win.from > x.from}}
      \cup {[r EXCEPT !.from = win.to + 1] : q \in {x \in {r} : win.to < x.to}}

UpdateAssignment(w) ==
    LET j == job[w] IN
    /\ j.kind = "update"
    /\ Insert({IF r.id = j.row.id
                 THEN [r EXCEPT !.shift = j.shift, !.from = j.win.from,
                                !.to = j.win.to]
                 ELSE r : r \in rows},
              OldTails(j.row, j.win))
    /\ Ends(w)
    /\ UNCHANGED <<swap, requests, before, kept>>

DeleteAssignment(r) ==
    /\ Ask("delete")
    /\ rows' = rows \ {r}
    /\ Cascade({r})
    /\ kept' = StillKept(Clash({r.user}))
    /\ UNCHANGED <<nextId, job, before>>

-----------------------------------------------------------------------------
(***************************************************************************)
(* Swap requests.                                                          *)
(***************************************************************************)
CreateSwap(a, b) ==
    /\ Ask("swap")
    /\ swap.status # "pending"
    /\ swap' = [status |-> "pending", a |-> a.id, b |-> b.id]
    /\ UNCHANGED <<rows, nextId, job, before, kept>>

\* approveSwapRequest, to the end of its three reads.
BeginApprove(w) ==
    /\ Ask("swap")
    /\ swap.status = "pending"
    /\ \E a, b \in rows :
          /\ a.id = swap.a /\ b.id = swap.b
          /\ Begins(w, {a.user, b.user},
                    [kind |-> "approve", users |-> {a.user, b.user},
                     a |-> a, b |-> b])
          /\ kept' = StillKept(IF a.user # b.user
                                    /\ {a.user, b.user} \subseteq kept
                                    /\ Clash({a.user, b.user}) = {}
                                 THEN {} ELSE {a.user, b.user})
    /\ UNCHANGED <<rows, nextId, swap>>

\* Variant: the second row is given the shift the first one has by then.
ApproveSwapInOrder(w) ==
    LET j == job[w] IN
    /\ j.kind = "approve"
    /\ rows' = {IF r.id \in {j.a.id, j.b.id} THEN [r EXCEPT !.shift = j.a.shift]
                ELSE r : r \in rows}
    /\ swap' = IF swap.status = "none" THEN swap
               ELSE [swap EXCEPT !.status = "approved"]
    /\ Ends(w)
    /\ UNCHANGED <<nextId, requests, before, kept>>

\* The transaction: each row gets the shift the other had when it was read.
ApproveSwap(w) ==
    LET j == job[w] IN
    /\ j.kind = "approve"
    /\ rows' = {IF r.id = j.b.id THEN [r EXCEPT !.shift = j.a.shift]
                ELSE IF r.id = j.a.id THEN [r EXCEPT !.shift = j.b.shift]
                ELSE r : r \in rows}
    /\ swap' = IF swap.status = "none" THEN swap
               ELSE [swap EXCEPT !.status = "approved"]
    /\ Ends(w)
    /\ UNCHANGED <<nextId, requests, before, kept>>

\* The status is checked in one statement and written in the next.
BeginReject(w) ==
    /\ Ask("swap")
    /\ swap.status = "pending"
    /\ Begins(w, {}, [kind |-> "reject", users |-> {}])
    /\ UNCHANGED <<rows, nextId, swap, kept>>

RejectSwap(w) ==
    /\ job[w].kind = "reject"
    /\ swap' = IF swap.status = "none" THEN swap
               ELSE [swap EXCEPT !.status = "rejected"]
    /\ Ends(w)
    /\ UNCHANGED <<rows, nextId, requests, before, kept>>

-----------------------------------------------------------------------------
(***************************************************************************)
(* The shift field of an employee's profile: the open rows end today and   *)
(* the new one, if a shift was picked, starts today.                       *)
(***************************************************************************)
EndOpenRows(w, u, s) ==
    /\ Ask("profile")
    /\ rows' = {IF r.user = u /\ r.to = Horizon THEN [r EXCEPT !.to = Today]
                ELSE r : r \in rows}
    /\ Begins(w, {}, IF s = Off THEN NoJob
                     ELSE [kind |-> "profile", users |-> {u}, shift |-> s])
    /\ kept' = StillKept({u})
    /\ UNCHANGED <<nextId, swap>>

StartToday(w) ==
    /\ job[w].kind = "profile"
    /\ Insert(rows, Fresh(job[w].users, 0, job[w].shift,
                          [from |-> Today, to |-> Horizon]))
    /\ Ends(w)
    /\ UNCHANGED <<swap, requests, before, kept>>

\* A statement fails; a transaction leaves nothing behind.
Fail(w) ==
    /\ job[w] # NoJob
    /\ Ends(w)
    /\ UNCHANGED <<rows, nextId, swap, requests, before, kept>>

-----------------------------------------------------------------------------
Begin(w) ==
    \/ \E us \in SUBSET Users \ {{}}, s \in Shifts, win \in AnyWindow :
          \E again \in SUBSET us : BeginAssign(w, us, again, s, win)
    \/ \E r \in rows, s \in Shifts, win \in AnyWindow : BeginUpdate(w, r, s, win)
    \/ BeginApprove(w) \/ BeginReject(w)
    \/ \E u \in Users, s \in Shifts \cup {Off} : EndOpenRows(w, u, s)

Step(w) ==
    \/ DeleteSuperseded(w) \/ CloseOne(w) \/ TrimOne(w) \/ InsertTails(w)
    \/ InsertAssignments(w)
    \/ UpdateAssignment(w)
    \/ ApproveSwap(w) \/ RejectSwap(w)
    \/ StartToday(w)

Next ==
    \/ \E w \in Workers : Begin(w) \/ Step(w) \/ Fail(w)
    \/ \E r \in rows : DeleteAssignment(r)
    \/ \E a, b \in rows : CreateSwap(a, b)

Spec == Init /\ [][Next]_vars

-----------------------------------------------------------------------------
TypeOK ==
    /\ rows \subseteq Row
    /\ nextId \in Nat /\ \A r \in rows : r.id < nextId
    /\ \A r, q \in rows : r.id = q.id => r = q
    /\ swap \in [status : {"none", "pending", "approved", "rejected"},
                 a : Nat, b : Nat]
    /\ kept \subseteq Users

\* The timeline of a kept user is "clean, NON-OVERLAPPING": no row is turned
\* round and no day has two, so the schedule (the row created last) and the
\* check-in (the row that starts last) read the same shift.
CleanTimeline ==
    \A r, q \in {x \in rows : x.user \in kept} :
        /\ r.from <= r.to
        /\ r.user = q.user /\ r # q => r.to < q.from \/ q.to < r.from

\* Rows whose effective_to is before their effective_from are an "artifact of
\* an older sub-range split bug", as if no request made one.
NoInvertedRow == \A r \in rows : r.from <= r.to

-----------------------------------------------------------------------------
(***************************************************************************)
(* The refinement of Roster.                                               *)
(***************************************************************************)
Changing(u) == {w \in Workers : job[w] # NoJob /\ u \in job[w].users
                                  /\ job[w].kind \in {"assign", "update"}}

Open(u) == u \in kept /\ Changing(u) # {}
Blank   == [d \in Days |-> Off]

\* What the user's days show, and the change that is being made to them.
Seen(u) == IF u \in kept THEN Shown(rows, u) ELSE Blank

Pending(u) ==
    IF Open(u)
      THEN LET j == job[CHOOSE w \in Changing(u) : TRUE] IN
           [before |-> before[u], open |-> TRUE,
            after  |-> [d \in Days |-> IF d \in j.win.from .. j.win.to THEN j.shift
                                       ELSE before[u][d]]]
      ELSE [before |-> Blank, open |-> FALSE, after |-> Blank]

R == INSTANCE Roster WITH
       roster  <- [u \in Users |-> Seen(u)],
       pending <- [u \in Users |-> Pending(u)]

\* Every change shows exactly where it was asked for, for every kept user.
ImplementsRoster == R!Spec
=============================================================================
