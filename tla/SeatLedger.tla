----------------------------- MODULE SeatLedger -----------------------------
(***************************************************************************)
(* The seat ledger of one organization's subscription to one module: the   *)
(* org_subscriptions row (status, total_seats, used_seats), the            *)
(* org_module_seats rows, and the HTTP requests that work on them.         *)
(*                                                                         *)
(* No routine of subscription.service.ts or module-sync.service.ts opens a *)
(* transaction or locks a row: each SQL statement is atomic on its own and *)
(* any other request may run between two of them.  A request is therefore  *)
(* a worker that walks through the statements of its routine; what it read *)
(* earlier stays in seen[w] and is used later, however stale.              *)
(***************************************************************************)
EXTENDS Integers, FiniteSets

CONSTANTS
    Workers,      \* requests the Node server may have in flight at a time
    Users,        \* employees of the organization
    NoUser,       \* the user of a request that names none
    EntryPoints,  \* the routines exercised, and "deleteUser"
    Totals,       \* seat totals an administrator may buy
    MaxSeatRows   \* bound: seat rows ever inserted (auto-increment ids)

(***************************************************************************)
(* The routines, by the work they do.                                      *)
(***************************************************************************)
CappedGrants   == {"assign", "enable", "moduleAdded"}
UncappedGrants == {"biometric", "payroll"}
Grants         == CappedGrants \cup UncappedGrants
Revocations    == {"revoke", "disable", "moduleRemoved", "biometricRelease"}
Resizes        == {"update", "create"}
\* Reached only after the user's row has been read.
OfKnownUser    == {"moduleAdded", "moduleRemoved", "biometric", "payroll"}
Routines       == Grants \cup Revocations \cup Resizes \cup {"sync", "cancel"}

ASSUME WorkersFinite == IsFiniteSet(Workers) /\ Workers # {}
ASSUME UsersFinite   == IsFiniteSet(Users) /\ NoUser \notin Users
ASSUME EntryPointsOK == EntryPoints \subseteq Routines \cup {"deleteUser"}
ASSUME TotalsOK      == Totals \subseteq Nat \ {0}
ASSUME RowsOK        == MaxSeatRows \in Nat

VARIABLES
    status,       \* org_subscriptions.status; "none" while there is no row
    total_seats,
    used_seats,   \* the cached counter; a signed column
    seats,        \* seats[u]: id of u's org_module_seats row, 0 if none
    nextSeatId,   \* AUTO_INCREMENT of org_module_seats
    deleted,      \* the users whose row is gone
    seatless,     \* the module is one of SEATLESS_MODULE_SLUGS
    pc,           \* the next statement of each worker
    job,          \* the arguments of its request
    seen,         \* the values it has read so far
    peak,         \* history: the largest total_seats the row has held
    tainted,      \* history: the routines stopped running one after the other
    swept,        \* history: a cancellation swept the seats and no
                  \*          reactivation has happened since
    rowless       \* history: the users the counter counts and the rows do
                  \*          not: deleted with their seat since it was last
                  \*          set, or counted then in place of seat rows

rowVars  == <<status, total_seats, used_seats>>
seatVars == <<seats, nextSeatId, deleted, seatless>>
reqVars  == <<pc, job, seen>>
histVars == <<peak, tainted, swept, rowless>>
vars     == <<rowVars, seatVars, reqVars, histVars>>

-----------------------------------------------------------------------------
\* Live is what whereIn("status", ["active", "trial"]) accepts; "lapsed" stands
\* for past_due, suspended, deactivated and expired.
Live     == {"active", "trial"}
Settable == Live \cup {"lapsed", "cancelled"}
Statuses == Settable \cup {"none"}

Statements == {"findSub", "count", "countUsers", "exists", "grow", "insert",
               "increment", "findSeat", "delete", "decrement", "writeUsed",
               "findRow", "writeTotal", "writeCancelled", "sweep",
               "findForCreate", "insertRow", "reactivate"}

Jobs ==
    [kind : Grants \cup Revocations, user : Users, total : {0}]
      \cup [kind : Resizes, user : {NoUser}, total : Totals]
      \cup [kind : {"sync", "cancel"}, user : {NoUser}, total : {0}]

Readings == [status : Statuses, total : Nat, used : Int,
             count : Nat, seat : Nat]

NoJob   == [kind |-> "none", user |-> NoUser, total |-> 0]
Nothing == [status |-> "none", total |-> 0, used |-> 0, count |-> 0,
            seat |-> 0]

\* What updateSubscription keeps of the row it has read.
RowAsRead == [status |-> status, total |-> total_seats, used |-> 0,
              count |-> 0, seat |-> 0]

Seated  == {u \in Users : seats[u] # 0}
AllIdle == \A w \in Workers : pc[w] = "idle"
Larger(m, n) == IF m >= n THEN m ELSE n

(***************************************************************************)
(* Each routine as the order of its statements.  A statement that is not   *)
(* listed ends the routine.                                                *)
(***************************************************************************)
AssignSeat ==
    [start |-> "findSub", findSub |-> "count", count |-> "exists",
     exists |-> "insert", insert |-> "increment"]

EnableUserForModule ==
    [start |-> "findSub", findSub |-> "count", count |-> "exists",
     exists |-> "insert", insert |-> "increment"]

ModuleSeatAdded ==
    [start |-> "findSub", findSub |-> "exists", exists |-> "count",
     count |-> "insert", insert |-> "increment"]

EnsureBiometricSeat ==
    [start |-> "findSub", findSub |-> "exists", exists |-> "count",
     count |-> "insert", grow |-> "insert", insert |-> "increment"]

AutoAssignPayrollSeat ==
    [start |-> "findSub", findSub |-> "exists", exists |-> "insert",
     insert |-> "increment"]

RevokeSeat ==
    [start |-> "findSeat", findSeat |-> "delete", delete |-> "decrement"]

\* The DELETE call to the module's own API between the lookup and the row
\* deletion changes nothing here and cannot fail the routine.
DisableUserForModule ==
    [start |-> "findSeat", findSeat |-> "delete", delete |-> "decrement"]

ModuleSeatRemoved ==
    [start |-> "findSub", findSub |-> "findSeat", findSeat |-> "delete",
     delete |-> "decrement"]

ReleaseBiometricSeat ==
    [start |-> "findSub", findSub |-> "findSeat", findSeat |-> "delete",
     delete |-> "decrement"]

SyncUsedSeats ==
    [start |-> "findSub", findSub |-> "count", count |-> "writeUsed",
     countUsers |-> "writeUsed"]

UpdateSubscription == [start |-> "findRow", findRow |-> "writeTotal"]

CancelSubscription ==
    [start |-> "findRow", findRow |-> "writeCancelled",
     writeCancelled |-> "sweep"]

\* The SELECT sends a missing row to insertRow, a cancelled one to reactivate.
CreateSubscription == [start |-> "findForCreate"]

Routine ==
    [assign           |-> AssignSeat,
     enable           |-> EnableUserForModule,
     moduleAdded      |-> ModuleSeatAdded,
     biometric        |-> EnsureBiometricSeat,
     payroll          |-> AutoAssignPayrollSeat,
     revoke           |-> RevokeSeat,
     disable          |-> DisableUserForModule,
     moduleRemoved    |-> ModuleSeatRemoved,
     biometricRelease |-> ReleaseBiometricSeat,
     sync             |-> SyncUsedSeats,
     update           |-> UpdateSubscription,
     cancel           |-> CancelSubscription,
     create           |-> CreateSubscription]

After(w) == Routine[job[w].kind][pc[w]]

(***************************************************************************)
(* Moving a worker on: to its next statement with what it has read, or to  *)
(* the end of its routine (a result, an early return or a thrown error).   *)
(***************************************************************************)
Goto(w, statement, read) ==
    /\ pc' = [pc EXCEPT ![w] = statement]
    /\ seen' = [seen EXCEPT ![w] = read]
    /\ UNCHANGED job

Advance(w, read) == Goto(w, After(w), read)

Finish(w) ==
    /\ pc' = [pc EXCEPT ![w] = "idle"]
    /\ job' = [job EXCEPT ![w] = NoJob]
    /\ seen' = [seen EXCEPT ![w] = Nothing]

SetTotal(n) ==
    /\ total_seats' = n
    /\ peak' = Larger(peak, n)

SetStatus(s) ==
    /\ status' = s
    /\ swept' = (swept /\ s \notin Live)

-----------------------------------------------------------------------------
Init ==
    /\ status = "none" /\ total_seats = 0 /\ used_seats = 0
    /\ seats = [u \in Users |-> 0] /\ nextSeatId = 1
    /\ deleted = {}
    /\ seatless \in IF "sync" \in EntryPoints THEN BOOLEAN ELSE {FALSE}
    /\ pc = [w \in Workers |-> "idle"]
    /\ job = [w \in Workers |-> NoJob]
    /\ seen = [w \in Workers |-> Nothing]
    /\ peak = 0 /\ tainted = FALSE /\ swept = FALSE /\ rowless = 0

\* Bound: every grant in flight may still insert one of MaxSeatRows rows.
WithinRowBudget ==
    LET granting == {v \in Workers : job[v].kind \in Grants}
    IN  nextSeatId + Cardinality(granting) <= MaxSeatRows

\* A request reaches an idle worker.
Arrive(w, j) ==
    /\ pc[w] = "idle"
    /\ j.kind \in EntryPoints
    /\ j.kind \in Grants => WithinRowBudget
    /\ j.kind \in OfKnownUser => j.user \notin deleted
    /\ pc' = [pc EXCEPT ![w] = Routine[j.kind].start]
    /\ job' = [job EXCEPT ![w] = j]
    /\ tainted' = (tainted \/ ~AllIdle)
    /\ UNCHANGED <<rowVars, seatVars, seen, peak, swept, rowless>>

\* A statement throws or the server dies: what was written stays written.
Abort(w) ==
    /\ pc[w] # "idle"
    /\ Finish(w)
    /\ tainted' = TRUE
    /\ UNCHANGED <<rowVars, seatVars, peak, swept, rowless>>

\* Variant: the lookup forgets to ask for a live subscription.
FindAnySubscription(w) ==
    /\ pc[w] = "findSub"
    /\ Advance(w, [Nothing EXCEPT
           !.total = IF job[w].kind \in Grants THEN total_seats ELSE 0,
           !.used  = IF job[w].kind = "sync" THEN used_seats ELSE 0])
    /\ UNCHANGED <<rowVars, seatVars, histVars>>

\* SELECT ... WHERE status IN ('active', 'trial'); of the row, the grants go on
\* to use total_seats and the synchronisation used_seats.
FindSubscription(w) ==
    /\ pc[w] = "findSub"
    /\ IF status \in Live
         THEN Advance(w, [Nothing EXCEPT
                  !.total = IF job[w].kind \in Grants THEN total_seats ELSE 0,
                  !.used  = IF job[w].kind = "sync" THEN used_seats ELSE 0])
         ELSE Finish(w)
    /\ UNCHANGED <<rowVars, seatVars, histVars>>

\* Variant: the capacity check lets one more seat in.
CountForGrantOffByOne(w) ==
    /\ pc[w] = "count" /\ job[w].kind \in CappedGrants
    /\ IF Cardinality(Seated) > seen[w].total
         THEN Finish(w)
         ELSE Advance(w, seen[w])
    /\ UNCHANGED <<rowVars, seatVars, histVars>>

\* The capacity check of the capped grants, against the total read earlier.
CountForGrant(w) ==
    /\ pc[w] = "count" /\ job[w].kind \in CappedGrants
    /\ IF Cardinality(Seated) >= seen[w].total
         THEN Finish(w)
         ELSE Advance(w, seen[w])
    /\ UNCHANGED <<rowVars, seatVars, histVars>>

\* A face enrolment is never refused: a full plan is grown instead.
CountForBiometric(w) ==
    /\ pc[w] = "count" /\ job[w].kind = "biometric"
    /\ IF Cardinality(Seated) >= seen[w].total
         THEN Goto(w, "grow", [Nothing EXCEPT !.count = Cardinality(Seated)])
         ELSE Advance(w, seen[w])
    /\ UNCHANGED <<rowVars, seatVars, histVars>>

\* Variant: the counter is only ever corrected upwards.
SettleUpwards(w, n) ==
    IF n <= seen[w].used
      THEN Finish(w)
      ELSE Advance(w, [Nothing EXCEPT !.count = n])

\* syncUsedSeats writes only when the counter it read differs.
Settle(w, n) ==
    IF n = seen[w].used
      THEN Finish(w)
      ELSE Advance(w, [Nothing EXCEPT !.count = n])

\* No rows at all of a module that issues none: the users are counted instead.
CountForSync(w) ==
    /\ pc[w] = "count" /\ job[w].kind = "sync"
    /\ IF Seated = {} /\ seatless
         THEN Goto(w, "countUsers", seen[w])
         ELSE Settle(w, Cardinality(Seated))
    /\ UNCHANGED <<rowVars, seatVars, histVars>>

\* The active employees, whichever of those who are left they are.
CountUsers(w) ==
    /\ pc[w] = "countUsers"
    /\ \E n \in 0 .. Cardinality(Users \ deleted) : Settle(w, n)
    /\ UNCHANGED <<rowVars, seatVars, histVars>>

FindExisting(w) ==
    /\ pc[w] = "exists"
    /\ IF seats[job[w].user] # 0 THEN Finish(w) ELSE Advance(w, seen[w])
    /\ UNCHANGED <<rowVars, seatVars, histVars>>

GrowTotal(w) ==
    /\ pc[w] = "grow"
    /\ SetTotal(seen[w].count + 1)
    /\ Advance(w, seen[w])
    /\ UNCHANGED <<status, used_seats, seatVars, tainted, swept, rowless>>

\* unique(module_id, user_id) turns a second row into ER_DUP_ENTRY, and the
\* foreign key one of a deleted user into ER_NO_REFERENCED_ROW.
InsertSeat(w) ==
    /\ pc[w] = "insert"
    /\ IF seats[job[w].user] # 0 \/ job[w].user \in deleted
         THEN Finish(w) /\ UNCHANGED seatVars
         ELSE /\ seats' = [seats EXCEPT ![job[w].user] = nextSeatId]
              /\ nextSeatId' = nextSeatId + 1
              /\ Advance(w, Nothing)
              /\ UNCHANGED <<deleted, seatless>>
    /\ UNCHANGED <<rowVars, histVars>>

IncrementUsed(w) ==
    /\ pc[w] = "increment"
    /\ used_seats' = used_seats + 1
    /\ Finish(w)
    /\ UNCHANGED <<status, total_seats, seatVars, histVars>>

FindSeat(w) ==
    /\ pc[w] = "findSeat"
    /\ IF seats[job[w].user] = 0
         THEN Finish(w)
         ELSE Advance(w, [Nothing EXCEPT !.seat = seats[job[w].user]])
    /\ UNCHANGED <<rowVars, seatVars, histVars>>

\* Variant: the row is deleted by (module_id, user_id).
DeleteSeatOfUser(w) ==
    /\ pc[w] = "delete"
    /\ seats' = [seats EXCEPT ![job[w].user] = 0]
    /\ Advance(w, Nothing)
    /\ UNCHANGED <<rowVars, nextSeatId, deleted, seatless, histVars>>

\* DELETE ... WHERE id = seat.id: nothing happens when the row is gone.
DeleteSeat(w) ==
    /\ pc[w] = "delete"
    /\ seats' = [seats EXCEPT ![job[w].user] =
                    IF @ = seen[w].seat THEN 0 ELSE @]
    /\ Advance(w, Nothing)
    /\ UNCHANGED <<rowVars, nextSeatId, deleted, seatless, histVars>>

DecrementUsed(w) ==
    /\ pc[w] = "decrement"
    /\ used_seats' = used_seats - 1
    /\ Finish(w)
    /\ UNCHANGED <<status, total_seats, seatVars, histVars>>

WriteUsed(w) ==
    /\ pc[w] = "writeUsed"
    /\ used_seats' = seen[w].count
    /\ rowless' = IF seatless /\ Seated = {} THEN seen[w].count ELSE 0
    /\ Finish(w)
    /\ UNCHANGED <<status, total_seats, seatVars, peak, tainted, swept>>

\* getSubscription: the row in whatever status it is.  updateSubscription
\* then refuses a total below the cached counter.
FindRow(w) ==
    /\ pc[w] = "findRow"
    /\ IF \/ status = "none"
          \/ job[w].kind = "update" /\ job[w].total < used_seats
         THEN Finish(w)
         ELSE Advance(w, IF job[w].kind = "update" THEN RowAsRead ELSE Nothing)
    /\ UNCHANGED <<rowVars, seatVars, histVars>>

\* What a write of the status may leave behind: rows of a cancelled
\* subscription, or the counter of one whose rows were swept.
LeavesDrift(s) ==
    \/ s = "cancelled" /\ Seated # {}
    \/ s # "cancelled" /\ status = "cancelled"

\* Buying seats, a higher tier or a longer cycle during what was read as a
\* trial ends it.  Otherwise the body may name a status, any one.
WriteTotal(w) ==
    /\ pc[w] = "writeTotal"
    /\ SetTotal(job[w].total)
    /\ LET onTrial   == seen[w].status = "trial"
           moreSeats == job[w].total > seen[w].total
       IN  \/ /\ ~(onTrial /\ moreSeats)
              /\ UNCHANGED <<status, swept, tainted>>
           \/ \E s \in Settable :
                 /\ onTrial /\ moreSeats => s = "active"
                 /\ SetStatus(s)
                 /\ tainted' = (tainted \/ LeavesDrift(s))
    /\ Finish(w)
    /\ UNCHANGED <<used_seats, seatVars, rowless>>

\* Variant: a misspelt status.
WriteCanceled(w) ==
    /\ pc[w] = "writeCancelled"
    /\ SetStatus("canceled")
    /\ Advance(w, seen[w])
    /\ UNCHANGED <<total_seats, used_seats, seatVars, peak, tainted, rowless>>

WriteCancelled(w) ==
    /\ pc[w] = "writeCancelled"
    /\ SetStatus("cancelled")
    /\ Advance(w, seen[w])
    /\ UNCHANGED <<total_seats, used_seats, seatVars, peak, tainted, rowless>>

\* DELETE ... WHERE subscription_id = subId; used_seats is left as it is.
SweepSeats(w) ==
    /\ pc[w] = "sweep"
    /\ seats' = [u \in Users |-> 0]
    /\ swept' = (status \notin Live)
    /\ Finish(w)
    /\ UNCHANGED <<rowVars, nextSeatId, deleted, seatless>>
    /\ UNCHANGED <<peak, tainted, rowless>>

FindForCreate(w) ==
    /\ pc[w] = "findForCreate"
    /\ \/ status = "none" /\ Goto(w, "insertRow", seen[w])
       \/ status = "cancelled" /\ Goto(w, "reactivate", seen[w])
       \/ status \notin {"none", "cancelled"} /\ Finish(w)
    /\ UNCHANGED <<rowVars, seatVars, histVars>>

\* unique(organization_id, module_id): the loser of two inserts gets a 409.
InsertRow(w) ==
    /\ pc[w] = "insertRow"
    /\ IF status # "none"
         THEN UNCHANGED <<rowVars, peak, swept, rowless>>
         ELSE /\ \E s \in Live : SetStatus(s)
              /\ SetTotal(job[w].total)
              /\ used_seats' = 0 /\ rowless' = 0
    /\ Finish(w)
    /\ UNCHANGED <<seatVars, tainted>>

\* Variant: the reactivated row keeps the counter of its former life.
ReactivateKeepingCount(w) ==
    /\ pc[w] = "reactivate"
    /\ \E s \in Live : SetStatus(s)
    /\ SetTotal(job[w].total)
    /\ Finish(w)
    /\ UNCHANGED <<used_seats, seatVars, tainted, rowless>>

\* UPDATE ... WHERE id: the status read earlier is not checked again, and the
\* seat rows a billing-side cancellation left behind stay.
Reactivate(w) ==
    /\ pc[w] = "reactivate"
    /\ \E s \in Live : SetStatus(s)
    /\ SetTotal(job[w].total)
    /\ used_seats' = 0 /\ rowless' = 0
    /\ Finish(w)
    /\ UNCHANGED <<seatVars, tainted>>

(***************************************************************************)
(* Everything else that writes the row, each time in one UPDATE: webhooks  *)
(* of the billing service and edits by an administrator.  None of them     *)
(* touches the seat rows.                                                  *)
(***************************************************************************)
External(s) ==
    /\ status # "none"
    /\ SetStatus(s)
    /\ UNCHANGED <<used_seats, seatVars, reqVars, rowless>>

BillingCancelled ==
    /\ External("cancelled")
    /\ tainted' = (tainted \/ ~AllIdle \/ LeavesDrift("cancelled"))
    /\ UNCHANGED <<total_seats, peak>>

\* payment_failed and invoice.overdue do not look at the current status.
BillingPastDue ==
    /\ External("lapsed")
    /\ tainted' = (tainted \/ ~AllIdle \/ LeavesDrift("lapsed"))
    /\ UNCHANGED <<total_seats, peak>>

\* invoice.paid and subscription.renewed.
BillingPaid ==
    /\ status \in {"lapsed", "trial"}
    /\ External("active")
    /\ tainted' = (tainted \/ ~AllIdle \/ LeavesDrift("active"))
    /\ UNCHANGED <<total_seats, peak>>

\* The super admin's edit: any status and any total, whatever is in use.
AdminUpdate ==
    \E s \in Settable, n \in Totals \cup {0, total_seats} :
        /\ External(s)
        /\ SetTotal(n)
        /\ tainted' = (tainted \/ ~AllIdle \/ LeavesDrift(s)
                            \/ n < Cardinality(Seated))

\* An employee or an invited user is deleted, each time in one transaction:
\* the foreign key takes the seat row along, and nobody decrements used_seats.
DeleteUser(u) ==
    /\ "deleteUser" \in EntryPoints
    /\ u \notin deleted
    /\ deleted' = deleted \cup {u}
    /\ seats' = [seats EXCEPT ![u] = 0]
    /\ rowless' = IF seats[u] # 0 THEN rowless + 1 ELSE rowless
    /\ tainted' = (tainted \/ ~AllIdle)
    /\ UNCHANGED <<rowVars, nextSeatId, seatless, reqVars, peak, swept>>

Step(w) ==
    \/ FindSubscription(w) \/ FindExisting(w) \/ FindSeat(w) \/ FindRow(w)
    \/ CountForGrant(w) \/ CountForBiometric(w) \/ CountForSync(w)
    \/ CountUsers(w) \/ GrowTotal(w) \/ InsertSeat(w) \/ IncrementUsed(w)
    \/ DeleteSeat(w) \/ DecrementUsed(w) \/ WriteUsed(w)
    \/ WriteTotal(w) \/ WriteCancelled(w) \/ SweepSeats(w)
    \/ FindForCreate(w) \/ InsertRow(w) \/ Reactivate(w)

RowWrites == \/ BillingCancelled \/ BillingPastDue \/ BillingPaid
             \/ AdminUpdate

Next ==
    \/ \E w \in Workers : \/ \E j \in Jobs : Arrive(w, j)
                          \/ Step(w)
                          \/ Abort(w)
    \/ RowWrites
    \/ \E u \in Users : DeleteUser(u)

Spec == Init /\ [][Next]_vars

\* An awaited query settles, with an answer or an error; and the counts and
\* the write of a synchronisation run again and again do not fail each time.
FairSpec ==
    /\ Spec
    /\ \A w \in Workers : WF_vars(Step(w) \/ Abort(w))
    /\ SF_vars(\E w \in Workers : CountForSync(w))
    /\ SF_vars(\E w \in Workers : CountUsers(w))
    /\ SF_vars(\E w \in Workers : WriteUsed(w))

-----------------------------------------------------------------------------
(***************************************************************************)
(* Properties.                                                             *)
(***************************************************************************)

\* Types: rows, counters and requests stay within the values the code writes.
TypeOK ==
    /\ status \in Statuses
    /\ total_seats \in Nat /\ used_seats \in Int
    /\ seats \in [Users -> Nat] /\ nextSeatId \in Nat \ {0}
    /\ deleted \subseteq Users /\ seatless \in BOOLEAN
    /\ pc \in [Workers -> Statements \cup {"idle"}]
    /\ job \in [Workers -> Jobs \cup {NoJob}]
    /\ seen \in [Workers -> Readings]
    /\ peak \in Nat /\ tainted \in BOOLEAN /\ swept \in BOOLEAN
    /\ rowless \in Nat

\* The requests that passed a capacity check and have not inserted yet.
Admitted ==
    {w \in Workers : \/ pc[w] = "insert"
                     \/ pc[w] = "exists" /\ job[w].kind \in {"assign", "enable"}}

\* How far the racy capacity check can be overshot: the seats granted and the
\* grants already admitted never exceed the largest plan ever bought by more
\* than the other requests in flight.  (Count, then insert, without a lock:
\* assignSeat, enableUserForModule, handleModuleSeatWebhook.)
BoundedOvershoot ==
    Cardinality(Seated) + Cardinality(Admitted)
        <= peak - 1 + Cardinality(Workers)

\* While requests and deletions of employees have happened one after the other,
\* no request was cut short and no external write cancelled a subscription that
\* had seats, revived a cancelled one or shrank a plan below its rows, the cached
\* counter is the number of seat rows and of those deleted employees whose seat
\* nothing has taken off it since (deactivateUser and cancelInvitation leave the
\* row to the foreign key), and the plan covers the rows.  In a module without
\* seat rows syncUsedSeats counts users, and grants go on from there.  (The
\* payroll sync, which looks at no capacity, may exceed the plan and is not part
\* of the promise.)
SerialExact ==
    ~tainted /\ AllIdle /\ status \in Live \cup {"lapsed"} =>
        /\ used_seats = Cardinality(Seated) + rowless
        /\ Cardinality(Seated) <= total_seats

\* Once a cancellation has swept the seat rows, and until the subscription is
\* live again, the only rows are those of grants that were in flight during
\* the sweep: at most one for every other worker.
SweepBound ==
    swept => Cardinality(Seated) < Cardinality(Workers)

\* A seat granted between the two statements of a revocation (the old one being
\* revoked by somebody else meanwhile) survives it: only a sweep, a request that
\* has looked up this very row or the deletion of its user removes it.
RemovesWhatWasSeen ==
    \A u \in Users :
        seats[u] # 0 /\ seats'[u] = 0 =>
            \/ u \in deleted'
            \/ \E w \in Workers : pc[w] = "sweep" \/ seen[w].seat = seats[u]
RevokesWhatItSaw == [][RemovesWhatWasSeen]_vars

\* The counter heals: if from some point on nothing but syncUsedSeats runs, and
\* if it keeps being run (every module access check and every listing of the
\* subscriptions runs it), used_seats settles on the number of seat rows,
\* whatever requests and deletions of employees did to it and however often one
\* fails.  Where a module has no rows and issues none, it settles on no more
\* than the employees there are.
SyncCounting == \E w \in Workers : pc[w] = "count" /\ job[w].kind = "sync"
OnlySyncs    == \A w \in Workers : job[w].kind \in {"none", "sync"}
Healed == IF Seated = {} /\ seatless
            THEN used_seats \in 0 .. Cardinality(Users \ deleted)
            ELSE used_seats = Cardinality(Seated)
DriftHeals ==
    \/ []<>~OnlySyncs
    \/ <>[]~SyncCounting
    \/ <>[]Healed

\* What subscription.service.ts says of its capacity check (#1461): it
\* "prevents over-assignment even when two admin requests race".
NoOverAssignment == Cardinality(Seated) <= total_seats
=============================================================================
