------------------------------ MODULE Positions ------------------------------
(***************************************************************************)
(* One budgeted position (its row in positions) and the assignments of     *)
(* people to it (position_assignments), as position.service.ts works on    *)
(* them.                                                                   *)
(*                                                                         *)
(* Assigning and removing run in a transaction that locks the position row *)
(* with SELECT ... FOR UPDATE; updating and deleting are plain statements, *)
(* each committed on its own, that wait for the lock when they write the   *)
(* row.  The database is InnoDB under REPEATABLE READ: a plain SELECT in a *)
(* transaction reads the snapshot taken by its first plain SELECT, a       *)
(* locking read and an UPDATE see the latest committed row.  What a        *)
(* transaction writes after its lock is private until it commits, and no   *)
(* one else writes the rows it has written: its writes are one step here.  *)
(***************************************************************************)
EXTENDS Integers, FiniteSets

CONSTANTS
    Workers,         \* requests in flight at a time
    Users,           \* employees that can be assigned
    NoWorker,        \* the lock holder when there is none
    Nothing,         \* what an idle worker works on and has read
    EntryPoints,     \* the routines exercised, and "deleteUser"
    Budgets,         \* headcount budgets an administrator may set
    MaxAssignments   \* bound: assignment rows ever inserted

Routines == {"assign", "remove", "update", "delete"}

ASSUME WorkersFinite  == IsFiniteSet(Workers) /\ NoWorker \notin Workers
ASSUME BudgetsOK      == Budgets \subseteq Nat \ {0}
ASSUME AssignmentsOK  == MaxAssignments \in Nat
ASSUME EntryPointsOK  == EntryPoints \subseteq Routines \cup {"deleteUser"}

VARIABLES
    position,     \* the committed row: [status, budget, filled]
    assignments,  \* committed rows by id: NoRow, or [user, status]
    deleted,      \* the users whose row is gone
    lock,         \* the worker whose transaction holds the position row
    pc,           \* the next statement of each worker
    job,          \* its request
    seen,         \* the position row its transaction has locked and read, if any
    stranded      \* history: active assignments that were ended by deletions
                  \*          of the position before they close it (or fail
                  \*          to), or went with a deleted employee, since the
                  \*          position was last closed

rows == <<position, assignments, deleted>>
reqs == <<pc, job, seen>>
vars == <<rows, lock, reqs, stranded>>

-----------------------------------------------------------------------------
Statuses == {"active", "filled", "frozen", "closed"}

Rows == [status : Statuses, budget : Nat \ {0}, filled : Nat]

Ids == 1..MaxAssignments

\* An id not given out yet; the row of a deleted employee is "gone".
NoRow == [user |-> "none", status |-> "none"]

\* An update names a new budget, a new status, both or (budget 0 and status
\* "same") other columns only.
Jobs ==
    [kind : {"assign"}, user : Users]
      \cup [kind : {"remove"}, id : Ids]
      \cup [kind : {"update"}, budget : Budgets \cup {0},
            status : Statuses \cup {"same"}]
      \cup [kind : {"delete"}]

ActiveIds == {i \in Ids : assignments[i].status = "active"}

Statement == [assign |-> "lockForAssign", remove |-> "findAssignment",
              update |-> "findPosition",  delete |-> "findOpen"]

Goto(w, statement) == pc' = [pc EXCEPT ![w] = statement]

Finish(w) ==
    /\ pc' = [pc EXCEPT ![w] = "idle"]
    /\ job' = [job EXCEPT ![w] = Nothing]
    /\ seen' = [seen EXCEPT ![w] = Nothing]

\* The end of a transaction, by commit or by rollback.
Release(w) == lock' = IF lock = w THEN NoWorker ELSE lock

Unlocked == lock = NoWorker

-----------------------------------------------------------------------------
\* createPosition has inserted the row.
Init ==
    /\ position \in [status : {"active"}, budget : Budgets, filled : {0}]
    /\ assignments = [i \in Ids |-> NoRow]
    /\ deleted = {}
    /\ lock = NoWorker
    /\ pc = [w \in Workers |-> "idle"]
    /\ job = [w \in Workers |-> Nothing]
    /\ seen = [w \in Workers |-> Nothing]
    /\ stranded = 0

\* Bound: every assignment in flight may still insert one of the rows.
WithinRowBudget ==
    Cardinality({i \in Ids : assignments[i] = NoRow})
        > Cardinality({v \in Workers : pc[v] # "idle" /\ job[v].kind = "assign"})

Arrive(w, j) ==
    /\ pc[w] = "idle"
    /\ j.kind \in EntryPoints
    /\ j.kind = "assign" => WithinRowBudget
    /\ Goto(w, Statement[j.kind])
    /\ job' = [job EXCEPT ![w] = j]
    /\ UNCHANGED <<rows, lock, seen, stranded>>

\* A statement throws (a lock wait timeout among others) or the server dies:
\* an open transaction is rolled back, committed statements stay.
Abort(w) ==
    /\ pc[w] # "idle"
    /\ Finish(w)
    /\ Release(w)
    /\ UNCHANGED <<rows, stranded>>

(***************************************************************************)
(* assignUserToPosition                                                    *)
(***************************************************************************)

\* Variant: the row is read without FOR UPDATE.
ReadForAssign(w) ==
    /\ pc[w] = "lockForAssign"
    /\ IF position.status = "active"
         THEN /\ seen' = [seen EXCEPT ![w] = position]
              /\ Goto(w, "checkUser") /\ UNCHANGED job
         ELSE Finish(w)
    /\ UNCHANGED <<rows, lock, stranded>>

\* SELECT ... WHERE status = 'active' FOR UPDATE.
LockForAssign(w) ==
    /\ pc[w] = "lockForAssign"
    /\ Unlocked
    /\ IF position.status = "active"
         THEN /\ lock' = w
              /\ seen' = [seen EXCEPT ![w] = position]
              /\ Goto(w, "checkUser") /\ UNCHANGED job
         ELSE Finish(w) /\ UNCHANGED lock
    /\ UNCHANGED <<rows, stranded>>

Assigned(u) == \E i \in ActiveIds : assignments[i].user = u

\* The snapshot of this read was opened after the lock, by the SELECT of the
\* user.
CheckUser(w) ==
    /\ pc[w] = "checkUser"
    /\ IF \/ job[w].user \in deleted
          \/ Assigned(job[w].user)
          \/ seen[w].filled >= seen[w].budget
         THEN Finish(w) /\ Release(w)
         ELSE Goto(w, "assign") /\ UNCHANGED <<job, seen, lock>>
    /\ UNCHANGED <<rows, stranded>>

\* INSERT, headcount_filled + 1, "filled" when that reaches the budget, COMMIT.
\* The foreign key refuses the row of an employee deleted since the check.
CommitAssign(w) ==
    /\ pc[w] = "assign"
    /\ IF job[w].user \in deleted
         THEN UNCHANGED <<position, assignments>>
         ELSE /\ \E i \in Ids :
                    /\ assignments[i] = NoRow
                    /\ \A k \in 1..(i - 1) : assignments[k] # NoRow
                    /\ assignments' = [assignments EXCEPT ![i] =
                                          [user |-> job[w].user, status |-> "active"]]
              /\ position' = [position EXCEPT
                     !.filled = @ + 1,
                     !.status = IF seen[w].filled + 1 >= seen[w].budget
                                  THEN "filled" ELSE @]
    /\ Finish(w) /\ Release(w)
    /\ UNCHANGED <<deleted, stranded>>

(***************************************************************************)
(* removeUserFromPosition                                                  *)
(***************************************************************************)

\* A plain SELECT: the snapshot of the transaction, before it locks anything.
FindAssignment(w) ==
    /\ pc[w] = "findAssignment"
    /\ IF job[w].id \in ActiveIds
         THEN Goto(w, "lockForRemove") /\ UNCHANGED <<job, seen>>
         ELSE Finish(w)
    /\ UNCHANGED <<rows, lock, stranded>>

LockForRemove(w) ==
    /\ pc[w] = "lockForRemove"
    /\ Unlocked
    /\ lock' = w
    /\ seen' = [seen EXCEPT ![w] = position]
    /\ Goto(w, "remove")
    /\ UNCHANGED <<rows, job, stranded>>

\* Variant: the headcount before the removal decides.
ReopensOnOldCount(row) ==
    row.status \in {"filled", "frozen"} /\ row.filled < row.budget

Reopens(row) ==
    /\ row.status \in {"filled", "frozen"}
    /\ (IF row.filled > 0 THEN row.filled - 1 ELSE 0) < row.budget

\* The assignment is ended whatever it has become since it was found (an UPDATE
\* by id: of no row at all if it is gone), and headcount_filled is decremented,
\* not below 0.
CommitRemove(w) ==
    /\ pc[w] = "remove"
    /\ assignments' = [assignments EXCEPT ![job[w].id].status =
                          IF @ = "gone" THEN @ ELSE "ended"]
    /\ position' = [position EXCEPT
           !.filled = IF @ > 0 THEN @ - 1 ELSE @,
           !.status = IF Reopens(seen[w]) THEN "active" ELSE @]
    /\ Finish(w) /\ Release(w)
    /\ UNCHANGED <<deleted, stranded>>

(***************************************************************************)
(* updatePosition                                                          *)
(***************************************************************************)

\* The guard of the headcount invariant, on the row as it is now.
FindPosition(w) ==
    /\ pc[w] = "findPosition"
    /\ IF job[w].budget # 0 /\ job[w].budget < position.filled
         THEN Finish(w)
         ELSE Goto(w, "writePosition") /\ UNCHANGED <<job, seen>>
    /\ UNCHANGED <<rows, lock, stranded>>

WritePosition(w) ==
    /\ pc[w] = "writePosition"
    /\ Unlocked
    /\ position' = [position EXCEPT
           !.budget = IF job[w].budget # 0 THEN job[w].budget ELSE @,
           !.status = IF job[w].status # "same" THEN job[w].status ELSE @]
    /\ Finish(w)
    /\ UNCHANGED <<assignments, deleted, lock, stranded>>

(***************************************************************************)
(* deletePosition                                                          *)
(***************************************************************************)
FindOpen(w) ==
    /\ pc[w] = "findOpen"
    /\ IF position.status = "closed"
         THEN Finish(w)
         ELSE Goto(w, "endAll") /\ UNCHANGED <<job, seen>>
    /\ UNCHANGED <<rows, lock, stranded>>

\* Variant: the assignments are given the status of the position.
CloseAll(w) ==
    /\ pc[w] = "endAll"
    /\ assignments' = [i \in Ids |->
           IF i \in ActiveIds THEN [assignments[i] EXCEPT !.status = "closed"]
                              ELSE assignments[i]]
    /\ stranded' = stranded + Cardinality(ActiveIds)
    /\ Goto(w, "close")
    /\ UNCHANGED <<position, deleted, lock, job, seen>>

EndAll(w) ==
    /\ pc[w] = "endAll"
    /\ assignments' = [i \in Ids |->
           IF i \in ActiveIds THEN [assignments[i] EXCEPT !.status = "ended"]
                              ELSE assignments[i]]
    /\ stranded' = stranded + Cardinality(ActiveIds)
    /\ Goto(w, "close")
    /\ UNCHANGED <<position, deleted, lock, job, seen>>

\* Variant: the closed position keeps its headcount.
CloseKeepingCount(w) ==
    /\ pc[w] = "close"
    /\ Unlocked
    /\ position' = [position EXCEPT !.status = "closed"]
    /\ stranded' = 0
    /\ Finish(w)
    /\ UNCHANGED <<assignments, deleted, lock>>

Close(w) ==
    /\ pc[w] = "close"
    /\ Unlocked
    /\ position' = [position EXCEPT !.status = "closed", !.filled = 0]
    /\ stranded' = 0
    /\ Finish(w)
    /\ UNCHANGED <<assignments, deleted, lock>>

(***************************************************************************)
(* deactivateUser and cancelInvitation delete an employee in a transaction *)
(* of their own: the foreign key takes the assignments along, and nobody   *)
(* decrements headcount_filled.                                            *)
(***************************************************************************)
DeleteUser(u) ==
    /\ "deleteUser" \in EntryPoints
    /\ u \notin deleted
    /\ deleted' = deleted \cup {u}
    /\ assignments' = [i \in Ids |->
           IF assignments[i].user = u THEN [assignments[i] EXCEPT !.status = "gone"]
                                      ELSE assignments[i]]
    /\ stranded' = stranded
                      + Cardinality({i \in ActiveIds : assignments[i].user = u})
    /\ UNCHANGED <<position, lock, reqs>>

-----------------------------------------------------------------------------
Step(w) ==
    \/ LockForAssign(w) \/ CheckUser(w) \/ CommitAssign(w)
    \/ FindAssignment(w) \/ LockForRemove(w) \/ CommitRemove(w)
    \/ FindPosition(w) \/ WritePosition(w)
    \/ FindOpen(w) \/ EndAll(w) \/ Close(w)

Next == \/ \E w \in Workers : \/ \E j \in Jobs : Arrive(w, j)
                              \/ Step(w)
                              \/ Abort(w)
        \/ \E u \in Users : DeleteUser(u)

Spec == Init /\ [][Next]_vars

-----------------------------------------------------------------------------
(***************************************************************************)
(* Properties.                                                             *)
(***************************************************************************)

\* Types: rows, lock and requests stay within the values the code writes.
TypeOK ==
    /\ position \in Rows
    /\ assignments \in [Ids -> [user : Users, status : {"active", "ended", "gone"}]
                                  \cup {NoRow}]
    /\ deleted \subseteq Users
    /\ lock \in Workers \cup {NoWorker}
    /\ pc \in [Workers -> {"idle", "lockForAssign", "checkUser", "assign",
                           "findAssignment", "lockForRemove", "remove",
                           "findPosition", "writePosition",
                           "findOpen", "endAll", "close"}]
    /\ job \in [Workers -> Jobs \cup {Nothing}]
    /\ seen \in [Workers -> Rows \cup {Nothing}]
    /\ stranded \in Nat

\* Nobody holds two active assignments to the position: no constraint of the
\* table says so, only the check made under the row lock.
OneAssignmentPerUser ==
    \A i, k \in ActiveIds : assignments[i].user = assignments[k].user => i = k

\* However assignments, removals, updates and deletions interleave, the
\* headcount never hides a vacancy, except for the assignments that a deletion
\* of the position ended without closing it and for those of employees deleted
\* while they held them (purgeUserHard leaves the rows to the foreign key and
\* headcount_filled as it is).
VacanciesShow ==
    position.filled <= Cardinality(ActiveIds) + stranded

\* Assigning never takes the headcount over the budget, whatever happened to
\* the budget or the headcount before (assignUserToPosition: "the lock
\* serializes the assigns so the second one sees the incremented count").
AssignsWithinBudget ==
    position'.filled > position.filled => position'.filled <= position'.budget
AssignKeepsBudget == [][AssignsWithinBudget]_vars

\* The status follows the headcount whenever the headcount changes: a position
\* that grows is "filled" exactly when it reaches its budget, one that shrinks
\* is not left "filled" with a vacancy (which assignUserToPosition, looking for
\* an active position, would never offer again).
StatusFollows ==
    /\ position'.filled > position.filled =>
          (position'.status = "filled" <=> position'.filled = position'.budget)
    /\ position'.filled < position.filled =>
          (position'.status = "filled" => position'.filled >= position'.budget)
StatusFollowsHeadcount == [][StatusFollows]_vars

\* The comment of removeUserFromPosition: with the lock, "concurrent
\* assign/remove operations can't interleave and leave headcount_filled or
\* status inconsistent".
HeadcountExact == position.filled = Cardinality(ActiveIds)
=============================================================================
