--------------------------- MODULE PositionsProofs ---------------------------
(***************************************************************************)
(* Proofs about Positions, for any number of requests, employees, budgets  *)
(* and assignment rows.                                                    *)
(***************************************************************************)
EXTENDS Positions, FiniteSetTheorems, TLAPS

(***************************************************************************)
(* The inductive invariant: types, the request each statement works for,   *)
(* and what the row lock protects from the moment it is taken.             *)
(***************************************************************************)
Locked == {"checkUser", "assign", "remove"}

Statements == {"lockForAssign", "checkUser", "assign",
               "findAssignment", "lockForRemove", "remove",
               "findPosition", "writePosition", "findOpen", "endAll", "close"}

RequestOf(w) ==
    /\ pc[w] \in {"lockForAssign", "checkUser", "assign"} => job[w].user \in Users
    /\ pc[w] \in {"findAssignment", "lockForRemove", "remove"} => job[w].id \in Ids
    /\ pc[w] \in {"lockForRemove", "remove"} =>
          assignments[job[w].id].status \in {"active", "ended", "gone"}
    /\ pc[w] \in {"findPosition", "writePosition"} =>
          /\ job[w].budget \in Budgets \cup {0}
          /\ job[w].status \in Statuses \cup {"same"}

\* What the holder of the lock has read is still true.
UnderLock(w) ==
    /\ pc[w] \in Locked => lock = w /\ seen[w] = position
    /\ pc[w] \in {"checkUser", "assign"} => position.status = "active"
    /\ pc[w] = "assign" => ~Assigned(job[w].user) /\ position.filled < position.budget

Requests == \A w \in Workers : RequestOf(w)
Locks == \A w \in Workers : UnderLock(w)

Ind == TypeOK /\ Requests /\ Locks /\ OneAssignmentPerUser /\ VacanciesShow

-----------------------------------------------------------------------------
(***************************************************************************)
(* Lemmas.                                                                 *)
(***************************************************************************)
LEMMA IdsFinite ==
    ASSUME NEW S \in SUBSET Ids
    PROVE  IsFiniteSet(S) /\ Cardinality(S) \in Nat
<1>1. IsFiniteSet(Ids)
  BY FS_Interval, AssignmentsOK DEF Ids
<1>2. IsFiniteSet(S)
  BY <1>1, FS_Subset
<1>3. QED BY <1>2, FS_CardinalityType

LEMMA ActiveFinite == IsFiniteSet(ActiveIds) /\ Cardinality(ActiveIds) \in Nat
BY IdsFinite DEF ActiveIds

\* A worker that leaves only its own request behind.
LEMMA FinishTypes ==
    ASSUME TypeOK, NEW w \in Workers, Finish(w)
    PROVE  /\ pc' = [pc EXCEPT ![w] = "idle"]
           /\ pc' \in [Workers -> Statements \cup {"idle"}]
           /\ job' \in [Workers -> Jobs \cup {Nothing}]
           /\ seen' \in [Workers -> Rows \cup {Nothing}]
           /\ \A v \in Workers \ {w} : pc'[v] = pc[v] /\ job'[v] = job[v] /\ seen'[v] = seen[v]
           /\ pc'[w] = "idle"
BY DEF TypeOK, Finish, Statements

LEMMA GotoTypes ==
    ASSUME TypeOK, NEW w \in Workers, NEW s \in Statements, Goto(w, s)
    PROVE  /\ pc' \in [Workers -> Statements \cup {"idle"}]
           /\ \A v \in Workers \ {w} : pc'[v] = pc[v]
           /\ pc'[w] = s
BY DEF TypeOK, Goto, Statements

\* Only one worker holds the lock.
LEMMA OneHolder ==
    ASSUME Locks, NEW w \in Workers, NEW v \in Workers \ {w}, pc[w] \in Locked
    PROVE  pc[v] \notin Locked
BY DEF Locks, UnderLock

LEMMA NoHolder ==
    ASSUME Locks, Unlocked, NEW v \in Workers
    PROVE  pc[v] \notin Locked
BY WorkersFinite DEF Locks, UnderLock, Unlocked

\* Nothing but its own request and a free lock changes when a worker gives up
\* or is refused.
LEMMA Leave ==
    ASSUME Ind, NEW w \in Workers, Finish(w), Release(w) \/ UNCHANGED lock,
           UNCHANGED rows, UNCHANGED stranded
    PROVE  Ind'
<1>1. TypeOK'
  <2>1. lock' \in Workers \cup {NoWorker}
    BY DEF Ind, TypeOK, Release
  <2>2. QED BY <2>1, FinishTypes DEF Ind, TypeOK, rows, Statements
<1>2. Requests'
  BY FinishTypes DEF Ind, Requests, RequestOf, rows
<1>3. Locks'
  <2> SUFFICES ASSUME NEW v \in Workers PROVE UnderLock(v)'
    BY DEF Locks
  <2>1. UnderLock(v)
    BY DEF Ind, Locks
  <2>2. ASSUME v # w, pc[v] \in Locked PROVE lock' = lock
    BY <2>1, <2>2 DEF UnderLock, Release
  <2>3. QED
    BY <2>1, <2>2, FinishTypes
       DEF Ind, UnderLock, Locked, rows, Assigned, ActiveIds
<1>4. OneAssignmentPerUser' /\ VacanciesShow'
  BY DEF Ind, OneAssignmentPerUser, VacanciesShow, ActiveIds, rows
<1>5. QED BY <1>1, <1>2, <1>3, <1>4 DEF Ind

\* A worker goes on to a statement that relies on no lock.
LEMMA Proceed ==
    ASSUME Ind, NEW w \in Workers, NEW s \in Statements \ Locked, Goto(w, s),
           UNCHANGED rows, UNCHANGED lock, UNCHANGED stranded,
           job' \in [Workers -> Jobs \cup {Nothing}],
           seen' \in [Workers -> Rows \cup {Nothing}],
           \A v \in Workers \ {w} : job'[v] = job[v] /\ seen'[v] = seen[v],
           RequestOf(w)'
    PROVE  Ind'
<1>1. TypeOK'
  BY GotoTypes DEF Ind, TypeOK, rows, Statements
<1>2. Requests'
  BY GotoTypes DEF Ind, Requests, RequestOf, rows
<1>3. Locks'
  BY GotoTypes DEF Ind, Locks, UnderLock, Locked, rows, Assigned, ActiveIds
<1>4. OneAssignmentPerUser' /\ VacanciesShow'
  BY DEF Ind, OneAssignmentPerUser, VacanciesShow, ActiveIds, rows
<1>5. QED BY <1>1, <1>2, <1>3, <1>4 DEF Ind

-----------------------------------------------------------------------------
(***************************************************************************)
(* The invariant holds initially and every action keeps it.                *)
(***************************************************************************)
LEMMA InitInd == Init => Ind
<1> SUFFICES ASSUME Init PROVE Ind
  OBVIOUS
<1>1. position \in Rows
  <2>1. PICK b \in Budgets : position = [status |-> "active", budget |-> b, filled |-> 0]
    BY DEF Init
  <2>2. b \in Nat \ {0}
    BY BudgetsOK
  <2>3. QED BY <2>1, <2>2 DEF Rows, Statuses
<1>2. ActiveIds = {}
  BY DEF Init, ActiveIds, NoRow
<1>3. TypeOK
  BY <1>1 DEF Init, TypeOK
<1>4. Requests /\ Locks
  BY DEF Init, Requests, RequestOf, Locks, UnderLock, Locked
<1>5. OneAssignmentPerUser /\ VacanciesShow
  BY <1>1, <1>2, FS_EmptySet DEF Init, OneAssignmentPerUser, VacanciesShow
<1>6. QED BY <1>3, <1>4, <1>5 DEF Ind

LEMMA ArriveInd ==
    ASSUME Ind, NEW w \in Workers, NEW j \in Jobs, Arrive(w, j)
    PROVE  Ind'
<1>1. /\ Goto(w, Statement[j.kind]) /\ job' = [job EXCEPT ![w] = j]
      /\ UNCHANGED <<rows, lock, seen, stranded>>
  BY DEF Arrive
<1>2. \/ j.kind = "assign" /\ j.user \in Users
      \/ j.kind = "remove" /\ j.id \in Ids
      \/ /\ j.kind = "update" /\ j.budget \in Budgets \cup {0}
         /\ j.status \in Statuses \cup {"same"}
      \/ j.kind = "delete"
  BY DEF Jobs
<1>3. Statement[j.kind] =
        CASE j.kind = "assign" -> "lockForAssign"
          [] j.kind = "remove" -> "findAssignment"
          [] j.kind = "update" -> "findPosition"
          [] OTHER -> "findOpen"
  BY <1>2 DEF Statement
<1>4. Statement[j.kind] \in Statements \ Locked
  BY <1>2, <1>3 DEF Statements, Locked
<1>5. job'[w] = j /\ pc'[w] = Statement[j.kind]
  BY <1>1, <1>4, GotoTypes DEF Ind, TypeOK
<1>6. RequestOf(w)'
  BY <1>2, <1>3, <1>5 DEF RequestOf
<1>7. job' \in [Workers -> Jobs \cup {Nothing}] /\ seen' = seen
  BY <1>1 DEF Ind, TypeOK
<1>8. QED
  BY <1>1, <1>4, <1>6, <1>7, Proceed DEF Ind, TypeOK

LEMMA AbortInd ==
    ASSUME Ind, NEW w \in Workers, Abort(w)
    PROVE  Ind'
BY Leave DEF Abort

LEMMA LockForAssignInd ==
    ASSUME Ind, NEW w \in Workers, LockForAssign(w)
    PROVE  Ind'
<1>1. CASE position.status # "active"
  BY <1>1, Leave DEF LockForAssign
<1>2. CASE position.status = "active"
  <2>1. /\ Unlocked /\ pc[w] = "lockForAssign" /\ lock' = w
        /\ seen' = [seen EXCEPT ![w] = position]
        /\ Goto(w, "checkUser") /\ UNCHANGED <<rows, job, stranded>>
    BY <1>2 DEF LockForAssign
  <2>2. "checkUser" \in Statements
    BY DEF Statements
  <2>3. TypeOK'
    BY <2>1, <2>2, GotoTypes DEF Ind, TypeOK, rows, Statements
  <2>4. Requests'
    BY <2>1, <2>2, GotoTypes DEF Ind, Requests, RequestOf, rows
  <2>5. Locks'
    <3> SUFFICES ASSUME NEW v \in Workers PROVE UnderLock(v)'
      BY DEF Locks
    <3>1. CASE v = w
      BY <1>2, <2>1, <2>2, <3>1, GotoTypes DEF Ind, TypeOK, UnderLock, rows
    <3>2. CASE v # w
      <4>1. pc'[v] \notin Locked
        BY <2>1, <2>2, <3>2, GotoTypes, NoHolder DEF Ind
      <4>2. QED BY <4>1 DEF UnderLock, Locked
    <3>3. QED BY <3>1, <3>2
  <2>6. OneAssignmentPerUser' /\ VacanciesShow'
    BY <2>1 DEF Ind, OneAssignmentPerUser, VacanciesShow, ActiveIds, rows
  <2>7. QED BY <2>3, <2>4, <2>5, <2>6 DEF Ind
<1>3. QED BY <1>1, <1>2

LEMMA CheckUserInd ==
    ASSUME Ind, NEW w \in Workers, CheckUser(w)
    PROVE  Ind'
<1> DEFINE refused == \/ job[w].user \in deleted
                      \/ Assigned(job[w].user)
                      \/ seen[w].filled >= seen[w].budget
<1>1. CASE refused
  BY <1>1, Leave DEF CheckUser
<1>2. CASE ~refused
  <2>1. /\ pc[w] = "checkUser" /\ Goto(w, "assign")
        /\ UNCHANGED <<rows, lock, job, seen, stranded>>
    BY <1>2 DEF CheckUser
  <2>2. "assign" \in Statements
    BY DEF Statements
  <2>3. TypeOK'
    BY <2>1, <2>2, GotoTypes DEF Ind, TypeOK, rows, Statements
  <2>4. Requests'
    BY <2>1, <2>2, GotoTypes DEF Ind, Requests, RequestOf, rows
  <2>5. seen[w] = position /\ position.filled < position.budget
    BY <1>2, <2>1 DEF Ind, TypeOK, Rows, Locks, UnderLock, Locked
  <2>6. Locks'
    BY <1>2, <2>1, <2>2, <2>5, GotoTypes
       DEF Ind, Locks, UnderLock, Locked, rows, Assigned, ActiveIds
  <2>7. OneAssignmentPerUser' /\ VacanciesShow'
    BY <2>1 DEF Ind, OneAssignmentPerUser, VacanciesShow, ActiveIds, rows
  <2>8. QED BY <2>3, <2>4, <2>6, <2>7 DEF Ind
<1>3. QED BY <1>1, <1>2

\* What the commit of an assignment does to the row.
LEMMA AssignEffect ==
    ASSUME Ind, NEW w \in Workers, CommitAssign(w), job[w].user \notin deleted
    PROVE  /\ position' \in Rows
           /\ position'.filled = position.filled + 1
           /\ position'.budget = position.budget
           /\ position'.filled <= position'.budget
           /\ position'.status = "filled" <=> position'.filled = position'.budget
           /\ \E i \in Ids :
                 /\ assignments[i] = NoRow
                 /\ assignments' = [assignments EXCEPT ![i] =
                                      [user |-> job[w].user, status |-> "active"]]
                 /\ ActiveIds' = ActiveIds \cup {i} /\ i \notin ActiveIds
           /\ job[w].user \in Users /\ ~Assigned(job[w].user)
<1>1. /\ seen[w] = position /\ position.filled < position.budget
      /\ position.status = "active" /\ ~Assigned(job[w].user)
      /\ job[w].user \in Users
  BY DEF CommitAssign, Ind, Locks, UnderLock, Locked, Requests, RequestOf
<1>2. /\ position \in Rows /\ position.filled \in Nat /\ position.budget \in Nat \ {0}
  BY DEF Ind, TypeOK, Rows
<1>3. position' = [position EXCEPT
           !.filled = @ + 1,
           !.status = IF position.filled + 1 >= position.budget THEN "filled" ELSE @]
  BY <1>1 DEF CommitAssign
<1>4. /\ position'.filled = position.filled + 1 /\ position'.budget = position.budget
      /\ position'.status = "filled" <=> position.filled + 1 >= position.budget
      /\ position' \in Rows
  <2>1. CASE position.filled + 1 >= position.budget
    <3>1. position' = [position EXCEPT !.filled = @ + 1, !.status = "filled"]
      BY <1>3, <2>1
    <3>2. position' = [status |-> "filled", budget |-> position.budget,
                       filled |-> position.filled + 1]
      BY <1>1, <1>2, <3>1 DEF Rows
    <3>3. QED BY <1>1, <1>2, <2>1, <3>2 DEF Rows, Statuses
  <2>2. CASE ~(position.filled + 1 >= position.budget)
    <3>1. position' = [position EXCEPT !.filled = @ + 1, !.status = @]
      BY <1>3, <2>2
    <3>2. position' = [status |-> "active", budget |-> position.budget,
                       filled |-> position.filled + 1]
      BY <1>1, <1>2, <3>1 DEF Rows
    <3>3. QED BY <1>1, <1>2, <2>2, <3>2 DEF Rows, Statuses
  <2>3. QED BY <2>1, <2>2
<1>5. PICK i \in Ids :
         /\ assignments[i] = NoRow
         /\ assignments' = [assignments EXCEPT ![i] =
                              [user |-> job[w].user, status |-> "active"]]
  BY DEF CommitAssign
<1>6. ActiveIds' = ActiveIds \cup {i} /\ i \notin ActiveIds
  BY <1>5 DEF ActiveIds, Ind, TypeOK, NoRow
<1>7. /\ position'.filled <= position'.budget
      /\ position'.status = "filled" <=> position'.filled = position'.budget
  BY <1>1, <1>2, <1>4
<1>8. QED BY <1>1, <1>4, <1>5, <1>6, <1>7

LEMMA CommitAssignInd ==
    ASSUME Ind, NEW w \in Workers, CommitAssign(w)
    PROVE  Ind'
<1> SUFFICES ASSUME job[w].user \notin deleted PROVE Ind'
  BY Leave DEF CommitAssign, rows
<1>1. PICK i \in Ids :
         /\ assignments[i] = NoRow
         /\ assignments' = [assignments EXCEPT ![i] =
                              [user |-> job[w].user, status |-> "active"]]
         /\ ActiveIds' = ActiveIds \cup {i} /\ i \notin ActiveIds
  BY AssignEffect
<1>2. /\ pc[w] = "assign" /\ Finish(w) /\ Release(w) /\ UNCHANGED <<deleted, stranded>>
  BY DEF CommitAssign
<1>3. TypeOK'
  <2>1. assignments' \in [Ids -> [user : Users, status : {"active", "ended", "gone"}] \cup {NoRow}]
    BY <1>1, AssignEffect DEF Ind, TypeOK
  <2>2. lock' \in Workers \cup {NoWorker}
    BY <1>2 DEF Ind, TypeOK, Release
  <2>3. QED
    BY <1>2, <2>1, <2>2, AssignEffect, FinishTypes DEF Ind, TypeOK, Statements
<1>4. Requests'
  BY <1>1, <1>2, FinishTypes DEF Ind, TypeOK, Requests, RequestOf, NoRow
<1>5. Locks'
  <2> SUFFICES ASSUME NEW v \in Workers PROVE UnderLock(v)'
    BY DEF Locks
  <2>1. pc'[v] \notin Locked
    BY <1>2, FinishTypes, OneHolder DEF Ind, Locked
  <2>2. QED BY <2>1 DEF UnderLock, Locked
<1>6. OneAssignmentPerUser'
  BY <1>1, AssignEffect DEF Ind, TypeOK, OneAssignmentPerUser, Assigned, ActiveIds
<1>7. VacanciesShow'
  <2>1. Cardinality(ActiveIds') = Cardinality(ActiveIds) + 1
    BY <1>1, ActiveFinite, FS_AddElement
  <2>2. position.filled \in Nat /\ stranded \in Nat
    BY DEF Ind, TypeOK, Rows
  <2>3. QED
    BY <1>2, <2>1, <2>2, AssignEffect, ActiveFinite DEF Ind, VacanciesShow
<1>8. QED BY <1>3, <1>4, <1>5, <1>6, <1>7 DEF Ind

LEMMA FindAssignmentInd ==
    ASSUME Ind, NEW w \in Workers, FindAssignment(w)
    PROVE  Ind'
<1>1. CASE job[w].id \notin ActiveIds
  BY <1>1, Leave DEF FindAssignment
<1>2. CASE job[w].id \in ActiveIds
  <2>1. /\ pc[w] = "findAssignment" /\ Goto(w, "lockForRemove")
        /\ UNCHANGED <<rows, lock, job, seen, stranded>>
    BY <1>2 DEF FindAssignment
  <2>2. "lockForRemove" \in Statements \ Locked
    BY DEF Statements, Locked
  <2>3. RequestOf(w)'
    BY <1>2, <2>1, <2>2, GotoTypes DEF RequestOf, Ind, ActiveIds, rows
  <2>4. QED
    BY <2>1, <2>2, <2>3, Proceed DEF Ind, TypeOK
<1>3. QED BY <1>1, <1>2

LEMMA LockForRemoveInd ==
    ASSUME Ind, NEW w \in Workers, LockForRemove(w)
    PROVE  Ind'
<1>1. /\ Unlocked /\ pc[w] = "lockForRemove" /\ lock' = w
      /\ seen' = [seen EXCEPT ![w] = position]
      /\ Goto(w, "remove") /\ UNCHANGED <<rows, job, stranded>>
  BY DEF LockForRemove
<1>2. "remove" \in Statements
  BY DEF Statements
<1>3. TypeOK'
  BY <1>1, <1>2, GotoTypes DEF Ind, TypeOK, rows, Statements
<1>4. Requests'
  BY <1>1, <1>2, GotoTypes DEF Ind, Requests, RequestOf, rows
<1>5. Locks'
  <2> SUFFICES ASSUME NEW v \in Workers PROVE UnderLock(v)'
    BY DEF Locks
  <2>1. CASE v = w
    BY <1>1, <1>2, <2>1, GotoTypes DEF Ind, TypeOK, UnderLock, rows
  <2>2. CASE v # w
    <3>1. pc'[v] \notin Locked
      BY <1>1, <1>2, <2>2, GotoTypes, NoHolder DEF Ind
    <3>2. QED BY <3>1 DEF UnderLock, Locked
  <2>3. QED BY <2>1, <2>2
<1>6. OneAssignmentPerUser' /\ VacanciesShow'
  BY <1>1 DEF Ind, OneAssignmentPerUser, VacanciesShow, ActiveIds, rows
<1>7. QED BY <1>3, <1>4, <1>5, <1>6 DEF Ind

\* What the commit of a removal does to the row.
LEMMA RemoveEffect ==
    ASSUME Ind, NEW w \in Workers, CommitRemove(w)
    PROVE  /\ position' \in Rows
           /\ position'.filled = (IF position.filled > 0 THEN position.filled - 1
                                                         ELSE position.filled)
           /\ position'.budget = position.budget
           /\ position'.status = "filled" => position'.filled >= position'.budget
           /\ ActiveIds' = ActiveIds \ {job[w].id}
<1>1. /\ seen[w] = position /\ job[w].id \in Ids
      /\ assignments[job[w].id].status \in {"active", "ended", "gone"}
  BY DEF CommitRemove, Ind, Locks, UnderLock, Locked, Requests, RequestOf
<1>2. /\ position \in Rows /\ position.filled \in Nat /\ position.budget \in Nat \ {0}
  BY DEF Ind, TypeOK, Rows
<1> DEFINE left == IF position.filled > 0 THEN position.filled - 1 ELSE position.filled
<1>3. left \in Nat
  BY <1>2
<1>4. position' = [position EXCEPT !.filled = left,
                                   !.status = IF Reopens(position) THEN "active" ELSE @]
  BY <1>1 DEF CommitRemove
<1>5. left = IF position.filled > 0 THEN position.filled - 1 ELSE 0
  BY <1>2
<1> HIDE DEF left
<1>6. ActiveIds' = ActiveIds \ {job[w].id}
  BY <1>1 DEF CommitRemove, ActiveIds, Ind, TypeOK
<1>7. CASE Reopens(position)
  <2>1. position' = [position EXCEPT !.filled = left, !.status = "active"]
    BY <1>7, <1>4
  <2>2. position' = [status |-> "active", budget |-> position.budget, filled |-> left]
    BY <1>2, <2>1 DEF Rows
  <2>3. QED BY <1>2, <1>3, <1>6, <2>2 DEF Rows, Statuses, left
<1>8. CASE ~Reopens(position)
  <2>1. position' = [position EXCEPT !.filled = left, !.status = @]
    BY <1>8, <1>4
  <2>2. position' = [status |-> position.status, budget |-> position.budget,
                     filled |-> left]
    BY <1>2, <2>1 DEF Rows
  <2>3. position' \in Rows
    BY <1>2, <1>3, <2>2 DEF Rows
  <2>4. position.status = "filled" => ~(left < position.budget)
    BY <1>8, <1>5 DEF Reopens
  <2>5. QED BY <1>2, <1>3, <1>6, <2>2, <2>3, <2>4 DEF left
<1>9. QED BY <1>7, <1>8

LEMMA CommitRemoveInd ==
    ASSUME Ind, NEW w \in Workers, CommitRemove(w)
    PROVE  Ind'
<1> DEFINE left == IF assignments[job[w].id].status = "gone" THEN "gone" ELSE "ended"
<1>1. /\ pc[w] = "remove" /\ Finish(w) /\ Release(w) /\ UNCHANGED <<deleted, stranded>>
      /\ assignments' = [assignments EXCEPT ![job[w].id].status =
                            IF @ = "gone" THEN @ ELSE "ended"]
  BY DEF CommitRemove
<1>2. /\ job[w].id \in Ids
      /\ assignments[job[w].id].status \in {"active", "ended", "gone"}
  BY <1>1 DEF Ind, Requests, RequestOf
<1>3. /\ assignments[job[w].id] \in [user : Users, status : {"active", "ended", "gone"}]
      /\ assignments'[job[w].id] =
            [user |-> assignments[job[w].id].user, status |-> left]
      /\ \A i \in Ids \ {job[w].id} : assignments'[i] = assignments[i]
      /\ DOMAIN assignments' = Ids
      /\ assignments' = [i \in Ids |-> assignments'[i]]
  <2>1. assignments[job[w].id] \in [user : Users, status : {"active", "ended", "gone"}]
    BY <1>2 DEF Ind, TypeOK, NoRow
  <2>2. assignments' = [assignments EXCEPT ![job[w].id] =
                           [assignments[job[w].id] EXCEPT !.status = left]]
    BY <1>1
  <2>3. [assignments[job[w].id] EXCEPT !.status = left] =
            [user |-> assignments[job[w].id].user, status |-> left]
    BY <2>1
  <2>4. QED BY <1>2, <2>1, <2>2, <2>3 DEF Ind, TypeOK
<1>4. TypeOK'
  <2>1. assignments' \in [Ids -> [user : Users, status : {"active", "ended", "gone"}] \cup {NoRow}]
    BY <1>3 DEF Ind, TypeOK
  <2>2. lock' \in Workers \cup {NoWorker}
    BY <1>1 DEF Ind, TypeOK, Release
  <2>3. QED
    BY <1>1, <2>1, <2>2, RemoveEffect, FinishTypes DEF Ind, TypeOK, Statements
<1>5. Requests'
  <2>1. \A i \in Ids : assignments[i].status \in {"active", "ended", "gone"} =>
            assignments'[i].status \in {"active", "ended", "gone"}
    BY <1>3
  <2>2. QED BY <1>1, <2>1, FinishTypes DEF Ind, Requests, RequestOf
<1>6. Locks'
  <2> SUFFICES ASSUME NEW v \in Workers PROVE UnderLock(v)'
    BY DEF Locks
  <2>1. pc'[v] \notin Locked
    BY <1>1, FinishTypes, OneHolder DEF Ind, Locked
  <2>2. QED BY <2>1 DEF UnderLock, Locked
<1>7. OneAssignmentPerUser'
  <2>1. \A i \in ActiveIds' : i \in ActiveIds /\ assignments'[i] = assignments[i]
    BY <1>1, <1>2, RemoveEffect DEF ActiveIds, Ind, TypeOK
  <2>2. QED BY <2>1 DEF Ind, OneAssignmentPerUser
<1>8. VacanciesShow'
  <2>1. /\ Cardinality(ActiveIds') \in Nat
        /\ Cardinality(ActiveIds') >= Cardinality(ActiveIds) - 1
    <3>1. Cardinality(ActiveIds') = IF job[w].id \in ActiveIds
                                      THEN Cardinality(ActiveIds) - 1
                                      ELSE Cardinality(ActiveIds)
      BY RemoveEffect, ActiveFinite, FS_RemoveElement
    <3>2. Cardinality(ActiveIds') \in Nat
      <4>1. ActiveIds' \in SUBSET Ids
        BY DEF ActiveIds
      <4>2. QED BY <4>1, IdsFinite
    <3>3. QED BY <3>1, <3>2, ActiveFinite
  <2>2. position.filled \in Nat /\ stranded \in Nat
    BY DEF Ind, TypeOK, Rows
  <2>3. QED
    BY <1>1, <2>1, <2>2, RemoveEffect, ActiveFinite DEF Ind, VacanciesShow
<1>9. QED BY <1>4, <1>5, <1>6, <1>7, <1>8 DEF Ind

LEMMA FindPositionInd ==
    ASSUME Ind, NEW w \in Workers, FindPosition(w)
    PROVE  Ind'
<1>1. CASE Finish(w)
  BY <1>1, Leave DEF FindPosition
<1>2. CASE ~Finish(w)
  <2>1. /\ pc[w] = "findPosition" /\ Goto(w, "writePosition")
        /\ UNCHANGED <<rows, lock, job, seen, stranded>>
    BY <1>2 DEF FindPosition
  <2>2. "writePosition" \in Statements \ Locked
    BY DEF Statements, Locked
  <2>3. RequestOf(w)'
    BY <2>1, <2>2, GotoTypes DEF RequestOf, Ind, Requests
  <2>4. QED
    BY <2>1, <2>2, <2>3, Proceed DEF Ind, TypeOK
<1>3. QED BY <1>1, <1>2

\* A plain UPDATE of the row, when nobody holds it.
LEMMA PlainUpdate ==
    ASSUME Ind, NEW w \in Workers, Unlocked, Finish(w), UNCHANGED <<assignments, deleted, lock>>,
           position' \in Rows, stranded' \in Nat,
           position'.filled <= Cardinality(ActiveIds) + stranded'
    PROVE  Ind'
<1>1. TypeOK'
  BY FinishTypes DEF Ind, TypeOK, Statements
<1>2. Requests'
  BY FinishTypes DEF Ind, Requests, RequestOf
<1>3. Locks'
  <2> SUFFICES ASSUME NEW v \in Workers PROVE UnderLock(v)'
    BY DEF Locks
  <2>1. pc'[v] \notin Locked
    BY FinishTypes, NoHolder DEF Ind, Locked
  <2>2. QED BY <2>1 DEF UnderLock, Locked
<1>4. OneAssignmentPerUser' /\ VacanciesShow'
  BY DEF Ind, OneAssignmentPerUser, VacanciesShow, ActiveIds
<1>5. QED BY <1>1, <1>2, <1>3, <1>4 DEF Ind

LEMMA WritePositionInd ==
    ASSUME Ind, NEW w \in Workers, WritePosition(w)
    PROVE  Ind'
<1> DEFINE b == IF job[w].budget # 0 THEN job[w].budget ELSE position.budget
           t == IF job[w].status # "same" THEN job[w].status ELSE position.status
<1>1. position \in Rows
  BY DEF Ind, TypeOK
<1>2. b \in Nat \ {0} /\ t \in Statuses
  <2>1. /\ job[w].budget \in Budgets \cup {0}
        /\ job[w].status \in Statuses \cup {"same"}
    BY DEF WritePosition, Ind, Requests, RequestOf
  <2>2. \A n \in Budgets : n \in Nat \ {0}
    BY BudgetsOK
  <2>3. b \in Nat \ {0}
    BY <1>1, <2>1, <2>2 DEF Rows
  <2>4. t \in Statuses
    BY <1>1, <2>1 DEF Rows
  <2>5. QED BY <2>3, <2>4
<1>3. position' = [position EXCEPT !.budget = b, !.status = t]
  BY DEF WritePosition
<1>4. position' \in Rows /\ position'.filled = position.filled
  BY <1>1, <1>2, <1>3 DEF Rows
<1>5. QED
  BY <1>4, PlainUpdate DEF WritePosition, Ind, TypeOK, VacanciesShow

LEMMA FindOpenInd ==
    ASSUME Ind, NEW w \in Workers, FindOpen(w)
    PROVE  Ind'
<1>1. CASE Finish(w)
  BY <1>1, Leave DEF FindOpen
<1>2. CASE ~Finish(w)
  <2>1. /\ pc[w] = "findOpen" /\ Goto(w, "endAll")
        /\ UNCHANGED <<rows, lock, job, seen, stranded>>
    BY <1>2 DEF FindOpen
  <2>2. "endAll" \in Statements \ Locked
    BY DEF Statements, Locked
  <2>3. RequestOf(w)'
    BY <2>1, <2>2, GotoTypes DEF RequestOf, Ind
  <2>4. QED
    BY <2>1, <2>2, <2>3, Proceed DEF Ind, TypeOK
<1>3. QED BY <1>1, <1>2

LEMMA EndedRow ==
    ASSUME NEW u \in Users
    PROVE  /\ [user |-> u, status |-> "ended"] \in
                  [user : Users, status : {"active", "ended", "gone"}]
           /\ [user |-> u, status |-> "ended"].status = "ended"
OBVIOUS

LEMMA EndAllInd ==
    ASSUME Ind, NEW w \in Workers, EndAll(w)
    PROVE  Ind'
<1>1. /\ pc[w] = "endAll" /\ Goto(w, "close") /\ UNCHANGED <<position, deleted, lock, job, seen>>
      /\ stranded' = stranded + Cardinality(ActiveIds)
      /\ assignments' = [i \in Ids |->
             IF i \in ActiveIds THEN [assignments[i] EXCEPT !.status = "ended"]
                                ELSE assignments[i]]
  BY DEF EndAll
<1>2. "close" \in Statements \ Locked
  BY DEF Statements, Locked
<1>3. \A i \in Ids :
        /\ i \in ActiveIds =>
              assignments'[i] = [user |-> assignments[i].user, status |-> "ended"]
        /\ i \in ActiveIds => assignments[i].user \in Users
        /\ i \notin ActiveIds => assignments'[i] = assignments[i]
  BY <1>1 DEF ActiveIds, Ind, TypeOK, NoRow
<1>4. ActiveIds' = {}
  <2>1. ASSUME NEW i \in ActiveIds PROVE assignments'[i].status = "ended"
    <3>1. i \in Ids
      BY DEF ActiveIds
    <3>2. /\ assignments'[i] = [user |-> assignments[i].user, status |-> "ended"]
          /\ assignments[i].user \in Users
      BY <1>3, <3>1
    <3>3. QED BY <3>2, EndedRow
  <2>2. QED BY <1>3, <2>1 DEF ActiveIds
<1>5. TypeOK'
  <2>1. assignments' \in [Ids -> [user : Users, status : {"active", "ended", "gone"}] \cup {NoRow}]
    <3> SUFFICES ASSUME NEW i \in Ids
                 PROVE  assignments'[i] \in
                          [user : Users, status : {"active", "ended", "gone"}] \cup {NoRow}
      BY <1>1
    <3>1. CASE i \in ActiveIds
      <4>1. /\ assignments'[i] = [user |-> assignments[i].user, status |-> "ended"]
            /\ assignments[i].user \in Users
        BY <1>3, <3>1
      <4>2. QED BY <4>1, EndedRow
    <3>2. CASE i \notin ActiveIds
      BY <1>3, <3>2 DEF Ind, TypeOK
    <3>3. QED BY <3>1, <3>2
  <2>2. stranded' \in Nat
    BY <1>1, ActiveFinite DEF Ind, TypeOK
  <2>3. QED
    BY <1>1, <1>2, <2>1, <2>2, GotoTypes DEF Ind, TypeOK, Statements
<1>6. Requests'
  BY <1>1, <1>2, <1>3, GotoTypes DEF Ind, Requests, RequestOf
<1>7. Locks'
  BY <1>1, <1>2, <1>4, GotoTypes DEF Ind, Locks, UnderLock, Locked, Assigned
<1>8. OneAssignmentPerUser'
  BY <1>4 DEF OneAssignmentPerUser
<1>9. VacanciesShow'
  BY <1>1, <1>4, FS_EmptySet, ActiveFinite DEF Ind, TypeOK, Rows, VacanciesShow
<1>10. QED BY <1>5, <1>6, <1>7, <1>8, <1>9 DEF Ind

LEMMA CloseInd ==
    ASSUME Ind, NEW w \in Workers, Close(w)
    PROVE  Ind'
<1>1. position' = [position EXCEPT !.status = "closed", !.filled = 0]
  BY DEF Close
<1>2. position' \in Rows /\ position'.filled = 0
  BY <1>1 DEF Ind, TypeOK, Rows, Statuses
<1>3. QED
  BY <1>2, ActiveFinite, PlainUpdate DEF Close

\* An employee is deleted: what the others have checked under the lock stays
\* true, and every active assignment that goes is counted as stranded.
LEMMA DeleteUserInd ==
    ASSUME Ind, NEW u \in Users, DeleteUser(u)
    PROVE  Ind'
<1> DEFINE hers == {i \in ActiveIds : assignments[i].user = u}
<1>1. /\ UNCHANGED <<position, lock, pc, job, seen>>
      /\ deleted' = deleted \cup {u}
      /\ stranded' = stranded + Cardinality(hers)
      /\ assignments' = [i \in Ids |->
             IF assignments[i].user = u THEN [assignments[i] EXCEPT !.status = "gone"]
                                        ELSE assignments[i]]
  BY DEF DeleteUser, reqs
<1>2. ASSUME NEW i \in Ids
      PROVE  /\ assignments[i] # NoRow /\ assignments[i].user = u =>
                    assignments'[i] = [user |-> u, status |-> "gone"]
             /\ assignments[i] = NoRow =>
                    \/ assignments'[i] = NoRow
                    \/ assignments'[i] = [user |-> u, status |-> "gone"]
             /\ assignments[i].user # u => assignments'[i] = assignments[i]
  <2>1. CASE assignments[i].user = u
    <3>1. assignments'[i] = [user |-> u, status |-> "gone"]
      <4>1. assignments'[i] = [assignments[i] EXCEPT !.status = "gone"]
        BY <1>1, <2>1
      <4>2. \/ assignments[i] \in [user : Users, status : {"active", "ended", "gone"}]
            \/ assignments[i] = [user |-> "none", status |-> "none"]
        BY DEF Ind, TypeOK, NoRow
      <4>3. QED BY <4>1, <4>2, <2>1
    <3>2. QED BY <2>1, <3>1
  <2>2. CASE assignments[i].user # u
    BY <1>1, <2>2
  <2>3. QED BY <2>1, <2>2
<1>3. assignments' \in [Ids -> [user : Users, status : {"active", "ended", "gone"}]
                                  \cup {NoRow}]
  <2> SUFFICES ASSUME NEW i \in Ids
               PROVE  assignments'[i] \in
                        [user : Users, status : {"active", "ended", "gone"}] \cup {NoRow}
    BY <1>1
  <2>1. [user |-> u, status |-> "gone"] \in
            [user : Users, status : {"active", "ended", "gone"}]
    OBVIOUS
  <2>2. QED BY <1>2, <2>1 DEF Ind, TypeOK
<1>4. ActiveIds' = ActiveIds \ hers
  <2>1. ASSUME NEW i \in Ids
        PROVE  i \in ActiveIds' <=> i \in ActiveIds /\ assignments[i].user # u
    <3>1. [user |-> u, status |-> "gone"].status # "active"
      OBVIOUS
    <3>2. NoRow.status # "active"
      BY DEF NoRow
    <3>3. QED BY <1>2, <3>1, <3>2 DEF ActiveIds
  <2>2. QED BY <2>1 DEF ActiveIds
<1>5. \A i \in ActiveIds' : i \in ActiveIds /\ assignments'[i] = assignments[i]
  BY <1>2, <1>4 DEF ActiveIds
<1>6. Cardinality(hers) \in Nat /\ Cardinality(ActiveIds') \in Nat
  BY <1>4, IdsFinite DEF ActiveIds
<1>7. Cardinality(ActiveIds') = Cardinality(ActiveIds) - Cardinality(hers)
  <2>1. ActiveIds \cap hers = hers
    OBVIOUS
  <2> HIDE DEF hers
  <2>2. Cardinality(ActiveIds \ hers) =
            Cardinality(ActiveIds) - Cardinality(ActiveIds \cap hers)
    BY ActiveFinite, FS_Difference
  <2>3. QED BY <1>4, <2>1, <2>2
<1> HIDE DEF hers
<1>8. TypeOK'
  BY <1>1, <1>3, <1>6 DEF Ind, TypeOK
<1>9. Requests'
  <2>1. ASSUME NEW i \in Ids, assignments[i].status \in {"active", "ended", "gone"}
        PROVE  assignments'[i].status \in {"active", "ended", "gone"}
    <3>1. assignments[i] # NoRow
      BY <2>1 DEF NoRow
    <3>2. QED BY <1>2, <2>1, <3>1
  <2>2. QED BY <1>1, <2>1 DEF Ind, Requests, RequestOf
<1>10. Locks'
  <2>1. \A v : Assigned(v)' => Assigned(v)
    BY <1>5 DEF Assigned
  <2>2. QED BY <1>1, <2>1 DEF Ind, Locks, UnderLock
<1>11. OneAssignmentPerUser'
  BY <1>5 DEF Ind, OneAssignmentPerUser
<1>12. VacanciesShow'
  <2>1. position.filled \in Nat /\ stranded \in Nat
    BY DEF Ind, TypeOK, Rows
  <2>2. position.filled <= Cardinality(ActiveIds) + stranded
    BY DEF Ind, VacanciesShow
  <2>3. QED
    BY <1>1, <1>6, <1>7, <2>1, <2>2, ActiveFinite DEF VacanciesShow
<1>13. QED BY <1>8, <1>9, <1>10, <1>11, <1>12 DEF Ind

LEMMA NextInd == Ind /\ [Next]_vars => Ind'
<1> SUFFICES ASSUME Ind, [Next]_vars PROVE Ind'
  OBVIOUS
<1>1. CASE UNCHANGED vars
  BY <1>1 DEF vars, rows, reqs, Ind, TypeOK, Requests, RequestOf, Locks, UnderLock,
              Assigned, OneAssignmentPerUser, VacanciesShow, ActiveIds
<1>2. CASE Next
  <2> SUFFICES ASSUME NEW w \in Workers,
                      \/ \E j \in Jobs : Arrive(w, j)
                      \/ Step(w)
                      \/ Abort(w)
               PROVE  Ind'
    BY <1>2, DeleteUserInd DEF Next
  <2>1. CASE \E j \in Jobs : Arrive(w, j) BY <2>1, ArriveInd
  <2>2. CASE Abort(w) BY <2>2, AbortInd
  <2>3. CASE Step(w)
    BY <2>3, LockForAssignInd, CheckUserInd, CommitAssignInd, FindAssignmentInd,
       LockForRemoveInd, CommitRemoveInd, FindPositionInd, WritePositionInd,
       FindOpenInd, EndAllInd, CloseInd DEF Step
  <2>4. QED BY <2>1, <2>2, <2>3
<1>3. QED BY <1>1, <1>2

LEMMA SpecInd == Spec => []Ind
BY InitInd, NextInd, PTL DEF Spec

-----------------------------------------------------------------------------
(***************************************************************************)
(* Theorems.                                                               *)
(***************************************************************************)

\* The position row, the assignment rows and the requests keep their types.
THEOREM PositionTypes == Spec => []TypeOK
<1>1. Ind => TypeOK
  BY DEF Ind
<1>2. QED BY <1>1, SpecInd, PTL

\* The row lock of assignUserToPosition is enough to keep every employee from
\* a second active assignment, though no constraint of the table does.
THEOREM NoDoubleAssignment == Spec => []OneAssignmentPerUser
<1>1. Ind => OneAssignmentPerUser
  BY DEF Ind
<1>2. QED BY <1>1, SpecInd, PTL

\* The headcount only ever errs towards vacancies that are taken, never
\* towards hiding one, apart from the assignments that an unfinished deletion
\* of the position has ended or that went with a deleted employee.
THEOREM NoHiddenVacancy == Spec => []VacanciesShow
<1>1. Ind => VacanciesShow
  BY DEF Ind
<1>2. QED BY <1>1, SpecInd, PTL

\* Every step of the invariant keeps to the budget and the status.
LEMMA StepsFollow == Ind /\ [Next]_vars => AssignsWithinBudget /\ StatusFollows
<1> SUFFICES ASSUME Ind, [Next]_vars PROVE AssignsWithinBudget /\ StatusFollows
  OBVIOUS
<1> USE DEF AssignsWithinBudget, StatusFollows
<1>1. position \in Rows /\ position.filled \in Nat
  BY DEF Ind, TypeOK, Rows
<1>2. CASE position' = position
  BY <1>1, <1>2
<1>3. ASSUME NEW w \in Workers, CommitAssign(w)
      PROVE  AssignsWithinBudget /\ StatusFollows
  <2>1. CASE job[w].user \in deleted
    BY <1>2, <1>3, <2>1 DEF CommitAssign
  <2>2. CASE job[w].user \notin deleted
    BY <1>1, <1>3, <2>2, AssignEffect
  <2>3. QED BY <2>1, <2>2
<1>4. ASSUME NEW w \in Workers, CommitRemove(w)
      PROVE  AssignsWithinBudget /\ StatusFollows
  <2>1. ~(position'.filled > position.filled)
    BY <1>1, <1>4, RemoveEffect
  <2>2. QED BY <1>4, <2>1, RemoveEffect
<1>5. ASSUME NEW w \in Workers, WritePosition(w)
      PROVE  AssignsWithinBudget /\ StatusFollows
  <2>1. position'.filled = position.filled
    BY <1>1, <1>5 DEF WritePosition, Rows
  <2>2. QED BY <1>1, <2>1
<1>6. ASSUME NEW w \in Workers, Close(w)
      PROVE  AssignsWithinBudget /\ StatusFollows
  <2>1. position'.filled = 0 /\ position'.status = "closed"
    BY <1>1, <1>6 DEF Close, Rows
  <2>2. QED BY <1>1, <2>1
<1>7. QED
  <2>1. CASE UNCHANGED vars
    BY <1>2, <2>1 DEF vars, rows
  <2>2. CASE Next
    BY <1>2, <1>3, <1>4, <1>5, <1>6, <2>2
       DEF Next, Step, Arrive, Abort, LockForAssign, CheckUser, FindAssignment,
           LockForRemove, FindPosition, FindOpen, EndAll, DeleteUser, rows
  <2>3. QED BY <2>1, <2>2

\* No assignment takes the headcount over the budget, however updates of the
\* budget and stale removals came before it.
THEOREM BudgetKept == Spec => AssignKeepsBudget
<1>1. Ind /\ [Next]_vars => [AssignsWithinBudget]_vars
  BY StepsFollow
<1>2. QED BY <1>1, SpecInd, PTL DEF Spec, AssignKeepsBudget

\* The status follows every change of the headcount.
THEOREM StatusKept == Spec => StatusFollowsHeadcount
<1>1. Ind /\ [Next]_vars => [StatusFollows]_vars
  BY StepsFollow
<1>2. QED BY <1>1, SpecInd, PTL DEF Spec, StatusFollowsHeadcount
=============================================================================
