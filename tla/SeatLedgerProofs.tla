-------------------------- MODULE SeatLedgerProofs --------------------------
(***************************************************************************)
(* Proofs about SeatLedger, for any finite set of requests and of users.   *)
(***************************************************************************)
EXTENDS SeatLedger, FiniteSetTheorems, TLAPS

(***************************************************************************)
(* The statements a request of each kind can be at.                        *)
(***************************************************************************)
Body ==
    LET capped == {"findSub", "count", "exists", "insert", "increment"}
        direct == {"findSeat", "delete", "decrement"}
        viaSub == {"findSub", "findSeat", "delete", "decrement"}
    IN  [assign |-> capped, enable |-> capped, moduleAdded |-> capped,
         biometric |-> capped \cup {"grow"},
         payroll   |-> capped \ {"count"},
         revoke |-> direct, disable |-> direct,
         moduleRemoved |-> viaSub, biometricRelease |-> viaSub,
         sync   |-> {"findSub", "count", "countUsers", "writeUsed"},
         update |-> {"findRow", "writeTotal"},
         cancel |-> {"findRow", "writeCancelled", "sweep"},
         create |-> {"findForCreate", "insertRow", "reactivate"}]

\* A worker is either idle, or inside the routine its request asked for.
InRoutine ==
    \A w \in Workers :
        IF pc[w] = "idle"
          THEN job[w] = NoJob
          ELSE /\ job[w] \in Jobs
               /\ job[w].kind \in EntryPoints
               /\ pc[w] \in Body[job[w].kind]

LEMMA Flow ==
    ASSUME NEW k \in Routines
    PROVE  /\ Body[k] \subseteq Statements
           /\ Routine[k].start \in Body[k] \ {"count", "countUsers", "exists", "grow",
                                             "insert"}
           /\ \A s \in Body[k] \ {"increment", "decrement", "writeUsed",
                    "writeTotal", "sweep", "findForCreate", "insertRow",
                    "reactivate"} : Routine[k][s] \in Body[k]
<1> USE DEF Body, Routine, Statements, CappedGrants
<1>1. CASE k = "assign" BY <1>1 DEF AssignSeat
<1>2. CASE k = "enable" BY <1>2 DEF EnableUserForModule
<1>3. CASE k = "moduleAdded" BY <1>3 DEF ModuleSeatAdded
<1>4. CASE k = "biometric" BY <1>4 DEF EnsureBiometricSeat
<1>5. CASE k = "payroll" BY <1>5 DEF AutoAssignPayrollSeat
<1>6. CASE k = "revoke" BY <1>6 DEF RevokeSeat
<1>7. CASE k = "disable" BY <1>7 DEF DisableUserForModule
<1>8. CASE k = "moduleRemoved" BY <1>8 DEF ModuleSeatRemoved
<1>9. CASE k = "biometricRelease" BY <1>9 DEF ReleaseBiometricSeat
<1>10. CASE k = "sync" BY <1>10 DEF SyncUsedSeats
<1>11. CASE k = "update" BY <1>11 DEF UpdateSubscription
<1>12. CASE k = "cancel" BY <1>12 DEF CancelSubscription
<1>13. CASE k = "create" BY <1>13 DEF CreateSubscription
<1>14. QED
  BY <1>1, <1>2, <1>3, <1>4, <1>5, <1>6, <1>7, <1>8, <1>9, <1>10, <1>11,
     <1>12, <1>13 DEF Routines, Grants, UncappedGrants, Revocations, Resizes

\* Where the statements that matter for admission lead to.
LEMMA FlowTargets ==
    ASSUME NEW k \in Routines
    PROVE  /\ "findSub" \in Body[k] =>
                /\ Routine[k]["findSub"] \notin {"grow", "insert"}
                /\ Routine[k]["findSub"] = "exists" => k \notin {"assign", "enable"}
           /\ "findSeat" \in Body[k] => Routine[k]["findSeat"] = "delete"
           /\ "delete" \in Body[k] => Routine[k]["delete"] = "decrement"
           /\ "findRow" \in Body[k] =>
                Routine[k]["findRow"] \in {"writeTotal", "writeCancelled"}
           /\ "writeCancelled" \in Body[k] => Routine[k]["writeCancelled"] = "sweep"
           /\ k \in {"moduleAdded", "biometric"} => Routine[k]["exists"] = "count"
           /\ "insert" \in Body[k] => Routine[k]["insert"] = "increment"
           /\ k = "sync" => /\ Routine[k]["count"] = "writeUsed"
                            /\ Routine[k]["countUsers"] = "writeUsed"
<1> USE DEF Body, Routine, Statements, CappedGrants
<1>1. CASE k = "assign" BY <1>1 DEF AssignSeat
<1>2. CASE k = "enable" BY <1>2 DEF EnableUserForModule
<1>3. CASE k = "moduleAdded" BY <1>3 DEF ModuleSeatAdded
<1>4. CASE k = "biometric" BY <1>4 DEF EnsureBiometricSeat
<1>5. CASE k = "payroll" BY <1>5 DEF AutoAssignPayrollSeat
<1>6. CASE k = "revoke" BY <1>6 DEF RevokeSeat
<1>7. CASE k = "disable" BY <1>7 DEF DisableUserForModule
<1>8. CASE k = "moduleRemoved" BY <1>8 DEF ModuleSeatRemoved
<1>9. CASE k = "biometricRelease" BY <1>9 DEF ReleaseBiometricSeat
<1>10. CASE k = "sync" BY <1>10 DEF SyncUsedSeats
<1>11. CASE k = "update" BY <1>11 DEF UpdateSubscription
<1>12. CASE k = "cancel" BY <1>12 DEF CancelSubscription
<1>13. CASE k = "create" BY <1>13 DEF CreateSubscription
<1>14. QED
  BY <1>1, <1>2, <1>3, <1>4, <1>5, <1>6, <1>7, <1>8, <1>9, <1>10, <1>11,
     <1>12, <1>13 DEF Routines, Grants, UncappedGrants, Revocations, Resizes

\* Only a synchronisation counts users.
LEMMA CountsUsers ==
    ASSUME NEW k \in Routines, "countUsers" \in Body[k]
    PROVE  k = "sync"
BY DEF Body, Routines, Grants, CappedGrants, UncappedGrants, Revocations, Resizes

-----------------------------------------------------------------------------
(***************************************************************************)
(* Types.  A statement never runs outside its routine, which is what makes *)
(* the next statement and the arguments it uses well defined.              *)
(***************************************************************************)
ReqOK ==
    /\ pc \in [Workers -> Statements \cup {"idle"}]
    /\ job \in [Workers -> Jobs \cup {NoJob}]
    /\ seen \in [Workers -> Readings]
    /\ InRoutine

LEMMA NoJobKind ==
    NoJob.kind = "none" /\ "none" \notin Routines /\ "idle" \notin Statements
BY DEF NoJob, Routines, Grants, CappedGrants, UncappedGrants, Revocations,
       Resizes, Statements

LEMMA JobKinds ==
    ASSUME NEW j \in Jobs
    PROVE  j.kind \in Routines /\ j.total \in Nat
<1>1. j.total \in Totals \cup {0}
  BY DEF Jobs
<1>2. j.kind \in Routines
  BY DEF Jobs, Routines
<1>3. j.total \in Nat
  <2>1. \A n \in Totals \cup {0} : n \in Nat
    BY TotalsOK
  <2>2. QED BY <1>1, <2>1
<1>4. QED BY <1>2, <1>3

LEMMA NothingIsReading == Nothing \in Readings
BY DEF Nothing, Readings, Statuses

\* A busy worker is inside one of the routines exercised.
LEMMA BusyKind ==
    ASSUME ReqOK, NEW w \in Workers, pc[w] # "idle"
    PROVE  /\ job[w] \in Jobs
           /\ job[w].kind \in EntryPoints
           /\ job[w].kind \in Routines
           /\ pc[w] \in Body[job[w].kind]
<1>1. /\ job[w] \in Jobs /\ job[w].kind \in EntryPoints
      /\ pc[w] \in Body[job[w].kind]
  BY DEF ReqOK, InRoutine
<1>2. QED BY <1>1, JobKinds

LEMMA GotoOK ==
    ASSUME ReqOK, NEW w \in Workers, pc[w] # "idle",
           NEW s \in Body[job[w].kind], NEW r \in Readings, Goto(w, s, r)
    PROVE  ReqOK'
<1>1. s \in Statements /\ s # "idle"
  BY BusyKind, Flow, NoJobKind
<1>2. pc' \in [Workers -> Statements \cup {"idle"}] /\ seen' \in [Workers -> Readings]
  BY <1>1 DEF ReqOK, Goto
<1>3. job' = job
  BY DEF Goto
<1>4. ASSUME NEW v \in Workers
      PROVE  IF pc'[v] = "idle"
               THEN job'[v] = NoJob
               ELSE /\ job'[v] \in Jobs
                    /\ job'[v].kind \in EntryPoints
                    /\ pc'[v] \in Body[job'[v].kind]
  <2>1. CASE v = w
    BY <1>1, <1>3, <2>1, BusyKind DEF ReqOK, Goto
  <2>2. CASE v # w
    <3>1. pc'[v] = pc[v]
      BY <2>2 DEF ReqOK, Goto
    <3>2. QED BY <1>3, <3>1 DEF ReqOK, InRoutine
  <2>3. QED BY <2>1, <2>2
<1>5. QED BY <1>2, <1>3, <1>4 DEF ReqOK, InRoutine

LEMMA AdvanceOK ==
    ASSUME ReqOK, NEW w \in Workers, NEW r \in Readings, Advance(w, r),
           pc[w] # "idle",
           pc[w] \notin {"increment", "decrement", "writeUsed",
                "writeTotal", "sweep", "findForCreate", "insertRow", "reactivate"}
    PROVE  ReqOK'
<1>1. After(w) \in Body[job[w].kind]
  BY BusyKind, Flow DEF After
<1>2. QED BY <1>1, GotoOK DEF Advance

LEMMA FinishOK ==
    ASSUME ReqOK, NEW w \in Workers, Finish(w)
    PROVE  ReqOK'
BY NothingIsReading DEF ReqOK, InRoutine, Finish

RowOK ==
    /\ status \in Statuses
    /\ total_seats \in Nat /\ used_seats \in Int
    /\ seats \in [Users -> Nat] /\ nextSeatId \in Nat \ {0}
    /\ deleted \subseteq Users /\ seatless \in BOOLEAN
    /\ peak \in Nat /\ tainted \in BOOLEAN /\ swept \in BOOLEAN
    /\ rowless \in Nat

LEMMA TypeParts == TypeOK /\ InRoutine <=> RowOK /\ ReqOK
BY DEF TypeOK, RowOK, ReqOK

LEMMA SeatedFinite ==
    /\ IsFiniteSet(Seated) /\ Cardinality(Seated) \in Nat
    /\ Cardinality(Workers) \in Nat /\ Cardinality(Workers) # 0
    /\ \A S \in SUBSET Workers : IsFiniteSet(S) /\ Cardinality(S) \in Nat
<1>1. IsFiniteSet(Seated)
  BY UsersFinite, FS_Subset DEF Seated
<1>2. \A S \in SUBSET Workers : IsFiniteSet(S)
  BY WorkersFinite, FS_Subset
<1>3. QED
  BY <1>1, <1>2, WorkersFinite, FS_CardinalityType, FS_EmptySet

LEMMA EmployeesLeft ==
    Cardinality(Users \ deleted) \in Nat
BY UsersFinite, FS_Subset, FS_CardinalityType

\* What a statement reads fits the columns it is read from.
LEMMA ReadingsOK ==
    /\ \A n \in Nat, i \in Int :
          [Nothing EXCEPT !.total = n, !.used = i] \in Readings
    /\ \A n \in Nat : /\ [Nothing EXCEPT !.count = n] \in Readings
                      /\ [Nothing EXCEPT !.seat = n] \in Readings
<1>1. ASSUME NEW n \in Nat, NEW i \in Int
      PROVE  [Nothing EXCEPT !.total = n, !.used = i] \in Readings
  BY DEF Nothing, Readings, Statuses
<1>2. ASSUME NEW n \in Nat
      PROVE  /\ [Nothing EXCEPT !.count = n] \in Readings
             /\ [Nothing EXCEPT !.seat = n] \in Readings
  BY DEF Nothing, Readings, Statuses
<1>3. QED BY <1>1, <1>2

\* The statements that use the user of the request belong to requests that
\* name one.
LEMMA NamesUser ==
    ASSUME ReqOK, NEW w \in Workers,
           pc[w] \in {"exists", "insert", "findSeat", "delete"}
    PROVE  job[w].user \in Users
<1>1. /\ job[w] \in Jobs /\ job[w].kind \in Routines
      /\ pc[w] \in Body[job[w].kind]
  BY BusyKind
<1>2. job[w].kind \notin Resizes \cup {"sync", "cancel"}
  BY <1>1 DEF Body, Resizes
<1>3. job[w].kind \in Grants \cup Revocations
  BY <1>1, <1>2 DEF Routines
<1>4. job[w].user \in Users
  BY <1>1, <1>3 DEF Jobs, Resizes, Grants, CappedGrants, UncappedGrants,
     Revocations
<1>5. QED BY <1>4

LEMMA RequestStep ==
    ASSUME RowOK, ReqOK, NEW w \in Workers, Step(w)
    PROVE  ReqOK'
<1>1. seen[w] \in Readings
  BY DEF ReqOK
<1>2. CASE FindSubscription(w)
  <2> DEFINE total == IF job[w].kind \in Grants THEN total_seats ELSE 0
             used  == IF job[w].kind = "sync" THEN used_seats ELSE 0
  <2>1. total \in Nat /\ used \in Int
    BY DEF RowOK
  <2>2. [Nothing EXCEPT !.total = total, !.used = used] \in Readings
    BY <2>1, ReadingsOK
  <2>3. QED BY <1>2, <2>2, AdvanceOK, FinishOK DEF FindSubscription
<1>3. CASE FindExisting(w)
  BY <1>1, <1>3, AdvanceOK, FinishOK DEF FindExisting
<1>4. CASE FindSeat(w)
  <2>1. seats[job[w].user] \in Nat
    BY <1>4, NamesUser DEF FindSeat, RowOK
  <2>2. QED BY <1>4, <2>1, ReadingsOK, AdvanceOK, FinishOK DEF FindSeat
<1>5. CASE FindRow(w)
  <2>1. RowAsRead \in Readings
    BY DEF RowAsRead, Readings, RowOK
  <2>2. QED BY <1>5, <2>1, NothingIsReading, AdvanceOK, FinishOK DEF FindRow
<1>6. CASE CountForGrant(w)
  BY <1>1, <1>6, AdvanceOK, FinishOK DEF CountForGrant
<1>7. CASE CountForBiometric(w)
  <2>1. "grow" \in Body[job[w].kind]
    BY <1>7 DEF CountForBiometric, Body
  <2>2. [Nothing EXCEPT !.count = Cardinality(Seated)] \in Readings
    BY SeatedFinite, ReadingsOK
  <2>3. QED
    BY <1>1, <1>7, <2>1, <2>2, GotoOK, AdvanceOK DEF CountForBiometric
<1>8. CASE CountForSync(w)
  <2>1. [Nothing EXCEPT !.count = Cardinality(Seated)] \in Readings
    BY SeatedFinite, ReadingsOK
  <2>2. "countUsers" \in Body[job[w].kind]
    BY <1>8 DEF CountForSync, Body
  <2>3. QED
    BY <1>1, <1>8, <2>1, <2>2, GotoOK, AdvanceOK, FinishOK
    DEF CountForSync, Settle
<1>9. CASE GrowTotal(w)
  BY <1>1, <1>9, AdvanceOK DEF GrowTotal
<1>10. CASE InsertSeat(w)
  BY <1>10, NothingIsReading, AdvanceOK, FinishOK DEF InsertSeat
<1>11. CASE IncrementUsed(w) BY <1>11, FinishOK DEF IncrementUsed
<1>12. CASE DeleteSeat(w)
  BY <1>12, NothingIsReading, AdvanceOK DEF DeleteSeat
<1>13. CASE DecrementUsed(w) BY <1>13, FinishOK DEF DecrementUsed
<1>14. CASE WriteUsed(w) BY <1>14, FinishOK DEF WriteUsed
<1>15. CASE WriteTotal(w) BY <1>15, FinishOK DEF WriteTotal
<1>16. CASE WriteCancelled(w) BY <1>1, <1>16, AdvanceOK DEF WriteCancelled
<1>17. CASE SweepSeats(w) BY <1>17, FinishOK DEF SweepSeats
<1>18. CASE FindForCreate(w)
  <2>1. {"insertRow", "reactivate"} \subseteq Body[job[w].kind]
    BY <1>18, BusyKind DEF FindForCreate, Body, Routines, Grants, CappedGrants,
       UncappedGrants, Revocations, Resizes
  <2>2. QED BY <1>1, <1>18, <2>1, GotoOK, FinishOK DEF FindForCreate
<1>19. CASE InsertRow(w) BY <1>19, FinishOK DEF InsertRow
<1>20. CASE Reactivate(w) BY <1>20, FinishOK DEF Reactivate
<1>21. CASE CountUsers(w)
  <2>1. PICK n \in 0 .. Cardinality(Users \ deleted) : Settle(w, n)
    BY <1>21 DEF CountUsers
  <2>2. n \in Nat
    BY EmployeesLeft
  <2>3. [Nothing EXCEPT !.count = n] \in Readings
    BY <2>2, ReadingsOK
  <2>4. QED
    BY <1>21, <2>1, <2>3, AdvanceOK, FinishOK DEF CountUsers, Settle
<1>22. QED
  BY <1>2, <1>3, <1>4, <1>5, <1>6, <1>7, <1>8, <1>9, <1>10, <1>11, <1>12,
     <1>13, <1>14, <1>15, <1>16, <1>17, <1>18, <1>19, <1>20, <1>21 DEF Step

LEMMA SetTotalOK ==
    ASSUME NEW n \in Nat, peak \in Nat, SetTotal(n)
    PROVE  /\ total_seats' \in Nat /\ peak' \in Nat
           /\ total_seats' <= peak' /\ peak <= peak'
BY DEF SetTotal, Larger

LEMMA SetStatusOK ==
    ASSUME NEW s \in Statuses, swept \in BOOLEAN, SetStatus(s)
    PROVE  status' \in Statuses /\ swept' \in BOOLEAN
BY DEF SetStatus

LEMMA BusyTotal ==
    ASSUME ReqOK, NEW w \in Workers, pc[w] # "idle"
    PROVE  job[w].total \in Nat
BY BusyKind, JobKinds

LEMMA RowStep ==
    ASSUME RowOK, ReqOK, NEW w \in Workers, Step(w)
    PROVE  RowOK'
<1>1. seen[w].count \in Nat
  BY DEF ReqOK, Readings
<1>2. Settable \subseteq Statuses /\ Live \subseteq Statuses /\ "cancelled" \in Statuses
  BY DEF Statuses, Settable
<1>3. ASSUME UNCHANGED <<rowVars, seatVars, histVars>> PROVE RowOK'
  BY <1>3 DEF RowOK, rowVars, seatVars, histVars
<1> USE DEF RowOK, rowVars, seatVars, histVars
<1>4. CASE FindSubscription(w) BY <1>3, <1>4 DEF FindSubscription
<1>5. CASE FindExisting(w) BY <1>3, <1>5 DEF FindExisting
<1>6. CASE FindSeat(w) BY <1>3, <1>6 DEF FindSeat
<1>7. CASE FindRow(w) BY <1>3, <1>7 DEF FindRow
<1>8. CASE CountForGrant(w) BY <1>3, <1>8 DEF CountForGrant
<1>9. CASE CountForBiometric(w) BY <1>3, <1>9 DEF CountForBiometric
<1>10. CASE CountForSync(w) BY <1>3, <1>10 DEF CountForSync
<1>11. CASE FindForCreate(w) BY <1>3, <1>11 DEF FindForCreate
<1>12. CASE GrowTotal(w)
  <2>1. seen[w].count + 1 \in Nat
    BY <1>1
  <2>2. QED BY <1>12, <2>1, SetTotalOK DEF GrowTotal
<1>13. CASE InsertSeat(w) BY <1>13 DEF InsertSeat
<1>14. CASE IncrementUsed(w) BY <1>14 DEF IncrementUsed
<1>15. CASE DeleteSeat(w)
  <2>1. job[w].user \in Users
    BY <1>15, NamesUser DEF DeleteSeat
  <2>2. QED BY <1>15, <2>1 DEF DeleteSeat
<1>16. CASE DecrementUsed(w) BY <1>16 DEF DecrementUsed
<1>17. CASE WriteUsed(w) BY <1>1, <1>17 DEF WriteUsed
<1>18. CASE WriteTotal(w)
  <2>1. job[w].total \in Nat
    BY <1>18, BusyTotal DEF WriteTotal
  <2>2. total_seats' \in Nat /\ peak' \in Nat
    BY <1>18, <2>1, SetTotalOK DEF WriteTotal
  <2>3. status' \in Statuses /\ swept' \in BOOLEAN
    BY <1>2, <1>18, SetStatusOK DEF WriteTotal
  <2>4. QED BY <1>18, <2>2, <2>3 DEF WriteTotal
<1>19. CASE WriteCancelled(w)
  BY <1>2, <1>19, SetStatusOK DEF WriteCancelled
<1>20. CASE SweepSeats(w) BY <1>20 DEF SweepSeats
<1>21. CASE InsertRow(w)
  <2>1. job[w].total \in Nat
    BY <1>21, BusyTotal DEF InsertRow
  <2>2. QED BY <1>2, <1>21, <2>1, SetTotalOK, SetStatusOK DEF InsertRow
<1>22. CASE Reactivate(w)
  <2>1. job[w].total \in Nat
    BY <1>22, BusyTotal DEF Reactivate
  <2>2. QED BY <1>2, <1>22, <2>1, SetTotalOK, SetStatusOK DEF Reactivate
<1>23. CASE CountUsers(w) BY <1>3, <1>23 DEF CountUsers
<1>24. QED
  BY <1>4, <1>5, <1>6, <1>7, <1>8, <1>9, <1>10, <1>11, <1>12, <1>13, <1>14,
     <1>15, <1>16, <1>17, <1>18, <1>19, <1>20, <1>21, <1>22, <1>23 DEF Step

\* The external writes leave seats and requests alone and set a legal status
\* and a legal total.
LEMMA RowWriteEffect ==
    ASSUME RowOK, RowWrites
    PROVE  /\ RowOK'
           /\ UNCHANGED <<seatVars, reqVars>>
           /\ status # "none"
           /\ swept' = (swept /\ status' \notin Live)
           /\ peak <= peak'
           /\ total_seats <= peak => total_seats' <= peak'
<1> USE DEF RowOK, External, SetStatus, seatVars, Statuses, Settable, Live
<1>1. CASE BillingCancelled BY <1>1 DEF BillingCancelled
<1>2. CASE BillingPastDue BY <1>2 DEF BillingPastDue
<1>3. CASE BillingPaid BY <1>3 DEF BillingPaid
<1>4. CASE AdminUpdate
  <2>1. PICK s \in Settable, n \in Totals \cup {0, total_seats} :
          /\ External(s) /\ SetTotal(n)
          /\ tainted' = (tainted \/ ~AllIdle \/ LeavesDrift(s)
                              \/ n < Cardinality(Seated))
    BY <1>4 DEF AdminUpdate
  <2>2. n \in Nat
    BY TotalsOK
  <2>3. QED BY <2>1, <2>2, SetTotalOK
<1>5. QED BY <1>1, <1>2, <1>3, <1>4 DEF RowWrites

LEMMA ArriveOK ==
    ASSUME RowOK, ReqOK, NEW w \in Workers, NEW j \in Jobs, Arrive(w, j)
    PROVE  RowOK' /\ ReqOK'
<1>1. /\ j.kind \in Routines /\ Routine[j.kind].start \in Body[j.kind]
      /\ Routine[j.kind].start \in Statements
      /\ Routine[j.kind].start # "idle"
  <2>1. j.kind \in Routines
    BY JobKinds
  <2>2. QED BY <2>1, Flow, NoJobKind
<1>2. RowOK'
  BY DEF Arrive, RowOK, rowVars, seatVars
<1>3. ReqOK'
  <2>1. pc' \in [Workers -> Statements \cup {"idle"}]
    BY <1>1 DEF Arrive, ReqOK
  <2>2. job' \in [Workers -> Jobs \cup {NoJob}] /\ seen' \in [Workers -> Readings]
    BY DEF Arrive, ReqOK
  <2>3. InRoutine'
    BY <1>1 DEF Arrive, ReqOK, InRoutine
  <2>4. QED BY <2>1, <2>2, <2>3 DEF ReqOK
<1>4. QED BY <1>2, <1>3

LEMMA DeletionOK ==
    ASSUME RowOK, ReqOK, NEW u \in Users, DeleteUser(u)
    PROVE  RowOK' /\ ReqOK'
<1>1. RowOK'
  BY DEF RowOK, DeleteUser, rowVars
<1>2. ReqOK'
  BY DEF ReqOK, InRoutine, DeleteUser, reqVars
<1>3. QED BY <1>1, <1>2

\* The inductive step, shared by the theorems below.
LEMMA TypeStep ==
    ASSUME RowOK, ReqOK, [Next]_vars
    PROVE  RowOK' /\ ReqOK'
<1>1. ASSUME NEW w \in Workers, NEW j \in Jobs, Arrive(w, j)
      PROVE  RowOK' /\ ReqOK'
  BY <1>1, ArriveOK
<1>2. ASSUME NEW w \in Workers, Step(w)
      PROVE  RowOK' /\ ReqOK'
  BY <1>2, RowStep, RequestStep
<1>3. ASSUME NEW w \in Workers, Abort(w)
      PROVE  RowOK' /\ ReqOK'
  <2>1. ReqOK'
    BY <1>3, FinishOK DEF Abort
  <2>2. RowOK'
    BY <1>3 DEF Abort, RowOK, rowVars, seatVars
  <2>3. QED BY <2>1, <2>2
<1>4. CASE RowWrites
  <2>1. UNCHANGED <<pc, job, seen>>
    BY <1>4, RowWriteEffect DEF reqVars
  <2>2. ReqOK'
    BY <2>1 DEF ReqOK, InRoutine
  <2>3. QED BY <1>4, <2>2, RowWriteEffect
<1>5. CASE UNCHANGED vars
  BY <1>5 DEF vars, rowVars, seatVars, reqVars, histVars, RowOK, ReqOK, InRoutine
<1>6. ASSUME NEW u \in Users, DeleteUser(u)
      PROVE  RowOK' /\ ReqOK'
  BY <1>6, DeletionOK
<1>7. QED BY <1>1, <1>2, <1>3, <1>4, <1>5, <1>6 DEF Next

LEMMA TypeInit == Init => RowOK /\ ReqOK
<1> SUFFICES ASSUME Init PROVE RowOK /\ ReqOK
  OBVIOUS
<1>1. RowOK
  <2>1. status \in Statuses
    BY DEF Init, Statuses
  <2>2. /\ seats \in [Users -> Nat] /\ nextSeatId \in Nat \ {0}
        /\ total_seats \in Nat /\ used_seats \in Int /\ peak \in Nat
    BY DEF Init
  <2>3. /\ tainted \in BOOLEAN /\ swept \in BOOLEAN /\ rowless \in Nat
        /\ deleted \subseteq Users /\ seatless \in BOOLEAN
    BY DEF Init
  <2>4. QED BY <2>1, <2>2, <2>3 DEF RowOK
<1>2. ReqOK
  BY NothingIsReading DEF Init, ReqOK, InRoutine
<1>3. QED BY <1>1, <1>2

\* Rows, counters and requests stay within the values the code writes, and a
\* request only ever runs statements of the routine it entered.
THEOREM TypeCorrect == Spec => [](TypeOK /\ InRoutine)
<1>1. Init => TypeOK /\ InRoutine
  BY TypeInit, TypeParts
<1>2. TypeOK /\ InRoutine /\ [Next]_vars => (TypeOK /\ InRoutine)'
  BY TypeStep, TypeParts DEF TypeOK, InRoutine, RowOK, ReqOK
<1>3. QED BY <1>1, <1>2, PTL DEF Spec

-----------------------------------------------------------------------------
(***************************************************************************)
(* Only a sweep, the request that looked a row up, or the deletion of its   *)
(* user removes it.                                                        *)
(***************************************************************************)
LEMMA RemovalStep ==
    ASSUME RowOK, ReqOK, [Next]_vars, NEW u \in Users,
           seats[u] # 0, seats'[u] = 0
    PROVE  \/ u \in deleted'
           \/ \E w \in Workers : pc[w] = "sweep" \/ seen[w].seat = seats[u]
<1>1. seats # seats'
  OBVIOUS
<1>2. ~RowWrites /\ ~UNCHANGED vars
  BY <1>1, RowWriteEffect DEF vars, seatVars
<1> SUFFICES ASSUME \A v \in Users : ~DeleteUser(v)
             PROVE  \E w \in Workers : pc[w] = "sweep" \/ seen[w].seat = seats[u]
  <2>1. ASSUME NEW v \in Users, DeleteUser(v) PROVE u \in deleted'
    BY <2>1 DEF DeleteUser, RowOK
  <2>2. QED BY <2>1
<1>3. PICK w \in Workers : (\E j \in Jobs : Arrive(w, j)) \/ Step(w) \/ Abort(w)
  BY <1>2 DEF Next
<1>4. InsertSeat(w) \/ DeleteSeat(w) \/ SweepSeats(w)
  BY <1>1, <1>3 DEF Arrive, Abort, Step, seatVars, FindSubscription,
     FindExisting, FindSeat, FindRow, CountForGrant, CountForBiometric,
     CountForSync, CountUsers, GrowTotal, IncrementUsed, DecrementUsed,
     WriteUsed, WriteTotal, WriteCancelled, FindForCreate, InsertRow, Reactivate
<1>5. CASE InsertSeat(w)
  BY <1>5 DEF InsertSeat, seatVars, RowOK
<1>6. CASE DeleteSeat(w)
  BY <1>6 DEF DeleteSeat, RowOK
<1>7. CASE SweepSeats(w)
  BY <1>7 DEF SweepSeats
<1>8. QED BY <1>4, <1>5, <1>6, <1>7

\* A seat granted while an older one of the same user is being revoked
\* survives, whatever the number of requests and users.
THEOREM RevocationSafe == Spec => RevokesWhatItSaw
<1>1. Init => RowOK /\ ReqOK
  BY TypeInit
<1>2. (RowOK /\ ReqOK) /\ [Next]_vars => (RowOK /\ ReqOK)'
  BY TypeStep
<1>3. (RowOK /\ ReqOK) /\ [Next]_vars => [RemovesWhatWasSeen]_vars
  BY RemovalStep DEF RemovesWhatWasSeen
<1>4. QED BY <1>1, <1>2, <1>3, PTL DEF Spec, RevokesWhatItSaw

-----------------------------------------------------------------------------
(***************************************************************************)
(* How far the capacity check can be overshot.  It is inductive together   *)
(* with: no total in the row or in a request exceeds the largest plan.     *)
(***************************************************************************)
TotalsBelowPeak ==
    /\ total_seats <= peak
    /\ \A w \in Workers : seen[w].total <= peak

LEMMA ReadingOfMove ==
    ASSUME ReqOK, NEW w \in Workers, NEW r, NEW s,
           Goto(w, s, r) \/ (Finish(w) /\ r = Nothing)
    PROVE  \A v \in Workers : seen'[v] = IF v = w THEN r ELSE seen[v]
BY DEF ReqOK, Goto, Finish

LEMMA BelowPeakMove ==
    ASSUME RowOK, ReqOK, RowOK', TotalsBelowPeak, NEW w \in Workers,
           total_seats' <= peak', peak <= peak',
           \/ \E s, r : Goto(w, s, r) /\ r.total <= peak'
           \/ Finish(w)
    PROVE  TotalsBelowPeak'
<1>1. Nothing.total = 0 /\ 0 <= peak'
  BY DEF Nothing, RowOK
<1>2. PICK r : /\ \A v \in Workers : seen'[v] = IF v = w THEN r ELSE seen[v]
               /\ r.total <= peak'
  BY <1>1, ReadingOfMove
<1>3. \A v \in Workers : seen[v].total \in Nat
  BY DEF ReqOK, Readings
<1>4. \A v \in Workers : seen'[v].total <= peak'
  BY <1>2, <1>3 DEF TotalsBelowPeak, RowOK
<1>5. QED BY <1>4 DEF TotalsBelowPeak

LEMMA BelowPeakStep ==
    ASSUME RowOK, ReqOK, TotalsBelowPeak, NEW w \in Workers, Step(w)
    PROVE  TotalsBelowPeak'
<1>1. RowOK' /\ peak <= peak /\ seen[w].total <= peak
  BY RowStep DEF TotalsBelowPeak, RowOK
<1>2. Nothing.total = 0 /\ 0 <= peak
  BY DEF Nothing, RowOK
<1>3. ASSUME UNCHANGED <<total_seats, peak>>,
             \/ \E s, r : Goto(w, s, r) /\ r.total <= peak
             \/ Finish(w)
      PROVE  TotalsBelowPeak'
  BY <1>1, <1>3, BelowPeakMove DEF TotalsBelowPeak
<1>4. ASSUME NEW n \in Nat, SetTotal(n), NEW s,
             Goto(w, s, seen[w]) \/ Finish(w)
      PROVE  TotalsBelowPeak'
  <2>1. total_seats' <= peak' /\ peak <= peak' /\ peak' \in Nat
    BY <1>4, SetTotalOK DEF RowOK
  <2>2. seen[w].total <= peak'
    BY <1>1, <2>1 DEF ReqOK, Readings, RowOK
  <2>3. QED BY <1>1, <1>4, <2>1, <2>2, BelowPeakMove
<1> USE DEF rowVars, histVars, Advance
<1>5. CASE FindSubscription(w)
  <2> DEFINE r == [Nothing EXCEPT
                     !.total = IF job[w].kind \in Grants THEN total_seats ELSE 0,
                     !.used  = IF job[w].kind = "sync" THEN used_seats ELSE 0]
  <2>1. r.total <= peak
    BY <1>2 DEF TotalsBelowPeak, Nothing
  <2>2. Goto(w, After(w), r) \/ Finish(w)
    BY <1>5 DEF FindSubscription
  <2>3. UNCHANGED <<total_seats, peak>>
    BY <1>5 DEF FindSubscription
  <2> HIDE DEF r
  <2>4. QED BY <1>3, <2>1, <2>2, <2>3
<1>6. CASE FindExisting(w) BY <1>1, <1>3, <1>6 DEF FindExisting
<1>7. CASE FindSeat(w)
  BY <1>2, <1>3, <1>7 DEF FindSeat, Nothing
<1>8. CASE FindRow(w)
  <2>1. RowAsRead.total <= peak
    BY DEF RowAsRead, TotalsBelowPeak
  <2>2. QED BY <1>2, <1>3, <1>8, <2>1 DEF FindRow
<1>9. CASE CountForGrant(w) BY <1>1, <1>3, <1>9 DEF CountForGrant
<1>10. CASE CountForBiometric(w)
  BY <1>1, <1>2, <1>3, <1>10 DEF CountForBiometric, Nothing
<1>11. CASE CountForSync(w)
  BY <1>1, <1>2, <1>3, <1>11 DEF CountForSync, Settle, Nothing
<1>12. CASE FindForCreate(w) BY <1>1, <1>3, <1>12 DEF FindForCreate
<1>13. CASE GrowTotal(w)
  <2>1. seen[w].count + 1 \in Nat
    BY DEF ReqOK, Readings
  <2>2. QED BY <1>4, <1>13, <2>1 DEF GrowTotal
<1>14. CASE InsertSeat(w) BY <1>2, <1>3, <1>14 DEF InsertSeat
<1>15. CASE IncrementUsed(w) BY <1>3, <1>15 DEF IncrementUsed
<1>16. CASE DeleteSeat(w) BY <1>2, <1>3, <1>16 DEF DeleteSeat
<1>17. CASE DecrementUsed(w) BY <1>3, <1>17 DEF DecrementUsed
<1>18. CASE WriteUsed(w) BY <1>3, <1>18 DEF WriteUsed
<1>19. CASE WriteTotal(w)
  BY <1>4, <1>19, BusyTotal DEF WriteTotal
<1>20. CASE WriteCancelled(w) BY <1>1, <1>3, <1>20 DEF WriteCancelled
<1>21. CASE SweepSeats(w) BY <1>3, <1>21 DEF SweepSeats
<1>22. CASE InsertRow(w)
  <2>1. job[w].total \in Nat
    BY <1>22, BusyTotal DEF InsertRow
  <2>2. QED BY <1>3, <1>4, <1>22, <2>1 DEF InsertRow
<1>23. CASE Reactivate(w)
  BY <1>4, <1>23, BusyTotal DEF Reactivate
<1>24. CASE CountUsers(w)
  BY <1>2, <1>3, <1>24 DEF CountUsers, Settle, Nothing
<1>25. QED
  BY <1>5, <1>6, <1>7, <1>8, <1>9, <1>10, <1>11, <1>12, <1>13, <1>14, <1>15,
     <1>16, <1>17, <1>18, <1>19, <1>20, <1>21, <1>22, <1>23, <1>24 DEF Step

LEMMA BelowPeakNext ==
    ASSUME RowOK, ReqOK, TotalsBelowPeak, [Next]_vars
    PROVE  TotalsBelowPeak'
<1> USE DEF TotalsBelowPeak
<1>1. ASSUME NEW w \in Workers, NEW j \in Jobs, Arrive(w, j)
      PROVE  TotalsBelowPeak'
  BY <1>1 DEF Arrive, rowVars
<1>2. ASSUME NEW w \in Workers, Abort(w)
      PROVE  TotalsBelowPeak'
  <2>1. UNCHANGED <<total_seats, peak>> /\ RowOK' /\ Finish(w) /\ peak <= peak
    BY <1>2 DEF Abort, rowVars, seatVars, RowOK
  <2>2. QED BY <2>1, BelowPeakMove
<1>3. CASE RowWrites
  <2>1. /\ seen' = seen /\ peak <= peak' /\ total_seats' <= peak' /\ peak' \in Nat
    BY <1>3, RowWriteEffect DEF reqVars, RowOK
  <2>2. \A w \in Workers : seen[w].total \in Nat
    BY DEF ReqOK, Readings
  <2>3. QED BY <2>1, <2>2 DEF RowOK
<1>4. CASE UNCHANGED vars
  BY <1>4 DEF vars, rowVars, reqVars, histVars
<1>5. ASSUME NEW u \in Users, DeleteUser(u) PROVE TotalsBelowPeak'
  BY <1>5 DEF DeleteUser, rowVars, reqVars
<1>6. QED BY <1>1, <1>2, <1>3, <1>4, <1>5, BelowPeakStep DEF Next

\* A step that adds no seat and admits no grant.
LEMMA OvershootQuiet ==
    ASSUME RowOK, RowOK', BoundedOvershoot, Seated' \subseteq Seated,
           Admitted' \subseteq Admitted, peak <= peak'
    PROVE  BoundedOvershoot'
<1>1. Admitted \in SUBSET Workers /\ Admitted' \in SUBSET Workers
  BY DEF Admitted
<1>2. /\ IsFiniteSet(Seated) /\ Cardinality(Seated) \in Nat
      /\ IsFiniteSet(Admitted) /\ Cardinality(Admitted) \in Nat
      /\ IsFiniteSet(Admitted') /\ Cardinality(Admitted') \in Nat
      /\ Cardinality(Workers) \in Nat
  BY <1>1, SeatedFinite
<1>3. Cardinality(Seated') <= Cardinality(Seated) /\ IsFiniteSet(Seated')
  BY <1>2, FS_Subset
<1>4. Cardinality(Seated') \in Nat
  BY <1>3, FS_CardinalityType
<1>5. Cardinality(Admitted') <= Cardinality(Admitted)
  BY <1>2, FS_Subset
<1>6. QED
  BY <1>2, <1>3, <1>4, <1>5 DEF BoundedOvershoot, RowOK

\* The worker that moves leaves the admitted ones unless its next statement
\* makes it one of them.
LEMMA AdmittedMove ==
    ASSUME ReqOK, NEW w \in Workers, NEW s, NEW r,
           Goto(w, s, r) \/ (Finish(w) /\ s = "idle"),
           s # "insert", s = "exists" => job[w].kind \notin {"assign", "enable"}
    PROVE  Admitted' \subseteq Admitted \ {w}
BY DEF Admitted, ReqOK, Goto, Finish

\* ... and if it was one of them already, their set stays as it is.
LEMMA AdmittedStays ==
    ASSUME ReqOK, NEW w \in Admitted, NEW s, NEW r, Goto(w, s, r)
    PROVE  Admitted' \subseteq Admitted
BY DEF Admitted, ReqOK, Goto

\* The step at which a seat row appears: the request leaves the admitted ones.
LEMMA OvershootInsert ==
    ASSUME RowOK, ReqOK, BoundedOvershoot, NEW w \in Workers, InsertSeat(w)
    PROVE  BoundedOvershoot'
<1>1. w \in Admitted /\ job[w].user \in Users /\ RowOK'
  BY NamesUser, RowStep DEF InsertSeat, Admitted, Step
<1>2. /\ IsFiniteSet(Seated) /\ Cardinality(Seated) \in Nat
      /\ IsFiniteSet(Admitted) /\ Cardinality(Admitted) \in Nat
      /\ Cardinality(Workers) \in Nat
  BY SeatedFinite DEF Admitted
<1>3. Admitted' \subseteq Admitted \ {w}
  <2>1. Routine[job[w].kind]["insert"] = "increment"
    BY BusyKind, FlowTargets DEF InsertSeat
  <2>2. QED BY <2>1, AdmittedMove DEF InsertSeat, Advance, After
<1>4. CASE Finish(w) /\ UNCHANGED seatVars
  BY <1>1, <1>3, <1>4, OvershootQuiet
  DEF InsertSeat, Seated, seatVars, histVars, RowOK
<1>5. CASE ~(Finish(w) /\ UNCHANGED seatVars)
  <2>1. Seated' \subseteq Seated \cup {job[w].user}
    BY <1>1, <1>5 DEF InsertSeat, Seated, RowOK
  <2>2. /\ IsFiniteSet(Seated \cup {job[w].user})
        /\ Cardinality(Seated \cup {job[w].user}) <= Cardinality(Seated) + 1
        /\ Cardinality(Seated \cup {job[w].user}) \in Nat
    <3>1. IsFiniteSet(Seated \cup {job[w].user})
      BY <1>2, FS_AddElement
    <3>2. Cardinality(Seated \cup {job[w].user}) =
            IF job[w].user \in Seated THEN Cardinality(Seated)
                                      ELSE Cardinality(Seated) + 1
      BY <1>2, FS_AddElement
    <3>3. QED BY <1>2, <3>1, <3>2
  <2>3. Cardinality(Seated') <= Cardinality(Seated) + 1
    BY <1>2, <2>1, <2>2, FS_Subset, FS_CardinalityType
  <2>4. /\ IsFiniteSet(Admitted \ {w})
        /\ Cardinality(Admitted \ {w}) = Cardinality(Admitted) - 1
    BY <1>1, <1>2, FS_RemoveElement
  <2>5. Cardinality(Admitted') <= Cardinality(Admitted) - 1
    BY <1>3, <2>4, FS_Subset
  <2>6. Cardinality(Seated') \in Nat /\ Cardinality(Admitted') \in Nat
    BY <1>3, <2>1, <2>2, <2>4, FS_Subset, FS_CardinalityType
  <2>7. peak' = peak
    BY DEF InsertSeat, histVars
  <2>8. QED
    BY <1>2, <2>3, <2>5, <2>6, <2>7 DEF BoundedOvershoot, RowOK
<1>6. QED BY <1>4, <1>5

\* The step at which a grant is admitted: there was room in some plan.
LEMMA OvershootAdmit ==
    ASSUME RowOK, ReqOK, TotalsBelowPeak, BoundedOvershoot,
           NEW w \in Workers, CountForGrant(w)
    PROVE  BoundedOvershoot'
<1>1. RowOK' /\ UNCHANGED <<seats, peak>>
  BY RowStep DEF CountForGrant, Step, seatVars, histVars
<1>2. Seated' = Seated
  BY <1>1 DEF Seated
<1>3. CASE Finish(w)
  BY <1>1, <1>2, <1>3, AdmittedMove, OvershootQuiet DEF RowOK
<1>4. CASE ~Finish(w)
  <2>1. ~(Cardinality(Seated) >= seen[w].total)
    BY <1>4 DEF CountForGrant
  <2>2. seen[w].total \in Nat /\ seen[w].total <= peak
    BY DEF ReqOK, Readings, TotalsBelowPeak
  <2>3. Cardinality(Seated) <= peak - 1
    BY <2>1, <2>2, SeatedFinite DEF RowOK
  <2>4. Admitted' \subseteq Workers
    BY DEF Admitted
  <2>5. Cardinality(Admitted') <= Cardinality(Workers)
        /\ Cardinality(Admitted') \in Nat /\ Cardinality(Workers) \in Nat
    BY <2>4, WorkersFinite, FS_Subset, FS_CardinalityType
  <2>6. Cardinality(Seated) + Cardinality(Admitted')
            <= peak - 1 + Cardinality(Workers)
    BY <2>3, <2>5, SeatedFinite DEF RowOK
  <2>7. QED BY <1>1, <1>2, <2>6 DEF BoundedOvershoot
<1>5. QED BY <1>3, <1>4

\* Only the capped grants run; what the uncapped ones do is in no relation to
\* the plan.
CapOnly == EntryPoints \cap UncappedGrants = {}

LEMMA OvershootStep ==
    ASSUME CapOnly, RowOK, ReqOK, TotalsBelowPeak, BoundedOvershoot,
           NEW w \in Workers, Step(w)
    PROVE  BoundedOvershoot'
<1>1. RowOK' /\ pc[w] # "idle"
  BY RowStep DEF Step, FindSubscription, FindExisting, FindSeat, FindRow,
     CountForGrant, CountForBiometric, CountForSync, CountUsers, GrowTotal,
     InsertSeat, IncrementUsed, DeleteSeat, DecrementUsed, WriteUsed, WriteTotal,
     WriteCancelled, SweepSeats, FindForCreate, InsertRow, Reactivate
<1>2. /\ job[w].kind \in Routines /\ job[w].kind \notin UncappedGrants
      /\ pc[w] \in Body[job[w].kind]
  BY <1>1, BusyKind DEF CapOnly
\* All but the three steps that matter.
<1>3. ASSUME UNCHANGED <<seats, peak>> \/ SweepSeats(w),
             Admitted' \subseteq Admitted
      PROVE  BoundedOvershoot'
  <2>1. Seated' \subseteq Seated /\ peak <= peak'
    BY <1>3 DEF Seated, SweepSeats, RowOK
  <2>2. QED BY <1>1, <1>3, <2>1, OvershootQuiet
<1> USE DEF seatVars, histVars, Advance
<1>4. CASE FindSubscription(w)
  BY <1>2, <1>3, <1>4, AdmittedMove, FlowTargets DEF FindSubscription, After
<1>5. CASE FindExisting(w)
  <2>1. CASE Finish(w)
    BY <1>3, <1>5, <2>1, AdmittedMove DEF FindExisting
  <2>2. CASE ~Finish(w) /\ job[w].kind \in {"assign", "enable"}
    BY <1>3, <1>5, <2>2, AdmittedStays DEF FindExisting, Admitted
  <2>3. CASE ~Finish(w) /\ job[w].kind = "moduleAdded"
    BY <1>2, <1>3, <1>5, <2>3, AdmittedMove, FlowTargets DEF FindExisting, After
  <2>4. job[w].kind \in CappedGrants
    BY <1>2, <1>5 DEF FindExisting, Body, Routines, Grants, Revocations, Resizes
  <2>5. QED BY <2>1, <2>2, <2>3, <2>4 DEF CappedGrants
<1>6. CASE FindSeat(w)
  BY <1>2, <1>3, <1>6, AdmittedMove, FlowTargets DEF FindSeat, After
<1>7. CASE FindRow(w)
  BY <1>2, <1>3, <1>7, AdmittedMove, FlowTargets DEF FindRow, After
<1>8. CASE CountForGrant(w) BY <1>8, OvershootAdmit
<1>9. CASE CountForBiometric(w)
  BY <1>2, <1>9 DEF CountForBiometric, UncappedGrants
<1>10. CASE CountForSync(w)
  BY <1>2, <1>3, <1>10, AdmittedMove, FlowTargets
  DEF CountForSync, Settle, After
<1>11. CASE GrowTotal(w)
  BY <1>2, <1>11 DEF GrowTotal, Body, Routines, Grants, CappedGrants,
     Revocations, Resizes
<1>12. CASE InsertSeat(w) BY <1>12, OvershootInsert
<1>13. CASE IncrementUsed(w) BY <1>3, <1>13, AdmittedMove DEF IncrementUsed
<1>14. CASE DeleteSeat(w)
  <2>1. Admitted' \subseteq Admitted
    BY <1>2, <1>14, AdmittedMove, FlowTargets DEF DeleteSeat, After
  <2>2. Seated' \subseteq Seated /\ peak' = peak
    BY <1>14 DEF DeleteSeat, Seated, RowOK
  <2>3. QED BY <1>1, <2>1, <2>2, OvershootQuiet DEF RowOK
<1>15. CASE DecrementUsed(w) BY <1>3, <1>15, AdmittedMove DEF DecrementUsed
<1>16. CASE WriteUsed(w) BY <1>3, <1>16, AdmittedMove DEF WriteUsed
<1>17. CASE SweepSeats(w) BY <1>3, <1>17, AdmittedMove DEF SweepSeats
<1>18. CASE WriteCancelled(w)
  BY <1>2, <1>3, <1>18, AdmittedMove, FlowTargets DEF WriteCancelled, After
<1>19. CASE FindForCreate(w) BY <1>3, <1>19, AdmittedMove DEF FindForCreate
<1>20. CASE WriteTotal(w) \/ InsertRow(w) \/ Reactivate(w)
  <2>1. Finish(w) /\ seats' = seats
    BY <1>20 DEF WriteTotal, InsertRow, Reactivate
  <2>2. peak <= peak'
    <3>1. job[w].total \in Nat
      BY <1>1, BusyTotal
    <3>2. UNCHANGED peak \/ SetTotal(job[w].total)
      BY <1>20 DEF WriteTotal, InsertRow, Reactivate
    <3>3. QED BY <3>1, <3>2, SetTotalOK DEF RowOK
  <2>3. Admitted' \subseteq Admitted /\ Seated' = Seated
    BY <2>1, AdmittedMove DEF Seated
  <2>4. QED BY <1>1, <2>2, <2>3, OvershootQuiet
<1>21. CASE CountUsers(w)
  <2>1. job[w].kind = "sync"
    BY <1>2, <1>21, CountsUsers DEF CountUsers
  <2>2. QED
    BY <1>2, <1>3, <1>21, <2>1, AdmittedMove, FlowTargets
    DEF CountUsers, Settle, After
<1>22. QED
  BY <1>4, <1>5, <1>6, <1>7, <1>8, <1>9, <1>10, <1>11, <1>12, <1>13, <1>14,
     <1>15, <1>16, <1>17, <1>18, <1>19, <1>20, <1>21 DEF Step

OvershootInv == RowOK /\ ReqOK /\ TotalsBelowPeak /\ BoundedOvershoot

LEMMA OvershootNext ==
    ASSUME CapOnly, OvershootInv, [Next]_vars
    PROVE  OvershootInv'
<1>1. RowOK' /\ ReqOK' /\ TotalsBelowPeak'
  BY TypeStep, BelowPeakNext DEF OvershootInv
<1>2. ASSUME NEW w \in Workers, NEW j \in Jobs, Arrive(w, j)
      PROVE  BoundedOvershoot'
  <2>1. Admitted' \subseteq Admitted
    <3>1. Routine[j.kind].start \notin {"exists", "insert"}
      BY JobKinds, Flow
    <3>2. QED BY <1>2, <3>1 DEF Arrive, Admitted, OvershootInv, ReqOK
  <2>2. Seated' = Seated /\ peak' = peak
    BY <1>2 DEF Arrive, Seated, seatVars
  <2>3. QED BY <1>1, <2>1, <2>2, OvershootQuiet DEF OvershootInv, RowOK
<1>3. ASSUME NEW w \in Workers, Abort(w)
      PROVE  BoundedOvershoot'
  <2>1. Admitted' \subseteq Admitted
    BY <1>3, AdmittedMove DEF Abort, OvershootInv
  <2>2. Seated' = Seated /\ peak' = peak
    BY <1>3 DEF Abort, Seated, seatVars
  <2>3. QED BY <1>1, <2>1, <2>2, OvershootQuiet DEF OvershootInv, RowOK
<1>4. ASSUME RowWrites PROVE BoundedOvershoot'
  <2>1. UNCHANGED <<seats, pc, job>> /\ peak <= peak'
    BY <1>4, RowWriteEffect DEF OvershootInv, seatVars, reqVars
  <2>2. Admitted' = Admitted /\ Seated' = Seated
    BY <2>1 DEF Admitted, Seated
  <2>3. QED BY <1>1, <2>1, <2>2, OvershootQuiet DEF OvershootInv
<1>5. ASSUME UNCHANGED vars PROVE BoundedOvershoot'
  BY <1>5 DEF vars, seatVars, reqVars, histVars, OvershootInv, BoundedOvershoot,
     Seated, Admitted
<1>6. ASSUME NEW w \in Workers, Step(w)
      PROVE  BoundedOvershoot'
  BY <1>6, OvershootStep DEF OvershootInv
<1>7. ASSUME NEW u \in Users, DeleteUser(u) PROVE BoundedOvershoot'
  <2>1. Seated' \subseteq Seated
    BY <1>7 DEF DeleteUser, Seated, OvershootInv, RowOK
  <2>2. Admitted' = Admitted /\ peak' = peak
    BY <1>7 DEF DeleteUser, Admitted, reqVars
  <2>3. QED BY <1>1, <2>1, <2>2, OvershootQuiet DEF OvershootInv, RowOK
<1>8. BoundedOvershoot'
  BY <1>2, <1>3, <1>4, <1>5, <1>6, <1>7 DEF Next
<1>9. QED BY <1>1, <1>8 DEF OvershootInv

LEMMA OvershootInit == Init => OvershootInv
<1> SUFFICES ASSUME Init PROVE OvershootInv
  OBVIOUS
<1>1. TotalsBelowPeak
  BY DEF Init, TotalsBelowPeak, Nothing
<1>2. Seated = {} /\ Admitted = {}
  BY DEF Init, Seated, Admitted
<1>3. Cardinality(Seated) = 0 /\ Cardinality(Admitted) = 0 /\ peak = 0
  BY <1>2, FS_EmptySet DEF Init
<1>4. BoundedOvershoot
  BY <1>3, SeatedFinite DEF BoundedOvershoot
<1>5. QED BY <1>1, <1>4, TypeInit DEF OvershootInv

\* The racy capacity check lets at most one seat per other request in flight
\* through, however many requests, users and plan changes there are.
THEOREM OvershootIsBounded ==
    ASSUME CapOnly
    PROVE  Spec => []BoundedOvershoot
<1>1. OvershootInv /\ [Next]_vars => OvershootInv'
  BY OvershootNext
<1>2. OvershootInv => BoundedOvershoot
  BY DEF OvershootInv
<1>3. QED BY <1>1, <1>2, OvershootInit, PTL DEF Spec

-----------------------------------------------------------------------------
(***************************************************************************)
(* After a sweep.  SweepBound alone is not inductive: each of the grants   *)
(* that were in flight during the sweep may still add a row, so they count *)
(* as well, and no other grant gets past its lookup meanwhile.             *)
(***************************************************************************)
Granting ==
    {w \in Workers : /\ pc[w] \in {"count", "exists", "grow", "insert"}
                     /\ job[w].kind \in Grants}

SweepInv ==
    swept => /\ status \notin Live
             /\ Cardinality(Seated) + Cardinality(Granting) < Cardinality(Workers)

LEMMA SweepQuiet ==
    ASSUME RowOK, RowOK', SweepInv, Seated' \subseteq Seated,
           Granting' \subseteq Granting, swept' => swept /\ status' \notin Live
    PROVE  SweepInv'
<1>1. Granting \in SUBSET Workers /\ Granting' \in SUBSET Workers
  BY DEF Granting
<1>2. /\ IsFiniteSet(Seated) /\ Cardinality(Seated) \in Nat
      /\ IsFiniteSet(Granting) /\ Cardinality(Granting) \in Nat
      /\ Cardinality(Granting') \in Nat /\ Cardinality(Workers) \in Nat
  BY <1>1, SeatedFinite
<1>3. Cardinality(Seated') <= Cardinality(Seated) /\ IsFiniteSet(Seated')
  BY <1>2, FS_Subset
<1>4. Cardinality(Seated') \in Nat
  BY <1>3, FS_CardinalityType
<1>5. Cardinality(Granting') <= Cardinality(Granting)
  BY <1>2, FS_Subset
<1>6. QED
  BY <1>2, <1>3, <1>4, <1>5 DEF SweepInv

LEMMA GrantingLeaves ==
    ASSUME ReqOK, NEW w \in Workers, NEW s, NEW r,
           Goto(w, s, r) \/ (Finish(w) /\ s = "idle"),
           \/ s \notin {"count", "exists", "grow", "insert"}
           \/ job[w].kind \notin Grants
    PROVE  Granting' \subseteq Granting \ {w}
BY DEF Granting, ReqOK, Goto, Finish

LEMMA GrantingStays ==
    ASSUME ReqOK, NEW w \in Workers, NEW s, NEW r, Goto(w, s, r),
           pc[w] \in {"count", "exists", "grow", "insert"}
    PROVE  Granting' \subseteq Granting
BY DEF Granting, ReqOK, Goto

LEMMA SweepInsert ==
    ASSUME RowOK, ReqOK, SweepInv, NEW w \in Workers, InsertSeat(w)
    PROVE  SweepInv'
<1>1. job[w].user \in Users /\ RowOK'
  BY NamesUser, RowStep DEF InsertSeat, Step
<1>2. job[w].kind \in Routines /\ pc[w] \in Body[job[w].kind] /\ pc[w] = "insert"
  BY BusyKind DEF InsertSeat
<1>3. w \in Granting
  BY <1>2 DEF Granting, Body, Routines, Revocations, Resizes
<1>4. /\ IsFiniteSet(Seated) /\ Cardinality(Seated) \in Nat
      /\ IsFiniteSet(Granting) /\ Cardinality(Granting) \in Nat
      /\ Cardinality(Workers) \in Nat
  BY SeatedFinite DEF Granting
<1>5. Granting' \subseteq Granting \ {w}
  <2>1. Routine[job[w].kind]["insert"] = "increment"
    BY <1>2, FlowTargets
  <2>2. QED BY <1>2, <2>1, GrantingLeaves DEF InsertSeat, Advance, After
<1>6. status' = status /\ swept' = swept
  BY DEF InsertSeat, rowVars, histVars
<1>7. Seated' \subseteq Seated \cup {job[w].user}
  BY <1>1 DEF InsertSeat, Seated, RowOK, seatVars
<1>8. /\ IsFiniteSet(Seated \cup {job[w].user})
      /\ Cardinality(Seated \cup {job[w].user}) <= Cardinality(Seated) + 1
  <2>1. IsFiniteSet(Seated \cup {job[w].user})
    BY <1>4, FS_AddElement
  <2>2. Cardinality(Seated \cup {job[w].user}) =
          IF job[w].user \in Seated THEN Cardinality(Seated)
                                    ELSE Cardinality(Seated) + 1
    BY <1>4, FS_AddElement
  <2>3. QED BY <1>4, <2>1, <2>2
<1>9. /\ Cardinality(Seated') \in Nat
      /\ Cardinality(Seated') <= Cardinality(Seated) + 1
  <2>1. Cardinality(Seated \cup {job[w].user}) \in Nat
    BY <1>8, FS_CardinalityType
  <2>2. IsFiniteSet(Seated')
        /\ Cardinality(Seated') <= Cardinality(Seated \cup {job[w].user})
    BY <1>7, <1>8, FS_Subset
  <2>3. Cardinality(Seated') \in Nat
    BY <2>2, FS_CardinalityType
  <2>4. QED BY <1>4, <1>8, <2>1, <2>2, <2>3
<1>10. /\ IsFiniteSet(Granting \ {w})
       /\ Cardinality(Granting \ {w}) = Cardinality(Granting) - 1
  BY <1>3, <1>4, FS_RemoveElement
<1>11. /\ Cardinality(Granting') \in Nat
       /\ Cardinality(Granting') <= Cardinality(Granting) - 1
  BY <1>5, <1>10, FS_Subset, FS_CardinalityType
<1>12. QED
  BY <1>4, <1>6, <1>9, <1>11 DEF SweepInv

\* The sweep itself: the sweeping request is not a grant.
LEMMA SweepSweep ==
    ASSUME RowOK, ReqOK, NEW w \in Workers, SweepSeats(w)
    PROVE  SweepInv'
<1>1. Seated' = {} /\ status' = status /\ swept' = (status \notin Live)
  BY DEF SweepSeats, Seated, rowVars
<1>2. Granting' \subseteq Workers \ {w}
  BY GrantingLeaves DEF SweepSeats, Granting
<1>3. /\ IsFiniteSet(Workers \ {w})
      /\ Cardinality(Workers \ {w}) = Cardinality(Workers) - 1
  BY WorkersFinite, FS_RemoveElement
<1>4. /\ Cardinality(Granting') \in Nat
      /\ Cardinality(Granting') <= Cardinality(Workers) - 1
  BY <1>2, <1>3, FS_Subset, FS_CardinalityType
<1>5. Cardinality(Seated') = 0
  BY <1>1, FS_EmptySet
<1>6. Cardinality(Seated') + Cardinality(Granting') < Cardinality(Workers)
  BY <1>4, <1>5, SeatedFinite
<1>7. swept' => status' \notin Live
  BY <1>1
<1>8. QED BY <1>6, <1>7 DEF SweepInv

LEMMA SweepStep ==
    ASSUME RowOK, ReqOK, SweepInv, NEW w \in Workers, Step(w)
    PROVE  SweepInv'
<1>1. RowOK' /\ pc[w] # "idle"
  BY RowStep DEF Step, FindSubscription, FindExisting, FindSeat, FindRow,
     CountForGrant, CountForBiometric, CountForSync, CountUsers, GrowTotal,
     InsertSeat, IncrementUsed, DeleteSeat, DecrementUsed, WriteUsed, WriteTotal,
     WriteCancelled, SweepSeats, FindForCreate, InsertRow, Reactivate
<1>2. job[w].kind \in Routines /\ pc[w] \in Body[job[w].kind]
  BY <1>1, BusyKind
\* A statement that leaves the status and the seats alone.
<1>3. ASSUME UNCHANGED <<status, swept, seats>>,
             Granting' \subseteq Granting \/ status \in Live
      PROVE  SweepInv'
  <2>1. CASE status \in Live
    BY <1>3, <2>1 DEF SweepInv
  <2>2. CASE Granting' \subseteq Granting
    <3>1. Seated' \subseteq Seated
      BY <1>3 DEF Seated
    <3>2. CASE swept
      BY <1>1, <1>3, <2>2, <3>1, <3>2, SweepQuiet DEF SweepInv
    <3>3. CASE ~swept
      BY <1>3, <3>3 DEF SweepInv
    <3>4. QED BY <3>2, <3>3
  <2>3. QED BY <1>3, <2>1, <2>2
\* A statement that writes the status.
<1>4. ASSUME NEW s, SetStatus(s), seats' = seats, Granting' \subseteq Granting
      PROVE  SweepInv'
  <2>1. Seated' \subseteq Seated
    BY <1>4 DEF Seated
  <2>2. swept' => swept /\ status' \notin Live
    BY <1>4 DEF SetStatus, RowOK
  <2>3. QED BY <1>1, <1>4, <2>1, <2>2, SweepQuiet
<1> USE DEF rowVars, seatVars, histVars, Advance
<1>5. CASE FindSubscription(w)
  BY <1>3, <1>5, GrantingLeaves DEF FindSubscription
<1>6. CASE FindExisting(w)
  BY <1>3, <1>6, GrantingLeaves, GrantingStays DEF FindExisting
<1>7. CASE FindSeat(w)
  BY <1>2, <1>3, <1>7, GrantingLeaves, FlowTargets DEF FindSeat, After
<1>8. CASE FindRow(w)
  BY <1>2, <1>3, <1>8, GrantingLeaves, FlowTargets DEF FindRow, After
<1>9. CASE CountForGrant(w)
  BY <1>3, <1>9, GrantingLeaves, GrantingStays DEF CountForGrant
<1>10. CASE CountForBiometric(w)
  BY <1>3, <1>10, GrantingStays DEF CountForBiometric
<1>11. CASE CountForSync(w)
  <2>1. job[w].kind = "sync" /\ job[w].kind \notin Grants
    BY <1>11 DEF CountForSync, Grants, CappedGrants, UncappedGrants
  <2>2. QED
    BY <1>3, <1>11, <2>1, GrantingLeaves DEF CountForSync, Settle
<1>12. CASE GrowTotal(w)
  BY <1>3, <1>12, GrantingStays DEF GrowTotal
<1>13. CASE InsertSeat(w) BY <1>13, SweepInsert
<1>14. CASE IncrementUsed(w) BY <1>3, <1>14, GrantingLeaves DEF IncrementUsed
<1>15. CASE DeleteSeat(w)
  <2>1. Granting' \subseteq Granting
    BY <1>2, <1>15, GrantingLeaves, FlowTargets DEF DeleteSeat, After
  <2>2. Seated' \subseteq Seated /\ status' = status /\ swept' = swept
    BY <1>15 DEF DeleteSeat, Seated, RowOK
  <2>3. CASE swept
    BY <1>1, <2>1, <2>2, <2>3, SweepQuiet DEF SweepInv
  <2>4. CASE ~swept
    BY <2>2, <2>4 DEF SweepInv
  <2>5. QED BY <2>3, <2>4
<1>16. CASE DecrementUsed(w) BY <1>3, <1>16, GrantingLeaves DEF DecrementUsed
<1>17. CASE WriteUsed(w) BY <1>3, <1>17, GrantingLeaves DEF WriteUsed
<1>18. CASE SweepSeats(w) BY <1>18, SweepSweep
<1>19. CASE WriteCancelled(w)
  BY <1>2, <1>4, <1>19, GrantingLeaves, FlowTargets DEF WriteCancelled, After
<1>20. CASE FindForCreate(w)
  BY <1>3, <1>20, GrantingLeaves DEF FindForCreate
<1>21. CASE WriteTotal(w) \/ InsertRow(w) \/ Reactivate(w)
  <2>1. Finish(w) /\ seats' = seats
    BY <1>21 DEF WriteTotal, InsertRow, Reactivate
  <2>2. Granting' \subseteq Granting
    BY <2>1, GrantingLeaves
  <2>3. UNCHANGED <<status, swept>> \/ \E s : SetStatus(s)
    BY <1>21 DEF WriteTotal, InsertRow, Reactivate
  <2>4. QED BY <1>3, <1>4, <2>1, <2>2, <2>3
<1>22. CASE CountUsers(w)
  <2>1. job[w].kind = "sync" /\ job[w].kind \notin Grants
    BY <1>2, <1>22, CountsUsers
    DEF CountUsers, Grants, CappedGrants, UncappedGrants
  <2>2. QED BY <1>3, <1>22, <2>1, GrantingLeaves DEF CountUsers, Settle
<1>23. QED
  BY <1>5, <1>6, <1>7, <1>8, <1>9, <1>10, <1>11, <1>12, <1>13, <1>14, <1>15,
     <1>16, <1>17, <1>18, <1>19, <1>20, <1>21, <1>22 DEF Step

LEMMA SweepNext ==
    ASSUME RowOK, ReqOK, SweepInv, [Next]_vars
    PROVE  SweepInv'
<1>1. RowOK'
  BY TypeStep
<1>2. ASSUME Seated' \subseteq Seated, Granting' \subseteq Granting,
             swept' => swept /\ status' \notin Live
      PROVE  SweepInv'
  BY <1>1, <1>2, SweepQuiet
<1>3. swept => status \notin Live
  BY DEF SweepInv
<1>4. ASSUME NEW w \in Workers, NEW j \in Jobs, Arrive(w, j)
      PROVE  SweepInv'
  <2>1. Routine[j.kind].start \notin {"count", "exists", "grow", "insert"}
    BY JobKinds, Flow
  <2>2. Granting' \subseteq Granting
    BY <1>4, <2>1 DEF Arrive, Granting, ReqOK
  <2>3. Seated' = Seated /\ swept' = swept /\ status' = status
    BY <1>4 DEF Arrive, Seated, seatVars, rowVars
  <2>4. QED BY <1>2, <1>3, <2>2, <2>3
<1>5. ASSUME NEW w \in Workers, Abort(w)
      PROVE  SweepInv'
  <2>1. Granting' \subseteq Granting
    BY <1>5, GrantingLeaves DEF Abort
  <2>2. Seated' = Seated /\ swept' = swept /\ status' = status
    BY <1>5 DEF Abort, Seated, seatVars, rowVars
  <2>3. QED BY <1>2, <1>3, <2>1, <2>2
<1>6. ASSUME RowWrites PROVE SweepInv'
  <2>1. UNCHANGED <<seats, pc, job>> /\ swept' = (swept /\ status' \notin Live)
    BY <1>6, RowWriteEffect DEF seatVars, reqVars
  <2>2. Granting' = Granting /\ Seated' = Seated
    BY <2>1 DEF Granting, Seated
  <2>3. QED BY <1>2, <2>1, <2>2
<1>7. ASSUME UNCHANGED vars PROVE SweepInv'
  BY <1>7 DEF vars, rowVars, seatVars, reqVars, histVars, SweepInv, Seated,
     Granting
<1>8. ASSUME NEW w \in Workers, Step(w) PROVE SweepInv'
  BY <1>8, SweepStep
<1>9. ASSUME NEW u \in Users, DeleteUser(u) PROVE SweepInv'
  <2>1. Seated' \subseteq Seated
    BY <1>9 DEF DeleteUser, Seated, RowOK
  <2>2. Granting' = Granting /\ swept' = swept /\ status' = status
    BY <1>9 DEF DeleteUser, Granting, reqVars, rowVars
  <2>3. QED BY <1>2, <1>3, <2>1, <2>2
<1>10. QED BY <1>4, <1>5, <1>6, <1>7, <1>8, <1>9 DEF Next

\* After a cancellation's sweep only grants that were already in flight leave
\* rows behind, at most one for each of the other requests.
THEOREM SweepIsBounded == Spec => []SweepBound
<1>1. Init => RowOK /\ ReqOK /\ SweepInv
  BY TypeInit DEF Init, SweepInv
<1>2. (RowOK /\ ReqOK /\ SweepInv) /\ [Next]_vars =>
        (RowOK /\ ReqOK /\ SweepInv)'
  BY TypeStep, SweepNext
<1>3. RowOK /\ ReqOK /\ SweepInv => SweepBound
  <2> SUFFICES ASSUME SweepInv, swept
               PROVE  Cardinality(Seated) < Cardinality(Workers)
    BY DEF SweepBound
  <2>1. Granting \in SUBSET Workers
    BY DEF Granting
  <2>2. Cardinality(Granting) \in Nat
    BY <2>1, SeatedFinite
  <2>3. QED BY <2>2, SeatedFinite DEF SweepInv
<1>4. QED BY <1>1, <1>2, <1>3, PTL DEF Spec
-----------------------------------------------------------------------------
(***************************************************************************)
(* The counter and the plan while requests run one after the other.        *)
(* SerialExact speaks of the moments between requests; inside one the      *)
(* invariant says by how much the counter is off, what the request may     *)
(* still rely on, and that a subscription that is not standing has no      *)
(* seats (until the sweep, for the request that cancelled it).             *)
(***************************************************************************)
Standing == status \in Live \cup {"lapsed"}

\* Only the payroll sync grants without looking at the plan.
PlanChecked == "payroll" \notin EntryPoints

Count == Cardinality(Seated)

\* The counter, by the statement the request w is about to run.
CountedBut(w) ==
    used_seats = Count + rowless + (IF pc[w] = "decrement" THEN 1 ELSE 0)
                                 - (IF pc[w] = "increment" THEN 1 ELSE 0)

\* What it has read is still so.
ReadingsHold(w) ==
    /\ pc[w] \in {"count", "countUsers", "exists", "grow", "insert", "delete",
                  "increment", "decrement", "writeUsed"} => Standing
    /\ pc[w] = "delete" => /\ seats[job[w].user] = seen[w].seat
                           /\ seen[w].seat # 0
    /\ pc[w] = "grow" => seen[w].count = Count
    /\ pc[w] = "countUsers" => Seated = {} /\ seatless
    /\ pc[w] = "writeUsed" /\ ~(seatless /\ Seated = {}) => seen[w].count = Count
    /\ pc[w] \in {"writeTotal", "writeCancelled"} => status # "none"
    /\ pc[w] = "writeTotal" /\ Standing => Count <= job[w].total
    /\ pc[w] = "sweep" => status = "cancelled"
    /\ pc[w] = "reactivate" => status = "cancelled"

\* A grant of the one request that runs has found room.
RoomFound(w) ==
    PlanChecked =>
        /\ Standing => Count <= total_seats
        /\ pc[w] \in {"count", "exists"} /\ job[w].kind \in Grants =>
             seen[w].total = total_seats
        /\ w \in Admitted => Count < total_seats

\* The request w is the only one there may be.
Alone(w) == \A v \in Workers \ {w} : pc[v] = "idle"

Focus(w) ==
    /\ Alone(w)
    /\ Standing => CountedBut(w)
    /\ Standing \/ Seated = {} \/ pc[w] = "sweep"
    /\ ReadingsHold(w)
    /\ RoomFound(w)

SerialInv == ~tainted => \E w \in Workers : Focus(w)

LEMMA CountType == Count \in Nat /\ IsFiniteSet(Seated)
BY SeatedFinite DEF Count

\* A worker that moves on or ends leaves the others idle.
LEMMA AloneMove ==
    ASSUME ReqOK, NEW w \in Workers, Alone(w), NEW s, NEW r,
           Goto(w, s, r) \/ Finish(w)
    PROVE  Alone(w)'
BY DEF Alone, ReqOK, Goto, Finish

\* A request ends without a write: nothing is owed any more.
LEMMA FinishFocus ==
    ASSUME ReqOK, NEW w \in Workers, Focus(w), Finish(w),
           UNCHANGED <<rowVars, seats, seatless, rowless>>,
           pc[w] \notin {"increment", "decrement", "sweep"}
    PROVE  Focus(w)'
<1>1. /\ pc'[w] = "idle" /\ UNCHANGED <<status, total_seats, used_seats, rowless>>
      /\ Standing' = Standing /\ Seated' = Seated /\ Count' = Count
  BY DEF Finish, ReqOK, rowVars, Standing, Seated, Count
<1>2. Alone(w)'
  BY AloneMove DEF Focus
<1>3. CountedBut(w) => CountedBut(w)'
  BY <1>1 DEF CountedBut
<1>4. ReadingsHold(w)'
  BY <1>1 DEF ReadingsHold
<1>5. RoomFound(w)'
  BY <1>1 DEF RoomFound, Focus, Admitted
<1>6. QED BY <1>1, <1>2, <1>3, <1>4, <1>5 DEF Focus

\* A request moves on without a write: what it will rely on has to hold now.
LEMMA MoveFocus ==
    ASSUME ReqOK, NEW w \in Workers, Focus(w), NEW s, NEW r, Goto(w, s, r),
           UNCHANGED <<rowVars, seats, seatless, rowless>>,
           pc[w] \notin {"increment", "decrement", "sweep"},
           s \notin {"increment", "decrement"},
           ReadingsHold(w)',
           PlanChecked =>
             /\ s \in {"count", "exists"} /\ job[w].kind \in Grants =>
                  r.total = total_seats
             /\ s = "insert" => Count < total_seats
             /\ s = "exists" /\ job[w].kind \in {"assign", "enable"}
                  => Count < total_seats
    PROVE  Focus(w)'
<1>1. /\ pc'[w] = s /\ seen'[w] = r /\ job' = job
      /\ UNCHANGED <<status, total_seats, used_seats, rowless>>
      /\ Standing' = Standing /\ Seated' = Seated /\ Count' = Count
  BY DEF Goto, ReqOK, rowVars, Standing, Seated, Count
<1>2. Alone(w)'
  BY AloneMove DEF Focus
<1>3. CountedBut(w) => CountedBut(w)'
  BY <1>1 DEF CountedBut
<1>4. RoomFound(w)'
  BY <1>1 DEF RoomFound, Focus, Admitted
<1>5. (Standing \/ Seated = {} \/ pc[w] = "sweep")'
  BY <1>1 DEF Focus
<1>6. (Standing => CountedBut(w))'
  BY <1>1, <1>3 DEF Focus
<1>7. QED BY <1>2, <1>4, <1>5, <1>6 DEF Focus

\* One seat more, one seat less.
LEMMA OneSeat ==
    ASSUME RowOK, NEW u \in Users, NEW n \in Nat, seats' = [seats EXCEPT ![u] = n]
    PROVE  /\ seats[u] = 0 /\ n # 0 => Count' = Count + 1
           /\ seats[u] # 0 /\ n = 0 => Count' = Count - 1
<1>1. CASE seats[u] = 0 /\ n # 0
  <2>1. Seated' = Seated \cup {u} /\ u \notin Seated
    BY <1>1 DEF Seated, RowOK
  <2>2. QED BY <1>1, <2>1, SeatedFinite, FS_AddElement DEF Count
<1>2. CASE seats[u] # 0 /\ n = 0
  <2>1. Seated' = Seated \ {u} /\ u \in Seated
    BY <1>2 DEF Seated, RowOK
  <2>2. QED BY <1>2, <2>1, SeatedFinite, FS_RemoveElement DEF Count
<1>3. QED BY <1>1, <1>2

LEMMA NoSeat == Seated = {} => Count = 0
BY FS_EmptySet DEF Count

\* Where the lookups and the counts of the grants lead to.
LEMMA SerialTargets ==
    ASSUME NEW k \in Routines
    PROVE  /\ "findSub" \in Body[k] =>
                Routine[k]["findSub"] \in {"count", "exists", "findSeat"}
           /\ k \in {"assign", "enable"} => Routine[k]["count"] = "exists"
           /\ k \in {"moduleAdded", "biometric"} => Routine[k]["count"] = "insert"
           /\ k \in {"assign", "enable", "payroll"} => Routine[k]["exists"] = "insert"
           /\ k = "biometric" => Routine[k]["grow"] = "insert"
           /\ "grow" \in Body[k] => k = "biometric"
           /\ "exists" \in Body[k] => k \in Grants
           /\ k = "update" => Routine[k]["findRow"] = "writeTotal"
           /\ k = "cancel" => Routine[k]["findRow"] = "writeCancelled"
           /\ "findRow" \in Body[k] => k \in {"update", "cancel"}
<1> USE DEF Body, Routine, Grants, CappedGrants, UncappedGrants
<1>1. CASE k = "assign" BY <1>1 DEF AssignSeat
<1>2. CASE k = "enable" BY <1>2 DEF EnableUserForModule
<1>3. CASE k = "moduleAdded" BY <1>3 DEF ModuleSeatAdded
<1>4. CASE k = "biometric" BY <1>4 DEF EnsureBiometricSeat
<1>5. CASE k = "payroll" BY <1>5 DEF AutoAssignPayrollSeat
<1>6. CASE k = "revoke" BY <1>6 DEF RevokeSeat
<1>7. CASE k = "disable" BY <1>7 DEF DisableUserForModule
<1>8. CASE k = "moduleRemoved" BY <1>8 DEF ModuleSeatRemoved
<1>9. CASE k = "biometricRelease" BY <1>9 DEF ReleaseBiometricSeat
<1>10. CASE k = "sync" BY <1>10 DEF SyncUsedSeats
<1>11. CASE k = "update" BY <1>11 DEF UpdateSubscription
<1>12. CASE k = "cancel" BY <1>12 DEF CancelSubscription
<1>13. CASE k = "create" BY <1>13 DEF CreateSubscription
<1>14. QED
  BY <1>1, <1>2, <1>3, <1>4, <1>5, <1>6, <1>7, <1>8, <1>9, <1>10, <1>11,
     <1>12, <1>13 DEF Routines, Revocations, Resizes

LEMMA LivesStand ==
    Live \subseteq {"active", "trial", "lapsed"} /\ (status \in Live => Standing)
BY DEF Live, Standing

\* The statements that only read.
LEMMA FocusRead ==
    ASSUME RowOK, ReqOK, NEW w \in Workers, Focus(w),
           \/ FindSubscription(w) \/ FindExisting(w) \/ FindSeat(w)
           \/ FindRow(w) \/ CountForGrant(w) \/ CountForBiometric(w)
           \/ CountForSync(w) \/ CountUsers(w) \/ FindForCreate(w)
    PROVE  Focus(w)'
<1>1. /\ pc[w] # "idle" /\ UNCHANGED <<rowVars, seats, seatless, rowless>>
      /\ pc[w] \notin {"increment", "decrement", "sweep"}
  BY DEF FindSubscription, FindExisting, FindSeat, FindRow, CountForGrant,
     CountForBiometric, CountForSync, CountUsers, FindForCreate, seatVars,
     histVars
<1>2. /\ job[w].kind \in Routines /\ pc[w] \in Body[job[w].kind]
      /\ PlanChecked => job[w].kind # "payroll"
      /\ job[w].total \in Nat
  BY <1>1, BusyKind, BusyTotal DEF PlanChecked
<1>3. /\ UNCHANGED <<status, total_seats, used_seats, seats, seatless>>
      /\ Standing' = Standing /\ Seated' = Seated /\ Count' = Count
  BY <1>1 DEF rowVars, Standing, Seated, Count
<1>4. ASSUME Finish(w) PROVE Focus(w)'
  BY <1>1, <1>4, FinishFocus
<1>5. ASSUME NEW s, NEW r, Goto(w, s, r) PROVE pc'[w] = s /\ seen'[w] = r /\ job' = job
  BY <1>5 DEF Goto, ReqOK
<1>6. CASE FindSubscription(w) /\ ~Finish(w)
  <2> DEFINE s == Routine[job[w].kind]["findSub"]
             r == [Nothing EXCEPT
                     !.total = IF job[w].kind \in Grants THEN total_seats ELSE 0,
                     !.used  = IF job[w].kind = "sync" THEN used_seats ELSE 0]
  <2>1. Goto(w, s, r) /\ status \in Live
    BY <1>6 DEF FindSubscription, Advance, After
  <2>2. /\ s \in {"count", "exists", "findSeat"}
        /\ s = "exists" => job[w].kind \notin {"assign", "enable"}
    BY <1>2, <1>6, SerialTargets, FlowTargets DEF FindSubscription
  <2>3. job[w].kind \in Grants => r.total = total_seats
    BY DEF Nothing
  <2> HIDE DEF s, r
  <2>4. ReadingsHold(w)'
    BY <1>3, <1>5, <2>1, <2>2, LivesStand DEF ReadingsHold
  <2>5. QED BY <1>1, <2>1, <2>2, <2>3, <2>4, MoveFocus
<1>7. CASE FindExisting(w) /\ ~Finish(w)
  <2> DEFINE s == Routine[job[w].kind]["exists"]
  <2>1. Goto(w, s, seen[w]) /\ pc[w] = "exists" /\ Standing
    BY <1>7 DEF FindExisting, Advance, After, Focus, ReadingsHold
  <2>2. job[w].kind \in Grants
    BY <1>2, <2>1, SerialTargets
  <2>3. /\ s = "count" \/ s = "insert"
        /\ PlanChecked /\ s = "insert" => job[w].kind \in {"assign", "enable"}
    BY <1>2, <2>2, SerialTargets, FlowTargets DEF Grants, CappedGrants, UncappedGrants
  <2>4. PlanChecked => /\ seen[w].total = total_seats
                       /\ s = "insert" => Count < total_seats
    BY <2>1, <2>2, <2>3 DEF Focus, RoomFound, Admitted
  <2> HIDE DEF s
  <2>5. ReadingsHold(w)'
    BY <1>3, <1>5, <2>1, <2>3 DEF ReadingsHold
  <2>6. QED BY <1>1, <2>1, <2>3, <2>4, <2>5, MoveFocus
<1>8. CASE FindSeat(w) /\ ~Finish(w)
  <2> DEFINE r == [Nothing EXCEPT !.seat = seats[job[w].user]]
  <2>1. Goto(w, "delete", r) /\ pc[w] = "findSeat" /\ seats[job[w].user] # 0
    BY <1>2, <1>8, FlowTargets DEF FindSeat, Advance, After
  <2>2. job[w].user \in Users
    BY <2>1, NamesUser
  <2>3. Standing
    BY <2>1, <2>2 DEF Focus, Seated
  <2>4. r.seat = seats[job[w].user]
    BY DEF Nothing
  <2> HIDE DEF r
  <2>5. ReadingsHold(w)'
    BY <1>3, <1>5, <2>1, <2>3, <2>4 DEF ReadingsHold
  <2>6. QED BY <1>1, <2>1, <2>5, MoveFocus
<1>9. CASE FindRow(w) /\ ~Finish(w)
  <2> DEFINE s == Routine[job[w].kind]["findRow"]
             r == IF job[w].kind = "update" THEN RowAsRead ELSE Nothing
  <2>1. /\ Goto(w, s, r) /\ pc[w] = "findRow" /\ status # "none"
        /\ ~(job[w].kind = "update" /\ job[w].total < used_seats)
    BY <1>9 DEF FindRow, Advance, After
  <2>2. s = IF job[w].kind = "update" THEN "writeTotal" ELSE "writeCancelled"
    BY <1>2, <2>1, SerialTargets
  <2>3. job[w].kind = "update" /\ Standing => Count <= job[w].total
    <3>1. Standing => used_seats >= Count
      BY <2>1, CountType DEF Focus, CountedBut, RowOK
    <3>2. QED BY <1>2, <2>1, <3>1, CountType DEF RowOK
  <2> HIDE DEF r, s
  <2>4. ReadingsHold(w)'
    BY <1>3, <1>5, <2>1, <2>2, <2>3 DEF ReadingsHold
  <2>5. QED BY <1>1, <2>1, <2>2, <2>4, MoveFocus
<1>10. CASE CountForGrant(w) /\ ~Finish(w)
  <2> DEFINE s == Routine[job[w].kind]["count"]
  <2>1. /\ Goto(w, s, seen[w]) /\ pc[w] = "count" /\ Standing
        /\ job[w].kind \in CappedGrants /\ ~(Count >= seen[w].total)
    BY <1>10 DEF CountForGrant, Advance, After, Focus, ReadingsHold, Count
  <2>2. s \in {"exists", "insert"}
    BY <1>2, <2>1, SerialTargets DEF CappedGrants
  <2>3. PlanChecked => seen[w].total = total_seats /\ Count < total_seats
    BY <2>1, CountType DEF Focus, RoomFound, Grants, RowOK
  <2> HIDE DEF s
  <2>4. ReadingsHold(w)'
    BY <1>3, <1>5, <2>1, <2>2 DEF ReadingsHold
  <2>5. QED BY <1>1, <2>1, <2>2, <2>3, <2>4, MoveFocus
<1>11. CASE CountForBiometric(w) /\ ~Finish(w)
  <2>1. /\ pc[w] = "count" /\ Standing /\ job[w].kind = "biometric"
        /\ job[w].kind \in Grants
    BY <1>11 DEF CountForBiometric, Focus, ReadingsHold, Grants, UncappedGrants
  <2>2. CASE Count >= seen[w].total
    <3> DEFINE r == [Nothing EXCEPT !.count = Count]
    <3>1. Goto(w, "grow", r)
      BY <1>11, <2>2 DEF CountForBiometric, Count
    <3>2. r.count = Count
      BY DEF Nothing
    <3> HIDE DEF r
    <3>3. ReadingsHold(w)'
      BY <1>3, <1>5, <2>1, <3>1, <3>2 DEF ReadingsHold
    <3>4. QED BY <1>1, <3>1, <3>3, MoveFocus
  <2>3. CASE ~(Count >= seen[w].total)
    <3>1. Goto(w, "insert", seen[w])
      BY <1>2, <1>11, <2>1, <2>3, SerialTargets DEF CountForBiometric, Count,
         Advance, After
    <3>2. PlanChecked => Count < total_seats
      BY <2>1, <2>3, CountType DEF Focus, RoomFound, RowOK
    <3>3. ReadingsHold(w)'
      BY <1>3, <1>5, <2>1, <3>1 DEF ReadingsHold
    <3>4. QED BY <1>1, <3>1, <3>2, <3>3, MoveFocus
  <2>4. QED BY <2>2, <2>3
\* Both counts of the synchronisation lead to its write, or to nothing.
<1>12. ASSUME NEW n \in Nat, Settle(w, n), job[w].kind = "sync", Standing,
              pc[w] \in {"count", "countUsers"},
              ~(seatless /\ Seated = {}) => n = Count
       PROVE  Focus(w)'
  <2>1. CASE n = seen[w].used
    BY <1>4, <1>12, <2>1 DEF Settle
  <2>2. CASE n # seen[w].used
    <3> DEFINE r == [Nothing EXCEPT !.count = n]
    <3>1. Goto(w, "writeUsed", r)
      BY <1>2, <1>12, <2>2, FlowTargets DEF Settle, Advance, After
    <3>2. r.count = n
      BY DEF Nothing
    <3> HIDE DEF r
    <3>3. ReadingsHold(w)'
      BY <1>3, <1>5, <1>12, <3>1, <3>2 DEF ReadingsHold
    <3>4. QED BY <1>1, <3>1, <3>3, MoveFocus
  <2>3. QED BY <2>1, <2>2
<1>13. CASE CountForSync(w)
  <2>1. pc[w] = "count" /\ job[w].kind = "sync" /\ Standing
    BY <1>13 DEF CountForSync, Focus, ReadingsHold
  <2>2. CASE Seated = {} /\ seatless
    <3>1. Goto(w, "countUsers", seen[w])
      BY <1>13, <2>2 DEF CountForSync
    <3>2. ReadingsHold(w)'
      BY <1>3, <1>5, <2>1, <2>2, <3>1 DEF ReadingsHold
    <3>3. QED
      BY <1>1, <2>1, <3>1, <3>2, MoveFocus
      DEF Grants, CappedGrants, UncappedGrants
  <2>3. CASE ~(Seated = {} /\ seatless)
    <3>1. Settle(w, Count) /\ Count \in Nat
      BY <1>13, <2>3, CountType DEF CountForSync, Count
    <3>2. QED BY <1>12, <2>1, <3>1
  <2>4. QED BY <2>2, <2>3
<1>14. CASE CountUsers(w)
  <2>1. /\ pc[w] = "countUsers" /\ job[w].kind = "sync" /\ Standing
        /\ Seated = {} /\ seatless
    BY <1>2, <1>14, CountsUsers DEF CountUsers, Focus, ReadingsHold
  <2>2. PICK n \in 0 .. Cardinality(Users \ deleted) : Settle(w, n)
    BY <1>14 DEF CountUsers
  <2>3. n \in Nat
    BY EmployeesLeft
  <2>4. QED BY <1>12, <2>1, <2>2, <2>3
<1>15. CASE FindForCreate(w) /\ ~Finish(w)
  <2>1. \/ Goto(w, "insertRow", seen[w])
        \/ Goto(w, "reactivate", seen[w]) /\ status = "cancelled"
    BY <1>15 DEF FindForCreate
  <2>2. ReadingsHold(w)'
    BY <1>3, <1>5, <2>1 DEF ReadingsHold
  <2>3. QED BY <1>1, <2>1, <2>2, MoveFocus
<1>16. QED
  BY <1>4, <1>6, <1>7, <1>8, <1>9, <1>10, <1>11, <1>13, <1>14, <1>15

\* The statements of grants and revocations that write.
LEMMA FocusSeatWrite ==
    ASSUME RowOK, ReqOK, NEW w \in Workers, Focus(w),
           \/ GrowTotal(w) \/ InsertSeat(w) \/ IncrementUsed(w)
           \/ DeleteSeat(w) \/ DecrementUsed(w) \/ WriteUsed(w)
    PROVE  Focus(w)'
<1>1. /\ pc[w] # "idle" /\ UNCHANGED status /\ Standing
      /\ pc[w] \notin {"writeTotal", "writeCancelled", "sweep", "reactivate"}
  BY DEF GrowTotal, InsertSeat, IncrementUsed, DeleteSeat, DecrementUsed,
     WriteUsed, rowVars, Focus, ReadingsHold
<1>2. /\ job[w].kind \in Routines /\ pc[w] \in Body[job[w].kind]
      /\ PlanChecked => job[w].kind # "payroll"
  BY <1>1, BusyKind DEF PlanChecked
<1>3. Standing'
  BY <1>1 DEF Standing
<1>4. Alone(w)'
  BY AloneMove DEF Focus, GrowTotal, InsertSeat, IncrementUsed, DeleteSeat,
     DecrementUsed, WriteUsed, Advance
<1>5. ASSUME NEW s, NEW r, Goto(w, s, r) PROVE pc'[w] = s /\ seen'[w] = r /\ job' = job
  BY <1>5 DEF Goto, ReqOK
<1>6. ASSUME Finish(w) PROVE pc'[w] = "idle"
  BY <1>6 DEF Finish, ReqOK
<1>7. CASE GrowTotal(w)
  <2>1. /\ Goto(w, "insert", seen[w]) /\ pc[w] = "grow"
        /\ total_seats' = seen[w].count + 1
        /\ UNCHANGED <<used_seats, seats, rowless>>
    BY <1>2, <1>7, SerialTargets
    DEF GrowTotal, Advance, After, SetTotal, seatVars
  <2>2. /\ Count' = Count /\ used_seats = Count + rowless
        /\ seen[w].count = Count
    BY <1>1, <2>1, CountType
    DEF Count, Seated, Focus, CountedBut, ReadingsHold, RowOK
  <2>3. total_seats' = Count + 1
    BY <2>1, <2>2
  <2>4. CountedBut(w)' /\ RoomFound(w)' /\ ReadingsHold(w)'
    BY <1>3, <1>5, <2>1, <2>2, <2>3, CountType
    DEF CountedBut, RoomFound, ReadingsHold, RowOK
  <2>5. QED BY <1>3, <1>4, <2>4 DEF Focus
<1>8. CASE /\ InsertSeat(w)
           /\ seats[job[w].user] # 0 \/ job[w].user \in deleted
  <2>1. /\ Finish(w) /\ UNCHANGED <<rowVars, seats, seatless, rowless>>
        /\ pc[w] = "insert"
    BY <1>8 DEF InsertSeat, seatVars, histVars
  <2>2. QED BY <2>1, FinishFocus
<1>9. CASE /\ InsertSeat(w)
           /\ seats[job[w].user] = 0 /\ job[w].user \notin deleted
  <2>1. /\ Goto(w, "increment", Nothing) /\ pc[w] = "insert"
        /\ seats' = [seats EXCEPT ![job[w].user] = nextSeatId]
        /\ UNCHANGED <<used_seats, total_seats, rowless>>
    BY <1>2, <1>9, FlowTargets DEF InsertSeat, Advance, After, rowVars, histVars
  <2>2. job[w].user \in Users
    BY <2>1, NamesUser
  <2>3. Count' = Count + 1
    BY <1>9, <2>1, <2>2, OneSeat DEF RowOK
  <2>4. used_seats = Count + rowless
    BY <1>1, <2>1, CountType DEF Focus, CountedBut, RowOK
  <2>5. CountedBut(w)'
    BY <1>5, <2>1, <2>3, <2>4, CountType DEF CountedBut, RowOK
  <2>6. PlanChecked => Count < total_seats
    BY <2>1 DEF Focus, RoomFound, Admitted
  <2>7. RoomFound(w)' /\ ReadingsHold(w)'
    BY <1>3, <1>5, <2>1, <2>3, <2>6, CountType
    DEF RoomFound, ReadingsHold, RowOK, Admitted
  <2>8. QED BY <1>3, <1>4, <2>5, <2>7 DEF Focus
<1>10. CASE DeleteSeat(w)
  <2>1. /\ Goto(w, "decrement", Nothing) /\ pc[w] = "delete"
        /\ seats[job[w].user] = seen[w].seat /\ seats[job[w].user] # 0
        /\ UNCHANGED <<used_seats, total_seats, rowless>>
    BY <1>2, <1>10, FlowTargets DEF DeleteSeat, Advance, After, rowVars, Focus,
       ReadingsHold, histVars
  <2>2. seats' = [seats EXCEPT ![job[w].user] = 0] /\ job[w].user \in Users
    BY <1>10, <2>1, NamesUser DEF DeleteSeat, RowOK
  <2>3. Count' = Count - 1
    BY <2>1, <2>2, OneSeat
  <2>4. used_seats = Count + rowless
    BY <1>1, <2>1, CountType DEF Focus, CountedBut, RowOK
  <2>5. CountedBut(w)'
    BY <1>5, <2>1, <2>3, <2>4, CountType DEF CountedBut, RowOK
  <2>6. PlanChecked => Count <= total_seats
    BY <1>1 DEF Focus, RoomFound
  <2>7. RoomFound(w)' /\ ReadingsHold(w)'
    BY <1>3, <1>5, <2>1, <2>3, <2>6, CountType
    DEF RoomFound, ReadingsHold, RowOK, Admitted
  <2>8. QED BY <1>3, <1>4, <2>5, <2>7 DEF Focus
<1>11. CASE IncrementUsed(w) \/ DecrementUsed(w) \/ WriteUsed(w)
  <2>1. /\ Finish(w) /\ UNCHANGED <<total_seats, seats>>
        /\ \/ /\ pc[w] = "increment"
              /\ used_seats' = used_seats + 1 /\ rowless' = rowless
           \/ /\ pc[w] = "decrement"
              /\ used_seats' = used_seats - 1 /\ rowless' = rowless
           \/ /\ pc[w] = "writeUsed" /\ used_seats' = seen[w].count
              /\ rowless' = IF seatless /\ Seated = {} THEN seen[w].count ELSE 0
    BY <1>11 DEF IncrementUsed, DecrementUsed, WriteUsed, seatVars, histVars
  <2>2. /\ Count' = Count /\ CountedBut(w) /\ Count \in Nat
        /\ rowless \in Nat /\ seen[w].count \in Nat
    BY <1>1, <2>1, CountType
    DEF Count, Seated, Focus, RowOK, ReqOK, Readings
  <2>3. used_seats' = Count + rowless'
    <3>1. CASE pc[w] = "writeUsed"
      BY <2>1, <2>2, <3>1, NoSeat DEF Focus, ReadingsHold
    <3>2. CASE pc[w] # "writeUsed"
      BY <2>1, <2>2, <3>2 DEF CountedBut
    <3>3. QED BY <3>1, <3>2
  <2>4. CountedBut(w)'
    <3>1. rowless' \in Nat
      BY <2>1, <2>2
    <3>2. QED BY <1>6, <2>1, <2>2, <2>3, <3>1 DEF CountedBut
  <2>5. PlanChecked => Count <= total_seats
    BY <1>1 DEF Focus, RoomFound
  <2>6. RoomFound(w)' /\ ReadingsHold(w)'
    BY <1>3, <1>6, <2>1, <2>2, <2>5 DEF RoomFound, ReadingsHold, Admitted
  <2>7. QED BY <1>3, <1>4, <2>4, <2>6 DEF Focus
<1>12. QED BY <1>7, <1>8, <1>9, <1>10, <1>11

\* The statements that write the subscription itself.
LEMMA FocusRowWrite ==
    ASSUME RowOK, ReqOK, NEW w \in Workers, Focus(w), ~tainted',
           \/ WriteTotal(w) \/ WriteCancelled(w) \/ SweepSeats(w)
           \/ InsertRow(w) \/ Reactivate(w)
    PROVE  Focus(w)'
<1>1. /\ pc[w] # "idle" /\ pc[w] \notin {"increment", "decrement"}
      /\ Standing => used_seats = Count + rowless
  BY CountType DEF WriteTotal, WriteCancelled, SweepSeats, InsertRow, Reactivate,
     Focus, CountedBut, RowOK
<1>2. /\ job[w].kind \in Routines /\ pc[w] \in Body[job[w].kind]
      /\ job[w].total \in Nat /\ RowOK'
  BY <1>1, BusyKind, BusyTotal, RowStep DEF Step
<1>3. Alone(w)'
  BY AloneMove DEF Focus, WriteTotal, WriteCancelled, SweepSeats, InsertRow,
     Reactivate, Advance
<1>4. ASSUME NEW s, NEW r, Goto(w, s, r) PROVE pc'[w] = s /\ seen'[w] = r /\ job' = job
  BY <1>4 DEF Goto, ReqOK
<1>5. ASSUME Finish(w) PROVE pc'[w] = "idle"
  BY <1>5 DEF Finish, ReqOK
\* All but WriteCancelled end the request.
<1>6. ASSUME Finish(w),
             Standing' => /\ used_seats' = Count' + rowless'
                          /\ Count' <= total_seats',
             Standing' \/ Seated' = {}
      PROVE  Focus(w)'
  <2>1. pc'[w] = "idle"
    BY <1>5, <1>6
  <2>2. Count' \in Nat
    <3>1. Seated' \in SUBSET Users
      BY DEF Seated
    <3>2. QED BY <3>1, UsersFinite, FS_Subset, FS_CardinalityType DEF Count
  <2>3. ReadingsHold(w)' /\ RoomFound(w)'
    BY <1>6, <2>1 DEF ReadingsHold, RoomFound, Admitted
  <2>4. ASSUME Standing' PROVE CountedBut(w)'
    <3>1. used_seats' = Count' + rowless' /\ rowless' \in Nat
      BY <1>2, <1>6, <2>4 DEF RowOK
    <3>2. QED BY <2>1, <2>2, <3>1 DEF CountedBut, Count
  <2>5. QED BY <1>3, <1>6, <2>3, <2>4 DEF Focus
\* A row that exists and is not standing is cancelled.
<1>7. status # "none" => (Standing <=> status # "cancelled")
  BY DEF Standing, RowOK, Statuses, Settable, Live
<1>8. CASE WriteTotal(w)
  <2>1. /\ Finish(w) /\ UNCHANGED <<used_seats, seats, rowless>> /\ status # "none"
        /\ pc[w] = "writeTotal" /\ total_seats' = job[w].total
    BY <1>8 DEF WriteTotal, SetTotal, seatVars, Focus, ReadingsHold
  <2>2. Seated' = Seated /\ Count' = Count
    BY <2>1 DEF Seated, Count
  <2>3. \/ status' = status
        \/ \E s \in Settable : status' = s /\ ~LeavesDrift(s)
    BY <1>8 DEF WriteTotal, SetStatus
  <2>4. /\ Standing => Standing' \/ Seated = {}
        /\ ~Standing => ~Standing'
    BY <1>7, <2>1, <2>3 DEF LeavesDrift, Standing, Settable, Live
  <2>5. Standing \/ Seated = {}
    BY <2>1 DEF Focus
  <2>6. Standing => Count <= job[w].total
    BY <2>1 DEF Focus, ReadingsHold
  <2>7. Standing' => Standing
    BY <2>4
  <2>8. Standing' \/ Seated = {}
    BY <2>4, <2>5
  <2>9. Standing' => used_seats' = Count' + rowless' /\ Count' <= total_seats'
    BY <1>1, <2>1, <2>2, <2>6, <2>7
  <2>10. QED BY <1>6, <2>1, <2>2, <2>8, <2>9
<1>9. CASE WriteCancelled(w)
  <2>1. /\ Goto(w, "sweep", seen[w]) /\ UNCHANGED seats
        /\ pc[w] = "writeCancelled" /\ status' = "cancelled"
    BY <1>2, <1>9, FlowTargets DEF WriteCancelled, Advance, After, SetStatus,
       seatVars
  <2>2. ~Standing'
    BY <2>1 DEF Standing, Live
  <2>3. ReadingsHold(w)' /\ RoomFound(w)'
    BY <1>4, <2>1, <2>2 DEF ReadingsHold, RoomFound, Admitted
  <2>4. QED BY <1>3, <1>4, <2>1, <2>2, <2>3 DEF Focus
<1>10. CASE SweepSeats(w)
  <2>1. /\ Finish(w) /\ Seated' = {} /\ status' = status /\ status = "cancelled"
    BY <1>10 DEF SweepSeats, Seated, rowVars, Focus, ReadingsHold
  <2>2. ~Standing'
    BY <2>1 DEF Standing, Live
  <2>3. QED BY <1>6, <2>1, <2>2
<1>11. CASE InsertRow(w) /\ status # "none"
  <2>1. /\ Finish(w) /\ UNCHANGED <<rowVars, seats, seatless, rowless>>
        /\ pc[w] = "insertRow"
    BY <1>11 DEF InsertRow, seatVars
  <2>2. QED BY <2>1, FinishFocus
<1>12. CASE (InsertRow(w) /\ status = "none") \/ Reactivate(w)
  <2>1. /\ Finish(w) /\ used_seats' = 0 /\ rowless' = 0 /\ UNCHANGED seats
        /\ pc[w] \in {"insertRow", "reactivate"} /\ status \in {"none", "cancelled"}
        /\ status' \in Live /\ total_seats' = job[w].total
    BY <1>12 DEF InsertRow, Reactivate, SetStatus, SetTotal, seatVars, Focus,
       ReadingsHold
  <2>2. ~Standing /\ Standing'
    BY <2>1 DEF Standing, Live
  <2>3. Seated = {} /\ Seated' = Seated /\ Count' = Count
    BY <2>1, <2>2 DEF Focus, Seated, Count
  <2>4. QED BY <1>2, <1>6, <2>1, <2>2, <2>3, NoSeat
<1>13. QED BY <1>8, <1>9, <1>10, <1>11, <1>12

\* What others do to the row between requests leaves a lone focus on any of
\* the idle workers.
LEMMA FocusOutside ==
    ASSUME RowOK, ReqOK, NEW w \in Workers, Focus(w), RowWrites, ~tainted'
    PROVE  Focus(w)'
<1>1. /\ UNCHANGED <<seats, pc, job, seen>> /\ RowOK' /\ status # "none"
  BY RowWriteEffect DEF seatVars, reqVars
<1>2. /\ AllIdle /\ used_seats' = used_seats /\ rowless' = rowless
      /\ \E s \in Settable : status' = s /\ ~LeavesDrift(s)
      /\ total_seats' = total_seats \/ ~(total_seats' < Count)
  BY DEF RowWrites, BillingCancelled, BillingPastDue, BillingPaid, AdminUpdate,
     External, SetStatus, SetTotal, Settable, Live, Count
<1>3. pc[w] = "idle" /\ pc'[w] = "idle"
  BY <1>1, <1>2 DEF AllIdle
<1>4. Seated' = Seated /\ Count' = Count /\ Alone(w)'
  BY <1>1 DEF Seated, Count, Focus, Alone
<1>5. status # "none" => (Standing <=> status # "cancelled")
  BY DEF Standing, RowOK, Statuses, Settable, Live
<1>6. /\ Standing => Standing' \/ Seated = {}
      /\ ~Standing => ~Standing'
  BY <1>1, <1>2, <1>5 DEF LeavesDrift, Standing, Settable, Live
<1>7. (Standing => CountedBut(w))'
  BY <1>2, <1>3, <1>4, <1>6 DEF Focus, CountedBut
<1>8. Standing /\ PlanChecked => Count <= total_seats'
  BY <1>1, <1>2, CountType DEF Focus, RoomFound, RowOK
<1>9. ReadingsHold(w)' /\ RoomFound(w)'
  BY <1>3, <1>4, <1>6, <1>8 DEF ReadingsHold, RoomFound, Admitted
<1>10. (Standing \/ Seated = {})'
  BY <1>3, <1>4, <1>6 DEF Focus
<1>11. QED BY <1>4, <1>7, <1>9, <1>10 DEF Focus

\* An employee deleted between requests takes the seat along and leaves the
\* counter as it is: the difference is one more.
LEMMA FocusDeletion ==
    ASSUME RowOK, ReqOK, NEW w \in Workers, Focus(w), NEW u \in Users,
           DeleteUser(u), ~tainted'
    PROVE  Focus(w)'
<1>1. /\ AllIdle /\ UNCHANGED <<status, total_seats, used_seats, pc, job, seen>>
      /\ Standing' = Standing
  BY DEF DeleteUser, rowVars, reqVars, Standing
<1>2. pc[w] = "idle" /\ pc'[w] = "idle" /\ Alone(w)'
  BY <1>1 DEF AllIdle, Alone
<1>3. /\ Count' + rowless' = Count + rowless
      /\ Count' <= Count /\ Count' \in Nat /\ rowless' \in Nat
  <2>1. CASE seats[u] # 0
    <3>1. Count' = Count - 1
      BY <2>1, OneSeat DEF DeleteUser
    <3>2. rowless' = rowless + 1
      BY <2>1 DEF DeleteUser
    <3>3. Count' \in Nat
      <4>1. Seated' \in SUBSET Users
        BY DEF Seated
      <4>2. QED BY <4>1, UsersFinite, FS_Subset, FS_CardinalityType DEF Count
    <3>4. QED BY <3>1, <3>2, <3>3, CountType DEF RowOK
  <2>2. CASE seats[u] = 0
    <3>1. seats' = seats /\ rowless' = rowless
      BY <2>2 DEF DeleteUser, RowOK
    <3>2. Count' = Count
      BY <3>1 DEF Count, Seated
    <3>3. QED BY <3>1, <3>2, CountType DEF RowOK
  <2>3. QED BY <2>1, <2>2
<1>4. (Standing => CountedBut(w))'
  BY <1>1, <1>2, <1>3, CountType DEF Focus, CountedBut, RowOK
<1>5. (Standing \/ Seated = {} \/ pc[w] = "sweep")'
  BY <1>1, <1>2 DEF Focus, Seated, DeleteUser, RowOK
<1>6. ReadingsHold(w)'
  BY <1>2 DEF ReadingsHold
<1>7. Standing /\ PlanChecked => Count' <= total_seats
  BY <1>3, CountType DEF Focus, RoomFound, RowOK
<1>8. RoomFound(w)'
  BY <1>1, <1>2, <1>7 DEF RoomFound, Admitted
<1>9. QED BY <1>2, <1>4, <1>5, <1>6, <1>8 DEF Focus

LEMMA SerialNext ==
    ASSUME RowOK, ReqOK, SerialInv, [Next]_vars
    PROVE  SerialInv'
<1> SUFFICES ASSUME ~tainted' PROVE (\E w \in Workers : Focus(w))'
  BY DEF SerialInv
<1>1. ~tainted
  BY DEF Next, Arrive, Abort, Step, FindSubscription, FindExisting, FindSeat,
     FindRow, CountForGrant, CountForBiometric, CountForSync, CountUsers,
     GrowTotal, InsertSeat, IncrementUsed, DeleteSeat, DecrementUsed, WriteUsed,
     WriteTotal, WriteCancelled, SweepSeats, FindForCreate, InsertRow, Reactivate,
     RowWrites, DeleteUser,
     BillingCancelled, BillingPastDue, BillingPaid, AdminUpdate, vars, histVars
<1>2. PICK w \in Workers : Focus(w)
  BY <1>1 DEF SerialInv
<1>3. ASSUME NEW v \in Workers, Step(v) PROVE Focus(w)'
  <2>1. pc[v] # "idle"
    BY <1>3 DEF Step, FindSubscription, FindExisting, FindSeat, FindRow,
       CountForGrant, CountForBiometric, CountForSync, CountUsers,
       GrowTotal, InsertSeat, IncrementUsed, DeleteSeat, DecrementUsed, WriteUsed, WriteTotal,
       WriteCancelled, SweepSeats, FindForCreate, InsertRow, Reactivate
  <2>2. v = w
    BY <1>2, <2>1 DEF Focus, Alone
  <2>3. QED
    BY <1>2, <1>3, <2>2, FocusRead, FocusSeatWrite, FocusRowWrite DEF Step
<1>4. ASSUME NEW v \in Workers, NEW j \in Jobs, Arrive(v, j) PROVE Focus(v)'
  <2>1. AllIdle /\ UNCHANGED <<rowVars, seats, rowless>>
    BY <1>4 DEF Arrive, seatVars
  <2>2. /\ pc'[v] = Routine[j.kind].start /\ \A u \in Workers \ {v} : pc'[u] = "idle"
        /\ UNCHANGED <<status, total_seats, used_seats>>
        /\ Standing' = Standing /\ Seated' = Seated /\ Count' = Count
    BY <1>4, <2>1 DEF Arrive, AllIdle, ReqOK, rowVars, Standing, Seated, Count
  <2>3. Routine[j.kind].start \in {"findSub", "findSeat", "findRow", "findForCreate"}
    <3>1. j.kind \in Routines
      BY JobKinds
    <3>2. QED
      BY <3>1 DEF Routines, Grants, CappedGrants, UncappedGrants, Revocations,
         Resizes, Routine, AssignSeat, EnableUserForModule, ModuleSeatAdded,
         EnsureBiometricSeat, AutoAssignPayrollSeat, RevokeSeat,
         DisableUserForModule, ModuleSeatRemoved, ReleaseBiometricSeat,
         SyncUsedSeats, UpdateSubscription, CancelSubscription, CreateSubscription
  <2>4. pc[w] = "idle"
    BY <2>1 DEF AllIdle
  <2>5. Alone(v)' /\ ReadingsHold(v)'
    BY <2>2, <2>3 DEF Alone, ReadingsHold
  <2>6. Standing => CountedBut(v)'
    BY <1>2, <2>1, <2>2, <2>3, <2>4 DEF Focus, CountedBut
  <2>7. RoomFound(v)'
    BY <1>2, <2>2, <2>3 DEF Focus, RoomFound, Admitted
  <2>8. (Standing \/ Seated = {})'
    BY <1>2, <2>2, <2>4 DEF Focus
  <2>9. QED BY <2>2, <2>5, <2>6, <2>7, <2>8 DEF Focus
<1>5. CASE RowWrites
  BY <1>2, <1>5, FocusOutside
<1>6. CASE UNCHANGED vars
  <2>1. /\ UNCHANGED <<status, total_seats, used_seats, seats, pc, job, seen>>
        /\ UNCHANGED <<seatless, rowless>>
    BY <1>6 DEF vars, rowVars, seatVars, reqVars, histVars
  <2>2. /\ Standing' = Standing /\ Seated' = Seated /\ Count' = Count
        /\ Admitted' = Admitted
    BY <2>1 DEF Standing, Seated, Count, Admitted
  <2>3. Alone(w)' /\ ReadingsHold(w)' /\ RoomFound(w)'
    BY <1>2, <2>1, <2>2 DEF Focus, Alone, ReadingsHold, RoomFound
  <2>4. (Standing => CountedBut(w))'
    BY <1>2, <2>1, <2>2 DEF Focus, CountedBut
  <2>5. QED BY <1>2, <2>1, <2>2, <2>3, <2>4 DEF Focus
<1>7. ASSUME NEW v \in Workers, Abort(v) PROVE FALSE
  BY <1>7 DEF Abort
<1>8. ASSUME NEW u \in Users, DeleteUser(u) PROVE Focus(w)'
  BY <1>2, <1>8, FocusDeletion
<1>9. QED BY <1>3, <1>4, <1>5, <1>6, <1>7, <1>8 DEF Next

LEMMA SerialInit == Init => SerialInv
<1> SUFFICES ASSUME Init PROVE \E w \in Workers : Focus(w)
  BY DEF SerialInv
<1>1. PICK w \in Workers : TRUE
  BY WorkersFinite
<1>2. Seated = {} /\ ~Standing /\ pc[w] = "idle" /\ Alone(w)
  BY DEF Init, Seated, Standing, Live, Alone
<1>3. Focus(w)
  BY <1>2 DEF Focus, ReadingsHold, RoomFound, Admitted
<1>4. QED BY <1>3

\* Between requests the counter is the number of rows and of those it counts
\* without a row (SerialExact says which), if requests and deletions have come
\* one after the other: for every routine, the payroll sync included.
CounterExact == ~tainted /\ AllIdle /\ Standing => used_seats = Count + rowless

LEMMA SerialMeans ==
    ASSUME RowOK, SerialInv
    PROVE  /\ CounterExact
           /\ PlanChecked => SerialExact
<1> SUFFICES ASSUME ~tainted, AllIdle, Standing
             PROVE  /\ used_seats = Count + rowless
                    /\ PlanChecked => Count <= total_seats
  BY DEF CounterExact, SerialExact, Count, Standing
<1>1. PICK w \in Workers : Focus(w)
  BY DEF SerialInv
<1>2. pc[w] = "idle"
  BY DEF AllIdle
<1>3. QED BY <1>1, <1>2, CountType DEF Focus, CountedBut, RoomFound, RowOK

\* While requests and deletions of employees come one after the other, and
\* nothing else shrinks a plan or revives a cancelled one, the cached counter is
\* the number of seat rows and of employees deleted with theirs ...
THEOREM SerialCounter == Spec => []CounterExact
<1>1. Init => RowOK /\ ReqOK /\ SerialInv
  BY TypeInit, SerialInit
<1>2. (RowOK /\ ReqOK /\ SerialInv) /\ [Next]_vars => (RowOK /\ ReqOK /\ SerialInv)'
  BY TypeStep, SerialNext
<1>3. RowOK /\ ReqOK /\ SerialInv => CounterExact
  BY SerialMeans
<1>4. QED BY <1>1, <1>2, <1>3, PTL DEF Spec

\* ... and, where the payroll sync does not run, the plan covers them.
THEOREM SerialSeats ==
    ASSUME PlanChecked
    PROVE  Spec => []SerialExact
<1>1. Init => RowOK /\ ReqOK /\ SerialInv
  BY TypeInit, SerialInit
<1>2. (RowOK /\ ReqOK /\ SerialInv) /\ [Next]_vars => (RowOK /\ ReqOK /\ SerialInv)'
  BY TypeStep, SerialNext
<1>3. RowOK /\ ReqOK /\ SerialInv => SerialExact
  BY SerialMeans
<1>4. QED BY <1>1, <1>2, <1>3, PTL DEF Spec
=============================================================================
