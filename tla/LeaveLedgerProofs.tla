-------------------------- MODULE LeaveLedgerProofs --------------------------
(***************************************************************************)
(* Proofs about LeaveLedger, for any number of requests and applications,  *)
(* any fiscal year, quota and policy.                                      *)
(***************************************************************************)
EXTENDS LeaveLedger, FiniteSetTheorems, TLAPS

(***************************************************************************)
(* The inductive invariant: types, what each statement has in hand, and    *)
(* that a row read in order to be written back satisfied RowAgrees.        *)
(***************************************************************************)
Asking   == {"checkBalance", "rollover", "findOverlaps"}
HasRequest == Asking \cup {"findOwn", "insert", "writeUpdate",
                         "readForDeduct", "writeDeduct"}
HasTarget == {"writeUpdate", "writeCancelled", "readForApproval", "commitApproval",
              "writeRejected", "reverse"}
HasId    == HasTarget \cup {"findOwn", "findActive", "findPending"}
HasApp   == {"writeCancelled", "readForCredit", "writeCredit", "clearAttendance",
             "readForApproval", "commitApproval", "writeRejected", "reverse"}
HasBalance == {"writeDeduct", "writeCredit", "commitApproval"}
HasMark  == {"findApproved", "writeMark", "reverse"}

Statements == HasRequest \cup HasId \cup HasApp \cup HasBalance \cup HasMark

Attendance == [status : AttendanceStatuses, punched : BOOLEAN]

Reads == [app : AppRows \cup {Nothing}, row : BalanceRows \cup {Nothing},
          attendance : [Dates -> Attendance] \cup {Nothing}]

\* A row read is as good as the one it was read from.
Kept(r) == r \in BalanceRows /\ r.used + r.balance >= Annual

\* What statement p of request j may rely on, having read s.
Work(p, j, s) ==
    /\ p \in HasRequest => j.request \in Requests
    /\ p \in HasId => j.id \in Ids
    /\ p \in HasApp => s.app \in AppRows
    /\ p = "rollover" => s.row \in BalanceRows
    /\ p \in HasBalance => Kept(s.row)
    /\ p = "commitApproval" => s.row.balance >= s.app.days
    /\ p \in HasMark => j.date \in Cells /\ j.mark \in {"present", "absent"}
    /\ p = "reverse" => j.date \in DatesOf(s.app)

\* The application it writes is there.
Target(p, j, table) ==
    /\ p \in HasTarget => table[j.id] \in AppRows
    /\ p \in Asking /\ j.kind # "apply" => j.id \in Ids /\ table[j.id] \in AppRows

Tables ==
    /\ apps \in [Ids -> AppRows \cup {Nothing}]
    /\ Kept(row)
    /\ attendance \in [Dates -> Attendance]
    /\ today \in Dates
    /\ lock \in [Ids -> Workers \cup {Nothing}]
    /\ calm \in BOOLEAN

InHand ==
    /\ pc \in [Workers -> Statements \cup {"idle"}]
    /\ job \in [Workers -> Jobs \cup Reversals \cup {Nothing}]
    /\ seen \in [Workers -> Reads]

Ind == /\ Tables
       /\ InHand
       /\ \A w \in Workers : Work(pc[w], job[w], seen[w]) /\ Target(pc[w], job[w], apps)

-----------------------------------------------------------------------------
(***************************************************************************)
(* Lemmas on numbers and rows.                                             *)
(***************************************************************************)
LEMMA DivNat ==
    ASSUME NEW n \in Nat, NEW m \in Nat \ {0}
    PROVE  n \div m \in Nat
BY SMT

LEMMA TimesNat ==
    ASSUME NEW n \in Nat, NEW m \in Nat
    PROVE  n * m \in Nat
BY SMT

LEMMA PeriodTyped == ASSUME NEW d \in Dates PROVE Period(d) \in Periods
BY DEF Periods

LEMMA PeriodPositive == ASSUME NEW d \in Dates PROVE Period(d) \in Nat \ {0}
<1>1. d - 1 \in Nat
  BY DatesOK DEF Dates
<1>2. (d - 1) \div PeriodLength \in Nat
  BY <1>1, PeriodsOK, DivNat
<1>3. QED BY <1>2 DEF Period

LEMMA AnnualNat == Annual \in Nat
<1>1. IsFiniteSet(Dates)
  BY FS_Interval, DatesOK DEF Dates
<1>2. IsFiniteSet(Periods)
  <2> DEFINE f == [d \in Dates |-> Period(d)]
  <2>1. f \in Surjection(Dates, Periods)
    BY DEF Surjection, Periods
  <2>2. QED BY <1>1, <2>1, FS_Surjection
<1>3. Cardinality(Periods) \in Nat
  BY <1>2, FS_CardinalityType
<1>4. QED BY <1>3, PeriodsOK, TimesNat DEF Annual

LEMMA RequestTyped ==
    ASSUME NEW r \in Requests
    PROVE  /\ r.days \in Nat
           /\ \A s \in {"pending", "approved", "rejected", "cancelled"} :
                 Application(r, s) \in AppRows
<1>1. Shape(r)
  BY RequestsOK
<1>2. r.first \in Nat /\ r.last \in Nat /\ r.first <= r.last
  BY <1>1, DatesOK DEF Shape, Dates
<1>3. r.days \in Nat
  BY <1>1, <1>2 DEF Shape
<1>4. QED BY <1>1, <1>3 DEF Shape, Application, AppRows

LEMMA KeptWritten ==
    ASSUME NEW x \in BalanceRows, NEW used \in Nat, NEW balance \in Nat, NEW spent \in Nat,
           used + balance >= Annual
    PROVE  Kept([x EXCEPT !.used = used, !.balance = balance, !.periodUsed = spent])
BY DEF Kept, BalanceRows

LEMMA AppTyped ==
    ASSUME NEW a \in AppRows
    PROVE  /\ a.first \in Nat /\ a.last \in Nat /\ a.days \in Nat
           /\ Refund(a) \in Nat
           /\ NotBelow0(a.days - Refund(a)) \in Nat
           /\ \A s \in {"pending", "approved", "rejected", "cancelled"} :
                 [a EXCEPT !.status = s] \in AppRows
BY DatesOK DEF AppRows, Dates, Refund, NotBelow0

\* What remains of a leave is shared out, nothing is owed.
LEMMA SharesNat ==
    ASSUME NEW a \in AppRows, NEW d \in DatesOf(a)
    PROVE  Early(a, d) \in Nat /\ Late(a, d) \in Nat
<1> DEFINE rest == NotBelow0(a.days - Refund(a))
           before == d - a.first
           after == a.last - d
           rounded == (2 * rest * before + before + after) \div (2 * (before + after))
<1>1. rest \in Nat /\ before \in Nat /\ after \in Nat
  <2>1. a.first \in Nat /\ a.last \in Nat /\ rest \in Nat
    BY AppTyped
  <2>2. d \in Nat /\ a.first <= d /\ d <= a.last
    BY DatesOK DEF DatesOf, Dates
  <2>3. QED BY <2>1, <2>2
<1>2. Early(a, d) \in Nat /\ Early(a, d) <= rest
  <2>1. CASE before = 0
    BY <1>1, <2>1 DEF Early
  <2>2. CASE before > 0 /\ after = 0
    BY <1>1, <2>2 DEF Early
  <2>3. CASE before > 0 /\ after > 0
    <3>1. 2 * rest * before \in Nat
      BY <1>1, TimesNat
    <3>2. rounded \in Nat
      <4> HIDE DEF rest, before, after
      <4>1. 2 * rest * before + before + after \in Nat /\ 2 * (before + after) \in Nat \ {0}
        BY <1>1, <2>3, <3>1
      <4>2. QED BY <4>1, DivNat
    <3>3. Early(a, d) = IF rounded < rest THEN rounded ELSE rest
      BY <1>1, <2>3 DEF Early
    <3>4. QED
      <4> HIDE DEF rounded, rest
      <4>1. QED BY <1>1, <3>2, <3>3
  <2>4. QED BY <1>1, <2>1, <2>2, <2>3
<1>3. Late(a, d) = IF a.last = d THEN 0 ELSE rest - Early(a, d)
  BY DEF Late
<1>4. QED
  <2> HIDE DEF rest
  <2>1. QED BY <1>1, <1>2, <1>3

\* The pieces an override leaves lie inside the fiscal year.
LEMMA SplitTyped ==
    ASSUME apps \in [Ids -> AppRows \cup {Nothing}],
           NEW id \in Ids, apps[id] \in AppRows,
           NEW a \in AppRows, NEW d \in DatesOf(a)
    PROVE  /\ Split(id, a, d) \in [Ids -> AppRows \cup {Nothing}]
           /\ \A i \in Ids : apps[i] \in AppRows => Split(id, a, d)[i] \in AppRows
<1> DEFINE next  == CHOOSE i \in Ids : Fresh(i)
           early == IF Early(a, d) > 0 THEN {next} ELSE {}
           late  == IF Late(a, d) > 0 THEN {next + Cardinality(early)} ELSE {}
<1>1. a.first \in Nat /\ a.last \in Nat /\ d \in Nat /\ a.first <= d /\ d <= a.last
      /\ a.first >= 1 /\ a.last <= LastDate /\ LastDate \in Nat
  BY DatesOK DEF DatesOf, AppRows, Dates
<1>2. Early(a, d) > 0 => Piece(a, a.first, d - 1, Early(a, d)) \in AppRows
  <2>1. ASSUME Early(a, d) > 0 PROVE d - 1 \in Dates /\ a.first \in Dates
    <3>1. d # a.first
      BY <1>1, <2>1 DEF Early
    <3>2. QED BY <1>1, <3>1 DEF Dates
  <2>2. QED BY <2>1, SharesNat DEF Piece, AppRows
<1>3. Late(a, d) > 0 => Piece(a, d + 1, a.last, Late(a, d)) \in AppRows
  <2>1. ASSUME Late(a, d) > 0 PROVE d + 1 \in Dates /\ a.last \in Dates
    <3>1. d # a.last
      BY <2>1 DEF Late
    <3>2. QED BY <1>1, <3>1 DEF Dates
  <2>2. QED BY <2>1, SharesNat DEF Piece, AppRows
<1>4. ASSUME NEW i \in Ids
      PROVE  /\ Split(id, a, d)[i] \in AppRows \cup {Nothing}
             /\ apps[i] \in AppRows => Split(id, a, d)[i] \in AppRows
  <2>0. Split(id, a, d)[i] =
            CASE i = id      -> [apps[i] EXCEPT !.status = "cancelled"]
              [] i \in early -> Piece(a, a.first, d - 1, Early(a, d))
              [] i \in late  -> Piece(a, d + 1, a.last, Late(a, d))
              [] OTHER       -> apps[i]
    BY <1>4 DEF Split
  <2>1. [apps[id] EXCEPT !.status = "cancelled"] \in AppRows
    BY AppTyped
  <2>2. i \in early => Piece(a, a.first, d - 1, Early(a, d)) \in AppRows
    BY <1>2
  <2>3. i \in late => Piece(a, d + 1, a.last, Late(a, d)) \in AppRows
    BY <1>3
  <2> HIDE DEF early, late
  <2>4. QED BY <2>0, <2>1, <2>2, <2>3
<1>5. Split(id, a, d) = [i \in Ids |-> Split(id, a, d)[i]]
  BY DEF Split
<1>6. QED BY <1>4, <1>5

LEMMA MarkedTyped ==
    ASSUME attendance \in [Dates -> Attendance], NEW a, NEW snapshot
    PROVE  Marked(a, snapshot) \in [Dates -> Attendance]
<1> DEFINE taken(e) == snapshot[e].status = "none" /\ attendance[e].status # "none"
           reached(e) == \A x \in DatesOf(a) : x <= e => ~taken(x)
           leave == IF a.half = "no" THEN "on_leave" ELSE "half_day"
<1>1. leave \in AttendanceStatuses
  BY DEF AttendanceStatuses
<1>2. [status |-> leave, punched |-> FALSE] \in Attendance
  BY <1>1 DEF Attendance
<1> SUFFICES ASSUME NEW d \in Dates PROVE Marked(a, snapshot)[d] \in Attendance
  BY DEF Marked
<1>3. [attendance[d] EXCEPT !.status = leave] \in Attendance
  BY <1>1 DEF Attendance
<1>4. Marked(a, snapshot)[d] =
        CASE d \notin DatesOf(a) \/ ~reached(d) -> attendance[d]
          [] d \in DatesOf(a) /\ reached(d) /\ snapshot[d].status = "none" ->
                [status |-> leave, punched |-> FALSE]
          [] d \in DatesOf(a) /\ reached(d) /\ snapshot[d].status = "absent"
                /\ attendance[d] # NoRecord ->
                [attendance[d] EXCEPT !.status = leave]
          [] OTHER -> attendance[d]
  BY DEF Marked
<1> HIDE DEF reached, leave
<1>5. QED BY <1>2, <1>3, <1>4

-----------------------------------------------------------------------------
(***************************************************************************)
(* Lemmas on what a step of one worker leaves behind.                      *)
(***************************************************************************)
\* Only w has moved, and its next statement has what it needs.
Alone(w) ==
    /\ InHand'
    /\ \A v \in Workers \ {w} : pc'[v] = pc[v] /\ job'[v] = job[v] /\ seen'[v] = seen[v]
    /\ Work(pc'[w], job'[w], seen'[w])

LEMMA FinishAlone ==
    ASSUME InHand, NEW w \in Workers, Finish(w)
    PROVE  Alone(w) /\ Target(pc'[w], job'[w], apps')
<1>1. Blank \in Reads
  BY DEF Blank, Reads
<1>2. /\ pc'[w] = "idle"
      /\ InHand'
      /\ \A v \in Workers \ {w} : pc'[v] = pc[v] /\ job'[v] = job[v] /\ seen'[v] = seen[v]
  BY <1>1 DEF InHand, Finish
<1>3. Work("idle", job'[w], seen'[w]) /\ Target("idle", job'[w], apps')
  BY DEF Work, Target, HasRequest, Asking, HasTarget, HasId, HasApp, HasBalance, HasMark
<1>4. QED BY <1>2, <1>3 DEF Alone

LEMMA GotoAlone ==
    ASSUME InHand, NEW w \in Workers, NEW s \in Statements, NEW x \in Reads,
           Goto(w, s), UNCHANGED job,
           seen' = [seen EXCEPT ![w] = x], Work(s, job[w], x)
    PROVE  Alone(w) /\ pc'[w] = s /\ job'[w] = job[w]
<1>1. /\ pc'[w] = s /\ job' = job /\ seen'[w] = x
      /\ InHand'
      /\ \A v \in Workers \ {w} : pc'[v] = pc[v] /\ job'[v] = job[v] /\ seen'[v] = seen[v]
  BY DEF InHand, Goto
<1>2. QED BY <1>1 DEF Alone

\* A row with an application keeps one.
Stays == \A i \in Ids : apps[i] \in AppRows => apps'[i] \in AppRows

LEMMA AloneInd ==
    ASSUME Ind, NEW w \in Workers, Alone(w), Tables', Stays,
           Target(pc'[w], job'[w], apps')
    PROVE  Ind'
<1> SUFFICES ASSUME NEW v \in Workers
             PROVE  Work(pc'[v], job'[v], seen'[v]) /\ Target(pc'[v], job'[v], apps')
  BY DEF Ind, Alone
<1>1. CASE v = w
  BY <1>1 DEF Alone
<1>2. CASE v # w
  <2>1. Work(pc'[v], job'[v], seen'[v])
    BY <1>2 DEF Ind, Alone
  <2>2. Target(pc[v], job[v], apps) /\ Work(pc[v], job[v], seen[v])
    BY DEF Ind
  <2>3. Target(pc[v], job[v], apps')
    BY <2>2 DEF Target, Work, HasId, Stays
  <2>4. QED BY <1>2, <2>1, <2>3 DEF Alone
<1>3. QED BY <1>1, <1>2

LEMMA SameTables ==
    ASSUME Ind, UNCHANGED <<tables, today, lock, calm>>
    PROVE  Tables' /\ Stays
BY DEF Ind, Tables, tables, Stays, Kept

\* A worker that only gives up.
LEMMA GivesUp ==
    ASSUME Ind, NEW w \in Workers, Finish(w), Tables', Stays
    PROVE  Ind'
BY FinishAlone, AloneInd DEF Ind

\* Writing the whole application, or its status, of one id.
LEMMA WriteApp ==
    ASSUME Ind, NEW id \in Ids, NEW a \in AppRows, apps' = [apps EXCEPT ![id] = a]
    PROVE  apps' \in [Ids -> AppRows \cup {Nothing}] /\ Stays
BY DEF Ind, Tables, Stays

LEMMA ReadRowTyped ==
    ASSUME Ind, NEW w \in Workers
    PROVE  /\ seen[w] \in Reads /\ job[w] \in Jobs \cup Reversals \cup {Nothing}
           /\ Work(pc[w], job[w], seen[w]) /\ Target(pc[w], job[w], apps)
           /\ row \in BalanceRows /\ Kept(row)
           /\ [seen[w] EXCEPT !.row = row] \in Reads
           /\ \A i \in Ids : [seen[w] EXCEPT !.app = apps[i]] \in Reads
BY DEF Ind, InHand, Tables, Kept, Reads

LEMMA GoesOn ==
    ASSUME Ind, NEW w \in Workers, NEW s \in Statements, NEW x \in Reads,
           Goto(w, s), UNCHANGED job, seen' = [seen EXCEPT ![w] = x],
           Tables', Stays, Work(s, job[w], x), Target(s, job[w], apps')
    PROVE  Ind'
<1>1. Alone(w) /\ pc'[w] = s /\ job'[w] = job[w]
  BY GotoAlone DEF Ind
<1>2. QED BY <1>1, AloneInd

LEMMA GoesOnAsIs ==
    ASSUME Ind, NEW w \in Workers, NEW s \in Statements,
           Goto(w, s), UNCHANGED <<job, seen>>,
           Tables', Stays, Work(s, job[w], seen[w]), Target(s, job[w], apps')
    PROVE  Ind'
<1>1. seen[w] \in Reads /\ seen' = [seen EXCEPT ![w] = seen[w]]
  BY DEF Ind, InHand
<1>2. QED BY <1>1, GoesOn

-----------------------------------------------------------------------------
(***************************************************************************)
(* The invariant holds initially and every action keeps it.                *)
(***************************************************************************)
LEMMA InitInd == Init => Ind
<1> SUFFICES ASSUME Init PROVE Ind
  OBVIOUS
<1>1. 1 \in Dates
  BY DatesOK DEF Dates
<1>2. 1 \in Periods
  <2>1. Period(1) = 1
    BY PeriodsOK DEF Period
  <2>2. QED BY <1>1, <2>1, PeriodTyped
<1>3. Kept(row)
  BY <1>2, AnnualNat DEF Init, Kept, BalanceRows
<1>4. Tables
  BY <1>1, <1>3 DEF Init, Tables, NoRecord, Attendance, AttendanceStatuses
<1>5. Blank \in Reads
  BY DEF Blank, Reads
<1>6. InHand
  BY <1>5 DEF Init, InHand
<1>7. ASSUME NEW w \in Workers PROVE Work(pc[w], job[w], seen[w]) /\ Target(pc[w], job[w], apps)
  BY DEF Init, Work, Target, HasRequest, Asking, HasTarget, HasId, HasApp, HasBalance, HasMark
<1>8. QED BY <1>4, <1>6, <1>7 DEF Ind

LEMMA ArriveInd ==
    ASSUME Ind, NEW w \in Workers, NEW j \in Jobs, Arrive(w, j)
    PROVE  Ind'
<1> DEFINE s == Statement[j.kind]
<1>1. /\ s \in Statements
      /\ Work(s, j, seen[w])
      /\ Target(s, j, apps)
  <2>1. CASE j \in [kind : {"apply"}, request : Requests, approval : Approvals]
    <3>1. s = "checkBalance" /\ j.kind = "apply" /\ j.request \in Requests
      BY <2>1 DEF Statement
    <3>2. QED
      <4> HIDE DEF s
      <4>1. QED BY <3>1 DEF Work, Target, Statements, HasRequest, Asking, HasTarget, HasId,
                            HasApp, HasBalance, HasMark
  <2>2. CASE j \in [kind : {"update"}, id : Ids, request : Requests]
    <3>1. s = "findOwn" /\ j.id \in Ids /\ j.request \in Requests
      BY <2>2 DEF Statement
    <3>2. QED
      <4> HIDE DEF s
      <4>1. QED BY <3>1 DEF Work, Target, Statements, HasRequest, Asking, HasTarget, HasId,
                            HasApp, HasBalance, HasMark
  <2>3. CASE j \in [kind : {"cancel", "approve", "reject"}, id : Ids]
    <3>1. s \in {"findActive", "findPending"} /\ j.id \in Ids
      BY <2>3 DEF Statement
    <3>2. QED
      <4> HIDE DEF s
      <4>1. QED BY <3>1 DEF Work, Target, Statements, HasRequest, Asking, HasTarget, HasId,
                            HasApp, HasBalance, HasMark
  <2>4. CASE j \in [kind : {"override"}, date : Cells, mark : {"present", "absent"}]
    <3>1. s = "findApproved" /\ j.date \in Cells /\ j.mark \in {"present", "absent"}
      BY <2>4 DEF Statement
    <3>2. QED
      <4> HIDE DEF s
      <4>1. QED BY <3>1 DEF Work, Target, Statements, HasRequest, Asking, HasTarget, HasId,
                            HasApp, HasBalance, HasMark
  <2>5. QED BY <2>1, <2>2, <2>3, <2>4 DEF Jobs
<1> HIDE DEF s
<1>2. pc' = [pc EXCEPT ![w] = s] /\ job' = [job EXCEPT ![w] = j] /\ UNCHANGED seen
      /\ UNCHANGED <<tables, today, lock>> /\ calm' \in BOOLEAN
  BY DEF Arrive, Goto, s, Ind, Tables
<1>3. Tables' /\ Stays
  BY <1>2 DEF Ind, Tables, tables, Stays, Kept
<1>4. Alone(w) /\ pc'[w] = s /\ job'[w] = j
  <2>1. InHand'
    BY <1>1, <1>2 DEF Ind, InHand
  <2>2. /\ pc'[w] = s /\ job'[w] = j /\ seen'[w] = seen[w]
        /\ \A v \in Workers \ {w} : pc'[v] = pc[v] /\ job'[v] = job[v] /\ seen'[v] = seen[v]
    BY <1>2 DEF Ind, InHand
  <2>3. QED BY <1>1, <2>1, <2>2 DEF Alone
<1>5. Target(s, j, apps')
  BY <1>1, <1>2 DEF tables
<1>6. QED BY <1>3, <1>4, <1>5, AloneInd

LEMMA AbortInd == ASSUME Ind, NEW w \in Workers, Abort(w) PROVE Ind'
<1>1. Tables' /\ Stays
  <2>1. lock' \in [Ids -> Workers \cup {Nothing}] /\ calm' \in BOOLEAN
    BY DEF Ind, Tables, Abort
  <2>2. QED BY <2>1 DEF Ind, Tables, tables, Abort, Stays, Kept
<1>2. Finish(w)
  BY DEF Abort
<1>3. QED BY <1>1, <1>2, GivesUp

\* The clock and the punches leave every request alone.
LEMMA Outside ==
    ASSUME Ind, UNCHANGED <<apps, row, lock, pc, job, seen, calm>>,
           today' \in Dates, attendance' \in [Dates -> Attendance]
    PROVE  Ind'
BY DEF Ind, Tables, InHand, Kept, Work, Target

LEMMA MidnightInd == Ind /\ Midnight => Ind'
BY Outside DEF Midnight, tables, Ind, Tables

LEMMA PunchInd == Ind /\ Punch => Ind'
<1> SUFFICES ASSUME Ind, Punch PROVE Ind'
  OBVIOUS
<1>1. PICK s \in {"present", "half_day", "absent"} :
        attendance' = [attendance EXCEPT ![today] = [status |-> s, punched |-> TRUE]]
  BY DEF Punch
<1>2. [status |-> s, punched |-> TRUE] \in Attendance
  BY DEF Attendance, AttendanceStatuses
<1>3. attendance' \in [Dates -> Attendance]
  BY <1>1, <1>2 DEF Ind, Tables
<1>4. QED BY <1>3, Outside DEF Punch, Ind, Tables

LEMMA GoOnInd ==
    ASSUME Ind, NEW w \in Workers, NEW r, GoOnIfAvailable(w, r), Tables', UNCHANGED apps,
           pc[w] \in {"checkBalance", "rollover"}
    PROVE  Ind'
<1>1. Stays
  BY DEF Stays
<1>2. CASE Finish(w)
  BY <1>1, <1>2, GivesUp
<1>3. CASE Goto(w, "findOverlaps") /\ UNCHANGED <<job, seen>>
  <2>1. Work("findOverlaps", job[w], seen[w]) /\ Target("findOverlaps", job[w], apps')
    BY ReadRowTyped DEF Work, Target, Statements, HasRequest, Asking, HasTarget, HasId, HasApp,
         HasBalance, HasMark
  <2>2. QED BY <1>1, <1>3, <2>1, GoesOnAsIs DEF Statements, HasRequest, Asking
<1>4. QED BY <1>2, <1>3 DEF GoOnIfAvailable

LEMMA CheckBalanceInd == ASSUME Ind, NEW w \in Workers, CheckBalance(w) PROVE Ind'
<1>1. Tables' /\ Stays /\ UNCHANGED apps
  BY SameTables DEF CheckBalance, tables
<1>2. CASE row.period = Period(today)
  BY <1>1, <1>2, GoOnInd DEF CheckBalance
<1>3. CASE row.period # Period(today)
  <2> DEFINE r == RolledOver(row)
             x == [seen[w] EXCEPT !.row = r]
  <2>1. r \in BalanceRows
    <3>1. Period(today) \in Periods
      BY PeriodTyped DEF Ind, Tables
    <3>2. r = [row EXCEPT !.period = Period(today),
                          !.periodUsed = IF CarryForward THEN row.periodUsed ELSE 0]
      BY DEF RolledOver
    <3>3. (IF CarryForward THEN row.periodUsed ELSE 0) \in Nat
      BY ReadRowTyped DEF BalanceRows
    <3>4. QED BY <3>1, <3>2, <3>3, ReadRowTyped DEF BalanceRows
  <2> HIDE DEF r
  <2>2. x \in Reads /\ x.row \in BalanceRows
    BY <2>1, ReadRowTyped DEF Reads
  <2>3. seen' = [seen EXCEPT ![w] = x] /\ Goto(w, "rollover") /\ UNCHANGED job
    BY <1>3 DEF CheckBalance, r, Ind, InHand
  <2> HIDE DEF x
  <2>4. Work("rollover", job[w], x) /\ Target("rollover", job[w], apps')
    BY <1>1, <2>2, ReadRowTyped
       DEF CheckBalance, Work, Target, Statements, HasRequest, Asking, HasTarget, HasId, HasApp,
         HasBalance, HasMark
  <2>5. QED BY <1>1, <2>2, <2>3, <2>4, GoesOn DEF Statements, HasRequest, Asking
<1>4. QED BY <1>2, <1>3

LEMMA RolloverInd == ASSUME Ind, NEW w \in Workers, Rollover(w) PROVE Ind'
<1>1. Kept(row')
  <2>1. seen[w].row.period \in Periods
    BY ReadRowTyped DEF Rollover, Work, BalanceRows
  <2>2. CASE CarryForward
    <3>1. row' = [row EXCEPT !.period = seen[w].row.period]
      BY <2>2, ReadRowTyped DEF Rollover, BalanceRows
    <3>2. QED BY <2>1, <3>1, ReadRowTyped DEF Kept, BalanceRows
  <2>3. CASE ~CarryForward
    <3>1. row' = [row EXCEPT !.period = seen[w].row.period, !.periodUsed = 0]
      BY <2>3, ReadRowTyped DEF Rollover, BalanceRows
    <3>2. QED BY <2>1, <3>1, ReadRowTyped DEF Kept, BalanceRows
  <2>4. QED BY <2>2, <2>3
<1>2. Tables'
  BY <1>1 DEF Ind, Tables, Rollover
<1>3. QED BY <1>2, GoOnInd DEF Rollover

LEMMA FindOwnInd == ASSUME Ind, NEW w \in Workers, FindOwn(w) PROVE Ind'
<1>1. Tables' /\ Stays /\ UNCHANGED apps
  BY SameTables DEF FindOwn, tables
<1>2. CASE apps[job[w].id] # Nothing /\ apps[job[w].id].status = "pending"
  <2>1. job[w].id \in Ids /\ job[w].request \in Requests
    BY ReadRowTyped DEF FindOwn, Work, HasId, HasRequest
  <2>2. apps'[job[w].id] \in AppRows
    BY <1>1, <1>2, <2>1 DEF Ind, Tables
  <2>3. Work("checkBalance", job[w], seen[w]) /\ Target("checkBalance", job[w], apps')
    BY <2>1, <2>2 DEF Work, Target, Statements, HasRequest, Asking, HasTarget, HasId, HasApp,
         HasBalance, HasMark
  <2>4. QED BY <1>1, <1>2, <2>3, GoesOnAsIs DEF FindOwn, Statements, HasRequest, Asking
<1>3. CASE ~(apps[job[w].id] # Nothing /\ apps[job[w].id].status = "pending")
  BY <1>1, <1>3, GivesUp DEF FindOwn
<1>4. QED BY <1>2, <1>3

LEMMA FindOverlapsInd == ASSUME Ind, NEW w \in Workers, FindOverlaps(w) PROVE Ind'
<1> DEFINE s == IF job[w].kind = "apply" THEN "insert" ELSE "writeUpdate"
<1>1. Tables' /\ Stays /\ UNCHANGED apps
  BY SameTables DEF FindOverlaps, tables
<1>2. CASE Clashes(w)
  BY <1>1, <1>2, GivesUp DEF FindOverlaps
<1>3. CASE ~Clashes(w)
  <2>1. /\ job[w].request \in Requests
        /\ job[w].kind # "apply" => job[w].id \in Ids /\ apps'[job[w].id] \in AppRows
    BY <1>1, ReadRowTyped DEF FindOverlaps, Work, Target, HasRequest, Asking
  <2>2. Work(s, job[w], Blank) /\ Target(s, job[w], apps') /\ s \in Statements
    <3>1. CASE job[w].kind = "apply"
      <4>1. s = "insert"
        BY <3>1
      <4> HIDE DEF s
      <4>2. QED BY <2>1, <4>1 DEF Work, Target, Statements, HasRequest, Asking, HasTarget, HasId, HasApp,
         HasBalance, HasMark
    <3>2. CASE job[w].kind # "apply"
      <4>1. s = "writeUpdate"
        BY <3>2
      <4> HIDE DEF s
      <4>2. QED BY <2>1, <3>2, <4>1 DEF Work, Target, Statements, HasRequest, Asking, HasTarget, HasId, HasApp,
         HasBalance, HasMark
    <3>3. QED BY <3>1, <3>2
  <2>3. Blank \in Reads
    BY DEF Blank, Reads
  <2> HIDE DEF s
  <2>4. QED BY <1>1, <1>3, <2>2, <2>3, GoesOn DEF FindOverlaps, s
<1>4. QED BY <1>2, <1>3

LEMMA InsertInd == ASSUME Ind, NEW w \in Workers, Insert(w) PROVE Ind'
<1> DEFINE a == Application(job[w].request, IF job[w].approval THEN "pending" ELSE "approved")
<1>0. job[w].request \in Requests
  BY ReadRowTyped DEF Insert, Work, HasRequest
<1>1. a \in AppRows
  BY <1>0, RequestTyped
<1> HIDE DEF a
<1>2. PICK i \in Ids : apps' = [apps EXCEPT ![i] = a]
  BY DEF Insert, a
<1>3. apps' \in [Ids -> AppRows \cup {Nothing}] /\ Stays
  BY <1>1, <1>2, WriteApp
<1>4. Tables'
  BY <1>3 DEF Ind, Tables, Insert, Kept
<1>5. CASE job[w].approval
  BY <1>3, <1>4, <1>5, GivesUp DEF Insert
<1>6. CASE ~job[w].approval
  <2>1. Work("readForDeduct", job[w], seen[w]) /\ Target("readForDeduct", job[w], apps')
    BY <1>0 DEF Work, Target, Statements, HasRequest, Asking, HasTarget, HasId, HasApp,
         HasBalance, HasMark
  <2>2. QED BY <1>3, <1>4, <1>6, <2>1, GoesOnAsIs DEF Insert, Statements, HasRequest
<1>7. QED BY <1>5, <1>6

LEMMA WriteUpdateInd == ASSUME Ind, NEW w \in Workers, WriteUpdate(w) PROVE Ind'
<1> DEFINE a == Application(job[w].request, apps[job[w].id].status)
<1>1. job[w].id \in Ids /\ apps[job[w].id] \in AppRows /\ job[w].request \in Requests
  BY ReadRowTyped DEF WriteUpdate, Work, Target, HasRequest, HasId, HasTarget
<1>2. a \in AppRows
  BY <1>1, RequestTyped DEF AppRows
<1>3. apps' = [apps EXCEPT ![job[w].id] = a]
  BY DEF WriteUpdate
<1>4. apps' \in [Ids -> AppRows \cup {Nothing}] /\ Stays
  <2> HIDE DEF a
  <2>1. QED BY <1>1, <1>2, <1>3, WriteApp
<1>5. Tables'
  BY <1>4 DEF Ind, Tables, WriteUpdate, Kept
<1>6. QED BY <1>4, <1>5, GivesUp DEF WriteUpdate

LEMMA ReadForDeductInd == ASSUME Ind, NEW w \in Workers, ReadForDeduct(w) PROVE Ind'
<1> DEFINE x == [seen[w] EXCEPT !.row = row]
<1>1. Tables' /\ Stays /\ UNCHANGED apps
  BY SameTables DEF ReadForDeduct, tables
<1>2. x \in Reads /\ x.row = row
  BY ReadRowTyped DEF Reads
<1>3. seen' = [seen EXCEPT ![w] = x]
  BY DEF ReadForDeduct, ReadRow, Ind, InHand
<1> HIDE DEF x
<1>4. Work("writeDeduct", job[w], x) /\ Target("writeDeduct", job[w], apps')
  BY <1>2, ReadRowTyped
     DEF ReadForDeduct, Work, Target, Statements, HasRequest, Asking, HasTarget, HasId, HasApp,
         HasBalance, HasMark
<1>5. QED BY <1>1, <1>2, <1>3, <1>4, GoesOn DEF ReadForDeduct, Statements, HasRequest

LEMMA WriteDeductInd == ASSUME Ind, NEW w \in Workers, WriteDeduct(w) PROVE Ind'
<1> DEFINE r == seen[w].row
           days == job[w].request.days
           left == NotBelow0(r.balance - days)
           spent == IF InPeriodOf(job[w].request.first) THEN r.periodUsed + days
                                                        ELSE r.periodUsed
<1>1. Kept(r) /\ days \in Nat
  <2>1. job[w].request \in Requests /\ Kept(r)
    BY ReadRowTyped DEF WriteDeduct, Work, HasRequest, HasBalance
  <2>2. QED BY <2>1, RequestTyped
<1>2. left \in Nat /\ left >= r.balance - days /\ spent \in Nat
  BY <1>1 DEF Kept, BalanceRows, NotBelow0
<1>3. row' = [row EXCEPT !.used = r.used + days, !.balance = left, !.periodUsed = spent]
  BY DEF WriteDeduct, Deducted
<1> HIDE DEF r, days, left, spent
<1>4. Kept(row')
  <2>1. r.used + days \in Nat /\ r.used + days + left >= Annual
    BY <1>1, <1>2, AnnualNat DEF Kept, BalanceRows
  <2>2. QED BY <1>2, <1>3, <2>1, ReadRowTyped, KeptWritten
<1>5. Tables' /\ Stays
  BY <1>4 DEF Ind, Tables, WriteDeduct, Stays
<1>6. QED BY <1>5, GivesUp DEF WriteDeduct

LEMMA ReadForCreditInd == ASSUME Ind, NEW w \in Workers, ReadForCredit(w) PROVE Ind'
<1> DEFINE x == [seen[w] EXCEPT !.row = row]
<1>1. Tables' /\ Stays /\ UNCHANGED apps
  BY SameTables DEF ReadForCredit, tables
<1>2. x \in Reads /\ x.row = row /\ x.app = seen[w].app
  BY ReadRowTyped DEF Reads
<1>3. seen' = [seen EXCEPT ![w] = x]
  BY DEF ReadForCredit, ReadRow, Ind, InHand
<1> HIDE DEF x
<1>4. Work("writeCredit", job[w], x) /\ Target("writeCredit", job[w], apps')
  BY <1>2, ReadRowTyped
     DEF ReadForCredit, Work, Target, Statements, HasRequest, Asking, HasTarget, HasId, HasApp,
         HasBalance, HasMark
<1>5. QED BY <1>1, <1>2, <1>3, <1>4, GoesOn DEF ReadForCredit, Statements, HasApp

LEMMA WriteCreditInd == ASSUME Ind, NEW w \in Workers, WriteCredit(w) PROVE Ind'
<1> DEFINE r == seen[w].row
           a == seen[w].app
           used == NotBelow0(r.used - a.days)
           spent == IF InPeriodOf(a.first) THEN NotBelow0(r.periodUsed - a.days)
                                           ELSE r.periodUsed
<1>1. Kept(r) /\ a \in AppRows /\ a.days \in Nat
  BY ReadRowTyped, AppTyped DEF WriteCredit, Work, HasApp, HasBalance
<1>2. used \in Nat /\ used >= r.used - a.days /\ spent \in Nat
  BY <1>1 DEF Kept, BalanceRows, NotBelow0
<1>3. row' = [row EXCEPT !.used = used, !.balance = r.balance + a.days,
                         !.periodUsed = spent]
  BY DEF WriteCredit, Credited
<1>4. Kept(row')
  <2> HIDE DEF r, a, used, spent
  <2>1. r.balance + a.days \in Nat /\ used + (r.balance + a.days) >= Annual
    BY <1>1, <1>2, AnnualNat DEF Kept, BalanceRows
  <2>2. QED BY <1>2, <1>3, <2>1, ReadRowTyped, KeptWritten
<1>5. Tables' /\ Stays
  BY <1>4 DEF Ind, Tables, WriteCredit, Stays
<1>6. Work("clearAttendance", job[w], seen[w]) /\ Target("clearAttendance", job[w], apps')
  BY <1>1 DEF Work, Target, Statements, HasRequest, Asking, HasTarget, HasId, HasApp,
         HasBalance, HasMark
<1>7. QED BY <1>5, <1>6, GoesOnAsIs DEF WriteCredit, Statements, HasApp

\* Reading an application that is there, for the statement that acts on it.
LEMMA ReadsApp ==
    ASSUME Ind, NEW w \in Workers, job[w].id \in Ids, apps[job[w].id] # Nothing,
           NEW s \in {"writeCancelled", "readForApproval", "writeRejected"},
           ReadApp(w, job[w].id), Goto(w, s), UNCHANGED job,
           Tables', Stays, UNCHANGED apps
    PROVE  Ind'
<1> DEFINE x == [seen[w] EXCEPT !.app = apps[job[w].id]]
<1>1. apps[job[w].id] \in AppRows
  BY DEF Ind, Tables
<1>2. x \in Reads /\ x.app = apps[job[w].id]
  BY ReadRowTyped DEF Reads
<1>3. seen' = [seen EXCEPT ![w] = x]
  BY DEF ReadApp, Ind, InHand
<1> HIDE DEF x
<1>4. s \in Statements /\ Work(s, job[w], x) /\ Target(s, job[w], apps')
  BY <1>1, <1>2 DEF Work, Target, Statements, HasRequest, Asking, HasTarget, HasId, HasApp,
         HasBalance, HasMark
<1>5. QED BY <1>2, <1>3, <1>4, GoesOn

LEMMA FindActiveInd == ASSUME Ind, NEW w \in Workers, FindActive(w) PROVE Ind'
<1>1. Tables' /\ Stays /\ UNCHANGED apps
  BY SameTables DEF FindActive, tables
<1>2. job[w].id \in Ids
  BY ReadRowTyped DEF FindActive, Work, HasId
<1>3. CASE Live(job[w].id) /\ apps[job[w].id].first >= today
  BY <1>1, <1>2, <1>3, ReadsApp DEF FindActive, Live
<1>4. CASE ~(Live(job[w].id) /\ apps[job[w].id].first >= today)
  BY <1>1, <1>4, GivesUp DEF FindActive
<1>5. QED BY <1>3, <1>4

LEMMA FindPendingInd == ASSUME Ind, NEW w \in Workers, FindPending(w) PROVE Ind'
<1>1. Tables' /\ Stays /\ UNCHANGED apps
  BY SameTables DEF FindPending, tables
<1>2. job[w].id \in Ids
  BY ReadRowTyped DEF FindPending, Work, HasId
<1>3. CASE apps[job[w].id] # Nothing /\ apps[job[w].id].status = "pending"
  <2>1. CASE job[w].kind = "approve"
    BY <1>1, <1>2, <1>3, <2>1, ReadsApp DEF FindPending
  <2>2. CASE job[w].kind # "approve"
    BY <1>1, <1>2, <1>3, <2>2, ReadsApp DEF FindPending
  <2>3. QED BY <2>1, <2>2
<1>4. CASE ~(apps[job[w].id] # Nothing /\ apps[job[w].id].status = "pending")
  BY <1>1, <1>4, GivesUp DEF FindPending
<1>5. QED BY <1>3, <1>4

\* Setting the status of an application that is there.
LEMMA WriteStatus ==
    ASSUME Ind, NEW id \in Ids, apps[id] \in AppRows,
           NEW s \in {"pending", "approved", "rejected", "cancelled"},
           apps' = [apps EXCEPT ![id].status = s]
    PROVE  apps' \in [Ids -> AppRows \cup {Nothing}] /\ Stays
<1> DEFINE a == [apps[id] EXCEPT !.status = s]
<1>1. a \in AppRows
  BY AppTyped
<1>2. apps' = [apps EXCEPT ![id] = a]
  BY DEF Ind, Tables
<1> HIDE DEF a
<1>3. QED BY <1>1, <1>2, WriteApp

LEMMA WriteCancelledInd == ASSUME Ind, NEW w \in Workers, WriteCancelled(w) PROVE Ind'
<1>1. job[w].id \in Ids /\ apps[job[w].id] \in AppRows /\ seen[w].app \in AppRows
  BY ReadRowTyped DEF WriteCancelled, Work, Target, HasId, HasApp, HasTarget
<1>2. apps' \in [Ids -> AppRows \cup {Nothing}] /\ Stays
  BY <1>1, WriteStatus DEF WriteCancelled
<1>3. Tables'
  BY <1>2 DEF Ind, Tables, WriteCancelled, Kept
<1>4. CASE seen[w].app.status = "approved"
  <2>1. Work("readForCredit", job[w], seen[w]) /\ Target("readForCredit", job[w], apps')
    BY <1>1 DEF Work, Target, Statements, HasRequest, Asking, HasTarget, HasId, HasApp,
         HasBalance, HasMark
  <2>2. QED BY <1>2, <1>3, <1>4, <2>1, GoesOnAsIs DEF WriteCancelled, Statements, HasApp
<1>5. CASE seen[w].app.status # "approved"
  BY <1>2, <1>3, <1>5, GivesUp DEF WriteCancelled
<1>6. QED BY <1>4, <1>5

LEMMA WriteRejectedInd == ASSUME Ind, NEW w \in Workers, WriteRejected(w) PROVE Ind'
<1>1. job[w].id \in Ids /\ apps[job[w].id] \in AppRows
  BY ReadRowTyped DEF WriteRejected, Work, Target, HasId, HasTarget
<1>2. apps' \in [Ids -> AppRows \cup {Nothing}] /\ Stays
  BY <1>1, WriteStatus DEF WriteRejected
<1>3. Tables'
  BY <1>2 DEF Ind, Tables, WriteRejected, Kept
<1>4. QED BY <1>2, <1>3, GivesUp DEF WriteRejected

LEMMA ClearAttendanceInd == ASSUME Ind, NEW w \in Workers, ClearAttendance(w) PROVE Ind'
<1>1. NoRecord \in Attendance
  BY DEF NoRecord, Attendance, AttendanceStatuses
<1>2. attendance' \in [Dates -> Attendance]
  BY <1>1 DEF Ind, Tables, ClearAttendance
<1>3. Tables' /\ Stays
  BY <1>2 DEF Ind, Tables, ClearAttendance, Kept, Stays
<1>4. QED BY <1>3, GivesUp DEF ClearAttendance

LEMMA ReadForApprovalInd == ASSUME Ind, NEW w \in Workers, ReadForApproval(w) PROVE Ind'
<1>1. /\ job[w].id \in Ids /\ apps[job[w].id] \in AppRows
      /\ seen[w].app \in AppRows
  BY ReadRowTyped DEF ReadForApproval, Work, Target, HasId, HasApp, HasTarget
<1>2. CASE row.balance < seen[w].app.days
  <2>1. Tables' /\ Stays
    BY <1>2, SameTables DEF ReadForApproval
  <2>2. QED BY <1>2, <2>1, GivesUp DEF ReadForApproval
<1>3. CASE ~(row.balance < seen[w].app.days)
  <2> DEFINE x == [seen[w] EXCEPT !.row = row, !.attendance = attendance]
  <2>1. lock' \in [Ids -> Workers \cup {Nothing}]
    BY <1>1, <1>3 DEF ReadForApproval, Ind, Tables
  <2>2. Tables' /\ Stays /\ UNCHANGED apps
    BY <2>1 DEF Ind, Tables, tables, ReadForApproval, Kept, Stays
  <2>3. x \in Reads /\ x.row = row /\ x.app = seen[w].app
    BY ReadRowTyped DEF Reads, Ind, Tables
  <2>4. seen' = [seen EXCEPT ![w] = x]
    BY <1>3 DEF ReadForApproval, Ind, InHand
  <2> HIDE DEF x
  <2>5. x.row.balance >= x.app.days
    <3>1. seen[w].app.days \in Nat
      BY <1>1, AppTyped
    <3>2. row.balance \in Nat
      BY ReadRowTyped DEF BalanceRows
    <3>3. QED BY <1>3, <2>3, <3>1, <3>2
  <2>6. Work("commitApproval", job[w], x) /\ Target("commitApproval", job[w], apps')
    BY <1>1, <2>2, <2>3, <2>5, ReadRowTyped
       DEF Work, Target, Statements, HasRequest, Asking, HasTarget, HasId, HasApp,
         HasBalance, HasMark
  <2>7. QED BY <1>3, <2>2, <2>3, <2>4, <2>6, GoesOn
            DEF ReadForApproval, Statements, HasApp
<1>4. QED BY <1>2, <1>3

LEMMA CommitApprovalInd == ASSUME Ind, NEW w \in Workers, CommitApproval(w) PROVE Ind'
<1> DEFINE r == seen[w].row
           a == seen[w].app
           spent == IF InPeriodOf(a.first) THEN r.periodUsed + a.days ELSE r.periodUsed
<1>1. /\ job[w].id \in Ids /\ apps[job[w].id] \in AppRows
      /\ a \in AppRows /\ Kept(r) /\ r.balance >= a.days
  BY ReadRowTyped
     DEF CommitApproval, Work, Target, HasId, HasApp, HasTarget, HasBalance
<1>2. apps' \in [Ids -> AppRows \cup {Nothing}] /\ Stays
  BY <1>1, WriteStatus DEF CommitApproval
<1>3. a.days \in Nat /\ spent \in Nat
  <2>1. a.days \in Nat
    BY <1>1, AppTyped
  <2>2. r.periodUsed \in Nat
    BY <1>1 DEF Kept, BalanceRows
  <2>3. QED BY <2>1, <2>2
<1>4. row' = [row EXCEPT !.used = r.used + a.days, !.balance = r.balance - a.days,
                         !.periodUsed = spent]
  BY DEF CommitApproval
<1>5. Kept(row')
  <2> HIDE DEF r, a, spent
  <2>1. /\ r.used + a.days \in Nat /\ r.balance - a.days \in Nat
        /\ r.used + a.days + (r.balance - a.days) >= Annual
    BY <1>1, <1>3, AnnualNat DEF Kept, BalanceRows
  <2>2. QED BY <1>3, <1>4, <2>1, ReadRowTyped, KeptWritten
<1>6. attendance' \in [Dates -> Attendance]
  BY MarkedTyped DEF CommitApproval, Ind, Tables
<1>7. Tables'
  BY <1>2, <1>5, <1>6 DEF Ind, Tables, CommitApproval
<1>8. QED BY <1>2, <1>7, GivesUp DEF CommitApproval

LEMMA FindApprovedInd == ASSUME Ind, NEW w \in Workers, FindApproved(w) PROVE Ind'
<1> DEFINE onDate == {i \in Approved : job[w].date \in DatesOf(apps[i])}
<1>1. Tables' /\ Stays /\ UNCHANGED apps
  BY SameTables DEF FindApproved, tables
<1>2. job[w].date \in Cells /\ job[w].mark \in {"present", "absent"}
  BY ReadRowTyped DEF FindApproved, Work, HasMark
<1>3. CASE onDate = {}
  <2>1. Work("writeMark", job[w], seen[w]) /\ Target("writeMark", job[w], apps')
    BY <1>2 DEF Work, Target, Statements, HasRequest, Asking, HasTarget, HasId, HasApp,
         HasBalance, HasMark
  <2>2. QED BY <1>1, <1>3, <2>1, GoesOnAsIs DEF FindApproved, Statements, HasMark
<1>4. CASE onDate # {}
  <2>1. PICK i \in onDate :
            /\ Goto(w, "reverse")
            /\ job' = [job EXCEPT ![w] = [kind |-> "override", id |-> i,
                                date |-> job[w].date, mark |-> job[w].mark]]
            /\ ReadApp(w, i)
    BY <1>4 DEF FindApproved
  <2> DEFINE j == [kind |-> "override", id |-> i, date |-> job[w].date, mark |-> job[w].mark]
             x == [seen[w] EXCEPT !.app = apps[i]]
  <2>2. i \in Ids /\ apps[i] \in AppRows /\ job[w].date \in DatesOf(apps[i])
    BY DEF Approved, Ind, Tables
  <2>3. j \in Reversals
    BY <1>2, <2>2 DEF Reversals
  <2>4. x \in Reads /\ x.app = apps[i]
    BY <2>2, ReadRowTyped DEF Reads
  <2>5. "reverse" \in Statements
    BY DEF Statements, HasMark
  <2>6. Work("reverse", j, x) /\ Target("reverse", j, apps')
    <3>1. j.id = i /\ j.date = job[w].date /\ j.mark = job[w].mark
      OBVIOUS
    <3> HIDE DEF j, x
    <3>2. QED BY <1>1, <1>2, <2>2, <2>4, <3>1
              DEF Work, Target, Statements, HasRequest, Asking, HasTarget, HasId, HasApp,
         HasBalance, HasMark
  <2>7. job' = [job EXCEPT ![w] = j] /\ seen' = [seen EXCEPT ![w] = x]
        /\ pc' = [pc EXCEPT ![w] = "reverse"]
    BY <2>1 DEF ReadApp, Goto, Ind, InHand
  <2> HIDE DEF j, x
  <2>8. /\ InHand' /\ pc'[w] = "reverse" /\ job'[w] = j /\ seen'[w] = x
        /\ \A v \in Workers \ {w} : pc'[v] = pc[v] /\ job'[v] = job[v] /\ seen'[v] = seen[v]
    BY <2>3, <2>4, <2>5, <2>7 DEF Ind, InHand
  <2>9. Alone(w)
    BY <2>6, <2>8 DEF Alone
  <2>10. QED BY <1>1, <2>6, <2>8, <2>9, AloneInd
<1>5. QED BY <1>3, <1>4

LEMMA MarkTyped ==
    ASSUME Ind, NEW w \in Workers, pc[w] \in HasMark
    PROVE  WithMark(w) \in [Dates -> Attendance]
<1>1. job[w].mark \in AttendanceStatuses
  BY ReadRowTyped DEF Work, AttendanceStatuses
<1>2. QED BY <1>1 DEF Ind, Tables, WithMark, Attendance

LEMMA WriteMarkInd == ASSUME Ind, NEW w \in Workers, WriteMark(w) PROVE Ind'
<1>1. attendance' \in [Dates -> Attendance]
  BY MarkTyped DEF WriteMark, HasMark
<1>2. Tables' /\ Stays
  BY <1>1 DEF Ind, Tables, WriteMark, Kept, Stays
<1>3. QED BY <1>2, GivesUp DEF WriteMark

LEMMA ReverseInd == ASSUME Ind, NEW w \in Workers, Reverse(w) PROVE Ind'
<1> DEFINE a == seen[w].app
           used == NotBelow0(row.used - Refund(a))
           spent == NotBelow0(row.periodUsed - Refund(a))
<1>1. /\ job[w].id \in Ids /\ apps[job[w].id] \in AppRows
      /\ a \in AppRows /\ job[w].date \in DatesOf(a)
  BY ReadRowTyped DEF Reverse, Work, Target, HasId, HasApp, HasTarget
<1>2. apps' \in [Ids -> AppRows \cup {Nothing}] /\ Stays
  <2>1. apps' = Split(job[w].id, a, job[w].date)
    BY DEF Reverse
  <2>2. apps \in [Ids -> AppRows \cup {Nothing}]
    BY DEF Ind, Tables
  <2> HIDE DEF a
  <2>3. QED BY <1>1, <2>1, <2>2, SplitTyped DEF Stays
<1>3. Kept(row')
  <2>1. Refund(a) \in Nat
    BY <1>1, AppTyped
  <2>2. row.used \in Nat /\ row.balance \in Nat /\ row.periodUsed \in Nat
        /\ row.used + row.balance >= Annual
    BY ReadRowTyped DEF Kept, BalanceRows
  <2>3. used \in Nat /\ spent \in Nat /\ row.balance + Refund(a) \in Nat
        /\ used + (row.balance + Refund(a)) >= Annual
    BY <2>1, <2>2, AnnualNat DEF NotBelow0
  <2>4. row' = [row EXCEPT !.used = used, !.balance = row.balance + Refund(a),
                           !.periodUsed = spent]
    BY DEF Reverse
  <2> HIDE DEF used, spent
  <2>5. QED BY <2>3, <2>4, ReadRowTyped, KeptWritten
<1>4. attendance' \in [Dates -> Attendance]
  BY MarkTyped DEF Reverse, HasMark
<1>5. Tables'
  BY <1>2, <1>3, <1>4 DEF Ind, Tables, Reverse
<1>6. QED BY <1>2, <1>5, GivesUp DEF Reverse

-----------------------------------------------------------------------------
LEMMA NextInd == Ind /\ [Next]_vars => Ind'
<1> SUFFICES ASSUME Ind, [Next]_vars PROVE Ind'
  OBVIOUS
<1>1. ASSUME NEW w \in Workers, NEW j \in Jobs, Arrive(w, j) PROVE Ind'
  BY <1>1, ArriveInd
<1>2. ASSUME NEW w \in Workers, Step(w) PROVE Ind'
  BY <1>2, CheckBalanceInd, RolloverInd, FindOverlapsInd, InsertInd, ReadForDeductInd,
     WriteDeductInd, FindOwnInd, WriteUpdateInd, FindActiveInd, WriteCancelledInd,
     ReadForCreditInd, WriteCreditInd, ClearAttendanceInd, FindPendingInd,
     ReadForApprovalInd, CommitApprovalInd, WriteRejectedInd, FindApprovedInd,
     WriteMarkInd, ReverseInd
     DEF Step
<1>3. ASSUME NEW w \in Workers, Abort(w) PROVE Ind'
  BY <1>3, AbortInd
<1>4. CASE Midnight
  BY <1>4, MidnightInd
<1>5. CASE Punch
  BY <1>5, PunchInd
<1>6. CASE UNCHANGED vars
  BY <1>6, Outside DEF vars, tables, Ind, Tables
<1>7. QED BY <1>1, <1>2, <1>3, <1>4, <1>5, <1>6 DEF Next

THEOREM Inductive == Spec => []Ind
BY InitInd, NextInd, PTL DEF Spec

\* Every row stays well formed: the balance row's counts are never negative,
\* whatever is subtracted from values no longer current, and the pieces an
\* override splits a leave into lie inside the fiscal year.
THEOREM LeaveTypes == Spec => []TypeOK
<1>1. Ind => TypeOK
  <2> SUFFICES ASSUME Ind PROVE TypeOK
    OBVIOUS
  <2>1. ASSUME NEW w \in Workers
        PROVE  /\ job[w] \in Jobs \cup Reversals \cup {Nothing}
               /\ seen[w].app \in AppRows \cup {Nothing}
               /\ seen[w].row \in BalanceRows \cup {Nothing}
    BY DEF Ind, InHand, Reads
  <2>2. QED BY <2>1 DEF Ind, Tables, Kept, TypeOK, Attendance
<1>2. QED BY <1>1, Inductive, PTL

\* deductBalance, creditBalance, approveLeave and the override never lose days
\* from both totals of the balance row at once: used and remaining days add up
\* to at least the year's grant, however requests interleave and fail.
THEOREM RowKept == Spec => []RowAgrees
<1>1. Ind => RowAgrees
  BY DEF Ind, Tables, Kept, RowAgrees
<1>2. QED BY <1>1, Inductive, PTL

-----------------------------------------------------------------------------
(***************************************************************************)
(* The days used and the overlaps while requests come one at a time.       *)
(* SerialExact is inductive only together with what the one request in     *)
(* flight has read and still relies on, and with three facts about the     *)
(* applications: none is longer than its dates allow (or an override could *)
(* leave days over that no piece holds), ids are given out in order (or a  *)
(* piece could overwrite a leave), and no two live ones overlap.           *)
(***************************************************************************)
Counts(v) == v # Nothing /\ v.status = "approved"
Holds(v)  == v # Nothing /\ v.status \in {"pending", "approved"}

\* The half-days of the approved leaves of a table, and those of one row.
Days(table) ==
    Cardinality({x \in Ids \X HalfDays : Counts(table[x[1]]) /\ x[2] <= table[x[1]].days})
Worth(v) == IF Counts(v) THEN v.days ELSE 0

Fits(v) ==
    /\ v.first <= v.last
    /\ v.half # "no" => v.days = 1
    /\ v.days <= 2 * (v.last - v.first + 1)

Sound(table) ==
    /\ table \in [Ids -> AppRows \cup {Nothing}]
    /\ \A i \in Ids : table[i] # Nothing => Fits(table[i])
    /\ \A i, k \in Ids : k < i /\ table[i] # Nothing => table[k] # Nothing
    /\ \A i, k \in Ids : i # k /\ Holds(table[i]) /\ Holds(table[k]) =>
           ~Overlap(table[i], table[k])

\* Two rows are left for the pieces of a leave.
RoomForPieces == \E i \in Ids : Fresh(i) /\ i + 1 \in Ids /\ apps[i + 1] = Nothing

\* The request w is the only one there may be.
Only(w) == \A v \in Workers \ {w} : pc[v] = "idle"

Taking    == {"readForDeduct", "writeDeduct"}
Returning == {"readForCredit", "writeCredit"}
Owed(p, j) == IF p \in Taking THEN j.request.days ELSE 0
Due(p, s)  == IF p \in Returning THEN s.app.days ELSE 0

\* A leave that would cover no half-day of another live one than j updates.
Clear(j) ==
    \A i \in Ids : Holds(apps[i]) /\ (j.kind = "update" => i # j.id) =>
                       ~Overlap(apps[i], j.request)

\* What the request has read, at its statement p, is still so.
Relies(p, j, s) ==
    /\ p = "findOwn" => j.kind = "update"
    /\ p \in Asking => j.kind \in {"apply", "update"}
    /\ p \in Asking \cup {"writeUpdate"} /\ j.kind = "update" =>
         apps[j.id] # Nothing /\ apps[j.id].status = "pending"
    /\ p = "insert" => j.kind = "apply" /\ Clear(j)
    /\ p = "writeUpdate" => j.kind = "update" /\ Clear(j)
    /\ p \in HasBalance => s.row.used = row.used
    /\ p \in Returning => Fits(s.app)
    /\ p = "writeCancelled" => Holds(apps[j.id])
    /\ p \in {"readForApproval", "commitApproval", "writeRejected"} =>
         apps[j.id].status = "pending"
    /\ p = "reverse" => apps[j.id].status = "approved"
    /\ p \in HasTarget \ {"writeUpdate"} => s.app = apps[j.id]
    /\ p \in {"findApproved", "reverse"} => RoomForPieces

Focus(w) ==
    /\ Only(w)
    /\ row.used + Owed(pc[w], job[w]) = Days(apps) + Due(pc[w], seen[w])
    /\ Relies(pc[w], job[w], seen[w])
    /\ Sound(apps)

SerialInv == calm => \E w \in Workers : Focus(w)

(***************************************************************************)
(* Lemmas on the shares of a split leave.                                  *)
(***************************************************************************)
LEMMA TimesMonotone ==
    ASSUME NEW a \in Nat, NEW b \in Nat, NEW c \in Nat, a <= b
    PROVE  a * c <= b * c /\ a * c \in Nat /\ b * c \in Nat
BY SMT

LEMMA DivAtMost ==
    ASSUME NEW n \in Nat, NEW m \in Nat \ {0}, NEW b \in Nat, n < m * (b + 1)
    PROVE  n \div m <= b
BY SMT

LEMMA DivAtLeast ==
    ASSUME NEW n \in Nat, NEW m \in Nat \ {0}, NEW b \in Nat, m * b <= n
    PROVE  n \div m >= b
BY SMT

\* rest half-days shared over before and after days: the rounded share of the
\* days before holds on them, and what is left holds on the days after.
LEMMA ShareFits ==
    ASSUME NEW rest \in Nat, NEW before \in Nat \ {0}, NEW after \in Nat \ {0},
           rest <= 2 * (before + after)
    PROVE  LET share == (2 * rest * before + before + after) \div (2 * (before + after))
           IN  share \in Nat /\ share <= 2 * before /\ rest - share <= 2 * after
<1> DEFINE n == 2 * rest * before + before + after
           m == 2 * (before + after)
<1>0. rest * before \in Nat /\ rest * after \in Nat /\ n \in Nat /\ m \in Nat \ {0}
  <2>1. rest * before \in Nat /\ rest * after \in Nat
    BY TimesNat
  <2>2. 2 * rest * before = 2 * (rest * before)
    BY SMT
  <2>3. QED BY <2>1, <2>2
<1>1. n \div m <= 2 * before
  <2>1. rest * before <= m * before
    BY TimesMonotone
  <2>2. m * (2 * before + 1) = 2 * (m * before) + m
    BY SMT
  <2>3. 2 * rest * before = 2 * (rest * before)
    BY SMT
  <2>4. m * before \in Nat
    BY <1>0, TimesNat
  <2>5. n < m * (2 * before + 1)
    <3> DEFINE x == rest * before  y == m * before
    <3>1. n = 2 * x + before + after /\ m * (2 * before + 1) = 2 * y + 2 * (before + after)
      BY <2>2, <2>3
    <3>2. x \in Nat /\ y \in Nat /\ x <= y
      BY <1>0, <2>1, <2>4
    <3> HIDE DEF x, y, n, m
    <3>3. QED BY <3>1, <3>2
  <2> HIDE DEF n, m
  <2>6. QED BY <1>0, <2>5, DivAtMost
<1>2. rest - n \div m <= 2 * after
  <2>1. CASE rest <= 2 * after
    <3>1. n \div m \in Nat
      <4> HIDE DEF n, m
      <4>1. QED BY <1>0, DivNat
    <3> HIDE DEF n, m
    <3>2. QED BY <2>1, <3>1
  <2>2. CASE rest > 2 * after
    <3> DEFINE b == rest - 2 * after
    <3>1. b \in Nat
      BY <2>2
    <3>2. m * b <= n
      <4> DEFINE x == rest * before  y == rest * after
                 u == before * after  v == after * after
      <4>1. n = 2 * x + before + after
        BY SMT
      <4>2. m * b = 2 * x + 2 * y - 4 * u - 4 * v
        BY SMT
      <4>3. y <= 2 * u + 2 * v
        <5>1. rest * after <= m * after
          BY TimesMonotone
        <5>2. m * after = 2 * u + 2 * v
          BY SMT
        <5>3. QED BY <5>1, <5>2
      <4>4. x \in Nat /\ y \in Nat /\ u \in Nat /\ v \in Nat
        BY TimesNat
      <4> HIDE DEF x, y, u, v, n, m, b
      <4>5. QED BY <4>1, <4>2, <4>3, <4>4
    <3>3. n \div m >= b
      <4> HIDE DEF n, m, b
      <4>1. QED BY <1>0, <3>1, <3>2, DivAtLeast
    <3>4. n \div m \in Nat
      <4> HIDE DEF n, m
      <4>1. QED BY <1>0, DivNat
    <3> HIDE DEF n, m
    <3>5. QED BY <3>3, <3>4
  <2>3. QED BY <2>1, <2>2
<1>3. n \div m \in Nat
  <2> HIDE DEF n, m
  <2>1. QED BY <1>0, DivNat
<1>4. QED BY <1>1, <1>2, <1>3

\* The pieces hold all the days the override leaves, each on its own dates.
LEMMA PiecesFit ==
    ASSUME NEW a \in AppRows, Fits(a), NEW d \in DatesOf(a), a.days >= Refund(a)
    PROVE  /\ Early(a, d) + Late(a, d) = a.days - Refund(a)
           /\ Early(a, d) > 0 => /\ a.half = "no" /\ a.first <= d - 1
                                 /\ Early(a, d) <= 2 * (d - 1 - a.first + 1)
           /\ Late(a, d) > 0 => /\ a.half = "no" /\ d + 1 <= a.last
                                /\ Late(a, d) <= 2 * (a.last - (d + 1) + 1)
<1> DEFINE rest == NotBelow0(a.days - Refund(a))
           before == d - a.first
           after == a.last - d
           share == (2 * rest * before + before + after) \div (2 * (before + after))
<1>1. a.first \in Nat /\ a.last \in Nat /\ a.days \in Nat /\ d \in Nat
      /\ before \in Nat /\ after \in Nat
  <2>1. a.first \in Nat /\ a.last \in Nat /\ a.days \in Nat
    BY AppTyped
  <2>2. d \in Nat /\ a.first <= d /\ d <= a.last
    BY DatesOK DEF DatesOf, Dates
  <2>3. QED BY <2>1, <2>2
<1>2. rest = a.days - Refund(a) /\ rest \in Nat
  BY <1>1 DEF NotBelow0, Refund
<1>3. a.half # "no" => rest = 0
  BY <1>2 DEF Fits, Refund
<1>4. rest <= 2 * (before + after)
  <2>1. a.half = "no" => Refund(a) = 2
    BY DEF Refund
  <2>2. a.days <= 2 * (before + after) + 2
    BY <1>1 DEF Fits
  <2> HIDE DEF rest, before, after
  <2>3. QED BY <1>1, <1>2, <1>3, <2>1, <2>2
<1>5. Late(a, d) = IF after = 0 THEN 0 ELSE rest - Early(a, d)
  BY <1>1 DEF Late
<1>6. Early(a, d) = CASE before = 0 -> 0
                      [] before > 0 /\ after = 0 -> rest
                      [] OTHER -> IF share < rest THEN share ELSE rest
  BY DEF Early
<1>7. /\ Early(a, d) \in Nat /\ Late(a, d) \in Nat
      /\ Early(a, d) + Late(a, d) = rest
      /\ Early(a, d) <= 2 * before /\ Late(a, d) <= 2 * after
      /\ Early(a, d) > 0 => before > 0
      /\ Late(a, d) > 0 => after > 0
  <2>1. CASE before = 0 \/ after = 0
    <3> HIDE DEF rest, before, after, share
    <3>1. QED BY <1>1, <1>2, <1>4, <1>5, <1>6, <2>1
  <2>2. CASE before # 0 /\ after # 0
    <3>1. share \in Nat /\ share <= 2 * before /\ rest - share <= 2 * after
      <4> HIDE DEF rest, before, after
      <4>1. QED BY <1>1, <1>2, <1>4, <2>2, ShareFits
    <3> HIDE DEF rest, before, after, share
    <3>2. QED BY <1>1, <1>2, <1>4, <1>5, <1>6, <2>2, <3>1
  <2>3. QED BY <2>1, <2>2
<1>8. Early(a, d) > 0 \/ Late(a, d) > 0 => a.half = "no"
  <2> HIDE DEF rest, before, after
  <2>1. QED BY <1>2, <1>3, <1>7
<1>9. before = d - 1 - a.first + 1 /\ after = a.last - (d + 1) + 1
      /\ (before > 0 => a.first <= d - 1) /\ (after > 0 => d + 1 <= a.last)
  BY <1>1
<1> HIDE DEF rest, before, after
<1>10. QED BY <1>2, <1>7, <1>8, <1>9

(***************************************************************************)
(* Lemmas on counting half-days.                                           *)
(***************************************************************************)
\* n half-days of one element.
LEMMA PairsCount ==
    ASSUME NEW s, NEW n \in Nat
    PROVE  IsFiniteSet({s} \X (1..n)) /\ Cardinality({s} \X (1..n)) = n
<1>1. IsFiniteSet({s}) /\ Cardinality({s}) = 1
  BY FS_Singleton
<1>2. IsFiniteSet(1..n) /\ Cardinality(1..n) = n
  BY FS_Interval
<1>3. IsFiniteSet({s} \X (1..n))
      /\ Cardinality({s} \X (1..n)) = Cardinality({s}) * Cardinality(1..n)
  BY <1>1, <1>2, FS_Product
<1>4. QED BY <1>1, <1>2, <1>3

LEMMA HalfDaysFinite == ASSUME NEW S, IsFiniteSet(S) PROVE IsFiniteSet(S \X HalfDays)
<1>1. IsFiniteSet(HalfDays)
  BY FS_Interval, DatesOK DEF HalfDays
<1>2. QED BY <1>1, FS_Product

LEMMA IdsFinite == IsFiniteSet(Ids)
BY FS_Interval, AppsOK DEF Ids

\* A leave is no longer than the year.
LEMMA FitsYear ==
    ASSUME NEW v \in AppRows, Fits(v)
    PROVE  v.days \in Nat /\ 1..v.days \subseteq HalfDays
<1>1. v.first \in Nat /\ v.first >= 1 /\ v.last \in Nat /\ v.last <= LastDate
      /\ LastDate \in Nat /\ v.days \in Nat
  BY DatesOK DEF AppRows, Dates
<1>2. v.days <= 2 * LastDate
  BY <1>1 DEF Fits
<1>3. QED BY <1>1, <1>2 DEF HalfDays

\* Writing one row of a table exchanges its days for those of the new row.
LEMMA DaysWith ==
    ASSUME NEW table \in [Ids -> AppRows \cup {Nothing}], NEW i \in Ids,
           NEW v \in AppRows, Fits(v), table[i] # Nothing => Fits(table[i])
    PROVE  /\ Days(table) \in Nat /\ Worth(table[i]) \in Nat /\ Worth(v) \in Nat
           /\ Worth(table[i]) <= Days(table)
           /\ Days([table EXCEPT ![i] = v]) = (Days(table) - Worth(table[i])) + Worth(v)
<1> DEFINE Of(t) == {x \in Ids \X HalfDays : Counts(t[x[1]]) /\ x[2] <= t[x[1]].days}
           others == {x \in Ids \X HalfDays :
                         /\ x[1] # i
                         /\ Counts(table[x[1]]) /\ x[2] <= table[x[1]].days}
<1>1. IsFiniteSet(others) /\ Cardinality(others) \in Nat
  BY IdsFinite, HalfDaysFinite, FS_Subset, FS_CardinalityType
<1>2. ASSUME NEW t \in [Ids -> AppRows \cup {Nothing}], t[i] # Nothing => Fits(t[i]),
             \A k \in Ids \ {i} : t[k] = table[k]
      PROVE  Worth(t[i]) \in Nat /\ Days(t) = Cardinality(others) + Worth(t[i])
  <2> DEFINE n == Worth(t[i])
             mine == {i} \X (1..n)
  <2>1. n \in Nat /\ 1..n \subseteq HalfDays
    <3>1. CASE Counts(t[i])
      <4>1. t[i] \in AppRows /\ Fits(t[i])
        BY <1>2, <3>1 DEF Counts
      <4>2. n = t[i].days
        BY <3>1 DEF Worth
      <4>3. QED BY <4>1, <4>2, FitsYear
    <3>2. CASE ~Counts(t[i])
      BY <3>2 DEF Worth
    <3>3. QED BY <3>1, <3>2
  <2>2. IsFiniteSet(mine) /\ Cardinality(mine) = n
    <3> HIDE DEF n
    <3>1. QED BY <2>1, PairsCount
  <2>3. Of(t) = others \cup mine
    <3>1. ASSUME NEW k \in Ids, NEW h \in HalfDays
          PROVE  <<k, h>> \in Of(t) <=> <<k, h>> \in others \cup mine
      <4>1. h \in Nat \ {0}
        BY DatesOK DEF HalfDays
      <4>2. CASE k = i
        <5>1. <<k, h>> \in Of(t) <=> Counts(t[i]) /\ h <= t[i].days
          BY <4>2
        <5>2. <<k, h>> \in mine <=> h \in 1..n
          BY <4>2
        <5>3. h \in 1..n <=> Counts(t[i]) /\ h <= t[i].days
          <6>1. Counts(t[i]) => n = t[i].days
            BY DEF Worth
          <6>2. ~Counts(t[i]) => n = 0
            BY DEF Worth
          <6> HIDE DEF n
          <6>3. QED BY <2>1, <4>1, <6>1, <6>2
        <5>4. <<k, h>> \notin others
          BY <4>2
        <5> HIDE DEF Of, mine, others
        <5>5. QED BY <5>1, <5>2, <5>3, <5>4
      <4>3. CASE k # i
        <5>1. t[k] = table[k]
          BY <1>2, <4>3
        <5>2. <<k, h>> \notin mine
          BY <4>3
        <5>3. <<k, h>> \in Of(t) <=> <<k, h>> \in others
          BY <4>3, <5>1
        <5> HIDE DEF Of, mine, others
        <5>4. QED BY <5>2, <5>3
      <4>4. QED BY <4>2, <4>3
    <3>2. Of(t) \subseteq Ids \X HalfDays /\ others \cup mine \subseteq Ids \X HalfDays
      <4>1. mine \subseteq Ids \X HalfDays
        <5> HIDE DEF n
        <5>1. QED BY <2>1
      <4> HIDE DEF mine
      <4>2. QED BY <4>1
    <3> HIDE DEF Of, others, mine
    <3>3. QED BY <3>1, <3>2
  <2>4. others \cap mine = {}
    BY DEF others
  <2>5. Days(t) = Cardinality(Of(t))
    BY DEF Days
  <2> HIDE DEF others, mine, n, Of
  <2>6. Cardinality(Of(t)) = Cardinality(others) + Cardinality(mine)
    <3>1. Cardinality(others \cup mine)
            = Cardinality(others) + Cardinality(mine) - Cardinality(others \cap mine)
      BY <1>1, <2>2, FS_Union
    <3>2. Cardinality(others \cap mine) = 0
      BY <2>4, FS_EmptySet
    <3>3. QED BY <1>1, <2>1, <2>2, <2>3, <3>1, <3>2
  <2>7. QED BY <2>1, <2>2, <2>5, <2>6 DEF n
<1> HIDE DEF others
<1>3. Worth(table[i]) \in Nat /\ Days(table) = Cardinality(others) + Worth(table[i])
  BY <1>2
<1> DEFINE new == [table EXCEPT ![i] = v]
<1>4. /\ new \in [Ids -> AppRows \cup {Nothing}] /\ new[i] = v
      /\ \A k \in Ids \ {i} : new[k] = table[k]
  OBVIOUS
<1> HIDE DEF new
<1>5. Worth(v) \in Nat /\ Days(new) = Cardinality(others) + Worth(v)
  BY <1>2, <1>4
<1> DEFINE c == Cardinality(others)  old == Worth(table[i])  now == Worth(v)
<1>6. /\ c \in Nat /\ old \in Nat /\ now \in Nat
      /\ Days(table) = c + old /\ Days(new) = c + now
  BY <1>1, <1>3, <1>5
<1>7. Days(new) = Days([table EXCEPT ![i] = v])
  BY DEF new
<1> HIDE DEF c, old, now
<1>8. Days(table) \in Nat /\ old <= Days(table) /\ Days(new) = (Days(table) - old) + now
  BY <1>6
<1>9. QED BY <1>6, <1>7, <1>8 DEF old, now

(***************************************************************************)
(* Lemmas on writing the table of applications.                            *)
(***************************************************************************)
LEMMA OverlapSymmetric == ASSUME NEW a, NEW b PROVE Overlap(a, b) <=> Overlap(b, a)
BY DEF Overlap

\* A row that is there, or the next one, is written; what holds dates after
\* that is apart from the rest.
LEMMA SoundWith ==
    ASSUME NEW table, Sound(table), NEW i \in Ids, NEW v \in AppRows, Fits(v),
           table[i] # Nothing \/ (\A k \in 1..(i - 1) : table[k] # Nothing),
           Holds(v) => \A k \in Ids \ {i} : Holds(table[k]) => ~Overlap(table[k], v)
    PROVE  Sound([table EXCEPT ![i] = v])
<1> DEFINE new == [table EXCEPT ![i] = v]
<1>1. /\ new \in [Ids -> AppRows \cup {Nothing}] /\ new[i] = v
      /\ \A k \in Ids \ {i} : new[k] = table[k]
  BY DEF Sound
<1>2. v # Nothing
  BY NothingIsNone
<1> HIDE DEF new
<1>3. \A k \in Ids : new[k] # Nothing => Fits(new[k])
  BY <1>1 DEF Sound
<1>4. ASSUME NEW j \in Ids, NEW k \in Ids, k < j, new[j] # Nothing
      PROVE  new[k] # Nothing
  <2>1. CASE k = i
    BY <1>1, <1>2, <2>1
  <2>2. CASE k # i /\ j # i
    BY <1>1, <1>4, <2>2 DEF Sound
  <2>3. CASE k # i /\ j = i
    <3>1. k \in 1..(i - 1)
      BY <1>4, <2>3 DEF Ids
    <3>2. table[k] # Nothing
      BY <1>4, <2>3, <3>1 DEF Sound
    <3>3. QED BY <1>1, <2>3, <3>2
  <2>4. QED BY <2>1, <2>2, <2>3
<1>5. ASSUME NEW j \in Ids, NEW k \in Ids, j # k, Holds(new[j]), Holds(new[k])
      PROVE  ~Overlap(new[j], new[k])
  <2>1. CASE j # i /\ k # i
    BY <1>1, <1>5, <2>1 DEF Sound
  <2>2. CASE k = i
    BY <1>1, <1>5, <2>2
  <2>3. CASE j = i
    BY <1>1, <1>5, <2>3, OverlapSymmetric
  <2>4. QED BY <2>1, <2>2, <2>3
<1>6. QED BY <1>1, <1>3, <1>4, <1>5 DEF Sound, new

LEMMA PieceApart ==
    ASSUME NEW a \in AppRows, a.half = "no", NEW b \in AppRows, ~Overlap(b, a),
           NEW f \in Dates, NEW l \in Dates, a.first <= f, l <= a.last, NEW n
    PROVE  ~Overlap(b, Piece(a, f, l, n))
<1>1. a.first \in Nat /\ a.last \in Nat /\ b.first \in Nat /\ b.last \in Nat
      /\ f \in Nat /\ l \in Nat
  BY DatesOK DEF Dates, AppRows
<1>2. ~(b.first <= a.last /\ a.first <= b.last)
  BY DEF Overlap
<1>3. Piece(a, f, l, n).first = f /\ Piece(a, f, l, n).last = l
  BY DEF Piece, AppRows
<1>4. ~(b.first <= l /\ f <= b.last)
  BY <1>1, <1>2
<1>5. QED BY <1>3, <1>4 DEF Overlap

\* Splitting a leave: the days that remain are on its pieces, one of each side
\* of the date, in rows that were free.
LEMMA SplitSound ==
    ASSUME Sound(apps), RoomForPieces, NEW id \in Ids, NEW a \in AppRows,
           apps[id] = a, a.status = "approved", NEW d \in DatesOf(a),
           a.days >= Refund(a)
    PROVE  /\ Sound(Split(id, a, d))
           /\ Days(apps) \in Nat /\ Refund(a) <= Days(apps)
           /\ Days(Split(id, a, d)) = Days(apps) - Refund(a)
<1>0. PICK m \in Ids : Fresh(m) /\ m + 1 \in Ids /\ apps[m + 1] = Nothing
  BY DEF RoomForPieces
<1>1. (CHOOSE i \in Ids : Fresh(i)) = m
  <2>1. ASSUME NEW i \in Ids, Fresh(i) PROVE i = m
    <3>1. ~(i < m) /\ ~(m < i)
      BY <1>0, <2>1, AppsOK DEF Fresh, Ids
    <3>2. QED BY <3>1, AppsOK DEF Ids
  <2>2. QED BY <1>0, <2>1
<1> DEFINE E == Early(a, d)  L == Late(a, d)
           c == [a EXCEPT !.status = "cancelled"]
           p1 == Piece(a, a.first, d - 1, E)
           p2 == Piece(a, d + 1, a.last, L)
           t1 == [apps EXCEPT ![id] = c]
           t2 == IF E > 0 THEN [t1 EXCEPT ![m] = p1] ELSE t1
           k2 == IF E > 0 THEN m + 1 ELSE m
           t3 == IF L > 0 THEN [t2 EXCEPT ![k2] = p2] ELSE t2
<1>2. a # Nothing /\ id # m /\ id # m + 1 /\ m \in Nat /\ Fits(a)
  <2>1. a # Nothing
    BY NothingIsNone
  <2>2. QED BY <1>0, <2>1, AppsOK DEF Fresh, Ids, Sound
<1>3. E \in Nat /\ L \in Nat /\ k2 \in Ids
  BY <1>0, SharesNat
<1>4. Split(id, a, d) = t3
  <2> DEFINE early == IF E > 0 THEN {m} ELSE {}
             late == IF L > 0 THEN {m + Cardinality(early)} ELSE {}
  <2>1. Split(id, a, d) = [i \in Ids |->
            CASE i = id      -> [apps[i] EXCEPT !.status = "cancelled"]
              [] i \in early -> p1
              [] i \in late  -> p2
              [] OTHER       -> apps[i]]
    BY <1>1 DEF Split
  <2>2. late = IF L > 0 THEN {k2} ELSE {}
    <3>1. Cardinality(early) = IF E > 0 THEN 1 ELSE 0
      BY FS_EmptySet, FS_Singleton
    <3> HIDE DEF E, L, early
    <3>2. QED BY <1>2, <3>1
  <2>3. apps \in [Ids -> AppRows \cup {Nothing}]
    BY DEF Sound
  <2> HIDE DEF late, p1, p2, E, L
  <2>4. ASSUME NEW i \in Ids
        PROVE  (CASE i = id      -> [apps[i] EXCEPT !.status = "cancelled"]
                  [] i \in early -> p1
                  [] i \in late  -> p2
                  [] OTHER       -> apps[i]) = t3[i]
    <3>1. CASE i = id
      <4>1. t1[i] = [apps[i] EXCEPT !.status = "cancelled"]
        BY <2>3, <3>1
      <4>2. i # m /\ i # k2
        BY <1>2, <3>1
      <4>3. i \notin early /\ i \notin late
        BY <2>2, <4>2
      <4>4. t3[i] = t1[i]
        <5> HIDE DEF k2, c
        <5>1. QED BY <2>3, <4>2
      <4> HIDE DEF t3, early
      <4>5. QED BY <3>1, <4>1, <4>3, <4>4
    <3>2. CASE i # id /\ i \in early
      BY <1>0, <1>2, <1>3, <2>2, <2>3, <3>2
    <3>3. CASE i # id /\ i \notin early /\ i \in late
      BY <1>0, <1>2, <1>3, <2>2, <2>3, <3>3
    <3>4. CASE i # id /\ i \notin early /\ i \notin late
      BY <1>0, <1>2, <1>3, <2>2, <2>3, <3>4
    <3>5. QED BY <3>1, <3>2, <3>3, <3>4
  <2>5. DOMAIN t3 = Ids /\ t3 = [i \in Ids |-> t3[i]]
    BY <2>3
  <2> HIDE DEF t3, early
  <2>6. QED BY <2>1, <2>4, <2>5
<1>5. /\ E + L = a.days - Refund(a)
      /\ E > 0 => a.half = "no" /\ a.first <= d - 1 /\ E <= 2 * (d - 1 - a.first + 1)
      /\ L > 0 => a.half = "no" /\ d + 1 <= a.last /\ L <= 2 * (a.last - (d + 1) + 1)
  BY <1>2, PiecesFit
<1>6. a.first \in Nat /\ a.last \in Nat /\ d \in Nat /\ a.first <= d /\ d <= a.last
      /\ a.first >= 1 /\ a.last <= LastDate /\ LastDate \in Nat
  BY DatesOK DEF DatesOf, AppRows, Dates
<1>7. E > 0 => d - 1 \in Dates
  BY <1>5, <1>6 DEF Dates
<1>8. L > 0 => d + 1 \in Dates
  BY <1>5, <1>6 DEF Dates
\* The leave itself.
<1>9. c \in AppRows /\ Fits(c) /\ ~Holds(c) /\ Worth(c) = 0
  <2>1. c \in AppRows
    BY AppTyped
  <2>2. c.first = a.first /\ c.last = a.last /\ c.half = a.half /\ c.days = a.days
        /\ c.status = "cancelled"
    BY DEF AppRows
  <2> HIDE DEF c
  <2>3. QED BY <1>2, <2>1, <2>2 DEF Fits, Holds, Worth, Counts
<1>10. Sound(t1) /\ t1[id] = c /\ \A k \in Ids \ {id} : t1[k] = apps[k]
  <2>1. t1[id] = c /\ \A k \in Ids \ {id} : t1[k] = apps[k]
    BY DEF Sound
  <2> HIDE DEF c
  <2>2. QED BY <1>2, <1>9, <2>1, SoundWith
<1>11. /\ Days(apps) \in Nat /\ a.days \in Nat /\ a.days <= Days(apps)
       /\ Days(t1) = Days(apps) - a.days /\ Days(t1) \in Nat
  <2>1. Worth(a) = a.days /\ a.days \in Nat
    BY <1>2, AppTyped DEF Worth, Counts
  <2>2. Days(t1) = (Days(apps) - Worth(a)) + Worth(c) /\ Days(apps) \in Nat
        /\ Worth(a) <= Days(apps)
    <3> HIDE DEF c
    <3>1. QED BY <1>2, <1>9, DaysWith DEF Sound
  <2> HIDE DEF t1
  <2>3. QED BY <1>9, <2>1, <2>2
<1> HIDE DEF t1, c
\* The piece before the date.
<1>12. /\ Sound(t2) /\ Days(t2) = Days(t1) + E
       /\ \A k \in Ids \ {m} : t2[k] = t1[k]
       /\ t2[m] = IF E > 0 THEN p1 ELSE Nothing
  <2>0. t1[m] = Nothing
    BY <1>0, <1>2, <1>10 DEF Fresh
  <2>1. CASE E > 0
    <3>1. p1 \in AppRows /\ p1.first = a.first /\ p1.last = d - 1 /\ p1.days = E
          /\ p1.half = "no" /\ p1.status = "approved"
      BY <1>3, <1>5, <1>7, <2>1 DEF Piece, AppRows
    <3>2. Fits(p1)
      <4> HIDE DEF p1, E
      <4>1. QED BY <1>5, <2>1, <3>1 DEF Fits
    <3>3. ASSUME NEW k \in Ids \ {m}, Holds(t1[k]) PROVE ~Overlap(t1[k], p1)
      <4>1. k # id
        BY <1>9, <1>10, <3>3
      <4>2. ~Overlap(apps[k], a) /\ apps[k] \in AppRows
        BY <1>2, <1>10, <3>3, <4>1 DEF Sound, Holds
      <4>3. a.first \in Dates /\ d - 1 \in Dates /\ a.first <= a.first /\ d - 1 <= a.last
        BY <1>6, <1>7, <2>1 DEF AppRows
      <4>4. ~Overlap(apps[k], Piece(a, a.first, d - 1, E))
        <5> HIDE DEF E
        <5>1. QED BY <1>5, <2>1, <4>2, <4>3, PieceApart
      <4>5. QED BY <1>10, <4>1, <4>4
    <3>4. \A k \in 1..(m - 1) : t1[k] # Nothing
      <4>1. \A k \in 1..(m - 1) : k \in Ids /\ apps[k] # Nothing
        BY <1>0, AppsOK DEF Fresh, Ids
      <4>2. t1[id] # Nothing
        BY <1>9, <1>10, NothingIsNone
      <4>3. QED BY <1>10, <4>1, <4>2
    <3>5. Worth(p1) = E /\ Worth(Nothing) = 0
      <4>1. p1 # Nothing
        BY <3>1, NothingIsNone
      <4>2. QED BY <3>1, <4>1 DEF Worth, Counts
    <3>6. t2 = [t1 EXCEPT ![m] = p1]
      BY <2>1
    <3> HIDE DEF p1, E, t2
    <3>7. Sound([t1 EXCEPT ![m] = p1])
      BY <1>10, <3>1, <3>2, <3>3, <3>4, SoundWith
    <3>8. Days([t1 EXCEPT ![m] = p1]) = (Days(t1) - Worth(t1[m])) + Worth(p1)
      BY <1>10, <2>0, <3>1, <3>2, DaysWith DEF Sound
    <3>9. Days(t2) = Days(t1) + E
      BY <1>3, <1>11, <2>0, <3>5, <3>6, <3>8
    <3>10. t2[m] = p1 /\ \A k \in Ids \ {m} : t2[k] = t1[k]
      BY <1>10, <3>6 DEF Sound
    <3>11. QED BY <2>1, <3>6, <3>7, <3>9, <3>10
  <2>2. CASE ~(E > 0)
    <3>1. t2 = t1 /\ E = 0
      BY <1>3, <2>2
    <3> HIDE DEF t2, E, p1
    <3>2. QED BY <1>10, <1>11, <2>0, <2>2, <3>1
  <2>3. QED BY <2>1, <2>2
<1> HIDE DEF t2
\* The piece after it.
<1>13. Sound(t3) /\ Days(t3) = Days(t2) + L
  <2>0. t2[k2] = Nothing
    <3>1. CASE E > 0
      <4>1. k2 = m + 1 /\ m + 1 # m
        BY <1>2, <3>1
      <4>2. QED BY <1>0, <1>2, <1>10, <1>12, <4>1
    <3>2. CASE ~(E > 0)
      BY <1>12, <3>2
    <3>3. QED BY <3>1, <3>2
  <2>1. CASE L > 0
    <3>1. p2 \in AppRows /\ p2.first = d + 1 /\ p2.last = a.last /\ p2.days = L
          /\ p2.half = "no" /\ p2.status = "approved"
      BY <1>3, <1>5, <1>8, <2>1 DEF Piece, AppRows
    <3>2. Fits(p2)
      <4> HIDE DEF p2, L
      <4>1. QED BY <1>5, <2>1, <3>1 DEF Fits
    <3>3. ASSUME NEW k \in Ids \ {k2}, Holds(t2[k]) PROVE ~Overlap(t2[k], p2)
      <4>1. CASE k = m
        <5>1. E > 0 /\ t2[k] = p1
          BY <1>12, <3>3, <4>1 DEF Holds
        <5>2. p1.last = d - 1
          BY DEF Piece, AppRows
        <5>3. ~(p2.first <= p1.last)
          <6> HIDE DEF p1, p2
          <6>1. QED BY <1>6, <3>1, <5>2
        <5> HIDE DEF p1, p2
        <5>4. QED BY <5>1, <5>3 DEF Overlap
      <4>2. CASE k # m
        <5>1. t2[k] = t1[k] /\ k # id
          BY <1>9, <1>10, <1>12, <3>3, <4>2
        <5>2. ~Overlap(apps[k], a) /\ apps[k] \in AppRows /\ t2[k] = apps[k]
          BY <1>2, <1>10, <3>3, <5>1 DEF Sound, Holds
        <5>3. d + 1 \in Dates /\ a.last \in Dates /\ a.first <= d + 1 /\ a.last <= a.last
          BY <1>6, <1>8, <2>1 DEF AppRows
        <5>4. ~Overlap(apps[k], Piece(a, d + 1, a.last, L))
          <6> HIDE DEF L
          <6>1. QED BY <1>5, <2>1, <5>2, <5>3, PieceApart
        <5>5. QED BY <5>2, <5>4
      <4>3. QED BY <4>1, <4>2
    <3>4. \A k \in 1..(k2 - 1) : t2[k] # Nothing
      <4>1. \A k \in 1..(m - 1) : k \in Ids /\ apps[k] # Nothing /\ k # m
        BY <1>0, <1>2, AppsOK DEF Fresh, Ids
      <4>2. t1[id] # Nothing
        BY <1>9, <1>10, NothingIsNone
      <4>3. \A k \in 1..(m - 1) : t2[k] # Nothing
        BY <1>10, <1>12, <4>1, <4>2
      <4>4. CASE E > 0
        <5>1. p1 \in AppRows
          BY <1>3, <1>5, <1>7, <4>4 DEF Piece, AppRows
        <5>2. t2[m] # Nothing
          BY <1>12, <4>4, <5>1, NothingIsNone
        <5>3. ASSUME NEW k \in 1..(k2 - 1) PROVE k = m \/ k \in 1..(m - 1)
          BY <1>2, <4>4
        <5>4. QED BY <4>3, <5>2, <5>3
      <4>5. CASE ~(E > 0)
        BY <4>3, <4>5
      <4>6. QED BY <4>4, <4>5
    <3>5. Worth(p2) = L /\ Worth(Nothing) = 0
      <4>1. p2 # Nothing
        BY <3>1, NothingIsNone
      <4>2. QED BY <3>1, <4>1 DEF Worth, Counts
    <3>6. t3 = [t2 EXCEPT ![k2] = p2]
      BY <2>1
    <3> HIDE DEF p2, L, t3, k2
    <3>7. Sound([t2 EXCEPT ![k2] = p2])
      BY <1>3, <1>12, <3>1, <3>2, <3>3, <3>4, SoundWith
    <3>8. Days([t2 EXCEPT ![k2] = p2]) = (Days(t2) - Worth(t2[k2])) + Worth(p2)
          /\ Days(t2) \in Nat
      BY <1>3, <1>12, <2>0, <3>1, <3>2, DaysWith DEF Sound
    <3>9. Days(t3) = Days(t2) + L
      BY <1>3, <2>0, <3>5, <3>6, <3>8
    <3>10. QED BY <3>6, <3>7, <3>9
  <2>2. CASE ~(L > 0)
    <3>1. t3 = t2 /\ L = 0
      BY <1>3, <2>2
    <3>2. Days(t2) \in Nat
      <4> HIDE DEF E, L, p1, p2
      <4>1. QED BY <1>3, <1>11, <1>12
    <3> HIDE DEF t3, L, p2
    <3>3. QED BY <1>12, <3>1, <3>2
  <2>3. QED BY <2>1, <2>2
<1>14. Refund(a) \in Nat
  BY AppTyped
<1> HIDE DEF E, L, t3, p1, p2, k2
<1>15. QED BY <1>3, <1>4, <1>5, <1>11, <1>12, <1>13, <1>14

(***************************************************************************)
(* Every statement keeps the focus on the one request in flight.           *)
(***************************************************************************)
LEMMA FocusTyped ==
    ASSUME Ind, NEW w \in Workers, Focus(w)
    PROVE  /\ row.used \in Nat /\ row \in BalanceRows /\ Days(apps) \in Nat
           /\ pc \in [Workers -> Statements \cup {"idle"}]
           /\ DOMAIN job = Workers /\ DOMAIN seen = Workers
           /\ \A v \in Workers : pc[v] # "idle" => v = w
<1>1. Days(apps) \in Nat
  BY IdsFinite, HalfDaysFinite, FS_Subset, FS_CardinalityType DEF Days
<1>2. QED BY <1>1, ReadRowTyped DEF Ind, InHand, BalanceRows, Focus, Only

LEMMA FocusAfter ==
    ASSUME NEW w \in Workers, \A v \in Workers \ {w} : pc'[v] = "idle",
           row'.used + Owed(pc'[w], job'[w]) = Days(apps') + Due(pc'[w], seen'[w]),
           Relies(pc[w], job[w], seen[w])', Sound(apps')
    PROVE  Focus(w)'
BY DEF Focus, Only, Owed, Due, Days, Sound, Counts, Holds

LEMMA IdleRelies == ASSUME NEW w, pc'[w] = "idle" PROVE Relies(pc[w], job[w], seen[w])'
BY DEF Relies, Asking, HasBalance, Returning, HasTarget

\* The request ends with the books in order.
LEMMA Ends ==
    ASSUME Ind, NEW w \in Workers, Focus(w), Finish(w), Sound(apps'), row'.used = Days(apps')
    PROVE  Focus(w)'
<1>1. pc'[w] = "idle" /\ \A v \in Workers \ {w} : pc'[v] = "idle"
  BY FocusTyped DEF Finish, Focus, Only
<1>2. Owed(pc'[w], job'[w]) = 0 /\ Due(pc'[w], seen'[w]) = 0
  BY <1>1 DEF Owed, Due, Taking, Returning
<1>3. row'.used + 0 = Days(apps') + 0
  <2>1. Days(apps') \in Nat
    BY IdsFinite, HalfDaysFinite, FS_Subset, FS_CardinalityType DEF Days
  <2>2. QED BY <2>1
<1>4. QED BY <1>1, <1>2, <1>3, IdleRelies, FocusAfter

LEMMA SettledFocus ==
    ASSUME Ind, NEW w \in Workers, Focus(w), pc[w] \notin Taking \cup Returning
    PROVE  row.used = Days(apps)
BY FocusTyped DEF Focus, Owed, Due

\* The request ends without a write.
LEMMA EndsAsIs ==
    ASSUME Ind, NEW w \in Workers, Focus(w), Finish(w), pc[w] \notin Taking \cup Returning,
           UNCHANGED apps, row'.used = row.used
    PROVE  Focus(w)'
BY Ends, SettledFocus DEF Focus

\* It goes on without one.
LEMMA GoesOnFocus ==
    ASSUME Ind, NEW w \in Workers, Focus(w), NEW s, Goto(w, s),
           pc[w] \notin Taking \cup Returning, s \notin Taking \cup Returning,
           UNCHANGED apps, row'.used = row.used, Relies(pc[w], job[w], seen[w])'
    PROVE  Focus(w)'
<1>1. pc'[w] = s /\ \A v \in Workers \ {w} : pc'[v] = "idle"
  BY FocusTyped DEF Goto, Focus, Only
<1>2. Owed(pc'[w], job'[w]) = 0 /\ Due(pc'[w], seen'[w]) = 0
  BY <1>1 DEF Owed, Due
<1>3. row'.used + 0 = Days(apps') + 0
  BY FocusTyped, SettledFocus
<1>4. Sound(apps')
  BY DEF Focus
<1>5. QED BY <1>1, <1>2, <1>3, <1>4, FocusAfter

LEMMA RequestFits ==
    ASSUME NEW r \in Requests, NEW s \in {"pending", "approved", "rejected", "cancelled"}
    PROVE  /\ Application(r, s) \in AppRows /\ Fits(Application(r, s))
           /\ Application(r, s).days = r.days /\ Application(r, s).status = s
           /\ r.days \in Nat /\ 1..r.days \subseteq HalfDays
           /\ \A b : Overlap(b, Application(r, s)) <=> Overlap(b, r)
<1> DEFINE v == Application(r, s)
<1>1. v \in AppRows /\ v.first = r.first /\ v.last = r.last /\ v.half = r.half
      /\ v.days = r.days /\ v.status = s
  BY RequestTyped DEF Application
<1>2. Shape(r)
  BY RequestsOK
<1>3. r.first \in Nat /\ r.last \in Nat
  BY <1>2, DatesOK DEF Shape, Dates
<1> HIDE DEF v
<1>4. Fits(v)
  BY <1>1, <1>2, <1>3 DEF Fits, Shape
<1>5. v.days \in Nat /\ 1..v.days \subseteq HalfDays
  BY <1>1, <1>4, FitsYear
<1>6. \A b : Overlap(b, v) <=> Overlap(b, r)
  BY <1>1 DEF Overlap
<1>7. QED BY <1>1, <1>4, <1>5, <1>6 DEF v

LEMMA CheckBalanceFocus ==
    ASSUME Ind, NEW w \in Workers, Focus(w), CheckBalance(w)
    PROVE  Focus(w)'
<1>1. /\ pc[w] = "checkBalance" /\ UNCHANGED <<apps, row>> /\ row'.used = row.used
      /\ pc[w] \notin Taking \cup Returning
  BY DEF CheckBalance, tables, Taking, Returning
<1>2. CASE Finish(w)
  BY <1>1, <1>2, EndsAsIs
<1>3. ASSUME NEW s \in {"findOverlaps", "rollover"}, Goto(w, s), UNCHANGED job
      PROVE  Focus(w)'
  <2>1. pc'[w] = s /\ s \notin Taking \cup Returning
    BY <1>3, FocusTyped DEF Goto, Taking, Returning
  <2>2. Relies(pc[w], job[w], seen[w])'
    BY <1>1, <1>3, <2>1 DEF Focus, Relies, Asking, HasBalance, Returning, HasTarget
  <2>3. QED BY <1>1, <1>3, <2>1, <2>2, GoesOnFocus
<1>4. QED BY <1>2, <1>3 DEF CheckBalance, GoOnIfAvailable

LEMMA RolloverFocus ==
    ASSUME Ind, NEW w \in Workers, Focus(w), Rollover(w)
    PROVE  Focus(w)'
<1>1. /\ pc[w] = "rollover" /\ UNCHANGED apps
      /\ pc[w] \notin Taking \cup Returning
  BY DEF Rollover, Taking, Returning
<1>2. row'.used = row.used
  BY FocusTyped DEF Rollover, BalanceRows
<1>3. CASE Finish(w)
  BY <1>1, <1>2, <1>3, EndsAsIs
<1>4. CASE Goto(w, "findOverlaps") /\ UNCHANGED <<job, seen>>
  <2>1. pc'[w] = "findOverlaps"
    BY <1>4, FocusTyped DEF Goto
  <2>2. Relies(pc[w], job[w], seen[w])'
    BY <1>1, <1>4, <2>1 DEF Focus, Relies, Asking, HasBalance, Returning, HasTarget
  <2>3. QED BY <1>1, <1>2, <1>4, <2>2, GoesOnFocus DEF Taking, Returning
<1>5. QED BY <1>3, <1>4 DEF Rollover, GoOnIfAvailable

LEMMA FindOwnFocus ==
    ASSUME Ind, NEW w \in Workers, Focus(w), FindOwn(w)
    PROVE  Focus(w)'
<1>1. /\ pc[w] = "findOwn" /\ UNCHANGED <<apps, row>> /\ row'.used = row.used
      /\ pc[w] \notin Taking \cup Returning
  BY DEF FindOwn, tables, Taking, Returning
<1>2. CASE Finish(w)
  BY <1>1, <1>2, EndsAsIs
<1>3. CASE /\ apps[job[w].id] # Nothing /\ apps[job[w].id].status = "pending"
           /\ Goto(w, "checkBalance") /\ UNCHANGED <<job, seen>>
  <2>1. pc'[w] = "checkBalance"
    BY <1>3, FocusTyped DEF Goto
  <2>2. Relies(pc[w], job[w], seen[w])'
    BY <1>1, <1>3, <2>1 DEF Focus, Relies, Asking, HasBalance, Returning, HasTarget
  <2>3. QED BY <1>1, <1>3, <2>2, GoesOnFocus DEF Taking, Returning
<1>4. QED BY <1>2, <1>3 DEF FindOwn

LEMMA FindOverlapsFocus ==
    ASSUME Ind, NEW w \in Workers, Focus(w), FindOverlaps(w)
    PROVE  Focus(w)'
<1>1. /\ pc[w] = "findOverlaps" /\ UNCHANGED <<apps, row>> /\ row'.used = row.used
      /\ pc[w] \notin Taking \cup Returning
  BY DEF FindOverlaps, tables, Taking, Returning
<1>2. CASE Finish(w)
  BY <1>1, <1>2, EndsAsIs
<1>3. CASE ~Clashes(w) /\ ~Finish(w)
  <2> DEFINE s == IF job[w].kind = "apply" THEN "insert" ELSE "writeUpdate"
  <2>1. Goto(w, s) /\ UNCHANGED job
    BY <1>3 DEF FindOverlaps
  <2>2. Clear(job[w])
    BY <1>3 DEF Clashes, Clear, Live, Holds
  <2>3. pc'[w] = s /\ s \notin Taking \cup Returning
    BY <2>1, FocusTyped DEF Goto, Taking, Returning
  <2>4. job[w].kind \in {"apply", "update"} /\
        (job[w].kind = "update" => /\ apps[job[w].id] # Nothing
                                   /\ apps[job[w].id].status = "pending")
    BY <1>1 DEF Focus, Relies, Asking
  <2>5. Relies(pc[w], job[w], seen[w])'
    <3>1. Clear(job[w])'
      BY <1>1, <2>1, <2>2 DEF Clear, Holds
    <3>2. CASE job[w].kind = "apply"
      <4>1. pc'[w] = "insert"
        BY <2>3, <3>2
      <4> HIDE DEF s
      <4>2. QED BY <2>1, <3>1, <3>2, <4>1 DEF Relies, Asking, HasBalance, Returning, HasTarget
    <3>3. CASE job[w].kind = "update"
      <4>1. pc'[w] = "writeUpdate"
        BY <2>3, <3>3
      <4> HIDE DEF s
      <4>2. QED BY <1>1, <2>1, <2>4, <3>1, <3>3, <4>1
                DEF Relies, Asking, HasBalance, Returning, HasTarget
    <3>4. QED BY <2>4, <3>2, <3>3
  <2> HIDE DEF s
  <2>6. QED BY <1>1, <2>1, <2>3, <2>5, GoesOnFocus
<1>4. QED BY <1>2, <1>3 DEF FindOverlaps

LEMMA InsertFocus ==
    ASSUME Ind, NEW w \in Workers, Focus(w), Insert(w)
    PROVE  Focus(w)'
<1> DEFINE r == job[w].request
           st == IF job[w].approval THEN "pending" ELSE "approved"
           v == Application(r, st)
<1>0. PICK i \in Ids : Fresh(i) /\ apps' = [apps EXCEPT ![i] = v]
  BY DEF Insert
<1>1. r \in Requests /\ pc[w] = "insert" /\ UNCHANGED row /\ row'.used = row.used
  BY ReadRowTyped DEF Insert, Work, HasRequest
<1>2. /\ v \in AppRows /\ Fits(v) /\ v.days = r.days /\ v.status = st /\ r.days \in Nat
      /\ \A b : Overlap(b, v) <=> Overlap(b, r)
  BY <1>1, RequestFits
<1>3. Clear(job[w]) /\ job[w].kind = "apply" /\ Sound(apps)
  BY <1>1 DEF Focus, Relies
<1>4. apps[i] = Nothing /\ \A k \in 1..(i - 1) : apps[k] # Nothing
  BY <1>0 DEF Fresh
<1>5. \A k \in Ids \ {i} : Holds(apps[k]) => ~Overlap(apps[k], v)
  BY <1>2, <1>3 DEF Clear
<1>6. Sound(apps') /\ Days(apps') = Days(apps) + Worth(v) /\ Worth(v) \in Nat
  <2> HIDE DEF v
  <2>1. Sound([apps EXCEPT ![i] = v])
    BY <1>2, <1>3, <1>4, <1>5, SoundWith
  <2>2. Days([apps EXCEPT ![i] = v]) = (Days(apps) - Worth(apps[i])) + Worth(v)
        /\ Worth(v) \in Nat
    BY <1>2, <1>3, <1>4, DaysWith DEF Sound
  <2>3. Worth(apps[i]) = 0
    BY <1>4 DEF Worth, Counts
  <2>4. QED BY <1>0, <2>1, <2>2, <2>3, FocusTyped
<1>7. row.used = Days(apps) /\ Days(apps) \in Nat
  BY <1>1, FocusTyped, SettledFocus DEF Taking, Returning
<1>8. v # Nothing
  BY <1>2, NothingIsNone
<1>9. CASE job[w].approval
  <2>1. Worth(v) = 0
    BY <1>2, <1>9 DEF Worth, Counts
  <2>2. Finish(w)
    BY <1>9 DEF Insert
  <2> HIDE DEF v
  <2>3. row'.used = Days(apps')
    BY <1>1, <1>6, <1>7, <2>1
  <2>4. QED BY <1>6, <2>2, <2>3, Ends
<1>10. CASE ~job[w].approval
  <2>1. Worth(v) = r.days
    BY <1>2, <1>8, <1>10 DEF Worth, Counts
  <2>2. Goto(w, "readForDeduct") /\ UNCHANGED <<job, seen>>
    BY <1>10 DEF Insert
  <2>3. pc'[w] = "readForDeduct" /\ \A x \in Workers \ {w} : pc'[x] = "idle"
    BY <2>2, FocusTyped DEF Goto, Focus, Only
  <2>4. Owed(pc'[w], job'[w]) = r.days /\ Due(pc'[w], seen'[w]) = 0
    BY <2>2, <2>3 DEF Owed, Due, Taking, Returning
  <2>5. Relies(pc[w], job[w], seen[w])'
    BY <2>3 DEF Relies, Asking, HasBalance, Returning, HasTarget
  <2> HIDE DEF v, r
  <2>6. row'.used + r.days = Days(apps') + 0
    BY <1>1, <1>2, <1>6, <1>7, <2>1
  <2>7. QED BY <1>6, <2>3, <2>4, <2>5, <2>6, FocusAfter
<1>11. QED BY <1>9, <1>10

LEMMA WriteUpdateFocus ==
    ASSUME Ind, NEW w \in Workers, Focus(w), WriteUpdate(w)
    PROVE  Focus(w)'
<1> DEFINE r == job[w].request
           i == job[w].id
           v == Application(r, "pending")
<1>1. /\ r \in Requests /\ i \in Ids /\ apps[i] \in AppRows
      /\ pc[w] = "writeUpdate" /\ UNCHANGED row /\ row'.used = row.used /\ Finish(w)
  BY ReadRowTyped DEF WriteUpdate, Work, Target, HasRequest, HasTarget, HasId
<1>2. /\ v \in AppRows /\ Fits(v) /\ v.status = "pending"
      /\ \A b : Overlap(b, v) <=> Overlap(b, r)
  BY <1>1, RequestFits
<1>3. Clear(job[w]) /\ job[w].kind = "update" /\ apps[i].status = "pending" /\ Sound(apps)
  BY <1>1 DEF Focus, Relies
<1>4. apps' = [apps EXCEPT ![i] = v]
  BY <1>3 DEF WriteUpdate, Sound
<1>5. apps[i] # Nothing
  BY <1>1, NothingIsNone
<1>6. \A k \in Ids \ {i} : Holds(apps[k]) => ~Overlap(apps[k], v)
  BY <1>2, <1>3 DEF Clear
<1>7. Worth(v) = 0 /\ Worth(apps[i]) = 0
  BY <1>2, <1>3 DEF Worth, Counts
<1> HIDE DEF v, i
<1>8. Sound(apps')
  BY <1>1, <1>2, <1>3, <1>4, <1>5, <1>6, SoundWith
<1>9. Days([apps EXCEPT ![i] = v]) = (Days(apps) - Worth(apps[i])) + Worth(v)
  BY <1>1, <1>2, <1>3, DaysWith DEF Sound
<1>10. row.used = Days(apps) /\ Days(apps) \in Nat
  BY <1>1, FocusTyped, SettledFocus DEF Taking, Returning
<1>11. row'.used = Days(apps')
  BY <1>1, <1>4, <1>7, <1>9, <1>10
<1>12. QED BY <1>1, <1>8, <1>11, Ends

LEMMA ReadForDeductFocus ==
    ASSUME Ind, NEW w \in Workers, Focus(w), ReadForDeduct(w)
    PROVE  Focus(w)'
<1>1. /\ pc[w] = "readForDeduct" /\ UNCHANGED <<apps, row, job>>
      /\ Goto(w, "writeDeduct") /\ ReadRow(w)
  BY DEF ReadForDeduct, tables
<1>2. pc'[w] = "writeDeduct" /\ \A v \in Workers \ {w} : pc'[v] = "idle"
  BY <1>1, FocusTyped DEF Goto, Focus, Only
<1>3. seen'[w].row = row
  BY <1>1, ReadRowTyped DEF ReadRow, Reads, Ind, InHand
<1>4. Owed(pc'[w], job'[w]) = Owed(pc[w], job[w])
      /\ Due(pc'[w], seen'[w]) = 0 /\ Due(pc[w], seen[w]) = 0
  BY <1>1, <1>2 DEF Owed, Due, Taking, Returning
<1>5. Relies(pc[w], job[w], seen[w])'
  BY <1>1, <1>2, <1>3 DEF Relies, Asking, HasBalance, Returning, HasTarget
<1>6. row'.used + Owed(pc'[w], job'[w]) = Days(apps') + Due(pc'[w], seen'[w])
  BY <1>1, <1>4 DEF Focus
<1>7. QED BY <1>1, <1>2, <1>5, <1>6, FocusAfter DEF Focus

LEMMA WriteDeductFocus ==
    ASSUME Ind, NEW w \in Workers, Focus(w), WriteDeduct(w)
    PROVE  Focus(w)'
<1>1. pc[w] = "writeDeduct" /\ UNCHANGED apps /\ Finish(w)
  BY DEF WriteDeduct
<1>2. seen[w].row.used = row.used
  BY <1>1 DEF Focus, Relies, HasBalance
<1>3. row'.used = row.used + job[w].request.days
  BY <1>2, FocusTyped DEF WriteDeduct, Deducted, BalanceRows
<1>4. row.used + job[w].request.days = Days(apps) + 0
  BY <1>1 DEF Focus, Owed, Due, Taking, Returning
<1>5. row'.used = Days(apps')
  BY <1>1, <1>3, <1>4, FocusTyped
<1>6. QED BY <1>1, <1>5, Ends DEF Focus

LEMMA ReadForCreditFocus ==
    ASSUME Ind, NEW w \in Workers, Focus(w), ReadForCredit(w)
    PROVE  Focus(w)'
<1>1. /\ pc[w] = "readForCredit" /\ UNCHANGED <<apps, row, job>>
      /\ Goto(w, "writeCredit") /\ ReadRow(w)
  BY DEF ReadForCredit, tables
<1>2. pc'[w] = "writeCredit" /\ \A v \in Workers \ {w} : pc'[v] = "idle"
  BY <1>1, FocusTyped DEF Goto, Focus, Only
<1>3. seen'[w].row = row /\ seen'[w].app = seen[w].app
  BY <1>1, ReadRowTyped DEF ReadRow, Reads, Ind, InHand
<1>4. Owed(pc'[w], job'[w]) = 0 /\ Owed(pc[w], job[w]) = 0
      /\ Due(pc'[w], seen'[w]) = Due(pc[w], seen[w])
  BY <1>1, <1>2, <1>3 DEF Owed, Due, Taking, Returning
<1>5. Fits(seen[w].app)
  BY <1>1 DEF Focus, Relies, Returning
<1>6. Relies(pc[w], job[w], seen[w])'
  <2>1. Fits(seen'[w].app)
    BY <1>3, <1>5
  <2>2. Fits(seen[w].app)'
    BY <2>1 DEF Fits
  <2>3. QED BY <1>1, <1>2, <1>3, <2>2 DEF Relies, Asking, HasBalance, Returning, HasTarget
<1>7. row'.used + Owed(pc'[w], job'[w]) = Days(apps') + Due(pc'[w], seen'[w])
  BY <1>1, <1>4 DEF Focus
<1>8. QED BY <1>1, <1>2, <1>6, <1>7, FocusAfter DEF Focus

LEMMA WriteCreditFocus ==
    ASSUME Ind, NEW w \in Workers, Focus(w), WriteCredit(w)
    PROVE  Focus(w)'
<1> DEFINE a == seen[w].app
<1>1. pc[w] = "writeCredit" /\ UNCHANGED <<apps, job, seen>> /\ Goto(w, "clearAttendance")
      /\ a \in AppRows /\ a.days \in Nat
  BY ReadRowTyped, AppTyped DEF WriteCredit, Work, HasApp
<1>2. pc'[w] = "clearAttendance" /\ \A v \in Workers \ {w} : pc'[v] = "idle"
  BY <1>1, FocusTyped DEF Goto, Focus, Only
<1>3. seen[w].row.used = row.used
  BY <1>1 DEF Focus, Relies, HasBalance
<1>4. row'.used = NotBelow0(row.used - a.days)
  BY <1>3, FocusTyped DEF WriteCredit, Credited, BalanceRows
<1>5. row.used + 0 = Days(apps) + a.days
  BY <1>1 DEF Focus, Owed, Due, Taking, Returning
<1>6. row'.used + 0 = Days(apps') + 0
  <2> HIDE DEF a
  <2>1. row.used - a.days = Days(apps) /\ Days(apps) \in Nat
    BY <1>1, <1>5, FocusTyped
  <2>2. QED BY <1>1, <1>4, <2>1 DEF NotBelow0
<1>7. Owed(pc'[w], job'[w]) = 0 /\ Due(pc'[w], seen'[w]) = 0
  BY <1>2 DEF Owed, Due, Taking, Returning
<1>8. Relies(pc[w], job[w], seen[w])'
  BY <1>2 DEF Relies, Asking, HasBalance, Returning, HasTarget
<1>9. QED BY <1>1, <1>2, <1>6, <1>7, <1>8, FocusAfter DEF Focus

LEMMA ClearAttendanceFocus ==
    ASSUME Ind, NEW w \in Workers, Focus(w), ClearAttendance(w)
    PROVE  Focus(w)'
BY EndsAsIs DEF ClearAttendance, Taking, Returning

\* Reading an application for the statement that acts on it.
LEMMA ReadsAppFocus ==
    ASSUME Ind, NEW w \in Workers, Focus(w), pc[w] \notin Taking \cup Returning,
           NEW s \in {"writeCancelled", "readForApproval", "writeRejected"},
           ReadApp(w, job[w].id), Goto(w, s), UNCHANGED <<apps, row, job>>,
           s = "writeCancelled" => Holds(apps[job[w].id]),
           s # "writeCancelled" => apps[job[w].id].status = "pending"
    PROVE  Focus(w)'
<1>1. pc'[w] = s /\ s \notin Taking \cup Returning
  BY FocusTyped DEF Goto, Taking, Returning
<1>2. seen'[w].app = apps[job[w].id]
  BY ReadRowTyped DEF ReadApp, Reads, Ind, InHand
<1>3. (s = "writeCancelled" => Holds(apps[job[w].id]))'
  BY DEF Holds
<1>4. Relies(pc[w], job[w], seen[w])'
  BY <1>1, <1>2, <1>3 DEF Relies, Asking, HasBalance, Returning, HasTarget
<1>5. QED BY <1>1, <1>4, GoesOnFocus

LEMMA FindActiveFocus ==
    ASSUME Ind, NEW w \in Workers, Focus(w), FindActive(w)
    PROVE  Focus(w)'
<1>1. /\ pc[w] = "findActive" /\ UNCHANGED <<apps, row>> /\ row'.used = row.used
      /\ pc[w] \notin Taking \cup Returning
  BY DEF FindActive, tables, Taking, Returning
<1>2. CASE Finish(w)
  BY <1>1, <1>2, EndsAsIs
<1>3. CASE ~Finish(w)
  <2>1. /\ Holds(apps[job[w].id]) /\ ReadApp(w, job[w].id)
        /\ Goto(w, "writeCancelled") /\ UNCHANGED job
    BY <1>3 DEF FindActive, Live, Holds
  <2>2. QED BY <1>1, <2>1, ReadsAppFocus
<1>4. QED BY <1>2, <1>3

LEMMA FindPendingFocus ==
    ASSUME Ind, NEW w \in Workers, Focus(w), FindPending(w)
    PROVE  Focus(w)'
<1>1. /\ pc[w] = "findPending" /\ UNCHANGED <<apps, row>> /\ row'.used = row.used
      /\ pc[w] \notin Taking \cup Returning
  BY DEF FindPending, tables, Taking, Returning
<1>2. CASE Finish(w)
  BY <1>1, <1>2, EndsAsIs
<1>3. CASE ~Finish(w)
  <2>1. PICK s \in {"readForApproval", "writeRejected"} :
          /\ apps[job[w].id].status = "pending" /\ ReadApp(w, job[w].id)
          /\ Goto(w, s) /\ UNCHANGED job
    <3>1. CASE job[w].kind = "approve"
      BY <1>3, <3>1 DEF FindPending
    <3>2. CASE job[w].kind # "approve"
      BY <1>3, <3>2 DEF FindPending
    <3>3. QED BY <3>1, <3>2
  <2>2. QED BY <1>1, <2>1, ReadsAppFocus
<1>4. QED BY <1>2, <1>3

\* The status of the application read is written.
LEMMA StatusWritten ==
    ASSUME Ind, NEW w \in Workers, Focus(w), pc[w] \in HasTarget,
           NEW s \in {"approved", "rejected", "cancelled"},
           apps' = [apps EXCEPT ![job[w].id].status = s],
           s = "approved" => Holds(apps[job[w].id])
    PROVE  LET old == apps[job[w].id] IN
           /\ Sound(apps') /\ old \in AppRows /\ old.days \in Nat /\ old # Nothing /\ Fits(old)
           /\ Worth(old) \in Nat /\ Worth(old) <= Days(apps)
           /\ Days(apps') = (Days(apps) - Worth(old))
                              + (IF s = "approved" THEN old.days ELSE 0)
<1> DEFINE i == job[w].id
           old == apps[i]
           v == [old EXCEPT !.status = s]
<1>1. i \in Ids /\ old \in AppRows /\ old # Nothing /\ Sound(apps) /\ Fits(old)
  <2>1. i \in Ids /\ old \in AppRows
    BY ReadRowTyped DEF Work, Target, HasId
  <2>2. old # Nothing
    BY <2>1, NothingIsNone
  <2>3. QED BY <2>1, <2>2 DEF Focus, Sound
<1>2. /\ v \in AppRows /\ v.first = old.first /\ v.last = old.last
      /\ v.half = old.half /\ v.days = old.days /\ v.status = s /\ old.days \in Nat
  BY <1>1, AppTyped DEF AppRows
<1>3. apps' = [apps EXCEPT ![i] = v]
  BY <1>1 DEF Sound
<1> HIDE DEF v
<1>4. Fits(v)
  BY <1>1, <1>2 DEF Fits
<1>5. Holds(v) => \A k \in Ids \ {i} : Holds(apps[k]) => ~Overlap(apps[k], v)
  <2> SUFFICES ASSUME Holds(v), NEW k \in Ids \ {i}, Holds(apps[k])
               PROVE  ~Overlap(apps[k], v)
    OBVIOUS
  <2>1. Holds(old)
    BY <1>2 DEF Holds
  <2>2. ~Overlap(apps[k], old)
    BY <1>1, <2>1 DEF Sound
  <2>3. QED BY <1>2, <2>2 DEF Overlap
<1>6. v # Nothing
  BY <1>2, NothingIsNone
<1>7. Worth(v) = IF s = "approved" THEN old.days ELSE 0
  BY <1>2, <1>6 DEF Worth, Counts
<1> HIDE DEF old
<1>8. Sound(apps')
  <2> HIDE DEF i
  <2>1. apps[i] # Nothing
    BY <1>1 DEF old
  <2>2. Sound([apps EXCEPT ![i] = v])
    BY <1>1, <1>2, <1>4, <1>5, <2>1, SoundWith
  <2>3. QED BY <1>3, <2>2
<1>9. /\ Days([apps EXCEPT ![i] = v]) = (Days(apps) - Worth(apps[i])) + Worth(v)
      /\ Worth(apps[i]) \in Nat /\ Worth(apps[i]) <= Days(apps)
  <2> HIDE DEF i
  <2>1. QED BY <1>1, <1>2, <1>4, DaysWith DEF Sound, old
<1>10. QED BY <1>1, <1>2, <1>3, <1>7, <1>8, <1>9 DEF old

LEMMA WriteCancelledFocus ==
    ASSUME Ind, NEW w \in Workers, Focus(w), WriteCancelled(w)
    PROVE  Focus(w)'
<1> DEFINE old == apps[job[w].id]
<1>1. /\ pc[w] = "writeCancelled" /\ pc[w] \in HasTarget /\ UNCHANGED row
      /\ row'.used = row.used /\ apps' = [apps EXCEPT ![job[w].id].status = "cancelled"]
  BY DEF WriteCancelled, HasTarget
<1>2. Holds(old) /\ seen[w].app = old
  BY <1>1 DEF Focus, Relies, HasTarget
<1>3. /\ Sound(apps') /\ old \in AppRows /\ old.days \in Nat /\ Fits(old)
      /\ Worth(old) \in Nat /\ Worth(old) <= Days(apps)
      /\ Days(apps') = (Days(apps) - Worth(old)) + 0
  BY <1>1, StatusWritten
<1>4. row.used = Days(apps) /\ Days(apps) \in Nat
  BY <1>1, FocusTyped, SettledFocus DEF Taking, Returning
<1>5. CASE old.status = "approved"
  <2>1. Worth(old) = old.days
    BY <1>2, <1>5 DEF Worth, Counts, Holds
  <2>2. Goto(w, "readForCredit") /\ UNCHANGED <<job, seen>>
    BY <1>2, <1>5 DEF WriteCancelled
  <2>3. pc'[w] = "readForCredit" /\ \A v \in Workers \ {w} : pc'[v] = "idle"
    BY <2>2, FocusTyped DEF Goto, Focus, Only
  <2>4. Owed(pc'[w], job'[w]) = 0 /\ Due(pc'[w], seen'[w]) = old.days
    BY <1>2, <2>2, <2>3 DEF Owed, Due, Taking, Returning
  <2>5. Relies(pc[w], job[w], seen[w])'
    <3>1. Fits(seen[w].app)'
      BY <1>2, <1>3, <2>2 DEF Fits
    <3>2. QED BY <2>3, <3>1 DEF Relies, Asking, HasBalance, Returning, HasTarget
  <2> HIDE DEF old
  <2>6. row'.used + 0 = Days(apps') + old.days
    BY <1>1, <1>3, <1>4, <2>1
  <2>7. QED BY <1>3, <2>3, <2>4, <2>5, <2>6, FocusAfter
<1>6. CASE old.status # "approved"
  <2>1. Worth(old) = 0
    BY <1>6 DEF Worth, Counts
  <2>2. Finish(w)
    BY <1>2, <1>6 DEF WriteCancelled
  <2> HIDE DEF old
  <2>3. row'.used = Days(apps')
    BY <1>1, <1>3, <1>4, <2>1
  <2>4. QED BY <1>3, <2>2, <2>3, Ends
<1>7. QED BY <1>5, <1>6

LEMMA WriteRejectedFocus ==
    ASSUME Ind, NEW w \in Workers, Focus(w), WriteRejected(w)
    PROVE  Focus(w)'
<1> DEFINE old == apps[job[w].id]
<1>1. /\ pc[w] = "writeRejected" /\ pc[w] \in HasTarget /\ UNCHANGED row /\ Finish(w)
      /\ row'.used = row.used /\ apps' = [apps EXCEPT ![job[w].id].status = "rejected"]
  BY DEF WriteRejected, HasTarget
<1>2. old.status = "pending"
  BY <1>1 DEF Focus, Relies
<1>3. Sound(apps') /\ Days(apps') = (Days(apps) - Worth(old)) + 0
  BY <1>1, StatusWritten
<1>4. Worth(old) = 0
  BY <1>2 DEF Worth, Counts
<1>5. row.used = Days(apps) /\ Days(apps) \in Nat
  BY <1>1, FocusTyped, SettledFocus DEF Taking, Returning
<1> HIDE DEF old
<1>6. row'.used = Days(apps')
  BY <1>1, <1>3, <1>4, <1>5
<1>7. QED BY <1>1, <1>3, <1>6, Ends

LEMMA ReadForApprovalFocus ==
    ASSUME Ind, NEW w \in Workers, Focus(w), ReadForApproval(w)
    PROVE  Focus(w)'
<1>1. /\ pc[w] = "readForApproval" /\ UNCHANGED <<apps, row>> /\ row'.used = row.used
      /\ pc[w] \notin Taking \cup Returning
  BY DEF ReadForApproval, tables, Taking, Returning
<1>2. CASE Finish(w)
  BY <1>1, <1>2, EndsAsIs
<1>3. CASE ~Finish(w)
  <2>1. /\ seen' = [seen EXCEPT ![w].row = row, ![w].attendance = attendance]
        /\ Goto(w, "commitApproval") /\ UNCHANGED job
    BY <1>3 DEF ReadForApproval
  <2>2. seen'[w].row = row /\ seen'[w].app = seen[w].app
    BY <2>1, ReadRowTyped DEF Reads, Ind, InHand
  <2>3. apps[job[w].id].status = "pending" /\ seen[w].app = apps[job[w].id]
    BY <1>1 DEF Focus, Relies, HasTarget
  <2>4. pc'[w] = "commitApproval"
    BY <2>1, FocusTyped DEF Goto
  <2>5. Relies(pc[w], job[w], seen[w])'
    BY <1>1, <2>1, <2>2, <2>3, <2>4 DEF Relies, Asking, HasBalance, Returning, HasTarget
  <2>6. QED BY <1>1, <2>1, <2>5, GoesOnFocus DEF Taking, Returning
<1>4. QED BY <1>2, <1>3

LEMMA CommitApprovalFocus ==
    ASSUME Ind, NEW w \in Workers, Focus(w), CommitApproval(w)
    PROVE  Focus(w)'
<1> DEFINE old == apps[job[w].id]
<1>1. /\ pc[w] = "commitApproval" /\ pc[w] \in HasTarget /\ Finish(w)
      /\ apps' = [apps EXCEPT ![job[w].id].status = "approved"]
  BY DEF CommitApproval, HasTarget
<1>2. old.status = "pending" /\ seen[w].app = old /\ seen[w].row.used = row.used
  BY <1>1 DEF Focus, Relies, HasTarget, HasBalance
<1>3. old \in AppRows
  BY <1>1, ReadRowTyped DEF Work, Target, HasId
<1>4. Holds(old)
  BY <1>2, <1>3, NothingIsNone DEF Holds
<1>5. Sound(apps') /\ Days(apps') = (Days(apps) - Worth(old)) + old.days /\ old.days \in Nat
  BY <1>1, <1>4, StatusWritten
<1>6. Worth(old) = 0
  BY <1>2 DEF Worth, Counts
<1>7. row.used = Days(apps) /\ Days(apps) \in Nat
  BY <1>1, FocusTyped, SettledFocus DEF Taking, Returning
<1>8. row'.used = row.used + old.days
  BY <1>2, FocusTyped DEF CommitApproval, BalanceRows
<1> HIDE DEF old
<1>9. row'.used = Days(apps')
  BY <1>5, <1>6, <1>7, <1>8
<1>10. QED BY <1>1, <1>5, <1>9, Ends

LEMMA FindApprovedFocus ==
    ASSUME Ind, NEW w \in Workers, Focus(w), FindApproved(w)
    PROVE  Focus(w)'
<1>1. /\ pc[w] = "findApproved" /\ UNCHANGED <<apps, row>> /\ row'.used = row.used
      /\ pc[w] \notin Taking \cup Returning
  BY DEF FindApproved, tables, Taking, Returning
<1>2. CASE Goto(w, "writeMark")
  <2>1. pc'[w] = "writeMark"
    BY <1>2, FocusTyped DEF Goto
  <2>2. Relies(pc[w], job[w], seen[w])'
    BY <2>1 DEF Relies, Asking, HasBalance, Returning, HasTarget
  <2>3. QED BY <1>1, <1>2, <2>2, GoesOnFocus DEF Taking, Returning
<1>3. CASE ~Goto(w, "writeMark")
  <2>1. PICK i \in Approved :
          /\ Goto(w, "reverse") /\ ReadApp(w, i)
          /\ job' = [job EXCEPT ![w] = [kind |-> "override", id |-> i,
                                date |-> job[w].date, mark |-> job[w].mark]]
    BY <1>3 DEF FindApproved
  <2>2. apps[i].status = "approved" /\ i \in Ids
    BY DEF Approved
  <2>3. seen'[w].app = apps[i]
    BY <2>1, <2>2, ReadRowTyped DEF ReadApp, Reads, Ind, InHand
  <2>4. job'[w].id = i
    BY <2>1, FocusTyped
  <2>5. pc'[w] = "reverse"
    BY <2>1, FocusTyped DEF Goto
  <2>6. RoomForPieces'
    BY <1>1 DEF Focus, Relies, RoomForPieces, Fresh
  <2>7. Relies(pc[w], job[w], seen[w])'
    BY <1>1, <2>2, <2>3, <2>4, <2>5, <2>6
       DEF Relies, Asking, HasBalance, Returning, HasTarget
  <2>8. QED BY <1>1, <2>1, <2>7, GoesOnFocus DEF Taking, Returning
<1>4. QED BY <1>2, <1>3

LEMMA WriteMarkFocus ==
    ASSUME Ind, NEW w \in Workers, Focus(w), WriteMark(w)
    PROVE  Focus(w)'
BY EndsAsIs DEF WriteMark, Taking, Returning

LEMMA ReverseFocus ==
    ASSUME Ind, NEW w \in Workers, Focus(w), Reverse(w), calm'
    PROVE  Focus(w)'
<1> DEFINE a == seen[w].app  id == job[w].id
<1>1. /\ pc[w] = "reverse" /\ Finish(w) /\ apps' = Split(id, a, job[w].date)
      /\ a.days >= Refund(a)
  BY DEF Reverse
<1>2. id \in Ids /\ a \in AppRows /\ job[w].date \in DatesOf(a)
  BY <1>1, ReadRowTyped DEF Work, HasId, HasTarget, HasApp
<1>3. apps[id] = a /\ a.status = "approved" /\ RoomForPieces /\ Sound(apps)
  BY <1>1 DEF Focus, Relies, HasTarget
<1>4. /\ Sound(apps') /\ Days(apps) \in Nat /\ Refund(a) <= Days(apps)
      /\ Days(apps') = Days(apps) - Refund(a)
  <2> HIDE DEF a, id
  <2>1. QED BY <1>1, <1>2, <1>3, SplitSound
<1>5. row.used = Days(apps) /\ Refund(a) \in Nat
  BY <1>1, <1>2, AppTyped, SettledFocus DEF Taking, Returning
<1>6. row'.used = NotBelow0(row.used - Refund(a))
  BY FocusTyped DEF Reverse, BalanceRows
<1> HIDE DEF a
<1>7. row'.used = Days(apps')
  BY <1>4, <1>5, <1>6 DEF NotBelow0
<1>8. QED BY <1>1, <1>4, <1>7, Ends

(***************************************************************************)
(* Arrivals, failures and the outside.                                     *)
(***************************************************************************)
\* The ids in use are the first ones, and the budget leaves two.
LEMMA RoomFound ==
    ASSUME Sound(apps), Cardinality({i \in Ids : apps[i] = Nothing}) >= 2
    PROVE  RoomForPieces
<1> DEFINE used == {i \in Ids : apps[i] # Nothing}
           c == Cardinality(used)
<1>1. IsFiniteSet(used) /\ c \in Nat
  BY IdsFinite, FS_Subset, FS_CardinalityType
<1>2. Cardinality(Ids) = MaxApps /\ MaxApps \in Nat
  BY FS_Interval, AppsOK DEF Ids
<1>3. c + 2 <= MaxApps
  <2> DEFINE free == {i \in Ids : apps[i] = Nothing}
  <2>1. IsFiniteSet(free) /\ Cardinality(free) \in Nat
    BY IdsFinite, FS_Subset, FS_CardinalityType
  <2>2. free = Ids \ used /\ used = Ids \cap used
    OBVIOUS
  <2>3. Cardinality(Ids \ used) = Cardinality(Ids) - Cardinality(Ids \cap used)
    BY IdsFinite, FS_Difference
  <2>4. Cardinality(free) = MaxApps - c
    BY <1>2, <2>2, <2>3
  <2> HIDE DEF c
  <2>5. QED BY <1>1, <1>2, <2>4
<1>4. \A i \in Ids : i > c => apps[i] = Nothing
  <2> SUFFICES ASSUME NEW i \in Ids, i > c, apps[i] # Nothing PROVE FALSE
    OBVIOUS
  <2>1. 1..i \subseteq used /\ i \in Nat
    <3>1. i \in Nat /\ \A k \in 1..i : k \in Ids /\ (k = i \/ k < i)
      BY AppsOK DEF Ids
    <3>2. QED BY <3>1 DEF Sound
  <2>2. Cardinality(1..i) = i
    BY <2>1, FS_Interval
  <2>3. i <= c
    BY <1>1, <2>1, <2>2, FS_Subset
  <2> HIDE DEF c
  <2>4. QED BY <1>1, <2>1, <2>3
<1>5. \A i \in Ids : i <= c => apps[i] # Nothing
  <2> SUFFICES ASSUME NEW i \in Ids, i <= c, apps[i] = Nothing PROVE FALSE
    OBVIOUS
  <2>1. used \subseteq 1..(i - 1)
    BY AppsOK DEF Ids, Sound
  <2>2. i \in Nat /\ i - 1 \in Nat
    BY AppsOK DEF Ids
  <2>3. IsFiniteSet(1..(i - 1)) /\ Cardinality(1..(i - 1)) = i - 1
    BY <2>2, FS_Interval
  <2>4. c <= i - 1
    BY <2>1, <2>3, FS_Subset
  <2> HIDE DEF c
  <2>5. QED BY <1>1, <2>2, <2>4
<1> HIDE DEF c
<1>6. c + 1 \in Ids /\ c + 2 \in Ids /\ (c + 1) + 1 = c + 2
  BY <1>1, <1>2, <1>3 DEF Ids
<1>7. Fresh(c + 1)
  <2>1. apps[c + 1] = Nothing
    BY <1>1, <1>4, <1>6
  <2>2. ASSUME NEW k \in 1..((c + 1) - 1) PROVE apps[k] # Nothing
    <3>1. k \in Ids /\ k <= c
      BY <1>1, <1>2, <1>3 DEF Ids
    <3>2. QED BY <1>5, <3>1
  <2>3. QED BY <2>1, <2>2 DEF Fresh
<1>8. apps[c + 2] = Nothing
  BY <1>1, <1>4, <1>6
<1>9. QED BY <1>6, <1>7, <1>8 DEF RoomForPieces

LEMMA ArriveFocus ==
    ASSUME Ind, SerialInv, NEW w \in Workers, NEW j \in Jobs, Arrive(w, j), calm'
    PROVE  Focus(w)'
<1> DEFINE s == Statement[j.kind]
<1>1. calm /\ (\A v \in Workers : pc[v] = "idle") /\ UNCHANGED <<apps, row, seen>>
  BY DEF Arrive, tables
<1>2. /\ Sound(apps) /\ row.used = Days(apps) /\ row.used \in Nat /\ Days(apps) \in Nat
      /\ w \in DOMAIN pc /\ w \in DOMAIN job /\ DOMAIN pc = Workers
  <2>1. PICK v \in Workers : Focus(v)
    BY <1>1 DEF SerialInv
  <2>2. pc[v] \notin Taking \cup Returning
    BY <1>1 DEF Taking, Returning
  <2>3. QED BY <2>1, <2>2, FocusTyped, SettledFocus DEF Focus
<1>3. /\ pc'[w] = s /\ job'[w] = j /\ \A v \in Workers \ {w} : pc'[v] = "idle"
  BY <1>1, <1>2 DEF Arrive, Goto
<1>4. /\ s \in {"checkBalance", "findOwn", "findActive", "findPending", "findApproved"}
      /\ s = "checkBalance" => j.kind = "apply"
      /\ s = "findOwn" => j.kind = "update"
      /\ s = "findApproved" => j.kind = "override"
  BY DEF Statement, Jobs
<1>5. s = "findApproved" => RoomForPieces
  <2> SUFFICES ASSUME s = "findApproved" PROVE RoomForPieces
    OBVIOUS
  <2>1. j # Nothing /\ j.kind = "override"
    BY <1>4, NothingIsNone
  <2>2. Inserts(j) = 2
    BY <2>1 DEF Inserts
  <2>3. WithinRowBudget(j)
    BY <2>2 DEF Arrive
  <2>4. Cardinality(Promised) \in Nat
    <3>1. IsFiniteSet(Workers \X (1..2))
      <4>1. \A b \in Int : IsFiniteSet(1..b)
        BY FS_Interval
      <4>2. 2 \in Int
        OBVIOUS
      <4>3. IsFiniteSet(1..2)
        BY <4>1, <4>2, Zenon
      <4>4. QED BY <4>3, WorkersFinite, FS_Product
    <3>2. Promised \subseteq Workers \X (1..2)
      BY DEF Promised
    <3>3. QED BY <3>1, <3>2, FS_Subset, FS_CardinalityType
  <2>5. Cardinality({i \in Ids : apps[i] = Nothing}) \in Nat
    BY IdsFinite, FS_Subset, FS_CardinalityType
  <2>6. Cardinality({i \in Ids : apps[i] = Nothing}) >= 2
    BY <2>2, <2>3, <2>4, <2>5 DEF WithinRowBudget
  <2>7. QED BY <1>2, <2>6, RoomFound
<1> HIDE DEF s
<1>6. RoomForPieces' <=> RoomForPieces
  BY <1>1 DEF RoomForPieces, Fresh
<1>7. Relies(pc[w], job[w], seen[w])'
  BY <1>3, <1>4, <1>5, <1>6 DEF Relies, Asking, HasBalance, Returning, HasTarget
<1>8. Owed(pc'[w], job'[w]) = 0 /\ Due(pc'[w], seen'[w]) = 0
  BY <1>3, <1>4 DEF Owed, Due, Taking, Returning
<1>9. row'.used + 0 = Days(apps') + 0
  BY <1>1, <1>2
<1>10. QED BY <1>1, <1>2, <1>3, <1>7, <1>8, <1>9, FocusAfter

LEMMA AbortFocus ==
    ASSUME Ind, NEW w \in Workers, Focus(w), Abort(w), calm'
    PROVE  Focus(w)'
<1>1. Finish(w) /\ UNCHANGED <<apps, row>> /\ pc[w] \notin Taking \cup Returning
  BY DEF Abort, tables, Taking, Returning
<1>2. QED BY <1>1, EndsAsIs

\* The clock, the punches and stuttering.
LEMMA OutsideFocus ==
    ASSUME NEW w \in Workers, Focus(w), UNCHANGED <<apps, row, pc, job, seen>>
    PROVE  Focus(w)'
<1>1. Relies(pc[w], job[w], seen[w])'
  BY DEF Focus, Relies, Clear, RoomForPieces, Fresh, Holds, Fits
<1>2. QED BY <1>1, FocusAfter DEF Focus, Only

LEMMA StepFocus ==
    ASSUME Ind, NEW w \in Workers, Focus(w), Step(w), calm'
    PROVE  Focus(w)'
BY CheckBalanceFocus, RolloverFocus, FindOverlapsFocus, InsertFocus, ReadForDeductFocus,
   WriteDeductFocus, FindOwnFocus, WriteUpdateFocus, FindActiveFocus, WriteCancelledFocus,
   ReadForCreditFocus, WriteCreditFocus, ClearAttendanceFocus, FindPendingFocus,
   ReadForApprovalFocus, CommitApprovalFocus, WriteRejectedFocus, FindApprovedFocus,
   WriteMarkFocus, ReverseFocus
   DEF Step

\* No step of a request is taken while idle, and none makes up for a request
\* that came too early.
LEMMA StepBusy ==
    ASSUME NEW w \in Workers, Step(w)
    PROVE  pc[w] # "idle" /\ (calm' => calm)
<1>1. CASE \/ CheckBalance(w) \/ Rollover(w) \/ FindOverlaps(w) \/ Insert(w)
           \/ ReadForDeduct(w) \/ WriteDeduct(w) \/ FindOwn(w) \/ WriteUpdate(w)
  BY <1>1 DEF CheckBalance, Rollover, FindOverlaps, Insert, ReadForDeduct, WriteDeduct,
     FindOwn, WriteUpdate
<1>2. CASE \/ FindActive(w) \/ WriteCancelled(w) \/ ReadForCredit(w) \/ WriteCredit(w)
           \/ ClearAttendance(w) \/ FindPending(w) \/ ReadForApproval(w)
  BY <1>2 DEF FindActive, WriteCancelled, ReadForCredit, WriteCredit, ClearAttendance,
     FindPending, ReadForApproval
<1>3. CASE CommitApproval(w) \/ WriteRejected(w) \/ FindApproved(w) \/ WriteMark(w)
  BY <1>3 DEF CommitApproval, WriteRejected, FindApproved, WriteMark
<1>4. CASE Reverse(w)
  BY <1>4 DEF Reverse
<1>5. QED BY <1>1, <1>2, <1>3, <1>4 DEF Step

LEMMA SerialNext == Ind /\ SerialInv /\ [Next]_vars => SerialInv'
<1> SUFFICES ASSUME Ind, SerialInv, [Next]_vars, calm'
             PROVE  \E w \in Workers : Focus(w)'
  BY DEF SerialInv
<1>1. ASSUME NEW w \in Workers, NEW j \in Jobs, Arrive(w, j) PROVE Focus(w)'
  BY <1>1, ArriveFocus
<1>2. ASSUME NEW w \in Workers, Step(w) PROVE Focus(w)'
  <2>1. pc[w] # "idle" /\ calm
    BY <1>2, StepBusy
  <2>2. PICK v \in Workers : Focus(v)
    BY <2>1 DEF SerialInv
  <2>3. v = w
    BY <2>1, <2>2, FocusTyped
  <2>4. QED BY <1>2, <2>2, <2>3, StepFocus
<1>3. ASSUME NEW w \in Workers, Abort(w) PROVE Focus(w)'
  <2>1. pc[w] # "idle" /\ calm
    BY <1>3 DEF Abort
  <2>2. PICK v \in Workers : Focus(v)
    BY <2>1 DEF SerialInv
  <2>3. v = w
    BY <2>1, <2>2, FocusTyped
  <2>4. QED BY <1>3, <2>2, <2>3, AbortFocus
<1>4. CASE UNCHANGED <<apps, row, pc, job, seen, calm>>
  <2>1. PICK v \in Workers : Focus(v)
    BY <1>4 DEF SerialInv
  <2>2. QED BY <1>4, <2>1, OutsideFocus
<1>5. CASE Midnight \/ Punch \/ UNCHANGED vars
  BY <1>4, <1>5 DEF Midnight, Punch, vars, tables
<1>6. QED BY <1>1, <1>2, <1>3, <1>5 DEF Next

LEMMA SerialInit == Init => SerialInv
<1> SUFFICES ASSUME Init PROVE \E w \in Workers : Focus(w)
  BY DEF SerialInv
<1>1. PICK w \in Workers : TRUE
  BY WorkersFinite
<1>2. Sound(apps)
  BY DEF Init, Sound, Holds
<1>3. Days(apps) = 0
  <2>1. {x \in Ids \X HalfDays : Counts(apps[x[1]]) /\ x[2] <= apps[x[1]].days} = {}
    BY DEF Init, Counts
  <2>2. QED BY <2>1, FS_EmptySet DEF Days
<1>4. Relies(pc[w], job[w], seen[w])
  BY DEF Init, Relies, Asking, HasBalance, Returning, HasTarget
<1>5. Owed(pc[w], job[w]) = 0 /\ Due(pc[w], seen[w]) = 0 /\ row.used = 0
  BY DEF Init, Owed, Due, Taking, Returning
<1>6. QED BY <1>2, <1>3, <1>4, <1>5 DEF Focus, Only, Init

THEOREM SerialInductive == Spec => []SerialInv
BY Inductive, SerialInit, SerialNext, PTL DEF Spec

\* What is still to take and to return is of the request in flight alone.
LEMMA FocusMeans ==
    ASSUME Ind, NEW w \in Workers, Focus(w)
    PROVE  /\ row.used + Cardinality(ToTake) = ApprovedDays + Cardinality(ToReturn)
           /\ NoOverlap
<1>1. ApprovedDays = Days(apps)
  <2>1. HalfDaysOf(Approved) =
          {x \in Ids \X HalfDays : Counts(apps[x[1]]) /\ x[2] <= apps[x[1]].days}
    BY DEF HalfDaysOf, Approved, Counts
  <2>2. QED BY <2>1 DEF ApprovedDays, Days
<1>2. ASSUME NEW p \in [Workers -> BOOLEAN], \A v \in Workers : p[v] => v = w,
             NEW days, p[w] => days[w] \in Nat /\ 1..days[w] \subseteq HalfDays
      PROVE  Cardinality({x \in Workers \X HalfDays : p[x[1]] /\ x[2] <= days[x[1]]})
               = IF p[w] THEN days[w] ELSE 0
  <2> DEFINE pairs == {x \in Workers \X HalfDays : p[x[1]] /\ x[2] <= days[x[1]]}
  <2>1. CASE p[w]
    <3> DEFINE n == days[w]
    <3>1. ASSUME NEW v \in Workers, NEW h \in HalfDays
          PROVE  <<v, h>> \in pairs <=> <<v, h>> \in {w} \X (1..n)
      <4>1. h \in Nat \ {0} /\ n \in Nat
        BY <1>2, <2>1, DatesOK DEF HalfDays
      <4>2. QED BY <1>2, <2>1, <4>1
    <3>2. pairs \subseteq Workers \X HalfDays /\ {w} \X (1..n) \subseteq Workers \X HalfDays
      BY <1>2, <2>1
    <3>3. pairs = {w} \X (1..n)
      <4> HIDE DEF pairs, n
      <4>1. QED BY <3>1, <3>2
    <3>4. n \in Nat
      BY <1>2, <2>1
    <3> HIDE DEF pairs, n
    <3>5. Cardinality(pairs) = n
      BY <3>3, <3>4, PairsCount
    <3>6. QED BY <2>1, <3>5 DEF pairs, n
  <2>2. CASE ~p[w]
    <3>1. pairs = {}
      BY <1>2, <2>2
    <3>2. QED BY <2>2, <3>1, FS_EmptySet
  <2>3. QED BY <2>1, <2>2
<1>3. Cardinality(ToTake) = Owed(pc[w], job[w])
  <2> DEFINE p == [v \in Workers |-> pc[v] \in Taking]
             days == [v \in Workers |-> job[v].request.days]
  <2>1. \A v \in Workers : p[v] => v = w
    BY FocusTyped DEF Taking
  <2>2. p[w] => days[w] \in Nat /\ 1..days[w] \subseteq HalfDays
    <3>1. p[w] => job[w].request \in Requests
      BY ReadRowTyped DEF Work, Taking, HasRequest
    <3>2. QED BY <3>1, RequestFits
  <2>3. ToTake = {x \in Workers \X HalfDays : p[x[1]] /\ x[2] <= days[x[1]]}
    BY DEF ToTake, Taking
  <2>4. p \in [Workers -> BOOLEAN]
    OBVIOUS
  <2>5. Owed(pc[w], job[w]) = IF p[w] THEN days[w] ELSE 0
    BY DEF Owed
  <2> HIDE DEF p, days
  <2>6. QED BY <1>2, <2>1, <2>2, <2>3, <2>4, <2>5
<1>4. Cardinality(ToReturn) = Due(pc[w], seen[w])
  <2> DEFINE p == [v \in Workers |-> pc[v] \in Returning]
             days == [v \in Workers |-> seen[v].app.days]
  <2>1. \A v \in Workers : p[v] => v = w
    BY FocusTyped DEF Returning
  <2>2. p[w] => days[w] \in Nat /\ 1..days[w] \subseteq HalfDays
    <3>1. p[w] => seen[w].app \in AppRows /\ Fits(seen[w].app)
      BY ReadRowTyped DEF Work, Returning, HasApp, Focus, Relies
    <3>2. QED BY <3>1, FitsYear
  <2>3. ToReturn = {x \in Workers \X HalfDays : p[x[1]] /\ x[2] <= days[x[1]]}
    BY DEF ToReturn, Returning
  <2>4. p \in [Workers -> BOOLEAN]
    OBVIOUS
  <2>5. Due(pc[w], seen[w]) = IF p[w] THEN days[w] ELSE 0
    BY DEF Due
  <2> HIDE DEF p, days
  <2>6. QED BY <1>2, <2>1, <2>2, <2>3, <2>4, <2>5
<1>5. NoOverlap
  BY DEF Focus, Sound, NoOverlap, Live, Holds
<1>6. QED BY <1>1, <1>3, <1>4, <1>5 DEF Focus

\* As long as requests come one at a time, none fails between its two writes
\* and no override refunds more than its leave has left, the balance row's used
\* days are those of the approved leaves, but for what the one request in
\* flight still has to take or give back.
THEOREM LeaveSerialExact == Spec => []SerialExact
<1>1. Ind /\ SerialInv => SerialExact
  BY FocusMeans DEF SerialInv, SerialExact
<1>2. QED BY <1>1, Inductive, SerialInductive, PTL

\* Under the same conditions no two pending or approved leaves ever cover the
\* same half-day, though updateLeave writes dates without a check of its own
\* and an override writes up to two leaves in the place of one.
THEOREM LeaveSerialNoOverlap == Spec => []SerialNoOverlap
<1>1. Ind /\ SerialInv => SerialNoOverlap
  BY FocusMeans DEF SerialInv, SerialNoOverlap
<1>2. QED BY <1>1, Inductive, SerialInductive, PTL
=============================================================================
