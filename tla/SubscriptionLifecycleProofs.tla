--------------------- MODULE SubscriptionLifecycleProofs ---------------------
(***************************************************************************)
(* Proofs about SubscriptionLifecycle, for every set of subscriptions,     *)
(* number of requests, length and limit.  A cancellation holds because     *)
(* whatever was in flight about the row was none, and nothing selects a    *)
(* cancelled row any more; the verdict of the enforcement holds because    *)
(* what its plan has still to do and what is done agree with the limits    *)
(* row by row, through both passes.                                        *)
(***************************************************************************)
EXTENDS SubscriptionLifecycle, FiniteSetTheorems, TLAPS

\* Requests, notices and calls are about the subscriptions edited.
ScopeOK ==
    /\ mapped \subseteq Edited /\ telling \subseteq Edited
    /\ \A w \in Workers : job[w] # NoJob => job[w].sub \in Edited

\* Nothing at work would still write to a subscription that is settled.
SettledOK ==
    \A s \in settled :
        /\ row[s].status = "cancelled"
        /\ s \notin Range(expiring)
        /\ enforcer.plan[s] = NoWrite /\ dunner.plan[s] = NoWrite
        /\ \A w \in Workers : job[w].kind = "convert" => job[w].sub # s

\* What an undisturbed enforcement has done to a row, and what it will do.
Handled(s) ==
    LET o == Overdue(row[s], enforcer.day) IN
    /\ enforcer.plan[s] # NoWrite =>
         \/ o >= Deactivate /\ enforcer.plan[s].status = "deactivated"
         \/ o < Deactivate  /\ enforcer.plan[s].status = "suspended"
    /\ enforcer.plan[s] = NoWrite =>
         /\ o >= Deactivate => row[s].status \notin Collected
         /\ o >= Suspend => row[s].status # "active"
         /\ o >= Suspend /\ enforcer.pass = 2 => row[s].status # "past_due"

EnforceOK == quiet = "enforce" /\ enforcer.pass # 0 => \A s \in mapped : Handled(s)

IInv == TypeOK /\ ScopeOK /\ SettledOK /\ EnforceOK

-----------------------------------------------------------------------------
LEMMA JobFacts ==
    ASSUME NEW j \in Jobs
    PROVE  /\ j # NoJob => /\ j.sub \in Subs
                           /\ j.kind \in {"insert", "reactivate", "update", "convert"}
                           /\ j.kind \in {"insert", "reactivate"} => j.to \in {"active", "trial"}
                           /\ j.kind = "update" => j.to \in BodyStatuses
           /\ j.kind # "idle" => j # NoJob
           /\ NoJob \in Jobs
    BY DEF Jobs, NoJob

LEMMA StatusFacts ==
    /\ BodyStatuses \subseteq Statuses /\ AdminStatuses \subseteq Statuses
    /\ Collected \subseteq Statuses
    /\ {"none", "active", "trial", "past_due", "cancelled", "suspended",
        "deactivated"} \subseteq Statuses
    /\ "cancelled" \notin Collected
    BY DEF BodyStatuses, AdminStatuses, Statuses, Collected

LEMMA NumberFacts ==
    ASSUME TypeOK
    PROVE  /\ today \in Nat /\ LastDay \in Nat
           /\ TrialDays \in Nat /\ Period \in Nat /\ Grace \in Nat
           /\ Warn \in Nat /\ Suspend \in Nat /\ Deactivate \in Nat
           /\ 1 < Warn /\ Warn < Suspend /\ Suspend < Deactivate
    BY LengthsOK, ThresholdsOK, BoundsOK DEF TypeOK

\* A row whose status is set keeps the rest.
LEMMA StatusSet ==
    ASSUME row \in [Subs -> Rows], NEW s \in Subs, NEW t \in Statuses,
           row' = [row EXCEPT ![s].status = t]
    PROVE  /\ row' \in [Subs -> Rows] /\ row'[s].status = t
           /\ \A x \in Subs \ {s} : row'[x] = row[x]
    <1>1. PICK r : r = [row[s] EXCEPT !.status = t]
      OBVIOUS
    <1>2. r \in Rows /\ r.status = t
      <2>1. row[s] \in Rows
        OBVIOUS
      <2> QED BY <1>1, <2>1 DEF Rows
    <1>3. row' = [row EXCEPT ![s] = r]
      BY <1>1
    <1> QED BY <1>2, <1>3

LEMMA RowSet ==
    ASSUME row \in [Subs -> Rows], NEW s \in Subs, NEW r \in Rows,
           row' = [row EXCEPT ![s] = r]
    PROVE  /\ row' \in [Subs -> Rows] /\ row'[s] = r
           /\ \A x \in Subs \ {s} : row'[x] = row[x]
    OBVIOUS

LEMMA ConvertedTyped ==
    ASSUME TypeOK, NEW r \in Rows
    PROVE  Converted(r) \in Rows
    <1>1. PICK e : e = today + Period
      OBVIOUS
    <1>2. e \in Nat /\ NoDay \in Nat /\ "active" \in Statuses
      BY <1>1, NumberFacts, StatusFacts DEF NoDay
    <1>3. Converted(r) = [r EXCEPT !.status = "active", !.trialEnds = NoDay,
                                   !.periodEnd = e]
      BY <1>1 DEF Converted
    <1> QED BY <1>2, <1>3 DEF Rows

LEMMA SubscribedTyped ==
    ASSUME TypeOK, NEW to \in {"active", "trial"}, NEW k \in Stages
    PROVE  Subscribed(to, today, k) \in Rows
    BY NumberFacts, StatusFacts DEF Subscribed, Rows, NoDay

LEMMA OverdueInt ==
    ASSUME TypeOK, NEW r \in Rows, NEW day \in Nat
    PROVE  Overdue(r, day) \in Int
    BY NumberFacts DEF Overdue, Rows

LEMMA WrittenTyped ==
    ASSUME NEW r \in Rows, NEW wr \in Writes
    PROVE  /\ Written(r, wr) \in Rows
           /\ Written(r, wr).periodEnd = r.periodEnd
           /\ wr.status # "keep" => Written(r, wr).status = wr.status
    <1>1. PICK t : t = (IF wr.status = "keep" THEN r.status ELSE wr.status)
      OBVIOUS
    <1>2. PICK k : k = (IF wr.stage = 0 THEN r.stage ELSE wr.stage)
      OBVIOUS
    <1>3. t \in Statuses /\ k \in Stages
      BY <1>1, <1>2 DEF Rows, Writes, Statuses, AdminStatuses, BodyStatuses
    <1>4. PICK n : n = [r EXCEPT !.status = t, !.stage = k]
      OBVIOUS
    <1>5. n = Written(r, wr)
      BY <1>1, <1>2, <1>4 DEF Written
    <1>6. n \in Rows /\ n.periodEnd = r.periodEnd /\ n.status = t
      BY <1>3, <1>4 DEF Rows
    <1> HIDE DEF Written
    <1> QED BY <1>1, <1>5, <1>6

LEMMA NoWriteTyped == NoWrite \in Writes /\ NoWrite.status = "keep" /\ NoWrite.stage = 0
    BY DEF NoWrite, Writes, Stages

LEMMA EnforcedTyped ==
    ASSUME TypeOK, NEW r \in Rows, NEW day \in Nat, NEW pass
    PROVE  LET o  == Overdue(r, day)
               wr == Enforced(r, day, pass) IN
           /\ wr \in Writes
           /\ o >= Deactivate => wr # NoWrite /\ wr.status = "deactivated"
           /\ o < Deactivate /\ wr # NoWrite => wr.status = "suspended"
           /\ wr = NoWrite => o < Deactivate
           /\ wr = NoWrite /\ o >= Suspend => pass # 2 /\ r.status # "active"
    <1>1. PICK o : o = Overdue(r, day)
      OBVIOUS
    <1>2. o \in Int /\ Deactivate \in Int /\ Suspend \in Int
      BY <1>1, OverdueInt, NumberFacts
    <1>3. PICK wr : wr = Enforced(r, day, pass)
      OBVIOUS
    <1>4. PICK de : de = [NoWrite EXCEPT !.status = "deactivated"]
      OBVIOUS
    <1>5. PICK su : su = [NoWrite EXCEPT !.status = "suspended"]
      OBVIOUS
    <1>6. /\ de \in Writes /\ de # NoWrite /\ de.status = "deactivated"
          /\ su \in Writes /\ su # NoWrite /\ su.status = "suspended"
      BY <1>4, <1>5 DEF NoWrite, Writes, Stages
    <1>7. wr = IF o >= Deactivate THEN de
               ELSE IF o >= Suspend /\ (pass = 2 \/ r.status = "active") THEN su
               ELSE NoWrite
      BY <1>1, <1>3, <1>4, <1>5 DEF Enforced
    <1> HIDE DEF Enforced, Overdue
    <1> QED BY <1>1, <1>2, <1>3, <1>6, <1>7, NoWriteTyped

\* A dunning stage is one of five.
LEMMA TargetStageTyped == ASSUME NEW o PROVE TargetStage(o) \in Stages
    <1> DEFINE A == {1, Warn}  B == A \cup {Suspend}  C == B \cup {Deactivate}
               T == {t \in {1, Warn, Suspend, Deactivate} : t <= o}
    <1>1. IsFiniteSet({1}) /\ Cardinality({1}) = 1
      BY FS_Singleton
    <1>2. IsFiniteSet(A) /\ Cardinality(A) \in {1, 2}
      <2>1. A = {1} \cup {Warn}
        OBVIOUS
      <2> QED BY <1>1, <2>1, FS_AddElement
    <1>3. IsFiniteSet(B) /\ Cardinality(B) \in {1, 2, 3}
      BY <1>2, FS_AddElement
    <1>4. IsFiniteSet(C) /\ Cardinality(C) \in 1 .. 4
      BY <1>3, FS_AddElement
    <1>5. T \in SUBSET C
      OBVIOUS
    <1>6. IsFiniteSet(T) /\ Cardinality(T) <= Cardinality(C)
      BY <1>4, <1>5, FS_Subset
    <1>7. Cardinality(T) \in Nat
      BY <1>6, FS_CardinalityType
    <1> HIDE DEF T, C
    <1>8. Cardinality(T) \in 0 .. 4
      BY <1>4, <1>6, <1>7
    <1> QED BY <1>8 DEF TargetStage, Stages, T

LEMMA DunnedTyped ==
    ASSUME NEW r \in Rows, NEW day
    PROVE  Dunned(r, day) \in Writes
    <1>1. PICK to : to = TargetStage(Overdue(r, day))
      OBVIOUS
    <1>2. to \in Stages
      BY <1>1, TargetStageTyped
    <1>3. PICK st : st = (CASE to = 4 -> "deactivated"
                            [] to = 3 -> "suspended"
                            [] OTHER  -> IF r.status = "active" THEN "past_due"
                                                                ELSE "keep")
      OBVIOUS
    <1>4. st \in {"keep", "past_due", "suspended", "deactivated"}
      BY <1>3
    <1>5. Dunned(r, day) = IF to <= r.stage THEN NoWrite ELSE [stage |-> to, status |-> st]
      BY <1>1, <1>3 DEF Dunned
    <1>6. [stage |-> to, status |-> st] \in Writes
      BY <1>2, <1>4 DEF Writes
    <1> QED BY <1>5, <1>6, NoWriteTyped

LEMMA IdleTyped == Idle \in Sweeps /\ Idle.pass = 0 /\ \A s \in Subs : Idle.plan[s] = NoWrite
    BY NoWriteTyped DEF Idle, Sweeps, NoDay

-----------------------------------------------------------------------------
\* A step that leaves the enforcement's rows alone, or ends its quiet.
LEMMA EnforceStands ==
    ASSUME EnforceOK, \/ quiet' # "enforce"
                      \/ UNCHANGED <<row, mapped, enforcer, quiet>>
    PROVE  EnforceOK'
    BY DEF EnforceOK, Handled, Overdue

\* A step that writes to no settled row and leaves nothing new in flight.
LEMMA SettledStands ==
    ASSUME SettledOK, settled' \subseteq settled,
           \A s \in settled' :
              /\ row'[s] = row[s]
              /\ s \in Range(expiring') => s \in Range(expiring)
              /\ enforcer'.plan[s] \in {enforcer.plan[s], NoWrite}
              /\ dunner'.plan[s] \in {dunner.plan[s], NoWrite}
              /\ \A w \in Workers : job'[w].kind = "convert" /\ job'[w].sub = s
                                      => job[w].kind = "convert" /\ job[w].sub = s
    PROVE  SettledOK'
    <1> SUFFICES ASSUME NEW s \in settled'
                 PROVE  /\ row'[s].status = "cancelled"
                        /\ s \notin Range(expiring')
                        /\ enforcer'.plan[s] = NoWrite /\ dunner'.plan[s] = NoWrite
                        /\ \A w \in Workers : job'[w].kind = "convert" => job'[w].sub # s
      BY DEF SettledOK, Range, NoWrite
    <1> QED BY DEF SettledOK

LEMMA ScopeStands ==
    ASSUME ScopeOK, mapped' \subseteq Edited, telling' \subseteq Edited,
           \A w \in Workers : \/ job'[w] = job[w] \/ job'[w] = NoJob
                              \/ job'[w].sub \in Edited
    PROVE  ScopeOK'
    BY DEF ScopeOK, NoJob

-----------------------------------------------------------------------------
LEMMA InitIInv == Init => IInv
    <1> SUFFICES ASSUME Init PROVE IInv
      OBVIOUS
    <1>1. NoRow \in Rows /\ EndingTrial \in Rows
      BY StatusFacts DEF NoRow, EndingTrial, Rows, Stages, NoDay, Statuses, AdminStatuses,
                         BodyStatuses
    <1>1b. EndingPeriod \in Rows /\ EndingPeriod.status = "active"
      <2>1. PICK r \in Rows : r = EndingTrial
        BY <1>1
      <2>2. EndingPeriod = [r EXCEPT !.status = "active", !.trialEnds = NoDay]
        BY <2>1 DEF EndingPeriod
      <2>3. "active" \in Statuses /\ NoDay \in Nat
        BY StatusFacts DEF NoDay
      <2> QED BY <2>2, <2>3 DEF Rows
    <1>1c. EndingTrial.status = "trial" /\ EndingPeriod.status = "active"
      BY <1>1b DEF EndingTrial
    <1>2. TypeOK
      <2>1. today \in 1 .. LastDay /\ edits \in 0 .. MaxEdits
        BY BoundsOK DEF Init
      <2>2. row \in [Subs -> Rows] /\ mapped \subseteq Subs
        BY <1>1, <1>1b DEF Init
      <2>3. job \in [Workers -> Jobs]
        BY DEF Init, Jobs
      <2> QED BY <2>1, <2>2, <2>3, IdleTyped DEF Init, TypeOK
    <1>3. ScopeOK
      BY <1>1c DEF Init, ScopeOK
    <1>4. SettledOK /\ EnforceOK
      BY DEF Init, SettledOK, EnforceOK
    <1> QED BY <1>2, <1>3, <1>4 DEF IInv

-----------------------------------------------------------------------------
LEMMA EditBound == ASSUME TypeOK, Edit PROVE edits' \in 0 .. MaxEdits
    BY BoundsOK DEF TypeOK, Edit

\* A request that only decides.
LEMMA DecidesKeeps ==
    ASSUME IInv, NEW w \in Workers, NEW j \in Jobs, job' = [job EXCEPT ![w] = j],
           j # NoJob => j.sub \in Edited,
           j.kind = "convert" => j.sub \notin settled,
           edits' \in 0 .. MaxEdits,
           UNCHANGED <<today, row, mapped, telling, sweepVars, settled, quiet>>
    PROVE  IInv'
    <1>0. /\ TypeOK /\ ScopeOK /\ SettledOK /\ EnforceOK
          /\ UNCHANGED <<expiring, enforcer, dunner>>
      BY DEF IInv, sweepVars
    <1>1. /\ job' \in [Workers -> Jobs] /\ job'[w] = j
          /\ \A x \in Workers \ {w} : job'[x] = job[x]
      BY <1>0 DEF TypeOK
    <1>2. TypeOK'
      BY <1>0, <1>1 DEF TypeOK
    <1>3. ScopeOK'
      BY <1>0, <1>1, ScopeStands DEF ScopeOK
    <1>4. SettledOK'
      BY <1>0, <1>1, SettledStands
    <1>5. EnforceOK'
      BY <1>0, EnforceStands
    <1> QED BY <1>2, <1>3, <1>4, <1>5 DEF IInv

LEMMA BeginCreateKeeps ==
    ASSUME IInv, NEW w \in Workers, NEW s \in Edited, NEW to \in {"active", "trial"},
           BeginCreate(w, s, to)
    PROVE  IInv'
    <1>1. PICK k \in {"insert", "reactivate"} :
             job' = [job EXCEPT ![w] = [kind |-> k, sub |-> s, to |-> to]]
      BY DEF BeginCreate
    <1>2. PICK j : j = [kind |-> k, sub |-> s, to |-> to]
      OBVIOUS
    <1>3. j \in Jobs /\ j.sub \in Edited /\ j.kind # "convert"
      BY <1>1, <1>2, SubsOK DEF Jobs
    <1>4. edits' \in 0 .. MaxEdits
      BY EditBound DEF IInv, BeginCreate
    <1> QED BY <1>1, <1>2, <1>3, <1>4, DecidesKeeps DEF BeginCreate

LEMMA BeginUpdateKeeps ==
    ASSUME IInv, NEW w \in Workers, NEW s \in Edited, BeginUpdate(w, s)
    PROVE  IInv'
    <1>1. edits' \in 0 .. MaxEdits
      BY EditBound DEF IInv, BeginUpdate
    <1>2. ASSUME row[s].status = "trial",
                 job' = [job EXCEPT ![w] = [kind |-> "convert", sub |-> s, to |-> "active"]]
          PROVE  IInv'
      <2>1. PICK j : j = [kind |-> "convert", sub |-> s, to |-> "active"]
        OBVIOUS
      <2>2. j \in Jobs /\ j.sub \in Edited
        BY <2>1, SubsOK DEF Jobs
      <2>3. j.sub \notin settled
        BY <1>2, <2>1 DEF IInv, SettledOK
      <2> QED BY <1>1, <1>2, <2>1, <2>2, <2>3, DecidesKeeps DEF BeginUpdate
    <1>3. ASSUME NEW to \in BodyStatuses,
                 job' = [job EXCEPT ![w] = [kind |-> "update", sub |-> s, to |-> to]]
          PROVE  IInv'
      <2>1. PICK j : j = [kind |-> "update", sub |-> s, to |-> to]
        OBVIOUS
      <2>2. j \in Jobs /\ j.sub \in Edited /\ j.kind # "convert"
        BY <2>1, SubsOK DEF Jobs
      <2> QED BY <1>1, <1>3, <2>1, <2>2, DecidesKeeps DEF BeginUpdate
    <1> QED BY <1>2, <1>3 DEF BeginUpdate

LEMMA GiveUpKeeps ==
    ASSUME IInv, NEW w \in Workers, GiveUp(w)
    PROVE  IInv'
    <1>1. PICK j : j = NoJob
      OBVIOUS
    <1>2. j \in Jobs /\ j.kind # "convert" /\ edits' \in 0 .. MaxEdits
      BY <1>1 DEF Jobs, NoJob, GiveUp, IInv, TypeOK
    <1> QED BY <1>1, <1>2, DecidesKeeps DEF GiveUp

\* A statement of a request: it writes one row, which is not settled any more,
\* or was not.
LEMMA WritesKeeps ==
    ASSUME IInv, NEW s \in Edited, NEW r \in Rows, row' = [row EXCEPT ![s] = r],
           job' \in [Workers -> Jobs],
           \A w \in Workers : job'[w] = job[w] \/ job'[w] = NoJob,
           telling' \subseteq telling \cup {s},
           settled' \subseteq settled \ {s}, quiet' = "none",
           edits' \in 0 .. MaxEdits,
           UNCHANGED <<today, mapped, sweepVars>>
    PROVE  IInv'
    <1>0. /\ TypeOK /\ ScopeOK /\ SettledOK /\ EnforceOK
          /\ UNCHANGED <<expiring, enforcer, dunner>> /\ s \in Subs
      BY SubsOK DEF IInv, sweepVars
    <1>1. /\ row' \in [Subs -> Rows] /\ \A x \in Subs \ {s} : row'[x] = row[x]
      BY <1>0, RowSet DEF TypeOK
    <1>2. TypeOK'
      BY <1>0, <1>1 DEF TypeOK
    <1>3. ScopeOK'
      BY <1>0, ScopeStands DEF ScopeOK
    <1>4. SettledOK'
      <2>1. settled' \subseteq Subs \ {s}
        BY <1>0 DEF TypeOK
      <2>2. \A w \in Workers : job'[w].kind = "convert" => job'[w] = job[w]
        BY DEF NoJob
      <2> QED BY <1>0, <1>1, <2>1, <2>2, SettledStands
    <1>5. EnforceOK'
      BY <1>0, EnforceStands
    <1> QED BY <1>2, <1>3, <1>4, <1>5 DEF IInv

LEMMA JobEnds ==
    ASSUME TypeOK, NEW w \in Workers, job' = [job EXCEPT ![w] = NoJob]
    PROVE  /\ job' \in [Workers -> Jobs]
           /\ \A x \in Workers : job'[x] = job[x] \/ job'[x] = NoJob
    BY JobFacts DEF TypeOK

LEMMA CreateKeeps ==
    ASSUME IInv, NEW w \in Workers, Create(w)
    PROVE  IInv'
    <1>1. PICK s : s = job[w].sub
      OBVIOUS
    <1>2. TypeOK /\ job[w] # NoJob /\ s \in Edited /\ s \in Subs
          /\ job[w].to \in {"active", "trial"}
      <2>1. job[w] \in Jobs /\ job[w].kind \in {"insert", "reactivate"}
        BY DEF IInv, TypeOK, Create
      <2>2. job[w] # NoJob
        BY <2>1, JobFacts
      <2> QED BY <1>1, <2>1, <2>2, JobFacts, SubsOK DEF IInv, ScopeOK
    <1>3. PICK r : r = Subscribed(job[w].to, today, row[s].stage)
      OBVIOUS
    <1>4. r \in Rows
      <2>1. row[s].stage \in Stages
        BY <1>2 DEF TypeOK, Rows
      <2> QED BY <1>2, <1>3, <2>1, SubscribedTyped
    <1>5. row' = [row EXCEPT ![s] = r] /\ telling' \subseteq telling \cup {s}
          /\ settled' = settled \ {s}
      BY <1>1, <1>3 DEF Create
    <1>6. edits' \in 0 .. MaxEdits
      BY <1>2 DEF TypeOK, Create
    <1>7. /\ job' \in [Workers -> Jobs]
          /\ \A x \in Workers : job'[x] = job[x] \/ job'[x] = NoJob
      BY <1>2, JobEnds DEF Create
    <1> QED BY <1>2, <1>4, <1>5, <1>6, <1>7, WritesKeeps DEF Create

LEMMA UpdateKeeps ==
    ASSUME IInv, NEW w \in Workers, Update(w)
    PROVE  IInv'
    <1>1. PICK s : s = job[w].sub
      OBVIOUS
    <1>2. TypeOK /\ s \in Edited /\ s \in Subs /\ row[s] \in Rows
          /\ job[w].kind \in {"convert", "update"}
          /\ (job[w].kind = "update" => job[w].to \in BodyStatuses)
      <2>1. job[w] \in Jobs /\ job[w].kind \in {"convert", "update"}
        BY DEF IInv, TypeOK, Update
      <2>2. job[w] # NoJob
        BY <2>1, JobFacts
      <2>3. s \in Edited /\ s \in Subs
        BY <1>1, <2>1, <2>2, SubsOK DEF IInv, ScopeOK
      <2> QED BY <1>1, <2>1, <2>2, <2>3, JobFacts DEF IInv, TypeOK
    <1>3. PICK r : r = IF job[w].kind = "convert" THEN Converted(row[s])
                       ELSE [row[s] EXCEPT !.status = job[w].to]
      OBVIOUS
    <1>4. r \in Rows
      <2>1. CASE job[w].kind = "convert"
        BY <1>2, <1>3, <2>1, ConvertedTyped
      <2>2. CASE job[w].kind = "update"
        <3>1. job[w].to \in Statuses
          BY <1>2, <2>2, StatusFacts
        <3>2. r = [row[s] EXCEPT !.status = job[w].to]
          BY <1>3, <2>2
        <3> QED BY <1>2, <3>1, <3>2 DEF Rows
      <2> QED BY <1>2, <2>1, <2>2
    <1>5. row' = [row EXCEPT ![s] = r]
      BY <1>1, <1>3 DEF Update
    <1>6. settled' \subseteq settled \ {s}
      <2>1. CASE job[w].kind = "convert"
        <3>1. s \notin settled
          BY <1>1, <2>1 DEF IInv, SettledOK
        <3> QED BY <2>1, <3>1 DEF Update
      <2>2. CASE job[w].kind = "update"
        BY <1>1, <2>2 DEF Update
      <2> QED BY <1>2, <2>1, <2>2
    <1>7. edits' \in 0 .. MaxEdits /\ telling' = telling
      BY <1>2 DEF TypeOK, Update
    <1>8. /\ job' \in [Workers -> Jobs]
          /\ \A x \in Workers : job'[x] = job[x] \/ job'[x] = NoJob
      BY <1>2, JobEnds DEF Update
    <1> QED BY <1>2, <1>4, <1>5, <1>6, <1>7, <1>8, WritesKeeps DEF Update

-----------------------------------------------------------------------------
\* A cancellation settles a row only if nothing is in flight about it.
LEMMA MarkCancelledKeeps ==
    ASSUME IInv, NEW s \in Edited, MarkCancelled(s), edits' \in 0 .. MaxEdits,
           UNCHANGED <<today, mapped, telling, job, sweepVars>>
    PROVE  IInv'
    <1>0. /\ TypeOK /\ ScopeOK /\ SettledOK /\ EnforceOK
          /\ UNCHANGED <<expiring, enforcer, dunner>> /\ s \in Subs
      BY SubsOK DEF IInv, sweepVars
    <1>1. /\ row' \in [Subs -> Rows] /\ row'[s].status = "cancelled"
          /\ \A x \in Subs \ {s} : row'[x] = row[x]
      BY <1>0, StatusSet, StatusFacts DEF TypeOK, MarkCancelled
    <1>2. settled' \subseteq settled \cup {s} /\ (s \in settled' => s \in settled \/ ~Busy(s))
          /\ quiet' = "none"
      BY DEF MarkCancelled
    <1>3. TypeOK'
      BY <1>0, <1>1, <1>2 DEF TypeOK
    <1>4. ScopeOK'
      BY <1>0, ScopeStands DEF ScopeOK
    <1>5. SettledOK'
      <2> SUFFICES ASSUME NEW x \in settled'
                   PROVE  /\ row'[x].status = "cancelled"
                          /\ x \notin Range(expiring)
                          /\ enforcer.plan[x] = NoWrite /\ dunner.plan[x] = NoWrite
                          /\ \A w \in Workers : job[w].kind = "convert" => job[w].sub # x
        BY <1>0 DEF SettledOK, Range, NoWrite
      <2>1. CASE x \in settled
        BY <1>0, <1>1, <2>1 DEF SettledOK, TypeOK
      <2>2. CASE x \notin settled
        <3>1. x = s /\ ~Busy(s)
          BY <1>2, <2>2
        <3>2. \A w \in Workers : job[w].kind = "convert" => job[w] # NoJob
          BY DEF NoJob
        <3> QED BY <1>1, <3>1, <3>2 DEF Busy
      <2> QED BY <2>1, <2>2
    <1>6. EnforceOK'
      BY <1>0, <1>2, EnforceStands
    <1> QED BY <1>3, <1>4, <1>5, <1>6 DEF IInv

LEMMA CancelKeeps ==
    ASSUME IInv, NEW s \in Edited, Cancel(s) \/ CancelledByBilling(s)
    PROVE  IInv'
    <1>1. edits' \in 0 .. MaxEdits
      BY EditBound DEF IInv, Cancel, CancelledByBilling
    <1> QED BY <1>1, MarkCancelledKeeps DEF Cancel, CancelledByBilling

LEMMA AdminUpdateKeeps ==
    ASSUME IInv, NEW s \in Edited, AdminUpdate(s)
    PROVE  IInv'
    <1>0. TypeOK /\ s \in Subs /\ row[s] \in Rows /\ edits' \in 0 .. MaxEdits
      BY SubsOK, EditBound DEF IInv, TypeOK, AdminUpdate
    <1>1. PICK r \in Rows : row' = [row EXCEPT ![s] = r]
      <2>1. ASSUME NEW to \in AdminStatuses, row' = [row EXCEPT ![s].status = to]
            PROVE  \E r \in Rows : row' = [row EXCEPT ![s] = r]
        <3>1. [row[s] EXCEPT !.status = to] \in Rows
          BY <1>0, StatusFacts DEF Rows
        <3> QED BY <2>1, <3>1
      <2>2. ASSUME NEW d \in {NoDay, today}, row' = [row EXCEPT ![s].trialEnds = d]
            PROVE  \E r \in Rows : row' = [row EXCEPT ![s] = r]
        <3>0. d \in Nat
          BY <1>0, NumberFacts DEF NoDay
        <3>1. [row[s] EXCEPT !.trialEnds = d] \in Rows
          BY <1>0, <3>0 DEF Rows
        <3> QED BY <2>2, <3>1
      <2>3. ASSUME row' = [row EXCEPT ![s].periodEnd = today + Period]
            PROVE  \E r \in Rows : row' = [row EXCEPT ![s] = r]
        <3>0. PICK e \in Nat : e = today + Period
          BY <1>0, NumberFacts
        <3>1. [row[s] EXCEPT !.periodEnd = e] \in Rows
          BY <1>0 DEF Rows
        <3> QED BY <2>3, <3>0, <3>1
      <2> QED BY <2>1, <2>2, <2>3 DEF AdminUpdate
    <1>2. job' \in [Workers -> Jobs] /\ job' = job /\ telling' = telling
          /\ settled' = settled \ {s} /\ quiet' = "none"
      BY <1>0 DEF TypeOK, AdminUpdate
    <1> QED BY <1>0, <1>1, <1>2, WritesKeeps DEF AdminUpdate

LEMMA NoticeKeeps ==
    ASSUME IInv, NEW s \in Edited, Renewed(s) \/ InvoicePaid(s) \/ Unpaid(s)
    PROVE  IInv'
    <1>0. TypeOK /\ s \in Subs /\ row[s] \in Rows /\ edits' \in 0 .. MaxEdits
      BY SubsOK, EditBound DEF IInv, TypeOK, Renewed, InvoicePaid, Unpaid
    <1>1. row[s].status # "cancelled" => s \notin settled
      BY DEF IInv, SettledOK
    <1>2. PICK r \in Rows : row' = [row EXCEPT ![s] = r]
      <2>1. ASSUME Renewed(s)
            PROVE  \E r \in Rows : row' = [row EXCEPT ![s] = r]
        <3>1. PICK end \in RenewalEnds :
                row' = [row EXCEPT ![s].periodEnd = end,
                             ![s].status = IF @ \in {"past_due", "suspended"}
                                             THEN "active" ELSE @]
          BY <2>1 DEF Renewed
        <3>2. PICK t : t = IF row[s].status \in {"past_due", "suspended"}
                             THEN "active" ELSE row[s].status
          OBVIOUS
        <3>3. t \in Statuses /\ end \in Nat
          BY <1>0, <3>2, StatusFacts, NumberFacts DEF Rows, RenewalEnds
        <3>4. PICK r : r = [row[s] EXCEPT !.periodEnd = end, !.status = t]
          OBVIOUS
        <3>5. r \in Rows
          BY <1>0, <3>3, <3>4 DEF Rows
        <3>6. row' = [row EXCEPT ![s] = r]
          <4>1. row[s].status = [row[s] EXCEPT !.periodEnd = end].status
            BY <1>0 DEF Rows
          <4> QED BY <1>0, <3>1, <3>2, <3>4, <4>1 DEF TypeOK
        <3> QED BY <3>5, <3>6
      <2>2. ASSUME NEW t \in Statuses, row' = [row EXCEPT ![s].status = t]
            PROVE  \E r \in Rows : row' = [row EXCEPT ![s] = r]
        <3>1. [row[s] EXCEPT !.status = t] \in Rows
          BY <1>0 DEF Rows
        <3> QED BY <2>2, <3>1
      <2> QED BY <2>1, <2>2, StatusFacts DEF InvoicePaid, Unpaid
    <1>3. settled' \subseteq settled \ {s}
      BY <1>1 DEF Renewed, InvoicePaid, Unpaid, Collected
    <1>4. job' \in [Workers -> Jobs] /\ job' = job /\ telling' = telling /\ quiet' = "none"
          /\ UNCHANGED <<today, mapped, sweepVars>>
      BY <1>0 DEF TypeOK, Renewed, InvoicePaid, Unpaid
    <1> QED BY <1>0, <1>2, <1>3, <1>4, WritesKeeps

-----------------------------------------------------------------------------
\* A step of a timer, the server or the day: it writes no row that is settled and
\* forgets or keeps what is in flight.
LEMMA SettlesNothing ==
    ASSUME IInv, TypeOK', ScopeOK', EnforceOK', settled' = settled, job' = job,
           \A s \in settled :
              /\ row'[s] = row[s]
              /\ s \in Range(expiring') => s \in Range(expiring)
              /\ enforcer'.plan[s] \in {enforcer.plan[s], NoWrite}
              /\ dunner'.plan[s] \in {dunner.plan[s], NoWrite}
    PROVE  IInv'
    <1>1. SettledOK'
      BY SettledStands DEF IInv
    <1> QED BY <1>1 DEF IInv

\* What the trial sweep selects is a finite sequence of trials.
LEMMA StartTrialSweepKeeps ==
    ASSUME IInv, StartTrialSweep
    PROVE  IInv'
    <1> DEFINE over == {s \in Subs : TrialOver(row[s])}
    <1>0. TypeOK /\ ScopeOK /\ SettledOK /\ EnforceOK
      BY DEF IInv
    <1>1. Cardinality(over) \in Nat
      <2>1. over \in SUBSET Subs
        OBVIOUS
      <2>2. IsFiniteSet(over)
        BY <2>1, SubsFinite, FS_Subset
      <2> QED BY <2>2, FS_CardinalityType
    <1>2. expiring' \in [1 .. Cardinality(over) -> over]
      BY DEF StartTrialSweep, Bijection, Injection
    <1>3. \A x \in Range(expiring') : x \in over
      BY <1>2 DEF Range
    <1>4. expiring' \in Seq(Subs)
      <2>1. PICK n \in Nat : n = Cardinality(over)
        BY <1>1
      <2>2. expiring' \in [1 .. n -> Subs]
        BY <1>2, <2>1
      <2> QED BY <2>2
    <1>5. \A s \in settled : s \notin over
      BY <1>0 DEF SettledOK, TrialOver
    <1>6. TypeOK'
      BY <1>0, <1>4 DEF TypeOK, StartTrialSweep
    <1>7. ScopeOK' /\ EnforceOK'
      BY <1>0, ScopeStands, EnforceStands DEF StartTrialSweep, ScopeOK
    <1>8. settled' = settled /\ job' = job /\ row' = row
          /\ enforcer' = enforcer /\ dunner' = dunner
      BY DEF StartTrialSweep
    <1>9. \A s \in settled : s \notin Range(expiring')
      BY <1>3, <1>5
    <1> HIDE DEF over
    <1> QED BY <1>6, <1>7, <1>8, <1>9, SettlesNothing

LEMMA TailFacts ==
    ASSUME NEW q \in Seq(Subs), q # <<>>
    PROVE  /\ Head(q) \in Range(q) /\ Tail(q) \in Seq(Subs) /\ Head(q) \in Subs
           /\ \A x : x \in Range(Tail(q)) => x \in Range(q)
    <1>1. Len(q) \in Nat /\ Len(q) >= 1 /\ Head(q) = q[1] /\ 1 \in DOMAIN q
      OBVIOUS
    <1>2. Tail(q) \in Seq(Subs) /\ Len(Tail(q)) = Len(q) - 1
      OBVIOUS
    <1>3. \A i \in DOMAIN Tail(q) : Tail(q)[i] = q[i + 1] /\ i + 1 \in DOMAIN q
      BY <1>1, <1>2
    <1>4. Head(q) \in Range(q) /\ Head(q) \in Subs
      BY <1>1 DEF Range
    <1>5. \A x : x \in Range(Tail(q)) => x \in Range(q)
      BY <1>3 DEF Range
    <1> QED BY <1>2, <1>4, <1>5

LEMMA ConvertKeeps ==
    ASSUME IInv, NEW s \in Subs, Convert(s)
    PROVE  IInv'
    <1>0. TypeOK /\ ScopeOK /\ SettledOK /\ EnforceOK
      BY DEF IInv
    <1>1. /\ expiring \in Seq(Subs) /\ expiring # <<>> /\ s = Head(expiring)
          /\ expiring' = Tail(expiring)
      BY <1>0 DEF TypeOK, Convert
    <1>2. s \in Range(expiring) /\ expiring' \in Seq(Subs)
          /\ \A x : x \in Range(expiring') => x \in Range(expiring)
      BY <1>1, TailFacts
    <1>3. PICK r \in Rows : row' = [row EXCEPT ![s] = r]
      BY <1>0, ConvertedTyped DEF TypeOK, Convert
    <1>4. row' \in [Subs -> Rows] /\ \A x \in Subs \ {s} : row'[x] = row[x]
      BY <1>0, <1>3, RowSet DEF TypeOK
    <1>5. s \notin settled /\ settled \subseteq Subs
      BY <1>0, <1>2 DEF SettledOK, TypeOK
    <1>6. TypeOK'
      BY <1>0, <1>2, <1>4 DEF TypeOK, Convert
    <1>7. ScopeOK' /\ EnforceOK'
      BY <1>0, ScopeStands, EnforceStands DEF Convert, ScopeOK
    <1>8. settled' = settled /\ job' = job /\ enforcer' = enforcer /\ dunner' = dunner
      BY DEF Convert
    <1> QED BY <1>2, <1>4, <1>5, <1>6, <1>7, <1>8, SettlesNothing

LEMMA ConvertFailsKeeps ==
    ASSUME IInv, ConvertFails
    PROVE  IInv'
    <1>0. TypeOK /\ ScopeOK /\ SettledOK /\ EnforceOK
      BY DEF IInv
    <1>1. expiring \in Seq(Subs) /\ expiring # <<>> /\ expiring' = Tail(expiring)
      BY <1>0 DEF TypeOK, ConvertFails
    <1>2. expiring' \in Seq(Subs) /\ \A x : x \in Range(expiring') => x \in Range(expiring)
      BY <1>1, TailFacts
    <1>6. TypeOK'
      BY <1>0, <1>2 DEF TypeOK, ConvertFails
    <1>7. ScopeOK' /\ EnforceOK'
      BY <1>0, ScopeStands, EnforceStands DEF ConvertFails, ScopeOK
    <1>8. settled' = settled /\ job' = job /\ row' = row /\ enforcer' = enforcer
          /\ dunner' = dunner
      BY DEF ConvertFails
    <1> QED BY <1>2, <1>6, <1>7, <1>8, SettlesNothing

-----------------------------------------------------------------------------
\* A pass of the enforcement plans nothing for a row that is not selected, and
\* what Enforced says for one that is.
LEMMA EnforcingFacts ==
    ASSUME TypeOK, NEW pass \in 0 .. 2, NEW day \in Nat, NEW selected
    PROVE  /\ Enforcing(pass, day, selected) \in Sweeps
           /\ Enforcing(pass, day, selected).pass = pass
           /\ Enforcing(pass, day, selected).day = day
           /\ \A s \in Subs :
                 Enforcing(pass, day, selected).plan[s] =
                    IF s \in selected THEN Enforced(row[s], day, pass) ELSE NoWrite
    <1>1. \A s \in Subs : Enforced(row[s], day, pass) \in Writes
      <2> TAKE s \in Subs
      <2>1. row[s] \in Rows
        BY DEF TypeOK
      <2> HIDE DEF Enforced
      <2> QED BY <2>1, EnforcedTyped
    <1>2. PICK plan : plan = [s \in Subs |-> IF s \in selected
                                THEN Enforced(row[s], day, pass) ELSE NoWrite]
      OBVIOUS
    <1>3. plan \in [Subs -> Writes]
      BY <1>1, <1>2, NoWriteTyped
    <1>4. Enforcing(pass, day, selected) = [pass |-> pass, day |-> day, plan |-> plan]
      BY <1>2 DEF Enforcing
    <1> HIDE DEF Enforcing, Enforced
    <1> QED BY <1>2, <1>3, <1>4 DEF Sweeps

LEMMA StartEnforcementKeeps ==
    ASSUME IInv, StartEnforcement
    PROVE  IInv'
    <1> DEFINE S == {s \in mapped : row[s].status \in Collected}
    <1>0. TypeOK /\ ScopeOK /\ SettledOK /\ EnforceOK /\ mapped \subseteq Subs
      BY DEF IInv, TypeOK
    <1>1. /\ enforcer' = Enforcing(1, today, S) /\ row' = row /\ mapped' = mapped
          /\ settled' = settled /\ job' = job /\ dunner' = dunner
          /\ expiring' = expiring
      BY DEF StartEnforcement
    <1>2. today \in Nat /\ 1 \in 0 .. 2
      BY <1>0, NumberFacts
    <1>3. /\ enforcer' \in Sweeps /\ enforcer'.pass = 1 /\ enforcer'.day = today
          /\ \A s \in Subs : enforcer'.plan[s] =
                IF s \in S THEN Enforced(row[s], today, 1) ELSE NoWrite
      BY <1>0, <1>1, <1>2, EnforcingFacts
    <1>4. TypeOK'
      BY <1>0, <1>3 DEF TypeOK, StartEnforcement
    <1>5. ScopeOK'
      BY <1>0, ScopeStands DEF StartEnforcement, ScopeOK
    <1>6. \A s \in settled : s \in Subs /\ s \notin S
      BY <1>0, StatusFacts DEF SettledOK, TypeOK
    <1>7. EnforceOK'
      <2> SUFFICES ASSUME NEW s \in mapped
                   PROVE  Handled(s)'
        BY <1>1 DEF EnforceOK
      <2>1. PICK o : o = Overdue(row[s], today)
        OBVIOUS
      <2>2. s \in Subs /\ row[s] \in Rows /\ o \in Int /\ Deactivate \in Int /\ Suspend \in Int
            /\ Suspend < Deactivate
        BY <1>0, <1>2, <2>1, OverdueInt, NumberFacts DEF TypeOK
      <2>3. PICK wr : wr = enforcer'.plan[s]
        OBVIOUS
      <2>4. \/ o >= Deactivate /\ wr # NoWrite /\ wr.status = "deactivated"
            \/ o < Deactivate /\ wr # NoWrite /\ wr.status = "suspended"
            \/ /\ wr = NoWrite
               /\ o >= Deactivate => row[s].status \notin Collected
               /\ o >= Suspend => row[s].status # "active"
        <3>1. CASE s \in S
          <4>1. wr = Enforced(row[s], today, 1)
            BY <1>3, <2>2, <2>3, <3>1
          <4> HIDE DEF Enforced, Overdue
          <4>2. /\ o >= Deactivate => wr # NoWrite /\ wr.status = "deactivated"
                /\ o < Deactivate /\ wr # NoWrite => wr.status = "suspended"
                /\ wr = NoWrite => o < Deactivate
                /\ wr = NoWrite /\ o >= Suspend => row[s].status # "active"
            BY <1>0, <1>2, <2>1, <2>2, <4>1, EnforcedTyped
          <4> QED BY <2>2, <4>2
        <3>2. CASE s \notin S
          <4>1. wr = NoWrite /\ row[s].status \notin Collected
            BY <1>3, <2>2, <2>3, <3>2
          <4> QED BY <4>1 DEF Collected
        <3> QED BY <3>1, <3>2
      <2>5. Overdue(row'[s], enforcer'.day) = o /\ row'[s] = row[s] /\ enforcer'.pass # 2
        BY <1>1, <1>3, <2>1
      <2> HIDE DEF Overdue
      <2>6. /\ enforcer'.plan[s] # NoWrite =>
                 \/ o >= Deactivate /\ enforcer'.plan[s].status = "deactivated"
                 \/ o < Deactivate  /\ enforcer'.plan[s].status = "suspended"
            /\ enforcer'.plan[s] = NoWrite =>
                 /\ o >= Deactivate => row'[s].status \notin Collected
                 /\ o >= Suspend => row'[s].status # "active"
                 /\ o >= Suspend /\ enforcer'.pass = 2 => row'[s].status # "past_due"
        BY <2>3, <2>4, <2>5
      <2> QED BY <2>5, <2>6 DEF Handled, Overdue
    <1> HIDE DEF S
    <1>8. \A s \in settled : enforcer'.plan[s] = NoWrite
      BY <1>3, <1>6
    <1> QED BY <1>1, <1>4, <1>5, <1>7, <1>8, SettlesNothing

\* A sweep writes one row of its plan and strikes it off.
LEMMA StrikeOff ==
    ASSUME NEW sweep \in Sweeps, NEW s \in Subs, NEW next, NEW p,
           p = [sweep.plan EXCEPT ![s] = NoWrite], next = [sweep EXCEPT !.plan = p]
    PROVE  /\ next \in Sweeps /\ next.pass = sweep.pass /\ next.day = sweep.day
           /\ next.plan[s] = NoWrite
           /\ \A x \in Subs \ {s} : next.plan[x] = sweep.plan[x]
    <1>2. sweep.plan \in [Subs -> Writes]
      BY DEF Sweeps
    <1>3. p \in [Subs -> Writes] /\ p[s] = NoWrite
          /\ \A x \in Subs \ {s} : p[x] = sweep.plan[x]
      BY <1>2, NoWriteTyped
    <1> QED BY <1>3 DEF Sweeps

LEMMA EnforceOneKeeps ==
    ASSUME IInv, NEW s \in Subs, EnforceOne(s)
    PROVE  IInv'
    <1>0. TypeOK /\ ScopeOK /\ SettledOK /\ EnforceOK /\ settled \subseteq Subs
      BY DEF IInv, TypeOK
    <1>1. PICK wr : wr = enforcer.plan[s]
      OBVIOUS
    <1>2. enforcer \in Sweeps /\ wr \in Writes /\ wr # NoWrite /\ row[s] \in Rows
      BY <1>0, <1>1 DEF TypeOK, Sweeps, EnforceOne
    <1>3. /\ enforcer' \in Sweeps /\ enforcer'.pass = enforcer.pass
          /\ enforcer'.day = enforcer.day /\ enforcer'.plan[s] = NoWrite
          /\ \A x \in Subs \ {s} : enforcer'.plan[x] = enforcer.plan[x]
      <2>1. PICK p : p = [enforcer.plan EXCEPT ![s] = NoWrite]
        OBVIOUS
      <2>2. enforcer' = [enforcer EXCEPT !.plan = p]
        BY <2>1 DEF EnforceOne
      <2>3. enforcer.plan \in [Subs -> Writes]
        BY <1>2 DEF Sweeps
      <2>4. /\ p \in [Subs -> Writes] /\ p[s] = NoWrite
            /\ \A x \in Subs \ {s} : p[x] = enforcer.plan[x]
        BY <2>1, <2>3, NoWriteTyped
      <2>5. enforcer'.plan = p /\ enforcer'.pass = enforcer.pass
            /\ enforcer'.day = enforcer.day /\ enforcer' \in Sweeps
        BY <1>2, <2>2, <2>4 DEF Sweeps
      <2> QED BY <2>4, <2>5
    <1>4. PICK r \in Rows : r = Written(row[s], wr)
      BY <1>2, WrittenTyped
    <1>5. /\ row' \in [Subs -> Rows] /\ row'[s] = r
          /\ \A x \in Subs \ {s} : row'[x] = row[x]
      <2>1. row' = [row EXCEPT ![s] = r]
        BY <1>1, <1>4 DEF EnforceOne
      <2> QED BY <1>0, <2>1, RowSet DEF TypeOK
    <1>6. s \notin settled
      BY <1>0, <1>1, <1>2 DEF SettledOK
    <1>7. TypeOK'
      BY <1>0, <1>3, <1>5 DEF TypeOK, EnforceOne
    <1>8. ScopeOK'
      BY <1>0, ScopeStands DEF EnforceOne, ScopeOK
    <1>9. EnforceOK'
      <2> SUFFICES ASSUME quiet' = "enforce", enforcer'.pass # 0, NEW x \in mapped'
                   PROVE  Handled(x)'
        BY DEF EnforceOK
      <2>1. x \in mapped /\ x \in Subs /\ Handled(x) /\ quiet = "enforce"
        BY <1>0, <1>3 DEF EnforceOK, EnforceOne, TypeOK
      <2>2. CASE x # s
        BY <1>3, <1>5, <2>1, <2>2 DEF Handled, Overdue
      <2>3. CASE x = s
        <3>1. PICK o : o = Overdue(row[s], enforcer.day)
          OBVIOUS
        <3>2. \/ o >= Deactivate /\ wr.status = "deactivated"
              \/ o < Deactivate  /\ wr.status = "suspended"
          BY <1>1, <1>2, <2>1, <2>3, <3>1 DEF Handled
        <3>3. r.periodEnd = row[s].periodEnd /\ r.status = wr.status
          <4> HIDE DEF Written
          <4>1. wr.status # "keep"
            BY <3>2
          <4> QED BY <1>2, <1>4, <4>1, WrittenTyped
        <3>4. Overdue(row'[s], enforcer'.day) = o
          BY <1>3, <1>5, <3>1, <3>3 DEF Overdue
        <3>5. o \in Int /\ Deactivate \in Int
          BY <1>2, <3>1, OverdueInt, NumberFacts, <1>0 DEF Sweeps
        <3> HIDE DEF Overdue
        <3>6. /\ o >= Deactivate => row'[s].status \notin Collected
              /\ row'[s].status # "active" /\ row'[s].status # "past_due"
          BY <1>5, <3>2, <3>3, <3>5 DEF Collected
        <3> QED BY <1>3, <2>3, <3>4, <3>6 DEF Handled
      <2> QED BY <2>2, <2>3
    <1>10. settled' = settled /\ job' = job /\ dunner' = dunner /\ expiring' = expiring
      BY DEF EnforceOne
    <1>11. \A x \in settled : row'[x] = row[x] /\ enforcer'.plan[x] = enforcer.plan[x]
      BY <1>0, <1>3, <1>5, <1>6
    <1> QED BY <1>7, <1>8, <1>9, <1>10, <1>11, SettlesNothing

LEMMA SecondPassKeeps ==
    ASSUME IInv, SecondPass
    PROVE  IInv'
    <1> DEFINE S == {s \in Edited : row[s].status = "past_due"}
    <1>0. TypeOK /\ ScopeOK /\ SettledOK /\ EnforceOK /\ mapped \subseteq Edited
          /\ mapped \subseteq Subs /\ enforcer.day \in Nat
      BY DEF IInv, TypeOK, ScopeOK, Sweeps
    <1>1. /\ enforcer' = Enforcing(2, enforcer.day, S) /\ row' = row /\ mapped' = mapped
          /\ settled' = settled /\ job' = job /\ dunner' = dunner
          /\ expiring' = expiring
      BY DEF SecondPass
    <1>3. /\ enforcer' \in Sweeps /\ enforcer'.pass = 2 /\ enforcer'.day = enforcer.day
          /\ \A s \in Subs : enforcer'.plan[s] =
                IF s \in S THEN Enforced(row[s], enforcer.day, 2) ELSE NoWrite
      BY <1>0, <1>1, EnforcingFacts
    <1>4. TypeOK'
      BY <1>0, <1>3 DEF TypeOK, SecondPass
    <1>5. ScopeOK'
      BY <1>0, ScopeStands DEF SecondPass, ScopeOK
    <1>6. \A s \in settled : s \in Subs /\ s \notin S
      BY <1>0 DEF SettledOK, TypeOK
    <1>7. EnforceOK'
      <2> SUFFICES ASSUME quiet' = "enforce", NEW s \in mapped
                   PROVE  Handled(s)'
        BY <1>1 DEF EnforceOK
      <2>0. Handled(s) /\ s \in Subs /\ s \in Edited /\ enforcer.plan[s] = NoWrite
        BY <1>0 DEF EnforceOK, SecondPass, Done
      <2>1. PICK o : o = Overdue(row[s], enforcer.day)
        OBVIOUS
      <2>2. row[s] \in Rows /\ o \in Int /\ Deactivate \in Int /\ Suspend \in Int
            /\ Suspend < Deactivate
        BY <1>0, <2>0, <2>1, OverdueInt, NumberFacts DEF TypeOK
      <2>3. /\ o >= Deactivate => row[s].status \notin Collected
            /\ o >= Suspend => row[s].status # "active"
        BY <2>0, <2>1 DEF Handled
      <2>4. PICK wr : wr = enforcer'.plan[s]
        OBVIOUS
      <2>5. \/ o >= Deactivate /\ wr # NoWrite /\ wr.status = "deactivated"
            \/ o < Deactivate /\ wr # NoWrite /\ wr.status = "suspended"
            \/ wr = NoWrite /\ (o >= Suspend => row[s].status # "past_due")
        <3>1. CASE s \in S
          <4>1. wr = Enforced(row[s], enforcer.day, 2)
            BY <1>3, <2>0, <2>4, <3>1
          <4> HIDE DEF Enforced, Overdue
          <4>2. /\ o >= Deactivate => wr # NoWrite /\ wr.status = "deactivated"
                /\ o < Deactivate /\ wr # NoWrite => wr.status = "suspended"
                /\ wr = NoWrite /\ o >= Suspend => FALSE
            BY <1>0, <2>1, <2>2, <4>1, EnforcedTyped
          <4> QED BY <2>2, <4>2
        <3>2. CASE s \notin S
          BY <1>3, <2>0, <2>4, <3>2
        <3> QED BY <3>1, <3>2
      <2>6. Overdue(row'[s], enforcer'.day) = o /\ row'[s] = row[s]
        BY <1>1, <1>3, <2>1
      <2> HIDE DEF Overdue
      <2>7. /\ enforcer'.plan[s] # NoWrite =>
                 \/ o >= Deactivate /\ enforcer'.plan[s].status = "deactivated"
                 \/ o < Deactivate  /\ enforcer'.plan[s].status = "suspended"
            /\ enforcer'.plan[s] = NoWrite =>
                 /\ o >= Deactivate => row'[s].status \notin Collected
                 /\ o >= Suspend => row'[s].status # "active"
                 /\ o >= Suspend /\ enforcer'.pass = 2 => row'[s].status # "past_due"
        BY <2>3, <2>4, <2>5, <2>6
      <2> QED BY <2>6, <2>7 DEF Handled, Overdue
    <1> HIDE DEF S
    <1>8. \A s \in settled : enforcer'.plan[s] = NoWrite
      BY <1>3, <1>6
    <1> QED BY <1>1, <1>4, <1>5, <1>7, <1>8, SettlesNothing

LEMMA SweepEndsKeeps ==
    ASSUME IInv, EndEnforcement \/ EndDunning \/ SweepFails
    PROVE  IInv'
    <1>0. TypeOK /\ ScopeOK /\ SettledOK /\ EnforceOK /\ settled \subseteq Subs
      BY DEF IInv, TypeOK
    <1>1. /\ UNCHANGED <<today, row, mapped, telling, job, expiring, edits, settled>>
          /\ enforcer' \in {enforcer, Idle} /\ dunner' \in {dunner, Idle}
          /\ quiet' \in {quiet, "none"}
          /\ quiet' = quiet => enforcer' = enforcer \/ enforcer' = Idle
      BY DEF EndEnforcement, EndDunning, SweepFails
    <1>2. TypeOK'
      BY <1>0, <1>1, IdleTyped DEF TypeOK
    <1>3. ScopeOK'
      BY <1>0, <1>1, ScopeStands DEF ScopeOK
    <1>4. EnforceOK'
      <2>1. CASE enforcer' = enforcer
        BY <1>0, <1>1, <2>1, EnforceStands
      <2>2. CASE enforcer' = Idle
        BY <2>2, IdleTyped DEF EnforceOK
      <2> QED BY <1>1, <2>1, <2>2
    <1>5. \A s \in settled : /\ enforcer'.plan[s] \in {enforcer.plan[s], NoWrite}
                             /\ dunner'.plan[s] \in {dunner.plan[s], NoWrite}
      BY <1>0, <1>1, IdleTyped
    <1> QED BY <1>1, <1>2, <1>3, <1>4, <1>5, SettlesNothing

LEMMA StartDunningKeeps ==
    ASSUME IInv, StartDunning
    PROVE  IInv'
    <1>0. TypeOK /\ ScopeOK /\ SettledOK /\ EnforceOK /\ settled \subseteq Subs
      BY DEF IInv, TypeOK
    <1>1. PICK plan : plan = [s \in Subs |-> IF s \in Edited /\ row[s].status \in Collected
                                             THEN Dunned(row[s], today) ELSE NoWrite]
      OBVIOUS
    <1>2. \A s \in Subs : Dunned(row[s], today) \in Writes
      <2> TAKE s \in Subs
      <2>1. row[s] \in Rows
        BY <1>0 DEF TypeOK
      <2> HIDE DEF Dunned
      <2> QED BY <2>1, DunnedTyped
    <1>3. plan \in [Subs -> Writes]
      <2> HIDE DEF Dunned
      <2> QED BY <1>1, <1>2, NoWriteTyped
    <1>4. dunner' = [pass |-> 1, day |-> today, plan |-> plan]
      BY <1>1 DEF StartDunning
    <1>5. dunner' \in Sweeps /\ dunner'.plan = plan
      BY <1>0, <1>3, <1>4, NumberFacts DEF Sweeps
    <1>6. TypeOK'
      BY <1>0, <1>5 DEF TypeOK, StartDunning
    <1>7. ScopeOK'
      BY <1>0, ScopeStands DEF StartDunning, ScopeOK
    <1>8. EnforceOK'
      BY <1>0, EnforceStands DEF StartDunning
    <1>9. \A s \in settled : dunner'.plan[s] = NoWrite
      <2> TAKE s \in settled
      <2>1. s \in Subs /\ row[s].status \notin Collected
        BY <1>0, StatusFacts DEF SettledOK
      <2> QED BY <1>1, <1>5, <2>1
    <1>10. UNCHANGED <<row, settled, job, expiring, enforcer>>
      BY DEF StartDunning
    <1> QED BY <1>6, <1>7, <1>8, <1>9, <1>10, SettlesNothing

LEMMA DunOneKeeps ==
    ASSUME IInv, NEW s \in Subs, DunOne(s)
    PROVE  IInv'
    <1>0. TypeOK /\ ScopeOK /\ SettledOK /\ EnforceOK /\ settled \subseteq Subs
      BY DEF IInv, TypeOK
    <1>1. PICK wr : wr = dunner.plan[s]
      OBVIOUS
    <1>2. dunner \in Sweeps /\ wr \in Writes /\ wr # NoWrite /\ row[s] \in Rows
      BY <1>0, <1>1 DEF TypeOK, Sweeps, DunOne
    <1>3. /\ dunner' \in Sweeps
          /\ \A x \in Subs \ {s} : dunner'.plan[x] = dunner.plan[x]
      <2>1. PICK p : p = [dunner.plan EXCEPT ![s] = NoWrite]
        OBVIOUS
      <2>2. dunner' = [dunner EXCEPT !.plan = p]
        BY <2>1 DEF DunOne
      <2> QED BY <1>2, <2>1, <2>2, StrikeOff
    <1>4. PICK r \in Rows : r = Written(row[s], wr)
      BY <1>2, WrittenTyped
    <1>5. row' \in [Subs -> Rows] /\ \A x \in Subs \ {s} : row'[x] = row[x]
      <2>1. row' = [row EXCEPT ![s] = r]
        BY <1>1, <1>4 DEF DunOne
      <2> QED BY <1>0, <2>1, RowSet DEF TypeOK
    <1>6. s \notin settled
      BY <1>0, <1>1, <1>2 DEF SettledOK
    <1>7. TypeOK'
      BY <1>0, <1>3, <1>5 DEF TypeOK, DunOne
    <1>8. ScopeOK'
      BY <1>0, ScopeStands DEF DunOne, ScopeOK
    <1>9. EnforceOK'
      BY <1>0, EnforceStands DEF DunOne
    <1>10. UNCHANGED <<settled, job, expiring, enforcer>>
      BY DEF DunOne
    <1>11. \A x \in settled : row'[x] = row[x] /\ dunner'.plan[x] = dunner.plan[x]
      BY <1>0, <1>3, <1>5, <1>6
    <1> QED BY <1>7, <1>8, <1>9, <1>10, <1>11, SettlesNothing

-----------------------------------------------------------------------------
LEMMA CallKeeps ==
    ASSUME IInv, \/ Backfill
                 \/ \E s \in Subs : Mapped(s) \/ CallLost(s)
    PROVE  IInv'
    <1>0. TypeOK /\ ScopeOK /\ SettledOK /\ EnforceOK
      BY DEF IInv
    <1>1. UNCHANGED <<today, row, job, expiring, enforcer, dunner, edits, settled>>
      BY DEF Backfill, Mapped, CallLost, sweepVars
    <1>1a. mapped' \subseteq Edited /\ telling' \subseteq Edited
      BY <1>0 DEF Backfill, Mapped, CallLost, ScopeOK
    <1>1b. quiet' = "none" \/ (quiet' = quiet /\ mapped' = mapped)
      BY DEF Backfill, Mapped, CallLost
    <1>2. TypeOK'
      BY <1>0, <1>1, <1>1a, <1>1b, SubsOK DEF TypeOK
    <1>3. ScopeOK'
      BY <1>0, <1>1, <1>1a, ScopeStands
    <1>4. EnforceOK'
      BY <1>0, <1>1, <1>1b, EnforceStands
    <1> QED BY <1>1, <1>2, <1>3, <1>4, SettlesNothing

LEMMA TickKeeps == ASSUME IInv, Tick PROVE IInv'
    <1>0. /\ TypeOK /\ ScopeOK /\ SettledOK /\ EnforceOK
          /\ UNCHANGED <<row, mapped, telling, job, expiring, enforcer, dunner, edits,
                         settled, quiet>>
      BY DEF IInv, Tick, sweepVars
    <1>1. today' \in 1 .. LastDay
      BY <1>0, BoundsOK DEF Tick, TypeOK
    <1>2. TypeOK'
      BY <1>0, <1>1 DEF TypeOK
    <1>3. ScopeOK' /\ EnforceOK'
      BY <1>0, ScopeStands, EnforceStands DEF ScopeOK
    <1> QED BY <1>0, <1>2, <1>3, SettlesNothing

LEMMA RestartKeeps == ASSUME IInv, Restart PROVE IInv'
    <1>0. /\ TypeOK /\ ScopeOK /\ SettledOK /\ EnforceOK /\ edits' \in 0 .. MaxEdits
          /\ settled \subseteq Subs
      BY EditBound DEF IInv, Restart, TypeOK
    <1>1. /\ UNCHANGED <<today, row, mapped, settled>> /\ telling' = {} /\ quiet' = "none"
          /\ expiring' = <<>> /\ enforcer' = Idle /\ dunner' = Idle
          /\ job' = [w \in Workers |-> NoJob]
      BY DEF Restart
    <1>2. job' \in [Workers -> Jobs] /\ \A w \in Workers : job'[w] = NoJob
      BY <1>1, JobFacts DEF Jobs
    <1>3. TypeOK'
      BY <1>0, <1>1, <1>2, IdleTyped DEF TypeOK
    <1>4. ScopeOK'
      BY <1>0, <1>1, <1>2, ScopeStands DEF ScopeOK
    <1>5. EnforceOK'
      BY <1>0, <1>1, EnforceStands
    <1>6. SettledOK'
      <2>1. \A s \in settled' :
              /\ row'[s] = row[s]
              /\ s \in Range(expiring') => s \in Range(expiring)
              /\ enforcer'.plan[s] \in {enforcer.plan[s], NoWrite}
              /\ dunner'.plan[s] \in {dunner.plan[s], NoWrite}
        BY <1>0, <1>1, IdleTyped DEF Range
      <2>2. \A w \in Workers : job'[w].kind # "convert"
        BY <1>2 DEF NoJob
      <2> QED BY <1>0, <1>1, <2>1, <2>2, SettledStands
    <1> QED BY <1>3, <1>4, <1>5, <1>6 DEF IInv

-----------------------------------------------------------------------------
LEMMA RequestKeeps == ASSUME IInv, NEW w \in Workers, Request(w) PROVE IInv'
    <1>1. ASSUME NEW s \in Edited, NEW to \in {"active", "trial"}, BeginCreate(w, s, to)
          PROVE  IInv'
      BY <1>1, BeginCreateKeeps
    <1>2. ASSUME NEW s \in Edited, BeginUpdate(w, s) PROVE IInv'
      BY <1>2, BeginUpdateKeeps
    <1>3. ASSUME Create(w) \/ Update(w) \/ GiveUp(w) PROVE IInv'
      BY <1>3, CreateKeeps, UpdateKeeps, GiveUpKeeps
    <1> QED BY <1>1, <1>2, <1>3 DEF Request

\* A step that changes nothing.
LEMMA StutterKeeps == ASSUME IInv, UNCHANGED vars PROVE IInv'
    <1>1. UNCHANGED <<today, row, mapped, telling, job, expiring, enforcer, dunner, edits,
                      settled, quiet>>
      BY DEF vars, sweepVars
    <1> QED BY <1>1 DEF IInv, TypeOK, ScopeOK, SettledOK, EnforceOK, Handled, Overdue

LEMMA NextKeeps == ASSUME IInv, [Next]_vars PROVE IInv'
    <1>1. ASSUME NEW w \in Workers, Request(w) PROVE IInv'
      BY <1>1, RequestKeeps
    <1>2. ASSUME NEW s \in Edited, Cancel(s) \/ AdminUpdate(s) \/ Notice(s) PROVE IInv'
      <2>1. CASE Cancel(s) \/ CancelledByBilling(s)
        BY <2>1, CancelKeeps
      <2>2. CASE AdminUpdate(s)
        BY <2>2, AdminUpdateKeeps
      <2>3. CASE Renewed(s) \/ InvoicePaid(s) \/ Unpaid(s)
        BY <2>3, NoticeKeeps
      <2> QED BY <1>2, <2>1, <2>2, <2>3 DEF Notice
    <1>3. ASSUME NEW s \in Subs, Convert(s) \/ EnforceOne(s) \/ DunOne(s) PROVE IInv'
      BY <1>3, ConvertKeeps, EnforceOneKeeps, DunOneKeeps
    <1>4. ASSUME Backfill \/ \E s \in Subs : Mapped(s) \/ CallLost(s) PROVE IInv'
      BY <1>4, CallKeeps
    <1>5. ASSUME StartTrialSweep \/ ConvertFails \/ StartEnforcement \/ SecondPass
                 \/ StartDunning \/ EndEnforcement \/ EndDunning \/ SweepFails
          PROVE  IInv'
      BY <1>5, StartTrialSweepKeeps, ConvertFailsKeeps, StartEnforcementKeeps,
         SecondPassKeeps, StartDunningKeeps, SweepEndsKeeps
    <1>6. ASSUME Tick \/ Restart PROVE IInv'
      BY <1>6, TickKeeps, RestartKeeps
    <1> HIDE DEF IInv
    <1> QED BY <1>1, <1>2, <1>3, <1>4, <1>5, <1>6, StutterKeeps DEF Next

LEMMA Invariance == Spec => []IInv
    <1> QED BY InitIInv, NextKeeps, PTL DEF Spec

-----------------------------------------------------------------------------
\* Every variable keeps its type: the rows statuses the code writes, the sweeps
\* plans for rows that exist, the trial sweep a finite queue of them.
THEOREM LifecycleTypes == Spec => []TypeOK
    <1>1. IInv => TypeOK
      BY DEF IInv
    <1> QED BY <1>1, Invariance, PTL

\* cancelSubscription and subscription.cancelled: a cancellation with nothing in
\* flight about the row holds until the row is subscribed, edited or reported
\* unpaid, whatever the sweeps, the renewals and the payments do meanwhile.
THEOREM CancellationsHold == Spec => []CancellationHolds
    <1>1. IInv => CancellationHolds
      BY DEF IInv, SettledOK, CancellationHolds
    <1> QED BY <1>1, Invariance, PTL

\* Nothing is left to do when a sweep ends, so every row it knows has been dealt
\* with by the first pass or by the second.
LEMMA VerdictStep ==
    ASSUME IInv, EndEnforcement, quiet = "enforce", NEW s \in mapped
    PROVE  ~InService(row[s], enforcer.day)
    <1>0. TypeOK /\ EnforceOK /\ s \in Subs
      BY DEF IInv, TypeOK
    <1>1. enforcer.plan[s] = NoWrite /\ enforcer.pass = 2 /\ Handled(s)
      BY <1>0 DEF EndEnforcement, Done, EnforceOK
    <1>2. PICK o : o = Overdue(row[s], enforcer.day)
      OBVIOUS
    <1>3. /\ o >= Deactivate => row[s].status \notin Collected
          /\ o >= Suspend => row[s].status # "active" /\ row[s].status # "past_due"
      BY <1>1, <1>2 DEF Handled
    <1> QED BY <1>2, <1>3 DEF InService

\* enforceOverdueInvoices: a run that nobody disturbs leaves no mapped
\* subscription in service past the limits of its two passes.
THEOREM EnforcementIsComplete == Spec => EnforcementVerdict
    <1>1. ASSUME IInv, [Next]_vars
          PROVE  [EndEnforcement /\ quiet = "enforce"
                    => \A s \in mapped : ~InService(row[s], enforcer.day)]_vars
      BY <1>1, VerdictStep
    <1> QED BY <1>1, Invariance, PTL DEF Spec, EnforcementVerdict
=============================================================================
