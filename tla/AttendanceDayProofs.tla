------------------------ MODULE AttendanceDayProofs ------------------------
(***************************************************************************)
(* Proofs about AttendanceDay, for any number of requests, days and        *)
(* instants.  Requests in flight hold the id of a record, and the heart of *)
(* the proofs is that an id never comes to mean another day: records are   *)
(* made under new ids and only ever go away, so what was true of the day a *)
(* request meant stays true (DayOf(id) only shrinks).                      *)
(***************************************************************************)
EXTENDS AttendanceDay, TLAPS

\* A request made or about to be made: not of the future, and linked to a record
\* of its own day if to any.
AskOK(q) ==
    /\ q.day \in Days /\ q.in \in Times /\ q.out \in Times /\ q.link \in Nat
    /\ q.day <= Date[now]
    /\ q.link < nextId /\ DayOf(q.link) \subseteq {q.day}

\* What each kind of request in flight relies on.
JobOK(j) ==
    /\ j.kind \in {"idle", "open", "punch", "score", "write", "submit",
                   "approved", "rejected", "withdrawn", "mark"}
    /\ j.kind \in {"open", "punch"} => j.at \in Instants /\ j.at <= now
    /\ j.kind \in {"punch", "score", "write"} =>
         /\ j.id \in Nat /\ j.id < nextId
         /\ \A d \in DayOf(j.id) : d <= Date[now]
    /\ j.kind = "punch" =>
         \A d \in DayOf(j.id) : ~overnight => d = Date[j.at]
    /\ j.kind = "write" =>
         /\ j.times \in [in : Instants, out : Times]
         /\ j.times.out # 0 => j.times.in <= j.times.out
    /\ j.kind = "submit" => AskOK(j)
    /\ j.kind \in {"approved", "rejected", "withdrawn"} =>
         /\ j.reg \in DOMAIN regs
         /\ j.link \in Nat /\ j.link < nextId
         /\ DayOf(j.link) \subseteq {regs[j.reg].day}
    /\ j.kind = "mark" => j.day \in Days /\ j.id \in Nat

JobsOK == /\ job = [w \in Workers |-> job[w]]
          /\ \A w \in Workers : JobOK(job[w])

RowsOK ==
    /\ rows \in [Days -> Row] /\ nextId \in Nat \ {0}
    /\ \A d \in Days : rows[d].id < nextId /\ (rows[d].id = 0 => rows[d] = NoRow)
    /\ \A d, e \in Days : rows[d].id = rows[e].id /\ d # e => rows[d] = NoRow
    /\ \A d \in Days : rows[d].in # 0 => d <= Date[now]
    /\ PunchesOnTheirDay

RegsOK == regs \in Seq(Reg) /\ \A i \in DOMAIN regs : AskOK(regs[i])

RestOK == now \in Instants /\ overnight \in BOOLEAN /\ alone \in BOOLEAN
            /\ requests \in 0 .. MaxRequests

\* One request at a time, and what it has read of the punches still holds.
AloneOK ==
    alone =>
      /\ \A w, x \in Workers : job[w].kind # "idle" /\ job[x].kind # "idle" => w = x
      /\ \A w \in Workers : job[w].kind = "write" =>
           \A d \in DayOf(job[w].id) : Derived(job[w].times, rows[d])

IInv == RestOK /\ RowsOK /\ RegsOK /\ JobsOK /\ InOrder /\ AloneOK

-----------------------------------------------------------------------------
\* What no step undoes, as far as requests and regularizations rely on it.
Onward ==
    /\ now \in Instants /\ now' \in Instants /\ now <= now'
    /\ overnight' = overnight
    /\ nextId \in Nat /\ nextId' \in Nat /\ nextId <= nextId'
    /\ \A id \in Nat : id < nextId => DayOf(id)' \subseteq DayOf(id)
    /\ DOMAIN regs \subseteq DOMAIN regs'
    /\ \A i \in DOMAIN regs :
          /\ regs'[i].day = regs[i].day
          /\ regs'[i].in = regs[i].in /\ regs'[i].out = regs[i].out
          /\ regs[i].status # "pending" => regs'[i].status # "pending"

LEMMA Dates ==
    ASSUME NEW t \in Instants, NEW u \in Instants, t <= u
    PROVE  /\ Date[t] \in Days /\ Date[u] \in Days /\ Date[t] <= Date[u]
           /\ Days \subseteq Nat /\ Instants \subseteq Nat
    BY LastOK, DateOK DEF Days, Instants

LEMMA AskStays ==
    ASSUME NEW q, AskOK(q), Onward
    PROVE  AskOK(q)'
    <1>1. Date[now] <= Date[now'] /\ Date[now] \in Nat /\ Date[now'] \in Nat
          /\ Days \subseteq Nat
      BY Dates DEF Onward
    <1>2. q.day <= Date[now']
      <2>1. q.day \in Nat /\ q.day <= Date[now]
        BY <1>1 DEF AskOK
      <2> QED BY <1>1, <2>1
    <1>3. q.link < nextId' /\ DayOf(q.link)' \subseteq {q.day}
      BY DEF AskOK, Onward
    <1> QED BY <1>2, <1>3 DEF AskOK, Days, Times, Instants

LEMMA JobStays ==
    ASSUME NEW j, JobOK(j), Onward
    PROVE  JobOK(j)'
    <1>1. Date[now] <= Date[now'] /\ Date[now] \in Nat /\ Date[now'] \in Nat
          /\ now \in Nat /\ now' \in Nat /\ now <= now'
          /\ Days \subseteq Nat /\ Instants \subseteq Nat
      BY Dates DEF Onward
    <1>2. \A id : DayOf(id) \subseteq Days
      BY DEF DayOf
    <1>3. ASSUME j.kind \in {"open", "punch"}
          PROVE  j.at \in Instants /\ j.at <= now'
      <2>1. j.at \in Instants /\ j.at <= now
        BY <1>3 DEF JobOK
      <2>2. j.at \in Nat
        BY <1>1, <2>1
      <2> QED BY <1>1, <2>1, <2>2
    <1>4. j.kind \in {"punch", "score", "write"} =>
            /\ j.id \in Nat /\ j.id < nextId'
            /\ \A d \in DayOf(j.id)' : d <= Date[now']
      <2> SUFFICES ASSUME j.kind \in {"punch", "score", "write"}
                   PROVE  /\ j.id \in Nat /\ j.id < nextId'
                          /\ \A d \in DayOf(j.id)' : d <= Date[now']
        OBVIOUS
      <2>1. j.id \in Nat /\ j.id < nextId /\ \A d \in DayOf(j.id) : d <= Date[now]
        BY DEF JobOK
      <2>2. DayOf(j.id)' \subseteq DayOf(j.id)
        BY <2>1 DEF Onward
      <2>3. j.id < nextId'
        BY <2>1 DEF Onward
      <2>4. ASSUME NEW d \in DayOf(j.id)' PROVE d <= Date[now']
        <3>1. d \in Nat /\ d <= Date[now]
          BY <1>1, <1>2, <2>1, <2>2
        <3> QED BY <1>1, <3>1
      <2> QED BY <2>1, <2>3, <2>4
    <1>5. j.kind = "punch" =>
            \A d \in DayOf(j.id)' : ~overnight' => d = Date[j.at]
      BY DEF JobOK, Onward
    <1>6. j.kind = "submit" => AskOK(j)'
      BY AskStays DEF JobOK
    <1>7. j.kind \in {"approved", "rejected", "withdrawn"} =>
            /\ j.reg \in DOMAIN regs'
            /\ j.link \in Nat /\ j.link < nextId'
            /\ DayOf(j.link)' \subseteq {regs'[j.reg].day}
      BY DEF JobOK, Onward
    <1>8. j.kind = "write" =>
            /\ j.times \in [in : Instants, out : Times]'
            /\ j.times.out # 0 => j.times.in <= j.times.out
      BY DEF JobOK, Instants, Times
    <1> QED BY <1>3, <1>4, <1>5, <1>6, <1>7, <1>8 DEF JobOK, Days, Instants

\* The request of w alone goes on.
LEMMA GoesOn ==
    ASSUME JobsOK, NEW w \in Workers, NEW j, Goes(w, j), JobOK(j)', Onward
    PROVE  JobsOK' /\ job'[w] = j /\ \A x \in Workers \ {w} : job'[x] = job[x]
    <1>1. /\ job' = [x \in Workers |-> job'[x]]
          /\ job'[w] = j
          /\ \A x \in Workers \ {w} : job'[x] = job[x]
      BY DEF JobsOK, Goes
    <1>2. ASSUME NEW x \in Workers PROVE JobOK(job[x])'
      <2>1. CASE x = w
        BY <1>1, <2>1
      <2>2. CASE x # w
        <3>1. JobOK(job[x])
          BY DEF JobsOK
        <3>2. \A k : JobOK(k) => JobOK(k)'
          BY JobStays
        <3> HIDE DEF JobOK
        <3> QED BY <1>1, <2>2, <3>1, <3>2
      <2> QED BY <2>1, <2>2
    <1> HIDE DEF JobOK
    <1> QED BY <1>1, <1>2 DEF JobsOK

LEMMA RegsStay ==
    ASSUME RegsOK, Onward, UNCHANGED regs
    PROVE  RegsOK'
    BY AskStays DEF RegsOK, Reg, Days, Times, Instants

-----------------------------------------------------------------------------
\* A record that is made takes an id nothing refers to.
LEMMA InsertKeeps ==
    ASSUME RestOK, RowsOK, NEW d \in Days, NEW r \in Row, Insert(d, r),
           r.punches = NoPunch, r.in # 0 => d <= Date[now],
           UNCHANGED <<now, overnight>>
    PROVE  /\ RowsOK' /\ nextId <= nextId'
           /\ \A id \in Nat : id < nextId => DayOf(id)' \subseteq DayOf(id)
           /\ rows'[d] = [r EXCEPT !.id = nextId]
           /\ \A e \in Days \ {d} : rows'[e] = rows[e]
           /\ \A id : id = nextId => DayOf(id)' = {d}
           /\ nextId' = nextId + 1
    <1> DEFINE new == [r EXCEPT !.id = nextId]
    <1>1. /\ rows[d] = NoRow /\ rows' = [rows EXCEPT ![d] = new]
          /\ nextId' = nextId + 1
      BY DEF Insert
    <1>2. /\ new \in Row /\ new.id = nextId /\ new.in = r.in
          /\ new.punches = NoPunch /\ nextId \in Nat \ {0}
      BY DEF Row, RowsOK
    <1> HIDE DEF new
    <1>3. rows \in [Days -> Row] /\ \A e \in Days : rows[e].id \in Nat
      BY DEF RowsOK, Row
    <1>4. rows' \in [Days -> Row] /\ rows'[d] = new
          /\ \A e \in Days \ {d} : rows'[e] = rows[e]
      BY <1>1, <1>2, <1>3
    <1>5. \A e \in Days : rows'[e].id < nextId' /\ (rows'[e].id = 0 => rows'[e] = NoRow)
      BY <1>1, <1>2, <1>3, <1>4 DEF RowsOK
    <1>6. \A e, f \in Days : rows'[e].id = rows'[f].id /\ e # f => rows'[e] = NoRow
      BY <1>2, <1>3, <1>4 DEF RowsOK
    <1>7. \A e \in Days : rows'[e].in # 0 => e <= Date[now']
      BY <1>2, <1>4 DEF RowsOK
    <1>8. PunchesOnTheirDay'
      <2>1. Punched(new) = {}
        BY <1>2 DEF Punched, NoPunch
      <2> QED BY <1>4, <2>1 DEF PunchesOnTheirDay, RowsOK, Punched, Instants, Days
    <1>9. \A id \in Nat : id < nextId => DayOf(id)' \subseteq DayOf(id)
      BY <1>2, <1>4 DEF DayOf, Days
    <1>10. \A id : id = nextId => DayOf(id)' = {d}
      BY <1>2, <1>3, <1>4 DEF DayOf, RowsOK, Days
    <1>11. nextId' \in Nat \ {0}
      BY <1>1, <1>2
    <1>12. RowsOK'
      BY <1>4, <1>5, <1>6, <1>7, <1>8, <1>11 DEF RowsOK, Days, Row, Instants, Times,
         NoRow, NoPunch
    <1> QED BY <1>1, <1>2, <1>4, <1>9, <1>10, <1>12 DEF new

\* A record that is there is rewritten.
LEMMA RewriteKeeps ==
    ASSUME RestOK, RowsOK, UNCHANGED <<now, overnight, nextId>>,
           rows' \in [Days -> Row],
           \A d \in Days : rows'[d].id = rows[d].id,
           \A d \in Days : rows[d].id = 0 => rows'[d] = rows[d],
           \A d \in Days : rows'[d].in # 0 => d <= Date[now],
           PunchesOnTheirDay'
    PROVE  /\ RowsOK'
           /\ \A id : DayOf(id)' = DayOf(id)
    <1>1. \A id : DayOf(id)' = DayOf(id)
      BY DEF DayOf, Days
    <1>2. \A d \in Days : rows[d].id = 0 => rows[d] = NoRow
      BY DEF RowsOK
    <1>3. \A d, e \in Days : rows'[d].id = rows'[e].id /\ d # e => rows'[d] = NoRow
      <2> SUFFICES ASSUME NEW d \in Days, NEW e \in Days, d # e,
                          rows'[d].id = rows'[e].id
                   PROVE  rows'[d] = NoRow
        OBVIOUS
      <2>1. rows[d] = NoRow
        BY DEF RowsOK
      <2>2. rows[d].id = 0
        BY <2>1 DEF NoRow
      <2> QED BY <2>1, <2>2
    <1>4. \A d \in Days : rows'[d].id < nextId' /\ (rows'[d].id = 0 => rows'[d] = NoRow)
      BY <1>2 DEF RowsOK
    <1> QED BY <1>1, <1>3, <1>4 DEF RowsOK, Days, Row, Instants, Times, NoRow, NoPunch

\* A request of the kind that lets a record end before it starts, once decided,
\* stays one.
LEMMA OrderKeeps ==
    ASSUME InOrder, Onward,
           \A d \in Days : \/ rows'[d].out = rows[d].out /\ rows'[d].in = rows[d].in
                           \/ rows'[d].out = 0
                           \/ rows'[d].in <= rows'[d].out
                           \/ AskedSo(d)'
    PROVE  InOrder'
    <1>1. \A d \in Days : AskedSo(d) => AskedSo(d)'
      BY DEF AskedSo, Onward
    <1> QED BY <1>1 DEF InOrder, Days

-----------------------------------------------------------------------------
\* An id means one day at most.
LEMMA OneDay ==
    ASSUME RowsOK, NEW d \in Days
    PROVE  /\ DayOf(rows[d].id) \subseteq {d}
           /\ rows[d].id \in Nat /\ rows[d].id < nextId
           /\ rows[d] # NoRow => rows[d].id # 0
    <1>1. rows[d].id \in Nat /\ rows[d].id < nextId
          /\ (rows[d].id = 0 => rows[d] = NoRow)
      BY DEF RowsOK, Row
    <1>2. ASSUME NEW e \in DayOf(rows[d].id) PROVE e = d
      <2> SUFFICES ASSUME e # d PROVE FALSE
        OBVIOUS
      <2>1. e \in Days /\ rows[e].id = rows[d].id /\ rows[d].id # 0
        BY DEF DayOf
      <2>2. rows[d] = NoRow
        BY <2>1 DEF RowsOK
      <2> QED BY <2>1, <2>2 DEF NoRow
    <1> QED BY <1>1, <1>2

LEMMA InDays == \A id : DayOf(id) \subseteq Days
    BY DEF DayOf

\* A step that leaves the tables alone.
LEMMA TablesStand ==
    ASSUME IInv, UNCHANGED <<now, overnight, rows, nextId, regs>>
    PROVE  /\ Onward /\ RowsOK' /\ RegsOK' /\ InOrder'
           /\ \A id : DayOf(id)' = DayOf(id)
    <1>1. Onward /\ \A id : DayOf(id)' = DayOf(id)
      <2>1. \A id : DayOf(id)' = DayOf(id)
        BY DEF DayOf, Days
      <2> QED BY <2>1, LastOK DEF IInv, RestOK, RowsOK, Onward, Instants
    <1>2. RowsOK'
      BY <1>1 DEF IInv, RowsOK, PunchesOnTheirDay, Punched, Days, Row, Instants,
         Times, NoRow, NoPunch
    <1>3. RegsOK'
      BY <1>1, RegsStay DEF IInv
    <1>4. InOrder'
      BY <1>1, OrderKeeps DEF IInv
    <1> QED BY <1>1, <1>2, <1>3, <1>4

\* Whoever begins on an idle employee is alone.
LEMMA BeginsAlone ==
    ASSUME JobsOK, NEW w \in Workers, NEW j, Begins(w, j), j.kind # "write"
    PROVE  AloneOK' /\ alone' \in BOOLEAN /\ Goes(w, j)
    <1>1. job'[w] = j /\ \A x \in Workers \ {w} : job'[x] = job[x]
      BY DEF JobsOK, Begins
    <1>2. alone' => \A x \in Workers : job[x].kind = "idle"
      <2>1. alone' => Idle
        BY DEF Begins
      <2>2. Idle => \A x \in Workers : job[x].kind = "idle"
        BY DEF Idle, NoJob
      <2> QED BY <2>1, <2>2
    <1>3. alone' \in BOOLEAN /\ Goes(w, j)
      BY DEF Begins, Goes, Idle
    <1>4. ASSUME alone', NEW x \in Workers, job'[x].kind # "idle"
          PROVE  x = w
      BY <1>1, <1>2, <1>4
    <1>5. ~(alone' /\ \E x \in Workers : job'[x].kind = "write")
      BY <1>1, <1>4
    <1> QED BY <1>3, <1>4, <1>5 DEF AloneOK

\* ... and stays alone.
LEMMA GoesAlone ==
    ASSUME JobsOK, AloneOK, NEW w \in Workers, NEW j, Goes(w, j),
           job[w].kind # "idle", UNCHANGED alone,
           alone /\ j.kind = "write" =>
             \A d \in DayOf(j.id)' : Derived(j.times, rows'[d])
    PROVE  AloneOK'
    <1>1. job'[w] = j /\ \A x \in Workers \ {w} : job'[x] = job[x]
      BY DEF JobsOK, Goes
    <1>2. alone => \A x \in Workers \ {w} : job[x].kind = "idle"
      BY DEF AloneOK
    <1>3. alone' => \A x, y \in Workers :
                      job'[x].kind # "idle" /\ job'[y].kind # "idle" => x = y
      BY <1>1, <1>2
    <1>4. ASSUME alone', NEW x \in Workers, job'[x].kind = "write"
          PROVE  \A d \in DayOf(job[x].id)' : Derived(job[x].times, rows[d])'
      <2>1. x = w
        BY <1>1, <1>2, <1>4
      <2> QED BY <1>1, <1>4, <2>1 DEF Derived, Punched, Several, DayOf, Days, Instants
    <1> QED BY <1>3, <1>4 DEF AloneOK

LEMMA NoJobOK == JobOK(NoJob) /\ JobOK(NoJob)' /\ NoJob.kind = "idle"
    BY DEF JobOK, NoJob

\* The first step of a request, which only reads.
LEMMA BeginKeeps ==
    ASSUME IInv, NEW w \in Workers, NEW j, Begins(w, j), JobOK(j),
           j.kind # "write", requests' \in 0 .. MaxRequests,
           UNCHANGED <<now, overnight, rows, nextId, regs>>
    PROVE  IInv'
    <1>1. Onward /\ RowsOK' /\ RegsOK' /\ InOrder'
      BY TablesStand
    <1>2. JobOK(j)'
      BY <1>1, JobStays
    <1>3. AloneOK' /\ alone' \in BOOLEAN /\ Goes(w, j)
      BY BeginsAlone DEF IInv
    <1>4. JobsOK'
      BY <1>1, <1>2, <1>3, GoesOn DEF IInv
    <1>5. RestOK'
      BY <1>3 DEF IInv, RestOK, Instants
    <1> QED BY <1>1, <1>3, <1>4, <1>5 DEF IInv

LEMMA AskBound == ASSUME RestOK, Ask PROVE requests' \in 0 .. MaxRequests
    BY BoundOK DEF RestOK, Ask

LEMMA BeginPunchKeeps ==
    ASSUME IInv, NEW w \in Workers, BeginPunch(w)
    PROVE  IInv'
    <1>0. /\ RowsOK /\ RestOK /\ now \in Instants /\ Instants \subseteq Nat
          /\ Date[now] \in Days /\ Date[now] \in Nat /\ Days \subseteq Nat
          /\ requests' \in 0 .. MaxRequests
      BY Dates, AskBound, LastOK DEF IInv, RestOK, BeginPunch, Instants
    <1>1. ASSUME NEW d \in Days, d <= Date[now], ~overnight => d = Date[now],
                 Begins(w, [kind |-> "punch", id |-> rows[d].id, at |-> now])
          PROVE  IInv'
      <2>1. PICK j : j = [kind |-> "punch", id |-> rows[d].id, at |-> now]
        OBVIOUS
      <2>2. JobOK(j)
        BY <1>0, <1>1, <2>1, OneDay DEF JobOK
      <2> QED BY <1>0, <1>1, <2>1, <2>2, BeginKeeps DEF BeginPunch
    <1>2. ASSUME NEW d \in Active,
                 Begins(w, [kind |-> "punch", id |-> rows[d].id, at |-> now])
          PROVE  IInv'
      <2>1. d \in Days /\ rows[d].in # 0 /\ StillActive(d)
        BY <1>2 DEF Active, Unclosed
      <2>2. d <= Date[now] /\ (~overnight => d = Date[now])
        <3>1. d <= Date[now]
          BY <1>0, <2>1 DEF RowsOK
        <3>2. ~overnight => d >= Date[now]
          BY <2>1 DEF StillActive
        <3>3. d \in Nat /\ Date[now] \in Nat
          BY <1>0, <2>1
        <3> QED BY <3>1, <3>2, <3>3
      <2> QED BY <1>1, <1>2, <2>1, <2>2
    <1>3. ASSUME Begins(w, [kind |-> "open", at |-> now]) PROVE IInv'
      <2>1. PICK j : j = [kind |-> "open", at |-> now]
        OBVIOUS
      <2>2. JobOK(j)
        BY <1>0, <2>1 DEF JobOK
      <2> QED BY <1>0, <1>3, <2>1, <2>2, BeginKeeps DEF BeginPunch
    <1>4. ASSUME Begins(w, [kind |-> "punch", id |-> rows[Date[now]].id, at |-> now])
          PROVE  IInv'
      <2>1. \A n \in Nat : n <= n
        OBVIOUS
      <2> QED BY <1>0, <1>1, <1>4, <2>1
    <1> QED BY <1>2, <1>3, <1>4 DEF BeginPunch

LEMMA BeginSubmitKeeps ==
    ASSUME IInv, NEW w \in Workers, NEW d \in Days, NEW in \in Times,
           NEW out \in Times, BeginSubmit(w, d, in, out)
    PROVE  IInv'
    <1>0. RowsOK /\ requests' \in 0 .. MaxRequests
      BY AskBound DEF IInv, BeginSubmit
    <1>1. PICK j : j = [kind |-> "submit", day |-> d, in |-> in, out |-> out,
                        link |-> rows[d].id]
      OBVIOUS
    <1>2. AskOK(j)
      BY <1>0, <1>1, OneDay DEF AskOK, BeginSubmit, Asked
    <1>3. JobOK(j)
      BY <1>1, <1>2 DEF JobOK
    <1> QED BY <1>0, <1>1, <1>3, BeginKeeps DEF BeginSubmit

LEMMA BeginDecideKeeps ==
    ASSUME IInv, NEW w \in Workers, NEW i,
           NEW verdict \in {"approved", "rejected", "withdrawn"},
           BeginDecide(w, i, verdict)
    PROVE  IInv'
    <1>0. requests' \in 0 .. MaxRequests
      BY AskBound DEF IInv, BeginDecide
    <1>1. PICK j : j = [kind |-> verdict, reg |-> i, link |-> regs[i].link]
      OBVIOUS
    <1>2. i \in DOMAIN regs /\ AskOK(regs[i])
      BY DEF BeginDecide, IInv, RegsOK
    <1>3. JobOK(j)
      BY <1>1, <1>2 DEF JobOK, AskOK
    <1>4. j.kind # "write"
      BY <1>1
    <1> QED BY <1>0, <1>1, <1>3, <1>4, BeginKeeps DEF BeginDecide

LEMMA BeginMarkKeeps ==
    ASSUME IInv, NEW w \in Workers, NEW d \in Days, BeginMark(w, d)
    PROVE  IInv'
    <1>0. requests' \in 0 .. MaxRequests /\ rows[d].id \in Nat
      BY AskBound, OneDay DEF IInv, BeginMark
    <1>1. PICK j : j = [kind |-> "mark", day |-> d, id |-> rows[d].id]
      OBVIOUS
    <1>2. JobOK(j)
      BY <1>0, <1>1 DEF JobOK
    <1> QED BY <1>0, <1>1, <1>2, BeginKeeps DEF BeginMark

-----------------------------------------------------------------------------
\* A later step of a request, by what it does to the tables.
LEMMA StepKeeps ==
    ASSUME IInv, NEW w \in Workers, NEW j, Goes(w, j), job[w].kind # "idle",
           JobOK(j)', Onward, RowsOK', RegsOK', InOrder',
           alone /\ j.kind = "write" =>
             \A d \in DayOf(j.id)' : Derived(j.times, rows'[d]),
           UNCHANGED <<now, overnight, requests, alone>>
    PROVE  IInv'
    <1>1. JobsOK'
      BY GoesOn DEF IInv
    <1>2. AloneOK'
      BY GoesAlone DEF IInv
    <1>3. RestOK'
      BY DEF IInv, RestOK, Instants
    <1> QED BY <1>1, <1>2, <1>3 DEF IInv

\* The last one.
LEMMA LastStepKeeps ==
    ASSUME IInv, NEW w \in Workers, Ends(w), job[w].kind # "idle",
           Onward, RowsOK', RegsOK', InOrder',
           UNCHANGED <<now, overnight, requests, alone>>
    PROVE  IInv'
    <1>1. PICK j : j = NoJob
      OBVIOUS
    <1>2. Goes(w, j) /\ JobOK(j)' /\ j.kind = "idle"
      BY <1>1, NoJobOK DEF Ends
    <1> QED BY <1>2, StepKeeps

\* What the insertion of a record leaves.
LEMMA InsertOnward ==
    ASSUME IInv, NEW d \in Days, NEW r \in Row, Insert(d, r),
           r.punches = NoPunch, r.in # 0 => d <= Date[now],
           UNCHANGED <<now, overnight, regs>>
    PROVE  Onward /\ RowsOK' /\ RegsOK'
           /\ \A id : id = nextId => DayOf(id)' = {d}
           /\ nextId' = nextId + 1
           /\ rows'[d] = [r EXCEPT !.id = nextId]
           /\ \A e \in Days \ {d} : rows'[e] = rows[e]
    <1>1. /\ RowsOK' /\ nextId <= nextId'
          /\ \A id \in Nat : id < nextId => DayOf(id)' \subseteq DayOf(id)
          /\ rows'[d] = [r EXCEPT !.id = nextId]
          /\ \A e \in Days \ {d} : rows'[e] = rows[e]
          /\ \A id : id = nextId => DayOf(id)' = {d}
          /\ nextId' = nextId + 1
      BY InsertKeeps DEF IInv
    <1>2. now \in Instants /\ now <= now' /\ nextId \in Nat /\ nextId' \in Nat
      BY <1>1, LastOK DEF IInv, RestOK, RowsOK, Instants
    <1>3. Onward
      BY <1>1, <1>2 DEF Onward, Instants
    <1>4. RegsOK'
      BY <1>3, RegsStay DEF IInv
    <1> QED BY <1>1, <1>3, <1>4

\* What the rewriting of records leaves.
LEMMA RewriteOnward ==
    ASSUME IInv, UNCHANGED <<now, overnight, nextId, regs>>,
           \A id : DayOf(id)' = DayOf(id)
    PROVE  Onward /\ RegsOK'
    <1>1. now \in Instants /\ now <= now' /\ nextId \in Nat /\ nextId <= nextId'
      BY LastOK DEF IInv, RestOK, RowsOK, Instants
    <1>2. Onward
      BY <1>1 DEF Onward, Instants
    <1> QED BY <1>2, RegsStay DEF IInv

LEMMA OpenDayKeeps ==
    ASSUME IInv, NEW w \in Workers, OpenDay(w)
    PROVE  IInv'
    <1>1. PICK t : t = job[w].at
      OBVIOUS
    <1>2. t \in Instants /\ t <= now /\ now \in Instants
      BY <1>1 DEF IInv, JobsOK, JobOK, OpenDay, RestOK
    <1>3. /\ Date[t] \in Days /\ Date[t] <= Date[now] /\ t # 0 /\ t \in Nat
          /\ nextId \in Nat
      BY <1>2, Dates, LastOK DEF Instants, IInv, RowsOK
    <1>4. PICK r : r = [NoRow EXCEPT !.in = t, !.status = "checked_in",
                                     !.shift = TRUE]
      OBVIOUS
    <1>5. r \in Row /\ r.punches = NoPunch /\ r.in = t /\ r.out = 0
      BY <1>2, <1>4 DEF NoRow, NoPunch, Row, Times
    <1>6. Insert(Date[t], r)
      BY <1>1, <1>4 DEF OpenDay
    <1>7. /\ Onward /\ RowsOK' /\ RegsOK'
          /\ \A id : id = nextId => DayOf(id)' = {Date[t]}
          /\ nextId' = nextId + 1
          /\ rows'[Date[t]] = [r EXCEPT !.id = nextId]
          /\ \A e \in Days \ {Date[t]} : rows'[e] = rows[e]
      BY <1>3, <1>5, <1>6, InsertOnward DEF OpenDay
    <1>8. InOrder'
      <2>1. rows'[Date[t]].out = 0
        BY <1>5, <1>7 DEF Row
      <2> QED BY <1>7, <2>1, OrderKeeps DEF IInv
    <1>9. PICK j : j = [kind |-> "punch", id |-> nextId, at |-> t]
      OBVIOUS
    <1>10. JobOK(j)'
      <2>1. DayOf(j.id)' = {Date[t]} /\ j.id \in Nat /\ j.id < nextId'
        BY <1>3, <1>7, <1>9
      <2>2. j.at \in Instants /\ j.at <= now' /\ Date[t] <= Date[now']
        BY <1>2, <1>3, <1>9 DEF OpenDay
      <2> QED BY <1>9, <2>1, <2>2 DEF JobOK, Instants
    <1>11. Goes(w, j) /\ job[w].kind # "idle" /\ j.kind # "write"
      BY <1>1, <1>9 DEF OpenDay
    <1> QED BY <1>7, <1>8, <1>10, <1>11, StepKeeps DEF OpenDay

LEMMA PunchKeeps ==
    ASSUME IInv, NEW w \in Workers, Punch(w)
    PROVE  IInv'
    <1>1. PICK j : j = job[w]
      OBVIOUS
    <1>2. /\ j.at \in Instants /\ j.id \in Nat /\ j.id < nextId
          /\ \A d \in DayOf(j.id) : d <= Date[now]
          /\ \A d \in DayOf(j.id) : ~overnight => d = Date[j.at]
          /\ RowsOK /\ rows \in [Days -> Row]
      BY <1>1 DEF IInv, JobsOK, JobOK, Punch, RowsOK
    <1>3. PICK d \in DayOf(j.id) : rows' = [rows EXCEPT ![d].punches[j.at] = @ + 1]
      BY <1>1 DEF Punch
    <1>4. d \in Days /\ rows[d] \in Row /\ rows[d].id # 0
      BY <1>2, <1>3 DEF DayOf
    <1>5. PICK p : p = [rows[d].punches EXCEPT ![j.at] = @ + 1]
      OBVIOUS
    <1>6. p \in [Instants -> Nat]
          /\ \A t \in Instants \ {j.at} : p[t] = rows[d].punches[t]
      BY <1>2, <1>4, <1>5 DEF Row
    <1>7. PICK r : r = [rows[d] EXCEPT !.punches = p]
      OBVIOUS
    <1>8. /\ r \in Row /\ r.id = rows[d].id /\ r.in = rows[d].in
          /\ r.out = rows[d].out /\ r.punches = p
      BY <1>4, <1>6, <1>7 DEF Row
    <1>9. /\ rows' \in [Days -> Row] /\ rows'[d] = r
          /\ \A e \in Days \ {d} : rows'[e] = rows[e]
      <2>1. rows' = [rows EXCEPT ![d] = r]
        BY <1>2, <1>3, <1>4, <1>5, <1>7
      <2> QED BY <1>2, <1>4, <1>8, <2>1
    <1>10. PunchesOnTheirDay'
      <2> SUFFICES ASSUME ~overnight, NEW e \in Days, NEW t \in Punched(rows'[e])
                   PROVE  Date[t] = e
        BY DEF PunchesOnTheirDay, Punch, Days, Punched, Instants
      <2>1. t \in Instants /\ rows'[e].punches[t] > 0
        BY DEF Punched
      <2>2. CASE e = d /\ t = j.at
        BY <1>2, <1>3, <2>2
      <2>3. CASE ~(e = d /\ t = j.at)
        <3>1. t \in Punched(rows[e])
          BY <1>6, <1>8, <1>9, <2>1, <2>3 DEF Punched
        <3> QED BY <1>2, <3>1 DEF RowsOK, PunchesOnTheirDay
      <2> QED BY <2>2, <2>3
    <1>11. RowsOK' /\ \A id : DayOf(id)' = DayOf(id)
      <2>1. \A e \in Days : /\ rows'[e].id = rows[e].id
                            /\ rows[e].id = 0 => rows'[e] = rows[e]
                            /\ rows'[e].in # 0 => e <= Date[now]
        BY <1>2, <1>4, <1>8, <1>9 DEF RowsOK
      <2> QED BY <1>9, <1>10, <2>1, RewriteKeeps DEF IInv, Punch
    <1>12. Onward /\ RegsOK'
      BY <1>11, RewriteOnward DEF Punch
    <1>13. InOrder'
      BY <1>8, <1>9, <1>12, OrderKeeps DEF IInv
    <1>14. PICK k : k = [kind |-> "score", id |-> j.id]
      OBVIOUS
    <1>15. JobOK(k)'
      BY <1>2, <1>11, <1>14 DEF JobOK, Punch
    <1>16. Goes(w, k) /\ job[w].kind # "idle" /\ k.kind # "write"
      BY <1>1, <1>14 DEF Punch
    <1> QED BY <1>11, <1>12, <1>13, <1>15, <1>16, StepKeeps DEF Punch

LEMMA ReadPunchesKeeps ==
    ASSUME IInv, NEW w \in Workers, ReadPunches(w)
    PROVE  IInv'
    <1>1. PICK i : i = job[w].id
      OBVIOUS
    <1>2. /\ i \in Nat /\ i < nextId /\ \A d \in DayOf(i) : d <= Date[now]
          /\ RowsOK
      BY <1>1 DEF IInv, JobsOK, JobOK, ReadPunches
    <1>3. PICK d \in DayOf(i), times \in [in : Instants, out : Times] :
             /\ Derived(times, rows[d])
             /\ Goes(w, [kind |-> "write", id |-> i, times |-> times])
      BY <1>1 DEF ReadPunches
    <1>4. /\ Onward /\ RowsOK' /\ RegsOK' /\ InOrder'
          /\ \A id : DayOf(id)' = DayOf(id)
      BY TablesStand DEF ReadPunches
    <1>5. d \in Days /\ rows[d].id = i
      BY <1>3 DEF DayOf
    <1>6. DayOf(i) \subseteq {d}
      BY <1>2, <1>5, OneDay
    <1>7. PICK j : j = [kind |-> "write", id |-> i, times |-> times]
      OBVIOUS
    <1>8. times.out # 0 => times.in <= times.out
      BY <1>3 DEF Derived
    <1>9. JobOK(j)'
      BY <1>2, <1>3, <1>4, <1>7, <1>8 DEF JobOK, ReadPunches, Instants, Times
    <1>10. \A e \in DayOf(j.id)' : Derived(j.times, rows'[e])
      BY <1>3, <1>4, <1>6, <1>7 DEF ReadPunches
    <1>11. Goes(w, j) /\ job[w].kind # "idle"
      BY <1>3, <1>7 DEF ReadPunches
    <1> QED BY <1>4, <1>9, <1>10, <1>11, StepKeeps DEF ReadPunches

LEMMA WriteTimesKeeps ==
    ASSUME IInv, NEW w \in Workers, WriteTimes(w)
    PROVE  IInv'
    <1>1. PICK j : j = job[w]
      OBVIOUS
    <1>2. /\ j.times.in \in Instants /\ j.times.out \in Times
          /\ j.times.out # 0 => j.times.in <= j.times.out
          /\ \A d \in DayOf(j.id) : d <= Date[now]
          /\ RowsOK /\ rows \in [Days -> Row]
      BY <1>1 DEF IInv, JobsOK, JobOK, WriteTimes, RowsOK
    <1>3. rows' = [d \in Days |-> IF d \in DayOf(j.id) THEN Scored(rows[d], j.times)
                                  ELSE rows[d]]
      BY <1>1 DEF WriteTimes
    <1>4. ASSUME NEW d \in Days, d \in DayOf(j.id)
          PROVE  /\ rows'[d] \in Row /\ rows'[d].id = rows[d].id /\ rows[d].id # 0
                 /\ rows'[d].in = j.times.in /\ rows'[d].out = j.times.out
                 /\ rows'[d].punches = rows[d].punches
      <2>1. rows'[d] = Scored(rows[d], j.times) /\ rows[d] \in Row /\ rows[d].id # 0
        BY <1>2, <1>3, <1>4 DEF DayOf
      <2>2. PICK s \in {"checked_in", "scored"} :
               rows'[d] = [rows[d] EXCEPT !.in = j.times.in, !.out = j.times.out,
                                          !.status = s, !.shift = TRUE]
        BY <2>1 DEF Scored
      <2> QED BY <1>2, <2>1, <2>2 DEF Row, Times
    <1>5. ASSUME NEW d \in Days, d \notin DayOf(j.id) PROVE rows'[d] = rows[d]
      BY <1>3, <1>5
    <1>6. rows' \in [Days -> Row]
      BY <1>2, <1>3, <1>4, <1>5
    <1>7. PunchesOnTheirDay'
      <2>1. \A d \in Days : Punched(rows'[d]) = Punched(rows[d])
        BY <1>4, <1>5 DEF Punched
      <2> QED BY <1>2, <2>1 DEF RowsOK, PunchesOnTheirDay, WriteTimes, Days, Punched,
              Instants
    <1>8. RowsOK' /\ \A id : DayOf(id)' = DayOf(id)
      <2>1. \A e \in Days : /\ rows'[e].id = rows[e].id
                            /\ rows[e].id = 0 => rows'[e] = rows[e]
                            /\ rows'[e].in # 0 => e <= Date[now]
        BY <1>2, <1>4, <1>5 DEF RowsOK
      <2> QED BY <1>6, <1>7, <2>1, RewriteKeeps DEF IInv, WriteTimes
    <1>9. Onward /\ RegsOK'
      BY <1>8, RewriteOnward DEF WriteTimes
    <1>10. InOrder'
      <2>1. \A d \in Days : \/ rows'[d].out = rows[d].out /\ rows'[d].in = rows[d].in
                            \/ rows'[d].out = 0
                            \/ rows'[d].in <= rows'[d].out
        BY <1>2, <1>4, <1>5
      <2> QED BY <1>9, <2>1, OrderKeeps DEF IInv
    <1>11. Ends(w) /\ job[w].kind # "idle"
      BY DEF WriteTimes
    <1> QED BY <1>8, <1>9, <1>10, <1>11, LastStepKeeps DEF WriteTimes

LEMMA SubmitKeeps ==
    ASSUME IInv, NEW w \in Workers, Submit(w)
    PROVE  IInv'
    <1>1. PICK j : j = job[w]
      OBVIOUS
    <1>2. AskOK(j) /\ RowsOK /\ regs \in Seq(Reg)
      BY <1>1 DEF IInv, JobsOK, JobOK, Submit, RegsOK
    <1>3. PICK q : q = [status |-> "pending", day |-> j.day, in |-> j.in,
                        out |-> j.out, link |-> j.link]
      OBVIOUS
    <1>4. q \in Reg /\ AskOK(q)
      BY <1>2, <1>3 DEF AskOK, Reg
    <1>5. regs' = Append(regs, q)
      BY <1>1, <1>3 DEF Submit
    <1>6. /\ regs' \in Seq(Reg) /\ regs'[Len(regs) + 1] = q
          /\ DOMAIN regs' = DOMAIN regs \cup {Len(regs) + 1}
          /\ \A i \in DOMAIN regs : regs'[i] = regs[i]
      BY <1>2, <1>4, <1>5
    <1>7. Onward /\ RowsOK' /\ \A id : DayOf(id)' = DayOf(id)
      <2>1. \A id : DayOf(id)' = DayOf(id)
        BY DEF DayOf, Days, Submit
      <2>2. now \in Instants /\ now <= now' /\ nextId \in Nat /\ nextId <= nextId'
        BY LastOK DEF IInv, RestOK, RowsOK, Instants, Submit
      <2>3. Onward
        BY <1>6, <2>1, <2>2 DEF Onward, Submit, Instants
      <2>4. RowsOK'
        BY <1>2 DEF RowsOK, PunchesOnTheirDay, Punched, Days, Row, Instants,
           Times, NoRow, NoPunch, Submit
      <2> QED BY <2>1, <2>3, <2>4
    <1>8. RegsOK'
      <2>1. \A i \in DOMAIN regs : AskOK(regs[i])
        BY DEF IInv, RegsOK
      <2>2. \A r : AskOK(r) => AskOK(r)'
        BY <1>7, AskStays
      <2>3. ASSUME NEW i \in DOMAIN regs' PROVE AskOK(regs[i])'
        BY <1>4, <1>6, <2>1, <2>2
      <2> HIDE DEF AskOK
      <2> QED BY <1>6, <2>3 DEF RegsOK, Reg, Days, Times, Instants
    <1>9. InOrder'
      BY <1>7, OrderKeeps DEF IInv, Submit
    <1>10. Ends(w) /\ job[w].kind # "idle"
      BY DEF Submit
    <1> QED BY <1>7, <1>8, <1>9, <1>10, LastStepKeeps DEF Submit

-----------------------------------------------------------------------------
\* A decision changes the status and the link of one request.
LEMMA DecidedLeaves ==
    ASSUME regs \in Seq(Reg), NEW i \in DOMAIN regs,
           NEW verdict \in {"approved", "rejected", "withdrawn"}, NEW link \in Nat,
           regs' = Decided(i, verdict, link)
    PROVE  /\ regs' \in Seq(Reg) /\ DOMAIN regs' = DOMAIN regs
           /\ \A k \in DOMAIN regs \ {i} : regs'[k] = regs[k]
           /\ regs'[i].day = regs[i].day /\ regs'[i].in = regs[i].in
           /\ regs'[i].out = regs[i].out /\ regs'[i].link = link
           /\ regs'[i].status # "pending"
    <1>1. PICK s : s = (IF regs[i].status = "withdrawn" THEN regs[i].status ELSE verdict)
      OBVIOUS
    <1>2. regs[i] \in Reg /\ s \in {"approved", "rejected", "withdrawn"}
      BY <1>1
    <1>3. PICK q : q = [regs[i] EXCEPT !.status = s, !.link = link]
      OBVIOUS
    <1>4. /\ q \in Reg /\ q.day = regs[i].day /\ q.in = regs[i].in
          /\ q.out = regs[i].out /\ q.link = link /\ q.status = s
      BY <1>2, <1>3 DEF Reg
    <1>5. regs' = [regs EXCEPT ![i] = q]
      BY <1>1, <1>3 DEF Decided
    <1>6. /\ regs' \in Seq(Reg) /\ DOMAIN regs' = DOMAIN regs /\ regs'[i] = q
          /\ \A k \in DOMAIN regs \ {i} : regs'[k] = regs[k]
      BY <1>4, <1>5
    <1> QED BY <1>2, <1>4, <1>6

\* What a decision leaves, if it links the request to a record of its day or to
\* none.
LEMMA DecidedOnward ==
    ASSUME IInv, NEW i \in DOMAIN regs,
           NEW verdict \in {"approved", "rejected", "withdrawn"}, NEW link \in Nat,
           regs' = Decided(i, verdict, link),
           UNCHANGED <<now, overnight>>, nextId' \in Nat, nextId <= nextId',
           \A id \in Nat : id < nextId => DayOf(id)' \subseteq DayOf(id),
           link < nextId, DayOf(link) \subseteq {regs[i].day}
    PROVE  Onward /\ RegsOK'
    <1>0. regs \in Seq(Reg) /\ \A k \in DOMAIN regs : AskOK(regs[k])
      BY DEF IInv, RegsOK
    <1>1. /\ regs' \in Seq(Reg) /\ DOMAIN regs' = DOMAIN regs
          /\ \A k \in DOMAIN regs \ {i} : regs'[k] = regs[k]
          /\ regs'[i].day = regs[i].day /\ regs'[i].in = regs[i].in
          /\ regs'[i].out = regs[i].out /\ regs'[i].link = link
          /\ regs'[i].status # "pending"
      BY <1>0, DecidedLeaves
    <1>2. Onward
      <2>1. now \in Instants /\ now <= now' /\ nextId \in Nat
        BY LastOK DEF IInv, RestOK, RowsOK, Instants
      <2> QED BY <1>1, <2>1 DEF Onward, Instants
    <1>3. ASSUME NEW k \in DOMAIN regs' PROVE AskOK(regs[k])'
      <2>1. CASE k = i
        <3>1. PICK q : q = regs'[i]
          OBVIOUS
        <3>2. AskOK(q)
          BY <1>0, <1>1, <3>1 DEF AskOK
        <3>3. AskOK(q)'
          BY <1>2, <3>2, AskStays
        <3> HIDE DEF AskOK
        <3> QED BY <2>1, <3>1, <3>3
      <2>2. CASE k # i
        <3>1. PICK q : q = regs[k]
          OBVIOUS
        <3>2. AskOK(q)' /\ regs'[k] = q
          BY <1>0, <1>1, <1>2, <2>2, <3>1, AskStays
        <3> HIDE DEF AskOK
        <3> QED BY <3>2
      <2> QED BY <2>1, <2>2
    <1>4. RegsOK'
      BY <1>1, <1>3 DEF RegsOK, Reg, Days, Times, Instants
    <1> QED BY <1>2, <1>4

\* The record an approval writes ends after it starts, or the request was for
\* its end alone or for an end before its start.
LEMMA RegularizedInOrder ==
    ASSUME NEW r \in Row, NEW reg, AskOK(reg)
    PROVE  LET n == Regularized(r, reg) IN
           /\ n \in Row /\ n.id = r.id /\ n.punches = r.punches
           /\ n.status = "present"
           /\ reg.in # 0 => n.in = reg.in
           /\ reg.in = 0 => n.in = r.in
           /\ reg.out # 0 => n.out = reg.out
           /\ \/ n.in <= n.out
              \/ reg.in = 0 \/ reg.out < reg.in
    <1>1. PICK in : in = (IF reg.in = 0 THEN r.in ELSE reg.in)
      OBVIOUS
    <1>2. PICK out : out = (IF reg.out = 0 THEN r.out ELSE reg.out)
      OBVIOUS
    <1>3. in \in Times /\ out \in Times
      BY <1>1, <1>2 DEF AskOK, Row
    <1>4. PICK n : n = [r EXCEPT !.in = in, !.out = out, !.status = "present"]
      OBVIOUS
    <1>5. n = Regularized(r, reg)
      BY <1>1, <1>2, <1>4 DEF Regularized
    <1>6. /\ n \in Row /\ n.id = r.id /\ n.punches = r.punches /\ n.in = in
          /\ n.out = out /\ n.status = "present"
      BY <1>3, <1>4 DEF Row
    <1> HIDE DEF Regularized
    <1>7. n.in <= n.out \/ reg.in = 0 \/ reg.out < reg.in
      BY <1>1, <1>2, <1>6 DEF AskOK, Times, Instants
    <1> QED BY <1>1, <1>2, <1>5, <1>6, <1>7

\* The rewriting of the day of one request.
LEMMA RegularizeKeeps ==
    ASSUME IInv, NEW reg, AskOK(reg), NEW on, on \subseteq {reg.day},
           \A d \in on : rows[d].id # 0,
           rows' = [d \in Days |-> IF d \in on THEN Regularized(rows[d], reg)
                                   ELSE rows[d]],
           UNCHANGED <<now, overnight, nextId>>
    PROVE  /\ RowsOK' /\ \A id : DayOf(id)' = DayOf(id)
           /\ \A d \in Days : \/ rows'[d].out = rows[d].out /\ rows'[d].in = rows[d].in
                              \/ rows'[d].in <= rows'[d].out
                              \/ d = reg.day /\ (reg.in = 0 \/ reg.out < reg.in)
    <1>0. RestOK /\ RowsOK /\ rows \in [Days -> Row]
      BY DEF IInv, RowsOK
    <1>1. ASSUME NEW d \in Days, d \in on
          PROVE  /\ rows'[d] \in Row /\ rows'[d].id = rows[d].id
                 /\ rows'[d].punches = rows[d].punches
                 /\ d = reg.day /\ d <= Date[now]
                 /\ rows'[d].in <= rows'[d].out \/ reg.in = 0 \/ reg.out < reg.in
      <2>1. rows'[d] = Regularized(rows[d], reg) /\ rows[d] \in Row /\ d = reg.day
        BY <1>0, <1>1
      <2> QED BY <2>1, RegularizedInOrder DEF AskOK
    <1>2. ASSUME NEW d \in Days, d \notin on PROVE rows'[d] = rows[d]
      BY <1>2
    <1>3. rows' \in [Days -> Row]
      BY <1>0, <1>1, <1>2
    <1>4. PunchesOnTheirDay'
      <2>1. \A d \in Days : Punched(rows'[d]) = Punched(rows[d])
        BY <1>1, <1>2 DEF Punched
      <2> QED BY <1>0, <2>1 DEF RowsOK, PunchesOnTheirDay, Days, Punched, Instants
    <1>5. RowsOK' /\ \A id : DayOf(id)' = DayOf(id)
      <2>1. \A e \in Days : /\ rows'[e].id = rows[e].id
                            /\ rows[e].id = 0 => rows'[e] = rows[e]
                            /\ rows'[e].in # 0 => e <= Date[now]
        BY <1>0, <1>1, <1>2 DEF RowsOK
      <2> QED BY <1>0, <1>3, <1>4, <2>1, RewriteKeeps
    <1> QED BY <1>1, <1>2, <1>5

LEMMA ApproveKeeps ==
    ASSUME IInv, NEW w \in Workers, Approve(w)
    PROVE  IInv'
    <1>1. PICK j : j = job[w]
      OBVIOUS
    <1>2. PICK i : i = j.reg
      OBVIOUS
    <1>3. PICK reg : reg = regs[i]
      OBVIOUS
    <1>4. /\ i \in DOMAIN regs /\ j.link \in Nat /\ j.link < nextId
          /\ DayOf(j.link) \subseteq {reg.day} /\ AskOK(reg)
          /\ RowsOK /\ rows \in [Days -> Row] /\ RestOK /\ nextId \in Nat
          /\ reg.day \in Days /\ reg.link \in Nat
          /\ reg.link < nextId /\ DayOf(reg.link) \subseteq {reg.day}
      BY <1>1, <1>2, <1>3 DEF IInv, JobsOK, JobOK, Approve, RegsOK, RowsOK, AskOK
    <1>5. /\ DayOf(rows[reg.day].id) \subseteq {reg.day}
          /\ rows[reg.day].id \in Nat /\ rows[reg.day].id < nextId
          /\ rows[reg.day] # NoRow => rows[reg.day].id # 0
      BY <1>4, OneDay
    <1>6. PICK on : on = (IF j.link # 0 THEN DayOf(j.link) ELSE LookedUp(reg))
      OBVIOUS
    <1>7. on \subseteq {reg.day} /\ \A d \in on : rows[d].id # 0
      BY <1>4, <1>5, <1>6 DEF LookedUp, DayOf
    <1>8. Ends(w) /\ job[w].kind # "idle" /\ UNCHANGED <<now, overnight, requests, alone>>
      BY DEF Approve
    <1>9. ASSUME rows' = [d \in Days |-> IF d \in on THEN Regularized(rows[d], reg)
                                         ELSE rows[d]],
                 regs' = Decided(i, "approved",
                             IF j.link # 0 \/ reg.status = "withdrawn"
                               THEN reg.link ELSE rows[reg.day].id),
                 UNCHANGED nextId
          PROVE  IInv'
      <2>1. /\ RowsOK' /\ \A id : DayOf(id)' = DayOf(id)
            /\ \A d \in Days : \/ rows'[d].out = rows[d].out /\ rows'[d].in = rows[d].in
                               \/ rows'[d].in <= rows'[d].out
                               \/ d = reg.day /\ (reg.in = 0 \/ reg.out < reg.in)
        BY <1>4, <1>7, <1>8, <1>9, RegularizeKeeps
      <2>2. PICK link : link = (IF j.link # 0 \/ reg.status = "withdrawn"
                                  THEN reg.link ELSE rows[reg.day].id)
        OBVIOUS
      <2>3. /\ link \in Nat /\ link < nextId /\ DayOf(link) \subseteq {reg.day}
            /\ regs' = Decided(i, "approved", link)
        BY <1>4, <1>5, <1>9, <2>2
      <2>4. nextId' \in Nat /\ nextId <= nextId'
        BY <1>4, <1>9
      <2>5. Onward /\ RegsOK'
        BY <1>3, <1>4, <1>8, <2>1, <2>3, <2>4, DecidedOnward
      <2>6. /\ i \in DOMAIN regs' /\ regs'[i].day = reg.day /\ regs'[i].in = reg.in
            /\ regs'[i].out = reg.out /\ regs'[i].status # "pending"
        BY <1>3, <1>4, <2>3, DecidedLeaves DEF IInv, RegsOK
      <2>7. InOrder'
        <3>1. reg.in = 0 \/ reg.out < reg.in => AskedSo(reg.day)'
          BY <1>4, <2>6 DEF AskedSo
        <3>2. \A d \in Days : d = reg.day /\ (reg.in = 0 \/ reg.out < reg.in) => AskedSo(d)'
          BY <3>1
        <3> QED BY <2>1, <2>5, <3>2, OrderKeeps DEF IInv
      <2> QED BY <1>8, <2>1, <2>5, <2>7, LastStepKeeps
    <1>10. ASSUME Insert(reg.day, Regularized(NoRow, reg)),
                  regs' = Decided(i, "approved", reg.link)
           PROVE  IInv'
      <2>1. NoRow \in Row /\ NoRow.punches = NoPunch /\ NoRow.in = 0
        BY DEF NoRow, NoPunch, Row, Times
      <2>2. PICK r : r = Regularized(NoRow, reg)
        OBVIOUS
      <2>3. /\ r \in Row /\ r.punches = NoPunch
            /\ r.in <= r.out \/ reg.in = 0 \/ reg.out < reg.in
        BY <1>4, <2>1, <2>2, RegularizedInOrder
      <2>4. /\ RowsOK' /\ nextId <= nextId'
            /\ \A id \in Nat : id < nextId => DayOf(id)' \subseteq DayOf(id)
            /\ rows'[reg.day] = [r EXCEPT !.id = nextId]
            /\ \A e \in Days \ {reg.day} : rows'[e] = rows[e]
            /\ nextId' = nextId + 1
        BY <1>4, <1>8, <1>10, <2>2, <2>3, InsertKeeps DEF AskOK
      <2>5. Onward /\ RegsOK'
        <3>1. nextId' \in Nat
          BY <1>4, <2>4
        <3> QED BY <1>3, <1>4, <1>8, <1>10, <2>4, <3>1, DecidedOnward
      <2>6. /\ i \in DOMAIN regs' /\ regs'[i].day = reg.day /\ regs'[i].in = reg.in
            /\ regs'[i].out = reg.out /\ regs'[i].status # "pending"
        BY <1>3, <1>4, <1>10, DecidedLeaves DEF IInv, RegsOK
      <2>7. InOrder'
        <3>1. reg.in = 0 \/ reg.out < reg.in => AskedSo(reg.day)'
          BY <1>4, <2>6 DEF AskedSo
        <3>2. \A d \in Days : d = reg.day /\ (reg.in = 0 \/ reg.out < reg.in) => AskedSo(d)'
          BY <3>1
        <3>3. rows'[reg.day].in <= rows'[reg.day].out \/ reg.in = 0 \/ reg.out < reg.in
          BY <2>3, <2>4 DEF Row
        <3> QED BY <2>4, <2>5, <3>2, <3>3, OrderKeeps DEF IInv
      <2> QED BY <1>8, <2>4, <2>5, <2>7, LastStepKeeps
    <1>11. \/ /\ rows' = [d \in Days |-> IF d \in on THEN Regularized(rows[d], reg)
                                         ELSE rows[d]]
              /\ regs' = Decided(i, "approved",
                             IF j.link # 0 \/ reg.status = "withdrawn"
                               THEN reg.link ELSE rows[reg.day].id)
              /\ UNCHANGED nextId
           \/ /\ Insert(reg.day, Regularized(NoRow, reg))
              /\ regs' = Decided(i, "approved", reg.link)
      BY <1>1, <1>2, <1>3, <1>6 DEF Approve
    <1> QED BY <1>9, <1>10, <1>11

LEMMA CloseKeeps ==
    ASSUME IInv, NEW w \in Workers, Close(w)
    PROVE  IInv'
    <1>1. PICK i : i = job[w].reg
      OBVIOUS
    <1>2. PICK verdict : verdict = job[w].kind
      OBVIOUS
    <1>3. PICK link : link = regs[i].link
      OBVIOUS
    <1>4. /\ verdict \in {"approved", "rejected", "withdrawn"} /\ i \in DOMAIN regs
          /\ regs' = Decided(i, verdict, link) /\ AskOK(regs[i])
          /\ UNCHANGED <<now, overnight, rows, nextId, requests, alone>>
      BY <1>1, <1>2, <1>3 DEF IInv, JobsOK, JobOK, Close, RegsOK
    <1>5. link \in Nat /\ link < nextId /\ DayOf(link) \subseteq {regs[i].day}
      BY <1>3, <1>4 DEF AskOK
    <1>6. \A id : DayOf(id)' = DayOf(id)
      BY <1>4 DEF DayOf, Days
    <1>7. Onward /\ RegsOK'
      <2>1. nextId' \in Nat /\ nextId <= nextId'
        BY <1>4 DEF IInv, RowsOK
      <2> QED BY <1>4, <1>5, <1>6, <2>1, DecidedOnward
    <1>8. RowsOK'
      BY <1>4 DEF IInv, RowsOK, PunchesOnTheirDay, Punched, Days, Row, Instants,
         Times, NoRow, NoPunch
    <1>9. InOrder'
      BY <1>4, <1>7, OrderKeeps DEF IInv
    <1>10. Ends(w) /\ job[w].kind # "idle"
      BY DEF Close
    <1> QED BY <1>4, <1>7, <1>8, <1>9, <1>10, LastStepKeeps

-----------------------------------------------------------------------------
LEMMA MarkKeeps ==
    ASSUME IInv, NEW w \in Workers, Mark(w)
    PROVE  IInv'
    <1>1. PICK j : j = job[w]
      OBVIOUS
    <1>2. /\ j.day \in Days /\ j.id \in Nat /\ RowsOK /\ RestOK
          /\ rows \in [Days -> Row]
      BY <1>1 DEF IInv, JobsOK, JobOK, Mark, RowsOK
    <1>3. /\ Ends(w) /\ job[w].kind # "idle"
          /\ UNCHANGED <<now, overnight, regs, requests, alone>>
      BY DEF Mark
    <1>4. ASSUME rows' = [d \in Days |-> IF d \in DayOf(j.id)
                                           THEN [rows[d] EXCEPT !.status = "marked"]
                                           ELSE rows[d]],
                 UNCHANGED nextId
          PROVE  IInv'
      <2>1. ASSUME NEW d \in Days
            PROVE  /\ rows'[d] \in Row /\ rows'[d].id = rows[d].id
                   /\ rows[d].id = 0 => rows'[d] = rows[d]
                   /\ rows'[d].punches = rows[d].punches
                   /\ rows'[d].in = rows[d].in /\ rows'[d].out = rows[d].out
        <3>1. rows[d] \in Row
          BY <1>2
        <3>2. CASE d \in DayOf(j.id)
          <4>1. rows'[d] = [rows[d] EXCEPT !.status = "marked"] /\ rows[d].id # 0
            BY <1>4, <3>2 DEF DayOf
          <4> QED BY <3>1, <4>1 DEF Row
        <3>3. CASE d \notin DayOf(j.id)
          BY <1>4, <3>1, <3>3
        <3> QED BY <3>2, <3>3
      <2>2. rows' \in [Days -> Row]
        BY <1>4, <2>1
      <2>3. PunchesOnTheirDay'
        <3>1. \A d \in Days : Punched(rows'[d]) = Punched(rows[d])
          BY <2>1 DEF Punched
        <3> QED BY <1>2, <1>3, <3>1 DEF RowsOK, PunchesOnTheirDay, Days, Punched, Instants
      <2>4. \A e \in Days : rows'[e].in # 0 => e <= Date[now]
        BY <1>2, <2>1 DEF RowsOK
      <2>5. RowsOK' /\ \A id : DayOf(id)' = DayOf(id)
        BY <1>2, <1>3, <1>4, <2>1, <2>2, <2>3, <2>4, RewriteKeeps
      <2>6. Onward /\ RegsOK'
        BY <1>3, <1>4, <2>5, RewriteOnward
      <2>7. InOrder'
        BY <2>1, <2>6, OrderKeeps DEF IInv
      <2> QED BY <1>3, <2>5, <2>6, <2>7, LastStepKeeps
    <1>5. ASSUME Insert(j.day, [NoRow EXCEPT !.status = "marked"]) PROVE IInv'
      <2>1. PICK r : r = [NoRow EXCEPT !.status = "marked"]
        OBVIOUS
      <2>2. r \in Row /\ r.punches = NoPunch /\ r.in = 0 /\ r.out = 0
        BY <2>1 DEF NoRow, NoPunch, Row, Times
      <2>3. /\ Onward /\ RowsOK' /\ RegsOK'
            /\ rows'[j.day] = [r EXCEPT !.id = nextId]
            /\ \A e \in Days \ {j.day} : rows'[e] = rows[e]
        BY <1>2, <1>3, <1>5, <2>1, <2>2, InsertOnward
      <2>4. InOrder'
        <3>1. rows'[j.day].out = 0
          BY <2>2, <2>3 DEF Row
        <3> QED BY <2>3, <3>1, OrderKeeps DEF IInv
      <2> QED BY <1>3, <2>3, <2>4, LastStepKeeps
    <1> QED BY <1>1, <1>4, <1>5 DEF Mark

\* A reset takes a record away; what pointed at it points at nothing.
LEMMA ResetKeeps ==
    ASSUME IInv, NEW d \in Days, Reset(d)
    PROVE  IInv'
    <1>0. /\ RowsOK /\ RestOK /\ rows \in [Days -> Row] /\ regs \in Seq(Reg)
          /\ \A i \in DOMAIN regs : AskOK(regs[i])
          /\ UNCHANGED <<now, overnight, nextId, job>>
          /\ requests' \in 0 .. MaxRequests
      BY AskBound DEF IInv, RowsOK, RegsOK, Reset
    <1>1. rows' = [rows EXCEPT ![d] = NoRow] /\ NoRow \in Row
      BY DEF Reset, NoRow, NoPunch, Row, Times
    <1>2. /\ rows' \in [Days -> Row] /\ rows'[d] = NoRow
          /\ \A e \in Days \ {d} : rows'[e] = rows[e]
      BY <1>0, <1>1
    <1>3. NoRow.id = 0 /\ NoRow.in = 0 /\ NoRow.out = 0 /\ Punched(NoRow) = {}
      BY DEF NoRow, NoPunch, Punched
    <1>4. \A id : DayOf(id)' \subseteq DayOf(id)
      BY <1>2, <1>3 DEF DayOf, Days
    <1>5. RowsOK'
      <2>1. nextId \in Nat \ {0}
        BY <1>0 DEF RowsOK
      <2>2. \A e \in Days : rows'[e].id < nextId' /\ (rows'[e].id = 0 => rows'[e] = NoRow)
        BY <1>0, <1>2, <1>3, <2>1 DEF RowsOK
      <2>3. \A e, f \in Days : rows'[e].id = rows'[f].id /\ e # f => rows'[e] = NoRow
        <3> SUFFICES ASSUME NEW e \in Days, NEW f \in Days, e # f,
                            rows'[e].id = rows'[f].id, e # d
                     PROVE  rows'[e] = NoRow
          BY <1>2
        <3>1. CASE f = d
          BY <1>2, <1>3, <2>2, <3>1
        <3>2. CASE f # d
          BY <1>0, <1>2, <3>2 DEF RowsOK
        <3> QED BY <3>1, <3>2
      <2>4. \A e \in Days : rows'[e].in # 0 => e <= Date[now']
        BY <1>0, <1>2, <1>3 DEF RowsOK
      <2>5. PunchesOnTheirDay'
        BY <1>0, <1>2, <1>3 DEF RowsOK, PunchesOnTheirDay, Days, Punched, Instants
      <2> QED BY <1>0, <1>2, <2>1, <2>2, <2>3, <2>4, <2>5 DEF RowsOK, Days, Row,
              Instants, Times, NoRow, NoPunch
    <1>6. ASSUME NEW i \in DOMAIN regs
          PROVE  /\ regs'[i] \in Reg /\ regs'[i].day = regs[i].day
                 /\ regs'[i].in = regs[i].in /\ regs'[i].out = regs[i].out
                 /\ regs'[i].status = regs[i].status
                 /\ regs'[i].link \in {0, regs[i].link}
      <2>1. regs[i] \in Reg
        BY <1>0
      <2>2. regs'[i] = regs[i] \/ regs'[i] = [regs[i] EXCEPT !.link = 0]
        BY DEF Reset
      <2> QED BY <2>1, <2>2 DEF Reg
    <1>7. DOMAIN regs' = DOMAIN regs /\ regs' \in Seq(Reg)
      <2>1. DOMAIN regs' = DOMAIN regs
        BY DEF Reset
      <2>2. regs' = [i \in 1 .. Len(regs) |-> regs'[i]]
        BY <1>0 DEF Reset
      <2>3. \A i \in 1 .. Len(regs) : regs'[i] \in Reg
        BY <1>0, <1>6
      <2>4. Len(regs) \in Nat
        BY <1>0
      <2> QED BY <2>1, <2>2, <2>3, <2>4
    <1>8. Onward
      <2>1. now \in Instants /\ now <= now' /\ nextId \in Nat /\ nextId <= nextId'
        BY <1>0, LastOK DEF RestOK, RowsOK, Instants
      <2> QED BY <1>0, <1>4, <1>6, <1>7, <2>1 DEF Onward, Instants
    <1>9. RegsOK'
      <2>1. ASSUME NEW i \in DOMAIN regs' PROVE AskOK(regs[i])'
        <3>1. PICK q : q = regs'[i]
          OBVIOUS
        <3>2. AskOK(q)
          <4>1. DayOf(0) = {} /\ 0 < nextId
            BY <1>0 DEF DayOf, RowsOK
          <4>2. /\ i \in DOMAIN regs /\ AskOK(regs[i])
                /\ q.day = regs[i].day /\ q.in = regs[i].in /\ q.out = regs[i].out
                /\ q.link = 0 \/ q.link = regs[i].link
            BY <1>0, <1>6, <1>7, <3>1
          <4>3. q.link \in Nat /\ q.link < nextId /\ DayOf(q.link) \subseteq {q.day}
            BY <4>1, <4>2 DEF AskOK
          <4> QED BY <4>2, <4>3 DEF AskOK
        <3>3. AskOK(q)'
          BY <1>8, <3>2, AskStays
        <3> HIDE DEF AskOK
        <3> QED BY <3>1, <3>3
      <2> QED BY <1>7, <2>1 DEF RegsOK, Reg, Days, Times, Instants
    <1>10. InOrder'
      BY <1>2, <1>3, <1>8, OrderKeeps DEF IInv
    <1>11. JobsOK'
      <2>1. \A j : JobOK(j) => JobOK(j)'
        BY <1>8, JobStays
      <2>2. \A w \in Workers : JobOK(job[w])
        BY DEF IInv, JobsOK
      <2>3. job' = [w \in Workers |-> job'[w]]
        BY <1>0 DEF IInv, JobsOK
      <2>4. ASSUME NEW w \in Workers PROVE JobOK(job[w])'
        <3>1. PICK j : j = job[w]
          OBVIOUS
        <3>2. JobOK(j)' /\ job'[w] = j
          BY <1>0, <2>1, <2>2, <3>1
        <3> HIDE DEF JobOK
        <3> QED BY <3>2
      <2> QED BY <2>3, <2>4 DEF JobsOK
    <1>12. AloneOK' /\ alone' \in BOOLEAN
      <2>1. alone' = Idle
        BY DEF Reset
      <2>2. Idle => \A w \in Workers : job'[w].kind = "idle"
        BY <1>0 DEF Idle, NoJob
      <2> QED BY <2>1, <2>2 DEF AloneOK, Idle
    <1>13. RestOK'
      BY <1>0, <1>12 DEF RestOK, Instants
    <1> QED BY <1>5, <1>9, <1>10, <1>11, <1>12, <1>13 DEF IInv

LEMMA FailKeeps ==
    ASSUME IInv, NEW w \in Workers, Fail(w)
    PROVE  IInv'
    <1>1. Onward /\ RowsOK' /\ RegsOK' /\ InOrder'
      BY TablesStand DEF Fail
    <1>2. PICK j : j = job[w]
      OBVIOUS
    <1>3. Ends(w) /\ UNCHANGED <<now, overnight, requests, alone>>
      BY DEF Fail
    <1>4. CASE job[w].kind # "idle"
      BY <1>1, <1>3, <1>4, LastStepKeeps
    <1>5. CASE job[w].kind = "idle"
      <2>1. PICK k : k = NoJob
        OBVIOUS
      <2>2. Goes(w, k) /\ JobOK(k)' /\ k.kind = "idle"
        BY <1>3, <2>1, NoJobOK DEF Ends
      <2>3. JobsOK' /\ job'[w] = k /\ \A x \in Workers \ {w} : job'[x] = job[x]
        BY <1>1, <2>2, GoesOn DEF IInv
      <2>4. AloneOK'
        <3>1. \A x \in Workers : job'[x].kind = job[x].kind
          BY <1>5, <2>2, <2>3
        <3>2. \A x \in Workers : job'[x].kind = "write" => job'[x] = job[x]
          BY <1>5, <2>2, <2>3
        <3> QED BY <1>3, <3>1, <3>2 DEF AloneOK, IInv, Fail, DayOf, Derived, Punched,
                Several, Days, Instants
      <2> QED BY <1>1, <1>3, <2>3, <2>4 DEF IInv, RestOK, Instants
    <1> QED BY <1>4, <1>5

LEMMA TickKeeps ==
    ASSUME IInv, Tick
    PROVE  IInv'
    <1>0. /\ RowsOK /\ now \in Instants /\ now' \in Instants /\ now <= now'
          /\ nextId \in Nat /\ UNCHANGED <<overnight, rows, nextId, regs, job, alone>>
      BY LastOK DEF IInv, RestOK, RowsOK, Tick, Instants
    <1>1. Date[now] <= Date[now'] /\ Date[now] \in Nat /\ Date[now'] \in Nat
          /\ Days \subseteq Nat
      BY <1>0, Dates
    <1>2. \A id : DayOf(id)' = DayOf(id)
      BY <1>0 DEF DayOf, Days
    <1>3. Onward
      <2>1. nextId <= nextId'
        BY <1>0
      <2> QED BY <1>0, <1>2, <2>1 DEF Onward, Instants
    <1>4. RowsOK'
      <2>1. \A d \in Days : rows[d].in # 0 => d <= Date[now']
        <3> SUFFICES ASSUME NEW d \in Days, rows[d].in # 0 PROVE d <= Date[now']
          OBVIOUS
        <3>1. d \in Nat /\ d <= Date[now]
          BY <1>0, <1>1 DEF RowsOK
        <3> QED BY <1>1, <3>1
      <2> QED BY <1>0, <2>1 DEF RowsOK, PunchesOnTheirDay, Punched, Days, Row, Instants,
              Times, NoRow, NoPunch
    <1>5. RegsOK' /\ InOrder'
      BY <1>0, <1>3, RegsStay, OrderKeeps DEF IInv
    <1>6. JobsOK'
      <2>1. ASSUME NEW w \in Workers PROVE JobOK(job[w])'
        <3>1. PICK j : j = job[w]
          OBVIOUS
        <3>2. JobOK(j)
          BY <3>1 DEF IInv, JobsOK
        <3>3. JobOK(j)' /\ job'[w] = j
          BY <1>0, <1>3, <3>1, <3>2, JobStays
        <3> HIDE DEF JobOK
        <3> QED BY <3>3
      <2> QED BY <1>0, <2>1 DEF IInv, JobsOK
    <1>7. AloneOK'
      BY <1>0 DEF IInv, AloneOK, DayOf, Derived, Punched, Several, Days, Instants
    <1>8. RestOK'
      BY <1>0 DEF IInv, RestOK, Tick, Instants
    <1> QED BY <1>4, <1>5, <1>6, <1>7, <1>8 DEF IInv

-----------------------------------------------------------------------------
LEMMA InitIInv == Init => IInv
    <1> SUFFICES ASSUME Init PROVE IInv
      OBVIOUS
    <1>1. /\ NoRow \in Row /\ NoRow.id = 0 /\ NoRow.in = 0 /\ NoRow.out = 0
          /\ Punched(NoRow) = {}
      BY DEF NoRow, NoPunch, Row, Times, Punched
    <1>2. now \in Instants /\ nextId = 1 /\ \A d \in Days : rows[d] = NoRow
      BY LastOK DEF Init, Instants
    <1>3. RestOK
      BY <1>2, BoundOK DEF Init, RestOK
    <1>4. RowsOK
      BY <1>1, <1>2 DEF Init, RowsOK, PunchesOnTheirDay
    <1>5. RegsOK
      BY DEF Init, RegsOK
    <1>6. JobsOK
      BY NoJobOK DEF Init, JobsOK
    <1>7. InOrder
      BY <1>1, <1>2 DEF InOrder
    <1>8. AloneOK
      BY NoJobOK DEF Init, AloneOK
    <1> QED BY <1>3, <1>4, <1>5, <1>6, <1>7, <1>8 DEF IInv

LEMMA StutterKeeps ==
    ASSUME IInv, UNCHANGED vars
    PROVE  IInv'
    <1>0. UNCHANGED <<now, overnight, rows, nextId, regs, job, requests, alone>>
      BY DEF vars
    <1>1. Onward /\ RowsOK' /\ RegsOK' /\ InOrder'
      BY <1>0, TablesStand
    <1>2. JobsOK'
      <2>1. ASSUME NEW w \in Workers PROVE JobOK(job[w])'
        <3>1. PICK j : j = job[w]
          OBVIOUS
        <3>2. JobOK(j)
          BY <3>1 DEF IInv, JobsOK
        <3>3. JobOK(j)' /\ job'[w] = j
          BY <1>0, <1>1, <3>1, <3>2, JobStays
        <3> HIDE DEF JobOK
        <3> QED BY <3>3
      <2> QED BY <1>0, <2>1 DEF IInv, JobsOK
    <1>3. AloneOK' /\ RestOK'
      BY <1>0 DEF IInv, RestOK, AloneOK, DayOf, Derived, Punched, Several, Days, Instants
    <1> QED BY <1>1, <1>2, <1>3 DEF IInv

LEMMA NextKeeps == IInv /\ [Next]_vars => IInv'
    <1> SUFFICES ASSUME IInv, [Next]_vars PROVE IInv'
      OBVIOUS
    <1>1. ASSUME NEW w \in Workers, Begin(w) PROVE IInv'
      BY <1>1, BeginPunchKeeps, BeginSubmitKeeps, BeginDecideKeeps, BeginMarkKeeps
         DEF Begin
    <1>2. ASSUME NEW w \in Workers, Step(w) PROVE IInv'
      BY <1>2, OpenDayKeeps, PunchKeeps, ReadPunchesKeeps, WriteTimesKeeps,
         SubmitKeeps, ApproveKeeps, CloseKeeps, MarkKeeps DEF Step
    <1>3. ASSUME NEW w \in Workers, Fail(w) PROVE IInv'
      BY <1>3, FailKeeps
    <1>4. ASSUME NEW d \in Days, Reset(d) PROVE IInv'
      BY <1>4, ResetKeeps
    <1> QED BY <1>1, <1>2, <1>3, <1>4, TickKeeps, StutterKeeps DEF Next

LEMMA Invariance == Spec => []IInv
    BY InitIInv, NextKeeps, PTL DEF Spec

-----------------------------------------------------------------------------
\* Records, requests and counters keep their types, and ids stay unique, for any
\* number of requests, days and instants.
THEOREM AttendanceTypes == Spec => []TypeOK
    <1>1. IInv => TypeOK
      BY DEF IInv, RestOK, RowsOK, RegsOK, TypeOK
    <1> QED BY <1>1, Invariance, PTL

\* Without a night shift no record ever holds a punch of another day.
THEOREM PunchesKeepTheirDay == Spec => []PunchesOnTheirDay
    <1>1. IInv => PunchesOnTheirDay
      BY DEF IInv, RowsOK
    <1> QED BY <1>1, Invariance, PTL

\* However requests interleave, a record that ends before it starts is of a day
\* with a request decided that gives one time only, or its end before its start.
THEOREM RecordsInOrder == Spec => []InOrder
    <1>1. IInv => InOrder
      BY DEF IInv
    <1> QED BY <1>1, Invariance, PTL

\* A punch nobody else runs beside leaves the record with its first and its last
\* punch, whatever was left behind before.
THEOREM LonePunchesSettle == Spec => LonePunchSettles
    <1> DEFINE A == \A w \in Workers : WriteTimes(w) /\ alone
                      => \A d \in DayOf(job[w].id) :
                           Derived([in |-> rows'[d].in, out |-> rows'[d].out], rows[d])
    <1>1. ASSUME IInv, NEW w \in Workers, WriteTimes(w), alone,
                 NEW d \in DayOf(job[w].id)
          PROVE  Derived([in |-> rows'[d].in, out |-> rows'[d].out], rows[d])
      <2>1. PICK times : times = job[w].times
        OBVIOUS
      <2>2. Derived(times, rows[d]) /\ times \in [in : Instants, out : Times]
        BY <1>1, <2>1 DEF IInv, AloneOK, WriteTimes, JobsOK, JobOK
      <2>3. d \in Days /\ rows[d] \in Row
        BY <1>1 DEF DayOf, IInv, RowsOK
      <2>4. rows'[d] = Scored(rows[d], times)
        BY <1>1, <2>1, <2>3 DEF WriteTimes
      <2>5. PICK s \in {"checked_in", "scored"} :
               rows'[d] = [rows[d] EXCEPT !.in = times.in, !.out = times.out,
                                          !.status = s, !.shift = TRUE]
        BY <2>4 DEF Scored
      <2>6. rows'[d].in = times.in /\ rows'[d].out = times.out
        BY <2>3, <2>5 DEF Row
      <2> QED BY <2>2, <2>6 DEF Derived
    <1>2. IInv => A
      BY <1>1
    <1>3. IInv /\ [Next]_vars => [A]_vars
      BY <1>2
    <1> QED BY <1>3, Invariance, PTL DEF Spec, LonePunchSettles

\* An approval leaves the day with the times that were asked for, unless the
\* record it was to change has gone since it began.
THEOREM ApprovalsShow == Spec => ApprovalShows
    <1> DEFINE A == \A w \in Workers :
                      LET reg == regs[job[w].reg] IN
                      Approve(w) /\ (job[w].link # 0 => DayOf(job[w].link) # {})
                        => LET r == rows'[reg.day] IN
                           /\ r.status = "present"
                           /\ reg.in = 0 \/ r.in = reg.in
                           /\ reg.out = 0 \/ r.out = reg.out
    <1>1. ASSUME IInv, NEW w \in Workers, Approve(w),
                 job[w].link # 0 => DayOf(job[w].link) # {}
          PROVE  LET reg == regs[job[w].reg]
                     r   == rows'[reg.day] IN
                 /\ r.status = "present"
                 /\ reg.in = 0 \/ r.in = reg.in
                 /\ reg.out = 0 \/ r.out = reg.out
      <2>1. PICK reg : reg = regs[job[w].reg]
        OBVIOUS
      <2>2. PICK r : r = rows'[reg.day]
        OBVIOUS
      <2>3. /\ AskOK(reg) /\ reg.day \in Days /\ DayOf(job[w].link) \subseteq {reg.day}
            /\ rows \in [Days -> Row] /\ nextId \in Nat
        BY <1>1, <2>1 DEF IInv, JobsOK, JobOK, Approve, RegsOK, RowsOK, AskOK
      <2>4. PICK on : on = (IF job[w].link # 0 THEN DayOf(job[w].link) ELSE LookedUp(reg))
        OBVIOUS
      <2>5. ASSUME NEW q \in Row, r = Regularized(q, reg)
            PROVE  /\ r.status = "present"
                   /\ reg.in = 0 \/ r.in = reg.in
                   /\ reg.out = 0 \/ r.out = reg.out
        BY <2>3, <2>5, RegularizedInOrder
      <2>6. ASSUME rows' = [d \in Days |-> IF d \in on THEN Regularized(rows[d], reg)
                                           ELSE rows[d]],
                   job[w].link # 0 \/ on # {}
            PROVE  /\ r.status = "present"
                   /\ reg.in = 0 \/ r.in = reg.in
                   /\ reg.out = 0 \/ r.out = reg.out
        <3>1. reg.day \in on
          BY <1>1, <2>3, <2>4, <2>6 DEF LookedUp
        <3>2. r = Regularized(rows[reg.day], reg)
          BY <2>2, <2>3, <2>6, <3>1
        <3> QED BY <2>3, <2>5, <3>2
      <2>7. ASSUME Insert(reg.day, Regularized(NoRow, reg))
            PROVE  /\ r.status = "present"
                   /\ reg.in = 0 \/ r.in = reg.in
                   /\ reg.out = 0 \/ r.out = reg.out
        <3>1. PICK n : n = Regularized(NoRow, reg)
          OBVIOUS
        <3>2. NoRow \in Row
          BY DEF NoRow, NoPunch, Row, Times
        <3>3. /\ n \in Row /\ n.status = "present"
              /\ reg.in # 0 => n.in = reg.in
              /\ reg.out # 0 => n.out = reg.out
          BY <2>3, <3>1, <3>2, RegularizedInOrder
        <3>4. r = [n EXCEPT !.id = nextId]
          BY <2>2, <2>3, <2>7, <3>1 DEF Insert
        <3> QED BY <3>3, <3>4 DEF Row
      <2>8. \/ /\ rows' = [d \in Days |-> IF d \in on THEN Regularized(rows[d], reg)
                                          ELSE rows[d]]
               /\ job[w].link # 0 \/ on # {}
            \/ Insert(reg.day, Regularized(NoRow, reg))
        BY <1>1, <2>1, <2>4 DEF Approve
      <2> QED BY <2>1, <2>2, <2>6, <2>7, <2>8
    <1>2. IInv => A
      BY <1>1
    <1>3. IInv /\ [Next]_vars => [A]_vars
      BY <1>2
    <1> QED BY <1>3, Invariance, PTL DEF Spec, ApprovalShows
=============================================================================
