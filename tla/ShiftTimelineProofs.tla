------------------------ MODULE ShiftTimelineProofs ------------------------
(***************************************************************************)
(* Proofs about ShiftTimeline: whatever requests run side by side and      *)
(* wherever they fail, the timeline of a kept user never overlaps, and     *)
(* what the schedule shows implements Roster.                              *)
(*                                                                         *)
(* The rows of different users do not meet, so the invariant is about one  *)
(* kept user u at a time: the rows Of(u) are those the one request about u *)
(* has read, cut exactly as far as the request got.  From that each        *)
(* statement is what Roster lets it be for u.                              *)
(***************************************************************************)
EXTENDS ShiftTimeline, FiniteSetTheorems, TLAPS

(***************************************************************************)
(* The inductive invariant, first part: types, and what is known of the    *)
(* rows a request has read whatever else runs: ids are never given out     *)
(* again and a row never changes hands.                                    *)
(***************************************************************************)
Assigns == [kind : {"assign"}, users : SUBSET Users, again : SUBSET Users,
            shift : Shifts, win : AnyWindow, delete : SUBSET Row, close : SUBSET Row, trim : SUBSET Row, tails : SUBSET Row]
Updates == [kind : {"update"}, users : SUBSET Users, row : Row, shift : Shifts,
            win : AnyWindow]
Approvals  == [kind : {"approve"}, users : SUBSET Users, a : Row, b : Row]
Rejections == [kind : {"reject"}, users : {{}}]
Starts     == [kind : {"profile"}, users : SUBSET Users, shift : Shifts]

AnyJob == Assigns \cup Updates \cup Approvals \cup Rejections \cup Starts \cup {NoJob}

\* The rows a request has read and may still write.
Refers(j) ==
    (IF j.kind = "assign" THEN j.delete \cup j.close \cup j.trim ELSE {})
      \cup (IF j.kind = "update" THEN {j.row} ELSE {})
      \cup (IF j.kind = "approve" THEN {j.a, j.b} ELSE {})

Known(q) == q.id < nextId /\ \A r \in rows : r.id = q.id => r.user = q.user

Shaped(j) ==
    /\ j \in AnyJob
    /\ \A q \in Refers(j) : q.user \in j.users
    /\ j.kind = "assign" => /\ IsFiniteSet(j.tails) /\ \A t \in j.tails : t.user \in j.users
                          /\ j.again \subseteq j.users
    /\ j.kind = "approve" => j.users = {j.a.user, j.b.user}
    /\ j.kind = "update" => j.users = {j.row.user}

RowsOK ==
    /\ rows \subseteq Row /\ IsFiniteSet(rows)
    /\ nextId \in Nat /\ \A r \in rows : r.id < nextId
    /\ \A r, q \in rows : r.id = q.id => r = q

Swaps == [status : {"none", "pending", "approved", "rejected"}, a : Nat, b : Nat]

TypeInd ==
    /\ RowsOK
    /\ swap \in Swaps
    /\ kept \subseteq Users
    /\ DOMAIN before = Users
    /\ DOMAIN job = Workers
    /\ \A w \in Workers : Shaped(job[w]) /\ \A q \in Refers(job[w]) : Known(q)

(***************************************************************************)
(* Second part: for a user who is still kept, the rows of the user are     *)
(* those the one request about the user has read, cut as far as it got.    *)
(***************************************************************************)
Of(u) == {r \in rows : r.user = u}

Clean(rs) ==
    /\ \A r \in rs : r.from \in Days /\ r.to \in Days /\ r.from <= r.to
    /\ \A r, q \in rs : r # q => r.to < q.from \/ q.to < r.from

\* Rows that show nothing but what b shows.
Under(rs, b) == \A r \in rs, d \in Days : Covers(r, d) => b[d] = r.shift

\* A day outside the window that no row covers was free.
Outside(rs, b, win) ==
    \A d \in Days : d \notin win.from .. win.to /\ (\A r \in rs : ~Covers(r, d)) => b[d] = Off

\* An assignment j for user u, whose rows are rs; b is what they showed.
AssignHolds(j, u, rs, b) ==
    LET mine(qs) == {q \in qs : q.user = u} IN
    /\ j.win \in Windows /\ u \notin j.again
    /\ mine(j.delete \cup j.close \cup j.trim) \subseteq rs
    /\ \A r \in rs : Overlaps(r, j.win) => r \in j.delete \cup j.close \cup j.trim
    /\ \A q \in mine(j.delete) : ~StartsBefore(q, j.win) /\ ~EndsAfter(q, j.win)
    /\ \A q \in mine(j.close) :
          /\ Overlaps(q, j.win) /\ StartsBefore(q, j.win)
          /\ EndsAfter(q, j.win) => [q EXCEPT !.from = j.win.to + 1] \in j.tails
    /\ \A q \in mine(j.trim) :
          Overlaps(q, j.win) /\ ~StartsBefore(q, j.win) /\ EndsAfter(q, j.win)
    /\ \A t \in mine(j.tails) :
          /\ t.from = j.win.to + 1 /\ t.to \in Days /\ t.from <= t.to
          /\ \A r \in rs \ j.close : r.to < t.from \/ t.to < r.from
          /\ \A x \in mine(j.tails) : x = t
    /\ Under(rs \cup mine(j.tails), b)
    /\ Outside(rs \cup mine(j.tails), b, j.win)

UpdateHolds(j, rs, b) ==
    /\ j.row \in rs /\ j.win \in Windows
    /\ j.row.from <= j.win.from /\ j.win.to <= j.row.to
    /\ Under(rs, b)
    /\ \A d \in Days : (\A r \in rs : ~Covers(r, d)) => b[d] = Off

Holds(j, u, rs, b) ==
    /\ j.kind \in {"assign", "update", "approve"}
    /\ j.kind = "assign" => AssignHolds(j, u, rs, b)
    /\ j.kind = "update" => UpdateHolds(j, rs, b)
    /\ j.kind = "approve" => /\ j.a.user # j.b.user
                             /\ j.a.user = u => j.a \in rs
                             /\ j.b.user = u => j.b \in rs

KeptFor(u) ==
    /\ Clean(Of(u))
    /\ \A w \in Workers : u \in Concerned(w) => Holds(job[w], u, Of(u), before[u])
    /\ \A v, w \in Workers : u \in Concerned(v) /\ u \in Concerned(w) => v = w

\* The two sides of a swap being approved are kept together.
Together == \A w \in Workers : job[w].kind = "approve" =>
               job[w].users \subseteq kept \/ job[w].users \cap kept = {}

Ind == /\ TypeInd
       /\ \A u \in kept : KeptFor(u)
       /\ Together

-----------------------------------------------------------------------------
(***************************************************************************)
(* Lemmas on days, on what is shown and on INSERT.                         *)
(***************************************************************************)
LEMMA DaysNat == \A d \in Days : d \in Nat /\ d >= 1 /\ d <= Horizon
BY DaysOK DEF Days

\* Of rows that do not overlap, the one that covers a day is shown.
LEMMA ShownCovered ==
    ASSUME NEW rs, NEW u, Clean({x \in rs : x.user = u}), NEW d \in Days,
           NEW r \in rs, r.user = u, Covers(r, d), \A x \in rs : x.id \in Nat
    PROVE  ShownShift(rs, u, d) = r.shift
<1> DEFINE here == {x \in rs : x.user = u /\ Covers(x, d)}
<1>1. ASSUME NEW x \in here PROVE x = r
  <2>1. x \in rs /\ x.user = u /\ Covers(x, d)
    OBVIOUS
  <2>2. x.from \in Nat /\ x.to \in Nat /\ r.from \in Nat /\ r.to \in Nat /\ d \in Nat
    BY <2>1, DaysNat DEF Clean
  <2>3. ~(x.to < r.from \/ r.to < x.from)
    BY <2>1, <2>2 DEF Covers
  <2>4. QED BY <2>1, <2>3 DEF Clean
<1>2. r \in here
  OBVIOUS
<1>3. here = {r}
  BY <1>1, <1>2
<1>4. (CHOOSE x \in here : \A q \in here : q.id <= x.id) = r
  <2>1. r.id <= r.id
    OBVIOUS
  <2> HIDE DEF here
  <2>2. QED BY <1>3, <2>1
<1>5. QED BY <1>3, <1>4 DEF ShownShift

LEMMA ShownFree ==
    ASSUME NEW rs, NEW u, NEW d, \A x \in rs : x.user = u => ~Covers(x, d)
    PROVE  ShownShift(rs, u, d) = Off
<1>1. {x \in rs : x.user = u /\ Covers(x, d)} = {}
  OBVIOUS
<1>2. QED BY <1>1 DEF ShownShift

\* INSERT gives each row an id of its own, from the counter.
Stamps(stamp, new) ==
    /\ stamp \in [new -> Nat]
    /\ \A x \in new : nextId <= stamp[x] /\ stamp[x] < nextId'
    /\ \A x, y \in new : stamp[x] = stamp[y] => x = y

Stamped(stamp, new) == {[x EXCEPT !.id = stamp[x]] : x \in new}

LEMMA InsertStamps ==
    ASSUME nextId \in Nat, NEW rs, NEW new, IsFiniteSet(new), Insert(rs, new)
    PROVE  /\ nextId' \in Nat /\ nextId <= nextId'
           /\ \E stamp : Stamps(stamp, new) /\ rows' = rs \cup Stamped(stamp, new)
<1> DEFINE n == Cardinality(new)
<1>1. n \in Nat /\ nextId' = nextId + n
  BY FS_CardinalityType DEF Insert
<1>2. PICK order \in Bijection(1..n, new) :
        rows' = rs \cup {[order[i] EXCEPT !.id = nextId + i - 1] : i \in DOMAIN order}
  BY DEF Insert
<1> HIDE DEF n
<1>3. /\ order \in [1..n -> new]
      /\ \A i, k \in 1..n : order[i] = order[k] => i = k
      /\ \A x \in new : \E i \in 1..n : order[i] = x
  BY DEF Bijection, Injection, Surjection, IsInjective
<1> DEFINE place(x) == CHOOSE i \in 1..n : order[i] = x
           stamp == [x \in new |-> nextId + place(x) - 1]
<1>4. \A x \in new : place(x) \in 1..n /\ order[place(x)] = x
  BY <1>3
<1>5. \A i \in 1..n : order[i] \in new /\ place(order[i]) = i
  BY <1>3, <1>4
<1> HIDE DEF place
<1>6. \A x \in new : /\ stamp[x] = nextId + place(x) - 1
                     /\ stamp[x] \in Nat /\ nextId <= stamp[x] /\ stamp[x] < nextId'
  BY <1>1, <1>4
<1>7. Stamps(stamp, new)
  <2>1. \A x, y \in new : stamp[x] = stamp[y] => x = y
    <3> SUFFICES ASSUME NEW x \in new, NEW y \in new, stamp[x] = stamp[y] PROVE x = y
      OBVIOUS
    <3>1. place(x) = place(y)
      BY <1>4, <1>6
    <3>2. QED BY <1>4, <3>1
  <2>2. stamp \in [new -> Nat]
    BY <1>6
  <2> HIDE DEF stamp
  <2>3. QED BY <1>6, <2>1, <2>2 DEF Stamps
<1>8. {[order[i] EXCEPT !.id = nextId + i - 1] : i \in DOMAIN order} = Stamped(stamp, new)
  <2>1. DOMAIN order = 1..n
    BY <1>3
  <2>2. ASSUME NEW i \in 1..n
        PROVE  [order[i] EXCEPT !.id = nextId + i - 1] \in Stamped(stamp, new)
    <3>1. order[i] \in new /\ stamp[order[i]] = nextId + i - 1
      BY <1>5, <1>6
    <3> HIDE DEF stamp
    <3>2. QED BY <3>1 DEF Stamped
  <2>3. ASSUME NEW x \in new
        PROVE  \E i \in 1..n : [x EXCEPT !.id = stamp[x]] = [order[i] EXCEPT !.id = nextId + i - 1]
    BY <1>4, <1>6
  <2> HIDE DEF stamp
  <2>4. QED BY <2>1, <2>2, <2>3 DEF Stamped
<1> HIDE DEF stamp
<1>9. QED BY <1>1, <1>2, <1>7, <1>8

-----------------------------------------------------------------------------
(***************************************************************************)
(* Types: what a step makes of the rows.                                   *)
(***************************************************************************)
\* Rows that stand for rows there were.
Derived(rs) ==
    /\ rs \subseteq Row /\ IsFiniteSet(rs)
    /\ \A r \in rs : \E q \in rows : q.id = r.id /\ q.user = r.user
    /\ \A r, q \in rs : r.id = q.id => r = q

Evolve ==
    /\ RowsOK' /\ nextId <= nextId'
    /\ \A r \in rows' : nextId <= r.id \/ \E q \in rows : q.id = r.id /\ q.user = r.user

LEMMA DerivedPart == ASSUME RowsOK, NEW rs \in SUBSET rows PROVE Derived(rs)
BY FS_Subset DEF RowsOK, Derived

LEMMA DerivedImage ==
    ASSUME RowsOK, NEW g, DOMAIN g = rows,
           \A r \in rows : g[r] \in Row /\ g[r].id = r.id /\ g[r].user = r.user
    PROVE  Derived({g[r] : r \in rows})
<1> DEFINE rs == {g[r] : r \in rows}
<1>1. IsFiniteSet(rs)
  <2>1. [r \in rows |-> g[r]] \in Surjection(rows, rs)
    BY DEF Surjection
  <2> HIDE DEF rs
  <2>2. QED BY <2>1, FS_Surjection DEF RowsOK
<1>2. \A r, q \in rs : r.id = q.id => r = q
  BY DEF RowsOK
<1>3. rs \subseteq Row /\ \A r \in rs : \E q \in rows : q.id = r.id /\ q.user = r.user
  OBVIOUS
<1>4. Derived(rs)
  <2> HIDE DEF rs
  <2>1. QED BY <1>1, <1>2, <1>3 DEF Derived
<1>5. QED BY <1>4

LEMMA EvolveSame ==
    ASSUME RowsOK, Derived(rows'), nextId' = nextId
    PROVE  Evolve
<1>1. nextId <= nextId' /\ \A r \in rows' : r.id < nextId'
  BY DEF RowsOK, Derived
<1>2. RowsOK'
  BY <1>1 DEF RowsOK, Derived
<1>3. QED BY <1>1, <1>2 DEF Evolve, Derived

LEMMA EvolveInsert ==
    ASSUME RowsOK, NEW rs, Derived(rs), NEW new, new \subseteq Row, IsFiniteSet(new),
           Insert(rs, new)
    PROVE  Evolve
<1>1. /\ nextId' \in Nat /\ nextId <= nextId'
      /\ \E stamp : Stamps(stamp, new) /\ rows' = rs \cup Stamped(stamp, new)
  BY InsertStamps DEF RowsOK
<1>2. PICK stamp : Stamps(stamp, new) /\ rows' = rs \cup Stamped(stamp, new)
  BY <1>1
<1>3. \A x \in Stamped(stamp, new) : x \in Row /\ nextId <= x.id /\ x.id < nextId'
  <2> SUFFICES ASSUME NEW y \in new
               PROVE  LET x == [y EXCEPT !.id = stamp[y]]
                      IN  x \in Row /\ nextId <= x.id /\ x.id < nextId'
    BY DEF Stamped
  <2>1. y \in Row /\ stamp[y] \in Nat /\ nextId <= stamp[y] /\ stamp[y] < nextId'
    BY <1>2 DEF Stamps
  <2>2. QED BY <2>1 DEF Row
<1>4. \A x, y \in Stamped(stamp, new) : x.id = y.id => x = y
  <2> SUFFICES ASSUME NEW p \in new, NEW q \in new,
                      [p EXCEPT !.id = stamp[p]].id = [q EXCEPT !.id = stamp[q]].id
               PROVE  p = q
    BY DEF Stamped
  <2>1. p \in Row /\ q \in Row
    OBVIOUS
  <2>2. stamp[p] = stamp[q]
    BY <2>1 DEF Row
  <2>3. QED BY <1>2, <2>2 DEF Stamps
<1>5. \A x \in rs : x.id \in Nat /\ x.id < nextId /\ x.id < nextId'
  BY <1>1 DEF RowsOK, Derived, Row
<1>6. IsFiniteSet(rows')
  <2>1. [y \in new |-> [y EXCEPT !.id = stamp[y]]] \in Surjection(new, Stamped(stamp, new))
    BY DEF Surjection, Stamped
  <2>2. IsFiniteSet(Stamped(stamp, new))
    BY <2>1, FS_Surjection
  <2>3. QED BY <1>2, <2>2, FS_Union DEF Derived
<1>7. \A x, y \in rows' : x.id = y.id => x = y
  <2>1. \A x \in rs, y \in Stamped(stamp, new) : x.id # y.id
    BY <1>3, <1>5 DEF RowsOK, Row
  <2>2. QED BY <1>2, <1>4, <2>1 DEF Derived
<1>8. rows' \subseteq Row /\ \A r \in rows' : r.id < nextId'
  BY <1>2, <1>3, <1>5 DEF Derived
<1>9. RowsOK'
  BY <1>1, <1>6, <1>7, <1>8 DEF RowsOK
<1>10. QED BY <1>1, <1>2, <1>3, <1>9 DEF Evolve, Derived

(***************************************************************************)
(* Types: what a step makes of the jobs.  A job that still refers to what  *)
(* it did, or to rows that are there, knows them afterwards.               *)
(***************************************************************************)
LEMMA TypeAfter ==
    ASSUME TypeInd, Evolve,
           swap' \in Swaps, kept' \subseteq Users, DOMAIN before' = Users,
           DOMAIN job' = Workers,
           \A w \in Workers : /\ Shaped(job'[w])
                              /\ Refers(job'[w]) \subseteq Refers(job[w]) \cup rows
    PROVE  TypeInd'
<1>1. ASSUME NEW w \in Workers, NEW q \in Refers(job'[w]) PROVE Known(q)'
  <2>1. Known(q) /\ q.id \in Nat
    <3>1. CASE q \in rows
      BY <3>1 DEF TypeInd, RowsOK, Known, Row
    <3>2. CASE q \in Refers(job[w])
      <4>1. Known(q)
        BY <3>2 DEF TypeInd
      <4>2. q \in Row
        BY <3>2 DEF TypeInd, Shaped, AnyJob, Assigns, Updates, Approvals, Rejections,
                    Starts, NoJob, Refers
      <4>3. QED BY <4>1, <4>2 DEF Row
    <3>3. QED BY <3>1, <3>2
  <2>2. q.id < nextId'
    BY <2>1 DEF Evolve, RowsOK, TypeInd, Known
  <2>3. ASSUME NEW r \in rows', r.id = q.id PROVE r.user = q.user
    <3>1. ~(nextId <= r.id)
      BY <2>1, <2>3 DEF Known, TypeInd, RowsOK
    <3>2. QED BY <2>1, <2>3, <3>1 DEF Evolve, Known
  <2>4. QED BY <2>2, <2>3 DEF Known
<1>2. RowsOK'
  BY DEF Evolve
<1>3. QED BY <1>1, <1>2 DEF TypeInd

LEMMA EvolveNone == ASSUME RowsOK, rows' = rows, nextId' = nextId PROVE Evolve
BY DerivedPart, EvolveSame

LEMMA ShapedNoJob == Shaped(NoJob) /\ Refers(NoJob) = {}
BY DEF Shaped, NoJob, AnyJob, Refers

\* One job changes.
LEMMA TypeAfterJob ==
    ASSUME TypeInd, Evolve, NEW w \in Workers, NEW j,
           job' = [job EXCEPT ![w] = j], Shaped(j),
           Refers(j) \subseteq Refers(job[w]) \cup rows,
           swap' \in Swaps, kept' \subseteq Users, DOMAIN before' = Users
    PROVE  TypeInd'
<1>1. DOMAIN job' = Workers /\ \A x \in Workers : job'[x] = IF x = w THEN j ELSE job[x]
  BY DEF TypeInd
<1>2. \A x \in Workers : /\ Shaped(job'[x])
                         /\ Refers(job'[x]) \subseteq Refers(job[x]) \cup rows
  BY <1>1 DEF TypeInd
<1>3. QED BY <1>1, <1>2, TypeAfter

LEMMA TypeAfterEnd ==
    ASSUME TypeInd, Evolve, NEW w \in Workers, Ends(w),
           swap' \in Swaps, kept' = kept, before' = before
    PROVE  TypeInd'
<1>1. job' = [job EXCEPT ![w] = NoJob]
  BY DEF Ends
<1>2. kept' \subseteq Users /\ DOMAIN before' = Users
  BY DEF TypeInd
<1>3. QED BY <1>1, <1>2, ShapedNoJob, TypeAfterJob

-----------------------------------------------------------------------------
(***************************************************************************)
(* The initial states.                                                     *)
(***************************************************************************)
LEMMA InitInd == ASSUME Init PROVE Ind
<1> DEFINE n == Cardinality(Users)
<1>1. n \in Nat
  BY FiniteSetsOK, FS_CardinalityType
<1>2. PICK order \in Bijection(1..n, Users), s \in Shifts, t \in Shifts, one \in 0..1 :
        rows = UNION {
            LET r == [id |-> i, user |-> order[i], shift |-> s, from |-> 1, to |-> Horizon]
            IN IF i # one THEN {r}
               ELSE {[r EXCEPT !.shift = t, !.from = Today, !.to = Today],
                     [r EXCEPT !.id = n + 1, !.to = Today - 1],
                     [r EXCEPT !.id = n + 2, !.from = Today + 1]}
            : i \in DOMAIN order}
  BY DEF Init
<1> HIDE DEF n
<1>3. /\ DOMAIN order = 1..n
      /\ \A i \in 1..n : order[i] \in Users
      /\ \A i, k \in 1..n : order[i] = order[k] => i = k
  BY DEF Bijection, Injection, Surjection, IsInjective
<1> DEFINE plain(i) == [id |-> i, user |-> order[i], shift |-> s, from |-> 1, to |-> Horizon]
           a == [id |-> one, user |-> order[one], shift |-> t, from |-> Today, to |-> Today]
           b == [id |-> n + 1, user |-> order[one], shift |-> s, from |-> 1, to |-> Today - 1]
           c == [id |-> n + 2, user |-> order[one], shift |-> s, from |-> Today + 1, to |-> Horizon]
<1>4. ASSUME NEW r \in rows
      PROVE  \/ \E i \in 1..n : i # one /\ r = plain(i)
             \/ one \in 1..n /\ r \in {a, b, c}
  <2>1. PICK i \in 1..n : r \in (IF i # one THEN {plain(i)}
               ELSE {[plain(i) EXCEPT !.shift = t, !.from = Today, !.to = Today],
                     [plain(i) EXCEPT !.id = n + 1, !.to = Today - 1],
                     [plain(i) EXCEPT !.id = n + 2, !.from = Today + 1]})
    BY <1>2, <1>3
  <2>2. QED BY <2>1
<1>5. /\ \A i \in 1..n : plain(i) \in Row /\ i < n + 3
      /\ one \in 1..n => a \in Row /\ b \in Row /\ c \in Row
      /\ Today \in Nat /\ Horizon \in Nat /\ 2 <= Today /\ Today < Horizon
  <2>1. /\ Today \in Nat /\ Horizon \in Nat /\ 2 <= Today /\ Today < Horizon
        /\ 1 \in Nat /\ Today - 1 \in Nat /\ Today + 1 \in Nat
        /\ n + 1 \in Nat /\ n + 2 \in Nat /\ \A i \in 1..n : i \in Nat /\ i < n + 3
    BY <1>1, DaysOK
  <2>2. QED BY <1>3, <2>1 DEF Row
<1>6. \A r \in rows : r \in Row /\ r.id < n + 3
  <2>1. one \in 1..n => a.id < n + 3 /\ b.id < n + 3 /\ c.id < n + 3
    BY <1>1
  <2> HIDE DEF a, b, c
  <2>2. QED BY <1>4, <1>5, <2>1
<1>7. \A r, q \in rows : r.id = q.id => r = q
  <2> SUFFICES ASSUME NEW r \in rows, NEW q \in rows, r.id = q.id PROVE r = q
    OBVIOUS
  <2>1. CASE \E i \in 1..n : i # one /\ r = plain(i)
    BY <1>1, <1>4, <2>1
  <2>2. CASE one \in 1..n /\ r \in {a, b, c}
    BY <1>1, <1>4, <2>2
  <2>3. QED BY <1>4, <2>1, <2>2
<1>8. IsFiniteSet(rows)
  <2>1. [r \in rows |-> r.id] \in Injection(rows, 0..(n+3))
    <3>1. \A r \in rows : r.id \in 0..(n+3)
      BY <1>1, <1>6 DEF Row
    <3>2. QED BY <1>7, <3>1 DEF Injection, IsInjective
  <2>2. IsFiniteSet(0..(n+3))
    <3>1. 0 \in Int /\ n + 3 \in Int
      BY <1>1
    <3>2. QED BY <3>1, FS_Interval
  <2>3. QED BY <2>1, <2>2, FS_Injection
<1>9. nextId = n + 3 /\ nextId \in Nat
  <2>1. nextId = n + 3
    BY DEF Init, n
  <2>2. QED BY <1>1, <2>1
<1>10. RowsOK
  BY <1>6, <1>7, <1>8, <1>9 DEF RowsOK
<1>11. TypeInd
  <2>1. swap \in Swaps
    <3>1. NoSwap \in Swaps
      BY DEF NoSwap, Swaps
    <3>2. \A r, q \in rows : [status |-> "pending", a |-> r.id, b |-> q.id] \in Swaps
      BY <1>6 DEF Row, Swaps
    <3>3. swap = NoSwap
            \/ \E r, q \in rows : swap = [status |-> "pending", a |-> r.id, b |-> q.id]
      <4>1. swap \in {NoSwap} \cup
              UNION {{[status |-> "pending", a |-> r.id, b |-> q.id] :
                        q \in {x \in rows : x.user # r.user}} :
                      r \in {x \in rows : x.from = Today /\ x.to = Today}}
        BY DEF Init
      <4>2. QED BY <4>1
    <3>4. QED BY <3>1, <3>2, <3>3
  <2>2. \A w \in Workers : job[w] = NoJob
    BY DEF Init
  <2>3. QED BY <1>10, <2>1, <2>2, ShapedNoJob DEF TypeInd, Init
<1>12. ASSUME NEW u \in Users PROVE Clean(Of(u))
  <2>1. \A r \in rows : r.from \in Days /\ r.to \in Days /\ r.from <= r.to
    <3> SUFFICES ASSUME NEW r \in rows PROVE r.from \in Days /\ r.to \in Days /\ r.from <= r.to
      OBVIOUS
    <3>1. CASE \E i \in 1..n : i # one /\ r = plain(i)
      BY <1>5, <3>1 DEF Days
    <3>2. CASE one \in 1..n /\ r \in {a, b, c}
      BY <1>5, <3>2 DEF Days
    <3>3. QED BY <1>4, <3>1, <3>2
  <2>2. ASSUME NEW r \in rows, NEW q \in rows, r.user = q.user, r # q
        PROVE  r.to < q.from \/ q.to < r.from
    <3>1. CASE \E i \in 1..n : i # one /\ r = plain(i)
      <4>1. PICK i \in 1..n : i # one /\ r = plain(i)
        BY <3>1
      <4>2. r.user = order[i]
        BY <4>1
      <4>3. CASE \E k \in 1..n : k # one /\ q = plain(k)
        BY <1>3, <2>2, <4>1, <4>2, <4>3
      <4>4. CASE one \in 1..n /\ q \in {a, b, c}
        BY <1>3, <2>2, <4>1, <4>2, <4>4
      <4>5. QED BY <1>4, <4>3, <4>4
    <3>2. CASE one \in 1..n /\ r \in {a, b, c}
      <4>1. r.user = order[one]
        BY <3>2
      <4>3. CASE \E k \in 1..n : k # one /\ q = plain(k)
        <5>1. PICK k \in 1..n : k # one /\ q = plain(k)
          BY <4>3
        <5>2. q.user = order[k]
          BY <5>1
        <5>3. k = one
          BY <1>3, <2>2, <3>2, <4>1, <5>2
        <5>4. QED BY <5>1, <5>3
      <4>4. CASE one \in 1..n /\ q \in {a, b, c}
        BY <1>5, <2>2, <4>4, <3>2
      <4>5. QED BY <1>4, <4>3, <4>4
    <3>3. QED BY <1>4, <3>1, <3>2
  <2>3. QED BY <2>1, <2>2 DEF Clean, Of
<1>13. \A w \in Workers : Concerned(w) = {} /\ job[w].kind # "approve"
  BY DEF Init, Concerned, NoJob
<1>14. kept = Users
  BY DEF Init
<1>15. (\A u \in kept : KeptFor(u)) /\ Together
  BY <1>12, <1>13, <1>14 DEF KeptFor, Together
<1>16. QED BY <1>11, <1>15 DEF Ind

-----------------------------------------------------------------------------
(***************************************************************************)
(* Types: every action.                                                    *)
(***************************************************************************)
LEMMA KindOf ==
    ASSUME NEW j, Shaped(j)
    PROVE  /\ j.kind \in {"assign", "update", "approve", "reject", "profile", "idle"}
           /\ j.kind = "assign"  => j \in Assigns
           /\ j.kind = "update"  => j \in Updates
           /\ j.kind = "approve" => j \in Approvals
           /\ j.kind = "reject"  => j \in Rejections
           /\ j.kind = "profile" => j \in Starts
           /\ j.kind = "idle" <=> j = NoJob
           /\ j # NoJob => j.users \subseteq Users
BY DEF Shaped, AnyJob, Assigns, Updates, Approvals, Rejections, Starts, NoJob

LEMMA CascadeType == ASSUME TypeInd, NEW gone, Cascade(gone) PROVE swap' \in Swaps
<1>1. NoSwap \in Swaps
  BY DEF NoSwap, Swaps
<1>2. QED BY <1>1 DEF Cascade, TypeInd

LEMMA TypeAfterBegin ==
    ASSUME TypeInd, Evolve, NEW w \in Workers, NEW us, NEW j, Begins(w, us, j),
           Shaped(j), Refers(j) \subseteq rows,
           swap' \in Swaps, kept' \subseteq Users
    PROVE  TypeInd'
<1>1. DOMAIN before' = Users /\ job' = [job EXCEPT ![w] = j]
  BY DEF Begins
<1>2. QED BY <1>1, TypeAfterJob

LEMMA StillKeptPart == ASSUME TypeInd, NEW us PROVE StillKept(us) \subseteq Users
BY DEF StillKept, TypeInd

LEMMA TailsOf ==
    ASSUME RowsOK, NEW rs \in SUBSET rows, NEW win \in AnyWindow
    PROVE  /\ IsFiniteSet(Tails(rs, win)) /\ Tails(rs, win) \subseteq Row
           /\ \A t \in Tails(rs, win) : \E q \in Closed(rs, win) :
                 EndsAfter(q, win) /\ t = [q EXCEPT !.from = win.to + 1]
<1> DEFINE long == {q \in Closed(rs, win) : EndsAfter(q, win)}
<1>1. IsFiniteSet(long)
  BY FS_Subset DEF RowsOK, Closed
<1>2. [r \in long |-> [r EXCEPT !.from = win.to + 1]] \in Surjection(long, Tails(rs, win))
  BY DEF Surjection, Tails
<1>3. win.to + 1 \in Nat
  BY DaysNat DEF Windows, AnyWindow
<1>4. ASSUME NEW q \in rs PROVE [q EXCEPT !.from = win.to + 1] \in Row
  <2>1. q \in Row
    BY DEF RowsOK
  <2>2. QED BY <1>3, <2>1 DEF Row
<1>5. Tails(rs, win) \subseteq Row
  BY <1>4 DEF Tails, Closed
<1>6. IsFiniteSet(Tails(rs, win))
  <2> HIDE DEF long
  <2>1. QED BY <1>1, <1>2, FS_Surjection
<1>7. QED BY <1>5, <1>6 DEF Tails

LEMMA TypeBeginAssign ==
    ASSUME TypeInd, NEW w \in Workers, NEW us \in SUBSET Users,
           NEW again \in SUBSET us, NEW s \in Shifts, NEW win \in AnyWindow,
           BeginAssign(w, us, again, s, win)
    PROVE  TypeInd'
<1> DEFINE theirs == {r \in rows : r.user \in us}
           j == [kind |-> "assign", users |-> us, again |-> again, shift |-> s, win |-> win,
                 delete |-> Superseded(theirs, win), close |-> Closed(theirs, win),
                 trim   |-> Trimmed(theirs, win),    tails |-> Tails(theirs, win)]
<1>1. RowsOK /\ theirs \subseteq rows /\ rows \subseteq Row
  BY DEF TypeInd, RowsOK
<1>2. /\ IsFiniteSet(Tails(theirs, win)) /\ Tails(theirs, win) \subseteq Row
      /\ \A t \in Tails(theirs, win) : \E q \in Closed(theirs, win) :
            EndsAfter(q, win) /\ t = [q EXCEPT !.from = win.to + 1]
  BY <1>1, TailsOf
<1>3. /\ Superseded(theirs, win) \subseteq theirs
      /\ Closed(theirs, win) \subseteq theirs /\ Trimmed(theirs, win) \subseteq theirs
  BY DEF Superseded, Closed, Trimmed
<1>4. \A t \in Tails(theirs, win) : t.user \in us
  BY <1>1, <1>2, <1>3 DEF Row
<1>5. j \in Assigns
  BY <1>1, <1>2, <1>3 DEF Assigns
<1>6. Refers(j) \subseteq theirs
  BY <1>3 DEF Refers
<1>7. Shaped(j)
  BY <1>2, <1>4, <1>5, <1>6 DEF Shaped, AnyJob
<1>8. Begins(w, us, j) /\ kept' \subseteq Users /\ UNCHANGED <<rows, nextId, swap>>
  BY StillKeptPart DEF BeginAssign
<1> HIDE DEF j
<1>9. QED BY <1>1, <1>6, <1>7, <1>8, EvolveNone, TypeAfterBegin DEF TypeInd

LEMMA TypeBeginUpdate ==
    ASSUME TypeInd, NEW w \in Workers, NEW r \in rows, NEW s \in Shifts,
           NEW win \in AnyWindow, BeginUpdate(w, r, s, win)
    PROVE  TypeInd'
<1> DEFINE j == [kind |-> "update", users |-> {r.user}, row |-> r, shift |-> s, win |-> win]
<1>1. r \in Row /\ RowsOK
  BY DEF TypeInd, RowsOK
<1>2. j \in Updates
  BY <1>1 DEF Updates, Row
<1>3. Shaped(j) /\ Refers(j) \subseteq rows
  BY <1>2 DEF Shaped, AnyJob, Refers
<1>4. Begins(w, {r.user}, j) /\ kept' \subseteq Users /\ UNCHANGED <<rows, nextId, swap>>
  BY StillKeptPart DEF BeginUpdate
<1> HIDE DEF j
<1>5. QED BY <1>1, <1>3, <1>4, EvolveNone, TypeAfterBegin DEF TypeInd

LEMMA TypeBeginApprove ==
    ASSUME TypeInd, NEW w \in Workers, BeginApprove(w)
    PROVE  TypeInd'
<1>1. PICK a \in rows, b \in rows :
          /\ Begins(w, {a.user, b.user}, [kind |-> "approve", users |-> {a.user, b.user},
                                          a |-> a, b |-> b])
          /\ kept' = StillKept(IF a.user # b.user /\ {a.user, b.user} \subseteq kept
                                    /\ Clash({a.user, b.user}) = {}
                                 THEN {} ELSE {a.user, b.user})
  BY DEF BeginApprove
<1> DEFINE j == [kind |-> "approve", users |-> {a.user, b.user}, a |-> a, b |-> b]
<1>2. a \in Row /\ b \in Row /\ RowsOK
  BY DEF TypeInd, RowsOK
<1>3. j \in Approvals
  BY <1>2 DEF Approvals, Row
<1>4. Shaped(j) /\ Refers(j) \subseteq rows
  BY <1>3 DEF Shaped, AnyJob, Refers
<1>5. kept' \subseteq Users /\ UNCHANGED <<rows, nextId, swap>>
  BY <1>1, StillKeptPart DEF BeginApprove
<1>6. Begins(w, {a.user, b.user}, j)
  BY <1>1
<1> HIDE DEF j
<1>7. QED BY <1>2, <1>4, <1>5, <1>6, EvolveNone, TypeAfterBegin DEF TypeInd

LEMMA TypeReject ==
    ASSUME TypeInd, NEW w \in Workers, BeginReject(w) \/ RejectSwap(w)
    PROVE  TypeInd'
<1>1. CASE BeginReject(w)
  <2> DEFINE j == [kind |-> "reject", users |-> {}]
  <2>1. Shaped(j) /\ Refers(j) = {}
    BY DEF Shaped, AnyJob, Rejections, Refers
  <2>2. Begins(w, {}, j) /\ UNCHANGED <<rows, nextId, swap, kept>>
    BY <1>1 DEF BeginReject
  <2> HIDE DEF j
  <2>3. QED BY <2>1, <2>2, EvolveNone, TypeAfterBegin DEF TypeInd
<1>2. CASE RejectSwap(w)
  <2>1. swap' \in Swaps
    BY <1>2 DEF RejectSwap, TypeInd, Swaps
  <2>2. Ends(w) /\ UNCHANGED <<rows, nextId, requests, before, kept>>
    BY <1>2 DEF RejectSwap
  <2>3. QED BY <2>1, <2>2, EvolveNone, TypeAfterEnd DEF TypeInd
<1>3. QED BY <1>1, <1>2

\* UPDATE ... SET one field or more of the rows that meet a condition.
LEMMA EvolveImage ==
    ASSUME RowsOK, NEW g, DOMAIN g = rows, rows' = {g[r] : r \in rows}, nextId' = nextId,
           \A r \in rows : g[r] \in Row /\ g[r].id = r.id /\ g[r].user = r.user
    PROVE  Evolve
<1>1. Derived(rows')
  BY DerivedImage
<1>2. QED BY <1>1, EvolveSame

LEMMA TypeEndOpenRows ==
    ASSUME TypeInd, NEW w \in Workers, NEW u \in Users, NEW s \in Shifts \cup {Off},
           EndOpenRows(w, u, s)
    PROVE  TypeInd'
<1> DEFINE g == [r \in rows |-> IF r.user = u /\ r.to = Horizon THEN [r EXCEPT !.to = Today]
                                 ELSE r]
           j == IF s = Off THEN NoJob ELSE [kind |-> "profile", users |-> {u}, shift |-> s]
<1>1. rows' = {g[r] : r \in rows} /\ nextId' = nextId
  BY DEF EndOpenRows
<1>2. \A r \in rows : g[r] \in Row /\ g[r].id = r.id /\ g[r].user = r.user
  BY DaysOK DEF TypeInd, RowsOK, Row
<1>3. DOMAIN g = rows /\ RowsOK
  BY DEF TypeInd
<1>4. Evolve
  <2> HIDE DEF g
  <2>1. QED BY <1>1, <1>2, <1>3, EvolveImage
<1>5. Shaped(j) /\ Refers(j) = {}
  <2>1. CASE s = Off
    BY <2>1, ShapedNoJob
  <2>2. CASE s # Off
    BY <2>2 DEF Shaped, AnyJob, Starts, Refers
  <2>3. QED BY <2>1, <2>2
<1>6. Begins(w, {}, j) /\ kept' \subseteq Users /\ swap' = swap
  BY StillKeptPart DEF EndOpenRows
<1> HIDE DEF j
<1>7. QED BY <1>4, <1>5, <1>6, TypeAfterBegin DEF TypeInd

LEMMA TypeDelete ==
    ASSUME TypeInd, NEW r \in rows, DeleteAssignment(r)
    PROVE  TypeInd'
<1>1. Evolve
  BY DerivedPart, EvolveSame DEF DeleteAssignment, TypeInd
<1>2. swap' \in Swaps /\ kept' \subseteq Users /\ job' = job /\ before' = before
  BY CascadeType, StillKeptPart DEF DeleteAssignment
<1>3. QED BY <1>1, <1>2, TypeAfter DEF TypeInd

LEMMA TypeCreateSwap ==
    ASSUME TypeInd, NEW a \in rows, NEW b \in rows, CreateSwap(a, b)
    PROVE  TypeInd'
<1>1. swap' \in Swaps
  BY DEF CreateSwap, TypeInd, RowsOK, Row, Swaps
<1>2. Evolve
  BY EvolveNone DEF CreateSwap, TypeInd
<1>3. QED BY <1>1, <1>2, TypeAfter DEF TypeInd, CreateSwap

LEMMA TypeFail == ASSUME TypeInd, NEW w \in Workers, Fail(w) PROVE TypeInd'
BY EvolveNone, TypeAfterEnd DEF TypeInd, Fail

\* What an assignment has still to do gets less.
LEMMA ShapedLess ==
    ASSUME NEW j, j \in Assigns, Shaped(j), NEW i \in Assigns, i.users = j.users, i.again = j.again,
           i.delete \subseteq j.delete, i.close \subseteq j.close, i.trim \subseteq j.trim,
           i.tails \subseteq j.tails
    PROVE  Shaped(i) /\ Refers(i) \subseteq Refers(j)
<1>1. j.kind = "assign" /\ i.kind = "assign"
  BY DEF Assigns
<1>2. IsFiniteSet(i.tails)
  BY <1>1, FS_Subset DEF Shaped
<1>3. Refers(i) \subseteq Refers(j)
  BY <1>1 DEF Refers
<1>4. Shaped(i)
  BY <1>1, <1>2, <1>3 DEF Shaped, AnyJob
<1>5. QED BY <1>3, <1>4

LEMMA TypeDeleteSuperseded ==
    ASSUME TypeInd, NEW w \in Workers, DeleteSuperseded(w)
    PROVE  TypeInd'
<1> DEFINE gone == {r \in rows : \E q \in job[w].delete : q.id = r.id}
           j == [job[w] EXCEPT !.delete = {}]
<1>1. Shaped(job[w]) /\ job[w] \in Assigns
  BY KindOf DEF TypeInd, DeleteSuperseded, Assigning
<1>2. /\ j \in Assigns /\ j.users = job[w].users /\ j.again = job[w].again
      /\ j.delete \subseteq job[w].delete /\ j.close \subseteq job[w].close
      /\ j.trim \subseteq job[w].trim /\ j.tails \subseteq job[w].tails
  BY <1>1 DEF Assigns
<1>3. Shaped(j) /\ Refers(j) \subseteq Refers(job[w])
  BY <1>1, <1>2, ShapedLess
<1>4. rows' = rows \ gone /\ job' = [job EXCEPT ![w] = j] /\ Cascade(gone)
      /\ UNCHANGED <<nextId, requests, before, kept>>
  BY DEF DeleteSuperseded, TypeInd
<1> HIDE DEF j, gone
<1>5. Evolve
  BY <1>4, DerivedPart, EvolveSame DEF TypeInd
<1>6. swap' \in Swaps
  BY <1>4, CascadeType
<1>7. QED BY <1>3, <1>4, <1>5, <1>6, TypeAfterJob DEF TypeInd

LEMMA TypeCloseOne ==
    ASSUME TypeInd, NEW w \in Workers, CloseOne(w)
    PROVE  TypeInd'
<1>1. Shaped(job[w]) /\ job[w] \in Assigns
  BY KindOf DEF TypeInd, CloseOne, Assigning
<1>2. PICK q \in job[w].close :
        /\ rows' = {IF r.id = q.id THEN [r EXCEPT !.to = job[w].win.from - 1] ELSE r : r \in rows}
        /\ job' = [job EXCEPT ![w] = [job[w] EXCEPT !.close = job[w].close \ {q}]]
  BY DEF CloseOne, SetById, TypeInd
<1> DEFINE j == [job[w] EXCEPT !.close = job[w].close \ {q}]
           g == [r \in rows |-> IF r.id = q.id THEN [r EXCEPT !.to = job[w].win.from - 1] ELSE r]
<1>3. /\ j \in Assigns /\ j.users = job[w].users /\ j.again = job[w].again
      /\ j.delete \subseteq job[w].delete /\ j.close \subseteq job[w].close
      /\ j.trim \subseteq job[w].trim /\ j.tails \subseteq job[w].tails
  BY <1>1 DEF Assigns
<1>4. Shaped(j) /\ Refers(j) \subseteq Refers(job[w])
  BY <1>1, <1>3, ShapedLess
<1>5. job[w].win.from - 1 \in Nat
  BY <1>1, DaysNat DEF Assigns, Windows, AnyWindow
<1>6. \A r \in rows : g[r] \in Row /\ g[r].id = r.id /\ g[r].user = r.user
  BY <1>5 DEF TypeInd, RowsOK, Row
<1>7. rows' = {g[r] : r \in rows} /\ DOMAIN g = rows
  BY <1>2
<1>8. UNCHANGED <<nextId, swap, before, kept>>
  BY DEF CloseOne
<1>9. Evolve
  <2> HIDE DEF g
  <2>1. QED BY <1>6, <1>7, <1>8, EvolveImage DEF TypeInd
<1> HIDE DEF j
<1>10. QED BY <1>2, <1>4, <1>8, <1>9, TypeAfterJob DEF TypeInd, j

LEMMA TypeTrimOne ==
    ASSUME TypeInd, NEW w \in Workers, TrimOne(w)
    PROVE  TypeInd'
<1>1. Shaped(job[w]) /\ job[w] \in Assigns
  BY KindOf DEF TypeInd, TrimOne, Assigning
<1>2. PICK q \in job[w].trim :
        /\ rows' = {IF r.id = q.id THEN [r EXCEPT !.from = job[w].win.to + 1] ELSE r : r \in rows}
        /\ job' = [job EXCEPT ![w] = [job[w] EXCEPT !.trim = job[w].trim \ {q}]]
  BY DEF TrimOne, SetById, TypeInd
<1> DEFINE j == [job[w] EXCEPT !.trim = job[w].trim \ {q}]
           g == [r \in rows |-> IF r.id = q.id THEN [r EXCEPT !.from = job[w].win.to + 1] ELSE r]
<1>3. /\ j \in Assigns /\ j.users = job[w].users /\ j.again = job[w].again
      /\ j.delete \subseteq job[w].delete /\ j.close \subseteq job[w].close
      /\ j.trim \subseteq job[w].trim /\ j.tails \subseteq job[w].tails
  BY <1>1 DEF Assigns
<1>4. Shaped(j) /\ Refers(j) \subseteq Refers(job[w])
  BY <1>1, <1>3, ShapedLess
<1>5. job[w].win.to + 1 \in Nat
  BY <1>1, DaysNat DEF Assigns, Windows, AnyWindow
<1>6. \A r \in rows : g[r] \in Row /\ g[r].id = r.id /\ g[r].user = r.user
  BY <1>5 DEF TypeInd, RowsOK, Row
<1>7. rows' = {g[r] : r \in rows} /\ DOMAIN g = rows
  BY <1>2
<1>8. UNCHANGED <<nextId, swap, before, kept>>
  BY DEF TrimOne
<1>9. Evolve
  <2> HIDE DEF g
  <2>1. QED BY <1>6, <1>7, <1>8, EvolveImage DEF TypeInd
<1> HIDE DEF j
<1>10. QED BY <1>2, <1>4, <1>8, <1>9, TypeAfterJob DEF TypeInd, j

LEMMA TypeInsertTails ==
    ASSUME TypeInd, NEW w \in Workers, InsertTails(w)
    PROVE  TypeInd'
<1> DEFINE j == [job[w] EXCEPT !.tails = {}]
<1>1. Shaped(job[w]) /\ job[w] \in Assigns
  BY KindOf DEF TypeInd, InsertTails, Assigning
<1>2. /\ j \in Assigns /\ j.users = job[w].users /\ j.again = job[w].again
      /\ j.delete \subseteq job[w].delete /\ j.close \subseteq job[w].close
      /\ j.trim \subseteq job[w].trim /\ j.tails \subseteq job[w].tails
  BY <1>1 DEF Assigns
<1>3. Shaped(j) /\ Refers(j) \subseteq Refers(job[w])
  BY <1>1, <1>2, ShapedLess
<1>4. /\ Insert(rows, job[w].tails) /\ job' = [job EXCEPT ![w] = j]
      /\ UNCHANGED <<swap, requests, before, kept>>
  BY DEF InsertTails, TypeInd
<1>5. job[w].tails \subseteq Row /\ IsFiniteSet(job[w].tails)
  BY <1>1 DEF Assigns, Shaped
<1> HIDE DEF j
<1>6. Evolve
  BY <1>4, <1>5, DerivedPart, EvolveInsert DEF TypeInd
<1>7. QED BY <1>3, <1>4, <1>6, TypeAfterJob DEF TypeInd

LEMMA FreshRows ==
    ASSUME NEW us \in SUBSET Users, NEW n \in Nat, NEW s \in Shifts, NEW win,
           win.from \in Nat, win.to \in Nat
    PROVE  Fresh(us, n, s, win) \subseteq Row /\ IsFiniteSet(Fresh(us, n, s, win))
<1>1. [u \in us |-> [id |-> n, user |-> u, shift |-> s, from |-> win.from, to |-> win.to]]
        \in Surjection(us, Fresh(us, n, s, win))
  BY DEF Surjection, Fresh
<1>2. IsFiniteSet(us)
  BY FiniteSetsOK, FS_Subset
<1>3. QED BY <1>1, <1>2, FS_Surjection DEF Fresh, Row

\* The rows of an assignment.
NewRows(j) == Fresh(j.users, 0, j.shift, j.win) \cup Fresh(j.again, 1, j.shift, j.win)

LEMMA NewRowsOK ==
    ASSUME NEW j \in Assigns
    PROVE  NewRows(j) \subseteq Row /\ IsFiniteSet(NewRows(j))
<1>1. /\ j.users \subseteq Users /\ j.again \subseteq Users /\ j.shift \in Shifts
      /\ j.win.from \in Nat /\ j.win.to \in Nat
  BY DaysNat DEF Assigns, AnyWindow
<1>2. \A us \in SUBSET Users, n \in Nat :
         Fresh(us, n, j.shift, j.win) \subseteq Row /\ IsFiniteSet(Fresh(us, n, j.shift, j.win))
  BY <1>1, FreshRows
<1>3. QED BY <1>1, <1>2, FS_Union DEF NewRows

LEMMA TypeInsertAssignments ==
    ASSUME TypeInd, NEW w \in Workers, InsertAssignments(w)
    PROVE  TypeInd'
<1>1. Shaped(job[w]) /\ job[w] \in Assigns
  BY KindOf DEF TypeInd, InsertAssignments, Assigning
<1> DEFINE new == NewRows(job[w])
<1>2. Insert(rows, new) /\ Ends(w) /\ UNCHANGED <<swap, before, kept>>
  BY DEF InsertAssignments, NewRows
<1>3. new \subseteq Row /\ IsFiniteSet(new)
  BY <1>1, NewRowsOK
<1> HIDE DEF new
<1>4. Evolve
  BY <1>2, <1>3, DerivedPart, EvolveInsert DEF TypeInd
<1>5. QED BY <1>2, <1>4, TypeAfterEnd DEF TypeInd

LEMMA TypeStartToday ==
    ASSUME TypeInd, NEW w \in Workers, StartToday(w)
    PROVE  TypeInd'
<1>1. Shaped(job[w]) /\ job[w] \in Starts
  BY KindOf DEF TypeInd, StartToday
<1> DEFINE new == Fresh(job[w].users, 0, job[w].shift, [from |-> Today, to |-> Horizon])
<1>2. Insert(rows, new) /\ Ends(w) /\ UNCHANGED <<swap, before, kept>>
  BY DEF StartToday
<1>3. new \subseteq Row /\ IsFiniteSet(new)
  <2>1. job[w].users \subseteq Users /\ job[w].shift \in Shifts
        /\ Today \in Nat /\ Horizon \in Nat
    BY <1>1, DaysOK DEF Starts
  <2>2. QED BY <2>1, FreshRows
<1> HIDE DEF new
<1>4. Evolve
  BY <1>2, <1>3, DerivedPart, EvolveInsert DEF TypeInd
<1>5. QED BY <1>2, <1>4, TypeAfterEnd DEF TypeInd

LEMMA OldTailsRows ==
    ASSUME NEW r \in Row, NEW win \in AnyWindow
    PROVE  OldTails(r, win) \subseteq Row /\ IsFiniteSet(OldTails(r, win))
<1>1. win.from - 1 \in Nat /\ win.to + 1 \in Nat
  BY DaysNat DEF AnyWindow
<1>2. OldTails(r, win) \subseteq {[r EXCEPT !.to = win.from - 1], [r EXCEPT !.from = win.to + 1]}
  BY DEF OldTails
<1>3. IsFiniteSet({[r EXCEPT !.to = win.from - 1], [r EXCEPT !.from = win.to + 1]})
  <2>1. \A x, y : IsFiniteSet({x, y})
    <3> SUFFICES ASSUME NEW x, NEW y PROVE IsFiniteSet({x, y})
      OBVIOUS
    <3>1. IsFiniteSet({x} \cup {y})
      BY FS_Singleton, FS_Union
    <3>2. {x} \cup {y} = {x, y}
      OBVIOUS
    <3>3. QED BY <3>1, <3>2
  <2>2. QED BY <2>1, Zenon
<1>4. IsFiniteSet(OldTails(r, win))
  BY <1>2, <1>3, FS_Subset
<1>5. QED BY <1>1, <1>2, <1>4 DEF Row

\* The row of the update, changed.
Rewritten(j) == {IF r.id = j.row.id
                   THEN [r EXCEPT !.shift = j.shift, !.from = j.win.from, !.to = j.win.to]
                   ELSE r : r \in rows}

LEMMA RewrittenDerived ==
    ASSUME RowsOK, NEW j \in Updates
    PROVE  Derived(Rewritten(j))
<1> DEFINE g == [r \in rows |-> IF r.id = j.row.id
                   THEN [r EXCEPT !.shift = j.shift, !.from = j.win.from, !.to = j.win.to]
                   ELSE r]
<1>1. j.shift \in Shifts /\ j.win.from \in Nat /\ j.win.to \in Nat
  BY DaysNat DEF Updates, AnyWindow
<1>2. \A r \in rows : g[r] \in Row /\ g[r].id = r.id /\ g[r].user = r.user
  BY <1>1 DEF RowsOK, Row
<1>3. Rewritten(j) = {g[r] : r \in rows} /\ DOMAIN g = rows
  BY DEF Rewritten
<1> HIDE DEF g
<1>4. QED BY <1>2, <1>3, DerivedImage

LEMMA TypeUpdateAssignment ==
    ASSUME TypeInd, NEW w \in Workers, UpdateAssignment(w)
    PROVE  TypeInd'
<1>1. Shaped(job[w]) /\ job[w] \in Updates
  BY KindOf DEF TypeInd, UpdateAssignment
<1>2. /\ Insert(Rewritten(job[w]), OldTails(job[w].row, job[w].win))
      /\ Ends(w) /\ UNCHANGED <<swap, before, kept>>
  BY DEF UpdateAssignment, Rewritten
<1>3. Derived(Rewritten(job[w]))
  BY <1>1, RewrittenDerived DEF TypeInd
<1>4. OldTails(job[w].row, job[w].win) \subseteq Row
      /\ IsFiniteSet(OldTails(job[w].row, job[w].win))
  <2>1. job[w].row \in Row /\ job[w].win \in AnyWindow
    BY <1>1 DEF Updates
  <2>2. QED BY <2>1, OldTailsRows
<1>5. Evolve
  BY <1>2, <1>3, <1>4, EvolveInsert DEF TypeInd
<1>6. QED BY <1>2, <1>5, TypeAfterEnd DEF TypeInd

LEMMA TypeApproveSwap ==
    ASSUME TypeInd, NEW w \in Workers, ApproveSwap(w)
    PROVE  TypeInd'
<1> DEFINE j == job[w]
           g == [r \in rows |-> IF r.id = j.b.id THEN [r EXCEPT !.shift = j.a.shift]
                ELSE IF r.id = j.a.id THEN [r EXCEPT !.shift = j.b.shift] ELSE r]
<1>1. Shaped(j) /\ j \in Approvals
  BY KindOf DEF TypeInd, ApproveSwap
<1>2. rows' = {g[r] : r \in rows} /\ DOMAIN g = rows
  BY DEF ApproveSwap
<1>3. \A r \in rows : g[r] \in Row /\ g[r].id = r.id /\ g[r].user = r.user
  BY <1>1 DEF TypeInd, RowsOK, Approvals, Row
<1>4. Ends(w) /\ UNCHANGED <<nextId, before, kept>>
  BY DEF ApproveSwap
<1>5. swap' \in Swaps
  BY DEF ApproveSwap, TypeInd, Swaps
<1>6. Evolve
  <2> HIDE DEF g
  <2>1. QED BY <1>2, <1>3, <1>4, EvolveImage DEF TypeInd
<1>7. QED BY <1>4, <1>5, <1>6, TypeAfterEnd DEF TypeInd

-----------------------------------------------------------------------------
(***************************************************************************)
(* What a step leaves of the rows of a user, and of what is known of them. *)
(***************************************************************************)
LEMMA OfImage ==
    ASSUME NEW g, DOMAIN g = rows, rows' = {g[r] : r \in rows},
           \A r \in rows : g[r].user = r.user, NEW u
    PROVE  Of(u)' = {g[r] : r \in Of(u)}
BY DEF Of

LEMMA OfInsert ==
    ASSUME NEW rs, NEW new, NEW stamp, new \subseteq Row,
           rows' = rs \cup Stamped(stamp, new), NEW u
    PROVE  Of(u)' = {r \in rs : r.user = u} \cup Stamped(stamp, {x \in new : x.user = u})
<1>1. \A x \in new : [x EXCEPT !.id = stamp[x]].user = x.user
  BY DEF Row
<1>2. QED BY <1>1 DEF Of, Stamped

\* One job may change; a user is still kept if what is known of the rows holds
\* for that job, and nothing changed for the others.
LEMMA KeptAfter ==
    ASSUME TypeInd, NEW u, KeptFor(u), NEW w \in Workers, NEW j,
           job' = [job EXCEPT ![w] = j],
           Clean(Of(u))',
           u \in Concerned(w)' => /\ Holds(j, u, Of(u)', before'[u])
                                  /\ \A v \in Workers : u \in Concerned(v) => v = w,
           \A v \in Workers : v # w /\ u \in Concerned(v) =>
               Of(u)' = Of(u) /\ before'[u] = before[u]
    PROVE  KeptFor(u)'
<1>1. job'[w] = j /\ \A v \in Workers : v # w => job'[v] = job[v]
  BY DEF TypeInd
<1>2. \A v \in Workers : v # w => Concerned(v)' = Concerned(v)
  BY <1>1 DEF Concerned
<1>3. ASSUME NEW v \in Workers, u \in Concerned(v)'
      PROVE  Holds(job'[v], u, Of(u)', before'[u])
  <2>1. CASE v = w
    BY <1>1, <1>3, <2>1
  <2>2. CASE v # w
    <3>1. Holds(job[v], u, Of(u), before[u])
      BY <1>2, <1>3, <2>2 DEF KeptFor
    <3>2. Of(u)' = Of(u) /\ before'[u] = before[u] /\ job'[v] = job[v]
      BY <1>1, <1>2, <1>3, <2>2
    <3>3. QED BY <3>1, <3>2
  <2>3. QED BY <2>1, <2>2
<1>4. \A v, x \in Workers : u \in Concerned(v)' /\ u \in Concerned(x)' => v = x
  BY <1>2 DEF KeptFor
<1>5. QED BY <1>3, <1>4 DEF KeptFor

\* The change was not about this user.
LEMMA KeptOther ==
    ASSUME TypeInd, NEW u, KeptFor(u), NEW w \in Workers, NEW j,
           job' = [job EXCEPT ![w] = j],
           Of(u)' = Of(u), before'[u] = before[u],
           j = NoJob \/ u \notin j.users
    PROVE  KeptFor(u)'
<1>1. u \notin Concerned(w)'
  BY DEF Concerned, TypeInd
<1>2. Clean(Of(u))'
  BY DEF KeptFor, Clean
<1>3. QED BY <1>1, <1>2, KeptAfter

LEMMA Untouched ==
    ASSUME UNCHANGED <<rows, job, before>>, NEW u, KeptFor(u)
    PROVE  KeptFor(u)'
BY DEF KeptFor, Holds, Of, Clean, Concerned, AssignHolds, UpdateHolds, Under, Outside

LEMMA StillKeptKept ==
    ASSUME NEW us PROVE StillKept(us) \subseteq kept /\ StillKept(us) \cap us = {}
BY DEF StillKept

\* Whom no request is about: a user of the change that is not in the clash.
LEMMA Alone ==
    ASSUME NEW us, NEW u \in us, u \in StillKept(Clash(us))
    PROVE  u \in kept /\ \A v \in Workers : u \notin Concerned(v)
BY DEF StillKept, Clash

\* And whose assignment has its dates in order and names the user once.
LEMMA WellAsked ==
    ASSUME NEW us, NEW again, NEW win, NEW u \in us,
           u \in StillKept(Clash(us) \cup IF win \in Windows THEN again ELSE us)
    PROVE  win \in Windows /\ u \notin again /\ \A v \in Workers : u \notin Concerned(v)
<1>1. u \notin Clash(us) \cup IF win \in Windows THEN again ELSE us
  BY StillKeptKept
<1>2. win \in Windows /\ u \notin again
  BY <1>1
<1>3. QED BY <1>1, <1>2 DEF Clash

(***************************************************************************)
(* The two sides of a swap.                                                *)
(***************************************************************************)
LEMMA TogetherStill ==
    ASSUME TypeInd, \A u \in kept : KeptFor(u), Together, NEW us, kept' = StillKept(us),
           NEW v \in Workers, job[v].kind = "approve"
    PROVE  job[v].users \subseteq kept' \/ job[v].users \cap kept' = {}
<1>1. Concerned(v) = job[v].users
  BY DEF Concerned, NoJob
<1>2. CASE job[v].users \cap us # {}
  <2>1. job[v].users \subseteq Partners(us)
    BY <1>1, <1>2 DEF Partners
  <2>2. QED BY <2>1 DEF StillKept
<1>3. CASE job[v].users \cap us = {} /\ job[v].users \subseteq kept
  <2>1. SUFFICES ASSUME NEW x \in job[v].users, x \in Partners(us) PROVE FALSE
    BY <1>3 DEF StillKept
  <2>2. PICK z \in Workers : x \in Concerned(z) /\ Concerned(z) \cap us # {}
    BY <2>1 DEF Partners
  <2>3. KeptFor(x)
    BY <1>3
  <2>4. z = v
    BY <1>1, <2>1, <2>2, <2>3 DEF KeptFor
  <2>5. QED BY <1>1, <1>3, <2>2, <2>4
<1>4. CASE job[v].users \cap kept = {}
  BY <1>4 DEF StillKept
<1>5. QED BY <1>2, <1>3, <1>4 DEF Together

LEMMA TogetherAfter ==
    ASSUME TypeInd, \A u \in kept : KeptFor(u), Together,
           kept' = kept \/ \E us : kept' = StillKept(us),
           NEW w \in Workers, NEW j, job' = [job EXCEPT ![w] = j],
           j.kind = "approve" => j.users \subseteq kept' \/ j.users \cap kept' = {}
    PROVE  Together'
<1>1. job'[w] = j /\ \A v \in Workers : v # w => job'[v] = job[v]
  BY DEF TypeInd
<1>2. ASSUME NEW v \in Workers, job[v].kind = "approve"
      PROVE  job[v].users \subseteq kept' \/ job[v].users \cap kept' = {}
  <2>1. CASE kept' = kept
    BY <1>2, <2>1 DEF Together
  <2>2. CASE \E us : kept' = StillKept(us)
    BY <1>2, <2>2, TogetherStill
  <2>3. QED BY <2>1, <2>2
<1>3. QED BY <1>1, <1>2 DEF Together

LEMMA TogetherEnd ==
    ASSUME TypeInd, \A u \in kept : KeptFor(u), Together, kept' = kept,
           NEW w \in Workers, Ends(w)
    PROVE  Together'
<1>1. job' = [job EXCEPT ![w] = NoJob] /\ NoJob.kind # "approve"
  BY DEF Ends, NoJob
<1>2. QED BY <1>1, TogetherAfter

(***************************************************************************)
(* The requests that begin.                                                *)
(***************************************************************************)
\* What is shown at the beginning is what the rows of the user say.
LEMMA ShownUnder ==
    ASSUME TypeInd, NEW u, Clean(Of(u))
    PROVE  /\ Under(Of(u), Shown(rows, u))
           /\ \A d \in Days : (\A r \in Of(u) : ~Covers(r, d)) => Shown(rows, u)[d] = Off
<1>1. \A d \in Days : Shown(rows, u)[d] = ShownShift(rows, u, d)
  BY DEF Shown
<1>2. \A x \in rows : x.id \in Nat
  BY DEF TypeInd, RowsOK, Row
<1>3. ASSUME NEW r \in Of(u), NEW d \in Days, Covers(r, d)
      PROVE  ShownShift(rows, u, d) = r.shift
  BY <1>2, <1>3, ShownCovered DEF Of
<1>4. QED BY <1>1, <1>3, ShownFree DEF Under, Of

LEMMA KeptBeginUpdate ==
    ASSUME TypeInd, NEW w \in Workers, NEW r \in rows, NEW s \in Shifts,
           NEW win \in AnyWindow, BeginUpdate(w, r, s, win),
           NEW u \in kept', KeptFor(u)
    PROVE  KeptFor(u)'
<1> DEFINE j == [kind |-> "update", users |-> {r.user}, row |-> r, shift |-> s, win |-> win]
<1>1. /\ job' = [job EXCEPT ![w] = j] /\ rows' = rows
      /\ before' = [x \in Users |-> IF x \in {r.user} THEN Shown(rows, x) ELSE before[x]]
      /\ u \in StillKept(IF win \in Windows /\ r.from <= win.from /\ win.to <= r.to
                           THEN Clash({r.user}) ELSE {r.user})
  BY DEF BeginUpdate, Begins
<1>2. u \in kept /\ u \in Users /\ Of(u)' = Of(u)
  BY <1>1, StillKeptKept DEF Of, TypeInd
<1>3. CASE u # r.user
  BY <1>1, <1>2, <1>3, KeptOther
<1>4. CASE u = r.user
  <2>1. win \in Windows /\ r.from <= win.from /\ win.to <= r.to
    BY <1>1, <1>4, StillKeptKept
  <2>2. \A v \in Workers : u \notin Concerned(v)
    BY <1>1, <1>4, <2>1, Alone
  <2>3. Clean(Of(u)) /\ before'[u] = Shown(rows, u) /\ r \in Of(u)
    BY <1>1, <1>2, <1>4 DEF KeptFor, Of
  <2>4. UpdateHolds(j, Of(u), before'[u])
    BY <2>1, <2>3, ShownUnder DEF UpdateHolds
  <2>5. Holds(j, u, Of(u), before'[u])
    BY <2>4 DEF Holds
  <2>6. Clean(Of(u))'
    BY <1>2, <2>3 DEF Clean
  <2> HIDE DEF j
  <2>7. QED BY <1>1, <1>2, <2>2, <2>5, <2>6, KeptAfter
<1>5. QED BY <1>3, <1>4

LEMMA KeptBeginApprove ==
    ASSUME TypeInd, NEW w \in Workers, BeginApprove(w), NEW u \in kept', KeptFor(u)
    PROVE  KeptFor(u)'
<1>1. PICK a \in rows, b \in rows :
          /\ Begins(w, {a.user, b.user}, [kind |-> "approve", users |-> {a.user, b.user},
                                          a |-> a, b |-> b])
          /\ kept' = StillKept(IF a.user # b.user /\ {a.user, b.user} \subseteq kept
                                    /\ Clash({a.user, b.user}) = {}
                                 THEN {} ELSE {a.user, b.user})
  BY DEF BeginApprove
<1> DEFINE j == [kind |-> "approve", users |-> {a.user, b.user}, a |-> a, b |-> b]
<1>2. /\ job' = [job EXCEPT ![w] = j] /\ rows' = rows
      /\ before' = [x \in Users |-> IF x \in {a.user, b.user} THEN Shown(rows, x)
                                    ELSE before[x]]
  BY <1>1 DEF BeginApprove, Begins
<1>3. u \in kept /\ u \in Users /\ Of(u)' = Of(u)
  BY <1>1, <1>2, StillKeptKept DEF Of, TypeInd
<1>4. CASE u \notin {a.user, b.user}
  BY <1>2, <1>3, <1>4, KeptOther
<1>5. CASE u \in {a.user, b.user}
  <2>1. a.user # b.user /\ Clash({a.user, b.user}) = {}
    BY <1>1, <1>5, StillKeptKept
  <2>2. \A v \in Workers : u \notin Concerned(v)
    BY <1>5, <2>1 DEF Clash
  <2>3. Holds(j, u, Of(u), before'[u])
    BY <2>1 DEF Holds, Of
  <2>4. Clean(Of(u))'
    BY <1>3 DEF Clean, KeptFor
  <2> HIDE DEF j
  <2>5. QED BY <1>2, <1>3, <2>2, <2>3, <2>4, KeptAfter
<1>6. QED BY <1>4, <1>5

\* What the reconciliation reads, for one of the users.
LEMMA AssignBegun ==
    ASSUME TypeInd, NEW us \in SUBSET Users, NEW again \in SUBSET us, NEW s \in Shifts,
           NEW win \in Windows, NEW u \in us, u \notin again, Clean(Of(u)), NEW b,
           Under(Of(u), b), \A d \in Days : (\A r \in Of(u) : ~Covers(r, d)) => b[d] = Off,
           NEW theirs, theirs = {r \in rows : r.user \in us}, NEW j,
           j = [kind |-> "assign", users |-> us, again |-> again, shift |-> s, win |-> win,
                delete |-> Superseded(theirs, win), close |-> Closed(theirs, win),
                trim   |-> Trimmed(theirs, win),    tails |-> Tails(theirs, win)]
    PROVE  AssignHolds(j, u, Of(u), b)
<1> DEFINE mine(qs) == {q \in qs : q.user = u}
<1>1. /\ j.delete = Superseded(theirs, win) /\ j.close = Closed(theirs, win)
      /\ j.trim = Trimmed(theirs, win) /\ j.tails = Tails(theirs, win) /\ j.win = win
      /\ j.win \in Windows /\ u \notin j.again
  OBVIOUS
<1>2. Of(u) \subseteq theirs /\ \A q \in theirs : q.user = u => q \in Of(u)
  BY DEF Of
<1>3. mine(j.delete \cup j.close \cup j.trim) \subseteq Of(u)
  BY <1>1, <1>2 DEF Superseded, Closed, Trimmed
<1>4. \A r \in Of(u) : Overlaps(r, win) => r \in j.delete \cup j.close \cup j.trim
  BY <1>1, <1>2 DEF Superseded, Closed, Trimmed
<1>5. \A q \in mine(j.delete) : ~StartsBefore(q, win) /\ ~EndsAfter(q, win)
  BY <1>1 DEF Superseded
<1>6. \A q \in mine(j.close) :
         /\ Overlaps(q, win) /\ StartsBefore(q, win)
         /\ EndsAfter(q, win) => [q EXCEPT !.from = win.to + 1] \in j.tails
  BY <1>1 DEF Closed, Tails
<1>7. \A q \in mine(j.trim) : Overlaps(q, win) /\ ~StartsBefore(q, win) /\ EndsAfter(q, win)
  BY <1>1 DEF Trimmed
<1>8. win.from \in Nat /\ win.to \in Nat /\ win.from <= win.to
  BY DaysNat DEF Windows, AnyWindow
<1>9. ASSUME NEW t \in mine(j.tails)
      PROVE  \E q \in Of(u) : /\ q \in j.close /\ EndsAfter(q, win) /\ StartsBefore(q, win)
                              /\ q.from \in Nat /\ q.to \in Days
                              /\ t.from = win.to + 1 /\ t.to = q.to /\ t.shift = q.shift
                              /\ t = [q EXCEPT !.from = win.to + 1]
  <2>1. PICK q \in Closed(theirs, win) : EndsAfter(q, win) /\ t = [q EXCEPT !.from = win.to + 1]
    BY <1>1 DEF Tails
  <2>2. q \in theirs /\ StartsBefore(q, win) /\ q \in Row
    BY <2>1 DEF Closed, TypeInd, RowsOK
  <2>3. /\ t.user = q.user /\ t.from = win.to + 1 /\ t.to = q.to /\ t.shift = q.shift
        /\ q.from \in Nat
    BY <2>1, <2>2 DEF Row
  <2>4. q \in Of(u)
    BY <1>2, <2>2, <2>3
  <2>5. q.to \in Days
    BY <2>4 DEF Clean
  <2>6. QED BY <1>1, <2>1, <2>2, <2>3, <2>4, <2>5
<1>10. ASSUME NEW t \in mine(j.tails)
       PROVE  /\ t.from = win.to + 1 /\ t.to \in Days /\ t.from <= t.to
              /\ \A r \in Of(u) \ j.close : r.to < t.from \/ t.to < r.from
              /\ \A x \in mine(j.tails) : x = t
  <2>1. PICK q \in Of(u) : /\ q \in j.close /\ EndsAfter(q, win) /\ StartsBefore(q, win)
                           /\ q.from \in Nat /\ q.to \in Days
                           /\ t.from = win.to + 1 /\ t.to = q.to
                           /\ t = [q EXCEPT !.from = win.to + 1]
    BY <1>9
  <2>2. t.to \in Days /\ t.from <= t.to
    BY <1>8, <2>1, DaysNat DEF EndsAfter
  <2>3. ASSUME NEW r \in Of(u) \ j.close PROVE r.to < t.from \/ t.to < r.from
    <3>1. r # q /\ r \in Of(u)
      BY <2>1
    <3>2. r.to < q.from \/ q.to < r.from
      BY <3>1 DEF Clean
    <3>3. r.to \in Nat /\ r.from \in Nat
      BY <3>1, DaysNat DEF Clean
    <3>4. q.from < win.to + 1
      BY <1>8, <2>1 DEF StartsBefore
    <3>5. QED BY <1>8, <2>1, <3>2, <3>3, <3>4
  <2>4. ASSUME NEW x \in mine(j.tails) PROVE x = t
    <3>1. PICK p \in Of(u) : /\ p \in j.close /\ EndsAfter(p, win) /\ StartsBefore(p, win)
                             /\ p.from \in Nat /\ p.to \in Days
                             /\ x = [p EXCEPT !.from = win.to + 1]
      BY <1>9
    <3>2. p.to \in Nat /\ q.to \in Nat
      BY <2>1, <3>1, DaysNat
    <3>3. ~(p.to < q.from \/ q.to < p.from)
      BY <1>8, <2>1, <3>1, <3>2 DEF EndsAfter, StartsBefore
    <3>4. p = q
      BY <3>3 DEF Clean
    <3>5. QED BY <2>1, <3>1, <3>4
  <2>5. QED BY <2>1, <2>2, <2>3, <2>4
<1>11. Under(Of(u) \cup mine(j.tails), b)
  <2> SUFFICES ASSUME NEW t \in mine(j.tails), NEW d \in Days, Covers(t, d)
               PROVE  b[d] = t.shift
    BY DEF Under
  <2>1. PICK q \in Of(u) : /\ EndsAfter(q, win) /\ StartsBefore(q, win)
                           /\ q.from \in Nat /\ q.to \in Days
                           /\ t.from = win.to + 1 /\ t.to = q.to /\ t.shift = q.shift
    BY <1>9
  <2>2. Covers(q, d)
    BY <1>8, <2>1, DaysNat DEF Covers, StartsBefore
  <2>3. QED BY <2>1, <2>2 DEF Under
<1>12. Outside(Of(u) \cup mine(j.tails), b, win)
  BY DEF Outside
<1> HIDE DEF mine
<1>13. QED BY <1>1, <1>3, <1>4, <1>5, <1>6, <1>7, <1>10, <1>11, <1>12 DEF AssignHolds, mine

LEMMA KeptBeginAssign ==
    ASSUME TypeInd, NEW w \in Workers, NEW us \in SUBSET Users,
           NEW again \in SUBSET us, NEW s \in Shifts, NEW win \in AnyWindow,
           BeginAssign(w, us, again, s, win), NEW u \in kept', KeptFor(u)
    PROVE  KeptFor(u)'
<1> DEFINE theirs == {r \in rows : r.user \in us}
           j == [kind |-> "assign", users |-> us, again |-> again, shift |-> s, win |-> win,
                 delete |-> Superseded(theirs, win), close |-> Closed(theirs, win),
                 trim   |-> Trimmed(theirs, win),    tails |-> Tails(theirs, win)]
<1>1. /\ job' = [job EXCEPT ![w] = j] /\ rows' = rows
      /\ before' = [x \in Users |-> IF x \in us THEN Shown(rows, x) ELSE before[x]]
      /\ u \in StillKept(Clash(us) \cup IF win \in Windows THEN again ELSE us)
  BY DEF BeginAssign, Begins
<1>2. u \in kept /\ u \in Users /\ Of(u)' = Of(u)
  BY <1>1, StillKeptKept DEF Of, TypeInd
<1>3. j.users = us /\ j.kind = "assign"
  OBVIOUS
<1>4. CASE u \notin us
  <2> HIDE DEF j
  <2>1. QED BY <1>1, <1>2, <1>3, <1>4, KeptOther
<1>5. CASE u \in us
  <2>1. win \in Windows /\ u \notin again /\ \A v \in Workers : u \notin Concerned(v)
    BY <1>1, <1>5, WellAsked
  <2>2. Clean(Of(u)) /\ before'[u] = Shown(rows, u)
    BY <1>1, <1>2, <1>5 DEF KeptFor
  <2>3. AssignHolds(j, u, Of(u), before'[u])
    <3> HIDE DEF theirs
    <3>1. theirs = {r \in rows : r.user \in us}
      BY DEF theirs
    <3>2. QED BY <1>5, <2>1, <2>2, <3>1, ShownUnder, AssignBegun
  <2> HIDE DEF j
  <2>4. Holds(j, u, Of(u), before'[u])
    BY <1>3, <2>3 DEF Holds
  <2>5. Clean(Of(u))'
    BY <1>2, <2>2 DEF Clean
  <2>6. QED BY <1>1, <1>2, <2>1, <2>4, <2>5, KeptAfter
<1>6. QED BY <1>4, <1>5

LEMMA KeptEndOpenRows ==
    ASSUME TypeInd, NEW w \in Workers, NEW x \in Users, NEW s \in Shifts \cup {Off},
           EndOpenRows(w, x, s), NEW u \in kept', KeptFor(u)
    PROVE  KeptFor(u)'
<1> DEFINE j == IF s = Off THEN NoJob ELSE [kind |-> "profile", users |-> {x}, shift |-> s]
           g == [r \in rows |-> IF r.user = x /\ r.to = Horizon THEN [r EXCEPT !.to = Today]
                                ELSE r]
<1>1. /\ job' = [job EXCEPT ![w] = j] /\ rows' = {g[r] : r \in rows}
      /\ before' = [y \in Users |-> before[y]] /\ u \in StillKept({x})
  BY DEF EndOpenRows, Begins
<1>2. u \in kept /\ u \in Users /\ u # x
  BY <1>1, StillKeptKept DEF TypeInd
<1>3. Of(u)' = Of(u)
  <2>1. \A r \in rows : g[r].user = r.user
    BY DEF TypeInd, RowsOK, Row
  <2>2. Of(u)' = {g[r] : r \in Of(u)}
    <3>1. DOMAIN g = rows
      OBVIOUS
    <3> HIDE DEF g
    <3>2. QED BY <1>1, <2>1, <3>1, OfImage
  <2>3. \A r \in Of(u) : g[r] = r
    BY <1>2 DEF Of
  <2> HIDE DEF g
  <2>4. QED BY <2>2, <2>3
<1>4. j = NoJob \/ u \notin j.users
  BY <1>2
<1> HIDE DEF j
<1>5. QED BY <1>1, <1>2, <1>3, <1>4, KeptOther

LEMMA KeptDelete ==
    ASSUME TypeInd, NEW r \in rows, DeleteAssignment(r), NEW u \in kept', KeptFor(u)
    PROVE  KeptFor(u)'
<1>1. /\ rows' = rows \ {r} /\ job' = job /\ before' = before
      /\ u \in StillKept(Clash({r.user}))
  BY DEF DeleteAssignment
<1>2. CASE u # r.user
  <2>1. Of(u)' = Of(u)
    BY <1>1, <1>2 DEF Of
  <2>2. QED BY <1>1, <2>1 DEF KeptFor, Clean, Concerned
<1>3. CASE u = r.user
  <2>1. \A v \in Workers : u \notin Concerned(v)
    BY <1>1, <1>3, Alone
  <2>2. Of(u)' \subseteq Of(u)
    BY <1>1 DEF Of
  <2>3. Clean(Of(u))'
    BY <2>2 DEF KeptFor, Clean
  <2>4. QED BY <1>1, <2>1, <2>3 DEF KeptFor, Concerned
<1>4. QED BY <1>2, <1>3

\* A request that ends without a word.
LEMMA KeptEnd ==
    ASSUME TypeInd, NEW w \in Workers, Ends(w), before' = before, NEW u, KeptFor(u),
           Of(u)' = Of(u)
    PROVE  KeptFor(u)'
BY KeptOther DEF Ends

LEMMA StartedOf ==
    ASSUME TypeInd, NEW w \in Workers, StartToday(w), NEW u, u \notin job[w].users
    PROVE  Of(u)' = Of(u)
<1>1. Shaped(job[w]) /\ job[w] \in Starts
  BY KindOf DEF TypeInd, StartToday
<1> DEFINE new == Fresh(job[w].users, 0, job[w].shift, [from |-> Today, to |-> Horizon])
<1>3. Insert(rows, new)
  BY DEF StartToday
<1>4. new \subseteq Row /\ IsFiniteSet(new) /\ \A x \in new : x.user \in job[w].users
  <2>1. job[w].users \subseteq Users /\ job[w].shift \in Shifts
        /\ Today \in Nat /\ Horizon \in Nat
    BY <1>1, DaysOK DEF Starts
  <2>2. new \subseteq Row /\ IsFiniteSet(new)
    BY <2>1, FreshRows
  <2>3. QED BY <2>2 DEF Fresh
<1> HIDE DEF new
<1>5. PICK stamp : rows' = rows \cup Stamped(stamp, new)
  BY <1>3, <1>4, InsertStamps DEF TypeInd, RowsOK
<1>6. {x \in new : x.user = u} = {}
  BY <1>4
<1>7. Of(u)' = {r \in rows : r.user = u} \cup Stamped(stamp, {})
  BY <1>4, <1>5, <1>6, OfInsert
<1>8. QED BY <1>7 DEF Stamped, Of

LEMMA KeptStartToday ==
    ASSUME TypeInd, NEW w \in Workers, StartToday(w), NEW u, KeptFor(u)
    PROVE  KeptFor(u)'
<1>1. u \notin job[w].users
  BY DEF KeptFor, Holds, Concerned, StartToday, NoJob
<1>2. Ends(w) /\ before' = before
  BY DEF StartToday
<1>3. QED BY <1>1, <1>2, StartedOf, KeptEnd

-----------------------------------------------------------------------------
(***************************************************************************)
(* The statements of an assignment, on the rows of one of its users.       *)
(***************************************************************************)
LEMMA CutsDisjoint ==
    ASSUME NEW j, NEW u, NEW rs, NEW b, AssignHolds(j, u, rs, b),
           NEW q, q.user = u
    PROVE  /\ q \in j.delete => q \notin j.close /\ q \notin j.trim
           /\ q \in j.close  => q \notin j.trim
BY DEF AssignHolds

LEMMA AssignDeleted ==
    ASSUME NEW j \in Assigns, NEW u, NEW rs, NEW b, Clean(rs), AssignHolds(j, u, rs, b),
           NEW now, now = rs \ {q \in j.delete : q.user = u},
           \A r \in rs : r.user = u
    PROVE  Clean(now) /\ AssignHolds([j EXCEPT !.delete = {}], u, now, b)
<1> DEFINE i == [j EXCEPT !.delete = {}]
           mine(qs) == {q \in qs : q.user = u}
<1>1. /\ i.delete = {} /\ i.close = j.close /\ i.trim = j.trim /\ i.tails = j.tails
      /\ i.win = j.win /\ i.again = j.again /\ i.win \in Windows /\ u \notin i.again
  BY DEF Assigns, AssignHolds
<1>2. Clean(now)
  BY DEF Clean
<1>3. mine(i.delete \cup i.close \cup i.trim) \subseteq now
  BY <1>1, CutsDisjoint DEF AssignHolds
<1>4. \A r \in now : Overlaps(r, i.win) => r \in i.delete \cup i.close \cup i.trim
  BY <1>1 DEF AssignHolds
<1>5. Under(now \cup mine(i.tails), b)
  BY <1>1 DEF AssignHolds, Under
<1>6. Outside(now \cup mine(i.tails), b, i.win)
  <2> SUFFICES ASSUME NEW d \in Days, d \notin j.win.from .. j.win.to,
                      \A r \in now \cup mine(j.tails) : ~Covers(r, d)
               PROVE  b[d] = Off
    BY <1>1 DEF Outside
  <2>1. ASSUME NEW r \in rs, r \notin now PROVE ~Covers(r, d)
    <3>1. r \in mine(j.delete)
      BY <2>1
    <3>2. ~StartsBefore(r, j.win) /\ ~EndsAfter(r, j.win)
      BY <3>1 DEF AssignHolds
    <3>3. r.from \in Nat /\ r.to \in Nat /\ d \in Nat /\ j.win.from \in Nat /\ j.win.to \in Nat
      BY <2>1, DaysNat DEF Clean, Assigns, Windows, AnyWindow
    <3>4. QED BY <3>2, <3>3 DEF StartsBefore, EndsAfter, Covers
  <2>2. \A r \in rs \cup mine(j.tails) : ~Covers(r, d)
    BY <2>1
  <2>3. Outside(rs \cup mine(j.tails), b, j.win)
    BY DEF AssignHolds
  <2> HIDE DEF mine
  <2>4. QED BY <2>2, <2>3 DEF Outside
<1>7. \A q \in mine(i.close) :
          /\ Overlaps(q, i.win) /\ StartsBefore(q, i.win)
          /\ EndsAfter(q, i.win) => [q EXCEPT !.from = i.win.to + 1] \in i.tails
  BY <1>1 DEF AssignHolds
<1>8. \A q \in mine(i.trim) :
          Overlaps(q, i.win) /\ ~StartsBefore(q, i.win) /\ EndsAfter(q, i.win)
  BY <1>1 DEF AssignHolds
<1>9. \A t \in mine(i.tails) :
          /\ t.from = i.win.to + 1 /\ t.to \in Days /\ t.from <= t.to
          /\ \A r \in now \ i.close : r.to < t.from \/ t.to < r.from
          /\ \A x \in mine(i.tails) : x = t
  BY <1>1 DEF AssignHolds
<1> HIDE DEF i
<1>10. AssignHolds(i, u, now, b)
  BY <1>1, <1>3, <1>4, <1>5, <1>6, <1>7, <1>8, <1>9 DEF AssignHolds
<1>11. QED BY <1>2, <1>10 DEF i

LEMMA AssignClosed ==
    ASSUME NEW j \in Assigns, NEW u, NEW rs, NEW b, Clean(rs), AssignHolds(j, u, rs, b),
           \A r \in rs : r.user = u,
           NEW q \in j.close, q.user = u, j.delete = {}, NEW now, NEW cut,
           cut = [q EXCEPT !.to = j.win.from - 1], now = (rs \ {q}) \cup {cut}
    PROVE  Clean(now) /\ AssignHolds([j EXCEPT !.close = @ \ {q}], u, now, b)
<1> DEFINE i == [j EXCEPT !.close = @ \ {q}]
           mine(qs) == {x \in qs : x.user = u}
<1>1. /\ i.delete = {} /\ i.close = j.close \ {q} /\ i.trim = j.trim /\ i.tails = j.tails
      /\ i.win = j.win /\ i.again = j.again /\ i.win \in Windows /\ u \notin i.again
  BY DEF Assigns, AssignHolds
<1>2. q \in rs /\ q \in Row /\ StartsBefore(q, j.win) /\ Overlaps(q, j.win)
  BY DEF AssignHolds, Assigns
<1>3. /\ cut.from = q.from /\ cut.to = j.win.from - 1 /\ cut.user = u /\ cut.shift = q.shift
  BY <1>2 DEF Row
<1>4. /\ j.win.from \in Nat /\ j.win.to \in Nat /\ j.win.from <= j.win.to /\ j.win.to <= Horizon
      /\ q.from \in Nat /\ q.to \in Nat /\ 1 <= q.from /\ q.to <= Horizon
      /\ q.from < j.win.from /\ q.to >= j.win.from /\ Horizon \in Nat
  BY <1>1, <1>2, DaysNat, DaysOK DEF Clean, Assigns, Windows, AnyWindow, StartsBefore, Overlaps
<1>5. cut.from \in Days /\ cut.to \in Days /\ cut.from <= cut.to
  BY <1>3, <1>4 DEF Days
<1>6. \A r \in rs : r.from \in Nat /\ r.to \in Nat
  BY DaysNat DEF Clean
<1>7. ASSUME NEW r \in rs \ {q} PROVE r.to < cut.from \/ cut.to < r.from
  <2>1. r.to < q.from \/ q.to < r.from
    BY <1>2, <1>7 DEF Clean
  <2>2. QED BY <1>3, <1>4, <1>6, <2>1
<1>8. Clean(now)
  BY <1>5, <1>7 DEF Clean
<1>9. mine(i.delete \cup i.close \cup i.trim) \subseteq now
  <2>1. q \notin j.trim
    BY CutsDisjoint
  <2>2. mine(j.close \cup j.trim) \subseteq rs
    BY DEF AssignHolds
  <2>3. QED BY <1>1, <2>1, <2>2
<1>10. ~Overlaps(cut, j.win)
  BY <1>3, <1>4 DEF Overlaps
<1>11. \A r \in now : Overlaps(r, i.win) => r \in i.delete \cup i.close \cup i.trim
  BY <1>1, <1>10 DEF AssignHolds
<1>12. Under(now \cup mine(i.tails), b)
  <2> SUFFICES ASSUME NEW d \in Days, Covers(cut, d) PROVE b[d] = cut.shift
    BY <1>1 DEF AssignHolds, Under
  <2>1. Covers(q, d)
    BY <1>3, <1>4, DaysNat DEF Covers
  <2>2. QED BY <1>2, <1>3, <2>1 DEF AssignHolds, Under
<1>13. Outside(now \cup mine(i.tails), b, i.win)
  <2> SUFFICES ASSUME NEW d \in Days, d \notin j.win.from .. j.win.to,
                      \A r \in now \cup mine(j.tails) : ~Covers(r, d)
               PROVE  b[d] = Off
    BY <1>1 DEF Outside
  <2>1. ~Covers(q, d)
    <3> SUFFICES ASSUME Covers(q, d) PROVE FALSE
      OBVIOUS
    <3>1. d \in Nat /\ q.from <= d /\ d <= q.to
      BY DaysNat DEF Covers
    <3>2. CASE d < j.win.from
      <4>1. Covers(cut, d)
        BY <1>3, <1>4, <3>1, <3>2 DEF Covers
      <4>2. QED BY <4>1
    <3>3. CASE d > j.win.to
      <4>1. EndsAfter(q, j.win)
        BY <1>4, <3>1, <3>3 DEF EndsAfter
      <4> DEFINE t == [q EXCEPT !.from = j.win.to + 1]
      <4>2. t \in j.tails
        BY <4>1 DEF AssignHolds
      <4>3. t.user = u /\ t.from = j.win.to + 1 /\ t.to = q.to
        BY <1>2 DEF Row
      <4>4. Covers(t, d)
        BY <1>4, <3>1, <3>3, <4>3 DEF Covers
      <4> HIDE DEF t
      <4>5. QED BY <4>2, <4>3, <4>4
    <3>4. QED BY <1>4, <3>1, <3>2, <3>3
  <2>2. \A r \in rs \cup mine(j.tails) : ~Covers(r, d)
    BY <2>1
  <2>3. Outside(rs \cup mine(j.tails), b, j.win)
    BY DEF AssignHolds
  <2> HIDE DEF mine
  <2>4. QED BY <2>2, <2>3 DEF Outside
<1>14. \A x \in mine(i.close) :
          /\ Overlaps(x, i.win) /\ StartsBefore(x, i.win)
          /\ EndsAfter(x, i.win) => [x EXCEPT !.from = i.win.to + 1] \in i.tails
  BY <1>1 DEF AssignHolds
<1>15. \A x \in mine(i.trim) :
          Overlaps(x, i.win) /\ ~StartsBefore(x, i.win) /\ EndsAfter(x, i.win)
  BY <1>1 DEF AssignHolds
<1>16. ASSUME NEW t \in mine(i.tails)
       PROVE  /\ t.from = i.win.to + 1 /\ t.to \in Days /\ t.from <= t.to
              /\ \A r \in now \ i.close : r.to < t.from \/ t.to < r.from
              /\ \A x \in mine(i.tails) : x = t
  <2>1. /\ t.from = j.win.to + 1 /\ t.to \in Days /\ t.from <= t.to
        /\ \A r \in rs \ j.close : r.to < t.from \/ t.to < r.from
        /\ \A x \in mine(j.tails) : x = t
    BY <1>1, <1>16 DEF AssignHolds
  <2>2. cut.to < t.from
    BY <1>3, <1>4, <2>1
  <2>3. \A r \in now \ i.close : r = cut \/ r \in rs \ j.close
    BY <1>1
  <2>4. QED BY <1>1, <2>1, <2>2, <2>3
<1> HIDE DEF i
<1>17. AssignHolds(i, u, now, b)
  BY <1>1, <1>9, <1>11, <1>12, <1>13, <1>14, <1>15, <1>16 DEF AssignHolds
<1>18. QED BY <1>8, <1>17 DEF i

LEMMA AssignTrimmed ==
    ASSUME NEW j \in Assigns, NEW u, NEW rs, NEW b, Clean(rs), AssignHolds(j, u, rs, b),
           \A r \in rs : r.user = u,
           NEW q \in j.trim, q.user = u, j.delete \cup j.close = {}, NEW now, NEW cut,
           cut = [q EXCEPT !.from = j.win.to + 1], now = (rs \ {q}) \cup {cut}
    PROVE  Clean(now) /\ AssignHolds([j EXCEPT !.trim = @ \ {q}], u, now, b)
<1> DEFINE i == [j EXCEPT !.trim = @ \ {q}]
           mine(qs) == {x \in qs : x.user = u}
<1>1. /\ i.delete = {} /\ i.close = {} /\ i.trim = j.trim \ {q} /\ i.tails = j.tails
      /\ i.win = j.win /\ i.win \in Windows /\ u \notin i.again /\ j.delete = {} /\ j.close = {}
  BY DEF Assigns, AssignHolds
<1>2. q \in rs /\ q \in Row /\ ~StartsBefore(q, j.win) /\ Overlaps(q, j.win) /\ EndsAfter(q, j.win)
  BY DEF AssignHolds, Assigns
<1>3. /\ cut.from = j.win.to + 1 /\ cut.to = q.to /\ cut.user = u /\ cut.shift = q.shift
  BY <1>2 DEF Row
<1>4. /\ j.win.from \in Nat /\ j.win.to \in Nat /\ j.win.from <= j.win.to
      /\ q.from \in Nat /\ q.to \in Nat /\ 1 <= q.from /\ q.to <= Horizon
      /\ q.from >= j.win.from /\ q.from <= j.win.to /\ q.to > j.win.to /\ Horizon \in Nat
  BY <1>1, <1>2, DaysNat, DaysOK DEF Clean, Assigns, Windows, AnyWindow, StartsBefore, EndsAfter, Overlaps
<1>5. cut.from \in Days /\ cut.to \in Days /\ cut.from <= cut.to
  BY <1>3, <1>4 DEF Days
<1>6. \A r \in rs : r.from \in Nat /\ r.to \in Nat
  BY DaysNat DEF Clean
<1>7. ASSUME NEW r \in rs \ {q} PROVE r.to < cut.from \/ cut.to < r.from
  <2>1. r.to < q.from \/ q.to < r.from
    BY <1>2, <1>7 DEF Clean
  <2>2. QED BY <1>3, <1>4, <1>6, <2>1
<1>8. Clean(now)
  BY <1>5, <1>7 DEF Clean
<1>9. mine(i.delete \cup i.close \cup i.trim) \subseteq now
  BY <1>1 DEF AssignHolds
<1>10. ~Overlaps(cut, j.win)
  BY <1>3, <1>4 DEF Overlaps
<1>11. \A r \in now : Overlaps(r, i.win) => r \in i.delete \cup i.close \cup i.trim
  BY <1>1, <1>10 DEF AssignHolds
<1>12. Under(now \cup mine(i.tails), b)
  <2> SUFFICES ASSUME NEW d \in Days, Covers(cut, d) PROVE b[d] = cut.shift
    BY <1>1 DEF AssignHolds, Under
  <2>1. Covers(q, d)
    BY <1>3, <1>4, DaysNat DEF Covers
  <2>2. QED BY <1>2, <1>3, <2>1 DEF AssignHolds, Under
<1>13. Outside(now \cup mine(i.tails), b, i.win)
  <2> SUFFICES ASSUME NEW d \in Days, d \notin j.win.from .. j.win.to,
                      \A r \in now \cup mine(j.tails) : ~Covers(r, d)
               PROVE  b[d] = Off
    BY <1>1 DEF Outside
  <2>1. ~Covers(q, d)
    <3> SUFFICES ASSUME Covers(q, d) PROVE FALSE
      OBVIOUS
    <3>1. d \in Nat /\ q.from <= d /\ d <= q.to
      BY DaysNat DEF Covers
    <3>2. d > j.win.to
      BY <1>4, <3>1
    <3>3. Covers(cut, d)
      BY <1>3, <1>4, <3>1, <3>2 DEF Covers
    <3>4. QED BY <3>3
  <2>2. \A r \in rs \cup mine(j.tails) : ~Covers(r, d)
    BY <2>1
  <2>3. Outside(rs \cup mine(j.tails), b, j.win)
    BY DEF AssignHolds
  <2> HIDE DEF mine
  <2>4. QED BY <2>2, <2>3 DEF Outside
<1>15. \A x \in mine(i.trim) :
          Overlaps(x, i.win) /\ ~StartsBefore(x, i.win) /\ EndsAfter(x, i.win)
  BY <1>1 DEF AssignHolds
\* A row that is to be trimmed would overlap a tail.
<1>16. mine(i.tails) = {}
  <2> SUFFICES ASSUME NEW t \in mine(j.tails) PROVE FALSE
    BY <1>1
  <2>1. /\ t.from = j.win.to + 1 /\ t.to \in Days /\ t.from <= t.to
        /\ \A r \in rs \ j.close : r.to < t.from \/ t.to < r.from
    BY DEF AssignHolds
  <2>2. q.to < t.from \/ t.to < q.from
    BY <1>1, <1>2, <2>1
  <2>3. QED BY <1>4, <2>1, <2>2, DaysNat
<1> HIDE DEF i
<1>17. AssignHolds(i, u, now, b)
  BY <1>1, <1>9, <1>11, <1>12, <1>13, <1>15, <1>16 DEF AssignHolds
<1>18. QED BY <1>8, <1>17 DEF i

\* The tails, as they are stored: the days and the shift are those read.
LEMMA StampedLike ==
    ASSUME NEW stamp, NEW new, new \subseteq Row
    PROVE  /\ \A y \in Stamped(stamp, new) : \E x \in new :
                 y.from = x.from /\ y.to = x.to /\ y.shift = x.shift /\ y.user = x.user
           /\ \A x \in new : \E y \in Stamped(stamp, new) :
                 y.from = x.from /\ y.to = x.to /\ y.shift = x.shift /\ y.user = x.user
           /\ (\A x, z \in new : x = z) => \A x, z \in Stamped(stamp, new) : x = z
<1>1. \A x \in new : LET y == [x EXCEPT !.id = stamp[x]] IN
         y.from = x.from /\ y.to = x.to /\ y.shift = x.shift /\ y.user = x.user
  BY DEF Row
<1>2. QED BY <1>1 DEF Stamped

LEMMA AssignExtended ==
    ASSUME NEW j \in Assigns, NEW u, NEW rs, NEW b, Clean(rs), AssignHolds(j, u, rs, b),
           j.delete \cup j.close \cup j.trim = {}, NEW now, NEW stamp,
           now = rs \cup Stamped(stamp, {t \in j.tails : t.user = u})
    PROVE  Clean(now) /\ AssignHolds([j EXCEPT !.tails = {}], u, now, b)
<1> DEFINE i == [j EXCEPT !.tails = {}]
           tails == {t \in j.tails : t.user = u}
           more == Stamped(stamp, tails)
<1>1. /\ i.delete = {} /\ i.close = {} /\ i.trim = {} /\ i.tails = {} /\ i.win = j.win
      /\ i.win \in Windows /\ u \notin i.again
      /\ j.delete = {} /\ j.close = {} /\ j.trim = {}
  BY DEF Assigns, AssignHolds
<1>2. tails \subseteq Row
  BY DEF Assigns
<1>3. \A t \in tails : /\ t.from = j.win.to + 1 /\ t.to \in Days /\ t.from <= t.to
                       /\ \A r \in rs : r.to < t.from \/ t.to < r.from
                       /\ \A x \in tails : x = t
  BY <1>1 DEF AssignHolds
<1>4. Under(rs \cup tails, b) /\ Outside(rs \cup tails, b, j.win)
  BY DEF AssignHolds
<1>5. \A r \in rs : ~Overlaps(r, j.win)
  BY <1>1 DEF AssignHolds
<1>6. now = rs \cup more
  OBVIOUS
<1> HIDE DEF tails
<1>7. /\ \A y \in more : \E x \in tails : y.from = x.from /\ y.to = x.to /\ y.shift = x.shift
      /\ \A x \in tails : \E y \in more : y.from = x.from /\ y.to = x.to /\ y.shift = x.shift
      /\ \A x, z \in more : x = z
  BY <1>2, <1>3, StampedLike
<1> HIDE DEF more
<1>8. /\ j.win.from \in Nat /\ j.win.to \in Nat /\ j.win.from <= j.win.to /\ Horizon \in Nat
      /\ \A d \in Days : d \in Nat /\ d <= Horizon
  BY <1>1, DaysNat, DaysOK DEF Windows, AnyWindow
<1>9. \A y \in more : /\ y.from \in Days /\ y.to \in Days /\ y.from <= y.to
                      /\ y.from = j.win.to + 1
                      /\ \A r \in rs : r.to < y.from \/ y.to < r.from
  <2> SUFFICES ASSUME NEW y \in more
               PROVE  /\ y.from \in Days /\ y.to \in Days /\ y.from <= y.to
                      /\ y.from = j.win.to + 1
                      /\ \A r \in rs : r.to < y.from \/ y.to < r.from
    OBVIOUS
  <2>1. PICK x \in tails : y.from = x.from /\ y.to = x.to
    BY <1>7
  <2>2. x.from = j.win.to + 1 /\ x.to \in Days /\ x.from <= x.to
    BY <1>3
  <2>3. x.from \in Days
    BY <1>8, <2>2 DEF Days
  <2>4. QED BY <1>3, <2>1, <2>2, <2>3
<1>10. Clean(now)
  BY <1>6, <1>7, <1>9 DEF Clean
<1>11. \A r \in now : ~Overlaps(r, j.win)
  BY <1>5, <1>6, <1>8, <1>9 DEF Overlaps
<1>12. Under(now, b)
  BY <1>4, <1>6, <1>7 DEF Under, Covers
<1>13. Outside(now, b, j.win)
  BY <1>4, <1>6, <1>7 DEF Outside, Covers
<1>14. now \cup {t \in i.tails : t.user = u} = now
  BY <1>1
<1> HIDE DEF i
<1>15. AssignHolds(i, u, now, b)
  BY <1>1, <1>11, <1>12, <1>13, <1>14 DEF AssignHolds
<1>16. QED BY <1>10, <1>15 DEF i

-----------------------------------------------------------------------------
(***************************************************************************)
(* The statements of an assignment, on the table.                          *)
(***************************************************************************)
LEMMA OwnAssign ==
    ASSUME TypeInd, NEW w \in Workers, job[w].kind = "assign", NEW u, KeptFor(u)
    PROVE  /\ Shaped(job[w]) /\ job[w] \in Assigns
           /\ u \in job[w].users => /\ Clean(Of(u)) /\ AssignHolds(job[w], u, Of(u), before[u])
                                    /\ \A v \in Workers : u \in Concerned(v) => v = w
<1>1. Shaped(job[w]) /\ job[w] \in Assigns
  BY KindOf DEF TypeInd
<1>2. Concerned(w) = job[w].users
  BY DEF Concerned, NoJob
<1>3. QED BY <1>1, <1>2 DEF KeptFor, Holds

\* The rows of others stay; those of its users are cut as the job says.
GoesOn(w, u) ==
    /\ \E j \in Assigns : /\ job' = [job EXCEPT ![w] = j]
                          /\ j.users = job[w].users /\ j.shift = job[w].shift
                          /\ j.win = job[w].win
    /\ before' = before
    /\ u \notin job[w].users => Of(u)' = Of(u)
    /\ u \in job[w].users => Clean(Of(u)') /\ AssignHolds(job'[w], u, Of(u)', before[u])

LEMMA DeleteGoesOn ==
    ASSUME TypeInd, NEW w \in Workers, DeleteSuperseded(w), NEW u, KeptFor(u)
    PROVE  GoesOn(w, u)
<1> DEFINE j == [job[w] EXCEPT !.delete = {}]
           gone == {r \in rows : \E q \in job[w].delete : q.id = r.id}
<1>1. Shaped(job[w]) /\ job[w] \in Assigns
  BY OwnAssign DEF DeleteSuperseded, Assigning
<1>2. /\ job' = [job EXCEPT ![w] = j] /\ job'[w] = j /\ before' = before
      /\ rows' = rows \ gone
  BY DEF DeleteSuperseded, TypeInd
<1>3. /\ j \in Assigns /\ j.users = job[w].users /\ j.shift = job[w].shift
      /\ j.win = job[w].win
  BY <1>1 DEF Assigns
<1>4. \A q \in job[w].delete : q.user \in job[w].users
                               /\ \A r \in rows : r.id = q.id => r.user = q.user
  BY <1>1 DEF TypeInd, Shaped, Known, Refers, Assigns
<1>5. u \notin job[w].users => Of(u)' = Of(u)
  BY <1>2, <1>4 DEF Of
<1>6. ASSUME u \in job[w].users
      PROVE  Clean(Of(u)') /\ AssignHolds(j, u, Of(u)', before[u])
  <2>1. Clean(Of(u)) /\ AssignHolds(job[w], u, Of(u), before[u])
    BY <1>6, OwnAssign DEF DeleteSuperseded, Assigning
  <2>2. {q \in job[w].delete : q.user = u} \subseteq Of(u)
    BY <2>1 DEF AssignHolds
  <2>3. Of(u)' = Of(u) \ {q \in job[w].delete : q.user = u}
    <3>1. ASSUME NEW r \in Of(u), r \in gone PROVE r \in job[w].delete
      <4>1. PICK q \in job[w].delete : q.id = r.id
        BY <3>1
      <4>2. r.user = u /\ q.user = u /\ q \in Of(u) /\ r \in rows
        BY <1>4, <2>2, <4>1 DEF Of
      <4>3. q = r
        BY <4>1, <4>2 DEF Of, TypeInd, RowsOK
      <4>4. QED BY <4>1, <4>3
    <3>2. \A r \in Of(u) : r.user = u /\ (r \in job[w].delete => r \in gone)
      BY DEF Of
    <3>3. Of(u)' = Of(u) \ gone
      BY <1>2 DEF Of
    <3> HIDE DEF gone
    <3>4. QED BY <3>1, <3>2, <3>3
  <2>4. \A r \in Of(u) : r.user = u
    BY DEF Of
  <2>5. QED BY <1>1, <2>1, <2>3, <2>4, AssignDeleted
<1> HIDE DEF j, gone
<1>7. QED BY <1>2, <1>3, <1>5, <1>6 DEF GoesOn

\* One row of the table is rewritten.
LEMMA OfRewritten ==
    ASSUME RowsOK, NEW q, NEW f, NEW g, DOMAIN g = rows, rows' = {g[r] : r \in rows},
           \A r \in rows : r.id # q.id => g[r] = r,
           \A r \in rows : r.id = q.id => r.user = q.user,
           q \in rows => g[q] = f,
           \A r \in rows : g[r].user = r.user, NEW u
    PROVE  /\ q.user # u => Of(u)' = Of(u)
           /\ q \in Of(u) => Of(u)' = (Of(u) \ {q}) \cup {f}
<1>1. Of(u)' = {g[r] : r \in Of(u)}
  BY OfImage
<1>2. ASSUME q.user # u PROVE Of(u)' = Of(u)
  <2>1. \A r \in Of(u) : g[r] = r
    BY <1>2 DEF Of
  <2>2. QED BY <1>1, <2>1
<1>3. ASSUME q \in Of(u) PROVE Of(u)' = (Of(u) \ {q}) \cup {f}
  <2>1. q \in rows /\ \A r \in Of(u) : r \in rows
    BY <1>3 DEF Of
  <2>2. g[q] = f
    BY <2>1
  <2>3. \A r \in Of(u) : r # q => g[r] = r
    BY <2>1 DEF RowsOK
  <2>4. QED BY <1>1, <1>3, <2>2, <2>3
<1>4. QED BY <1>2, <1>3

LEMMA CloseGoesOn ==
    ASSUME TypeInd, NEW w \in Workers, CloseOne(w), NEW u, KeptFor(u)
    PROVE  GoesOn(w, u)
<1>1. Shaped(job[w]) /\ job[w] \in Assigns
  BY OwnAssign DEF CloseOne, Assigning
<1>2. PICK q \in job[w].close :
        /\ rows' = {IF r.id = q.id THEN [r EXCEPT !.to = job[w].win.from - 1] ELSE r : r \in rows}
        /\ job' = [job EXCEPT ![w] = [job[w] EXCEPT !.close = job[w].close \ {q}]]
  BY DEF CloseOne, SetById, TypeInd
<1> DEFINE j == [job[w] EXCEPT !.close = job[w].close \ {q}]
           cut == [q EXCEPT !.to = job[w].win.from - 1]
           g == [r \in rows |-> IF r.id = q.id THEN [r EXCEPT !.to = job[w].win.from - 1] ELSE r]
<1>3. job' = [job EXCEPT ![w] = j] /\ job'[w] = j /\ before' = before /\ job[w].delete = {}
  BY <1>2 DEF CloseOne, TypeInd
<1>4. /\ j \in Assigns /\ j.users = job[w].users /\ j.shift = job[w].shift
      /\ j.win = job[w].win
  BY <1>1 DEF Assigns
<1>5. q.user \in job[w].users /\ \A r \in rows : r.id = q.id => r.user = q.user
  BY <1>1 DEF TypeInd, Shaped, Known, Refers, Assigns
<1>6. /\ q.user # u => Of(u)' = Of(u)
      /\ q \in Of(u) => Of(u)' = (Of(u) \ {q}) \cup {cut}
  <2>1. rows' = {g[r] : r \in rows} /\ DOMAIN g = rows
    BY <1>2
  <2>2. \A r \in rows : g[r].user = r.user
    BY DEF TypeInd, RowsOK, Row
  <2>3. /\ \A r \in rows : r.id # q.id => g[r] = r
        /\ q \in rows => g[q] = cut
    OBVIOUS
  <2>4. RowsOK
    BY DEF TypeInd
  <2> HIDE DEF g, cut
  <2>5. q.user # u => Of(u)' = Of(u)
    BY <1>5, <2>1, <2>2, <2>3, <2>4, OfRewritten
  <2>6. q \in Of(u) => Of(u)' = (Of(u) \ {q}) \cup {cut}
    BY <1>5, <2>1, <2>2, <2>3, <2>4, OfRewritten
  <2>7. QED BY <2>5, <2>6
<1>7. u \notin job[w].users => Of(u)' = Of(u)
  BY <1>5, <1>6
<1>8. ASSUME u \in job[w].users
      PROVE  Clean(Of(u)') /\ AssignHolds(j, u, Of(u)', before[u])
  <2>1. Clean(Of(u)) /\ AssignHolds(job[w], u, Of(u), before[u])
    BY <1>8, OwnAssign DEF CloseOne, Assigning
  <2>2. \A r \in Of(u) : r.user = u
    BY DEF Of
  <2>3. CASE q.user = u
    <3>1. q \in Of(u)
      BY <2>1, <2>3 DEF AssignHolds
    <3>2. Of(u)' = (Of(u) \ {q}) \cup {cut}
      BY <1>6, <3>1
    <3>3. /\ j = [job[w] EXCEPT !.close = @ \ {q}]
          /\ cut = [q EXCEPT !.to = job[w].win.from - 1]
      OBVIOUS
    <3> HIDE DEF j, cut
    <3>4. Clean(Of(u)') /\ AssignHolds([job[w] EXCEPT !.close = @ \ {q}], u, Of(u)', before[u])
      BY <1>1, <1>3, <2>1, <2>2, <2>3, <3>2, <3>3, AssignClosed
    <3>5. QED BY <3>3, <3>4
  <2>4. CASE q.user # u
    <3>1. /\ j.close = job[w].close \ {q} /\ j.delete = job[w].delete /\ j.trim = job[w].trim
          /\ j.tails = job[w].tails /\ j.win = job[w].win /\ j.again = job[w].again
      BY <1>1 DEF Assigns
    <3>2. q \notin Of(u) /\ Of(u)' = Of(u)
      BY <1>6, <2>2, <2>4
    <3> HIDE DEF j
    <3>3. /\ {x \in j.close : x.user = u} = {x \in job[w].close : x.user = u}
          /\ {x \in j.delete \cup j.close \cup j.trim : x.user = u}
               = {x \in job[w].delete \cup job[w].close \cup job[w].trim : x.user = u}
      BY <2>4, <3>1
    <3>4. Of(u) \ j.close = Of(u) \ job[w].close
      BY <3>1, <3>2
    <3>5. \A r \in Of(u) : Overlaps(r, j.win) => r \in j.delete \cup j.close \cup j.trim
      BY <2>1, <3>1, <3>2 DEF AssignHolds
    <3>6. AssignHolds(j, u, Of(u), before[u])
      BY <2>1, <3>1, <3>3, <3>4, <3>5 DEF AssignHolds
    <3>7. QED BY <2>1, <3>2, <3>6
  <2>5. QED BY <2>3, <2>4
<1> HIDE DEF j
<1>9. QED BY <1>3, <1>4, <1>7, <1>8 DEF GoesOn

LEMMA TrimGoesOn ==
    ASSUME TypeInd, NEW w \in Workers, TrimOne(w), NEW u, KeptFor(u)
    PROVE  GoesOn(w, u)
<1>1. Shaped(job[w]) /\ job[w] \in Assigns
  BY OwnAssign DEF TrimOne, Assigning
<1>2. PICK q \in job[w].trim :
        /\ rows' = {IF r.id = q.id THEN [r EXCEPT !.from = job[w].win.to + 1] ELSE r : r \in rows}
        /\ job' = [job EXCEPT ![w] = [job[w] EXCEPT !.trim = job[w].trim \ {q}]]
  BY DEF TrimOne, SetById, TypeInd
<1> DEFINE j == [job[w] EXCEPT !.trim = job[w].trim \ {q}]
           cut == [q EXCEPT !.from = job[w].win.to + 1]
           g == [r \in rows |-> IF r.id = q.id THEN [r EXCEPT !.from = job[w].win.to + 1] ELSE r]
<1>3. job' = [job EXCEPT ![w] = j] /\ job'[w] = j /\ before' = before
      /\ job[w].delete \cup job[w].close = {}
  BY <1>2 DEF TrimOne, TypeInd
<1>4. /\ j \in Assigns /\ j.users = job[w].users /\ j.shift = job[w].shift
      /\ j.win = job[w].win
  BY <1>1 DEF Assigns
<1>5. q.user \in job[w].users /\ \A r \in rows : r.id = q.id => r.user = q.user
  BY <1>1 DEF TypeInd, Shaped, Known, Refers, Assigns
<1>6. /\ q.user # u => Of(u)' = Of(u)
      /\ q \in Of(u) => Of(u)' = (Of(u) \ {q}) \cup {cut}
  <2>1. rows' = {g[r] : r \in rows} /\ DOMAIN g = rows
    BY <1>2
  <2>2. \A r \in rows : g[r].user = r.user
    BY DEF TypeInd, RowsOK, Row
  <2>3. /\ \A r \in rows : r.id # q.id => g[r] = r
        /\ q \in rows => g[q] = cut
    OBVIOUS
  <2>4. RowsOK
    BY DEF TypeInd
  <2> HIDE DEF g, cut
  <2>5. q.user # u => Of(u)' = Of(u)
    BY <1>5, <2>1, <2>2, <2>3, <2>4, OfRewritten
  <2>6. q \in Of(u) => Of(u)' = (Of(u) \ {q}) \cup {cut}
    BY <1>5, <2>1, <2>2, <2>3, <2>4, OfRewritten
  <2>7. QED BY <2>5, <2>6
<1>7. u \notin job[w].users => Of(u)' = Of(u)
  BY <1>5, <1>6
<1>8. ASSUME u \in job[w].users
      PROVE  Clean(Of(u)') /\ AssignHolds(j, u, Of(u)', before[u])
  <2>1. Clean(Of(u)) /\ AssignHolds(job[w], u, Of(u), before[u])
    BY <1>8, OwnAssign DEF TrimOne, Assigning
  <2>2. \A r \in Of(u) : r.user = u
    BY DEF Of
  <2>3. CASE q.user = u
    <3>1. q \in Of(u)
      BY <2>1, <2>3 DEF AssignHolds
    <3>2. Of(u)' = (Of(u) \ {q}) \cup {cut}
      BY <1>6, <3>1
    <3>3. /\ j = [job[w] EXCEPT !.trim = @ \ {q}]
          /\ cut = [q EXCEPT !.from = job[w].win.to + 1]
      OBVIOUS
    <3> HIDE DEF j, cut
    <3>4. Clean(Of(u)') /\ AssignHolds([job[w] EXCEPT !.trim = @ \ {q}], u, Of(u)', before[u])
      BY <1>1, <1>3, <2>1, <2>2, <2>3, <3>2, <3>3, AssignTrimmed
    <3>5. QED BY <3>3, <3>4
  <2>4. CASE q.user # u
    <3>1. /\ j.trim = job[w].trim \ {q} /\ j.delete = job[w].delete /\ j.close = job[w].close
          /\ j.tails = job[w].tails /\ j.win = job[w].win /\ j.again = job[w].again
      BY <1>1 DEF Assigns
    <3>2. q \notin Of(u) /\ Of(u)' = Of(u)
      BY <1>6, <2>2, <2>4
    <3> HIDE DEF j
    <3>3. /\ {x \in j.trim : x.user = u} = {x \in job[w].trim : x.user = u}
          /\ {x \in j.delete \cup j.close \cup j.trim : x.user = u}
               = {x \in job[w].delete \cup job[w].close \cup job[w].trim : x.user = u}
      BY <2>4, <3>1
    <3>5. \A r \in Of(u) : Overlaps(r, j.win) => r \in j.delete \cup j.close \cup j.trim
      BY <2>1, <3>1, <3>2 DEF AssignHolds
    <3>6. AssignHolds(j, u, Of(u), before[u])
      BY <2>1, <3>1, <3>3, <3>5 DEF AssignHolds
    <3>7. QED BY <2>1, <3>2, <3>6
  <2>5. QED BY <2>3, <2>4
<1> HIDE DEF j
<1>9. QED BY <1>3, <1>4, <1>7, <1>8 DEF GoesOn

LEMMA TailsGoOn ==
    ASSUME TypeInd, NEW w \in Workers, InsertTails(w), NEW u, KeptFor(u)
    PROVE  GoesOn(w, u)
<1> DEFINE j == [job[w] EXCEPT !.tails = {}]
<1>1. Shaped(job[w]) /\ job[w] \in Assigns
  BY OwnAssign DEF InsertTails, Assigning
<1>2. /\ job' = [job EXCEPT ![w] = j] /\ job'[w] = j /\ before' = before
      /\ Insert(rows, job[w].tails)
      /\ job[w].delete \cup job[w].close \cup job[w].trim = {}
  BY DEF InsertTails, TypeInd, Cut
<1>3. /\ j \in Assigns /\ j.users = job[w].users /\ j.shift = job[w].shift
      /\ j.win = job[w].win
  BY <1>1 DEF Assigns
<1>4. /\ job[w].tails \subseteq Row /\ IsFiniteSet(job[w].tails)
      /\ \A t \in job[w].tails : t.user \in job[w].users
  BY <1>1 DEF Assigns, Shaped
<1>5. PICK stamp : rows' = rows \cup Stamped(stamp, job[w].tails)
  BY <1>2, <1>4, InsertStamps DEF TypeInd, RowsOK
<1>6. Of(u)' = Of(u) \cup Stamped(stamp, {x \in job[w].tails : x.user = u})
  <2>1. Of(u)' = {r \in rows : r.user = u} \cup Stamped(stamp, {x \in job[w].tails : x.user = u})
    BY <1>4, <1>5, OfInsert
  <2>2. QED BY <2>1 DEF Of
<1>7. ASSUME u \notin job[w].users PROVE Of(u)' = Of(u)
  <2>1. {x \in job[w].tails : x.user = u} = {}
    BY <1>4, <1>7
  <2>2. QED BY <1>6, <2>1 DEF Stamped
<1>8. ASSUME u \in job[w].users
      PROVE  Clean(Of(u)') /\ AssignHolds(j, u, Of(u)', before[u])
  <2>1. Clean(Of(u)) /\ AssignHolds(job[w], u, Of(u), before[u])
    BY <1>8, OwnAssign DEF InsertTails, Assigning
  <2>2. QED BY <1>1, <1>2, <1>6, <2>1, AssignExtended
<1> HIDE DEF j
<1>9. QED BY <1>2, <1>3, <1>7, <1>8 DEF GoesOn

LEMMA KeptGoesOn ==
    ASSUME TypeInd, NEW w \in Workers, job[w].kind = "assign", NEW u, KeptFor(u), GoesOn(w, u)
    PROVE  KeptFor(u)'
<1>1. PICK j \in Assigns : job' = [job EXCEPT ![w] = j] /\ j.users = job[w].users
  BY DEF GoesOn
<1>2. job'[w] = j /\ before' = before
  BY <1>1 DEF GoesOn, TypeInd
<1>3. CASE u \notin job[w].users
  BY <1>1, <1>2, <1>3, KeptOther DEF GoesOn
<1>4. CASE u \in job[w].users
  <2>1. \A v \in Workers : u \in Concerned(v) => v = w
    BY <1>4, OwnAssign
  <2>2. Clean(Of(u)') /\ AssignHolds(j, u, Of(u)', before'[u])
    BY <1>2, <1>4 DEF GoesOn
  <2>3. Holds(j, u, Of(u)', before'[u])
    BY <2>2 DEF Holds, Assigns
  <2>4. Clean(Of(u))'
    BY <2>2 DEF Clean
  <2>5. QED BY <1>1, <2>1, <2>3, <2>4, KeptAfter
<1>5. QED BY <1>3, <1>4

-----------------------------------------------------------------------------
(***************************************************************************)
(* The last write of each request.                                         *)
(***************************************************************************)
LEMMA InsertedOf ==
    ASSUME TypeInd, NEW w \in Workers, InsertAssignments(w), NEW u
    PROVE  /\ u \notin job[w].users => Of(u)' = Of(u)
           /\ u \in job[w].users /\ u \notin job[w].again =>
                \E n : /\ n.from = job[w].win.from /\ n.to = job[w].win.to
                       /\ n.shift = job[w].shift
                       /\ Of(u)' = Of(u) \cup {n}
<1>1. Shaped(job[w]) /\ job[w] \in Assigns
  BY KindOf DEF TypeInd, InsertAssignments, Assigning
<1> DEFINE new == NewRows(job[w])
           x == [id |-> 0, user |-> u, shift |-> job[w].shift,
                 from |-> job[w].win.from, to |-> job[w].win.to]
<1>2. Insert(rows, new)
  BY DEF InsertAssignments, NewRows
<1>3. new \subseteq Row /\ IsFiniteSet(new)
  BY <1>1, NewRowsOK
<1>4. u \notin job[w].again =>
         {y \in new : y.user = u} = IF u \in job[w].users THEN {x} ELSE {}
  BY DEF Fresh, NewRows
<1> HIDE DEF new
<1>5. PICK stamp : rows' = rows \cup Stamped(stamp, new)
  BY <1>2, <1>3, InsertStamps DEF TypeInd, RowsOK
<1>6. Of(u)' = Of(u) \cup Stamped(stamp, {y \in new : y.user = u})
  <2>1. Of(u)' = {r \in rows : r.user = u} \cup Stamped(stamp, {y \in new : y.user = u})
    BY <1>3, <1>5, OfInsert
  <2>2. QED BY <2>1 DEF Of
<1>7. CASE u \notin job[w].users
  <2>1. u \notin job[w].again
    BY <1>1, <1>7 DEF Shaped, Assigns
  <2>2. QED BY <1>4, <1>6, <1>7, <2>1 DEF Stamped
<1>8. CASE u \in job[w].users /\ u \notin job[w].again
  <2> DEFINE n == [x EXCEPT !.id = stamp[x]]
  <2>1. Of(u)' = Of(u) \cup {n}
    BY <1>4, <1>6, <1>8 DEF Stamped
  <2>2. n.from = job[w].win.from /\ n.to = job[w].win.to /\ n.shift = job[w].shift
    OBVIOUS
  <2> HIDE DEF n
  <2>3. QED BY <1>8, <2>1, <2>2
<1>9. QED BY <1>7, <1>8

LEMMA UpdatedOf ==
    ASSUME TypeInd, NEW w \in Workers, UpdateAssignment(w), NEW u
    PROVE  /\ u \notin job[w].users => Of(u)' = Of(u)
           /\ u \in job[w].users /\ job[w].row \in rows =>
                \E n, stamp :
                    /\ n.from = job[w].win.from /\ n.to = job[w].win.to
                    /\ n.shift = job[w].shift
                    /\ Of(u)' = (Of(u) \ {job[w].row}) \cup {n}
                                   \cup Stamped(stamp, OldTails(job[w].row, job[w].win))
<1> DEFINE j == job[w]
           q == job[w].row
           f(r) == [r EXCEPT !.shift = job[w].shift, !.from = job[w].win.from,
                             !.to = job[w].win.to]
           old == OldTails(job[w].row, job[w].win)
<1>1. Shaped(j) /\ j \in Updates /\ j.users = {q.user} /\ q \in Row
  BY KindOf DEF TypeInd, UpdateAssignment, Shaped, Updates
<1>2. Insert(Rewritten(j), old)
  BY DEF UpdateAssignment, Rewritten
<1>3. old \subseteq Row /\ IsFiniteSet(old)
  <2>1. q \in Row /\ j.win \in AnyWindow
    BY <1>1 DEF Updates
  <2>2. QED BY <2>1, OldTailsRows
<1>4. \A x \in old : x.user = q.user
  BY <1>1 DEF OldTails, Row
<1>5. \A r \in rows : r.id = q.id => r.user = q.user
  <2>1. q \in Refers(j)
    BY <1>1 DEF Refers, Updates
  <2>2. QED BY <2>1 DEF TypeInd, Known
<1>6. Rewritten(j) = {IF r.id = q.id THEN f(r) ELSE r : r \in rows}
  BY DEF Rewritten
<1>7. \A r \in rows : f(r).user = r.user
  BY DEF TypeInd, RowsOK, Row
<1> HIDE DEF old
<1>8. PICK stamp : rows' = Rewritten(j) \cup Stamped(stamp, old)
  BY <1>2, <1>3, InsertStamps DEF TypeInd, RowsOK
<1>9. Of(u)' = {r \in Rewritten(j) : r.user = u} \cup Stamped(stamp, {x \in old : x.user = u})
  BY <1>3, <1>8, OfInsert
<1>10. {r \in Rewritten(j) : r.user = u} = {IF r.id = q.id THEN f(r) ELSE r : r \in Of(u)}
  <2> HIDE DEF f
  <2>1. ASSUME NEW y \in Rewritten(j), y.user = u
        PROVE  \E r \in Of(u) : y = IF r.id = q.id THEN f(r) ELSE r
    <3>1. PICK r \in rows : y = IF r.id = q.id THEN f(r) ELSE r
      BY <1>6
    <3>2. QED BY <1>7, <2>1, <3>1 DEF Of
  <2>2. ASSUME NEW r \in Of(u)
        PROVE  LET y == IF r.id = q.id THEN f(r) ELSE r
               IN  y \in Rewritten(j) /\ y.user = u
    BY <1>6, <1>7 DEF Of
  <2>3. QED BY <2>1, <2>2
<1>11. CASE u \notin job[w].users
  <2>1. u # q.user
    BY <1>1, <1>11
  <2>2. {x \in old : x.user = u} = {}
    BY <1>4, <2>1
  <2>3. \A r \in Of(u) : r.id # q.id
    BY <1>5, <2>1 DEF Of
  <2>4. {IF r.id = q.id THEN f(r) ELSE r : r \in Of(u)} = Of(u)
    BY <2>3
  <2>5. QED BY <1>9, <1>10, <1>11, <2>2, <2>4 DEF Stamped
<1>12. CASE u \in job[w].users /\ q \in rows
  <2>1. u = q.user /\ q \in Of(u)
    BY <1>1, <1>12 DEF Of
  <2>2. {x \in old : x.user = u} = old
    BY <1>4, <2>1
  <2>3. \A r \in Of(u) : r.id = q.id <=> r = q
    BY <2>1 DEF Of, TypeInd, RowsOK
  <2>4. {IF r.id = q.id THEN f(r) ELSE r : r \in Of(u)} = (Of(u) \ {q}) \cup {f(q)}
    BY <2>1, <2>3
  <2>5. Of(u)' = (Of(u) \ {q}) \cup {f(q)} \cup Stamped(stamp, old)
    BY <1>9, <1>10, <2>2, <2>4
  <2>6. f(q).from = j.win.from /\ f(q).to = j.win.to /\ f(q).shift = j.shift
    BY <1>1 DEF Row
  <2> HIDE DEF f
  <2>7. QED BY <1>12, <2>5, <2>6 DEF old
<1>13. QED BY <1>11, <1>12

LEMMA SwappedOf ==
    ASSUME TypeInd, NEW w \in Workers, ApproveSwap(w), NEW u
    PROVE  /\ u \notin job[w].users => Of(u)' = Of(u)
           /\ job[w].a.user # job[w].b.user =>
                /\ job[w].a \in Of(u) =>
                     Of(u)' = (Of(u) \ {job[w].a}) \cup {[job[w].a EXCEPT !.shift = job[w].b.shift]}
                /\ job[w].b \in Of(u) =>
                     Of(u)' = (Of(u) \ {job[w].b}) \cup {[job[w].b EXCEPT !.shift = job[w].a.shift]}
<1> DEFINE j == job[w]
           g == [r \in rows |-> IF r.id = j.b.id THEN [r EXCEPT !.shift = j.a.shift]
                ELSE IF r.id = j.a.id THEN [r EXCEPT !.shift = j.b.shift] ELSE r]
<1>1. Shaped(j) /\ j \in Approvals /\ j.users = {j.a.user, j.b.user}
  BY KindOf DEF TypeInd, ApproveSwap, Shaped
<1>2. rows' = {g[r] : r \in rows} /\ DOMAIN g = rows
  BY DEF ApproveSwap
<1>3. \A r \in rows : g[r].user = r.user
  BY DEF TypeInd, RowsOK, Row
<1>4. Of(u)' = {g[r] : r \in Of(u)}
  <2> HIDE DEF g
  <2>1. QED BY <1>2, <1>3, OfImage
<1>5. /\ \A r \in rows : r.id = j.a.id => r.user = j.a.user
      /\ \A r \in rows : r.id = j.b.id => r.user = j.b.user
  <2>1. j.a \in Refers(j) /\ j.b \in Refers(j)
    BY <1>1 DEF Refers, Approvals
  <2>2. QED BY <2>1 DEF TypeInd, Known
<1>6. \A r, q \in Of(u) : r.id = q.id => r = q
  BY DEF Of, TypeInd, RowsOK
<1>7. Of(u) \subseteq rows /\ \A r \in Of(u) : r.user = u
  BY DEF Of
<1>8. ASSUME u \notin job[w].users PROVE Of(u)' = Of(u)
  <2>1. \A r \in Of(u) : g[r] = r
    BY <1>1, <1>5, <1>7, <1>8
  <2> HIDE DEF g
  <2>2. QED BY <1>4, <2>1
<1>9. ASSUME j.a.user # j.b.user, j.a \in Of(u)
      PROVE  Of(u)' = (Of(u) \ {j.a}) \cup {[j.a EXCEPT !.shift = j.b.shift]}
  <2>1. \A r \in Of(u) : r.id # j.b.id
    BY <1>5, <1>7, <1>9
  <2>2. g[j.a] = [j.a EXCEPT !.shift = j.b.shift] /\ \A r \in Of(u) : r # j.a => g[r] = r
    BY <1>6, <1>7, <1>9, <2>1
  <2> HIDE DEF g, j
  <2>3. QED BY <1>4, <1>9, <2>2
<1>10. ASSUME j.a.user # j.b.user, j.b \in Of(u)
       PROVE  Of(u)' = (Of(u) \ {j.b}) \cup {[j.b EXCEPT !.shift = j.a.shift]}
  <2>1. \A r \in Of(u) : r.id # j.a.id
    BY <1>5, <1>7, <1>10
  <2>2. g[j.b] = [j.b EXCEPT !.shift = j.a.shift] /\ \A r \in Of(u) : r # j.b => g[r] = r
    BY <1>6, <1>7, <1>10, <2>1
  <2> HIDE DEF g, j
  <2>3. QED BY <1>4, <1>10, <2>2
<1> HIDE DEF g
<1>11. QED BY <1>8, <1>9, <1>10

\* Cleanliness of what they leave.
LEMMA CleanAlike ==
    ASSUME NEW rs, Clean(rs), NEW q \in rs, NEW f, f.from = q.from, f.to = q.to
    PROVE  Clean((rs \ {q}) \cup {f})
BY DEF Clean

LEMMA CleanMore ==
    ASSUME NEW rs, Clean(rs), NEW n, n.from \in Days, n.to \in Days, n.from <= n.to,
           \A r \in rs : r.to < n.from \/ n.to < r.from
    PROVE  Clean(rs \cup {n})
BY DEF Clean

\* Where the days of an updated row go: to the new window and to its tails.
LEMMA TailsWithin ==
    ASSUME NEW q \in Row, q.from \in Days, q.to \in Days, NEW win \in Windows,
           q.from <= win.from, win.to <= q.to, NEW stamp, NEW old,
           old = Stamped(stamp, OldTails(q, win))
    PROVE  /\ \A y \in old : /\ y.from \in Days /\ y.to \in Days /\ y.from <= y.to
                             /\ y.shift = q.shift
                             /\ \/ y.from = q.from /\ y.to = win.from - 1
                                \/ y.from = win.to + 1 /\ y.to = q.to
           /\ \A x, y \in old : x # y => x.to < y.from \/ y.to < x.from
           /\ \A d \in Days : Covers(q, d) /\ d \notin win.from .. win.to =>
                 \E y \in old : Covers(y, d)
<1>1. /\ win.from \in Nat /\ win.to \in Nat /\ win.from <= win.to
      /\ q.from \in Nat /\ q.to \in Nat /\ 1 <= q.from /\ q.to <= Horizon /\ Horizon \in Nat
  BY DaysNat, DaysOK DEF Windows, AnyWindow
<1> DEFINE left == [q EXCEPT !.to = win.from - 1]
           right == [q EXCEPT !.from = win.to + 1]
           stored(x) == [x EXCEPT !.id = stamp[x]]
<1>2. /\ \A y \in old : \/ win.from > q.from /\ y = stored(left)
                        \/ win.to < q.to /\ y = stored(right)
      /\ win.from > q.from => stored(left) \in old
      /\ win.to < q.to => stored(right) \in old
  BY DEF Stamped, OldTails
<1>3. /\ stored(left).from = q.from /\ stored(left).to = win.from - 1
      /\ stored(left).shift = q.shift
      /\ stored(right).from = win.to + 1 /\ stored(right).to = q.to
      /\ stored(right).shift = q.shift
  BY DEF Row
<1> HIDE DEF stored, left, right
<1>4. \A y \in old : /\ y.from \in Days /\ y.to \in Days /\ y.from <= y.to
                     /\ y.shift = q.shift
                     /\ \/ y.from = q.from /\ y.to = win.from - 1
                        \/ y.from = win.to + 1 /\ y.to = q.to
  BY <1>1, <1>2, <1>3 DEF Days
<1>5. \A x, y \in old : x # y => x.to < y.from \/ y.to < x.from
  <2> SUFFICES ASSUME NEW x \in old, NEW y \in old, x # y PROVE x.to < y.from \/ y.to < x.from
    OBVIOUS
  <2>1. \/ x = stored(left) /\ y = stored(right)
        \/ x = stored(right) /\ y = stored(left)
    BY <1>2
  <2>2. stored(left).to < stored(right).from
    BY <1>1, <1>3
  <2>3. QED BY <2>1, <2>2
<1>6. ASSUME NEW d \in Days, Covers(q, d), d \notin win.from .. win.to
      PROVE  \E y \in old : Covers(y, d)
  <2>1. d \in Nat /\ q.from <= d /\ d <= q.to
    BY <1>6, DaysNat DEF Covers
  <2>2. CASE d < win.from
    <3>1. win.from > q.from /\ Covers(stored(left), d)
      BY <1>1, <1>3, <2>1, <2>2 DEF Covers
    <3>2. QED BY <1>2, <3>1
  <2>3. CASE d > win.to
    <3>1. win.to < q.to /\ Covers(stored(right), d)
      BY <1>1, <1>3, <2>1, <2>3 DEF Covers
    <3>2. QED BY <1>2, <3>1
  <2>4. QED BY <1>1, <1>6, <2>1, <2>2, <2>3
<1>7. QED BY <1>4, <1>5, <1>6

LEMMA CleanUpdated ==
    ASSUME NEW rs, Clean(rs), NEW q \in rs, q \in Row, NEW win \in Windows,
           q.from <= win.from, win.to <= q.to, NEW stamp, NEW n,
           n.from = win.from, n.to = win.to, NEW now,
           now = (rs \ {q}) \cup {n} \cup Stamped(stamp, OldTails(q, win))
    PROVE  Clean(now)
<1> DEFINE old == Stamped(stamp, OldTails(q, win))
<1>1. /\ q.from \in Days /\ q.to \in Days /\ q.from <= q.to
      /\ \A r \in rs \ {q} : r.to < q.from \/ q.to < r.from
      /\ \A r \in rs : r.from \in Days /\ r.to \in Days
  BY DEF Clean
<1>2. /\ \A y \in old : /\ y.from \in Days /\ y.to \in Days /\ y.from <= y.to
                        /\ \/ y.from = q.from /\ y.to = win.from - 1
                           \/ y.from = win.to + 1 /\ y.to = q.to
      /\ \A x, y \in old : x # y => x.to < y.from \/ y.to < x.from
  BY <1>1, TailsWithin
<1> HIDE DEF old
<1>3. /\ win.from \in Days /\ win.to \in Days /\ win.from <= win.to
  BY DEF Windows, AnyWindow
<1>4. \A d \in Days : d \in Nat
  BY DaysNat
<1>5. \A r \in rs \ {q} : r.to < n.from \/ n.to < r.from
  BY <1>1, <1>3, <1>4
<1>6. \A y \in old : y.to < n.from \/ n.to < y.from
  BY <1>1, <1>2, <1>3, <1>4
<1>7. \A r \in rs \ {q}, y \in old : r.to < y.from \/ y.to < r.from
  <2> SUFFICES ASSUME NEW r \in rs \ {q}, NEW y \in old PROVE r.to < y.from \/ y.to < r.from
    OBVIOUS
  <2>1. r.to < q.from \/ q.to < r.from
    BY <1>1
  <2>2. r.to \in Nat /\ r.from \in Nat /\ q.from \in Nat /\ q.to \in Nat
        /\ win.from \in Nat /\ win.to \in Nat /\ win.from <= win.to
    BY <1>1, <1>3, <1>4
  <2>3. CASE y.from = q.from /\ y.to = win.from - 1
    BY <2>1, <2>2, <2>3
  <2>4. CASE y.from = win.to + 1 /\ y.to = q.to
    BY <2>1, <2>2, <2>4
  <2>5. QED BY <1>2, <2>3, <2>4
<1>8. now = (rs \ {q}) \cup {n} \cup old
  BY DEF old
<1>9. QED BY <1>1, <1>2, <1>3, <1>5, <1>6, <1>7, <1>8 DEF Clean

LEMMA KeptLast ==
    ASSUME TypeInd, NEW w \in Workers, Ends(w), before' = before, NEW u, KeptFor(u),
           u \in Concerned(w), Clean(Of(u)')
    PROVE  KeptFor(u)'
<1>1. u \notin Concerned(w)'
  BY DEF Ends, Concerned, TypeInd
<1>2. \A v \in Workers : u \in Concerned(v) => v = w
  BY DEF KeptFor
<1>3. Clean(Of(u))'
  BY DEF Clean
<1>4. QED BY <1>1, <1>2, <1>3, KeptAfter DEF Ends

LEMMA KeptInsert ==
    ASSUME TypeInd, NEW w \in Workers, InsertAssignments(w), NEW u, KeptFor(u)
    PROVE  KeptFor(u)'
<1>1. job[w].kind = "assign" /\ Ends(w) /\ before' = before
  BY DEF InsertAssignments, Assigning
<1>2. CASE u \notin job[w].users
  BY <1>1, <1>2, InsertedOf, KeptEnd
<1>3. CASE u \in job[w].users
  <2>1. /\ job[w] \in Assigns /\ Clean(Of(u)) /\ AssignHolds(job[w], u, Of(u), before[u])
    BY <1>1, <1>3, OwnAssign
  <2>2. PICK n : /\ n.from = job[w].win.from /\ n.to = job[w].win.to
                 /\ Of(u)' = Of(u) \cup {n}
    BY <1>3, <2>1, InsertedOf DEF AssignHolds
  <2>3. \A r \in Of(u) : ~Overlaps(r, job[w].win)
    BY <2>1 DEF AssignHolds, InsertAssignments, Cut
  <2>4. n.from \in Days /\ n.to \in Days /\ n.from <= n.to
    BY <2>1, <2>2 DEF AssignHolds, Windows, AnyWindow
  <2>5. \A r \in Of(u) : r.to < n.from \/ n.to < r.from
    <3>1. \A r \in Of(u) : r.from \in Nat /\ r.to \in Nat
      BY <2>1, DaysNat DEF Clean
    <3>2. QED BY <2>2, <2>3, <2>4, <3>1, DaysNat DEF Overlaps
  <2>6. Clean(Of(u)')
    BY <2>1, <2>2, <2>4, <2>5, CleanMore
  <2>7. u \in Concerned(w)
    BY <1>1, <1>3 DEF Concerned, NoJob
  <2>8. QED BY <1>1, <2>6, <2>7, KeptLast
<1>4. QED BY <1>2, <1>3

LEMMA KeptUpdate ==
    ASSUME TypeInd, NEW w \in Workers, UpdateAssignment(w), NEW u, KeptFor(u)
    PROVE  KeptFor(u)'
<1>1. job[w].kind = "update" /\ Ends(w) /\ before' = before
  BY DEF UpdateAssignment
<1>2. CASE u \notin job[w].users
  BY <1>1, <1>2, UpdatedOf, KeptEnd
<1>3. CASE u \in job[w].users
  <2>1. u \in Concerned(w)
    BY <1>1, <1>3 DEF Concerned, NoJob
  <2>2. Clean(Of(u)) /\ UpdateHolds(job[w], Of(u), before[u])
    BY <1>1, <2>1 DEF KeptFor, Holds
  <2>3. job[w].row \in Of(u) /\ job[w].row \in rows /\ job[w].row \in Row
    BY <2>2 DEF UpdateHolds, Of, TypeInd, RowsOK
  <2>4. PICK n, stamp :
          /\ n.from = job[w].win.from /\ n.to = job[w].win.to
          /\ Of(u)' = (Of(u) \ {job[w].row}) \cup {n}
                         \cup Stamped(stamp, OldTails(job[w].row, job[w].win))
    BY <1>3, <2>3, UpdatedOf
  <2>5. Clean(Of(u)')
    BY <2>2, <2>3, <2>4, CleanUpdated DEF UpdateHolds
  <2>6. QED BY <1>1, <2>1, <2>5, KeptLast
<1>4. QED BY <1>2, <1>3

LEMMA KeptSwap ==
    ASSUME TypeInd, NEW w \in Workers, ApproveSwap(w), NEW u, KeptFor(u)
    PROVE  KeptFor(u)'
<1>1. job[w].kind = "approve" /\ Ends(w) /\ before' = before
  BY DEF ApproveSwap
<1>2. CASE u \notin job[w].users
  BY <1>1, <1>2, SwappedOf, KeptEnd
<1>3. CASE u \in job[w].users
  <2>1. u \in Concerned(w)
    BY <1>1, <1>3 DEF Concerned, NoJob
  <2>2. /\ Clean(Of(u)) /\ job[w].a.user # job[w].b.user
        /\ job[w].a.user = u => job[w].a \in Of(u)
        /\ job[w].b.user = u => job[w].b \in Of(u)
    BY <1>1, <2>1 DEF KeptFor, Holds
  <2>3. job[w].users = {job[w].a.user, job[w].b.user} /\ job[w] \in Approvals
    BY <1>1, KindOf DEF TypeInd, Shaped
  <2>4. CASE job[w].a.user = u
    <3> DEFINE f == [job[w].a EXCEPT !.shift = job[w].b.shift]
    <3>1. Of(u)' = (Of(u) \ {job[w].a}) \cup {f} /\ job[w].a \in Of(u)
      BY <2>2, <2>4, SwappedOf
    <3>2. f.from = job[w].a.from /\ f.to = job[w].a.to
      BY <2>3 DEF Approvals, Row
    <3> HIDE DEF f
    <3>3. Clean(Of(u)')
      BY <2>2, <3>1, <3>2, CleanAlike
    <3>4. QED BY <1>1, <2>1, <3>3, KeptLast
  <2>5. CASE job[w].b.user = u
    <3> DEFINE f == [job[w].b EXCEPT !.shift = job[w].a.shift]
    <3>1. Of(u)' = (Of(u) \ {job[w].b}) \cup {f} /\ job[w].b \in Of(u)
      BY <2>2, <2>5, SwappedOf
    <3>2. f.from = job[w].b.from /\ f.to = job[w].b.to
      BY <2>3 DEF Approvals, Row
    <3> HIDE DEF f
    <3>3. Clean(Of(u)')
      BY <2>2, <3>1, <3>2, CleanAlike
    <3>4. QED BY <1>1, <2>1, <3>3, KeptLast
  <2>6. QED BY <1>3, <2>3, <2>4, <2>5
<1>4. QED BY <1>2, <1>3

-----------------------------------------------------------------------------
(***************************************************************************)
(* The invariant.                                                          *)
(***************************************************************************)
LEMMA TypeStep == ASSUME TypeInd, Next PROVE TypeInd'
<1>1. ASSUME NEW w \in Workers, Begin(w) PROVE TypeInd'
  BY <1>1, TypeBeginAssign, TypeBeginUpdate, TypeBeginApprove, TypeReject, TypeEndOpenRows
     DEF Begin
<1>2. ASSUME NEW w \in Workers, Step(w) PROVE TypeInd'
  BY <1>2, TypeDeleteSuperseded, TypeCloseOne, TypeTrimOne, TypeInsertTails,
     TypeInsertAssignments, TypeUpdateAssignment, TypeApproveSwap, TypeReject, TypeStartToday
     DEF Step
<1>3. QED BY <1>1, <1>2, TypeFail, TypeDelete, TypeCreateSwap DEF Next

\* The steps of a request after its first, and its failure, keep whom they found kept.
LEMMA KeptUnchanged ==
    ASSUME NEW w \in Workers, Step(w) \/ Fail(w) \/ BeginReject(w)
    PROVE  kept' = kept
BY DEF Step, Fail, DeleteSuperseded, CloseOne, TrimOne, InsertTails, InsertAssignments,
       UpdateAssignment, ApproveSwap, RejectSwap, StartToday, BeginReject

LEMMA KeptSmaller ==
    ASSUME Next
    PROVE  kept' = kept \/ \E us : kept' = StillKept(us)
<1>1. ASSUME NEW w \in Workers, Begin(w) PROVE kept' = kept \/ \E us : kept' = StillKept(us)
  BY <1>1 DEF Begin, BeginAssign, BeginUpdate, BeginApprove, BeginReject, EndOpenRows
<1>2. ASSUME NEW r \in rows, DeleteAssignment(r) PROVE \E us : kept' = StillKept(us)
  BY <1>2 DEF DeleteAssignment
<1>3. ASSUME NEW a \in rows, NEW b \in rows, CreateSwap(a, b) PROVE kept' = kept
  BY <1>3 DEF CreateSwap
<1>4. QED BY <1>1, <1>2, <1>3, KeptUnchanged DEF Next

LEMMA SameRowsOf == ASSUME rows' = rows, NEW u PROVE Of(u)' = Of(u)
BY DEF Of

LEMMA KeptStepFor ==
    ASSUME TypeInd, NEW w \in Workers, Step(w), NEW u, KeptFor(u)
    PROVE  KeptFor(u)'
<1>1. CASE DeleteSuperseded(w) \/ CloseOne(w) \/ TrimOne(w) \/ InsertTails(w)
  <2>1. job[w].kind = "assign"
    BY <1>1 DEF DeleteSuperseded, CloseOne, TrimOne, InsertTails, Assigning
  <2>2. GoesOn(w, u)
    BY <1>1, DeleteGoesOn, CloseGoesOn, TrimGoesOn, TailsGoOn
  <2>3. QED BY <2>1, <2>2, KeptGoesOn
<1>2. CASE RejectSwap(w)
  <2>1. rows' = rows /\ Ends(w) /\ before' = before
    BY <1>2 DEF RejectSwap
  <2>2. QED BY <2>1, SameRowsOf, KeptEnd
<1>3. QED BY <1>1, <1>2, KeptInsert, KeptUpdate, KeptSwap, KeptStartToday DEF Step

LEMMA KeptBeginFor ==
    ASSUME TypeInd, NEW w \in Workers, Begin(w), NEW u \in kept', u \in Users, KeptFor(u)
    PROVE  KeptFor(u)'
<1>1. CASE BeginReject(w)
  <2> DEFINE j == [kind |-> "reject", users |-> {}]
  <2>1. rows' = rows /\ job' = [job EXCEPT ![w] = j]
        /\ before' = [x \in Users |-> before[x]]
    BY <1>1 DEF BeginReject, Begins
  <2>2. u \notin j.users
    OBVIOUS
  <2> HIDE DEF j
  <2>3. before'[u] = before[u]
    BY <2>1
  <2>4. QED BY <2>1, <2>2, <2>3, SameRowsOf, KeptOther
<1>2. QED BY <1>1, KeptBeginAssign, KeptBeginUpdate, KeptBeginApprove, KeptEndOpenRows
      DEF Begin

LEMMA KeptStep ==
    ASSUME Ind, Next, NEW u \in kept'
    PROVE  KeptFor(u)'
<1>1. TypeInd /\ u \in kept /\ u \in Users /\ KeptFor(u)
  <2>1. u \in kept
    BY KeptSmaller, StillKeptKept
  <2>2. QED BY <2>1 DEF Ind, TypeInd
<1>2. ASSUME NEW w \in Workers, Begin(w) PROVE KeptFor(u)'
  BY <1>1, <1>2, KeptBeginFor
<1>3. ASSUME NEW w \in Workers, Step(w) PROVE KeptFor(u)'
  BY <1>1, <1>3, KeptStepFor
<1>4. ASSUME NEW w \in Workers, Fail(w) PROVE KeptFor(u)'
  <2>1. rows' = rows /\ Ends(w) /\ before' = before
    BY <1>4 DEF Fail
  <2>2. QED BY <1>1, <2>1, SameRowsOf, KeptEnd
<1>5. ASSUME NEW r \in rows, DeleteAssignment(r) PROVE KeptFor(u)'
  BY <1>1, <1>5, KeptDelete
<1>6. ASSUME NEW a \in rows, NEW b \in rows, CreateSwap(a, b) PROVE KeptFor(u)'
  <2>1. UNCHANGED <<rows, job, before>>
    BY <1>6 DEF CreateSwap
  <2>2. QED BY <1>1, <2>1, Untouched
<1>7. QED BY <1>2, <1>3, <1>4, <1>5, <1>6 DEF Next

LEMMA TogetherStep ==
    ASSUME Ind, Next
    PROVE  Together'
<1>1. TypeInd /\ (\A u \in kept : KeptFor(u)) /\ Together
  BY DEF Ind
<1>2. ASSUME NEW w \in Workers, Step(w) \/ Fail(w) PROVE Together'
  <2>1. kept' = kept
    BY <1>2, KeptUnchanged
  <2>2. CASE DeleteSuperseded(w) \/ CloseOne(w) \/ TrimOne(w) \/ InsertTails(w)
    <3>1. job[w].kind = "assign"
      BY <2>2 DEF DeleteSuperseded, CloseOne, TrimOne, InsertTails, Assigning
    <3>2. job[w] \in Assigns
      BY <1>1, <3>1, KindOf DEF TypeInd
    <3>3. ASSUME NEW j \in Assigns, job' = [job EXCEPT ![w] = j] PROVE Together'
      <4>1. j.kind = "assign"
        BY DEF Assigns
      <4>2. QED BY <1>1, <2>1, <3>3, <4>1, TogetherAfter
    <3>4. ASSUME NEW c PROVE /\ [job[w] EXCEPT !.delete = {}] \in Assigns
                             /\ [job[w] EXCEPT !.close = @ \ {c}] \in Assigns
                             /\ [job[w] EXCEPT !.trim = @ \ {c}] \in Assigns
                             /\ [job[w] EXCEPT !.tails = {}] \in Assigns
      BY <3>2 DEF Assigns
    <3>5. DOMAIN job = Workers
      BY <1>1 DEF TypeInd
    <3>6. CASE DeleteSuperseded(w)
      <4>1. job' = [job EXCEPT ![w] = [job[w] EXCEPT !.delete = {}]]
        BY <3>5, <3>6 DEF DeleteSuperseded
      <4>2. QED BY <3>3, <3>4, <4>1
    <3>7. CASE CloseOne(w)
      <4>1. PICK c \in job[w].close : job' = [job EXCEPT ![w] = [job[w] EXCEPT !.close = @ \ {c}]]
        BY <3>5, <3>7 DEF CloseOne
      <4>2. QED BY <3>3, <3>4, <4>1
    <3>8. CASE TrimOne(w)
      <4>1. PICK c \in job[w].trim : job' = [job EXCEPT ![w] = [job[w] EXCEPT !.trim = @ \ {c}]]
        BY <3>5, <3>8 DEF TrimOne
      <4>2. QED BY <3>3, <3>4, <4>1
    <3>9. CASE InsertTails(w)
      <4>1. job' = [job EXCEPT ![w] = [job[w] EXCEPT !.tails = {}]]
        BY <3>5, <3>9 DEF InsertTails
      <4>2. QED BY <3>3, <3>4, <4>1
    <3>10. QED BY <2>2, <3>6, <3>7, <3>8, <3>9
  <2>3. CASE Ends(w)
    BY <1>1, <2>1, <2>3, TogetherEnd
  <2>4. QED BY <1>2, <2>2, <2>3 DEF Step, Fail, InsertAssignments, UpdateAssignment,
        ApproveSwap, RejectSwap, StartToday
<1>3. ASSUME NEW w \in Workers, BeginApprove(w) PROVE Together'
  <2>1. PICK a \in rows, b \in rows :
          /\ Begins(w, {a.user, b.user}, [kind |-> "approve", users |-> {a.user, b.user},
                                          a |-> a, b |-> b])
          /\ kept' = StillKept(IF a.user # b.user /\ {a.user, b.user} \subseteq kept
                                    /\ Clash({a.user, b.user}) = {}
                                 THEN {} ELSE {a.user, b.user})
    BY <1>3 DEF BeginApprove
  <2> DEFINE j == [kind |-> "approve", users |-> {a.user, b.user}, a |-> a, b |-> b]
  <2>2. job' = [job EXCEPT ![w] = j]
    BY <2>1 DEF Begins
  <2>3. j.users \subseteq kept' \/ j.users \cap kept' = {}
    <3>1. StillKept({}) = kept
      BY DEF StillKept, Partners
    <3>2. CASE a.user # b.user /\ {a.user, b.user} \subseteq kept
               /\ Clash({a.user, b.user}) = {}
      BY <2>1, <3>1, <3>2
    <3>3. CASE ~(a.user # b.user /\ {a.user, b.user} \subseteq kept
                 /\ Clash({a.user, b.user}) = {})
      <4>1. kept' = StillKept({a.user, b.user})
        BY <2>1, <3>3
      <4>2. QED BY <4>1, StillKeptKept
    <3>4. QED BY <3>2, <3>3
  <2>4. \E us : kept' = StillKept(us)
    BY <2>1
  <2> HIDE DEF j
  <2>5. QED BY <1>1, <2>2, <2>3, <2>4, TogetherAfter
<1>4. ASSUME NEW w \in Workers, Begin(w), ~BeginApprove(w) PROVE Together'
  <2>1. kept' = kept \/ \E us : kept' = StillKept(us)
    BY <1>4, KeptSmaller DEF Next
  <2>2. \E j : job' = [job EXCEPT ![w] = j] /\ j.kind # "approve"
    <3>1. \A us, j : Begins(w, us, j) => job' = [job EXCEPT ![w] = j]
      BY DEF Begins
    <3>2. CASE \E x \in Users, s \in Shifts \cup {Off} : EndOpenRows(w, x, s)
      <4>1. PICK x \in Users, s \in Shifts \cup {Off} : EndOpenRows(w, x, s)
        BY <3>2
      <4>2. Begins(w, {}, IF s = Off THEN NoJob
                     ELSE [kind |-> "profile", users |-> {x}, shift |-> s])
        BY <4>1 DEF EndOpenRows
      <4>3. (IF s = Off THEN NoJob ELSE [kind |-> "profile", users |-> {x}, shift |-> s]).kind
              # "approve"
        BY DEF NoJob
      <4>4. QED BY <3>1, <4>2, <4>3
    <3>3. CASE BeginReject(w)
      <4>1. Begins(w, {}, [kind |-> "reject", users |-> {}])
        BY <3>3 DEF BeginReject
      <4>2. QED BY <3>1, <4>1
    <3>4. ASSUME NEW us \in SUBSET Users, NEW again \in SUBSET us, NEW s \in Shifts,
                 NEW win \in AnyWindow, BeginAssign(w, us, again, s, win)
          PROVE  \E j : job' = [job EXCEPT ![w] = j] /\ j.kind # "approve"
      <4> DEFINE theirs == {r \in rows : r.user \in us}
                 j == [kind |-> "assign", users |-> us, again |-> again, shift |-> s, win |-> win,
                       delete |-> Superseded(theirs, win), close |-> Closed(theirs, win),
                       trim   |-> Trimmed(theirs, win),    tails |-> Tails(theirs, win)]
      <4>1. Begins(w, us, j)
        BY <3>4 DEF BeginAssign
      <4>2. j.kind # "approve"
        OBVIOUS
      <4> HIDE DEF j
      <4>3. QED BY <3>1, <4>1, <4>2
    <3>5. ASSUME NEW r \in rows, NEW s \in Shifts, NEW win \in AnyWindow,
                 BeginUpdate(w, r, s, win)
          PROVE  \E j : job' = [job EXCEPT ![w] = j] /\ j.kind # "approve"
      <4> DEFINE j == [kind |-> "update", users |-> {r.user}, row |-> r, shift |-> s,
                       win |-> win]
      <4>1. Begins(w, {r.user}, j)
        BY <3>5 DEF BeginUpdate
      <4>2. j.kind # "approve"
        OBVIOUS
      <4> HIDE DEF j
      <4>3. QED BY <3>1, <4>1, <4>2
    <3>6. QED BY <1>4, <3>2, <3>3, <3>4, <3>5 DEF Begin
  <2>3. PICK j : job' = [job EXCEPT ![w] = j] /\ j.kind # "approve"
    BY <2>2
  <2>4. QED BY <1>1, <2>1, <2>3, TogetherAfter
<1>5. ASSUME NEW r \in rows, DeleteAssignment(r) PROVE Together'
  <2>1. job' = job /\ kept' = StillKept(Clash({r.user}))
    BY <1>5 DEF DeleteAssignment
  <2>2. QED BY <1>1, <2>1, TogetherStill DEF Together
<1>6. ASSUME NEW a \in rows, NEW b \in rows, CreateSwap(a, b) PROVE Together'
  BY <1>1, <1>6 DEF CreateSwap, Together
<1>7. QED BY <1>2, <1>3, <1>4, <1>5, <1>6 DEF Next

\* The invariant holds at first and every statement of every request, a failure
\* included, keeps it.
THEOREM TimelineInductive ==
    /\ Init => Ind
    /\ Ind /\ [Next]_vars => Ind'
<1>1. Ind /\ Next => Ind'
  <2> SUFFICES ASSUME Ind, Next PROVE Ind'
    OBVIOUS
  <2>1. TypeInd'
    BY TypeStep DEF Ind
  <2>2. Together'
    BY TogetherStep
  <2>3. \A u \in kept' : KeptFor(u)'
    BY KeptStep
  <2>4. QED BY <2>1, <2>2, <2>3 DEF Ind
<1>2. Ind /\ UNCHANGED vars => Ind'
  <2> SUFFICES ASSUME Ind, UNCHANGED vars PROVE Ind'
    OBVIOUS
  <2>1. TypeInd'
    BY DEF Ind, TypeInd, RowsOK, Known, vars
  <2>2. Together'
    BY DEF Ind, Together, vars
  <2>3. \A u \in kept' : KeptFor(u)'
    BY Untouched DEF Ind, vars
  <2>4. QED BY <2>1, <2>2, <2>3 DEF Ind
<1>3. QED BY <1>1, <1>2, InitInd

LEMMA Invariance == Spec => []Ind
<1>1. QED BY TimelineInductive, PTL DEF Spec

\* Ids are unique and below the counter, rows and swap requests are well-formed.
THEOREM ShiftTypes == Spec => []TypeOK
<1>1. Ind => TypeOK
  BY DEF Ind, TypeInd, RowsOK, TypeOK, Swaps
<1>2. QED BY <1>1, Invariance, PTL

\* The timeline of a kept user is clean and non-overlapping at every moment, in
\* the middle of a reconciliation too; a user is kept until a request comes beside
\* another about the same user, has its dates out of order, names the user twice,
\* moves a row beyond its days or edits the profile.
THEOREM ShiftsClean == Spec => []CleanTimeline
<1>1. Ind => CleanTimeline
  BY DEF Ind, KeptFor, Clean, Of, CleanTimeline
<1>2. QED BY <1>1, Invariance, PTL

-----------------------------------------------------------------------------
(***************************************************************************)
(* The refinement: the steps of Roster in terms of what is seen and what   *)
(* is pending.                                                             *)
(***************************************************************************)
NothingAsked == [before |-> Blank, open |-> FALSE, after |-> Blank]

SameFor(u) == Seen(u)' = Seen(u) /\ Pending(u)' = Pending(u)

BeginFor(u) ==
    /\ ~Pending(u).open
    /\ Seen(u)' = Seen(u)
    /\ \E from, to \in Days, s \in Shifts :
          Pending(u)' = [before |-> Seen(u), open |-> TRUE,
                         after |-> [d \in Days |-> IF d \in from .. to THEN s ELSE Seen(u)[d]]]

ThinFor(u) ==
    /\ Pending(u).open /\ Pending(u)' = Pending(u)
    /\ \A d \in Days : Seen(u)'[d] \in {Pending(u).before[d], Off}

CommitFor(u) ==
    /\ Pending(u).open /\ Pending(u)' = NothingAsked
    /\ Seen(u)' = Pending(u).after

GiveUpFor(u) ==
    /\ Pending(u).open /\ Pending(u)' = NothingAsked
    /\ Seen(u)' = Seen(u)

RemoveFor(u) ==
    /\ ~Pending(u).open /\ Pending(u)' = Pending(u)
    /\ \E from, to \in Days, s \in Shifts :
          /\ \A d \in from .. to : Seen(u)[d] = s
          /\ Seen(u)' = [d \in Days |-> IF d \in from .. to THEN Off ELSE Seen(u)[d]]

StepFor(u) ==
    IF u \in kept'
      THEN \/ SameFor(u) \/ BeginFor(u) \/ ThinFor(u) \/ CommitFor(u) \/ GiveUpFor(u)
           \/ RemoveFor(u)
      ELSE Seen(u)' = Blank /\ Pending(u)' = NothingAsked

SwapFor(u, v) ==
    \E s, t \in Shifts : \E f, g, h, i \in Days :
        /\ f <= g /\ h <= i
        /\ \A d \in f .. g : Seen(u)[d] = s
        /\ \A d \in h .. i : Seen(v)[d] = t
        /\ Seen(u)' = [d \in Days |-> IF d \in f .. g THEN t ELSE Seen(u)[d]]
        /\ Seen(v)' = [d \in Days |-> IF d \in h .. i THEN s ELSE Seen(v)[d]]
        /\ \A x \in Users \ {u, v} : Seen(x)' = Seen(x)

LEMMA StepIsRoster == ASSUME NEW u \in Users, StepFor(u) PROVE R!Step(u)
<1> DEFINE roster == [x \in Users |-> Seen(x)]
           pending == [x \in Users |-> Pending(x)]
<1>1. /\ roster[u] = Seen(u) /\ pending[u] = Pending(u)
      /\ roster'[u] = Seen(u)' /\ pending'[u] = Pending(u)'
  OBVIOUS
<1>2. CASE u \notin kept'
  BY <1>1, <1>2 DEF StepFor, R!Step, R!Blank, R!Nothing, R!Days, Days, Blank, NothingAsked
<1>3. CASE u \in kept' /\ SameFor(u)
  BY <1>1, <1>3 DEF SameFor, R!Step, R!Same
<1>4. CASE u \in kept' /\ BeginFor(u)
  BY <1>1, <1>4 DEF BeginFor, R!Step, R!Begin, R!Overlay, R!Days, Days
<1>5. CASE u \in kept' /\ ThinFor(u)
  BY <1>1, <1>5 DEF ThinFor, R!Step, R!Thin, R!Days, Days
<1>6. CASE u \in kept' /\ CommitFor(u)
  BY <1>1, <1>6
     DEF CommitFor, R!Step, R!Commit, R!Nothing, R!Blank, R!Days, Days, Blank, NothingAsked
<1>7. CASE u \in kept' /\ GiveUpFor(u)
  BY <1>1, <1>7
     DEF GiveUpFor, R!Step, R!GiveUp, R!Nothing, R!Blank, R!Days, Days, Blank, NothingAsked
<1>8. CASE u \in kept' /\ RemoveFor(u)
  BY <1>1, <1>8 DEF RemoveFor, R!Step, R!Remove, R!Overlay, R!Days, Days
<1>9. QED BY <1>2, <1>3, <1>4, <1>5, <1>6, <1>7, <1>8 DEF StepFor

LEMMA StepsAreRoster ==
    ASSUME kept' \subseteq kept, \A u \in Users : StepFor(u)
    PROVE  R!Next
BY StepIsRoster DEF R!Next

LEMMA SwapIsRoster ==
    ASSUME NEW u \in kept, NEW v \in kept, kept \subseteq Users, u # v, SwapFor(u, v), kept' = kept,
           \A x \in Users : Pending(x)' = Pending(x)
    PROVE  R!Next
<1> DEFINE roster == [x \in Users |-> Seen(x)]
           pending == [x \in Users |-> Pending(x)]
<1>1. u \in Users /\ v \in Users
  OBVIOUS
<1>2. pending' = pending
  OBVIOUS
<1>3. PICK s \in Shifts, t \in Shifts, f \in Days, g \in Days, h \in Days, i \in Days :
        /\ f <= g /\ h <= i
        /\ \A d \in f .. g : Seen(u)[d] = s
        /\ \A d \in h .. i : Seen(v)[d] = t
        /\ Seen(u)' = [d \in Days |-> IF d \in f .. g THEN t ELSE Seen(u)[d]]
        /\ Seen(v)' = [d \in Days |-> IF d \in h .. i THEN s ELSE Seen(v)[d]]
        /\ \A x \in Users \ {u, v} : Seen(x)' = Seen(x)
  BY DEF SwapFor
<1>4. roster' = [roster EXCEPT ![u] = R!Overlay(@, f, g, t), ![v] = R!Overlay(@, h, i, s)]
  <2>1. \A x \in Users : Seen(x)' = [roster EXCEPT ![u] = R!Overlay(@, f, g, t),
                                                   ![v] = R!Overlay(@, h, i, s)][x]
    BY <1>1, <1>3 DEF R!Overlay, R!Days, Days
  <2>2. QED BY <2>1
<1>5. R!Swap(u, v)
  <2>1. roster[u] = Seen(u) /\ roster[v] = Seen(v)
    BY <1>1
  <2>2. R!Days = Days
    BY DEF R!Days, Days
  <2>3. s \in Shifts /\ t \in Shifts /\ {f, g, h, i} \subseteq R!Days
    BY <2>2
  <2>4. /\ f <= g /\ h <= i
        /\ \A d \in f .. g : roster[u][d] = s
        /\ \A d \in h .. i : roster[v][d] = t
    BY <1>3, <2>1
  <2> HIDE DEF roster
  <2>5. \E k \in Shifts, l \in Shifts : \E c \in R!Days, d \in R!Days, m \in R!Days, n \in R!Days :
          /\ c <= d /\ m <= n
          /\ \A e \in c .. d : roster[u][e] = k
          /\ \A e \in m .. n : roster[v][e] = l
          /\ roster' = [roster EXCEPT ![u] = R!Overlay(@, c, d, l),
                                     ![v] = R!Overlay(@, m, n, k)]
    BY <1>4, <2>3, <2>4
  <2>6. QED BY <2>5 DEF R!Swap, roster
<1>6. QED BY <1>2, <1>5 DEF R!Next

-----------------------------------------------------------------------------
(***************************************************************************)
(* What is seen and what is pending, before and after a step.              *)
(***************************************************************************)
LEMMA ShownOfSame ==
    ASSUME NEW rs, NEW qs, NEW u, {r \in rs : r.user = u} = {r \in qs : r.user = u}
    PROVE  Shown(rs, u) = Shown(qs, u)
<1> DEFINE last(here) == IF here = {} THEN Off
                         ELSE (CHOOSE r \in here : \A q \in here : q.id <= r.id).shift
<1>1. \A d \in Days : /\ ShownShift(rs, u, d) = last({r \in rs : r.user = u /\ Covers(r, d)})
                     /\ ShownShift(qs, u, d) = last({r \in qs : r.user = u /\ Covers(r, d)})
  BY DEF ShownShift
<1> HIDE DEF last
<1>2. ASSUME NEW d \in Days PROVE ShownShift(rs, u, d) = ShownShift(qs, u, d)
  <2>1. {r \in rs : r.user = u /\ Covers(r, d)} = {r \in qs : r.user = u /\ Covers(r, d)}
    OBVIOUS
  <2>2. QED BY <1>1, <2>1
<1>3. QED BY <1>2 DEF Shown

LEMMA SeenSame ==
    ASSUME NEW u \in kept, u \in kept', Of(u)' = Of(u)
    PROVE  Seen(u)' = Seen(u)
<1>1. {r \in rows : r.user = u} = {r \in rows' : r.user = u}
  BY DEF Of
<1>2. Shown(rows', u) = Shown(rows, u)
  BY <1>1, ShownOfSame
<1>3. QED BY <1>2 DEF Seen

\* The days of a kept user, row by row.
LEMMA SeenRows ==
    ASSUME NEW rs, NEW u, Clean({x \in rs : x.user = u}), \A x \in rs : x.id \in Nat,
           NEW d \in Days
    PROVE  /\ \A r \in rs : r.user = u /\ Covers(r, d) => Shown(rs, u)[d] = r.shift
           /\ (\A r \in rs : r.user = u => ~Covers(r, d)) => Shown(rs, u)[d] = Off
<1>1. Shown(rs, u)[d] = ShownShift(rs, u, d)
  BY DEF Shown
<1>2. QED BY <1>1, ShownCovered, ShownFree

LEMMA SeenNow ==
    ASSUME TypeInd, NEW u \in kept, Clean(Of(u)), NEW d \in Days
    PROVE  /\ \A r \in Of(u) : Covers(r, d) => Seen(u)[d] = r.shift
           /\ (\A r \in Of(u) : ~Covers(r, d)) => Seen(u)[d] = Off
<1>1. \A x \in rows : x.id \in Nat
  BY DEF TypeInd, RowsOK, Row
<1>2. Clean({x \in rows : x.user = u})
  BY DEF Of
<1>3. Seen(u) = Shown(rows, u)
  BY DEF Seen
<1>4. QED BY <1>1, <1>2, <1>3, SeenRows DEF Of

LEMMA SeenThen ==
    ASSUME TypeInd', NEW u \in kept', Clean(Of(u)'), NEW d \in Days
    PROVE  /\ \A r \in Of(u)' : Covers(r, d) => Seen(u)'[d] = r.shift
           /\ (\A r \in Of(u)' : ~Covers(r, d)) => Seen(u)'[d] = Off
<1>1. \A x \in rows' : x.id \in Nat
  BY DEF TypeInd, RowsOK, Row
<1>2. Clean({x \in rows' : x.user = u})
  BY DEF Of
<1>3. Seen(u)' = Shown(rows', u)
  BY DEF Seen
<1>4. QED BY <1>1, <1>2, <1>3, SeenRows DEF Of

LEMMA SeenIsFunction ==
    ASSUME NEW u
    PROVE  /\ Seen(u) = [d \in Days |-> Seen(u)[d]]
           /\ Seen(u)' = [d \in Days |-> Seen(u)'[d]]
BY DEF Seen, Shown, Blank

ChangeOf(j, b) ==
    [before |-> b, open |-> TRUE,
     after  |-> [d \in Days |-> IF d \in j.win.from .. j.win.to THEN j.shift ELSE b[d]]]

LEMMA NotPending ==
    ASSUME NEW u, Changing(u) = {} \/ u \notin kept
    PROVE  Pending(u) = NothingAsked
BY DEF Pending, Open, NothingAsked

LEMMA NotPendingThen ==
    ASSUME NEW u, Changing(u)' = {} \/ u \notin kept'
    PROVE  Pending(u)' = NothingAsked
BY DEF Pending, Open, NothingAsked

LEMMA PendingIs ==
    ASSUME NEW u \in kept, NEW w, Changing(u) = {w}
    PROVE  Pending(u) = ChangeOf(job[w], before[u])
<1>1. Open(u)
  BY DEF Open
<1>2. (CHOOSE v \in Changing(u) : TRUE) = w
  OBVIOUS
<1>3. QED BY <1>1, <1>2 DEF Pending, ChangeOf

LEMMA PendingIsThen ==
    ASSUME NEW u \in kept', NEW w, Changing(u)' = {w}
    PROVE  Pending(u)' = ChangeOf(job'[w], before'[u])
<1>1. Open(u)'
  BY DEF Open
<1>2. (CHOOSE v \in Changing(u)' : TRUE) = w
  OBVIOUS
<1>3. QED BY <1>1, <1>2 DEF Pending, ChangeOf

\* A job that is no change to the user, before and after the step.
LEMMA PendingSame ==
    ASSUME TypeInd, NEW w \in Workers, NEW j, job' = [job EXCEPT ![w] = j],
           NEW u \in kept, u \in kept', before'[u] = before[u],
           w \notin Changing(u), w \notin Changing(u)'
    PROVE  Pending(u)' = Pending(u)
<1>1. \A v \in Workers : v # w => job'[v] = job[v]
  BY DEF TypeInd
<1>2. Changing(u)' = Changing(u)
  BY <1>1 DEF Changing
<1>3. Open(u)' <=> Open(u)
  BY <1>2 DEF Open
<1>4. CASE ~Open(u)
  BY <1>3, <1>4 DEF Pending
<1>5. CASE Open(u)
  <2> DEFINE v == CHOOSE v \in Changing(u) : TRUE
  <2>1. v \in Changing(u)
    BY <1>5 DEF Open
  <2>2. v \in Workers /\ v # w
    BY <2>1 DEF Changing
  <2>3. job'[v] = job[v]
    BY <1>1, <2>2
  <2>4. v = CHOOSE x \in Changing(u)' : TRUE
    BY <1>2
  <2> HIDE DEF v
  <2>5. Pending(u) = ChangeOf(job[v], before[u])
    BY <1>5 DEF Pending, ChangeOf, v
  <2>6. Pending(u)' = ChangeOf(job'[v], before'[u])
    <3>1. Pending(u)' = ChangeOf(job'[CHOOSE x \in Changing(u)' : TRUE], before'[u])
      BY <1>3, <1>5 DEF Pending, ChangeOf
    <3>2. QED BY <2>4, <3>1
  <2>7. QED BY <2>3, <2>5, <2>6
<1>6. QED BY <1>4, <1>5

\* Of a kept user at most one change is made at a time.
LEMMA ChangingOf ==
    ASSUME NEW u
    PROVE  Changing(u) = {w \in Workers : u \in Concerned(w)
                                            /\ job[w].kind \in {"assign", "update"}}
BY DEF Changing, Concerned

LEMMA OnlyChange ==
    ASSUME TypeInd, NEW u, KeptFor(u), NEW w \in Workers, NEW j, j # NoJob,
           job' = [job EXCEPT ![w] = j], u \in j.users, j.kind \in {"assign", "update"},
           \A v \in Workers : u \in Concerned(v) => v = w
    PROVE  Changing(u)' = {w} /\ job'[w] = j
<1>1. job'[w] = j /\ \A v \in Workers : v # w => job'[v] = job[v]
  BY DEF TypeInd
<1>2. \A v \in Workers : v # w => v \notin Changing(u)'
  BY <1>1 DEF Changing, Concerned
<1>3. w \in Changing(u)'
  BY <1>1 DEF Changing
<1>4. Changing(u)' \subseteq Workers
  BY DEF Changing
<1>5. QED BY <1>1, <1>2, <1>3, <1>4

LEMMA OwnChange ==
    ASSUME NEW u, KeptFor(u), NEW w \in Workers, u \in Concerned(w)
    PROVE  /\ job[w].kind \in {"assign", "update"} => Changing(u) = {w}
           /\ job[w].kind \notin {"assign", "update"} => Changing(u) = {}
BY ChangingOf DEF KeptFor

LEMMA EndedChange ==
    ASSUME TypeInd, NEW u, KeptFor(u), NEW w \in Workers, u \in Concerned(w), Ends(w)
    PROVE  Changing(u)' = {}
<1>1. job'[w] = NoJob /\ \A v \in Workers : v # w => job'[v] = job[v]
  BY DEF TypeInd, Ends
<1>2. \A v \in Workers : v # w => u \notin Concerned(v)
  BY DEF KeptFor
<1>3. QED BY <1>1, <1>2 DEF Changing, Concerned

-----------------------------------------------------------------------------
(***************************************************************************)
(* The step each action is for one user.                                   *)
(***************************************************************************)
LEMMA Voided == ASSUME NEW u, u \notin kept' PROVE StepFor(u)
BY NotPendingThen DEF StepFor, Seen

\* Nothing about the user.
LEMMA Same ==
    ASSUME TypeInd, NEW w \in Workers, NEW j, job' = [job EXCEPT ![w] = j],
           NEW u \in kept, u \in kept', before'[u] = before[u], Of(u)' = Of(u),
           w \notin Changing(u), w \notin Changing(u)'
    PROVE  SameFor(u)
BY SeenSame, PendingSame DEF SameFor

LEMMA SameOther ==
    ASSUME TypeInd, NEW w \in Workers, NEW j, job' = [job EXCEPT ![w] = j],
           NEW u \in kept, u \in kept', before'[u] = before[u], Of(u)' = Of(u),
           u \notin Concerned(w), j = NoJob \/ u \notin j.users
    PROVE  SameFor(u)
<1>1. w \notin Changing(u)
  BY DEF Changing, Concerned
<1>2. w \notin Changing(u)'
  BY DEF Changing, TypeInd
<1>3. QED BY <1>1, <1>2, Same

\* A change begins.
LEMMA Begun ==
    ASSUME TypeInd, NEW w \in Workers, NEW j, j # NoJob, job' = [job EXCEPT ![w] = j],
           NEW u \in kept, u \in kept', KeptFor(u), Of(u)' = Of(u),
           before'[u] = Shown(rows, u), u \in j.users, j.kind \in {"assign", "update"},
           j.win.from \in Days, j.win.to \in Days, j.shift \in Shifts,
           \A v \in Workers : u \notin Concerned(v)
    PROVE  BeginFor(u)
<1>1. Changing(u) = {}
  BY DEF Changing, Concerned
<1>2. Pending(u) = NothingAsked
  BY <1>1, NotPending
<1>3. Seen(u)' = Seen(u) /\ Seen(u) = Shown(rows, u)
  BY SeenSame DEF Seen
<1>4. Changing(u)' = {w} /\ job'[w] = j
  BY OnlyChange
<1>5. Pending(u)' = ChangeOf(j, Seen(u))
  BY <1>3, <1>4, PendingIsThen
<1>6. ~Pending(u).open
  BY <1>2 DEF NothingAsked
<1>7. Pending(u)' = [before |-> Seen(u), open |-> TRUE,
                     after |-> [d \in Days |-> IF d \in j.win.from .. j.win.to THEN j.shift
                                               ELSE Seen(u)[d]]]
  BY <1>5 DEF ChangeOf
<1>8. QED BY <1>3, <1>6, <1>7 DEF BeginFor

\* A statement of an assignment.
LEMMA Thinned ==
    ASSUME TypeInd, TypeInd', NEW w \in Workers, job[w].kind = "assign",
           NEW u \in kept, u \in kept', KeptFor(u), GoesOn(w, u)
    PROVE  SameFor(u) \/ ThinFor(u)
<1>1. PICK j \in Assigns : /\ job' = [job EXCEPT ![w] = j]
                           /\ j.users = job[w].users /\ j.shift = job[w].shift
                           /\ j.win = job[w].win
  BY DEF GoesOn
<1>2. job'[w] = j /\ before' = before /\ j.kind = "assign" /\ j # NoJob
  BY <1>1 DEF GoesOn, TypeInd, Assigns, NoJob
<1>3. Concerned(w) = job[w].users
  BY DEF Concerned, NoJob
<1>4. CASE u \notin job[w].users
  BY <1>1, <1>2, <1>3, <1>4, SameOther DEF GoesOn
<1>5. CASE u \in job[w].users
  <2>1. Changing(u) = {w} /\ \A v \in Workers : u \in Concerned(v) => v = w
    BY <1>3, <1>5, OwnChange DEF KeptFor
  <2>2. Changing(u)' = {w}
    BY <1>1, <1>2, <1>5, <2>1, OnlyChange
  <2>3. Pending(u) = ChangeOf(job[w], before[u])
    BY <2>1, PendingIs
  <2>4. Pending(u)' = ChangeOf(j, before[u])
    BY <1>2, <2>2, PendingIsThen
  <2>5. Pending(u)' = Pending(u) /\ Pending(u).open /\ Pending(u).before = before[u]
    BY <1>1, <2>3, <2>4 DEF ChangeOf
  <2>6. Clean(Of(u)') /\ Under(Of(u)', before[u])
    BY <1>5 DEF GoesOn, AssignHolds, Under
  <2>7. \A d \in Days : Seen(u)'[d] \in {before[u][d], Off}
    BY <2>6, SeenThen DEF Under
  <2>8. QED BY <2>5, <2>7 DEF ThinFor
<1>6. QED BY <1>4, <1>5

\* The change is made: what the rows show afterwards, day by day.
LEMMA Committed ==
    ASSUME TypeInd, TypeInd', NEW w \in Workers, Ends(w), job[w].kind \in {"assign", "update"},
           NEW u \in kept, u \in kept', KeptFor(u), u \in job[w].users, Clean(Of(u)'),
           \A d \in job[w].win.from .. job[w].win.to :
               \E r \in Of(u)' : Covers(r, d) /\ r.shift = job[w].shift,
           \A d \in Days : d \notin job[w].win.from .. job[w].win.to =>
               /\ \A r \in Of(u)' : Covers(r, d) => before[u][d] = r.shift
               /\ (\A r \in Of(u)' : ~Covers(r, d)) => before[u][d] = Off
    PROVE  CommitFor(u)
<1>1. u \in Concerned(w)
  BY DEF Concerned, NoJob
<1>2. Pending(u) = ChangeOf(job[w], before[u])
  BY <1>1, OwnChange, PendingIs
<1>3. Pending(u)' = NothingAsked
  BY <1>1, EndedChange, NotPendingThen
<1>4. ASSUME NEW d \in Days
      PROVE  Seen(u)'[d] = IF d \in job[w].win.from .. job[w].win.to THEN job[w].shift
                           ELSE before[u][d]
  BY SeenThen
<1>5. Seen(u)' = Pending(u).after
  BY <1>2, <1>4, SeenIsFunction DEF ChangeOf
<1>6. QED BY <1>2, <1>3, <1>5 DEF CommitFor, ChangeOf

LEMMA GivenUp ==
    ASSUME TypeInd, NEW w \in Workers, Fail(w), NEW u \in kept, u \in kept', KeptFor(u)
    PROVE  SameFor(u) \/ GiveUpFor(u)
<1>1. /\ Ends(w) /\ rows' = rows /\ before' = before
      /\ job' = [job EXCEPT ![w] = NoJob]
  BY DEF Fail, Ends
<1>2. Of(u)' = Of(u)
  BY <1>1, SameRowsOf
<1>3. CASE u \notin Concerned(w)
  BY <1>1, <1>2, <1>3, SameOther
<1>4. CASE u \in Concerned(w) /\ job[w].kind \in {"assign", "update"}
  <2>1. Pending(u) = ChangeOf(job[w], before[u])
    BY <1>4, OwnChange, PendingIs
  <2>2. Pending(u)' = NothingAsked
    BY <1>1, <1>4, EndedChange, NotPendingThen
  <2>3. QED BY <1>2, <2>1, <2>2, SeenSame DEF GiveUpFor, ChangeOf
<1>5. CASE u \in Concerned(w) /\ job[w].kind \notin {"assign", "update"}
  <2>1. w \notin Changing(u)
    BY <1>5 DEF Changing
  <2>2. w \notin Changing(u)'
    BY <1>1, <1>5, EndedChange
  <2>3. QED BY <1>1, <1>2, <2>1, <2>2, Same
<1>6. QED BY <1>3, <1>4, <1>5

LEMMA Removed ==
    ASSUME TypeInd, TypeInd', NEW r \in rows, DeleteAssignment(r), NEW u \in kept, u \in kept',
           KeptFor(u)
    PROVE  SameFor(u) \/ RemoveFor(u)
<1>1. /\ rows' = rows \ {r} /\ job' = job /\ before' = before
      /\ u \in StillKept(Clash({r.user}))
  BY DEF DeleteAssignment
<1>2. Changing(u)' = Changing(u)
  BY <1>1 DEF Changing
<1>3. Pending(u)' = Pending(u)
  BY <1>1, <1>2 DEF Pending, Open
<1>4. CASE u # r.user
  <2>1. Of(u)' = Of(u)
    BY <1>1, <1>4 DEF Of
  <2>2. QED BY <1>3, <2>1, SeenSame DEF SameFor
<1>5. CASE u = r.user
  <2>1. \A v \in Workers : u \notin Concerned(v)
    BY <1>1, <1>5, Alone
  <2>2. Changing(u) = {}
    BY <2>1, ChangingOf
  <2>3. ~Pending(u).open
    BY <2>2, NotPending DEF NothingAsked
  <2>4. Of(u)' = Of(u) \ {r} /\ r \in Of(u) /\ Clean(Of(u)) /\ r.shift \in Shifts
    BY <1>1, <1>5 DEF Of, KeptFor, TypeInd, RowsOK, Row
  <2>5. Clean(Of(u)')
    BY <2>4 DEF Clean
  <2>6. r.from \in Days /\ r.to \in Days
    BY <2>4 DEF Clean
  <2>7. \A d \in Days : d \in r.from .. r.to <=> Covers(r, d)
    BY <2>6, DaysNat DEF Covers
  <2>8. ASSUME NEW d \in Days, Covers(r, d), NEW q \in Of(u), q # r PROVE ~Covers(q, d)
    <3>1. q.to < r.from \/ r.to < q.from
      BY <2>4, <2>8 DEF Clean
    <3>2. q.from \in Days /\ q.to \in Days
      BY <2>4 DEF Clean
    <3>3. QED BY <2>6, <2>8, <3>1, <3>2, DaysNat DEF Covers
  <2>9. \A d \in r.from .. r.to : d \in Days /\ Seen(u)[d] = r.shift
    <3>1. \A d \in r.from .. r.to : d \in Days
      BY <2>6, DaysOK DEF Days
    <3>2. QED BY <2>4, <2>7, <3>1, SeenNow
  <2>10. ASSUME NEW d \in Days
         PROVE  Seen(u)'[d] = IF d \in r.from .. r.to THEN Off ELSE Seen(u)[d]
    <3>1. CASE Covers(r, d)
      <4>1. \A q \in Of(u)' : ~Covers(q, d)
        BY <2>4, <2>8, <3>1
      <4>2. QED BY <2>5, <2>7, <3>1, <4>1, SeenThen
    <3>2. CASE ~Covers(r, d)
      <4>1. CASE \E q \in Of(u)' : Covers(q, d)
        <5>1. PICK q \in Of(u)' : Covers(q, d)
          BY <4>1
        <5>2. q \in Of(u)
          BY <2>4
        <5>3. Seen(u)'[d] = q.shift
          BY <2>5, <5>1, SeenThen
        <5>4. Seen(u)[d] = q.shift
          BY <2>4, <5>1, <5>2, SeenNow
        <5>5. QED BY <2>7, <3>2, <5>3, <5>4
      <4>2. CASE \A q \in Of(u)' : ~Covers(q, d)
        <5>1. \A q \in Of(u) : ~Covers(q, d)
          BY <2>4, <3>2, <4>2
        <5>2. Seen(u)'[d] = Off
          BY <2>5, <4>2, SeenThen
        <5>3. Seen(u)[d] = Off
          BY <2>4, <5>1, SeenNow
        <5>4. QED BY <2>7, <3>2, <5>2, <5>3
      <4>3. QED BY <4>1, <4>2
    <3>3. QED BY <3>1, <3>2
  <2>11. Seen(u)' = [d \in Days |-> IF d \in r.from .. r.to THEN Off ELSE Seen(u)[d]]
    BY <2>10, SeenIsFunction
  <2>12. QED BY <1>3, <2>3, <2>4, <2>6, <2>9, <2>11 DEF RemoveFor
<1>6. QED BY <1>4, <1>5

LEMMA AssignCommits ==
    ASSUME TypeInd, TypeInd', NEW w \in Workers, InsertAssignments(w),
           NEW u \in kept, u \in kept', KeptFor(u)
    PROVE  SameFor(u) \/ CommitFor(u)
<1>1. job[w].kind = "assign" /\ Ends(w) /\ before' = before /\ job' = [job EXCEPT ![w] = NoJob]
  BY DEF InsertAssignments, Assigning, Ends
<1>2. Concerned(w) = job[w].users
  BY <1>1 DEF Concerned, NoJob
<1>3. CASE u \notin job[w].users
  BY <1>1, <1>2, <1>3, InsertedOf, SameOther
<1>4. CASE u \in job[w].users
  <2>1. /\ job[w] \in Assigns /\ Clean(Of(u)) /\ AssignHolds(job[w], u, Of(u), before[u])
    BY <1>1, <1>4, OwnAssign
  <2>2. job[w].tails = {} /\ {q \in job[w].tails : q.user = u} = {}
    BY DEF InsertAssignments
  <2>3. Of(u) \cup {q \in job[w].tails : q.user = u} = Of(u)
    BY <2>2
  <2>4. Under(Of(u), before[u]) /\ Outside(Of(u), before[u], job[w].win)
    BY <2>1, <2>3 DEF AssignHolds
  <2>5. PICK n : /\ n.from = job[w].win.from /\ n.to = job[w].win.to
                 /\ n.shift = job[w].shift
                 /\ Of(u)' = Of(u) \cup {n}
    BY <1>4, <2>1, InsertedOf DEF AssignHolds
  <2>6. Clean(Of(u)')
    <3>1. KeptFor(u)'
      BY KeptInsert
    <3>2. QED BY <3>1 DEF KeptFor, Clean
  <2>7. job[w].win.from \in Nat /\ job[w].win.to \in Nat
    BY <2>1, DaysNat DEF Assigns, Windows, AnyWindow
  <2>8. \A d \in job[w].win.from .. job[w].win.to : Covers(n, d) /\ n.shift = job[w].shift
    BY <2>5, <2>7 DEF Covers
  <2>9. ASSUME NEW d \in Days, d \notin job[w].win.from .. job[w].win.to
        PROVE  /\ \A r \in Of(u)' : Covers(r, d) => before[u][d] = r.shift
               /\ (\A r \in Of(u)' : ~Covers(r, d)) => before[u][d] = Off
    <3>1. ~Covers(n, d)
      BY <2>5, <2>7, <2>9, DaysNat DEF Covers
    <3>2. QED BY <2>4, <2>5, <2>9, <3>1 DEF Under, Outside
  <2>10. QED BY <1>1, <1>4, <2>5, <2>6, <2>8, <2>9, Committed
<1>5. QED BY <1>3, <1>4

LEMMA UpdateCommits ==
    ASSUME TypeInd, TypeInd', NEW w \in Workers, UpdateAssignment(w),
           NEW u \in kept, u \in kept', KeptFor(u)
    PROVE  SameFor(u) \/ CommitFor(u)
<1>1. job[w].kind = "update" /\ Ends(w) /\ before' = before /\ job' = [job EXCEPT ![w] = NoJob]
  BY DEF UpdateAssignment, Ends
<1>2. Concerned(w) = job[w].users
  BY <1>1 DEF Concerned, NoJob
<1>3. CASE u \notin job[w].users
  BY <1>1, <1>2, <1>3, UpdatedOf, SameOther
<1>4. CASE u \in job[w].users
  <2> DEFINE q == job[w].row
             win == job[w].win
             b == before[u]
  <2>1. Clean(Of(u)) /\ UpdateHolds(job[w], Of(u), b)
    BY <1>1, <1>2, <1>4 DEF KeptFor, Holds
  <2>2. /\ q \in Of(u) /\ q \in rows /\ q \in Row /\ q.from \in Days /\ q.to \in Days
        /\ win \in Windows /\ q.from <= win.from /\ win.to <= q.to
    BY <2>1 DEF UpdateHolds, Of, TypeInd, RowsOK, Clean
  <2>3. Under(Of(u), b) /\ \A d \in Days : (\A r \in Of(u) : ~Covers(r, d)) => b[d] = Off
    BY <2>1 DEF UpdateHolds
  <2>4. PICK n, stamp :
          /\ n.from = win.from /\ n.to = win.to /\ n.shift = job[w].shift
          /\ Of(u)' = (Of(u) \ {q}) \cup {n} \cup Stamped(stamp, OldTails(q, win))
    BY <1>4, <2>2, UpdatedOf
  <2> DEFINE old == Stamped(stamp, OldTails(q, win))
  <2>5. /\ \A y \in old : /\ y.from \in Days /\ y.to \in Days /\ y.from <= y.to
                          /\ y.shift = q.shift
                          /\ \/ y.from = q.from /\ y.to = win.from - 1
                             \/ y.from = win.to + 1 /\ y.to = q.to
        /\ \A d \in Days : Covers(q, d) /\ d \notin win.from .. win.to =>
              \E y \in old : Covers(y, d)
    BY <2>2, TailsWithin
  <2>6. Clean(Of(u)')
    <3>1. KeptFor(u)'
      BY KeptUpdate
    <3>2. QED BY <3>1 DEF KeptFor, Clean
  <2>7. win.from \in Nat /\ win.to \in Nat /\ win.from <= win.to
        /\ q.from \in Nat /\ q.to \in Nat
    BY <2>2, DaysNat DEF Windows, AnyWindow
  <2>8. Of(u)' = (Of(u) \ {q}) \cup {n} \cup old
    BY <2>4
  <2> HIDE DEF q, win, b, old
  <2>9. \A d \in win.from .. win.to : Covers(n, d) /\ n.shift = job[w].shift
    BY <2>4, <2>7 DEF Covers
  <2>10. ASSUME NEW d \in Days, d \notin win.from .. win.to
         PROVE  /\ \A r \in Of(u)' : Covers(r, d) => b[d] = r.shift
                /\ (\A r \in Of(u)' : ~Covers(r, d)) => b[d] = Off
    <3>1. ~Covers(n, d)
      BY <2>4, <2>7, <2>10, DaysNat DEF Covers
    <3>2. ASSUME NEW y \in old, Covers(y, d) PROVE b[d] = y.shift
      <4>1. d \in Nat /\ y.from <= d /\ d <= y.to
        BY <3>2, DaysNat DEF Covers
      <4>2. Covers(q, d)
        BY <2>2, <2>5, <2>7, <4>1 DEF Covers
      <4>3. QED BY <2>2, <2>3, <2>5, <4>2 DEF Under
    <3>3. \A r \in Of(u)' : Covers(r, d) => b[d] = r.shift
      BY <2>3, <2>8, <3>1, <3>2 DEF Under
    <3>4. ASSUME \A r \in Of(u)' : ~Covers(r, d) PROVE b[d] = Off
      <4>1. ~Covers(q, d)
        BY <2>5, <2>8, <2>10, <3>4
      <4>2. \A r \in Of(u) : ~Covers(r, d)
        BY <2>8, <3>4, <4>1
      <4>3. QED BY <2>3, <4>2
    <3>5. QED BY <3>3, <3>4
  <2>11. n \in Of(u)'
    BY <2>8
  <2>12. QED BY <1>1, <1>4, <2>6, <2>9, <2>10, <2>11, Committed DEF win, b
<1>5. QED BY <1>3, <1>4

LEMMA BeginSteps ==
    ASSUME TypeInd, NEW w \in Workers, Begin(w), NEW u \in kept, u \in kept', u \in Users,
           KeptFor(u)
    PROVE  SameFor(u) \/ BeginFor(u)
<1>1. ASSUME job[w] = NoJob PROVE Concerned(w) = {} /\ w \notin Changing(u)
  BY <1>1 DEF Concerned, Changing
<1>2. ASSUME NEW us \in SUBSET Users, NEW again \in SUBSET us, NEW s \in Shifts,
             NEW win \in AnyWindow, BeginAssign(w, us, again, s, win)
      PROVE  SameFor(u) \/ BeginFor(u)
  <2> DEFINE theirs == {r \in rows : r.user \in us}
             j == [kind |-> "assign", users |-> us, again |-> again, shift |-> s, win |-> win,
                   delete |-> Superseded(theirs, win), close |-> Closed(theirs, win),
                   trim   |-> Trimmed(theirs, win),    tails |-> Tails(theirs, win)]
  <2>1. /\ job' = [job EXCEPT ![w] = j] /\ rows' = rows /\ job[w] = NoJob
        /\ before' = [x \in Users |-> IF x \in us THEN Shown(rows, x) ELSE before[x]]
        /\ u \in StillKept(Clash(us) \cup IF win \in Windows THEN again ELSE us)
    BY <1>2 DEF BeginAssign, Begins
  <2>2. j.kind = "assign" /\ j.users = us /\ j.win = win /\ j.shift = s /\ j # NoJob
    BY DEF NoJob
  <2>3. Of(u)' = Of(u)
    BY <2>1, SameRowsOf
  <2> HIDE DEF j
  <2>4. CASE u \notin us
    BY <1>1, <2>1, <2>2, <2>3, <2>4, SameOther
  <2>5. CASE u \in us
    <3>1. \A v \in Workers : u \notin Concerned(v)
      BY <2>1, <2>5, WellAsked
    <3>2. before'[u] = Shown(rows, u) /\ win.from \in Days /\ win.to \in Days
      BY <2>1, <2>5 DEF Windows, AnyWindow
    <3>3. QED BY <2>1, <2>2, <2>3, <2>5, <3>1, <3>2, Begun
  <2>6. QED BY <2>4, <2>5
<1>3. ASSUME NEW r \in rows, NEW s \in Shifts, NEW win \in AnyWindow,
             BeginUpdate(w, r, s, win)
      PROVE  SameFor(u) \/ BeginFor(u)
  <2> DEFINE j == [kind |-> "update", users |-> {r.user}, row |-> r, shift |-> s, win |-> win]
  <2>1. /\ job' = [job EXCEPT ![w] = j] /\ rows' = rows /\ job[w] = NoJob
        /\ before' = [x \in Users |-> IF x \in {r.user} THEN Shown(rows, x) ELSE before[x]]
        /\ u \in StillKept(IF win \in Windows /\ r.from <= win.from /\ win.to <= r.to
                             THEN Clash({r.user}) ELSE {r.user})
    BY <1>3 DEF BeginUpdate, Begins
  <2>2. j.kind = "update" /\ j.users = {r.user} /\ j.win = win /\ j.shift = s /\ j # NoJob
    BY DEF NoJob
  <2>3. Of(u)' = Of(u)
    BY <2>1, SameRowsOf
  <2> HIDE DEF j
  <2>4. CASE u # r.user
    BY <1>1, <2>1, <2>2, <2>3, <2>4, SameOther
  <2>5. CASE u = r.user
    <3>1. win \in Windows /\ r.from <= win.from /\ win.to <= r.to
      BY <2>1, <2>5, StillKeptKept
    <3>2. \A v \in Workers : u \notin Concerned(v)
      BY <2>1, <2>5, <3>1, Alone
    <3>3. before'[u] = Shown(rows, u) /\ win.from \in Days /\ win.to \in Days
      BY <2>1, <2>5 DEF AnyWindow
    <3>4. QED BY <2>1, <2>2, <2>3, <2>5, <3>2, <3>3, Begun
  <2>6. QED BY <2>4, <2>5
<1>4. ASSUME BeginApprove(w) PROVE SameFor(u)
  <2>1. PICK a \in rows, b \in rows :
          /\ Begins(w, {a.user, b.user}, [kind |-> "approve", users |-> {a.user, b.user},
                                          a |-> a, b |-> b])
          /\ kept' = StillKept(IF a.user # b.user /\ {a.user, b.user} \subseteq kept
                                    /\ Clash({a.user, b.user}) = {}
                                 THEN {} ELSE {a.user, b.user})
    BY <1>4 DEF BeginApprove
  <2> DEFINE j == [kind |-> "approve", users |-> {a.user, b.user}, a |-> a, b |-> b]
  <2>2. /\ job' = [job EXCEPT ![w] = j] /\ job[w] = NoJob /\ rows' = rows
        /\ before' = [x \in Users |-> IF x \in {a.user, b.user} THEN Shown(rows, x)
                                      ELSE before[x]]
    BY <1>4, <2>1 DEF Begins, BeginApprove
  <2>3. Of(u)' = Of(u)
    BY <2>2, SameRowsOf
  <2>4. CASE u \notin {a.user, b.user}
    <3>1. u \notin j.users /\ before'[u] = before[u]
      BY <2>2, <2>4
    <3> HIDE DEF j
    <3>2. QED BY <1>1, <2>2, <2>3, <3>1, SameOther
  <2>5. CASE u \in {a.user, b.user}
    <3>1. Clash({a.user, b.user}) = {}
      BY <2>1, <2>5, StillKeptKept
    <3>2. \A v \in Workers : u \notin Concerned(v)
      BY <2>5, <3>1 DEF Clash
    <3>3. Changing(u) = {}
      BY <3>2, ChangingOf
    <3>4. j.kind = "approve"
      OBVIOUS
    <3> HIDE DEF j
    <3>5. Changing(u)' = {}
      <4>1. job'[w] = j /\ \A v \in Workers : v # w => job'[v] = job[v]
        BY <2>2 DEF TypeInd
      <4>2. QED BY <3>3, <3>4, <4>1 DEF Changing
    <3>6. Pending(u)' = Pending(u)
      BY <3>3, <3>5, NotPending, NotPendingThen
    <3>7. QED BY <2>3, <3>6, SeenSame DEF SameFor
  <2>6. QED BY <2>4, <2>5
<1>5. ASSUME BeginReject(w) PROVE SameFor(u)
  <2> DEFINE j == [kind |-> "reject", users |-> {}]
  <2>1. /\ job' = [job EXCEPT ![w] = j] /\ job[w] = NoJob /\ rows' = rows
        /\ before' = [x \in Users |-> before[x]]
    BY <1>5 DEF BeginReject, Begins
  <2>2. u \notin j.users
    OBVIOUS
  <2>3. before'[u] = before[u] /\ Of(u)' = Of(u)
    BY <2>1, SameRowsOf
  <2> HIDE DEF j
  <2>4. QED BY <1>1, <2>1, <2>2, <2>3, SameOther
<1>6. ASSUME NEW x \in Users, NEW s \in Shifts \cup {Off}, EndOpenRows(w, x, s)
      PROVE  SameFor(u)
  <2> DEFINE j == IF s = Off THEN NoJob ELSE [kind |-> "profile", users |-> {x}, shift |-> s]
             g == [r \in rows |-> IF r.user = x /\ r.to = Horizon THEN [r EXCEPT !.to = Today]
                                  ELSE r]
  <2>1. /\ job' = [job EXCEPT ![w] = j] /\ rows' = {g[r] : r \in rows} /\ job[w] = NoJob
        /\ before' = [y \in Users |-> before[y]] /\ u \in StillKept({x})
    BY <1>6 DEF EndOpenRows, Begins
  <2>2. u # x
    BY <2>1, StillKeptKept
  <2>3. Of(u)' = Of(u)
    <3>1. \A r \in rows : g[r].user = r.user
      BY DEF TypeInd, RowsOK, Row
    <3>2. Of(u)' = {g[r] : r \in Of(u)}
      <4>1. DOMAIN g = rows
        OBVIOUS
      <4> HIDE DEF g
      <4>2. QED BY <2>1, <3>1, <4>1, OfImage
    <3>3. \A r \in Of(u) : g[r] = r
      BY <2>2 DEF Of
    <3> HIDE DEF g
    <3>4. QED BY <3>2, <3>3
  <2>4. j = NoJob \/ u \notin j.users
    BY <2>2
  <2>5. before'[u] = before[u]
    BY <2>1
  <2> HIDE DEF j
  <2>6. QED BY <1>1, <2>1, <2>3, <2>4, <2>5, SameOther
<1>7. QED BY <1>2, <1>3, <1>4, <1>5, <1>6 DEF Begin

\* One side of a swap: the days of its row show the other's shift.
LEMMA SwappedSide ==
    ASSUME TypeInd, TypeInd', NEW u \in kept, u \in kept', Clean(Of(u)), NEW q \in Of(u),
           NEW f, f.from = q.from, f.to = q.to, Of(u)' = (Of(u) \ {q}) \cup {f}
    PROVE  /\ q.from \in Days /\ q.to \in Days /\ q.shift \in Shifts
           /\ \A d \in q.from .. q.to : Seen(u)[d] = q.shift
           /\ Seen(u)' = [d \in Days |-> IF d \in q.from .. q.to THEN f.shift ELSE Seen(u)[d]]
<1>1. q.from \in Days /\ q.to \in Days /\ q.shift \in Shifts
  BY DEF Clean, Of, TypeInd, RowsOK, Row
<1>2. Clean(Of(u)')
  BY CleanAlike
<1>3. \A d \in Days : /\ d \in q.from .. q.to <=> Covers(q, d)
                      /\ d \in q.from .. q.to <=> Covers(f, d)
  BY <1>1, DaysNat DEF Covers
<1>4. \A d \in q.from .. q.to : d \in Days
  BY <1>1, DaysOK DEF Days
<1>5. \A d \in q.from .. q.to : Seen(u)[d] = q.shift
  BY <1>3, <1>4, SeenNow
<1>6. ASSUME NEW d \in Days
      PROVE  Seen(u)'[d] = IF d \in q.from .. q.to THEN f.shift ELSE Seen(u)[d]
  <2>1. CASE d \in q.from .. q.to
    BY <1>2, <1>3, <2>1, SeenThen
  <2>2. CASE d \notin q.from .. q.to
    <3>1. ~Covers(q, d) /\ ~Covers(f, d)
      BY <1>3, <2>2
    <3>2. CASE \E r \in Of(u) : Covers(r, d)
      <4>1. PICK r \in Of(u) : Covers(r, d)
        BY <3>2
      <4>2. r \in Of(u)'
        BY <3>1, <4>1
      <4>3. Seen(u)'[d] = r.shift
        BY <1>2, <4>1, <4>2, SeenThen
      <4>4. Seen(u)[d] = r.shift
        BY <4>1, SeenNow
      <4>5. QED BY <2>2, <4>3, <4>4
    <3>3. CASE \A r \in Of(u) : ~Covers(r, d)
      <4>1. \A r \in Of(u)' : ~Covers(r, d)
        BY <3>1, <3>3
      <4>2. Seen(u)'[d] = Off
        BY <1>2, <4>1, SeenThen
      <4>3. Seen(u)[d] = Off
        BY <3>3, SeenNow
      <4>4. QED BY <2>2, <4>2, <4>3
    <3>4. QED BY <3>2, <3>3
  <2>3. QED BY <2>1, <2>2
<1>7. QED BY <1>1, <1>5, <1>6, SeenIsFunction

LEMMA SwapStep ==
    ASSUME Ind, TypeInd', NEW w \in Workers, ApproveSwap(w)
    PROVE  R!Next
<1>1. /\ job[w].kind = "approve" /\ Ends(w) /\ before' = before /\ kept' = kept
      /\ job' = [job EXCEPT ![w] = NoJob]
  BY DEF ApproveSwap, Ends
<1>2. TypeInd /\ kept \subseteq Users /\ \A u \in kept : KeptFor(u)
  BY DEF Ind, TypeInd
<1>3. Concerned(w) = job[w].users
  BY <1>1 DEF Concerned, NoJob
<1>4. \A u \in kept : u \notin job[w].users => SameFor(u)
  BY <1>1, <1>2, <1>3, SwappedOf, SameOther
<1>5. CASE job[w].users \cap kept = {}
  <2>1. \A u \in Users : StepFor(u)
    <3> SUFFICES ASSUME NEW u \in Users PROVE StepFor(u)
      OBVIOUS
    <3>1. CASE u \in kept
      BY <1>1, <1>4, <1>5, <3>1 DEF StepFor
    <3>2. CASE u \notin kept
      BY <1>1, <3>2, Voided
    <3>3. QED BY <3>1, <3>2
  <2>2. QED BY <1>1, <2>1, StepsAreRoster
<1>6. CASE job[w].users \subseteq kept
  <2>1. PICK a, b, u, v, f, g :
          /\ a = job[w].a /\ b = job[w].b /\ u = a.user /\ v = b.user
          /\ f = [a EXCEPT !.shift = b.shift] /\ g = [b EXCEPT !.shift = a.shift]
    OBVIOUS
  <2>2. job[w].users = {u, v} /\ u \in kept /\ v \in kept /\ a \in Row /\ b \in Row
    <3>1. job[w].users = {u, v} /\ job[w] \in Approvals
      BY <1>1, <1>2, <2>1, KindOf DEF TypeInd, Shaped
    <3>2. QED BY <1>6, <2>1, <3>1 DEF Approvals
  <2>3. KeptFor(u) /\ KeptFor(v) /\ u \in Concerned(w) /\ v \in Concerned(w)
    BY <1>2, <1>3, <2>2
  <2>4. u # v /\ a \in Of(u) /\ b \in Of(v) /\ Clean(Of(u)) /\ Clean(Of(v))
    BY <1>1, <2>1, <2>3 DEF KeptFor, Holds
  <2>5. /\ Of(u)' = (Of(u) \ {a}) \cup {f}
        /\ Of(v)' = (Of(v) \ {b}) \cup {g}
    <3>1. job[w].a.user # job[w].b.user
      BY <2>1, <2>4
    <3>2. job[w].a \in Of(u) /\ job[w].b \in Of(v)
      BY <2>1, <2>4
    <3>3. Of(u)' = (Of(u) \ {job[w].a}) \cup {[job[w].a EXCEPT !.shift = job[w].b.shift]}
      BY <1>2, <3>1, <3>2, SwappedOf
    <3>4. Of(v)' = (Of(v) \ {job[w].b}) \cup {[job[w].b EXCEPT !.shift = job[w].a.shift]}
      BY <1>2, <3>1, <3>2, SwappedOf
    <3>5. QED BY <2>1, <3>3, <3>4
  <2>6. /\ f.from = a.from /\ f.to = a.to /\ f.shift = b.shift
        /\ g.from = b.from /\ g.to = b.to /\ g.shift = a.shift
    BY <2>1, <2>2 DEF Row
  <2>7. u \in kept' /\ v \in kept'
    BY <1>1, <2>2
  <2>8. /\ a.from \in Days /\ a.to \in Days /\ a.shift \in Shifts
        /\ \A d \in a.from .. a.to : Seen(u)[d] = a.shift
        /\ Seen(u)' = [d \in Days |-> IF d \in a.from .. a.to THEN f.shift ELSE Seen(u)[d]]
    BY <1>2, <2>2, <2>4, <2>5, <2>6, <2>7, SwappedSide
  <2>9. /\ b.from \in Days /\ b.to \in Days /\ b.shift \in Shifts
        /\ \A d \in b.from .. b.to : Seen(v)[d] = b.shift
        /\ Seen(v)' = [d \in Days |-> IF d \in b.from .. b.to THEN g.shift ELSE Seen(v)[d]]
    BY <1>2, <2>2, <2>4, <2>5, <2>6, <2>7, SwappedSide
  <2>10. \A x \in Users \ {u, v} : Seen(x)' = Seen(x) /\ Pending(x)' = Pending(x)
    <3> SUFFICES ASSUME NEW x \in Users \ {u, v} PROVE SameFor(x)
      BY DEF SameFor
    <3>1. CASE x \in kept
      BY <1>4, <2>2, <3>1
    <3>2. CASE x \notin kept
      BY <1>1, <3>2, NotPending, NotPendingThen DEF SameFor, Seen
    <3>3. QED BY <3>1, <3>2
  <2>11. \A x \in {u, v} : Pending(x)' = Pending(x)
    <3> SUFFICES ASSUME NEW x \in {u, v} PROVE Pending(x)' = Pending(x)
      OBVIOUS
    <3>1. KeptFor(x) /\ x \in Concerned(w)
      BY <2>3
    <3>2. Changing(x) = {}
      BY <1>1, <3>1, OwnChange
    <3>3. Changing(x)' = {}
      BY <1>1, <1>2, <3>1, EndedChange
    <3>4. QED BY <3>2, <3>3, NotPending, NotPendingThen
  <2>12. SwapFor(u, v)
    <3>1. \A x \in Users \ {u, v} : Seen(x)' = Seen(x)
      BY <2>10
    <3>2. \E s, t \in Shifts : \E c, d, h, i \in Days :
            /\ c <= d /\ h <= i
            /\ \A e \in c .. d : Seen(u)[e] = s
            /\ \A e \in h .. i : Seen(v)[e] = t
            /\ Seen(u)' = [e \in Days |-> IF e \in c .. d THEN t ELSE Seen(u)[e]]
            /\ Seen(v)' = [e \in Days |-> IF e \in h .. i THEN s ELSE Seen(v)[e]]
      <4>1. PICK s, t, c, d, h, i :
              /\ s = a.shift /\ t = b.shift
              /\ c = a.from /\ d = a.to /\ h = b.from /\ i = b.to
        OBVIOUS
      <4>2. /\ s \in Shifts /\ t \in Shifts
            /\ c \in Days /\ d \in Days /\ h \in Days /\ i \in Days
            /\ c <= d /\ h <= i
        BY <2>4, <2>8, <2>9, <4>1 DEF Clean
      <4>3. /\ \A e \in c .. d : Seen(u)[e] = s
            /\ \A e \in h .. i : Seen(v)[e] = t
        BY <2>8, <2>9, <4>1
      <4>4. Seen(u)' = [e \in Days |-> IF e \in c .. d THEN t ELSE Seen(u)[e]]
        BY <2>6, <2>8, <4>1
      <4>5. Seen(v)' = [e \in Days |-> IF e \in h .. i THEN s ELSE Seen(v)[e]]
        BY <2>6, <2>9, <4>1
      <4> DEFINE Exchanged(k, l, m, n, x, y) ==
                   /\ m <= n /\ x <= y
                   /\ \A e \in m .. n : Seen(u)[e] = k
                   /\ \A e \in x .. y : Seen(v)[e] = l
                   /\ Seen(u)' = [e \in Days |-> IF e \in m .. n THEN l ELSE Seen(u)[e]]
                   /\ Seen(v)' = [e \in Days |-> IF e \in x .. y THEN k ELSE Seen(v)[e]]
      <4>6. Exchanged(s, t, c, d, h, i)
        BY <4>2, <4>3, <4>4, <4>5
      <4>7. \E k, l \in Shifts : \E m, n, x, y \in Days : Exchanged(k, l, m, n, x, y)
        <5> HIDE DEF Exchanged
        <5>1. QED BY <4>2, <4>6
      <4>8. QED BY <4>7
    <3>3. QED BY <3>1, <3>2 DEF SwapFor
  <2>13. \A x \in Users : Pending(x)' = Pending(x)
    BY <2>10, <2>11
  <2>14. QED BY <1>1, <1>2, <2>2, <2>4, <2>12, <2>13, SwapIsRoster
<1>7. QED BY <1>1, <1>5, <1>6 DEF Ind, Together

\* The last statements and the failures that leave the user's rows alone.
LEMMA QuietEnd ==
    ASSUME TypeInd, NEW w \in Workers, RejectSwap(w) \/ StartToday(w),
           NEW u \in kept, u \in kept', KeptFor(u)
    PROVE  SameFor(u)
<1>1. Ends(w) /\ before' = before /\ job' = [job EXCEPT ![w] = NoJob]
  BY DEF RejectSwap, StartToday, Ends
<1>2. CASE RejectSwap(w)
  <2>1. Shaped(job[w]) /\ job[w] \in Rejections /\ rows' = rows
    BY <1>2, KindOf DEF TypeInd, RejectSwap
  <2>2. u \notin Concerned(w)
    BY <2>1 DEF Concerned, Rejections
  <2>3. QED BY <1>1, <2>1, <2>2, SameRowsOf, SameOther
<1>3. CASE StartToday(w)
  <2>1. u \notin Concerned(w)
    BY <1>3 DEF KeptFor, Holds, StartToday
  <2>2. u \notin job[w].users
    BY <1>3, <2>1 DEF Concerned, StartToday, NoJob
  <2>3. Of(u)' = Of(u)
    BY <1>3, <2>2, StartedOf
  <2>4. QED BY <1>1, <2>1, <2>3, SameOther
<1>4. QED BY <1>2, <1>3

LEMMA RosterStep ==
    ASSUME Ind, TypeInd', Next
    PROVE  R!Next
<1>1. TypeInd /\ kept \subseteq Users /\ \A u \in kept : KeptFor(u)
  BY DEF Ind, TypeInd
<1>2. kept' \subseteq kept
  BY KeptSmaller, StillKeptKept
<1>3. ASSUME NEW w \in Workers, ApproveSwap(w) PROVE R!Next
  BY <1>3, SwapStep
<1>4. ASSUME ~\E w \in Workers : ApproveSwap(w), NEW u \in kept, u \in kept'
      PROVE  StepFor(u)
  <2>1. KeptFor(u) /\ u \in Users
    BY <1>1
  <2>2. ASSUME NEW w \in Workers, Begin(w) PROVE StepFor(u)
    BY <1>1, <1>4, <2>1, <2>2, BeginSteps DEF StepFor
  <2>3. ASSUME NEW w \in Workers, Fail(w) PROVE StepFor(u)
    BY <1>1, <1>4, <2>1, <2>3, GivenUp DEF StepFor
  <2>4. ASSUME NEW w \in Workers, Step(w) PROVE StepFor(u)
    <3>1. CASE DeleteSuperseded(w) \/ CloseOne(w) \/ TrimOne(w) \/ InsertTails(w)
      <4>1. job[w].kind = "assign"
        BY <3>1 DEF DeleteSuperseded, CloseOne, TrimOne, InsertTails, Assigning
      <4>2. GoesOn(w, u)
        BY <1>1, <2>1, <3>1, DeleteGoesOn, CloseGoesOn, TrimGoesOn, TailsGoOn
      <4>3. QED BY <1>1, <1>4, <2>1, <4>1, <4>2, Thinned DEF StepFor
    <3>2. CASE InsertAssignments(w)
      BY <1>1, <1>4, <2>1, <3>2, AssignCommits DEF StepFor
    <3>3. CASE UpdateAssignment(w)
      BY <1>1, <1>4, <2>1, <3>3, UpdateCommits DEF StepFor
    <3>4. CASE RejectSwap(w) \/ StartToday(w)
      BY <1>1, <1>4, <2>1, <3>4, QuietEnd DEF StepFor
    <3>5. QED BY <1>4, <2>4, <3>1, <3>2, <3>3, <3>4 DEF Step
  <2>5. ASSUME NEW r \in rows, DeleteAssignment(r) PROVE StepFor(u)
    BY <1>1, <1>4, <2>1, <2>5, Removed DEF StepFor
  <2>6. ASSUME NEW a \in rows, NEW b \in rows, CreateSwap(a, b) PROVE StepFor(u)
    <3>1. UNCHANGED <<rows, job, before, kept>>
      BY <2>6 DEF CreateSwap
    <3>2. SameFor(u)
      BY <3>1 DEF SameFor, Seen, Pending, Open, Changing
    <3>3. QED BY <1>4, <3>2 DEF StepFor
  <2>7. QED BY <2>2, <2>3, <2>4, <2>5, <2>6 DEF Next
<1>5. ASSUME ~\E w \in Workers : ApproveSwap(w) PROVE R!Next
  <2>1. \A u \in Users : StepFor(u)
    <3> SUFFICES ASSUME NEW u \in Users PROVE StepFor(u)
      OBVIOUS
    <3>1. CASE u \in kept'
      BY <1>2, <1>4, <1>5, <3>1
    <3>2. QED BY <3>1, Voided
  <2>2. QED BY <1>2, <2>1, StepsAreRoster
<1>6. QED BY <1>3, <1>5

LEMMA RosterInit == ASSUME Init, Ind PROVE R!Init
<1> DEFINE roster == [u \in Users |-> Seen(u)]
           pending == [u \in Users |-> Pending(u)]
<1>1. kept = Users /\ \A w \in Workers : job[w] = NoJob
  BY DEF Init
<1>2. ASSUME NEW u \in Users PROVE Pending(u) = NothingAsked
  <2>1. Changing(u) = {}
    BY <1>1 DEF Changing
  <2>2. QED BY <2>1, NotPending
<1>3. ASSUME NEW u \in Users PROVE Seen(u) \in [Days -> Shifts \cup {Off}]
  <2>1. u \in kept /\ TypeInd /\ Clean(Of(u))
    BY <1>1 DEF Ind, KeptFor
  <2>2. \A r \in Of(u) : r.shift \in Shifts
    BY <2>1 DEF Of, TypeInd, RowsOK, Row
  <2>3. \A d \in Days : Seen(u)[d] \in Shifts \cup {Off}
    BY <2>1, <2>2, SeenNow
  <2>4. QED BY <2>3, SeenIsFunction
<1>4. roster \in [Users -> R!Shown]
  BY <1>3 DEF R!Shown, R!Days, Days
<1>5. pending = [u \in Users |-> R!Nothing]
  BY <1>2 DEF NothingAsked, R!Nothing, R!Blank, Blank, R!Days, Days
<1>6. QED BY <1>1, <1>4, <1>5 DEF R!Init

\* Every change shows exactly where it was asked for, or blanks days of the users
\* it is about when it fails half way, and touches nobody else.
THEOREM ShiftsImplementRoster == Spec => ImplementsRoster
<1>1. Init => R!Init
  BY RosterInit, InitInd
<1>2. Ind /\ [Next]_vars => [R!Next]_(R!vars)
  <2> SUFFICES ASSUME Ind, [Next]_vars PROVE [R!Next]_(R!vars)
    OBVIOUS
  <2>1. CASE Next
    <3>1. TypeInd'
      BY <2>1, TypeStep DEF Ind
    <3>2. QED BY <2>1, <3>1, RosterStep
  <2>2. CASE UNCHANGED vars
    BY <2>2 DEF vars, R!vars, Seen, Pending, Open, Changing
  <2>3. QED BY <2>1, <2>2
<1>3. QED BY <1>1, <1>2, Invariance, PTL DEF Spec, ImplementsRoster, R!Spec
=============================================================================
