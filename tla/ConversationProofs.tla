------------------------- MODULE ConversationProofs -------------------------
(***************************************************************************)
(* Proofs about Conversation, for every set of users and workers and every *)
(* bound.  The heart of them is OnlyNoticesOvertake: while a send is open  *)
(* it holds the conversation's row, so what is committed behind its back   *)
(* with a higher id can only be a system message.                          *)
(***************************************************************************)
EXTENDS Conversation, TLAPS

Msg == [from : Users, system : BOOLEAN, state : States]

\* What each kind of request in flight relies on.
JobOK(j) ==
    /\ j.kind \in {"idle", "commit", "read", "delivered", "join", "post",
                   "posted", "drop"}
    /\ j.kind = "commit" => j.user \in Users /\ j.id \in Open
                              /\ ~log[j.id].system
    /\ j.kind \in {"read", "delivered"} =>
         /\ j.user \in Users
         /\ j.id \in Nat /\ \E m \in Committed : j.id <= m
    /\ j.kind = "join" =>
         /\ j.latest \in Committed \cup {0}
         /\ \A m \in j.seen : m \in Nat /\ m <= j.latest
    /\ j.kind = "post" => j.user \in Users
    /\ j.kind = "posted" => j.id \in Committed

JobsOK ==
    /\ job = [w \in Workers |-> job[w]]
    /\ \A w \in Workers : JobOK(job[w])
    /\ \A w, x \in Workers :
          job[w].kind = "commit" /\ job[x].kind = "commit" /\ job[w].id = job[x].id
            => w = x

OnlyNoticesOvertake ==
    \A m \in Open, n \in Committed : n > m => log[n].system

IInv == TypeOK /\ JobsOK /\ LastMessageIsThere /\ MarkersBehindLog
          /\ OnlyNoticesOvertake

-----------------------------------------------------------------------------
\* An INSERT leaves every message there was as it was.
LEMMA Inserted ==
    ASSUME log \in Seq(Msg), NEW msg \in Msg, InsertMessage(msg)
    PROVE  /\ log' \in Seq(Msg)
           /\ DOMAIN log' = DOMAIN log \cup {Len(log) + 1}
           /\ \A m \in DOMAIN log : log'[m] = log[m] /\ m <= Len(log) /\ m \in Nat
           /\ log'[Len(log) + 1] = msg
           /\ Len(log) + 1 \notin DOMAIN log /\ Len(log) \in Nat
    BY DEF InsertMessage

\* A change of state touches one message, and nothing else of it.
LEMMA Restated ==
    ASSUME log \in Seq(Msg), NEW k \in DOMAIN log, NEW s \in States,
           log' = [log EXCEPT ![k].state = s]
    PROVE  /\ log' \in Seq(Msg)
           /\ DOMAIN log' = DOMAIN log
           /\ \A m \in DOMAIN log \ {k} : log'[m] = log[m]
           /\ log'[k].state = s
           /\ log'[k].from = log[k].from /\ log'[k].system = log[k].system
    <1>1. DOMAIN log' = DOMAIN log
      OBVIOUS
    <1>2. log[k] \in Msg /\ log'[k] = [log[k] EXCEPT !.state = s]
      OBVIOUS
    <1>3. \A m \in DOMAIN log \ {k} : log'[m] = log[m]
      OBVIOUS
    <1>4. \A m \in DOMAIN log : log'[m] \in Msg
      <2>1. [log[k] EXCEPT !.state = s] \in Msg
        BY <1>2 DEF Msg
      <2>2. \A m \in DOMAIN log \ {k} : log[m] \in Msg
        OBVIOUS
      <2> QED BY <2>1, <2>2, <1>2, <1>3
    <1>5. log' \in Seq(Msg)
      BY <1>1, <1>4
    <1> QED BY <1>1, <1>2, <1>3, <1>5 DEF Msg

\* Ids are numbers.
LEMMA Ids ==
    ASSUME log \in Seq(Msg)
    PROVE  /\ Committed \subseteq Nat /\ Open \subseteq Nat
           /\ Committed \cap Open = {}
    BY DEF Committed, Open

LEMMA OpeningKeeps ==
    ASSUME TypeOK, OnlyNoticesOvertake, NEW u \in Users,
           InsertMessage(Message(u, FALSE, "open"))
    PROVE  /\ log' \in Seq(Msg)
           /\ Committed' = Committed /\ Open' = Open \cup {Len(log) + 1}
           /\ \A m \in DOMAIN log : log'[m] = log[m]
           /\ ~log'[Len(log) + 1].system
           /\ Len(log) + 1 \notin DOMAIN log
           /\ OnlyNoticesOvertake'
    <1>1. log \in Seq(Msg) /\ Message(u, FALSE, "open") \in Msg
      BY DEF TypeOK, Msg, Message, States
    <1>2. /\ log' \in Seq(Msg)
          /\ DOMAIN log' = DOMAIN log \cup {Len(log) + 1}
          /\ \A m \in DOMAIN log : log'[m] = log[m] /\ m <= Len(log) /\ m \in Nat
          /\ log'[Len(log) + 1] = Message(u, FALSE, "open")
          /\ Len(log) + 1 \notin DOMAIN log /\ Len(log) \in Nat
      BY <1>1, Inserted
    <1>3. Committed' = Committed /\ Open' = Open \cup {Len(log) + 1}
      BY <1>2 DEF Committed, Open, Message
    <1>4. OnlyNoticesOvertake'
      <2> SUFFICES ASSUME NEW m \in Open', NEW n \in Committed', n > m
                   PROVE  log'[n].system
        BY DEF OnlyNoticesOvertake
      <2>1. n \in Committed /\ n \in DOMAIN log /\ n <= Len(log) /\ n \in Nat
        BY <1>2, <1>3 DEF Committed
      <2>2. m \in Open
        BY <1>2, <1>3, <2>1
      <2> QED BY <1>2, <2>1, <2>2 DEF OnlyNoticesOvertake
    <1> QED BY <1>2, <1>3, <1>4 DEF Message

LEMMA PostingKeeps ==
    ASSUME TypeOK, OnlyNoticesOvertake, NEW u \in Users,
           InsertMessage(Message(u, TRUE, "sent"))
    PROVE  /\ log' \in Seq(Msg)
           /\ Committed' = Committed \cup {Len(log) + 1} /\ Open' = Open
           /\ \A m \in DOMAIN log : log'[m] = log[m]
           /\ OnlyNoticesOvertake'
    <1>1. log \in Seq(Msg) /\ Message(u, TRUE, "sent") \in Msg
      BY DEF TypeOK, Msg, Message, States
    <1>2. /\ log' \in Seq(Msg)
          /\ DOMAIN log' = DOMAIN log \cup {Len(log) + 1}
          /\ \A m \in DOMAIN log : log'[m] = log[m] /\ m <= Len(log) /\ m \in Nat
          /\ log'[Len(log) + 1] = Message(u, TRUE, "sent")
          /\ Len(log) + 1 \notin DOMAIN log /\ Len(log) \in Nat
      BY <1>1, Inserted
    <1>3. Committed' = Committed \cup {Len(log) + 1} /\ Open' = Open
      BY <1>2 DEF Committed, Open, Message
    <1>4. OnlyNoticesOvertake'
      <2> SUFFICES ASSUME NEW m \in Open', NEW n \in Committed', n > m
                   PROVE  log'[n].system
        BY DEF OnlyNoticesOvertake
      <2>1. CASE n = Len(log) + 1
        BY <1>2, <2>1 DEF Message
      <2>2. CASE n \in Committed
        BY <1>2, <1>3, <2>2 DEF OnlyNoticesOvertake, Committed
      <2> QED BY <1>3, <2>1, <2>2
    <1> QED BY <1>2, <1>3, <1>4

\* A commit is alone on the conversation's row, so nothing it overtakes is open.
LEMMA CommittingKeeps ==
    ASSUME TypeOK, OnlyNoticesOvertake, NEW k \in Open, RowIsFree(k),
           log' = [log EXCEPT ![k].state = "sent"]
    PROVE  /\ log' \in Seq(Msg)
           /\ Committed' = Committed \cup {k} /\ Open' = {}
           /\ OnlyNoticesOvertake'
    <1>1. log \in Seq(Msg) /\ k \in DOMAIN log /\ "sent" \in States
      BY DEF TypeOK, Msg, Open, States
    <1>2. /\ log' \in Seq(Msg)
          /\ DOMAIN log' = DOMAIN log
          /\ \A m \in DOMAIN log \ {k} : log'[m] = log[m]
          /\ log'[k].state = "sent"
      BY <1>1, Restated
    <1>3. Committed' = Committed \cup {k}
      BY <1>1, <1>2 DEF Committed
    <1>4. Open' = Open \ {k}
      BY <1>1, <1>2 DEF Open
    <1>5. Open' = {}
      BY <1>4 DEF RowIsFree
    <1> QED BY <1>2, <1>3, <1>5 DEF OnlyNoticesOvertake

LEMMA DeletingKeeps ==
    ASSUME TypeOK, OnlyNoticesOvertake, NEW k \in Committed,
           log' = [log EXCEPT ![k].state = "deleted"]
    PROVE  /\ log' \in Seq(Msg)
           /\ Committed' = Committed /\ Open' = Open
           /\ \A m \in DOMAIN log : log'[m].system = log[m].system
           /\ OnlyNoticesOvertake'
    <1>1. log \in Seq(Msg) /\ k \in DOMAIN log /\ "deleted" \in States
      BY DEF TypeOK, Msg, Committed, States
    <1>2. /\ log' \in Seq(Msg)
          /\ DOMAIN log' = DOMAIN log
          /\ \A m \in DOMAIN log \ {k} : log'[m] = log[m]
          /\ log'[k].state = "deleted" /\ log'[k].system = log[k].system
      BY <1>1, Restated
    <1>3. Committed' = Committed
      BY <1>1, <1>2 DEF Committed
    <1>4. Open' = Open
      BY <1>1, <1>2 DEF Open, Committed
    <1> QED BY <1>2, <1>3, <1>4 DEF OnlyNoticesOvertake, Committed

LEMMA LosingKeeps ==
    ASSUME TypeOK, OnlyNoticesOvertake, NEW k \in Open,
           log' = [log EXCEPT ![k].state = "lost"]
    PROVE  /\ log' \in Seq(Msg)
           /\ Committed' = Committed /\ Open' = Open \ {k}
           /\ \A m \in DOMAIN log : log'[m].system = log[m].system
           /\ OnlyNoticesOvertake'
    <1>1. log \in Seq(Msg) /\ k \in DOMAIN log /\ "lost" \in States
      BY DEF TypeOK, Msg, Open, States
    <1>2. /\ log' \in Seq(Msg)
          /\ DOMAIN log' = DOMAIN log
          /\ \A m \in DOMAIN log \ {k} : log'[m] = log[m]
          /\ log'[k].state = "lost" /\ log'[k].system = log[k].system
      BY <1>1, Restated
    <1>3. Committed' = Committed
      BY <1>1, <1>2 DEF Open, Committed
    <1>4. Open' = Open \ {k}
      BY <1>1, <1>2 DEF Open
    <1> QED BY <1>2, <1>3, <1>4 DEF OnlyNoticesOvertake, Committed

-----------------------------------------------------------------------------
\* A request that does nothing still relies on messages that are there, and on
\* an open one of its own.
LEMMA StaysOK ==
    ASSUME NEW x \in Workers, JobOK(job[x]), job'[x] = job[x],
           Committed \subseteq Committed',
           job[x].kind = "commit" =>
              job[x].id \in Open' /\ ~log'[job[x].id].system
    PROVE  JobOK(job[x])'
    BY DEF JobOK

-----------------------------------------------------------------------------
LEMMA InitIInv == Init => IInv
    <1> SUFFICES ASSUME Init PROVE IInv
      OBVIOUS
    <1>1. log \in Seq(Msg) /\ Len(log) \in {0, 1} /\ DOMAIN log = 1 .. Len(log)
          /\ \A m \in DOMAIN log : log[m].state = "sent"
      <2>1. CASE log = <<>>
        BY <2>1
      <2>2. CASE log = <<Message(Creator, TRUE, "sent")>>
        <3>1. Message(Creator, TRUE, "sent") \in Msg
              /\ Message(Creator, TRUE, "sent").state = "sent"
          BY UsersOK DEF Message, Msg, States
        <3> DEFINE msg == Message(Creator, TRUE, "sent")
        <3> HIDE DEF msg
        <3>2. log = <<msg>> /\ msg \in Msg /\ msg.state = "sent"
          BY <2>2, <3>1 DEF msg
        <3>3. Len(log) = 1 /\ log \in Seq(Msg)
          BY <3>2
        <3>4. DOMAIN log = 1 .. 1 /\ log[1] = msg
          BY <3>2
        <3> QED BY <3>2, <3>3, <3>4
      <2> QED BY <2>1, <2>2 DEF Init
    <1>2. Open = {} /\ Committed = DOMAIN log
      BY <1>1 DEF Open, Committed
    <1>3. TypeOK
      <2>1. /\ row \in [Users -> {"none", "left", "in"}]
            /\ read \in [Users -> Nat] /\ delivered \in [Users -> Nat]
        BY DEF Init
      <2>2. top \in Nat
        <3>1. top \in {0, Len(log)}
          BY DEF Init
        <3>2. Len(log) \in {0, 1}
          BY <1>1
        <3> QED BY <3>1, <3>2
      <2> QED BY <1>1, <2>1, <2>2 DEF TypeOK, Msg
    <1>4. JobsOK
      BY DEF Init, JobsOK, JobOK, NoJob
    <1>5. LastMessageIsThere
      <2>1. top \in {0, Len(log)}
        BY DEF Init
      <2>2. CASE top = 0
        BY <2>2 DEF LastMessageIsThere
      <2>3. CASE top = Len(log) /\ top = 1
        BY <1>1, <1>2, <2>3 DEF LastMessageIsThere
      <2> QED BY <1>1, <2>1, <2>2, <2>3
    <1>6. MarkersBehindLog
      BY DEF Init, MarkersBehindLog
    <1>7. OnlyNoticesOvertake
      BY <1>2 DEF OnlyNoticesOvertake
    <1> QED BY <1>3, <1>4, <1>5, <1>6, <1>7 DEF IInv

\* A step that leaves the messages as they are.
LEMMA SameLog ==
    ASSUME IInv, UNCHANGED log
    PROVE  /\ Committed' = Committed /\ Open' = Open
           /\ OnlyNoticesOvertake' /\ log' \in Seq(Msg)
    BY DEF IInv, TypeOK, Msg, Committed, Open, OnlyNoticesOvertake

\* The request of w alone goes on, and no message it relies on is lost.
LEMMA GoesOn ==
    ASSUME JobsOK, NEW w \in Workers, job' = [job EXCEPT ![w] = job'[w]],
           JobOK(job[w])', Committed \subseteq Committed',
           \A x \in Workers \ {w} : job[x].kind = "commit" =>
              /\ job[x].id \in Open' /\ ~log'[job[x].id].system
              /\ job'[w].kind = "commit" => job'[w].id # job[x].id
    PROVE  JobsOK'
    <1>1. /\ job' = [x \in Workers |-> job'[x]]
          /\ \A x \in Workers \ {w} : job'[x] = job[x]
      BY DEF JobsOK
    <1>2. ASSUME NEW x \in Workers PROVE JobOK(job[x])'
      <2>1. CASE x = w
        BY <2>1
      <2>2. CASE x # w
        BY <1>1, <2>2, StaysOK DEF JobsOK
      <2> QED BY <2>1, <2>2
    <1>3. ASSUME NEW x \in Workers, NEW y \in Workers, x # y,
                 job'[x].kind = "commit", job'[y].kind = "commit"
          PROVE  job'[x].id # job'[y].id
      BY <1>1, <1>3 DEF JobsOK
    <1> HIDE DEF JobOK
    <1> QED BY <1>1, <1>2, <1>3 DEF JobsOK

\* ... and leaves the messages as they are.
LEMMA GoesOnAlone ==
    ASSUME IInv, NEW w \in Workers, UNCHANGED log,
           job' = [job EXCEPT ![w] = job'[w]],
           JobOK(job[w])', job'[w].kind # "commit"
    PROVE  JobsOK'
    <1>1. Committed' = Committed /\ Open' = Open
      BY SameLog
    <1>2. JobsOK
      BY DEF IInv
    <1>3. \A x \in Workers \ {w} : job[x].kind = "commit" =>
              /\ job[x].id \in Open' /\ ~log'[job[x].id].system
              /\ job'[w].kind = "commit" => job'[w].id # job[x].id
      BY <1>1, <1>2 DEF JobsOK, JobOK
    <1> QED BY <1>1, <1>2, <1>3, GoesOn

\* What an assignment to the job of w leaves in it.
LEMMA Assigned ==
    ASSUME JobsOK, NEW w \in Workers, NEW j, job' = [job EXCEPT ![w] = j]
    PROVE  job'[w] = j /\ job' = [job EXCEPT ![w] = job'[w]]
    BY DEF JobsOK

LEMMA OpenSendKeeps ==
    ASSUME IInv, NEW w \in Workers, NEW u \in Users, OpenSend(w, u)
    PROVE  IInv'
    <1> DEFINE n == Len(log) + 1
    <1>0. TypeOK /\ OnlyNoticesOvertake /\ JobsOK
      BY DEF IInv
    <1>1. /\ log' \in Seq(Msg)
          /\ Committed' = Committed /\ Open' = Open \cup {n}
          /\ \A m \in DOMAIN log : log'[m] = log[m]
          /\ ~log'[n].system /\ n \notin DOMAIN log
          /\ OnlyNoticesOvertake'
      BY <1>0, OpeningKeeps DEF OpenSend
    <1>2. job' = [job EXCEPT ![w] = [kind |-> "commit", user |-> u, id |-> n]]
      BY DEF OpenSend, Begins
    <1> HIDE DEF n
    <1>3. /\ job'[w] = [kind |-> "commit", user |-> u, id |-> n]
          /\ job' = [job EXCEPT ![w] = job'[w]]
      BY <1>0, <1>2, Assigned
    <1>4. JobOK(job[w])'
      BY <1>1, <1>3 DEF JobOK
    <1>5. \A x \in Workers \ {w} : job[x].kind = "commit" =>
              job[x].id \in Open /\ job[x].id \in DOMAIN log
                /\ ~log[job[x].id].system
      BY <1>0 DEF JobsOK, JobOK, Open
    <1>6. JobsOK'
      <2>1. \A x \in Workers \ {w} : job[x].kind = "commit" =>
              /\ job[x].id \in Open' /\ ~log'[job[x].id].system
              /\ job'[w].kind = "commit" => job'[w].id # job[x].id
        BY <1>1, <1>3, <1>5
      <2>2. Committed \subseteq Committed'
        BY <1>1
      <2> QED BY <1>0, <1>3, <1>4, <2>1, <2>2, GoesOn
    <1>7. TypeOK'
      BY <1>0, <1>1 DEF TypeOK, OpenSend, Msg
    <1>8. LastMessageIsThere' /\ MarkersBehindLog'
      BY <1>1 DEF IInv, LastMessageIsThere, MarkersBehindLog, OpenSend
    <1> QED BY <1>1, <1>6, <1>7, <1>8 DEF IInv

LEMMA CommitSendKeeps ==
    ASSUME IInv, NEW w \in Workers, CommitSend(w)
    PROVE  IInv'
    <1> DEFINE k == job[w].id
               u == job[w].user
    <1>0. TypeOK /\ OnlyNoticesOvertake /\ JobsOK
      BY DEF IInv
    <1>1. u \in Users /\ k \in Open /\ k \in Nat
      BY <1>0, Ids DEF JobsOK, JobOK, CommitSend, TypeOK, Msg
    <1>2. /\ log' \in Seq(Msg)
          /\ Committed' = Committed \cup {k} /\ Open' = {}
          /\ OnlyNoticesOvertake'
      BY <1>0, <1>1, CommittingKeeps DEF CommitSend
    <1>3. /\ job'[w] = NoJob
          /\ job' = [job EXCEPT ![w] = job'[w]]
      BY <1>0, Assigned DEF CommitSend, Ends
    <1>4. JobOK(job[w])'
      BY <1>3 DEF JobOK, NoJob
    <1>5. \A x \in Workers \ {w} : job[x].kind # "commit"
      BY <1>0 DEF JobsOK, JobOK, CommitSend, RowIsFree
    <1>6. JobsOK'
      BY <1>0, <1>2, <1>3, <1>4, <1>5, GoesOn
    <1>7. TypeOK'
      BY <1>0, <1>1, <1>2 DEF TypeOK, CommitSend, Msg
    <1>8. LastMessageIsThere'
      BY <1>2 DEF LastMessageIsThere, CommitSend
    <1>9. MarkersBehindLog'
      <2>1. \A v \in Users : /\ read'[v] = (IF v = u THEN k ELSE read[v])
                              /\ delivered'[v] = (IF v = u THEN k ELSE delivered[v])
        BY <1>0 DEF CommitSend, TypeOK
      <2>2. MarkersBehindLog
        BY DEF IInv
      <2>3. k \in Committed' /\ k <= k
        BY <1>1, <1>2
      <2> HIDE DEF k, u
      <2> QED BY <1>2, <2>1, <2>2, <2>3 DEF MarkersBehindLog
    <1> QED BY <1>2, <1>6, <1>7, <1>8, <1>9 DEF IInv

LEMMA DeleteMessageKeeps ==
    ASSUME IInv, NEW u \in Users, NEW k \in Nat, DeleteMessage(u, k)
    PROVE  IInv'
    <1>0. TypeOK /\ OnlyNoticesOvertake /\ JobsOK
      BY DEF IInv
    <1>1. /\ log' \in Seq(Msg)
          /\ Committed' = Committed /\ Open' = Open
          /\ \A m \in DOMAIN log : log'[m].system = log[m].system
          /\ OnlyNoticesOvertake'
      BY <1>0, DeletingKeeps DEF DeleteMessage
    <1>2. JobsOK'
      <2>1. \A x \in Workers : job[x].kind = "commit" =>
              /\ job[x].id \in Open' /\ ~log'[job[x].id].system
        BY <1>0, <1>1 DEF JobsOK, JobOK, Open
      <2>2. UNCHANGED job
        BY DEF DeleteMessage
      <2>3. \A x \in Workers : JobOK(job[x])'
        BY <1>0, <1>1, <2>1, <2>2, StaysOK DEF JobsOK
      <2> QED BY <1>0, <2>2, <2>3 DEF JobsOK
    <1>3. TypeOK'
      BY <1>0, <1>1 DEF TypeOK, DeleteMessage, Msg
    <1>4. LastMessageIsThere' /\ MarkersBehindLog'
      BY <1>1 DEF IInv, LastMessageIsThere, MarkersBehindLog, DeleteMessage
    <1> QED BY <1>1, <1>2, <1>3, <1>4 DEF IInv

\* The steps that leave messages and rows of the conversation as they are need
\* only say what becomes of their request and of the markers.
LEMMA QuietKeeps ==
    ASSUME IInv, NEW w \in Workers, UNCHANGED <<log, top>>,
           job' = [job EXCEPT ![w] = job'[w]],
           JobOK(job[w])', job'[w].kind # "commit",
           row' \in [Users -> {"none", "left", "in"}],
           read' \in [Users -> Nat], delivered' \in [Users -> Nat],
           MarkersBehindLog'
    PROVE  IInv'
    <1>1. /\ Committed' = Committed /\ Open' = Open
          /\ OnlyNoticesOvertake' /\ log' \in Seq(Msg)
      BY SameLog
    <1>2. JobsOK'
      BY GoesOnAlone
    <1>3. TypeOK'
      BY <1>1 DEF IInv, TypeOK, Msg
    <1>4. LastMessageIsThere'
      BY <1>1 DEF IInv, LastMessageIsThere
    <1> QED BY <1>1, <1>2, <1>3, <1>4 DEF IInv

LEMMA MarkersStay ==
    ASSUME IInv, UNCHANGED <<log, read, delivered>>
    PROVE  /\ MarkersBehindLog'
           /\ read' \in [Users -> Nat] /\ delivered' \in [Users -> Nat]
    BY SameLog DEF IInv, MarkersBehindLog, TypeOK

LEMMA IdleOK == JobOK(NoJob)'
    BY DEF JobOK, NoJob

LEMMA BeginMarkKeeps ==
    ASSUME IInv, NEW w \in Workers, NEW u \in Users, NEW id \in Nat,
           NEW marker \in {"read", "delivered"}, BeginMark(w, u, marker, id)
    PROVE  IInv'
    <1>0. TypeOK /\ JobsOK /\ Committed \subseteq Nat
      BY Ids DEF IInv, TypeOK, Msg
    <1>1. PICK n \in Committed \cup {0} :
             /\ IsLatest(n)
             /\ Begins(w, IF Clamped(id, n) = 0 THEN NoJob
                          ELSE [kind |-> marker, user |-> u,
                                id |-> Clamped(id, n)])
      BY DEF BeginMark
    <1>2. n \in Nat /\ Clamped(id, n) \in Nat /\ Clamped(id, n) <= n
      BY <1>0, <1>1 DEF Clamped
    <1>3. UNCHANGED <<log, top, row, read, delivered>>
      BY DEF BeginMark
    <1>4. job' = [job EXCEPT ![w] = job'[w]] /\ JobOK(job[w])'
          /\ job'[w].kind # "commit"
      <2>1. CASE Clamped(id, n) = 0
        <3>1. job'[w] = NoJob /\ job' = [job EXCEPT ![w] = job'[w]]
          BY <1>0, <1>1, <2>1, Assigned DEF Begins
        <3> QED BY <3>1, IdleOK DEF NoJob, JobOK
      <2>2. CASE Clamped(id, n) # 0
        <3> DEFINE j == [kind |-> marker, user |-> u, id |-> Clamped(id, n)]
        <3>1. job' = [job EXCEPT ![w] = j]
          BY <1>1, <2>2 DEF Begins
        <3>2. job'[w] = j /\ job' = [job EXCEPT ![w] = job'[w]]
          BY <1>0, <3>1, Assigned
        <3>3. n \in Committed
          BY <1>1, <1>2, <2>2
        <3>4. n \in Committed'
          BY <1>3, <3>3, SameLog
        <3> QED BY <1>2, <3>2, <3>4 DEF JobOK
      <2> QED BY <2>1, <2>2
    <1>5. row' \in [Users -> {"none", "left", "in"}]
      BY <1>0, <1>3 DEF TypeOK
    <1> QED BY <1>3, <1>4, <1>5, MarkersStay, QuietKeeps

LEMMA MoveReadKeeps ==
    ASSUME IInv, NEW w \in Workers, MoveRead(w)
    PROVE  IInv'
    <1> DEFINE u == job[w].user
               id == job[w].id
    <1>0. TypeOK /\ JobsOK /\ MarkersBehindLog
      BY DEF IInv
    <1>1. /\ u \in Users /\ id \in Nat /\ \E m \in Committed : id <= m
          /\ job[w].kind = "read"
      BY <1>0 DEF MoveRead, JobsOK, JobOK
    <1>2. UNCHANGED <<log, top, row, delivered>>
      BY DEF MoveRead
    <1> DEFINE j == [kind |-> "delivered", user |-> u, id |-> id]
    <1>3. job' = [job EXCEPT ![w] = j]
      BY DEF MoveRead, Goes
    <1>4. job'[w] = j /\ job' = [job EXCEPT ![w] = job'[w]]
      BY <1>0, <1>3, Assigned
    <1>5. JobOK(job[w])' /\ job'[w].kind # "commit"
      BY <1>1, <1>2, <1>4, SameLog DEF JobOK
    <1>6. /\ read' \in [Users -> Nat]
          /\ \A v \in Users : read'[v] \in {read[v], id}
      BY <1>0, <1>1 DEF MoveRead, TypeOK, Raised
    <1>7. row' \in [Users -> {"none", "left", "in"}]
          /\ delivered' \in [Users -> Nat]
      BY <1>0, <1>2 DEF TypeOK
    <1>8. MarkersBehindLog'
      BY <1>0, <1>1, <1>2, <1>6, SameLog DEF MarkersBehindLog
    <1> QED BY <1>2, <1>4, <1>5, <1>6, <1>7, <1>8, QuietKeeps

LEMMA MoveDeliveredKeeps ==
    ASSUME IInv, NEW w \in Workers, MoveDelivered(w)
    PROVE  IInv'
    <1> DEFINE u == job[w].user
               id == job[w].id
    <1>0. TypeOK /\ JobsOK /\ MarkersBehindLog
      BY DEF IInv
    <1>1. u \in Users /\ id \in Nat /\ \E m \in Committed : id <= m
      BY <1>0 DEF MoveDelivered, JobsOK, JobOK
    <1>2. UNCHANGED <<log, top, row, read>>
      BY DEF MoveDelivered
    <1>4. job'[w] = NoJob /\ job' = [job EXCEPT ![w] = job'[w]]
      BY <1>0, Assigned DEF MoveDelivered, Ends
    <1>5. JobOK(job[w])' /\ job'[w].kind # "commit"
      BY <1>4 DEF JobOK, NoJob
    <1>6. /\ delivered' \in [Users -> Nat]
          /\ \A v \in Users : delivered'[v] \in {delivered[v], id}
      BY <1>0, <1>1 DEF MoveDelivered, TypeOK, Raised
    <1>7. row' \in [Users -> {"none", "left", "in"}] /\ read' \in [Users -> Nat]
      BY <1>0, <1>2 DEF TypeOK
    <1>8. MarkersBehindLog'
      BY <1>0, <1>1, <1>2, <1>6, SameLog DEF MarkersBehindLog
    <1> QED BY <1>2, <1>4, <1>5, <1>6, <1>7, <1>8, QuietKeeps

LEMMA BeginAddKeeps ==
    ASSUME IInv, NEW w \in Workers, NEW wanted \in SUBSET Users,
           BeginAdd(w, wanted)
    PROVE  IInv'
    <1> DEFINE left == {u \in wanted : row[u] = "left"}
               none == {u \in wanted : row[u] = "none"}
    <1>0. TypeOK /\ JobsOK /\ Committed \subseteq Nat
      BY Ids DEF IInv, TypeOK, Msg
    <1>1. PICK n \in Committed \cup {0} :
             /\ IsLatest(n)
             /\ Begins(w, IF left \cup none = {} THEN NoJob
                          ELSE Join(CaughtUp(n), Committed, left, none))
      BY DEF BeginAdd
    <1>2. UNCHANGED <<log, top, row, read, delivered>>
      BY DEF BeginAdd
    <1> HIDE DEF left, none
    <1>3. job' = [job EXCEPT ![w] = job'[w]] /\ JobOK(job[w])'
          /\ job'[w].kind # "commit"
      <2>1. CASE left \cup none = {}
        <3>1. job'[w] = NoJob /\ job' = [job EXCEPT ![w] = job'[w]]
          BY <1>0, <1>1, <2>1, Assigned DEF Begins
        <3> QED BY <3>1, IdleOK DEF NoJob, JobOK
      <2>2. CASE left \cup none # {}
        <3> DEFINE j == Join(n, Committed, left, none)
        <3>1. job' = [job EXCEPT ![w] = j]
          BY <1>1, <2>2 DEF Begins, CaughtUp
        <3>2. job'[w] = j /\ job' = [job EXCEPT ![w] = job'[w]]
          BY <1>0, <3>1, Assigned
        <3>3. Committed' = Committed
          BY <1>2, SameLog
        <3> QED BY <1>0, <1>1, <3>2, <3>3 DEF JobOK, Join, IsLatest
      <2> QED BY <2>1, <2>2
    <1>5. row' \in [Users -> {"none", "left", "in"}]
      BY <1>0, <1>2 DEF TypeOK
    <1> QED BY <1>2, <1>3, <1>5, MarkersStay, QuietKeeps

\* Members are given the latest id there was.
LEMMA JoiningKeeps ==
    ASSUME IInv, NEW w \in Workers, job[w].kind = "join",
           NEW who, UNCHANGED <<log, top, delivered>>,
           row' = [u \in Users |-> IF u \in who THEN "in" ELSE row[u]],
           read' = [u \in Users |-> IF u \in who THEN job[w].latest ELSE read[u]],
           job' = [job EXCEPT ![w] = job'[w]],
           JobOK(job[w])', job'[w].kind # "commit"
    PROVE  IInv'
    <1>0. TypeOK /\ JobsOK /\ MarkersBehindLog /\ Committed \subseteq Nat
      BY Ids DEF IInv, TypeOK, Msg
    <1> DEFINE latest == job[w].latest
    <1>1. latest \in Committed \cup {0} /\ latest \in Nat
      BY <1>0 DEF JobsOK, JobOK
    <1>2. /\ read' = [u \in Users |-> IF u \in who THEN latest ELSE read[u]]
          /\ delivered' = delivered
      OBVIOUS
    <1> HIDE DEF latest
    <1>3. row' \in [Users -> {"none", "left", "in"}]
      BY <1>0 DEF TypeOK
    <1>4. read' \in [Users -> Nat] /\ delivered' \in [Users -> Nat]
      BY <1>0, <1>1, <1>2 DEF TypeOK
    <1>5. MarkersBehindLog'
      <2>1. \A u \in Users : /\ (read'[u] = read[u] \/ read'[u] = latest)
                              /\ delivered'[u] = delivered[u]
        BY <1>2
      <2>2. Committed' = Committed
        BY SameLog
      <2>3. latest = 0 \/ \E m \in Committed : latest <= m
        BY <1>1
      <2> QED BY <1>0, <2>1, <2>2, <2>3 DEF MarkersBehindLog
    <1> QED BY <1>3, <1>4, <1>5, QuietKeeps

LEMMA NoticeOK ==
    ASSUME IInv, NEW w \in Workers, NEW u \in Users, NEW gone,
           job' = [job EXCEPT ![w] = Notice(u, gone)]
    PROVE  /\ job' = [job EXCEPT ![w] = job'[w]]
           /\ JobOK(job[w])' /\ job'[w].kind # "commit"
    <1> DEFINE j == Notice(u, gone)
    <1>1. job'[w] = j /\ job' = [job EXCEPT ![w] = job'[w]]
      BY Assigned DEF IInv
    <1>2. j.kind = "post" /\ j.user = u
      BY DEF Notice
    <1> HIDE DEF j
    <1> QED BY <1>1, <1>2 DEF JobOK

LEMMA ReactivateKeeps ==
    ASSUME IInv, NEW w \in Workers, Reactivate(w)
    PROVE  IInv'
    <1>0. JobsOK /\ Creator \in Users
      BY UsersOK DEF IInv
    <1>1. JobOK(job[w]) /\ job[w].kind = "join" /\ UNCHANGED log
      BY <1>0 DEF JobsOK, Reactivate
    <1>2. job' = [job EXCEPT ![w] = job'[w]] /\ JobOK(job[w])'
          /\ job'[w].kind # "commit"
      <2>1. CASE job[w].new = {}
        <3>1. job' = [job EXCEPT ![w] = Notice(Creator, {})]
          BY <2>1 DEF Reactivate, Goes
        <3> QED BY <1>0, <3>1, NoticeOK
      <2>2. CASE job[w].new # {}
        <3> DEFINE j == Join(job[w].latest, job[w].seen, {}, job[w].new)
        <3>1. job' = [job EXCEPT ![w] = j]
          BY <2>2 DEF Reactivate, Goes
        <3>2. job'[w] = j /\ job' = [job EXCEPT ![w] = job'[w]]
          BY <1>0, <3>1, Assigned
        <3>3. Committed' = Committed
          BY <1>1, SameLog
        <3> QED BY <1>1, <3>2, <3>3 DEF JobOK, Join
      <2> QED BY <2>1, <2>2
    <1> QED BY <1>1, <1>2, JoiningKeeps DEF Reactivate

LEMMA InsertMembersKeeps ==
    ASSUME IInv, NEW w \in Workers, InsertMembers(w)
    PROVE  IInv'
    <1>0. JobsOK /\ Creator \in Users
      BY UsersOK DEF IInv
    <1>1. job' = [job EXCEPT ![w] = Notice(Creator, {})]
      BY DEF InsertMembers, Goes
    <1>2. job' = [job EXCEPT ![w] = job'[w]] /\ JobOK(job[w])'
          /\ job'[w].kind # "commit"
      BY <1>0, <1>1, NoticeOK
    <1> QED BY <1>2, JoiningKeeps DEF InsertMembers

LEMMA BeginDropKeeps ==
    ASSUME IInv, NEW w \in Workers, NEW a \in Users, NEW u, BeginDrop(w, a, u)
    PROVE  IInv'
    <1>1. job' = [job EXCEPT ![w] = Notice(a, {u})]
      BY DEF BeginDrop, Begins
    <1>2. UNCHANGED <<log, top, row, read, delivered>>
      BY DEF BeginDrop
    <1>3. row' \in [Users -> {"none", "left", "in"}]
      BY <1>2 DEF IInv, TypeOK
    <1> QED BY <1>1, <1>2, <1>3, NoticeOK, MarkersStay, QuietKeeps

\* What follows a notice.
LEMMA DropOK ==
    ASSUME IInv, NEW w \in Workers, NEW gone, Drop(w, gone)
    PROVE  /\ job' = [job EXCEPT ![w] = job'[w]]
           /\ JobOK(job[w])' /\ job'[w].kind \in {"idle", "drop"}
    <1>0. JobsOK
      BY DEF IInv
    <1>1. CASE gone = {}
      <2>1. job'[w] = NoJob /\ job' = [job EXCEPT ![w] = job'[w]]
        BY <1>0, <1>1, Assigned DEF Drop, Ends
      <2> QED BY <2>1 DEF NoJob, JobOK
    <1>2. CASE gone # {}
      <2> DEFINE j == [kind |-> "drop", gone |-> gone]
      <2>1. job' = [job EXCEPT ![w] = j]
        BY <1>2 DEF Drop, Goes
      <2>2. job'[w] = j /\ job' = [job EXCEPT ![w] = job'[w]]
        BY <1>0, <2>1, Assigned
      <2> QED BY <2>2 DEF JobOK
    <1> QED BY <1>1, <1>2

LEMMA PostMessageKeeps ==
    ASSUME IInv, NEW w \in Workers, PostMessage(w)
    PROVE  IInv'
    <1> DEFINE n == Len(log) + 1
               j == [kind |-> "posted", id |-> n, gone |-> job[w].gone]
    <1>0. TypeOK /\ OnlyNoticesOvertake /\ JobsOK /\ MarkersBehindLog
          /\ LastMessageIsThere
      BY DEF IInv
    <1>1. job[w].user \in Users
      BY <1>0 DEF JobsOK, JobOK, PostMessage
    <1>2. /\ log' \in Seq(Msg)
          /\ Committed' = Committed \cup {n} /\ Open' = Open
          /\ \A m \in DOMAIN log : log'[m] = log[m]
          /\ OnlyNoticesOvertake'
      BY <1>0, <1>1, PostingKeeps DEF PostMessage
    <1>3. job' = [job EXCEPT ![w] = j]
      BY DEF PostMessage, Goes
    <1> HIDE DEF n
    <1>4. job'[w] = j /\ job' = [job EXCEPT ![w] = job'[w]]
      BY <1>0, <1>3, Assigned
    <1>5. JobOK(job[w])' /\ job'[w].kind # "commit"
      BY <1>2, <1>4 DEF JobOK
    <1>6. JobsOK'
      <2>1. \A x \in Workers \ {w} : job[x].kind = "commit" =>
              /\ job[x].id \in Open' /\ ~log'[job[x].id].system
              /\ job'[w].kind = "commit" => job'[w].id # job[x].id
        BY <1>0, <1>2, <1>5 DEF JobsOK, JobOK, Open
      <2> QED BY <1>0, <1>2, <1>4, <1>5, <2>1, GoesOn
    <1>7. UNCHANGED <<top, row, read, delivered>>
      BY DEF PostMessage
    <1>8. TypeOK'
      BY <1>0, <1>2, <1>7 DEF TypeOK, Msg
    <1>9. LastMessageIsThere' /\ MarkersBehindLog'
      BY <1>0, <1>2, <1>7 DEF LastMessageIsThere, MarkersBehindLog
    <1> QED BY <1>2, <1>6, <1>8, <1>9 DEF IInv

LEMMA PostLastKeeps ==
    ASSUME IInv, NEW w \in Workers, PostLast(w)
    PROVE  IInv'
    <1>0. TypeOK /\ JobsOK /\ Committed \subseteq Nat
      BY Ids DEF IInv, TypeOK, Msg
    <1>1. /\ job' = [job EXCEPT ![w] = job'[w]]
          /\ JobOK(job[w])' /\ job'[w].kind \in {"idle", "drop"}
      BY DropOK DEF PostLast
    <1>2. UNCHANGED <<log, row, read, delivered>>
      BY DEF PostLast
    <1>3. top' \in Committed /\ top' \in Nat
      BY <1>0 DEF PostLast, JobsOK, JobOK
    <1>4. /\ Committed' = Committed /\ OnlyNoticesOvertake' /\ log' \in Seq(Msg)
      BY <1>2, SameLog
    <1>5. JobsOK'
      BY <1>1, <1>2, GoesOnAlone
    <1>6. TypeOK'
      BY <1>0, <1>2, <1>3 DEF TypeOK
    <1>7. LastMessageIsThere' /\ MarkersBehindLog'
      BY <1>2, <1>3, <1>4, MarkersStay DEF LastMessageIsThere
    <1> QED BY <1>4, <1>5, <1>6, <1>7 DEF IInv

LEMMA PostFailsKeeps ==
    ASSUME IInv, NEW w \in Workers, PostFails(w)
    PROVE  IInv'
    <1>1. /\ job' = [job EXCEPT ![w] = job'[w]]
          /\ JobOK(job[w])' /\ job'[w].kind \in {"idle", "drop"}
      BY DropOK DEF PostFails
    <1>2. UNCHANGED <<log, top, row, read, delivered>>
      BY DEF PostFails
    <1>3. row' \in [Users -> {"none", "left", "in"}]
      BY <1>2 DEF IInv, TypeOK
    <1> QED BY <1>1, <1>2, <1>3, MarkersStay, QuietKeeps

\* A request that is over.
LEMMA EndsOK ==
    ASSUME IInv, NEW w \in Workers, Ends(w)
    PROVE  /\ job' = [job EXCEPT ![w] = job'[w]]
           /\ JobOK(job[w])' /\ job'[w].kind = "idle"
    <1>1. job'[w] = NoJob /\ job' = [job EXCEPT ![w] = job'[w]]
      BY Assigned DEF IInv, Ends
    <1> QED BY <1>1 DEF JobOK, NoJob

LEMMA DeactivateKeeps ==
    ASSUME IInv, NEW w \in Workers, Deactivate(w)
    PROVE  IInv'
    <1>1. /\ job' = [job EXCEPT ![w] = job'[w]]
          /\ JobOK(job[w])' /\ job'[w].kind = "idle"
      BY EndsOK DEF Deactivate
    <1>2. UNCHANGED <<log, top, read, delivered>>
      BY DEF Deactivate
    <1>3. row' \in [Users -> {"none", "left", "in"}]
      BY DEF Deactivate, IInv, TypeOK
    <1> QED BY <1>1, <1>2, <1>3, MarkersStay, QuietKeeps

LEMMA DeleteGroupKeeps ==
    ASSUME IInv, DeleteGroup
    PROVE  IInv'
    <1>1. UNCHANGED <<log, top, read, delivered, job>>
      BY DEF DeleteGroup
    <1>2. /\ Committed' = Committed /\ Open' = Open
          /\ OnlyNoticesOvertake' /\ log' \in Seq(Msg)
      BY <1>1, SameLog
    <1>3. row' \in [Users -> {"none", "left", "in"}]
      BY DEF DeleteGroup, IInv, TypeOK
    <1>4. TypeOK' /\ LastMessageIsThere' /\ MarkersBehindLog'
      BY <1>1, <1>2, <1>3, MarkersStay DEF IInv, TypeOK, LastMessageIsThere
    <1>5. JobsOK'
      BY <1>1, <1>2 DEF IInv, JobsOK, JobOK
    <1> QED BY <1>2, <1>4, <1>5 DEF IInv

LEMMA FailKeeps ==
    ASSUME IInv, NEW w \in Workers, Fail(w)
    PROVE  IInv'
    <1>1. /\ job' = [job EXCEPT ![w] = job'[w]]
          /\ JobOK(job[w])' /\ job'[w].kind = "idle"
      BY EndsOK DEF Fail
    <1>2. UNCHANGED <<top, row, read, delivered>>
      BY DEF Fail
    <1>3. CASE job[w].kind # "commit"
      <2>1. UNCHANGED log
        BY <1>3 DEF Fail
      <2>2. row' \in [Users -> {"none", "left", "in"}]
        BY <1>2 DEF IInv, TypeOK
      <2> QED BY <1>1, <1>2, <2>1, <2>2, MarkersStay, QuietKeeps
    <1>4. CASE job[w].kind = "commit"
      <2> DEFINE k == job[w].id
      <2>0. TypeOK /\ OnlyNoticesOvertake /\ JobsOK /\ MarkersBehindLog
            /\ LastMessageIsThere
        BY DEF IInv
      <2>1. k \in Open
        BY <1>4, <2>0 DEF JobsOK, JobOK
      <2>2. /\ log' \in Seq(Msg)
            /\ Committed' = Committed /\ Open' = Open \ {k}
            /\ \A m \in DOMAIN log : log'[m].system = log[m].system
            /\ OnlyNoticesOvertake'
        BY <1>4, <2>0, <2>1, LosingKeeps DEF Fail
      <2>3. \A x \in Workers \ {w} : job[x].kind = "commit" =>
              /\ job[x].id \in Open' /\ ~log'[job[x].id].system
              /\ job'[w].kind = "commit" => job'[w].id # job[x].id
        BY <1>1, <1>4, <2>0, <2>2 DEF JobsOK, JobOK, Open
      <2>4. JobsOK'
        BY <1>1, <2>0, <2>2, <2>3, GoesOn
      <2>5. TypeOK'
        BY <1>2, <2>0, <2>2 DEF TypeOK, Msg
      <2>6. LastMessageIsThere' /\ MarkersBehindLog'
        BY <1>2, <2>0, <2>2 DEF LastMessageIsThere, MarkersBehindLog
      <2> QED BY <2>2, <2>4, <2>5, <2>6 DEF IInv
    <1> QED BY <1>3, <1>4

LEMMA NextKeeps ==
    ASSUME IInv, [Next]_vars
    PROVE  IInv'
    <1>1. ASSUME NEW w \in Workers, Begin(w) PROVE IInv'
      <2>1. ASSUME NEW u \in Users, OpenSend(w, u) PROVE IInv'
        BY <2>1, OpenSendKeeps
      <2>2. ASSUME NEW u \in Users, NEW kind \in {"read", "delivered"},
                   NEW id \in 1 .. MaxMessages, BeginMark(w, u, kind, id)
            PROVE  IInv'
        BY <2>2, BeginMarkKeeps, BoundsOK
      <2>3. ASSUME NEW wanted \in SUBSET Users, BeginAdd(w, wanted) PROVE IInv'
        BY <2>3, BeginAddKeeps
      <2>4. ASSUME NEW u \in Users, BeginDrop(w, Creator, u) PROVE IInv'
        BY <2>4, BeginDropKeeps, UsersOK
      <2>5. ASSUME NEW u \in Users, BeginDrop(w, u, u) PROVE IInv'
        BY <2>5, BeginDropKeeps
      <2> QED BY <1>1, <2>1, <2>2, <2>3, <2>4, <2>5 DEF Begin
    <1>2. ASSUME NEW w \in Workers, Step(w) PROVE IInv'
      BY <1>2, CommitSendKeeps, MoveReadKeeps, MoveDeliveredKeeps,
         ReactivateKeeps, InsertMembersKeeps, PostMessageKeeps, PostLastKeeps,
         PostFailsKeeps, DeactivateKeeps DEF Step
    <1>3. ASSUME NEW w \in Workers, Fail(w) PROVE IInv'
      BY <1>3, FailKeeps
    <1>4. ASSUME NEW u \in Users, NEW m \in 1 .. MaxMessages, DeleteMessage(u, m)
          PROVE  IInv'
      BY <1>4, DeleteMessageKeeps, BoundsOK
    <1>5. CASE DeleteGroup
      BY <1>5, DeleteGroupKeeps
    <1>6. CASE UNCHANGED vars
      <2>1. UNCHANGED <<log, top, row, read, delivered, job>>
        BY <1>6 DEF vars
      <2>2. /\ Committed' = Committed /\ Open' = Open
            /\ OnlyNoticesOvertake' /\ log' \in Seq(Msg)
        BY <2>1, SameLog
      <2>3. TypeOK' /\ LastMessageIsThere' /\ MarkersBehindLog'
        BY <2>1, <2>2, MarkersStay DEF IInv, TypeOK, LastMessageIsThere
      <2>4. JobsOK'
        BY <2>1, <2>2 DEF IInv, JobsOK, JobOK
      <2> QED BY <2>2, <2>3, <2>4 DEF IInv
    <1> QED BY <1>1, <1>2, <1>3, <1>4, <1>5, <1>6 DEF Next

-----------------------------------------------------------------------------
THEOREM Invariance == Spec => []IInv
    <1>1. Init => IInv
      BY InitIInv
    <1>2. IInv /\ [Next]_vars => IInv'
      BY NextKeeps
    <1> QED BY <1>1, <1>2, PTL DEF Spec

\* Every state is well formed.
THEOREM TypeCorrect == Spec => []TypeOK
    BY Invariance, PTL DEF IInv

\* conversations.last_message_id names a committed message at all times.
THEOREM LastMessageCommitted == Spec => []LastMessageIsThere
    BY Invariance, PTL DEF IInv

\* No marker is ever ahead of the messages that can be seen, whatever ids the
\* clients send.
THEOREM MarkersBehind == Spec => []MarkersBehindLog
    BY Invariance, PTL DEF IInv

-----------------------------------------------------------------------------
\* An open message is no longer so by its own request's doing only.
LEMMA OnlyItsRequest ==
    ASSUME IInv, [Next]_vars, NEW w \in Workers, job[w].kind = "commit"
    PROVE  CommitSend(w) \/ Fail(w) \/ job'[w] = job[w]
    <1>0. JobsOK /\ job[w] # NoJob
      BY DEF IInv, NoJob
    <1>1. ASSUME NEW x \in Workers, NEW j, job' = [job EXCEPT ![x] = j], x # w
          PROVE  job'[w] = job[w]
      BY <1>0, <1>1 DEF JobsOK
    <1>2. ASSUME NEW x \in Workers, Begin(x) PROVE job'[w] = job[w]
      <2>1. ASSUME NEW j, Begins(x, j) PROVE job'[w] = job[w]
        BY <1>0, <1>1, <2>1 DEF Begins
      <2>2. ASSUME NEW u \in Users, OpenSend(x, u) PROVE job'[w] = job[w]
        BY <2>1, <2>2 DEF OpenSend
      <2>3. ASSUME NEW u \in Users, NEW kind \in {"read", "delivered"},
                   NEW id \in 1 .. MaxMessages, BeginMark(x, u, kind, id)
            PROVE  job'[w] = job[w]
        BY <2>1, <2>3 DEF BeginMark
      <2>4. ASSUME NEW wanted \in SUBSET Users, BeginAdd(x, wanted)
            PROVE  job'[w] = job[w]
        BY <2>1, <2>4 DEF BeginAdd
      <2>5. ASSUME NEW a, NEW u, BeginDrop(x, a, u) PROVE job'[w] = job[w]
        BY <2>1, <2>5 DEF BeginDrop
      <2> QED BY <1>2, <2>2, <2>3, <2>4, <2>5 DEF Begin
    <1>3. ASSUME NEW x \in Workers, x # w, Step(x) \/ Fail(x)
          PROVE  job'[w] = job[w]
      <2>1. \E j : job' = [job EXCEPT ![x] = j]
        BY <1>3 DEF Step, Fail, CommitSend, MoveRead, MoveDelivered, Reactivate,
           InsertMembers, PostMessage, PostLast, PostFails, Deactivate, Drop,
           Ends, Goes
      <2> QED BY <1>1, <1>3, <2>1
    <1>4. ASSUME Step(w) PROVE CommitSend(w)
      BY <1>4 DEF Step, CommitSend, MoveRead, MoveDelivered, Reactivate,
         InsertMembers, PostMessage, PostLast, PostFails, Deactivate
    <1>5. ASSUME NEW u \in Users, NEW m \in 1 .. MaxMessages, DeleteMessage(u, m)
          PROVE  job'[w] = job[w]
      BY <1>5 DEF DeleteMessage
    <1>6. CASE DeleteGroup
      BY <1>6 DEF DeleteGroup
    <1>7. CASE UNCHANGED vars
      BY <1>7 DEF vars
    <1> QED BY <1>2, <1>3, <1>4, <1>5, <1>6, <1>7 DEF Next

LEMMA SentUnreadStep ==
    ASSUME IInv, IInv', [Next]_vars, NEW w \in Workers,
           job[w].kind = "commit", log'[job[w].id].state = "sent"
    PROVE  \/ \A u \in Users \ {job[w].user} : read'[u] < job[w].id
           \/ \E n \in Committed : n > job[w].id /\ log[n].system
    <1> DEFINE k == job[w].id
    <1>0. TypeOK /\ OnlyNoticesOvertake /\ JobsOK /\ MarkersBehindLog
          /\ Committed \subseteq Nat /\ Open \subseteq Nat
          /\ Committed \cap Open = {}
      BY Ids DEF IInv, TypeOK, Msg
    <1>1. k \in Open /\ k \in DOMAIN log /\ k \in Nat
      BY <1>0 DEF JobsOK, JobOK, Open
    <1>2. job'[w] # job[w]
      BY DEF IInv, JobsOK, JobOK, Open
    <1>3. ~Fail(w)
      <2> SUFFICES ASSUME Fail(w) PROVE FALSE
        OBVIOUS
      <2>1. log' = [log EXCEPT ![k].state = "lost"] /\ "lost" \in States
        BY DEF Fail, States
      <2>2. log'[k].state = "lost"
        BY <1>0, <1>1, <2>1, Restated DEF TypeOK, Msg
      <2> QED BY <2>2
    <1>4. CommitSend(w)
      BY <1>2, <1>3, OnlyItsRequest
    <1>5. \A u \in Users \ {job[w].user} : read'[u] = read[u] /\ read[u] \in Nat
      BY <1>0, <1>4 DEF CommitSend, TypeOK
    <1>6. ASSUME NEW u \in Users \ {job[w].user}, ~(read'[u] < k)
          PROVE  \E n \in Committed : n > k /\ log[n].system
      <2>0. k > 0
        BY <1>0, <1>1 DEF TypeOK
      <2>1. read[u] >= k /\ read[u] # 0
        BY <1>1, <1>5, <1>6, <2>0
      <2>2. PICK n \in Committed : read[u] <= n
        BY <1>0, <2>1 DEF MarkersBehindLog
      <2>3. n \in Nat /\ n # k
        BY <1>0, <1>1, <2>2
      <2>4. n > k
        BY <1>1, <1>5, <2>1, <2>2, <2>3
      <2> QED BY <1>0, <1>1, <2>4 DEF OnlyNoticesOvertake
    <1> QED BY <1>6

\* A message that becomes visible is unread for everybody else, but for what a
\* notice has made of their markers.
THEOREM SentIsUnread == Spec => SentUnread
    <1>1. IInv /\ IInv' /\ [Next]_vars =>
            \A w \in Workers :
                LET m == job[w].id IN
                job[w].kind = "commit" /\ log'[m].state = "sent"
                  => \/ \A u \in Users \ {job[w].user} : read'[u] < m
                     \/ \E n \in Committed : n > m /\ log[n].system
      BY SentUnreadStep
    <1> QED BY <1>1, Invariance, PTL DEF Spec, SentUnread

-----------------------------------------------------------------------------
\* A message that is there before and after a step is the same message.
LEMMA SameMessage ==
    ASSUME IInv, [Next]_vars, NEW m \in DOMAIN log, Ordinary(m), Ordinary(m)'
    PROVE  log'[m] = log[m]
    <1>0. log \in Seq(Msg) /\ JobsOK
      BY DEF IInv, TypeOK, Msg
    <1>1. ASSUME NEW msg \in Msg, InsertMessage(msg) PROVE log'[m] = log[m]
      BY <1>0, <1>1, Inserted
    <1>2. ASSUME NEW k \in DOMAIN log, k # m, NEW s \in States,
                 log' = [log EXCEPT ![k].state = s]
          PROVE  log'[m] = log[m]
      BY <1>0, <1>2, Restated
    <1>3. ASSUME NEW u \in Users, NEW b \in BOOLEAN, NEW s \in {"open", "sent"}
          PROVE  Message(u, b, s) \in Msg
      BY DEF Message, Msg, States
    <1>4. ASSUME NEW w \in Workers, NEW u \in Users, OpenSend(w, u)
          PROVE  log'[m] = log[m]
      BY <1>1, <1>3, <1>4 DEF OpenSend
    <1>5. ASSUME NEW w \in Workers, PostMessage(w) PROVE log'[m] = log[m]
      <2>1. job[w].user \in Users
        BY <1>0, <1>5 DEF PostMessage, JobsOK, JobOK
      <2> QED BY <1>1, <1>3, <1>5, <2>1 DEF PostMessage
    <1>6. ASSUME NEW w \in Workers, CommitSend(w) PROVE log'[m] = log[m]
      <2>1. /\ job[w].id \in Open /\ job[w].id \in DOMAIN log
            /\ log[job[w].id].state = "open"
        BY <1>0, <1>6 DEF CommitSend, JobsOK, JobOK, Open
      <2>2. job[w].id # m
        BY <2>1 DEF Ordinary
      <2> QED BY <1>2, <1>6, <2>1, <2>2 DEF CommitSend, States
    <1>7. ASSUME NEW w \in Workers, Fail(w) PROVE log'[m] = log[m]
      <2>1. CASE job[w].kind = "commit"
        <3>1. /\ job[w].id \in DOMAIN log
              /\ log[job[w].id].state = "open"
          BY <1>0, <2>1 DEF JobsOK, JobOK, Open
        <3>2. job[w].id # m
          BY <3>1 DEF Ordinary
        <3> QED BY <1>2, <1>7, <2>1, <3>1, <3>2 DEF Fail, States
      <2> QED BY <1>7, <2>1 DEF Fail
    <1>8. ASSUME NEW u \in Users, NEW k \in 1 .. MaxMessages, DeleteMessage(u, k)
          PROVE  log'[m] = log[m]
      <2>1. k \in DOMAIN log
        BY <1>8 DEF DeleteMessage, Committed
      <2>2. CASE k = m
        <3>1. log'[m].state = "deleted"
          BY <1>0, <1>8, <2>1, <2>2, Restated DEF DeleteMessage, States
        <3> QED BY <3>1 DEF Ordinary
      <2> QED BY <1>2, <1>8, <2>1, <2>2 DEF DeleteMessage, States
    <1>9. ASSUME NEW w \in Workers, Begin(w) PROVE log'[m] = log[m]
      BY <1>4, <1>9 DEF Begin, BeginMark, BeginAdd, BeginDrop
    <1>10. ASSUME NEW w \in Workers, Step(w) PROVE log'[m] = log[m]
      BY <1>5, <1>6, <1>10 DEF Step, MoveRead, MoveDelivered, Reactivate,
         InsertMembers, PostLast, PostFails, Deactivate
    <1> QED BY <1>7, <1>8, <1>9, <1>10 DEF Next, DeleteGroup, vars

LEMMA NextCases ==
    ASSUME [Next]_vars
    PROVE  \/ \E w \in Workers : Begin(w) \/ Step(w) \/ Fail(w)
           \/ \E v \in Users, k \in 1 .. MaxMessages : DeleteMessage(v, k)
           \/ DeleteGroup
           \/ UNCHANGED vars
    BY DEF Next

\* What a step does to one user's row and marker, when no member is added on a
\* latest id from before m.
LEMMA MarkerStep ==
    ASSUME IInv, [Next]_vars, NEW m \in DOMAIN log, Ordinary(m),
           \A w \in Workers : ~JoinsBehind(w, m),
           NEW u \in Users, row'[u] = "in"
    PROVE  \/ row[u] = "in" /\ read[u] <= read'[u]
           \/ read'[u] >= m
    <1>0. /\ TypeOK /\ JobsOK /\ OnlyNoticesOvertake
          /\ Committed \subseteq Nat /\ Open \subseteq Nat
          /\ m \in Committed /\ m \in Nat /\ read[u] \in Nat
      BY Ids DEF IInv, TypeOK, Msg, Ordinary, Committed
    <1> DEFINE Goal == \/ row[u] = "in" /\ read[u] <= read'[u]
                       \/ read'[u] >= m
    <1>1. ASSUME row'[u] = row[u], read'[u] = read[u] PROVE Goal
      BY <1>0, <1>1
    <1>2. ASSUME NEW w \in Workers, CommitSend(w) PROVE Goal
      <2>1. row' = row /\ job[w].id \in Open /\ job[w].id \in Nat
        BY <1>0, <1>2 DEF CommitSend, JobsOK, JobOK
      <2>2. read'[u] = (IF u = job[w].user THEN job[w].id ELSE read[u])
        BY <1>0, <1>2 DEF CommitSend, TypeOK
      <2>3. job[w].id >= m
        <3>1. ~log[m].system
          BY DEF Ordinary
        <3> QED BY <1>0, <2>1, <3>1 DEF OnlyNoticesOvertake
      <2> QED BY <1>0, <2>1, <2>2, <2>3
    <1>3. ASSUME NEW w \in Workers, MoveRead(w) PROVE Goal
      <2>1. row' = row /\ job[w].id \in Nat
        BY <1>0, <1>3 DEF MoveRead, JobsOK, JobOK
      <2>2. read'[u] = read[u] \/ read'[u] = Raised(read[u], job[w].id)
        BY <1>0, <1>3 DEF MoveRead, TypeOK
      <2> QED BY <1>0, <2>1, <2>2 DEF Raised
    <1>4. ASSUME NEW w \in Workers, job[w].kind = "join", job'[w] # job[w],
                 \/ row'[u] = row[u] /\ read'[u] = read[u]
                 \/ read'[u] = job[w].latest
          PROVE  Goal
      <2>1. m <= job[w].latest
        BY <1>0, <1>4 DEF JoinsBehind, JobsOK, JobOK
      <2>2. job[w].latest \in Nat
        BY <1>0, <1>4 DEF JobsOK, JobOK
      <2> QED BY <1>0, <1>4, <2>1, <2>2
    <1>5. ASSUME NEW w \in Workers, Reactivate(w) PROVE Goal
      <2>1. job'[w] # job[w]
        <3>1. CASE job[w].new = {}
          <4>1. job'[w].kind = "post"
            BY <1>0, <1>5, <3>1 DEF Reactivate, Goes, Notice, JobsOK
          <4> QED BY <1>5, <4>1 DEF Reactivate
        <3>2. CASE job[w].new # {}
          <4>1. job'[w].back = {}
            BY <1>0, <1>5, <3>2 DEF Reactivate, Goes, Join, JobsOK
          <4> QED BY <1>5, <4>1 DEF Reactivate
        <3> QED BY <3>1, <3>2
      <2>2. \/ row'[u] = row[u] /\ read'[u] = read[u]
            \/ read'[u] = job[w].latest
        BY <1>5 DEF Reactivate
      <2>3. job[w].kind = "join"
        BY <1>5 DEF Reactivate
      <2> QED BY <1>4, <2>1, <2>2, <2>3
    <1>6. ASSUME NEW w \in Workers, InsertMembers(w) PROVE Goal
      <2>1. job[w].kind = "join"
        BY <1>6 DEF InsertMembers
      <2>2. job'[w].kind = "post"
        BY <1>0, <1>6 DEF InsertMembers, Goes, Notice, JobsOK
      <2>3. \/ row'[u] = row[u] /\ read'[u] = read[u]
            \/ read'[u] = job[w].latest
        BY <1>6 DEF InsertMembers
      <2> QED BY <1>4, <2>1, <2>2, <2>3
    <1>7. ASSUME NEW w \in Workers, Deactivate(w) PROVE Goal
      BY <1>1, <1>7 DEF Deactivate
    <1>8. ASSUME DeleteGroup PROVE Goal
      BY <1>1, <1>8 DEF DeleteGroup, Participant
    <1>9. ASSUME NEW w \in Workers, Begin(w) PROVE Goal
      BY <1>1, <1>9 DEF Begin, OpenSend, BeginMark, BeginAdd, BeginDrop
    <1>10. ASSUME NEW w \in Workers, Step(w) PROVE Goal
      <2>1. CASE UNCHANGED <<row, read>>
        BY <1>1, <2>1
      <2> HIDE DEF Goal
      <2> QED BY <1>2, <1>3, <1>5, <1>6, <1>7, <1>10, <2>1 DEF Step,
              MoveDelivered, PostMessage, PostLast, PostFails
    <1>11. ASSUME NEW w \in Workers, Fail(w) PROVE Goal
      BY <1>1, <1>11 DEF Fail
    <1>12. ASSUME NEW v \in Users, NEW k \in 1 .. MaxMessages, DeleteMessage(v, k)
           PROVE  Goal
      BY <1>1, <1>12 DEF DeleteMessage
    <1>13. ASSUME UNCHANGED vars PROVE Goal
      BY <1>1, <1>13 DEF vars
    <1> HIDE DEF Goal
    <1>14. Goal
      <2>1. CASE \E w \in Workers : Begin(w) \/ Step(w) \/ Fail(w)
        BY <1>9, <1>10, <1>11, <2>1
      <2>2. CASE \E v \in Users, k \in 1 .. MaxMessages : DeleteMessage(v, k)
        BY <1>12, <2>2
      <2> QED BY <1>8, <1>13, <2>1, <2>2, NextCases
    <1> QED BY <1>14 DEF Goal

LEMMA ReadTickStep ==
    ASSUME IInv, IInv', [Next]_vars, NEW m \in DOMAIN log,
           Ordinary(m), Ordinary(m)', Tick(m) = "read", Recipients(m)' # {},
           \A w \in Workers : ~JoinsBehind(w, m)
    PROVE  Tick(m)' = "read"
    <1>1. log'[m] = log[m]
      BY SameMessage
    <1>2. \A u \in Recipients(m) : read[u] >= m
      BY DEF Tick
    <1>3. ASSUME NEW u \in Recipients(m)' PROVE read'[u] >= m
      <2>1. u \in Users /\ row'[u] = "in" /\ u # log[m].from
        BY <1>1, <1>3 DEF Recipients, Participant
      <2>2. CASE row[u] = "in" /\ read[u] <= read'[u]
        <3>1. read[u] >= m
          BY <1>2, <2>1, <2>2 DEF Recipients, Participant
        <3>2. m \in Nat /\ read[u] \in Nat
          BY <2>1, Ids DEF IInv, TypeOK, Msg, Ordinary, Committed
        <3>3. read'[u] \in Nat
          BY <2>1 DEF IInv, TypeOK
        <3> QED BY <2>2, <3>1, <3>2, <3>3
      <2> QED BY <2>1, <2>2, MarkerStep
    <1> QED BY <1>3 DEF Tick

\* A message read by all stays read by all, unless members are added on a latest
\* id from before it.
THEOREM ReadTicksAreFinal == Spec => ReadTicksStand
    <1>1. IInv /\ IInv' /\ [Next]_vars =>
            \A m \in DOMAIN log :
                  /\ Ordinary(m) /\ Ordinary(m)'
                  /\ Tick(m) = "read" /\ Recipients(m)' # {}
                  /\ \A w \in Workers : ~JoinsBehind(w, m)
                => Tick(m)' = "read"
      BY ReadTickStep
    <1> QED BY <1>1, Invariance, PTL DEF Spec, ReadTicksStand
=============================================================================
