---------------------------- MODULE Conversation ----------------------------
(***************************************************************************)
(* One group conversation of chat.service.ts: its chat_messages, the       *)
(* last_message_id of its conversations row, and its                       *)
(* conversation_participants with their read and delivered markers, from   *)
(* which unread counts and ticks are computed.                             *)
(*                                                                         *)
(* Only sending runs in a transaction.  The foreign key of chat_messages   *)
(* makes an INSERT hold the conversation's row, shared, to the end of its  *)
(* transaction, and the UPDATE of last_message_id needs it alone.  Ids are *)
(* taken when a row is inserted and seen when it is committed.             *)
(*                                                                         *)
(* A request's first statements are one step: whoever is removed between   *)
(* them goes on as whoever is removed after them does.                     *)
(*                                                                         *)
(* Left out: bodies, attachments, mentions, reactions, pins, edits, mute   *)
(* and archive flags, and the receipt ledger, whose timestamps the         *)
(* breakdown panel shows beside what the markers say.                      *)
(***************************************************************************)
EXTENDS Integers, Sequences, FiniteSets

CONSTANTS
    Workers,      \* requests in flight at a time
    Users,
    Creator,      \* created_by; removed by nobody
    Founders,     \* the others createGroup was called with
    MaxMessages,  \* bound: rows ever inserted in chat_messages
    MaxRequests   \* bound: requests ever made

ASSUME UsersOK == Creator \in Users /\ Founders \subseteq Users \ {Creator}
ASSUME BoundsOK == MaxMessages \in Nat /\ MaxRequests \in Nat

VARIABLES
    log,        \* chat_messages, by id
    top,        \* conversations.last_message_id, 0 for NULL
    row,        \* conversation_participants: no row, is_active or not
    read,       \* last_read_message_id, 0 for NULL
    delivered,  \* last_delivered_message_id, 0 for NULL
    job,        \* what each request still has to do
    requests    \* bound: requests so far

vars == <<log, top, row, read, delivered, job, requests>>

-----------------------------------------------------------------------------
NoJob == [kind |-> "idle"]

Committed == {m \in DOMAIN log : log[m].state \in {"sent", "deleted"}}
Open      == {m \in DOMAIN log : log[m].state = "open"}

\* max("id") over the rows a statement sees.
IsLatest(n) == /\ n \in Committed \cup {0}
               /\ \A m \in Committed : m <= n

\* requireParticipant.
Participant(u) == row[u] = "in"

\* recipientMarkers and tickFor; a minimum reaches m when every marker does.
Recipients(m) == {u \in Users : Participant(u) /\ u # log[m].from}
Tick(m) ==
    IF Recipients(m) = {} THEN "sent"
    ELSE IF \A u \in Recipients(m) : read[u] >= m THEN "read"
    ELSE IF \A u \in Recipients(m) : delivered[u] >= m THEN "delivered"
    ELSE "sent"

-----------------------------------------------------------------------------
Ask == requests < MaxRequests /\ requests' = requests + 1

Begins(w, j) == job[w] = NoJob /\ job' = [job EXCEPT ![w] = j]
Goes(w, j)   == job' = [job EXCEPT ![w] = j]
Ends(w)      == job' = [job EXCEPT ![w] = NoJob]

Message(u, system, state) ==
    [from |-> u, system |-> system, state |-> state]

InsertMessage(msg) == /\ Len(log) < MaxMessages
                      /\ log' = Append(log, msg)

\* Variant: nothing keeps an UPDATE waiting.
NobodyWaits(mine) == TRUE

\* The conversation's row is free once no other transaction has inserted a
\* message of it.
RowIsFree(mine) == Open \subseteq {mine}

\* createGroup, whose notice may have failed.
Init ==
    /\ log \in {<<>>, <<Message(Creator, TRUE, "sent")>>}
    /\ top \in {0, Len(log)}
    /\ row = [u \in Users |-> IF u \in Founders \cup {Creator} THEN "in"
                              ELSE "none"]
    /\ read = [u \in Users |-> 0]
    /\ delivered = [u \in Users |-> 0]
    /\ job = [w \in Workers |-> NoJob]
    /\ requests = 0

-----------------------------------------------------------------------------
(***************************************************************************)
(* sendMessage, and forwardMessage for each target.  A transaction that    *)
(* waits for another that waits for it is rolled back: see Fail.           *)
(***************************************************************************)
\* Variant: last_message_id is set on another connection than the transaction's.
OpenSendPointing(w, u) ==
    /\ Ask /\ Participant(u)
    /\ InsertMessage(Message(u, FALSE, "open"))
    /\ Begins(w, [kind |-> "commit", user |-> u, id |-> Len(log) + 1])
    /\ top' = Len(log) + 1
    /\ UNCHANGED <<row, read, delivered>>

OpenSend(w, u) ==
    /\ Ask /\ Participant(u)
    /\ InsertMessage(Message(u, FALSE, "open"))
    /\ Begins(w, [kind |-> "commit", user |-> u, id |-> Len(log) + 1])
    /\ UNCHANGED <<top, row, read, delivered>>

CommitSend(w) ==
    LET u == job[w].user
        m == job[w].id IN
    /\ job[w].kind = "commit"
    /\ RowIsFree(m)
    /\ log' = [log EXCEPT ![m].state = "sent"]
    /\ top' = m
    /\ read' = [read EXCEPT ![u] = m]
    /\ delivered' = [delivered EXCEPT ![u] = m]
    /\ Ends(w)
    /\ UNCHANGED <<row, requests>>

\* deleteMessage: the sender's own; system messages carry their actor's id.
DeleteMessage(u, m) ==
    /\ Ask /\ Participant(u)
    /\ m \in Committed /\ log[m].from = u
    /\ log' = [log EXCEPT ![m].state = "deleted"]
    /\ UNCHANGED <<top, row, read, delivered, job>>

-----------------------------------------------------------------------------
(***************************************************************************)
(* markRead and markDelivered, with any id the client sends.               *)
(***************************************************************************)
\* Variant: the id is taken as it comes.
ClampedToNothing(id, n) == id

Clamped(id, n) == IF id <= n THEN id ELSE n

BeginMark(w, u, marker, id) ==
    /\ Ask /\ Participant(u)
    /\ \E n \in Committed \cup {0} :
          /\ IsLatest(n)
          /\ Begins(w, IF Clamped(id, n) = 0 THEN NoJob
                       ELSE [kind |-> marker, user |-> u, id |-> Clamped(id, n)])
    /\ UNCHANGED <<log, top, row, read, delivered>>

\* Variant: the marker takes the id it is given.
Lowered(old, id) == id

\* WHERE COALESCE(marker, 0) < id.
Raised(old, id) == IF old < id THEN id ELSE old

MoveRead(w) ==
    LET j == job[w] IN
    /\ j.kind = "read"
    /\ read' = [read EXCEPT ![j.user] = Raised(@, j.id)]
    /\ Goes(w, [kind |-> "delivered", user |-> j.user, id |-> j.id])
    /\ UNCHANGED <<log, top, row, delivered, requests>>

MoveDelivered(w) ==
    LET j == job[w] IN
    /\ j.kind = "delivered"
    /\ delivered' = [delivered EXCEPT ![j.user] = Raised(@, j.id)]
    /\ Ends(w)
    /\ UNCHANGED <<log, top, row, read, requests>>

-----------------------------------------------------------------------------
(***************************************************************************)
(* addMembers, by the creator: the rows of those wanted, the latest id,    *)
(* the UPDATE of those who had left, the INSERT of the new ones, a notice. *)
(* seen is history: the messages there were when the latest id was read.   *)
(***************************************************************************)
\* Variant: new members start with nothing read.
NotCaughtUp(n) == 0

\* Variant: max("id") is not guarded against an empty conversation.
CaughtUpUnguarded(n) == IF n = 0 THEN -1 ELSE n

\* The read marker members are given: pre-membership history is not unread.
CaughtUp(n) == n

Join(latest, seen, back, new) ==
    [kind |-> "join", latest |-> latest, seen |-> seen,
     back |-> back, new |-> new]

BeginAdd(w, wanted) ==
    LET those(r) == {u \in wanted : row[u] = r} IN
    /\ Ask /\ Participant(Creator)
    /\ \E n \in Committed \cup {0} :
          /\ IsLatest(n)
          /\ Begins(w, IF those("left") \cup those("none") = {} THEN NoJob
                       ELSE Join(CaughtUp(n), Committed,
                                 those("left"), those("none")))
    /\ UNCHANGED <<log, top, row, read, delivered>>

Notice(u, gone) == [kind |-> "post", user |-> u, gone |-> gone]

Reactivate(w) ==
    LET j == job[w] IN
    /\ j.kind = "join" /\ j.back # {}
    /\ row' = [u \in Users |-> IF u \in j.back THEN "in" ELSE row[u]]
    /\ read' = [u \in Users |-> IF u \in j.back THEN j.latest ELSE read[u]]
    /\ Goes(w, IF j.new = {} THEN Notice(Creator, {})
               ELSE Join(j.latest, j.seen, {}, j.new))
    /\ UNCHANGED <<log, top, delivered, requests>>

\* A row that somebody has inserted since is a duplicate: see Fail.
InsertMembers(w) ==
    LET j == job[w] IN
    /\ j.kind = "join" /\ j.back = {}
    /\ \A u \in j.new : row[u] = "none"
    /\ row' = [u \in Users |-> IF u \in j.new THEN "in" ELSE row[u]]
    /\ read' = [u \in Users |-> IF u \in j.new THEN j.latest ELSE read[u]]
    /\ Goes(w, Notice(Creator, {}))
    /\ UNCHANGED <<log, top, delivered, requests>>

-----------------------------------------------------------------------------
(***************************************************************************)
(* removeMember by the creator, leaveGroup by the member: a notice, then   *)
(* the row is deactivated.                                                 *)
(***************************************************************************)
BeginDrop(w, actor, u) ==
    /\ Ask /\ Participant(actor) /\ Participant(u)
    /\ u # Creator
    /\ Begins(w, Notice(actor, {u}))
    /\ UNCHANGED <<log, top, row, read, delivered>>

Drop(w, gone) == IF gone = {} THEN Ends(w)
                 ELSE Goes(w, [kind |-> "drop", gone |-> gone])

\* postSystemMessage: two statements, and no error reaches the caller.
PostMessage(w) ==
    LET j == job[w] IN
    /\ j.kind = "post"
    /\ InsertMessage(Message(j.user, TRUE, "sent"))
    /\ Goes(w, [kind |-> "posted", id |-> Len(log) + 1, gone |-> j.gone])
    /\ UNCHANGED <<top, row, read, delivered, requests>>

PostLast(w) ==
    /\ job[w].kind = "posted"
    /\ RowIsFree(job[w].id)
    /\ top' = job[w].id
    /\ Drop(w, job[w].gone)
    /\ UNCHANGED <<log, row, read, delivered, requests>>

PostFails(w) ==
    /\ job[w].kind \in {"post", "posted"}
    /\ Drop(w, job[w].gone)
    /\ UNCHANGED <<log, top, row, read, delivered, requests>>

Deactivate(w) ==
    /\ job[w].kind = "drop"
    /\ row' = [u \in Users |-> IF u \in job[w].gone THEN "left" ELSE row[u]]
    /\ Ends(w)
    /\ UNCHANGED <<log, top, read, delivered, requests>>

\* deleteGroup, by the creator.
DeleteGroup ==
    /\ Ask /\ Participant(Creator)
    /\ row' = [u \in Users |-> IF Participant(u) THEN "left" ELSE row[u]]
    /\ UNCHANGED <<log, top, read, delivered, job>>

\* A statement fails; an open message is rolled back and its id lost.
Fail(w) ==
    /\ job[w] # NoJob /\ job[w].kind \notin {"post", "posted"}
    /\ log' = IF job[w].kind = "commit"
                THEN [log EXCEPT ![job[w].id].state = "lost"] ELSE log
    /\ Ends(w)
    /\ UNCHANGED <<top, row, read, delivered, requests>>

-----------------------------------------------------------------------------
Begin(w) ==
    \/ \E u \in Users : OpenSend(w, u)
    \/ \E u \in Users, kind \in {"read", "delivered"}, id \in 1 .. MaxMessages :
          BeginMark(w, u, kind, id)
    \/ \E wanted \in SUBSET Users \ {{}} : BeginAdd(w, wanted)
    \/ \E u \in Users : BeginDrop(w, Creator, u) \/ BeginDrop(w, u, u)

Step(w) ==
    \/ CommitSend(w)
    \/ MoveRead(w) \/ MoveDelivered(w)
    \/ Reactivate(w) \/ InsertMembers(w)
    \/ PostMessage(w) \/ PostLast(w) \/ PostFails(w) \/ Deactivate(w)

Next ==
    \/ \E w \in Workers : Begin(w) \/ Step(w) \/ Fail(w)
    \/ \E u \in Users, m \in 1 .. MaxMessages : DeleteMessage(u, m)
    \/ DeleteGroup

Spec == Init /\ [][Next]_vars

-----------------------------------------------------------------------------
States == {"open", "sent", "deleted", "lost"}

TypeOK ==
    /\ log \in Seq([from : Users, system : BOOLEAN, state : States])
    /\ top \in Nat
    /\ row \in [Users -> {"none", "left", "in"}]
    /\ read \in [Users -> Nat]
    /\ delivered \in [Users -> Nat]

\* "The conversation's last_message_id can't point at a half-written row."
LastMessageIsThere == top = 0 \/ top \in Committed

\* No marker is ahead of what the conversation holds, so no message is born
\* read or delivered because of an id a client made up.
MarkersBehindLog ==
    \A u \in Users : \A marker \in {read[u], delivered[u]} :
        marker = 0 \/ \E m \in Committed : marker <= m

Ordinary(m) == m \in DOMAIN log /\ log[m].state = "sent" /\ ~log[m].system

\* A message that becomes visible is unread for everybody else, unless a notice
\* inserted after it was seen before it.
SentUnread ==
    [][\A w \in Workers :
        LET m == job[w].id IN
        job[w].kind = "commit" /\ log'[m].state = "sent"
          => \/ \A u \in Users \ {job[w].user} : read'[u] < m
             \/ \E n \in Committed : n > m /\ log[n].system]_vars

\* A step adds members on a latest id that was read before m was sent.
JoinsBehind(w, m) == /\ job[w].kind = "join" /\ m \notin job[w].seen
                     /\ job'[w] # job[w]

\* A message once read by all stays so while it has recipients, whatever is sent,
\* marked, added and removed in between: only members added on a latest id that
\* a message has overtaken can take its tick back.
ReadTicksStand ==
    [][\A m \in DOMAIN log :
          /\ Ordinary(m) /\ Ordinary(m)'
          /\ Tick(m) = "read" /\ Recipients(m)' # {}
          /\ \A w \in Workers : ~JoinsBehind(w, m)
        => Tick(m)' = "read"]_vars

\* "Read implies delivered", for those who take part.
ReadImpliesDelivered ==
    \A u \in Users :
        Participant(u) /\ (\A w \in Workers : job[w] = NoJob)
          => read[u] <= delivered[u]

\* "Advances the conversation's last_message."
LastMessageAdvances == [][top <= top']_vars
=============================================================================
