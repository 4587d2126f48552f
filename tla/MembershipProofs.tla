--------------------------- MODULE MembershipProofs ---------------------------
(***************************************************************************)
(* Proofs about Membership, for every number of requests, emails, accounts *)
(* and invitations and every limit.  The counter keeps its distance from   *)
(* the accounts because every statement that writes it comes with an       *)
(* account or without one that is counted; a cancellation spares what its  *)
(* invitation activated because the acceptance cannot commit between its   *)
(* look at the account and its own commit; and a request that nobody       *)
(* disturbs still finds what it has read.                                  *)
(***************************************************************************)
EXTENDS Membership, FiniteSetTheorems, TLAPS

\* No account was activated without showing it, and a cancellation that is about
\* to delete one has found one that its invitation has not activated.
CutOK ==
    /\ \A e \in Emails : ~users[e].changed => users[e].by = 0
    /\ \A e \in Emails : users[e].live => users[e].cut = 0
    /\ \A w \in Workers : job[w].at = "withdraw" =>
          LET e == invitations[job[w].inv].email
          IN  /\ job[w].gen <= users[e].gen
              /\ job[w].gen # 0 /\ job[w].gen = users[e].gen => users[e].by # job[w].inv

\* Who is still alone with an invitation to write has the last word on the email.
InvitingOK ==
    \A w \in Workers : job[w].at = "invite" /\ job[w].alone =>
        \A e \in job[w].emails : PendingTo(e) = {}

\* Who is alone finds the account it has found, and has moved the counter as much
\* as the accounts, but for the one it has still to count.
LoneOK ==
    \A w \in Workers : job[w].alone =>
        /\ job[w].at # "idle"
        /\ Drift = job[w].drift - IF job[w].at = "increment" THEN 1 ELSE 0
        /\ job[w].at = "delete" => \A e \in job[w].emails : Found(e, job[w].gen)
        /\ job[w].at = "withdraw" /\ job[w].gen # 0 =>
              Found(invitations[job[w].inv].email, job[w].gen)

IInv == /\ TypeOK
        /\ OvercountOnlyByFix
        /\ OneOpenInvitation /\ InvitingOK
        /\ CancelSparesAccepted /\ CutOK
        /\ LoneOK

-----------------------------------------------------------------------------
\* What becomes of the job of a request that does not move.
Follows(v) ==
    /\ job'[v].at = job[v].at /\ job'[v].emails = job[v].emails
    /\ job'[v].inv = job[v].inv /\ job'[v].gen = job[v].gen
    /\ job'[v].password = job[v].password
    /\ job'[v].alone = FALSE

\* What a request refers to, if it is at this statement.
Refers(j) ==
    /\ j.at \in {"resend", "cancel", "withdraw", "accept", "activate"} => j.inv \in Sent
    /\ j.at \in {"create", "increment", "invite", "delete"} => j.emails # {}

LEMMA AccountFacts ==
    ASSUME NEW a \in Account, NEW i \in {0} \cup Ids, NEW b \in BOOLEAN
    PROVE  /\ [a EXCEPT !.live = FALSE, !.on = FALSE, !.cut = i] \in Account
           /\ [a EXCEPT !.on = TRUE, !.password = TRUE, !.changed = TRUE, !.by = i] \in Account
           /\ [a EXCEPT !.password = TRUE, !.changed = TRUE] \in Account
           /\ [a EXCEPT !.on = b] \in Account
    BY DEF Account

LEMMA InvitationFacts ==
    ASSUME NEW v \in Invitation, NEW b \in BOOLEAN,
           NEW s \in {"pending", "accepted", "cancelled"}
    PROVE  /\ [v EXCEPT !.intime = b] \in Invitation
           /\ [v EXCEPT !.status = s] \in Invitation
    BY DEF Invitation

LEMMA NoJobTyped == NoJob \in Job
    BY DEF NoJob, Job

LEMMA DisturbedFacts ==
    ASSUME TypeOK, NEW v \in Workers
    PROVE  /\ Disturbed(v) \in Job
           /\ Disturbed(v).at = job[v].at /\ Disturbed(v).emails = job[v].emails
           /\ Disturbed(v).inv = job[v].inv /\ Disturbed(v).gen = job[v].gen
           /\ Disturbed(v).password = job[v].password
           /\ Disturbed(v).recounted = job[v].recounted
           /\ Disturbed(v).alone = FALSE
    <1>1. PICK j \in Job : j = job[v]
      BY DEF TypeOK
    <1>0. PICK d \in Int : d = 0
      OBVIOUS
    <1>2. PICK k : k = [j EXCEPT !.alone = FALSE, !.drift = d]
      OBVIOUS
    <1>3. /\ k \in Job /\ k.at = j.at /\ k.emails = j.emails /\ k.inv = j.inv
          /\ k.gen = j.gen /\ k.password = j.password /\ k.recounted = j.recounted
          /\ k.alone = FALSE
      BY <1>2 DEF Job
    <1>4. Disturbed(v) = k
      BY <1>0, <1>1, <1>2 DEF Disturbed
    <1> QED BY <1>1, <1>3, <1>4

LEMMA GoesFacts ==
    ASSUME TypeOK, NEW w \in Workers, NEW j \in Job, Goes(w, j)
    PROVE  /\ job' \in [Workers -> Job]
           /\ job'[w] = j
           /\ \A v \in Workers \ {w} : Follows(v) /\ job'[v].recounted = job[v].recounted
    <1>1. \A v \in Workers : job'[v] = IF v = w THEN j ELSE Disturbed(v)
      BY DEF Goes
    <1>2. ASSUME NEW v \in Workers PROVE job'[v] \in Job
      BY <1>1, DisturbedFacts
    <1>3. job' \in [Workers -> Job]
      BY <1>2 DEF Goes
    <1>4. ASSUME NEW v \in Workers \ {w}
          PROVE  Follows(v) /\ job'[v].recounted = job[v].recounted
      BY <1>1, <1>4, DisturbedFacts DEF Follows
    <1> QED BY <1>1, <1>3, <1>4

LEMMA DisturbFacts ==
    ASSUME TypeOK, Disturb
    PROVE  /\ job' \in [Workers -> Job]
           /\ \A v \in Workers : Follows(v) /\ job'[v].recounted = job[v].recounted
    <1>1. \A v \in Workers : job'[v] = Disturbed(v)
      BY DEF Disturb
    <1>2. ASSUME NEW v \in Workers PROVE job'[v] \in Job
      BY <1>1, DisturbedFacts
    <1>3. ASSUME NEW v \in Workers
          PROVE  Follows(v) /\ job'[v].recounted = job[v].recounted
      BY <1>1, <1>3, DisturbedFacts DEF Follows
    <1>4. job' \in [Workers -> Job]
      BY <1>2 DEF Disturb
    <1> QED BY <1>3, <1>4

LEMMA RecountFacts ==
    ASSUME TypeOK, Recount
    PROVE  /\ job' \in [Workers -> Job]
           /\ \A v \in Workers : /\ Follows(v)
                                 /\ job'[v].recounted = (job[v].at = "increment")
    <1>1. ASSUME NEW v \in Workers
          PROVE  /\ job'[v] \in Job /\ Follows(v)
                 /\ job'[v].recounted = (job[v].at = "increment")
      <2>1. PICK j \in Job : j = Disturbed(v)
        BY DisturbedFacts
      <2>2. PICK b \in BOOLEAN : b = (job[v].at = "increment")
        OBVIOUS
      <2>3. job'[v] = [j EXCEPT !.recounted = b]
        BY <2>1, <2>2 DEF Recount
      <2>4. /\ job'[v] \in Job /\ job'[v].recounted = b
            /\ job'[v].at = j.at /\ job'[v].emails = j.emails /\ job'[v].inv = j.inv
            /\ job'[v].gen = j.gen /\ job'[v].password = j.password
            /\ job'[v].alone = j.alone
        BY <2>1, <2>2, <2>3 DEF Job
      <2> QED BY <2>1, <2>2, <2>4, DisturbedFacts DEF Follows
    <1>2. job' \in [Workers -> Job]
      BY <1>1 DEF Recount
    <1> QED BY <1>1, <1>2

LEMMA BeginFacts ==
    ASSUME TypeOK, NEW w \in Workers, NEW j \in Job, ~j.alone, Begins(w, j)
    PROVE  /\ job' \in [Workers -> Job]
           /\ job[w] = NoJob
           /\ requests' \in 0 .. MaxRequests
           /\ \A v \in Workers \ {w} : Follows(v) /\ job'[v].recounted = job[v].recounted
           /\ job'[w].at = j.at /\ job'[w].emails = j.emails /\ job'[w].inv = j.inv
           /\ job'[w].gen = j.gen /\ job'[w].recounted = j.recounted
           /\ job'[w].alone => /\ job'[w].drift = Drift
                               /\ \A v \in Workers : job[v] = NoJob
    <1>1. requests' \in 0 .. MaxRequests
      BY BoundOK DEF TypeOK, Begins
    <1>2. PICK d \in Int : d = Drift
      <2>1. IsFiniteSet(Accounts)
        BY SetsOK, FS_Subset DEF Accounts
      <2> QED BY <2>1, FS_CardinalityType DEF Drift, TypeOK
    <1>3. PICK k : k = [j EXCEPT !.drift = d, !.alone = TRUE]
      OBVIOUS
    <1>4. /\ k \in Job /\ k.at = j.at /\ k.emails = j.emails /\ k.inv = j.inv
          /\ k.gen = j.gen /\ k.recounted = j.recounted /\ k.drift = d
      BY <1>2, <1>3 DEF Job
    <1>5. CASE \A v \in Workers : job[v] = NoJob
      <2>1. Goes(w, k)
        BY <1>2, <1>3, <1>5 DEF Begins
      <2> QED BY <1>1, <1>2, <1>4, <1>5, <2>1, GoesFacts DEF Begins
    <1>6. CASE ~\A v \in Workers : job[v] = NoJob
      <2>1. Goes(w, j)
        BY <1>6 DEF Begins
      <2> QED BY <1>1, <2>1, GoesFacts DEF Begins
    <1> QED BY <1>5, <1>6

-----------------------------------------------------------------------------
(***************************************************************************)
(* Types.                                                                  *)
(***************************************************************************)
LEMMA FiniteFacts ==
    /\ \A S \in SUBSET Emails : IsFiniteSet(S) /\ Cardinality(S) \in Nat
    /\ \A S \in SUBSET Workers : IsFiniteSet(S) /\ Cardinality(S) \in Nat
    <1>1. \A S \in SUBSET Emails : IsFiniteSet(S)
      BY SetsOK, FS_Subset
    <1>2. \A S \in SUBSET Workers : IsFiniteSet(S)
      BY SetsOK, FS_Subset
    <1> QED BY <1>1, <1>2, FS_CardinalityType

LEMMA Subsets ==
    /\ Accounts \in SUBSET Emails /\ Active \in SUBSET Emails
    /\ Uncounted \in SUBSET Workers /\ Uncounted' \in SUBSET Workers
    /\ Accounts' \in SUBSET Emails
    BY DEF Accounts, Active, Uncounted

LEMMA Longer ==
    ASSUME NEW m \in Nat, NEW n \in Nat, n >= m
    PROVE  1 .. m - 1 \subseteq 1 .. n - 1
    OBVIOUS

LEMMA TypeStep ==
    ASSUME TypeOK,
           users' \in [Emails -> Account], invitations' \in [Ids -> Invitation],
           nextId' \in 1 .. MaxInvitations + 1, nextId' >= nextId,
           count' \in Int, twice' \in Nat, requests' \in 0 .. MaxRequests,
           job' \in [Workers -> Job],
           \A v \in Workers : Follows(v) \/ Refers(job'[v])
    PROVE  TypeOK'
    <1>1. nextId \in Nat /\ nextId' \in Nat
      BY BoundOK DEF TypeOK
    <1>2. Sent \subseteq Sent'
      BY <1>1, Longer DEF Sent
    <1>3. ASSUME NEW w \in Workers
          PROVE  /\ job'[w].at \in {"resend", "cancel", "withdraw", "accept", "activate"}
                       => job'[w].inv \in Sent'
                 /\ job'[w].at \in {"create", "increment", "invite", "delete"}
                       => job'[w].emails # {}
      <2>1. CASE Follows(w)
        BY <1>2, <2>1 DEF Follows, TypeOK
      <2>2. CASE Refers(job'[w])
        BY <1>2, <2>2 DEF Refers
      <2> QED BY <2>1, <2>2
    <1> QED BY <1>3 DEF TypeOK

\* A request that only begins, or stops.
LEMMA QuietType ==
    ASSUME TypeOK, NEW w \in Workers, UNCHANGED <<users, invitations, nextId, count, twice>>,
           requests' \in 0 .. MaxRequests, job' \in [Workers -> Job],
           \A v \in Workers \ {w} : Follows(v), Refers(job'[w])
    PROVE  TypeOK'
    <1>1. nextId \in Nat
      BY BoundOK DEF TypeOK
    <1>2. \A v \in Workers : Follows(v) \/ Refers(job'[v])
      OBVIOUS
    <1> QED BY <1>1, <1>2, TypeStep DEF TypeOK

LEMMA RefersNoJob == Refers(NoJob) /\ ~NoJob.alone /\ NoJob.at = "idle"
    BY DEF Refers, NoJob

\* What a beginning request has begun with.
LEMMA Entries ==
    ASSUME TypeOK, NEW w \in Workers, NEW e \in Emails,
           NEW b \in BOOLEAN, NEW g \in Nat, NEW S \in SUBSET Emails
    PROVE  /\ [NoJob EXCEPT !.at = "create", !.emails = {e}, !.password = b] \in Job
           /\ [NoJob EXCEPT !.at = "delete", !.emails = {e}, !.gen = g] \in Job
           /\ [NoJob EXCEPT !.at = "invite", !.emails = S] \in Job
    <1>1. PICK j \in Job : j = NoJob
      BY NoJobTyped
    <1>2. /\ [j EXCEPT !.at = "create", !.emails = {e}, !.password = b] \in Job
          /\ [j EXCEPT !.at = "delete", !.emails = {e}, !.gen = g] \in Job
          /\ [j EXCEPT !.at = "invite", !.emails = S] \in Job
      BY <1>1 DEF Job
    <1> QED BY <1>1, <1>2

LEMMA EntryOnInvitation ==
    ASSUME NEW i \in {0} \cup Ids, NEW a \in {"resend", "cancel", "accept"}
    PROVE  [NoJob EXCEPT !.at = a, !.inv = i] \in Job
    <1>1. PICK j \in Job : j = NoJob
      BY NoJobTyped
    <1>2. [j EXCEPT !.at = a, !.inv = i] \in Job
      BY DEF Job
    <1> QED BY <1>1, <1>2

\* The step at which every request begins, as its proofs see it.
Starts(w) ==
    /\ UNCHANGED <<users, invitations, nextId, count, twice>>
    /\ requests' \in 0 .. MaxRequests
    /\ job' \in [Workers -> Job]
    /\ job[w] = NoJob
    /\ \A v \in Workers \ {w} : Follows(v) /\ job'[v].recounted = job[v].recounted
    /\ Refers(job'[w])
    /\ job'[w].at \notin {"idle", "increment", "withdraw"}
    /\ job'[w].alone => job'[w].drift = Drift
    /\ job'[w].at = "invite" => \A e \in job'[w].emails : PendingTo(e) = {}
    /\ job'[w].at = "delete" => \A e \in job'[w].emails : Found(e, job'[w].gen)

LEMMA CreateStarts ==
    ASSUME TypeOK, NEW w \in Workers, NEW e \in Emails, NEW b \in BOOLEAN, BeginCreate(w, e, b)
    PROVE  Starts(w)
    <1>1. PICK j \in Job : j = [NoJob EXCEPT !.at = "create", !.emails = {e}, !.password = b]
      BY Entries
    <1>2. j.at = "create" /\ j.emails = {e} /\ ~j.alone
      BY <1>1 DEF NoJob
    <1>3. Begins(w, j)
      BY <1>1 DEF BeginCreate
    <1> QED BY <1>2, <1>3, BeginFacts DEF Starts, Refers, BeginCreate

LEMMA DeleteStarts ==
    ASSUME TypeOK, NEW w \in Workers, NEW e \in Emails, BeginDelete(w, e)
    PROVE  Starts(w)
    <1>1. PICK g \in Nat : g = users[e].gen
      BY DEF TypeOK, Account
    <1>2. PICK j \in Job : j = [NoJob EXCEPT !.at = "delete", !.emails = {e}, !.gen = g]
      BY <1>1, Entries
    <1>3. j.at = "delete" /\ j.emails = {e} /\ ~j.alone /\ j.gen = g
      BY <1>2 DEF NoJob
    <1>4. Begins(w, j) /\ Found(e, g)
      BY <1>1, <1>2 DEF BeginDelete, Found
    <1> QED BY <1>3, <1>4, BeginFacts DEF Starts, Refers, BeginDelete

\* The three ways to start writing invitations.
LEMMA InviteStarts ==
    ASSUME TypeOK, NEW w \in Workers, NEW S \in SUBSET Emails, S # {},
           \A e \in S : PendingTo(e) = {},
           Begins(w, [NoJob EXCEPT !.at = "invite", !.emails = S]),
           UNCHANGED <<users, invitations, nextId, count, twice>>
    PROVE  Starts(w)
    <1>1. PICK j \in Job : j = [NoJob EXCEPT !.at = "invite", !.emails = S]
      BY Entries
    <1>2. j.at = "invite" /\ j.emails = S /\ ~j.alone
      BY <1>1 DEF NoJob
    <1>3. Begins(w, j)
      BY <1>1
    <1> QED BY <1>2, <1>3, BeginFacts DEF Starts, Refers

LEMMA ResendStarts ==
    ASSUME TypeOK, NEW w \in Workers, NEW i \in Sent, NEW a \in {"resend", "cancel", "accept"},
           Begins(w, [NoJob EXCEPT !.at = a, !.inv = i]),
           UNCHANGED <<users, invitations, nextId, count, twice>>
    PROVE  Starts(w)
    <1>0. i \in {0} \cup Ids
      BY BoundOK DEF TypeOK, Sent, Ids
    <1>1. PICK j \in Job : j = [NoJob EXCEPT !.at = a, !.inv = i]
      BY <1>0, EntryOnInvitation
    <1>2. j.at = a /\ j.inv = i /\ ~j.alone
      BY <1>1 DEF NoJob
    <1>3. Begins(w, j)
      BY <1>1
    <1> QED BY <1>2, <1>3, BeginFacts DEF Starts, Refers

LEMMA BeginsStart ==
    ASSUME TypeOK, NEW w \in Workers,
           \/ \E e \in Emails, b \in BOOLEAN : BeginCreate(w, e, b) \/ BeginInvite(w, e, b)
           \/ \E e \in Emails : BeginDelete(w, e) \/ BeginDirectory(w, e)
           \/ \E b \in BOOLEAN : BeginBulk(w, b)
           \/ \E i \in Ids : BeginResend(w, i) \/ BeginCancel(w, i) \/ BeginAccept(w, i)
    PROVE  Starts(w)
    <1>1. ASSUME NEW e \in Emails, NEW b \in BOOLEAN, BeginCreate(w, e, b) PROVE Starts(w)
      BY <1>1, CreateStarts
    <1>2. ASSUME NEW e \in Emails, NEW b \in BOOLEAN, BeginInvite(w, e, b) PROVE Starts(w)
      <2>1. PICK S \in SUBSET Emails : S = {e}
        OBVIOUS
      <2>2. S # {} /\ \A d \in S : PendingTo(d) = {}
        BY <1>2, <2>1 DEF BeginInvite
      <2>3. Begins(w, [NoJob EXCEPT !.at = "invite", !.emails = S])
        BY <1>2, <2>1 DEF BeginInvite
      <2> QED BY <1>2, <2>2, <2>3, InviteStarts DEF BeginInvite
    <1>3. ASSUME NEW e \in Emails, BeginDelete(w, e) PROVE Starts(w)
      BY <1>3, DeleteStarts
    <1>4. ASSUME NEW e \in Emails, BeginDirectory(w, e) PROVE Starts(w)
      <2>1. ASSUME NEW i \in PendingTo(e), Begins(w, [NoJob EXCEPT !.at = "resend", !.inv = i])
            PROVE  Starts(w)
        <3>1. i \in Sent
          BY DEF PendingTo, Pending
        <3> QED BY <1>4, <2>1, <3>1, ResendStarts DEF BeginDirectory
      <2>2. ASSUME PendingTo(e) = {},
                   Begins(w, [NoJob EXCEPT !.at = "invite", !.emails = {e}])
            PROVE  Starts(w)
        <3>1. PICK S \in SUBSET Emails : S = {e}
          OBVIOUS
        <3>2. S # {} /\ \A d \in S : PendingTo(d) = {}
          BY <2>2, <3>1
        <3>3. Begins(w, [NoJob EXCEPT !.at = "invite", !.emails = S])
          BY <2>2, <3>1
        <3> QED BY <1>4, <3>2, <3>3, InviteStarts DEF BeginDirectory
      <2> QED BY <1>4, <2>1, <2>2 DEF BeginDirectory
    <1>5. ASSUME NEW b \in BOOLEAN, BeginBulk(w, b) PROVE Starts(w)
      <2>1. Uninvited(b) \in SUBSET Emails /\ \A d \in Uninvited(b) : PendingTo(d) = {}
        BY DEF Uninvited, Active, Accounts
      <2> QED BY <1>5, <2>1, InviteStarts DEF BeginBulk
    <1>6. ASSUME NEW i \in Ids, BeginResend(w, i) \/ BeginCancel(w, i) \/ BeginAccept(w, i)
          PROVE  Starts(w)
      <2>1. i \in Sent
        BY <1>6 DEF BeginResend, BeginCancel, BeginAccept, Pending
      <2> QED BY <1>6, <2>1, ResendStarts DEF BeginResend, BeginCancel, BeginAccept
    <1> QED BY <1>1, <1>2, <1>3, <1>4, <1>5, <1>6

LEMMA StartsType ==
    ASSUME TypeOK, NEW w \in Workers, Starts(w) PROVE TypeOK'
    BY QuietType DEF Starts

-----------------------------------------------------------------------------
LEMMA NewAccountFacts ==
    ASSUME TypeOK, NEW e \in Emails, NEW p \in BOOLEAN, NEW c \in BOOLEAN,
           NEW i \in {0} \cup Ids
    PROVE  /\ NewAccount(e, p, c, i) \in Account
           /\ NewAccount(e, p, c, i).live /\ NewAccount(e, p, c, i).cut = 0
           /\ NewAccount(e, p, c, i).gen = users[e].gen + 1
           /\ NewAccount(e, p, c, i).by = i /\ NewAccount(e, p, c, i).changed = c
    <1>1. PICK g \in Nat : g = users[e].gen
      BY DEF TypeOK, Account
    <1>2. PICK n \in Nat : n = g + 1
      OBVIOUS
    <1>3. PICK z \in {0} \cup Ids : z = 0
      OBVIOUS
    <1>4. PICK a : a = [gen |-> n, live |-> TRUE, on |-> TRUE, password |-> p,
                        changed |-> c, by |-> i, cut |-> z]
      OBVIOUS
    <1>5. /\ a \in Account /\ a.live /\ a.cut = z /\ a.gen = n /\ a.by = i /\ a.changed = c
      BY <1>4 DEF Account
    <1>6. NewAccount(e, p, c, i) = a
      BY <1>1, <1>2, <1>3, <1>4 DEF NewAccount
    <1> QED BY <1>1, <1>2, <1>3, <1>5, <1>6

LEMMA JobMoves ==
    ASSUME NEW j \in Job, NEW g \in Nat, NEW S \in SUBSET Emails,
           NEW a \in {"increment", "withdraw", "activate"}
    PROVE  /\ [j EXCEPT !.at = a] \in Job
           /\ [j EXCEPT !.at = a, !.gen = g] \in Job
           /\ [j EXCEPT !.emails = S] \in Job
    BY DEF Job

\* An account that is written, at its email.
LEMMA Written ==
    ASSUME TypeOK, NEW e \in Emails, NEW a \in Account, users' = [users EXCEPT ![e] = a]
    PROVE  /\ users' \in [Emails -> Account]
           /\ users'[e] = a
           /\ \A d \in Emails \ {e} : users'[d] = users[d]
    BY DEF TypeOK

LEMMA WrittenInvitation ==
    ASSUME TypeOK, NEW i \in Ids, NEW v \in Invitation,
           invitations' = [invitations EXCEPT ![i] = v]
    PROVE  /\ invitations' \in [Ids -> Invitation]
           /\ invitations'[i] = v
           /\ \A k \in Ids \ {i} : invitations'[k] = invitations[k]
    BY DEF TypeOK

LEMMA CreateFacts ==
    ASSUME TypeOK, NEW w \in Workers, Create(w)
    PROVE  /\ \E e \in Emails, a \in Account :
                 /\ ~users[e].live
                 /\ a.live /\ a.cut = 0 /\ a.by = 0 /\ a.gen = users[e].gen + 1
                 /\ users' = [users EXCEPT ![e] = a]
           /\ job' \in [Workers -> Job]
           /\ \A v \in Workers \ {w} : Follows(v) /\ job'[v].recounted = job[v].recounted
           /\ job'[w].at = "increment" /\ job'[w].emails = job[w].emails
           /\ job'[w].alone = job[w].alone /\ job'[w].drift = job[w].drift
    <1>1. PICK j \in Job : j = job[w]
      BY DEF TypeOK
    <1>2. PICK e \in j.emails : Insert(e, j.password, j.password, 0)
      BY <1>1 DEF Create
    <1>3. e \in Emails /\ j.password \in BOOLEAN
      BY <1>1 DEF Job
    <1>4. PICK a : a = NewAccount(e, j.password, j.password, 0)
      OBVIOUS
    <1>5. a \in Account /\ a.live /\ a.cut = 0 /\ a.by = 0 /\ a.gen = users[e].gen + 1
      BY <1>3, <1>4, NewAccountFacts
    <1>6. ~users[e].live /\ users' = [users EXCEPT ![e] = a]
      BY <1>2, <1>4 DEF Insert, CanInsert
    <1>7. PICK k \in Job : k = [j EXCEPT !.at = "increment"]
      BY JobMoves
    <1>8. k.at = "increment" /\ k.emails = j.emails /\ k.alone = j.alone /\ k.drift = j.drift
      BY <1>7 DEF Job
    <1>9. Goes(w, k)
      BY <1>1, <1>7 DEF Create
    <1>10. /\ job' \in [Workers -> Job] /\ job'[w] = k
           /\ \A v \in Workers \ {w} : Follows(v) /\ job'[v].recounted = job[v].recounted
      BY <1>9, GoesFacts
    <1> QED BY <1>1, <1>3, <1>5, <1>6, <1>8, <1>10

LEMMA EndFacts ==
    ASSUME TypeOK, NEW w \in Workers, Ends(w)
    PROVE  /\ job' \in [Workers -> Job]
           /\ \A v \in Workers \ {w} : Follows(v) /\ job'[v].recounted = job[v].recounted
           /\ job'[w] = NoJob /\ ~job'[w].alone /\ job'[w].at = "idle"
           /\ Refers(job'[w])
    BY NoJobTyped, RefersNoJob, GoesFacts DEF Ends

\* A deletion, by an administrator or by a cancellation.
LEMMA RemovedFacts ==
    ASSUME TypeOK, NEW e \in Emails, NEW g \in Nat, NEW c \in {0} \cup Ids, Removed(e, g, c)
    PROVE  /\ users' \in [Emails -> Account]
           /\ ~Found(e, g) => users' = users
           /\ Found(e, g) => /\ ~users'[e].live /\ users'[e].cut = c
                             /\ users'[e].by = users[e].by
                             /\ users'[e].changed = users[e].changed
                             /\ users'[e].gen = users[e].gen
                             /\ \A d \in Emails \ {e} : users'[d] = users[d]
    <1>1. PICK a \in Account : a = users[e]
      BY DEF TypeOK
    <1>2. PICK b \in Account : b = [a EXCEPT !.live = FALSE, !.on = FALSE, !.cut = c]
      BY AccountFacts
    <1>3. ~b.live /\ b.cut = c /\ b.by = a.by /\ b.changed = a.changed /\ b.gen = a.gen
      BY <1>2 DEF Account
    <1>4. CASE Found(e, g)
      <2>1. users' = [users EXCEPT ![e] = b]
        BY <1>1, <1>2, <1>4 DEF Removed
      <2> QED BY <1>1, <1>3, <1>4, <2>1, Written
    <1>5. CASE ~Found(e, g)
      BY <1>5 DEF Removed, TypeOK
    <1> QED BY <1>4, <1>5

LEMMA ActivatedFacts ==
    ASSUME TypeOK, NEW e \in Emails, NEW g \in Nat, NEW i \in {0} \cup Ids, Activated(e, g, i)
    PROVE  /\ users' \in [Emails -> Account]
           /\ ~Found(e, g) => users' = users
           /\ Found(e, g) => /\ users'[e].live = users[e].live /\ users'[e].cut = users[e].cut
                             /\ users'[e].by = i /\ users'[e].changed
                             /\ users'[e].gen = users[e].gen
                             /\ \A d \in Emails \ {e} : users'[d] = users[d]
    <1>1. PICK a \in Account : a = users[e]
      BY DEF TypeOK
    <1>2. PICK b \in Account :
             b = [a EXCEPT !.on = TRUE, !.password = TRUE, !.changed = TRUE, !.by = i]
      BY AccountFacts
    <1>3. b.live = a.live /\ b.cut = a.cut /\ b.by = i /\ b.changed /\ b.gen = a.gen
      BY <1>2 DEF Account
    <1>4. CASE Found(e, g)
      <2>1. users' = [users EXCEPT ![e] = b]
        BY <1>1, <1>2, <1>4 DEF Activated
      <2> QED BY <1>1, <1>3, <1>4, <2>1, Written
    <1>5. CASE ~Found(e, g)
      BY <1>5 DEF Activated, TypeOK
    <1> QED BY <1>4, <1>5

LEMMA EditedFacts ==
    ASSUME TypeOK, NEW e \in Emails, SetPassword(e) \/ \E on \in BOOLEAN : SetStatus(e, on)
    PROVE  /\ users' \in [Emails -> Account]
           /\ users'[e].live = users[e].live /\ users'[e].cut = users[e].cut
           /\ users'[e].by = users[e].by /\ users'[e].gen = users[e].gen
           /\ ~users'[e].changed => ~users[e].changed
           /\ \A d \in Emails \ {e} : users'[d] = users[d]
           /\ job' \in [Workers -> Job]
           /\ \A v \in Workers : Follows(v) /\ job'[v].recounted = job[v].recounted
    <1>1. PICK a \in Account : a = users[e]
      BY DEF TypeOK
    <1>2. PICK b \in Account :
             /\ users' = [users EXCEPT ![e] = b]
             /\ b.live = a.live /\ b.cut = a.cut /\ b.by = a.by /\ b.gen = a.gen
             /\ ~b.changed => ~a.changed
      <2>1. CASE SetPassword(e)
        <3>1. PICK b : b = [a EXCEPT !.password = TRUE, !.changed = TRUE]
          OBVIOUS
        <3>2. /\ b \in Account /\ b.live = a.live /\ b.cut = a.cut /\ b.by = a.by
              /\ b.gen = a.gen /\ b.changed
          BY <3>1 DEF Account
        <3>3. users' = [users EXCEPT ![e] = b]
          BY <1>1, <2>1, <3>1 DEF SetPassword
        <3> QED BY <3>2, <3>3
      <2>2. CASE \E on \in BOOLEAN : SetStatus(e, on)
        <3>1. PICK on \in BOOLEAN : SetStatus(e, on)
          BY <2>2
        <3>2. PICK b : b = [a EXCEPT !.on = on]
          OBVIOUS
        <3>3. /\ b \in Account /\ b.live = a.live /\ b.cut = a.cut /\ b.by = a.by
              /\ b.gen = a.gen /\ b.changed = a.changed
          BY <3>2 DEF Account
        <3>4. users' = [users EXCEPT ![e] = b]
          BY <1>1, <3>1, <3>2 DEF SetStatus
        <3> QED BY <3>3, <3>4
      <2> QED BY <2>1, <2>2
    <1>3. Disturb
      BY DEF SetPassword, SetStatus
    <1> QED BY <1>1, <1>2, <1>3, Written, DisturbFacts

-----------------------------------------------------------------------------
LEMMA IdFacts ==
    ASSUME TypeOK
    PROVE  /\ nextId \in Nat /\ nextId >= 1 /\ Sent \subseteq Ids /\ nextId \notin Sent
           /\ \A i \in Ids : invitations[i].email \in Emails
           /\ nextId <= MaxInvitations => nextId \in Ids /\ nextId + 1 \in 1 .. MaxInvitations + 1
    <1>1. nextId \in Nat /\ nextId >= 1 /\ nextId <= MaxInvitations + 1 /\ MaxInvitations \in Nat
      BY BoundOK DEF TypeOK
    <1>2. Sent \subseteq Ids /\ nextId \notin Sent
      BY <1>1 DEF Sent, Ids
    <1>3. nextId <= MaxInvitations => nextId \in Ids /\ nextId + 1 \in 1 .. MaxInvitations + 1
      BY <1>1 DEF Ids
    <1>4. \A i \in Ids : invitations[i].email \in Emails
      BY DEF TypeOK, Invitation
    <1> QED BY <1>1, <1>2, <1>3, <1>4

\* What an update of the invitations leaves as it was.
SameMail == \A k \in Ids : /\ invitations'[k].email = invitations[k].email
                           /\ invitations'[k].raced = invitations[k].raced
                           /\ invitations'[k].status = "pending"
                                => invitations[k].status = "pending"

LEMMA UpdateFacts ==
    ASSUME TypeOK, NEW i \in Ids, NEW b \in BOOLEAN, NEW s \in {"accepted", "cancelled"},
           \/ invitations' = [invitations EXCEPT ![i] = [@ EXCEPT !.intime = b]]
           \/ invitations' = [invitations EXCEPT ![i] = [@ EXCEPT !.status = s]]
    PROVE  invitations' \in [Ids -> Invitation] /\ SameMail
    <1>1. PICK u \in Invitation : u = invitations[i]
      BY DEF TypeOK
    <1>2. PICK v \in Invitation : /\ invitations' = [invitations EXCEPT ![i] = v]
                                  /\ v.email = u.email /\ v.raced = u.raced
                                  /\ v.status = "pending" => u.status = "pending"
      <2>1. CASE invitations' = [invitations EXCEPT ![i] = [@ EXCEPT !.intime = b]]
        <3>1. PICK v \in Invitation : v = [u EXCEPT !.intime = b]
          BY InvitationFacts
        <3>2. v.email = u.email /\ v.raced = u.raced /\ v.status = u.status
          BY <3>1 DEF Invitation
        <3> QED BY <1>1, <2>1, <3>1, <3>2
      <2>2. CASE invitations' = [invitations EXCEPT ![i] = [@ EXCEPT !.status = s]]
        <3>1. PICK v \in Invitation : v = [u EXCEPT !.status = s]
          BY InvitationFacts
        <3>2. v.email = u.email /\ v.raced = u.raced /\ v.status = s
          BY <3>1 DEF Invitation
        <3> QED BY <1>1, <2>2, <3>1, <3>2
      <2> QED BY <2>1, <2>2
    <1>3. invitations' \in [Ids -> Invitation] /\ invitations'[i] = v
          /\ \A k \in Ids \ {i} : invitations'[k] = invitations[k]
      BY <1>2, WrittenInvitation
    <1> QED BY <1>1, <1>2, <1>3 DEF SameMail

LEMMA InviteFacts ==
    ASSUME TypeOK, NEW w \in Workers, Invite(w)
    PROVE  /\ nextId \in Ids /\ nextId' = nextId + 1
           /\ \E e \in job[w].emails, v \in Invitation :
                 /\ invitations' = [invitations EXCEPT ![nextId] = v]
                 /\ v.email = e /\ v.raced = ~job[w].alone
                 /\ \/ job'[w] = NoJob
                    \/ /\ job'[w].at = "invite"
                       /\ job'[w].emails = job[w].emails \ {e}
                       /\ job'[w].emails # {}
                       /\ job'[w].alone = job[w].alone /\ job'[w].drift = job[w].drift
           /\ job' \in [Workers -> Job]
           /\ \A k \in Workers \ {w} : Follows(k) /\ job'[k].recounted = job[k].recounted
    <1>1. PICK j \in Job : j = job[w]
      BY DEF TypeOK
    <1>2. PICK e \in j.emails :
             /\ invitations' = [invitations EXCEPT ![nextId] =
                   [email |-> e, status |-> "pending", intime |-> TRUE, raced |-> ~j.alone]]
             /\ IF j.emails = {e} THEN Ends(w) ELSE Goes(w, [j EXCEPT !.emails = @ \ {e}])
      BY <1>1 DEF Invite
    <1>3. e \in Emails /\ j.alone \in BOOLEAN /\ j.emails \in SUBSET Emails /\ j.at = "invite"
      BY <1>1 DEF Job, Invite
    <1>4. PICK v : v = [email |-> e, status |-> "pending", intime |-> TRUE, raced |-> ~j.alone]
      OBVIOUS
    <1>5. v \in Invitation /\ v.email = e /\ v.raced = ~j.alone
      BY <1>3, <1>4 DEF Invitation
    <1>6. nextId \in Ids /\ nextId' = nextId + 1
      BY IdFacts DEF Invite
    <1>7. CASE j.emails = {e}
      BY <1>1, <1>2, <1>4, <1>5, <1>6, <1>7, EndFacts
    <1>8. CASE j.emails # {e}
      <2>1. PICK S \in SUBSET Emails : S = j.emails \ {e} /\ S # {}
        BY <1>2, <1>3, <1>8
      <2>2. PICK k \in Job : k = [j EXCEPT !.emails = S]
        BY JobMoves
      <2>3. k.at = "invite" /\ k.emails = S /\ k.alone = j.alone /\ k.drift = j.drift
        BY <1>3, <2>2 DEF Job
      <2>4. Goes(w, k)
        BY <1>2, <1>8, <2>1, <2>2
      <2>5. /\ job' \in [Workers -> Job] /\ job'[w] = k
            /\ \A x \in Workers \ {w} : Follows(x) /\ job'[x].recounted = job[x].recounted
        BY <2>4, GoesFacts
      <2> QED BY <1>1, <1>2, <1>4, <1>5, <1>6, <2>1, <2>3, <2>5
    <1> QED BY <1>7, <1>8

\* The lookups inside the two transactions.
LEMMA LookFacts ==
    ASSUME TypeOK, NEW w \in Workers, LockAndLook(w) \/ LookUp(w)
    PROVE  /\ job[w].inv \in Sent
           /\ job' \in [Workers -> Job]
           /\ \A v \in Workers \ {w} : Follows(v) /\ job'[v].recounted = job[v].recounted
           /\ job'[w].inv = job[w].inv
           /\ job'[w].alone = job[w].alone /\ job'[w].drift = job[w].drift
           /\ LockAndLook(w) => /\ job'[w].at = "withdraw"
                                /\ job'[w].gen = Unactivated(invitations[job[w].inv].email)
           /\ LookUp(w) => job'[w].at = "activate"
           /\ Refers(job'[w])
           /\ job[w].at # "increment"
    <1>1. PICK j \in Job : j = job[w]
      BY DEF TypeOK
    <1>2. job[w].inv \in Sent /\ job[w].at # "increment"
      BY DEF LockAndLook, LookUp, TypeOK
    <1>3. invitations[job[w].inv].email \in Emails
      BY <1>2, IdFacts
    <1>4. \A e \in Emails : Unactivated(e) \in Nat /\ Existing(e) \in Nat
      BY DEF Unactivated, Existing, TypeOK, Account
    <1>5. PICK a \in {"withdraw", "activate"}, g \in Nat :
             /\ Goes(w, [job[w] EXCEPT !.at = a, !.gen = g])
             /\ LockAndLook(w) => a = "withdraw" /\ g = Unactivated(invitations[job[w].inv].email)
             /\ LookUp(w) => a = "activate"
      <2>1. CASE LockAndLook(w)
        <3>1. PICK g \in Nat : g = Unactivated(invitations[job[w].inv].email)
          BY <1>3, <1>4
        <3>2. ~LookUp(w)
          BY <2>1 DEF LockAndLook, LookUp
        <3>3. Goes(w, [job[w] EXCEPT !.at = "withdraw", !.gen = g])
          BY <2>1, <3>1 DEF LockAndLook
        <3> QED BY <3>1, <3>2, <3>3
      <2>2. CASE LookUp(w)
        <3>1. PICK g \in Nat : g = Existing(invitations[job[w].inv].email)
          BY <1>3, <1>4
        <3>2. ~LockAndLook(w)
          BY <2>2 DEF LockAndLook, LookUp
        <3>3. Goes(w, [job[w] EXCEPT !.at = "activate", !.gen = g])
          BY <2>2, <3>1 DEF LookUp
        <3> QED BY <3>1, <3>2, <3>3
      <2> QED BY <2>1, <2>2
    <1>6. PICK k \in Job : k = [j EXCEPT !.at = a, !.gen = g]
      BY JobMoves
    <1>7. k.at = a /\ k.gen = g /\ k.inv = j.inv /\ k.alone = j.alone /\ k.drift = j.drift
      BY <1>6 DEF Job
    <1>8. Goes(w, k)
      BY <1>1, <1>5, <1>6
    <1>9. /\ job' \in [Workers -> Job] /\ job'[w] = k
          /\ \A v \in Workers \ {w} : Follows(v) /\ job'[v].recounted = job[v].recounted
      BY <1>8, GoesFacts
    <1> QED BY <1>1, <1>2, <1>5, <1>7, <1>9 DEF Refers

\* The commits of a cancellation and of an acceptance.
LEMMA CommitFacts ==
    ASSUME TypeOK, NEW w \in Workers, Withdraw(w) \/ Activate(w)
    PROVE  /\ job[w].inv \in Sent /\ job[w].inv \in Ids /\ job[w].gen \in Nat
           /\ invitations[job[w].inv].email \in Emails
           /\ invitations' \in [Ids -> Invitation] /\ SameMail
           /\ Ends(w)
    <1>1. job[w].inv \in Sent
      BY DEF Withdraw, Activate, TypeOK
    <1>2. job[w].inv \in Ids /\ invitations[job[w].inv].email \in Emails
      BY <1>1, IdFacts
    <1>3. job[w].gen \in Nat
      BY DEF TypeOK, Job
    <1>4. PICK s \in {"accepted", "cancelled"} :
             invitations' = [invitations EXCEPT ![job[w].inv] = [@ EXCEPT !.status = s]]
      BY DEF Withdraw, Activate
    <1>5. invitations' \in [Ids -> Invitation] /\ SameMail
      BY <1>2, <1>4, UpdateFacts
    <1>6. Ends(w)
      BY DEF Withdraw, Activate
    <1> QED BY <1>1, <1>2, <1>3, <1>5, <1>6

-----------------------------------------------------------------------------
(***************************************************************************)
(* Cardinalities.                                                          *)
(***************************************************************************)
LEMMA AccountsSame ==
    ASSUME \A e \in Emails : users'[e].live = users[e].live
    PROVE  Accounts' = Accounts
    BY DEF Accounts

LEMMA AccountsGain ==
    ASSUME NEW e \in Emails, ~users[e].live, users'[e].live,
           \A d \in Emails \ {e} : users'[d] = users[d]
    PROVE  Cardinality(Accounts') = Cardinality(Accounts) + 1
    <1>1. Accounts' = Accounts \cup {e} /\ e \notin Accounts
      BY DEF Accounts
    <1> QED BY <1>1, Subsets, FiniteFacts, FS_AddElement

LEMMA AccountsLose ==
    ASSUME NEW e \in Emails, users[e].live, ~users'[e].live,
           \A d \in Emails \ {e} : users'[d] = users[d]
    PROVE  Cardinality(Accounts') = Cardinality(Accounts) - 1
    <1>1. Accounts' = Accounts \ {e} /\ e \in Accounts
      BY DEF Accounts
    <1> QED BY <1>1, Subsets, FiniteFacts, FS_RemoveElement

LEMMA AccountsImported ==
    ASSUME NEW S \in SUBSET Emails, S \cap Accounts = {}, Accounts' = Accounts \cup S
    PROVE  Cardinality(Accounts') = Cardinality(Accounts) + Cardinality(S)
    <1>1. IsFiniteSet(S) /\ IsFiniteSet(Accounts)
      BY Subsets, FiniteFacts
    <1>2. Cardinality(Accounts') =
             Cardinality(Accounts) + Cardinality(S) - Cardinality(Accounts \cap S)
      BY <1>1, FS_Union
    <1>3. Cardinality(Accounts \cap S) = 0
      BY FS_EmptySet
    <1> QED BY <1>1, <1>2, <1>3, Subsets, FiniteFacts

\* The requests that have still to count, when only w moves.
Moves(w) == \A v \in Workers \ {w} : Follows(v) /\ job'[v].recounted = job[v].recounted

LEMMA UncountedLess ==
    ASSUME NEW w \in Workers, Moves(w), job'[w].at # "increment"
    PROVE  /\ Cardinality(Uncounted') <= Cardinality(Uncounted)
           /\ job[w].at = "increment" /\ ~job[w].recounted =>
                 Cardinality(Uncounted') = Cardinality(Uncounted) - 1
    <1>1. Uncounted' = Uncounted \ {w}
      BY DEF Uncounted, Moves, Follows
    <1>2. IsFiniteSet(Uncounted) /\ Cardinality(Uncounted) \in Nat /\ Cardinality(Uncounted') \in Nat
      BY Subsets, FiniteFacts
    <1>3. CASE w \in Uncounted
      <2>1. Cardinality(Uncounted \ {w}) = Cardinality(Uncounted) - 1
        BY <1>2, <1>3, FS_RemoveElement
      <2>2. Cardinality(Uncounted') = Cardinality(Uncounted) - 1
        BY <1>1, <2>1
      <2> QED BY <1>2, <2>2
    <1>4. CASE w \notin Uncounted
      <2>1. Uncounted' = Uncounted
        BY <1>1, <1>4
      <2>2. ~(job[w].at = "increment" /\ ~job[w].recounted)
        BY <1>4 DEF Uncounted
      <2> QED BY <1>2, <2>1, <2>2
    <1> QED BY <1>3, <1>4

LEMMA UncountedMore ==
    ASSUME NEW w \in Workers, Moves(w)
    PROVE  Cardinality(Uncounted') <= Cardinality(Uncounted) + 1
    <1>1. Uncounted' \subseteq Uncounted \cup {w}
      BY DEF Uncounted, Moves, Follows
    <1>2. IsFiniteSet(Uncounted) /\ Cardinality(Uncounted) \in Nat /\ Cardinality(Uncounted') \in Nat
      BY Subsets, FiniteFacts
    <1>3. IsFiniteSet(Uncounted \cup {w})
          /\ Cardinality(Uncounted \cup {w}) \in {Cardinality(Uncounted), Cardinality(Uncounted) + 1}
      BY <1>2, FS_AddElement
    <1>4. Cardinality(Uncounted') <= Cardinality(Uncounted \cup {w})
      BY <1>1, <1>3, FS_Subset
    <1> QED BY <1>2, <1>3, <1>4

LEMMA UncountedSame ==
    ASSUME \A v \in Workers : Follows(v) /\ job'[v].recounted = job[v].recounted
    PROVE  Uncounted' = Uncounted
    BY DEF Uncounted, Follows

-----------------------------------------------------------------------------
(***************************************************************************)
(* The remaining actions.                                                  *)
(***************************************************************************)
\* A deletion takes its account off, or finds it gone.
LEMMA DeleteFacts ==
    ASSUME TypeOK, NEW w \in Workers, Delete(w)
    PROVE  /\ \E e \in job[w].emails : e \in Emails /\ Removed(e, job[w].gen, 0)
           /\ job[w].gen \in Nat
           /\ users' \in [Emails -> Account]
           /\ Ends(w)
    <1>1. PICK j \in Job : j = job[w]
      BY DEF TypeOK
    <1>2. PICK e \in j.emails : Removed(e, j.gen, 0)
      BY <1>1 DEF Delete
    <1>3. e \in Emails /\ j.gen \in Nat
      BY <1>1 DEF Job
    <1>4. PICK z \in {0} \cup Ids : z = 0
      OBVIOUS
    <1>5. users' \in [Emails -> Account]
      BY <1>2, <1>3, <1>4, RemovedFacts
    <1> QED BY <1>1, <1>2, <1>3, <1>5 DEF Delete

LEMMA Truth ==
    ASSUME NEW a, NEW A PROVE \E p \in BOOLEAN : p = (a \in A)
    <1>1. CASE a \in A
      <2>1. (a \in A) = TRUE
        BY <1>1
      <2> QED BY <2>1
    <1>2. CASE a \notin A
      <2>1. (a \in A) = FALSE
        BY <1>2
      <2> QED BY <2>1
    <1> QED BY <1>1, <1>2

LEMMA ImportFacts ==
    ASSUME TypeOK, NEW S \in SUBSET Emails, NEW P \in SUBSET S, Import(S, P)
    PROVE  /\ users' \in [Emails -> Account]
           /\ \A e \in S : /\ ~users[e].live /\ users'[e].live
                           /\ users'[e].gen = users[e].gen + 1
                           /\ users'[e].cut = 0 /\ users'[e].by = 0
           /\ \A e \in Emails \ S : users'[e] = users[e]
           /\ job' \in [Workers -> Job]
           /\ \A v \in Workers : Follows(v) /\ job'[v].recounted = job[v].recounted
    <1>1. \A e \in Emails : users'[e] = IF e \in S THEN NewAccount(e, e \in P, FALSE, 0)
                                        ELSE users[e]
      BY DEF Import, ImportOf
    <1>2. ASSUME NEW e \in S
          PROVE  /\ ~users[e].live /\ users'[e].live /\ users'[e] \in Account
                 /\ users'[e].gen = users[e].gen + 1
                 /\ users'[e].cut = 0 /\ users'[e].by = 0
      <2>1. PICK p \in BOOLEAN : p = (e \in P)
        BY Truth
      <2>2. PICK c \in BOOLEAN, z \in {0} \cup Ids : c = FALSE /\ z = 0
        OBVIOUS
      <2>4. PICK a : a = NewAccount(e, p, c, z)
        OBVIOUS
      <2>5. users'[e] = a
        BY <1>1, <2>1, <2>2, <2>4
      <2>6. a \in Account /\ a.live /\ a.cut = 0 /\ a.by = 0 /\ a.gen = users[e].gen + 1
        BY <2>2, <2>4, NewAccountFacts
      <2>3. ~users[e].live
        BY DEF Import, ImportOf, CanInsert
      <2> QED BY <2>3, <2>5, <2>6
    <1>3. users' \in [Emails -> Account]
      <2>1. ASSUME NEW e \in Emails PROVE users'[e] \in Account
        BY <1>1, <1>2 DEF TypeOK
      <2> QED BY <2>1 DEF Import, ImportOf
    <1>4. Disturb
      BY DEF Import
    <1> QED BY <1>1, <1>2, <1>3, <1>4, DisturbFacts

LEMMA ExpireFacts ==
    ASSUME TypeOK, NEW i \in Ids, Expire(i)
    PROVE  /\ invitations' \in [Ids -> Invitation] /\ SameMail
           /\ job' \in [Workers -> Job]
           /\ \A v \in Workers : Follows(v) /\ job'[v].recounted = job[v].recounted
    BY UpdateFacts, DisturbFacts DEF Expire

LEMMA ResendFacts ==
    ASSUME TypeOK, NEW w \in Workers, Resend(w)
    PROVE  invitations' \in [Ids -> Invitation] /\ SameMail /\ Ends(w)
    <1>1. job[w].inv \in Ids
      BY IdFacts DEF Resend, TypeOK
    <1> QED BY <1>1, UpdateFacts DEF Resend

LEMMA InsertedFacts ==
    ASSUME TypeOK, NEW e \in Emails, NEW i \in {0} \cup Ids, Insert(e, TRUE, TRUE, i)
    PROVE  /\ users' \in [Emails -> Account]
           /\ ~users[e].live /\ users'[e].live
           /\ users'[e].gen = users[e].gen + 1
           /\ users'[e].cut = 0 /\ users'[e].changed
           /\ \A d \in Emails \ {e} : users'[d] = users[d]
    <1>1. PICK p \in BOOLEAN, c \in BOOLEAN : p = TRUE /\ c = TRUE
      OBVIOUS
    <1>2. PICK a : a = NewAccount(e, p, c, i)
      OBVIOUS
    <1>3. a \in Account /\ a.live /\ a.cut = 0 /\ a.gen = users[e].gen + 1 /\ a.changed = c
      BY <1>2, NewAccountFacts
    <1>4. ~users[e].live /\ users' = [users EXCEPT ![e] = a]
      BY <1>1, <1>2 DEF Insert, CanInsert
    <1>5. /\ users' \in [Emails -> Account] /\ users'[e] = a
          /\ \A d \in Emails \ {e} : users'[d] = users[d]
      BY <1>3, <1>4, Written
    <1>6. a.changed
      BY <1>1, <1>3
    <1> QED BY <1>3, <1>4, <1>5, <1>6

\* An acceptance makes an account, or activates one that is there, or finds it gone.
LEMMA ActivateFacts ==
    ASSUME TypeOK, NEW w \in Workers, Activate(w),
           NEW i, i = job[w].inv, NEW e, e = invitations[i].email
    PROVE  /\ users' \in [Emails -> Account]
           /\ i \notin Locked
           /\ \/ job[w].gen # 0 /\ count' = count /\ Activated(e, job[w].gen, i)
              \/ /\ count' = count + 1
                 /\ ~users[e].live /\ users'[e].live
                 /\ users'[e].gen = users[e].gen + 1
                 /\ users'[e].cut = 0 /\ users'[e].changed
                 /\ \A d \in Emails \ {e} : users'[d] = users[d]
    <1>1. e \in Emails /\ i \in {0} \cup Ids /\ job[w].gen \in Nat
      BY CommitFacts
    <1>2. i \notin Locked
      BY DEF Activate
    <1>3. CASE job[w].gen # 0
      <2>1. Activated(e, job[w].gen, i) /\ count' = count
        BY <1>3 DEF Activate
      <2> QED BY <1>1, <1>2, <1>3, <2>1, ActivatedFacts
    <1>4. CASE job[w].gen = 0
      <2>1. Insert(e, TRUE, TRUE, i) /\ count' = count + 1
        BY <1>4 DEF Activate
      <2> QED BY <1>1, <1>2, <2>1, InsertedFacts
    <1> QED BY <1>3, <1>4

\* A cancellation commits: with a deletion, or without one.
LEMMA WithdrawFacts ==
    ASSUME TypeOK, NEW w \in Workers, Withdraw(w),
           NEW i, i = job[w].inv, NEW e, e = invitations[i].email
    PROVE  /\ users' \in [Emails -> Account]
           /\ \/ job[w].gen # 0 /\ count' = count - 1 /\ Removed(e, job[w].gen, i)
              \/ job[w].gen = 0 /\ count' = count /\ users' = users
    <1>1. e \in Emails /\ i \in {0} \cup Ids /\ job[w].gen \in Nat
      BY CommitFacts
    <1>3. CASE job[w].gen # 0
      <2>1. Removed(e, job[w].gen, i) /\ count' = count - 1
        BY <1>3 DEF Withdraw
      <2> QED BY <1>1, <1>3, <2>1, RemovedFacts
    <1>4. CASE job[w].gen = 0
      BY <1>4 DEF Withdraw, TypeOK
    <1> QED BY <1>3, <1>4

-----------------------------------------------------------------------------
LEMMA InitInv == ASSUME Init PROVE IInv
    <1>1. PICK f \in Emails :
             users = [e \in Emails |-> IF e = f
                                       THEN [NoAccount EXCEPT !.gen = 1, !.live = TRUE,
                                                !.on = TRUE, !.password = TRUE, !.changed = TRUE]
                                       ELSE NoAccount]
      BY DEF Init
    <1>2. PICK a \in Account : a = NoAccount
      BY DEF Account, NoAccount
    <1>3. ~a.live /\ a.cut = 0 /\ a.by = 0 /\ a.gen = 0 /\ ~a.changed
      BY <1>2 DEF NoAccount
    <1>4. PICK b : b = [a EXCEPT !.gen = 1, !.live = TRUE, !.on = TRUE, !.password = TRUE,
                                 !.changed = TRUE]
      OBVIOUS
    <1>5. b \in Account /\ b.live /\ b.cut = a.cut /\ b.by = a.by
      BY <1>4 DEF Account
    <1>6. users = [e \in Emails |-> IF e = f THEN b ELSE a]
      BY <1>1, <1>2, <1>4
    <1>7. /\ users \in [Emails -> Account]
          /\ \A e \in Emails : users[e].cut = 0 /\ users[e].by = 0
      BY <1>3, <1>5, <1>6
    <1>8. invitations \in [Ids -> Invitation]
      <2>1. PICK m : m = CHOOSE e \in Emails : TRUE
        OBVIOUS
      <2>2. m \in Emails
        BY <2>1
      <2>3. PICK v : v = [email |-> m, status |-> "cancelled", intime |-> FALSE, raced |-> FALSE]
        OBVIOUS
      <2>4. v \in Invitation
        BY <2>2, <2>3 DEF Invitation
      <2>5. invitations = [i \in Ids |-> v]
        BY <2>1, <2>3 DEF Init
      <2> QED BY <2>4, <2>5
    <1>9. /\ nextId = 1 /\ count = 1 /\ requests = 0 /\ twice = 0
          /\ \A w \in Workers : job[w] = NoJob
          /\ job \in [Workers -> Job]
      BY NoJobTyped DEF Init
    <1>10. \A w \in Workers : job[w].at = "idle" /\ ~job[w].alone
      BY <1>9 DEF NoJob
    <1>11. TypeOK
      <2>1. nextId \in 1 .. MaxInvitations + 1 /\ requests \in 0 .. MaxRequests
        BY <1>9, BoundOK
      <2> QED BY <1>7, <1>8, <1>9, <1>10, <2>1 DEF TypeOK
    <1>12. OvercountOnlyByFix
      <2>1. Accounts = {f} /\ Uncounted = {}
        BY <1>3, <1>5, <1>6, <1>10 DEF Accounts, Uncounted
      <2>2. Cardinality(Accounts) = 1 /\ Cardinality(Uncounted) = 0
        BY <2>1, FS_Singleton, FS_EmptySet
      <2> QED BY <1>9, <2>2 DEF OvercountOnlyByFix
    <1>13. OneOpenInvitation
      <2>1. Pending = {}
        BY <1>9 DEF Pending, Sent
      <2> QED BY <2>1 DEF OneOpenInvitation
    <1>14. InvitingOK /\ LoneOK
      BY <1>10 DEF InvitingOK, LoneOK
    <1>15. CancelSparesAccepted /\ CutOK
      BY <1>7, <1>10 DEF CancelSparesAccepted, CutOK
    <1> QED BY <1>11, <1>12, <1>13, <1>14, <1>15 DEF IInv

-----------------------------------------------------------------------------
(***************************************************************************)
(* What each step must show to keep the parts of the invariant.            *)
(***************************************************************************)
\* How a step may treat the account of an email.
Leaves(e) ==
    /\ users'[e].cut = users[e].cut /\ users'[e].by = users[e].by
    /\ users'[e].gen = users[e].gen
    /\ users'[e].live => users[e].live
    /\ ~users'[e].changed => ~users[e].changed
Makes(e) ==
    /\ users'[e].gen = users[e].gen + 1
    /\ users'[e].cut = 0
    /\ users'[e].changed \/ users'[e].by = 0
Strikes(e) ==
    /\ ~users'[e].live
    /\ users'[e].cut # 0 => users'[e].cut # users[e].by
    /\ users'[e].by = users[e].by /\ users'[e].gen = users[e].gen
    /\ users'[e].changed = users[e].changed
Takes(e) ==
    /\ users[e].cut = 0 /\ users'[e].cut = 0
    /\ users'[e].gen = users[e].gen
    /\ users'[e].changed
    /\ users'[e].by \notin Locked

\* A cancellation in flight that still holds what it held.
Holds(v) ==
    /\ job[v].at = "withdraw"
    /\ job'[v].inv = job[v].inv /\ job'[v].gen = job[v].gen
    /\ invitations'[job[v].inv].email = invitations[job[v].inv].email

LEMMA CutStep ==
    ASSUME TypeOK, CutOK, CancelSparesAccepted,
           \A e \in Emails : Leaves(e) \/ Makes(e) \/ Strikes(e) \/ Takes(e),
           \A v \in Workers : job'[v].at = "withdraw" => Holds(v)
    PROVE  CutOK' /\ CancelSparesAccepted'
    <1>0. \A e \in Emails : users[e].gen \in Nat
      BY DEF TypeOK, Account
    <1>1. ASSUME NEW e \in Emails
          PROVE  /\ ~users'[e].changed => users'[e].by = 0
                 /\ users'[e].live => users'[e].cut = 0
                 /\ users'[e].cut # 0 => users'[e].by # users'[e].cut
      BY DEF CutOK, CancelSparesAccepted, Leaves, Makes, Strikes, Takes
    <1>2. ASSUME NEW v \in Workers, job'[v].at = "withdraw",
                 NEW e \in Emails, e = invitations'[job'[v].inv].email
          PROVE  /\ job'[v].gen <= users'[e].gen
                 /\ job'[v].gen # 0 /\ job'[v].gen = users'[e].gen => users'[e].by # job'[v].inv
      <2>1. Holds(v) /\ e = invitations[job[v].inv].email
        BY <1>2 DEF Holds
      <2>2. /\ job[v].gen <= users[e].gen
            /\ job[v].gen # 0 /\ job[v].gen = users[e].gen => users[e].by # job[v].inv
        BY <2>1 DEF CutOK, Holds
      <2>3. job[v].gen \in Nat /\ users[e].gen \in Nat
        BY <1>0 DEF TypeOK, Job
      <2>4. CASE Leaves(e) \/ Strikes(e)
        BY <2>1, <2>2, <2>4 DEF Leaves, Strikes, Holds
      <2>5. CASE Makes(e)
        BY <2>1, <2>2, <2>3, <2>5 DEF Makes, Holds
      <2>6. CASE Takes(e)
        <3>1. job[v].inv \in Locked
          BY <2>1 DEF Locked, Holds
        <3> QED BY <2>1, <2>2, <2>6, <3>1 DEF Takes, Holds
      <2> QED BY <2>4, <2>5, <2>6
    <1>3. ASSUME NEW v \in Workers, job'[v].at = "withdraw"
          PROVE  invitations'[job'[v].inv].email \in Emails
      <2>1. Holds(v)
        BY <1>3
      <2>2. job[v].inv \in Sent
        BY <2>1 DEF Holds, TypeOK
      <2> QED BY <2>1, <2>2, IdFacts DEF Holds
    <1> QED BY <1>1, <1>2, <1>3 DEF CutOK, CancelSparesAccepted

LEMMA OpenStep ==
    ASSUME TypeOK, OneOpenInvitation, SameMail, nextId' = nextId
    PROVE  OneOpenInvitation' /\ \A e \in Emails : PendingTo(e)' \subseteq PendingTo(e)
    <1>1. Sent' = Sent /\ Sent \subseteq Ids
      BY IdFacts DEF Sent
    <1>2. Pending' \subseteq Pending
      BY <1>1 DEF Pending, SameMail
    <1>3. \A i \in Pending' : /\ invitations'[i].email = invitations[i].email
                              /\ invitations'[i].raced = invitations[i].raced
      BY <1>1 DEF Pending, SameMail
    <1>4. OneOpenInvitation'
      BY <1>2, <1>3 DEF OneOpenInvitation
    <1> QED BY <1>2, <1>3, <1>4 DEF PendingTo

LEMMA HoldsStep ==
    ASSUME TypeOK, SameMail, NEW v \in Workers, Follows(v), job'[v].at = "withdraw"
    PROVE  Holds(v)
    <1>1. job[v].inv \in Ids
      BY IdFacts DEF TypeOK, Follows
    <1> QED BY <1>1 DEF Follows, Holds, SameMail

\* A step after which nobody who was alone is: a request ends, or something happens
\* that is no request's.
LEMMA SettlesKeeps ==
    ASSUME IInv,
           users' \in [Emails -> Account], invitations' \in [Ids -> Invitation], SameMail,
           nextId' = nextId, requests' = requests, count' \in Int, twice' \in Nat,
           job' \in [Workers -> Job],
           \A v \in Workers : Follows(v) \/ job'[v] = NoJob,
           \A e \in Emails : Leaves(e) \/ Makes(e) \/ Strikes(e) \/ Takes(e),
           OvercountOnlyByFix'
    PROVE  IInv'
    <1>1. TypeOK /\ OneOpenInvitation /\ CutOK /\ CancelSparesAccepted
      BY DEF IInv
    <1>2. \A v \in Workers : Follows(v) \/ Refers(job'[v])
      BY RefersNoJob
    <1>3. nextId' \in 1 .. MaxInvitations + 1 /\ nextId' >= nextId /\ requests' \in 0 .. MaxRequests
      BY <1>1, IdFacts DEF TypeOK
    <1>4. TypeOK'
      BY <1>1, <1>2, <1>3, TypeStep
    <1>5. \A v \in Workers : ~job'[v].alone
      BY RefersNoJob DEF Follows
    <1>6. InvitingOK' /\ LoneOK'
      BY <1>5 DEF InvitingOK, LoneOK
    <1>7. OneOpenInvitation'
      BY <1>1, OpenStep
    <1>8. \A v \in Workers : job'[v].at = "withdraw" => Holds(v)
      BY <1>1, HoldsStep, RefersNoJob
    <1>9. CutOK' /\ CancelSparesAccepted'
      BY <1>1, <1>8, CutStep
    <1> QED BY <1>4, <1>6, <1>7, <1>9 DEF IInv

LEMMA CountFacts ==
    ASSUME TypeOK
    PROVE  /\ count \in Int /\ twice \in Nat
           /\ Cardinality(Accounts) \in Nat /\ Cardinality(Uncounted) \in Nat
           /\ Cardinality(Accounts') \in Nat /\ Cardinality(Uncounted') \in Nat
    BY Subsets, FiniteFacts DEF TypeOK

LEMMA Same == UNCHANGED invitations => SameMail
    BY DEF SameMail

LEMMA SameAccounts ==
    UNCHANGED users => /\ Accounts' = Accounts
                       /\ \A e \in Emails : Leaves(e)
    BY DEF Accounts, Leaves

-----------------------------------------------------------------------------
(***************************************************************************)
(* Every action keeps the invariant.                                       *)
(***************************************************************************)
LEMMA EndMoves ==
    ASSUME TypeOK, NEW w \in Workers, Ends(w)
    PROVE  /\ job' \in [Workers -> Job] /\ Moves(w) /\ job'[w].at # "increment"
           /\ \A v \in Workers : Follows(v) \/ job'[v] = NoJob
    BY EndFacts DEF Moves

LEMMA IncrementKeeps == ASSUME IInv, NEW w \in Workers, Increment(w) PROVE IInv'
    <1>1. TypeOK /\ OvercountOnlyByFix
      BY DEF IInv
    <1>2. /\ job' \in [Workers -> Job] /\ Moves(w) /\ job'[w].at # "increment"
          /\ \A v \in Workers : Follows(v) \/ job'[v] = NoJob
      BY <1>1, EndMoves DEF Increment
    <1>3. Accounts' = Accounts /\ \A e \in Emails : Leaves(e)
      BY SameAccounts DEF Increment
    <1>4. /\ job[w].at = "increment" /\ count' = count + 1
          /\ job[w].recounted => twice' = twice + 1
          /\ ~job[w].recounted => twice' = twice
      BY DEF Increment
    <1>5. /\ Cardinality(Uncounted') <= Cardinality(Uncounted)
          /\ ~job[w].recounted => Cardinality(Uncounted') = Cardinality(Uncounted) - 1
      BY <1>2, <1>4, UncountedLess
    <1>6. OvercountOnlyByFix' /\ count' \in Int /\ twice' \in Nat
      BY <1>1, <1>3, <1>4, <1>5, CountFacts DEF OvercountOnlyByFix
    <1>7. SameMail /\ users' \in [Emails -> Account] /\ invitations' \in [Ids -> Invitation]
          /\ nextId' = nextId /\ requests' = requests
      BY <1>1, Same DEF Increment, TypeOK
    <1> QED BY <1>2, <1>3, <1>6, <1>7, SettlesKeeps

LEMMA FailKeeps == ASSUME IInv, NEW w \in Workers, Fail(w) PROVE IInv'
    <1>1. TypeOK /\ OvercountOnlyByFix
      BY DEF IInv
    <1>2. /\ job' \in [Workers -> Job] /\ Moves(w) /\ job'[w].at # "increment"
          /\ \A v \in Workers : Follows(v) \/ job'[v] = NoJob
      BY <1>1, EndMoves DEF Fail
    <1>3. Accounts' = Accounts /\ \A e \in Emails : Leaves(e)
      BY SameAccounts DEF Fail
    <1>4. Cardinality(Uncounted') <= Cardinality(Uncounted) /\ count' = count /\ twice' = twice
      BY <1>2, UncountedLess DEF Fail
    <1>5. OvercountOnlyByFix' /\ count' \in Int /\ twice' \in Nat
      BY <1>1, <1>3, <1>4, CountFacts DEF OvercountOnlyByFix
    <1>6. SameMail /\ users' \in [Emails -> Account] /\ invitations' \in [Ids -> Invitation]
          /\ nextId' = nextId /\ requests' = requests
      BY <1>1, Same DEF Fail, TypeOK
    <1> QED BY <1>2, <1>3, <1>5, <1>6, SettlesKeeps

LEMMA ResendKeeps == ASSUME IInv, NEW w \in Workers, Resend(w) PROVE IInv'
    <1>1. TypeOK /\ OvercountOnlyByFix
      BY DEF IInv
    <1>2. /\ job' \in [Workers -> Job] /\ Moves(w) /\ job'[w].at # "increment"
          /\ \A v \in Workers : Follows(v) \/ job'[v] = NoJob
      BY <1>1, EndMoves DEF Resend
    <1>3. Accounts' = Accounts /\ \A e \in Emails : Leaves(e)
      BY SameAccounts DEF Resend
    <1>4. Cardinality(Uncounted') <= Cardinality(Uncounted) /\ count' = count /\ twice' = twice
      BY <1>2, UncountedLess DEF Resend
    <1>5. OvercountOnlyByFix' /\ count' \in Int /\ twice' \in Nat
      BY <1>1, <1>3, <1>4, CountFacts DEF OvercountOnlyByFix
    <1>6. SameMail /\ users' \in [Emails -> Account] /\ invitations' \in [Ids -> Invitation]
          /\ nextId' = nextId /\ requests' = requests
      BY <1>1, ResendFacts DEF Resend, TypeOK
    <1> QED BY <1>2, <1>3, <1>5, <1>6, SettlesKeeps

\* A deletion that finds its account takes one off, and one that does not, none.
LEMMA LeavesAll ==
    ASSUME TypeOK, users' = users \/ \E e \in Emails :
              /\ Leaves(e) \/ Makes(e) \/ Strikes(e) \/ Takes(e)
              /\ \A d \in Emails \ {e} : users'[d] = users[d]
    PROVE  \A e \in Emails : Leaves(e) \/ Makes(e) \/ Strikes(e) \/ Takes(e)
    <1>1. ASSUME NEW d \in Emails, users'[d] = users[d] PROVE Leaves(d)
      BY <1>1 DEF Leaves
    <1> QED BY <1>1

LEMMA DeleteKeeps == ASSUME IInv, NEW w \in Workers, Delete(w) PROVE IInv'
    <1>1. TypeOK /\ OvercountOnlyByFix
      BY DEF IInv
    <1>2. /\ job' \in [Workers -> Job] /\ Moves(w) /\ job'[w].at # "increment"
          /\ \A v \in Workers : Follows(v) \/ job'[v] = NoJob
      BY <1>1, EndMoves DEF Delete
    <1>3. PICK e \in Emails : Removed(e, job[w].gen, 0)
      BY <1>1, DeleteFacts
    <1>4. PICK g \in Nat, z \in {0} \cup Ids : g = job[w].gen /\ z = 0
      BY <1>1, DeleteFacts
    <1>5. /\ ~Found(e, g) => users' = users
          /\ Found(e, g) => /\ ~users'[e].live /\ users'[e].cut = 0
                            /\ users'[e].by = users[e].by
                            /\ users'[e].changed = users[e].changed
                            /\ users'[e].gen = users[e].gen
                            /\ \A d \in Emails \ {e} : users'[d] = users[d]
      BY <1>1, <1>3, <1>4, RemovedFacts
    <1>6. \A d \in Emails : Leaves(d) \/ Makes(d) \/ Strikes(d) \/ Takes(d)
      <2>1. CASE Found(e, g)
        <3>1. Strikes(e)
          BY <1>5, <2>1 DEF Strikes
        <3> QED BY <1>1, <1>5, <2>1, <3>1, LeavesAll
      <2>2. CASE ~Found(e, g)
        BY <1>1, <1>5, <2>2, LeavesAll
      <2> QED BY <2>1, <2>2
    <1>7. Cardinality(Accounts') >= Cardinality(Accounts) - 1
      <2>1. CASE Found(e, g)
        <3>1. users[e].live
          BY <2>1 DEF Found
        <3> QED BY <1>1, <1>5, <2>1, <3>1, AccountsLose, CountFacts
      <2>2. CASE ~Found(e, g)
        <3>1. Accounts' = Accounts
          BY <1>5, <2>2, SameAccounts
        <3> QED BY <1>1, <3>1, CountFacts
      <2> QED BY <2>1, <2>2
    <1>8. Cardinality(Uncounted') <= Cardinality(Uncounted) /\ count' = count - 1 /\ twice' = twice
      BY <1>2, UncountedLess DEF Delete
    <1>9. OvercountOnlyByFix' /\ count' \in Int /\ twice' \in Nat
      BY <1>1, <1>7, <1>8, CountFacts DEF OvercountOnlyByFix
    <1>10. SameMail /\ users' \in [Emails -> Account] /\ invitations' \in [Ids -> Invitation]
           /\ nextId' = nextId /\ requests' = requests
      BY <1>1, Same, DeleteFacts DEF Delete, TypeOK
    <1> QED BY <1>2, <1>6, <1>9, <1>10, SettlesKeeps

LEMMA WithdrawKeeps == ASSUME IInv, NEW w \in Workers, Withdraw(w) PROVE IInv'
    <1>1. TypeOK /\ OvercountOnlyByFix /\ CutOK
      BY DEF IInv
    <1>2. /\ job' \in [Workers -> Job] /\ Moves(w) /\ job'[w].at # "increment"
          /\ \A v \in Workers : Follows(v) \/ job'[v] = NoJob
      BY <1>1, EndMoves DEF Withdraw
    <1>3. PICK i \in {0} \cup Ids, e \in Emails, g \in Nat :
             i = job[w].inv /\ e = invitations[i].email /\ g = job[w].gen
      BY <1>1, CommitFacts
    <1>4. /\ users' \in [Emails -> Account]
          /\ \/ g # 0 /\ count' = count - 1 /\ Removed(e, g, i)
             \/ g = 0 /\ count' = count /\ users' = users
      BY <1>1, <1>3, WithdrawFacts
    <1>5. g # 0 /\ g = users[e].gen => users[e].by # i
      BY <1>1, <1>3 DEF CutOK, Withdraw
    <1>6. /\ \A d \in Emails : Leaves(d) \/ Makes(d) \/ Strikes(d) \/ Takes(d)
          /\ count' - Cardinality(Accounts') <= count - Cardinality(Accounts)
          /\ count' \in Int
      <2>1. CASE users' = users /\ (count' = count \/ count' = count - 1)
        <3>1. Accounts' = Accounts
          BY <2>1, SameAccounts
        <3> QED BY <1>1, <2>1, <3>1, LeavesAll, CountFacts
      <2>2. CASE g # 0 /\ count' = count - 1 /\ Removed(e, g, i) /\ Found(e, g)
        <3>1. /\ ~users'[e].live /\ users'[e].cut = i /\ users'[e].by = users[e].by
              /\ users'[e].changed = users[e].changed /\ users'[e].gen = users[e].gen
              /\ \A d \in Emails \ {e} : users'[d] = users[d]
          BY <1>1, <2>2, RemovedFacts
        <3>2. users[e].live /\ users[e].gen = g
          BY <2>2 DEF Found
        <3>3. Strikes(e)
          BY <1>5, <2>2, <3>1, <3>2 DEF Strikes
        <3>4. Cardinality(Accounts') = Cardinality(Accounts) - 1
          BY <3>1, <3>2, AccountsLose
        <3> QED BY <1>1, <2>2, <3>1, <3>3, <3>4, LeavesAll, CountFacts
      <2>3. CASE g # 0 /\ count' = count - 1 /\ Removed(e, g, i) /\ ~Found(e, g)
        BY <1>1, <2>1, <2>3, RemovedFacts
      <2> QED BY <1>4, <2>1, <2>2, <2>3
    <1>7. Cardinality(Uncounted') <= Cardinality(Uncounted) /\ twice' = twice
      BY <1>2, UncountedLess DEF Withdraw
    <1>8. OvercountOnlyByFix' /\ twice' \in Nat
      BY <1>1, <1>6, <1>7, CountFacts DEF OvercountOnlyByFix
    <1>9. SameMail /\ invitations' \in [Ids -> Invitation]
          /\ nextId' = nextId /\ requests' = requests
      BY <1>1, CommitFacts DEF Withdraw
    <1> QED BY <1>2, <1>4, <1>6, <1>8, <1>9, SettlesKeeps

LEMMA ActivateKeeps == ASSUME IInv, NEW w \in Workers, Activate(w) PROVE IInv'
    <1>1. TypeOK /\ OvercountOnlyByFix /\ CutOK
      BY DEF IInv
    <1>2. /\ job' \in [Workers -> Job] /\ Moves(w) /\ job'[w].at # "increment"
          /\ \A v \in Workers : Follows(v) \/ job'[v] = NoJob
      BY <1>1, EndMoves DEF Activate
    <1>3. PICK i \in {0} \cup Ids, e \in Emails, g \in Nat :
             i = job[w].inv /\ e = invitations[i].email /\ g = job[w].gen
      BY <1>1, CommitFacts
    <1>4. /\ users' \in [Emails -> Account]
          /\ i \notin Locked
          /\ \/ g # 0 /\ count' = count /\ Activated(e, g, i)
             \/ /\ count' = count + 1
                /\ ~users[e].live /\ users'[e].live
                /\ users'[e].gen = users[e].gen + 1
                /\ users'[e].cut = 0 /\ users'[e].changed
                /\ \A d \in Emails \ {e} : users'[d] = users[d]
      BY <1>1, <1>3, ActivateFacts
    <1>5. users[e].live => users[e].cut = 0
      BY <1>1 DEF CutOK
    <1>6. /\ \A d \in Emails : Leaves(d) \/ Makes(d) \/ Strikes(d) \/ Takes(d)
          /\ count' - Cardinality(Accounts') = count - Cardinality(Accounts)
          /\ count' \in Int
      <2>1. CASE count' = count /\ Activated(e, g, i) /\ Found(e, g)
        <3>1. /\ users'[e].live = users[e].live /\ users'[e].cut = users[e].cut
              /\ users'[e].by = i /\ users'[e].changed
              /\ users'[e].gen = users[e].gen
              /\ \A d \in Emails \ {e} : users'[d] = users[d]
          BY <1>1, <2>1, ActivatedFacts
        <3>2. Takes(e)
          BY <1>4, <1>5, <2>1, <3>1 DEF Takes, Found
        <3>3. Accounts' = Accounts
          BY <3>1, AccountsSame
        <3> QED BY <1>1, <2>1, <3>1, <3>2, <3>3, LeavesAll, CountFacts
      <2>2. CASE count' = count /\ Activated(e, g, i) /\ ~Found(e, g)
        <3>1. users' = users
          BY <1>1, <2>2, ActivatedFacts
        <3>2. Accounts' = Accounts
          BY <3>1, SameAccounts
        <3> QED BY <1>1, <2>2, <3>1, <3>2, LeavesAll, CountFacts
      <2>3. CASE /\ count' = count + 1
                 /\ ~users[e].live /\ users'[e].live
                 /\ users'[e].gen = users[e].gen + 1
                 /\ users'[e].cut = 0 /\ users'[e].changed
                 /\ \A d \in Emails \ {e} : users'[d] = users[d]
        <3>1. Makes(e)
          BY <2>3 DEF Makes
        <3>2. Cardinality(Accounts') = Cardinality(Accounts) + 1
          BY <2>3, AccountsGain
        <3> QED BY <1>1, <2>3, <3>1, <3>2, LeavesAll, CountFacts
      <2> QED BY <1>4, <2>1, <2>2, <2>3
    <1>7. Cardinality(Uncounted') <= Cardinality(Uncounted) /\ twice' = twice
      BY <1>2, UncountedLess DEF Activate
    <1>8. OvercountOnlyByFix' /\ twice' \in Nat
      BY <1>1, <1>6, <1>7, CountFacts DEF OvercountOnlyByFix
    <1>9. SameMail /\ invitations' \in [Ids -> Invitation]
          /\ nextId' = nextId /\ requests' = requests
      BY <1>1, CommitFacts DEF Activate
    <1> QED BY <1>2, <1>4, <1>6, <1>8, <1>9, SettlesKeeps

LEMMA ImportKeeps ==
    ASSUME IInv, NEW S \in SUBSET Emails, NEW P \in SUBSET S, Import(S, P)
    PROVE  IInv'
    <1>1. TypeOK /\ OvercountOnlyByFix
      BY DEF IInv
    <1>2. /\ users' \in [Emails -> Account]
          /\ \A e \in S : /\ ~users[e].live /\ users'[e].live
                          /\ users'[e].gen = users[e].gen + 1
                          /\ users'[e].cut = 0 /\ users'[e].by = 0
          /\ \A e \in Emails \ S : users'[e] = users[e]
          /\ job' \in [Workers -> Job]
          /\ \A v \in Workers : Follows(v) /\ job'[v].recounted = job[v].recounted
      BY <1>1, ImportFacts
    <1>3. ASSUME NEW e \in Emails PROVE Leaves(e) \/ Makes(e)
      BY <1>2 DEF Leaves, Makes
    <1>4. S \cap Accounts = {} /\ Accounts' = Accounts \cup S
      BY <1>2 DEF Accounts
    <1>5. Cardinality(Accounts') = Cardinality(Accounts) + Cardinality(S) /\ Cardinality(S) \in Nat
      BY <1>4, AccountsImported, FiniteFacts
    <1>6. Uncounted' = Uncounted /\ count' = count + Cardinality(S) /\ twice' = twice
      BY <1>2, UncountedSame DEF Import, ImportOf
    <1>7. OvercountOnlyByFix' /\ count' \in Int /\ twice' \in Nat
      BY <1>1, <1>5, <1>6, CountFacts DEF OvercountOnlyByFix
    <1>8. SameMail /\ invitations' \in [Ids -> Invitation]
          /\ nextId' = nextId /\ requests' = requests
      BY <1>1, Same DEF Import, TypeOK
    <1> QED BY <1>2, <1>3, <1>7, <1>8, SettlesKeeps

LEMMA EditKeeps ==
    ASSUME IInv, NEW e \in Emails, SetPassword(e) \/ \E on \in BOOLEAN : SetStatus(e, on)
    PROVE  IInv'
    <1>1. TypeOK /\ OvercountOnlyByFix
      BY DEF IInv
    <1>2. /\ users' \in [Emails -> Account]
          /\ users'[e].live = users[e].live /\ users'[e].cut = users[e].cut
          /\ users'[e].by = users[e].by /\ users'[e].gen = users[e].gen
          /\ ~users'[e].changed => ~users[e].changed
          /\ \A d \in Emails \ {e} : users'[d] = users[d]
          /\ job' \in [Workers -> Job]
          /\ \A v \in Workers : Follows(v) /\ job'[v].recounted = job[v].recounted
      BY <1>1, EditedFacts
    <1>3. \A d \in Emails : Leaves(d)
      BY <1>2 DEF Leaves
    <1>4. Accounts' = Accounts
      BY <1>2, AccountsSame
    <1>5. Uncounted' = Uncounted /\ count' = count /\ twice' = twice
      BY <1>2, UncountedSame DEF SetPassword, SetStatus
    <1>6. OvercountOnlyByFix' /\ count' \in Int /\ twice' \in Nat
      BY <1>1, <1>4, <1>5, CountFacts DEF OvercountOnlyByFix
    <1>7. UNCHANGED <<invitations, nextId, requests>>
      BY DEF SetPassword, SetStatus
    <1>8. SameMail /\ invitations' \in [Ids -> Invitation]
          /\ nextId' = nextId /\ requests' = requests
      BY <1>1, <1>7, Same DEF TypeOK
    <1> QED BY <1>2, <1>3, <1>6, <1>8, SettlesKeeps

LEMMA ExpireKeeps == ASSUME IInv, NEW i \in Ids, Expire(i) PROVE IInv'
    <1>1. TypeOK /\ OvercountOnlyByFix
      BY DEF IInv
    <1>2. /\ invitations' \in [Ids -> Invitation] /\ SameMail
          /\ job' \in [Workers -> Job]
          /\ \A v \in Workers : Follows(v) /\ job'[v].recounted = job[v].recounted
      BY <1>1, ExpireFacts
    <1>3. Accounts' = Accounts /\ \A e \in Emails : Leaves(e)
      BY SameAccounts DEF Expire
    <1>4. Uncounted' = Uncounted /\ count' = count /\ twice' = twice
      BY <1>2, UncountedSame DEF Expire
    <1>5. OvercountOnlyByFix' /\ count' \in Int /\ twice' \in Nat
      BY <1>1, <1>3, <1>4, CountFacts DEF OvercountOnlyByFix
    <1>6. users' \in [Emails -> Account] /\ nextId' = nextId /\ requests' = requests
      BY <1>1 DEF Expire, TypeOK
    <1> QED BY <1>2, <1>3, <1>5, <1>6, SettlesKeeps

\* The recount counts the active accounts only, and takes all creations in.
LEMMA RecountKeeps == ASSUME IInv, Recount PROVE IInv'
    <1>1. TypeOK
      BY DEF IInv
    <1>2. /\ job' \in [Workers -> Job]
          /\ \A v \in Workers : Follows(v) /\ job'[v].recounted = (job[v].at = "increment")
      BY <1>1, RecountFacts
    <1>3. Accounts' = Accounts /\ \A e \in Emails : Leaves(e)
      BY SameAccounts DEF Recount
    <1>4. Uncounted' = {}
      BY <1>2 DEF Uncounted, Follows
    <1>5. Cardinality(Active) <= Cardinality(Accounts) /\ Cardinality(Active) \in Nat
      <2>1. Active \in SUBSET Accounts /\ IsFiniteSet(Accounts)
        BY Subsets, FiniteFacts DEF Active
      <2> QED BY <2>1, FS_Subset, FS_CardinalityType
    <1>6. Cardinality(Uncounted') = 0 /\ count' = Cardinality(Active) /\ twice' = 0
      BY <1>4, FS_EmptySet DEF Recount
    <1>7. OvercountOnlyByFix' /\ count' \in Int /\ twice' \in Nat
      BY <1>1, <1>3, <1>5, <1>6, CountFacts DEF OvercountOnlyByFix
    <1>8. SameMail /\ invitations' \in [Ids -> Invitation] /\ users' \in [Emails -> Account]
          /\ nextId' = nextId /\ requests' = requests
      BY <1>1, Same DEF Recount, TypeOK
    <1> QED BY <1>2, <1>3, <1>7, <1>8, SettlesKeeps

LEMMA OthersDisturbed ==
    ASSUME NEW w \in Workers, Moves(w)
    PROVE  \A v \in Workers \ {w} : ~job'[v].alone /\ Follows(v)
    BY DEF Moves, Follows

LEMMA StartsKeeps == ASSUME IInv, NEW w \in Workers, Starts(w) PROVE IInv'
    <1>1. TypeOK /\ OvercountOnlyByFix /\ OneOpenInvitation /\ CutOK /\ CancelSparesAccepted
      BY DEF IInv
    <1>2. TypeOK'
      BY <1>1, StartsType
    <1>3. Moves(w) /\ job'[w].at # "increment" /\ job'[w].at # "withdraw" /\ job'[w].at # "idle"
      BY DEF Starts, Moves
    <1>4. Accounts' = Accounts /\ \A e \in Emails : Leaves(e)
      BY SameAccounts DEF Starts
    <1>5. SameMail /\ nextId' = nextId
      BY Same DEF Starts
    <1>6. OvercountOnlyByFix'
      <2>1. Cardinality(Uncounted') <= Cardinality(Uncounted) /\ count' = count /\ twice' = twice
        BY <1>3, UncountedLess DEF Starts
      <2> QED BY <1>1, <1>4, <2>1, CountFacts DEF OvercountOnlyByFix
    <1>7. OneOpenInvitation' /\ \A e \in Emails : PendingTo(e)' \subseteq PendingTo(e)
      BY <1>1, <1>5, OpenStep
    <1>8. \A v \in Workers : job'[v].at = "withdraw" => Holds(v)
      BY <1>1, <1>3, <1>5, OthersDisturbed, HoldsStep
    <1>9. CutOK' /\ CancelSparesAccepted'
      BY <1>1, <1>4, <1>8, CutStep
    <1>10. InvitingOK'
      <2>1. ASSUME job'[w].at = "invite", NEW e \in job'[w].emails
            PROVE  PendingTo(e)' = {}
        <3>1. e \in Emails
          BY <1>2, <2>1 DEF TypeOK, Job
        <3>2. PendingTo(e) = {}
          BY <2>1 DEF Starts
        <3> QED BY <1>7, <3>1, <3>2
      <2> QED BY <1>3, <2>1, OthersDisturbed DEF InvitingOK
    <1>11. LoneOK'
      <2>1. job'[w].alone => Drift' = job'[w].drift /\ Drift \in Int
        BY <1>1, <1>4, CountFacts DEF Starts, Drift
      <2>2. job'[w].at = "delete" => \A e \in job'[w].emails :
                     users'[e].live /\ users'[e].gen = job'[w].gen
        BY DEF Starts, Found
      <2>3. Drift' - 0 = Drift' /\ job'[w].drift \in Int
        BY <1>1, <1>2, <1>4, CountFacts DEF TypeOK, Job, Drift, Starts
      <2> QED BY <1>3, <2>1, <2>2, <2>3, OthersDisturbed DEF LoneOK, Found
    <1> QED BY <1>2, <1>6, <1>7, <1>9, <1>10, <1>11 DEF IInv

LEMMA CreateKeeps == ASSUME IInv, NEW w \in Workers, Create(w) PROVE IInv'
    <1>1. TypeOK /\ OvercountOnlyByFix /\ OneOpenInvitation /\ CutOK /\ CancelSparesAccepted
      BY DEF IInv
    <1>2. PICK e \in Emails, a \in Account :
             /\ ~users[e].live
             /\ a.live /\ a.cut = 0 /\ a.by = 0 /\ a.gen = users[e].gen + 1
             /\ users' = [users EXCEPT ![e] = a]
      BY <1>1, CreateFacts
    <1>3. /\ job' \in [Workers -> Job]
          /\ \A v \in Workers \ {w} : Follows(v) /\ job'[v].recounted = job[v].recounted
          /\ job'[w].at = "increment" /\ job'[w].emails = job[w].emails
          /\ job'[w].alone = job[w].alone /\ job'[w].drift = job[w].drift
      BY <1>1, CreateFacts
    <1>4. /\ users' \in [Emails -> Account] /\ users'[e] = a
          /\ \A d \in Emails \ {e} : users'[d] = users[d]
      BY <1>1, <1>2, Written
    <1>5. Moves(w)
      BY <1>3 DEF Moves
    <1>6. SameMail /\ UNCHANGED <<invitations, nextId, count, requests, twice>> /\ job[w].at = "create"
      BY Same DEF Create
    <1>7. TypeOK'
      <2>1. job[w].emails # {}
        BY <1>1, <1>6 DEF TypeOK
      <2>2. \A v \in Workers : Follows(v) \/ Refers(job'[v])
        BY <1>3, <2>1 DEF Refers
      <2>3. nextId' \in 1 .. MaxInvitations + 1 /\ nextId' >= nextId
        BY <1>1, <1>6, IdFacts DEF TypeOK
      <2>4. invitations' \in [Ids -> Invitation] /\ count' \in Int /\ twice' \in Nat
            /\ requests' \in 0 .. MaxRequests
        BY <1>1, <1>6 DEF TypeOK
      <2> QED BY <1>1, <1>3, <1>4, <2>2, <2>3, <2>4, TypeStep
    <1>8. Cardinality(Accounts') = Cardinality(Accounts) + 1
      BY <1>2, <1>4, AccountsGain
    <1>9. OvercountOnlyByFix'
      <2>1. Cardinality(Uncounted') <= Cardinality(Uncounted) + 1
        BY <1>5, UncountedMore
      <2> QED BY <1>1, <1>6, <1>8, <2>1, CountFacts DEF OvercountOnlyByFix
    <1>10. OneOpenInvitation'
      BY <1>1, <1>6, OpenStep
    <1>11. \A v \in Workers : job'[v].at = "withdraw" => Holds(v)
      BY <1>1, <1>3, <1>5, <1>6, OthersDisturbed, HoldsStep
    <1>12. CutOK' /\ CancelSparesAccepted'
      <2>1. Makes(e)
        BY <1>2, <1>4 DEF Makes
      <2> QED BY <1>1, <1>4, <1>11, <2>1, LeavesAll, CutStep
    <1>13. InvitingOK'
      BY <1>3, <1>5, OthersDisturbed DEF InvitingOK
    <1>14. LoneOK'
      <2>1. job[w].alone => Drift = job[w].drift - 0
        BY <1>6 DEF IInv, LoneOK
      <2>2. Drift' = Drift - 1
        BY <1>1, <1>6, <1>8, CountFacts DEF Drift
      <2>3. job[w].drift \in Int
        BY <1>1 DEF TypeOK, Job
      <2>4. job'[w].alone => Drift' = job'[w].drift - 1
        BY <1>3, <2>1, <2>2, <2>3
      <2> QED BY <1>3, <1>5, <2>4, OthersDisturbed DEF LoneOK
    <1> QED BY <1>7, <1>9, <1>10, <1>12, <1>13, <1>14 DEF IInv

\* The lookups inside the transactions.  A cancellation finds an account that no
\* acceptance has activated, for such an account shows it.
LEMMA LookKeeps == ASSUME IInv, NEW w \in Workers, LockAndLook(w) \/ LookUp(w) PROVE IInv'
    <1>1. TypeOK /\ OvercountOnlyByFix /\ OneOpenInvitation /\ CutOK /\ CancelSparesAccepted
      BY DEF IInv
    <1>2. /\ job[w].inv \in Sent
          /\ job' \in [Workers -> Job]
          /\ \A v \in Workers \ {w} : Follows(v) /\ job'[v].recounted = job[v].recounted
          /\ job'[w].inv = job[w].inv
          /\ job'[w].alone = job[w].alone /\ job'[w].drift = job[w].drift
          /\ LockAndLook(w) => /\ job'[w].at = "withdraw"
                               /\ job'[w].gen = Unactivated(invitations[job[w].inv].email)
          /\ LookUp(w) => job'[w].at = "activate"
          /\ Refers(job'[w])
          /\ job[w].at # "increment"
      BY <1>1, LookFacts
    <1>3. UNCHANGED <<users, invitations, nextId, count, requests, twice>>
      BY DEF LockAndLook, LookUp
    <1>4. Moves(w) /\ job'[w].at \in {"withdraw", "activate"}
      BY <1>2 DEF Moves
    <1>5. Accounts' = Accounts /\ SameMail
      BY <1>3, Same, SameAccounts
    <1>6. TypeOK'
      <2>1. requests' \in 0 .. MaxRequests
        BY <1>1, <1>3 DEF TypeOK
      <2> QED BY <1>1, <1>2, <1>3, <2>1, QuietType
    <1>7. OvercountOnlyByFix'
      <2>1. Cardinality(Uncounted') <= Cardinality(Uncounted)
        BY <1>4, UncountedLess
      <2> QED BY <1>1, <1>3, <1>5, <2>1, CountFacts DEF OvercountOnlyByFix
    <1>8. OneOpenInvitation'
      BY <1>1, <1>3, <1>5, OpenStep
    <1>9. InvitingOK'
      BY <1>4, OthersDisturbed DEF InvitingOK
    <1>10. PICK i \in Ids, e \in Emails : i = job[w].inv /\ e = invitations[i].email
      BY <1>1, <1>2, IdFacts
    <1>11. CutOK' /\ CancelSparesAccepted'
      <2>1. ASSUME NEW v \in Workers, job'[v].at = "withdraw",
                   NEW d, d = invitations'[job'[v].inv].email
            PROVE  /\ job'[v].gen <= users'[d].gen
                   /\ job'[v].gen # 0 /\ job'[v].gen = users'[d].gen => users'[d].by # job'[v].inv
        <3>1. CASE v # w
          <4>1. Follows(v) /\ job[v].at = "withdraw"
            BY <1>2, <2>1, <3>1 DEF Follows
          <4>2. d = invitations[job[v].inv].email
            BY <1>3, <2>1, <4>1 DEF Follows
          <4> QED BY <1>1, <1>3, <4>1, <4>2 DEF Follows, CutOK
        <3>2. CASE v = w
          <4>1. d = e /\ job'[w].gen = Unactivated(e) /\ job'[w].inv = i
            BY <1>2, <1>3, <1>10, <2>1, <3>2
          <4>2. i # 0 /\ users[e].gen \in Nat
            BY <1>1 DEF Ids, TypeOK, Account
          <4>3. CASE users[e].live /\ ~users[e].changed
            <5>1. job'[w].gen = users[e].gen /\ users[e].by = 0
              BY <1>1, <4>1, <4>3 DEF Unactivated, CutOK
            <5> QED BY <1>3, <3>2, <4>1, <4>2, <5>1
          <4>4. CASE ~(users[e].live /\ ~users[e].changed)
            <5>1. job'[w].gen = 0
              BY <4>1, <4>4 DEF Unactivated
            <5> QED BY <1>3, <3>2, <4>1, <4>2, <5>1
          <4> QED BY <4>3, <4>4
        <3> QED BY <3>1, <3>2
      <2> QED BY <1>1, <1>3, <2>1 DEF CutOK, CancelSparesAccepted
    <1>12. LoneOK'
      <2>1. job[w].alone => Drift = job[w].drift - 0
        BY <1>2 DEF IInv, LoneOK
      <2>2. Drift' = Drift
        BY <1>3, <1>5 DEF Drift
      <2>3. job'[w].alone => Drift' = job'[w].drift - 0
        BY <1>2, <2>1, <2>2
      <2>4. ASSUME job'[w].at = "withdraw", job'[w].gen # 0
            PROVE  LET f == invitations'[job'[w].inv].email
                   IN  users'[f].live /\ users'[f].gen = job'[w].gen
        <3>1. job'[w].gen = Unactivated(e) /\ invitations'[job'[w].inv].email = e
          BY <1>2, <1>3, <1>10, <2>4 DEF LookUp, LockAndLook
        <3>2. users[e].live /\ users[e].gen = job'[w].gen
          BY <2>4, <3>1 DEF Unactivated
        <3> QED BY <1>3, <3>1, <3>2
      <2> QED BY <1>4, <2>3, <2>4, OthersDisturbed DEF LoneOK, Found
    <1> QED BY <1>6, <1>7, <1>8, <1>9, <1>11, <1>12 DEF IInv

\* One more invitation: nobody else has been at work, and then there was none to
\* this email; or somebody has, and it says so.
LEMMA InviteKeeps == ASSUME IInv, NEW w \in Workers, Invite(w) PROVE IInv'
    <1>1. TypeOK /\ OvercountOnlyByFix /\ OneOpenInvitation /\ CutOK /\ CancelSparesAccepted
      BY DEF IInv
    <1>2. /\ nextId \in Ids /\ nextId' = nextId + 1
          /\ job' \in [Workers -> Job]
          /\ \A k \in Workers \ {w} : Follows(k) /\ job'[k].recounted = job[k].recounted
      BY <1>1, InviteFacts
    <1>3. PICK e \in job[w].emails, v \in Invitation :
             /\ invitations' = [invitations EXCEPT ![nextId] = v]
             /\ v.email = e /\ v.raced = ~job[w].alone
             /\ \/ job'[w] = NoJob
                \/ /\ job'[w].at = "invite"
                   /\ job'[w].emails = job[w].emails \ {e}
                   /\ job'[w].emails # {}
                   /\ job'[w].alone = job[w].alone /\ job'[w].drift = job[w].drift
      BY <1>1, InviteFacts
    <1>4. /\ invitations' \in [Ids -> Invitation] /\ invitations'[nextId] = v
          /\ \A k \in Ids \ {nextId} : invitations'[k] = invitations[k]
      BY <1>1, <1>2, <1>3, WrittenInvitation
    <1>5. /\ Sent \subseteq Ids /\ nextId \notin Sent /\ Sent' = Sent \cup {nextId}
      <2>1. nextId \in Nat /\ nextId >= 1
        BY <1>1, IdFacts
      <2>2. Sent' = Sent \cup {nextId}
        BY <1>2, <2>1 DEF Sent
      <2> QED BY <1>1, <2>2, IdFacts
    <1>6. UNCHANGED <<users, count, requests, twice>> /\ job[w].at = "invite"
      BY DEF Invite
    <1>7. Moves(w) /\ job'[w].at \in {"idle", "invite"}
      BY <1>2, <1>3, RefersNoJob DEF Moves
    <1>8. Accounts' = Accounts
      BY <1>6, SameAccounts
    <1>9. TypeOK'
      <2>1. Refers(job'[w])
        BY <1>3, RefersNoJob DEF Refers
      <2>2. \A k \in Workers : Follows(k) \/ Refers(job'[k])
        BY <1>2, <2>1
      <2>3. nextId' \in 1 .. MaxInvitations + 1 /\ nextId' >= nextId
        BY <1>1, <1>2, IdFacts DEF Invite
      <2>4. users' \in [Emails -> Account] /\ count' \in Int /\ twice' \in Nat
            /\ requests' \in 0 .. MaxRequests
        BY <1>1, <1>6 DEF TypeOK
      <2> QED BY <1>1, <1>2, <1>4, <2>2, <2>3, <2>4, TypeStep
    <1>10. OvercountOnlyByFix'
      <2>1. Cardinality(Uncounted') <= Cardinality(Uncounted)
        BY <1>7, UncountedLess
      <2> QED BY <1>1, <1>6, <1>8, <2>1, CountFacts DEF OvercountOnlyByFix
    <1>11. /\ Pending' \subseteq Pending \cup {nextId}
           /\ \A k \in Pending : invitations'[k] = invitations[k] /\ k # nextId
      BY <1>4, <1>5 DEF Pending
    <1>12. job[w].alone => \A k \in Pending : invitations[k].email # e
      BY <1>3, <1>6 DEF IInv, InvitingOK, PendingTo
    <1>13. OneOpenInvitation'
      <2>1. ASSUME NEW i \in Pending', NEW j \in Pending', i # j,
                   invitations'[i].email = invitations'[j].email
            PROVE  invitations'[i].raced \/ invitations'[j].raced
        <3>1. CASE i = nextId \/ j = nextId
          BY <1>3, <1>4, <1>11, <1>12, <2>1, <3>1
        <3>2. CASE i # nextId /\ j # nextId
          <4>1. i \in Pending /\ j \in Pending
            BY <1>11, <3>2
          <4>2. invitations'[i] = invitations[i] /\ invitations'[j] = invitations[j]
            BY <1>11, <4>1
          <4> QED BY <1>1, <2>1, <4>1, <4>2 DEF OneOpenInvitation
        <3> QED BY <3>1, <3>2
      <2> QED BY <2>1 DEF OneOpenInvitation
    <1>14. InvitingOK'
      <2>1. ASSUME job'[w].at = "invite", job'[w].alone, NEW d \in job'[w].emails,
                   NEW k \in Pending', invitations'[k].email = d
            PROVE  FALSE
        <3>1. d \in job[w].emails /\ d # e /\ job[w].alone
          BY <1>3, <2>1, RefersNoJob
        <3>2. k # nextId
          BY <1>3, <1>4, <2>1, <3>1
        <3>3. k \in Pending /\ invitations[k].email = d
          BY <1>11, <2>1, <3>2
        <3> QED BY <1>6, <3>1, <3>3 DEF IInv, InvitingOK, PendingTo
      <2>2. job'[w].at = "invite" /\ job'[w].alone =>
               \A d \in job'[w].emails : {k \in Pending' : invitations'[k].email = d} = {}
        BY <2>1
      <2> QED BY <1>7, <2>2, OthersDisturbed DEF InvitingOK, PendingTo
    <1>15. \A k \in Workers : job'[k].at = "withdraw" => Holds(k)
      <2>1. ASSUME NEW k \in Workers, job'[k].at = "withdraw" PROVE Holds(k)
        <3>1. Follows(k) /\ job[k].at = "withdraw"
          BY <1>2, <1>7, <2>1 DEF Follows
        <3>2. job[k].inv \in Sent
          BY <1>1, <3>1 DEF TypeOK
        <3> QED BY <1>4, <1>5, <3>1, <3>2 DEF Holds, Follows
      <2> QED BY <2>1
    <1>16. CutOK' /\ CancelSparesAccepted'
      BY <1>1, <1>6, <1>15, SameAccounts, CutStep
    <1>17. LoneOK'
      <2>1. job[w].alone => Drift = job[w].drift - 0
        BY <1>6 DEF IInv, LoneOK
      <2>2. Drift' = Drift
        BY <1>6, <1>8 DEF Drift
      <2>3. job'[w].alone => Drift' = job'[w].drift - 0 /\ job'[w].at = "invite"
        BY <1>3, <2>1, <2>2, RefersNoJob
      <2> QED BY <2>3, <1>7, OthersDisturbed DEF LoneOK
    <1> QED BY <1>9, <1>10, <1>13, <1>14, <1>16, <1>17 DEF IInv

-----------------------------------------------------------------------------
Beginning(w) ==
    \/ \E e \in Emails, b \in BOOLEAN : BeginCreate(w, e, b) \/ BeginInvite(w, e, b)
    \/ \E e \in Emails : BeginDelete(w, e) \/ BeginDirectory(w, e)
    \/ \E b \in BOOLEAN : BeginBulk(w, b)
    \/ \E i \in Ids : BeginResend(w, i) \/ BeginCancel(w, i) \/ BeginAccept(w, i)

Continuing(w) ==
    \/ Create(w) \/ Increment(w) \/ Delete(w) \/ Invite(w) \/ Resend(w)
    \/ LockAndLook(w) \/ Withdraw(w) \/ LookUp(w) \/ Activate(w) \/ Fail(w)

Aside ==
    \/ \E S \in SUBSET Emails : \E P \in SUBSET S : Import(S, P)
    \/ \E e \in Emails : SetPassword(e) \/ \E on \in BOOLEAN : SetStatus(e, on)
    \/ \E i \in Ids : Expire(i)
    \/ Recount

LEMMA NextSplits ==
    ASSUME Next PROVE (\E w \in Workers : Beginning(w) \/ Continuing(w)) \/ Aside
    BY DEF Next, Beginning, Continuing, Aside

LEMMA BeginningStarts ==
    ASSUME TypeOK, NEW w \in Workers, Beginning(w) PROVE Starts(w)
    BY BeginsStart DEF Beginning

LEMMA NextKeeps == ASSUME IInv, [Next]_vars PROVE IInv'
    <1>0. TypeOK
      BY DEF IInv
    <1>1. ASSUME NEW w \in Workers, Beginning(w) PROVE IInv'
      BY <1>0, <1>1, BeginningStarts, StartsKeeps
    <1>2. ASSUME NEW w \in Workers, Continuing(w) PROVE IInv'
      BY <1>2, CreateKeeps, IncrementKeeps, DeleteKeeps, InviteKeeps, ResendKeeps,
         LookKeeps, WithdrawKeeps, ActivateKeeps, FailKeeps DEF Continuing
    <1>3. ASSUME Aside PROVE IInv'
      BY <1>3, ImportKeeps, EditKeeps, ExpireKeeps, RecountKeeps DEF Aside
    <1>4. CASE UNCHANGED vars
      BY <1>4 DEF vars, IInv, TypeOK, OvercountOnlyByFix, OneOpenInvitation, InvitingOK,
                  CancelSparesAccepted, CutOK, LoneOK, Found, Drift, Accounts, Uncounted,
                  Pending, PendingTo, Sent
    <1> QED BY <1>1, <1>2, <1>3, <1>4, NextSplits

LEMMA Invariance == Spec => []IInv
    <1>1. Init => IInv
      BY InitInv
    <1>2. IInv /\ [Next]_vars => IInv'
      BY NextKeeps
    <1> QED BY <1>1, <1>2, PTL DEF Spec

\* Rows, jobs and counters keep their types, and a request refers to what exists.
THEOREM MemberTypes == Spec => []TypeOK
    <1>1. IInv => TypeOK
      BY DEF IInv
    <1> QED BY <1>1, Invariance, PTL

\* The counter never runs ahead of the accounts but by what a recount took in
\* before its creation counted it.
THEOREM OvercountBounded == Spec => []OvercountOnlyByFix
    <1>1. IInv => OvercountOnlyByFix
      BY DEF IInv
    <1> QED BY <1>1, Invariance, PTL

\* Two pending invitations of one email come of a race and of nothing else.
THEOREM OneInvitation == Spec => []OneOpenInvitation
    <1>1. IInv => OneOpenInvitation
      BY DEF IInv
    <1> QED BY <1>1, Invariance, PTL

\* A cancellation never deletes the account its invitation has activated.
THEOREM AcceptedAreSpared == Spec => []CancelSparesAccepted
    <1>1. IInv => CancelSparesAccepted
      BY DEF IInv
    <1> QED BY <1>1, Invariance, PTL

-----------------------------------------------------------------------------
(***************************************************************************)
(* A routine that is alone keeps the drift.                                *)
(***************************************************************************)
DriftKept(w) ==
    job[w].alone /\ job'[w] = NoJob =>
        Drift' = job[w].drift \/ (job[w].at = "increment" /\ count' = count)

LEMMA DriftFacts ==
    ASSUME TypeOK
    PROVE  /\ count' \in Int => Drift' = count' - Cardinality(Accounts')
           /\ Drift = count - Cardinality(Accounts) /\ Drift \in Int
    BY CountFacts DEF Drift

LEMMA LastStep ==
    ASSUME IInv, NEW w \in Workers, job[w].alone, Continuing(w), job'[w] = NoJob
    PROVE  DriftKept(w)
    <1>1. TypeOK
      BY DEF IInv
    <1>2. /\ Drift = job[w].drift - IF job[w].at = "increment" THEN 1 ELSE 0
          /\ job[w].drift \in Int
      BY <1>1 DEF IInv, LoneOK, TypeOK, Job
    <1>3. CASE Create(w)
      BY <1>1, <1>3, CreateFacts, RefersNoJob
    <1>4. CASE Increment(w)
      <2>1. Accounts' = Accounts /\ count' = count + 1 /\ job[w].at = "increment"
        BY <1>4, SameAccounts DEF Increment
      <2>2. Drift = job[w].drift - 1
        BY <1>2, <2>1
      <2>3. Drift' = Drift + 1
        BY <1>1, <2>1, CountFacts, DriftFacts
      <2> QED BY <1>2, <2>2, <2>3 DEF DriftKept
    <1>5. CASE Fail(w)
      <2>1. Accounts' = Accounts /\ count' = count
        BY <1>5, SameAccounts DEF Fail
      <2> QED BY <1>1, <1>2, <2>1, CountFacts, DriftFacts DEF DriftKept
    <1>6. CASE Invite(w) \/ Resend(w) \/ LockAndLook(w) \/ LookUp(w)
      <2>1. Accounts' = Accounts /\ count' = count /\ job[w].at # "increment"
        BY <1>6, SameAccounts DEF Invite, Resend, LockAndLook, LookUp
      <2> QED BY <1>1, <1>2, <2>1, CountFacts, DriftFacts DEF DriftKept
    <1>7. CASE Delete(w)
      <2>1. PICK e \in Emails : e \in job[w].emails /\ Removed(e, job[w].gen, 0)
        BY <1>1, <1>7, DeleteFacts
      <2>2. PICK g \in Nat, z \in {0} \cup Ids : g = job[w].gen /\ z = 0
        BY <1>1, <1>7, DeleteFacts
      <2>3. Found(e, g) /\ users[e].live
        BY <1>7, <2>1, <2>2 DEF IInv, LoneOK, Delete, Found
      <2>4. ~users'[e].live /\ \A d \in Emails \ {e} : users'[d] = users[d]
        BY <1>1, <2>1, <2>2, <2>3, RemovedFacts
      <2>5. Cardinality(Accounts') = Cardinality(Accounts) - 1
        BY <2>3, <2>4, AccountsLose
      <2>6. count' = count - 1 /\ job[w].at # "increment"
        BY <1>7 DEF Delete
      <2> QED BY <1>1, <1>2, <2>5, <2>6, CountFacts, DriftFacts DEF DriftKept
    <1>8. CASE Withdraw(w)
      <2>1. PICK i \in {0} \cup Ids, e \in Emails, g \in Nat :
               i = job[w].inv /\ e = invitations[i].email /\ g = job[w].gen
        BY <1>1, <1>8, CommitFacts
      <2>2. \/ g # 0 /\ count' = count - 1 /\ Removed(e, g, i)
            \/ g = 0 /\ count' = count /\ users' = users
        BY <1>1, <1>8, <2>1, WithdrawFacts
      <2>3. job[w].at = "withdraw"
        BY <1>8 DEF Withdraw
      <2>4. CASE g # 0 /\ count' = count - 1 /\ Removed(e, g, i)
        <3>1. Found(e, g) /\ users[e].live
          BY <2>1, <2>3, <2>4 DEF IInv, LoneOK, Found
        <3>2. ~users'[e].live /\ \A d \in Emails \ {e} : users'[d] = users[d]
          BY <1>1, <2>4, <3>1, RemovedFacts
        <3>3. Cardinality(Accounts') = Cardinality(Accounts) - 1
          BY <3>1, <3>2, AccountsLose
        <3> QED BY <1>1, <1>2, <2>3, <2>4, <3>3, CountFacts, DriftFacts DEF DriftKept
      <2>5. CASE count' = count /\ users' = users
        <3>1. Accounts' = Accounts
          BY <2>5, SameAccounts
        <3> QED BY <1>1, <1>2, <2>3, <2>5, <3>1, CountFacts, DriftFacts DEF DriftKept
      <2> QED BY <2>2, <2>4, <2>5
    <1>9. CASE Activate(w)
      <2>1. PICK i \in {0} \cup Ids, e \in Emails, g \in Nat :
               i = job[w].inv /\ e = invitations[i].email /\ g = job[w].gen
        BY <1>1, <1>9, CommitFacts
      <2>2. job[w].at = "activate"
        BY <1>9 DEF Activate
      <2>3. \/ count' = count /\ Activated(e, g, i)
            \/ /\ count' = count + 1
               /\ ~users[e].live /\ users'[e].live
               /\ \A d \in Emails \ {e} : users'[d] = users[d]
        BY <1>1, <1>9, <2>1, ActivateFacts
      <2>4. CASE count' = count /\ Activated(e, g, i)
        <3>1. \A d \in Emails : users'[d].live = users[d].live
          BY <1>1, <2>4, ActivatedFacts
        <3>2. Accounts' = Accounts
          BY <3>1, AccountsSame
        <3> QED BY <1>1, <1>2, <2>2, <2>4, <3>2, CountFacts, DriftFacts DEF DriftKept
      <2>5. CASE /\ count' = count + 1
                 /\ ~users[e].live /\ users'[e].live
                 /\ \A d \in Emails \ {e} : users'[d] = users[d]
        <3>1. Cardinality(Accounts') = Cardinality(Accounts) + 1
          BY <2>5, AccountsGain
        <3> QED BY <1>1, <1>2, <2>2, <2>5, <3>1, CountFacts, DriftFacts DEF DriftKept
      <2> QED BY <2>3, <2>4, <2>5
    <1> QED BY <1>3, <1>4, <1>5, <1>6, <1>7, <1>8, <1>9 DEF Continuing

\* Nobody who is alone is idle, and who does not move does not end.
LEMMA StaysBusy ==
    ASSUME IInv, NEW v \in Workers, job[v].alone, Follows(v)
    PROVE  job'[v] # NoJob
    BY RefersNoJob DEF IInv, LoneOK, Follows

LEMMA ContinuingMoves ==
    ASSUME TypeOK, NEW w \in Workers, Continuing(w)
    PROVE  \A v \in Workers \ {w} : Follows(v)
    <1>1. CASE Create(w)
      BY <1>1, CreateFacts
    <1>2. CASE Invite(w)
      BY <1>2, InviteFacts
    <1>3. CASE LockAndLook(w) \/ LookUp(w)
      BY <1>3, LookFacts
    <1>4. CASE Increment(w) \/ Delete(w) \/ Resend(w) \/ Withdraw(w) \/ Activate(w) \/ Fail(w)
      <2>1. Ends(w)
        BY <1>4 DEF Increment, Delete, Resend, Withdraw, Activate, Fail
      <2> QED BY <2>1, EndFacts
    <1> QED BY <1>1, <1>2, <1>3, <1>4 DEF Continuing

LEMMA AsideMoves == ASSUME TypeOK, Aside PROVE \A v \in Workers : Follows(v)
    BY ImportFacts, EditedFacts, ExpireFacts, RecountFacts DEF Aside

LEMMA StepKeepsDrift ==
    ASSUME IInv, Next, NEW v \in Workers, job[v].alone, job'[v] = NoJob
    PROVE  DriftKept(v)
    <1>0. TypeOK
      BY DEF IInv
    <1>1. ASSUME NEW w \in Workers, Beginning(w) PROVE DriftKept(v)
      <2>1. Starts(w)
        BY <1>0, <1>1, BeginningStarts
      <2>2. job[w] = NoJob /\ \A x \in Workers \ {w} : Follows(x)
        BY <2>1 DEF Starts
      <2>3. v # w
        BY <2>2, RefersNoJob
      <2> QED BY <2>2, <2>3, StaysBusy
    <1>2. ASSUME NEW w \in Workers, Continuing(w) PROVE DriftKept(v)
      <2>1. CASE v = w
        BY <1>2, <2>1, LastStep
      <2>2. CASE v # w
        BY <1>0, <1>2, <2>2, ContinuingMoves, StaysBusy
      <2> QED BY <2>1, <2>2
    <1>3. ASSUME Aside PROVE DriftKept(v)
      BY <1>0, <1>3, AsideMoves, StaysBusy
    <1> QED BY <1>1, <1>2, <1>3, NextSplits

\* A routine that had the organization to itself leaves the counter as far from the
\* accounts as it found it, unless a creation dies before it counts.
THEOREM LoneRoutinesKeepDrift == Spec => LoneKeepsDrift
    <1>1. ASSUME IInv, [Next]_vars
          PROVE  [\A w \in Workers :
                     job[w].alone /\ job'[w] = NoJob =>
                         Drift' = job[w].drift
                            \/ (job[w].at = "increment" /\ count' = count)]_vars
      <2>1. CASE UNCHANGED vars
        BY <2>1
      <2>2. CASE Next
        BY <1>1, <2>2, StepKeepsDrift DEF DriftKept
      <2> QED BY <1>1, <2>1, <2>2
    <1> QED BY <1>1, Invariance, PTL DEF Spec, LoneKeepsDrift

=============================================================================
