------------------------------ MODULE Membership ------------------------------
(***************************************************************************)
(* The accounts of one organization, the invitations to it and the counter *)
(* of its members (current_user_count), as user.service.ts keeps them:     *)
(* created, imported, invited, accepted, cancelled, deleted, and recounted *)
(* by the data sanity fix.                                                 *)
(*                                                                         *)
(* An account is a row of users.  Its email is unique and never edited, so *)
(* a row is known by its email and by how many rows of that email there    *)
(* have been (gen, in place of the id).  Most routines read first and      *)
(* write later; only the cancellation of an invitation, its acceptance, an *)
(* import and a deletion are transactions.  A cancellation updates its     *)
(* invitation first and so holds the lock of that row while it looks for   *)
(* the account to delete; an acceptance updates it last.                   *)
(*                                                                         *)
(* Names, roles, tokens and who may call are left out.  A resend rotates   *)
(* the token: here that it is in time again.                               *)
(***************************************************************************)
EXTENDS Integers, FiniteSets

CONSTANTS
    Workers,         \* requests in flight at a time
    Emails,
    Plan,            \* "none", "free" or "paid": the subscriptions there are
    Allowed,         \* total_allowed_user_count
    FreeMax,         \* FREE_TIER_MAX_USERS
    MaxAccounts,     \* bound: accounts an email ever has
    MaxInvitations,  \* bound: invitations ever made
    MaxRequests      \* bound: requests that take more than a step, ever made

ASSUME SetsOK  == IsFiniteSet(Workers) /\ IsFiniteSet(Emails)
ASSUME LimitOK == Plan \in {"none", "free", "paid"} /\ {Allowed, FreeMax} \subseteq Nat
ASSUME BoundOK == {MaxAccounts, MaxInvitations, MaxRequests} \subseteq Nat

VARIABLES
    users,        \* by email: the account there is, or the last there was
    invitations,  \* by id
    nextId,       \* AUTO_INCREMENT of invitations
    count,        \* current_user_count
    job,          \* what each request has read and has still to write
    requests,     \* bound: requests so far
    twice         \* history: creations counted twice since the last recount

vars == <<users, invitations, nextId, count, job, requests, twice>>

-----------------------------------------------------------------------------
Ids == 1 .. MaxInvitations

\* on: status 1.  changed: password_changed_at is set.  History: by, the
\* invitation that last activated it; cut, the one whose cancellation deleted it.
Account == [gen : Nat, live : BOOLEAN, on : BOOLEAN, password : BOOLEAN,
            changed : BOOLEAN, by : {0} \cup Ids, cut : {0} \cup Ids]
NoAccount == [gen |-> 0, live |-> FALSE, on |-> FALSE, password |-> FALSE,
              changed |-> FALSE, by |-> 0, cut |-> 0]

\* intime: expires_at lies ahead.  History: raced, others were at work meanwhile.
Invitation == [email : Emails, status : {"pending", "accepted", "cancelled"},
               intime : BOOLEAN, raced : BOOLEAN]

\* at: the next statement.  gen: the account found, 0 for none.  History: drift,
\* what it was at the start; alone, nobody else has done anything since; recounted,
\* a recount has seen the account it has made.
Job == [at : {"idle", "create", "increment", "invite", "resend", "cancel",
              "withdraw", "accept", "activate", "delete"},
        emails : SUBSET Emails, inv : {0} \cup Ids, password : BOOLEAN,
        gen : Nat, drift : Int, alone : BOOLEAN, recounted : BOOLEAN]
NoJob == [at |-> "idle", emails |-> {}, inv |-> 0, password |-> FALSE, gen |-> 0,
          drift |-> 0, alone |-> FALSE, recounted |-> FALSE]

Accounts == {e \in Emails : users[e].live}
Active   == {e \in Accounts : users[e].on}
Drift    == count - Cardinality(Accounts)

\* Created and not yet counted.
Uncounted == {w \in Workers : job[w].at = "increment" /\ ~job[w].recounted}

Sent    == 1 .. nextId - 1
Pending == {i \in Sent : invitations[i].status = "pending"}

\* Variant: an invitation out of time is as good as none.
InTimeTo(e)  == {i \in Pending : invitations[i].email = e /\ invitations[i].intime}
PendingTo(e) == {i \in Pending : invitations[i].email = e}

\* Variant: a cancellation locks nothing, as if it wrote its invitation last.
NoneLocked == {}

\* The invitations whose row a cancellation in flight has locked.
Locked == {job[w].inv : w \in {v \in Workers : job[v].at = "withdraw"}}

\* There are accounts enough: hasAnyPaidSubscription lifts the limit.
Full(others) == Plan # "paid" /\ Allowed > 0 /\ count + others >= Allowed
FreeTierFull == Plan = "free" /\ Cardinality(Active) >= FreeMax

Found(e, gen) == users[e].live /\ users[e].gen = gen

-----------------------------------------------------------------------------
\* The job of w becomes j, and nobody else has been alone.
Disturbed(v) == [job[v] EXCEPT !.alone = FALSE, !.drift = 0]
Goes(w, j)   == job' = [v \in Workers |-> IF v = w THEN j ELSE Disturbed(v)]
Ends(w)      == Goes(w, NoJob)
Disturb      == job' = [v \in Workers |-> Disturbed(v)]

Begins(w, j) ==
    /\ job[w] = NoJob
    /\ requests < MaxRequests
    /\ requests' = requests + 1
    /\ Goes(w, IF \A v \in Workers : job[v] = NoJob
               THEN [j EXCEPT !.drift = Drift, !.alone = TRUE] ELSE j)

\* One more account: the unique key allows it if there is none of that email.
NewAccount(e, password, changed, by) ==
    [gen |-> users[e].gen + 1, live |-> TRUE, on |-> TRUE, password |-> password,
     changed |-> changed, by |-> by, cut |-> 0]
CanInsert(e) == ~users[e].live /\ users[e].gen < MaxAccounts
Insert(e, password, changed, by) ==
    /\ CanInsert(e)
    /\ users' = [users EXCEPT ![e] = NewAccount(e, password, changed, by)]

\* Registration: an organization of one, who has a password.
Init ==
    /\ \E founder \in Emails :
           users = [e \in Emails |-> IF e = founder
                                     THEN [NoAccount EXCEPT !.gen = 1, !.live = TRUE, !.on = TRUE,
                                              !.password = TRUE, !.changed = TRUE]
                                     ELSE NoAccount]
    /\ invitations = [i \in Ids |-> [email |-> CHOOSE e \in Emails : TRUE,
                        status |-> "cancelled", intime |-> FALSE, raced |-> FALSE]]
    /\ nextId = 1
    /\ count = 1
    /\ job = [w \in Workers |-> NoJob]
    /\ requests = 0
    /\ twice = 0

-----------------------------------------------------------------------------
(***************************************************************************)
(* Accounts.                                                               *)
(***************************************************************************)
\* createUser: the checks, the row, and then the counter.
BeginCreate(w, e, password) ==
    /\ ~FreeTierFull /\ ~Full(0)
    /\ ~users[e].live
    /\ Begins(w, [NoJob EXCEPT !.at = "create", !.emails = {e}, !.password = password])
    /\ UNCHANGED <<users, invitations, nextId, count, twice>>

Create(w) ==
    /\ job[w].at = "create"
    /\ \E e \in job[w].emails : Insert(e, job[w].password, job[w].password, 0)
    /\ Goes(w, [job[w] EXCEPT !.at = "increment"])
    /\ UNCHANGED <<invitations, nextId, count, requests, twice>>

Increment(w) ==
    /\ job[w].at = "increment"
    /\ count' = count + 1
    /\ twice' = IF job[w].recounted THEN twice + 1 ELSE twice
    /\ Ends(w)
    /\ UNCHANGED <<users, invitations, nextId, requests>>

\* bulkCreateUsers: one transaction.  A row may bring a password, and
\* password_changed_at stays empty.  The limit it is checked against before
\* (org.seat_limit) is no column.
ImportOf(S, protected) ==
    /\ \A e \in S : CanInsert(e)
    /\ users' = [e \in Emails |-> IF e \in S THEN NewAccount(e, e \in protected, FALSE, 0)
                                  ELSE users[e]]
    /\ count' = count + Cardinality(S)
Import(S, protected) ==
    /\ S # {}
    /\ ImportOf(S, protected)
    /\ Disturb
    /\ UNCHANGED <<invitations, nextId, requests, twice>>

\* deactivateUser: a hard delete, and the counter whether or not there was a row.
BeginDelete(w, e) ==
    /\ users[e].live
    /\ Begins(w, [NoJob EXCEPT !.at = "delete", !.emails = {e}, !.gen = users[e].gen])
    /\ UNCHANGED <<users, invitations, nextId, count, twice>>

Removed(e, gen, cut) ==
    users' = IF Found(e, gen)
             THEN [users EXCEPT ![e] = [@ EXCEPT !.live = FALSE, !.on = FALSE, !.cut = cut]]
             ELSE users

Delete(w) ==
    /\ job[w].at = "delete"
    /\ \E e \in job[w].emails : Removed(e, job[w].gen, 0)
    /\ count' = count - 1
    /\ Ends(w)
    /\ UNCHANGED <<invitations, nextId, requests, twice>>

\* An administrator's reset, a change, or a reset by token.
SetPassword(e) ==
    /\ users[e].live
    /\ users' = [users EXCEPT ![e] = [@ EXCEPT !.password = TRUE, !.changed = TRUE]]
    /\ Disturb
    /\ UNCHANGED <<invitations, nextId, count, requests, twice>>

\* The hiring and exit webhooks write the status and not the counter.
SetStatus(e, on) ==
    /\ users[e].live /\ users[e].on # on
    /\ users' = [users EXCEPT ![e] = [@ EXCEPT !.on = on]]
    /\ Disturb
    /\ UNCHANGED <<invitations, nextId, count, requests, twice>>

\* runAutoFix: one UPDATE.
Recount ==
    /\ count # Cardinality(Active)
    /\ count' = Cardinality(Active)
    /\ twice' = 0
    /\ job' = [v \in Workers |-> [Disturbed(v) EXCEPT !.recounted = job[v].at = "increment"]]
    /\ UNCHANGED <<users, invitations, nextId, requests>>

-----------------------------------------------------------------------------
(***************************************************************************)
(* Invitations.                                                            *)
(***************************************************************************)
\* inviteUser, and the onboarding step (limited is FALSE), which has no limit.
BeginInvite(w, e, limited) ==
    /\ limited => ~Full(Cardinality(Pending))
    /\ ~users[e].live
    /\ PendingTo(e) = {}
    /\ Begins(w, [NoJob EXCEPT !.at = "invite", !.emails = {e}])
    /\ UNCHANGED <<users, invitations, nextId, count, twice>>

\* inviteFromDirectory: the pending invitation is sent again, or a new one.
BeginDirectory(w, e) ==
    /\ users[e].live
    /\ \/ \E i \in PendingTo(e) : Begins(w, [NoJob EXCEPT !.at = "resend", !.inv = i])
       \/ /\ PendingTo(e) = {}
          /\ Begins(w, [NoJob EXCEPT !.at = "invite", !.emails = {e}])
    /\ UNCHANGED <<users, invitations, nextId, count, twice>>

\* bulkInviteFromDirectory: who is active and not invited; by default only
\* those who have never set a password.
Uninvited(everybody) ==
    {e \in Active : (everybody \/ ~users[e].changed) /\ PendingTo(e) = {}}
BeginBulk(w, everybody) ==
    /\ Uninvited(everybody) # {}
    /\ Begins(w, [NoJob EXCEPT !.at = "invite", !.emails = Uninvited(everybody)])
    /\ UNCHANGED <<users, invitations, nextId, count, twice>>

\* Variant: the loop does not end.
InviteOnAndOn(w) ==
    /\ job[w].at = "invite"
    /\ nextId <= MaxInvitations
    /\ \E e \in job[w].emails :
          /\ invitations' = [invitations EXCEPT ![nextId] =
                [email |-> e, status |-> "pending", intime |-> TRUE, raced |-> ~job[w].alone]]
          /\ Goes(w, [job[w] EXCEPT !.emails = @ \ {e}])
    /\ nextId' = nextId + 1
    /\ UNCHANGED <<users, count, requests, twice>>

\* An insert: no key of invitations keeps one to an email.
Invite(w) ==
    /\ job[w].at = "invite"
    /\ nextId <= MaxInvitations
    /\ \E e \in job[w].emails :
          /\ invitations' = [invitations EXCEPT ![nextId] =
                [email |-> e, status |-> "pending", intime |-> TRUE, raced |-> ~job[w].alone]]
          /\ IF job[w].emails = {e} THEN Ends(w)
             ELSE Goes(w, [job[w] EXCEPT !.emails = @ \ {e}])
    /\ nextId' = nextId + 1
    /\ UNCHANGED <<users, count, requests, twice>>

\* resendInvitation: pending when read, rotated whatever it has become.
BeginResend(w, i) ==
    /\ i \in Pending
    /\ Begins(w, [NoJob EXCEPT !.at = "resend", !.inv = i])
    /\ UNCHANGED <<users, invitations, nextId, count, twice>>

Resend(w) ==
    /\ job[w].at = "resend"
    /\ job[w].inv \notin Locked
    /\ invitations' = [invitations EXCEPT ![job[w].inv] = [@ EXCEPT !.intime = TRUE]]
    /\ Ends(w)
    /\ UNCHANGED <<users, nextId, count, requests, twice>>

\* Nobody looks at the expiry of any other.
Expire(i) ==
    /\ i \in Pending /\ invitations[i].intime
    /\ invitations' = [invitations EXCEPT ![i] = [@ EXCEPT !.intime = FALSE]]
    /\ Disturb
    /\ UNCHANGED <<users, nextId, count, requests, twice>>

\* cancelInvitation: found pending; then, in a transaction, the invitation is
\* written and so locked, the account is looked up, and it is deleted if it has
\* never set a password.
BeginCancel(w, i) ==
    /\ i \in Pending
    /\ Begins(w, [NoJob EXCEPT !.at = "cancel", !.inv = i])
    /\ UNCHANGED <<users, invitations, nextId, count, twice>>

Unactivated(e) == IF users[e].live /\ ~users[e].changed THEN users[e].gen ELSE 0

LockAndLook(w) ==
    /\ job[w].at = "cancel"
    /\ job[w].inv \notin Locked
    /\ Goes(w, [job[w] EXCEPT !.at = "withdraw",
                    !.gen = Unactivated(invitations[job[w].inv].email)])
    /\ UNCHANGED <<users, invitations, nextId, count, requests, twice>>

Withdraw(w) ==
    /\ job[w].at = "withdraw"
    /\ invitations' = [invitations EXCEPT ![job[w].inv] = [@ EXCEPT !.status = "cancelled"]]
    /\ IF job[w].gen # 0
       THEN /\ Removed(invitations[job[w].inv].email, job[w].gen, job[w].inv)
            /\ count' = count - 1
       ELSE UNCHANGED <<users, count>>
    /\ Ends(w)
    /\ UNCHANGED <<nextId, requests, twice>>

\* acceptInvitation: found pending and in time; in a transaction, the account is
\* looked up, made or given the password, and the invitation is written, which
\* waits for a cancellation that has locked it.
BeginAccept(w, i) ==
    /\ i \in Pending /\ invitations[i].intime
    /\ Begins(w, [NoJob EXCEPT !.at = "accept", !.inv = i])
    /\ UNCHANGED <<users, invitations, nextId, count, twice>>

Existing(e) == IF users[e].live THEN users[e].gen ELSE 0

LookUp(w) ==
    /\ job[w].at = "accept"
    /\ Goes(w, [job[w] EXCEPT !.at = "activate", !.gen = Existing(invitations[job[w].inv].email)])
    /\ UNCHANGED <<users, invitations, nextId, count, requests, twice>>

Activated(e, gen, i) ==
    users' = IF Found(e, gen)
             THEN [users EXCEPT ![e] =
                      [@ EXCEPT !.on = TRUE, !.password = TRUE, !.changed = TRUE, !.by = i]]
             ELSE users

\* Variant: whoever accepts is counted, also who is a member already.
ActivateCounting(w) ==
    /\ job[w].at = "activate"
    /\ job[w].inv \notin Locked
    /\ LET i == job[w].inv
           e == invitations[i].email
       IN  /\ IF job[w].gen # 0 THEN Activated(e, job[w].gen, i) ELSE Insert(e, TRUE, TRUE, i)
           /\ invitations' = [invitations EXCEPT ![i] = [@ EXCEPT !.status = "accepted"]]
    /\ count' = count + 1
    /\ Ends(w)
    /\ UNCHANGED <<nextId, requests, twice>>

Activate(w) ==
    /\ job[w].at = "activate"
    /\ job[w].inv \notin Locked
    /\ LET i == job[w].inv
           e == invitations[i].email
       IN  /\ IF job[w].gen # 0
              THEN Activated(e, job[w].gen, i) /\ UNCHANGED count
              ELSE Insert(e, TRUE, TRUE, i) /\ count' = count + 1
           /\ invitations' = [invitations EXCEPT ![i] = [@ EXCEPT !.status = "accepted"]]
    /\ Ends(w)
    /\ UNCHANGED <<nextId, requests, twice>>

\* A statement throws (a duplicate email, a deadlock, a lost connection) or the
\* server dies: an open transaction is rolled back, what was committed stays.
Fail(w) ==
    /\ job[w] # NoJob
    /\ Ends(w)
    /\ UNCHANGED <<users, invitations, nextId, count, requests, twice>>

-----------------------------------------------------------------------------
Next ==
    \/ \E w \in Workers, e \in Emails, b \in BOOLEAN :
           BeginCreate(w, e, b) \/ BeginInvite(w, e, b)
    \/ \E w \in Workers, e \in Emails : BeginDelete(w, e) \/ BeginDirectory(w, e)
    \/ \E w \in Workers, b \in BOOLEAN : BeginBulk(w, b)
    \/ \E w \in Workers, i \in Ids : BeginResend(w, i) \/ BeginCancel(w, i) \/ BeginAccept(w, i)
    \/ \E w \in Workers : \/ Create(w) \/ Increment(w) \/ Delete(w)
                          \/ Invite(w) \/ Resend(w)
                          \/ LockAndLook(w) \/ Withdraw(w)
                          \/ LookUp(w) \/ Activate(w)
                          \/ Fail(w)
    \/ \E S \in SUBSET Emails : \E P \in SUBSET S : Import(S, P)
    \/ \E e \in Emails : SetPassword(e) \/ \E on \in BOOLEAN : SetStatus(e, on)
    \/ \E i \in Ids : Expire(i)
    \/ Recount

Spec == Init /\ [][Next]_vars

-----------------------------------------------------------------------------
(***************************************************************************)
(* Properties.                                                             *)
(***************************************************************************)
\* The rows and the requests keep their types; what a request refers to exists.
TypeOK ==
    /\ users \in [Emails -> Account]
    /\ invitations \in [Ids -> Invitation]
    /\ nextId \in 1 .. MaxInvitations + 1
    /\ count \in Int
    /\ job \in [Workers -> Job]
    /\ requests \in 0 .. MaxRequests
    /\ twice \in Nat
    /\ \A w \in Workers :
          /\ job[w].at \in {"resend", "cancel", "withdraw", "accept", "activate"}
                => job[w].inv \in Sent
          /\ job[w].at \in {"create", "increment", "invite", "delete"}
                => job[w].emails # {}

\* The counter, with the creations that have still to count, never exceeds the
\* accounts by more than the creations a recount took in advance: no race between creating,
\* importing, accepting, cancelling and deleting turns away somebody for whom
\* there is room.  (It may well fall short: createUser is not a transaction, and
\* two deletions of one account take off two.)
OvercountOnlyByFix ==
    count + Cardinality(Uncounted) <= Cardinality(Accounts) + twice

\* A routine that had the organization to itself leaves the counter as far from
\* the accounts as it found it, unless a creation dies before it counts.
LoneKeepsDrift ==
    [][\A w \in Workers :
          job[w].alone /\ job'[w] = NoJob =>
              Drift' = job[w].drift \/ (job[w].at = "increment" /\ count' = count)]_vars

\* No email has two pending invitations unless one of them was made while
\* somebody else was at work: inviteUser, the directory and the bulk invitation
\* only look before they insert, and the table has no such key.
OneOpenInvitation ==
    \A i, j \in Pending :
        i # j /\ invitations[i].email = invitations[j].email =>
            invitations[i].raced \/ invitations[j].raced

\* A cancellation never deletes the account its own invitation has activated,
\* however acceptance and cancellation interleave: it looks under the row lock
\* that the acceptance must have.
CancelSparesAccepted ==
    \A e \in Emails : users[e].cut # 0 => users[e].by # users[e].cut

\* "guards against accidentally nuking a real, working account": a cancellation
\* deletes no account that has a password.  An import that brings passwords
\* leaves password_changed_at empty.
CancelSparesWorking ==
    \A e \in Emails : users[e].cut # 0 => ~users[e].password
=============================================================================
