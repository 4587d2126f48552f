----------------------- MODULE SubscriptionLifecycle -----------------------
(***************************************************************************)
(* The life of the org_subscriptions rows: subscribing, editing and        *)
(* cancelling (subscription.service.ts), the platform administrator's      *)
(* edits (subscription-admin.service.ts), the hourly conversion of expired *)
(* trials (trial-expiration.service.ts), the two collection sweeps         *)
(* enforceOverdueInvoices and processDunning, the notices the billing      *)
(* service sends (webhook-handler.service.ts) and the call that tells it   *)
(* of a new subscription (empcloud-webhook-emitter.ts).                    *)
(*                                                                         *)
(* Nothing is locked and nothing runs in a transaction.  A request decides *)
(* on the row it has read and writes after an awaited price; a sweep works *)
(* through the rows its SELECT returned, one awaited lookup and one UPDATE *)
(* by id at a time.  Anything may happen in between, a restart of the      *)
(* server included: what was in flight is then forgotten.                  *)
(*                                                                         *)
(* The billing service is outside the repository.  It may send any notice  *)
(* about a subscription it has been told of, at any time: late, twice, out *)
(* of order or never.                                                      *)
(***************************************************************************)
EXTENDS Integers, FiniteSets, Sequences, Functions

CONSTANTS
    Subs,         \* (organization, module) pairs; each has at most one row
    Edited,       \* bound: those that requests, notices, edits and collection
                  \*        are about; the others only meet the trial sweep
    Priceable,    \* those for which an awaited price does not fail each time
    Workers,      \* requests in flight at a time
    TrialDays, Period, Grace,     \* lengths in days
    Warn, Suspend, Deactivate,    \* days overdue, after the grace period
    LastDay,      \* bound: the last day modelled
    MaxEdits      \* bound: requests, edits, notices and restarts

ASSUME SubsFinite     == IsFiniteSet(Subs)
ASSUME SubsOK         == Edited \subseteq Subs /\ Priceable \subseteq Subs
ASSUME LengthsOK      == {TrialDays, Period} \subseteq Nat \ {0} /\ Grace \in Nat
ASSUME ThresholdsOK   == /\ {Warn, Suspend, Deactivate} \subseteq Nat
                         /\ 1 < Warn /\ Warn < Suspend /\ Suspend < Deactivate
ASSUME BoundsOK       == LastDay \in Nat \ {0} /\ MaxEdits \in Nat

VARIABLES
    today,
    row,        \* the org_subscriptions row of each subscription
    mapped,     \* subscriptions with a billing_subscription_mappings row
    telling,    \* subscriptions whose subscription.created call is in flight
    job,        \* what each request has decided to write
    expiring,   \* the rows the trial sweep has still to convert, in order
    enforcer,   \* the state of enforceOverdueInvoices
    dunner,     \* the state of processDunning
    edits,      \* bound: edits so far
    settled,    \* history: cancelled with nothing in flight about them, and
                \*          neither subscribed again, edited nor reported since
    quiet       \* history: the collection sweep that has run alone so far

sweepVars == <<expiring, enforcer, dunner>>
vars == <<today, row, mapped, telling, job, sweepVars, edits, settled, quiet>>

-----------------------------------------------------------------------------
NoDay == 0                      \* NULL in a date column

BodyStatuses  == {"active", "trial", "past_due", "cancelled", "expired"}
AdminStatuses == BodyStatuses \cup {"suspended"}
Statuses      == AdminStatuses \cup {"none", "deactivated"}
Collected     == {"active", "past_due", "suspended"}

Stages == 0 .. 4   \* current, reminder, warning, suspended, deactivated

Rows  == [status : Statuses, trialEnds : Nat, periodEnd : Nat, stage : Stages]
NoRow == [status |-> "none", trialEnds |-> NoDay, periodEnd |-> NoDay,
          stage |-> 0]

NoJob == [kind |-> "idle", to |-> "none"]
Jobs  == {NoJob}
           \cup [kind : {"insert", "reactivate"}, sub : Subs,
                 to : {"active", "trial"}]
           \cup [kind : {"update"}, sub : Subs, to : BodyStatuses]
           \cup [kind : {"convert"}, sub : Subs, to : {"active"}]

\* What a collection sweep will write to a row it selected: a status and a
\* dunning stage, "keep" and 0 for a column it leaves alone.
NoWrite == [status |-> "keep", stage |-> 0]
Writes  == [status : {"keep", "past_due", "suspended", "deactivated"},
            stage : Stages]
Idle    == [pass |-> 0, day |-> NoDay, plan |-> [s \in Subs |-> NoWrite]]
Sweeps  == [pass : 0 .. 2, day : Nat, plan : [Subs -> Writes]]

TypeOK ==
    /\ today \in 1 .. LastDay
    /\ row \in [Subs -> Rows]
    /\ mapped \subseteq Subs /\ telling \subseteq Subs
    /\ job \in [Workers -> Jobs]
    /\ expiring \in Seq(Subs)
    /\ enforcer \in Sweeps /\ dunner \in Sweeps
    /\ edits \in 0 .. MaxEdits
    /\ settled \subseteq Subs
    /\ quiet \in {"none", "enforce", "dun"}

-----------------------------------------------------------------------------
\* The row createSubscription writes; a reactivation leaves dunning_stage.
Subscribed(to, day, stage) ==
    [status    |-> to,
     trialEnds |-> IF to = "trial" THEN day + TrialDays ELSE NoDay,
     periodEnd |-> day + Period,
     stage     |-> stage]

\* buildTrialEndPayload
Converted(r) == [r EXCEPT !.status = "active", !.trialEnds = NoDay,
                          !.periodEnd = today + Period]

\* Rows on the last day of their first period, as createSubscription left them.
EndingTrial  == [status |-> "trial", trialEnds |-> 1, periodEnd |-> 1, stage |-> 0]
EndingPeriod == [EndingTrial EXCEPT !.status = "active", !.trialEnds = NoDay]

Init ==
    /\ today = 1
    /\ row \in [Subs -> {NoRow, EndingTrial, EndingPeriod}]
    /\ \A s \in Subs : row[s] = EndingTrial <=> s \notin Edited
    /\ mapped = {s \in Subs : row[s] = EndingPeriod} /\ telling = {}
    /\ job = [w \in Workers |-> NoJob]
    /\ expiring = <<>>
    /\ enforcer = Idle /\ dunner = Idle
    /\ edits = 0
    /\ settled = {}
    /\ quiet = "none"

\* What people, the billing service and the machine do is bounded.
Edit == edits < MaxEdits /\ edits' = edits + 1

Busy(s) == \/ \E w \in Workers : job[w] # NoJob /\ job[w].sub = s
           \/ s \in Range(expiring)
           \/ enforcer.plan[s] # NoWrite \/ dunner.plan[s] # NoWrite

-----------------------------------------------------------------------------
(***************************************************************************)
(* Requests of the organization.                                           *)
(***************************************************************************)
\* createSubscription, to the awaited price: a row that is not cancelled is a
\* conflict.
BeginCreate(w, s, to) ==
    /\ Edit
    /\ job[w] = NoJob
    /\ row[s].status \in {"none", "cancelled"}
    /\ job' = [job EXCEPT ![w] =
         [kind |-> IF row[s].status = "none" THEN "insert" ELSE "reactivate",
          sub |-> s, to |-> to]]
    /\ UNCHANGED <<today, row, mapped, telling, sweepVars, settled, quiet>>

\* The INSERT under the unique key, or the UPDATE of the cancelled row by id.
Create(w) ==
    LET s == job[w].sub IN
    /\ job[w].kind \in {"insert", "reactivate"}
    /\ job[w].kind = "insert" => row[s].status = "none"
    /\ row' = [row EXCEPT ![s] = Subscribed(job[w].to, today, row[s].stage)]
    /\ \E paid \in BOOLEAN :
          telling' = IF paid THEN telling \cup {s} ELSE telling
    /\ job' = [job EXCEPT ![w] = NoJob]
    /\ settled' = settled \ {s}
    /\ quiet' = "none"
    /\ UNCHANGED <<today, mapped, sweepVars, edits>>

\* updateSubscription, to the awaited price: a trial that is upgraded ends.
BeginUpdate(w, s) ==
    /\ Edit
    /\ job[w] = NoJob
    /\ row[s].status # "none"
    /\ \/ /\ row[s].status = "trial"
          /\ job' = [job EXCEPT ![w] =
               [kind |-> "convert", sub |-> s, to |-> "active"]]
       \/ \E to \in BodyStatuses :
             job' = [job EXCEPT ![w] = [kind |-> "update", sub |-> s, to |-> to]]
    /\ UNCHANGED <<today, row, mapped, telling, sweepVars, settled, quiet>>

Update(w) ==
    LET s == job[w].sub IN
    /\ job[w].kind \in {"convert", "update"}
    /\ row' = [row EXCEPT ![s] = IF job[w].kind = "convert" THEN Converted(@)
                                 ELSE [@ EXCEPT !.status = job[w].to]]
    /\ job' = [job EXCEPT ![w] = NoJob]
    /\ settled' = IF job[w].kind = "update" THEN settled \ {s} ELSE settled
    /\ quiet' = "none"
    /\ UNCHANGED <<today, mapped, telling, sweepVars, edits>>

\* A request fails: the price cannot be read, or the insert meets a row.
GiveUp(w) ==
    /\ job[w] # NoJob
    /\ job' = [job EXCEPT ![w] = NoJob]
    /\ UNCHANGED <<today, row, mapped, telling, sweepVars, edits, settled, quiet>>

\* A row becomes cancelled in one statement.  The seats that cancelSubscription
\* then deletes are in SeatLedger.
MarkCancelled(s) ==
    /\ row' = [row EXCEPT ![s].status = "cancelled"]
    /\ settled' = IF Busy(s) THEN settled ELSE settled \cup {s}
    /\ quiet' = "none"

Cancel(s) ==
    /\ Edit
    /\ row[s].status # "none"
    /\ MarkCancelled(s)
    /\ UNCHANGED <<today, mapped, telling, job, sweepVars>>

\* The platform administrator writes any status, and any of the dates.
AdminUpdate(s) ==
    /\ Edit
    /\ row[s].status # "none"
    /\ \/ \E to \in AdminStatuses : row' = [row EXCEPT ![s].status = to]
       \/ \E d \in {NoDay, today} : row' = [row EXCEPT ![s].trialEnds = d]
       \/ row' = [row EXCEPT ![s].periodEnd = today + Period]
    /\ settled' = settled \ {s}
    /\ quiet' = "none"
    /\ UNCHANGED <<today, mapped, telling, job, sweepVars>>

-----------------------------------------------------------------------------
(***************************************************************************)
(* The hourly conversion of expired trials.  One timer runs it.            *)
(***************************************************************************)
TrialOver(r) == /\ r.status = "trial"
                /\ r.trialEnds # NoDay
                /\ r.trialEnds < today

\* The SELECT; with no ORDER BY the rows come in any order.
StartTrialSweep ==
    LET over == {s \in Subs : TrialOver(row[s])} IN
    /\ expiring = <<>>
    /\ over # {}
    /\ expiring' \in Bijection(1 .. Cardinality(over), over)
    /\ UNCHANGED <<today, row, mapped, telling, job, enforcer, dunner, edits,
                   settled, quiet>>

\* The UPDATE of the next row, by id.
Convert(s) ==
    /\ expiring # <<>> /\ s = Head(expiring)
    /\ row' = [row EXCEPT ![s] = Converted(@)]
    /\ expiring' = Tail(expiring)
    /\ quiet' = "none"
    /\ UNCHANGED <<today, mapped, telling, job, enforcer, dunner, edits, settled>>

\* Variant: one row that fails ends the sweep.
ConvertFailsForAll ==
    /\ expiring # <<>>
    /\ expiring' = <<>>
    /\ UNCHANGED <<today, row, mapped, telling, job, enforcer, dunner, edits,
                   settled, quiet>>

\* The catch around one row: it is counted and the sweep goes on.
ConvertFails ==
    /\ expiring # <<>>
    /\ expiring' = Tail(expiring)
    /\ UNCHANGED <<today, row, mapped, telling, job, enforcer, dunner, edits,
                   settled, quiet>>

-----------------------------------------------------------------------------
(***************************************************************************)
(* The collection sweeps.  What a sweep does to a row follows from the     *)
(* status, the stage and the period end its SELECT returned and from the   *)
(* day on which it began: its plan is settled then, and carried out one    *)
(* row at a time, by id, each after an awaited lookup of the grace period. *)
(***************************************************************************)
Overdue(r, day) == day - r.periodEnd - Grace

\* Variant: the second pass asks for the same status as the first.
EnforcedActiveOnly(r, day, pass) ==
    LET o == Overdue(r, day) IN
    IF o >= Deactivate THEN [NoWrite EXCEPT !.status = "deactivated"]
    ELSE IF o >= Suspend /\ r.status = "active"
           THEN [NoWrite EXCEPT !.status = "suspended"]
    ELSE NoWrite

\* What enforceOverdueInvoices makes of a row, in its first pass over the mapped
\* rows and in its second over those past due.
Enforced(r, day, pass) ==
    LET o == Overdue(r, day) IN
    IF o >= Deactivate THEN [NoWrite EXCEPT !.status = "deactivated"]
    ELSE IF o >= Suspend /\ (pass = 2 \/ r.status = "active")
           THEN [NoWrite EXCEPT !.status = "suspended"]
    ELSE NoWrite

Enforcing(pass, day, selected) ==
    [pass |-> pass, day |-> day,
     plan |-> [s \in Subs |-> IF s \in selected
                                THEN Enforced(row[s], day, pass) ELSE NoWrite]]

\* Variant: the stages are counted from the reminder, not from "current".
TargetStageFromReminder(o) ==
    1 + Cardinality({t \in {1, Warn, Suspend, Deactivate} : t <= o})

\* The stages a subscription o days overdue has come to: a reminder from the
\* first day, then the three limits.
TargetStage(o) == Cardinality({t \in {1, Warn, Suspend, Deactivate} : t <= o})

\* What processDunning makes of a row: nothing unless the stage rises.
Dunned(r, day) ==
    LET to == TargetStage(Overdue(r, day)) IN
    IF to <= r.stage THEN NoWrite
    ELSE [stage  |-> to,
          status |-> CASE to = 4 -> "deactivated"
                       [] to = 3 -> "suspended"
                       [] OTHER  -> IF r.status = "active" THEN "past_due"
                                                           ELSE "keep"]

Written(r, write) ==
    [r EXCEPT !.status = IF write.status = "keep" THEN @ ELSE write.status,
              !.stage  = IF write.stage = 0 THEN @ ELSE write.stage]

\* A run that finds nothing overdue writes nothing and is no step.
SomeOverdue == \E s \in Edited : /\ row[s].status \in Collected
                                  /\ Overdue(row[s], today) > 0

\* The join with billing_subscription_mappings.
StartEnforcement ==
    /\ enforcer.pass = 0
    /\ SomeOverdue
    /\ enforcer' = Enforcing(1, today,
                             {s \in mapped : row[s].status \in Collected})
    /\ quiet' = IF dunner.pass = 0 THEN "enforce" ELSE "none"
    /\ UNCHANGED <<today, row, mapped, telling, job, expiring, dunner, edits,
                   settled>>

EnforceOne(s) ==
    /\ enforcer.plan[s] # NoWrite
    /\ row' = [row EXCEPT ![s] = Written(@, enforcer.plan[s])]
    /\ enforcer' = [enforcer EXCEPT !.plan[s] = NoWrite]
    /\ quiet' = IF quiet = "enforce" THEN quiet ELSE "none"
    /\ UNCHANGED <<today, mapped, telling, job, expiring, dunner, edits, settled>>

Done(sweep) == \A s \in Subs : sweep.plan[s] = NoWrite

SecondPass ==
    /\ enforcer.pass = 1 /\ Done(enforcer)
    /\ enforcer' = Enforcing(2, enforcer.day,
                             {s \in Edited : row[s].status = "past_due"})
    /\ UNCHANGED <<today, row, mapped, telling, job, expiring, dunner, edits,
                   settled, quiet>>

EndEnforcement ==
    /\ enforcer.pass = 2 /\ Done(enforcer)
    /\ enforcer' = Idle
    /\ UNCHANGED <<today, row, mapped, telling, job, expiring, dunner, edits,
                   settled, quiet>>

StartDunning ==
    /\ dunner.pass = 0
    /\ SomeOverdue
    /\ dunner' = [pass |-> 1, day |-> today,
                  plan |-> [s \in Subs |-> IF s \in Edited /\ row[s].status \in Collected
                                             THEN Dunned(row[s], today)
                                             ELSE NoWrite]]
    /\ quiet' = IF enforcer.pass = 0 THEN "dun" ELSE "none"
    /\ UNCHANGED <<today, row, mapped, telling, job, expiring, enforcer, edits,
                   settled>>

DunOne(s) ==
    /\ dunner.plan[s] # NoWrite
    /\ row' = [row EXCEPT ![s] = Written(@, dunner.plan[s])]
    /\ dunner' = [dunner EXCEPT !.plan[s] = NoWrite]
    /\ quiet' = IF quiet = "dun" THEN quiet ELSE "none"
    /\ UNCHANGED <<today, mapped, telling, job, expiring, enforcer, edits, settled>>

EndDunning ==
    /\ dunner.pass = 1 /\ Done(dunner)
    /\ dunner' = Idle
    /\ UNCHANGED <<today, row, mapped, telling, job, expiring, enforcer, edits,
                   settled, quiet>>

\* A grace period that cannot be read ends either sweep where it stands.
SweepFails ==
    /\ \/ enforcer.pass # 0 /\ enforcer' = Idle /\ UNCHANGED dunner
       \/ dunner.pass # 0 /\ dunner' = Idle /\ UNCHANGED enforcer
    /\ quiet' = "none"
    /\ UNCHANGED <<today, row, mapped, telling, job, expiring, edits, settled>>

-----------------------------------------------------------------------------
(***************************************************************************)
(* The billing service: the call that tells it of a subscription, and the  *)
(* notices it sends about those it knows.                                  *)
(***************************************************************************)
\* backfillBillingFromExistingSubscriptions
Backfill ==
    LET unknown == {s \in Edited \ mapped :
                      row[s].status \in Collected \cup {"trial"}} IN
    /\ telling' = telling \cup unknown
    /\ UNCHANGED <<today, row, mapped, job, sweepVars, edits, settled, quiet>>

\* The reply names the billing subscription: persistMappings.
Mapped(s) ==
    /\ s \in telling
    /\ telling' = telling \ {s}
    /\ mapped' = mapped \cup {s}
    /\ quiet' = "none"
    /\ UNCHANGED <<today, row, job, sweepVars, edits, settled>>

\* Best effort: the call is made once.
CallLost(s) ==
    /\ s \in telling
    /\ telling' = telling \ {s}
    /\ UNCHANGED <<today, row, mapped, job, sweepVars, edits, settled, quiet>>

\* The period end a renewal reports, today's or one that arrives late.
RenewalEnds == {today, today + Period}

\* Variant: a renewal does not look at the status.
RenewedWhatever(s) ==
    /\ Edit
    /\ s \in mapped
    /\ \E end \in RenewalEnds :
          row' = [row EXCEPT ![s].periodEnd = end, ![s].status = "active"]
    /\ quiet' = "none"
    /\ UNCHANGED <<today, mapped, telling, job, sweepVars, settled>>

Renewed(s) ==
    /\ Edit
    /\ s \in mapped
    /\ row[s].status \in Collected \cup {"trial"}
    /\ \E end \in RenewalEnds :
          row' = [row EXCEPT ![s].periodEnd = end,
                             ![s].status = IF @ \in {"past_due", "suspended"}
                                             THEN "active" ELSE @]
    /\ quiet' = "none"
    /\ UNCHANGED <<today, mapped, telling, job, sweepVars, settled>>

InvoicePaid(s) ==
    /\ Edit
    /\ s \in mapped
    /\ row[s].status \in {"past_due", "trial"}
    /\ row' = [row EXCEPT ![s].status = "active"]
    /\ quiet' = "none"
    /\ UNCHANGED <<today, mapped, telling, job, sweepVars, settled>>

\* subscription.payment_failed and invoice.overdue
Unpaid(s) ==
    /\ Edit
    /\ s \in mapped
    /\ row' = [row EXCEPT ![s].status = "past_due"]
    /\ settled' = settled \ {s}
    /\ quiet' = "none"
    /\ UNCHANGED <<today, mapped, telling, job, sweepVars>>

CancelledByBilling(s) ==
    /\ Edit
    /\ s \in mapped
    /\ MarkCancelled(s)
    /\ UNCHANGED <<today, mapped, telling, job, sweepVars>>

-----------------------------------------------------------------------------
Tick ==
    /\ today < LastDay
    /\ today' = today + 1
    /\ UNCHANGED <<row, mapped, telling, job, sweepVars, edits, settled, quiet>>

\* The server stops and starts again; the rows and the mappings stay.
Restart ==
    /\ Edit
    /\ job' = [w \in Workers |-> NoJob]
    /\ telling' = {}
    /\ expiring' = <<>> /\ enforcer' = Idle /\ dunner' = Idle
    /\ quiet' = "none"
    /\ UNCHANGED <<today, row, mapped, settled>>

Request(w) ==
    \/ \E s \in Edited : \/ \E to \in {"active", "trial"} : BeginCreate(w, s, to)
                         \/ BeginUpdate(w, s)
    \/ Create(w)
    \/ Update(w)
    \/ GiveUp(w)

Notice(s) == Renewed(s) \/ InvoicePaid(s) \/ Unpaid(s) \/ CancelledByBilling(s)

Next ==
    \/ \E w \in Workers : Request(w)
    \/ \E s \in Edited : Cancel(s) \/ AdminUpdate(s) \/ Notice(s)
    \/ \E s \in Subs : Convert(s) \/ EnforceOne(s) \/ DunOne(s) \/ Mapped(s)
                       \/ CallLost(s)
    \/ StartTrialSweep \/ ConvertFails
    \/ StartEnforcement \/ SecondPass \/ EndEnforcement
    \/ StartDunning \/ EndDunning \/ SweepFails
    \/ Backfill \/ Tick \/ Restart

Spec == Init /\ [][Next]_vars

\* The timer runs the sweep again and again, an awaited query settles, and what
\* is tried again and again does not fail each time.
FairSpec ==
    /\ Spec
    /\ WF_vars(StartTrialSweep)
    /\ WF_vars(ConvertFails \/ \E s \in Subs : Convert(s))
    /\ \A s \in Priceable : SF_vars(Convert(s))

-----------------------------------------------------------------------------
\* A cancellation that found no request and no sweep at work on the subscription
\* holds until somebody subscribes again, edits the row or reports it unpaid: no
\* renewal, payment, trial sweep or collection sweep, however late, revives it.
CancellationHolds == \A s \in settled : row[s].status = "cancelled"

\* When enforceOverdueInvoices has run with nobody else writing, no subscription
\* billing knows of is left in service past the limits of its two passes:
\* suspended from Suspend days overdue, deactivated from Deactivate.
InService(r, day) ==
    \/ Overdue(r, day) >= Suspend    /\ r.status \in {"active", "past_due"}
    \/ Overdue(r, day) >= Deactivate /\ r.status \in Collected

EnforcementVerdict ==
    [][EndEnforcement /\ quiet = "enforce"
         => \A s \in mapped : ~InService(row[s], enforcer.day)]_vars

\* The day-15 and day-30 lines of the dunning schedule: when processDunning has
\* run with nobody else writing, nothing is left in service past them.
DunningVerdict ==
    [][EndDunning /\ quiet = "dun"
         => \A s \in Subs : ~InService(row[s], dunner.day)]_vars

\* Every trial past its end date leaves that state, whatever happens to the
\* other trials the same sweep has selected.
TrialsEnd == \A s \in Priceable : TrialOver(row[s]) ~> ~TrialOver(row[s])

\* "Re-running only picks up rows still in trial state".
ConvertsTrialsOnly ==
    [][\A s \in Subs : Convert(s) => row[s].status = "trial"]_vars
=============================================================================
