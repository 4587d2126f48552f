------------------------------- MODULE Roster -------------------------------
(***************************************************************************)
(* What the shift schedule promises an administrator: a day of an employee *)
(* shows one shift or none, and a change shows exactly where it was asked  *)
(* for.  A change may take several steps.  While it runs, and if it is     *)
(* given up half way, days of its employees may show nothing, but no day   *)
(* ever shows a shift that was neither there before nor asked for, and no  *)
(* other employee's days change at all.                                    *)
(*                                                                         *)
(* The promise is per employee and may be voided: the roster of an         *)
(* employee that is no longer kept says nothing.                           *)
(***************************************************************************)
EXTENDS Integers

CONSTANTS
    Users,
    Shifts,
    Off,      \* none: not a member of Shifts
    Horizon   \* the last day

VARIABLES
    roster,   \* roster[u][d]: the shift u sees on day d
    pending,  \* pending[u]: the change that is being made to u's days
    kept      \* the employees the promise is still made to

vars == <<roster, pending, kept>>

Days    == 1 .. Horizon
Shown   == [Days -> Shifts \cup {Off}]
Blank   == [d \in Days |-> Off]
Nothing == [before |-> Blank, after |-> Blank, open |-> FALSE]

Overlay(r, from, to, s) == [d \in Days |-> IF d \in from .. to THEN s ELSE r[d]]

Init ==
    /\ roster \in [Users -> Shown]
    /\ pending = [u \in Users |-> Nothing]
    /\ kept = Users

-----------------------------------------------------------------------------
Same(u) == roster'[u] = roster[u] /\ pending'[u] = pending[u]

Begin(u) ==
    /\ ~pending[u].open
    /\ roster'[u] = roster[u]
    /\ \E from, to \in Days, s \in Shifts :
          pending'[u] = [before |-> roster[u], open |-> TRUE,
                         after  |-> Overlay(roster[u], from, to, s)]

\* Days of the employee go blank, or come back as they were.
Thin(u) ==
    /\ pending[u].open /\ pending'[u] = pending[u]
    /\ \A d \in Days : roster'[u][d] \in {pending[u].before[d], Off}

Commit(u) ==
    /\ pending[u].open /\ pending'[u] = Nothing
    /\ roster'[u] = pending[u].after

GiveUp(u) ==
    /\ pending[u].open /\ pending'[u] = Nothing
    /\ roster'[u] = roster[u]

\* One shift is taken off a run of days that show it.
Remove(u) ==
    /\ ~pending[u].open /\ pending'[u] = pending[u]
    /\ \E from, to \in Days, s \in Shifts :
          /\ \A d \in from .. to : roster[u][d] = s
          /\ roster'[u] = Overlay(roster[u], from, to, Off)

Step(u) ==
    IF u \in kept'
      THEN Same(u) \/ Begin(u) \/ Thin(u) \/ Commit(u) \/ GiveUp(u) \/ Remove(u)
      ELSE roster'[u] = Blank /\ pending'[u] = Nothing

\* Two employees exchange the shifts of a run of days each.
Swap(u, v) ==
    \E s, t \in Shifts : \E f, g, h, i \in Days :
        /\ f <= g /\ h <= i
        /\ \A d \in f .. g : roster[u][d] = s
        /\ \A d \in h .. i : roster[v][d] = t
        /\ roster' = [roster EXCEPT ![u] = Overlay(@, f, g, t),
                                    ![v] = Overlay(@, h, i, s)]

Next ==
    \/ /\ kept' \subseteq kept
       /\ \A u \in Users : Step(u)
    \/ /\ \E u, v \in kept : u # v /\ Swap(u, v)
       /\ UNCHANGED <<pending, kept>>

Spec == Init /\ [][Next]_vars
=============================================================================
