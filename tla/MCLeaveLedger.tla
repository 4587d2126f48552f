--------------------------- MODULE MCLeaveLedger ---------------------------
(* LeaveLedger on small instances.  Workers are interchangeable.            *)
(* Requests that overlap or fail half-way multiply the states: they are    *)
(* followed while there is one application and the year is in its first    *)
(* date; requests that come one at a time are followed on every date, on   *)
(* the last one with two applications.                                     *)
EXTENDS LeaveLedger, TLC

Symmetry == Permutations(Workers)

RacesWithinReach ==
    \/ calm /\ (today = LastDate => apps[3] = Nothing)
    \/ today = 1 /\ \A i \in Ids \ {1} : apps[i] = Nothing

Leave(first, last, half, days) ==
    [first |-> first, last |-> last, half |-> half, days |-> days]

\* A stretch with a week-off in it and a day to split off, and both halves of
\* that day.
LongLeaves == {Leave(1, 3, "no", 4),
               Leave(2, 2, "first_half", 1), Leave(2, 2, "second_half", 1)}

\* A day of the second period, whole or half of it.
ShortLeaves == {Leave(2, 2, "no", 2), Leave(2, 2, "first_half", 1)}
=============================================================================
