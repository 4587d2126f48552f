--------------------------- MODULE MCAttendanceDay ---------------------------
(* AttendanceDay with two instants to a day.                                  *)
EXTENDS AttendanceDay, TLC

CONSTANTS w1, w2

HalfDays == [t \in 1 .. LastInstant |-> (t + 1) \div 2]

Symmetry == Permutations({w1, w2})

\* Once two regularizations have been asked, nothing is left to decide them.
OneAsked == Len(regs) <= 1
=============================================================================
