---------------------------- MODULE MCSeatLedger ----------------------------
(* SeatLedger on a small instance.  Workers and users are interchangeable.  *)
EXTENDS SeatLedger, TLC

Symmetry == Permutations(Workers) \cup Permutations(Users)
=============================================================================
