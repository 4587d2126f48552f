----------------------------- MODULE MCPositions -----------------------------
(* Positions on a small instance.  Workers and users are interchangeable.   *)
EXTENDS Positions, TLC

Symmetry == Permutations(Workers) \cup Permutations(Users)
=============================================================================
