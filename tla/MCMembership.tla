---------------------------- MODULE MCMembership ----------------------------
(* Membership with interchangeable requests and emails.                      *)
EXTENDS Membership, TLC

CONSTANTS w1, w2, e1, e2

Symmetry == Permutations({w1, w2}) \cup Permutations({e1, e2})
=============================================================================
