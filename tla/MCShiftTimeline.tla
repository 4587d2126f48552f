--------------------------- MODULE MCShiftTimeline ---------------------------
(* ShiftTimeline on a small instance.  A request that voids the promise by    *)
(* itself, naming a user again or with the ends of its window the wrong way   *)
(* round, is followed when it is the last one, has no other beside it and     *)
(* does only one of the two.                                                  *)
EXTENDS ShiftTimeline, TLC

CONSTANTS w1, w2, u1, u2, day, night

Careless(j) == j.kind = "assign" /\ (j.win \notin Windows \/ j.again # {})

WithinReach ==
    \A w \in Workers : Careless(job[w]) =>
        /\ requests = MaxRequests
        /\ \A v \in Workers \ {w} : job[v] = NoJob
        /\ Cardinality(job[w].again) <= (IF job[w].win \in Windows THEN 1 ELSE 0)

Symmetry == Permutations(Workers) \cup Permutations(Users)
               \cup Permutations(Shifts)
=============================================================================
