---------------------------- MODULE MCModeration ----------------------------
(* Small instances of Moderation for TLC. *)
EXTENDS Moderation, TLC

CONSTANTS r1, a1, a2, c1, c2, c3, v1, v2

OneReport  == {r1}
OneAdmin   == {a1}
TwoAdmins  == {a1, a2}
NoCalls    == {}
TwoCalls   == {c1, c2}
ThreeCalls == {c1, c2, c3}
TwoVoters  == {v1, v2}

\* One call of each voter at a time; v1 may have two calls in flight at once.
CallersTwo   == [c \in {c1, c2} |-> IF c = c1 THEN v1 ELSE v2]
CallersThree == [c \in {c1, c2, c3} |-> IF c = c3 THEN v2 ELSE v1]
CallersNone  == [c \in {} |-> v1]

AdminSymmetry == Permutations(Admins)
=============================================================================
