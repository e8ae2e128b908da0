---------------------------- MODULE MCEngagement ----------------------------
(* Engagement for TLC: the members of each set are interchangeable.        *)
EXTENDS Engagement, TLC

Symmetry == Permutations(Posts) \cup Permutations(Users) \cup Permutations(Slots)
=============================================================================
