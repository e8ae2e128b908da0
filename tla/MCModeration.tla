---------------------------- MODULE MCModeration ----------------------------
(* Moderation for TLC: the members of each set are interchangeable.        *)
EXTENDS Moderation, TLC

Symmetry ==
  Permutations(Posts) \cup Permutations(Reporters) \cup
  Permutations(Slots) \cup Permutations(Admins)
=============================================================================
