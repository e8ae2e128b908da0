---------------------------- MODULE MCRateLimit ----------------------------
(* RateLimit for TLC: checks, and subjects, are interchangeable.           *)
EXTENDS RateLimit, TLC

Symmetry == Permutations(Checks) \cup Permutations(Subjects) \cup Permutations(Parts)
=============================================================================
