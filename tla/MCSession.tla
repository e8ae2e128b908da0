----------------------------- MODULE MCSession -----------------------------
(* Session for TLC: pseudonyms, ids and slots are interchangeable.         *)
EXTENDS Session, TLC

Symmetry == Permutations(Users) \cup Permutations(Names) \cup Permutations(Slots)
=============================================================================
