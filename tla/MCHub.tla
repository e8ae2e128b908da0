------------------------------- MODULE MCHub -------------------------------
(* Hub for TLC: payloads, and connections, are interchangeable.            *)
EXTENDS Hub, TLC

Symmetry == Permutations(Conns) \cup Permutations(Msgs)
=============================================================================
