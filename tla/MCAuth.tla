------------------------------- MODULE MCAuth -------------------------------
(* Small instances of Auth for TLC.  Every run gives the constants its own  *)
(* values; request tasks and session tokens are interchangeable.            *)
EXTENDS Auth, TLC

Symmetry == Permutations(Proc) \cup Permutations(Token)
=============================================================================
