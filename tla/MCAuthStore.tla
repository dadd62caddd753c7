----------------------------- MODULE MCAuthStore -----------------------------
(* A small instance of AuthStore for TLC; the savers other than Boot and the *)
(* files are interchangeable.                                                *)
EXTENDS AuthStore, TLC

Symmetry == Permutations(Saver \ {Boot}) \cup Permutations(Inode)
=============================================================================
