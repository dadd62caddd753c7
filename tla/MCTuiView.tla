----------------------------- MODULE MCTuiView -----------------------------
(* A small instance of TuiView for TLC: two filesystems, the second of which *)
(* is mounted.                                                               *)
EXTENDS TuiView

CONSTANTS f1, f2

MCInit == Init /\ table = <<f1, f2>> /\ f2 \in mounted

MCBudget == {<<c, a>> \in (0..2) \X (0..2) : c + a <= 2} \cup {<<1, 2>>, <<0, 3>>, <<0, 4>>}

MCSpec == MCInit /\ [][Next]_vars /\ Fairness
=============================================================================
