----------------------------- MODULE MCPayments -----------------------------
(* Instances of Payments for TLC.                                          *)
EXTENDS Payments, TLC

CONSTANTS c1, c2, c3, c4, b1, b2, k1, k2

Symmetry == Permutations(Calls) \cup Permutations(Connections)
=============================================================================
