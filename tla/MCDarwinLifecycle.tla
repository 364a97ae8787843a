-------------------------- MODULE MCDarwinLifecycle --------------------------
(* DarwinLifecycle for TLC.                                                *)
EXTENDS DarwinLifecycle, TLC

CONSTANTS c1, c2

(* Addresses are interchangeable.                                          *)
Symmetry == Permutations(Cams)
=============================================================================
