--------------------------- MODULE MCDarwinCamera ---------------------------
(* DarwinCamera for TLC.                                                   *)
EXTENDS DarwinCamera, TLC

CONSTANTS a1, a2

(* Addresses are interchangeable.                                          *)
Symmetry == Permutations(Addresses)
=============================================================================
