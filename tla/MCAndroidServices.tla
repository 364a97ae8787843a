------------------------- MODULE MCAndroidServices -------------------------
(* AndroidServices for TLC: addresses at the ends of the private ranges.   *)
(* No property compares two activities or two locks but for equality.      *)
EXTENDS AndroidServices, TLC

Prefixes == {<< 172, 15 >>, << 172, 31 >>, << 172, 32 >>, << 192, 168 >>}

Symmetry == Permutations(Activities) \cup Permutations(Locks)
=============================================================================
