-------------------------- MODULE MCCameraLifecycle --------------------------
(* Finite instances of CameraLifecycle for TLC.                            *)
EXTENDS CameraLifecycle, TLC

CONSTANTS c1, c2

(* Addresses are interchangeable: nothing orders or chooses among them.    *)
Symmetry == Permutations(Cams)
=============================================================================
