--------------------------- MODULE MCCameraBuffers ---------------------------
(* CameraBuffers for TLC: a size_t of eight bits, and modes that fit it,   *)
(* leave it, or are refused; the default is one of them.                   *)
EXTENDS CameraBuffers, TLC

C(w, h, o) == [width |-> w, height |-> h, fits |-> o]

MCRequests == {<< 5, 4 >>, << 200, 200 >>}
MCDefault == << 4, 4 >>
MCLists == {<< >>, << C(2, 4, TRUE), C(8, 4, TRUE) >>,
            << C(6, 4, FALSE), C(8, 8, TRUE), C(16, 2, TRUE) >>,
            << C(16, 2, TRUE), C(6, 4, FALSE) >>}

(* A mode past the list: one without a width, a near one, one that does    *)
(* not fit.                                                                *)
MCBeyond == {C(0, 4, TRUE), C(5, 6, TRUE), C(8, 8, FALSE)}

Symmetry == Permutations(Blocks)
=============================================================================
