--------------------------- MODULE MCFrameFormats ---------------------------
(* FrameFormats for TLC: frames of up to 6 by 4 pixels.                    *)
EXTENDS FrameFormats

SmallSizes == {2, 4, 6} \X {2, 4}
=============================================================================
