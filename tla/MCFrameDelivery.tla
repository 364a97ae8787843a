--------------------------- MODULE MCFrameDelivery ---------------------------
(* FrameDelivery for TLC: the cfg files give the bounds.                   *)
EXTENDS FrameDelivery
=============================================================================
