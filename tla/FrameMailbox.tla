---------------------------- MODULE FrameMailbox ----------------------------
(***************************************************************************)
(* The protocol of cam->read, on Android and on iOS and macOS: the         *)
(* callback announces a frame by setting the flag, al_camera_get_rgba      *)
(* takes the announcement by clearing it.  A one-place mailbox of          *)
(* announcements: a newer one replaces the one before it, taking it        *)
(* empties the box, and none is taken twice.                               *)
(*                                                                         *)
(* This says nothing of the pixels.  The buffer may be overwritten between *)
(* the clearing and the client's copy, so one frame may be copied twice    *)
(* and another torn, whatever Camera.data says of a frame not being        *)
(* returned twice (python/libal/camera/__init__.py:247-248); and on iOS    *)
(* and macOS an announcement may be taken by a call that answers NULL.     *)
(***************************************************************************)
EXTENDS Naturals

CONSTANT MaxFrames      \* frames are numbered 1 .. MaxFrames in capture order

VARIABLES
    latest,     \* the newest frame announced, 0 before the first one
    fresh,      \* whether its announcement has not been taken
    taken       \* the frame of the announcement taken last

mailbox == << latest, fresh, taken >>

Init == latest = 0 /\ fresh = FALSE /\ taken = 0

Announce(f) ==
    /\ f > latest
    /\ latest' = f
    /\ fresh' = TRUE
    /\ UNCHANGED taken

Take ==
    /\ fresh
    /\ taken' = latest
    /\ fresh' = FALSE
    /\ UNCHANGED latest

Next == Take \/ \E f \in 1 .. MaxFrames : Announce(f)

Spec == Init /\ [][Next]_mailbox

=============================================================================
