---------------------------- MODULE DarwinCamera ----------------------------
(***************************************************************************)
(* One camera on iOS and macOS (darwin/camera.m): the client thread, the   *)
(* serial queue that calls didOutputSampleBuffer and process_image, and    *)
(* the global queue that runs the block al_camera_start dispatches.  They  *)
(* share cam->stop, cam->read, cam->image and cam->rgba without a lock.    *)
(*                                                                         *)
(* Unlike on Android every frame is given a new RGBA buffer and the one    *)
(* before it is freed, while the client may be copying it.  A buffer is    *)
(* its address and the frame its two halves hold.                          *)
(***************************************************************************)
EXTENDS Integers

CONSTANTS
    MaxFrames,      \* bound: the camera captures frames 1 .. MaxFrames
    MaxStarts,      \* bound: calls of al_camera_start
    Addresses,      \* what posix_memalign can return
    Null,           \* the null pointer
    CanFail,        \* TRUE: a call to the platform or an allocation may fail
    DrainSuffices,  \* TRUE: 200 ms outlast every block and callback due
    MayStop,        \* TRUE: the client may stop the camera and restart it
    StopsFirst      \* TRUE: the client frees only a stopped camera

ASSUME DarwinAssumption ==
    /\ MaxFrames \in Nat /\ MaxStarts \in Nat
    /\ Null \notin Addresses
    /\ {CanFail, DrainSuffices, MayStop, StopsFirst}
           \subseteq BOOLEAN

VARIABLES
    stop,       \* cam->stop
    read,       \* cam->read
    rgba,       \* cam->rgba: its data and the frame in each half, 0 if none
    sized,      \* whether cam->image.width and height are not zero
    running,    \* whether the capture session runs
    captured,   \* frames captured so far
    pending,    \* the frame whose callback is due, 0 if none
    cb,         \* the callback: where it is, the frame it processes
    starts,     \* calls of al_camera_start so far
    blocks,     \* its blocks: not begun, and past their test
    client,     \* the client thread: where it is in which call
    data,       \* the pointer al_camera_get_rgba returned
    copy,       \* what the client copied from it
    quiet,      \* ghost: al_camera_stop returned and no start came since
    published,  \* ghost: the newest frame announced by cam->read = true
    taken       \* ghost: the newest frame announced when read was cleared

camvars == << stop, read, rgba, sized >>
session == << running, captured, pending >>
global == << starts, blocks >>
local == << data, copy >>
ghosts == << published, taken >>
vars == << camvars, session, cb, global, client, local, quiet, ghosts >>

Halves == 1 .. 2
Blank == [h \in Halves |-> 0]
NoBuffer == [addr |-> Null, half |-> Blank]

Init ==
    /\ stop = FALSE /\ read = FALSE /\ rgba = NoBuffer /\ sized = FALSE
    /\ running = FALSE /\ captured = 0 /\ pending = 0
    /\ cb = [pc |-> "idle", frame |-> 0]
    /\ starts = 0 /\ blocks = [queued |-> 0, checked |-> 0]
    /\ client = "idle" /\ data = Null /\ copy = Blank
    /\ quiet = FALSE /\ published = 0 /\ taken = 0

-----------------------------------------------------------------------------
(* The capture session (AVFoundation).  A frame that finds the queue busy  *)
(* is dropped.                                                             *)
Capture ==
    /\ running
    /\ captured < MaxFrames
    /\ captured' = captured + 1
    /\ pending' = IF pending = 0 THEN captured + 1 ELSE pending
    /\ UNCHANGED << camvars, running, cb, global, client, local, quiet,
                    ghosts >>

(* The block of al_camera_start, on the global queue.                      *)
BlockSkips ==
    /\ blocks.queued > 0 /\ client # "freed"
    /\ stop
    /\ blocks' = [blocks EXCEPT !.queued = @ - 1]
    /\ UNCHANGED << camvars, session, cb, starts, client, local, quiet,
                    ghosts >>

BlockTests ==
    /\ blocks.queued > 0 /\ client # "freed"
    /\ ~stop
    /\ blocks' = [queued |-> blocks.queued - 1, checked |-> blocks.checked + 1]
    /\ UNCHANGED << camvars, session, cb, starts, client, local, quiet,
                    ghosts >>

StartRunning ==
    /\ blocks.checked > 0 /\ client # "freed"
    /\ running' = TRUE
    /\ blocks' = [blocks EXCEPT !.checked = @ - 1]
    /\ UNCHANGED << camvars, captured, pending, cb, starts, client, local,
                    quiet, ghosts >>

-----------------------------------------------------------------------------
(* The serial queue: didOutputSampleBuffer and process_image               *)

Goto(pc) == cb' = [cb EXCEPT !.pc = pc]
Return == cb' = [pc |-> "idle", frame |-> 0]

DidOutputStopped ==
    /\ cb.pc = "idle" /\ pending # 0
    /\ stop
    /\ pending' = 0
    /\ UNCHANGED << camvars, running, captured, cb, global, client, local,
                    quiet, ghosts >>

(* Slip: the test of cam->stop is missing.                                 *)
AcceptsAny == TRUE

Accepts == ~stop

DidOutput ==
    /\ cb.pc = "idle" /\ pending # 0
    /\ Accepts
    /\ pending' = 0
    /\ cb' = [pc |-> "process", frame |-> pending]
    /\ UNCHANGED << camvars, running, captured, global, client, local, quiet,
                    ghosts >>

(* No image in the sample, or error1 and error2: the size may have been    *)
(* stored before the failure.                                              *)
ProcessFails ==
    /\ cb.pc = "process"
    /\ CanFail
    /\ sized' \in {sized, TRUE}
    /\ Return
    /\ UNCHANGED << stop, read, rgba, session, global, client, local, quiet,
                    ghosts >>

(* The size is stored and cam->image is given a new buffer.                *)
ImageAlloc ==
    /\ cb.pc = "process"
    /\ sized' = TRUE
    /\ Goto("convert")
    /\ UNCHANGED << stop, read, rgba, session, global, client, local, quiet,
                    ghosts >>

(* The copy fails, as it does for a planar frame, or the conversion.       *)
ConvertFails ==
    /\ cb.pc = "convert"
    /\ CanFail
    /\ \E label \in {"error3", "error4"} : Goto(label)
    /\ UNCHANGED << camvars, session, global, client, local, quiet, ghosts >>

(* al_image_alloc of cam->rgba: the buffer goes, then a new one comes.     *)
RGBARelease ==
    /\ cb.pc = "convert"
    /\ rgba' = NoBuffer
    /\ Goto("realloc")
    /\ UNCHANGED << stop, read, sized, session, global, client, local, quiet,
                    ghosts >>

RGBAAlloc ==
    /\ cb.pc = "realloc"
    /\ \E a \in Addresses : rgba' = [addr |-> a, half |-> Blank]
    /\ Goto("rgba1")
    /\ UNCHANGED << stop, read, sized, session, global, client, local, quiet,
                    ghosts >>

RGBAAllocFails ==
    /\ cb.pc = "realloc"
    /\ CanFail
    /\ Goto("error4")
    /\ UNCHANGED << camvars, session, global, client, local, quiet, ghosts >>

CopyToRGBA(half, from, to) ==
    /\ cb.pc = from
    /\ rgba' = [rgba EXCEPT !.half[half] = cb.frame]
    /\ Goto(to)
    /\ UNCHANGED << stop, read, sized, session, global, client, local, quiet,
                    ghosts >>

Publish ==
    /\ cb.pc = "publish"
    /\ read' = TRUE
    /\ published' = cb.frame
    /\ Return
    /\ UNCHANGED << stop, rgba, sized, session, global, client, local, quiet,
                    taken >>

(* Slip: error4 leaves the new buffer, with nothing in it.                 *)
Error4Keeps ==
    /\ cb.pc = "error4"
    /\ \E a \in Addresses : rgba' = [addr |-> a, half |-> Blank]
    /\ Goto("error3")
    /\ UNCHANGED << stop, read, sized, session, global, client, local, quiet,
                    ghosts >>

(* error4 and error3: al_image_free of cam->rgba, then of cam->image.      *)
Error4 ==
    /\ cb.pc = "error4"
    /\ rgba' = NoBuffer
    /\ Goto("error3")
    /\ UNCHANGED << stop, read, sized, session, global, client, local, quiet,
                    ghosts >>

Error3 ==
    /\ cb.pc = "error3"
    /\ sized' = FALSE
    /\ Return
    /\ UNCHANGED << stop, read, rgba, session, global, client, local, quiet,
                    ghosts >>

-----------------------------------------------------------------------------
(* The client thread                                                       *)

At(pc) == client = pc

(* al_camera_start: the block is dispatched, then cam->stop cleared.       *)
StartDispatch ==
    /\ At("idle")
    /\ starts < MaxStarts
    /\ starts' = starts + 1
    /\ blocks' = [blocks EXCEPT !.queued = @ + 1]
    /\ quiet' = FALSE
    /\ client' = "started"
    /\ UNCHANGED << camvars, session, cb, local, ghosts >>

StartEnd ==
    /\ At("started")
    /\ stop' = FALSE
    /\ client' = "idle"
    /\ UNCHANGED << read, rgba, sized, session, cb, global, local, quiet,
                    ghosts >>

(* al_camera_stop: the sleep comes whether or not the session was running. *)
StopBegin ==
    /\ At("idle") /\ MayStop
    /\ stop' = TRUE
    /\ client' = "stopping"
    /\ UNCHANGED << read, rgba, sized, session, cb, global, local, quiet,
                    ghosts >>

StopRunning ==
    /\ At("stopping")
    /\ running' = FALSE
    /\ client' = "sleeping"
    /\ UNCHANGED << camvars, captured, pending, cb, global, local, quiet,
                    ghosts >>

(* Slip: the sleep is skipped, as its indentation suggests, when the       *)
(* session was not running.                                                *)
NotDrained == TRUE

Drained ==
    DrainSuffices => cb.pc = "idle" /\ blocks.queued = 0 /\ blocks.checked = 0

Slept ==
    /\ At("sleeping")
    /\ Drained
    /\ quiet' = TRUE
    /\ client' = "idle"
    /\ UNCHANGED << camvars, session, cb, global, local, ghosts >>

(* al_camera_get_rgba, then the copy of Camera.rgba_bytes: nothing is      *)
(* copied when the pointer is NULL or the size zero.                       *)
GetRGBA ==
    /\ At("idle")
    /\ client' = IF read THEN "clear" ELSE "idle"
    /\ UNCHANGED << camvars, session, cb, global, local, quiet, ghosts >>

(* Slip: the flag is not cleared.                                          *)
FlagKept == read

FlagCleared == FALSE

ClearRead ==
    /\ At("clear")
    /\ read' = FlagCleared
    /\ taken' = published
    /\ client' = "load"
    /\ UNCHANGED << stop, rgba, sized, session, cb, global, local, quiet,
                    published >>

LoadData ==
    /\ At("load")
    /\ data' = rgba.addr
    /\ client' = IF rgba.addr = Null THEN "idle" ELSE "size"
    /\ UNCHANGED << camvars, session, cb, global, copy, quiet, ghosts >>

ReadSize ==
    /\ At("size")
    /\ client' = IF sized THEN "copy1" ELSE "idle"
    /\ UNCHANGED << camvars, session, cb, global, local, quiet, ghosts >>

CopyHalf(half, from, to) ==
    /\ At(from)
    /\ copy' = [copy EXCEPT ![half] = IF data = rgba.addr THEN rgba.half[half]
                                                          ELSE 0]
    /\ client' = to
    /\ UNCHANGED << camvars, session, cb, global, data, quiet, ghosts >>

CopyDone ==
    /\ At("copied")
    /\ client' = "idle"
    /\ UNCHANGED << camvars, session, cb, global, local, quiet, ghosts >>

(* al_camera_free: the session ends, the buffers go, then the delegate is  *)
(* disconnected and the struct freed.                                      *)
FreeBegin ==
    /\ At("idle")
    /\ StopsFirst => quiet
    /\ running' = FALSE
    /\ client' = "closing"
    /\ UNCHANGED << camvars, captured, pending, cb, global, local, quiet,
                    ghosts >>

ImagesFree ==
    /\ At("closing")
    /\ rgba' = NoBuffer
    /\ sized' = FALSE
    /\ client' = "closed"
    /\ UNCHANGED << stop, read, session, cb, global, local, quiet, ghosts >>

DelegateRelease ==
    /\ At("closed")
    /\ pending' = 0
    /\ client' = "freed"
    /\ UNCHANGED << camvars, running, captured, cb, global, local, quiet,
                    ghosts >>

Freed == At("freed") /\ UNCHANGED vars

-----------------------------------------------------------------------------
Block == BlockSkips \/ BlockTests \/ StartRunning

Callback ==
    \/ DidOutputStopped \/ DidOutput
    \/ ProcessFails \/ ImageAlloc \/ ConvertFails
    \/ RGBARelease \/ RGBAAlloc \/ RGBAAllocFails
    \/ CopyToRGBA(1, "rgba1", "rgba2") \/ CopyToRGBA(2, "rgba2", "publish")
    \/ Publish \/ Error4 \/ Error3

GetFrame ==
    \/ GetRGBA \/ ClearRead \/ LoadData \/ ReadSize
    \/ CopyHalf(1, "copy1", "copy2") \/ CopyHalf(2, "copy2", "copied")
    \/ CopyDone

InCall == StartEnd \/ StopRunning \/ Slept \/ ImagesFree \/ DelegateRelease

Client == StartDispatch \/ StopBegin \/ FreeBegin \/ InCall \/ GetFrame

Next == Capture \/ Block \/ Callback \/ Client \/ Freed

Spec == Init /\ [][Next]_vars

(* Blocks and callbacks that are due run, a call once begun goes on, and a *)
(* client with nothing else to do polls for a frame.                       *)
Fairness ==
    /\ WF_vars(Block) /\ WF_vars(Callback)
    /\ WF_vars(InCall) /\ WF_vars(GetFrame)

FairSpec == Spec /\ Fairness

-----------------------------------------------------------------------------
(* Properties                                                              *)

CallbackPCs == {"idle", "process", "convert", "realloc", "rgba1", "rgba2",
                "publish", "error4", "error3"}
ClientPCs == {"idle", "started", "stopping", "sleeping", "clear", "load",
              "size", "copy1", "copy2", "copied", "closing", "closed",
              "freed"}
Numbers == 0 .. MaxFrames

(* Every variable has its type.                                            *)
TypeOK ==
    /\ stop \in BOOLEAN /\ read \in BOOLEAN /\ sized \in BOOLEAN
    /\ running \in BOOLEAN /\ quiet \in BOOLEAN
    /\ rgba \in [addr : Addresses \cup {Null}, half : [Halves -> Numbers]]
    /\ {captured, pending, published, taken} \subseteq Numbers
    /\ cb \in [pc : CallbackPCs, frame : Numbers]
    /\ cb.frame = 0 <=> cb.pc = "idle"
    /\ starts \in 0 .. MaxStarts
    /\ blocks \in [queued : 0 .. MaxStarts, checked : 0 .. MaxStarts]
    /\ blocks.queued + blocks.checked <= starts
    /\ client \in ClientPCs
    /\ data \in Addresses \cup {Null}
    /\ copy \in [Halves -> Numbers]

(* For a client that stops a camera before it frees it, and when 200 ms    *)
(* suffice, no block of al_camera_start is left to look into the freed     *)
(* struct (darwin/camera.m:911-916, 901): the sleep of al_camera_stop is   *)
(* all that orders them.                                                   *)
BlockHasCamera ==
    DrainSuffices /\ StopsFirst /\ client = "freed" =>
        blocks.queued = 0 /\ blocks.checked = 0

(* On the same terms process_image is not at work on buffers that          *)
(* al_camera_free releases, even when a block started the session again    *)
(* after al_camera_stop had looked at it (darwin/camera.m:862-870).        *)
CallbackHasBuffers ==
    DrainSuffices /\ StopsFirst /\ client \in {"closing", "closed", "freed"} =>
        cb.pc = "idle"

(* On the same terms a client that copies while the camera is stopped gets *)
(* the frame announced last, whole, whatever failed in the frames after it *)
(* (darwin/camera.m:619, 627-630, 981-992).                                *)
StoppedCopy ==
    DrainSuffices /\ quiet /\ client = "copied" =>
        copy[1] = taken /\ copy[2] = taken

(* The pointer al_camera_get_rgba returned is the camera's buffer for as   *)
(* long as the client copies from it.                                      *)
CopyLive == client \in {"copy1", "copy2"} => data = rgba.addr

(* The flag, the announcements and their clearing are a mailbox, as on     *)
(* Android (darwin/camera.m:619, 986-990); the answer may be NULL all the  *)
(* same, when a failed frame left no buffer (627, 991).                    *)
Mailbox == INSTANCE FrameMailbox WITH latest <- published, fresh <- read

MailboxSpec == Mailbox!Spec

(* A camera that was started, and not stopped since, comes to run.         *)
StartRuns ==
    starts > 0 /\ client = "idle" /\ ~stop
        ~> running \/ stop \/ client \in {"closing", "closed", "freed"}

-----------------------------------------------------------------------------
(* The inductive invariant behind the safety properties.                   *)

(* A frame due is newer than the one being processed, and that one newer   *)
(* than what was announced.                                                *)
FrameInv ==
    /\ pending <= captured /\ cb.frame <= captured /\ published <= captured
    /\ pending # 0 => pending > cb.frame /\ pending > published
    /\ cb.frame # 0 => cb.frame > published

(* The client holds the flag between its test and its store.               *)
FlagInv == client = "clear" => read

(* A buffer the camera has is the frame announced last, but from the first *)
(* allocation of process_image to its announcement or to error4.           *)
BufferInv ==
    rgba.addr # Null =>
        /\ cb.pc \in {"idle", "process", "convert", "error3"} =>
               rgba.half[1] = published /\ rgba.half[2] = published
        /\ cb.pc \in {"rgba2", "publish"} => rgba.half[1] = cb.frame
        /\ cb.pc = "publish" => rgba.half[2] = cb.frame

(* A quiet camera is stopped, and the three threads have drained; a client *)
(* that stops first is quiet as it frees.                                  *)
QuietInv ==
    /\ client \in {"stopping", "sleeping"} => stop
    /\ client = "started" => ~quiet
    /\ quiet => stop
    /\ DrainSuffices /\ quiet =>
           cb.pc = "idle" /\ blocks.queued = 0 /\ blocks.checked = 0
    /\ StopsFirst /\ client \in {"closing", "closed", "freed"} => quiet

(* A quiet client has the buffer in hand, and copies what was announced.   *)
CopyInv ==
    DrainSuffices /\ quiet =>
        /\ client \in {"load", "size", "copy1", "copy2", "copied"} =>
               taken = published
        /\ client \in {"size", "copy1", "copy2"} =>
               data = rgba.addr /\ data # Null
        /\ client \in {"copy2", "copied"} => copy[1] = taken
        /\ client = "copied" => copy[2] = taken

CameraInv == FrameInv /\ FlagInv /\ BufferInv /\ QuietInv /\ CopyInv
=============================================================================
