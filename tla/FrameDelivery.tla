---------------------------- MODULE FrameDelivery ----------------------------
(***************************************************************************)
(* How frames reach the client of one Android camera (android/camera.c):   *)
(* on_image_available and process_image on the image-reader thread, and    *)
(* al_camera_start, _stop, _get_rgba and _free on the client thread, with  *)
(* the client's copy of the returned buffer (Camera.rgba_bytes,            *)
(* python/libal/camera/__init__.py).  The two threads share cam->stop,     *)
(* cam->read and the frame buffers without a lock.                         *)
(*                                                                         *)
(* A frame is its number; a buffer is its two halves, so a reader and a    *)
(* writer that overlap can be told from ones that do not.                  *)
(***************************************************************************)
EXTENDS Integers, Sequences

CONSTANTS
    MaxFrames,      \* bound: the camera captures frames 1 .. MaxFrames
    QueueCap,       \* frames the reader queues before the camera must wait
    CanFail,        \* TRUE: a call to the platform may fail
    DrainSuffices,  \* TRUE: 200 ms is longer than any run of the callback
    MayStop         \* TRUE: the client may stop the camera and restart it

ASSUME DeliveryAssumption ==
    /\ MaxFrames \in Nat
    /\ QueueCap \in Nat \ {0}
    /\ {CanFail, DrainSuffices, MayStop} \subseteq BOOLEAN

VARIABLES
    stop,       \* cam->stop
    read,       \* cam->read
    rgba,       \* cam->rgba.data: the frame each half holds, 0 if none yet
    allocated,  \* whether the frame buffers are allocated
    repeating,  \* whether the session repeats the capture request
    exposing,   \* whether the camera is capturing a frame
    captured,   \* frames captured so far
    queue,      \* the reader's queue: frames not yet acquired
    events,     \* calls of on_image_available due
    cb,         \* the callback: where it is, the frame it acquired
    client,     \* the client thread: where it is in which call
    quiet,      \* ghost: al_camera_stop returned and no start came since
    copy,       \* the client's local copy, by halves
    last,       \* ghost: its copy before that
    published,  \* ghost: the newest frame announced by cam->read = true
    taken       \* ghost: the newest frame announced when read was cleared

camvars == << stop, read, rgba, allocated >>
ndkvars == << repeating, exposing, captured, queue, events >>
copies == << copy, last >>
ghosts == << published, taken >>
vars == << camvars, ndkvars, cb, client, quiet, copies, ghosts >>

Frames == 1 .. MaxFrames
Halves == 1 .. 2
Blank == [h \in Halves |-> 0]

Init ==
    /\ stop = FALSE /\ read = FALSE /\ rgba = Blank /\ allocated = FALSE
    /\ repeating = FALSE /\ exposing = FALSE /\ captured = 0
    /\ queue = << >> /\ events = 0
    /\ cb = [pc |-> "idle", frame |-> 0]
    /\ client = "idle"
    /\ quiet = FALSE
    /\ copy = Blank /\ last = Blank
    /\ published = 0 /\ taken = 0

-----------------------------------------------------------------------------
(* The camera and the reader's queue (NDK).  One call of the listener is   *)
(* due for each queued frame; a full queue holds the camera back.          *)
Expose ==
    /\ repeating
    /\ ~exposing
    /\ captured < MaxFrames
    /\ exposing' = TRUE
    /\ UNCHANGED << camvars, repeating, captured, queue, events, cb, client,
                    quiet, copies, ghosts >>

Arrive ==
    /\ exposing
    /\ Len(queue) < QueueCap
    /\ exposing' = FALSE
    /\ captured' = captured + 1
    /\ queue' = Append(queue, captured + 1)
    /\ events' = events + 1
    /\ UNCHANGED << camvars, repeating, cb, client, quiet, copies, ghosts >>

-----------------------------------------------------------------------------
(* The image-reader thread                                                 *)

Goto(pc) == cb' = [cb EXCEPT !.pc = pc]

(* on_image_available: when stopped it returns without acquiring, and the  *)
(* frame stays queued.                                                     *)
OnImageStopped ==
    /\ cb.pc = "idle" /\ events > 0
    /\ stop
    /\ events' = events - 1
    /\ UNCHANGED << camvars, repeating, exposing, captured, queue, cb, client,
                    quiet, copies, ghosts >>

(* Slip: the test of cam->stop is missing.                                 *)
OnImageUnchecked ==
    /\ cb.pc = "idle" /\ events > 0
    /\ events' = events - 1
    /\ Goto("acquire")
    /\ UNCHANGED << camvars, repeating, exposing, captured, queue, client,
                    quiet, copies, ghosts >>

OnImageAvailable ==
    /\ cb.pc = "idle" /\ events > 0
    /\ ~stop
    /\ events' = events - 1
    /\ Goto("acquire")
    /\ UNCHANGED << camvars, repeating, exposing, captured, queue, client,
                    quiet, copies, ghosts >>

(* Slip: the latest frame is acquired and the ones before it kept.         *)
AcquireLastImage ==
    /\ cb.pc = "acquire"
    /\ queue # << >>
    /\ cb' = [pc |-> "process", frame |-> queue[Len(queue)]]
    /\ queue' = SubSeq(queue, 1, Len(queue) - 1)
    /\ UNCHANGED << camvars, repeating, exposing, captured, events, client,
                    quiet, copies, ghosts >>

(* The reader has one image, so the next one is acquired, not the latest.  *)
AcquireNextImage ==
    /\ cb.pc = "acquire"
    /\ queue # << >>
    /\ cb' = [pc |-> "process", frame |-> Head(queue)]
    /\ queue' = Tail(queue)
    /\ UNCHANGED << camvars, repeating, exposing, captured, events, client,
                    quiet, copies, ghosts >>

(* Slip: the status is not tested, and the null image processed.           *)
AcquireUnchecked ==
    /\ cb.pc = "acquire"
    /\ CanFail \/ queue = << >>
    /\ Goto("process")
    /\ UNCHANGED << camvars, ndkvars, client, quiet, copies, ghosts >>

AcquireFails ==
    /\ cb.pc = "acquire"
    /\ CanFail \/ queue = << >>
    /\ Goto("idle")
    /\ UNCHANGED << camvars, ndkvars, client, quiet, copies, ghosts >>

(* process_image: a failing query of the image leaves everything alone.    *)
ProcessFails ==
    /\ cb.pc = "process"
    /\ CanFail
    /\ Goto("delete")
    /\ UNCHANGED << camvars, ndkvars, client, quiet, copies, ghosts >>

(* Slip: the frame is announced before it is converted.                    *)
ProcessAnnounces ==
    /\ cb.pc = "process"
    /\ allocated' = TRUE
    /\ read' = TRUE
    /\ published' = cb.frame
    /\ Goto("rgba1")
    /\ UNCHANGED << stop, rgba, ndkvars, client, quiet, copies, taken >>

(* The buffers are allocated by the first frame and kept by the next ones, *)
(* whose size is the same; the YUV copies come before the RGBA one.        *)
ProcessYUV ==
    /\ cb.pc = "process"
    /\ allocated' = TRUE
    /\ Goto("rgba1")
    /\ UNCHANGED << stop, read, rgba, ndkvars, client, quiet, copies, ghosts >>

YUVToRGBA(half, from, to) ==
    /\ cb.pc = from
    /\ rgba' = [rgba EXCEPT ![half] = cb.frame]
    /\ Goto(to)
    /\ UNCHANGED << stop, read, allocated, ndkvars, client, quiet, copies,
                    ghosts >>

(* Slip: the flag is never set.                                            *)
PublishNothing ==
    /\ cb.pc = "publish"
    /\ published' = cb.frame
    /\ Goto("delete")
    /\ UNCHANGED << camvars, ndkvars, client, quiet, copies, taken >>

Publish ==
    /\ cb.pc = "publish"
    /\ read' = TRUE
    /\ published' = cb.frame
    /\ Goto("delete")
    /\ UNCHANGED << stop, rgba, allocated, ndkvars, client, quiet, copies,
                    taken >>

ImageDelete ==
    /\ cb.pc = "delete"
    /\ cb' = [pc |-> "idle", frame |-> 0]
    /\ UNCHANGED << camvars, ndkvars, client, quiet, copies, ghosts >>

-----------------------------------------------------------------------------
(* The client thread                                                       *)

At(pc) == client = pc

(* al_camera_start; the failure of its request leaves all of this alone.   *)
SetRepeatingRequest ==
    /\ At("idle")
    /\ repeating' = TRUE
    /\ quiet' = FALSE
    /\ client' = "started"
    /\ UNCHANGED << camvars, exposing, captured, queue, events, cb, copies,
                    ghosts >>

StartEnd ==
    /\ At("started")
    /\ stop' = FALSE
    /\ client' = "idle"
    /\ UNCHANGED << read, rgba, allocated, ndkvars, cb, quiet, copies,
                    ghosts >>

(* al_camera_stop; stopRepeating lets the frame being captured arrive.     *)
StopBegin ==
    /\ At("idle") /\ MayStop
    /\ stop' = TRUE
    /\ client' = "stopping"
    /\ UNCHANGED << read, rgba, allocated, ndkvars, cb, quiet, copies,
                    ghosts >>

StopRepeating ==
    /\ At("stopping")
    /\ repeating' = FALSE
    /\ client' = "sleeping"
    /\ UNCHANGED << camvars, exposing, captured, queue, events, cb, quiet,
                    copies, ghosts >>

(* Slip: al_camera_stop does not wait.                                     *)
NotSlept ==
    /\ At("sleeping")
    /\ quiet' = TRUE
    /\ client' = "idle"
    /\ UNCHANGED << camvars, ndkvars, cb, copies, ghosts >>

Slept ==
    /\ At("sleeping")
    /\ DrainSuffices => cb.pc = "idle"
    /\ quiet' = TRUE
    /\ client' = "idle"
    /\ UNCHANGED << camvars, ndkvars, cb, copies, ghosts >>

(* al_camera_get_rgba: the test, the store and the copy of the buffer.     *)
GetRGBA ==
    /\ At("idle")
    /\ client' = IF read THEN "clear" ELSE "idle"
    /\ UNCHANGED << camvars, ndkvars, cb, quiet, copies, ghosts >>

(* Slip: the flag is not cleared.                                          *)
ClearNothing ==
    /\ At("clear")
    /\ taken' = published
    /\ client' = "copy1"
    /\ UNCHANGED << camvars, ndkvars, cb, quiet, copies, published >>

ClearRead ==
    /\ At("clear")
    /\ read' = FALSE
    /\ taken' = published
    /\ client' = "copy1"
    /\ UNCHANGED << stop, rgba, allocated, ndkvars, cb, quiet, copies,
                    published >>

CopyFirst ==
    /\ At("copy1")
    /\ last' = copy
    /\ copy' = [Blank EXCEPT ![1] = rgba[1]]
    /\ client' = "copy2"
    /\ UNCHANGED << camvars, ndkvars, cb, quiet, ghosts >>

CopySecond ==
    /\ At("copy2")
    /\ copy' = [copy EXCEPT ![2] = rgba[2]]
    /\ client' = "copied"
    /\ UNCHANGED << camvars, ndkvars, cb, quiet, last, ghosts >>

(* Slip: the flag is cleared after the copy, not before.                   *)
CopyDoneClears ==
    /\ At("copied")
    /\ read' = FALSE
    /\ client' = "idle"
    /\ UNCHANGED << stop, rgba, allocated, ndkvars, cb, quiet, copies,
                    ghosts >>

CopyDone ==
    /\ At("copied")
    /\ client' = "idle"
    /\ UNCHANGED << camvars, ndkvars, cb, quiet, copies, ghosts >>

(* Slip: the buffers go before the reader.                                 *)
FreeBeginImages ==
    /\ At("idle")
    /\ repeating' = FALSE
    /\ allocated' = FALSE
    /\ client' = "closing"
    /\ UNCHANGED << stop, read, rgba, exposing, captured, queue, events, cb,
                    quiet, copies, ghosts >>

(* al_camera_free: the requests end, AImageReader_delete waits for the     *)
(* callback that is running (NDK), then the buffers go.                    *)
FreeBegin ==
    /\ At("idle")
    /\ repeating' = FALSE
    /\ client' = "closing"
    /\ UNCHANGED << camvars, exposing, captured, queue, events, cb, quiet,
                    copies, ghosts >>

ReaderDelete ==
    /\ At("closing")
    /\ cb.pc = "idle"
    /\ exposing' = FALSE
    /\ queue' = << >>
    /\ events' = 0
    /\ client' = "deleted"
    /\ UNCHANGED << camvars, repeating, captured, cb, quiet, copies, ghosts >>

ImagesFree ==
    /\ At("deleted")
    /\ allocated' = FALSE
    /\ rgba' = Blank
    /\ client' = "freed"
    /\ UNCHANGED << stop, read, ndkvars, cb, quiet, copies, ghosts >>

Freed == At("freed") /\ UNCHANGED vars

-----------------------------------------------------------------------------
Camera == Expose \/ Arrive

Callback ==
    \/ OnImageStopped \/ OnImageAvailable
    \/ AcquireNextImage \/ AcquireFails
    \/ ProcessFails \/ ProcessYUV
    \/ YUVToRGBA(1, "rgba1", "rgba2")
    \/ YUVToRGBA(2, "rgba2", "publish")
    \/ Publish \/ ImageDelete

GetFrame == GetRGBA \/ ClearRead \/ CopyFirst \/ CopySecond \/ CopyDone

InCall == StartEnd \/ StopRepeating \/ Slept \/ ReaderDelete \/ ImagesFree

Client == SetRepeatingRequest \/ StopBegin \/ FreeBegin \/ InCall \/ GetFrame

Next == Camera \/ Callback \/ Client \/ Freed

Spec == Init /\ [][Next]_vars

(* The camera, the reader's thread and a call once begun make progress,    *)
(* and a client that can take a frame again and again comes to take it.    *)
Fairness ==
    /\ WF_vars(Camera)
    /\ WF_vars(Callback)
    /\ WF_vars(InCall)
    /\ SF_vars(GetFrame)

FairSpec == Spec /\ Fairness

-----------------------------------------------------------------------------
(* Properties                                                              *)

CallbackPCs == {"idle", "acquire", "process", "rgba1", "rgba2", "publish",
                "delete"}
ClientPCs == {"idle", "started", "stopping", "sleeping", "clear", "copy1",
              "copy2", "copied", "closing", "deleted", "freed"}
Numbers == 0 .. MaxFrames

(* Every variable has its type.                                            *)
TypeOK ==
    /\ stop \in BOOLEAN /\ read \in BOOLEAN /\ allocated \in BOOLEAN
    /\ repeating \in BOOLEAN /\ exposing \in BOOLEAN /\ quiet \in BOOLEAN
    /\ rgba \in [Halves -> Numbers]
    /\ copy \in [Halves -> Numbers] /\ last \in [Halves -> Numbers]
    /\ captured \in Numbers /\ published \in Numbers /\ taken \in Numbers
    /\ queue \in Seq(Frames) /\ Len(queue) <= QueueCap
    /\ events \in 0 .. QueueCap
    /\ cb \in [pc : CallbackPCs, frame : Numbers]
    /\ cb.frame = 0 <=> cb.pc \in {"idle", "acquire"}
    /\ client \in ClientPCs

(* What the client copies is a frame, and in neither half older than the   *)
(* newest one announced when al_camera_get_rgba cleared the flag: the test *)
(* and the store at android/camera.c:1304 and 1308 lose no announcement,   *)
(* and line 354 comes after the buffer is complete.                        *)
CopyNotOlder ==
    client = "copied" => taken > 0 /\ copy[1] >= taken /\ copy[2] >= taken

(* From one copy to the next no half goes back in time, through stops,     *)
(* restarts, failures and the frames left in the reader's queue.  Nothing  *)
(* more: a copy may be torn, or equal to the one before it (1308).         *)
CopyForward ==
    client = "copied" => copy[1] >= last[1] /\ copy[2] >= last[2]

(* Neither thread touches the frame buffers before they are allocated or   *)
(* after al_camera_free gave them back (android/camera.c:970-976).         *)
BuffersExist ==
    \/ cb.pc \in {"rgba1", "rgba2", "publish"}
    \/ client \in {"clear", "copy1", "copy2"}
    => allocated

(* When 200 ms outlasts a run of the callback, no frame is being processed *)
(* after al_camera_stop has returned (android/camera.c:374, 1206-1209).    *)
StoppedIsQuiet == DrainSuffices /\ quiet => cb.pc = "idle"

(* On the same terms a client that copies while the camera is stopped gets *)
(* the frame announced last, whole, even if the callback was at work on it *)
(* when al_camera_stop began, and whatever failed since.                   *)
StoppedCopy ==
    DrainSuffices /\ quiet /\ client = "copied" =>
        copy[1] = taken /\ copy[2] = taken

(* The flag, the announcements and their clearing are a mailbox: of the    *)
(* test, the store and the announcements between them none is lost or      *)
(* taken twice (android/camera.c:354, 1304-1308).  What the client then    *)
(* copies is the subject of CopyNotOlder and CopyForward.                  *)
Mailbox == INSTANCE FrameMailbox WITH latest <- published, fresh <- read

MailboxSpec == Mailbox!Spec

(* While the camera runs and can capture, the polling client gets a frame: *)
(* "Start reading frames." (python/libal/camera/__init__.py:180).          *)
FrameComes ==
    repeating /\ ~stop /\ captured < MaxFrames
        ~> client = "copied" \/ stop \/ ~repeating

(* A frame is queued of which the listener will not be called: it was      *)
(* called while cam->stop was set, or could not acquire.                   *)
Unnotified == Len(queue) > events + (IF cb.pc = "acquire" THEN 1 ELSE 0)

(* A query of the frame at hand failed, and it is deleted unannounced.     *)
Dropped == cb.pc = "delete" /\ cb.frame # published

(* That is all that comes between a running camera and its polling client, *)
(* over stops, restarts and failures: the one or the other frame lost in   *)
(* on_image_available (android/camera.c:371-405).                          *)
FrameComesUnlessLost ==
    repeating /\ ~stop /\ captured < MaxFrames
        ~> client = "copied" \/ stop \/ ~repeating \/ Unnotified \/ Dropped

(* No frame announced is missed: the polling client takes it or a newer    *)
(* one, unless it closes the camera.                                       *)
NewestTaken ==
    \A f \in Frames :
        published = f
            ~> taken >= f \/ client \in {"closing", "deleted", "freed"}

-----------------------------------------------------------------------------
(* The inductive invariant behind the safety properties.                   *)

Processing == {"process", "rgba1", "rgba2", "publish"}

(* Frames leave the queue in the order they were captured, each newer than *)
(* all that was acquired, and each due call of the listener has its frame. *)
QueueInv ==
    /\ exposing => captured < MaxFrames
    /\ \A j \in 1 .. Len(queue) :
           /\ queue[j] <= captured
           /\ queue[j] > published /\ queue[j] > cb.frame
           /\ queue[j] > rgba[1] /\ queue[j] > rgba[2]
           /\ \A k \in 1 .. Len(queue) : j < k => queue[j] < queue[k]
    /\ events + (IF cb.pc = "acquire" THEN 1 ELSE 0) <= Len(queue)

(* How much of the frame being processed is in the buffer.                 *)
CallbackInv ==
    /\ cb.pc \in Processing => cb.frame > published
    /\ cb.pc \in {"process", "rgba1", "rgba2"} => cb.frame > rgba[2]
    /\ cb.pc \in {"process", "rgba1"} => cb.frame > rgba[1]
    /\ cb.pc \in {"rgba2", "publish"} => cb.frame = rgba[1]
    /\ cb.pc = "publish" => cb.frame = rgba[2]
    /\ published <= captured /\ cb.frame <= captured
    /\ rgba[1] <= captured /\ rgba[2] <= captured
    /\ client # "freed" => published <= rgba[1] /\ published <= rgba[2]

(* The flag is the mailbox's, and the client holds it between its test and *)
(* its store.                                                              *)
ReadInv ==
    /\ read <=> published > taken
    /\ taken <= published
    /\ client = "clear" => read
    /\ client \in {"copy1", "copy2", "copied"} => taken > 0

(* The copies against the buffer they come from.                           *)
CopyInv ==
    /\ client # "freed" => copy[1] <= rgba[1] /\ copy[2] <= rgba[2]
    /\ client \in {"copy2", "copied"} => copy[1] >= taken /\ copy[1] >= last[1]
    /\ client = "copy2" => last[2] <= rgba[2]
    /\ client = "copied" => copy[2] >= taken /\ copy[2] >= last[2]

(* Who may use the buffers, and that closing silences the callback first.  *)
BufferInv ==
    /\ published > 0 /\ client # "freed" => allocated
    /\ cb.pc \in {"rgba1", "rgba2", "publish"} => allocated
    /\ client \in {"closing", "deleted", "freed"} => ~repeating
    /\ client \in {"deleted", "freed"} =>
           ~exposing /\ queue = << >> /\ events = 0 /\ cb.pc = "idle"

(* The callback may only run past its test when no stop is being waited    *)
(* for; only stated when 200 ms suffice.                                   *)
QuietInv ==
    /\ client \in {"stopping", "sleeping"} => stop
    /\ quiet /\ client # "started" => stop
    /\ client = "started" => ~quiet
    /\ DrainSuffices /\ quiet => cb.pc = "idle"

(* The buffer holds the frame announced last but for the two steps between *)
(* a new frame and its announcement, and a quiet client copies that one.   *)
StoppedInv ==
    /\ client # "freed" /\ cb.pc \notin {"rgba2", "publish"} =>
           rgba[1] = published /\ rgba[2] = published
    /\ DrainSuffices /\ quiet =>
           /\ client \in {"copy1", "copy2", "copied"} => taken = published
           /\ client \in {"copy2", "copied"} => copy[1] = taken
           /\ client = "copied" => copy[2] = taken

DeliveryInv ==
    /\ QueueInv /\ CallbackInv /\ ReadInv /\ CopyInv /\ BufferInv /\ QuietInv
    /\ StoppedInv
=============================================================================
