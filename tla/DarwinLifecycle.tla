--------------------------- MODULE DarwinLifecycle ---------------------------
(***************************************************************************)
(* Ownership in al_camera_new and al_camera_free on iOS and macOS          *)
(* (darwin/camera.m), compiled without ARC: every object is a reference    *)
(* count the library adds to and takes from.  The fatal-signal handler of  *)
(* darwin/common.c stops the registered cameras between any two steps of   *)
(* the client thread, which makes none while the handler runs.             *)
(*                                                                         *)
(* DarwinCamera has the races of a running camera; here a frame and the    *)
(* block of al_camera_start are one step each, and a camera is not freed   *)
(* while its block is due.                                                 *)
(***************************************************************************)
EXTENDS Integers, Sequences, FiniteSets

CONSTANTS
    Cams,           \* addresses of struct al_camera
    Indices,        \* camera indices a client asks for
    N_CAMERAS,      \* the number of slots of the registry
    None,           \* the null pointer
    CanFail         \* the stages of al_camera_new that may fail

(* The tests of al_camera_new, in order; some of them obtain an object.    *)
Stages == << "controller", "device", "authorization", "session", "input",
             "canAddInput", "queue", "output", "canAddOutput",
             "output_delegate" >>

(* What the labels error9 down to error2 release, in order.                *)
ErrorOrder == << "output", "queue", "input", "session", "device",
                 "controller" >>

(* Slip: the test for nil of the input jumps to the label of canAddInput.  *)
ErrorLabelTooEarly == << 7, 6, 5, 5, 3, 3, 3, 2, 1, 1 >>

(* Slip: a refused output jumps past the label that releases it.           *)
ErrorLabelSkipsOutput == << 7, 6, 5, 5, 4, 3, 3, 2, 2, 1 >>

(* The position in ErrorOrder of the label a failure of stage k jumps to;  *)
(* 7 is error1, which releases nothing more than the struct.               *)
ErrorLabel == << 7, 6, 5, 5, 4, 3, 3, 2, 1, 1 >>

(* What al_camera_free releases, in order.                                 *)
FreeOrder == << "sample_buffer", "output_delegate", "output", "queue",
                "input", "session", "device", "controller" >>

(* The pointer fields of struct al_camera, of which "pixels" is            *)
(* image_buffers[RGBA].data, and the two arrays new_output releases        *)
(* although it was lent them.  cam->image and cam->rgba are not counted.   *)
Fields == {FreeOrder[j] : j \in DOMAIN FreeOrder} \cup {"pixels"}
Objects == Fields \cup {"available", "preferred"}

Slots == 0 .. N_CAMERAS - 1

ASSUME DarwinLifecycleAssumption ==
    /\ N_CAMERAS \in Nat
    /\ Indices # {} /\ Indices \subseteq Nat
    /\ None \notin Cams
    /\ CanFail \subseteq {Stages[k] : k \in DOMAIN Stages}

VARIABLES
    alloc,      \* the structs that are allocated
    index,      \* cam->index
    fields,     \* the pointer fields of each struct that are not NULL
    balance,    \* references the library took minus those it gave back
    stop,       \* cam->stop
    running,    \* whether the capture session runs
    block,      \* whether a block of al_camera_start is due
    cameras,    \* the registry _al_cameras
    call,       \* al_camera_new or al_camera_free in progress
    handler,    \* the fatal-signal handler
    settled,    \* ghost: every balance found when a struct was freed
    stale       \* ghost: slots whose al_camera_new failed after registering

camvars == << alloc, index, fields, balance >>
session == << stop, running, block >>
vars == << camvars, session, cameras, call, handler, settled, stale >>

Idle == [op |-> "idle", cam |-> None, pc |-> 0]
Step(op, c, pc) == [op |-> op, cam |-> c, pc |-> pc]
Zero == [o \in Objects |-> 0]

Init ==
    /\ alloc = {}
    /\ index \in [Cams -> {CHOOSE i \in Indices : TRUE}]
    /\ fields = [c \in Cams |-> {}]
    /\ balance = [c \in Cams |-> Zero]
    /\ stop = [c \in Cams |-> FALSE]
    /\ running = [c \in Cams |-> FALSE]
    /\ block = [c \in Cams |-> FALSE]
    /\ cameras = [i \in Slots |-> None]
    /\ call = Idle
    /\ handler = "none"
    /\ settled = {}
    /\ stale = {}

-----------------------------------------------------------------------------
(* al_camera_new, without a trace when calloc fails.  The client does not  *)
(* open an index it has open.                                              *)
NewBegin(c, i) ==
    /\ call = Idle
    /\ c \notin alloc
    /\ \A d \in alloc : index[d] # i
    /\ alloc' = alloc \cup {c}
    /\ index' = [index EXCEPT ![c] = i]
    /\ fields' = [fields EXCEPT ![c] = {}]
    /\ balance' = [balance EXCEPT ![c] = Zero]
    /\ stop' = [stop EXCEPT ![c] = FALSE]
    /\ running' = [running EXCEPT ![c] = FALSE]
    /\ cameras' = [j \in Slots |-> IF j = i THEN c ELSE cameras[j]]
    /\ stale' = stale \ {i}
    /\ call' = Step("new", c, 1)
    /\ UNCHANGED << block, handler, settled >>

(* The references a stage takes: devices[index] and deviceInputWithDevice  *)
(* lend theirs, the queue is created and retained.  new_output also gives  *)
(* back two arrays it was lent, only one of them when the output is nil.   *)
Took(stage) ==
    [o \in Objects |->
        CASE o = stage /\ o \in {"controller", "session", "output",
                                 "output_delegate"} -> 1
          [] o = stage /\ o = "queue" -> 2
          [] stage = "output" /\ o \in {"available", "preferred"} -> -1
          [] OTHER -> 0]

TookFailing(stage) ==
    IF stage = "output" THEN [Zero EXCEPT !["preferred"] = -1] ELSE Zero

Add(b, d) == [o \in Objects |-> b[o] + d[o]]

Acquire ==
    /\ call.op = "new"
    /\ LET c == call.cam
           k == call.pc
       IN  /\ fields' = [fields EXCEPT ![c] = @ \cup ({Stages[k]} \cap Fields)]
           /\ balance' = [balance EXCEPT ![c] = Add(@, Took(Stages[k]))]
           /\ call' = IF k = Len(Stages) THEN Idle
                                         ELSE Step("new", c, k + 1)
    /\ UNCHANGED << alloc, index, session, cameras, handler, settled, stale >>

AcquireFails ==
    /\ call.op = "new"
    /\ Stages[call.pc] \in CanFail
    /\ balance' = [balance EXCEPT ![call.cam] =
                       Add(@, TookFailing(Stages[call.pc]))]
    /\ call' = Step("error", call.cam, ErrorLabel[call.pc])
    /\ UNCHANGED << alloc, index, fields, session, cameras, handler, settled,
                    stale >>

-----------------------------------------------------------------------------
(* Giving back: a release and the store of nil are two steps.  A release   *)
(* of nil does nothing.                                                    *)

Order(op) ==
    IF op \in {"error", "error_nil"} THEN ErrorOrder ELSE FreeOrder

Release ==
    /\ call.op \in {"error", "free"}
    /\ call.pc <= Len(Order(call.op))
    /\ LET c == call.cam
           r == Order(call.op)[call.pc]
       IN  balance' = [balance EXCEPT ![c][r] =
                           IF r \in fields[c] THEN @ - 1 ELSE @]
    /\ call' = [call EXCEPT !.op = IF @ = "error" THEN "error_nil"
                                                  ELSE "free_nil"]
    /\ UNCHANGED << alloc, index, fields, session, cameras, handler, settled,
                    stale >>

StoreNil ==
    /\ call.op \in {"error_nil", "free_nil"}
    /\ fields' = [fields EXCEPT ![call.cam] = @ \ {Order(call.op)[call.pc]}]
    /\ call' = Step(IF call.op = "error_nil" THEN "error" ELSE "free",
                    call.cam, call.pc + 1)
    /\ UNCHANGED << alloc, index, balance, session, cameras, handler, settled,
                    stale >>

Settle(c) == settled' = settled \cup {<< o, balance[c][o] >> : o \in Objects}

(* error1 frees the struct; the slot keeps its address.                    *)
ErrorEnd ==
    /\ call.op = "error"
    /\ call.pc = Len(ErrorOrder) + 1
    /\ alloc' = alloc \ {call.cam}
    /\ Settle(call.cam)
    /\ stale' = stale \cup ({index[call.cam]} \cap Slots)
    /\ call' = Idle
    /\ UNCHANGED << index, fields, balance, session, cameras, handler >>

(* al_camera_free stops a session that runs.                               *)
FreeBegin(c) ==
    /\ call = Idle
    /\ c \in alloc /\ ~block[c]
    /\ running' = [running EXCEPT ![c] = FALSE]
    /\ call' = Step("free", c, 1)
    /\ UNCHANGED << camvars, stop, block, cameras, handler, settled, stale >>

(* Slip: the struct goes, its slot stays.                                  *)
ForgottenSlot(i) == cameras

ClearedSlot(i) == [j \in Slots |-> IF j = i THEN None ELSE cameras[j]]

FreeEnd ==
    /\ call.op = "free"
    /\ call.pc = Len(FreeOrder) + 1
    /\ alloc' = alloc \ {call.cam}
    /\ Settle(call.cam)
    /\ LET i == index[call.cam]
       IN  cameras' = ClearedSlot(i) /\ stale' = stale \ {i}
    /\ call' = Idle
    /\ UNCHANGED << index, fields, balance, session, handler >>

-----------------------------------------------------------------------------
(* Running: al_camera_start and its block, al_camera_stop, and a frame.    *)
Start(c) ==
    /\ call = Idle
    /\ c \in alloc
    /\ block' = [block EXCEPT ![c] = TRUE]
    /\ stop' = [stop EXCEPT ![c] = FALSE]
    /\ UNCHANGED << camvars, running, cameras, call, handler, settled, stale >>

Block(c) ==
    /\ handler = "none"
    /\ block[c]
    /\ block' = [block EXCEPT ![c] = FALSE]
    /\ running' = [running EXCEPT ![c] = @ \/ ~stop[c]]
    /\ UNCHANGED << camvars, stop, cameras, call, handler, settled, stale >>

Stop(c) ==
    /\ call = Idle
    /\ c \in alloc
    /\ stop' = [stop EXCEPT ![c] = TRUE]
    /\ running' = [running EXCEPT ![c] = FALSE]
    /\ UNCHANGED << camvars, block, cameras, call, handler, settled, stale >>

(* Slip: the sample of the frame before is not released.                   *)
NothingLast(c) == {}

(* What captureOutput releases before it retains the new sample.           *)
Last(c) == fields[c] \cap {"sample_buffer"}

(* A frame: its sample is kept in place of the last one, and pixels is the *)
(* memory of image_buffers[RGBA] once process_image is done with it.       *)
Deliver(c, pixels) ==
    /\ handler = "none"
    /\ running[c] /\ ~stop[c]
    /\ "output_delegate" \in fields[c]
    /\ fields' = [fields EXCEPT ![c] =
                      (@ \ {"pixels"}) \cup {"sample_buffer"} \cup pixels]
    /\ balance' = [balance EXCEPT
           ![c]["sample_buffer"] = @ + 1 - Cardinality(Last(c)),
           ![c]["pixels"] = @ + Cardinality(pixels)
                              - Cardinality(fields[c] \cap {"pixels"})]
    /\ UNCHANGED << alloc, index, session, cameras, call, handler, settled,
                    stale >>

(* A frame in RGBA, or one that process_image refuses earlier.             *)
Frame(c) == Deliver(c, fields[c] \cap {"pixels"})

(* _al_darwin_yuv_to_rgba initializes the buffer when there is none.       *)
FrameConverted(c) == Deliver(c, {"pixels"})

(* Every failure in it frees the buffer, and clears the pointer.           *)
FrameNotConverted(c) == Deliver(c, {})

-----------------------------------------------------------------------------
(* fatal_signal_handler: al_camera_cleanup stops what it finds in the      *)
(* slots, then the process dies.                                           *)
Registered == {cameras[i] : i \in Slots} \ {None}

(* The struct is there, and so is the session it names.                    *)
CanStop(c) ==
    /\ c \in alloc
    /\ "session" \in fields[c] => balance[c]["session"] > 0

Cleanup ==
    /\ handler = "none"
    /\ stop' = [c \in Cams |-> stop[c] \/ c \in Registered \cap alloc]
    /\ running' = [c \in Cams |-> running[c] /\ c \notin Registered]
    /\ handler' = "dead"
    /\ UNCHANGED << camvars, block, cameras, call, settled, stale >>

(* Undefined behaviour: the use of freed memory may also kill the process. *)
CleanupCrashes ==
    /\ handler = "none"
    /\ \E c \in Registered : ~CanStop(c)
    /\ handler' = "crashed"
    /\ UNCHANGED << camvars, session, cameras, call, settled, stale >>

Exited ==
    /\ handler # "none"
    /\ UNCHANGED vars

-----------------------------------------------------------------------------
Open == \/ \E c \in Cams, i \in Indices : NewBegin(c, i)
        \/ Acquire
        \/ AcquireFails

Close == \/ \E c \in Cams : FreeBegin(c)
         \/ Release
         \/ StoreNil
         \/ ErrorEnd
         \/ FreeEnd

Run == \E c \in Cams : Start(c) \/ Stop(c)

Client == handler = "none" /\ (Open \/ Close \/ Run)

Callbacks ==
    \E c \in Cams : \/ Block(c)
                   \/ Frame(c) \/ FrameConverted(c) \/ FrameNotConverted(c)

Next == Client \/ Callbacks \/ Cleanup \/ CleanupCrashes \/ Exited

Spec == Init /\ [][Next]_vars

-----------------------------------------------------------------------------
(* Properties                                                              *)

Ops == {"idle", "new", "error", "error_nil", "free", "free_nil"}

(* Every variable has its type; the balances stay within these bounds on   *)
(* every path (darwin/camera.m:705-902).                                   *)
TypeOK ==
    /\ alloc \subseteq Cams
    /\ index \in [Cams -> Indices]
    /\ fields \in [Cams -> SUBSET Fields]
    /\ balance \in [Cams -> [Objects -> -1 .. 2]]
    /\ stop \in [Cams -> BOOLEAN] /\ running \in [Cams -> BOOLEAN]
    /\ block \in [Cams -> BOOLEAN]
    /\ cameras \in [Slots -> Cams \cup {None}]
    /\ call \in [op : Ops, cam : Cams \cup {None}, pc : 0 .. Len(Stages)]
    /\ handler \in {"none", "dead", "crashed"}
    /\ settled \subseteq Objects \X (-1 .. 2)
    /\ stale \subseteq Slots

(* Whatever stage fails and however the camera ran, the references taken   *)
(* equal those given back by the time the struct is freed, but for: the    *)
(* device, the input and two arrays, lent and yet released                 *)
(* (darwin/camera.m:838, 845, 887, 894 and 345, 356), the queue, retained  *)
(* twice and released once (785-788, 832, 882), and the conversion buffer, *)
(* which al_camera_free forgets (857-902; darwin/yuv.c:62-75, 232-239).    *)
KnownImbalances == {"device", "input", "available", "preferred"} \X {-1}
                       \cup {"queue", "pixels"} \X {1}

Balanced == \A s \in settled : s[2] # 0 => s \in KnownImbalances

(* The labels of al_camera_new release what this call obtained: none of    *)
(* them meets a field that is still nil (darwin/camera.m:818-855).         *)
ReleaseObtained ==
    call.op = "error" /\ call.pc <= Len(ErrorOrder)
        => ErrorOrder[call.pc] \in fields[call.cam]

(* The handler itself faults only on a slot a failed al_camera_new left    *)
(* behind, or between the release of a session and the store of nil        *)
(* (darwin/camera.m:841-842, 850-852, 890-892).                            *)
CrashOnlyKnown ==
    handler = "crashed" =>
        \/ \E i \in stale : cameras[i] # None
        \/ /\ call.op \in {"error_nil", "free_nil"}
           /\ Order(call.op)[call.pc] = "session"

-----------------------------------------------------------------------------
(* The inductive invariant behind these properties.                        *)

(* The references the library has to an object a field names.              *)
Count(o) ==
    CASE o = "queue" -> 2
      [] o \in {"device", "input"} -> 0
      [] OTHER -> 1

(* The object was given back and its field not cleared yet.                *)
Released(c, o) ==
    /\ call.cam = c
    /\ call.op \in {"error_nil", "free_nil"}
    /\ Order(call.op)[call.pc] = o

(* The fields say what the library holds.  An object no field names was    *)
(* never obtained, or was released once.                                   *)
OwnInv ==
    \A c \in Cams :
        /\ \A o \in Fields :
               IF o \in fields[c]
               THEN balance[c][o] = Count(o) - IF Released(c, o) THEN 1 ELSE 0
               ELSE balance[c][o] \in {0, Count(o) - 1}
        /\ balance[c]["available"] \in {-1, 0}
        /\ balance[c]["preferred"] \in {-1, 0}

(* Where the call in progress may be.  Its camera does not capture, and no *)
(* block will start it, nor one that is not allocated.                     *)
CallInv ==
    /\ call.op = "idle" => call = Idle
    /\ call.op # "idle" => call.cam \in alloc
    /\ call.op = "new" => call.pc \in 1 .. Len(Stages)
    /\ call.op \in {"error", "free"} =>
           call.pc \in 1 .. Len(Order(call.op)) + 1
    /\ call.op \in {"error_nil", "free_nil"} =>
           call.pc \in 1 .. Len(Order(call.op))
    /\ \A c \in Cams :
           c \notin alloc \/ call.cam = c => ~running[c] /\ ~block[c]

(* The fields al_camera_new has set as it comes to stage k.                *)
Held(k) == {Stages[j] : j \in 1 .. k - 1} \cap Fields

(* It has taken nothing else yet.                                          *)
NewInv ==
    call.op = "new" =>
        /\ fields[call.cam] = Held(call.pc)
        /\ \A o \in Fields \ fields[call.cam] : balance[call.cam][o] = 0
        /\ call.pc <= 8 => /\ balance[call.cam]["available"] = 0
                          /\ balance[call.cam]["preferred"] = 0

(* What the labels from the p-th on release.                               *)
Remaining(p) == {ErrorOrder[j] : j \in p .. Len(ErrorOrder)}

(* The labels to come release what is left, and nothing else.              *)
ErrorInv ==
    call.op \in {"error", "error_nil"} =>
        fields[call.cam] = Remaining(call.pc)

(* al_camera_free leaves no field it has passed.                           *)
FreeInv ==
    call.op \in {"free", "free_nil"} =>
        \A j \in 1 .. call.pc - 1 : FreeOrder[j] \notin fields[call.cam]

(* A slot names an allocated camera of that index, or is stale.            *)
SlotInv ==
    \A i \in Slots : cameras[i] # None =>
        \/ cameras[i] \in alloc /\ index[cameras[i]] = i
        \/ i \in stale

LifecycleInv ==
    /\ OwnInv /\ CallInv /\ NewInv /\ ErrorInv /\ FreeInv
    /\ SlotInv /\ Balanced /\ CrashOnlyKnown
=============================================================================
