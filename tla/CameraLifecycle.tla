--------------------------- MODULE CameraLifecycle ---------------------------
(***************************************************************************)
(* Opening, running and closing Android cameras (android/camera.c), and    *)
(* the fatal-signal handler that stops the registered ones                 *)
(* (android/common.c).                                                     *)
(*                                                                         *)
(* One client thread calls the camera API.  Each call is a sequence of     *)
(* steps, because a fatal signal can come between any two of them.  Its    *)
(* handler runs al_camera_cleanup and the process dies: on the client      *)
(* thread, which is suspended where it is, or on another one, beside the   *)
(* client.  The image-reader thread allocates the frame buffers while a    *)
(* camera runs.                                                            *)
(*                                                                         *)
(* A member of Cams is an address calloc can return, so it is used again   *)
(* after free().                                                           *)
(***************************************************************************)
EXTENDS Integers, Sequences, FiniteSets

CONSTANTS
    Cams,           \* addresses of struct al_camera
    Indices,        \* camera indices a client asks for
    N_CAMERAS,      \* the number of slots of the registry
    None,           \* the null pointer
    CanFail,        \* the calls to the platform that may fail
    SharesIndex,    \* TRUE: the client may open an index it already has open
    SdkLevels,      \* possible values of _sdk
    Elsewhere       \* may the handler run beside the client: a set of Booleans

(* The calls of al_camera_new that acquire something, in order.            *)
Stages == << "availability_callbacks", "manager", "id", "state_callbacks",
             "device", "reader", "session_callbacks", "session", "request" >>

(* What the labels error10 down to error2 release, in order.               *)
ErrorOrder == << "session", "session_callbacks", "reader", "listener",
                 "window", "device", "state_callbacks", "id", "manager",
                 "availability_callbacks" >>

(* Slip: the buffers go while the reader can still call back.              *)
FreeOrderImagesFirst ==
    << "request", "capture_callbacks", "session", "session_callbacks",
       "images", "reader", "listener", "window", "device", "state_callbacks",
       "id", "manager", "availability_callbacks" >>

(* What al_camera_free releases, in order.                                 *)
FreeOrder == << "request", "capture_callbacks", "session",
                "session_callbacks", "reader", "images", "listener",
                "window", "device", "state_callbacks", "id", "manager",
                "availability_callbacks" >>

(* Slips: error8 comes after the release of the reader, or a failing       *)
(* new_reader jumps into its release.                                      *)
ErrorLabelSkipsReader == << 11, 10, 9, 8, 7, 6, 4, 2, 1 >>
ErrorLabelTooEarly == << 11, 10, 9, 8, 7, 5, 3, 2, 1 >>

(* The position in ErrorOrder of the label a failure of stage k jumps to;  *)
(* 11 is error1, which releases nothing more than the struct.              *)
ErrorLabel == << 11, 10, 9, 8, 7, 6, 3, 2, 1 >>

(* The pointer fields of struct al_camera; "images" stands for the data of *)
(* its four al_image members.                                              *)
Fields == {FreeOrder[j] : j \in DOMAIN FreeOrder}

(* Objects that al_camera_new creates and keeps no pointer to.             *)
Unnamed == {"output", "container", "target"}

Resources == Fields \cup Unnamed

(* The indices that have a slot.                                           *)
Slots == 0 .. N_CAMERAS - 1

NDKMinimum == 24

ASSUME ConstantsAssumption ==
    /\ N_CAMERAS \in Nat
    /\ Indices # {} /\ Indices \subseteq Nat
    /\ None \notin Cams
    /\ CanFail \subseteq {Stages[k] : k \in DOMAIN Stages} \cup
                       {"setRepeatingRequest"}
    /\ SharesIndex \in BOOLEAN
    /\ SdkLevels \subseteq Int
    /\ Elsewhere \subseteq BOOLEAN

VARIABLES
    sdk,        \* _sdk, set once by JNI_OnLoad
    alloc,      \* the structs that are allocated
    index,      \* cam->index
    fields,     \* the pointer fields of each struct that are not NULL
    live,       \* what was acquired for each struct and not given back
    stop,       \* cam->stop
    repeating,  \* the repeating capture request: "never" set, "on" or "off"
    cameras,    \* the registry _al_cameras
    call,       \* the API call in progress on the client thread
    handler,    \* the fatal-signal handler: its position, the slot it is at,
                \* the camera it loaded from it, whether the session it read
                \* there is open, its thread, and (ghost) the cameras whose
                \* request was set since the signal
    lost,       \* ghost: what was still live when its struct was freed
    stale       \* ghost: slots whose al_camera_new failed after registering

camvars == << alloc, index, fields, live, stop, repeating >>
vars == << sdk, camvars, cameras, call, handler, lost, stale >>

NoSignal == [st |-> "none", next |-> 0, cam |-> None, open |-> FALSE,
             elsewhere |-> FALSE, begun |-> {}]

Idle == [op |-> "idle", cam |-> None, pc |-> 0]
Step(op, c, pc) == [op |-> op, cam |-> c, pc |-> pc]

Init ==
    /\ sdk \in SdkLevels
    /\ alloc = {}
    /\ index \in [Cams -> {CHOOSE i \in Indices : TRUE}]
    /\ fields = [c \in Cams |-> {}]
    /\ live = [c \in Cams |-> {}]
    /\ stop = [c \in Cams |-> FALSE]
    /\ repeating = [c \in Cams |-> "never"]
    /\ cameras = [i \in Slots |-> None]
    /\ call = Idle
    /\ handler = NoSignal
    /\ lost = {}
    /\ stale = {}

-----------------------------------------------------------------------------
(* al_camera_new                                                           *)

(* With an SDK below 24, or when calloc fails, the call returns without a  *)
(* trace, which is no step here.                                           *)
NewBegin(c, i) ==
    /\ call = Idle
    /\ sdk >= NDKMinimum
    /\ c \notin alloc
    /\ SharesIndex \/ \A d \in alloc : index[d] # i
    /\ alloc' = alloc \cup {c}
    /\ index' = [index EXCEPT ![c] = i]
    /\ fields' = [fields EXCEPT ![c] = {}]
    /\ live' = [live EXCEPT ![c] = {}]
    /\ stop' = [stop EXCEPT ![c] = FALSE]
    /\ repeating' = [repeating EXCEPT ![c] = "never"]
    /\ cameras' = [j \in Slots |-> IF j = i THEN c ELSE cameras[j]]
    /\ stale' = stale \ {i}
    /\ call' = Step("new", c, 1)
    /\ UNCHANGED << sdk, handler, lost >>

(* What stage k stores in fields, and what it creates besides.             *)
Obtained(k) ==
    IF Stages[k] = "reader" THEN {"reader", "listener", "window"}
    ELSE {Stages[k]}

Besides(k) ==
    CASE Stages[k] = "session" -> {"output", "container"}
      [] Stages[k] = "request" -> {"target"}
      [] OTHER -> {}

(* What a failing stage k may leave behind: when setImageListener fails,   *)
(* new_reader frees cam->listener, still NULL, and not its local pointer.  *)
Residues(k) ==
    IF Stages[k] = "reader" THEN {{}, {"listener"}} ELSE {{}}

Acquire ==
    /\ call.op = "new"
    /\ LET c == call.cam
           k == call.pc
       IN  /\ fields' = [fields EXCEPT ![c] = @ \cup Obtained(k)]
           /\ live' = [live EXCEPT ![c] = @ \cup Obtained(k) \cup Besides(k)]
           /\ call' = IF k = Len(Stages) THEN Idle
                                         ELSE Step("new", c, k + 1)
    /\ UNCHANGED << sdk, alloc, index, stop, repeating, cameras, handler,
                    lost, stale >>

AcquireFails ==
    /\ call.op = "new"
    /\ Stages[call.pc] \in CanFail
    /\ \E residue \in Residues(call.pc) :
           live' = [live EXCEPT ![call.cam] = @ \cup residue]
    /\ call' = Step("error", call.cam, ErrorLabel[call.pc])
    /\ UNCHANGED << sdk, alloc, index, fields, stop, repeating, cameras,
                    handler, lost, stale >>

-----------------------------------------------------------------------------
(* Giving back: a release and the store of NULL are two steps.             *)

(* The repeating request of c after stopRepeating, abortCaptures or close. *)
Halted(c) ==
    IF repeating[c] = "on" THEN [repeating EXCEPT ![c] = "off"] ELSE repeating

Order(op) ==
    IF op \in {"error", "error_null"} THEN ErrorOrder ELSE FreeOrder

(* The handler when c gives back r, perhaps the session the handler read.  *)
Seen(c, r) ==
    IF handler.st = "halt" /\ handler.cam = c /\ r = "session"
    THEN [handler EXCEPT !.open = FALSE] ELSE handler

(* The error path releases without looking at the field; al_camera_free    *)
(* looks first.                                                            *)
Release ==
    /\ call.op \in {"error", "free"}
    /\ call.pc <= Len(Order(call.op))
    /\ LET c == call.cam
           r == Order(call.op)[call.pc]
           present == call.op = "error" \/ r \in fields[c]
       IN  /\ live' = [live EXCEPT ![c] = IF present THEN @ \ {r} ELSE @]
           /\ repeating' = IF present /\ r = "session" THEN Halted(c)
                                                  ELSE repeating
           /\ handler' = IF present THEN Seen(c, r) ELSE handler
    /\ call' = [call EXCEPT !.op = IF @ = "error" THEN "error_null"
                                                  ELSE "free_null"]
    /\ UNCHANGED << sdk, alloc, index, fields, stop, cameras, lost, stale >>

StoreNull ==
    /\ call.op \in {"error_null", "free_null"}
    /\ fields' = [fields EXCEPT ![call.cam] = @ \ {Order(call.op)[call.pc]}]
    /\ call' = Step(IF call.op = "error_null" THEN "error" ELSE "free",
                    call.cam, call.pc + 1)
    /\ UNCHANGED << sdk, alloc, index, live, stop, repeating, cameras,
                    handler, lost, stale >>

(* error1 frees the struct; the slot keeps its address.                    *)
ErrorEnd ==
    /\ call.op = "error"
    /\ call.pc = Len(ErrorOrder) + 1
    /\ alloc' = alloc \ {call.cam}
    /\ lost' = lost \cup live[call.cam]
    /\ stale' = stale \cup ({index[call.cam]} \cap Slots)
    /\ call' = Idle
    /\ UNCHANGED << sdk, index, fields, live, stop, repeating, cameras,
                    handler >>

(* al_camera_free                                                          *)
FreeBegin(c) ==
    /\ call = Idle
    /\ c \in alloc
    /\ repeating' = IF "session" \in fields[c] THEN Halted(c) ELSE repeating
    /\ call' = Step("free", c, 1)
    /\ UNCHANGED << sdk, alloc, index, fields, live, stop, cameras, handler,
                    lost, stale >>

(* Slips: the bound of the registry is not tested, or the slot is kept.    *)
ClearedUnchecked(i) ==
    [j \in Slots \cup {i} |-> IF j = i THEN None ELSE cameras[j]]

ClearedNot(i) == cameras

(* The registry after `if (cam->index < N_CAMERAS)` its slot is NULL.      *)
Cleared(i) == [j \in Slots |-> IF j = i THEN None ELSE cameras[j]]

FreeSlot ==
    /\ call.op = "free"
    /\ call.pc = Len(FreeOrder) + 1
    /\ LET i == index[call.cam]
       IN  /\ cameras' = Cleared(i)
           /\ stale' = stale \ {i}
    /\ call' = [call EXCEPT !.pc = @ + 1]
    /\ UNCHANGED << sdk, camvars, handler, lost >>

FreeEnd ==
    /\ call.op = "free"
    /\ call.pc = Len(FreeOrder) + 2
    /\ alloc' = alloc \ {call.cam}
    /\ lost' = lost \cup live[call.cam]
    /\ call' = Idle
    /\ UNCHANGED << sdk, index, fields, live, stop, repeating, cameras,
                    handler, stale >>

-----------------------------------------------------------------------------
(* al_camera_start; a calloc failure for the capture callbacks returns     *)
(* without a trace, which is no step here.                                 *)
StartBegin(c) ==
    /\ call = Idle
    /\ c \in alloc
    /\ fields' = [fields EXCEPT ![c] = @ \cup {"capture_callbacks"}]
    /\ live' = [live EXCEPT ![c] = @ \cup {"capture_callbacks"}]
    /\ call' = Step("start", c, 1)
    /\ UNCHANGED << sdk, alloc, index, stop, repeating, cameras, handler,
                    lost, stale >>

SetRepeatingRequest ==
    /\ call.op = "start"
    /\ call.pc = 1
    /\ {"session", "request"} \subseteq fields[call.cam]
    /\ repeating' = [repeating EXCEPT ![call.cam] = "on"]
    /\ handler' = IF handler.st = "none" THEN handler
                  ELSE [handler EXCEPT !.begun = @ \cup {call.cam}]
    /\ call' = [call EXCEPT !.pc = 2]
    /\ UNCHANGED << sdk, alloc, index, fields, live, stop, cameras, lost,
                    stale >>

(* Slip: the freed callbacks are not replaced by NULL.                     *)
WithoutDangling(fs) == fs

Without(fs) == fs \ {"capture_callbacks"}

(* error1 and error2: the callbacks go, a request set earlier stays.       *)
StartFails ==
    /\ call.op = "start"
    /\ call.pc = 1
    /\ \/ ~({"session", "request"} \subseteq fields[call.cam])
       \/ "setRepeatingRequest" \in CanFail
    /\ fields' = [fields EXCEPT ![call.cam] = Without(@)]
    /\ live' = [live EXCEPT ![call.cam] = @ \ {"capture_callbacks"}]
    /\ call' = Idle
    /\ UNCHANGED << sdk, alloc, index, stop, repeating, cameras, handler,
                    lost, stale >>

StartEnd ==
    /\ call.op = "start"
    /\ call.pc = 2
    /\ stop' = [stop EXCEPT ![call.cam] = FALSE]
    /\ call' = Idle
    /\ UNCHANGED << sdk, alloc, index, fields, live, repeating, cameras,
                    handler, lost, stale >>

(* al_camera_stop                                                          *)
StopBegin(c) ==
    /\ call = Idle
    /\ c \in alloc
    /\ stop' = [stop EXCEPT ![c] = TRUE]
    /\ call' = Step("stop", c, 1)
    /\ UNCHANGED << sdk, alloc, index, fields, live, repeating, cameras,
                    handler, lost, stale >>

StopRepeating ==
    /\ call.op = "stop"
    /\ repeating' = IF "session" \in fields[call.cam] THEN Halted(call.cam)
                                                      ELSE repeating
    /\ call' = Idle
    /\ UNCHANGED << sdk, alloc, index, fields, live, stop, cameras, handler,
                    lost, stale >>

-----------------------------------------------------------------------------
(* The image-reader thread: on_image_available allocates the buffers.  A   *)
(* frame already queued is delivered after the request has been halted,    *)
(* until the reader is deleted.                                            *)
OnImageAvailable(c) ==
    /\ handler.st \notin {"dead", "crashed"}
    /\ {"reader", "listener"} \subseteq live[c]
    /\ repeating[c] # "never"
    /\ ~stop[c]
    /\ fields' = [fields EXCEPT ![c] = @ \cup {"images"}]
    /\ live' = [live EXCEPT ![c] = @ \cup {"images"}]
    /\ UNCHANGED << sdk, alloc, index, stop, repeating, cameras, call,
                    handler, lost, stale >>

-----------------------------------------------------------------------------
(* Slip: al_camera_cleanup begins one slot late.                           *)
FirstSlotLate == 1

FirstSlot == 0

(* fatal_signal_handler: al_camera_cleanup, then the default action.       *)
Signal ==
    /\ handler.st = "none"
    /\ \E elsewhere \in Elsewhere :
           handler' = [NoSignal EXCEPT !.st = "cleanup", !.next = FirstSlot,
                                       !.elsewhere = elsewhere]
    /\ UNCHANGED << sdk, camvars, cameras, call, lost, stale >>

(* The loop goes on to the next slot.                                      *)
Passed == [handler EXCEPT !.st = "cleanup", !.next = @ + 1, !.cam = None,
                          !.open = FALSE]

(* It loads a slot; a camera found there is stopped, in two steps.         *)
CleanupSlot ==
    /\ handler.st = "cleanup"
    /\ handler.next \in Slots
    /\ handler' = IF cameras[handler.next] = None THEN Passed
                  ELSE [handler EXCEPT !.st = "stop",
                                       !.cam = cameras[handler.next]]
    /\ UNCHANGED << sdk, camvars, cameras, call, lost, stale >>

(* al_camera_stop sets cam->stop and reads cam->session.  A struct that    *)
(* was freed may read as one without a session.                            *)
CleanupStop ==
    /\ handler.st = "stop"
    /\ LET c == handler.cam
       IN  /\ stop' = IF c \in alloc THEN [stop EXCEPT ![c] = TRUE] ELSE stop
           /\ handler' = IF c \in alloc /\ "session" \in fields[c]
                         THEN [handler EXCEPT !.st = "halt",
                                              !.open = "session" \in live[c]]
                         ELSE Passed
    /\ UNCHANGED << sdk, alloc, index, fields, live, repeating, cameras,
                    call, lost, stale >>

CleanupHalt ==
    /\ handler.st = "halt"
    /\ repeating' = IF handler.open THEN Halted(handler.cam) ELSE repeating
    /\ handler' = Passed
    /\ UNCHANGED << sdk, alloc, index, fields, live, stop, cameras, call,
                    lost, stale >>

(* Undefined behaviour: the use of freed memory or of a closed session may *)
(* also kill the process there.                                            *)
CleanupCrashes ==
    /\ \/ handler.st = "stop" /\ handler.cam \notin alloc
       \/ handler.st = "halt" /\ ~handler.open
    /\ handler' = [handler EXCEPT !.st = "crashed"]
    /\ UNCHANGED << sdk, camvars, cameras, call, lost, stale >>

CleanupEnd ==
    /\ handler.st = "cleanup"
    /\ handler.next \notin Slots
    /\ handler' = [handler EXCEPT !.st = "dead"]
    /\ UNCHANGED << sdk, camvars, cameras, call, lost, stale >>

(* The process is gone.                                                    *)
Exited ==
    /\ handler.st \in {"dead", "crashed"}
    /\ UNCHANGED vars

-----------------------------------------------------------------------------
New == \/ \E c \in Cams, i \in Indices : NewBegin(c, i)
       \/ Acquire
       \/ AcquireFails

GiveBack == \/ \E c \in Cams : FreeBegin(c)
            \/ Release
            \/ StoreNull
            \/ ErrorEnd
            \/ FreeSlot
            \/ FreeEnd

StartStop == \/ \E c \in Cams : StartBegin(c) \/ StopBegin(c)
             \/ SetRepeatingRequest
             \/ StartFails
             \/ StartEnd
             \/ StopRepeating

(* A handler on the client thread suspends the client.                     *)
Client ==
    /\ \/ handler.st = "none"
       \/ handler.elsewhere /\ handler.st \notin {"dead", "crashed"}
    /\ New \/ GiveBack \/ StartStop

Handler == \/ Signal
           \/ CleanupSlot
           \/ CleanupStop
           \/ CleanupHalt
           \/ CleanupCrashes
           \/ CleanupEnd

Next ==
    \/ Client
    \/ Handler
    \/ \E c \in Cams : OnImageAvailable(c)
    \/ Exited

Spec == Init /\ [][Next]_vars

-----------------------------------------------------------------------------
(* Properties                                                              *)

Ops == {"idle", "new", "error", "error_null", "free", "free_null", "start",
        "stop"}

(* Every variable has its type.                                            *)
TypeOK ==
    /\ sdk \in SdkLevels
    /\ alloc \subseteq Cams
    /\ index \in [Cams -> Indices]
    /\ fields \in [Cams -> SUBSET Fields]
    /\ live \in [Cams -> SUBSET Resources]
    /\ stop \in [Cams -> BOOLEAN]
    /\ repeating \in [Cams -> {"never", "on", "off"}]
    /\ cameras \in [Slots -> Cams \cup {None}]
    /\ call \in [op : Ops, cam : Cams \cup {None},
                 pc : 0 .. Len(FreeOrder) + 2]
    /\ handler \in [st : {"none", "cleanup", "stop", "halt", "dead",
                          "crashed"},
                    next : 0 .. N_CAMERAS, cam : Cams \cup {None},
                    open : BOOLEAN, elsewhere : BOOLEAN, begun : SUBSET Cams]
    /\ handler.st \in {"stop", "halt"} =>
           handler.next \in Slots /\ handler.cam \in Cams
    /\ lost \subseteq Resources
    /\ stale \subseteq Slots

(* What a camera that al_camera_new returned always owns.                  *)
Complete == UNION {Obtained(k) : k \in DOMAIN Stages}

(* al_camera_new is all or nothing (android/camera.c:789-951): between two *)
(* calls every allocated camera owns each of its resources, still live, so *)
(* no failure path returns a partly built camera and no call on one camera *)
(* takes a resource of another.                                            *)
AllOrNothing ==
    call = Idle => \A c \in alloc : /\ Complete \subseteq fields[c]
                                   /\ fields[c] \subseteq live[c]

(* Whatever stage fails and whenever the camera is freed, all that its     *)
(* struct pointed to has been given back by then; only the listener of a   *)
(* failed setImageListener and the session objects nothing points to are   *)
(* lost (android/camera.c:560-568, 649, 693).                              *)
KnownLeaks == {"listener"} \cup Unnamed

OnlyKnownLeaks == lost \subseteq KnownLeaks

(* The labels of al_camera_new release, without testing the pointer, only  *)
(* what this call acquired and has not released yet.                       *)
ReleaseOwned ==
    call.op = "error" /\ call.pc <= Len(ErrorOrder)
        => ErrorOrder[call.pc] \in live[call.cam]

(* << user, used >>: the first needs the second as long as it exists.      *)
Depends == { << "session", "device" >>, << "session", "reader" >>,
             << "session", "window" >>, << "session", "session_callbacks" >>,
             << "request", "device" >>, << "reader", "images" >>,
             << "device", "manager" >>, << "device", "state_callbacks" >>,
             << "manager", "availability_callbacks" >> }

(* No step of any path, the error labels or al_camera_free, gives back an  *)
(* object while one built on it exists, nor the frame buffers while the    *)
(* reader can still call back (android/camera.c:913-950, 958-998).         *)
ReleaseOrder ==
    [][\A c \in Cams : \A d \in Depends :
           d[2] \in live[c] \ live'[c] => d[1] \notin live'[c]]_vars

(* A slot that is not NULL names an allocated camera opened for that       *)
(* index, unless an al_camera_new for it failed after registering: error1  *)
(* leaves the slot (android/camera.c:811, 946-948, 999-1000).              *)
RegistryLive ==
    \A i \in Slots \ stale :
        cameras[i] # None => cameras[i] \in alloc /\ index[cameras[i]] = i

(* When the handler hands the signal on, no camera that has a slot is left *)
(* capturing but those started since the signal, beside the handler: none  *)
(* if it suspended the client.  For a client that does not open an index   *)
(* twice (android/common.c:156-163, android/camera.c:1368-1376).           *)
CleanupComplete ==
    handler.st = "dead" /\ ~SharesIndex
        => \A c \in alloc : index[c] \in Slots /\ repeating[c] = "on"
                              => c \in handler.begun

(* The handler itself faults only on a slot a failed al_camera_new left    *)
(* behind, or when the signal came between the close of a session and the  *)
(* store of NULL (android/camera.c:915-916, 966-967); on a thread of its   *)
(* own also when the client gives back, after the load of the slot, the    *)
(* camera or the session.                                                  *)
CrashOnlyKnown ==
    handler.st = "crashed" =>
        \/ handler.next \in stale
        \/ /\ call.op \in {"error_null", "free_null"}
           /\ Order(call.op)[call.pc] = "session"
           /\ call.cam = handler.cam
        \/ /\ handler.elsewhere
           /\ handler.cam \notin alloc \/ ~handler.open

-----------------------------------------------------------------------------
(* The inductive invariant behind the safety properties.                   *)

(* What al_camera_new has before stage k, what the labels still have to    *)
(* release from position p on, and what al_camera_free has released before *)
(* it reaches position p.                                                  *)
Held(k) == UNION {Obtained(j) : j \in 1 .. k - 1}
Remaining(p) == {ErrorOrder[j] : j \in p .. Len(ErrorOrder)}
Released(p) == {FreeOrder[j] : j \in {i \in DOMAIN FreeOrder : i < p}}

(* No call that builds or frees a camera is at work on c.                  *)
Settled(c) ==
    call.cam = c => call.op \notin {"new", "error", "error_null", "free",
                                   "free_null"}

(* A camera that is settled, whole, and points to what is live.            *)
SettledInv ==
    \A c \in alloc :
        Settled(c) => /\ Complete \subseteq fields[c]
                      /\ fields[c] \subseteq live[c]
                      /\ live[c] \subseteq fields[c] \cup Unnamed

FreedInv == \A c \in Cams \ alloc : live[c] \subseteq KnownLeaks

(* How far al_camera_new, its labels and al_camera_free are.               *)
NewInv ==
    call.op = "new" =>
        /\ call.pc \in 1 .. Len(Stages)
        /\ fields[call.cam] = Held(call.pc)
        /\ fields[call.cam] \subseteq live[call.cam]
        /\ live[call.cam] \subseteq fields[call.cam] \cup Unnamed

ErrorInv ==
    call.op \in {"error", "error_null"} =>
        /\ call.pc \in 1 .. Len(ErrorOrder) + 1
        /\ fields[call.cam] = Remaining(call.pc)
        /\ live[call.cam] \subseteq fields[call.cam] \cup KnownLeaks
        /\ call.op = "error" => fields[call.cam] \subseteq live[call.cam]
        /\ call.op = "error_null" =>
               /\ call.pc <= Len(ErrorOrder)
               /\ ErrorOrder[call.pc] \notin live[call.cam]
               /\ fields[call.cam] \ {ErrorOrder[call.pc]}
                     \subseteq live[call.cam]

FreeInv ==
    call.op \in {"free", "free_null"} =>
        /\ call.pc \in 1 .. Len(FreeOrder) + 2
        /\ fields[call.cam] \cap Released(call.pc) = {}
        /\ live[call.cam] \subseteq fields[call.cam] \cup Unnamed
        /\ call.op = "free" => fields[call.cam] \subseteq live[call.cam]
        /\ call.op = "free_null" =>
               /\ call.pc <= Len(FreeOrder)
               /\ FreeOrder[call.pc] \notin live[call.cam]
               /\ fields[call.cam] \ {FreeOrder[call.pc]}
                     \subseteq live[call.cam]

(* The struct of the call in progress is allocated, and no request repeats *)
(* on a camera that is not built.                                          *)
CallInv ==
    /\ call.op = "idle" <=> call = Idle
    /\ call.op # "idle" => call.cam \in alloc
    /\ call.op \in {"new", "error", "error_null"}
           => repeating[call.cam] = "never"

(* A slot names its camera; the one being freed has left its slot by then. *)
SlotInv ==
    /\ RegistryLive
    /\ call.op = "free" /\ call.pc = Len(FreeOrder) + 2 =>
           \A i \in Slots \ stale : cameras[i] # call.cam

LifecycleInv ==
    /\ SettledInv /\ FreedInv /\ NewInv /\ ErrorInv /\ FreeInv /\ CallInv
    /\ SlotInv /\ OnlyKnownLeaks
=============================================================================
