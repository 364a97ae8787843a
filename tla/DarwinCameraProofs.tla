------------------------- MODULE DarwinCameraProofs -------------------------
(***************************************************************************)
(* Proofs about DarwinCamera, for every number of frames and starts, every *)
(* set of addresses and every choice of the other constants.  Inv is       *)
(* inductive; the properties and the refinement of the mailbox follow.     *)
(***************************************************************************)
EXTENDS DarwinCamera, TLAPS

Inv == TypeOK /\ CameraInv

(* No buffer, no frame and no thread at work.                              *)
LEMMA InitInv == Init => Inv
<1>. SUFFICES ASSUME Init PROVE Inv
  OBVIOUS
<1>1. TypeOK
  <2>1. Blank \in [Halves -> Numbers]
    BY DarwinAssumption DEF Blank, Halves, Numbers
  <2>2. rgba \in [addr : Addresses \cup {Null}, half : [Halves -> Numbers]]
    BY <2>1 DEF Init, NoBuffer
  <2>3. cb \in [pc : CallbackPCs, frame : Numbers]
    BY DarwinAssumption DEF Init, Numbers, CallbackPCs
  <2>4. {captured, pending, published, taken} \subseteq Numbers
    BY DarwinAssumption DEF Init, Numbers
  <2>5. /\ starts \in 0 .. MaxStarts
        /\ blocks \in [queued : 0 .. MaxStarts, checked : 0 .. MaxStarts]
        /\ blocks.queued + blocks.checked <= starts
    BY DarwinAssumption DEF Init
  <2>. QED
    BY <2>1, <2>2, <2>3, <2>4, <2>5 DEF Init, TypeOK, ClientPCs
<1>2. CameraInv
  BY DEF Init, CameraInv, FrameInv, FlagInv, BufferInv, QuietInv, CopyInv,
         NoBuffer
<1>. QED
  BY <1>1, <1>2 DEF Inv

(* Every step of the three threads preserves it.                           *)
LEMMA NextInv == Inv /\ [Next]_vars => Inv'
<1>. SUFFICES ASSUME Inv, [Next]_vars PROVE Inv'
  OBVIOUS
<1>. USE DarwinAssumption
     DEF Inv, TypeOK, CameraInv, FrameInv, FlagInv, BufferInv, QuietInv,
         CopyInv, NoBuffer, Blank, Halves, Numbers, CallbackPCs, ClientPCs,
         camvars, session, global, local, ghosts, Goto, Return, At
<1>1. CASE Capture
  BY <1>1 DEF Capture
<1>2. CASE BlockSkips
  BY <1>2 DEF BlockSkips
<1>3. CASE BlockTests
  BY <1>3 DEF BlockTests
<1>4. CASE StartRunning
  BY <1>4 DEF StartRunning
<1>5. CASE DidOutputStopped
  BY <1>5 DEF DidOutputStopped
<1>6. CASE DidOutput
  BY <1>6 DEF DidOutput, Accepts
<1>7. CASE ProcessFails
  <2>1. TypeOK'
    <3>1. sized' \in BOOLEAN /\ cb'.frame = 0 /\ cb'.pc = "idle"
      BY <1>7 DEF ProcessFails
    <3>2. cb' \in [pc : CallbackPCs, frame : Numbers]
      BY <1>7 DEF ProcessFails
    <3>. QED
      BY <1>7, <3>1, <3>2 DEF ProcessFails
  <2>2. FrameInv'
    BY <1>7 DEF ProcessFails
  <2>3. FlagInv'
    BY <1>7 DEF ProcessFails
  <2>4. BufferInv'
    BY <1>7 DEF ProcessFails
  <2>5. QuietInv'
    BY <1>7 DEF ProcessFails
  <2>6. CopyInv'
    BY <1>7 DEF ProcessFails
  <2>. QED
    BY <2>1, <2>2, <2>3, <2>4, <2>5, <2>6
<1>8. CASE ImageAlloc
  BY <1>8 DEF ImageAlloc
<1>9. CASE ConvertFails
  BY <1>9 DEF ConvertFails
<1>10. CASE RGBARelease
  BY <1>10 DEF RGBARelease
<1>11. CASE RGBAAlloc
  BY <1>11 DEF RGBAAlloc
<1>12. CASE RGBAAllocFails
  BY <1>12 DEF RGBAAllocFails
<1>13. CASE CopyToRGBA(1, "rgba1", "rgba2")
  BY <1>13 DEF CopyToRGBA
<1>14. CASE CopyToRGBA(2, "rgba2", "publish")
  BY <1>14 DEF CopyToRGBA
<1>15. CASE Publish
  BY <1>15 DEF Publish
<1>16. CASE Error4
  BY <1>16 DEF Error4
<1>17. CASE Error3
  <2>1. TypeOK'
    <3>1. sized' \in BOOLEAN /\ cb'.frame = 0 /\ cb'.pc = "idle"
      BY <1>17 DEF Error3
    <3>2. cb' \in [pc : CallbackPCs, frame : Numbers]
      BY <1>17 DEF Error3
    <3>. QED
      BY <1>17, <3>1, <3>2 DEF Error3
  <2>2. FrameInv'
    BY <1>17 DEF Error3
  <2>3. FlagInv'
    BY <1>17 DEF Error3
  <2>4. BufferInv'
    BY <1>17 DEF Error3
  <2>5. QuietInv'
    BY <1>17 DEF Error3
  <2>6. CopyInv'
    BY <1>17 DEF Error3
  <2>. QED
    BY <2>1, <2>2, <2>3, <2>4, <2>5, <2>6
<1>18. CASE StartDispatch
  <2>1. TypeOK'
    <3>1. /\ starts' \in 0 .. MaxStarts
          /\ blocks' \in [queued : 0 .. MaxStarts, checked : 0 .. MaxStarts]
          /\ blocks'.queued + blocks'.checked <= starts'
      BY <1>18 DEF StartDispatch
    <3>. QED
      BY <1>18, <3>1 DEF StartDispatch
  <2>2. FrameInv'
    BY <1>18 DEF StartDispatch
  <2>3. FlagInv'
    BY <1>18 DEF StartDispatch
  <2>4. BufferInv'
    BY <1>18 DEF StartDispatch
  <2>5. QuietInv'
    BY <1>18 DEF StartDispatch
  <2>6. CopyInv'
    BY <1>18 DEF StartDispatch
  <2>. QED
    BY <2>1, <2>2, <2>3, <2>4, <2>5, <2>6
<1>19. CASE StopBegin
  BY <1>19 DEF StopBegin
<1>20. CASE FreeBegin
  BY <1>20 DEF FreeBegin
<1>21. CASE StartEnd
  BY <1>21 DEF StartEnd
<1>22. CASE StopRunning
  BY <1>22 DEF StopRunning
<1>23. CASE Slept
  BY <1>23 DEF Slept, Drained
<1>24. CASE ImagesFree
  <2>1. TypeOK'
    <3>1. rgba' \in [addr : Addresses \cup {Null}, half : [Halves -> Numbers]]
      BY <1>24 DEF ImagesFree
    <3>. QED
      BY <1>24, <3>1 DEF ImagesFree
  <2>2. FrameInv'
    BY <1>24 DEF ImagesFree
  <2>3. FlagInv'
    BY <1>24 DEF ImagesFree
  <2>4. BufferInv'
    BY <1>24 DEF ImagesFree
  <2>5. QuietInv'
    BY <1>24 DEF ImagesFree
  <2>6. CopyInv'
    BY <1>24 DEF ImagesFree
  <2>. QED
    BY <2>1, <2>2, <2>3, <2>4, <2>5, <2>6
<1>25. CASE DelegateRelease
  BY <1>25 DEF DelegateRelease
<1>26. CASE GetRGBA
  BY <1>26 DEF GetRGBA
<1>27. CASE ClearRead
  BY <1>27 DEF ClearRead, FlagCleared
<1>28. CASE LoadData
  BY <1>28 DEF LoadData
<1>29. CASE ReadSize
  BY <1>29 DEF ReadSize
<1>30. CASE CopyHalf(1, "copy1", "copy2")
  BY <1>30 DEF CopyHalf
<1>31. CASE CopyHalf(2, "copy2", "copied")
  BY <1>31 DEF CopyHalf
<1>32. CASE CopyDone
  BY <1>32 DEF CopyDone
<1>33. CASE Freed
  BY <1>33 DEF Freed, vars
<1>34. CASE UNCHANGED vars
  BY <1>34 DEF vars
<1>. QED
  BY <1>1, <1>2, <1>3, <1>4, <1>5, <1>6, <1>7, <1>8, <1>9, <1>10, <1>11,
     <1>12, <1>13, <1>14, <1>15, <1>16, <1>17, <1>18, <1>19, <1>20, <1>21,
     <1>22, <1>23, <1>24, <1>25, <1>26, <1>27, <1>28, <1>29, <1>30, <1>31,
     <1>32, <1>33, <1>34
     DEF Next, Block, Callback, Client, GetFrame, InCall

(* The inductive invariant holds in every reachable state.                 *)
THEOREM Invariance == Spec => []Inv
BY InitInv, NextInv, PTL DEF Spec

-----------------------------------------------------------------------------
(* The properties                                                          *)

(* Every variable keeps its type: no more blocks are due than were         *)
(* dispatched.                                                             *)
THEOREM TypeCorrect == Spec => []TypeOK
<1>1. Inv => TypeOK
  BY DEF Inv
<1>. QED
  BY <1>1, Invariance, PTL

(* If 200 ms suffice and the client stops first, no block of               *)
(* al_camera_start is left when the struct is freed.                       *)
THEOREM BlocksHaveCamera == Spec => []BlockHasCamera
<1>1. Inv => BlockHasCamera
  BY DEF Inv, CameraInv, QuietInv, BlockHasCamera
<1>. QED
  BY <1>1, Invariance, PTL

(* On the same terms process_image is not at work when al_camera_free      *)
(* releases the buffers.                                                   *)
THEOREM CallbacksHaveBuffers == Spec => []CallbackHasBuffers
<1>1. Inv => CallbackHasBuffers
  BY DEF Inv, CameraInv, QuietInv, CallbackHasBuffers
<1>. QED
  BY <1>1, Invariance, PTL

(* If 200 ms suffice, a copy of a stopped camera is its newest frame.      *)
THEOREM StoppedCopied == Spec => []StoppedCopy
<1>1. Inv => StoppedCopy
  BY DEF Inv, CameraInv, CopyInv, StoppedCopy
<1>. QED
  BY <1>1, Invariance, PTL

(* On the same terms the pointer al_camera_get_rgba returned stays the     *)
(* camera's buffer while it is copied from, as it does not otherwise.      *)
THEOREM QuietCopyLive == Spec => [](DrainSuffices /\ quiet => CopyLive)
<1>1. Inv => (DrainSuffices /\ quiet => CopyLive)
  BY DEF Inv, CameraInv, CopyInv, CopyLive
<1>. QED
  BY <1>1, Invariance, PTL

(* The steps on cam->read are those of the mailbox Android implements too: *)
(* Publish announces a newer frame, the test and the store of              *)
(* al_camera_get_rgba take the newest; no other step is seen.              *)
THEOREM MailboxRefined == Spec => MailboxSpec
<1>1. Init => Mailbox!Init
  BY DEF Init, Mailbox!Init
<1>2. Inv /\ [Next]_vars => [Mailbox!Next]_(Mailbox!mailbox)
  <2>. SUFFICES ASSUME Inv, [Next]_vars
                PROVE  [Mailbox!Next]_(Mailbox!mailbox)
    OBVIOUS
  <2>1. CASE Publish
    <3>1. cb.frame \in 1 .. MaxFrames /\ cb.frame > published
      BY <2>1, DarwinAssumption
         DEF Publish, Inv, TypeOK, Numbers, CameraInv, FrameInv
    <3>2. Mailbox!Announce(cb.frame)
      BY <2>1, <3>1 DEF Publish, Mailbox!Announce
    <3>. QED
      BY <3>1, <3>2 DEF Mailbox!Next
  <2>2. CASE ClearRead
    <3>1. Mailbox!Take
      BY <2>2 DEF ClearRead, FlagCleared, At, Mailbox!Take, Inv, CameraInv,
                  FlagInv
    <3>. QED
      BY <3>1 DEF Mailbox!Next
  <2>3. CASE ~Publish /\ ~ClearRead
    <3>1. UNCHANGED << published, read, taken >>
      BY <2>3
         DEF Next, Block, Callback, Client, GetFrame, InCall, Capture,
             BlockSkips, BlockTests, StartRunning, DidOutputStopped,
             DidOutput, ProcessFails, ImageAlloc, ConvertFails, RGBARelease,
             RGBAAlloc, RGBAAllocFails, CopyToRGBA, Error4, Error3,
             StartDispatch, StartEnd, StopBegin, StopRunning, Slept, GetRGBA,
             LoadData, ReadSize, CopyHalf, CopyDone, FreeBegin, ImagesFree,
             DelegateRelease, Freed, vars, camvars, ghosts
    <3>. QED
      BY <3>1 DEF Mailbox!mailbox
  <2>. QED
    BY <2>1, <2>2, <2>3
<1>. QED
  BY <1>1, <1>2, Invariance, PTL DEF Spec, MailboxSpec, Mailbox!Spec
=============================================================================
