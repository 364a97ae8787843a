------------------------- MODULE FrameDeliveryProofs -------------------------
(***************************************************************************)
(* Proofs about FrameDelivery, for every number of frames, every queue     *)
(* capacity and every choice of the other constants.  Inv is inductive;    *)
(* the properties and the refinement of the mailbox follow from it.        *)
(***************************************************************************)
EXTENDS FrameDelivery, TLAPS

Inv == TypeOK /\ DeliveryInv

-----------------------------------------------------------------------------
(* The steps that change the queue                                         *)

(* A frame that arrives finds room in the queue.                           *)
LEMMA ArriveType == ASSUME TypeOK, QueueInv, Arrive PROVE TypeOK'
<1>1. captured + 1 \in Frames /\ captured' \in Numbers
  BY DeliveryAssumption DEF TypeOK, Numbers, Frames, QueueInv, Arrive
<1>2. queue' \in Seq(Frames) /\ Len(queue') = Len(queue) + 1
  BY <1>1 DEF TypeOK, Arrive
<1>3. Len(queue') <= QueueCap /\ events' \in 0 .. QueueCap
  BY <1>2, DeliveryAssumption DEF TypeOK, Arrive, QueueInv
<1>4. exposing' \in BOOLEAN
  BY DEF Arrive
<1>. QED
  BY <1>1, <1>2, <1>3, <1>4 DEF TypeOK, Arrive, camvars, copies, ghosts

(* It is newer than all that is queued, acquired, written or announced.    *)
LEMMA ArriveQueue ==
  ASSUME TypeOK, QueueInv, CallbackInv, Arrive PROVE QueueInv'
<1>1. /\ queue \in Seq(Frames) /\ Len(queue) \in Nat
      /\ captured \in Nat /\ events \in Nat /\ published \in Nat
      /\ cb.frame \in Nat /\ rgba[1] \in Nat /\ rgba[2] \in Nat
  BY DEF TypeOK, Numbers, Halves
<1>2. Len(queue') = Len(queue) + 1 /\ queue'[Len(queue) + 1] = captured + 1
  BY <1>1 DEF Arrive
<1>3. \A j \in 1 .. Len(queue) : queue'[j] = queue[j]
  BY <1>1 DEF Arrive
<1>4. \A j \in 1 .. Len(queue) : queue[j] \in Nat
  BY <1>1, DeliveryAssumption DEF Frames
<1>5. events' + (IF cb'.pc = "acquire" THEN 1 ELSE 0) <= Len(queue')
  BY <1>1, <1>2 DEF TypeOK, QueueInv, Arrive, Numbers
<1>6. /\ captured' = captured + 1 /\ published' = published /\ cb' = cb
      /\ rgba' = rgba /\ ~exposing'
  BY DEF Arrive, camvars, ghosts
<1>7. ASSUME NEW j \in 1 .. Len(queue')
      PROVE  /\ queue'[j] <= captured + 1
             /\ queue'[j] > published /\ queue'[j] > cb.frame
             /\ queue'[j] > rgba[1] /\ queue'[j] > rgba[2]
             /\ \A k \in 1 .. Len(queue') : j < k => queue'[j] < queue'[k]
  <2>1. CASE j = Len(queue) + 1
    <3>1. \A k \in 1 .. Len(queue') : ~(j < k)
      BY <2>1, <1>1, <1>2
    <3>. QED
      BY <2>1, <3>1, <1>1, <1>2 DEF CallbackInv
  <2>2. CASE j \in 1 .. Len(queue)
    <3>1. /\ queue'[j] = queue[j] /\ queue[j] \in Nat /\ queue[j] <= captured
          /\ queue[j] > published /\ queue[j] > cb.frame
          /\ queue[j] > rgba[1] /\ queue[j] > rgba[2]
      BY <2>2, <1>3, <1>4 DEF QueueInv
    <3>2. ASSUME NEW k \in 1 .. Len(queue'), j < k
          PROVE  queue'[j] < queue'[k]
      <4>1. CASE k = Len(queue) + 1
        BY <4>1, <3>1, <1>1, <1>2
      <4>2. CASE k \in 1 .. Len(queue)
        BY <4>2, <2>2, <3>2, <1>3 DEF QueueInv
      <4>. QED
        BY <4>1, <4>2, <1>1, <1>2
    <3>. QED
      BY <3>1, <3>2, <1>1
  <2>. QED
    BY <2>1, <2>2, <1>1, <1>2
<1>. QED
  BY <1>2, <1>5, <1>6, <1>7 DEF QueueInv

(* The frame acquired is older than the ones left.                         *)
LEMMA AcquireQueue ==
  ASSUME TypeOK, QueueInv, AcquireNextImage PROVE QueueInv'
<1>1. queue \in Seq(Frames) /\ captured \in Nat /\ events \in Nat
  BY DEF TypeOK, Numbers
<1>2. /\ Len(queue) \in Nat /\ Len(queue) > 0
      /\ Len(queue') = Len(queue) - 1 /\ cb'.frame = queue[1]
  BY <1>1 DEF AcquireNextImage
<1>3. \A j \in 1 .. Len(queue') :
          queue'[j] = queue[j + 1] /\ j + 1 \in 1 .. Len(queue)
  BY <1>1, <1>2 DEF AcquireNextImage
<1>. QED
  BY <1>1, <1>2, <1>3, DeliveryAssumption
     DEF TypeOK, Numbers, Halves, QueueInv, AcquireNextImage, camvars, ghosts

(* A call of the listener is taken up, and its frame acquired.             *)
LEMMA AvailableType == ASSUME TypeOK, OnImageAvailable PROVE TypeOK'
BY DeliveryAssumption
   DEF TypeOK, Numbers, CallbackPCs, camvars, copies, ghosts, Goto,
       OnImageAvailable

(* The acquired frame is a frame, and the queue is shorter by it.          *)
LEMMA AcquireType == ASSUME TypeOK, AcquireNextImage PROVE TypeOK'
<1>1. /\ queue' \in Seq(Frames) /\ Len(queue') = Len(queue) - 1
      /\ Head(queue) \in Frames
  BY DEF TypeOK, AcquireNextImage
<1>2. Len(queue') <= QueueCap
  BY <1>1, DeliveryAssumption DEF TypeOK
<1>3. /\ cb' \in [pc : CallbackPCs, frame : Numbers]
      /\ cb'.frame # 0 /\ cb'.pc = "process"
  BY <1>1, DeliveryAssumption
     DEF AcquireNextImage, CallbackPCs, Numbers, Frames
<1>. QED
  BY <1>1, <1>2, <1>3 DEF TypeOK, camvars, copies, ghosts, AcquireNextImage

(* Deleting the reader empties the queue.                                  *)
LEMMA DeleteType == ASSUME TypeOK, ReaderDelete PROVE TypeOK'
<1>1. /\ queue' \in Seq(Frames) /\ Len(queue') <= QueueCap
      /\ events' \in 0 .. QueueCap
  BY DeliveryAssumption DEF ReaderDelete
<1>2. exposing' \in BOOLEAN /\ client' \in ClientPCs
  BY DEF ReaderDelete, ClientPCs
<1>. QED
  BY <1>1, <1>2 DEF TypeOK, camvars, copies, ghosts, ReaderDelete

-----------------------------------------------------------------------------
(* The invariant                                                           *)

(* It holds initially: no frame was captured and no call was made.         *)
LEMMA InitInv == Init => Inv
<1>. SUFFICES ASSUME Init PROVE Inv
  OBVIOUS
<1>1. TypeOK
  <2>1. queue \in Seq(Frames) /\ Len(queue) = 0
    BY DEF Init
  <2>2. Blank \in [Halves -> Numbers]
    BY DeliveryAssumption DEF Blank, Numbers
  <2>3. cb \in [pc : CallbackPCs, frame : Numbers] /\ client \in ClientPCs
    BY DeliveryAssumption DEF Init, Numbers, CallbackPCs, ClientPCs
  <2>4. 0 \in Numbers /\ 0 \in 0 .. QueueCap /\ 0 <= QueueCap
    BY DeliveryAssumption DEF Numbers
  <2>. QED
    BY <2>1, <2>2, <2>3, <2>4 DEF Init, TypeOK
<1>2. DeliveryInv
  BY DeliveryAssumption
     DEF Init, Blank, Halves, DeliveryInv, QueueInv, CallbackInv, ReadInv,
         CopyInv, BufferInv, QuietInv, StoppedInv, Processing
<1>. QED
  BY <1>1, <1>2 DEF Inv

(* Every step of the camera, of the callback or of the client keeps it.    *)
LEMMA NextInv == Inv /\ [Next]_vars => Inv'
<1>. SUFFICES ASSUME Inv, [Next]_vars PROVE Inv'
  OBVIOUS
<1>. USE DeliveryAssumption
     DEF Inv, DeliveryInv, TypeOK, QueueInv, CallbackInv, ReadInv, CopyInv,
         BufferInv, QuietInv, StoppedInv, Blank, Halves, Numbers, Frames,
         CallbackPCs, ClientPCs, Processing, camvars, ndkvars, copies, ghosts,
         Goto, At
<1>1. CASE Expose
  BY <1>1 DEF Expose
<1>2. CASE Arrive
  <2>1. TypeOK'
    BY <1>2, ArriveType
  <2>2. QueueInv'
    BY <1>2, ArriveQueue
  <2>3. CallbackInv'
    BY <1>2 DEF Arrive
  <2>4. ReadInv'
    BY <1>2 DEF Arrive
  <2>5. CopyInv'
    BY <1>2 DEF Arrive
  <2>6. BufferInv'
    BY <1>2 DEF Arrive
  <2>7. QuietInv'
    BY <1>2 DEF Arrive
  <2>8. StoppedInv'
    BY <1>2 DEF Arrive
  <2>. QED
    BY <2>1, <2>2, <2>3, <2>4, <2>5, <2>6, <2>7, <2>8
<1>3. CASE OnImageStopped
  BY <1>3 DEF OnImageStopped
<1>4. CASE OnImageAvailable
  <2>1. TypeOK'
    BY <1>4, AvailableType
  <2>2. QueueInv'
    BY <1>4 DEF OnImageAvailable
  <2>3. CallbackInv'
    BY <1>4 DEF OnImageAvailable
  <2>4. ReadInv'
    BY <1>4 DEF OnImageAvailable
  <2>5. CopyInv'
    BY <1>4 DEF OnImageAvailable
  <2>6. BufferInv'
    BY <1>4 DEF OnImageAvailable
  <2>7. QuietInv'
    BY <1>4 DEF OnImageAvailable
  <2>8. StoppedInv'
    BY <1>4 DEF OnImageAvailable
  <2>. QED
    BY <2>1, <2>2, <2>3, <2>4, <2>5, <2>6, <2>7, <2>8
<1>5. CASE AcquireNextImage
  <2>1. TypeOK'
    BY <1>5, AcquireType
  <2>2. QueueInv'
    BY <1>5, AcquireQueue
  <2>3. CallbackInv'
    BY <1>5 DEF AcquireNextImage
  <2>4. ReadInv'
    BY <1>5 DEF AcquireNextImage
  <2>5. CopyInv'
    BY <1>5 DEF AcquireNextImage
  <2>6. BufferInv'
    BY <1>5 DEF AcquireNextImage
  <2>7. QuietInv'
    BY <1>5 DEF AcquireNextImage
  <2>8. StoppedInv'
    BY <1>5 DEF AcquireNextImage
  <2>. QED
    BY <2>1, <2>2, <2>3, <2>4, <2>5, <2>6, <2>7, <2>8
<1>6. CASE AcquireFails
  <2>1. TypeOK'
    BY <1>6 DEF AcquireFails
  <2>2. QueueInv'
    BY <1>6 DEF AcquireFails
  <2>3. CallbackInv'
    BY <1>6 DEF AcquireFails
  <2>4. ReadInv'
    BY <1>6 DEF AcquireFails
  <2>5. CopyInv'
    BY <1>6 DEF AcquireFails
  <2>6. BufferInv'
    BY <1>6 DEF AcquireFails
  <2>7. QuietInv'
    BY <1>6 DEF AcquireFails
  <2>8. StoppedInv'
    BY <1>6 DEF AcquireFails
  <2>. QED
    BY <2>1, <2>2, <2>3, <2>4, <2>5, <2>6, <2>7, <2>8
<1>7. CASE ProcessFails
  <2>1. TypeOK'
    BY <1>7 DEF ProcessFails
  <2>2. QueueInv'
    BY <1>7 DEF ProcessFails
  <2>3. CallbackInv'
    BY <1>7 DEF ProcessFails
  <2>4. ReadInv'
    BY <1>7 DEF ProcessFails
  <2>5. CopyInv'
    BY <1>7 DEF ProcessFails
  <2>6. BufferInv'
    BY <1>7 DEF ProcessFails
  <2>7. QuietInv'
    BY <1>7 DEF ProcessFails
  <2>8. StoppedInv'
    BY <1>7 DEF ProcessFails
  <2>. QED
    BY <2>1, <2>2, <2>3, <2>4, <2>5, <2>6, <2>7, <2>8
<1>8. CASE ProcessYUV
  <2>1. TypeOK'
    BY <1>8 DEF ProcessYUV
  <2>2. QueueInv'
    BY <1>8 DEF ProcessYUV
  <2>3. CallbackInv'
    BY <1>8 DEF ProcessYUV
  <2>4. ReadInv'
    BY <1>8 DEF ProcessYUV
  <2>5. CopyInv'
    BY <1>8 DEF ProcessYUV
  <2>6. BufferInv'
    BY <1>8 DEF ProcessYUV
  <2>7. QuietInv'
    BY <1>8 DEF ProcessYUV
  <2>8. StoppedInv'
    BY <1>8 DEF ProcessYUV
  <2>. QED
    BY <2>1, <2>2, <2>3, <2>4, <2>5, <2>6, <2>7, <2>8
<1>9. CASE YUVToRGBA(1, "rgba1", "rgba2")
  <2>1. TypeOK'
    BY <1>9 DEF YUVToRGBA
  <2>2. QueueInv'
    BY <1>9 DEF YUVToRGBA
  <2>3. CallbackInv'
    BY <1>9 DEF YUVToRGBA
  <2>4. ReadInv'
    BY <1>9 DEF YUVToRGBA
  <2>5. CopyInv'
    BY <1>9 DEF YUVToRGBA
  <2>6. BufferInv'
    BY <1>9 DEF YUVToRGBA
  <2>7. QuietInv'
    BY <1>9 DEF YUVToRGBA
  <2>8. StoppedInv'
    BY <1>9 DEF YUVToRGBA
  <2>. QED
    BY <2>1, <2>2, <2>3, <2>4, <2>5, <2>6, <2>7, <2>8
<1>10. CASE YUVToRGBA(2, "rgba2", "publish")
  <2>1. TypeOK'
    BY <1>10 DEF YUVToRGBA
  <2>2. QueueInv'
    BY <1>10 DEF YUVToRGBA
  <2>3. CallbackInv'
    BY <1>10 DEF YUVToRGBA
  <2>4. ReadInv'
    BY <1>10 DEF YUVToRGBA
  <2>5. CopyInv'
    BY <1>10 DEF YUVToRGBA
  <2>6. BufferInv'
    BY <1>10 DEF YUVToRGBA
  <2>7. QuietInv'
    BY <1>10 DEF YUVToRGBA
  <2>8. StoppedInv'
    BY <1>10 DEF YUVToRGBA
  <2>. QED
    BY <2>1, <2>2, <2>3, <2>4, <2>5, <2>6, <2>7, <2>8
<1>11. CASE Publish
  <2>1. TypeOK'
    BY <1>11 DEF Publish
  <2>2. QueueInv'
    BY <1>11 DEF Publish
  <2>3. CallbackInv'
    BY <1>11 DEF Publish
  <2>4. ReadInv'
    BY <1>11 DEF Publish
  <2>5. CopyInv'
    BY <1>11 DEF Publish
  <2>6. BufferInv'
    BY <1>11 DEF Publish
  <2>7. QuietInv'
    BY <1>11 DEF Publish
  <2>8. StoppedInv'
    BY <1>11 DEF Publish
  <2>. QED
    BY <2>1, <2>2, <2>3, <2>4, <2>5, <2>6, <2>7, <2>8
<1>12. CASE ImageDelete
  BY <1>12 DEF ImageDelete
<1>13. CASE SetRepeatingRequest
  <2>1. TypeOK'
    BY <1>13 DEF SetRepeatingRequest
  <2>2. QueueInv'
    BY <1>13 DEF SetRepeatingRequest
  <2>3. CallbackInv'
    BY <1>13 DEF SetRepeatingRequest
  <2>4. ReadInv'
    BY <1>13 DEF SetRepeatingRequest
  <2>5. CopyInv'
    BY <1>13 DEF SetRepeatingRequest
  <2>6. BufferInv'
    BY <1>13 DEF SetRepeatingRequest
  <2>7. QuietInv'
    BY <1>13 DEF SetRepeatingRequest
  <2>8. StoppedInv'
    BY <1>13 DEF SetRepeatingRequest
  <2>. QED
    BY <2>1, <2>2, <2>3, <2>4, <2>5, <2>6, <2>7, <2>8
<1>14. CASE StartEnd
  <2>1. TypeOK'
    BY <1>14 DEF StartEnd
  <2>2. QueueInv'
    BY <1>14 DEF StartEnd
  <2>3. CallbackInv'
    BY <1>14 DEF StartEnd
  <2>4. ReadInv'
    BY <1>14 DEF StartEnd
  <2>5. CopyInv'
    BY <1>14 DEF StartEnd
  <2>6. BufferInv'
    BY <1>14 DEF StartEnd
  <2>7. QuietInv'
    BY <1>14 DEF StartEnd
  <2>8. StoppedInv'
    BY <1>14 DEF StartEnd
  <2>. QED
    BY <2>1, <2>2, <2>3, <2>4, <2>5, <2>6, <2>7, <2>8
<1>15. CASE StopBegin
  BY <1>15 DEF StopBegin
<1>16. CASE StopRepeating
  <2>1. TypeOK'
    BY <1>16 DEF StopRepeating
  <2>2. QueueInv'
    BY <1>16 DEF StopRepeating
  <2>3. CallbackInv'
    BY <1>16 DEF StopRepeating
  <2>4. ReadInv'
    BY <1>16 DEF StopRepeating
  <2>5. CopyInv'
    BY <1>16 DEF StopRepeating
  <2>6. BufferInv'
    BY <1>16 DEF StopRepeating
  <2>7. QuietInv'
    BY <1>16 DEF StopRepeating
  <2>8. StoppedInv'
    BY <1>16 DEF StopRepeating
  <2>. QED
    BY <2>1, <2>2, <2>3, <2>4, <2>5, <2>6, <2>7, <2>8
<1>17. CASE Slept
  BY <1>17 DEF Slept
<1>18. CASE GetRGBA
  BY <1>18 DEF GetRGBA
<1>19. CASE ClearRead
  <2>1. TypeOK'
    BY <1>19 DEF ClearRead
  <2>2. QueueInv'
    BY <1>19 DEF ClearRead
  <2>3. CallbackInv'
    BY <1>19 DEF ClearRead
  <2>4. ReadInv'
    BY <1>19 DEF ClearRead
  <2>5. CopyInv'
    BY <1>19 DEF ClearRead
  <2>6. BufferInv'
    BY <1>19 DEF ClearRead
  <2>7. QuietInv'
    BY <1>19 DEF ClearRead
  <2>8. StoppedInv'
    BY <1>19 DEF ClearRead
  <2>. QED
    BY <2>1, <2>2, <2>3, <2>4, <2>5, <2>6, <2>7, <2>8
<1>20. CASE CopyFirst
  BY <1>20 DEF CopyFirst
<1>21. CASE CopySecond
  BY <1>21 DEF CopySecond
<1>22. CASE CopyDone
  BY <1>22 DEF CopyDone
<1>23. CASE FreeBegin
  <2>1. TypeOK'
    BY <1>23 DEF FreeBegin
  <2>2. QueueInv'
    BY <1>23 DEF FreeBegin
  <2>3. CallbackInv'
    BY <1>23 DEF FreeBegin
  <2>4. ReadInv'
    BY <1>23 DEF FreeBegin
  <2>5. CopyInv'
    BY <1>23 DEF FreeBegin
  <2>6. BufferInv'
    BY <1>23 DEF FreeBegin
  <2>7. QuietInv'
    BY <1>23 DEF FreeBegin
  <2>8. StoppedInv'
    BY <1>23 DEF FreeBegin
  <2>. QED
    BY <2>1, <2>2, <2>3, <2>4, <2>5, <2>6, <2>7, <2>8
<1>24. CASE ReaderDelete
  <2>1. TypeOK'
    BY <1>24, DeleteType
  <2>2. QueueInv'
    BY <1>24 DEF ReaderDelete
  <2>3. CallbackInv'
    BY <1>24 DEF ReaderDelete
  <2>4. ReadInv'
    BY <1>24 DEF ReaderDelete
  <2>5. CopyInv'
    BY <1>24 DEF ReaderDelete
  <2>6. BufferInv'
    BY <1>24 DEF ReaderDelete
  <2>7. QuietInv'
    BY <1>24 DEF ReaderDelete
  <2>8. StoppedInv'
    BY <1>24 DEF ReaderDelete
  <2>. QED
    BY <2>1, <2>2, <2>3, <2>4, <2>5, <2>6, <2>7, <2>8
<1>25. CASE ImagesFree
  <2>1. TypeOK'
    BY <1>25 DEF ImagesFree
  <2>2. QueueInv'
    BY <1>25 DEF ImagesFree
  <2>3. CallbackInv'
    BY <1>25 DEF ImagesFree
  <2>4. ReadInv'
    BY <1>25 DEF ImagesFree
  <2>5. CopyInv'
    BY <1>25 DEF ImagesFree
  <2>6. BufferInv'
    BY <1>25 DEF ImagesFree
  <2>7. QuietInv'
    BY <1>25 DEF ImagesFree
  <2>8. StoppedInv'
    BY <1>25 DEF ImagesFree
  <2>. QED
    BY <2>1, <2>2, <2>3, <2>4, <2>5, <2>6, <2>7, <2>8
<1>26. CASE Freed
  BY <1>26 DEF Freed, vars
<1>27. CASE UNCHANGED vars
  BY <1>27 DEF vars
<1>. QED
  BY <1>1, <1>2, <1>3, <1>4, <1>5, <1>6, <1>7, <1>8,
     <1>9, <1>10, <1>11, <1>12, <1>13, <1>14, <1>15, <1>16,
     <1>17, <1>18, <1>19, <1>20, <1>21, <1>22, <1>23, <1>24,
     <1>25, <1>26, <1>27
     DEF Next, Camera, Callback, Client, GetFrame, InCall

(* The inductive invariant holds in every reachable state, whatever the     *)
(* number of frames, the depth of the queue and the calls that fail.       *)
THEOREM Invariance == Spec => []Inv
BY InitInv, NextInv, PTL DEF Spec

-----------------------------------------------------------------------------
(* The properties                                                          *)

(* Every variable keeps its type.                                          *)
THEOREM TypeCorrect == Spec => []TypeOK
<1>1. Inv => TypeOK
  BY DEF Inv
<1>. QED
  BY <1>1, Invariance, PTL

(* A copy is a frame, in no half older than the one announced.             *)
THEOREM CopiesNotOlder == Spec => []CopyNotOlder
<1>1. Inv => CopyNotOlder
  BY DEF Inv, DeliveryInv, ReadInv, CopyInv, CopyNotOlder
<1>. QED
  BY <1>1, Invariance, PTL

(* Copies never go back in time.                                           *)
THEOREM CopiesForward == Spec => []CopyForward
<1>1. Inv => CopyForward
  BY DEF Inv, DeliveryInv, CopyInv, CopyForward
<1>. QED
  BY <1>1, Invariance, PTL

(* The buffers exist whenever a thread uses them.                          *)
THEOREM BuffersInPlace == Spec => []BuffersExist
<1>1. Inv => BuffersExist
  BY DEF Inv, DeliveryInv, TypeOK, Numbers, ReadInv, BufferInv, BuffersExist
<1>. QED
  BY <1>1, Invariance, PTL

(* If 200 ms suffice, al_camera_stop returns to a silent callback.         *)
THEOREM StoppedSilent == Spec => []StoppedIsQuiet
<1>1. Inv => StoppedIsQuiet
  BY DEF Inv, DeliveryInv, QuietInv, StoppedIsQuiet
<1>. QED
  BY <1>1, Invariance, PTL

(* If 200 ms suffice, a copy of a stopped camera is its newest frame.      *)
THEOREM StoppedCopied == Spec => []StoppedCopy
<1>1. Inv => StoppedCopy
  BY DEF Inv, DeliveryInv, StoppedInv, StoppedCopy
<1>. QED
  BY <1>1, Invariance, PTL

(* Every step of the camera is a step of the mailbox or leaves it alone:   *)
(* al_camera_get_rgba takes each announcement once, and the newest.        *)
THEOREM MailboxRefined == Spec => MailboxSpec
<1>1. Init => Mailbox!Init
  BY DEF Init, Mailbox!Init
<1>2. Inv /\ [Next]_vars => [Mailbox!Next]_(Mailbox!mailbox)
  <2>. SUFFICES ASSUME Inv, [Next]_vars
                PROVE  [Mailbox!Next]_(Mailbox!mailbox)
    OBVIOUS
  <2>1. CASE Publish
    <3>1. cb.frame \in 1 .. MaxFrames /\ cb.frame > published
      BY <2>1, DeliveryAssumption
         DEF Publish, Inv, DeliveryInv, CallbackInv, Processing, TypeOK,
             Numbers
    <3>2. Mailbox!Announce(cb.frame)
      BY <2>1, <3>1 DEF Publish, Mailbox!Announce
    <3>. QED
      BY <3>1, <3>2 DEF Mailbox!Next
  <2>2. CASE ClearRead
    <3>1. Mailbox!Take
      BY <2>2 DEF ClearRead, At, Mailbox!Take, Inv, DeliveryInv, ReadInv
    <3>. QED
      BY <3>1 DEF Mailbox!Next
  <2>3. CASE ~Publish /\ ~ClearRead
    <3>1. UNCHANGED << published, read, taken >>
      BY <2>3
         DEF Next, Camera, Callback, Client, GetFrame, InCall, Expose, Arrive,
             OnImageStopped, OnImageAvailable, AcquireNextImage, AcquireFails,
             ProcessFails, ProcessYUV, YUVToRGBA, ImageDelete,
             SetRepeatingRequest, StartEnd, StopBegin, StopRepeating, Slept,
             GetRGBA, CopyFirst, CopySecond, CopyDone, FreeBegin,
             ReaderDelete, ImagesFree, Freed, vars, camvars, ghosts
    <3>. QED
      BY <3>1 DEF Mailbox!mailbox
  <2>. QED
    BY <2>1, <2>2, <2>3
<1>. QED
  BY <1>1, <1>2, Invariance, PTL DEF Spec, MailboxSpec, Mailbox!Spec
=============================================================================
