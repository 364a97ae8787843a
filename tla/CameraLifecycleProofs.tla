------------------------ MODULE CameraLifecycleProofs ------------------------
(***************************************************************************)
(* Proofs about CameraLifecycle, for every set of cameras, of indices, of  *)
(* slots and of calls that may fail.                                       *)
(*                                                                         *)
(* The argument: LifecycleInv says how far the call in progress is, in     *)
(* terms of what its struct still owns, and the lemmas of the first part   *)
(* say how the owned sets change from one position of Stages, ErrorOrder   *)
(* and FreeOrder to the next.  Labels is the heart of the error paths: the *)
(* label a failing stage jumps to releases exactly what the stages before  *)
(* it acquired.                                                            *)
(***************************************************************************)
EXTENDS CameraLifecycle, TLAPS

(* The type invariant and the inductive invariant together.                *)
Inv == TypeOK /\ LifecycleInv

-----------------------------------------------------------------------------
(* The three lists                                                         *)

(* Their lengths.                                                          *)
LEMMA Lengths ==
    Len(Stages) = 9 /\ Len(ErrorOrder) = 10 /\ Len(FreeOrder) = 13
BY DEF Stages, ErrorOrder, FreeOrder

(* The pointer fields, one by one.                                         *)
LEMMA FieldsValue ==
    Fields = {"request", "capture_callbacks", "session", "session_callbacks",
              "reader", "images", "listener", "window", "device",
              "state_callbacks", "id", "manager", "availability_callbacks"}
<1>1. DOMAIN FreeOrder = 1 .. 13
  BY DEF FreeOrder
<1>. QED BY <1>1 DEF Fields, FreeOrder

(* Everything al_camera_free gives back is a field.                        *)
LEMMA FreeFields == \A p \in 1 .. 13 : FreeOrder[p] \in Fields
BY FieldsValue DEF FreeOrder

(* The fields are none of the objects without a pointer.                   *)
LEMMA FieldsApart == Fields \cap Unnamed = {} /\ Complete \subseteq Fields
BY FieldsValue DEF Unnamed, Complete, Obtained, Stages

(* The fields the actions name.                                            *)
LEMMA FieldNames ==
    {"images", "capture_callbacks", "reader", "session", "request"}
        \subseteq Fields
BY FieldsValue

(* Nothing is given back twice on one path.                                *)
LEMMA ErrorInjective ==
    \A p, q \in 1 .. 10 : ErrorOrder[p] = ErrorOrder[q] => p = q
BY DEF ErrorOrder

(* al_camera_free gives no field back twice.                               *)
LEMMA FreeInjective ==
    \A p, q \in 1 .. 13 : FreeOrder[p] = FreeOrder[q] => p = q
BY DEF FreeOrder

(* One step along the error labels.                                        *)
LEMMA RemainingStep ==
    /\ Remaining(11) = {}
    /\ \A p \in 1 .. 10 :
           /\ Remaining(p + 1) = Remaining(p) \ {ErrorOrder[p]}
           /\ ErrorOrder[p] \in Remaining(p)
BY Lengths, ErrorInjective DEF Remaining

(* One step along al_camera_free.                                          *)
LEMMA ReleasedStep ==
    /\ Released(1) = {} /\ Released(14) = Fields /\ Released(15) = Fields
    /\ \A p \in 1 .. 13 :
           /\ Released(p + 1) = Released(p) \cup {FreeOrder[p]}
           /\ FreeOrder[p] \notin Released(p)
<1>1. DOMAIN FreeOrder = 1 .. 13
  BY DEF FreeOrder
<1>. QED BY <1>1, FreeInjective DEF Released, Fields

(* al_camera_free gives the reader back just before the buffers.           *)
LEMMA ImagesAfterReader ==
    \A p \in 1 .. 15 :
        "reader" \notin Released(p) =>
            /\ "images" \notin Released(p)
            /\ p <= 13 => FreeOrder[p] # "images"
<1>1. DOMAIN FreeOrder = 1 .. 13
  BY DEF FreeOrder
<1>2. FreeOrder[5] = "reader" /\ FreeOrder[6] = "images"
  BY DEF FreeOrder
<1>. QED BY <1>1, <1>2, FreeInjective DEF Released

(* One stage of al_camera_new.                                             *)
LEMMA HeldStep ==
    /\ Held(1) = {}
    /\ \A k \in 1 .. 9 : Held(k + 1) = Held(k) \cup Obtained(k)
BY DEF Held

(* After its last stage al_camera_new has all that a camera owns.          *)
LEMMA HeldAll == Held(10) = Complete
BY Lengths DEF Held, Complete, Stages

(* A stage stores in fields of the struct only.                            *)
LEMMA StageFields == \A k \in 1 .. 9 : Obtained(k) \subseteq Fields
BY FieldsValue DEF Obtained, Stages

(* What a stage creates besides is never a field.                          *)
LEMMA StageBesides == \A k \in 1 .. 9 : Besides(k) \subseteq Unnamed
BY DEF Besides, Stages, Unnamed

(* What a failing stage leaves is a known leak.                            *)
LEMMA StageResidues ==
    \A k \in 1 .. 9 : \A r \in Residues(k) : r \subseteq KnownLeaks
BY DEF Residues, Stages, KnownLeaks

(* What al_camera_new has before each stage.                               *)
LEMMA HeldValues ==
    /\ Held(1) = {}
    /\ Held(2) = Held(1) \cup {"availability_callbacks"}
    /\ Held(3) = Held(2) \cup {"manager"}
    /\ Held(4) = Held(3) \cup {"id"}
    /\ Held(5) = Held(4) \cup {"state_callbacks"}
    /\ Held(6) = Held(5) \cup {"device"}
    /\ Held(7) = Held(6) \cup {"reader", "listener", "window"}
    /\ Held(8) = Held(7) \cup {"session_callbacks"}
    /\ Held(9) = Held(8) \cup {"session"}
<1>1. /\ Held(1) = {}
      /\ \A k, l \in 1 .. 9 : l = k + 1 => Held(l) = Held(k) \cup Obtained(k)
  BY DEF Held
<1>. QED BY <1>1 DEF Obtained, Stages

(* What the labels have left to release, from error1 up.                   *)
LEMMA RemainingValues ==
    /\ Remaining(11) = {}
    /\ Remaining(10) = Remaining(11) \cup {"availability_callbacks"}
    /\ Remaining(9) = Remaining(10) \cup {"manager"}
    /\ Remaining(8) = Remaining(9) \cup {"id"}
    /\ Remaining(7) = Remaining(8) \cup {"state_callbacks"}
    /\ Remaining(6) = Remaining(7) \cup {"device"}
    /\ Remaining(3) = Remaining(6) \cup {"reader", "listener", "window"}
    /\ Remaining(2) = Remaining(3) \cup {"session_callbacks"}
    /\ Remaining(1) = Remaining(2) \cup {"session"}
<1>1. /\ Remaining(11) = {}
      /\ \A p, q \in 1 .. 11 :
             q = p + 1 => Remaining(p) = Remaining(q) \cup {ErrorOrder[p]}
  BY Lengths DEF Remaining
<1>2. Remaining(3) = Remaining(6) \cup
                     {ErrorOrder[3], ErrorOrder[4], ErrorOrder[5]}
  BY Lengths DEF Remaining
<1>. QED BY <1>1, <1>2 DEF ErrorOrder

(* The label a failing stage jumps to releases exactly what the stages     *)
(* before it acquired.                                                     *)
LEMMA Labels ==
    \A k \in 1 .. 9 :
        ErrorLabel[k] \in 1 .. 11 /\ Held(k) = Remaining(ErrorLabel[k])
<1>1. \A k \in 1 .. 9 : ErrorLabel[k] \in 1 .. 11
  BY DEF ErrorLabel
<1>2. /\ Held(1) = Remaining(11) /\ Held(2) = Remaining(10)
      /\ Held(3) = Remaining(9) /\ Held(4) = Remaining(8)
      /\ Held(5) = Remaining(7) /\ Held(6) = Remaining(6)
      /\ Held(7) = Remaining(3) /\ Held(8) = Remaining(2)
      /\ Held(9) = Remaining(1)
  BY HeldValues, RemainingValues
<1>. QED BY <1>1, <1>2 DEF ErrorLabel

-----------------------------------------------------------------------------
(* Every action keeps the invariant.                                       *)

(* The new struct has nothing yet, and its slot names it.                  *)
LEMMA NewBeginStep ==
    ASSUME Inv, NEW c \in Cams, NEW i \in Indices, NewBegin(c, i) PROVE Inv'
<1>1. TypeOK'
  BY ConstantsAssumption, Lengths DEF Inv, LifecycleInv, TypeOK, CallInv,
     SettledInv, Settled, Ops, Idle, Step, NewBegin
<1>2. SettledInv'
  BY ConstantsAssumption DEF Inv, LifecycleInv, TypeOK, SettledInv, Settled,
     Idle, Step, NewBegin
<1>3. FreedInv'
  BY ConstantsAssumption DEF Inv, LifecycleInv, TypeOK, FreedInv, Idle,
     Step, NewBegin
<1>4. NewInv'
  BY Lengths, HeldStep DEF Inv, LifecycleInv, TypeOK, NewInv, Idle, Step,
     NewBegin
<1>5. ErrorInv'
  BY DEF Inv, LifecycleInv, TypeOK, ErrorInv, Idle, Step, NewBegin
<1>6. FreeInv'
  BY DEF Inv, LifecycleInv, TypeOK, FreeInv, Idle, Step, NewBegin
<1>7. CallInv'
  BY ConstantsAssumption DEF Inv, LifecycleInv, TypeOK, CallInv, Idle, Step,
     NewBegin
<1>8. SlotInv'
  BY ConstantsAssumption DEF Inv, LifecycleInv, TypeOK, SlotInv,
     RegistryLive, Idle, Step, NewBegin
<1>9. OnlyKnownLeaks'
  BY DEF Inv, LifecycleInv, TypeOK, OnlyKnownLeaks, Idle, Step, NewBegin
<1>. QED
  BY <1>1, <1>2, <1>3, <1>4, <1>5, <1>6, <1>7, <1>8, <1>9
     DEF Inv, LifecycleInv

(* A stage adds what the next one counts on; the last one completes the    *)
(* camera.                                                                 *)
LEMMA AcquireStep ==
    ASSUME Inv, Acquire PROVE Inv'
<1>1. TypeOK'
  BY ConstantsAssumption, Lengths, StageFields, StageBesides DEF Inv,
     LifecycleInv, TypeOK, SettledInv, FreedInv, NewInv, ErrorInv, FreeInv,
     CallInv, SlotInv, OnlyKnownLeaks, Settled, RegistryLive, Ops,
     Resources, Idle, Step, Acquire
<1>2. SettledInv'
  BY ConstantsAssumption, Lengths, HeldStep, HeldAll, StageBesides DEF Inv,
     LifecycleInv, TypeOK, SettledInv, FreedInv, NewInv, ErrorInv, FreeInv,
     CallInv, SlotInv, OnlyKnownLeaks, Settled, RegistryLive, Idle, Step,
     Acquire
<1>3. FreedInv'
  BY ConstantsAssumption DEF Inv, LifecycleInv, TypeOK, FreedInv, CallInv,
     Idle, Step, Acquire
<1>4. NewInv'
  <2>. SUFFICES ASSUME call'.op = "new" PROVE NewInv'
    BY DEF NewInv
  <2>. DEFINE c == call.cam  k == call.pc
  <2>1. k \in 1 .. 8 /\ c \in Cams /\ call' = Step("new", c, k + 1)
    BY Lengths DEF Inv, LifecycleInv, NewInv, CallInv, TypeOK, Acquire, Idle
  <2>2. /\ fields[c] = Held(k)
        /\ Held(k) \subseteq live[c]
        /\ live[c] \subseteq Held(k) \cup Unnamed
        /\ fields'[c] = Held(k) \cup Obtained(k)
        /\ live'[c] = live[c] \cup Obtained(k) \cup Besides(k)
    BY <2>1 DEF Inv, LifecycleInv, NewInv, TypeOK, Acquire
  <2>3. Held(k + 1) = Held(k) \cup Obtained(k) /\ Besides(k) \subseteq Unnamed
    BY <2>1, HeldStep, StageBesides
  <2>4. call'.cam = c /\ call'.pc = k + 1 /\ k + 1 \in 1 .. 9
    BY <2>1 DEF Step
  <2>. QED BY <2>2, <2>3, <2>4, Lengths DEF NewInv
<1>5. ErrorInv'
  BY DEF Inv, LifecycleInv, TypeOK, ErrorInv, Idle, Step, Acquire
<1>6. FreeInv'
  BY DEF Inv, LifecycleInv, TypeOK, FreeInv, Idle, Step, Acquire
<1>7. CallInv'
  BY ConstantsAssumption DEF Inv, LifecycleInv, TypeOK, CallInv, Idle, Step,
     Acquire
<1>8. SlotInv'
  BY ConstantsAssumption DEF Inv, LifecycleInv, TypeOK, SlotInv,
     RegistryLive, Idle, Step, Acquire
<1>9. OnlyKnownLeaks'
  BY DEF Inv, LifecycleInv, TypeOK, OnlyKnownLeaks, Idle, Step, Acquire
<1>. QED
  BY <1>1, <1>2, <1>3, <1>4, <1>5, <1>6, <1>7, <1>8, <1>9
     DEF Inv, LifecycleInv

(* The label of a failing stage releases just what was held by then.       *)
LEMMA AcquireFailsStep ==
    ASSUME Inv, AcquireFails PROVE Inv'
<1>1. TypeOK'
  BY ConstantsAssumption, Lengths, StageResidues, Labels, FieldsValue DEF
     Inv, LifecycleInv, TypeOK, SettledInv, FreedInv, NewInv, ErrorInv,
     FreeInv, CallInv, SlotInv, OnlyKnownLeaks, Settled, RegistryLive, Ops,
     KnownLeaks, Resources, Step, AcquireFails
<1>2. SettledInv'
  BY ConstantsAssumption DEF Inv, LifecycleInv, TypeOK, SettledInv, Settled,
     Step, AcquireFails
<1>3. FreedInv'
  BY ConstantsAssumption DEF Inv, LifecycleInv, TypeOK, FreedInv, CallInv,
     Step, AcquireFails
<1>4. NewInv'
  BY DEF Inv, LifecycleInv, TypeOK, NewInv, Step, AcquireFails
<1>5. ErrorInv'
  BY Lengths, StageResidues, Labels DEF Inv, LifecycleInv, TypeOK,
     SettledInv, FreedInv, NewInv, ErrorInv, FreeInv, CallInv, SlotInv,
     OnlyKnownLeaks, Settled, RegistryLive, KnownLeaks, Step, AcquireFails
<1>6. FreeInv'
  BY DEF Inv, LifecycleInv, TypeOK, FreeInv, Step, AcquireFails
<1>7. CallInv'
  BY ConstantsAssumption DEF Inv, LifecycleInv, TypeOK, CallInv, Idle, Step,
     AcquireFails
<1>8. SlotInv'
  BY ConstantsAssumption DEF Inv, LifecycleInv, TypeOK, SlotInv,
     RegistryLive, Step, AcquireFails
<1>9. OnlyKnownLeaks'
  BY DEF Inv, LifecycleInv, TypeOK, OnlyKnownLeaks, Step, AcquireFails
<1>. QED
  BY <1>1, <1>2, <1>3, <1>4, <1>5, <1>6, <1>7, <1>8, <1>9
     DEF Inv, LifecycleInv

(* abortCaptures gives nothing back.                                       *)
LEMMA FreeBeginStep ==
    ASSUME Inv, NEW c \in Cams, FreeBegin(c) PROVE Inv'
<1>1. TypeOK'
  BY ConstantsAssumption DEF Inv, LifecycleInv, TypeOK, Ops, Idle, Step,
     Halted, FreeBegin
<1>2. SettledInv'
  BY ConstantsAssumption DEF Inv, LifecycleInv, TypeOK, SettledInv, Settled,
     Idle, Step, Halted, FreeBegin
<1>3. FreedInv'
  BY ConstantsAssumption DEF Inv, LifecycleInv, TypeOK, FreedInv, Idle,
     Step, Halted, FreeBegin
<1>4. NewInv'
  BY DEF Inv, LifecycleInv, TypeOK, NewInv, Idle, Step, Halted, FreeBegin
<1>5. ErrorInv'
  BY DEF Inv, LifecycleInv, TypeOK, ErrorInv, Idle, Step, Halted, FreeBegin
<1>6. FreeInv'
  BY Lengths, ReleasedStep DEF Inv, LifecycleInv, TypeOK, FreeInv, CallInv,
     SettledInv, Settled, Idle, Step, Halted, FreeBegin
<1>7. CallInv'
  BY ConstantsAssumption DEF Inv, LifecycleInv, TypeOK, CallInv, Idle, Step,
     Halted, FreeBegin
<1>8. SlotInv'
  BY ConstantsAssumption DEF Inv, LifecycleInv, TypeOK, SlotInv,
     RegistryLive, Idle, Step, Halted, FreeBegin
<1>9. OnlyKnownLeaks'
  BY DEF Inv, LifecycleInv, TypeOK, OnlyKnownLeaks, Idle, Step, Halted,
     FreeBegin
<1>. QED
  BY <1>1, <1>2, <1>3, <1>4, <1>5, <1>6, <1>7, <1>8, <1>9
     DEF Inv, LifecycleInv

(* A release gives back a live resource whose field is set to NULL next.   *)
LEMMA ReleaseStep ==
    ASSUME Inv, Release PROVE Inv'
<1>1. TypeOK'
  BY ConstantsAssumption DEF Inv, LifecycleInv, TypeOK, Ops, Halted, Seen, Release
<1>2. SettledInv'
  BY ConstantsAssumption DEF Inv, LifecycleInv, TypeOK, SettledInv, Settled,
     Halted, Release
<1>3. FreedInv'
  BY ConstantsAssumption DEF Inv, LifecycleInv, TypeOK, FreedInv, Halted,
     Release
<1>4. NewInv'
  BY DEF Inv, LifecycleInv, TypeOK, NewInv, Halted, Release
<1>5. ErrorInv'
  <2>. SUFFICES ASSUME call'.op \in {"error", "error_null"} PROVE ErrorInv'
    BY DEF ErrorInv
  <2>. DEFINE c == call.cam  p == call.pc
  <2>1. call.op = "error" /\ call' = [call EXCEPT !.op = "error_null"]
    BY DEF Release, Inv, TypeOK
  <2>2. p \in 1 .. 10 /\ c \in Cams
    <3>1. Order(call.op) = ErrorOrder
      BY <2>1 DEF Order
    <3>2. p \in Int /\ 1 <= p /\ c \in alloc
      BY <2>1, Lengths DEF Inv, LifecycleInv, ErrorInv, CallInv
    <3>3. p <= 10
      BY <3>1, Lengths DEF Release
    <3>. QED BY <3>2, <3>3 DEF Inv, TypeOK
  <2>3. /\ fields[c] = Remaining(p)
        /\ Remaining(p) \subseteq live[c]
        /\ live[c] \subseteq Remaining(p) \cup KnownLeaks
    BY <2>1 DEF Inv, LifecycleInv, ErrorInv
  <2>5. fields' = fields /\ live'[c] = live[c] \ {ErrorOrder[p]}
    <3>1. Order(call.op) = ErrorOrder
      BY <2>1 DEF Order
    <3>. QED BY <2>1, <2>2, <3>1 DEF Inv, TypeOK, Release
  <2>4. call'.cam = c /\ call'.pc = p /\ call'.op = "error_null"
    BY <2>1 DEF Inv, TypeOK
  <2>. QED BY <2>2, <2>3, <2>4, <2>5, Lengths, RemainingStep DEF ErrorInv
<1>6. FreeInv'
  <2>. SUFFICES ASSUME call'.op \in {"free", "free_null"} PROVE FreeInv'
    BY DEF FreeInv
  <2>. DEFINE c == call.cam  p == call.pc
  <2>1. call.op = "free" /\ call' = [call EXCEPT !.op = "free_null"]
    BY DEF Release, Inv, TypeOK
  <2>2. p \in 1 .. 13 /\ c \in Cams
    <3>1. Order(call.op) = FreeOrder
      BY <2>1 DEF Order
    <3>2. p \in Int /\ 1 <= p /\ c \in alloc
      BY <2>1, Lengths DEF Inv, LifecycleInv, FreeInv, CallInv
    <3>3. p <= 13
      BY <3>1, Lengths DEF Release
    <3>. QED BY <3>2, <3>3 DEF Inv, TypeOK
  <2>3. /\ fields[c] \cap Released(p) = {}
        /\ fields[c] \subseteq live[c]
        /\ live[c] \subseteq fields[c] \cup Unnamed
    BY <2>1 DEF Inv, LifecycleInv, FreeInv
  <2>6. /\ fields' = fields
        /\ live'[c] = IF FreeOrder[p] \in fields[c]
                     THEN live[c] \ {FreeOrder[p]} ELSE live[c]
    <3>1. Order(call.op) = FreeOrder
      BY <2>1 DEF Order
    <3>. QED BY <2>1, <2>2, <3>1 DEF Inv, TypeOK, Release
  <2>4. call'.cam = c /\ call'.pc = p /\ call'.op = "free_null"
    BY <2>1 DEF Inv, TypeOK
  <2>5. FreeOrder[p] \notin live'[c]
    BY <2>2, <2>3, <2>6, FieldsApart, FreeFields
  <2>. QED BY <2>2, <2>3, <2>4, <2>5, <2>6, Lengths DEF FreeInv
<1>7. CallInv'
  BY ConstantsAssumption DEF Inv, LifecycleInv, TypeOK, CallInv, Idle,
     Halted, Release
<1>8. SlotInv'
  BY ConstantsAssumption DEF Inv, LifecycleInv, TypeOK, SlotInv,
     RegistryLive, Halted, Release
<1>9. OnlyKnownLeaks'
  BY DEF Inv, LifecycleInv, TypeOK, OnlyKnownLeaks, Halted, Release
<1>. QED
  BY <1>1, <1>2, <1>3, <1>4, <1>5, <1>6, <1>7, <1>8, <1>9
     DEF Inv, LifecycleInv

(* The store of NULL restores that a field names what is live.             *)
LEMMA StoreNullStep ==
    ASSUME Inv, StoreNull PROVE Inv'
<1>1. TypeOK'
  BY ConstantsAssumption, Lengths DEF Inv, LifecycleInv, TypeOK, SettledInv,
     FreedInv, NewInv, ErrorInv, FreeInv, CallInv, SlotInv, OnlyKnownLeaks,
     Settled, RegistryLive, Ops, Order, Step, StoreNull
<1>2. SettledInv'
  BY ConstantsAssumption DEF Inv, LifecycleInv, TypeOK, SettledInv, Settled,
     Step, StoreNull
<1>3. FreedInv'
  BY ConstantsAssumption DEF Inv, LifecycleInv, TypeOK, FreedInv, Step,
     StoreNull
<1>4. NewInv'
  BY DEF Inv, LifecycleInv, TypeOK, NewInv, Step, StoreNull
<1>5. ErrorInv'
  <2>. SUFFICES ASSUME call'.op \in {"error", "error_null"} PROVE ErrorInv'
    BY DEF ErrorInv
  <2>. DEFINE c == call.cam  p == call.pc
  <2>1. call.op = "error_null" /\ call' = Step("error", c, p + 1)
    BY DEF StoreNull, Step
  <2>2. p \in 1 .. 10 /\ c \in Cams
    BY <2>1, Lengths DEF Inv, LifecycleInv, ErrorInv, CallInv, TypeOK
  <2>3. /\ fields[c] = Remaining(p)
        /\ live[c] \subseteq Remaining(p) \cup KnownLeaks
        /\ ErrorOrder[p] \notin live[c]
        /\ fields[c] \ {ErrorOrder[p]} \subseteq live[c]
        /\ live' = live /\ fields'[c] = fields[c] \ {ErrorOrder[p]}
    BY <2>1, <2>2 DEF Inv, LifecycleInv, ErrorInv, TypeOK, StoreNull, Order
  <2>4. call'.cam = c /\ call'.pc = p + 1 /\ call'.op = "error"
    BY <2>1 DEF Step
  <2>5. fields'[c] = Remaining(p + 1) /\ p + 1 \in 1 .. 11
    BY <2>2, <2>3, RemainingStep
  <2>6. /\ fields'[c] \subseteq live'[c]
        /\ live'[c] \subseteq fields'[c] \cup KnownLeaks
    BY <2>3
  <2>. QED BY <2>4, <2>5, <2>6, Lengths DEF ErrorInv
<1>6. FreeInv'
  BY Lengths, ReleasedStep DEF Inv, LifecycleInv, TypeOK, FreeInv, CallInv,
     Order, Step, StoreNull
<1>7. CallInv'
  BY ConstantsAssumption DEF Inv, LifecycleInv, TypeOK, CallInv, Idle, Step,
     StoreNull
<1>8. SlotInv'
  BY ConstantsAssumption DEF Inv, LifecycleInv, TypeOK, SettledInv,
     FreedInv, NewInv, ErrorInv, FreeInv, CallInv, SlotInv, OnlyKnownLeaks,
     Settled, RegistryLive, Step, StoreNull
<1>9. OnlyKnownLeaks'
  BY DEF Inv, LifecycleInv, TypeOK, OnlyKnownLeaks, Step, StoreNull
<1>. QED
  BY <1>1, <1>2, <1>3, <1>4, <1>5, <1>6, <1>7, <1>8, <1>9
     DEF Inv, LifecycleInv

(* When error1 frees the struct only known leaks are live.                 *)
LEMMA ErrorEndStep ==
    ASSUME Inv, ErrorEnd PROVE Inv'
<1>1. TypeOK'
  <2>1. call.cam \in Cams
    BY DEF Inv, LifecycleInv, TypeOK, CallInv, ErrorEnd
  <2>2. /\ lost' \subseteq Resources
        /\ alloc' \subseteq Cams
        /\ stale' \subseteq Slots
    BY <2>1 DEF Inv, TypeOK, ErrorEnd
  <2>. QED BY <2>2, Lengths DEF Inv, TypeOK, ErrorEnd, Idle, Ops
<1>2. SettledInv'
  BY ConstantsAssumption DEF Inv, LifecycleInv, TypeOK, SettledInv, Settled,
     Idle, ErrorEnd
<1>3. FreedInv'
  BY ConstantsAssumption, Lengths, RemainingStep DEF Inv, LifecycleInv,
     TypeOK, SettledInv, FreedInv, NewInv, ErrorInv, FreeInv, CallInv,
     SlotInv, OnlyKnownLeaks, Settled, RegistryLive, Idle, ErrorEnd
<1>4. NewInv'
  BY DEF Inv, LifecycleInv, TypeOK, NewInv, Idle, ErrorEnd
<1>5. ErrorInv'
  BY DEF Inv, LifecycleInv, TypeOK, ErrorInv, Idle, ErrorEnd
<1>6. FreeInv'
  BY DEF Inv, LifecycleInv, TypeOK, FreeInv, Idle, ErrorEnd
<1>7. CallInv'
  BY ConstantsAssumption DEF Inv, LifecycleInv, TypeOK, CallInv, Idle,
     ErrorEnd
<1>8. SlotInv'
  BY ConstantsAssumption DEF Inv, LifecycleInv, TypeOK, SlotInv,
     RegistryLive, Idle, ErrorEnd
<1>9. OnlyKnownLeaks'
  BY Lengths, RemainingStep DEF Inv, LifecycleInv, TypeOK, SettledInv,
     FreedInv, NewInv, ErrorInv, FreeInv, CallInv, SlotInv, OnlyKnownLeaks,
     Settled, RegistryLive, Idle, ErrorEnd
<1>. QED
  BY <1>1, <1>2, <1>3, <1>4, <1>5, <1>6, <1>7, <1>8, <1>9
     DEF Inv, LifecycleInv

(* al_camera_free leaves its slot, if it has one.                          *)
LEMMA FreeSlotStep ==
    ASSUME Inv, FreeSlot PROVE Inv'
<1>1. TypeOK'
  BY ConstantsAssumption, Lengths DEF Inv, LifecycleInv, TypeOK, CallInv, Ops,
     camvars, Cleared, FreeSlot
<1>2. SettledInv'
  BY ConstantsAssumption DEF Inv, LifecycleInv, TypeOK, SettledInv, Settled,
     camvars, Cleared, FreeSlot
<1>3. FreedInv'
  BY ConstantsAssumption DEF Inv, LifecycleInv, TypeOK, FreedInv, camvars,
     Cleared, FreeSlot
<1>4. NewInv'
  BY DEF Inv, LifecycleInv, TypeOK, NewInv, camvars, Cleared, FreeSlot
<1>5. ErrorInv'
  BY DEF Inv, LifecycleInv, TypeOK, ErrorInv, camvars, Cleared, FreeSlot
<1>6. FreeInv'
  BY Lengths, ReleasedStep DEF Inv, LifecycleInv, TypeOK, FreeInv, camvars,
     Cleared, FreeSlot
<1>7. CallInv'
  BY ConstantsAssumption DEF Inv, LifecycleInv, TypeOK, CallInv, Idle,
     camvars, Cleared, FreeSlot
<1>8. SlotInv'
  BY ConstantsAssumption DEF Inv, LifecycleInv, TypeOK, SlotInv, CallInv,
     RegistryLive, camvars, Cleared, FreeSlot
<1>9. OnlyKnownLeaks'
  BY DEF Inv, LifecycleInv, TypeOK, OnlyKnownLeaks, camvars, Cleared, FreeSlot
<1>. QED
  BY <1>1, <1>2, <1>3, <1>4, <1>5, <1>6, <1>7, <1>8, <1>9
     DEF Inv, LifecycleInv

(* When al_camera_free frees the struct only known leaks are live.         *)
LEMMA FreeEndStep ==
    ASSUME Inv, FreeEnd PROVE Inv'
<1>1. TypeOK'
  BY ConstantsAssumption DEF Inv, LifecycleInv, TypeOK, CallInv, Ops, Idle,
     FreeEnd
<1>2. SettledInv'
  BY ConstantsAssumption DEF Inv, LifecycleInv, TypeOK, SettledInv, Settled,
     Idle, FreeEnd
<1>3. FreedInv'
  BY ConstantsAssumption, Lengths, ReleasedStep DEF Inv, LifecycleInv,
     TypeOK, SettledInv, FreedInv, NewInv, ErrorInv, FreeInv, CallInv,
     SlotInv, OnlyKnownLeaks, Settled, RegistryLive, KnownLeaks, Idle,
     FreeEnd
<1>4. NewInv'
  BY DEF Inv, LifecycleInv, TypeOK, NewInv, Idle, FreeEnd
<1>5. ErrorInv'
  BY DEF Inv, LifecycleInv, TypeOK, ErrorInv, Idle, FreeEnd
<1>6. FreeInv'
  BY DEF Inv, LifecycleInv, TypeOK, FreeInv, Idle, FreeEnd
<1>7. CallInv'
  BY ConstantsAssumption DEF Inv, LifecycleInv, TypeOK, CallInv, Idle,
     FreeEnd
<1>8. SlotInv'
  BY ConstantsAssumption DEF Inv, LifecycleInv, TypeOK, SlotInv,
     RegistryLive, Idle, FreeEnd
<1>9. OnlyKnownLeaks'
  <2>1. /\ call.cam \in Cams
        /\ fields[call.cam] \subseteq Fields
        /\ fields[call.cam] \cap Released(15) = {}
        /\ live[call.cam] \subseteq fields[call.cam] \cup Unnamed
    BY Lengths DEF Inv, LifecycleInv, TypeOK, CallInv, FreeEnd, FreeInv
  <2>2. live[call.cam] \subseteq Unnamed
    BY <2>1, ReleasedStep
  <2>. QED BY <2>2 DEF FreeEnd, OnlyKnownLeaks, Inv, LifecycleInv, KnownLeaks
<1>. QED
  BY <1>1, <1>2, <1>3, <1>4, <1>5, <1>6, <1>7, <1>8, <1>9
     DEF Inv, LifecycleInv

(* The capture callbacks belong to a whole camera.                         *)
LEMMA StartBeginStep ==
    ASSUME Inv, NEW c \in Cams, StartBegin(c) PROVE Inv'
<1>1. TypeOK'
  BY ConstantsAssumption, FieldNames DEF Inv, LifecycleInv, TypeOK, Ops,
     Resources, Idle, Step, StartBegin
<1>2. SettledInv'
  BY ConstantsAssumption DEF Inv, LifecycleInv, TypeOK, SettledInv, Settled,
     Idle, Step, StartBegin
<1>3. FreedInv'
  BY ConstantsAssumption DEF Inv, LifecycleInv, TypeOK, FreedInv, Idle,
     Step, StartBegin
<1>4. NewInv'
  BY DEF Inv, LifecycleInv, TypeOK, NewInv, Idle, Step, StartBegin
<1>5. ErrorInv'
  BY DEF Inv, LifecycleInv, TypeOK, ErrorInv, Idle, Step, StartBegin
<1>6. FreeInv'
  BY DEF Inv, LifecycleInv, TypeOK, FreeInv, Idle, Step, StartBegin
<1>7. CallInv'
  BY ConstantsAssumption DEF Inv, LifecycleInv, TypeOK, CallInv, Idle, Step,
     StartBegin
<1>8. SlotInv'
  BY ConstantsAssumption DEF Inv, LifecycleInv, TypeOK, SlotInv,
     RegistryLive, Idle, Step, StartBegin
<1>9. OnlyKnownLeaks'
  BY DEF Inv, LifecycleInv, TypeOK, OnlyKnownLeaks, Idle, Step, StartBegin
<1>. QED
  BY <1>1, <1>2, <1>3, <1>4, <1>5, <1>6, <1>7, <1>8, <1>9
     DEF Inv, LifecycleInv

(* A request repeats only on a camera that is built.                       *)
LEMMA SetRepeatingRequestStep ==
    ASSUME Inv, SetRepeatingRequest PROVE Inv'
<1>1. TypeOK'
  <2>1. call.cam \in Cams
    BY ConstantsAssumption
       DEF Inv, LifecycleInv, TypeOK, CallInv, SetRepeatingRequest
  <2>2. handler' \in [st : {"none", "cleanup", "stop", "halt", "dead",
                            "crashed"},
                      next : 0 .. N_CAMERAS, cam : Cams \cup {None},
                      open : BOOLEAN, elsewhere : BOOLEAN,
                      begun : SUBSET Cams]
        /\ handler'.st = handler.st /\ handler'.next = handler.next
        /\ handler'.cam = handler.cam
    BY <2>1 DEF Inv, TypeOK, SetRepeatingRequest
  <2>3. repeating' \in [Cams -> {"never", "on", "off"}]
    BY DEF Inv, TypeOK, SetRepeatingRequest
  <2>4. call' \in [op : Ops, cam : Cams \cup {None},
                   pc : 0 .. Len(FreeOrder) + 2]
    <3>1. 2 \in 0 .. Len(FreeOrder) + 2
      BY Lengths
    <3>2. call \in [op : Ops, cam : Cams \cup {None},
                    pc : 0 .. Len(FreeOrder) + 2]
      BY DEF Inv, TypeOK
    <3>. QED BY <3>1, <3>2 DEF SetRepeatingRequest
  <2>. QED BY <2>2, <2>3, <2>4 DEF Inv, TypeOK, SetRepeatingRequest
<1>2. SettledInv'
  BY ConstantsAssumption DEF Inv, LifecycleInv, TypeOK, SettledInv, Settled,
     SetRepeatingRequest
<1>3. FreedInv'
  BY ConstantsAssumption DEF Inv, LifecycleInv, TypeOK, FreedInv,
     SetRepeatingRequest
<1>4. NewInv'
  BY DEF Inv, LifecycleInv, TypeOK, NewInv, SetRepeatingRequest
<1>5. ErrorInv'
  BY DEF Inv, LifecycleInv, TypeOK, ErrorInv, SetRepeatingRequest
<1>6. FreeInv'
  BY DEF Inv, LifecycleInv, TypeOK, FreeInv, SetRepeatingRequest
<1>7. CallInv'
  BY ConstantsAssumption DEF Inv, LifecycleInv, TypeOK, CallInv, Idle,
     SetRepeatingRequest
<1>8. SlotInv'
  BY ConstantsAssumption DEF Inv, LifecycleInv, TypeOK, SlotInv,
     RegistryLive, SetRepeatingRequest
<1>9. OnlyKnownLeaks'
  BY DEF Inv, LifecycleInv, TypeOK, OnlyKnownLeaks, SetRepeatingRequest
<1>. QED
  BY <1>1, <1>2, <1>3, <1>4, <1>5, <1>6, <1>7, <1>8, <1>9
     DEF Inv, LifecycleInv

(* A failed start takes the capture callbacks back, and nothing else.      *)
LEMMA StartFailsStep ==
    ASSUME Inv, StartFails PROVE Inv'
<1>1. TypeOK'
  BY ConstantsAssumption DEF Inv, LifecycleInv, TypeOK, CallInv, Ops, Idle,
     Without, StartFails
<1>2. SettledInv'
  BY ConstantsAssumption, FieldsValue DEF Inv, LifecycleInv, TypeOK,
     SettledInv, Settled, Complete, Obtained, Stages, Idle, Without, StartFails
<1>3. FreedInv'
  BY ConstantsAssumption DEF Inv, LifecycleInv, TypeOK, FreedInv, Idle,
     Without, StartFails
<1>4. NewInv'
  BY DEF Inv, LifecycleInv, TypeOK, NewInv, Idle, Without, StartFails
<1>5. ErrorInv'
  BY DEF Inv, LifecycleInv, TypeOK, ErrorInv, Idle, Without, StartFails
<1>6. FreeInv'
  BY DEF Inv, LifecycleInv, TypeOK, FreeInv, Idle, Without, StartFails
<1>7. CallInv'
  BY ConstantsAssumption DEF Inv, LifecycleInv, TypeOK, CallInv, Idle,
     Without, StartFails
<1>8. SlotInv'
  BY ConstantsAssumption DEF Inv, LifecycleInv, TypeOK, SlotInv,
     RegistryLive, Idle, Without, StartFails
<1>9. OnlyKnownLeaks'
  BY DEF Inv, LifecycleInv, TypeOK, OnlyKnownLeaks, Idle, Without, StartFails
<1>. QED
  BY <1>1, <1>2, <1>3, <1>4, <1>5, <1>6, <1>7, <1>8, <1>9
     DEF Inv, LifecycleInv

(* The last store of al_camera_start touches no resource.                  *)
LEMMA StartEndStep ==
    ASSUME Inv, StartEnd PROVE Inv'
BY ConstantsAssumption DEF Inv, LifecycleInv, TypeOK, SettledInv, FreedInv,
   NewInv, ErrorInv, FreeInv, CallInv, SlotInv, OnlyKnownLeaks, Settled,
   RegistryLive, Ops, Idle, StartEnd

(* Nor does the first one of al_camera_stop.                               *)
LEMMA StopBeginStep ==
    ASSUME Inv, NEW c \in Cams, StopBegin(c) PROVE Inv'
BY ConstantsAssumption DEF Inv, LifecycleInv, TypeOK, SettledInv, FreedInv,
   NewInv, ErrorInv, FreeInv, CallInv, SlotInv, OnlyKnownLeaks, Settled,
   RegistryLive, Ops, Idle, Step, StopBegin

(* stopRepeating gives nothing back.                                       *)
LEMMA StopRepeatingStep ==
    ASSUME Inv, StopRepeating PROVE Inv'
BY ConstantsAssumption DEF Inv, LifecycleInv, TypeOK, SettledInv, FreedInv,
   NewInv, ErrorInv, FreeInv, CallInv, SlotInv, OnlyKnownLeaks, Settled,
   RegistryLive, Ops, Idle, Halted, StopRepeating

(* The callback allocates buffers for a camera that is allocated.          *)
LEMMA OnImageAvailableStep ==
    ASSUME Inv, NEW c \in Cams, OnImageAvailable(c) PROVE Inv'
<1>1. TypeOK'
  BY ConstantsAssumption, FieldNames DEF Inv, LifecycleInv, TypeOK, Ops,
     Resources, OnImageAvailable
<1>2. SettledInv'
  BY ConstantsAssumption DEF Inv, LifecycleInv, TypeOK, SettledInv, Settled,
     OnImageAvailable
<1>3. FreedInv'
  BY ConstantsAssumption DEF Inv, LifecycleInv, TypeOK, FreedInv,
     KnownLeaks, Unnamed, OnImageAvailable
<1>4. NewInv'
  BY DEF Inv, LifecycleInv, TypeOK, NewInv, CallInv, OnImageAvailable
<1>5. ErrorInv'
  BY DEF Inv, LifecycleInv, TypeOK, ErrorInv, CallInv, OnImageAvailable
<1>6. FreeInv'
  BY Lengths, ImagesAfterReader, FieldsApart, FieldNames DEF Inv,
     LifecycleInv, TypeOK, FreeInv, OnImageAvailable
<1>7. CallInv'
  BY ConstantsAssumption DEF Inv, LifecycleInv, TypeOK, CallInv, Idle,
     OnImageAvailable
<1>8. SlotInv'
  BY ConstantsAssumption DEF Inv, LifecycleInv, TypeOK, SlotInv,
     RegistryLive, OnImageAvailable
<1>9. OnlyKnownLeaks'
  BY DEF Inv, LifecycleInv, TypeOK, OnlyKnownLeaks, OnImageAvailable
<1>. QED
  BY <1>1, <1>2, <1>3, <1>4, <1>5, <1>6, <1>7, <1>8, <1>9
     DEF Inv, LifecycleInv

(* The handler begins.                                                     *)
LEMMA SignalStep ==
    ASSUME Inv, Signal PROVE Inv'
<1>1. handler'.st = "cleanup" /\ handler'.next = 0
  BY DEF Signal, NoSignal, FirstSlot
<1>2. handler' \in [st : {"none", "cleanup", "stop", "halt", "dead",
                          "crashed"},
                    next : 0 .. N_CAMERAS, cam : Cams \cup {None},
                    open : BOOLEAN, elsewhere : BOOLEAN, begun : SUBSET Cams]
  <2>1. PICK e \in Elsewhere :
            handler' = [NoSignal EXCEPT !.st = "cleanup", !.next = FirstSlot,
                                        !.elsewhere = e]
    BY DEF Signal
  <2>2. e \in BOOLEAN /\ 0 \in 0 .. N_CAMERAS
    BY ConstantsAssumption
  <2>. QED BY <2>1, <2>2 DEF NoSignal, FirstSlot
<1>3. TypeOK'
  BY <1>1, <1>2 DEF Inv, TypeOK, camvars, Signal
<1>4. LifecycleInv'
  BY DEF Inv, LifecycleInv, SettledInv, FreedInv, NewInv, ErrorInv, FreeInv,
         CallInv, SlotInv, OnlyKnownLeaks, Settled, RegistryLive, Idle,
         camvars, Signal
<1>. QED BY <1>3, <1>4 DEF Inv

(* The handler goes on to the next slot.                                   *)
LEMMA PassedType ==
    ASSUME TypeOK, handler.next \in Slots
    PROVE  /\ Passed \in [st : {"none", "cleanup", "stop", "halt", "dead",
                               "crashed"},
                         next : 0 .. N_CAMERAS, cam : Cams \cup {None},
                         open : BOOLEAN, elsewhere : BOOLEAN,
                         begun : SUBSET Cams]
           /\ Passed.st = "cleanup"
<1>1. handler.next + 1 \in 0 .. N_CAMERAS
  BY ConstantsAssumption DEF Slots
<1>. QED BY <1>1 DEF TypeOK, Passed

(* It loads a slot.                                                        *)
LEMMA CleanupSlotStep ==
    ASSUME Inv, CleanupSlot PROVE Inv'
<1>1. CASE cameras[handler.next] = None
  <2>1. handler' = Passed
    BY <1>1 DEF CleanupSlot
  <2>. QED
    BY <2>1, PassedType
       DEF Inv, TypeOK, CleanupSlot, LifecycleInv, SettledInv, FreedInv,
           NewInv, ErrorInv, FreeInv, CallInv, SlotInv, OnlyKnownLeaks,
           Settled, RegistryLive, Idle, camvars
<1>2. CASE cameras[handler.next] # None
  <2>1. handler.next \in Slots /\ cameras[handler.next] \in Cams
    BY <1>2 DEF CleanupSlot, Inv, TypeOK
  <2>2. handler' = [handler EXCEPT !.st = "stop",
                                   !.cam = cameras[handler.next]]
    BY <1>2 DEF CleanupSlot
  <2>3. TypeOK'
    BY <2>1, <2>2 DEF Inv, TypeOK, CleanupSlot, camvars
  <2>4. LifecycleInv'
    BY DEF Inv, CleanupSlot, LifecycleInv, SettledInv, FreedInv, NewInv,
           ErrorInv, FreeInv, CallInv, SlotInv, OnlyKnownLeaks, Settled,
           RegistryLive, Idle, camvars
  <2>. QED BY <2>3, <2>4 DEF Inv
<1>. QED BY <1>1, <1>2

(* It sets cam->stop, which nothing else rests on.                         *)
LEMMA CleanupStopStep ==
    ASSUME Inv, CleanupStop PROVE Inv'
<1>1. handler.next \in Slots /\ handler.cam \in Cams
  BY DEF CleanupStop, Inv, TypeOK
<1>2. stop' \in [Cams -> BOOLEAN]
  BY DEF Inv, TypeOK, CleanupStop
<1>3. \/ handler' = Passed
      \/ handler' = [handler EXCEPT !.st = "halt",
                                    !.open = "session" \in live[handler.cam]]
  BY DEF CleanupStop
<1>4. /\ handler' \in [st : {"none", "cleanup", "stop", "halt", "dead",
                             "crashed"},
                       next : 0 .. N_CAMERAS, cam : Cams \cup {None},
                       open : BOOLEAN, elsewhere : BOOLEAN,
                       begun : SUBSET Cams]
      /\ handler'.st \in {"stop", "halt"} =>
             handler'.next \in Slots /\ handler'.cam \in Cams
  <2>1. CASE handler' = Passed
    BY <1>1, <2>1, PassedType DEF Inv
  <2>2. CASE handler' = [handler EXCEPT !.st = "halt",
                               !.open = "session" \in live[handler.cam]]
    <3>1. ("session" \in live[handler.cam]) \in BOOLEAN
      OBVIOUS
    <3>. QED BY <1>1, <2>2, <3>1 DEF Inv, TypeOK
  <2>. QED BY <1>3, <2>1, <2>2
<1>5. TypeOK'
  BY <1>2, <1>4 DEF Inv, TypeOK, CleanupStop
<1>6. LifecycleInv'
  BY DEF Inv, CleanupStop, LifecycleInv, SettledInv, FreedInv, NewInv,
         ErrorInv, FreeInv, CallInv, SlotInv, OnlyKnownLeaks, Settled,
         RegistryLive, Idle
<1>. QED BY <1>5, <1>6 DEF Inv

(* It halts one camera, and gives nothing back.                            *)
LEMMA CleanupHaltStep ==
    ASSUME Inv, CleanupHalt PROVE Inv'
<1>1. /\ repeating' \in [Cams -> {"never", "on", "off"}]
      /\ \A c \in Cams : repeating[c] = "never" => repeating'[c] = "never"
  BY DEF Inv, TypeOK, CleanupHalt, Halted
<1>2. handler.next \in Slots /\ handler' = Passed
  BY DEF CleanupHalt, Inv, TypeOK
<1>3. TypeOK'
  BY <1>1, <1>2, PassedType DEF Inv, TypeOK, CleanupHalt
<1>4. LifecycleInv'
  BY <1>1
     DEF Inv, LifecycleInv, TypeOK, SettledInv, FreedInv, NewInv, ErrorInv,
         FreeInv, CallInv, SlotInv, OnlyKnownLeaks, Settled, RegistryLive,
         Idle, CleanupHalt
<1>. QED BY <1>3, <1>4 DEF Inv

(* A crash changes nothing else.                                           *)
LEMMA CleanupCrashesStep ==
    ASSUME Inv, CleanupCrashes PROVE Inv'
BY ConstantsAssumption DEF Inv, LifecycleInv, TypeOK, SettledInv, FreedInv,
   NewInv, ErrorInv, FreeInv, CallInv, SlotInv, OnlyKnownLeaks, Settled,
   RegistryLive, Ops, camvars, CleanupCrashes

(* Nor does the end of the handler.                                        *)
LEMMA CleanupEndStep ==
    ASSUME Inv, CleanupEnd PROVE Inv'
BY ConstantsAssumption DEF Inv, LifecycleInv, TypeOK, SettledInv, FreedInv,
   NewInv, ErrorInv, FreeInv, CallInv, SlotInv, OnlyKnownLeaks, Settled,
   RegistryLive, Ops, camvars, CleanupEnd

(* A step that changes nothing.                                            *)
LEMMA StutterStep == ASSUME Inv, UNCHANGED vars PROVE Inv'
BY DEF Inv, TypeOK, LifecycleInv, SettledInv, Settled, FreedInv, NewInv,
       ErrorInv, FreeInv, CallInv, SlotInv, RegistryLive, OnlyKnownLeaks,
       Idle, vars, camvars

-----------------------------------------------------------------------------
(* The theorems                                                            *)

(* The initial states satisfy the invariant: nothing is allocated.         *)
LEMMA InitInv == Init => Inv
<1>. SUFFICES ASSUME Init PROVE Inv
  OBVIOUS
<1>1. TypeOK
  <2>1. (CHOOSE i \in Indices : TRUE) \in Indices
    BY ConstantsAssumption
  <2>. QED
    BY <2>1, ConstantsAssumption, Lengths
       DEF Init, TypeOK, Idle, NoSignal, Ops
<1>2. LifecycleInv
  BY ConstantsAssumption DEF Init, LifecycleInv, SettledInv, FreedInv, NewInv,
     ErrorInv, FreeInv, CallInv, SlotInv, RegistryLive, OnlyKnownLeaks, Idle
<1>. QED BY <1>1, <1>2 DEF Inv

(* Every step of the client, of the handler or of the image-reader thread  *)
(* keeps it.                                                               *)
LEMMA NextInv == Inv /\ [Next]_vars => Inv'
<1>. SUFFICES ASSUME Inv, [Next]_vars PROVE Inv'
  OBVIOUS
<1>1. CASE New
  BY <1>1, NewBeginStep, AcquireStep, AcquireFailsStep DEF New
<1>2. CASE GiveBack
  BY <1>2, FreeBeginStep, ReleaseStep, StoreNullStep, ErrorEndStep,
     FreeSlotStep, FreeEndStep DEF GiveBack
<1>3. CASE StartStop
  BY <1>3, StartBeginStep, StopBeginStep, SetRepeatingRequestStep,
     StartFailsStep, StartEndStep, StopRepeatingStep DEF StartStop
<1>4. CASE Handler
  BY <1>4, SignalStep, CleanupSlotStep, CleanupStopStep, CleanupHaltStep,
     CleanupCrashesStep, CleanupEndStep DEF Handler
<1>5. CASE \E c \in Cams : OnImageAvailable(c)
  BY <1>5, OnImageAvailableStep
<1>6. CASE UNCHANGED vars
  BY <1>6, StutterStep
<1>. QED
  BY <1>1, <1>2, <1>3, <1>4, <1>5, <1>6 DEF Next, Client, Exited

(* The inductive invariant holds in every reachable state.                 *)
THEOREM Invariance == Spec => []Inv
<1>. QED BY InitInv, NextInv, PTL DEF Spec

(* Every variable keeps its type; the registry keeps its bounds.           *)
THEOREM TypeCorrect == Spec => []TypeOK
<1>1. Inv => TypeOK
  BY DEF Inv
<1>. QED BY <1>1, Invariance, PTL

(* al_camera_new is all or nothing, whatever calls of the platform fail.   *)
THEOREM CamerasComplete == Spec => []AllOrNothing
<1>1. Inv => AllOrNothing
  BY ConstantsAssumption
     DEF Inv, TypeOK, LifecycleInv, SettledInv, Settled, CallInv, Idle,
         AllOrNothing
<1>. QED BY <1>1, Invariance, PTL

(* Nothing a camera pointed to is lost, whatever path frees the camera,    *)
(* but for the four objects of KnownLeaks.                                 *)
THEOREM LeaksBounded == Spec => []OnlyKnownLeaks
<1>1. Inv => OnlyKnownLeaks
  BY DEF Inv, LifecycleInv
<1>. QED BY <1>1, Invariance, PTL

(* The error labels release only what was acquired, and only once.         *)
THEOREM ReleasesOwned == Spec => []ReleaseOwned
<1>1. Inv => ReleaseOwned
  <2>. SUFFICES ASSUME Inv, call.op = "error", call.pc <= Len(ErrorOrder)
                PROVE  ErrorOrder[call.pc] \in live[call.cam]
    BY DEF ReleaseOwned
  <2>1. /\ call.pc \in 1 .. 10
        /\ fields[call.cam] = Remaining(call.pc)
        /\ fields[call.cam] \subseteq live[call.cam]
    BY Lengths DEF Inv, LifecycleInv, ErrorInv
  <2>. QED BY <2>1, RemainingStep
<1>. QED BY <1>1, Invariance, PTL

(* A slot that is not NULL names a live camera, but for the slots of       *)
(* failed openings.                                                        *)
THEOREM RegistrySound == Spec => []RegistryLive
<1>1. Inv => RegistryLive
  BY DEF Inv, LifecycleInv, SlotInv
<1>. QED BY <1>1, Invariance, PTL

(* On either path an object goes after those built on it.                  *)
LEMMA ErrorDepends ==
    \A p \in 1 .. 10 : \A d \in Depends :
        ErrorOrder[p] = d[2] => d[1] \notin Remaining(p) \cup KnownLeaks
<1>. SUFFICES ASSUME NEW p \in 1 .. 10, NEW d \in Depends,
                     ErrorOrder[p] = d[2]
              PROVE  d[1] \notin Remaining(p) /\ d[1] \notin KnownLeaks
  OBVIOUS
<1>1. d[1] \notin KnownLeaks
  BY DEF Depends, KnownLeaks, Unnamed
<1>2. \A q \in 1 .. 10 : ErrorOrder[q] = d[1] => q < p
  BY DEF Depends, ErrorOrder
<1>. QED BY <1>1, <1>2, Lengths DEF Remaining

(* al_camera_free has released whatever depends on a resource before it.   *)
LEMMA FreeDepends ==
    \A p \in 1 .. 13 : \A d \in Depends :
        FreeOrder[p] = d[2] => d[1] \in Released(p) /\ d[1] \notin Unnamed
<1>. SUFFICES ASSUME NEW p \in 1 .. 13, NEW d \in Depends,
                     FreeOrder[p] = d[2]
              PROVE  d[1] \in Released(p) /\ d[1] \notin Unnamed
  OBVIOUS
<1>1. d[1] \notin Unnamed
  BY DEF Depends, Unnamed
<1>2. \E q \in 1 .. 13 : FreeOrder[q] = d[1] /\ q < p
  <2>1. /\ FreeOrder[1] = "request" /\ FreeOrder[3] = "session"
        /\ FreeOrder[5] = "reader" /\ FreeOrder[9] = "device"
        /\ FreeOrder[12] = "manager"
    BY DEF FreeOrder
  <2>2. \/ (d[1] = "request" /\ 1 < p)
        \/ (d[1] = "session" /\ 3 < p)
        \/ (d[1] = "reader" /\ 5 < p)
        \/ (d[1] = "device" /\ 9 < p)
        \/ (d[1] = "manager" /\ 12 < p)
    BY DEF Depends, FreeOrder
  <2>. QED BY <2>1, <2>2
<1>3. DOMAIN FreeOrder = 1 .. 13
  BY DEF FreeOrder
<1>. QED BY <1>1, <1>2, <1>3 DEF Released

(* No path gives back an object while one built on it exists.              *)
THEOREM ReleasesOrdered == Spec => ReleaseOrder
<1>. DEFINE Ordered ==
         \A c \in Cams : \A d \in Depends :
             d[2] \in live[c] \ live'[c] => d[1] \notin live'[c]
<1>1. ASSUME Inv, [Next]_vars PROVE Ordered
  <2>1. CASE \E c \in Cams, i \in Indices : NewBegin(c, i)
    BY <2>1 DEF NewBegin, Inv, TypeOK
  <2>2. CASE Release
    <3>. SUFFICES ASSUME NEW c \in Cams, NEW d \in Depends,
                         d[2] \in live[c], d[2] \notin live'[c]
                  PROVE  d[1] \notin live'[c]
      OBVIOUS
    <3>1. /\ c = call.cam
          /\ Order(call.op)[call.pc] = d[2]
          /\ live'[c] \subseteq live[c]
      BY <2>2 DEF Release, Inv, TypeOK
    <3>2. CASE call.op = "error"
      <4>1. Order(call.op) = ErrorOrder /\ call.pc \in 1 .. 10
        <5>1. Order(call.op) = ErrorOrder
          BY <3>2 DEF Order
        <5>2. call.pc <= 10
          BY <2>2, <5>1, Lengths DEF Release
        <5>. QED
          BY <1>1, <3>2, <5>1, <5>2, Lengths DEF Inv, LifecycleInv, ErrorInv
      <4>2. live[c] \subseteq Remaining(call.pc) \cup KnownLeaks
        BY <1>1, <3>1, <3>2 DEF Inv, LifecycleInv, ErrorInv
      <4>. QED BY <3>1, <4>1, <4>2, ErrorDepends
    <3>3. CASE call.op = "free"
      <4>1. Order(call.op) = FreeOrder /\ call.pc \in 1 .. 13
        <5>1. Order(call.op) = FreeOrder
          BY <3>3 DEF Order
        <5>2. call.pc <= 13
          BY <2>2, <5>1, Lengths DEF Release
        <5>. QED
          BY <1>1, <3>3, <5>1, <5>2, Lengths DEF Inv, LifecycleInv, FreeInv
      <4>2. /\ fields[c] \cap Released(call.pc) = {}
            /\ live[c] \subseteq fields[c] \cup Unnamed
        BY <1>1, <3>1, <3>3 DEF Inv, LifecycleInv, FreeInv
      <4>. QED BY <3>1, <4>1, <4>2, FreeDepends
    <3>. QED BY <2>2, <3>2, <3>3 DEF Release
  <2>3. CASE StartFails
    <3>1. \A d \in Depends : d[2] # "capture_callbacks"
      BY DEF Depends
    <3>. QED BY <2>3, <3>1 DEF StartFails, Without, Inv, TypeOK
  <2>4. CASE \A c \in Cams : live[c] \subseteq live'[c]
    BY <2>4
  <2>5. \/ \E c \in Cams, i \in Indices : NewBegin(c, i)
        \/ Release \/ StartFails
        \/ \A c \in Cams : live[c] \subseteq live'[c]
    <3>1. CASE Client
      BY <1>1, <3>1
         DEF Inv, TypeOK, Client, New, GiveBack, StartStop, Acquire,
             AcquireFails, FreeBegin, StoreNull, ErrorEnd, FreeSlot,
             FreeEnd, StartBegin, StopBegin, SetRepeatingRequest, StartEnd,
             StopRepeating, camvars
    <3>2. CASE Handler
      BY <3>2
         DEF Handler, Signal, CleanupSlot, CleanupStop, CleanupHalt,
             CleanupCrashes, CleanupEnd, camvars
    <3>3. CASE \E c \in Cams : OnImageAvailable(c)
      BY <1>1, <3>3 DEF Inv, TypeOK, OnImageAvailable
    <3>4. CASE UNCHANGED vars
      BY <3>4 DEF vars, camvars
    <3>. QED BY <1>1, <3>1, <3>2, <3>3, <3>4 DEF Next, Exited
  <2>. QED BY <2>1, <2>2, <2>3, <2>4, <2>5
<1>2. Inv /\ [Next]_vars => [Ordered]_vars
  BY <1>1
<1>. QED BY <1>2, Invariance, PTL DEF Spec, ReleaseOrder

(* A handler that suspended the client is still at the slot it loaded, and *)
(* knows whether the session there is open.                                *)
HandlerInv ==
    handler.st \in {"stop", "halt"} /\ ~handler.elsewhere =>
        /\ handler.cam = cameras[handler.next]
        /\ handler.st = "halt" =>
               /\ handler.cam \in alloc
               /\ "session" \in fields[handler.cam]
               /\ handler.open <=> "session" \in live[handler.cam]

(* No step of the client or of the image reader moves the handler.         *)
LEMMA ClientKeepsHandler ==
    ASSUME Inv, Client
    PROVE  /\ handler'.st = handler.st /\ handler'.elsewhere = handler.elsewhere
           /\ handler.st = "none" \/ handler.elsewhere
           /\ handler.st # "crashed"
<1>1. CASE handler' = handler
  BY <1>1 DEF Client
<1>2. CASE Release
  BY <1>2 DEF Release, Seen, Client, Inv, TypeOK
<1>3. CASE SetRepeatingRequest
  BY <1>3 DEF SetRepeatingRequest, Client, Inv, TypeOK
<1>. QED
  BY <1>1, <1>2, <1>3
     DEF Client, New, GiveBack, StartStop, NewBegin, Acquire, AcquireFails,
         FreeBegin, StoreNull, ErrorEnd, FreeSlot, FreeEnd, StartBegin,
         StopBegin, StartFails, StartEnd, StopRepeating

(* HandlerInv holds in every state.                                        *)
LEMMA HandlerInvariance == Spec => []HandlerInv
<1>1. Init => HandlerInv
  BY DEF Init, NoSignal, HandlerInv
<1>2. ASSUME Inv, HandlerInv, [Next]_vars PROVE HandlerInv'
  <2>1. CASE Client
    BY <1>2, <2>1, ClientKeepsHandler DEF HandlerInv
  <2>2. CASE Signal
    BY <2>2 DEF Signal, NoSignal, HandlerInv
  <2>3. CASE CleanupSlot
    BY <1>2, <2>3 DEF CleanupSlot, Passed, HandlerInv, Inv, TypeOK, camvars
  <2>4. CASE CleanupStop
    BY <1>2, <2>4 DEF CleanupStop, Passed, HandlerInv, Inv, TypeOK
  <2>5. CASE CleanupHalt \/ CleanupCrashes \/ CleanupEnd
    BY <1>2, <2>5
       DEF CleanupHalt, CleanupCrashes, CleanupEnd, Passed, HandlerInv, Inv,
           TypeOK
  <2>6. CASE \E c \in Cams : OnImageAvailable(c)
    BY <1>2, <2>6 DEF OnImageAvailable, HandlerInv, Inv, TypeOK
  <2>7. CASE UNCHANGED vars
    BY <1>2, <2>7 DEF vars, camvars, HandlerInv
  <2>. QED
    BY <1>2, <2>1, <2>2, <2>3, <2>4, <2>5, <2>6, <2>7
       DEF Next, Handler, Exited
<1>. QED BY <1>1, <1>2, Invariance, PTL DEF Spec

(* The handler itself faults only where CrashOnlyKnown says.               *)
THEOREM CrashesKnown == Spec => []CrashOnlyKnown
<1>1. Init => CrashOnlyKnown
  BY DEF Init, NoSignal, CrashOnlyKnown
<1>2. ASSUME Inv, HandlerInv, CrashOnlyKnown, [Next]_vars
      PROVE  CrashOnlyKnown'
  <2>1. CASE CleanupCrashes
    <3>. DEFINE i == handler.next  c == handler.cam
    <3>1. /\ i \in Slots /\ c \in Cams
          /\ UNCHANGED << alloc, fields, live, cameras, call, stale >>
          /\ handler'.next = i /\ handler'.cam = c
          /\ handler'.open = handler.open
          /\ handler'.elsewhere = handler.elsewhere
      BY <1>2, <2>1 DEF CleanupCrashes, Inv, TypeOK, camvars
    <3>2. CASE handler.elsewhere
      BY <2>1, <3>1, <3>2 DEF CleanupCrashes, CrashOnlyKnown
    <3>3. ASSUME ~handler.elsewhere, i \notin stale
          PROVE  /\ call.op \in {"error_null", "free_null"}
                 /\ Order(call.op)[call.pc] = "session"
                 /\ call.cam = c
      <4>1. c = cameras[i]
        BY <1>2, <2>1, <3>3 DEF CleanupCrashes, HandlerInv
      <4>2. c \in alloc
        BY <1>2, <3>1, <3>3, <4>1, ConstantsAssumption
           DEF Inv, LifecycleInv, SlotInv, RegistryLive
      <4>3. "session" \in fields[c] /\ "session" \notin live[c]
        BY <1>2, <2>1, <3>3, <4>2 DEF CleanupCrashes, HandlerInv
      <4>4. /\ call.cam = c
            /\ call.op \in {"new", "error", "error_null", "free",
                            "free_null"}
        BY <1>2, <4>2, <4>3 DEF Inv, LifecycleInv, SettledInv, Settled
      <4>5. call.op \in {"error_null", "free_null"}
        BY <1>2, <4>3, <4>4 DEF Inv, LifecycleInv, NewInv, ErrorInv, FreeInv
      <4>6. Order(call.op)[call.pc] = "session"
        <5>1. CASE call.op = "error_null"
          BY <1>2, <4>3, <4>4, <5>1 DEF Inv, LifecycleInv, ErrorInv, Order
        <5>2. CASE call.op = "free_null"
          BY <1>2, <4>3, <4>4, <5>2 DEF Inv, LifecycleInv, FreeInv, Order
        <5>. QED BY <4>5, <5>1, <5>2
      <4>. QED BY <4>4, <4>5, <4>6
    <3>. QED BY <3>1, <3>2, <3>3 DEF CrashOnlyKnown, Order
  <2>2. CASE UNCHANGED vars
    BY <1>2, <2>2 DEF CrashOnlyKnown, vars, camvars, Order
  <2>3. CASE Client
    BY <1>2, <2>3, ClientKeepsHandler DEF CrashOnlyKnown
  <2>4. \/ CleanupCrashes \/ UNCHANGED vars \/ Client
        \/ handler'.st # "crashed"
    BY <1>2
       DEF Inv, TypeOK, Next, Handler, Signal, NoSignal, CleanupSlot,
           CleanupStop, CleanupHalt, Passed, CleanupEnd, Exited,
           OnImageAvailable
  <2>. QED BY <2>1, <2>2, <2>3, <2>4 DEF CrashOnlyKnown
<1>. QED BY <1>1, <1>2, Invariance, HandlerInvariance, PTL DEF Spec

-----------------------------------------------------------------------------
(* CleanupComplete, for a handler on the client thread or beside it: an    *)
(* allocated camera is in its slot (RegisteredInv); one that captures has  *)
(* its session (RunningInv); so a camera that captures and was not started *)
(* since the signal is at a slot the handler has yet to reach, or is the   *)
(* one the handler is about to halt (PassedInv).                           *)


(* Without shared indices every camera is alone in its slot, until         *)
(* al_camera_free has cleared it.                                          *)
RegisteredInv ==
    ~SharesIndex =>
        /\ \A c, d \in alloc : index[c] = index[d] => c = d
        /\ \A c \in alloc : index[c] \in Slots =>
               \/ cameras[index[c]] = c
               \/ call.op = "free" /\ call.pc = 15 /\ call.cam = c

(* A camera that captures has an open session and knows it.                *)
RunningInv ==
    \A c \in alloc :
        repeating[c] = "on" => "session" \in fields[c] /\ "session" \in live[c]

(* A camera the handler still has to halt.                                 *)
ToHalt(c) ==
    c \in alloc /\ index[c] \in Slots /\ repeating[c] = "on"
        /\ c \notin handler.begun

(* It is at a slot to come, or at hand with its session open.              *)
Ahead(c) ==
    /\ handler.st \in {"cleanup", "stop", "halt"}
    /\ handler.next <= index[c]
    /\ handler.st \in {"stop", "halt"} /\ handler.next = index[c]
           => handler.cam = c
    /\ handler.st = "halt" /\ handler.next = index[c] => handler.open

PassedInv ==
    handler.st \in {"cleanup", "stop", "halt", "dead"} /\ ~SharesIndex =>
        \A c \in Cams : ToHalt(c) => Ahead(c)

-----------------------------------------------------------------------------
(* Halting stops one camera and starts none.                               *)
LEMMA HaltedOff ==
    ASSUME TypeOK, NEW c \in Cams, NEW d \in Cams, Halted(c)[d] = "on"
    PROVE  repeating[d] = "on" /\ d # c
BY DEF Halted, TypeOK

(* The camera of a call is one of Cams.                                    *)
LEMMA CallCam == ASSUME Inv, call.op # "idle" PROVE call.cam \in alloc \cap Cams
BY DEF Inv, TypeOK, LifecycleInv, CallInv

(* RunningInv is kept by the steps that give a camera's parts back.        *)
LEMMA RunningGiveBack ==
    ASSUME Inv, RunningInv, GiveBack PROVE RunningInv'
<1>. SUFFICES ASSUME NEW c \in Cams, c \in alloc', repeating'[c] = "on"
              PROVE  "session" \in fields'[c] /\ "session" \in live'[c]
  <2>1. alloc' \subseteq alloc /\ alloc \subseteq Cams
    BY DEF GiveBack, FreeBegin, Release, StoreNull, ErrorEnd, FreeSlot,
           FreeEnd, camvars, Inv, TypeOK
  <2>. QED BY <2>1 DEF RunningInv
<1>1. CASE \E d \in Cams : FreeBegin(d)
  <2>1. PICK d \in Cams : FreeBegin(d)
    BY <1>1
  <2>2. repeating[c] = "on" /\ c \in alloc
    BY <2>1, HaltedOff DEF FreeBegin, Inv
  <2>. QED BY <2>1, <2>2 DEF RunningInv, FreeBegin
<1>2. CASE Release
  <2>. DEFINE r == Order(call.op)[call.pc]
  <2>1. call.cam \in Cams
    BY <1>2, CallCam DEF Release
  <2>2. repeating[c] = "on" /\ c \in alloc
    BY <1>2, <2>1, HaltedOff DEF Release, Inv
  <2>3. "session" \in fields[c] /\ "session" \in live[c]
    BY <2>2 DEF RunningInv
  <2>4. fields' = fields
    BY <1>2 DEF Release
  <2>5. CASE c # call.cam
    BY <1>2, <2>3, <2>4, <2>5 DEF Release, Inv, TypeOK
  <2>6. CASE c = call.cam /\ r # "session"
    BY <1>2, <2>3, <2>4, <2>6 DEF Release, Inv, TypeOK
  <2>7. CASE c = call.cam /\ r = "session"
    <3>1. repeating' = Halted(c)
      BY <1>2, <2>3, <2>7 DEF Release
    <3>. QED BY <3>1, HaltedOff DEF Inv
  <2>. QED BY <2>5, <2>6, <2>7
<1>3. CASE StoreNull
  <2>1. c \in alloc /\ repeating[c] = "on" /\ live' = live
    BY <1>3 DEF StoreNull
  <2>2. "session" \in fields[c] /\ "session" \in live[c]
    BY <2>1 DEF RunningInv
  <2>3. Order(call.op)[call.pc] \notin live[call.cam]
    BY <1>3 DEF StoreNull, Order, Inv, LifecycleInv, ErrorInv, FreeInv
  <2>4. "session" \in fields'[c]
    BY <1>3, <2>2, <2>3 DEF StoreNull, Inv, TypeOK
  <2>. QED BY <2>1, <2>2, <2>4
<1>4. CASE ErrorEnd \/ FreeSlot \/ FreeEnd
  BY <1>4 DEF ErrorEnd, FreeSlot, FreeEnd, camvars, RunningInv
<1>. QED BY <1>1, <1>2, <1>3, <1>4 DEF GiveBack

(* And by every other step.                                                *)
LEMMA RunningStep ==
    ASSUME Inv, RunningInv, [Next]_vars PROVE RunningInv'
<1>1. CASE New
  <2>1. CASE \E c \in Cams, i \in Indices : NewBegin(c, i)
    BY <2>1 DEF NewBegin, RunningInv, Inv, TypeOK
  <2>2. CASE Acquire
    BY <2>2, CallCam DEF Acquire, RunningInv, Inv, TypeOK
  <2>3. CASE AcquireFails
    BY <2>3, CallCam DEF AcquireFails, RunningInv, Inv, TypeOK
  <2>. QED BY <1>1, <2>1, <2>2, <2>3 DEF New
<1>2. CASE GiveBack
  BY <1>2, RunningGiveBack
<1>3. CASE StartStop
  <2>1. CASE \E c \in Cams : StartBegin(c) \/ StopBegin(c)
    BY <2>1 DEF StartBegin, StopBegin, RunningInv, Inv, TypeOK
  <2>2. CASE SetRepeatingRequest
    <3>1. fields[call.cam] \subseteq live[call.cam] /\ call.cam \in Cams
      BY <2>2, CallCam
         DEF SetRepeatingRequest, Inv, LifecycleInv, SettledInv, Settled
    <3>. QED BY <2>2, <3>1 DEF SetRepeatingRequest, RunningInv, Inv, TypeOK
  <2>3. CASE StartFails
    BY <2>3 DEF StartFails, Without, RunningInv, Inv, TypeOK
  <2>4. CASE StartEnd
    BY <2>4 DEF StartEnd, RunningInv
  <2>5. CASE StopRepeating
    <3>1. call.cam \in Cams /\ TypeOK
      BY <2>5, CallCam DEF StopRepeating, Inv
    <3>2. \A c \in Cams : repeating'[c] = "on" => repeating[c] = "on"
      BY <2>5, <3>1, HaltedOff DEF StopRepeating
    <3>. QED BY <2>5, <3>2 DEF StopRepeating, RunningInv, Inv, TypeOK
  <2>. QED BY <1>3, <2>1, <2>2, <2>3, <2>4, <2>5 DEF StartStop
<1>4. CASE Handler
  <2>1. UNCHANGED << alloc, fields, live >>
    BY <1>4 DEF Handler, Signal, CleanupSlot, CleanupStop, CleanupHalt,
                CleanupCrashes, CleanupEnd, camvars
  <2>2. \A c \in Cams : repeating'[c] = "on" => repeating[c] = "on"
    <3>1. CASE CleanupHalt
      <4>1. handler.cam \in Cams /\ TypeOK
        BY <3>1 DEF CleanupHalt, Inv, TypeOK
      <4>. QED BY <3>1, <4>1, HaltedOff DEF CleanupHalt
    <3>. QED BY <1>4, <3>1 DEF Handler, Signal, CleanupSlot, CleanupStop,
                               CleanupCrashes, CleanupEnd, camvars
  <2>. QED BY <2>1, <2>2 DEF RunningInv, Inv, TypeOK
<1>5. CASE \E c \in Cams : OnImageAvailable(c)
  BY <1>5 DEF OnImageAvailable, RunningInv, Inv, TypeOK
<1>6. CASE UNCHANGED vars
  BY <1>6 DEF vars, camvars, RunningInv
<1>. QED
  BY <1>1, <1>2, <1>3, <1>4, <1>5, <1>6 DEF Next, Client, Exited

-----------------------------------------------------------------------------
(* A camera stays in its slot until its struct is about to be freed.       *)
LEMMA RegisteredStep ==
    ASSUME Inv, RegisteredInv, [Next]_vars PROVE RegisteredInv'
<1>. SUFFICES ASSUME ~SharesIndex
              PROVE  /\ \A c, d \in alloc' : index'[c] = index'[d] => c = d
                     /\ \A c \in alloc' : index'[c] \in Slots =>
                            \/ cameras'[index'[c]] = c
                            \/ /\ call'.op = "free" /\ call'.pc = 15
                               /\ call'.cam = c
  BY DEF RegisteredInv
<1>0. /\ \A c, d \in alloc : index[c] = index[d] => c = d
      /\ \A c \in alloc : index[c] \in Slots =>
             \/ cameras[index[c]] = c
             \/ call.op = "free" /\ call.pc = 15 /\ call.cam = c
  BY DEF RegisteredInv
<1>1. CASE \E c \in Cams, i \in Indices : NewBegin(c, i)
  <2>1. PICK c \in Cams, i \in Indices : NewBegin(c, i)
    BY <1>1
  <2>2. /\ \A d \in alloc : index[d] # i /\ index'[d] = index[d]
        /\ index'[c] = i /\ alloc' = alloc \cup {c} /\ c \notin alloc
        /\ call.op = "idle"
    BY <2>1 DEF NewBegin, Idle, Inv, TypeOK
  <2>3. /\ \A d \in alloc : index[d] \in Slots => cameras'[index[d]] = d
        /\ i \in Slots => cameras'[i] = c
    BY <1>0, <2>1, <2>2 DEF NewBegin
  <2>. QED BY <1>0, <2>2, <2>3
<1>2. CASE FreeSlot
  <2>1. /\ call.pc = 14 /\ call.cam \in alloc \cap Cams /\ call.op = "free"
        /\ UNCHANGED << alloc, index >>
        /\ call'.op = "free" /\ call'.pc = 15 /\ call'.cam = call.cam
    BY <1>2, CallCam, Lengths DEF FreeSlot, camvars, Inv, TypeOK
  <2>2. \A c \in alloc \ {call.cam} :
            index[c] \in Slots => cameras'[index[c]] = c
    BY <1>0, <1>2, <2>1 DEF FreeSlot, Cleared
  <2>. QED BY <1>0, <2>1, <2>2
<1>3. CASE ErrorEnd \/ FreeEnd
  <2>1. /\ alloc' = alloc \ {call.cam}
        /\ UNCHANGED << index, cameras >>
    BY <1>3 DEF ErrorEnd, FreeEnd
  <2>. QED BY <1>0, <2>1
<1>4. CASE Acquire \/ AcquireFails \/ StoreNull \/ StartStop
           \/ (\E c \in Cams : FreeBegin(c))
  <2>1. UNCHANGED << alloc, index, cameras >>
    BY <1>4 DEF Acquire, AcquireFails, StoreNull, StartStop, FreeBegin,
                StartBegin, StopBegin, SetRepeatingRequest, StartFails,
                StartEnd, StopRepeating
  <2>2. call.op # "free"
    BY <1>4 DEF Acquire, AcquireFails, StoreNull, StartStop, FreeBegin,
                StartBegin, StopBegin, SetRepeatingRequest, StartFails,
                StartEnd, StopRepeating, Idle
  <2>. QED BY <1>0, <2>1, <2>2
<1>5. CASE Release
  <2>1. UNCHANGED << alloc, index, cameras >>
    BY <1>5 DEF Release
  <2>2. ~(call.op = "free" /\ call.pc = 15)
    <3>1. CASE call.op = "free"
      <4>1. Order(call.op) = FreeOrder
        BY <3>1 DEF Order
      <4>2. call.pc <= 13
        BY <1>5, <4>1, Lengths DEF Release
      <4>. QED BY <4>2
    <3>. QED BY <3>1
  <2>. QED BY <1>0, <2>1, <2>2
<1>6. CASE Handler \/ UNCHANGED vars \/ \E c \in Cams : OnImageAvailable(c)
  <2>1. UNCHANGED << alloc, index, cameras, call >>
    BY <1>6 DEF Handler, Signal, CleanupSlot, CleanupStop, CleanupHalt,
                CleanupCrashes, CleanupEnd, OnImageAvailable, vars, camvars
  <2>. QED BY <1>0, <2>1
<1>. QED
  BY <1>1, <1>2, <1>3, <1>4, <1>5, <1>6
     DEF Next, Client, New, GiveBack, Exited

-----------------------------------------------------------------------------
(* A camera that captures is in its slot: its session is still open.       *)
LEMMA RunningRegistered ==
    ASSUME Inv, RunningInv, RegisteredInv, ~SharesIndex,
           NEW c \in alloc, index[c] \in Slots, repeating[c] = "on"
    PROVE  cameras[index[c]] = c /\ c # None
<1>1. "session" \in fields[c] /\ c \in Cams
  BY DEF RunningInv, Inv, TypeOK
<1>2. ~(call.op = "free" /\ call.pc = 15 /\ call.cam = c)
  <2>1. "session" \in Released(15)
    BY ReleasedStep, FieldNames
  <2>. QED BY <1>1, <2>1 DEF Inv, LifecycleInv, FreeInv
<1>. QED BY <1>1, <1>2, ConstantsAssumption DEF RegisteredInv

(* A step of the client lets no camera fall behind the handler: what it    *)
(* starts is not left to halt, and what it closes no longer captures.      *)
LEMMA PassedClient ==
    ASSUME Inv, RunningInv, PassedInv, Client PROVE PassedInv'
<1>. SUFFICES ASSUME handler'.st \in {"cleanup", "stop", "halt", "dead"},
                     ~SharesIndex, NEW c \in Cams, ToHalt(c)'
              PROVE  Ahead(c)'
  BY DEF PassedInv
<1>1. CASE \E d \in Cams, i \in Indices : NewBegin(d, i)
  BY <1>1 DEF NewBegin, PassedInv, ToHalt, Ahead, Inv, TypeOK
<1>2. CASE Release
  <2>1. call.cam \in Cams
    BY <1>2, CallCam DEF Release
  <2>2. repeating[c] = "on"
    BY <1>2, <2>1, HaltedOff DEF Release, Inv, ToHalt
  <2>3. /\ handler'.st = handler.st /\ handler'.next = handler.next
        /\ handler'.cam = handler.cam /\ handler'.begun = handler.begun
    BY <1>2 DEF Release, Seen, Inv, TypeOK
  <2>4. ToHalt(c)
    BY <1>2, <2>2, <2>3 DEF Release, ToHalt
  <2>5. Ahead(c)
    BY <2>3, <2>4 DEF PassedInv
  <2>6. CASE handler' = handler
    BY <1>2, <2>5, <2>6 DEF Release, Ahead
  <2>7. CASE handler' # handler
    <3>1. /\ Order(call.op)[call.pc] = "session" /\ handler.cam = call.cam
          /\ repeating' = Halted(call.cam)
      BY <1>2, <2>7 DEF Release, Seen
    <3>2. c # handler.cam
      BY <2>1, <3>1, HaltedOff DEF Inv, ToHalt
    <3>3. handler.st = "halt"
      BY <1>2, <2>7 DEF Release, Seen
    <3>. QED BY <1>2, <2>3, <2>5, <3>2, <3>3 DEF Release, Ahead
  <2>. QED BY <2>6, <2>7
<1>3. CASE SetRepeatingRequest
  <2>1. call.cam \in Cams
    BY <1>3, CallCam DEF SetRepeatingRequest
  <2>2. handler' = [handler EXCEPT !.begun = @ \cup {call.cam}]
    BY <1>3 DEF SetRepeatingRequest
  <2>3. /\ handler'.st = handler.st /\ handler'.next = handler.next
        /\ handler'.cam = handler.cam /\ handler'.open = handler.open
        /\ handler'.begun = handler.begun \cup {call.cam}
    BY <2>2 DEF Inv, TypeOK
  <2>4. c # call.cam
    BY <2>3 DEF ToHalt
  <2>5. ToHalt(c)
    BY <1>3, <2>1, <2>3, <2>4 DEF SetRepeatingRequest, ToHalt, Inv, TypeOK
  <2>6. Ahead(c)
    BY <2>3, <2>5 DEF PassedInv
  <2>. QED BY <1>3, <2>3, <2>6 DEF SetRepeatingRequest, Ahead
<1>4. CASE /\ UNCHANGED << handler, index >>
           /\ alloc' \subseteq alloc
           /\ repeating'[c] = "on" => repeating[c] = "on"
  BY <1>4 DEF PassedInv, ToHalt, Ahead
<1>5. CASE Acquire \/ AcquireFails \/ StoreNull \/ ErrorEnd \/ FreeSlot
           \/ FreeEnd \/ StartFails \/ StartEnd
           \/ (\E d \in Cams : StartBegin(d) \/ StopBegin(d))
  BY <1>4, <1>5
     DEF Acquire, AcquireFails, StoreNull, ErrorEnd, FreeSlot, FreeEnd,
         StartFails, StartEnd, StartBegin, StopBegin, camvars
<1>6. CASE StopRepeating \/ \E d \in Cams : FreeBegin(d)
  <2>1. PICK d \in Cams : repeating' = repeating \/ repeating' = Halted(d)
    BY <1>6, CallCam DEF StopRepeating, FreeBegin
  <2>2. repeating'[c] = "on" => repeating[c] = "on"
    BY <2>1, HaltedOff DEF Inv
  <2>. QED BY <1>4, <1>6, <2>2 DEF StopRepeating, FreeBegin
<1>. QED
  BY <1>1, <1>2, <1>3, <1>5, <1>6 DEF Client, New, GiveBack, StartStop

(* The handler passes no slot whose camera it leaves capturing.            *)
LEMMA PassedHandler ==
    ASSUME Inv, RunningInv, RegisteredInv, PassedInv, Handler
    PROVE  PassedInv'
<1>. SUFFICES ASSUME handler'.st \in {"cleanup", "stop", "halt", "dead"},
                     ~SharesIndex, NEW c \in Cams, ToHalt(c)'
              PROVE  Ahead(c)'
  BY DEF PassedInv
<1>0. /\ UNCHANGED << alloc, index, fields, live, cameras >>
      /\ repeating[c] = "on" /\ c \in alloc /\ index[c] \in Slots
  <2>1. UNCHANGED << alloc, index, fields, live, cameras >>
    BY DEF Handler, Signal, CleanupSlot, CleanupStop, CleanupHalt,
           CleanupCrashes, CleanupEnd, camvars
  <2>2. repeating[c] = "on"
    <3>1. CASE CleanupHalt
      <4>1. handler.cam \in Cams /\ TypeOK
        BY <3>1 DEF CleanupHalt, Inv, TypeOK
      <4>. QED BY <3>1, <4>1, HaltedOff DEF CleanupHalt, ToHalt
    <3>. QED BY <3>1 DEF Handler, Signal, CleanupSlot, CleanupStop,
                CleanupCrashes, CleanupEnd, camvars, ToHalt
  <2>. QED BY <2>1, <2>2 DEF ToHalt
<1>1. cameras[index[c]] = c /\ c # None
  BY <1>0, RunningRegistered
<1>2. index[c] \in Nat /\ index[c] < N_CAMERAS
  BY <1>0, ConstantsAssumption DEF Slots
<1>3. CASE Signal
  BY <1>0, <1>2, <1>3
     DEF Signal, NoSignal, FirstSlot, Ahead, camvars
<1>4. ASSUME ~Signal, handler'.begun = handler.begun
      PROVE  Ahead(c)
  BY <1>0, <1>4
     DEF PassedInv, ToHalt, Handler, CleanupSlot, CleanupStop, CleanupHalt,
         CleanupCrashes, CleanupEnd, Inv, TypeOK
<1>5. CASE CleanupSlot
  <2>1. handler.next \in Int /\ handler.st = "cleanup"
    BY <1>5 DEF CleanupSlot, Inv, TypeOK
  <2>2. CASE cameras[handler.next] = None
    <3>1. handler' = Passed /\ handler.next # index[c]
      BY <1>1, <1>5, <2>2 DEF CleanupSlot
    <3>2. /\ handler'.st = "cleanup" /\ handler'.next = handler.next + 1
          /\ handler'.begun = handler.begun
      BY <3>1 DEF Passed, Inv, TypeOK
    <3>3. Ahead(c)
      BY <1>4, <1>5, <2>1, <3>2 DEF Signal
    <3>. QED BY <1>0, <1>2, <2>1, <3>1, <3>2, <3>3 DEF Ahead
  <2>3. CASE cameras[handler.next] # None
    <3>1. /\ handler'.st = "stop" /\ handler'.next = handler.next
          /\ handler'.begun = handler.begun
          /\ handler'.cam = cameras[handler.next]
      BY <1>5, <2>3 DEF CleanupSlot, Inv, TypeOK
    <3>2. Ahead(c)
      BY <1>4, <1>5, <2>1, <3>1 DEF Signal
    <3>. QED BY <1>0, <1>1, <1>2, <2>1, <3>1, <3>2 DEF Ahead
  <2>. QED BY <2>2, <2>3
<1>6. CASE CleanupStop
  <2>1. handler.next \in Int /\ handler.st = "stop"
    BY <1>6 DEF CleanupStop, Inv, TypeOK
  <2>2. "session" \in fields[c] /\ "session" \in live[c]
    BY <1>0 DEF RunningInv
  <2>3. CASE handler' = Passed
    <3>1. handler.cam # c
      BY <1>0, <1>6, <2>2, <2>3 DEF CleanupStop, Passed, Inv, TypeOK
    <3>2. /\ handler'.st = "cleanup" /\ handler'.next = handler.next + 1
          /\ handler'.begun = handler.begun
      BY <2>3 DEF Passed, Inv, TypeOK
    <3>3. Ahead(c)
      BY <1>4, <2>1, <3>2 DEF Signal
    <3>. QED BY <1>0, <1>2, <2>1, <3>1, <3>2, <3>3 DEF Ahead
  <2>4. CASE handler' = [handler EXCEPT !.st = "halt",
                               !.open = "session" \in live[handler.cam]]
    <3>1. /\ handler'.st = "halt" /\ handler'.next = handler.next
          /\ handler'.begun = handler.begun /\ handler'.cam = handler.cam
          /\ handler'.open = ("session" \in live[handler.cam])
      BY <2>4 DEF Inv, TypeOK
    <3>2. Ahead(c)
      BY <1>4, <2>1, <3>1 DEF Signal
    <3>. QED BY <1>0, <2>1, <2>2, <3>1, <3>2 DEF Ahead
  <2>. QED BY <1>6, <2>3, <2>4 DEF CleanupStop
<1>7. CASE CleanupHalt
  <2>1. /\ handler.next \in Int /\ handler.st = "halt"
        /\ handler.cam \in Cams
    BY <1>7 DEF CleanupHalt, Inv, TypeOK
  <2>2. /\ handler'.st = "cleanup" /\ handler'.next = handler.next + 1
        /\ handler'.begun = handler.begun
    BY <1>7 DEF CleanupHalt, Passed, Inv, TypeOK
  <2>3. Ahead(c)
    BY <1>4, <2>1, <2>2 DEF Signal
  <2>4. handler.next # index[c]
    <3>. SUFFICES ASSUME handler.next = index[c] PROVE FALSE
      OBVIOUS
    <3>1. handler.cam = c /\ handler.open
      BY <2>1, <2>3 DEF Ahead
    <3>2. repeating' = Halted(c)
      BY <1>7, <3>1 DEF CleanupHalt
    <3>. QED BY <3>2, HaltedOff DEF Inv, ToHalt
  <2>. QED BY <1>0, <1>2, <2>1, <2>2, <2>3, <2>4 DEF Ahead
<1>8. CASE CleanupCrashes
  BY <1>8 DEF CleanupCrashes, Inv, TypeOK
<1>9. CASE CleanupEnd
  <2>1. handler.st = "cleanup" /\ handler.next \notin Slots
    BY <1>9 DEF CleanupEnd
  <2>2. handler.next \in Nat /\ handler'.begun = handler.begun
    BY <1>9, ConstantsAssumption DEF CleanupEnd, Inv, TypeOK
  <2>3. Ahead(c)
    BY <1>4, <2>1, <2>2 DEF Signal
  <2>4. handler.next \in Slots
    BY <1>2, <2>2, <2>3, ConstantsAssumption DEF Ahead, Slots
  <2>. QED BY <2>1, <2>4
<1>. QED BY <1>3, <1>5, <1>6, <1>7, <1>8, <1>9 DEF Handler

(* No other step touches what PassedInv speaks of.                         *)
LEMMA PassedStep ==
    ASSUME Inv, RunningInv, RegisteredInv, PassedInv, [Next]_vars
    PROVE  PassedInv'
<1>1. CASE UNCHANGED vars \/ \E c \in Cams : OnImageAvailable(c)
  BY <1>1 DEF OnImageAvailable, vars, camvars, PassedInv, ToHalt, Ahead
<1>. QED BY <1>1, PassedClient, PassedHandler DEF Next, Exited

-----------------------------------------------------------------------------
(* The three invariants hold in every state.                               *)
LEMMA CleanupInvariance == Spec => [](RunningInv /\ RegisteredInv /\ PassedInv)
<1>1. Init => RunningInv /\ RegisteredInv /\ PassedInv
  BY DEF Init, NoSignal, RunningInv, RegisteredInv, PassedInv
<1>2. /\ Inv /\ RunningInv /\ RegisteredInv /\ PassedInv /\ [Next]_vars
      => (RunningInv /\ RegisteredInv /\ PassedInv)'
  BY RunningStep, RegisteredStep, PassedStep
<1>. QED BY <1>1, <1>2, Invariance, PTL DEF Spec

(* When the handler hands the signal on, no registered camera captures but *)
(* those started since the signal.                                         *)
THEOREM CleanupsComplete == Spec => []CleanupComplete
<1>1. PassedInv => CleanupComplete \/ ~(alloc \subseteq Cams)
  BY DEF PassedInv, CleanupComplete, ToHalt, Ahead
<1>2. Inv => alloc \subseteq Cams
  BY DEF Inv, TypeOK
<1>. QED BY <1>1, <1>2, Invariance, CleanupInvariance, PTL
=============================================================================
