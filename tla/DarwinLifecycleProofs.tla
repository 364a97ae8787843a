----------------------- MODULE DarwinLifecycleProofs -----------------------
(***************************************************************************)
(* Proofs about DarwinLifecycle, for every set of cameras, every size of   *)
(* the registry and every choice of the stages that may fail.  Inv is      *)
(* inductive: what a camera holds is what the stage of al_camera_new, the  *)
(* label it fell to, or the line of al_camera_free accounts for.           *)
(***************************************************************************)
EXTENDS DarwinLifecycle, FiniteSetTheorems, TLAPS

(* The inductive invariant.                                                *)
Inv == TypeOK /\ LifecycleInv

-----------------------------------------------------------------------------
(* The three lists                                                         *)

(* Their lengths.                                                          *)
LEMMA Lengths ==
    Len(Stages) = 10 /\ Len(ErrorOrder) = 6 /\ Len(FreeOrder) = 8
BY DEF Stages, ErrorOrder, FreeOrder

(* The pointer fields, one by one.                                         *)
LEMMA FieldsValue ==
    /\ Fields = {"sample_buffer", "output_delegate", "output", "queue",
                 "input", "session", "device", "controller", "pixels"}
    /\ Objects = Fields \cup {"available", "preferred"}
<1>1. DOMAIN FreeOrder = 1 .. 8
  BY DEF FreeOrder
<1>. QED
  BY <1>1 DEF Fields, FreeOrder, Objects

(* A count of references is a small number.                                *)
LEMMA Balances ==
    ASSUME Inv, NEW c \in Cams, NEW o \in Objects
    PROVE  balance[c][o] \in -1 .. 2
BY DEF Inv, TypeOK

(* So is what a field that is set stands for.                              *)
LEMMA Counts ==
    \A o \in Fields : Count(o) \in 0 .. 2 /\ Count(o) - 0 = Count(o)
BY FieldsValue DEF Count

(* The fields are objects.                                                 *)
LEMMA FieldObjects == \A o \in Fields : o \in Objects
BY DEF Objects

(* An object that is released once leaves a balance on the list.           *)
LEMMA CountsKnown ==
    \A o \in Fields :
        Count(o) - 1 # 0 => << o, Count(o) - 1 >> \in KnownImbalances
BY FieldsValue DEF Count, KnownImbalances

(* One stage of al_camera_new sets a field it had not set.                 *)
LEMMA HeldStep ==
    /\ Held(1) = {}
    /\ \A k \in 1 .. 10 :
           /\ Held(k + 1) = Held(k) \cup ({Stages[k]} \cap Fields)
           /\ Stages[k] \notin Held(k)
<1>1. \A j, k \in 1 .. 10 : Stages[j] = Stages[k] => j = k
  BY DEF Stages
<1>. QED
  BY <1>1 DEF Held

(* A stage takes the references its field stands for.                      *)
LEMMA StageTook ==
    \A k \in 1 .. 10 :
        /\ Took(Stages[k]) \in [Objects -> -1 .. 2]
        /\ \A o \in Fields :
               Took(Stages[k])[o] = IF o = Stages[k] THEN Count(o) ELSE 0
        /\ Took(Stages[k])["available"] = IF k = 8 THEN -1 ELSE 0
        /\ Took(Stages[k])["preferred"] = IF k = 8 THEN -1 ELSE 0
BY FieldsValue DEF Took, Stages, Count

(* A failing one takes none, but gives back an array it was lent.          *)
LEMMA StageTookFailing ==
    \A k \in 1 .. 10 :
        /\ TookFailing(Stages[k]) \in [Objects -> {-1, 0}]
        /\ \A o \in Fields : TookFailing(Stages[k])[o] = 0
        /\ TookFailing(Stages[k])["available"] = 0
        /\ TookFailing(Stages[k])["preferred"] = IF k = 8 THEN -1 ELSE 0
BY FieldsValue DEF TookFailing, Stages, Zero

(* What al_camera_new has before each stage.                               *)
LEMMA HeldValues ==
    /\ Held(1) = {}
    /\ Held(2) = {"controller"}
    /\ Held(3) = Held(2) \cup {"device"} /\ Held(4) = Held(3)
    /\ Held(5) = Held(4) \cup {"session"}
    /\ Held(6) = Held(5) \cup {"input"} /\ Held(7) = Held(6)
    /\ Held(8) = Held(7) \cup {"queue"}
    /\ Held(9) = Held(8) \cup {"output"} /\ Held(10) = Held(9)
<1>1. /\ Held(1) = {}
      /\ \A k, l \in 1 .. 10 :
             l = k + 1 => Held(l) = Held(k) \cup ({Stages[k]} \cap Fields)
  BY HeldStep
<1>2. /\ {Stages[1]} \cap Fields = {"controller"}
      /\ {Stages[2]} \cap Fields = {"device"}
      /\ {Stages[3]} \cap Fields = {}
      /\ {Stages[4]} \cap Fields = {"session"}
      /\ {Stages[5]} \cap Fields = {"input"}
      /\ {Stages[6]} \cap Fields = {}
      /\ {Stages[7]} \cap Fields = {"queue"}
      /\ {Stages[8]} \cap Fields = {"output"}
      /\ {Stages[9]} \cap Fields = {}
  BY FieldsValue DEF Stages
<1>. QED
  BY <1>1, <1>2

(* One step along the labels.                                              *)
LEMMA RemainingStep ==
    /\ Remaining(7) = {}
    /\ \A p \in 1 .. 6 : /\ Remaining(p + 1) = Remaining(p) \ {ErrorOrder[p]}
                         /\ ErrorOrder[p] \in Remaining(p)
<1>1. \A p, q \in 1 .. 6 : ErrorOrder[p] = ErrorOrder[q] => p = q
  BY DEF ErrorOrder
<1>. QED
  BY <1>1, Lengths DEF Remaining

(* What the labels have left to release, from error1 up.                   *)
LEMMA RemainingValues ==
    /\ Remaining(7) = {}
    /\ Remaining(6) = {"controller"}
    /\ Remaining(5) = Remaining(6) \cup {"device"}
    /\ Remaining(4) = Remaining(5) \cup {"session"}
    /\ Remaining(3) = Remaining(4) \cup {"input"}
    /\ Remaining(2) = Remaining(3) \cup {"queue"}
    /\ Remaining(1) = Remaining(2) \cup {"output"}
<1>1. /\ Remaining(7) = {}
      /\ \A p, q \in 1 .. 7 :
             q = p + 1 => Remaining(p) = Remaining(q) \cup {ErrorOrder[p]}
  BY Lengths DEF Remaining
<1>. QED
  BY <1>1 DEF ErrorOrder

(* The label a failing stage jumps to releases exactly what the stages     *)
(* before it obtained.                                                     *)
LEMMA Labels ==
    \A k \in 1 .. 10 :
        ErrorLabel[k] \in 1 .. 7 /\ Held(k) = Remaining(ErrorLabel[k])
<1>1. \A k \in 1 .. 10 : ErrorLabel[k] \in 1 .. 7
  BY DEF ErrorLabel
<1>2. /\ Held(1) = Remaining(7) /\ Held(2) = Remaining(6)
      /\ Held(3) = Remaining(5) /\ Held(4) = Remaining(5)
      /\ Held(5) = Remaining(4) /\ Held(6) = Remaining(3)
      /\ Held(7) = Remaining(3) /\ Held(8) = Remaining(2)
      /\ Held(9) = Remaining(1) /\ Held(10) = Remaining(1)
  BY HeldValues, RemainingValues
<1>. QED
  BY <1>1, <1>2 DEF ErrorLabel

(* A set meets a singleton in one element or in none.                      *)
LEMMA CardinalityMeet ==
    ASSUME NEW S, NEW x
    PROVE  Cardinality(S \cap {x}) = IF x \in S THEN 1 ELSE 0
<1>1. CASE x \in S
  <2>1. S \cap {x} = {x}
    BY <1>1
  <2>. QED
    BY <1>1, <2>1, FS_Singleton
<1>2. CASE x \notin S
  <2>1. S \cap {x} = {}
    BY <1>2
  <2>. QED
    BY <1>2, <2>1, FS_EmptySet
<1>. QED
  BY <1>1, <1>2

(* After a frame there is one reference to its sample, and one to pixels   *)
(* if the frame left a conversion buffer, whatever there was before.       *)
LEMMA DeliverBalance ==
    ASSUME Inv, NEW c \in Cams, NEW pixels \in SUBSET {"pixels"},
           Deliver(c, pixels)
    PROVE  /\ c # call.cam
           /\ fields' = [fields EXCEPT ![c] =
                  (@ \ {"pixels"}) \cup {"sample_buffer"} \cup pixels]
           /\ balance' = [balance EXCEPT
                  ![c]["sample_buffer"] = 1,
                  ![c]["pixels"] = IF "pixels" \in pixels THEN 1 ELSE 0]
<1>1. /\ "sample_buffer" \in Fields /\ "pixels" \in Fields
      /\ "sample_buffer" \in Objects /\ "pixels" \in Objects
      /\ Count("sample_buffer") = 1 /\ Count("pixels") = 1
  BY FieldsValue DEF Count
<1>2. c # call.cam
  BY DEF Inv, LifecycleInv, CallInv, Deliver
<1>3. \A o \in {"sample_buffer", "pixels"} :
          balance[c][o] = IF o \in fields[c] THEN 1 ELSE 0
  BY <1>1, <1>2 DEF Inv, LifecycleInv, OwnInv, Released
<1>4. /\ Cardinality(Last(c)) = IF "sample_buffer" \in fields[c] THEN 1 ELSE 0
      /\ Cardinality(fields[c] \cap {"pixels"}) =
             IF "pixels" \in fields[c] THEN 1 ELSE 0
      /\ Cardinality(pixels \cap {"pixels"}) =
             IF "pixels" \in pixels THEN 1 ELSE 0
  BY CardinalityMeet DEF Last
<1>5. pixels \cap {"pixels"} = pixels
  OBVIOUS
<1>6. balance[c]["sample_buffer"] + 1 - Cardinality(Last(c)) = 1
  BY <1>3, <1>4
<1>7. balance[c]["pixels"] + Cardinality(pixels)
          - Cardinality(fields[c] \cap {"pixels"})
              = IF "pixels" \in pixels THEN 1 ELSE 0
  BY <1>3, <1>4, <1>5
<1>8. balance' = [balance EXCEPT
          ![c]["sample_buffer"] = 1,
          ![c]["pixels"] = IF "pixels" \in pixels THEN 1 ELSE 0]
  BY <1>1, <1>6, <1>7 DEF Inv, TypeOK, Deliver
<1>. QED
  BY <1>2, <1>8 DEF Deliver

-----------------------------------------------------------------------------
(* Every action keeps the invariant.                                       *)

(* The new struct holds nothing yet, and its slot names it.                *)
LEMMA NewBeginStep ==
    ASSUME Inv, handler = "none", NEW c \in Cams, NEW i \in Indices,
           NewBegin(c, i)
    PROVE  Inv'
<1>1. TypeOK'
  <2>1. call' \in [op : Ops, cam : Cams \cup {None}, pc : 0 .. Len(Stages)]
    BY Lengths DEF NewBegin, Step, Ops
  <2>2. balance' \in [Cams -> [Objects -> -1 .. 2]]
    BY DEF Inv, TypeOK, NewBegin, Zero
  <2>3. cameras' \in [Slots -> Cams \cup {None}]
    BY DEF Inv, TypeOK, NewBegin
  <2>. QED
    BY <2>1, <2>2, <2>3 DEF Inv, TypeOK, NewBegin
<1>2. OwnInv'
  <2>. SUFFICES ASSUME NEW d \in Cams PROVE OwnInv!(d)'
    BY DEF OwnInv
  <2>1. \A o : ~Released(d, o) /\ ~Released(d, o)'
    BY DEF NewBegin, Idle, Step, Released
  <2>2. CASE d = c
    <3>1. fields'[d] = {} /\ balance'[d] = Zero
      BY <2>2 DEF Inv, TypeOK, NewBegin
    <3>. QED
      BY <3>1, FieldsValue DEF Zero
  <2>3. CASE d # c
    <3>1. fields'[d] = fields[d] /\ balance'[d] = balance[d]
      BY <2>3 DEF Inv, TypeOK, NewBegin
    <3>. QED
      BY <3>1, <2>1 DEF Inv, LifecycleInv, OwnInv
  <2>. QED
    BY <2>2, <2>3
<1>3. CallInv'
  BY DarwinLifecycleAssumption, Lengths DEF Inv, LifecycleInv, TypeOK,
     SlotInv, CallInv, Zero, Idle, Step, NewBegin
<1>4. NewInv'
  <2>1. /\ call'.cam = c /\ call'.pc = 1
        /\ fields'[c] = {} /\ balance'[c] = Zero
    BY DEF Inv, TypeOK, NewBegin, Step
  <2>. QED
    BY <2>1, HeldStep, FieldsValue DEF NewInv, Zero
<1>5. ErrorInv'
  BY DEF Inv, LifecycleInv, TypeOK, ErrorInv, Zero, Idle, Step, NewBegin
<1>6. FreeInv'
  BY DEF Inv, LifecycleInv, TypeOK, FreeInv, Zero, Idle, Step, NewBegin
<1>7. SlotInv'
  BY DarwinLifecycleAssumption DEF Inv, LifecycleInv, TypeOK, SlotInv, Zero,
     Idle, Step, NewBegin
<1>8. Balanced'
  BY DEF Inv, LifecycleInv, TypeOK, Balanced, Zero, Idle, Step, NewBegin
<1>9. CrashOnlyKnown'
  BY DEF Inv, LifecycleInv, TypeOK, CrashOnlyKnown, Zero, Idle, Step, NewBegin
<1>. QED
  BY <1>1, <1>2, <1>3, <1>4, <1>5, <1>6, <1>7, <1>8, <1>9
     DEF Inv, LifecycleInv

(* A stage adds its field and the references that go with it.              *)
LEMMA AcquireStep ==
    ASSUME Inv, handler = "none", Acquire
    PROVE  Inv'
<1>1. TypeOK'
  <2>. DEFINE c == call.cam  k == call.pc
  <2>1. c \in alloc /\ c \in Cams /\ k \in 1 .. 10
    BY Lengths DEF Inv, LifecycleInv, TypeOK, CallInv, Acquire
  <2>2. call' \in [op : Ops, cam : Cams \cup {None}, pc : 0 .. Len(Stages)]
    BY <2>1, Lengths DEF Acquire, Step, Idle, Ops
  <2>3. fields' \in [Cams -> SUBSET Fields]
    BY <2>1 DEF Inv, TypeOK, Acquire
  <2>4. balance' \in [Cams -> [Objects -> -1 .. 2]]
    <3>1. Add(balance[c], Took(Stages[k])) \in [Objects -> -1 .. 2]
      <4>. SUFFICES ASSUME NEW o \in Objects
                    PROVE  balance[c][o] + Took(Stages[k])[o] \in -1 .. 2
        BY DEF Add
      <4>1. CASE o \in Fields /\ o = Stages[k]
        <5>1. o \notin fields[c] /\ balance[c][o] = 0
          BY <2>1, <4>1, HeldStep DEF Inv, LifecycleInv, NewInv, Acquire
        <5>. QED
          BY <2>1, <4>1, <5>1, StageTook, Counts
      <4>2. CASE o \in Fields /\ o # Stages[k]
        <5>1. Took(Stages[k])[o] = 0
          BY <2>1, <4>2, StageTook
        <5>2. balance[c][o] \in -1 .. 2
          BY <2>1, Balances
        <5>. QED
          BY <5>1, <5>2
      <4>3. CASE o \in {"available", "preferred"}
        BY <2>1, <4>3, StageTook DEF Inv, LifecycleInv, NewInv, OwnInv, Acquire
      <4>. QED
        BY <4>1, <4>2, <4>3, FieldsValue
    <3>. QED
      BY <2>1, <3>1 DEF Inv, TypeOK, Acquire
  <2>. QED
    BY <2>2, <2>3, <2>4 DEF Inv, TypeOK, Acquire, session
<1>2. OwnInv'
  <2>. DEFINE c == call.cam  k == call.pc
  <2>1. c \in alloc /\ c \in Cams /\ k \in 1 .. 10
    BY Lengths DEF Inv, LifecycleInv, TypeOK, CallInv, Acquire
  <2>. SUFFICES ASSUME NEW d \in Cams PROVE OwnInv!(d)'
    BY DEF OwnInv
  <2>2. \A o : ~Released(d, o) /\ ~Released(d, o)'
    BY DEF Acquire, Idle, Step, Released
  <2>3. CASE d = c
    <3>1. /\ fields[c] = Held(k)
          /\ fields'[c] = Held(k) \cup ({Stages[k]} \cap Fields)
          /\ \A o \in Fields \ Held(k) : balance[c][o] = 0
          /\ k <= 8 => /\ balance[c]["available"] = 0
                       /\ balance[c]["preferred"] = 0
      BY <2>1 DEF Inv, LifecycleInv, TypeOK, NewInv, Acquire
    <3>2. \A o \in Objects :
              balance'[c][o] = balance[c][o] + Took(Stages[k])[o]
      BY <2>1 DEF Inv, TypeOK, Acquire, Add
    <3>3. ASSUME NEW o \in Fields
          PROVE  IF o \in fields'[c] THEN balance'[c][o] = Count(o)
                 ELSE balance'[c][o] \in {0, Count(o) - 1}
      <4>1. o \in Objects /\ Count(o) \in 0 .. 2 /\ balance[c][o] \in -1 .. 2
        BY <2>1, Counts, FieldObjects, Balances
      <4>2. CASE o = Stages[k]
        BY <2>1, <3>1, <3>2, <4>1, <4>2, HeldStep, StageTook
      <4>3. CASE o # Stages[k]
        <5>1. /\ balance'[c][o] = balance[c][o]
              /\ o \in fields'[c] <=> o \in fields[c]
          BY <2>1, <3>1, <3>2, <4>1, <4>3, StageTook
        <5>. QED
          BY <2>1, <2>2, <2>3, <4>1, <5>1 DEF Inv, LifecycleInv, OwnInv
      <4>. QED
        BY <4>2, <4>3
    <3>4. ASSUME NEW o \in {"available", "preferred"}
          PROVE  balance'[c][o] \in {-1, 0}
      <4>1. o \in Objects /\ balance[c][o] \in {-1, 0}
        BY <2>1, FieldsValue DEF Inv, LifecycleInv, OwnInv
      <4>. QED
        BY <2>1, <3>1, <3>2, <4>1, StageTook
    <3>5. \A o \in Fields : Count(o) - 0 = Count(o)
      BY Counts
    <3>. QED
      BY <2>2, <2>3, <3>3, <3>4, <3>5
  <2>4. CASE d # c
    <3>1. fields'[d] = fields[d] /\ balance'[d] = balance[d]
      BY <2>4 DEF Inv, TypeOK, Acquire
    <3>. QED
      BY <3>1, <2>2 DEF Inv, LifecycleInv, OwnInv
  <2>. QED
    BY <2>3, <2>4
<1>3. CallInv'
  BY DarwinLifecycleAssumption DEF Inv, LifecycleInv, TypeOK, CallInv,
     session, Idle, Step, Acquire
<1>4. NewInv'
  <2>. DEFINE c == call.cam  k == call.pc
  <2>1. c \in alloc /\ c \in Cams /\ k \in 1 .. 10
    BY Lengths DEF Inv, LifecycleInv, TypeOK, CallInv, Acquire
  <2>. SUFFICES ASSUME call'.op = "new" PROVE NewInv'
    BY DEF NewInv
  <2>2. k \in 1 .. 9 /\ call'.cam = c /\ call'.pc = k + 1
    BY <2>1, Lengths DEF Acquire, Idle, Step
  <2>3. /\ fields[c] = Held(k)
        /\ \A o \in Fields \ Held(k) : balance[c][o] = 0
        /\ k <= 8 => /\ balance[c]["available"] = 0
                       /\ balance[c]["preferred"] = 0
    BY <2>1 DEF Inv, LifecycleInv, NewInv, Acquire
  <2>4. fields'[c] = Held(k + 1)
    BY <2>1, <2>3, HeldStep DEF Inv, TypeOK, Acquire
  <2>5. \A o \in Objects :
            balance'[c][o] = balance[c][o] + Took(Stages[k])[o]
    BY <2>1 DEF Inv, TypeOK, Acquire, Add
  <2>6. \A o \in Fields \ fields'[c] : balance'[c][o] = 0
    BY <2>1, <2>3, <2>4, <2>5, HeldStep, StageTook DEF Objects
  <2>7. k + 1 <= 8 => /\ balance'[c]["available"] = 0
                      /\ balance'[c]["preferred"] = 0
    BY <2>1, <2>3, <2>5, StageTook, FieldsValue
  <2>. QED
    BY <2>2, <2>4, <2>6, <2>7 DEF NewInv
<1>5. ErrorInv'
  BY DEF Inv, LifecycleInv, TypeOK, ErrorInv, session, Idle, Step, Acquire
<1>6. FreeInv'
  BY DEF Inv, LifecycleInv, TypeOK, FreeInv, session, Idle, Step, Acquire
<1>7. SlotInv'
  BY DarwinLifecycleAssumption DEF Inv, LifecycleInv, TypeOK, SlotInv,
     session, Idle, Step, Acquire
<1>8. Balanced'
  BY DEF Inv, LifecycleInv, TypeOK, Balanced, session, Idle, Step, Acquire
<1>9. CrashOnlyKnown'
  BY DEF Inv, LifecycleInv, TypeOK, CrashOnlyKnown, session, Idle, Step,
     Acquire
<1>. QED
  BY <1>1, <1>2, <1>3, <1>4, <1>5, <1>6, <1>7, <1>8, <1>9
     DEF Inv, LifecycleInv

(* The label of a failing stage has to release just what was obtained by   *)
(* then.                                                                   *)
LEMMA AcquireFailsStep ==
    ASSUME Inv, handler = "none", AcquireFails
    PROVE  Inv'
<1>1. TypeOK'
  <2>. DEFINE c == call.cam  k == call.pc
  <2>1. c \in alloc /\ c \in Cams /\ k \in 1 .. 10
    BY Lengths DEF Inv, LifecycleInv, TypeOK, CallInv, AcquireFails
  <2>2. call' \in [op : Ops, cam : Cams \cup {None}, pc : 0 .. Len(Stages)]
    BY <2>1, Lengths, Labels DEF AcquireFails, Step, Ops
  <2>3. balance' \in [Cams -> [Objects -> -1 .. 2]]
    <3>1. Add(balance[c], TookFailing(Stages[k])) \in [Objects -> -1 .. 2]
      <4>. SUFFICES ASSUME NEW o \in Objects
                    PROVE  balance[c][o] + TookFailing(Stages[k])[o] \in -1 .. 2
        BY DEF Add
      <4>1. CASE o \in Fields
        <5>1. TookFailing(Stages[k])[o] = 0
          BY <2>1, <4>1, StageTookFailing
        <5>2. balance[c][o] \in -1 .. 2
          BY <2>1, Balances
        <5>. QED
          BY <5>1, <5>2
      <4>2. CASE o \in {"available", "preferred"}
        BY <2>1, <4>2, StageTookFailing
           DEF Inv, LifecycleInv, NewInv, OwnInv, AcquireFails
      <4>. QED
        BY <4>1, <4>2, FieldsValue
    <3>. QED
      BY <2>1, <3>1 DEF Inv, TypeOK, AcquireFails
  <2>. QED
    BY <2>2, <2>3 DEF Inv, TypeOK, AcquireFails, session
<1>2. OwnInv'
  <2>. DEFINE c == call.cam  k == call.pc
  <2>1. c \in alloc /\ c \in Cams /\ k \in 1 .. 10
    BY Lengths DEF Inv, LifecycleInv, TypeOK, CallInv, AcquireFails
  <2>. SUFFICES ASSUME NEW d \in Cams PROVE OwnInv!(d)'
    BY DEF OwnInv
  <2>2. \A o : ~Released(d, o) /\ ~Released(d, o)'
    BY DEF AcquireFails, Step, Released
  <2>3. CASE d = c
    <3>1. k <= 8 => balance[c]["available"] = 0 /\ balance[c]["preferred"] = 0
      BY <2>1 DEF Inv, LifecycleInv, NewInv, AcquireFails
    <3>2. /\ fields' = fields
          /\ \A o \in Objects :
                 balance'[c][o] = balance[c][o] + TookFailing(Stages[k])[o]
      BY <2>1 DEF Inv, TypeOK, AcquireFails, Add
    <3>3. \A o \in Fields : balance'[c][o] = balance[c][o]
      <4>. SUFFICES ASSUME NEW o \in Fields
                    PROVE  balance'[c][o] = balance[c][o]
        OBVIOUS
      <4>1. TookFailing(Stages[k])[o] = 0 /\ o \in Objects
        BY <2>1, StageTookFailing, FieldObjects
      <4>2. balance[c][o] \in -1 .. 2
        BY <2>1, <4>1, Balances
      <4>. QED
        BY <3>2, <4>1, <4>2
    <3>4. ASSUME NEW o \in {"available", "preferred"}
          PROVE  balance'[c][o] \in {-1, 0}
      <4>1. o \in Objects /\ balance[c][o] \in {-1, 0}
        BY <2>1, FieldsValue DEF Inv, LifecycleInv, OwnInv
      <4>. QED
        BY <2>1, <3>1, <3>2, <4>1, StageTookFailing
    <3>. QED
      BY <2>2, <2>3, <3>2, <3>3, <3>4 DEF Inv, LifecycleInv, OwnInv
  <2>4. CASE d # c
    <3>1. fields'[d] = fields[d] /\ balance'[d] = balance[d]
      BY <2>4 DEF Inv, TypeOK, AcquireFails
    <3>. QED
      BY <3>1, <2>2 DEF Inv, LifecycleInv, OwnInv
  <2>. QED
    BY <2>3, <2>4
<1>3. CallInv'
  <2>. DEFINE c == call.cam  k == call.pc
  <2>1. c \in alloc /\ c \in Cams /\ k \in 1 .. 10
    BY Lengths DEF Inv, LifecycleInv, TypeOK, CallInv, AcquireFails
  <2>2. call' = Step("error", c, ErrorLabel[k]) /\ ErrorLabel[k] \in 1 .. 7
    BY <2>1, Labels DEF AcquireFails
  <2>3. Order("error") = ErrorOrder
    BY DEF Order
  <2>4. call'.op = "error" /\ call'.cam = c /\ call'.pc \in 1 .. 7
    BY <2>2 DEF Step
  <2>5. /\ call'.op = "error" /\ call'.cam = c
        /\ call'.pc \in 1 .. Len(Order(call'.op)) + 1
    <3>1. Order(call'.op) = ErrorOrder
      BY <2>3, <2>4
    <3>2. Len(Order(call'.op)) = 6
      BY <3>1, Lengths
    <3>3. 1 .. Len(Order(call'.op)) + 1 = 1 .. 7
      BY <3>2
    <3>. QED
      BY <2>4, <3>3
  <2>. QED
    BY <2>1, <2>5
       DEF Inv, LifecycleInv, CallInv, AcquireFails, session
<1>4. NewInv'
  BY DEF Inv, LifecycleInv, TypeOK, NewInv, session, Step, AcquireFails
<1>5. ErrorInv'
  <2>. DEFINE c == call.cam  k == call.pc
  <2>1. c \in alloc /\ c \in Cams /\ k \in 1 .. 10
    BY Lengths DEF Inv, LifecycleInv, TypeOK, CallInv, AcquireFails
  <2>2. /\ call'.op = "error" /\ call'.cam = c /\ call'.pc = ErrorLabel[k]
        /\ fields'[c] = Held(k)
    BY DEF Inv, LifecycleInv, NewInv, AcquireFails, Step
  <2>. QED
    BY <2>1, <2>2, Labels DEF ErrorInv
<1>6. FreeInv'
  BY DEF Inv, LifecycleInv, TypeOK, FreeInv, session, Step, AcquireFails
<1>7. SlotInv'
  BY DarwinLifecycleAssumption DEF Inv, LifecycleInv, TypeOK, SlotInv,
     session, Step, AcquireFails
<1>8. Balanced'
  BY DEF Inv, LifecycleInv, TypeOK, Balanced, session, Step, AcquireFails
<1>9. CrashOnlyKnown'
  BY DEF Inv, LifecycleInv, TypeOK, CrashOnlyKnown, session, Step,
     AcquireFails
<1>. QED
  BY <1>1, <1>2, <1>3, <1>4, <1>5, <1>6, <1>7, <1>8, <1>9
     DEF Inv, LifecycleInv

(* A release takes back one reference to an object whose field goes next.  *)
LEMMA ReleaseStep ==
    ASSUME Inv, handler = "none", Release
    PROVE  Inv'
<1>1. TypeOK'
  <2>. DEFINE c == call.cam  r == Order(call.op)[call.pc]
  <2>1. c \in alloc /\ c \in Cams /\ call.pc \in 1 .. Len(Order(call.op))
    BY Lengths DEF Inv, LifecycleInv, TypeOK, CallInv, Release, Order
  <2>2. r \in Fields
    BY <2>1, FieldsValue, Lengths DEF Order, ErrorOrder, FreeOrder, Release
  <2>3. ~Released(c, r)
    BY DEF Released, Release
  <2>4. Count(r) \in 0 .. 2 /\ balance[c][r] \in -1 .. 2
    BY <2>1, <2>2, Counts, FieldObjects, Balances
  <2>7. r \in fields[c] => balance[c][r] = Count(r)
    BY <2>1, <2>2, <2>3, <2>4 DEF Inv, LifecycleInv, OwnInv
  <2>8. r \in fields[c] => balance[c][r] - 1 \in -1 .. 2
    BY <2>4, <2>7
  <2>5. balance' \in [Cams -> [Objects -> -1 .. 2]]
    BY <2>1, <2>4, <2>8 DEF Inv, TypeOK, Release
  <2>6. call' \in [op : Ops, cam : Cams \cup {None}, pc : 0 .. Len(Stages)]
    BY DEF Inv, TypeOK, Release, Ops
  <2>. QED
    BY <2>5, <2>6 DEF Inv, TypeOK, Release, session
<1>2. OwnInv'
  <2>. DEFINE c == call.cam  r == Order(call.op)[call.pc]
  <2>1. c \in alloc /\ c \in Cams /\ call.pc \in 1 .. Len(Order(call.op))
    BY Lengths DEF Inv, LifecycleInv, TypeOK, CallInv, Release, Order
  <2>2. r \in Fields
    BY <2>1, FieldsValue, Lengths DEF Order, ErrorOrder, FreeOrder, Release
  <2>. SUFFICES ASSUME NEW d \in Cams PROVE OwnInv!(d)'
    BY DEF OwnInv
  <2>3. /\ call'.cam = c /\ call'.pc = call.pc
        /\ Order(call'.op) = Order(call.op)
        /\ call'.op \in {"error_nil", "free_nil"}
    BY DEF Inv, TypeOK, Release, Order
  <2>4. \A o : ~Released(d, o) /\ (Released(d, o)' <=> d = c /\ o = r)
    BY <2>3 DEF Released, Release
  <2>5. fields' = fields
    BY DEF Release
  <2>6. \A o \in Objects :
            balance'[d][o] = IF d = c /\ o = r /\ r \in fields[c]
                             THEN balance[d][o] - 1 ELSE balance[d][o]
    BY <2>1 DEF Inv, TypeOK, Release
  <2>7. \A o \in Fields : Count(o) \in 0 .. 2 /\ balance[d][o] \in -1 .. 2
    BY Counts, FieldObjects, Balances
  <2>8. \A o \in Fields :
            IF o \in fields[d] THEN balance[d][o] = Count(o)
            ELSE balance[d][o] \in {0, Count(o) - 1}
    BY <2>4, <2>7 DEF Inv, LifecycleInv, OwnInv
  <2>9. \A o \in Fields : o \in Objects
    BY DEF Objects
  <2>10. \A o \in {"available", "preferred"} :
             o \in Objects /\ o # r /\ balance[d][o] \in {-1, 0}
    BY <2>2, FieldsValue DEF Inv, LifecycleInv, OwnInv
  <2>11. \A o \in {"available", "preferred"} : balance'[d][o] \in {-1, 0}
    BY <2>6, <2>10
  <2>12. ASSUME NEW o \in Fields
         PROVE  IF o \in fields'[d]
                THEN balance'[d][o] = Count(o) -
                         IF Released(d, o)' THEN 1 ELSE 0
                ELSE balance'[d][o] \in {0, Count(o) - 1}
    BY <2>4, <2>5, <2>6, <2>7, <2>8, <2>9
  <2>. QED
    BY <2>11, <2>12
<1>3. CallInv'
  <2>. DEFINE c == call.cam  r == Order(call.op)[call.pc]
  <2>1. c \in alloc /\ c \in Cams /\ call.pc \in 1 .. Len(Order(call.op))
    BY Lengths DEF Inv, LifecycleInv, TypeOK, CallInv, Release, Order
  <2>2. r \in Fields
    BY <2>1, FieldsValue, Lengths DEF Order, ErrorOrder, FreeOrder, Release
  <2>3. /\ call'.cam = c /\ call'.pc = call.pc
        /\ Order(call'.op) = Order(call.op)
        /\ call'.op \in {"error_nil", "free_nil"}
    BY DEF Inv, TypeOK, Release, Order
  <2>. QED
    BY <2>1, <2>3 DEF Inv, LifecycleInv, CallInv, Release, session
<1>4. NewInv'
  BY DEF Inv, LifecycleInv, TypeOK, NewInv, session, Release
<1>5. ErrorInv'
  BY DEF Inv, LifecycleInv, TypeOK, ErrorInv, session, Release
<1>6. FreeInv'
  BY DEF Inv, LifecycleInv, TypeOK, FreeInv, session, Release
<1>7. SlotInv'
  BY DarwinLifecycleAssumption DEF Inv, LifecycleInv, TypeOK, SlotInv,
     session, Release
<1>8. Balanced'
  BY DEF Inv, LifecycleInv, TypeOK, Balanced, session, Release
<1>9. CrashOnlyKnown'
  BY DEF Inv, LifecycleInv, TypeOK, CrashOnlyKnown, session, Release
<1>. QED
  BY <1>1, <1>2, <1>3, <1>4, <1>5, <1>6, <1>7, <1>8, <1>9
     DEF Inv, LifecycleInv

(* The store of nil restores that a field names what is held.              *)
LEMMA StoreNilStep ==
    ASSUME Inv, handler = "none", StoreNil
    PROVE  Inv'
<1>1. TypeOK'
  <2>. DEFINE c == call.cam  p == call.pc
  <2>1. c \in alloc /\ c \in Cams /\ p \in 1 .. Len(Order(call.op))
    BY DEF Inv, LifecycleInv, TypeOK, CallInv, StoreNil
  <2>2. /\ call'.cam = c /\ call'.pc = p + 1 /\ Order(call'.op) = Order(call.op)
        /\ call'.op = IF call.op = "error_nil" THEN "error" ELSE "free"
    BY DEF StoreNil, Step, Order
  <2>3. Len(Order(call.op)) = 6 \/ Len(Order(call.op)) = 8
    BY Lengths DEF Order
  <2>4. call' \in [op : Ops, cam : Cams \cup {None}, pc : 0 .. Len(Stages)]
    <3>1. p + 1 \in 0 .. 10
      <4>1. p \in 1 .. 6 \/ p \in 1 .. 8
        BY <2>1, <2>3
      <4>. QED
        BY <4>1
    <3>. QED
      BY <2>1, <3>1, Lengths DEF StoreNil, Step, Ops
  <2>5. fields' \in [Cams -> SUBSET Fields]
    BY <2>1 DEF Inv, TypeOK, StoreNil
  <2>. QED
    BY <2>4, <2>5 DEF Inv, TypeOK, StoreNil, session
<1>2. OwnInv'
  BY DEF Inv, LifecycleInv, TypeOK, OwnInv, CallInv, Released, session, Step,
     StoreNil
<1>3. CallInv'
  <2>. DEFINE c == call.cam  p == call.pc
  <2>1. c \in alloc /\ c \in Cams /\ p \in 1 .. Len(Order(call.op))
    BY DEF Inv, LifecycleInv, TypeOK, CallInv, StoreNil
  <2>2. /\ call'.cam = c /\ call'.pc = p + 1 /\ Order(call'.op) = Order(call.op)
        /\ call'.op = IF call.op = "error_nil" THEN "error" ELSE "free"
    BY DEF StoreNil, Step, Order
  <2>3. Len(Order(call.op)) = 6 \/ Len(Order(call.op)) = 8
    BY Lengths DEF Order
  <2>4. call'.pc \in 1 .. Len(Order(call'.op)) + 1
    BY <2>1, <2>2, <2>3
  <2>. QED
    BY <2>1, <2>2, <2>4 DEF Inv, LifecycleInv, CallInv, StoreNil, session
<1>4. NewInv'
  BY DEF Inv, LifecycleInv, TypeOK, NewInv, session, Step, StoreNil
<1>5. ErrorInv'
  <2>. DEFINE c == call.cam  p == call.pc
  <2>1. c \in alloc /\ c \in Cams /\ p \in 1 .. Len(Order(call.op))
    BY DEF Inv, LifecycleInv, TypeOK, CallInv, StoreNil
  <2>2. /\ call'.cam = c /\ call'.pc = p + 1 /\ Order(call'.op) = Order(call.op)
        /\ call'.op = IF call.op = "error_nil" THEN "error" ELSE "free"
    BY DEF StoreNil, Step, Order
  <2>3. Len(Order(call.op)) = 6 \/ Len(Order(call.op)) = 8
    BY Lengths DEF Order
  <2>. SUFFICES ASSUME call'.op \in {"error", "error_nil"} PROVE ErrorInv'
    BY DEF ErrorInv
  <2>4. call.op = "error_nil" /\ Order(call.op) = ErrorOrder /\ p \in 1 .. 6
    BY <2>1, <2>2, Lengths DEF Order
  <2>5. /\ fields[c] = Remaining(p)
        /\ fields'[c] = fields[c] \ {ErrorOrder[p]}
    BY <2>1, <2>4 DEF Inv, LifecycleInv, TypeOK, ErrorInv, StoreNil
  <2>. QED
    BY <2>2, <2>4, <2>5, RemainingStep DEF ErrorInv
<1>6. FreeInv'
  <2>. DEFINE c == call.cam  p == call.pc
  <2>1. c \in alloc /\ c \in Cams /\ p \in 1 .. Len(Order(call.op))
    BY DEF Inv, LifecycleInv, TypeOK, CallInv, StoreNil
  <2>2. /\ call'.cam = c /\ call'.pc = p + 1 /\ Order(call'.op) = Order(call.op)
        /\ call'.op = IF call.op = "error_nil" THEN "error" ELSE "free"
    BY DEF StoreNil, Step, Order
  <2>3. Len(Order(call.op)) = 6 \/ Len(Order(call.op)) = 8
    BY Lengths DEF Order
  <2>. SUFFICES ASSUME call'.op \in {"free", "free_nil"},
                       NEW j \in 1 .. call'.pc - 1
                PROVE  FreeOrder[j] \notin fields'[c]
    BY <2>2 DEF FreeInv
  <2>4. call.op = "free_nil" /\ Order(call.op) = FreeOrder /\ p \in 1 .. 8
    BY <2>1, <2>2, Lengths DEF Order, StoreNil
  <2>5. fields'[c] = fields[c] \ {FreeOrder[p]}
    BY <2>1, <2>4 DEF Inv, TypeOK, StoreNil
  <2>6. j = p \/ j \in 1 .. p - 1
    BY <2>2, <2>4
  <2>. QED
    BY <2>4, <2>5, <2>6 DEF Inv, LifecycleInv, FreeInv
<1>7. SlotInv'
  BY DarwinLifecycleAssumption DEF Inv, LifecycleInv, TypeOK, SlotInv,
     session, Step, StoreNil
<1>8. Balanced'
  BY DEF Inv, LifecycleInv, TypeOK, Balanced, session, Step, StoreNil
<1>9. CrashOnlyKnown'
  BY DEF Inv, LifecycleInv, TypeOK, CrashOnlyKnown, session, Step, StoreNil
<1>. QED
  BY <1>1, <1>2, <1>3, <1>4, <1>5, <1>6, <1>7, <1>8, <1>9
     DEF Inv, LifecycleInv

(* When error1 frees the struct no field is left.                          *)
LEMMA ErrorEndStep ==
    ASSUME Inv, handler = "none", ErrorEnd
    PROVE  Inv'
<1>1. TypeOK'
  <2>1. call.cam \in Cams
    BY DEF Inv, LifecycleInv, TypeOK, CallInv, ErrorEnd
  <2>2. settled' \subseteq Objects \X (-1 .. 2)
    BY <2>1 DEF Inv, TypeOK, ErrorEnd, Settle
  <2>3. call' \in [op : Ops, cam : Cams \cup {None}, pc : 0 .. Len(Stages)]
    BY Lengths DEF ErrorEnd, Idle, Ops
  <2>. QED
    BY <2>2, <2>3 DEF Inv, TypeOK, ErrorEnd, session
<1>2. OwnInv'
  BY DEF Inv, LifecycleInv, TypeOK, OwnInv, CallInv, Released, session, Idle,
     ErrorEnd
<1>3. CallInv'
  BY DarwinLifecycleAssumption DEF Inv, LifecycleInv, TypeOK, CallInv,
     session, Idle, ErrorEnd
<1>4. NewInv'
  BY DEF Inv, LifecycleInv, TypeOK, NewInv, session, Idle, ErrorEnd
<1>5. ErrorInv'
  BY DEF Inv, LifecycleInv, TypeOK, ErrorInv, session, Idle, ErrorEnd
<1>6. FreeInv'
  BY DEF Inv, LifecycleInv, TypeOK, FreeInv, session, Idle, ErrorEnd
<1>7. SlotInv'
  BY DarwinLifecycleAssumption DEF Inv, LifecycleInv, TypeOK, SlotInv,
     session, Idle, ErrorEnd
<1>8. Balanced'
  <2>1. call.cam \in Cams /\ fields[call.cam] = {}
    BY Lengths, RemainingStep
       DEF Inv, LifecycleInv, TypeOK, CallInv, ErrorInv, ErrorEnd
  <2>2. \A o \in Objects : balance[call.cam][o] # 0 =>
            << o, balance[call.cam][o] >> \in KnownImbalances
    <3>. SUFFICES ASSUME NEW o \in Objects, balance[call.cam][o] # 0
                  PROVE  << o, balance[call.cam][o] >> \in KnownImbalances
      OBVIOUS
    <3>1. CASE o \in Fields \ fields[call.cam]
      <4>1. balance[call.cam][o] = Count(o) - 1
        BY <2>1, <3>1 DEF Inv, LifecycleInv, OwnInv
      <4>. QED
        BY <3>1, <4>1, CountsKnown
    <3>2. CASE o \in {"available", "preferred"}
      BY <2>1, <3>2 DEF Inv, LifecycleInv, OwnInv, KnownImbalances
    <3>. QED
      BY <2>1, <3>1, <3>2, FieldsValue
  <2>3. ASSUME NEW s \in settled', s[2] # 0
        PROVE  s \in KnownImbalances
    <3>1. CASE s \in settled
      BY <2>3, <3>1 DEF Inv, LifecycleInv, Balanced
    <3>2. CASE s \notin settled
      <4>1. PICK o \in Objects : s = << o, balance[call.cam][o] >>
        BY <3>2 DEF ErrorEnd, Settle
      <4>. QED
        BY <2>2, <2>3, <4>1
    <3>. QED
      BY <3>1, <3>2
  <2>. QED
    BY <2>3 DEF Balanced
<1>9. CrashOnlyKnown'
  BY DEF Inv, LifecycleInv, TypeOK, CrashOnlyKnown, session, Idle, ErrorEnd
<1>. QED
  BY <1>1, <1>2, <1>3, <1>4, <1>5, <1>6, <1>7, <1>8, <1>9
     DEF Inv, LifecycleInv

(* al_camera_free gives nothing back before it has stopped the session.    *)
LEMMA FreeBeginStep ==
    ASSUME Inv, handler = "none", NEW c \in Cams, FreeBegin(c)
    PROVE  Inv'
<1>1. TypeOK'
  BY Lengths DEF Inv, LifecycleInv, TypeOK, Ops, camvars, Idle, Step,
     FreeBegin
<1>2. OwnInv'
  BY DEF Inv, LifecycleInv, TypeOK, OwnInv, CallInv, Released, camvars, Idle,
     Step, FreeBegin
<1>3. CallInv'
  BY DarwinLifecycleAssumption DEF Inv, LifecycleInv, TypeOK, CallInv,
     camvars, Idle, Step, FreeBegin
<1>4. NewInv'
  BY DEF Inv, LifecycleInv, TypeOK, NewInv, camvars, Idle, Step, FreeBegin
<1>5. ErrorInv'
  BY DEF Inv, LifecycleInv, TypeOK, ErrorInv, camvars, Idle, Step, FreeBegin
<1>6. FreeInv'
  BY DEF Inv, LifecycleInv, TypeOK, FreeInv, camvars, Idle, Step, FreeBegin
<1>7. SlotInv'
  BY DarwinLifecycleAssumption DEF Inv, LifecycleInv, TypeOK, SlotInv,
     camvars, Idle, Step, FreeBegin
<1>8. Balanced'
  BY DEF Inv, LifecycleInv, TypeOK, Balanced, camvars, Idle, Step, FreeBegin
<1>9. CrashOnlyKnown'
  BY DEF Inv, LifecycleInv, TypeOK, CrashOnlyKnown, camvars, Idle, Step,
     FreeBegin
<1>. QED
  BY <1>1, <1>2, <1>3, <1>4, <1>5, <1>6, <1>7, <1>8, <1>9
     DEF Inv, LifecycleInv

(* When al_camera_free frees the struct at most the conversion buffer is   *)
(* left.                                                                   *)
LEMMA FreeEndStep ==
    ASSUME Inv, handler = "none", FreeEnd
    PROVE  Inv'
<1>1. TypeOK'
  <2>1. call.cam \in Cams
    BY DEF Inv, LifecycleInv, TypeOK, CallInv, FreeEnd
  <2>2. settled' \subseteq Objects \X (-1 .. 2)
    BY <2>1 DEF Inv, TypeOK, FreeEnd, Settle
  <2>3. call' \in [op : Ops, cam : Cams \cup {None}, pc : 0 .. Len(Stages)]
    BY Lengths DEF FreeEnd, Idle, Ops
  <2>4. cameras' \in [Slots -> Cams \cup {None}]
    BY DEF Inv, TypeOK, FreeEnd, ClearedSlot
  <2>5. stale' \subseteq Slots /\ alloc' \subseteq Cams
    BY DEF Inv, TypeOK, FreeEnd
  <2>. QED
    BY <2>2, <2>3, <2>4, <2>5 DEF Inv, TypeOK, FreeEnd, session
<1>2. OwnInv'
  BY DEF Inv, LifecycleInv, TypeOK, OwnInv, CallInv, Released, session, Idle,
     ClearedSlot, FreeEnd
<1>3. CallInv'
  BY DarwinLifecycleAssumption DEF Inv, LifecycleInv, TypeOK, CallInv,
     session, Idle, ClearedSlot, FreeEnd
<1>4. NewInv'
  BY DEF Inv, LifecycleInv, TypeOK, NewInv, session, Idle, ClearedSlot,
     FreeEnd
<1>5. ErrorInv'
  BY DEF Inv, LifecycleInv, TypeOK, ErrorInv, session, Idle, ClearedSlot,
     FreeEnd
<1>6. FreeInv'
  BY DEF Inv, LifecycleInv, TypeOK, FreeInv, session, Idle, ClearedSlot,
     FreeEnd
<1>7. SlotInv'
  BY DarwinLifecycleAssumption DEF Inv, LifecycleInv, TypeOK, SlotInv,
     session, Idle, ClearedSlot, FreeEnd
<1>8. Balanced'
  <2>1. call.cam \in Cams /\ fields[call.cam] \subseteq {"pixels"}
    <3>1. /\ call.cam \in Cams /\ fields[call.cam] \subseteq Fields
          /\ \A j \in 1 .. 8 : FreeOrder[j] \notin fields[call.cam]
      BY Lengths DEF Inv, LifecycleInv, TypeOK, CallInv, FreeInv, FreeEnd
    <3>2. DOMAIN FreeOrder = 1 .. 8
      BY DEF FreeOrder
    <3>. QED
      BY <3>1, <3>2 DEF Fields
  <2>2. \A o \in Objects : balance[call.cam][o] # 0 =>
            << o, balance[call.cam][o] >> \in KnownImbalances
    <3>. SUFFICES ASSUME NEW o \in Objects, balance[call.cam][o] # 0
                  PROVE  << o, balance[call.cam][o] >> \in KnownImbalances
      OBVIOUS
    <3>1. CASE o \in Fields \ fields[call.cam]
      <4>1. balance[call.cam][o] = Count(o) - 1
        BY <2>1, <3>1 DEF Inv, LifecycleInv, OwnInv
      <4>. QED
        BY <3>1, <4>1, CountsKnown
    <3>2. CASE o \in {"available", "preferred"}
      BY <2>1, <3>2 DEF Inv, LifecycleInv, OwnInv, KnownImbalances
    <3>3. CASE o = "pixels" /\ o \in fields[call.cam]
      <4>1. balance[call.cam][o] = 1
        <5>1. o \in Fields /\ ~Released(call.cam, o) /\ Count(o) = 1
          BY <3>3, FieldsValue DEF Released, FreeEnd, Count
        <5>. QED
          BY <2>1, <3>3, <5>1 DEF Inv, LifecycleInv, OwnInv
      <4>. QED
        BY <3>3, <4>1 DEF KnownImbalances
    <3>. QED
      BY <2>1, <3>1, <3>2, <3>3, FieldsValue
  <2>3. ASSUME NEW s \in settled', s[2] # 0
        PROVE  s \in KnownImbalances
    <3>1. CASE s \in settled
      BY <2>3, <3>1 DEF Inv, LifecycleInv, Balanced
    <3>2. CASE s \notin settled
      <4>1. PICK o \in Objects : s = << o, balance[call.cam][o] >>
        BY <3>2 DEF FreeEnd, Settle
      <4>. QED
        BY <2>2, <2>3, <4>1
    <3>. QED
      BY <3>1, <3>2
  <2>. QED
    BY <2>3 DEF Balanced
<1>9. CrashOnlyKnown'
  BY DEF Inv, LifecycleInv, TypeOK, CrashOnlyKnown, session, Idle,
     ClearedSlot, FreeEnd
<1>. QED
  BY <1>1, <1>2, <1>3, <1>4, <1>5, <1>6, <1>7, <1>8, <1>9
     DEF Inv, LifecycleInv

(* A block is dispatched for an allocated camera only.                     *)
LEMMA StartStep ==
    ASSUME Inv, NEW c \in Cams, Start(c)
    PROVE  Inv'
<1>1. TypeOK'
  BY DarwinLifecycleAssumption DEF Inv, LifecycleInv, TypeOK, camvars, Start
<1>2. OwnInv'
  BY DEF Inv, LifecycleInv, TypeOK, OwnInv, CallInv, Released, camvars, Start
<1>3. CallInv'
  BY DarwinLifecycleAssumption DEF Inv, LifecycleInv, TypeOK, Idle, CallInv,
     camvars, Start
<1>4. NewInv'
  BY DEF Inv, LifecycleInv, TypeOK, NewInv, camvars, Start
<1>5. ErrorInv'
  BY DEF Inv, LifecycleInv, TypeOK, ErrorInv, camvars, Start
<1>6. FreeInv'
  BY DEF Inv, LifecycleInv, TypeOK, FreeInv, camvars, Start
<1>7. SlotInv'
  BY DarwinLifecycleAssumption DEF Inv, LifecycleInv, TypeOK, SlotInv,
     camvars, Start
<1>8. Balanced'
  BY DEF Inv, LifecycleInv, TypeOK, Balanced, camvars, Start
<1>9. CrashOnlyKnown'
  BY DEF Inv, LifecycleInv, TypeOK, CrashOnlyKnown, camvars, Start
<1>. QED
  BY <1>1, <1>2, <1>3, <1>4, <1>5, <1>6, <1>7, <1>8, <1>9
     DEF Inv, LifecycleInv

(* The block starts a camera that is in no call.                           *)
LEMMA BlockStep ==
    ASSUME Inv, NEW c \in Cams, Block(c)
    PROVE  Inv'
<1>1. TypeOK'
  BY DarwinLifecycleAssumption DEF Inv, LifecycleInv, TypeOK, camvars, Block
<1>2. OwnInv'
  BY DEF Inv, LifecycleInv, TypeOK, OwnInv, CallInv, Released, camvars, Block
<1>3. CallInv'
  BY DarwinLifecycleAssumption DEF Inv, LifecycleInv, TypeOK, CallInv,
     camvars, Block
<1>4. NewInv'
  BY DEF Inv, LifecycleInv, TypeOK, NewInv, camvars, Block
<1>5. ErrorInv'
  BY DEF Inv, LifecycleInv, TypeOK, ErrorInv, camvars, Block
<1>6. FreeInv'
  BY DEF Inv, LifecycleInv, TypeOK, FreeInv, camvars, Block
<1>7. SlotInv'
  BY DarwinLifecycleAssumption DEF Inv, LifecycleInv, TypeOK, SlotInv,
     camvars, Block
<1>8. Balanced'
  BY DEF Inv, LifecycleInv, TypeOK, Balanced, camvars, Block
<1>9. CrashOnlyKnown'
  BY DEF Inv, LifecycleInv, TypeOK, CrashOnlyKnown, camvars, Block
<1>. QED
  BY <1>1, <1>2, <1>3, <1>4, <1>5, <1>6, <1>7, <1>8, <1>9
     DEF Inv, LifecycleInv

(* Stopping gives nothing back.                                            *)
LEMMA StopStep ==
    ASSUME Inv, NEW c \in Cams, Stop(c)
    PROVE  Inv'
<1>1. TypeOK'
  BY DarwinLifecycleAssumption DEF Inv, LifecycleInv, TypeOK, camvars, Stop
<1>2. OwnInv'
  BY DEF Inv, LifecycleInv, TypeOK, OwnInv, CallInv, Released, camvars, Stop
<1>3. CallInv'
  BY DarwinLifecycleAssumption DEF Inv, LifecycleInv, TypeOK, CallInv,
     camvars, Stop
<1>4. NewInv'
  BY DEF Inv, LifecycleInv, TypeOK, NewInv, camvars, Stop
<1>5. ErrorInv'
  BY DEF Inv, LifecycleInv, TypeOK, ErrorInv, camvars, Stop
<1>6. FreeInv'
  BY DEF Inv, LifecycleInv, TypeOK, FreeInv, camvars, Stop
<1>7. SlotInv'
  BY DarwinLifecycleAssumption DEF Inv, LifecycleInv, TypeOK, SlotInv,
     camvars, Stop
<1>8. Balanced'
  BY DEF Inv, LifecycleInv, TypeOK, Balanced, camvars, Stop
<1>9. CrashOnlyKnown'
  BY DEF Inv, LifecycleInv, TypeOK, CrashOnlyKnown, camvars, Stop
<1>. QED
  BY <1>1, <1>2, <1>3, <1>4, <1>5, <1>6, <1>7, <1>8, <1>9
     DEF Inv, LifecycleInv

(* A frame changes its own two objects, of a camera in no call.            *)
LEMMA DeliverStep ==
    ASSUME Inv, NEW c \in Cams, NEW pixels \in SUBSET {"pixels"},
           Deliver(c, pixels)
    PROVE  Inv'
<1>1. TypeOK'
  <2>1. fields' \in [Cams -> SUBSET Fields]
    BY FieldsValue DEF Inv, TypeOK, Deliver
  <2>2. balance' \in [Cams -> [Objects -> -1 .. 2]]
    <3>1. "sample_buffer" \in Objects /\ "pixels" \in Objects
      BY FieldsValue
    <3>2. /\ 1 \in -1 .. 2
          /\ (IF "pixels" \in pixels THEN 1 ELSE 0) \in -1 .. 2
      OBVIOUS
    <3>3. balance \in [Cams -> [Objects -> -1 .. 2]]
      BY DEF Inv, TypeOK
    <3>4. balance' = [balance EXCEPT
              ![c]["sample_buffer"] = 1,
              ![c]["pixels"] = IF "pixels" \in pixels THEN 1 ELSE 0]
      BY DeliverBalance
    <3>. QED
      BY <3>1, <3>2, <3>3, <3>4
  <2>. QED
    BY <2>1, <2>2 DEF Inv, TypeOK, Deliver, session
<1>2. OwnInv'
  <2>. SUFFICES ASSUME NEW d \in Cams PROVE OwnInv!(d)'
    BY DEF OwnInv
  <2>1. \A o : Released(d, o)' <=> Released(d, o)
    BY DEF Deliver, Released
  <2>2. CASE d = c
    <3>8. /\ "sample_buffer" \in Objects /\ "pixels" \in Objects
          /\ balance \in [Cams -> [Objects -> -1 .. 2]]
          /\ fields \in [Cams -> SUBSET Fields]
      BY FieldsValue DEF Inv, TypeOK
    <3>9. /\ fields' = [fields EXCEPT ![c] =
                 (@ \ {"pixels"}) \cup {"sample_buffer"} \cup pixels]
          /\ balance' = [balance EXCEPT
                 ![c]["sample_buffer"] = 1,
                 ![c]["pixels"] = IF "pixels" \in pixels THEN 1 ELSE 0]
      BY DeliverBalance
    <3>1. /\ fields'[c] = (fields[c] \ {"pixels"}) \cup {"sample_buffer"}
                              \cup pixels
          /\ balance'[c]["sample_buffer"] = 1
          /\ balance'[c]["pixels"] = IF "pixels" \in pixels THEN 1 ELSE 0
          /\ \A o \in Objects \ {"sample_buffer", "pixels"} :
                 balance'[c][o] = balance[c][o]
      BY <3>8, <3>9
    <3>2. \A o : ~Released(c, o)
      BY DeliverBalance DEF Released
    <3>3. Count("sample_buffer") = 1 /\ Count("pixels") = 1
      BY DEF Count
    <3>4. "available" \in Objects /\ "preferred" \in Objects
      BY FieldsValue
    <3>5. ASSUME NEW o \in Fields
          PROVE  IF o \in fields'[c] THEN balance'[c][o] = Count(o)
                 ELSE balance'[c][o] \in {0, Count(o) - 1}
      <4>1. CASE o = "sample_buffer"
        BY <3>1, <3>3, <4>1
      <4>2. CASE o = "pixels"
        BY <3>1, <3>3, <4>2
      <4>3. CASE o \notin {"sample_buffer", "pixels"}
        <5>1. /\ balance'[c][o] = balance[c][o]
              /\ o \in fields'[c] <=> o \in fields[c]
          BY <3>1, <4>3 DEF Objects
        <5>2. Count(o) \in 0 .. 2
          BY Counts
        <5>. QED
          BY <3>2, <5>1, <5>2 DEF Inv, LifecycleInv, OwnInv
      <4>. QED
        BY <4>1, <4>2, <4>3
    <3>6. /\ balance'[c]["available"] \in {-1, 0}
          /\ balance'[c]["preferred"] \in {-1, 0}
      BY <3>1, <3>4 DEF Inv, LifecycleInv, OwnInv
    <3>7. \A o \in Fields : Count(o) - 0 = Count(o)
      BY Counts
    <3>. QED
      BY <2>1, <2>2, <3>2, <3>5, <3>6, <3>7
  <2>3. CASE d # c
    <3>1. fields'[d] = fields[d] /\ balance'[d] = balance[d]
      <4>1. /\ balance \in [Cams -> [Objects -> -1 .. 2]]
            /\ fields \in [Cams -> SUBSET Fields]
        BY DEF Inv, TypeOK
      <4>2. /\ fields' = [fields EXCEPT ![c] =
                   (@ \ {"pixels"}) \cup {"sample_buffer"} \cup pixels]
            /\ balance' = [balance EXCEPT
                   ![c]["sample_buffer"] = 1,
                   ![c]["pixels"] = IF "pixels" \in pixels THEN 1 ELSE 0]
        BY DeliverBalance
      <4>. QED
        BY <2>3, <4>1, <4>2
    <3>. QED
      BY <2>1, <3>1 DEF Inv, LifecycleInv, OwnInv
  <2>. QED
    BY <2>2, <2>3
<1>3. CallInv'
  BY DarwinLifecycleAssumption DEF Inv, LifecycleInv, TypeOK, CallInv,
     session, Deliver
<1>4. NewInv'
  BY DEF Inv, LifecycleInv, TypeOK, CallInv, NewInv, session, Deliver
<1>5. ErrorInv'
  BY DEF Inv, LifecycleInv, TypeOK, CallInv, ErrorInv, session, Deliver
<1>6. FreeInv'
  BY DEF Inv, LifecycleInv, TypeOK, CallInv, FreeInv, session, Deliver
<1>7. SlotInv'
  BY DarwinLifecycleAssumption DEF Inv, LifecycleInv, TypeOK, SlotInv,
     session, Deliver
<1>8. Balanced'
  BY DEF Inv, LifecycleInv, TypeOK, Balanced, session, Deliver
<1>9. CrashOnlyKnown'
  BY DEF Inv, LifecycleInv, TypeOK, CrashOnlyKnown, session, Deliver
<1>. QED
  BY <1>1, <1>2, <1>3, <1>4, <1>5, <1>6, <1>7, <1>8, <1>9
     DEF Inv, LifecycleInv

(* The handler starts no camera.                                           *)
LEMMA CleanupStep ==
    ASSUME Inv, Cleanup
    PROVE  Inv'
<1>1. TypeOK'
  BY DarwinLifecycleAssumption DEF Inv, LifecycleInv, TypeOK, camvars,
     Registered, Cleanup
<1>2. OwnInv'
  BY DEF Inv, LifecycleInv, TypeOK, OwnInv, CallInv, Released, camvars,
     Registered, Cleanup
<1>3. CallInv'
  BY DarwinLifecycleAssumption DEF Inv, LifecycleInv, TypeOK, CallInv,
     camvars, Registered, Cleanup
<1>4. NewInv'
  BY DEF Inv, LifecycleInv, TypeOK, NewInv, camvars, Registered, Cleanup
<1>5. ErrorInv'
  BY DEF Inv, LifecycleInv, TypeOK, ErrorInv, camvars, Registered, Cleanup
<1>6. FreeInv'
  BY DEF Inv, LifecycleInv, TypeOK, FreeInv, camvars, Registered, Cleanup
<1>7. SlotInv'
  BY DarwinLifecycleAssumption DEF Inv, LifecycleInv, TypeOK, SlotInv,
     camvars, Registered, Cleanup
<1>8. Balanced'
  BY DEF Inv, LifecycleInv, TypeOK, Balanced, camvars, Registered, Cleanup
<1>9. CrashOnlyKnown'
  BY DEF Inv, LifecycleInv, TypeOK, CrashOnlyKnown, camvars, Registered,
     Cleanup
<1>. QED
  BY <1>1, <1>2, <1>3, <1>4, <1>5, <1>6, <1>7, <1>8, <1>9
     DEF Inv, LifecycleInv

(* The handler faults only on what the registry or a field wrongly names.  *)
LEMMA CleanupCrashesStep ==
    ASSUME Inv, CleanupCrashes
    PROVE  Inv'
<1>1. TypeOK'
  BY DarwinLifecycleAssumption DEF Inv, LifecycleInv, TypeOK, camvars,
     session, Registered, CanStop, CleanupCrashes
<1>2. OwnInv'
  BY DEF Inv, LifecycleInv, TypeOK, OwnInv, CallInv, Released, camvars,
     session, Registered, CanStop, CleanupCrashes
<1>3. CallInv'
  BY DarwinLifecycleAssumption DEF Inv, LifecycleInv, TypeOK, CallInv,
     camvars, session, Registered, CanStop, CleanupCrashes
<1>4. NewInv'
  BY DEF Inv, LifecycleInv, TypeOK, NewInv, camvars, session, Registered,
     CanStop, CleanupCrashes
<1>5. ErrorInv'
  BY DEF Inv, LifecycleInv, TypeOK, ErrorInv, camvars, session, Registered,
     CanStop, CleanupCrashes
<1>6. FreeInv'
  BY DEF Inv, LifecycleInv, TypeOK, FreeInv, camvars, session, Registered,
     CanStop, CleanupCrashes
<1>7. SlotInv'
  BY DarwinLifecycleAssumption DEF Inv, LifecycleInv, TypeOK, SlotInv,
     camvars, session, Registered, CanStop, CleanupCrashes
<1>8. Balanced'
  BY DEF Inv, LifecycleInv, TypeOK, Balanced, camvars, session, Registered,
     CanStop, CleanupCrashes
<1>9. CrashOnlyKnown'
  <2>. USE DEF CleanupCrashes
  <2>1. PICK j \in Slots : cameras[j] # None /\ ~CanStop(cameras[j])
    BY DEF Registered
  <2>. DEFINE c == cameras[j]
  <2>2. c \in Cams
    BY <2>1 DEF Inv, TypeOK
  <2>3. CASE c \notin alloc
    BY <2>1, <2>3 DEF Inv, LifecycleInv, SlotInv, CrashOnlyKnown
  <2>4. CASE c \in alloc
    <3>1. "session" \in fields[c] /\ ~(balance[c]["session"] > 0)
      BY <2>1, <2>4 DEF CanStop
    <3>2. "session" \in Fields /\ Count("session") = 1
      BY FieldsValue DEF Count
    <3>3. Released(c, "session")
      BY <2>2, <3>1, <3>2 DEF Inv, LifecycleInv, OwnInv
    <3>. QED
      BY <3>3 DEF Released, CrashOnlyKnown
  <2>. QED
    BY <2>3, <2>4
<1>. QED
  BY <1>1, <1>2, <1>3, <1>4, <1>5, <1>6, <1>7, <1>8, <1>9
     DEF Inv, LifecycleInv

(* No camera and no handler.                                               *)
LEMMA InitInv == Init => Inv
<1>. SUFFICES ASSUME Init PROVE Inv
  OBVIOUS
<1>1. TypeOK
  <2>1. index \in [Cams -> Indices]
    BY DarwinLifecycleAssumption DEF Init
  <2>2. balance \in [Cams -> [Objects -> -1 .. 2]]
    BY DEF Init, Zero
  <2>3. call \in [op : Ops, cam : Cams \cup {None}, pc : 0 .. Len(Stages)]
    BY Lengths DEF Init, Idle, Ops
  <2>. QED
    BY <2>1, <2>2, <2>3 DEF Init, TypeOK
<1>2. OwnInv
  BY FieldsValue DEF Init, OwnInv, Zero, Idle, Released
<1>3. CallInv /\ NewInv /\ ErrorInv /\ FreeInv
  BY DEF Init, CallInv, NewInv, ErrorInv, FreeInv, Idle
<1>4. SlotInv /\ Balanced /\ CrashOnlyKnown
  BY DEF Init, SlotInv, Balanced, CrashOnlyKnown
<1>. QED
  BY <1>1, <1>2, <1>3, <1>4 DEF Inv, LifecycleInv

(* Every step preserves it.                                                *)
LEMMA NextInv == Inv /\ [Next]_vars => Inv'
<1>. SUFFICES ASSUME Inv, [Next]_vars PROVE Inv'
  OBVIOUS
<1>1. CASE Client
  <2>. handler = "none"
    BY <1>1 DEF Client
  <2>1. CASE Open
    BY <2>1, NewBeginStep, AcquireStep, AcquireFailsStep DEF Open
  <2>2. CASE Close
    BY <2>2, FreeBeginStep, ReleaseStep, StoreNilStep, ErrorEndStep,
       FreeEndStep DEF Close
  <2>3. CASE Run
    BY <2>3, StartStep, StopStep DEF Run
  <2>. QED
    BY <1>1, <2>1, <2>2, <2>3 DEF Client
<1>2. ASSUME NEW c \in Cams, Block(c) PROVE Inv'
  BY <1>2, BlockStep
<1>3. ASSUME NEW c \in Cams, Frame(c) PROVE Inv'
  BY <1>3, DeliverStep DEF Frame
<1>4. ASSUME NEW c \in Cams, FrameConverted(c) PROVE Inv'
  BY <1>4, DeliverStep DEF FrameConverted
<1>5. ASSUME NEW c \in Cams, FrameNotConverted(c) PROVE Inv'
  BY <1>5, DeliverStep DEF FrameNotConverted
<1>6. CASE Cleanup
  BY <1>6, CleanupStep
<1>7. CASE CleanupCrashes
  BY <1>7, CleanupCrashesStep
<1>8. CASE UNCHANGED vars
  BY <1>8 DEF vars, camvars, session, Inv, LifecycleInv, TypeOK, OwnInv,
     Released, CallInv, NewInv, ErrorInv, FreeInv, SlotInv, Balanced,
     CrashOnlyKnown
<1>. QED
  BY <1>1, <1>2, <1>3, <1>4, <1>5, <1>6, <1>7, <1>8
     DEF Next, Callbacks, Exited

(* The inductive invariant holds in every reachable state.                 *)
THEOREM Invariance == Spec => []Inv
BY InitInv, NextInv, PTL DEF Spec

-----------------------------------------------------------------------------
(* The properties                                                          *)

(* Every variable keeps its type; no object is over-released twice, and    *)
(* none has more than two references.                                      *)
THEOREM TypeCorrect == Spec => []TypeOK
<1>1. Inv => TypeOK
  BY DEF Inv
<1>. QED
  BY <1>1, Invariance, PTL

(* Whatever fails and however a camera ran, the references taken and given *)
(* back by the time its struct is freed balance but for the known objects. *)
THEOREM ReferencesBalanced == Spec => []Balanced
<1>1. Inv => Balanced
  BY DEF Inv, LifecycleInv
<1>. QED
  BY <1>1, Invariance, PTL

(* The labels of al_camera_new release only what this call obtained.       *)
THEOREM ReleasesObtained == Spec => []ReleaseObtained
<1>1. Inv => ReleaseObtained
  <2>. SUFFICES ASSUME Inv, call.op = "error", call.pc <= Len(ErrorOrder)
                PROVE  ErrorOrder[call.pc] \in fields[call.cam]
    BY DEF ReleaseObtained
  <2>1. call.pc \in 1 .. 6
    BY Lengths DEF Inv, LifecycleInv, CallInv, Order
  <2>. QED
    BY <2>1, RemainingStep DEF Inv, LifecycleInv, ErrorInv
<1>. QED
  BY <1>1, Invariance, PTL

(* The handler faults only on a slot left behind, or between the release   *)
(* of a session and the store of nil.                                      *)
THEOREM CrashesKnown == Spec => []CrashOnlyKnown
<1>1. Inv => CrashOnlyKnown
  BY DEF Inv, LifecycleInv
<1>. QED
  BY <1>1, Invariance, PTL

=============================================================================
