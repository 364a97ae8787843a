------------------------ MODULE CameraBuffersProofs ------------------------
(***************************************************************************)
(* Proofs about CameraBuffers, for a size_t of every even number of bits,  *)
(* every device and list of modes, and every stride a client may ask for.  *)
(* Inv is inductive: it follows the block of each buffer, its size and the *)
(* stride it is for through allocations that fail, frames, and a client    *)
(* that sets strides, and claims nothing of the blocks once a stride was   *)
(* set beside a frame.                                                     *)
(***************************************************************************)
EXTENDS CameraBuffers, TLAPS

-----------------------------------------------------------------------------
(* The arithmetic, as in ImageBlocksProofs                                 *)

(* There is at least one number in a size_t.                               *)
LEMMA WordPositive == Root \in Nat \ {0} /\ Word \in Nat \ {0}
BY MemoryAssumption DEF Word

(* A size_t holds what is left of a number modulo its range.               *)
LEMMA ModWord == ASSUME NEW x \in Nat PROVE x % Word \in 0 .. Word - 1
BY WordPositive

(* A product of sizes is a natural number, and not zero if none of them is.*)
LEMMA Product ==
    ASSUME NEW x \in Nat, NEW y \in Nat
    PROVE  x * y \in Nat /\ (x > 0 /\ y > 0 => x * y >= x /\ x * y >= y)
<1>1. x * y \in Nat
  OBVIOUS
<1>2. ASSUME x > 0, y > 0 PROVE x * y >= x /\ x * y >= y
  <2>1. x * (y - 1) >= 0 /\ (x - 1) * y >= 0
    BY <1>2
  <2>2. x * (y - 1) = x * y - x /\ (x - 1) * y = x * y - y
    OBVIOUS
  <2>. QED
    BY <1>1, <2>1, <2>2
<1>. QED
  BY <1>1, <1>2

(* Every format has three or four samples for each one or two bytes.       *)
LEMMA SampleValues ==
    ASSUME NEW f \in Formats
    PROVE  \/ Samples(f) = 4 /\ Halves(f) = 1 /\ f = "RGBA"
           \/ Samples(f) = 3 /\ Halves(f) = 2 /\ f # "RGBA"
BY DEF Formats, Samples, Halves

(* The size al_image_alloc asks the allocator for is a number.             *)
LEMMA SizeNatural ==
    ASSUME NEW f \in Formats, NEW s \in Nat, NEW h \in Nat
    PROVE  Size(f, s, h) \in Nat
<1>. DEFINE p == s * h * Samples(f)
<1>1. p \in Nat
  BY SampleValues
<1>2. p % Word \in Nat
  BY <1>1, ModWord
<1>. QED
  BY <1>2, SampleValues DEF Size

(* Unless the product left a size_t, the size is not zero, and enough for  *)
(* rows as long as the stride and as many chroma rows, and for pixels that *)
(* are written one after the other.                                        *)
LEMMA SizeEnough ==
    ASSUME NEW f \in Formats, NEW w \in Nat, NEW s \in Nat, NEW h \in Nat,
           w > 0, h > 0, s >= w, ~Wraps(f, s, h)
    PROVE  Size(f, s, h) > 0 /\ Size(f, s, h) >= Used(f, w, h, s)
<1>. DEFINE a == s * h  p == a * Samples(f)
<1>1. a \in Nat /\ a >= h /\ a > 0
  BY Product
<1>2. p \in Nat /\ p < Word
  <2>1. Samples(f) \in {3, 4}
    BY SampleValues
  <2>2. ~(p >= Word)
    BY DEF Wraps
  <2>3. p \in Nat
    BY <1>1, <2>1
  <2>. HIDE DEF p
  <2>. QED
    BY <2>2, <2>3, WordPositive
<1>3. p % Word = p
  BY <1>2, WordPositive
<1>4. CASE f = "RGBA"
  <2>1. Size(f, s, h) = 4 * a
    BY <1>1, <1>3, <1>4, SampleValues DEF Size
  <2>2. (s - w) * h >= 0 /\ (s - w) * h = a - w * h
    OBVIOUS
  <2>. QED
    BY <1>1, <1>4, <2>1, <2>2 DEF Used
<1>5. CASE f # "RGBA"
  <2>1. Size(f, s, h) = (3 * a) \div 2
    BY <1>1, <1>3, <1>5, SampleValues DEF Size
  <2>2. h \div 2 \in Nat /\ 2 * (h \div 2) <= h
    OBVIOUS
  <2>. DEFINE c == s * (h \div 2)
  <2>3. c \in Nat /\ 2 * c <= a
    <3>1. s * (h - 2 * (h \div 2)) >= 0
      BY <2>2
    <3>2. s * (h - 2 * (h \div 2)) = a - 2 * c
      BY <2>2
    <3>. QED
      BY <1>1, <2>2, <3>1, <3>2
  <2>4. Used(f, w, h, s) = a + c
    BY <1>5 DEF Used
  <2>. HIDE DEF a, c
  <2>. QED
    BY <1>1, <2>1, <2>3, <2>4
<1>. QED
  BY <1>4, <1>5

(* Memory after an exchange.                                               *)
LEMMA ExchangeMemory ==
    ASSUME MemoryType, NEW gone, NEW b \in Blocks \cup {NULL},
           NEW size \in Nat, Exchange(gone, b, size)
    PROVE  /\ MemoryType'
           /\ live' = (live \ gone) \cup ({b} \ {NULL})
           /\ b # NULL => room'[b] = size
           /\ \A c \in Blocks \ gone : c # b => room'[c] = room[c]
<1>1. \A c \in Blocks : (CASE c = b -> size
                           [] c \in gone \ {b} -> 0
                           [] OTHER -> room[c]) \in Nat
  BY DEF MemoryType
<1>2. room' \in [Blocks -> Nat]
  BY <1>1 DEF Exchange
<1>3. live' = (live \ gone) \cup ({b} \ {NULL})
  BY DEF Exchange
<1>4. b # NULL => room'[b] = size
  BY DEF Exchange
<1>5. \A c \in Blocks \ gone : c # b => room'[c] = room[c]
  BY DEF Exchange
<1>. QED
  BY <1>2, <1>3, <1>4, <1>5 DEF MemoryType

-----------------------------------------------------------------------------
(* The choice of the mode                                                  *)

(* The inductive invariant.                                                *)
Inv == TypeOK /\ BuffersInv

(* A distance is a number within the range of a float.                     *)
LEMMA NormRange ==
    ASSUME NEW m \in Int \X Int, NEW n \in Int \X Int
    PROVE  norm(m, n) \in 0 .. FltMax
<1>. DEFINE a == m[1] - n[1]  b == m[2] - n[2]
<1>1. a \in Int /\ b \in Int
  OBVIOUS
<1>. HIDE DEF a, b
<1>2. a * a >= 0 /\ b * b >= 0 /\ a * a \in Int /\ b * b \in Int
  BY <1>1
<1>3. Squared(m, n) = a * a + b * b
  BY DEF Squared, a, b
<1>4. Squared(m, n) \in Nat
  BY <1>2, <1>3
<1>5. Squared(m, n) \div Grain \in Nat
  BY <1>4, BuffersAssumption
<1>. QED
  BY <1>5, BuffersAssumption DEF norm

(* So is the distance of any configuration of the device.                  *)
LEMMA ListNorm ==
    ASSUME TypeOK, NEW k \in DOMAIN list
    PROVE  /\ norm(request, Mode(list[k])) \in 0 .. FltMax
           /\ Mode(list[k]) \in (1 .. Word - 1) \X (1 .. Word - 1)
           /\ k \in 1 .. Len(list)
<1>1. /\ list \in Seq([width : 1 .. Word - 1, height : 1 .. Word - 1,
                       fits : BOOLEAN])
      /\ request \in (1 .. Word - 1) \X (1 .. Word - 1)
  BY BuffersAssumption DEF TypeOK
<1>2. /\ list[k] \in [width : 1 .. Word - 1, height : 1 .. Word - 1,
                      fits : BOOLEAN]
      /\ k \in 1 .. Len(list)
  <2>. DEFINE R == [width : 1 .. Word - 1, height : 1 .. Word - 1,
                    fits : BOOLEAN]
  <2>1. list \in Seq(R)
    BY <1>1
  <2>. HIDE DEF R
  <2>2. list[k] \in R /\ k \in 1 .. Len(list)
    BY <2>1
  <2>. QED
    BY <2>2 DEF R
<1>3. Mode(list[k]) \in (1 .. Word - 1) \X (1 .. Word - 1)
  BY <1>2 DEF Mode
<1>4. request \in Int \X Int /\ Mode(list[k]) \in Int \X Int
  BY <1>1, <1>3, WordPositive
<1>. QED
  BY <1>2, <1>3, <1>4, NormRange

(* So is what memory holds past the list, which may not be a mode.         *)
LEMMA EntryNorm ==
    ASSUME TypeOK, NEW k \in Nat \ {0}, NEW c \in Entry(k)
    PROVE  /\ norm(request, Mode(c)) \in 0 .. FltMax
           /\ Mode(c) \in Int \X Int
           /\ Mode(c)[1] < Word /\ Mode(c)[2] < Word
           /\ IF k <= Len(list) THEN k \in DOMAIN list /\ c = list[k]
              ELSE c \in Beyond
<1>1. /\ list \in Seq([width : 1 .. Word - 1, height : 1 .. Word - 1,
                       fits : BOOLEAN])
      /\ request \in (1 .. Word - 1) \X (1 .. Word - 1)
  BY BuffersAssumption DEF TypeOK
<1>2. CASE k <= Len(list)
  <2>1. k \in DOMAIN list /\ c = list[k]
    <3>. DEFINE R == [width : 1 .. Word - 1, height : 1 .. Word - 1,
                      fits : BOOLEAN]
    <3>1. list \in Seq(R)
      BY <1>1
    <3>. HIDE DEF R
    <3>. QED
      BY <1>2, <3>1 DEF Entry
  <2>2. /\ norm(request, Mode(c)) \in 0 .. FltMax
        /\ Mode(c) \in (1 .. Word - 1) \X (1 .. Word - 1)
    BY <2>1, ListNorm
  <2>. QED
    BY <1>2, <2>1, <2>2, WordPositive
<1>3. CASE ~(k <= Len(list))
  <2>1. c \in Beyond
    BY <1>3 DEF Entry
  <2>2. /\ Mode(c) \in Int \X Int
        /\ Mode(c)[1] < Word /\ Mode(c)[2] < Word
    BY <2>1, BuffersAssumption DEF Mode
  <2>3. norm(request, Mode(c)) \in 0 .. FltMax
    <3>1. request \in Int \X Int
      BY <1>1, WordPositive
    <3>. QED
      BY <2>2, <3>1, NormRange
  <2>. QED
    BY <1>3, <2>1, <2>2, <2>3
<1>. QED
  BY <1>2, <1>3

(* The length of the list, and where the loop is.                          *)
LEMMA LoopRange ==
    ASSUME TypeOK
    PROVE  /\ Len(list) \in Nat /\ DOMAIN list = 1 .. Len(list)
           /\ i \in Nat \ {0} /\ index \in Nat \ {0}
<1>. DEFINE R == [width : 1 .. Word - 1, height : 1 .. Word - 1,
                  fits : BOOLEAN]
<1>1. list \in Seq(R)
  BY BuffersAssumption DEF TypeOK
<1>2. i \in 1 .. 4 * Len(list) + 1 /\ index \in Nat \ {0}
  BY DEF TypeOK
<1>. HIDE DEF R
<1>3. Len(list) \in Nat /\ DOMAIN list = 1 .. Len(list)
  BY <1>1
<1>. QED
  BY <1>2, <1>3

(* A step of the loop, or of what ends al_camera_new before there is a     *)
(* camera, leaves the buffers as they are: there are none.                 *)
LEMMA NotOpenYet ==
    ASSUME Inv, phase = "choose", phase' # "open",
           UNCHANGED << device, color, data, stride, memory, cb, client,
                        failed, beside >>,
           asserts /\ stopped' = "no" => stopped = "no"
    PROVE  OpenInv' /\ FrameInv' /\ RoomInv' /\ BlocksOwned'
<1>1. /\ cb.pc = "idle" /\ client.pc = "idle" /\ color = "UNKNOWN"
      /\ client.block = NULL /\ \A b \in Buffers : data[b] = NULL
  BY DEF Inv, TypeOK, BuffersInv, OpenInv
<1>2. OpenInv'
  BY <1>1 DEF Inv, BuffersInv, OpenInv
<1>3. FrameInv'
  BY DEF Inv, BuffersInv, FrameInv, device
<1>4. RoomInv'
  BY <1>1 DEF RoomInv, Buffers
<1>5. BlocksOwned'
  BY DEF Inv, BuffersInv, BlocksOwned, memory
<1>. QED
  BY <1>2, <1>3, <1>4, <1>5

(* One step of the loop keeps the first of the nearest modes.              *)
LEMMA CompareStep == ASSUME Inv, Compare PROVE Inv'
<1>1. /\ phase = "choose" /\ stopped = "no" /\ phase' = phase
      /\ i \in Nat \ {0} /\ index \in Nat \ {0} /\ Len(list) \in Nat
      /\ i <= 4 * Len(list) /\ i' = i + 1
      /\ DOMAIN list = 1 .. Len(list)
      /\ UNCHANGED << device, phase, mode, color, data, stride, memory, cb,
                      client, failed, beside, stopped >>
      /\ list' = list /\ request' = request
  BY LoopRange DEF Compare, Choosing, Inv, device, ghosts
<1>2. PICK c \in Entry(i) :
          IF Nearer(c)
          THEN /\ index' = i /\ found' = Mode(c)
               /\ distance' = norm(request, Mode(c))
          ELSE UNCHANGED << index, found, distance >>
  BY DEF Compare
<1>3. /\ norm(request, Mode(c)) \in 0 .. FltMax /\ Mode(c) \in Int \X Int
      /\ IF i <= Len(list) THEN i \in DOMAIN list /\ c = list[i]
         ELSE c \in Beyond
      /\ distance \in 0 .. FltMax /\ FltMax \in Nat
  BY <1>1, EntryNorm, BuffersAssumption DEF Inv, TypeOK
<1>4. TypeOK'
  <2>1. /\ i' \in 1 .. 4 * Len(list') + 1 /\ index' \in Nat \ {0}
        /\ distance' \in 0 .. FltMax /\ found' \in Int \X Int
    <3>1. found \in Int \X Int
      BY DEF Inv, TypeOK
    <3>2. CASE Nearer(c)
      BY <1>1, <1>2, <1>3, <3>2
    <3>3. CASE ~Nearer(c)
      BY <1>1, <1>2, <1>3, <3>1, <3>3
    <3>. QED
      BY <3>2, <3>3
  <2>. QED
    BY <1>1, <2>1 DEF Inv, TypeOK, MemoryType, memory, device
<1>5. LoopInv'
  <2>. DEFINE d(k) == norm(request, Mode(list[k]))
              Is(n, m) == IF n <= Len(list)
                          THEN n \in Offered /\ m = Mode(list[n])
                          ELSE \E e \in Beyond : e.fits /\ m = Mode(e)
  <2>1. Offered' = Offered
    BY <1>1 DEF Offered
  <2>2. \A k \in Offered : k \in 1 .. Len(list) /\ d(k) \in 0 .. FltMax
    BY <1>1, ListNorm DEF Offered, Inv
  <2>3. /\ \A k \in Offered : k < i => d(k) >= distance
        /\ distance < FltMax =>
               /\ index < i /\ norm(request, found) = distance
               /\ Is(index, found)
               /\ \A k \in Offered : k < index => d(k) > distance
    BY DEF Inv, BuffersInv, LoopInv
  <2>4. /\ i \in Offered => /\ d(i) = norm(request, Mode(c))
                            /\ c.fits /\ i <= Len(list)
        /\ c.fits => Is(i, Mode(c))
    BY <1>1, <1>3 DEF Offered
  <2>. HIDE DEF d, Is
  <2>5. /\ \A k \in Offered : k < i' => d(k) >= distance'
        /\ distance' < FltMax =>
               /\ index' < i' /\ norm(request, found') = distance'
               /\ Is(index', found')
               /\ \A k \in Offered : k < index' => d(k) > distance'
    <3>1. CASE Nearer(c)
      <4>1. /\ c.fits /\ norm(request, Mode(c)) < distance
            /\ index' = i /\ found' = Mode(c)
            /\ distance' = norm(request, Mode(c))
        BY <1>2, <3>1 DEF Nearer
      <4>2. \A k \in Offered : k < i => d(k) > distance'
        BY <1>1, <1>3, <2>2, <2>3, <4>1
      <4>3. \A k \in Offered : k < i' => d(k) >= distance'
        BY <1>1, <1>3, <2>2, <2>4, <4>1, <4>2
      <4>. QED
        BY <1>1, <2>4, <4>1, <4>2, <4>3
    <3>2. CASE ~Nearer(c)
      <4>1. /\ c.fits => norm(request, Mode(c)) >= distance
            /\ index' = index /\ found' = found /\ distance' = distance
        BY <1>2, <1>3, <3>2 DEF Nearer
      <4>2. \A k \in Offered : k < i' => d(k) >= distance
        BY <1>1, <1>3, <2>2, <2>3, <2>4, <4>1
      <4>. QED
        BY <1>1, <2>3, <4>1, <4>2
    <3>. QED
      BY <3>1, <3>2
  <2>. QED
    BY <1>1, <2>1, <2>5 DEF LoopInv, d, Is
<1>6. ModeInv'
  BY <1>1 DEF Inv, BuffersInv, ModeInv
<1>7. (OpenInv /\ FrameInv /\ RoomInv /\ BlocksOwned)'
  BY <1>1, NotOpenYet
<1>8. StopsOnlyKnown'
  BY <1>1 DEF StopsOnlyKnown
<1>. QED
  BY <1>4, <1>5, <1>6, <1>7, <1>8 DEF Inv, BuffersInv

(* Nothing of the loop changes when it reads what it may not.              *)
LEMMA ReadFailsStep == ASSUME Inv, ReadFails PROVE Inv'
<1>1. /\ phase = "choose" /\ phase' = phase /\ stopped = "no"
      /\ stopped' = "overrun" /\ Len(list) < i
      /\ UNCHANGED << device, loop, mode, color, data, stride, memory, cb,
                      client, failed, beside >>
      /\ list' = list /\ i' = i
  BY DEF ReadFails, Choosing, ghosts, device, loop
<1>2. TypeOK'
  BY <1>1 DEF Inv, TypeOK, MemoryType, memory, device, loop
<1>3. LoopInv' /\ ModeInv'
  BY <1>1 DEF Inv, BuffersInv, LoopInv, ModeInv, loop, device, Offered
<1>4. (OpenInv /\ FrameInv /\ RoomInv /\ BlocksOwned)'
  BY <1>1, NotOpenYet
<1>5. StopsOnlyKnown'
  BY <1>1 DEF StopsOnlyKnown
<1>. QED
  BY <1>2, <1>3, <1>4, <1>5 DEF Inv, BuffersInv

(* What the loop leaves: a size below the word; when it is not that of a   *)
(* mode, it is from past the list.                                         *)
LEMMA ChosenRange ==
    ASSUME Inv
    PROVE  /\ Chosen \in Int \X Int /\ Chosen[1] < Word /\ Chosen[2] < Word
           /\ ~Positive(Chosen) => index > Len(list)
<1>1. Len(list) \in Nat /\ index \in Nat \ {0}
  BY LoopRange DEF Inv
<1>2. CASE distance < FltMax /\ index <= Len(list)
  <2>1. index \in DOMAIN list /\ found = Mode(list[index])
    BY <1>2 DEF Inv, BuffersInv, LoopInv, Offered
  <2>2. found \in (1 .. Word - 1) \X (1 .. Word - 1)
    BY <2>1, ListNorm DEF Inv
  <2>. QED
    BY <1>2, <2>2, WordPositive DEF Chosen, Positive
<1>3. CASE distance < FltMax /\ ~(index <= Len(list))
  <2>1. \E c \in Beyond : found = Mode(c)
    BY <1>3 DEF Inv, BuffersInv, LoopInv
  <2>2. found \in Int \X Int /\ found[1] < Word /\ found[2] < Word
    BY <2>1, BuffersAssumption DEF Mode
  <2>. QED
    BY <1>1, <1>3, <2>2 DEF Chosen
<1>4. CASE ~(distance < FltMax)
  <2>1. Default \in (1 .. Word - 1) \X (1 .. Word - 1)
    BY BuffersAssumption
  <2>. QED
    BY <1>4, <2>1, WordPositive DEF Chosen, Positive
<1>. QED
  BY <1>2, <1>3, <1>4

(* A size that is none ends al_camera_new, one way or another.             *)
LEMMA OpenFailsStep == ASSUME Inv, OpenFails PROVE Inv'
<1>1. /\ phase = "choose" /\ stopped = "no" /\ mode' = Chosen
      /\ i > 4 * Len(list) /\ index > Len(list) /\ list' = list
      /\ i' = i /\ index' = index /\ asserts' = asserts
      /\ UNCHANGED << device, loop, color, data, stride, memory, cb, client,
                      failed, beside >>
      /\ IF asserts THEN stopped' = "assertion" /\ phase' = phase
         ELSE phase' = "closed" /\ stopped' = stopped
  BY ChosenRange DEF OpenFails, Choosing, ghosts, device, loop
<1>2. /\ phase' \in {"choose", "closed"} /\ stopped' \in {"no", "assertion"}
      /\ phase' = "choose" <=> stopped' = "assertion"
      /\ stopped' = "assertion" => asserts
  <2>1. CASE asserts
    BY <1>1, <2>1
  <2>2. CASE ~asserts
    BY <1>1, <2>2
  <2>. QED
    BY <2>1, <2>2
<1>3. TypeOK'
  <2>1. /\ mode' \in Int \X Int /\ phase' # "open"
        /\ phase' \in {"choose", "open", "closed"}
        /\ stopped' \in {"no", "assertion", "null", "freed", "overrun"}
        /\ data' = [b \in Buffers |-> NULL]
    BY <1>1, <1>2, ChosenRange DEF Inv, TypeOK
  <2>. QED
    BY <1>1, <2>1 DEF Inv, TypeOK, MemoryType, memory, device, loop
<1>4. LoopInv'
  BY <1>1 DEF Inv, BuffersInv, LoopInv, loop, device, Offered
<1>5. ModeInv'
  <2>1. Chosen' = Chosen
    BY <1>1 DEF Chosen, loop
  <2>. QED
    BY <1>1, <1>2, <2>1 DEF ModeInv
<1>6. (OpenInv /\ FrameInv /\ RoomInv /\ BlocksOwned)'
  <2>1. phase' # "open"
    BY <1>2
  <2>. QED
    BY <1>1, <2>1, NotOpenYet
<1>7. StopsOnlyKnown'
  BY <1>1, <1>2 DEF StopsOnlyKnown
<1>. QED
  BY <1>3, <1>4, <1>5, <1>6, <1>7 DEF Inv, BuffersInv

(* The camera opens without buffers, its stride the width of the mode.     *)
LEMMA OpenStep == ASSUME Inv, Open PROVE Inv'
<1>1. /\ mode' = Chosen /\ mode'[1] > 0
      /\ mode' \in (1 .. Word - 1) \X (1 .. Word - 1)
  <2>1. /\ Chosen \in Int \X Int /\ Chosen[1] < Word /\ Chosen[2] < Word
        /\ Chosen[1] > 0 /\ Chosen[2] > 0
    BY ChosenRange DEF Open, Positive
  <2>. QED
    BY <2>1, WordPositive DEF Open
<1>2. TypeOK'
  <2>1. stride' \in 0 .. Word - 1 /\ mode' \in Int \X Int
    BY <1>1, WordPositive DEF Open
  <2>. QED
    BY <1>1, <2>1
       DEF Open, Inv, TypeOK, MemoryType, memory, device, loop, ghosts
<1>3. LoopInv' /\ ModeInv'
  <2>1. Chosen' = Chosen
    BY DEF Open, Chosen, loop
  <2>. QED
    BY <2>1 DEF Open, Inv, BuffersInv, LoopInv, ModeInv, loop, device, Offered
<1>4. OpenInv'
  <2>1. stride' >= mode'[1]
    BY <1>1, WordPositive DEF Open
  <2>2. /\ cb.pc = "idle" /\ client.pc = "idle" /\ client.block = NULL
        /\ UNCHANGED << cb, client, beside, asserts >>
    BY DEF Open, Choosing, Inv, BuffersInv, OpenInv, ghosts, device
  <2>3. phase' = "open"
    BY DEF Open
  <2>. QED
    BY <2>1, <2>2, <2>3 DEF OpenInv, Width
<1>5. FrameInv'
  BY DEF Open, Inv, BuffersInv, FrameInv, ghosts, device
<1>6. RoomInv'
  <2>1. \A b \in Buffers : data'[b] = NULL
    BY DEF Open, Choosing, Inv, TypeOK
  <2>2. "image" \in Buffers /\ client'.pc = "idle"
    BY DEF Open, Choosing, Inv, BuffersInv, OpenInv, Buffers
  <2>. QED
    BY <2>1, <2>2 DEF RoomInv
<1>7. BlocksOwned' /\ StopsOnlyKnown'
  BY DEF Open, Choosing, Inv, BuffersInv, BlocksOwned, StopsOnlyKnown, memory,
         ghosts
<1>. QED
  BY <1>2, <1>3, <1>4, <1>5, <1>6, <1>7 DEF Inv, BuffersInv

-----------------------------------------------------------------------------
(* Blocks and accesses                                                     *)

(* Once the camera is open the loop and the mode stay as they are.         *)
LEMMA ModeKept ==
    ASSUME Inv, UNCHANGED << device, loop, mode >>, phase = "open",
           phase' \in {"open", "closed"}
    PROVE  LoopInv' /\ ModeInv'
<1>1. Chosen' = Chosen
  BY DEF Chosen, loop
<1>. QED
  BY <1>1 DEF Inv, BuffersInv, LoopInv, ModeInv, device, loop, Offered

(* The sizes of an open camera.                                            *)
LEMMA Sizes ==
    ASSUME Inv, phase = "open"
    PROVE  /\ Width \in 1 .. Word - 1 /\ Height \in 1 .. Word - 1
           /\ Width \in Nat /\ Height \in Nat /\ Width > 0 /\ Height > 0
           /\ stride \in Nat /\ client.stride \in Nat
           /\ layout \in {"YUV420SP", "YUV420P"} /\ layout \in Formats
           /\ \A b \in Buffers : Format(b) \in Formats /\ Stride(b) \in Nat
<1>1. /\ Width \in 1 .. Word - 1 /\ Height \in 1 .. Word - 1
      /\ stride \in 0 .. Word - 1
  BY DEF Inv, TypeOK, Width, Height
<1>2. client.stride \in Nat
  <2>1. client.stride \in Strides \cup {0}
    BY DEF Inv, TypeOK
  <2>2. Strides \cup {0} \subseteq Nat
    BY BuffersAssumption, WordPositive
  <2>. QED
    BY <2>1, <2>2
<1>3. layout \in {"YUV420SP", "YUV420P"}
  BY BuffersAssumption DEF Inv, TypeOK
<1>. QED
  BY <1>1, <1>2, <1>3, WordPositive DEF Format, Formats, Buffers, Stride

(* While al_camera_set_stride has no block in hand, and never ran beside a *)
(* frame, the live blocks are those of the buffers.                        *)
LEMMA Owned ==
    ASSUME Inv, ~beside, client.pc # "store"
    PROVE  /\ live = {data[b] : b \in Buffers} \ {NULL}
           /\ \A a, b \in Buffers :
                  data[a] # NULL /\ data[a] = data[b] => a = b
           /\ client.block = NULL
<1>. DEFINE own == {b \in Buffers : data[b] # NULL} \
                       (IF client.pc = "store" THEN {"image"} ELSE {})
<1>1. client.block = NULL
  BY DEF Inv, BuffersInv, OpenInv
<1>2. own = {b \in Buffers : data[b] # NULL}
  OBVIOUS
<1>3. /\ live = {data[b] : b \in own} \cup ({client.block} \ {NULL})
      /\ \A a, b \in own : data[a] = data[b] => a = b
  BY DEF Inv, BuffersInv, BlocksOwned
<1>. HIDE DEF own
<1>. QED
  BY <1>1, <1>2, <1>3

(* The other way, for what a step leaves: d is data, c client, and l live. *)
LEMMA Owns ==
    ASSUME NEW d, NEW c, NEW l,
           l = {d[b] : b \in Buffers} \ {NULL},
           \A a, b \in Buffers : d[a] # NULL /\ d[a] = d[b] => a = b,
           c.block = NULL, c.pc # "store"
    PROVE  LET own == {b \in Buffers : d[b] # NULL} \
                          (IF c.pc = "store" THEN {"image"} ELSE {})
           IN  /\ l = {d[b] : b \in own} \cup ({c.block} \ {NULL})
               /\ \A a, b \in own : d[a] = d[b] => a = b
               /\ c.block \notin {d[b] : b \in own}
<1>. DEFINE own == {b \in Buffers : d[b] # NULL} \
                       (IF c.pc = "store" THEN {"image"} ELSE {})
<1>1. own = {b \in Buffers : d[b] # NULL}
  OBVIOUS
<1>. HIDE DEF own
<1>2. /\ l = {d[b] : b \in own} \cup ({c.block} \ {NULL})
      /\ \A a, b \in own : d[a] = d[b] => a = b
      /\ c.block \notin {d[b] : b \in own}
  BY <1>1
<1>. QED
  BY <1>2 DEF own

(* What an access may end in.                                              *)
LEMMA AccessEnds ==
    ASSUME TypeOK, NEW block \in Blocks \cup {NULL}, NEW n \in Nat,
           Access(block, n)
    PROVE  /\ stopped' \in {"no", "null", "freed", "overrun"}
           /\ stopped' = "null" => block = NULL
           /\ stopped' = "freed" => block # NULL /\ block \notin live
           /\ stopped' = "overrun" => block \in live /\ room[block] < n
<1>1. NULL \notin live
  BY MemoryAssumption DEF TypeOK, MemoryType
<1>2. CASE block = NULL
  BY <1>1, <1>2 DEF Access
<1>3. CASE block # NULL /\ block \notin live
  BY <1>3 DEF Access
<1>4. CASE block \in live /\ room[block] < n
  BY <1>1, <1>4 DEF Access
<1>5. CASE block \in live /\ ~(room[block] < n)
  BY <1>1, <1>5 DEF Access
<1>. QED
  BY <1>2, <1>3, <1>4, <1>5

(* The bytes of an image are a number.                                     *)
LEMMA UsedNatural ==
    ASSUME NEW f \in Formats, NEW w \in Nat, NEW h \in Nat, NEW s \in Nat
    PROVE  Used(f, w, h, s) \in Nat
<1>1. w * h \in Nat /\ s * h \in Nat /\ s * (h \div 2) \in Nat
  <2>1. h \div 2 \in Nat
    OBVIOUS
  <2>. QED
    BY <2>1, Product
<1>. QED
  BY <1>1 DEF Used

(* How a step may end that accesses memory.                                *)
Known(why) ==
    \/ why = "no"
    \/ why = "null" /\ ~asserts /\ failed # {}
    \/ why \in {"null", "freed", "overrun"} /\ beside
    \/ why = "overrun" /\ (Huge \/ (~asserts /\ stride < Width))

(* An access to one of the dense buffers that was allocated ends the       *)
(* program in a known way only.                                            *)
LEMMA DenseAccess ==
    ASSUME Inv, Running, NEW b \in Buffers \ {"image"},
           data[b] # NULL \/ b \in failed,
           ~beside => client.pc # "store",
           Access(data[b], Used(Format(b), Width, Height, Width))
    PROVE  Known(stopped')
<1>. DEFINE n == Used(Format(b), Width, Height, Width)
<1>. USE DEF Running
<1>1. n \in Nat /\ Format(b) \in Formats /\ data[b] \in Blocks \cup {NULL}
  BY Sizes, UsedNatural DEF Inv, TypeOK
<1>2. /\ stopped' \in {"no", "null", "freed", "overrun"}
      /\ stopped' = "null" => data[b] = NULL
      /\ stopped' = "freed" => data[b] # NULL /\ data[b] \notin live
      /\ stopped' = "overrun" => data[b] \in live /\ room[data[b]] < n
  <2>. HIDE DEF n
  <2>1. TypeOK /\ Access(data[b], n)
    BY DEF Inv, n
  <2>. QED
    BY <1>1, <2>1, AccessEnds
<1>3. stopped' = "null" => ~asserts /\ failed # {}
  BY <1>2 DEF Running, Inv, BuffersInv, FrameInv
<1>4. ASSUME ~beside, data[b] # NULL
      PROVE  data[b] \in live /\ room[data[b]] = Bytes(b)
  BY <1>4, Owned DEF Inv, BuffersInv, RoomInv
<1>5. stopped' = "overrun" /\ ~beside => Huge
  <2>. SUFFICES ASSUME stopped' = "overrun", ~beside PROVE Huge
    OBVIOUS
  <2>1. data[b] # NULL /\ Bytes(b) < n
    BY <1>2, <1>4, MemoryAssumption DEF Inv, TypeOK, MemoryType
  <2>2. Bytes(b) \in Nat
    BY <1>1, Sizes, SizeNatural DEF Bytes
  <2>3. Wraps(Format(b), Width, Height)
    BY <1>1, <2>1, <2>2, Sizes, SizeEnough DEF Bytes
  <2>. DEFINE a == Width * Height
  <2>4. a \in Nat
    BY Sizes
  <2>5. a * Samples(Format(b)) >= Word /\ Samples(Format(b)) \in {3, 4}
    BY <1>1, <2>3, SampleValues DEF Wraps
  <2>6. Samples("RGBA") = 4
    BY DEF Samples
  <2>7. Wraps("RGBA", Width, Height) <=> a * 4 >= Word
    BY <2>6 DEF Wraps
  <2>. HIDE DEF a
  <2>8. a * 4 >= Word
    BY <2>4, <2>5, WordPositive
  <2>. QED
    BY <2>7, <2>8 DEF Huge
<1>. QED
  BY <1>2, <1>3, <1>4, <1>5 DEF Known

(* A step that accesses memory changes nothing StopsOnlyKnown is about.    *)
LEMMA KnownStops ==
    ASSUME Known(stopped'),
           UNCHANGED << device, mode, stride, ghosts >>
    PROVE  StopsOnlyKnown'
BY DEF Known, StopsOnlyKnown, device, ghosts, Huge, Width, Height

-----------------------------------------------------------------------------
(* process_image                                                           *)

(* A buffer that is absent gets a block of its own, of the size its format *)
(* and stride call for, or is noted as failed; then the frame goes on to   *)
(* the next buffer.                                                        *)
LEMMA AllocateStep ==
    ASSUME Inv, NEW b \in Buffers, NEW next \in Steps \ {"idle", "copying"},
           \A c \in Buffers : next \in Past(c) => c = b \/ b \in Past(c),
           Allocate(b, next)
    PROVE  Inv'
<1>. DEFINE size == Size(Format(b), Stride(b), Height)
<1>1. /\ phase = "open" /\ stopped = "no" /\ cb.pc = b /\ b # "idle"
      /\ cb' = [pc |-> next, dst |-> NULL]
      /\ UNCHANGED << device, loop, phase, mode, color, stride, client,
                      beside >>
  BY DEF Allocate, Running, Frame, Buffers
<1>2. size \in Nat
  BY <1>1, Sizes, SizeNatural
<1>3. \/ /\ data[b] # NULL
         /\ UNCHANGED << memory, data, failed, stopped >>
      \/ /\ data[b] = NULL
         /\ \E block \in Blocks : /\ Exchange({}, block, size)
                                  /\ data' = [data EXCEPT ![b] = block]
         /\ UNCHANGED << failed, stopped >>
      \/ /\ failed' = failed \cup {b}
         /\ UNCHANGED << memory, data >>
         /\ stopped' = IF asserts THEN "assertion" ELSE "no"
  BY DEF Allocate, Absent
<1>4. TypeOK'
  <2>1. MemoryType' /\ data' \in [Buffers -> Blocks \cup {NULL}]
    <3>1. CASE UNCHANGED << memory, data >>
      BY <3>1 DEF Inv, TypeOK, MemoryType, memory
    <3>2. ASSUME NEW block \in Blocks, Exchange({}, block, size),
                 data' = [data EXCEPT ![b] = block]
          PROVE  MemoryType' /\ data' \in [Buffers -> Blocks \cup {NULL}]
      <4>. HIDE DEF size
      <4>1. MemoryType
        BY DEF Inv, TypeOK
      <4>2. MemoryType'
        BY <1>2, <3>2, <4>1, ExchangeMemory
      <4>. QED
        BY <3>2, <4>2 DEF Inv, TypeOK
    <3>. QED
      BY <1>3, <3>1, <3>2
  <2>2. /\ failed' \subseteq Buffers
        /\ stopped' \in {"no", "assertion", "null", "freed", "overrun"}
    BY <1>1, <1>3 DEF Inv, TypeOK
  <2>3. cb' \in [pc : Steps, dst : Blocks \cup {NULL}]
    BY <1>1
  <2>. QED
    BY <1>1, <2>1, <2>2, <2>3 DEF Inv, TypeOK, device, loop
<1>5. LoopInv' /\ ModeInv'
  BY <1>1, ModeKept
<1>6. OpenInv'
  BY <1>1 DEF Inv, BuffersInv, OpenInv, Width, device
<1>7. FrameInv'
  <2>1. /\ data'[b] # NULL \/ b \in failed'
        /\ \A c \in Buffers : \/ data[c] = NULL /\ c \notin failed
                              \/ data'[c] # NULL \/ c \in failed'
    BY <1>3, MemoryAssumption DEF Inv, TypeOK
  <2>2. \A c \in Buffers :
            cb.pc \in Past(c) => data[c] # NULL \/ c \in failed
    BY DEF Inv, BuffersInv, FrameInv
  <2>3. \A c \in Buffers :
            cb'.pc \in Past(c) => data'[c] # NULL \/ c \in failed'
    BY <1>1, <2>1, <2>2
  <2>4. \A c \in {"yuv420sp", "yuv420p"} :
            color' # "UNKNOWN" => data'[c] # NULL \/ c \in failed'
    BY <1>1, <2>1 DEF Inv, BuffersInv, FrameInv, Buffers
  <2>5. asserts' /\ stopped' = "no" => failed' = {}
    BY <1>1, <1>3 DEF Inv, BuffersInv, FrameInv, device
  <2>. QED
    BY <1>1, <2>3, <2>4, <2>5 DEF FrameInv
<1>8. RoomInv' /\ BlocksOwned'
  <2>1. CASE beside
    BY <1>1, <2>1 DEF RoomInv, BlocksOwned
  <2>2. CASE ~beside
    <3>1. client.pc = "idle"
      BY <1>1, <2>2 DEF Inv, BuffersInv, OpenInv
    <3>2. CASE UNCHANGED << memory, data >>
      <4>1. UNCHANGED << layout, mode, stride, client, live, room, data,
                         beside >>
        BY <1>1, <3>2 DEF memory, device
      <4>2. RoomInv'
        BY <4>1 DEF Inv, BuffersInv, RoomInv, Bytes, Format, Width, Height,
                    StrideBytes
      <4>3. BlocksOwned'
        BY <4>1 DEF Inv, BuffersInv, BlocksOwned
      <4>. QED
        BY <4>2, <4>3
    <3>3. ASSUME NEW block \in Blocks, data[b] = NULL,
                 Exchange({}, block, size), data' = [data EXCEPT ![b] = block]
          PROVE  RoomInv' /\ BlocksOwned'
      <4>1. /\ live = {data[c] : c \in Buffers} \ {NULL}
            /\ \A a, c \in Buffers :
                   data[a] # NULL /\ data[a] = data[c] => a = c
            /\ client.block = NULL
        BY <2>2, <3>1, Owned
      <4>2. /\ live' = live \cup {block} /\ block \notin live
            /\ room'[block] = size /\ block # NULL
            /\ \A c \in Blocks : c # block => room'[c] = room[c]
        <5>. HIDE DEF size
        <5>1. MemoryType /\ block # NULL
          BY MemoryAssumption DEF Inv, TypeOK
        <5>2. block \notin live
          BY <3>3 DEF Exchange
        <5>. QED
          BY <1>2, <3>3, <5>1, <5>2, ExchangeMemory
      <4>3. /\ data'[b] = block
            /\ \A c \in Buffers \ {b} :
                   data'[c] = data[c] /\ data[c] # block
        <5>1. data \in [Buffers -> Blocks \cup {NULL}]
          BY DEF Inv, TypeOK
        <5>2. ASSUME NEW c \in Buffers PROVE data[c] # block
          <6>1. data[c] \in {data[e] : e \in Buffers}
            OBVIOUS
          <6>. QED
            BY <4>1, <4>2, <6>1
        <5>. QED
          BY <3>3, <5>1, <5>2
      <4>4. BlocksOwned'
        <5>1. /\ live' = {data'[c] : c \in Buffers} \ {NULL}
              /\ \A a, c \in Buffers :
                     data'[a] # NULL /\ data'[a] = data'[c] => a = c
          BY <3>3, <4>1, <4>2, <4>3
        <5>2. client'.block = NULL /\ client'.pc # "store"
          BY <1>1, <3>1, <4>1
        <5>. QED
          BY <5>1, <5>2, Owns DEF BlocksOwned
      <4>5. RoomInv'
        <5>1. \A c \in Buffers \ {b} :
                  data'[c] # NULL => room'[data'[c]] = room[data[c]]
          BY <4>2, <4>3 DEF Inv, TypeOK
        <5>2. /\ \A c \in Buffers : Bytes(c)' = Bytes(c)
              /\ StrideBytes(stride)' = StrideBytes(stride)
          BY <1>1 DEF Bytes, Format, StrideBytes, Width, Height, device
        <5>3. /\ b # "image" => size = Bytes(b)
              /\ b = "image" => size = StrideBytes(stride)
          BY DEF Bytes, Stride, Format, StrideBytes
        <5>. HIDE DEF size
        <5>4. /\ \A c \in Buffers \ {"image"} :
                     data[c] # NULL => room[data[c]] = Bytes(c)
              /\ data["image"] # NULL =>
                     room[data["image"]] = StrideBytes(stride)
          BY <2>2, <3>1 DEF Inv, BuffersInv, RoomInv
        <5>5. /\ \A c \in Buffers \ {"image"} :
                     data'[c] # NULL => room'[data'[c]] = Bytes(c)'
              /\ data'["image"] # NULL =>
                     room'[data'["image"]] = StrideBytes(stride)'
          BY <4>2, <4>3, <5>1, <5>2, <5>3, <5>4 DEF Buffers
        <5>. QED
          BY <1>1, <3>1, <5>5 DEF RoomInv
      <4>. QED
        BY <4>4, <4>5
    <3>. QED
      BY <1>3, <3>2, <3>3
  <2>. QED
    BY <2>1, <2>2
<1>9. StopsOnlyKnown'
  BY <1>1, <1>3 DEF StopsOnlyKnown, device
<1>. QED
  BY <1>4, <1>5, <1>6, <1>7, <1>8, <1>9 DEF Inv, BuffersInv

(* Which buffers a frame has passed at each step.                          *)
LEMMA PastSteps ==
    /\ \A b \in Buffers :
           /\ "idle" \notin Past(b) /\ "yuv420sp" \notin Past(b)
           /\ "yuv420p" \in Past(b) => b = "yuv420sp"
           /\ "rgba" \in Past(b) => b \in {"yuv420sp", "yuv420p"}
           /\ \A pc \in {"fill", "image"} : pc \in Past(b) <=> b # "image"
           /\ {"copy", "copying", "pixels"} \subseteq Past(b)
    /\ Past("yuv420sp") = Steps \ {"idle", "yuv420sp"}
    /\ Past("yuv420p") = Steps \ {"idle", "yuv420sp", "yuv420p"}
<1>1. /\ Past("yuv420sp") = Steps \ {"idle", "yuv420sp"}
      /\ Past("yuv420p") = Steps \ {"idle", "yuv420sp", "yuv420p"}
      /\ Past("rgba") = {"fill", "image", "copy", "copying", "pixels"}
      /\ Past("image") = {"copy", "copying", "pixels"}
  BY DEF Past
<1>. QED
  BY <1>1 DEF Buffers, Steps

(* The other steps of the listener leave blocks, sizes and the mode alone. *)
LEMMA BlocksKept ==
    ASSUME Inv, phase = "open", stopped = "no",
           UNCHANGED << device, loop, phase, mode, data, stride, memory,
                        client, failed >>,
           cb' \in [pc : Steps, dst : Blocks \cup {NULL}],
           color' \in {"UNKNOWN", layout},
           stopped' \in {"no", "assertion", "null", "freed", "overrun"},
           beside' \in BOOLEAN, beside => beside',
           ~beside' => cb'.pc = "idle" \/ client.pc = "idle"
    PROVE  /\ TypeOK' /\ LoopInv' /\ ModeInv' /\ OpenInv' /\ RoomInv'
           /\ BlocksOwned'
<1>1. TypeOK'
  BY DEF Inv, TypeOK, MemoryType, memory, device, loop
<1>2. LoopInv' /\ ModeInv'
  BY ModeKept
<1>3. OpenInv'
  <2>1. client.pc # "assert"
    BY DEF Inv, BuffersInv, OpenInv
  <2>2. /\ UNCHANGED << phase, stride, client, asserts, mode >>
        /\ phase = "open"
    BY DEF device
  <2>. QED
    BY <2>1, <2>2 DEF Inv, BuffersInv, OpenInv, Width
<1>4. RoomInv'
  BY DEF Inv, BuffersInv, RoomInv, memory, device, Bytes, Format, Width,
         Height, StrideBytes
<1>5. BlocksOwned'
  BY DEF Inv, BuffersInv, BlocksOwned, memory
<1>. QED
  BY <1>1, <1>2, <1>3, <1>4, <1>5

(* A frame begins; the client may be in al_camera_set_stride.              *)
LEMMA OnImageStep == ASSUME Inv, OnImage PROVE Inv'
<1>1. /\ phase = "open" /\ stopped = "no"
      /\ cb' = [pc |-> "yuv420sp", dst |-> NULL]
      /\ beside' = (beside \/ client.pc # "idle")
      /\ UNCHANGED << device, loop, phase, mode, color, data, stride, memory,
                      client, failed, stopped >>
  BY DEF OnImage, Running, Frame
<1>2. /\ TypeOK' /\ LoopInv' /\ ModeInv' /\ OpenInv' /\ RoomInv'
      /\ BlocksOwned'
  <2>1. /\ cb' \in [pc : Steps, dst : Blocks \cup {NULL}]
        /\ color' \in {"UNKNOWN", layout}
        /\ stopped' \in {"no", "assertion", "null", "freed", "overrun"}
    BY <1>1 DEF Inv, TypeOK, Steps, Buffers
  <2>2. /\ beside' \in BOOLEAN /\ (beside => beside')
        /\ (~beside' => client.pc = "idle")
    BY <1>1 DEF Inv, TypeOK
  <2>. QED
    BY <1>1, <2>1, <2>2, BlocksKept
<1>3. FrameInv'
  BY <1>1, PastSteps DEF Inv, BuffersInv, FrameInv, device
<1>4. StopsOnlyKnown'
  BY <1>1 DEF StopsOnlyKnown
<1>. QED
  BY <1>2, <1>3, <1>4 DEF Inv, BuffersInv

(* The planes are copied to a buffer that was allocated, and fit it.       *)
LEMMA FillStep == ASSUME Inv, Fill PROVE Inv'
<1>1. /\ phase = "open" /\ stopped = "no" /\ cb.pc = "fill"
      /\ cb' = [pc |-> "image", dst |-> NULL] /\ color' = layout
      /\ UNCHANGED << device, loop, phase, mode, data, stride, memory, client,
                      failed, beside >>
  BY DEF Fill, Running, Frame, ghosts
<1>2. \A b \in Buffers \ {"image"} : data[b] # NULL \/ b \in failed
  BY <1>1, PastSteps DEF Inv, BuffersInv, FrameInv
<1>3. Known(stopped')
  <2>1. Native \in Buffers \ {"image"} /\ Format(Native) = layout
    BY <1>1, Sizes DEF Native, Buffers, Format
  <2>2. ~beside => client.pc # "store"
    BY <1>1 DEF Inv, BuffersInv, OpenInv
  <2>. QED
    BY <1>2, <2>1, <2>2, DenseAccess DEF Fill
<1>4. /\ TypeOK' /\ LoopInv' /\ ModeInv' /\ OpenInv' /\ RoomInv'
      /\ BlocksOwned'
  <2>1. /\ cb' \in [pc : Steps, dst : Blocks \cup {NULL}]
        /\ stopped' \in {"no", "assertion", "null", "freed", "overrun"}
    BY <1>1, <1>3 DEF Known, Steps, Buffers
  <2>2. /\ beside' \in BOOLEAN
        /\ (~beside' => client.pc = "idle")
    BY <1>1 DEF Inv, TypeOK, BuffersInv, OpenInv
  <2>. QED
    BY <1>1, <2>1, <2>2, BlocksKept
<1>5. FrameInv'
  BY <1>1, <1>2, PastSteps DEF Inv, BuffersInv, FrameInv, device, Buffers
<1>6. StopsOnlyKnown'
  BY <1>1, <1>3, KnownStops DEF ghosts
<1>. QED
  BY <1>4, <1>5, <1>6 DEF Inv, BuffersInv

(* The copy into the image starts, with the block the image has then.      *)
LEMMA CopyStartStep == ASSUME Inv, CopyStart PROVE Inv'
<1>1. /\ phase = "open" /\ stopped = "no" /\ cb.pc = "copy"
      /\ UNCHANGED << device, loop, phase, mode, color, data, stride, memory,
                      client, failed, beside >>
      /\ \/ /\ layout = "YUV420P" \/ data["image"] = NULL
            /\ stopped' = "no" \/ (asserts /\ stopped' = "assertion")
            /\ cb' = [pc |-> "pixels", dst |-> NULL]
         \/ /\ data["image"] # NULL
            /\ stopped' = "no"
            /\ cb' = [pc |-> "copying", dst |-> data["image"]]
  <2>1. /\ phase = "open" /\ stopped = "no" /\ cb.pc = "copy"
        /\ UNCHANGED << device, loop, phase, mode, color, data, stride,
                        memory, client, failed, beside >>
    BY DEF CopyStart, Running, ghosts
  <2>2. CASE layout = "YUV420P" \/ data["image"] = NULL
    <3>1. /\ stopped' = IF asserts THEN "assertion" ELSE "no"
          /\ cb' = [pc |-> "pixels", dst |-> NULL]
      BY <2>2 DEF CopyStart, Frame
    <3>2. asserts \/ stopped' = "no"
      BY <3>1
    <3>3. stopped' = "no" \/ stopped' = "assertion"
      BY <3>1
    <3>4. stopped' = "no" \/ (asserts /\ stopped' = "assertion")
      BY <3>2, <3>3
    <3>. QED
      BY <2>1, <2>2, <3>1, <3>4
  <2>3. CASE ~(layout = "YUV420P" \/ data["image"] = NULL)
    BY <2>1, <2>3 DEF CopyStart, Frame
  <2>. QED
    BY <2>2, <2>3
<1>2. \A b \in Buffers : data[b] # NULL \/ b \in failed
  BY <1>1, PastSteps DEF Inv, BuffersInv, FrameInv
<1>3. /\ TypeOK' /\ LoopInv' /\ ModeInv' /\ OpenInv' /\ RoomInv'
      /\ BlocksOwned'
  <2>1. /\ cb' \in [pc : Steps, dst : Blocks \cup {NULL}]
        /\ color' \in {"UNKNOWN", layout}
        /\ stopped' \in {"no", "assertion", "null", "freed", "overrun"}
    BY <1>1 DEF Inv, TypeOK, Steps, Buffers
  <2>2. beside' \in BOOLEAN /\ (~beside' => client.pc = "idle")
    BY <1>1 DEF Inv, TypeOK, BuffersInv, OpenInv
  <2>. QED
    BY <1>1, <2>1, <2>2, BlocksKept
<1>4. FrameInv'
  BY <1>1, <1>2 DEF Inv, BuffersInv, FrameInv, device
<1>5. StopsOnlyKnown'
  <2>1. CASE stopped' = "no"
    BY <2>1 DEF StopsOnlyKnown
  <2>2. CASE stopped' # "no"
    <3>1. asserts /\ stopped' = "assertion"
      BY <1>1, <2>2
    <3>2. data["image"] = NULL => failed # {}
      BY <1>2 DEF Buffers
    <3>3. layout = "YUV420P" \/ failed # {}
      BY <1>1, <2>2, <3>2
    <3>. QED
      BY <1>1, <3>1, <3>3 DEF StopsOnlyKnown, device
  <2>. QED
    BY <2>1, <2>2
<1>. QED
  BY <1>3, <1>4, <1>5 DEF Inv, BuffersInv

(* A copy whose block and stride stay what they are fits the block.        *)
LEMMA ImageAccess ==
    ASSUME Inv, ~beside, client.pc = "idle", phase = "open",
           data["image"] # NULL, ~Wraps(layout, stride, Height),
           stride >= Width
    PROVE  /\ data["image"] \in live
           /\ room[data["image"]] >= CopiedBytes
<1>1. /\ data["image"] \in live
      /\ room[data["image"]] = Size(layout, stride, Height)
  BY Owned DEF Inv, BuffersInv, RoomInv, StrideBytes, Buffers
<1>3. Size(layout, stride, Height) >= Used(layout, Width, Height, stride)
  BY Sizes, SizeEnough
<1>4. Size(layout, stride, Height) \in Nat
  BY Sizes, SizeNatural
<1>. DEFINE n == Height \div 2
<1>5. n \in Nat
  BY Sizes
<1>6. Used(layout, Width, Height, stride) = stride * Height + stride * n
  BY Sizes DEF Used
<1>. HIDE DEF n
<1>7. n * Width <= stride * n /\ n * Width \in Nat /\ stride * n \in Nat
  <2>1. (stride - Width) * n >= 0
    BY <1>5, Sizes
  <2>2. (stride - Width) * n = stride * n - n * Width
    BY <1>5, Sizes
  <2>3. n * Width \in Nat /\ stride * n \in Nat
    BY <1>5, Sizes
  <2>. QED
    BY <2>1, <2>2, <2>3
<1>8. Height * stride = stride * Height /\ stride * Height \in Nat
  BY Sizes
<1>9. Size(layout, stride, Height) >= Height * stride + n * Width
  BY <1>3, <1>4, <1>6, <1>7, <1>8
<1>10. Height * Width <= Height * stride /\ Height * Width \in Nat
  <2>1. Height * (stride - Width) >= 0
    BY Sizes
  <2>2. Height * (stride - Width) = Height * stride - Height * Width
    BY Sizes
  <2>. QED
    BY <1>8, <2>1, <2>2, Sizes
<1>11. Size(layout, stride, Height) >= Height * Width
  BY <1>4, <1>7, <1>8, <1>9, <1>10
<1>. QED
  BY <1>1, <1>9, <1>11 DEF n, CopiedBytes

(* memcpy fits the block it writes, unless a stride was set beside it.     *)
LEMMA CopyEndStep == ASSUME Inv, CopyEnd PROVE Inv'
<1>. DEFINE n == CopiedBytes
<1>1. /\ phase = "open" /\ stopped = "no" /\ cb.pc = "copying"
      /\ cb' = [pc |-> "pixels", dst |-> NULL]
      /\ Access(cb.dst, n)
      /\ UNCHANGED << device, loop, phase, mode, color, data, stride, memory,
                      client, failed, beside >>
  BY DEF CopyEnd, Running, Frame, ghosts
<1>2. /\ \A b \in Buffers : data[b] # NULL \/ b \in failed
      /\ ~beside => /\ cb.dst = data["image"] /\ cb.dst # NULL
                    /\ client.pc = "idle"
  BY <1>1, PastSteps DEF Inv, BuffersInv, FrameInv, OpenInv
<1>3. n \in Nat
  <2>1. Height \div 2 \in Nat
    BY <1>1, Sizes
  <2>2. /\ Height * Width \in Nat
        /\ Height * stride + (Height \div 2) * Width \in Nat
    BY <1>1, <2>1, Sizes
  <2>. QED
    BY <2>2 DEF CopiedBytes
<1>4. /\ stopped' \in {"no", "null", "freed", "overrun"}
      /\ stopped' = "null" => cb.dst = NULL
      /\ stopped' = "freed" => cb.dst # NULL /\ cb.dst \notin live
      /\ stopped' = "overrun" => cb.dst \in live /\ room[cb.dst] < n
  <2>. HIDE DEF n
  <2>1. TypeOK /\ cb.dst \in Blocks \cup {NULL}
    BY DEF Inv, TypeOK
  <2>. QED
    BY <1>1, <1>3, <2>1, AccessEnds
<1>5. Known(stopped')
  <2>1. ASSUME ~beside, ~Wraps(layout, stride, Height), stride >= Width
        PROVE  cb.dst \in live /\ room[cb.dst] >= n
    BY <1>1, <1>2, <2>1, ImageAccess
  <2>2. ASSUME ~beside PROVE cb.dst \in live /\ cb.dst # NULL
    BY <1>2, <2>2, Owned DEF Buffers
  <2>3. cb.dst \in live => room[cb.dst] \in Nat
    BY DEF Inv, TypeOK, MemoryType
  <2>4. /\ asserts => stride >= Width
        /\ stride \in Nat /\ Width \in Nat
    BY <1>1, Sizes DEF Inv, BuffersInv, OpenInv
  <2>. HIDE DEF n
  <2>. QED
    BY <1>3, <1>4, <2>1, <2>2, <2>3, <2>4 DEF Known, Huge
<1>6. /\ TypeOK' /\ LoopInv' /\ ModeInv' /\ OpenInv' /\ RoomInv'
      /\ BlocksOwned'
  <2>1. /\ cb' \in [pc : Steps, dst : Blocks \cup {NULL}]
        /\ color' \in {"UNKNOWN", layout}
        /\ stopped' \in {"no", "assertion", "null", "freed", "overrun"}
    BY <1>1, <1>4 DEF Inv, TypeOK, Steps
  <2>2. beside' \in BOOLEAN /\ (~beside' => client.pc = "idle")
    BY <1>1, <1>2 DEF Inv, TypeOK
  <2>. QED
    BY <1>1, <2>1, <2>2, BlocksKept
<1>7. FrameInv'
  BY <1>1, <1>2 DEF Inv, BuffersInv, FrameInv, device
<1>8. StopsOnlyKnown'
  BY <1>1, <1>5, KnownStops DEF ghosts
<1>. QED
  BY <1>6, <1>7, <1>8 DEF Inv, BuffersInv

(* The pixels fit their buffer.                                            *)
LEMMA PixelsStep == ASSUME Inv, Pixels PROVE Inv'
<1>1. /\ phase = "open" /\ stopped = "no" /\ cb.pc = "pixels"
      /\ cb' = [pc |-> "idle", dst |-> NULL]
      /\ UNCHANGED << device, loop, phase, mode, color, data, stride, memory,
                      client, failed, beside >>
  BY DEF Pixels, Running, Frame, ghosts
<1>2. \A b \in Buffers : data[b] # NULL \/ b \in failed
  BY <1>1, PastSteps DEF Inv, BuffersInv, FrameInv
<1>3. Known(stopped')
  <2>1. "rgba" \in Buffers \ {"image"} /\ Format("rgba") = "RGBA"
    BY DEF Buffers, Format
  <2>2. ~beside => client.pc # "store"
    BY <1>1 DEF Inv, BuffersInv, OpenInv
  <2>. QED
    BY <1>2, <2>1, <2>2, DenseAccess DEF Pixels
<1>4. /\ TypeOK' /\ LoopInv' /\ ModeInv' /\ OpenInv' /\ RoomInv'
      /\ BlocksOwned'
  <2>1. /\ cb' \in [pc : Steps, dst : Blocks \cup {NULL}]
        /\ color' \in {"UNKNOWN", layout}
        /\ stopped' \in {"no", "assertion", "null", "freed", "overrun"}
    BY <1>1, <1>3 DEF Inv, TypeOK, Known, Steps
  <2>2. beside' \in BOOLEAN /\ (~beside' => client.pc = "idle")
    BY <1>1 DEF Inv, TypeOK, BuffersInv, OpenInv
  <2>. QED
    BY <1>1, <2>1, <2>2, BlocksKept
<1>5. FrameInv'
  BY <1>1, PastSteps DEF Inv, BuffersInv, FrameInv, device
<1>6. StopsOnlyKnown'
  BY <1>1, <1>3, KnownStops DEF ghosts
<1>. QED
  BY <1>4, <1>5, <1>6 DEF Inv, BuffersInv

-----------------------------------------------------------------------------
(* The client                                                              *)

(* A stride that is asserted not to be asked for ends the program.         *)
LEMMA AssertStrideStep ==
    ASSUME Inv, NEW s \in Strides, AssertStride(s)
    PROVE  Inv'
<1>1. /\ phase = "open" /\ stopped = "no" /\ client.pc = "idle" /\ asserts
      /\ client' = [pc |-> "assert", block |-> NULL, stride |-> s]
      /\ stopped' = "assertion"
      /\ UNCHANGED << device, loop, phase, mode, color, data, stride, memory,
                      cb, failed, beside >>
  BY DEF AssertStride, Running, ghosts
<1>2. TypeOK'
  <2>1. client' \in [pc : {"idle", "assert", "store", "stride"},
                     block : Blocks \cup {NULL}, stride : Strides \cup {0}]
    BY <1>1
  <2>. QED
    BY <1>1, <2>1 DEF Inv, TypeOK, MemoryType, memory, device, loop
<1>3. LoopInv' /\ ModeInv'
  BY <1>1, ModeKept
<1>4. OpenInv' /\ FrameInv'
  BY <1>1 DEF Inv, BuffersInv, OpenInv, FrameInv, Width, device
<1>5. RoomInv'
  <2>1. CASE beside
    BY <1>1, <2>1 DEF RoomInv
  <2>2. CASE ~beside
    <3>1. /\ \A b \in Buffers \ {"image"} :
                 data[b] # NULL => room[data[b]] = Bytes(b)
          /\ UNCHANGED << data, room >> /\ client'.pc = "assert"
      BY <1>1, <2>2 DEF Inv, BuffersInv, RoomInv, memory
    <3>2. \A b \in Buffers : Bytes(b)' = Bytes(b)
      BY <1>1 DEF Bytes, Format, Width, Height, device
    <3>. QED
      BY <3>1, <3>2 DEF RoomInv
  <2>. QED
    BY <2>1, <2>2
<1>6. BlocksOwned'
  <2>1. CASE beside
    BY <1>1, <2>1 DEF BlocksOwned
  <2>2. CASE ~beside
    <3>1. /\ live = {data[b] : b \in Buffers} \ {NULL}
          /\ \A a, b \in Buffers :
                 data[a] # NULL /\ data[a] = data[b] => a = b
      BY <1>1, <2>2, Owned
    <3>2. /\ UNCHANGED << live, data >>
          /\ client'.block = NULL /\ client'.pc # "store"
      BY <1>1 DEF memory
    <3>3. /\ live' = {data'[b] : b \in Buffers} \ {NULL}
          /\ \A a, b \in Buffers :
                 data'[a] # NULL /\ data'[a] = data'[b] => a = b
      BY <3>1, <3>2
    <3>. QED
      BY <3>2, <3>3, Owns DEF BlocksOwned
  <2>. QED
    BY <2>1, <2>2
<1>7. StopsOnlyKnown'
  BY <1>1 DEF StopsOnlyKnown, device
<1>. QED
  BY <1>2, <1>3, <1>4, <1>5, <1>6, <1>7 DEF Inv, BuffersInv

(* realloc takes the block of the image and gives another, of the size for *)
(* the stride to come.                                                     *)
LEMMA ReallocStep ==
    ASSUME Inv, NEW s \in Strides, NEW block \in Blocks, Realloc(s, block)
    PROVE  Inv'
<1>. DEFINE size == StrideBytes(s)
<1>1. /\ phase = "open" /\ stopped = "no" /\ client.pc = "idle"
      /\ (asserts => s >= Width) /\ color # "UNKNOWN"
      /\ Exchange({data["image"]}, block, size)
      /\ client' = [pc |-> "store", block |-> block, stride |-> s]
      /\ beside' = (beside \/ cb.pc # "idle")
      /\ UNCHANGED << device, loop, phase, mode, color, data, stride, cb,
                      failed, stopped >>
  BY DEF Realloc, Running, Apt
<1>2. size \in Nat /\ s \in Nat
  <2>1. s \in Nat
    BY BuffersAssumption, WordPositive
  <2>. QED
    BY <1>1, <2>1, Sizes, SizeNatural DEF StrideBytes
<1>3. MemoryType /\ block # NULL
  BY MemoryAssumption DEF Inv, TypeOK
<1>. HIDE DEF size
<1>4. /\ MemoryType' /\ live' = (live \ {data["image"]}) \cup {block}
      /\ block \notin live \ {data["image"]} /\ room'[block] = size
      /\ \A c \in Blocks \ {data["image"]} :
             c # block => room'[c] = room[c]
  <2>1. block \notin live \ {data["image"]}
    BY <1>1 DEF Exchange
  <2>2. /\ MemoryType' /\ room'[block] = size
        /\ live' = (live \ {data["image"]}) \cup ({block} \ {NULL})
        /\ \A c \in Blocks \ {data["image"]} :
               c # block => room'[c] = room[c]
    <3>. DEFINE gone == {data["image"]}
    <3>1. Exchange(gone, block, size)
      BY <1>1
    <3>. HIDE DEF gone
    <3>2. /\ MemoryType' /\ (block # NULL => room'[block] = size)
          /\ live' = (live \ gone) \cup ({block} \ {NULL})
          /\ \A c \in Blocks \ gone : c # block => room'[c] = room[c]
      <4>1. MemoryType /\ block \in Blocks \cup {NULL} /\ size \in Nat
        BY <1>2, <1>3
      <4>. QED
        BY <3>1, <4>1, ExchangeMemory
    <3>. QED
      BY <1>3, <3>2 DEF gone
  <2>. QED
    BY <1>3, <2>1, <2>2
<1>5. TypeOK'
  <2>1. /\ client' \in [pc : {"idle", "assert", "store", "stride"},
                        block : Blocks \cup {NULL}, stride : Strides \cup {0}]
        /\ beside' \in BOOLEAN
    BY <1>1 DEF Inv, TypeOK
  <2>. QED
    BY <1>1, <1>4, <2>1 DEF Inv, TypeOK, device, loop
<1>6. LoopInv' /\ ModeInv'
  BY <1>1, ModeKept
<1>7. OpenInv'
  BY <1>1, <1>3 DEF Inv, BuffersInv, OpenInv, Width, device
<1>8. FrameInv'
  BY <1>1 DEF Inv, BuffersInv, FrameInv, device
<1>9. RoomInv' /\ BlocksOwned'
  <2>1. CASE beside'
    BY <2>1 DEF RoomInv, BlocksOwned
  <2>2. CASE ~beside'
    <3>1. ~beside
      BY <1>1, <2>2
    <3>2. /\ live = {data[c] : c \in Buffers} \ {NULL}
          /\ \A a, c \in Buffers :
                 data[a] # NULL /\ data[a] = data[c] => a = c
      BY <1>1, <3>1, Owned
    <3>. DEFINE own == {c \in Buffers : data[c] # NULL} \ {"image"}
    <3>3. \A c \in own : /\ data[c] \in Blocks /\ data[c] # data["image"]
                         /\ data[c] # block
      <4>. SUFFICES ASSUME NEW c \in own
                    PROVE  /\ data[c] \in Blocks /\ data[c] # data["image"]
                           /\ data[c] # block
        OBVIOUS
      <4>1. c \in Buffers /\ "image" \in Buffers /\ c # "image"
            /\ data[c] # NULL
        BY DEF Buffers
      <4>2. data[c] \in live /\ data[c] # data["image"]
        BY <3>2, <4>1
      <4>. QED
        BY <1>3, <1>4, <4>2 DEF MemoryType
    <3>4. live' = {data[c] : c \in own} \cup {block}
      <4>1. live \ {data["image"]} = {data[c] : c \in own}
        BY <3>2, <3>3 DEF Buffers
      <4>. QED
        BY <1>4, <4>1
    <3>5. BlocksOwned'
      <4>1. own = {c \in Buffers : data'[c] # NULL} \
                      (IF client'.pc = "store" THEN {"image"} ELSE {})
        BY <1>1
      <4>2. client'.block = block /\ data' = data
        BY <1>1
      <4>. HIDE DEF own
      <4>3. /\ live' = {data'[c] : c \in own} \cup ({client'.block} \ {NULL})
            /\ client'.block \notin {data'[c] : c \in own}
        BY <1>3, <3>3, <3>4, <4>2
      <4>4. \A a, c \in own : data'[a] = data'[c] => a = c
        BY <3>2, <4>2 DEF own
      <4>. QED
        BY <4>1, <4>3, <4>4 DEF BlocksOwned
    <3>6. RoomInv'
      <4>1. \A c \in Buffers \ {"image"} :
                data[c] # NULL => room'[data[c]] = Bytes(c)
        BY <1>4, <3>1, <3>3 DEF Inv, BuffersInv, RoomInv
      <4>2. \A c \in Buffers : Bytes(c)' = Bytes(c)
        BY <1>1 DEF Bytes, Format, Width, Height, device
      <4>3. StrideBytes(client.stride)' = size
        <5>1. client'.stride = s /\ layout' = layout /\ mode' = mode
          BY <1>1 DEF device
        <5>. QED
          BY <5>1 DEF StrideBytes, size, Height
      <4>4. /\ client'.pc = "store" /\ room'[client'.block] = size
            /\ data' = data
        BY <1>1, <1>4
      <4>. QED
        BY <4>1, <4>2, <4>3, <4>4 DEF RoomInv
    <3>. QED
      BY <3>5, <3>6
  <2>. QED
    BY <1>1, <2>1, <2>2
<1>10. StopsOnlyKnown'
  BY <1>1 DEF StopsOnlyKnown
<1>. QED
  BY <1>5, <1>6, <1>7, <1>8, <1>9, <1>10 DEF Inv, BuffersInv

(* The image gets the block that realloc gave.                             *)
LEMMA StoreDataStep == ASSUME Inv, StoreData PROVE Inv'
<1>1. /\ phase = "open" /\ stopped = "no" /\ client.pc = "store"
      /\ data' = [data EXCEPT !["image"] = client.block]
      /\ client' = [client EXCEPT !.pc = "stride", !.block = NULL]
      /\ UNCHANGED << device, loop, phase, mode, color, stride, memory, cb,
                      ghosts, stopped, failed, beside >>
  BY DEF StoreData, Running, ghosts
<1>2. /\ client.block \in Blocks /\ client.block # NULL
      /\ client'.pc = "stride" /\ client'.block = NULL
      /\ client'.stride = client.stride
      /\ client' \in [pc : {"idle", "assert", "store", "stride"},
                      block : Blocks \cup {NULL}, stride : Strides \cup {0}]
  <2>1. client \in [pc : {"idle", "assert", "store", "stride"},
                    block : Blocks \cup {NULL}, stride : Strides \cup {0}]
    BY DEF Inv, TypeOK
  <2>2. client.block # NULL
    BY <1>1 DEF Inv, BuffersInv, OpenInv
  <2>. QED
    BY <1>1, <2>1, <2>2
<1>3. /\ data' \in [Buffers -> Blocks \cup {NULL}]
      /\ data'["image"] = client.block
      /\ \A b \in Buffers \ {"image"} : data'[b] = data[b]
  BY <1>1, <1>2 DEF Inv, TypeOK, Buffers
<1>4. TypeOK'
  BY <1>1, <1>2, <1>3
     DEF Inv, TypeOK, MemoryType, memory, device, loop, ghosts
<1>5. LoopInv' /\ ModeInv'
  BY <1>1, ModeKept
<1>6. OpenInv'
  BY <1>1, <1>2 DEF Inv, BuffersInv, OpenInv, Width, device
<1>7. FrameInv'
  <2>1. \A b \in Buffers : data[b] # NULL => data'[b] # NULL
    BY <1>2, <1>3
  <2>2. ~beside => cb.pc = "idle"
    BY <1>1 DEF Inv, BuffersInv, OpenInv
  <2>. QED
    BY <1>1, <2>1, <2>2 DEF Inv, BuffersInv, FrameInv, device, Buffers
<1>8. RoomInv' /\ BlocksOwned'
  <2>1. CASE beside
    BY <1>1, <2>1 DEF RoomInv, BlocksOwned
  <2>2. CASE ~beside
    <3>. DEFINE own == {b \in Buffers : data[b] # NULL} \ {"image"}
    <3>1. /\ live = {data[b] : b \in own} \cup {client.block}
          /\ \A a, b \in own : data[a] = data[b] => a = b
          /\ client.block \notin {data[b] : b \in own}
      <4>1. own = {b \in Buffers : data[b] # NULL} \
                      (IF client.pc = "store" THEN {"image"} ELSE {})
        BY <1>1
      <4>. HIDE DEF own
      <4>. QED
        BY <1>2, <2>2, <4>1 DEF Inv, BuffersInv, BlocksOwned
    <3>2. BlocksOwned'
      <4>1. live' = {data'[b] : b \in Buffers} \ {NULL}
        BY <1>1, <1>2, <1>3, <3>1 DEF memory, Buffers
      <4>2. \A a, b \in Buffers :
                data'[a] # NULL /\ data'[a] = data'[b] => a = b
        BY <1>3, <3>1
      <4>. QED
        BY <1>2, <4>1, <4>2, Owns DEF BlocksOwned
    <3>3. RoomInv'
      <4>1. /\ \A b \in Buffers : Bytes(b)' = Bytes(b)
            /\ StrideBytes(client.stride)' = StrideBytes(client.stride)
        BY <1>1, <1>2
           DEF Bytes, Format, StrideBytes, Width, Height, device
      <4>2. /\ \A b \in Buffers \ {"image"} :
                   data[b] # NULL => room[data[b]] = Bytes(b)
            /\ room[client.block] = StrideBytes(client.stride)
        BY <1>1, <2>2 DEF Inv, BuffersInv, RoomInv
      <4>3. room' = room
        BY <1>1 DEF memory
      <4>. QED
        BY <1>2, <1>3, <4>1, <4>2, <4>3 DEF RoomInv
    <3>. QED
      BY <3>2, <3>3
  <2>. QED
    BY <2>1, <2>2
<1>9. StopsOnlyKnown'
  BY <1>1 DEF StopsOnlyKnown
<1>. QED
  BY <1>4, <1>5, <1>6, <1>7, <1>8, <1>9 DEF Inv, BuffersInv

(* The image gets the stride its block was made for.                       *)
LEMMA StoreStrideStep == ASSUME Inv, StoreStride PROVE Inv'
<1>1. /\ phase = "open" /\ stopped = "no" /\ client.pc = "stride"
      /\ stride' = client.stride
      /\ client' = [pc |-> "idle", block |-> NULL, stride |-> 0]
      /\ UNCHANGED << device, loop, phase, mode, color, data, memory, cb,
                      ghosts, stopped, failed, beside >>
  BY DEF StoreStride, Running, ghosts
<1>2. TypeOK'
  <2>1. stride' \in 0 .. Word - 1
    <3>1. client.stride \in Strides \cup {0}
      BY DEF Inv, TypeOK
    <3>2. Strides \cup {0} \subseteq 0 .. Word - 1
      BY BuffersAssumption, WordPositive
    <3>. QED
      BY <1>1, <3>1, <3>2
  <2>. QED
    BY <1>1, <2>1 DEF Inv, TypeOK, MemoryType, memory, device, loop, ghosts
<1>3. LoopInv' /\ ModeInv'
  BY <1>1, ModeKept
<1>4. OpenInv'
  BY <1>1 DEF Inv, BuffersInv, OpenInv, Width, device
<1>5. FrameInv'
  BY <1>1 DEF Inv, BuffersInv, FrameInv, device
<1>6. RoomInv'
  <2>1. /\ \A b \in Buffers : Bytes(b)' = Bytes(b)
        /\ StrideBytes(stride)' = StrideBytes(client.stride)
    BY <1>1 DEF Bytes, Format, StrideBytes, Width, Height, device
  <2>. QED
    BY <1>1, <2>1 DEF Inv, BuffersInv, RoomInv, memory
<1>7. BlocksOwned'
  <2>1. CASE beside
    BY <1>1, <2>1 DEF BlocksOwned
  <2>2. CASE ~beside
    BY <1>1, <2>2, Owned, Owns DEF BlocksOwned, memory
  <2>. QED
    BY <2>1, <2>2
<1>8. StopsOnlyKnown'
  BY <1>1 DEF StopsOnlyKnown
<1>. QED
  BY <1>2, <1>3, <1>4, <1>5, <1>6, <1>7, <1>8 DEF Inv, BuffersInv

(* A frame in the other format was allocated with the frame it is made of. *)
LEMMA ConvertStep == ASSUME Inv, Convert PROVE Inv'
<1>1. /\ phase = "open" /\ stopped = "no" /\ client.pc = "idle"
      /\ color # "UNKNOWN"
      /\ IF data["yuv420sp"] = NULL THEN Access(NULL, 0)
         ELSE Access(data["yuv420p"], Used("YUV420P", Width, Height, Width))
      /\ UNCHANGED << device, loop, phase, mode, color, data, stride, memory,
                      cb, client, failed, beside >>
  BY DEF Convert, Running, ghosts
<1>2. \A b \in {"yuv420sp", "yuv420p"} : data[b] # NULL \/ b \in failed
  BY <1>1 DEF Inv, BuffersInv, FrameInv
<1>3. Known(stopped')
  <2>1. CASE data["yuv420sp"] = NULL
    <3>1. stopped' = "null"
      <4>1. NULL \notin live
        BY MemoryAssumption DEF Inv, TypeOK, MemoryType
      <4>. QED
        BY <1>1, <2>1, <4>1 DEF Access
    <3>2. ~asserts /\ failed # {}
      BY <1>1, <1>2, <2>1 DEF Inv, BuffersInv, FrameInv
    <3>. QED
      BY <3>1, <3>2 DEF Known
  <2>2. CASE data["yuv420sp"] # NULL
    <3>1. "yuv420p" \in Buffers \ {"image"} /\ Format("yuv420p") = "YUV420P"
      BY DEF Buffers, Format
    <3>. QED
      BY <1>1, <1>2, <2>2, <3>1, DenseAccess DEF Running
  <2>. QED
    BY <2>1, <2>2
<1>4. /\ TypeOK' /\ LoopInv' /\ ModeInv' /\ OpenInv' /\ RoomInv'
      /\ BlocksOwned'
  <2>1. /\ cb' \in [pc : Steps, dst : Blocks \cup {NULL}]
        /\ color' \in {"UNKNOWN", layout} /\ beside' \in BOOLEAN
        /\ stopped' \in {"no", "assertion", "null", "freed", "overrun"}
    BY <1>1, <1>3 DEF Inv, TypeOK, Known
  <2>. QED
    BY <1>1, <2>1, BlocksKept
<1>5. FrameInv'
  BY <1>1 DEF Inv, BuffersInv, FrameInv, device
<1>6. StopsOnlyKnown'
  BY <1>1, <1>3, KnownStops DEF ghosts
<1>. QED
  BY <1>4, <1>5, <1>6 DEF Inv, BuffersInv

(* al_camera_free gives every block back.                                  *)
LEMMA CloseStep == ASSUME Inv, Close PROVE Inv'
<1>1. /\ phase = "open" /\ stopped = "no" /\ client.pc = "idle"
      /\ cb.pc = "idle" /\ phase' = "closed"
      /\ Exchange({data[b] : b \in Buffers}, NULL, 0)
      /\ data' = [b \in Buffers |-> NULL]
      /\ color' = "UNKNOWN" /\ stride' = 0
      /\ UNCHANGED << device, loop, mode, cb, client, failed, beside, stopped >>
  BY DEF Close, Running, ghosts
<1>2. MemoryType' /\ live' = live \ {data[b] : b \in Buffers}
  <2>1. MemoryType
    BY DEF Inv, TypeOK
  <2>2. /\ MemoryType'
        /\ live' = (live \ {data[b] : b \in Buffers}) \cup ({NULL} \ {NULL})
    BY <1>1, <2>1, ExchangeMemory
  <2>. QED
    BY <2>2
<1>3. TypeOK'
  BY <1>1, <1>2, WordPositive DEF Inv, TypeOK, device, loop
<1>4. LoopInv' /\ ModeInv'
  BY <1>1, ModeKept
<1>5. OpenInv'
  BY <1>1 DEF Inv, BuffersInv, OpenInv
<1>6. FrameInv'
  BY <1>1, PastSteps DEF Inv, BuffersInv, FrameInv, device
<1>7. RoomInv'
  BY <1>1 DEF RoomInv, Buffers
<1>8. BlocksOwned'
  <2>1. CASE beside
    BY <1>1, <2>1 DEF BlocksOwned
  <2>2. CASE ~beside
    <3>1. /\ live = {data[b] : b \in Buffers} \ {NULL}
          /\ client'.block = NULL /\ client'.pc # "store"
      BY <1>1, <2>2, Owned
    <3>2. live' = {}
      BY <1>2, <3>1
    <3>3. \A b \in Buffers : data'[b] = NULL
      BY <1>1
    <3>4. live' = {data'[b] : b \in Buffers} \ {NULL}
      BY <3>2, <3>3
    <3>. QED
      BY <3>1, <3>3, <3>4, Owns DEF BlocksOwned
  <2>. QED
    BY <2>1, <2>2
<1>9. StopsOnlyKnown'
  BY <1>1 DEF StopsOnlyKnown
<1>. QED
  BY <1>3, <1>4, <1>5, <1>6, <1>7, <1>8, <1>9 DEF Inv, BuffersInv

-----------------------------------------------------------------------------
(* The specification                                                       *)

(* No mode yet, no buffer and no frame.                                    *)
LEMMA InitInv == Init => Inv
<1>. SUFFICES ASSUME Init PROVE Inv
  OBVIOUS
<1>1. TypeOK
  <2>1. MemoryType
    BY DEF Init, NoMemory, MemoryType
  <2>2. /\ mode \in Int \X Int /\ found \in Int \X Int
        /\ distance \in 0 .. FltMax /\ stride \in 0 .. Word - 1
    BY BuffersAssumption, WordPositive DEF Init
  <2>3. i \in 1 .. 4 * Len(list) + 1 /\ index \in Nat \ {0}
    <3>. DEFINE R == [width : 1 .. Word - 1, height : 1 .. Word - 1,
                      fits : BOOLEAN]
    <3>1. list \in Seq(R)
      BY BuffersAssumption DEF Init
    <3>. HIDE DEF R
    <3>2. Len(list) \in Nat
      BY <3>1
    <3>. QED
      BY <3>2 DEF Init
  <2>4. /\ cb \in [pc : Steps, dst : Blocks \cup {NULL}]
        /\ client \in [pc : {"idle", "assert", "store", "stride"},
                       block : Blocks \cup {NULL}, stride : Strides \cup {0}]
        /\ data \in [Buffers -> Blocks \cup {NULL}]
    BY DEF Init, Steps
  <2>. QED
    BY <2>1, <2>2, <2>3, <2>4 DEF Init, TypeOK
<1>2. LoopInv /\ ModeInv
  <2>1. \A k \in Offered : k >= 1
    <3>1. DOMAIN list = 1 .. Len(list)
      BY BuffersAssumption DEF Init
    <3>. QED
      BY <3>1 DEF Offered
  <2>. QED
    BY <2>1, BuffersAssumption DEF Init, LoopInv, ModeInv, Offered
<1>3. OpenInv /\ FrameInv
  BY PastSteps DEF Init, OpenInv, FrameInv
<1>4. RoomInv
  BY DEF Init, RoomInv, Buffers
<1>5. BlocksOwned
  <2>1. live = {data[b] : b \in Buffers} \ {NULL}
    BY DEF Init, NoMemory
  <2>2. \A b \in Buffers : data[b] = NULL
    BY DEF Init
  <2>3. client.block = NULL /\ client.pc # "store"
    BY DEF Init
  <2>. QED
    BY <2>1, <2>2, <2>3, Owns DEF BlocksOwned
<1>6. StopsOnlyKnown
  BY DEF Init, StopsOnlyKnown
<1>. QED
  BY <1>1, <1>2, <1>3, <1>4, <1>5, <1>6 DEF Inv, BuffersInv

(* Every step of the listener and of the client preserves the invariant.   *)
LEMMA NextInv == Inv /\ [Next]_vars => Inv'
<1>. SUFFICES ASSUME Inv, [Next]_vars PROVE Inv'
  OBVIOUS
<1>1. CASE Listener
  <2>1. CASE Allocate("yuv420sp", "yuv420p")
    <3>1. "yuv420sp" \in Buffers /\ "yuv420p" \in Steps \ {"idle", "copying"}
      BY DEF Buffers, Steps
    <3>. QED
      BY <2>1, <3>1, PastSteps, AllocateStep
  <2>2. CASE Allocate("yuv420p", "rgba")
    <3>1. /\ "yuv420p" \in Buffers /\ "rgba" \in Steps \ {"idle", "copying"}
          /\ "yuv420p" \in Past("yuv420sp")
      BY PastSteps DEF Buffers, Steps
    <3>. QED
      BY <2>2, <3>1, PastSteps, AllocateStep
  <2>3. CASE Allocate("rgba", "fill")
    <3>1. /\ "rgba" \in Buffers /\ "fill" \in Steps \ {"idle", "copying"}
          /\ \A c \in Buffers : c = "image" \/ c = "rgba" \/ "rgba" \in Past(c)
      BY PastSteps DEF Buffers, Steps
    <3>. QED
      BY <2>3, <3>1, PastSteps, AllocateStep
  <2>4. CASE Allocate("image", "copy")
    <3>1. "image" \in Buffers /\ "copy" \in Steps \ {"idle", "copying"}
      BY DEF Buffers, Steps
    <3>. QED
      BY <2>4, <3>1, PastSteps, AllocateStep
  <2>. QED
    BY <1>1, <2>1, <2>2, <2>3, <2>4, OnImageStep, FillStep, CopyStartStep,
       CopyEndStep, PixelsStep DEF Listener
<1>2. CASE Client
  BY <1>2, CompareStep, ReadFailsStep, OpenStep, OpenFailsStep, CloseStep,
     AssertStrideStep, ReallocStep, StoreDataStep, StoreStrideStep, ConvertStep
     DEF Client
<1>3. CASE UNCHANGED vars
  <2>1. UNCHANGED << request, list, layout, asserts, i, index, distance, found,
                     phase, mode, color, data, stride, live, room, cb, client,
                     failed, beside, stopped >>
    BY <1>3 DEF vars, device, loop, memory, ghosts
  <2>2. TypeOK' /\ LoopInv' /\ ModeInv' /\ OpenInv' /\ FrameInv'
    BY <2>1 DEF Inv, TypeOK, MemoryType, BuffersInv, LoopInv, Offered, ModeInv,
                Chosen, OpenInv, FrameInv, Width
  <2>3. RoomInv'
    BY <2>1 DEF Inv, BuffersInv, RoomInv, Bytes, Format, StrideBytes, Width,
                Height
  <2>4. BlocksOwned' /\ StopsOnlyKnown'
    BY <2>1 DEF Inv, BuffersInv, BlocksOwned, StopsOnlyKnown, Huge, Width,
                Height
  <2>. QED
    BY <2>2, <2>3, <2>4 DEF Inv, BuffersInv
<1>. QED
  BY <1>1, <1>2, <1>3 DEF Next, Ended

(* The inductive invariant holds in every reachable state.                 *)
THEOREM Invariance == Spec => []Inv
BY InitInv, NextInv, PTL DEF Spec

-----------------------------------------------------------------------------
(* The properties                                                          *)

(* Every variable keeps its type, and a camera that is not open has no     *)
(* buffers.                                                                *)
THEOREM TypeCorrect == Spec => []TypeOK
<1>1. Inv => TypeOK
  BY DEF Inv
<1>. QED
  BY <1>1, Invariance, PTL

(* Of the modes the list offers the loop of get_camera_metadata keeps the  *)
(* first of the nearest; whatever it reads past the list, it takes that    *)
(* only if it is nearer than every mode offered; and the default stays     *)
(* only if no offered mode is within a float.  For every list of           *)
(* configurations, every request and every content of the memory behind.   *)
THEOREM NearestChosen == Spec => []NearestMode
<1>1. Inv => NearestMode
  <2>. SUFFICES ASSUME Inv, phase = "open" PROVE NearestMode
    BY DEF NearestMode
  <2>. DEFINE d(k) == norm(request, Mode(list[k]))
              near == {k \in Offered : d(k) < FltMax}
              best == {k \in near : \A n \in Offered : d(k) <= d(n)}
              past == \E c \in Beyond : c.fits /\ found = Mode(c)
  <2>1. \A k \in Offered :
            /\ k \in 1 .. Len(list) /\ k < i /\ d(k) \in 0 .. FltMax
    <3>. SUFFICES ASSUME NEW k \in Offered
                  PROVE  k \in 1 .. Len(list) /\ k < i /\ d(k) \in 0 .. FltMax
      OBVIOUS
    <3>1. k \in 1 .. Len(list) /\ d(k) \in 0 .. FltMax
      BY ListNorm DEF Offered, Inv
    <3>2. i > 4 * Len(list) /\ i \in Nat /\ Len(list) \in Nat
      BY LoopRange DEF Inv, BuffersInv, ModeInv
    <3>. QED
      BY <3>1, <3>2
  <2>2. /\ \A k \in Offered : k < i => d(k) >= distance
        /\ distance < FltMax =>
               /\ norm(request, found) = distance
               /\ \/ /\ index <= Len(list) /\ index \in Offered
                     /\ found = Mode(list[index]) /\ d(index) = distance
                  \/ index > Len(list) /\ past
               /\ \A k \in Offered : k < index => d(k) > distance
        /\ mode = IF distance < FltMax THEN found ELSE Default
        /\ distance \in 0 .. FltMax /\ FltMax \in Nat
        /\ Len(list) \in Nat /\ index \in Nat \ {0}
    BY BuffersAssumption, LoopRange
       DEF Inv, TypeOK, BuffersInv, LoopInv, ModeInv, Chosen
  <2>. HIDE DEF d, past
  <2>3. CASE distance < FltMax /\ index <= Len(list)
    <3>1. index \in best /\ mode = Mode(list[index])
      BY <2>1, <2>2, <2>3
    <3>2. \A n \in best : index <= n
      BY <2>1, <2>2, <2>3
    <3>. QED
      BY <3>1, <3>2 DEF NearestMode, d
  <2>4. CASE distance < FltMax /\ index > Len(list)
    <3>1. past /\ mode = found
      BY <2>2, <2>4
    <3>2. \A n \in Offered : norm(request, mode) < d(n)
      BY <2>1, <2>2, <2>4
    <3>3. list # << >>
      <4>1. ASSUME Len(list) = 0 PROVE FALSE
        <5>1. i \in 1 .. 4 * Len(list) + 1 /\ index < i
          BY <2>4 DEF Inv, TypeOK, BuffersInv, LoopInv
        <5>. QED
          BY <2>2, <4>1, <5>1
      <4>. QED
        BY <4>1
    <3>. QED
      BY <3>1, <3>2, <3>3 DEF NearestMode, d, past
  <2>5. CASE ~(distance < FltMax)
    <3>1. near = {} /\ mode = Default
      BY <2>1, <2>2, <2>5
    <3>. QED
      BY <3>1 DEF NearestMode, d
  <2>. QED
    BY <2>2, <2>3, <2>4, <2>5
<1>. QED
  BY <1>1, Invariance, PTL

(* Through failed allocations, frames, new strides and the end, each live  *)
(* block has one owner; unless a stride was set beside a frame.            *)
THEOREM BlocksOwnedOnce == Spec => []BlocksOwned
<1>1. Inv => BlocksOwned
  BY DEF Inv, BuffersInv
<1>. QED
  BY <1>1, Invariance, PTL

(* Nothing else ends the program: an access to a freed or a short block    *)
(* needs a stride set beside a frame, sizes whose product leaves a size_t, *)
(* or a stride below the width, which only a build without assertions      *)
(* takes, or else is a read past the list of modes; one to a null pointer  *)
(* needs an allocation that failed in a build without assertions.          *)
THEOREM StopsKnown == Spec => []StopsOnlyKnown
<1>1. Inv => StopsOnlyKnown
  BY DEF Inv, BuffersInv
<1>. QED
  BY <1>1, Invariance, PTL
=============================================================================
