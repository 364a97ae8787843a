------------------------- MODULE ImageBlocksProofs -------------------------
(***************************************************************************)
(* Proofs about ImageBlocks, for a size_t of every even number of bits,    *)
(* every unit of strides and every set of sizes a client asks for, zero    *)
(* and the largest ones too.  The properties are inductive with the types; *)
(* what they rest on is the arithmetic of al_image_alloc.                  *)
(***************************************************************************)
EXTENDS ImageBlocks, TLAPS

-----------------------------------------------------------------------------
(* The arithmetic                                                          *)

(* There is at least one number in a size_t.                               *)
LEMMA WordPositive == Root \in Nat \ {0} /\ Word \in Nat \ {0}
BY MemoryAssumption DEF Word

(* A size_t holds what is left of a number modulo its range.               *)
LEMMA ModWord == ASSUME NEW x \in Nat PROVE x % Word \in 0 .. Word - 1
BY WordPositive

(* A product of sizes is a natural number, and not zero if none of them is.*)
LEMMA Product ==
    ASSUME NEW x \in Nat, NEW y \in Nat
    PROVE  x * y \in Nat /\ (x > 0 /\ y > 0 => x * y >= x /\ x * y >= y)
<1>1. x * y \in Nat
  OBVIOUS
<1>2. ASSUME x > 0, y > 0 PROVE x * y >= x /\ x * y >= y
  <2>1. x * (y - 1) >= 0 /\ (x - 1) * y >= 0
    BY <1>2
  <2>2. x * (y - 1) = x * y - x /\ (x - 1) * y = x * y - y
    OBVIOUS
  <2>. QED
    BY <1>1, <2>1, <2>2
<1>. QED
  BY <1>1, <1>2

(* Every format has three or four samples for each one or two bytes.       *)
LEMMA SampleValues ==
    ASSUME NEW f \in Formats
    PROVE  \/ Samples(f) = 4 /\ Halves(f) = 1 /\ f = "RGBA"
           \/ Samples(f) = 3 /\ Halves(f) = 2 /\ f # "RGBA"
BY DEF Formats, Samples, Halves

(* The size al_image_alloc asks the allocator for is a number.             *)
LEMMA SizeNatural ==
    ASSUME NEW f \in Formats, NEW s \in Nat, NEW h \in Nat
    PROVE  Size(f, s, h) \in Nat
<1>. DEFINE p == s * h * Samples(f)
<1>1. p \in Nat
  BY SampleValues
<1>2. p % Word \in Nat
  BY <1>1, ModWord
<1>. QED
  BY <1>2, SampleValues DEF Size

(* Unless the product left a size_t, the size is not zero, and enough for  *)
(* rows as long as the stride and as many chroma rows, and for pixels that *)
(* are written one after the other.                                        *)
LEMMA SizeEnough ==
    ASSUME NEW f \in Formats, NEW w \in Nat, NEW s \in Nat, NEW h \in Nat,
           w > 0, h > 0, s >= w, ~Wraps(f, s, h)
    PROVE  Size(f, s, h) > 0 /\ Size(f, s, h) >= Used(f, w, h, s)
<1>. DEFINE a == s * h  p == a * Samples(f)
<1>1. a \in Nat /\ a >= h /\ a > 0
  BY Product
<1>2. p \in Nat /\ p < Word
  <2>1. Samples(f) \in {3, 4}
    BY SampleValues
  <2>2. ~(p >= Word)
    BY DEF Wraps
  <2>3. p \in Nat
    BY <1>1, <2>1
  <2>. HIDE DEF p
  <2>. QED
    BY <2>2, <2>3, WordPositive
<1>3. p % Word = p
  BY <1>2, WordPositive
<1>4. CASE f = "RGBA"
  <2>1. Size(f, s, h) = 4 * a
    BY <1>1, <1>3, <1>4, SampleValues DEF Size
  <2>2. (s - w) * h >= 0 /\ (s - w) * h = a - w * h
    OBVIOUS
  <2>. QED
    BY <1>1, <1>4, <2>1, <2>2 DEF Used
<1>5. CASE f # "RGBA"
  <2>1. Size(f, s, h) = (3 * a) \div 2
    BY <1>1, <1>3, <1>5, SampleValues DEF Size
  <2>2. h \div 2 \in Nat /\ 2 * (h \div 2) <= h
    OBVIOUS
  <2>. DEFINE c == s * (h \div 2)
  <2>3. c \in Nat /\ 2 * c <= a
    <3>1. s * (h - 2 * (h \div 2)) >= 0
      BY <2>2
    <3>2. s * (h - 2 * (h \div 2)) = a - 2 * c
      BY <2>2
    <3>. QED
      BY <1>1, <2>2, <3>1, <3>2
  <2>4. Used(f, w, h, s) = a + c
    BY <1>5 DEF Used
  <2>. HIDE DEF a, c
  <2>. QED
    BY <1>1, <2>1, <2>3, <2>4
<1>. QED
  BY <1>4, <1>5

-----------------------------------------------------------------------------
(* The image                                                               *)

(* The default stride is a multiple, modulo the range of a size_t.         *)
LEMMA StrideNatural ==
    ASSUME NEW x \in Nat
    PROVE  next_multiple(x, Unit) \in 0 .. Word - 1
<1>. DEFINE y == (x \div Unit + 1) * Unit
<1>1. x \div Unit \in Nat /\ Unit \in Nat
  BY BlocksAssumption
<1>2. y \in Nat
  BY <1>1
<1>. QED
  BY <1>2, ModWord DEF next_multiple

(* What a call leaves in the fields, and what it keeps.                    *)
LEMMA AskedFields ==
    ASSUME TypeOK, NEW w \in Widths, NEW h \in Heights, NEW s \in Strides,
           NEW f \in Formats \cup {"UNKNOWN"}
    PROVE  LET x == Asked(w, h, s, f)
           IN  /\ x.width = w /\ x.height = h /\ x.format = f
               /\ x.stride \in 0 .. Word - 1 /\ x.data = image.data
               /\ w \in 0 .. Word - 1 /\ h \in 0 .. Word - 1
BY BlocksAssumption, StrideNatural, WordPositive DEF TypeOK, Asked

(* An accepted call has a width, a height and rows of that width.          *)
LEMMA Accepted ==
    ASSUME TypeOK, NEW w \in Widths, NEW h \in Heights, NEW s \in Strides,
           NEW f \in Formats \cup {"UNKNOWN"}, ~Rejects(w, h, s, f)
    PROVE  LET x == Asked(w, h, s, f)
           IN  /\ f \in Formats /\ w \in Nat /\ h \in Nat /\ x.stride \in Nat
               /\ w > 0 /\ h > 0 /\ x.stride >= w
               /\ Size(f, x.stride, h) \in Nat
<1>1. /\ f \in Formats /\ w \in Nat /\ h \in Nat
      /\ Asked(w, h, s, f).stride \in Nat
  BY AskedFields, WordPositive DEF Rejects
<1>2. w > 0 /\ h > 0 /\ Asked(w, h, s, f).stride >= w
  BY <1>1 DEF Rejects, TooLarge
<1>3. Size(f, Asked(w, h, s, f).stride, h) \in Nat
  BY <1>1, SizeNatural
<1>. QED
  BY <1>1, <1>2, <1>3

(* Memory after an exchange.                                               *)
LEMMA ExchangeMemory ==
    ASSUME MemoryType, NEW gone, NEW b \in Blocks \cup {NULL},
           NEW size \in Nat, Exchange(gone, b, size)
    PROVE  /\ MemoryType'
           /\ live' = (live \ gone) \cup ({b} \ {NULL})
           /\ b # NULL => room'[b] = size
<1>1. \A c \in Blocks : (CASE c = b -> size
                           [] c \in gone \ {b} -> 0
                           [] OTHER -> room[c]) \in Nat
  BY DEF MemoryType
<1>2. room' \in [Blocks -> Nat]
  BY <1>1 DEF Exchange
<1>3. live' = (live \ gone) \cup ({b} \ {NULL})
  BY DEF Exchange
<1>4. b # NULL => room'[b] = size
  BY DEF Exchange
<1>. QED
  BY <1>2, <1>3, <1>4 DEF MemoryType

(* The inductive invariant.                                                *)
Inv == TypeOK /\ BlockOwned /\ AllocatedFits

(* No block, and a build that has assertions or not.                       *)
LEMMA InitInv == Init => Inv
<1>. SUFFICES ASSUME Init PROVE Inv
  OBVIOUS
<1>1. TypeOK
  <2>1. MemoryType
    BY DEF Init, NoMemory, MemoryType
  <2>2. asserts \in BOOLEAN
    BY BlocksAssumption DEF Init
  <2>3. 0 \in 0 .. Word - 1
    BY WordPositive
  <2>. QED
    BY <2>1, <2>2, <2>3 DEF Init, TypeOK, Unset
<1>2. BlockOwned /\ AllocatedFits
  BY DEF Init, NoMemory, Unset, BlockOwned, AllocatedFits, Allocated
<1>. QED
  BY <1>1, <1>2 DEF Inv

(* A call that is refused does not touch the block, and is no longer one   *)
(* that allocated it.                                                      *)
LEMMA RejectStep ==
    ASSUME Inv, NEW w \in Widths, NEW h \in Heights, NEW s \in Strides,
           NEW f \in Formats \cup {"UNKNOWN"}, ~aborted, Reject(w, h, s, f)
    PROVE  Inv'
<1>1. TypeOK'
  BY AskedFields DEF Inv, TypeOK, Reject, memory, MemoryType
<1>2. BlockOwned'
  BY AskedFields DEF Inv, BlockOwned, Reject, memory
<1>3. AllocatedFits'
  BY DEF AllocatedFits, Allocated, Reject
<1>. QED
  BY <1>1, <1>2, <1>3 DEF Inv

(* An accepted call gives the image the new block, of the size computed,   *)
(* or none.                                                                *)
LEMMA AllocStep ==
    ASSUME Inv, NEW w \in Widths, NEW h \in Heights, NEW s \in Strides,
           NEW f \in Formats \cup {"UNKNOWN"}, NEW b \in Blocks \cup {NULL},
           ~aborted, Alloc(w, h, s, f, b)
    PROVE  Inv'
<1>. DEFINE x == Asked(w, h, s, f)  size == Size(f, x.stride, h)
<1>1. /\ f \in Formats /\ w \in Nat /\ h \in Nat /\ x.stride \in Nat
      /\ w > 0 /\ h > 0 /\ x.stride >= w /\ size \in Nat
  BY Accepted DEF Inv, Alloc
<1>2. /\ MemoryType' /\ live' = (live \ {image.data}) \cup ({b} \ {NULL})
      /\ b # NULL => room'[b] = size
  <2>1. MemoryType /\ Exchange({image.data}, b, size)
    BY DEF Inv, TypeOK, Alloc, Old
  <2>. HIDE DEF size
  <2>. QED
    BY <1>1, <2>1, ExchangeMemory
<1>3. /\ image'.width = w /\ image'.height = h /\ image'.format = f
      /\ image'.stride = x.stride /\ image'.data = b
      /\ x.stride \in 0 .. Word - 1 /\ w \in 0 .. Word - 1
      /\ h \in 0 .. Word - 1
  BY AskedFields DEF Inv, Alloc, Asked
<1>4. TypeOK'
  BY <1>2, <1>3 DEF Inv, TypeOK, Alloc
<1>5. BlockOwned'
  BY <1>2, <1>3 DEF Inv, BlockOwned
<1>6. AllocatedFits'
  <2>1. b # NULL => Wraps(f, x.stride, h) \/ size >= Used(f, w, h, x.stride)
    BY <1>1, SizeEnough
  <2>. QED
    BY <1>1, <1>2, <1>3, <2>1
       DEF AllocatedFits, Allocated, Wrapped, Alloc
<1>. QED
  BY <1>4, <1>5, <1>6 DEF Inv

(* The assertion on the size fails only for a product that left a size_t.  *)
LEMMA AssertSizeStep ==
    ASSUME Inv, NEW w \in Widths, NEW h \in Heights, NEW s \in Strides,
           NEW f \in Formats \cup {"UNKNOWN"}, ~aborted,
           AssertSize(w, h, s, f)
    PROVE  Inv'
<1>. DEFINE x == Asked(w, h, s, f)
<1>1. /\ f \in Formats /\ w \in Nat /\ h \in Nat /\ x.stride \in Nat
      /\ w > 0 /\ h > 0 /\ x.stride >= w
  BY Accepted DEF Inv, AssertSize
<1>2. MemoryType' /\ live' = (live \ {image.data}) \cup ({NULL} \ {NULL})
  <2>1. Exchange({image.data}, NULL, 0)
    BY DEF AssertSize, Old
  <2>. QED
    BY <2>1, ExchangeMemory DEF Inv, TypeOK
<1>3. /\ image'.width = w /\ image'.height = h /\ image'.format = f
      /\ image'.stride = x.stride /\ image'.data = NULL
      /\ x.stride \in 0 .. Word - 1 /\ w \in 0 .. Word - 1
      /\ h \in 0 .. Word - 1
  BY AskedFields DEF Inv, AssertSize, Asked
<1>4. TypeOK'
  BY <1>2, <1>3 DEF Inv, TypeOK, AssertSize
<1>5. BlockOwned'
  BY <1>2, <1>3 DEF Inv, BlockOwned
<1>6. AllocatedFits'
  <2>1. Wraps(f, x.stride, h)
    BY <1>1, SizeEnough DEF AssertSize
  <2>. QED
    BY <1>3, <2>1 DEF AllocatedFits, Allocated, Wrapped
<1>. QED
  BY <1>4, <1>5, <1>6 DEF Inv

(* al_image_free leaves no block.                                          *)
LEMMA FreeStep == ASSUME Inv, ~aborted, Free PROVE Inv'
<1>1. MemoryType' /\ live' = (live \ {image.data}) \cup ({NULL} \ {NULL})
  BY ExchangeMemory DEF Inv, TypeOK, Free
<1>2. TypeOK'
  BY <1>1, WordPositive DEF Inv, TypeOK, Free, Unset
<1>3. BlockOwned'
  BY <1>1 DEF Inv, BlockOwned, Free, Unset
<1>4. AllocatedFits'
  BY DEF AllocatedFits, Allocated, Free, Unset
<1>. QED
  BY <1>2, <1>3, <1>4 DEF Inv

(* Every call preserves the invariant.                                     *)
LEMMA NextInv == Inv /\ [Next]_vars => Inv'
<1>. SUFFICES ASSUME Inv, [Next]_vars PROVE Inv'
  OBVIOUS
<1>1. CASE ~aborted /\ Call
  <2>1. ASSUME NEW w \in Widths, NEW h \in Heights, NEW s \in Strides,
               NEW f \in Formats \cup {"UNKNOWN"},
               \/ Reject(w, h, s, f)
               \/ \E b \in Blocks \cup {NULL} : Alloc(w, h, s, f, b)
               \/ AssertSize(w, h, s, f)
        PROVE  Inv'
    BY <1>1, <2>1, RejectStep, AllocStep, AssertSizeStep
  <2>. QED
    BY <1>1, <2>1, FreeStep DEF Call
<1>2. CASE UNCHANGED vars
  BY <1>2 DEF vars, memory, Inv, TypeOK, MemoryType, BlockOwned,
              AllocatedFits, Allocated, Wrapped
<1>. QED
  BY <1>1, <1>2 DEF Next, Aborted

(* The inductive invariant holds in every reachable state.                 *)
THEOREM Invariance == Spec => []Inv
BY InitInv, NextInv, PTL DEF Spec

-----------------------------------------------------------------------------
(* The properties                                                          *)

(* Sizes and strides stay in a size_t, and the image has a block of the    *)
(* allocator or none.                                                      *)
THEOREM TypeCorrect == Spec => []TypeOK
<1>1. Inv => TypeOK
  BY DEF Inv
<1>. QED
  BY <1>1, Invariance, PTL

(* No sequence of calls, refused and failed ones too, loses a block, or    *)
(* frees one twice: the one live block is the image's.                     *)
THEOREM BlocksOwnedOnce == Spec => []BlockOwned
<1>1. Inv => BlockOwned
  BY DEF Inv
<1>. QED
  BY <1>1, Invariance, PTL

(* The block has the bytes that copies and conversions use, for every      *)
(* width, height, stride and format whose product stays in a size_t; and   *)
(* the assertion on the size fails for no other.                           *)
THEOREM BlocksFit == Spec => []AllocatedFits
<1>1. Inv => AllocatedFits
  BY DEF Inv
<1>. QED
  BY <1>1, Invariance, PTL
=============================================================================
