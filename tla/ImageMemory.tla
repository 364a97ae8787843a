----------------------------- MODULE ImageMemory -----------------------------
(***************************************************************************)
(* The arithmetic of al_image_alloc (image.c, arithmetic.h), in a size_t   *)
(* of any even number of bits, and the blocks of memory images are in.     *)
(***************************************************************************)
EXTENDS Integers, FiniteSets

CONSTANTS
    Root,       \* SIZE_MAX_SQRT: 2 to half the bits of a size_t
    Blocks,     \* blocks the allocator may give
    NULL        \* no block

ASSUME MemoryAssumption == Root \in Nat \ {0} /\ NULL \notin Blocks

(* A size_t is below it; every product is taken modulo it.                 *)
Word == Root * Root

Formats == {"YUV420SP", "YUV420P", "RGBA"}

Samples(format) == IF format = "RGBA" THEN 4 ELSE 3
Halves(format) == IF format = "RGBA" THEN 1 ELSE 2

(* Slip: an odd number of samples is halved too early.                     *)
SizeHalvedFirst(format, stride, height) ==
    (((stride * height) \div Halves(format)) * Samples(format)) % Word

(* The size al_image_alloc and al_camera_set_stride compute.               *)
Size(format, stride, height) ==
    ((stride * height * Samples(format)) % Word) \div Halves(format)

(* No copy or conversion goes beyond these bytes of an image whose stride  *)
(* is not below its width: al_yuv_to_rgba writes pixels one after the      *)
(* other; _copy_yuv420sp copies the rows of luma with the source's stride, *)
(* one after the other, and places the chroma below a height of its own    *)
(* strides.  Counting every row at the stride is an upper bound.           *)
Used(format, width, height, stride) ==
    IF format = "RGBA" THEN 4 * (width * height)
    ELSE stride * height + stride * (height \div 2)

(* The product leaves a size_t.                                            *)
Wraps(format, stride, height) == stride * height * Samples(format) >= Word

(* Blocks: live ones, and the bytes each has.                              *)
VARIABLES live, room

memory == << live, room >>

NoMemory == live = {} /\ room = [b \in Blocks |-> 0]

(* free of the blocks in gone, then, when b is not NULL, an allocation.    *)
Exchange(gone, b, size) ==
    /\ b \notin live \ gone
    /\ live' = (live \ gone) \cup ({b} \ {NULL})
    /\ room' = [c \in Blocks |-> CASE c = b -> size
                                   [] c \in gone \ {b} -> 0
                                   [] OTHER -> room[c]]

MemoryType == live \subseteq Blocks /\ room \in [Blocks -> Nat]
=============================================================================
