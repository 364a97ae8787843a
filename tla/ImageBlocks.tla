----------------------------- MODULE ImageBlocks -----------------------------
(***************************************************************************)
(* An image a client keeps for itself: it sets the fields, and calls       *)
(* al_image_alloc and al_image_free (image.c) as often as it likes.        *)
(***************************************************************************)
EXTENDS ImageMemory

CONSTANTS
    Unit,       \* a default stride is a multiple of it: 32
    Widths,     \* widths a client asks for
    Heights,    \* heights it asks for
    Strides,    \* strides, 0 for the default one
    Asserts     \* whether the library is built with assertions: BOOLEANs

ASSUME BlocksAssumption ==
    /\ Unit \in Nat \ {0}
    /\ Widths \cup Heights \cup Strides \subseteq 0 .. Word - 1
    /\ Asserts \subseteq BOOLEAN

VARIABLES
    image,      \* the client's struct al_image
    status,     \* what the last call returned
    asserts,    \* this build has assertions
    aborted     \* one of them failed

vars == << memory, image, status, asserts, aborted >>

Unset == [width |-> 0, height |-> 0, stride |-> 0, format |-> "UNKNOWN",
          data |-> NULL]

Init ==
    /\ NoMemory
    /\ image = Unset
    /\ status = "AL_OK"
    /\ asserts \in Asserts
    /\ aborted = FALSE

-----------------------------------------------------------------------------
(* _al_calc_next_multiple                                                  *)
next_multiple(x, n) == ((x \div n + 1) * n) % Word

(* The fields as al_image_alloc leaves them: the guards on the size come   *)
(* before the default stride, which is not held against SIZE_MAX_SQRT.     *)
Asked(w, h, s, f) ==
    [image EXCEPT !.width = w, !.height = h, !.format = f,
         !.stride = IF /\ s = 0
                       /\ w > 0 /\ h > 0 /\ h < Root
                    THEN next_multiple(w, Unit) ELSE s]

TooLarge(w, h, s) == w = 0 \/ h = 0 \/ h >= Root \/ s >= Root

Rejects(w, h, s, f) ==
    \/ TooLarge(w, h, s)
    \/ Asked(w, h, s, f).stride < w
    \/ f = "UNKNOWN"

(* The image keeps the block it had.                                       *)
Reject(w, h, s, f) ==
    /\ Rejects(w, h, s, f)
    /\ image' = Asked(w, h, s, f)
    /\ status' = "AL_ERROR"
    /\ UNCHANGED << memory, asserts, aborted >>

(* Slip: the block the image had is not freed.                             *)
NothingOld == {}

Old == {image.data}

(* The old block goes, and b is the new one, or NULL when there is none.   *)
Alloc(w, h, s, f, b) ==
    LET x == Asked(w, h, s, f)
        size == Size(f, x.stride, h)
    IN  /\ ~Rejects(w, h, s, f)
        /\ size > 0 \/ ~asserts
        /\ Exchange(Old, b, size)
        /\ image' = [x EXCEPT !.data = b]
        /\ status' = IF b = NULL THEN "AL_NOMEMORY" ELSE "AL_OK"
        /\ UNCHANGED << asserts, aborted >>

(* assert(size > 0), the old block gone.                                   *)
AssertSize(w, h, s, f) ==
    /\ ~Rejects(w, h, s, f)
    /\ asserts /\ Size(f, Asked(w, h, s, f).stride, h) = 0
    /\ Exchange(Old, NULL, 0)
    /\ image' = [Asked(w, h, s, f) EXCEPT !.data = NULL]
    /\ aborted' = TRUE
    /\ UNCHANGED << status, asserts >>

(* al_image_free                                                           *)
Free ==
    /\ Exchange({image.data}, NULL, 0)
    /\ image' = Unset
    /\ status' = "AL_OK"
    /\ UNCHANGED << asserts, aborted >>

Call ==
    \/ \E w \in Widths, h \in Heights, s \in Strides,
          f \in Formats \cup {"UNKNOWN"} :
           \/ Reject(w, h, s, f)
           \/ \E b \in Blocks \cup {NULL} : Alloc(w, h, s, f, b)
           \/ AssertSize(w, h, s, f)
    \/ Free

Aborted == aborted /\ UNCHANGED vars

Next == (~aborted /\ Call) \/ Aborted

Spec == Init /\ [][Next]_vars

-----------------------------------------------------------------------------
(* Properties                                                              *)

(* Every variable has its type.                                            *)
TypeOK ==
    /\ MemoryType
    /\ image.width \in 0 .. Word - 1 /\ image.height \in 0 .. Word - 1
    /\ image.stride \in 0 .. Word - 1
    /\ image.format \in Formats \cup {"UNKNOWN"}
    /\ image.data \in Blocks \cup {NULL}
    /\ status \in {"AL_OK", "AL_ERROR", "AL_NOMEMORY"}
    /\ asserts \in BOOLEAN /\ aborted \in BOOLEAN

(* Over any calls, refused and failed ones too, the image has the one      *)
(* block that is live, and no block is lost or freed twice (image.c:57-60, *)
(* 73-79, 90-92).                                                          *)
BlockOwned == live = {image.data} \ {NULL}

(* An image that was allocated is wide enough for a row and has the bytes  *)
(* the copies and conversions use, for odd sizes too, and the assertion    *)
(* that its size is not zero holds, unless the product left a size_t: the  *)
(* guards of al_image_alloc bound the stride and the height, not three or  *)
(* four times their product, nor the stride that is computed               *)
(* (image.c:41-48, 62-73).                                                 *)
Allocated == status = "AL_OK" /\ image.data # NULL

Wrapped == Wraps(image.format, image.stride, image.height)

AllocatedFits ==
    /\ Allocated =>
           /\ image.stride >= image.width /\ image.width > 0
           /\ \/ Wrapped
              \/ room[image.data] >= Used(image.format, image.width,
                                          image.height, image.stride)
    /\ aborted => Wrapped
=============================================================================
