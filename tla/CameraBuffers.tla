---------------------------- MODULE CameraBuffers ----------------------------
(***************************************************************************)
(* The memory of an Android camera (android/camera.c): the mode            *)
(* al_camera_new chooses, the four buffers process_image allocates as      *)
(* frames of that mode come, on the listener's thread, and the client that *)
(* meanwhile asks for another stride or for the frame in another format.   *)
(* An allocation may fail at any time.  The loop over the modes reads past *)
(* their list, where memory holds anything.                                *)
(***************************************************************************)
EXTENDS ImageMemory, Sequences

CONSTANTS
    Requests,       \* << width, height >> a client asks for
    Lists,          \* stream configurations of the devices
    Beyond,         \* what four integers past their end may read as
    Default,        \* the mode there is without any: << 640, 480 >>
    Grain, FltMax,  \* what a float keeps of a distance, and its end
    Layouts,        \* how devices lay out the chroma: subset of Formats
    Strides,        \* strides a client asks for
    StrideUnit,     \* what al_camera_set_stride wants a multiple of: 16
    Asserts         \* whether the library is built with assertions

Buffers == {"yuv420sp", "yuv420p", "rgba", "image"}

ASSUME BuffersAssumption ==
    /\ Requests \cup {Default} \subseteq (1 .. Word - 1) \X (1 .. Word - 1)
    /\ Lists \subseteq Seq([width : 1 .. Word - 1, height : 1 .. Word - 1,
                            fits : BOOLEAN])
    /\ \A c \in Beyond : /\ c.width \in Int /\ c.width < Word
                         /\ c.height \in Int /\ c.height < Word
    /\ Grain \in Nat \ {0} /\ FltMax \in Nat
    /\ Layouts \subseteq {"YUV420SP", "YUV420P"}
    /\ Strides \subseteq 1 .. Word - 1 /\ StrideUnit \in Nat \ {0}
    /\ Asserts \subseteq BOOLEAN

VARIABLES
    request,    \* width and height given to al_camera_new
    list,       \* ACAMERA_SCALER_AVAILABLE_STREAM_CONFIGURATIONS
    i, index, distance,     \* of the loop of get_camera_metadata
    found,      \* the width and height at index
    phase,      \* "choose", then "open" until al_camera_free: "closed"
    mode,       \* metadata.width and height, then cam->width and height
    layout,     \* of this device
    color,      \* cam->image.format
    data,       \* the block each buffer has
    stride,     \* cam->image.stride
    cb,         \* the listener: where it is in process_image, dst->data
    client,     \* al_camera_set_stride: where it is, its block and stride
    asserts,    \* this build has assertions
    failed,     \* ghost: buffers that were not allocated when they had to be
    beside,     \* ghost: al_camera_set_stride ran beside process_image
    stopped     \* why the program stopped: a failed assertion, a bad access

device == << request, list, layout, asserts >>
loop == << i, index, distance, found >>
ghosts == << failed, beside >>
vars == << device, loop, phase, mode, color, data, stride, memory, cb, client,
           ghosts, stopped >>

Init ==
    /\ request \in Requests /\ list \in Lists /\ layout \in Layouts
    /\ asserts \in Asserts
    /\ i = 1 /\ index = 1 /\ distance = FltMax /\ found = Default
    /\ phase = "choose" /\ mode = Default
    /\ color = "UNKNOWN" /\ stride = 0
    /\ data = [b \in Buffers |-> NULL] /\ NoMemory
    /\ cb = [pc |-> "idle", dst |-> NULL]
    /\ client = [pc |-> "idle", block |-> NULL, stride |-> 0]
    /\ failed = {} /\ beside = FALSE
    /\ stopped = "no"

-----------------------------------------------------------------------------
(* get_camera_metadata                                                     *)

Squared(m, n) ==
    (m[1] - n[1]) * (m[1] - n[1]) + (m[2] - n[2]) * (m[2] - n[2])

(* _al_l2norm in a float: a distance is rounded, and may leave its range.  *)
norm(m, n) ==
    LET d == Squared(m, n) \div Grain IN IF d < FltMax THEN d ELSE FltMax

Mode(c) == << c.width, c.height >>

(* Slip: of two modes as near the last one is taken.                       *)
NearerOrEqual(c) == c.fits /\ norm(request, Mode(c)) <= distance

(* Some configurations are for input or have another format.               *)
Nearer(c) == c.fits /\ norm(request, Mode(c)) < distance

(* A configuration is four integers, and the loop counts integers: it goes *)
(* on for three times the length of the list.                              *)
Entry(k) == IF k <= Len(list) THEN {list[k]} ELSE Beyond

Choosing == phase = "choose" /\ stopped = "no"

Compare ==
    /\ Choosing /\ i <= 4 * Len(list)
    /\ i' = i + 1
    /\ \E c \in Entry(i) :
           IF Nearer(c)
           THEN /\ index' = i /\ found' = Mode(c)
                /\ distance' = norm(request, Mode(c))
           ELSE UNCHANGED << index, found, distance >>
    /\ UNCHANGED << device, phase, mode, color, data, stride, memory, cb,
                    client, ghosts, stopped >>

(* The memory past the list may not be readable.                           *)
ReadFails ==
    /\ Choosing /\ Len(list) < i /\ i <= 4 * Len(list)
    /\ stopped' = "overrun"
    /\ UNCHANGED << device, loop, phase, mode, color, data, stride, memory, cb,
                    client, ghosts >>

Chosen == IF distance < FltMax THEN found ELSE Default

Positive(m) == m[1] > 0 /\ m[2] > 0

(* The rest of al_camera_new, which sets up cam->image.                    *)
Open ==
    /\ Choosing /\ i > 4 * Len(list)
    /\ Positive(Chosen)
    /\ mode' = Chosen
    /\ stride' = mode'[1]
    /\ phase' = "open"
    /\ UNCHANGED << device, loop, color, data, memory, cb, client, ghosts,
                    stopped >>

(* A mode that is not one is asserted not to come; without assertions      *)
(* AImageReader_new refuses it, and al_camera_new fails.                   *)
OpenFails ==
    /\ Choosing /\ i > 4 * Len(list)
    /\ ~Positive(Chosen)
    /\ mode' = Chosen
    /\ IF asserts THEN stopped' = "assertion" /\ UNCHANGED phase
       ELSE phase' = "closed" /\ UNCHANGED stopped
    /\ UNCHANGED << device, loop, color, data, stride, memory, cb, client,
                    ghosts >>

Width == mode[1]
Height == mode[2]

-----------------------------------------------------------------------------
(* process_image                                                           *)

Running == phase = "open" /\ stopped = "no"

Format(b) == CASE b = "yuv420sp" -> "YUV420SP"
               [] b = "yuv420p" -> "YUV420P"
               [] b = "rgba" -> "RGBA"
               [] b = "image" -> layout

Stride(b) == IF b = "image" THEN stride ELSE Width

(* al_image_alloc of a buffer that has no block: with the sizes of a mode  *)
(* it may be refused, or there is no memory.                               *)
Refused(b) == Height >= Root \/ Stride(b) >= Root \/ Stride(b) < Width

(* Slip: a buffer is allocated for every frame.                            *)
AbsentAlways(b) == TRUE

Absent(b) == data[b] = NULL

Frame(next, dst) == cb' = [pc |-> next, dst |-> dst]

Stop(why) ==
    /\ stopped' = why
    /\ UNCHANGED << memory, data >>

(* With assertions a failed allocation ends the program; without them the  *)
(* next frame tries again, and this one goes on.                           *)
Allocate(b, next) ==
    /\ Running /\ cb.pc = b
    /\ LET size == Size(Format(b), Stride(b), Height)
       IN  \/ /\ ~Absent(b)
              /\ UNCHANGED << memory, data, failed, stopped >>
           \/ /\ Absent(b) /\ ~Refused(b) /\ (size > 0 \/ ~asserts)
              /\ \E block \in Blocks :
                     /\ Exchange({}, block, size)
                     /\ data' = [data EXCEPT ![b] = block]
              /\ UNCHANGED << failed, stopped >>
           \/ /\ Absent(b)
              /\ failed' = failed \cup {b}
              /\ UNCHANGED << memory, data >>
              /\ stopped' = IF asserts THEN "assertion" ELSE "no"
    /\ Frame(next, NULL)
    /\ UNCHANGED << device, loop, phase, mode, color, stride, client, beside >>

(* A frame comes while the camera is open.                                 *)
OnImage ==
    /\ Running /\ cb.pc = "idle"
    /\ Frame("yuv420sp", NULL)
    /\ beside' = (beside \/ client.pc # "idle")
    /\ UNCHANGED << device, loop, phase, mode, color, data, stride, memory,
                    client, failed, stopped >>

(* Bytes 0 .. n - 1 of a block are accessed.                               *)
Access(block, n) ==
    stopped' = CASE block = NULL -> "null"
                 [] block # NULL /\ block \notin live -> "freed"
                 [] block \in live /\ room[block] < n -> "overrun"
                 [] OTHER -> "no"

Native == IF layout = "YUV420P" THEN "yuv420p" ELSE "yuv420sp"

(* The planes of the frame are copied into the buffer of their layout.     *)
Fill ==
    /\ Running /\ cb.pc = "fill"
    /\ Access(data[Native], Used(layout, Width, Height, Width))
    /\ color' = layout
    /\ Frame("image", NULL)
    /\ UNCHANGED << device, loop, phase, mode, data, stride, memory, client,
                    ghosts >>

(* al_image_copy into cam->image: it fails for a missing block, and always *)
(* for a planar image, which is asserted not to happen.                    *)
CopyStart ==
    /\ Running /\ cb.pc = "copy"
    /\ IF layout = "YUV420P" \/ data["image"] = NULL
       THEN /\ stopped' = IF asserts THEN "assertion" ELSE "no"
            /\ Frame("pixels", NULL)
       ELSE Frame("copying", data["image"]) /\ UNCHANGED stopped
    /\ UNCHANGED << device, loop, phase, mode, color, data, stride, memory,
                    client, ghosts >>

(* Rows one width apart, and the chroma below a height of strides.         *)
CopiedBytes ==
    LET luma == Height * Width
        chroma == Height * stride + (Height \div 2) * Width
    IN  IF luma < chroma THEN chroma ELSE luma

(* memcpy, to the block there was, with the stride there is.               *)
CopyEnd ==
    /\ Running /\ cb.pc = "copying"
    /\ Access(cb.dst, CopiedBytes)
    /\ Frame("pixels", NULL)
    /\ UNCHANGED << device, loop, phase, mode, color, data, stride, memory,
                    client, ghosts >>

(* al_yuv_to_rgba                                                          *)
Pixels ==
    /\ Running /\ cb.pc = "pixels"
    /\ Access(data["rgba"], Used("RGBA", Width, Height, Width))
    /\ Frame("idle", NULL)
    /\ UNCHANGED << device, loop, phase, mode, color, data, stride, memory,
                    client, ghosts >>

-----------------------------------------------------------------------------
(* The client                                                              *)

(* Slip: the chroma rows are forgotten.                                    *)
LumaBytes(s) == s * Height

StrideBytes(s) == Size(layout, s, Height)

(* What al_camera_set_stride asserts of a stride.                          *)
Apt(s) == s >= Width /\ s % StrideUnit = 0

AssertStride(s) ==
    /\ Running /\ client.pc = "idle"
    /\ asserts /\ ~Apt(s)
    /\ client' = [pc |-> "assert", block |-> NULL, stride |-> s]
    /\ stopped' = "assertion"
    /\ UNCHANGED << device, loop, phase, mode, color, data, stride, memory, cb,
                    ghosts >>

(* realloc in al_camera_set_stride, which answers AL_NOMEMORY before the   *)
(* first frame, for a size of zero, or when there is no memory.            *)
Realloc(s, block) ==
    /\ Running /\ client.pc = "idle"
    /\ asserts => Apt(s)
    /\ color # "UNKNOWN"
    /\ LET size == StrideBytes(s)
       IN  /\ size > 0
           /\ Exchange({data["image"]}, block, size)
    /\ client' = [pc |-> "store", block |-> block, stride |-> s]
    /\ beside' = (beside \/ cb.pc # "idle")
    /\ UNCHANGED << device, loop, phase, mode, color, data, stride, cb, failed,
                    stopped >>

StoreData ==
    /\ Running /\ client.pc = "store"
    /\ data' = [data EXCEPT !["image"] = client.block]
    /\ client' = [client EXCEPT !.pc = "stride", !.block = NULL]
    /\ UNCHANGED << device, loop, phase, mode, color, stride, memory, cb,
                    ghosts, stopped >>

StoreStride ==
    /\ Running /\ client.pc = "stride"
    /\ stride' = client.stride
    /\ client' = [pc |-> "idle", block |-> NULL, stride |-> 0]
    /\ UNCHANGED << device, loop, phase, mode, color, data, memory, cb, ghosts,
                    stopped >>

(* al_camera_get_data in the other format, which converts into the buffer  *)
(* of that format.                                                         *)
Convert ==
    /\ Running /\ client.pc = "idle" /\ color # "UNKNOWN"
    /\ IF data["yuv420sp"] = NULL THEN Access(NULL, 0)
       ELSE Access(data["yuv420p"], Used("YUV420P", Width, Height, Width))
    /\ UNCHANGED << device, loop, phase, mode, color, data, stride, memory, cb,
                    client, ghosts >>

(* The buffers go in al_camera_free, once no frame is processed.           *)
Close ==
    /\ Running /\ client.pc = "idle" /\ cb.pc = "idle"
    /\ phase' = "closed"
    /\ Exchange({data[b] : b \in Buffers}, NULL, 0)
    /\ data' = [b \in Buffers |-> NULL]
    /\ color' = "UNKNOWN" /\ stride' = 0
    /\ UNCHANGED << device, loop, mode, cb, client, ghosts, stopped >>

Listener ==
    \/ OnImage
    \/ Allocate("yuv420sp", "yuv420p") \/ Allocate("yuv420p", "rgba")
    \/ Allocate("rgba", "fill") \/ Fill \/ Allocate("image", "copy")
    \/ CopyStart \/ CopyEnd \/ Pixels

Client ==
    \/ Compare \/ ReadFails \/ Open \/ OpenFails \/ Close
    \/ \E s \in Strides :
           AssertStride(s) \/ \E block \in Blocks : Realloc(s, block)
    \/ StoreData \/ StoreStride \/ Convert

Ended == (phase = "closed" \/ stopped # "no") /\ UNCHANGED vars

Next == Listener \/ Client \/ Ended

Spec == Init /\ [][Next]_vars

-----------------------------------------------------------------------------
(* Properties                                                              *)

Steps == Buffers \cup {"idle", "fill", "copy", "copying", "pixels"}

(* Every variable has its type; a camera that is not open has no buffers.  *)
TypeOK ==
    /\ MemoryType
    /\ request \in Requests /\ list \in Lists /\ layout \in Layouts
    /\ asserts \in Asserts
    /\ i \in 1 .. 4 * Len(list) + 1 /\ index \in Nat \ {0}
    /\ distance \in 0 .. FltMax /\ found \in Int \X Int
    /\ phase \in {"choose", "open", "closed"}
    /\ mode \in Int \X Int
    /\ phase = "open" => mode \in (1 .. Word - 1) \X (1 .. Word - 1)
    /\ color \in {"UNKNOWN", layout}
    /\ data \in [Buffers -> Blocks \cup {NULL}]
    /\ phase # "open" => data = [b \in Buffers |-> NULL]
    /\ stride \in 0 .. Word - 1
    /\ cb \in [pc : Steps, dst : Blocks \cup {NULL}]
    /\ client \in [pc : {"idle", "assert", "store", "stride"},
                   block : Blocks \cup {NULL}, stride : Strides \cup {0}]
    /\ failed \subseteq Buffers /\ beside \in BOOLEAN
    /\ stopped \in {"no", "assertion", "null", "freed", "overrun"}

Offered == {k \in DOMAIN list : list[k].fits}

(* The camera runs in a mode the device offers as output in the format of  *)
(* the reader, the one nearest to what was asked for as far as a float     *)
(* tells, and the first of those; in the default mode, which nobody        *)
(* offered, only if there is none or all are out of a float's range; and   *)
(* in what the loop read past the list only if that is nearer than every   *)
(* mode of the list (android/camera.c:756-780).                            *)
NearestMode ==
    phase = "open" =>
        LET near == {k \in Offered : norm(request, Mode(list[k])) < FltMax}
            best == {k \in near : \A n \in Offered :
                         norm(request, Mode(list[k])) <=
                             norm(request, Mode(list[n]))}
        IN  \/ near = {} /\ mode = Default
            \/ \E k \in best : /\ mode = Mode(list[k])
                               /\ \A n \in best : k <= n
            \/ /\ list # << >> /\ \E c \in Beyond : c.fits /\ mode = Mode(c)
               /\ \A n \in Offered :
                      norm(request, mode) < norm(request, Mode(list[n]))

(* The mode is one a picture can have, as al_camera_new asserts of what    *)
(* get_camera_metadata gives it (android/camera.c:840-841).                *)
MetadataPositive == Positive(mode)

(* Through failed allocations, retried at the next frame, and new strides, *)
(* each live block is the block of one buffer, or the one                  *)
(* al_camera_set_stride has in hand: none is lost, shared or freed early   *)
(* (android/camera.c:199-229, 295-300, 1340-1366); unless a stride was set *)
(* beside a frame.                                                         *)
BlocksOwned ==
    ~beside =>
        LET own == {b \in Buffers : data[b] # NULL} \
                       (IF client.pc = "store" THEN {"image"} ELSE {})
        IN  /\ live = {data[b] : b \in own} \cup ({client.block} \ {NULL})
            /\ \A a, b \in own : data[a] = data[b] => a = b
            /\ client.block \notin {data[b] : b \in own}

(* A mode or a stride whose product leaves a size_t, which image.c and     *)
(* al_camera_set_stride do not exclude.                                    *)
Huge == Wraps("RGBA", Width, Height) \/ Wraps(layout, stride, Height)

(* The program is ended by an assertion on an allocation, on the copy of a *)
(* planar image, on what the client asks for, or on a mode read past the   *)
(* list; without assertions by a null pointer, after an allocation that    *)
(* failed; by a freed or a short block only when a stride was set beside a *)
(* frame, for a huge mode, or for a stride below the width that no         *)
(* assertion refused; and by reading past the list of modes                *)
(* (android/camera.c:206-229, 299, 302-352, 758-762, 840, 1260-1293,       *)
(* 1343-1364).                                                             *)
StopsOnlyKnown ==
    \/ stopped = "no"
    \/ /\ stopped = "assertion" /\ asserts
       /\ \/ failed # {}
          \/ layout = "YUV420P"
          \/ client.pc = "assert"
          \/ phase = "choose" /\ index > Len(list)
    \/ stopped = "null" /\ ~asserts /\ failed # {}
    \/ stopped \in {"null", "freed", "overrun"} /\ beside
    \/ /\ stopped = "overrun"
       /\ \/ Huge
          \/ ~asserts /\ stride < Width
          \/ phase = "choose" /\ i > Len(list)

-----------------------------------------------------------------------------
(* The inductive invariant behind the properties.                          *)

(* The loop keeps the first of the nearest modes it has seen, which is the *)
(* mode of the camera in the end; one from past the list is nearer than    *)
(* all of the list.                                                        *)
LoopInv ==
    /\ \A k \in Offered : k < i => norm(request, Mode(list[k])) >= distance
    /\ distance < FltMax =>
           /\ index < i /\ norm(request, found) = distance
           /\ IF index <= Len(list)
              THEN index \in Offered /\ found = Mode(list[index])
              ELSE \E c \in Beyond : c.fits /\ found = Mode(c)
           /\ \A k \in Offered :
                  k < index => norm(request, Mode(list[k])) > distance

ModeInv ==
    /\ phase = "choose" => stopped \in {"no", "assertion", "overrun"}
    /\ phase = "choose" /\ stopped = "no" => mode = Default
    /\ phase # "choose" => i > 4 * Len(list) /\ mode = Chosen

(* Only an open camera has frames, a format or a client that sets strides; *)
(* with assertions a stride that is set is not below the width.            *)
OpenInv ==
    /\ phase # "open" =>
           cb.pc = "idle" /\ client.pc = "idle" /\ color = "UNKNOWN"
    /\ asserts /\ phase = "open" => stride >= Width
    /\ asserts /\ client.pc \in {"store", "stride"} =>
           client.stride >= Width
    /\ client.block = NULL <=> client.pc # "store"
    /\ client.pc = "assert" => stopped = "assertion"
    /\ ~beside => cb.pc = "idle" \/ client.pc \in {"idle", "assert"}

(* Steps of process_image that come after the allocation of a buffer.      *)
Past(b) ==
    CASE b = "yuv420sp" -> Steps \ {"idle", "yuv420sp"}
      [] b = "yuv420p" -> Steps \ {"idle", "yuv420sp", "yuv420p"}
      [] b = "rgba" -> {"fill", "image", "copy", "copying", "pixels"}
      [] b = "image" -> {"copy", "copying", "pixels"}

(* A buffer that a frame needs was allocated before, or could not be; with *)
(* assertions the program does not go on without one.                      *)
FrameInv ==
    /\ \A b \in Buffers :
           cb.pc \in Past(b) => data[b] # NULL \/ b \in failed
    /\ \A b \in {"yuv420sp", "yuv420p"} :
           color # "UNKNOWN" => data[b] # NULL \/ b \in failed
    /\ asserts /\ stopped = "no" => failed = {}
    /\ cb.pc = "copying" /\ ~beside => cb.dst = data["image"] /\ cb.dst # NULL

(* A block has the size its buffer had to have when it was allocated, and  *)
(* the image the one for its stride, or for the stride to be stored.       *)
Bytes(b) == Size(Format(b), Width, Height)

RoomInv ==
    ~beside =>
        /\ \A b \in Buffers \ {"image"} :
               data[b] # NULL => room[data[b]] = Bytes(b)
        /\ client.pc = "idle" /\ data["image"] # NULL =>
               room[data["image"]] = StrideBytes(stride)
        /\ client.pc = "store" =>
               room[client.block] = StrideBytes(client.stride)
        /\ client.pc = "stride" =>
               /\ data["image"] # NULL
               /\ room[data["image"]] = StrideBytes(client.stride)

BuffersInv ==
    /\ LoopInv /\ ModeInv /\ OpenInv /\ FrameInv /\ RoomInv
    /\ BlocksOwned /\ StopsOnlyKnown
=============================================================================
