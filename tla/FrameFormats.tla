---------------------------- MODULE FrameFormats ----------------------------
(***************************************************************************)
(* Where the pixels of a frame go: the buffers process_image fills         *)
(* (android/camera.c, image.c), the conversions between NV12 and I420      *)
(* (yuv.c) that al_camera_get_data makes in place, and the stride a client *)
(* may set.  Each call is one step here: how the calls interleave is the   *)
(* subject of FrameDelivery.                                               *)
(*                                                                         *)
(* A byte is the sample it holds: the plane, the frame, the row and the    *)
(* column it was exposed at.  A buffer maps offsets to samples, and every  *)
(* loop or memcpy is the set of its << destination, source >> offsets.     *)
(***************************************************************************)
EXTENDS Integers, Sequences

CONSTANTS
    Sizes,          \* << width, height >> of the cameras, even numbers
    Devices,        \* how cameras lay chroma out: subset of Formats
    StrideUnit,     \* strides are multiples of it: 16 in al_camera_set_stride
    Strides,        \* strides a client may ask for
    MaxFrames       \* bound: frames 1 .. MaxFrames

Formats == {"planar", "semiplanar"}

ASSUME FormatsAssumption ==
    /\ Sizes \subseteq Nat \X Nat
    /\ \A s \in Sizes : \A d \in 1 .. 2 : s[d] > 0 /\ s[d] % 2 = 0
    /\ Devices \subseteq Formats
    /\ StrideUnit \in Nat \ {0}
    /\ \A stride \in Strides : stride \in Nat /\ stride % StrideUnit = 0
    /\ MaxFrames \in Nat

VARIABLES
    size,       \* cam->width and cam->height
    device,     \* what cam->color_format is once a frame was processed
    frames,     \* frames processed so far
    yuv420sp,   \* cam->yuv420sp.data
    yuv420p,    \* cam->yuv420p.data
    rgba,       \* cam->rgba.data: the three samples of each pixel
    image,      \* cam->image: its format, stride and data
    dense,      \* ghost: cam->image was filled since its stride was set
    out,        \* what al_camera_get_data answered last
    turned      \* what al_image_rotate made of it, if that came last

camvars == << size, device, frames, yuv420sp, yuv420p, rgba, image, dense >>
vars == << camvars, out, turned >>

NoSample == << "none" >>
Empty == << >>
NoAnswer == [format |-> "none", native |-> FALSE, frame |-> 0,
             dense |-> FALSE, stride |-> 0, data |-> Empty]
NotTurned == [degrees |-> 0, stride |-> 0, fits |-> TRUE, data |-> Empty]

Init ==
    /\ size \in Sizes
    /\ device \in Devices
    /\ frames = 0
    /\ yuv420sp = Empty /\ yuv420p = Empty /\ rgba = Empty
    /\ image = [format |-> "unknown", stride |-> size[1], data |-> Empty]
    /\ dense = FALSE
    /\ out = NoAnswer
    /\ turned = NotTurned

Width == size[1]
Height == size[2]
Rows == 0 .. Height - 1
Columns == 0 .. Width - 1
HalfRows == 0 .. Height \div 2 - 1
HalfColumns == 0 .. Width \div 2 - 1

-----------------------------------------------------------------------------
(* Buffers: functions on offsets.                                          *)

(* al_image_alloc of a YUV image, whose content is not set.                *)
Alloc(stride) == [k \in 0 .. (stride * Height * 3) \div 2 - 1 |-> NoSample]

(* The buffer dst after the stores, which read src.                        *)
Move(dst, src, stores) ==
    [k \in DOMAIN dst |->
        IF \E s \in stores : s[1] = k
        THEN src[(CHOOSE s \in stores : s[1] = k)[2]] ELSE dst[k]]

(* No store leaves dst, and none reads beyond src.                         *)
InBounds(dst, src, stores) ==
    \A s \in stores : s[1] \in DOMAIN dst /\ s[2] \in DOMAIN src

Memcpy(to, from, n) == {<< to + k, from + k >> : k \in 0 .. n - 1}

-----------------------------------------------------------------------------
(* yuv.c.  Slip: the rows of V begin where those of U do.                  *)
VRowOverlapping(i) == (Width \div 2) * (i \div 2) + Width \div 2

VRow(i) == (Width \div 2) * (Height \div 2 + i \div 2)

(* al_yuv_nv12_to_i420                                                     *)
NV12ToI420 ==
    UNION {{<< Width * i + 2 * j, Width * i + 2 * j >>,
            << Width * i + 2 * j + 1, Width * i + 2 * j + 1 >>,
            << Width * Height + (Width \div 2) * (i \div 2) + j,
               Width * Height + Width * (i \div 2) + 2 * j >>,
            << Width * Height + VRow(i) + j,
               Width * Height + Width * (i \div 2) + 2 * j + 1 >>} :
           i \in Rows, j \in HalfColumns}

(* al_yuv_i420_to_nv12: the same offsets, the other way.                   *)
I420ToNV12 ==
    UNION {{<< Width * i + 2 * j, Width * i + 2 * j >>,
            << Width * i + 2 * j + 1, Width * i + 2 * j + 1 >>,
            << Width * Height + Width * (i \div 2) + 2 * j,
               Width * Height + (Width \div 2) * (i \div 2) + j >>,
            << Width * Height + Width * (i \div 2) + 2 * j + 1,
               Width * Height + (Width \div 2) * (Height \div 2 + i \div 2)
                   + j >>} :
           i \in Rows, j \in HalfColumns}

-----------------------------------------------------------------------------
(* process_image: a sample of frame f is its plane, row and column.        *)

Y(f, i, j) == << "Y", f, i, j >>
U(f, i, j) == << "U", f, i, j >>
V(f, i, j) == << "V", f, i, j >>

(* The bytes the loops of process_image write, with their samples.         *)
PlanarWrites(f) ==
    {<< i * Width + j, Y(f, i, j) >> : i \in Rows, j \in Columns} \cup
    {<< Height * Width + i * (Width \div 2) + j, U(f, i, j) >> :
         i \in HalfRows, j \in HalfColumns} \cup
    {<< Height * Width + (Height \div 2) * (Width \div 2)
            + i * (Width \div 2) + j, V(f, i, j) >> :
         i \in HalfRows, j \in HalfColumns}

(* Slip: NV21, as the device delivers it, is taken for NV12.               *)
PairNV21(f, i, j) == << V(f, i, j), U(f, i, j) >>

Pair(f, i, j) == << U(f, i, j), V(f, i, j) >>

SemiPlanarWrites(f) ==
    {<< i * Width + j, Y(f, i, j) >> : i \in Rows, j \in Columns} \cup
    {<< Height * Width + i * Width + j * 2 + n - 1, Pair(f, i, j)[n] >> :
         i \in HalfRows, j \in HalfColumns, n \in 1 .. 2}

Written(buffer, writes) ==
    [k \in DOMAIN buffer |->
        IF \E w \in writes : w[1] = k
        THEN (CHOOSE w \in writes : w[1] = k)[2] ELSE buffer[k]]

ChromaAt(stride) == Height * stride

(* _copy_yuv420sp into an image of the given stride.                       *)
CopySemiPlanar(stride) ==
    Memcpy(0, 0, Height * Width) \cup
    Memcpy(ChromaAt(stride), Height * Width, (Height \div 2) * Width)

(* al_yuv_to_rgba: the samples each pixel is computed from.                *)
RGBAOf(f) ==
    [k \in 0 .. Width * Height - 1 |->
        LET i == k \div Width
            j == k % Width
        IN  << Y(f, i, j), U(f, i \div 2, j \div 2),
               V(f, i \div 2, j \div 2) >>]

(* The buffers come with the first frame.  al_image_copy does not copy a   *)
(* planar image: it answers AL_NOTIMPLEMENTED, which nothing looks at but  *)
(* an assertion.                                                           *)
ProcessImage ==
    /\ frames < MaxFrames
    /\ frames' = frames + 1
    /\ LET f == frames + 1
           sp == IF frames = 0 THEN Alloc(Width) ELSE yuv420sp
           p == IF frames = 0 THEN Alloc(Width) ELSE yuv420p
           data == IF frames = 0 THEN Alloc(image.stride) ELSE image.data
       IN  /\ yuv420p' = IF device = "planar" THEN Written(p, PlanarWrites(f))
                                              ELSE p
           /\ yuv420sp' = IF device = "semiplanar"
                          THEN Written(sp, SemiPlanarWrites(f)) ELSE sp
           /\ image' = [image EXCEPT
                  !.format = device,
                  !.data = IF device = "semiplanar"
                           THEN Move(data, yuv420sp',
                                     CopySemiPlanar(image.stride))
                           ELSE data]
           /\ rgba' = RGBAOf(f)
    /\ dense' = (image.stride = Width)
    /\ UNCHANGED << size, device, out, turned >>

-----------------------------------------------------------------------------
(* The client                                                              *)

Answer(format, native, stride, data) ==
    /\ out' = [format |-> format, native |-> native, frame |-> frames,
               dense |-> dense, stride |-> stride, data |-> data]
    /\ turned' = NotTurned

(* al_camera_get_data in the format of cam->image.                         *)
GetNative ==
    /\ image.format \in Formats
    /\ Answer(image.format, TRUE, image.stride, image.data)
    /\ UNCHANGED camvars

(* al_camera_get_data in the other YUV format: converted in place into the *)
(* buffer of that format.                                                  *)
GetConverted ==
    /\ image.format \in Formats
    /\ IF device = "planar"
       THEN /\ yuv420sp' = Move(yuv420sp, yuv420p, I420ToNV12)
            /\ Answer("semiplanar", FALSE, Width, yuv420sp')
            /\ UNCHANGED yuv420p
       ELSE /\ yuv420p' = Move(yuv420p, yuv420sp, NV12ToI420)
            /\ Answer("planar", FALSE, Width, yuv420p')
            /\ UNCHANGED yuv420sp
    /\ UNCHANGED << size, device, frames, rgba, image, dense >>

(* Slip: the size of the new block leaves out the chroma.                  *)
BytesLuma(stride) == stride * Height

Bytes(stride) == (stride * Height * 3) \div 2

(* al_camera_set_stride: realloc keeps the bytes where they were.  Before  *)
(* the first frame the format is unknown and nothing happens.              *)
SetStride(stride) ==
    /\ image.format \in Formats
    /\ stride >= Width
    /\ image' = [image EXCEPT
           !.stride = stride,
           !.data = [k \in 0 .. Bytes(stride) - 1 |->
                        IF k \in DOMAIN @ THEN @[k] ELSE NoSample]]
    /\ dense' = FALSE
    /\ turned' = NotTurned
    /\ UNCHANGED << size, device, frames, yuv420sp, yuv420p, rgba, out >>

(* Slip: the columns of the turned rows are counted from the wrong end.    *)
TurnedColumnPlain(i) == i

TurnedColumn(i) == (Height - 1) - i

(* _rotate_yuv420sp from a stride to another: 90 degrees turn the luma     *)
(* only, and half a turn and more do nothing.                              *)
Rotation(degrees, from, to) ==
    CASE degrees = 0 -> Memcpy(0, 0, Height * from) \cup
                        Memcpy(Height * to, Height * from,
                               (Height \div 2) * Width)
      [] degrees = 90 -> {<< j * to + TurnedColumn(i), i * from + j >> :
                              i \in Rows, j \in Columns}
      [] OTHER -> {}

(* al_image_rotate of the data answered last, which the client copied,     *)
(* into an image of its own that al_image_alloc made.  A planar image is   *)
(* AL_NOTIMPLEMENTED.                                                      *)
Rotate(degrees, stride) ==
    /\ out.format = "semiplanar"
    /\ LET w == IF degrees = 90 THEN Height ELSE Width
           h == IF degrees = 90 THEN Width ELSE Height
           dst == [k \in 0 .. (stride * h * 3) \div 2 - 1 |-> NoSample]
           stores == Rotation(degrees, out.stride, stride)
           fits == InBounds(dst, out.data, stores)
       IN  /\ stride >= w
           /\ turned' = [degrees |-> degrees, stride |-> stride,
                         fits |-> fits,
                         data |-> IF fits THEN Move(dst, out.data, stores)
                                          ELSE Empty]
    /\ UNCHANGED << camvars, out >>

Next ==
    \/ ProcessImage
    \/ GetNative
    \/ GetConverted
    \/ \E stride \in Strides : SetStride(stride)
    \/ \E degrees \in {0, 90, 180}, stride \in Strides :
           Rotate(degrees, stride)

Spec == Init /\ [][Next]_vars

-----------------------------------------------------------------------------
(* Properties                                                              *)

(* Every variable has its type, and every buffer the size its stride calls *)
(* for.                                                                    *)
TypeOK ==
    /\ size \in Sizes /\ device \in Devices /\ dense \in BOOLEAN
    /\ frames \in 0 .. MaxFrames
    /\ image.format = IF frames = 0 THEN "unknown" ELSE device
    /\ image.stride \in Strides \cup {Width}
    /\ frames > 0 =>
           /\ DOMAIN image.data = DOMAIN Alloc(image.stride)
           /\ DOMAIN yuv420sp = DOMAIN Alloc(Width)
           /\ DOMAIN yuv420p = DOMAIN Alloc(Width)
           /\ DOMAIN rgba = 0 .. Width * Height - 1

(* A dense frame in either format, from the definition of the formats: the *)
(* plane, row and column each offset stands for.                           *)
ChromaOffset(k) == k - Width * Height

I420(f) ==
    [k \in 0 .. (Width * Height * 3) \div 2 - 1 |->
        LET c == ChromaOffset(k)
            plane == (Width \div 2) * (Height \div 2)
        IN  CASE c < 0 -> Y(f, k \div Width, k % Width)
              [] c \in 0 .. plane - 1 ->
                     U(f, c \div (Width \div 2), c % (Width \div 2))
              [] OTHER ->
                     V(f, (c - plane) \div (Width \div 2),
                       (c - plane) % (Width \div 2))]

NV12(f) ==
    [k \in 0 .. (Width * Height * 3) \div 2 - 1 |->
        LET c == ChromaOffset(k)
        IN  CASE c < 0 -> Y(f, k \div Width, k % Width)
              [] c >= 0 /\ c % 2 = 0 -> U(f, c \div Width, (c % Width) \div 2)
              [] OTHER -> V(f, c \div Width, (c % Width) \div 2)]

Layout(format, f) == IF format = "planar" THEN I420(f) ELSE NV12(f)

(* al_camera_get_data in the format the camera does not have gives the     *)
(* whole frame processed last, in the layout of that format, though both   *)
(* buffers are used again and again (android/camera.c:1260-1293).          *)
ConvertedData ==
    out.format \in Formats /\ ~out.native =>
        out.data = Layout(out.format, out.frame)

(* A frame turned by 90 degrees has its luma in place, and none outside of *)
(* the new image; a copy by 0 degrees between equal strides is the frame,  *)
(* and leaves the new image only when that one has the shorter rows        *)
(* (image.c:155-171).  A frame is whole in the camera's own format if one  *)
(* was processed since the stride was set, and the stride is the width.    *)
RotatedLuma ==
    /\ turned.fits \/ (turned.degrees = 0 /\ turned.stride < out.stride)
    /\ turned # NotTurned /\ (out.native => out.dense) =>
           /\ turned.degrees = 0 /\ turned.stride = Width =>
                  turned.data = NV12(out.frame)
           /\ turned.degrees = 90 =>
                  \A i \in Columns, j \in Rows :
                      turned.data[turned.stride * i + j] =
                          Y(out.frame, (Height - 1) - j, i)

(* Whatever strides were set, no copy or conversion that may come next     *)
(* leaves the buffers: the size al_camera_set_stride computes is enough    *)
(* for al_image_copy to place the chroma below a stride of rows.           *)
CopiesFit ==
    image.format \in Formats =>
        /\ device = "semiplanar" =>
               /\ InBounds(image.data, yuv420sp, CopySemiPlanar(image.stride))
               /\ InBounds(yuv420p, yuv420sp, NV12ToI420)
        /\ device = "planar" => InBounds(yuv420sp, yuv420p, I420ToNV12)

(* The samples a pixel of row i and column j has in a YUV buffer.          *)
Pixel(format, buffer, i, j) ==
    LET c == Width * Height
        plane == (Width \div 2) * (Height \div 2)
        p == (Width \div 2) * (i \div 2) + j \div 2
    IN  IF format = "planar"
        THEN << buffer[Width * i + j], buffer[c + p], buffer[c + plane + p] >>
        ELSE << buffer[Width * i + j], buffer[c + 2 * p],
                buffer[c + 2 * p + 1] >>

(* The RGBA frame and the one in the camera's own YUV buffer, written by   *)
(* different loops from the planes of the device, are the same picture     *)
(* between two calls, pixel by pixel (android/camera.c:248-282, 334-352).  *)
BuffersAgree ==
    frames > 0 =>
        \A i \in Rows, j \in Columns :
            rgba[Width * i + j] =
                Pixel(device, IF device = "planar" THEN yuv420p ELSE yuv420sp,
                      i, j)

-----------------------------------------------------------------------------
(* The inductive invariant behind the properties.                          *)

(* An image is as wide as its frames, or wider.                            *)
ImageInv ==
    /\ DOMAIN image = {"format", "stride", "data"}
    /\ image.stride >= Width

(* Between two calls the buffer of the camera's own format and the RGBA    *)
(* frame are the frame processed last; so is a dense image.                *)
FilledInv ==
    /\ dense => frames > 0 /\ image.stride = Width
    /\ frames > 0 =>
           /\ rgba = RGBAOf(frames)
           /\ device = "planar" => yuv420p = I420(frames)
           /\ device = "semiplanar" => yuv420sp = NV12(frames)
           /\ device = "semiplanar" /\ dense => image.data = NV12(frames)

(* An answer has the bytes its stride calls for; a semi-planar one is a    *)
(* frame, unless a stride was set since that frame.                        *)
AnswerInv ==
    out.format \in Formats =>
        /\ out.stride \in Nat /\ out.stride >= Width
        /\ DOMAIN out.data = DOMAIN Alloc(out.stride)
        /\ out.format = "semiplanar" /\ (out.native => out.dense) =>
               out.stride = Width /\ out.data = NV12(out.frame)

FormatsInv ==
    ImageInv /\ FilledInv /\ AnswerInv /\ ConvertedData /\ RotatedLuma
=============================================================================
