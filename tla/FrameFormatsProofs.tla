------------------------ MODULE FrameFormatsProofs ------------------------
(***************************************************************************)
(* Proofs about FrameFormats, for frames of every even size and for every  *)
(* set of strides: the loops of process_image, al_image_copy, the two      *)
(* conversions and al_image_rotate put every sample where the formats have *)
(* it, and none outside of its buffer.                                     *)
(***************************************************************************)
EXTENDS FrameFormats, TLAPS

-----------------------------------------------------------------------------
(* Rows and columns                                                        *)

(* An offset is one row and one column of rows of n.                       *)
LEMMA Divided ==
    ASSUME NEW n \in Nat, n > 0, NEW k \in Nat
    PROVE  /\ k \div n \in Nat /\ k % n \in 0 .. n - 1
           /\ k = n * (k \div n) + (k % n)
OBVIOUS

(* A column stays within its row.                                          *)
LEMMA RowsApart ==
    ASSUME NEW n \in Nat, n > 0, NEW a \in Nat, NEW b \in 0 .. n - 1,
           NEW c \in Nat, NEW d \in 0 .. n - 1, n * a + b = n * c + d
    PROVE  a = c /\ b = d
<1>1. CASE a < c
  <2>1. n * (c - a - 1) >= 0
    BY <1>1
  <2>2. n * (c - a - 1) = n * c - n * a - n
    OBVIOUS
  <2>. QED
    BY <2>1, <2>2
<1>2. CASE c < a
  <2>1. n * (a - c - 1) >= 0
    BY <1>2
  <2>2. n * (a - c - 1) = n * a - n * c - n
    OBVIOUS
  <2>. QED
    BY <2>1, <2>2
<1>3. CASE a = c
  BY <1>3
<1>. QED
  BY <1>1, <1>2, <1>3

(* The row and the column of an offset are those it was made of.           *)
LEMMA RowColumn ==
    ASSUME NEW n \in Nat, n > 0, NEW a \in Nat, NEW b \in 0 .. n - 1
    PROVE  /\ n * a + b \in Nat
           /\ (n * a + b) \div n = a /\ (n * a + b) % n = b
<1>. DEFINE k == n * a + b
<1>1. k \in Nat
  OBVIOUS
<1>2. /\ k \div n \in Nat /\ k % n \in 0 .. n - 1
      /\ k = n * (k \div n) + (k % n)
  BY <1>1, Divided
<1>. QED
  BY <1>1, <1>2, RowsApart

(* m rows of n hold the offsets below n times m.                           *)
LEMMA RowsWithin ==
    ASSUME NEW n \in Nat, n > 0, NEW m \in Nat, NEW a \in Nat,
           NEW b \in 0 .. n - 1
    PROVE  n * a + b < n * m <=> a < m
<1>1. ASSUME a < m PROVE n * a + b < n * m
  <2>1. n * (m - a - 1) >= 0
    BY <1>1
  <2>2. n * (m - a - 1) = n * m - n * a - n
    OBVIOUS
  <2>. QED
    BY <2>1, <2>2
<1>2. ASSUME ~(a < m) PROVE ~(n * a + b < n * m)
  <2>1. n * (a - m) >= 0
    BY <1>2
  <2>2. n * (a - m) = n * a - n * m
    OBVIOUS
  <2>. QED
    BY <2>1, <2>2
<1>. QED
  BY <1>1, <1>2

-----------------------------------------------------------------------------
(* The dimensions of a frame                                               *)

HalfWidth == Width \div 2
HalfHeight == Height \div 2
Area == HalfWidth * HalfHeight

(* A frame is of even, positive dimensions; its luma takes four areas of   *)
(* chroma.                                                                 *)
LEMMA Dimensions ==
    ASSUME size \in Sizes
    PROVE  /\ HalfWidth \in Nat /\ HalfWidth > 0 /\ Width = 2 * HalfWidth
           /\ HalfHeight \in Nat /\ HalfHeight > 0 /\ Height = 2 * HalfHeight
           /\ Width \in Nat /\ Width > 0 /\ Height \in Nat /\ Height > 0
           /\ Area \in Nat /\ HalfWidth * HalfHeight = Area
           /\ Width * Height = 4 * Area
           /\ Width * HalfHeight = 2 * Area
           /\ (Width * Height * 3) \div 2 = 6 * Area
<1>1. /\ Width \in Nat /\ Width > 0 /\ Width % 2 = 0
      /\ Height \in Nat /\ Height > 0 /\ Height % 2 = 0
  BY FormatsAssumption DEF Width, Height
<1>2. HalfWidth \in Nat /\ HalfWidth > 0 /\ Width = 2 * HalfWidth
  BY <1>1 DEF HalfWidth
<1>3. HalfHeight \in Nat /\ HalfHeight > 0 /\ Height = 2 * HalfHeight
  BY <1>1 DEF HalfHeight
<1>4. Area \in Nat /\ Width * Height = 4 * Area /\ Width * HalfHeight = 2 * Area
  BY <1>2, <1>3 DEF Area
<1>5. (Width * Height * 3) \div 2 = 6 * Area
  BY <1>4
<1>. QED
  BY <1>1, <1>2, <1>3, <1>4, <1>5 DEF Area

(* The bytes of an image of a given stride.                                *)
LEMMA Room ==
    ASSUME size \in Sizes, NEW stride \in Nat, stride >= Width
    PROVE  /\ HalfHeight * stride \in Nat
           /\ HalfHeight * stride >= 2 * Area
           /\ Height * stride = 2 * (HalfHeight * stride)
           /\ DOMAIN Alloc(stride) = 0 .. 3 * (HalfHeight * stride) - 1
           /\ Bytes(stride) = 3 * (HalfHeight * stride)
<1>. DEFINE b == HalfHeight * stride
<1>1. /\ HalfHeight \in Nat /\ HalfHeight > 0 /\ Height = 2 * HalfHeight
      /\ HalfWidth \in Nat /\ Width = 2 * HalfWidth
      /\ Area = HalfWidth * HalfHeight
  BY Dimensions
<1>2. b \in Nat /\ Height * stride = 2 * b /\ stride * Height = 2 * b
  BY <1>1
<1>3. b >= 2 * Area
  <2>1. HalfHeight * (stride - Width) >= 0
    BY <1>1
  <2>2. HalfHeight * (stride - Width) = b - 2 * Area
    BY <1>1
  <2>. QED
    BY <1>1, <1>2, <2>1, <2>2
<1>4. (stride * Height * 3) \div 2 = 3 * b
  BY <1>2
<1>. QED
  BY <1>2, <1>3, <1>4 DEF Alloc, Bytes

(* Every offset of a plane is a row and a column of it.                    *)
LEMMA Offsets ==
    ASSUME size \in Sizes
    PROVE  /\ \A k \in 0 .. 4 * Area - 1 :
                  \E i \in Rows, j \in Columns : k = Width * i + j
           /\ \A k \in 0 .. Area - 1 :
                  \E i \in HalfRows, j \in HalfColumns : k = HalfWidth * i + j
<1>1. /\ HalfWidth \in Nat /\ HalfWidth > 0 /\ Width = 2 * HalfWidth
      /\ HalfHeight \in Nat /\ HalfHeight > 0 /\ Height = 2 * HalfHeight
      /\ Width \in Nat /\ Width > 0 /\ Height \in Nat /\ Height > 0
      /\ Area \in Nat /\ Width * Height = 4 * Area
      /\ HalfWidth * HalfHeight = Area
  BY Dimensions
<1>2. ASSUME NEW k \in 0 .. 4 * Area - 1
      PROVE  \E i \in Rows, j \in Columns : k = Width * i + j
  <2>1. /\ k \div Width \in Nat /\ k % Width \in 0 .. Width - 1
        /\ k = Width * (k \div Width) + (k % Width)
    BY <1>1, Divided
  <2>2. k \div Width < Height
    BY <1>1, <2>1, RowsWithin
  <2>. QED
    BY <1>1, <2>1, <2>2 DEF Rows, Columns
<1>3. ASSUME NEW k \in 0 .. Area - 1
      PROVE  \E i \in HalfRows, j \in HalfColumns : k = HalfWidth * i + j
  <2>1. /\ k \div HalfWidth \in Nat /\ k % HalfWidth \in 0 .. HalfWidth - 1
        /\ k = HalfWidth * (k \div HalfWidth) + (k % HalfWidth)
    BY <1>1, Divided
  <2>2. k \div HalfWidth < HalfHeight
    BY <1>1, <2>1, RowsWithin
  <2>3. HalfRows = 0 .. HalfHeight - 1 /\ HalfColumns = 0 .. HalfWidth - 1
    BY DEF HalfRows, HalfColumns, HalfWidth, HalfHeight
  <2>4. k \div HalfWidth \in HalfRows /\ k % HalfWidth \in HalfColumns
    BY <1>1, <2>1, <2>2, <2>3
  <2>. QED
    BY <2>1, <2>4
<1>. QED
  BY <1>2, <1>3

(* A row and a column of a plane are an offset of it.                      *)
LEMMA Planes ==
    ASSUME size \in Sizes
    PROVE  /\ \A i \in Rows, j \in Columns :
                  /\ i \in Nat /\ j \in 0 .. Width - 1
                  /\ Width * i + j \in 0 .. 4 * Area - 1
                  /\ i \div 2 \in HalfRows /\ j \div 2 \in HalfColumns
           /\ \A i \in HalfRows, j \in HalfColumns :
                  /\ i \in Nat /\ j \in 0 .. HalfWidth - 1
                  /\ HalfWidth * i + j \in 0 .. Area - 1
                  /\ Width * i = 2 * (HalfWidth * i)
                  /\ 2 * i \in Rows /\ (2 * i) \div 2 = i
                  /\ 2 * j \in Columns /\ 2 * j + 1 \in Columns
<1>1. /\ HalfWidth \in Nat /\ HalfWidth > 0 /\ Width = 2 * HalfWidth
      /\ HalfHeight \in Nat /\ HalfHeight > 0 /\ Height = 2 * HalfHeight
      /\ Width \in Nat /\ Width > 0 /\ Height \in Nat /\ Height > 0
      /\ Area \in Nat /\ Width * Height = 4 * Area
      /\ HalfWidth * HalfHeight = Area
  BY Dimensions
<1>2. HalfRows = 0 .. HalfHeight - 1 /\ HalfColumns = 0 .. HalfWidth - 1
  BY DEF HalfRows, HalfColumns, HalfWidth, HalfHeight
<1>3. ASSUME NEW i \in Rows, NEW j \in Columns
      PROVE  /\ i \in Nat /\ j \in 0 .. Width - 1
             /\ Width * i + j \in 0 .. 4 * Area - 1
             /\ i \div 2 \in HalfRows /\ j \div 2 \in HalfColumns
  <2>1. i \in 0 .. Height - 1 /\ j \in 0 .. Width - 1
    BY DEF Rows, Columns
  <2>2. i \div 2 \in HalfRows /\ j \div 2 \in HalfColumns
    BY <1>1, <1>2, <2>1
  <2>3. Width * i + j < Width * Height /\ Width * i + j >= 0
    BY <1>1, <2>1, RowsWithin
  <2>. QED
    BY <1>1, <2>1, <2>2, <2>3
<1>4. ASSUME NEW i \in HalfRows, NEW j \in HalfColumns
      PROVE  /\ i \in Nat /\ j \in 0 .. HalfWidth - 1
             /\ HalfWidth * i + j \in 0 .. Area - 1
             /\ Width * i = 2 * (HalfWidth * i)
             /\ 2 * i \in Rows /\ (2 * i) \div 2 = i
             /\ 2 * j \in Columns /\ 2 * j + 1 \in Columns
  <2>1. i \in 0 .. HalfHeight - 1 /\ j \in 0 .. HalfWidth - 1
    BY <1>2
  <2>2. HalfWidth * i + j < Area /\ HalfWidth * i + j >= 0
    BY <1>1, <2>1, RowsWithin
  <2>3. Width * i = 2 * (HalfWidth * i)
    BY <1>1, <2>1
  <2>4. /\ 2 * i \in Rows /\ (2 * i) \div 2 = i
        /\ 2 * j \in Columns /\ 2 * j + 1 \in Columns
    BY <1>1, <2>1 DEF Rows, Columns
  <2>. QED
    BY <1>1, <2>1, <2>2, <2>3, <2>4
<1>. QED
  BY <1>3, <1>4

-----------------------------------------------------------------------------
(* The formats: what the offsets of a frame hold                           *)

(* A frame in I420.                                                        *)
LEMMA I420Values ==
    ASSUME size \in Sizes, NEW f
    PROVE  /\ DOMAIN I420(f) = 0 .. 6 * Area - 1
           /\ \A i \in Rows, j \in Columns :
                  I420(f)[Width * i + j] = Y(f, i, j)
           /\ \A i \in HalfRows, j \in HalfColumns :
                  /\ I420(f)[4 * Area + HalfWidth * i + j] = U(f, i, j)
                  /\ I420(f)[5 * Area + HalfWidth * i + j] = V(f, i, j)
<1>1. /\ HalfWidth \in Nat /\ HalfWidth > 0
      /\ Width \in Nat /\ Width > 0
      /\ Area \in Nat /\ Width * Height = 4 * Area
      /\ (Width \div 2) * (Height \div 2) = Area
      /\ (Width * Height * 3) \div 2 = 6 * Area
      /\ Width \div 2 = HalfWidth
  BY Dimensions DEF Area, HalfWidth, HalfHeight
<1>2. I420(f) =
        [k \in 0 .. 6 * Area - 1 |->
           CASE k - 4 * Area < 0 -> Y(f, k \div Width, k % Width)
             [] k - 4 * Area \in 0 .. Area - 1 ->
                    U(f, (k - 4 * Area) \div HalfWidth,
                      (k - 4 * Area) % HalfWidth)
             [] OTHER -> V(f, (k - 4 * Area - Area) \div HalfWidth,
                           (k - 4 * Area - Area) % HalfWidth)]
  BY <1>1 DEF I420, ChromaOffset
<1>3. ASSUME NEW i \in Rows, NEW j \in Columns
      PROVE  I420(f)[Width * i + j] = Y(f, i, j)
  <2>. DEFINE k == Width * i + j
  <2>1. i \in Nat /\ j \in 0 .. Width - 1 /\ k \in 0 .. 4 * Area - 1
    BY Planes
  <2>2. k \div Width = i /\ k % Width = j
    BY <1>1, <2>1, RowColumn
  <2>. HIDE DEF k
  <2>3. k \in 0 .. 6 * Area - 1 /\ k - 4 * Area < 0
    BY <1>1, <2>1
  <2>4. I420(f)[k] = Y(f, i, j)
    BY <1>1, <1>2, <2>2, <2>3
  <2>. QED
    BY <2>4 DEF k
<1>4. ASSUME NEW i \in HalfRows, NEW j \in HalfColumns
      PROVE  /\ I420(f)[4 * Area + HalfWidth * i + j] = U(f, i, j)
             /\ I420(f)[5 * Area + HalfWidth * i + j] = V(f, i, j)
  <2>. DEFINE c == HalfWidth * i + j
  <2>1. /\ i \in Nat /\ j \in 0 .. HalfWidth - 1
        /\ c \in 0 .. Area - 1
    BY Planes
  <2>2. c \div HalfWidth = i /\ c % HalfWidth = j
    BY <1>1, <2>1, RowColumn
  <2>3. /\ 4 * Area + HalfWidth * i + j = 4 * Area + c
        /\ 5 * Area + HalfWidth * i + j = 5 * Area + c
    BY <1>1, <2>1
  <2>. HIDE DEF c
  <2>4. ASSUME NEW k \in 0 .. Area - 1
        PROVE  I420(f)[4 * Area + k] = U(f, k \div HalfWidth, k % HalfWidth)
    <3>. DEFINE v == 4 * Area + k
    <3>1. /\ v \in 0 .. 6 * Area - 1 /\ v - 4 * Area = k
          /\ ~(v - 4 * Area < 0) /\ v - 4 * Area \in 0 .. Area - 1
      BY <1>1
    <3>. HIDE DEF v
    <3>2. I420(f)[v] = U(f, k \div HalfWidth, k % HalfWidth)
      BY <1>2, <3>1
    <3>. QED
      BY <3>2 DEF v
  <2>5. ASSUME NEW k \in 0 .. Area - 1
        PROVE  I420(f)[5 * Area + k] = V(f, k \div HalfWidth, k % HalfWidth)
    <3>. DEFINE v == 5 * Area + k
    <3>1. v \in 0 .. 6 * Area - 1 /\ v - 4 * Area - Area = k
      BY <1>1
    <3>2. ~(v - 4 * Area < 0) /\ v - 4 * Area \notin 0 .. Area - 1
      BY <1>1
    <3>. HIDE DEF v
    <3>3. I420(f)[v] = V(f, k \div HalfWidth, k % HalfWidth)
      BY <1>2, <3>1, <3>2
    <3>. QED
      BY <3>3 DEF v
  <2>. QED
    BY <2>1, <2>2, <2>3, <2>4, <2>5
<1>. QED
  BY <1>2, <1>3, <1>4

(* A frame in NV12.                                                        *)
LEMMA NV12Values ==
    ASSUME size \in Sizes, NEW f
    PROVE  /\ DOMAIN NV12(f) = 0 .. 6 * Area - 1
           /\ \A i \in Rows, j \in Columns :
                  NV12(f)[Width * i + j] = Y(f, i, j)
           /\ \A i \in HalfRows, j \in HalfColumns :
                  /\ NV12(f)[4 * Area + Width * i + 2 * j] = U(f, i, j)
                  /\ NV12(f)[4 * Area + Width * i + 2 * j + 1] = V(f, i, j)
<1>1. /\ HalfWidth \in Nat /\ HalfWidth > 0
      /\ Width = 2 * HalfWidth
      /\ Area \in Nat /\ Width * Height = 4 * Area
      /\ (Width * Height * 3) \div 2 = 6 * Area
  BY Dimensions
<1>2. NV12(f) =
        [k \in 0 .. 6 * Area - 1 |->
           CASE k - 4 * Area < 0 -> Y(f, k \div Width, k % Width)
             [] k - 4 * Area >= 0 /\ (k - 4 * Area) % 2 = 0 ->
                    U(f, (k - 4 * Area) \div Width,
                      ((k - 4 * Area) % Width) \div 2)
             [] OTHER -> V(f, (k - 4 * Area) \div Width,
                           ((k - 4 * Area) % Width) \div 2)]
  BY <1>1 DEF NV12, ChromaOffset
<1>3. ASSUME NEW i \in Rows, NEW j \in Columns
      PROVE  NV12(f)[Width * i + j] = Y(f, i, j)
  <2>. DEFINE k == Width * i + j
  <2>1. i \in Nat /\ j \in 0 .. Width - 1 /\ k \in 0 .. 4 * Area - 1
    BY Planes
  <2>2. k \div Width = i /\ k % Width = j
    BY <1>1, <2>1, RowColumn
  <2>. HIDE DEF k
  <2>3. k \in 0 .. 6 * Area - 1 /\ k - 4 * Area < 0
    BY <1>1, <2>1
  <2>4. NV12(f)[k] = Y(f, i, j)
    BY <1>1, <1>2, <2>2, <2>3
  <2>. QED
    BY <2>4 DEF k
<1>4. ASSUME NEW i \in HalfRows, NEW j \in HalfColumns
      PROVE  /\ NV12(f)[4 * Area + Width * i + 2 * j] = U(f, i, j)
             /\ NV12(f)[4 * Area + Width * i + 2 * j + 1] = V(f, i, j)
  <2>. DEFINE c == Width * i + 2 * j
  <2>1. /\ i \in Nat /\ j \in 0 .. HalfWidth - 1
        /\ HalfWidth * i + j \in 0 .. Area - 1
        /\ Width * i = 2 * (HalfWidth * i)
    BY Planes
  <2>2. c \in 0 .. 2 * Area - 2 /\ c % 2 = 0 /\ (c + 1) % 2 = 1
    BY <1>1, <2>1
  <2>3. /\ c \div Width = i /\ (c % Width) \div 2 = j
        /\ (c + 1) \div Width = i /\ ((c + 1) % Width) \div 2 = j
    <3>1. 2 * j \in 0 .. Width - 1 /\ 2 * j + 1 \in 0 .. Width - 1
      BY <1>1, <2>1
    <3>2. c \div Width = i /\ c % Width = 2 * j
      BY <1>1, <2>1, <3>1, RowColumn
    <3>3. /\ (Width * i + (2 * j + 1)) \div Width = i
          /\ (Width * i + (2 * j + 1)) % Width = 2 * j + 1
      BY <1>1, <2>1, <3>1, RowColumn
    <3>4. c + 1 = Width * i + (2 * j + 1)
      BY <1>1, <2>1
    <3>5. (2 * j) \div 2 = j /\ (2 * j + 1) \div 2 = j
      BY <2>1
    <3>. QED
      BY <3>2, <3>3, <3>4, <3>5
  <2>4. /\ 4 * Area + Width * i + 2 * j = 4 * Area + c
        /\ 4 * Area + Width * i + 2 * j + 1 = 4 * Area + (c + 1)
    BY <1>1, <2>1
  <2>. HIDE DEF c
  <2>5. ASSUME NEW k \in 0 .. 2 * Area - 1
        PROVE  /\ k % 2 = 0 =>
                      NV12(f)[4 * Area + k] =
                          U(f, k \div Width, (k % Width) \div 2)
               /\ k % 2 = 1 =>
                      NV12(f)[4 * Area + k] =
                          V(f, k \div Width, (k % Width) \div 2)
    <3>. DEFINE v == 4 * Area + k
    <3>1. /\ v \in 0 .. 6 * Area - 1 /\ v - 4 * Area = k
          /\ ~(v - 4 * Area < 0) /\ v - 4 * Area >= 0
      BY <1>1
    <3>. HIDE DEF v
    <3>2. NV12(f)[v] = IF k % 2 = 0
                       THEN U(f, k \div Width, (k % Width) \div 2)
                       ELSE V(f, k \div Width, (k % Width) \div 2)
      BY <1>2, <3>1
    <3>. QED
      BY <3>2 DEF v
  <2>6. c \in 0 .. 2 * Area - 1 /\ c + 1 \in 0 .. 2 * Area - 1
    BY <1>1, <2>2
  <2>7. NV12(f)[4 * Area + c] = U(f, i, j)
    BY <2>2, <2>3, <2>5, <2>6
  <2>8. NV12(f)[4 * Area + (c + 1)] = V(f, i, j)
    BY <2>2, <2>3, <2>5, <2>6
  <2>. QED
    BY <2>4, <2>7, <2>8
<1>. QED
  BY <1>2, <1>3, <1>4

-----------------------------------------------------------------------------
(* Loops and copies                                                        *)

(* Stores bring from src what goal has at their destinations.              *)
Bring(stores, src, goal) == \A s \in stores : src[s[2]] = goal[s[1]]

(* Writes are of what goal has at their offsets.                           *)
Hold(writes, goal) == \A w \in writes : w[2] = goal[w[1]]

(* Stores, or writes, reach every offset of a buffer.                      *)
Reach(stores, buffer) == \A k \in DOMAIN buffer : \E s \in stores : s[1] = k

(* Stores that bring what goal has, and reach all of a buffer, make goal   *)
(* of it.                                                                  *)
LEMMA MoveAll ==
    ASSUME NEW dst, NEW src, NEW stores, NEW goal,
           Bring(stores, src, goal), Reach(stores, dst)
    PROVE  Move(dst, src, stores) = [k \in DOMAIN dst |-> goal[k]]
<1>1. ASSUME NEW k \in DOMAIN dst
      PROVE  Move(dst, src, stores)[k] = goal[k]
  BY DEF Move, Bring, Reach
<1>. QED
  BY <1>1 DEF Move

(* The same of the bytes a loop writes.                                    *)
LEMMA WrittenAll ==
    ASSUME NEW buffer, NEW writes, NEW goal,
           Hold(writes, goal), Reach(writes, buffer)
    PROVE  Written(buffer, writes) = [k \in DOMAIN buffer |-> goal[k]]
<1>1. ASSUME NEW k \in DOMAIN buffer
      PROVE  Written(buffer, writes)[k] = goal[k]
  BY DEF Written, Hold, Reach
<1>. QED
  BY <1>1 DEF Written

(* The stores of the conversion: the luma where it was, and both samples   *)
(* of a chroma pair to the row and column they have in their plane.        *)
LEMMA ConversionStores ==
    ASSUME size \in Sizes
    PROVE  /\ \A s \in NV12ToI420 :
                  \/ \E i \in Rows, j \in Columns :
                         s = << Width * i + j, Width * i + j >>
                  \/ \E i \in HalfRows, j \in HalfColumns :
                         \/ s = << 4 * Area + HalfWidth * i + j,
                                   4 * Area + Width * i + 2 * j >>
                         \/ s = << 5 * Area + HalfWidth * i + j,
                                   4 * Area + Width * i + 2 * j + 1 >>
           /\ \A i \in Rows, j \in Columns :
                  << Width * i + j, Width * i + j >> \in NV12ToI420
           /\ \A i \in HalfRows, j \in HalfColumns :
                  /\ << 4 * Area + HalfWidth * i + j,
                        4 * Area + Width * i + 2 * j >> \in NV12ToI420
                  /\ << 5 * Area + HalfWidth * i + j,
                        4 * Area + Width * i + 2 * j + 1 >> \in NV12ToI420
<1>1. /\ HalfWidth \in Nat /\ HalfWidth > 0 /\ Width = 2 * HalfWidth
      /\ HalfHeight \in Nat /\ HalfHeight > 0 /\ Height = 2 * HalfHeight
      /\ Width \in Nat /\ Width > 0 /\ Height \in Nat /\ Height > 0
      /\ Area \in Nat /\ Width * Height = 4 * Area
      /\ HalfWidth * HalfHeight = Area
  BY Dimensions
<1>2. /\ Width \div 2 = HalfWidth /\ Height \div 2 = HalfHeight
      /\ Rows = 0 .. Height - 1 /\ Columns = 0 .. Width - 1
      /\ HalfRows = 0 .. HalfHeight - 1 /\ HalfColumns = 0 .. HalfWidth - 1
  BY DEF Rows, Columns, HalfRows, HalfColumns, HalfWidth, HalfHeight
<1>3. ASSUME NEW i \in Rows, NEW j \in HalfColumns
      PROVE  /\ i \in Nat /\ j \in Nat
             /\ i \div 2 \in HalfRows
             /\ 2 * j \in Columns /\ 2 * j + 1 \in Columns
             /\ Width * Height + HalfWidth * (i \div 2) + j
                   = 4 * Area + HalfWidth * (i \div 2) + j
             /\ Width * Height + VRow(i) + j
                   = 5 * Area + HalfWidth * (i \div 2) + j
             /\ Width * Height + Width * (i \div 2) + 2 * j
                   = 4 * Area + Width * (i \div 2) + 2 * j
             /\ Width * Height + Width * (i \div 2) + 2 * j + 1
                   = 4 * Area + Width * (i \div 2) + 2 * j + 1
             /\ Width * i + 2 * j + 1 = Width * i + (2 * j + 1)
  <2>1. i \in Nat /\ j \in Nat /\ i \div 2 \in Nat
    BY <1>1, <1>2
  <2>2. i \div 2 \in HalfRows /\ 2 * j \in Columns /\ 2 * j + 1 \in Columns
    BY <1>1, <1>2
  <2>3. VRow(i) = Area + HalfWidth * (i \div 2)
    <3>1. VRow(i) = HalfWidth * (HalfHeight + i \div 2)
      BY <1>2 DEF VRow
    <3>. QED
      BY <1>1, <2>1, <3>1
  <2>. QED
    BY <1>1, <2>1, <2>2, <2>3
<1>4. ASSUME NEW s
      PROVE  s \in NV12ToI420 <=>
                 \E i \in Rows, j \in HalfColumns :
                     \/ s = << Width * i + 2 * j, Width * i + 2 * j >>
                     \/ s = << Width * i + (2 * j + 1),
                               Width * i + (2 * j + 1) >>
                     \/ s = << 4 * Area + HalfWidth * (i \div 2) + j,
                               4 * Area + Width * (i \div 2) + 2 * j >>
                     \/ s = << 5 * Area + HalfWidth * (i \div 2) + j,
                               4 * Area + Width * (i \div 2) + 2 * j + 1 >>
  <2>. DEFINE Four(i, j) ==
                {<< Width * i + 2 * j, Width * i + 2 * j >>,
                 << Width * i + 2 * j + 1, Width * i + 2 * j + 1 >>,
                 << Width * Height + HalfWidth * (i \div 2) + j,
                    Width * Height + Width * (i \div 2) + 2 * j >>,
                 << Width * Height + VRow(i) + j,
                    Width * Height + Width * (i \div 2) + 2 * j + 1 >>}
  <2>1. NV12ToI420 = UNION {Four(i, j) : i \in Rows, j \in HalfColumns}
    BY <1>2 DEF NV12ToI420
  <2>2. ASSUME NEW i \in Rows, NEW j \in HalfColumns
        PROVE  s \in Four(i, j) <=>
                     \/ s = << Width * i + 2 * j, Width * i + 2 * j >>
                     \/ s = << Width * i + (2 * j + 1),
                               Width * i + (2 * j + 1) >>
                     \/ s = << 4 * Area + HalfWidth * (i \div 2) + j,
                               4 * Area + Width * (i \div 2) + 2 * j >>
                     \/ s = << 5 * Area + HalfWidth * (i \div 2) + j,
                               4 * Area + Width * (i \div 2) + 2 * j + 1 >>
    BY <1>3
  <2>. HIDE DEF Four
  <2>3. s \in NV12ToI420 <=>
            \E i \in Rows, j \in HalfColumns : s \in Four(i, j)
    <3>. DEFINE All == {Four(i, j) : i \in Rows, j \in HalfColumns}
    <3>1. \A t : t \in All <=> \E i \in Rows, j \in HalfColumns : t = Four(i, j)
      OBVIOUS
    <3>. HIDE DEF All
    <3>2. s \in UNION All <=> \E t \in All : s \in t
      OBVIOUS
    <3>. QED
      BY <2>1, <3>1, <3>2 DEF All
  <2>. QED
    BY <2>2, <2>3
<1>5. ASSUME NEW s \in NV12ToI420
      PROVE  \/ \E i \in Rows, j \in Columns :
                    s = << Width * i + j, Width * i + j >>
             \/ \E i \in HalfRows, j \in HalfColumns :
                    \/ s = << 4 * Area + HalfWidth * i + j,
                              4 * Area + Width * i + 2 * j >>
                    \/ s = << 5 * Area + HalfWidth * i + j,
                              4 * Area + Width * i + 2 * j + 1 >>
  BY <1>3, <1>4
<1>6. ASSUME NEW i \in Rows, NEW j \in Columns
      PROVE  << Width * i + j, Width * i + j >> \in NV12ToI420
  <2>1. /\ j \div 2 \in HalfColumns
        /\ j = 2 * (j \div 2) \/ j = 2 * (j \div 2) + 1
    BY <1>1, <1>2
  <2>. QED
    BY <1>4, <2>1
<1>7. ASSUME NEW i \in HalfRows, NEW j \in HalfColumns
      PROVE  /\ << 4 * Area + HalfWidth * i + j,
                   4 * Area + Width * i + 2 * j >> \in NV12ToI420
             /\ << 5 * Area + HalfWidth * i + j,
                   4 * Area + Width * i + 2 * j + 1 >> \in NV12ToI420
  <2>1. 2 * i \in Rows /\ (2 * i) \div 2 = i
    BY <1>1, <1>2
  <2>. QED
    BY <1>4, <2>1
<1>. QED
  BY <1>5, <1>6, <1>7

(* The conversion back makes the same stores the other way.                *)
LEMMA Converse ==
    ASSUME size \in Sizes
    PROVE  /\ \A s \in I420ToNV12 : << s[2], s[1] >> \in NV12ToI420
           /\ \A s \in NV12ToI420 : << s[2], s[1] >> \in I420ToNV12
<1>. DEFINE To(i, j) ==
              {<< Width * i + 2 * j, Width * i + 2 * j >>,
               << Width * i + 2 * j + 1, Width * i + 2 * j + 1 >>,
               << Width * Height + (Width \div 2) * (i \div 2) + j,
                  Width * Height + Width * (i \div 2) + 2 * j >>,
               << Width * Height + VRow(i) + j,
                  Width * Height + Width * (i \div 2) + 2 * j + 1 >>}
            From(i, j) ==
              {<< Width * i + 2 * j, Width * i + 2 * j >>,
               << Width * i + 2 * j + 1, Width * i + 2 * j + 1 >>,
               << Width * Height + Width * (i \div 2) + 2 * j,
                  Width * Height + (Width \div 2) * (i \div 2) + j >>,
               << Width * Height + Width * (i \div 2) + 2 * j + 1,
                  Width * Height + VRow(i) + j >>}
<1>1. NV12ToI420 = UNION {To(i, j) : i \in Rows, j \in HalfColumns}
  BY DEF NV12ToI420
<1>2. I420ToNV12 = UNION {From(i, j) : i \in Rows, j \in HalfColumns}
  BY DEF I420ToNV12, VRow
<1>3. ASSUME NEW i, NEW j
      PROVE  /\ \A s \in From(i, j) : << s[2], s[1] >> \in To(i, j)
             /\ \A s \in To(i, j) : << s[2], s[1] >> \in From(i, j)
  OBVIOUS
<1>. HIDE DEF To, From
<1>4. ASSUME NEW s
      PROVE  s \in NV12ToI420 <=>
                 \E i \in Rows, j \in HalfColumns : s \in To(i, j)
  <2>. DEFINE All == {To(i, j) : i \in Rows, j \in HalfColumns}
  <2>1. \A t : t \in All <=> \E i \in Rows, j \in HalfColumns : t = To(i, j)
    OBVIOUS
  <2>. HIDE DEF All
  <2>2. s \in UNION All <=> \E t \in All : s \in t
    OBVIOUS
  <2>. QED
    BY <1>1, <2>1, <2>2 DEF All
<1>5. ASSUME NEW s
      PROVE  s \in I420ToNV12 <=>
                 \E i \in Rows, j \in HalfColumns : s \in From(i, j)
  <2>. DEFINE All == {From(i, j) : i \in Rows, j \in HalfColumns}
  <2>1. \A t : t \in All <=> \E i \in Rows, j \in HalfColumns : t = From(i, j)
    OBVIOUS
  <2>. HIDE DEF All
  <2>2. s \in UNION All <=> \E t \in All : s \in t
    OBVIOUS
  <2>. QED
    BY <1>2, <2>1, <2>2 DEF All
<1>. QED
  BY <1>3, <1>4, <1>5

(* A frame in NV12 becomes the frame in I420.                              *)
LEMMA ToI420 ==
    ASSUME size \in Sizes, NEW f, NEW dst, DOMAIN dst = 0 .. 6 * Area - 1
    PROVE  Move(dst, NV12(f), NV12ToI420) = I420(f)
<1>1. Area \in Nat
  BY Dimensions
<1>2. I420(f) = [k \in DOMAIN dst |-> I420(f)[k]]
  BY I420Values DEF I420
<1>3. Bring(NV12ToI420, NV12(f), I420(f))
  BY ConversionStores, I420Values, NV12Values DEF Bring
<1>4. ASSUME NEW k \in DOMAIN dst PROVE \E s \in NV12ToI420 : s[1] = k
  <2>1. CASE k < 4 * Area
    <3>1. PICK i \in Rows, j \in Columns : k = Width * i + j
      BY <1>1, <2>1, Offsets
    <3>. QED
      BY <3>1, ConversionStores
  <2>2. CASE k >= 4 * Area /\ k < 5 * Area
    <3>1. PICK i \in HalfRows, j \in HalfColumns :
              k - 4 * Area = HalfWidth * i + j
      BY <1>1, <2>2, Offsets
    <3>2. k = 4 * Area + HalfWidth * i + j
      <4>1. HalfWidth \in Nat
        BY Dimensions
      <4>2. i \in Nat /\ j \in Nat
        BY <4>1, Planes
      <4>. QED
        BY <1>1, <3>1, <4>1, <4>2
    <3>. QED
      BY <3>2, ConversionStores
  <2>3. CASE k >= 5 * Area
    <3>1. PICK i \in HalfRows, j \in HalfColumns :
              k - 5 * Area = HalfWidth * i + j
      BY <1>1, <2>3, Offsets
    <3>2. k = 5 * Area + HalfWidth * i + j
      <4>1. HalfWidth \in Nat
        BY Dimensions
      <4>2. i \in Nat /\ j \in Nat
        BY <4>1, Planes
      <4>. QED
        BY <1>1, <3>1, <4>1, <4>2
    <3>. QED
      BY <3>2, ConversionStores
  <2>. QED
    BY <1>1, <2>1, <2>2, <2>3
<1>5. Reach(NV12ToI420, dst)
  BY <1>4 DEF Reach
<1>. QED
  BY <1>2, <1>3, <1>5, MoveAll

(* Every offset of the chroma in NV12 is half of a pair.                   *)
LEMMA PairOffsets ==
    ASSUME size \in Sizes, NEW k \in 0 .. 6 * Area - 1, k >= 4 * Area
    PROVE  \E i \in HalfRows, j \in HalfColumns :
               \/ k = 4 * Area + Width * i + 2 * j
               \/ k = 4 * Area + Width * i + 2 * j + 1
<1>1. Area \in Nat
  BY Dimensions
<1>2. /\ (k - 4 * Area) \div 2 \in 0 .. Area - 1
      /\ \/ k = 4 * Area + 2 * ((k - 4 * Area) \div 2)
         \/ k = 4 * Area + 2 * ((k - 4 * Area) \div 2) + 1
  BY <1>1
<1>3. PICK i \in HalfRows, j \in HalfColumns :
          (k - 4 * Area) \div 2 = HalfWidth * i + j
  BY <1>2, Offsets
<1>4. /\ Width * i = 2 * (HalfWidth * i)
      /\ HalfWidth * i \in Int /\ j \in Int
  BY Planes, Dimensions
<1>. QED
  BY <1>1, <1>2, <1>3, <1>4

(* A frame in I420 becomes the frame in NV12.                              *)
LEMMA ToNV12 ==
    ASSUME size \in Sizes, NEW f, NEW dst, DOMAIN dst = 0 .. 6 * Area - 1
    PROVE  Move(dst, I420(f), I420ToNV12) = NV12(f)
<1>1. Area \in Nat
  BY Dimensions
<1>2. NV12(f) = [k \in DOMAIN dst |-> NV12(f)[k]]
  BY NV12Values DEF NV12
<1>3. \A s \in NV12ToI420 : NV12(f)[s[2]] = I420(f)[s[1]]
  BY ConversionStores, I420Values, NV12Values
<1>4. Bring(I420ToNV12, I420(f), NV12(f))
  BY <1>3, Converse DEF Bring
<1>5. ASSUME NEW k \in DOMAIN dst PROVE \E s \in NV12ToI420 : s[2] = k
  <2>1. CASE k < 4 * Area
    <3>1. PICK i \in Rows, j \in Columns : k = Width * i + j
      BY <1>1, <2>1, Offsets
    <3>. QED
      BY <3>1, ConversionStores
  <2>2. CASE k >= 4 * Area
    <3>1. PICK i \in HalfRows, j \in HalfColumns :
              \/ k = 4 * Area + Width * i + 2 * j
              \/ k = 4 * Area + Width * i + 2 * j + 1
      BY <2>2, PairOffsets
    <3>. QED
      BY <3>1, ConversionStores
  <2>. QED
    BY <1>1, <2>1, <2>2
<1>6. Reach(I420ToNV12, dst)
  BY <1>5, Converse DEF Reach
<1>. QED
  BY <1>2, <1>4, <1>6, MoveAll

(* process_image of a planar device fills the buffer with the frame.       *)
LEMMA PlanarLoops ==
    ASSUME size \in Sizes, NEW f, NEW buffer,
           DOMAIN buffer = 0 .. 6 * Area - 1
    PROVE  Written(buffer, PlanarWrites(f)) = I420(f)
<1>1. /\ HalfWidth \in Nat /\ HalfWidth > 0 /\ Width = 2 * HalfWidth
      /\ HalfHeight \in Nat /\ HalfHeight > 0 /\ Height = 2 * HalfHeight
      /\ Width \in Nat /\ Width > 0 /\ Height \in Nat /\ Height > 0
      /\ Area \in Nat /\ Width * Height = 4 * Area
      /\ HalfWidth * HalfHeight = Area /\ Width * HalfHeight = 2 * Area
  BY Dimensions
<1>2. ASSUME NEW i \in Rows, NEW j \in Columns
      PROVE  i * Width + j = Width * i + j
  BY <1>1, Planes
<1>3. ASSUME NEW i \in HalfRows, NEW j \in HalfColumns
      PROVE  /\ Height * Width + i * (Width \div 2) + j
                   = 4 * Area + HalfWidth * i + j
             /\ Height * Width + (Height \div 2) * (Width \div 2)
                       + i * (Width \div 2) + j
                   = 5 * Area + HalfWidth * i + j
  <2>1. /\ i \in Nat /\ j \in Nat
        /\ Width \div 2 = HalfWidth /\ Height \div 2 = HalfHeight
    BY <1>1, Planes DEF HalfWidth, HalfHeight
  <2>2. Height * Width = 4 * Area /\ HalfHeight * HalfWidth = Area
    BY <1>1
  <2>. QED
    BY <1>1, <2>1, <2>2
<1>4. ASSUME NEW w
      PROVE  w \in PlanarWrites(f) <=>
                 \/ \E i \in Rows, j \in Columns :
                        w = << i * Width + j, Y(f, i, j) >>
                 \/ \E i \in HalfRows, j \in HalfColumns :
                        w = << Height * Width + i * (Width \div 2) + j,
                               U(f, i, j) >>
                 \/ \E i \in HalfRows, j \in HalfColumns :
                        w = << Height * Width
                                 + (Height \div 2) * (Width \div 2)
                                 + i * (Width \div 2) + j, V(f, i, j) >>
  BY DEF PlanarWrites
<1>5. Hold(PlanarWrites(f), I420(f))
  BY <1>2, <1>3, <1>4, I420Values DEF Hold
<1>6. ASSUME NEW k \in DOMAIN buffer
      PROVE  \E w \in PlanarWrites(f) : w[1] = k
  <2>1. CASE k < 4 * Area
    <3>1. PICK i \in Rows, j \in Columns : k = Width * i + j
      BY <1>1, <2>1, Offsets
    <3>2. << k, Y(f, i, j) >> \in PlanarWrites(f)
      BY <1>2, <1>4, <3>1
    <3>. QED
      BY <3>2
  <2>2. CASE k >= 4 * Area /\ k < 5 * Area
    <3>1. PICK i \in HalfRows, j \in HalfColumns :
              k - 4 * Area = HalfWidth * i + j
      BY <1>1, <2>2, Offsets
    <3>2. k = 4 * Area + HalfWidth * i + j
      <4>1. i \in Nat /\ j \in Nat
        BY <1>1, Planes
      <4>. QED
        BY <1>1, <3>1, <4>1
    <3>3. << k, U(f, i, j) >> \in PlanarWrites(f)
      BY <1>3, <1>4, <3>2
    <3>. QED
      BY <3>3
  <2>3. CASE k >= 5 * Area
    <3>1. PICK i \in HalfRows, j \in HalfColumns :
              k - 5 * Area = HalfWidth * i + j
      BY <1>1, <2>3, Offsets
    <3>2. k = 5 * Area + HalfWidth * i + j
      <4>1. i \in Nat /\ j \in Nat
        BY <1>1, Planes
      <4>. QED
        BY <1>1, <3>1, <4>1
    <3>3. << k, V(f, i, j) >> \in PlanarWrites(f)
      BY <1>3, <1>4, <3>2
    <3>. QED
      BY <3>3
  <2>. QED
    BY <1>1, <2>1, <2>2, <2>3
<1>7. Reach(PlanarWrites(f), buffer)
  BY <1>6 DEF Reach
<1>8. I420(f) = [k \in DOMAIN buffer |-> I420(f)[k]]
  BY I420Values DEF I420
<1>. QED
  BY <1>5, <1>7, <1>8, WrittenAll

(* So do the loops for a semi-planar one.                                  *)
LEMMA SemiPlanarLoops ==
    ASSUME size \in Sizes, NEW f, NEW buffer,
           DOMAIN buffer = 0 .. 6 * Area - 1
    PROVE  Written(buffer, SemiPlanarWrites(f)) = NV12(f)
<1>1. /\ HalfWidth \in Nat /\ HalfWidth > 0 /\ Width = 2 * HalfWidth
      /\ HalfHeight \in Nat /\ HalfHeight > 0 /\ Height = 2 * HalfHeight
      /\ Width \in Nat /\ Width > 0 /\ Height \in Nat /\ Height > 0
      /\ Area \in Nat /\ Width * Height = 4 * Area
      /\ HalfWidth * HalfHeight = Area /\ Width * HalfHeight = 2 * Area
  BY Dimensions
<1>2. ASSUME NEW i \in Rows, NEW j \in Columns
      PROVE  i * Width + j = Width * i + j
  BY <1>1, Planes
<1>3. ASSUME NEW i \in HalfRows, NEW j \in HalfColumns
      PROVE  /\ Height * Width + i * Width + j * 2 + 1 - 1
                   = 4 * Area + Width * i + 2 * j
             /\ Height * Width + i * Width + j * 2 + 2 - 1
                   = 4 * Area + Width * i + 2 * j + 1
  <2>1. i \in Nat /\ j \in Nat
    BY <1>1, Planes
  <2>. QED
    BY <1>1, <2>1
<1>4. ASSUME NEW w
      PROVE  w \in SemiPlanarWrites(f) <=>
                 \/ \E i \in Rows, j \in Columns :
                        w = << i * Width + j, Y(f, i, j) >>
                 \/ \E i \in HalfRows, j \in HalfColumns :
                        \/ w = << Height * Width + i * Width + j * 2 + 1 - 1,
                                  U(f, i, j) >>
                        \/ w = << Height * Width + i * Width + j * 2 + 2 - 1,
                                  V(f, i, j) >>
  <2>1. w \in SemiPlanarWrites(f) <=>
            \/ \E i \in Rows, j \in Columns :
                   w = << i * Width + j, Y(f, i, j) >>
            \/ \E i \in HalfRows, j \in HalfColumns, n \in 1 .. 2 :
                   w = << Height * Width + i * Width + j * 2 + n - 1,
                          Pair(f, i, j)[n] >>
    BY DEF SemiPlanarWrites
  <2>2. \A n : n \in 1 .. 2 <=> n = 1 \/ n = 2
    OBVIOUS
  <2>3. \A i, j : Pair(f, i, j)[1] = U(f, i, j) /\ Pair(f, i, j)[2] = V(f, i, j)
    BY DEF Pair
  <2>. QED
    BY <2>1, <2>2, <2>3
<1>5. Hold(SemiPlanarWrites(f), NV12(f))
  BY <1>2, <1>3, <1>4, NV12Values DEF Hold
<1>6. ASSUME NEW k \in DOMAIN buffer
      PROVE  \E w \in SemiPlanarWrites(f) : w[1] = k
  <2>1. CASE k < 4 * Area
    <3>1. PICK i \in Rows, j \in Columns : k = Width * i + j
      BY <1>1, <2>1, Offsets
    <3>2. << k, Y(f, i, j) >> \in SemiPlanarWrites(f)
      BY <1>2, <1>4, <3>1
    <3>. QED
      BY <3>2
  <2>2. CASE k >= 4 * Area
    <3>1. PICK i \in HalfRows, j \in HalfColumns :
              \/ k = 4 * Area + Width * i + 2 * j
              \/ k = 4 * Area + Width * i + 2 * j + 1
      BY <2>2, PairOffsets
    <3>2. \/ << k, U(f, i, j) >> \in SemiPlanarWrites(f)
          \/ << k, V(f, i, j) >> \in SemiPlanarWrites(f)
      BY <1>3, <1>4, <3>1
    <3>. QED
      BY <3>2
  <2>. QED
    BY <1>1, <2>1, <2>2
<1>7. Reach(SemiPlanarWrites(f), buffer)
  BY <1>6 DEF Reach
<1>8. NV12(f) = [k \in DOMAIN buffer |-> NV12(f)[k]]
  BY NV12Values DEF NV12
<1>. QED
  BY <1>5, <1>7, <1>8, WrittenAll

(* al_image_copy without padding copies the frame.                         *)
LEMMA CopyDense ==
    ASSUME size \in Sizes, NEW f, NEW dst, DOMAIN dst = 0 .. 6 * Area - 1
    PROVE  Move(dst, NV12(f), CopySemiPlanar(Width)) = NV12(f)
<1>1. /\ HalfWidth \in Nat /\ HalfWidth > 0 /\ Width = 2 * HalfWidth
      /\ HalfHeight \in Nat /\ HalfHeight > 0 /\ Height = 2 * HalfHeight
      /\ Width \in Nat /\ Width > 0 /\ Height \in Nat /\ Height > 0
      /\ Area \in Nat /\ Width * Height = 4 * Area
      /\ HalfWidth * HalfHeight = Area /\ Width * HalfHeight = 2 * Area
  BY Dimensions
<1>2. ASSUME NEW s
      PROVE  s \in CopySemiPlanar(Width) <=>
                 \/ \E k \in 0 .. 4 * Area - 1 : s = << k, k >>
                 \/ \E k \in 0 .. 2 * Area - 1 :
                        s = << 4 * Area + k, 4 * Area + k >>
  <2>1. /\ Height * Width = 4 * Area /\ (Height \div 2) * Width = 2 * Area
        /\ ChromaAt(Width) = 4 * Area
    BY <1>1 DEF ChromaAt, HalfHeight
  <2>2. s \in CopySemiPlanar(Width) <=>
            \/ \E k \in 0 .. 4 * Area - 1 : s = << 0 + k, 0 + k >>
            \/ \E k \in 0 .. 2 * Area - 1 : s = << 4 * Area + k, 4 * Area + k >>
    BY <2>1 DEF CopySemiPlanar, Memcpy
  <2>. QED
    BY <1>1, <2>2
<1>3. Bring(CopySemiPlanar(Width), NV12(f), NV12(f))
  BY <1>2 DEF Bring
<1>4. ASSUME NEW k \in DOMAIN dst
      PROVE  \E s \in CopySemiPlanar(Width) : s[1] = k
  <2>1. \/ k \in 0 .. 4 * Area - 1
        \/ k - 4 * Area \in 0 .. 2 * Area - 1 /\ k = 4 * Area + (k - 4 * Area)
    BY <1>1
  <2>2. << k, k >> \in CopySemiPlanar(Width)
    BY <1>2, <2>1
  <2>. QED
    BY <2>2
<1>5. Reach(CopySemiPlanar(Width), dst)
  BY <1>4 DEF Reach
<1>6. NV12(f) = [k \in DOMAIN dst |-> NV12(f)[k]]
  BY NV12Values DEF NV12
<1>. QED
  BY <1>3, <1>5, <1>6, MoveAll

-----------------------------------------------------------------------------
(* No copy leaves the buffers                                              *)

(* al_image_copy, whatever the stride.                                     *)
LEMMA CopyWithin ==
    ASSUME size \in Sizes, NEW stride \in Nat, stride >= Width,
           NEW dst, DOMAIN dst = DOMAIN Alloc(stride),
           NEW src, DOMAIN src = 0 .. 6 * Area - 1
    PROVE  InBounds(dst, src, CopySemiPlanar(stride))
<1>. DEFINE b == HalfHeight * stride
<1>1. /\ Width \in Nat /\ Height \in Nat
      /\ Area \in Nat /\ Width * Height = 4 * Area
      /\ Width * HalfHeight = 2 * Area
      /\ HalfHeight \in Nat
  BY Dimensions
<1>2. /\ b \in Nat /\ b >= 2 * Area /\ Height * stride = 2 * b
      /\ DOMAIN dst = 0 .. 3 * b - 1
  BY Room
<1>3. /\ Height * Width = 4 * Area /\ (Height \div 2) * Width = 2 * Area
      /\ ChromaAt(stride) = 2 * b
  BY <1>1, <1>2 DEF ChromaAt, HalfHeight
<1>. HIDE DEF b
<1>4. ASSUME NEW s \in CopySemiPlanar(stride)
      PROVE  \/ \E k \in 0 .. 4 * Area - 1 : s = << 0 + k, 0 + k >>
             \/ \E k \in 0 .. 2 * Area - 1 : s = << 2 * b + k, 4 * Area + k >>
  BY <1>3 DEF CopySemiPlanar, Memcpy
<1>5. ASSUME NEW s \in CopySemiPlanar(stride)
      PROVE  s[1] \in DOMAIN dst /\ s[2] \in DOMAIN src
  <2>1. CASE \E k \in 0 .. 4 * Area - 1 : s = << 0 + k, 0 + k >>
    BY <1>1, <1>2, <2>1
  <2>2. CASE \E k \in 0 .. 2 * Area - 1 : s = << 2 * b + k, 4 * Area + k >>
    BY <1>1, <1>2, <2>2
  <2>. QED
    BY <1>4, <2>1, <2>2
<1>. QED
  BY <1>5 DEF InBounds

(* The conversion to I420 and the one back.                                *)
LEMMA ConversionsWithin ==
    ASSUME size \in Sizes,
           NEW dst, DOMAIN dst = 0 .. 6 * Area - 1,
           NEW src, DOMAIN src = 0 .. 6 * Area - 1
    PROVE  /\ InBounds(dst, src, NV12ToI420)
           /\ InBounds(dst, src, I420ToNV12)
<1>1. Area \in Nat /\ HalfWidth \in Nat
  BY Dimensions
<1>2. ASSUME NEW s \in NV12ToI420
      PROVE  s[1] \in 0 .. 6 * Area - 1 /\ s[2] \in 0 .. 6 * Area - 1
  <2>1. CASE \E i \in Rows, j \in Columns :
                 s = << Width * i + j, Width * i + j >>
    <3>1. PICK i \in Rows, j \in Columns :
              s = << Width * i + j, Width * i + j >>
      BY <2>1
    <3>2. Width * i + j \in 0 .. 4 * Area - 1
      BY Planes
    <3>. QED
      BY <1>1, <3>1, <3>2
  <2>2. CASE \E i \in HalfRows, j \in HalfColumns :
                 \/ s = << 4 * Area + HalfWidth * i + j,
                           4 * Area + Width * i + 2 * j >>
                 \/ s = << 5 * Area + HalfWidth * i + j,
                           4 * Area + Width * i + 2 * j + 1 >>
    <3>1. PICK i \in HalfRows, j \in HalfColumns :
                 \/ s = << 4 * Area + HalfWidth * i + j,
                           4 * Area + Width * i + 2 * j >>
                 \/ s = << 5 * Area + HalfWidth * i + j,
                           4 * Area + Width * i + 2 * j + 1 >>
      BY <2>2
    <3>2. /\ i \in Nat /\ j \in Nat
          /\ HalfWidth * i + j \in 0 .. Area - 1
          /\ Width * i = 2 * (HalfWidth * i)
      BY <1>1, Planes
    <3>3. /\ 4 * Area + HalfWidth * i + j \in 0 .. 6 * Area - 1
          /\ 5 * Area + HalfWidth * i + j \in 0 .. 6 * Area - 1
          /\ 4 * Area + Width * i + 2 * j \in 0 .. 6 * Area - 1
          /\ 4 * Area + Width * i + 2 * j + 1 \in 0 .. 6 * Area - 1
      BY <1>1, <3>2
    <3>. QED
      BY <3>1, <3>3
  <2>. QED
    BY <2>1, <2>2, ConversionStores
<1>3. ASSUME NEW s \in I420ToNV12
      PROVE  s[1] \in 0 .. 6 * Area - 1 /\ s[2] \in 0 .. 6 * Area - 1
  BY <1>2, Converse
<1>. QED
  BY <1>2, <1>3 DEF InBounds

(* A quarter turn, whatever the strides, and what it makes of a frame.     *)
LEMMA QuarterTurn ==
    ASSUME size \in Sizes,
           NEW from \in Nat, from >= Width,
           NEW to \in Nat, to >= Height,
           NEW dst, DOMAIN dst = 0 .. (to * Width * 3) \div 2 - 1,
           NEW src, DOMAIN src = DOMAIN Alloc(from)
    PROVE  /\ InBounds(dst, src, Rotation(90, from, to))
           /\ \A f : from = Width /\ src = NV12(f) =>
                  \A i \in Columns, j \in Rows :
                      Move(dst, src, Rotation(90, from, to))[to * i + j] =
                          Y(f, (Height - 1) - j, i)
<1>1. /\ HalfWidth \in Nat /\ HalfWidth > 0 /\ Width = 2 * HalfWidth
      /\ HalfHeight \in Nat /\ HalfHeight > 0 /\ Height = 2 * HalfHeight
      /\ Width \in Nat /\ Width > 0 /\ Height \in Nat /\ Height > 0
  <2>1. /\ HalfWidth \in Nat /\ HalfWidth > 0 /\ Width = 2 * HalfWidth
        /\ HalfHeight \in Nat /\ HalfHeight > 0 /\ Height = 2 * HalfHeight
    BY Dimensions
  <2>. QED
    BY <2>1
<1>2. /\ Rows = 0 .. Height - 1 /\ Columns = 0 .. Width - 1
      /\ from > 0 /\ to > 0
  BY <1>1 DEF Rows, Columns
<1>. DEFINE stores == Rotation(90, from, to)
<1>3. ASSUME NEW s
      PROVE  s \in stores <=>
                 \E i \in Rows, j \in Columns :
                     s = << j * to + TurnedColumn(i), i * from + j >>
  <2>1. stores = {<< j * to + TurnedColumn(i), i * from + j >> :
                      i \in Rows, j \in Columns}
    BY DEF Rotation
  <2>. QED
    BY <2>1
<1>4. ASSUME NEW i \in Rows, NEW j \in Columns
      PROVE  /\ TurnedColumn(i) = (Height - 1) - i
             /\ TurnedColumn(i) \in 0 .. to - 1
             /\ j * to + TurnedColumn(i) = to * j + TurnedColumn(i)
             /\ i * from + j = from * i + j
             /\ to * j + TurnedColumn(i) \in DOMAIN dst
             /\ from * i + j \in DOMAIN src
  <2>1. /\ TurnedColumn(i) = (Height - 1) - i
        /\ TurnedColumn(i) \in 0 .. to - 1
        /\ i \in Nat /\ i < Height /\ j \in 0 .. from - 1
        /\ j \in Nat /\ j < Width
    BY <1>1, <1>2 DEF TurnedColumn
  <2>2. to * j + TurnedColumn(i) \in DOMAIN dst
    <3>1. to * j + TurnedColumn(i) < to * Width /\ to * j + TurnedColumn(i) >= 0
      BY <1>1, <2>1, RowsWithin
    <3>2. (to * Width * 3) \div 2 = 3 * (to * HalfWidth)
      BY <1>1
    <3>3. to * Width = 2 * (to * HalfWidth) /\ to * HalfWidth \in Nat
      BY <1>1
    <3>4. to * j + TurnedColumn(i) \in Int
      BY <1>1, <2>1
    <3>. QED
      BY <3>1, <3>2, <3>3, <3>4
  <2>3. from * i + j \in DOMAIN src
    <3>1. from * i + j < from * Height /\ from * i + j >= 0
      BY <1>1, <2>1, RowsWithin
    <3>2. /\ DOMAIN src = 0 .. 3 * (HalfHeight * from) - 1
          /\ Height * from = 2 * (HalfHeight * from)
          /\ HalfHeight * from \in Nat
      BY Room
    <3>3. from * Height = Height * from
      BY <1>1
    <3>4. from * i + j \in Int
      BY <1>1, <2>1
    <3>. QED
      BY <3>1, <3>2, <3>3, <3>4
  <2>. QED
    BY <1>1, <2>1, <2>2, <2>3
<1>5. InBounds(dst, src, stores)
  BY <1>3, <1>4 DEF InBounds
<1>6. ASSUME NEW f, from = Width, src = NV12(f),
             NEW i \in Columns, NEW j \in Rows
      PROVE  Move(dst, src, stores)[to * i + j] = Y(f, (Height - 1) - j, i)
  <2>. DEFINE r == (Height - 1) - j
  <2>1. r \in Rows /\ TurnedColumn(r) = j
    BY <1>1, <1>2 DEF TurnedColumn
  <2>2. << to * i + j, from * r + i >> \in stores /\ to * i + j \in DOMAIN dst
    BY <1>3, <1>4, <2>1
  <2>3. ASSUME NEW s \in stores, s[1] = to * i + j
        PROVE  src[s[2]] = Y(f, r, i)
    <3>1. PICK p \in Rows, q \in Columns :
              s = << to * q + TurnedColumn(p), from * p + q >>
      BY <1>3, <1>4
    <3>2. q = i /\ TurnedColumn(p) = j
      <4>1. /\ to * q + TurnedColumn(p) = to * i + j
            /\ TurnedColumn(p) \in 0 .. to - 1 /\ j \in 0 .. to - 1
            /\ q \in Nat /\ i \in Nat
        BY <1>1, <1>2, <1>4, <2>3, <3>1
      <4>. DEFINE a == to * q + TurnedColumn(p)
                  b == to * i + j
      <4>2. a \div to = q /\ a % to = TurnedColumn(p)
        BY <1>2, <4>1, RowColumn
      <4>3. b \div to = i /\ b % to = j
        BY <1>2, <4>1, RowColumn
      <4>4. a = b
        BY <4>1
      <4>. HIDE DEF a, b
      <4>. QED
        BY <4>2, <4>3, <4>4
    <3>3. p = r
      BY <1>1, <1>2, <1>4, <3>2
    <3>. QED
      BY <1>6, <3>1, <3>2, <3>3, NV12Values
  <2>. QED
    BY <2>2, <2>3 DEF Move
<1>. QED
  BY <1>5, <1>6

(* A copy by 0 degrees, to rows as long or longer.                         *)
LEMMA StraightCopy ==
    ASSUME size \in Sizes,
           NEW from \in Nat, from >= Width,
           NEW to \in Nat, to >= Width,
           NEW dst, DOMAIN dst = DOMAIN Alloc(to),
           NEW src, DOMAIN src = DOMAIN Alloc(from)
    PROVE  /\ to >= from => InBounds(dst, src, Rotation(0, from, to))
           /\ \A f : from = Width /\ to = Width /\ src = NV12(f) =>
                  Move(dst, src, Rotation(0, from, to)) = NV12(f)
<1>. DEFINE b == HalfHeight * from
            c == HalfHeight * to
<1>1. /\ HalfHeight \in Nat /\ Area \in Nat /\ Width * HalfHeight = 2 * Area
      /\ Width \in Nat
  <2>1. /\ HalfWidth \in Nat /\ Width = 2 * HalfWidth
        /\ HalfHeight \in Nat /\ Area \in Nat
        /\ Width * HalfHeight = 2 * Area
    BY Dimensions
  <2>. QED
    BY <2>1
<1>2. /\ b \in Nat /\ b >= 2 * Area /\ Height * from = 2 * b
      /\ DOMAIN src = 0 .. 3 * b - 1
  BY Room
<1>3. /\ c \in Nat /\ c >= 2 * Area /\ Height * to = 2 * c
      /\ DOMAIN dst = 0 .. 3 * c - 1
  BY Room
<1>4. (Height \div 2) * Width = 2 * Area
  BY <1>1 DEF HalfHeight
<1>5. ASSUME to >= from PROVE c >= b
  <2>1. HalfHeight * (to - from) >= 0
    BY <1>1, <1>5
  <2>2. HalfHeight * (to - from) = c - b
    BY <1>1
  <2>. QED
    BY <1>2, <1>3, <2>1, <2>2
<1>6. ASSUME NEW f, from = Width, to = Width, src = NV12(f)
      PROVE  Move(dst, src, Rotation(0, from, to)) = NV12(f)
  <2>1. Rotation(0, Width, Width) = CopySemiPlanar(Width)
    BY DEF Rotation, CopySemiPlanar, ChromaAt
  <2>2. DOMAIN dst = 0 .. 6 * Area - 1
    <3>1. 3 * c = 6 * Area
      BY <1>1, <1>6
    <3>. QED
      BY <1>3, <3>1
  <2>. QED
    BY <1>6, <2>1, <2>2, CopyDense
<1>. HIDE DEF b, c
<1>7. ASSUME to >= from PROVE InBounds(dst, src, Rotation(0, from, to))
  <2>1. ASSUME NEW s \in Rotation(0, from, to)
        PROVE  \/ \E k \in 0 .. 2 * b - 1 : s = << 0 + k, 0 + k >>
               \/ \E k \in 0 .. 2 * Area - 1 : s = << 2 * c + k, 2 * b + k >>
    BY <1>2, <1>3, <1>4 DEF Rotation, Memcpy
  <2>2. ASSUME NEW s \in Rotation(0, from, to)
        PROVE  s[1] \in DOMAIN dst /\ s[2] \in DOMAIN src
    <3>1. CASE \E k \in 0 .. 2 * b - 1 : s = << 0 + k, 0 + k >>
      BY <1>2, <1>3, <1>5, <1>7, <3>1
    <3>2. CASE \E k \in 0 .. 2 * Area - 1 : s = << 2 * c + k, 2 * b + k >>
      BY <1>1, <1>2, <1>3, <3>2
    <3>3. \/ \E k \in 0 .. 2 * b - 1 : s = << 0 + k, 0 + k >>
          \/ \E k \in 0 .. 2 * Area - 1 : s = << 2 * c + k, 2 * b + k >>
      BY <2>1
    <3>. QED
      BY <3>1, <3>2, <3>3, Zenon
  <2>. QED
    BY <2>2 DEF InBounds
<1>. QED
  BY <1>6, <1>7

-----------------------------------------------------------------------------
(* The invariant                                                           *)

(* The buffers of dense frames.                                            *)
LEMMA DenseBytes ==
    ASSUME size \in Sizes
    PROVE  /\ DOMAIN Alloc(Width) = 0 .. 6 * Area - 1
           /\ Width \in Nat
<1>1. /\ HalfWidth \in Nat /\ Width = 2 * HalfWidth
      /\ HalfHeight \in Nat /\ Area \in Nat
      /\ Width * HalfHeight = 2 * Area
  BY Dimensions
<1>2. DOMAIN Alloc(Width) = 0 .. 3 * (HalfHeight * Width) - 1
  BY <1>1, Room
<1>3. 3 * (HalfHeight * Width) = 6 * Area
  BY <1>1
<1>. QED
  BY <1>1, <1>2, <1>3

(* Stores and loops leave a buffer its size.                               *)
LEMMA SameBytes ==
    ASSUME NEW dst, NEW src, NEW stores
    PROVE  /\ DOMAIN Move(dst, src, stores) = DOMAIN dst
           /\ DOMAIN Written(dst, stores) = DOMAIN dst
BY DEF Move, Written

(* The invariant holds before the first frame.                             *)
LEMMA Initially == Init => TypeOK /\ FormatsInv
<1>. SUFFICES ASSUME Init PROVE TypeOK /\ FormatsInv
  OBVIOUS
<1>1. Width \in Nat
  BY FormatsAssumption DEF Init, Width
<1>2. TypeOK
  <2>1. size \in Sizes /\ device \in Devices /\ dense \in BOOLEAN
    BY DEF Init
  <2>2. frames = 0 /\ frames \in 0 .. MaxFrames
    BY FormatsAssumption DEF Init
  <2>3. image.format = "unknown" /\ image.stride = Width
    BY DEF Init, Width
  <2>. QED
    BY <2>1, <2>2, <2>3 DEF TypeOK
<1>3. ImageInv /\ FilledInv
  BY <1>1 DEF Init, ImageInv, FilledInv, Width
<1>4. AnswerInv /\ ConvertedData
  BY DEF Init, AnswerInv, ConvertedData, NoAnswer, Formats
<1>5. RotatedLuma
  BY DEF Init, RotatedLuma, NotTurned
<1>. QED
  BY <1>2, <1>3, <1>4, <1>5 DEF FormatsInv

(* What was answered and turned stays what it was.                         *)
LEMMA Unanswered ==
    ASSUME AnswerInv, ConvertedData, RotatedLuma,
           UNCHANGED << size, out, turned >>
    PROVE  AnswerInv' /\ ConvertedData' /\ RotatedLuma'
<1>1. AnswerInv'
  BY DEF AnswerInv, Alloc, NV12, Width, Height, ChromaOffset, Y, U, V
<1>2. ConvertedData'
  BY DEF ConvertedData, Layout, I420, NV12, Width, Height, ChromaOffset,
         Y, U, V
<1>3. RotatedLuma'
  BY DEF RotatedLuma, NV12, Width, Height, ChromaOffset, Y, U, V, Rows, Columns
<1>. QED
  BY <1>1, <1>2, <1>3

(* process_image                                                           *)
LEMMA ProcessImageStep ==
    ASSUME TypeOK, FormatsInv, ProcessImage
    PROVE  TypeOK' /\ FormatsInv'
<1>. DEFINE f == frames + 1
            sp == IF frames = 0 THEN Alloc(Width) ELSE yuv420sp
            p == IF frames = 0 THEN Alloc(Width) ELSE yuv420p
            data == IF frames = 0 THEN Alloc(image.stride) ELSE image.data
<1>1. /\ size \in Sizes /\ device \in Devices
      /\ device = "planar" \/ device = "semiplanar"
      /\ frames \in Nat /\ frames \in 0 .. MaxFrames
  BY FormatsAssumption DEF TypeOK, Formats
<1>2. /\ DOMAIN Alloc(Width) = 0 .. 6 * Area - 1
      /\ DOMAIN sp = DOMAIN Alloc(Width) /\ DOMAIN p = DOMAIN Alloc(Width)
      /\ DOMAIN data = DOMAIN Alloc(image.stride)
  BY <1>1, DenseBytes DEF TypeOK
<1>3. /\ frames < MaxFrames /\ frames' = f
      /\ dense' = (image.stride = Width)
      /\ UNCHANGED << size, device, out, turned >>
      /\ rgba' = RGBAOf(f)
      /\ device = "planar" => yuv420p' = Written(p, PlanarWrites(f))
      /\ device # "planar" => yuv420p' = p
      /\ device = "semiplanar" => yuv420sp' = Written(sp, SemiPlanarWrites(f))
      /\ device # "semiplanar" => yuv420sp' = sp
      /\ image' = [image EXCEPT
             !.format = device,
             !.data = IF device = "semiplanar"
                      THEN Move(data, yuv420sp', CopySemiPlanar(image.stride))
                      ELSE data]
  BY DEF ProcessImage
<1>. HIDE DEF sp, p, data
<1>4. /\ DOMAIN image' = {"format", "stride", "data"}
      /\ image'.format = device /\ image'.stride = image.stride
      /\ device = "semiplanar" =>
             image'.data = Move(data, yuv420sp', CopySemiPlanar(image.stride))
      /\ device # "semiplanar" => image'.data = data
  BY <1>3 DEF FormatsInv, ImageInv
<1>5. device = "planar" => yuv420p' = I420(f)
  BY <1>1, <1>2, <1>3, PlanarLoops
<1>6. device = "semiplanar" => yuv420sp' = NV12(f)
  BY <1>1, <1>2, <1>3, SemiPlanarLoops
<1>7. ASSUME device = "semiplanar", image.stride = Width
      PROVE  image'.data = NV12(f)
  <2>1. image'.data = Move(data, NV12(f), CopySemiPlanar(Width))
    BY <1>4, <1>6, <1>7
  <2>2. DOMAIN data = 0 .. 6 * Area - 1
    BY <1>2, <1>7
  <2>. QED
    BY <1>1, <2>1, <2>2, CopyDense
<1>8. TypeOK'
  <2>1. /\ size' \in Sizes /\ device' \in Devices /\ dense' \in BOOLEAN
        /\ frames' \in 0 .. MaxFrames /\ frames' # 0
    BY <1>1, <1>3, FormatsAssumption
  <2>2. /\ image'.format = device'
        /\ image'.stride \in Strides \cup {Width}
    BY <1>3, <1>4 DEF TypeOK
  <2>3. /\ DOMAIN image'.data = DOMAIN Alloc(image.stride)
        /\ DOMAIN yuv420sp' = DOMAIN Alloc(Width)
        /\ DOMAIN yuv420p' = DOMAIN Alloc(Width)
    <3>1. DOMAIN image'.data = DOMAIN Alloc(image.stride)
      BY <1>2, <1>4, SameBytes
    <3>2. DOMAIN yuv420sp' = DOMAIN Alloc(Width)
      BY <1>2, <1>3, SameBytes
    <3>3. DOMAIN yuv420p' = DOMAIN Alloc(Width)
      BY <1>2, <1>3, SameBytes
    <3>. QED
      BY <3>1, <3>2, <3>3
  <2>4. DOMAIN rgba' = 0 .. Width * Height - 1
    BY <1>3 DEF RGBAOf
  <2>5. /\ Width' = Width /\ Height' = Height
        /\ Alloc(image.stride)' = Alloc(image.stride)
        /\ Alloc(Width)' = Alloc(Width)
    BY <1>3, <1>4 DEF Alloc, Width, Height
  <2>. QED
    BY <2>1, <2>2, <2>3, <2>4, <2>5 DEF TypeOK
<1>9. ImageInv'
  BY <1>3, <1>4 DEF FormatsInv, ImageInv, Width
<1>10. FilledInv'
  <2>1. dense' => frames' > 0 /\ image'.stride = Width'
    <3>1. dense' => image.stride = Width
      BY <1>3, Zenon
    <3>2. frames' > 0
      BY <1>1, <1>3
    <3>3. image'.stride = image.stride /\ Width' = Width
      BY <1>3, <1>4 DEF Width
    <3>. QED
      BY <3>1, <3>2, <3>3
  <2>2. rgba' = RGBAOf(frames)'
    BY <1>3 DEF RGBAOf, Width, Height, Y, U, V
  <2>3. device' = "planar" => yuv420p' = I420(frames)'
    BY <1>3, <1>5 DEF I420, Width, Height, ChromaOffset, Y, U, V
  <2>4. NV12(frames)' = NV12(f)
    BY <1>3 DEF NV12, Width, Height, ChromaOffset, Y, U, V
  <2>5. device' = "semiplanar" => yuv420sp' = NV12(frames)'
    BY <1>3, <1>6, <2>4
  <2>6. device' = "semiplanar" /\ dense' => image'.data = NV12(frames)'
    BY <1>3, <1>7, <2>4
  <2>. QED
    BY <2>1, <2>2, <2>3, <2>5, <2>6 DEF FilledInv
<1>11. AnswerInv' /\ ConvertedData' /\ RotatedLuma'
  BY <1>3, Unanswered DEF FormatsInv
<1>. QED
  BY <1>8, <1>9, <1>10, <1>11 DEF FormatsInv

(* al_camera_get_data in the camera's own format                           *)
LEMMA GetNativeStep ==
    ASSUME TypeOK, FormatsInv, GetNative
    PROVE  TypeOK' /\ FormatsInv'
<1>1. /\ image.format \in Formats
      /\ out' = [format |-> image.format, native |-> TRUE, frame |-> frames,
                 dense |-> dense, stride |-> image.stride, data |-> image.data]
      /\ turned' = NotTurned
      /\ UNCHANGED camvars
  BY DEF GetNative, Answer
<1>2. /\ size \in Sizes /\ frames > 0 /\ image.format = device
      /\ image.stride \in Nat /\ image.stride >= Width
      /\ DOMAIN image.data = DOMAIN Alloc(image.stride)
  <2>1. frames \in Nat /\ frames # 0
    BY <1>1, FormatsAssumption DEF TypeOK, Formats
  <2>2. image.stride \in Nat
    BY DenseBytes, FormatsAssumption DEF TypeOK
  <2>. QED
    BY <2>1, <2>2 DEF TypeOK, FormatsInv, ImageInv
<1>3. TypeOK' /\ ImageInv' /\ FilledInv'
  <2>1. TypeOK'
    BY <1>1 DEF camvars, TypeOK, Alloc, Width, Height
  <2>2. ImageInv'
    BY <1>1 DEF camvars, FormatsInv, ImageInv, Width
  <2>3. FilledInv'
    BY <1>1 DEF camvars, FormatsInv, FilledInv, RGBAOf, I420, NV12, Width,
                Height, ChromaOffset, Y, U, V
  <2>. QED
    BY <2>1, <2>2, <2>3
<1>4. AnswerInv'
  <2>1. /\ out'.format = device /\ out'.dense = dense
        /\ out'.stride = image.stride /\ out'.data = image.data
        /\ out'.frame = frames
    BY <1>1, <1>2
  <2>2. /\ Width' = Width /\ Alloc(out.stride)' = Alloc(image.stride)
        /\ NV12(out.frame)' = NV12(frames)
    BY <1>1, <2>1
       DEF camvars, Alloc, NV12, Width, Height, ChromaOffset, Y, U, V
  <2>3. device = "semiplanar" /\ dense =>
            image.stride = Width /\ image.data = NV12(frames)
    BY <1>2 DEF FormatsInv, FilledInv
  <2>4. out'.format = "semiplanar" /\ (out'.native => out'.dense) =>
            out'.stride = Width' /\ out'.data = NV12(out.frame)'
    BY <1>1, <2>1, <2>2, <2>3
  <2>. QED
    BY <1>2, <2>1, <2>2, <2>4 DEF AnswerInv
<1>5. ConvertedData'
  BY <1>1 DEF ConvertedData
<1>6. RotatedLuma'
  BY <1>1 DEF RotatedLuma, NotTurned
<1>. QED
  BY <1>3, <1>4, <1>5, <1>6 DEF FormatsInv

(* al_camera_get_data in the other format                                  *)
LEMMA GetConvertedStep ==
    ASSUME TypeOK, FormatsInv, GetConverted
    PROVE  TypeOK' /\ FormatsInv'
<1>1. /\ image.format \in Formats
      /\ turned' = NotTurned
      /\ UNCHANGED << size, device, frames, rgba, image, dense >>
  BY DEF GetConverted, Answer
<1>2. /\ size \in Sizes /\ frames > 0
      /\ device = "planar" \/ device = "semiplanar"
      /\ DOMAIN Alloc(Width) = 0 .. 6 * Area - 1
      /\ DOMAIN yuv420sp = 0 .. 6 * Area - 1
      /\ DOMAIN yuv420p = 0 .. 6 * Area - 1
      /\ Width \in Nat
  <2>1. frames \in Nat /\ frames # 0
    BY <1>1, FormatsAssumption DEF TypeOK, Formats
  <2>2. device = "planar" \/ device = "semiplanar"
    BY FormatsAssumption DEF TypeOK, Formats
  <2>. QED
    BY <2>1, <2>2, DenseBytes DEF TypeOK
<1>3. ASSUME device = "planar"
      PROVE  /\ yuv420sp' = NV12(frames) /\ yuv420p' = yuv420p
             /\ out' = [format |-> "semiplanar", native |-> FALSE,
                        frame |-> frames, dense |-> dense,
                        stride |-> Width, data |-> NV12(frames)]
  <2>1. /\ yuv420sp' = Move(yuv420sp, yuv420p, I420ToNV12)
        /\ Answer("semiplanar", FALSE, Width, yuv420sp')
        /\ yuv420p' = yuv420p
    BY <1>3 DEF GetConverted
  <2>2. yuv420p = I420(frames)
    BY <1>2, <1>3 DEF FormatsInv, FilledInv
  <2>3. yuv420sp' = NV12(frames)
    BY <1>2, <2>1, <2>2, ToNV12
  <2>. QED
    BY <2>1, <2>3 DEF Answer
<1>4. ASSUME device = "semiplanar"
      PROVE  /\ yuv420p' = I420(frames) /\ yuv420sp' = yuv420sp
             /\ out' = [format |-> "planar", native |-> FALSE,
                        frame |-> frames, dense |-> dense,
                        stride |-> Width, data |-> I420(frames)]
  <2>1. /\ yuv420p' = Move(yuv420p, yuv420sp, NV12ToI420)
        /\ Answer("planar", FALSE, Width, yuv420p')
        /\ yuv420sp' = yuv420sp
    BY <1>4 DEF GetConverted
  <2>2. yuv420sp = NV12(frames)
    BY <1>2, <1>4 DEF FormatsInv, FilledInv
  <2>3. yuv420p' = I420(frames)
    BY <1>2, <2>1, <2>2, ToI420
  <2>. QED
    BY <2>1, <2>3 DEF Answer
<1>5. /\ DOMAIN I420(frames) = 0 .. 6 * Area - 1
      /\ DOMAIN NV12(frames) = 0 .. 6 * Area - 1
  BY <1>2, I420Values, NV12Values
<1>6. /\ DOMAIN yuv420sp' = 0 .. 6 * Area - 1
      /\ DOMAIN yuv420p' = 0 .. 6 * Area - 1
  BY <1>2, <1>3, <1>4, <1>5
<1>7. /\ Width' = Width /\ Height' = Height
      /\ \A stride : Alloc(stride)' = Alloc(stride)
      /\ I420(frames)' = I420(frames) /\ NV12(frames)' = NV12(frames)
      /\ RGBAOf(frames)' = RGBAOf(frames)
  BY <1>1 DEF Alloc, I420, NV12, RGBAOf, Width, Height, ChromaOffset, Y, U, V
<1>8. TypeOK'
  BY <1>1, <1>2, <1>6, <1>7 DEF TypeOK
<1>9. ImageInv'
  BY <1>1, <1>7 DEF FormatsInv, ImageInv
<1>10. FilledInv'
  BY <1>1, <1>2, <1>3, <1>4, <1>7 DEF FormatsInv, FilledInv
<1>11. AnswerInv' /\ ConvertedData'
  <2>1. CASE device = "planar"
    <3>1. NV12(out.frame)' = NV12(frames)
      BY <1>1, <1>3, <2>1 DEF NV12, Width, Height, ChromaOffset, Y, U, V
    <3>. QED
      BY <1>2, <1>3, <1>5, <1>7, <2>1, <3>1
         DEF AnswerInv, ConvertedData, Layout
  <2>2. CASE device = "semiplanar"
    <3>1. I420(out.frame)' = I420(frames)
      BY <1>1, <1>4, <2>2 DEF I420, Width, Height, ChromaOffset, Y, U, V
    <3>. QED
      BY <1>2, <1>4, <1>5, <1>7, <2>2, <3>1
         DEF AnswerInv, ConvertedData, Layout
  <2>. QED
    BY <1>2, <2>1, <2>2
<1>12. RotatedLuma'
  BY <1>1 DEF RotatedLuma, NotTurned
<1>. QED
  BY <1>8, <1>9, <1>10, <1>11, <1>12 DEF FormatsInv

(* al_camera_set_stride                                                    *)
LEMMA SetStrideStep ==
    ASSUME TypeOK, FormatsInv, NEW stride \in Strides, SetStride(stride)
    PROVE  TypeOK' /\ FormatsInv'
<1>1. /\ image.format \in Formats /\ stride >= Width
      /\ image' = [image EXCEPT
             !.stride = stride,
             !.data = [k \in 0 .. Bytes(stride) - 1 |->
                          IF k \in DOMAIN @ THEN @[k] ELSE NoSample]]
      /\ dense' = FALSE /\ turned' = NotTurned
      /\ UNCHANGED << size, device, frames, yuv420sp, yuv420p, rgba, out >>
  BY DEF SetStride
<1>2. /\ DOMAIN image' = {"format", "stride", "data"}
      /\ image'.format = image.format /\ image'.stride = stride
      /\ DOMAIN image'.data = 0 .. Bytes(stride) - 1
  BY <1>1 DEF FormatsInv, ImageInv
<1>3. DOMAIN image'.data = DOMAIN Alloc(stride)
  BY <1>2 DEF Bytes, Alloc
<1>4. /\ Width' = Width /\ Height' = Height
      /\ \A s : Alloc(s)' = Alloc(s)
      /\ I420(frames)' = I420(frames) /\ NV12(frames)' = NV12(frames)
      /\ RGBAOf(frames)' = RGBAOf(frames)
  BY <1>1 DEF Alloc, I420, NV12, RGBAOf, Width, Height, ChromaOffset, Y, U, V
<1>5. TypeOK'
  <2>1. /\ image'.format = IF frames' = 0 THEN "unknown" ELSE device'
        /\ image'.stride \in Strides \cup {Width'}
    BY <1>1, <1>2 DEF TypeOK
  <2>2. Alloc(image.stride)' = Alloc(stride) /\ Alloc(Width)' = Alloc(Width)
    BY <1>1, <1>2, <1>4 DEF Alloc, Width, Height
  <2>. QED
    BY <1>1, <1>3, <1>4, <2>1, <2>2 DEF TypeOK
<1>6. ImageInv'
  BY <1>1, <1>2, <1>4 DEF ImageInv
<1>7. FilledInv'
  BY <1>1, <1>4 DEF FormatsInv, FilledInv
<1>8. AnswerInv' /\ ConvertedData'
  <2>1. AnswerInv'
    BY <1>1 DEF FormatsInv, AnswerInv, Alloc, NV12, Width, Height,
                ChromaOffset, Y, U, V
  <2>2. ConvertedData'
    BY <1>1 DEF FormatsInv, ConvertedData, Layout, I420, NV12, Width, Height,
                ChromaOffset, Y, U, V
  <2>. QED
    BY <2>1, <2>2
<1>9. RotatedLuma'
  BY <1>1 DEF RotatedLuma, NotTurned
<1>. QED
  BY <1>5, <1>6, <1>7, <1>8, <1>9 DEF FormatsInv

(* al_image_rotate                                                         *)
LEMMA RotateStep ==
    ASSUME TypeOK, FormatsInv, NEW degrees \in {0, 90, 180},
           NEW stride \in Strides, Rotate(degrees, stride)
    PROVE  TypeOK' /\ FormatsInv'
<1>. DEFINE w == IF degrees = 90 THEN Height ELSE Width
            h == IF degrees = 90 THEN Width ELSE Height
            dst == [k \in 0 .. (stride * h * 3) \div 2 - 1 |-> NoSample]
            stores == Rotation(degrees, out.stride, stride)
            fits == InBounds(dst, out.data, stores)
<1>1. /\ out.format = "semiplanar" /\ stride >= w
      /\ turned' = [degrees |-> degrees, stride |-> stride, fits |-> fits,
                    data |-> IF fits THEN Move(dst, out.data, stores)
                                     ELSE Empty]
      /\ UNCHANGED << camvars, out >>
  BY DEF Rotate
<1>2. /\ size \in Sizes /\ stride \in Nat
      /\ out.stride \in Nat /\ out.stride >= Width
      /\ DOMAIN out.data = DOMAIN Alloc(out.stride)
      /\ (out.native => out.dense) =>
             out.stride = Width /\ out.data = NV12(out.frame)
  BY <1>1, FormatsAssumption DEF TypeOK, FormatsInv, AnswerInv, Formats
<1>3. degrees = 90 =>
          /\ fits
          /\ (out.native => out.dense) =>
                 \A i \in Columns, j \in Rows :
                     Move(dst, out.data, stores)[stride * i + j] =
                         Y(out.frame, (Height - 1) - j, i)
  <2>. SUFFICES ASSUME degrees = 90
                PROVE  /\ fits
                       /\ (out.native => out.dense) =>
                              \A i \in Columns, j \in Rows :
                                  Move(dst, out.data, stores)[stride * i + j] =
                                      Y(out.frame, (Height - 1) - j, i)
    OBVIOUS
  <2>1. DOMAIN dst = 0 .. (stride * Width * 3) \div 2 - 1 /\ stride >= Height
    BY <1>1
  <2>2. stores = Rotation(90, out.stride, stride)
    OBVIOUS
  <2>. HIDE DEF dst, stores
  <2>. QED
    BY <1>2, <2>1, <2>2, QuarterTurn
<1>4. degrees = 0 =>
          /\ fits \/ stride < out.stride
          /\ (out.native => out.dense) /\ stride = Width =>
                 fits /\ Move(dst, out.data, stores) = NV12(out.frame)
  <2>. SUFFICES ASSUME degrees = 0
                PROVE  /\ fits \/ stride < out.stride
                       /\ (out.native => out.dense) /\ stride = Width =>
                              /\ fits
                              /\ Move(dst, out.data, stores) = NV12(out.frame)
    OBVIOUS
  <2>1. DOMAIN dst = DOMAIN Alloc(stride) /\ stride >= Width
    BY <1>1 DEF Alloc
  <2>2. stores = Rotation(0, out.stride, stride)
    OBVIOUS
  <2>. HIDE DEF dst, stores
  <2>3. stride >= out.stride => fits
    BY <1>2, <2>1, <2>2, StraightCopy
  <2>4. (out.native => out.dense) /\ stride = Width =>
            Move(dst, out.data, stores) = NV12(out.frame)
    BY <1>2, <2>1, <2>2, StraightCopy
  <2>. QED
    BY <1>2, <2>3, <2>4
<1>5. degrees = 180 => fits
  BY DEF Rotation, InBounds
<1>. HIDE DEF dst, stores, fits
<1>6. RotatedLuma'
  <2>1. /\ turned'.degrees = degrees /\ turned'.stride = stride
        /\ turned'.fits = fits
        /\ fits => turned'.data = Move(dst, out.data, stores)
        /\ out' = out /\ size' = size
    BY <1>1 DEF camvars
  <2>2. turned'.fits \/ (turned'.degrees = 0 /\ turned'.stride < out'.stride)
    BY <1>3, <1>4, <1>5, <2>1
  <2>3. /\ Width' = Width /\ Height' = Height
        /\ Rows' = Rows /\ Columns' = Columns
        /\ NV12(out.frame)' = NV12(out.frame)
    BY <2>1 DEF NV12, Width, Height, Rows, Columns, ChromaOffset, Y, U, V
  <2>4. ASSUME out.native => out.dense, degrees = 0, stride = Width
        PROVE  turned'.data = NV12(out.frame)
    BY <1>4, <2>1, <2>4
  <2>5. ASSUME out.native => out.dense, degrees = 90,
               NEW i \in Columns, NEW j \in Rows
        PROVE  turned'.data[stride * i + j] = Y(out.frame, (Height - 1) - j, i)
    BY <1>3, <2>1, <2>5
  <2>. QED
    BY <2>1, <2>2, <2>3, <2>4, <2>5 DEF RotatedLuma, Y
<1>7. AnswerInv' /\ ConvertedData'
  <2>1. AnswerInv'
    BY <1>1 DEF camvars, FormatsInv, AnswerInv, Alloc, NV12, Width, Height,
                ChromaOffset, Y, U, V
  <2>2. ConvertedData'
    BY <1>1 DEF camvars, FormatsInv, ConvertedData, Layout, I420, NV12, Width,
                Height, ChromaOffset, Y, U, V
  <2>. QED
    BY <2>1, <2>2
<1>8. TypeOK' /\ ImageInv' /\ FilledInv'
  <2>1. TypeOK'
    BY <1>1 DEF camvars, TypeOK, Alloc, Width, Height
  <2>2. ImageInv'
    BY <1>1 DEF camvars, FormatsInv, ImageInv, Width
  <2>3. FilledInv'
    BY <1>1 DEF camvars, FormatsInv, FilledInv, RGBAOf, I420, NV12, Width,
                Height, ChromaOffset, Y, U, V
  <2>. QED
    BY <2>1, <2>2, <2>3
<1>. QED
  BY <1>6, <1>7, <1>8 DEF FormatsInv

(* A step that changes nothing keeps the invariant.                        *)
LEMMA StutteringStep ==
    ASSUME TypeOK, FormatsInv, UNCHANGED vars
    PROVE  TypeOK' /\ FormatsInv'
<1>1. TypeOK'
  BY DEF vars, camvars, TypeOK, Alloc, Width, Height
<1>2. ImageInv'
  BY DEF vars, camvars, FormatsInv, ImageInv, Width
<1>3. FilledInv'
  BY DEF vars, camvars, FormatsInv, FilledInv, RGBAOf, I420, NV12, Width,
         Height, ChromaOffset, Y, U, V
<1>4. AnswerInv' /\ ConvertedData' /\ RotatedLuma'
  BY Unanswered DEF vars, camvars, FormatsInv
<1>. QED
  BY <1>1, <1>2, <1>3, <1>4 DEF FormatsInv

-----------------------------------------------------------------------------
(* Theorems                                                                *)

(* Whatever the client calls between frames, every buffer has the size its *)
(* stride calls for, and those of the camera's own format the last frame.  *)
THEOREM Invariance == Spec => [](TypeOK /\ FormatsInv)
<1>1. Init => TypeOK /\ FormatsInv
  BY Initially
<1>2. TypeOK /\ FormatsInv /\ [Next]_vars => TypeOK' /\ FormatsInv'
  <2>. SUFFICES ASSUME TypeOK, FormatsInv, [Next]_vars
                PROVE  TypeOK' /\ FormatsInv'
    OBVIOUS
  <2>1. CASE ProcessImage
    BY <2>1, ProcessImageStep
  <2>2. CASE GetNative
    BY <2>2, GetNativeStep
  <2>3. CASE GetConverted
    BY <2>3, GetConvertedStep
  <2>4. ASSUME NEW stride \in Strides, SetStride(stride)
        PROVE  TypeOK' /\ FormatsInv'
    BY <2>4, SetStrideStep
  <2>5. ASSUME NEW degrees \in {0, 90, 180}, NEW stride \in Strides,
               Rotate(degrees, stride)
        PROVE  TypeOK' /\ FormatsInv'
    BY <2>5, RotateStep
  <2>6. CASE UNCHANGED vars
    BY <2>6, StutteringStep
  <2>. QED
    BY <2>1, <2>2, <2>3, <2>4, <2>5, <2>6 DEF Next
<1>. QED
  BY <1>1, <1>2, PTL DEF Spec

(* Every variable keeps its type, and every buffer its size.               *)
THEOREM TypeCorrect == Spec => []TypeOK
BY Invariance, PTL

(* al_camera_get_data in the format the camera does not have gives the     *)
(* whole frame processed last, in the layout of that format.               *)
THEOREM Converted == Spec => []ConvertedData
<1>1. FormatsInv => ConvertedData
  BY DEF FormatsInv
<1>. QED
  BY <1>1, Invariance, PTL

(* A quarter turn puts every luma sample of a frame in its place and none  *)
(* outside of the new image; a dense copy is the frame.                    *)
THEOREM Rotated == Spec => []RotatedLuma
<1>1. FormatsInv => RotatedLuma
  BY DEF FormatsInv
<1>. QED
  BY <1>1, Invariance, PTL

(* No copy or conversion that may come next leaves its buffers, whatever   *)
(* strides were set.                                                       *)
THEOREM CopiesWithin == Spec => []CopiesFit
<1>1. ASSUME TypeOK, FormatsInv PROVE CopiesFit
  <2>. SUFFICES ASSUME image.format \in Formats
                PROVE  /\ InBounds(image.data, yuv420sp,
                                   CopySemiPlanar(image.stride))
                       /\ InBounds(yuv420p, yuv420sp, NV12ToI420)
                       /\ InBounds(yuv420sp, yuv420p, I420ToNV12)
    BY DEF CopiesFit
  <2>1. /\ size \in Sizes /\ frames > 0
        /\ image.stride \in Nat /\ image.stride >= Width
    <3>1. frames \in Nat /\ frames # 0 /\ size \in Sizes
      BY <1>1, FormatsAssumption DEF TypeOK, Formats
    <3>2. image.stride \in Nat
      BY <1>1, <3>1, DenseBytes, FormatsAssumption DEF TypeOK
    <3>. QED
      BY <1>1, <3>1, <3>2 DEF FormatsInv, ImageInv
  <2>2. /\ DOMAIN image.data = DOMAIN Alloc(image.stride)
        /\ DOMAIN yuv420sp = 0 .. 6 * Area - 1
        /\ DOMAIN yuv420p = 0 .. 6 * Area - 1
    BY <1>1, <2>1, DenseBytes DEF TypeOK
  <2>. QED
    BY <2>1, <2>2, CopyWithin, ConversionsWithin
<1>. QED
  BY <1>1, Invariance, PTL

(* The RGBA frame and the one in the camera's own YUV buffer are the same  *)
(* picture, pixel by pixel.                                                *)
THEOREM SamePicture == Spec => []BuffersAgree
<1>1. ASSUME TypeOK, FormatsInv, frames > 0, NEW i \in Rows, NEW j \in Columns
      PROVE  rgba[Width * i + j] =
                 Pixel(device, IF device = "planar" THEN yuv420p ELSE yuv420sp,
                       i, j)
  <2>. DEFINE a == i \div 2
              b == j \div 2
  <2>1. /\ size \in Sizes
        /\ device = "planar" \/ device = "semiplanar"
        /\ rgba = RGBAOf(frames)
        /\ device = "planar" => yuv420p = I420(frames)
        /\ device = "semiplanar" => yuv420sp = NV12(frames)
    BY <1>1, FormatsAssumption DEF TypeOK, Formats, FormatsInv, FilledInv
  <2>2. /\ HalfWidth \in Nat /\ Width = 2 * HalfWidth /\ Width > 0
        /\ Width \in Nat
        /\ Width * Height = 4 * Area /\ Area \in Nat
        /\ (Width \div 2) * (Height \div 2) = Area
        /\ Width \div 2 = HalfWidth
    <3>1. /\ HalfWidth \in Nat /\ HalfWidth > 0 /\ Width = 2 * HalfWidth
          /\ Width * Height = 4 * Area /\ Area \in Nat
      BY <2>1, Dimensions
    <3>. QED
      BY <3>1 DEF Area, HalfWidth, HalfHeight
  <2>3. /\ i \in Nat /\ j \in 0 .. Width - 1
        /\ Width * i + j \in 0 .. 4 * Area - 1
        /\ a \in HalfRows /\ b \in HalfColumns
    BY <1>1, <2>1, Planes
  <2>4. a \in Nat /\ b \in Nat /\ Width * a = 2 * (HalfWidth * a)
    BY <2>1, <2>3, Planes
  <2>5. rgba[Width * i + j] =
            << Y(frames, i, j), U(frames, a, b), V(frames, a, b) >>
    <3>. DEFINE k == Width * i + j
    <3>1. k \div Width = i /\ k % Width = j
      BY <2>2, <2>3, RowColumn
    <3>2. k \in 0 .. Width * Height - 1
      BY <2>2, <2>3
    <3>. HIDE DEF k
    <3>3. rgba[k] = << Y(frames, i, j), U(frames, a, b), V(frames, a, b) >>
      BY <2>1, <3>1, <3>2 DEF RGBAOf
    <3>. QED
      BY <3>3 DEF k
  <2>. HIDE DEF a, b
  <2>6. CASE device = "planar"
    <3>1. Pixel("planar", yuv420p, i, j) =
              << yuv420p[Width * i + j],
                 yuv420p[4 * Area + HalfWidth * a + b],
                 yuv420p[5 * Area + HalfWidth * a + b] >>
      <4>1. /\ Width * Height + (HalfWidth * a + b)
                   = 4 * Area + HalfWidth * a + b
            /\ Width * Height + Area + (HalfWidth * a + b)
                   = 5 * Area + HalfWidth * a + b
        BY <2>2, <2>4
      <4>2. Pixel("planar", yuv420p, i, j) =
                << yuv420p[Width * i + j],
                   yuv420p[Width * Height + (HalfWidth * a + b)],
                   yuv420p[Width * Height + Area + (HalfWidth * a + b)] >>
        BY <2>2 DEF Pixel, a, b
      <4>. QED
        BY <4>1, <4>2
    <3>. QED
      BY <1>1, <2>1, <2>3, <2>5, <2>6, <3>1, I420Values
  <2>7. CASE device = "semiplanar"
    <3>1. Pixel("semiplanar", yuv420sp, i, j) =
              << yuv420sp[Width * i + j],
                 yuv420sp[4 * Area + Width * a + 2 * b],
                 yuv420sp[4 * Area + Width * a + 2 * b + 1] >>
      <4>1. /\ Width * Height + 2 * (HalfWidth * a + b)
                   = 4 * Area + Width * a + 2 * b
            /\ Width * Height + 2 * (HalfWidth * a + b) + 1
                   = 4 * Area + Width * a + 2 * b + 1
        BY <2>2, <2>4
      <4>2. Pixel("semiplanar", yuv420sp, i, j) =
                << yuv420sp[Width * i + j],
                   yuv420sp[Width * Height + 2 * (HalfWidth * a + b)],
                   yuv420sp[Width * Height + 2 * (HalfWidth * a + b) + 1] >>
        BY <2>2 DEF Pixel, a, b
      <4>. QED
        BY <4>1, <4>2
    <3>. QED
      BY <1>1, <2>1, <2>3, <2>5, <2>7, <3>1, NV12Values
  <2>. QED
    BY <2>1, <2>6, <2>7
<1>2. TypeOK /\ FormatsInv => BuffersAgree
  BY <1>1 DEF BuffersAgree
<1>. QED
  BY <1>2, Invariance, PTL
=============================================================================
