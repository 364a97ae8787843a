# A TLA+ model of the Aluminium Library

The Aluminium Library (`libal`) gives C, Python and Lua programs one interface
to the camera, network, display, locale and permissions of Android, iOS and
macOS. Most of its state and of its concurrency is in the camera:
`android/camera.c` and `darwin/camera.m`, with the fatal-signal handlers of
`android/common.c` and `darwin/common.c`, the frame buffers of `image.c`, the
conversions of `yuv.c`, and the client loop that
`python/libal/camera/__init__.py` describes. The rest is a handful of static
variables that any thread may use. These modules model both.

## 1. Inventory

| part | state it keeps | operations | interacts with |
|---|---|---|---|
| Android camera, opening and closing (`android/camera.c`) | `struct al_camera` (62-88), the registry `_al_cameras` (90-91), `_sdk` | `al_camera_new` (789-951), `_free` (953-1002), `_start` (1154-1200), `_stop` (1202-1211) | NDK objects, each built on others; the signal handler reads the registry |
| Choice of the capture mode | `cam->metadata` | `get_camera_metadata` (702-787) | sizes every buffer |
| Fatal-signal handlers (`*/common.c`) | none of their own | `fatal_signal_handler`, `al_camera_cleanup` | interrupt any call above, or run beside it, and stop the registered cameras |
| Android frame delivery | `stop`, `read`, four frame buffers, the reader's queue | `on_image_available` (360-407), `process_image` (107-358), `al_camera_get_rgba` (1299-1311), start, stop, free | the image-reader thread and the client thread share the struct without a lock |
| Frame memory (`image.c`, `android/camera.c`) | the blocks of the four buffers, `cam->image.stride` | `al_image_alloc`, `_free`, `process_image`, `al_camera_set_stride` (1340-1366) | both threads; the allocator may refuse |
| Frame formats (`image.c`, `yuv.c`, `android/camera.c`) | layout of `yuv420p`, `yuv420sp`, `rgba`, `image` | NV12/I420 conversion, `al_image_copy`, `al_image_rotate`, `al_camera_get_data` (1249-1297), `_set_stride` | called by both threads |
| Darwin camera, running (`darwin/camera.m`) | `stop`, `read`, `image`, `rgba`, the capture session | `al_camera_start` (904-920) and its block, `_stop`, `_get_rgba`, `_free`, `didOutputSampleBuffer` (672-694), `process_image` (386-640) | client thread, serial capture queue, global queue |
| Darwin camera, ownership | reference counts, the registry, the conversion buffer of `darwin/yuv.c` | `al_camera_new` (705-855), `_free` (857-902), `_al_darwin_yuv_to_rgba` | compiled without ARC; lent and owned objects side by side |
| Android services (`android/common.c`, `net.c`, `dirs.c`, `display.c`, `permissions.c`) | `_activity`, `_al_multicast_lock`, `_al_ip`, local references per thread | `_getactivity`, the multicast lock, the address, queries | any thread of the client; the activity comes and goes |
| Python and Lua bindings | the pointer to the struct | `Camera.start`, `stop`, `rgba_bytes`, `__del__` | the client of everything above |

What makes them correct:

* **Opening and closing.** A camera is whole or absent, whatever fails; each
  object is released once, before what it is built on; only what is listed
  outlives the struct.
* **Handlers.** When the process dies by a signal, no registered camera is left
  capturing, and the handler does not itself fault.
* **Delivery.** No announced frame is missed; copies never go back in time; a
  stopped camera is quiet and its last frame whole; a running camera delivers.
* **Memory.** Every block has one owner and is large enough for what is written
  to it; a failed allocation is not used.
* **Formats.** What the client gets is the last frame, in the layout it asked
  for; no copy leaves its buffer.
* **Services.** One reference to the activity and one to the lock, as long as
  they are kept; a lock is held exactly when the library says so.

Hard behaviour: unsynchronised sharing between two or three threads, releases
interrupted by signals, nine or ten stages that may each fail, allocations that
are only asserted, products in a `size_t`, 200 ms sleeps standing in for joins,
and notifications that are consumed without their frame. `PROJECT.json` lists
each such hazard at its line.

## 2. Modules

| module | models | abstracts |
|---|---|---|
| `CameraLifecycle` | Android: opening, closing, starting, stopping; the signal handler, on the client's thread or another | frames, pixel data, which mode is chosen |
| `FrameMailbox` | abstract: a one-place mailbox of announcements, which is what `cam->read` is | pixels, what a taking call answers, everything but announcing and taking |
| `FrameDelivery` | Android: one camera's callback thread and its client | pixels: a buffer is the frame in each of its halves |
| `ImageMemory` | sizes in a `size_t`, blocks of memory | contents |
| `ImageBlocks` | `al_image_alloc`, `al_image_free`, called by a client in any order | contents |
| `CameraBuffers` | Android: the mode chosen, the four buffers of a camera, a stride set beside a frame | contents; the flag protocol |
| `FrameFormats` | where every byte of a frame goes | interleaving: every call is one step |
| `DarwinCamera` | iOS and macOS: one camera's queue, block and client | pixels, as above; a buffer also has an address |
| `DarwinLifecycle` | iOS and macOS: reference counts and registry | frames and the block are one step each |
| `AndroidServices` | the statics of the Android library, used by several threads | what the platform answers |
| `...Proofs` | theorems about the module of that name, checked by TLAPS: all of the above but `FrameMailbox` and `ImageMemory`, which the others use | |
| `MC*` | the instances for TLC | |

`ImageBlocks` and `CameraBuffers` extend `ImageMemory`.
`FrameDelivery` and `DarwinCamera` both instantiate `FrameMailbox`
(`latest <- published, fresh <- read`), so the two platforms are held to one
specification of the flag protocol. It is of the flag only: that a frame is
given once, or that an answer of NULL leaves an announcement for the next call,
the code does not keep (section 3, "Observed"), and the specification does not
say.

### How the state corresponds

*CameraLifecycle.* `Cams` are addresses `calloc` may return, reused after
`free`. `fields[c]` is the set of pointers of the struct that are not NULL,
`live[c]` the set of objects that exist. The difference between the two is the
point: objects nothing points to, and pointers to what was released.
`Stages`, `ErrorLabel`, `ErrorOrder` and `FreeOrder` are the order of calls in
`al_camera_new`, the labels its `goto`s name, and the order of releases.
`call` is the call in progress and its position. A release and the store of
NULL are two steps, because a signal may come between them. `Release` looks at
the pointer on the way out of `al_camera_free` and does not on the failure
path, as in the code. `images` stands for the four buffers `process_image`
allocates. `handler` is at a slot: it loads the slot (`CleanupSlot`), sets
`cam->stop` and reads `cam->session` (`CleanupStop`), and ends the request of
the session it read (`CleanupHalt`), which by then may be closed; each may be
the use of freed memory (`CleanupCrashes`). With `elsewhere` the client's steps
go on between these. `lost`, `stale` and `handler.begun` are ghosts.

*FrameDelivery.* `rgba`, `read`, `stop` are the fields. `queue`, `events`,
`exposing` are the NDK's reader: one notification for each frame that arrives,
and a full queue holds the camera back. `cb` is the callback's position.
`client` is the client's: `al_camera_get_rgba` is the test (1304), the
store (1308), then the client's copy in two halves, each of which may meet
another frame.

*DarwinCamera.* The same for the capture queue, with the block that
`al_camera_start` dispatches as a third thread, and addresses of the RGBA
buffer, which every frame replaces. A copy from an address that is no longer
the buffer's reads anything, here 0.

*DarwinLifecycle.* `balance[c][o]` is the retains minus the releases the
library made; a lent object starts at 0. `pixels` is the conversion buffer
`_al_darwin_yuv_to_rgba` keeps in `image_buffers`. `settled` collects the
balances found when a struct is freed.

*ImageMemory, ImageBlocks, CameraBuffers.* `live` are the blocks allocated and
`room` the bytes each has. `Root` is `SIZE_MAX_SQRT`: a `size_t` is below its
square, and every product is taken modulo it. `Exchange` is `free`,
`posix_memalign` or `realloc`. In `CameraBuffers`, `cb` is the listener's place
in `process_image`, with the destination `memcpy` was given; `client` is the
place in `al_camera_set_stride`, whose `realloc` and two stores are three
steps. An access is checked against the block at hand and ends the program in
`stopped`, and so does an assertion in a build that has them; in one that does
not, the client may set a stride below the width. The loop of
`get_camera_metadata` runs to four times the length of the list, as in the
code, where `count` is of integers; `Entry` is what it reads, beyond the list
anything in `Beyond`, or what it may not read (`ReadFails`). `found` is the
mode at `index`, which the code reads again after the loop. The norm of
`get_camera_metadata` is compared in units of `Grain` below `FltMax`, as a
float rounds and overflows.

*FrameFormats.* A byte is the sample it holds (plane, frame, row, column), a
buffer a function from offsets to samples, a loop or `memcpy` a set of pairs of
offsets.

*AndroidServices.* `instance`, `lock`, `ip` are the statics
`_activity.instance`, `_al_multicast_lock`, `_al_ip`; `refs` the global
references, `held` the platform's count on each lock, `pc` and `arg` where each
thread is in a call that stores in a static. `locals` counts the calls whose
local references a thread still has. `raced` and `nested` are ghosts: which
statics two calls used at a time, and which locks were acquired again while
held.

Definitions whose comment begins with "Slip" are deliberate mistakes. No
specification uses them; each takes the place of the definition after it to
show that a property notices the mistake (`PROJECT.json`, "mutants").

## 3. Runs

| run | question | bounds | result |
|---|---|---|---|
| `lifecycle_faults` | is every path of open, close, start, stop clean under failures and a signal at any step, on either thread? | 2 cameras, 2 indices of which 1 has a slot, all 10 platform calls may fail, SDK 23 and 24; 2.2 million states | holds |
| `delivery_polling` | are copies current, monotone, within their buffers, whole once stopped; is the flag a mailbox; do frames keep coming, and is none missed for good? | 4 frames, queue of 2, failures, stops and restarts | holds |
| `delivery_wedged` | do frames come after a restart? | 3 frames, queue of 1 | violated (finding 1) |
| `darwin_stopped` | is a stopped camera safe to copy from and to free? | 3 frames, 2 starts, 2 addresses, failures | holds |
| `darwin_copy` | is the returned buffer there while it is copied? | 2 frames, 1 start | violated (finding 2) |
| `darwin_restart` | does a started camera run? | 2 starts | violated (finding 3) |
| `darwin_faults` | do retains and releases balance under failures and signals? | 2 cameras, 3 indices of which 2 have slots; 1.9 million states | holds, with the listed exceptions |
| `formats` | is the data given, converted or turned the last frame in the right layout, and within bounds? | sizes 2-6 by 2-4, strides 2-8, 3 frames | holds |
| `services` | are the statics sound when two threads use them? | 2 threads of which 1 returns to Java, 2 activities, 2 locks, 2 acquisitions, versions 24 and 31, addresses at the borders of the private ranges; 1 million states | holds, with the listed exceptions |
| `image_blocks` | is an image's block owned and large enough, for odd and for wrapping sizes? | a `size_t` of 6 bits, widths to 62, heights and strides to 8 | holds |
| `camera_buffers` | is the mode the nearest; are the camera's blocks owned and large enough beside `al_camera_set_stride`? | a `size_t` of 8 bits, 4 lists of modes, 3 entries past them, 3 strides, with and without assertions; 364 thousand states | holds, with the listed exceptions |
| `mode_beyond` | is the mode one a picture can have? | as above | violated (finding 4) |

Why the bounds are enough. Two cameras are the fewest with which a release
could touch the wrong one or a freed address return in another slot; one index
without a slot covers both branches of `index < N_CAMERAS`. A handler on its
own thread multiplies the states, so `lifecycle_faults` has one slot, which a
second camera takes over; that more slots change nothing is proved, for any
number. Frames are only compared, so what matters is how many are in flight
together: one in the buffer, one being processed, one or two queued. Two starts
give a restart. Frames of 2, 4 and 6 by 2 and 4 have one and several chroma
columns and rows, and are not square. Strides are multiples of `StrideUnit` = 2
in place of 16, a default stride of `Unit` = 4 in place of 32. Five blocks are
the four buffers and one in the hand of `realloc`. The entries past a list are
one without a width, one nearer than any listed, and one that does not fit; of
the strides one is not a multiple of the unit, and the first is below the width
of the widest modes. Two threads suffice for the
services because a race is between two calls; the theorems have any number.

The findings, in short (quotations in `PROJECT.json`):

1. Frames refused while `stop` is set stay in the reader and can block it for
   good; `al_camera_start` clears `stop` after it starts the request.
2. On Darwin the buffer handed out is freed by the next frame.
3. On Darwin the dispatched block may see the old `stop` and never start.
4. The loop over the modes takes a count of integers for one of modes, reads up
   to four times the length of the list, and may choose what it finds there: a
   width of zero, which `al_camera_new` asserts not to come.

Observed while modelling, and written into the properties as exceptions:

* A failed `al_camera_new` leaves the freed struct in the registry
  (`android/camera.c:946`, `darwin/camera.m:851`), where the handler uses it
  (`CrashOnlyKnown`). On another thread the handler may also meet a camera that
  is being closed.
* `cam->read` is cleared before the client copies, so a frame finished during
  the copy is announced again, and copied twice (`android/camera.c:1308`, 354),
  although `Camera.data` is said not to return the same frame twice
  (`python/libal/camera/__init__.py:247-248`). `CopyForward` allows a copy equal
  to the one before, and `CopyNotOlder` one torn between two frames;
  `FrameMailbox` speaks of announcements, each of which is taken once.
* On Darwin the flag is cleared before the buffer is looked at
  (`darwin/camera.m:986-991`), and a frame that failed leaves none (627): an
  announcement may be taken by a call that answers NULL.
* What the loop over the modes reads past the list is taken only if it is nearer
  than every mode offered (`NearestMode`), and the read itself may fault
  (`StopsOnlyKnown`).
* That a stride is not below the width is only asserted
  (`android/camera.c:1344`); without assertions `al_image_copy` then writes
  beyond the block (`StopsOnlyKnown`).
* `al_image_copy` does not implement the planar format, although
  `process_image` asserts that it does (`android/camera.c:315`): with
  assertions a planar camera aborts (`StopsOnlyKnown`), without them its native
  data is never written.
* A failed allocation of a buffer is only asserted; without assertions
  `process_image` writes through NULL (`StopsOnlyKnown`).
* `al_image_alloc` guards the stride and the height but not their product, nor
  the stride it computes (`AllocatedFits`).
* `al_camera_set_stride` beside a frame may move the block a copy goes to.
* `al_image_rotate` by 90 degrees turns the luma only, by 180 does nothing, and
  by 0 copies rows of the source's stride into those of the destination
  (`RotatedLuma`). The built-in test of `image.c` (300-321) turns an image of
  format 0, for which the answer is `AL_NOTIMPLEMENTED`, and asserts `AL_OK`.
* A lock acquired twice and released once stays held, and nothing can release
  it (`LostOnlyNested`).
* `al_libdir`, the display, the network and a request for a permission use the
  activity without looking whether there is one (`AbortOnlyKnown`).
* `al_camera_free` on Darwin forgets the conversion buffer (`Balanced`).

`KnownLeaks`, `KnownImbalances` and the properties named `...OnlyKnown` list
the exceptions the code really has. They say there are no others, and become
stronger as the code is repaired and the lists shrink.

## 4. Fairness and assumptions

* `FairSpec` of `FrameDelivery`: weak fairness of the camera, of the callback
  thread and of a call in progress (none of them waits on a lock), strong
  fairness of the polling client, whose loop (`examples/webcam.py`) reads
  `rgba_bytes` again and again and is only momentarily busy with another call.
  Nothing is assumed of stops, restarts and failures: the client may stop or
  not, at any time. `FrameComesUnlessLost` names what may keep a frame from a
  client that does not stop: one refused in the reader (finding 1), or one
  whose query failed.
* `FairSpec` of `DarwinCamera`: weak fairness of dispatched blocks, callbacks
  and the client; used only for finding 3.
* `DrainSuffices`: 200 ms outlast a run of the callback and, on Darwin, the
  blocks due. `al_camera_stop` waits for nothing else; properties that need
  this name it.
* `StopsFirst`: the client stops a Darwin camera before freeing it, as
  `Camera.__del__` does.
* The signal handler of Android runs on the client's thread, which makes no
  step meanwhile, or on another one, beside it (`Elsewhere`). `DarwinLifecycle`
  has it as one step. `CleanupComplete` is about a client that does not open an
  index twice (`SharesIndex`).
* `AImageReader_delete` returns once the running listener has returned (NDK).
* A release build: `assert` does nothing (`build.mk:39-40`), except where
  `Asserts` leaves both open: `ImageBlocks` and `CameraBuffers`.
* `FrameFormats`: every allocation succeeds, and `al_image_rotate` is given
  images its assertions allow. In `DarwinLifecycle` a client does not open an
  index it has open, and frees no camera whose block is due.
* `CameraBuffers`: memory past the list of modes holds integers of 32 bits,
  which do not change during the loop, or cannot be read; `AImageReader_new`
  refuses a size that is not positive; a frame has the size of the mode;
  `al_camera_free` is called when no frame is processed, which `FrameDelivery`
  establishes.
* `AndroidServices`: the platform ends a process that calls a method on NULL or
  on a deleted reference, or fills the table of local references before version
  26; it counts the acquisitions of a lock.

## 5. Proofs

TLAPS checks the theorems for every value of the constants that meets the
assumption named in the module that declares them: `ConstantsAssumption`,
`DeliveryAssumption`, `ServicesAssumption`, `DarwinAssumption`,
`DarwinLifecycleAssumption`, `MemoryAssumption`, `BlocksAssumption`,
`BuffersAssumption`, `FormatsAssumption`. Each asks no more than that sets and
bounds are what they stand for (a size is a pair of even positive numbers, a
stride a multiple of the unit, NULL not a block). Every module that has actions
of its own has its inductive invariant proved and, from it, each safety property
that its passing runs check.

*CameraLifecycleProofs.* `LifecycleInv` is inductive together with `TypeOK`.
The properties alone are not: that the labels release only what was acquired
depends on what the call holds at each position. So `NewInv` says that after
k-1 stages the fields are exactly `Held(k)`; `ErrorInv` that from position p of
the labels they are exactly `Remaining(p)`; `FreeInv` that nothing released so
far is left in a field; `SettledInv` that every other allocated camera is
whole; `FreedInv` what a freed struct left live; `SlotInv` what the registry
names. The lemmas before the steps compute `Held` and `Remaining` at each
position, and `Labels` relates a failing stage to its label. One lemma per
action preserves the invariant; `TypeCorrect`, `CamerasComplete`,
`LeaksBounded`, `ReleasesOwned`, `RegistrySound` and `CrashesKnown` follow from
it. `ReleasesOrdered` is the action property `ReleaseOrder`, from the same
invariant and the positions of users and used in the two orders. The number of
cameras, indices and slots, whether a client opens an index twice, which calls
fail, and the handler's thread are arbitrary.

The last part, `CleanupsComplete`, adds to that invariant: `RegisteredInv`, an
allocated camera whose index has a slot is in it until `al_camera_free` clears
it, if no index is opened twice; `RunningInv`, a camera that captures has an
open session and knows it; `PassedInv`, a camera the handler has still to halt
is at a slot to come, or at hand. The properties of `CameraLifecycle` alone do
not give it: they do not say where the handler is in relation to what runs.

*FrameDeliveryProofs.* `DeliveryInv` is inductive with `TypeOK`: `QueueInv`
orders the queue and puts it after everything acquired; `CallbackInv` says how
much of the frame at hand is in the buffer; `ReadInv` ties the flag to
`published` and `taken`; `CopyInv` bounds the copies by the buffer; `BufferInv`
says who may use the buffers; `QuietInv` and `StoppedInv` describe a stopped
camera. The number of frames and the length of the queue are arbitrary.
`MailboxRefined` proves that `Spec` implements `FrameMailbox`: `Publish` maps to
`Announce`, `ClearRead` to `Take`, every other step to a stutter.

*AndroidServicesProofs.* `ActivityInv`, `LockInv` and `AddressInv` say of each
static that, as long as no two calls used it at a time, at most one thread is
in such a call (`Alone`), and what the references, the platform's count and the
text are for each place that thread may be at. `NestedInv` is why a lock still
held after its release was acquired again before. The properties speak of
moments between two calls only, and are not inductive. The number of threads,
activities and locks is arbitrary.

*DarwinCameraProofs.* `CameraInv` is inductive with `TypeOK`. `BlockHasCamera`
and `CallbackHasBuffers` alone are not: they say nothing of the blocks still
due when the client begins to free. `QuietInv` does: a client is quiet from the
end of the 200 ms to its next start, and then, if they suffice, no block is due
and no callback runs. `FrameInv` orders the frames, `BufferInv` says which
frame the buffer holds at each place of the callback, `CopyInv` that a quiet
client copies from the camera's buffer what was announced last.
`QuietCopyLive` is what remains true of finding 2: while the camera is quiet,
the address the client copies from is the buffer. `MailboxRefined` proves the
refinement of `FrameMailbox`, as for Android.

*DarwinLifecycleProofs.* `OwnInv` is the heart: what the library retained and
has not released is `Count(o)` for an object a field names, less one between a
release and the store of nil, and otherwise nothing or what one release left.
`Balanced` looks only at a struct that is being freed, so it cannot be carried
from step to step alone. `NewInv`, `ErrorInv` and `FreeInv` give the fields at
each stage, label and line; `SlotInv` what the registry names after the
struct. The lemmas before the steps compute `Held` and `Remaining`.

*ImageBlocksProofs.* `BlockOwned` and `AllocatedFits` are inductive with the
types. What needs an argument is the arithmetic, for a word of any size:
`SizeEnough`, that a size whose product does not leave the word has room for
every row, of luma and of chroma, at the stride, odd heights included (no copy
or conversion needs more: the copies put the luma rows closer), and
`ExchangeMemory`, what `free`, `posix_memalign` and `realloc` leave in memory.

*CameraBuffersProofs.* `LoopInv` is the invariant of the loop over the modes
and past them, which `NearestMode` states of its end: as the loop replaces what
it has only by something nearer, whatever is behind the list is chosen only if
it is nearer than all of the list, whose first nearest is kept otherwise.
`FrameInv` says which buffers `process_image` has allocated or failed to
allocate at each of its steps, `RoomInv` which size each block has, and for
which stride while `al_camera_set_stride` is between its `realloc` and its
stores. Both are needed for `StopsOnlyKnown`: that no access leaves a block
unless a stride is set beside a frame, or one below the width without
assertions. The list of modes and what is behind it, the width of a `size_t`,
the strides and the norm are arbitrary.

*FrameFormatsProofs.* For frames of every even width and height. The lemmas
come first: `Divided`, `RowColumn` and `RowsWithin` on rows and columns;
`I420Values` and `NV12Values`, which compute what a frame in either format
holds at the offset of a row and column; `Offsets`, that these are all the
offsets; `MoveAll`, that stores which bring what a buffer should hold and reach
all of it make the buffer that, whichever of several stores to one offset comes
last. From these: the loops of `process_image` give a frame
(`PlanarLoops`, `SemiPlanarLoops`), the conversions give the frame in the other
format (`ToI420`, `ToNV12`), and a quarter turn places the luma
(`QuarterTurn`). `ConvertedData` is not inductive: an answer is right because
the buffer of the camera's own format still is the frame, after any number of
conversions (`FilledInv`), and `RotatedLuma` because of what was answered
(`AnswerInv`). `CopiesFit` and `BuffersAgree` follow from the same invariant.

Two things came to light in proving. `ImageMemory`'s `Exchange` had a `CASE` of
which two guards could hold at once, for a block freed and allocated again by
one `realloc`; the guards now exclude each other. TLC took the first of them,
which was the one meant. `FormatsAssumption` did not say that a size is a pair
of numbers.

Only model-checked: liveness (`FrameComesUnlessLost`, `NewestTaken`), which this
prover does not reach, and the four violations, which are single behaviours.

## 6. Not modelled, and the plan

Order of work:

1. Done: the Android life cycle with a handler on either thread, delivery, the
   mailbox, the memory and the formats of frames, the choice of the mode, the
   Darwin camera and its ownership, the Android services; the inductive
   invariant of each, and every safety property as a theorem.
2. Next:
   * the drain as a bounded number of steps in place of `DrainSuffices`, with
     what a step of the callback costs;
   * an abstract specification of ownership that `CameraLifecycle` and
     `DarwinLifecycle` both implement, as `FrameMailbox` is for the flag.

Not modelled: the size of the Darwin conversion buffer when frames grow
(`darwin/yuv.c:62`); the orientation and the facing of a camera, which are
copied; `_copy_rgba` and the arithmetic of RGBA samples, which keep no state.

Left out for good: what iOS and macOS answer about the network, permissions,
directories, locale and display, which the library formats and hands on; the
Python interface lookup; the Lua declarations and the Python accessors, which
convert types; logging; build files.

## 7. Running

    tlc -config LifecycleFaults.cfg MCCameraLifecycle
    tlapm CameraLifecycleProofs.tla

and likewise for the other rows of section 3 (`DeliveryPolling`,
`DeliveryWedged` with `MCFrameDelivery`; `DarwinStopped`, `DarwinCopy`,
`DarwinRestart` with `MCDarwinCamera`; `DarwinFaults` with `MCDarwinLifecycle`;
`Formats` with `MCFrameFormats`; `Services` with `MCAndroidServices`;
`ImageBlocks` with `MCImageBlocks`; `Buffers`, `BuffersMode` with
`MCCameraBuffers`) and for
the other seven modules whose names end in `Proofs`.
