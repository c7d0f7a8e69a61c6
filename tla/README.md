# Verification of virtual_endpoint

`virtual_endpoint` is a video endpoint in C++ (ACE, V4L2, x264/x265, libavcodec,
Qt): it captures a camera, encodes, packs NAL units (NALUs) into RTP and sends
them; and it receives RTP, reassembles the NALUs, decodes and shows the pictures.
This directory holds TLA+ models of it, their TLC runs and TLAPS proofs.
`PROJECT.json` lists, for every definition, the source lines it translates, and
for every run, property and theorem what it shows.

## 1. The system

| Component | State | Operations | Works with |
|---|---|---|---|
| `Ep_Interface` (ep_interface.cpp) | the parts of both halves | `video_decode_init/start/stop`, `video_encode_init/start/stop`, called by the GUI thread | all tasks |
| `Rtp_Recv_Handler` | `_sock_fd`, `_nalu_buf`, `_nalu_len`, one thread | `start`, `stop`, `svc` (recvfrom, parse, call back) | `UDP_Socket`, `Rtp2Nalu_H264`, callback into the decoder task |
| `Video_Decoder_Task`, `Video_Render_Task`, `Video_Encoder_Task`, `Nalu2Rtp_Handler` | a message queue, a pool of 8 buffers, one thread each | `start`, `stop`, `operator()` (called by the upstream thread), `svc` | upstream thread through `operator()`; codec, widget, socket |
| `Video_Capture_Task`, `My_Video_Capture_Impl` | `_is_run`; `_mutex`, `_video_capture` | `start`, `stop`, `svc`; `init`, `release`, `operator()` | `Video_Capture`, callback into the encoder task |
| `Video_Capture` (my_v4l2) | `_fd`, `_is_locked`, `_capturing`, mapped buffers | `init`, `release`, `start/stop_capture`, `lock_frame`, `unlock_frame` | V4L2 driver |
| `Nalu2Rtp_H264`, `Rtp2Nalu_H264` | sequence number; the assembly buffer of the receiver | `pack_and_send`; `rtp_parse` | UDP |
| decoders, encoders, factories | codec contexts; a map name to codec | `decode`, `operator()`, `create`, `destroy` | libavcodec, x264, x265 |
| widgets (YUV_GL, YUV, OGL) | queue or block pool, `_destory_mutex`, painter flags | `on_yuv_data_arrive`, `init`, `release`, paint | render thread against GUI thread |
| `my_video_device` | list of devices | enumeration | my_v4l2 |

Two pipelines, each of four threads (the GUI's and one per part):

    recvfrom -> Rtp_Recv_Handler -NALU-> Video_Decoder_Task -picture-> Video_Render_Task -> widget
    camera -> Video_Capture_Task -frame-> Video_Encoder_Task -NALs-> Nalu2Rtp_Handler -> sendto

A part gives work to the next one by calling its `operator()` in its own thread,
which takes a buffer of the next part's pool, copies into it and queues it.

What is hard here: start and stop come from buttons that are never disabled, in
any order, while the threads run; the stop of one half goes with the stream, that
of the other against it; `putq` waits on a full queue, and one message makes it full;
its results are ignored and results of `malloc` tested wrongly or not at all; queues
are reactivated with what they held; a NULL message competes with `deactivate`; descriptors and devices are shared without a
lock or under one that does not cover the test of `_is_run`; UDP loses and
reorders, and the receiver looks at no sequence number. `PROJECT.json` lists each
as a hazard at its line, with the properties that would catch it going wrong.

What makes each component correct: a **stage** neither loses, shares nor frees
twice a buffer, and its thread ends when and only when it is stopped; a
**pipeline** keeps the order of its frames and passes on what it does not drop; a
**stop** returns, with every thread joined and every device closed; the **RTP**
ends deliver what was sent, and never a NALU without its beginning; the
**capture** gives no one a frame that is unmapped, overwritten or of another size,
and loses no buffer; a **widget** neither blocks its producer for ever nor paints a
picture that is being replaced; the **factories** lose nothing that a codec's `init`
obtained, whichever step of it fails; the **enumerations** list each mode they visit once, in order.

## 2. The modules

| Module | Models | Proofs in |
|---|---|---|
| `AceTask` | the ACE queue and pool, as the code uses them (external) | `TaskStagesProofs` |
| `TaskStages` | the steps of one stage; the four tasks share them | `TaskStagesProofs` |
| `FrameStream` | abstract: an ordered stream that may drop frames | with each of its four implementations |
| `DecodePipeline` | the receiving half: GUI thread, receiver, decoder, renderer | `DecodePipelineProofs` |
| `EncodePipeline` | the sending half: GUI thread, capture with device and mutex, encoder, sender | `EncodePipelineProofs` |
| `NaluFifo` | abstract: every NALU delivered once, whole and in order | `RtpTransportProofs` |
| `RtpTransport` | `pack_and_send`, the UDP network, `rtp_parse`, the receiver's loop | `RtpTransportProofs` |
| `VideoCapture` | one camera: its owner, the capture thread, and the buffers between driver and program | `CaptureAndCodecsProofs` |
| `DeviceModes` | the listing of formats, sizes and frame intervals | `CaptureAndCodecsProofs` |
| `YuvGlWidget` | the OpenGL widget: render thread against painting and closing GUI thread | `YuvGlWidgetProofs` |
| `YuvWidget` | the Qt widget with its pool of blocks, likewise | `YuvWidgetProofs` |
| `OglWidget` | the X11 widget: owner, painter thread and decoding thread | `OglWidgetProofs` |
| `Codecs` | both factories, `init` and `release` of the codecs, an encoder's timestamp | `CaptureAndCodecsProofs` |
| `MC...` | small instances for TLC: symmetry, sets of lengths, a camera that is listed and then captured from | |

**Stages.** `svc[s]` is where the thread of stage *s* is; `qstate[s]`, `queue[s]`
the message queue; `free[s]` the pool; `fill[s]` and `hand[s]` the buffer that
`operator()` fills and the one `svc` works on; `lost[s]` is a history variable of
the buffers a failed `putq` left to no one. Each operator is one step between two
points where another thread can interfere (a queue or pool operation, a wait).
`StartTask` spawns a thread only where there is none, as `activate()` does. ACE counts
a message, a NULL too, as the size of the type its pointer is of, 8 to 9 MB for each
task, and nobody raises the high-water mark of 16384 bytes: so `putq` waits while one
message is queued (`PutqWaits`), until the thread takes it or `deactivate()` wakes it.

**DecodePipeline.** `gui` walks through `video_decode_start` and
`video_decode_stop`, one step per call that another thread can see. A start may
find no codec (`StartDecoderFails`) or no port (`StartRecv`); a second start
overwrites the descriptor of a running receiver (`recvOn = "leaked"`). The renderer
tests its argument where it means the result of `malloc` (video_render_task.cpp:91);
that does no harm, because `malloc` finds a buffer whenever it is called
(`MallocFindsBuffer`, a part of `BuffersAccounted`), and the branches for a `malloc`
that fails have no action. Frames are numbers: a NALU and the picture made of it have
the same one.

**EncodePipeline.** The stop goes from the sender up. `dev` is the
`Video_Capture` object (none, open, closed), `capture` the capture thread, which
holds the mutex in `select` and in the callback. A start first replaces the object
(`NewCapture`), which a second start does under a running thread: `stale` is then
the state of the object that thread is still in, and which nobody deletes. Every
failure of `init` is an outcome of `InitCapture` or `StartThrows`; a failed
`VIDIOC_DQBUF` is `FrameFails`. A stop closes a queue under its producer, and a
buffer put there is lost; when enough are, the encoder drops frames (`DropFrame`), and
the sender, which does not test `malloc`, ends the process (`WriteThroughNull`). As
long as none is lost, `malloc` finds one in a pool of three or more, such as the
program's of eight (`MallocFindsBuffer`, which is proved; the pools of the run are
smaller). The encoder holds up to `MaxDelay` frames back and
makes up to `MaxNals` NALs of one.

**RtpTransport.** A byte of a NALU is its number and position, so that a spliced,
repeated or shortened NALU can be told from a whole one. `faults`, chosen at the
start from the constant `Networks`, says whether the network loses, duplicates or
reorders datagrams or brings in packets of other senders, and whether the receiver
restarts. Left out: the start code that both ends strip and add, payload type,
timestamp, and the sequence number, which no receiver reads.

**VideoCapture.** What `EncodePipeline` takes as a device is here in full: `dev`,
`io`, `capturing`, `locked`, `index` and `geometry` are the members of
`Video_Capture`; `mapped` the buffers with memory and `queued` those the driver has;
`lost` and `failed` are history. `owner` is the thread that starts and stops the
task, calls `set_video_param` and the controls, and deletes the object; `capture` is
the thread that calls `operator()`. `InitDevice` chooses what the driver supports,
how many buffers and which format it grants; `InitDeviceFails` has the three ways to
return -1, with flags the constructor never set. An exception that no caller catches
ends the process (`Throws`); those that `operator()` catches are `AlreadyLocked`,
`FrameFails`, `FrameUnknown` and `UnlockFails`. The brightness and its like only
matter here by what they throw.

**DeviceModes.** `table` is what the driver can do, `at` the three indices of the
nested loops `get_formats`, `get_sizes`, `get_intervals`, `listed` the list made so
far. `ListInterval` counts its index up twice, as the code does (v4l2device.cpp:590 and
609), so that every second interval of a size is missing from the list: `ListsEverySize`
says just that. `MCVideoCapture`
composes it with `VideoCapture`: a camera is listed by the owner while it is not
captured from. The two share no variable, so this is one run in place of two, and its
listing steps are those of `ModesSpec`, of which the theorems speak. Each listing is
that of an object of its own, which goes out of scope at its end (`EndListing`), as in
my_video_device_test.cpp; `init` never clears `_my_device_info`, so a second `init` of
one object would append to the first list. Nothing calls it twice, and that is not
modelled.

**YuvGlWidget.** The thread of the render task (`thread`) queues pictures under
`_destory_mutex`; the GUI thread (`gui`) paints, that is, empties the queue, draws
or skips, and keeps the last picture as `_prev_data`. It is also the thread that
stops the render task and destroys the widget, and Qt paints only what is visible:
so there are times when nobody empties the queue. It takes 16384 bytes, which is
512 pictures of one pointer each, and `enqueue` then waits with the mutex. The
destructor's early release of the mutex lets a callback into freed memory: the
action `UseDeleted`. `DecodePipeline` shows a picture without waiting; this module
says when that is right (`GuiComesBack`).

**YuvWidget.** The same two threads with a pool of blocks. A block is larger than
the high-water mark, so one image makes the queue full, and the callback tests for
that before it converts. Its returns with the mutex locked (`NewScalerFails`; the
one on an empty pool) are in the model, or shown not to be reached.

**OglWidget.** Three threads without a mutex or a join. `painter` goes from
`pthread_create` through the set-up of display, window and shaders to its loop;
`isRun`, `isInited`, `isStoped` are the flags by which it, `init` and `release` talk.
`release` deactivates the queue, which nothing activates again, and spins until
`isStoped`; a second `init` creates no second thread, since `_painter_pid` is never
reset (`painter = "spent"`). A set-up that fails never sets `isStoped`. The painter
looks at its pointer, not at the result of `dequeue`; `hand` keeps that pointer.

The three widgets implement `FrameStream`, as `DecodePipeline` does.

**Codecs.** `codec` and `held` give the object at an address and what its library
allocated for it, in the order of its `init` (`Steps`); `decoders` and `encoders` are
the sets of the factories; `astray` collects what is left when an object goes.
Addresses are used again, so that a decoder destroyed, which stays in the set, may
meet its successor. `Stamp` is the timestamp of a frame in its three widths; that the
product with the rate fits the widest is the assumption `NoEncoderRunsThatLong`.

## 3. The runs

All bounds are constants named in the `.cfg` files.

| Run | Question | Bounds | Distinct states |
|---|---|---|---|
| `Decode` | buffers, one always at hand, stop order, joined threads; implements `FrameStream` | 3 buffers a pool, 4 frames | 574,829 |
| `DecodeLive` | a stop returns, frames progress | 3 buffers a pool, 2 frames | 248,568 |
| `Encode` | buffers, order of NALs, mapping, release; a stop returns | 1 frame buffer, 2 NAL buffers, 3 frames, 2 NALs of each, delay 1 | 1,529,066 |
| `Rtp` | no faults: implements `NaluFifo`, and what was sent arrives; loss: the bytes ascend; all faults: each NALU has its start | 3 networks, 3 NALUs of 1 to 3 packets, 3 in flight, 1 extra | 262,027 |
| `GlWidget` | pictures accounted, drawn in order; who waits for whom | queue of 5 pictures, 8 pictures | |
| `Widget` | blocks accounted, one always at hand; who waits for whom | 3 blocks, 5 pictures | |
| `Ogl` | the display outlives the painter; a release and a callback return | queue of 2 pictures, 5 pictures | |
| `Capture` | frames stay whole, buffers return; frames keep coming; all sizes listed | 4 buffers of which the driver grants 1 to 4, 2 modes; tables of 2 formats, 2 sizes, 3 intervals | |
| `Codecs` | nothing strays; timestamps keep time | 2 addresses, a word of 16 ticks that wraps once | 300,970 |
| `DecodeStaleClose` | (violated) a thread ends only by its stop | 3 buffers a pool, 2 frames | |
| `DecodeStopHangs` | (violated) a stop returns, also with a stale NULL | 3 buffers a pool, 2 frames | |
| `RtpOneByteOver` | (violated) no NALU is held back, all lengths | 2 NALUs, no faults | |

Why the bounds are enough to be interesting: in the receiving half three buffers are
the fewest with which `malloc` finds one (one queued, one with the thread, one to fill).
Four frames fill every place of a stage and one more waits; they reach over a restart
with two on either side. Two frames already leave a producer waiting in `putq` at any
moment of a stop, which is what `DecodeLive` asks about; it goes without symmetry, which
TLC does not support for liveness, and so with fewer frames. In the sending half the
pools are as small as they can be: the one frame buffer is exhausted as long as it is in
use, and the two NAL buffers when one is queued and one in use, or when a stop has lost
some, so that `DropFrame` and `WriteThroughNull` are taken. Three frames of two NALs
each fill the codec, both queues and both threads, and are the fewest that a codec
holding one back can put out in a wrong order. The number of starts and stops is not bounded. With packets of two bytes, the lengths 2, 3
and 6 are one packet, one packet and a byte, and three fragments. A paint skips from
four pictures on, so a queue of five is the shortest that skips two in a row; three
blocks are the fewest with which the Qt widget never finds its pool empty. A queue of
two pictures with five made is full, emptied and full again, and is closed in every
state. The code asks for four camera buffers, and a driver may grant fewer, which the
code accepts; two modes are what a frame can be misdescribed with. In `Codecs` the
first word wraps at 21 units and time goes to 30; the product in the wide type does
not wrap, as it does not within the 6 years that 64 bits last.
Deadlock is not checked: the program waits for ever when nobody presses a button or
the bound on frames is reached; that a stop does not hang is the property
`StopReturns`. The type invariants are not in the runs, as they are proved.

**Fairness.** Weak fairness of each thread, as the operating system schedules
them: one condition per thread, not per action. The network need
not deliver and the user need not press, but a stop once pressed runs on. An open
camera delivers a frame or an error (`FrameArrives`, `FrameFails`); without that,
`release()` waits on the mutex for ever. In `VideoCapture` only `set_video_param` is
sure to get the mutex, and under weak fairness: the mutex does not favour who waits,
but `_stop_capture` keeps the other thread away from it. There is no fairness for
`LockFrameCrashes` (whether the C library checks `FD_SET`) nor for `StartThrows` on
its own. A visible widget is painted, by its 50 ms timer. The destructor of
`YUV_GL_Widget` gets its mutex under strong fairness: the callback lets go of it
between any two pictures, but may have it again whenever the destructor looks. Of the
X11 widget, the painter runs, and a release and a callback once begun go on.

**What the liveness properties except.** `StopReturns` of the receiving half
holds unless the receiver is blocked on a socket that a second start overwrote
(`BlockedOnLeakedSocket`: nobody can wake it), or somebody waits in `putq` for a thread
that is no more (`WaitsOnDeadTask`): a stale NULL ended it, and the queue is full and
stays activated. The latter is finding 2. That of the sending half
holds unless the process is gone or the capture thread waits in `select` for a
device that is not open: it passed its test of `_is_run` before a stop closed the
device, or a start gave it an object that failed to open or was deleted.
`GuiComesBack` excepts a callback that waits on a full queue: a stop or a close
begun after the window was not painted for 512 pictures never returns.
`NobodyBlocks` of `YuvWidget` excepts a scaler whose `init` failed: that return leaves
`_destory_mutex` locked. That of `OglWidget` excepts, for a release, `NoPainterLeft`:
the painter's set-up failed, or a second `init` created none, and `release` spins for
ever. `SetVideoParamReturns` excepts an exception that ends the process and
`WaitsForClosed`, a capture thread in `select`, with the mutex, on a device that never
opened. `FramesKeepComing` is about a device left alone that has not failed: one
failed `VIDIOC_DQBUF` leaves `_is_locked` set, and then every call only finds
"already locked!". These exceptions are what the code does; the runs show there is no
other. But for `WaitsOnDeadTask` none is listed as a finding, as the repository says
nothing about them.

**What the safety properties except.** `NothingStrays` names what is lost: the
parameters of an H265 encoder whose preset is refused, and all of a decoder that
`~Video_Decoder_Task` deletes without a release. `StampsKeepTime` excepts the first
millisecond, from which 1000 us are subtracted without a sign. `DeliversEveryNalu`
leaves out NALUs one byte longer than a packet (finding 3).

**Findings.** (1) `stop()` of the decoder and of the renderer queues NULL and
deactivates the queue; when `getq` fails first, or no thread is there, the NULL stays
and ends the thread of the next start (`DecodeStaleClose`). (2) The queue of that task
then stays activated with nobody to empty it. The first message fills it, and the second
`putq`, or the NULL of the stop itself, waits for ever: the next stop hangs the GUI
thread (`DecodeStopHangs`). In the shortest case "stop decode" is pressed before "start
decode" and again after a NALU has arrived. (3) A NALU of exactly
`RTP_FRAGMENT_SIZE + 1` bytes is sent as one fragment with a start and no end,
and is never delivered.

Each property of a passing run has a mutant in `PROJECT.json`: a definition
changed by a plausible bug, with which the run fails. The mutated forms stand in
the modules before the definition they change, marked `(Mutant: ...)`; no
specification uses them.

## 4. The proofs

`tlapm` checks every theorem. They hold for any number of frames and pools of any size
(of three buffers or more, where a module says so), under the assumption each module
names (for `DecodePipeline`: the pools are disjoint, have three buffers at least and do not
hold NULL; the bound is a natural number), which TLC evaluates in the runs.

- `TaskStagesProofs`: `Putq` and `Tail` keep the type, the buffers and the absence
  of repetition of a queue, and each step of a stage keeps every buffer of its pool
  in exactly one place. No queue ever holds two messages (`OneMessageStep`), so that
  `malloc` finds a buffer in a pool of three that has lost none (`MallocFindsOne`). The
  lemmas take the pool as a parameter and serve both pipelines.
- `DecodePipelineProofs`: `DecodeTypeCorrect`, `DecodeBuffersAccounted`,
  `DecodeMallocFindsBuffer`,
  `DecodeProducersFindQueueOpen`, `DecodeStopJoinsEveryThread`, and
  `DecodeFramesInOrder`, the refinement of `FrameStream`.
- `EncodePipelineProofs`: `EncodeTypeCorrect`, `EncodeBuffersAccounted`,
  `EncodeMallocFindsBuffer`,
  `EncodeFrameStaysMapped`, `EncodeStopReleasesEverything`, `EncodeLostOnlyByStop`,
  `EncodeSentInFrameOrder`, under `EncodeAssumption` (the pools are disjoint and do not
  hold NULL, of any size; a frame has one NAL at least).
- `YuvGlWidgetProofs`: `GlTypeCorrect`, `GlPicturesAccounted`, `GlPaintNeverWaits`,
  `GlRedrawsLastDrawn`, and `GlDrawnInOrder`, the refinement of `FrameStream`, for
  any high-water mark but 0.
- `YuvWidgetProofs`: `WidgetTypeCorrect`, `WidgetBlocksAccounted`,
  `WidgetBlockAtHand`, `WidgetRoomForImage`, and `WidgetDrawnInOrder`, the refinement
  of `FrameStream`, for any pool of three blocks or more and any mark not above the
  size of a block (`WidgetAssumption`).
- `OglWidgetProofs`: `OglTypeCorrect`, `OglPicturesAccounted`,
  `OglDisplayOutlivesPainter`, and `OglDrawnInOrder`, the refinement of
  `FrameStream`, for any high-water mark but 0 (`OglAssumption`).
- `CaptureAndCodecsProofs`: `CaptureTypeCorrect`, `CaptureFrameStaysWhole`,
  `CaptureBuffersReturn`, `CaptureCloseFreesAll`, for any number of buffers and
  modes (`CaptureAssumption`); `ModesListsEverySize` and `ModesListIsComplete`, for
  a driver's table of any length in each dimension (`ModesAssumption`);
  `CodecsNothingStrays`, for any number of codecs, and `CodecsStampsKeepTime`, for
  any rate, unit and widths of which one divides the other (`CodecsAssumption`), as
  long as the product does not wrap (`NoEncoderRunsThatLong`).
- `RtpTransportProofs`: `RtpTypeCorrect`, `RtpDeliveredHasItsStart`,
  `RtpAssemblyIsOneNalu`, `RtpDeliveredAscends`, and `RtpDeliversInOrder`, the
  refinement of `NaluFifo`, for any packet size, any lengths and any network
  (`RtpAssumption`).

The invariants are not inductive as they stand. That no buffer is lost depends on
the queue being open whenever a producer is about to put, which depends on where
the GUI thread is. That one is always at hand depends on the account and on queues of
one message (`QueuesOfOne`), which `QueueOfOneStep` shows of every step. So `DecodeInv`
joins the type, `AllHeld` (a task's thread holds
a buffer exactly while it works on one), the accounting, and `GuiPosition`, which
says for each position of the GUI thread which queues are open and which threads
are gone. `EncodeInv` has the like in `StartPosition` and `StopPosition`, and
besides `OpenUnlessStopping` (a closed queue with a producer alive means that a
stop is under way) and `CodecPosition` (NALs are handed over only by an encoder at
work). `TypeStep`, `ControlStep` and `BufferStep` prove one part each, with a step
per action; `DecodeInvariant` and `EncodeInvariant` join them. `LostOnlyByStop` is
an action property: `LostStep` derives it from the invariant.

`DecodeFramesInOrder` reads the pipeline as a line of seven places (`Line`): a frame
enters it in the receive callback and passes, for each task, the buffer being filled,
the queue and the thread at work. `LineInv` says that the numbers of the frames ascend
along the line, between the last one shown and the last one arrived (`Ordered`), and
within each queue (`QueueAscends`). `LineStep` shows that a step leaves the line as it
is, moves the least frame of a place to the next place, takes one out, shows the
first, or adds a new one at the end; lemmas on lines (`AdvancedOrdered`, `LeftOrdered`,
`FirstIsLeast`, `ArrivalOrdered`) then give the invariant, and `StreamStep` the step of
`FrameStream` that each of these is: a stutter, a `Drop`, a `Show` or a `Produce`.
`EncodeSentInFrameOrder` argues in the same way, along a line that also passes through
x264 (`Coding`, a queue inside the codec, then `PutOut`). There one frame becomes
several NALs, so two places may hold it, and frames ascend weakly.

The widget's `GlInv` adds `InOrder`: numbers ascend from `_prev_data` through the
queue to the picture in the callback. From it follow the accounting (a number that
ascends occurs once) and the refinement, in `GlScreenStep`: a skip is a `Drop`, a
drawing a `Show`, the queueing a stutter. The Qt widget's `WidgetInv` adds
`Position`: while the callback converts and queues, the queue is empty. So only the
block being drawn and the one before it are out of the pool, and the third is free;
and at most one image at a time is on its way to the screen, which gives the
refinement.

`CaptureInv` joins the type, the three properties and `OpenIsSetUp`: of an open
device `_capturing` is set, size and format are the driver's, and with `read` the
only buffer is the first, which the driver never has. Without it the close of a
device whose `_capturing` is wrong would leave its buffers mapped.

`RtpInv` follows a packet on its way: what is in flight is a single packet or a
fragment of a NALU sent (or foreign); hence what is assembled is empty or begins
with a header and a whole first fragment and holds no other header (`AnyStarted`);
hence what is delivered does. `FragmentsLong` says that a NALU under way has more
than one packet's bytes, which gives the arithmetic of `Fragment` its bounds.
`FaultlessInv` adds `LinkInv` for the network without faults: the predecessor of
every fragment in flight is in flight just before it, or is the last one parsed
(`PiecesInOrder`), and that of the next one to be sent likewise (`LastPieceSent`). So
a fragment that is parsed continues exactly what the buffer holds (`PieceParsed`).

`RtpDeliversInOrder` follows the NALU that is next to arrive. Packets stand in line
(`InLine`): after a NALU's last packet comes one of the next NALU, after another one
of the same, up to the one that the sender is at (`Cursor`). The NALUs before the
head of this line are delivered, whole and at their places, but for those passed over
(`DeliveredTo`): a place is the number of NALUs up to there that are not
(`KeptOf`), and `HeadArrives` shows what the packet at the head adds to it, with the
arithmetic of `Count` at the lengths around a packet (`CountOne`). `FifoImplements`
reads each step as one of `NaluFifo`: packing is a `Send` or, of a NALU that is passed
over, nothing; the last packet of a NALU is a `Deliver`; all else is nothing. That
the k-th NALU kept stays the k-th when more are packed (`CompleteGrows`) needs the
invariant `Numbered`, which does the work of an induction over the sequence.

`RtpDeliveredAscends` puts what was delivered, what the buffer holds, what is in
flight and what is still to be sent into one stream, part before part (`StreamInv`).
A loss takes a part out, a packet parsed moves one up, a packet sent was still to be
sent (`Sent`); each is a lemma on pairs of parts (`LoseOrder`, `ReceiveOrder`,
`FragmentOrder`).

`OglInv` of the X11 widget adds to the properties that the painter holds a picture
exactly while it draws (`HandHeld`), that `_is_stoped` is set only when the painter is
gone or was never there (`StopedIsGone`), which is why `release` closes the display
under no one, and `InOrder`: numbers ascend from the last picture drawn through hand
and queue to the callback.

`ModesInv` adds `Walk`: the index of the interval is even, and where the sizes of a
format, or the formats, are over, all of them have been asked for. `ListsEverySize` is
then kept by counting an index up (`ListIntervalStep`) and by going on to the next
size or format (`NextPlaceStep`), at which no mode lies in between.

The codecs need `HoldingsInv`: a decoder holds all its pieces or none, an encoder at
most those that its release knows of. So every release leaves nothing (`ReleaseDecoder`,
which also looks at each step at which an init fails, and `ReleaseEncoder`), and only
the two paths that release nothing add to `astray`. For the timestamps, `TimesInv` says
that a stamp is that of its time, and the rest is arithmetic: two quotients differ from
the quotient of the difference by a tick at most (`DivAdd`), and the width does not
matter modulo itself (`ModShift`).

Only model-checked: liveness (`StopReturns`, `FramesProgress`, `GuiComesBack`,
`DeliversEveryNalu` and the like), since fairness rests on ENABLED, which the prover
does not reason about. Every safety property of a passing run is a theorem;
`EncodeMallocFindsBuffer` alone is proved and in no run, whose sender has two buffers.

## 5. Plan

Done: the modules above, in the order `AceTask`, `TaskStages`, `DecodePipeline`,
`RtpTransport`, `EncodePipeline`, `YuvGlWidget`, `YuvWidget`, `OglWidget`,
`VideoCapture`, `DeviceModes`, `Codecs`, each with its runs; the proofs of the
stages, of both pipelines, of the three widgets, of the capture, of the listing, of
the codecs and of the transport. Next, most important first:

1. **RtpReceiver**: the descriptors of the receiver as numbers that the system
   gives out again, against the double close.
2. **Proofs**: what this module promises; the step lemmas of the three widgets, which
   are alike, stated once.

## 6. Not modelled

- Pixel formats, colour conversion, shaders, `glInfo`, mouse events and the form:
  no state of the endpoint. `ren/` is an old copy of the widget, not built.
- x264, x265, libavcodec, V4L2, X11 and ACE beyond what their callers see of them;
  `ffmpeg_lib`, which only loads the functions of the libraries.
- Code that is not built or never called: `OGL_Widget` without a thread
  (`SINGLE_THREAD`) or with pixel buffer objects; `video_encoder_ffmpeg`,
  `x264_lib_v4`; `Video_Decoder_V3`, `Video_Decoder_Impl`, and `get_slice_type`,
  which only they use; `capture()` of `My_Video_Capture`; `insert_idr`.
- Addresses and options of sockets; the length checks of the UDP payload.
- In `Codecs`: a clock that goes back under `gettimeofday`, and a frame rate of 0 in
  `encode_param`.
- The test programs, which are read as documentation.
