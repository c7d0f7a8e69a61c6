--------------------------- MODULE EncodePipeline ---------------------------
(***************************************************************************)
(* The sending half of the endpoint: Ep_Interface::video_encode_start and  *)
(* video_encode_stop, run by the GUI thread, and the three threads they    *)
(* control:                                                                *)
(*                                                                         *)
(*   Video_Capture_Task --frame--> Video_Encoder_Task --NALs--> Nalu2Rtp_  *)
(*   Handler                                                               *)
(*                                                                         *)
(* The encoder and the sender are stages as in TaskStages.  The capture    *)
(* thread shares My_Video_Capture_Impl with the GUI thread: its mutex, the *)
(* Video_Capture object and the V4L2 device.  A frame and the NALs made    *)
(* from it are represented by the number of the frame.                     *)
(***************************************************************************)
EXTENDS TaskStages, FiniteSets

CONSTANTS
  FrameBufs,    \* the pool of Video_Encoder_Task (8 Video_Encoder_Buf)
  NalBufs,      \* the pool of Nalu2Rtp_Handler (8 Nalu_Buf)
  MaxNals,      \* most NALs x264 makes of a frame
  MaxDelay,     \* most frames x264 holds back (it encodes 4 in parallel)
  MaxFrames     \* bound: frames the camera delivers in a behaviour

ASSUME EncodeAssumption ==
  /\ Null \notin FrameBufs \cup NalBufs
  /\ FrameBufs \cap NalBufs = {}
  /\ MaxNals \in Nat \ {0} /\ MaxDelay \in Nat /\ MaxFrames \in Nat

VARIABLES
  gui,        \* where the GUI thread is: <<"idle", "-">>, or <<step, part>>
  codec,      \* whether video_encode_init obtained an encoder
  run,        \* _is_run
  dev,        \* _video_capture: "none" when NULL, else "open" or "closed" (_fd)
  locked,     \* its _is_locked
  capture,    \* the capture thread: "down", "test" (of _is_run), "enter",
              \* "select" in lock_frame, or "callback"
  stale,      \* "no", or the state (as dev) of the Video_Capture this thread
              \* is in when a second start has replaced _video_capture
  captured,   \* frames the camera has delivered so far
  coding,     \* frames x264 holds back, oldest first
  coded,      \* the frame it is putting out
  nals,       \* NALs of it still to be handed over
  sent,       \* the frame of the last NAL sent
  crashed     \* the process has dereferenced NULL, or an exception left a slot

captureVars == <<run, dev, locked, capture, stale, captured>>
codecVars == <<codec, coding, coded, nals>>
vars == <<gui, captureVars, codecVars, taskVars, sent, crashed>>

Stages == {"encoder", "sender"}
Bufs == FrameBufs \cup NalBufs
Pool == [s \in Stages |-> IF s = "encoder" THEN FrameBufs ELSE NalBufs]
Idle == <<"idle", "-">>

Init ==
  /\ gui = Idle
  /\ codec \in BOOLEAN
  /\ run = FALSE /\ dev = "none" /\ locked = FALSE
  /\ capture = "down" /\ stale = "no" /\ captured = 0
  /\ coding = <<>> /\ coded = 0 /\ nals = 0
  /\ TaskInit(Pool, Bufs)
  /\ sent = 0
  /\ crashed = FALSE
-----------------------------------------------------------------------------
(* The GUI thread.                                                         *)

GuiStep(from, to) == ~crashed /\ gui = from /\ gui' = to

ClickStart ==
  /\ GuiStep(Idle, <<"start", "encoder">>)
  /\ StartTask("sender")
  /\ UNCHANGED <<captureVars, codecVars, sent, crashed>>

StartEncoder ==
  /\ GuiStep(<<"start", "encoder">>, <<"start", "capture">>)
  /\ StartTask("encoder")
  /\ UNCHANGED <<captureVars, codecVars, sent, crashed>>

\* _video_capture is overwritten, without the mutex: a capture thread that runs
\* stays in the old object until its callback returns.
NewCapture ==
  /\ GuiStep(<<"start", "capture">>, <<"init", "capture">>)
  /\ run' = TRUE
  /\ dev' = "closed"
  /\ locked' \in BOOLEAN
  /\ stale' = IF stale = "no" /\ capture \in {"select", "callback"} THEN dev ELSE stale
  /\ UNCHANGED <<capture, captured, codecVars, taskVars, sent, crashed>>

\* The new object is initialised.  start() ignores what init returned: an error
\* after the device was opened leaves _is_locked uninitialised, one before that
\* leaves the device closed as well, and a device that refuses the format is
\* deleted.  A thread is spawned all the same, if none runs.
InitCapture ==
  /\ GuiStep(<<"init", "capture">>, Idle)
  /\ dev' \in {"none", "closed", "open"}
  /\ locked' \in BOOLEAN
  /\ capture' = IF capture = "down" THEN "test" ELSE capture
  /\ UNCHANGED <<run, stale, captured, codecVars, taskVars, sent, crashed>>

\* An exception leaves the slot: any other failed ioctl of init.
StartThrows ==
  /\ ~crashed
  /\ gui = <<"init", "capture">>
  /\ crashed' = TRUE
  /\ UNCHANGED <<gui, captureVars, codecVars, taskVars, sent>>

\* video_encode_stop stops the sender first.
ClickStop ==
  /\ GuiStep(Idle, <<"wait", "sender">>)
  /\ Deactivate("sender")
  /\ UNCHANGED <<captureVars, codecVars, sent, crashed>>

WaitTask(s) ==
  /\ svc[s] = "down"
  /\ GuiStep(<<"wait", s>>,
             IF s = "sender" THEN <<"stop", "encoder">> ELSE <<"stop", "capture">>)
  /\ UNCHANGED <<captureVars, codecVars, taskVars, sent, crashed>>

StopEncoder ==
  /\ GuiStep(<<"stop", "encoder">>, <<"wait", "encoder">>)
  /\ Deactivate("encoder")
  /\ UNCHANGED <<captureVars, codecVars, sent, crashed>>

\* (Mutant: _is_run stays set.)
StopCaptureKeepsRunning ==
  /\ GuiStep(<<"stop", "capture">>, <<"release", "capture">>)
  /\ UNCHANGED <<captureVars, codecVars, taskVars, sent, crashed>>

StopCapture ==
  /\ GuiStep(<<"stop", "capture">>, <<"release", "capture">>)
  /\ run' = FALSE
  /\ UNCHANGED <<dev, locked, capture, stale, captured, codecVars, taskVars, sent, crashed>>

\* (Mutant: the mutex is released before the callback.)
MutexHeldBySelect == capture = "select"

\* The capture thread holds _mutex from the start of lock_frame until the
\* callback has returned.
MutexHeld == capture \in {"select", "callback"}

\* release(), under the mutex: unlock_frame, stop_capture and close.
ReleaseDevice ==
  /\ ~MutexHeld
  /\ dev # "none"
  /\ GuiStep(<<"release", "capture">>, <<"wait", "capture">>)
  /\ dev' = "closed"
  /\ locked' = IF dev = "open" THEN FALSE ELSE locked
  /\ UNCHANGED <<run, capture, stale, captured, codecVars, taskVars, sent, crashed>>

\* There is no Video_Capture, or an ioctl on the open device throws.
ReleaseCrashes ==
  /\ ~MutexHeld
  /\ dev # "closed"
  /\ ~crashed
  /\ gui = <<"release", "capture">>
  /\ crashed' = TRUE
  /\ UNCHANGED <<gui, captureVars, codecVars, taskVars, sent>>

\* (Mutant: stop() does not wait() for the thread.)
WaitCaptureReturns ==
  /\ GuiStep(<<"wait", "capture">>, Idle)
  /\ UNCHANGED <<captureVars, codecVars, taskVars, sent, crashed>>

WaitCapture ==
  /\ capture = "down"
  /\ GuiStep(<<"wait", "capture">>, Idle)
  /\ UNCHANGED <<captureVars, codecVars, taskVars, sent, crashed>>
-----------------------------------------------------------------------------
(* The capture thread.                                                     *)

CaptureStep(from, to) == ~crashed /\ capture = from /\ capture' = to

\* The state of the Video_Capture the thread is in.
InUse == IF stale = "no" THEN dev ELSE stale

TestRun ==
  /\ CaptureStep("test", IF run THEN "enter" ELSE "down")
  /\ UNCHANGED <<gui, run, dev, locked, stale, captured, codecVars, taskVars, sent,
                 crashed>>

\* The mutex is taken, and lock_frame waits for a frame ...
LockFrame ==
  /\ dev # "none"
  /\ ~locked
  /\ CaptureStep("enter", "select")
  /\ locked' = TRUE
  /\ UNCHANGED <<gui, run, dev, stale, captured, codecVars, taskVars, sent, crashed>>

\* ... or throws "already locked!", which operator() catches.
AlreadyLocked ==
  /\ dev # "none"
  /\ locked
  /\ CaptureStep("enter", "test")
  /\ UNCHANGED <<gui, run, dev, locked, stale, captured, codecVars, taskVars, sent,
                 crashed>>

\* lock_frame of no object or of a deleted one, or FD_SET of descriptor -1:
\* where the C library does not check it, select never returns a frame.
LockFrameCrashes ==
  /\ ~crashed
  /\ \/ capture = "enter" /\ dev = "none"
     \/ capture = "select" /\ InUse # "open"
  /\ crashed' = TRUE
  /\ UNCHANGED <<gui, captureVars, codecVars, taskVars, sent>>

\* VIDIOC_DQBUF succeeds.
FrameArrives ==
  /\ InUse = "open"
  /\ captured < MaxFrames
  /\ CaptureStep("select", "callback")
  /\ captured' = captured + 1
  /\ UNCHANGED <<gui, run, dev, locked, stale, codecVars, taskVars, sent, crashed>>

\* It fails: the exception is caught, and _is_locked stays set.
FrameFails ==
  /\ InUse = "open"
  /\ CaptureStep("select", "test")
  /\ stale' = "no"
  /\ UNCHANGED <<gui, run, dev, locked, captured, codecVars, taskVars, sent, crashed>>

\* The callback returns: unlock_frame of what _video_capture is now (its ioctl
\* may throw, to the same effect).
CallbackReturns ==
  /\ dev # "none"
  /\ CaptureStep("callback", "test")
  /\ locked' = FALSE
  /\ stale' = "no"

\* It is NULL: the process ends, whatever the callback did before.
UnlockCrashes ==
  /\ ~crashed
  /\ capture = "callback" /\ dev = "none"
  /\ crashed' = TRUE
  /\ UNCHANGED <<gui, captureVars, codecVars, taskVars, sent>>

\* Video_Encoder_Task::operator(), called by the capture thread.
MallocFrame ==
  /\ CaptureStep("callback", "callback")
  /\ TakeBuffer("encoder", captured)
  /\ UNCHANGED <<gui, run, dev, locked, stale, captured, codecVars, sent, crashed>>

DropFrame ==
  /\ PoolExhausted("encoder")
  /\ CallbackReturns
  /\ UNCHANGED <<gui, run, dev, captured, codecVars, taskVars, sent, crashed>>

PutFrame ==
  /\ PutBuffer("encoder")
  /\ CallbackReturns
  /\ UNCHANGED <<gui, run, dev, captured, codecVars, svc, sent, crashed>>
-----------------------------------------------------------------------------
(* The threads of the encoder and of the sender.                           *)

\* A step of a task's thread that concerns its own stage only.
OwnStep == ~crashed /\ UNCHANGED <<gui, captureVars, codecVars, sent, crashed>>

Getq(s) == OwnStep /\ GetMessage(s)
GetqClosed(s) == OwnStep /\ GetFails(s)
FreeBuf(s) == OwnStep /\ GiveBack(s)

Encodes == ~crashed /\ svc["encoder"] = "busy" /\ nals = 0

\* There is no encoder to call.
EncodeThroughNull ==
  /\ Encodes
  /\ ~codec
  /\ crashed' = TRUE
  /\ UNCHANGED <<gui, captureVars, codecVars, taskVars, sent>>

\* x264_encoder_encode fails, or keeps the frame and puts none out.
EncodeNothing ==
  /\ Encodes
  /\ codec
  /\ Finish("encoder")
  /\ \/ coding' = coding
     \/ Len(coding) < MaxDelay /\ coding' = Append(coding, data[hand["encoder"]])
  /\ UNCHANGED <<gui, captureVars, codec, coded, nals, qstate, queue, free, fill, hand,
                 lost, data, sent, crashed>>

\* (Mutant: B frames are left on, and a newer frame may be put out first.)
EncodeFrameReordered ==
  /\ Encodes
  /\ codec
  /\ LET new == data[hand["encoder"]]
         frames == Append(coding, new) IN
       \/ coded' = Head(frames) /\ coding' = Tail(frames)
       \/ coded' = new /\ coding' = coding
  /\ nals' \in 1..MaxNals
  /\ UNCHANGED <<gui, captureVars, codec, taskVars, sent, crashed>>

\* It puts out the oldest frame it has, as one or more NALs.
EncodeFrame ==
  /\ Encodes
  /\ codec
  /\ LET frames == Append(coding, data[hand["encoder"]]) IN
       coded' = Head(frames) /\ coding' = Tail(frames)
  /\ nals' \in 1..MaxNals
  /\ UNCHANGED <<gui, captureVars, codec, taskVars, sent, crashed>>

\* Nalu2Rtp_Handler::operator(), called for each NAL: malloc ...
MallocNal ==
  /\ OwnStep
  /\ nals > 0
  /\ TakeBuffer("sender", coded)

\* ... whose result is not tested ...
WriteThroughNull ==
  /\ ~crashed
  /\ nals > 0
  /\ PoolExhausted("sender")
  /\ crashed' = TRUE
  /\ UNCHANGED <<gui, captureVars, codecVars, taskVars, sent>>

\* ... and putq.
PutNal ==
  /\ ~crashed
  /\ PutBuffer("sender")
  /\ nals' = nals - 1
  /\ IF nals = 1 THEN Finish("encoder") ELSE svc' = svc
  /\ UNCHANGED <<gui, captureVars, codec, coding, coded, sent, crashed>>

\* The sender's thread packs the NAL and sends it (see RtpTransport).
Send ==
  /\ ~crashed
  /\ Finish("sender")
  /\ sent' = data[hand["sender"]]
  /\ UNCHANGED <<gui, captureVars, codecVars, qstate, queue, free, fill, hand, lost,
                 data, crashed>>
-----------------------------------------------------------------------------
Gui ==
  \/ ClickStart \/ StartEncoder \/ NewCapture \/ InitCapture \/ StartThrows
  \/ ClickStop \/ StopEncoder \/ StopCapture
  \/ ReleaseDevice \/ ReleaseCrashes \/ WaitCapture
  \/ \E s \in Stages : WaitTask(s)

Capture ==
  \/ TestRun \/ LockFrame \/ AlreadyLocked \/ LockFrameCrashes
  \/ FrameArrives \/ FrameFails \/ MallocFrame \/ DropFrame \/ PutFrame
  \/ UnlockCrashes

Svc(s) == Getq(s) \/ GetqClosed(s) \/ FreeBuf(s)
Encoder ==
  \/ Svc("encoder") \/ EncodeThroughNull \/ EncodeNothing \/ EncodeFrame
  \/ MallocNal \/ WriteThroughNull \/ PutNal
SenderTask == Svc("sender") \/ Send

Next == Gui \/ Capture \/ Encoder \/ SenderTask

Spec == Init /\ [][Next]_vars

\* Every thread that can run does, and an open camera delivers a frame or an
\* error.  The C library does not check FD_SET.  The user need not press a
\* button; a start or a stop once pressed runs on.
GuiRuns == gui # Idle /\ Gui
CaptureRuns ==
  \/ TestRun \/ LockFrame \/ AlreadyLocked \/ FrameArrives \/ FrameFails
  \/ MallocFrame \/ DropFrame \/ PutFrame \/ UnlockCrashes
Fairness ==
  /\ WF_vars(GuiRuns)
  /\ WF_vars(CaptureRuns)
  /\ WF_vars(Encoder)
  /\ WF_vars(SenderTask)
FairSpec == Spec /\ Fairness
-----------------------------------------------------------------------------
(* Type invariant.                                                         *)
Frames == 0..MaxFrames
TypeOK ==
  /\ gui \in {Idle, <<"init", "capture">>}
             \cup ({"start", "wait", "stop", "release"} \X (Stages \cup {"capture"}))
  /\ codec \in BOOLEAN /\ run \in BOOLEAN /\ locked \in BOOLEAN /\ crashed \in BOOLEAN
  /\ dev \in {"none", "closed", "open"} /\ stale \in {"no", "none", "closed", "open"}
  /\ capture \in {"down", "test", "enter", "select", "callback"}
  /\ captured \in Frames /\ coded \in Frames /\ sent \in Frames
  /\ coding \in Seq(Frames) /\ Len(coding) <= MaxDelay
  /\ nals \in 0..MaxNals
  /\ TaskTypeOK(Stages, Bufs, Frames)
-----------------------------------------------------------------------------
(* Safety.                                                                 *)

\* Every buffer of both pools is in one place, across any number of starts and
\* stops: free, queued, held by one thread, or lost to a putq that failed.
BuffersAccounted == \A s \in Stages : StageAccounted(s, Pool[s])

\* malloc, whose result the sender does not test, finds a buffer in a pool of
\* three or more as long as none is lost: as putq waits while a message is
\* queued, there is one buffer there and one with the thread at the most.
MallocFindsBuffer ==
  \A s \in Stages : AtLeastThree(Pool[s]) /\ PoolExhausted(s) => lost[s] # {}

\* A buffer is lost only while video_encode_stop is under way: it takes the
\* parts down from downstream to upstream, and between the two a thread may
\* still put to a deactivated queue.  While the endpoint sends, none is lost.
LostOnlyByStop ==
  [][lost' # lost => gui \in {"wait", "stop", "release"} \X (Stages \cup {"capture"})]_vars

\* NALs are sent in the order the camera delivered their frames, over any
\* number of restarts, with what a stop left queued, and with frames dropped.
SentInFrameOrder == [][sent' >= sent]_vars

\* The frame that the callback copies stays mapped: its device is not released
\* under it by a stop, nor when a second start replaces _video_capture.
FrameStaysMapped == capture = "callback" => InUse = "open"

\* Once video_encode_stop has returned, and until the next start, no thread
\* runs, and the device of _video_capture is closed.
StopReleasesEverything ==
  gui = Idle /\ qstate["sender"] = "deactivated" =>
    /\ capture = "down" /\ dev = "closed"
    /\ \A s \in Stages : svc[s] = "down"

(* Liveness, under FairSpec.                                               *)

\* A stop returns, unless the process is gone or the capture thread waits for
\* a frame of a device that is closed, or that init has deleted.
WaitsOnClosedDevice == capture = "select" /\ InUse # "open"
StopReturns ==
  gui = <<"wait", "sender">> ~> gui = Idle \/ crashed \/ WaitsOnClosedDevice
=============================================================================
