---------------------------- MODULE VideoCapture ----------------------------
(***************************************************************************)
(* A camera behind My_Video_Capture: the object Video_Capture that opens   *)
(* the V4L2 device, asks the driver for buffers, and passes them to and    *)
(* fro between the driver (VIDIOC_QBUF) and the program (VIDIOC_DQBUF),    *)
(* between two threads:                                                    *)
(*                                                                         *)
(*   - the owner, which starts and stops the capture task, changes the     *)
(*     parameters while it runs (set_video_param), sets camera controls    *)
(*     and destroys the object;                                            *)
(*   - the capture thread, which calls operator() again and again: under   *)
(*     _mutex it locks a frame, hands it to the callback and unlocks it.   *)
(*                                                                         *)
(* No caller catches what an operation of the owner throws, so an          *)
(* exception there ends the process (crashed).  The owner's calls hold     *)
(* _mutex from the first to the last access they make, or run while there  *)
(* is no capture thread, and are one step each.  A start while the device  *)
(* is open, which replaces the object under a running thread, is           *)
(* EncodePipeline's subject.                                               *)
(***************************************************************************)
EXTENDS Naturals, FiniteSets

CONSTANTS
  BufCount,   \* buffers asked for in VIDIOC_REQBUFS
  Modes       \* sizes and formats the driver can grant

ASSUME CaptureAssumption ==
  /\ BufCount \in Nat \ {0}
  /\ Modes # {}

IO == {"READ", "USERPTR", "MMAP"}
Indices == 0..(BufCount - 1)

VARIABLES
  owner,      \* "idle"; "set", "release" waiting for the mutex; "join"; "gone"
  capture,    \* capture thread: "down", "test", "enter", "select" in lock_frame,
              \* "callback"
  run,        \* _is_run of the capture task
  stop,       \* _stop_capture
  dev,        \* "none" (_video_capture is NULL), "closed", "open", or "half":
              \* open, but init threw before it was set up
  io,         \* _io
  capturing,  \* _capturing
  locked,     \* _is_locked
  index,      \* the buffer in _locked_buffer
  mapped,     \* buffers with memory: _buffers
  queued,     \* buffers the driver has
  streaming,  \* whether VIDIOC_STREAMON succeeded
  mode,       \* what the driver is set to
  geometry,   \* _width, _height and _linesizes
  lost,       \* buffers taken from the driver and not queued again (history)
  failed,     \* a lock_frame of this device has thrown (history)
  crashed     \* the process has ended

deviceVars == <<dev, io, capturing, locked, index, mapped, queued, streaming, mode,
                geometry, lost, failed>>
vars == <<owner, capture, run, stop, deviceVars, crashed>>

Init ==
  /\ owner = "idle" /\ capture = "down"
  /\ run = FALSE /\ stop = TRUE
  /\ dev = "none" /\ io = "MMAP"
  /\ capturing = FALSE /\ locked = FALSE /\ index = 0
  /\ mapped = {} /\ queued = {} /\ streaming = FALSE
  /\ mode \in Modes /\ geometry = mode
  /\ lost = {} /\ failed = FALSE
  /\ crashed = FALSE

OwnerStep(from, to) == ~crashed /\ owner = from /\ owner' = to
CaptureStep(from, to) ==
  ~crashed /\ owner # "gone" /\ capture = from /\ capture' = to
Throws(from) ==
  /\ ~crashed /\ owner = from /\ crashed' = TRUE
  /\ UNCHANGED <<owner, capture, run, stop, deviceVars>>

\* (Mutant: operator() does not take the mutex.)
MutexHeldByNone == FALSE

\* operator() holds _mutex until the callback has returned.
MutexHeld == capture \in {"select", "callback"}
-----------------------------------------------------------------------------
(* Opening and closing the device.                                         *)

\* io_methods and the choice in init: mapped buffers where they are supported,
\* else the fastest method there is.
Fastest(supported) ==
  IF "MMAP" \in supported THEN "MMAP"
  ELSE IF "USERPTR" \in supported THEN "USERPTR" ELSE "READ"

\* (Mutant: _capturing is not set.)
StartCaptureUnmarked(n) ==
  /\ capturing' = FALSE
  /\ mapped' = IF io' = "READ" THEN {0} ELSE 0..(n - 1)
  /\ queued' = IF io' = "READ" THEN {} ELSE mapped'
  /\ streaming' \in BOOLEAN

\* start_capture: the driver grants n buffers; each gets its memory and is queued.
\* Whether VIDIOC_STREAMON fails is not looked at.
StartCapture(n) ==
  /\ capturing' = TRUE
  /\ mapped' = IF io' = "READ" THEN {0} ELSE 0..(n - 1)
  /\ queued' = IF io' = "READ" THEN {} ELSE mapped'
  /\ streaming' \in BOOLEAN

\* set_format changes the request to what the driver grants; get_format reads it
\* back.
SetFormat(asked, granted) == mode' = granted /\ geometry' = granted

\* init succeeds.
InitDevice ==
  \E supported \in SUBSET IO \ {{}}, n \in 1..BufCount, asked, granted \in Modes :
    /\ dev' = "open"
    /\ io' = Fastest(supported)
    /\ locked' = FALSE /\ index' = 0
    /\ SetFormat(asked, granted)
    /\ StartCapture(n)
    /\ lost' = {} /\ failed' = FALSE

\* It returns -1: the device cannot be opened ("closed"), is no capture device
\* ("half"), or refuses the format, and is deleted ("none").  The constructor
\* left the flags as they were in memory.
InitDeviceFails ==
  /\ dev' \in {"none", "closed", "half"}
  /\ io' \in IO /\ capturing' \in BOOLEAN /\ locked' \in BOOLEAN /\ index' = 0
  /\ mapped' = {} /\ queued' = {} /\ streaming' = FALSE
  /\ mode' = mode
  /\ geometry' \in Modes
  /\ lost' = {} /\ failed' = FALSE

NewDevice == stop' = FALSE /\ (InitDevice \/ InitDeviceFails)

\* unlock_frame of a frame that a failed VIDIOC_DQBUF left locked, or of flags
\* never set: the driver has the buffer it names, or has no buffers.
UnlockThrows ==
  locked /\ io # "READ" /\ (dev = "half" \/ (dev = "open" /\ index \in queued))

\* stop_capture, by the same flags, of a device that was never opened.
StopThrows == capturing /\ dev = "closed"

\* release: unlock_frame, stop_capture and close.  Nothing is freed when
\* _capturing says that there is nothing to free.
CloseDevice ==
  /\ dev' = IF dev = "none" THEN "none" ELSE "closed"
  /\ IF capturing /\ dev = "open"
       THEN mapped' = {} /\ queued' = {} /\ streaming' = FALSE
       ELSE UNCHANGED <<mapped, queued, streaming>>
  /\ IF dev \in {"open", "half"}
       THEN capturing' = FALSE /\ locked' = FALSE
       ELSE UNCHANGED <<capturing, locked>>
  /\ lost' = {}
  /\ UNCHANGED <<io, index, mode, geometry, failed>>
-----------------------------------------------------------------------------
(* The owner.                                                              *)

\* Video_Capture_Task::start: _is_run, init, whatever it returns, and activate.
Start ==
  /\ capture = "down"
  /\ dev \notin {"open", "half"}
  /\ OwnerStep("idle", "idle")
  /\ run' = TRUE
  /\ capture' = "test"
  /\ NewDevice
  /\ UNCHANGED crashed

\* (Mutant: _stop_capture is not set.)
SetVideoParamUnannounced ==
  /\ OwnerStep("idle", "set")
  /\ UNCHANGED <<capture, run, stop, deviceVars, crashed>>

\* set_video_param tells the capture thread to stay out, and waits for the mutex.
SetVideoParam ==
  /\ OwnerStep("idle", "set")
  /\ stop' = TRUE
  /\ UNCHANGED <<capture, run, deviceVars, crashed>>

\* With it: the old object is stopped (which takes the buffers back), released
\* and deleted, a new one made.
Reconfigure ==
  /\ ~MutexHeld
  /\ ~StopThrows /\ ~(dev = "half" /\ UnlockThrows)
  /\ OwnerStep("set", "idle")
  /\ NewDevice
  /\ UNCHANGED <<capture, run, crashed>>

\* Video_Capture_Task::stop: _is_run, release under the mutex, and wait.
Stop ==
  /\ OwnerStep("idle", "release")
  /\ run' = FALSE
  /\ UNCHANGED <<capture, stop, deviceVars, crashed>>

Release ==
  /\ ~MutexHeld
  /\ dev # "none" /\ ~UnlockThrows
  /\ OwnerStep("release", "join")
  /\ CloseDevice
  /\ UNCHANGED <<capture, run, stop, crashed>>

Join ==
  /\ capture = "down"
  /\ OwnerStep("join", "idle")
  /\ UNCHANGED <<capture, run, stop, deviceVars, crashed>>

\* The destructor takes no mutex.
Destroy ==
  /\ ~UnlockThrows
  /\ OwnerStep("idle", "gone")
  /\ stop' = TRUE
  /\ CloseDevice
  /\ UNCHANGED <<capture, run, crashed>>

\* An exception leaves init, set_video_param or release: any ioctl of theirs
\* fails, one on a device that was never opened, or munmap; or release calls
\* through NULL.
StartThrows == capture = "down" /\ dev \notin {"open", "half"} /\ Throws("idle")
SetVideoParamThrows == ~MutexHeld /\ Throws("set")
ReleaseThrows == ~MutexHeld /\ Throws("release")

\* set_brightness, set_hue, set_saturation or set_contrast without an open
\* device, or refused by it.  One that succeeds changes the camera only.
SetControlThrows == Throws("idle")
-----------------------------------------------------------------------------
(* The capture thread: operator() in a loop.                               *)

\* operator() returns at once while _stop_capture is set.
TestRun ==
  /\ ~run \/ ~stop
  /\ CaptureStep("test", IF run THEN "enter" ELSE "down")
  /\ UNCHANGED <<owner, run, stop, deviceVars, crashed>>

\* With the mutex, lock_frame waits for a frame ...
LockFrame ==
  /\ dev # "none"
  /\ ~locked
  /\ CaptureStep("enter", "select")
  /\ locked' = TRUE
  /\ UNCHANGED <<owner, run, stop, dev, io, capturing, index, mapped, queued, streaming, mode,
                 geometry, lost, failed, crashed>>

\* ... or throws "already locked!", which operator() catches.
AlreadyLocked ==
  /\ dev # "none"
  /\ locked
  /\ CaptureStep("enter", "test")
  /\ UNCHANGED <<owner, run, stop, deviceVars, crashed>>

\* A full buffer is taken from the driver, or its content read.
FrameArrives ==
  /\ dev = "open" /\ (streaming \/ io = "READ")
  /\ CaptureStep("select", "callback")
  /\ IF io = "READ" THEN index' = 0 ELSE index' \in queued
  /\ queued' = queued \ {index'}
  /\ UNCHANGED <<owner, run, stop, dev, io, capturing, locked, mapped, streaming, mode, geometry,
                 lost, failed, crashed>>

\* VIDIOC_DQBUF or read fails: the exception is caught, and _is_locked stays set
\* with a _locked_buffer of zeroes.
FrameFails ==
  /\ dev \in {"open", "half"}
  /\ CaptureStep("select", "test")
  /\ index' = IF io = "READ" THEN index ELSE 0
  /\ failed' = TRUE
  /\ UNCHANGED <<owner, run, stop, dev, io, capturing, locked, mapped, queued, streaming, mode,
                 geometry, lost, crashed>>

\* The driver names a buffer that is not one of _buffers, or not by this length.
FrameUnknown ==
  /\ dev = "open" /\ streaming /\ io = "USERPTR"
  /\ CaptureStep("select", "test")
  /\ index' \in queued
  /\ queued' = queued \ {index'}
  /\ lost' = lost \cup {index'}
  /\ failed' = TRUE
  /\ UNCHANGED <<owner, run, stop, dev, io, capturing, locked, mapped, streaming, mode, geometry,
                 crashed>>

\* (Mutant: the frame is not unlocked.)
CallbackReturnsLocked ==
  /\ CaptureStep("callback", "test")
  /\ UNCHANGED <<owner, run, stop, deviceVars, crashed>>

\* (Mutant: the buffer is not queued again.)
CallbackReturnsKeepsBuffer ==
  /\ CaptureStep("callback", "test")
  /\ locked' = FALSE
  /\ UNCHANGED <<owner, run, stop, dev, io, capturing, index, mapped, queued, streaming, mode,
                 geometry, lost, failed, crashed>>

\* The callback returns, and unlock_frame gives the buffer back to the driver.
CallbackReturns ==
  /\ CaptureStep("callback", "test")
  /\ locked' = FALSE
  /\ queued' = IF io = "READ" THEN queued ELSE queued \cup {index}
  /\ UNCHANGED <<owner, run, stop, dev, io, capturing, index, mapped, streaming, mode, geometry,
                 lost, failed, crashed>>

\* VIDIOC_QBUF fails: the exception is caught, and the buffer lost.
UnlockFails ==
  /\ io # "READ"
  /\ CaptureStep("callback", "test")
  /\ locked' = FALSE
  /\ lost' = lost \cup {index}
  /\ UNCHANGED <<owner, run, stop, dev, io, capturing, index, mapped, queued, streaming, mode,
                 geometry, failed, crashed>>

\* lock_frame of no object, into no buffer, or on descriptor -1, where the C
\* library checks FD_SET; or of an object that has been destroyed.
CaptureCrashes ==
  /\ ~crashed
  /\ \/ capture = "enter" /\ dev = "none"
     \/ capture = "select" /\ (dev = "closed" \/ (dev = "half" /\ io = "READ"))
     \/ owner = "gone" /\ capture # "down"
  /\ crashed' = TRUE
  /\ UNCHANGED <<owner, capture, run, stop, deviceVars>>
-----------------------------------------------------------------------------
Owner == Start \/ SetVideoParam \/ Reconfigure \/ Stop \/ Release \/ Join \/ Destroy
         \/ StartThrows \/ SetVideoParamThrows \/ ReleaseThrows \/ SetControlThrows
EnterLoop == TestRun \/ LockFrame \/ AlreadyLocked
FrameEnds == FrameArrives \/ FrameFails \/ FrameUnknown
Unlock == CallbackReturns \/ UnlockFails
Capture == EnterLoop \/ FrameEnds \/ Unlock \/ CaptureCrashes

Next == Owner \/ Capture

Spec == Init /\ [][Next]_vars

\* The capture thread runs, the callback returns, and a camera that streams
\* delivers frames or errors.  Weak fairness only of set_video_param: the mutex
\* is not fair to a thread that waits for it.
Fairness ==
  /\ WF_vars(EnterLoop) /\ WF_vars(FrameEnds) /\ WF_vars(Unlock)
  /\ WF_vars(Reconfigure \/ SetVideoParamThrows)
FairSpec == Spec /\ Fairness
-----------------------------------------------------------------------------
(* Type invariant.                                                         *)
TypeOK ==
  /\ owner \in {"idle", "set", "release", "join", "gone"}
  /\ capture \in {"down", "test", "enter", "select", "callback"}
  /\ run \in BOOLEAN /\ stop \in BOOLEAN
  /\ dev \in {"none", "closed", "half", "open"}
  /\ io \in IO
  /\ capturing \in BOOLEAN /\ locked \in BOOLEAN /\ streaming \in BOOLEAN
  /\ index \in Indices
  /\ mapped \subseteq Indices /\ queued \subseteq mapped /\ lost \subseteq mapped
  /\ mode \in Modes /\ geometry \in Modes
  /\ failed \in BOOLEAN /\ crashed \in BOOLEAN
-----------------------------------------------------------------------------
(* Safety.                                                                 *)

\* While the callback reads a frame, its buffer is mapped, the driver does not
\* have it to write the next frame into, and _width, _height and _linesizes are
\* those of the frame, whatever set_video_param and release do meanwhile.
FrameStaysWhole ==
  capture = "callback" /\ owner # "gone" =>
    /\ dev = "open"
    /\ index \in mapped \ queued
    /\ geometry = mode

\* Every buffer is with the driver, with the callback, or lost to a call that
\* failed, in one of these places: capturing does not run out of buffers, however
\* often it is started, reconfigured and stopped.
WithCallback == IF capture = "callback" THEN {index} ELSE {}
BuffersReturn ==
  io # "READ" /\ owner # "gone" =>
    /\ mapped = queued \cup lost \cup WithCallback
    /\ queued \cap lost = {} /\ WithCallback \cap (queued \cup lost) = {}

\* A device that is closed, or has been replaced, keeps no memory mapped and no
\* buffer with the driver.
CloseFreesAll == dev # "open" => mapped = {} /\ queued = {}

(* Liveness, under FairSpec.                                               *)

\* set_video_param comes back although the capture thread takes the mutex again
\* and again: _stop_capture keeps it out.  Unless an exception ends the process,
\* or the thread waits, with the mutex, for a frame of a device that never opened.
WaitsForClosed == capture = "select" /\ dev = "closed"
SetVideoParamReturns == owner = "set" ~> owner # "set" \/ crashed \/ WaitsForClosed

\* One frame comes after the other, unless the owner intervenes, the device did
\* not start, a frame failed (which leaves it locked for good), or every buffer
\* was lost.
Undisturbed ==
  /\ run /\ owner = "idle" /\ ~crashed
  /\ dev = "open" /\ ~failed /\ (streaming \/ io = "READ") /\ mapped # lost
FramesKeepComing == capture = "test" ~> capture = "callback" \/ ~Undisturbed
=============================================================================
