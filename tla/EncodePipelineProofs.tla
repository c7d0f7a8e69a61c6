------------------------ MODULE EncodePipelineProofs ------------------------
(***************************************************************************)
(* EncodePipeline is safe for every size of the two pools, every number of *)
(* NALs in a frame and every delay of the codec: its buffers are accounted *)
(* for, they are lost only by a stop, a frame stays mapped while it is     *)
(* copied, a stop that returned has released everything, and NALs are sent *)
(* in the order of their frames.                                           *)
(***************************************************************************)
EXTENDS EncodePipeline, TaskStagesProofs

StopSteps == {"wait", "stop", "release"} \X (Stages \cup {"capture"})

\* What is known of the threads at each step of video_encode_start and
\* video_encode_stop.
StartPosition ==
  /\ gui \in {"start", "init"} \X {"encoder", "capture"} => qstate["sender"] = "activated"
  /\ gui \in {"start", "init"} \X {"capture"} => qstate["encoder"] = "activated"
  /\ gui = <<"init", "capture">> => dev = "closed"

StopPosition ==
  /\ gui \in StopSteps => qstate["sender"] = "deactivated"
  /\ gui \in StopSteps \ {<<"wait", "sender">>} => svc["sender"] = "down"
  /\ gui \in StopSteps \cap ({"stop", "release", "wait"} \X {"capture"}) =>
       svc["encoder"] = "down"
  /\ gui = <<"wait", "capture">> => dev = "closed"

\* A thread that may still put to a queue finds it activated, unless a stop is
\* under way.
OpenUnlessStopping ==
  /\ qstate["encoder"] = "deactivated" => gui \in StopSteps \/ capture = "down"
  /\ qstate["sender"] = "deactivated" => gui \in StopSteps \/ svc["encoder"] = "down"

\* NALs are handed over only by an encoder at work on a frame.
CodecPosition ==
  /\ nals > 0 => svc["encoder"] = "busy"
  /\ fill["sender"] # Null => nals > 0

AllHeld == \A s \in Stages : HandHeld(s)

Control ==
  /\ AllHeld
  /\ CodecPosition
  /\ StartPosition /\ StopPosition /\ OpenUnlessStopping
  /\ FrameStaysMapped
  /\ StopReleasesEverything

EncodeInv == TypeOK /\ Control /\ BuffersAccounted
-----------------------------------------------------------------------------
\* The frame that x264 puts out, and those it keeps.
LEMMA CodecQueue ==
  ASSUME NEW F, NEW q \in Seq(F), NEW f \in F
  PROVE  /\ Append(q, f) \in Seq(F) /\ Len(Append(q, f)) = Len(q) + 1
         /\ Head(Append(q, f)) \in F
         /\ Tail(Append(q, f)) \in Seq(F)
         /\ Len(Tail(Append(q, f))) = Len(q)
OBVIOUS

\* The steps of the code keep every variable in its type.
LEMMA TypeStep ==
  ASSUME TypeOK, AllHeld, CodecPosition, [Next]_vars
  PROVE  TypeOK'
<1> USE EncodeAssumption
        DEF TypeOK, TaskTypeOK, Frames, Bufs, Stages, Idle, QueueState
<1>1. CASE ClickStart
  BY <1>1 DEF ClickStart, GuiStep, StartTask, taskVars, captureVars, codecVars
<1>2. CASE StartEncoder
  BY <1>2 DEF StartEncoder, GuiStep, StartTask, taskVars, captureVars, codecVars
<1>3. CASE NewCapture
  BY <1>3 DEF NewCapture, GuiStep, taskVars, captureVars, codecVars
<1>4. CASE InitCapture
  BY <1>4 DEF InitCapture, GuiStep, taskVars, captureVars, codecVars
<1>5. CASE StartThrows
  BY <1>5 DEF StartThrows, taskVars, captureVars, codecVars
<1>6. CASE ClickStop
  BY <1>6 DEF ClickStop, GuiStep, Deactivate, taskVars, captureVars, codecVars
<1>7. CASE StopEncoder
  BY <1>7 DEF StopEncoder, GuiStep, Deactivate, taskVars, captureVars, codecVars
<1>8. CASE StopCapture
  BY <1>8 DEF StopCapture, GuiStep, taskVars, captureVars, codecVars
<1>9. CASE ReleaseDevice
  BY <1>9 DEF ReleaseDevice, GuiStep, MutexHeld, taskVars, captureVars,
              codecVars
<1>10. CASE ReleaseCrashes
  BY <1>10 DEF ReleaseCrashes, taskVars, captureVars, codecVars
<1>11. CASE WaitCapture
  BY <1>11 DEF WaitCapture, GuiStep, taskVars, captureVars, codecVars
<1>12. CASE TestRun
  BY <1>12 DEF TestRun, CaptureStep, taskVars, captureVars, codecVars
<1>13. CASE LockFrame
  BY <1>13 DEF LockFrame, CaptureStep, taskVars, captureVars, codecVars
<1>14. CASE AlreadyLocked
  BY <1>14 DEF AlreadyLocked, CaptureStep, taskVars, captureVars, codecVars
<1>15. CASE LockFrameCrashes
  BY <1>15 DEF LockFrameCrashes, taskVars, captureVars, codecVars
<1>16. CASE FrameArrives
  BY <1>16 DEF FrameArrives, CaptureStep, InUse, taskVars, captureVars,
               codecVars
<1>17. CASE FrameFails
  BY <1>17 DEF FrameFails, CaptureStep, InUse, taskVars, captureVars, codecVars
<1>18. CASE MallocFrame
  BY <1>18 DEF MallocFrame, CaptureStep, TakeBuffer, taskVars, captureVars,
               codecVars
<1>19. CASE DropFrame
  BY <1>19 DEF DropFrame, CallbackReturns, CaptureStep, taskVars, captureVars,
               codecVars
<1>20. CASE PutFrame
  <2>1. queue' \in [Stages -> Seq(Bufs \cup {Null})] /\ lost' \in [Stages -> SUBSET Bufs]
    BY <1>20 DEF PutFrame, PutBuffer, Putq
  <2> QED
    BY <1>20, <2>1 DEF PutFrame, PutBuffer, CallbackReturns, CaptureStep,
       taskVars, captureVars, codecVars
<1>21. CASE UnlockCrashes
  BY <1>21 DEF UnlockCrashes, taskVars, captureVars, codecVars
<1>22. CASE EncodeThroughNull
  BY <1>22 DEF EncodeThroughNull, taskVars, captureVars, codecVars
<1>23. CASE EncodeNothing
  <2>1. data[hand["encoder"]] \in Frames
    BY <1>23 DEF EncodeNothing, Encodes, AllHeld, HandHeld
  <2>2. coding' \in Seq(Frames) /\ Len(coding') <= MaxDelay
    <3>1. coding \in Seq(Frames)
      OBVIOUS
    <3>2. /\ Len(coding) \in 0..MaxDelay /\ MaxDelay \in Nat
          /\ \/ coding' = coding
             \/ Len(coding) < MaxDelay /\ coding' = Append(coding, data[hand["encoder"]])
      BY <1>23 DEF EncodeNothing
    <3> HIDE DEF Frames
    <3> QED
      BY ONLY <2>1, <3>1, <3>2, CodecQueue
  <2> QED
    BY <1>23, <2>2 DEF EncodeNothing, Finish, taskVars, captureVars, codecVars
<1>24. CASE EncodeFrame
  <2>1. data[hand["encoder"]] \in Frames
    BY <1>24 DEF EncodeFrame, Encodes, AllHeld, HandHeld
  <2>2. coded' \in Frames /\ coding' \in Seq(Frames) /\ Len(coding') = Len(coding)
    <3>1. coding \in Seq(Frames)
      OBVIOUS
    <3> HIDE DEF Frames
    <3> QED
      BY <1>24, <2>1, <3>1, CodecQueue DEF EncodeFrame
  <2>3. nals' \in 0..MaxNals
    BY <1>24 DEF EncodeFrame
  <2> QED
    BY <1>24, <2>2, <2>3 DEF EncodeFrame, taskVars, captureVars, codecVars
<1>25. CASE MallocNal
  BY <1>25 DEF MallocNal, OwnStep, TakeBuffer, taskVars, captureVars, codecVars
<1>26. CASE WriteThroughNull
  BY <1>26 DEF WriteThroughNull, taskVars, captureVars, codecVars
<1>27. CASE PutNal
  <2>1. queue' \in [Stages -> Seq(Bufs \cup {Null})] /\ lost' \in [Stages -> SUBSET Bufs]
    BY <1>27 DEF PutNal, PutBuffer, Putq
  <2>2. nals' \in 0..MaxNals
    BY <1>27 DEF PutNal, PutBuffer, CodecPosition
  <2> QED
    BY <1>27, <2>1, <2>2 DEF PutNal, PutBuffer, Finish,
       taskVars, captureVars, codecVars
<1>28. CASE Send
  BY <1>28 DEF Send, Finish, AllHeld, HandHeld, taskVars, captureVars, codecVars
<1>29. ASSUME NEW s \in Stages, WaitTask(s)
      PROVE  TypeOK'
  BY <1>29 DEF WaitTask, GuiStep, taskVars, captureVars, codecVars
<1>30. ASSUME NEW s \in Stages, Getq(s)
      PROVE  TypeOK'
  <2>1. queue' \in [Stages -> Seq(Bufs \cup {Null})]
    BY <1>30 DEF Getq, GetMessage, CanGetq
  <2>2. hand' \in [Stages -> Bufs \cup {Null}]
    BY <1>30 DEF Getq, GetMessage, CanGetq
  <2>3. svc' \in [Stages -> {"down", "getq", "busy", "done"}]
    BY <1>30 DEF Getq, GetMessage
  <2> QED
    BY <1>30, <2>1, <2>2, <2>3
       DEF Getq, OwnStep, GetMessage, taskVars, captureVars, codecVars
<1>31. ASSUME NEW s \in Stages, GetqClosed(s)
      PROVE  TypeOK'
  BY <1>31 DEF GetqClosed, OwnStep, GetFails, taskVars, captureVars, codecVars
<1>32. ASSUME NEW s \in Stages, FreeBuf(s)
      PROVE  TypeOK'
  BY <1>32 DEF FreeBuf, OwnStep, GiveBack, AllHeld, HandHeld, taskVars,
               captureVars, codecVars
<1>33. CASE UNCHANGED vars
  BY <1>33 DEF vars, taskVars, captureVars, codecVars
<1> QED
  BY <1>1, <1>2, <1>3, <1>4, <1>5, <1>6, <1>7, <1>8, <1>9, <1>10, <1>11, <1>12,
     <1>13, <1>14, <1>15, <1>16, <1>17, <1>18, <1>19, <1>20, <1>21, <1>22,
     <1>23, <1>24, <1>25, <1>26, <1>27, <1>28, <1>29, <1>30, <1>31, <1>32, <1>33
     DEF Next, Gui, Capture, Encoder, SenderTask, Svc, Stages

\* The order of starting and stopping, the mutex of the capture and the loop
\* over the NALs keep the control invariant.
LEMMA ControlStep ==
  ASSUME TypeOK, Control, [Next]_vars
  PROVE  Control'
<1> USE DEF TypeOK, TaskTypeOK, Control, AllHeld, HandHeld, CodecPosition,
            StartPosition, StopPosition, OpenUnlessStopping, InUse,
            FrameStaysMapped, StopReleasesEverything, StopSteps, Stages, Idle,
            QueueState
<1>1. CASE ClickStart
  BY <1>1 DEF ClickStart, GuiStep, StartTask, taskVars, captureVars, codecVars
<1>2. CASE StartEncoder
  BY <1>2 DEF StartEncoder, GuiStep, StartTask, taskVars, captureVars, codecVars
<1>3. CASE NewCapture
  BY <1>3 DEF NewCapture, GuiStep, taskVars, captureVars, codecVars
<1>4. CASE InitCapture
  BY <1>4 DEF InitCapture, GuiStep, taskVars, captureVars, codecVars
<1>5. CASE StartThrows
  BY <1>5 DEF StartThrows, taskVars, captureVars, codecVars
<1>6. CASE ClickStop
  BY <1>6 DEF ClickStop, GuiStep, Deactivate, taskVars, captureVars, codecVars
<1>7. CASE StopEncoder
  BY <1>7 DEF StopEncoder, GuiStep, Deactivate, taskVars, captureVars, codecVars
<1>8. CASE StopCapture
  BY <1>8 DEF StopCapture, GuiStep, taskVars, captureVars, codecVars
<1>9. CASE ReleaseDevice
  BY <1>9 DEF ReleaseDevice, GuiStep, MutexHeld, taskVars, captureVars,
              codecVars
<1>10. CASE ReleaseCrashes
  BY <1>10 DEF ReleaseCrashes, taskVars, captureVars, codecVars
<1>11. CASE WaitCapture
  BY <1>11 DEF WaitCapture, GuiStep, taskVars, captureVars, codecVars
<1>12. CASE TestRun
  BY <1>12 DEF TestRun, CaptureStep, taskVars, captureVars, codecVars
<1>13. CASE LockFrame
  BY <1>13 DEF LockFrame, CaptureStep, taskVars, captureVars, codecVars
<1>14. CASE AlreadyLocked
  BY <1>14 DEF AlreadyLocked, CaptureStep, taskVars, captureVars, codecVars
<1>15. CASE LockFrameCrashes
  BY <1>15 DEF LockFrameCrashes, taskVars, captureVars, codecVars
<1>16. CASE FrameArrives
  BY <1>16 DEF FrameArrives, CaptureStep, InUse, taskVars, captureVars,
               codecVars
<1>17. CASE FrameFails
  BY <1>17 DEF FrameFails, CaptureStep, InUse, taskVars, captureVars, codecVars
<1>18. CASE MallocFrame
  BY <1>18 DEF MallocFrame, CaptureStep, TakeBuffer, taskVars, captureVars,
               codecVars
<1>19. CASE DropFrame
  BY <1>19 DEF DropFrame, CallbackReturns, CaptureStep, taskVars, captureVars,
               codecVars
<1>20. CASE PutFrame
  BY <1>20 DEF PutFrame, PutBuffer, CallbackReturns, CaptureStep, taskVars,
               captureVars, codecVars
<1>21. CASE UnlockCrashes
  BY <1>21 DEF UnlockCrashes, taskVars, captureVars, codecVars
<1>22. CASE EncodeThroughNull
  BY <1>22 DEF EncodeThroughNull, taskVars, captureVars, codecVars
<1>23. CASE EncodeNothing
  BY <1>23 DEF EncodeNothing, Encodes, Finish, taskVars, captureVars, codecVars
<1>24. CASE EncodeFrame
  BY <1>24 DEF EncodeFrame, Encodes, taskVars, captureVars, codecVars
<1>25. CASE MallocNal
  BY <1>25 DEF MallocNal, OwnStep, TakeBuffer, taskVars, captureVars, codecVars
<1>26. CASE WriteThroughNull
  BY <1>26 DEF WriteThroughNull, taskVars, captureVars, codecVars
<1>27. CASE PutNal
  BY <1>27 DEF PutNal, PutBuffer, Finish, taskVars, captureVars, codecVars
<1>28. CASE Send
  BY <1>28 DEF Send, Finish, taskVars, captureVars, codecVars
<1>29. ASSUME NEW s \in Stages, WaitTask(s)
      PROVE  Control'
  BY <1>29 DEF WaitTask, GuiStep, taskVars, captureVars, codecVars
<1>30. ASSUME NEW s \in Stages, Getq(s)
      PROVE  Control'
  BY <1>30 DEF Getq, OwnStep, GetMessage, CanGetq, taskVars, captureVars,
               codecVars
<1>31. ASSUME NEW s \in Stages, GetqClosed(s)
      PROVE  Control'
  BY <1>31 DEF GetqClosed, OwnStep, GetFails, taskVars, captureVars, codecVars
<1>32. ASSUME NEW s \in Stages, FreeBuf(s)
      PROVE  Control'
  BY <1>32 DEF FreeBuf, OwnStep, GiveBack, taskVars, captureVars, codecVars
<1>33. CASE UNCHANGED vars
  BY <1>33 DEF vars, taskVars, captureVars, codecVars
<1> QED
  BY <1>1, <1>2, <1>3, <1>4, <1>5, <1>6, <1>7, <1>8, <1>9, <1>10, <1>11, <1>12,
     <1>13, <1>14, <1>15, <1>16, <1>17, <1>18, <1>19, <1>20, <1>21, <1>22,
     <1>23, <1>24, <1>25, <1>26, <1>27, <1>28, <1>29, <1>30, <1>31, <1>32, <1>33
     DEF Next, Gui, Capture, Encoder, SenderTask, Svc, Stages
-----------------------------------------------------------------------------
\* Every step keeps every buffer in one place.
LEMMA BufferStep ==
  ASSUME TypeOK, Control, BuffersAccounted, [Next]_vars
  PROVE  BuffersAccounted'
<1> DEFINE Account == AllAccounted(Stages, Pool)
<1>1. (BuffersAccounted <=> Account) /\ (BuffersAccounted' <=> Account')
  BY DEF BuffersAccounted, AllAccounted, Pool
<1>2. /\ TaskTypeOK(Stages, Bufs, Frames) /\ Null \notin Bufs
      /\ \A s \in Stages : HandHeld(s)
      /\ "encoder" \in Stages /\ "sender" \in Stages
  BY EncodeAssumption DEF TypeOK, Control, AllHeld, Bufs, Stages
<1>3. Account
  BY <1>1
<1>4. CASE MallocFrame
  BY <1>1, <1>2, <1>3, <1>4, TakeBufferStep DEF MallocFrame
<1>5. CASE MallocNal
  BY <1>1, <1>2, <1>3, <1>5, TakeBufferStep DEF MallocNal
<1>6. CASE PutFrame
  BY <1>1, <1>2, <1>3, <1>6, PutBufferStep DEF PutFrame
<1>7. CASE PutNal
  BY <1>1, <1>2, <1>3, <1>7, PutBufferStep DEF PutNal
<1>8. ASSUME NEW s \in Stages, Getq(s) PROVE Account'
  BY <1>2, <1>3, <1>8, GetMessageStep DEF Getq
<1>9. ASSUME NEW s \in Stages, FreeBuf(s) PROVE Account'
  BY <1>2, <1>3, <1>9, GiveBackStep DEF FreeBuf
<1>10. CASE UNCHANGED <<queue, free, fill, hand, lost>>
  BY <1>1, <1>3, <1>10, AccountUnchanged
<1>11. CASE \/ ClickStart \/ StartEncoder \/ NewCapture \/ InitCapture \/ StartThrows
            \/ ClickStop \/ StopEncoder \/ StopCapture \/ ReleaseDevice
            \/ ReleaseCrashes \/ WaitCapture
  BY <1>10, <1>11 DEF ClickStart, StartEncoder, StartTask, NewCapture, InitCapture,
     StartThrows, ClickStop, StopEncoder, Deactivate, StopCapture, ReleaseDevice, ReleaseCrashes,
     WaitCapture, taskVars
<1>12. CASE \/ TestRun \/ LockFrame \/ AlreadyLocked \/ LockFrameCrashes
            \/ FrameArrives \/ FrameFails \/ DropFrame \/ UnlockCrashes
            \/ EncodeThroughNull \/ EncodeNothing \/ EncodeFrame \/ WriteThroughNull \/ Send
  BY <1>10, <1>12 DEF TestRun, LockFrame, AlreadyLocked, LockFrameCrashes,
     FrameArrives, FrameFails, DropFrame, UnlockCrashes, EncodeThroughNull, EncodeNothing,
     EncodeFrame, WriteThroughNull, Send, taskVars
<1>13. ASSUME NEW s \in Stages, WaitTask(s) \/ GetqClosed(s) PROVE BuffersAccounted'
  BY <1>10, <1>13 DEF WaitTask, GetqClosed, GetFails, taskVars
<1>14. CASE UNCHANGED vars
  BY <1>10, <1>14 DEF vars, taskVars
<1> QED
  BY <1>1, <1>4, <1>5, <1>6, <1>7, <1>8, <1>9, <1>11, <1>12, <1>13, <1>14
     DEF Next, Gui, Capture, Encoder, SenderTask, Svc, Stages

\* A buffer is lost only by a thread that puts to a deactivated queue, which
\* only a stop leaves behind a running thread.
LEMMA LostStep ==
  ASSUME TypeOK, Control, [Next]_vars, lost' # lost
  PROVE  gui \in StopSteps
<1>1. lost \in [Stages -> SUBSET Bufs]
  BY DEF TypeOK, TaskTypeOK
<1>2. CASE PutFrame
  <2>1. qstate["encoder"] # "activated"
    BY <1>1, <1>2 DEF PutFrame, PutBuffer
  <2>2. qstate["encoder"] = "deactivated" /\ capture # "down"
    BY <1>2, <2>1 DEF PutFrame, CallbackReturns, CaptureStep, TypeOK, TaskTypeOK,
       QueueState, Stages
  <2> QED
    BY <2>2 DEF Control, OpenUnlessStopping
<1>3. CASE PutNal
  <2>1. qstate["sender"] # "activated"
    BY <1>1, <1>3 DEF PutNal, PutBuffer
  <2>2. qstate["sender"] = "deactivated" /\ svc["encoder"] = "busy"
    BY <1>3, <2>1 DEF PutNal, PutBuffer, Control, CodecPosition, TypeOK, TaskTypeOK,
       QueueState, Stages
  <2> QED
    BY <2>2 DEF Control, OpenUnlessStopping
<1>4. CASE \/ ClickStart \/ StartEncoder \/ NewCapture \/ InitCapture \/ StartThrows
           \/ ClickStop \/ StopEncoder \/ StopCapture \/ ReleaseDevice
           \/ ReleaseCrashes \/ WaitCapture
  BY <1>4 DEF ClickStart, StartEncoder, StartTask, NewCapture, InitCapture,
     StartThrows, ClickStop, StopEncoder, Deactivate, StopCapture, ReleaseDevice, ReleaseCrashes,
     WaitCapture, taskVars
<1>5. CASE \/ TestRun \/ LockFrame \/ AlreadyLocked \/ LockFrameCrashes
           \/ FrameArrives \/ FrameFails \/ MallocFrame \/ DropFrame
           \/ UnlockCrashes \/ EncodeThroughNull \/ EncodeNothing \/ EncodeFrame
           \/ MallocNal \/ WriteThroughNull \/ Send
  BY <1>5 DEF TestRun, LockFrame, AlreadyLocked, LockFrameCrashes, FrameArrives,
     FrameFails, MallocFrame, TakeBuffer, DropFrame, UnlockCrashes,
     EncodeThroughNull, EncodeNothing,
     EncodeFrame, MallocNal, WriteThroughNull, Send, taskVars
<1>6. ASSUME NEW s \in Stages, WaitTask(s) \/ Getq(s) \/ GetqClosed(s) \/ FreeBuf(s)
      PROVE  lost' = lost
  BY <1>6 DEF WaitTask, Getq, GetMessage, GetqClosed, GetFails, FreeBuf, GiveBack,
     taskVars
<1>7. CASE UNCHANGED vars
  BY <1>7 DEF vars, taskVars
<1> QED
  BY <1>2, <1>3, <1>4, <1>5, <1>6, <1>7
     DEF Next, Gui, Capture, Encoder, SenderTask, Svc, Stages
-----------------------------------------------------------------------------
\* The pipeline starts with every buffer free, no thread and no device.
LEMMA InitInv == Init => EncodeInv
<1> SUFFICES ASSUME Init PROVE EncodeInv
  OBVIOUS
<1> USE EncodeAssumption DEF Init, TaskInit, Stages, Bufs, Pool, Idle, QueueState
<1>1. TypeOK
  <2>1. TaskTypeOK(Stages, Bufs, Frames)
    <3>1. <<>> \in Seq(Bufs \cup {Null})
      OBVIOUS
    <3>2. free \in [Stages -> SUBSET Bufs]
      OBVIOUS
    <3>3. queue \in [Stages -> Seq(Bufs \cup {Null})]
      BY <3>1
    <3>4. /\ svc \in [Stages -> {"down", "getq", "busy", "done"}]
          /\ qstate \in [Stages -> QueueState]
          /\ fill \in [Stages -> Bufs \cup {Null}]
          /\ hand \in [Stages -> Bufs \cup {Null}]
          /\ lost \in [Stages -> SUBSET Bufs]
          /\ data \in [Bufs -> Frames]
      BY DEF Frames
    <3> QED
      BY ONLY <3>2, <3>3, <3>4 DEF TaskTypeOK
  <2>2. /\ gui \in {Idle, <<"init", "capture">>}
                 \cup ({"start", "wait", "stop", "release"} \X (Stages \cup {"capture"}))
        /\ codec \in BOOLEAN /\ run \in BOOLEAN
        /\ locked \in BOOLEAN /\ crashed \in BOOLEAN
        /\ dev \in {"none", "closed", "open"}
        /\ stale \in {"no", "none", "closed", "open"}
        /\ capture \in {"down", "test", "enter", "select", "callback"}
    OBVIOUS
  <2>3. /\ captured \in Frames /\ coded \in Frames /\ sent \in Frames
        /\ nals \in 0..MaxNals
    BY DEF Frames
  <2>4. coding \in Seq(Frames) /\ Len(coding) <= MaxDelay
    OBVIOUS
  <2> QED
    BY ONLY <2>1, <2>2, <2>3, <2>4 DEF TypeOK
<1>2. Control
  BY DEF Control, AllHeld, HandHeld, CodecPosition, StartPosition, StopPosition,
     OpenUnlessStopping, InUse, FrameStaysMapped, StopReleasesEverything,
     StopSteps
<1>3. BuffersAccounted
  <2>1. TaskInit(Pool, Bufs) /\ DOMAIN Pool = Stages
    BY DEF TaskInit
  <2>2. AllAccounted(Stages, Pool)
    BY ONLY <2>1, TaskInitAccounted
  <2> QED
    BY <2>2 DEF BuffersAccounted, AllAccounted
<1> QED
  BY <1>1, <1>2, <1>3 DEF EncodeInv

\* The inductive invariant holds of every behaviour.
LEMMA EncodeInvariant == Spec => []EncodeInv
<1>1. EncodeInv /\ [Next]_vars => EncodeInv'
  BY TypeStep, ControlStep, BufferStep DEF EncodeInv, Control
<1> QED
  BY InitInv, <1>1, PTL DEF Spec

\* Every variable stays in its type.
THEOREM EncodeTypeCorrect == Spec => []TypeOK
<1>1. EncodeInv => TypeOK
  BY DEF EncodeInv
<1> QED
  BY EncodeInvariant, <1>1, PTL

\* A queue of the pipeline never holds two messages, as putq waits.
LEMMA QueueOfOneStep ==
  ASSUME TypeOK, QueuesOfOne(Stages), [Next]_vars
  PROVE  QueuesOfOne(Stages)'
<1>1. /\ TaskTypeOK(Stages, Bufs, Frames)
      /\ "encoder" \in Stages /\ "sender" \in Stages
  BY DEF TypeOK, Stages
<1>2. CASE UNCHANGED queue
  BY <1>2 DEF QueuesOfOne
<1>3. CASE PutFrame \/ PutNal
  BY <1>1, <1>3, OneMessageStep DEF PutFrame, PutNal
<1>4. ASSUME NEW s \in Stages, Getq(s) PROVE QueuesOfOne(Stages)'
  BY <1>1, <1>4, OneMessageStep DEF Getq
<1>5. CASE Gui
  BY <1>2, <1>5 DEF Gui, ClickStart, StartEncoder, StartTask, NewCapture, InitCapture,
     StartThrows, ClickStop, StopEncoder, Deactivate, StopCapture, ReleaseDevice,
     ReleaseCrashes, WaitCapture, WaitTask, taskVars
<1>6. CASE Capture /\ ~PutFrame
  BY <1>2, <1>6 DEF Capture, TestRun, LockFrame, AlreadyLocked, LockFrameCrashes,
     FrameArrives, FrameFails, MallocFrame, TakeBuffer, DropFrame, UnlockCrashes, taskVars
<1>7. CASE \/ EncodeThroughNull \/ EncodeNothing \/ EncodeFrame \/ MallocNal
           \/ WriteThroughNull \/ Send
  BY <1>2, <1>7 DEF EncodeThroughNull, EncodeNothing, EncodeFrame, MallocNal, TakeBuffer,
     WriteThroughNull, Send, taskVars
<1>8. ASSUME NEW s \in Stages, GetqClosed(s) \/ FreeBuf(s)
      PROVE  QueuesOfOne(Stages)'
  BY <1>2, <1>8 DEF GetqClosed, GetFails, FreeBuf, GiveBack
<1>9. CASE UNCHANGED vars
  BY <1>2, <1>9 DEF vars, taskVars
<1> QED
  BY <1>3, <1>4, <1>5, <1>6, <1>7, <1>8, <1>9
     DEF Next, Capture, Encoder, SenderTask, Svc, Stages

\* While no stop has cost a buffer, operator() of the encoder and of the sender,
\* which does not test it, get one from malloc, in a pool of three or more.
THEOREM EncodeMallocFindsBuffer == Spec => []MallocFindsBuffer
<1>1. Init => QueuesOfOne(Stages)
  BY DEF Init, TaskInit, Pool, QueuesOfOne
<1>2. QueuesOfOne(Stages) /\ EncodeInv /\ [Next]_vars => QueuesOfOne(Stages)'
  BY QueueOfOneStep DEF EncodeInv
<1>3. EncodeInv /\ QueuesOfOne(Stages) => MallocFindsBuffer
  <2> SUFFICES ASSUME EncodeInv, QueuesOfOne(Stages), NEW s \in Stages,
                      AtLeastThree(Pool[s]), lost[s] = {}
               PROVE  ~PoolExhausted(s)
    BY DEF MallocFindsBuffer
  <2>1. /\ queue[s] \in Seq(Bufs \cup {Null}) /\ Len(queue[s]) <= 1
        /\ StageAccounted(s, Pool[s])
    BY DEF EncodeInv, TypeOK, TaskTypeOK, BuffersAccounted, QueuesOfOne
  <2> QED
    BY <2>1, MallocFindsOne
<1> QED
  BY EncodeInvariant, <1>1, <1>2, <1>3, PTL DEF Spec

\* Every buffer of both pools is free, queued, held by one thread, or lost to a
\* putq that failed, and in no two of these places.
THEOREM EncodeBuffersAccounted == Spec => []BuffersAccounted
<1>1. EncodeInv => BuffersAccounted
  BY DEF EncodeInv
<1> QED
  BY EncodeInvariant, <1>1, PTL

\* The device is not released under the callback that copies its frame.
THEOREM EncodeFrameStaysMapped == Spec => []FrameStaysMapped
<1>1. EncodeInv => FrameStaysMapped
  BY DEF EncodeInv, Control
<1> QED
  BY EncodeInvariant, <1>1, PTL

\* When video_encode_stop has returned, no thread is left and the camera is
\* closed.
THEOREM EncodeStopReleasesEverything == Spec => []StopReleasesEverything
<1>1. EncodeInv => StopReleasesEverything
  BY DEF EncodeInv, Control
<1> QED
  BY EncodeInvariant, <1>1, PTL

\* While the endpoint sends, and no stop is under way, putq never fails.
THEOREM EncodeLostOnlyByStop == Spec => LostOnlyByStop
<1>1. EncodeInv /\ [Next]_vars => (lost' # lost => gui \in StopSteps)
  BY LostStep DEF EncodeInv
<1>2. EncodeInv /\ [Next]_vars =>
        [lost' # lost =>
           gui \in {"wait", "stop", "release"} \X (Stages \cup {"capture"})]_vars
  BY <1>1 DEF StopSteps
<1> QED
  BY EncodeInvariant, <1>2, PTL DEF Spec, LostOnlyByStop
-----------------------------------------------------------------------------
(* The order of frames.  A frame passes seven places on its way to the     *)
(* network; as it may be sent as several NALs, and two places may hold the *)
(* same frame for a while, frames ascend weakly.                           *)

Places == 1..7

\* A line of sets of frames, the place next to the network first: frames ascend
\* along it, between what was sent last and what was captured last.
Ordered(line, lo, hi) ==
  /\ lo \in Nat /\ hi \in Nat
  /\ \A k \in Places : \A f \in line[k] : f \in Nat /\ lo <= f /\ f <= hi
  /\ \A j, k \in Places : j < k => \A f \in line[j], g \in line[k] : f <= g

\* No place gains a frame.
Shrunk(line, line2) == \A k \in Places : line2[k] \subseteq line[k]

\* Frame f goes on from place i.
Advanced(line, line2, i, f) ==
  /\ i \in 2..7 /\ f \in line[i] /\ \A g \in line[i] : f <= g
  /\ line2[i - 1] \subseteq line[i - 1] \cup {f}
  /\ \A k \in Places \ {i - 1} : line2[k] \subseteq line[k]

LEMMA ShrunkOrdered ==
  ASSUME NEW line, NEW line2, NEW lo, NEW hi, NEW hi2 \in Nat, hi <= hi2,
         Ordered(line, lo, hi), Shrunk(line, line2)
  PROVE  Ordered(line2, lo, hi2)
<1> USE DEF Shrunk, Places
<1>1. \A k \in 1..7 : \A f \in line2[k] : f \in Nat /\ lo <= f /\ f <= hi2
  BY DEF Ordered
<1>2. \A j, k \in 1..7 : j < k => \A f \in line2[j], g \in line2[k] : f <= g
  BY DEF Ordered
<1> QED
  BY <1>1, <1>2 DEF Ordered

LEMMA AdvancedOrdered ==
  ASSUME NEW line, NEW line2, NEW lo, NEW hi, NEW i, NEW f,
         Ordered(line, lo, hi), Advanced(line, line2, i, f)
  PROVE  Ordered(line2, lo, hi)
<1> USE DEF Advanced, Places
<1>1. i \in 1..7 /\ i - 1 \in 1..7 /\ i - 1 < i /\ f \in Nat
  BY DEF Ordered
<1>2. \A k \in 1..7 : \A g \in line2[k] : g \in line[k] \/ (k = i - 1 /\ g = f)
  BY <1>1
<1>3. ASSUME NEW j \in 1..7, NEW k \in 1..7, j < k, NEW g \in line2[j], NEW h \in line2[k]
      PROVE  g <= h
  <2>1. CASE g \in line[j] /\ h \in line[k]
    BY <1>3, <2>1 DEF Ordered
  <2>2. CASE g = f /\ h = f
    BY <1>1, <2>2
  <2>3. CASE j = i - 1 /\ g = f /\ h \in line[k]
    <3>1. k = i \/ i < k
      BY <1>1, <1>3, <2>3
    <3> QED
      BY <1>1, <2>3, <3>1 DEF Ordered
  <2>4. CASE k = i - 1 /\ h = f /\ g \in line[j]
    <3>1. j < i
      BY <1>1, <1>3, <2>4
    <3> QED
      BY <1>1, <2>4, <3>1 DEF Ordered
  <2> QED
    BY <1>2, <1>3, <2>1, <2>2, <2>3, <2>4
<1> QED
  BY <1>1, <1>2, <1>3 DEF Ordered

LEMMA ArrivedOrdered ==
  ASSUME NEW line, NEW line2, NEW lo, NEW hi, Ordered(line, lo, hi), lo <= hi,
         line2[7] \subseteq line[7] \cup {hi},
         \A k \in Places \ {7} : line2[k] \subseteq line[k]
  PROVE  Ordered(line2, lo, hi)
<1> USE DEF Places
<1>1. \A k \in 1..7 : \A g \in line2[k] : g \in line[k] \/ (k = 7 /\ g = hi)
  OBVIOUS
<1>2. \A j, k \in 1..7 : j < k => j # 7
  OBVIOUS
<1>3. \A j, k \in 1..7 : j < k => \A f \in line2[j], g \in line2[k] : f <= g
  BY <1>1, <1>2 DEF Ordered
<1> QED
  BY <1>1, <1>3 DEF Ordered

\* Sending the frame of the first place leaves all others behind it.
LEMMA SentOrdered ==
  ASSUME NEW line, NEW line2, NEW lo, NEW hi, NEW f, Ordered(line, lo, hi),
         f \in line[1], line2[1] = {}, \A k \in Places \ {1} : line2[k] \subseteq line[k]
  PROVE  Ordered(line2, f, hi) /\ lo <= f
<1> USE DEF Places
<1>1. f \in Nat /\ lo <= f /\ f <= hi
  BY DEF Ordered
<1>2. \A k \in 1..7 : \A g \in line2[k] : k # 1 /\ g \in line[k]
  OBVIOUS
<1>3. \A k \in 1..7 : k # 1 => 1 < k
  OBVIOUS
<1>4. \A k \in 1..7 : \A g \in line2[k] : g \in Nat /\ f <= g /\ g <= hi
  BY <1>2, <1>3 DEF Ordered
<1>5. \A j, k \in 1..7 : j < k => \A g \in line2[j], h \in line2[k] : g <= h
  BY <1>2 DEF Ordered
<1> QED
  BY <1>1, <1>4, <1>5 DEF Ordered
-----------------------------------------------------------------------------
(* The line of the sending pipeline.                                       *)

FramesIn(bufs) == {data[b] : b \in bufs}
Queued(s) == FramesIn(BufsIn(queue[s]))
Filled(s) == FramesIn(Held(fill[s]))

\* The frame being sent, and the one x264 is putting out as NALs.
AtSender == IF svc["sender"] = "busy" THEN FramesIn(Held(hand["sender"])) ELSE {}
PutOut == IF nals > 0 THEN {coded} ELSE {}

\* The frames in x264, with the one the encoder's thread is about to give it.
Coding ==
  IF svc["encoder"] = "busy" /\ nals = 0
    THEN Append(coding, data[hand["encoder"]]) ELSE coding
InCodec == {Coding[i] : i \in DOMAIN Coding}

Line == <<AtSender, Queued("sender"), Filled("sender"), PutOut, InCodec,
          Queued("encoder"), Filled("encoder")>>

QueueAscends(s) ==
  \A i, j \in DOMAIN queue[s] :
    i < j /\ queue[s][i] # Null /\ queue[s][j] # Null => data[queue[s][i]] <= data[queue[s][j]]
CodingAscends == \A i, j \in DOMAIN Coding : i < j => Coding[i] <= Coding[j]

LineInv ==
  /\ Ordered(Line, sent, captured) /\ sent <= captured
  /\ \A s \in Stages : QueueAscends(s)
  /\ CodingAscends

OrderInv == EncodeInv /\ LineInv

LEMMA PlacesAre == \A k : k \in Places <=> k \in {1, 2, 3, 4, 5, 6, 7}
BY DEF Places

LEMMA LineAtBoth ==
  /\ Line[1] = AtSender /\ Line[2] = Queued("sender") /\ Line[3] = Filled("sender")
  /\ Line[4] = PutOut /\ Line[5] = InCodec
  /\ Line[6] = Queued("encoder") /\ Line[7] = Filled("encoder")
  /\ Line'[1] = AtSender' /\ Line'[2] = Queued("sender")' /\ Line'[3] = Filled("sender")'
  /\ Line'[4] = PutOut' /\ Line'[5] = InCodec'
  /\ Line'[6] = Queued("encoder")' /\ Line'[7] = Filled("encoder")'
BY DEF Line

\* What is known of a state that OrderInv describes.
LEMMA OrderFacts ==
  ASSUME OrderInv
  PROVE  /\ TypeOK /\ TaskTypeOK(Stages, Bufs, Frames) /\ BuffersAccounted
         /\ CodecPosition /\ AllHeld
         /\ "encoder" \in Stages /\ "sender" \in Stages /\ Stages = {"encoder", "sender"}
         /\ Ordered(Line, sent, captured) /\ sent <= captured
         /\ sent \in Nat /\ captured \in Nat /\ nals \in Nat
         /\ \A b \in Bufs : data[b] \in Nat
         /\ \A s \in Stages : /\ queue[s] \in Seq(Bufs \cup {Null})
                              /\ svc[s] = "busy" => hand[s] \in Bufs /\ hand[s] # Null
         /\ Null \notin Bufs
BY EncodeAssumption
   DEF OrderInv, LineInv, EncodeInv, Control, TypeOK, TaskTypeOK, AllHeld, HandHeld, Stages,
       Frames, Bufs

LEMMA CodingTyped ==
  ASSUME OrderInv
  PROVE  coding \in Seq(Nat)
<1>1. coding \in Seq(Frames) /\ \A f \in Frames : f \in Nat
  BY OrderFacts, EncodeAssumption DEF TypeOK, Frames
<1>2. ASSUME NEW F, coding \in Seq(F), \A f \in F : f \in Nat
      PROVE  coding \in Seq(Nat)
  BY <1>2
<1> QED
  BY <1>1, <1>2

\* A buffer that malloc returns holds no frame of the line.
LEMMA FreshBuffer ==
  ASSUME BuffersAccounted, NEW s \in Stages, NEW b \in free[s]
  PROVE  /\ b # Null
         /\ \A t \in Stages : b \notin BufsIn(queue[t]) /\ b # fill[t] /\ b # hand[t]
<1>1. \A t \in Stages : /\ Pool[t] = free[t] \cup BufsIn(queue[t]) \cup Out(t)
                        /\ free[t] \cap BufsIn(queue[t]) = {} /\ free[t] \cap Out(t) = {}
  BY DEF BuffersAccounted, StageAccounted, Accounted
<1>2. \A t \in Stages : t = s \/ Pool[t] \cap Pool[s] = {}
  BY EncodeAssumption DEF Pool, Stages
<1>3. b \in Pool[s] /\ b # Null
  BY <1>1, EncodeAssumption DEF Pool, Stages
<1> QED
  BY <1>1, <1>2, <1>3 DEF Out, Held
-----------------------------------------------------------------------------
(* Steps of a stage, and what they do to its places.                       *)

\* malloc and the copy of frame f.
LEMMA TakeEffect ==
  ASSUME OrderInv, NEW s \in Stages, NEW f, TakeBuffer(s, f)
  PROVE  /\ Filled(s)' = {f}
         /\ \A t \in Stages \ {s} : Filled(t)' = Filled(t)
         /\ \A t \in Stages : Queued(t)' = Queued(t) /\ (QueueAscends(t))'
         /\ svc' = svc /\ hand' = hand
         /\ \A t \in Stages : hand[t] # Null => data'[hand[t]] = data[hand[t]]
<1>1. TaskTypeOK(Stages, Bufs, Frames) /\ BuffersAccounted
  BY OrderFacts
<1>2. PICK b \in free[s] : fill' = [fill EXCEPT ![s] = b] /\ data' = [data EXCEPT ![b] = f]
  BY DEF TakeBuffer
<1>3. /\ b # Null /\ b \in Bufs
      /\ \A t \in Stages : b \notin BufsIn(queue[t]) /\ b # fill[t] /\ b # hand[t]
  BY <1>1, FreshBuffer DEF TaskTypeOK
<1>4. /\ fill'[s] = b /\ data'[b] = f
      /\ \A c : c # b => data'[c] = data[c]
      /\ \A t \in Stages \ {s} : fill'[t] = fill[t]
      /\ queue' = queue /\ hand' = hand /\ svc' = svc
  BY <1>1, <1>2, <1>3 DEF TakeBuffer, TaskTypeOK
<1>5. Filled(s)' = {f}
  BY <1>3, <1>4 DEF Filled, FramesIn, Held
<1>6. \A t \in Stages : \A c \in BufsIn(queue[t]) : data'[c] = data[c]
  BY <1>3, <1>4
<1>7. \A t \in Stages : Queued(t)' = Queued(t)
  BY <1>4, <1>6 DEF Queued, FramesIn
<1>8. \A t \in Stages \ {s} : Filled(t)' = Filled(t)
  BY <1>3, <1>4 DEF Filled, FramesIn, Held
<1>9. \A t \in Stages : (QueueAscends(t))'
  <2>1. \A t \in Stages : \A i \in DOMAIN queue[t] :
          queue[t][i] # Null => data'[queue[t][i]] = data[queue[t][i]]
    BY <1>6 DEF BufsIn
  <2>2. \A t \in Stages : QueueAscends(t)
    BY DEF OrderInv, LineInv
  <2> QED
    BY <1>4, <2>1, <2>2 DEF QueueAscends
<1> QED
  BY <1>3, <1>4, <1>5, <1>7, <1>8, <1>9

\* putq of the filled buffer, which a deactivated queue does not take.
LEMMA PutEffect ==
  ASSUME OrderInv, NEW s \in Stages, PutBuffer(s)
  PROVE  /\ \E f \in Filled(s) : /\ \A g \in Filled(s) : f <= g
                                 /\ Queued(s)' \subseteq Queued(s) \cup {f}
         /\ Filled(s)' = {}
         /\ \A t \in Stages \ {s} : Queued(t)' = Queued(t) /\ Filled(t)' = Filled(t)
         /\ \A t \in Stages : (QueueAscends(t))'
         /\ hand' = hand /\ data' = data
<1>1. /\ TaskTypeOK(Stages, Bufs, Frames) /\ Stages = {"encoder", "sender"}
      /\ queue[s] \in Seq(Bufs \cup {Null}) /\ \A b \in Bufs : data[b] \in Nat
      /\ \A t \in Stages : QueueAscends(t)
  BY OrderFacts DEF OrderInv, LineInv
<1>2. /\ fill[s] # Null /\ fill[s] \in Bufs /\ fill'[s] = Null
      /\ hand' = hand /\ data' = data
      /\ queue'[s] = queue[s] \/ queue'[s] = Append(queue[s], fill[s])
      /\ \A t \in Stages \ {s} : queue'[t] = queue[t] /\ fill'[t] = fill[t]
  BY <1>1 DEF PutBuffer, Putq, TaskTypeOK
<1> DEFINE f == data[fill[s]]
<1>3. Filled(s) = {f} /\ Filled(s)' = {} /\ f \in Nat
  BY <1>1, <1>2 DEF Filled, FramesIn, Held
<1>4. Queued(s)' \subseteq Queued(s) \cup {f}
  <2>1. BufsIn(Append(queue[s], fill[s])) = BufsIn(queue[s]) \cup Held(fill[s])
    BY <1>1, <1>2, BufsInAppend
  <2>2. BufsIn(queue'[s]) \subseteq BufsIn(queue[s]) \cup {fill[s]}
    BY <1>2, <2>1 DEF Held
  <2> QED
    BY <1>2, <2>2 DEF Queued, FramesIn
<1>5. \A t \in Stages \ {s} : Queued(t)' = Queued(t) /\ Filled(t)' = Filled(t)
  BY <1>2 DEF Queued, Filled, FramesIn
<1>6. \A g \in Queued(s) : g <= f
  <2>1. Ordered(Line, sent, captured)
    BY OrderFacts
  <2>2. /\ \A g \in Line[2], h \in Line[3] : g <= h
        /\ \A g \in Line[6], h \in Line[7] : g <= h
    BY <2>1 DEF Ordered, Places
  <2> QED
    BY <1>1, <1>3, <2>2, LineAtBoth
<1>7. (QueueAscends(s))'
  <2>1. \A i \in DOMAIN queue[s] : queue[s][i] # Null => data[queue[s][i]] <= f
    BY <1>6 DEF Queued, FramesIn, BufsIn
  <2>2. CASE queue'[s] = queue[s]
    BY <1>1, <1>2, <2>2 DEF QueueAscends
  <2>3. CASE queue'[s] = Append(queue[s], fill[s])
    <3>1. /\ \A i \in DOMAIN queue'[s] :
               \/ i \in DOMAIN queue[s] /\ queue'[s][i] = queue[s][i]
               \/ i = Len(queue[s]) + 1 /\ queue'[s][i] = fill[s]
          /\ \A i \in DOMAIN queue[s] : i \in Nat /\ i < Len(queue[s]) + 1
          /\ Len(queue[s]) \in Nat
      BY <1>1, <1>2, <2>3
    <3> QED
      BY <1>1, <1>2, <2>1, <3>1 DEF QueueAscends
  <2> QED
    BY <1>2, <2>2, <2>3
<1>8. \A t \in Stages \ {s} : (QueueAscends(t))'
  BY <1>1, <1>2 DEF QueueAscends
<1> QED
  BY <1>2, <1>3, <1>4, <1>5, <1>7, <1>8

\* getq takes the first buffer of the queue, whose frame is the least.
LEMMA GetEffect ==
  ASSUME OrderInv, NEW s \in Stages, GetMessage(s)
  PROVE  /\ svc[s] = "getq" /\ hand'[s] = Head(queue[s]) /\ svc'[s] \in {"down", "busy"}
         /\ svc'[s] = "busy" => /\ hand'[s] # Null /\ data[hand'[s]] \in Queued(s)
                                /\ \A g \in Queued(s) : data[hand'[s]] <= g
         /\ Queued(s)' \subseteq Queued(s)
         /\ \A t \in Stages \ {s} : Queued(t)' = Queued(t) /\ hand'[t] = hand[t] /\ svc'[t] = svc[t]
         /\ \A t \in Stages : Filled(t)' = Filled(t) /\ (QueueAscends(t))'
         /\ data' = data
<1>1. /\ TaskTypeOK(Stages, Bufs, Frames) /\ queue[s] \in Seq(Bufs \cup {Null})
      /\ \A b \in Bufs : data[b] \in Nat
      /\ \A t \in Stages : QueueAscends(t)
  BY OrderFacts DEF OrderInv, LineInv
<1> DEFINE m == Head(queue[s])
<1>2. /\ queue[s] # <<>> /\ svc[s] = "getq" /\ queue'[s] = Tail(queue[s]) /\ hand'[s] = m
      /\ svc'[s] = IF m = Null THEN "down" ELSE "busy"
      /\ \A t \in Stages \ {s} : queue'[t] = queue[t] /\ hand'[t] = hand[t] /\ svc'[t] = svc[t]
      /\ fill' = fill /\ data' = data
  BY <1>1 DEF GetMessage, CanGetq, TaskTypeOK
<1>3. /\ 1 \in DOMAIN queue[s] /\ queue[s][1] = m
      /\ \A i \in DOMAIN queue[s] : i \in Nat /\ (i = 1 \/ 1 < i) /\ queue[s][i] \in Bufs \cup {Null}
      /\ \A i \in DOMAIN Tail(queue[s]) :
           i \in Nat /\ i + 1 \in DOMAIN queue[s] /\ Tail(queue[s])[i] = queue[s][i + 1]
  BY <1>1, <1>2
<1>4. m # Null => m \in BufsIn(queue[s]) /\ data[m] \in Nat
  BY <1>1, <1>3 DEF BufsIn
<1>5. BufsIn(queue'[s]) \subseteq BufsIn(queue[s])
  BY <1>2, <1>3 DEF BufsIn
<1>6. ASSUME m # Null, NEW g \in Queued(s)
      PROVE  data[m] <= g
  <2>1. PICK i \in DOMAIN queue[s] : queue[s][i] # Null /\ g = data[queue[s][i]]
    BY DEF Queued, FramesIn, BufsIn
  <2>2. CASE i = 1
    BY <1>3, <1>4, <1>6, <2>1, <2>2
  <2>3. CASE 1 < i
    <3>1. QueueAscends(s)
      BY <1>1
    <3> QED
      BY <1>3, <1>6, <2>1, <2>3, <3>1 DEF QueueAscends
  <2> QED
    BY <1>3, <2>2, <2>3
<1>7. Queued(s)' \subseteq Queued(s) /\ (m # Null => data[m] \in Queued(s))
  BY <1>2, <1>4, <1>5 DEF Queued, FramesIn
<1>8. \A t \in Stages : Filled(t)' = Filled(t)
  BY <1>2 DEF Filled, FramesIn
<1>9. \A t \in Stages \ {s} : Queued(t)' = Queued(t) /\ (QueueAscends(t))'
  BY <1>1, <1>2 DEF Queued, FramesIn, QueueAscends
<1>10. (QueueAscends(s))'
  <2>1. \A i \in DOMAIN queue'[s] :
          i \in Nat /\ i + 1 \in DOMAIN queue[s] /\ queue'[s][i] = queue[s][i + 1]
    BY <1>2, <1>3
  <2>2. QueueAscends(s) /\ data' = data
    BY <1>1, <1>2
  <2> QED
    BY <2>1, <2>2 DEF QueueAscends
<1> QED
  BY <1>2, <1>6, <1>7, <1>8, <1>9, <1>10
-----------------------------------------------------------------------------
(* What a step does to the line.                                           *)

Shrinks ==
  /\ Shrunk(Line, Line') /\ sent' = sent
  /\ captured' \in Nat /\ captured <= captured'
Advances == (\E i, f : Advanced(Line, Line', i, f)) /\ UNCHANGED <<sent, captured>>
Arrives ==
  /\ Line'[7] \subseteq Line[7] \cup {captured}
  /\ \A k \in Places \ {7} : Line'[k] \subseteq Line[k]
  /\ UNCHANGED <<sent, captured>>
Sends ==
  /\ \E f \in Line[1] : sent' = f
  /\ Line'[1] = {} /\ \A k \in Places \ {1} : Line'[k] \subseteq Line[k]
  /\ UNCHANGED captured

InOrderAgain ==
  /\ Shrinks \/ Advances \/ Arrives \/ Sends
  /\ \A s \in Stages : (QueueAscends(s))'
  /\ CodingAscends'

\* A step that moves no frame: of the user, of the capture thread at the camera,
\* of a task's thread that ends or gives a buffer back.
LEMMA StillStep ==
  ASSUME OrderInv, UNCHANGED <<queue, fill, data, coding, coded, nals, sent>>,
         \A s \in Stages : svc'[s] = "busy" <=> svc[s] = "busy",
         \A s \in Stages : svc[s] = "busy" => hand'[s] = hand[s],
         captured' \in Nat, captured <= captured'
  PROVE  InOrderAgain
<1>1. "encoder" \in Stages /\ "sender" \in Stages /\ Stages = {"encoder", "sender"}
  BY OrderFacts
<1>2. \A s \in Stages : Queued(s)' = Queued(s) /\ Filled(s)' = Filled(s)
  BY DEF Queued, Filled, FramesIn
<1>3. AtSender' = AtSender /\ PutOut' = PutOut
  BY <1>1 DEF AtSender, PutOut, FramesIn
<1>4. Coding' = Coding
  BY <1>1 DEF Coding
<1>5. InCodec' = InCodec
  BY <1>4 DEF InCodec
<1>6. Shrunk(Line, Line')
  BY <1>1, <1>2, <1>3, <1>5, LineAtBoth, PlacesAre DEF Shrunk
<1>7. CodingAscends' /\ \A s \in Stages : (QueueAscends(s))'
  BY <1>4 DEF OrderInv, LineInv, CodingAscends, QueueAscends
<1> QED
  BY <1>6, <1>7 DEF InOrderAgain, Shrinks

\* Everything but the passing on of frames.
LEMMA QuietStep ==
  ASSUME OrderInv,
         \/ Gui \/ TestRun \/ LockFrame \/ AlreadyLocked \/ LockFrameCrashes \/ FrameArrives
         \/ FrameFails \/ DropFrame \/ UnlockCrashes
         \/ EncodeThroughNull \/ WriteThroughNull
         \/ (\E s \in Stages : GetqClosed(s) \/ FreeBuf(s))
         \/ UNCHANGED vars
  PROVE  InOrderAgain
<1>1. TaskTypeOK(Stages, Bufs, Frames) /\ captured \in Nat
  BY OrderFacts
<1>2. CASE Gui
  <2>1. UNCHANGED <<queue, fill, data, hand, coding, coded, nals, sent, captured>>
    BY <1>2 DEF Gui, ClickStart, StartEncoder, NewCapture, InitCapture, StartThrows, ClickStop,
       StopEncoder, StopCapture, ReleaseDevice, ReleaseCrashes, WaitCapture, WaitTask,
       StartTask, Deactivate, captureVars, codecVars, taskVars
  <2>2. \A s \in Stages : svc'[s] = "busy" <=> svc[s] = "busy"
    BY <1>1, <1>2 DEF Gui, ClickStart, StartEncoder, NewCapture, InitCapture, StartThrows,
       ClickStop, StopEncoder, StopCapture, ReleaseDevice, ReleaseCrashes, WaitCapture,
       WaitTask, StartTask, Deactivate, captureVars, codecVars, taskVars, TaskTypeOK
  <2> QED
    BY <1>1, <2>1, <2>2, StillStep
<1>3. CASE \/ TestRun \/ LockFrame \/ AlreadyLocked \/ LockFrameCrashes
           \/ FrameFails \/ DropFrame \/ UnlockCrashes
           \/ EncodeThroughNull \/ WriteThroughNull \/ UNCHANGED vars
  <2>1. UNCHANGED <<captured, coding, coded, nals, sent, taskVars>>
    BY <1>3 DEF TestRun, LockFrame, AlreadyLocked, LockFrameCrashes, FrameFails, DropFrame,
       UnlockCrashes, EncodeThroughNull, WriteThroughNull, vars, captureVars, codecVars
  <2> QED
    BY <1>1, <2>1, StillStep DEF taskVars
<1>4. CASE FrameArrives
  BY <1>1, <1>4, StillStep DEF FrameArrives, codecVars, taskVars
<1>5. ASSUME NEW s \in Stages, GetqClosed(s) \/ FreeBuf(s)
      PROVE  InOrderAgain
  <2>1. UNCHANGED <<captured, coding, coded, nals, sent, queue, fill, data>>
    BY <1>5 DEF GetqClosed, FreeBuf, GetFails, GiveBack, OwnStep, captureVars, codecVars
  <2>2. /\ \A t \in Stages : svc'[t] = "busy" <=> svc[t] = "busy"
        /\ \A t \in Stages : svc[t] = "busy" => hand'[t] = hand[t]
    BY <1>1, <1>5 DEF GetqClosed, FreeBuf, GetFails, GiveBack, TaskTypeOK
  <2> QED
    BY <1>1, <2>1, <2>2, StillStep
<1> QED
  BY <1>2, <1>3, <1>4, <1>5

\* The capture thread copies a frame and queues it.
LEMMA CaptureStepOrdered ==
  ASSUME OrderInv, MallocFrame \/ PutFrame
  PROVE  InOrderAgain
<1>1. /\ "encoder" \in Stages /\ "sender" \in Stages /\ Stages = {"encoder", "sender"}
      /\ \A s \in Stages : svc[s] = "busy" => hand[s] # Null
      /\ CodingAscends
  BY OrderFacts DEF OrderInv, LineInv
<1>2. UNCHANGED <<captured, coding, coded, nals, sent, svc>>
  BY DEF MallocFrame, PutFrame, TakeBuffer, codecVars
<1>3. ASSUME hand' = hand, \A s \in Stages : hand[s] # Null => data'[hand[s]] = data[hand[s]]
      PROVE  AtSender' = AtSender /\ PutOut' = PutOut /\ InCodec' = InCodec /\ CodingAscends'
  <2>1. AtSender' = AtSender /\ PutOut' = PutOut
    BY <1>1, <1>2, <1>3 DEF AtSender, PutOut, FramesIn, Held
  <2>2. Coding' = Coding
    BY <1>1, <1>2, <1>3 DEF Coding
  <2> QED
    BY <1>1, <2>1, <2>2 DEF InCodec, CodingAscends
<1>4. CASE MallocFrame
  <2>1. TakeBuffer("encoder", captured)
    BY <1>4 DEF MallocFrame
  <2>2. /\ Filled("encoder")' = {captured} /\ Filled("sender")' = Filled("sender")
        /\ \A t \in Stages : Queued(t)' = Queued(t) /\ (QueueAscends(t))'
        /\ hand' = hand
        /\ \A t \in Stages : hand[t] # Null => data'[hand[t]] = data[hand[t]]
    BY <1>1, <2>1, TakeEffect
  <2>3. AtSender' = AtSender /\ PutOut' = PutOut /\ InCodec' = InCodec /\ CodingAscends'
    BY <1>3, <2>2
  <2>4. Arrives
    BY <1>1, <1>2, <2>2, <2>3, LineAtBoth, PlacesAre DEF Arrives
  <2> QED
    BY <2>2, <2>3, <2>4 DEF InOrderAgain
<1>5. CASE PutFrame
  <2>1. PutBuffer("encoder")
    BY <1>5 DEF PutFrame
  <2>2. /\ Filled("encoder")' = {} /\ Filled("sender")' = Filled("sender")
        /\ Queued("sender")' = Queued("sender")
        /\ \A t \in Stages : (QueueAscends(t))'
        /\ hand' = hand /\ data' = data
    BY <1>1, <2>1, PutEffect
  <2>3. PICK f \in Filled("encoder") : /\ \A g \in Filled("encoder") : f <= g
                                       /\ Queued("encoder")' \subseteq Queued("encoder") \cup {f}
    BY <1>1, <2>1, PutEffect
  <2>4. AtSender' = AtSender /\ PutOut' = PutOut /\ InCodec' = InCodec /\ CodingAscends'
    BY <1>3, <2>2
  <2>5. Advanced(Line, Line', 7, f)
    BY <2>2, <2>3, <2>4, LineAtBoth, PlacesAre DEF Advanced
  <2>6. Advances
    BY <1>2, <2>5 DEF Advances
  <2> QED
    BY <2>2, <2>4, <2>6 DEF InOrderAgain
<1> QED
  BY <1>4, <1>5

\* A task's thread takes a message.
LEMMA GetqOrdered ==
  ASSUME OrderInv, NEW s \in Stages, Getq(s)
  PROVE  InOrderAgain
<1>1. /\ "encoder" \in Stages /\ "sender" \in Stages /\ Stages = {"encoder", "sender"}
      /\ CodingAscends /\ CodecPosition /\ nals \in Nat /\ coding \in Seq(Nat)
      /\ \A t \in Stages : svc[t] = "busy" => hand[t] # Null
      /\ Ordered(Line, sent, captured)
  BY OrderFacts, CodingTyped DEF OrderInv, LineInv
<1>2. UNCHANGED <<captured, coding, coded, nals, sent>>
  BY DEF Getq, OwnStep, captureVars, codecVars
<1> DEFINE f == data[hand'[s]]
<1>3. /\ svc[s] = "getq" /\ svc'[s] \in {"down", "busy"}
      /\ svc'[s] = "busy" => /\ hand'[s] # Null /\ f \in Queued(s)
                             /\ \A g \in Queued(s) : f <= g
      /\ Queued(s)' \subseteq Queued(s)
      /\ \A t \in Stages \ {s} : Queued(t)' = Queued(t) /\ hand'[t] = hand[t] /\ svc'[t] = svc[t]
      /\ \A t \in Stages : Filled(t)' = Filled(t) /\ (QueueAscends(t))'
      /\ data' = data
  BY GetEffect DEF Getq
<1>4. PutOut' = PutOut
  BY <1>2 DEF PutOut
<1> HIDE DEF f
<1>5. CASE s = "sender"
  <2>1. AtSender = {} /\ AtSender' \subseteq IF svc'[s] = "busy" THEN {f} ELSE {}
    BY <1>3, <1>5 DEF AtSender, FramesIn, Held, f
  <2>2. Coding' = Coding
    BY <1>1, <1>2, <1>3, <1>5 DEF Coding
  <2>3. InCodec' = InCodec /\ CodingAscends'
    BY <1>1, <2>2 DEF InCodec, CodingAscends
  <2>4. CASE svc'[s] = "busy"
    <3>1. Advanced(Line, Line', 2, f)
      BY <1>1, <1>3, <1>4, <1>5, <2>1, <2>3, <2>4, LineAtBoth, PlacesAre DEF Advanced
    <3> QED
      BY <1>2, <1>3, <2>3, <3>1 DEF Advances, InOrderAgain
  <2>5. CASE svc'[s] = "down"
    <3>1. Shrunk(Line, Line')
      BY <1>1, <1>3, <1>4, <1>5, <2>1, <2>3, <2>5, LineAtBoth, PlacesAre DEF Shrunk
    <3>2. captured \in Nat
      BY OrderFacts
    <3> QED
      BY <1>2, <1>3, <2>3, <3>1, <3>2 DEF Shrinks, InOrderAgain
  <2> QED
    BY <1>3, <2>4, <2>5
<1>6. CASE s = "encoder"
  <2>1. AtSender' = AtSender
    BY <1>1, <1>3, <1>6 DEF AtSender, FramesIn
  <2>2. nals = 0 /\ Coding = coding
    BY <1>1, <1>3, <1>6 DEF Coding, CodecPosition
  <2>3. CASE svc'[s] = "busy"
    <3>1. Coding' = Append(coding, f)
      BY <1>2, <1>3, <1>6, <2>2, <2>3 DEF Coding, f
    <3>2. f \in Nat /\ \A g \in InCodec : g <= f
      <4>1. /\ \A g \in Line[6] : g \in Nat
            /\ \A g \in Line[5], h \in Line[6] : g <= h
        BY <1>1 DEF Ordered, Places
      <4> QED
        BY <1>3, <1>6, <2>3, <4>1, LineAtBoth
    <3>3. /\ \A i \in DOMAIN Coding' : \/ i \in DOMAIN coding /\ Coding'[i] = coding[i]
                                       \/ i = Len(coding) + 1 /\ Coding'[i] = f
          /\ \A i \in DOMAIN coding : i \in Nat /\ i < Len(coding) + 1
          /\ Len(coding) \in Nat
      BY <1>1, <3>1, <3>2
    <3>4. InCodec' \subseteq InCodec \cup {f}
      BY <2>2, <3>3 DEF InCodec
    <3>5. CodingAscends'
      BY <1>1, <2>2, <3>2, <3>3 DEF CodingAscends, InCodec
    <3>6. Advanced(Line, Line', 6, f)
      BY <1>1, <1>3, <1>4, <1>6, <2>1, <2>3, <3>4, LineAtBoth, PlacesAre DEF Advanced
    <3> QED
      BY <1>2, <1>3, <3>5, <3>6 DEF Advances, InOrderAgain
  <2>4. CASE svc'[s] = "down"
    <3>1. Coding' = Coding
      BY <1>2, <1>6, <2>2, <2>4 DEF Coding
    <3>2. InCodec' = InCodec /\ CodingAscends'
      BY <1>1, <3>1 DEF InCodec, CodingAscends
    <3>3. Shrunk(Line, Line')
      BY <1>1, <1>3, <1>4, <1>6, <2>1, <3>2, LineAtBoth, PlacesAre DEF Shrunk
    <3>4. captured \in Nat
      BY OrderFacts
    <3> QED
      BY <1>2, <1>3, <3>2, <3>3, <3>4 DEF Shrinks, InOrderAgain
  <2> QED
    BY <1>3, <2>3, <2>4
<1> QED
  BY <1>1, <1>5, <1>6

\* x264 takes the frame, or loses it, and puts out the oldest it has.
LEMMA CodecOrdered ==
  ASSUME OrderInv, EncodeNothing \/ EncodeFrame
  PROVE  InOrderAgain
<1>1. /\ "encoder" \in Stages /\ "sender" \in Stages /\ Stages = {"encoder", "sender"}
      /\ TaskTypeOK(Stages, Bufs, Frames)
      /\ CodingAscends /\ nals \in Nat /\ captured \in Nat /\ coding \in Seq(Nat)
      /\ \A t \in Stages : QueueAscends(t)
  BY OrderFacts, CodingTyped DEF OrderInv, LineInv
<1> DEFINE f == data[hand["encoder"]]
<1>2. /\ UNCHANGED <<captured, sent, queue, fill, hand, data>>
      /\ svc["encoder"] = "busy" /\ nals = 0 /\ svc'["sender"] = svc["sender"]
  BY <1>1 DEF EncodeNothing, EncodeFrame, Encodes, Finish, captureVars, taskVars, TaskTypeOK
<1>3. f \in Nat
  BY <1>2, OrderFacts
<1>4. /\ \A t \in Stages : Queued(t)' = Queued(t) /\ Filled(t)' = Filled(t)
      /\ AtSender' = AtSender
  BY <1>1, <1>2 DEF Queued, Filled, AtSender, FramesIn
<1>5. \A t \in Stages : (QueueAscends(t))'
  BY <1>1, <1>2 DEF QueueAscends
<1>6. Coding = Append(coding, f) /\ PutOut = {}
  BY <1>2 DEF Coding, PutOut
<1> HIDE DEF f
<1>7. /\ Coding \in Seq(Nat) /\ Coding # <<>> /\ Len(coding) \in Nat
      /\ \A i \in DOMAIN coding : i \in DOMAIN Coding /\ Coding[i] = coding[i]
  BY <1>1, <1>3, <1>6
<1>8. CASE EncodeNothing
  <2>1. /\ svc'["encoder"] = "done" /\ nals' = nals
        /\ coding' = coding \/ coding' = Coding
    BY <1>1, <1>6, <1>8 DEF EncodeNothing, Finish, TaskTypeOK, f
  <2>2. Coding' = coding' /\ PutOut' = PutOut
    BY <1>2, <2>1 DEF Coding, PutOut
  <2>3. \A i \in DOMAIN Coding' : i \in DOMAIN Coding /\ Coding'[i] = Coding[i]
    BY <1>7, <2>1, <2>2
  <2>4. InCodec' \subseteq InCodec /\ CodingAscends'
    BY <1>1, <2>3 DEF InCodec, CodingAscends
  <2>5. Shrunk(Line, Line')
    BY <1>1, <1>4, <2>2, <2>4, LineAtBoth, PlacesAre DEF Shrunk
  <2> QED
    BY <1>1, <1>2, <1>5, <2>4, <2>5 DEF Shrinks, InOrderAgain
<1>9. CASE EncodeFrame
  <2>1. /\ coded' = Head(Coding) /\ coding' = Tail(Coding) /\ nals' \in 1..MaxNals
    BY <1>6, <1>9 DEF EncodeFrame, f
  <2>2. nals' > 0 /\ nals' # 0
    BY <2>1, EncodeAssumption
  <2>3. Coding' = Tail(Coding) /\ PutOut' = {coded'}
    BY <2>1, <2>2 DEF Coding, PutOut
  <2>4. /\ 1 \in DOMAIN Coding /\ coded' = Coding[1] /\ coded' \in Nat
        /\ \A i \in DOMAIN Coding : i \in Nat /\ (i = 1 \/ 1 < i)
    BY <1>7, <2>1
  <2>5. \A i \in DOMAIN Tail(Coding) :
          i \in Nat /\ i + 1 \in DOMAIN Coding /\ Tail(Coding)[i] = Coding[i + 1]
    BY <1>7
  <2>6. coded' \in InCodec /\ \A g \in InCodec : coded' <= g
    <3>1. coded' <= coded'
      BY <2>4
    <3> QED
      BY <1>1, <2>4, <3>1 DEF InCodec, CodingAscends
  <2>7. InCodec' \subseteq InCodec
    BY <2>3, <2>5 DEF InCodec
  <2>8. CodingAscends'
    <3>1. \A i, j \in DOMAIN Tail(Coding) : i < j => Tail(Coding)[i] <= Tail(Coding)[j]
      BY <1>1, <2>5 DEF CodingAscends
    <3> QED
      BY <2>3, <3>1 DEF CodingAscends
  <2>9. Advanced(Line, Line', 5, coded')
    BY <1>1, <1>4, <1>6, <2>3, <2>6, <2>7, LineAtBoth, PlacesAre DEF Advanced
  <2> QED
    BY <1>2, <1>5, <2>8, <2>9 DEF Advances, InOrderAgain
<1> QED
  BY <1>8, <1>9

\* A NAL of the frame put out is copied and queued for the sender.
LEMMA NalOrdered ==
  ASSUME OrderInv, MallocNal \/ PutNal
  PROVE  InOrderAgain
<1>1. /\ "encoder" \in Stages /\ "sender" \in Stages /\ Stages = {"encoder", "sender"}
      /\ TaskTypeOK(Stages, Bufs, Frames)
      /\ \A s \in Stages : svc[s] = "busy" => hand[s] # Null
      /\ CodingAscends /\ CodecPosition /\ nals \in Nat
  BY OrderFacts DEF OrderInv, LineInv
<1>2. UNCHANGED <<captured, coding, coded, sent>> /\ nals > 0
  BY <1>1 DEF MallocNal, PutNal, PutBuffer, OwnStep, captureVars, codecVars, CodecPosition
<1>3. PutOut = {coded} /\ PutOut' \subseteq PutOut /\ Coding = coding
  BY <1>1, <1>2 DEF PutOut, Coding
<1>4. ASSUME Coding' = coding, hand' = hand, svc'["sender"] = svc["sender"],
             \A s \in Stages : hand[s] # Null => data'[hand[s]] = data[hand[s]]
      PROVE  AtSender' = AtSender /\ InCodec' = InCodec /\ CodingAscends'
  <2>1. AtSender' = AtSender
    BY <1>1, <1>4 DEF AtSender, FramesIn, Held
  <2> QED
    BY <1>1, <1>3, <1>4, <2>1 DEF InCodec, CodingAscends
<1>5. CASE MallocNal
  <2>1. TakeBuffer("sender", coded) /\ nals' = nals
    BY <1>5 DEF MallocNal, OwnStep, codecVars
  <2>2. /\ Filled("sender")' = {coded} /\ Filled("encoder")' = Filled("encoder")
        /\ \A t \in Stages : Queued(t)' = Queued(t) /\ (QueueAscends(t))'
        /\ hand' = hand /\ svc' = svc
        /\ \A t \in Stages : hand[t] # Null => data'[hand[t]] = data[hand[t]]
    BY <1>1, <2>1, TakeEffect
  <2>3. Coding' = coding
    BY <1>1, <1>2, <2>1 DEF Coding
  <2>4. AtSender' = AtSender /\ InCodec' = InCodec /\ CodingAscends'
    BY <1>4, <2>2, <2>3
  <2>5. \A g \in PutOut : coded <= g
    <3>1. coded \in Nat
      BY OrderFacts, EncodeAssumption DEF TypeOK, Frames
    <3> QED
      BY <1>3, <3>1
  <2>6. Advanced(Line, Line', 4, coded)
    BY <1>1, <1>3, <2>2, <2>4, <2>5, LineAtBoth, PlacesAre DEF Advanced
  <2> QED
    BY <1>2, <2>2, <2>4, <2>6 DEF Advances, InOrderAgain
<1>6. CASE PutNal
  <2>1. PutBuffer("sender") /\ nals' = nals - 1
    BY <1>6 DEF PutNal
  <2>2. /\ Filled("sender")' = {} /\ Filled("encoder")' = Filled("encoder")
        /\ Queued("encoder")' = Queued("encoder")
        /\ \A t \in Stages : (QueueAscends(t))'
        /\ hand' = hand /\ data' = data
    BY <1>1, <2>1, PutEffect
  <2>3. PICK f \in Filled("sender") : /\ \A g \in Filled("sender") : f <= g
                                      /\ Queued("sender")' \subseteq Queued("sender") \cup {f}
    BY <1>1, <2>1, PutEffect
  <2>4. svc'["sender"] = svc["sender"] /\ (nals' = 0 => svc'["encoder"] = "done")
    BY <1>1, <1>2, <1>6 DEF PutNal, Finish, TaskTypeOK
  <2>5. Coding' = coding
    BY <1>2, <2>1, <2>4 DEF Coding
  <2>6. AtSender' = AtSender /\ InCodec' = InCodec /\ CodingAscends'
    BY <1>4, <2>2, <2>4, <2>5
  <2>7. Advanced(Line, Line', 3, f)
    BY <1>1, <1>3, <2>2, <2>3, <2>6, LineAtBoth, PlacesAre DEF Advanced
  <2> QED
    BY <1>2, <2>2, <2>6, <2>7 DEF Advances, InOrderAgain
<1> QED
  BY <1>5, <1>6

\* The sender sends the first frame of the line.
LEMMA SendOrdered ==
  ASSUME OrderInv, Send
  PROVE  InOrderAgain
<1>1. /\ "encoder" \in Stages /\ "sender" \in Stages /\ Stages = {"encoder", "sender"}
      /\ TaskTypeOK(Stages, Bufs, Frames)
      /\ \A s \in Stages : svc[s] = "busy" => hand[s] # Null
      /\ CodingAscends /\ \A t \in Stages : QueueAscends(t)
  BY OrderFacts DEF OrderInv, LineInv
<1>2. /\ UNCHANGED <<captured, coding, coded, nals, queue, fill, hand, data>>
      /\ svc["sender"] = "busy" /\ svc'["sender"] = "done" /\ svc'["encoder"] = svc["encoder"]
      /\ sent' = data[hand["sender"]]
  BY <1>1 DEF Send, Finish, TaskTypeOK, captureVars, codecVars
<1>3. sent' \in AtSender /\ AtSender' = {} /\ PutOut' = PutOut
  BY <1>1, <1>2 DEF AtSender, PutOut, FramesIn, Held
<1>4. \A t \in Stages : Queued(t)' = Queued(t) /\ Filled(t)' = Filled(t) /\ (QueueAscends(t))'
  BY <1>1, <1>2 DEF Queued, Filled, FramesIn, QueueAscends
<1>5. Coding' = Coding
  BY <1>2 DEF Coding
<1>6. InCodec' = InCodec /\ CodingAscends'
  BY <1>1, <1>5 DEF InCodec, CodingAscends
<1>7. Sends
  BY <1>1, <1>2, <1>3, <1>4, <1>6, LineAtBoth, PlacesAre DEF Sends
<1> QED
  BY <1>4, <1>6, <1>7 DEF InOrderAgain
-----------------------------------------------------------------------------
LEMMA StepInOrder ==
  ASSUME OrderInv, [Next]_vars
  PROVE  InOrderAgain
<1>1. "encoder" \in Stages /\ "sender" \in Stages
  BY DEF Stages
<1> QED
  BY <1>1, QuietStep, CaptureStepOrdered, GetqOrdered, CodecOrdered, NalOrdered, SendOrdered
     DEF Next, Capture, Encoder, SenderTask, Svc

\* What was sent last never grows past what is still on its way.
LEMMA OrderStep ==
  ASSUME OrderInv, [Next]_vars
  PROVE  OrderInv' /\ sent' >= sent
<1>1. EncodeInv'
  BY TypeStep, ControlStep, BufferStep DEF OrderInv, EncodeInv, Control
<1>2. /\ Ordered(Line, sent, captured) /\ sent <= captured
      /\ sent \in Nat /\ captured \in Nat
  BY OrderFacts
<1>3. InOrderAgain
  BY StepInOrder
<1>4. Ordered(Line', sent', captured') /\ sent <= sent' /\ sent' <= captured'
  <2>1. CASE Shrinks
    BY <1>2, <2>1, ShrunkOrdered DEF Shrinks
  <2>2. CASE Advances
    BY <1>2, <2>2, AdvancedOrdered DEF Advances
  <2>3. CASE Arrives
    BY <1>2, <2>3, ArrivedOrdered DEF Arrives
  <2>4. CASE Sends
    <3>1. PICK f \in Line[1] : sent' = f
      BY <2>4 DEF Sends
    <3>2. f <= captured
      BY <1>2, PlacesAre DEF Ordered
    <3> QED
      BY <1>2, <2>4, <3>1, <3>2, SentOrdered DEF Sends
  <2> QED
    BY <1>3, <2>1, <2>2, <2>3, <2>4 DEF InOrderAgain
<1>5. (\A s \in Stages : QueueAscends(s))' /\ CodingAscends'
  BY <1>3 DEF InOrderAgain
<1>6. LineInv'
  BY <1>4, <1>5 DEF LineInv
<1>7. sent' >= sent
  BY <1>4
<1> QED
  BY <1>1, <1>6, <1>7 DEF OrderInv

LEMMA OrderInit == Init => OrderInv
<1> SUFFICES ASSUME Init PROVE OrderInv
  OBVIOUS
<1>1. EncodeInv
  BY InitInv
<1>2. /\ sent = 0 /\ captured = 0 /\ nals = 0 /\ coding = <<>>
      /\ "encoder" \in Stages /\ "sender" \in Stages
      /\ \A s \in Stages : queue[s] = <<>> /\ fill[s] = Null /\ svc[s] = "down"
  BY DEF Init, TaskInit, Stages, Pool
<1>3. \A s \in Stages : Queued(s) = {} /\ Filled(s) = {}
  BY <1>2 DEF Queued, Filled, FramesIn, BufsIn, Held
<1>4. Coding = <<>> /\ AtSender = {} /\ PutOut = {}
  BY <1>2 DEF Coding, AtSender, PutOut
<1>5. InCodec = {} /\ CodingAscends
  BY <1>4 DEF InCodec, CodingAscends
<1>6. \A k \in Places : Line[k] = {}
  BY <1>2, <1>3, <1>4, <1>5, LineAtBoth, PlacesAre
<1>7. Ordered(Line, sent, captured) /\ sent <= captured
  BY <1>2, <1>6 DEF Ordered
<1>8. \A s \in Stages : QueueAscends(s)
  BY <1>2 DEF QueueAscends
<1> QED
  BY <1>1, <1>5, <1>7, <1>8 DEF OrderInv, LineInv

\* NALs are sent in the order the camera delivered their frames, over any number
\* of restarts, whatever a stop left queued and whatever is dropped.
THEOREM EncodeSentInFrameOrder == Spec => SentInFrameOrder
<1>1. OrderInv /\ [Next]_vars => OrderInv'
  BY OrderStep
<1>2. OrderInv /\ [Next]_vars => [sent' >= sent]_vars
  BY OrderStep
<1> QED
  BY OrderInit, <1>1, <1>2, PTL DEF Spec, SentInFrameOrder
=============================================================================
