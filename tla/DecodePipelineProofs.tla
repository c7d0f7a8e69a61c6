------------------------ MODULE DecodePipelineProofs ------------------------
(***************************************************************************)
(* DecodePipeline is safe for every size of the two pools, any number of   *)
(* frames and any sequence of starts and stops: type correctness, no       *)
(* buffer of either pool is ever lost or shared, and frames are shown in   *)
(* the order of their arrival.                                             *)
(***************************************************************************)
EXTENDS DecodePipeline, TaskStagesProofs

\* What is known of the threads at each step of video_decode_start and
\* video_decode_stop: when the GUI comes to the queue of a task, the thread
\* upstream of it is gone; when it comes to spawn a thread, the queue
\* downstream of it is activated.
GuiPosition ==
  /\ gui \in {"putq", "deactivate", "wait"} \X Stages => recv = "down"
  /\ gui \in {"putq", "deactivate", "wait"} \X {"render"} => svc["decoder"] = "down"
  /\ gui \in {<<"start", "decoder">>, <<"start", "recv">>} => qstate["render"] = "activated"
  /\ gui = <<"start", "recv">> => qstate["decoder"] = "activated"

AllHeld == \A s \in Stages : HandHeld(s)

ControlInv ==
  /\ TypeOK
  /\ AllHeld
  /\ GuiPosition
  /\ ProducersFindQueueOpen
  /\ StopJoinsEveryThread

DecodeInv == ControlInv /\ BuffersInPlace
-----------------------------------------------------------------------------
\* The steps of the code keep every variable in its type.
LEMMA TypeStep ==
  ASSUME ControlInv, [Next]_vars
  PROVE  TypeOK'
<1> USE DecodeAssumption
        DEF ControlInv, TypeOK, TaskTypeOK, Frames, Bufs, Stages, Idle, QueueState
<1>1. CASE ClickStart
  BY <1>1 DEF ClickStart, GuiStep, StartTask, recvVars, taskVars
<1>2. CASE StartDecoder
  BY <1>2 DEF StartDecoder, GuiStep, StartTask, recvVars, taskVars
<1>3. CASE StartDecoderFails
  BY <1>3 DEF StartDecoderFails, GuiStep, recvVars, taskVars
<1>4. CASE StartRecv
  BY <1>4 DEF StartRecv, GuiStep, Overtaken, recvVars, taskVars
<1>5. CASE ClickStop
  BY <1>5 DEF ClickStop, GuiStep, recvVars, taskVars
<1>6. CASE WaitRecv
  BY <1>6 DEF WaitRecv, GuiStep, recvVars, taskVars
<1>7. CASE RecvNalu
  BY <1>7 DEF RecvNalu, Readable, recvVars, taskVars
<1>8. CASE RecvOther
  BY <1>8 DEF RecvOther, Readable, recvVars, taskVars
<1>9. CASE RecvFails
  BY <1>9 DEF RecvFails, recvVars, taskVars
<1>10. CASE RecvCloses
  BY <1>10 DEF RecvCloses, recvVars, taskVars
<1>11. CASE MallocNalu
  BY <1>11 DEF MallocNalu, TakeBuffer, recvVars, taskVars
<1>12. CASE PutNalu
  BY <1>12 DEF PutNalu, PutBuffer, Putq, recvVars, taskVars
<1>13. CASE DecodeNothing
  BY <1>13 DEF DecodeNothing, OwnStep, Finish, recvVars, taskVars
<1>14. CASE MallocYuv
  BY <1>14 DEF MallocYuv, OwnStep, TakeBuffer, AllHeld, HandHeld, recvVars, taskVars
<1>15. CASE PutYuv
  BY <1>15 DEF PutYuv, OwnStep, PutBuffer, Finish, Putq, recvVars, taskVars
<1>16. CASE Show
  BY <1>16 DEF Show, Finish, AllHeld, HandHeld, recvVars, taskVars
<1>17. ASSUME NEW s \in Stages, PutNull(s)
      PROVE  TypeOK'
  <2>1. queue' \in [Stages -> Seq(Bufs \cup {Null})]
    BY <1>17 DEF PutNull, PutClose, Putq
  <2> QED
    BY <1>17, <2>1 DEF PutNull, GuiStep, PutClose, recvVars, taskVars
<1>18. ASSUME NEW s \in Stages, DeactivateQueue(s)
      PROVE  TypeOK'
  BY <1>18 DEF DeactivateQueue, GuiStep, Deactivate, recvVars, taskVars
<1>19. ASSUME NEW s \in Stages, WaitTask(s)
      PROVE  TypeOK'
  BY <1>19 DEF WaitTask, GuiStep, recvVars, taskVars
<1>20. ASSUME NEW s \in Stages, Getq(s)
      PROVE  TypeOK'
  BY <1>20 DEF Getq, OwnStep, GetMessage, CanGetq, recvVars, taskVars
<1>21. ASSUME NEW s \in Stages, GetqClosed(s)
      PROVE  TypeOK'
  BY <1>21 DEF GetqClosed, OwnStep, GetFails, recvVars, taskVars
<1>22. ASSUME NEW s \in Stages, FreeBuf(s)
      PROVE  TypeOK'
  BY <1>22 DEF FreeBuf, OwnStep, GiveBack, AllHeld, HandHeld, recvVars, taskVars
<1>23. CASE UNCHANGED vars
  BY <1>23 DEF vars, recvVars, taskVars
<1> QED
  BY <1>1, <1>2, <1>3, <1>4, <1>5, <1>6, <1>7, <1>8, <1>9, <1>10, <1>11,
     <1>12, <1>13, <1>14, <1>15, <1>16, <1>17, <1>18, <1>19,
     <1>20, <1>21, <1>22, <1>23
     DEF Next, Gui, Recv, Decoder, Render, Svc

\* The GUI's order of starting and stopping keeps the control invariant.
LEMMA ControlStep ==
  ASSUME ControlInv, [Next]_vars
  PROVE  (AllHeld /\ GuiPosition /\ ProducersFindQueueOpen /\ StopJoinsEveryThread)'
<1> USE DEF ControlInv, TypeOK, TaskTypeOK, AllHeld, HandHeld, GuiPosition,
            ProducersFindQueueOpen, StopJoinsEveryThread, Stages, Idle, QueueState
<1> DEFINE Goal == (AllHeld /\ GuiPosition /\ ProducersFindQueueOpen
                    /\ StopJoinsEveryThread)'
<1>1. CASE ClickStart
  BY <1>1 DEF ClickStart, GuiStep, StartTask, recvVars, taskVars
<1>2. CASE StartDecoder
  BY <1>2 DEF StartDecoder, GuiStep, StartTask, recvVars, taskVars
<1>3. CASE StartDecoderFails
  BY <1>3 DEF StartDecoderFails, GuiStep, recvVars, taskVars
<1>4. CASE StartRecv
  BY <1>4 DEF StartRecv, GuiStep, Overtaken, recvVars, taskVars
<1>5. CASE ClickStop
  BY <1>5 DEF ClickStop, GuiStep, recvVars, taskVars
<1>6. CASE WaitRecv
  BY <1>6 DEF WaitRecv, GuiStep, recvVars, taskVars
<1>7. CASE RecvNalu
  BY <1>7 DEF RecvNalu, Readable, recvVars, taskVars
<1>8. CASE RecvOther
  BY <1>8 DEF RecvOther, Readable, recvVars, taskVars
<1>9. CASE RecvFails
  BY <1>9 DEF RecvFails, recvVars, taskVars
<1>10. CASE RecvCloses
  BY <1>10 DEF RecvCloses, recvVars, taskVars
<1>11. CASE MallocNalu
  BY <1>11 DEF MallocNalu, TakeBuffer, recvVars, taskVars
<1>12. CASE PutNalu
  BY <1>12 DEF PutNalu, PutBuffer, recvVars, taskVars
<1>13. CASE DecodeNothing
  BY <1>13 DEF DecodeNothing, OwnStep, Finish, recvVars, taskVars
<1>14. CASE MallocYuv
  BY <1>14 DEF MallocYuv, OwnStep, TakeBuffer, recvVars, taskVars
<1>15. CASE PutYuv
  BY <1>15 DEF PutYuv, OwnStep, PutBuffer, Finish, recvVars, taskVars
<1>16. CASE Show
  BY <1>16 DEF Show, Finish, recvVars, taskVars
<1>17. ASSUME NEW s \in Stages, PutNull(s)
      PROVE  Goal
  BY <1>17 DEF PutNull, GuiStep, PutClose, recvVars, taskVars
<1>18. ASSUME NEW s \in Stages, DeactivateQueue(s)
      PROVE  Goal
  BY <1>18 DEF DeactivateQueue, GuiStep, Deactivate, recvVars, taskVars
<1>19. ASSUME NEW s \in Stages, WaitTask(s)
      PROVE  Goal
  BY <1>19 DEF WaitTask, GuiStep, recvVars, taskVars
<1>20. ASSUME NEW s \in Stages, Getq(s)
      PROVE  Goal
  BY <1>20 DEF Getq, OwnStep, GetMessage, CanGetq, recvVars, taskVars
<1>21. ASSUME NEW s \in Stages, GetqClosed(s)
      PROVE  Goal
  BY <1>21 DEF GetqClosed, OwnStep, GetFails, recvVars, taskVars
<1>22. ASSUME NEW s \in Stages, FreeBuf(s)
      PROVE  Goal
  BY <1>22 DEF FreeBuf, OwnStep, GiveBack, recvVars, taskVars
<1>23. CASE UNCHANGED vars
  BY <1>23 DEF vars, recvVars, taskVars
<1> QED
  BY <1>1, <1>2, <1>3, <1>4, <1>5, <1>6, <1>7, <1>8, <1>9, <1>10, <1>11,
     <1>12, <1>13, <1>14, <1>15, <1>16, <1>17, <1>18, <1>19,
     <1>20, <1>21, <1>22, <1>23
     DEF Next, Gui, Recv, Decoder, Render, Svc
-----------------------------------------------------------------------------
\* Every step keeps every buffer in one place, and loses none: a thread that
\* puts to a queue finds it activated, which is where the order of
\* video_decode_stop is needed.
LEMMA BufferStep ==
  ASSUME ControlInv, BuffersInPlace, [Next]_vars
  PROVE  BuffersInPlace'
<1> DEFINE Account == AllAccounted(Stages, Pool)
           NoneLost == \A s \in Stages : lost[s] = {}
<1>1. /\ BuffersInPlace <=> Account /\ NoneLost
      /\ BuffersInPlace' <=> Account' /\ NoneLost'
  BY DEF BuffersInPlace, AllAccounted, Pool
<1>2. /\ TaskTypeOK(Stages, Bufs, Frames) /\ Null \notin Bufs
      /\ \A s \in Stages : HandHeld(s)
      /\ "decoder" \in Stages /\ "render" \in Stages
  BY DecodeAssumption DEF ControlInv, TypeOK, AllHeld, Bufs, Stages
<1>3. Account /\ NoneLost
  BY <1>1
<1>4. Account'
  <2> HIDE DEF NoneLost
  <2>1. CASE MallocNalu
    BY <1>2, <1>3, <2>1, TakeBufferStep DEF MallocNalu
  <2>2. CASE MallocYuv
    BY <1>2, <1>3, <2>2, TakeBufferStep DEF MallocYuv
  <2>3. CASE PutNalu
    BY <1>2, <1>3, <2>3, PutBufferStep DEF PutNalu
  <2>4. CASE PutYuv
    BY <1>2, <1>3, <2>4, PutBufferStep DEF PutYuv
  <2>5. ASSUME NEW s \in Stages, PutNull(s) PROVE Account'
    BY <1>2, <1>3, <2>5, PutCloseStep DEF PutNull
  <2>6. ASSUME NEW s \in Stages, Getq(s) PROVE Account'
    BY <1>2, <1>3, <2>6, GetMessageStep DEF Getq
  <2>7. ASSUME NEW s \in Stages, FreeBuf(s) PROVE Account'
    BY <1>2, <1>3, <2>7, GiveBackStep DEF FreeBuf
  <2>8. CASE UNCHANGED <<queue, free, fill, hand, lost>>
    BY <1>3, <2>8, AccountUnchanged
  <2>9. CASE \/ ClickStart \/ StartDecoder \/ StartDecoderFails \/ StartRecv
             \/ ClickStop \/ WaitRecv \/ RecvNalu \/ RecvOther \/ RecvFails
             \/ RecvCloses \/ DecodeNothing \/ Show
    BY <2>8, <2>9 DEF ClickStart, StartTask, StartDecoder, StartDecoderFails,
       StartRecv, ClickStop, WaitRecv, RecvNalu, RecvOther, RecvFails, RecvCloses,
       DecodeNothing, Show, taskVars
  <2>10. ASSUME NEW s \in Stages, DeactivateQueue(s) \/ WaitTask(s) \/ GetqClosed(s)
         PROVE  Account'
    BY <2>8, <2>10 DEF DeactivateQueue, Deactivate, WaitTask, GetqClosed, GetFails,
       taskVars
  <2>11. CASE UNCHANGED vars
    BY <2>8, <2>11 DEF vars, taskVars
  <2> QED
    BY <2>1, <2>2, <2>3, <2>4, <2>5, <2>6, <2>7, <2>9, <2>10, <2>11
       DEF Next, Gui, Recv, Decoder, Render, Svc, Stages
<1>5. lost' = lost
  <2>1. lost \in [Stages -> SUBSET Bufs]
    BY <1>2 DEF TaskTypeOK
  <2>2. CASE PutNalu
    <3>1. qstate["decoder"] = "activated"
      BY <2>2 DEF PutNalu, ControlInv, ProducersFindQueueOpen
    <3> QED
      BY <2>1, <2>2, <3>1 DEF PutNalu, PutBuffer
  <2>3. CASE PutYuv
    <3>1. qstate["render"] = "activated"
      BY <2>3 DEF PutYuv, Finish, ControlInv, ProducersFindQueueOpen
    <3> QED
      BY <2>1, <2>3, <3>1 DEF PutYuv, PutBuffer
  <2>4. CASE \/ ClickStart \/ StartDecoder \/ StartDecoderFails \/ StartRecv
             \/ ClickStop \/ WaitRecv \/ RecvNalu \/ RecvOther \/ RecvFails
             \/ RecvCloses \/ MallocNalu \/ DecodeNothing \/ MallocYuv
             \/ Show
    BY <2>4 DEF ClickStart, StartTask, StartDecoder, StartDecoderFails, StartRecv,
       ClickStop, WaitRecv, RecvNalu, RecvOther, RecvFails, RecvCloses, MallocNalu,
       DecodeNothing, MallocYuv, TakeBuffer, Show, taskVars
  <2>5. ASSUME NEW s \in Stages,
               \/ PutNull(s) \/ DeactivateQueue(s) \/ WaitTask(s)
               \/ Getq(s) \/ GetqClosed(s) \/ FreeBuf(s)
        PROVE  lost' = lost
    BY <2>5 DEF PutNull, PutClose, DeactivateQueue, Deactivate, WaitTask, Getq,
       GetMessage, GetqClosed, GetFails, FreeBuf, GiveBack, taskVars
  <2>6. CASE UNCHANGED vars
    BY <2>6 DEF vars, taskVars
  <2> QED
    BY <2>2, <2>3, <2>4, <2>5, <2>6 DEF Next, Gui, Recv, Decoder, Render, Svc, Stages
<1> QED
  BY <1>1, <1>3, <1>4, <1>5
-----------------------------------------------------------------------------
\* The pipeline starts with every buffer free and no thread.
LEMMA InitInv == Init => DecodeInv
<1> SUFFICES ASSUME Init PROVE DecodeInv
  OBVIOUS
<1> USE DecodeAssumption DEF Init, TaskInit, Stages, Bufs, Pool, Idle, QueueState
<1>1. TypeOK
  <2>1. TaskTypeOK(Stages, Bufs, Frames)
    <3>1. <<>> \in Seq(Bufs \cup {Null})
      OBVIOUS
    <3>2. free \in [Stages -> SUBSET Bufs]
      OBVIOUS
    <3>3. queue \in [Stages -> Seq(Bufs \cup {Null})]
      BY <3>1
    <3>4. /\ svc \in [Stages -> {"down", "getq", "busy", "done"}]
          /\ qstate \in [Stages -> QueueState]
          /\ fill \in [Stages -> Bufs \cup {Null}]
          /\ hand \in [Stages -> Bufs \cup {Null}]
          /\ lost \in [Stages -> SUBSET Bufs]
          /\ data \in [Bufs -> Frames]
      BY DEF Frames
    <3> QED
      BY ONLY <3>2, <3>3, <3>4 DEF TaskTypeOK
  <2>2. /\ gui \in {Idle, <<"start", "recv">>, <<"wait", "recv">>}
                  \cup ({"start", "putq", "deactivate", "wait"} \X Stages)
    OBVIOUS
  <2>3. codec \in BOOLEAN /\ sock \in BOOLEAN
    OBVIOUS
  <2>4. /\ recv \in {"down", "recvfrom", "callback", "failed"}
        /\ recvOn \in {"current", "leaked"}
        /\ nalu \in Frames /\ arrived \in Frames /\ shown \in Frames
    BY DEF Frames
  <2> QED
    BY ONLY <2>1, <2>2, <2>3, <2>4 DEF TypeOK
<1>2. AllHeld /\ GuiPosition /\ ProducersFindQueueOpen /\ StopJoinsEveryThread
  BY DEF AllHeld, HandHeld, GuiPosition, ProducersFindQueueOpen, StopJoinsEveryThread
<1>3. BuffersInPlace
  <2>1. TaskInit(Pool, Bufs) /\ DOMAIN Pool = Stages
    BY DEF TaskInit
  <2>2. AllAccounted(Stages, Pool)
    BY ONLY <2>1, TaskInitAccounted
  <2>3. \A s \in Stages : lost[s] = {}
    OBVIOUS
  <2> QED
    BY <2>2, <2>3 DEF BuffersInPlace, AllAccounted
<1> QED
  BY <1>1, <1>2, <1>3 DEF DecodeInv, ControlInv

\* The inductive invariant holds of every behaviour.
LEMMA DecodeInvariant == Spec => []DecodeInv
<1>1. DecodeInv /\ [Next]_vars => DecodeInv'
  BY TypeStep, ControlStep, BufferStep DEF DecodeInv, ControlInv
<1> QED
  BY InitInv, <1>1, PTL DEF Spec

\* Every variable stays in its type.
THEOREM DecodeTypeCorrect == Spec => []TypeOK
<1>1. DecodeInv => TypeOK
  BY DEF DecodeInv, ControlInv
<1> QED
  BY DecodeInvariant, <1>1, PTL

\* A queue of the pipeline never holds two messages, as putq waits.
LEMMA QueueOfOneStep ==
  ASSUME ControlInv, QueuesOfOne(Stages), [Next]_vars
  PROVE  QueuesOfOne(Stages)'
<1>1. /\ TaskTypeOK(Stages, Bufs, Frames)
      /\ "decoder" \in Stages /\ "render" \in Stages
  BY DEF ControlInv, TypeOK, Stages
<1>2. CASE UNCHANGED queue
  BY <1>2 DEF QueuesOfOne
<1>3. CASE PutNalu \/ PutYuv
  BY <1>1, <1>3, OneMessageStep DEF PutNalu, PutYuv
<1>4. ASSUME NEW s \in Stages, PutNull(s) \/ Getq(s) PROVE QueuesOfOne(Stages)'
  BY <1>1, <1>4, OneMessageStep DEF PutNull, Getq
<1>5. CASE \/ ClickStart \/ StartDecoder \/ StartDecoderFails \/ StartRecv
           \/ ClickStop \/ WaitRecv \/ RecvNalu \/ RecvOther \/ RecvFails
           \/ RecvCloses \/ MallocNalu \/ DecodeNothing \/ MallocYuv \/ Show
  BY <1>2, <1>5 DEF ClickStart, StartTask, StartDecoder, StartDecoderFails, StartRecv,
     ClickStop, WaitRecv, RecvNalu, RecvOther, RecvFails, RecvCloses, MallocNalu,
     DecodeNothing, MallocYuv, TakeBuffer, Show, taskVars
<1>6. ASSUME NEW s \in Stages,
             DeactivateQueue(s) \/ WaitTask(s) \/ GetqClosed(s) \/ FreeBuf(s)
      PROVE  QueuesOfOne(Stages)'
  BY <1>2, <1>6 DEF DeactivateQueue, Deactivate, WaitTask, GetqClosed, GetFails, FreeBuf,
     GiveBack, taskVars
<1>7. CASE UNCHANGED vars
  BY <1>2, <1>7 DEF vars, taskVars
<1> QED
  BY <1>3, <1>4, <1>5, <1>6, <1>7 DEF Next, Gui, Recv, Decoder, Render, Svc, Stages

\* operator() of the decoder and of the renderer find a buffer whenever they call
\* malloc: eight are more than enough, and three would be.
THEOREM DecodeMallocFindsBuffer == Spec => []MallocFindsBuffer
<1>1. Init => QueuesOfOne(Stages)
  BY DEF Init, TaskInit, Pool, QueuesOfOne
<1>2. QueuesOfOne(Stages) /\ DecodeInv /\ [Next]_vars => QueuesOfOne(Stages)'
  BY QueueOfOneStep DEF DecodeInv
<1>3. DecodeInv /\ QueuesOfOne(Stages) => MallocFindsBuffer
  <2> SUFFICES ASSUME DecodeInv, QueuesOfOne(Stages), NEW s \in Stages
               PROVE  ~PoolExhausted(s)
    BY DEF MallocFindsBuffer
  <2>1. /\ queue[s] \in Seq(Bufs \cup {Null}) /\ Len(queue[s]) <= 1
        /\ StageAccounted(s, Pool[s]) /\ lost[s] = {}
    BY DEF DecodeInv, ControlInv, TypeOK, TaskTypeOK, BuffersInPlace, QueuesOfOne
  <2>2. AtLeastThree(Pool[s])
    BY DecodeAssumption DEF Pool, Stages
  <2> QED
    BY <2>1, <2>2, MallocFindsOne
<1> QED
  BY DecodeInvariant, <1>1, <1>2, <1>3, PTL DEF Spec

\* Across any number of starts and stops, pressed in any order, no buffer of
\* either pool is lost, handed out twice or shared by producer and consumer, and
\* malloc finds one.
THEOREM DecodeBuffersAccounted == Spec => []BuffersAccounted
<1>1. DecodeInv /\ MallocFindsBuffer => BuffersAccounted
  BY DEF DecodeInv, BuffersAccounted
<1> QED
  BY DecodeInvariant, DecodeMallocFindsBuffer, <1>1, PTL

\* A thread that may still call putq finds the queue activated.
THEOREM DecodeProducersFindQueueOpen == Spec => []ProducersFindQueueOpen
<1>1. DecodeInv => ProducersFindQueueOpen
  BY DEF DecodeInv, ControlInv
<1> QED
  BY DecodeInvariant, <1>1, PTL

\* When video_decode_stop has returned, no thread of the pipeline is left.
THEOREM DecodeStopJoinsEveryThread == Spec => []StopJoinsEveryThread
<1>1. DecodeInv => StopJoinsEveryThread
  BY DEF DecodeInv, ControlInv
<1> QED
  BY DecodeInvariant, <1>1, PTL
-----------------------------------------------------------------------------
(* The order of frames.  A frame passes seven places on its way to the     *)
(* widget; a step moves it to the next one, drops it, or shows it.         *)

Places == 1..7

\* A line of sets of frames, the place next to the widget first: frames ascend
\* along it, between what was shown last and what arrived last.
Ordered(line, lo, hi) ==
  /\ lo \in Nat /\ hi \in Nat /\ lo <= hi
  /\ \A k \in Places : \A f \in line[k] : f \in Nat /\ lo < f /\ f <= hi
  /\ \A j, k \in Places : j < k => \A f \in line[j], g \in line[k] : f < g

InLine(line) == UNION {line[k] : k \in Places}

\* Frame f goes on from place i, or leaves the line there.
Advanced(line, line2, i, f) ==
  /\ i \in 2..7 /\ f \in line[i] /\ \A g \in line[i] : f <= g
  /\ line2[i] = line[i] \ {f} /\ line2[i - 1] = line[i - 1] \cup {f}
  /\ \A k \in Places \ {i, i - 1} : line2[k] = line[k]
Left(line, line2, i, f) ==
  /\ i \in Places /\ f \in line[i]
  /\ line2[i] = line[i] \ {f}
  /\ \A k \in Places \ {i} : line2[k] = line[k]

LEMMA AdvancedOrdered ==
  ASSUME NEW line, NEW line2, NEW lo, NEW hi, NEW i, NEW f,
         Ordered(line, lo, hi), Advanced(line, line2, i, f)
  PROVE  Ordered(line2, lo, hi) /\ InLine(line2) = InLine(line)
<1> USE DEF Advanced, Places
<1>1. i \in 1..7 /\ i - 1 \in 1..7 /\ i - 1 < i /\ i - 1 # i
  OBVIOUS
<1>2. \A k \in 1..7 : \A g \in line2[k] : g \in line[k] \/ (k = i - 1 /\ g = f)
  BY <1>1
<1>3. \A k \in 1..7 : f \in line2[k] => k = i - 1
  BY <1>1 DEF Ordered
<1>4. ASSUME NEW j \in 1..7, NEW k \in 1..7, j < k, NEW g \in line2[j], NEW h \in line2[k]
      PROVE  g < h
  <2>1. CASE g # f /\ h # f
    BY <1>2, <1>4, <2>1 DEF Ordered
  <2>2. CASE g = f
    <3>1. j = i - 1 /\ h \in line[k] /\ (k = i \/ i < k) /\ h # f
      BY <1>1, <1>2, <1>3, <1>4, <2>2
    <3> QED
      BY <1>1, <2>2, <3>1 DEF Ordered
  <2>3. CASE h = f /\ g # f
    <3>1. k = i - 1 /\ g \in line[j] /\ j < i
      BY <1>1, <1>2, <1>3, <1>4, <2>3
    <3> QED
      BY <1>1, <2>3, <3>1 DEF Ordered
  <2> QED
    BY <2>1, <2>2, <2>3
<1>5. Ordered(line2, lo, hi)
  BY <1>1, <1>2, <1>4 DEF Ordered
<1>6. \A g : (\E k \in 1..7 : g \in line2[k]) <=> (\E k \in 1..7 : g \in line[k])
  BY <1>1, <1>2
<1> QED
  BY <1>5, <1>6 DEF InLine

LEMMA LeftOrdered ==
  ASSUME NEW line, NEW line2, NEW lo, NEW hi, NEW i, NEW f,
         Ordered(line, lo, hi), Left(line, line2, i, f)
  PROVE  /\ Ordered(line2, lo, hi)
         /\ f \in InLine(line) /\ InLine(line2) = InLine(line) \ {f}
<1> USE DEF Left, Places
<1>1. \A k \in 1..7 : line2[k] \subseteq line[k]
  OBVIOUS
<1>2. \A k \in 1..7 : f \notin line2[k]
  BY DEF Ordered
<1>3. \A k \in 1..7 : \A g \in line[k] : g # f => g \in line2[k]
  OBVIOUS
<1> QED
  BY <1>1, <1>2, <1>3 DEF Ordered, InLine

LEMMA FirstIsLeast ==
  ASSUME NEW line, NEW line2, NEW lo, NEW hi, NEW f,
         Ordered(line, lo, hi), Left(line, line2, 1, f), line[1] = {f}
  PROVE  Ordered(line2, f, hi) /\ lo < f /\ \A g \in InLine(line) : f <= g
<1> USE DEF Left, Places, Ordered
<1>1. \A k \in 1..7 : k = 1 \/ 1 < k
  OBVIOUS
<1>2. \A k \in 1..7 : \A g \in line[k] : f <= g /\ (k # 1 => f < g)
  BY <1>1
<1> QED
  BY <1>2 DEF InLine

LEMMA ArrivalOrdered ==
  ASSUME NEW line, NEW line2, NEW lo, NEW hi, Ordered(line, lo, hi),
         line[7] = {}, line2[7] = {hi + 1}, \A k \in Places \ {7} : line2[k] = line[k]
  PROVE  Ordered(line2, lo, hi + 1) /\ InLine(line2) = InLine(line) \cup {hi + 1}
<1> USE DEF Places, Ordered
<1>1. \A k \in 1..7 : \A g \in line2[k] : (k # 7 /\ g \in line[k]) \/ (k = 7 /\ g = hi + 1)
  OBVIOUS
<1>2. \A k \in 1..7 : k # 7 => k < 7
  OBVIOUS
<1>3. Ordered(line2, lo, hi + 1)
  BY <1>1, <1>2
<1>4. \A g : (\E k \in 1..7 : g \in line2[k]) <=> (\E k \in 1..7 : g \in line[k]) \/ g = hi + 1
  BY <1>1
<1> QED
  BY <1>3, <1>4 DEF InLine
-----------------------------------------------------------------------------
(* The line of the receiving pipeline.                                     *)

FramesIn(bufs) == {data[b] : b \in bufs}
Queued(s) == FramesIn(BufsIn(queue[s]))
Filled(s) == FramesIn(Held(fill[s]))

\* The frame a task's thread is at, until it is shown or decoded.
AtWork(s) ==
  IF svc[s] = "busy" /\ (s = "decoder" => fill["render"] = Null)
    THEN FramesIn(Held(hand[s])) ELSE {}
InCallback == IF recv = "callback" /\ fill["decoder"] = Null THEN {nalu} ELSE {}

Line == <<AtWork("render"), Queued("render"), Filled("render"),
          AtWork("decoder"), Queued("decoder"), Filled("decoder"), InCallback>>

QueueAscends(s) ==
  \A i, j \in DOMAIN queue[s] :
    i < j /\ queue[s][i] # Null /\ queue[s][j] # Null => data[queue[s][i]] < data[queue[s][j]]

\* operator() fills a buffer only within the upstream thread's callback.
CallbackPosition ==
  /\ recv = "callback" => nalu = arrived
  /\ fill["decoder"] # Null => recv = "callback"
  /\ fill["render"] # Null => svc["decoder"] = "busy"

LineInv ==
  /\ Ordered(Line, shown, arrived)
  /\ \A s \in Stages : QueueAscends(s)
  /\ CallbackPosition

OrderInv == DecodeInv /\ LineInv
-----------------------------------------------------------------------------
LEMMA PlacesAre == \A k : k \in Places <=> k \in {1, 2, 3, 4, 5, 6, 7}
BY DEF Places

\* A buffer that malloc returns holds no frame of the line.
LEMMA FreshBuffer ==
  ASSUME BuffersInPlace, NEW s \in Stages, NEW b \in free[s]
  PROVE  /\ b # Null
         /\ \A t \in Stages : b \notin BufsIn(queue[t]) /\ b # fill[t] /\ b # hand[t]
<1>1. \A t \in Stages : /\ Pool[t] = free[t] \cup BufsIn(queue[t]) \cup Out(t)
                        /\ free[t] \cap BufsIn(queue[t]) = {} /\ free[t] \cap Out(t) = {}
  BY DEF BuffersInPlace, StageAccounted, Accounted
<1>2. \A t \in Stages : t = s \/ Pool[t] \cap Pool[s] = {}
  BY DecodeAssumption DEF Pool, Stages
<1>3. b \in Pool[s] /\ b # Null
  BY <1>1, DecodeAssumption DEF Pool, Stages
<1> QED
  BY <1>1, <1>2, <1>3 DEF Out, Held

\* putq on an activated queue.
LEMMA PutEffect ==
  ASSUME DecodeInv, NEW s \in Stages, PutBuffer(s), qstate[s] = "activated"
  PROVE  /\ fill[s] # Null /\ fill'[s] = Null
         /\ queue[s] \in Seq(Bufs \cup {Null}) /\ fill[s] \in Bufs
         /\ queue'[s] = Append(queue[s], fill[s])
         /\ BufsIn(queue'[s]) = BufsIn(queue[s]) \cup {fill[s]}
         /\ \A t \in Stages \ {s} : queue'[t] = queue[t] /\ fill'[t] = fill[t]
         /\ hand' = hand /\ data' = data
<1>1. TaskTypeOK(Stages, Bufs, Frames)
  BY DEF DecodeInv, ControlInv, TypeOK
<1>2. /\ fill[s] # Null /\ fill' = [fill EXCEPT ![s] = Null]
      /\ queue' = [queue EXCEPT ![s] = Append(@, fill[s])]
      /\ hand' = hand /\ data' = data
  BY DEF PutBuffer, Putq
<1>3. /\ queue[s] \in Seq(Bufs \cup {Null}) /\ fill[s] \in Bufs \cup {Null}
      /\ queue'[s] = Append(queue[s], fill[s]) /\ fill'[s] = Null
      /\ \A t \in Stages \ {s} : queue'[t] = queue[t] /\ fill'[t] = fill[t]
  BY <1>1, <1>2 DEF TaskTypeOK
<1>4. BufsIn(Append(queue[s], fill[s])) = BufsIn(queue[s]) \cup Held(fill[s])
  BY <1>3, BufsInAppend
<1> QED
  BY <1>2, <1>3, <1>4 DEF Held

\* putq(NULL).
LEMMA PutNullEffect ==
  ASSUME DecodeInv, NEW s \in Stages, PutClose(s)
  PROVE  /\ \/ queue'[s] = queue[s]
            \/ /\ queue[s] \in Seq(Bufs \cup {Null})
               /\ queue'[s] = Append(queue[s], Null)
         /\ \A t \in Stages : BufsIn(queue'[t]) = BufsIn(queue[t])
         /\ \A t \in Stages \ {s} : queue'[t] = queue[t]
<1>1. TaskTypeOK(Stages, Bufs, Frames)
  BY DEF DecodeInv, ControlInv, TypeOK
<1>2. /\ queue[s] \in Seq(Bufs \cup {Null})
      /\ queue'[s] = queue[s] \/ queue'[s] = Append(queue[s], Null)
      /\ \A t \in Stages \ {s} : queue'[t] = queue[t]
  BY <1>1 DEF PutClose, Putq, TaskTypeOK
<1>3. BufsIn(Append(queue[s], Null)) = BufsIn(queue[s]) \cup Held(Null)
  BY <1>2, BufsInAppend
<1> QED
  BY <1>2, <1>3 DEF Held

\* getq: the first frame of the queue is the least.
LEMMA GetEffect ==
  ASSUME OrderInv, NEW s \in Stages, GetMessage(s)
  PROVE  /\ hand[s] = Null /\ hand'[s] = Head(queue[s])
         /\ queue[s] \in Seq(Bufs \cup {Null}) /\ queue[s] # <<>>
         /\ queue'[s] = Tail(queue[s])
         /\ BufsIn(queue[s]) = BufsIn(queue'[s]) \cup Held(Head(queue[s]))
         /\ \A b \in BufsIn(queue'[s]) :
              Head(queue[s]) # Null => data[Head(queue[s])] < data[b]
         /\ \A t \in Stages \ {s} : queue'[t] = queue[t] /\ hand'[t] = hand[t] /\ svc'[t] = svc[t]
         /\ svc[s] = "getq" /\ svc'[s] = IF Head(queue[s]) = Null THEN "down" ELSE "busy"
         /\ fill' = fill /\ data' = data
<1>1. TaskTypeOK(Stages, Bufs, Frames) /\ HandHeld(s) /\ QueueAscends(s)
  BY DEF OrderInv, LineInv, DecodeInv, ControlInv, TypeOK, AllHeld
<1>2. queue[s] \in Seq(Bufs \cup {Null}) /\ queue[s] # <<>> /\ svc[s] = "getq"
  BY <1>1 DEF GetMessage, CanGetq, TaskTypeOK
<1>3. NoRepeat(queue[s])
  BY DEF OrderInv, DecodeInv, BuffersInPlace, StageAccounted, Accounted
<1>4. BufsIn(queue[s]) = BufsIn(Tail(queue[s])) \cup Held(Head(queue[s]))
  BY <1>2, <1>3, TakeHead
<1>5. ASSUME NEW b \in BufsIn(Tail(queue[s])), Head(queue[s]) # Null
      PROVE  data[Head(queue[s])] < data[b]
  <2>1. PICK i \in DOMAIN Tail(queue[s]) : Tail(queue[s])[i] = b
    BY <1>5 DEF BufsIn
  <2>2. b # Null
    BY <1>5 DEF BufsIn
  <2>3. /\ 1 \in DOMAIN queue[s] /\ i + 1 \in DOMAIN queue[s] /\ 1 < i + 1
        /\ queue[s][i + 1] = b /\ queue[s][1] = Head(queue[s])
    BY <1>2, <2>1
  <2> QED
    BY <1>1, <1>5, <2>2, <2>3 DEF QueueAscends
<1>6. /\ queue'[s] = Tail(queue[s]) /\ hand'[s] = Head(queue[s])
      /\ svc'[s] = IF Head(queue[s]) = Null THEN "down" ELSE "busy"
      /\ \A t \in Stages \ {s} : queue'[t] = queue[t] /\ hand'[t] = hand[t] /\ svc'[t] = svc[t]
      /\ fill' = fill /\ data' = data
  BY <1>1 DEF GetMessage, TaskTypeOK
<1> QED
  BY <1>1, <1>2, <1>4, <1>5, <1>6 DEF HandHeld
-----------------------------------------------------------------------------
\* What a step does to the line.
Still == (\A k \in Places : Line'[k] = Line[k]) /\ UNCHANGED <<shown, arrived>>
Advances == (\E i, f : Advanced(Line, Line', i, f)) /\ UNCHANGED <<shown, arrived>>
Leaves == (\E i, f : Left(Line, Line', i, f)) /\ UNCHANGED <<shown, arrived>>
IsShown ==
  /\ \E f : Line[1] = {f} /\ Left(Line, Line', 1, f) /\ shown' = f
  /\ UNCHANGED arrived
Arrives ==
  /\ Line[7] = {} /\ Line'[7] = {arrived'} /\ \A k \in Places \ {7} : Line'[k] = Line[k]
  /\ arrived' = arrived + 1
  /\ UNCHANGED shown

\* The seven places before and after.
LEMMA LineAtBoth ==
  /\ Line[1] = AtWork("render") /\ Line[2] = Queued("render") /\ Line[3] = Filled("render")
  /\ Line[4] = AtWork("decoder") /\ Line[5] = Queued("decoder") /\ Line[6] = Filled("decoder")
  /\ Line[7] = InCallback
  /\ Line'[1] = AtWork("render")' /\ Line'[2] = Queued("render")' /\ Line'[3] = Filled("render")'
  /\ Line'[4] = AtWork("decoder")' /\ Line'[5] = Queued("decoder")'
  /\ Line'[6] = Filled("decoder")' /\ Line'[7] = InCallback'
BY DEF Line

\* A step that moves no buffer, or a NULL message only.
LEMMA StillStep ==
  ASSUME UNCHANGED <<shown, arrived, data, fill>>, InCallback' = InCallback,
         \A s \in Stages : BufsIn(queue'[s]) = BufsIn(queue[s]),
         \A s \in Stages : AtWork(s)' = AtWork(s)
  PROVE  Still
<1>1. \A s \in Stages : Queued(s)' = Queued(s) /\ Filled(s)' = Filled(s)
  BY DEF Queued, Filled, FramesIn
<1> QED
  BY <1>1, LineAtBoth, PlacesAre DEF Still, Stages

\* A step of the user: nothing moves but NULL messages.
LEMMA GuiStill ==
  ASSUME OrderInv, Gui
  PROVE  Still
<1>1. TaskTypeOK(Stages, Bufs, Frames) /\ CallbackPosition
  BY DEF OrderInv, LineInv, DecodeInv, ControlInv, TypeOK
<1>2. UNCHANGED <<shown, arrived, data, fill, hand, nalu>>
  BY DEF Gui, ClickStart, StartDecoder, StartDecoderFails, StartRecv, ClickStop, WaitRecv,
         PutNull, DeactivateQueue, WaitTask, StartTask, PutClose, Deactivate, recvVars, taskVars
<1>3. (recv = "callback") <=> (recv' = "callback")
  BY DEF Gui, ClickStart, StartDecoder, StartDecoderFails, StartRecv, ClickStop, WaitRecv,
         PutNull, DeactivateQueue, WaitTask, recvVars
<1>4. \A s \in Stages : (svc[s] = "busy") <=> (svc'[s] = "busy")
  BY <1>1 DEF Gui, ClickStart, StartDecoder, StartDecoderFails, StartRecv, ClickStop, WaitRecv,
         PutNull, DeactivateQueue, WaitTask, StartTask, PutClose, Deactivate, taskVars,
         TaskTypeOK
<1>5. \A s \in Stages : BufsIn(queue'[s]) = BufsIn(queue[s])
  <2>1. CASE \E s \in Stages : PutNull(s)
    BY <2>1, PutNullEffect DEF PutNull, OrderInv
  <2>2. CASE ~\E s \in Stages : PutNull(s)
    BY <2>2 DEF Gui, ClickStart, StartDecoder, StartDecoderFails, StartRecv, ClickStop,
           WaitRecv, DeactivateQueue, WaitTask, StartTask, Deactivate, taskVars
  <2> QED
    BY <2>1, <2>2
<1>6. \A s \in Stages : AtWork(s)' = AtWork(s)
  BY <1>2, <1>4 DEF AtWork, FramesIn
<1>7. InCallback' = InCallback
  BY <1>2, <1>3 DEF InCallback
<1> QED
  BY <1>2, <1>5, <1>6, <1>7, StillStep

\* malloc and the copy of frame f, at either stage.
LEMMA TakeEffect ==
  ASSUME DecodeInv, NEW s \in Stages, NEW f, TakeBuffer(s, f)
  PROVE  /\ fill[s] = Null /\ Filled(s) = {} /\ Filled(s)' = {f}
         /\ \A t \in Stages : Queued(t)' = Queued(t)
         /\ \A t \in Stages \ {s} : Filled(t)' = Filled(t) /\ fill'[t] = fill[t]
         /\ \A t \in Stages : FramesIn(Held(hand[t]))' = FramesIn(Held(hand[t]))
         /\ fill'[s] # Null /\ svc' = svc /\ queue' = queue
         /\ \A t \in Stages : \A b \in BufsIn(queue[t]) : data'[b] = data[b]
<1>1. TaskTypeOK(Stages, Bufs, Frames) /\ BuffersInPlace
  BY DEF DecodeInv, ControlInv, TypeOK
<1>2. PICK b \in free[s] : fill' = [fill EXCEPT ![s] = b] /\ data' = [data EXCEPT ![b] = f]
  BY DEF TakeBuffer
<1>3. /\ b # Null /\ b \in Bufs
      /\ \A t \in Stages : b \notin BufsIn(queue[t]) /\ b # fill[t] /\ b # hand[t]
  BY <1>1, FreshBuffer DEF TaskTypeOK
<1>4. /\ fill[s] = Null /\ fill'[s] = b /\ data'[b] = f
      /\ \A c : c # b => data'[c] = data[c]
      /\ \A t \in Stages \ {s} : fill'[t] = fill[t]
      /\ queue' = queue /\ hand' = hand /\ svc' = svc
  BY <1>1, <1>2, <1>3 DEF TakeBuffer, TaskTypeOK
<1>5. Filled(s) = {} /\ Filled(s)' = {f}
  BY <1>3, <1>4 DEF Filled, FramesIn, Held
<1>6. \A t \in Stages : \A c \in BufsIn(queue[t]) : data'[c] = data[c]
  BY <1>3, <1>4
<1>7. \A t \in Stages : Queued(t)' = Queued(t)
  BY <1>4, <1>6 DEF Queued, FramesIn
<1>8. \A t \in Stages \ {s} : Filled(t)' = Filled(t)
  BY <1>3, <1>4 DEF Filled, FramesIn, Held
<1>9. \A t \in Stages : FramesIn(Held(hand[t]))' = FramesIn(Held(hand[t]))
  BY <1>3, <1>4 DEF FramesIn, Held
<1> QED
  BY <1>3, <1>4, <1>5, <1>6, <1>7, <1>8, <1>9

\* The receive thread: a frame arrives, is copied, and queued.
LEMMA RecvStep ==
  ASSUME OrderInv, Recv
  PROVE  Still \/ Advances \/ Leaves \/ Arrives
<1>1. /\ TaskTypeOK(Stages, Bufs, Frames) /\ CallbackPosition /\ DecodeInv
      /\ "decoder" \in Stages /\ "render" \in Stages
  BY DEF OrderInv, LineInv, DecodeInv, ControlInv, TypeOK, Stages
<1>2. CASE RecvNalu
  <2>1. /\ UNCHANGED <<shown, taskVars>> /\ fill["decoder"] = Null
        /\ arrived' = arrived + 1 /\ InCallback = {} /\ InCallback' = {arrived'}
    BY <1>1, <1>2 DEF RecvNalu, Readable, CallbackPosition, InCallback, taskVars
  <2>2. \A s \in Stages : AtWork(s)' = AtWork(s) /\ Queued(s)' = Queued(s) /\ Filled(s)' = Filled(s)
    BY <2>1 DEF AtWork, Queued, Filled, FramesIn, taskVars
  <2> QED
    BY <1>1, <2>1, <2>2, LineAtBoth, PlacesAre DEF Arrives
<1>3. CASE RecvOther \/ RecvFails \/ RecvCloses
  <2>1. UNCHANGED <<shown, arrived, taskVars>> /\ InCallback' = InCallback
    BY <1>3 DEF RecvOther, RecvFails, RecvCloses, Readable, InCallback, taskVars
  <2>2. \A s \in Stages : AtWork(s)' = AtWork(s) /\ BufsIn(queue'[s]) = BufsIn(queue[s])
    BY <2>1 DEF AtWork, FramesIn, taskVars
  <2> QED
    BY <2>1, <2>2, StillStep DEF taskVars
<1>4. CASE MallocNalu
  <2>1. UNCHANGED <<shown, arrived, recv, nalu>> /\ TakeBuffer("decoder", nalu) /\ recv = "callback"
    BY <1>4 DEF MallocNalu, recvVars
  <2>2. /\ fill["decoder"] = Null /\ fill'["decoder"] # Null /\ fill'["render"] = fill["render"]
        /\ Filled("decoder") = {} /\ Filled("decoder")' = {nalu}
        /\ Filled("render")' = Filled("render") /\ svc' = svc
        /\ \A t \in Stages : /\ Queued(t)' = Queued(t)
                             /\ FramesIn(Held(hand[t]))' = FramesIn(Held(hand[t]))
    BY <1>1, <2>1, TakeEffect DEF Stages
  <2>3. InCallback = {nalu} /\ InCallback' = {}
    BY <2>1, <2>2 DEF InCallback
  <2>4. \A t \in Stages : AtWork(t)' = AtWork(t)
    BY <2>2 DEF AtWork
  <2>5. nalu \in Nat
    BY DecodeAssumption DEF OrderInv, DecodeInv, ControlInv, TypeOK, Frames
  <2>6. Advanced(Line, Line', 7, nalu)
    BY <1>1, <2>2, <2>3, <2>4, <2>5, LineAtBoth, PlacesAre DEF Advanced
  <2> QED
    BY <2>1, <2>6 DEF Advances
<1>5. CASE PutNalu
  <2>1. /\ UNCHANGED <<shown, arrived, svc>> /\ PutBuffer("decoder") /\ recv = "callback"
        /\ recv' = "recvfrom" /\ qstate["decoder"] = "activated"
    BY <1>1, <1>5 DEF PutNalu, DecodeInv, ControlInv,
                      ProducersFindQueueOpen
  <2>2. /\ fill["decoder"] # Null /\ fill'["decoder"] = Null
        /\ BufsIn(queue'["decoder"]) = BufsIn(queue["decoder"]) \cup {fill["decoder"]}
        /\ queue'["render"] = queue["render"] /\ fill'["render"] = fill["render"]
        /\ hand' = hand /\ data' = data
    BY <1>1, <2>1, PutEffect DEF Stages
  <2> DEFINE f == data[fill["decoder"]]
  <2>3. InCallback = {} /\ InCallback' = {}
    BY <2>1, <2>2 DEF InCallback
  <2>4. Filled("decoder") = {f} /\ Filled("decoder")' = {} /\ Filled("render")' = Filled("render")
    BY <2>2 DEF Filled, FramesIn, Held
  <2>5. Queued("decoder")' = Queued("decoder") \cup {f} /\ Queued("render")' = Queued("render")
    BY <2>2 DEF Queued, FramesIn
  <2>6. \A t \in Stages : AtWork(t)' = AtWork(t)
    BY <2>1, <2>2 DEF AtWork, FramesIn
  <2>7. f \in Nat
    BY <1>1, <2>2, DecodeAssumption DEF TaskTypeOK, Frames
  <2>8. Advanced(Line, Line', 6, f)
    BY <1>1, <2>3, <2>4, <2>5, <2>6, <2>7, LineAtBoth, PlacesAre DEF Advanced
  <2> QED
    BY <2>1, <2>8 DEF Advances
<1> QED
  BY <1>2, <1>3, <1>4, <1>5 DEF Recv

\* The thread of either task takes a message, ends, or gives a buffer back.
LEMMA SvcStep ==
  ASSUME OrderInv, NEW s \in Stages, Svc(s)
  PROVE  Still \/ Advances
<1>1. /\ TaskTypeOK(Stages, Bufs, Frames) /\ CallbackPosition /\ DecodeInv
      /\ "decoder" \in Stages /\ "render" \in Stages
      /\ UNCHANGED <<gui, codec, recv, nalu, arrived, shown>>
  BY DEF OrderInv, LineInv, DecodeInv, ControlInv, TypeOK, Stages, Svc, Getq, GetqClosed,
         FreeBuf, OwnStep, recvVars
<1>2. CASE Getq(s)
  <2> DEFINE m == Head(queue[s])
             f == data[m]
  <2>1. /\ hand'[s] = m /\ svc[s] = "getq"
        /\ svc'[s] = IF m = Null THEN "down" ELSE "busy"
        /\ BufsIn(queue[s]) = BufsIn(queue'[s]) \cup Held(m)
        /\ \A b \in BufsIn(queue'[s]) : m # Null => f < data[b]
        /\ \A t \in Stages \ {s} : queue'[t] = queue[t] /\ hand'[t] = hand[t] /\ svc'[t] = svc[t]
        /\ fill' = fill /\ data' = data
    BY <1>2, GetEffect DEF Getq
  <2>2. s = "decoder" => fill["render"] = Null
    BY <1>1, <2>1 DEF CallbackPosition
  <2>3. AtWork(s) = {} /\ AtWork(s)' = FramesIn(Held(m)) /\ InCallback' = InCallback
    BY <1>1, <2>1, <2>2 DEF AtWork, FramesIn, InCallback, Held
  <2>4. \A t \in Stages \ {s} : AtWork(t)' = AtWork(t)
    BY <2>1 DEF AtWork, FramesIn
  <2>5. CASE m = Null
    <3>1. \A t \in Stages : AtWork(t)' = AtWork(t) /\ BufsIn(queue'[t]) = BufsIn(queue[t])
      BY <2>1, <2>3, <2>4, <2>5 DEF Held, FramesIn
    <3> QED
      BY <1>1, <2>1, <2>3, <3>1, StillStep
  <2>6. CASE m # Null
    <3>1. AtWork(s)' = {f} /\ Queued(s) = Queued(s)' \cup {f} /\ f \notin Queued(s)'
      <4>1. \A b \in BufsIn(queue'[s]) : data[b] \in Nat /\ f \in Nat
        <5>1. BufsIn(queue[s]) \subseteq Bufs /\ m \in BufsIn(queue[s])
          <6>1. queue[s] \in Seq(Bufs \cup {Null})
            BY <1>1 DEF TaskTypeOK
          <6>2. \A i \in DOMAIN queue[s] : queue[s][i] \in Bufs \cup {Null}
            BY <6>1
          <6>3. BufsIn(queue[s]) \subseteq Bufs
            BY <6>2 DEF BufsIn
          <6>4. m \in BufsIn(queue[s])
            BY <2>1, <2>6 DEF Held
          <6> QED
            BY <6>3, <6>4
        <5> QED
          BY <1>1, <2>1, <5>1, DecodeAssumption DEF TaskTypeOK, Frames
      <4> QED
        BY <2>1, <2>3, <2>6, <4>1 DEF Queued, FramesIn, Held
    <3>2. \A g \in Queued(s) : f <= g
      <4>1. \A b \in BufsIn(queue[s]) : data[b] \in Nat
        BY <1>1, DecodeAssumption DEF TaskTypeOK, BufsIn, Frames
      <4>2. \A b \in BufsIn(queue[s]) : b = m \/ b \in BufsIn(queue'[s])
        BY <2>1 DEF Held
      <4> HIDE DEF m, f
      <4>3. \A b \in BufsIn(queue[s]) : data[b] = data[m] \/ f < data[b]
        BY <2>1, <2>6, <4>2
      <4>4. f = data[m] /\ m \in BufsIn(queue[s])
        BY <2>1, <2>6 DEF Held, f
      <4> QED
        BY <4>1, <4>3, <4>4 DEF Queued, FramesIn
    <3>3. \A t \in Stages : Filled(t)' = Filled(t)
      BY <2>1 DEF Filled, FramesIn
    <3>4. \A t \in Stages \ {s} : Queued(t)' = Queued(t)
      BY <2>1 DEF Queued, FramesIn
    <3>5. Advanced(Line, Line', IF s = "render" THEN 2 ELSE 5, f)
      <4> HIDE DEF f, m
      <4>1. CASE s = "render"
        BY <1>1, <2>3, <2>4, <3>1, <3>2, <3>3, <3>4, <4>1, LineAtBoth, PlacesAre
        DEF Advanced, Stages
      <4>2. CASE s = "decoder"
        BY <1>1, <2>3, <2>4, <3>1, <3>2, <3>3, <3>4, <4>2, LineAtBoth, PlacesAre
        DEF Advanced, Stages
      <4> QED
        BY <4>1, <4>2 DEF Stages
    <3> QED
      BY <1>1, <3>5 DEF Advances
  <2> QED
    BY <2>5, <2>6
<1>3. CASE GetqClosed(s) \/ FreeBuf(s)
  <2>1. /\ UNCHANGED <<queue, fill, data>>
        /\ \A t \in Stages : svc[t] = "busy" <=> svc'[t] = "busy"
        /\ \A t \in Stages : svc[t] = "busy" => hand'[t] = hand[t]
    BY <1>1, <1>3 DEF GetqClosed, GetFails, FreeBuf, GiveBack, TaskTypeOK
  <2>2. InCallback' = InCallback /\ \A t \in Stages : AtWork(t)' = AtWork(t)
    BY <1>1, <2>1 DEF InCallback, AtWork, FramesIn
  <2> QED
    BY <1>1, <2>1, <2>2, StillStep
<1> QED
  BY <1>2, <1>3 DEF Svc

\* The codec: a frame is decoded into a buffer, queued, or lost.
LEMMA CodecStep ==
  ASSUME OrderInv, DecodeNothing \/ MallocYuv \/ PutYuv
  PROVE  Still \/ Advances \/ Leaves
<1>1. /\ TaskTypeOK(Stages, Bufs, Frames) /\ CallbackPosition /\ DecodeInv
      /\ "decoder" \in Stages /\ "render" \in Stages
      /\ UNCHANGED <<recv, nalu, arrived, shown>>
  BY DEF OrderInv, LineInv, DecodeInv, ControlInv, TypeOK, Stages, DecodeNothing, MallocYuv,
         PutYuv, OwnStep, recvVars
<1> DEFINE f == data[hand["decoder"]]
<1>2. svc["decoder"] = "busy" => hand["decoder"] \in Bufs /\ hand["decoder"] # Null /\ f \in Nat
  BY <1>1, DecodeAssumption DEF DecodeInv, ControlInv, AllHeld, HandHeld, TaskTypeOK, Frames
<1>3. CASE DecodeNothing
  <2>1. /\ UNCHANGED <<queue, fill, hand, data>> /\ fill["render"] = Null
        /\ svc["decoder"] = "busy" /\ svc'["decoder"] = "done" /\ svc'["render"] = svc["render"]
    BY <1>1, <1>3 DEF DecodeNothing, Finish, TaskTypeOK
  <2>2. AtWork("decoder") = {f} /\ AtWork("decoder")' = {} /\ AtWork("render")' = AtWork("render")
    BY <1>2, <2>1 DEF AtWork, FramesIn, Held
  <2>3. /\ InCallback' = InCallback
        /\ \A t \in Stages : Queued(t)' = Queued(t) /\ Filled(t)' = Filled(t)
    BY <1>1, <2>1 DEF InCallback, Queued, Filled, FramesIn
  <2>4. Left(Line, Line', 4, f)
    BY <1>1, <2>2, <2>3, LineAtBoth, PlacesAre DEF Left
  <2> QED
    BY <1>1, <2>4 DEF Leaves
<1>4. CASE MallocYuv
  <2>1. TakeBuffer("render", f) /\ svc["decoder"] = "busy"
    BY <1>4 DEF MallocYuv
  <2>2. /\ fill["render"] = Null /\ fill'["render"] # Null /\ fill'["decoder"] = fill["decoder"]
        /\ Filled("render") = {} /\ Filled("render")' = {f}
        /\ Filled("decoder")' = Filled("decoder") /\ svc' = svc
        /\ \A t \in Stages : /\ Queued(t)' = Queued(t)
                             /\ FramesIn(Held(hand[t]))' = FramesIn(Held(hand[t]))
    BY <1>1, <2>1, TakeEffect DEF Stages
  <2>3. AtWork("decoder") = {f} /\ AtWork("decoder")' = {} /\ AtWork("render")' = AtWork("render")
    <3>1. AtWork("decoder") = {f}
      BY <1>2, <2>1, <2>2 DEF AtWork, FramesIn, Held
    <3>2. AtWork("decoder")' = {} /\ AtWork("render")' = AtWork("render")
      BY <1>1, <2>2 DEF AtWork
    <3> QED
      BY <3>1, <3>2
  <2>4. InCallback' = InCallback
    BY <1>1, <2>2 DEF InCallback
  <2>5. Advanced(Line, Line', 4, f)
    <3>1. f \in Nat
      BY <1>2, <2>1
    <3> HIDE DEF f
    <3> QED
      BY <1>1, <2>2, <2>3, <2>4, <3>1, LineAtBoth, PlacesAre DEF Advanced
  <2> QED
    BY <1>1, <2>5 DEF Advances
<1>5. CASE PutYuv
  <2>1. /\ PutBuffer("render") /\ qstate["render"] = "activated"
        /\ svc["decoder"] = "busy" /\ svc'["decoder"] = "done" /\ svc'["render"] = svc["render"]
    BY <1>1, <1>5 DEF PutYuv, Finish, TaskTypeOK, DecodeInv, ControlInv, ProducersFindQueueOpen
  <2>2. /\ fill["render"] # Null /\ fill'["render"] = Null /\ fill["render"] \in Bufs
        /\ BufsIn(queue'["render"]) = BufsIn(queue["render"]) \cup {fill["render"]}
        /\ queue'["decoder"] = queue["decoder"] /\ fill'["decoder"] = fill["decoder"]
        /\ hand' = hand /\ data' = data
    BY <1>1, <2>1, PutEffect DEF Stages
  <2> DEFINE g == data[fill["render"]]
  <2>3. Filled("render") = {g} /\ Filled("render")' = {} /\ Filled("decoder")' = Filled("decoder")
    BY <2>2 DEF Filled, FramesIn, Held
  <2>4. Queued("render")' = Queued("render") \cup {g} /\ Queued("decoder")' = Queued("decoder")
    BY <2>2 DEF Queued, FramesIn
  <2>5. /\ AtWork("decoder") = {} /\ AtWork("decoder")' = {}
        /\ AtWork("render")' = AtWork("render") /\ InCallback' = InCallback
    BY <1>1, <2>1, <2>2 DEF AtWork, FramesIn, InCallback
  <2>6. Advanced(Line, Line', 3, g)
    <3>1. g \in Nat
      BY <1>1, <2>2, DecodeAssumption DEF TaskTypeOK, Frames
    <3> HIDE DEF g
    <3> QED
      BY <1>1, <2>3, <2>4, <2>5, <3>1, LineAtBoth, PlacesAre DEF Advanced
  <2> QED
    BY <1>1, <2>6 DEF Advances
<1> QED
  BY <1>3, <1>4, <1>5

\* The renderer's thread: the first frame of the line is shown, or not.
LEMMA ShowStep ==
  ASSUME OrderInv, Show
  PROVE  Leaves \/ IsShown
<1>1. /\ TaskTypeOK(Stages, Bufs, Frames) /\ DecodeInv
      /\ "decoder" \in Stages /\ "render" \in Stages
  BY DEF OrderInv, DecodeInv, ControlInv, TypeOK, Stages
<1> DEFINE f == data[hand["render"]]
<1>2. /\ UNCHANGED <<recv, nalu, arrived, queue, fill, hand, data>>
      /\ svc["render"] = "busy" /\ svc'["render"] = "done" /\ svc'["decoder"] = svc["decoder"]
      /\ shown' = shown \/ shown' = f
  BY <1>1 DEF Show, Finish, TaskTypeOK, recvVars
<1>3. hand["render"] # Null
  BY <1>1, <1>2 DEF DecodeInv, ControlInv, AllHeld, HandHeld
<1>4. AtWork("render") = {f} /\ AtWork("render")' = {} /\ AtWork("decoder")' = AtWork("decoder")
  BY <1>2, <1>3 DEF AtWork, FramesIn, Held
<1>5. /\ InCallback' = InCallback
      /\ \A t \in Stages : Queued(t)' = Queued(t) /\ Filled(t)' = Filled(t)
  BY <1>2 DEF InCallback, Queued, Filled, FramesIn
<1>6. Left(Line, Line', 1, f)
  BY <1>1, <1>4, <1>5, LineAtBoth, PlacesAre DEF Left
<1>7. Line[1] = {f}
  BY <1>4, LineAtBoth
<1> QED
  BY <1>2, <1>6, <1>7 DEF Leaves, IsShown

\* Every step leaves the line as it is, moves one frame along it, takes one out
\* of it, or adds the next one at its end.
LEMMA LineStep ==
  ASSUME OrderInv, [Next]_vars
  PROVE  Still \/ Advances \/ Leaves \/ IsShown \/ Arrives
<1>1. CASE UNCHANGED vars
  <2>1. UNCHANGED <<shown, arrived, recv, nalu, taskVars>>
    BY <1>1 DEF vars, recvVars
  <2>2. InCallback' = InCallback
    BY <2>1 DEF InCallback, taskVars
  <2>3. \A t \in Stages : AtWork(t)' = AtWork(t) /\ BufsIn(queue'[t]) = BufsIn(queue[t])
    BY <2>1 DEF AtWork, FramesIn, taskVars
  <2> QED
    BY <2>1, <2>2, <2>3, StillStep DEF taskVars
<1>2. "decoder" \in Stages /\ "render" \in Stages
  BY DEF Stages
<1> QED
  BY <1>1, <1>2, GuiStill, RecvStep, SvcStep, CodecStep, ShowStep DEF Next, Decoder, Render
-----------------------------------------------------------------------------
\* The queues stay in order: what putq appends comes after all that is queued,
\* and malloc does not hand out a queued buffer.
LEMMA QueueStep ==
  ASSUME OrderInv, [Next]_vars, NEW s \in Stages
  PROVE  QueueAscends(s)'
<1>1. /\ TaskTypeOK(Stages, Bufs, Frames) /\ DecodeInv /\ QueueAscends(s)
      /\ "decoder" \in Stages /\ "render" \in Stages
      /\ queue[s] \in Seq(Bufs \cup {Null})
  BY DEF OrderInv, LineInv, DecodeInv, ControlInv, TypeOK, Stages, TaskTypeOK
<1>2. ASSUME queue'[s] = queue[s], \A b \in BufsIn(queue[s]) : data'[b] = data[b]
      PROVE  QueueAscends(s)'
  <2>1. \A i \in DOMAIN queue[s] : queue[s][i] # Null => data'[queue[s][i]] = data[queue[s][i]]
    BY <1>2 DEF BufsIn
  <2> QED
    BY <1>1, <1>2, <2>1 DEF QueueAscends
<1>3. ASSUME NEW t \in Stages, TakeBuffer(t, IF t = "decoder" THEN nalu ELSE data[hand["decoder"]])
      PROVE  QueueAscends(s)'
  <2>1. queue' = queue /\ \A b \in BufsIn(queue[s]) : data'[b] = data[b]
    BY <1>1, <1>3, TakeEffect
  <2> QED
    BY <1>2, <2>1
<1>4. ASSUME NEW t \in Stages, PutBuffer(t), qstate[t] = "activated"
      PROVE  QueueAscends(s)'
  <2>1. /\ fill[t] # Null /\ data' = data
        /\ queue'[t] = Append(queue[t], fill[t])
        /\ \A u \in Stages \ {t} : queue'[u] = queue[u]
    BY <1>1, <1>4, PutEffect
  <2>2. CASE s = t
    <3>1. Queued(t) = FramesIn(BufsIn(queue[t])) /\ Filled(t) = {data[fill[t]]}
      BY <2>1 DEF Queued, Filled, FramesIn, Held
    <3>2. \A f \in Queued(t), g \in Filled(t) : f < g
      <4>1. Ordered(Line, shown, arrived)
        BY DEF OrderInv, LineInv
      <4>2. /\ \A f \in Line[2], g \in Line[3] : f < g
            /\ \A f \in Line[5], g \in Line[6] : f < g
        BY <4>1 DEF Ordered, Places
      <4> QED
        BY <4>2, LineAtBoth DEF Stages
    <3>3. \A i \in DOMAIN queue[s] : queue[s][i] # Null => data[queue[s][i]] < data[fill[s]]
      BY <2>2, <3>1, <3>2 DEF BufsIn, FramesIn
    <3>4. /\ \A i \in DOMAIN queue'[s] :
               \/ i \in DOMAIN queue[s] /\ queue'[s][i] = queue[s][i]
               \/ i = Len(queue[s]) + 1 /\ queue'[s][i] = fill[s]
          /\ \A i \in DOMAIN queue[s] : i \in Nat /\ i < Len(queue[s]) + 1
          /\ Len(queue[s]) \in Nat
      BY <1>1, <2>1, <2>2
    <3> QED
      BY <1>1, <2>1, <3>3, <3>4 DEF QueueAscends
  <2>3. CASE s # t
    BY <1>2, <2>1, <2>3
  <2> QED
    BY <2>2, <2>3
<1>5. ASSUME NEW t \in Stages, PutNull(t)
      PROVE  QueueAscends(s)'
  <2>1. data' = data
    BY <1>5 DEF PutNull, PutClose
  <2>2. /\ queue'[s] = queue[s] \/ queue'[s] = Append(queue[s], Null)
    BY <1>1, <1>5, PutNullEffect DEF PutNull
  <2>3. CASE queue'[s] = Append(queue[s], Null)
    <3>1. \A i \in DOMAIN queue'[s] :
               \/ i \in DOMAIN queue[s] /\ queue'[s][i] = queue[s][i]
               \/ queue'[s][i] = Null
      BY <1>1, <2>3
    <3> QED
      BY <1>1, <2>1, <3>1 DEF QueueAscends
  <2> QED
    BY <1>2, <2>1, <2>2, <2>3
<1>6. ASSUME NEW t \in Stages, Getq(t)
      PROVE  QueueAscends(s)'
  <2>1. /\ data' = data /\ queue'[t] = Tail(queue[t]) /\ queue[t] # <<>>
        /\ \A u \in Stages \ {t} : queue'[u] = queue[u]
    BY <1>6, GetEffect DEF Getq
  <2>2. CASE s = t
    <3>1. \A i \in DOMAIN queue'[s] : i \in Nat /\ i + 1 \in DOMAIN queue[s] /\ queue'[s][i] = queue[s][i + 1]
      <4>1. \A i \in DOMAIN Tail(queue[s]) :
              i \in Nat /\ i + 1 \in DOMAIN queue[s] /\ Tail(queue[s])[i] = queue[s][i + 1]
        BY <1>1, <2>1, <2>2
      <4> QED
        BY <2>1, <2>2, <4>1
    <3> QED
      BY <1>1, <2>1, <3>1 DEF QueueAscends
  <2> QED
    BY <1>2, <2>1, <2>2
<1>7. CASE UNCHANGED <<queue, data>>
  BY <1>2, <1>7
<1>8. CASE MallocNalu \/ MallocYuv
  BY <1>1, <1>3, <1>8 DEF MallocNalu, MallocYuv
<1>9. CASE PutNalu \/ PutYuv
  <2>1. PutNalu => qstate["decoder"] = "activated"
    BY <1>1 DEF PutNalu, DecodeInv, ControlInv, ProducersFindQueueOpen
  <2>2. PutYuv => qstate["render"] = "activated"
    BY <1>1 DEF PutYuv, Finish, DecodeInv, ControlInv, ProducersFindQueueOpen
  <2> QED
    BY <1>1, <1>4, <1>9, <2>1, <2>2 DEF PutNalu, PutYuv
<1>10. CASE \/ ClickStart \/ StartDecoder \/ StartDecoderFails \/ StartRecv
            \/ ClickStop \/ WaitRecv \/ RecvNalu \/ RecvOther \/ RecvFails
            \/ RecvCloses \/ DecodeNothing \/ Show
  BY <1>7, <1>10 DEF ClickStart, StartTask, StartDecoder, StartDecoderFails, StartRecv,
     ClickStop, WaitRecv, RecvNalu, RecvOther, RecvFails, RecvCloses,
     DecodeNothing, Show, taskVars
<1>11. ASSUME NEW t \in Stages,
              DeactivateQueue(t) \/ WaitTask(t) \/ GetqClosed(t) \/ FreeBuf(t)
       PROVE  QueueAscends(s)'
  BY <1>7, <1>11 DEF DeactivateQueue, Deactivate, WaitTask, GetqClosed, GetFails, FreeBuf,
     GiveBack, taskVars
<1>12. CASE UNCHANGED vars
  BY <1>7, <1>12 DEF vars, taskVars
<1> QED
  BY <1>1, <1>5, <1>6, <1>8, <1>9, <1>10, <1>11, <1>12
     DEF Next, Gui, Recv, Decoder, Render, Svc

\* operator() of the decoder fills its buffer while the receive thread is in its
\* callback, operator() of the renderer while the decoder's thread is at work.
LEMMA CallbackStep ==
  ASSUME OrderInv, [Next]_vars
  PROVE  CallbackPosition'
<1> USE DEF CallbackPosition, TaskTypeOK, Stages
<1>1. TaskTypeOK(Stages, Bufs, Frames) /\ CallbackPosition
  BY DEF OrderInv, LineInv, DecodeInv, ControlInv, TypeOK
<1>2. CASE Gui
  BY <1>1, <1>2 DEF Gui, ClickStart, StartDecoder, StartDecoderFails, StartRecv, ClickStop,
     WaitRecv, PutNull, DeactivateQueue, WaitTask, StartTask, PutClose, Deactivate,
     recvVars, taskVars
<1>3. CASE Recv
  <2>1. CASE RecvNalu \/ RecvOther \/ RecvFails \/ RecvCloses
    BY <1>1, <2>1 DEF RecvNalu, Readable, RecvOther, RecvFails, RecvCloses,
       taskVars
  <2>2. CASE MallocNalu
    <3>1. recv = "callback" /\ recv' = recv /\ nalu' = nalu /\ arrived' = arrived /\ svc' = svc
      BY <2>2 DEF MallocNalu, TakeBuffer, recvVars
    <3>2. fill'["render"] = fill["render"]
      BY <1>1, <2>2 DEF MallocNalu, TakeBuffer
    <3> QED
      BY <1>1, <3>1, <3>2
  <2>3. CASE PutNalu
    <3>1. recv' = "recvfrom" /\ svc' = svc
      BY <2>3 DEF PutNalu
    <3>2. fill'["decoder"] = Null /\ fill'["render"] = fill["render"]
      BY <1>1, <2>3 DEF PutNalu, PutBuffer
    <3> QED
      BY <1>1, <3>1, <3>2
  <2> QED
    BY <1>3, <2>1, <2>2, <2>3 DEF Recv
<1>4. ASSUME NEW s \in Stages, Svc(s)
      PROVE  CallbackPosition'
  BY <1>1, <1>4 DEF Svc, Getq, GetMessage, GetqClosed, GetFails, FreeBuf, GiveBack, OwnStep,
     recvVars
<1>5. CASE DecodeNothing \/ MallocYuv \/ PutYuv \/ Show
  BY <1>1, <1>5 DEF DecodeNothing, MallocYuv, TakeBuffer, PutYuv, PutBuffer,
     Show, Finish, OwnStep, recvVars, taskVars
<1>6. CASE UNCHANGED vars
  BY <1>1, <1>6 DEF vars, recvVars, taskVars
<1> QED
  BY <1>2, <1>3, <1>4, <1>5, <1>6 DEF Next, Decoder, Render
-----------------------------------------------------------------------------
LEMMA OrderInit == Init => OrderInv
<1> SUFFICES ASSUME Init PROVE OrderInv
  OBVIOUS
<1>1. DecodeInv
  BY InitInv
<1>2. /\ recv = "down" /\ shown = 0 /\ arrived = 0
      /\ \A s \in Stages : queue[s] = <<>> /\ fill[s] = Null /\ svc[s] = "down"
      /\ "decoder" \in Stages /\ "render" \in Stages
  BY DEF Init, TaskInit, Stages, Pool
<1>3. \A s \in Stages : AtWork(s) = {} /\ Queued(s) = {} /\ Filled(s) = {}
  BY <1>2 DEF AtWork, Queued, Filled, FramesIn, BufsIn, Held
<1>4. InCallback = {}
  BY <1>2 DEF InCallback
<1>5. \A k \in Places : Line[k] = {}
  BY <1>2, <1>3, <1>4, LineAtBoth, PlacesAre
<1>6. Ordered(Line, shown, arrived)
  BY <1>2, <1>5 DEF Ordered
<1>7. (\A s \in Stages : QueueAscends(s)) /\ CallbackPosition
  BY <1>2 DEF QueueAscends, CallbackPosition
<1> QED
  BY <1>1, <1>6, <1>7 DEF OrderInv, LineInv

LEMMA OrderStep ==
  ASSUME OrderInv, [Next]_vars
  PROVE  OrderInv'
<1>1. DecodeInv'
  BY TypeStep, ControlStep, BufferStep DEF OrderInv, DecodeInv, ControlInv
<1>2. Ordered(Line, shown, arrived)
  BY DEF OrderInv, LineInv
<1>3. Ordered(Line', shown', arrived')
  <2>1. CASE Still
    BY <1>2, <2>1 DEF Still, Ordered
  <2>2. CASE Advances
    BY <1>2, <2>2, AdvancedOrdered DEF Advances
  <2>3. CASE Leaves
    BY <1>2, <2>3, LeftOrdered DEF Leaves
  <2>4. CASE IsShown
    BY <1>2, <2>4, FirstIsLeast DEF IsShown
  <2>5. CASE Arrives
    BY <1>2, <2>5, ArrivalOrdered DEF Arrives
  <2> QED
    BY <2>1, <2>2, <2>3, <2>4, <2>5, LineStep
<1>4. (\A s \in Stages : QueueAscends(s))' /\ CallbackPosition'
  BY QueueStep, CallbackStep
<1> QED
  BY <1>1, <1>3, <1>4 DEF OrderInv, LineInv
-----------------------------------------------------------------------------
\* The line holds just the frames in flight.
LEMMA InFlightIsLine == InFlight = InLine(Line)
<1>1. InLine(Line) = Line[1] \cup Line[2] \cup Line[3] \cup Line[4] \cup Line[5] \cup Line[6] \cup Line[7]
  BY PlacesAre DEF InLine
<1>2. {data[b] : b \in Unshown} =
        AtWork("render") \cup Queued("render") \cup Filled("render")
        \cup AtWork("decoder") \cup Queued("decoder") \cup Filled("decoder")
  BY DEF Unshown, AtWork, Queued, Filled, FramesIn, Stages
<1> QED
  BY <1>1, <1>2, LineAtBoth DEF InFlight, InCallback

\* What each kind of step is to the stream.
LEMMA StreamStep ==
  ASSUME OrderInv, [Next]_vars
  PROVE  [Stream!Next]_(Stream!vars)
<1>1. Ordered(Line, shown, arrived)
  BY DEF OrderInv, LineInv
<1>2. InFlight = InLine(Line)
  BY InFlightIsLine
<1>3. InFlight' = InLine(Line')
  <2>1. (InFlight = InLine(Line))'
    BY InFlightIsLine, PTL
  <2> QED
    BY <2>1 DEF InLine
<1>4. CASE Still
  <2>1. InFlight' = InFlight
    BY <1>2, <1>3, <1>4 DEF Still, InLine
  <2> QED
    BY <1>4, <2>1 DEF Still, Stream!vars
<1>5. CASE Advances
  <2>1. InFlight' = InFlight
    BY <1>1, <1>2, <1>3, <1>5, AdvancedOrdered DEF Advances
  <2> QED
    BY <1>5, <2>1 DEF Advances, Stream!vars
<1>6. CASE Leaves
  <2>1. PICK i, f : Left(Line, Line', i, f)
    BY <1>6 DEF Leaves
  <2>2. f \in InFlight /\ InFlight' = InFlight \ {f}
    BY <1>1, <1>2, <1>3, <2>1, LeftOrdered
  <2>3. Stream!Drop(f)
    BY <1>6, <2>2 DEF Leaves, Stream!Drop
  <2> QED
    BY <2>2, <2>3 DEF Stream!Next
<1>7. CASE IsShown
  <2>1. PICK f : Line[1] = {f} /\ Left(Line, Line', 1, f) /\ shown' = f
    BY <1>7 DEF IsShown
  <2>2. f \in InFlight /\ InFlight' = InFlight \ {f}
    BY <1>1, <1>2, <1>3, <2>1, LeftOrdered
  <2>3. shown < f /\ \A g \in InFlight : f <= g
    BY <1>1, <1>2, <2>1, FirstIsLeast
  <2>4. Stream!Show(f)
    BY <1>7, <2>1, <2>2, <2>3 DEF IsShown, Stream!Show
  <2> QED
    BY <2>2, <2>4 DEF Stream!Next
<1>8. CASE Arrives
  <2>1. InFlight' = InFlight \cup {arrived'}
    <3>1. /\ Line[7] = {} /\ Line'[7] = {arrived + 1} /\ arrived' = arrived + 1
          /\ \A k \in Places \ {7} : Line'[k] = Line[k]
      BY <1>8 DEF Arrives
    <3>2. /\ Ordered(Line', shown, arrived + 1)
          /\ InLine(Line') = InLine(Line) \cup {arrived + 1}
      BY <1>1, <3>1, ArrivalOrdered
    <3> QED
      BY <1>2, <1>3, <3>1, <3>2
  <2> QED
    BY <1>8, <2>1 DEF Arrives, Stream!Produce, Stream!Next
<1> QED
  BY <1>4, <1>5, <1>6, <1>7, <1>8, LineStep

\* The receiving pipeline implements the lossy ordered stream: over any number
\* of starts and stops, frames reach the widget in the order the network
\* delivered them, each at most once.
THEOREM DecodeFramesInOrder == Spec => FramesInOrder
<1>1. Init => Stream!Init
  <2> SUFFICES ASSUME Init PROVE Stream!Init
    OBVIOUS
  <2>1. /\ arrived = 0 /\ shown = 0 /\ recv = "down"
        /\ \A s \in Stages : queue[s] = <<>> /\ fill[s] = Null /\ svc[s] = "down"
        /\ "decoder" \in Stages /\ "render" \in Stages
    BY DEF Init, TaskInit, Stages, Pool
  <2>2. Unshown = {}
    <3>1. \A s \in Stages : BufsIn(queue[s]) = {} /\ Held(fill[s]) = {}
      BY <2>1 DEF BufsIn, Held
    <3>2. svc["decoder"] # "busy" /\ svc["render"] # "busy"
      BY <2>1
    <3> QED
      BY <3>1, <3>2 DEF Unshown
  <2> QED
    BY <2>1, <2>2 DEF InFlight, Stream!Init
<1>2. OrderInv /\ [Next]_vars => OrderInv'
  BY OrderStep
<1>3. OrderInv /\ [Next]_vars => [Stream!Next]_(Stream!vars)
  BY StreamStep
<1> QED
  BY <1>1, <1>2, <1>3, OrderInit, PTL DEF Spec, FramesInOrder, Stream!Spec
=============================================================================
