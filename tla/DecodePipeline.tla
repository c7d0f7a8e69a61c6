--------------------------- MODULE DecodePipeline ---------------------------
(***************************************************************************)
(* The receiving half of the endpoint: Ep_Interface::video_decode_start    *)
(* and video_decode_stop, run by the GUI thread, and the three threads     *)
(* they control:                                                           *)
(*                                                                         *)
(*   Rtp_Recv_Handler --NALU--> Video_Decoder_Task --picture--> Video_     *)
(*   Render_Task                                                           *)
(*                                                                         *)
(* The decoder and the renderer are stages as in TaskStages.  A NALU and   *)
(* the picture made from it are both represented by the number of the      *)
(* frame they carry.  A NALU is one packet for libavcodec, which consumes  *)
(* it whole, so decode() calls back once or, on an error, not at all; the  *)
(* picture may repeat an earlier one, and counts as this frame's.          *)
(***************************************************************************)
EXTENDS TaskStages, FiniteSets

CONSTANTS
  NaluBufs,     \* the pool of Video_Decoder_Task (8 Decoder_Nalu_Buf)
  YuvBufs,      \* the pool of Video_Render_Task (8 YUV)
  MaxFrames     \* bound: frames the network delivers in a behaviour

ASSUME DecodeAssumption ==
  /\ Null \notin NaluBufs \cup YuvBufs
  /\ NaluBufs \cap YuvBufs = {}
  /\ AtLeastThree(NaluBufs) /\ AtLeastThree(YuvBufs)
  /\ MaxFrames \in Nat

VARIABLES
  gui,       \* where the GUI thread is: <<"idle", "-">>, or <<step, part>>
  codec,     \* whether video_decode_init obtained a decoder
  sock,      \* whether _sock_fd names an open socket
  recv,      \* the receive thread: "down", "recvfrom", "callback", or "failed"
             \* when recvfrom has returned -1
  recvOn,    \* the socket recvfrom was called on: "current", or "leaked" once
             \* a second start has overwritten its descriptor
  nalu,      \* the frame the receive callback was given
  arrived,   \* frames the network has delivered so far
  shown      \* last frame handed to the widget

recvVars == <<sock, recv, recvOn, nalu, arrived>>
vars == <<gui, codec, recvVars, taskVars, shown>>

Stages == {"decoder", "render"}
Bufs == NaluBufs \cup YuvBufs
Pool == [s \in Stages |-> IF s = "decoder" THEN NaluBufs ELSE YuvBufs]
Idle == <<"idle", "-">>

Init ==
  /\ gui = Idle
  /\ codec \in BOOLEAN
  /\ sock = FALSE /\ recv = "down" /\ recvOn = "current"
  /\ nalu = 0 /\ arrived = 0
  /\ TaskInit(Pool, Bufs)
  /\ shown = 0
-----------------------------------------------------------------------------
(* The GUI thread.  Start and stop may be pressed in any order.            *)

GuiStep(from, to) == gui = from /\ gui' = to

ClickStart ==
  /\ GuiStep(Idle, <<"start", "decoder">>)
  /\ StartTask("render")
  /\ UNCHANGED <<codec, recvVars, shown>>

StartDecoder ==
  /\ codec
  /\ GuiStep(<<"start", "decoder">>, <<"start", "recv">>)
  /\ StartTask("decoder")
  /\ UNCHANGED <<codec, recvVars, shown>>

\* Without a codec start() fails, and so does video_decode_start.
StartDecoderFails ==
  /\ ~codec
  /\ GuiStep(<<"start", "decoder">>, Idle)
  /\ UNCHANGED <<codec, recvVars, taskVars, shown>>

\* When _sock_fd is overwritten, a thread already blocked in recvfrom keeps
\* waiting on the socket it was called with.
Overtaken == IF recv = "recvfrom" /\ sock THEN {recvOn, "leaked"} ELSE {recvOn}

StartRecv ==
  /\ GuiStep(<<"start", "recv">>, Idle)
  /\ \/ /\ sock' = TRUE
        /\ recv' = IF recv = "down" THEN "recvfrom" ELSE recv
     \/ /\ sock' = FALSE           \* bind failed
        /\ recv' = recv
  /\ recvOn' \in Overtaken
  /\ UNCHANGED <<codec, nalu, arrived, taskVars, shown>>

\* (Mutant: stop() of the receiver does not wait() for its thread.)
ClickStopWithoutWait ==
  /\ GuiStep(Idle, <<"putq", "decoder">>)
  /\ sock' = FALSE
  /\ UNCHANGED <<codec, recv, recvOn, nalu, arrived, taskVars, shown>>

\* (Mutant: it does not shut the socket down.)
ClickStopKeepsSocket ==
  /\ GuiStep(Idle, <<"wait", "recv">>)
  /\ UNCHANGED <<codec, recvVars, taskVars, shown>>

ClickStop ==
  /\ GuiStep(Idle, <<"wait", "recv">>)
  /\ sock' = FALSE
  /\ UNCHANGED <<codec, recv, recvOn, nalu, arrived, taskVars, shown>>

\* wait() returns once the thread is gone.
WaitRecv ==
  /\ recv = "down"
  /\ GuiStep(<<"wait", "recv">>, <<"putq", "decoder">>)
  /\ UNCHANGED <<codec, recvVars, taskVars, shown>>

\* putq(NULL), which may have to wait for the task's thread, deactivate() and
\* wait() of a task's stop().
PutNull(s) ==
  /\ GuiStep(<<"putq", s>>, <<"deactivate", s>>)
  /\ PutClose(s)
  /\ UNCHANGED <<codec, recvVars, shown>>

DeactivateQueue(s) ==
  /\ GuiStep(<<"deactivate", s>>, <<"wait", s>>)
  /\ Deactivate(s)
  /\ UNCHANGED <<codec, recvVars, shown>>

\* (Mutant: stop() does not wait() for the thread.)
WaitTaskReturns(s) ==
  /\ GuiStep(<<"wait", s>>, IF s = "decoder" THEN <<"putq", "render">> ELSE Idle)
  /\ UNCHANGED <<codec, recvVars, taskVars, shown>>

WaitTask(s) ==
  /\ svc[s] = "down"
  /\ GuiStep(<<"wait", s>>, IF s = "decoder" THEN <<"putq", "render">> ELSE Idle)
  /\ UNCHANGED <<codec, recvVars, taskVars, shown>>
-----------------------------------------------------------------------------
(* The receive thread.                                                     *)

Readable == recv = "recvfrom" /\ (recvOn = "leaked" \/ sock)

\* A datagram that completes a NALU.
RecvNalu ==
  /\ Readable
  /\ arrived < MaxFrames
  /\ arrived' = arrived + 1
  /\ nalu' = arrived'
  /\ recv' = "callback"
  /\ UNCHANGED <<gui, codec, sock, recvOn, taskVars, shown>>

\* A datagram that completes none: recvfrom is called again, on _sock_fd.
RecvOther ==
  /\ Readable
  /\ recvOn' = "current"
  /\ UNCHANGED <<gui, codec, sock, recv, nalu, arrived, taskVars, shown>>

\* The socket was shut down, or recvfrom is called on -1.
RecvFails ==
  /\ recv = "recvfrom"
  /\ recvOn = "current"
  /\ ~sock
  /\ recv' = "failed"
  /\ UNCHANGED <<gui, codec, sock, recvOn, nalu, arrived, taskVars, shown>>

\* The thread then closes whatever _sock_fd names by now, and exits.
RecvCloses ==
  /\ recv = "failed"
  /\ sock' = FALSE
  /\ recv' = "down"
  /\ UNCHANGED <<gui, codec, recvOn, nalu, arrived, taskVars, shown>>

\* Video_Decoder_Task::operator(), called by the receive thread.
MallocNalu ==
  /\ recv = "callback"
  /\ TakeBuffer("decoder", nalu)
  /\ UNCHANGED <<gui, codec, recvVars, shown>>

PutNalu ==
  /\ recv = "callback"
  /\ PutBuffer("decoder")
  /\ recv' = "recvfrom" /\ recvOn' = "current"
  /\ UNCHANGED <<gui, codec, sock, nalu, arrived, svc, shown>>
-----------------------------------------------------------------------------
(* The threads of the decoder and of the renderer.                         *)

\* A step of a task's thread that concerns its own stage only.
OwnStep == UNCHANGED <<gui, codec, recvVars, shown>>

Getq(s) == OwnStep /\ GetMessage(s)
GetqClosed(s) == OwnStep /\ GetFails(s)
FreeBuf(s) == OwnStep /\ GiveBack(s)

\* (Mutant: a continue skips the free.)
DecodeNothingKeepsBuffer ==
  /\ OwnStep
  /\ fill["render"] = Null
  /\ svc["decoder"] = "busy"
  /\ svc' = [svc EXCEPT !["decoder"] = "getq"]
  /\ hand' = [hand EXCEPT !["decoder"] = Null]
  /\ UNCHANGED <<qstate, queue, free, fill, lost, data>>

\* The codec fails on this NALU, and does not call back.
DecodeNothing ==
  /\ OwnStep
  /\ fill["render"] = Null
  /\ Finish("decoder")
  /\ UNCHANGED <<qstate, queue, free, fill, hand, lost, data>>

\* It calls back Video_Render_Task::operator().  That tests the wrong variable
\* after malloc, which does it no harm, as malloc does not fail.
MallocYuv ==
  /\ OwnStep
  /\ svc["decoder"] = "busy"
  /\ TakeBuffer("render", data[hand["decoder"]])

\* (Mutant: the loop of decode() does not advance, and decodes the NALU again.)
PutYuvNoAdvance ==
  /\ OwnStep
  /\ PutBuffer("render")
  /\ svc' = svc

PutYuv ==
  /\ OwnStep
  /\ PutBuffer("render")
  /\ Finish("decoder")

\* Video_Render::on_yuv_data_arrive copies the picture to the widget, or not
\* when the widget is not initialised yet.
Show ==
  /\ Finish("render")
  /\ shown' \in {shown, data[hand["render"]]}
  /\ UNCHANGED <<gui, codec, recvVars, qstate, queue, free, fill, hand, lost, data>>
-----------------------------------------------------------------------------
Gui ==
  \/ ClickStart \/ StartDecoder \/ StartDecoderFails \/ StartRecv
  \/ ClickStop \/ WaitRecv
  \/ \E s \in Stages : PutNull(s) \/ DeactivateQueue(s) \/ WaitTask(s)

Recv ==
  \/ RecvNalu \/ RecvOther \/ RecvFails \/ RecvCloses
  \/ MallocNalu \/ PutNalu

Svc(s) == Getq(s) \/ GetqClosed(s) \/ FreeBuf(s)
Decoder == Svc("decoder") \/ DecodeNothing \/ MallocYuv \/ PutYuv
Render == Svc("render") \/ Show

Next == Gui \/ Recv \/ Decoder \/ Render

Spec == Init /\ [][Next]_vars

\* Every thread that can run does.  The user need not press a button (a stop
\* once pressed runs on), and the network need not deliver a datagram.
GuiRuns == gui # Idle /\ Gui
RecvRuns == RecvFails \/ RecvCloses \/ MallocNalu \/ PutNalu
Fairness ==
  /\ WF_vars(GuiRuns)
  /\ WF_vars(RecvRuns)
  /\ WF_vars(Decoder)
  /\ WF_vars(Render)
FairSpec == Spec /\ Fairness
-----------------------------------------------------------------------------
(* Type invariant.                                                         *)
Frames == 0..MaxFrames
TypeOK ==
  /\ gui \in {Idle, <<"start", "recv">>, <<"wait", "recv">>}
             \cup ({"start", "putq", "deactivate", "wait"} \X Stages)
  /\ codec \in BOOLEAN /\ sock \in BOOLEAN
  /\ recv \in {"down", "recvfrom", "callback", "failed"}
  /\ recvOn \in {"current", "leaked"}
  /\ nalu \in Frames /\ arrived \in Frames /\ shown \in Frames
  /\ TaskTypeOK(Stages, Bufs, Frames)
-----------------------------------------------------------------------------
(* Safety.                                                                 *)

\* Every buffer that malloc took reaches free or waits in the queue, in no two
\* places at once, and no buffer of either pool is ever lost ...
BuffersInPlace ==
  \A s \in Stages : StageAccounted(s, Pool[s]) /\ lost[s] = {}

\* ... so that operator() finds one whenever it calls malloc: as putq waits while
\* a message is queued, there is one buffer there and one with the thread at the
\* most.  The branches for a malloc that fails, of which that of the renderer
\* would write through NULL, are never taken, and the steps above leave them out.
MallocFindsBuffer == \A s \in Stages : ~PoolExhausted(s)

\* Both hold across any number of starts and stops.
BuffersAccounted == BuffersInPlace /\ MallocFindsBuffer

\* video_decode_stop takes the parts down from upstream to downstream, so that
\* a thread that may still call putq finds the queue it puts to activated (the
\* code ignores a failed putq, which would lose the buffer).
ProducersFindQueueOpen ==
  /\ recv # "down" => qstate["decoder"] = "activated"
  /\ svc["decoder"] # "down" => qstate["render"] = "activated"

\* Once video_decode_stop has returned, and until the next start, none of the
\* three threads runs.
StopJoinsEveryThread ==
  gui = Idle /\ qstate["render"] = "deactivated" =>
    recv = "down" /\ svc["decoder"] = "down" /\ svc["render"] = "down"

\* Frames reach the widget in the order the network delivered them, each at
\* most once, although frames left queued by a stop are played after the next
\* start: the pipeline implements a lossy ordered stream.  A frame is in the
\* stream while the receive callback or a buffer still to be shown holds it.
Unshown ==
  (UNION {BufsIn(queue[s]) \cup Held(fill[s]) : s \in Stages})
  \cup (IF svc["decoder"] = "busy" /\ fill["render"] = Null
        THEN Held(hand["decoder"]) ELSE {})
  \cup (IF svc["render"] = "busy" THEN Held(hand["render"]) ELSE {})
InFlight ==
  {data[b] : b \in Unshown}
  \cup (IF recv = "callback" /\ fill["decoder"] = Null THEN {nalu} ELSE {})

Stream == INSTANCE FrameStream WITH produced <- arrived, pending <- InFlight
FramesInOrder == Stream!Spec

(* Liveness, under FairSpec.                                               *)

\* A stop returns, whatever the threads were doing: unless a second start had
\* overwritten the socket the receive thread is blocked on, or somebody waits in
\* putq for a thread that is no more: a NULL that an earlier stop had left in the
\* queue ended it, and the queue is full and stays activated.
BlockedOnLeakedSocket == recv = "recvfrom" /\ recvOn = "leaked"
WaitsOnDeadTask(s) ==
  /\ svc[s] = "down" /\ PutqWaits(qstate[s], queue[s])
  /\ fill[s] # Null \/ gui = <<"putq", s>>
StopReturns ==
  gui = <<"wait", "recv">> ~>
    gui = Idle \/ BlockedOnLeakedSocket \/ \E s \in Stages : WaitsOnDeadTask(s)

\* While both tasks run, a frame does not stay in the pipeline: it is shown or
\* dropped.
TasksRun == \A s \in Stages : svc[s] # "down"
FramesProgress ==
  \A f \in 1..MaxFrames : f \in InFlight ~> f \notin InFlight \/ ~TasksRun

(* What the code says of itself and does not do.                           *)

\* A NULL message is the "active close msg" of stop() (video_decoder_task.cpp
\* :54): a task's thread leaves its loop only while the GUI stops that task.
TaskEndsOnlyWhenStopped ==
  [][\A s \in Stages :
       svc[s] # "down" /\ svc'[s] = "down" => gui \in {"deactivate", "wait"} \X {s}]_vars

\* The "stop decode" button (mainwindow.ui:85) stops the decoding: the GUI thread
\* comes back from it, wherever the sockets have gone.
StopDecodeStops == gui = <<"wait", "recv">> ~> gui = Idle \/ BlockedOnLeakedSocket
=============================================================================
