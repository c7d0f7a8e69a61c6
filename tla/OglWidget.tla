------------------------------ MODULE OglWidget ------------------------------
(***************************************************************************)
(* The widget that draws through X11 and GLX in a thread of its own, the   *)
(* painter.  Three threads share an OGL_Widget:                            *)
(*                                                                         *)
(*   - the owner, which calls init and release and at last deletes it;     *)
(*   - the painter, which opens a display connection, makes a window in it *)
(*     and draws the pictures of the queue until release tells it to stop; *)
(*   - the decoding thread, which calls on_yuv_data_arrive: a copy of the  *)
(*     picture is allocated and queued.                                    *)
(*                                                                         *)
(* There is no mutex and no join: the threads meet in the queue and in the *)
(* flags _is_run_painter, _is_inited and _is_stoped.  Nothing activates    *)
(* the queue again after release, and _painter_pid is never reset.         *)
(*                                                                         *)
(* Pictures are numbered.  An X11 or GL call that cannot fail, or whose    *)
(* result is not tested, is part of the step around it.                    *)
(***************************************************************************)
EXTENDS AceTask

CONSTANTS
  HighWater,    \* pictures at which the queue is full
  MaxPictures   \* bound: pictures in a behaviour

ASSUME OglAssumption ==
  /\ HighWater \in Nat \ {0}
  /\ MaxPictures \in Nat
  /\ Null \notin Nat

VARIABLES
  owner,      \* "idle" between calls, "release" while it spins on _is_stoped,
              \* "deleted" after the destructor
  painter,    \* "none" before pthread_create, "opening", "setup" with a display,
              \* "test" of _is_run_painter, "dequeue", "draw", "failed" when its
              \* set-up did, "gone" after its loop, "spent" when init found it gone
  callback,   \* the decoding thread: "idle", or "enqueue" with a new picture
  isRun,      \* _is_run_painter
  isInited,   \* _is_inited
  isStoped,   \* _is_stoped
  display,    \* _display: "null", "open", "closed" (the pointer is kept)
  qstate,     \* state of _yuv_queue
  queue,      \* _yuv_queue
  hand,       \* the painter's yuv_data
  made,       \* number of pictures allocated
  deleted,    \* those deleted (history)
  leaked,     \* those no one points to any more (history)
  drawn,      \* last picture drawn, 0 at first
  crashed     \* a closed display or a deleted widget has been used

flags == <<isRun, isInited, isStoped>>
pictures == <<queue, hand, made, deleted, leaked, drawn>>
vars == <<owner, painter, callback, flags, display, qstate, pictures, crashed>>

Init ==
  /\ owner = "idle" /\ painter = "none" /\ callback = "idle"
  /\ isRun = FALSE /\ isInited = FALSE /\ isStoped = TRUE
  /\ display = "null"
  /\ qstate = "activated"
  /\ queue = <<>> /\ hand = Null
  /\ made = 0 /\ deleted = {} /\ leaked = {} /\ drawn = 0
  /\ crashed = FALSE

OwnerStep(from, to) == ~crashed /\ owner = from /\ owner' = to
PainterStep(from, to) == ~crashed /\ owner # "deleted" /\ painter = from /\ painter' = to
CallbackStep(from, to) == ~crashed /\ owner # "deleted" /\ callback = from /\ callback' = to
-----------------------------------------------------------------------------
(* The owner.                                                              *)

\* _painter_pid tells whether a thread was ever created, not whether it runs.
CreateOnce ==
  painter' = CASE painter = "none" -> "opening"
               [] painter = "gone" -> "spent"
               [] OTHER -> painter

\* (Mutant: _is_stoped is left as it is.)
RunPainterUnnoticed ==
  /\ OwnerStep("idle", "idle")
  /\ isRun' = TRUE
  /\ CreateOnce
  /\ UNCHANGED <<callback, isInited, isStoped, display, qstate, pictures, crashed>>

\* init().  A thread is created the first time only.
RunPainter ==
  /\ OwnerStep("idle", "idle")
  /\ isRun' = TRUE
  /\ isStoped' = FALSE
  /\ CreateOnce
  /\ UNCHANGED <<callback, isInited, display, qstate, pictures, crashed>>

\* (Mutant: the queue stays activated.)
ReleaseKeepsQueue ==
  /\ OwnerStep("idle", "release")
  /\ isRun' = FALSE
  /\ isInited' = FALSE
  /\ UNCHANGED <<painter, callback, isStoped, display, qstate, pictures, crashed>>

\* release() up to its loop.
Release ==
  /\ OwnerStep("idle", "release")
  /\ qstate' = "deactivated"
  /\ isRun' = FALSE
  /\ isInited' = FALSE
  /\ UNCHANGED <<painter, callback, isStoped, display, pictures, crashed>>

\* release() after it: window and display are destroyed ...
CloseDisplay ==
  /\ isStoped
  /\ display = "open"
  /\ OwnerStep("release", "idle")
  /\ display' = "closed"
  /\ UNCHANGED <<painter, callback, flags, qstate, pictures, crashed>>

\* ... which crashes when there is no display, or a release before closed it.
CloseNoDisplay ==
  /\ isStoped
  /\ display # "open"
  /\ OwnerStep("release", "release")
  /\ crashed' = TRUE
  /\ UNCHANGED <<painter, callback, flags, display, qstate, pictures>>

\* The destructor releases nothing: what is in the queue stays as it is.
Delete ==
  /\ OwnerStep("idle", "deleted")
  /\ UNCHANGED <<painter, callback, flags, display, qstate, pictures, crashed>>
-----------------------------------------------------------------------------
(* The painter.                                                            *)

OpenDisplay ==
  /\ PainterStep("opening", "setup")
  /\ display' = "open"
  /\ UNCHANGED <<owner, callback, flags, qstate, pictures, crashed>>

\* The display cannot be opened; no visual, context, glew or shader: the painter
\* returns, and does not set _is_stoped.
SetupFails ==
  /\ \E from \in {"opening", "setup"} : PainterStep(from, "failed")
  /\ UNCHANGED <<owner, callback, flags, display, qstate, pictures, crashed>>

\* Window, visual, context and shaders are there, and pictures may come.
SetupDone ==
  /\ PainterStep("setup", "test")
  /\ isInited' = TRUE
  /\ UNCHANGED <<owner, callback, isRun, isStoped, display, qstate, pictures, crashed>>

TestRun ==
  /\ isRun
  /\ PainterStep("test", "dequeue")
  /\ UNCHANGED <<owner, callback, flags, display, qstate, pictures, crashed>>

\* (Mutant: the flag is not set.)
PainterStopsSilently ==
  /\ ~isRun
  /\ PainterStep("test", "gone")
  /\ UNCHANGED <<owner, callback, flags, display, qstate, pictures, crashed>>

\* The loop ends: context and shaders are released, and release() goes on.
PainterStops ==
  /\ ~isRun
  /\ PainterStep("test", "gone")
  /\ isStoped' = TRUE
  /\ UNCHANGED <<owner, callback, isRun, isInited, display, qstate, pictures, crashed>>

Dequeue ==
  /\ CanGetq(qstate, queue)
  /\ PainterStep("dequeue", "draw")
  /\ hand' = Head(queue)
  /\ queue' = Tail(queue)
  /\ UNCHANGED <<owner, callback, flags, display, qstate, made, deleted, leaked, drawn, crashed>>

\* The result of dequeue is not looked at: a deactivated queue is told from a
\* picture by yuv_data, which is still NULL.
DequeueFails ==
  /\ GetqFails(qstate)
  /\ PainterStep("dequeue", IF hand = Null THEN "test" ELSE "draw")
  /\ UNCHANGED <<owner, callback, flags, display, qstate, pictures, crashed>>

\* (Mutant: yuv_data is not set back to NULL.)
DrawKeepsPointer ==
  /\ PainterStep("draw", "test")
  /\ drawn' = hand
  /\ deleted' = deleted \cup {hand}
  /\ UNCHANGED <<owner, callback, flags, display, qstate, queue, hand, made, leaked, crashed>>

\* The picture is uploaded to the textures, drawn, swapped to the screen and
\* deleted.
Draw ==
  /\ PainterStep("draw", "test")
  /\ drawn' = hand
  /\ deleted' = deleted \cup {hand}
  /\ hand' = Null
  /\ UNCHANGED <<owner, callback, flags, display, qstate, queue, made, leaked, crashed>>
-----------------------------------------------------------------------------
(* The decoding thread: on_yuv_data_arrive.                                *)

\* A widget that is not initialised takes no picture.
Enter ==
  /\ isInited
  /\ made < MaxPictures
  /\ CallbackStep("idle", "enqueue")
  /\ made' = made + 1
  /\ UNCHANGED <<owner, painter, flags, display, qstate, queue, hand, deleted, leaked, drawn,
                 crashed>>

Full == Len(queue) >= HighWater

\* (Mutant: the picture is put at the head.)
EnqueueAtHead ==
  /\ qstate = "activated"
  /\ ~Full
  /\ CallbackStep("enqueue", "idle")
  /\ queue' = <<made>> \o queue
  /\ UNCHANGED <<owner, painter, flags, display, qstate, hand, made, deleted, leaked, drawn,
                 crashed>>

\* enqueue waits while the queue is full, or until it is deactivated.
Enqueue ==
  /\ qstate = "activated"
  /\ ~Full
  /\ CallbackStep("enqueue", "idle")
  /\ queue' = Append(queue, made)
  /\ UNCHANGED <<owner, painter, flags, display, qstate, hand, made, deleted, leaked, drawn,
                 crashed>>

\* The failure is logged, and the picture lost.
EnqueueFails ==
  /\ qstate = "deactivated"
  /\ CallbackStep("enqueue", "idle")
  /\ leaked' = leaked \cup {made}
  /\ UNCHANGED <<owner, painter, flags, display, qstate, queue, hand, made, deleted, drawn,
                 crashed>>

Threaded == painter \in {"opening", "setup", "test", "dequeue", "draw"}

\* A thread that is inside the widget when it is deleted.
UseDeleted ==
  /\ owner = "deleted"
  /\ Threaded \/ callback # "idle"
  /\ crashed' = TRUE
  /\ UNCHANGED <<owner, painter, callback, flags, display, qstate, pictures>>
-----------------------------------------------------------------------------
Close == CloseDisplay \/ CloseNoDisplay
Owner == RunPainter \/ Release \/ Close \/ Delete
Setup == OpenDisplay \/ SetupFails \/ SetupDone
Loop == TestRun \/ PainterStops \/ Dequeue \/ DequeueFails \/ Draw
Painter == Setup \/ Loop
PutPicture == Enqueue \/ EnqueueFails
Callback == Enter \/ PutPicture

Next == Owner \/ Painter \/ Callback \/ UseDeleted

Spec == Init /\ [][Next]_vars

\* The painter runs, a release and a callback once begun run on.  Nobody is
\* obliged to call anything.
Fairness == WF_vars(Setup) /\ WF_vars(Loop) /\ WF_vars(Close) /\ WF_vars(PutPicture)
FairSpec == Spec /\ Fairness
-----------------------------------------------------------------------------
(* Safety.                                                                 *)

\* The picture the callback has allocated and not yet queued.
Carried == IF callback = "enqueue" THEN {made} ELSE {}

\* Every picture allocated is with the callback, in the queue, with the painter,
\* deleted or lost, in no two of these places: the pointer that the painter
\* keeps over a failed dequeue is never one it has deleted.
PicturesAccounted ==
  /\ Accounted(1..made, deleted \cup leaked, queue, Carried \cup Held(hand))
  /\ Carried \cap Held(hand) = {}
  /\ deleted \cap leaked = {}

\* The display is open from the first to the last call the painter makes on it:
\* release, which does not join the thread, never closes it under the painter,
\* whenever it is called.
DisplayOutlivesPainter ==
  painter \in {"setup", "test", "dequeue", "draw"} => display = "open"

\* Pictures are drawn in the order in which they arrived, each at most once.
Undrawn == {queue[i] : i \in DOMAIN queue} \cup Carried \cup Held(hand)
Screen == INSTANCE FrameStream WITH produced <- made, pending <- Undrawn, shown <- drawn
DrawnInOrder == Screen!Spec

(* Liveness, under FairSpec.                                               *)

\* release returns (or crashes), unless no painter is left to set _is_stoped: its
\* set-up failed, or an earlier release ended it and init did not create another.
NoPainterLeft == painter \in {"failed", "spent"}
ReleaseReturns == owner = "release" ~> owner # "release" \/ crashed \/ NoPainterLeft

\* A callback returns, however full the queue is when the painter stops: release
\* deactivates the queue, which wakes it.
CallbackReturns == callback = "enqueue" ~> callback = "idle" \/ owner = "deleted" \/ crashed

\* Neither the owner nor the decoding thread waits for ever, though no mutex
\* orders what they do to the queue and to the painter.
NobodyBlocks == ReleaseReturns /\ CallbackReturns
=============================================================================
