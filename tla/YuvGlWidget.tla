----------------------------- MODULE YuvGlWidget -----------------------------
(***************************************************************************)
(* The OpenGL widget that shows the pictures of the endpoint, between two  *)
(* threads:                                                                *)
(*                                                                         *)
(*   - the thread of Video_Render_Task, which calls on_yuv_data_arrive:    *)
(*     a copy of the picture is allocated, and queued under                *)
(*     _destory_mutex;                                                     *)
(*   - the GUI thread, which every 50 ms paints, that is, empties the      *)
(*     queue, drawing or skipping each picture, and keeps the last one as  *)
(*     _prev_data to draw it again; which starts and stops the render      *)
(*     task; and which at the end destroys the widget.                     *)
(*                                                                         *)
(* Painting stops while the window is hidden or minimised and while the    *)
(* GUI thread waits in a stop.  The queue takes pictures up to its         *)
(* high-water mark (16384 bytes, 512 pictures), where enqueue blocks.      *)
(*                                                                         *)
(* Pictures are numbered.  The GUI thread alone has _prev_data, so taking  *)
(* a picture out of the queue, drawing it and deleting the previous one is *)
(* one step.                                                               *)
(***************************************************************************)
EXTENDS AceTask

CONSTANTS
  HighWater,    \* pictures at which the queue is full
  MaxPictures   \* bound: pictures in a behaviour

ASSUME GlWidgetAssumption ==
  /\ HighWater \in Nat \ {0}
  /\ MaxPictures \in Nat
  /\ Null \notin Nat

VARIABLES
  gui,       \* the GUI thread: "events", "paint" before a dequeue, "stopping"
             \* in wait(), "acquire", "release" and "delete" in the destructor,
             \* "deleted" after it
  visible,   \* whether the window system has the widget painted
  inited,    \* _inited, set by initializeGL
  thread,    \* the render task's thread: "down", "getq", "entered" past the test
             \* of _inited, "locked" with the mutex and a picture to queue
  mutex,     \* who holds _destory_mutex: "nobody", "callback", "destructor"
  queue,     \* _yuv_queue
  prev,      \* _prev_data
  made,      \* number of pictures allocated
  deleted,   \* those deleted (history)
  drawn,     \* last picture drawn, 0 at first
  crashed    \* the callback has used the deleted widget

queueVars == <<queue, prev, deleted, drawn>>
vars == <<gui, visible, inited, thread, mutex, queueVars, made, crashed>>

Init ==
  /\ gui = "events"
  /\ visible = FALSE
  /\ inited = FALSE
  /\ thread = "down"
  /\ mutex = "nobody"
  /\ queue = <<>>
  /\ prev = Null
  /\ made = 0
  /\ deleted = {}
  /\ drawn = 0
  /\ crashed = FALSE

GuiStep(from, to) == ~crashed /\ gui = from /\ gui' = to
-----------------------------------------------------------------------------
(* The GUI thread: events.                                                 *)

\* Video_Render_Task::start, which shows the widget.
Start ==
  /\ GuiStep("events", "events")
  /\ visible' = TRUE
  /\ thread' = IF thread = "down" THEN "getq" ELSE thread
  /\ UNCHANGED <<inited, mutex, queueVars, made, crashed>>

\* Video_Render_Task::stop hides the widget and waits for the thread.
Stop ==
  /\ GuiStep("events", "stopping")
  /\ visible' = FALSE
  /\ UNCHANGED <<inited, thread, mutex, queueVars, made, crashed>>

Joined ==
  /\ thread = "down"
  /\ GuiStep("stopping", "events")
  /\ UNCHANGED <<visible, inited, thread, mutex, queueVars, made, crashed>>

\* The user minimises or restores the window.
Expose ==
  /\ GuiStep("events", "events")
  /\ visible' = ~visible
  /\ UNCHANGED <<inited, thread, mutex, queueVars, made, crashed>>

InitializeGL ==
  /\ visible
  /\ GuiStep("events", "events")
  /\ inited' = TRUE
  /\ UNCHANGED <<visible, thread, mutex, queueVars, made, crashed>>
-----------------------------------------------------------------------------
(* The GUI thread: paintGL.  On an empty queue it draws _prev_data again,  *)
(* which changes nothing.                                                  *)

\* (Mutant: one picture alone is not painted.)
BeginPaintLate ==
  /\ visible
  /\ Len(queue) > 1
  /\ GuiStep("events", "paint")
  /\ UNCHANGED <<visible, inited, thread, mutex, queueVars, made, crashed>>

BeginPaint ==
  /\ visible
  /\ queue # <<>>
  /\ GuiStep("events", "paint")
  /\ UNCHANGED <<visible, inited, thread, mutex, queueVars, made, crashed>>

\* dequeue returns the number of pictures left.
Left == Len(queue) - 1

\* (Mutant: the previous picture is not deleted.)
TakePictureLeaks ==
  /\ queue # <<>>
  /\ queue' = Tail(queue)
  /\ deleted' = deleted
  /\ prev' = Head(queue)

\* _prev_data is replaced by the picture dequeued.
TakePicture ==
  /\ queue # <<>>
  /\ queue' = Tail(queue)
  /\ deleted' = deleted \cup Held(prev)
  /\ prev' = Head(queue)

\* (Mutant: break in place of continue.)
SkipPictureAndEnd ==
  /\ Left > 2
  /\ GuiStep("paint", "events")
  /\ TakePicture
  /\ UNCHANGED <<visible, inited, thread, mutex, made, drawn, crashed>>

\* More than two are left: the picture is not drawn.
SkipPicture ==
  /\ Left > 2
  /\ GuiStep("paint", "paint")
  /\ TakePicture
  /\ UNCHANGED <<visible, inited, thread, mutex, made, drawn, crashed>>

\* (Mutant: the loop goes on when nothing is left.)
DrawPictureAndGoOn ==
  /\ Left <= 2
  /\ GuiStep("paint", "paint")
  /\ TakePicture
  /\ drawn' = Head(queue)
  /\ UNCHANGED <<visible, inited, thread, mutex, made, crashed>>

\* The loop ends when none is left.
DrawPicture ==
  /\ Left <= 2
  /\ GuiStep("paint", IF Left = 0 THEN "events" ELSE "paint")
  /\ TakePicture
  /\ drawn' = Head(queue)
  /\ UNCHANGED <<visible, inited, thread, mutex, made, crashed>>
-----------------------------------------------------------------------------
(* The GUI thread: the destructor, when the main window is closed.  It     *)
(* takes and gives back the mutex, to let a callback that has it finish,   *)
(* and deletes.                                                            *)

Close ==
  /\ GuiStep("events", "acquire")
  /\ UNCHANGED <<visible, inited, thread, mutex, queueVars, made, crashed>>

Acquire ==
  /\ mutex = "nobody"
  /\ GuiStep("acquire", "release")
  /\ mutex' = "destructor"
  /\ UNCHANGED <<visible, inited, thread, queueVars, made, crashed>>

Release ==
  /\ GuiStep("release", "delete")
  /\ mutex' = "nobody"
  /\ UNCHANGED <<visible, inited, thread, queueVars, made, crashed>>

Delete ==
  /\ GuiStep("delete", "deleted")
  /\ deleted' = deleted \cup Held(prev)
  /\ prev' = Null
  /\ UNCHANGED <<visible, inited, thread, mutex, queue, made, drawn, crashed>>
-----------------------------------------------------------------------------
(* The render task's thread.                                               *)

CallbackStep(from, to) == ~crashed /\ gui # "deleted" /\ thread = from /\ thread' = to

\* on_yuv_data_arrive.  A widget that is not initialised takes no picture.
Enter ==
  /\ inited
  /\ made < MaxPictures
  /\ CallbackStep("getq", "entered")
  /\ made' = made + 1
  /\ UNCHANGED <<gui, visible, inited, mutex, queueVars, crashed>>

Lock ==
  /\ mutex = "nobody"
  /\ CallbackStep("entered", "locked")
  /\ mutex' = "callback"
  /\ UNCHANGED <<gui, visible, inited, queueVars, made, crashed>>

Full == Len(queue) >= HighWater

\* (Mutant: the mutex is not given back.)
EnqueueKeepsMutex ==
  /\ ~Full
  /\ CallbackStep("locked", "getq")
  /\ queue' = Append(queue, made)
  /\ UNCHANGED <<gui, visible, inited, mutex, prev, made, deleted, drawn, crashed>>

\* (Mutant: the picture is put at the head.)
EnqueueAtHead ==
  /\ ~Full
  /\ CallbackStep("locked", "getq")
  /\ queue' = <<made>> \o queue
  /\ mutex' = "nobody"
  /\ UNCHANGED <<gui, visible, inited, prev, made, deleted, drawn, crashed>>

\* enqueue waits, with the mutex, while the queue is full.
Enqueue ==
  /\ ~Full
  /\ CallbackStep("locked", "getq")
  /\ queue' = Append(queue, made)
  /\ mutex' = "nobody"
  /\ UNCHANGED <<gui, visible, inited, prev, made, deleted, drawn, crashed>>

\* The thread ends by a stop, or by a NULL left from an earlier one.
ThreadEnds ==
  /\ ~crashed
  /\ thread = "getq"
  /\ thread' = "down"
  /\ UNCHANGED <<gui, visible, inited, mutex, queueVars, made, crashed>>

\* A callback during or after the deletion: the mutex was given back before it.
UseDeleted ==
  /\ gui = "deleted"
  /\ thread # "down"
  /\ crashed' = TRUE
  /\ UNCHANGED <<gui, visible, inited, thread, mutex, queueVars, made>>
-----------------------------------------------------------------------------
Paint == SkipPicture \/ DrawPicture
Destroy == Acquire \/ Release \/ Delete
Gui == Start \/ Stop \/ Joined \/ Expose \/ InitializeGL \/ BeginPaint \/ Paint
       \/ Close \/ Destroy
Callback == Lock \/ Enqueue
Thread == Enter \/ Callback \/ ThreadEnds \/ UseDeleted

Next == Gui \/ Thread

Spec == Init /\ [][Next]_vars

\* The timer has the widget painted while it is visible; a stop and a close,
\* once begun, run on; the thread runs, and ends when it is stopped.  Strong
\* fairness of Acquire: the thread leaves the mutex again and again between two
\* pictures.
Fairness ==
  /\ WF_vars(BeginPaint) /\ WF_vars(Paint)
  /\ WF_vars(Joined)
  /\ SF_vars(Acquire) /\ WF_vars(Release) /\ WF_vars(Delete)
  /\ WF_vars(Callback)
  /\ WF_vars(gui = "stopping" /\ ThreadEnds)
FairSpec == Spec /\ Fairness
-----------------------------------------------------------------------------
(* Type invariant.                                                         *)
Pictures == 1..MaxPictures
TypeOK ==
  /\ gui \in {"events", "paint", "stopping", "acquire", "release", "delete", "deleted"}
  /\ visible \in BOOLEAN /\ inited \in BOOLEAN /\ crashed \in BOOLEAN
  /\ thread \in {"down", "getq", "entered", "locked"}
  /\ mutex \in {"nobody", "callback", "destructor"}
  /\ queue \in Seq(Pictures)
  /\ prev \in Pictures \cup {Null}
  /\ made \in 0..MaxPictures
  /\ deleted \subseteq Pictures
  /\ drawn \in 0..MaxPictures
-----------------------------------------------------------------------------
(* Safety.                                                                 *)

\* The picture the callback has allocated and not yet queued.
Carried == IF thread \in {"entered", "locked"} THEN {made} ELSE {}

\* Every picture allocated is with the callback, in the queue, the previous one,
\* or deleted, in no two of these places: none is deleted twice, drawn again
\* after its deletion, or lost while a burst is skipped.
PicturesAccounted ==
  /\ Accounted(1..made, deleted, queue, Carried \cup Held(prev))
  /\ Carried \cap Held(prev) = {}

\* The GUI thread never waits in dequeue: within a paint, and after each picture
\* of it, there is one more in the queue, because the count dequeue returned is
\* right although the other thread goes on queueing.
PaintNeverWaits == gui = "paint" => queue # <<>>

\* Outside a paint, _prev_data is the picture drawn last and not one that was
\* skipped, so that drawing it again repeats what is on the screen.
RedrawsLastDrawn == gui \in {"events", "stopping"} => Held(prev) = {drawn} \ {0}

\* Pictures are drawn in the order in which they arrived, each at most once
\* apart from repetitions of the last.
Undrawn == {queue[i] : i \in DOMAIN queue} \cup Carried
Screen == INSTANCE FrameStream WITH produced <- made, pending <- Undrawn, shown <- drawn
DrawnInOrder == Screen!Spec

(* Liveness, under FairSpec.                                               *)

\* The GUI thread comes back from a stop, and gets through the destructor,
\* unless the callback waits, with the mutex, for room in a queue that nobody
\* empties.
BlockedOnFullQueue == thread = "locked" /\ Full
GuiComesBack ==
  gui \in {"stopping", "acquire"} ~> gui \in {"events", "deleted"} \/ BlockedOnFullQueue

\* A picture does not wait for ever in a widget that is painted.
PicturesProgress ==
  \A p \in Pictures :
    p \in Undrawn ~> p \notin Undrawn \/ ~visible \/ gui \notin {"events", "paint"}
=============================================================================
