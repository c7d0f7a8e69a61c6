------------------------------ MODULE YuvWidget ------------------------------
(***************************************************************************)
(* The Qt widget that shows pictures without OpenGL.  Its callback, called *)
(* by the thread that has the pictures, turns one into an RGB image in a   *)
(* block of a pool (My_Msg_Block_Pool) and queues it, all under            *)
(* _destory_mutex; the GUI thread empties the queue as it paints, and      *)
(* keeps the last block to draw it again.                                  *)
(*                                                                         *)
(* The queue has ACE's default high-water mark, and a block is larger than *)
(* that: one image makes the queue full.                                   *)
(*                                                                         *)
(* Left out: the conversion, and the line sizes that the first callback    *)
(* overwrites in its caller's array.  The behaviour ends when the widget   *)
(* is destroyed: a later callback is a use of freed memory, as in          *)
(* YuvGlWidget.                                                            *)
(***************************************************************************)
EXTENDS AceTask

CONSTANTS
  Blocks,       \* the pool: MAX_POOL_COUNT blocks
  BlockSize,    \* bytes of a block, MAX_POOL_SIXE
  HighWater,    \* the queue's high-water mark, in bytes
  MaxPictures   \* bound: pictures in a behaviour

ASSUME WidgetAssumption ==
  /\ \E b1, b2, b3 \in Blocks : b1 # b2 /\ b1 # b3 /\ b2 # b3
  /\ Null \notin Blocks
  /\ BlockSize \in Nat /\ HighWater \in 1..BlockSize
  /\ MaxPictures \in Nat

VARIABLES
  thread,    \* the callback: "out", "acquire", "locked" before the test of the
             \* queue, "convert" before malloc, "enqueue" with a block
  mutex,     \* who holds _destory_mutex: "nobody", "callback", "destructor"
  scaler,    \* _yuv2rgb: "none", "ready", or "broken" when its init failed
  fill,      \* msg, the block the callback has
  queue,     \* _img_queue
  free,      \* the blocks in the pool
  gui,       \* the GUI thread: "events"; "dequeue", "more" and "last" in
             \* paintEvent; "acquire" and "release" in the destructor; "gone"
  hand,      \* msg_block, the block the GUI thread has dequeued
  prev,      \* _pre_msg_block
  data,      \* by block: the picture in it
  arrived,   \* pictures the callback was called with
  drawn      \* the last picture drawn, 0 at first

blockVars == <<fill, queue, free, data>>
paintVars == <<hand, prev, drawn>>
vars == <<thread, mutex, scaler, blockVars, gui, paintVars, arrived>>

Init ==
  /\ thread = "out"
  /\ mutex = "nobody"
  /\ scaler = "none"
  /\ fill = Null /\ queue = <<>> /\ free = Blocks
  /\ gui = "events"
  /\ hand = Null /\ prev = Null
  /\ data = [b \in Blocks |-> 0]
  /\ arrived = 0
  /\ drawn = 0
-----------------------------------------------------------------------------
(* on_yuv_data_arrive.                                                     *)

Moves(from, to) == gui # "gone" /\ thread = from /\ thread' = to

Call ==
  /\ arrived < MaxPictures
  /\ Moves("out", "acquire")
  /\ arrived' = arrived + 1
  /\ UNCHANGED <<mutex, scaler, blockVars, gui, paintVars>>

Acquire ==
  /\ mutex = "nobody"
  /\ Moves("acquire", "locked")
  /\ mutex' = "callback"
  /\ UNCHANGED <<scaler, blockVars, gui, paintVars, arrived>>

\* (Mutant: one image does not make the queue full.)
FullAtTwo == Len(queue) * BlockSize >= HighWater + BlockSize

Full == Len(queue) * BlockSize >= HighWater

\* (Mutant: the early return keeps the mutex.)
DropPictureLocked ==
  /\ Full
  /\ Moves("locked", "out")
  /\ UNCHANGED <<mutex, scaler, blockVars, gui, paintVars, arrived>>

\* A full queue: the picture is dropped.
DropPicture ==
  /\ Full
  /\ Moves("locked", "out")
  /\ mutex' = "nobody"
  /\ UNCHANGED <<scaler, blockVars, gui, paintVars, arrived>>

\* (Mutant: the queue is not looked at.)
KeepScalerUntested ==
  /\ scaler = "ready"
  /\ Moves("locked", "convert")
  /\ UNCHANGED <<mutex, scaler, blockVars, gui, paintVars, arrived>>

\* The scaler there is fits the sizes of picture and widget ...
KeepScaler ==
  /\ ~Full
  /\ scaler = "ready"
  /\ Moves("locked", "convert")
  /\ UNCHANGED <<mutex, scaler, blockVars, gui, paintVars, arrived>>

\* ... or there is none, or a size has changed, and it is made anew ...
NewScaler ==
  /\ ~Full
  /\ Moves("locked", "convert")
  /\ scaler' = "ready"
  /\ UNCHANGED <<mutex, blockVars, gui, paintVars, arrived>>

\* ... which may fail: the callback returns and does not give the mutex back.
NewScalerFails ==
  /\ ~Full
  /\ Moves("locked", "out")
  /\ scaler' = "broken"
  /\ UNCHANGED <<mutex, blockVars, gui, paintVars, arrived>>

\* (Mutant: the conversion is forgotten, and the block keeps its old image.)
MallocBlockNoImage ==
  /\ Moves("convert", "enqueue")
  /\ \E b \in free : free' = free \ {b} /\ fill' = b
  /\ UNCHANGED <<mutex, scaler, queue, data, gui, paintVars, arrived>>

\* A block of the pool receives the image.  (On an empty pool the callback would
\* return here, too, with the mutex; BlockAtHand says that it never does.)
MallocBlock ==
  /\ Moves("convert", "enqueue")
  /\ \E b \in free :
       /\ free' = free \ {b}
       /\ fill' = b
       /\ data' = [data EXCEPT ![b] = arrived]
  /\ UNCHANGED <<mutex, scaler, queue, gui, paintVars, arrived>>

\* enqueue waits on a full queue; RoomForImage says that it never has to.
Enqueue ==
  /\ ~Full
  /\ Moves("enqueue", "out")
  /\ queue' = Append(queue, fill)
  /\ fill' = Null
  /\ mutex' = "nobody"
  /\ UNCHANGED <<scaler, free, data, gui, paintVars, arrived>>
-----------------------------------------------------------------------------
(* The GUI thread: paintEvent.  On an empty queue the last image is drawn  *)
(* again, which changes nothing.                                           *)

GuiStep(from, to) == gui = from /\ gui' = to

BeginPaint ==
  /\ queue # <<>>
  /\ GuiStep("events", "dequeue")
  /\ UNCHANGED <<thread, mutex, scaler, blockVars, paintVars, arrived>>

\* dequeue returns the number of images left.  With more than two left the
\* image is not drawn; with none the loop ends.
Left == Len(queue) - 1

Dequeue ==
  /\ queue # <<>>
  /\ GuiStep("dequeue", IF Left = 0 THEN "last" ELSE "more")
  /\ queue' = Tail(queue)
  /\ hand' = Head(queue)
  /\ drawn' = IF Left > 2 THEN drawn ELSE data[Head(queue)]
  /\ UNCHANGED <<thread, mutex, scaler, fill, free, data, prev, arrived>>

\* (Mutant: the block just drawn is freed, and not the one before it.)
ReplaceFreesNew ==
  /\ gui \in {"last", "more"}
  /\ gui' = IF gui = "last" THEN "events" ELSE "dequeue"
  /\ free' = free \cup {hand}
  /\ prev' = hand
  /\ hand' = Null
  /\ UNCHANGED <<thread, mutex, scaler, fill, queue, data, drawn, arrived>>

\* The image dequeued takes the place of the previous one, whose block is freed.
Replace ==
  /\ gui \in {"last", "more"}
  /\ gui' = IF gui = "last" THEN "events" ELSE "dequeue"
  /\ free' = free \cup Held(prev)
  /\ prev' = hand
  /\ hand' = Null
  /\ UNCHANGED <<thread, mutex, scaler, fill, queue, data, drawn, arrived>>
-----------------------------------------------------------------------------
(* The GUI thread: the destructor takes the mutex and gives it back.       *)

Close ==
  /\ GuiStep("events", "acquire")
  /\ UNCHANGED <<thread, mutex, scaler, blockVars, paintVars, arrived>>

CloseAcquire ==
  /\ mutex = "nobody"
  /\ GuiStep("acquire", "release")
  /\ mutex' = "destructor"
  /\ UNCHANGED <<thread, scaler, blockVars, paintVars, arrived>>

CloseRelease ==
  /\ GuiStep("release", "gone")
  /\ mutex' = "nobody"
  /\ UNCHANGED <<thread, scaler, blockVars, paintVars, arrived>>
-----------------------------------------------------------------------------
Callback ==
  \/ Acquire \/ DropPicture \/ KeepScaler \/ NewScaler \/ NewScalerFails
  \/ MallocBlock \/ Enqueue
Paint == BeginPaint \/ Dequeue \/ Replace
Gui == Paint \/ Close \/ CloseAcquire \/ CloseRelease

Next == Call \/ Callback \/ Gui

Spec == Init /\ [][Next]_vars

\* Both threads run; the timer has the widget painted; and the callback leaves
\* the mutex again and again, between two pictures, to the destructor.
Fairness ==
  /\ WF_vars(Callback)
  /\ WF_vars(Paint)
  /\ SF_vars(CloseAcquire) /\ WF_vars(CloseRelease)
FairSpec == Spec /\ Fairness
-----------------------------------------------------------------------------
(* Type invariant.                                                         *)
TypeOK ==
  /\ thread \in {"out", "acquire", "locked", "convert", "enqueue"}
  /\ mutex \in {"nobody", "callback", "destructor"}
  /\ scaler \in {"none", "ready", "broken"}
  /\ fill \in Blocks \cup {Null}
  /\ queue \in Seq(Blocks)
  /\ free \subseteq Blocks
  /\ gui \in {"events", "dequeue", "more", "last", "acquire", "release", "gone"}
  /\ hand \in Blocks \cup {Null} /\ prev \in Blocks \cup {Null}
  /\ data \in [Blocks -> 0..MaxPictures]
  /\ arrived \in 0..MaxPictures
  /\ drawn \in 0..MaxPictures
-----------------------------------------------------------------------------
(* Safety.                                                                 *)

\* Every block is in the pool, in the queue, or in the hands of one thread, in
\* one place: the callback never converts into the block that is being drawn.
BlocksAccounted ==
  /\ Accounted(Blocks, free, queue, Held(fill) \cup Held(hand) \cup Held(prev))
  /\ Held(fill) \cap (Held(hand) \cup Held(prev)) = {}
  /\ Held(hand) \cap Held(prev) = {}

\* The pool has a block whenever the callback asks for one: of the images not in
\* the pool one is being drawn and one was drawn before it, and the callback
\* converts only when the queue holds none.  Without a block it would return
\* with the mutex locked.
BlockAtHand == thread = "convert" => free # {}

\* What the callback saw under the mutex is still true when it queues: enqueue
\* never waits with the mutex held.
RoomForImage == thread = "enqueue" => ~Full

\* Images are drawn in the order in which the pictures arrived.
Undrawn ==
  {data[b] : b \in BufsIn(queue) \cup Held(fill)}
  \cup (IF thread \in {"acquire", "locked", "convert"} THEN {arrived} ELSE {})
Screen == INSTANCE FrameStream WITH produced <- arrived, pending <- Undrawn, shown <- drawn
DrawnInOrder == Screen!Spec

(* Liveness, under FairSpec.                                               *)

\* A callback returns and the destructor gets through, unless the init of a
\* scaler has failed: that callback left the mutex locked for ever.
NobodyBlocks ==
  /\ thread # "out" ~> thread = "out" \/ scaler = "broken" \/ gui = "gone"
  /\ gui = "acquire" ~> gui = "gone" \/ scaler = "broken"
=============================================================================
