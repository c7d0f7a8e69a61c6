-------------------------- MODULE YuvGlWidgetProofs --------------------------
(***************************************************************************)
(* Proofs about the OpenGL widget, for queues and behaviours of any        *)
(* length.  The invariant GlInv adds to the properties that the queue is   *)
(* in order and ahead of what has been drawn; with that, each step of the  *)
(* widget is a step of FrameStream or none.                                *)
(***************************************************************************)
EXTENDS YuvGlWidget, Integers, TLAPS

\* The pictures in the queue come one after the other, after the one drawn last
\* and before the one the callback carries.
InOrder ==
  /\ \A i, j \in DOMAIN queue : i < j => queue[i] < queue[j]
  /\ \A i \in DOMAIN queue : drawn < queue[i] /\ queue[i] <= made
  /\ drawn <= made
  /\ thread \in {"entered", "locked"} =>
       drawn < made /\ \A i \in DOMAIN queue : queue[i] < made

GlInv ==
  /\ TypeOK
  /\ PicturesAccounted
  /\ PaintNeverWaits
  /\ RedrawsLastDrawn
  /\ InOrder
-----------------------------------------------------------------------------
(* The queue, when a picture goes or comes.                                 *)

\* The head that is taken is not in what is left.
LEMMA HeadTaken ==
  ASSUME queue \in Seq(Pictures), queue # <<>>, NoRepeat(queue)
  PROVE  /\ BufsIn(queue) = BufsIn(Tail(queue)) \cup Held(Head(queue))
         /\ BufsIn(Tail(queue)) \cap Held(Head(queue)) = {}
         /\ NoRepeat(Tail(queue))
<1> DEFINE rest == Tail(queue)
<1>1. /\ Len(queue) \in Nat \ {0}
      /\ DOMAIN queue = 1..Len(queue) /\ DOMAIN rest = 1..(Len(queue) - 1)
      /\ Head(queue) = queue[1]
      /\ \A i \in DOMAIN rest : rest[i] = queue[i + 1]
  OBVIOUS
<1>2. /\ \A i \in DOMAIN queue : i = 1 \/ (i - 1 \in DOMAIN rest /\ rest[i - 1] = queue[i])
      /\ \A i \in DOMAIN rest : i \in Int /\ i + 1 \in DOMAIN queue /\ i + 1 # 1
      /\ 1 \in DOMAIN queue
  BY <1>1
<1> HIDE DEF rest
<1>3. {queue[i] : i \in DOMAIN queue} = {rest[i] : i \in DOMAIN rest} \cup {queue[1]}
  BY <1>1, <1>2
<1>4. \A i \in DOMAIN rest : rest[i] = queue[1] => queue[1] = Null
  BY <1>1, <1>2 DEF NoRepeat
<1>5. ASSUME NEW i \in DOMAIN rest, NEW j \in DOMAIN rest, rest[i] = rest[j], rest[i] # Null
      PROVE  i = j
  <2>1. i + 1 = j + 1
    BY <1>1, <1>2, <1>5 DEF NoRepeat
  <2> QED
    BY <1>2, <2>1
<1>6. /\ BufsIn(queue) = {queue[i] : i \in DOMAIN queue} \ {Null}
      /\ BufsIn(rest) = {rest[i] : i \in DOMAIN rest} \ {Null}
      /\ NoRepeat(rest)
  BY <1>5 DEF BufsIn, NoRepeat
<1>7. BufsIn(rest) \cap Held(queue[1]) = {}
  BY <1>4, <1>6 DEF Held
<1>8. BufsIn(queue) = BufsIn(rest) \cup Held(queue[1])
  BY <1>3, <1>6 DEF Held
<1> QED
  BY <1>1, <1>6, <1>7, <1>8 DEF rest

\* One that comes is not there yet.
LEMMA TailPut ==
  ASSUME queue \in Seq(Pictures), NEW m \in Pictures, NoRepeat(queue), m # Null, m \notin BufsIn(queue)
  PROVE  /\ BufsIn(Append(queue, m)) = BufsIn(queue) \cup {m}
         /\ NoRepeat(Append(queue, m))
<1> DEFINE new == Append(queue, m)
<1>1. /\ Len(queue) \in Nat /\ DOMAIN queue = 1..Len(queue)
      /\ DOMAIN new = 1..(Len(queue) + 1) /\ new[Len(queue) + 1] = m
      /\ \A i \in 1..Len(queue) : new[i] = queue[i]
  OBVIOUS
<1>2. {new[i] : i \in DOMAIN new} = {queue[i] : i \in DOMAIN queue} \cup {m}
  BY <1>1
<1>3. \A i \in 1..Len(queue) : queue[i] # m
  BY <1>1 DEF BufsIn
<1> QED
  BY <1>1, <1>2, <1>3 DEF BufsIn, NoRepeat
-----------------------------------------------------------------------------
\* A picture is not the NULL pointer.
LEMMA NullIsNoPicture == Null \notin Pictures /\ Null \notin 0..MaxPictures
BY GlWidgetAssumption DEF Pictures

\* What is left of the queue when its head has been taken.
LEMMA RestOfQueue ==
  ASSUME queue \in Seq(Pictures), queue # <<>>
  PROVE  /\ Tail(queue) \in Seq(Pictures)
         /\ Head(queue) = queue[1] /\ Head(queue) \in Pictures
         /\ 1 \in DOMAIN queue
         /\ Len(queue) \in Nat \ {0}
         /\ Len(Tail(queue)) = Len(queue) - 1
         /\ DOMAIN Tail(queue) = 1..(Len(queue) - 1)
         /\ \A i \in DOMAIN Tail(queue) : i + 1 \in DOMAIN queue /\ Tail(queue)[i] = queue[i + 1]
OBVIOUS

\* What is in the queue when a picture has been put to it.
LEMMA LongerQueue ==
  ASSUME queue \in Seq(Pictures), NEW m \in Pictures
  PROVE  /\ Append(queue, m) \in Seq(Pictures)
         /\ Append(queue, m) # <<>>
         /\ Len(queue) \in Nat
         /\ DOMAIN queue = 1..Len(queue)
         /\ DOMAIN Append(queue, m) = 1..(Len(queue) + 1)
         /\ Append(queue, m)[Len(queue) + 1] = m
         /\ \A i \in DOMAIN queue : Append(queue, m)[i] = queue[i]
OBVIOUS
-----------------------------------------------------------------------------
\* Every step keeps the types.
LEMMA GlTypeStep ==
  ASSUME TypeOK, PaintNeverWaits, InOrder, [Next]_vars
  PROVE  TypeOK'
<1> USE DEF TypeOK
<1>1. CASE Start \/ Stop \/ Joined \/ Expose \/ InitializeGL \/ BeginPaint \/ Close
           \/ Acquire \/ Release
  BY <1>1 DEF Start, Stop, Joined, Expose, InitializeGL, BeginPaint, Close, Acquire, Release,
              GuiStep, queueVars
<1>2. CASE SkipPicture \/ DrawPicture
  <2>1. Head(queue) \in Pictures /\ Tail(queue) \in Seq(Pictures)
    BY <1>2, RestOfQueue DEF SkipPicture, DrawPicture, TakePicture
  <2>2. deleted' \subseteq Pictures /\ prev' \in Pictures /\ queue' \in Seq(Pictures)
    BY <1>2, <2>1 DEF SkipPicture, DrawPicture, TakePicture, Held
  <2>3. drawn' \in 0..MaxPictures
    BY <1>2, <2>1, GlWidgetAssumption DEF SkipPicture, DrawPicture, Pictures
  <2> QED
    BY <1>2, <2>2, <2>3 DEF SkipPicture, DrawPicture, GuiStep
<1>3. CASE Delete
  BY <1>3 DEF Delete, GuiStep, Held
<1>4. CASE Enter \/ Lock
  BY <1>4, GlWidgetAssumption DEF Enter, Lock, CallbackStep, queueVars
<1>5. CASE Enqueue
  <2>1. made \in Pictures
    BY <1>5, GlWidgetAssumption DEF Enqueue, CallbackStep, InOrder, Pictures
  <2> QED
    BY <1>5, <2>1, LongerQueue DEF Enqueue, CallbackStep
<1>6. CASE ThreadEnds \/ UseDeleted
  BY <1>6 DEF ThreadEnds, UseDeleted, queueVars
<1>7. CASE UNCHANGED vars
  BY <1>7 DEF vars, queueVars
<1> QED
  BY <1>1, <1>2, <1>3, <1>4, <1>5, <1>6, <1>7
     DEF Next, Gui, Thread, Paint, Destroy, Callback

\* Every step keeps each picture in one place.
LEMMA GlAccountStep ==
  ASSUME TypeOK, PicturesAccounted, InOrder, [Next]_vars
  PROVE  PicturesAccounted'
<1> DEFINE Elsewhere == Carried \cup Held(prev)
<1>1. CASE Start \/ Stop \/ Joined \/ Expose \/ InitializeGL \/ BeginPaint \/ Close
           \/ Acquire \/ Release \/ Lock \/ ThreadEnds \/ UseDeleted \/ UNCHANGED vars
  <2>1. UNCHANGED <<queueVars, made>> /\ Carried' = Carried
    BY <1>1 DEF Start, Stop, Joined, Expose, InitializeGL, BeginPaint, Close, Acquire, Release,
                Lock, ThreadEnds, UseDeleted, vars, CallbackStep, Carried
  <2> QED
    BY <2>1 DEF PicturesAccounted, queueVars
<1>2. CASE SkipPicture \/ DrawPicture
  <2>1. /\ queue \in Seq(Pictures) /\ queue # <<>>
        /\ queue' = Tail(queue) /\ prev' = Head(queue)
        /\ deleted' = deleted \cup Held(prev)
        /\ made' = made /\ Carried' = Carried
    BY <1>2 DEF SkipPicture, DrawPicture, TakePicture, TypeOK, Carried
  <2>2. Accounted(1..made, deleted, Tail(queue), Elsewhere \cup Held(Head(queue)))
    BY <2>1, HeadTaken DEF PicturesAccounted, Accounted
  <2>3. Held(prev) \cap Held(Head(queue)) = {} /\ Carried \cap Held(Head(queue)) = {}
    <3>1. Held(Head(queue)) \subseteq BufsIn(queue)
      BY <2>1, HeadTaken DEF PicturesAccounted, Accounted
    <3> QED
      BY <3>1 DEF PicturesAccounted, Accounted
  <2>4. Carried \cap Held(prev) = {}
    BY DEF PicturesAccounted
  <2>5. Accounted(1..made, deleted \cup Held(prev), Tail(queue), Carried \cup Held(Head(queue)))
    BY <2>2, <2>3, <2>4 DEF Accounted
  <2> QED
    BY <2>1, <2>3, <2>5 DEF PicturesAccounted
<1>3. CASE Delete
  <2>1. /\ UNCHANGED <<queue, made>> /\ Carried' = Carried
        /\ deleted' = deleted \cup Held(prev) /\ Held(prev') = {}
    BY <1>3 DEF Delete, Carried, Held
  <2> QED
    BY <2>1 DEF PicturesAccounted, Accounted
<1>4. CASE Enter
  <2>1. /\ UNCHANGED <<queue, prev, deleted>>
        /\ made \in Nat /\ made' = made + 1
        /\ Carried = {} /\ Carried' = {made + 1}
    BY <1>4 DEF Enter, CallbackStep, queueVars, Carried, TypeOK
  <2>2. 1..(made + 1) = (1..made) \cup {made + 1} /\ made + 1 \notin 1..made
    BY <2>1
  <2> QED
    BY <2>1, <2>2 DEF PicturesAccounted, Accounted
<1>5. CASE Enqueue
  <2>1. /\ queue \in Seq(Pictures) /\ queue' = Append(queue, made)
        /\ UNCHANGED <<prev, made, deleted>>
        /\ Carried = {made} /\ Carried' = {}
    BY <1>5 DEF Enqueue, CallbackStep, Carried, TypeOK
  <2>2. made \in Pictures /\ made # Null
    BY <1>5, GlWidgetAssumption DEF Enqueue, CallbackStep, InOrder, TypeOK, Pictures
  <2>3. Accounted(1..made, deleted, Append(queue, made), Elsewhere \ {made})
    BY <2>1, <2>2, TailPut DEF PicturesAccounted, Accounted
  <2>4. Elsewhere \ {made} = Held(prev)
    BY <2>1 DEF PicturesAccounted
  <2> QED
    BY <2>1, <2>3, <2>4 DEF PicturesAccounted
<1> QED
  BY <1>1, <1>2, <1>3, <1>4, <1>5 DEF Next, Gui, Thread, Paint, Destroy, Callback

\* The queue is not empty when dequeue is called, and _prev_data is the picture
\* on the screen when no paint is under way.
LEMMA GlPaintStep ==
  ASSUME TypeOK, PaintNeverWaits, RedrawsLastDrawn, [Next]_vars
  PROVE  PaintNeverWaits' /\ RedrawsLastDrawn'
<1>1. CASE Start \/ Stop \/ Joined \/ Expose \/ InitializeGL \/ BeginPaint \/ Close
           \/ Acquire \/ Release \/ Delete
  BY <1>1 DEF Start, Stop, Joined, Expose, InitializeGL, BeginPaint, Close, Acquire, Release,
              Delete, GuiStep, queueVars, PaintNeverWaits, RedrawsLastDrawn
<1>2. CASE SkipPicture
  <2>1. queue \in Seq(Pictures) /\ queue # <<>> /\ queue' = Tail(queue) /\ Len(queue) - 1 > 2
    BY <1>2 DEF SkipPicture, TakePicture, Left, TypeOK
  <2>2. Len(queue') \in Nat \ {0}
    BY <2>1, RestOfQueue
  <2>3. queue' # <<>>
    BY <2>2
  <2> QED
    BY <1>2, <2>3 DEF SkipPicture, GuiStep, PaintNeverWaits, RedrawsLastDrawn
<1>3. CASE DrawPicture
  <2>1. /\ queue \in Seq(Pictures) /\ queue # <<>> /\ queue' = Tail(queue)
        /\ prev' = Head(queue) /\ drawn' = Head(queue)
        /\ gui' = IF Len(queue) - 1 = 0 THEN "events" ELSE "paint"
    BY <1>3 DEF DrawPicture, GuiStep, TakePicture, Left, TypeOK
  <2>2. gui' = "paint" => queue' # <<>>
    BY <2>1, RestOfQueue
  <2>3. Held(prev') = {drawn'} \ {0}
    BY <2>1, RestOfQueue, NullIsNoPicture DEF Held, Pictures
  <2> QED
    BY <2>2, <2>3 DEF PaintNeverWaits, RedrawsLastDrawn
<1>4. CASE Enqueue
  <2>1. queue' # <<>>
    BY <1>4 DEF Enqueue, TypeOK
  <2> QED
    BY <1>4, <2>1 DEF Enqueue, PaintNeverWaits, RedrawsLastDrawn
<1>5. CASE Enter \/ Lock \/ ThreadEnds \/ UseDeleted \/ UNCHANGED vars
  BY <1>5 DEF Enter, Lock, ThreadEnds, UseDeleted, vars, queueVars,
              PaintNeverWaits, RedrawsLastDrawn
<1> QED
  BY <1>1, <1>2, <1>3, <1>4, <1>5 DEF Next, Gui, Thread, Paint, Destroy, Callback

\* The queue stays in order.
LEMMA GlOrderStep ==
  ASSUME TypeOK, InOrder, [Next]_vars
  PROVE  InOrder'
<1>1. CASE Start \/ Stop \/ Joined \/ Expose \/ InitializeGL \/ BeginPaint \/ Close
           \/ Acquire \/ Release \/ Delete \/ Lock \/ ThreadEnds \/ UseDeleted \/ UNCHANGED vars
  <2>1. UNCHANGED <<queue, made, drawn>>
    BY <1>1 DEF Start, Stop, Joined, Expose, InitializeGL, BeginPaint, Close, Acquire, Release,
                Delete, Lock, ThreadEnds, UseDeleted, vars, queueVars
  <2>2. thread' \in {"entered", "locked"} => thread \in {"entered", "locked"}
    BY <1>1 DEF Start, Stop, Joined, Expose, InitializeGL, BeginPaint, Close, Acquire, Release,
                Delete, Lock, ThreadEnds, UseDeleted, vars, CallbackStep
  <2> QED
    BY <2>1, <2>2 DEF InOrder
<1>2. CASE SkipPicture \/ DrawPicture
  <2>1. /\ queue \in Seq(Pictures) /\ queue # <<>> /\ queue' = Tail(queue)
        /\ UNCHANGED <<made, thread>>
        /\ drawn' \in {drawn, Head(queue)}
    BY <1>2 DEF SkipPicture, DrawPicture, TakePicture, TypeOK
  <2> DEFINE rest == Tail(queue)
  <2>2. /\ Head(queue) = queue[1] /\ 1 \in DOMAIN queue
        /\ \A i \in DOMAIN rest : i \in Nat \ {0} /\ i + 1 \in DOMAIN queue /\ rest[i] = queue[i + 1]
    BY <2>1, RestOfQueue
  <2>3. /\ drawn \in Nat /\ made \in Nat
        /\ \A i \in DOMAIN queue : queue[i] \in Nat
    BY <2>1, GlWidgetAssumption DEF TypeOK, Pictures
  <2>4. \A i, j \in DOMAIN rest : i < j => rest[i] < rest[j]
    BY <2>2 DEF InOrder
  <2>5. \A i \in DOMAIN rest : queue[1] < rest[i] /\ drawn < rest[i] /\ rest[i] <= made
    BY <2>2, <2>3 DEF InOrder
  <2>6. drawn < queue[1] /\ queue[1] <= made
    BY <2>2 DEF InOrder
  <2>7. thread \in {"entered", "locked"} =>
          queue[1] < made /\ \A i \in DOMAIN rest : rest[i] < made
    BY <2>2 DEF InOrder
  <2> HIDE DEF rest
  <2> QED
    BY <2>1, <2>2, <2>3, <2>4, <2>5, <2>6, <2>7 DEF InOrder, rest
<1>3. CASE Enter
  <2>1. /\ UNCHANGED <<queue, drawn>> /\ made' = made + 1
        /\ made \in Nat /\ drawn \in Nat
        /\ \A i \in DOMAIN queue : queue[i] \in Nat
    BY <1>3, GlWidgetAssumption DEF Enter, queueVars, TypeOK, Pictures
  <2> QED
    BY <2>1 DEF InOrder
<1>4. CASE Enqueue
  <2>1. /\ queue \in Seq(Pictures) /\ queue' = Append(queue, made)
        /\ UNCHANGED <<made, drawn>>
        /\ thread = "locked" /\ thread' = "getq"
    BY <1>4 DEF Enqueue, CallbackStep, TypeOK
  <2>2. made \in Pictures /\ drawn < made /\ made \in Nat
    BY <2>1, GlWidgetAssumption DEF InOrder, TypeOK, Pictures
  <2> DEFINE longer == Append(queue, made)
  <2>3. /\ DOMAIN longer = 1..(Len(queue) + 1) /\ DOMAIN queue = 1..Len(queue)
        /\ Len(queue) \in Nat
        /\ longer[Len(queue) + 1] = made
        /\ \A i \in DOMAIN queue : longer[i] = queue[i]
    BY <2>1, <2>2, LongerQueue
  <2>4. \A i \in DOMAIN queue : drawn < queue[i] /\ queue[i] < made
    BY <2>1 DEF InOrder
  <2>5. \A i, j \in DOMAIN longer : i < j => longer[i] < longer[j]
    <3>1. \A i, j \in DOMAIN longer : i < j => i \in DOMAIN queue
      BY <2>3
    <3>2. \A j \in DOMAIN longer : j \in DOMAIN queue \/ j = Len(queue) + 1
      BY <2>3
    <3> QED
      BY <2>3, <2>4, <3>1, <3>2 DEF InOrder
  <2>6. \A i \in DOMAIN longer : drawn < longer[i] /\ longer[i] <= made
    <3>1. \A i \in DOMAIN longer : i \in DOMAIN queue \/ i = Len(queue) + 1
      BY <2>3
    <3>2. \A i \in DOMAIN queue : queue[i] <= made
      BY DEF InOrder
    <3> QED
      BY <2>2, <2>3, <2>4, <3>1, <3>2
  <2> HIDE DEF longer
  <2> QED
    BY <2>1, <2>2, <2>5, <2>6 DEF InOrder, longer
<1> QED
  BY <1>1, <1>2, <1>3, <1>4 DEF Next, Gui, Thread, Paint, Destroy, Callback
-----------------------------------------------------------------------------
LEMMA GlInit == Init => GlInv
<1> SUFFICES ASSUME Init PROVE GlInv
  OBVIOUS
<1>1. TypeOK
  <2>1. queue \in Seq(Pictures) /\ 0 \in 0..MaxPictures
    BY GlWidgetAssumption DEF Init
  <2> QED
    BY <2>1 DEF Init, TypeOK
<1>2. PicturesAccounted
  BY DEF Init, PicturesAccounted, Accounted, BufsIn, Held, Carried, NoRepeat
<1>3. PaintNeverWaits /\ RedrawsLastDrawn /\ InOrder
  BY DEF Init, PaintNeverWaits, RedrawsLastDrawn, InOrder, Held
<1> QED
  BY <1>1, <1>2, <1>3 DEF GlInv

\* The inductive invariant holds of every behaviour.
LEMMA GlInvariant == Spec => []GlInv
<1>1. GlInv /\ [Next]_vars => GlInv'
  BY GlTypeStep, GlAccountStep, GlPaintStep, GlOrderStep DEF GlInv
<1> QED
  BY GlInit, <1>1, PTL DEF Spec

\* Every variable stays in its type.
THEOREM GlTypeCorrect == Spec => []TypeOK
BY GlInvariant, PTL DEF GlInv

\* Every picture is with the callback, in the queue, on the screen or deleted,
\* in one place, however the two threads interleave.
THEOREM GlPicturesAccounted == Spec => []PicturesAccounted
BY GlInvariant, PTL DEF GlInv

\* The GUI thread finds a picture whenever it calls dequeue.
THEOREM GlPaintNeverWaits == Spec => []PaintNeverWaits
BY GlInvariant, PTL DEF GlInv

\* Between paints _prev_data is the picture on the screen.
THEOREM GlRedrawsLastDrawn == Spec => []RedrawsLastDrawn
BY GlInvariant, PTL DEF GlInv
-----------------------------------------------------------------------------
\* Every step of the widget is a step of the stream of pictures, or none.
LEMMA GlScreenStep ==
  ASSUME GlInv, [Next]_vars
  PROVE  [Screen!Next]_(Screen!vars)
<1> DEFINE Queued == {queue[i] : i \in DOMAIN queue}
<1>1. CASE Start \/ Stop \/ Joined \/ Expose \/ InitializeGL \/ BeginPaint \/ Close
           \/ Acquire \/ Release \/ Delete \/ Lock \/ ThreadEnds \/ UseDeleted \/ UNCHANGED vars
  <2>1. UNCHANGED <<queue, made, drawn>> /\ Carried' = Carried
    BY <1>1 DEF Start, Stop, Joined, Expose, InitializeGL, BeginPaint, Close, Acquire, Release,
                Delete, Lock, ThreadEnds, UseDeleted, vars, queueVars, CallbackStep, Carried
  <2>2. UNCHANGED <<made, Undrawn, drawn>>
    BY <2>1 DEF Undrawn
  <2> QED
    BY <2>2 DEF Screen!vars
<1>2. CASE SkipPicture \/ DrawPicture
  <2>1. /\ queue \in Seq(Pictures) /\ queue # <<>> /\ queue' = Tail(queue)
        /\ made' = made /\ Carried' = Carried
    BY <1>2 DEF SkipPicture, DrawPicture, TakePicture, GlInv, TypeOK, Carried
  <2> DEFINE rest == Tail(queue)
             first == queue[1]
  <2>2. /\ Head(queue) = first /\ 1 \in DOMAIN queue
        /\ \A i \in DOMAIN rest : i + 1 \in DOMAIN queue /\ rest[i] = queue[i + 1] /\ i \in Nat \ {0}
        /\ \A i \in DOMAIN queue : queue[i] \in Nat
        /\ \A i \in DOMAIN queue : queue[i] = first \/ \E j \in DOMAIN rest : rest[j] = queue[i]
    <3>1. DOMAIN queue = 1..Len(queue) /\ \A i \in DOMAIN queue : queue[i] \in Nat
      <4>1. DOMAIN queue = 1..Len(queue) /\ \A i \in DOMAIN queue : queue[i] \in Pictures
        BY <2>1
      <4>2. Pictures \subseteq Nat
        BY GlWidgetAssumption DEF Pictures
      <4> QED
        BY <4>1, <4>2
    <3>2. /\ Head(queue) = first /\ 1 \in DOMAIN queue
          /\ DOMAIN rest = 1..(Len(queue) - 1) /\ Len(queue) \in Nat \ {0}
          /\ \A i \in DOMAIN rest : i + 1 \in DOMAIN queue /\ rest[i] = queue[i + 1]
      BY <2>1, RestOfQueue
    <3>3. ASSUME NEW i \in DOMAIN queue, queue[i] # first
          PROVE  \E j \in DOMAIN rest : rest[j] = queue[i]
      <4>1. i - 1 \in DOMAIN rest /\ (i - 1) + 1 = i
        BY <3>1, <3>2, <3>3
      <4> QED
        BY <3>2, <4>1
    <3> QED
      BY <3>1, <3>2, <3>3
  <2>3. \A i \in DOMAIN rest : first < rest[i]
    BY <2>2 DEF GlInv, InOrder
  <2>4. first \notin Carried /\ \A p \in Carried : first < p
    BY <2>2 DEF GlInv, InOrder, Carried
  <2>5. {rest[i] : i \in DOMAIN rest} = Queued \ {first}
    <3>1. \A i \in DOMAIN rest : rest[i] \in Queued /\ rest[i] # first
      BY <2>2, <2>3
    <3>2. \A i \in DOMAIN queue : queue[i] # first => queue[i] \in {rest[j] : j \in DOMAIN rest}
      BY <2>2
    <3> QED
      BY <3>1, <3>2
  <2>6. Undrawn' = Undrawn \ {first} /\ first \in Undrawn
    <3>1. {queue'[i] : i \in DOMAIN queue'} = Queued \ {first}
      BY <2>1, <2>5
    <3>2. first \in Queued
      BY <2>2
    <3> HIDE DEF Queued, first
    <3> QED
      BY <2>1, <2>4, <3>1, <3>2 DEF Undrawn, Queued
  <2>7. \A p \in Undrawn : first <= p
    <3>1. \A i \in DOMAIN queue : first <= queue[i]
      BY <2>2, <2>3
    <3>2. \A p \in Carried : first <= p
      BY <2>2, <2>4 DEF GlInv, TypeOK, Carried
    <3> QED
      BY <3>1, <3>2 DEF Undrawn
  <2>8. drawn < first
    BY <2>2 DEF GlInv, InOrder
  <2>9. CASE SkipPicture
    <3>1. drawn' = drawn
      BY <2>9 DEF SkipPicture
    <3> QED
      BY <2>1, <2>6, <3>1 DEF Screen!Next, Screen!Drop
  <2>10. CASE DrawPicture
    <3>1. drawn' = first
      BY <2>2, <2>10 DEF DrawPicture
    <3> QED
      BY <2>1, <2>6, <2>7, <2>8, <3>1 DEF Screen!Next, Screen!Show
  <2> QED
    BY <1>2, <2>9, <2>10
<1>3. CASE Enter
  <2>1. /\ UNCHANGED <<queue, drawn>> /\ made' = made + 1
        /\ Carried = {} /\ Carried' = {made'}
    BY <1>3 DEF Enter, CallbackStep, queueVars, Carried
  <2>2. Undrawn' = Undrawn \cup {made'}
    BY <2>1 DEF Undrawn
  <2> QED
    BY <2>1, <2>2 DEF Screen!Next, Screen!Produce
<1>4. CASE Enqueue
  <2>1. /\ queue \in Seq(Pictures) /\ queue' = Append(queue, made)
        /\ UNCHANGED <<made, drawn>>
        /\ Carried = {made} /\ Carried' = {}
    BY <1>4 DEF Enqueue, CallbackStep, Carried, GlInv, TypeOK
  <2>2. made \in Pictures
    BY <1>4, GlWidgetAssumption DEF Enqueue, CallbackStep, GlInv, InOrder, TypeOK, Pictures
  <2>3. {queue'[i] : i \in DOMAIN queue'} = Queued \cup {made}
    BY <2>1, <2>2, LongerQueue
  <2>4. Undrawn' = Undrawn
    BY <2>1, <2>3 DEF Undrawn
  <2> QED
    BY <2>1, <2>4 DEF Screen!vars
<1> QED
  BY <1>1, <1>2, <1>3, <1>4 DEF Next, Gui, Thread, Paint, Destroy, Callback

\* The widget implements the lossy ordered stream: it may skip pictures, and
\* draws those it draws once and in the order of their arrival.
THEOREM GlDrawnInOrder == Spec => DrawnInOrder
<1>1. Init => Screen!Init
  BY DEF Init, Screen!Init, Undrawn, Carried
<1>2. GlInv /\ [Next]_vars => [Screen!Next]_(Screen!vars)
  BY GlScreenStep
<1> QED
  BY GlInvariant, <1>1, <1>2, PTL DEF Spec, DrawnInOrder, Screen!Spec
=============================================================================
