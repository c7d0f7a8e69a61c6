--------------------------- MODULE OglWidgetProofs ---------------------------
(***************************************************************************)
(* That the X11 widget accounts for every picture, that its display stays  *)
(* open under the painter, and that pictures are drawn in the order of     *)
(* their arrival, for any high-water mark and any number of pictures and   *)
(* of calls to init and release.                                           *)
(***************************************************************************)
EXTENDS OglWidget, Integers, TLAPS

Pictures == 1..MaxPictures
Painting == {"setup", "test", "dequeue", "draw"}

OglTypeOK ==
  /\ owner \in {"idle", "release", "deleted"}
  /\ painter \in Painting \cup {"none", "opening", "failed", "gone", "spent"}
  /\ callback \in {"idle", "enqueue"}
  /\ isRun \in BOOLEAN /\ isInited \in BOOLEAN /\ isStoped \in BOOLEAN
  /\ display \in {"null", "open", "closed"}
  /\ qstate \in QueueState
  /\ queue \in Seq(Pictures)
  /\ hand \in Pictures \cup {Null}
  /\ made \in 0..MaxPictures /\ drawn \in 0..MaxPictures
  /\ deleted \subseteq Pictures /\ leaked \subseteq Pictures
  /\ crashed \in BOOLEAN

\* Numbers ascend from the picture drawn last over the one in the painter's hand
\* and the queue to the one the callback carries.
InOrder ==
  /\ \A i, j \in DOMAIN queue : i < j => queue[i] < queue[j]
  /\ \A i \in DOMAIN queue : drawn < queue[i] /\ queue[i] <= made
  /\ hand # Null => /\ drawn < hand /\ hand <= made
                    /\ \A i \in DOMAIN queue : hand < queue[i]
  /\ drawn <= made
  /\ callback = "enqueue" => /\ drawn < made /\ hand # made
                             /\ \A i \in DOMAIN queue : queue[i] < made

\* yuv_data is NULL but while a picture is drawn: so the painter tells a picture
\* from a failed dequeue.
HandHeld == hand # Null <=> painter = "draw"

\* _is_stoped is set only when there is no painter yet, or its loop is over.
StopedIsGone == isStoped => painter \in {"none", "gone"}

OglInv ==
  /\ OglTypeOK
  /\ PicturesAccounted
  /\ DisplayOutlivesPainter
  /\ InOrder /\ HandHeld /\ StopedIsGone
-----------------------------------------------------------------------------
(* The queue.                                                              *)

\* A picture is not the NULL pointer.
LEMMA NullIsNoPicture == Null \notin Pictures /\ Pictures \subseteq Nat /\ MaxPictures \in Nat
BY OglAssumption DEF Pictures

\* The head of the queue, and what is left of it without.
LEMMA RestOfQueue ==
  ASSUME queue \in Seq(Pictures), queue # <<>>
  PROVE  /\ Tail(queue) \in Seq(Pictures)
         /\ Head(queue) = queue[1] /\ Head(queue) \in Pictures
         /\ 1 \in DOMAIN queue /\ DOMAIN queue = 1..Len(queue)
         /\ Len(queue) \in Nat \ {0}
         /\ DOMAIN Tail(queue) = 1..(Len(queue) - 1)
         /\ \A i \in DOMAIN Tail(queue) : i + 1 \in DOMAIN queue /\ Tail(queue)[i] = queue[i + 1]
OBVIOUS

\* What is in the queue when a picture has been put to it.
LEMMA LongerQueue ==
  ASSUME queue \in Seq(Pictures), NEW m \in Pictures
  PROVE  /\ Append(queue, m) \in Seq(Pictures)
         /\ Len(queue) \in Nat
         /\ DOMAIN queue = 1..Len(queue)
         /\ DOMAIN Append(queue, m) = 1..(Len(queue) + 1)
         /\ Append(queue, m)[Len(queue) + 1] = m
         /\ \A i \in DOMAIN queue : Append(queue, m)[i] = queue[i]
OBVIOUS

\* As sets: the head goes out ...
LEMMA HeadGoes ==
  ASSUME queue \in Seq(Pictures), queue # <<>>, InOrder
  PROVE  /\ BufsIn(queue) = {queue[i] : i \in DOMAIN queue}
         /\ BufsIn(Tail(queue)) = {Tail(queue)[i] : i \in DOMAIN Tail(queue)}
         /\ BufsIn(queue) = BufsIn(Tail(queue)) \cup {Head(queue)}
         /\ \A p \in BufsIn(Tail(queue)) : Head(queue) < p
         /\ NoRepeat(Tail(queue))
<1> DEFINE rest == Tail(queue)
<1>1. /\ Head(queue) = queue[1] /\ 1 \in DOMAIN queue /\ DOMAIN queue = 1..Len(queue)
      /\ Len(queue) \in Nat \ {0} /\ DOMAIN rest = 1..(Len(queue) - 1)
      /\ \A i \in DOMAIN rest : i + 1 \in DOMAIN queue /\ rest[i] = queue[i + 1]
  BY RestOfQueue
<1>2. /\ \A i \in DOMAIN queue : queue[i] \in Pictures
      /\ Null \notin Pictures /\ Pictures \subseteq Nat
  BY NullIsNoPicture
<1> HIDE DEF rest
<1>3. /\ BufsIn(queue) = {queue[i] : i \in DOMAIN queue}
      /\ BufsIn(rest) = {rest[i] : i \in DOMAIN rest}
  BY <1>1, <1>2 DEF BufsIn
<1>4. \A i \in DOMAIN queue : i = 1 \/ (i - 1 \in DOMAIN rest /\ rest[i - 1] = queue[i])
  BY <1>1
<1>5. \A i \in DOMAIN rest : queue[1] < rest[i]
  <2>1. \A i \in DOMAIN rest : 1 < i + 1
    BY <1>1
  <2> QED
    BY <1>1, <2>1 DEF InOrder
<1>6. {queue[i] : i \in DOMAIN queue} = {rest[i] : i \in DOMAIN rest} \cup {queue[1]}
  BY <1>1, <1>4
<1>7. NoRepeat(rest)
  <2> SUFFICES ASSUME NEW i \in DOMAIN rest, NEW j \in DOMAIN rest, i < j
               PROVE  rest[i] # rest[j]
    BY <1>1 DEF NoRepeat
  <2>1. i + 1 < j + 1
    BY <1>1
  <2>2. queue[i + 1] < queue[j + 1] /\ queue[i + 1] \in Nat /\ queue[j + 1] \in Nat
    BY <1>1, <1>2, <2>1 DEF InOrder
  <2> QED
    BY <1>1, <2>2
<1> QED
  BY <1>1, <1>3, <1>5, <1>6, <1>7 DEF rest

\* ... and what the callback carries comes in.
LEMMA PictureComes ==
  ASSUME queue \in Seq(Pictures), NEW m \in Pictures,
         NoRepeat(queue), m \notin BufsIn(queue)
  PROVE  /\ BufsIn(Append(queue, m)) = BufsIn(queue) \cup {m}
         /\ NoRepeat(Append(queue, m))
<1> DEFINE longer == Append(queue, m)
<1>1. /\ DOMAIN longer = 1..(Len(queue) + 1) /\ DOMAIN queue = 1..Len(queue)
      /\ Len(queue) \in Nat /\ longer[Len(queue) + 1] = m
      /\ \A i \in DOMAIN queue : longer[i] = queue[i]
  BY LongerQueue
<1>2. m # Null /\ \A i \in DOMAIN queue : queue[i] # m
  BY NullIsNoPicture DEF BufsIn
<1> HIDE DEF longer
<1>3. {longer[i] : i \in DOMAIN longer} = {queue[i] : i \in DOMAIN queue} \cup {m}
  BY <1>1
<1>4. BufsIn(longer) = BufsIn(queue) \cup {m}
  BY <1>2, <1>3 DEF BufsIn
<1>5. NoRepeat(longer)
  BY <1>1, <1>2 DEF NoRepeat
<1> QED
  BY <1>4, <1>5 DEF longer
-----------------------------------------------------------------------------
(* The steps.                                                              *)

LEMMA OglTypeStep ==
  ASSUME OglTypeOK, InOrder, HandHeld, [Next]_vars
  PROVE  OglTypeOK'
<1> USE DEF OglTypeOK, Painting, QueueState
<1>1. CASE RunPainter \/ Release \/ Delete
  BY <1>1 DEF RunPainter, Release, Delete, OwnerStep, CreateOnce, pictures, flags
<1>2. CASE CloseDisplay \/ CloseNoDisplay \/ UseDeleted
  BY <1>2 DEF CloseDisplay, CloseNoDisplay, UseDeleted, OwnerStep, pictures, flags
<1>3. CASE OpenDisplay \/ SetupFails \/ SetupDone
  BY <1>3 DEF OpenDisplay, SetupFails, SetupDone, PainterStep, pictures, flags
<1>4. CASE TestRun \/ PainterStops \/ DequeueFails
  BY <1>4 DEF TestRun, PainterStops, DequeueFails, PainterStep, pictures, flags
<1>5. CASE Dequeue
  <2>1. Head(queue) \in Pictures /\ Tail(queue) \in Seq(Pictures)
    BY <1>5, RestOfQueue DEF Dequeue, CanGetq
  <2> QED
    BY <1>5, <2>1 DEF Dequeue, PainterStep, flags
<1>6. CASE Draw
  <2>1. hand \in Pictures /\ Pictures \subseteq 0..MaxPictures
    BY <1>6, NullIsNoPicture DEF Draw, PainterStep, HandHeld, Pictures
  <2> QED
    BY <1>6, <2>1 DEF Draw, PainterStep, flags
<1>7. CASE Enter
  BY <1>7, NullIsNoPicture DEF Enter, CallbackStep, flags
<1>8. CASE Enqueue \/ EnqueueFails
  <2>1. made \in Pictures
    BY <1>8, NullIsNoPicture DEF Enqueue, EnqueueFails, CallbackStep, InOrder, Pictures
  <2>2. Append(queue, made) \in Seq(Pictures)
    BY <2>1, LongerQueue
  <2> QED
    BY <1>8, <2>1, <2>2 DEF Enqueue, EnqueueFails, CallbackStep, flags
<1>9. CASE UNCHANGED vars
  BY <1>9 DEF vars, pictures, flags
<1> QED
  BY <1>1, <1>2, <1>3, <1>4, <1>5, <1>6, <1>7, <1>8, <1>9
     DEF Next, Owner, Painter, Callback, Close, Setup, Loop, PutPicture

\* Who has the display.
LEMMA OglDisplayStep ==
  ASSUME OglTypeOK, DisplayOutlivesPainter, StopedIsGone, HandHeld, [Next]_vars
  PROVE  DisplayOutlivesPainter' /\ StopedIsGone' /\ HandHeld'
<1> USE DEF DisplayOutlivesPainter, StopedIsGone, HandHeld
<1>1. CASE RunPainter \/ Release \/ Delete
  BY <1>1 DEF RunPainter, Release, Delete, OwnerStep, CreateOnce, pictures, flags
<1>2. CASE CloseDisplay \/ CloseNoDisplay \/ UseDeleted
  BY <1>2 DEF CloseDisplay, CloseNoDisplay, UseDeleted, OwnerStep, pictures, flags
<1>3. CASE OpenDisplay \/ SetupFails \/ SetupDone
  BY <1>3 DEF OpenDisplay, SetupFails, SetupDone, PainterStep, pictures, flags
<1>4. CASE TestRun \/ PainterStops \/ DequeueFails
  BY <1>4 DEF TestRun, PainterStops, DequeueFails, PainterStep, pictures, flags
<1>5. CASE Dequeue
  <2>1. Head(queue) # Null
    BY <1>5, RestOfQueue, NullIsNoPicture DEF Dequeue, CanGetq, OglTypeOK
  <2> QED
    BY <1>5, <2>1 DEF Dequeue, PainterStep, flags
<1>6. CASE Draw
  BY <1>6 DEF Draw, PainterStep, flags
<1>7. CASE Enter \/ Enqueue \/ EnqueueFails
  BY <1>7 DEF Enter, Enqueue, EnqueueFails, CallbackStep, flags
<1>8. CASE UNCHANGED vars
  BY <1>8 DEF vars, pictures, flags
<1> QED
  BY <1>1, <1>2, <1>3, <1>4, <1>5, <1>6, <1>7, <1>8
     DEF Next, Owner, Painter, Callback, Close, Setup, Loop, PutPicture

\* A step that moves no picture.
MovesNone == UNCHANGED <<callback, pictures>>

LEMMA OtherSteps ==
  ASSUME HandHeld, [Next]_vars
  PROVE  MovesNone \/ Dequeue \/ Draw \/ Enter \/ Enqueue \/ EnqueueFails
<1>1. RunPainter \/ Release \/ Delete \/ CloseDisplay \/ CloseNoDisplay \/ UseDeleted => MovesNone
  BY DEF RunPainter, Release, Delete, CloseDisplay, CloseNoDisplay, UseDeleted, MovesNone
<1>2. OpenDisplay \/ SetupFails \/ SetupDone \/ TestRun \/ PainterStops \/ DequeueFails => MovesNone
  BY DEF OpenDisplay, SetupFails, SetupDone, TestRun, PainterStops, DequeueFails, MovesNone
<1>3. UNCHANGED vars => MovesNone
  BY DEF vars, MovesNone
<1> QED
  BY <1>1, <1>2, <1>3 DEF Next, Owner, Painter, Callback, Close, Setup, Loop, PutPicture

\* Every step keeps each picture in one place.
LEMMA OglAccountStep ==
  ASSUME OglTypeOK, PicturesAccounted, InOrder, HandHeld, [Next]_vars
  PROVE  PicturesAccounted'
<1> DEFINE Gone == deleted \cup leaked
           Out == Carried \cup Held(hand)
<1>1. /\ Accounted(1..made, Gone, queue, Out)
      /\ Carried \cap Held(hand) = {} /\ deleted \cap leaked = {}
      /\ queue \in Seq(Pictures) /\ made \in Nat
  BY NullIsNoPicture DEF PicturesAccounted, OglTypeOK
<1>2. CASE MovesNone
  <2>1. UNCHANGED <<queue, hand, made, deleted, leaked>> /\ Carried' = Carried
    BY <1>2 DEF MovesNone, pictures, Carried
  <2> QED
    BY <2>1 DEF PicturesAccounted
<1>3. CASE Dequeue
  <2>1. /\ queue # <<>> /\ queue' = Tail(queue) /\ hand' = Head(queue) /\ Held(hand) = {}
        /\ UNCHANGED <<made, deleted, leaked>> /\ Carried' = Carried
    BY <1>3 DEF Dequeue, CanGetq, PainterStep, HandHeld, Held, Carried
  <2>2. Held(Head(queue)) = {Head(queue)} /\ Head(queue) \in Nat /\ Pictures \subseteq Nat
    BY <1>1, <2>1, RestOfQueue, NullIsNoPicture DEF Held
  <2>3. /\ BufsIn(queue) = BufsIn(Tail(queue)) \cup {Head(queue)}
        /\ Head(queue) \notin BufsIn(Tail(queue))
        /\ NoRepeat(Tail(queue))
    <3>1. ~(Head(queue) < Head(queue))
      BY <2>2
    <3> QED
      BY <1>1, <2>1, <3>1, HeadGoes
  <2> HIDE DEF Gone
  <2>4. Accounted(1..made, Gone, Tail(queue), Carried \cup {Head(queue)})
    BY <1>1, <2>1, <2>3 DEF Accounted
  <2>5. Carried \cap {Head(queue)} = {}
    BY <1>1, <2>3 DEF Accounted
  <2> QED
    BY <1>1, <2>1, <2>2, <2>4, <2>5 DEF PicturesAccounted, Gone
<1>4. CASE Draw
  <2>1. /\ hand # Null /\ hand' = Null /\ deleted' = deleted \cup {hand}
        /\ UNCHANGED <<queue, made, leaked>> /\ Carried' = Carried
        /\ Held(hand) = {hand} /\ Held(hand') = {}
    BY <1>4 DEF Draw, PainterStep, HandHeld, Held, Carried
  <2>2. Accounted(1..made, Gone \cup {hand}, queue, Carried)
    BY <1>1, <2>1 DEF Accounted
  <2>3. (deleted \cup {hand}) \cap leaked = {} /\ deleted' \cup leaked' = Gone \cup {hand}
    BY <1>1, <2>1 DEF Accounted
  <2> QED
    BY <2>1, <2>2, <2>3 DEF PicturesAccounted
<1>5. CASE Enter
  <2>1. /\ UNCHANGED <<queue, hand, deleted, leaked>> /\ made' = made + 1
        /\ Carried = {} /\ Carried' = {made + 1}
    BY <1>5 DEF Enter, CallbackStep, Carried
  <2>2. 1..(made + 1) = (1..made) \cup {made + 1} /\ made + 1 \notin 1..made
    BY <1>1
  <2> QED
    BY <1>1, <2>1, <2>2 DEF PicturesAccounted, Accounted
<1>6. CASE Enqueue
  <2>1. /\ queue' = Append(queue, made) /\ UNCHANGED <<hand, made, deleted, leaked>>
        /\ Carried = {made} /\ Carried' = {}
    BY <1>6 DEF Enqueue, CallbackStep, Carried
  <2>2. made \in Pictures
    BY <1>6, NullIsNoPicture DEF Enqueue, CallbackStep, InOrder, OglTypeOK, Pictures
  <2>3. NoRepeat(queue) /\ made \notin BufsIn(queue)
    BY <1>1, <2>1 DEF Accounted
  <2>4. BufsIn(Append(queue, made)) = BufsIn(queue) \cup {made} /\ NoRepeat(Append(queue, made))
    BY <1>1, <2>2, <2>3, PictureComes
  <2>5. Accounted(1..made, Gone, Append(queue, made), Held(hand))
    BY <1>1, <2>1, <2>4 DEF Accounted
  <2> QED
    BY <1>1, <2>1, <2>5 DEF PicturesAccounted
<1>7. CASE EnqueueFails
  <2>1. /\ UNCHANGED <<queue, hand, made, deleted>> /\ leaked' = leaked \cup {made}
        /\ Carried = {made} /\ Carried' = {}
    BY <1>7 DEF EnqueueFails, CallbackStep, Carried
  <2> QED
    BY <1>1, <2>1 DEF PicturesAccounted, Accounted
<1> QED
  BY <1>2, <1>3, <1>4, <1>5, <1>6, <1>7, OtherSteps

\* The pictures stay in order.
LEMMA OglOrderStep ==
  ASSUME OglTypeOK, InOrder, HandHeld, [Next]_vars
  PROVE  InOrder'
<1>1. /\ queue \in Seq(Pictures) /\ made \in Nat /\ drawn \in Nat
      /\ DOMAIN queue = 1..Len(queue)
      /\ \A i \in DOMAIN queue : queue[i] \in Nat
      /\ hand # Null => hand \in Nat
      /\ Null \notin Pictures /\ Pictures \subseteq Nat
  <2>1. /\ queue \in Seq(Pictures) /\ made \in Nat /\ drawn \in Nat
        /\ Null \notin Pictures /\ Pictures \subseteq Nat
    BY NullIsNoPicture DEF OglTypeOK
  <2>2. DOMAIN queue = 1..Len(queue) /\ \A i \in DOMAIN queue : queue[i] \in Pictures
    BY <2>1
  <2>3. hand # Null => hand \in Pictures
    BY DEF OglTypeOK
  <2> QED
    BY <2>1, <2>2, <2>3
<1>2. CASE MovesNone
  BY <1>2 DEF MovesNone, pictures, InOrder
<1>3. CASE Dequeue
  <2>1. /\ queue # <<>> /\ queue' = Tail(queue) /\ hand' = Head(queue)
        /\ UNCHANGED <<made, drawn, callback>>
    BY <1>3 DEF Dequeue, CanGetq
  <2> DEFINE rest == Tail(queue)
  <2>2. /\ Head(queue) = queue[1] /\ 1 \in DOMAIN queue
        /\ \A i \in DOMAIN rest : i \in Nat \ {0} /\ i + 1 \in DOMAIN queue /\ rest[i] = queue[i + 1]
    BY <1>1, <2>1, RestOfQueue
  <2> HIDE DEF rest
  <2>3. \A i, j \in DOMAIN rest : i < j => rest[i] < rest[j]
    BY <2>2 DEF InOrder
  <2>4. \A i \in DOMAIN rest : queue[1] < rest[i] /\ drawn < rest[i] /\ rest[i] <= made
    BY <2>2 DEF InOrder
  <2>5. drawn < queue[1] /\ queue[1] <= made /\ drawn <= made
    BY <2>2 DEF InOrder
  <2>6. callback = "enqueue" =>
          drawn < made /\ queue[1] # made /\ \A i \in DOMAIN rest : rest[i] < made
    BY <1>1, <2>2 DEF InOrder
  <2> QED
    BY <2>1, <2>2, <2>3, <2>4, <2>5, <2>6 DEF InOrder, rest
<1>4. CASE Draw
  <2>1. /\ hand # Null /\ hand' = Null /\ drawn' = hand /\ UNCHANGED <<queue, made, callback>>
    BY <1>4 DEF Draw, PainterStep, HandHeld
  <2>2. /\ \A i, j \in DOMAIN queue : i < j => queue[i] < queue[j]
        /\ \A i \in DOMAIN queue : hand < queue[i] /\ queue[i] <= made
        /\ hand <= made
    BY <2>1 DEF InOrder
  <2>3. callback = "enqueue" => hand < made /\ \A i \in DOMAIN queue : queue[i] < made
    <3>1. callback = "enqueue" => hand # made /\ \A i \in DOMAIN queue : queue[i] < made
      BY DEF InOrder
    <3> QED
      BY <1>1, <2>1, <2>2, <3>1
  <2>4. made # Null
    BY OglAssumption, <1>1
  <2> QED
    BY <2>1, <2>2, <2>3, <2>4 DEF InOrder
<1>5. CASE Enter
  <2>1. UNCHANGED <<queue, hand, drawn>> /\ made' = made + 1
    BY <1>5 DEF Enter
  <2>2. \A i \in DOMAIN queue : queue[i] <= made + 1 /\ queue[i] < made + 1
    <3>1. \A i \in DOMAIN queue : queue[i] \in Nat /\ queue[i] <= made
      BY <1>1 DEF InOrder
    <3> QED
      BY <1>1, <3>1
  <2>3. drawn <= made + 1 /\ drawn < made + 1
    <3>1. drawn <= made
      BY DEF InOrder
    <3> QED
      BY <1>1, <3>1
  <2>4. hand # Null => hand <= made + 1 /\ hand # made + 1
    <3>1. hand # Null => hand \in Nat /\ hand <= made
      BY <1>1 DEF InOrder
    <3> QED
      BY <1>1, <3>1
  <2>5. made + 1 # Null
    BY OglAssumption, <1>1
  <2>6. /\ \A i, j \in DOMAIN queue : i < j => queue[i] < queue[j]
        /\ \A i \in DOMAIN queue : drawn < queue[i]
        /\ hand # Null => drawn < hand /\ \A i \in DOMAIN queue : hand < queue[i]
    BY DEF InOrder
  <2>7. (hand # made + 1)
    BY <2>4, <2>5
  <2> QED
    BY <2>1, <2>2, <2>3, <2>4, <2>6, <2>7 DEF InOrder
<1>6. CASE Enqueue
  <2>1. /\ queue' = Append(queue, made) /\ UNCHANGED <<hand, made, drawn>>
        /\ callback = "enqueue" /\ callback' = "idle"
    BY <1>6 DEF Enqueue, CallbackStep
  <2>2. made \in Pictures /\ drawn < made
    BY <1>1, <2>1, NullIsNoPicture DEF InOrder, OglTypeOK, Pictures
  <2> DEFINE longer == Append(queue, made)
  <2>3. /\ DOMAIN longer = 1..(Len(queue) + 1) /\ Len(queue) \in Nat
        /\ longer[Len(queue) + 1] = made
        /\ \A i \in DOMAIN queue : longer[i] = queue[i]
    BY <1>1, <2>2, LongerQueue
  <2> HIDE DEF longer
  <2>4. \A i \in DOMAIN queue : drawn < queue[i] /\ queue[i] < made
    BY <2>1 DEF InOrder
  <2>5. \A i \in DOMAIN longer : i \in DOMAIN queue \/ i = Len(queue) + 1
    BY <1>1, <2>3
  <2>6. \A i, j \in DOMAIN longer : i < j => longer[i] < longer[j]
    <3>1. \A i, j \in DOMAIN longer : i < j => i \in DOMAIN queue
      BY <1>1, <2>3
    <3> QED
      BY <2>3, <2>4, <2>5, <3>1 DEF InOrder
  <2>7. \A i \in DOMAIN longer : drawn < longer[i] /\ longer[i] <= made
    BY <1>1, <2>2, <2>3, <2>4, <2>5
  <2>8. hand # Null => \A i \in DOMAIN longer : hand < longer[i]
    <3>1. hand # Null => hand <= made /\ hand # made /\ \A i \in DOMAIN queue : hand < queue[i]
      BY <2>1 DEF InOrder
    <3> QED
      BY <1>1, <2>3, <2>5, <3>1
  <2>9. drawn <= made /\ (hand # Null => drawn < hand /\ hand <= made)
    BY DEF InOrder
  <2> QED
    BY <2>1, <2>6, <2>7, <2>8, <2>9 DEF InOrder, longer
<1>7. CASE EnqueueFails
  BY <1>7 DEF EnqueueFails, CallbackStep, InOrder
<1> QED
  BY <1>2, <1>3, <1>4, <1>5, <1>6, <1>7, OtherSteps
-----------------------------------------------------------------------------
LEMMA OglInit == Init => OglInv
<1> SUFFICES ASSUME Init PROVE OglInv
  OBVIOUS
<1>1. OglTypeOK
  <2>1. queue \in Seq(Pictures) /\ 0 \in 0..MaxPictures
    BY NullIsNoPicture DEF Init
  <2> QED
    BY <2>1 DEF Init, OglTypeOK, QueueState
<1>2. PicturesAccounted
  BY DEF Init, PicturesAccounted, Accounted, BufsIn, Held, Carried, NoRepeat
<1>3. DisplayOutlivesPainter /\ InOrder /\ HandHeld /\ StopedIsGone
  BY DEF Init, DisplayOutlivesPainter, InOrder, HandHeld, StopedIsGone
<1> QED
  BY <1>1, <1>2, <1>3 DEF OglInv

\* The inductive invariant holds of every behaviour.
LEMMA OglInvariant == Spec => []OglInv
<1>1. OglInv /\ [Next]_vars => OglInv'
  BY OglTypeStep, OglAccountStep, OglDisplayStep, OglOrderStep DEF OglInv
<1> QED
  BY OglInit, <1>1, PTL DEF Spec

\* Every variable stays in its type.
THEOREM OglTypeCorrect == Spec => []OglTypeOK
BY OglInvariant, PTL DEF OglInv

\* Every picture is with the callback, in the queue, with the painter, deleted or lost,
\* in one place, whenever release is called and however often init and release follow.
THEOREM OglPicturesAccounted == Spec => []PicturesAccounted
BY OglInvariant, PTL DEF OglInv

\* release, which spins on a flag instead of joining the painter, never closes the display
\* while the painter still calls X11 or GL.
THEOREM OglDisplayOutlivesPainter == Spec => []DisplayOutlivesPainter
BY OglInvariant, PTL DEF OglInv
-----------------------------------------------------------------------------
\* Every step of the widget is a step of the stream of pictures, or none.
LEMMA OglScreenStep ==
  ASSUME OglInv, [Next]_vars
  PROVE  [Screen!Next]_(Screen!vars)
<1> DEFINE Queued == {queue[i] : i \in DOMAIN queue}
<1>1. OglTypeOK /\ PicturesAccounted /\ InOrder /\ HandHeld
  BY DEF OglInv
<1>2. /\ queue \in Seq(Pictures) /\ made \in Nat
      /\ Null \notin Pictures /\ Pictures \subseteq Nat
  BY <1>1, NullIsNoPicture DEF OglTypeOK
<1>3. CASE MovesNone
  <2>1. UNCHANGED <<queue, hand, made, drawn>> /\ Carried' = Carried
    BY <1>3 DEF MovesNone, pictures, Carried
  <2>2. UNCHANGED <<made, Undrawn, drawn>>
    BY <2>1 DEF Undrawn
  <2> QED
    BY <2>2 DEF Screen!vars
<1>4. CASE Dequeue
  <2>1. /\ queue # <<>> /\ queue' = Tail(queue) /\ hand' = Head(queue) /\ Held(hand) = {}
        /\ UNCHANGED <<made, drawn>> /\ Carried' = Carried
    BY <1>1, <1>4 DEF Dequeue, CanGetq, PainterStep, HandHeld, Held, Carried
  <2>2. Held(Head(queue)) = {Head(queue)}
    BY <1>2, <2>1, RestOfQueue DEF Held
  <2>3. Queued = {Tail(queue)[i] : i \in DOMAIN Tail(queue)} \cup {Head(queue)}
    BY <1>1, <1>2, <2>1, HeadGoes
  <2>4. Queued' = {Tail(queue)[i] : i \in DOMAIN Tail(queue)}
    BY <2>1
  <2>5. Undrawn = Queued \cup Carried \cup Held(hand)
        /\ Undrawn' = Queued' \cup Carried' \cup Held(hand')
    BY DEF Undrawn
  <2> HIDE DEF Queued
  <2>6. UNCHANGED <<made, Undrawn, drawn>>
    BY <2>1, <2>2, <2>3, <2>4, <2>5
  <2> QED
    BY <2>6 DEF Screen!vars
<1>5. CASE Draw
  <2>1. /\ hand # Null /\ hand' = Null /\ drawn' = hand /\ UNCHANGED <<queue, made>>
        /\ Carried' = Carried /\ Held(hand) = {hand} /\ Held(hand') = {}
    BY <1>1, <1>5 DEF Draw, PainterStep, HandHeld, Held, Carried
  <2>2. hand \notin Queued /\ hand \notin Carried /\ hand \in Nat
    BY <1>1, <1>2, <2>1 DEF InOrder, Carried, OglTypeOK
  <2>3. Undrawn' = Undrawn \ {hand} /\ hand \in Undrawn
    <3>1. /\ Undrawn = Queued \cup Carried \cup Held(hand)
          /\ Undrawn' = Queued \cup Carried' \cup Held(hand')
      BY <2>1 DEF Undrawn
    <3> HIDE DEF Queued
    <3> QED
      BY <2>1, <2>2, <3>1
  <2>4. drawn < hand
    BY <1>1, <2>1 DEF InOrder
  <2>5. \A p \in Undrawn : hand <= p
    <3>1. \A i \in DOMAIN queue : queue[i] \in Nat /\ hand <= queue[i]
      <4>1. \A i \in DOMAIN queue : queue[i] \in Pictures
        BY <1>2
      <4>2. \A i \in DOMAIN queue : queue[i] \in Nat
        BY <1>2, <4>1
      <4>3. \A i \in DOMAIN queue : hand < queue[i]
        BY <1>1, <2>1 DEF InOrder
      <4> QED
        BY <2>2, <4>2, <4>3
    <3>2. \A p \in Carried : hand <= p
      BY <1>1, <2>1 DEF Carried, InOrder
    <3> QED
      BY <2>1, <2>2, <3>1, <3>2 DEF Undrawn
  <2> QED
    BY <2>1, <2>3, <2>4, <2>5 DEF Screen!Next, Screen!Show
<1>6. CASE Enter
  <2>1. /\ UNCHANGED <<queue, hand, drawn>> /\ made' = made + 1
        /\ Carried = {} /\ Carried' = {made'}
    BY <1>6 DEF Enter, CallbackStep, Carried
  <2>2. Undrawn' = Undrawn \cup {made'}
    BY <2>1 DEF Undrawn
  <2> QED
    BY <2>1, <2>2 DEF Screen!Next, Screen!Produce
<1>7. CASE Enqueue
  <2>1. /\ queue' = Append(queue, made) /\ UNCHANGED <<hand, made, drawn>>
        /\ Carried = {made} /\ Carried' = {}
    BY <1>7 DEF Enqueue, CallbackStep, Carried
  <2>2. made \in Pictures
    BY <1>1, <1>7, NullIsNoPicture DEF Enqueue, CallbackStep, InOrder, OglTypeOK, Pictures
  <2>3. Queued' = Queued \cup {made}
    BY <1>2, <2>1, <2>2, LongerQueue
  <2>4. /\ Undrawn = Queued \cup Carried \cup Held(hand)
        /\ Undrawn' = Queued' \cup Carried' \cup Held(hand)
    BY <2>1 DEF Undrawn
  <2> HIDE DEF Queued
  <2>5. Undrawn' = Undrawn
    BY <2>1, <2>3, <2>4
  <2> QED
    BY <2>1, <2>5 DEF Screen!vars
<1>8. CASE EnqueueFails
  <2>1. UNCHANGED <<queue, hand, made, drawn>> /\ Carried = {made} /\ Carried' = {}
    BY <1>8 DEF EnqueueFails, CallbackStep, Carried
  <2>2. made \notin Queued /\ made \notin Held(hand)
    <3>1. made \notin Queued
      BY <1>1, <1>2, <1>8 DEF InOrder, EnqueueFails, CallbackStep
    <3> QED
      BY <1>1, <2>1, <3>1 DEF PicturesAccounted
  <2>3. /\ Undrawn = Queued \cup Carried \cup Held(hand)
        /\ Undrawn' = Queued \cup Carried' \cup Held(hand)
    BY <2>1 DEF Undrawn
  <2> HIDE DEF Queued
  <2>4. Undrawn' = Undrawn \ {made} /\ made \in Undrawn
    BY <2>1, <2>2, <2>3
  <2> QED
    BY <2>1, <2>4 DEF Screen!Next, Screen!Drop
<1> QED
  BY <1>1, <1>3, <1>4, <1>5, <1>6, <1>7, <1>8, OtherSteps

\* The widget implements the lossy ordered stream: a release may lose pictures, and those
\* that are drawn are so once and in the order of their arrival.
THEOREM OglDrawnInOrder == Spec => DrawnInOrder
<1>1. Init => Screen!Init
  BY DEF Init, Screen!Init, Undrawn, Carried, Held
<1>2. OglInv /\ [Next]_vars => [Screen!Next]_(Screen!vars)
  BY OglScreenStep
<1> QED
  BY OglInvariant, <1>1, <1>2, PTL DEF Spec, DrawnInOrder, Screen!Spec
=============================================================================
