--------------------------- MODULE YuvWidgetProofs ---------------------------
(***************************************************************************)
(* That the Qt widget loses no block, always has one for a picture, and    *)
(* never waits for room in its queue, for a pool of any size from three    *)
(* blocks on and any high-water mark not above the size of a block.        *)
(***************************************************************************)
EXTENDS YuvWidget, Integers, TLAPS

\* While the callback converts and queues, the queue is empty: it saw so under
\* the mutex, and only the callback puts.  The two threads hold a block exactly
\* while they work on one.
Position ==
  /\ thread \in {"convert", "enqueue"} => queue = <<>>
  /\ fill # Null <=> thread = "enqueue"
  /\ hand # Null <=> gui \in {"more", "last"}

WidgetInv == TypeOK /\ BlocksAccounted /\ Position
-----------------------------------------------------------------------------
(* The queue, when a block goes or comes.                                 *)

\* The head that is taken is not in what is left.
LEMMA HeadTaken ==
  ASSUME queue \in Seq(Blocks), queue # <<>>, NoRepeat(queue)
  PROVE  /\ BufsIn(queue) = BufsIn(Tail(queue)) \cup Held(Head(queue))
         /\ BufsIn(Tail(queue)) \cap Held(Head(queue)) = {}
         /\ NoRepeat(Tail(queue))
<1> DEFINE rest == Tail(queue)
<1>1. /\ Len(queue) \in Nat \ {0}
      /\ DOMAIN queue = 1..Len(queue) /\ DOMAIN rest = 1..(Len(queue) - 1)
      /\ Head(queue) = queue[1]
      /\ \A i \in DOMAIN rest : rest[i] = queue[i + 1]
  OBVIOUS
<1>2. /\ \A i \in DOMAIN queue : i = 1 \/ (i - 1 \in DOMAIN rest /\ rest[i - 1] = queue[i])
      /\ \A i \in DOMAIN rest : i \in Int /\ i + 1 \in DOMAIN queue /\ i + 1 # 1
      /\ 1 \in DOMAIN queue
  BY <1>1
<1> HIDE DEF rest
<1>3. {queue[i] : i \in DOMAIN queue} = {rest[i] : i \in DOMAIN rest} \cup {queue[1]}
  BY <1>1, <1>2
<1>4. \A i \in DOMAIN rest : rest[i] = queue[1] => queue[1] = Null
  BY <1>1, <1>2 DEF NoRepeat
<1>5. ASSUME NEW i \in DOMAIN rest, NEW j \in DOMAIN rest, rest[i] = rest[j], rest[i] # Null
      PROVE  i = j
  <2>1. i + 1 = j + 1
    BY <1>1, <1>2, <1>5 DEF NoRepeat
  <2> QED
    BY <1>2, <2>1
<1>6. /\ BufsIn(queue) = {queue[i] : i \in DOMAIN queue} \ {Null}
      /\ BufsIn(rest) = {rest[i] : i \in DOMAIN rest} \ {Null}
      /\ NoRepeat(rest)
  BY <1>5 DEF BufsIn, NoRepeat
<1>7. BufsIn(rest) \cap Held(queue[1]) = {}
  BY <1>4, <1>6 DEF Held
<1>8. BufsIn(queue) = BufsIn(rest) \cup Held(queue[1])
  BY <1>3, <1>6 DEF Held
<1> QED
  BY <1>1, <1>6, <1>7, <1>8 DEF rest

\* One that comes is not there yet.
LEMMA TailPut ==
  ASSUME queue \in Seq(Blocks), NEW m \in Blocks, NoRepeat(queue), m # Null, m \notin BufsIn(queue)
  PROVE  /\ BufsIn(Append(queue, m)) = BufsIn(queue) \cup {m}
         /\ NoRepeat(Append(queue, m))
<1> DEFINE new == Append(queue, m)
<1>1. /\ Len(queue) \in Nat /\ DOMAIN queue = 1..Len(queue)
      /\ DOMAIN new = 1..(Len(queue) + 1) /\ new[Len(queue) + 1] = m
      /\ \A i \in 1..Len(queue) : new[i] = queue[i]
  OBVIOUS
<1>2. {new[i] : i \in DOMAIN new} = {queue[i] : i \in DOMAIN queue} \cup {m}
  BY <1>1
<1>3. \A i \in 1..Len(queue) : queue[i] # m
  BY <1>1 DEF BufsIn
<1> QED
  BY <1>1, <1>2, <1>3 DEF BufsIn, NoRepeat
-----------------------------------------------------------------------------
\* A queue that is not full is empty, because a block is larger than the mark.
LEMMA NotFullIsEmpty ==
  ASSUME TypeOK
  PROVE  ~Full <=> queue = <<>>
<1>1. /\ Len(queue) \in Nat /\ BlockSize \in Nat /\ HighWater \in Nat
      /\ 1 <= HighWater /\ HighWater <= BlockSize
  BY WidgetAssumption DEF TypeOK
<1>2. queue = <<>> <=> Len(queue) = 0
  BY DEF TypeOK
<1>3. ASSUME NEW n \in Nat, NEW m \in Nat, n # 0 PROVE m <= n * m
  BY <1>3
<1>4. CASE Len(queue) = 0
  BY <1>1, <1>2, <1>4 DEF Full
<1>5. CASE Len(queue) # 0
  <2>1. BlockSize <= Len(queue) * BlockSize
    BY <1>1, <1>3, <1>5
  <2>2. Len(queue) * BlockSize \in Nat
    BY <1>1
  <2> QED
    BY <1>1, <1>2, <1>5, <2>1, <2>2 DEF Full
<1> QED
  BY <1>4, <1>5

\* With the queue empty and nothing in the callback's hand, two blocks at most
\* are out of the pool.
LEMMA PoolHasBlock ==
  ASSUME BlocksAccounted, queue = <<>>, fill = Null
  PROVE  free # {}
<1>1. Blocks \subseteq free \cup {hand, prev}
  BY DEF BlocksAccounted, Accounted, BufsIn, Held
<1>2. PICK b1, b2, b3 \in Blocks : b1 # b2 /\ b1 # b3 /\ b2 # b3
  BY WidgetAssumption
<1> QED
  BY <1>1, <1>2
-----------------------------------------------------------------------------
LEMMA WidgetTypeStep == WidgetInv /\ [Next]_vars => TypeOK'
<1> SUFFICES ASSUME WidgetInv, [Next]_vars PROVE TypeOK'
  OBVIOUS
<1> USE DEF WidgetInv, TypeOK, blockVars, paintVars, Moves, GuiStep
<1>1. CASE Call
  BY <1>1, WidgetAssumption DEF Call
<1>2. CASE Acquire \/ DropPicture \/ KeepScaler \/ NewScaler \/ NewScalerFails
  BY <1>2 DEF Acquire, DropPicture, KeepScaler, NewScaler, NewScalerFails
<1>3. CASE MallocBlock
  BY <1>3 DEF MallocBlock
<1>4. CASE Enqueue
  <2>1. fill \in Blocks
    BY <1>4 DEF Enqueue, Position
  <2> QED
    BY <1>4, <2>1 DEF Enqueue
<1>5. CASE BeginPaint \/ Close \/ CloseAcquire \/ CloseRelease
  BY <1>5 DEF BeginPaint, Close, CloseAcquire, CloseRelease
<1>6. CASE Dequeue
  <2>1. Head(queue) \in Blocks /\ Tail(queue) \in Seq(Blocks)
    BY <1>6 DEF Dequeue
  <2> QED
    BY <1>6, <2>1 DEF Dequeue
<1>7. CASE Replace
  BY <1>7 DEF Replace, Held
<1>8. CASE UNCHANGED vars
  BY <1>8 DEF vars
<1> QED
  BY <1>1, <1>2, <1>3, <1>4, <1>5, <1>6, <1>7, <1>8 DEF Next, Callback, Gui, Paint

LEMMA WidgetPositionStep == WidgetInv /\ [Next]_vars => Position'
<1> SUFFICES ASSUME WidgetInv, [Next]_vars PROVE Position'
  OBVIOUS
<1> USE DEF WidgetInv, Position, blockVars, paintVars, Moves, GuiStep
<1>1. CASE Call \/ Acquire \/ DropPicture \/ NewScalerFails
  BY <1>1 DEF Call, Acquire, DropPicture, NewScalerFails
<1>2. CASE KeepScaler \/ NewScaler
  BY <1>2, NotFullIsEmpty DEF KeepScaler, NewScaler
<1>3. CASE MallocBlock
  <2>1. free \subseteq Blocks
    BY DEF TypeOK
  <2> QED
    BY <1>3, <2>1, WidgetAssumption DEF MallocBlock
<1>4. CASE Enqueue
  BY <1>4 DEF Enqueue
<1>5. CASE BeginPaint \/ Close \/ CloseAcquire \/ CloseRelease
  BY <1>5 DEF BeginPaint, Close, CloseAcquire, CloseRelease
<1>6. CASE Dequeue
  <2>1. Head(queue) \in Blocks /\ queue # <<>>
    BY <1>6 DEF Dequeue, TypeOK
  <2>2. thread \notin {"convert", "enqueue"} /\ thread' = thread /\ fill' = fill
    BY <1>6, <2>1 DEF Dequeue
  <2>3. gui' \in {"more", "last"} /\ hand' # Null
    BY <1>6, <2>1, WidgetAssumption DEF Dequeue
  <2> QED
    BY <2>2, <2>3
<1>7. CASE Replace
  BY <1>7 DEF Replace
<1>8. CASE UNCHANGED vars
  BY <1>8 DEF vars
<1> QED
  BY <1>1, <1>2, <1>3, <1>4, <1>5, <1>6, <1>7, <1>8 DEF Next, Callback, Gui, Paint

LEMMA WidgetAccountStep == WidgetInv /\ [Next]_vars => BlocksAccounted'
<1> SUFFICES ASSUME WidgetInv, [Next]_vars PROVE BlocksAccounted'
  OBVIOUS
<1> DEFINE Out == Held(fill) \cup Held(hand) \cup Held(prev)
<1>0. /\ Accounted(Blocks, free, queue, Out)
      /\ Held(fill) \cap (Held(hand) \cup Held(prev)) = {}
      /\ Held(hand) \cap Held(prev) = {}
  BY DEF WidgetInv, BlocksAccounted
<1>1. CASE Call \/ Acquire \/ DropPicture \/ KeepScaler \/ NewScaler \/ NewScalerFails
           \/ BeginPaint \/ Close \/ CloseAcquire \/ CloseRelease \/ UNCHANGED vars
  <2>1. UNCHANGED <<fill, queue, free, hand, prev>>
    BY <1>1 DEF Call, Acquire, DropPicture, KeepScaler, NewScaler, NewScalerFails,
                BeginPaint, Close, CloseAcquire, CloseRelease, vars, blockVars, paintVars
  <2> QED
    BY <1>0, <2>1 DEF BlocksAccounted
<1>2. CASE MallocBlock
  <2>1. PICK b \in free : free' = free \ {b} /\ fill' = b
    BY <1>2 DEF MallocBlock
  <2>2. UNCHANGED <<queue, hand, prev>> /\ fill = Null /\ b # Null
    BY <1>2, <2>1, WidgetAssumption
    DEF MallocBlock, Moves, paintVars, WidgetInv, Position, TypeOK
  <2>3. Accounted(Blocks, free', queue, Out \cup {b})
    BY <1>0, <2>1 DEF Accounted
  <2>4. b \notin Out
    BY <1>0, <2>1 DEF Accounted
  <2> QED
    BY <1>0, <2>1, <2>2, <2>3, <2>4 DEF BlocksAccounted, Held
<1>3. CASE Enqueue
  <2>1. /\ fill \in Blocks /\ fill # Null /\ fill' = Null
        /\ queue \in Seq(Blocks) /\ queue' = Append(queue, fill)
        /\ UNCHANGED <<free, hand, prev>>
    BY <1>3, WidgetAssumption
    DEF Enqueue, Moves, paintVars, WidgetInv, Position, TypeOK
  <2>2. fill \in Out
    BY <2>1 DEF Held
  <2>3. Accounted(Blocks, free, queue', Out \ {fill})
    BY <1>0, <2>1, <2>2, TailPut DEF Accounted
  <2> QED
    BY <1>0, <2>1, <2>3 DEF BlocksAccounted, Held
<1>4. CASE Dequeue
  <2>1. /\ queue \in Seq(Blocks) /\ queue # <<>> /\ queue' = Tail(queue)
        /\ hand = Null /\ hand' = Head(queue)
        /\ UNCHANGED <<free, fill, prev>>
    BY <1>4 DEF Dequeue, GuiStep, WidgetInv, Position, TypeOK
  <2>2. Accounted(Blocks, free, queue', Out \cup Held(hand'))
    BY <1>0, <2>1, HeadTaken DEF Accounted
  <2>3. Held(hand') \cap (Held(fill) \cup Held(prev)) = {}
    <3>1. BufsIn(queue) = BufsIn(Tail(queue)) \cup Held(Head(queue))
      BY <1>0, <2>1, HeadTaken DEF Accounted
    <3> QED
      BY <1>0, <2>1, <3>1 DEF Accounted
  <2> QED
    BY <1>0, <2>1, <2>2, <2>3 DEF BlocksAccounted, Held
<1>5. CASE Replace
  <2>1. /\ prev' = hand /\ hand' = Null /\ free' = free \cup Held(prev)
        /\ UNCHANGED <<fill, queue>>
    BY <1>5 DEF Replace
  <2>2. Accounted(Blocks, free', queue, Out \ Held(prev))
    BY <1>0, <2>1 DEF Accounted
  <2> QED
    BY <1>0, <2>1, <2>2 DEF BlocksAccounted, Held
<1> QED
  BY <1>1, <1>2, <1>3, <1>4, <1>5 DEF Next, Callback, Gui, Paint
-----------------------------------------------------------------------------
LEMMA WidgetInit == Init => WidgetInv
<1> SUFFICES ASSUME Init PROVE WidgetInv
  OBVIOUS
<1>1. TypeOK
  <2>1. <<>> \in Seq(Blocks) /\ 0 \in 0..MaxPictures
    BY WidgetAssumption
  <2> QED
    BY <2>1 DEF Init, TypeOK
<1>2. BlocksAccounted
  BY DEF Init, BlocksAccounted, Accounted, BufsIn, Held, NoRepeat
<1>3. Position
  BY DEF Init, Position
<1> QED
  BY <1>1, <1>2, <1>3 DEF WidgetInv

\* The inductive invariant holds of every behaviour.
LEMMA WidgetInvariant == Spec => []WidgetInv
<1>1. WidgetInv /\ [Next]_vars => WidgetInv'
  BY WidgetTypeStep, WidgetAccountStep, WidgetPositionStep DEF WidgetInv
<1> QED
  BY WidgetInit, <1>1, PTL DEF Spec

\* Every variable stays in its type.
THEOREM WidgetTypeCorrect == Spec => []TypeOK
BY WidgetInvariant, PTL DEF WidgetInv

\* No block of My_Msg_Block_Pool is lost, freed twice, or converted into while
\* it is queued or drawn.
THEOREM WidgetBlocksAccounted == Spec => []BlocksAccounted
BY WidgetInvariant, PTL DEF WidgetInv

\* malloc finds a block whenever the callback asks for one, so that its early
\* return with _destory_mutex locked is never taken.
THEOREM WidgetBlockAtHand == Spec => []BlockAtHand
<1>1. WidgetInv => BlockAtHand
  BY PoolHasBlock DEF WidgetInv, Position, BlockAtHand
<1> QED
  BY WidgetInvariant, <1>1, PTL

\* enqueue never waits for room with _destory_mutex locked.
THEOREM WidgetRoomForImage == Spec => []RoomForImage
<1>1. WidgetInv => RoomForImage
  BY NotFullIsEmpty DEF WidgetInv, Position, RoomForImage
<1> QED
  BY WidgetInvariant, <1>1, PTL
-----------------------------------------------------------------------------
\* At most one image is queued.  It is not yet drawn, and older than the picture
\* the callback has.
Carrying == thread \in {"acquire", "locked", "convert", "enqueue"}
InOrder ==
  /\ queue = <<>> \/ \E b \in Blocks : queue = <<b>>
  /\ \A b \in BufsIn(queue) : drawn < data[b] /\ data[b] <= arrived
  /\ fill # Null => data[fill] = arrived
  /\ drawn <= arrived
  /\ Carrying => drawn < arrived /\ \A b \in BufsIn(queue) : data[b] < arrived

OrderInv == WidgetInv /\ InOrder

\* The blocks of a queue of no or one image.
LEMMA ShortQueue ==
  /\ BufsIn(<<>>) = {}
  /\ \A b \in Blocks : /\ BufsIn(<<b>>) = {b}
                       /\ Len(<<b>>) = 1 /\ Head(<<b>>) = b /\ Tail(<<b>>) = <<>>
                       /\ Append(<<>>, b) = <<b>> /\ <<b>> # <<>>
BY WidgetAssumption DEF BufsIn

\* What each part of a step does to queue, images and counters, under OrderInv:
\* nothing, a new picture, its loss, its conversion, its queueing, or its drawing.
Quiet ==
  /\ UNCHANGED <<queue, data, arrived, drawn, fill>>
  /\ (Carrying /\ fill = Null) <=> (Carrying /\ fill = Null)'
  /\ Carrying' <=> Carrying
Arrives ==
  /\ ~Carrying /\ Carrying' /\ fill = Null
  /\ arrived' = arrived + 1
  /\ UNCHANGED <<queue, data, drawn, fill>>
Lost ==
  /\ Carrying /\ ~Carrying' /\ fill = Null
  /\ UNCHANGED <<queue, data, arrived, drawn, fill>>
Converted ==
  /\ Carrying /\ Carrying' /\ fill = Null /\ fill' \in Blocks
  /\ queue = <<>>
  /\ data' = [data EXCEPT ![fill'] = arrived]
  /\ UNCHANGED <<queue, arrived, drawn>>
Queued ==
  /\ Carrying /\ ~Carrying' /\ fill \in Blocks /\ fill' = Null
  /\ queue = <<>> /\ queue' = <<fill>>
  /\ UNCHANGED <<data, arrived, drawn>>
Drawn ==
  /\ \E b \in Blocks : queue = <<b>> /\ queue' = <<>> /\ drawn' = data[b]
  /\ Carrying' <=> Carrying
  /\ UNCHANGED <<data, arrived, fill>>

LEMMA WidgetStepKinds ==
  ASSUME OrderInv, [Next]_vars
  PROVE  Quiet \/ Arrives \/ Lost \/ Converted \/ Queued \/ Drawn
<1> USE DEF OrderInv, WidgetInv, Position, blockVars, paintVars, Moves, GuiStep, Carrying
<1>1. CASE Call
  BY <1>1 DEF Call, Arrives
<1>2. CASE Acquire \/ KeepScaler \/ NewScaler
  BY <1>2 DEF Acquire, KeepScaler, NewScaler, Quiet
<1>3. CASE DropPicture \/ NewScalerFails
  BY <1>3 DEF DropPicture, NewScalerFails, Lost
<1>4. CASE MallocBlock
  <2>1. free \subseteq Blocks
    BY DEF TypeOK
  <2> QED
    BY <1>4, <2>1 DEF MallocBlock, Converted
<1>5. CASE Enqueue
  <2>1. fill \in Blocks /\ queue = <<>>
    BY <1>5 DEF Enqueue, TypeOK
  <2>2. Append(queue, fill) = <<fill>>
    BY <2>1, ShortQueue
  <2> QED
    BY <1>5, <2>1, <2>2 DEF Enqueue, Queued
<1>6. CASE BeginPaint \/ Close \/ CloseAcquire \/ CloseRelease
  BY <1>6 DEF BeginPaint, Close, CloseAcquire, CloseRelease, Quiet
<1>7. CASE Dequeue
  <2>1. PICK b \in Blocks : queue = <<b>>
    BY <1>7 DEF Dequeue, InOrder
  <2>2. Head(queue) = b /\ Tail(queue) = <<>> /\ Len(queue) = 1
    BY <2>1, ShortQueue
  <2>3. ~(Left > 2)
    BY <2>2 DEF Left
  <2>4. queue' = <<>> /\ drawn' = data[b]
    BY <1>7, <2>2, <2>3 DEF Dequeue
  <2>5. UNCHANGED <<thread, data, arrived, fill>>
    BY <1>7 DEF Dequeue
  <2> QED
    BY <2>1, <2>4, <2>5 DEF Drawn
<1>8. CASE Replace
  BY <1>8 DEF Replace, Quiet
<1>9. CASE UNCHANGED vars
  BY <1>9 DEF vars, Quiet
<1> QED
  BY <1>1, <1>2, <1>3, <1>4, <1>5, <1>6, <1>7, <1>8, <1>9 DEF Next, Callback, Gui, Paint

LEMMA WidgetOrderStep == OrderInv /\ [Next]_vars => InOrder'
<1> SUFFICES ASSUME OrderInv, [Next]_vars PROVE InOrder'
  OBVIOUS
<1> USE DEF InOrder
<1>0. /\ arrived \in Nat /\ drawn \in Nat /\ data \in [Blocks -> 0..MaxPictures]
      /\ BufsIn(<<>>) = {} /\ \A b \in Blocks : BufsIn(<<b>>) = {b}
      /\ \A b \in BufsIn(queue) : data[b] \in Nat
  <2>1. BufsIn(<<>>) = {} /\ \A b \in Blocks : BufsIn(<<b>>) = {b}
    BY ShortQueue
  <2>2. BufsIn(queue) \subseteq Blocks
    BY <2>1 DEF OrderInv
  <2> QED
    BY <2>1, <2>2, WidgetAssumption DEF OrderInv, WidgetInv, TypeOK
<1>1. CASE Quiet \/ Arrives \/ Lost
  BY <1>0, <1>1 DEF OrderInv, Quiet, Arrives, Lost
<1>2. CASE Converted
  BY <1>0, <1>2 DEF OrderInv, Converted
<1>3. CASE Queued
  BY <1>0, <1>3, WidgetAssumption DEF OrderInv, Queued
<1>4. CASE Drawn
  BY <1>0, <1>4 DEF OrderInv, Drawn
<1> QED
  BY <1>1, <1>2, <1>3, <1>4, WidgetStepKinds

LEMMA WidgetOrder == Spec => []OrderInv
<1>1. Init => InOrder
  BY ShortQueue, WidgetAssumption DEF Init, InOrder, Carrying
<1> QED
  BY WidgetInvariant, WidgetOrderStep, <1>1, PTL DEF Spec, OrderInv

\* What may still be drawn, whether the callback has converted it or not.
Carried == IF Carrying THEN {arrived} ELSE {}
Images == {data[b] : b \in BufsIn(queue)}
LEMMA UndrawnIs == OrderInv => Undrawn = Images \cup Carried
BY DEF OrderInv, WidgetInv, TypeOK, Position, InOrder, Undrawn, Images, Carried, Carrying, Held

\* Every step of the widget is a step of the stream of pictures, or none.
LEMMA WidgetScreenStep ==
  ASSUME OrderInv, OrderInv', [Next]_vars
  PROVE  [Screen!Next]_(Screen!vars)
<1>1. Undrawn = Images \cup Carried /\ Undrawn' = Images' \cup Carried'
  <2>1. Undrawn = Images \cup Carried
    BY UndrawnIs
  <2>2. (Undrawn = Images \cup Carried)'
    BY UndrawnIs, PTL
  <2> QED
    BY <2>1, <2>2
<1>2. arrived \in Nat /\ drawn \in Nat
  BY WidgetAssumption DEF OrderInv, WidgetInv, TypeOK
<1>3. CASE Quiet
  BY <1>1, <1>3 DEF Quiet, Images, Carried, Screen!vars
<1>4. CASE Arrives
  BY <1>1, <1>4 DEF Arrives, Images, Carried, Screen!Next, Screen!Produce
<1>5. CASE Lost
  <2>1. Images' = Images /\ Carried = {arrived} /\ Carried' = {}
    BY <1>5 DEF Lost, Images, Carried
  <2>2. arrived \notin Images
    BY <1>2, <1>5 DEF OrderInv, InOrder, Lost, Images
  <2>3. arrived \in Undrawn /\ Undrawn' = Undrawn \ {arrived}
    BY <1>1, <2>1, <2>2
  <2> QED
    BY <1>5, <2>3 DEF Lost, Screen!Next, Screen!Drop
<1>6. CASE Converted
  <2>1. Images = {} /\ Images' = {} /\ Carried' = Carried
    BY <1>6, ShortQueue DEF Converted, Images, Carried
  <2> QED
    BY <1>1, <1>6, <2>1 DEF Converted, Screen!vars
<1>7. CASE Queued
  <2>1. Images = {} /\ Images' = {arrived} /\ Carried = {arrived} /\ Carried' = {}
    BY <1>7, ShortQueue, WidgetAssumption DEF Queued, OrderInv, InOrder, Images, Carried
  <2> QED
    BY <1>1, <1>7, <2>1 DEF Queued, Screen!vars
<1>8. CASE Drawn
  <2>1. PICK b \in Blocks : queue = <<b>> /\ queue' = <<>> /\ drawn' = data[b]
    BY <1>8 DEF Drawn
  <2>2. Images = {data[b]} /\ Images' = {} /\ Carried' = Carried
    BY <1>8, <2>1, ShortQueue DEF Drawn, Images, Carried
  <2>3. drawn < data[b] /\ (Carrying => data[b] < arrived) /\ data[b] \in Nat
    BY <2>1, ShortQueue, WidgetAssumption DEF OrderInv, WidgetInv, TypeOK, InOrder
  <2>4. Undrawn' = Undrawn \ {data[b]} /\ data[b] \in Undrawn
    BY <1>1, <1>2, <2>2, <2>3 DEF Carried
  <2>5. \A p \in Undrawn : data[b] <= p
    BY <1>1, <1>2, <2>2, <2>3 DEF Carried
  <2> QED
    BY <1>8, <2>1, <2>3, <2>4, <2>5 DEF Drawn, Screen!Next, Screen!Show
<1> QED
  BY <1>3, <1>4, <1>5, <1>6, <1>7, <1>8, WidgetStepKinds

\* The widget implements FrameStream: images are drawn once and in the order in
\* which their pictures arrived, whichever the callback drops.
THEOREM WidgetDrawnInOrder == Spec => DrawnInOrder
<1>1. Init => Screen!Init
  BY ShortQueue DEF Init, Screen!Init, Undrawn, Held
<1>2. OrderInv /\ OrderInv' /\ [Next]_vars => [Screen!Next]_(Screen!vars)
  BY WidgetScreenStep
<1> QED
  BY WidgetOrder, <1>1, <1>2, PTL DEF Spec, DrawnInOrder, Screen!Spec
=============================================================================
