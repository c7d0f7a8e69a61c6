-------------------------- MODULE TaskStagesProofs --------------------------
(***************************************************************************)
(* Each operation of a stage keeps the account of the buffers of every     *)
(* stage: first what an operation does to one queue and its pool, then to  *)
(* the stages.  The lemmas hold of any set of stages and any pools; the    *)
(* proofs about a pipeline cite them, one for each operation it calls.     *)
(***************************************************************************)
EXTENDS TaskStages, Integers, TLAPS

-----------------------------------------------------------------------------
(* One queue and its pool: the place of each buffer.                       *)

\* Appending a message adds its buffer to those the queue holds.
LEMMA BufsInAppend ==
  ASSUME NEW S, NEW items \in Seq(S), NEW m \in S
  PROVE  BufsIn(Append(items, m)) = BufsIn(items) \cup Held(m)
<1> DEFINE new == Append(items, m)
<1>1. /\ DOMAIN new = 1..(Len(items) + 1)
      /\ DOMAIN items = 1..Len(items)
      /\ new[Len(items) + 1] = m
      /\ \A i \in 1..Len(items) : new[i] = items[i]
      /\ Len(items) \in Nat
  OBVIOUS
<1>2. {new[i] : i \in DOMAIN new} = {items[i] : i \in DOMAIN items} \cup {m}
  BY <1>1
<1> QED
  BY <1>2 DEF BufsIn, Held

\* Appending a buffer that the queue does not hold, or NULL, repeats none.
LEMMA NoRepeatAppend ==
  ASSUME NEW S, NEW items \in Seq(S), NEW m \in S,
         NoRepeat(items), m \notin BufsIn(items)
  PROVE  NoRepeat(Append(items, m))
<1> DEFINE new == Append(items, m)
<1>1. /\ DOMAIN new = 1..(Len(items) + 1)
      /\ DOMAIN items = 1..Len(items)
      /\ new[Len(items) + 1] = m
      /\ \A i \in 1..Len(items) : new[i] = items[i]
      /\ Len(items) \in Nat
  OBVIOUS
<1>2. \A i \in 1..Len(items) : items[i] = m => m = Null
  BY <1>1 DEF BufsIn
<1> QED
  BY <1>1, <1>2 DEF NoRepeat

\* Taking the head out of a queue without repetitions leaves the rest, in which
\* the head is no more.
LEMMA TakeHead ==
  ASSUME NEW S, NEW items \in Seq(S), items # <<>>, NoRepeat(items)
  PROVE  /\ BufsIn(items) = BufsIn(Tail(items)) \cup Held(Head(items))
         /\ BufsIn(Tail(items)) \cap Held(Head(items)) = {}
         /\ NoRepeat(Tail(items))
<1> DEFINE rest == Tail(items)
<1>1. /\ Len(items) \in Nat \ {0}
      /\ DOMAIN items = 1..Len(items)
      /\ DOMAIN rest = 1..(Len(items) - 1)
      /\ Head(items) = items[1]
      /\ \A i \in 1..(Len(items) - 1) : rest[i] = items[i + 1]
  OBVIOUS
<1>2. {items[i] : i \in DOMAIN items} = {rest[i] : i \in DOMAIN rest} \cup {items[1]}
  <2>1. \A i \in DOMAIN items : i = 1 \/ (i - 1 \in DOMAIN rest /\ rest[i - 1] = items[i])
    BY <1>1
  <2>2. \A i \in DOMAIN rest : i + 1 \in DOMAIN items /\ items[i + 1] = rest[i]
    BY <1>1
  <2> QED
    BY <2>1, <2>2, <1>1
<1>3. \A i \in DOMAIN rest : rest[i] = items[1] => items[1] = Null
  <2>1. \A i \in DOMAIN rest : i + 1 \in DOMAIN items /\ 1 \in DOMAIN items /\ i + 1 # 1
    BY <1>1
  <2> QED
    BY <2>1, <1>1 DEF NoRepeat
<1>4. NoRepeat(rest)
  <2> SUFFICES ASSUME NEW i \in DOMAIN rest, NEW j \in DOMAIN rest,
                      rest[i] = rest[j], rest[i] # Null
               PROVE  i = j
    BY DEF NoRepeat
  <2>1. /\ i + 1 \in DOMAIN items /\ j + 1 \in DOMAIN items
        /\ items[i + 1] = items[j + 1] /\ items[i + 1] # Null
        /\ i \in Int /\ j \in Int
    BY <1>1
  <2>2. i + 1 = j + 1
    BY <2>1 DEF NoRepeat
  <2> QED
    BY <2>1, <2>2
<1> QED
  BY <1>1, <1>2, <1>3, <1>4 DEF BufsIn, Held
-----------------------------------------------------------------------------
\* malloc moves a buffer from the free list out.
LEMMA AccountedMalloc ==
  ASSUME NEW pool, NEW idle, NEW items, NEW out, NEW b \in idle,
         Accounted(pool, idle, items, out)
  PROVE  Accounted(pool, idle \ {b}, items, out \cup {b})
BY DEF Accounted

\* free moves it back.
LEMMA AccountedFree ==
  ASSUME NEW pool, NEW idle, NEW items, NEW out, NEW b \in out,
         Accounted(pool, idle, items, out)
  PROVE  Accounted(pool, idle \cup {b}, items, out \ {b})
BY DEF Accounted

\* putq moves a buffer that is out into the queue.
LEMMA AccountedPut ==
  ASSUME NEW S, NEW pool, NEW idle, NEW items \in Seq(S), NEW out, NEW b \in out,
         b \in S, b # Null,
         Accounted(pool, idle, items, out)
  PROVE  Accounted(pool, idle, Append(items, b), out \ {b})
<1>1. b \notin BufsIn(items)
  BY DEF Accounted
<1>2. NoRepeat(Append(items, b))
  BY <1>1, NoRepeatAppend DEF Accounted
<1>3. BufsIn(Append(items, b)) = BufsIn(items) \cup {b}
  BY BufsInAppend DEF Held
<1> QED
  BY <1>1, <1>2, <1>3 DEF Accounted

\* putq(NULL) moves no buffer.
LEMMA AccountedPutNull ==
  ASSUME NEW S, NEW pool, NEW idle, NEW items \in Seq(S), NEW out, Null \in S,
         Accounted(pool, idle, items, out)
  PROVE  Accounted(pool, idle, Append(items, Null), out)
<1>1. Null \notin BufsIn(items)
  BY DEF BufsIn
<1>2. NoRepeat(Append(items, Null))
  BY <1>1, NoRepeatAppend DEF Accounted
<1>3. BufsIn(Append(items, Null)) = BufsIn(items) \cup Held(Null)
  BY BufsInAppend
<1>4. Held(Null) = {}
  BY DEF Held
<1> QED
  BY <1>2, <1>3, <1>4 DEF Accounted

\* getq moves the first buffer of the queue out.
LEMMA AccountedGet ==
  ASSUME NEW S, NEW pool, NEW idle, NEW items \in Seq(S), NEW out, items # <<>>,
         Accounted(pool, idle, items, out)
  PROVE  Accounted(pool, idle, Tail(items), out \cup Held(Head(items)))
<1>1. /\ BufsIn(items) = BufsIn(Tail(items)) \cup Held(Head(items))
      /\ BufsIn(Tail(items)) \cap Held(Head(items)) = {}
      /\ NoRepeat(Tail(items))
  BY TakeHead DEF Accounted
<1> QED
  BY <1>1 DEF Accounted
-----------------------------------------------------------------------------
(* The stages.                                                             *)

\* The buffers of all stages, pools[s] being the pool of s.
AllAccounted(stages, pools) == \A s \in stages : StageAccounted(s, pools[s])

\* A stage's thread holds a buffer exactly while it works on one.
HandHeld(s) == hand[s] # Null <=> svc[s] \in {"busy", "done"}
-----------------------------------------------------------------------------
\* What concerns no buffer disturbs nothing.
LEMMA AccountUnchanged ==
  ASSUME NEW stages, NEW pools, AllAccounted(stages, pools),
         UNCHANGED <<queue, free, fill, hand, lost>>
  PROVE  AllAccounted(stages, pools)'
<1>1. \A s \in stages : Out(s)' = Out(s)
  BY DEF Out
<1> QED
  BY <1>1 DEF AllAccounted, StageAccounted

\* A stage whose part of the state is unchanged stays accounted.
LEMMA OtherStage ==
  ASSUME NEW t, NEW pool, StageAccounted(t, pool),
         /\ queue'[t] = queue[t] /\ free'[t] = free[t] /\ fill'[t] = fill[t]
         /\ hand'[t] = hand[t] /\ lost'[t] = lost[t]
  PROVE  StageAccounted(t, pool)'
<1>1. Out(t)' = Out(t)
  BY DEF Out
<1> QED
  BY <1>1 DEF StageAccounted

\* Taking a buffer to fill.
LEMMA TakeBufferStep ==
  ASSUME NEW stages, NEW bufs, NEW frames, NEW pools, Null \notin bufs,
         TaskTypeOK(stages, bufs, frames), AllAccounted(stages, pools),
         NEW s \in stages, NEW f, TakeBuffer(s, f)
  PROVE  AllAccounted(stages, pools)'
<1>1. PICK b \in free[s] :
        /\ free' = [free EXCEPT ![s] = @ \ {b}]
        /\ fill' = [fill EXCEPT ![s] = b]
  BY DEF TakeBuffer
<1>2. /\ queue' = queue /\ hand' = hand /\ lost' = lost
      /\ fill[s] = Null /\ b # Null
      /\ fill'[s] = b /\ free'[s] = free[s] \ {b}
  BY <1>1 DEF TakeBuffer, TaskTypeOK
<1>3. StageAccounted(s, pools[s])
  BY DEF AllAccounted
<1>4. Out(s)' = Out(s) \cup {b}
  BY <1>2 DEF Out, Held
<1>5. Accounted(pools[s], free'[s], queue'[s], Out(s)')
  BY <1>2, <1>3, <1>4, AccountedMalloc DEF StageAccounted
<1>6. b \notin Out(s)
  BY <1>3 DEF StageAccounted, Accounted
<1>7. fill'[s] # hand'[s] /\ fill'[s] \notin lost'[s] /\ hand'[s] \notin lost'[s]
  BY <1>2, <1>3, <1>6 DEF Out, Held, StageAccounted
<1>8. \A t \in stages \ {s} : StageAccounted(t, pools[t])'
  <2>1. \A t \in stages \ {s} : free'[t] = free[t] /\ fill'[t] = fill[t]
    BY <1>1 DEF TaskTypeOK
  <2> QED
    BY <1>2, <2>1, OtherStage DEF AllAccounted
<1>9. StageAccounted(s, pools[s])'
  BY <1>5, <1>7 DEF StageAccounted
<1> QED
  BY <1>8, <1>9 DEF AllAccounted

\* Queueing it: the queue has it, or, deactivated, no one.
LEMMA PutBufferStep ==
  ASSUME NEW stages, NEW bufs, NEW frames, NEW pools, Null \notin bufs,
         TaskTypeOK(stages, bufs, frames), AllAccounted(stages, pools),
         NEW s \in stages, PutBuffer(s)
  PROVE  AllAccounted(stages, pools)'
<1> DEFINE b == fill[s]
           Messages == bufs \cup {Null}
<1>1. /\ b # Null /\ free' = free /\ hand' = hand
      /\ fill' = [fill EXCEPT ![s] = Null]
      /\ queue' = [queue EXCEPT ![s] = Putq(qstate[s], @, b)]
      /\ lost' = [lost EXCEPT ![s] = IF qstate[s] = "activated" THEN @ ELSE @ \cup {b}]
  BY DEF PutBuffer
<1>2. /\ StageAccounted(s, pools[s])
      /\ Accounted(pools[s], free[s], queue[s], Out(s))
      /\ b # hand[s] /\ b \notin lost[s] /\ hand[s] \notin lost[s]
  BY <1>1 DEF AllAccounted, StageAccounted
<1>3. /\ fill'[s] = Null /\ Null \notin lost[s]
      /\ queue[s] \in Seq(Messages) /\ b \in Messages
  BY <1>1 DEF TaskTypeOK
<1>4. b \in Out(s)
  BY <1>1 DEF Out, Held
<1>5. ASSUME qstate[s] = "activated" PROVE StageAccounted(s, pools[s])'
  <2>1. queue'[s] = Append(queue[s], b) /\ lost'[s] = lost[s]
    BY <1>1, <1>5 DEF Putq, TaskTypeOK
  <2>2. Out(s)' = Out(s) \ {b}
    BY <1>1, <1>2, <1>3, <2>1 DEF Out, Held
  <2>3. Accounted(pools[s], free[s], Append(queue[s], b), Out(s) \ {b})
    <3> HIDE DEF b, Messages
    <3> QED
      BY <1>1, <1>2, <1>3, <1>4, AccountedPut
  <2> QED
    BY <1>1, <1>2, <1>3, <2>1, <2>2, <2>3 DEF StageAccounted
<1>6. ASSUME qstate[s] # "activated" PROVE StageAccounted(s, pools[s])'
  <2>1. queue'[s] = queue[s] /\ lost'[s] = lost[s] \cup {b}
    BY <1>1, <1>6 DEF Putq, TaskTypeOK
  <2>2. Out(s)' = Out(s)
    BY <1>1, <1>3, <2>1 DEF Out, Held
  <2> QED
    BY <1>1, <1>2, <1>3, <2>1, <2>2 DEF StageAccounted
<1>7. \A t \in stages \ {s} : StageAccounted(t, pools[t])'
  <2>1. \A t \in stages \ {s} : /\ fill'[t] = fill[t] /\ queue'[t] = queue[t]
                                /\ lost'[t] = lost[t]
    BY <1>1 DEF TaskTypeOK
  <2> QED
    BY <1>1, <2>1, OtherStage DEF AllAccounted
<1> QED
  BY <1>5, <1>6, <1>7 DEF AllAccounted

\* stop()'s close message.
LEMMA PutCloseStep ==
  ASSUME NEW stages, NEW bufs, NEW frames, NEW pools,
         TaskTypeOK(stages, bufs, frames), AllAccounted(stages, pools),
         NEW s \in stages, PutClose(s)
  PROVE  AllAccounted(stages, pools)'
<1> DEFINE Messages == bufs \cup {Null}
<1>1. /\ free' = free /\ fill' = fill /\ hand' = hand /\ lost' = lost
      /\ queue' = [queue EXCEPT ![s] = Putq(qstate[s], @, Null)]
  BY DEF PutClose
<1>2. StageAccounted(s, pools[s]) /\ Out(s)' = Out(s)
  BY <1>1 DEF Out, AllAccounted
<1>3. queue[s] \in Seq(Messages) /\ Null \in Messages
  BY DEF TaskTypeOK
<1>4. Accounted(pools[s], free[s], queue[s], Out(s))
  BY <1>2 DEF StageAccounted
<1>5. Accounted(pools[s], free[s], Append(queue[s], Null), Out(s))
  <2> HIDE DEF Messages
  <2> QED
    BY <1>3, <1>4, AccountedPutNull
<1>6. queue'[s] = queue[s] \/ queue'[s] = Append(queue[s], Null)
  BY <1>1 DEF Putq, TaskTypeOK
<1>7. StageAccounted(s, pools[s])'
  BY <1>1, <1>2, <1>4, <1>5, <1>6 DEF StageAccounted
<1>8. \A t \in stages \ {s} : StageAccounted(t, pools[t])'
  <2>1. \A t \in stages \ {s} : queue'[t] = queue[t]
    BY <1>1 DEF TaskTypeOK
  <2> QED
    BY <1>1, <2>1, OtherStage DEF AllAccounted
<1> QED
  BY <1>7, <1>8 DEF AllAccounted

\* Taking a message out of the queue.
LEMMA GetMessageStep ==
  ASSUME NEW stages, NEW bufs, NEW frames, NEW pools, Null \notin bufs,
         TaskTypeOK(stages, bufs, frames), AllAccounted(stages, pools),
         NEW s \in stages, HandHeld(s), GetMessage(s)
  PROVE  AllAccounted(stages, pools)'
<1> DEFINE b == Head(queue[s])
<1>1. /\ free' = free /\ fill' = fill /\ lost' = lost
      /\ queue[s] # <<>> /\ hand[s] = Null
      /\ queue' = [queue EXCEPT ![s] = Tail(@)]
      /\ hand' = [hand EXCEPT ![s] = b]
  BY DEF GetMessage, CanGetq, HandHeld
<1>2. /\ queue'[s] = Tail(queue[s]) /\ hand'[s] = b
      /\ queue[s] \in Seq(bufs \cup {Null}) /\ Null \notin lost[s]
  BY <1>1 DEF TaskTypeOK
<1>3. StageAccounted(s, pools[s])
  BY DEF AllAccounted
<1>4. Accounted(pools[s], free[s], queue[s], Out(s))
  BY <1>3 DEF StageAccounted
<1>5. Out(s)' = Out(s) \cup Held(b)
  BY <1>1, <1>2 DEF Out, Held
<1>6. Accounted(pools[s], free'[s], queue'[s], Out(s)')
  BY <1>1, <1>2, <1>4, <1>5, AccountedGet
<1>7. b # Null => b \notin Out(s)
  <2>1. b # Null => b \in BufsIn(queue[s])
    BY <1>1, <1>2 DEF BufsIn
  <2> QED
    BY <1>4, <2>1 DEF Accounted
<1>8. /\ fill'[s] = hand'[s] => fill'[s] = Null
      /\ fill'[s] \notin lost'[s] /\ hand'[s] \notin lost'[s]
  BY <1>1, <1>2, <1>3, <1>7 DEF Out, Held, StageAccounted
<1>9. StageAccounted(s, pools[s])'
  BY <1>6, <1>8 DEF StageAccounted
<1>10. \A t \in stages \ {s} : StageAccounted(t, pools[t])'
  <2>1. \A t \in stages \ {s} : queue'[t] = queue[t] /\ hand'[t] = hand[t]
    BY <1>1 DEF TaskTypeOK
  <2> QED
    BY <1>1, <2>1, OtherStage DEF AllAccounted
<1> QED
  BY <1>9, <1>10 DEF AllAccounted

\* Giving the buffer back to the pool.
LEMMA GiveBackStep ==
  ASSUME NEW stages, NEW bufs, NEW frames, NEW pools, Null \notin bufs,
         TaskTypeOK(stages, bufs, frames), AllAccounted(stages, pools),
         NEW s \in stages, HandHeld(s), GiveBack(s)
  PROVE  AllAccounted(stages, pools)'
<1> DEFINE b == hand[s]
<1>1. /\ queue' = queue /\ fill' = fill /\ lost' = lost /\ b # Null
      /\ free' = [free EXCEPT ![s] = @ \cup {b}]
      /\ hand' = [hand EXCEPT ![s] = Null]
  BY DEF GiveBack, HandHeld
<1>2. /\ free'[s] = free[s] \cup {b} /\ hand'[s] = Null /\ Null \notin lost[s]
  BY <1>1 DEF TaskTypeOK
<1>3. StageAccounted(s, pools[s]) /\ fill[s] # b /\ b \notin lost[s]
  BY <1>1 DEF AllAccounted, StageAccounted
<1>4. b \in Out(s) /\ Out(s)' = Out(s) \ {b}
  BY <1>1, <1>2, <1>3 DEF Out, Held
<1>5. Accounted(pools[s], free'[s], queue'[s], Out(s)')
  BY <1>1, <1>2, <1>3, <1>4, AccountedFree DEF StageAccounted
<1>6. StageAccounted(s, pools[s])'
  BY <1>1, <1>2, <1>3, <1>5 DEF StageAccounted
<1>7. \A t \in stages \ {s} : StageAccounted(t, pools[t])'
  <2>1. \A t \in stages \ {s} : free'[t] = free[t] /\ hand'[t] = hand[t]
    BY <1>1 DEF TaskTypeOK
  <2> QED
    BY <1>1, <2>1, OtherStage DEF AllAccounted
<1> QED
  BY <1>6, <1>7 DEF AllAccounted

\* A pipeline starts with every buffer free.
LEMMA TaskInitAccounted ==
  ASSUME NEW stages, NEW bufs, NEW pools, DOMAIN pools = stages,
         TaskInit(pools, bufs)
  PROVE  AllAccounted(stages, pools)
<1>1. \A s \in stages : /\ queue[s] = <<>> /\ free[s] = pools[s] /\ lost[s] = {}
                        /\ fill[s] = Null /\ hand[s] = Null
  BY DEF TaskInit
<1>2. \A s \in stages : Out(s) = {}
  BY <1>1 DEF Out, Held
<1>3. BufsIn(<<>>) = {} /\ NoRepeat(<<>>)
  BY DEF BufsIn, NoRepeat
<1> QED
  BY <1>1, <1>2, <1>3 DEF AllAccounted, StageAccounted, Accounted
-----------------------------------------------------------------------------
(* How much is out of a pool at a time.                                    *)

\* As putq waits while a message is queued, no queue ever holds two.
QueuesOfOne(stages) == \A s \in stages : Len(queue[s]) <= 1

LEMMA OneMessageStep ==
  ASSUME NEW stages, NEW bufs, NEW frames,
         TaskTypeOK(stages, bufs, frames), QueuesOfOne(stages),
         NEW s \in stages, PutBuffer(s) \/ PutClose(s) \/ GetMessage(s)
  PROVE  QueuesOfOne(stages)'
<1> DEFINE Messages == bufs \cup {Null}
<1>1. /\ queue \in [stages -> Seq(Messages)] /\ queue[s] \in Seq(Messages)
      /\ qstate[s] \in QueueState /\ Len(queue[s]) <= 1
  BY DEF TaskTypeOK, QueuesOfOne
<1>2. CASE PutBuffer(s) \/ PutClose(s)
  <2>1. PICK m : queue' = [queue EXCEPT ![s] = Putq(qstate[s], @, m)]
    BY <1>2 DEF PutBuffer, PutClose
  <2>2. qstate[s] = "activated" => queue[s] = <<>>
    BY <1>2 DEF PutBuffer, PutClose, PutqWaits
  <2>3. qstate[s] = "activated" => Len(queue'[s]) <= 1
    <3>1. Len(Append(<<>>, m)) <= 1
      OBVIOUS
    <3>2. qstate[s] = "activated" => queue'[s] = Append(<<>>, m)
      BY <1>1, <2>1, <2>2 DEF Putq
    <3> QED
      BY <3>1, <3>2
  <2>4. qstate[s] # "activated" => queue'[s] = queue[s]
    BY <1>1, <2>1 DEF Putq
  <2>5. \A t \in stages \ {s} : queue'[t] = queue[t]
    BY <1>1, <2>1
  <2>6. Len(queue'[s]) <= 1
    BY <1>1, <2>3, <2>4
  <2> QED
    BY <2>5, <2>6 DEF QueuesOfOne
<1>3. CASE GetMessage(s)
  <2>1. queue[s] # <<>> /\ queue' = [queue EXCEPT ![s] = Tail(@)]
    BY <1>3 DEF GetMessage, CanGetq
  <2>2. queue'[s] = Tail(queue[s]) /\ Len(Tail(queue[s])) <= 1
    BY <1>1, <2>1
  <2>3. \A t \in stages \ {s} : queue'[t] = queue[t]
    BY <1>1, <2>1
  <2> QED
    BY <2>2, <2>3 DEF QueuesOfOne
<1> QED
  BY <1>2, <1>3

\* With one buffer in the queue and one with the thread at the most, a pool of
\* three that has lost none has one left for malloc.
LEMMA MallocFindsOne ==
  ASSUME NEW S, NEW pool, NEW s, queue[s] \in Seq(S), Len(queue[s]) <= 1,
         StageAccounted(s, pool), AtLeastThree(pool), lost[s] = {}
  PROVE  ~PoolExhausted(s)
<1> SUFFICES ASSUME fill[s] = Null, free[s] = {}
             PROVE  FALSE
  BY DEF PoolExhausted
<1>1. DOMAIN queue[s] = 1..Len(queue[s]) /\ Len(queue[s]) \in Nat
  OBVIOUS
<1>2. DOMAIN queue[s] \subseteq {1}
  BY <1>1
<1>3. BufsIn(queue[s]) \subseteq {queue[s][1]}
  BY <1>2 DEF BufsIn
<1>4. Out(s) \subseteq {hand[s]}
  BY DEF Out, Held
<1>5. pool \subseteq {queue[s][1], hand[s]}
  BY <1>3, <1>4 DEF StageAccounted, Accounted
<1> QED
  BY <1>5 DEF AtLeastThree
=============================================================================
