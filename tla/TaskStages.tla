----------------------------- MODULE TaskStages -----------------------------
(***************************************************************************)
(* A stage of a pipeline: Video_Decoder_Task, Video_Render_Task,           *)
(* Video_Encoder_Task and Nalu2Rtp_Handler are the same ACE task around    *)
(* different work.  Each has a message queue, a pool of buffers, one       *)
(* thread (svc) that takes buffers from the queue, works and frees them,   *)
(* and an operator() that the upstream thread calls: it takes a buffer of  *)
(* the pool, copies a frame into it and queues it.                         *)
(*                                                                         *)
(* The operators below are the steps of one stage s; a pipeline puts them  *)
(* together with its other threads.                                        *)
(***************************************************************************)
EXTENDS AceTask

VARIABLES
  svc,       \* thread: "down", "getq", "busy" with a buffer, or "done" with it
  qstate,    \* state of the message queue
  queue,     \* messages in the queue
  free,      \* free list of the pool
  fill,      \* buffer operator() has taken and not yet queued
  hand,      \* buffer the thread has taken out of the queue
  lost,      \* buffers no one holds any more (history)
  data       \* by buffer: the frame last copied into it

taskVars == <<svc, qstate, queue, free, fill, hand, lost, data>>

TaskInit(pool, bufs) ==
  LET stages == DOMAIN pool IN
  /\ svc = [s \in stages |-> "down"]
  /\ qstate = [s \in stages |-> "activated"]
  /\ queue = [s \in stages |-> <<>>]
  /\ free = pool
  /\ fill = [s \in stages |-> Null]
  /\ hand = [s \in stages |-> Null]
  /\ lost = [s \in stages |-> {}]
  /\ data = [b \in bufs |-> 0]
-----------------------------------------------------------------------------
(* start() and stop(), called by the GUI thread.                           *)

\* (Mutant: activate() of the queue is forgotten.)
StartTaskQueueClosed(s) ==
  /\ svc' = [svc EXCEPT ![s] = IF @ = "down" THEN "getq" ELSE @]
  /\ UNCHANGED <<qstate, queue, free, fill, hand, lost, data>>

\* The queue is activated, whatever a stop left in it, and a thread is spawned
\* unless the task already has one.
StartTask(s) ==
  /\ qstate' = [qstate EXCEPT ![s] = "activated"]
  /\ svc' = [svc EXCEPT ![s] = IF @ = "down" THEN "getq" ELSE @]
  /\ UNCHANGED <<queue, free, fill, hand, lost, data>>

PutClose(s) ==
  /\ ~PutqWaits(qstate[s], queue[s])
  /\ queue' = [queue EXCEPT ![s] = Putq(qstate[s], @, Null)]
  /\ UNCHANGED <<svc, qstate, free, fill, hand, lost, data>>

Deactivate(s) ==
  /\ qstate' = [qstate EXCEPT ![s] = "deactivated"]
  /\ UNCHANGED <<svc, queue, free, fill, hand, lost, data>>
-----------------------------------------------------------------------------
(* operator(), called by the upstream thread.                              *)

\* (Mutant: the memcpy is forgotten, and the buffer keeps its old frame.)
TakeBufferNoCopy(s, f) ==
  /\ fill[s] = Null
  /\ \E b \in free[s] :
       /\ free' = [free EXCEPT ![s] = @ \ {b}]
       /\ fill' = [fill EXCEPT ![s] = b]
  /\ UNCHANGED <<svc, qstate, queue, hand, lost, data>>

\* malloc succeeds, and frame f is copied into the buffer.
TakeBuffer(s, f) ==
  /\ fill[s] = Null
  /\ \E b \in free[s] :
       /\ free' = [free EXCEPT ![s] = @ \ {b}]
       /\ fill' = [fill EXCEPT ![s] = b]
       /\ data' = [data EXCEPT ![b] = f]
  /\ UNCHANGED <<svc, qstate, queue, hand, lost>>

\* malloc returns NULL.
PoolExhausted(s) == fill[s] = Null /\ free[s] = {}

\* (Mutant: the pointer is not reset after putq.)
PutBufferKeepsPointer(s) ==
  /\ fill[s] # Null
  /\ ~PutqWaits(qstate[s], queue[s])
  /\ queue' = [queue EXCEPT ![s] = Putq(qstate[s], @, fill[s])]
  /\ UNCHANGED <<qstate, free, fill, hand, lost, data>>

\* putq, whose result is ignored: on a deactivated queue the buffer is lost.
PutBuffer(s) ==
  /\ fill[s] # Null
  /\ ~PutqWaits(qstate[s], queue[s])
  /\ queue' = [queue EXCEPT ![s] = Putq(qstate[s], @, fill[s])]
  /\ lost' = [lost EXCEPT ![s] = IF qstate[s] = "activated" THEN @ ELSE @ \cup {fill[s]}]
  /\ fill' = [fill EXCEPT ![s] = Null]
  /\ UNCHANGED <<qstate, free, hand, data>>
-----------------------------------------------------------------------------
(* svc(), the stage's thread.                                              *)

\* getq: a NULL message ends the thread.
GetMessage(s) ==
  /\ svc[s] = "getq"
  /\ CanGetq(qstate[s], queue[s])
  /\ queue' = [queue EXCEPT ![s] = Tail(@)]
  /\ hand' = [hand EXCEPT ![s] = Head(queue[s])]
  /\ svc' = [svc EXCEPT ![s] = IF Head(queue[s]) = Null THEN "down" ELSE "busy"]
  /\ UNCHANGED <<qstate, free, fill, lost, data>>

\* getq on a deactivated queue ends it too.
GetFails(s) ==
  /\ svc[s] = "getq"
  /\ GetqFails(qstate[s])
  /\ svc' = [svc EXCEPT ![s] = "down"]
  /\ UNCHANGED <<qstate, queue, free, fill, hand, lost, data>>

\* The work on the buffer is over.
Finish(s) ==
  /\ svc[s] = "busy"
  /\ svc' = [svc EXCEPT ![s] = "done"]

GiveBack(s) ==
  /\ svc[s] = "done"
  /\ free' = [free EXCEPT ![s] = @ \cup {hand[s]}]
  /\ hand' = [hand EXCEPT ![s] = Null]
  /\ svc' = [svc EXCEPT ![s] = "getq"]
  /\ UNCHANGED <<qstate, queue, fill, lost, data>>
-----------------------------------------------------------------------------
TaskTypeOK(stages, bufs, frames) ==
  /\ svc \in [stages -> {"down", "getq", "busy", "done"}]
  /\ qstate \in [stages -> QueueState]
  /\ queue \in [stages -> Seq(bufs \cup {Null})]
  /\ free \in [stages -> SUBSET bufs]
  /\ fill \in [stages -> bufs \cup {Null}]
  /\ hand \in [stages -> bufs \cup {Null}]
  /\ lost \in [stages -> SUBSET bufs]
  /\ data \in [bufs -> frames]

\* The buffers of s that are neither on its free list nor in its queue.
Out(s) == Held(fill[s]) \cup Held(hand[s]) \cup lost[s]

\* No buffer is given out twice or queued twice, one that malloc took is freed,
\* queued, held or lost, and the producer never fills the buffer the consumer
\* reads.
StageAccounted(s, pool) ==
  /\ Accounted(pool, free[s], queue[s], Out(s))
  /\ fill[s] = hand[s] => fill[s] = Null
  /\ fill[s] \notin lost[s] /\ hand[s] \notin lost[s]
=============================================================================
