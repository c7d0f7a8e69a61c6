------------------------------- MODULE AceTask -------------------------------
(***************************************************************************)
(* The two ACE classes every stage of the endpoint is built from, as the   *)
(* code uses them (ACE itself is not part of the repository):              *)
(*                                                                         *)
(*   - ACE_Task_Ex's message queue.  It starts "activated".  It counts a   *)
(*     message, a NULL too, as the size of the type its pointer is of.     *)
(*     That is 8 to 9 MB here, and the high-water mark, which nobody sets, *)
(*     is 16384 bytes: one message makes the queue full.                   *)
(*     putq appends to an activated queue; on a full one it waits until    *)
(*     getq has made room or deactivate() wakes it.  It fails on a         *)
(*     deactivated queue (every caller ignores the failure).  getq fails   *)
(*     on a deactivated queue, whatever it holds, and otherwise blocks     *)
(*     until there is a message.  deactivate() wakes the blocked threads   *)
(*     and removes nothing; activate() makes what was left visible again.  *)
(*   - ACE_Cached_Allocator(n), a pool of n buffers: malloc takes a free   *)
(*     buffer, or returns NULL when none is free; free gives it back.      *)
(***************************************************************************)
EXTENDS Naturals, Sequences

CONSTANT Null      \* the NULL pointer: a close message, or no buffer at all

QueueState == {"activated", "deactivated"}

\* (Mutant: the high-water mark is raised above the size of a pool.)
PutqNeverWaits(st, items) == FALSE

\* putq waits on a queue in state st that holds items ...
PutqWaits(st, items) == st = "activated" /\ items # <<>>

\* ... and otherwise puts m into it, or returns -1.
Putq(st, items, m) == IF st = "activated" THEN Append(items, m) ELSE items

\* getq returns a message ...
CanGetq(st, items) == st = "activated" /\ items # <<>>

\* ... or returns -1.
GetqFails(st) == st = "deactivated"

\* Three different buffers: more than a thread can have in its hands while
\* another waits in the queue.
AtLeastThree(pool) == \E a, b, c \in pool : a # b /\ a # c /\ b # c

\* The pool's buffers a queue holds.
BufsIn(items) == {items[i] : i \in DOMAIN items} \ {Null}

\* A pointer that may be NULL, as the set of buffers it holds.
Held(ptr) == {ptr} \ {Null}

\* No buffer is queued twice.
NoRepeat(items) ==
  \A i, j \in DOMAIN items : items[i] = items[j] /\ items[i] # Null => i = j

\* Every buffer of pool is in exactly one place: on the free list, in the
\* queue, or out (held by a thread or lost).
Accounted(pool, free, items, out) ==
  /\ pool = free \cup BufsIn(items) \cup out
  /\ free \cap BufsIn(items) = {}
  /\ free \cap out = {}
  /\ out \cap BufsIn(items) = {}
  /\ NoRepeat(items)
=============================================================================
