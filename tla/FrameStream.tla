----------------------------- MODULE FrameStream -----------------------------
(***************************************************************************)
(* What a media pipeline promises: frames enter it numbered 1, 2, 3, ...,  *)
(* any frame may be dropped on the way, and those that come out do so in   *)
(* the order they entered, each at most once.                              *)
(***************************************************************************)
EXTENDS Naturals

VARIABLES
  produced,   \* frames that entered
  pending,    \* those that may still come out
  shown       \* the last one that came out, 0 at first

vars == <<produced, pending, shown>>

Init == produced = 0 /\ pending = {} /\ shown = 0

Produce ==
  /\ produced' = produced + 1
  /\ pending' = pending \cup {produced'}
  /\ UNCHANGED shown

Drop(f) ==
  /\ pending' = pending \ {f}
  /\ UNCHANGED <<produced, shown>>

Show(f) ==
  /\ shown < f
  /\ \A g \in pending : f <= g
  /\ shown' = f
  /\ pending' = pending \ {f}
  /\ UNCHANGED produced

Next == Produce \/ \E f \in pending : Drop(f) \/ Show(f)

Spec == Init /\ [][Next]_vars
=============================================================================
