------------------------------ MODULE NaluFifo ------------------------------
(***************************************************************************)
(* What a sender and a receiver of NALUs promise over a network that keeps *)
(* and orders its datagrams: every NALU sent is delivered once, whole, in  *)
(* the order of sending.                                                   *)
(***************************************************************************)
EXTENDS Naturals, Sequences

VARIABLES
  sent,      \* NALUs sent so far
  received   \* what was delivered so far

vars == <<sent, received>>

Init == sent = <<>> /\ received = <<>>

Send(n) == sent' = Append(sent, n) /\ UNCHANGED received

Deliver ==
  /\ Len(received) < Len(sent)
  /\ received' = Append(received, sent[Len(received) + 1])
  /\ UNCHANGED sent

\* A NALU is whatever the sender appends.
Next == (sent' # <<>> /\ Send(sent'[Len(sent')])) \/ Deliver

Spec == Init /\ [][Next]_vars

\* What has been sent does not wait for ever.
Progress == WF_vars(Deliver)
=============================================================================
