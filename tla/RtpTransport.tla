---------------------------- MODULE RtpTransport ----------------------------
(***************************************************************************)
(* NALUs over RTP: Nalu2Rtp_H264::pack_and_send, which splits a NALU into  *)
(* packets, the UDP network, and Rtp2Nalu_H264::rtp_parse with the loop of *)
(* Rtp_Recv_Handler::svc, which puts it together again and delivers it.    *)
(*                                                                         *)
(* A NALU is known by its number; its byte k is <<number, k>>, and byte 0  *)
(* is its header.  The start code that both ends strip and add is left     *)
(* out, and so is the sequence number, which the receiver never reads.     *)
(***************************************************************************)
EXTENDS Integers, Sequences, FiniteSets, SequencesExt

CONSTANTS
  FragmentSize,  \* RTP_FRAGMENT_SIZE (1400)
  Lengths,       \* lengths of the NALUs sent (nc_len)
  Networks,      \* the networks: what each may do of "lose", "duplicate",
                 \* "reorder", "restart" (the receiver) and "foreign" packets
  MaxNalus,      \* bound: NALUs sent
  MaxInFlight,   \* bound: datagrams in flight
  MaxExtra       \* bound: datagrams duplicated or from other senders

ASSUME RtpAssumption ==
  /\ FragmentSize \in Nat \ {0}
  /\ Lengths \subseteq Nat \ {0}
  /\ Networks \subseteq SUBSET {"lose", "duplicate", "reorder", "restart", "foreign"}
  /\ MaxNalus \in Nat /\ MaxInFlight \in Nat /\ MaxExtra \in Nat

VARIABLES
  faults,     \* what this network may do
  packed,     \* lengths of the NALUs sent so far, by number
  fragment,   \* next fragment of the last of them to send, -1 if none
  net,        \* datagrams in flight, oldest first
  extra,      \* datagrams duplicated or from other senders so far
  open,       \* whether the receiver's socket is open
  assembly,   \* _nalu_buf[0 .. _nalu_len - 1], <<>> when _nalu_len = 0
  delivered   \* NALUs given to the callback

vars == <<faults, packed, fragment, net, extra, open, assembly, delivered>>

Bytes(n, first, last) == [k \in 1..(last - first + 1) |-> <<n, first + k - 1>>]
Nalu(n) == Bytes(n, 0, packed[n] - 1)

\* ceil((nc_len - 1) / RTP_FRAGMENT_SIZE): the header byte is not in a fragment.
Count(len) == (len - 1 + FragmentSize - 1) \div FragmentSize

Least(a, b) == IF a < b THEN a ELSE b

Single(n, len) == [kind |-> "single", nalu |-> n, body |-> Bytes(n, 0, len - 1)]

\* (Mutant: the fragments are counted from 1 where the end flag is given.)
FragmentCountedFrom1(n, len, i) ==
  [kind |-> "FU_A", nalu |-> n, start |-> i = 0, end |-> i # 0 /\ i = Count(len),
   body |-> Bytes(n, i * FragmentSize + 1, Least((i + 1) * FragmentSize, len - 1))]

\* Fragment i of NALU n: an "else if" gives the end flag.
Fragment(n, len, i) ==
  [kind  |-> "FU_A", nalu |-> n,
   start |-> i = 0,
   end   |-> i # 0 /\ i = Count(len) - 1,
   body  |-> Bytes(n, i * FragmentSize + 1, Least((i + 1) * FragmentSize, len - 1))]

\* Packets no pack_and_send makes, from other senders.
Foreign ==
  {[kind |-> "STAP_A", nalu |-> 0, body |-> <<>>],
   [kind |-> "FU_A", nalu |-> 0, start |-> TRUE, end |-> TRUE, body |-> <<<<0, 1>>>>]}

Init ==
  /\ faults \in Networks
  /\ packed = <<>> /\ fragment = -1
  /\ net = <<>> /\ extra = 0 /\ open = TRUE
  /\ assembly = <<>> /\ delivered = <<>>
-----------------------------------------------------------------------------
(* The sender.                                                             *)

\* sendto: a datagram for a socket that is not open vanishes.
SendTo(p) ==
  /\ Len(net) < MaxInFlight
  /\ net' = IF open THEN Append(net, p) ELSE net

PackSingle(len) ==
  /\ fragment = -1 /\ Len(packed) < MaxNalus
  /\ len <= FragmentSize
  /\ packed' = Append(packed, len)
  /\ SendTo(Single(Len(packed'), len))
  /\ UNCHANGED <<faults, fragment, extra, open, assembly, delivered>>

PackFragmented(len) ==
  /\ fragment = -1 /\ Len(packed) < MaxNalus
  /\ len > FragmentSize
  /\ packed' = Append(packed, len)
  /\ fragment' = 0
  /\ UNCHANGED <<faults, net, extra, open, assembly, delivered>>

SendFragment ==
  /\ fragment # -1
  /\ LET n == Len(packed) IN
       /\ SendTo(Fragment(n, packed[n], fragment))
       /\ fragment' = IF fragment = Count(packed[n]) - 1 THEN -1 ELSE fragment + 1
  /\ UNCHANGED <<faults, packed, extra, open, assembly, delivered>>
-----------------------------------------------------------------------------
(* The network.                                                            *)

Lose(i) ==
  /\ "lose" \in faults
  /\ net' = RemoveAt(net, i)
  /\ UNCHANGED <<faults, packed, fragment, extra, open, assembly, delivered>>

Extra == extra < MaxExtra /\ extra' = extra + 1

Duplicate(i) ==
  /\ "duplicate" \in faults
  /\ Extra
  /\ Len(net) < MaxInFlight
  /\ net' = InsertAt(net, i, net[i])
  /\ UNCHANGED <<faults, packed, fragment, open, assembly, delivered>>

ForeignSends(p) ==
  /\ "foreign" \in faults
  /\ Extra
  /\ SendTo(p)
  /\ UNCHANGED <<faults, packed, fragment, open, assembly, delivered>>
-----------------------------------------------------------------------------
(* The receiver: rtp_parse, the callback, and _nalu_len = 0 after it.      *)

\* (Mutant: _nalu_len is not reset after the callback.)
DeliversNoReset(nalu) == delivered' = Append(delivered, nalu) /\ UNCHANGED assembly

Delivers(nalu) == delivered' = Append(delivered, nalu) /\ assembly' = <<>>
Keeps(bytes) == assembly' = bytes /\ UNCHANGED delivered

\* (Mutants: a first fragment does not bring the header back, or does not start
\* again at the first byte of the buffer, or is not waited for.)
ParseFragment(p, first, started) ==
  \/ p.kind = "single" /\ Delivers(p.body)
  \/ p.kind = "STAP_A" /\ Keeps(assembly)
  \/ p.kind = "FU_A" /\ p.start /\ p.end /\ Keeps(assembly)
  \/ p.kind = "FU_A" /\ p.start /\ ~p.end /\ Keeps(first \o p.body)
  \/ p.kind = "FU_A" /\ ~p.start /\ ~started /\ Keeps(assembly)
  \/ p.kind = "FU_A" /\ ~p.start /\ started /\ p.end /\ Delivers(assembly \o p.body)
  \/ p.kind = "FU_A" /\ ~p.start /\ started /\ ~p.end /\ Keeps(assembly \o p.body)
ParseNoHeader(p) == ParseFragment(p, <<>>, assembly # <<>>)
ParseStartAppends(p) == ParseFragment(p, assembly \o <<<<p.nalu, 0>>>>, assembly # <<>>)
ParseAnyStart(p) == ParseFragment(p, <<<<p.nalu, 0>>>>, TRUE)

Parse(p) ==
  \/ /\ p.kind = "single"
     /\ Delivers(p.body)
  \/ /\ p.kind = "STAP_A"                       \* not supported
     /\ Keeps(assembly)
  \/ /\ p.kind = "FU_A" /\ p.start /\ p.end     \* rejected
     /\ Keeps(assembly)
  \/ /\ p.kind = "FU_A" /\ p.start /\ ~p.end    \* the header comes back
     /\ Keeps(<<<<p.nalu, 0>>>> \o p.body)
  \/ /\ p.kind = "FU_A" /\ ~p.start
     /\ IF assembly = <<>> THEN Keeps(assembly)
        ELSE IF p.end THEN Delivers(assembly \o p.body)
        ELSE Keeps(assembly \o p.body)

Receive(i) ==
  /\ i = 1 \/ "reorder" \in faults
  /\ Parse(net[i])
  /\ net' = RemoveAt(net, i)
  /\ UNCHANGED <<faults, packed, fragment, extra, open>>

\* stop() closes the socket and loses what it has not read; neither it nor
\* start() resets _nalu_len.
Stop ==
  /\ "restart" \in faults
  /\ open /\ open' = FALSE
  /\ net' = <<>>
  /\ UNCHANGED <<faults, packed, fragment, extra, assembly, delivered>>

Start ==
  /\ ~open /\ open' = TRUE
  /\ UNCHANGED <<faults, packed, fragment, net, extra, assembly, delivered>>
-----------------------------------------------------------------------------
Sender == (\E len \in Lengths : PackSingle(len) \/ PackFragmented(len)) \/ SendFragment
Network == (\E i \in DOMAIN net : Lose(i) \/ Duplicate(i)) \/ \E p \in Foreign : ForeignSends(p)
Receiver == (\E i \in DOMAIN net : Receive(i)) \/ Stop \/ Start

Next == Sender \/ Network \/ Receiver

Spec == Init /\ [][Next]_vars

\* The sending and the receiving thread run.
FairSpec ==
  /\ Spec
  /\ WF_vars(SendFragment)
  /\ WF_vars(\E i \in DOMAIN net : Receive(i))
-----------------------------------------------------------------------------
(* Type invariant.                                                         *)
AnyByte == (0..MaxNalus) \X Nat
TypeOK ==
  /\ faults \in Networks
  /\ packed \in Seq(Lengths) /\ Len(packed) <= MaxNalus
  /\ fragment \in -1..(IF packed = <<>> THEN -1 ELSE Count(Last(packed)) - 1)
  /\ Len(net) <= MaxInFlight /\ extra \in 0..MaxExtra
  /\ \A i \in DOMAIN net : net[i].nalu \in 0..MaxNalus /\ net[i].body \in Seq(AnyByte)
  /\ open \in BOOLEAN
  /\ assembly \in Seq(AnyByte)
  /\ delivered \in Seq(Seq(AnyByte) \ {<<>>})

(* Safety.                                                                 *)

\* The bytes of NALUs m before n, and of one NALU in ascending order.
Precedes(b, c) == b[1] < c[1] \/ (b[1] = c[1] /\ b[2] < c[2])
Ascends(bytes) == \A i, j \in DOMAIN bytes : i < j => Precedes(bytes[i], bytes[j])
Earlier(some, others) ==
  \A i \in DOMAIN some, j \in DOMAIN others : Precedes(some[i], others[j])

\* Over a network that loses datagrams but keeps their order, and across
\* restarts of the receiver, what is delivered is the sender's byte stream
\* with pieces missing: nothing is repeated, moved or made up.
DeliveredAscends ==
  faults \subseteq {"lose", "restart"} =>
    \A d \in DOMAIN delivered :
      /\ Ascends(delivered[d])
      /\ \A e \in DOMAIN delivered : d < e => Earlier(delivered[d], delivered[e])

\* Whatever the network does, a delivered NALU starts with a header and the
\* first fragment after it, and has no second header: the decoder is never
\* given a NALU whose start is missing.
DeliveredHasItsStart ==
  \A d \in DOMAIN delivered :
    LET nalu == delivered[d]
        whole == packed[nalu[1][1]]
        first == Bytes(nalu[1][1], 0,
                       Least(whole - 1, IF whole <= FragmentSize THEN whole ELSE FragmentSize))
    IN /\ IsPrefix(first, nalu)
       /\ \A k \in 2..Len(nalu) : nalu[k][2] # 0

\* rtp_parse appends to _nalu_buf without a test of its size.  As long as the
\* network has no faults the buffer never holds more than one NALU, although
\* the one before it may have stayed there unfinished; with a loss it may.
AssemblyIsOneNalu ==
  faults = {} /\ assembly # <<>> => IsPrefix(assembly, Nalu(assembly[1][1]))

\* When the sender is idle and no datagram is in flight, no NALU is still held
\* back at the receiver: the last fragment sent completes it (rtp_parse delivers
\* on fu_header->end, which test/video_decoder_test/main.cpp:187 calls the last
\* fragment).
NothingHeldBack ==
  fragment = -1 /\ net = <<>> => Len(delivered) = Len(packed)

\* NALUs that exceed a packet by one byte are passed over: those of the first n
\* that are not, and the k-th of all that are not.
Completed(len) == len # FragmentSize + 1
CompletedUpTo(n) == {m \in 1..n : Completed(packed[m])}
Kth(k) == CHOOSE n \in DOMAIN packed : Completed(packed[n]) /\ Cardinality(CompletedUpTo(n)) = k
Complete == [k \in 1..Cardinality(CompletedUpTo(Len(packed))) |-> Nalu(Kth(k))]

\* Over a network without faults the two ends implement a queue of NALUs, for
\* those that are not passed over: these leave something in the receiver, which
\* does no harm to the others.
Fifo == INSTANCE NaluFifo WITH
          sent <- IF faults = {} THEN Complete ELSE <<>>,
          received <- IF faults = {} THEN delivered ELSE <<>>
DeliversInOrder == Fifo!Spec

\* ... and each of them arrives.
DeliversEveryNalu == Fifo!Progress
=============================================================================
